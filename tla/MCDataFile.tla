----------------------------- MODULE MCDataFile -----------------------------
(***************************************************************************)
(* Small documents and schemas for DataFile: every document of up to four  *)
(* elements below the root built from the sites, values and data of the    *)
(* sample file, and schemas in the manner of Traffic.yml.                  *)
(***************************************************************************)
EXTENDS DataFileCorrectness, TLC

Element(depth, tag, attrs, text) == [depth |-> depth, tag |-> tag, attrs |-> attrs, text |-> text]
NoAttrs == [a \in {} |-> None]

NamespaceOf == [p \in {"ns1"} |-> "datex2"]
Site == <<"datex2", "site">>
Flow == <<"datex2", "flow">>
WellFormedTexts == [type \in {"int", "timestamp", "float"} |-> {"7", "8"}]

Root == Element(0, <<"root">>, NoAttrs, None)

IdOf(text) == [a \in {<<"id">>} |-> text]
SiteOf(depth, attrs) == Element(depth, Site, attrs, None)
FlowOf(depth, text) == Element(depth, Flow, NoAttrs, text)

\* A site with or without its id (sites may nest, like the values of the sample
\* file), and a flow with a number, without one, and with a bad one.
Nodes ==
  {SiteOf(d, a) : d \in {1, 2}, a \in {NoAttrs, IdOf("7"), IdOf("8")}}
    \cup {FlowOf(d, t) : d \in {2, 3}, t \in {None, "7", "x"}}

\* Document order: an element is at most one deeper than the one before it.
Nested(kids) ==
  /\ kids # <<>> => kids[1].depth = 1
  /\ \A i \in 2..Len(kids) : kids[i].depth <= kids[i - 1].depth + 1

SmallDocs ==
  {<<Root>> \o kids : kids \in {k \in UNION {[1..n -> Nodes] : n \in 0..4} : Nested(k)}}

Attr(attr, type, field) == [kind |-> "attr", attr |-> attr, type |-> type, field |-> field]
Leaf(name, array, getter, type, field) ==
  [kind |-> "leaf", name |-> name, array |-> array, getter |-> getter, type |-> type,
   field |-> field]
Map(name, array, sub) == [kind |-> "map", name |-> name, array |-> array, sub |-> sub]
List(name, array, options) ==
  [kind |-> "list", name |-> name, array |-> array, options |-> options]
Option(id, path, sub) == [id |-> id, path |-> path, sub |-> sub]
Has(name) == [kind |-> "has", name |-> name]
Equals(name, value) == [kind |-> "equals", name |-> name, value |-> value]
Child(name) == [kind |-> "child", name |-> name]

SiteName == <<"ns1", "site">>
FlowName == <<"ns1", "flow">>
Id == Attr(<<"id">>, "int", <<"Id">>)
FlowLeaf(array) == Leaf(FlowName, array, <<"text">>, "float", <<"Flow">>)

SmallSchemas ==
  { <<Map(SiteName, TRUE, <<Id, FlowLeaf(FALSE)>>)>>,
    <<List(SiteName, TRUE, <<Option(1, Has(<<"id">>), <<Id, FlowLeaf(TRUE)>>)>>)>>,
    <<List(SiteName, FALSE, <<Option(1, Equals(<<"id">>, "8"), <<Id>>),
                              Option(2, Child(FlowName), <<FlowLeaf(FALSE)>>)>>)>>,
    <<Map(SiteName, FALSE,
          <<List(FlowName, TRUE, <<Option(1, Child(FlowName), <<FlowLeaf(FALSE)>>),
                                   Option(2, Has(<<"id">>), <<Id>>)>>)>>),
      List(SiteName, TRUE,
           <<Option(3, Has(<<"id">>),
                    <<Id, List(FlowName, FALSE,
                               <<Option(4, Has(<<"id">>), <<>>)>>)>>)>>)>>,
    <<FlowLeaf(FALSE), Leaf(<<"xsi", "site">>, FALSE, <<"text">>, "bool", <<"Any">>),
      Leaf(SiteName, TRUE, <<"_", "id">>, "str", <<"Sites">>)>>,
    <<List(SiteName, TRUE,
           <<Option(1, Equals(<<"id">>, "8"), <<Id>>),
             Option(2, Has(<<"id">>),
                    <<Id, Leaf(FlowName, TRUE, <<"text">>, "int", <<"Count">>)>>)>>)>> }

\* The parts of an entry, and the options within it.
RECURSIVE PartsOf(_)
PartsOf(entries) ==
  Range(entries) \cup UNION {CASE e.kind = "map" -> PartsOf(e.sub)
                               [] e.kind = "list" -> UNION {PartsOf(o.sub) : o \in Range(e.options)}
                               [] OTHER -> {} : e \in Range(entries)}

ASSUME SmallSchemasNested ==
  NestedOptions([e \in UNION {PartsOf(s) : s \in SmallSchemas} |->
                   {o.id : o \in UNION {Range(x.options) : x \in {x \in PartsOf(<<e>>) : x.kind = "list"}}}])

KeyFieldsOf == {<<"Id">>}
Keys == [KeyFieldsOf -> {<<"int", "7">>, <<"int", "8">>, Missing}]
=============================================================================
