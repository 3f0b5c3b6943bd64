------------------------- MODULE DataFileCorrectness -------------------------
(***************************************************************************)
(* What extracting and storing a data file is supposed to achieve.         *)
(***************************************************************************)
EXTENDS DataFile

(***************************************************************************)
(* The schema read as a query, by what README.md and the messages of       *)
(* extract_data say: for every entry the answers of the nodes that it is   *)
(* about, all of them for an array, else the first; under the key that the *)
(* schema gives; with a mark for a value that is missing or malformed.     *)
(***************************************************************************)
\* The first option that finds something at the node.
Fitting(node, options) ==
  SelectSeq(options, LAMBDA option : Find(node, option.path) # <<>>)

\* The nodes that an entry other than an attribute is about.
About(node, e) ==
  LET matching == IF e.kind # "list" THEN Matching(node, e.name)
                  ELSE SelectSeq(Matching(node, e.name),
                                 LAMBDA n : Fitting(n, e.options) # <<>>)
  IN IF e.array \/ matching = <<>> THEN matching ELSE <<matching[1]>>

\* Where the answer of a map or a list for the node n comes from.
Within(n, e) ==
  IF e.kind = "map" THEN [node |-> n, entries |-> e.sub]
  ELSE LET option == Fitting(n, e.options)[1]
       IN [node |-> Find(n, option.path)[1], entries |-> option.sub]

LeafText(node, e) ==
  IF e.getter = <<"text">> THEN doc[node].text ELSE Attribute(node, Tail(e.getter))

\* A text as a value of a type: "wrong value format" is marked, for numbers of
\* every type.
Value(raw, type) ==
  CASE type = "bool" -> <<"bool", raw # None>>
    [] type = "str" -> <<"text", raw>>
    [] type \in DOMAIN WellFormed /\ raw = None -> Missing
    [] type \in DOMAIN WellFormed /\ raw # None ->
         IF raw \in WellFormed[type] THEN <<type, raw>> ELSE ParsingError

\* "what key to output to in the resulting JSON (if different from the tag itself)"
OutputKey(e) == IF e.kind \in {"attr", "leaf"} THEN e.field ELSE e.name

RECURSIVE Wanted(_, _)

Answer(n, e) ==
  IF e.kind = "leaf" THEN Value(LeafText(n, e), e.type)
                     ELSE Wanted(Within(n, e).node, Within(n, e).entries)

AnswerAll(node, e) ==
  IF e.kind = "attr" THEN Value(Attribute(node, e.attr), e.type)
  ELSE LET answers == [i \in DOMAIN About(node, e) |-> Answer(About(node, e)[i], e)]
       IN CASE e.array -> <<"list", answers>>
            [] ~e.array /\ answers # <<>> -> answers[1]
            [] ~e.array /\ answers = <<>> -> Missing

Wanted(node, entries) ==
  <<"record", FoldLeft(LAMBDA record, e : Put(record, OutputKey(e), AnswerAll(node, e)),
                       <<>>, entries)>>

Returned == outcome # None /\ outcome[1] = "record"
Raised == outcome # None /\ outcome[1] = "raised"

\* Every leaf that the query asks for has a node.
RECURSIVE LeavesFound(_, _)
LeavesFound(node, entries) ==
  \A e \in Range(entries) :
    /\ e.kind = "leaf" => About(node, e) # <<>>
    /\ e.kind \in {"map", "list"} =>
         \A n \in Range(About(node, e)) :
           LeavesFound(Within(n, e).node, Within(n, e).entries)

\* A text of the document is no number.
BadNumber ==
  \E i \in DOMAIN doc : \E raw \in Range(doc[i].attrs) \cup {doc[i].text} :
    raw # None /\ raw \notin WellFormed["float"]

\* What extract_data returns answers the schema: array entries with all nodes in
\* document order, other entries with the first one, lists with the first option
\* that fits, texts of the wrong format with a mark.  Two things that the texts
\* ask for and the code does not do are left out, and stated here as what they
\* are.  A leaf without a node is stored under the tag and not under its key
\* (README.md:104-105), so documents that lack a leaf are not compared.  A number
\* of the wrong format should be marked like every other value
\* (schemas_xml.py:240-244), but Decimal raises InvalidOperation: of an exception
\* the property says only that there is such a text.
ExtractedAsWanted ==
  /\ Returned /\ LeavesFound(1, schema) => outcome = Wanted(1, schema)
  /\ Raised => BadNumber
=============================================================================
