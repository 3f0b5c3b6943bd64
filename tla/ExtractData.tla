----------------------------- MODULE ExtractData -----------------------------
(***************************************************************************)
(* schemas_xml.py: extract_data, which walks an XML document along a       *)
(* schema and returns a record, with parse_val and expand_prefix.          *)
(*                                                                         *)
(* A document is the sequence of its elements in document order, each with *)
(* its depth, so that the elements below i are a segment that begins at i. *)
(* A schema is a sequence of entries; a dotted name is the sequence of its *)
(* parts.  The recursion is an explicit stack of frames with the innermost *)
(* call at its head, because an option of the schema is changed while the  *)
(* calls below it run.                                                     *)
(***************************************************************************)
EXTENDS Integers, Sequences, SequencesExt

CONSTANTS
  Doc,         \* the XML documents
  Schema,      \* the schemas
  Namespace,   \* Namespace[p]: the namespace that the prefix p stands for
  WellFormed,  \* WellFormed[type]: the texts that int, strptime, Decimal accept
  None         \* no text, no attribute, no option

ASSUME ExtractAssumption ==
  /\ DOMAIN WellFormed = {"int", "timestamp", "float"}
  /\ \A doc \in Doc : Len(doc) > 0
  /\ None # <<"raised", "KeyError">>

VARIABLES
  doc, schema,
  stack,     \* the running calls of extract_data
  taken,     \* the options whose `_' is deleted at the moment
  outcome    \* None, the record returned or the exception raised

extractVars == <<doc, schema, stack, taken, outcome>>

Missing == <<"missing">>
ParsingError == <<"parsing error">>

ExpandPrefix(parts) ==
  IF Len(parts) > 1 /\ parts[1] \in DOMAIN Namespace
    THEN <<Namespace[parts[1]], parts[2]>> ELSE parts

\* What parse_val returns, or what the handlers of TypeError and ValueError
\* put in its place; bool() accepts everything, no text included.
ParseVal(raw, type) ==
  CASE type = "bool" -> <<"bool", raw # None>>
    [] type = "str" -> <<"text", raw>>
    [] type \in DOMAIN WellFormed /\ raw = None -> Missing
    [] type \in DOMAIN WellFormed /\ raw \in WellFormed[type] -> <<type, raw>>
    [] OTHER -> ParsingError

\* Decimal raises InvalidOperation, which is no ValueError.
Undecimal(raw, type) == type = "float" /\ raw # None /\ raw \notin WellFormed[type]

\* root.iter(pattern): the elements of that tag at or below node.
Below(node) ==
  LET after == {j \in (node + 1)..Len(doc) : doc[j].depth <= doc[node].depth}
  IN node..(IF after = {} THEN Len(doc) ELSE Min(after) - 1)
Matching(node, parts) ==
  SelectSeq([i \in 1..Len(doc) |-> i],
            LAMBDA i : i \in Below(node) /\ doc[i].tag = ExpandPrefix(parts))

Attribute(node, parts) ==
  IF ExpandPrefix(parts) \in DOMAIN doc[node].attrs
    THEN doc[node].attrs[ExpandPrefix(parts)] ELSE None

\* node.find(path): `.[@a]' and `.[@a="v"]' give the node itself, a tag the
\* first such child; <<>> when there is none.
Find(node, path) ==
  CASE path.kind = "has" ->
         IF Attribute(node, path.name) # None THEN <<node>> ELSE <<>>
    [] path.kind = "equals" ->
         IF Attribute(node, path.name) = path.value THEN <<node>> ELSE <<>>
    [] path.kind = "child" ->
         LET kids == SelectSeq(Matching(node, path.name),
                               LAMBDA i : doc[i].depth = doc[node].depth + 1)
         IN SubSeq(kids, 1, IF kids = <<>> THEN 0 ELSE 1)

\* record[field] = value, in a dictionary that remembers the order of its keys.
Put(record, field, value) ==
  IF \E i \in DOMAIN record : record[i][1] = field
    THEN [i \in DOMAIN record |->
            IF record[i][1] = field THEN <<field, value>> ELSE record[i]]
    ELSE Append(record, <<field, value>>)

-----------------------------------------------------------------------------
(***************************************************************************)
(* The frames.  `at' is the loop the call is in: "entry", "nodes" of an    *)
(* entry, or "options" of a node.                                          *)
(***************************************************************************)
Frame(node, sub) ==
  [node |-> node, entries |-> sub, at |-> "entry", nodes |-> <<>>, options |-> <<>>,
   subs |-> <<>>, field |-> <<>>, record |-> <<>>]

Running == stack # <<>> /\ outcome = None
Top == Head(stack)
Entry == Head(Top.entries)
At(loop) == Running /\ Top.at = loop
Go(frame) == stack' = <<frame>> \o Tail(stack)
Same == UNCHANGED <<doc, schema>>

Raise(exception) == outcome' = <<"raised", exception>> /\ UNCHANGED <<stack, taken>>

EntryDone(frame, field, value) ==
  [frame EXCEPT !.entries = Tail(@), !.record = Put(@, field, value), !.at = "entry"]

AttributeEntry ==
  /\ At("entry") /\ Top.entries # <<>> /\ Entry.kind = "attr"
  /\ LET raw == Attribute(Top.node, Entry.attr)
     IN IF Undecimal(raw, Entry.type) THEN Raise("InvalidOperation")
        ELSE /\ Go(EntryDone(Top, Entry.field, ParseVal(raw, Entry.type)))
             /\ UNCHANGED <<taken, outcome>>
  /\ Same

\* The other entries: find the nodes; the field has the entry's own name.
StartEntry ==
  /\ At("entry") /\ Top.entries # <<>> /\ Entry.kind # "attr"
  /\ Go([Top EXCEPT !.at = "nodes", !.nodes = Matching(Top.node, Entry.name),
                    !.subs = <<>>, !.field = Entry.name])
  /\ UNCHANGED <<taken, outcome>> /\ Same

\* The node is dealt with; `break' unless the entry is an array.
NodeDone(frame, sub) ==
  [frame EXCEPT !.subs = Append(@, sub),
                !.nodes = IF Head(frame.entries).array THEN Tail(@) ELSE <<>>]

\* A map: its entries are extracted from the node.
MapNode ==
  /\ At("nodes") /\ Top.nodes # <<>> /\ Entry.kind = "map"
  /\ stack' = <<Frame(Head(Top.nodes), Entry.sub)>> \o stack
  /\ UNCHANGED <<taken, outcome>> /\ Same

\* An entry without children: the text of the node, or one of its attributes,
\* of whose name the getter takes the first part only.
LeafNode ==
  /\ At("nodes") /\ Top.nodes # <<>> /\ Entry.kind = "leaf"
  /\ LET node == Head(Top.nodes)
         raw == IF Entry.getter = <<"text">> THEN doc[node].text
                                             ELSE Attribute(node, <<Entry.getter[2]>>)
     IN IF Undecimal(raw, Entry.type) THEN Raise("InvalidOperation")
        ELSE /\ Go([NodeDone(Top, ParseVal(raw, Entry.type)) EXCEPT !.field = Entry.field])
             /\ UNCHANGED <<taken, outcome>>
  /\ Same

\* A list: its elements are tried on the node in turn.
ListNode ==
  /\ At("nodes") /\ Top.nodes # <<>> /\ Entry.kind = "list"
  /\ Go([Top EXCEPT !.at = "options", !.options = Entry.options])
  /\ UNCHANGED <<taken, outcome>> /\ Same

\* option['_'] is read and the path looked up; on a match it is deleted and
\* the rest of the option is the schema of the node that was found.
TryOption ==
  /\ At("options") /\ Top.options # <<>>
  /\ LET option == Head(Top.options)
         found == Find(Head(Top.nodes), option.path)
     IN CASE option.id \in taken -> Raise("KeyError")
          [] option.id \notin taken /\ found = <<>> ->
               Go([Top EXCEPT !.options = Tail(@)]) /\ UNCHANGED <<taken, outcome>>
          [] option.id \notin taken /\ found # <<>> ->
               /\ taken' = taken \cup {option.id}
               /\ stack' = <<Frame(found[1], option.sub)>> \o stack
               /\ UNCHANGED outcome
  /\ Same

\* No option is left to try: `continue' with the next node, array or not.
OptionsDone ==
  /\ At("options") /\ Top.options = <<>>
  /\ Go([Top EXCEPT !.at = "nodes", !.nodes = Tail(@)])
  /\ UNCHANGED <<taken, outcome>> /\ Same

\* The loop over the nodes is over: the record gets the list, or its first
\* element, or a mark that nothing was found.
NodesDone ==
  /\ At("nodes") /\ Top.nodes = <<>>
  /\ Go(EntryDone(Top, Top.field,
          CASE Entry.array -> <<"list", Top.subs>>
            [] ~Entry.array /\ Top.subs # <<>> -> Top.subs[1]
            [] ~Entry.array /\ Top.subs = <<>> -> Missing))
  /\ UNCHANGED <<taken, outcome>> /\ Same

\* Mutant: the `_' of the option is not put back.
NotPutBack(option) == taken

PutBack(option) == taken \ {option}

\* Mutant: no `break': the other options are tried on the node as well.
NoBreak(frame, value) ==
  [frame EXCEPT !.subs = Append(@, value), !.options = Tail(@)]

\* `break' leaves the loop over the options, `continue' takes the next node.
OptionTaken(frame, value) ==
  [frame EXCEPT !.at = "nodes", !.subs = Append(@, value), !.nodes = Tail(@), !.options = <<>>]

\* A call returns its record to its caller, or the outermost one to main.
Return ==
  /\ At("entry") /\ Top.entries = <<>>
  /\ IF Len(stack) = 1
       THEN outcome' = <<"record", Top.record>> /\ UNCHANGED <<stack, taken>>
       ELSE LET caller == stack[2]
                value == <<"record", Top.record>>
            IN /\ stack' = IF caller.at = "options"
                             THEN <<OptionTaken(caller, value)>> \o Tail(Tail(stack))
                             ELSE <<NodeDone(caller, value)>> \o Tail(Tail(stack))
               /\ taken' = IF caller.at = "options" THEN PutBack(Head(caller.options).id)
                                                    ELSE taken
               /\ UNCHANGED outcome
  /\ Same

ExtractInit ==
  /\ doc \in Doc
  /\ schema \in Schema
  /\ stack = <<Frame(1, schema)>>
  /\ taken = {}
  /\ outcome = None

ExtractNext ==
  \/ AttributeEntry \/ StartEntry \/ MapNode \/ LeafNode \/ ListNode
  \/ TryOption \/ OptionsDone \/ NodesDone \/ Return
-----------------------------------------------------------------------------
\* No option of a schema lies within itself: inside[e] holds the options within
\* the entry e.
NestedOptions(inside) ==
  /\ Schema \subseteq Seq(DOMAIN inside)
  /\ \A e \in DOMAIN inside :
       /\ e.kind = "map" =>
            e.sub \in Seq(DOMAIN inside) /\ \A x \in Range(e.sub) : inside[x] \subseteq inside[e]
       /\ e.kind = "list" =>
            /\ e.options \in Seq(Range(e.options))
            /\ \A o \in Range(e.options) :
                 /\ o.id \in inside[e] /\ o.sub \in Seq(DOMAIN inside)
                 /\ \A x \in Range(o.sub) : inside[x] \subseteq inside[e] \ {o.id}

\* An option lacks its `_' exactly while a call below it runs, so that the
\* next node finds the schema whole, and no call meets an option without it.
OptionsPutBack ==
  /\ outcome # <<"raised", "KeyError">>
  /\ ~(outcome # None /\ outcome[1] = "raised") =>
       taken = {Head(stack[i].options).id :
                  i \in {j \in 2..Len(stack) : stack[j].at = "options"}}
=============================================================================
