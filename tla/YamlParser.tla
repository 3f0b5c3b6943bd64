----------------------------- MODULE YamlParser -----------------------------
(***************************************************************************)
(* PyYAML's parser (yaml/parser.py): a stack of states, each of which looks*)
(* at the first token, may take it, and produces an event.  A function of  *)
(* the parser that takes several tokens before it returns goes through the *)
(* states "Properties", "Item" and "...Item"; a step looks at one token.   *)
(***************************************************************************)
EXTENDS YamlScanner

CONSTANT None

VARIABLES
  event,        \* current_event
  state,        \* the next function; None when the stream has ended
  states,       \* the functions that follow
  marks,        \* the starts of the open collections
  version,      \* yaml_version
  handles,      \* tag_handles
  node,         \* the node that is parsed: where it may be, its anchor and tag
  item          \* the indicator that was taken: a row of Item

parserVars == <<event, state, states, marks, version, handles, node, item>>

DefaultTags == (<<"!">> :> <<"!">>) @@ (<<"!", "!">> :> <<"tag:">>)

FirstToken == Head(tokens)
Is(types) == FirstToken.type \in types
Look == result = None /\ event = None /\ Certain /\ tokens # <<>>
ParserError == result' = "error" /\ UNCHANGED <<parserVars, scannerVars>>

NoTake == UNCHANGED scannerVars
TakeToken == Take /\ UNCHANGED <<index, indents, flow, allow, keys, done>>
Produce(e) == event' = e
Event(type) == [type |-> type, anchor |-> None, tag |-> None, plain |-> FALSE, value |-> <<>>]
EmptyScalar == [Event("Scalar") EXCEPT !.plain = TRUE]

Push(follow) == states' = Append(states, follow)
Pop == state' = Last(states) /\ states' = Front(states)
Goto(next) == state' = next /\ UNCHANGED states
KeepNode == UNCHANGED <<node, item>>
KeepTags == UNCHANGED <<version, handles>>

\* parse_node of a kind: the properties come first.
Node(kind) == /\ node' = [kind |-> kind, anchor |-> None, tag |-> None]
              /\ state' = "Node" /\ UNCHANGED item

-----------------------------------------------------------------------------
ParseStreamStart ==
  /\ state = "StreamStart"
  /\ TakeToken /\ Produce(Event("StreamStart")) /\ Goto("ImplicitDocumentStart")
  /\ UNCHANGED marks /\ KeepNode /\ KeepTags

ParseImplicitDocumentStart ==
  /\ state = "ImplicitDocumentStart" /\ ~Is({"Directive", "DocumentStart", "StreamEnd"})
  /\ handles' = DefaultTags
  /\ NoTake /\ Produce(Event("DocumentStart"))
  /\ Push("DocumentEnd") /\ Node("Block")
  /\ UNCHANGED <<marks, version>>

\* parse_document_start: extra document ends are skipped.
ParseDocumentStart ==
  /\ \/ state = "ImplicitDocumentStart" /\ Is({"Directive", "DocumentStart", "StreamEnd"})
     \/ state = "DocumentStart"
  /\ \/ Is({"DocumentEnd"}) /\ TakeToken /\ Goto("DocumentStart") /\ KeepTags /\ UNCHANGED event
     \/ Is({"StreamEnd"}) /\ TakeToken /\ Produce(Event("StreamEnd")) /\ Goto(None) /\ KeepTags
     \/ /\ ~Is({"DocumentEnd", "StreamEnd"})
        /\ version' = None /\ handles' = <<>>
        /\ NoTake /\ Goto("Directives") /\ UNCHANGED event
  /\ UNCHANGED marks /\ KeepNode

\* process_directives
ProcessDirective ==
  LET d == FirstToken.value IN
  /\ state = "Directives" /\ Is({"Directive"})
  /\ d.name = "YAML" => version = None /\ d.major = <<"1">>
  /\ d.name = "TAG" => d.handle \notin DOMAIN handles
  /\ version' = IF d.name = "YAML" THEN d.major ELSE version
  /\ handles' = IF d.name = "TAG" THEN (d.handle :> d.prefix) @@ handles ELSE handles
  /\ TakeToken /\ Goto(state) /\ UNCHANGED <<event, marks>> /\ KeepNode

ParseExplicitDocument ==
  /\ state = "Directives" /\ Is({"DocumentStart"})
  /\ handles' = handles @@ DefaultTags
  /\ TakeToken /\ Produce(Event("DocumentStart"))
  /\ Push("DocumentEnd") /\ state' = "DocumentContent"
  /\ UNCHANGED <<marks, version>> /\ KeepNode

ParseDocumentContent ==
  /\ state = "DocumentContent" /\ KeepTags /\ NoTake /\ UNCHANGED marks
  /\ IF Is({"Directive", "DocumentStart", "DocumentEnd", "StreamEnd"})
     THEN Produce(EmptyScalar) /\ Pop /\ KeepNode
     ELSE Node("Block") /\ UNCHANGED <<event, states>>

ParseDocumentEnd ==
  /\ state = "DocumentEnd"
  /\ IF Is({"DocumentEnd"}) THEN TakeToken ELSE NoTake
  /\ Produce(Event("DocumentEnd")) /\ Goto("DocumentStart")
  /\ UNCHANGED marks /\ KeepNode /\ KeepTags

-----------------------------------------------------------------------------
\* parse_node.  "Node" becomes "Properties" behind an anchor or a tag.
Plain == node.anchor = None /\ node.tag = None

ParseAlias ==
  /\ state = "Node" /\ Is({"Alias"})
  /\ TakeToken /\ Produce([Event("Alias") EXCEPT !.anchor = FirstToken.value])
  /\ Pop /\ UNCHANGED marks /\ KeepNode /\ KeepTags

ParseAnchor ==
  /\ state \in {"Node", "Properties"} /\ Is({"Anchor"}) /\ node.anchor = None
  /\ node' = [node EXCEPT !.anchor = FirstToken.value]
  /\ TakeToken /\ Goto("Properties") /\ UNCHANGED <<event, marks, item>> /\ KeepTags

Tagged(tag) == IF tag.handle = <<>> THEN tag.suffix ELSE handles[tag.handle] \o tag.suffix

ParseTag ==
  LET tag == FirstToken.value IN
  /\ state \in {"Node", "Properties"} /\ Is({"Tag"}) /\ node.tag = None
  /\ tag.handle = <<>> \/ tag.handle \in DOMAIN handles
  /\ node' = [node EXCEPT !.tag = Tagged(tag)]
  /\ TakeToken /\ Goto("Properties") /\ UNCHANGED <<event, marks, item>> /\ KeepTags

\* The tokens that end the properties.
Content == /\ state \in {"Node", "Properties"}
           /\ state = "Node" => ~Is({"Alias"})
           /\ ~(Is({"Anchor"}) /\ node.anchor = None) /\ ~(Is({"Tag"}) /\ node.tag = None)

Start(type, first) ==
  /\ NoTake /\ Produce([Event(type) EXCEPT !.anchor = node.anchor, !.tag = node.tag])
  /\ Goto(first)

\* A collection that may begin with this token, and the function that parses it.
Collection ==
  CASE Is({"BlockEntry"}) /\ node.kind = "BlockOrIndentless" -> <<"SequenceStart", "IndentlessSequenceEntry">>
    [] Is({"FlowSequenceStart"}) -> <<"SequenceStart", "FlowSequenceFirstEntry">>
    [] Is({"FlowMappingStart"}) -> <<"MappingStart", "FlowMappingFirstKey">>
    [] Is({"BlockSequenceStart"}) /\ node.kind # "Flow" -> <<"SequenceStart", "BlockSequenceFirstEntry">>
    [] Is({"BlockMappingStart"}) /\ node.kind # "Flow" -> <<"MappingStart", "BlockMappingFirstKey">>
    [] OTHER -> None

ParseContent ==
  /\ Content /\ UNCHANGED marks /\ KeepNode /\ KeepTags
  /\ \/ Collection # None /\ Start(Collection[1], Collection[2])
     \/ /\ Is({"Scalar"}) /\ TakeToken /\ Pop
        /\ Produce([Event("Scalar") EXCEPT
             !.anchor = node.anchor, !.tag = node.tag, !.value = FirstToken.value,
             !.plain = (FirstToken.plain /\ node.tag = None) \/ node.tag = <<"!">>])
     \/ /\ Collection = None /\ ~Is({"Scalar"}) /\ ~Plain /\ NoTake /\ Pop
        /\ Produce([EmptyScalar EXCEPT !.anchor = node.anchor, !.tag = node.tag,
                                       !.plain = node.tag \in {None, <<"!">>}])

-----------------------------------------------------------------------------
(***************************************************************************)
(* The functions that take an indicator and go on with a node, or with an  *)
(* empty scalar if one of the tokens in empty follows; then comes next.    *)
(***************************************************************************)
Row(indicator, empty, next, kind) ==
  [indicator |-> indicator, empty |-> empty, next |-> next, kind |-> kind]

Item ==
  [BlockSequenceEntry |-> Row("BlockEntry", {"BlockEntry", "BlockEnd"}, "BlockSequenceEntry", "Block"),
   IndentlessSequenceEntry |-> Row("BlockEntry", {"BlockEntry", "Key", "Value", "BlockEnd"},
                                   "IndentlessSequenceEntry", "Block"),
   BlockMappingKey |-> Row("Key", {"Key", "Value", "BlockEnd"}, "BlockMappingValue", "BlockOrIndentless"),
   BlockMappingValue |-> Row("Value", {"Key", "Value", "BlockEnd"}, "BlockMappingKey", "BlockOrIndentless"),
   FlowSequenceEntryMappingKey |-> Row("Key", {"Value", "FlowEntry", "FlowSequenceEnd"},
                                       "FlowSequenceEntryMappingValue", "Flow"),
   FlowSequenceEntryMappingValue |-> Row("Value", {"FlowEntry", "FlowSequenceEnd"},
                                         "FlowSequenceEntryMappingEnd", "Flow"),
   FlowMappingItem |-> Row("Key", {"Value", "FlowEntry", "FlowMappingEnd"}, "FlowMappingValue", "Flow"),
   FlowMappingValue |-> Row("Value", {"FlowEntry", "FlowMappingEnd"}, "FlowMappingKey", "Flow")]

TakeIndicator ==
  /\ state \in DOMAIN Item /\ Is({Item[state].indicator})
  /\ item' = Item[state]
  /\ TakeToken /\ Goto("Item") /\ UNCHANGED <<event, marks, node>> /\ KeepTags

ParseItem ==
  /\ state = "Item" /\ NoTake /\ UNCHANGED marks /\ KeepTags
  /\ IF Is(item.empty)
     THEN Produce(EmptyScalar) /\ Goto(item.next) /\ KeepNode
     ELSE Push(item.next) /\ Node(item.kind) /\ UNCHANGED event

\* A value that has no indicator is empty.
ParseEmptyValue ==
  /\ \/ state \in {"BlockMappingValue", "FlowSequenceEntryMappingValue", "FlowMappingValue"}
        /\ ~Is({Item[state].indicator}) /\ Goto(Item[state].next)
     \/ state = "FlowMappingEmptyValue" /\ Goto("FlowMappingKey")
  /\ NoTake /\ Produce(EmptyScalar) /\ UNCHANGED marks /\ KeepNode /\ KeepTags

First == [BlockSequenceFirstEntry |-> "BlockSequenceEntry", BlockMappingFirstKey |-> "BlockMappingKey",
          FlowSequenceFirstEntry |-> "FlowSequenceItem", FlowMappingFirstKey |-> "FlowMappingItem"]

ParseFirst ==
  /\ state \in DOMAIN First
  /\ marks' = Append(marks, FirstToken.at)
  /\ TakeToken /\ Goto(First[state]) /\ UNCHANGED event /\ KeepNode /\ KeepTags

\* The tokens that end a collection, and the events they make.
End == [BlockSequenceEntry |-> <<"BlockEnd", "SequenceEnd">>, BlockMappingKey |-> <<"BlockEnd", "MappingEnd">>,
        FlowSequenceEntry |-> <<"FlowSequenceEnd", "SequenceEnd">>, FlowSequenceItem |-> <<"FlowSequenceEnd", "SequenceEnd">>,
        FlowMappingKey |-> <<"FlowMappingEnd", "MappingEnd">>, FlowMappingItem |-> <<"FlowMappingEnd", "MappingEnd">>]

\* Mutant: the mark of the collection stays.
ParseEndKeepsMark ==
  /\ state \in DOMAIN End /\ Is({End[state][1]})
  /\ TakeToken /\ Produce(Event(End[state][2])) /\ Pop /\ UNCHANGED marks
  /\ KeepNode /\ KeepTags

ParseEnd ==
  /\ state \in DOMAIN End /\ Is({End[state][1]})
  /\ TakeToken /\ Produce(Event(End[state][2])) /\ Pop /\ marks' = Front(marks)
  /\ KeepNode /\ KeepTags

\* Mutant: the state is not popped.
IndentlessSequenceStays ==
  /\ state = "IndentlessSequenceEntry" /\ ~Is({"BlockEntry"})
  /\ NoTake /\ Produce(Event("SequenceEnd")) /\ Goto(state)
  /\ UNCHANGED marks /\ KeepNode /\ KeepTags

\* An indentless sequence and an inline mapping end where they do not go on.
ParseIndentlessSequenceEnd ==
  /\ state = "IndentlessSequenceEntry" /\ ~Is({"BlockEntry"})
  /\ NoTake /\ Produce(Event("SequenceEnd")) /\ Pop
  /\ UNCHANGED marks /\ KeepNode /\ KeepTags

ParseFlowSequenceEntryMappingEnd ==
  /\ state = "FlowSequenceEntryMappingEnd"
  /\ NoTake /\ Produce(Event("MappingEnd")) /\ Goto("FlowSequenceEntry")
  /\ UNCHANGED marks /\ KeepNode /\ KeepTags

\* Mutant: the comma is looked at and not taken.
CommaStays ==
  /\ state \in {"FlowSequenceEntry", "FlowMappingKey"} /\ Is({"FlowEntry"})
  /\ NoTake /\ Goto(state) /\ UNCHANGED <<event, marks>> /\ KeepNode /\ KeepTags

\* The commas of parse_flow_sequence_entry and parse_flow_mapping_key.
ParseFlowEntry ==
  /\ state \in {"FlowSequenceEntry", "FlowMappingKey"} /\ Is({"FlowEntry"})
  /\ TakeToken /\ Goto(IF state = "FlowSequenceEntry" THEN "FlowSequenceItem" ELSE "FlowMappingItem")
  /\ UNCHANGED <<event, marks>> /\ KeepNode /\ KeepTags

\* The nodes of a flow collection without a KEY.
ParseFlowItem ==
  /\ state \in {"FlowSequenceItem", "FlowMappingItem"} /\ ~Is({"Key", End[state][1]})
  /\ Push(IF state = "FlowSequenceItem" THEN "FlowSequenceEntry" ELSE "FlowMappingEmptyValue")
  /\ NoTake /\ Node("Flow") /\ UNCHANGED <<event, marks>> /\ KeepTags

\* A KEY in a flow sequence begins a mapping of one pair.
ParseInlineMapping ==
  /\ state = "FlowSequenceItem" /\ Is({"Key"})
  /\ NoTake /\ Produce(Event("MappingStart")) /\ Goto("FlowSequenceEntryMappingKey")
  /\ UNCHANGED marks /\ KeepNode /\ KeepTags

-----------------------------------------------------------------------------
\* The cases in which a function of the parser raises ParserError.
Unexpected ==
  \/ state = "Directives" /\
       \/ ~Is({"Directive", "DocumentStart"})
       \/ Is({"Directive"}) /\ LET d == FirstToken.value IN
            \/ d.name = "YAML" /\ (version # None \/ d.major # <<"1">>)
            \/ d.name = "TAG" /\ d.handle \in DOMAIN handles
  \/ state \in {"Node", "Properties"} /\ Is({"Tag"}) /\ node.tag = None /\
       LET h == FirstToken.value.handle IN h # <<>> /\ h \notin DOMAIN handles
  \/ Content /\ Collection = None /\ ~Is({"Scalar"}) /\ Plain
  \/ state \in {"BlockSequenceEntry", "BlockMappingKey"} /\ ~Is({Item[state].indicator, "BlockEnd"})
  \/ state \in {"FlowSequenceEntry", "FlowMappingKey"} /\ ~Is({"FlowEntry", End[state][1]})

Parse ==
  /\ Look
  /\ \/ Unexpected /\ ParserError
     \/ /\ \/ ParseStreamStart \/ ParseImplicitDocumentStart \/ ParseDocumentStart \/ ProcessDirective
           \/ ParseExplicitDocument \/ ParseDocumentContent \/ ParseDocumentEnd \/ ParseAlias
           \/ ParseAnchor \/ ParseTag \/ ParseContent \/ TakeIndicator \/ ParseItem \/ ParseEmptyValue
           \/ ParseFirst \/ ParseEnd \/ ParseIndentlessSequenceEnd \/ ParseFlowSequenceEntryMappingEnd
           \/ ParseFlowEntry \/ ParseFlowItem \/ ParseInlineMapping
        /\ ~Unexpected /\ UNCHANGED result

\* The parser asks for tokens only when an event is asked of it.
ParserFetch ==
  /\ result = None /\ event = None /\ state # None
  /\ FetchMoreTokens /\ UNCHANGED parserVars

ParserInit ==
  /\ event = None /\ state = "StreamStart" /\ states = <<>> /\ marks = <<>>
  /\ version = None /\ handles = <<>>
  /\ node = [kind |-> "Block", anchor |-> None, tag |-> None] /\ item = None

-----------------------------------------------------------------------------
(***************************************************************************)
(* The parser for whoever asks it for events: between its steps an event is*)
(* taken, or the caller goes on without one and may return or raise.       *)
(***************************************************************************)
Called == /\ event' = event \/ (event # None /\ event' = None)
          /\ UNCHANGED <<text, scannerVars, state, states, marks, version, handles, node, item>>
ParserNext == ((ParserFetch \/ Parse) /\ UNCHANGED text) \/ Called

\* yaml.load asks for events in this way: the composer takes one at a time,
\* and neither it nor the constructor touches the parser or the scanner.
ParserSpec == ScannerInit /\ ParserInit /\ result = None
              /\ [][ParserNext]_<<text, scannerVars, parserVars, result>>

\* parser.py:185-186: "assert not self.states", "assert not self.marks".
NothingOpenAtEnd == state = None => states = <<>> /\ marks = <<>>

\* The events nest: the states of the parser are what YamlEvents has open.
Waits ==
  [StreamStart |-> <<>>,
   ImplicitDocumentStart |-> <<"Stream">>, DocumentStart |-> <<"Stream">>, Directives |-> <<"Stream">>,
   DocumentEnd |-> <<"Stream", "DocumentEnd">>,
   BlockSequenceFirstEntry |-> <<"Sequence">>, BlockSequenceEntry |-> <<"Sequence">>,
   IndentlessSequenceEntry |-> <<"Sequence">>, FlowSequenceFirstEntry |-> <<"Sequence">>,
   FlowSequenceEntry |-> <<"Sequence">>, FlowSequenceItem |-> <<"Sequence">>,
   BlockMappingFirstKey |-> <<"Key">>, BlockMappingKey |-> <<"Key">>, BlockMappingValue |-> <<"Value">>,
   FlowMappingFirstKey |-> <<"Key">>, FlowMappingKey |-> <<"Key">>, FlowMappingItem |-> <<"Key">>,
   FlowMappingValue |-> <<"Value">>, FlowMappingEmptyValue |-> <<"Value">>,
   FlowSequenceEntryMappingKey |-> <<"Sequence", "Key">>,
   FlowSequenceEntryMappingValue |-> <<"Sequence", "Value">>,
   FlowSequenceEntryMappingEnd |-> <<"Sequence", "Key">>]

\* Before the node that a state waits for has been parsed.
Before == [Sequence |-> "Sequence", Key |-> "Value", Value |-> "Key", DocumentEnd |-> "Document"]
Pending(waits) == Append(Front(waits), Before[Last(waits)])

\* What the states of a stack wait for.
Around(stack) == FlattenSeq([n \in DOMAIN stack |-> Waits[stack[n]]])

Open ==
  CASE state = None -> <<>>
    [] state = "Item" -> Around(states) \o Pending(Waits[item.next])
    [] state \in {"Node", "Properties", "DocumentContent"} -> Pending(Around(states))
    [] OTHER -> Around(states) \o Waits[state]

Events == INSTANCE YamlEvents WITH open <- Open

\* The parser produces events only as YamlEvents allows: what composer.py
\* takes for granted.
EventsNest == Events!Spec
=============================================================================
