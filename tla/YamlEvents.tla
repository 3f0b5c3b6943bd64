----------------------------- MODULE YamlEvents -----------------------------
(***************************************************************************)
(* What the events of a stream promise, whatever is parsed: documents in   *)
(* the stream, one root in each document, collections closed in the order  *)
(* they were opened, and mappings closed behind a value only.  This is what*)
(* composer.py takes for granted.                                          *)
(***************************************************************************)
EXTENDS Sequences, SequencesExt

CONSTANT None

VARIABLES
  event,    \* the event that has been produced and not been taken, or None
  open      \* what is open, and what it waits for

\* What an open part waits for after a node.
After == [Document |-> "DocumentEnd", Sequence |-> "Sequence", Key |-> "Value", Value |-> "Key"]

NodeExpected == open # <<>> /\ Last(open) \in DOMAIN After
WithNode == Append(Front(open), After[Last(open)])
Produce(types) == event = None /\ event' # None /\ event'.type \in types

StreamStart == open = <<>> /\ Produce({"StreamStart"}) /\ open' = <<"Stream">>
DocumentStart == open = <<"Stream">> /\ Produce({"DocumentStart"}) /\ open' = <<"Stream", "Document">>
Leaf == NodeExpected /\ Produce({"Scalar", "Alias"}) /\ open' = WithNode
SequenceStart == NodeExpected /\ Produce({"SequenceStart"}) /\ open' = Append(WithNode, "Sequence")
MappingStart == NodeExpected /\ Produce({"MappingStart"}) /\ open' = Append(WithNode, "Key")
Close(waiting, type) ==
  open # <<>> /\ Last(open) = waiting /\ Produce({type}) /\ open' = Front(open)
Taken == event # None /\ event' = None /\ UNCHANGED open

Init == event = None /\ open = <<>>
Next == \/ StreamStart \/ DocumentStart \/ Leaf \/ SequenceStart \/ MappingStart
        \/ Close("Sequence", "SequenceEnd") \/ Close("Key", "MappingEnd")
        \/ Close("DocumentEnd", "DocumentEnd") \/ Close("Stream", "StreamEnd") \/ Taken
Spec == Init /\ [][Next]_<<event, open>>
=============================================================================
