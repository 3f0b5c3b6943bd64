--------------------------- MODULE YamlCorrectness ---------------------------
(***************************************************************************)
(* What yaml.load has to do for the Lambda: a text is read as the value it *)
(* was written for.  A document is a text with its value (None if the text *)
(* is any text); the documents are constants.                              *)
(***************************************************************************)
EXTENDS YamlConstructor

CONSTANTS
  Documents,           \* records of text and value
  StepsPerCharacter    \* a bound

VARIABLES
  value,      \* what the text was written for
  steps       \* of yaml.load

WrittenInit == Init /\ steps = 0 /\ \E d \in Documents : text = d.text /\ value = d.value
Load == Next /\ steps' = steps + 1 /\ UNCHANGED value
Returned == result # None /\ UNCHANGED <<vars, value, steps>>
Spec == WrittenInit /\ [][Load \/ Returned]_<<vars, value, steps>>

-----------------------------------------------------------------------------
(***************************************************************************)
(* The value of a node: scalars as ConstructScalar gives them, <<"seq",    *)
(* values>> and <<"map", pairs of a key and a value>>.                     *)
(***************************************************************************)
RECURSIVE Value(_)
Value(n) ==
  LET object == objects[n] IN
  CASE nodes[n].tag = "seq" -> <<"seq", [m \in DOMAIN object[2] |-> Value(object[2][m])]>>
    [] nodes[n].tag \in {"map", "set"} -> <<"map", {<<p[1], Value(p[2])>> : p \in object[2]}>>
    [] nodes[n].tag \in {"omap", "pairs"} ->
         <<"seq", [m \in DOMAIN object[2] |-> [i \in 1..2 |-> Value(object[2][m][i])]]>>
    [] OTHER -> object

\* A text is loaded as the value that it was written for.
LoadedAsWritten == (result # None /\ value # None) => (result = "loaded" /\ Value(root) = value)

\* No object is left as its constructor first yielded it: every generator
\* that construct_object starts is run to its end, aliases and collections
\* that contain themselves included.
EveryObjectFilled == result = "loaded" => \A n \in DOMAIN objects : objects[n] # Unfilled

\* yaml.load ends, whatever the text is: it takes at most so many steps for
\* each character (and as no state before its end is a deadlock, it gets there).
EndsInTime == steps <= StepsPerCharacter * Len(text)
=============================================================================
