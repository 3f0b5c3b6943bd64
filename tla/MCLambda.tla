------------------------------ MODULE MCLambda ------------------------------
(***************************************************************************)
(* Small instances of the Lambda: which files are uploaded, and under      *)
(* which names.  The configurations choose among the definitions below.    *)
(***************************************************************************)
EXTENDS LambdaCorrectness, TLC

CONSTANTS c1, c2

One == {c1}
Two == {c1, c2}
Symmetry == Permutations(Two)

SuffixOf ==
  [k \in {"schema.yml", "speed.gz", "speed.xml", "notes.txt"} |->
     CASE k = "schema.yml" -> "yml" [] k = "speed.gz" -> "gz"
       [] k = "speed.xml" -> "xml"  [] k = "notes.txt" -> "other"]
DataKey == {"speed.gz", "speed.xml"}

TwoKeys == {"schema.yml", "speed.gz"}
XmlKeys == {"schema.yml", "speed.xml"}
ThreeKeys == {"schema.yml", "speed.gz", "notes.txt"}

SuffixOfTwo == [k \in TwoKeys |-> SuffixOf[k]]
SuffixOfXml == [k \in XmlKeys |-> SuffixOf[k]]
SuffixOfThree == [k \in ThreeKeys |-> SuffixOf[k]]
OnePattern == {"%speed%"}
TwoPatterns == {"%speed%", "speed%"}
LikeOne == [p \in OnePattern |-> DataKey \cap TwoKeys]
LikeTwo == [p \in TwoPatterns |-> DataKey \cap TwoKeys]
LikeXml == [p \in OnePattern |-> DataKey \cap XmlKeys]

Yaml(form, pattern, version, layout) ==
  [form |-> form, pattern |-> pattern, version |-> version, layout |-> layout]
Data(form, date, readings) == [form |-> form, date |-> date, readings |-> readings]

GoodSchema == {Yaml("ok", "%speed%", 1, "ok")}

\* A schema, and one that PostgreSQL rejects.
SchemaAndRejected == GoodSchema \cup {Yaml("badvalues", "%speed%", 1, "ok")}

\* Two versions for one file pattern, another schema under the key of the
\* first, and another pattern for the same files.
Versions ==
  {Yaml("ok", "%speed%", 1, "ok"), Yaml("ok", "%speed%", 1, "incomplete"),
   Yaml("ok", "%speed%", 2, "ok"), Yaml("ok", "speed%", 1, "ok")}

\* Every way in which a schema file can turn out.
AllSchemas ==
  {Yaml(form, "%speed%", 1, "ok") : form \in SchemaForm}
    \cup {Yaml("ok", "%speed%", 1, layout) : layout \in Layout}

SmallData == {Data("ok", 2, <<"r1">>)}

\* A data file, and one with a number of the wrong format.
SmallAndMalformed == SmallData \cup {Data("badvalue", 2, <<"r1">>)}

\* Every way in which a data file can turn out: one older than all schemas,
\* one with a repeated reading, one whose last chunk is full and one without
\* any reading included.
AllData ==
  {Data(form, 2, <<"r1">>) : form \in DataForm}
    \cup {Data("ok", 0, <<"r1">>), Data("ok", 2, <<>>), Data("ok", 2, <<"r1", "r1">>),
          Data("keyless", 2, <<"r1", "r2">>)}

Readings == {"r1", "r2"}
=============================================================================
