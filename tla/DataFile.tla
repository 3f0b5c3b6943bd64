------------------------------ MODULE DataFile ------------------------------
(***************************************************************************)
(* lambda_function_xml.py: what `main' does with one data file and its     *)
(* schema: extract_data on the document (ExtractData), then the readings   *)
(* to DynamoDB (BatchWriter).                                              *)
(***************************************************************************)
EXTENDS ExtractData, BatchWriter

CONSTANT KeyFields   \* the fields of a reading that make up its key

vars == <<extractVars, batchVars>>

\* The fields of a reading as a function; <<>> of what is no record.
Fields(value) ==
  IF value[1] # "record" THEN <<>>
  ELSE [field \in {value[2][i][1] : i \in DOMAIN value[2]} |->
          (CHOOSE i \in DOMAIN value[2] : value[2][i][1] = field)]

\* The primary key of a reading.
KeyOf(value) ==
  IF KeyFields \subseteq DOMAIN Fields(value)
    THEN [field \in KeyFields |-> value[2][Fields(value)[field]][2]] ELSE NoKey

\* popitem()[1]: the field that was put in last.
PopItem(record) == record[Len(record)][2]

Readings(list) == [i \in DOMAIN list |-> [key |-> KeyOf(list[i]), at |-> i]]

\* The record has a list: its elements are the readings.  `<missing>' is a
\* sequence, too, of characters; a record is none, and an empty one has no item.
StartWriting ==
  /\ state = "extract" /\ outcome # None
  /\ IF outcome[1] = "record" /\ outcome[2] # <<>> /\ PopItem(outcome[2])[1] # "record"
       THEN /\ data' = IF PopItem(outcome[2])[1] = "list"
                         THEN Readings(PopItem(outcome[2])[2])
                         ELSE <<[key |-> NoKey, at |-> 1]>>
            /\ state' = "put"
       ELSE state' = "raised" /\ UNCHANGED data
  /\ UNCHANGED <<extractVars, start, done, buffer, sending, table>>

Init ==
  /\ ExtractInit
  /\ data = <<>> /\ start = 0 /\ done = 0 /\ buffer = {} /\ sending = {}
  /\ state = "extract"
  /\ table = [key \in Key |-> NoItem]

Next ==
  \/ ExtractNext /\ UNCHANGED batchVars
  \/ StartWriting
  \/ state # "extract" /\ BatchNext /\ UNCHANGED extractVars

Spec == Init /\ [][Next]_vars
=============================================================================
