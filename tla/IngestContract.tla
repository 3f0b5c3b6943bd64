--------------------------- MODULE IngestContract ---------------------------
(***************************************************************************)
(* What the ingestion promises to those who only see its two outputs, the  *)
(* DynamoDB table and the log: a run announces the file as processing, may *)
(* then store readings of that file, and ends with at most one verdict; it *)
(* says succeeded only when all the readings are stored; after the verdict *)
(* it neither says nor stores anything.  Runs are not coordinated.         *)
(***************************************************************************)
CONSTANTS Run, Reading, succeeded, failed, processing

VARIABLES
  stored,   \* the readings in the database
  reports   \* the reports published

contractVars == <<stored, reports>>

Report ==
  [run: Run, status: {succeeded, failed, processing}, readings: SUBSET Reading]

Of(run) == {r \in reports : r.run = run}
Ended(run) == \E r \in Of(run) : r.status # processing

Init == stored = {} /\ reports = {}

Publish(r) ==
  /\ reports' = reports \cup {r}
  /\ ~Ended(r.run)
  /\ r.status = succeeded => r.readings \subseteq stored
  /\ UNCHANGED stored

\* Some readings of an announced file, of a run that is not over.
Store(r) ==
  /\ ~Ended(r.run)
  /\ \E readings \in SUBSET r.readings : stored' = stored \cup readings
  /\ UNCHANGED reports

\* The report that is published is the one that is new.
Next == \/ \E r \in reports' \ reports : r \in Report /\ Publish(r)
        \/ stored' # stored /\ \E r \in reports : Store(r)

Spec == Init /\ [][Next]_contractVars

\* A run has one verdict, and it is followed by nothing.
OneVerdict ==
  \A q, r \in reports :
    q.run = r.run /\ q.status # processing /\ r.status # processing => q = r
=============================================================================
