-------------------------- MODULE LambdaCorrectness --------------------------
(***************************************************************************)
(* What makes the Lambda correct, as properties of PreprocessLambda.       *)
(***************************************************************************)
EXTENDS PreprocessLambda

Label ==
  {"free", "connect", "main", "yml.get", "added", "except", "data.get", "data.parse",
   "data.find", "data.extract", "data.write", "return", "raise"}
  \cup LogLabel \cup SchemaLabel

\* Where commit_log may go on.
Continuation == {"data.get", "data.parse", "data.extract", "data.write", "return"}

PgOK ==
  /\ pc \in [Container -> Label]
  /\ conn \in [Container -> ConnStatus]
  /\ tables \subseteq Table
  /\ faults \in 0..MaxFaults

LogOK ==
  /\ now \in Nat
  /\ logTime \in [Container -> Nat]
  /\ entry \in [Container -> [status: Status, then: Continuation]]
  /\ \A r \in xml_log : r.time \in Nat /\ r.status \in Status /\ r.of.run \in Event

StoreOK == xml_schemas \subseteq SchemaBody /\ traffic_table \subseteq Reading

AwsOK ==
  /\ s3 \in [Key -> SchemaBody \cup DataBody \cup {None}]
  /\ uploads \in 0..MaxUploads
  /\ queue \subseteq Event
  /\ kills \in 0..MaxKills
  /\ dups \in 0..MaxDups

LocalOK ==
  /\ event \in [Container -> Event \cup {None}]
  /\ alone \in [Container -> BOOLEAN]
  /\ contents \in [Container -> SchemaBody \cup DataBody \cup {None}]
  /\ schema \in [Container -> SchemaBody \cup {None}]
  /\ sent \in [Container -> Nat]

\* Every variable holds a value of its kind, and a row of the log says
\* succeeded, failed or processing, never the default status of commit_log.
TypeOK == PgOK /\ LogOK /\ StoreOK /\ AwsOK /\ LocalOK

ReadingsOf(body) == IF body \in DataBody THEN Range(body.readings) ELSE {}

\* A file is reported as succeeded only when every reading of what was read
\* from S3 is in DynamoDB, whatever crashed, was retried or ran beside it
\* (the chunk loop and the last commit_log of main).
SucceededIsStored ==
  \A r \in xml_log : r.status = succeeded => ReadingsOf(r.of.body) \subseteq traffic_table

\* Only add_schema and commit_log have a transaction open: the connection holds
\* no lock and no uncommitted row while main downloads, extracts or writes to
\* DynamoDB, nor when the idle container is frozen (no path from a statement
\* to the end of the invocation avoids a commit, find_schema's SELECT included).
NothingLeftOpen ==
  \A c \in Container : conn[c] = "intrans" => pc[c] \in LogLabel \cup SchemaLabel

\* Among the rows of one attempt the one that says succeeded or failed has
\* the latest time, so the dashboard, which takes the latest, never shows
\* a finished attempt as processing (the early returns of main, and the
\* order in which commit_log reads the clock).
FinalRowIsLatest ==
  \A q, r \in xml_log :
    q # r /\ q.of.run = r.of.run /\ q.status \in Final => r.time < q.time

\* While no other attempt on the same file overlaps, each row an attempt
\* commits is later than all rows of that file, so that it is the one the
\* dashboard shows (a row carries the time of the previous commit, not its
\* own: the logger is created and emptied late enough for this).  The clock is
\* one for all containers; where hosts disagree by more than the time between
\* two attempts, the property says nothing.
LoneRowIsNewest ==
  [][\A c \in Container, r \in xml_log' \ xml_log :
       event[c] # None /\ r.of.run = event[c] /\ alone[c]
         => \A q \in xml_log : q.of.run.key = r.of.run.key => q.time < r.time]_vars

\* A registered schema is neither replaced nor lost, also when two containers
\* register the same pattern and version at once (ON CONFLICT DO NOTHING), so
\* what an attempt has extracted with it can be extracted again.
SchemasKept == [][xml_schemas \subseteq xml_schemas']_xml_schemas

\* A file that is processed again is never read with an older schema than
\* the one an earlier attempt has finished with (find_schema).
NeverOlderSchema ==
  [][\A c \in Container :
       schema[c] = None /\ schema'[c] # None
         => \A r \in xml_log :
              /\ r.of.run.key = event[c].key
              /\ r.of.body = contents[c]
              /\ r.of.schema # None
              => r.of.schema.version <= schema'[c].version]_schema

\* A schema file reported as succeeded has a schema of its pattern and version
\* in the table, although the report and the row are two transactions of a
\* connection that may break (the try block of main, and add_schema).
SucceededHasSchema ==
  \A r \in xml_log :
    r.status = succeeded /\ r.of.body \in SchemaBody
      => \E s \in xml_schemas : SameKey(s, r.of.body)

\* The outputs of the Lambda are those of IngestContract: an attempt announces
\* a file, stores readings of that file only, ends with one verdict at most,
\* and does nothing after it.
ReportOf(r) == [run |-> r.of.run, status |-> r.status, readings |-> ReadingsOf(r.of.body)]

Contract ==
  INSTANCE IngestContract
    WITH Run <- Event, stored <- traffic_table, reports <- {ReportOf(r) : r \in xml_log}

KeepsContract == Contract!Spec

\* Every upload is reported as succeeded or failed in the end.
UploadsSettle ==
  \A n \in 1..MaxUploads :
    uploads >= n ~> \E r \in xml_log : r.of.run.upload = n /\ r.status \in Final

-----------------------------------------------------------------------------
(***************************************************************************)
(* What the documentation and the code's own comments and messages say,    *)
(* and the code does not do.                                               *)
(***************************************************************************)

\* "Log progress updates and errors to Postgres" (README.md): an attempt that
\* raises has left a row that says it failed.
RaisedIsLogged ==
  \A c \in Container :
    pc[c] = "raise" => \E r \in xml_log : r.of.run = event[c] /\ r.status = failed

\* "Put the schema from ... into the database" (lambda_function_xml.py:82): a
\* schema file reported as succeeded is in the table.
SucceededIsRegistered ==
  \A r \in xml_log :
    r.status = succeeded /\ r.of.body \in SchemaBody => r.of.body \in xml_schemas
=============================================================================
