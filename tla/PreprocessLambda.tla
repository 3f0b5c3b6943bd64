-------------------------- MODULE PreprocessLambda --------------------------
(***************************************************************************)
(* lambda_function_xml.py: the handler `main' of the Lambda preprocess_xml *)
(* together with the logger (MetaLog) and the schema table                 *)
(* (SchemaRegistry) it uses, several containers at a time.                 *)
(*                                                                         *)
(* An upload to the S3 bucket raises an event; an idle container takes the *)
(* event and runs `main' on it.  AWS invokes the function asynchronously:  *)
(* it may deliver an event twice, and it retries an invocation that raised *)
(* or was killed, until the event has been tried MaxTries times.           *)
(*                                                                         *)
(* An attempt is one delivery of one event, and the event names it: a      *)
(* retry has the next `try', a duplicate a `copy' of its own.  Local       *)
(* computation between two calls to another service is part of the step of *)
(* the first one.                                                          *)
(***************************************************************************)
EXTENDS MetaLog, SchemaRegistry, Sequences, FiniteSets, Functions

CONSTANTS
  Suffix,      \* Suffix[k]: what kind of name the key k is
  Reading,     \* primary keys of DynamoDB items: (site, time) pairs
  DataBody,    \* the data files that may be uploaded
  ChunkSize,   \* chunk_size
  MaxTries,    \* how often AWS tries an event (the default is 3)
  MaxUploads,  \* bound: how many objects are uploaded
  MaxKills,    \* bound: how many containers die while they are busy
  MaxDups,     \* bound: how many events are delivered once more
  Ready,       \* the tables that exist before the first upload
  Known,       \* the schemas registered by then
  None         \* no event, no body, no schema

(***************************************************************************)
(* How a data file is broken, if it is: no GZIP data in a .gz object; not  *)
(* UTF-8; not XML; no publicationTime; a publicationTime that PostgreSQL   *)
(* rejects; a value that makes extract_data raise (Decimal raises          *)
(* InvalidOperation, which is no ValueError); a value that extract_data    *)
(* reports in a message with a quote in it; after the readings one without *)
(* its DynamoDB key.                                                       *)
(***************************************************************************)
DataForm ==
  {"ok", "badgzip", "badutf8", "badxml", "undated", "baddate", "badvalue", "quoted",
   "keyless"}

ASSUME LambdaAssumption ==
  /\ Suffix \in [Key -> {"yml", "xml", "gz", "other"}]
  /\ DataBody \subseteq [form: DataForm, date: Nat, readings: Seq(Reading)]
  /\ ChunkSize \in Nat \ {0}
  /\ MaxTries \in Nat \ {0}
  /\ MaxUploads \in Nat /\ MaxKills \in Nat /\ MaxDups \in Nat
  /\ Ready \subseteq Table /\ Known \subseteq SchemaBody
  /\ SchemaBody \cap DataBody = {}

VARIABLES
  s3,        \* s3[k]: the object now stored under key k
  uploads,   \* how many uploads there have been
  queue,     \* the events AWS has still to deliver
  kills, dups,
  event,     \* event[c]: the attempt container c is running
  alone,     \* alone[c]: no other attempt on the key has overlapped it (history)
  contents,  \* contents[c]: what it read from S3
  schema,    \* schema[c]: what find_schema returned to it
  sent,      \* sent[c]: the index i of its loop over the chunks
  traffic_table   \* the primary keys of the items in DynamoDB

awsVars == <<s3, uploads, queue, kills, dups>>
localVars == <<event, alone, contents, schema, sent>>
vars == <<pgVars, logVars, xml_schemas, awsVars, localVars, traffic_table>>

Event == [upload: 1..MaxUploads, key: Key, try: 1..MaxTries, copy: 0..MaxDups]

ASSUME NoneAssumption == None \notin Event

IsData(k) == Suffix[k] \in {"xml", "gz"}
Bodies(k) == IF Suffix[k] = "yml" THEN SchemaBody ELSE DataBody

\* What a row of xml_log is remembered to be about (history).
About(c) == [run |-> event[c], body |-> contents[c], schema |-> schema[c]]

Init ==
  /\ pc = [c \in Container |-> "free"]
  /\ conn = [c \in Container |-> "none"]
  /\ tables = Ready
  /\ faults = 0
  /\ now = 0
  /\ logTime = [c \in Container |-> 0]
  /\ entry = [c \in Container |-> [status |-> processing, then |-> "return"]]
  /\ xml_log = {}
  /\ xml_schemas = Known
  /\ s3 = [k \in Key |-> None]
  /\ uploads = 0 /\ queue = {} /\ kills = 0 /\ dups = 0
  /\ event = [c \in Container |-> None]
  /\ alone = [c \in Container |-> TRUE]
  /\ contents = [c \in Container |-> None]
  /\ schema = [c \in Container |-> None]
  /\ sent = [c \in Container |-> 0]
  /\ traffic_table = {}

-----------------------------------------------------------------------------
(***************************************************************************)
(* AWS.                                                                    *)
(***************************************************************************)

\* An object is created or overwritten; the bucket notifies the function.
Upload(k, body) ==
  /\ uploads < MaxUploads
  /\ uploads' = uploads + 1
  /\ s3' = [s3 EXCEPT ![k] = body]
  /\ queue' = queue \cup {[upload |-> uploads + 1, key |-> k, try |-> 1, copy |-> 0]}
  /\ UNCHANGED <<pgVars, logVars, xml_schemas, kills, dups, localVars, traffic_table>>

\* The containers that are working on the key k.
Rivals(k) == {d \in Container : event[d] # None /\ event[d].key = k}

\* An idle container gets the event.  `again': AWS will deliver it once more.
Deliver(c, e, again) ==
  /\ pc[c] = "free"
  /\ e \in queue
  /\ \/ ~again /\ queue' = queue \ {e} /\ UNCHANGED dups
     \/ /\ again /\ dups < MaxDups
        /\ queue' = (queue \ {e}) \cup {[e EXCEPT !.copy = dups + 1]}
        /\ dups' = dups + 1
  /\ event' = [event EXCEPT ![c] = e]
  /\ alone' = [d \in Container |->
       IF d = c THEN Rivals(e.key) = {} ELSE alone[d] /\ d \notin Rivals(e.key)]
  /\ Goto(c, IF conn[c] = "none" THEN "connect" ELSE "main")
  /\ UNCHANGED <<conn, tables, faults, logVars, xml_schemas, s3, uploads, kills,
                 contents, schema, sent, traffic_table>>

\* The attempt is over and its local variables are gone.
Over(c) ==
  /\ Goto(c, "free")
  /\ event' = [event EXCEPT ![c] = None]
  /\ alone' = [alone EXCEPT ![c] = TRUE]
  /\ contents' = [contents EXCEPT ![c] = None]
  /\ schema' = [schema EXCEPT ![c] = None]
  /\ sent' = [sent EXCEPT ![c] = 0]
  /\ UNCHANGED <<tables, faults, logVars, xml_schemas, s3, uploads, dups, traffic_table>>

\* The events to deliver after the attempt of c has failed.
Retried(c) ==
  queue \cup {[event[c] EXCEPT !.try = n] : n \in {event[c].try + 1} \cap 1..MaxTries}

\* `main' returns, or raises: the process stays and so does its connection.
Return(c) ==
  /\ pc[c] \in {"return", "raise"}
  /\ queue' = IF pc[c] = "raise" THEN Retried(c) ELSE queue
  /\ Over(c)
  /\ UNCHANGED <<conn, kills>>

\* The process dies in the middle of `main' (timeout, out of memory); the
\* server rolls back what it has not committed.
Kill(c) ==
  /\ event[c] # None
  /\ kills < MaxKills
  /\ kills' = kills + 1
  /\ queue' = Retried(c)
  /\ ConnBecomes(c, "none")
  /\ Over(c)

\* AWS retires an idle container; the next event starts a new process.
Retire(c) ==
  /\ pc[c] = "free" /\ conn[c] # "none"
  /\ ConnBecomes(c, "none")
  /\ UNCHANGED <<pc, tables, faults, logVars, xml_schemas, awsVars, localVars,
                 traffic_table>>

-----------------------------------------------------------------------------
(***************************************************************************)
(* The handler.  The connection and the next step change in most steps;    *)
(* Elsewhere is what no step of main's own code changes, Plain what a step *)
(* changes that computes nothing.                                          *)
(***************************************************************************)
Elsewhere == UNCHANGED <<tables, xml_log, xml_schemas, awsVars, event, alone>>
Plain == Elsewhere /\ UNCHANGED <<now, logTime, contents, schema, sent, traffic_table>>
NoCall == UNCHANGED <<conn, faults>>
NoLog == UNCHANGED entry

\* Importing the module connects to RDS.
Connect(c) ==
  /\ pc[c] = "connect"
  /\ \/ ConnBecomes(c, "idle") /\ Goto(c, "main") /\ UNCHANGED faults
     \/ Fault /\ Goto(c, "raise") /\ UNCHANGED conn
  /\ NoLog /\ Plain

\* main, up to the first call to a service, by the suffix of the key.
Main(c) ==
  /\ pc[c] = "main"
  /\ GetLogger(c)
  /\ \/ Suffix[event[c].key] = "yml" /\ Goto(c, "yml.get") /\ NoLog
     \/ IsData(event[c].key) /\ CommitLog(c, processing, "data.get")
     \/ Suffix[event[c].key] = "other" /\ Goto(c, "return") /\ NoLog
  /\ UNCHANGED <<contents, schema, sent, traffic_table>> /\ NoCall /\ Elsewhere

\* obj.get() fails: a ClientError is logged, any other exception is not caught.
GetFails(c) ==
  /\ pc[c] \in {"yml.get", "data.get"}
  /\ Fault
  /\ CommitLog(c, failed, "return") \/ (Goto(c, "raise") /\ NoLog)
  /\ UNCHANGED conn /\ Plain

\* obj.get() of a schema file, and yaml.load on it.
GetSchema(c) ==
  /\ pc[c] = "yml.get"
  /\ contents' = [contents EXCEPT ![c] = s3[event[c].key]]
  /\ Goto(c, IF s3[event[c].key].form = "badyaml" THEN "except" ELSE "schema.create")
  /\ UNCHANGED <<now, logTime, schema, sent, traffic_table>> /\ NoLog /\ NoCall /\ Elsewhere

AddSchema(c) ==
  /\ CreateSchemaTable(c) \/ InsertSchema(c, contents) \/ CommitSchema(c, contents)
     \/ SchemaRaises(c)
  /\ UNCHANGED <<logVars, awsVars, localVars, traffic_table>>

\* Mutant: the handler of the exception lacks its `return'.
ExceptFallsThrough(c) ==
  /\ pc[c] \in {"added", "except"}
  /\ CommitLog(c, succeeded, "return")
  /\ NoCall /\ Plain

\* Mutant: commit_log is called without its status, which is then `missing'.
StatusLeftOut(c) ==
  /\ pc[c] \in {"added", "except"}
  /\ CommitLog(c, IF pc[c] = "added" THEN succeeded ELSE missing, "return")
  /\ NoCall /\ Plain

\* add_schema returns, or something in the try block raises.
SchemaDone(c) ==
  /\ pc[c] \in {"added", "except"}
  /\ CommitLog(c, IF pc[c] = "added" THEN succeeded ELSE failed, "return")
  /\ NoCall /\ Plain

\* obj.get() of a data file.
GetData(c) ==
  /\ pc[c] = "data.get"
  /\ contents' = [contents EXCEPT ![c] = s3[event[c].key]]
  /\ CommitLog(c, processing, "data.parse")
  /\ UNCHANGED <<now, logTime, schema, sent, traffic_table>> /\ NoCall /\ Elsewhere

\* The forms of a data file that `main' logs as failed, and those that raise.
LoggedForm(k) == {"badxml"} \cup IF Suffix[k] = "gz" THEN {"badgzip"} ELSE {}
RaisingForm == {"badutf8", "undated"}

\* Mutant: the handler of a parse error lacks its `return'.
ParseErrorGoesOn(c) ==
  /\ pc[c] = "data.parse"
  /\ \/ contents[c].form \in LoggedForm(event[c].key) /\ CommitLog(c, failed, "data.find")
     \/ contents[c].form \notin LoggedForm(event[c].key) /\ Goto(c, "data.find") /\ NoLog
  /\ NoCall /\ Plain

\* gzip.decompress, decode, fromstring and the lookup of publicationTime.
ParseData(c) ==
  /\ pc[c] = "data.parse"
  /\ \/ contents[c].form \in LoggedForm(event[c].key) /\ CommitLog(c, failed, "return")
     \/ contents[c].form \in RaisingForm /\ Goto(c, "raise") /\ NoLog
     \/ /\ contents[c].form \notin LoggedForm(event[c].key) \cup RaisingForm
        /\ Goto(c, "data.find") /\ NoLog
  /\ NoCall /\ Plain

\* Mutant: nothing is logged, and so nothing committed, when no schema matches.
NoMatchNotLogged(c) ==
  LET newest == Newest(event[c].key, contents[c].date)
  IN /\ pc[c] = "data.find"
     /\ "xml_schemas" \in tables /\ contents[c].form # "baddate"
     /\ Executes(c)
     /\ \/ newest = {} /\ Goto(c, "return") /\ UNCHANGED <<entry, schema>>
        \/ \E s \in newest :
             /\ schema' = [schema EXCEPT ![c] = s]
             /\ CommitLog(c, processing, "data.extract")
     /\ UNCHANGED <<faults, now, logTime, contents, sent, traffic_table>> /\ Elsewhere

\* find_schema selects a row; a schema without prefixes or data is refused.
FindSchema(c) ==
  LET newest == Newest(event[c].key, contents[c].date)
  IN /\ pc[c] = "data.find"
     /\ "xml_schemas" \in tables /\ contents[c].form # "baddate"
     /\ Executes(c)
     /\ \/ newest = {} /\ CommitLog(c, failed, "return") /\ UNCHANGED schema
        \/ \E s \in newest :
             /\ schema' = [schema EXCEPT ![c] = s]
             /\ IF s.layout = "incomplete" THEN CommitLog(c, failed, "return")
                                           ELSE CommitLog(c, processing, "data.extract")
     /\ UNCHANGED <<faults, now, logTime, contents, sent, traffic_table>> /\ Elsewhere

\* The SELECT is rejected when the table does not exist (find_schema, unlike
\* add_schema, does not create it) or when the date is no timestamp.
FindSchemaRaises(c) ==
  /\ pc[c] = "data.find"
  /\ \/ ("xml_schemas" \notin tables \/ contents[c].form = "baddate")
        /\ Rejected(c) /\ UNCHANGED faults
     \/ CallRaises(c)
  /\ Goto(c, "raise")
  /\ NoLog /\ Plain

ExtractData(c) ==
  /\ pc[c] = "data.extract"
  /\ IF schema[c].layout = "unusable" \/ contents[c].form = "badvalue"
       THEN Goto(c, "raise") /\ NoLog
       ELSE CommitLog(c, processing, "data.write")
  /\ NoCall /\ Plain

\* The readings of the file, in chunks data[i:j].
Size(c) == Len(contents[c].readings)
ChunkEnd(c) == IF sent[c] + ChunkSize < Size(c) THEN sent[c] + ChunkSize ELSE Size(c)

\* Mutant: the slice leaves out its last item.
ShortChunk(c) == {contents[c].readings[i] : i \in (sent[c] + 1)..(ChunkEnd(c) - 1)}

Chunk(c) == {contents[c].readings[i] : i \in (sent[c] + 1)..ChunkEnd(c)}

\* The reading without its key, after the others, is in the current chunk:
\* put_item does not get past it.
Keyless(c) == contents[c].form = "keyless" /\ sent[c] + ChunkSize > Size(c)

\* The batch writer sends some of the items of the current chunk.
FlushSome(c) ==
  /\ pc[c] = "data.write"
  /\ \E part \in SUBSET Chunk(c) : traffic_table' = traffic_table \cup part
  /\ UNCHANGED <<pgVars, logVars, xml_schemas, awsVars, localVars>>

\* The `with' block of one chunk ends when all its items are sent.
WriteChunk(c) ==
  /\ pc[c] = "data.write"
  /\ sent[c] < Size(c) /\ ~Keyless(c)
  /\ traffic_table' = traffic_table \cup Chunk(c)
  /\ sent' = [sent EXCEPT ![c] = ChunkEnd(c)]
  /\ UNCHANGED <<pc, now, logTime, contents, schema>> /\ NoLog /\ NoCall /\ Elsewhere

\* Mutant: an exception in the loop is caught and the loop left.
WriteErrorIgnored(c) ==
  /\ pc[c] = "data.write"
  /\ sent[c] < Size(c) \/ Keyless(c)
  /\ Fault \/ (Keyless(c) /\ UNCHANGED faults)
  /\ CommitLog(c, succeeded, "return")
  /\ UNCHANGED conn /\ Plain

\* DynamoDB refuses a batch, or put_item gets a reading without its key.
WriteRaises(c) ==
  /\ pc[c] = "data.write"
  /\ sent[c] < Size(c) \/ Keyless(c)
  /\ Fault \/ (Keyless(c) /\ UNCHANGED faults)
  /\ Goto(c, "raise")
  /\ UNCHANGED conn /\ NoLog /\ Plain

\* The loop is over.
FinishWriting(c) ==
  /\ pc[c] = "data.write"
  /\ sent[c] = Size(c) /\ ~Keyless(c)
  /\ CommitLog(c, succeeded, "return")
  /\ NoCall /\ Plain

\* The messages of extract_data are in the row that is written after it.
Quotable(c) == entry[c].then = "data.write" => contents[c].form # "quoted"

Log(c) ==
  /\ CreateLogTable(c) \/ InsertLog(c, Quotable(c)) \/ CommitLogRow(c, About(c)) \/ LogRaises(c)
  /\ UNCHANGED <<xml_schemas, awsVars, localVars, traffic_table>>

-----------------------------------------------------------------------------
\* Every step of the process except the flushes inside a chunk, which WriteChunk
\* completes in any case.
Progress(c) ==
  \/ Connect(c) \/ Main(c) \/ GetFails(c) \/ Return(c)
  \/ GetSchema(c) \/ AddSchema(c) \/ SchemaDone(c)
  \/ GetData(c) \/ ParseData(c) \/ FindSchema(c) \/ FindSchemaRaises(c)
  \/ ExtractData(c) \/ WriteChunk(c) \/ WriteRaises(c) \/ FinishWriting(c) \/ Log(c)

Next ==
  \/ \E k \in Key : \E body \in Bodies(k) : Upload(k, body)
  \/ \E c \in Container, e \in queue, again \in BOOLEAN : Deliver(c, e, again)
  \/ \E c \in Container : Kill(c) \/ Retire(c) \/ FlushSome(c) \/ Progress(c)

Spec == Init /\ [][Next]_vars

(***************************************************************************)
(* Fairness.  A running process goes on until it returns, raises or dies;  *)
(* AWS gives an event to some container sooner or later.  Nothing obliges  *)
(* anybody to upload a file, or a container to die.                        *)
(***************************************************************************)
FairSpec ==
  /\ Spec
  /\ \A c \in Container : WF_vars(Progress(c))
  /\ WF_vars(\E c \in Container, e \in queue : Deliver(c, e, FALSE))
=============================================================================
