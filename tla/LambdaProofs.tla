---------------------------- MODULE LambdaProofs ----------------------------
(***************************************************************************)
(* Theorems about PreprocessLambda, for every value of its constants.      *)
(***************************************************************************)
EXTENDS LambdaCorrectness, TLAPS

\* c is at one of the labels, or will be when commit_log returns.
Heads(c, labels) ==
  pc[c] \in labels \/ (pc[c] \in LogLabel /\ entry[c].then \in labels)

DataLabel == {"data.get", "data.parse", "data.find", "data.extract", "data.write"}

\* Events are about objects that exist, and an object suits its name.
ObjectsOK ==
  /\ \A k \in Key : s3[k] \in Bodies(k) \cup {None}
  /\ \A e \in queue : s3[e.key] \in Bodies(e.key)
  /\ \A c \in Container : event[c] # None => s3[event[c].key] \in Bodies(event[c].key)

\* What a container has in hand where it is.
HandOK(c) ==
  /\ pc[c] # "free" => event[c] \in Event /\ s3[event[c].key] \in Bodies(event[c].key)
  /\ pc[c] \in {"yml.get"} \cup SchemaLabel => Suffix[event[c].key] = "yml"
  /\ pc[c] \in SchemaLabel \cup {"added", "except"} => contents[c] \in SchemaBody
  /\ Heads(c, DataLabel) => IsData(event[c].key)
  /\ Heads(c, DataLabel \ {"data.get"}) => contents[c] \in DataBody

TypeInv == TypeOK /\ ObjectsOK /\ \A c \in Container : HandOK(c)

LEMMA InitTypeInv == Init => TypeInv
<1> SUFFICES ASSUME Init PROVE TypeInv
  OBVIOUS
<1> USE DEF Init
<1>1. TypeOK
  BY MaxFaultsAssumption, LambdaAssumption
     DEF TypeOK, PgOK, LogOK, StoreOK, AwsOK, LocalOK, Label, Continuation, ConnStatus,
         Status, succeeded, failed, processing
<1>2. ObjectsOK
  BY DEF ObjectsOK
<1>3. \A c \in Container : HandOK(c)
  BY DEF HandOK, Heads, LogLabel, SchemaLabel, DataLabel
<1> QED BY <1>1, <1>2, <1>3 DEF TypeInv

-----------------------------------------------------------------------------
(***************************************************************************)
(* Lemmas about the operators of PgSession and MetaLog that the actions    *)
(* are built from.                                                         *)
(***************************************************************************)

\* A step that moves c to a label, and does to its connection what some call
\* on it may do, leaves the session well typed.
LEMMA SessionStep ==
  ASSUME PgOK, NEW c \in Container, NEW l \in Label, Goto(c, l),
         \/ UNCHANGED conn
         \/ \E status \in ConnStatus : ConnBecomes(c, status),
         Fault \/ UNCHANGED faults,
         tables' \subseteq Table
  PROVE  PgOK'
  BY MaxFaultsAssumption DEF PgOK, Goto, ConnBecomes, Fault

\* A call of commit_log has a status and a continuation it may have.
LEMMA CommitLogStep ==
  ASSUME LogOK, NEW c \in Container, NEW status \in Status, NEW then \in Continuation,
         CommitLog(c, status, then), UNCHANGED <<now, logTime, xml_log>>
  PROVE  LogOK'
  BY DEF LogOK, CommitLog

\* What the other containers have in hand does not depend on what c does.
LEMMA OtherHands ==
  ASSUME NEW d \in Container, HandOK(d), UNCHANGED s3,
         pc'[d] = pc[d], entry'[d] = entry[d], event'[d] = event[d],
         contents'[d] = contents[d]
  PROVE  HandOK(d)'
  BY DEF HandOK, Heads, IsData, Bodies

\* A step of the handler that computes nothing keeps TypeInv if it keeps
\* c's part of it.
LEMMA PlainStep ==
  ASSUME TypeInv, NEW c \in Container, NEW l \in Label, Plain, Goto(c, l), PgOK', LogOK',
         \A d \in Container : d # c => entry'[d] = entry[d],
         HandOK(c)'
  PROVE  TypeInv'
<1> USE DEF TypeInv, TypeOK, Plain, Elsewhere, awsVars
<1>1. StoreOK' /\ AwsOK' /\ LocalOK' /\ ObjectsOK'
  BY DEF StoreOK, AwsOK, LocalOK, ObjectsOK, Bodies
<1>2. ASSUME NEW d \in Container, d # c PROVE HandOK(d)'
  BY <1>2, OtherHands DEF PgOK, Goto
<1> QED BY <1>1, <1>2

\* What c must have in hand to go on at a label, when it computes nothing.
LEMMA SameHand ==
  ASSUME TypeInv, NEW c \in Container, Plain, pc[c] # "free",
         pc'[c] \notin {"yml.get", "added", "except"} \cup SchemaLabel,
         Heads(c, DataLabel)' => Heads(c, DataLabel) \/ IsData(event[c].key),
         Heads(c, DataLabel \ {"data.get"})'
           => Heads(c, DataLabel \ {"data.get"}) \/ contents[c] \in DataBody
  PROVE  HandOK(c)'
  BY DEF TypeInv, HandOK, Plain, Elsewhere, awsVars, IsData, Bodies

-----------------------------------------------------------------------------
(***************************************************************************)
(* The steps of the handler that compute nothing.                          *)
(***************************************************************************)
LEMMA ConnectTypeInv ==
  ASSUME TypeInv, NEW c \in Container, Connect(c)
  PROVE  TypeInv'
<1> USE DEF TypeInv, TypeOK
<1>1. PICK l \in {"main", "raise"} : Goto(c, l)
  BY DEF Connect
<1>2. PgOK'
  BY <1>1, SessionStep DEF Connect, Plain, Elsewhere, Label, ConnStatus, PgOK
<1>3. LogOK'
  BY DEF Connect, LogOK, NoLog, Plain, Elsewhere
<1>4. HandOK(c)'
  BY <1>1, SameHand DEF Connect, Heads, PgOK, Goto, SchemaLabel, LogLabel, DataLabel
<1> QED BY <1>1, <1>2, <1>3, <1>4, PlainStep DEF Connect, NoLog, Label

LEMMA GetFailsTypeInv ==
  ASSUME TypeInv, NEW c \in Container, GetFails(c)
  PROVE  TypeInv'
<1> USE DEF TypeInv, TypeOK
<1>1. PICK l \in {"log.create", "raise"} : Goto(c, l)
  BY DEF GetFails, CommitLog
<1>2. PgOK'
  BY <1>1, SessionStep DEF GetFails, Plain, Elsewhere, Label, LogLabel, PgOK
<1>3. LogOK'
  BY CommitLogStep DEF GetFails, LogOK, NoLog, Plain, Elsewhere, Status, Continuation
<1>4. HandOK(c)'
  BY <1>1, SameHand
     DEF GetFails, CommitLog, Heads, PgOK, LogOK, Goto, SchemaLabel, LogLabel, DataLabel
<1> QED
  BY <1>1, <1>2, <1>3, <1>4, PlainStep
     DEF GetFails, NoLog, CommitLog, LogOK, Label, LogLabel

LEMMA SchemaDoneTypeInv ==
  ASSUME TypeInv, NEW c \in Container, SchemaDone(c)
  PROVE  TypeInv'
<1> USE DEF TypeInv, TypeOK
<1>1. Goto(c, "log.create")
  BY DEF SchemaDone, CommitLog
<1>2. PgOK'
  BY <1>1, SessionStep DEF SchemaDone, NoCall, Plain, Elsewhere, Label, LogLabel, PgOK
<1>3. LogOK'
  BY CommitLogStep DEF SchemaDone, Plain, Elsewhere, Status, Continuation
<1>4. HandOK(c)'
  BY <1>1, SameHand
     DEF SchemaDone, CommitLog, Heads, PgOK, LogOK, Goto, SchemaLabel, LogLabel, DataLabel
<1> QED
  BY <1>1, <1>2, <1>3, <1>4, PlainStep DEF SchemaDone, CommitLog, LogOK, Label, LogLabel

LEMMA ParseDataTypeInv ==
  ASSUME TypeInv, NEW c \in Container, ParseData(c)
  PROVE  TypeInv'
<1> USE DEF TypeInv, TypeOK
<1>1. PICK l \in {"log.create", "raise", "data.find"} : Goto(c, l)
  BY DEF ParseData, CommitLog
<1>2. PgOK'
  BY <1>1, SessionStep
     DEF ParseData, NoCall, Plain, Elsewhere, Label, LogLabel, PgOK
<1>3. LogOK'
  BY CommitLogStep DEF ParseData, LogOK, NoLog, Plain, Elsewhere, Status, Continuation
<1>4. HandOK(c)'
  BY <1>1, SameHand
     DEF ParseData, CommitLog, NoLog, HandOK, Heads, PgOK, LogOK, Goto, SchemaLabel, LogLabel,
         DataLabel
<1> QED
  BY <1>1, <1>2, <1>3, <1>4, PlainStep
     DEF ParseData, NoLog, CommitLog, LogOK, Label, LogLabel

LEMMA FindSchemaRaisesTypeInv ==
  ASSUME TypeInv, NEW c \in Container, FindSchemaRaises(c)
  PROVE  TypeInv'
<1> USE DEF TypeInv, TypeOK
<1>1. PICK l \in {"raise"} : Goto(c, l)
  BY DEF FindSchemaRaises, CommitLog
<1>2. PgOK'
  BY <1>1, SessionStep
     DEF FindSchemaRaises, NoCall, Plain, Elsewhere, Label, LogLabel, PgOK, Rejected, CallRaises, Breaks, ConnStatus
<1>3. LogOK'
  BY CommitLogStep DEF FindSchemaRaises, LogOK, NoLog, Plain, Elsewhere, Status, Continuation
<1>4. HandOK(c)'
  BY <1>1, SameHand
     DEF FindSchemaRaises, CommitLog, NoLog, HandOK, Heads, PgOK, LogOK, Goto, SchemaLabel, LogLabel,
         DataLabel
<1> QED
  BY <1>1, <1>2, <1>3, <1>4, PlainStep
     DEF FindSchemaRaises, NoLog, CommitLog, LogOK, Label, LogLabel

LEMMA ExtractDataTypeInv ==
  ASSUME TypeInv, NEW c \in Container, ExtractData(c)
  PROVE  TypeInv'
<1> USE DEF TypeInv, TypeOK
<1>1. PICK l \in {"log.create", "raise"} : Goto(c, l)
  BY DEF ExtractData, CommitLog
<1>2. PgOK'
  BY <1>1, SessionStep
     DEF ExtractData, NoCall, Plain, Elsewhere, Label, LogLabel, PgOK
<1>3. LogOK'
  BY CommitLogStep DEF ExtractData, LogOK, NoLog, Plain, Elsewhere, Status, Continuation
<1>4. HandOK(c)'
  BY <1>1, SameHand
     DEF ExtractData, CommitLog, NoLog, HandOK, Heads, PgOK, LogOK, Goto, SchemaLabel, LogLabel,
         DataLabel
<1> QED
  BY <1>1, <1>2, <1>3, <1>4, PlainStep
     DEF ExtractData, NoLog, CommitLog, LogOK, Label, LogLabel

LEMMA WriteRaisesTypeInv ==
  ASSUME TypeInv, NEW c \in Container, WriteRaises(c)
  PROVE  TypeInv'
<1> USE DEF TypeInv, TypeOK
<1>1. PICK l \in {"raise"} : Goto(c, l)
  BY DEF WriteRaises, CommitLog
<1>2. PgOK'
  BY <1>1, SessionStep
     DEF WriteRaises, NoCall, Plain, Elsewhere, Label, LogLabel, PgOK
<1>3. LogOK'
  BY CommitLogStep DEF WriteRaises, LogOK, NoLog, Plain, Elsewhere, Status, Continuation
<1>4. HandOK(c)'
  BY <1>1, SameHand
     DEF WriteRaises, CommitLog, NoLog, HandOK, Heads, PgOK, LogOK, Goto, SchemaLabel, LogLabel,
         DataLabel
<1> QED
  BY <1>1, <1>2, <1>3, <1>4, PlainStep
     DEF WriteRaises, NoLog, CommitLog, LogOK, Label, LogLabel

LEMMA FinishWritingTypeInv ==
  ASSUME TypeInv, NEW c \in Container, FinishWriting(c)
  PROVE  TypeInv'
<1> USE DEF TypeInv, TypeOK
<1>1. PICK l \in {"log.create"} : Goto(c, l)
  BY DEF FinishWriting, CommitLog
<1>2. PgOK'
  BY <1>1, SessionStep
     DEF FinishWriting, NoCall, Plain, Elsewhere, Label, LogLabel, PgOK
<1>3. LogOK'
  BY CommitLogStep DEF FinishWriting, LogOK, NoLog, Plain, Elsewhere, Status, Continuation
<1>4. HandOK(c)'
  BY <1>1, SameHand
     DEF FinishWriting, CommitLog, NoLog, HandOK, Heads, PgOK, LogOK, Goto, SchemaLabel, LogLabel,
         DataLabel
<1> QED
  BY <1>1, <1>2, <1>3, <1>4, PlainStep
     DEF FinishWriting, NoLog, CommitLog, LogOK, Label, LogLabel

-----------------------------------------------------------------------------
(***************************************************************************)
(* The steps of the handler that read the clock, S3 or the schema table,   *)
(* or write to DynamoDB.                                                   *)
(***************************************************************************)
LEMMA MainTypeInv ==
  ASSUME TypeInv, NEW c \in Container, Main(c)
  PROVE  TypeInv'
<1> USE DEF TypeInv, TypeOK
<1>1. PICK l \in {"yml.get", "log.create", "return"} : Goto(c, l)
  BY DEF Main, CommitLog
<1>2. PgOK'
  BY <1>1, SessionStep DEF Main, NoCall, Elsewhere, Label, LogLabel, PgOK
<1>3. now' \in Nat /\ logTime' \in [Container -> Nat]
  BY TicksAssumption DEF Main, GetLogger, LogOK
<1>4. LogOK'
  BY <1>3 DEF Main, LogOK, CommitLog, NoLog, Elsewhere, Status, Continuation
<1>5. StoreOK' /\ AwsOK' /\ LocalOK' /\ ObjectsOK'
  BY DEF Main, Elsewhere, awsVars, StoreOK, AwsOK, LocalOK, ObjectsOK, Bodies
<1>6. HandOK(c)'
  BY <1>1
     DEF Main, CommitLog, NoLog, Elsewhere, awsVars, HandOK, Heads, PgOK, LogOK, Goto,
         SchemaLabel, LogLabel, DataLabel, IsData, Bodies
<1>7. ASSUME NEW d \in Container, d # c PROVE HandOK(d)'
  BY <1>7, OtherHands DEF Main, Goto, CommitLog, NoLog, Elsewhere, awsVars, PgOK, LogOK
<1> QED BY <1>2, <1>4, <1>5, <1>6, <1>7

LEMMA GetSchemaTypeInv ==
  ASSUME TypeInv, NEW c \in Container, GetSchema(c)
  PROVE  TypeInv'
<1> USE DEF TypeInv, TypeOK
<1>1. s3[event[c].key] \in SchemaBody
  BY DEF GetSchema, HandOK, Bodies
<1>2. PICK l \in {"except", "schema.create"} : Goto(c, l)
  BY DEF GetSchema
<1>3. PgOK'
  BY <1>2, SessionStep DEF GetSchema, NoCall, Elsewhere, Label, SchemaLabel, PgOK
<1>4. LogOK' /\ StoreOK' /\ AwsOK' /\ ObjectsOK'
  BY DEF GetSchema, NoLog, Elsewhere, awsVars, LogOK, StoreOK, AwsOK, ObjectsOK, Bodies
<1>5. LocalOK'
  BY <1>1 DEF GetSchema, Elsewhere, LocalOK
<1>6. HandOK(c)'
  BY <1>1, <1>2
     DEF GetSchema, NoLog, Elsewhere, awsVars, HandOK, Heads, PgOK, LocalOK, Goto,
         SchemaLabel, LogLabel, DataLabel, IsData, Bodies
<1>7. ASSUME NEW d \in Container, d # c PROVE HandOK(d)'
  BY <1>7, OtherHands DEF GetSchema, Goto, NoLog, Elsewhere, awsVars, PgOK, LocalOK
<1> QED BY <1>3, <1>4, <1>5, <1>6, <1>7

LEMMA GetDataTypeInv ==
  ASSUME TypeInv, NEW c \in Container, GetData(c)
  PROVE  TypeInv'
<1> USE DEF TypeInv, TypeOK
<1>1. s3[event[c].key] \in DataBody /\ IsData(event[c].key)
  BY DEF GetData, HandOK, Heads, DataLabel, Bodies, IsData
<1>2. Goto(c, "log.create")
  BY DEF GetData, CommitLog
<1>3. PgOK'
  BY <1>2, SessionStep DEF GetData, NoCall, Elsewhere, Label, LogLabel, PgOK
<1>4. LogOK'
  BY CommitLogStep DEF GetData, Elsewhere, Status, Continuation
<1>5. StoreOK' /\ AwsOK' /\ ObjectsOK'
  BY DEF GetData, Elsewhere, awsVars, StoreOK, AwsOK, ObjectsOK, Bodies
<1>6. LocalOK'
  BY <1>1 DEF GetData, Elsewhere, LocalOK
<1>7. HandOK(c)'
  BY <1>1, <1>2
     DEF GetData, Elsewhere, awsVars, HandOK, Heads, PgOK, LocalOK, Goto,
         SchemaLabel, LogLabel, DataLabel, IsData, Bodies
<1>8. ASSUME NEW d \in Container, d # c PROVE HandOK(d)'
  BY <1>8, OtherHands DEF GetData, Goto, CommitLog, Elsewhere, awsVars, PgOK, LocalOK, LogOK
<1> QED BY <1>3, <1>4, <1>5, <1>6, <1>7, <1>8

LEMMA FindSchemaTypeInv ==
  ASSUME TypeInv, NEW c \in Container, FindSchema(c)
  PROVE  TypeInv'
<1> USE DEF TypeInv, TypeOK
<1>1. Goto(c, "log.create") /\ ConnBecomes(c, "intrans")
  BY DEF FindSchema, CommitLog, Executes
<1>2. PgOK'
  BY <1>1, SessionStep DEF FindSchema, Elsewhere, Label, LogLabel, ConnStatus, PgOK
<1>3. LogOK'
  BY CommitLogStep DEF FindSchema, Elsewhere, Status, Continuation
<1>4. StoreOK' /\ AwsOK' /\ ObjectsOK'
  BY DEF FindSchema, Elsewhere, awsVars, StoreOK, AwsOK, ObjectsOK, Bodies
<1>5. schema' \in [Container -> SchemaBody \cup {None}]
  BY DEF FindSchema, Newest, Matching, LocalOK, StoreOK
<1>6. LocalOK'
  BY <1>5 DEF FindSchema, Elsewhere, LocalOK
<1>7. HandOK(c)'
  BY <1>1
     DEF FindSchema, CommitLog, Elsewhere, awsVars, HandOK, Heads, PgOK, LogOK, Goto,
         SchemaLabel, LogLabel, DataLabel, IsData, Bodies
<1>8. ASSUME NEW d \in Container, d # c PROVE HandOK(d)'
  BY <1>1, <1>8, OtherHands DEF FindSchema, Goto, CommitLog, Elsewhere, awsVars, PgOK, LogOK
<1> QED BY <1>2, <1>3, <1>4, <1>6, <1>7, <1>8

\* The chunk that is written lies within the readings of the file.
LEMMA ChunkWithin ==
  ASSUME TypeInv, NEW c \in Container, pc[c] = "data.write"
  PROVE  /\ contents[c] \in DataBody /\ contents[c].readings \in Seq(Reading)
         /\ Size(c) \in Nat /\ sent[c] \in Nat /\ ChunkEnd(c) \in Nat
         /\ ChunkEnd(c) <= Size(c)
         /\ Chunk(c) \subseteq Reading
<1>1. contents[c] \in DataBody
  BY DEF TypeInv, HandOK, Heads, DataLabel
<1>2. contents[c].readings \in Seq(Reading)
  BY <1>1, LambdaAssumption
<1>3. Size(c) \in Nat
  BY <1>2 DEF Size
<1>4. sent[c] \in Nat
  BY DEF TypeInv, TypeOK, LocalOK
<1>5. ChunkEnd(c) \in Nat /\ ChunkEnd(c) <= Size(c)
  BY <1>3, <1>4, LambdaAssumption DEF ChunkEnd
<1>6. ASSUME NEW i \in (sent[c] + 1)..ChunkEnd(c) PROVE contents[c].readings[i] \in Reading
  <2>1. i \in 1..Len(contents[c].readings)
    BY <1>3, <1>4, <1>5 DEF Size
  <2> QED BY <2>1, <1>2
<1> QED BY <1>1, <1>2, <1>3, <1>4, <1>5, <1>6 DEF Chunk

LEMMA FlushSomeTypeInv ==
  ASSUME TypeInv, NEW c \in Container, FlushSome(c)
  PROVE  TypeInv'
<1> USE DEF TypeInv, TypeOK
<1>1. StoreOK'
  BY ChunkWithin DEF FlushSome, StoreOK
<1>2. PgOK' /\ LogOK' /\ AwsOK' /\ LocalOK' /\ ObjectsOK'
  BY DEF FlushSome, pgVars, logVars, awsVars, localVars, PgOK, LogOK, AwsOK, LocalOK,
         ObjectsOK, Bodies
<1>3. ASSUME NEW d \in Container PROVE HandOK(d)'
  BY OtherHands DEF FlushSome, pgVars, logVars, awsVars, localVars
<1> QED BY <1>1, <1>2, <1>3

LEMMA WriteChunkTypeInv ==
  ASSUME TypeInv, NEW c \in Container, WriteChunk(c)
  PROVE  TypeInv'
<1> USE DEF TypeInv, TypeOK
<1>1. StoreOK' /\ LocalOK'
  BY ChunkWithin DEF WriteChunk, Elsewhere, StoreOK, LocalOK
<1>2. PgOK' /\ LogOK' /\ AwsOK' /\ ObjectsOK'
  BY DEF WriteChunk, NoLog, NoCall, Elsewhere, awsVars, PgOK, LogOK, AwsOK, ObjectsOK, Bodies
<1>3. ASSUME NEW d \in Container PROVE HandOK(d)'
  BY OtherHands DEF WriteChunk, NoLog, Elsewhere, awsVars
<1> QED BY <1>1, <1>2, <1>3

\* A step of add_schema moves between its labels, or to the end of the try
\* block, and does to the table what CommitSchema does or nothing.
LEMMA AddSchemaShape ==
  ASSUME TypeInv, NEW c \in Container, AddSchema(c)
  PROVE  /\ pc[c] \in SchemaLabel
         /\ \E l \in SchemaLabel \cup {"added", "except"} : Goto(c, l)
         /\ PgOK' /\ StoreOK'
<1> USE DEF TypeInv, TypeOK, Goto
<1>1. CASE CreateSchemaTable(c)
  <2>1. pc[c] \in SchemaLabel /\ \E l \in SchemaLabel \cup {"added", "except"} : Goto(c, l)
    BY <1>1 DEF CreateSchemaTable, CreateSkips, CreateLooks, CreateEnters, CreateClashes,
                CreateCommits, Committed, SchemaLabel
  <2>2. UNCHANGED conn \/ \E status \in ConnStatus : ConnBecomes(c, status)
    BY <1>1 DEF CreateSchemaTable, CreateSkips, CreateLooks, CreateEnters, CreateClashes,
                CreateCommits, Committed, Executes, Commits, Rejected, Breaks, ConnStatus
  <2>3. (Fault \/ UNCHANGED faults) /\ tables' \subseteq Table
    BY <1>1 DEF CreateSchemaTable, CreateSkips, CreateLooks, CreateEnters, CreateClashes,
                CreateCommits, Committed, Breaks, PgOK, Table
  <2>4. StoreOK'
    BY <1>1 DEF CreateSchemaTable, AddSchema, StoreOK
  <2> QED BY <2>1, <2>2, <2>3, <2>4, SessionStep DEF Label, SchemaLabel
<1>2. CASE InsertSchema(c, contents)
  <2>1. pc[c] \in SchemaLabel /\ \E l \in SchemaLabel \cup {"added", "except"} : Goto(c, l)
    BY <1>2 DEF InsertSchema, SchemaLabel
  <2>2. UNCHANGED conn \/ \E status \in ConnStatus : ConnBecomes(c, status)
    BY <1>2 DEF InsertSchema, Executes, Rejected, ConnStatus
  <2>3. UNCHANGED faults /\ tables' \subseteq Table /\ StoreOK'
    BY <1>2 DEF InsertSchema, AddSchema, PgOK, StoreOK
  <2> QED BY <2>1, <2>2, <2>3, SessionStep DEF Label, SchemaLabel
<1>3. CASE CommitSchema(c, contents)
  <2>1. pc[c] \in SchemaLabel /\ \E l \in SchemaLabel \cup {"added", "except"} : Goto(c, l)
    BY <1>3 DEF CommitSchema, Committed, SchemaLabel
  <2>2. \E status \in ConnStatus : ConnBecomes(c, status)
    BY <1>3 DEF CommitSchema, Committed, Commits, Breaks, ConnStatus
  <2>3. (Fault \/ UNCHANGED faults) /\ tables' \subseteq Table
    BY <1>3 DEF CommitSchema, Committed, Breaks, PgOK
  <2>4. contents[c] \in SchemaBody
    BY <2>1 DEF HandOK
  <2>5. StoreOK'
    BY <1>3, <2>4 DEF CommitSchema, Registered, AddSchema, StoreOK
  <2> QED BY <2>1, <2>2, <2>3, <2>5, SessionStep DEF Label, SchemaLabel
<1>4. CASE SchemaRaises(c)
  <2>1. pc[c] \in SchemaLabel /\ Goto(c, "except")
    BY <1>4 DEF SchemaRaises
  <2>2. UNCHANGED conn \/ \E status \in ConnStatus : ConnBecomes(c, status)
    BY <1>4 DEF SchemaRaises, CallRaises, Breaks, ConnStatus
  <2>3. (Fault \/ UNCHANGED faults) /\ tables' \subseteq Table /\ StoreOK'
    BY <1>4 DEF SchemaRaises, AddSchema, CallRaises, Breaks, PgOK, StoreOK
  <2> QED BY <2>1, <2>2, <2>3, SessionStep DEF Label, SchemaLabel
<1> QED BY <1>1, <1>2, <1>3, <1>4 DEF AddSchema

LEMMA AddSchemaTypeInv ==
  ASSUME TypeInv, NEW c \in Container, AddSchema(c)
  PROVE  TypeInv'
<1> USE DEF TypeInv, TypeOK
<1>1. LogOK' /\ AwsOK' /\ LocalOK' /\ ObjectsOK'
  BY DEF AddSchema, logVars, awsVars, localVars, LogOK, AwsOK, LocalOK, ObjectsOK, Bodies
<1>2. PICK l \in SchemaLabel \cup {"added", "except"} : Goto(c, l)
  BY AddSchemaShape
<1>3. HandOK(c)'
  BY <1>2, AddSchemaShape
     DEF AddSchema, logVars, awsVars, localVars, HandOK, Heads, PgOK, Goto, SchemaLabel,
         LogLabel, DataLabel, Bodies
<1>4. ASSUME NEW d \in Container, d # c PROVE HandOK(d)'
  BY <1>2, <1>4, OtherHands DEF AddSchema, logVars, awsVars, localVars, Goto, PgOK
<1> QED BY <1>1, <1>3, <1>4, AddSchemaShape

\* A step of commit_log moves between its labels, to its continuation or to
\* "raise".
LEMMA LogShape ==
  ASSUME TypeInv, NEW c \in Container, Log(c)
  PROVE  /\ pc[c] \in LogLabel
         /\ \E l \in LogLabel \cup {entry[c].then, "raise"} : Goto(c, l)
         /\ UNCHANGED entry
         /\ PgOK' /\ LogOK'
<1> USE DEF TypeInv, TypeOK, Goto
<1>0. entry[c].then \in Continuation /\ entry[c].status \in Status
  BY DEF LogOK
<1>1. CASE CreateLogTable(c)
  <2>1. pc[c] \in LogLabel /\ \E l \in LogLabel \cup {"raise"} : Goto(c, l)
    BY <1>1 DEF CreateLogTable, CreateSkips, CreateLooks, CreateEnters, CreateClashes,
                CreateCommits, Committed, LogLabel
  <2>2. UNCHANGED conn \/ \E status \in ConnStatus : ConnBecomes(c, status)
    BY <1>1 DEF CreateLogTable, CreateSkips, CreateLooks, CreateEnters, CreateClashes,
                CreateCommits, Committed, Executes, Commits, Rejected, Breaks, ConnStatus
  <2>3. (Fault \/ UNCHANGED faults) /\ tables' \subseteq Table
    BY <1>1 DEF CreateLogTable, CreateSkips, CreateLooks, CreateEnters, CreateClashes,
                CreateCommits, Committed, Breaks, PgOK, Table
  <2>4. UNCHANGED entry /\ LogOK'
    BY <1>1 DEF CreateLogTable, logVars, LogOK
  <2> QED BY <2>1, <2>2, <2>3, <2>4, SessionStep DEF Label
<1>2. CASE InsertLog(c, Quotable(c))
  <2>1. pc[c] \in LogLabel /\ \E l \in LogLabel \cup {"raise"} : Goto(c, l)
    BY <1>2 DEF InsertLog, LogLabel
  <2>2. \E status \in ConnStatus : ConnBecomes(c, status)
    BY <1>2 DEF InsertLog, Executes, Rejected, ConnStatus
  <2>3. UNCHANGED <<faults, entry>> /\ tables' \subseteq Table /\ LogOK'
    BY <1>2 DEF InsertLog, logVars, PgOK, LogOK
  <2> QED BY <2>1, <2>2, <2>3, SessionStep DEF Label
<1>3. CASE CommitLogRow(c, About(c))
  <2>1. pc[c] \in LogLabel /\ \E l \in {entry[c].then, "raise"} : Goto(c, l)
    BY <1>3 DEF CommitLogRow, Committed, LogLabel
  <2>2. \E status \in ConnStatus : ConnBecomes(c, status)
    BY <1>3 DEF CommitLogRow, Committed, Commits, Breaks, ConnStatus
  <2>3. (Fault \/ UNCHANGED faults) /\ tables' \subseteq Table /\ UNCHANGED entry
    BY <1>3 DEF CommitLogRow, Committed, Breaks, PgOK
  <2>4. event[c] \in Event
    BY <2>1 DEF HandOK, LogLabel
  <2>5. LogOK'
    BY <1>0, <1>3, <2>4 DEF CommitLogRow, Row, About, LogOK
  <2> QED BY <1>0, <2>1, <2>2, <2>3, <2>5, SessionStep DEF Label, Continuation
<1>4. CASE LogRaises(c)
  <2>1. pc[c] \in LogLabel /\ Goto(c, "raise")
    BY <1>4 DEF LogRaises
  <2>2. UNCHANGED conn \/ \E status \in ConnStatus : ConnBecomes(c, status)
    BY <1>4 DEF LogRaises, CallRaises, Breaks, ConnStatus
  <2>3. (Fault \/ UNCHANGED faults) /\ tables' \subseteq Table /\ UNCHANGED entry /\ LogOK'
    BY <1>4 DEF LogRaises, CallRaises, Breaks, PgOK, logVars, LogOK
  <2> QED BY <2>1, <2>2, <2>3, SessionStep DEF Label
<1> QED BY <1>1, <1>2, <1>3, <1>4 DEF Log

LEMMA LogTypeInv ==
  ASSUME TypeInv, NEW c \in Container, Log(c)
  PROVE  TypeInv'
<1> USE DEF TypeInv, TypeOK
<1>1. StoreOK' /\ AwsOK' /\ LocalOK' /\ ObjectsOK'
  BY DEF Log, awsVars, localVars, StoreOK, AwsOK, LocalOK, ObjectsOK, Bodies
<1>2. PICK l \in LogLabel \cup {entry[c].then, "raise"} : Goto(c, l)
  BY LogShape
<1>3. entry[c].then \in Continuation
  BY DEF LogOK
<1>4. HandOK(c)'
  BY <1>2, <1>3, LogShape
     DEF Log, awsVars, localVars, HandOK, Heads, PgOK, Goto, SchemaLabel, LogLabel,
         DataLabel, Continuation, IsData, Bodies
<1>5. ASSUME NEW d \in Container, d # c PROVE HandOK(d)'
  BY <1>2, <1>5, OtherHands, LogShape DEF Log, awsVars, localVars, Goto, PgOK
<1> QED BY <1>1, <1>4, <1>5, LogShape

-----------------------------------------------------------------------------
(***************************************************************************)
(* The steps of AWS.                                                       *)
(***************************************************************************)
LEMMA UploadTypeInv ==
  ASSUME TypeInv, NEW k \in Key, NEW body \in Bodies(k), Upload(k, body)
  PROVE  TypeInv'
<1> USE DEF TypeInv, TypeOK
<1>1. AwsOK'
  BY LambdaAssumption DEF Upload, AwsOK, Event, Bodies
<1>2. ObjectsOK'
  BY DEF Upload, localVars, ObjectsOK, AwsOK, LocalOK, Event, Bodies
<1>3. PgOK' /\ LogOK' /\ StoreOK' /\ LocalOK'
  BY DEF Upload, pgVars, logVars, localVars, PgOK, LogOK, StoreOK, LocalOK
<1>4. ASSUME NEW d \in Container PROVE HandOK(d)'
  BY DEF Upload, pgVars, logVars, localVars, AwsOK, HandOK, Heads, Event, IsData, Bodies
<1> QED BY <1>1, <1>2, <1>3, <1>4

LEMMA DeliverTypeInv ==
  ASSUME TypeInv, NEW c \in Container, NEW e \in queue, NEW again \in BOOLEAN,
         Deliver(c, e, again)
  PROVE  TypeInv'
<1> USE DEF TypeInv, TypeOK
<1>1. PgOK' /\ LogOK' /\ StoreOK' /\ LocalOK'
  BY DEF Deliver, Goto, logVars, PgOK, Label, LogOK, StoreOK, LocalOK, AwsOK
<1>2. dups' \in 0..MaxDups
  BY LambdaAssumption DEF Deliver, AwsOK
<1>3. queue' \subseteq Event /\ \A f \in queue' : \E g \in queue : f.key = g.key
  BY <1>2, LambdaAssumption DEF Deliver, AwsOK, Event
<1>4. AwsOK'
  BY <1>2, <1>3 DEF Deliver, AwsOK
<1>5. ObjectsOK'
  BY <1>3 DEF Deliver, AwsOK, LocalOK, ObjectsOK, Bodies
<1>6. ASSUME NEW d \in Container PROVE HandOK(d)'
  BY DEF Deliver, Goto, logVars, PgOK, AwsOK, LocalOK, ObjectsOK, HandOK, Heads, IsData,
         Bodies, DataLabel, LogLabel, SchemaLabel
<1> QED BY <1>1, <1>4, <1>5, <1>6

\* The events to retry are events, about objects that exist.
LEMMA RetriedOK ==
  ASSUME TypeInv, NEW c \in Container, event[c] # None
  PROVE  /\ Retried(c) \subseteq Event
         /\ \A e \in Retried(c) : s3[e.key] \in Bodies(e.key)
<1>1. event[c] \in Event /\ queue \subseteq Event
  BY DEF TypeInv, TypeOK, LocalOK, AwsOK
<1>2. ASSUME NEW n \in 1..MaxTries
      PROVE  /\ [event[c] EXCEPT !.try = n] \in Event
             /\ [event[c] EXCEPT !.try = n].key = event[c].key
  BY <1>1 DEF Event
<1> QED BY <1>1, <1>2 DEF Retried, TypeInv, ObjectsOK

\* The end of an attempt, in whatever way it ends.
LEMMA OverTypeInv ==
  ASSUME TypeInv, NEW c \in Container, Over(c),
         queue' \subseteq Event, \A e \in queue' : s3[e.key] \in Bodies(e.key),
         kills' \in 0..MaxKills,
         UNCHANGED conn \/ ConnBecomes(c, "none")
  PROVE  TypeInv'
<1> USE DEF TypeInv, TypeOK
<1>1. PgOK'
  BY SessionStep DEF Over, Label, ConnStatus, PgOK
<1>2. LogOK' /\ StoreOK' /\ LocalOK' /\ AwsOK'
  BY DEF Over, logVars, LogOK, StoreOK, LocalOK, AwsOK
<1>3. ObjectsOK'
  BY DEF Over, LocalOK, ObjectsOK, Bodies
<1>4. HandOK(c)'
  BY DEF Over, Goto, PgOK, HandOK, Heads, LogLabel, SchemaLabel, DataLabel
<1>5. ASSUME NEW d \in Container, d # c PROVE HandOK(d)'
  BY <1>5, OtherHands DEF Over, Goto, logVars, PgOK, LocalOK
<1> QED BY <1>1, <1>2, <1>3, <1>4, <1>5

LEMMA ReturnTypeInv ==
  ASSUME TypeInv, NEW c \in Container, Return(c)
  PROVE  TypeInv'
<1>1. queue' \subseteq Event /\ \A e \in queue' : s3[e.key] \in Bodies(e.key)
  <2>1. CASE pc[c] = "raise" /\ event[c] # None
    BY <2>1, RetriedOK DEF Return
  <2>2. CASE pc[c] = "raise" /\ event[c] = None
    <3>1. event[c] \in Event /\ s3[event[c].key] \in Bodies(event[c].key)
      BY <2>2 DEF TypeInv, HandOK
    <3> QED BY <2>2, <3>1 DEF Return, Retried, Event, TypeInv, TypeOK, AwsOK, ObjectsOK
  <2>3. CASE pc[c] # "raise"
    BY <2>3 DEF Return, TypeInv, TypeOK, AwsOK, ObjectsOK
  <2> QED BY <2>1, <2>2, <2>3
<1> QED BY <1>1, OverTypeInv DEF Return, TypeInv, TypeOK, AwsOK

LEMMA KillTypeInv ==
  ASSUME TypeInv, NEW c \in Container, Kill(c)
  PROVE  TypeInv'
<1>1. kills' \in 0..MaxKills
  BY LambdaAssumption DEF Kill, TypeInv, TypeOK, AwsOK
<1> QED BY <1>1, RetriedOK, OverTypeInv DEF Kill

LEMMA RetireTypeInv ==
  ASSUME TypeInv, NEW c \in Container, Retire(c)
  PROVE  TypeInv'
<1> USE DEF TypeInv, TypeOK
<1>1. PgOK'
  BY DEF Retire, ConnBecomes, PgOK, ConnStatus
<1>2. LogOK' /\ StoreOK' /\ AwsOK' /\ LocalOK' /\ ObjectsOK'
  BY DEF Retire, logVars, awsVars, localVars, LogOK, StoreOK, AwsOK, LocalOK, ObjectsOK, Bodies
<1>3. ASSUME NEW d \in Container PROVE HandOK(d)'
  BY OtherHands DEF Retire, logVars, awsVars, localVars
<1> QED BY <1>1, <1>2, <1>3

-----------------------------------------------------------------------------
LEMMA NextTypeInv ==
  ASSUME TypeInv, [Next]_vars
  PROVE  TypeInv'
<1>1. CASE \E k \in Key : \E body \in Bodies(k) : Upload(k, body)
  BY <1>1, UploadTypeInv
<1>2. CASE \E c \in Container, e \in queue, again \in BOOLEAN : Deliver(c, e, again)
  BY <1>2, DeliverTypeInv
<1>3. ASSUME NEW c \in Container, Kill(c) \/ Retire(c) \/ FlushSome(c)
      PROVE  TypeInv'
  BY <1>3, KillTypeInv, RetireTypeInv, FlushSomeTypeInv
<1>4. ASSUME NEW c \in Container, Progress(c)
      PROVE  TypeInv'
  BY <1>4, ConnectTypeInv, MainTypeInv, GetFailsTypeInv, ReturnTypeInv, GetSchemaTypeInv,
     AddSchemaTypeInv, SchemaDoneTypeInv, GetDataTypeInv, ParseDataTypeInv,
     FindSchemaTypeInv, FindSchemaRaisesTypeInv, ExtractDataTypeInv, WriteChunkTypeInv,
     WriteRaisesTypeInv, FinishWritingTypeInv, LogTypeInv DEF Progress
<1>5. CASE UNCHANGED vars
  BY <1>5
     DEF vars, pgVars, logVars, awsVars, localVars, TypeInv, TypeOK, PgOK, LogOK, StoreOK,
         AwsOK, LocalOK, ObjectsOK, Bodies, HandOK, Heads, IsData
<1> QED BY <1>1, <1>2, <1>3, <1>4, <1>5 DEF Next

LEMMA TypeInvariance == Spec => []TypeInv
<1>1. Init => TypeInv
  BY InitTypeInv
<1>2. TypeInv /\ [Next]_vars => TypeInv'
  BY NextTypeInv
<1> QED BY <1>1, <1>2, PTL DEF Spec

\* Every variable always holds a value of its kind: in particular commit_log is
\* never called without a status, an event names an object of its kind, and
\* what main has in hand where it uses it is a schema or a data file.
THEOREM TypeCorrect == Spec => []TypeOK
<1>1. TypeInv => TypeOK
  BY DEF TypeInv
<1> QED BY <1>1, TypeInvariance, PTL

-----------------------------------------------------------------------------
(***************************************************************************)
(* The safety properties, for every number of containers, files, readings, *)
(* retries, duplicates, crashes and faults.                                *)
(***************************************************************************)

\* A step of one container.
Step(c) == Kill(c) \/ Retire(c) \/ FlushSome(c) \/ Progress(c)

\* A step of c leaves the others where they are, with what they have.
OthersStay(c) ==
  \A d \in Container : d # c =>
    /\ pc'[d] = pc[d] /\ conn'[d] = conn[d] /\ entry'[d] = entry[d]
    /\ contents'[d] = contents[d] /\ sent'[d] = sent[d]

LEMMA OthersStayInAddSchema ==
  ASSUME TypeInv, NEW c \in Container, AddSchema(c)
  PROVE  OthersStay(c)
<1> USE DEF TypeInv, TypeOK, PgOK, OthersStay
<1>1. \A d \in Container : d # c => pc'[d] = pc[d]
  BY AddSchemaShape DEF Goto
<1>2. UNCHANGED <<entry, contents, sent>>
  BY DEF AddSchema, logVars, localVars
<1>3. UNCHANGED conn \/ \E status \in ConnStatus : ConnBecomes(c, status)
  <2>1. CASE CreateSchemaTable(c)
    BY <2>1 DEF CreateSchemaTable, CreateSkips, CreateLooks, CreateEnters, CreateClashes,
                CreateCommits, Committed, Executes, Commits, Rejected, Breaks, ConnStatus
  <2>2. CASE ~CreateSchemaTable(c)
    BY <2>2 DEF AddSchema, InsertSchema, CommitSchema, SchemaRaises, CallRaises, Committed,
                Executes, Commits, Rejected, Breaks, ConnStatus
  <2> QED BY <2>1, <2>2
<1> QED BY <1>1, <1>2, <1>3 DEF ConnBecomes

LEMMA OthersStayInLog ==
  ASSUME TypeInv, NEW c \in Container, Log(c)
  PROVE  OthersStay(c)
<1> USE DEF TypeInv, TypeOK, PgOK, OthersStay
<1>1. \A d \in Container : d # c => pc'[d] = pc[d]
  BY LogShape DEF Goto
<1>2. UNCHANGED <<entry, contents, sent>>
  BY LogShape DEF Log, localVars
<1>3. UNCHANGED conn \/ \E status \in ConnStatus : ConnBecomes(c, status)
  <2>1. CASE CreateLogTable(c)
    BY <2>1 DEF CreateLogTable, CreateSkips, CreateLooks, CreateEnters, CreateClashes,
                CreateCommits, Committed, Executes, Commits, Rejected, Breaks, ConnStatus
  <2>2. CASE ~CreateLogTable(c)
    BY <2>2 DEF Log, InsertLog, CommitLogRow, LogRaises, CallRaises, Committed,
                Executes, Commits, Rejected, Breaks, ConnStatus
  <2> QED BY <2>1, <2>2
<1> QED BY <1>1, <1>2, <1>3 DEF ConnBecomes

LEMMA OthersStayInStep ==
  ASSUME TypeInv, NEW c \in Container, Step(c)
  PROVE  OthersStay(c)
<1> USE DEF TypeInv, TypeOK, PgOK, LogOK, LocalOK, OthersStay, Goto, ConnBecomes, CommitLog
<1>1. CASE Kill(c) \/ Retire(c) \/ Return(c) \/ FlushSome(c) \/ WriteChunk(c)
  BY <1>1 DEF Kill, Retire, Return, Over, FlushSome, WriteChunk, NoLog, NoCall, pgVars,
              logVars, localVars
<1>2. CASE Connect(c) \/ GetFails(c) \/ SchemaDone(c) \/ ParseData(c) \/ ExtractData(c)
           \/ WriteRaises(c) \/ FinishWriting(c)
  BY <1>2 DEF Connect, GetFails, SchemaDone, ParseData, ExtractData, WriteRaises,
              FinishWriting, Plain, NoLog, NoCall
<1>3. CASE FindSchemaRaises(c)
  BY <1>3 DEF FindSchemaRaises, Rejected, CallRaises, Breaks, Plain, NoLog
<1>4. CASE FindSchema(c)
  BY <1>4 DEF FindSchema, Executes
<1>5. CASE Main(c) \/ GetSchema(c) \/ GetData(c)
  BY <1>5 DEF Main, GetSchema, GetData, NoLog, NoCall
<1>6. CASE AddSchema(c) \/ Log(c)
  BY <1>6, OthersStayInAddSchema, OthersStayInLog
<1> QED BY <1>1, <1>2, <1>3, <1>4, <1>5, <1>6 DEF Step, Progress

-----------------------------------------------------------------------------
(***************************************************************************)
(* SucceededIsStored.  It is not inductive: that a file is stored when its *)
(* row is committed rests on what the chunk loop has done before, through  *)
(* commits of log rows in between.  The strengthening says that the chunks *)
(* before index i are stored, and that the whole file is once commit_log   *)
(* has been called with `succeeded'.                                       *)
(***************************************************************************)
Sent(c) ==
  /\ sent[c] # 0 => Heads(c, {"data.write", "return", "raise"})
  /\ Heads(c, {"data.write"}) =>
       /\ sent[c] <= Size(c)
       /\ \A i \in 1..sent[c] : contents[c].readings[i] \in traffic_table
  /\ pc[c] \in LogLabel /\ entry[c].status = succeeded =>
       ReadingsOf(contents[c]) \subseteq traffic_table

StoredInv == SucceededIsStored /\ \A c \in Container : Sent(c)

\* More items in DynamoDB do no harm to a container that does not move.
LEMMA SentStays ==
  ASSUME NEW d \in Container, Sent(d), traffic_table \subseteq traffic_table',
         pc'[d] = pc[d], entry'[d] = entry[d], contents'[d] = contents[d],
         sent'[d] = sent[d]
  PROVE  Sent(d)'
  BY DEF Sent, Heads, Size, ReadingsOf

\* Items are only added, and a row is only added by commit_log.
LEMMA StoresGrow ==
  ASSUME TypeInv, NEW c \in Container, Step(c)
  PROVE  /\ traffic_table \subseteq traffic_table'
         /\ \/ UNCHANGED xml_log
            \/ CommitLogRow(c, About(c))
<1>1. CASE Kill(c) \/ Retire(c) \/ FlushSome(c) \/ Connect(c) \/ Main(c) \/ GetFails(c)
           \/ Return(c) \/ GetSchema(c) \/ AddSchema(c) \/ SchemaDone(c) \/ GetData(c)
           \/ ParseData(c) \/ FindSchema(c) \/ FindSchemaRaises(c) \/ ExtractData(c)
           \/ WriteChunk(c) \/ WriteRaises(c) \/ FinishWriting(c)
  BY <1>1 DEF Kill, Retire, FlushSome, Connect, Main, GetFails, Return, Over, GetSchema,
              AddSchema, SchemaDone, GetData, ParseData, FindSchema, FindSchemaRaises,
              ExtractData, WriteChunk, WriteRaises, FinishWriting, Plain, Elsewhere, logVars
<1>2. CASE Log(c)
  BY <1>2 DEF Log, CreateLogTable, InsertLog, LogRaises, logVars
<1> QED BY <1>1, <1>2 DEF Step, Progress

\* A reading of a file that is being written is one of its first Size(c).
LEMMA ReadingsAtWrite ==
  ASSUME TypeInv, NEW c \in Container, pc[c] = "data.write"
  PROVE  ReadingsOf(contents[c]) = {contents[c].readings[i] : i \in 1..Size(c)}
<1>1. contents[c] \in DataBody /\ contents[c].readings \in Seq(Reading)
  BY ChunkWithin
<1> QED BY <1>1 DEF ReadingsOf, Range, Size

LEMMA SentInPlain ==
  ASSUME TypeInv, NEW c \in Container, Sent(c),
         Connect(c) \/ GetFails(c) \/ SchemaDone(c) \/ ParseData(c) \/ FindSchemaRaises(c)
           \/ ExtractData(c) \/ WriteRaises(c) \/ FinishWriting(c)
  PROVE  Sent(c)'
<1> USE DEF TypeInv, TypeOK, PgOK, LogOK, LocalOK, Goto, CommitLog, Plain, NoLog
<1>1. CASE Connect(c) \/ GetFails(c) \/ ParseData(c) \/ FindSchemaRaises(c) \/ WriteRaises(c)
  BY <1>1 DEF Connect, GetFails, ParseData, FindSchemaRaises, WriteRaises, Sent, Heads,
              LogLabel, succeeded, failed, processing
<1>2. CASE SchemaDone(c)
  <2>1. contents[c] \in SchemaBody
    BY <1>2 DEF SchemaDone, HandOK
  <2>2. ReadingsOf(contents[c]) = {}
    BY <2>1, LambdaAssumption DEF ReadingsOf
  <2> QED BY <1>2, <2>2 DEF SchemaDone, Sent, Heads, LogLabel, ReadingsOf
<1>3. CASE ExtractData(c)
  <2>1. sent[c] = 0
    BY <1>3 DEF ExtractData, Sent, Heads, LogLabel
  <2>2. contents[c] \in DataBody
    BY <1>3 DEF ExtractData, HandOK, Heads, DataLabel
  <2>3. Size(c) \in Nat
    BY <2>2, LambdaAssumption DEF Size
  <2> QED BY <1>3, <2>1, <2>3
          DEF ExtractData, Sent, Heads, Size, LogLabel, succeeded, processing
<1>4. CASE FinishWriting(c)
  <2>1. \A i \in 1..Size(c) : contents[c].readings[i] \in traffic_table
    BY <1>4 DEF FinishWriting, Sent, Heads
  <2>2. ReadingsOf(contents[c]) \subseteq traffic_table
    BY <1>4, <2>1, ReadingsAtWrite DEF FinishWriting
  <2> QED BY <1>4, <2>2 DEF FinishWriting, Sent, Heads, LogLabel, ReadingsOf
<1> QED BY <1>1, <1>2, <1>3, <1>4

LEMMA SentInWriteChunk ==
  ASSUME TypeInv, NEW c \in Container, Sent(c), WriteChunk(c)
  PROVE  Sent(c)'
<1>1. /\ sent[c] \in Nat /\ Size(c) \in Nat /\ ChunkEnd(c) \in Nat /\ ChunkEnd(c) <= Size(c)
  BY ChunkWithin DEF WriteChunk
<1>2. sent'[c] = ChunkEnd(c)
  BY DEF WriteChunk, TypeInv, TypeOK, LocalOK
<1>3. ASSUME NEW i \in 1..ChunkEnd(c) PROVE contents[c].readings[i] \in traffic_table'
  <2>1. CASE i \in 1..sent[c]
    BY <2>1 DEF WriteChunk, Sent, Heads
  <2>2. CASE i \in (sent[c] + 1)..ChunkEnd(c)
    BY <2>2 DEF WriteChunk, Chunk
  <2> QED BY <1>1, <2>1, <2>2
<1> QED BY <1>1, <1>2, <1>3 DEF WriteChunk, NoLog, Sent, Heads, Size, LogLabel

LEMMA SentInStep ==
  ASSUME TypeInv, NEW c \in Container, Sent(c), Step(c)
  PROVE  Sent(c)'
<1> USE DEF TypeInv, TypeOK, PgOK, LogOK, LocalOK, Goto, CommitLog, NoLog
<1>1. CASE Kill(c) \/ Return(c)
  BY <1>1 DEF Kill, Return, Over, Sent, Heads, LogLabel
<1>2. CASE Retire(c) \/ FlushSome(c)
  BY <1>2, SentStays DEF Retire, FlushSome, pgVars, logVars, localVars
<1>3. CASE Main(c) \/ GetSchema(c) \/ GetData(c)
  BY <1>3 DEF Main, GetSchema, GetData, Sent, Heads, LogLabel, succeeded, processing
<1>4. CASE FindSchema(c)
  BY <1>4 DEF FindSchema, Sent, Heads, LogLabel, succeeded, failed, processing
<1>5. CASE AddSchema(c)
  BY <1>5, AddSchemaShape
     DEF AddSchema, logVars, localVars, Sent, Heads, LogLabel, SchemaLabel
<1>6. CASE Log(c)
  <2>1. UNCHANGED <<contents, sent, traffic_table, entry>> /\ pc[c] \in LogLabel
    BY <1>6, LogShape DEF Log, localVars
  <2>2. PICK l \in LogLabel \cup {entry[c].then, "raise"} : Goto(c, l)
    BY <1>6, LogShape
  <2>3. entry[c].then \in Continuation
    BY DEF LogOK
  <2> QED BY <2>1, <2>2, <2>3 DEF Sent, Heads, Size, ReadingsOf, LogLabel, Continuation
<1>7. CASE WriteChunk(c)
  BY <1>7, SentInWriteChunk
<1> QED BY <1>1, <1>2, <1>3, <1>4, <1>5, <1>6, <1>7, SentInPlain DEF Step, Progress

LEMMA StepStoredInv ==
  ASSUME TypeInv, StoredInv, NEW c \in Container, Step(c)
  PROVE  StoredInv'
<1>1. \A d \in Container : Sent(d)'
  BY OthersStayInStep, StoresGrow, SentStays, SentInStep DEF StoredInv, OthersStay
<1>2. SucceededIsStored'
  <2>1. CASE UNCHANGED xml_log
    BY <2>1, StoresGrow DEF StoredInv, SucceededIsStored, ReadingsOf
  <2>2. CASE CommitLogRow(c, About(c))
    <3>1. pc[c] \in LogLabel /\ xml_log' = xml_log \cup {Row(c, About(c))}
      BY <2>2 DEF CommitLogRow, LogLabel
    <3>2. Row(c, About(c)).status = entry[c].status
          /\ Row(c, About(c)).of.body = contents[c]
      BY DEF Row, About
    <3>3. entry[c].status = succeeded => ReadingsOf(contents[c]) \subseteq traffic_table
      BY <3>1 DEF StoredInv, Sent
    <3> QED BY <3>1, <3>2, <3>3, StoresGrow DEF StoredInv, SucceededIsStored, ReadingsOf
  <2> QED BY <2>1, <2>2, StoresGrow
<1> QED BY <1>1, <1>2 DEF StoredInv

\* An upload or a delivery touches neither table nor, of a container that is
\* busy, anything that Sent is about.
LEMMA AwsStoredInv ==
  ASSUME TypeInv, StoredInv,
         \/ \E k \in Key : \E body \in Bodies(k) : Upload(k, body)
         \/ \E c \in Container, e \in queue, again \in BOOLEAN : Deliver(c, e, again)
         \/ UNCHANGED vars
  PROVE  StoredInv'
<1>1. CASE UNCHANGED vars \/ \E k \in Key : \E body \in Bodies(k) : Upload(k, body)
  <2>1. UNCHANGED <<pgVars, logVars, localVars, traffic_table>>
    BY <1>1 DEF Upload, vars
  <2> QED BY <2>1, SentStays
          DEF pgVars, logVars, localVars, StoredInv, SucceededIsStored, ReadingsOf
<1>2. ASSUME NEW c \in Container, NEW e \in queue, NEW again \in BOOLEAN,
             Deliver(c, e, again)
      PROVE  StoredInv'
  <2>1. Sent(c)'
    BY <1>2 DEF Deliver, Goto, logVars, TypeInv, TypeOK, PgOK, LocalOK, StoredInv, Sent,
                Heads, LogLabel
  <2>2. ASSUME NEW d \in Container, d # c PROVE Sent(d)'
    BY <1>2, <2>2, SentStays DEF Deliver, Goto, logVars, TypeInv, TypeOK, PgOK, StoredInv
  <2> QED BY <1>2, <2>1, <2>2 DEF Deliver, logVars, StoredInv, SucceededIsStored, ReadingsOf
<1> QED BY <1>1, <1>2

LEMMA NextStoredInv ==
  ASSUME TypeInv, StoredInv, [Next]_vars
  PROVE  StoredInv'
  BY AwsStoredInv, StepStoredInv DEF Next, Step

\* SucceededIsStored holds of every instance: whatever the chunk size, the
\* number of containers and the failures, a file that is reported as succeeded
\* has all its readings in DynamoDB.
THEOREM SucceededStored == Spec => []SucceededIsStored
<1>1. Init => StoredInv
  BY DEF Init, StoredInv, SucceededIsStored, Sent, Heads, LogLabel
<1>2. TypeInv /\ StoredInv /\ [Next]_vars => StoredInv'
  BY NextStoredInv
<1>3. StoredInv => SucceededIsStored
  BY DEF StoredInv
<1> QED BY <1>1, <1>2, <1>3, TypeInvariance, PTL DEF Spec

-----------------------------------------------------------------------------
(***************************************************************************)
(* NothingLeftOpen.  What has to be added: an insertion starts on a        *)
(* connection that the CREATE TABLE before it has left idle, so that an    *)
(* exception before the INSERT leaves no transaction behind.               *)
(***************************************************************************)
OpenInv ==
  /\ NothingLeftOpen
  /\ \A c \in Container : pc[c] = "schema.insert" => conn[c] # "intrans"

LEMMA StepOpenInv ==
  ASSUME TypeInv, OpenInv, NEW c \in Container, Step(c)
  PROVE  OpenInv'
<1> USE DEF TypeInv, TypeOK, PgOK, Goto, ConnBecomes, CommitLog, NoCall
<1> DEFINE Closed(d) ==
      /\ conn[d] = "intrans" => pc[d] \in LogLabel \cup SchemaLabel
      /\ pc[d] = "schema.insert" => conn[d] # "intrans"
<1>1. Closed(c)
  BY DEF OpenInv, NothingLeftOpen
<1>2. SUFFICES Closed(c)'
  BY OthersStayInStep DEF OthersStay, OpenInv, NothingLeftOpen
<1>3. CASE Kill(c) \/ Retire(c) \/ FlushSome(c) \/ Return(c) \/ WriteChunk(c)
  BY <1>1, <1>3 DEF Kill, Retire, FlushSome, Return, Over, WriteChunk, pgVars, LogLabel,
                    SchemaLabel
<1>4. CASE Connect(c) \/ Main(c) \/ GetFails(c) \/ GetSchema(c) \/ SchemaDone(c) \/ GetData(c)
           \/ ParseData(c) \/ ExtractData(c) \/ WriteRaises(c) \/ FinishWriting(c)
  BY <1>1, <1>4 DEF Connect, Main, GetFails, GetSchema, SchemaDone, GetData, ParseData,
                    ExtractData, WriteRaises, FinishWriting, LogLabel, SchemaLabel
<1>5. CASE FindSchema(c) \/ FindSchemaRaises(c)
  BY <1>1, <1>5 DEF FindSchema, FindSchemaRaises, Executes, Rejected, CallRaises, Breaks,
                    Usable, LogLabel, SchemaLabel
<1>6. CASE AddSchema(c)
  <2>1. CASE CreateSchemaTable(c)
    BY <2>1 DEF CreateSchemaTable, CreateSkips, CreateLooks, CreateEnters, CreateClashes,
                CreateCommits, Committed, Executes, Commits, Rejected, Breaks, SchemaLabel
  <2>2. CASE InsertSchema(c, contents)
    BY <1>1, <2>2 DEF InsertSchema, Executes, Rejected, SchemaLabel
  <2>3. CASE CommitSchema(c, contents) \/ SchemaRaises(c)
    BY <2>3 DEF CommitSchema, SchemaRaises, CallRaises, Committed, Commits, Breaks, Usable
  <2> QED BY <1>6, <2>1, <2>2, <2>3 DEF AddSchema
<1>7. CASE Log(c)
  <2>1. CASE CreateLogTable(c)
    BY <2>1 DEF CreateLogTable, CreateSkips, CreateLooks, CreateEnters, CreateClashes,
                CreateCommits, Committed, Executes, Commits, Rejected, Breaks, LogLabel
  <2>2. CASE InsertLog(c, Quotable(c))
    BY <2>2 DEF InsertLog, Executes, Rejected, LogLabel
  <2>3. CASE CommitLogRow(c, About(c)) \/ LogRaises(c)
    BY <2>3 DEF CommitLogRow, LogRaises, CallRaises, Committed, Commits, Breaks, Usable
  <2> QED BY <1>7, <2>1, <2>2, <2>3 DEF Log
<1> QED BY <1>3, <1>4, <1>5, <1>6, <1>7 DEF Step, Progress

LEMMA NextOpenInv ==
  ASSUME TypeInv, OpenInv, [Next]_vars
  PROVE  OpenInv'
<1>1. CASE UNCHANGED vars \/ \E k \in Key : \E body \in Bodies(k) : Upload(k, body)
  BY <1>1 DEF Upload, vars, pgVars, OpenInv, NothingLeftOpen
<1>2. CASE \E c \in Container, e \in queue, again \in BOOLEAN : Deliver(c, e, again)
  BY <1>2 DEF Deliver, Goto, TypeInv, TypeOK, PgOK, OpenInv, NothingLeftOpen, LogLabel,
              SchemaLabel
<1> QED BY <1>1, <1>2, StepOpenInv DEF Next, Step

\* NothingLeftOpen holds of every instance: between invocations and during its
\* long computations a container never holds a transaction open.
THEOREM ClosedOutside == Spec => []NothingLeftOpen
<1>1. Init => OpenInv
  BY DEF Init, OpenInv, NothingLeftOpen
<1>2. TypeInv /\ OpenInv /\ [Next]_vars => OpenInv'
  BY NextOpenInv
<1>3. OpenInv => NothingLeftOpen
  BY DEF OpenInv
<1> QED BY <1>1, <1>2, <1>3, TypeInvariance, PTL DEF Spec

-----------------------------------------------------------------------------
(***************************************************************************)
(* SucceededHasSchema, and that the schemas are kept.                      *)
(***************************************************************************)
KeyRegistered(body) == \E s \in xml_schemas : SameKey(s, body)

\* Once add_schema has returned, the schema's key is in the table.
AddedOK(c) ==
  /\ pc[c] = "added" => KeyRegistered(contents[c])
  /\ pc[c] \in LogLabel /\ entry[c].status = succeeded /\ contents[c] \in SchemaBody
       => KeyRegistered(contents[c])

SchemaInv == SucceededHasSchema /\ \A c \in Container : AddedOK(c)

\* A registered schema is never replaced or removed.
LEMMA SchemasGrow ==
  ASSUME TypeInv, [Next]_vars
  PROVE  xml_schemas \subseteq xml_schemas'
<1>1. CASE UNCHANGED vars \/ \E k \in Key : \E body \in Bodies(k) : Upload(k, body)
  BY <1>1 DEF Upload, vars
<1>2. CASE \E c \in Container, e \in queue, again \in BOOLEAN : Deliver(c, e, again)
  BY <1>2 DEF Deliver
<1>3. ASSUME NEW c \in Container, Step(c) PROVE xml_schemas \subseteq xml_schemas'
  <2>1. CASE ~AddSchema(c)
    BY <1>3, <2>1
       DEF Step, Progress, Kill, Retire, FlushSome, Connect, Main, GetFails, Return, Over,
           GetSchema, SchemaDone, GetData, ParseData, FindSchema, FindSchemaRaises,
           ExtractData, WriteChunk, WriteRaises, FinishWriting, Log, Plain, Elsewhere
  <2>2. CASE AddSchema(c)
    BY <2>2 DEF AddSchema, CreateSchemaTable, InsertSchema, CommitSchema, Registered,
                SchemaRaises
  <2> QED BY <2>1, <2>2
<1> QED BY <1>1, <1>2, <1>3 DEF Next, Step

\* SchemasKept holds of every instance: with ON CONFLICT DO NOTHING the schema
\* that came first stays, whoever registers the same key at the same time.
THEOREM SchemasStay == Spec => SchemasKept
<1>1. TypeInv /\ [Next]_vars => [xml_schemas \subseteq xml_schemas']_xml_schemas
  BY SchemasGrow
<1> QED BY <1>1, TypeInvariance, PTL DEF Spec, SchemasKept

LEMMA AddedInStep ==
  ASSUME TypeInv, NEW c \in Container, AddedOK(c), Step(c), xml_schemas \subseteq xml_schemas'
  PROVE  AddedOK(c)'
<1> USE DEF TypeInv, TypeOK, PgOK, LogOK, LocalOK, Goto, CommitLog, NoLog
<1>1. CASE Kill(c) \/ Retire(c) \/ FlushSome(c) \/ Return(c) \/ WriteChunk(c)
  BY <1>1 DEF Kill, Retire, FlushSome, Return, Over, WriteChunk, pgVars, logVars, localVars,
              AddedOK, KeyRegistered, LogLabel
<1>2. CASE Connect(c) \/ Main(c) \/ GetFails(c) \/ GetSchema(c) \/ GetData(c) \/ ParseData(c)
           \/ FindSchema(c) \/ FindSchemaRaises(c) \/ ExtractData(c) \/ WriteRaises(c)
  BY <1>2 DEF Connect, Main, GetFails, GetSchema, GetData, ParseData, FindSchema,
              FindSchemaRaises, ExtractData, WriteRaises, Plain, AddedOK, LogLabel,
              succeeded, failed, processing
<1>3. CASE FinishWriting(c)
  <2>1. contents'[c] \notin SchemaBody
    BY <1>3, ChunkWithin, LambdaAssumption DEF FinishWriting, Plain
  <2> QED BY <1>3, <2>1 DEF FinishWriting, AddedOK
<1>4. CASE SchemaDone(c)
  <2>1. entry'[c].status = succeeded => pc[c] = "added"
    BY <1>4 DEF SchemaDone, succeeded, failed
  <2>2. pc'[c] = "log.create" /\ UNCHANGED <<contents, xml_schemas>>
    BY <1>4 DEF SchemaDone, Plain, Elsewhere
  <2> QED BY <2>1, <2>2 DEF AddedOK, KeyRegistered
<1>5. CASE AddSchema(c)
  <2>1. UNCHANGED <<entry, contents>> /\ pc'[c] \in SchemaLabel \cup {"added", "except"}
    BY <1>5, AddSchemaShape DEF AddSchema, logVars, localVars
  <2>2. CASE CommitSchema(c, contents)
    <3>1. KeyRegistered(contents[c])'
      BY <2>1, <2>2 DEF CommitSchema, Registered, KeyRegistered, SameKey
    <3> QED BY <2>1, <3>1 DEF AddedOK, LogLabel, SchemaLabel
  <2>3. CASE CreateSchemaTable(c)
    <3>1. pc'[c] # "added"
      BY <2>3 DEF CreateSchemaTable, CreateSkips, CreateLooks, CreateEnters, CreateClashes,
                  CreateCommits, Committed
    <3> QED BY <2>1, <3>1 DEF AddedOK, LogLabel, SchemaLabel
  <2>4. CASE InsertSchema(c, contents) \/ SchemaRaises(c)
    <3>1. pc'[c] # "added"
      BY <2>4 DEF InsertSchema, SchemaRaises
    <3> QED BY <2>1, <3>1 DEF AddedOK, LogLabel, SchemaLabel
  <2> QED BY <1>5, <2>2, <2>3, <2>4 DEF AddSchema
<1>6. CASE Log(c)
  <2>1. UNCHANGED <<contents, xml_schemas, entry>> /\ pc[c] \in LogLabel
    BY <1>6, LogShape DEF Log, localVars
  <2>2. pc'[c] # "added"
    BY <1>6, LogShape DEF LogLabel, Continuation
  <2> QED BY <2>1, <2>2 DEF AddedOK, KeyRegistered
<1> QED BY <1>1, <1>2, <1>3, <1>4, <1>5, <1>6 DEF Step, Progress

LEMMA StepSchemaInv ==
  ASSUME TypeInv, SchemaInv, NEW c \in Container, Step(c), xml_schemas \subseteq xml_schemas'
  PROVE  SchemaInv'
<1>1. ASSUME NEW d \in Container PROVE AddedOK(d)'
  <2>1. CASE d = c
    BY <2>1, AddedInStep DEF SchemaInv
  <2>2. CASE d # c
    BY <2>2, OthersStayInStep DEF OthersStay, SchemaInv, AddedOK, KeyRegistered
  <2> QED BY <2>1, <2>2
<1>2. SucceededHasSchema'
  <2>1. CASE UNCHANGED xml_log
    BY <2>1 DEF SchemaInv, SucceededHasSchema
  <2>2. CASE CommitLogRow(c, About(c))
    <3>1. pc[c] \in LogLabel /\ xml_log' = xml_log \cup {Row(c, About(c))}
      BY <2>2 DEF CommitLogRow, LogLabel
    <3>2. Row(c, About(c)).status = entry[c].status
          /\ Row(c, About(c)).of.body = contents[c]
      BY DEF Row, About
    <3>3. entry[c].status = succeeded /\ contents[c] \in SchemaBody
            => \E s \in xml_schemas : SameKey(s, contents[c])
      BY <3>1 DEF SchemaInv, AddedOK, KeyRegistered
    <3> QED BY <3>1, <3>2, <3>3 DEF SchemaInv, SucceededHasSchema
  <2> QED BY <2>1, <2>2, StoresGrow
<1> QED BY <1>1, <1>2 DEF SchemaInv

LEMMA NextSchemaInv ==
  ASSUME TypeInv, SchemaInv, [Next]_vars
  PROVE  SchemaInv'
<1>1. CASE UNCHANGED vars \/ \E k \in Key : \E body \in Bodies(k) : Upload(k, body)
  BY <1>1 DEF Upload, vars, pgVars, logVars, localVars, SchemaInv, SucceededHasSchema, AddedOK,
              KeyRegistered
<1>2. CASE \E c \in Container, e \in queue, again \in BOOLEAN : Deliver(c, e, again)
  BY <1>2 DEF Deliver, Goto, TypeInv, TypeOK, PgOK, logVars, SchemaInv, SucceededHasSchema,
              AddedOK, KeyRegistered, LogLabel
<1> QED BY <1>1, <1>2, StepSchemaInv, SchemasGrow DEF Next, Step

\* SucceededHasSchema holds of every instance: no crash, broken commit or
\* competing registration leaves a schema file reported as succeeded without
\* a schema of its pattern and version.
THEOREM SucceededRegistersKey == Spec => []SucceededHasSchema
<1>1. Init => SchemaInv
  BY DEF Init, SchemaInv, SucceededHasSchema, AddedOK, LogLabel
<1>2. TypeInv /\ SchemaInv /\ [Next]_vars => SchemaInv'
  BY NextSchemaInv
<1>3. SchemaInv => SucceededHasSchema
  BY DEF SchemaInv
<1> QED BY <1>1, <1>2, <1>3, TypeInvariance, PTL DEF Spec

-----------------------------------------------------------------------------
(***************************************************************************)
(* Attempts: no two containers and no two deliveries run the same attempt, *)
(* whatever is retried, duplicated or killed; from this, the order of the  *)
(* rows of xml_log, that the Lambda implements IngestContract, that a row  *)
(* written alone is the newest, and that a file is never read with an      *)
(* older schema than before.                                               *)
(***************************************************************************)
\* The two are tries of one delivery of one notification.
Twins(e, f) == e.upload = f.upload /\ e.copy = f.copy

\* The event has been raised or duplicated by now.
Made(e) == e.upload <= uploads /\ e.copy <= dups

\* Of the tries of one delivery at most one is waiting or running, and those
\* that have written rows came before it or are it.
EventsInv ==
  /\ \A c \in Container : pc[c] = "free" => event[c] = None
  /\ \A e \in queue : Made(e)
  /\ \A c \in Container : event[c] # None => Made(event[c])
  /\ \A r \in xml_log : Made(r.of.run)
  /\ \A e, f \in queue : Twins(e, f) => e = f
  /\ \A e \in queue, c \in Container : event[c] # None => ~Twins(e, event[c])
  /\ \A c, d \in Container :
       c # d /\ event[c] # None /\ event[d] # None => ~Twins(event[c], event[d])
  /\ \A r \in xml_log, e \in queue : Twins(r.of.run, e) => r.of.run.try < e.try
  /\ \A r \in xml_log, c \in Container :
       event[c] # None /\ Twins(r.of.run, event[c]) => r.of.run.try <= event[c].try

\* The rows of the attempt that c is running: none before main has a logger,
\* each older than the logger, and a verdict only when main is over.
OwnRows(c) ==
  \A r \in xml_log : event[c] # None /\ r.of.run = event[c] =>
    /\ pc[c] \notin {"connect", "main"}
    /\ r.time < logTime[c]
    /\ r.status \in Final => pc[c] \in {"return", "raise"}

\* main returns after it has logged a verdict.
VerdictLast(c) == pc[c] \in LogLabel /\ entry[c].status \in Final => entry[c].then = "return"

ClockInv ==
  /\ \A c \in Container : logTime[c] <= now
  /\ \A r \in xml_log : r.time < now

OrderInv ==
  /\ ClockInv
  /\ \A c \in Container : OwnRows(c) /\ VerdictLast(c)
  /\ FinalRowIsLatest

\* When main parses the file, or later, a row about the file has been written.
Announced(c) ==
  pc[c] = "data.parse" \/ Heads(c, {"data.find", "data.extract", "data.write"}) =>
    \E r \in xml_log : r.of.run = event[c] /\ r.of.body = contents[c]

AnnouncedInv == \A c \in Container : Announced(c)

\* A schema that has been found suits the file, and it stays in hand until
\* main is over.
FoundOK(c) ==
  schema[c] # None =>
    /\ Heads(c, {"data.extract", "data.write", "return", "raise"})
    /\ schema[c] \in Matching(event[c].key, contents[c].date)

FoundInv ==
  /\ \A c \in Container : FoundOK(c)
  /\ \A r \in xml_log : r.of.schema # None =>
       r.of.schema \in Matching(r.of.run.key, r.of.body.date)

\* No other attempt on its file runs beside c, and its logger is newer than
\* all rows of the file.
LoneOK(c) ==
  event[c] # None /\ alone[c] =>
    /\ \A d \in Container : d # c /\ event[d] # None => event[d].key # event[c].key
    /\ pc[c] \notin {"connect", "main", "raise"} =>
         \A q \in xml_log : q.of.run.key = event[c].key => q.time < logTime[c]

LoneInv == \A c \in Container : LoneOK(c)

-----------------------------------------------------------------------------
(***************************************************************************)
(* The steps of a container that is inside main, and what they leave to    *)
(* AWS.                                                                    *)
(***************************************************************************)
Ends(c) == Kill(c) \/ Return(c)

InMain(c) ==
  \/ FlushSome(c) \/ Connect(c) \/ Main(c) \/ GetFails(c) \/ GetSchema(c) \/ AddSchema(c)
  \/ SchemaDone(c) \/ GetData(c) \/ ParseData(c) \/ FindSchema(c) \/ FindSchemaRaises(c)
  \/ ExtractData(c) \/ WriteChunk(c) \/ WriteRaises(c) \/ FinishWriting(c) \/ Log(c)

LEMMA StepCases ==
  ASSUME NEW c \in Container
  PROVE  Step(c) <=> InMain(c) \/ Ends(c) \/ Retire(c)
BY DEF Step, Progress, InMain, Ends

LEMMA MainKeepsEvents ==
  ASSUME NEW c \in Container, InMain(c)
  PROVE  UNCHANGED <<awsVars, event, alone>>
BY DEF InMain, FlushSome, Connect, Main, GetFails, GetSchema, AddSchema, SchemaDone, GetData,
       ParseData, FindSchema, FindSchemaRaises, ExtractData, WriteChunk, WriteRaises,
       FinishWriting, Log, Plain, Elsewhere, localVars

\* A step inside main neither begins nor ends an attempt, and main begins once.
LEMMA MainGoes ==
  ASSUME TypeInv, NEW c \in Container, InMain(c)
  PROVE  /\ pc[c] \notin {"free", "return", "raise"} /\ event[c] \in Event /\ event[c] # None
         /\ pc'[c] \notin {"free", "connect"}
         /\ pc'[c] = "main" => pc[c] = "connect"
<1> USE DEF TypeInv, TypeOK, PgOK, Goto, CommitLog
<1> DEFINE Good ==
      /\ pc[c] \notin {"free", "return", "raise"}
      /\ pc'[c] \notin {"free", "connect"}
      /\ pc'[c] = "main" => pc[c] = "connect"
<1>1. AddSchema(c) => Good
  BY AddSchemaShape DEF SchemaLabel
<1>2. Log(c) => Good
  BY LogShape DEF LogLabel, LogOK, Continuation
<1>3. FlushSome(c) \/ WriteChunk(c) => Good
  BY DEF FlushSome, WriteChunk, pgVars
<1>4. Good
  BY <1>1, <1>2, <1>3
     DEF InMain, Connect, Main, GetFails, GetSchema, SchemaDone, GetData, ParseData, FindSchema,
         FindSchemaRaises, ExtractData, WriteRaises, FinishWriting
<1>5. event[c] \in Event
  BY <1>4 DEF HandOK
<1> QED BY <1>4, <1>5, NoneAssumption

\* c commits a row, which is about its attempt; the logger is emptied.
Wrote(c) ==
  /\ pc[c] = "log.commit" /\ pc'[c] \in {entry[c].then, "raise"}
  /\ event[c] \in Event /\ event[c] # None
  /\ xml_log' = xml_log \cup {Row(c, About(c))}
  /\ now' = now + 1 /\ logTime' = [logTime EXCEPT ![c] = now + 1]
  /\ UNCHANGED <<entry, awsVars, localVars, traffic_table>>

\* c creates its logger.
Began(c) ==
  /\ Main(c)
  /\ now' \in Nat /\ now <= now' /\ logTime' = [logTime EXCEPT ![c] = now']
  /\ UNCHANGED xml_log

LEMMA CommitWrites ==
  ASSUME TypeInv, NEW c \in Container, Log(c), CommitLogRow(c, About(c))
  PROVE  Wrote(c)
<1>1. pc[c] = "log.commit"
  BY DEF CommitLogRow
<1>2. pc'[c] \in {entry[c].then, "raise"}
  BY DEF CommitLogRow, Committed, Goto, TypeInv, TypeOK, PgOK
<1>3. event[c] \in Event /\ event[c] # None
  BY <1>1, NoneAssumption DEF TypeInv, HandOK
<1> QED BY <1>1, <1>2, <1>3 DEF Wrote, CommitLogRow, Log

LEMMA RowsGrow ==
  ASSUME TypeInv, NEW c \in Container, Step(c)
  PROVE  Wrote(c) \/ Began(c) \/ UNCHANGED <<xml_log, now, logTime>>
<1>1. CASE Log(c) /\ CommitLogRow(c, About(c))
  BY <1>1, CommitWrites
<1>2. CASE Main(c)
  <2>1. PICK d \in Ticks : now' = now + d /\ logTime' = [logTime EXCEPT ![c] = now + d]
    BY <1>2 DEF Main, GetLogger
  <2> QED BY <1>2, <2>1, TicksAssumption DEF Began, Main, Elsewhere, TypeInv, TypeOK, LogOK
<1>3. CASE Step(c) /\ ~Main(c) /\ ~Log(c)
  BY <1>3 DEF Step, Progress, Kill, Retire, FlushSome, Connect, GetFails, Return, Over, GetSchema,
              AddSchema, SchemaDone, GetData, ParseData, FindSchema, FindSchemaRaises,
              ExtractData, WriteChunk, WriteRaises, FinishWriting, Plain, Elsewhere, logVars
<1>4. CASE Log(c) /\ ~CommitLogRow(c, About(c))
  BY <1>4 DEF Log, CreateLogTable, InsertLog, LogRaises, logVars
<1> QED BY <1>1, <1>2, <1>3, <1>4

LEMMA WrittenRow ==
  ASSUME NEW c \in Container
  PROVE  /\ Row(c, About(c)).time = logTime[c] /\ Row(c, About(c)).status = entry[c].status
         /\ Row(c, About(c)).of.run = event[c] /\ Row(c, About(c)).of.body = contents[c]
         /\ Row(c, About(c)).of.schema = schema[c]
BY DEF Row, About

LEMMA RowsTyped ==
  ASSUME TypeInv
  PROVE  \A r \in xml_log : r.time \in Nat /\ r.status \in Status /\ r.of.run \in Event
BY DEF TypeInv, TypeOK, LogOK

-----------------------------------------------------------------------------
(***************************************************************************)
(* Attempts differ.                                                        *)
(***************************************************************************)
LEMMA EventFields ==
  ASSUME NEW e \in Event
  PROVE  e.upload \in Nat /\ e.try \in Nat /\ e.copy \in Nat /\ e.key \in Key
BY LambdaAssumption DEF Event

LEMMA EventsTyped ==
  ASSUME TypeInv
  PROVE  /\ \A e \in queue : e \in Event
         /\ \A c \in Container : event[c] # None => event[c] \in Event
         /\ uploads \in Nat /\ dups \in Nat
BY LambdaAssumption DEF TypeInv, TypeOK, AwsOK, LocalOK

LEMMA UploadEventsInv ==
  ASSUME TypeInv, EventsInv, NEW k \in Key, NEW body \in Bodies(k), Upload(k, body)
  PROVE  EventsInv'
<1> PICK new : new = [upload |-> uploads + 1, key |-> k, try |-> 1, copy |-> 0]
  OBVIOUS
<1>1. /\ queue' = queue \cup {new} /\ uploads' = uploads + 1
      /\ UNCHANGED <<pc, event, xml_log, dups>>
  BY DEF Upload, pgVars, logVars, localVars
<1>2. new.upload = uploads + 1 /\ new.copy = 0
  OBVIOUS
<1>3. \A e : e \in Event /\ Made(e) => Made(e)' /\ ~Twins(e, new) /\ ~Twins(new, e)
  BY <1>1, <1>2, EventsTyped, EventFields DEF Made, Twins
<1>4. Made(new)'
  BY <1>1, <1>2, EventsTyped DEF Made
<1> QED BY <1>1, <1>3, <1>4, EventsTyped, RowsTyped DEF EventsInv

LEMMA DeliverEventsInv ==
  ASSUME TypeInv, EventsInv, NEW c \in Container, NEW e \in queue, NEW again \in BOOLEAN,
         Deliver(c, e, again)
  PROVE  EventsInv'
<1> PICK new : new = [e EXCEPT !.copy = dups + 1]
  OBVIOUS
<1>1. /\ event' = [event EXCEPT ![c] = e] /\ event[c] = None
      /\ event'[c] = e /\ \A d \in Container : d # c => event'[d] = event[d]
      /\ \A d \in Container : d # c => pc'[d] = pc[d]
      /\ pc'[c] # "free"
      /\ UNCHANGED <<uploads, xml_log>>
  BY DEF Deliver, Goto, logVars, TypeInv, TypeOK, PgOK, LocalOK, EventsInv
<1>2. e \in Event /\ Made(e)
  BY EventsTyped DEF EventsInv
<1>3. new.upload = e.upload /\ new.copy = dups + 1
  BY <1>2 DEF Event
<1>4. /\ dups' \in Nat /\ dups <= dups'
      /\ \/ queue' \subseteq queue \ {e}
         \/ queue' = (queue \ {e}) \cup {new} /\ dups' = dups + 1
  <2>1. \/ queue' = queue \ {e} /\ UNCHANGED dups
        \/ queue' = (queue \ {e}) \cup {new} /\ dups' = dups + 1
    BY Zenon DEF Deliver
  <2> QED BY <2>1, EventsTyped
<1>5. \A f : f \in Event /\ Made(f) => Made(f)' /\ ~Twins(f, new) /\ ~Twins(new, f)
  BY <1>1, <1>3, <1>4, EventsTyped, EventFields DEF Made, Twins
<1>6. CASE queue' \subseteq queue \ {e}
  BY <1>1, <1>2, <1>5, <1>6, EventsTyped, RowsTyped, EventFields DEF EventsInv, Twins
<1>7. CASE queue' = (queue \ {e}) \cup {new} /\ dups' = dups + 1
  <2>1. Made(new)'
    BY <1>1, <1>2, <1>3, <1>7, EventsTyped DEF Made
  <2>2. \A f \in queue' : f = new \/ (f \in queue /\ f # e)
    BY <1>7
  <2>3. \A f \in queue \ {e} : ~Twins(f, e) /\ ~Twins(e, f)
    BY DEF EventsInv, Twins
  <2>4. \A r \in xml_log : Twins(r.of.run, e) => r.of.run.try <= e.try
    BY <1>2, RowsTyped, EventFields DEF EventsInv
  <2>5. \A f : f \in queue \/ f = e => ~Twins(f, new) /\ ~Twins(new, f) /\ Made(f)'
    BY <1>2, <1>5, EventsTyped DEF EventsInv
  <2>6. \A r \in xml_log : Made(r.of.run)' /\ ~Twins(r.of.run, new)
    BY <1>5, RowsTyped DEF EventsInv
  <2>7. \A d \in Container : d # c /\ event[d] # None =>
          /\ Made(event[d])' /\ ~Twins(event[d], new) /\ ~Twins(new, event[d])
          /\ ~Twins(event[d], e) /\ ~Twins(e, event[d])
    <3> SUFFICES ASSUME NEW d \in Container, d # c, event[d] # None
                 PROVE  /\ Made(event[d])' /\ ~Twins(event[d], new) /\ ~Twins(new, event[d])
                        /\ ~Twins(event[d], e) /\ ~Twins(e, event[d])
      OBVIOUS
    <3>1. event[d] \in Event /\ Made(event[d]) /\ ~Twins(e, event[d]) /\ event'[d] = event[d]
      BY <1>1, EventsTyped DEF EventsInv
    <3> QED BY <1>5, <3>1 DEF Twins
  <2> QED BY <1>1, <2>1, <2>2, <2>3, <2>4, <2>5, <2>6, <2>7 DEF EventsInv
<1> QED BY <1>4, <1>6, <1>7

LEMMA EndsEventsInv ==
  ASSUME TypeInv, EventsInv, NEW c \in Container, Ends(c)
  PROVE  EventsInv'
<1> PICK next : next = [event[c] EXCEPT !.try = event[c].try + 1]
  OBVIOUS
<1>1. event[c] # None /\ event[c] \in Event
  BY NoneAssumption, EventsTyped DEF Ends, Kill, Return, TypeInv, HandOK
<1>2. /\ event'[c] = None /\ \A d \in Container : d # c => event'[d] = event[d]
      /\ \A d \in Container : d # c => pc'[d] = pc[d]
      /\ UNCHANGED <<uploads, dups, xml_log>>
  BY DEF Ends, Kill, Return, Over, Goto, logVars, TypeInv, TypeOK, PgOK, LocalOK
<1>3. queue' \subseteq queue \cup {next}
  BY DEF Ends, Kill, Return, Retried
<1>4. next.upload = event[c].upload /\ next.copy = event[c].copy
      /\ next.try = event[c].try + 1
  BY <1>1 DEF Event
<1>5. \A e : (Twins(e, next) <=> Twins(e, event[c])) /\ (Twins(next, e) <=> Twins(event[c], e))
  BY <1>4 DEF Twins
<1>6. Made(next)' /\ \A e : Made(e) <=> Made(e)'
  BY <1>1, <1>2, <1>4 DEF EventsInv, Made
<1>7. \A e \in queue : ~Twins(e, event[c]) /\ ~Twins(event[c], e)
  BY <1>1 DEF EventsInv, Twins
<1>8. ASSUME NEW r \in xml_log, Twins(r.of.run, next) PROVE r.of.run.try < next.try
  <2>1. r.of.run.try <= event[c].try
    BY <1>1, <1>5, <1>8 DEF EventsInv
  <2>2. r.of.run.try \in Nat /\ event[c].try \in Nat
    BY <1>1, RowsTyped, EventFields
  <2> QED BY <1>4, <2>1, <2>2
<1>9. \A d \in Container : d # c /\ event[d] # None =>
        ~Twins(event[d], next) /\ ~Twins(next, event[d])
  BY <1>1, <1>5 DEF EventsInv
<1>10. \A e \in queue' : e = next \/ e \in queue
  BY <1>3
<1>11. \A e \in queue : ~Twins(e, next) /\ ~Twins(next, e)
  BY <1>5, <1>7
<1> QED BY <1>2, <1>6, <1>8, <1>9, <1>10, <1>11 DEF EventsInv

LEMMA MainEventsInv ==
  ASSUME TypeInv, EventsInv, NEW c \in Container, InMain(c) \/ Retire(c)
  PROVE  EventsInv'
<1>1. UNCHANGED <<queue, uploads, dups, event>>
  BY MainKeepsEvents DEF Retire, awsVars, localVars
<1>2. \A d \in Container : pc'[d] = "free" => pc[d] = "free"
  BY MainGoes, OthersStayInStep, StepCases DEF OthersStay, Retire
<1>3. \A r \in xml_log' :
        r \in xml_log \/ (r.of.run = event[c] /\ event[c] # None /\ event[c] \in Event)
  BY RowsGrow, StepCases, WrittenRow DEF Wrote, Began
<1>4. \A e : Made(e) <=> Made(e)'
  BY <1>1 DEF Made
<1>5. \A e \in queue : event[c] # None => ~Twins(e, event[c]) /\ ~Twins(event[c], e)
  BY DEF EventsInv, Twins
<1> QED BY <1>1, <1>2, <1>3, <1>4, <1>5, EventFields DEF EventsInv

LEMMA NextEventsInv ==
  ASSUME TypeInv, EventsInv, [Next]_vars
  PROVE  EventsInv'
<1>1. CASE UNCHANGED vars
  BY <1>1 DEF vars, pgVars, logVars, awsVars, localVars, EventsInv, Made
<1> QED BY <1>1, UploadEventsInv, DeliverEventsInv, EndsEventsInv, MainEventsInv, StepCases
        DEF Next, Step

LEMMA EventsInvariance == Spec => [](TypeInv /\ EventsInv)
<1>1. Init => EventsInv
  BY DEF Init, EventsInv
<1>2. TypeInv /\ EventsInv /\ [Next]_vars => EventsInv'
  BY NextEventsInv
<1> QED BY <1>1, <1>2, TypeInvariance, PTL DEF Spec

\* No two containers run one attempt.
LEMMA AttemptsDiffer ==
  ASSUME EventsInv, NEW c \in Container, NEW d \in Container, event[c] # None,
         event[c] = event[d]
  PROVE  c = d
BY DEF EventsInv, Twins

-----------------------------------------------------------------------------
(***************************************************************************)
(* FinalRowIsLatest.                                                       *)
(***************************************************************************)
LEMMA ClockTyped ==
  ASSUME TypeInv
  PROVE  /\ now \in Nat /\ logTime \in [Container -> Nat]
         /\ \A r \in xml_log : r.time \in Nat
BY DEF TypeInv, TypeOK, LogOK

LEMMA ClockInStep ==
  ASSUME TypeInv, ClockInv, NEW c \in Container, Step(c)
  PROVE  ClockInv'
<1>1. logTime[c] <= now
  BY DEF ClockInv
<1>2. CASE Wrote(c)
  BY <1>1, <1>2, ClockTyped, WrittenRow DEF Wrote, ClockInv
<1>3. CASE Began(c)
  BY <1>3, ClockTyped DEF Began, ClockInv
<1>4. CASE UNCHANGED <<xml_log, now, logTime>>
  BY <1>4 DEF ClockInv
<1> QED BY <1>2, <1>3, <1>4, RowsGrow

\* A verdict is passed to commit_log with `return' as its continuation.
LEMMA VerdictInMain ==
  ASSUME TypeInv, NEW c \in Container, VerdictLast(c), InMain(c)
  PROVE  VerdictLast(c)'
<1> USE DEF TypeInv, TypeOK, PgOK, LogOK, Goto, CommitLog, VerdictLast, NoLog
<1>1. CASE AddSchema(c)
  BY <1>1, AddSchemaShape DEF SchemaLabel, LogLabel
<1>2. CASE Log(c)
  BY <1>2, LogShape
<1>3. CASE FlushSome(c) \/ WriteChunk(c)
  BY <1>3 DEF FlushSome, WriteChunk, pgVars, logVars
<1>4. CASE Main(c) \/ GetData(c) \/ ExtractData(c) \/ FindSchema(c)
  BY <1>4 DEF Main, GetData, ExtractData, FindSchema, Final, succeeded, failed, processing,
              LogLabel
<1>5. CASE Connect(c) \/ GetSchema(c) \/ FindSchemaRaises(c) \/ WriteRaises(c)
  BY <1>5 DEF Connect, GetSchema, FindSchemaRaises, WriteRaises, LogLabel
<1>6. CASE GetFails(c) \/ SchemaDone(c) \/ ParseData(c) \/ FinishWriting(c)
  BY <1>6 DEF GetFails, SchemaDone, ParseData, FinishWriting, LogLabel
<1> QED BY <1>1, <1>2, <1>3, <1>4, <1>5, <1>6 DEF InMain

LEMMA OwnRowsInMain ==
  ASSUME TypeInv, ClockInv, NEW c \in Container, OwnRows(c), VerdictLast(c), InMain(c)
  PROVE  OwnRows(c)'
<1>1. UNCHANGED event
  BY MainKeepsEvents
<1>2. CASE Wrote(c)
  <2>0. logTime[c] \in Nat /\ logTime'[c] \in Nat /\ logTime[c] < logTime'[c]
    BY <1>2, ClockTyped DEF Wrote, ClockInv
  <2>1. ASSUME NEW r \in xml_log', r.of.run = event[c]
        PROVE  /\ r.time < logTime'[c]
               /\ r.status \in Final => pc'[c] \in {"return", "raise"}
    <3>1. CASE r \in xml_log
      <4>1. r.time < logTime[c] /\ r.status \notin Final
        BY <1>2, <2>1, <3>1 DEF Wrote, OwnRows
      <4> QED BY <1>2, <2>0, <3>1, <4>1, ClockTyped DEF Wrote
    <3>2. CASE r = Row(c, About(c))
      <4>1. entry[c].status \in Final => entry[c].then = "return"
        BY <1>2 DEF Wrote, VerdictLast, LogLabel
      <4> QED BY <1>2, <2>0, <3>2, <4>1, WrittenRow DEF Wrote
    <3> QED BY <1>2, <2>1, <3>1, <3>2 DEF Wrote
  <2>2. pc'[c] \notin {"connect", "main"}
    BY <1>2, MainGoes DEF Wrote
  <2> QED BY <1>1, <2>1, <2>2 DEF OwnRows
<1>3. CASE Began(c)
  BY <1>1, <1>3 DEF Began, Main, OwnRows
<1>4. CASE UNCHANGED <<xml_log, now, logTime>>
  BY <1>1, <1>4, MainGoes DEF OwnRows
<1> QED BY <1>2, <1>3, <1>4, RowsGrow, StepCases

LEMMA FinalInStep ==
  ASSUME TypeInv, ClockInv, NEW c \in Container, OwnRows(c), FinalRowIsLatest, Step(c)
  PROVE  FinalRowIsLatest'
<1>1. CASE Wrote(c)
  <2>1. \A r \in xml_log : r.of.run = event[c] => r.time < logTime[c] /\ r.status \notin Final
    BY <1>1 DEF Wrote, OwnRows
  <2> QED BY <1>1, <2>1, WrittenRow DEF Wrote, FinalRowIsLatest
<1>2. CASE UNCHANGED xml_log
  BY <1>2 DEF FinalRowIsLatest
<1> QED BY <1>1, <1>2, RowsGrow DEF Began

\* What the rows of d's attempt are does not depend on a step of c.
LEMMA OthersRows ==
  ASSUME TypeInv, EventsInv, OrderInv, NEW c \in Container, Step(c),
         NEW d \in Container, d # c
  PROVE  (OwnRows(d) /\ VerdictLast(d))'
<1>1. pc'[d] = pc[d] /\ entry'[d] = entry[d]
  BY OthersStayInStep DEF OthersStay
<1>2. event'[d] = event[d]
  BY MainKeepsEvents, StepCases
     DEF Ends, Kill, Return, Over, Retire, localVars, TypeInv, TypeOK, LocalOK
<1>3. logTime'[d] = logTime[d]
  BY RowsGrow, ClockTyped DEF Wrote, Began
<1>4. \A r \in xml_log' : r \in xml_log \/ r.of.run # event[d] \/ event[d] = None
  BY RowsGrow, WrittenRow, AttemptsDiffer DEF Wrote, Began
<1> QED BY <1>1, <1>2, <1>3, <1>4 DEF OrderInv, OwnRows, VerdictLast

LEMMA StepOrderInv ==
  ASSUME TypeInv, EventsInv, OrderInv, NEW c \in Container, Step(c)
  PROVE  OrderInv'
<1>1. OwnRows(c)' /\ VerdictLast(c)'
  <2>1. CASE InMain(c)
    BY <2>1, OwnRowsInMain, VerdictInMain DEF OrderInv
  <2>2. CASE Ends(c)
    BY <2>2 DEF Ends, Kill, Return, Over, Goto, OwnRows, VerdictLast, LogLabel, TypeInv,
                TypeOK, PgOK, LocalOK
  <2>3. CASE Retire(c)
    BY <2>3 DEF Retire, logVars, localVars, OrderInv, OwnRows, VerdictLast
  <2> QED BY <2>1, <2>2, <2>3, StepCases
<1> QED BY <1>1, ClockInStep, FinalInStep, OthersRows DEF OrderInv

LEMMA DeliverOrderInv ==
  ASSUME TypeInv, EventsInv, OrderInv, NEW c \in Container, NEW e \in queue,
         NEW again \in BOOLEAN, Deliver(c, e, again)
  PROVE  OrderInv'
<1>1. /\ event'[c] = e /\ pc'[c] \in {"connect", "main"}
      /\ \A d \in Container : d # c => event'[d] = event[d] /\ pc'[d] = pc[d]
      /\ UNCHANGED logVars
  BY DEF Deliver, Goto, TypeInv, TypeOK, PgOK, LocalOK
<1>2. \A r \in xml_log : r.of.run # e
  <2>1. e.try \in Nat
    BY EventsTyped, EventFields
  <2> QED BY <2>1 DEF EventsInv, Twins
<1>3. OwnRows(c)' /\ VerdictLast(c)'
  BY <1>1, <1>2 DEF logVars, OwnRows, VerdictLast, LogLabel
<1>4. \A d \in Container : d # c => OwnRows(d)' /\ VerdictLast(d)'
  BY <1>1 DEF logVars, OrderInv, OwnRows, VerdictLast
<1> QED BY <1>1, <1>3, <1>4 DEF logVars, OrderInv, ClockInv, FinalRowIsLatest

LEMMA NextOrderInv ==
  ASSUME TypeInv, EventsInv, OrderInv, [Next]_vars
  PROVE  OrderInv'
<1>1. CASE UNCHANGED vars \/ \E k \in Key : \E body \in Bodies(k) : Upload(k, body)
  BY <1>1 DEF Upload, vars, pgVars, logVars, localVars, OrderInv, ClockInv, OwnRows, VerdictLast,
              FinalRowIsLatest
<1> QED BY <1>1, DeliverOrderInv, StepOrderInv DEF Next, Step

LEMMA OrderInvariance == Spec => [](TypeInv /\ EventsInv /\ OrderInv)
<1>1. Init => OrderInv
  BY DEF Init, OrderInv, ClockInv, OwnRows, VerdictLast, LogLabel, FinalRowIsLatest
<1>2. TypeInv /\ EventsInv /\ OrderInv /\ [Next]_vars => OrderInv'
  BY NextOrderInv
<1> QED BY <1>1, <1>2, EventsInvariance, PTL DEF Spec

\* FinalRowIsLatest holds of every instance: whatever other attempts on the
\* file run, fail or are retried, the verdict of an attempt is later than its
\* other rows.
THEOREM FinalIsLatest == Spec => []FinalRowIsLatest
<1>1. OrderInv => FinalRowIsLatest
  BY DEF OrderInv
<1> QED BY <1>1, OrderInvariance, PTL

-----------------------------------------------------------------------------
(***************************************************************************)
(* The Lambda implements IngestContract.                                   *)
(***************************************************************************)
LEMMA AnnouncedInMain ==
  ASSUME TypeInv, NEW c \in Container, Announced(c), InMain(c)
  PROVE  Announced(c)'
<1> DEFINE Past == pc[c] = "data.parse" \/ Heads(c, {"data.find", "data.extract", "data.write"})
<1> USE DEF TypeInv, TypeOK, PgOK, LogOK, LocalOK, Goto, CommitLog, NoLog, Heads
<1>1. UNCHANGED event
  BY MainKeepsEvents
<1>2. CASE Wrote(c)
  <2>1. Past' => Past \/ entry[c].then = "data.parse"
    BY <1>2 DEF Wrote, LogLabel
  <2>2. \E r \in xml_log' : r.of.run = event[c] /\ r.of.body = contents[c]
    BY <1>2, WrittenRow DEF Wrote
  <2> QED BY <1>1, <1>2, <2>2 DEF Wrote, localVars, Announced
<1>3. CASE ~Wrote(c)
  <2>1. xml_log \subseteq xml_log'
    BY <1>3, RowsGrow, StepCases DEF Began
  <2>2. ASSUME Past' PROVE Past /\ contents'[c] = contents[c]
    <3>1. CASE AddSchema(c)
      BY <2>2, <3>1, AddSchemaShape DEF AddSchema, localVars, SchemaLabel, LogLabel
    <3>2. CASE Log(c)
      <4>1. pc'[c] \in LogLabel \cup {"raise"}
        <5>1. ~CommitLogRow(c, About(c))
          BY <1>3, <3>2, CommitWrites
        <5> QED BY <3>2, <5>1
                DEF Log, CreateLogTable, InsertLog, LogRaises, CreateSkips, CreateLooks,
                    CreateEnters, CreateClashes, CreateCommits, Committed, LogLabel
      <4> QED BY <2>2, <3>2, <4>1, LogShape DEF Log, localVars, LogLabel
    <3>3. CASE FlushSome(c) \/ WriteChunk(c)
      BY <2>2, <3>3 DEF FlushSome, WriteChunk, pgVars, logVars, localVars
    <3>4. CASE Connect(c) \/ Main(c) \/ GetFails(c) \/ GetSchema(c) \/ SchemaDone(c)
               \/ GetData(c) \/ WriteRaises(c) \/ FinishWriting(c)
      BY <2>2, <3>4 DEF Connect, Main, GetFails, GetSchema, SchemaDone, GetData, WriteRaises,
                        FinishWriting, LogLabel
    <3>5. CASE ParseData(c) \/ FindSchema(c) \/ FindSchemaRaises(c) \/ ExtractData(c)
      BY <2>2, <3>5 DEF ParseData, FindSchema, FindSchemaRaises, ExtractData, Plain
    <3> QED BY <3>1, <3>2, <3>3, <3>4, <3>5 DEF InMain
  <2> QED BY <1>1, <2>1, <2>2 DEF Announced
<1> QED BY <1>2, <1>3

LEMMA StepAnnouncedInv ==
  ASSUME TypeInv, AnnouncedInv, NEW c \in Container, Step(c)
  PROVE  AnnouncedInv'
<1>1. Announced(c)'
  <2>1. CASE Ends(c)
    BY <2>1 DEF Ends, Kill, Return, Over, Goto, Announced, Heads, LogLabel, TypeInv, TypeOK, PgOK
  <2>2. CASE Retire(c)
    BY <2>2 DEF Retire, logVars, localVars, AnnouncedInv, Announced, Heads
  <2> QED BY <2>1, <2>2, AnnouncedInMain, StepCases DEF AnnouncedInv
<1>2. ASSUME NEW d \in Container, d # c PROVE Announced(d)'
  <2>1. pc'[d] = pc[d] /\ entry'[d] = entry[d] /\ contents'[d] = contents[d]
    BY <1>2, OthersStayInStep DEF OthersStay
  <2>2. event'[d] = event[d]
    BY <1>2, MainKeepsEvents, StepCases
       DEF Ends, Kill, Return, Over, Retire, localVars, TypeInv, TypeOK, LocalOK
  <2>3. xml_log \subseteq xml_log'
    BY RowsGrow DEF Wrote, Began
  <2> QED BY <2>1, <2>2, <2>3 DEF AnnouncedInv, Announced, Heads
<1> QED BY <1>1, <1>2 DEF AnnouncedInv

LEMMA NextAnnouncedInv ==
  ASSUME TypeInv, AnnouncedInv, [Next]_vars
  PROVE  AnnouncedInv'
<1>1. CASE UNCHANGED vars \/ \E k \in Key : \E body \in Bodies(k) : Upload(k, body)
  BY <1>1 DEF Upload, vars, pgVars, logVars, localVars, AnnouncedInv, Announced, Heads
<1>2. CASE \E c \in Container, e \in queue, again \in BOOLEAN : Deliver(c, e, again)
  <2>1. PICK c \in Container, e \in queue, again \in BOOLEAN : Deliver(c, e, again)
    BY <1>2
  <2>2. /\ pc'[c] \in {"connect", "main"}
        /\ \A d \in Container : d # c => event'[d] = event[d] /\ pc'[d] = pc[d]
        /\ UNCHANGED <<entry, xml_log, contents>>
    BY <2>1 DEF Deliver, Goto, logVars, TypeInv, TypeOK, PgOK, LocalOK
  <2> QED BY <2>2 DEF AnnouncedInv, Announced, Heads, LogLabel
<1> QED BY <1>1, <1>2, StepAnnouncedInv DEF Next, Step

\* The readings of a file in hand are readings.
LEMMA ReadingsTyped ==
  ASSUME NEW body
  PROVE  ReadingsOf(body) \in SUBSET Reading
<1>1. CASE body \in DataBody
  <2>1. body.readings \in Seq(Reading)
    BY <1>1, LambdaAssumption
  <2>2. \A i \in DOMAIN body.readings : body.readings[i] \in Reading
    BY <2>1
  <2> QED BY <2>2 DEF ReadingsOf, Range
<1>2. CASE body \notin DataBody
  BY <1>2 DEF ReadingsOf
<1> QED BY <1>1, <1>2

\* A container that writes a row publishes a report, or repeats one.
LEMMA WritingPublishes ==
  ASSUME TypeInv, StoredInv, OrderInv, NEW c \in Container, Wrote(c)
  PROVE  [Contract!Next]_Contract!contractVars
<1> PICK new : new = ReportOf(Row(c, About(c)))
  OBVIOUS
<1>1. /\ new.run = event[c] /\ new.status = entry[c].status
      /\ new.readings = ReadingsOf(contents[c])
      /\ new = [run |-> event[c], status |-> entry[c].status,
                readings |-> ReadingsOf(contents[c])]
  BY WrittenRow DEF ReportOf
<1>2. /\ {ReportOf(r) : r \in xml_log'} = {ReportOf(r) : r \in xml_log} \cup {new}
      /\ UNCHANGED traffic_table
  BY DEF Wrote, ReportOf
<1>3. CASE new \in {ReportOf(r) : r \in xml_log}
  BY <1>2, <1>3 DEF Contract!contractVars, ReportOf
<1>4. CASE new \notin {ReportOf(r) : r \in xml_log}
  <2>1. entry[c].status \in Status
    BY DEF TypeInv, TypeOK, LogOK
  <2>2. new \in Contract!Report
    BY <1>1, <2>1, ReadingsTyped DEF Wrote, Contract!Report, Status
  <2>3. ~Contract!Ended(new.run)
    <3>1. \A r \in xml_log : r.of.run = event[c] => r.status = processing
      BY RowsTyped DEF Wrote, OrderInv, OwnRows, Status, Final
    <3> QED BY <1>1, <3>1 DEF Contract!Ended, Contract!Of, ReportOf
  <2>4. new.status = succeeded => new.readings \subseteq traffic_table
    BY <1>1 DEF Wrote, StoredInv, Sent, LogLabel
  <2>5. Contract!Publish(new)
    BY <1>2, <2>3, <2>4 DEF Contract!Publish, ReportOf
  <2>6. new \in {ReportOf(r) : r \in xml_log'}
    BY <1>2
  <2> QED BY <1>4, <2>2, <2>5, <2>6 DEF Contract!Next, ReportOf
<1> QED BY <1>3, <1>4

\* A container that sends items stores readings of the file it has announced.
LEMMA SendingStores ==
  ASSUME TypeInv, OrderInv, AnnouncedInv, NEW c \in Container,
         FlushSome(c) \/ WriteChunk(c)
  PROVE  [Contract!Next]_Contract!contractVars
<1>1. pc[c] = "data.write" /\ UNCHANGED xml_log
  BY DEF FlushSome, WriteChunk, logVars, Elsewhere
<1>2. PICK part \in SUBSET Chunk(c) : traffic_table' = traffic_table \cup part
  BY DEF FlushSome, WriteChunk
<1>3. Chunk(c) \subseteq ReadingsOf(contents[c])
  <2>1. ReadingsOf(contents[c]) = {contents[c].readings[i] : i \in 1..Size(c)}
    BY <1>1, ReadingsAtWrite
  <2>2. \A i \in (sent[c] + 1)..ChunkEnd(c) : i \in 1..Size(c)
    BY <1>1, ChunkWithin
  <2> QED BY <2>1, <2>2 DEF Chunk
<1>4. PICK r \in xml_log : r.of.run = event[c] /\ r.of.body = contents[c]
  BY <1>1 DEF AnnouncedInv, Announced, Heads
<1>5. event[c] # None
  BY <1>1, NoneAssumption DEF TypeInv, HandOK
<1>6. ~Contract!Ended(ReportOf(r).run)
  <2>1. \A q \in xml_log : q.of.run = event[c] => q.status = processing
    BY <1>1, <1>5, RowsTyped DEF OrderInv, OwnRows, Status, Final
  <2> QED BY <1>4, <2>1 DEF Contract!Ended, Contract!Of, ReportOf
<1>7. part \in SUBSET ReportOf(r).readings
  BY <1>3, <1>4 DEF ReportOf
<1>8. Contract!Store(ReportOf(r))
  BY <1>1, <1>2, <1>6, <1>7 DEF Contract!Store, ReportOf
<1> QED BY <1>1, <1>8 DEF Contract!Next, Contract!contractVars, ReportOf

LEMMA NextKeepsContract ==
  ASSUME TypeInv, StoredInv, OrderInv, AnnouncedInv, [Next]_vars
  PROVE  [Contract!Next]_Contract!contractVars
<1>1. CASE \/ UNCHANGED vars
           \/ \E k \in Key : \E body \in Bodies(k) : Upload(k, body)
           \/ \E c \in Container, e \in queue, again \in BOOLEAN : Deliver(c, e, again)
  BY <1>1 DEF Upload, Deliver, vars, logVars, Contract!contractVars, ReportOf
<1>2. ASSUME NEW c \in Container, Step(c)
      PROVE  [Contract!Next]_Contract!contractVars
  <2>1. CASE Wrote(c)
    BY <2>1, WritingPublishes
  <2>2. CASE FlushSome(c) \/ WriteChunk(c)
    BY <2>2, SendingStores
  <2>3. CASE ~Wrote(c) /\ ~FlushSome(c) /\ ~WriteChunk(c)
    <3>1. UNCHANGED xml_log
      BY <1>2, <2>3, RowsGrow DEF Began
    <3>2. UNCHANGED traffic_table
      BY <1>2, <2>3
         DEF Step, Progress, Kill, Retire, Connect, Main, GetFails, Return, Over, GetSchema,
             AddSchema, SchemaDone, GetData, ParseData, FindSchema, FindSchemaRaises,
             ExtractData, WriteRaises, FinishWriting, Log, Plain
    <3> QED BY <3>1, <3>2 DEF Contract!contractVars, ReportOf
  <2> QED BY <2>1, <2>2, <2>3
<1> QED BY <1>1, <1>2 DEF Next, Step

\* The Lambda implements IngestContract (KeepsContract): seen from DynamoDB and
\* xml_log, an attempt announces its file before it stores readings of it, stores
\* no others, says succeeded only when all are stored, gives one verdict at
\* most, and is silent afterwards.
THEOREM LambdaImplementsContract == Spec => KeepsContract
<1>1. Init => AnnouncedInv /\ StoredInv
  BY DEF Init, AnnouncedInv, Announced, StoredInv, SucceededIsStored, Sent, Heads, LogLabel
<1>2. TypeInv /\ StoredInv /\ [Next]_vars => StoredInv'
  BY NextStoredInv
<1>3. TypeInv /\ AnnouncedInv /\ [Next]_vars => AnnouncedInv'
  BY NextAnnouncedInv
<1>4. Init => Contract!Init
  BY DEF Init, Contract!Init
<1>5. TypeInv /\ StoredInv /\ OrderInv /\ AnnouncedInv /\ [Next]_vars
        => [Contract!Next]_Contract!contractVars
  BY NextKeepsContract
<1> QED BY <1>1, <1>2, <1>3, <1>4, <1>5, OrderInvariance, PTL DEF Spec, KeepsContract, Contract!Spec

-----------------------------------------------------------------------------
(***************************************************************************)
(* NeverOlderSchema.                                                       *)
(***************************************************************************)

\* Registering schemas takes none away from a file.
LEMMA MatchingGrows ==
  ASSUME xml_schemas \subseteq xml_schemas', NEW key, NEW date
  PROVE  Matching(key, date) \subseteq Matching(key, date)'
BY DEF Matching

\* Only find_schema gives a container a schema, and only its own.
LEMMA SchemaMoves ==
  ASSUME TypeInv, NEW c \in Container, Step(c)
  PROVE  /\ \A d \in Container : d # c => schema'[d] = schema[d]
         /\ FindSchema(c) \/ schema'[c] \in {schema[c], None}
<1> USE DEF TypeInv, TypeOK, LocalOK
<1>1. CASE FindSchema(c)
  BY <1>1 DEF FindSchema
<1>2. CASE Kill(c) \/ Return(c)
  BY <1>2 DEF Kill, Return, Over
<1>3. CASE ~FindSchema(c) /\ ~Kill(c) /\ ~Return(c)
  BY <1>3 DEF Step, Progress, Retire, FlushSome, Connect, Main, GetFails, GetSchema, AddSchema,
              SchemaDone, GetData, ParseData, FindSchemaRaises, ExtractData, WriteChunk,
              WriteRaises, FinishWriting, Log, Plain, localVars
<1> QED BY <1>1, <1>2, <1>3

LEMMA FoundStays ==
  ASSUME FoundInv, xml_schemas \subseteq xml_schemas', NEW d \in Container,
         event'[d] = event[d], contents'[d] = contents[d], schema'[d] = schema[d],
         Heads(d, {"data.extract", "data.write", "return", "raise"})
           => Heads(d, {"data.extract", "data.write", "return", "raise"})'
  PROVE  FoundOK(d)'
BY DEF FoundInv, FoundOK, Matching

LEMMA FoundInMain ==
  ASSUME TypeInv, FoundInv, xml_schemas \subseteq xml_schemas', NEW c \in Container, InMain(c)
  PROVE  FoundOK(c)'
<1> DEFINE At == Heads(c, {"data.extract", "data.write", "return", "raise"})
<1> USE DEF TypeInv, TypeOK, PgOK, LogOK, LocalOK, Goto, CommitLog, NoLog, Heads
<1>0. event' = event /\ (schema[c] # None => At)
  BY MainKeepsEvents DEF FoundInv, FoundOK
<1>1. CASE FindSchema(c)
  <2>1. PICK l \in {"data.extract", "return"} :
          pc'[c] = "log.create" /\ entry'[c].then = l
    BY <1>1 DEF FindSchema
  <2>2. At'
    BY <2>1 DEF LogLabel
  <2>3. schema[c] = None
    BY <1>0, <1>1 DEF FindSchema, LogLabel
  <2>4. schema'[c] = None \/ schema'[c] \in Newest(event[c].key, contents[c].date)
    BY <1>1, <2>3 DEF FindSchema
  <2>5. contents' = contents
    BY <1>1 DEF FindSchema
  <2> QED BY <1>0, <2>2, <2>4, <2>5, MatchingGrows DEF FoundOK, Newest
<1>2. CASE ~FindSchema(c)
  <2>1. schema' = schema
    BY <1>2 DEF InMain, FlushSome, Connect, Main, GetFails, GetSchema, AddSchema, SchemaDone,
                GetData, ParseData, FindSchemaRaises, ExtractData, WriteChunk, WriteRaises,
                FinishWriting, Log, Plain, localVars
  <2>2. At => At' /\ contents'[c] = contents[c]
    <3>1. CASE AddSchema(c)
      BY <3>1, AddSchemaShape DEF SchemaLabel, LogLabel
    <3>2. CASE Log(c)
      BY <3>2, LogShape DEF Log, localVars, LogLabel
    <3>3. CASE FlushSome(c) \/ WriteChunk(c)
      BY <3>3 DEF FlushSome, WriteChunk, pgVars, logVars, localVars
    <3>4. CASE Connect(c) \/ Main(c) \/ GetFails(c) \/ GetSchema(c) \/ SchemaDone(c)
               \/ GetData(c) \/ ParseData(c) \/ FindSchemaRaises(c)
      BY <3>4 DEF Connect, Main, GetFails, GetSchema, SchemaDone, GetData, ParseData,
                  FindSchemaRaises, LogLabel
    <3>5. CASE ExtractData(c) \/ WriteRaises(c) \/ FinishWriting(c)
      BY <3>5 DEF ExtractData, WriteRaises, FinishWriting, LogLabel, Plain
    <3> QED BY <1>2, <3>1, <3>2, <3>3, <3>4, <3>5 DEF InMain
  <2> QED BY <1>0, <2>1, <2>2, FoundStays DEF FoundInv, FoundOK
<1> QED BY <1>1, <1>2

LEMMA StepFoundInv ==
  ASSUME TypeInv, FoundInv, xml_schemas \subseteq xml_schemas', NEW c \in Container, Step(c)
  PROVE  FoundInv'
<1>1. FoundOK(c)'
  <2>1. CASE Ends(c)
    BY <2>1 DEF Ends, Kill, Return, Over, FoundOK, TypeInv, TypeOK, LocalOK
  <2>2. CASE Retire(c)
    BY <2>2, FoundStays DEF Retire, logVars, localVars, Heads
  <2> QED BY <2>1, <2>2, FoundInMain, StepCases
<1>2. ASSUME NEW d \in Container, d # c PROVE FoundOK(d)'
  <2>1. OthersStay(c)
    BY OthersStayInStep
  <2>2. event'[d] = event[d] /\ schema'[d] = schema[d]
    BY <1>2, MainKeepsEvents, StepCases, SchemaMoves
       DEF Ends, Kill, Return, Over, Retire, localVars, TypeInv, TypeOK, LocalOK
  <2> QED BY <1>2, <2>1, <2>2, FoundStays DEF OthersStay, Heads
<1>3. \A r \in xml_log' : r.of.schema # None =>
        r.of.schema \in Matching(r.of.run.key, r.of.body.date)
  <2>1. CASE Wrote(c)
    BY <2>1, WrittenRow DEF Wrote, FoundInv, FoundOK
  <2>2. CASE UNCHANGED xml_log
    BY <2>2 DEF FoundInv
  <2> QED BY <2>1, <2>2, RowsGrow DEF Began
<1> QED BY <1>1, <1>2, <1>3, MatchingGrows DEF FoundInv

LEMMA NextFoundInv ==
  ASSUME TypeInv, FoundInv, [Next]_vars
  PROVE  FoundInv'
<1>0. xml_schemas \subseteq xml_schemas'
  BY SchemasGrow
<1>1. CASE \/ UNCHANGED vars
           \/ \E k \in Key : \E body \in Bodies(k) : Upload(k, body)
           \/ \E c \in Container, e \in queue, again \in BOOLEAN : Deliver(c, e, again)
  <2>1. xml_log' = xml_log
    BY <1>1 DEF Upload, Deliver, vars, logVars
  <2>2. ASSUME NEW d \in Container PROVE FoundOK(d)'
    <3>1. CASE UNCHANGED vars \/ \E k \in Key : \E body \in Bodies(k) : Upload(k, body)
      BY <1>0, <3>1, FoundStays DEF Upload, vars, pgVars, logVars, localVars, Heads
    <3>2. ASSUME NEW c \in Container, NEW e \in queue, NEW again \in BOOLEAN,
                 Deliver(c, e, again)
          PROVE  FoundOK(d)'
      <4>1. CASE d = c
        BY <3>2, <4>1 DEF Deliver, FoundInv, FoundOK, Heads, LogLabel
      <4>2. CASE d # c
        BY <1>0, <3>2, <4>2, FoundStays
           DEF Deliver, Goto, logVars, Heads, TypeInv, TypeOK, PgOK, LocalOK
      <4> QED BY <4>1, <4>2
    <3> QED BY <1>1, <3>1, <3>2
  <2> QED BY <1>0, <2>1, <2>2, MatchingGrows DEF FoundInv
<1> QED BY <1>0, <1>1, StepFoundInv DEF Next, Step

LEMMA FoundInvariance == Spec => [](TypeInv /\ FoundInv)
<1>1. Init => FoundInv
  BY DEF Init, FoundInv, FoundOK
<1>2. TypeInv /\ FoundInv /\ [Next]_vars => FoundInv'
  BY NextFoundInv
<1> QED BY <1>1, <1>2, TypeInvariance, PTL DEF Spec

\* NeverOlderSchema holds of every instance: among the rows about a file that
\* is read again, none has used a newer schema than the one find_schema now
\* returns, because a schema once registered still matches the file.
THEOREM SchemaNeverOlder == Spec => NeverOlderSchema
<1>1. ASSUME TypeInv, FoundInv, [Next]_vars, NEW c \in Container,
             schema[c] = None, schema'[c] # None,
             NEW r \in xml_log, r.of.run.key = event[c].key, r.of.body = contents[c],
             r.of.schema # None
      PROVE  r.of.schema.version <= schema'[c].version
  <2>1. FindSchema(c)
    <3>1. CASE \E d \in Container : Step(d)
      BY <1>1, <3>1, SchemaMoves
    <3>2. CASE UNCHANGED schema
      BY <1>1, <3>2
    <3> QED BY <1>1, <3>1, <3>2
            DEF Next, Step, Upload, Deliver, vars, localVars
  <2>2. schema'[c] \in Newest(event[c].key, contents[c].date)
    BY <1>1, <2>1 DEF FindSchema, TypeInv, TypeOK, LocalOK
  <2>3. r.of.schema \in Matching(event[c].key, contents[c].date)
    BY <1>1 DEF FoundInv
  <2> QED BY <2>2, <2>3 DEF Newest
<1>2. TypeInv /\ FoundInv /\ [Next]_vars =>
        [\A c \in Container :
           schema[c] = None /\ schema'[c] # None
             => \A r \in xml_log :
                  /\ r.of.run.key = event[c].key
                  /\ r.of.body = contents[c]
                  /\ r.of.schema # None
                  => r.of.schema.version <= schema'[c].version]_schema
  BY <1>1
<1> QED BY <1>2, FoundInvariance, PTL DEF Spec, NeverOlderSchema

-----------------------------------------------------------------------------
(***************************************************************************)
(* LoneRowIsNewest.                                                        *)
(***************************************************************************)

\* What a step of a container does to the events and the logger of another.
LEMMA OthersKeepEvents ==
  ASSUME TypeInv, NEW c \in Container, Step(c)
  PROVE  /\ \A d \in Container : d # c =>
              event'[d] = event[d] /\ alone'[d] = alone[d] /\ logTime'[d] = logTime[d]
         /\ event'[c] \in {event[c], None}
<1>1. \A d \in Container : d # c => logTime'[d] = logTime[d]
  BY RowsGrow, ClockTyped DEF Wrote, Began
<1>2. CASE Ends(c)
  BY <1>1, <1>2 DEF Ends, Kill, Return, Over, TypeInv, TypeOK, LocalOK
<1>3. CASE InMain(c) \/ Retire(c)
  BY <1>1, <1>3, MainKeepsEvents DEF Retire, localVars
<1> QED BY <1>2, <1>3, StepCases

LEMMA LoneInMain ==
  ASSUME TypeInv, ClockInv, NEW c \in Container, LoneOK(c), InMain(c)
  PROVE  LoneOK(c)'
<1>1. event' = event /\ alone' = alone
  BY MainKeepsEvents
<1> SUFFICES ASSUME event[c] # None, alone[c], pc'[c] \notin {"connect", "main", "raise"},
                    NEW q \in xml_log', q.of.run.key = event[c].key
             PROVE  q.time < logTime'[c]
  BY <1>1 DEF LoneOK
<1>2. \A r \in xml_log : r.time < now /\ r.time \in Nat
  BY ClockTyped DEF ClockInv
<1>3. CASE Wrote(c)
  <2>1. logTime'[c] = now + 1 /\ logTime[c] <= now /\ now \in Nat /\ logTime[c] \in Nat
    BY <1>3, ClockTyped DEF Wrote, ClockInv
  <2> QED BY <1>2, <1>3, <2>1, WrittenRow DEF Wrote
<1>4. CASE Began(c)
  BY <1>2, <1>4, ClockTyped DEF Began
<1>5. CASE UNCHANGED <<xml_log, now, logTime>> /\ ~Main(c)
  <2>1. pc[c] \notin {"connect", "main", "raise"}
    <3>1. CASE AddSchema(c)
      BY <3>1, AddSchemaShape DEF SchemaLabel
    <3>2. CASE Log(c)
      BY <3>2, LogShape DEF LogLabel
    <3>3. CASE Connect(c)
      BY <3>3 DEF Connect, Goto, TypeInv, TypeOK, PgOK
    <3>4. CASE ~AddSchema(c) /\ ~Log(c) /\ ~Connect(c)
      BY <1>5, <3>4
         DEF InMain, FlushSome, GetFails, GetSchema, SchemaDone, GetData, ParseData, FindSchema,
             FindSchemaRaises, ExtractData, WriteChunk, WriteRaises, FinishWriting
    <3> QED BY <3>1, <3>2, <3>3, <3>4
  <2> QED BY <1>5, <2>1 DEF LoneOK
<1>6. Main(c) => Began(c)
  <2> SUFFICES ASSUME Main(c) PROVE Began(c)
    OBVIOUS
  <2>1. PICK d \in Ticks : now' = now + d /\ logTime' = [logTime EXCEPT ![c] = now + d]
    BY DEF Main, GetLogger
  <2> QED BY <2>1, TicksAssumption, ClockTyped DEF Began, Main, Elsewhere
<1> QED BY <1>3, <1>4, <1>5, <1>6, RowsGrow, StepCases

LEMMA StepLoneInv ==
  ASSUME TypeInv, ClockInv, LoneInv, NEW c \in Container, Step(c)
  PROVE  LoneInv'
<1>1. LoneOK(c)'
  <2>1. CASE InMain(c)
    BY <2>1, LoneInMain DEF LoneInv
  <2>2. CASE Ends(c)
    BY <2>2 DEF Ends, Kill, Return, Over, LoneOK, TypeInv, TypeOK, LocalOK
  <2>3. CASE Retire(c)
    BY <2>3 DEF Retire, logVars, localVars, LoneInv, LoneOK
  <2> QED BY <2>1, <2>2, <2>3, StepCases
<1>2. ASSUME NEW d \in Container, d # c PROVE LoneOK(d)'
  <2>1. pc'[d] = pc[d] /\ event'[d] = event[d] /\ alone'[d] = alone[d]
        /\ logTime'[d] = logTime[d]
    BY <1>2, OthersStayInStep, OthersKeepEvents DEF OthersStay
  <2>2. \A b \in Container : event'[b] \in {event[b], None}
    BY OthersKeepEvents
  <2>3. LoneOK(d)
    BY DEF LoneInv
  <2>4. \A r \in xml_log' : r \in xml_log \/ (r.of.run = event[c] /\ event[c] # None)
    BY RowsGrow, WrittenRow DEF Wrote, Began
  <2>5. event[d] # None /\ alone[d] /\ event[c] # None => event[c].key # event[d].key
    BY <1>2, <2>3 DEF LoneOK
  <2> QED BY <2>1, <2>2, <2>3, <2>4, <2>5 DEF LoneOK
<1> QED BY <1>1, <1>2 DEF LoneInv

LEMMA DeliverLoneInv ==
  ASSUME TypeInv, LoneInv, NEW c \in Container, NEW e \in queue, NEW again \in BOOLEAN,
         Deliver(c, e, again)
  PROVE  LoneInv'
<1>1. /\ event'[c] = e /\ \A d \in Container : d # c => event'[d] = event[d]
      /\ pc'[c] \in {"connect", "main"} /\ \A d \in Container : d # c => pc'[d] = pc[d]
      /\ alone'[c] <=> Rivals(e.key) = {}
      /\ \A d \in Container : d # c => (alone'[d] <=> alone[d] /\ d \notin Rivals(e.key))
      /\ UNCHANGED <<xml_log, logTime>>
  BY DEF Deliver, Goto, logVars, TypeInv, TypeOK, PgOK, LocalOK
<1>2. LoneOK(c)'
  BY <1>1 DEF LoneOK, Rivals
<1>3. ASSUME NEW d \in Container, d # c PROVE LoneOK(d)'
  <2>1. LoneOK(d)
    BY DEF LoneInv
  <2>2. event[d] # None /\ d \notin Rivals(e.key) => event[d].key # e.key
    BY DEF Rivals
  <2> QED BY <1>1, <1>3, <2>1, <2>2 DEF LoneOK
<1> QED BY <1>2, <1>3 DEF LoneInv

LEMMA NextLoneInv ==
  ASSUME TypeInv, ClockInv, LoneInv, [Next]_vars
  PROVE  LoneInv'
<1>1. CASE UNCHANGED vars \/ \E k \in Key : \E body \in Bodies(k) : Upload(k, body)
  BY <1>1 DEF Upload, vars, pgVars, logVars, localVars, LoneInv, LoneOK
<1> QED BY <1>1, DeliverLoneInv, StepLoneInv DEF Next, Step

\* LoneRowIsNewest holds of every instance: the logger of an attempt that runs
\* alone has been created or emptied after the last row of its file, so that
\* the row it writes next is the newest, although it bears an earlier time
\* than that of its commit.  (All containers read one clock.)
THEOREM LoneNewest == Spec => LoneRowIsNewest
<1>1. Init => LoneInv
  BY DEF Init, LoneInv, LoneOK
<1>2. TypeInv /\ OrderInv /\ LoneInv /\ [Next]_vars => LoneInv'
  BY NextLoneInv DEF OrderInv
<1>3. ASSUME TypeInv, EventsInv, LoneInv, [Next]_vars,
             NEW c \in Container, NEW r \in xml_log' \ xml_log,
             event[c] # None, r.of.run = event[c], alone[c],
             NEW q \in xml_log, q.of.run.key = r.of.run.key
      PROVE  q.time < r.time
  <2>1. PICK d \in Container : Wrote(d)
    BY <1>3, RowsGrow DEF Next, Step, Upload, Deliver, vars, logVars, Began
  <2>2. r = Row(d, About(d)) /\ event[d] = event[c]
    BY <1>3, <2>1, WrittenRow DEF Wrote
  <2>3. d = c
    BY <1>3, <2>2, AttemptsDiffer
  <2> QED BY <1>3, <2>1, <2>2, <2>3, WrittenRow DEF Wrote, LoneInv, LoneOK
<1>4. TypeInv /\ EventsInv /\ LoneInv /\ [Next]_vars =>
        [\A c \in Container, r \in xml_log' \ xml_log :
           event[c] # None /\ r.of.run = event[c] /\ alone[c]
             => \A q \in xml_log : q.of.run.key = r.of.run.key => q.time < r.time]_vars
  BY <1>3
<1> QED BY <1>1, <1>2, <1>4, OrderInvariance, PTL DEF Spec, LoneRowIsNewest
=============================================================================
