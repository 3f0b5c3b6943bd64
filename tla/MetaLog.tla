------------------------------- MODULE MetaLog -------------------------------
(***************************************************************************)
(* logs.py: the in-memory logger of an invocation and commit_log, which    *)
(* writes one row of the table xml_log.  The primary key of the table is   *)
(* the row's time alone, and that time is read when the logger is created  *)
(* or emptied, so it is the time of the invocation's previous commit.      *)
(*                                                                         *)
(* commit_log is a procedure: CommitLog calls it, `entry' holds its        *)
(* argument and where to go on, and the steps "log.*" are its body.  An    *)
(* exception in it is caught nowhere: it leads to "raise".                 *)
(***************************************************************************)
EXTENDS PgSession, Integers

CONSTANT
  Ticks   \* how far the clock may move between two readings of it

(***************************************************************************)
(* 0 \in Ticks lets two containers read the same microsecond; a container  *)
(* that has been to the server and back always reads a later one.          *)
(***************************************************************************)
ASSUME TicksAssumption == Ticks \subseteq Nat /\ Ticks # {}

VARIABLES
  now,      \* datetime.utcnow(), in steps that matter
  logTime,  \* logTime[c]: logger[0]
  entry,    \* entry[c]: the arguments and the return label of commit_log
  xml_log   \* the committed rows

logVars == <<now, logTime, entry, xml_log>>

missing == -1
succeeded == 0
failed == 1
processing == 2
Status == {succeeded, failed, processing}
Final == {succeeded, failed}

LogLabel == {"log.create", "log.enter", "log.created", "log.insert", "log.commit"}

\* Mutant: the logger is created once per container.
LoggerOfContainer(c) ==
  \E d \in Ticks :
    /\ now' = now + d
    /\ logTime' = IF logTime[c] = 0 THEN [logTime EXCEPT ![c] = now + d] ELSE logTime

GetLogger(c) ==
  \E d \in Ticks : now' = now + d /\ logTime' = [logTime EXCEPT ![c] = now + d]

\* Call commit_log with this status and go on at `then' when it returns.
CommitLog(c, status, then) ==
  /\ entry' = [entry EXCEPT ![c] = [status |-> status, then |-> then]]
  /\ Goto(c, "log.create")

CreateLogTable(c) ==
  /\ \/ CreateSkips(c, "xml_log", "log.create", "log.insert")
     \/ CreateLooks(c, "xml_log", "log.create", "log.enter")
     \/ CreateEnters(c, "xml_log", "log.enter", "log.created")
     \/ CreateClashes(c, "xml_log", "log.enter", "raise")
     \/ CreateCommits(c, "xml_log", "log.created", "log.insert", "raise")
  /\ UNCHANGED logVars

\* Another session has inserted a row with this time and not committed yet.
TimeHeld(c) == \E d \in Container : pc[d] = "log.commit" /\ logTime[d] = logTime[c]

\* A committed row has this time.
TimeTaken(c) == \E r \in xml_log : r.time = logTime[c]

\* The INSERT waits while TimeHeld and is rejected when TimeTaken.  It is also
\* rejected when the messages, which are put between quotes as they are, do
\* not make an SQL string (`quotable').
InsertLog(c, quotable) ==
  /\ pc[c] = "log.insert"
  /\ \/ quotable /\ ~TimeHeld(c) /\ ~TimeTaken(c) /\ Executes(c) /\ Goto(c, "log.commit")
     \/ quotable /\ ~TimeHeld(c) /\ TimeTaken(c) /\ Rejected(c) /\ Goto(c, "raise")
     \/ ~quotable /\ Rejected(c) /\ Goto(c, "raise")
  /\ UNCHANGED <<tables, faults, logVars>>

(***************************************************************************)
(* The row becomes visible; `of' says which attempt wrote it and what the  *)
(* attempt had read (history: the program does not store it).              *)
(***************************************************************************)
Row(c, of) == [time |-> logTime[c], status |-> entry[c].status, of |-> of]

CommitLogRow(c, of) ==
  /\ pc[c] = "log.commit"
  /\ Committed(c, entry[c].then, "raise")
  /\ xml_log' = xml_log \cup {Row(c, of)}
  /\ now' = now + 1
  /\ logTime' = [logTime EXCEPT ![c] = now + 1]
  /\ UNCHANGED <<tables, entry>>

LogRaises(c) ==
  /\ pc[c] \in LogLabel
  /\ CallRaises(c)
  /\ Goto(c, "raise")
  /\ UNCHANGED <<tables, logVars>>
=============================================================================
