------------------------------ MODULE PgSession ------------------------------
(***************************************************************************)
(* The one PostgreSQL session that each Lambda container opens when the    *)
(* module lambda_function_xml is imported, and that every invocation of    *)
(* the container then shares: psycopg2's transaction status, and what a    *)
(* statement or a commit does to it.                                       *)
(*                                                                         *)
(* The session is never in autocommit mode: the first statement opens a    *)
(* transaction.  A statement that fails aborts it, and the server refuses  *)
(* every later statement until a rollback.  The program calls rollback     *)
(* nowhere, so "inerror" and "closed" last as long as the process.         *)
(***************************************************************************)
EXTENDS Naturals

CONSTANTS
  Container,  \* the Lambda containers (execution environments)
  MaxFaults   \* bound: how many calls to S3, RDS or DynamoDB fail

ASSUME MaxFaultsAssumption == MaxFaults \in Nat

VARIABLES
  pc,      \* pc[c]: the next step of container c; "free" when it is idle
  conn,    \* conn[c]: the transaction status of its connection
  tables,  \* the tables whose CREATE TABLE is committed
  faults   \* how many calls have failed so far

pgVars == <<pc, conn, tables, faults>>

ConnStatus == {"none", "idle", "intrans", "inerror", "closed"}
Table == {"xml_log", "xml_schemas"}

Goto(c, label) == pc' = [pc EXCEPT ![c] = label]
ConnBecomes(c, status) == conn' = [conn EXCEPT ![c] = status]

Usable(c) == conn[c] \in {"idle", "intrans"}

\* cur.execute(...) that succeeds.
Executes(c) == Usable(c) /\ ConnBecomes(c, "intrans")

\* connection.commit() that succeeds.
Commits(c) == Usable(c) /\ ConnBecomes(c, "idle")

\* cur.execute(...) that the server rejects: the transaction is aborted.
Rejected(c) == Usable(c) /\ ConnBecomes(c, "inerror")

\* A call to another service fails; MaxFaults bounds how often.
Fault == faults < MaxFaults /\ faults' = faults + 1

(***************************************************************************)
(* A call on the connection raises for a reason that is not in the         *)
(* statement: the transaction was aborted earlier, the connection was      *)
(* lost earlier, or the server goes away now.                              *)
(***************************************************************************)
Breaks(c) == Usable(c) /\ Fault /\ ConnBecomes(c, "closed")
CallRaises(c) == Breaks(c) \/ (~Usable(c) /\ UNCHANGED <<conn, faults>>)

(***************************************************************************)
(* connection.commit() once the server has committed: it returns to label  *)
(* `next', or the connection breaks before the answer and the program gets *)
(* an exception, handled at `handler', for a commit that took place.       *)
(***************************************************************************)
Committed(c, next, handler) ==
  \/ Commits(c) /\ Goto(c, next) /\ UNCHANGED faults
  \/ Breaks(c) /\ Goto(c, handler)

(***************************************************************************)
(* CREATE TABLE IF NOT EXISTS and its commit.  The server looks the name   *)
(* up among the committed tables and only then inserts into its catalogue, *)
(* so two sessions can both find the table missing.  The second one waits  *)
(* for the first to commit (the guard of CreateEnters) and is rejected.    *)
(* A session at `created' is the one that holds the uncommitted entry.     *)
(***************************************************************************)
CreateSkips(c, t, create, next) ==
  /\ pc[c] = create
  /\ t \in tables
  /\ Commits(c)
  /\ Goto(c, next)
  /\ UNCHANGED <<tables, faults>>

CreateLooks(c, t, create, enter) ==
  /\ pc[c] = create
  /\ t \notin tables
  /\ Executes(c)
  /\ Goto(c, enter)
  /\ UNCHANGED <<tables, faults>>

CreateEnters(c, t, enter, created) ==
  /\ pc[c] = enter
  /\ t \notin tables
  /\ \A d \in Container : pc[d] # created
  /\ Executes(c)
  /\ Goto(c, created)
  /\ UNCHANGED <<tables, faults>>

CreateClashes(c, t, enter, handler) ==
  /\ pc[c] = enter
  /\ t \in tables
  /\ Rejected(c)
  /\ Goto(c, handler)
  /\ UNCHANGED <<tables, faults>>

CreateCommits(c, t, created, next, handler) ==
  /\ pc[c] = created
  /\ Committed(c, next, handler)
  /\ tables' = tables \cup {t}
=============================================================================
