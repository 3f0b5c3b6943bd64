--------------------------- MODULE ConnectionPool ---------------------------
(* The pools of psycopg2 that several threads share (pool.py).  Every method *)
(* of ThreadedConnectionPool and PersistentConnectionPool holds the pool's   *)
(* lock from its first to its last statement and releases it in a `finally', *)
(* so that a call is one step here, whether it returns or raises; a call     *)
(* that raises changes what it had changed when it raised.  What the threads *)
(* do with a connection they hold, and what the server does to it, happens   *)
(* between those steps.                                                      *)
(*                                                                           *)
(* The threads keep the rules of the documentation: they give back only a    *)
(* connection they got, once, and do not use it afterwards; a thread of a    *)
(* PersistentConnectionPool may also end without giving its connection back, *)
(* and a later thread may then have the same ident.  A ThreadedConnectionPool*)
(* is used without keys of the caller's own.                                 *)
EXTENDS Naturals, Sequences, FiniteSets

CONSTANTS
    Threads,    \* the idents of the threads
    Conns,      \* the connection objects that can be made: a bound
    MinConn,    \* minconn and maxconn, the pool's parameters
    MaxConn,
    MaxKeys,    \* bound on the keys that _getkey makes
    Kinds,      \* the classes of pool: "threaded", "persistent"
    None        \* Python's None

ASSUME PoolAssumption ==
    /\ MinConn \in Nat /\ MaxConn \in Nat /\ MaxKeys \in Nat
    /\ MinConn <= MaxConn           \* the code does not check it
    /\ IsFiniteSet(Conns) /\ Cardinality(Conns) >= MinConn
    /\ None \notin Conns /\ None \notin Threads /\ None \notin Nat
    /\ Threads \cap Nat = {}
    /\ Kinds \subseteq {"threaded", "persistent"}

Keys == 1 .. MaxKeys \cup Threads

VARIABLES
    kind,       \* the class of the pool
    pool,       \* _pool, a list used as a stack
    used,       \* _used: key -> connection, None where there is no entry
    rused,      \* _rused: connection -> key, None where there is no entry
    keys,       \* _keys, the last key made by _getkey
    closed,     \* the pool's closed
    link,       \* connection -> what is left of its session, see Links
    busy,       \* the connections that are in a transaction, failed or not
    held        \* thread -> the connections it got and has not given back

book == <<pool, used, rused, closed>>
sessions == <<link, busy>>
vars == <<kind, keys, book, sessions, held>>

(* "none": not made yet; "up": in session; "down": the server has ended the  *)
(* session and the client does not know; "unknown": the client knows, its    *)
(* transaction status is UNKNOWN; "closed": conn.closed is not 0.            *)
Links == {"none", "up", "down", "unknown", "closed"}

InPool(c) == \E i \in 1 .. Len(pool) : pool[i] = c

UsedKeys == {k \in Keys : used[k] # None}

-----------------------------------------------------------------------------
(* __init__: minconn connections, all in the pool.                           *)
Init ==
    /\ kind \in Kinds
    /\ pool \in {s \in [1 .. MinConn -> Conns] :
                    \A i, j \in 1 .. MinConn : s[i] = s[j] => i = j}
    /\ used = [k \in Keys |-> None]
    /\ rused = [c \in Conns |-> None]
    /\ keys = 0
    /\ closed = FALSE
    /\ link = [c \in Conns |-> IF InPool(c) THEN "up" ELSE "none"]
    /\ busy = {}
    /\ held = [t \in Threads |-> {}]

-----------------------------------------------------------------------------
(* The key of a call: a new one, or the ident of the thread.                 *)
GetKey(t, k) ==
    \/ kind = "threaded" /\ keys < MaxKeys /\ k = keys + 1 /\ keys' = k
    \/ kind = "persistent" /\ k = t /\ UNCHANGED keys

Lend(t, k, c) ==
    /\ used' = [used EXCEPT ![k] = c]
    /\ rused' = [rused EXCEPT ![c] = k]
    /\ held' = [held EXCEPT ![t] = @ \cup {c}]

(* What a bug would do: the entry of the key is returned without a test.     *)
GetUntested(t, k) ==
    /\ held' = [held EXCEPT ![t] = @ \cup {used[k]}]
    /\ UNCHANGED <<book, sessions>>

(* The key has a connection already.                                         *)
GetAgain(t, k) ==
    /\ used[k] # None
    /\ held' = [held EXCEPT ![t] = @ \cup {used[k]}]
    /\ UNCHANGED <<book, sessions>>

(* What a bug would do: the connection stays in the pool; or the key may have*)
(* a connection already.                                                     *)
GetLast(t, k) ==
    /\ used[k] = None
    /\ pool # <<>>
    /\ Lend(t, k, pool[Len(pool)])
    /\ UNCHANGED <<pool, closed, sessions>>

GetAnother(t, k) ==
    /\ pool # <<>>
    /\ pool' = SubSeq(pool, 1, Len(pool) - 1)
    /\ Lend(t, k, pool[Len(pool)])
    /\ UNCHANGED <<closed, sessions>>

GetFromPool(t, k) ==
    /\ used[k] = None
    /\ pool # <<>>
    /\ pool' = SubSeq(pool, 1, Len(pool) - 1)
    /\ Lend(t, k, pool[Len(pool)])
    /\ UNCHANGED <<closed, sessions>>

(* What a bug would do: one connection more.                                 *)
ExhaustedLate == Cardinality(UsedKeys) > MaxConn

Exhausted == Cardinality(UsedKeys) = MaxConn

(* _connect with a key.                                                      *)
GetNew(t, k) ==
    /\ used[k] = None
    /\ pool = <<>>
    /\ ~ Exhausted
    /\ \E c \in Conns :
        /\ link[c] = "none"
        /\ link' = [link EXCEPT ![c] = "up"]
        /\ Lend(t, k, c)
    /\ UNCHANGED <<pool, closed, busy>>

(* PoolError "connection pool exhausted", or the error of psycopg2.connect.  *)
GetRaises(k) ==
    /\ used[k] = None
    /\ pool = <<>>
    /\ UNCHANGED <<book, sessions, held>>

GetConn(t) ==
    /\ ~ closed
    /\ \E k \in Keys :
        /\ GetKey(t, k)
        /\ \/ GetAgain(t, k)
           \/ GetFromPool(t, k)
           \/ GetNew(t, k)
           \/ GetRaises(k)
    /\ UNCHANGED kind

-----------------------------------------------------------------------------
(* The key that putconn uses.                                                *)
KeyOf(t, c) == IF kind = "threaded" THEN rused[c] ELSE t

(* What a bug would do: the entry of the key stays.                          *)
ForgetConn(t, c) ==
    /\ rused' = [rused EXCEPT ![c] = None]
    /\ held' = [held EXCEPT ![t] = @ \ {c}]
    /\ UNCHANGED used

Forget(t, c) ==
    /\ used' = [used EXCEPT ![KeyOf(t, c)] = None]
    /\ rused' = [rused EXCEPT ![c] = None]
    /\ held' = [held EXCEPT ![t] = @ \ {c}]

Keeps(close) == Len(pool) < MinConn /\ ~ close

Closed(c) == link' = [link EXCEPT ![c] = "closed"]

(* What a bug would do: the transaction is not rolled back.                  *)
PutAsIs(t, c, close) ==
    /\ Keeps(close)
    /\ link[c] \in {"up", "down"}
    /\ pool' = Append(pool, c)
    /\ Forget(t, c)
    /\ UNCHANGED sessions

(* An idle connection, or one whose transaction is rolled back.              *)
PutInPool(t, c, close) ==
    /\ Keeps(close)
    /\ link[c] = "up" \/ (link[c] = "down" /\ c \notin busy)
    /\ pool' = Append(pool, c)
    /\ busy' = busy \ {c}
    /\ Forget(t, c)
    /\ UNCHANGED link

(* The rollback raises: the connection stays under its key.                  *)
PutRaises(c, close) ==
    /\ Keeps(close)
    /\ link[c] = "down" /\ c \in busy
    /\ busy' = busy \ {c}
    /\ Closed(c)
    /\ UNCHANGED <<pool, used, rused, held>>

(* Closed already, lost, not wanted, or one too many.                        *)
PutAway(t, c, close) ==
    /\ Keeps(close) => link[c] \in {"unknown", "closed"}
    /\ Closed(c)
    /\ busy' = busy \ {c}
    /\ Forget(t, c)
    /\ UNCHANGED pool

PutConn(t) ==
    /\ ~ closed
    /\ \E c \in held[t], close \in BOOLEAN :
        \/ PutInPool(t, c, close)
        \/ PutRaises(c, close)
        \/ PutAway(t, c, close)
    /\ UNCHANGED <<kind, keys, closed>>

-----------------------------------------------------------------------------
(* What a bug would do: only the connections in the pool are closed.         *)
ClosePooled ==
    /\ ~ closed
    /\ closed' = TRUE
    /\ link' = [c \in Conns |-> IF InPool(c) THEN "closed" ELSE link[c]]
    /\ busy' = {c \in busy : link'[c] # "closed"}
    /\ UNCHANGED <<kind, keys, pool, used, rused, held>>

(* closeall closes every connection, those in use included, and leaves the   *)
(* lists as they are.                                                        *)
CloseAll ==
    /\ ~ closed
    /\ closed' = TRUE
    /\ link' = [c \in Conns |->
                  IF InPool(c) \/ \E k \in Keys : used[k] = c
                  THEN "closed" ELSE link[c]]
    /\ busy' = {c \in busy : link'[c] # "closed"}
    /\ UNCHANGED <<kind, keys, pool, used, rused, held>>

(* PoolError "connection pool is closed", from any method.                   *)
Refused == closed /\ UNCHANGED vars

-----------------------------------------------------------------------------
(* A thread executes a statement: a transaction begins.  It fails on a       *)
(* session that is gone; the client may or may not close the connection.     *)
Execute(t) ==
    /\ \E c \in held[t] :
        \/ link[c] = "up" /\ busy' = busy \cup {c} /\ UNCHANGED link
        \/ /\ link[c] = "down"
           /\ busy' = busy \ {c}
           /\ \E l \in {"unknown", "closed"} : link' = [link EXCEPT ![c] = l]
    /\ UNCHANGED <<kind, keys, book, held>>

(* A thread commits or rolls back.                                           *)
Finish(t) ==
    /\ \E c \in held[t] : link[c] = "up" /\ busy' = busy \ {c}
    /\ UNCHANGED <<kind, keys, book, link, held>>

(* The server ends a session.                                                *)
Lose ==
    /\ \E c \in Conns : link[c] = "up" /\ link' = [link EXCEPT ![c] = "down"]
    /\ UNCHANGED <<kind, keys, book, busy, held>>

(* A thread of a persistent pool ends; its ident is free for another.        *)
Exit(t) ==
    /\ kind = "persistent"
    /\ held' = [held EXCEPT ![t] = {}]
    /\ UNCHANGED <<kind, keys, book, sessions>>

Next ==
    \/ \E t \in Threads :
        GetConn(t) \/ PutConn(t) \/ Execute(t) \/ Finish(t) \/ Exit(t)
    \/ CloseAll
    \/ Refused
    \/ Lose

Spec == Init /\ [][Next]_vars
=============================================================================
