-------------------------- MODULE PoolCorrectness --------------------------
(* What the threads that share a connection pool rely on.                    *)
EXTENDS ConnectionPool

TypeOK ==
    /\ kind \in Kinds
    /\ pool \in Seq(Conns)
    /\ used \in [Keys -> Conns \cup {None}]
    /\ rused \in [Conns -> Keys \cup {None}]
    /\ keys \in 0 .. MaxKeys
    /\ closed \in BOOLEAN
    /\ link \in [Conns -> Links]
    /\ busy \subseteq Conns
    /\ held \in [Threads -> SUBSET Conns]

(* A connection is in one place: two threads never hold the same one, no     *)
(* thread holds one that the pool could lend, and the pool does not have one *)
(* twice (_getconn, _putconn).                                               *)
LentOnce ==
    /\ \A t \in Threads, u \in Threads : held[t] \cap held[u] # {} => t = u
    /\ \A t \in Threads : \A c \in held[t] : ~ InPool(c)
    /\ \A i, j \in 1 .. Len(pool) : pool[i] = pool[j] => i = j

(* No session is forgotten: a connection that is still open is in the pool   *)
(* or under a key, where closeall finds it, and after closeall none is open. *)
NothingLeaks ==
    \A c \in Conns :
        link[c] \in {"up", "down", "unknown"} =>
            ~ closed /\ (InPool(c) \/ \E k \in Keys : used[k] = c)

(* The sessions never exceed maxconn, though the limit is tested only when   *)
(* the pool is empty and only against the connections in use (_getconn).     *)
WithinLimit ==
    Cardinality({c \in Conns : link[c] \notin {"none", "closed"}}) <= MaxConn

(* What the pool can lend is open and outside any transaction, in whatever   *)
(* state the connection was given back (_putconn).                           *)
PooledClean ==
    \A c \in Conns : InPool(c) /\ ~ closed => link[c] \in {"up", "down"} /\ c \notin busy

(* In a threaded pool the connections under a key are those the threads      *)
(* hold: none of the maxconn places is lost by a putconn, one that raises    *)
(* can be repeated, and no connection in use has lost its key.               *)
PlacesComeBack ==
    kind = "threaded" =>
        /\ {used[k] : k \in UsedKeys} = UNION {held[t] : t \in Threads}
        /\ \A t \in Threads : \A c \in held[t] :
                rused[c] \in Keys /\ used[rused[c]] = c

(* In a persistent pool a thread holds at most one connection, the one under *)
(* its ident: until it gives it back, it gets the same one.                  *)
OwnConnection ==
    kind = "persistent" => \A t \in Threads : held[t] \subseteq {used[t]}
=============================================================================
