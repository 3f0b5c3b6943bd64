----------------------------- MODULE PoolProofs -----------------------------
(***************************************************************************)
(* The connection pool, for any number of threads and connections and any  *)
(* minconn <= maxconn: no connection is lent twice, none is forgotten,     *)
(* what is in the pool is clean, no place is lost, and maxconn is kept.    *)
(***************************************************************************)
EXTENDS PoolCorrectness, FiniteSetTheorems, TLAPS

Bound(c) == rused[c] # None

\* _used and _rused are inverse to each other, and both know what is held.
Books ==
  /\ \A k \in Keys : used[k] # None => rused[used[k]] = k
  /\ \A c \in Conns : Bound(c) => used[rused[c]] = c
  /\ \A t \in Threads : \A c \in held[t] : Bound(c)
  /\ \A c \in Conns : InPool(c) => ~ Bound(c)

Distinct == \A i, j \in 1..Len(pool) : pool[i] = pool[j] => i = j

Apart == \A t \in Threads : \A u \in Threads : held[t] \cap held[u] # {} => t = u

\* Of what is open the lists know, and what is not made they do not.
Known ==
  \A c \in Conns :
    /\ link[c] \in {"up", "down", "unknown"} => ~ closed /\ (InPool(c) \/ Bound(c))
    /\ link[c] = "none" => ~ InPool(c) /\ ~ Bound(c)

\* The keys of a threaded pool are the ones made so far, each of a holder.
Made ==
  kind = "threaded" =>
    \A k \in Keys : used[k] # None =>
      k \in 1..keys /\ \E t \in Threads : used[k] \in held[t]

Inv ==
  /\ TypeOK /\ Books /\ Distinct /\ Apart /\ Known /\ Made
  /\ PooledClean /\ OwnConnection

LEMMA InitInv == Init => Inv
<1> SUFFICES ASSUME Init PROVE Inv
  OBVIOUS
<1> USE PoolAssumption
<1>1. PICK s \in [1..MinConn -> Conns] :
        pool = s /\ \A i, j \in 1..MinConn : s[i] = s[j] => i = j
  BY DEF Init
<1>2. /\ pool \in Seq(Conns) /\ Len(pool) = MinConn
      /\ \A c \in Conns : ~ Bound(c)
      /\ \A k \in Keys : used[k] = None
      /\ \A t \in Threads : held[t] = {}
      /\ \A c \in Conns : link[c] = IF InPool(c) THEN "up" ELSE "none"
      /\ busy = {} /\ closed = FALSE
  BY <1>1 DEF Init, Bound
<1>3. TypeOK
  <2>0. kind \in Kinds /\ keys = 0
    BY DEF Init
  <2>1. kind \in Kinds /\ keys \in 0..MaxKeys
    BY <2>0
  <2>4. closed \in BOOLEAN /\ busy \subseteq Conns
    BY <1>2
  <2>2. /\ used \in [Keys -> Conns \cup {None}] /\ rused \in [Conns -> Keys \cup {None}]
        /\ held \in [Threads -> SUBSET Conns]
    BY DEF Init
  <2>3. link \in [Conns -> Links]
    BY DEF Init, Links
  <2> QED BY <1>2, <2>1, <2>2, <2>3, <2>4 DEF TypeOK
<1>4. Distinct
  BY <1>1, <1>2 DEF Distinct
<1> QED
  BY <1>2, <1>3, <1>4
  DEF Inv, Books, Apart, Known, Made, PooledClean, OwnConnection

-----------------------------------------------------------------------------
\* What popping and appending do to the pool.
LEMMA Popped ==
  ASSUME pool \in Seq(Conns), Distinct, pool # <<>>,
         pool' = SubSeq(pool, 1, Len(pool) - 1)
  PROVE  /\ pool' \in Seq(Conns) /\ Distinct'
         /\ InPool(pool[Len(pool)]) /\ pool[Len(pool)] \in Conns
         /\ \A c : InPool(c)' <=> InPool(c) /\ c # pool[Len(pool)]
<1> DEFINE n == Len(pool)
<1>1. n \in Nat \ {0} /\ \A i \in 1..n : pool[i] \in Conns
  OBVIOUS
<1>2. PICK m : m = n
  OBVIOUS
<1>3. pool' \in Seq(Conns) /\ Len(pool') = m - 1 /\ \A i \in 1..(m - 1) : pool'[i] = pool[i]
  BY <1>1, <1>2
<1>4. Distinct'
  BY <1>1, <1>2, <1>3 DEF Distinct
<1>5. ASSUME NEW c PROVE InPool(c)' <=> InPool(c) /\ c # pool[n]
  <2>1. InPool(c)' <=> \E i \in 1..(m - 1) : pool[i] = c
    BY <1>3 DEF InPool
  <2>2. 1..m = 1..(m - 1) \cup {m} /\ m \notin 1..(m - 1)
    BY <1>1, <1>2
  <2> QED BY <1>2, <2>1, <2>2 DEF InPool, Distinct
<1>6. n \in 1..n /\ pool[n] \in Conns
  BY <1>1
<1> QED BY <1>3, <1>4, <1>5, <1>6 DEF InPool

LEMMA Appended ==
  ASSUME pool \in Seq(Conns), Distinct, NEW c \in Conns, ~ InPool(c),
         pool' = Append(pool, c)
  PROVE  /\ pool' \in Seq(Conns) /\ Distinct'
         /\ \A d : InPool(d)' <=> InPool(d) \/ d = c
<1>1. PICK m \in Nat : m = Len(pool)
  OBVIOUS
<1>2. /\ pool' \in Seq(Conns) /\ Len(pool') = m + 1 /\ pool'[m + 1] = c
      /\ \A i \in 1..m : pool'[i] = pool[i]
  BY <1>1
<1>3. 1..(m + 1) = 1..m \cup {m + 1}
  BY <1>1
<1>4. \A d : InPool(d)' <=> InPool(d) \/ d = c
  BY <1>1, <1>2, <1>3 DEF InPool
<1>5. Distinct'
  BY <1>1, <1>2, <1>3 DEF InPool, Distinct
<1> QED BY <1>2, <1>4, <1>5

-----------------------------------------------------------------------------
\* A connection that is free gets a key that is free.
LEMMA LendInv ==
  ASSUME Inv, NEW t \in Threads, NEW k \in Keys, NEW c \in Conns,
         GetKey(t, k), UNCHANGED kind, Lend(t, k, c),
         used[k] = None, ~ Bound(c)
  PROVE  /\ used' \in [Keys -> Conns \cup {None}]
         /\ rused' \in [Conns -> Keys \cup {None}]
         /\ held' \in [Threads -> SUBSET Conns]
         /\ keys' \in 0..MaxKeys
         /\ \A d \in Conns : Bound(d)' <=> Bound(d) \/ d = c
         /\ \A x \in Keys : used'[x] # None => rused'[used'[x]] = x
         /\ \A d \in Conns : Bound(d)' => used'[rused'[d]] = d
         /\ \A u \in Threads : \A d \in held'[u] : Bound(d)'
         /\ Apart' /\ Made' /\ OwnConnection'
<1> USE PoolAssumption
<1>1. /\ used \in [Keys -> Conns \cup {None}] /\ rused \in [Conns -> Keys \cup {None}]
      /\ held \in [Threads -> SUBSET Conns] /\ keys \in 0..MaxKeys
      /\ None \notin Conns /\ None \notin Keys
  BY DEF Inv, TypeOK, Keys
<1>2. /\ used' = [used EXCEPT ![k] = c] /\ rused' = [rused EXCEPT ![c] = k]
      /\ held' = [held EXCEPT ![t] = @ \cup {c}]
  BY DEF Lend
<1>3. /\ used' \in [Keys -> Conns \cup {None}] /\ rused' \in [Conns -> Keys \cup {None}]
      /\ held' \in [Threads -> SUBSET Conns]
  BY <1>1, <1>2
<1>4. \A d \in Conns : Bound(d)' <=> Bound(d) \/ d = c
  BY <1>1, <1>2 DEF Bound
<1>5. \A x \in Keys : used'[x] # None => rused'[used'[x]] = x
  BY <1>1, <1>2 DEF Inv, Books, Bound
<1>6. \A d \in Conns : Bound(d)' => used'[rused'[d]] = d
  BY <1>1, <1>2 DEF Inv, Books, Bound
<1>7. /\ held'[t] = held[t] \cup {c}
      /\ \A u \in Threads : u # t => held'[u] = held[u]
  BY <1>1, <1>2
<1>8. \A u \in Threads : held[u] \subseteq Conns /\ c \notin held[u]
  BY <1>1 DEF Inv, Books
<1>9. \A u \in Threads : \A d \in held'[u] : Bound(d)'
  BY <1>4, <1>7, <1>8 DEF Inv, Books
<1>10. Apart'
  <2> SUFFICES ASSUME NEW u \in Threads, NEW v \in Threads, NEW d \in held'[u] \cap held'[v]
               PROVE  u = v
    BY DEF Apart
  <2>1. CASE d = c
    BY <1>7, <1>8, <2>1
  <2>2. CASE d # c
    BY <1>7, <2>2 DEF Inv, Apart
  <2> QED BY <2>1, <2>2
<1>11. keys' \in 0..MaxKeys /\ (kind = "threaded" => k = keys' /\ keys' = keys + 1)
  BY <1>1 DEF GetKey
<1>12. Made'
  <2> SUFFICES ASSUME kind = "threaded", NEW x \in Keys, used'[x] # None
               PROVE  x \in 1..keys' /\ \E u \in Threads : used'[x] \in held'[u]
    BY DEF Made
  <2>1. CASE x = k
    BY <1>1, <1>2, <1>7, <1>11, <2>1
  <2>2. CASE x # k
    <3>1. used'[x] = used[x] /\ used[x] # None
      BY <1>1, <1>2, <2>2
    <3>2. x \in 1..keys /\ \E u \in Threads : used[x] \in held[u]
      BY <3>1 DEF Inv, Made
    <3> QED BY <1>1, <1>7, <1>11, <3>1, <3>2
  <2> QED BY <2>1, <2>2
<1>13. OwnConnection'
  <2> SUFFICES ASSUME kind = "persistent", NEW u \in Threads PROVE held'[u] \subseteq {used'[u]}
    BY DEF OwnConnection
  <2>1. k = t /\ held[u] \subseteq {used[u]} /\ u \in Keys
    BY DEF GetKey, Inv, OwnConnection, Keys
  <2>2. CASE u = t
    BY <1>1, <1>2, <1>7, <2>1, <2>2
  <2>3. CASE u # t
    BY <1>1, <1>2, <1>7, <2>1, <2>3
  <2> QED BY <2>2, <2>3
<1> QED BY <1>3, <1>4, <1>5, <1>6, <1>9, <1>10, <1>11, <1>12, <1>13

LEMMA GetAgainInv ==
  ASSUME Inv, NEW t \in Threads, NEW k \in Keys, GetKey(t, k), UNCHANGED kind, GetAgain(t, k)
  PROVE  Inv'
<1> USE PoolAssumption
<1>1. /\ kind = "persistent" /\ k = t /\ keys' = keys /\ used[t] \in Conns
  <2>1. used[k] \in Conns
    BY DEF Inv, TypeOK, GetAgain
  <2>2. CASE kind = "threaded"
    BY <2>2 DEF GetKey, GetAgain, Inv, Made, TypeOK
  <2> QED BY <2>1, <2>2 DEF GetKey
<1>2. /\ UNCHANGED <<kind, pool, used, rused, closed, link, busy>>
      /\ held' = [held EXCEPT ![t] = @ \cup {used[t]}]
  BY <1>1 DEF GetAgain, book, sessions
<1>3. /\ held \in [Threads -> SUBSET Conns] /\ held' \in [Threads -> SUBSET Conns]
      /\ held'[t] = held[t] \cup {used[t]}
      /\ \A u \in Threads : u # t => held'[u] = held[u]
  BY <1>1, <1>2 DEF Inv, TypeOK
<1>4. TypeOK'
  BY <1>1, <1>2, <1>3 DEF Inv, TypeOK
<1>5. rused[used[t]] = t /\ t # None /\ t \in Keys
  BY <1>1 DEF Inv, Books, Keys
<1>6. Books'
  BY <1>1, <1>2, <1>3, <1>5 DEF Inv, Books, Bound, InPool
<1>7. OwnConnection'
  BY <1>1, <1>2, <1>3 DEF Inv, OwnConnection
<1>8. Apart'
  <2> SUFFICES ASSUME NEW u \in Threads, NEW v \in Threads, NEW d \in held'[u] \cap held'[v]
               PROVE  u = v
    BY DEF Apart
  <2>1. \A w \in Threads : held'[w] \subseteq {used[w]}
    BY <1>1, <1>2, <1>7 DEF OwnConnection
  <2>2. d = used[u] /\ d = used[v]
    BY <2>1
  <2>3. u \in Keys /\ v \in Keys
    BY DEF Keys
  <2>4. held'[u] \subseteq Conns
    BY <1>3
  <2>5. d # None
    BY <2>4
  <2> QED BY <2>2, <2>3, <2>5 DEF Inv, Books
<1>9. Distinct' /\ Known' /\ PooledClean' /\ Made'
  BY <1>1, <1>2 DEF Inv, Distinct, Known, PooledClean, Made, InPool, Bound
<1> QED BY <1>4, <1>6, <1>7, <1>8, <1>9 DEF Inv

LEMMA GetFromPoolInv ==
  ASSUME Inv, NEW t \in Threads, NEW k \in Keys, GetKey(t, k), UNCHANGED kind,
         GetFromPool(t, k)
  PROVE  Inv'
<1>1. PICK c : c = pool[Len(pool)]
  OBVIOUS
<1>2. /\ pool # <<>> /\ pool' = SubSeq(pool, 1, Len(pool) - 1) /\ Lend(t, k, c)
      /\ used[k] = None /\ UNCHANGED <<closed, link, busy>>
  BY <1>1 DEF GetFromPool, sessions
<1>3. pool \in Seq(Conns) /\ Distinct
  BY DEF Inv, TypeOK
<1>4. /\ pool' \in Seq(Conns) /\ Distinct' /\ InPool(c) /\ c \in Conns
      /\ \A d : InPool(d)' <=> InPool(d) /\ d # c
  BY <1>1, <1>2, <1>3, Popped
<1>5. ~ Bound(c)
  BY <1>4 DEF Inv, Books
<1>6. /\ used' \in [Keys -> Conns \cup {None}] /\ rused' \in [Conns -> Keys \cup {None}]
      /\ held' \in [Threads -> SUBSET Conns] /\ keys' \in 0..MaxKeys
      /\ \A d \in Conns : Bound(d)' <=> Bound(d) \/ d = c
      /\ \A x \in Keys : used'[x] # None => rused'[used'[x]] = x
      /\ \A d \in Conns : Bound(d)' => used'[rused'[d]] = d
      /\ \A u \in Threads : \A d \in held'[u] : Bound(d)'
      /\ Apart' /\ Made' /\ OwnConnection'
  BY <1>2, <1>4, <1>5, LendInv
<1>7. TypeOK'
  BY <1>2, <1>4, <1>6 DEF Inv, TypeOK
<1>8. Books'
  BY <1>4, <1>6 DEF Inv, Books
<1>9. Known'
  BY <1>2, <1>4, <1>6 DEF Inv, Known
<1>10. PooledClean'
  BY <1>2, <1>4 DEF Inv, PooledClean
<1> QED BY <1>4, <1>6, <1>7, <1>8, <1>9, <1>10 DEF Inv

LEMMA GetNewInv ==
  ASSUME Inv, ~ closed, NEW t \in Threads, NEW k \in Keys, GetKey(t, k), UNCHANGED kind,
         GetNew(t, k)
  PROVE  Inv'
<1>1. PICK c \in Conns :
        link[c] = "none" /\ link' = [link EXCEPT ![c] = "up"] /\ Lend(t, k, c)
  BY DEF GetNew
<1>2. used[k] = None /\ UNCHANGED <<pool, closed, busy>>
  BY DEF GetNew
<1>3. ~ Bound(c) /\ ~ InPool(c) /\ \A d : InPool(d)' <=> InPool(d)
  BY <1>1, <1>2 DEF Inv, Known, InPool
<1>4. /\ used' \in [Keys -> Conns \cup {None}] /\ rused' \in [Conns -> Keys \cup {None}]
      /\ held' \in [Threads -> SUBSET Conns] /\ keys' \in 0..MaxKeys
      /\ \A d \in Conns : Bound(d)' <=> Bound(d) \/ d = c
      /\ \A x \in Keys : used'[x] # None => rused'[used'[x]] = x
      /\ \A d \in Conns : Bound(d)' => used'[rused'[d]] = d
      /\ \A u \in Threads : \A d \in held'[u] : Bound(d)'
      /\ Apart' /\ Made' /\ OwnConnection'
  BY <1>1, <1>2, <1>3, LendInv
<1>5. /\ link' \in [Conns -> Links] /\ link'[c] = "up"
      /\ \A d \in Conns : d # c => link'[d] = link[d]
  BY <1>1 DEF Inv, TypeOK, Links
<1>6. TypeOK'
  BY <1>2, <1>4, <1>5 DEF Inv, TypeOK
<1>7. Books' /\ Distinct'
  BY <1>2, <1>3, <1>4 DEF Inv, Books, Distinct
<1>8. Known'
  BY <1>2, <1>3, <1>4, <1>5 DEF Inv, Known
<1>9. PooledClean'
  BY <1>2, <1>3, <1>5 DEF Inv, PooledClean
<1> QED BY <1>4, <1>6, <1>7, <1>8, <1>9 DEF Inv

LEMMA GetConnInv == ASSUME Inv, NEW t \in Threads, GetConn(t) PROVE Inv'
<1>1. ~ closed /\ UNCHANGED kind
  BY DEF GetConn
<1>2. PICK k \in Keys :
        /\ GetKey(t, k)
        /\ GetAgain(t, k) \/ GetFromPool(t, k) \/ GetNew(t, k) \/ GetRaises(k)
  BY DEF GetConn
<1>3. CASE GetRaises(k)
  <2>1. UNCHANGED <<kind, pool, used, rused, closed, link, busy, held>>
    BY <1>1, <1>3 DEF GetRaises, book, sessions
  <2>2. keys' \in 0..MaxKeys /\ keys <= keys' /\ keys \in Nat
    BY <1>2, PoolAssumption DEF GetKey, Inv, TypeOK
  <2>3. TypeOK'
    BY <2>1, <2>2 DEF Inv, TypeOK
  <2>4. Made'
    BY <2>1, <2>2, PoolAssumption DEF Inv, Made, TypeOK
  <2> QED
    BY <2>1, <2>3, <2>4
    DEF Inv, Books, Distinct, Apart, Known, PooledClean, OwnConnection, InPool, Bound
<1> QED BY <1>1, <1>2, <1>3, GetAgainInv, GetFromPoolInv, GetNewInv

-----------------------------------------------------------------------------
\* The key of what a thread holds.
LEMMA KeyOfHeld ==
  ASSUME Inv, NEW t \in Threads, NEW c \in held[t]
  PROVE  /\ c \in Conns /\ KeyOf(t, c) = rused[c] /\ KeyOf(t, c) \in Keys
         /\ used[KeyOf(t, c)] = c /\ Bound(c)
<1> USE PoolAssumption
<1>1. c \in Conns /\ Bound(c) /\ rused[c] \in Keys /\ used[rused[c]] = c
  BY DEF Inv, TypeOK, Books, Bound
<1>2. CASE kind = "threaded"
  BY <1>1, <1>2 DEF KeyOf
<1>3. CASE kind # "threaded"
  <2>1. kind = "persistent"
    BY <1>3 DEF Inv, TypeOK
  <2>2. used[t] = c /\ t \in Keys
    BY <2>1 DEF Inv, OwnConnection, Keys
  <2>3. rused[c] = t
    BY <1>1, <2>2 DEF Inv, Books
  <2> QED BY <1>1, <1>3, <2>2, <2>3 DEF KeyOf
<1> QED BY <1>2, <1>3

LEMMA ForgetInv ==
  ASSUME Inv, NEW t \in Threads, NEW c \in held[t], Forget(t, c), UNCHANGED <<kind, keys>>
  PROVE  /\ used' \in [Keys -> Conns \cup {None}]
         /\ rused' \in [Conns -> Keys \cup {None}]
         /\ held' \in [Threads -> SUBSET Conns]
         /\ \A d \in Conns : Bound(d)' <=> Bound(d) /\ d # c
         /\ \A x \in Keys : used'[x] # None => rused'[used'[x]] = x
         /\ \A d \in Conns : Bound(d)' => used'[rused'[d]] = d
         /\ \A u \in Threads : \A d \in held'[u] : Bound(d)'
         /\ Apart' /\ Made' /\ OwnConnection'
<1> USE PoolAssumption
<1>1. PICK k \in Keys : k = KeyOf(t, c) /\ k = rused[c] /\ used[k] = c
  BY KeyOfHeld
<1>2. /\ used' = [used EXCEPT ![k] = None] /\ rused' = [rused EXCEPT ![c] = None]
      /\ held' = [held EXCEPT ![t] = @ \ {c}]
  BY <1>1 DEF Forget
<1>3. /\ used \in [Keys -> Conns \cup {None}] /\ rused \in [Conns -> Keys \cup {None}]
      /\ held \in [Threads -> SUBSET Conns] /\ c \in Conns
      /\ None \notin Conns /\ None \notin Keys
  BY DEF Inv, TypeOK, Keys
<1>4. /\ used' \in [Keys -> Conns \cup {None}] /\ rused' \in [Conns -> Keys \cup {None}]
      /\ held' \in [Threads -> SUBSET Conns]
  BY <1>2, <1>3
<1>5. /\ \A x \in Keys : used'[x] = IF x = k THEN None ELSE used[x]
      /\ \A d \in Conns : rused'[d] = IF d = c THEN None ELSE rused[d]
      /\ held'[t] = held[t] \ {c} /\ \A u \in Threads : u # t => held'[u] = held[u]
  BY <1>2, <1>3
<1>6. \A d \in Conns : Bound(d)' <=> Bound(d) /\ d # c
  BY <1>5 DEF Bound
<1>7. ASSUME NEW x \in Keys, used'[x] # None PROVE rused'[used'[x]] = x
  <2>1. x # k /\ used'[x] = used[x] /\ used[x] \in Conns /\ rused[used[x]] = x
    BY <1>3, <1>5, <1>7 DEF Inv, Books
  <2> QED BY <1>1, <1>5, <2>1
<1>8. ASSUME NEW d \in Conns, Bound(d)' PROVE used'[rused'[d]] = d
  <2>1. d # c /\ rused'[d] = rused[d] /\ rused[d] \in Keys /\ used[rused[d]] = d
    BY <1>3, <1>5, <1>6, <1>8 DEF Inv, Books, Bound
  <2> QED BY <1>1, <1>5, <2>1
<1>9. \A u \in Threads : held'[u] \subseteq held[u] /\ c \notin held'[u]
  BY <1>5 DEF Inv, Apart
<1>10. \A u \in Threads : \A d \in held'[u] : Bound(d)'
  BY <1>3, <1>6, <1>9 DEF Inv, Books
<1>11. Apart'
  BY <1>9 DEF Inv, Apart
<1>12. Made'
  <2> SUFFICES ASSUME kind = "threaded", NEW x \in Keys, used'[x] # None
               PROVE  x \in 1..keys /\ \E u \in Threads : used'[x] \in held'[u]
    BY DEF Made
  <2>1. x # k /\ used'[x] = used[x] /\ used[x] # None
    BY <1>5
  <2>2. x \in 1..keys /\ \E u \in Threads : used[x] \in held[u]
    BY <2>1 DEF Inv, Made
  <2>3. used[x] # c
    BY <1>1, <2>1 DEF Inv, Books
  <2> QED BY <1>5, <2>1, <2>2, <2>3
<1>13. OwnConnection'
  <2> SUFFICES ASSUME kind = "persistent", NEW u \in Threads PROVE held'[u] \subseteq {used'[u]}
    BY DEF OwnConnection
  <2>1. held[u] \subseteq {used[u]} /\ u \in Keys
    BY DEF Inv, OwnConnection, Keys
  <2>2. CASE u = k
    BY <1>1, <1>9, <2>1, <2>2
  <2>3. CASE u # k
    BY <1>5, <1>9, <2>1, <2>3
  <2> QED BY <2>2, <2>3
<1> QED BY <1>4, <1>6, <1>7, <1>8, <1>10, <1>11, <1>12, <1>13

LEMMA PutConnInv == ASSUME Inv, NEW t \in Threads, PutConn(t) PROVE Inv'
<1>1. PICK c \in held[t], close \in BOOLEAN :
        PutInPool(t, c, close) \/ PutRaises(c, close) \/ PutAway(t, c, close)
  BY DEF PutConn
<1>2. ~ closed /\ UNCHANGED <<kind, keys, closed>>
  BY DEF PutConn
<1>3. c \in Conns /\ Bound(c) /\ ~ InPool(c)
  BY KeyOfHeld DEF Inv, Books
<1>4. CASE PutInPool(t, c, close)
  <2>1. /\ pool' = Append(pool, c) /\ busy' = busy \ {c} /\ Forget(t, c) /\ link' = link
        /\ link[c] \in {"up", "down"}
    BY <1>4 DEF PutInPool
  <2>2. pool \in Seq(Conns) /\ Distinct
    BY DEF Inv, TypeOK
  <2>3. /\ pool' \in Seq(Conns) /\ Distinct'
        /\ \A d : InPool(d)' <=> InPool(d) \/ d = c
    BY <1>3, <2>1, <2>2, Appended
  <2>4. /\ used' \in [Keys -> Conns \cup {None}] /\ rused' \in [Conns -> Keys \cup {None}]
        /\ held' \in [Threads -> SUBSET Conns]
        /\ \A d \in Conns : Bound(d)' <=> Bound(d) /\ d # c
        /\ \A x \in Keys : used'[x] # None => rused'[used'[x]] = x
        /\ \A d \in Conns : Bound(d)' => used'[rused'[d]] = d
        /\ \A u \in Threads : \A d \in held'[u] : Bound(d)'
        /\ Apart' /\ Made' /\ OwnConnection'
    BY <1>2, <2>1, ForgetInv
  <2>5. TypeOK'
    BY <1>2, <2>1, <2>3, <2>4 DEF Inv, TypeOK
  <2>6. Books' /\ Known'
    BY <1>2, <1>3, <2>1, <2>3, <2>4 DEF Inv, Books, Known
  <2>7. PooledClean'
    BY <1>2, <2>1, <2>3 DEF Inv, PooledClean
  <2> QED BY <2>3, <2>4, <2>5, <2>6, <2>7 DEF Inv
<1>5. CASE PutRaises(c, close)
  <2>1. /\ busy' = busy \ {c} /\ link' = [link EXCEPT ![c] = "closed"]
        /\ UNCHANGED <<pool, used, rused, held>>
    BY <1>5 DEF PutRaises, Closed
  <2>2. /\ link' \in [Conns -> Links] /\ link'[c] = "closed"
        /\ \A d \in Conns : d # c => link'[d] = link[d]
    BY <2>1 DEF Inv, TypeOK, Links
  <2>3. TypeOK'
    BY <1>2, <2>1, <2>2 DEF Inv, TypeOK
  <2>4. Known' /\ PooledClean'
    BY <1>2, <1>3, <2>1, <2>2 DEF Inv, Known, PooledClean, InPool, Bound
  <2> QED
    BY <1>2, <2>1, <2>3, <2>4
    DEF Inv, Books, Distinct, Apart, Made, OwnConnection, InPool, Bound
<1>6. CASE PutAway(t, c, close)
  <2>1. /\ busy' = busy \ {c} /\ link' = [link EXCEPT ![c] = "closed"]
        /\ Forget(t, c) /\ pool' = pool
    BY <1>6 DEF PutAway, Closed
  <2>2. /\ link' \in [Conns -> Links] /\ link'[c] = "closed"
        /\ \A d \in Conns : d # c => link'[d] = link[d]
    BY <2>1 DEF Inv, TypeOK, Links
  <2>3. \A d : InPool(d)' <=> InPool(d)
    BY <2>1 DEF InPool
  <2>4. /\ used' \in [Keys -> Conns \cup {None}] /\ rused' \in [Conns -> Keys \cup {None}]
        /\ held' \in [Threads -> SUBSET Conns]
        /\ \A d \in Conns : Bound(d)' <=> Bound(d) /\ d # c
        /\ \A x \in Keys : used'[x] # None => rused'[used'[x]] = x
        /\ \A d \in Conns : Bound(d)' => used'[rused'[d]] = d
        /\ \A u \in Threads : \A d \in held'[u] : Bound(d)'
        /\ Apart' /\ Made' /\ OwnConnection'
    BY <1>2, <2>1, ForgetInv
  <2>5. TypeOK' /\ Distinct'
    BY <1>2, <2>1, <2>2, <2>4 DEF Inv, TypeOK, Distinct
  <2>6. Books'
    BY <2>3, <2>4 DEF Inv, Books
  <2>7. Known' /\ PooledClean'
    BY <1>2, <1>3, <2>1, <2>2, <2>3, <2>4 DEF Inv, Known, PooledClean
  <2> QED BY <2>4, <2>5, <2>6, <2>7 DEF Inv
<1> QED BY <1>1, <1>4, <1>5, <1>6

LEMMA CloseAllInv == ASSUME Inv, CloseAll PROVE Inv'
<1>1. /\ UNCHANGED <<kind, keys, pool, used, rused, held>> /\ closed' = TRUE
      /\ \A c : (InPool(c)' <=> InPool(c)) /\ (Bound(c)' <=> Bound(c))
  BY DEF CloseAll, InPool, Bound
<1>2. /\ link' = [c \in Conns |->
                   IF InPool(c) \/ \E k \in Keys : used[k] = c THEN "closed" ELSE link[c]]
      /\ busy' \subseteq busy
  BY DEF CloseAll
<1>3. \A c \in Conns : link'[c] = IF InPool(c) \/ \E k \in Keys : used[k] = c
                                  THEN "closed" ELSE link[c]
  BY <1>2
<1>4. link' \in [Conns -> Links]
  BY <1>2 DEF Inv, TypeOK, Links
<1>5. TypeOK'
  BY <1>1, <1>2, <1>4 DEF Inv, TypeOK
<1>6. ASSUME NEW c \in Conns, Bound(c) PROVE \E k \in Keys : used[k] = c
  <2>1. rused[c] \in Keys /\ used[rused[c]] = c
    BY <1>6 DEF Inv, TypeOK, Books, Bound
  <2> QED BY <2>1
<1>7. Known'
  BY <1>1, <1>3, <1>6 DEF Inv, Known
<1>8. PooledClean'
  BY <1>1 DEF PooledClean
<1> QED
  BY <1>1, <1>5, <1>7, <1>8
  DEF Inv, Books, Distinct, Apart, Made, OwnConnection, InPool, Bound

\* What happens to a session between two calls.
LEMMA SessionInv ==
  ASSUME Inv, UNCHANGED <<kind, keys, pool, used, rused, closed, held>>,
         NEW c \in Conns, NEW l \in Links, link' = [link EXCEPT ![c] = l],
         busy' \subseteq busy \cup {c}, InPool(c) => l \in {"up", "down"} /\ c \notin busy',
         l # "none", l \notin {"closed"} => link[c] \in {"up", "down", "unknown"}
  PROVE  Inv'
<1>1. /\ link' \in [Conns -> Links] /\ link'[c] = l
      /\ \A d \in Conns : d # c => link'[d] = link[d]
  BY DEF Inv, TypeOK
<1>2. TypeOK'
  BY <1>1 DEF Inv, TypeOK
<1>3. Known' /\ PooledClean'
  BY <1>1 DEF Inv, Known, PooledClean, InPool, Bound, Links
<1> QED
  BY <1>2, <1>3 DEF Inv, Books, Distinct, Apart, Made, OwnConnection, InPool, Bound

LEMMA ExecuteInv == ASSUME Inv, NEW t \in Threads, Execute(t) PROVE Inv'
<1>1. PICK c \in held[t] :
        \/ link[c] = "up" /\ busy' = busy \cup {c} /\ UNCHANGED link
        \/ /\ link[c] = "down" /\ busy' = busy \ {c}
           /\ \E l \in {"unknown", "closed"} : link' = [link EXCEPT ![c] = l]
  BY DEF Execute
<1>2. UNCHANGED <<kind, keys, pool, used, rused, closed, held>>
  BY DEF Execute, book
<1>3. c \in Conns /\ ~ InPool(c)
  BY KeyOfHeld DEF Inv, Books
<1>4. link = [link EXCEPT ![c] = link[c]] /\ link[c] \in Links
  BY <1>3 DEF Inv, TypeOK
<1>5. CASE link[c] = "up" /\ busy' = busy \cup {c} /\ UNCHANGED link
  BY <1>2, <1>3, <1>4, <1>5, SessionInv
<1>6. ASSUME link[c] = "down", busy' = busy \ {c}, NEW l \in {"unknown", "closed"},
             link' = [link EXCEPT ![c] = l]
      PROVE  Inv'
  <2>1. l \in Links /\ busy' \subseteq busy \cup {c} /\ l # "none"
    BY <1>6 DEF Links
  <2> QED BY <1>2, <1>3, <1>6, <2>1, SessionInv
<1> QED BY <1>1, <1>5, <1>6

LEMMA FinishInv == ASSUME Inv, NEW t \in Threads, Finish(t) PROVE Inv'
<1>1. PICK c \in held[t] : link[c] = "up" /\ busy' = busy \ {c}
  BY DEF Finish
<1>2. UNCHANGED <<kind, keys, pool, used, rused, closed, link, held>>
  BY DEF Finish, book
<1>3. c \in Conns /\ link = [link EXCEPT ![c] = link[c]] /\ link[c] \in Links
  BY DEF Inv, TypeOK
<1> QED BY <1>1, <1>2, <1>3, SessionInv

LEMMA LoseInv == ASSUME Inv, Lose PROVE Inv'
<1>1. PICK c \in Conns : link[c] = "up" /\ link' = [link EXCEPT ![c] = "down"]
  BY DEF Lose
<1>2. UNCHANGED <<kind, keys, pool, used, rused, closed, busy, held>>
  BY DEF Lose, book
<1>3. ~ closed
  BY <1>1 DEF Inv, Known
<1>4. InPool(c) => c \notin busy
  BY <1>3 DEF Inv, PooledClean
<1> QED BY <1>1, <1>2, <1>4, SessionInv DEF Links

LEMMA ExitInv == ASSUME Inv, NEW t \in Threads, Exit(t) PROVE Inv'
<1>1. kind = "persistent" /\ held' = [held EXCEPT ![t] = {}]
  BY DEF Exit
<1>2. UNCHANGED <<kind, keys, pool, used, rused, closed, link, busy>>
  BY DEF Exit, book, sessions
<1>3. /\ held' \in [Threads -> SUBSET Conns]
      /\ \A u \in Threads : held'[u] \subseteq held[u]
  BY <1>1 DEF Inv, TypeOK
<1>4. TypeOK'
  BY <1>2, <1>3 DEF Inv, TypeOK
<1>5. Made'
  BY <1>1, <1>2 DEF Made
<1>6. Books' /\ Apart' /\ OwnConnection'
  BY <1>2, <1>3 DEF Inv, Books, Apart, OwnConnection, InPool, Bound
<1> QED
  BY <1>2, <1>4, <1>5, <1>6 DEF Inv, Distinct, Known, PooledClean, InPool, Bound

LEMMA StepInv == Inv /\ [Next]_vars => Inv'
<1> SUFFICES ASSUME Inv, [Next]_vars PROVE Inv'
  OBVIOUS
<1>1. CASE UNCHANGED vars
  BY <1>1
  DEF vars, book, sessions, Inv, TypeOK, Books, Distinct, Apart, Known, Made,
      PooledClean, OwnConnection, InPool, Bound
<1>2. CASE Refused
  BY <1>1, <1>2 DEF Refused
<1> QED
  BY <1>1, <1>2, GetConnInv, PutConnInv, CloseAllInv, ExecuteInv, FinishInv, LoseInv, ExitInv
  DEF Next

LEMMA Invariant == Spec => []Inv
<1> QED BY InitInv, StepInv, PTL DEF Spec

-----------------------------------------------------------------------------
(***************************************************************************)
(* The lists, maps and states of the connection pool have their types.     *)
(***************************************************************************)
THEOREM PoolTypeCorrect == Spec => []TypeOK
<1>1. Inv => TypeOK
  BY DEF Inv
<1> QED BY <1>1, Invariant, PTL

(***************************************************************************)
(* A connection is lent to one thread at a time and is not in the pool     *)
(* meanwhile (_getconn, _putconn).                                         *)
(***************************************************************************)
THEOREM PoolLendsOnce == Spec => []LentOnce
<1>1. Inv => LentOnce
  BY DEF Inv, TypeOK, Books, Distinct, Apart, LentOnce
<1> QED BY <1>1, Invariant, PTL

(***************************************************************************)
(* In a persistent pool a thread has the connection under its ident        *)
(* (PersistentConnectionPool).                                             *)
(***************************************************************************)
THEOREM PoolOwnConnection == Spec => []OwnConnection
<1>1. Inv => OwnConnection
  BY DEF Inv
<1> QED BY <1>1, Invariant, PTL

(***************************************************************************)
(* Every open session is in the pool or under a key, so that closeall      *)
(* leaves none open (_putconn, _closeall).                                 *)
(***************************************************************************)
THEOREM PoolLeaksNothing == Spec => []NothingLeaks
<1>1. Inv => NothingLeaks
  <2> SUFFICES ASSUME Inv, NEW c \in Conns, link[c] \in {"up", "down", "unknown"}
               PROVE  ~ closed /\ (InPool(c) \/ \E k \in Keys : used[k] = c)
    BY DEF NothingLeaks
  <2>1. ~ closed /\ (InPool(c) \/ Bound(c))
    BY DEF Inv, Known
  <2>2. Bound(c) => rused[c] \in Keys /\ used[rused[c]] = c
    BY DEF Inv, TypeOK, Books, Bound
  <2> QED BY <2>1, <2>2
<1> QED BY <1>1, Invariant, PTL

(***************************************************************************)
(* What the pool can lend is open and in no transaction (_putconn).        *)
(***************************************************************************)
THEOREM PoolIsClean == Spec => []PooledClean
<1>1. Inv => PooledClean
  BY DEF Inv
<1> QED BY <1>1, Invariant, PTL

(***************************************************************************)
(* The places of a threaded pool are those of the connections that its     *)
(* threads hold: a place comes back with its connection (_putconn).        *)
(***************************************************************************)
THEOREM PoolPlacesComeBack == Spec => []PlacesComeBack
<1>1. Inv => PlacesComeBack
  <2> SUFFICES ASSUME Inv, kind = "threaded" PROVE PlacesComeBack
    BY DEF PlacesComeBack
  <2>1. ASSUME NEW t \in Threads, NEW c \in held[t]
        PROVE  rused[c] \in Keys /\ used[rused[c]] = c /\ used[rused[c]] # None
    BY KeyOfHeld, PoolAssumption DEF Bound, KeyOf
  <2>2. UNION {held[t] : t \in Threads} \subseteq {used[k] : k \in UsedKeys}
    BY <2>1 DEF UsedKeys
  <2>3. {used[k] : k \in UsedKeys} \subseteq UNION {held[t] : t \in Threads}
    BY DEF UsedKeys, Inv, Made
  <2> QED BY <2>1, <2>2, <2>3 DEF PlacesComeBack
<1> QED BY <1>1, Invariant, PTL

-----------------------------------------------------------------------------
\* The connections that the lists know; every open one is among them.
Kept == {c \in Conns : InPool(c) \/ Bound(c)}

Limit == Cardinality(Kept) <= MaxConn

LEMMA KeptFinite == IsFiniteSet(Kept) /\ Cardinality(Kept) \in Nat
<1>1. Kept \in SUBSET Conns
  BY DEF Kept
<1>2. IsFiniteSet(Kept)
  BY <1>1, PoolAssumption, FS_Subset
<1> QED BY <1>2, FS_CardinalityType

\* There are as many keys in use as connections that have a key.
LEMMA KeysOfKept ==
  ASSUME Inv, pool = <<>>
  PROVE  Cardinality(UsedKeys) = Cardinality(Kept)
<1> USE PoolAssumption
<1>1. Kept = {c \in Conns : Bound(c)}
  BY DEF Kept, InPool
<1> DEFINE f == [c \in Kept |-> rused[c]]
<1>2. \A c \in Kept : rused[c] \in UsedKeys /\ used[rused[c]] = c
  <2> SUFFICES ASSUME NEW c \in Kept PROVE rused[c] \in UsedKeys /\ used[rused[c]] = c
    OBVIOUS
  <2>1. c \in Conns /\ rused[c] \in Keys /\ used[rused[c]] = c
    BY <1>1 DEF Inv, TypeOK, Books, Bound
  <2> QED BY <2>1 DEF UsedKeys
<1>3. \A k \in UsedKeys : used[k] \in Kept /\ rused[used[k]] = k
  <2> SUFFICES ASSUME NEW k \in UsedKeys PROVE used[k] \in Kept /\ rused[used[k]] = k
    OBVIOUS
  <2>1. k \in Keys /\ used[k] \in Conns /\ rused[used[k]] = k
    BY DEF UsedKeys, Inv, TypeOK, Books
  <2>2. k # None
    BY <2>1 DEF Keys
  <2> QED BY <1>1, <2>1, <2>2 DEF Bound
<1>4. f \in Injection(Kept, UsedKeys)
  BY <1>2 DEF Injection, IsInjective
<1>5. f \in Surjection(Kept, UsedKeys)
  BY <1>2, <1>3 DEF Surjection
<1>6. ExistsBijection(Kept, UsedKeys)
  BY <1>4, <1>5 DEF ExistsBijection, Bijection
<1> QED BY <1>6, KeptFinite, FS_Bijection

LEMMA LimitInit == Init => Limit
<1> SUFFICES ASSUME Init PROVE Limit
  OBVIOUS
<1> USE PoolAssumption
<1>1. PICK s \in [1..MinConn -> Conns] : pool = s
  BY DEF Init
<1>2. Len(pool) = MinConn /\ \A c \in Conns : ~ Bound(c)
  BY <1>1 DEF Init, Bound
<1>3. Kept = {c \in Conns : \E i \in 1..MinConn : s[i] = c}
  BY <1>1, <1>2 DEF Kept, InPool
<1>4. s \in Surjection(1..MinConn, Kept)
  BY <1>3 DEF Surjection
<1>5. IsFiniteSet(1..MinConn) /\ Cardinality(1..MinConn) = MinConn
  BY FS_Interval
<1>6. Cardinality(Kept) <= MinConn
  BY <1>4, <1>5, FS_Surjection
<1> QED BY <1>6, KeptFinite DEF Limit

LEMMA LimitFewer == ASSUME Limit, Kept' \subseteq Kept PROVE Limit'
<1>1. Cardinality(Kept') <= Cardinality(Kept) /\ Cardinality(Kept') \in Nat
  BY KeptFinite, FS_Subset, FS_CardinalityType
<1> QED BY <1>1, KeptFinite, PoolAssumption DEF Limit

LEMMA LimitGet == ASSUME Inv, Limit, NEW t \in Threads, GetConn(t) PROVE Limit'
<1>1. PICK k \in Keys :
        /\ GetKey(t, k)
        /\ GetAgain(t, k) \/ GetFromPool(t, k) \/ GetNew(t, k) \/ GetRaises(k)
  BY DEF GetConn
<1>2. CASE UNCHANGED <<pool, rused>>
  BY <1>2, LimitFewer DEF Kept, InPool, Bound
<1>3. CASE GetFromPool(t, k)
  <2>1. PICK c : c = pool[Len(pool)]
    OBVIOUS
  <2>2. /\ pool # <<>> /\ pool' = SubSeq(pool, 1, Len(pool) - 1)
        /\ rused' = [rused EXCEPT ![c] = k]
    BY <1>3, <2>1 DEF GetFromPool, Lend
  <2>3. pool \in Seq(Conns) /\ Distinct /\ rused \in [Conns -> Keys \cup {None}]
    BY DEF Inv, TypeOK
  <2>4. InPool(c) /\ \A d : InPool(d)' <=> InPool(d) /\ d # c
    BY <2>1, <2>2, <2>3, Popped
  <2>5. \A d \in Conns : d # c => rused'[d] = rused[d]
    BY <2>2, <2>3
  <2>6. Kept' \subseteq Kept
    BY <2>4, <2>5 DEF Kept, Bound
  <2> QED BY <2>6, LimitFewer
<1>4. CASE GetNew(t, k)
  <2>1. PICK c \in Conns : rused' = [rused EXCEPT ![c] = k]
    BY <1>4 DEF GetNew, Lend
  <2>2. pool = <<>> /\ pool' = pool /\ Cardinality(UsedKeys) # MaxConn
    BY <1>4 DEF GetNew, Exhausted
  <2>3. Cardinality(Kept) # MaxConn
    BY <2>2, KeysOfKept
  <2>4. \A d \in Conns : d # c => rused'[d] = rused[d]
    BY <2>1 DEF Inv, TypeOK
  <2>5. Kept' \subseteq Kept \cup {c}
    BY <2>2, <2>4 DEF Kept, InPool, Bound
  <2>6. /\ IsFiniteSet(Kept \cup {c}) /\ Cardinality(Kept \cup {c}) \in Nat
        /\ Cardinality(Kept \cup {c}) <= Cardinality(Kept) + 1
    <3>1. /\ IsFiniteSet(Kept \cup {c})
          /\ Cardinality(Kept \cup {c}) = IF c \in Kept THEN Cardinality(Kept)
                                          ELSE Cardinality(Kept) + 1
      BY KeptFinite, FS_AddElement
    <3>2. Cardinality(Kept \cup {c}) \in Nat
      BY <3>1, FS_CardinalityType
    <3> QED BY <3>1, <3>2, KeptFinite
  <2>7. Cardinality(Kept') <= Cardinality(Kept \cup {c}) /\ Cardinality(Kept') \in Nat
    BY <2>5, <2>6, FS_Subset, FS_CardinalityType
  <2> QED BY <2>3, <2>6, <2>7, KeptFinite, PoolAssumption DEF Limit
<1> QED BY <1>1, <1>2, <1>3, <1>4 DEF GetAgain, GetRaises, book

LEMMA LimitPut == ASSUME Inv, Limit, NEW t \in Threads, PutConn(t) PROVE Limit'
<1>1. PICK c \in held[t], close \in BOOLEAN :
        PutInPool(t, c, close) \/ PutRaises(c, close) \/ PutAway(t, c, close)
  BY DEF PutConn
<1>2. /\ c \in Conns /\ Bound(c) /\ ~ InPool(c)
      /\ pool \in Seq(Conns) /\ Distinct /\ rused \in [Conns -> Keys \cup {None}]
  BY KeyOfHeld DEF Inv, Books, TypeOK
<1>3. CASE PutInPool(t, c, close)
  <2>1. pool' = Append(pool, c) /\ rused' = [rused EXCEPT ![c] = None]
    BY <1>3 DEF PutInPool, Forget
  <2>2. \A d : InPool(d)' <=> InPool(d) \/ d = c
    BY <1>2, <2>1, Appended
  <2>3. \A d \in Conns : d # c => rused'[d] = rused[d]
    BY <1>2, <2>1
  <2>4. Kept' \subseteq Kept
    BY <1>2, <2>2, <2>3 DEF Kept, Bound
  <2> QED BY <2>4, LimitFewer
<1>4. CASE PutAway(t, c, close)
  <2>1. pool' = pool /\ rused' = [rused EXCEPT ![c] = None]
    BY <1>4 DEF PutAway, Forget
  <2>2. \A d \in Conns : d # c => rused'[d] = rused[d]
    BY <1>2, <2>1
  <2>3. Kept' \subseteq Kept
    BY <1>2, <2>1, <2>2 DEF Kept, InPool, Bound
  <2> QED BY <2>3, LimitFewer
<1>5. CASE PutRaises(c, close)
  BY <1>5, LimitFewer DEF PutRaises, Kept, InPool, Bound
<1> QED BY <1>1, <1>3, <1>4, <1>5

LEMMA LimitStep == Inv /\ Limit /\ [Next]_vars => Limit'
<1> SUFFICES ASSUME Inv, Limit, [Next]_vars PROVE Limit'
  OBVIOUS
<1>1. CASE UNCHANGED <<pool, rused>>
  BY <1>1, LimitFewer DEF Kept, InPool, Bound
<1> QED
  BY <1>1, LimitGet, LimitPut
  DEF Next, vars, book, CloseAll, Refused, Lose, Execute, Finish, Exit

(***************************************************************************)
(* The pool never has more than maxconn sessions, if minconn <= maxconn    *)
(* (_getconn, whose limit counts only the connections in use).             *)
(***************************************************************************)
THEOREM PoolWithinLimit == Spec => []WithinLimit
<1>1. Inv /\ Limit => WithinLimit
  <2> SUFFICES ASSUME Inv, Limit PROVE WithinLimit
    OBVIOUS
  <2> DEFINE Open == {c \in Conns : link[c] \notin {"none", "closed"}}
  <2>1. Open \subseteq Kept
    BY DEF Inv, TypeOK, Known, Links, Kept
  <2>2. Cardinality(Open) <= Cardinality(Kept) /\ Cardinality(Open) \in Nat
    BY <2>1, KeptFinite, FS_Subset, FS_CardinalityType
  <2> QED BY <2>2, KeptFinite, PoolAssumption DEF Limit, WithinLimit
<1> QED BY <1>1, Invariant, LimitInit, LimitStep, PTL DEF Spec
=============================================================================
