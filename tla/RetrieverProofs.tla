--------------------------- MODULE RetrieverProofs ---------------------------
(***************************************************************************)
(* The retriever copies no publication twice and misses none, whatever the *)
(* length of a minute, an hour and a day: the first as long as the calls   *)
(* between the reading of the minute and the request take less time than   *)
(* passes from the start of a minute to the publication in it; the second  *)
(* as long as, besides, a round falls into the end of every minute.        *)
(***************************************************************************)
EXTENDS Retriever, FiniteSetTheorems, TLAPS

-----------------------------------------------------------------------------
(***************************************************************************)
(* Division.                                                               *)
(***************************************************************************)
LEMMA Product ==
  ASSUME NEW a \in Int, NEW b \in Int, NEW k \in Nat \ {0}, a <= b
  PROVE  a * k <= b * k
OBVIOUS

LEMMA Quotient ==
  ASSUME NEW n \in Int, NEW k \in Nat \ {0}
  PROVE  /\ n \div k \in Int /\ n % k \in 0..(k - 1)
         /\ n = (n \div k) * k + (n % k)
OBVIOUS

\* The quotient is the only one.
LEMMA QuotientIs ==
  ASSUME NEW n \in Int, NEW k \in Nat \ {0}, NEW q \in Int, q * k <= n, n < (q + 1) * k
  PROVE  n \div k = q
<1> PICK e \in Int, r \in 0..(k - 1) : e = n \div k /\ n = e * k + r
  BY Quotient
<1>1. CASE e < q
  <2>1. (e + 1) * k <= q * k
    BY <1>1, Product
  <2> QED BY <2>1
<1>2. CASE q < e
  <2>1. (q + 1) * k <= e * k
    BY <1>2, Product
  <2> QED BY <2>1
<1> QED BY <1>1, <1>2

-----------------------------------------------------------------------------
(***************************************************************************)
(* The inductive invariant.                                                *)
(***************************************************************************)
Asking == {"date", "time"}

\* The publications copied so far; a failed download leaves an empty copy.
Contents == {copy.content : copy \in bucket} \ {Empty}

\* A copy is of a publication that has been made, and the script knows a copy of
\* the current minute by old_minute.
Kept ==
  \A p \in Contents :
    /\ p \in Nat /\ p * Minute + Published <= now
    /\ pc \in {"minute", "sleep"} /\ now < (p + 1) * Minute => old_minute = p % Hour

\* The round that has read minute in the r-th minute: it goes on only if nothing
\* of that minute has been copied, and asks for the file before the next publication.
Round(r) ==
  /\ minute = r % Hour /\ r * Minute <= now
  /\ pc \in {"second"} \cup Asking \/ (pc = "wget" /\ tmpfile = None) => now < (r + 1) * Minute + lag
  /\ pc = "second" => \A p \in Contents : p <= r /\ (p = r => old_minute = minute)
  /\ pc # "second" => r * Minute + Published <= now /\ \A p \in Contents : p < r
  /\ pc = "wget" => tmpfile \in {None, r}
  /\ pc = "cp" => tmpfile \in {r, Empty}

OnceInv ==
  /\ now \in Nat /\ lag \in 0..Lag
  /\ pc \in {"minute", "second", "wget", "cp", "sleep"} \cup Asking
  /\ Kept
  /\ pc \notin {"minute", "sleep"} => \E r \in 0..now : Round(r)
  /\ CopiedOnce

\* What a step leaves alone when the bucket and old_minute stay.
LEMMA KeptLater ==
  ASSUME OnceInv, UNCHANGED <<bucket, old_minute>>, now' \in Nat, now' >= now,
         pc' \in {"minute", "sleep"} => pc \in {"minute", "sleep"}
  PROVE  Kept' /\ CopiedOnce' /\ Contents' = Contents
<1> USE RetrieverAssumption
<1>1. Contents' = Contents
  BY DEF Contents
<1>2. CopiedOnce'
  BY DEF OnceInv, CopiedOnce
<1>3. ASSUME NEW p \in Contents
      PROVE  /\ p \in Nat /\ p * Minute + Published <= now'
             /\ pc' \in {"minute", "sleep"} /\ now' < (p + 1) * Minute => old_minute' = p % Hour
  <2>1. p \in Nat /\ p * Minute \in Nat /\ (p + 1) * Minute \in Nat
    BY <1>3 DEF OnceInv, Kept
  <2> QED BY <1>3, <2>1 DEF OnceInv, Kept
<1> QED BY <1>1, <1>2, <1>3 DEF Kept

\* Of two minutes the later one starts when the earlier one is over.
LEMMA Over ==
  ASSUME RetrieverAssumption, NEW p \in Nat, NEW r \in Nat, p < r, r * Minute <= now, now \in Nat
  PROVE  ~ (now < (p + 1) * Minute)
<1>1. (p + 1) * Minute <= r * Minute
  BY Product DEF RetrieverAssumption
<1> QED BY <1>1 DEF RetrieverAssumption

\* No two objects hold the same publication, whatever the length of the downloads:
\* the script asks once in a minute, after its publication, and so quickly after
\* reading the clock that the next publication is not there yet.
THEOREM CopiesOnce ==
  ASSUME Lag <= Published
  PROVE  Spec => []CopiedOnce
<1> USE RetrieverAssumption DEF Asking
<1>1. Init => OnceInv
  <2> SUFFICES ASSUME Init PROVE OnceInv
    OBVIOUS
  <2>1. now \in Nat
    <3>1. Minute * Day \in Nat
      OBVIOUS
    <3> QED BY <3>1 DEF Init
  <2>2. Contents = {} /\ CopiedOnce
    BY DEF Init, Contents, CopiedOnce
  <2> QED BY <2>1, <2>2 DEF Init, OnceInv, Kept
<1>2. OnceInv /\ [Next]_vars => OnceInv'
  <2> SUFFICES ASSUME OnceInv, [Next]_vars PROVE OnceInv'
    OBVIOUS
  <2>1. CASE Tick
    <3>1. /\ now' = now + 1 /\ now' \in Nat /\ lag' \in 0..Lag
          /\ UNCHANGED <<pc, minute, old_minute, tmpfile, bucket>>
          /\ lag' = IF pc \in {"minute", "second", "cp"} \cup Asking THEN lag + 1 ELSE lag
      BY <2>1 DEF Tick, OnceInv
    <3>2. Kept' /\ CopiedOnce' /\ Contents' = Contents
      BY <3>1, KeptLater DEF OnceInv
    <3>3. ASSUME NEW r \in 0..now, Round(r) PROVE Round(r)'
      <4>1. r * Minute \in Nat /\ (r + 1) * Minute \in Nat
        OBVIOUS
      <4>2. ~ (pc = "wget" /\ tmpfile = None)
        BY <2>1 DEF Tick
      <4>3. now' < (r + 1) * Minute + lag' \/ pc \notin {"second"} \cup Asking
        BY <3>1, <3>3, <4>1 DEF Round, OnceInv
      <4>4. r * Minute <= now' /\ (r * Minute + Published <= now => r * Minute + Published <= now')
        BY <3>1, <3>3, <4>1 DEF Round, OnceInv
      <4> QED BY <3>1, <3>2, <3>3, <4>2, <4>3, <4>4 DEF Round
    <3>4. pc' \notin {"minute", "sleep"} => \E r \in 0..now' : Round(r)'
      BY <3>1, <3>3 DEF OnceInv
    <3> QED BY <3>1, <3>2, <3>4 DEF OnceInv
  <2>2. CASE ReadMinute
    <3>1. /\ pc = "minute" /\ pc' = "second" /\ minute' = (now \div Minute) % Hour
          /\ UNCHANGED <<now, lag, old_minute, tmpfile, bucket>>
      BY <2>2 DEF ReadMinute, Then, Clock, MinuteOfHour
    <3>2. Kept' /\ CopiedOnce' /\ Contents' = Contents
      BY <3>1, KeptLater DEF OnceInv
    <3> PICK r \in Int, s \in 0..(Minute - 1) : r = now \div Minute /\ now = r * Minute + s
      BY Quotient DEF OnceInv
    <3>3. r \in Nat
      <4>1. CASE r < 0
        <5>1. (r + 1) * Minute <= 0 * Minute
          BY <4>1, Product
        <5> QED BY <5>1 DEF OnceInv
      <4> QED BY <4>1
    <3>4. r * Minute <= now /\ now < (r + 1) * Minute /\ r \in 0..now
      <4>1. r <= r * Minute
        BY <3>3
      <4> QED BY <3>3, <4>1 DEF OnceInv
    <3>5. ASSUME NEW p \in Contents PROVE p <= r /\ (p = r => old_minute = r % Hour)
      <4>1. p \in Nat /\ p * Minute <= now
        <5>1. p \in Nat /\ p * Minute + Published <= now /\ now \in Nat
          BY <3>5 DEF Kept, OnceInv
        <5> QED BY <5>1
      <4>2. CASE r < p
        <5>1. (r + 1) * Minute <= p * Minute
          BY <3>3, <4>1, <4>2, Product
        <5> QED BY <3>4, <4>1, <5>1 DEF OnceInv
      <4>3. CASE p = r
        BY <3>1, <3>4, <3>5, <4>3 DEF Kept, OnceInv
      <4> QED BY <3>3, <4>1, <4>2, <4>3
    <3>6. Round(r)'
      <4>1. now < (r + 1) * Minute + lag
        BY <3>3, <3>4 DEF OnceInv
      <4> QED BY <3>1, <3>2, <3>4, <3>5, <4>1 DEF Round
    <3> QED BY <3>1, <3>2, <3>4, <3>6 DEF OnceInv
  <2>3. CASE ReadSecond
    <3>1. /\ pc = "second" /\ UNCHANGED <<now, lag, minute, old_minute, tmpfile, bucket>>
          /\ pc' = IF Due(Second(now)) THEN "date" ELSE "sleep"
      BY <2>3 DEF ReadSecond, Then, Clock
    <3> PICK r \in 0..now : Round(r)
      BY <3>1 DEF OnceInv
    <3>2. r \in Nat /\ now \in Nat
      BY DEF OnceInv
    <3>3. Contents' = Contents /\ CopiedOnce'
      BY <3>1 DEF Contents, OnceInv, CopiedOnce
    <3>4. ASSUME NEW p \in Contents
          PROVE  /\ p \in Nat /\ p * Minute + Published <= now /\ p <= r
                 /\ now < (p + 1) * Minute => old_minute = p % Hour
      <4>1. p \in Nat /\ p * Minute + Published <= now
        BY <3>4 DEF Kept, OnceInv
      <4>2. p <= r /\ (p = r => old_minute = r % Hour)
        BY <3>1, <3>4 DEF Round
      <4>3. CASE p < r
        BY <3>2, <4>1, <4>3, Over DEF Round
      <4> QED BY <3>2, <4>1, <4>2, <4>3
    <3>5. Kept'
      BY <3>1, <3>3, <3>4 DEF Kept
    <3>6. ASSUME pc' = "date" PROVE Round(r)'
      <4> PICK q \in Int, s \in 0..(Minute - 1) : now = q * Minute + s /\ s = now % Minute
        <5>1. now \in Int /\ Minute \in Nat \ {0}
          BY <3>2
        <5>2. /\ now \div Minute \in Int /\ now % Minute \in 0..(Minute - 1)
              /\ now = (now \div Minute) * Minute + (now % Minute)
          BY <5>1, Quotient
        <5> QED BY <5>2
      <4>1. Ripe < s /\ minute # old_minute
        BY <3>1, <3>6 DEF Due, Second
      <4>2. r <= q
        <5>1. CASE q < r
          <6>1. (q + 1) * Minute <= r * Minute
            BY <3>2, <5>1, Product
          <6> QED BY <6>1 DEF Round
        <5> QED BY <5>1, <3>2
      <4>3. r * Minute <= q * Minute
        BY <3>2, <4>2, Product
      <4>4. r * Minute + Published <= now
        <5>1. r * Minute \in Int /\ q * Minute \in Int
          BY <3>2
        <5> QED BY <4>1, <4>3, <5>1
      <4>5. \A p \in Contents : p < r
        <5> SUFFICES ASSUME NEW p \in Contents PROVE p < r
          OBVIOUS
        <5>1. p \in Nat /\ p <= r
          BY <3>4
        <5>2. p # r
          BY <3>1, <4>1 DEF Round
        <5> QED BY <3>2, <5>1, <5>2
      <4> QED BY <3>1, <3>3, <3>6, <4>4, <4>5 DEF Round
    <3> QED BY <3>1, <3>3, <3>5, <3>6 DEF OnceInv
  <2>4. CASE ReadDate \/ ReadTime
    <3>1. /\ pc \in Asking /\ pc' \in {"time", "wget"} /\ UNCHANGED <<now, lag, minute, old_minute, bucket>>
          /\ pc' = "wget" => tmpfile' = None
      BY <2>4 DEF ReadDate, ReadTime, Then, Clock
    <3> PICK r \in 0..now : Round(r)
      BY <3>1 DEF OnceInv
    <3>2. Kept' /\ CopiedOnce' /\ Contents' = Contents
      BY <3>1, KeptLater DEF OnceInv
    <3>3. Round(r)'
      BY <3>1, <3>2 DEF Round
    <3> QED BY <3>1, <3>2, <3>3 DEF OnceInv
  <2>5. CASE Request
    <3>1. /\ pc = "wget" /\ tmpfile = None /\ tmpfile' = Source(now)
          /\ UNCHANGED <<now, pc, lag, minute, old_minute, bucket>>
      BY <2>5 DEF Request, Clock
    <3> PICK r \in 0..now : Round(r)
      BY <3>1 DEF OnceInv
    <3>2. Kept' /\ CopiedOnce' /\ Contents' = Contents
      BY <3>1, KeptLater DEF OnceInv
    <3>3. r \in Nat /\ now \in Nat /\ r * Minute \in Nat /\ (r + 1) * Minute \in Nat
      BY DEF OnceInv
    <3>4. r * Minute + Published <= now /\ now - Published < (r + 1) * Minute
      BY <3>1, <3>3 DEF Round, OnceInv
    <3>5. Source(now) = r
      <4>1. (now - Published) \div Minute = r
        BY <3>3, <3>4, QuotientIs
      <4> QED BY <3>3, <3>4, <4>1 DEF Source
    <3>6. Round(r)'
      BY <3>1, <3>2, <3>3, <3>5 DEF Round
    <3> QED BY <3>1, <3>2, <3>6 DEF OnceInv
  <2>6. CASE Downloaded
    <3>1. /\ pc = "wget" /\ pc' = "cp" /\ tmpfile # None /\ tmpfile' \in {tmpfile, Empty}
          /\ UNCHANGED <<now, lag, minute, old_minute, bucket>>
      BY <2>6 DEF Downloaded, Then, Clock
    <3> PICK r \in 0..now : Round(r)
      BY <3>1 DEF OnceInv
    <3>2. Kept' /\ CopiedOnce' /\ Contents' = Contents
      BY <3>1, KeptLater DEF OnceInv
    <3>3. Round(r)'
      BY <3>1, <3>2 DEF Round
    <3> QED BY <3>1, <3>2, <3>3 DEF OnceInv
  <2>7. CASE Copy
    <3>1. /\ pc = "cp" /\ pc' = "sleep" /\ old_minute' = minute /\ UNCHANGED <<now, lag, minute>>
          /\ bucket' \in {bucket, bucket \cup {[date |-> d, time |-> t, content |-> tmpfile]}}
      BY <2>7 DEF Copy, Then, Clock
    <3> PICK r \in 0..now : Round(r)
      BY <3>1 DEF OnceInv
    <3>2. /\ r \in Nat /\ now \in Nat /\ r * Minute + Published <= now /\ r * Minute <= now
          /\ minute = r % Hour /\ tmpfile \in {r, Empty} /\ \A p \in Contents : p < r
      BY <3>1 DEF Round, OnceInv
    <3>3. Contents' \subseteq Contents \cup {r}
      BY <3>1, <3>2 DEF Contents
    <3>4. ASSUME NEW p \in Contents'
          PROVE  /\ p \in Nat /\ p * Minute + Published <= now
                 /\ now < (p + 1) * Minute => minute = p % Hour
      <4>1. CASE p = r
        BY <3>2, <4>1
      <4>2. CASE p \in Contents
        <5>1. p \in Nat /\ p * Minute + Published <= now /\ p < r
          BY <3>2, <4>2 DEF Kept, OnceInv
        <5> QED BY <3>2, <5>1, Over
      <4> QED BY <3>3, <3>4, <4>1, <4>2
    <3>5. Kept'
      BY <3>1, <3>4 DEF Kept
    <3>6. CopiedOnce'
      <4>1. r \notin Contents
        BY <3>2
      <4>2. \A copy \in bucket : copy.content # Empty => copy.content # r
        BY <4>1 DEF Contents
      <4> QED BY <3>1, <3>2, <4>2 DEF CopiedOnce, OnceInv
    <3> QED BY <3>1, <3>5, <3>6 DEF OnceInv
  <2>8. CASE Wake
    <3>1. pc = "sleep" /\ pc' = "minute" /\ lag' = 0 /\ UNCHANGED <<now, minute, old_minute, tmpfile, bucket>>
      BY <2>8 DEF Wake, Then, Clock
    <3>2. Kept' /\ CopiedOnce' /\ Contents' = Contents
      BY <3>1, KeptLater DEF OnceInv
    <3> QED BY <3>1, <3>2 DEF OnceInv
  <2>9. CASE UNCHANGED vars
    <3>1. UNCHANGED <<now, pc, lag, minute, old_minute, tmpfile, bucket>>
      BY <2>9 DEF vars
    <3>2. Kept' /\ CopiedOnce' /\ Contents' = Contents
      BY <3>1, KeptLater DEF OnceInv
    <3>3. \A r : Round(r)' <=> Round(r)
      BY <3>1, <3>2 DEF Round
    <3> QED BY <3>1, <3>2, <3>3 DEF OnceInv
  <2> QED BY <2>1, <2>2, <2>3, <2>4, <2>5, <2>6, <2>7, <2>8, <2>9 DEF Next
<1>3. OnceInv => CopiedOnce
  BY DEF OnceInv
<1> QED BY <1>1, <1>2, <1>3, PTL DEF Spec

-----------------------------------------------------------------------------
(***************************************************************************)
(* No publication is missed.  The calls and the downloads are prompt if a  *)
(* round of the loop falls into the end of every minute, whatever the one  *)
(* before has done.                                                        *)
(***************************************************************************)
Prompt ==
  /\ Hour # 1 /\ Lag <= Published
  /\ Ripe + Nap + Lag < Minute
  /\ MaxDownload + Nap + 2 * Lag <= Minute

Starts(r) == r * Minute

\* The publications up to h that have not been copied, and will not be.
Lost(h) ==
  {p \in 0..h : /\ p * Minute + Published > began
                /\ ~(pc \in {"wget", "cp"} /\ tmpfile = p)
                /\ ~ \E copy \in bucket :
                       copy.content = p /\ copy.time \in {p % Day, (p + 1) % Day}}

\* The round has read the clock in the r-th minute.
Read(r) == r >= 0 /\ minute = r % Hour /\ Starts(r) <= now /\ now < Starts(r + 1) + lag

Named(r) == t \in {r % Day, (r + 1) % Day}

\* h is the last minute that the script has downloaded a file in, or the last one
\* with a publication before the script was started: the next round that counts
\* can only be in time for h + 1.
OnTime(h) ==
  /\ Starts(h) <= now
  /\ pc \in {"minute", "second", "sleep"} => old_minute \in {None, h % Hour}
  /\ pc \in {"minute", "second"} => now - lag < Starts(h + 2) - Lag
  /\ pc = "second" => \E r \in {h, h + 1} : Read(r)
  /\ pc = "sleep" => spent <= Nap /\ now - spent < Starts(h + 2) - Lag - Nap
  /\ pc \in Asking \/ (pc = "wget" /\ tmpfile = None) =>
       \E r \in {h, h + 1} :
         /\ Read(r) /\ Starts(r) + Published <= now
         /\ pc = "wget" => Named(r) /\ spent = 0
  /\ pc = "wget" /\ tmpfile # None =>
       /\ tmpfile = h /\ minute = h % Hour /\ Named(h)
       /\ spent <= MaxDownload /\ now - spent < Starts(h + 1) + lag
  /\ pc = "cp" =>
       /\ tmpfile \in {h, Empty} /\ minute = h % Hour /\ Named(h)
       /\ now < Starts(h + 1) + lag + MaxDownload

PromptTypes ==
  /\ now \in Nat /\ began \in Nat /\ lag \in 0..Lag /\ spent \in Nat /\ faults \in Nat
  /\ pc \in {"minute", "second", "wget", "cp", "sleep"} \cup Asking

PromptInv ==
  /\ PromptTypes
  /\ \E h \in Int : h >= -1 /\ OnTime(h) /\ Cardinality(Lost(h)) <= faults

LEMMA StartsIs ==
  ASSUME NEW r \in Int
  PROVE  /\ Starts(r) \in Int /\ Starts(r + 1) = Starts(r) + Minute
         /\ Starts(r + 2) = Starts(r) + 2 * Minute
BY RetrieverAssumption DEF Starts

LEMMA StartsOrder ==
  ASSUME NEW r \in Int, NEW s \in Int
  PROVE  /\ r <= s => Starts(r) <= Starts(s)
         /\ Starts(r) < Starts(s) => r < s
<1>1. ASSUME NEW a \in Int, NEW b \in Int, a <= b PROVE Starts(a) <= Starts(b)
  BY <1>1, Product, RetrieverAssumption DEF Starts
<1> QED BY <1>1, StartsIs

LEMMA InMinute ==
  ASSUME NEW n \in Int
  PROVE  \E r \in Int : /\ r = n \div Minute /\ n % Minute = n - Starts(r)
                        /\ Starts(r) <= n /\ n < Starts(r + 1)
<1> USE RetrieverAssumption
<1>1. /\ n \div Minute \in Int /\ n % Minute \in 0..(Minute - 1)
      /\ n = (n \div Minute) * Minute + (n % Minute)
  BY Quotient
<1> PICK r \in Int : r = n \div Minute
  BY <1>1
<1>2. n = Starts(r) + (n % Minute) /\ Starts(r) \in Int /\ Starts(r + 1) = Starts(r) + Minute
  BY <1>1, StartsIs DEF Starts
<1> QED BY <1>1, <1>2

\* Two minutes that follow one another have different names.
LEMMA NextMinute ==
  ASSUME Hour # 1, NEW r \in Int
  PROVE  (r + 1) % Hour # r % Hour
<1> USE RetrieverAssumption
<1> SUFFICES ASSUME (r + 1) % Hour = r % Hour PROVE FALSE
  OBVIOUS
<1> PICK a \in Int, b \in Int, k \in Int :
      r = a * Hour + k /\ r + 1 = b * Hour + k
  <2>1. r % Hour \in Int /\ r \div Hour \in Int /\ r = (r \div Hour) * Hour + (r % Hour)
    BY Quotient
  <2>2. (r + 1) \div Hour \in Int /\ r + 1 = ((r + 1) \div Hour) * Hour + ((r + 1) % Hour)
    BY Quotient
  <2> QED BY <2>1, <2>2
<1>1. b * Hour = a * Hour + 1
  OBVIOUS
<1>2. CASE b <= a
  BY <1>1, <1>2, Product
<1>3. CASE a + 1 <= b
  <2>1. (a + 1) * Hour <= b * Hour
    BY <1>3, Product
  <2> QED BY <1>1, <2>1
<1> QED BY <1>2, <1>3

-----------------------------------------------------------------------------
(***************************************************************************)
(* What is lost is paid for by a fault.                                    *)
(***************************************************************************)
LEMMA Counted ==
  ASSUME NEW h \in Int, NEW S \in SUBSET (0..h)
  PROVE  /\ IsFiniteSet(S) /\ Cardinality(S) \in Nat
         /\ \A T \in SUBSET S : Cardinality(T) <= Cardinality(S)
         /\ \A x : Cardinality(S \cup {x}) <= Cardinality(S) + 1
<1>1. IsFiniteSet(0..h)
  BY FS_Interval
<1>2. IsFiniteSet(S)
  BY <1>1, FS_Subset
<1>3. Cardinality(S) \in Nat
  BY <1>2, FS_CardinalityType
<1>4. \A T \in SUBSET S : Cardinality(T) <= Cardinality(S)
  BY <1>2, FS_Subset
<1>5. ASSUME NEW x PROVE Cardinality(S \cup {x}) <= Cardinality(S) + 1
  <2>1. CASE x \in S
    <3>1. S \cup {x} = S
      BY <2>1
    <3> QED BY <1>3, <3>1
  <2>2. CASE x \notin S
    BY <1>2, <1>3, <2>2, FS_AddElement
  <2> QED BY <2>1, <2>2
<1> QED BY <1>2, <1>3, <1>4, <1>5

\* Counting before and after a step.
LEMMA Fewer ==
  ASSUME NEW h \in Int, NEW k \in Int, NEW S \in SUBSET (0..h), NEW T \in SUBSET (0..k),
         NEW n \in Nat, Cardinality(S) <= n
  PROVE  /\ T \subseteq S => Cardinality(T) <= n
         /\ \A x : T \subseteq S \cup {x} => Cardinality(T) <= n + 1
<1>1. /\ Cardinality(T) \in Nat /\ Cardinality(S) \in Nat
      /\ \A x : Cardinality(S \cup {x}) <= Cardinality(S) + 1
  BY Counted
<1>2. T \subseteq S => Cardinality(T) <= Cardinality(S)
  BY Counted
<1>3. ASSUME NEW x, T \subseteq S \cup {x} PROVE Cardinality(T) <= n + 1
  <2>1. T \ {x} \in SUBSET S /\ T \ {x} \in SUBSET (0..k) /\ T \subseteq (T \ {x}) \cup {x}
    BY <1>3
  <2>2. Cardinality(T \ {x}) <= Cardinality(S) /\ Cardinality(T \ {x}) \in Nat
    BY <2>1, Counted
  <2>3. Cardinality((T \ {x}) \cup {x}) <= Cardinality(T \ {x}) + 1
    BY <2>1, Counted
  <2>4. Cardinality(T) <= Cardinality(T \cup {x})
    <3>1. IsFiniteSet(T \cup {x})
      <4>1. IsFiniteSet(T)
        BY Counted
      <4> QED BY <4>1, FS_AddElement
    <3> QED BY <3>1, FS_Subset
  <2>5. (T \ {x}) \cup {x} = T \cup {x} /\ Cardinality(T \cup {x}) \in Nat
    <3>1. IsFiniteSet(T)
      BY Counted
    <3> QED BY <3>1, FS_AddElement, FS_CardinalityType
  <2> QED BY <1>1, <2>2, <2>3, <2>4, <2>5
<1> QED BY <1>1, <1>2, <1>3

LEMMA LostStays ==
  ASSUME NEW h \in Int, NEW k \in Int, faults \in Nat, Cardinality(Lost(h)) <= faults,
         UNCHANGED <<began, bucket, faults>>,
         \A p \in 0..k : p \in 0..h \/ (pc' \in {"wget", "cp"} /\ tmpfile' = p),
         \A p \in 0..h : pc \in {"wget", "cp"} /\ tmpfile = p
                           => pc' \in {"wget", "cp"} /\ tmpfile' = p
  PROVE  (Cardinality(Lost(k)) <= faults)'
<1>1. Lost(h) \in SUBSET (0..h) /\ Lost(k)' \in SUBSET (0..k)
  BY DEF Lost
<1>2. Lost(k)' \subseteq Lost(h)
  BY DEF Lost
<1>3. Cardinality(Lost(k)') <= faults
  BY <1>1, <1>2, Fewer
<1> QED BY <1>3

-----------------------------------------------------------------------------
(***************************************************************************)
(* Every step is in time.                                                  *)
(***************************************************************************)
LEMMA TickOnTime ==
  ASSUME Prompt, PromptTypes, NEW h \in Int, h >= -1, OnTime(h), Cardinality(Lost(h)) <= faults,
         Tick
  PROVE  PromptInv'
<1> USE RetrieverAssumption DEF Asking
<1>1. /\ now' = now + 1 /\ spent' = spent + 1
      /\ UNCHANGED <<pc, minute, old_minute, d, t, tmpfile, bucket, faults, began>>
      /\ \/ pc = "sleep" /\ spent # Nap /\ lag' = lag
         \/ pc = "wget" /\ tmpfile # None /\ spent < MaxDownload /\ lag' = lag
         \/ pc \in {"minute", "second", "cp"} \cup Asking /\ lag < Lag /\ lag' = lag + 1
  BY DEF Tick, Slept, PromptTypes
<1>2. PromptTypes'
  BY <1>1 DEF PromptTypes
<1>3. (Cardinality(Lost(h)) <= faults)'
  BY <1>1, LostStays DEF PromptTypes
<1>4. \A r \in Int : Read(r) /\ lag' = lag + 1 => Read(r)'
  BY <1>1, StartsIs DEF Read, PromptTypes
<1>5. /\ Starts(h) \in Int /\ Starts(h + 1) = Starts(h) + Minute
      /\ Starts(h + 2) = Starts(h) + 2 * Minute
  BY StartsIs
<1>6. OnTime(h)'
  <2>1. CASE pc = "sleep"
    BY <1>1, <1>2, <1>5, <2>1 DEF OnTime, PromptTypes
  <2>2. CASE pc = "wget"
    BY <1>1, <1>2, <1>5, <2>2 DEF OnTime, PromptTypes, Named
  <2>3. CASE pc = "minute"
    BY <1>1, <1>2, <1>5, <2>3 DEF OnTime, PromptTypes
  <2>4. CASE pc = "second"
    BY <1>1, <1>2, <1>4, <1>5, <2>4 DEF OnTime, PromptTypes
  <2>5. CASE pc \in Asking
    <3>1. PICK r \in {h, h + 1} : Read(r) /\ Starts(r) + Published <= now
      BY <2>5 DEF OnTime
    <3>2. Starts(r) \in Int
      BY StartsIs
    <3>3. Read(r)' /\ Starts(r) + Published <= now'
      BY <1>1, <1>4, <2>5, <3>1, <3>2 DEF PromptTypes
    <3> QED BY <1>1, <1>2, <1>5, <2>5, <3>3 DEF OnTime, PromptTypes
  <2>6. CASE pc = "cp"
    BY <1>1, <1>2, <1>5, <2>6 DEF OnTime, PromptTypes, Named
  <2> QED BY <2>1, <2>2, <2>3, <2>4, <2>5, <2>6 DEF PromptTypes
<1> QED BY <1>2, <1>3, <1>6 DEF PromptInv

LEMMA ReadMinuteOnTime ==
  ASSUME Prompt, PromptTypes, NEW h \in Int, h >= -1, OnTime(h), Cardinality(Lost(h)) <= faults,
         ReadMinute
  PROVE  PromptInv'
<1> USE RetrieverAssumption DEF Asking
<1>1. /\ pc = "minute" /\ pc' = "second" /\ spent' = 0 /\ minute' = (now \div Minute) % Hour
      /\ UNCHANGED <<now, began, old_minute, d, t, tmpfile, bucket, lag, faults>>
  BY DEF ReadMinute, Then, Clock, MinuteOfHour
<1>2. PromptTypes'
  BY <1>1 DEF PromptTypes
<1>3. (Cardinality(Lost(h)) <= faults)'
  BY <1>1, LostStays DEF PromptTypes
<1>4. PICK r \in Int : r = now \div Minute /\ Starts(r) <= now /\ now < Starts(r + 1)
  <2>1. now \in Int
    BY DEF PromptTypes
  <2> QED BY <2>1, InMinute
<1>5. now < Starts(h + 2) /\ Starts(h) <= now
  <2>1. Starts(h) \in Int /\ Starts(h + 2) \in Int
    BY StartsIs
  <2>2. now - lag < Starts(h + 2) - Lag
    BY <1>1 DEF OnTime
  <2>3. Starts(h) <= now
    BY DEF OnTime
  <2> QED BY <2>1, <2>2, <2>3 DEF PromptTypes
<1>6. r \in {h, h + 1} /\ r >= 0
  <2>1. r < h + 2 /\ h < r + 1
    <3>1. /\ Starts(h) \in Int /\ Starts(h + 2) \in Int /\ Starts(r) \in Int
          /\ Starts(r + 1) \in Int
      BY StartsIs
    <3>2. Starts(r) < Starts(h + 2) /\ Starts(h) < Starts(r + 1)
      BY <1>4, <1>5, <3>1 DEF PromptTypes
    <3> QED BY <3>2, StartsOrder
  <2>2. 0 < r + 1
    <3>1. Starts(0) = 0
      BY DEF Starts
    <3>2. Starts(0) < Starts(r + 1)
      <4>1. Starts(r) \in Int /\ Starts(r + 1) \in Int
        BY StartsIs
      <4> QED BY <1>4, <3>1, <4>1 DEF PromptTypes
    <3> QED BY <3>2, StartsOrder
  <2> QED BY <2>1, <2>2
<1>7. Read(r)'
  BY <1>1, <1>4, <1>6, StartsIs DEF Read, PromptTypes
<1>8. OnTime(h)'
  BY <1>1, <1>6, <1>7 DEF OnTime
<1> QED BY <1>2, <1>3, <1>8 DEF PromptInv

\* A round that is not due has been early, or has seen the minute of the last one.
LEMMA ReadSecondOnTime ==
  ASSUME Prompt, PromptTypes, NEW h \in Int, h >= -1, OnTime(h), Cardinality(Lost(h)) <= faults,
         ReadSecond
  PROVE  PromptInv'
<1> USE RetrieverAssumption DEF Asking, Prompt
<1>1. /\ pc = "second" /\ pc' = (IF Ripe < now % Minute /\ minute # old_minute THEN "date" ELSE "sleep")
      /\ spent' = 0
      /\ UNCHANGED <<now, began, minute, old_minute, d, t, tmpfile, bucket, lag, faults>>
  BY DEF ReadSecond, Then, Clock, Due, Second
<1>2. PromptTypes'
  BY <1>1 DEF PromptTypes
<1>3. (Cardinality(Lost(h)) <= faults)'
  BY <1>1, LostStays DEF PromptTypes
<1>4. PICK r \in {h, h + 1} : Read(r)
  BY <1>1 DEF OnTime
<1>5. PICK k \in Int : now % Minute = now - Starts(k) /\ Starts(k) <= now /\ now < Starts(k + 1)
  <2>1. now \in Int
    BY DEF PromptTypes
  <2> QED BY <2>1, InMinute
<1>6. /\ Starts(h) \in Int /\ Starts(h + 1) = Starts(h) + Minute
      /\ Starts(h + 2) = Starts(h) + 2 * Minute
      /\ Starts(r) \in Int /\ Starts(r + 1) = Starts(r) + Minute
      /\ Starts(k) \in Int /\ Starts(k + 1) = Starts(k) + Minute
  BY StartsIs
<1>7. now - lag < Starts(h + 2) - Lag
  BY <1>1 DEF OnTime
<1>8. ASSUME Ripe < now % Minute, minute # old_minute PROVE OnTime(h)'
  <2>1. Starts(r) <= Starts(k)
    <3>1. r < k + 1
      BY <1>4, <1>5, <1>6, StartsOrder DEF Read, PromptTypes
    <3>2. r <= k
      BY <3>1
    <3> QED BY <3>2, StartsOrder
  <2>2. Starts(r) + Published <= now
    BY <1>5, <1>6, <1>8, <2>1 DEF PromptTypes
  <2>3. Read(r)'
    BY <1>1, <1>4 DEF Read
  <2>4. pc' = "date"
    BY <1>1, <1>8
  <2>5. \E q \in {h, h + 1} : Read(q)' /\ Starts(q) + Published <= now'
    BY <1>1, <2>2, <2>3
  <2> QED BY <1>1, <2>4, <2>5 DEF OnTime
<1>9. ASSUME ~(Ripe < now % Minute /\ minute # old_minute) PROVE OnTime(h)'
  <2>1. now < Starts(h + 2) - Lag - Nap
    <3>1. CASE now % Minute <= Ripe
      <4>1. k < h + 2
        BY <1>5, <1>6, <1>7, StartsOrder DEF PromptTypes
      <4>2. Starts(k) <= Starts(h + 1)
        BY <4>1, StartsOrder
      <4> QED BY <1>5, <1>6, <3>1, <4>2 DEF PromptTypes
    <3>2. CASE minute = old_minute
      <4>1. minute \in Int
        <5>1. minute = r % Hour /\ r % Hour \in 0..(Hour - 1)
          BY <1>4, Quotient DEF Read
        <5> QED BY <5>1
      <4>2. minute = h % Hour /\ minute = r % Hour
        <5>1. minute \in Nat
          <6>1. minute = r % Hour /\ r % Hour \in 0..(Hour - 1)
            BY <1>4, Quotient DEF Read
          <6> QED BY <6>1
        <5> QED BY <1>1, <1>4, <3>2, <5>1 DEF OnTime, Read
      <4>3. r = h
        BY <4>2, NextMinute
      <4> QED BY <1>4, <1>6, <4>3 DEF Read, PromptTypes
    <3>3. now % Minute \in Int
      BY <1>5, <1>6 DEF PromptTypes
    <3> QED BY <1>9, <3>1, <3>2, <3>3
  <2>2. pc' = "sleep"
    BY <1>1, <1>9
  <2> QED BY <1>1, <2>1, <2>2 DEF OnTime, PromptTypes
<1> QED BY <1>2, <1>3, <1>8, <1>9 DEF PromptInv

LEMMA ReadTimeOnTime ==
  ASSUME Prompt, PromptTypes, NEW h \in Int, h >= -1, OnTime(h), Cardinality(Lost(h)) <= faults,
         ReadDate \/ ReadTime
  PROVE  PromptInv'
<1> USE RetrieverAssumption DEF Asking, Prompt
<1>1. /\ pc \in Asking /\ spent' = 0
      /\ \/ pc' = "time"
         \/ pc' = "wget" /\ tmpfile' = None /\ t' = (now \div Minute) % Day
      /\ UNCHANGED <<now, began, minute, old_minute, bucket, lag, faults>>
  BY DEF ReadDate, ReadTime, Then, Clock, TimeOfDay
<1>2. PromptTypes'
  BY <1>1 DEF PromptTypes
<1>3. (Cardinality(Lost(h)) <= faults)'
  BY <1>1, LostStays DEF PromptTypes
<1>4. PICK r \in {h, h + 1} : Read(r) /\ Starts(r) + Published <= now
  BY <1>1 DEF OnTime
<1>5. Read(r)' /\ Starts(r) + Published <= now'
  BY <1>1, <1>4 DEF Read
<1>6. now \div Minute \in {r, r + 1}
  <2>1. now \in Int
    BY DEF PromptTypes
  <2>2. PICK k \in Int : k = now \div Minute /\ Starts(k) <= now /\ now < Starts(k + 1)
    BY <2>1, InMinute
  <2>3. /\ Starts(r) \in Int /\ Starts(r + 1) = Starts(r) + Minute
        /\ Starts(r + 2) = Starts(r) + 2 * Minute
        /\ Starts(k) \in Int /\ Starts(k + 1) = Starts(k) + Minute
    BY StartsIs
  <2>4. Starts(r) < Starts(k + 1) /\ Starts(k) < Starts(r + 2)
    BY <1>4, <2>2, <2>3 DEF Read, PromptTypes
  <2>5. r < k + 1 /\ k < r + 2
    BY <2>4, StartsOrder
  <2> QED BY <2>2, <2>5
<1>7. pc' = "wget" => Named(r)'
  BY <1>1, <1>6 DEF Named
<1>8. OnTime(h)'
  BY <1>1, <1>4, <1>5, <1>7 DEF OnTime
<1> QED BY <1>2, <1>3, <1>8 DEF PromptInv

\* What is requested is the publication of the minute that has been read.
LEMMA RequestOnTime ==
  ASSUME Prompt, PromptTypes, NEW h \in Int, h >= -1, OnTime(h), Cardinality(Lost(h)) <= faults,
         Request
  PROVE  PromptInv'
<1> USE RetrieverAssumption DEF Asking, Prompt
<1>1. /\ pc = "wget" /\ tmpfile = None /\ tmpfile' = Source(now)
      /\ UNCHANGED <<now, began, pc, minute, old_minute, d, t, bucket, spent, lag, faults>>
  BY DEF Request, Clock
<1>2. PromptTypes'
  BY <1>1 DEF PromptTypes
<1>3. PICK r \in {h, h + 1} : Read(r) /\ Starts(r) + Published <= now /\ Named(r) /\ spent = 0
  BY <1>1 DEF OnTime
<1>4. Starts(r) \in Int /\ Starts(r + 1) = Starts(r) + Minute
  BY StartsIs
<1>5. Source(now) = r
  <2>1. Starts(r) <= now - Published /\ now - Published < Starts(r + 1)
    BY <1>3, <1>4 DEF Read, PromptTypes
  <2>2. (now - Published) \div Minute = r
    <3>1. now - Published \in Int
      BY DEF PromptTypes
    <3> QED BY <2>1, <3>1, QuotientIs DEF Starts
  <2>3. ~(now < Published)
    <3>1. Starts(0) = 0 /\ Starts(0) <= Starts(r)
      BY <1>3, StartsOrder DEF Starts, Read
    <3> QED BY <1>3, <1>4, <3>1 DEF PromptTypes
  <2> QED BY <2>2, <2>3 DEF Source
<1>6. (Cardinality(Lost(r)) <= faults)'
  BY <1>1, <1>3, <1>5, LostStays DEF PromptTypes, Read
<1>7. OnTime(r)'
  <2>1. Starts(r) <= now /\ minute = r % Hour /\ now - spent < Starts(r + 1) + lag /\ r # None
    BY <1>3, <1>4 DEF Read, PromptTypes
  <2> QED BY <1>1, <1>3, <1>5, <2>1 DEF OnTime, Named
<1>8. r >= -1 /\ r \in Int
  BY <1>3
<1> QED BY <1>2, <1>6, <1>7, <1>8 DEF PromptInv

LEMMA DownloadedOnTime ==
  ASSUME Prompt, PromptTypes, NEW h \in Int, h >= -1, OnTime(h), Cardinality(Lost(h)) <= faults,
         Downloaded
  PROVE  PromptInv'
<1> USE RetrieverAssumption DEF Asking, Prompt
<1>1. /\ pc = "wget" /\ tmpfile # None /\ pc' = "cp" /\ spent' = 0
      /\ \/ tmpfile' = tmpfile /\ faults' = faults
         \/ tmpfile' = Empty /\ faults' = faults + 1
      /\ UNCHANGED <<now, began, minute, old_minute, d, t, bucket, lag>>
  BY DEF Downloaded, Then, Clock
<1>2. PromptTypes'
  BY <1>1 DEF PromptTypes
<1>3. /\ tmpfile = h /\ minute = h % Hour /\ Named(h) /\ Starts(h) <= now
      /\ spent <= MaxDownload /\ now - spent < Starts(h + 1) + lag
  BY <1>1 DEF OnTime
<1>4. (Cardinality(Lost(h)) <= faults)'
  <2>1. Lost(h) \in SUBSET (0..h) /\ Lost(h)' \in SUBSET (0..h)
    BY DEF Lost
  <2>2. CASE faults' = faults + 1
    <3>1. Lost(h)' \subseteq Lost(h) \cup {h}
      BY <1>1, <1>3 DEF Lost
    <3>2. Cardinality(Lost(h)') <= faults + 1
      BY <2>1, <3>1, Fewer DEF PromptTypes
    <3> QED BY <2>2, <3>2
  <2>3. CASE tmpfile' = tmpfile /\ faults' = faults
    BY <1>1, <2>3, LostStays DEF PromptTypes
  <2> QED BY <1>1, <2>2, <2>3
<1>5. now < Starts(h + 1) + lag + MaxDownload
  <2>1. Starts(h + 1) \in Int
    BY StartsIs
  <2> QED BY <1>3, <2>1 DEF PromptTypes
<1>6. OnTime(h)'
  BY <1>1, <1>3, <1>5 DEF OnTime, Named
<1> QED BY <1>2, <1>4, <1>6 DEF PromptInv

LEMMA CopyOnTime ==
  ASSUME Prompt, PromptTypes, NEW h \in Int, h >= -1, OnTime(h), Cardinality(Lost(h)) <= faults,
         Copy
  PROVE  PromptInv'
<1> USE RetrieverAssumption DEF Asking, Prompt
<1>1. /\ pc = "cp" /\ pc' = "sleep" /\ spent' = 0 /\ old_minute' = minute
      /\ \/ /\ bucket' = bucket \cup {[date |-> d, time |-> t, content |-> tmpfile]}
            /\ faults' = faults
         \/ faults' = faults + 1 /\ bucket' = bucket
      /\ UNCHANGED <<now, began, minute, d, t, tmpfile, lag>>
  BY DEF Copy, Then, Clock
<1>2. PromptTypes'
  BY <1>1 DEF PromptTypes
<1>3. /\ tmpfile \in {h, Empty} /\ minute = h % Hour /\ Named(h) /\ Starts(h) <= now
      /\ now < Starts(h + 1) + lag + MaxDownload
  BY <1>1 DEF OnTime
<1>4. (Cardinality(Lost(h)) <= faults)'
  <2>1. Lost(h) \in SUBSET (0..h) /\ Lost(h)' \in SUBSET (0..h)
    BY DEF Lost
  <2>2. CASE faults' = faults + 1 /\ bucket' = bucket
    <3>1. Lost(h)' \subseteq Lost(h) \cup {h}
      BY <1>1, <1>3, <2>2 DEF Lost
    <3>2. Cardinality(Lost(h)') <= faults + 1
      BY <2>1, <3>1, Fewer DEF PromptTypes
    <3> QED BY <2>2, <3>2
  <2>3. CASE bucket' = bucket \cup {[date |-> d, time |-> t, content |-> tmpfile]} /\ faults' = faults
    <3> DEFINE new == [date |-> d, time |-> t, content |-> tmpfile]
    <3>1. new \in bucket' /\ new.content = tmpfile /\ new.time = t /\ bucket \subseteq bucket'
      BY <2>3
    <3>2. ASSUME NEW p \in Lost(h)' PROVE p \in Lost(h)
      <4>1. p \in 0..h /\ p * Minute + Published > began
        BY <1>1 DEF Lost
      <4>2. ~ \E copy \in bucket' :
                 copy.content = p /\ copy.time \in {p % Day, (p + 1) % Day}
        BY DEF Lost
      <4>3. tmpfile # p
        <5> SUFFICES ASSUME tmpfile = p PROVE FALSE
          OBVIOUS
        <5>1. p = h
          BY <1>3, <4>1
        <5> HIDE DEF new
        <5> QED BY <1>3, <3>1, <4>2, <5>1 DEF Named
      <4> QED BY <3>1, <4>1, <4>2, <4>3 DEF Lost
    <3>3. Cardinality(Lost(h)') <= faults
      <4>1. Lost(h)' \subseteq Lost(h)
        BY <3>2
      <4> QED BY <2>1, <4>1, Fewer DEF PromptTypes
    <3> QED BY <2>3, <3>3
  <2> QED BY <1>1, <2>2, <2>3
<1>5. now < Starts(h + 2) - Lag - Nap
  <2>1. /\ Starts(h) \in Int /\ Starts(h + 1) = Starts(h) + Minute
        /\ Starts(h + 2) = Starts(h) + 2 * Minute
    BY StartsIs
  <2> QED BY <1>3, <2>1 DEF PromptTypes
<1>6. OnTime(h)'
  BY <1>1, <1>3, <1>5 DEF OnTime, PromptTypes
<1> QED BY <1>2, <1>4, <1>6 DEF PromptInv

LEMMA WakeOnTime ==
  ASSUME Prompt, PromptTypes, NEW h \in Int, h >= -1, OnTime(h), Cardinality(Lost(h)) <= faults,
         Wake
  PROVE  PromptInv'
<1> USE RetrieverAssumption DEF Asking, Prompt
<1>1. /\ pc = "sleep" /\ spent = Nap /\ pc' = "minute" /\ spent' = 0 /\ lag' = 0
      /\ UNCHANGED <<now, began, minute, old_minute, d, t, tmpfile, bucket, faults>>
  BY DEF Wake, Slept, Then, Clock
<1>2. PromptTypes'
  BY <1>1 DEF PromptTypes
<1>3. (Cardinality(Lost(h)) <= faults)'
  BY <1>1, LostStays DEF PromptTypes
<1>4. now - lag' < Starts(h + 2) - Lag
  <2>1. Starts(h + 2) \in Int
    BY StartsIs
  <2> QED BY <1>1, <2>1 DEF OnTime, PromptTypes
<1>5. OnTime(h)'
  BY <1>1, <1>4 DEF OnTime
<1> QED BY <1>2, <1>3, <1>5 DEF PromptInv

LEMMA PromptInit ==
  ASSUME Prompt, Init
  PROVE  PromptInv
<1> USE RetrieverAssumption DEF Asking, Prompt
<1>1. now \in Nat
  <2>1. Minute * Day \in Nat
    OBVIOUS
  <2> QED BY <2>1 DEF Init
<1>2. PromptTypes
  BY <1>1 DEF Init, PromptTypes
<1>3. PICK h \in Int : h >= -1 /\ Starts(h) + Published <= now /\ now < Starts(h + 1) + Published
  <2>1. PICK k \in Int : Starts(k) <= now - Published /\ now - Published < Starts(k + 1)
    <3>1. now - Published \in Int
      BY <1>1
    <3> QED BY <3>1, InMinute
  <2>2. Starts(k) \in Int /\ Starts(k + 1) \in Int
    BY StartsIs
  <2>3. k >= -1
    <3>1. Starts(-1) = - Minute
      BY DEF Starts
    <3>2. Starts(-1) < Starts(k + 1)
      BY <1>1, <2>1, <2>2, <3>1
    <3>3. -1 < k + 1
      BY <3>2, StartsOrder
    <3> QED BY <3>3
  <2> QED BY <1>1, <2>1, <2>2, <2>3
<1>4. Lost(h) = {}
  <2>1. ASSUME NEW p \in 0..h PROVE ~(p * Minute + Published > began)
    <3>1. Starts(p) <= Starts(h) /\ Starts(p) \in Int /\ Starts(h) \in Int
      <4>1. p \in Int /\ p <= h
        BY <2>1
      <4> QED BY <4>1, StartsOrder, StartsIs
    <3>2. p * Minute = Starts(p) /\ began = now
      BY DEF Init, Starts
    <3> QED BY <1>1, <1>3, <3>1, <3>2
  <2> QED BY <2>1 DEF Lost
<1>5. OnTime(h)
  <2>1. /\ Starts(h) \in Int /\ Starts(h + 1) = Starts(h) + Minute
        /\ Starts(h + 2) = Starts(h) + 2 * Minute
    BY StartsIs
  <2>2. Starts(h) <= now /\ now - lag < Starts(h + 2) - Lag
    BY <1>1, <1>3, <2>1 DEF Init
  <2> QED BY <2>2 DEF Init, OnTime
<1>6. Cardinality(Lost(h)) <= faults
  BY <1>4, FS_EmptySet DEF Init
<1> QED BY <1>2, <1>3, <1>5, <1>6 DEF PromptInv

LEMMA PromptMissesNone ==
  ASSUME Prompt, PromptInv
  PROVE  PublicationsCopied
<1> USE RetrieverAssumption DEF Asking, Prompt
<1> PICK h \in Int : h >= -1 /\ OnTime(h) /\ Cardinality(Lost(h)) <= faults
  BY DEF PromptInv
<1>1. PromptTypes
  BY DEF PromptInv
<1>2. /\ Starts(h) \in Int /\ Starts(h + 1) = Starts(h) + Minute
      /\ Starts(h + 2) = Starts(h) + 2 * Minute
  BY StartsIs
<1>3. now < Starts(h + 2) + Published
  <2>1. CASE pc \in {"minute", "second", "sleep", "cp"}
    BY <1>1, <1>2, <2>1 DEF OnTime, PromptTypes
  <2>2. CASE pc \in Asking \/ (pc = "wget" /\ tmpfile = None)
    <3>1. PICK r \in {h, h + 1} : Read(r)
      BY <2>2 DEF OnTime
    <3>2. Starts(r + 1) \in Int /\ Starts(r + 1) <= Starts(h + 2)
      BY <1>2, StartsIs
    <3> QED BY <1>1, <1>2, <3>1, <3>2 DEF PromptTypes, Read
  <2>3. CASE pc = "wget" /\ tmpfile # None
    BY <1>1, <1>2, <2>3 DEF OnTime, PromptTypes
  <2> QED BY <1>1, <2>1, <2>2, <2>3 DEF PromptTypes
<1> DEFINE missed ==
      {p \in Replaced : ~(pc \in {"wget", "cp"} /\ tmpfile = p) /\ ~ \E copy \in bucket :
         copy.content = p /\ copy.time \in {p % Day, (p + 1) % Day}}
<1> SUFFICES ASSUME now >= Published PROVE Cardinality(missed) <= faults
  BY DEF PublicationsCopied
<1>4. ASSUME NEW p \in Replaced PROVE p \in 0..h /\ p * Minute + Published > began
  <2>1. p \in 0..(now \div Minute) /\ p * Minute + Published > began /\ p < Source(now)
    BY DEF Replaced
  <2>2. PICK s \in Int : s = (now - Published) \div Minute /\ Starts(s) <= now - Published
    <3>1. now - Published \in Int
      BY <1>1 DEF PromptTypes
    <3> QED BY <3>1, InMinute
  <2>3. Source(now) = s
    BY <1>1, <2>2 DEF Source, PromptTypes
  <2>4. s < h + 2
    <3>1. Starts(s) \in Int
      BY StartsIs
    <3>2. Starts(s) < Starts(h + 2)
      BY <1>1, <1>2, <1>3, <2>2, <3>1 DEF PromptTypes
    <3> QED BY <3>2, StartsOrder
  <2> QED BY <2>1, <2>3, <2>4
<1>5. missed \in SUBSET Lost(h)
  BY <1>4 DEF Lost
<1>6. Lost(h) \in SUBSET (0..h) /\ missed \in SUBSET (0..h)
  BY <1>4 DEF Lost
<1> HIDE DEF missed
<1> QED BY <1>1, <1>5, <1>6, Fewer DEF PromptTypes

(***************************************************************************)
(* No publication is missed but for calls that fail, whatever the lengths  *)
(* of a minute, an hour and a day, if the calls and downloads are prompt:  *)
(* each publication that has been replaced is in the bucket, or about to   *)
(* be, under the time of its minute or of the next.                        *)
(***************************************************************************)
THEOREM CopiesAll ==
  ASSUME Prompt
  PROVE  Spec => []PublicationsCopied
<1>1. Init => PromptInv
  BY PromptInit
<1>2. PromptInv /\ [Next]_vars => PromptInv'
  <2> SUFFICES ASSUME PromptInv, [Next]_vars PROVE PromptInv'
    OBVIOUS
  <2> PICK h \in Int : h >= -1 /\ OnTime(h) /\ Cardinality(Lost(h)) <= faults
    BY DEF PromptInv
  <2>1. PromptTypes
    BY DEF PromptInv
  <2>2. CASE UNCHANGED vars
    <3>1. PromptTypes' /\ OnTime(h)' /\ (Cardinality(Lost(h)) <= faults)'
      BY <2>1, <2>2 DEF vars, PromptTypes, OnTime, Read, Named, Lost
    <3> QED BY <3>1 DEF PromptInv
  <2> QED BY <2>1, <2>2, TickOnTime, ReadMinuteOnTime, ReadSecondOnTime, ReadTimeOnTime,
             RequestOnTime, DownloadedOnTime, CopyOnTime, WakeOnTime DEF Next
<1>3. PromptInv => PublicationsCopied
  BY PromptMissesNone
<1> QED BY <1>1, <1>2, <1>3, PTL DEF Spec
=============================================================================
