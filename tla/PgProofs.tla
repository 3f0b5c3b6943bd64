------------------------------ MODULE PgProofs ------------------------------
(***************************************************************************)
(* psycopg2's registered types, for any values and any texts: the order of *)
(* ranges and the points they hold; ranges, rows and hstores read back     *)
(* from the text that the server sends; and what the registration of a     *)
(* type does to the transaction of a connection.                           *)
(***************************************************************************)
EXTENDS PgTypes, FiniteSetTheorems, SequenceTheorems, TLAPS

Bounds == Values \cup {None}

\* One attribute of two ranges: None is below every value.
LEMMA BelowTotal ==
  ASSUME NEW v \in Bounds, NEW w \in Bounds, v # w
  PROVE  Below(v, w) <=> ~ Below(w, v)
BY RangeAssumption DEF Below, Bounds

LEMMA BelowTransitive ==
  ASSUME NEW u \in Bounds, NEW v \in Bounds, NEW w \in Bounds,
         u # v, v # w, Below(u, v), Below(v, w)
  PROVE  u # w /\ Below(u, w)
BY RangeAssumption DEF Below, Bounds

LEMMA FlagsTotal ==
  ASSUME NEW f \in Flags \cup {None}, NEW g \in Flags \cup {None}, f # g
  PROVE  FlagsBelow(f, g) <=> ~ FlagsBelow(g, f)
<1>1. CASE f = None \/ g = None
  BY <1>1 DEF FlagsBelow
<1>2. CASE f # None /\ g # None
  <2>1. f \in Flags /\ g \in Flags
    BY <1>2
  <2>2. /\ f[1] \in {"(", "["} /\ f[2] \in {")", "]"} /\ f = <<f[1], f[2]>>
        /\ g[1] \in {"(", "["} /\ g[2] \in {")", "]"} /\ g = <<g[1], g[2]>>
    BY <2>1 DEF Flags
  <2>3. f[1] # g[1] \/ f[2] # g[2]
    BY <2>2
  <2> QED BY <1>2, <2>2, <2>3 DEF FlagsBelow, FlagLess
<1> QED BY <1>1, <1>2

LEMMA FlagsTransitive ==
  ASSUME NEW f \in Flags \cup {None}, NEW g \in Flags \cup {None}, NEW h \in Flags \cup {None},
         f # g, g # h, FlagsBelow(f, g), FlagsBelow(g, h)
  PROVE  f # h /\ FlagsBelow(f, h)
<1>1. f # h
  BY FlagsTotal
<1>2. g # None /\ h # None
  BY FlagsTotal DEF FlagsBelow
<1>3. CASE f = None
  BY <1>1, <1>3 DEF FlagsBelow
<1>4. CASE f # None
  <2>1. /\ f[1] \in {"(", "["} /\ f[2] \in {")", "]"}
        /\ g[1] \in {"(", "["} /\ g[2] \in {")", "]"}
        /\ h[1] \in {"(", "["} /\ h[2] \in {")", "]"}
    BY <1>2, <1>4 DEF Flags
  <2> QED BY <1>1, <1>2, <1>4, <2>1 DEF FlagsBelow, FlagLess
<1> QED BY <1>3, <1>4

-----------------------------------------------------------------------------
LEMMA RangeParts ==
  ASSUME NEW r \in Ranges
  PROVE  r.lower \in Bounds /\ r.upper \in Bounds /\ r.bounds \in Flags \cup {None}
BY DEF Ranges, EmptyRange, Bounds

\* What __eq__ compares is all that a range has.
LEMMA EqualIsSame ==
  ASSUME NEW r \in Ranges, NEW s \in Ranges
  PROVE  Equal(r, s) <=> r = s
<1>1. r = [lower |-> r.lower, upper |-> r.upper, bounds |-> r.bounds]
  BY DEF Ranges, EmptyRange
<1>2. s = [lower |-> s.lower, upper |-> s.upper, bounds |-> s.bounds]
  BY DEF Ranges, EmptyRange
<1> QED BY <1>1, <1>2 DEF Equal

(***************************************************************************)
(* Of two ranges that are not equal one is less than the other, and not    *)
(* both (Range.__lt__, __eq__).                                            *)
(***************************************************************************)
THEOREM RangeOrderTotal ==
  ASSUME NEW r \in Ranges, NEW s \in Ranges, r # s
  PROVE  Less(r, s) <=> ~ Less(s, r)
<1>1. /\ r.lower \in Bounds /\ r.upper \in Bounds /\ r.bounds \in Flags \cup {None}
      /\ s.lower \in Bounds /\ s.upper \in Bounds /\ s.bounds \in Flags \cup {None}
  BY RangeParts
<1>2. CASE r.lower # s.lower
  BY <1>1, <1>2, BelowTotal DEF Less
<1>3. CASE r.lower = s.lower /\ r.upper # s.upper
  BY <1>1, <1>3, BelowTotal DEF Less
<1>4. CASE r.lower = s.lower /\ r.upper = s.upper
  <2>1. r.bounds # s.bounds
    BY <1>4, EqualIsSame DEF Equal
  <2> QED BY <1>1, <1>4, <2>1, FlagsTotal DEF Less
<1> QED BY <1>2, <1>3, <1>4

(***************************************************************************)
(* The order of ranges is transitive (Range.__lt__).                       *)
(***************************************************************************)
THEOREM RangeOrderTransitive ==
  ASSUME NEW r \in Ranges, NEW s \in Ranges, NEW t \in Ranges, Less(r, s), Less(s, t)
  PROVE  Less(r, t)
<1>1. /\ r.lower \in Bounds /\ r.upper \in Bounds /\ r.bounds \in Flags \cup {None}
      /\ s.lower \in Bounds /\ s.upper \in Bounds /\ s.bounds \in Flags \cup {None}
      /\ t.lower \in Bounds /\ t.upper \in Bounds /\ t.bounds \in Flags \cup {None}
  BY RangeParts
<1>2. CASE r.lower # s.lower /\ s.lower # t.lower
  <2>1. Below(r.lower, s.lower) /\ Below(s.lower, t.lower)
    BY <1>2 DEF Less
  <2>2. r.lower # t.lower /\ Below(r.lower, t.lower)
    BY <1>1, <1>2, <2>1, BelowTransitive
  <2> QED BY <2>2 DEF Less
<1>3. CASE (r.lower = s.lower) # (s.lower = t.lower)
  BY <1>3 DEF Less
<1>4. CASE r.lower = s.lower /\ s.lower = t.lower
  <2>1. CASE r.upper # s.upper /\ s.upper # t.upper
    <3>1. Below(r.upper, s.upper) /\ Below(s.upper, t.upper)
      BY <1>4, <2>1 DEF Less
    <3>2. r.upper # t.upper /\ Below(r.upper, t.upper)
      BY <1>1, <2>1, <3>1, BelowTransitive
    <3> QED BY <1>4, <3>2 DEF Less
  <2>2. CASE (r.upper = s.upper) # (s.upper = t.upper)
    BY <1>4, <2>2 DEF Less
  <2>3. CASE r.upper = s.upper /\ s.upper = t.upper
    <3>1. /\ r.bounds # s.bounds /\ FlagsBelow(r.bounds, s.bounds)
          /\ s.bounds # t.bounds /\ FlagsBelow(s.bounds, t.bounds)
      BY <1>4, <2>3 DEF Less
    <3>2. r.bounds # t.bounds /\ FlagsBelow(r.bounds, t.bounds)
      BY <1>1, <3>1, FlagsTransitive
    <3> QED BY <1>4, <2>3, <3>2 DEF Less
  <2> QED BY <2>1, <2>2, <2>3
<1> QED BY <1>2, <1>3, <1>4

(***************************************************************************)
(* <= and >= agree with < and == (Range.__le__, __gt__, __ge__).           *)
(***************************************************************************)
THEOREM RangeComparisonsAgree ==
  ASSUME NEW r \in Ranges, NEW s \in Ranges
  PROVE  /\ AtMost(r, s) <=> ~ Greater(r, s)
         /\ AtLeast(r, s) <=> ~ Less(r, s)
<1>1. CASE r = s
  <2>1. ~ Less(r, r)
    BY DEF Less
  <2> QED BY <1>1, <2>1, EqualIsSame DEF AtMost, AtLeast, Greater
<1>2. CASE r # s
  BY <1>2, RangeOrderTotal, EqualIsSame DEF AtMost, AtLeast, Greater
<1> QED BY <1>1, <1>2

-----------------------------------------------------------------------------
\* What the server makes of a range is a range.
LEMMA SentIsRange ==
  ASSUME NEW r \in Ranges
  PROVE  SentByName(r) \in Ranges
<1>1. r.lower \in Bounds /\ r.upper \in Bounds /\ r.bounds \in Flags \cup {None}
  BY RangeParts
<1>2. CASE IsEmpty(r)
  BY <1>2 DEF SentByName, Ranges
<1>3. CASE ~ IsEmpty(r)
  <2>1. r.bounds[1] \in {"(", "["} /\ r.bounds[2] \in {")", "]"}
    BY <1>1, <1>3 DEF IsEmpty, Flags
  <2>2. PICK f, g : /\ f = (IF r.lower = None THEN "(" ELSE r.bounds[1])
                    /\ g = (IF r.upper = None THEN ")" ELSE r.bounds[2])
    OBVIOUS
  <2>3. <<f, g>> \in Flags
    BY <2>1, <2>2 DEF Flags
  <2>4. SentByName(r) \in {EmptyRange, [lower |-> r.lower, upper |-> r.upper, bounds |-> <<f, g>>]}
    BY <1>3, <2>2 DEF SentByName, ServerRange
  <2> QED BY <1>1, <2>3, <2>4 DEF Ranges, Bounds
<1> QED BY <1>2, <1>3

(***************************************************************************)
(* A Range holds exactly the points that the server's range contains when  *)
(* it is sent, and none when it is empty (Range.__contains__, getquoted):  *)
(* the part of SamePoints that is about the program's own ranges.          *)
(***************************************************************************)
THEOREM RangeHoldsAsServer ==
  ASSUME NEW r \in Ranges, Valid(r), NEW x \in Int
  PROVE  /\ Holds(r, x) <=> Within(SentByName(r), x)
         /\ Holds(SentByName(r), x) <=> Holds(r, x)
<1>1. r.lower \in Bounds /\ r.upper \in Bounds /\ r.bounds \in Flags \cup {None}
  BY RangeParts
<1>2. None \notin Int \cup Flags /\ Values \subseteq Int /\ EmptyRange.bounds = None
  BY RangeAssumption DEF EmptyRange
<1>3. CASE IsEmpty(r)
  BY <1>2, <1>3 DEF IsEmpty, Holds, Within, SentByName
<1>4. CASE ~ IsEmpty(r)
  <2>1. PICK f, g : r.bounds = <<f, g>> /\ f \in {"(", "["} /\ g \in {")", "]"}
    BY <1>1, <1>4 DEF IsEmpty, Flags
  <2>2. r.bounds[1] = f /\ r.bounds[2] = g /\ r.bounds # None
    BY <1>4, <2>1 DEF IsEmpty
  <2>3. CASE r.lower # None /\ r.lower = r.upper /\ r.bounds # <<"[", "]">>
    <3>1. SentByName(r) = EmptyRange
      BY <1>4, <2>3 DEF SentByName, ServerRange
    <3>2. f = "(" \/ g = ")"
      BY <2>1, <2>3
    <3>3. ~ Holds(r, x)
      <4>1. PICK v \in Int : v = r.lower /\ v = r.upper
        BY <1>1, <1>2, <2>3 DEF Bounds
      <4>2. v # None
        BY <1>2
      <4>3. r.bounds[1] = "(" \/ r.bounds[2] = ")"
        BY <2>2, <3>2
      <4>4. CASE r.bounds[1] = "("
        BY <4>1, <4>2, <4>4 DEF Holds
      <4>5. CASE r.bounds[2] = ")"
        BY <4>1, <4>2, <4>5 DEF Holds
      <4> QED BY <4>3, <4>4, <4>5
    <3> QED BY <1>2, <3>1, <3>3 DEF Within, Holds
  <2>4. CASE ~ (r.lower # None /\ r.lower = r.upper /\ r.bounds # <<"[", "]">>)
    <3>1. PICK h, i : h = (IF r.lower = None THEN "(" ELSE f) /\ i = (IF r.upper = None THEN ")" ELSE g)
      OBVIOUS
    <3>2. PICK s : s = SentByName(r)
      OBVIOUS
    <3>3. s = [lower |-> r.lower, upper |-> r.upper, bounds |-> <<h, i>>]
      BY <1>4, <2>2, <2>4, <3>1, <3>2 DEF SentByName, ServerRange
    <3>4. <<h, i>> \in Flags
      BY <2>1, <3>1 DEF Flags
    <3>5. /\ s.lower = r.lower /\ s.upper = r.upper /\ s.bounds[1] = h /\ s.bounds[2] = i
          /\ s.bounds # None /\ s # EmptyRange
      <4>1. s.lower = r.lower /\ s.upper = r.upper /\ s.bounds = <<h, i>>
        BY <3>3
      <4>2. s.bounds # None
        BY <3>4, <4>1, RangeAssumption
      <4> QED BY <1>2, <4>1, <4>2
    <3>6. PICK low, up : low = r.lower /\ up = r.upper
      OBVIOUS
    <3>7. /\ low = None \/ (low # None /\ low \in Int)
          /\ up = None \/ (up # None /\ up \in Int)
      BY <1>1, <1>2, <3>6 DEF Bounds
    <3>8. Holds(r, x) <=> /\ low # None => IF f = "[" THEN x >= low ELSE x > low
                          /\ up # None => IF g = "]" THEN x <= up ELSE x < up
      BY <2>2, <3>6 DEF Holds
    <3>9. Holds(s, x) <=> /\ low # None => IF h = "[" THEN x >= low ELSE x > low
                          /\ up # None => IF i = "]" THEN x <= up ELSE x < up
      BY <3>5, <3>6 DEF Holds
    <3>10. Within(s, x) <=> /\ low = None \/ low < x \/ (low = x /\ h = "[")
                            /\ up = None \/ x < up \/ (up = x /\ i = "]")
      BY <3>5, <3>6 DEF Within
    <3>11. (low # None => h = f) /\ (up # None => i = g)
      BY <3>1, <3>6
    <3>12. Holds(s, x) <=> Holds(r, x)
      BY <3>8, <3>9, <3>11
    <3>13. Holds(s, x) <=> Within(s, x)
      BY <3>7, <3>9, <3>10
    <3> QED BY <3>2, <3>12, <3>13
  <2> QED BY <2>3, <2>4
<1> QED BY <1>3, <1>4

-----------------------------------------------------------------------------
(***************************************************************************)
(* Sequences that begin with an element: Cons is how a text is taken       *)
(* apart and put together, one character after another.                    *)
(***************************************************************************)
LEMMA ConsIs ==
  ASSUME NEW A, NEW a \in A, NEW s \in Seq(A)
  PROVE  /\ Cons(a, s) \in Seq(A) /\ Cons(a, s) # <<>>
         /\ Head(Cons(a, s)) = a /\ Tail(Cons(a, s)) = s
         /\ Len(Cons(a, s)) = Len(s) + 1 /\ Len(s) \in Nat
         /\ Cons(a, s)[1] = a
         /\ \A i \in 1 .. Len(s) : Cons(a, s)[i + 1] = s[i]
BY DEF Cons

LEMMA Uncons ==
  ASSUME NEW A, NEW s \in Seq(A), s # <<>>
  PROVE  /\ Head(s) \in A /\ Head(s) = s[1]
         /\ Tail(s) \in Seq(A) /\ Len(Tail(s)) < Len(s)
         /\ s = Cons(Head(s), Tail(s))
BY DEF Cons

LEMMA Joined ==
  ASSUME NEW A, NEW s \in Seq(A), NEW t \in Seq(A)
  PROVE  /\ s \o t \in Seq(A) /\ Len(s \o t) = Len(s) + Len(t)
         /\ s \o <<>> = s /\ <<>> \o s = s
         /\ \A i \in 1 .. Len(s) : (s \o t)[i] = s[i]
         /\ \A i \in 1 .. Len(t) : (s \o t)[Len(s) + i] = t[i]
OBVIOUS

LEMMA JoinedThrice ==
  ASSUME NEW A, NEW s \in Seq(A), NEW t \in Seq(A), NEW u \in Seq(A)
  PROVE  (s \o t) \o u = s \o (t \o u)
BY ConcatAssociative

LEMMA ConsJoined ==
  ASSUME NEW A, NEW a \in A, NEW s \in Seq(A), NEW t \in Seq(A)
  PROVE  Cons(a, s) \o t = Cons(a, s \o t)
<1>1. <<a>> \in Seq(A)
  OBVIOUS
<1> QED BY <1>1, JoinedThrice DEF Cons

LEMMA TwoJoined ==
  ASSUME NEW A, NEW a \in A, NEW b \in A, NEW s \in Seq(A)
  PROVE  <<a, b>> \o s = Cons(a, Cons(b, s))
<1>1. <<a>> \in Seq(A) /\ <<b>> \in Seq(A)
  OBVIOUS
<1>2. <<a, b>> = <<a>> \o <<b>>
  <2>1. <<a, b>> \in Seq(A) /\ <<a>> \o <<b>> \in Seq(A)
    OBVIOUS
  <2>2. Len(<<a, b>>) = 2 /\ Len(<<a>> \o <<b>>) = 2
    OBVIOUS
  <2>3. \A i \in 1 .. 2 : <<a, b>>[i] = (<<a>> \o <<b>>)[i]
    OBVIOUS
  <2> QED BY <2>1, <2>2, <2>3, SeqEqual
<1> QED BY <1>1, <1>2, JoinedThrice DEF Cons

LEMMA BehindIs ==
  ASSUME NEW A, NEW s \in Seq(A), NEW n \in Nat
  PROVE  /\ Behind(s, n) \in Seq(A)
         /\ Len(Behind(s, n)) <= Len(s)
         /\ n > 0 /\ s # <<>> => Len(Behind(s, n)) < Len(s)
<1>1. Len(s) \in Nat /\ \A i \in (n + 1) .. Len(s) : s[i] \in A
  OBVIOUS
<1>2. /\ SubSeq(s, n + 1, Len(s)) \in Seq(A)
      /\ Len(SubSeq(s, n + 1, Len(s))) = IF n + 1 <= Len(s) THEN Len(s) - n ELSE 0
  BY <1>1, SubSeqProperties
<1> QED BY <1>1, <1>2 DEF Behind

LEMMA BehindJoined ==
  ASSUME NEW A, NEW s \in Seq(A), NEW t \in Seq(A), NEW n \in Nat
  PROVE  Behind(s \o t, Len(s) + n) = Behind(t, n)
<1>1. /\ Len(s) \in Nat /\ Len(t) \in Nat /\ s \o t \in Seq(A) /\ Len(s \o t) = Len(s) + Len(t)
      /\ \A i \in 1 .. Len(t) : (s \o t)[Len(s) + i] = t[i]
  BY Joined
<1> DEFINE m == Len(s) + n + 1
<1>2. /\ SubSeq(t, n + 1, Len(t)) \in Seq(A)
      /\ Len(SubSeq(t, n + 1, Len(t))) = IF n + 1 <= Len(t) THEN Len(t) - n ELSE 0
      /\ \A i \in 1 .. Len(t) - n : SubSeq(t, n + 1, Len(t))[i] = t[n + i]
  BY <1>1, SubSeqProperties
<1>3. /\ SubSeq(s \o t, m, Len(s \o t)) \in Seq(A)
      /\ Len(SubSeq(s \o t, m, Len(s \o t))) = IF n + 1 <= Len(t) THEN Len(t) - n ELSE 0
      /\ \A i \in 1 .. Len(t) - n : SubSeq(s \o t, m, Len(s \o t))[i] = (s \o t)[Len(s) + n + i]
  BY <1>1, SubSeqProperties
<1>4. \A i \in 1 .. Len(t) - n : (s \o t)[Len(s) + n + i] = t[n + i]
  <2> TAKE i \in 1 .. Len(t) - n
  <2>1. n + i \in 1 .. Len(t) /\ Len(s) + n + i = Len(s) + (n + i)
    BY <1>1
  <2> QED BY <1>1, <2>1
<1>5. SubSeq(s \o t, m, Len(s \o t)) = SubSeq(t, n + 1, Len(t))
  BY <1>1, <1>2, <1>3, <1>4, SeqEqual
<1> QED BY <1>1, <1>5 DEF Behind

LEMMA BehindCons ==
  ASSUME NEW A, NEW a \in A, NEW s \in Seq(A), NEW n \in Nat
  PROVE  /\ Behind(Cons(a, s), n + 1) = Behind(s, n)
         /\ Behind(s, 0) = s
         /\ At(Cons(a, s), 1) = a
         /\ n > 0 => At(Cons(a, s), n + 1) = At(s, n)
<1>1. /\ Cons(a, s) \in Seq(A) /\ Len(Cons(a, s)) = Len(s) + 1 /\ Len(s) \in Nat
      /\ Cons(a, s)[1] = a
      /\ \A i \in 1 .. Len(s) : Cons(a, s)[i + 1] = s[i]
  BY ConsIs
<1>2. Behind(Cons(a, s), n + 1) = Behind(s, n)
  <2>1. /\ SubSeq(s, n + 1, Len(s)) \in Seq(A)
        /\ Len(SubSeq(s, n + 1, Len(s))) = IF n + 1 <= Len(s) THEN Len(s) - n ELSE 0
        /\ \A i \in 1 .. Len(s) - n : SubSeq(s, n + 1, Len(s))[i] = s[n + i]
    BY <1>1, SubSeqProperties
  <2>2. /\ SubSeq(Cons(a, s), n + 2, Len(s) + 1) \in Seq(A)
        /\ Len(SubSeq(Cons(a, s), n + 2, Len(s) + 1)) = IF n + 1 <= Len(s) THEN Len(s) - n ELSE 0
        /\ \A i \in 1 .. Len(s) - n : SubSeq(Cons(a, s), n + 2, Len(s) + 1)[i] = Cons(a, s)[n + 1 + i]
    BY <1>1, SubSeqProperties
  <2>3. \A i \in 1 .. Len(s) - n : Cons(a, s)[n + 1 + i] = s[n + i]
    BY <1>1
  <2>4. SubSeq(Cons(a, s), n + 2, Len(s) + 1) = SubSeq(s, n + 1, Len(s))
    BY <1>1, <2>1, <2>2, <2>3, SeqEqual
  <2>5. (n + 1) + 1 = n + 2
    OBVIOUS
  <2> QED BY <1>1, <2>4, <2>5 DEF Behind
<1>3. Behind(s, 0) = s
  BY DEF Behind
<1>4. At(Cons(a, s), 1) = a
  <2>1. 1 \in 1 .. Len(Cons(a, s))
    BY <1>1
  <2> QED BY <1>1, <2>1 DEF At
<1>5. n > 0 => At(Cons(a, s), n + 1) = At(s, n)
  <2>1. n > 0 => (n + 1 \in 1 .. Len(Cons(a, s)) <=> n \in 1 .. Len(s))
    BY <1>1
  <2> QED BY <1>1, <2>1 DEF At
<1> QED BY <1>2, <1>3, <1>4, <1>5

LEMMA AtJoined ==
  ASSUME NEW A, NEW s \in Seq(A), NEW t \in Seq(A), NEW n \in Nat, n > 0
  PROVE  At(s \o t, Len(s) + n) = At(t, n)
<1>1. Len(s) \in Nat /\ Len(t) \in Nat /\ Len(s \o t) = Len(s) + Len(t)
      /\ \A i \in 1 .. Len(t) : (s \o t)[Len(s) + i] = t[i]
  BY Joined
<1>2. Len(s) + n \in 1 .. Len(s \o t) <=> n \in 1 .. Len(t)
  BY <1>1
<1> QED BY <1>1, <1>2 DEF At

\* A text between two characters, with more behind.
LEMMA Enclosed ==
  ASSUME NEW A, NEW a \in A, NEW s \in Seq(A), NEW b \in A, NEW t \in Seq(A)
  PROVE  /\ SubSeq(Cons(a, s \o Cons(b, t)), 2, Len(s) + 1) = s
         /\ Behind(Cons(a, s \o Cons(b, t)), Len(s) + 2) = t
         /\ Behind(Cons(a, s \o Cons(b, t)), Len(s) + 3) = Behind(t, 1)
         /\ At(Cons(a, s \o Cons(b, t)), Len(s) + 2) = b
         /\ At(Cons(a, s \o Cons(b, t)), Len(s) + 3) = At(t, 1)
<1> DEFINE u == Cons(b, t)
           w == s \o u
           v == Cons(a, w)
<1>1. u \in Seq(A) /\ Len(s) \in Nat /\ At(u, 1) = b /\ At(u, 2) = At(t, 1)
  BY ConsIs, BehindCons
<1>2. Behind(u, 1) = t /\ Behind(u, 2) = Behind(t, 1)
  BY BehindCons
<1> HIDE DEF u
<1>3. w \in Seq(A) /\ Len(w) \in Nat /\ Len(w) >= Len(s)
      /\ \A i \in 1 .. Len(s) : w[i] = s[i]
  BY <1>1, Joined
<1> HIDE DEF w
<1>4. SubSeq(v, 2, Len(s) + 1) = s
  <2>2. \A i \in 1 .. Len(w) : v[i + 1] = w[i]
    BY <1>3, ConsIs
  <2>1. v \in Seq(A) /\ Len(v) = Len(w) + 1
    BY <1>3, ConsIs
  <2> HIDE DEF v
  <2>3. \A i \in 1 .. Len(s) : v[i + 1] = s[i]
    BY <1>1, <1>3, <2>2
  <2>4. \A i \in 2 .. Len(s) + 1 : v[i] \in A
    BY <1>1, <1>3, <2>1
  <2>5. /\ SubSeq(v, 2, Len(s) + 1) \in Seq(A)
        /\ Len(SubSeq(v, 2, Len(s) + 1)) = Len(s)
        /\ \A i \in 1 .. Len(s) : SubSeq(v, 2, Len(s) + 1)[i] = v[i + 1]
    BY <1>1, <2>4, SubSeqProperties
  <2> QED BY <2>3, <2>5, SeqEqual
<1>5. Behind(v, Len(s) + 2) = t /\ Behind(v, Len(s) + 3) = Behind(t, 1)
  <2>1. ASSUME NEW n \in Nat PROVE Behind(v, n + 1) = Behind(w, n)
    BY <1>3, BehindCons
  <2>2. Behind(w, Len(s) + 1) = t /\ Behind(w, Len(s) + 2) = Behind(t, 1)
    BY <1>1, <1>2, BehindJoined DEF w
  <2>3. (Len(s) + 1) + 1 = Len(s) + 2 /\ (Len(s) + 2) + 1 = Len(s) + 3
    BY <1>1
  <2> HIDE DEF v
  <2> QED BY <1>1, <2>1, <2>2, <2>3
<1>6. At(v, Len(s) + 2) = b /\ At(v, Len(s) + 3) = At(t, 1)
  <2>1. ASSUME NEW n \in Nat \ {0} PROVE At(v, n + 1) = At(w, n)
    BY <1>3, BehindCons
  <2>2. At(w, Len(s) + 1) = b /\ At(w, Len(s) + 2) = At(t, 1)
    BY <1>1, AtJoined DEF w
  <2>3. (Len(s) + 1) + 1 = Len(s) + 2 /\ (Len(s) + 2) + 1 = Len(s) + 3
    BY <1>1
  <2> HIDE DEF v
  <2> QED BY <1>1, <2>1, <2>2, <2>3
<1> QED BY <1>4, <1>5, <1>6 DEF u, w

-----------------------------------------------------------------------------
(***************************************************************************)
(* Texts, and their characters.                                            *)
(***************************************************************************)
LEMMA TextIs ==
  /\ <<>> \in Text
  /\ \A s \in Text : Len(s) \in Nat
  /\ \A s \in Text : s # <<>> =>
       /\ Head(s) \in Char /\ Tail(s) \in Text /\ Len(Tail(s)) < Len(s)
       /\ s = Cons(Head(s), Tail(s)) /\ Head(s) = s[1]
  /\ \A s \in Text, n \in Nat :
       /\ Behind(s, n) \in Text /\ Len(Behind(s, n)) <= Len(s)
       /\ n > 0 /\ s # <<>> => Len(Behind(s, n)) < Len(s)
<1>1. \A s \in Text : s # <<>> =>
       /\ Head(s) \in Char /\ Tail(s) \in Text /\ Len(Tail(s)) < Len(s)
       /\ s = Cons(Head(s), Tail(s)) /\ Head(s) = s[1]
  BY Uncons DEF Text
<1>2. ASSUME NEW s \in Text, NEW n \in Nat
      PROVE  /\ Behind(s, n) \in Text /\ Len(Behind(s, n)) <= Len(s)
             /\ n > 0 /\ s # <<>> => Len(Behind(s, n)) < Len(s)
  BY BehindIs DEF Text
<1>3. <<>> \in Text /\ \A s \in Text : Len(s) \in Nat
  BY DEF Text
<1> QED BY <1>1, <1>2, <1>3

LEMMA TextCons ==
  ASSUME NEW a \in Char, NEW s \in Text
  PROVE  /\ <<a>> \o s = Cons(a, s)
         /\ Cons(a, s) \in Text /\ Cons(a, s) # <<>> /\ Len(Cons(a, s)) = Len(s) + 1
         /\ Head(Cons(a, s)) = a /\ Tail(Cons(a, s)) = s
         /\ At(Cons(a, s), 1) = a /\ At(Cons(a, s), 2) = At(s, 1)
         /\ Behind(Cons(a, s), 1) = s /\ Behind(Cons(a, s), 2) = Behind(s, 1)
<1>1. s \in Seq(Char)
  BY DEF Text
<1>2. /\ Cons(a, s) \in Text /\ Cons(a, s) # <<>> /\ Len(Cons(a, s)) = Len(s) + 1
      /\ Head(Cons(a, s)) = a /\ Tail(Cons(a, s)) = s
  BY <1>1, ConsIs DEF Text
<1>3. At(Cons(a, s), 1) = a
  BY <1>1, BehindCons
<1>4. At(Cons(a, s), 1 + 1) = At(s, 1)
  BY <1>1, BehindCons
<1>5. Behind(Cons(a, s), 0 + 1) = Behind(s, 0)
  BY <1>1, BehindCons
<1>6. Behind(s, 0) = s
  BY <1>1, BehindCons
<1>7. Behind(Cons(a, s), 1 + 1) = Behind(s, 1)
  BY <1>1, BehindCons
<1>8. <<a>> \o s = Cons(a, s)
  BY DEF Cons
<1> QED BY <1>2, <1>3, <1>4, <1>5, <1>6, <1>7, <1>8

LEMMA TextTwo ==
  ASSUME NEW a \in Char, NEW b \in Char, NEW s \in Text
  PROVE  <<a, b>> \o s = Cons(a, Cons(b, s)) /\ <<a, b>> \o s \in Text
<1>1. s \in Seq(Char)
  BY DEF Text
<1>2. <<a, b>> \o s = Cons(a, Cons(b, s))
  BY <1>1, TwoJoined
<1> QED BY <1>2, TextCons

LEMMA TextJoined ==
  /\ \A s, t \in Text : s \o t \in Text
  /\ \A s \in Text : <<>> \o s = s /\ s \o <<>> = s
  /\ \A s, t, u \in Text : (s \o t) \o u = s \o (t \o u)
  /\ \A a \in Char, s, t \in Text : Cons(a, s) \o t = Cons(a, s \o t)
<1>1. ASSUME NEW s \in Text, NEW t \in Text PROVE s \o t \in Text
  BY Joined DEF Text
<1>2. ASSUME NEW s \in Text PROVE <<>> \o s = s /\ s \o <<>> = s
  BY Joined DEF Text
<1>3. ASSUME NEW s \in Text, NEW t \in Text, NEW u \in Text PROVE (s \o t) \o u = s \o (t \o u)
  BY JoinedThrice DEF Text
<1>4. ASSUME NEW a \in Char, NEW s \in Text, NEW t \in Text PROVE Cons(a, s) \o t = Cons(a, s \o t)
  BY ConsJoined DEF Text
<1> QED BY <1>1, <1>2, <1>3, <1>4

LEMMA CharIs ==
  /\ Quote \in Char /\ Backslash \in Char /\ Quote # Backslash
  /\ Special = {Quote, Backslash} /\ Special \subseteq Char
  /\ Special \cap Delimiter = {} /\ Delimiter \subseteq Char
<1>1. Special = {Quote, Backslash}
  BY DEF Special
<1>2. Quote # Backslash
  BY DEF Quote, Backslash
<1>3. Special \cap Delimiter = {}
  BY DEF Special, Delimiter, Quote, Backslash
<1> QED BY <1>1, <1>2, <1>3, TextAssumption

-----------------------------------------------------------------------------
(***************************************************************************)
(* The functions of PgText by their equations. Each is recursive, with     *)
(* its next argument shorter, and so an instance of Descent: X = XFrom's   *)
(* function, and what it gives for a text that begins with a character.    *)
(***************************************************************************)
Length(s) == Len(s)
IsText(value, s) == value \in Text
IsNumber(value, s) == value \in Nat
IsWithin(value, s) == value \in Text /\ Len(value) <= Len(s)

LEMMA LengthIs == \A s \in Text : Length(s) \in Nat
BY TextIs DEF Length

LEMMA NothingAt == \A i : At(<<>>, i) = ""
<1>1. Len(<<>>) = 0 /\ \A i : i \notin 1 .. 0
  OBVIOUS
<1> QED BY <1>1 DEF At

\* A text that goes on: its first character, and two parts that are shorter.
LEMMA TextParts ==
  ASSUME NEW s \in Text, s # <<>>
  PROVE  \E c \in Char, t \in Text :
           /\ s = Cons(c, t) /\ Tail(s) = t /\ Len(t) < Len(s)
           /\ Behind(t, 1) \in Text /\ Len(Behind(t, 1)) < Len(s)
<1>1. /\ Head(s) \in Char /\ Tail(s) \in Text /\ Len(Tail(s)) < Len(s)
      /\ s = Cons(Head(s), Tail(s))
  BY TextIs
<1>2. Behind(Tail(s), 1) \in Text /\ Len(Behind(Tail(s), 1)) <= Len(Tail(s))
  BY <1>1, TextIs
<1>3. Len(s) \in Nat /\ Len(Tail(s)) \in Nat /\ Len(Behind(Tail(s), 1)) \in Nat
  BY <1>1, <1>2, TextIs
<1>4. PICK c \in Char, t \in Text : c = Head(s) /\ t = Tail(s)
  BY <1>1
<1>5. s = Cons(c, t) /\ Len(t) < Len(s) /\ Behind(t, 1) \in Text /\ Len(Behind(t, 1)) < Len(s)
  BY <1>1, <1>2, <1>3, <1>4
<1> QED BY <1>4, <1>5

DoubledFrom(f, s, a, b) ==
  IF s = <<>> THEN <<>>
  ELSE (IF Head(s) \in Special THEN <<Head(s), Head(s)>> ELSE <<Head(s)>>) \o f[Tail(s)]

Doublings == INSTANCE Descent WITH Dom <- Text, Rank <- Length, Body <- DoubledFrom, Good <- IsText

\* The same step, on a text in two parts.
LEMMA DoubledStep ==
  ASSUME NEW c \in Char, NEW s \in Text, NEW f, f[s] \in Text
  PROVE  /\ DoubledFrom(f, Cons(c, s), 0, 0) = IF c \in Special THEN Cons(c, Cons(c, f[s]))
                                                               ELSE Cons(c, f[s])
         /\ DoubledFrom(f, Cons(c, s), 0, 0) \in Text
<1>1. Cons(c, s) # <<>> /\ Head(Cons(c, s)) = c /\ Tail(Cons(c, s)) = s
  BY TextCons
<1>2. DoubledFrom(f, Cons(c, s), 0, 0) = (IF c \in Special THEN <<c, c>> ELSE <<c>>) \o f[s]
  BY <1>1 DEF DoubledFrom
<1>3. CASE c \in Special
  BY <1>2, <1>3, TextCons, TextTwo
<1>4. CASE c \notin Special
  <2>1. DoubledFrom(f, Cons(c, s), 0, 0) = <<c>> \o f[s]
    BY <1>2, <1>4
  <2>2. <<c>> \o f[s] = Cons(c, f[s])
    BY DEF Cons
  <2>3. Cons(c, f[s]) \in Text
    BY TextCons
  <2> QED BY <1>4, <2>1, <2>2, <2>3
<1> QED BY <1>3, <1>4

LEMMA DoubledIs ==
  /\ \A s \in Text : Doubled[s] \in Text
  /\ Doubled[<<>>] = <<>>
  /\ \A c \in Char, s \in Text :
       Doubled[Cons(c, s)] = IF c \in Special THEN Cons(c, Cons(c, Doubled[s]))
                                              ELSE Cons(c, Doubled[s])
<1>1. Doublings!Steps(0, 0)
  <2> SUFFICES ASSUME NEW s \in Text, NEW f, s # <<>>, f[Tail(s)] \in Text
               PROVE  DoubledFrom(f, s, 0, 0) \in Text
    BY TextIs DEF Doublings!Steps, DoubledFrom, Length, IsText
  <2>1. PICK c \in Char, t \in Text : s = Cons(c, t) /\ t = Tail(s)
    BY TextIs
  <2> QED BY <2>1, DoubledStep
<1>2. Doubled = Doublings!Fun(0, 0)
  BY DEF Doubled, Doublings!Fun, DoubledFrom
<1>3. \A s \in Text : Doubled[s] = DoubledFrom(Doubled, s, 0, 0) /\ Doubled[s] \in Text
  BY <1>1, <1>2, LengthIs, Doublings!Descends DEF Doublings!Ranked, IsText
<1>4. Doubled[<<>>] = <<>>
  BY <1>3, TextIs DEF DoubledFrom
<1>5. ASSUME NEW c \in Char, NEW s \in Text
      PROVE  Doubled[Cons(c, s)] = IF c \in Special THEN Cons(c, Cons(c, Doubled[s]))
                                                    ELSE Cons(c, Doubled[s])
  <2>1. Doubled[Cons(c, s)] = DoubledFrom(Doubled, Cons(c, s), 0, 0)
    BY <1>3, TextCons
  <2> QED BY <1>3, <2>1, DoubledStep
<1> QED BY <1>3, <1>4, <1>5

\* _re_undouble
UndoubleFrom(f, s, a, b) ==
  IF s = <<>> THEN <<>>
  ELSE <<Head(s)>> \o
       (IF Head(s) \in Special /\ At(s, 2) = Head(s) THEN f[Behind(s, 2)] ELSE f[Tail(s)])

Undoublings == INSTANCE Descent WITH Dom <- Text, Rank <- Length, Body <- UndoubleFrom, Good <- IsText

LEMMA UndoubleStep ==
  ASSUME NEW c \in Char, NEW s \in Text, NEW f
  PROVE  UndoubleFrom(f, Cons(c, s), 0, 0) =
           Cons(c, IF c \in Special /\ At(s, 1) = c THEN f[Behind(s, 1)] ELSE f[s])
<1>1. /\ Cons(c, s) # <<>> /\ Head(Cons(c, s)) = c /\ Tail(Cons(c, s)) = s
      /\ At(Cons(c, s), 2) = At(s, 1) /\ Behind(Cons(c, s), 2) = Behind(s, 1)
  BY TextCons
<1> QED BY <1>1 DEF UndoubleFrom, Cons

LEMMA UndoubleIs ==
  /\ \A s \in Text : Undouble[s] \in Text
  /\ Undouble[<<>>] = <<>>
  /\ \A c \in Char, s \in Text :
       /\ c \notin Special => Undouble[Cons(c, s)] = Cons(c, Undouble[s])
       /\ c \in Special => Undouble[Cons(c, Cons(c, s))] = Cons(c, Undouble[s])
<1>1. Undoublings!Steps(0, 0)
  <2> SUFFICES ASSUME NEW s \in Text, NEW f, s # <<>>
               PROVE  \E y \in Text :
                        /\ Len(y) < Len(s)
                        /\ f[y] \in Text => UndoubleFrom(f, s, 0, 0) \in Text
                        /\ \A g : g[y] = f[y] => UndoubleFrom(g, s, 0, 0) = UndoubleFrom(f, s, 0, 0)
    BY TextIs DEF Undoublings!Steps, UndoubleFrom, Length, IsText
  <2>1. PICK c \in Char, t \in Text :
          /\ s = Cons(c, t) /\ Tail(s) = t /\ Len(t) < Len(s)
          /\ Behind(t, 1) \in Text /\ Len(Behind(t, 1)) < Len(s)
    BY TextParts
  <2> DEFINE y == IF c \in Special /\ At(t, 1) = c THEN Behind(t, 1) ELSE t
  <2>2. y \in Text /\ Len(y) < Len(s)
    BY <2>1
  <2>3. \A g : UndoubleFrom(g, s, 0, 0) = Cons(c, g[y])
    BY <2>1, UndoubleStep
  <2> HIDE DEF y
  <2>4. ASSUME f[y] \in Text PROVE UndoubleFrom(f, s, 0, 0) \in Text
    <3>1. Cons(c, f[y]) \in Text
      BY <2>4, TextCons
    <3> QED BY <2>3, <3>1
  <2>5. \A g : g[y] = f[y] => UndoubleFrom(g, s, 0, 0) = UndoubleFrom(f, s, 0, 0)
    BY <2>3
  <2> QED BY <2>2, <2>4, <2>5
<1>2. Undouble = Undoublings!Fun(0, 0)
  BY DEF Undouble, Undoublings!Fun, UndoubleFrom
<1>3. \A s \in Text : Undouble[s] = UndoubleFrom(Undouble, s, 0, 0) /\ Undouble[s] \in Text
  BY <1>1, <1>2, LengthIs, Undoublings!Descends DEF Undoublings!Ranked, IsText
<1>4. Undouble[<<>>] = <<>>
  BY <1>3, TextIs DEF UndoubleFrom
<1>5. ASSUME NEW c \in Char, NEW s \in Text
      PROVE  Undouble[Cons(c, s)] =
               Cons(c, IF c \in Special /\ At(s, 1) = c THEN Undouble[Behind(s, 1)] ELSE Undouble[s])
  <2>1. Undouble[Cons(c, s)] = UndoubleFrom(Undouble, Cons(c, s), 0, 0)
    BY <1>3, TextCons
  <2> QED BY <2>1, UndoubleStep
<1>6. ASSUME NEW c \in Char, NEW s \in Text
      PROVE  /\ c \notin Special => Undouble[Cons(c, s)] = Cons(c, Undouble[s])
             /\ c \in Special => Undouble[Cons(c, Cons(c, s))] = Cons(c, Undouble[s])
  <2>1. CASE c \notin Special
    BY <1>5, <2>1
  <2>2. CASE c \in Special
    <3>1. Cons(c, s) \in Text /\ At(Cons(c, s), 1) = c /\ Behind(Cons(c, s), 1) = s
      BY TextCons
    <3> QED BY <1>5, <2>2, <3>1
  <2> QED BY <2>1, <2>2
<1> QED BY <1>3, <1>4, <1>6

\* The text of an hstore, as the server prints it.
EscapedFrom(f, s, a, b) ==
  IF s = <<>> THEN <<>>
  ELSE (IF Head(s) \in Special THEN <<Backslash, Head(s)>> ELSE <<Head(s)>>) \o f[Tail(s)]

Escapings == INSTANCE Descent WITH Dom <- Text, Rank <- Length, Body <- EscapedFrom, Good <- IsText

LEMMA EscapedStep ==
  ASSUME NEW c \in Char, NEW s \in Text, NEW f, f[s] \in Text
  PROVE  /\ EscapedFrom(f, Cons(c, s), 0, 0) = IF c \in Special THEN Cons(Backslash, Cons(c, f[s]))
                                                               ELSE Cons(c, f[s])
         /\ EscapedFrom(f, Cons(c, s), 0, 0) \in Text
<1>1. Cons(c, s) # <<>> /\ Head(Cons(c, s)) = c /\ Tail(Cons(c, s)) = s
  BY TextCons
<1>2. EscapedFrom(f, Cons(c, s), 0, 0) = (IF c \in Special THEN <<Backslash, c>> ELSE <<c>>) \o f[s]
  BY <1>1 DEF EscapedFrom
<1>3. CASE c \in Special
  <2>1. EscapedFrom(f, Cons(c, s), 0, 0) = <<Backslash, c>> \o f[s]
    BY <1>2, <1>3
  <2>2. Backslash \in Char
    BY CharIs
  <2> QED BY <1>3, <2>1, <2>2, TextTwo
<1>4. CASE c \notin Special
  <2>1. EscapedFrom(f, Cons(c, s), 0, 0) = <<c>> \o f[s]
    BY <1>2, <1>4
  <2>2. <<c>> \o f[s] = Cons(c, f[s])
    BY DEF Cons
  <2>3. Cons(c, f[s]) \in Text
    BY TextCons
  <2> QED BY <1>4, <2>1, <2>2, <2>3
<1> QED BY <1>3, <1>4

LEMMA EscapedIs ==
  /\ \A s \in Text : Escaped[s] \in Text
  /\ Escaped[<<>>] = <<>>
  /\ \A c \in Char, s \in Text :
       Escaped[Cons(c, s)] = IF c \in Special THEN Cons(Backslash, Cons(c, Escaped[s]))
                                              ELSE Cons(c, Escaped[s])
<1>1. Escapings!Steps(0, 0)
  <2> SUFFICES ASSUME NEW s \in Text, NEW f, s # <<>>, f[Tail(s)] \in Text
               PROVE  EscapedFrom(f, s, 0, 0) \in Text
    BY TextIs DEF Escapings!Steps, EscapedFrom, Length, IsText
  <2>1. PICK c \in Char, t \in Text : s = Cons(c, t) /\ t = Tail(s)
    BY TextIs
  <2> QED BY <2>1, EscapedStep
<1>2. Escaped = Escapings!Fun(0, 0)
  BY DEF Escaped, Escapings!Fun, EscapedFrom
<1>3. \A s \in Text : Escaped[s] = EscapedFrom(Escaped, s, 0, 0) /\ Escaped[s] \in Text
  BY <1>1, <1>2, LengthIs, Escapings!Descends DEF Escapings!Ranked, IsText
<1>4. Escaped[<<>>] = <<>>
  BY <1>3, TextIs DEF EscapedFrom
<1>5. ASSUME NEW c \in Char, NEW s \in Text
      PROVE  Escaped[Cons(c, s)] = IF c \in Special THEN Cons(Backslash, Cons(c, Escaped[s]))
                                                    ELSE Cons(c, Escaped[s])
  <2>1. Escaped[Cons(c, s)] = EscapedFrom(Escaped, Cons(c, s), 0, 0)
    BY <1>3, TextCons
  <2> QED BY <1>3, <2>1, EscapedStep
<1> QED BY <1>3, <1>4, <1>5

\* _bsdec
UnescapeFrom(f, s, a, b) ==
  IF s = <<>> THEN <<>>
  ELSE IF Head(s) = Backslash /\ Len(s) > 1 THEN <<s[2]>> \o f[Behind(s, 2)]
  ELSE <<Head(s)>> \o f[Tail(s)]

Unescapings == INSTANCE Descent WITH Dom <- Text, Rank <- Length, Body <- UnescapeFrom, Good <- IsText

LEMMA UnescapeStep ==
  ASSUME NEW c \in Char, NEW s \in Text, NEW f
  PROVE  UnescapeFrom(f, Cons(c, s), 0, 0) = IF c = Backslash /\ s # <<>>
                                             THEN Cons(Head(s), f[Behind(s, 1)])
                                             ELSE Cons(c, f[s])
<1>1. /\ Cons(c, s) # <<>> /\ Head(Cons(c, s)) = c /\ Tail(Cons(c, s)) = s
      /\ Behind(Cons(c, s), 2) = Behind(s, 1)
  BY TextCons
<1>2. (Len(Cons(c, s)) > 1 <=> s # <<>>) /\ (s # <<>> => Cons(c, s)[2] = Head(s))
  <2>1. s \in Seq(Char)
    BY DEF Text
  <2>2. /\ Len(Cons(c, s)) = Len(s) + 1 /\ Len(s) \in Nat
        /\ \A i \in 1 .. Len(s) : Cons(c, s)[i + 1] = s[i]
    BY <2>1, ConsIs
  <2>3. s # <<>> <=> Len(s) >= 1
    BY <2>1
  <2>4. s # <<>> => Cons(c, s)[1 + 1] = s[1]
    BY <2>2, <2>3
  <2> QED BY <2>2, <2>3, <2>4, TextIs
<1>3. UnescapeFrom(f, Cons(c, s), 0, 0) = IF c = Backslash /\ s # <<>>
                                          THEN <<Cons(c, s)[2]>> \o f[Behind(s, 1)]
                                          ELSE <<c>> \o f[s]
  BY <1>1, <1>2 DEF UnescapeFrom
<1> QED BY <1>2, <1>3 DEF Cons

LEMMA UnescapeIs ==
  /\ \A s \in Text : Unescape[s] \in Text
  /\ Unescape[<<>>] = <<>>
  /\ \A c \in Char, s \in Text :
       /\ c # Backslash => Unescape[Cons(c, s)] = Cons(c, Unescape[s])
       /\ Unescape[Cons(Backslash, Cons(c, s))] = Cons(c, Unescape[s])
<1>1. Unescapings!Steps(0, 0)
  <2> SUFFICES ASSUME NEW s \in Text, NEW f, s # <<>>
               PROVE  \E y \in Text :
                        /\ Len(y) < Len(s)
                        /\ f[y] \in Text => UnescapeFrom(f, s, 0, 0) \in Text
                        /\ \A g : g[y] = f[y] => UnescapeFrom(g, s, 0, 0) = UnescapeFrom(f, s, 0, 0)
    BY TextIs DEF Unescapings!Steps, UnescapeFrom, Length, IsText
  <2>1. PICK c \in Char, t \in Text :
          /\ s = Cons(c, t) /\ Tail(s) = t /\ Len(t) < Len(s)
          /\ Behind(t, 1) \in Text /\ Len(Behind(t, 1)) < Len(s)
    BY TextParts
  <2> DEFINE y == IF c = Backslash /\ t # <<>> THEN Behind(t, 1) ELSE t
             d == IF c = Backslash /\ t # <<>> THEN Head(t) ELSE c
  <2>2. y \in Text /\ Len(y) < Len(s) /\ d \in Char
    BY <2>1, TextIs
  <2>3. \A g : UnescapeFrom(g, s, 0, 0) = Cons(d, g[y])
    BY <2>1, UnescapeStep
  <2> HIDE DEF y, d
  <2>4. ASSUME f[y] \in Text PROVE UnescapeFrom(f, s, 0, 0) \in Text
    <3>1. Cons(d, f[y]) \in Text
      BY <2>2, <2>4, TextCons
    <3> QED BY <2>3, <3>1
  <2>5. \A g : g[y] = f[y] => UnescapeFrom(g, s, 0, 0) = UnescapeFrom(f, s, 0, 0)
    BY <2>3
  <2> QED BY <2>2, <2>4, <2>5
<1>2. Unescape = Unescapings!Fun(0, 0)
  BY DEF Unescape, Unescapings!Fun, UnescapeFrom
<1>3. \A s \in Text : Unescape[s] = UnescapeFrom(Unescape, s, 0, 0) /\ Unescape[s] \in Text
  BY <1>1, <1>2, LengthIs, Unescapings!Descends DEF Unescapings!Ranked, IsText
<1>4. Unescape[<<>>] = <<>>
  BY <1>3, TextIs DEF UnescapeFrom
<1>5. ASSUME NEW c \in Char, NEW s \in Text
      PROVE  Unescape[Cons(c, s)] = IF c = Backslash /\ s # <<>>
                                    THEN Cons(Head(s), Unescape[Behind(s, 1)])
                                    ELSE Cons(c, Unescape[s])
  <2>1. Unescape[Cons(c, s)] = UnescapeFrom(Unescape, Cons(c, s), 0, 0)
    BY <1>3, TextCons
  <2> QED BY <2>1, UnescapeStep
<1>6. ASSUME NEW c \in Char, NEW s \in Text
      PROVE  /\ c # Backslash => Unescape[Cons(c, s)] = Cons(c, Unescape[s])
             /\ Unescape[Cons(Backslash, Cons(c, s))] = Cons(c, Unescape[s])
  <2>1. /\ Cons(c, s) \in Text /\ Cons(c, s) # <<>>
        /\ Head(Cons(c, s)) = c /\ Behind(Cons(c, s), 1) = s
    BY TextCons
  <2> QED BY <1>5, <2>1, CharIs
<1> QED BY <1>3, <1>4, <1>6

\* (?: [^"] | "")*
QuotedFrom(f, s, a, b) ==
  IF s = <<>> \/ (Head(s) = Quote /\ At(s, 2) # Quote) THEN 0
  ELSE IF Head(s) = Quote THEN 2 + f[Behind(s, 2)]
  ELSE 1 + f[Tail(s)]

Quotations == INSTANCE Descent WITH Dom <- Text, Rank <- Length, Body <- QuotedFrom, Good <- IsNumber

LEMMA QuotedStep ==
  ASSUME NEW c \in Char, NEW s \in Text, NEW f
  PROVE  QuotedFrom(f, Cons(c, s), 0, 0) =
           IF c = Quote THEN IF At(s, 1) = Quote THEN 2 + f[Behind(s, 1)] ELSE 0
           ELSE 1 + f[s]
<1>1. /\ Cons(c, s) # <<>> /\ Head(Cons(c, s)) = c /\ Tail(Cons(c, s)) = s
      /\ At(Cons(c, s), 2) = At(s, 1) /\ Behind(Cons(c, s), 2) = Behind(s, 1)
  BY TextCons
<1> QED BY <1>1 DEF QuotedFrom

LEMMA QuotedIs ==
  /\ \A s \in Text : Quoted[s] \in Nat
  /\ \A c \in Char, s \in Text :
       /\ c # Quote => /\ Quoted[Cons(c, s)] = 1 + Quoted[s]
                       /\ Quoted[Cons(Quote, Cons(c, s))] = 0
       /\ Quoted[Cons(Quote, Cons(Quote, s))] = 2 + Quoted[s]
<1>1. Quotations!Steps(0, 0)
  <2> SUFFICES ASSUME NEW s \in Text, NEW f, s # <<>>
               PROVE  \/ QuotedFrom(f, s, 0, 0) \in Nat /\ \A g : QuotedFrom(g, s, 0, 0) = QuotedFrom(f, s, 0, 0)
                      \/ \E y \in Text :
                        /\ Len(y) < Len(s)
                        /\ f[y] \in Nat => QuotedFrom(f, s, 0, 0) \in Nat
                        /\ \A g : g[y] = f[y] => QuotedFrom(g, s, 0, 0) = QuotedFrom(f, s, 0, 0)
    BY TextIs DEF Quotations!Steps, QuotedFrom, Length, IsNumber
  <2>1. PICK c \in Char, t \in Text :
          /\ s = Cons(c, t) /\ Tail(s) = t /\ Len(t) < Len(s)
          /\ Behind(t, 1) \in Text /\ Len(Behind(t, 1)) < Len(s)
    BY TextParts
  <2>2. CASE c = Quote /\ At(t, 1) # Quote
    <3>1. \A g : QuotedFrom(g, s, 0, 0) = 0
      BY <2>1, <2>2, QuotedStep
    <3> QED BY <3>1
  <2>3. CASE ~ (c = Quote /\ At(t, 1) # Quote)
    <3> DEFINE y == IF c = Quote THEN Behind(t, 1) ELSE t
               n == IF c = Quote THEN 2 ELSE 1
    <3>1. y \in Text /\ Len(y) < Len(s) /\ n \in Nat
      BY <2>1
    <3>2. \A g : QuotedFrom(g, s, 0, 0) = n + g[y]
      BY <2>1, <2>3, QuotedStep
    <3> HIDE DEF y, n
    <3>3. f[y] \in Nat => QuotedFrom(f, s, 0, 0) \in Nat
      BY <3>1, <3>2
    <3>4. \A g : g[y] = f[y] => QuotedFrom(g, s, 0, 0) = QuotedFrom(f, s, 0, 0)
      BY <3>2
    <3> QED BY <3>1, <3>3, <3>4
  <2> QED BY <2>2, <2>3
<1>2. Quoted = Quotations!Fun(0, 0)
  BY DEF Quoted, Quotations!Fun, QuotedFrom
<1>3. \A s \in Text : Quoted[s] = QuotedFrom(Quoted, s, 0, 0) /\ Quoted[s] \in Nat
  BY <1>1, <1>2, LengthIs, Quotations!Descends DEF Quotations!Ranked, IsNumber
<1>4. ASSUME NEW c \in Char, NEW s \in Text
      PROVE  Quoted[Cons(c, s)] =
               IF c = Quote THEN IF At(s, 1) = Quote THEN 2 + Quoted[Behind(s, 1)] ELSE 0
               ELSE 1 + Quoted[s]
  <2>1. Quoted[Cons(c, s)] = QuotedFrom(Quoted, Cons(c, s), 0, 0)
    BY <1>3, TextCons
  <2> QED BY <2>1, QuotedStep
<1>5. ASSUME NEW c \in Char, NEW s \in Text
      PROVE  /\ c # Quote => /\ Quoted[Cons(c, s)] = 1 + Quoted[s]
                             /\ Quoted[Cons(Quote, Cons(c, s))] = 0
             /\ Quoted[Cons(Quote, Cons(Quote, s))] = 2 + Quoted[s]
  <2>1. /\ Cons(c, s) \in Text /\ At(Cons(c, s), 1) = c /\ Quote \in Char
        /\ Cons(Quote, s) \in Text /\ At(Cons(Quote, s), 1) = Quote /\ Behind(Cons(Quote, s), 1) = s
    BY TextCons, CharIs
  <2> QED BY <1>4, <2>1
<1> QED BY <1>3, <1>5

\* (?: [^"\\] | \\. )*
InEscapesFrom(f, s, a, b) ==
  IF s = <<>> \/ Head(s) = Quote THEN 0
  ELSE IF Head(s) = Backslash /\ Len(s) > 1 THEN 2 + f[Behind(s, 2)]
  ELSE 1 + f[Tail(s)]

EscapeRuns == INSTANCE Descent WITH Dom <- Text, Rank <- Length, Body <- InEscapesFrom, Good <- IsNumber

LEMMA InEscapesStep ==
  ASSUME NEW c \in Char, NEW s \in Text, NEW f
  PROVE  InEscapesFrom(f, Cons(c, s), 0, 0) =
           IF c = Quote THEN 0
           ELSE IF c = Backslash /\ s # <<>> THEN 2 + f[Behind(s, 1)]
           ELSE 1 + f[s]
<1>1. /\ Cons(c, s) # <<>> /\ Head(Cons(c, s)) = c /\ Tail(Cons(c, s)) = s
      /\ Behind(Cons(c, s), 2) = Behind(s, 1)
  BY TextCons
<1>2. Len(Cons(c, s)) > 1 <=> s # <<>>
  <2>1. s \in Seq(Char)
    BY DEF Text
  <2>2. s # <<>> <=> Len(s) >= 1
    BY <2>1
  <2>3. Len(Cons(c, s)) = Len(s) + 1 /\ Len(s) \in Nat
    BY <2>1, ConsIs
  <2> QED BY <2>2, <2>3
<1> QED BY <1>1, <1>2 DEF InEscapesFrom

LEMMA InEscapesIs ==
  /\ \A s \in Text : InEscapes[s] \in Nat
  /\ \A c \in Char, s \in Text :
       /\ InEscapes[Cons(Quote, s)] = 0
       /\ c \notin Special => InEscapes[Cons(c, s)] = 1 + InEscapes[s]
       /\ InEscapes[Cons(Backslash, Cons(c, s))] = 2 + InEscapes[s]
<1>1. EscapeRuns!Steps(0, 0)
  <2> SUFFICES ASSUME NEW s \in Text, NEW f, s # <<>>
               PROVE  \/ InEscapesFrom(f, s, 0, 0) \in Nat /\ \A g : InEscapesFrom(g, s, 0, 0) = InEscapesFrom(f, s, 0, 0)
                      \/ \E y \in Text :
                        /\ Len(y) < Len(s)
                        /\ f[y] \in Nat => InEscapesFrom(f, s, 0, 0) \in Nat
                        /\ \A g : g[y] = f[y] => InEscapesFrom(g, s, 0, 0) = InEscapesFrom(f, s, 0, 0)
    BY TextIs DEF EscapeRuns!Steps, InEscapesFrom, Length, IsNumber
  <2>1. PICK c \in Char, t \in Text :
          /\ s = Cons(c, t) /\ Tail(s) = t /\ Len(t) < Len(s)
          /\ Behind(t, 1) \in Text /\ Len(Behind(t, 1)) < Len(s)
    BY TextParts
  <2>2. CASE c = Quote
    <3>1. \A g : InEscapesFrom(g, s, 0, 0) = 0
      BY <2>1, <2>2, InEscapesStep
    <3> QED BY <3>1
  <2>3. CASE c # Quote
    <3> DEFINE y == IF c = Backslash /\ t # <<>> THEN Behind(t, 1) ELSE t
               n == IF c = Backslash /\ t # <<>> THEN 2 ELSE 1
    <3>1. y \in Text /\ Len(y) < Len(s) /\ n \in Nat
      BY <2>1
    <3>2. \A g : InEscapesFrom(g, s, 0, 0) = n + g[y]
      BY <2>1, <2>3, InEscapesStep
    <3> HIDE DEF y, n
    <3>3. f[y] \in Nat => InEscapesFrom(f, s, 0, 0) \in Nat
      BY <3>1, <3>2
    <3>4. \A g : g[y] = f[y] => InEscapesFrom(g, s, 0, 0) = InEscapesFrom(f, s, 0, 0)
      BY <3>2
    <3> QED BY <3>1, <3>3, <3>4
  <2> QED BY <2>2, <2>3
<1>2. InEscapes = EscapeRuns!Fun(0, 0)
  BY DEF InEscapes, EscapeRuns!Fun, InEscapesFrom
<1>3. \A s \in Text : InEscapes[s] = InEscapesFrom(InEscapes, s, 0, 0) /\ InEscapes[s] \in Nat
  BY <1>1, <1>2, LengthIs, EscapeRuns!Descends DEF EscapeRuns!Ranked, IsNumber
<1>4. ASSUME NEW c \in Char, NEW s \in Text
      PROVE  InEscapes[Cons(c, s)] =
               IF c = Quote THEN 0
               ELSE IF c = Backslash /\ s # <<>> THEN 2 + InEscapes[Behind(s, 1)]
               ELSE 1 + InEscapes[s]
  <2>1. InEscapes[Cons(c, s)] = InEscapesFrom(InEscapes, Cons(c, s), 0, 0)
    BY <1>3, TextCons
  <2> QED BY <2>1, InEscapesStep
<1>5. ASSUME NEW c \in Char, NEW s \in Text
      PROVE  /\ InEscapes[Cons(Quote, s)] = 0
             /\ c \notin Special => InEscapes[Cons(c, s)] = 1 + InEscapes[s]
             /\ InEscapes[Cons(Backslash, Cons(c, s))] = 2 + InEscapes[s]
  <2>1. Cons(c, s) \in Text /\ Cons(c, s) # <<>> /\ Behind(Cons(c, s), 1) = s
    BY TextCons
  <2> QED BY <1>4, <2>1, CharIs
<1> QED BY <1>3, <1>5

\* \s*
StrippedFrom(f, s, a, b) == IF s # <<>> /\ Head(s) = " " THEN f[Tail(s)] ELSE s

Strippings == INSTANCE Descent WITH Dom <- Text, Rank <- Length, Body <- StrippedFrom, Good <- IsWithin

LEMMA StrippedIs ==
  /\ \A s \in Text : Stripped[s] \in Text /\ Len(Stripped[s]) <= Len(s)
  /\ Stripped[<<>>] = <<>>
  /\ \A c \in Char, s \in Text : Stripped[Cons(c, s)] = IF c = " " THEN Stripped[s] ELSE Cons(c, s)
<1>1. Strippings!Steps(0, 0)
  <2> SUFFICES ASSUME NEW s \in Text, NEW f
               PROVE  \/ IsWithin(StrippedFrom(f, s, 0, 0), s) /\ \A g : StrippedFrom(g, s, 0, 0) = StrippedFrom(f, s, 0, 0)
                      \/ \E y \in Text :
                        /\ Length(y) < Length(s)
                        /\ IsWithin(f[y], y) => IsWithin(StrippedFrom(f, s, 0, 0), s)
                        /\ \A g : g[y] = f[y] => StrippedFrom(g, s, 0, 0) = StrippedFrom(f, s, 0, 0)
    BY DEF Strippings!Steps
  <2>1. CASE s # <<>> /\ Head(s) = " "
    <3>1. \A g : StrippedFrom(g, s, 0, 0) = g[Tail(s)]
      BY <2>1 DEF StrippedFrom
    <3>2. Tail(s) \in Text /\ Len(Tail(s)) < Len(s) /\ Len(Tail(s)) \in Nat /\ Len(s) \in Nat
      BY <2>1, TextIs
    <3>3. IsWithin(f[Tail(s)], Tail(s)) => IsWithin(f[Tail(s)], s)
      BY <3>2, TextIs DEF IsWithin
    <3> QED BY <3>1, <3>2, <3>3 DEF Length
  <2>2. CASE ~ (s # <<>> /\ Head(s) = " ")
    <3>1. \A g : StrippedFrom(g, s, 0, 0) = s
      BY <2>2 DEF StrippedFrom
    <3> QED BY <3>1, TextIs DEF IsWithin
  <2> QED BY <2>1, <2>2
<1>2. Stripped = Strippings!Fun(0, 0)
  BY DEF Stripped, Strippings!Fun, StrippedFrom
<1>3. \A s \in Text : Stripped[s] = StrippedFrom(Stripped, s, 0, 0) /\ IsWithin(Stripped[s], s)
  BY <1>1, <1>2, LengthIs, Strippings!Descends DEF Strippings!Ranked
<1>4. Stripped[<<>>] = <<>>
  BY <1>3, TextIs DEF StrippedFrom
<1>5. ASSUME NEW c \in Char, NEW s \in Text
      PROVE  Stripped[Cons(c, s)] = IF c = " " THEN Stripped[s] ELSE Cons(c, s)
  <2>1. Cons(c, s) \in Text /\ Cons(c, s) # <<>> /\ Head(Cons(c, s)) = c /\ Tail(Cons(c, s)) = s
    BY TextCons
  <2>2. Stripped[Cons(c, s)] = StrippedFrom(Stripped, Cons(c, s), 0, 0)
    BY <1>3, <2>1
  <2> QED BY <2>1, <2>2 DEF StrippedFrom
<1> QED BY <1>3, <1>4, <1>5 DEF IsWithin

-----------------------------------------------------------------------------
(***************************************************************************)
(* What the parser undoes is what the server did, character after          *)
(* character: induction over a text, with the set of the texts for which   *)
(* it holds.                                                               *)
(***************************************************************************)
LEMMA SequenceInduction ==
  ASSUME NEW A, NEW T, <<>> \in T,
         \A a \in A, s \in Seq(A) : s \in T => Cons(a, s) \in T
  PROVE  Seq(A) \subseteq T
<1> DEFINE Bad == {n \in Nat : \E s \in Seq(A) : Len(s) = n /\ s \notin T}
<1>1. SUFFICES ASSUME Bad # {} PROVE FALSE
  <2>1. \A s \in Seq(A) : Len(s) \in Nat
    OBVIOUS
  <2> QED BY <2>1
<1>2. PICK n \in Bad : \A m \in Bad : n <= m
  <2> HIDE DEF Bad
  <2>1. Bad \subseteq Nat
    BY DEF Bad
  <2> QED BY <1>1, <2>1, Doublings!LeastNumber
<1>3. PICK s \in Seq(A) : Len(s) = n /\ s \notin T
  BY <1>2
<1>4. s # <<>>
  BY <1>3
<1>5. Head(s) \in A /\ Tail(s) \in Seq(A) /\ Len(Tail(s)) = n - 1 /\ n - 1 \in Nat
  BY <1>3, <1>4
<1>6. s = Cons(Head(s), Tail(s))
  BY <1>3, <1>4, Uncons
<1>7. Tail(s) \in T
  <2>1. n - 1 \notin Bad
    BY <1>2, <1>5
  <2> QED BY <1>5, <2>1
<1> QED BY <1>3, <1>5, <1>6, <1>7

LEMMA TextInduction ==
  ASSUME NEW T, <<>> \in T, \A c \in Char, s \in Text : s \in T => Cons(c, s) \in T
  PROVE  Text \subseteq T
BY SequenceInduction DEF Text

LEMMA ConsTwice ==
  ASSUME NEW b \in Char, NEW c \in Char, NEW s \in Text
  PROVE  /\ Cons(b, s) \in Text /\ Cons(c, s) \in Text /\ Cons(b, Cons(c, s)) \in Text
         /\ Len(Cons(b, Cons(c, s))) = Len(s) + 2
<1>1. PICK u \in Text : u = Cons(c, s) /\ Len(u) = Len(s) + 1
  BY TextCons
<1>2. Cons(b, s) \in Text /\ Cons(b, u) \in Text /\ Len(Cons(b, u)) = Len(u) + 1
  BY TextCons
<1>3. Len(s) \in Nat
  BY TextIs
<1> QED BY <1>1, <1>2, <1>3

LEMMA TextConsJoined ==
  ASSUME NEW c \in Char, NEW s \in Text, NEW t \in Text
  PROVE  Cons(c, s) \o t = Cons(c, s \o t)
BY ConsJoined DEF Text

\* What a quoted string has up to its end is the doubled text.
LEMMA QuotedDoubled ==
  ASSUME NEW d \in Char, d # Quote, NEW r \in Text
  PROVE  \A t \in Text : Quoted[Doubled[t] \o Cons(Quote, Cons(d, r))] = Len(Doubled[t])
<1> DEFINE e == Cons(Quote, Cons(d, r))
           T == {t \in Text : Quoted[Doubled[t] \o e] = Len(Doubled[t])}
<1>1. e \in Text /\ Quoted[e] = 0
  BY CharIs, TextCons, QuotedIs
<1> HIDE DEF e
<1>2. <<>> \in T
  <2>1. Doubled[<<>>] \o e = e /\ Len(Doubled[<<>>]) = 0
    BY <1>1, DoubledIs, TextJoined
  <2> QED BY <1>1, <2>1, TextIs
<1>3. ASSUME NEW c \in Char, NEW s \in Text, s \in T PROVE Cons(c, s) \in T
  <2>1. PICK u \in Text : u = Doubled[s]
    BY DoubledIs
  <2>2. PICK v \in Text : v = u \o e
    BY <1>1, TextJoined
  <2>3. Quoted[v] = Len(u) /\ Len(u) \in Nat
    BY <1>3, <2>1, <2>2, TextIs
  <2>4. Cons(c, s) \in Text
    BY TextCons
  <2>5. CASE c \in Special
    <3>1. Doubled[Cons(c, s)] = Cons(c, Cons(c, u))
      BY <2>1, <2>5, DoubledIs
    <3>2. Cons(c, u) \in Text /\ Cons(c, v) \in Text /\ Len(Cons(c, Cons(c, u))) = Len(u) + 2
      BY <2>3, ConsTwice
    <3>3. Cons(c, Cons(c, u)) \o e = Cons(c, Cons(c, v))
      <4>1. PICK w \in Text : w = Cons(c, u)
        BY TextCons
      <4>2. Cons(c, w) \o e = Cons(c, w \o e)
        BY <1>1, TextConsJoined, Zenon
      <4>3. w \o e = Cons(c, v)
        BY <1>1, <2>2, <4>1, TextConsJoined, Zenon
      <4> QED BY <4>1, <4>2, <4>3
    <3>4. Quoted[Cons(c, Cons(c, v))] = Len(u) + 2
      <4>1. CASE c = Quote
        BY <2>3, <4>1, QuotedIs
      <4>2. CASE c # Quote
        <5>1. Quoted[Cons(c, v)] = Len(u) + 1
          BY <2>3, <4>2, QuotedIs
        <5>2. Quoted[Cons(c, Cons(c, v))] = 1 + Quoted[Cons(c, v)]
          BY <3>2, <4>2, QuotedIs
        <5> QED BY <2>3, <5>1, <5>2
      <4> QED BY <4>1, <4>2
    <3> QED BY <2>4, <3>1, <3>2, <3>3, <3>4
  <2>6. CASE c \notin Special
    <3>1. Doubled[Cons(c, s)] = Cons(c, u) /\ Len(Cons(c, u)) = Len(u) + 1
      BY <2>1, <2>6, DoubledIs, TextCons
    <3>2. Cons(c, u) \o e = Cons(c, v)
      BY <1>1, <2>2, TextJoined
    <3>3. Quoted[Cons(c, v)] = Len(u) + 1
      BY <2>3, <2>6, CharIs, QuotedIs
    <3> QED BY <2>4, <3>1, <3>2, <3>3
  <2> QED BY <2>5, <2>6
<1>4. Text \subseteq T
  <2> HIDE DEF T
  <2> QED BY <1>2, <1>3, TextInduction
<1> QED BY <1>4 DEF e

LEMMA UndoubleDoubled ==
  \A t \in Text : Undouble[Doubled[t]] = t
<1> DEFINE T == {t \in Text : Undouble[Doubled[t]] = t}
<1>1. <<>> \in T
  BY DoubledIs, UndoubleIs, TextIs
<1>2. ASSUME NEW c \in Char, NEW s \in Text, s \in T PROVE Cons(c, s) \in T
  <2>1. PICK u \in Text : u = Doubled[s] /\ Undouble[u] = s
    BY <1>2, DoubledIs
  <2>2. Cons(c, s) \in Text
    BY TextCons
  <2>3. CASE c \in Special
    BY <2>1, <2>2, <2>3, DoubledIs, UndoubleIs
  <2>4. CASE c \notin Special
    BY <2>1, <2>2, <2>4, DoubledIs, UndoubleIs
  <2> QED BY <2>3, <2>4
<1>3. Text \subseteq T
  <2> HIDE DEF T
  <2> QED BY <1>1, <1>2, TextInduction
<1> QED BY <1>3

LEMMA InEscapesEscaped ==
  ASSUME NEW r \in Text
  PROVE  \A t \in Text : InEscapes[Escaped[t] \o Cons(Quote, r)] = Len(Escaped[t])
<1> DEFINE e == Cons(Quote, r)
           T == {t \in Text : InEscapes[Escaped[t] \o e] = Len(Escaped[t])}
<1>1. e \in Text /\ InEscapes[e] = 0
  BY CharIs, TextCons, InEscapesIs
<1> HIDE DEF e
<1>2. <<>> \in T
  <2>1. Escaped[<<>>] \o e = e /\ Len(Escaped[<<>>]) = 0
    BY <1>1, EscapedIs, TextJoined
  <2> QED BY <1>1, <2>1, TextIs
<1>3. ASSUME NEW c \in Char, NEW s \in Text, s \in T PROVE Cons(c, s) \in T
  <2>1. PICK u \in Text : u = Escaped[s]
    BY EscapedIs
  <2>2. PICK v \in Text : v = u \o e
    BY <1>1, TextJoined
  <2>3. InEscapes[v] = Len(u) /\ Len(u) \in Nat
    BY <1>3, <2>1, <2>2, TextIs
  <2>4. Cons(c, s) \in Text
    BY TextCons
  <2>5. CASE c \in Special
    <3>1. Escaped[Cons(c, s)] = Cons(Backslash, Cons(c, u))
      BY <2>1, <2>5, EscapedIs
    <3>2. Backslash \in Char
      BY CharIs
    <3>3. Len(Cons(Backslash, Cons(c, u))) = Len(u) + 2
      BY <3>2, ConsTwice
    <3>4. Cons(Backslash, Cons(c, u)) \o e = Cons(Backslash, Cons(c, v))
      <4>1. PICK w \in Text : w = Cons(c, u)
        BY TextCons
      <4>2. Cons(Backslash, w) \o e = Cons(Backslash, w \o e)
        BY <1>1, <3>2, TextConsJoined, Zenon
      <4>3. w \o e = Cons(c, v)
        BY <1>1, <2>2, <4>1, TextConsJoined, Zenon
      <4> QED BY <4>1, <4>2, <4>3
    <3>5. InEscapes[Cons(Backslash, Cons(c, v))] = Len(u) + 2
      BY <2>3, InEscapesIs
    <3> QED BY <2>4, <3>1, <3>3, <3>4, <3>5
  <2>6. CASE c \notin Special
    <3>1. Escaped[Cons(c, s)] = Cons(c, u) /\ Len(Cons(c, u)) = Len(u) + 1
      BY <2>1, <2>6, EscapedIs, TextCons
    <3>2. Cons(c, u) \o e = Cons(c, v)
      BY <1>1, <2>2, TextJoined
    <3>3. InEscapes[Cons(c, v)] = Len(u) + 1
      BY <2>3, <2>6, InEscapesIs
    <3> QED BY <2>4, <3>1, <3>2, <3>3
  <2> QED BY <2>5, <2>6
<1>4. Text \subseteq T
  <2> HIDE DEF T
  <2> QED BY <1>2, <1>3, TextInduction
<1> QED BY <1>4 DEF e

LEMMA UnescapeEscaped ==
  \A t \in Text : Unescape[Escaped[t]] = t
<1> DEFINE T == {t \in Text : Unescape[Escaped[t]] = t}
<1>1. <<>> \in T
  BY EscapedIs, UnescapeIs, TextIs
<1>2. ASSUME NEW c \in Char, NEW s \in Text, s \in T PROVE Cons(c, s) \in T
  <2>1. PICK u \in Text : u = Escaped[s] /\ Unescape[u] = s
    BY <1>2, EscapedIs
  <2>2. Cons(c, s) \in Text
    BY TextCons
  <2>3. CASE c \in Special
    BY <2>1, <2>2, <2>3, EscapedIs, UnescapeIs
  <2>4. CASE c \notin Special
    <3>1. c # Backslash
      BY <2>4, CharIs
    <3> QED BY <2>1, <2>2, <2>4, <3>1, EscapedIs, UnescapeIs
  <2> QED BY <2>3, <2>4
<1>3. Text \subseteq T
  <2> HIDE DEF T
  <2> QED BY <1>1, <1>2, TextInduction
<1> QED BY <1>3

LEMMA BeforeIs ==
  ASSUME NEW S, NEW s \in Text, NEW c \in S \cap Char, NEW r \in Text,
         \A i \in 1 .. Len(s) : s[i] \notin S
  PROVE  Before(s \o Cons(c, r), S) = Len(s)
<1>1. PICK t \in Text : t = Cons(c, r)
  BY TextCons
<1>2. t \in Seq(Char) /\ s \in Seq(Char) /\ Len(t) >= 1 /\ t[1] = c
  <2>1. t \in Seq(Char) /\ s \in Seq(Char) /\ r \in Seq(Char)
    BY DEF Text
  <2>2. Len(t) = Len(r) + 1 /\ Len(r) \in Nat /\ t[1] = c
    BY <1>1, <2>1, ConsIs
  <2> QED BY <2>1, <2>2
<1>3. PICK u : u = s \o t
  OBVIOUS
<1>4. /\ Len(s) \in Nat /\ Len(u) = Len(s) + Len(t) /\ Len(t) \in Nat
      /\ \A i \in 1 .. Len(s) : u[i] = s[i]
      /\ \A i \in 1 .. Len(t) : u[Len(s) + i] = t[i]
  BY <1>2, <1>3, Joined
<1> DEFINE J == {j \in 1 .. Len(u) : u[j] \in S} \cup {Len(u) + 1}
<1>5. Len(s) + 1 \in J
  <2>1. u[Len(s) + 1] = c /\ Len(s) + 1 \in 1 .. Len(u)
    BY <1>2, <1>4
  <2> QED BY <2>1
<1>6. \A j \in J : Len(s) + 1 <= j
  <2>1. ASSUME NEW j \in 1 .. Len(u), u[j] \in S PROVE Len(s) + 1 <= j
    BY <1>4, <2>1
  <2> QED BY <1>4, <2>1
<1>7. J \subseteq Int
  BY <1>4
<1> HIDE DEF J
<1>8. Min(J) = Len(s) + 1
  <2>1. \A m \in J : (\A j \in J : m <= j) => m = Len(s) + 1
    BY <1>4, <1>5, <1>6, <1>7
  <2> QED BY <1>5, <1>6, <2>1 DEF Min
<1>9. Before(u, S) = Min(J) - 1
  BY DEF Before, J
<1> QED BY <1>1, <1>3, <1>4, <1>8, <1>9

-----------------------------------------------------------------------------
(***************************************************************************)
(* One bound or field: what the server prints is read back, up to the      *)
(* character that stops it, whatever characters it has.                    *)
(***************************************************************************)
LEMMA BehindPart ==
  ASSUME NEW u \in Text, NEW c \in Char, NEW r \in Text
  PROVE  /\ u \o Cons(c, r) \in Text
         /\ Behind(u \o Cons(c, r), Len(u) + 1) = r
         /\ At(u \o Cons(c, r), Len(u) + 1) = c
         /\ (u \o Cons(c, r))[Len(u) + 1] = c
<1>1. PICK v \in Text : v = Cons(c, r) /\ At(v, 1) = c /\ Behind(v, 1) = r
  BY TextCons
<1>2. u \in Seq(Char) /\ v \in Seq(Char)
  BY DEF Text
<1>3. Behind(u \o v, Len(u) + 1) = r /\ At(u \o v, Len(u) + 1) = c
  BY <1>1, <1>2, BehindJoined, AtJoined
<1>4. (u \o v)[Len(u) + 1] = c
  <2>1. Len(v) >= 1 /\ v[1] = c
    <3>1. r \in Seq(Char)
      BY DEF Text
    <3>2. Len(v) = Len(r) + 1 /\ Len(r) \in Nat /\ v[1] = c
      BY <1>1, <3>1, ConsIs
    <3> QED BY <3>2
  <2>2. \A i \in 1 .. Len(v) : (u \o v)[Len(u) + i] = v[i]
    BY <1>2, Joined
  <2>3. 1 \in 1 .. Len(v)
    BY <1>2, <2>1
  <2> QED BY <2>1, <2>2, <2>3
<1>5. u \o v \in Text
  BY TextJoined
<1> QED BY <1>1, <1>3, <1>4, <1>5

Awkward(t) == t = <<>> \/ \E i \in 1 .. Len(t) : t[i] \in Special \cup Delimiter

LEMMA ClosingQuote ==
  /\ <<Quote>> \in Text /\ <<Quote>> = Cons(Quote, <<>>) /\ Len(<<Quote>>) = 1
  /\ \A e \in Text : <<Quote>> \o e = Cons(Quote, e)
<1>1. <<Quote>> \in Text
  BY CharIs DEF Text
<1>2. <<Quote>> \o <<>> = <<Quote>>
  BY <1>1, TextJoined
<1> QED BY <1>1, <1>2 DEF Cons

LEMMA PrintedIs ==
  ASSUME NEW t \in Text \cup {None}
  PROVE  /\ Printed(t) \in Text
         /\ t = None => Printed(t) = <<>>
         /\ t # None /\ ~ Awkward(t) => Printed(t) = t
         /\ t # None /\ Awkward(t) => Printed(t) = Cons(Quote, Doubled[t] \o <<Quote>>)
<1>1. CASE t = None
  BY <1>1, TextIs DEF Printed
<1>2. CASE t # None /\ ~ Awkward(t)
  BY <1>2 DEF Printed, Awkward
<1>3. CASE t # None /\ Awkward(t)
  <2>1. PICK u \in Text : u = Doubled[t]
    BY <1>3, DoubledIs
  <2>2. Printed(t) = Cons(Quote, u \o <<Quote>>)
    BY <1>3, <2>1 DEF Printed, Awkward, Cons
  <2>3. u \o <<Quote>> \in Text
    BY ClosingQuote, TextJoined
  <2>4. Cons(Quote, u \o <<Quote>>) \in Text
    BY <2>3, TextCons, CharIs
  <2> QED BY <1>3, <2>1, <2>2, <2>4
<1> QED BY <1>1, <1>2, <1>3

Stop(t) == Len(Printed(t)) + 1

LEMMA PartIs ==
  ASSUME NEW t \in Text \cup {None}, NEW stops, stops \subseteq Delimiter,
         NEW c \in stops, NEW r \in Text
  PROVE  Part(Printed(t) \o Cons(c, r), stops) = [ok |-> TRUE, text |-> t, stop |-> Stop(t)]
<1>1. c \in Char /\ c # Quote /\ Quote \in Char /\ Quote \notin stops
  BY CharIs
<1>2. PICK e \in Text : e = Cons(c, r) /\ At(e, 1) = c
  BY <1>1, TextCons
<1>3. CASE t = None
  <2>1. Printed(t) = <<>> /\ Printed(t) \o e = e
    BY <1>3, PrintedIs, TextJoined
  <2>2. Before(e, stops \cup {Quote}) = 0
    <3>1. <<>> \in Text /\ <<>> \o e = e /\ Len(<<>>) = 0 /\ c \in (stops \cup {Quote}) \cap Char
      BY <1>1, TextIs, TextJoined
    <3>2. \A i \in 1 .. Len(<<>>) : <<>>[i] \notin stops \cup {Quote}
      BY <3>1
    <3>3. Before(<<>> \o e, stops \cup {Quote}) = Len(<<>>)
      BY <1>2, <3>1, <3>2, BeforeIs
    <3> QED BY <3>1, <3>3
  <2>3. At(e, 0 + 1) = c
    BY <1>2
  <2>4. Part(e, stops) = [ok |-> TRUE, text |-> None, stop |-> 0 + 1]
    BY <1>1, <1>2, <2>2, <2>3 DEF Part
  <2>5. Stop(t) = 1
    BY <2>1 DEF Stop
  <2> QED BY <1>2, <1>3, <2>1, <2>4, <2>5
<1>4. CASE t # None /\ ~ Awkward(t)
  <2>1. Printed(t) = t /\ t \in Text
    BY <1>4, PrintedIs
  <2>2. PICK s \in Text : s = t \o e
    BY <2>1, TextJoined
  <2>3. Len(t) \in Nat /\ Len(t) # 0 /\ t \in Seq(Char) /\ e \in Seq(Char)
    BY <1>4, <2>1 DEF Text, Awkward
  <2>4. Before(s, stops \cup {Quote}) = Len(t)
    <3>1. \A i \in 1 .. Len(t) : t[i] \notin stops \cup {Quote}
      BY <1>4, CharIs DEF Awkward
    <3>2. c \in (stops \cup {Quote}) \cap Char
      BY <1>1
    <3> QED BY <1>2, <2>1, <2>2, <3>1, <3>2, BeforeIs
  <2>5. At(s, Len(t) + 1) = c
    BY <1>1, <1>2, <2>1, <2>2, BehindPart
  <2>6. SubSeq(s, 1, Len(t)) = t
    BY <2>2, <2>3
  <2>7. At(s, 1) # Quote
    <3>1. s[1] = t[1] /\ 1 \in 1 .. Len(t)
      BY <2>2, <2>3
    <3>2. t[1] # Quote
      BY <1>4, <3>1, CharIs DEF Awkward
    <3>3. At(s, 1) = s[1] \/ At(s, 1) = ""
      BY DEF At
    <3>4. Quote # ""
      BY DEF Quote
    <3> QED BY <3>1, <3>2, <3>3, <3>4
  <2>8. Part(s, stops) = [ok |-> TRUE, text |-> t, stop |-> Len(t) + 1]
    BY <2>3, <2>4, <2>5, <2>6, <2>7 DEF Part
  <2> QED BY <1>2, <2>1, <2>2, <2>8 DEF Stop
<1>5. CASE t # None /\ Awkward(t)
  <2>1. PICK u \in Text : u = Doubled[t]
    BY <1>5, DoubledIs
  <2>2. PICK s \in Text : s = Cons(Quote, u \o Cons(Quote, e))
    BY <1>1, TextCons, TextJoined
  <2>3. Printed(t) \o e = s
    <3>1. PICK q \in Text : q = <<Quote>> /\ q \o e = Cons(Quote, e)
      BY ClosingQuote
    <3>2. PICK w \in Text : w = u \o q
      BY TextJoined
    <3>3. Printed(t) = Cons(Quote, w)
      BY <1>5, <2>1, <3>1, <3>2, PrintedIs
    <3>4. Cons(Quote, w) \o e = Cons(Quote, w \o e)
      BY <1>1, TextJoined
    <3>5. w \o e = u \o (q \o e)
      BY <3>2, TextJoined
    <3> QED BY <2>2, <3>1, <3>3, <3>4, <3>5
  <2>4. Quoted[Tail(s)] = Len(u)
    <3>1. Tail(s) = u \o Cons(Quote, e)
      <4>1. PICK w \in Text : w = u \o Cons(Quote, e)
        BY <1>1, TextCons, TextJoined
      <4> QED BY <1>1, <2>2, <4>1, TextCons
    <3>2. \A v \in Text : Quoted[Doubled[v] \o Cons(Quote, e)] = Len(Doubled[v])
      BY <1>1, <1>2, QuotedDoubled
    <3> QED BY <1>5, <2>1, <3>1, <3>2
  <2>5. /\ SubSeq(s, 2, Len(u) + 1) = u
        /\ At(s, Len(u) + 3) = c
    <3>1. u \in Seq(Char) /\ e \in Seq(Char)
      BY DEF Text
    <3> QED BY <1>1, <1>2, <2>2, <3>1, Enclosed
  <2>6. At(s, 1) = Quote
    BY <1>1, <2>2, TextCons, TextJoined
  <2>7. Undouble[u] = t
    BY <1>5, <2>1, UndoubleDoubled
  <2>8. Part(s, stops) = [ok |-> TRUE, text |-> t, stop |-> Len(u) + 3]
    BY <2>4, <2>5, <2>6, <2>7 DEF Part, Unquoted
  <2>9. Stop(t) = Len(u) + 3
    <3>1. Len(Printed(t)) = Len(u) + 2
      <4>1. PICK q \in Text : q = <<Quote>> /\ Len(q) = 1
        BY ClosingQuote
      <4>2. PICK w \in Text : w = u \o q
        BY TextJoined
      <4>3. Len(w) = Len(u) + Len(q) /\ Len(u) \in Nat
        <5>1. u \in Seq(Char) /\ q \in Seq(Char)
          BY DEF Text
        <5> QED BY <4>2, <5>1
      <4>4. Printed(t) = Cons(Quote, w) /\ Len(Cons(Quote, w)) = Len(w) + 1
        BY <1>1, <1>5, <2>1, <4>1, <4>2, PrintedIs, TextCons
      <4> QED BY <4>1, <4>3, <4>4
    <3>2. Len(u) \in Nat
      BY TextIs
    <3> QED BY <3>1, <3>2 DEF Stop
  <2> QED BY <1>2, <2>3, <2>8, <2>9
<1> QED BY <1>3, <1>4, <1>5

-----------------------------------------------------------------------------
(***************************************************************************)
(* A range: what the server prints is read back, and the text of a         *)
(* numeric range is understood by the server.                              *)
(***************************************************************************)
LEMMA FlagParts ==
  ASSUME NEW f \in Flags
  PROVE  /\ f[1] \in {"(", "["} /\ f[2] \in {")", "]"} /\ f = <<f[1], f[2]>>
         /\ f[1] \in Char /\ f[2] \in Char
<1>1. f[1] \in {"(", "["} /\ f[2] \in {")", "]"} /\ f = <<f[1], f[2]>>
  BY DEF Flags
<1> QED BY <1>1, CharIs DEF Delimiter

LEMMA OneChar ==
  ASSUME NEW c \in Char
  PROVE  <<c>> \in Text /\ <<c>> = Cons(c, <<>>)
<1>1. <<c>> \in Text
  BY DEF Text
<1>2. <<c>> \o <<>> = <<c>>
  BY <1>1, TextJoined
<1> QED BY <1>1, <1>2 DEF Cons

LEMMA RangeParsed ==
  ASSUME NEW l \in Text \cup {None}, NEW u \in Text \cup {None}, NEW f \in Flags
  PROVE  /\ ParsedRange(PrintedRange(l, u, f)) = [ok |-> TRUE, lower |-> l, upper |-> u, flags |-> f]
         /\ PrintedRange(l, u, f) # EmptyText
<1>1. PICK c \in {"(", "["}, d \in {")", "]"} : f = <<c, d>>
  BY FlagParts
<1>2. c \in Char /\ d \in Char /\ "," \in Char
  BY CharIs DEF Delimiter
<1>3. Printed(l) \in Text /\ Printed(u) \in Text /\ <<>> \in Text
  BY PrintedIs, TextIs
<1>4. PICK rest \in Text : rest = Printed(u) \o Cons(d, <<>>)
  <2>1. Cons(d, <<>>) \in Text
    BY <1>2, <1>3, TextCons
  <2> QED BY <1>3, <2>1, TextJoined
<1>5. PICK body \in Text : body = Printed(l) \o Cons(",", rest)
  <2>1. Cons(",", rest) \in Text
    BY <1>2, TextCons
  <2> QED BY <1>3, <2>1, TextJoined
<1>6. PrintedRange(l, u, f) = Cons(c, body)
  <2>1. <<d>> = Cons(d, <<>>)
    BY <1>2, OneChar
  <2>2. PrintedRange(l, u, f) = <<c>> \o (Printed(l) \o (<<",">> \o (Printed(u) \o <<d>>)))
    BY <1>1 DEF PrintedRange
  <2>3. <<",">> \o rest = Cons(",", rest)
    BY DEF Cons
  <2> QED BY <1>4, <1>5, <2>1, <2>2, <2>3 DEF Cons
<1>7. PICK s \in Text : s = Cons(c, body) /\ Tail(s) = body /\ Head(s) = c /\ At(s, 1) = c /\ s # <<>>
  BY <1>2, TextCons, ZenonT(40)
<1>8. s[1] = c
  BY <1>7, TextIs
<1>9. Part(body, {","}) = [ok |-> TRUE, text |-> l, stop |-> Stop(l)]
  <2>1. PICK stops : stops = {","} /\ stops \subseteq Delimiter /\ "," \in stops
    BY DEF Delimiter
  <2> QED BY <1>5, <2>1, PartIs
<1>10. Behind(body, Stop(l)) = rest
  BY <1>2, <1>3, <1>5, BehindPart DEF Stop
<1>11. Part(rest, {")", "]"}) = [ok |-> TRUE, text |-> u, stop |-> Stop(u)]
  <2>1. PICK stops : stops = {")", "]"} /\ stops \subseteq Delimiter /\ d \in stops
    BY DEF Delimiter
  <2>2. PICK e \in Text : e = <<>>
    BY <1>3
  <2>3. rest = Printed(u) \o Cons(d, e)
    BY <1>4, <2>2
  <2> QED BY <2>1, <2>3, PartIs, ZenonT(40)
<1>12. rest[Stop(u)] = d
  BY <1>2, <1>3, <1>4, BehindPart DEF Stop
<1>13. ParsedRange(s) = [ok |-> TRUE, lower |-> l, upper |-> u, flags |-> <<c, d>>]
  <2>1. PICK p, q : p = Part(Tail(s), {","}) /\ q = Part(Behind(Tail(s), p.stop), {")", "]"})
    OBVIOUS
  <2>2. p.ok /\ p.text = l /\ p.stop = Stop(l)
    <3>1. p = [ok |-> TRUE, text |-> l, stop |-> Stop(l)]
      BY <1>7, <1>9, <2>1
    <3> QED BY ONLY <3>1
  <2>3. q.ok /\ q.text = u /\ q.stop = Stop(u)
    <3>1. q = [ok |-> TRUE, text |-> u, stop |-> Stop(u)]
      BY <1>7, <1>10, <1>11, <2>1, <2>2
    <3> QED BY ONLY <3>1
  <2>4. Behind(Tail(s), p.stop)[q.stop] = d
    BY <1>7, <1>10, <1>12, <2>2, <2>3
  <2>5. At(s, 1) \in {"(", "["}
    BY <1>7
  <2>6. ParsedRange(s) = [ok |-> TRUE, lower |-> p.text, upper |-> q.text,
                          flags |-> <<s[1], Behind(Tail(s), p.stop)[q.stop]>>]
    BY <2>1, <2>2, <2>3, <2>5 DEF ParsedRange
  <2> QED BY <1>8, <2>2, <2>3, <2>4, <2>6
<1>14. s # EmptyText
  <2>1. EmptyText[1] = "e"
    BY DEF EmptyText
  <2> QED BY <1>8, <2>1
<1> QED BY <1>1, <1>6, <1>7, <1>13, <1>14

Names(naming) ==
  /\ naming \in [Values -> Text] /\ Distinct(naming)
  /\ \A v \in Values : naming[v] # None

LEMMA CastBack ==
  ASSUME NEW naming, Names(naming), NEW v \in Values \cup {None}
  PROVE  TextOf(naming, v) \in Text \cup {None} /\ Cast(naming, TextOf(naming, v)) = v
<1>1. CASE v = None
  BY <1>1 DEF TextOf, Cast
<1>2. CASE v # None
  <2>1. v \in Values /\ TextOf(naming, v) = naming[v] /\ naming[v] \in Text /\ naming[v] # None
    BY <1>2 DEF TextOf, Names
  <2>2. \A w \in Values : naming[w] = naming[v] => w = v
    BY <2>1 DEF Names, Distinct
  <2>3. Cast(naming, naming[v]) = CHOOSE w \in Values : naming[w] = naming[v]
    BY <2>1 DEF Cast
  <2> QED BY <2>1, <2>2, <2>3
<1> QED BY <1>1, <1>2

\* A range of the server is read as it is, whatever the texts of its bounds are.
LEMMA RangeReadBack ==
  ASSUME NEW naming, Names(naming), NEW r \in Ranges
  PROVE  RangeBack(r, naming) = r
<1>1. CASE IsEmpty(r)
  <2>1. r = EmptyRange
    BY <1>1, RangeAssumption DEF Ranges, IsEmpty
  <2> QED BY <1>1, <2>1 DEF RangeBack, RangeRead, PrintedRangeOf
<1>2. CASE ~ IsEmpty(r)
  <2>1. /\ r.lower \in Values \cup {None} /\ r.upper \in Values \cup {None} /\ r.bounds \in Flags
        /\ r = [lower |-> r.lower, upper |-> r.upper, bounds |-> r.bounds]
    BY <1>2 DEF Ranges, EmptyRange, IsEmpty
  <2>2. PICK l, u : l = TextOf(naming, r.lower) /\ u = TextOf(naming, r.upper)
    OBVIOUS
  <2>3. /\ l \in Text \cup {None} /\ u \in Text \cup {None}
        /\ Cast(naming, l) = r.lower /\ Cast(naming, u) = r.upper
    BY <2>1, <2>2, CastBack
  <2>4. PICK text : text = PrintedRange(l, u, r.bounds)
    OBVIOUS
  <2>5. /\ ParsedRange(text) = [ok |-> TRUE, lower |-> l, upper |-> u, flags |-> r.bounds]
        /\ text # EmptyText
    BY <2>1, <2>3, <2>4, RangeParsed
  <2>6. RangeRead(text, naming) = [lower |-> r.lower, upper |-> r.upper, bounds |-> r.bounds]
    BY <2>3, <2>5 DEF RangeRead
  <2> QED BY <1>2, <2>1, <2>2, <2>4, <2>6 DEF RangeBack, PrintedRangeOf
<1> QED BY <1>1, <1>2

\* The server understands the text of a numeric range as its constructor.
LEMMA NumberSent ==
  ASSUME NEW naming \in Numbers, NEW r \in Ranges
  PROVE  SentAsNumber(r, naming) = SentByName(r)
<1>1. Names(naming)
  BY TextAssumption DEF Numbers, Names
<1>2. CASE IsEmpty(r)
  BY <1>2 DEF SentAsNumber, NumberText, SentByName
<1>3. CASE ~ IsEmpty(r)
  <2>1. r.lower \in Values \cup {None} /\ r.upper \in Values \cup {None} /\ r.bounds \in Flags
    BY <1>3 DEF Ranges, EmptyRange, IsEmpty
  <2>2. PICK l, u : l = TextOf(naming, r.lower) /\ u = TextOf(naming, r.upper)
    OBVIOUS
  <2>3. /\ l \in Text \cup {None} /\ u \in Text \cup {None}
        /\ Cast(naming, l) = r.lower /\ Cast(naming, u) = r.upper
    BY <1>1, <2>1, <2>2, CastBack
  <2>4. \A v \in Values : Printed(naming[v]) = naming[v]
    <3>1. ASSUME NEW v \in Values PROVE naming[v] \in NumberTexts
      BY DEF Numbers
    <3>2. ASSUME NEW t \in NumberTexts PROVE Printed(t) = t
      <4>1. t \in Text /\ t # None /\ ~ Awkward(t)
        BY TextAssumption DEF Awkward
      <4> QED BY <4>1, PrintedIs
    <3> QED BY <3>1, <3>2
  <2>5. PICK text : text = NumberText(r, naming)
    OBVIOUS
  <2>6. text = PrintedRange(l, u, r.bounds)
    <3>1. Printed(None) = <<>>
      BY PrintedIs
    <3>2. /\ Printed(l) = IF r.lower = None THEN <<>> ELSE naming[r.lower]
          /\ Printed(u) = IF r.upper = None THEN <<>> ELSE naming[r.upper]
      BY <2>1, <2>2, <2>4, <3>1 DEF TextOf
    <3> QED BY <1>3, <2>5, <3>2 DEF NumberText, PrintedRange
  <2>7. /\ ParsedRange(text) = [ok |-> TRUE, lower |-> l, upper |-> u, flags |-> r.bounds]
        /\ text # EmptyText
    BY <2>1, <2>3, <2>6, RangeParsed
  <2>8. SentAsNumber(r, naming) = ServerRange(r.lower, r.upper, r.bounds)
    BY <2>3, <2>5, <2>7 DEF SentAsNumber
  <2> QED BY <1>3, <2>8 DEF SentByName
<1> QED BY <1>2, <1>3

-----------------------------------------------------------------------------
(***************************************************************************)
(* A row: its fields, one after another.                                   *)
(***************************************************************************)
IsAny(value, s) == TRUE

PrintedFieldsFrom(f, row, a, b) ==
  IF row = <<>> THEN <<>>
  ELSE Printed(Head(row)) \o
       (<<IF Len(row) = 1 THEN ")" ELSE ",">> \o f[Tail(row)])

Rowings == INSTANCE Descent
             WITH Dom <- Seq(Field), Rank <- Length, Body <- PrintedFieldsFrom, Good <- IsText

LEMMA PrintedFieldsStep ==
  ASSUME NEW t \in Field, NEW row \in Seq(Field), NEW f, f[row] \in Text
  PROVE  /\ PrintedFieldsFrom(f, Cons(t, row), 0, 0) =
              Printed(t) \o Cons(IF row = <<>> THEN ")" ELSE ",", f[row])
         /\ PrintedFieldsFrom(f, Cons(t, row), 0, 0) \in Text
<1>1. /\ Cons(t, row) # <<>> /\ Head(Cons(t, row)) = t /\ Tail(Cons(t, row)) = row
      /\ Len(Cons(t, row)) = 1 <=> row = <<>>
  <2>1. /\ Cons(t, row) # <<>> /\ Head(Cons(t, row)) = t /\ Tail(Cons(t, row)) = row
        /\ Len(Cons(t, row)) = Len(row) + 1 /\ Len(row) \in Nat
    BY ConsIs
  <2>2. row = <<>> <=> Len(row) = 0
    OBVIOUS
  <2> QED BY <2>1, <2>2
<1>2. PICK c \in Char : c = IF row = <<>> THEN ")" ELSE ","
  BY CharIs DEF Delimiter
<1>3. PrintedFieldsFrom(f, Cons(t, row), 0, 0) = Printed(t) \o Cons(c, f[row])
  BY <1>1, <1>2 DEF PrintedFieldsFrom, Cons
<1>4. Printed(t) \in Text
  BY PrintedIs DEF Field
<1>5. Printed(t) \o Cons(c, f[row]) \in Text
  BY <1>2, <1>4, BehindPart
<1> QED BY <1>2, <1>3, <1>5

LEMMA PrintedFieldsIs ==
  /\ \A row \in Seq(Field) : PrintedFields[row] \in Text
  /\ PrintedFields[<<>>] = <<>>
  /\ \A t \in Field, row \in Seq(Field) :
       PrintedFields[Cons(t, row)] =
         Printed(t) \o Cons(IF row = <<>> THEN ")" ELSE ",", PrintedFields[row])
<1>1. Rowings!Steps(0, 0)
  <2> SUFFICES ASSUME NEW row \in Seq(Field), NEW f
               PROVE  \/ PrintedFieldsFrom(f, row, 0, 0) \in Text /\ \A g : PrintedFieldsFrom(g, row, 0, 0) = PrintedFieldsFrom(f, row, 0, 0)
                      \/ \E y \in Seq(Field) :
                           /\ Len(y) < Len(row)
                           /\ f[y] \in Text => PrintedFieldsFrom(f, row, 0, 0) \in Text
                           /\ \A g : g[y] = f[y] => PrintedFieldsFrom(g, row, 0, 0) = PrintedFieldsFrom(f, row, 0, 0)
    BY DEF Rowings!Steps, Length, IsText
  <2>1. CASE row = <<>>
    BY <2>1, TextIs DEF PrintedFieldsFrom
  <2>2. CASE row # <<>>
    <3>1. PICK t \in Field, y \in Seq(Field) : row = Cons(t, y) /\ Tail(row) = y /\ Len(y) < Len(row)
      BY <2>2, Uncons
    <3>2. f[y] \in Text => PrintedFieldsFrom(f, row, 0, 0) \in Text
      BY <3>1, PrintedFieldsStep
    <3>3. \A g : g[y] = f[y] => PrintedFieldsFrom(g, row, 0, 0) = PrintedFieldsFrom(f, row, 0, 0)
      BY <3>1 DEF PrintedFieldsFrom
    <3> QED BY <3>1, <3>2, <3>3
  <2> QED BY <2>1, <2>2
<1>2. PrintedFields = Rowings!Fun(0, 0)
  BY DEF PrintedFields, Rowings!Fun, PrintedFieldsFrom
<1>3. \A row \in Seq(Field) : Length(row) \in Nat
  BY DEF Length
<1>4. \A row \in Seq(Field) : /\ PrintedFields[row] = PrintedFieldsFrom(PrintedFields, row, 0, 0)
                              /\ PrintedFields[row] \in Text
  BY <1>1, <1>2, <1>3, Rowings!Descends DEF Rowings!Ranked, IsText
<1>5. PrintedFields[<<>>] = <<>>
  <2>1. <<>> \in Seq(Field)
    OBVIOUS
  <2> QED BY <1>4, <2>1 DEF PrintedFieldsFrom
<1>6. ASSUME NEW t \in Field, NEW row \in Seq(Field)
      PROVE  PrintedFields[Cons(t, row)] =
               Printed(t) \o Cons(IF row = <<>> THEN ")" ELSE ",", PrintedFields[row])
  <2>1. Cons(t, row) \in Seq(Field)
    BY ConsIs
  <2>2. PrintedFields[Cons(t, row)] = PrintedFieldsFrom(PrintedFields, Cons(t, row), 0, 0)
    BY <1>4, <2>1
  <2> QED BY <1>4, <2>2, PrintedFieldsStep
<1> QED BY <1>4, <1>5, <1>6

LEMMA BeforeIsNumber ==
  ASSUME NEW s \in Text, NEW S
  PROVE  Before(s, S) \in Nat
<1> DEFINE J == {j \in 1 .. Len(s) : s[j] \in S} \cup {Len(s) + 1}
<1>1. Len(s) \in Nat
  BY TextIs
<1>2. J \subseteq Nat /\ J # {} /\ \A j \in J : j >= 1
  BY <1>1
<1>3. Before(s, S) = Min(J) - 1
  BY DEF Before
<1> HIDE DEF J
<1>4. \E j \in J : \A k \in J : j <= k
  BY <1>2, Doublings!LeastNumber
<1>5. Min(J) \in J
  BY <1>4 DEF Min
<1>6. Min(J) \in Nat /\ Min(J) >= 1
  BY <1>2, <1>5
<1> QED BY <1>3, <1>6

LEMMA PartStops ==
  ASSUME NEW s \in Text, NEW stops, s # <<>>, Part(s, stops).ok
  PROVE  Part(s, stops).stop \in Nat \ {0}
<1>1. Quoted[Tail(s)] \in Nat /\ Before(s, stops \cup {Quote}) \in Nat
  BY TextIs, QuotedIs, BeforeIsNumber
<1>2. ~ NoMatch.ok
  BY DEF NoMatch
<1>3. CASE At(s, 1) = Quote
  <2>1. PICK n \in Nat : n = Quoted[Tail(s)]
    BY <1>1
  <2>2. Part(s, stops) \in {NoMatch, [ok |-> TRUE, text |-> Unquoted(SubSeq(s, 2, n + 1)), stop |-> n + 3]}
    BY <1>3, <2>1 DEF Part
  <2>3. Part(s, stops) # NoMatch
    BY <1>2
  <2> QED BY <2>2, <2>3
<1>4. CASE At(s, 1) # Quote
  <2>1. PICK n \in Nat : n = Before(s, stops \cup {Quote})
    BY <1>1
  <2>2. Part(s, stops) \in {NoMatch, [ok |-> TRUE, text |-> IF n = 0 THEN None ELSE SubSeq(s, 1, n), stop |-> n + 1]}
    BY <1>4, <2>1 DEF Part
  <2>3. Part(s, stops) # NoMatch
    BY <1>2
  <2> QED BY <2>2, <2>3
<1> QED BY <1>3, <1>4

TokensFrom(f, s, a, b) ==
  LET field == Part(s, {",", ")"})
  IN  IF s = <<>> \/ ~ field.ok THEN <<>>
      ELSE <<field.text>> \o f[Behind(s, field.stop)]

Tokenings == INSTANCE Descent WITH Dom <- Text, Rank <- Length, Body <- TokensFrom, Good <- IsAny

LEMMA TokensIs ==
  /\ Tokens[<<>>] = <<>>
  /\ \A s \in Text : s # <<>> /\ Part(s, {",", ")"}).ok =>
       Tokens[s] = Cons(Part(s, {",", ")"}).text, Tokens[Behind(s, Part(s, {",", ")"}).stop)])
<1>1. Tokenings!Steps(0, 0)
  <2> SUFFICES ASSUME NEW s \in Text, NEW f
               PROVE  \/ \A g : TokensFrom(g, s, 0, 0) = TokensFrom(f, s, 0, 0)
                      \/ \E y \in Text :
                           /\ Len(y) < Len(s)
                           /\ \A g : g[y] = f[y] => TokensFrom(g, s, 0, 0) = TokensFrom(f, s, 0, 0)
    BY DEF Tokenings!Steps, Length, IsAny
  <2>1. CASE s = <<>> \/ ~ Part(s, {",", ")"}).ok
    <3>1. \A g : TokensFrom(g, s, 0, 0) = <<>>
      BY <2>1 DEF TokensFrom
    <3> QED BY <3>1
  <2>2. CASE ~ (s = <<>> \/ ~ Part(s, {",", ")"}).ok)
    <3>1. PICK p : p = Part(s, {",", ")"})
      OBVIOUS
    <3>2. p.stop \in Nat \ {0}
      BY <2>2, <3>1, PartStops
    <3>3. Behind(s, p.stop) \in Text /\ Len(Behind(s, p.stop)) < Len(s)
      <4>1. PICK n \in Nat : n = p.stop /\ n > 0
        BY <3>2
      <4>2. Behind(s, n) \in Text /\ Len(Behind(s, n)) < Len(s)
        BY <2>2, <4>1, TextIs
      <4> QED BY <4>1, <4>2
    <3>4. \A g : TokensFrom(g, s, 0, 0) = <<p.text>> \o g[Behind(s, p.stop)]
      BY <2>2, <3>1 DEF TokensFrom
    <3> QED BY <3>3, <3>4
  <2> QED BY <2>1, <2>2
<1>2. Tokens = Tokenings!Fun(0, 0)
  BY DEF Tokens, Tokenings!Fun, TokensFrom
<1>3. \A s \in Text : Tokens[s] = TokensFrom(Tokens, s, 0, 0)
  BY <1>1, <1>2, LengthIs, Tokenings!Descends DEF Tokenings!Ranked
<1>4. Tokens[<<>>] = <<>>
  BY <1>3, TextIs DEF TokensFrom
<1>5. ASSUME NEW s \in Text, s # <<>>, Part(s, {",", ")"}).ok
      PROVE  Tokens[s] = Cons(Part(s, {",", ")"}).text, Tokens[Behind(s, Part(s, {",", ")"}).stop)])
  <2>1. TokensFrom(Tokens, s, 0, 0) = <<Part(s, {",", ")"}).text>> \o Tokens[Behind(s, Part(s, {",", ")"}).stop)]
    BY <1>5 DEF TokensFrom
  <2> QED BY <1>3, <2>1 DEF Cons
<1> QED BY <1>4, <1>5

\* A row is read as it was sent, whatever characters its fields have.
LEMMA RowReadBack ==
  \A row \in Seq(Field) : Tokens[PrintedFields[row]] = row
<1> DEFINE T == {row \in Seq(Field) : Tokens[PrintedFields[row]] = row}
<1>1. <<>> \in T
  <2>1. PrintedFields[<<>>] = <<>>
    BY PrintedFieldsIs
  <2>2. Tokens[<<>>] = <<>>
    BY TokensIs
  <2>3. <<>> \in Seq(Field)
    OBVIOUS
  <2> QED BY <2>1, <2>2, <2>3
<1>2. ASSUME NEW t \in Field, NEW row \in Seq(Field), row \in T PROVE Cons(t, row) \in T
  <2>1. PICK r \in Text : r = PrintedFields[row] /\ Tokens[r] = row
    BY <1>2, PrintedFieldsIs
  <2>2. PICK stops : stops = {",", ")"} /\ stops \subseteq Delimiter
    BY DEF Delimiter
  <2>3. PICK c \in stops : c = IF row = <<>> THEN ")" ELSE ","
    BY <2>2
  <2>4. c \in Char /\ Printed(t) \in Text /\ t \in Text \cup {None}
    BY <2>2, CharIs, PrintedIs DEF Field
  <2>5. PICK s \in Text : s = Printed(t) \o Cons(c, r)
    BY <2>4, BehindPart
  <2>6. PrintedFields[Cons(t, row)] = s
    BY <2>1, <2>3, <2>5, PrintedFieldsIs
  <2>7. PICK p : p = Part(s, stops)
    OBVIOUS
  <2>8. p = [ok |-> TRUE, text |-> t, stop |-> Stop(t)]
    BY <2>2, <2>4, <2>5, <2>7, PartIs, ZenonT(40)
  <2>9. p.ok /\ p.text = t /\ p.stop = Stop(t)
    BY ONLY <2>8
  <2>10. Behind(s, Stop(t)) = r
    BY <2>4, <2>5, BehindPart DEF Stop
  <2>11. s # <<>>
    <3>1. At(s, Len(Printed(t)) + 1) = c
      BY <2>4, <2>5, BehindPart
    <3> QED BY <2>2, <3>1, NothingAt DEF Delimiter
  <2>12. Tokens[s] = Cons(t, Tokens[r])
    BY <2>2, <2>7, <2>9, <2>10, <2>11, TokensIs
  <2>13. Cons(t, row) \in Seq(Field)
    BY ConsIs
  <2> QED BY <2>1, <2>6, <2>12, <2>13
<1>3. Seq(Field) \subseteq T
  <2> HIDE DEF T
  <2> QED BY <1>1, <1>2, SequenceInduction
<1> QED BY <1>3

-----------------------------------------------------------------------------
(***************************************************************************)
(* An hstore: its pairs, one after another.                                *)
(***************************************************************************)
PrintedPairsFrom(f, pairs, a, b) ==
  IF pairs = <<>> THEN <<>>
  ELSE <<Quote>> \o (Escaped[Head(pairs)[1]] \o
       (<<Quote, "=", ">">> \o (PrintedValue(Head(pairs)[2]) \o
       ((IF Len(pairs) = 1 THEN <<>> ELSE <<",", " ">>) \o f[Tail(pairs)]))))

Pairings == INSTANCE Descent
              WITH Dom <- Seq(Text \X Field), Rank <- Length, Body <- PrintedPairsFrom, Good <- IsText

\* What comes behind a value: the next pair, if there is one.
After(pairs, more) == IF pairs = <<>> THEN <<>> \o more ELSE Cons(",", Cons(" ", more))

BehindKey(value, after) == Cons("=", Cons(">", PrintedValue(value) \o after))

LEMMA PunctuationIs ==
  /\ "=" \in Char /\ ">" \in Char /\ "," \in Char /\ " " \in Char
  /\ "N" \in Char /\ "U" \in Char /\ "L" \in Char
  /\ Quote \notin {"=", ">", ",", " ", "N", "U", "L"}
<1>1. "," \in Char /\ " " \in Char
  BY CharIs DEF Delimiter
<1>2. Quote \notin {"=", ">", ",", " ", "N", "U", "L"}
  BY DEF Quote
<1> QED BY <1>1, <1>2, TextAssumption

LEMMA ThreeJoined ==
  ASSUME NEW A, NEW b \in A, NEW c \in A, NEW d \in A
  PROVE  <<b, c, d>> \in Seq(A) /\ <<b, c, d>> = Cons(b, <<c, d>>) /\ <<c, d>> \in Seq(A)
<1>1. <<b, c, d>> \in Seq(A) /\ <<b>> \o <<c, d>> \in Seq(A) /\ <<c, d>> \in Seq(A)
  OBVIOUS
<1>2. Len(<<b, c, d>>) = 3 /\ Len(<<b>> \o <<c, d>>) = 3
  OBVIOUS
<1>3. \A i \in 1 .. 3 : <<b, c, d>>[i] = (<<b>> \o <<c, d>>)[i]
  OBVIOUS
<1>4. <<b, c, d>> = <<b>> \o <<c, d>>
  BY <1>1, <1>2, <1>3, SeqEqual
<1> QED BY <1>1, <1>4 DEF Cons

LEMMA FourJoined ==
  ASSUME NEW A, NEW a \in A, NEW b \in A, NEW c \in A, NEW d \in A
  PROVE  <<a, b, c, d>> = Cons(a, <<b, c, d>>)
<1>1. <<a, b, c, d>> \in Seq(A) /\ <<a>> \o <<b, c, d>> \in Seq(A)
  OBVIOUS
<1>2. Len(<<a, b, c, d>>) = 4 /\ Len(<<a>> \o <<b, c, d>>) = 4
  OBVIOUS
<1>3. \A i \in 1 .. 4 : <<a, b, c, d>>[i] = (<<a>> \o <<b, c, d>>)[i]
  OBVIOUS
<1>4. <<a, b, c, d>> = <<a>> \o <<b, c, d>>
  BY <1>1, <1>2, <1>3, SeqEqual
<1> QED BY <1>4 DEF Cons

LEMMA ThreeChars ==
  ASSUME NEW b \in Char, NEW c \in Char, NEW d \in Char, NEW s \in Text
  PROVE  <<b, c, d>> \in Text /\ <<b, c, d>> \o s = Cons(b, Cons(c, Cons(d, s)))
<1>1. PICK t : t = <<c, d>>
  OBVIOUS
<1>2. t \in Text /\ <<b, c, d>> = Cons(b, t) /\ <<b, c, d>> \in Text
  BY <1>1, ThreeJoined DEF Text
<1>3. t \o s = Cons(c, Cons(d, s))
  BY <1>1, TextTwo
<1>4. Cons(b, t) \o s = Cons(b, t \o s)
  BY <1>2, TextJoined
<1> QED BY <1>2, <1>3, <1>4

LEMMA FourChars ==
  ASSUME NEW a \in Char, NEW b \in Char, NEW c \in Char, NEW d \in Char, NEW s \in Text
  PROVE  <<a, b, c, d>> \o s = Cons(a, Cons(b, Cons(c, Cons(d, s))))
<1>1. PICK t : t = <<b, c, d>>
  OBVIOUS
<1>2. t \in Text /\ t \o s = Cons(b, Cons(c, Cons(d, s)))
  BY <1>1, ThreeChars
<1>3. <<a, b, c, d>> = Cons(a, t)
  BY <1>1, FourJoined
<1>4. Cons(a, t) \o s = Cons(a, t \o s)
  BY <1>2, TextJoined
<1> QED BY <1>2, <1>3, <1>4

LEMMA ValuePrinted ==
  ASSUME NEW v \in Field, NEW s \in Text
  PROVE  /\ PrintedValue(v) \o s \in Text
         /\ v = None => PrintedValue(v) \o s = Cons("N", Cons("U", Cons("L", Cons("L", s))))
         /\ v # None => PrintedValue(v) \o s = Cons(Quote, Escaped[v] \o Cons(Quote, s))
<1>1. CASE v = None
  <2>0. PICK n \in Char, u \in Char, l \in Char : n = "N" /\ u = "U" /\ l = "L"
    BY PunctuationIs
  <2>1. PrintedValue(v) \o s = Cons("N", Cons("U", Cons("L", Cons("L", s))))
    <3>1. PrintedValue(v) = <<n, u, l, l>>
      BY <1>1, <2>0 DEF PrintedValue
    <3>2. <<n, u, l, l>> \o s = Cons(n, Cons(u, Cons(l, Cons(l, s))))
      BY FourChars
    <3> QED BY <2>0, <3>1, <3>2
  <2>2. Cons("L", Cons("L", s)) \in Text
    BY ConsTwice, PunctuationIs
  <2>3. Cons("N", Cons("U", Cons("L", Cons("L", s)))) \in Text
    BY <2>2, ConsTwice, PunctuationIs
  <2> QED BY <1>1, <2>1, <2>3
<1>2. CASE v # None
  <2>1. PICK u \in Text : u = Escaped[v]
    BY <1>2, EscapedIs DEF Field
  <2>2. PICK q \in Text : q = <<Quote>> /\ q \o s = Cons(Quote, s)
    BY ClosingQuote
  <2>3. PICK w \in Text : w = u \o q
    BY TextJoined
  <2>4. PrintedValue(v) = Cons(Quote, w)
    BY <1>2, <2>1, <2>2, <2>3 DEF PrintedValue, Cons
  <2>5. Cons(Quote, w) \o s = Cons(Quote, w \o s)
    <3>1. Quote \in Char
      BY CharIs
    <3> QED BY <3>1, TextJoined
  <2>6. w \o s = u \o (q \o s)
    BY <2>3, TextJoined
  <2>7. w \o s \in Text
    BY TextJoined
  <2>8. Cons(Quote, w \o s) \in Text
    BY <2>7, TextCons, CharIs
  <2> QED BY <1>2, <2>1, <2>2, <2>4, <2>5, <2>6, <2>8
<1> QED BY <1>1, <1>2

LEMMA AfterIs ==
  ASSUME NEW pairs, NEW more \in Text
  PROVE  After(pairs, more) \in Text
<1>1. <<>> \o more = more
  BY TextJoined
<1>2. Cons(",", Cons(" ", more)) \in Text
  BY ConsTwice, PunctuationIs
<1> QED BY <1>1, <1>2 DEF After

LEMMA ConsAlone ==
  ASSUME NEW A, NEW p \in A, NEW s \in Seq(A)
  PROVE  /\ Cons(p, s) # <<>> /\ Head(Cons(p, s)) = p /\ Tail(Cons(p, s)) = s
         /\ (Len(Cons(p, s)) = 1 <=> s = <<>>)
<1>1. /\ Cons(p, s) # <<>> /\ Head(Cons(p, s)) = p /\ Tail(Cons(p, s)) = s
      /\ Len(Cons(p, s)) = Len(s) + 1 /\ Len(s) \in Nat
  BY ConsIs
<1>2. s = <<>> <=> Len(s) = 0
  OBVIOUS
<1> QED BY <1>1, <1>2

LEMMA PrintedPairsStep ==
  ASSUME NEW k \in Text, NEW v \in Field, NEW pairs \in Seq(Text \X Field), NEW f, f[pairs] \in Text
  PROVE  /\ PrintedPairsFrom(f, Cons(<<k, v>>, pairs), 0, 0) =
              Cons(Quote, Escaped[k] \o Cons(Quote, BehindKey(v, After(pairs, f[pairs]))))
         /\ PrintedPairsFrom(f, Cons(<<k, v>>, pairs), 0, 0) \in Text
         /\ BehindKey(v, After(pairs, f[pairs])) \in Text
<1>1. PICK all : all = Cons(<<k, v>>, pairs)
  OBVIOUS
<1>2. /\ all # <<>> /\ Head(all)[1] = k /\ Head(all)[2] = v /\ Tail(all) = pairs
      /\ (Len(all) = 1 <=> pairs = <<>>)
  <2>1. <<k, v>> \in Text \X Field /\ <<k, v>>[1] = k /\ <<k, v>>[2] = v
    OBVIOUS
  <2>2. PICK p \in Text \X Field : p = <<k, v>> /\ p[1] = k /\ p[2] = v
    BY ONLY <2>1
  <2>3. /\ Cons(p, pairs) # <<>> /\ Head(Cons(p, pairs)) = p /\ Tail(Cons(p, pairs)) = pairs
        /\ (Len(Cons(p, pairs)) = 1 <=> pairs = <<>>)
    BY ConsAlone
  <2> QED BY <1>1, <2>2, <2>3
<1>3. PICK more \in Text : more = f[pairs]
  OBVIOUS
<1>4. PICK after \in Text : after = After(pairs, more)
  BY AfterIs
<1>5. after = (IF Len(all) = 1 THEN <<>> ELSE <<",", " ">>) \o more
  <2>1. <<",", " ">> \o more = Cons(",", Cons(" ", more))
    BY TextTwo, PunctuationIs
  <2> QED BY <1>2, <1>4, <2>1 DEF After
<1>6. PICK value \in Text : value = PrintedValue(v) \o after
  BY ValuePrinted
<1>7. <<Quote, "=", ">">> \o value = Cons(Quote, Cons("=", Cons(">", value)))
  <2>1. PICK q \in Char, c \in Char, d \in Char : q = Quote /\ c = "=" /\ d = ">"
    BY CharIs, PunctuationIs
  <2>2. <<q, c, d>> \o value = Cons(q, Cons(c, Cons(d, value)))
    BY ThreeChars
  <2> QED BY <2>1, <2>2
<1>8. PICK key \in Text : key = Escaped[k]
  BY EscapedIs
<1>9. PrintedPairsFrom(f, all, 0, 0) = <<Quote>> \o (key \o Cons(Quote, Cons("=", Cons(">", value))))
  BY <1>2, <1>3, <1>5, <1>6, <1>7, <1>8 DEF PrintedPairsFrom
<1>10. PICK behind \in Text : behind = Cons("=", Cons(">", value))
  BY ConsTwice, PunctuationIs
<1>11. PICK body \in Text : body = key \o Cons(Quote, behind)
  BY TextCons, TextJoined, CharIs
<1>12. Cons(Quote, body) \in Text
  BY TextCons, CharIs
<1>13. behind = BehindKey(v, After(pairs, f[pairs]))
  BY <1>3, <1>4, <1>6, <1>10 DEF BehindKey
<1>14. PrintedPairsFrom(f, all, 0, 0) = Cons(Quote, body)
  BY <1>9, <1>10, <1>11 DEF Cons
<1> QED BY <1>1, <1>8, <1>10, <1>11, <1>12, <1>13, <1>14

LEMMA PrintedPairsIs ==
  /\ \A pairs \in Seq(Text \X Field) : PrintedPairs[pairs] \in Text
  /\ PrintedPairs[<<>>] = <<>>
  /\ \A k \in Text, v \in Field, pairs \in Seq(Text \X Field) :
       PrintedPairs[Cons(<<k, v>>, pairs)] =
         Cons(Quote, Escaped[k] \o Cons(Quote, BehindKey(v, After(pairs, PrintedPairs[pairs]))))
<1>1. Pairings!Steps(0, 0)
  <2> SUFFICES ASSUME NEW pairs \in Seq(Text \X Field), NEW f
               PROVE  \/ PrintedPairsFrom(f, pairs, 0, 0) \in Text /\ \A g : PrintedPairsFrom(g, pairs, 0, 0) = PrintedPairsFrom(f, pairs, 0, 0)
                      \/ \E y \in Seq(Text \X Field) :
                           /\ Len(y) < Len(pairs)
                           /\ f[y] \in Text => PrintedPairsFrom(f, pairs, 0, 0) \in Text
                           /\ \A g : g[y] = f[y] => PrintedPairsFrom(g, pairs, 0, 0) = PrintedPairsFrom(f, pairs, 0, 0)
    BY DEF Pairings!Steps, Length, IsText
  <2>1. CASE pairs = <<>>
    BY <2>1, TextIs DEF PrintedPairsFrom
  <2>2. CASE pairs # <<>>
    <3>1. PICK p \in Text \X Field, y \in Seq(Text \X Field) : pairs = Cons(p, y) /\ Tail(pairs) = y /\ Len(y) < Len(pairs)
      BY <2>2, Uncons
    <3>2. PICK k \in Text, v \in Field : p = <<k, v>>
      OBVIOUS
    <3>3. f[y] \in Text => PrintedPairsFrom(f, pairs, 0, 0) \in Text
      BY <3>1, <3>2, PrintedPairsStep
    <3>4. \A g : g[y] = f[y] => PrintedPairsFrom(g, pairs, 0, 0) = PrintedPairsFrom(f, pairs, 0, 0)
      BY <3>1 DEF PrintedPairsFrom
    <3> QED BY <3>1, <3>3, <3>4
  <2> QED BY <2>1, <2>2
<1>2. PrintedPairs = Pairings!Fun(0, 0)
  BY DEF PrintedPairs, Pairings!Fun, PrintedPairsFrom
<1>3. \A pairs \in Seq(Text \X Field) : Length(pairs) \in Nat
  BY DEF Length
<1>4. \A pairs \in Seq(Text \X Field) :
        /\ PrintedPairs[pairs] = PrintedPairsFrom(PrintedPairs, pairs, 0, 0)
        /\ PrintedPairs[pairs] \in Text
  BY <1>1, <1>2, <1>3, Pairings!Descends DEF Pairings!Ranked, IsText
<1>5. PrintedPairs[<<>>] = <<>>
  <2>1. <<>> \in Seq(Text \X Field)
    OBVIOUS
  <2> QED BY <1>4, <2>1 DEF PrintedPairsFrom
<1>6. ASSUME NEW k \in Text, NEW v \in Field, NEW pairs \in Seq(Text \X Field)
      PROVE  PrintedPairs[Cons(<<k, v>>, pairs)] =
               Cons(Quote, Escaped[k] \o Cons(Quote, BehindKey(v, After(pairs, PrintedPairs[pairs]))))
  <2>1. Cons(<<k, v>>, pairs) \in Seq(Text \X Field)
    BY ConsIs
  <2>2. PrintedPairs[Cons(<<k, v>>, pairs)] = PrintedPairsFrom(PrintedPairs, Cons(<<k, v>>, pairs), 0, 0)
    BY <1>4, <2>1
  <2> QED BY <1>4, <2>2, PrintedPairsStep
<1> QED BY <1>4, <1>5, <1>6

\* The parts of the text of an hstore, as _re_hstore finds them: where the value
\* begins, how long it is, what is behind the pair, and the pair.
ValueAt(s) == Stripped[Behind(Stripped[Behind(s, InEscapes[Tail(s)] + 2)], 2)]
ValueLength(text) == IF At(text, 1) = "N" THEN 2 ELSE InEscapes[Behind(text, 1)]
Continued(rest) == IF At(rest, 1) = "," THEN Stripped[Behind(rest, 1)] ELSE rest
BehindPair(s) == Continued(Stripped[Behind(ValueAt(s), ValueLength(ValueAt(s)) + 2)])
FirstPair(s) ==
  <<Unescape[SubSeq(s, 2, InEscapes[Tail(s)] + 1)],
    IF At(ValueAt(s), 1) = "N" THEN None
    ELSE Unescape[SubSeq(ValueAt(s), 2, ValueLength(ValueAt(s)) + 1)]>>

PairsFrom(f, s, a, b) ==
  IF s = <<>> THEN <<>> ELSE <<FirstPair(s)>> \o f[BehindPair(s)]

Unpairings == INSTANCE Descent WITH Dom <- Text, Rank <- Length, Body <- PairsFrom, Good <- IsAny

LEMMA BehindPairIs ==
  ASSUME NEW s \in Text, s # <<>>
  PROVE  BehindPair(s) \in Text /\ Len(BehindPair(s)) < Len(s)
<1>1. PICK n \in Nat : n = InEscapes[Tail(s)]
  BY TextIs, InEscapesIs
<1>2. PICK t \in Text : t = Behind(s, n + 2) /\ Len(t) < Len(s)
  BY TextIs
<1>3. PICK u \in Text : u = Stripped[t] /\ Len(u) <= Len(t)
  BY StrippedIs
<1>4. PICK w \in Text : w = Behind(u, 2) /\ Len(w) <= Len(u)
  BY TextIs
<1>5. PICK x \in Text : x = Stripped[w] /\ Len(x) <= Len(w)
  BY StrippedIs
<1>6. x = ValueAt(s)
  BY <1>1, <1>2, <1>3, <1>4, <1>5 DEF ValueAt
<1>7. PICK m \in Nat : m = ValueLength(x)
  BY TextIs, InEscapesIs DEF ValueLength
<1>8. PICK y \in Text : y = Behind(x, m + 2) /\ Len(y) <= Len(x)
  BY TextIs
<1>9. PICK z \in Text : z = Stripped[y] /\ Len(z) <= Len(y)
  BY StrippedIs
<1>10. Continued(z) \in Text /\ Len(Continued(z)) <= Len(z)
  <2>1. PICK r \in Text : r = Behind(z, 1) /\ Len(r) <= Len(z)
    BY TextIs
  <2>2. Stripped[r] \in Text /\ Len(Stripped[r]) <= Len(r)
    BY StrippedIs
  <2>3. Len(z) \in Nat /\ Len(r) \in Nat /\ Len(Stripped[r]) \in Nat
    BY <2>2, TextIs
  <2>4. CASE At(z, 1) = ","
    <3>1. Continued(z) = Stripped[r]
      BY <2>1, <2>4 DEF Continued
    <3> QED BY <2>1, <2>2, <2>3, <3>1
  <2>5. CASE At(z, 1) # ","
    <3>1. Continued(z) = z
      BY <2>5 DEF Continued
    <3> QED BY <2>3, <3>1
  <2> QED BY <2>4, <2>5
<1>11. BehindPair(s) = Continued(z)
  BY <1>6, <1>7, <1>8, <1>9 DEF BehindPair
<1>12. /\ Len(s) \in Nat /\ Len(t) \in Nat /\ Len(u) \in Nat /\ Len(w) \in Nat
       /\ Len(x) \in Nat /\ Len(y) \in Nat /\ Len(z) \in Nat /\ Len(Continued(z)) \in Nat
  BY <1>10, TextIs
<1> QED BY <1>2, <1>3, <1>4, <1>5, <1>8, <1>9, <1>10, <1>11, <1>12

LEMMA PairsIs ==
  /\ Pairs[<<>>] = <<>>
  /\ \A s \in Text : s # <<>> => Pairs[s] = Cons(FirstPair(s), Pairs[BehindPair(s)])
<1>1. Unpairings!Steps(0, 0)
  <2> SUFFICES ASSUME NEW s \in Text, NEW f
               PROVE  \/ \A g : PairsFrom(g, s, 0, 0) = PairsFrom(f, s, 0, 0)
                      \/ \E y \in Text :
                           /\ Len(y) < Len(s)
                           /\ \A g : g[y] = f[y] => PairsFrom(g, s, 0, 0) = PairsFrom(f, s, 0, 0)
    BY DEF Unpairings!Steps, Length, IsAny
  <2>1. CASE s = <<>>
    BY <2>1 DEF PairsFrom
  <2>2. CASE s # <<>>
    <3>1. BehindPair(s) \in Text /\ Len(BehindPair(s)) < Len(s)
      BY <2>2, BehindPairIs
    <3>2. \A g : PairsFrom(g, s, 0, 0) = <<FirstPair(s)>> \o g[BehindPair(s)]
      BY <2>2 DEF PairsFrom
    <3> QED BY <3>1, <3>2
  <2> QED BY <2>1, <2>2
<1>2. Pairs = Unpairings!Fun(0, 0)
  BY DEF Pairs, Unpairings!Fun, PairsFrom, FirstPair, BehindPair, Continued, ValueLength, ValueAt
<1>3. \A s \in Text : Pairs[s] = PairsFrom(Pairs, s, 0, 0)
  BY <1>1, <1>2, LengthIs, Unpairings!Descends DEF Unpairings!Ranked
<1>4. Pairs[<<>>] = <<>>
  BY <1>3, TextIs DEF PairsFrom
<1> QED BY <1>3, <1>4 DEF PairsFrom, Cons

\* What is read at the beginning of a text with a value in it.
LEMMA ValueRead ==
  ASSUME NEW v \in Field, NEW after \in Text, NEW x, x = PrintedValue(v) \o after
  PROVE  /\ x \in Text /\ Stripped[x] = x
         /\ Behind(x, ValueLength(x) + 2) = after
         /\ v = IF At(x, 1) = "N" THEN None ELSE Unescape[SubSeq(x, 2, ValueLength(x) + 1)]
<1>1. CASE v = None
  <2>1. PICK n \in Char, u \in Char, l \in Char : n = "N" /\ u = "U" /\ l = "L" /\ n # " "
    BY PunctuationIs
  <2>2. PICK y \in Text : y = Cons(l, Cons(l, after))
    BY ConsTwice
  <2>3. PICK z \in Text : z = Cons(u, y) /\ Behind(z, 1) = y
    BY TextCons
  <2>4. x = Cons(n, z)
    BY <1>1, <2>1, <2>2, <2>3, ValuePrinted
  <2>5. x \in Text /\ At(x, 1) = n /\ Behind(x, 2) = y
    <3>1. n \in Char /\ z \in Text
      OBVIOUS
    <3> QED BY ONLY <2>3, <2>4, <3>1, TextCons
  <2>6. Stripped[x] = x
    BY <2>1, <2>3, <2>4, StrippedIs
  <2>7. Behind(x, 4) = after
    <3>1. Cons(l, after) \in Seq(Char) /\ y \in Seq(Char) /\ z \in Seq(Char) /\ after \in Seq(Char)
      BY TextCons DEF Text
    <3>2. Behind(x, 3 + 1) = Behind(z, 3)
      BY <2>4, <3>1, BehindCons
    <3>3. Behind(z, 2 + 1) = Behind(y, 2)
      BY <2>3, <3>1, BehindCons
    <3>4. Behind(y, 1 + 1) = Behind(Cons(l, after), 1)
      BY <2>2, <3>1, BehindCons
    <3>5. Behind(Cons(l, after), 0 + 1) = after
      BY <3>1, BehindCons
    <3> QED BY <3>2, <3>3, <3>4, <3>5
  <2>8. ValueLength(x) = 2
    BY <2>1, <2>5 DEF ValueLength
  <2> QED BY <1>1, <2>1, <2>5, <2>6, <2>7, <2>8
<1>2. CASE v # None
  <2>1. PICK q \in Char : q = Quote /\ q # "N" /\ q # " "
    BY CharIs, PunctuationIs
  <2>2. PICK u \in Text : u = Escaped[v] /\ Unescape[u] = v /\ InEscapes[u \o Cons(q, after)] = Len(u)
    BY <1>2, <2>1, EscapedIs, UnescapeEscaped, InEscapesEscaped DEF Field
  <2>3. PICK w \in Text : w = u \o Cons(q, after)
    BY TextCons, TextJoined
  <2>4. x = Cons(q, w)
    BY <1>2, <2>1, <2>2, <2>3, ValuePrinted
  <2>5. x \in Text /\ At(x, 1) = q /\ Behind(x, 1) = w
    BY <2>4, TextCons
  <2>6. Stripped[x] = x
    BY <2>1, <2>4, StrippedIs
  <2>7. ValueLength(x) = Len(u)
    BY <2>1, <2>2, <2>3, <2>5 DEF ValueLength
  <2>8. SubSeq(x, 2, Len(u) + 1) = u /\ Behind(x, Len(u) + 2) = after
    BY <2>3, <2>4, Enclosed DEF Text
  <2> QED BY <2>1, <2>2, <2>5, <2>6, <2>7, <2>8
<1> QED BY <1>1, <1>2

\* What is read of the first pair of a text, and what remains.
LEMMA PairRead ==
  ASSUME NEW k \in Text, NEW v \in Field, NEW after \in Text, NEW s,
         s = Cons(Quote, Escaped[k] \o Cons(Quote, BehindKey(v, after)))
  PROVE  /\ s \in Text /\ s # <<>>
         /\ FirstPair(s) = <<k, v>>
         /\ BehindPair(s) = Continued(Stripped[after])
<1>1. PICK q \in Char, c \in Char, d \in Char : q = Quote /\ c = "=" /\ d = ">" /\ c # " "
  BY CharIs, PunctuationIs
<1>2. PICK x \in Text : /\ x = PrintedValue(v) \o after /\ Stripped[x] = x
                        /\ Behind(x, ValueLength(x) + 2) = after
                        /\ v = IF At(x, 1) = "N" THEN None ELSE Unescape[SubSeq(x, 2, ValueLength(x) + 1)]
  BY ValueRead
<1>3. PICK b \in Text : b = Cons(c, Cons(d, x)) /\ b = BehindKey(v, after)
  BY <1>1, <1>2, ConsTwice DEF BehindKey
<1>4. Stripped[b] = b /\ Behind(b, 2) = x
  <2>1. PICK y \in Text : y = Cons(d, x) /\ Behind(y, 1) = x
    BY TextCons
  <2>2. Stripped[b] = b
    BY <1>1, <1>3, <2>1, StrippedIs
  <2>3. Behind(b, 2) = Behind(y, 1)
    <3>1. c \in Char /\ y \in Text /\ b = Cons(c, y)
      BY <1>3, <2>1
    <3> QED BY ONLY <3>1, TextCons
  <2> QED BY <2>1, <2>2, <2>3
<1>5. PICK u \in Text : u = Escaped[k] /\ Unescape[u] = k /\ InEscapes[u \o Cons(q, b)] = Len(u)
  BY <1>1, EscapedIs, UnescapeEscaped, InEscapesEscaped
<1>6. PICK w \in Text : w = u \o Cons(q, b)
  BY TextCons, TextJoined
<1>7. s = Cons(q, w)
  BY <1>1, <1>3, <1>5, <1>6
<1>8. s \in Text /\ s # <<>> /\ Tail(s) = w
  <2>1. q \in Char /\ w \in Text
    OBVIOUS
  <2> QED BY ONLY <1>7, <2>1, TextCons
<1>9. SubSeq(s, 2, Len(u) + 1) = u /\ Behind(s, Len(u) + 2) = b
  <2>1. u \in Seq(Char) /\ b \in Seq(Char) /\ q \in Char
    BY DEF Text
  <2> QED BY ONLY <1>6, <1>7, <2>1, Enclosed
<1>10. InEscapes[Tail(s)] = Len(u)
  BY <1>5, <1>6, <1>8
<1>11. ValueAt(s) = x
  BY <1>2, <1>4, <1>9, <1>10 DEF ValueAt
<1>12. FirstPair(s) = <<k, v>>
  BY <1>2, <1>5, <1>9, <1>10, <1>11 DEF FirstPair
<1>13. BehindPair(s) = Continued(Stripped[after])
  BY <1>2, <1>11 DEF BehindPair
<1> QED BY <1>8, <1>12, <1>13

LEMMA AfterRead ==
  ASSUME NEW pairs, NEW more \in Text, pairs = <<>> <=> more = <<>>,
         pairs # <<>> => \E y \in Text : more = Cons(Quote, y)
  PROVE  Continued(Stripped[After(pairs, more)]) = more
<1>1. CASE pairs = <<>>
  <2>1. After(pairs, more) = <<>>
    BY <1>1, TextIs, TextJoined DEF After
  <2>2. Stripped[<<>>] = <<>>
    BY StrippedIs
  <2>3. PICK e \in Text : e = <<>> /\ At(e, 1) = ""
    BY TextIs, NothingAt
  <2>4. "" # ","
    OBVIOUS
  <2>5. Continued(e) = e
    BY <2>3, <2>4 DEF Continued
  <2> QED BY <1>1, <2>1, <2>2, <2>3, <2>5
<1>2. CASE pairs # <<>>
  <2>1. PICK c \in Char, d \in Char, q \in Char : c = "," /\ d = " " /\ q = Quote /\ c # d /\ q # d
    BY CharIs, PunctuationIs
  <2>2. PICK y \in Text : more = Cons(q, y)
    BY <1>2, <2>1
  <2>3. Stripped[more] = more
    BY <2>1, <2>2, StrippedIs
  <2>4. PICK z \in Text : z = Cons(d, more)
    BY TextCons
  <2>5. Stripped[z] = more
    BY <2>1, <2>3, <2>4, StrippedIs
  <2>6. PICK a \in Text : a = Cons(c, z) /\ At(a, 1) = c /\ Behind(a, 1) = z
    BY TextCons
  <2>7. a = After(pairs, more)
    BY <1>2, <2>1, <2>4, <2>6 DEF After
  <2>8. Stripped[a] = a
    BY <2>1, <2>6, StrippedIs
  <2> QED BY <2>1, <2>5, <2>6, <2>7, <2>8 DEF Continued
<1> QED BY <1>1, <1>2

\* An hstore is read as it was sent, pair after pair.
LEMMA PairsReadBack ==
  \A pairs \in Seq(Text \X Field) : Pairs[PrintedPairs[pairs]] = pairs
<1> DEFINE T == {pairs \in Seq(Text \X Field) : 
                   /\ Pairs[PrintedPairs[pairs]] = pairs
                   /\ pairs = <<>> <=> PrintedPairs[pairs] = <<>>
                   /\ pairs # <<>> => \E y \in Text : PrintedPairs[pairs] = Cons(Quote, y)}
<1>1. <<>> \in T
  <2>1. PrintedPairs[<<>>] = <<>>
    BY PrintedPairsIs
  <2>2. Pairs[<<>>] = <<>>
    BY PairsIs
  <2>3. <<>> \in Seq(Text \X Field)
    OBVIOUS
  <2> QED BY <2>1, <2>2, <2>3
<1>2. ASSUME NEW p \in Text \X Field, NEW pairs \in Seq(Text \X Field), pairs \in T
      PROVE  Cons(p, pairs) \in T
  <2>1. PICK k \in Text, v \in Field : p = <<k, v>>
    OBVIOUS
  <2>2. PICK more \in Text : more = PrintedPairs[pairs]
    BY PrintedPairsIs
  <2>3. /\ Pairs[more] = pairs /\ (pairs = <<>> <=> more = <<>>)
        /\ pairs # <<>> => \E y \in Text : more = Cons(Quote, y)
    BY <1>2, <2>2
  <2>4. PICK after \in Text : after = After(pairs, more)
    BY AfterIs
  <2>5. PICK s : s = Cons(Quote, Escaped[k] \o Cons(Quote, BehindKey(v, after)))
    OBVIOUS
  <2>6. PrintedPairs[Cons(p, pairs)] = s
    BY <2>1, <2>2, <2>4, <2>5, PrintedPairsIs
  <2>7. s \in Text /\ s # <<>> /\ FirstPair(s) = p /\ BehindPair(s) = Continued(Stripped[after])
    BY <2>1, <2>5, PairRead
  <2>8. BehindPair(s) = more
    BY <2>3, <2>4, <2>7, AfterRead
  <2>9. Pairs[s] = Cons(p, pairs)
    BY <2>3, <2>7, <2>8, PairsIs
  <2>10. Cons(p, pairs) \in Seq(Text \X Field) /\ Cons(p, pairs) # <<>>
    BY ConsIs
  <2>11. \E y \in Text : s = Cons(Quote, y)
    <3>1. Quote \in Char /\ BehindKey(v, after) \in Text
      <4>1. PrintedValue(v) \o after \in Text
        BY ValuePrinted
      <4> QED BY <4>1, ConsTwice, PunctuationIs, CharIs DEF BehindKey
    <3>2. Escaped[k] \o Cons(Quote, BehindKey(v, after)) \in Text
      BY <3>1, TextCons, TextJoined, EscapedIs
    <3> QED BY <2>5, <3>2
  <2> QED BY <2>6, <2>7, <2>9, <2>10, <2>11
<1>3. Seq(Text \X Field) \subseteq T
  <2> HIDE DEF T
  <2> QED BY <1>1, <1>2, SequenceInduction
<1> QED BY <1>3

\* The keys of an hstore, one after another.
LEMMA KeysListed ==
  ASSUME NEW S, IsFiniteSet(S)
  PROVE  /\ SetToSeq(S) \in Seq(S)
         /\ Len(SetToSeq(S)) = Cardinality(S)
         /\ \A i, j \in 1 .. Len(SetToSeq(S)) : SetToSeq(S)[i] = SetToSeq(S)[j] => i = j
         /\ \A x \in S : \E i \in 1 .. Len(SetToSeq(S)) : SetToSeq(S)[i] = x
<1>1. PICK n \in Nat : n = Cardinality(S) /\ ExistsBijection(1 .. n, S)
  BY FS_CardinalityType
<1>2. \E f \in [1 .. n -> S] : IsInjective(f)
  BY <1>1 DEF ExistsBijection, Bijection, Injection
<1>3. PICK keys : keys = SetToSeq(S)
  OBVIOUS
<1>4. keys \in [1 .. n -> S] /\ IsInjective(keys)
  BY <1>1, <1>2, <1>3 DEF SetToSeq
<1>5. keys \in Surjection(1 .. n, S)
  <2>1. IsFiniteSet(1 .. n) /\ Cardinality(1 .. n) = n
    BY FS_Interval
  <2>2. keys \in Injection(1 .. n, S)
    BY <1>4 DEF Injection
  <2> QED BY <1>1, <2>1, <2>2, FS_Injection
<1>6. keys \in Seq(S) /\ Len(keys) = n
  BY <1>4
<1>7. \A i, j \in 1 .. n : keys[i] = keys[j] => i = j
  BY <1>4 DEF IsInjective
<1>8. \A x \in S : \E i \in 1 .. n : keys[i] = x
  BY <1>5 DEF Surjection
<1> QED BY <1>1, <1>3, <1>6, <1>7, <1>8

LEMMA LastOnly == ASSUME NEW i \in Nat PROVE Max({i}) = i
BY DEF Max

\* An hstore is read as it was sent, whatever characters its keys and values have.
LEMMA HstoreReadBack ==
  ASSUME NEW S, S \subseteq Text, IsFiniteSet(S), NEW d \in [S -> Field]
  PROVE  ParsedHstore(PrintedHstore(d)) = d
<1>1. PICK keys \in Seq(S) :
        /\ keys = SetToSeq(S)
        /\ \A i, j \in 1 .. Len(keys) : keys[i] = keys[j] => i = j
        /\ \A x \in S : \E i \in 1 .. Len(keys) : keys[i] = x
  BY KeysListed
<1>2. PICK n \in Nat : n = Len(keys) /\ keys \in [1 .. n -> S]
  OBVIOUS
<1> DEFINE listed == [i \in 1 .. n |-> <<keys[i], d[keys[i]]>>]
<1>3. PICK ps : ps = listed
  OBVIOUS
<1>4. \A i \in 1 .. n : ps[i] = <<keys[i], d[keys[i]]>> /\ ps[i] \in Text \X Field
  BY <1>2, <1>3
<1>5. ps \in Seq(Text \X Field) /\ Len(ps) = n /\ DOMAIN ps = 1 .. n
  BY <1>3, <1>4
<1>6. PrintedHstore(d) = PrintedPairs[ps]
  BY <1>1, <1>2, <1>3 DEF PrintedHstore
<1> HIDE DEF listed
<1>7. Pairs[PrintedPairs[ps]] = ps
  BY <1>5, PairsReadBack
<1>8. ParsedHstore(PrintedHstore(d)) =
        [key \in {p[1] : p \in ToSet(ps)} |-> ps[Max({i \in 1 .. Len(ps) : ps[i][1] = key})][2]]
  BY <1>6, <1>7 DEF ParsedHstore
<1>9. {p[1] : p \in ToSet(ps)} = S
  <2>1. \A i \in 1 .. n : ps[i][1] = keys[i] /\ keys[i] \in S
    BY <1>2, <1>4
  <2>2. ToSet(ps) = {ps[i] : i \in 1 .. n}
    BY <1>5 DEF ToSet
  <2>3. {p[1] : p \in ToSet(ps)} \subseteq S
    BY <2>1, <2>2
  <2>4. ASSUME NEW x \in S PROVE x \in {p[1] : p \in ToSet(ps)}
    <3>1. PICK i \in 1 .. n : keys[i] = x
      BY <1>1, <1>2
    <3>2. ps[i] \in ToSet(ps) /\ ps[i][1] = x
      BY <2>1, <2>2, <3>1
    <3> QED BY <3>2
  <2> QED BY <2>3, <2>4
<1>10. ASSUME NEW key \in S
       PROVE  ps[Max({i \in 1 .. Len(ps) : ps[i][1] = key})][2] = d[key]
  <2>1. PICK j \in 1 .. n : keys[j] = key
    BY <1>1, <1>2
  <2>2. {i \in 1 .. Len(ps) : ps[i][1] = key} = {j}
    <3>1. \A i \in 1 .. n : ps[i][1] = keys[i]
      BY <1>4
    <3> QED BY <1>1, <1>2, <1>5, <2>1, <3>1
  <2>3. Max({j}) = j
    BY LastOnly
  <2>4. ps[j][2] = d[key]
    BY <1>4, <2>1
  <2> QED BY <2>2, <2>3, <2>4
<1> QED BY <1>8, <1>9, <1>10

-----------------------------------------------------------------------------
(***************************************************************************)
(* The values that a program reads back.                                   *)
(***************************************************************************)
\* What the server makes of a range that it accepts has a point, unless it is
\* empty, and has its inclusive bounds.
LEMMA SentHasPoints ==
  ASSUME NEW r \in Ranges, Valid(r), NEW s, s = SentByName(r), ~ IsEmpty(s)
  PROVE  /\ \E x \in Points : Holds(s, x)
         /\ LowerInc(s) => Holds(s, s.lower)
         /\ UpperInc(s) => Holds(s, s.upper)
<1>1. s \in Ranges
  BY SentIsRange
<1>2. PICK low, up, f : /\ low = s.lower /\ up = s.upper /\ f = s.bounds
                        /\ low \in Bounds /\ up \in Bounds /\ f \in Flags
  BY <1>1, RangeParts DEF IsEmpty
<1>3. /\ None \notin Int \cup Flags /\ Values \subseteq Int
      /\ \A v \in Values : v \in Points /\ v + 1 \in Points /\ v - 1 \in Points
  <2>1. ASSUME NEW v \in Values PROVE v \in Points /\ v + 1 \in Points /\ v - 1 \in Points
    <3>1. v \in Int /\ v + 0 = v /\ v + (-1) = v - 1
      BY RangeAssumption
    <3> QED BY <3>1 DEF Points
  <2> QED BY <2>1, RangeAssumption
<1>4. f # None
  BY <1>2, <1>3
<1>5. low # None /\ up # None => low <= up /\ (low = up => f[1] = "[" /\ f[2] = "]")
  <2>1. EmptyRange.bounds = None
    BY DEF EmptyRange
  <2>2. ~ IsEmpty(r) /\ s = ServerRange(r.lower, r.upper, r.bounds)
    BY <2>1 DEF SentByName, IsEmpty
  <2>3. ~ (r.lower # None /\ r.lower = r.upper /\ r.bounds # <<"[", "]">>)
    BY <2>1, <2>2 DEF ServerRange, IsEmpty
  <2>4. s = [lower |-> r.lower, upper |-> r.upper,
             bounds |-> <<IF r.lower = None THEN "(" ELSE r.bounds[1],
                          IF r.upper = None THEN ")" ELSE r.bounds[2]>>]
    BY <2>2, <2>3 DEF ServerRange
  <2>5. s.lower = r.lower /\ s.upper = r.upper /\
        s.bounds = <<IF r.lower = None THEN "(" ELSE r.bounds[1],
                     IF r.upper = None THEN ")" ELSE r.bounds[2]>>
    BY ONLY <2>4
  <2>6. low = r.lower /\ up = r.upper
    BY <1>2, <2>5
  <2>7. ASSUME low # None, up # None, low = up PROVE f[1] = "[" /\ f[2] = "]"
    <3>1. r.bounds = <<"[", "]">>
      BY <2>3, <2>6, <2>7
    <3>2. r.bounds[1] = "[" /\ r.bounds[2] = "]"
      BY ONLY <3>1
    <3>3. f = <<r.bounds[1], r.bounds[2]>>
      BY <1>2, <2>5, <2>6, <2>7
    <3> QED BY <3>2, <3>3
  <2> QED BY <2>6, <2>7 DEF Valid
<1>6. \A x : Holds(s, x) <=> /\ low # None => IF f[1] = "[" THEN x >= low ELSE x > low
                             /\ up # None => IF f[2] = "]" THEN x <= up ELSE x < up
  BY <1>2, <1>4 DEF Holds
<1>7. /\ low # None => low \in Values /\ low \in Int
      /\ up # None => up \in Values /\ up \in Int
  <2>1. (low # None => low \in Values) /\ (up # None => up \in Values)
    BY <1>2 DEF Bounds
  <2>2. \A v \in Values : v \in Int
    BY RangeAssumption
  <2> QED BY <2>1, <2>2
<1>8. \E x \in Points : Holds(s, x)
  <2>1. CASE low = None /\ up = None
    <3>1. PICK v \in Values : TRUE
      BY SpreadAssumption
    <3> QED BY <1>3, <1>6, <2>1, <3>1
  <2>2. CASE low = None /\ up # None
    <3>1. up \in Int /\ up - 1 \in Points
      BY <1>3, <1>7, <2>2
    <3>2. up - 1 < up /\ up - 1 <= up
      BY <3>1
    <3> QED BY <1>6, <2>2, <3>1, <3>2
  <2>3. CASE low # None /\ up = None
    <3>1. low \in Int /\ low + 1 \in Points
      BY <1>3, <1>7, <2>3
    <3>2. low + 1 > low /\ low + 1 >= low
      BY <3>1
    <3> QED BY <1>6, <2>3, <3>1, <3>2
  <2>4. CASE low # None /\ up # None /\ low = up
    <3>1. low \in Int /\ low \in Points
      BY <1>3, <1>7, <2>4
    <3>2. low >= low /\ low <= up
      BY <2>4, <3>1
    <3> QED BY <1>5, <1>6, <2>4, <3>1, <3>2
  <2>5. CASE low # None /\ up # None /\ low # up
    <3>1. low \in Int /\ up \in Int /\ low <= up
      BY <1>5, <1>7, <2>5
    <3>2. low < up
      BY <2>5, <3>1
    <3>3. low + 1 < up /\ low + 1 \in Points
      BY <1>3, <1>7, <2>5, <3>2, SpreadAssumption
    <3>4. low + 1 > low /\ low + 1 >= low /\ low + 1 <= up
      BY <3>1, <3>3
    <3> QED BY <1>6, <3>3, <3>4
  <2> QED BY <2>1, <2>2, <2>3, <2>4, <2>5
<1>9. ASSUME LowerInc(s) PROVE Holds(s, low)
  <2>1. low # None /\ f[1] = "["
    BY <1>2, <1>9 DEF LowerInc
  <2>2. low \in Int
    BY <1>7, <2>1
  <2>3. low >= low
    BY <2>2
  <2>4. ASSUME up # None PROVE IF f[2] = "]" THEN low <= up ELSE low < up
    <3>1. up \in Int /\ low <= up /\ (low = up => f[2] = "]")
      BY <1>5, <1>7, <2>1, <2>4
    <3> QED BY <2>2, <3>1
  <2> QED BY <1>6, <2>1, <2>3, <2>4
<1>10. ASSUME UpperInc(s) PROVE Holds(s, up)
  <2>1. up # None /\ f[2] = "]"
    BY <1>2, <1>10 DEF UpperInc
  <2>2. up \in Int
    BY <1>7, <2>1
  <2>3. up <= up
    BY <2>2
  <2>4. ASSUME low # None PROVE IF f[1] = "[" THEN up >= low ELSE up > low
    <3>1. low \in Int /\ low <= up /\ (low = up => f[1] = "[")
      BY <1>5, <1>7, <2>1, <2>4
    <3> QED BY <2>2, <3>1
  <2> QED BY <1>6, <2>1, <2>3, <2>4
<1> QED BY <1>2, <1>8, <1>9, <1>10

\* What is read, of every value sent: the range that the server made of it, and
\* a row or an hstore as it is.
RangesAsServer ==
  reading \in {"range", "number"} =>
    \A r \in DOMAIN got : r \in Ranges /\ Valid(r) /\ got[r] = SentByName(r)

ReadInv == RangesAsServer /\ ReadAsSent

LEMMA NamingNames ==
  ASSUME NEW naming \in Namings \cup Numbers
  PROVE  Names(naming)
BY TextAssumption DEF Names, Namings, Numbers

LEMMA RangesReadAsServer ==
  ASSUME NEW g \in RangesRead
  PROVE  \A r \in DOMAIN g : r \in Ranges /\ Valid(r) /\ g[r] = SentByName(r)
<1>1. PICK r \in {s \in Ranges : Valid(s)}, naming \in Namings :
        g = [s \in {r} |-> RangeBack(SentByName(s), naming)]
  BY DEF RangesRead
<1>2. RangeBack(SentByName(r), naming) = SentByName(r)
  BY SentIsRange, NamingNames, RangeReadBack
<1> QED BY <1>1, <1>2

LEMMA NumbersReadAsServer ==
  ASSUME NEW g \in NumbersRead
  PROVE  \A r \in DOMAIN g : r \in Ranges /\ Valid(r) /\ g[r] = SentByName(r)
<1>1. PICK S \in RangeSets, naming \in Numbers :
        g = [s \in S |-> RangeBack(SentAsNumber(s, naming), naming)]
  BY DEF NumbersRead
<1>2. \A r \in S : r \in Ranges /\ Valid(r)
  <2>1. PICK f \in [1 .. MaxRead -> {s \in Ranges : Valid(s)}] : S = {f[i] : i \in 1 .. MaxRead}
    BY DEF RangeSets
  <2> QED BY <2>1
<1>3. \A r \in S : RangeBack(SentAsNumber(r, naming), naming) = SentByName(r)
  <2>1. Names(naming)
    BY NamingNames
  <2> QED BY <1>2, <2>1, NumberSent, SentIsRange, RangeReadBack
<1> QED BY <1>1, <1>2, <1>3

LEMMA RowsReadAsSent ==
  ASSUME NEW g \in RowsRead
  PROVE  \A v \in DOMAIN g : g[v] = v
<1>1. PICK row \in Rows : g = [r \in {row} |-> Tokens[Tail(PrintedRow(r))]]
  BY DEF RowsRead
<1>2. row \in Seq(Field)
  BY BoundAssumption, TextAssumption DEF Rows, Fields, Field
<1>3. PICK t \in Text : t = PrintedFields[row] /\ Tokens[t] = row
  BY <1>2, PrintedFieldsIs, RowReadBack
<1>4. PICK c \in Char : c = "("
  BY CharIs DEF Delimiter
<1>5. Tail(<<c>> \o t) = t
  <2>1. <<c>> \o t = Cons(c, t)
    BY TextCons
  <2>2. Tail(Cons(c, t)) = t
    BY TextCons
  <2> QED BY <2>1, <2>2
<1>6. Tokens[Tail(PrintedRow(row))] = row
  BY <1>3, <1>4, <1>5 DEF PrintedRow
<1> QED BY <1>1, <1>6

LEMMA HstoresReadAsSent ==
  ASSUME NEW g \in HstoresRead
  PROVE  \A v \in DOMAIN g : g[v] = v
<1>1. PICK dict \in Hstores : g = [d \in {dict} |-> ParsedHstore(PrintedHstore(d))]
  BY DEF HstoresRead
<1>2. \E S : S \subseteq Text /\ IsFiniteSet(S) /\ dict \in [S -> Field]
  <2>1. CASE dict = <<>>
    <3>1. dict \in [{} -> Field] /\ {} \subseteq Text
      BY <2>1
    <3> QED BY <3>1, FS_EmptySet
  <2>2. CASE dict # <<>>
    <3>1. PICK f \in [1 .. MaxFields -> Texts] : dict \in [{f[i] : i \in 1 .. MaxFields} -> Fields]
      BY <2>2 DEF Hstores
    <3>2. PICK S : S = {f[i] : i \in 1 .. MaxFields}
      OBVIOUS
    <3>3. f \in Surjection(1 .. MaxFields, S)
      BY <3>2 DEF Surjection
    <3>4. IsFiniteSet(S)
      BY <3>3, BoundAssumption, FS_Interval, FS_Surjection
    <3>5. S \subseteq Text /\ Fields \subseteq Field
      BY <3>2, TextAssumption DEF Fields, Field
    <3>6. dict \in [S -> Field]
      BY <3>1, <3>2, <3>5
    <3> QED BY <3>4, <3>5, <3>6
  <2> QED BY <2>1, <2>2
<1>3. ParsedHstore(PrintedHstore(dict)) = dict
  BY <1>2, HstoreReadBack
<1> QED BY <1>1, <1>3

LEMMA ReadInvariance == Spec => []ReadInv
<1> USE DEF ReadInv, RangesAsServer, ReadAsSent
<1>1. Init => ReadInv
  BY DEF Init
<1>2. ReadInv /\ [Next]_vars => ReadInv'
  <2> SUFFICES ASSUME ReadInv, [Next]_vars PROVE ReadInv'
    OBVIOUS
  <2>1. CASE Execute \/ EndTransaction \/ Register \/ UNCHANGED vars
    <3>1. reading' = reading /\ got' = got
      BY <2>1 DEF Execute, EndTransaction, Register, vars
    <3> QED BY <3>1
  <2>2. CASE Done
    BY <2>2 DEF Done
  <2>3. CASE Read
    <3>1. \/ reading' = "number" /\ got' \in NumbersRead
          \/ reading' = "range" /\ got' \in RangesRead
          \/ reading' = "hstore" /\ got' \in HstoresRead
          \/ reading' = "row" /\ got' \in RowsRead
      BY <2>3 DEF Read
    <3>2. CASE reading' = "number" /\ got' \in NumbersRead
      BY <3>2, NumbersReadAsServer
    <3>3. CASE reading' = "range" /\ got' \in RangesRead
      BY <3>3, RangesReadAsServer
    <3>4. CASE reading' = "hstore" /\ got' \in HstoresRead
      BY <3>4, HstoresReadAsSent
    <3>5. CASE reading' = "row" /\ got' \in RowsRead
      BY <3>5, RowsReadAsSent
    <3> QED BY <3>1, <3>2, <3>3, <3>4, <3>5
  <2> QED BY <2>1, <2>2, <2>3 DEF Next
<1> QED BY <1>1, <1>2, PTL DEF Spec

\* A row or an hstore is read as it was sent, whatever characters its fields,
\* keys and values have, and however long they are (CompositeCaster.tokenize,
\* HstoreAdapter.parse).
THEOREM RowsAndHstoresReadAsSent == Spec => []ReadAsSent
<1>1. ReadInv => ReadAsSent
  BY DEF ReadInv
<1> QED BY <1>1, ReadInvariance, PTL

\* A range that is read back has the points that the server's range has, and
\* says rightly whether it is empty and which of its bounds belong to it; so
\* does the range that was sent (Range.__contains__, getquoted,
\* RangeCaster.parse).
THEOREM RangesReadHaveSamePoints == Spec => []SamePoints
<1>1. ReadInv => SamePoints
  <2> SUFFICES ASSUME ReadInv, reading \in {"range", "number"}, NEW r \in DOMAIN got
               PROVE  /\ \A x \in Points : /\ Holds(got[r], x) <=> Within(SentByName(r), x)
                                           /\ Holds(r, x) <=> Within(SentByName(r), x)
                      /\ IsEmpty(got[r]) <=> \A x \in Points : ~ Holds(got[r], x)
                      /\ LowerInc(got[r]) => Holds(got[r], got[r].lower)
                      /\ UpperInc(got[r]) => Holds(got[r], got[r].upper)
    BY DEF SamePoints
  <2>1. r \in Ranges /\ Valid(r)
    BY DEF ReadInv, RangesAsServer
  <2>2. PICK s : s = got[r] /\ s = SentByName(r)
    BY DEF ReadInv, RangesAsServer
  <2>3. Points \subseteq Int
    <3>1. ASSUME NEW x \in Points PROVE x \in Int
      <4>1. PICK v \in Values, d \in {-1, 0, 1} : x = v + d
        BY DEF Points
      <4>2. v \in Int /\ d \in Int
        BY RangeAssumption
      <4> QED BY <4>1, <4>2
    <3> QED BY <3>1
  <2>4. \A x \in Points : /\ Holds(s, x) <=> Within(SentByName(r), x)
                          /\ Holds(r, x) <=> Within(SentByName(r), x)
    BY <2>1, <2>2, <2>3, RangeHoldsAsServer
  <2>5. CASE IsEmpty(s)
    <3>1. s.bounds = None
      BY <2>5 DEF IsEmpty
    <3>2. (\A x : ~ Holds(s, x)) /\ ~ LowerInc(s) /\ ~ UpperInc(s)
      BY <3>1 DEF Holds, LowerInc, UpperInc
    <3> QED BY <2>2, <2>4, <2>5, <3>2
  <2>6. CASE ~ IsEmpty(s)
    <3>1. /\ \E x \in Points : Holds(s, x)
          /\ LowerInc(s) => Holds(s, s.lower)
          /\ UpperInc(s) => Holds(s, s.upper)
      BY <2>1, <2>2, <2>6, SentHasPoints
    <3> QED BY <2>2, <2>4, <2>6, <3>1
  <2> QED BY <2>5, <2>6
<1> QED BY <1>1, ReadInvariance, PTL

\* The order of ranges is total, transitive and agrees with equality, for the
\* program's own ranges and those it has read together (Range.__lt__ and its
\* kin).
THEOREM RangesReadOrdered == Spec => []OrderConsistent
<1>1. ReadInv => OrderConsistent
  <2> SUFFICES ASSUME ReadInv, reading \in {"range", "number"},
                      NEW known, known = DOMAIN got \cup {got[r] : r \in DOMAIN got}
               PROVE  /\ \A r \in known : ~ Less(r, r) /\ AtMost(r, r) /\ AtLeast(r, r)
                      /\ \A r, s \in known :
                          /\ r # s => (Less(r, s) <=> ~ Less(s, r))
                          /\ AtMost(r, s) <=> ~ Greater(r, s)
                      /\ \A r, s, t \in known : Less(r, s) /\ Less(s, t) => Less(r, t)
    BY DEF OrderConsistent
  <2>1. known \subseteq Ranges
    BY SentIsRange DEF ReadInv, RangesAsServer
  <2>2. \A r : ~ Less(r, r) /\ AtMost(r, r) /\ AtLeast(r, r)
    BY DEF Less, AtMost, AtLeast, Equal
  <2>3. \A r, s \in known : /\ r # s => (Less(r, s) <=> ~ Less(s, r))
                            /\ AtMost(r, s) <=> ~ Greater(r, s)
    BY <2>1, RangeOrderTotal, RangeComparisonsAgree
  <2>4. \A r, s, t \in known : Less(r, s) /\ Less(s, t) => Less(r, t)
    BY <2>1, RangeOrderTransitive
  <2> QED BY <2>2, <2>3, <2>4
<1> QED BY <1>1, ReadInvariance, PTL

-----------------------------------------------------------------------------
(***************************************************************************)
(* The registration of types.  What the connection believes agrees with    *)
(* the server, and work is there only in a transaction.                    *)
(***************************************************************************)
SessionInv ==
  /\ autocommit \in BOOLEAN
  /\ autocommit => status = "ready" /\ server = "idle" /\ work = 0
  /\ ~ autocommit => \/ status = "ready" /\ server = "idle" /\ work = 0
                     \/ status = "begin" /\ server \in {"intrans", "inerror"}

LEMMA SessionInvariance == Spec => []SessionInv
<1>1. Init => SessionInv
  BY DEF Init, SessionInv
<1>2. SessionInv /\ [Next]_vars => SessionInv'
  <2> SUFFICES ASSUME SessionInv, [Next]_vars PROVE SessionInv'
    OBVIOUS
  <2> USE DEF SessionInv, session, Begun, Fails, RolledBack
  <2>1. CASE Execute
    BY <2>1 DEF Execute
  <2>2. CASE EndTransaction
    BY <2>2 DEF EndTransaction
  <2>3. CASE Register
    BY <2>3 DEF Register, RegisterRange, RegisterHstore, RegisterComposite, Queried, Revert,
                QueryRaises, RangeQueryRaises
  <2>4. CASE Read
    <3>1. autocommit' = autocommit /\ Begun /\ work' = work /\ server # "inerror"
      BY <2>4 DEF Read
    <3> QED BY <3>1
  <2>5. CASE Done \/ UNCHANGED vars
    BY <2>5 DEF Done, vars
  <2> QED BY <2>1, <2>2, <2>3, <2>4, <2>5 DEF Next
<1> QED BY <1>1, <1>2, PTL DEF Spec

\* StatusReverted holds of every instance: a registration that returns, or finds
\* no type, leaves the transaction that it was called in as it was, with all
\* the work in it, and leaves none open that it has begun itself.
THEOREM RegistrationReverts == Spec => StatusReverted
<1>1. SessionInv /\ [Next]_vars =>
        [outcome' \in {"registered", "missing"} => UNCHANGED session]_vars
  <2> SUFFICES ASSUME SessionInv, [Next]_vars, ~ UNCHANGED vars,
                      outcome' \in {"registered", "missing"}
               PROVE  UNCHANGED session
    OBVIOUS
  <2>1. Register \/ Done
    BY DEF Next, Execute, EndTransaction, Read
  <2>2. CASE Register
    <3>1. server # "inerror" /\ Revert
      BY <2>2 DEF Register, RegisterRange, RegisterHstore, RegisterComposite, Queried,
                  QueryRaises, RangeQueryRaises
    <3> QED BY <3>1 DEF SessionInv, session, Revert, Begun, RolledBack
  <2> QED BY <2>1, <2>2 DEF Done
<1> QED BY <1>1, SessionInvariance, PTL DEF Spec, StatusReverted
=============================================================================
