------------------------------- MODULE Descent -------------------------------
(***************************************************************************)
(* Functions that are defined recursively, each value from the value at    *)
(* one argument of lower rank at most: functions on the positions of a     *)
(* text that go on behind a position, and functions on sequences that go   *)
(* on with a part of them.  Body is the right-hand side of the definition, *)
(* with two more parameters; what is shown of the values is Good(value,    *)
(* argument).  A module that has such a function instantiates this one.    *)
(***************************************************************************)
EXTENDS Integers, WellFoundedInduction, TLAPS

CONSTANTS Dom, Rank(_), Body(_, _, _, _), Good(_, _)

Fun(a, b) == CHOOSE f : f = [x \in Dom |-> Body(f, x, a, b)]

Ranked == \A x \in Dom : Rank(x) \in Nat

\* Each value is good for itself, or follows from one of lower rank and is good
\* if that one is.
Steps(a, b) ==
  \A x \in Dom : \A f :
    \/ Good(Body(f, x, a, b), x) /\ \A g : Body(g, x, a, b) = Body(f, x, a, b)
    \/ \E y \in Dom :
         /\ Rank(y) < Rank(x)
         /\ Good(f[y], y) => Good(Body(f, x, a, b), x)
         /\ \A g : g[y] = f[y] => Body(g, x, a, b) = Body(f, x, a, b)

\* What fails for some number fails for a least one.
LEMMA LeastNumber ==
  ASSUME NEW T, T \subseteq Nat, T # {}
  PROVE  \E x \in T : \A y \in T : x <= y
<1>1. PICK x \in T : \A y \in T : ~ (<<y, x>> \in OpToRel(<, Nat))
  BY NatLessThanWellFounded, WFMin
<1>2. \A y \in T : ~ (y < x)
  BY <1>1 DEF OpToRel
<1> QED
  BY <1>2

\* What fails for some argument fails for one of least rank.
LEMMA LeastRank ==
  ASSUME Ranked, NEW T, T \subseteq Dom, T # {}
  PROVE  \E x \in T : \A y \in Dom : Rank(y) < Rank(x) => y \notin T
<1> DEFINE R == {Rank(x) : x \in T}
<1>1. R \subseteq Nat /\ R # {}
  BY DEF Ranked
<1>2. PICK n \in R : \A m \in R : n <= m
  <2> HIDE DEF R
  <2> QED BY <1>1, LeastNumber
<1>3. PICK x \in T : Rank(x) = n
  BY <1>2
<1>4. ASSUME NEW y \in Dom, Rank(y) < Rank(x), y \in T PROVE FALSE
  <2>1. Rank(y) \in R /\ Rank(y) \in Nat /\ Rank(x) \in Nat
    BY <1>4 DEF Ranked
  <2> QED BY <1>2, <1>3, <1>4, <2>1
<1> QED BY <1>4

LEMMA LooksDown ==
  ASSUME NEW a, NEW b, Steps(a, b), NEW x \in Dom, NEW f, NEW g,
         \A y \in Dom : Rank(y) < Rank(x) => f[y] = g[y]
  PROVE  Body(f, x, a, b) = Body(g, x, a, b)
<1>1. \/ \A h : Body(h, x, a, b) = Body(f, x, a, b)
      \/ \E y \in Dom : /\ Rank(y) < Rank(x)
                        /\ \A h : h[y] = f[y] => Body(h, x, a, b) = Body(f, x, a, b)
  BY DEF Steps
<1> QED BY <1>1

\* The function exists: it is made rank after rank.
MadeUpTo(f, n, a, b) == \A x \in Dom : Rank(x) < n => f[x] = Body(f, x, a, b)

Alike(a, b) ==
  \A m, n \in Nat : \A f, g :
    MadeUpTo(f, m, a, b) /\ MadeUpTo(g, n, a, b) =>
      \A x \in Dom : Rank(x) < m /\ Rank(x) < n => f[x] = g[x]

LEMMA MadeAlike ==
  ASSUME Ranked, NEW a, NEW b, Steps(a, b)
  PROVE  Alike(a, b)
<1> SUFFICES ASSUME NEW m \in Nat, NEW n \in Nat, NEW f, NEW g,
                    MadeUpTo(f, m, a, b), MadeUpTo(g, n, a, b)
             PROVE  \A x \in Dom : Rank(x) < m /\ Rank(x) < n => f[x] = g[x]
  BY DEF Alike
<1> DEFINE T == {x \in Dom : Rank(x) < m /\ Rank(x) < n /\ f[x] # g[x]}
<1>1. SUFFICES ASSUME T # {} PROVE FALSE
  OBVIOUS
<1>2. PICK x \in T : \A y \in Dom : Rank(y) < Rank(x) => y \notin T
  <2>1. T \subseteq Dom
    OBVIOUS
  <2> HIDE DEF T
  <2> QED BY <1>1, <2>1, LeastRank
<1>3. x \in Dom /\ Rank(x) < m /\ Rank(x) < n /\ f[x] # g[x]
  OBVIOUS
<1>4. ASSUME NEW y \in Dom, Rank(y) < Rank(x) PROVE f[y] = g[y]
  <2>1. Rank(y) < m /\ Rank(y) < n
    BY <1>3, <1>4 DEF Ranked
  <2> QED BY <1>2, <1>4, <2>1
<1>5. Body(f, x, a, b) = Body(g, x, a, b)
  <2> HIDE DEF T
  <2> QED BY <1>3, <1>4, LooksDown
<1> QED BY <1>3, <1>5 DEF MadeUpTo

LEMMA MadeFurther ==
  ASSUME Ranked, NEW a, NEW b, Steps(a, b), NEW n \in Nat, NEW f, MadeUpTo(f, n, a, b)
  PROVE  \E g : MadeUpTo(g, n + 1, a, b)
<1> DEFINE g == [x \in Dom |-> Body(f, x, a, b)]
<1>1. \A x \in Dom : g[x] = Body(f, x, a, b)
  OBVIOUS
<1> HIDE DEF g
<1>2. ASSUME NEW x \in Dom, Rank(x) < n + 1 PROVE g[x] = Body(g, x, a, b)
  <2>1. ASSUME NEW y \in Dom, Rank(y) < Rank(x) PROVE f[y] = g[y]
    <3>1. Rank(y) < n
      BY <1>2, <2>1 DEF Ranked
    <3> QED BY <1>1, <3>1 DEF MadeUpTo
  <2>2. Body(f, x, a, b) = Body(g, x, a, b)
    BY <2>1, LooksDown
  <2> QED BY <1>1, <2>2
<1> QED BY <1>2 DEF MadeUpTo

LEMMA Defined ==
  ASSUME Ranked, NEW a, NEW b, Steps(a, b)
  PROVE  Fun(a, b) = [x \in Dom |-> Body(Fun(a, b), x, a, b)]
<1> DEFINE Unmade == {n \in Nat : ~ \E f : MadeUpTo(f, n, a, b)}
<1>1. Unmade = {}
  <2> SUFFICES ASSUME Unmade # {} PROVE FALSE
    OBVIOUS
  <2>1. PICK n \in Unmade : \A m \in Unmade : n <= m
    <3>1. Unmade \subseteq Nat
      OBVIOUS
    <3> HIDE DEF Unmade
    <3> QED BY <3>1, LeastNumber
  <2>2. n # 0
    <3>1. \A f : MadeUpTo(f, 0, a, b)
      BY DEF MadeUpTo, Ranked
    <3> QED BY <3>1
  <2>3. n \in Nat /\ n - 1 \in Nat /\ n - 1 \notin Unmade
    BY <2>1, <2>2
  <2>4. PICK f : MadeUpTo(f, n - 1, a, b)
    BY <2>3
  <2>5. (n - 1) + 1 = n
    BY <2>3
  <2>6. \E g : MadeUpTo(g, n, a, b)
    <3> HIDE DEF Unmade
    <3> QED BY <2>3, <2>4, <2>5, MadeFurther
  <2> QED BY <2>1, <2>6
<1> DEFINE Made(n) == CHOOSE f : MadeUpTo(f, n, a, b)
<1>2. \A n \in Nat : MadeUpTo(Made(n), n, a, b)
  BY <1>1
<1> HIDE DEF Made
<1> DEFINE h == [x \in Dom |-> Made(Rank(x) + 1)[x]]
<1>3. \A x \in Dom : h[x] = Made(Rank(x) + 1)[x]
  OBVIOUS
<1>4. h = [x \in Dom |-> h[x]]
  OBVIOUS
<1> HIDE DEF h
<1>5. ASSUME NEW x \in Dom PROVE h[x] = Body(h, x, a, b)
  <2>1. PICK f : f = Made(Rank(x) + 1)
    OBVIOUS
  <2>2. Rank(x) \in Nat /\ Rank(x) + 1 \in Nat /\ Rank(x) < Rank(x) + 1
    BY DEF Ranked
  <2>3. MadeUpTo(f, Rank(x) + 1, a, b)
    BY <1>2, <2>1, <2>2
  <2>4. ASSUME NEW y \in Dom, Rank(y) < Rank(x) PROVE f[y] = h[y]
    <3>1. PICK g : g = Made(Rank(y) + 1)
      OBVIOUS
    <3>2. Rank(y) + 1 \in Nat /\ Rank(y) < Rank(y) + 1 /\ Rank(y) < Rank(x) + 1
      BY <2>2, <2>4 DEF Ranked
    <3>3. MadeUpTo(g, Rank(y) + 1, a, b)
      BY <1>2, <3>1, <3>2
    <3>4. Alike(a, b)
      BY MadeAlike
    <3>5. f[y] = g[y]
      BY <2>2, <2>3, <3>2, <3>3, <3>4 DEF Alike
    <3> QED BY <1>3, <3>1, <3>5
  <2>5. Body(f, x, a, b) = Body(h, x, a, b)
    BY <2>4, LooksDown
  <2>6. f[x] = Body(f, x, a, b)
    BY <2>2, <2>3 DEF MadeUpTo
  <2> QED BY <1>3, <2>1, <2>5, <2>6
<1>6. h = [x \in Dom |-> Body(h, x, a, b)]
  BY <1>4, <1>5
<1> QED BY <1>6 DEF Fun

LEMMA AllGood ==
  ASSUME Ranked, NEW a, NEW b, Steps(a, b)
  PROVE  \A x \in Dom : Good(Fun(a, b)[x], x)
<1> DEFINE f == Fun(a, b)
           T == {x \in Dom : ~Good(f[x], x)}
<1>1. \A x \in Dom : f[x] = Body(f, x, a, b)
  BY Defined
<1> HIDE DEF f
<1>2. ASSUME T # {} PROVE FALSE
  <2>1. PICK x \in T : \A y \in Dom : Rank(y) < Rank(x) => y \notin T
    <3>1. T \subseteq Dom
      OBVIOUS
    <3> HIDE DEF T
    <3> QED BY <1>2, <3>1, LeastRank
  <2>2. x \in Dom /\ ~Good(f[x], x)
    OBVIOUS
  <2>3. \A y \in Dom : Rank(y) < Rank(x) => Good(f[y], y)
    BY <2>1
  <2>4. \/ Good(Body(f, x, a, b), x)
        \/ \E y \in Dom : Rank(y) < Rank(x) /\ (Good(f[y], y) => Good(Body(f, x, a, b), x))
    BY <2>2 DEF Steps
  <2> QED BY <1>1, <2>2, <2>3, <2>4
<1> QED BY <1>2 DEF f

\* Both together.
LEMMA Descends ==
  ASSUME Ranked, NEW a, NEW b, Steps(a, b)
  PROVE  \A x \in Dom : /\ Fun(a, b)[x] = Body(Fun(a, b), x, a, b)
                        /\ Good(Fun(a, b)[x], x)
<1> DEFINE f == Fun(a, b)
<1>1. f = [x \in Dom |-> Body(f, x, a, b)]
  BY Defined
<1>2. \A x \in Dom : Good(f[x], x)
  BY AllGood
<1> HIDE DEF f
<1>3. \A x \in Dom : f[x] = Body(f, x, a, b)
  BY <1>1
<1> QED BY <1>2, <1>3 DEF f
==============================================================================
