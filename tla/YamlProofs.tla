----------------------------- MODULE YamlProofs -----------------------------
(***************************************************************************)
(* Theorems about PyYAML's scanner and parser, for every text and for      *)
(* whoever asks the parser for events: first the parser's stacks, then what*)
(* the scanner reads, its queue of tokens and its possible simple keys.    *)
(***************************************************************************)
EXTENDS YamlParser, SequenceTheorems, FiniteSetTheorems, WellFoundedInduction, TLAPS

-----------------------------------------------------------------------------
(***************************************************************************)
(* Numbers.  What fails for some number fails for a least one.             *)
(***************************************************************************)
LEMMA LeastNumber ==
  ASSUME NEW T, T \subseteq Nat, T # {}
  PROVE  \E x \in T : \A y \in T : x <= y
<1>1. PICK x \in T : \A y \in T : ~ (<<y, x>> \in OpToRel(<, Nat))
  BY NatLessThanWellFounded, WFMin
<1>2. \A y \in T : ~ (y < x)
  BY <1>1 DEF OpToRel
<1> QED
  BY <1>2

-----------------------------------------------------------------------------
(***************************************************************************)
(* The function that FlattenSeq is defined by: for n > 0 sequences, it is  *)
(* the only one, and its value at n is what FlattenSeq gives.              *)
(***************************************************************************)
Flattens(f, seqs) ==
  f = [i \in 1..Len(seqs) |-> IF i = 1 THEN seqs[i] ELSE f[i - 1] \o seqs[i]]

LEMMA FlattensUnique ==
  ASSUME NEW S, NEW seqs \in Seq(S), NEW f, NEW g, Flattens(f, seqs), Flattens(g, seqs)
  PROVE  f = g
<1> PICK n \in Nat : n = Len(seqs)
  BY LenProperties
<1>1. DOMAIN f = 1..n /\ DOMAIN g = 1..n
  BY DEF Flattens
<1> DEFINE T == {i \in 1..n : f[i] # g[i]}
<1>2. ASSUME T # {} PROVE FALSE
  <2>0. T \subseteq Nat
    OBVIOUS
  <2>1. PICK i \in T : \A j \in T : i <= j
    BY <1>2, <2>0, LeastNumber
  <2>2. f[i] = IF i = 1 THEN seqs[i] ELSE f[i - 1] \o seqs[i]
    BY DEF Flattens
  <2>3. g[i] = IF i = 1 THEN seqs[i] ELSE g[i - 1] \o seqs[i]
    BY DEF Flattens
  <2>4. CASE i = 1
    BY <2>2, <2>3, <2>4
  <2>5. CASE i # 1
    <3>1. i - 1 \in 1..n /\ i - 1 \notin T
      BY <2>1, <2>5
    <3> QED
      BY <2>2, <2>3, <3>1
  <2> QED
    BY <2>4, <2>5
<1>3. f = [i \in 1..n |-> f[i]] /\ g = [i \in 1..n |-> g[i]]
  BY <1>1 DEF Flattens
<1>4. \A i \in 1..n : f[i] = g[i]
  BY <1>2
<1> QED
  BY <1>3, <1>4

LEMMA FlattenIs ==
  ASSUME NEW S, NEW seqs \in Seq(S), seqs # <<>>, NEW f, Flattens(f, seqs)
  PROVE  FlattenSeq(seqs) = f[Len(seqs)]
<1> DEFINE g == CHOOSE g : g = [i \in 1..Len(seqs) |-> IF i = 1 THEN seqs[i] ELSE g[i - 1] \o seqs[i]]
<1>1. Flattens(g, seqs)
  BY DEF Flattens
<1>2. g = f
  BY <1>1, FlattensUnique
<1>3. Len(seqs) # 0
  BY EmptySeq
<1>4. FlattenSeq(seqs) = g[Len(seqs)]
  BY <1>3 DEF FlattenSeq
<1> QED
  BY <1>2, <1>4

\* One more sequence behind the others.
LEMMA FlattensAppend ==
  ASSUME NEW S, NEW seqs \in Seq(S), NEW x \in S, NEW f, Flattens(f, seqs)
  PROVE  Flattens([i \in 1..(Len(seqs) + 1) |->
                     IF i = Len(seqs) + 1 THEN IF seqs = <<>> THEN x ELSE f[Len(seqs)] \o x ELSE f[i]],
                  Append(seqs, x))
<1> PICK n \in Nat : n = Len(seqs)
  BY LenProperties
<1> DEFINE g == [i \in 1..(n + 1) |-> IF i = n + 1 THEN IF seqs = <<>> THEN x ELSE f[n] \o x ELSE f[i]]
           all == Append(seqs, x)
<1>1. /\ Len(all) = n + 1 /\ all[n + 1] = x
      /\ \A i \in 1..n : all[i] = seqs[i]
  BY AppendProperties
<1>2. seqs = <<>> <=> n = 0
  BY EmptySeq
<1>3. ASSUME NEW i \in 1..(n + 1)
      PROVE  g[i] = IF i = 1 THEN all[i] ELSE g[i - 1] \o all[i]
  <2>1. CASE i = n + 1 /\ n = 0
    BY <1>1, <1>2, <2>1
  <2>2. CASE i = n + 1 /\ n # 0
    <3>1. g[i] = f[n] \o x /\ i # 1
      BY <1>2, <2>2
    <3>2. g[i - 1] = f[n]
      BY <2>2
    <3> QED
      BY <1>1, <2>2, <3>1, <3>2
  <2>3. CASE i # n + 1
    <3>0. i \in 1..Len(seqs)
      BY <2>3
    <3>1. f[i] = IF i = 1 THEN seqs[i] ELSE f[i - 1] \o seqs[i]
      BY <3>0 DEF Flattens
    <3>2. g[i] = f[i] /\ (i # 1 => g[i - 1] = f[i - 1])
      BY <2>3
    <3> QED
      BY <1>1, <2>3, <3>1, <3>2
  <2> QED
    BY <2>1, <2>2, <2>3
<1>4. g = [i \in 1..(n + 1) |-> IF i = 1 THEN all[i] ELSE g[i - 1] \o all[i]]
  BY <1>3
<1> HIDE DEF g
<1>5. Flattens(g, all)
  BY <1>1, <1>4 DEF Flattens
<1> QED
  BY <1>5 DEF g

LEMMA FlattensExists ==
  ASSUME NEW S, NEW seqs \in Seq(Seq(S))
  PROVE  \E f : Flattens(f, seqs) /\ (seqs # <<>> => f[Len(seqs)] \in Seq(S))
<1> DEFINE Good(s) == \E f : Flattens(f, s) /\ (s # <<>> => f[Len(s)] \in Seq(S))
           T == {m \in Nat : \E s \in Seq(Seq(S)) : Len(s) = m /\ ~Good(s)}
<1>1. ASSUME T # {} PROVE FALSE
  <2>0. T \subseteq Nat
    OBVIOUS
  <2>1. PICK m \in T : \A k \in T : m <= k
    BY <1>1, <2>0, LeastNumber
  <2>2. PICK s \in Seq(Seq(S)) : Len(s) = m /\ ~Good(s)
    BY <2>1
  <2>3. CASE s = <<>>
    <3> DEFINE f == [i \in 1..0 |-> <<>>]
    <3>1. Len(s) = 0
      BY <2>3, EmptySeq
    <3>2. Flattens(f, s)
      BY <3>1 DEF Flattens
    <3> QED
      BY <2>2, <2>3, <3>2
  <2>4. CASE s # <<>>
    <3>1. PICK t \in Seq(Seq(S)), x \in Seq(S) : s = Append(t, x)
      BY <2>4, SequenceEmptyOrAppend
    <3>2. Len(t) \in Nat /\ Len(s) = Len(t) + 1
      BY <3>1, AppendProperties, LenProperties
    <3>3. Good(t)
      <4>1. ~Good(t) => Len(t) \in T
        BY <3>2
      <4> HIDE DEF T
      <4>2. Len(t) \notin T
        BY <2>0, <2>1, <2>2, <3>2
      <4> QED
        BY <4>1, <4>2
    <3>4. PICK f : Flattens(f, t) /\ (t # <<>> => f[Len(t)] \in Seq(S))
      BY <3>3
    <3> DEFINE g == [i \in 1..(Len(t) + 1) |->
                       IF i = Len(t) + 1 THEN IF t = <<>> THEN x ELSE f[Len(t)] \o x ELSE f[i]]
    <3>5. Flattens(g, s)
      BY <3>1, <3>4, FlattensAppend
    <3>6. g[Len(s)] \in Seq(S)
      BY <3>2, <3>4, ConcatProperties
    <3> QED
      BY <2>2, <3>5, <3>6
  <2> QED
    BY <2>3, <2>4
<1>2. Len(seqs) \in Nat
  BY LenProperties
<1> QED
  BY <1>1, <1>2

LEMMA FlattenAppend ==
  ASSUME NEW S, NEW seqs \in Seq(Seq(S)), NEW x \in Seq(S)
  PROVE  /\ FlattenSeq(seqs) \in Seq(S)
         /\ FlattenSeq(Append(seqs, x)) = FlattenSeq(seqs) \o x
<1>1. PICK f : Flattens(f, seqs) /\ (seqs # <<>> => f[Len(seqs)] \in Seq(S))
  BY FlattensExists
<1>2. seqs # <<>> => FlattenSeq(seqs) = f[Len(seqs)]
  BY <1>1, FlattenIs
<1>3. seqs = <<>> => FlattenSeq(seqs) = <<>>
  BY EmptySeq DEF FlattenSeq
<1> DEFINE g == [i \in 1..(Len(seqs) + 1) |->
                   IF i = Len(seqs) + 1 THEN IF seqs = <<>> THEN x ELSE f[Len(seqs)] \o x ELSE f[i]]
<1>4. Flattens(g, Append(seqs, x))
  BY <1>1, FlattensAppend
<1>5. /\ Append(seqs, x) \in Seq(Seq(S)) /\ Append(seqs, x) # <<>>
      /\ Len(Append(seqs, x)) = Len(seqs) + 1 /\ Len(seqs) \in Nat
  BY AppendProperties, LenProperties
<1>6. FlattenSeq(Append(seqs, x)) = g[Len(seqs) + 1]
  <2> HIDE DEF g
  <2> QED
    BY <1>4, <1>5, FlattenIs
<1>7. g[Len(seqs) + 1] = IF seqs = <<>> THEN x ELSE f[Len(seqs)] \o x
  BY <1>5
<1>8. FlattenSeq(seqs) \in Seq(S)
  BY <1>1, <1>2, <1>3, EmptySeq
<1>9. <<>> \o x = x
  BY ConcatEmptySeq
<1> QED
  BY <1>2, <1>3, <1>6, <1>7, <1>8, <1>9
-----------------------------------------------------------------------------
(***************************************************************************)
(* The invariant of the parser.                                            *)
(***************************************************************************)
\* The states that are put on the stack.
Followers == {"DocumentEnd", "BlockSequenceEntry", "IndentlessSequenceEntry", "BlockMappingValue",
  "BlockMappingKey", "FlowSequenceEntryMappingValue", "FlowSequenceEntryMappingEnd", "FlowMappingValue",
  "FlowMappingKey", "FlowSequenceEntry", "FlowMappingEmptyValue"}

\* Those in which no document is open.
Outside == {None, "StreamStart", "ImplicitDocumentStart", "DocumentStart", "Directives", "DocumentEnd"}

\* Those of a collection that has a mark; that of "Item" is the state behind it.
Marked == {"BlockSequenceEntry", "BlockMappingKey", "BlockMappingValue", "FlowSequenceEntry",
  "FlowSequenceItem", "FlowSequenceEntryMappingKey", "FlowSequenceEntryMappingValue",
  "FlowSequenceEntryMappingEnd", "FlowMappingKey", "FlowMappingItem", "FlowMappingValue",
  "FlowMappingEmptyValue"}
Here == IF state = "Item" THEN item.next ELSE state
Count(waiting) == Cardinality({n \in DOMAIN waiting : waiting[n] \in Marked})

StackOK ==
  /\ state \in DOMAIN Waits \cup {"Node", "Properties", "DocumentContent", "Item", None}
  /\ state = "Item" => item \in {Item[s] : s \in DOMAIN Item}
  /\ states \in Seq(Followers)
  /\ state \in Outside => states = <<>>
  /\ state \notin Outside => states # <<>> /\ states[1] = "DocumentEnd"
  /\ \A n \in 2..Len(states) : states[n] # "DocumentEnd"

\* The collections that are open and have a mark.
Depth == Count(states) + (IF Here \in Marked THEN 1 ELSE 0)
MarksOK == \E S : marks \in Seq(S) /\ Len(marks) = Depth

Names == {"Stream", "Document", "DocumentEnd", "Sequence", "Key", "Value"}

\* None is no state and no event.
NoneApart ==
  /\ None \notin DOMAIN Waits \cup {"Node", "Properties", "DocumentContent", "Item"}
  /\ DOMAIN None # {"type", "anchor", "tag", "plain", "value"}

-----------------------------------------------------------------------------
(***************************************************************************)
(* Stacks.                                                                 *)
(***************************************************************************)
LEMMA SplitStack ==
  ASSUME NEW S, NEW s \in Seq(S), s # <<>>
  PROVE  /\ Front(s) \in Seq(S) /\ Last(s) \in S /\ s = Append(Front(s), Last(s))
         /\ Len(s) \in Nat /\ Len(s) > 0 /\ Len(Front(s)) = Len(s) - 1
         /\ \A i \in 1..(Len(s) - 1) : Front(s)[i] = s[i]
<1>1. PICK t \in Seq(S), x \in S : s = Append(t, x)
  BY SequenceEmptyOrAppend
<1>2. /\ Len(s) = Len(t) + 1 /\ Len(t) \in Nat
      /\ \A i \in 1..Len(t) : s[i] = t[i]
      /\ s[Len(t) + 1] = x
  BY <1>1, AppendProperties, LenProperties
<1>3. Last(s) = x
  BY <1>2 DEF Last
<1>4. \A i \in 1..(Len(s) - 1) : s[i] \in S
  BY <1>2, ElementOfSeq
<1>5. /\ Front(s) \in Seq(S) /\ Len(Front(s)) = Len(t)
      /\ \A i \in 1..Len(t) : Front(s)[i] = s[i]
  <2>1. /\ Front(s) \in Seq(S)
        /\ Len(Front(s)) = IF 1 <= Len(s) - 1 THEN Len(s) - 1 - 1 + 1 ELSE 0
        /\ \A i \in 1..(Len(s) - 1 - 1 + 1) : Front(s)[i] = s[1 + i - 1]
    BY <1>2, <1>4, SubSeqProperties, Len(s) - 1 \in Int DEF Front
  <2> QED
    BY <1>2, <2>1
<1>6. Front(s) = t
  BY <1>2, <1>5, SeqEqual
<1> QED
  BY <1>1, <1>2, <1>3, <1>5, <1>6

LEMMA SplitAppend ==
  ASSUME NEW S, NEW s \in Seq(S), NEW x \in S
  PROVE  Append(s, x) # <<>> /\ Front(Append(s, x)) = s /\ Last(Append(s, x)) = x
<1> DEFINE t == Append(s, x)
<1>1. t \in Seq(S) /\ t # <<>>
  BY AppendProperties
<1>2. t = Append(Front(t), Last(t)) /\ Front(t) \in Seq(S) /\ Last(t) \in S
  BY <1>1, SplitStack
<1> HIDE DEF t
<1>3. Append(Front(t), Last(t)) = Append(s, x)
  BY <1>2 DEF t
<1> QED
  BY <1>1, <1>2, <1>3, AppendInjective DEF t

LEMMA AppendTwo ==
  ASSUME NEW x \in Names, NEW y \in Names
  PROVE  Append(<<>>, x) = <<x>> /\ Append(<<y>>, x) = <<y, x>>
<1>1. /\ <<>> \in Seq(Names) /\ <<x>> \in Seq(Names) /\ <<y>> \in Seq(Names)
      /\ <<y, x>> \in Seq(Names)
  OBVIOUS
<1>2. Len(<<y, x>>) = 2 /\ Len(<<y>>) = 1 /\ <<y, x>>[1] = y /\ <<y, x>>[2] = x /\ <<y>>[1] = y
  OBVIOUS
<1>3. Append(<<>>, x) = <<x>>
  BY <1>1, AppendIsConcat, ConcatEmptySeq
<1>4. /\ Append(<<y>>, x) \in Seq(Names) /\ Len(Append(<<y>>, x)) = 2
      /\ Append(<<y>>, x)[1] = y /\ Append(<<y>>, x)[2] = x
  BY <1>1, <1>2, AppendProperties
<1>5. \A i \in 1..2 : Append(<<y>>, x)[i] = <<y, x>>[i]
  BY <1>2, <1>4
<1>6. Append(<<y>>, x) = <<y, x>>
  BY <1>1, <1>2, <1>4, <1>5, SeqEqual
<1> QED
  BY <1>3, <1>6

\* What a follower waits for, and what it has been before its node.
LEMMA WaitsIs ==
  /\ \A s \in DOMAIN Waits : Waits[s] \in Seq(Names)
  /\ \A s \in Followers : s \in DOMAIN Waits /\ Waits[s] # <<>> /\ Last(Waits[s]) \in DOMAIN Before
  /\ \A x \in DOMAIN Before : Before[x] \in Names /\ Before[x] \in DOMAIN Events!After
                              /\ Events!After[Before[x]] = x
<1>1. \A s \in DOMAIN Waits : Waits[s] \in Seq(Names)
  <2>1. <<>> \in Seq(Names) /\ \A x, y \in Names : <<x>> \in Seq(Names) /\ <<x, y>> \in Seq(Names)
    OBVIOUS
  <2>2. \A s \in DOMAIN Waits :
          Waits[s] \in {<<>>, <<"Stream">>, <<"Stream", "DocumentEnd">>, <<"Sequence">>, <<"Key">>,
                       <<"Value">>, <<"Sequence", "Key">>, <<"Sequence", "Value">>}
    BY DEF Waits
  <2> QED
    BY <2>1, <2>2 DEF Names
<1>2. \A s \in Followers : s \in DOMAIN Waits
  BY DEF Waits, Followers
<1>3. ASSUME NEW s \in Followers
      PROVE  Waits[s] # <<>> /\ Last(Waits[s]) \in {"Sequence", "Key", "Value", "DocumentEnd"}
  <2>1. CASE s \in {"DocumentEnd", "FlowSequenceEntryMappingValue", "FlowSequenceEntryMappingEnd"}
    BY <2>1 DEF Waits, Last
  <2>2. CASE s \notin {"DocumentEnd", "FlowSequenceEntryMappingValue", "FlowSequenceEntryMappingEnd"}
    BY <2>2 DEF Waits, Followers, Last
  <2> QED
    BY <2>1, <2>2
<1>4. DOMAIN Before = {"Sequence", "Key", "Value", "DocumentEnd"}
  BY DEF Before
<1>5. \A x \in DOMAIN Before : Before[x] \in Names /\ Before[x] \in DOMAIN Events!After
                               /\ Events!After[Before[x]] = x
  BY DEF Before, Names, Events!After
<1> QED
  BY <1>1, <1>2, <1>3, <1>4, <1>5

LEMMA PendingIs ==
  ASSUME NEW w \in Seq(Names), w # <<>>, Last(w) \in DOMAIN Before
  PROVE  /\ Pending(w) \in Seq(Names) /\ Pending(w) # <<>>
         /\ Last(Pending(w)) \in DOMAIN Events!After
         /\ Append(Front(Pending(w)), Events!After[Last(Pending(w))]) = w
<1>1. Front(w) \in Seq(Names) /\ w = Append(Front(w), Last(w))
  BY SplitStack
<1>2. /\ Before[Last(w)] \in Names /\ Before[Last(w)] \in DOMAIN Events!After
      /\ Events!After[Before[Last(w)]] = Last(w)
  BY WaitsIs
<1>3. Front(Pending(w)) = Front(w) /\ Last(Pending(w)) = Before[Last(w)]
      /\ Pending(w) \in Seq(Names) /\ Pending(w) # <<>>
  BY <1>1, <1>2, SplitAppend, AppendProperties DEF Pending
<1> QED
  BY <1>1, <1>2, <1>3

LEMMA PendingAppend ==
  \A s \in Seq(Names), x \in Names : Pending(Append(s, x)) = Append(s, Before[x])
<1>1. \A s \in Seq(Names), x \in Names : Front(Append(s, x)) = s /\ Last(Append(s, x)) = x
  BY SplitAppend
<1> QED
  BY <1>1 DEF Pending

LEMMA PendingConcat ==
  ASSUME NEW around \in Seq(Names), NEW w \in Seq(Names), w # <<>>, Last(w) \in DOMAIN Before
  PROVE  /\ around \o Pending(w) = Pending(around \o w)
         /\ around \o w \in Seq(Names) /\ around \o w # <<>> /\ Last(around \o w) = Last(w)
<1>1. Front(w) \in Seq(Names) /\ Last(w) \in Names /\ w = Append(Front(w), Last(w))
  BY SplitStack
<1>2. Before[Last(w)] \in Names
  BY WaitsIs
<1>3. ASSUME NEW x \in Names
      PROVE  around \o Append(Front(w), x) = Append(around \o Front(w), x)
  <2>1. /\ Append(Front(w), x) = Front(w) \o <<x>> /\ <<x>> \in Seq(Names)
        /\ around \o Front(w) \in Seq(Names)
    BY <1>1, AppendIsConcat, ConcatProperties
  <2>2. Append(around \o Front(w), x) = (around \o Front(w)) \o <<x>>
    BY <2>1, AppendIsConcat
  <2>3. (around \o Front(w)) \o <<x>> = around \o (Front(w) \o <<x>>)
    BY <1>1, <2>1, ConcatAssociative
  <2> QED
    BY <2>1, <2>2, <2>3
<1>4. around \o Front(w) \in Seq(Names)
  BY <1>1, ConcatProperties
<1>5. around \o w = Append(around \o Front(w), Last(w))
  BY <1>1, <1>3
<1>6. Front(around \o w) = around \o Front(w) /\ Last(around \o w) = Last(w) /\ around \o w # <<>>
  <2> DEFINE u == around \o Front(w)
  <2> HIDE DEF u
  <2>1. u \in Seq(Names) /\ around \o w = Append(u, Last(w))
    BY <1>4, <1>5 DEF u
  <2>2. Front(around \o w) = u /\ Last(around \o w) = Last(w) /\ around \o w # <<>>
    BY <1>1, <2>1, SplitAppend
  <2> QED
    BY <2>2 DEF u
<1>7. Pending(around \o w) = Append(around \o Front(w), Before[Last(w)])
  BY <1>6 DEF Pending
<1>8. around \o Pending(w) = Append(around \o Front(w), Before[Last(w)])
  BY <1>2, <1>3 DEF Pending
<1> QED
  BY <1>6, <1>7, <1>8, ConcatProperties

LEMMA AroundAppend ==
  ASSUME NEW s \in Seq(Followers), NEW x \in Followers
  PROVE  Around(s) \in Seq(Names) /\ Around(Append(s, x)) = Around(s) \o Waits[x]
<1> DEFINE w == [n \in DOMAIN s |-> Waits[s[n]]]
           v == [n \in DOMAIN Append(s, x) |-> Waits[Append(s, x)[n]]]
<1> PICK l \in Nat : l = Len(s) /\ DOMAIN s = 1..l
  BY LenProperties
<1>1. /\ DOMAIN Append(s, x) = 1..(l + 1)
      /\ \A n \in 1..l : Append(s, x)[n] = s[n] /\ s[n] \in Followers
      /\ Append(s, x)[l + 1] = x
  BY AppendProperties, LenProperties, ElementOfSeq
<1>2. w \in Seq(Seq(Names)) /\ Len(w) = l
  BY <1>1, WaitsIs
<1>3. v \in Seq(Seq(Names)) /\ Len(v) = l + 1
  BY <1>1, WaitsIs
<1>4. Waits[x] \in Seq(Names)
  BY WaitsIs
<1>5. v = Append(w, Waits[x])
  <2>1. /\ Append(w, Waits[x]) \in Seq(Seq(Names)) /\ Len(Append(w, Waits[x])) = l + 1
        /\ \A n \in 1..l : Append(w, Waits[x])[n] = w[n]
        /\ Append(w, Waits[x])[l + 1] = Waits[x]
    <3> HIDE DEF w
    <3> QED
      BY <1>2, <1>4, AppendProperties
  <2>2. \A n \in 1..(l + 1) : v[n] = IF n = l + 1 THEN Waits[x] ELSE w[n]
    BY <1>1
  <2>3. \A n \in 1..(l + 1) : v[n] = Append(w, Waits[x])[n]
    <3> HIDE DEF v, w
    <3> QED
      BY <2>1, <2>2
  <2> HIDE DEF v, w
  <2> QED
    BY <1>3, <2>1, <2>3, SeqEqual
<1> HIDE DEF v, w
<1>6. FlattenSeq(w) \in Seq(Names) /\ FlattenSeq(v) = FlattenSeq(w) \o Waits[x]
  BY <1>2, <1>4, <1>5, FlattenAppend
<1> QED
  BY <1>6 DEF v, w, Around
LEMMA AroundEmpty == Around(<<>>) = <<>>
BY DEF Around, FlattenSeq

\* The rows of Item, and the followers of a flow collection's items.
LEMMA RowWaits ==
  ASSUME NoneApart
  PROVE  /\ \A row \in {Item[s] : s \in DOMAIN Item} : row.next \in Followers \ {"DocumentEnd"}
         /\ \A s \in DOMAIN Item : s \in DOMAIN Waits \ Outside /\ Waits[s] = Pending(Waits[Item[s].next])
         /\ Waits["FlowMappingEmptyValue"] = Pending(Waits["FlowMappingKey"])
         /\ Waits["FlowSequenceItem"] = Pending(Waits["FlowSequenceEntry"])
         /\ Waits["FlowMappingItem"] = Pending(Waits["FlowMappingEmptyValue"])
<1>1. \A s \in DOMAIN Item : Item[s].next \in Followers \ {"DocumentEnd"} /\ s \in DOMAIN Waits
  BY DEF Item, Row, Followers, Waits
<1>5. \A s \in DOMAIN Item : s \notin Outside
  BY <1>1 DEF Item, Outside, NoneApart
<1>2. /\ Pending(<<"Sequence">>) = <<"Sequence">> /\ Pending(<<"Key">>) = <<"Value">>
      /\ Pending(<<"Value">>) = <<"Key">> /\ Pending(<<"Sequence", "Key">>) = <<"Sequence", "Value">>
      /\ Pending(<<"Sequence", "Value">>) = <<"Sequence", "Key">>
  <2>1. /\ Append(<<>>, "Sequence") = <<"Sequence">> /\ Append(<<>>, "Key") = <<"Key">>
        /\ Append(<<>>, "Value") = <<"Value">>
        /\ Append(<<"Sequence">>, "Key") = <<"Sequence", "Key">>
        /\ Append(<<"Sequence">>, "Value") = <<"Sequence", "Value">>
    <3>1. \A x, y \in Names : Append(<<>>, x) = <<x>> /\ Append(<<y>>, x) = <<y, x>>
      BY AppendTwo
    <3>2. {"Sequence", "Key", "Value"} \subseteq Names
      BY DEF Names
    <3> QED
      BY <3>1, <3>2
  <2>2. <<>> \in Seq(Names) /\ <<"Sequence">> \in Seq(Names) /\ {"Sequence", "Key", "Value"} \subseteq Names
    BY DEF Names
  <2>3. /\ Before["Sequence"] = "Sequence" /\ Before["Key"] = "Value" /\ Before["Value"] = "Key"
    BY DEF Before
  <2> QED
    BY <2>1, <2>2, <2>3, PendingAppend
<1>3. \A s \in DOMAIN Item : Waits[s] = Pending(Waits[Item[s].next])
  BY <1>2, SMTT(30) DEF Item, Row, Waits
<1>4. /\ Waits["FlowMappingEmptyValue"] = Pending(Waits["FlowMappingKey"])
      /\ Waits["FlowSequenceItem"] = Pending(Waits["FlowSequenceEntry"])
      /\ Waits["FlowMappingItem"] = Pending(Waits["FlowMappingEmptyValue"])
  BY <1>2 DEF Waits
<1> QED
  BY <1>1, <1>3, <1>4, <1>5

-----------------------------------------------------------------------------
(***************************************************************************)
(* What a step does to the stack and to what is open.                      *)
(***************************************************************************)
LEMMA InDocument ==
  ASSUME StackOK, state \notin Outside
  PROVE  /\ Around(states) \in Seq(Names) /\ Around(states) # <<>>
         /\ Last(Around(states)) \in DOMAIN Before
<1>1. /\ states \in Seq(Followers) /\ states # <<>>
      /\ Front(states) \in Seq(Followers) /\ Last(states) \in Followers
      /\ states = Append(Front(states), Last(states))
  BY SplitStack DEF StackOK
<1>2. /\ Around(Front(states)) \in Seq(Names)
      /\ Around(states) = Around(Front(states)) \o Waits[Last(states)]
  BY <1>1, AroundAppend
<1>3. /\ Waits[Last(states)] \in Seq(Names) /\ Waits[Last(states)] # <<>>
      /\ Last(Waits[Last(states)]) \in DOMAIN Before
  BY <1>1, WaitsIs
<1> QED
  BY <1>2, <1>3, PendingConcat

LEMMA AroundIs ==
  ASSUME StackOK
  PROVE  Around(states) \in Seq(Names) /\ (state \in Outside => Around(states) = <<>>)
<1>1. CASE state \in Outside
  BY <1>1, AroundEmpty, EmptySeq DEF StackOK
<1>2. CASE state \notin Outside
  BY <1>2, InDocument
<1> QED
  BY <1>1, <1>2

LEMMA OpenIs ==
  ASSUME NoneApart
  PROVE  /\ state \in DOMAIN Waits => Open = Around(states) \o Waits[state]
         /\ state = "Item" => Open = Around(states) \o Pending(Waits[item.next])
         /\ state \in {"Node", "Properties", "DocumentContent"} => Open = Pending(Around(states))
         /\ state = None => Open = <<>>
<1>1. DOMAIN Waits \cap {"Node", "Properties", "DocumentContent", "Item"} = {}
  BY DEF Waits
<1> QED
  BY <1>1 DEF Open, NoneApart

LEMMA OpenNext ==
  ASSUME NoneApart
  PROVE  /\ state' \in DOMAIN Waits => Open' = Around(states') \o Waits[state']
         /\ state' = "Item" => Open' = Around(states') \o Pending(Waits[item'.next])
         /\ state' \in {"Node", "Properties", "DocumentContent"} => Open' = Pending(Around(states'))
         /\ state' = None => Open' = <<>>
<1>1. DOMAIN Waits \cap {"Node", "Properties", "DocumentContent", "Item"} = {}
  BY DEF Waits
<1> QED
  BY <1>1 DEF Open, NoneApart

LEMMA Popped ==
  ASSUME NoneApart, StackOK, state \notin Outside, Pop
  PROVE  StackOK' /\ Open' = Around(states)
<1>1. /\ states \in Seq(Followers) /\ states # <<>> /\ states[1] = "DocumentEnd"
      /\ Front(states) \in Seq(Followers) /\ Last(states) \in Followers
      /\ states = Append(Front(states), Last(states))
      /\ Len(states) \in Nat /\ Len(states) > 0 /\ Len(Front(states)) = Len(states) - 1
      /\ \A i \in 1..(Len(states) - 1) : Front(states)[i] = states[i]
  BY SplitStack DEF StackOK
<1>2. state' = Last(states) /\ states' = Front(states) /\ Last(states) = states[Len(states)]
  BY DEF Pop, Last
<1>3. state' \in DOMAIN Waits /\ state' # "Item"
  BY <1>1, <1>2, WaitsIs DEF Followers
<1>4. ASSUME Len(states) = 1 PROVE StackOK'
  <2>1. state' = "DocumentEnd" /\ states' = <<>>
    BY <1>1, <1>2, <1>4, EmptySeq
  <2>2. states' \in Seq(Followers) /\ Len(states') = 0
    BY <1>1, <1>2, <1>4
  <2>3. state' \in Outside
    BY <2>1 DEF Outside
  <2>4. \A n \in 2..Len(states') : states'[n] # "DocumentEnd"
    BY <2>2
  <2> QED
    BY <1>3, <2>1, <2>2, <2>3, <2>4 DEF StackOK
<1>5. ASSUME Len(states) # 1 PROVE StackOK'
  <2>1. Last(states) # "DocumentEnd"
    BY <1>1, <1>2, <1>5 DEF StackOK
  <2>2. states' # <<>> /\ states'[1] = "DocumentEnd"
    BY <1>1, <1>2, <1>5, EmptySeq
  <2>3. \A n \in 2..Len(states') : states'[n] # "DocumentEnd"
    BY <1>1, <1>2 DEF StackOK
  <2>4. state' \notin Outside
    BY <1>1, <1>2, <1>3, <2>1 DEF Followers, Outside, NoneApart
  <2>5. states' \in Seq(Followers)
    BY <1>1, <1>2
  <2> QED
    BY <1>3, <2>2, <2>3, <2>4, <2>5 DEF StackOK
<1>6. Around(states) = Around(states') \o Waits[state']
  BY <1>1, <1>2, AroundAppend
<1> QED
  BY <1>3, <1>4, <1>5, <1>6, OpenNext

LEMMA Pushed ==
  ASSUME NoneApart, StackOK, NEW f \in Followers, state \in Outside <=> f = "DocumentEnd",
         Push(f), state' \in {"Node", "DocumentContent"}
  PROVE  StackOK' /\ Open' = Pending(Around(states) \o Waits[f])
<1>1. /\ states \in Seq(Followers) /\ states' = Append(states, f)
      /\ states' \in Seq(Followers) /\ states' # <<>> /\ Len(states) \in Nat
      /\ Len(states') = Len(states) + 1 /\ states'[Len(states) + 1] = f
      /\ \A i \in 1..Len(states) : states'[i] = states[i]
  BY AppendProperties, LenProperties DEF Push, StackOK
<1>2. /\ states'[1] = "DocumentEnd"
      /\ \A n \in 2..Len(states') : states'[n] # "DocumentEnd"
  <2>1. CASE state \in Outside
    <3>1. Len(states) = 0
      BY <2>1, EmptySeq DEF StackOK
    <3> QED
      BY <1>1, <2>1, <3>1
  <2>2. CASE state \notin Outside
    <3>1. Len(states) > 0 /\ states[1] = "DocumentEnd"
      BY <1>1, <2>2, EmptySeq DEF StackOK
    <3> QED
      BY <1>1, <2>2, <3>1 DEF StackOK
  <2> QED
    BY <2>1, <2>2
<1>3. state' \notin Outside
  BY DEF Outside, NoneApart
<1>4. StackOK'
  BY <1>1, <1>2, <1>3 DEF StackOK
<1>5. Around(states') = Around(states) \o Waits[f]
  BY <1>1, AroundAppend
<1> QED
  BY <1>4, <1>5, OpenNext

LEMMA Went ==
  ASSUME NoneApart, StackOK, UNCHANGED states, state' \in Outside <=> state \in Outside,
         state' \in DOMAIN Waits \cup {"Node", "Properties", None}
  PROVE  /\ StackOK'
         /\ state' \in DOMAIN Waits => Open' = Around(states) \o Waits[state']
         /\ state' \in {"Node", "Properties"} => Open' = Pending(Around(states))
         /\ state' = None => Open' = <<>>
<1>1. state' # "Item"
  BY DEF Waits, NoneApart
<1>2. StackOK'
  BY <1>1 DEF StackOK
<1> QED
  BY <1>2, OpenNext
\* The events that the parser produces.
LEMMA EventIs ==
  ASSUME NoneApart, NEW type
  PROVE  /\ Event(type) # None /\ Event(type).type = type
         /\ EmptyScalar # None /\ EmptyScalar.type = "Scalar"
BY DEF NoneApart, Event, EmptyScalar

\* The operators of SequencesExt are the same ones in YamlEvents.
LEMMA SameOperators ==
  ASSUME NEW s
  PROVE  Events!Front(s) = Front(s) /\ Events!Last(s) = Last(s)
BY DEF Events!Front, Front, Events!Last, Last

LEMMA NodeSteps ==
  ASSUME NEW v \in Seq(Names), v # <<>>, Last(v) \in DOMAIN Before, Open = Pending(v),
         event = None, event' # None
  PROVE  /\ event'.type \in {"Scalar", "Alias"} /\ Open' = v => Events!Leaf
         /\ event'.type = "SequenceStart" /\ Open' = Append(v, "Sequence") => Events!SequenceStart
         /\ event'.type = "MappingStart" /\ Open' = Append(v, "Key") => Events!MappingStart
<1>1. Open # <<>> /\ Last(Open) \in DOMAIN Events!After
      /\ Append(Front(Open), Events!After[Last(Open)]) = v
  BY PendingIs
<1>2. Events!NodeExpected /\ Events!WithNode = v
  BY <1>1, SameOperators DEF Events!NodeExpected, Events!WithNode
<1> QED
  BY <1>2 DEF Events!Leaf, Events!SequenceStart, Events!MappingStart, Events!Produce

LEMMA CloseStep ==
  ASSUME NEW v \in Seq(Names), NEW x \in Names, Open = v \o <<x>>, Open' = v,
         event = None, event' # None
  PROVE  Events!Close(x, event'.type)
<1>1. Open = Append(v, x)
  BY AppendIsConcat
<1>2. Open # <<>> /\ Front(Open) = v /\ Last(Open) = x
  BY <1>1, SplitAppend
<1> QED
  BY <1>2, SameOperators DEF Events!Close, Events!Produce
-----------------------------------------------------------------------------
(***************************************************************************)
(* The functions of the parser, one by one.                                *)
(***************************************************************************)
Fits == StackOK' /\ (Events!Next \/ UNCHANGED <<event, Open>>)

LEMMA OutsideOpen ==
  ASSUME NoneApart, StackOK, state \in Outside
  PROVE  /\ Around(states) = <<>>
         /\ state = "StreamStart" => Open = <<>>
         /\ state \in {"ImplicitDocumentStart", "DocumentStart", "Directives"} => Open = <<"Stream">>
         /\ state = "DocumentEnd" => Open = <<"Stream">> \o <<"DocumentEnd">>
<1>1. Around(states) = <<>>
  BY AroundIs
<1>2. \A w \in Seq(Names) : <<>> \o w = w
  BY ConcatEmptySeq
<1>3. /\ state \in DOMAIN Waits => Open = Waits[state]
      /\ state \in {"StreamStart", "ImplicitDocumentStart", "DocumentStart", "Directives", "DocumentEnd"}
           => state \in DOMAIN Waits
  BY <1>1, <1>2, OpenIs, WaitsIs DEF Waits
<1>4. <<"Stream", "DocumentEnd">> = <<"Stream">> \o <<"DocumentEnd">>
  OBVIOUS
<1>5. /\ Waits["StreamStart"] = <<>> /\ Waits["ImplicitDocumentStart"] = <<"Stream">>
      /\ Waits["DocumentStart"] = <<"Stream">> /\ Waits["Directives"] = <<"Stream">>
      /\ Waits["DocumentEnd"] = <<"Stream", "DocumentEnd">>
  BY DEF Waits
<1> QED
  BY <1>1, <1>3, <1>4, <1>5

LEMMA OutsideNext ==
  ASSUME NoneApart, StackOK, state \in Outside, UNCHANGED states, state' \in Outside
  PROVE  /\ StackOK'
         /\ state' \in {"ImplicitDocumentStart", "DocumentStart", "Directives"} => Open' = <<"Stream">>
         /\ state' = None => Open' = <<>>
<1>1. state' \in DOMAIN Waits \cup {None}
  BY DEF Outside, Waits
<1>2. /\ StackOK' /\ (state' = None => Open' = <<>>)
      /\ state' \in DOMAIN Waits => Open' = Around(states) \o Waits[state']
  BY <1>1, Went
<1>3. Around(states) = <<>>
  BY AroundIs
<1>4. \A w \in Seq(Names) : <<>> \o w = w
  BY ConcatEmptySeq
<1>5. \A s \in {"ImplicitDocumentStart", "DocumentStart", "Directives"} :
        s \in DOMAIN Waits /\ Waits[s] = <<"Stream">>
  BY DEF Waits
<1>6. <<"Stream">> \in Seq(Names)
  BY <1>5, WaitsIs
<1> QED
  BY <1>2, <1>3, <1>4, <1>5, <1>6

LEMMA FitsStreamStart ==
  ASSUME NoneApart, StackOK, event = None, ParseStreamStart
  PROVE  Fits
<1>1. /\ state = "StreamStart" /\ state' = "ImplicitDocumentStart" /\ UNCHANGED states
      /\ event' = Event("StreamStart")
  BY DEF ParseStreamStart, Goto, Produce
<1>2. Open = <<>> /\ StackOK' /\ Open' = <<"Stream">>
  BY <1>1, OutsideOpen, OutsideNext DEF Outside
<1> QED
  BY <1>1, <1>2, EventIs DEF Fits, Events!Next, Events!StreamStart, Events!Produce

LEMMA FitsDocument ==
  ASSUME NoneApart, StackOK, event = None, state \in {"ImplicitDocumentStart", "Directives"},
         event' = Event("DocumentStart"), Push("DocumentEnd"), state' \in {"Node", "DocumentContent"}
  PROVE  Fits
<1>1. state \in Outside /\ "DocumentEnd" \in Followers
  BY DEF Outside, Followers
<1>2. StackOK' /\ Open' = Pending(Around(states) \o Waits["DocumentEnd"])
  BY <1>1, Pushed
<1>3. Around(states) = <<>> /\ Open = <<"Stream">>
  BY <1>1, OutsideOpen
<1>4. <<>> \o Waits["DocumentEnd"] = Waits["DocumentEnd"]
  BY <1>1, WaitsIs, ConcatEmptySeq
<1>5. Waits["DocumentEnd"] = <<"Stream", "DocumentEnd">>
  BY DEF Waits
<1>6. {"Stream", "DocumentEnd", "Document"} \subseteq Names
  BY DEF Names
<1>7. Pending(<<"Stream", "DocumentEnd">>) = <<"Stream", "Document">>
  <2>1. /\ Append(<<"Stream">>, "DocumentEnd") = <<"Stream", "DocumentEnd">>
        /\ Append(<<"Stream">>, "Document") = <<"Stream", "Document">>
    BY <1>6, AppendTwo
  <2>2. <<"Stream">> \in Seq(Names)
    BY <1>6
  <2>3. Before["DocumentEnd"] = "Document"
    BY DEF Before
  <2> QED
    BY <1>6, <2>1, <2>2, <2>3, PendingAppend
<1> QED
  BY <1>2, <1>3, <1>4, <1>5, <1>7, EventIs DEF Fits, Events!Next, Events!DocumentStart, Events!Produce

LEMMA FitsDocumentStart ==
  ASSUME NoneApart, StackOK, event = None,
         ParseImplicitDocumentStart \/ ParseDocumentStart \/ ProcessDirective \/ ParseExplicitDocument
  PROVE  Fits
<1>1. CASE ParseImplicitDocumentStart
  BY <1>1, FitsDocument DEF ParseImplicitDocumentStart, Node, Produce
<1>2. CASE ParseExplicitDocument
  BY <1>2, FitsDocument DEF ParseExplicitDocument, Produce
<1>3. CASE ProcessDirective
  <2>1. state = "Directives" /\ state' = "Directives" /\ UNCHANGED <<states, event>>
    BY <1>3 DEF ProcessDirective, Goto
  <2>2. Open = <<"Stream">> /\ StackOK' /\ Open' = <<"Stream">>
    BY <2>1, OutsideOpen, OutsideNext DEF Outside
  <2> QED
    BY <2>1, <2>2 DEF Fits
<1>4. CASE ParseDocumentStart
  <2>1. state \in {"ImplicitDocumentStart", "DocumentStart"} /\ UNCHANGED states
    BY <1>4 DEF ParseDocumentStart, Goto
  <2>2. Open = <<"Stream">> /\ state \in Outside
    BY <2>1, OutsideOpen DEF Outside
  <2>3. \/ state' \in {"DocumentStart", "Directives"} /\ UNCHANGED event
        \/ state' = None /\ event' = Event("StreamEnd")
    BY <1>4 DEF ParseDocumentStart, Goto, Produce
  <2>4. CASE state' \in {"DocumentStart", "Directives"} /\ UNCHANGED event
    <3>1. StackOK' /\ Open' = <<"Stream">>
      BY <2>1, <2>2, <2>4, OutsideNext DEF Outside
    <3> QED
      BY <2>2, <2>4, <3>1 DEF Fits
  <2>5. CASE state' = None /\ event' = Event("StreamEnd")
    <3>1. StackOK' /\ Open' = <<>>
      BY <2>1, <2>2, <2>5, OutsideNext DEF Outside
    <3>2. <<"Stream">> = <<>> \o <<"Stream">> /\ <<>> \in Seq(Names) /\ "Stream" \in Names
      BY ConcatEmptySeq DEF Names
    <3>3. event' # None /\ event'.type = "StreamEnd"
      BY <2>5, EventIs
    <3>4. Events!Close("Stream", "StreamEnd")
      BY <2>2, <3>1, <3>2, <3>3, CloseStep
    <3> QED
      BY <3>1, <3>4 DEF Fits, Events!Next
  <2> QED
    BY <2>3, <2>4, <2>5
<1> QED
  BY <1>1, <1>2, <1>3, <1>4

LEMMA FitsDocumentEnd ==
  ASSUME NoneApart, StackOK, event = None, ParseDocumentEnd
  PROVE  Fits
<1>1. /\ state = "DocumentEnd" /\ state' = "DocumentStart" /\ UNCHANGED states
      /\ event' = Event("DocumentEnd")
  BY DEF ParseDocumentEnd, Goto, Produce
<1>2. Open = <<"Stream">> \o <<"DocumentEnd">> /\ StackOK' /\ Open' = <<"Stream">>
  BY <1>1, OutsideOpen, OutsideNext DEF Outside
<1>3. event' # None /\ event'.type = "DocumentEnd"
  BY <1>1, EventIs
<1>4. <<"Stream">> \in Seq(Names) /\ "DocumentEnd" \in Names
  BY DEF Names
<1>5. Events!Close("DocumentEnd", "DocumentEnd")
  BY <1>2, <1>3, <1>4, CloseStep
<1> QED
  BY <1>2, <1>5 DEF Fits, Events!Next
LEMMA Inside ==
  ASSUME NoneApart
  PROVE  \A s \in (DOMAIN Waits \cup {"Node", "Properties", "DocumentContent", "Item"})
                  \ {"StreamStart", "ImplicitDocumentStart", "DocumentStart", "Directives", "DocumentEnd"} :
           s \notin Outside
BY DEF Outside, NoneApart

\* A node that is a single event, or the beginning of a collection.
LEMMA FitsEvent ==
  ASSUME NoneApart, StackOK, event = None, state \in {"Node", "Properties", "DocumentContent"},
         event' # None,
         \/ event'.type \in {"Scalar", "Alias"} /\ Pop
         \/ /\ event'.type \in {"SequenceStart", "MappingStart"} /\ UNCHANGED states
            /\ state' \in DOMAIN Waits \ Outside
            /\ Waits[state'] = IF event'.type = "SequenceStart" THEN <<"Sequence">> ELSE <<"Key">>
  PROVE  Fits
<1>1. state \notin Outside
  BY Inside
<1> DEFINE v == Around(states)
<1>2. v \in Seq(Names) /\ v # <<>> /\ Last(v) \in DOMAIN Before
  BY <1>1, InDocument
<1>3. Open = Pending(v)
  BY OpenIs
<1> HIDE DEF v
<1>4. CASE event'.type \in {"Scalar", "Alias"} /\ Pop
  <2>1. StackOK' /\ Open' = v
    BY <1>1, <1>4, Popped DEF v
  <2>2. Events!Leaf
    BY <1>2, <1>3, <1>4, <2>1, NodeSteps
  <2> QED
    BY <2>1, <2>2 DEF Fits, Events!Next
<1>5. CASE /\ event'.type \in {"SequenceStart", "MappingStart"} /\ UNCHANGED states
           /\ state' \in DOMAIN Waits \ Outside
           /\ Waits[state'] = IF event'.type = "SequenceStart" THEN <<"Sequence">> ELSE <<"Key">>
  <2>1. StackOK' /\ Open' = v \o Waits[state']
    BY <1>1, <1>5, Went DEF v
  <2>2. "Sequence" \in Names /\ "Key" \in Names
    BY DEF Names
  <2>3. v \o <<"Sequence">> = Append(v, "Sequence") /\ v \o <<"Key">> = Append(v, "Key")
    BY <1>2, <2>2, AppendIsConcat
  <2>4. Events!SequenceStart \/ Events!MappingStart
    BY <1>2, <1>3, <1>5, <2>1, <2>3, NodeSteps
  <2> QED
    BY <2>1, <2>4 DEF Fits, Events!Next
<1> QED
  BY <1>4, <1>5

LEMMA FitsProperties ==
  ASSUME NoneApart, StackOK, event = None, state \in {"Node", "Properties", "DocumentContent"},
         UNCHANGED <<event, states>>, state' \in {"Node", "Properties"}
  PROVE  Fits
<1>1. state \notin Outside /\ state' \notin Outside
  BY Inside
<1>2. Open = Pending(Around(states))
  BY OpenIs
<1>3. StackOK' /\ Open' = Pending(Around(states))
  BY <1>1, Went
<1> QED
  BY <1>2, <1>3 DEF Fits

LEMMA FitsContent ==
  ASSUME NoneApart, StackOK, event = None, ParseContent
  PROVE  Fits
<1>1. state \in {"Node", "Properties", "DocumentContent"}
  BY DEF ParseContent, Content
<1>2. CASE Collection # None /\ Start(Collection[1], Collection[2])
  <2>1. Collection \in {<<"SequenceStart", "IndentlessSequenceEntry">>,
                        <<"SequenceStart", "FlowSequenceFirstEntry">>,
                        <<"MappingStart", "FlowMappingFirstKey">>,
                        <<"SequenceStart", "BlockSequenceFirstEntry">>,
                        <<"MappingStart", "BlockMappingFirstKey">>}
    BY <1>2 DEF Collection
  <2>2. /\ event' = [Event(Collection[1]) EXCEPT !.anchor = node.anchor, !.tag = node.tag]
        /\ state' = Collection[2] /\ UNCHANGED states
    BY <1>2 DEF Start, Produce, Goto
  <2>3. event' # None /\ event'.type = Collection[1]
    BY <2>2 DEF Event, NoneApart
  <2>4. /\ Collection[1] \in {"SequenceStart", "MappingStart"} /\ Collection[2] \in DOMAIN Waits
        /\ Waits[Collection[2]] = IF Collection[1] = "SequenceStart" THEN <<"Sequence">> ELSE <<"Key">>
        /\ Collection[2] \notin {"StreamStart", "ImplicitDocumentStart", "DocumentStart", "Directives", "DocumentEnd"}
    BY <2>1 DEF Waits
  <2>5. Collection[2] \notin Outside
    BY <2>4, Inside
  <2> QED
    BY <1>1, <2>2, <2>3, <2>4, <2>5, FitsEvent
<1>3. CASE /\ Is({"Scalar"}) /\ TakeToken /\ Pop
           /\ Produce([Event("Scalar") EXCEPT
                !.anchor = node.anchor, !.tag = node.tag, !.value = FirstToken.value,
                !.plain = (FirstToken.plain /\ node.tag = None) \/ node.tag = <<"!">>])
  <2>1. event' # None /\ event'.type = "Scalar"
    BY <1>3 DEF Produce, Event, NoneApart
  <2> QED
    BY <1>1, <1>3, <2>1, FitsEvent
<1>4. CASE /\ Collection = None /\ ~Is({"Scalar"}) /\ ~Plain /\ NoTake /\ Pop
           /\ Produce([EmptyScalar EXCEPT !.anchor = node.anchor, !.tag = node.tag,
                                          !.plain = node.tag \in {None, <<"!">>}])
  <2>1. event' # None /\ event'.type = "Scalar"
    BY <1>4 DEF Produce, Event, EmptyScalar, NoneApart
  <2> QED
    BY <1>1, <1>4, <2>1, FitsEvent
<1> QED
  BY <1>2, <1>3, <1>4 DEF ParseContent

LEMMA FitsNode ==
  ASSUME NoneApart, StackOK, event = None,
         ParseDocumentContent \/ ParseAlias \/ ParseAnchor \/ ParseTag \/ ParseContent
  PROVE  Fits
<1>1. CASE ParseDocumentContent
  <2>1. state = "DocumentContent"
    BY <1>1 DEF ParseDocumentContent
  <2>2. \/ event' = EmptyScalar /\ Pop
        \/ UNCHANGED <<event, states>> /\ state' = "Node"
    BY <1>1 DEF ParseDocumentContent, Produce, Node
  <2>3. EmptyScalar # None /\ EmptyScalar.type = "Scalar"
    BY EventIs
  <2> QED
    BY <2>1, <2>2, <2>3, FitsEvent, FitsProperties
<1>2. CASE ParseAlias
  <2>1. state = "Node" /\ Pop /\ event' = [Event("Alias") EXCEPT !.anchor = FirstToken.value]
    BY <1>2 DEF ParseAlias, Produce
  <2>2. event' # None /\ event'.type = "Alias"
    BY <2>1 DEF Event, NoneApart
  <2> QED
    BY <2>1, <2>2, FitsEvent
<1>3. CASE ParseAnchor
  BY <1>3, FitsProperties DEF ParseAnchor, Goto
<1>4. CASE ParseTag
  BY <1>4, FitsProperties DEF ParseTag, Goto
<1>5. CASE ParseContent
  BY <1>5, FitsContent
<1> QED
  BY <1>1, <1>2, <1>3, <1>4, <1>5
\* An indicator, and what comes before the node behind it.
LEMMA FitsIndicator ==
  ASSUME NoneApart, StackOK, event = None, TakeIndicator
  PROVE  Fits
<1>1. state \in DOMAIN Item /\ item' = Item[state] /\ state' = "Item" /\ UNCHANGED <<states, event>>
  BY DEF TakeIndicator, Goto
<1>2. state \in DOMAIN Waits \ Outside /\ Waits[state] = Pending(Waits[Item[state].next])
  BY <1>1, RowWaits
<1>3. state' \notin Outside
  BY <1>1, Inside
<1>4. StackOK'
  BY <1>1, <1>2, <1>3 DEF StackOK
<1>5. Open = Around(states) \o Waits[state]
  BY <1>2, OpenIs
<1>6. Open' = Around(states) \o Pending(Waits[Item[state].next])
  BY <1>1, OpenNext
<1> QED
  BY <1>1, <1>2, <1>4, <1>5, <1>6 DEF Fits

\* An empty scalar instead of a node.
LEMMA FitsEmpty ==
  ASSUME NoneApart, StackOK, event = None, event' = EmptyScalar, UNCHANGED states, state \notin Outside,
         NEW next \in Followers \ {"DocumentEnd"}, state' = next,
         Open = Around(states) \o Pending(Waits[next])
  PROVE  Fits
<1>1. next \in DOMAIN Waits /\ next \notin Outside
  <2>1. next \in DOMAIN Waits
    BY WaitsIs
  <2>2. next \notin {"StreamStart", "ImplicitDocumentStart", "DocumentStart", "Directives", "DocumentEnd"}
    BY DEF Followers
  <2> QED
    BY <2>1, <2>2, Inside
<1>2. StackOK' /\ Open' = Around(states) \o Waits[next]
  BY <1>1, Went
<1>3. /\ Around(states) \in Seq(Names) /\ Waits[next] \in Seq(Names) /\ Waits[next] # <<>>
      /\ Last(Waits[next]) \in DOMAIN Before
  BY <1>1, AroundIs, WaitsIs
<1> DEFINE v == Around(states) \o Waits[next]
<1>4. v \in Seq(Names) /\ v # <<>> /\ Last(v) \in DOMAIN Before /\ Open = Pending(v)
  BY <1>3, PendingConcat
<1>5. event' # None /\ event'.type \in {"Scalar", "Alias"}
  BY EventIs
<1> HIDE DEF v
<1>6. Events!Leaf
  BY <1>2, <1>4, <1>5, NodeSteps DEF v
<1> QED
  BY <1>2, <1>6 DEF Fits, Events!Next

\* A node is begun; next comes behind it.
LEMMA FitsBegun ==
  ASSUME NoneApart, StackOK, UNCHANGED event, state \notin Outside,
         NEW next \in Followers \ {"DocumentEnd"}, Push(next), state' = "Node",
         Open = Around(states) \o Pending(Waits[next])
  PROVE  Fits
<1>1. StackOK' /\ Open' = Pending(Around(states) \o Waits[next])
  BY Pushed
<1>2. /\ Around(states) \in Seq(Names) /\ Waits[next] \in Seq(Names) /\ Waits[next] # <<>>
      /\ Last(Waits[next]) \in DOMAIN Before
  BY AroundIs, WaitsIs
<1>3. Around(states) \o Pending(Waits[next]) = Pending(Around(states) \o Waits[next])
  BY <1>2, PendingConcat
<1> QED
  BY <1>1, <1>3 DEF Fits

LEMMA FitsItem ==
  ASSUME NoneApart, StackOK, event = None, ParseItem \/ ParseEmptyValue \/ ParseFlowItem
  PROVE  Fits
<1>1. CASE ParseItem
  <2>1. state = "Item" /\ item.next \in Followers \ {"DocumentEnd"}
    BY <1>1, RowWaits DEF ParseItem, StackOK
  <2>2. state \notin Outside /\ Open = Around(states) \o Pending(Waits[item.next])
    BY <2>1, Inside, OpenIs
  <2>3. \/ event' = EmptyScalar /\ state' = item.next /\ UNCHANGED states
        \/ UNCHANGED event /\ Push(item.next) /\ state' = "Node"
    BY <1>1 DEF ParseItem, Produce, Goto, Node
  <2>4. PICK next \in Followers \ {"DocumentEnd"} : next = item.next
    BY <2>1
  <2> QED
    BY <2>2, <2>3, <2>4, FitsEmpty, FitsBegun
<1>2. CASE ParseEmptyValue
  <2>1. event' = EmptyScalar /\ UNCHANGED states
    BY <1>2 DEF ParseEmptyValue, Produce, Goto
  <2>2. \/ /\ state \in {"BlockMappingValue", "FlowSequenceEntryMappingValue", "FlowMappingValue"}
           /\ state' = Item[state].next
        \/ state = "FlowMappingEmptyValue" /\ state' = "FlowMappingKey"
    BY <1>2 DEF ParseEmptyValue, Goto
  <2>3. /\ state \in DOMAIN Waits \ Outside /\ Waits[state] = Pending(Waits[state'])
        /\ state' \in Followers \ {"DocumentEnd"}
    <3>1. CASE state \in {"BlockMappingValue", "FlowSequenceEntryMappingValue", "FlowMappingValue"}
               /\ state' = Item[state].next
      <4>1. state \in DOMAIN Item
        BY <3>1 DEF Item
      <4> QED
        BY <3>1, <4>1, RowWaits
    <3>2. CASE state = "FlowMappingEmptyValue" /\ state' = "FlowMappingKey"
      <4>1. /\ state \in DOMAIN Waits /\ state' \in Followers \ {"DocumentEnd"}
            /\ Waits[state] = Pending(Waits[state'])
        BY <3>2, RowWaits DEF Followers, Waits
      <4> QED
        BY <3>2, <4>1, Inside
    <3> QED
      BY <2>2, <3>1, <3>2
  <2>4. PICK next \in Followers \ {"DocumentEnd"} : next = state'
    BY <2>3
  <2>5. Open = Around(states) \o Pending(Waits[next])
    BY <2>3, <2>4, OpenIs
  <2> QED
    BY <2>1, <2>3, <2>4, <2>5, FitsEmpty
<1>3. CASE ParseFlowItem
  <2>1. UNCHANGED event /\ state' = "Node"
    BY <1>3 DEF ParseFlowItem, Node
  <2>2. \/ state = "FlowSequenceItem" /\ Push("FlowSequenceEntry")
        \/ state = "FlowMappingItem" /\ Push("FlowMappingEmptyValue")
    BY <1>3 DEF ParseFlowItem
  <2>3. state \in DOMAIN Waits \ Outside
    BY <2>2, Inside DEF Waits
  <2>4. {"FlowSequenceEntry", "FlowMappingEmptyValue"} \subseteq Followers \ {"DocumentEnd"}
    BY DEF Followers
  <2>5. Open = Around(states) \o Waits[state]
    BY <2>3, OpenIs
  <2> QED
    BY <2>1, <2>2, <2>3, <2>4, <2>5, RowWaits, FitsBegun
<1> QED
  BY <1>1, <1>2, <1>3

-----------------------------------------------------------------------------
\* A step within a collection that produces nothing.
LEMMA FitsSilent ==
  ASSUME NoneApart, StackOK, UNCHANGED <<event, states>>, state \in DOMAIN Waits \ Outside,
         state' \in DOMAIN Waits \ Outside, Waits[state'] = Waits[state]
  PROVE  Fits
<1>1. Open = Around(states) \o Waits[state]
  BY OpenIs
<1>2. StackOK' /\ Open' = Around(states) \o Waits[state']
  BY Went
<1> QED
  BY <1>1, <1>2 DEF Fits

\* The end of a collection.
LEMMA FitsClose ==
  ASSUME NoneApart, StackOK, event = None, state \in DOMAIN Waits \ Outside, Pop,
         \/ Waits[state] = <<"Sequence">> /\ event' = Event("SequenceEnd")
         \/ Waits[state] = <<"Key">> /\ event' = Event("MappingEnd")
  PROVE  Fits
<1>1. Around(states) \in Seq(Names) /\ Open = Around(states) \o Waits[state]
  BY OpenIs, AroundIs
<1>2. StackOK' /\ Open' = Around(states)
  BY Popped
<1>3. "Sequence" \in Names /\ "Key" \in Names
  BY DEF Names
<1> DEFINE v == Around(states)
<1> HIDE DEF v
<1>4. v \in Seq(Names) /\ Open = v \o Waits[state] /\ Open' = v
  BY <1>1, <1>2 DEF v
<1>5. CASE Waits[state] = <<"Sequence">> /\ event' = Event("SequenceEnd")
  <2>1. event' # None /\ event'.type = "SequenceEnd"
    BY <1>5, EventIs
  <2>2. Events!Close("Sequence", "SequenceEnd")
    BY <1>3, <1>4, <1>5, <2>1, CloseStep
  <2> QED
    BY <1>2, <2>2 DEF Fits, Events!Next
<1>6. CASE Waits[state] = <<"Key">> /\ event' = Event("MappingEnd")
  <2>1. event' # None /\ event'.type = "MappingEnd"
    BY <1>6, EventIs
  <2>2. Events!Close("Key", "MappingEnd")
    BY <1>3, <1>4, <1>6, <2>1, CloseStep
  <2> QED
    BY <1>2, <2>2 DEF Fits, Events!Next
<1> QED
  BY <1>5, <1>6

LEMMA FitsCollection ==
  ASSUME NoneApart, StackOK, event = None,
         ParseFirst \/ ParseFlowEntry \/ ParseEnd \/ ParseIndentlessSequenceEnd
  PROVE  Fits
<1>1. CASE ParseFirst
  <2>1. state \in DOMAIN First /\ state' = First[state] /\ UNCHANGED <<event, states>>
    BY <1>1 DEF ParseFirst, Goto
  <2>2. /\ state \in DOMAIN Waits /\ state' \in DOMAIN Waits /\ Waits[state'] = Waits[state]
        /\ {state, state'} \cap {"StreamStart", "ImplicitDocumentStart", "DocumentStart", "Directives",
                                "DocumentEnd"} = {}
    BY <2>1 DEF First, Waits
  <2> QED
    BY <2>1, <2>2, Inside, FitsSilent
<1>2. CASE ParseFlowEntry
  <2>1. /\ UNCHANGED <<event, states>>
        /\ \/ state = "FlowSequenceEntry" /\ state' = "FlowSequenceItem"
           \/ state = "FlowMappingKey" /\ state' = "FlowMappingItem"
    BY <1>2 DEF ParseFlowEntry, Goto
  <2>2. /\ state \in DOMAIN Waits /\ state' \in DOMAIN Waits /\ Waits[state'] = Waits[state]
        /\ {state, state'} \cap {"StreamStart", "ImplicitDocumentStart", "DocumentStart", "Directives",
                                "DocumentEnd"} = {}
    BY <2>1 DEF Waits
  <2> QED
    BY <2>1, <2>2, Inside, FitsSilent
<1>3. CASE ParseEnd
  <2>1. state \in DOMAIN End /\ event' = Event(End[state][2]) /\ Pop
    BY <1>3 DEF ParseEnd, Produce
  <2>2. /\ state \in DOMAIN Waits
        /\ state \notin {"StreamStart", "ImplicitDocumentStart", "DocumentStart", "Directives", "DocumentEnd"}
        /\ \/ Waits[state] = <<"Sequence">> /\ End[state][2] = "SequenceEnd"
           \/ Waits[state] = <<"Key">> /\ End[state][2] = "MappingEnd"
    BY <2>1 DEF End, Waits
  <2> QED
    BY <2>1, <2>2, Inside, FitsClose
<1>4. CASE ParseIndentlessSequenceEnd
  <2>1. state = "IndentlessSequenceEntry" /\ event' = Event("SequenceEnd") /\ Pop
    BY <1>4 DEF ParseIndentlessSequenceEnd, Produce
  <2>2. state \in DOMAIN Waits /\ Waits[state] = <<"Sequence">>
    BY <2>1 DEF Waits
  <2> QED
    BY <2>1, <2>2, Inside, FitsClose
<1> QED
  BY <1>1, <1>2, <1>3, <1>4

\* The mapping of one pair in a flow sequence.
LEMMA FitsInline ==
  ASSUME NoneApart, StackOK, event = None, ParseInlineMapping \/ ParseFlowSequenceEntryMappingEnd
  PROVE  Fits
<1> DEFINE v == Around(states) \o <<"Sequence">>
<1>1. {"Sequence", "Key"} \subseteq Names /\ <<"Sequence">> \in Seq(Names)
  BY DEF Names
<1>2. /\ Waits["FlowSequenceItem"] = <<"Sequence">> /\ Waits["FlowSequenceEntry"] = <<"Sequence">>
      /\ Waits["FlowSequenceEntryMappingKey"] = <<"Sequence", "Key">>
      /\ Waits["FlowSequenceEntryMappingEnd"] = <<"Sequence", "Key">>
      /\ {"FlowSequenceItem", "FlowSequenceEntry", "FlowSequenceEntryMappingKey",
          "FlowSequenceEntryMappingEnd"} \subseteq DOMAIN Waits
  BY DEF Waits
<1>3. {"FlowSequenceItem", "FlowSequenceEntry", "FlowSequenceEntryMappingKey",
       "FlowSequenceEntryMappingEnd"} \cap Outside = {}
  BY <1>2, Inside
<1>4. Around(states) \in Seq(Names)
  BY AroundIs
<1>5. v \in Seq(Names)
  BY <1>1, <1>4, ConcatProperties
<1>6. Around(states) \o <<"Sequence", "Key">> = v \o <<"Key">>
  <2>1. <<"Sequence", "Key">> = <<"Sequence">> \o <<"Key">> /\ <<"Key">> \in Seq(Names)
    BY <1>1
  <2>2. \A a, b, c \in Seq(Names) : (a \o b) \o c = a \o (b \o c)
    BY ConcatAssociative
  <2>3. (Around(states) \o <<"Sequence">>) \o <<"Key">> = Around(states) \o (<<"Sequence">> \o <<"Key">>)
    BY <1>1, <1>4, <2>1, <2>2
  <2> QED
    BY <2>1, <2>3
<1>7. CASE ParseInlineMapping
  <2>1. /\ state = "FlowSequenceItem" /\ state' = "FlowSequenceEntryMappingKey" /\ UNCHANGED states
        /\ event' = Event("MappingStart")
    BY <1>7 DEF ParseInlineMapping, Goto, Produce
  <2>2. event' # None /\ event'.type = "MappingStart"
    BY <2>1, EventIs
  <2>3. Open = v
    BY <1>2, <2>1, OpenIs
  <2>4. StackOK' /\ Open' = v \o <<"Key">>
    BY <1>2, <1>3, <1>6, <2>1, Went
  <2>5. v \o <<"Key">> = Append(v, "Key") /\ v = Append(Around(states), "Sequence")
    BY <1>1, <1>4, <1>5, AppendIsConcat
  <2>6. v # <<>> /\ Last(v) = "Sequence" /\ Before["Sequence"] = "Sequence" /\ "Sequence" \in DOMAIN Before
    BY <1>1, <1>4, <2>5, SplitAppend DEF Before
  <2>7. Pending(v) = v
    BY <1>1, <1>4, <2>5, <2>6, PendingAppend
  <2> HIDE DEF v
  <2>8. Events!MappingStart
    BY <1>5, <2>2, <2>3, <2>4, <2>5, <2>6, <2>7, NodeSteps
  <2> QED
    BY <2>4, <2>8 DEF Fits, Events!Next
<1>8. CASE ParseFlowSequenceEntryMappingEnd
  <2>1. /\ state = "FlowSequenceEntryMappingEnd" /\ state' = "FlowSequenceEntry" /\ UNCHANGED states
        /\ event' = Event("MappingEnd")
    BY <1>8 DEF ParseFlowSequenceEntryMappingEnd, Goto, Produce
  <2>2. event' # None /\ event'.type = "MappingEnd"
    BY <2>1, EventIs
  <2>3. Open = v \o <<"Key">>
    BY <1>2, <1>6, <2>1, OpenIs
  <2>4. StackOK' /\ Open' = v
    BY <1>2, <1>3, <2>1, Went
  <2> HIDE DEF v
  <2>5. Events!Close("Key", "MappingEnd")
    BY <1>1, <1>5, <2>2, <2>3, <2>4, CloseStep
  <2> QED
    BY <2>4, <2>5 DEF Fits, Events!Next
<1> QED
  BY <1>7, <1>8
-----------------------------------------------------------------------------
Functions ==
  \/ ParseStreamStart \/ ParseImplicitDocumentStart \/ ParseDocumentStart \/ ProcessDirective
  \/ ParseExplicitDocument \/ ParseDocumentContent \/ ParseDocumentEnd \/ ParseAlias
  \/ ParseAnchor \/ ParseTag \/ ParseContent \/ TakeIndicator \/ ParseItem \/ ParseEmptyValue
  \/ ParseFirst \/ ParseEnd \/ ParseIndentlessSequenceEnd \/ ParseFlowSequenceEntryMappingEnd
  \/ ParseFlowEntry \/ ParseFlowItem \/ ParseInlineMapping

LEMMA EveryFunctionFits ==
  ASSUME NoneApart, StackOK, event = None, Functions
  PROVE  Fits
BY FitsStreamStart, FitsDocumentStart, FitsDocumentEnd, FitsNode, FitsIndicator, FitsItem,
   FitsCollection, FitsInline DEF Functions

\* A step of the parser, whoever called it.
LEMMA ParserSteps ==
  ASSUME [ParserNext]_<<text, scannerVars, parserVars, result>>
  PROVE  \/ event = None /\ Functions
         \/ UNCHANGED parserVars
         \/ event # None /\ event' = None /\ UNCHANGED <<state, states, marks, item>>
<1>1. CASE ParserFetch
  BY <1>1 DEF ParserFetch
<1>2. CASE Parse
  <2>1. event = None
    BY <1>2 DEF Parse, Look
  <2>2. Functions \/ ParserError
    BY <1>2 DEF Parse, Functions
  <2> QED
    BY <2>1, <2>2 DEF ParserError
<1>3. CASE Called
  BY <1>3 DEF Called, parserVars
<1>4. CASE UNCHANGED <<text, scannerVars, parserVars, result>>
  BY <1>4
<1> QED
  BY <1>1, <1>2, <1>3, <1>4 DEF ParserNext

LEMMA StackStep ==
  ASSUME NoneApart, StackOK, [ParserNext]_<<text, scannerVars, parserVars, result>>
  PROVE  StackOK' /\ [Events!Next]_<<event, Open>>
<1>1. CASE event = None /\ Functions
  BY <1>1, EveryFunctionFits DEF Fits
<1>2. CASE UNCHANGED parserVars
  BY <1>2 DEF parserVars, StackOK, Open
<1>3. CASE event # None /\ event' = None /\ UNCHANGED <<state, states, marks, item>>
  <2>1. StackOK' /\ UNCHANGED Open
    BY <1>3 DEF StackOK, Open
  <2> QED
    BY <1>3, <2>1 DEF Events!Next, Events!Taken
<1> QED
  BY <1>1, <1>2, <1>3, ParserSteps

LEMMA StackInit ==
  ASSUME NoneApart, ParserInit
  PROVE  StackOK /\ Events!Init
<1>1. StackOK
  <2>1. state = "StreamStart" /\ states = <<>> /\ state \in DOMAIN Waits /\ state \in Outside
    BY DEF ParserInit, Waits, Outside
  <2> QED
    BY <2>1, EmptySeq DEF StackOK
<1>2. Open = <<>> /\ event = None
  BY <1>1, OutsideOpen DEF ParserInit, Outside
<1> QED
  BY <1>1, <1>2 DEF Events!Init

(***************************************************************************)
(* The parser implements YamlEvents, whatever the text is and whoever asks *)
(* for the events: one root in each document, collections closed in the    *)
(* order they were opened, mappings closed behind a value only.            *)
(***************************************************************************)
THEOREM ParserImplementsEvents ==
  ASSUME NoneApart
  PROVE  ParserSpec => EventsNest
<1>1. ScannerInit /\ ParserInit /\ result = None => StackOK /\ Events!Init
  BY StackInit
<1>2. StackOK /\ [ParserNext]_<<text, scannerVars, parserVars, result>>
        => StackOK' /\ [Events!Next]_<<event, Open>>
  BY StackStep
<1> QED
  BY <1>1, <1>2, PTL DEF ParserSpec, EventsNest, Events!Spec

-----------------------------------------------------------------------------
(***************************************************************************)
(* The marks.                                                              *)
(***************************************************************************)
LEMMA CountAppend ==
  ASSUME NEW s \in Seq(Followers), NEW x \in Followers
  PROVE  Count(s) \in Nat /\ Count(Append(s, x)) = Count(s) + (IF x \in Marked THEN 1 ELSE 0)
<1> PICK l \in Nat : l = Len(s) /\ DOMAIN s = 1..l
  BY LenProperties
<1> DEFINE old == {n \in DOMAIN s : s[n] \in Marked}
           new == {n \in DOMAIN Append(s, x) : Append(s, x)[n] \in Marked}
<1>1. /\ DOMAIN Append(s, x) = 1..(l + 1) /\ Append(s, x)[l + 1] = x
      /\ \A n \in 1..l : Append(s, x)[n] = s[n]
  BY AppendProperties, LenProperties
<1>2. IsFiniteSet(old) /\ Cardinality(old) \in Nat
  <2>1. old \subseteq 1..l /\ IsFiniteSet(1..l)
    BY FS_Interval
  <2> QED
    BY <2>1, FS_Subset, FS_CardinalityType
<1>3. new = old \cup (IF x \in Marked THEN {l + 1} ELSE {})
  BY <1>1
<1>4. l + 1 \notin old
  OBVIOUS
<1>5. Cardinality(old \cup {l + 1}) = Cardinality(old) + 1
  <2> HIDE DEF old
  <2> QED
    BY <1>2, <1>4, FS_AddElement
<1>6. Count(s) = Cardinality(old) /\ Count(Append(s, x)) = Cardinality(new)
  BY DEF Count
<1>7. Cardinality(new) = Cardinality(old) + (IF x \in Marked THEN 1 ELSE 0)
  <2> HIDE DEF old, new
  <2>1. CASE x \in Marked
    BY <1>2, <1>3, <1>5, <2>1
  <2>2. CASE x \notin Marked
    BY <1>2, <1>3, <2>2
  <2> QED
    BY <2>1, <2>2
<1> QED
  BY <1>2, <1>6, <1>7

LEMMA CountEmpty == Count(<<>>) = 0
<1>1. {n \in DOMAIN <<>> : <<>>[n] \in Marked} = {}
  OBVIOUS
<1> QED
  BY <1>1, FS_EmptySet DEF Count
LEMMA DepthIs ==
  ASSUME StackOK
  PROVE  Count(states) \in Nat /\ Depth \in Nat /\ (state \in Outside => Count(states) = 0)
<1>1. states \in Seq(Followers)
  BY DEF StackOK
<1>2. "DocumentEnd" \in Followers
  BY DEF Followers
<1> QED
  BY <1>1, <1>2, CountAppend, CountEmpty DEF Depth, StackOK

LEMMA DepthNext ==
  ASSUME StackOK'
  PROVE  Depth' \in Nat
<1>1. states' \in Seq(Followers) /\ "DocumentEnd" \in Followers
  BY DEF StackOK, Followers
<1>2. Count(states') \in Nat
  BY <1>1, CountAppend
<1> QED
  BY <1>2 DEF Depth

\* What the moves do to the depth.
LEMMA DepthPopped ==
  ASSUME NoneApart, StackOK, state \notin Outside, Pop
  PROVE  Depth' = Count(states)
<1>1. /\ Front(states) \in Seq(Followers) /\ Last(states) \in Followers
      /\ states = Append(Front(states), Last(states))
  BY SplitStack DEF StackOK
<1>2. Count(states) = Count(states') + (IF state' \in Marked THEN 1 ELSE 0)
  BY <1>1, CountAppend DEF Pop
<1>3. Here' = state'
  BY <1>1 DEF Here, Pop, Followers
<1> QED
  BY <1>2, <1>3 DEF Depth

LEMMA DepthPushed ==
  ASSUME StackOK, NEW f \in Followers, Push(f), state' \in {"Node", "DocumentContent"},
         Here \in Marked <=> f \in Marked
  PROVE  Depth' = Depth
<1>1. Count(states') = Count(states) + (IF f \in Marked THEN 1 ELSE 0)
  BY CountAppend DEF Push, StackOK
<1>2. Here' \notin Marked
  BY DEF Here, Marked
<1>3. Count(states') \in Nat /\ Count(states) \in Nat
  BY <1>1, CountAppend DEF StackOK
<1> QED
  BY <1>1, <1>2, <1>3 DEF Depth

LEMMA DepthWent ==
  ASSUME UNCHANGED states, Here \in Marked <=> Here' \in Marked
  PROVE  Depth' = Depth
BY DEF Depth

LEMMA DepthStep ==
  ASSUME NoneApart, StackOK, event = None, Functions
  PROVE  \/ UNCHANGED marks /\ Depth' = Depth
         \/ (\E x : marks' = Append(marks, x)) /\ Depth' = Depth + 1
         \/ marks' = Front(marks) /\ Depth = Depth' + 1
<1> DEFINE Same == UNCHANGED marks /\ Depth' = Depth
<1> Count(states) \in Nat /\ Depth \in Nat
  BY DepthIs
<1>1. CASE ParseStreamStart \/ ParseDocumentStart \/ ProcessDirective \/ ParseDocumentEnd
  <2>1. /\ UNCHANGED <<marks, states>>
        /\ {state, state'} \subseteq {"StreamStart", "ImplicitDocumentStart", "DocumentStart", "Directives",
                                    "DocumentEnd", None}
    BY <1>1 DEF ParseStreamStart, ParseDocumentStart, ProcessDirective, ParseDocumentEnd, Goto
  <2>2. Here \notin Marked /\ Here' \notin Marked
    BY <2>1 DEF Here, Marked, NoneApart, Waits
  <2> QED
    BY <2>1, <2>2, DepthWent
<1>2. CASE ParseImplicitDocumentStart \/ ParseExplicitDocument
  <2>1. /\ UNCHANGED marks /\ Push("DocumentEnd") /\ state' \in {"Node", "DocumentContent"}
        /\ state \in {"ImplicitDocumentStart", "Directives"}
    BY <1>2 DEF ParseImplicitDocumentStart, ParseExplicitDocument, Node
  <2>2. Here \notin Marked /\ "DocumentEnd" \notin Marked /\ "DocumentEnd" \in Followers
    BY <2>1 DEF Here, Marked, Followers
  <2> QED
    BY <2>1, <2>2, DepthPushed
<1>3. CASE ParseDocumentContent \/ ParseAlias \/ ParseAnchor \/ ParseTag \/ ParseContent
  <2>1. state \in {"Node", "Properties", "DocumentContent"} /\ UNCHANGED marks
    BY <1>3 DEF ParseDocumentContent, ParseAlias, ParseAnchor, ParseTag, ParseContent, Content
  <2>2. Pop \/ /\ UNCHANGED states
               /\ state' \in {"Node", "Properties", "IndentlessSequenceEntry", "FlowSequenceFirstEntry",
                              "FlowMappingFirstKey", "BlockSequenceFirstEntry", "BlockMappingFirstKey"}
    BY <1>3 DEF ParseDocumentContent, ParseAlias, ParseAnchor, ParseTag, ParseContent, Start,
                Collection, Goto, Node
  <2>3. state \notin Outside /\ Here \notin Marked
    BY <2>1, Inside DEF Here, Marked
  <2>4. CASE Pop
    BY <2>1, <2>3, <2>4, DepthPopped DEF Depth
  <2>5. CASE UNCHANGED states
             /\ state' \in {"Node", "Properties", "IndentlessSequenceEntry", "FlowSequenceFirstEntry",
                            "FlowMappingFirstKey", "BlockSequenceFirstEntry", "BlockMappingFirstKey"}
    <3>1. Here' \notin Marked
      BY <2>5 DEF Here, Marked
    <3> QED
      BY <2>1, <2>3, <2>5, <3>1, DepthWent
  <2> QED
    BY <2>2, <2>4, <2>5
<1>4. CASE TakeIndicator
  <2>1. /\ UNCHANGED <<marks, states>> /\ state \in DOMAIN Item /\ item' = Item[state] /\ state' = "Item"
    BY <1>4 DEF TakeIndicator, Goto
  <2>2. Here = state /\ Here' = Item[state].next
    BY <2>1 DEF Here, Item
  <2>3. state \in Marked <=> Item[state].next \in Marked
    BY <2>1 DEF Item, Row, Marked
  <2> QED
    BY <2>1, <2>2, <2>3, DepthWent
<1>5. CASE ParseItem
  <2>1. state = "Item" /\ UNCHANGED marks /\ item.next \in Followers
    BY <1>5, RowWaits DEF ParseItem, StackOK
  <2>2. Here = item.next
    BY <2>1 DEF Here
  <2>3. (UNCHANGED states /\ state' = item.next) \/ (Push(item.next) /\ state' = "Node")
    BY <1>5 DEF ParseItem, Goto, Node
  <2>4. CASE UNCHANGED states /\ state' = item.next
    <3>1. Here' = item.next
      BY <2>1, <2>4 DEF Here, Followers
    <3> QED
      BY <2>1, <2>2, <2>4, <3>1, DepthWent
  <2>5. CASE Push(item.next) /\ state' = "Node"
    <3>1. PICK f \in Followers : f = item.next
      BY <2>1
    <3> QED
      BY <2>1, <2>2, <2>5, <3>1, DepthPushed
  <2> QED
    BY <2>3, <2>4, <2>5
<1>6. CASE ParseEmptyValue \/ ParseFlowEntry \/ ParseInlineMapping \/ ParseFlowSequenceEntryMappingEnd
  <2>1. /\ UNCHANGED <<marks, states>>
        /\ state \in {"BlockMappingValue", "FlowSequenceEntryMappingValue", "FlowMappingValue",
                      "FlowMappingEmptyValue", "FlowSequenceEntry", "FlowMappingKey", "FlowSequenceItem",
                      "FlowSequenceEntryMappingEnd"}
        /\ state' \in {"BlockMappingKey", "FlowSequenceEntryMappingEnd", "FlowMappingKey", "FlowSequenceItem",
                       "FlowMappingItem", "FlowSequenceEntryMappingKey", "FlowSequenceEntry"}
    BY <1>6 DEF ParseEmptyValue, ParseFlowEntry, ParseInlineMapping, ParseFlowSequenceEntryMappingEnd,
                Goto, Item, Row
  <2>2. Here \in Marked /\ Here' \in Marked
    BY <2>1 DEF Here, Marked
  <2> QED
    BY <2>1, <2>2, DepthWent
<1>7. CASE ParseFlowItem
  <2>1. /\ UNCHANGED marks /\ state \in {"FlowSequenceItem", "FlowMappingItem"} /\ state' = "Node"
        /\ Push("FlowSequenceEntry") \/ Push("FlowMappingEmptyValue")
    BY <1>7 DEF ParseFlowItem, Node
  <2>2. /\ Here \in Marked /\ {"FlowSequenceEntry", "FlowMappingEmptyValue"} \subseteq Marked
        /\ {"FlowSequenceEntry", "FlowMappingEmptyValue"} \subseteq Followers
    BY <2>1 DEF Here, Marked, Followers
  <2> QED
    BY <2>1, <2>2, DepthPushed
<1>8. CASE ParseFirst
  <2>1. /\ state \in DOMAIN First /\ state' = First[state] /\ UNCHANGED states
        /\ marks' = Append(marks, FirstToken.at)
    BY <1>8 DEF ParseFirst, Goto
  <2>2. Here \notin Marked /\ Here' \in Marked
    BY <2>1 DEF First, Here, Marked
  <2>3. Depth' = Depth + 1
    BY <2>1, <2>2 DEF Depth
  <2> QED
    BY <2>1, <2>3
<1>9. CASE ParseEnd
  <2>1. state \in DOMAIN End /\ Pop /\ marks' = Front(marks)
    BY <1>9 DEF ParseEnd
  <2>2. Here \in Marked /\ state \in DOMAIN Waits
        /\ state \notin {"StreamStart", "ImplicitDocumentStart", "DocumentStart", "Directives", "DocumentEnd"}
    BY <2>1 DEF End, Here, Marked, Waits
  <2>3. Depth' = Count(states)
    BY <2>1, <2>2, Inside, DepthPopped
  <2> QED
    BY <2>1, <2>2, <2>3 DEF Depth
<1>10. CASE ParseIndentlessSequenceEnd
  <2>1. state = "IndentlessSequenceEntry" /\ Pop /\ UNCHANGED marks
    BY <1>10 DEF ParseIndentlessSequenceEnd
  <2>2. Here \notin Marked /\ state \in DOMAIN Waits
    BY <2>1 DEF Here, Marked, Waits
  <2>3. Depth' = Count(states)
    BY <2>1, <2>2, Inside, DepthPopped
  <2> QED
    BY <2>1, <2>2, <2>3 DEF Depth
<1> QED
  BY <1>1, <1>2, <1>3, <1>4, <1>5, <1>6, <1>7, <1>8, <1>9, <1>10 DEF Functions

LEMMA MarksStep ==
  ASSUME NoneApart, StackOK, MarksOK, [ParserNext]_<<text, scannerVars, parserVars, result>>
  PROVE  MarksOK'
<1>1. PICK S : marks \in Seq(S) /\ Len(marks) = Depth
  BY DEF MarksOK
<1>2. CASE UNCHANGED parserVars \/ UNCHANGED <<state, states, marks, item>>
  <2>1. UNCHANGED <<marks, Depth>>
    BY <1>2 DEF parserVars, Depth, Here, Count
  <2> QED
    BY <1>1, <2>1 DEF MarksOK
<1>3. CASE event = None /\ Functions
  <2>0. StackOK' /\ Depth \in Nat
    BY <1>3, EveryFunctionFits, DepthIs DEF Fits
  <2>1. Depth' \in Nat
    BY <2>0, DepthNext
  <2>2. CASE UNCHANGED marks /\ Depth' = Depth
    BY <1>1, <2>2 DEF MarksOK
  <2>3. CASE (\E x : marks' = Append(marks, x)) /\ Depth' = Depth + 1
    <3>1. PICK x : marks' = Append(marks, x)
      BY <2>3
    <3>2. marks \in Seq(S \cup {x}) /\ x \in S \cup {x}
      BY <1>1, SeqMonotonic
    <3>3. marks' \in Seq(S \cup {x}) /\ Len(marks') = Len(marks) + 1
      BY <3>1, <3>2, AppendProperties
    <3> QED
      BY <1>1, <2>3, <3>3 DEF MarksOK
  <2>4. CASE marks' = Front(marks) /\ Depth = Depth' + 1
    <3>1. marks # <<>>
      BY <1>1, <2>1, <2>4, EmptySeq
    <3>2. Front(marks) \in Seq(S) /\ Len(Front(marks)) = Len(marks) - 1
      BY <1>1, <3>1, SplitStack
    <3>3. marks' \in Seq(S) /\ Len(marks') = Len(marks) - 1
      BY <2>4, <3>2
    <3>4. PICK d \in Nat : d = Depth'
      BY <2>1
    <3>5. Len(marks) = d + 1
      BY <1>1, <2>4, <3>4
    <3>6. Len(marks') = d
      BY <3>3, <3>5
    <3> QED
      BY <3>3, <3>4, <3>6 DEF MarksOK
  <2> QED
    BY <1>3, <2>2, <2>3, <2>4, DepthStep
<1> QED
  BY <1>2, <1>3, ParserSteps

(***************************************************************************)
(* When the stream has ended no state is on the stack and no mark is left: *)
(* the two assertions of parse_document_start never fail.                  *)
(***************************************************************************)
THEOREM ParserEndsEmpty ==
  ASSUME NoneApart
  PROVE  ParserSpec => []NothingOpenAtEnd
<1>1. ScannerInit /\ ParserInit /\ result = None => StackOK /\ MarksOK
  <2> SUFFICES ASSUME ParserInit PROVE StackOK /\ MarksOK
    OBVIOUS
  <2>1. StackOK
    BY StackInit
  <2>2. Depth = 0
    BY CountEmpty DEF ParserInit, Depth, Here, Marked
  <2>3. marks \in Seq({}) /\ Len(marks) = 0
    BY EmptySeq DEF ParserInit
  <2> QED
    BY <2>1, <2>2, <2>3 DEF MarksOK
<1>2. StackOK /\ MarksOK /\ [ParserNext]_<<text, scannerVars, parserVars, result>> => StackOK' /\ MarksOK'
  BY StackStep, MarksStep
<1>3. StackOK /\ MarksOK => NothingOpenAtEnd
  <2> SUFFICES ASSUME StackOK, MarksOK, state = None PROVE states = <<>> /\ marks = <<>>
    BY DEF NothingOpenAtEnd
  <2>1. states = <<>> /\ Count(states) = 0
    BY DepthIs DEF StackOK, Outside
  <2>2. Here \notin Marked
    BY DEF Here, Marked, NoneApart, Waits
  <2>3. Depth = 0
    BY <2>1, <2>2 DEF Depth
  <2>4. PICK S : marks \in Seq(S) /\ Len(marks) = 0
    BY <2>3 DEF MarksOK
  <2> QED
    BY <2>1, <2>4, EmptySeq
<1> QED
  BY <1>1, <1>2, <1>3, PTL DEF ParserSpec

-----------------------------------------------------------------------------
(***************************************************************************)
(* The scanner reads forward: what it finds at a position of the text ends *)
(* behind it, and not behind the end of the text.                          *)
(***************************************************************************)
TextOK == Len(text) \in Nat

\* What is scanned from i on ends at i or behind it, or could not be scanned.
Leads(scanned, i) ==
  "next" \in DOMAIN scanned /\ scanned.next \in (i..Len(text)) \cup {Bad}

LEMMA Characters ==
  ASSUME TextOK, NEW i \in Nat
  PROVE  /\ i >= Len(text) => At(i) = "NUL"
         /\ At(i) # "NUL" => i \in Pos /\ i + 1 \in Pos
BY DEF TextOK, Pos, At

\* The first position from i on that is in T.
LEMMA FirstFrom ==
  ASSUME NEW n \in Nat, NEW i \in 0..n, NEW T, n \in T
  PROVE  \E j \in i..n : j \in T /\ \A k \in i..(j - 1) : k \notin T
<1> DEFINE S == {j \in i..n : j \in T}
<1>1. n \in S
  OBVIOUS
<1>2. S \subseteq Nat
  OBVIOUS
<1> PICK j \in S : \A k \in S : j <= k
  <2> HIDE DEF S
  <2> QED BY <1>1, <1>2, LeastNumber
<1>3. j \in i..n /\ j \in T
  OBVIOUS
<1>4. \A k \in i..(j - 1) : k \notin T
  BY <1>3
<1> QED BY <1>3, <1>4

\* The last number of T.
LEMMA LastOf ==
  ASSUME NEW n \in Nat, NEW T \in SUBSET (0..n), T # {}
  PROVE  \E k \in T : \A l \in T : l <= k
<1> DEFINE S == {n - k : k \in T}
<1>1. S \subseteq Nat /\ S # {}
  <2>1. \A k \in T : k \in 0..n /\ n - k \in Nat
    OBVIOUS
  <2> QED BY <2>1
<1>2. PICK x \in S : \A y \in S : x <= y
  <2> HIDE DEF S
  <2> QED BY <1>1, LeastNumber
<1>3. PICK k \in T : x = n - k
  BY <1>2
<1>4. ASSUME NEW l \in T PROVE l <= k
  <2>1. n - l \in S
    OBVIOUS
  <2>2. n - k <= n - l
    BY <1>2, <1>3, <2>1
  <2> QED BY <2>2
<1> QED BY <1>4

\* Skip and Until find a position.
LEMMA SkipIs ==
  ASSUME TextOK, NEW i \in Pos, NEW chars, "NUL" \notin chars
  PROVE  /\ Skip(i, chars) \in i..Len(text) /\ At(Skip(i, chars)) \notin chars
         /\ \A k \in i..(Skip(i, chars) - 1) : At(k) \in chars
<1> DEFINE T == {j \in Pos : At(j) \notin chars}
<1>1. Len(text) \in T
  BY Characters DEF TextOK, Pos
<1>2. \E j \in i..Len(text) : j \in T /\ \A k \in i..(j - 1) : k \notin T
  <2> HIDE DEF T
  <2> QED BY <1>1, FirstFrom DEF TextOK, Pos
<1>3. \E j \in i..Len(text) : At(j) \notin chars /\ \A k \in i..(j - 1) : At(k) \in chars
  BY <1>2 DEF TextOK, Pos
<1> QED BY <1>3 DEF Skip

LEMMA UntilIs ==
  ASSUME TextOK, NEW i \in Pos, NEW chars, "NUL" \in chars
  PROVE  /\ Until(i, chars) \in i..Len(text) /\ At(Until(i, chars)) \in chars
         /\ \A k \in i..(Until(i, chars) - 1) : At(k) \notin chars
<1> DEFINE T == {j \in Pos : At(j) \in chars}
<1>1. Len(text) \in T
  BY Characters DEF TextOK, Pos
<1>2. \E j \in i..Len(text) : j \in T /\ \A k \in i..(j - 1) : k \notin T
  <2> HIDE DEF T
  <2> QED BY <1>1, FirstFrom DEF TextOK, Pos
<1>3. \E j \in i..Len(text) : At(j) \in chars /\ \A k \in i..(j - 1) : At(k) \notin chars
  BY <1>2 DEF TextOK, Pos
<1> QED BY <1>3 DEF Until

\* The line of a position starts behind the last line before it.
LEMMA LineStartIs ==
  ASSUME NEW i \in Nat
  PROVE  /\ LineStart(i) \in 0..i
         /\ \A k \in 0..(i - 1) : EndsLine(k) => k < LineStart(i)
         /\ LineStart(i) # 0 => EndsLine(LineStart(i) - 1)
<1> DEFINE ends == {k \in 0..(i - 1) : EndsLine(k)}
<1>1. CASE ends = {}
  <2>1. LineStart(i) = 0
    BY <1>1 DEF LineStart
  <2> QED BY <1>1, <2>1
<1>2. CASE ends # {}
  <2>1. \E k \in ends : \A l \in ends : l <= k
    <3>1. ends \in SUBSET (0..i)
      OBVIOUS
    <3> HIDE DEF ends
    <3> QED BY <1>2, <3>1, LastOf
  <2>2. PICK k \in ends : LineStart(i) = 1 + k /\ \A l \in ends : l <= k
    <3> DEFINE k == CHOOSE k \in ends : \A l \in ends : l <= k
    <3>1. k \in ends /\ \A l \in ends : l <= k
      <4> HIDE DEF ends
      <4> QED BY <2>1
    <3>2. LineStart(i) = 1 + k
      BY <1>2 DEF LineStart
    <3> HIDE DEF k, ends
    <3> QED BY <3>1, <3>2
  <2>3. k \in 0..(i - 1) /\ EndsLine(k)
    OBVIOUS
  <2>4. (1 + k) - 1 = k
    BY <2>3
  <2>5. \A l \in 0..(i - 1) : EndsLine(l) => l < 1 + k
    BY <2>2, <2>3
  <2> QED BY <2>2, <2>3, <2>4, <2>5
<1> QED BY <1>1, <1>2

LEMMA LinesFollow ==
  ASSUME NEW i \in Nat, NEW j \in Nat, i <= j
  PROVE  LineStart(i) <= LineStart(j)
<1>1. LineStart(i) \in 0..i /\ LineStart(j) \in 0..j
  BY LineStartIs
<1>2. CASE LineStart(i) # 0
  <2>1. EndsLine(LineStart(i) - 1) /\ LineStart(i) - 1 \in 0..(j - 1)
    BY <1>1, <1>2, LineStartIs
  <2>2. LineStart(i) - 1 < LineStart(j)
    BY <2>1, LineStartIs
  <2> QED BY <1>1, <2>2
<1>3. CASE LineStart(i) = 0
  BY <1>1, <1>3
<1> QED BY <1>2, <1>3

\* A stale key stays stale.
LEMMA StaleStays ==
  ASSUME NEW key, key.at \in Nat, NEW i \in Nat, NEW j \in Nat, key.at <= i, i <= j,
         StaleAt(key, i)
  PROVE  StaleAt(key, j)
<1>1. LineStart(key.at) <= LineStart(i) /\ LineStart(i) <= LineStart(j)
  BY LinesFollow
<1>2. LineStart(key.at) \in Int /\ LineStart(i) \in Int /\ LineStart(j) \in Int
  BY LineStartIs
<1>3. i - key.at <= j - key.at
  OBVIOUS
<1> QED BY <1>1, <1>2, <1>3, KeyLengthAssumption DEF StaleAt

LEMMA ColumnNat ==
  ASSUME NEW i \in Nat
  PROVE  Column(i) \in Nat
<1>1. LineStart(i) \in Int
  BY LineStartIs
<1>2. IsFiniteSet(LineStart(i)..(i - 1))
  BY <1>1, FS_Interval
<1>3. IsFiniteSet({k \in LineStart(i)..(i - 1) : At(k) # "BOM"})
  BY <1>2, FS_Subset
<1> QED BY <1>3, FS_CardinalityType DEF Column

LEMMA BreakEndIs ==
  ASSUME TextOK, NEW i \in Pos
  PROVE  /\ BreakEnd(i) \in i..Len(text)
         /\ At(i) \in Break => BreakEnd(i) > i
         /\ At(i) \notin Break => BreakEnd(i) = i
<1>1. i \in Nat /\ i + 1 \in Nat
  BY DEF TextOK, Pos
<1>2. CASE At(i) = "CR" /\ At(i + 1) = "LF"
  <2>1. BreakEnd(i) = i + 2
    BY <1>2 DEF BreakEnd, EndsLine
  <2>2. i + 2 <= Len(text)
    BY <1>1, <1>2, Characters DEF TextOK, Pos
  <2> QED BY <1>1, <1>2, <2>1, <2>2 DEF TextOK, Break
<1>3. CASE ~(At(i) = "CR" /\ At(i + 1) = "LF") /\ At(i) \in Break
  <2>1. BreakEnd(i) = i + 1
    BY <1>3 DEF BreakEnd, EndsLine
  <2>2. At(i) # "NUL"
    BY <1>3 DEF Break
  <2>3. i + 1 \in Pos
    BY <1>1, <2>2, Characters
  <2> QED BY <1>1, <1>3, <2>1, <2>3 DEF TextOK, Pos
<1>4. CASE At(i) \notin Break
  <2>1. BreakEnd(i) = i
    BY <1>4 DEF BreakEnd, EndsLine, Break
  <2> QED BY <1>1, <1>4, <2>1 DEF TextOK, Pos
<1> QED BY <1>2, <1>3, <1>4

LEMMA CommentIs ==
  ASSUME TextOK, NEW i \in Pos
  PROVE  Comment(i) \in i..Len(text)
<1>1. PICK s \in i..Len(text) : Comment(i) \in {s, Until(s, BreakZ)}
  <2>1. "NUL" \notin {" "}
    OBVIOUS
  <2>2. Skip(i, {" "}) \in i..Len(text)
    BY <2>1, SkipIs, Zenon
  <2> QED BY <2>2, Zenon DEF Comment
<1>2. s \in Pos
  BY DEF TextOK, Pos
<1>3. Until(s, BreakZ) \in s..Len(text)
  BY <1>2, UntilIs DEF BreakZ, Break
<1> QED BY <1>1, <1>2, <1>3 DEF TextOK, Pos

LEMMA IgnoredLineIs ==
  ASSUME TextOK, NEW i \in Pos
  PROVE  IgnoredLine(i) \in (i..Len(text)) \cup {Bad}
<1>1. Comment(i) \in i..Len(text) /\ Comment(i) \in Pos
  BY CommentIs DEF TextOK, Pos
<1>2. BreakEnd(Comment(i)) \in Comment(i)..Len(text)
  BY <1>1, BreakEndIs
<1> QED BY <1>1, <1>2 DEF IgnoredLine, TextOK, Pos

LEMMA JoinLeads ==
  ASSUME NEW i, NEW rest, Leads(rest, i), NEW value
  PROVE  Leads(Join(value, rest), i)
<1>1. CASE rest.next = Bad
  BY <1>1 DEF Join, Leads, Failed, Scanned
<1>2. CASE rest.next # Bad
  <2>1. Join(value, rest) = [rest EXCEPT !.value = value \o @]
    BY <1>2 DEF Join
  <2>2. DOMAIN Join(value, rest) = DOMAIN rest /\ Join(value, rest).next = rest.next
    BY <2>1 DEF Leads
  <2> QED BY <2>2 DEF Leads
<1> QED BY <1>1, <1>2

\* What is left of the text behind a position: less at a later one.
Left(p) == Len(text) - p

LEMMA Ahead ==
  ASSUME TextOK
  PROVE  /\ \A p \in 0..Len(text) : Left(p) \in Nat
         /\ \A p \in 0..Len(text) : \A q \in (p + 1)..Len(text) :
              q \in 0..Len(text) /\ Left(q) < Left(p)
BY DEF TextOK, Left

\* The blanks before a token, by position.
NextTokenAt(f, p, a, b) == IF At(Comment(p)) \in Break THEN f[BreakEnd(Comment(p))] ELSE Comment(p)
BehindOf(j, p) == j \in p..Len(text)

Gaps == INSTANCE Descent WITH Dom <- 0..Len(text), Rank <- Left, Body <- NextTokenAt, Good <- BehindOf

LEMMA NextTokenIs ==
  ASSUME TextOK, NEW i \in Pos
  PROVE  NextToken[i] \in i..Len(text)
<1>1. Gaps!Steps(0, 0)
  <2> SUFFICES ASSUME NEW p \in 0..Len(text), NEW f
               PROVE  \/ /\ BehindOf(NextTokenAt(f, p, 0, 0), p)
                         /\ \A g : NextTokenAt(g, p, 0, 0) = NextTokenAt(f, p, 0, 0)
                      \/ \E q \in (p + 1)..Len(text) :
                           /\ BehindOf(f[q], q) => BehindOf(NextTokenAt(f, p, 0, 0), p)
                           /\ \A g : g[q] = f[q] => NextTokenAt(g, p, 0, 0) = NextTokenAt(f, p, 0, 0)
    BY Ahead DEF Gaps!Steps
  <2>1. p \in Pos /\ p \in Nat /\ Len(text) \in Nat
    BY DEF Pos, TextOK
  <2>2. Comment(p) \in p..Len(text) /\ Comment(p) \in Pos
    BY <2>1, CommentIs DEF Pos
  <2>3. CASE At(Comment(p)) \in Break
    <3>1. BreakEnd(Comment(p)) \in (p + 1)..Len(text)
      BY <2>1, <2>2, <2>3, BreakEndIs
    <3>2. \A g : NextTokenAt(g, p, 0, 0) = g[BreakEnd(Comment(p))]
      BY <2>3 DEF NextTokenAt
    <3>3. BehindOf(f[BreakEnd(Comment(p))], BreakEnd(Comment(p))) => BehindOf(NextTokenAt(f, p, 0, 0), p)
      BY <2>1, <3>1, <3>2 DEF BehindOf
    <3> QED BY <3>1, <3>2, <3>3
  <2>4. CASE At(Comment(p)) \notin Break
    <3>1. \A g : NextTokenAt(g, p, 0, 0) = Comment(p)
      BY <2>4 DEF NextTokenAt
    <3> QED BY <2>2, <3>1 DEF BehindOf
  <2> QED BY <2>3, <2>4
<1>2. NextToken = Gaps!Fun(0, 0)
  BY DEF NextToken, Gaps!Fun, NextTokenAt, Pos
<1>3. BehindOf(Gaps!Fun(0, 0)[i], i)
  BY <1>1, Gaps!AllGood, Ahead DEF Gaps!Ranked, TextOK, Pos
<1> QED BY <1>2, <1>3 DEF BehindOf

-----------------------------------------------------------------------------
LEMMA NoNul ==
  /\ "NUL" \notin Digit /\ "NUL" \notin Hex /\ "NUL" \notin WordChar /\ "NUL" \notin UriChar
  /\ "NUL" \in BreakZ /\ "NUL" \in SpaceZ /\ "NUL" \in BlankZ /\ "NUL" \notin Break
<1>1. "NUL" \notin Digit
  BY Zenon DEF Digit
<1>2. "NUL" \notin Hex
  BY <1>1, Zenon DEF Hex
<1>3. "NUL" \notin WordChar
  BY <1>2, Zenon DEF WordChar
<1>4. "NUL" \notin UriChar
  BY <1>3, Zenon DEF UriChar
<1>5. "NUL" \in BreakZ /\ "NUL" \in SpaceZ /\ "NUL" \in BlankZ /\ "NUL" \notin Break
  BY Zenon DEF BreakZ, SpaceZ, BlankZ, Break
<1> QED BY <1>1, <1>2, <1>3, <1>4, <1>5, Zenon

LEMMA ScannedLeads ==
  ASSUME NEW i, NEW value, NEW next
  PROVE  /\ Leads(Failed, i) /\ Failed.next = Bad
         /\ next \in i..Len(text) => Leads(Scanned(value, next), i)
         /\ Scanned(value, next).next = next /\ Scanned(value, next).value = value
BY DEF Leads, Failed, Scanned

LEMMA LeadsFrom ==
  ASSUME TextOK, NEW i \in Int, NEW j \in Int, i <= j, NEW scanned, Leads(scanned, j)
  PROVE  Leads(scanned, i)
BY DEF TextOK, Leads

LEMMA AnchorLeads ==
  ASSUME TextOK, NEW i \in Pos, At(i) # "NUL"
  PROVE  Leads(ScanAnchor(i), i + 1)
<1>1. i + 1 \in Pos
  BY Characters DEF Pos
<1> DEFINE end == Skip(i + 1, WordChar)
<1>2. end \in (i + 1)..Len(text)
  BY <1>1, SkipIs, NoNul
<1> DEFINE anchor == Scanned(Slice(i + 1, end), end)
<1>3. ScanAnchor(i) = anchor \/ ScanAnchor(i) = Failed
  BY Zenon DEF ScanAnchor
<1>4. Leads(anchor, i + 1) /\ Leads(Failed, i + 1)
  <2> HIDE DEF end
  <2> QED BY <1>2, ScannedLeads
<1> HIDE DEF anchor
<1> QED BY <1>3, <1>4

LEMMA TagHandleIs ==
  ASSUME TextOK, NEW i \in Pos
  PROVE  TagHandle(i) \in ((i + 1)..Len(text)) \cup {Bad}
<1>1. CASE At(i) # "!"
  BY <1>1 DEF TagHandle
<1>2. CASE At(i) = "!"
  <2>1. i \in Nat /\ i + 1 \in Pos
    BY <1>2, Characters DEF Pos
  <2>2. i + 1 \in (i + 1)..Len(text)
    BY <2>1 DEF Pos
  <2> DEFINE end == Skip(i + 1, WordChar)
  <2>3. end \in (i + 1)..Len(text)
    BY <2>1, SkipIs, NoNul
  <2>4. \/ TagHandle(i) = i + 1
        \/ TagHandle(i) = Bad
        \/ TagHandle(i) = end + 1 /\ At(end) = "!"
    BY <1>2, Zenon DEF TagHandle
  <2>5. At(end) = "!" => end + 1 \in (i + 1)..Len(text)
    <3> HIDE DEF end
    <3> QED BY <2>1, <2>3, Characters DEF Pos
  <2> HIDE DEF end
  <2> QED BY <2>2, <2>4, <2>5
<1> QED BY <1>1, <1>2

\* The characters of a URI, from p up to end.
UriNext(p) == IF At(p) = "%" THEN p + 3 ELSE p + 1
UriChars(p) == IF At(p) # "%" THEN <<At(p)>>
               ELSE IF \A n \in 1..2 : Prefix(p + 1, 2)[n] \in Hex THEN Chr(Prefix(p + 1, 2)) ELSE <<>>
UriAt(f, p, end, b) ==
  IF p >= end THEN Scanned(<<>>, p)
  ELSE IF UriChars(p) = <<>> \/ f[UriNext(p)].next = Bad THEN Failed
       ELSE Scanned(UriChars(p) \o f[UriNext(p)].value, f[UriNext(p)].next)

Uris == INSTANCE Descent WITH Dom <- 0..Len(text), Rank <- Left, Body <- UriAt, Good <- Leads

\* An escape is read whole, so the next character is still in the text.
LEMMA UriNextIs ==
  ASSUME TextOK, NEW p \in Pos, UriChars(p) # <<>>, p < Len(text)
  PROVE  UriNext(p) \in (p + 1)..Len(text)
<1>1. p \in Nat /\ p + 1 \in Pos /\ Len(text) \in Nat
  BY DEF Pos, TextOK
<1>2. CASE At(p) # "%"
  BY <1>1, <1>2 DEF UriNext, Pos
<1>3. CASE At(p) = "%"
  <2>1. \A n \in 1..2 : Prefix(p + 1, 2)[n] \in Hex
    BY <1>3, Zenon DEF UriChars
  <2>2. Prefix(p + 1, 2)[2] = At(p + 2)
    BY <1>1 DEF Prefix
  <2>3. At(p + 2) # "NUL"
    BY <2>1, <2>2, NoNul
  <2>4. p + 2 \in Nat /\ (p + 2) + 1 = p + 3
    BY <1>1
  <2>5. p + 3 \in Pos
    BY <2>3, <2>4, Characters
  <2> QED BY <1>1, <1>3, <2>5 DEF UriNext, Pos
<1> QED BY <1>2, <1>3

LEMMA UriSteps ==
  ASSUME TextOK, NEW end \in Pos
  PROVE  Uris!Steps(end, 0)
<1> SUFFICES ASSUME NEW p \in 0..Len(text), NEW f
             PROVE  \/ Leads(UriAt(f, p, end, 0), p) /\ \A g : UriAt(g, p, end, 0) = UriAt(f, p, end, 0)
                    \/ \E q \in (p + 1)..Len(text) :
                         /\ Leads(f[q], q) => Leads(UriAt(f, p, end, 0), p)
                         /\ \A g : g[q] = f[q] => UriAt(g, p, end, 0) = UriAt(f, p, end, 0)
  BY Ahead DEF Uris!Steps
<1>1. p \in Pos /\ p \in Nat /\ Len(text) \in Nat /\ end \in Nat
  BY DEF Pos, TextOK
<1>2. CASE p >= end
  <2>1. \A g : UriAt(g, p, end, 0) = Scanned(<<>>, p)
    BY <1>2 DEF UriAt
  <2>2. Leads(Scanned(<<>>, p), p)
    BY <1>1, ScannedLeads DEF Pos
  <2> QED BY <2>1, <2>2
<1>3. CASE ~(p >= end) /\ UriChars(p) = <<>>
  <2>1. \A g : UriAt(g, p, end, 0) = Failed
    BY <1>3 DEF UriAt
  <2> QED BY <2>1, ScannedLeads
<1>4. CASE ~(p >= end) /\ UriChars(p) # <<>>
  <2>1. p < Len(text)
    BY <1>1, <1>4 DEF Pos
  <2>2. PICK q \in (p + 1)..Len(text) : q = UriNext(p)
    BY <1>1, <1>4, <2>1, UriNextIs
  <2>3. \A g : UriAt(g, p, end, 0) =
                 IF g[q].next = Bad THEN Failed ELSE Scanned(UriChars(p) \o g[q].value, g[q].next)
    BY <1>4, <2>2, Zenon DEF UriAt
  <2>4. ASSUME Leads(f[q], q) PROVE Leads(UriAt(f, p, end, 0), p)
    <3>1. CASE f[q].next = Bad
      <4>1. UriAt(f, p, end, 0) = Failed
        BY <2>3, <3>1, Zenon
      <4> QED BY <4>1, ScannedLeads, Zenon
    <3>2. CASE f[q].next # Bad
      <4>1. f[q].next \in p..Len(text)
        BY <1>1, <2>4, <3>2 DEF Leads
      <4>2. UriAt(f, p, end, 0) = Scanned(UriChars(p) \o f[q].value, f[q].next)
        BY <2>3, <3>2
      <4> QED BY <4>1, <4>2, ScannedLeads
    <3> QED BY <3>1, <3>2
  <2>5. \A g : g[q] = f[q] => UriAt(g, p, end, 0) = UriAt(f, p, end, 0)
    BY <2>3
  <2> QED BY <2>4, <2>5
<1> QED BY <1>2, <1>3, <1>4

LEMMA UriLeads ==
  ASSUME TextOK, NEW i \in Pos, NEW end \in Pos
  PROVE  Leads(Uri(i, end), i)
<1>1. Uri(i, end) = Uris!Fun(end, 0)[i]
  BY Zenon DEF Uri, Uris!Fun, UriAt, UriNext, UriChars, Pos
<1>2. Leads(Uris!Fun(end, 0)[i], i)
  BY UriSteps, Uris!AllGood, Ahead DEF Uris!Ranked, TextOK, Pos
<1> QED BY <1>1, <1>2

LEMMA ScanUriLeads ==
  ASSUME TextOK, NEW i \in Pos
  PROVE  Leads(ScanUri(i), i)
<1> PICK end \in Pos : end = Skip(i, UriChar)
  BY SkipIs, NoNul DEF Pos, TextOK
<1>1. Leads(Uri(i, end), i) /\ Leads(Failed, i)
  BY UriLeads, ScannedLeads
<1>2. ScanUri(i) = Uri(i, end) \/ ScanUri(i) = Failed
  BY Zenon DEF ScanUri
<1> QED BY <1>1, <1>2

LEMMA TagLeads ==
  ASSUME TextOK, NEW i \in Pos, At(i) # "NUL"
  PROVE  Leads(ScanTag(i), i + 1)
<1>1. i \in Nat /\ i + 1 \in Pos
  BY Characters DEF Pos
<1> DEFINE verbatim == ScanUri(i + 2)
           named == \E j \in (i + 1)..Len(text) : At(j) = "!" /\ \A k \in (i + 1)..j : At(k) \notin SpaceZ
           handle == IF named THEN TagHandle(i) ELSE i + 1
           suffix == IF handle = Bad THEN Failed ELSE ScanUri(handle)
           whole == IF verbatim.next = Bad \/ At(verbatim.next) # ">" THEN Failed
                    ELSE Scanned([handle |-> <<>>, suffix |-> verbatim.value], verbatim.next + 1)
           alone == Scanned([handle |-> <<>>, suffix |-> <<"!">>], i + 1)
           short == IF suffix.next = Bad THEN Failed
                    ELSE Scanned([handle |-> Slice(i, handle), suffix |-> suffix.value], suffix.next)
<1>2. CASE At(i + 1) = "<"
  <2>1. i + 2 \in Pos
    <3>1. At(i + 1) # "NUL"
      BY <1>2
    <3>2. i + 1 \in Nat /\ (i + 1) + 1 = i + 2
      BY <1>1
    <3> QED BY <3>1, <3>2, Characters
  <2>2. Leads(verbatim, i + 2)
    BY <2>1, ScanUriLeads
  <2> HIDE DEF verbatim
  <2>3. Leads(whole, i + 1)
    <3>1. CASE verbatim.next = Bad \/ At(verbatim.next) # ">"
      BY <3>1, ScannedLeads
    <3>2. CASE ~(verbatim.next = Bad \/ At(verbatim.next) # ">")
      <4>1. verbatim.next \in (i + 2)..Len(text)
        BY <2>2, <3>2 DEF Leads
      <4>2. verbatim.next \in Nat /\ At(verbatim.next) # "NUL"
        BY <1>1, <3>2, <4>1
      <4>3. verbatim.next + 1 \in (i + 1)..Len(text)
        BY <1>1, <4>1, <4>2, Characters DEF Pos
      <4> QED BY <3>2, <4>3, ScannedLeads
    <3> QED BY <3>1, <3>2
  <2>4. At(i + 1) \notin BlankZ
    BY <1>2, Zenon DEF BlankZ, SpaceZ, BreakZ, Break
  <2>5. ScanTag(i) = whole \/ ScanTag(i) = Failed
    BY <1>2, <2>4, Zenon DEF ScanTag, verbatim
  <2> HIDE DEF whole
  <2> QED BY <2>3, <2>5, ScannedLeads
<1>3. CASE At(i + 1) # "<"
  <2>1. handle \in ((i + 1)..Len(text)) \cup {Bad}
    <3> HIDE DEF named
    <3>1. TagHandle(i) \in ((i + 1)..Len(text)) \cup {Bad} /\ i + 1 \in (i + 1)..Len(text)
      BY <1>1, TagHandleIs DEF Pos
    <3> QED BY <3>1
  <2> HIDE DEF handle
  <2>2. Leads(suffix, i + 1)
    <3>1. CASE handle = Bad
      BY <3>1, ScannedLeads
    <3>2. CASE handle # Bad
      <4>1. handle \in Pos /\ handle \in Int /\ i + 1 \in Int /\ i + 1 <= handle
        BY <1>1, <2>1, <3>2 DEF Pos
      <4>2. Leads(ScanUri(handle), handle)
        BY <4>1, ScanUriLeads
      <4>3. Leads(ScanUri(handle), i + 1)
        BY <4>1, <4>2, LeadsFrom
      <4> QED BY <3>2, <4>3
    <3> QED BY <3>1, <3>2
  <2> HIDE DEF suffix
  <2>3. Leads(short, i + 1)
    <3>1. CASE suffix.next = Bad
      BY <3>1, ScannedLeads
    <3>2. CASE suffix.next # Bad
      <4>1. suffix.next \in (i + 1)..Len(text)
        BY <2>2, <3>2 DEF Leads
      <4> QED BY <3>2, <4>1, ScannedLeads
    <3> QED BY <3>1, <3>2
  <2>4. Leads(alone, i + 1)
    <3>1. i + 1 \in (i + 1)..Len(text)
      BY <1>1 DEF Pos
    <3> QED BY <3>1, ScannedLeads
  <2> HIDE DEF short, alone
  <2>5. ScanTag(i) \in {short, alone, Failed}
    BY <1>3, Zenon DEF ScanTag, short, alone, suffix, handle
  <2> QED BY <2>3, <2>4, <2>5, ScannedLeads
<1> QED BY <1>2, <1>3

\* The rest of the line of a directive.
LEMMA RestLeads ==
  ASSUME TextOK, NEW i \in Pos, NEW directive, directive.next \in i..Len(text), "next" \in DOMAIN directive
  PROVE  Leads([directive EXCEPT !.next = IgnoredLine(@)], i)
<1>1. directive.next \in Pos /\ i \in Nat
  BY DEF Pos, TextOK
<1>2. IgnoredLine(directive.next) \in (i..Len(text)) \cup {Bad}
  BY <1>1, IgnoredLineIs DEF TextOK
<1>3. [directive EXCEPT !.next = IgnoredLine(@)].next = IgnoredLine(directive.next)
  OBVIOUS
<1>4. "next" \in DOMAIN [directive EXCEPT !.next = IgnoredLine(@)]
  OBVIOUS
<1> QED BY <1>2, <1>3, <1>4 DEF Leads

LEMMA DirectiveLeads ==
  ASSUME TextOK, NEW i \in Pos, At(i) # "NUL"
  PROVE  Leads(ScanDirective(i), i + 1)
<1>1. i \in Nat /\ i + 1 \in Pos /\ Len(text) \in Nat
  BY Characters DEF Pos, TextOK
<1> DEFINE name == Skip(i + 1, WordChar)
           named == name > i + 1 /\ At(name) \in SpaceZ
           s == Skip(name, {" "})
           major == Skip(s, Digit)
           minor == Skip(major + 1, Digit)
           handle == TagHandle(s)
           prefix == ScanUri(Skip(handle, {" "}))
           yaml == Scanned([name |-> "YAML", major |-> Slice(Skip(s, {"0"}), major)], minor)
           tag == Scanned([name |-> "TAG", handle |-> Slice(s, handle), prefix |-> prefix.value], prefix.next)
           other == Scanned([name |-> "other"], Until(name, BreakZ))
           ofVersion == IF major > s /\ At(major) = "." /\ minor > major + 1 /\ At(minor) \in SpaceZ
                        THEN yaml ELSE Failed
           ofTag == IF handle # Bad /\ At(handle) = " " /\ prefix.next # Bad /\ At(prefix.next) \in SpaceZ
                    THEN tag ELSE Failed
           directive == CASE ~named -> Failed
                          [] named /\ Slice(i + 1, name) = <<"Y", "A", "M", "L">> -> ofVersion
                          [] named /\ Slice(i + 1, name) = <<"T", "A", "G">> -> ofTag
                          [] OTHER -> other
<1>2. ScanDirective(i) = IF directive.next = Bad THEN Failed ELSE [directive EXCEPT !.next = IgnoredLine(@)]
  BY Zenon DEF ScanDirective
<1>3. name \in (i + 1)..Len(text) /\ name \in Pos
  BY <1>1, SkipIs, NoNul DEF Pos
<1>4. s \in name..Len(text) /\ s \in Pos
  <2> HIDE DEF name
  <2>1. "NUL" \notin {" "}
    BY Zenon
  <2>2. s \in name..Len(text)
    BY <1>3, <2>1, SkipIs, Zenon
  <2> HIDE DEF s
  <2> QED BY <1>1, <1>3, <2>2 DEF Pos
<1> HIDE DEF name, s, directive, ofVersion, ofTag, other, tag, yaml
<1>5. directive \in {Failed, ofVersion, ofTag, other}
  BY Zenon DEF directive
<1>6. Leads(ofVersion, i + 1)
  <2>1. CASE ofVersion = Failed
    BY <2>1, ScannedLeads
  <2>2. CASE ofVersion # Failed
    <3>1. ofVersion = yaml /\ At(major) = "."
      BY <2>2, Zenon DEF ofVersion
    <3>2. major \in s..Len(text)
      BY <1>4, SkipIs, NoNul
    <3> HIDE DEF major
    <3>7. major \in Pos /\ major \in Nat
      BY <1>1, <1>4, <3>2 DEF Pos
    <3>3. At(major) # "NUL"
      BY <3>1
    <3>4. major + 1 \in Pos
      BY <3>3, <3>7, Characters
    <3>5. minor \in (major + 1)..Len(text)
      BY <3>4, SkipIs, NoNul
    <3> HIDE DEF minor
    <3>6. minor \in (i + 1)..Len(text)
      BY <1>1, <1>3, <1>4, <3>2, <3>5, <3>7
    <3> QED BY <3>1, <3>6, ScannedLeads DEF yaml
  <2> QED BY <2>1, <2>2
<1>7. Leads(ofTag, i + 1)
  <2>1. CASE ofTag = Failed
    BY <2>1, ScannedLeads
  <2>2. CASE ofTag # Failed
    <3>1. ofTag = tag /\ handle # Bad /\ prefix.next # Bad
      BY <2>2, Zenon DEF ofTag
    <3>2. handle \in (s + 1)..Len(text)
      BY <1>4, <3>1, TagHandleIs
    <3>3. handle \in Pos /\ handle \in Nat /\ i + 1 <= handle
      BY <1>1, <1>3, <1>4, <3>2 DEF Pos
    <3> HIDE DEF handle
    <3>4. PICK t : t = Skip(handle, {" "})
      OBVIOUS
    <3>5. t \in handle..Len(text)
      <4>1. "NUL" \notin {" "}
        BY Zenon
      <4> QED BY <3>3, <3>4, <4>1, SkipIs, Zenon
    <3>6. prefix = ScanUri(t)
      BY <3>4, Zenon
    <3> HIDE DEF prefix
    <3>7. t \in Pos /\ t \in Int /\ i + 1 <= t
      BY <1>1, <3>3, <3>5 DEF Pos
    <3>8. Leads(prefix, t)
      BY <3>6, <3>7, ScanUriLeads
    <3>9. prefix.next \in (i + 1)..Len(text)
      BY <1>1, <3>1, <3>7, <3>8 DEF Leads
    <3> QED BY <3>1, <3>9, ScannedLeads DEF tag
  <2> QED BY <2>1, <2>2
<1>8. Leads(other, i + 1)
  <2>1. Until(name, BreakZ) \in name..Len(text)
    BY <1>3, UntilIs, NoNul
  <2>2. Until(name, BreakZ) \in (i + 1)..Len(text)
    BY <1>1, <1>3, <2>1
  <2> QED BY <2>2, ScannedLeads DEF other
<1>9. Leads(directive, i + 1)
  BY <1>5, <1>6, <1>7, <1>8, ScannedLeads
<1>10. CASE directive.next = Bad
  BY <1>2, <1>10, ScannedLeads
<1>11. CASE directive.next # Bad
  <2>1. "next" \in DOMAIN directive /\ directive.next \in (i + 1)..Len(text)
    BY <1>9, <1>11 DEF Leads
  <2>2. Leads([directive EXCEPT !.next = IgnoredLine(@)], i + 1)
    BY <1>1, <2>1, RestLeads
  <2> QED BY <1>2, <1>11, <2>2
<1> QED BY <1>10, <1>11

-----------------------------------------------------------------------------
(***************************************************************************)
(* Quoted scalars.                                                         *)
(***************************************************************************)
QuoteMarks == {"'", "\""}
Blanks == {" ", "TAB"}

\* The escapes are characters of the text, not its end.
LEMMA Escapes ==
  /\ "NUL" \notin DOMAIN Replacement /\ "NUL" \notin Break \cup Blanks /\ "NUL" \notin QuoteMarks
  /\ DOMAIN CodeLength = {"x", "u", "U"}
  /\ CodeLength["x"] = 2 /\ CodeLength["u"] = 4 /\ CodeLength["U"] = 8
<1>1. "NUL" \notin DOMAIN Replacement
  <2>1. DOMAIN Replacement = {"0", "a", "b", "t", "TAB", "n", "v", "f", "r", "e", " ", "\"", "\\", "N", "_", "L", "P"}
    BY Zenon DEF Replacement
  <2> QED BY <2>1, Zenon
<1>2. "NUL" \notin Break \cup Blanks
  BY Zenon DEF Break, Blanks
<1>3. "NUL" \notin QuoteMarks
  BY Zenon DEF QuoteMarks
<1>4. /\ DOMAIN CodeLength = {"x", "u", "U"}
      /\ CodeLength["x"] = 2 /\ CodeLength["u"] = 4 /\ CodeLength["U"] = 8
  BY DEF CodeLength
<1> QED BY <1>1, <1>2, <1>3, <1>4, Zenon

LEMMA EscapesDiffer ==
  ASSUME NEW c
  PROVE  ~(c \in DOMAIN Replacement /\ c \in DOMAIN CodeLength)
         /\ ~(c \in Break /\ c \in DOMAIN Replacement) /\ ~(c \in Break /\ c \in DOMAIN CodeLength)
<1>1. DOMAIN Replacement = {"0", "a", "b", "t", "TAB", "n", "v", "f", "r", "e", " ", "\"", "\\", "N", "_", "L", "P"}
  BY Zenon DEF Replacement
<1>2. DOMAIN CodeLength = {"x", "u", "U"}
  BY Escapes
<1> QED BY <1>1, <1>2, Zenon DEF Break

LEMMA QuotedBreaksLead ==
  ASSUME TextOK, NEW i \in Pos
  PROVE  Leads(QuotedBreaks(i), i)
<1> PICK j : j = Skip(i, Break \cup Blanks)
  OBVIOUS
<1>1. j \in i..Len(text)
  BY SkipIs, Escapes
<1>2. QuotedBreaks(i) = Failed \/ QuotedBreaks(i) = Scanned(Breaks(i, j), j)
  BY Zenon DEF QuotedBreaks, Blanks
<1> QED BY <1>1, <1>2, ScannedLeads

\* An escape, blanks, and the characters of a quoted scalar from p on.
EscapeAt(f, p) ==
  LET escaped == At(p + 1)
      continued == QuotedBreaks(BreakEnd(p + 1))
      code == Prefix(p + 2, CodeLength[escaped])
  IN
  CASE escaped \in DOMAIN Replacement -> Join(<<Replacement[escaped]>>, f[p + 2])
    [] escaped \in DOMAIN CodeLength ->
         IF \A k \in DOMAIN code : code[k] \in Hex THEN Join(Chr(code), f[p + 2 + Len(code)]) ELSE Failed
    [] escaped \in Break ->
         IF continued.next = Bad THEN Failed ELSE Join(continued.value, f[continued.next])
    [] OTHER -> Failed

BlanksAt(f, p) ==
  LET w == Skip(p, Blanks)
      lines == QuotedBreaks(BreakEnd(w))
  IN
  CASE At(w) = "NUL" -> Failed
    [] At(w) \in Break ->
         IF lines.next = Bad THEN Failed ELSE Join(Fold(BreakValue(w), lines.value), f[lines.next])
    [] OTHER -> Join(Slice(p, w), f[w])

QuotedAt(f, p, quote, b) ==
  CASE At(p) = "NUL" -> Failed
    [] quote # "\"" /\ At(p) = "'" /\ At(p + 1) = "'" -> Join(<<"'">>, f[p + 2])
    [] At(p) = quote /\ (quote = "\"" \/ At(p + 1) # "'") -> Scanned(<<>>, p + 1)
    [] quote = "\"" /\ At(p) = "\\" -> EscapeAt(f, p)
    [] At(p) \in Break \cup Blanks -> BlanksAt(f, p)
    [] OTHER -> Join(<<At(p)>>, f[p + 1])

Quotes == INSTANCE Descent WITH Dom <- 0..Len(text), Rank <- Left, Body <- QuotedAt, Good <- Leads

LEMMA QuotedIs ==
  ASSUME NEW i
  PROVE  ScanQuoted(i) = Quotes!Fun(At(i), 0)[i + 1]
BY Zenon DEF ScanQuoted, Quotes!Fun, QuotedAt, EscapeAt, BlanksAt, Blanks, Pos

LEMMA EscapeSteps ==
  ASSUME TextOK, NEW p \in Pos, At(p) # "NUL"
  PROVE  \/ \A g : EscapeAt(g, p) = Failed
         \/ \E q \in (p + 1)..Len(text) : \E value : \A g : EscapeAt(g, p) = Join(value, g[q])
<1>1. p \in Nat /\ p + 1 \in Pos /\ p + 1 \in Nat /\ Len(text) \in Nat
  BY Characters DEF Pos, TextOK
<1> DEFINE escaped == At(p + 1)
           continued == QuotedBreaks(BreakEnd(p + 1))
           code == Prefix(p + 2, CodeLength[escaped])
<1>2. CASE escaped \in DOMAIN Replacement
  <2>1. \A g : EscapeAt(g, p) = Join(<<Replacement[escaped]>>, g[p + 2])
    BY <1>2, EscapesDiffer, Zenon DEF EscapeAt
  <2>2. escaped # "NUL"
    BY <1>2, Escapes, Zenon
  <2>3. p + 2 \in (p + 1)..Len(text)
    <3>1. (p + 1) + 1 \in Pos
      BY <1>1, <2>2, Characters
    <3> QED BY <1>1, <3>1 DEF Pos
  <2> QED BY <2>1, <2>3, Zenon
<1>3. CASE escaped \in DOMAIN CodeLength
  <2>1. \A g : EscapeAt(g, p) = IF \A k \in DOMAIN code : code[k] \in Hex
                                 THEN Join(Chr(code), g[p + 2 + Len(code)]) ELSE Failed
    BY <1>3, EscapesDiffer, Zenon DEF EscapeAt
  <2>2. CASE ~(\A k \in DOMAIN code : code[k] \in Hex)
    BY <2>1, <2>2, Zenon
  <2>3. CASE \A k \in DOMAIN code : code[k] \in Hex
    <3>1. PICK n \in Nat : n = CodeLength[escaped] /\ n >= 2
      BY <1>3, Escapes
    <3>2. DOMAIN code = 1..n /\ Len(code) = n /\ code[n] = At(p + 2 + n - 1)
      BY <3>1, <1>1 DEF Prefix
    <3> HIDE DEF code, escaped
    <3>3. At(p + 2 + n - 1) # "NUL"
      BY <2>3, <3>1, <3>2, NoNul
    <3>4. (p + 2 + n - 1) + 1 = p + 2 + n /\ p + 2 + n - 1 \in Nat
      BY <1>1, <3>1
    <3>5. p + 2 + n \in Pos
      BY <3>3, <3>4, Characters
    <3>6. p + 2 + Len(code) \in (p + 1)..Len(text)
      BY <1>1, <3>2, <3>5 DEF Pos
    <3>7. \A g : EscapeAt(g, p) = Join(Chr(code), g[p + 2 + Len(code)])
      BY <2>1, <2>3, Zenon
    <3> QED BY <3>6, <3>7, Zenon
  <2> QED BY <2>2, <2>3
<1>4. CASE escaped \in Break
  <2>1. \A g : EscapeAt(g, p) = IF continued.next = Bad THEN Failed ELSE Join(continued.value, g[continued.next])
    BY <1>4, EscapesDiffer, Zenon DEF EscapeAt
  <2>2. BreakEnd(p + 1) \in (p + 1)..Len(text) /\ BreakEnd(p + 1) \in Pos
    BY <1>1, BreakEndIs DEF Pos
  <2>3. Leads(continued, BreakEnd(p + 1))
    BY <2>2, QuotedBreaksLead
  <2> HIDE DEF continued
  <2>4. CASE continued.next = Bad
    BY <2>1, <2>4
  <2>5. CASE continued.next # Bad
    <3>1. continued.next \in (p + 1)..Len(text)
      BY <1>1, <2>2, <2>3, <2>5 DEF Leads
    <3>2. \A g : EscapeAt(g, p) = Join(continued.value, g[continued.next])
      BY <2>1, <2>5, Zenon
    <3> QED BY <3>1, <3>2, Zenon
  <2> QED BY <2>4, <2>5
<1>5. CASE escaped \notin DOMAIN Replacement /\ escaped \notin DOMAIN CodeLength /\ escaped \notin Break
  BY <1>5, Zenon DEF EscapeAt
<1> QED BY <1>2, <1>3, <1>4, <1>5, Zenon

LEMMA BlanksSteps ==
  ASSUME TextOK, NEW p \in Pos, At(p) \in Break \cup Blanks
  PROVE  \/ \A g : BlanksAt(g, p) = Failed
         \/ \E q \in (p + 1)..Len(text) : \E value : \A g : BlanksAt(g, p) = Join(value, g[q])
<1> DEFINE w == Skip(p, Blanks)
           lines == QuotedBreaks(BreakEnd(w))
<1>1. p \in Nat /\ Len(text) \in Nat
  BY DEF Pos, TextOK
<1>2. w \in p..Len(text) /\ w \in Pos /\ At(w) \notin Blanks
  BY <1>1, SkipIs, Escapes DEF Pos
<1>3. w \in Nat
  <2> HIDE DEF w
  <2> QED BY <1>1, <1>2 DEF Pos
<1>4. CASE At(w) = "NUL"
  <2>1. At(w) \notin Break
    BY <1>4, Escapes, Zenon
  <2> QED BY <1>4, <2>1, Zenon DEF BlanksAt
<1>5. CASE At(w) \in Break
  <2>1. \A g : BlanksAt(g, p) = IF lines.next = Bad THEN Failed
                                 ELSE Join(Fold(BreakValue(w), lines.value), g[lines.next])
    <3>1. At(w) # "NUL"
      BY <1>5, Escapes, Zenon
    <3> QED BY <1>5, <3>1, Zenon DEF BlanksAt
  <2>2. BreakEnd(w) \in (p + 1)..Len(text) /\ BreakEnd(w) \in Pos
    <3> HIDE DEF w
    <3>1. BreakEnd(w) \in w..Len(text) /\ BreakEnd(w) > w
      BY <1>2, <1>5, BreakEndIs
    <3> QED BY <1>1, <1>2, <1>3, <3>1 DEF Pos
  <2>3. Leads(lines, BreakEnd(w))
    BY <2>2, QuotedBreaksLead
  <2> HIDE DEF lines
  <2>4. CASE lines.next = Bad
    BY <2>1, <2>4, Zenon
  <2>5. CASE lines.next # Bad
    <3>1. lines.next \in (p + 1)..Len(text)
      <4> HIDE DEF w
      <4> QED BY <1>1, <2>2, <2>3, <2>5 DEF Leads
    <3>2. \A g : BlanksAt(g, p) = Join(Fold(BreakValue(w), lines.value), g[lines.next])
      BY <2>1, <2>5, Zenon
    <3> QED BY <3>1, <3>2, Zenon
  <2> QED BY <2>4, <2>5
<1>6. CASE At(w) # "NUL" /\ At(w) \notin Break
  <2>1. \A g : BlanksAt(g, p) = Join(Slice(p, w), g[w])
    BY <1>6, Zenon DEF BlanksAt
  <2>2. w # p
    BY <1>2, <1>6, Zenon
  <2>3. w \in (p + 1)..Len(text)
    <3> HIDE DEF w
    <3> QED BY <1>1, <1>2, <2>2
  <2> QED BY <2>1, <2>3, Zenon
<1> QED BY <1>4, <1>5, <1>6

LEMMA QuotedSteps ==
  ASSUME TextOK, NEW p \in Pos, NEW quote \in QuoteMarks
  PROVE  \/ \A g : QuotedAt(g, p, quote, 0) = Failed
         \/ p + 1 \in Pos /\ \A g : QuotedAt(g, p, quote, 0) = Scanned(<<>>, p + 1)
         \/ \E q \in (p + 1)..Len(text) : \E value : \A g : QuotedAt(g, p, quote, 0) = Join(value, g[q])
<1>1. p \in Nat /\ p + 1 \in Nat /\ Len(text) \in Nat
  BY DEF Pos, TextOK
<1>2. quote # "NUL" /\ At(p) # "NUL" => p + 1 \in (p + 1)..Len(text)
  BY <1>1, Characters DEF Pos
<1> DEFINE double == quote = "\""
           doubled == ~double /\ At(p) = "'" /\ At(p + 1) = "'"
           ends == At(p) = quote /\ (double \/ At(p + 1) # "'")
           escape == double /\ At(p) = "\\"
           blank == At(p) \in Break \cup Blanks
<1>3. quote # "NUL" /\ quote \notin Break \cup Blanks /\ quote # "\\"
  BY Zenon DEF QuoteMarks, Break, Blanks
<1>4. "'" \notin Break \cup Blanks /\ "\\" \notin Break \cup Blanks /\ "NUL" \notin Break \cup Blanks
  BY Zenon DEF Break, Blanks
<1>5. CASE At(p) = "NUL"
  <2>1. ~doubled /\ ~ends /\ ~escape /\ ~blank
    BY <1>3, <1>4, <1>5, Zenon
  <2> QED BY <1>5, <2>1, Zenon DEF QuotedAt
<1>6. CASE doubled
  <2>1. At(p) # "NUL" /\ ~ends /\ ~escape /\ ~blank
    BY <1>4, <1>6, Zenon
  <2>2. \A g : QuotedAt(g, p, quote, 0) = Join(<<"'">>, g[p + 2])
    BY <1>6, <2>1, Zenon DEF QuotedAt
  <2>3. At(p + 1) # "NUL"
    BY <1>6, Zenon
  <2>4. p + 2 \in (p + 1)..Len(text)
    <3> HIDE DEF doubled, ends, escape, blank
    <3>1. (p + 1) + 1 \in Pos
      BY <1>1, <2>3, Characters
    <3> QED BY <1>1, <3>1 DEF Pos
  <2> QED BY <2>2, <2>4, Zenon
<1>7. CASE ends
  <2>1. At(p) # "NUL" /\ ~doubled /\ ~escape /\ ~blank
    BY <1>3, <1>7, Zenon
  <2>2. \A g : QuotedAt(g, p, quote, 0) = Scanned(<<>>, p + 1)
    BY <1>7, <2>1, Zenon DEF QuotedAt
  <2>3. p + 1 \in Pos
    BY <1>1, <2>1, Characters, Zenon
  <2> QED BY <2>2, <2>3, Zenon
<1>8. CASE escape
  <2>1. At(p) # "NUL" /\ ~doubled /\ ~ends /\ ~blank
    BY <1>3, <1>4, <1>8, Zenon
  <2>2. \A g : QuotedAt(g, p, quote, 0) = EscapeAt(g, p)
    BY <1>8, <2>1, Zenon DEF QuotedAt
  <2> QED BY <2>1, <2>2, EscapeSteps, Zenon
<1>9. CASE blank
  <2>1. At(p) # "NUL" /\ ~doubled /\ ~ends /\ ~escape
    BY <1>3, <1>4, <1>9, Zenon
  <2>2. \A g : QuotedAt(g, p, quote, 0) = BlanksAt(g, p)
    BY <1>9, <2>1, Zenon DEF QuotedAt
  <2> QED BY <1>9, <2>2, BlanksSteps, Zenon
<1>10. CASE At(p) # "NUL" /\ ~doubled /\ ~ends /\ ~escape /\ ~blank
  <2>1. \A g : QuotedAt(g, p, quote, 0) = Join(<<At(p)>>, g[p + 1])
    BY <1>10, Zenon DEF QuotedAt
  <2> QED BY <1>2, <1>3, <1>10, <2>1, Zenon
<1> QED BY <1>5, <1>6, <1>7, <1>8, <1>9, <1>10, Zenon

LEMMA QuotedLeads ==
  ASSUME TextOK, NEW i \in Nat, At(i) \in QuoteMarks
  PROVE  Leads(ScanQuoted(i), i + 1)
<1>1. i + 1 \in Pos /\ Len(text) \in Nat
  BY Characters, Escapes DEF TextOK
<1> DEFINE quote == At(i)
<1>2. Quotes!Steps(quote, 0)
  <2> HIDE DEF quote
  <2> SUFFICES ASSUME NEW p \in 0..Len(text), NEW f
               PROVE  \/ /\ Leads(QuotedAt(f, p, quote, 0), p)
                         /\ \A g : QuotedAt(g, p, quote, 0) = QuotedAt(f, p, quote, 0)
                      \/ \E q \in (p + 1)..Len(text) :
                           /\ Leads(f[q], q) => Leads(QuotedAt(f, p, quote, 0), p)
                           /\ \A g : g[q] = f[q] => QuotedAt(g, p, quote, 0) = QuotedAt(f, p, quote, 0)
    BY Ahead, Zenon DEF Quotes!Steps
  <2>1. p \in Pos /\ p \in Nat /\ quote \in QuoteMarks
    BY <1>1 DEF Pos, quote
  <2>2. CASE \A g : QuotedAt(g, p, quote, 0) = Failed
    BY <2>2, ScannedLeads, Zenon
  <2>3. CASE p + 1 \in Pos /\ \A g : QuotedAt(g, p, quote, 0) = Scanned(<<>>, p + 1)
    <3>1. p + 1 \in p..Len(text)
      BY <1>1, <2>1, <2>3 DEF Pos
    <3>2. Leads(Scanned(<<>>, p + 1), p)
      BY <3>1, ScannedLeads
    <3> QED BY <2>3, <3>2, Zenon
  <2>4. CASE \E q \in (p + 1)..Len(text) : \E value : \A g : QuotedAt(g, p, quote, 0) = Join(value, g[q])
    <3> PICK q \in (p + 1)..Len(text) : \E value : \A g : QuotedAt(g, p, quote, 0) = Join(value, g[q])
      BY <2>4
    <3> PICK value : \A g : QuotedAt(g, p, quote, 0) = Join(value, g[q])
      OBVIOUS
    <3>1. q \in Int /\ p <= q
      BY <1>1, <2>1
    <3>2. ASSUME Leads(f[q], q) PROVE Leads(Join(value, f[q]), p)
      <4>1. Leads(Join(value, f[q]), q)
        BY <3>2, JoinLeads, Zenon
      <4>2. p \in Int
        BY <2>1, <3>1
      <4> QED BY <2>1, <3>1, <4>1, <4>2, LeadsFrom, Zenon
    <3> QED BY <3>2, Zenon
  <2> QED BY <2>1, <2>2, <2>3, <2>4, QuotedSteps, Zenon
<1>3. Leads(Quotes!Fun(quote, 0)[i + 1], i + 1)
  BY <1>1, <1>2, Quotes!AllGood, Ahead DEF Quotes!Ranked, Pos
<1> QED BY <1>3, QuotedIs

-----------------------------------------------------------------------------
(***************************************************************************)
(* Plain scalars.                                                          *)
(***************************************************************************)
LEMMA PlainSpacesLead ==
  ASSUME TextOK, NEW i \in Pos
  PROVE  PlainSpaces(i).next \in i..Len(text)
<1>0. PICK w, b, j : w = Skip(i, {" "}) /\ b = BreakEnd(w) /\ j = Skip(b, Break \cup {" "})
  OBVIOUS
<1>1. "NUL" \notin {" "} /\ "NUL" \notin Break \cup {" "}
  BY Zenon DEF Break
<1>2. w \in i..Len(text)
  BY <1>0, <1>1, SkipIs, Zenon
<1>3. i \in Nat /\ Len(text) \in Nat /\ w \in Pos
  BY <1>2 DEF Pos, TextOK
<1>10. b = BreakEnd(w)
  BY <1>0, Zenon
<1>4. b \in w..Len(text) /\ b \in Pos
  BY <1>3, <1>10, BreakEndIs DEF Pos
<1>5. j \in b..Len(text)
  BY <1>0, <1>1, <1>4, SkipIs, Zenon
<1>6. w \in i..Len(text) /\ b \in i..Len(text) /\ j \in i..Len(text)
  BY <1>2, <1>3, <1>4, <1>5 DEF Pos
<1>7. PlainSpaces(i) = SpacesTo(i, w, b)
  BY <1>0, Zenon DEF PlainSpaces
<1>8. \E value : \E next \in {w, b, j} : SpacesTo(i, w, b) = Scanned(value, next)
  BY <1>0, Zenon DEF SpacesTo
<1> PICK value, next : next \in {w, b, j} /\ SpacesTo(i, w, b) = Scanned(value, next)
  BY <1>8, Zenon
<1>9. Scanned(value, next).next = next
  BY ScannedLeads, Zenon
<1> QED BY <1>6, <1>7, <1>9

LEMMA WordEndIs ==
  ASSUME TextOK, NEW p \in Pos, NEW level
  PROVE  WordEnd(p, level) \in p..Len(text) /\ EndsWord(WordEnd(p, level), level)
<1> DEFINE T == {j \in Pos : EndsWord(j, level)}
<1>1. Len(text) \in T
  <2>1. Len(text) \in Pos /\ At(Len(text)) = "NUL"
    BY Characters DEF TextOK, Pos
  <2>2. EndsWord(Len(text), level)
    BY <2>1, NoNul, Zenon DEF EndsWord
  <2> QED BY <2>1, <2>2
<1>2. \E j \in p..Len(text) : j \in T /\ \A k \in p..(j - 1) : k \notin T
  <2> HIDE DEF T
  <2> QED BY <1>1, FirstFrom DEF TextOK, Pos
<1>3. \E j \in p..Len(text) : EndsWord(j, level) /\ \A k \in p..(j - 1) : ~EndsWord(k, level)
  BY <1>2 DEF TextOK, Pos
<1> QED BY <1>3, Zenon DEF WordEnd

LEMMA WordLeads ==
  ASSUME TextOK, NEW word, NEW e, NEW spaces, spaces.next \in Pos, NEW level, NEW indent,
         NEW rest, Leads(rest, spaces.next)
  PROVE  Leads(Word(word, e, spaces, level, indent, rest), spaces.next)
<1> PICK j : j = spaces.next
  OBVIOUS
<1> DEFINE allows == \E k \in e..(j - 1) : At(k) \in Break
<1>1. Leads([value |-> word, next |-> j, words |-> 1, allow |-> allows], j)
  <2> HIDE DEF allows
  <2>1. j \in j..Len(text)
    BY DEF Pos, TextOK
  <2> QED BY <2>1 DEF Leads
<1>2. Leads(Following(word, spaces, allows, rest), j)
  <2> HIDE DEF allows
  <2> DEFINE record == [value |-> word, next |-> rest.next, words |-> 1, allow |-> allows]
  <2>1. Leads(record, j)
    BY DEF Leads
  <2>2. Leads(Join(word \o spaces.value, rest), j)
    BY JoinLeads
  <2>3. Leads(Failed, j)
    BY ScannedLeads, Zenon
  <2>4. \/ Following(word, spaces, allows, rest) = Failed
        \/ Following(word, spaces, allows, rest) = record
        \/ Following(word, spaces, allows, rest) = Join(word \o spaces.value, rest)
    BY Zenon DEF Following
  <2> HIDE DEF record
  <2> QED BY <2>1, <2>2, <2>3, <2>4, Zenon
<1>3. \/ Word(word, e, spaces, level, indent, rest) = [value |-> word, next |-> j, words |-> 1, allow |-> allows]
      \/ Word(word, e, spaces, level, indent, rest) = Following(word, spaces, allows, rest)
  BY Zenon DEF Word
<1> QED BY <1>1, <1>2, <1>3, Zenon

\* The words of a plain scalar, from p on.
PlainAt(f, p, level, indent) ==
  LET e == WordEnd(p, level)
      spaces == PlainSpaces(e)
      colon == /\ At(p) # "#" /\ level # 0 /\ At(e) = ":"
               /\ At(e + 1) \notin BlankZ \cup {",", "[", "]", "{", "}"}
  IN
  CASE colon -> Failed
    [] ~colon /\ (e = p \/ At(p) = "#") -> [value |-> <<>>, next |-> p, words |-> 0, allow |-> FALSE]
    [] OTHER -> Word(Slice(p, e), e, spaces, level, indent, f[spaces.next])

Plains == INSTANCE Descent WITH Dom <- 0..Len(text), Rank <- Left, Body <- PlainAt, Good <- Leads

NoWord(p, level, indent) ==
  \A g : PlainAt(g, p, level, indent) = [value |-> <<>>, next |-> p, words |-> 0, allow |-> FALSE]
OneWord(p, level, indent) ==
  \E q \in (p + 1)..Len(text) : \E e, spaces :
    /\ spaces.next = q
    /\ \A g : PlainAt(g, p, level, indent) = Word(Slice(p, e), e, spaces, level, indent, g[q])

\* A position fails, holds no word, or holds a word behind which to go on.
LEMMA PlainIs ==
  ASSUME TextOK, NEW p \in Pos, NEW level, NEW indent
  PROVE  \/ \A g : PlainAt(g, p, level, indent) = Failed
         \/ (EndsWord(p, level) \/ At(p) = "#") /\ NoWord(p, level, indent)
         \/ OneWord(p, level, indent)
<1> DEFINE e == WordEnd(p, level)
           spaces == PlainSpaces(e)
           colon == /\ At(p) # "#" /\ level # 0 /\ At(e) = ":"
                    /\ At(e + 1) \notin BlankZ \cup {",", "[", "]", "{", "}"}
<1>1. \A g : PlainAt(g, p, level, indent) =
        CASE colon -> Failed
          [] ~colon /\ (e = p \/ At(p) = "#") -> [value |-> <<>>, next |-> p, words |-> 0, allow |-> FALSE]
          [] OTHER -> Word(Slice(p, e), e, spaces, level, indent, g[spaces.next])
  BY Zenon DEF PlainAt
<1>2. e \in p..Len(text) /\ EndsWord(e, level)
  BY WordEndIs
<1>3. p \in Nat /\ Len(text) \in Nat /\ e \in Pos
  <2> HIDE DEF e
  <2> QED BY <1>2 DEF Pos, TextOK
<1>4. spaces.next \in e..Len(text)
  BY <1>3, PlainSpacesLead
<1> HIDE DEF colon, spaces, e
<1>5. CASE colon
  BY <1>1, <1>5, Zenon
<1>6. CASE ~colon /\ (e = p \/ At(p) = "#")
  BY <1>1, <1>2, <1>6, Zenon DEF NoWord
<1>7. CASE ~colon /\ ~(e = p \/ At(p) = "#")
  <2>1. \A g : PlainAt(g, p, level, indent) = Word(Slice(p, e), e, spaces, level, indent, g[spaces.next])
    BY <1>1, <1>7, Zenon
  <2>2. spaces.next \in (p + 1)..Len(text)
    BY <1>2, <1>3, <1>4, <1>7
  <2> QED BY <2>1, <2>2, Zenon DEF OneWord
<1> QED BY <1>5, <1>6, <1>7, Zenon

LEMMA PlainSteps ==
  ASSUME TextOK, NEW level, NEW indent
  PROVE  Plains!Steps(level, indent)
<1> SUFFICES ASSUME NEW p \in 0..Len(text), NEW f
             PROVE  \/ /\ Leads(PlainAt(f, p, level, indent), p)
                       /\ \A g : PlainAt(g, p, level, indent) = PlainAt(f, p, level, indent)
                    \/ \E q \in (p + 1)..Len(text) :
                         /\ Leads(f[q], q) => Leads(PlainAt(f, p, level, indent), p)
                         /\ \A g : g[q] = f[q] => PlainAt(g, p, level, indent) = PlainAt(f, p, level, indent)
  BY Ahead, Zenon DEF Plains!Steps
<1>1. p \in Pos /\ p \in Nat /\ Len(text) \in Nat
  BY DEF Pos, TextOK
<1>2. CASE \A g : PlainAt(g, p, level, indent) = Failed
  BY <1>2, ScannedLeads, Zenon
<1>3. CASE NoWord(p, level, indent)
  <2> DEFINE none == [value |-> <<>>, next |-> p, words |-> 0, allow |-> FALSE]
  <2>1. Leads(none, p)
    BY <1>1 DEF Leads
  <2>2. \A g : PlainAt(g, p, level, indent) = none
    BY <1>3, Zenon DEF NoWord
  <2> HIDE DEF none
  <2> QED BY <2>1, <2>2, Zenon
<1>4. CASE OneWord(p, level, indent)
  <2> PICK q \in (p + 1)..Len(text) : \E e, spaces :
             /\ spaces.next = q
             /\ \A g : PlainAt(g, p, level, indent) = Word(Slice(p, e), e, spaces, level, indent, g[q])
    BY <1>4, Zenon DEF OneWord
  <2> PICK e, spaces : /\ spaces.next = q
             /\ \A g : PlainAt(g, p, level, indent) = Word(Slice(p, e), e, spaces, level, indent, g[q])
    OBVIOUS
  <2>1. q \in Int /\ p <= q /\ q \in Pos
    BY <1>1 DEF Pos
  <2>2. ASSUME Leads(f[q], q) PROVE Leads(Word(Slice(p, e), e, spaces, level, indent, f[q]), p)
    <3>1. Leads(Word(Slice(p, e), e, spaces, level, indent, f[q]), q)
      BY <2>1, <2>2, WordLeads
    <3> QED BY <1>1, <2>1, <3>1, LeadsFrom
  <2>3. \A g : g[q] = f[q] => PlainAt(g, p, level, indent) = PlainAt(f, p, level, indent)
    OBVIOUS
  <2>4. PlainAt(f, p, level, indent) = Word(Slice(p, e), e, spaces, level, indent, f[q])
    OBVIOUS
  <2> QED BY <2>2, <2>3, <2>4
<1> QED BY <1>1, <1>2, <1>3, <1>4, PlainIs, Zenon

LEMMA PlainLeads ==
  ASSUME TextOK, NEW i \in Pos, NEW level, NEW indent, ~EndsWord(i, level), At(i) # "#"
  PROVE  Leads(ScanPlain(i, level, indent), i + 1)
<1> DEFINE f == Plains!Fun(level, indent)
<1>1. ScanPlain(i, level, indent) = f[i]
  BY Zenon DEF ScanPlain, Words, Plains!Fun, PlainAt, Pos
<1>2. f = [p \in 0..Len(text) |-> PlainAt(f, p, level, indent)]
  BY PlainSteps, Plains!Defined, Ahead DEF Plains!Ranked, TextOK
<1>3. \A p \in 0..Len(text) : Leads(f[p], p)
  BY PlainSteps, Plains!AllGood, Ahead DEF Plains!Ranked, TextOK
<1> HIDE DEF f
<1>4. f[i] = PlainAt(f, i, level, indent) /\ i \in Nat /\ Len(text) \in Nat
  BY <1>2 DEF Pos, TextOK
<1>5. CASE \A g : PlainAt(g, i, level, indent) = Failed
  BY <1>1, <1>4, <1>5, ScannedLeads, Zenon
<1>6. CASE OneWord(i, level, indent)
  <2> PICK q \in (i + 1)..Len(text) : \E e, spaces :
             /\ spaces.next = q
             /\ \A g : PlainAt(g, i, level, indent) = Word(Slice(i, e), e, spaces, level, indent, g[q])
    BY <1>6, Zenon DEF OneWord
  <2> PICK e, spaces : /\ spaces.next = q
             /\ \A g : PlainAt(g, i, level, indent) = Word(Slice(i, e), e, spaces, level, indent, g[q])
    OBVIOUS
  <2>1. q \in Int /\ i + 1 <= q /\ q \in Pos /\ i + 1 \in Int
    BY <1>4 DEF Pos
  <2>2. Leads(f[q], q)
    BY <1>3, <2>1 DEF Pos
  <2>3. Leads(Word(Slice(i, e), e, spaces, level, indent, f[q]), q)
    BY <2>1, <2>2, WordLeads
  <2>4. Leads(Word(Slice(i, e), e, spaces, level, indent, f[q]), i + 1)
    BY <2>1, <2>3, LeadsFrom
  <2>5. PlainAt(f, i, level, indent) = Word(Slice(i, e), e, spaces, level, indent, f[q])
    OBVIOUS
  <2> QED BY <1>1, <1>4, <2>4, <2>5
<1> QED BY <1>5, <1>6, PlainIs, Zenon

-----------------------------------------------------------------------------
(***************************************************************************)
(* Block scalars.                                                          *)
(***************************************************************************)
LEMMA MarginIs ==
  ASSUME TextOK, NEW p \in Pos, NEW inner
  PROVE  Margin(p, inner) \in p..Len(text) /\ (At(p) = "NUL" => Margin(p, inner) = p)
<1>1. \A k : At(k) = "NUL" => ~InMargin(k, inner)
  BY Zenon DEF InMargin
<1> DEFINE T == {j \in Pos : ~InMargin(j, inner)}
<1>2. Len(text) \in T
  <2>1. Len(text) \in Pos /\ At(Len(text)) = "NUL"
    BY Characters DEF TextOK, Pos
  <2> QED BY <1>1, <2>1
<1>3. \E j \in p..Len(text) : j \in T /\ \A k \in p..(j - 1) : k \notin T
  <2> HIDE DEF T
  <2> QED BY <1>2, FirstFrom DEF TextOK, Pos
<1>4. \E j \in p..Len(text) : ~InMargin(j, inner) /\ \A k \in p..(j - 1) : InMargin(k, inner)
  BY <1>3 DEF TextOK, Pos
<1>5. /\ Margin(p, inner) \in p..Len(text)
      /\ \A k \in p..(Margin(p, inner) - 1) : InMargin(k, inner)
  BY <1>4, Zenon DEF Margin
<1>6. p \in Nat /\ Len(text) \in Nat
  BY DEF Pos, TextOK
<1> QED BY <1>1, <1>5, <1>6

\* The empty lines from p on.
EmptiesAt(f, p, inner, b) ==
  LET j == Margin(p, inner) IN IF At(j) \in Break THEN f[BreakEnd(j)] ELSE j

EmptyLines == INSTANCE Descent WITH Dom <- 0..Len(text), Rank <- Left, Body <- EmptiesAt, Good <- BehindOf

LEMMA EmptiesSteps ==
  ASSUME TextOK, NEW inner
  PROVE  EmptyLines!Steps(inner, 0)
<1> SUFFICES ASSUME NEW p \in 0..Len(text), NEW f
             PROVE  \/ /\ BehindOf(EmptiesAt(f, p, inner, 0), p)
                       /\ \A g : EmptiesAt(g, p, inner, 0) = EmptiesAt(f, p, inner, 0)
                    \/ \E q \in (p + 1)..Len(text) :
                         /\ BehindOf(f[q], q) => BehindOf(EmptiesAt(f, p, inner, 0), p)
                         /\ \A g : g[q] = f[q] => EmptiesAt(g, p, inner, 0) = EmptiesAt(f, p, inner, 0)
  BY Ahead DEF EmptyLines!Steps
<1> PICK j : j = Margin(p, inner)
  OBVIOUS
<1>1. p \in Pos /\ p \in Nat /\ Len(text) \in Nat
  BY DEF Pos, TextOK
<1>2. j \in p..Len(text)
  BY <1>1, MarginIs
<1>3. j \in Pos
  BY <1>1, <1>2 DEF Pos
<1>4. CASE At(j) \in Break
  <2>1. BreakEnd(j) \in (p + 1)..Len(text)
    BY <1>1, <1>2, <1>3, <1>4, BreakEndIs
  <2>2. \A g : EmptiesAt(g, p, inner, 0) = g[BreakEnd(j)]
    BY <1>4 DEF EmptiesAt
  <2>3. BehindOf(f[BreakEnd(j)], BreakEnd(j)) => BehindOf(EmptiesAt(f, p, inner, 0), p)
    BY <1>1, <2>1, <2>2 DEF BehindOf
  <2> QED BY <2>1, <2>2, <2>3
<1>5. CASE At(j) \notin Break
  <2>1. \A g : EmptiesAt(g, p, inner, 0) = j
    BY <1>5 DEF EmptiesAt
  <2> QED BY <1>2, <2>1 DEF BehindOf
<1> QED BY <1>4, <1>5

LEMMA EmptiesIs ==
  ASSUME TextOK, NEW i \in Pos, NEW inner
  PROVE  Empties(i, inner) \in i..Len(text) /\ (At(i) = "NUL" => Empties(i, inner) = i)
<1> DEFINE f == EmptyLines!Fun(inner, 0)
<1>1. Empties(i, inner) = f[i]
  BY Zenon DEF Empties, EmptyLines!Fun, EmptiesAt, Pos
<1>2. BehindOf(f[i], i)
  BY EmptiesSteps, EmptyLines!AllGood, Ahead DEF EmptyLines!Ranked, TextOK, Pos
<1>3. f = [p \in 0..Len(text) |-> EmptiesAt(f, p, inner, 0)]
  BY EmptiesSteps, EmptyLines!Defined, Ahead DEF EmptyLines!Ranked, TextOK
<1> HIDE DEF f
<1>4. f[i] = EmptiesAt(f, i, inner, 0)
  BY <1>3 DEF Pos
<1>5. ASSUME At(i) = "NUL" PROVE EmptiesAt(f, i, inner, 0) = i
  BY <1>5, MarginIs, NoNul DEF EmptiesAt
<1> QED BY <1>1, <1>2, <1>4, <1>5 DEF BehindOf

\* The lines of a block scalar, from p on.
LineAt(f, p, h, inner) ==
  LET e == Until(p, BreakZ)
      j == Empties(BreakEnd(e), inner)
      break == BreakValue(e)
      others == Breaks(BreakEnd(e), j)
      fold == h.folded /\ break = <<"LF">> /\ {At(p), At(j)} \cap {" ", "TAB"} = {}
  IN IF InBlock(j, inner)
     THEN Join(Slice(p, e) \o (IF fold THEN Fold(break, others) ELSE break \o others), f[j])
     ELSE Scanned(Slice(p, e) \o Chomped(h.chomp, break, others), j)

Block == INSTANCE Descent WITH Dom <- 0..Len(text), Rank <- Left, Body <- LineAt, Good <- Leads

\* A line ends the scalar or is followed by another one.
LineEnds(p, h, inner) ==
  \E j \in p..Len(text) : \E value : \A g : LineAt(g, p, h, inner) = Scanned(value, j)
LineGoesOn(p, h, inner) ==
  \E j \in (p + 1)..Len(text) : \E value : \A g : LineAt(g, p, h, inner) = Join(value, g[j])

LEMMA LineIs ==
  ASSUME TextOK, NEW p \in Pos, NEW h, NEW inner
  PROVE  LineEnds(p, h, inner) \/ LineGoesOn(p, h, inner)
<1> PICK e : e = Until(p, BreakZ)
  OBVIOUS
<1> PICK j : j = Empties(BreakEnd(e), inner)
  OBVIOUS
<1>1. p \in Nat /\ Len(text) \in Nat
  BY DEF Pos, TextOK
<1>2. e \in p..Len(text) /\ At(e) \in BreakZ
  BY UntilIs, NoNul
<1>3. e \in Pos /\ e \in Nat
  BY <1>1, <1>2 DEF Pos
<1>4. BreakEnd(e) \in e..Len(text) /\ BreakEnd(e) \in Pos /\ BreakEnd(e) \in Nat
      /\ (At(e) \in Break => BreakEnd(e) > e) /\ (At(e) \notin Break => BreakEnd(e) = e)
  BY <1>3, BreakEndIs DEF Pos
<1>5. j \in BreakEnd(e)..Len(text) /\ (At(BreakEnd(e)) = "NUL" => j = BreakEnd(e))
  BY <1>4, EmptiesIs
<1>6. j \in p..Len(text)
  BY <1>1, <1>2, <1>3, <1>4, <1>5
<1>7. CASE ~InBlock(j, inner)
  <2>1. \E value : \A g : LineAt(g, p, h, inner) = Scanned(value, j)
    BY <1>7, Zenon DEF LineAt
  <2> QED BY <1>6, <2>1, Zenon DEF LineEnds
<1>8. CASE InBlock(j, inner)
  <2>1. \E value : \A g : LineAt(g, p, h, inner) = Join(value, g[j])
    BY <1>8, Zenon DEF LineAt
  <2>2. At(j) # "NUL"
    BY <1>8 DEF InBlock
  <2>3. j # p
    <3> SUFFICES ASSUME j = p PROVE FALSE
      OBVIOUS
    <3>1. e = p /\ BreakEnd(e) = p /\ At(e) \notin Break
      BY <1>1, <1>2, <1>3, <1>4, <1>5
    <3>2. At(e) = "NUL"
      BY <1>2, <3>1 DEF BreakZ
    <3> QED BY <2>2, <3>1, <3>2
  <2>4. j \in (p + 1)..Len(text)
    BY <1>1, <1>6, <2>3
  <2> QED BY <2>1, <2>4, Zenon DEF LineGoesOn
<1> QED BY <1>7, <1>8

LEMMA LineSteps ==
  ASSUME TextOK, NEW h, NEW inner
  PROVE  Block!Steps(h, inner)
<1> SUFFICES ASSUME NEW p \in 0..Len(text), NEW f
             PROVE  \/ /\ Leads(LineAt(f, p, h, inner), p)
                       /\ \A g : LineAt(g, p, h, inner) = LineAt(f, p, h, inner)
                    \/ \E q \in (p + 1)..Len(text) :
                         /\ Leads(f[q], q) => Leads(LineAt(f, p, h, inner), p)
                         /\ \A g : g[q] = f[q] => LineAt(g, p, h, inner) = LineAt(f, p, h, inner)
  BY Ahead, Zenon DEF Block!Steps
<1>1. p \in Pos /\ p \in Nat /\ Len(text) \in Nat
  BY DEF Pos, TextOK
<1>2. CASE LineEnds(p, h, inner)
  <2> PICK j \in p..Len(text) : \E value : \A g : LineAt(g, p, h, inner) = Scanned(value, j)
    BY <1>2, Zenon DEF LineEnds
  <2> PICK value : \A g : LineAt(g, p, h, inner) = Scanned(value, j)
    OBVIOUS
  <2>1. Leads(Scanned(value, j), p)
    BY ScannedLeads
  <2> QED BY <2>1, Zenon
<1>3. CASE LineGoesOn(p, h, inner)
  <2> PICK q \in (p + 1)..Len(text) : \E value : \A g : LineAt(g, p, h, inner) = Join(value, g[q])
    BY <1>3, Zenon DEF LineGoesOn
  <2> PICK value : \A g : LineAt(g, p, h, inner) = Join(value, g[q])
    OBVIOUS
  <2>1. q \in Int /\ p <= q
    BY <1>1
  <2>2. ASSUME Leads(f[q], q) PROVE Leads(Join(value, f[q]), p)
    <3>1. Leads(Join(value, f[q]), q)
      BY <2>2, JoinLeads, Zenon
    <3>2. p \in Int
      BY <1>1, <2>1
    <3> QED BY <1>1, <2>1, <3>1, <3>2, LeadsFrom, Zenon
  <2>3. \A g : g[q] = f[q] => LineAt(g, p, h, inner) = LineAt(f, p, h, inner)
    OBVIOUS
  <2>4. LineAt(f, p, h, inner) = Join(value, f[q])
    OBVIOUS
  <2> QED BY <2>2, <2>3, <2>4
<1> QED BY <1>1, <1>2, <1>3, LineIs, Zenon

LEMMA BlockLinesLead ==
  ASSUME TextOK, NEW i \in Pos, NEW h, NEW inner
  PROVE  Leads(BlockLines(i, h, inner), i)
<1>1. BlockLines(i, h, inner) = Block!Fun(h, inner)[i]
  BY Zenon DEF BlockLines, Block!Fun, LineAt, Pos
<1>2. Leads(Block!Fun(h, inner)[i], i)
  BY LineSteps, Block!AllGood, Ahead DEF Block!Ranked, TextOK, Pos
<1> QED BY <1>1, <1>2

\* The indicators of the header are characters of the text.
LEMMA HeaderIs ==
  ASSUME TextOK, NEW i \in Pos, NEW folded
  PROVE  Header(i, folded).next \in (i..Len(text)) \cup {Bad}
<1> DEFINE Sign(c) == c \in {"+", "-"}
           signs == {k \in i..(i + 1) : Sign(At(k)) /\ (k = i \/ At(i) \in Digit)}
           digits == {k \in i..(i + 1) : At(k) \in Digit /\ (k = i \/ Sign(At(i)))}
           end == i + Cardinality(signs) + Cardinality(digits)
<1>1. Header(i, folded).next = IF At(end) \notin SpaceZ \/ \E k \in digits : At(k) = "0" THEN Bad
                                ELSE IgnoredLine(end)
  BY DEF Header
<1>2. ~Sign("NUL") /\ "NUL" \notin Digit /\ \A c : ~(Sign(c) /\ c \in Digit)
  BY Zenon DEF Digit
<1> HIDE DEF Sign
<1>3. i \in Nat /\ Len(text) \in Nat /\ i..(i + 1) = {i, i + 1}
  BY DEF Pos, TextOK
<1>4. signs \cap digits = {}
  BY <1>2
<1>5. \/ signs \cup digits = {}
      \/ signs \cup digits = {i} /\ At(i) # "NUL"
      \/ signs \cup digits = {i, i + 1} /\ At(i + 1) # "NUL"
  <2>1. signs \cup digits \subseteq {i, i + 1}
    BY <1>3
  <2>2. i + 1 \in signs \cup digits => i \in signs \cup digits
    BY <1>3
  <2>3. i \in signs \cup digits => At(i) # "NUL"
    BY <1>2
  <2>4. i + 1 \in signs \cup digits => At(i + 1) # "NUL"
    BY <1>2
  <2> HIDE DEF signs, digits
  <2> QED BY <2>1, <2>2, <2>3, <2>4
<1>6. IsFiniteSet(signs) /\ IsFiniteSet(digits)
  <2>1. IsFiniteSet(i..(i + 1))
    BY <1>3, FS_Interval
  <2>2. signs \subseteq i..(i + 1) /\ digits \subseteq i..(i + 1)
    OBVIOUS
  <2> HIDE DEF signs, digits
  <2> QED BY <2>1, <2>2, FS_Subset
<1> HIDE DEF signs, digits
<1>7. end = i + Cardinality(signs \cup digits)
  <2>1. Cardinality(signs \cup digits) = Cardinality(signs) + Cardinality(digits) - Cardinality(signs \cap digits)
    BY <1>6, FS_Union
  <2>2. Cardinality(signs \cap digits) = 0
    BY <1>4, FS_EmptySet
  <2>3. Cardinality(signs) \in Nat /\ Cardinality(digits) \in Nat
    BY <1>6, FS_CardinalityType
  <2> QED BY <1>3, <2>1, <2>2, <2>3
<1> HIDE DEF end
<1>8. end \in i..Len(text)
  <2>1. CASE signs \cup digits = {}
    <3>1. end = i
      BY <1>3, <1>7, <2>1, FS_EmptySet
    <3> QED BY <1>3, <3>1 DEF Pos
  <2>2. CASE signs \cup digits = {i} /\ At(i) # "NUL"
    <3>1. end = i + 1
      BY <1>7, <2>2, FS_Singleton
    <3>2. i + 1 \in Pos
      BY <1>3, <2>2, Characters
    <3> QED BY <1>3, <3>1, <3>2 DEF Pos
  <2>3. CASE signs \cup digits = {i, i + 1} /\ At(i + 1) # "NUL"
    <3>1. Cardinality({i} \cup {i + 1}) = 2
      <4>1. IsFiniteSet({i}) /\ Cardinality({i}) = 1
        BY FS_Singleton
      <4>3. i + 1 \notin {i}
        BY <1>3
      <4>2. Cardinality({i} \cup {i + 1}) = Cardinality({i}) + 1
        BY <4>1, <4>3, FS_AddElement
      <4> QED BY <4>1, <4>2
    <3>2. end = i + 2
      <4>1. {i, i + 1} = {i} \cup {i + 1}
        OBVIOUS
      <4> QED BY <1>7, <2>3, <3>1, <4>1
    <3>3. (i + 1) + 1 \in Pos
      BY <1>3, <2>3, Characters
    <3> QED BY <1>3, <3>2, <3>3 DEF Pos
  <2> QED BY <1>5, <2>1, <2>2, <2>3
<1>9. end \in Pos
  BY <1>3, <1>8 DEF Pos
<1>10. IgnoredLine(end) \in (i..Len(text)) \cup {Bad}
  <2>1. IgnoredLine(end) \in (end..Len(text)) \cup {Bad}
    BY <1>9, IgnoredLineIs
  <2> QED BY <1>3, <1>8, <2>1
<1>11. Header(i, folded).next \in {Bad, IgnoredLine(end)}
  BY <1>1, Zenon
<1> QED BY <1>10, <1>11

LEMMA BlockLeads ==
  ASSUME TextOK, NEW i \in Pos, At(i) # "NUL", NEW indent
  PROVE  Leads(ScanBlock(i, indent), i + 1)
<1>1. i \in Nat /\ i + 1 \in Pos /\ i + 1 \in Int
  BY Characters DEF Pos
<1>2. PICK h : ScanBlock(i, indent) = BlockScalar(h, indent) /\ h.next \in ((i + 1)..Len(text)) \cup {Bad}
  BY <1>1, HeaderIs DEF ScanBlock
<1>3. CASE h.next = Bad
  <2>1. BlockScalar(h, indent) = Failed
    BY <1>3, Zenon DEF BlockScalar
  <2> QED BY <1>2, <2>1, ScannedLeads
<1>4. CASE h.next # Bad
  <2>1. PICK inner : BlockScalar(h, indent) = BlockBody(h, inner)
    BY <1>4, Zenon DEF BlockScalar
  <2>2. h.next \in (i + 1)..Len(text) /\ h.next \in Pos /\ h.next \in Int
    BY <1>1, <1>2, <1>4 DEF Pos, TextOK
  <2>3. PICK first, breaks : /\ BlockBody(h, inner) = BlockText(first, breaks, h, inner)
                             /\ first \in h.next..Len(text)
    <3> DEFINE skipped == Skip(h.next, Break \cup {" "})
               empties == Empties(h.next, inner)
    <3>1. skipped \in h.next..Len(text)
      <4>1. "NUL" \notin Break \cup {" "}
        BY NoNul, Zenon
      <4> QED BY <2>2, <4>1, SkipIs, Zenon
    <3>2. empties \in h.next..Len(text)
      BY <2>2, EmptiesIs
    <3>3. \E first \in {skipped, empties} : BlockBody(h, inner) = BlockText(first, Breaks(h.next, first), h, inner)
      BY Zenon DEF BlockBody
    <3> HIDE DEF skipped, empties
    <3> QED BY <3>1, <3>2, <3>3
  <2>4. first \in Pos /\ first \in Int /\ i + 1 <= first
    BY <1>1, <2>2, <2>3 DEF Pos, TextOK
  <2>5. Leads(BlockText(first, breaks, h, inner), first)
    <3>1. Leads(Join(breaks, BlockLines(first, h, inner)), first)
      BY <2>4, BlockLinesLead, JoinLeads
    <3>2. first \in first..Len(text)
      BY <2>4 DEF Pos, TextOK
    <3>3. \A value : Leads(Scanned(value, first), first)
      BY <3>2, ScannedLeads
    <3> QED BY <3>1, <3>3, Zenon DEF BlockText
  <2>6. Leads(BlockText(first, breaks, h, inner), i + 1)
    BY <1>1, <2>4, <2>5, LeadsFrom
  <2> QED BY <1>2, <2>1, <2>3, <2>6
<1> QED BY <1>3, <1>4

-----------------------------------------------------------------------------
(***************************************************************************)
(* What is scanned at the first character of a token ends behind it.       *)
(***************************************************************************)
LEMMA IndicatorIs ==
  ASSUME NEW i
  PROVE  /\ At(i) = "NUL" => Indicator(i) \in {"StreamEnd"}
         /\ Indicator(i) = "Quoted" => At(i) \in QuoteMarks
         /\ Indicator(i) = "Plain" => ~EndsWord(i, flow) /\ At(i) # "#"
         /\ Indicator(i) \in {"DocumentStart", "DocumentEnd"} => Separator(i)
<1>1. At(i) = "NUL" => Indicator(i) = "StreamEnd"
  BY Zenon DEF Indicator, BlankZ, SpaceZ, BreakZ, Separator, DocumentIndicator
<1>2. Indicator(i) = "Quoted" => At(i) \in QuoteMarks
  BY Zenon DEF Indicator, QuoteMarks
<1>3. Indicator(i) = "Plain" => ~EndsWord(i, flow) /\ At(i) # "#"
  <2> DEFINE begins == \/ At(i) \notin BlankZ \cup {"-", "?", ":", ",", "[", "]", "{", "}", "#", "&", "*", "!", "|",
                                               ">", "'", "\"", "%", "@", "GRAVE"}
                       \/ ~(At(i + 1) \in BlankZ) /\ (At(i) = "-" \/ (flow = 0 /\ At(i) \in {"?", ":"}))
  <2>1. Indicator(i) = "Plain" => begins
    BY Zenon DEF Indicator
  <2>2. begins => At(i) # "#"
    BY Zenon
  <2>3. \A c \in {"-", "?", ":"} : c \notin BlankZ
    BY Zenon DEF BlankZ, SpaceZ, BreakZ, Break
  <2>4. begins => At(i) \notin BlankZ
    BY <2>3, Zenon
  <2>5. begins => ~(flow = 0 /\ At(i) = ":" /\ At(i + 1) \in BlankZ)
    BY Zenon
  <2>6. begins => ~(flow # 0 /\ At(i) \in {",", ":", "?", "[", "]", "{", "}"})
    BY Zenon
  <2> HIDE DEF begins
  <2> QED BY <2>1, <2>2, <2>4, <2>5, <2>6, Zenon DEF EndsWord
<1>4. Indicator(i) \in {"DocumentStart", "DocumentEnd"} => Separator(i)
  BY Zenon DEF Indicator, Separator
<1> QED BY <1>1, <1>2, <1>3, <1>4

LEMMA ScanLeads ==
  ASSUME TextOK, NEW r, r.at \in Pos, r.type = Indicator(r.at),
         r.type \in {"Alias", "Anchor", "Tag", "Quoted", "Plain", "Block", "Directive"}
  PROVE  Scan(r).next \in ((r.at + 1)..Len(text)) \cup {Bad}
<1> PICK i \in Nat : i = r.at
  BY DEF Pos
<1>1. At(i) # "NUL" /\ i \in Pos
  BY IndicatorIs
<1>2. CASE r.type \in {"Alias", "Anchor"}
  <2>1. Scan(r) = ScanAnchor(i)
    BY <1>2, Zenon DEF Scan
  <2> QED BY <1>1, <2>1, AnchorLeads DEF Leads
<1>3. CASE r.type = "Tag"
  <2>1. Scan(r) = ScanTag(i)
    BY <1>3, Zenon DEF Scan
  <2> QED BY <1>1, <2>1, TagLeads DEF Leads
<1>4. CASE r.type = "Quoted"
  <2>1. Scan(r) = ScanQuoted(i)
    BY <1>4, Zenon DEF Scan
  <2>2. At(i) \in QuoteMarks
    BY <1>4, IndicatorIs
  <2> QED BY <2>1, <2>2, QuotedLeads DEF Leads
<1>5. CASE r.type = "Plain"
  <2>1. Scan(r) = ScanPlain(i, flow, Last(r.indents) + 1)
    BY <1>5, Zenon DEF Scan
  <2>2. ~EndsWord(i, flow) /\ At(i) # "#"
    BY <1>5, IndicatorIs
  <2>3. Leads(ScanPlain(i, flow, Last(r.indents) + 1), i + 1)
    BY <1>1, <2>2, PlainLeads
  <2> QED BY <2>1, <2>3 DEF Leads
<1>6. CASE r.type = "Block"
  <2>1. Scan(r) = ScanBlock(i, Last(r.indents))
    BY <1>6, Zenon DEF Scan
  <2>2. Leads(ScanBlock(i, Last(r.indents)), i + 1)
    BY <1>1, BlockLeads
  <2> QED BY <2>1, <2>2 DEF Leads
<1>7. CASE r.type = "Directive"
  <2>1. Scan(r) = ScanDirective(i)
    BY <1>7, Zenon DEF Scan
  <2> QED BY <1>1, <2>1, DirectiveLeads DEF Leads
<1> QED BY <1>2, <1>3, <1>4, <1>5, <1>6, <1>7

\* A step of fetch_more_tokens moves the reader behind the token's first
\* character; StreamEnd is not behind anything.
LEMMA FetchMoves ==
  ASSUME TextOK, NEW r, r.at \in Pos, r.type = Indicator(r.at),
         \/ FetchDirective(r, Scan(r)) \/ FetchDocumentIndicator(r)
         \/ FetchFlowCollectionStart(r) \/ FetchFlowCollectionEnd(r) \/ FetchFlowEntry(r)
         \/ FetchBlockEntry(r) \/ FetchKey(r) \/ FetchSimpleValue(r) \/ FetchValue(r)
         \/ FetchNodePart(r, Scan(r)) \/ FetchBlockScalar(r, Scan(r))
  PROVE  index' \in Pos /\ index' > r.at
<1> PICK i \in Nat : i = r.at
  BY DEF Pos
<1>1. Len(text) \in Nat
  BY DEF TextOK
<1>2. r.type # "StreamEnd" => i + 1 \in Pos
  BY Characters, IndicatorIs
<1>3. CASE FetchDirective(r, Scan(r)) \/ FetchNodePart(r, Scan(r)) \/ FetchBlockScalar(r, Scan(r))
  <2>1. index' = Scan(r).next /\ Scan(r).next # Bad
    BY <1>3 DEF FetchDirective, FetchNodePart, FetchBlockScalar
  <2>2. r.type \in {"Alias", "Anchor", "Tag", "Quoted", "Plain", "Block", "Directive"}
    BY <1>3 DEF FetchDirective, FetchNodePart, FetchBlockScalar
  <2>3. Scan(r).next \in (i + 1)..Len(text)
    BY <2>1, <2>2, ScanLeads
  <2> QED BY <1>1, <2>1, <2>3 DEF Pos
<1>4. CASE FetchDocumentIndicator(r)
  <2>1. index' = i + 3 /\ Separator(i)
    BY <1>4, IndicatorIs DEF FetchDocumentIndicator, Emit
  <2>2. At(i + 2) # "NUL"
    BY <2>1 DEF Separator, DocumentIndicator
  <2>3. i + 2 \in Nat /\ i + 2 + 1 = i + 3
    OBVIOUS
  <2>4. i + 3 \in Pos
    BY <2>2, <2>3, Characters
  <2> QED BY <2>1, <2>4
<1>5. CASE \/ FetchFlowCollectionStart(r) \/ FetchFlowCollectionEnd(r) \/ FetchFlowEntry(r)
           \/ FetchBlockEntry(r) \/ FetchKey(r) \/ FetchSimpleValue(r) \/ FetchValue(r)
  <2>1. index' = r.at + 1 /\ r.type # "StreamEnd"
    BY <1>5, Zenon DEF FetchFlowCollectionStart, FetchFlowCollectionEnd, FetchFlowEntry, FetchBlockEntry,
      FetchKey, FetchSimpleValue, FetchValue, Emit
  <2> QED BY <1>2, <2>1
<1> QED BY <1>3, <1>4, <1>5

-----------------------------------------------------------------------------
(***************************************************************************)
(* The indentation levels.                                                 *)
(***************************************************************************)
Grow(s) == /\ s \in Seq(Int) /\ Len(s) >= 1 /\ s[1] = -1
           /\ \A n \in 1..(Len(s) - 1) : s[n] < s[n + 1]

LEMMA GrowPrefix ==
  ASSUME NEW s, Grow(s), NEW level \in 1..Len(s)
  PROVE  /\ Grow(SubSeq(s, 1, level))
         /\ Last(SubSeq(s, 1, level)) = s[level] /\ s[level] \in Int
<1>1. s \in Seq(Int) /\ Len(s) \in Nat
  BY LenProperties DEF Grow
<1>2. SubSeq(s, 1, level) \in Seq(Int) /\ Len(SubSeq(s, 1, level)) = level
  BY <1>1
<1>3. \A n \in 1..level : SubSeq(s, 1, level)[n] = s[n]
  BY <1>1
<1>4. Last(SubSeq(s, 1, level)) = s[level] /\ s[level] \in Int
  BY <1>1, <1>2, <1>3 DEF Last
<1> QED BY <1>1, <1>2, <1>3, <1>4 DEF Grow

LEMMA GrowAppend ==
  ASSUME NEW s, Grow(s), NEW column \in Int
  PROVE  Grow(IF Last(s) < column THEN Append(s, column) ELSE s)
<1>1. CASE Last(s) < column
  <2>1. s \in Seq(Int) /\ Len(s) \in Nat /\ s[Len(s)] < column
    BY <1>1, LenProperties DEF Grow, Last
  <2>2. Append(s, column) \in Seq(Int) /\ Len(Append(s, column)) = Len(s) + 1
    BY <2>1
  <2>3. \A n \in 1..Len(s) : Append(s, column)[n] = s[n]
    BY <2>1
  <2>4. Append(s, column)[Len(s) + 1] = column
    BY <2>1
  <2>5. ASSUME NEW n \in 1..Len(s) PROVE Append(s, column)[n] < Append(s, column)[n + 1]
    <3>1. CASE n = Len(s)
      BY <2>1, <2>3, <2>4, <3>1
    <3>2. CASE n # Len(s)
      BY <2>1, <2>3, <3>2 DEF Grow
    <3> QED BY <3>1, <3>2
  <2>6. Append(s, column)[1] = -1 /\ Len(s) >= 1
    BY <2>1, <2>3 DEF Grow
  <2> QED BY <1>1, <2>1, <2>2, <2>5, <2>6 DEF Grow
<1>2. CASE ~(Last(s) < column)
  BY <1>2
<1> QED BY <1>1, <1>2

\* unwind_indent finds a level.
LEMMA LevelIs ==
  ASSUME Grow(indents), NEW column \in Int, column >= -1
  PROVE  /\ Level(column) \in 1..Len(indents)
         /\ flow = 0 => indents[Level(column)] <= column
<1> PICK s \in Seq(Int) : s = indents
  BY DEF Grow
<1> PICK n \in Nat : n = Len(s) /\ n >= 1
  BY DEF Grow
<1>1. \A m \in 1..n : s[m] \in Int
  OBVIOUS
<1>2. CASE flow # 0
  BY <1>2 DEF Level
<1>3. CASE flow = 0
  <2> DEFINE low == {m \in 1..n : s[m] <= column}
  <2>1. low \in SUBSET (0..n) /\ 1 \in low
    BY DEF Grow
  <2>2. PICK m \in low : \A l \in low : l <= m
    <3> HIDE DEF low
    <3> QED BY <2>1, LastOf
  <2>3. m \in 1..n /\ s[m] <= column
    OBVIOUS
  <2>4. ASSUME NEW l \in (m + 1)..n PROVE s[l] > column
    <3>1. l \in 1..n /\ ~(l <= m)
      BY <2>3
    <3>2. l \notin low
      BY <2>2, <3>1
    <3> QED BY <1>1, <3>1, <3>2
  <2>5. DOMAIN indents = 1..n
    OBVIOUS
  <2>6. \E k \in DOMAIN indents : indents[k] <= column /\ \A l \in (k + 1)..Len(indents) : indents[l] > column
    BY <2>3, <2>4, <2>5
  <2>7. Level(column) = CHOOSE k \in DOMAIN indents :
          indents[k] <= column /\ \A l \in (k + 1)..Len(indents) : indents[l] > column
    BY <1>3 DEF Level
  <2> QED BY <2>5, <2>6, <2>7
<1> QED BY <1>2, <1>3

LEMMA ReadyIs ==
  ASSUME TextOK, index \in Pos, Grow(indents)
  PROVE  /\ Ready.at \in Pos /\ Ready.at >= index
         /\ Ready.type = Indicator(Ready.at)
         /\ Ready.column = Column(Ready.at) /\ Ready.column \in Nat
         /\ Ready.keys = Fresh(Ready.at)
         /\ \E level \in 1..Len(indents) :
              /\ Ready.indents = SubSeq(indents, 1, level)
              /\ Ready.tokens = Unwound(tokens, level, Ready.at)
<1> DEFINE from == IF index = 0 /\ At(0) = "BOM" THEN 1 ELSE index
           at == NextToken[from]
<1>1. Len(text) \in Nat
  BY DEF TextOK
<1>2. from \in Pos /\ from >= index
  <2>1. CASE index = 0 /\ At(0) = "BOM"
    <3>1. At(0) # "NUL"
      BY <2>1
    <3>2. 0 + 1 \in Pos
      BY <3>1, Characters
    <3> QED BY <2>1, <3>2
  <2>2. CASE ~(index = 0 /\ At(0) = "BOM")
    BY <1>1, <2>2 DEF Pos
  <2> QED BY <2>1, <2>2
<1> HIDE DEF from
<1>3. at \in from..Len(text)
  BY <1>2, NextTokenIs
<1>4. at \in Pos /\ at >= index /\ at \in Nat
  BY <1>1, <1>2, <1>3 DEF Pos
<1>5. /\ Ready.at = at /\ Ready.type = Indicator(at) /\ Ready.column = Column(at)
      /\ Ready.keys = Fresh(at)
      /\ Ready.indents = SubSeq(indents, 1, Level(Column(at)))
      /\ Ready.tokens = Unwound(tokens, Level(Column(at)), at)
  BY DEF Ready, from
<1> HIDE DEF at
<1>6. Column(at) \in Nat
  BY <1>4, ColumnNat
<1>7. Level(Column(at)) \in 1..Len(indents)
  BY <1>6, LevelIs
<1> QED BY <1>4, <1>5, <1>6, <1>7

-----------------------------------------------------------------------------
(***************************************************************************)
(* Sequences, whatever their elements are.                                 *)
(***************************************************************************)
IsSeq(s) == \E S : s \in Seq(S)

LEMMA SeqLen ==
  ASSUME NEW s, IsSeq(s)
  PROVE  Len(s) \in Nat /\ DOMAIN s = 1..Len(s) /\ (Len(s) = 0 => s = <<>>)
<1> PICK S : s \in Seq(S)
  BY DEF IsSeq
<1> QED BY EmptySeq

LEMMA SeqAppend ==
  ASSUME NEW s, IsSeq(s), NEW x
  PROVE  /\ IsSeq(Append(s, x)) /\ Len(Append(s, x)) = Len(s) + 1
         /\ \A n \in 1..Len(s) : Append(s, x)[n] = s[n]
         /\ Append(s, x)[Len(s) + 1] = x
<1> PICK S : s \in Seq(S)
  BY DEF IsSeq
<1> DEFINE T == S \cup {x}
<1>1. s \in Seq(T) /\ x \in T
  OBVIOUS
<1> HIDE DEF T
<1>2. Append(s, x) \in Seq(T)
  BY <1>1
<1>3. Len(Append(s, x)) = Len(s) + 1 /\ (\A n \in 1..Len(s) : Append(s, x)[n] = s[n]) /\ Append(s, x)[Len(s) + 1] = x
  BY <1>1
<1> QED BY <1>2, <1>3 DEF IsSeq

LEMMA SeqConcat ==
  ASSUME NEW s, IsSeq(s), NEW t, IsSeq(t)
  PROVE  /\ IsSeq(s \o t) /\ Len(s \o t) = Len(s) + Len(t)
         /\ \A n \in 1..Len(s) : (s \o t)[n] = s[n]
         /\ \A n \in 1..Len(t) : (s \o t)[Len(s) + n] = t[n]
<1> PICK S : s \in Seq(S)
  BY DEF IsSeq
<1> PICK R : t \in Seq(R)
  BY DEF IsSeq
<1> DEFINE T == S \cup R
<1>1. s \in Seq(T) /\ t \in Seq(T)
  OBVIOUS
<1> HIDE DEF T
<1>2. s \o t \in Seq(T) /\ Len(s \o t) = Len(s) + Len(t)
  BY <1>1
<1>3. \A n \in 1..Len(s) : (s \o t)[n] = s[n]
  BY <1>1
<1>4. ASSUME NEW n \in 1..Len(t) PROVE (s \o t)[Len(s) + n] = t[n]
  <2>1. Len(s) \in Nat /\ Len(s) + n \in 1..(Len(s) + Len(t)) /\ ~(Len(s) + n <= Len(s)) /\ (Len(s) + n) - Len(s) = n
    BY <1>1, SeqLen DEF IsSeq
  <2> QED BY <1>1, <2>1
<1> QED BY <1>2, <1>3, <1>4 DEF IsSeq

LEMMA SeqSub ==
  ASSUME NEW s, IsSeq(s), NEW a \in 1..(Len(s) + 1), NEW b \in 0..Len(s), a <= b + 1
  PROVE  /\ IsSeq(SubSeq(s, a, b)) /\ Len(SubSeq(s, a, b)) = b + 1 - a
         /\ \A n \in 1..(b + 1 - a) : SubSeq(s, a, b)[n] = s[a + n - 1]
<1> PICK S : s \in Seq(S)
  BY DEF IsSeq
<1>1. Len(s) \in Nat
  OBVIOUS
<1>2. SubSeq(s, a, b) \in Seq(S)
  BY <1>1
<1>3. Len(SubSeq(s, a, b)) = b + 1 - a
  BY <1>1
<1>4. \A n \in 1..(b + 1 - a) : SubSeq(s, a, b)[n] = s[a + n - 1]
  BY <1>1
<1> QED BY <1>2, <1>3, <1>4 DEF IsSeq

LEMMA SeqTail ==
  ASSUME NEW s, IsSeq(s), s # <<>>
  PROVE  /\ IsSeq(Tail(s)) /\ Len(Tail(s)) = Len(s) - 1 /\ Len(s) >= 1
         /\ \A n \in 1..(Len(s) - 1) : Tail(s)[n] = s[n + 1]
<1> PICK S : s \in Seq(S)
  BY DEF IsSeq
<1>1. Len(s) \in Nat /\ Len(s) >= 1
  BY EmptySeq
<1>2. Tail(s) \in Seq(S) /\ Len(Tail(s)) = Len(s) - 1
  BY <1>1
<1>3. \A n \in 1..(Len(s) - 1) : Tail(s)[n] = s[n + 1]
  BY <1>1
<1> QED BY <1>1, <1>2, <1>3 DEF IsSeq

-----------------------------------------------------------------------------
(***************************************************************************)
(* The queue of tokens.  A token of these types has no characters of its   *)
(* own: another one may follow it at the same position.                    *)
(***************************************************************************)
ZeroWidth == {"StreamStart", "BlockSequenceStart", "BlockMappingStart", "BlockEnd", "Key"}

Follows(this, next) == this.at < next.at \/ (this.at = next.at /\ this.type \in ZeroWidth)

Queue(q) == /\ IsSeq(q)
            /\ \A n \in 1..Len(q) : q[n].at \in Nat
            /\ \A n \in 1..(Len(q) - 1) : Follows(q[n], q[n + 1])

\* What is read from i on may be put behind the queue.
Line(q, i) == /\ Queue(q)
              /\ \A n \in 1..Len(q) : q[n].at < i \/ (q[n].at = i /\ q[n].type \in ZeroWidth)

LEMMA LineLater ==
  ASSUME NEW q, NEW i \in Nat, NEW j \in Nat, i <= j, Line(q, i)
  PROVE  Line(q, j)
<1>1. ASSUME NEW n \in 1..Len(q) PROVE q[n].at < j \/ (q[n].at = j /\ q[n].type \in ZeroWidth)
  <2>1. q[n].at \in Nat
    BY DEF Line, Queue
  <2>2. q[n].at < i \/ (q[n].at = i /\ q[n].type \in ZeroWidth)
    BY DEF Line
  <2> QED BY <2>1, <2>2
<1> QED BY <1>1 DEF Line

LEMMA LineAppend ==
  ASSUME NEW q, NEW i \in Nat, Line(q, i), NEW token, token.at \in Nat, i <= token.at
  PROVE  /\ Queue(Append(q, token)) /\ Len(Append(q, token)) = Len(q) + 1
         /\ \A n \in 1..Len(q) : Append(q, token)[n] = q[n]
         /\ Append(q, token)[Len(q) + 1] = token
         /\ token.type \in ZeroWidth => Line(Append(q, token), token.at)
         /\ \A j \in Nat : token.at < j => Line(Append(q, token), j)
<1> DEFINE a == Append(q, token)
<1>1. IsSeq(q) /\ Len(q) \in Nat
  BY SeqLen DEF Line, Queue
<1>2. /\ IsSeq(a) /\ Len(a) = Len(q) + 1
      /\ \A n \in 1..Len(q) : a[n] = q[n]
      /\ a[Len(q) + 1] = token
  BY <1>1, SeqAppend
<1> HIDE DEF a
<1>3. \A n \in 1..Len(a) : a[n].at \in Nat /\ a[n].at <= token.at
  <2> TAKE n \in 1..Len(a)
  <2>1. CASE n = Len(q) + 1
    BY <1>2, <2>1
  <2>2. CASE n # Len(q) + 1
    <3>1. n \in 1..Len(q) /\ a[n] = q[n]
      BY <1>1, <1>2, <2>2
    <3> QED BY <3>1 DEF Line, Queue
  <2> QED BY <2>1, <2>2
<1>4. \A n \in 1..(Len(a) - 1) : Follows(a[n], a[n + 1])
  <2> TAKE n \in 1..(Len(a) - 1)
  <2>1. n \in 1..Len(q) /\ a[n] = q[n]
    BY <1>1, <1>2
  <2>2. CASE n = Len(q)
    <3>1. a[n + 1] = token
      BY <1>2, <2>2
    <3>2. q[n].at \in Nat /\ (q[n].at < i \/ (q[n].at = i /\ q[n].type \in ZeroWidth))
      BY <2>1 DEF Line, Queue
    <3> QED BY <2>1, <3>1, <3>2 DEF Follows
  <2>3. CASE n # Len(q)
    <3>1. n \in 1..(Len(q) - 1) /\ a[n + 1] = q[n + 1]
      BY <1>1, <1>2, <2>1, <2>3
    <3> QED BY <2>1, <3>1 DEF Line, Queue
  <2> QED BY <2>2, <2>3
<1>5. Queue(a)
  BY <1>2, <1>3, <1>4 DEF Queue
<1>6. ASSUME NEW j \in Nat, token.at < j PROVE Line(a, j)
  BY <1>3, <1>5, <1>6 DEF Line
<1>7. ASSUME token.type \in ZeroWidth PROVE Line(a, token.at)
  <2>1. ASSUME NEW n \in 1..Len(a) PROVE a[n].at < token.at \/ (a[n].at = token.at /\ a[n].type \in ZeroWidth)
    <3>1. CASE n = Len(q) + 1
      BY <1>2, <1>7, <3>1
    <3>2. CASE n # Len(q) + 1
      <4>1. n \in 1..Len(q) /\ a[n] = q[n]
        BY <1>1, <1>2, <3>2
      <4>2. q[n].at \in Nat /\ (q[n].at < i \/ (q[n].at = i /\ q[n].type \in ZeroWidth))
        BY <4>1 DEF Line, Queue
      <4> QED BY <4>1, <4>2
    <3> QED BY <3>1, <3>2
  <2> QED BY <1>5, <2>1 DEF Line
<1> QED BY <1>2, <1>5, <1>6, <1>7 DEF a

\* One sequence behind another.
LEMMA QueueConcat ==
  ASSUME NEW q, Queue(q), NEW t, Queue(t),
         q = <<>> \/ t = <<>> \/ Follows(q[Len(q)], t[1])
  PROVE  Queue(q \o t)
<1> DEFINE a == q \o t
<1>1. IsSeq(q) /\ Len(q) \in Nat /\ IsSeq(t) /\ Len(t) \in Nat
  BY SeqLen DEF Queue
<1>2. /\ IsSeq(a) /\ Len(a) = Len(q) + Len(t)
      /\ \A n \in 1..Len(q) : a[n] = q[n]
      /\ \A n \in 1..Len(t) : a[Len(q) + n] = t[n]
  BY <1>1, SeqConcat
<1> HIDE DEF a
<1>3. \A n \in 1..Len(a) : n \in 1..Len(q) \/ \E m \in 1..Len(t) : n = Len(q) + m
  <2> TAKE n \in 1..Len(a)
  <2>1. n \notin 1..Len(q) => n - Len(q) \in 1..Len(t) /\ n = Len(q) + (n - Len(q))
    BY <1>1, <1>2
  <2> QED BY <2>1
<1>4. \A n \in 1..Len(a) : a[n].at \in Nat
  BY <1>2, <1>3 DEF Queue
<1>5. \A n \in 1..(Len(a) - 1) : Follows(a[n], a[n + 1])
  <2> TAKE n \in 1..(Len(a) - 1)
  <2>1. CASE n < Len(q)
    <3>1. n \in 1..(Len(q) - 1) /\ a[n] = q[n] /\ a[n + 1] = q[n + 1]
      BY <1>1, <1>2, <2>1
    <3> QED BY <3>1 DEF Queue
  <2>2. CASE n = Len(q)
    <3>1. a[n] = q[n] /\ 1 \in 1..Len(t)
      BY <1>1, <1>2, <2>2
    <3>2. a[n + 1] = t[1]
      BY <1>2, <2>2, <3>1
    <3>3. q # <<>> /\ t # <<>>
      BY <1>1, <2>2, <3>1
    <3> QED BY <2>2, <3>1, <3>2, <3>3
  <2>3. CASE n > Len(q)
    <3> PICK m \in Nat : m = n - Len(q)
      BY <1>1, <2>3
    <3>1. m \in 1..(Len(t) - 1) /\ m + 1 \in 1..Len(t) /\ n = Len(q) + m /\ n + 1 = Len(q) + (m + 1)
      BY <1>1, <1>2, <2>3
    <3>2. a[n] = t[m] /\ a[n + 1] = t[m + 1]
      BY <1>2, <3>1
    <3> QED BY <3>1, <3>2 DEF Queue
  <2> QED BY <1>1, <2>1, <2>2, <2>3
<1> QED BY <1>2, <1>4, <1>5 DEF Queue, a

\* Tokens without characters, all at one position.
Marks(t, at) == IsSeq(t) /\ \A n \in 1..Len(t) : t[n].at = at /\ t[n].type \in ZeroWidth

LEMMA MarksQueue ==
  ASSUME NEW at \in Nat, NEW t, Marks(t, at)
  PROVE  Queue(t)
<1>1. Len(t) \in Nat
  BY SeqLen DEF Marks
<1>2. ASSUME NEW n \in 1..(Len(t) - 1) PROVE Follows(t[n], t[n + 1])
  <2>1. n \in 1..Len(t) /\ n + 1 \in 1..Len(t)
    BY <1>1
  <2> QED BY <2>1 DEF Marks, Follows
<1> QED BY <1>2 DEF Marks, Queue

LEMMA MarksConcat ==
  ASSUME NEW at, NEW s, Marks(s, at), NEW t, Marks(t, at)
  PROVE  Marks(s \o t, at)
<1>1. IsSeq(s) /\ Len(s) \in Nat /\ IsSeq(t) /\ Len(t) \in Nat
  BY SeqLen DEF Marks
<1>2. /\ IsSeq(s \o t) /\ Len(s \o t) = Len(s) + Len(t)
      /\ \A n \in 1..Len(s) : (s \o t)[n] = s[n]
      /\ \A n \in 1..Len(t) : (s \o t)[Len(s) + n] = t[n]
  BY <1>1, SeqConcat
<1>3. ASSUME NEW n \in 1..Len(s \o t) PROVE (s \o t)[n].at = at /\ (s \o t)[n].type \in ZeroWidth
  <2>1. CASE n \in 1..Len(s)
    BY <1>2, <2>1 DEF Marks
  <2>2. CASE n \notin 1..Len(s)
    <3>1. n - Len(s) \in 1..Len(t) /\ n = Len(s) + (n - Len(s))
      BY <1>1, <1>2, <2>2
    <3> QED BY <1>2, <3>1 DEF Marks
  <2> QED BY <2>1, <2>2
<1> QED BY <1>2, <1>3 DEF Marks

LEMMA LineMarks ==
  ASSUME NEW q, NEW i \in Nat, Line(q, i), NEW at \in Nat, i <= at, NEW t, Marks(t, at)
  PROVE  /\ Line(q \o t, at) /\ Len(q \o t) >= Len(q)
         /\ \A n \in 1..Len(q) : (q \o t)[n] = q[n]
<1>1. IsSeq(q) /\ Len(q) \in Nat /\ IsSeq(t) /\ Len(t) \in Nat
  BY SeqLen DEF Line, Queue, Marks
<1>2. /\ Len(q \o t) = Len(q) + Len(t)
      /\ \A n \in 1..Len(q) : (q \o t)[n] = q[n]
      /\ \A n \in 1..Len(t) : (q \o t)[Len(q) + n] = t[n]
  BY <1>1, SeqConcat
<1>3. q = <<>> \/ t = <<>> \/ Follows(q[Len(q)], t[1])
  <2>1. ASSUME q # <<>>, t # <<>> PROVE Follows(q[Len(q)], t[1])
    <3>1. Len(q) \in 1..Len(q) /\ 1 \in 1..Len(t)
      BY <1>1, <2>1, SeqLen
    <3>2. q[Len(q)].at \in Nat /\ (q[Len(q)].at < i \/ (q[Len(q)].at = i /\ q[Len(q)].type \in ZeroWidth))
      BY <3>1 DEF Line, Queue
    <3>3. t[1].at = at
      BY <3>1 DEF Marks
    <3> QED BY <3>2, <3>3 DEF Follows
  <2> QED BY <2>1
<1>4. Queue(q \o t)
  BY <1>3, MarksQueue, QueueConcat DEF Line
<1>5. ASSUME NEW n \in 1..Len(q \o t)
      PROVE  (q \o t)[n].at < at \/ ((q \o t)[n].at = at /\ (q \o t)[n].type \in ZeroWidth)
  <2>1. CASE n \in 1..Len(q)
    <3>1. (q \o t)[n] = q[n]
      BY <1>2, <2>1
    <3>2. Line(q, at)
      BY LineLater
    <3> QED BY <2>1, <3>1, <3>2 DEF Line
  <2>2. CASE n \notin 1..Len(q)
    <3>1. n - Len(q) \in 1..Len(t) /\ n = Len(q) + (n - Len(q))
      BY <1>1, <1>2, <2>2
    <3>2. (q \o t)[n] = t[n - Len(q)]
      BY <1>2, <3>1
    <3> QED BY <3>1, <3>2 DEF Marks
  <2> QED BY <2>1, <2>2
<1> QED BY <1>1, <1>2, <1>4, <1>5 DEF Line

LEMMA LineUnwound ==
  ASSUME Grow(indents), NEW q, NEW i \in Nat, Line(q, i), NEW at \in Nat, i <= at, NEW level \in 1..Len(indents)
  PROVE  /\ Line(Unwound(q, level, at), at) /\ Len(Unwound(q, level, at)) >= Len(q)
         /\ \A n \in 1..Len(q) : Unwound(q, level, at)[n] = q[n]
<1> DEFINE t == [n \in 1..(Len(indents) - level) |-> Token("BlockEnd", at)]
<1>1. Len(indents) - level \in Nat
  BY DEF Grow
<1>2. t \in Seq({Token("BlockEnd", at)}) /\ Len(t) = Len(indents) - level
  BY <1>1
<1>3. \A n \in 1..Len(t) : t[n] = Token("BlockEnd", at)
  BY <1>2
<1>4. Unwound(q, level, at) = q \o t
  BY DEF Unwound
<1> HIDE DEF t
<1>5. Marks(t, at)
  BY <1>2, <1>3 DEF Marks, IsSeq, Token, ZeroWidth
<1> QED BY <1>4, <1>5, LineMarks

Inserted(q, p, put) == SubSeq(q, 1, p) \o put \o SubSeq(q, p + 1, Len(q))

\* Tokens without characters may be put before any token, at its position.
LEMMA LineInsert ==
  ASSUME NEW q, NEW i \in Nat, Line(q, i), NEW p \in 0..(Len(q) - 1),
         NEW put, Marks(put, q[p + 1].at)
  PROVE  /\ Line(Inserted(q, p, put), i) /\ Len(Inserted(q, p, put)) >= Len(q)
         /\ \A n \in 1..p : Inserted(q, p, put)[n] = q[n]
<1> DEFINE a == SubSeq(q, 1, p)
           b == SubSeq(q, p + 1, Len(q))
           at == q[p + 1].at
<1>1. IsSeq(q) /\ Len(q) \in Nat /\ IsSeq(put) /\ Len(put) \in Nat
  BY SeqLen DEF Line, Queue, Marks
<1>2. p \in Nat /\ p + 1 \in 1..Len(q) /\ at \in Nat
  BY <1>1 DEF Line, Queue
<1>3. IsSeq(a) /\ Len(a) = p /\ \A n \in 1..p : a[n] = q[n]
  <2>1. p \in 0..Len(q) /\ 1 \in 1..(Len(q) + 1) /\ 1 <= p + 1
    BY <1>1
  <2>2. IsSeq(a) /\ Len(a) = p + 1 - 1 /\ \A n \in 1..(p + 1 - 1) : a[n] = q[1 + n - 1]
    BY <1>1, <2>1, SeqSub
  <2>3. p + 1 - 1 = p /\ \A n \in 1..p : 1 + n - 1 = n
    OBVIOUS
  <2> HIDE DEF a
  <2> QED BY <2>2, <2>3
<1>4. IsSeq(b) /\ Len(b) = Len(q) - p /\ \A n \in 1..(Len(q) - p) : b[n] = q[p + n]
  <2>1. p + 1 \in 1..(Len(q) + 1) /\ Len(q) \in 0..Len(q) /\ p + 1 <= Len(q) + 1
    BY <1>1
  <2>2. /\ IsSeq(b) /\ Len(b) = Len(q) + 1 - (p + 1)
        /\ \A n \in 1..(Len(q) + 1 - (p + 1)) : b[n] = q[(p + 1) + n - 1]
    BY <1>1, <2>1, SeqSub
  <2>3. Len(q) + 1 - (p + 1) = Len(q) - p /\ \A n \in Nat : (p + 1) + n - 1 = p + n
    BY <1>1
  <2> HIDE DEF b
  <2> QED BY <1>2, <2>2, <2>3
<1> HIDE DEF a, b
<1>5. \A n \in 1..Len(q) : q[n].at \in Nat
  BY DEF Line, Queue
<1>6. Line(a, at)
  <2>1. \A n \in 1..p : n \in 1..Len(q) /\ n + 1 \in 1..Len(q) /\ n \in 1..(Len(q) - 1)
    BY <1>1
  <2>2. \A n \in 1..(Len(a) - 1) : Follows(a[n], a[n + 1])
    <3> TAKE n \in 1..(Len(a) - 1)
    <3>1. n \in 1..p /\ n + 1 \in 1..p
      BY <1>3
    <3> QED BY <1>3, <2>1, <3>1 DEF Line, Queue
  <2>3. Queue(a)
    BY <1>3, <1>5, <2>1, <2>2 DEF Queue
  <2> DEFINE Low(n) == q[n].at < at \/ (q[n].at = at /\ q[n].type \in ZeroWidth)
             T == {n \in 1..p : ~Low(n)}
  <2>4. \A n \in 1..p : Follows(q[n], q[n + 1])
    BY <2>1 DEF Line, Queue
  <2>5. ASSUME T # {} PROVE FALSE
    <3>1. T \in SUBSET (0..p)
      OBVIOUS
    <3>2. PICK n \in T : \A l \in T : l <= n
      <4> HIDE DEF T
      <4> QED BY <1>2, <2>5, <3>1, LastOf
    <3>3. n \in 1..p /\ ~Low(n)
      OBVIOUS
    <3>4. Follows(q[n], q[n + 1]) /\ q[n].at \in Nat
      BY <1>5, <2>1, <2>4, <3>3
    <3>5. n # p
      BY <3>3, <3>4 DEF Follows
    <3>6. n + 1 \in 1..p /\ n + 1 \notin T
      BY <3>2, <3>3, <3>5
    <3>7. Low(n + 1) /\ q[n + 1].at \in Nat
      BY <1>5, <2>1, <3>6
    <3> QED BY <1>2, <3>3, <3>4, <3>7 DEF Follows
  <2>6. \A n \in 1..Len(a) : Low(n) /\ a[n] = q[n]
    BY <1>3, <2>5
  <2> QED BY <2>3, <2>6 DEF Line
<1>7. Line(a \o put, at) /\ Len(a \o put) >= p /\ \A n \in 1..p : (a \o put)[n] = a[n]
  BY <1>2, <1>3, <1>6, LineMarks
<1>8. Queue(b) /\ b[1] = q[p + 1] /\ Len(b) >= 1
  <2>1. Len(b) >= 1 /\ 1 \in 1..(Len(q) - p)
    BY <1>1, <1>4
  <2>2. b[1] = q[p + 1]
    BY <1>4, <2>1
  <2>3. \A n \in 1..Len(b) : b[n].at \in Nat
    <3> TAKE n \in 1..Len(b)
    <3>1. n \in 1..(Len(q) - p) /\ p + n \in 1..Len(q)
      BY <1>1, <1>4
    <3> QED BY <1>4, <1>5, <3>1
  <2>4. \A n \in 1..(Len(b) - 1) : Follows(b[n], b[n + 1])
    <3> TAKE n \in 1..(Len(b) - 1)
    <3>1. n \in 1..(Len(q) - p) /\ n + 1 \in 1..(Len(q) - p) /\ p + n \in 1..(Len(q) - 1) /\ p + (n + 1) = (p + n) + 1
      BY <1>1, <1>4
    <3>2. b[n] = q[p + n] /\ b[n + 1] = q[(p + n) + 1]
      BY <1>4, <3>1
    <3> QED BY <3>1, <3>2 DEF Line, Queue
  <2> QED BY <1>4, <2>1, <2>2, <2>3, <2>4 DEF Queue
<1> DEFINE s == a \o put
           r == s \o b
<1>9. IsSeq(s) /\ Len(s) \in Nat /\ IsSeq(b) /\ Len(b) \in Nat
  BY <1>7, <1>8, SeqLen DEF Line, Queue
<1>10. Queue(r)
  <2>1. s = <<>> \/ Follows(s[Len(s)], b[1])
    <3>1. ASSUME s # <<>> PROVE Follows(s[Len(s)], b[1])
      <4> HIDE DEF s
      <4>1. Len(s) \in 1..Len(s)
        BY <1>9, <3>1, SeqLen
      <4>2. s[Len(s)].at < at \/ (s[Len(s)].at = at /\ s[Len(s)].type \in ZeroWidth)
        <5>1. Line(s, at)
          BY <1>7 DEF s
        <5> QED BY <4>1, <5>1 DEF Line
      <4> QED BY <1>8, <4>2 DEF Follows
    <3> QED BY <3>1
  <2> QED BY <1>7, <1>8, <2>1, QueueConcat DEF Line
<1>11. /\ Len(r) = Len(s) + Len(b)
       /\ \A n \in 1..Len(s) : r[n] = s[n]
       /\ \A n \in 1..Len(b) : r[Len(s) + n] = b[n]
  <2> HIDE DEF s
  <2> QED BY <1>9, SeqConcat
<1>12. \A n \in 1..p : r[n] = q[n]
  <2> TAKE n \in 1..p
  <2>1. n \in 1..Len(s) /\ s[n] = a[n] /\ a[n] = q[n]
    BY <1>3, <1>7, <1>9
  <2> QED BY <1>11, <2>1
<1>13. Len(r) >= Len(q)
  BY <1>1, <1>4, <1>7, <1>9, <1>11
<1>14. q[p + 1].at <= i
  BY <1>2 DEF Line
<1>15. ASSUME NEW n \in 1..Len(r) PROVE r[n].at < i \/ (r[n].at = i /\ r[n].type \in ZeroWidth)
  <2>1. CASE n \in 1..Len(s)
    <3>1. Line(s, i)
      BY <1>2, <1>7, <1>14, LineLater
    <3>2. r[n] = s[n]
      BY <1>11, <2>1
    <3> QED BY <2>1, <3>1, <3>2 DEF Line
  <2>2. CASE n \notin 1..Len(s)
    <3>1. n - Len(s) \in 1..Len(b) /\ n = Len(s) + (n - Len(s))
      BY <1>9, <1>11, <2>2
    <3>2. r[n] = b[n - Len(s)]
      BY <1>11, <3>1
    <3>3. b[n - Len(s)] = q[p + (n - Len(s))] /\ p + (n - Len(s)) \in 1..Len(q)
      BY <1>1, <1>4, <3>1
    <3> QED BY <3>2, <3>3 DEF Line
  <2> QED BY <2>1, <2>2
<1>16. Line(r, i)
  BY <1>10, <1>15 DEF Line
<1>17. Inserted(q, p, put) = r
  BY DEF Inserted, a, b
<1> QED BY <1>12, <1>13, <1>16, <1>17

-----------------------------------------------------------------------------
(***************************************************************************)
(* The possible simple keys k, of the levels to f, when the queue is q, t  *)
(* tokens are taken and the reader is at i.  The numbers of the keys that  *)
(* are not stale are those of tokens in the queue, at the positions of the *)
(* keys; a stale key may have been left behind by the tokens.              *)
(***************************************************************************)
InQueue(key, q, t) == t <= key.number /\ q[key.number - t + 1].at = key.at

KeysFit(k, q, t, i, f) ==
  /\ \A level \in DOMAIN k :
       /\ level \in Int /\ level <= f
       /\ k[level].at \in Nat /\ k[level].at <= i
       /\ k[level].number \in Int /\ k[level].number < t + Len(q)
       /\ StaleAt(k[level], i) \/ InQueue(k[level], q, t)
  /\ \A l \in DOMAIN k : \A m \in DOMAIN k : l < m => k[l].number < k[m].number

\* All of them are in the queue.
KeysSure(k, q, t, i, f) ==
  KeysFit(k, q, t, i, f) /\ \A level \in DOMAIN k : InQueue(k[level], q, t)

LEMMA FreshSure ==
  ASSUME NEW q, NEW t \in Nat, NEW i \in Nat, NEW j \in Nat, i <= j, NEW f \in Int,
         KeysFit(keys, q, t, i, f)
  PROVE  KeysSure(Fresh(j), q, t, j, f)
<1>1. ASSUME NEW level \in DOMAIN Fresh(j)
      PROVE  /\ level \in DOMAIN keys /\ Fresh(j)[level] = keys[level]
             /\ ~StaleAt(keys[level], j)
  BY DEF Fresh, Without
<1>2. ASSUME NEW level \in DOMAIN Fresh(j)
      PROVE  InQueue(Fresh(j)[level], q, t) /\ Fresh(j)[level].at <= j
  <2>1. level \in DOMAIN keys /\ Fresh(j)[level] = keys[level] /\ ~StaleAt(keys[level], j)
    BY <1>1
  <2>2. keys[level].at \in Nat /\ keys[level].at <= i
    BY <2>1 DEF KeysFit
  <2>3. ~StaleAt(keys[level], i)
    BY <2>1, <2>2, StaleStays
  <2>4. InQueue(keys[level], q, t)
    BY <2>1, <2>3 DEF KeysFit
  <2>5. keys[level].at <= j
    BY <2>2
  <2> QED BY <2>1, <2>4, <2>5
<1> QED BY <1>1, <1>2 DEF KeysSure, KeysFit

LEMMA SureWithout ==
  ASSUME NEW k, NEW q, NEW t, NEW i, NEW f, KeysSure(k, q, t, i, f), NEW levels
  PROVE  KeysSure(Without(k, levels), q, t, i, f)
<1>1. \A level \in DOMAIN Without(k, levels) : level \in DOMAIN k /\ Without(k, levels)[level] = k[level]
  BY DEF Without
<1> QED BY <1>1 DEF KeysSure, KeysFit

\* The queue may get longer.
LEMMA SureLonger ==
  ASSUME NEW k, NEW q, NEW t \in Nat, NEW i, NEW f, KeysSure(k, q, t, i, f),
         NEW r, Len(q) \in Nat, Len(r) \in Nat, Len(r) >= Len(q), \A n \in 1..Len(q) : r[n] = q[n]
  PROVE  KeysSure(k, r, t, i, f)
<1>1. ASSUME NEW level \in DOMAIN k
      PROVE  k[level].number < t + Len(r) /\ InQueue(k[level], r, t)
  <2>1. k[level].number \in Int /\ k[level].number < t + Len(q) /\ InQueue(k[level], q, t)
    BY DEF KeysSure, KeysFit
  <2> PICK n \in Int : n = k[level].number
    BY <2>1
  <2>2. n - t + 1 \in 1..Len(q)
    BY <2>1 DEF InQueue
  <2> QED BY <2>1, <2>2 DEF InQueue
<1> QED BY <1>1 DEF KeysSure, KeysFit

LEMMA SureFit ==
  ASSUME NEW k, NEW q, NEW t, NEW i \in Nat, NEW f, KeysSure(k, q, t, i, f),
         NEW j \in Nat, i <= j
  PROVE  KeysFit(k, q, t, j, f)
BY DEF KeysSure, KeysFit

\* Another level than the last one is possible only below.
LEMMA SureBelow ==
  ASSUME NEW k, NEW q, NEW t, NEW i, NEW f \in Int, KeysSure(k, q, t, i, f), NEW g \in Int, g >= f - 1
  PROVE  KeysSure(Without(k, {f}), q, t, i, g)
<1>1. \A level \in DOMAIN Without(k, {f}) :
        level \in DOMAIN k /\ level # f /\ Without(k, {f})[level] = k[level]
  BY DEF Without
<1>2. \A level \in DOMAIN Without(k, {f}) : level \in Int /\ level <= g
  BY <1>1 DEF KeysSure, KeysFit
<1> QED BY <1>1, <1>2 DEF KeysSure, KeysFit

LEMMA SureAbove ==
  ASSUME NEW k, NEW q, NEW t, NEW i, NEW f \in Int, KeysSure(k, q, t, i, f), NEW g \in Int, g >= f
  PROVE  KeysSure(k, q, t, i, g)
BY DEF KeysSure, KeysFit

\* save_possible_simple_key, and the token of the key.
LEMMA SavedSure ==
  ASSUME NEW r, Len(r.tokens) \in Nat, taken \in Nat, r.at \in Nat, flow \in Int,
         KeysSure(r.keys, r.tokens, taken, r.at, flow),
         NEW q, Len(q) = Len(r.tokens) + 1, \A n \in 1..Len(r.tokens) : q[n] = r.tokens[n],
         q[Len(r.tokens) + 1].at = r.at
  PROVE  KeysSure(Saved(r), q, taken, r.at, flow)
<1>1. KeysSure(r.keys, q, taken, r.at, flow)
  BY SureLonger
<1>2. CASE r.allow
  <2> DEFINE key == [number |-> taken + Len(r.tokens), at |-> r.at,
                     required |-> flow = 0 /\ Last(r.indents) = r.column]
             k == Saved(r)
  <2>1. k = [level \in DOMAIN r.keys \cup {flow} |-> IF level # flow THEN r.keys[level] ELSE key]
    BY <1>2 DEF Saved
  <2>2. DOMAIN k = DOMAIN r.keys \cup {flow} /\ k[flow] = key
        /\ \A level \in DOMAIN k : level # flow => level \in DOMAIN r.keys /\ k[level] = r.keys[level]
    BY <2>1
  <2>3. key.number = taken + Len(r.tokens) /\ key.at = r.at
    OBVIOUS
  <2> HIDE DEF key, k
  <2>4. InQueue(key, q, taken)
    <3>1. taken + Len(r.tokens) - taken + 1 = Len(r.tokens) + 1 /\ taken <= taken + Len(r.tokens)
      OBVIOUS
    <3> QED BY <2>3, <3>1 DEF InQueue
  <2>5. \A level \in DOMAIN r.keys :
          /\ level \in Int /\ level <= flow /\ r.keys[level].number \in Int
          /\ r.keys[level].number < taken + Len(r.tokens)
    BY DEF KeysSure, KeysFit
  <2>6. ASSUME NEW l \in DOMAIN k, NEW m \in DOMAIN k, l < m PROVE k[l].number < k[m].number
    <3>1. l # flow
      <4>1. m \in Int /\ m <= flow
        BY <2>2, <2>5
      <4> QED BY <2>6, <4>1
    <3>2. CASE m = flow
      BY <2>2, <2>3, <2>5, <3>1, <3>2
    <3>3. CASE m # flow
      <4>1. l \in DOMAIN r.keys /\ m \in DOMAIN r.keys /\ k[l] = r.keys[l] /\ k[m] = r.keys[m]
        BY <2>2, <3>1, <3>3
      <4> QED BY <2>6, <4>1 DEF KeysSure, KeysFit
    <3> QED BY <3>2, <3>3
  <2>7. ASSUME NEW level \in DOMAIN k
        PROVE  /\ level \in Int /\ level <= flow
               /\ k[level].at \in Nat /\ k[level].at <= r.at
               /\ k[level].number \in Int /\ k[level].number < taken + Len(q)
               /\ InQueue(k[level], q, taken)
    <3>1. CASE level = flow
      BY <2>2, <2>3, <2>4, <3>1
    <3>2. CASE level # flow
      BY <1>1, <2>2, <3>2 DEF KeysSure, KeysFit
    <3> QED BY <3>1, <3>2
  <2> QED BY <2>6, <2>7 DEF KeysSure, KeysFit, k
<1>3. CASE ~r.allow
  BY <1>1, <1>3 DEF Saved
<1> QED BY <1>2, <1>3

\* What is put in at a key moves none of the keys below it.
LEMMA SureInsert ==
  ASSUME NEW k, NEW q, NEW t \in Nat, NEW i, NEW f \in Int, KeysSure(k, q, t, i, f), f \in DOMAIN k,
         NEW r, Len(q) \in Nat, Len(r) \in Nat, Len(r) >= Len(q), \A n \in 1..(k[f].number - t) : r[n] = q[n]
  PROVE  KeysSure(Without(k, {f}), r, t, i, f)
<1>1. \A level \in DOMAIN Without(k, {f}) :
        level \in DOMAIN k /\ level # f /\ Without(k, {f})[level] = k[level]
  BY DEF Without
<1>2. KeysSure(Without(k, {f}), q, t, i, f)
  BY SureWithout
<1>3. ASSUME NEW level \in DOMAIN k, level # f
      PROVE  k[level].number < t + Len(r) /\ InQueue(k[level], r, t)
  <2>1. k[level].number \in Int /\ k[level].number < t + Len(q) /\ InQueue(k[level], q, t)
    BY DEF KeysSure, KeysFit
  <2>2. level \in Int /\ level <= f /\ level < f
    BY <1>3 DEF KeysSure, KeysFit
  <2>3. k[level].number < k[f].number /\ k[f].number \in Int
    BY <2>2 DEF KeysSure, KeysFit
  <2> PICK n \in Int : n = k[level].number
    BY <2>1
  <2>4. n - t + 1 \in 1..(k[f].number - t)
    BY <2>1, <2>3 DEF InQueue
  <2> QED BY <2>1, <2>4 DEF InQueue
<1> QED BY <1>1, <1>2, <1>3 DEF KeysSure, KeysFit

-----------------------------------------------------------------------------
(***************************************************************************)
(* The invariant of the scanner: the levels grow, the queue is in the order*)
(* of the text and ends before the reader, and the keys fit.               *)
(***************************************************************************)
ScanInv ==
  /\ index \in Pos /\ Grow(indents) /\ flow \in Int /\ taken \in Nat
  /\ Queue(tokens) /\ (~done => Line(tokens, index))
  /\ KeysFit(keys, tokens, taken, index, flow)
  /\ done => DOMAIN keys = {}

\* ScanInv looks at the text and the scanner only.
LEMMA SameScanInv ==
  ASSUME ScanInv, text' = text, UNCHANGED scannerVars
  PROVE  ScanInv'
<1>1. (index \in Pos /\ Grow(indents) /\ flow \in Int /\ taken \in Nat)'
  BY DEF ScanInv, scannerVars, Pos, Grow
<1>2. (Queue(tokens) /\ (~done => Line(tokens, index)))'
  BY DEF ScanInv, scannerVars, Queue, Follows, Line
<1>3. KeysFit(keys, tokens, taken, index, flow)'
  <2>1. KeysFit(keys, tokens, taken, index, flow)
    BY DEF ScanInv
  <2>2. \A key, i : StaleAt(key, i)' <=> StaleAt(key, i)
    BY DEF StaleAt, LineStart, EndsLine, At
  <2>3. keys' = keys /\ tokens' = tokens /\ taken' = taken /\ index' = index /\ flow' = flow
    BY DEF scannerVars
  <2> QED BY <2>1, <2>2, <2>3 DEF KeysFit, InQueue
<1>4. (done => DOMAIN keys = {})'
  BY DEF ScanInv, scannerVars
<1> QED BY <1>1, <1>2, <1>3, <1>4 DEF ScanInv

LEMMA SameText ==
  ASSUME text' = text
  PROVE  /\ Pos' = Pos
         /\ \A k, q, t, i, f : KeysFit(k, q, t, i, f)' <=> KeysFit(k, q, t, i, f)
BY DEF Pos, KeysFit, InQueue, StaleAt, LineStart, EndsLine, At

\* What a step of fetch_more_tokens begins with.
Begun(r) ==
  /\ r.at \in Pos /\ r.at \in Nat /\ r.column \in Int
  /\ Grow(r.indents)
  /\ Line(r.tokens, r.at) /\ Len(r.tokens) \in Nat
  /\ KeysSure(r.keys, r.tokens, taken, r.at, flow)

LEMMA ReadyBegins ==
  ASSUME TextOK, ScanInv, ~done
  PROVE  /\ Begun(Ready) /\ Ready.type = Indicator(Ready.at)
         /\ \A level \in 1..Len(indents) :
              /\ Line(Unwound(tokens, level, Ready.at), Ready.at)
              /\ KeysSure(Ready.keys, Unwound(tokens, level, Ready.at), taken, Ready.at, flow)
<1> DEFINE at == Ready.at
<1>1. index \in Pos /\ Grow(indents) /\ flow \in Int /\ taken \in Nat /\ Line(tokens, index)
      /\ KeysFit(keys, tokens, taken, index, flow) /\ Len(text) \in Nat
  BY DEF ScanInv, TextOK
<1>2. /\ at \in Pos /\ at >= index /\ Ready.type = Indicator(at)
      /\ Ready.column \in Nat /\ Ready.keys = Fresh(at)
  BY <1>1, ReadyIs
<1>3. PICK level \in 1..Len(indents) :
        Ready.indents = SubSeq(indents, 1, level) /\ Ready.tokens = Unwound(tokens, level, at)
  BY <1>1, ReadyIs
<1> HIDE DEF at
<1>4. at \in Nat /\ index \in Nat /\ index <= at
  BY <1>1, <1>2 DEF Pos
<1>5. KeysSure(Ready.keys, tokens, taken, at, flow)
  BY <1>1, <1>2, <1>4, FreshSure
<1>6. ASSUME NEW l \in 1..Len(indents)
      PROVE  /\ Line(Unwound(tokens, l, at), at) /\ Len(Unwound(tokens, l, at)) \in Nat
             /\ KeysSure(Ready.keys, Unwound(tokens, l, at), taken, at, flow)
  <2>1. /\ Line(Unwound(tokens, l, at), at) /\ Len(Unwound(tokens, l, at)) >= Len(tokens)
        /\ \A n \in 1..Len(tokens) : Unwound(tokens, l, at)[n] = tokens[n]
    BY <1>1, <1>4, LineUnwound
  <2>2. Len(Unwound(tokens, l, at)) \in Nat /\ Len(tokens) \in Nat
    BY <1>1, <2>1, SeqLen DEF Line, Queue
  <2> QED BY <1>1, <1>5, <2>1, <2>2, SureLonger
<1>7. Grow(Ready.indents)
  BY <1>1, <1>3, GrowPrefix
<1> QED BY <1>2, <1>3, <1>4, <1>6, <1>7 DEF Begun, at

\* A step after which everything fits again.
Scans == /\ index' \in Pos /\ Grow(indents') /\ flow' \in Int /\ taken' = taken
        /\ Line(tokens', index') /\ KeysFit(keys', tokens', taken, index', flow')
        /\ done' = done

\* A token with characters is put behind the queue.
LEMMA Behind ==
  ASSUME NEW r, r.at \in Nat, NEW q, Line(q, r.at), NEW k, NEW g \in Int, taken \in Nat,
         KeysSure(k, q, taken, r.at, g), NEW token, token.at = r.at, NEW j \in Nat, j > r.at
  PROVE  Line(Append(q, token), j) /\ KeysFit(k, Append(q, token), taken, j, g)
<1>1. Len(q) \in Nat
  BY SeqLen DEF Line, Queue
<1>2. Line(Append(q, token), j) /\ Len(Append(q, token)) = Len(q) + 1 /\ \A n \in 1..Len(q) : Append(q, token)[n] = q[n]
  BY LineAppend
<1>3. KeysSure(k, Append(q, token), taken, r.at, g)
  <2>1. Len(Append(q, token)) \in Nat /\ Len(Append(q, token)) >= Len(q)
    BY <1>1, <1>2
  <2> QED BY <1>1, <1>2, <2>1, SureLonger
<1> QED BY <1>2, <1>3, SureFit

\* The token is what a saved key is of.
LEMMA BehindSaved ==
  ASSUME NEW r, Begun(r), taken \in Nat, flow \in Int,
         NEW token, token.at = r.at, NEW j \in Nat, j > r.at, NEW g \in Int, g >= flow
  PROVE  Line(Append(r.tokens, token), j) /\ KeysFit(Saved(r), Append(r.tokens, token), taken, j, g)
<1> DEFINE q == Append(r.tokens, token)
<1>1. Line(q, j) /\ Len(q) = Len(r.tokens) + 1 /\ q[Len(r.tokens) + 1] = token
      /\ \A n \in 1..Len(r.tokens) : q[n] = r.tokens[n]
  BY LineAppend DEF Begun
<1> HIDE DEF q
<1>2. KeysSure(Saved(r), q, taken, r.at, flow)
  BY <1>1, SavedSure DEF Begun
<1>3. KeysSure(Saved(r), q, taken, r.at, g)
  BY <1>2, SureAbove
<1>4. KeysFit(Saved(r), q, taken, j, g)
  BY <1>3, SureFit DEF Begun
<1> QED BY <1>1, <1>4 DEF q

LEMMA OpeningFits ==
  ASSUME NEW r, Begun(r), taken \in Nat, flow \in Int, NEW type \in ZeroWidth
  PROVE  /\ Line(Opening(r, type), r.at) /\ KeysSure(r.keys, Opening(r, type), taken, r.at, flow)
<1> DEFINE token == Token(type, r.at)
<1>1. CASE flow = 0 /\ Last(r.indents) < r.column
  <2>1. Opening(r, type) = Append(r.tokens, token)
    BY <1>1 DEF Opening
  <2>2. token.at = r.at /\ token.type = type
    BY DEF Token
  <2> HIDE DEF token
  <2>3. /\ Line(Append(r.tokens, token), r.at) /\ Len(Append(r.tokens, token)) = Len(r.tokens) + 1
        /\ \A n \in 1..Len(r.tokens) : Append(r.tokens, token)[n] = r.tokens[n]
    BY <2>2, LineAppend DEF Begun
  <2>4. Len(r.tokens) \in Nat /\ Len(Append(r.tokens, token)) \in Nat /\ Len(Append(r.tokens, token)) >= Len(r.tokens)
    BY <2>3 DEF Begun
  <2>5. KeysSure(r.keys, Append(r.tokens, token), taken, r.at, flow)
    BY <2>3, <2>4, SureLonger DEF Begun
  <2> QED BY <2>1, <2>3, <2>5
<1>2. CASE ~(flow = 0 /\ Last(r.indents) < r.column)
  BY <1>2 DEF Opening, Begun
<1> QED BY <1>1, <1>2

LEMMA RemovedSure ==
  ASSUME NEW k, NEW q, NEW t, NEW i, flow \in Int, KeysSure(k, q, t, i, flow), NEW g \in Int, g >= flow - 1
  PROVE  KeysSure(Removed(k), q, t, i, g)
BY SureBelow DEF Removed

\* A step that puts one token with characters behind a queue.
LEMMA AppendFits ==
  ASSUME NEW r, Begun(r), taken \in Nat, index' \in Pos, index' \in Nat, index' > r.at, taken' = taken, done' = done,
         Grow(indents'), flow' \in Int,
         NEW q, Line(q, r.at), NEW k, KeysSure(k, q, taken, r.at, flow'), keys' = k,
         NEW token, token.at = r.at, tokens' = Append(q, token)
  PROVE  Scans
<1> PICK j \in Nat : j = index'
  OBVIOUS
<1> PICK g \in Int : g = flow'
  OBVIOUS
<1>1. Line(Append(q, token), j) /\ KeysFit(k, Append(q, token), taken, j, g)
  BY Behind DEF Begun
<1> QED BY <1>1 DEF Scans

LEMMA ScansUnwound ==
  ASSUME NEW r, Begun(r), taken \in Nat, flow \in Int, index' \in Pos, index' \in Nat, index' > r.at, taken' = taken,
         Grow(indents), Line(Unwound(tokens, Level(-1), r.at), r.at),
         KeysSure(r.keys, Unwound(tokens, Level(-1), r.at), taken, r.at, flow),
         \/ \E directive : FetchDirective(r, directive)
         \/ FetchDocumentIndicator(r)
  PROVE  Scans
<1>1. /\ keys' = Removed(r.keys) /\ flow' = flow /\ done' = done
      /\ indents' = SubSeq(indents, 1, Level(-1))
  BY DEF FetchDirective, FetchDocumentIndicator
<1>2. Grow(indents')
  BY <1>1, LevelIs, GrowPrefix
<1>3. \E token : token.at = r.at /\ tokens' = Append(Unwound(tokens, Level(-1), r.at), token)
  <2>1. CASE FetchDocumentIndicator(r)
    <3>1. Token(r.type, r.at).at = r.at
      BY DEF Token
    <3> QED BY <2>1, <3>1 DEF FetchDocumentIndicator, Emit
  <2>2. CASE \E directive : FetchDirective(r, directive)
    <3> PICK directive : FetchDirective(r, directive)
      BY <2>2
    <3>1. [Token("Directive", r.at) EXCEPT !.value = directive.value].at = r.at
      BY DEF Token
    <3> QED BY <3>1 DEF FetchDirective
  <2> QED BY <2>1, <2>2
<1>4. KeysSure(Removed(r.keys), Unwound(tokens, Level(-1), r.at), taken, r.at, flow)
  BY RemovedSure
<1> QED BY <1>1, <1>2, <1>3, <1>4, AppendFits

LEMMA ScansPlain ==
  ASSUME NEW r, Begun(r), taken \in Nat, flow \in Int, index' \in Pos, index' \in Nat, index' > r.at, taken' = taken,
         FetchFlowCollectionEnd(r) \/ FetchFlowEntry(r) \/ \E scalar : FetchBlockScalar(r, scalar)
  PROVE  Scans
<1>1. /\ keys' = Removed(r.keys) /\ flow' \in {flow, flow - 1} /\ done' = done /\ indents' = r.indents
  BY DEF FetchFlowCollectionEnd, FetchFlowEntry, FetchBlockScalar
<1>2. \E token : token.at = r.at /\ tokens' = Append(r.tokens, token)
  <2>1. CASE FetchFlowCollectionEnd(r) \/ FetchFlowEntry(r)
    <3>1. Token(r.type, r.at).at = r.at /\ Token("FlowEntry", r.at).at = r.at
      BY DEF Token
    <3> QED BY <2>1, <3>1 DEF FetchFlowCollectionEnd, FetchFlowEntry, Emit
  <2>2. CASE \E scalar : FetchBlockScalar(r, scalar)
    <3> PICK scalar : FetchBlockScalar(r, scalar)
      BY <2>2
    <3>1. [Token("Scalar", r.at) EXCEPT !.value = scalar.value].at = r.at
      BY DEF Token
    <3> QED BY <3>1 DEF FetchBlockScalar
  <2> QED BY <2>1, <2>2
<1> PICK g \in Int : g = flow' /\ g >= flow - 1
  BY <1>1
<1>3. KeysSure(Removed(r.keys), r.tokens, taken, r.at, g)
  BY RemovedSure DEF Begun
<1> QED BY <1>1, <1>2, <1>3, AppendFits DEF Begun

LEMMA ScansSaved ==
  ASSUME NEW r, Begun(r), taken \in Nat, flow \in Int, index' \in Pos, index' \in Nat, index' > r.at, taken' = taken,
         FetchFlowCollectionStart(r) \/ \E scanned : FetchNodePart(r, scanned)
  PROVE  Scans
<1>1. /\ keys' = Saved(r) /\ flow' \in {flow, flow + 1} /\ done' = done /\ indents' = r.indents
  BY DEF FetchFlowCollectionStart, FetchNodePart
<1>2. \E token : token.at = r.at /\ tokens' = Append(r.tokens, token)
  <2>1. CASE FetchFlowCollectionStart(r)
    <3>1. Token(r.type, r.at).at = r.at
      BY DEF Token
    <3> QED BY <2>1, <3>1 DEF FetchFlowCollectionStart, Emit
  <2>2. CASE \E scanned : FetchNodePart(r, scanned)
    <3> PICK scanned : FetchNodePart(r, scanned)
      BY <2>2
    <3> DEFINE token == [type |-> IF r.type \in {"Quoted", "Plain"} THEN "Scalar" ELSE r.type,
                         at |-> r.at, value |-> scanned.value, plain |-> r.type = "Plain"]
    <3>1. token.at = r.at
      OBVIOUS
    <3>2. tokens' = Append(r.tokens, token)
      BY DEF FetchNodePart
    <3> QED BY <3>1, <3>2
  <2> QED BY <2>1, <2>2
<1> PICK g \in Int : g = flow' /\ g >= flow
  BY <1>1
<1> PICK j \in Nat : j = index' /\ j > r.at
  OBVIOUS
<1> PICK token : token.at = r.at /\ tokens' = Append(r.tokens, token)
  BY <1>2
<1>3. Line(Append(r.tokens, token), j) /\ KeysFit(Saved(r), Append(r.tokens, token), taken, j, g)
  BY BehindSaved
<1> QED BY <1>1, <1>3 DEF Scans, Begun

LEMMA ScansOpening ==
  ASSUME NEW r, Begun(r), taken \in Nat, flow \in Int, index' \in Pos, index' \in Nat, index' > r.at, taken' = taken,
         FetchBlockEntry(r) \/ FetchKey(r) \/ FetchValue(r)
  PROVE  Scans
<1>1. /\ keys' \in {Removed(r.keys), r.keys} /\ flow' = flow /\ done' = done
      /\ indents' \in {Indented(r, r.column), r.indents}
  BY DEF FetchBlockEntry, FetchKey, FetchValue
<1>2. Grow(indents')
  BY <1>1, GrowAppend DEF Begun, Indented
<1>3. \E type \in ZeroWidth : \E token : token.at = r.at /\ tokens' = Append(Opening(r, type), token)
  <2>1. \A type : Token(type, r.at).at = r.at
    BY DEF Token
  <2>2. "BlockSequenceStart" \in ZeroWidth /\ "BlockMappingStart" \in ZeroWidth
    BY DEF ZeroWidth
  <2> QED BY <2>1, <2>2, Zenon DEF FetchBlockEntry, FetchKey, FetchValue, Emit
<1> PICK type \in ZeroWidth : \E token : token.at = r.at /\ tokens' = Append(Opening(r, type), token)
  BY <1>3
<1>4. /\ Line(Opening(r, type), r.at) /\ KeysSure(r.keys, Opening(r, type), taken, r.at, flow)
  BY OpeningFits
<1>5. KeysSure(Removed(r.keys), Opening(r, type), taken, r.at, flow)
  BY <1>4, RemovedSure
<1> QED BY <1>1, <1>2, <1>4, <1>5, AppendFits

LEMMA ScansSimpleValue ==
  ASSUME NEW r, Begun(r), taken \in Nat, flow \in Int, index' \in Pos, index' \in Nat, index' > r.at, taken' = taken,
         FetchSimpleValue(r)
  PROVE  Scans
<1> DEFINE key == r.keys[flow]
           opens == flow = 0 /\ Last(r.indents) < Column(key.at)
           put == (IF opens THEN <<Token("BlockMappingStart", key.at)>> ELSE <<>>) \o <<Token("Key", key.at)>>
           p == Place(key)
           q == SubSeq(r.tokens, 1, p) \o put \o SubSeq(r.tokens, p + 1, Len(r.tokens))
<1>1. /\ flow \in DOMAIN r.keys /\ keys' = Removed(r.keys) /\ flow' = flow /\ done' = done
      /\ tokens' = Append(q, Token("Value", r.at))
      /\ indents' = IF flow = 0 THEN Indented(r, Column(key.at)) ELSE r.indents
  BY DEF FetchSimpleValue, Emit
<1>2. /\ key.at \in Nat /\ key.number \in Int /\ key.number < taken + Len(r.tokens)
      /\ taken <= key.number /\ r.tokens[key.number - taken + 1].at = key.at
  BY <1>1 DEF Begun, KeysSure, KeysFit, InQueue
<1>3. p = key.number - taken /\ p \in 0..(Len(r.tokens) - 1) /\ r.tokens[p + 1].at = key.at
  <2>1. p = key.number - taken
    BY Zenon DEF Place
  <2>2. PICK n \in Int : n = key.number
    BY <1>2
  <2>3. PICK l \in Nat : l = Len(r.tokens)
    BY DEF Begun
  <2> HIDE DEF key, p
  <2>4. p = n - taken /\ taken <= n /\ n < taken + l
    BY <1>2, <2>1, <2>2, <2>3
  <2>5. p \in 0..(l - 1)
    BY <2>4
  <2> QED BY <1>2, <2>1, <2>3, <2>5
<1>4. Marks(put, key.at)
  <2> DEFINE block == Token("BlockMappingStart", key.at)
             mark == Token("Key", key.at)
  <2>1. block.at = key.at /\ mark.at = key.at /\ block.type \in ZeroWidth /\ mark.type \in ZeroWidth
    BY DEF Token, ZeroWidth
  <2>2. Marks(<<block>>, key.at) /\ Marks(<<>>, key.at) /\ Marks(<<mark>>, key.at)
    <3> HIDE DEF block, mark
    <3>1. <<block>> \in Seq({block}) /\ <<mark>> \in Seq({mark}) /\ <<>> \in Seq({mark})
      OBVIOUS
    <3>2. Len(<<block>>) = 1 /\ Len(<<mark>>) = 1 /\ Len(<<>>) = 0 /\ <<block>>[1] = block /\ <<mark>>[1] = mark
      OBVIOUS
    <3>3. 1..1 = {1} /\ 1..0 = {}
      OBVIOUS
    <3>4. Marks(<<>>, key.at)
      BY <3>1, <3>2, <3>3 DEF Marks, IsSeq
    <3>5. Marks(<<block>>, key.at)
      BY <2>1, <3>1, <3>2, <3>3, Zenon DEF Marks, IsSeq
    <3>6. Marks(<<mark>>, key.at)
      BY <2>1, <3>1, <3>2, <3>3, Zenon DEF Marks, IsSeq
    <3> QED BY <3>4, <3>5, <3>6
  <2> DEFINE before == IF opens THEN <<block>> ELSE <<>>
  <2>3. Marks(before, key.at)
    BY <2>2
  <2> HIDE DEF before
  <2>4. Marks(before \o <<mark>>, key.at)
    BY <2>2, <2>3, MarksConcat
  <2> QED BY <2>4 DEF before
<1> HIDE DEF key, put, p
<1>5. Line(q, r.at) /\ Len(q) >= Len(r.tokens) /\ \A n \in 1..p : q[n] = r.tokens[n]
  <2>1. Marks(put, r.tokens[p + 1].at)
    BY <1>3, <1>4
  <2>2. Line(r.tokens, r.at) /\ r.at \in Nat
    BY DEF Begun
  <2>3. PICK t : t = r.tokens
    OBVIOUS
  <2>4. Line(t, r.at) /\ p \in 0..(Len(t) - 1) /\ Marks(put, t[p + 1].at)
    BY <1>3, <2>1, <2>2, <2>3
  <2>5. /\ Line(Inserted(t, p, put), r.at) /\ Len(Inserted(t, p, put)) >= Len(t)
        /\ \A n \in 1..p : Inserted(t, p, put)[n] = t[n]
    BY <2>2, <2>4, LineInsert
  <2>6. q = Inserted(t, p, put)
    BY <2>3, Zenon DEF Inserted
  <2> HIDE DEF q
  <2>7. Line(q, r.at) /\ Len(q) >= Len(t) /\ \A n \in 1..p : q[n] = t[n]
    BY <2>5, <2>6
  <2> QED BY <2>3, <2>7
<1> HIDE DEF q
<1>6. Len(q) \in Nat
  BY <1>5, SeqLen DEF Line, Queue
<1>7. KeysSure(Without(r.keys, {flow}), q, taken, r.at, flow)
  <2>1. r.keys[flow].number - taken = p
    BY <1>3 DEF key
  <2> QED BY <1>1, <1>5, <1>6, <2>1, SureInsert DEF Begun
<1>8. Grow(indents')
  <2>1. Column(key.at) \in Int
    <3> PICK a \in Nat : a = key.at
      BY <1>2
    <3>1. Column(a) \in Nat
      BY ColumnNat
    <3> QED BY <3>1
  <2>2. Grow(r.indents)
    BY DEF Begun
  <2>3. Grow(Indented(r, Column(key.at)))
    BY <2>1, <2>2, GrowAppend DEF Indented
  <2> QED BY <1>1, <2>2, <2>3
<1>9. Token("Value", r.at).at = r.at
  BY DEF Token
<1> QED BY <1>1, <1>5, <1>7, <1>8, <1>9, AppendFits DEF Removed

LEMMA FetchStep ==
  ASSUME TextOK, ScanInv, text' = text, FetchMoreTokens
  PROVE  ScanInv'
<1> DEFINE r == Ready
<1>1. ~done
  BY Zenon DEF FetchMoreTokens, NeedMore
<1>2. CASE UNCHANGED scannerVars
  BY <1>2, SameScanInv
<1>3. CASE ~UNCHANGED scannerVars
  <2>1. Fetch(r, Scan(r))
    BY <1>3, Zenon DEF FetchMoreTokens, ScannerError
  <2>2. /\ Begun(r) /\ r.type = Indicator(r.at)
        /\ \A level \in 1..Len(indents) :
             /\ Line(Unwound(tokens, level, r.at), r.at)
             /\ KeysSure(r.keys, Unwound(tokens, level, r.at), taken, r.at, flow)
    BY <1>1, ReadyBegins
  <2> HIDE DEF r
  <2>3. taken' = taken /\ taken \in Nat /\ flow \in Int /\ Grow(indents)
    BY <1>3, <2>1, Zenon DEF Fetch, ScannerError, ScanInv
  <2>4. Level(-1) \in 1..Len(indents)
    BY <2>3, LevelIs
  <2>5. /\ Line(Unwound(tokens, Level(-1), r.at), r.at)
        /\ KeysSure(r.keys, Unwound(tokens, Level(-1), r.at), taken, r.at, flow)
    BY <2>2, <2>4
  <2>6. CASE FetchStreamEnd(r)
    <3>1. /\ tokens' = Append(Unwound(tokens, Level(-1), r.at), Token("StreamEnd", r.at))
          /\ index' = r.at + 0 /\ indents' = SubSeq(indents, 1, Level(-1))
          /\ keys' = <<>> /\ done' = TRUE /\ flow' = flow
      BY <2>6 DEF FetchStreamEnd, Emit
    <3>2. Token("StreamEnd", r.at).at = r.at /\ r.at \in Nat /\ r.at \in Pos
      BY <2>2 DEF Token, Begun
    <3>3. Queue(tokens')
      BY <2>5, <3>1, <3>2, LineAppend
    <3>4. index' \in Pos' /\ Grow(indents')
      BY <2>3, <2>4, <3>1, <3>2, GrowPrefix, SameText
    <3>5. DOMAIN keys' = {}
      BY <3>1
    <3>6. KeysFit(keys', tokens', taken', index', flow')
      BY <3>5 DEF KeysFit
    <3>7. KeysFit(keys, tokens, taken, index, flow)'
      BY <3>6, SameText
    <3> QED BY <2>3, <3>1, <3>3, <3>4, <3>5, <3>7 DEF ScanInv
  <2>7. CASE ~FetchStreamEnd(r)
    <3> DEFINE Step ==
           \/ FetchDirective(r, Scan(r)) \/ FetchDocumentIndicator(r)
           \/ FetchFlowCollectionStart(r) \/ FetchFlowCollectionEnd(r) \/ FetchFlowEntry(r)
           \/ FetchBlockEntry(r) \/ FetchKey(r) \/ FetchSimpleValue(r) \/ FetchValue(r)
           \/ FetchNodePart(r, Scan(r)) \/ FetchBlockScalar(r, Scan(r))
    <3>1. Step
      BY <1>3, <2>1, <2>7, Zenon DEF Fetch, ScannerError
    <3>2. index' \in Pos /\ index' > r.at
      BY <2>2, <3>1, FetchMoves DEF Begun
    <3>3. index' \in Nat
      BY <3>2 DEF Pos, TextOK
    <3>4. Scans
      <4>1. CASE FetchDirective(r, Scan(r)) \/ FetchDocumentIndicator(r)
        BY <2>2, <2>3, <2>5, <3>2, <3>3, <4>1, ScansUnwound
      <4>2. CASE FetchFlowCollectionEnd(r) \/ FetchFlowEntry(r) \/ FetchBlockScalar(r, Scan(r))
        BY <2>2, <2>3, <3>2, <3>3, <4>2, ScansPlain
      <4>3. CASE FetchFlowCollectionStart(r) \/ FetchNodePart(r, Scan(r))
        BY <2>2, <2>3, <3>2, <3>3, <4>3, ScansSaved
      <4>4. CASE FetchBlockEntry(r) \/ FetchKey(r) \/ FetchValue(r)
        BY <2>2, <2>3, <3>2, <3>3, <4>4, ScansOpening
      <4>5. CASE FetchSimpleValue(r)
        BY <2>2, <2>3, <3>2, <3>3, <4>5, ScansSimpleValue
      <4> QED BY <3>1, <4>1, <4>2, <4>3, <4>4, <4>5
    <3>5. KeysFit(keys', tokens', taken', index', flow')
      BY <2>3, <3>4 DEF Scans
    <3>6. KeysFit(keys, tokens, taken, index, flow)'
      BY <3>5, SameText
    <3>7. index' \in Pos'
      BY <3>2, SameText
    <3>8. Line(tokens', index') /\ Queue(tokens') /\ done' = FALSE
      BY <1>1, <3>4 DEF Scans, Line, ScanInv
    <3> QED BY <2>3, <3>4, <3>6, <3>7, <3>8 DEF ScanInv, Scans
  <2> QED BY <2>6, <2>7
<1> QED BY <1>2, <1>3

-----------------------------------------------------------------------------
(***************************************************************************)
(* A step of the parser takes the first token or leaves the scanner alone. *)
(* It takes it only when no possible simple key is waiting for it.         *)
(***************************************************************************)
LEMMA ParseTakes ==
  ASSUME Parse
  PROVE  Look /\ (UNCHANGED scannerVars \/ TakeToken)
BY Zenon DEF Parse, ParserError, ParseStreamStart, ParseImplicitDocumentStart, ParseDocumentStart, ProcessDirective,
  ParseExplicitDocument, ParseDocumentContent, ParseDocumentEnd, ParseAlias, ParseAnchor, ParseTag, ParseContent,
  Start, TakeIndicator, ParseItem, ParseEmptyValue, ParseFirst, ParseEnd, ParseIndentlessSequenceEnd,
  ParseFlowSequenceEntryMappingEnd, ParseFlowEntry, ParseFlowItem, ParseInlineMapping, NoTake

\* The numbers of the keys that are not stale are behind the first token.
LEMMA NumbersBehind ==
  ASSUME ScanInv, Look, ~done, NEW level \in DOMAIN keys, ~StaleAt(keys[level], index)
  PROVE  keys[level].number > taken
<1> DEFINE numbers == {key.number : key \in Keys(Fresh(index))}
<1>1. ~NeedMore /\ tokens # <<>>
  BY DEF Look, Certain
<1>2. ~(taken \in numbers /\ \A n \in numbers : taken <= n)
  BY <1>1 DEF NeedMore
<1>3. \A l \in DOMAIN Fresh(index) : l \in DOMAIN keys /\ Fresh(index)[l] = keys[l] /\ ~StaleAt(keys[l], index)
  BY DEF Fresh, Without
<1>4. \A l \in DOMAIN keys : ~StaleAt(keys[l], index) => taken <= keys[l].number /\ keys[l].number \in Int
  BY DEF ScanInv, KeysFit, InQueue
<1>5. \A n \in numbers : taken <= n
  BY <1>3, <1>4 DEF Keys
<1>6. level \in DOMAIN Fresh(index) /\ Fresh(index)[level] = keys[level]
  BY DEF Fresh, Without
<1>7. keys[level].number \in numbers
  BY <1>6 DEF Keys
<1> HIDE DEF numbers
<1>8. keys[level].number # taken
  BY <1>2, <1>5, <1>7
<1> QED BY <1>4, <1>8 DEF ScanInv

LEMMA TakeStep ==
  ASSUME ScanInv, text' = text, Look, TakeToken
  PROVE  ScanInv'
<1>1. /\ tokens' = Tail(tokens) /\ taken' = taken + 1
      /\ index' = index /\ indents' = indents /\ flow' = flow /\ keys' = keys /\ done' = done
  BY DEF TakeToken, Take
<1>2. /\ IsSeq(tokens) /\ tokens # <<>> /\ Len(tokens) \in Nat /\ taken \in Nat
  BY SeqLen DEF ScanInv, Queue, Look
<1> PICK q : q = Tail(tokens)
  OBVIOUS
<1>3. IsSeq(q) /\ Len(q) = Len(tokens) - 1 /\ Len(tokens) >= 1 /\ \A n \in 1..(Len(tokens) - 1) : q[n] = tokens[n + 1]
  BY <1>2, SeqTail
<1>4. Queue(q)
  <2>1. \A n \in 1..Len(q) : q[n].at \in Nat
    <3> TAKE n \in 1..Len(q)
    <3>1. n \in 1..(Len(tokens) - 1) /\ n + 1 \in 1..Len(tokens)
      BY <1>2, <1>3
    <3> QED BY <1>3, <3>1 DEF ScanInv, Queue
  <2>2. \A n \in 1..(Len(q) - 1) : Follows(q[n], q[n + 1])
    <3> TAKE n \in 1..(Len(q) - 1)
    <3>1. n \in 1..(Len(tokens) - 1) /\ n + 1 \in 1..(Len(tokens) - 1)
      BY <1>2, <1>3
    <3>2. q[n] = tokens[n + 1] /\ q[n + 1] = tokens[(n + 1) + 1]
      BY <1>3, <3>1
    <3> QED BY <3>1, <3>2 DEF ScanInv, Queue
  <2> QED BY <1>3, <2>1, <2>2 DEF Queue
<1>5. ~done => Line(q, index)
  <2>1. ASSUME ~done, NEW n \in 1..Len(q) PROVE q[n].at < index \/ (q[n].at = index /\ q[n].type \in ZeroWidth)
    <3>1. n \in 1..(Len(tokens) - 1) /\ n + 1 \in 1..Len(tokens)
      BY <1>2, <1>3
    <3> QED BY <1>3, <2>1, <3>1 DEF ScanInv, Line
  <2> QED BY <1>4, <2>1 DEF Line
<1>6. KeysFit(keys, q, taken + 1, index, flow)
  <2>1. ASSUME NEW level \in DOMAIN keys
        PROVE  /\ keys[level].number < taken + 1 + Len(q)
               /\ StaleAt(keys[level], index) \/ InQueue(keys[level], q, taken + 1)
    <3>1. ~done
      BY <2>1 DEF ScanInv
    <3> PICK n \in Int : n = keys[level].number /\ n < taken + Len(tokens)
      BY DEF ScanInv, KeysFit
    <3>2. n < taken + 1 + Len(q)
      BY <1>2, <1>3
    <3>3. ASSUME ~StaleAt(keys[level], index) PROVE InQueue(keys[level], q, taken + 1)
      <4>1. n > taken
        BY <3>1, <3>3, NumbersBehind
      <4>2. tokens[n - taken + 1].at = keys[level].at
        BY <3>3 DEF ScanInv, KeysFit, InQueue
      <4>3. n - (taken + 1) + 1 \in 1..(Len(tokens) - 1) /\ (n - (taken + 1) + 1) + 1 = n - taken + 1
        BY <1>2, <4>1
      <4>4. q[n - (taken + 1) + 1] = tokens[n - taken + 1]
        BY <1>3, <4>3
      <4>5. taken + 1 <= n
        BY <1>2, <4>1
      <4> QED BY <4>2, <4>4, <4>5 DEF InQueue
    <3> QED BY <3>2, <3>3
  <2> QED BY <2>1 DEF ScanInv, KeysFit
<1>7. KeysFit(keys', tokens', taken', index', flow')
  BY <1>1, <1>6
<1>8. KeysFit(keys, tokens, taken, index, flow)'
  BY <1>7, SameText
<1>9. index' \in Pos'
  BY <1>1, SameText DEF ScanInv
<1> QED BY <1>1, <1>2, <1>4, <1>5, <1>8, <1>9 DEF ScanInv

LEMMA ScanInit ==
  ASSUME ScannerInit, TextOK
  PROVE  ScanInv
<1> DEFINE start == Token("StreamStart", 0)
<1>1. /\ index = 0 /\ tokens = <<start>> /\ taken = 0 /\ indents = <<-1>> /\ flow = 0 /\ done = FALSE
      /\ DOMAIN keys = {}
  BY DEF ScannerInit
<1>2. start.at = 0 /\ start.type \in ZeroWidth
  BY DEF Token, ZeroWidth
<1> HIDE DEF start
<1>3. tokens \in Seq({start}) /\ Len(tokens) = 1 /\ tokens[1] = start
  BY <1>1
<1>4. 1..1 = {1}
  OBVIOUS
<1>5. Line(tokens, index)
  <2>1. Queue(tokens)
    <3>1. Marks(tokens, 0)
      BY <1>2, <1>3, <1>4 DEF Marks, IsSeq
    <3> QED BY <3>1, MarksQueue
  <2>2. \A n \in 1..Len(tokens) : tokens[n].at = index /\ tokens[n].type \in ZeroWidth
    BY <1>1, <1>2, <1>3, <1>4
  <2> QED BY <2>1, <2>2 DEF Line
<1>6. Grow(indents)
  BY <1>1 DEF Grow
<1>7. index \in Pos
  BY <1>1 DEF Pos, TextOK
<1> QED BY <1>1, <1>5, <1>6, <1>7 DEF ScanInv, Line, KeysFit

LEMMA ScanStep ==
  ASSUME TextOK, ScanInv, [ParserNext]_<<text, scannerVars, parserVars, result>>
  PROVE  ScanInv' /\ TextOK'
<1>1. text' = text
  BY Zenon DEF ParserNext, Called
<1>2. TextOK'
  BY <1>1 DEF TextOK
<1>3. CASE ParserFetch
  BY <1>1, <1>2, <1>3, FetchStep DEF ParserFetch
<1>4. CASE Parse
  BY <1>1, <1>2, <1>4, ParseTakes, TakeStep, SameScanInv
<1>5. CASE UNCHANGED scannerVars
  BY <1>1, <1>2, <1>5, SameScanInv
<1>6. ParserFetch \/ Parse \/ UNCHANGED scannerVars
  BY Zenon DEF ParserNext, Called
<1> QED BY <1>2, <1>3, <1>4, <1>5, <1>6

-----------------------------------------------------------------------------
(***************************************************************************)
(* Every block collection is indented deeper than the one around it: what  *)
(* unwind_indent and add_indent (scanner.py) do to indents keeps it growing*)
(* from -1, whatever the text.                                             *)
(***************************************************************************)
THEOREM LevelsGrow == ParserSpec /\ TextOK => []IndentsGrow
<1>1. ScannerInit /\ TextOK => ScanInv
  BY ScanInit
<1>2. TextOK /\ ScanInv /\ [ParserNext]_<<text, scannerVars, parserVars, result>> => ScanInv' /\ TextOK'
  BY ScanStep
<1>3. ScanInv => IndentsGrow
  BY DEF ScanInv, Grow, IndentsGrow
<1> QED BY <1>1, <1>2, <1>3, PTL DEF ParserSpec

(***************************************************************************)
(* A token that may still turn out to begin a simple key stays in the      *)
(* queue until its ":" is found or it is too old (need_more_tokens,        *)
(* stale_possible_simple_keys), so its KEY can be put before it.           *)
(***************************************************************************)
THEOREM KeysComeInTime == ParserSpec /\ TextOK => []KeysInTime
<1>1. ScannerInit /\ TextOK => ScanInv
  BY ScanInit
<1>2. TextOK /\ ScanInv /\ [ParserNext]_<<text, scannerVars, parserVars, result>> => ScanInv' /\ TextOK'
  BY ScanStep
<1>3. ScanInv => KeysInTime
  <2> SUFFICES ASSUME ScanInv, NEW key \in Keys(Fresh(index))
               PROVE  taken <= key.number /\ key.number <= taken + Len(tokens)
    BY DEF KeysInTime
  <2> PICK level \in DOMAIN keys : key = keys[level] /\ ~StaleAt(keys[level], index)
    BY DEF Keys, Fresh, Without
  <2>1. taken <= key.number /\ key.number \in Int /\ key.number < taken + Len(tokens)
    BY DEF ScanInv, KeysFit, InQueue
  <2>2. taken \in Nat /\ Len(tokens) \in Nat
    BY SeqLen DEF ScanInv, Queue
  <2> QED BY <2>1, <2>2
<1> QED BY <1>1, <1>2, <1>3, PTL DEF ParserSpec

(***************************************************************************)
(* The queue is in the order of the text.  Only tokens without characters  *)
(* stand before a token at the same position: those that fetch_value       *)
(* (scanner.py) puts in behind the fact, the starts of block collections   *)
(* and the ends that unwind_indent adds.                                   *)
(***************************************************************************)
THEOREM TokensOrdered == ParserSpec /\ TextOK => []TokensInOrder
<1>1. ScannerInit /\ TextOK => ScanInv
  BY ScanInit
<1>2. TextOK /\ ScanInv /\ [ParserNext]_<<text, scannerVars, parserVars, result>> => ScanInv' /\ TextOK'
  BY ScanStep
<1>3. ScanInv => TokensInOrder
  BY DEF ScanInv, Queue, Follows, ZeroWidth, TokensInOrder
<1> QED BY <1>1, <1>2, <1>3, PTL DEF ParserSpec
=============================================================================
