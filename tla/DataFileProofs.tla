--------------------------- MODULE DataFileProofs ---------------------------
(***************************************************************************)
(* Theorems about the two parts of DataFile: extract_data finds the `_' of *)
(* each option when it needs it and puts it back, for every document and   *)
(* every schema none of whose options lies within itself; and the batch    *)
(* writer stores the latest reading of each key, for every file.           *)
(***************************************************************************)
EXTENDS DataFile, SequenceTheorems, TLAPS

IsFrame(f) ==
  DOMAIN f = {"node", "entries", "at", "nodes", "options", "subs", "field", "record"}

\* The frame is in the loops that its entry has.
FrameOK(inside, f) ==
  /\ IsFrame(f)
  /\ f.at \in {"entry", "nodes", "options"}
  /\ f.entries \in Seq(DOMAIN inside)
  /\ f.at # "entry" => f.entries # <<>>
  /\ f.at = "options" =>
       Head(f.entries).kind = "list" /\ f.options \in Seq(Range(Head(f.entries).options))

\* The option that the frame is trying.
Tried(f) == Head(f.options).id

\* A frame waits for the call above it.
Waiting(f) == f.at # "entry" /\ (f.at = "options" => f.options # <<>>)

\* The options that are deleted while the calls of frames run.
Deleted(frames) == {Tried(frames[i]) : i \in {j \in 2..Len(frames) : frames[j].at = "options"}}

IsSeq(s) == \E S : s \in Seq(S)

\* The calls above a frame do not meet the option that it is trying.
NestInv(inside) ==
  /\ IsSeq(stack) /\ stack # <<>>
  /\ \A i \in 1..Len(stack) : FrameOK(inside, stack[i])
  /\ \A i \in 2..Len(stack) : Waiting(stack[i])
  /\ \A i \in 2..Len(stack), j \in 1..Len(stack) :
       j < i /\ stack[i].at = "options" =>
         \A e \in Range(stack[j].entries) : Tried(stack[i]) \notin inside[e]
  /\ taken = Deleted(stack)
  /\ outcome # <<"raised", "KeyError">>

-----------------------------------------------------------------------------
(***************************************************************************)
(* Sequences.                                                              *)
(***************************************************************************)
LEMMA SeqShape ==
  ASSUME NEW s, IsSeq(s)
  PROVE  /\ Len(s) \in Nat /\ DOMAIN s = 1..Len(s)
         /\ s # <<>> => Len(s) > 0 /\ Head(s) = s[1] /\ Head(s) \in Range(s)
         /\ s # <<>> => IsSeq(Tail(s)) /\ Len(Tail(s)) = Len(s) - 1
         /\ s # <<>> => \A i \in 1..(Len(s) - 1) : Tail(s)[i] = s[i + 1]
         /\ s # <<>> => Range(Tail(s)) \subseteq Range(s)
<1> PICK S : s \in Seq(S)
  BY DEF IsSeq
<1>1. Len(s) \in Nat /\ DOMAIN s = 1..Len(s)
  BY LenProperties
<1>2. ASSUME s # <<>>
      PROVE  /\ Len(s) > 0 /\ Head(s) = s[1] /\ Head(s) \in Range(s)
             /\ Tail(s) \in Seq(S) /\ Len(Tail(s)) = Len(s) - 1
             /\ \A i \in 1..(Len(s) - 1) : Tail(s)[i] = s[i + 1]
             /\ Range(Tail(s)) \subseteq Range(s)
  <2>1. Len(s) \in Nat \ {0}
    BY <1>2, EmptySeq
  <2>2. Tail(s) \in Seq(S) /\ Len(Tail(s)) = Len(s) - 1 /\ \A i \in 1..(Len(s) - 1) : Tail(s)[i] = s[i + 1]
    BY <1>2, HeadTailProperties
  <2>3. Head(s) = s[1]
    BY <1>1, <2>1
  <2>4. 1 \in DOMAIN s
    BY <1>1, <2>1
  <2>5. Head(s) \in Range(s)
    BY <2>3, <2>4 DEF Range
  <2>6. DOMAIN Tail(s) = 1..(Len(s) - 1)
    BY <2>2, LenProperties
  <2>7. \A i \in 1..(Len(s) - 1) : i + 1 \in DOMAIN s
    BY <1>1
  <2>8. Range(Tail(s)) \subseteq Range(s)
    BY <2>2, <2>6, <2>7 DEF Range
  <2> QED BY <2>1, <2>2, <2>3, <2>5, <2>8
<1> QED BY <1>1, <1>2 DEF IsSeq

\* A frame put before others.
LEMMA OnTop ==
  ASSUME NEW s, IsSeq(s), NEW f
  PROVE  /\ IsSeq(<<f>> \o s) /\ <<f>> \o s # <<>> /\ Len(<<f>> \o s) = Len(s) + 1
         /\ (<<f>> \o s)[1] = f
         /\ \A i \in 2..(Len(s) + 1) : (<<f>> \o s)[i] = s[i - 1]
<1> PICK S : s \in Seq(S)
  BY DEF IsSeq
<1> PICK T : T = S \cup {f}
  OBVIOUS
<1>1. s \in Seq(T)
  BY SeqMonotonic
<1>2. <<f>> \in Seq(T) /\ Len(<<f>>) = 1 /\ <<f>>[1] = f
  OBVIOUS
<1>3. Len(s) \in Nat
  BY LenProperties
<1>4. /\ <<f>> \o s \in Seq(T) /\ Len(<<f>> \o s) = 1 + Len(s)
      /\ \A i \in 1..(1 + Len(s)) : (<<f>> \o s)[i] = IF i <= 1 THEN <<f>>[i] ELSE s[i - 1]
  BY <1>1, <1>2, ConcatProperties
<1>5. <<f>> \o s # <<>>
  BY <1>3, <1>4, EmptySeq
<1>6. IsSeq(<<f>> \o s)
  BY <1>4 DEF IsSeq
<1>7. Len(<<f>> \o s) = Len(s) + 1 /\ (<<f>> \o s)[1] = f
  BY <1>2, <1>3, <1>4
<1>8. \A i \in 2..(Len(s) + 1) : (<<f>> \o s)[i] = s[i - 1]
  BY <1>3, <1>4
<1> QED BY <1>5, <1>6, <1>7, <1>8

-----------------------------------------------------------------------------
(***************************************************************************)
(* What the three kinds of steps do to the stack: the innermost call goes  *)
(* on, it calls extract_data, or it returns to its caller.                 *)
(***************************************************************************)
\* The option that a frame is trying is one of its entry.
LEMMA TriedInside ==
  ASSUME NEW inside, NestedOptions(inside), NEW f, FrameOK(inside, f), f.at = "options", f.options # <<>>
  PROVE  /\ Head(f.entries) \in DOMAIN inside /\ Head(f.entries) \in Range(f.entries)
         /\ Head(f.options) \in Range(Head(f.entries).options)
         /\ Tried(f) \in inside[Head(f.entries)]
<1>1. Head(f.entries) \in DOMAIN inside /\ Head(f.entries) \in Range(f.entries)
  <2>1. f.entries \in Seq(DOMAIN inside) /\ f.entries # <<>>
    BY DEF FrameOK
  <2> QED BY <2>1, HeadTailProperties, SeqShape DEF IsSeq
<1>2. Head(f.entries).kind = "list" /\ Head(f.options) \in Range(Head(f.entries).options)
  <2>1. f.options \in Seq(Range(Head(f.entries).options))
    BY DEF FrameOK
  <2> QED BY <2>1, HeadTailProperties DEF FrameOK
<1> QED BY <1>1, <1>2 DEF NestedOptions, Tried

LEMMA GoesOn ==
  ASSUME NEW inside, NestInv(inside), NEW f, FrameOK(inside, f), Range(f.entries) \subseteq Range(Top.entries),
         stack' = <<f>> \o Tail(stack), taken' = taken, outcome' # <<"raised", "KeyError">>
  PROVE  NestInv(inside)'
<1>1. /\ IsSeq(stack) /\ stack # <<>> /\ Len(stack) \in Nat /\ Len(stack) > 0 /\ Top = stack[1]
      /\ IsSeq(Tail(stack)) /\ Len(Tail(stack)) = Len(stack) - 1
      /\ \A i \in 1..(Len(stack) - 1) : Tail(stack)[i] = stack[i + 1]
  BY SeqShape DEF NestInv, Top
<1>2. /\ IsSeq(stack') /\ stack' # <<>> /\ Len(stack') = Len(stack) /\ stack'[1] = f
      /\ \A i \in 2..Len(stack) : stack'[i] = Tail(stack)[i - 1]
  BY <1>1, OnTop
<1>3. \A i \in 2..Len(stack) : stack'[i] = stack[i]
  <2> SUFFICES ASSUME NEW i \in 2..Len(stack) PROVE stack'[i] = stack[i]
    OBVIOUS
  <2>1. i - 1 \in 1..(Len(stack) - 1) /\ (i - 1) + 1 = i
    BY <1>1
  <2> QED BY <1>1, <1>2, <2>1
<1>4. \A i \in 1..Len(stack') : FrameOK(inside, stack'[i])
  BY <1>1, <1>2, <1>3 DEF NestInv
<1>5. \A i \in 2..Len(stack') : Waiting(stack'[i])
  BY <1>2, <1>3 DEF NestInv
<1>6. ASSUME NEW i \in 2..Len(stack'), NEW j \in 1..Len(stack'), j < i, stack'[i].at = "options",
             NEW e \in Range(stack'[j].entries)
      PROVE  Tried(stack'[i]) \notin inside[e]
  <2>1. stack'[i] = stack[i]
    BY <1>2, <1>3
  <2>2. e \in Range(stack[j].entries)
    <3>1. CASE j = 1
      BY <1>1, <1>2, <1>6, <3>1
    <3>2. CASE j # 1
      BY <1>2, <1>3, <1>6, <3>2
    <3> QED BY <3>1, <3>2
  <2> QED BY <1>2, <1>6, <2>1, <2>2 DEF NestInv
<1>7. Deleted(stack') = Deleted(stack)
  BY <1>2, <1>3 DEF Deleted
<1> QED BY <1>2, <1>4, <1>5, <1>6, <1>7 DEF NestInv

LEMMA Calls ==
  ASSUME NEW inside, NestInv(inside), NEW f, FrameOK(inside, f), Waiting(Top),
         \A e \in Range(f.entries) :
           /\ inside[e] \subseteq inside[Head(Top.entries)]
           /\ Top.at = "options" => Tried(Top) \notin inside[e],
         stack' = <<f>> \o stack,
         taken' = taken \cup (IF Top.at = "options" THEN {Tried(Top)} ELSE {}),
         outcome' # <<"raised", "KeyError">>
  PROVE  NestInv(inside)'
<1>1. IsSeq(stack) /\ stack # <<>> /\ Len(stack) \in Nat /\ Len(stack) > 0 /\ Top = stack[1]
  BY SeqShape DEF NestInv, Top
<1>2. /\ IsSeq(stack') /\ stack' # <<>> /\ Len(stack') = Len(stack) + 1 /\ stack'[1] = f
      /\ \A i \in 2..(Len(stack) + 1) : stack'[i] = stack[i - 1]
  BY <1>1, OnTop
<1>3. \A i \in 2..Len(stack') : i - 1 \in 1..Len(stack) /\ (i # 2 => i - 1 \in 2..Len(stack))
  BY <1>1, <1>2
<1>4. \A i \in 1..Len(stack') : FrameOK(inside, stack'[i])
  <2> SUFFICES ASSUME NEW i \in 1..Len(stack') PROVE FrameOK(inside, stack'[i])
    OBVIOUS
  <2>1. CASE i = 1
    BY <1>2, <2>1
  <2>2. CASE i # 1
    <3>1. i \in 2..Len(stack')
      BY <1>1, <1>2, <2>2
    <3> QED BY <1>2, <1>3, <3>1 DEF NestInv
  <2> QED BY <2>1, <2>2
<1>5. \A i \in 2..Len(stack') : Waiting(stack'[i])
  BY <1>1, <1>2, <1>3 DEF NestInv
<1>6. ASSUME NEW i \in 2..Len(stack'), NEW j \in 1..Len(stack'), j < i, stack'[i].at = "options",
             NEW e \in Range(stack'[j].entries)
      PROVE  Tried(stack'[i]) \notin inside[e]
  <2>1. stack'[i] = stack[i - 1]
    BY <1>2
  <2>2. CASE j = 1
    <3>1. e \in Range(f.entries)
      BY <1>2, <1>6, <2>2
    <3>2. CASE i = 2
      BY <1>1, <1>6, <2>1, <3>1, <3>2
    <3>3. CASE i # 2
      <4>1. i - 1 \in 2..Len(stack) /\ 1 \in 1..Len(stack) /\ 1 < i - 1
        BY <1>1, <1>2, <3>3
      <4>2. Head(Top.entries) \in Range(Top.entries)
        <5>1. FrameOK(inside, Top)
          BY <1>1 DEF NestInv
        <5> QED BY <5>1, SeqShape DEF FrameOK, Waiting, IsSeq
      <4>3. Tried(stack[i - 1]) \notin inside[Head(Top.entries)]
        BY <1>1, <1>6, <2>1, <4>1, <4>2 DEF NestInv
      <4> QED BY <2>1, <3>1, <4>3
    <3> QED BY <3>2, <3>3
  <2>3. CASE j # 1
    <3>1. j \in 2..Len(stack') /\ i # 2
      BY <1>1, <1>2, <1>6, <2>3
    <3>2. stack'[j] = stack[j - 1] /\ j - 1 \in 1..Len(stack) /\ i - 1 \in 2..Len(stack) /\ j - 1 < i - 1
      BY <1>1, <1>2, <1>3, <1>6, <3>1
    <3> QED BY <1>6, <2>1, <3>2 DEF NestInv
  <2> QED BY <2>2, <2>3
<1>7. Deleted(stack') = Deleted(stack) \cup (IF Top.at = "options" THEN {Tried(Top)} ELSE {})
  <2>1. ASSUME NEW i \in 2..Len(stack'), stack'[i].at = "options"
        PROVE  Tried(stack'[i]) \in Deleted(stack) \cup (IF Top.at = "options" THEN {Tried(Top)} ELSE {})
    <3>1. CASE i = 2
      BY <1>1, <1>2, <2>1, <3>1
    <3>2. CASE i # 2
      BY <1>2, <1>3, <2>1, <3>2 DEF Deleted
    <3> QED BY <3>1, <3>2
  <2>2. ASSUME NEW i \in 2..Len(stack), stack[i].at = "options"
        PROVE  Tried(stack[i]) \in Deleted(stack')
    <3>1. i + 1 \in 2..Len(stack') /\ stack'[i + 1] = stack[i]
      BY <1>1, <1>2
    <3> QED BY <2>2, <3>1 DEF Deleted
  <2>3. Top.at = "options" => Tried(Top) \in Deleted(stack')
    <3>1. 2 \in 2..Len(stack') /\ stack'[2] = Top
      BY <1>1, <1>2
    <3> QED BY <3>1 DEF Deleted
  <2> QED BY <2>1, <2>2, <2>3 DEF Deleted
<1> QED BY <1>2, <1>4, <1>5, <1>6, <1>7 DEF NestInv

LEMMA Returns ==
  ASSUME NEW inside, NestedOptions(inside), NestInv(inside), Len(stack) # 1, NEW f, FrameOK(inside, f),
         Range(f.entries) \subseteq Range(stack[2].entries),
         stack' = <<f>> \o Tail(Tail(stack)),
         taken' = taken \ (IF stack[2].at = "options" THEN {Tried(stack[2])} ELSE {}),
         outcome' # <<"raised", "KeyError">>
  PROVE  NestInv(inside)'
<1>1. /\ IsSeq(stack) /\ stack # <<>> /\ Len(stack) \in Nat /\ Len(stack) > 1
      /\ IsSeq(Tail(stack)) /\ Len(Tail(stack)) = Len(stack) - 1
      /\ \A i \in 1..(Len(stack) - 1) : Tail(stack)[i] = stack[i + 1]
  BY SeqShape DEF NestInv
<1>2. Tail(stack) # <<>>
  <2>1. Len(<<>>) = 0
    OBVIOUS
  <2> QED BY <1>1, <2>1
<1>3. /\ IsSeq(Tail(Tail(stack))) /\ Len(Tail(Tail(stack))) = Len(stack) - 2
      /\ \A i \in 1..(Len(stack) - 2) : Tail(Tail(stack))[i] = stack[i + 2]
  <2>1. /\ IsSeq(Tail(Tail(stack))) /\ Len(Tail(Tail(stack))) = Len(Tail(stack)) - 1
        /\ \A i \in 1..(Len(Tail(stack)) - 1) : Tail(Tail(stack))[i] = Tail(stack)[i + 1]
    BY <1>1, <1>2, SeqShape
  <2>2. ASSUME NEW i \in 1..(Len(stack) - 2) PROVE Tail(Tail(stack))[i] = stack[i + 2]
    <3>1. i \in 1..(Len(Tail(stack)) - 1) /\ i + 1 \in 1..(Len(stack) - 1) /\ (i + 1) + 1 = i + 2
      BY <1>1
    <3> QED BY <1>1, <2>1, <3>1
  <2> QED BY <1>1, <2>1, <2>2
<1>4. /\ IsSeq(stack') /\ stack' # <<>> /\ Len(stack') = Len(stack) - 1 /\ stack'[1] = f
      /\ \A i \in 2..(Len(stack) - 1) : stack'[i] = stack[i + 1]
  <2>1. /\ IsSeq(stack') /\ stack' # <<>> /\ Len(stack') = (Len(stack) - 2) + 1 /\ stack'[1] = f
        /\ \A i \in 2..((Len(stack) - 2) + 1) : stack'[i] = Tail(Tail(stack))[i - 1]
    BY <1>3, OnTop
  <2>2. ASSUME NEW i \in 2..(Len(stack) - 1) PROVE stack'[i] = stack[i + 1]
    <3>1. i - 1 \in 1..(Len(stack) - 2) /\ (i - 1) + 2 = i + 1 /\ i \in 2..((Len(stack) - 2) + 1)
      BY <1>1
    <3> QED BY <1>3, <2>1, <3>1
  <2> QED BY <1>1, <2>1, <2>2
<1>5. \A i \in 2..Len(stack') : i + 1 \in 3..Len(stack)
  BY <1>1, <1>4
<1>6. \A i \in 1..Len(stack') : FrameOK(inside, stack'[i])
  <2> SUFFICES ASSUME NEW i \in 1..Len(stack') PROVE FrameOK(inside, stack'[i])
    OBVIOUS
  <2>1. CASE i = 1
    BY <1>4, <2>1
  <2>2. CASE i # 1
    <3>1. i \in 2..Len(stack') /\ i + 1 \in 1..Len(stack)
      BY <1>1, <1>4, <2>2
    <3> QED BY <1>4, <3>1 DEF NestInv
  <2> QED BY <2>1, <2>2
<1>7. \A i \in 2..Len(stack') : Waiting(stack'[i])
  <2> SUFFICES ASSUME NEW i \in 2..Len(stack') PROVE Waiting(stack'[i])
    OBVIOUS
  <2>1. i + 1 \in 2..Len(stack)
    BY <1>5
  <2> QED BY <1>4, <2>1 DEF NestInv
<1>8. ASSUME NEW i \in 2..Len(stack'), NEW j \in 1..Len(stack'), j < i, stack'[i].at = "options",
             NEW e \in Range(stack'[j].entries)
      PROVE  Tried(stack'[i]) \notin inside[e]
  <2>1. stack'[i] = stack[i + 1] /\ i + 1 \in 2..Len(stack)
    BY <1>1, <1>4, <1>5
  <2>2. j + 1 \in 1..Len(stack) /\ j + 1 < i + 1 /\ e \in Range(stack[j + 1].entries)
    <3>1. CASE j = 1
      BY <1>1, <1>4, <1>8, <3>1
    <3>2. CASE j # 1
      BY <1>1, <1>4, <1>8, <3>2
    <3> QED BY <3>1, <3>2
  <2> QED BY <1>8, <2>1, <2>2 DEF NestInv
<1>9. Deleted(stack') = Deleted(stack) \ (IF stack[2].at = "options" THEN {Tried(stack[2])} ELSE {})
  <2>1. ASSUME NEW i \in 3..Len(stack), stack[i].at = "options"
        PROVE  Tried(stack[i]) \in Deleted(stack')
    <3>1. i - 1 \in 2..Len(stack') /\ stack'[i - 1] = stack[i]
      BY <1>1, <1>4
    <3> QED BY <2>1, <3>1 DEF Deleted
  <2>2. ASSUME NEW i \in 2..Len(stack'), stack'[i].at = "options"
        PROVE  /\ Tried(stack'[i]) \in Deleted(stack)
               /\ stack[2].at = "options" => Tried(stack'[i]) # Tried(stack[2])
    <3>1. stack'[i] = stack[i + 1] /\ i + 1 \in 3..Len(stack) /\ i + 1 \in 2..Len(stack)
      BY <1>1, <1>4, <1>5
    <3>2. Tried(stack[i + 1]) \in Deleted(stack)
      BY <2>2, <3>1 DEF Deleted
    <3>3. ASSUME stack[2].at = "options" PROVE Tried(stack[i + 1]) # Tried(stack[2])
      <4>1. 2 \in 1..Len(stack) /\ 2 \in 2..Len(stack) /\ 2 < i + 1
        BY <1>1, <3>1
      <4> PICK e : e = Head(stack[2].entries)
        OBVIOUS
      <4>2. FrameOK(inside, stack[2]) /\ Waiting(stack[2])
        BY <4>1 DEF NestInv
      <4>3. e \in Range(stack[2].entries)
        BY <4>2, SeqShape DEF FrameOK, Waiting, IsSeq
      <4>4. Tried(stack[i + 1]) \notin inside[e]
        BY <2>2, <3>1, <4>1, <4>3 DEF NestInv
      <4> QED BY <3>3, <4>2, <4>4, TriedInside DEF Waiting
    <3> QED BY <3>1, <3>2, <3>3
  <2>3. \A i \in 2..Len(stack) : i = 2 \/ i \in 3..Len(stack)
    BY <1>1
  <2>4. ASSUME NEW x \in Deleted(stack'), stack[2].at = "options"
        PROVE  x \in Deleted(stack) /\ x # Tried(stack[2])
    BY <2>2, <2>4 DEF Deleted
  <2>5. Deleted(stack') \subseteq Deleted(stack)
    BY <2>2 DEF Deleted
  <2>6. ASSUME NEW x \in Deleted(stack), stack[2].at = "options" => x # Tried(stack[2])
        PROVE  x \in Deleted(stack')
    <3> PICK i \in 2..Len(stack) : stack[i].at = "options" /\ x = Tried(stack[i])
      BY DEF Deleted
    <3>1. i # 2
      BY <2>6
    <3> QED BY <2>1, <2>3, <3>1
  <2> QED BY <2>4, <2>5, <2>6
<1> QED BY <1>4, <1>6, <1>7, <1>8, <1>9 DEF NestInv

-----------------------------------------------------------------------------
(***************************************************************************)
(* The frames that the steps make.                                         *)
(***************************************************************************)
LEMMA NewFrame ==
  ASSUME NEW inside, NEW n, NEW sub \in Seq(DOMAIN inside)
  PROVE  FrameOK(inside, Frame(n, sub)) /\ Frame(n, sub).entries = sub
  BY DEF Frame, FrameOK, IsFrame

LEMMA EntryDoneOK ==
  ASSUME NEW inside, NEW f, FrameOK(inside, f), f.entries # <<>>, NEW field, NEW value
  PROVE  /\ FrameOK(inside, EntryDone(f, field, value))
         /\ Range(EntryDone(f, field, value).entries) \subseteq Range(f.entries)
<1>1. /\ IsFrame(EntryDone(f, field, value)) /\ EntryDone(f, field, value).at = "entry"
      /\ EntryDone(f, field, value).entries = Tail(f.entries)
  BY DEF EntryDone, FrameOK, IsFrame
<1>2. Tail(f.entries) \in Seq(DOMAIN inside) /\ Range(Tail(f.entries)) \subseteq Range(f.entries)
  <2>1. f.entries \in Seq(DOMAIN inside)
    BY DEF FrameOK
  <2> QED BY <2>1, SeqShape, HeadTailProperties DEF IsSeq
<1> QED BY <1>1, <1>2 DEF FrameOK

\* A frame that stays with its entry.
LEMMA StaysOK ==
  ASSUME NEW inside, NEW f, FrameOK(inside, f), f.entries # <<>>,
         NEW g, IsFrame(g), g.entries = f.entries, g.at \in {"nodes", "options"},
         g.at = "options" => Head(f.entries).kind = "list" /\ g.options \in Seq(Range(Head(f.entries).options))
  PROVE  FrameOK(inside, g) /\ Range(g.entries) \subseteq Range(f.entries)
  BY DEF FrameOK

LEMMA NodeDoneIs ==
  ASSUME NEW f, IsFrame(f), NEW sub
  PROVE  /\ IsFrame(NodeDone(f, sub)) /\ NodeDone(f, sub).entries = f.entries
         /\ NodeDone(f, sub).at = f.at /\ NodeDone(f, sub).options = f.options
  BY DEF NodeDone, IsFrame

LEMMA OptionTakenIs ==
  ASSUME NEW f, IsFrame(f), NEW sub
  PROVE  /\ IsFrame(OptionTaken(f, sub)) /\ OptionTaken(f, sub).entries = f.entries
         /\ OptionTaken(f, sub).at = "nodes"
  BY DEF OptionTaken, IsFrame

-----------------------------------------------------------------------------
LEMMA TopOK ==
  ASSUME NEW inside, NestInv(inside)
  PROVE  /\ FrameOK(inside, Top) /\ IsFrame(Top) /\ Top = stack[1]
         /\ Top.entries # <<>> => Entry \in DOMAIN inside /\ Entry \in Range(Top.entries)
<1>1. Top = stack[1] /\ Len(stack) \in Nat /\ Len(stack) > 0
  BY SeqShape DEF NestInv, Top
<1>2. FrameOK(inside, Top)
  BY <1>1 DEF NestInv
<1>3. ASSUME Top.entries # <<>> PROVE Entry \in DOMAIN inside /\ Entry \in Range(Top.entries)
  <2>1. Top.entries \in Seq(DOMAIN inside)
    BY <1>2 DEF FrameOK
  <2> QED BY <1>3, <2>1, HeadTailProperties, SeqShape DEF IsSeq, Entry
<1> QED BY <1>1, <1>2, <1>3 DEF FrameOK

\* The option that is tried has its `_': nothing below it is running.
LEMMA NotTaken ==
  ASSUME NEW inside, NestedOptions(inside), NestInv(inside), Top.at = "options", Top.options # <<>>
  PROVE  Tried(Top) \notin taken
<1>1. FrameOK(inside, Top) /\ Top = stack[1] /\ Entry \in Range(Top.entries)
  BY TopOK DEF FrameOK
<1>2. Tried(Top) \in inside[Entry]
  BY <1>1, TriedInside DEF Entry
<1>3. ASSUME NEW i \in 2..Len(stack), stack[i].at = "options" PROVE Tried(stack[i]) # Tried(Top)
  <2>1. 1 \in 1..Len(stack) /\ 1 < i
    BY SeqShape DEF NestInv
  <2> QED BY <1>1, <1>2, <1>3, <2>1 DEF NestInv
<1> QED BY <1>3 DEF NestInv, Deleted

LEMMA RaiseKeeps ==
  ASSUME NEW inside, NestInv(inside), UNCHANGED <<stack, taken>>, outcome' # <<"raised", "KeyError">>
  PROVE  NestInv(inside)'
  BY DEF NestInv

LEMMA ExtractStep ==
  ASSUME NEW inside, NestedOptions(inside), NestInv(inside), ExtractNext
  PROVE  NestInv(inside)'
<1>1. FrameOK(inside, Top) /\ IsFrame(Top) /\ Top = stack[1]
  BY TopOK
<1>2. outcome # <<"raised", "KeyError">> /\ <<"raised", "InvalidOperation">> # <<"raised", "KeyError">>
  BY DEF NestInv
<1>3. CASE AttributeEntry
  <2>1. Top.entries # <<>>
    BY <1>3 DEF AttributeEntry
  <2> PICK raw : raw = Attribute(Top.node, Entry.attr)
    OBVIOUS
  <2>2. CASE Raise("InvalidOperation")
    BY <1>2, <2>2, RaiseKeeps DEF Raise
  <2>3. CASE Go(EntryDone(Top, Entry.field, ParseVal(raw, Entry.type))) /\ UNCHANGED <<taken, outcome>>
    BY <1>1, <1>2, <2>1, <2>3, EntryDoneOK, GoesOn DEF Go
  <2> QED BY <1>3, <2>2, <2>3 DEF AttributeEntry
<1>4. CASE StartEntry
  <2> PICK f : f = [Top EXCEPT !.at = "nodes", !.nodes = Matching(Top.node, Entry.name),
                               !.subs = <<>>, !.field = Entry.name]
    OBVIOUS
  <2>1. IsFrame(f) /\ f.entries = Top.entries /\ f.at = "nodes"
    BY <1>1 DEF IsFrame
  <2>2. /\ Top.entries # <<>> /\ stack' = <<f>> \o Tail(stack) /\ UNCHANGED <<taken, outcome>>
    BY <1>4 DEF StartEntry, Go
  <2> QED BY <1>1, <1>2, <2>1, <2>2, StaysOK, GoesOn
<1>5. CASE MapNode
  <2>1. /\ Top.at = "nodes" /\ Entry.kind = "map" /\ UNCHANGED <<taken, outcome>>
        /\ stack' = <<Frame(Head(Top.nodes), Entry.sub)>> \o stack
    BY <1>5 DEF MapNode, At
  <2>2. Top.entries # <<>> /\ Entry \in DOMAIN inside
    BY <1>1, <2>1, TopOK DEF FrameOK
  <2>3. Entry.sub \in Seq(DOMAIN inside) /\ \A e \in Range(Entry.sub) : inside[e] \subseteq inside[Entry]
    BY <2>1, <2>2 DEF NestedOptions
  <2>4. FrameOK(inside, Frame(Head(Top.nodes), Entry.sub)) /\ Frame(Head(Top.nodes), Entry.sub).entries = Entry.sub
    BY <2>3, NewFrame
  <2> QED BY <1>2, <2>1, <2>3, <2>4, Calls DEF Waiting, Entry
<1>6. CASE LeafNode
  <2>1. Top.at = "nodes" /\ Top.entries # <<>>
    BY <1>1, <1>6 DEF LeafNode, At, FrameOK
  <2> PICK raw : raw = IF Entry.getter = <<"text">> THEN doc[Head(Top.nodes)].text
                       ELSE Attribute(Head(Top.nodes), <<Entry.getter[2]>>)
    OBVIOUS
  <2> PICK f : f = [NodeDone(Top, ParseVal(raw, Entry.type)) EXCEPT !.field = Entry.field]
    OBVIOUS
  <2>2. IsFrame(f) /\ f.entries = Top.entries /\ f.at = "nodes"
    BY <1>1, <2>1, NodeDoneIs DEF IsFrame
  <2>3. CASE Raise("InvalidOperation")
    BY <1>2, <2>3, RaiseKeeps DEF Raise
  <2>4. CASE stack' = <<f>> \o Tail(stack) /\ UNCHANGED <<taken, outcome>>
    <3>1. FrameOK(inside, f) /\ Range(f.entries) \subseteq Range(Top.entries)
      BY <1>1, <2>1, <2>2, StaysOK
    <3> QED BY <1>2, <2>4, <3>1, GoesOn
  <2> QED BY <1>6, <2>3, <2>4 DEF LeafNode, Go
<1>7. CASE ListNode
  <2>1. /\ Top.at = "nodes" /\ Top.entries # <<>> /\ Entry.kind = "list" /\ UNCHANGED <<taken, outcome>>
    BY <1>1, <1>7 DEF ListNode, At, FrameOK
  <2> PICK f : f = [Top EXCEPT !.at = "options", !.options = Entry.options]
    OBVIOUS
  <2>2. IsFrame(f) /\ f.entries = Top.entries /\ f.at = "options" /\ f.options = Entry.options
    BY <1>1 DEF IsFrame
  <2>3. Entry.options \in Seq(Range(Entry.options))
    BY <2>1, TopOK DEF NestedOptions
  <2>4. stack' = <<f>> \o Tail(stack)
    BY <1>7 DEF ListNode, Go
  <2>5. FrameOK(inside, f) /\ Range(f.entries) \subseteq Range(Top.entries)
    BY <1>1, <2>1, <2>2, <2>3, StaysOK DEF Entry
  <2> QED BY <1>2, <2>1, <2>4, <2>5, GoesOn
<1>8. CASE TryOption
  <2>1. Top.at = "options" /\ Top.options # <<>> /\ Top.entries # <<>>
    BY <1>1, <1>8 DEF TryOption, At, FrameOK
  <2> PICK option : option = Head(Top.options)
    OBVIOUS
  <2> PICK found : found = Find(Head(Top.nodes), option.path)
    OBVIOUS
  <2>2. option.id \notin taken
    BY <2>1, NotTaken DEF Tried
  <2>3. CASE found = <<>>
    <3> PICK f : f = [Top EXCEPT !.options = Tail(@)]
      OBVIOUS
    <3>1. IsFrame(f) /\ f.entries = Top.entries /\ f.at = "options" /\ f.options = Tail(Top.options)
      BY <1>1, <2>1 DEF IsFrame
    <3>2. /\ Head(Top.entries).kind = "list"
          /\ Tail(Top.options) \in Seq(Range(Head(Top.entries).options))
      BY <1>1, <2>1, HeadTailProperties DEF FrameOK
    <3>3. stack' = <<f>> \o Tail(stack) /\ UNCHANGED <<taken, outcome>>
      BY <1>8, <2>2, <2>3 DEF TryOption, Go
    <3>4. FrameOK(inside, f) /\ Range(f.entries) \subseteq Range(Top.entries)
      BY <1>1, <2>1, <3>1, <3>2, StaysOK
    <3> QED BY <1>2, <3>3, <3>4, GoesOn
  <2>4. CASE found # <<>>
    <3>1. /\ taken' = taken \cup {option.id} /\ UNCHANGED outcome
          /\ stack' = <<Frame(found[1], option.sub)>> \o stack
      BY <1>8, <2>2, <2>4 DEF TryOption
    <3>2. Entry \in DOMAIN inside /\ Entry.kind = "list" /\ option \in Range(Entry.options)
      BY <1>1, <2>1, TriedInside DEF Entry, FrameOK
    <3>3. option.sub \in Seq(DOMAIN inside) /\ \A e \in Range(option.sub) : inside[e] \subseteq inside[Entry] \ {option.id}
      BY <3>2 DEF NestedOptions
    <3>4. FrameOK(inside, Frame(found[1], option.sub)) /\ Frame(found[1], option.sub).entries = option.sub
      BY <3>3, NewFrame
    <3>5. Tried(Top) = option.id /\ Waiting(Top)
      BY <2>1 DEF Tried, Waiting
    <3>6. \A e \in Range(Frame(found[1], option.sub).entries) :
            inside[e] \subseteq inside[Head(Top.entries)] /\ Tried(Top) \notin inside[e]
      BY <3>3, <3>4, <3>5 DEF Entry
    <3> QED BY <1>2, <2>1, <3>1, <3>4, <3>5, <3>6, Calls
  <2> QED BY <2>3, <2>4
<1>9. CASE OptionsDone
  <2> PICK f : f = [Top EXCEPT !.at = "nodes", !.nodes = Tail(@)]
    OBVIOUS
  <2>1. IsFrame(f) /\ f.entries = Top.entries /\ f.at = "nodes"
    BY <1>1 DEF IsFrame
  <2>2. /\ Top.entries # <<>> /\ stack' = <<f>> \o Tail(stack) /\ UNCHANGED <<taken, outcome>>
    BY <1>1, <1>9 DEF OptionsDone, Go, At, FrameOK
  <2> QED BY <1>1, <1>2, <2>1, <2>2, StaysOK, GoesOn
<1>10. CASE NodesDone
  <2>1. Top.entries # <<>> /\ UNCHANGED <<taken, outcome>>
    BY <1>1, <1>10 DEF NodesDone, At, FrameOK
  <2>2. \E value : stack' = <<EntryDone(Top, Top.field, value)>> \o Tail(stack)
    BY <1>10 DEF NodesDone, Go
  <2> QED BY <1>1, <1>2, <2>1, <2>2, EntryDoneOK, GoesOn
<1>11. CASE Return
  <2>1. CASE Len(stack) = 1
    BY <1>11, <2>1, RaiseKeeps DEF Return
  <2>2. CASE Len(stack) # 1
    <3> PICK caller : caller = stack[2]
      OBVIOUS
    <3> PICK value : value = <<"record", Top.record>>
      OBVIOUS
    <3>1. FrameOK(inside, caller) /\ Waiting(caller) /\ IsFrame(caller) /\ caller.entries # <<>>
      <4>1. 2 \in 1..Len(stack) /\ 2 \in 2..Len(stack)
        <5>1. Len(stack) \in Nat /\ Len(stack) > 0
          <6>1. IsSeq(stack) /\ stack # <<>>
            BY DEF NestInv
          <6> QED BY <6>1, SeqShape
        <5> PICK n \in Nat : n = Len(stack) /\ n > 0 /\ n # 1
          BY <2>2, <5>1
        <5>2. 2 \in 1..n /\ 2 \in 2..n
          OBVIOUS
        <5> QED BY <5>2
      <4> QED BY <4>1 DEF NestInv, FrameOK, Waiting
    <3>2. CASE caller.at = "options"
      <4>1. /\ stack' = <<OptionTaken(caller, value)>> \o Tail(Tail(stack))
            /\ taken' = taken \ {Tried(caller)} /\ UNCHANGED outcome
        BY <1>11, <2>2, <3>2 DEF Return, PutBack, Tried
      <4>2. /\ FrameOK(inside, OptionTaken(caller, value))
            /\ Range(OptionTaken(caller, value).entries) \subseteq Range(caller.entries)
        BY <3>1, OptionTakenIs, StaysOK
      <4> QED BY <1>2, <2>2, <3>2, <4>1, <4>2, Returns
    <3>3. CASE caller.at # "options"
      <4>1. /\ stack' = <<NodeDone(caller, value)>> \o Tail(Tail(stack))
            /\ taken' = taken /\ UNCHANGED outcome
        BY <1>11, <2>2, <3>3 DEF Return
      <4>2. /\ FrameOK(inside, NodeDone(caller, value))
            /\ Range(NodeDone(caller, value).entries) \subseteq Range(caller.entries)
        <5>1. caller.at = "nodes"
          BY <3>1, <3>3 DEF Waiting, FrameOK
        <5> QED BY <3>1, <5>1, NodeDoneIs, StaysOK
      <4> QED BY <1>2, <2>2, <3>3, <4>1, <4>2, Returns
    <3> QED BY <3>2, <3>3
  <2> QED BY <2>1, <2>2
<1> QED BY <1>3, <1>4, <1>5, <1>6, <1>7, <1>8, <1>9, <1>10, <1>11 DEF ExtractNext

\* No call of extract_data meets an option without its `_', and each is put back,
\* whatever the document is, unless an option of the schema lies within itself.
THEOREM OptionsReturned ==
  ASSUME NEW inside, NestedOptions(inside)
  PROVE  Spec => []OptionsPutBack
<1>1. Init => NestInv(inside)
  <2> SUFFICES ASSUME Init PROVE NestInv(inside)
    OBVIOUS
  <2>1. schema \in Seq(DOMAIN inside) /\ stack = <<Frame(1, schema)>> /\ taken = {} /\ outcome = None
    BY DEF Init, ExtractInit, NestedOptions
  <2>2. IsSeq(stack) /\ Len(stack) = 1 /\ stack[1] = Frame(1, schema) /\ stack # <<>>
    <3> PICK f : f = Frame(1, schema)
      OBVIOUS
    <3>1. <<f>> \in Seq({f}) /\ Len(<<f>>) = 1 /\ <<f>>[1] = f /\ <<f>> # <<>>
      OBVIOUS
    <3> QED BY <2>1, <3>1 DEF IsSeq
  <2>3. FrameOK(inside, Frame(1, schema))
    BY <2>1, NewFrame
  <2>4. 2..Len(stack) = {} /\ \A i \in 1..Len(stack) : i = 1
    BY <2>2
  <2>5. Deleted(stack) = {}
    BY <2>4 DEF Deleted
  <2> QED BY <2>1, <2>2, <2>3, <2>4, <2>5, ExtractAssumption DEF NestInv
<1>2. NestInv(inside) /\ [Next]_vars => NestInv(inside)'
  <2> SUFFICES ASSUME NestInv(inside), [Next]_vars PROVE NestInv(inside)'
    OBVIOUS
  <2>1. CASE ExtractNext
    BY <2>1, ExtractStep
  <2>2. CASE UNCHANGED extractVars
    BY <2>2 DEF NestInv, extractVars
  <2> QED BY <2>1, <2>2 DEF Next, StartWriting, vars
<1>3. NestInv(inside) => OptionsPutBack
  BY DEF NestInv, OptionsPutBack, Deleted, Tried
<1> QED BY <1>1, <1>2, <1>3, PTL DEF Spec

-----------------------------------------------------------------------------
(***************************************************************************)
(* The batch writer, for every file, chunk size and behaviour of DynamoDB: *)
(* of the readings with one key the latest is stored, and no request       *)
(* repeats a key.                                                          *)
(***************************************************************************)

TypeInv ==
  /\ data \in Seq(Item)
  /\ start \in Nat
  /\ done \in Nat /\ done <= Len(data)
  /\ state \in {"put", "flush", "written", "raised"}
  /\ \A i \in 1..Len(data) : data[i] \in Item
  /\ \A item \in buffer \cup sending : item \in Item /\ item.key \in Key

\* What is buffered or in flight: one item of a key.
OneOfAKey ==
  \A item, other \in buffer \cup sending : item.key = other.key => item = other

\* The loop ends with every reading stored or replaced by a later one.
WholeFileStored == state = "written" => done = Len(data) /\ buffer = {} /\ sending = {}

Inv ==
  /\ TypeInv
  /\ OneOfAKey
  /\ LaterReadingStays
  /\ WholeFileStored
  /\ state = "flush" => done = ChunkEnd

LEMMA InitInv == BatchInit => Inv
<1> SUFFICES ASSUME BatchInit PROVE Inv
  OBVIOUS
<1>1. data \in Seq(Item) /\ done = 0 /\ start = 0 /\ buffer = {} /\ sending = {} /\ state = "put"
  BY DEF BatchInit
<1>2. \A key \in Key : table[key] = NoItem
  BY DEF BatchInit
<1>3. TypeInv
  BY <1>1, SMT DEF TypeInv
<1>4. LaterReadingStays
  BY <1>1, <1>2, SMT DEF LaterReadingStays, WillHold
<1> QED BY <1>1, <1>3, <1>4 DEF Inv, OneOfAKey, WholeFileStored

LEMMA PutInv == ASSUME Inv, PutItem PROVE Inv'
<1> PICK it : it = data[done + 1]
  OBVIOUS
<1>1. /\ done + 1 \in 1..Len(data) /\ it \in Item /\ it.key \in Key
      /\ sending = {} /\ sending' = {} /\ done' = done + 1
      /\ UNCHANGED <<data, start, state, table>>
      /\ state = "put"
  BY SMT, BatchAssumption DEF Inv, TypeInv, PutItem, ChunkEnd, Item
<1>2. buffer' = {b \in buffer : b.key # it.key} \cup {it}
  BY DEF PutItem, Replaced, Without
<1>3. TypeInv'
  BY <1>1, <1>2 DEF Inv, TypeInv
<1>4. OneOfAKey'
  BY <1>1, <1>2 DEF Inv, OneOfAKey
<1>5. LaterReadingStays'
  <2> SUFFICES ASSUME NEW key \in Key
               PROVE  /\ \A i \in 1..(done + 1) : IsLatest(i, key)' => WillHold(key, data[i])'
                      /\ (\A i \in 1..(done + 1) : data[i].key # key) => WillHold(key, NoItem)'
    BY <1>1 DEF LaterReadingStays
  <2>1. CASE key = it.key
    <3>1. WillHold(key, it)'
      BY <1>1, <1>2, <2>1 DEF WillHold
    <3>2. ASSUME NEW i \in 1..(done + 1), IsLatest(i, key)' PROVE i = done + 1
      BY <1>1, <2>1, <3>2, SMT DEF IsLatest, Inv, TypeInv
    <3> QED BY <1>1, <2>1, <3>1, <3>2, SMT DEF Inv, TypeInv
  <2>2. CASE key # it.key
    <3>0. \A w : w.key = key => (w \in buffer \cup sending <=> w \in buffer' \cup sending')
      BY <1>1, <1>2, <2>2
    <3>1. \A x : (x = NoItem \/ x.key = key) /\ WillHold(key, x) => WillHold(key, x)'
      <4> SUFFICES ASSUME NEW x, x = NoItem \/ x.key = key, WillHold(key, x)
                   PROVE  WillHold(key, x)'
        OBVIOUS
      <4>1. CASE \E w \in buffer \cup sending : w.key = key
        <5>1. x \in buffer \cup sending
          BY <4>1 DEF WillHold
        <5>2. x.key = key
          BY <5>1, BatchAssumption DEF Inv, TypeInv
        <5> QED BY <3>0, <4>1, <5>1, <5>2 DEF WillHold
      <4>2. CASE ~ \E w \in buffer \cup sending : w.key = key
        <5>1. table[key] = x
          BY <4>2 DEF WillHold
        <5>2. ~ \E w \in buffer' \cup sending' : w.key = key
          BY <3>0, <4>2
        <5> QED BY <1>1, <5>1, <5>2 DEF WillHold
      <4> QED BY <4>1, <4>2
    <3>2. \A i \in 1..(done + 1) : IsLatest(i, key)' => i \in 1..done /\ IsLatest(i, key)
      BY <1>1, <2>2, SMT DEF IsLatest, Inv, TypeInv
    <3>3. LaterReadingStays /\ state # "raised"
      BY <1>1 DEF Inv
    <3>4. ASSUME NEW i \in 1..(done + 1), IsLatest(i, key)' PROVE WillHold(key, data[i])'
      <4>1. i \in 1..done /\ IsLatest(i, key)
        BY <3>2, <3>4
      <4>2. WillHold(key, data[i]) /\ data[i].key = key
        BY <3>3, <4>1 DEF LaterReadingStays, IsLatest
      <4>3. PICK x : x = data[i]
        OBVIOUS
      <4>4. x = data'[i]
        BY <1>1, <4>3
      <4> QED BY <3>1, <4>2, <4>3, <4>4
    <3>5. ASSUME \A i \in 1..(done + 1) : data[i].key # key PROVE WillHold(key, NoItem)'
      <4>1. \A i \in 1..done : data[i].key # key
        BY <3>5, SMT DEF Inv, TypeInv
      <4>2. WillHold(key, NoItem)
        BY <3>3, <4>1 DEF LaterReadingStays
      <4> QED BY <3>1, <4>2
    <3> QED BY <3>4, <3>5
  <2> QED BY <2>1, <2>2
<1> QED BY <1>1, <1>3, <1>4, <1>5 DEF Inv, WholeFileStored

LEMMA SendInv == ASSUME Inv, Send PROVE Inv'
<1>1. PICK batch \in SUBSET buffer : sending' = batch /\ buffer' = buffer \ batch
  BY DEF Send
<1>2. sending = {} /\ UNCHANGED <<data, start, done, state, table>>
  BY DEF Send
<1>3. buffer' \cup sending' = buffer \cup sending
  BY <1>1, <1>2
<1>4. TypeInv' /\ OneOfAKey'
  BY <1>2, <1>3 DEF Inv, TypeInv, OneOfAKey
<1>5. LaterReadingStays'
  BY <1>2, <1>3 DEF Inv, LaterReadingStays, WillHold, IsLatest
<1>6. state # "written" /\ ChunkEnd' = ChunkEnd
  BY <1>2 DEF Send, ChunkEnd
<1> QED BY <1>2, <1>4, <1>5, <1>6 DEF Inv, WholeFileStored

LEMMA ProcessedInv == ASSUME Inv, Processed PROVE Inv'
<1>1. PICK stored \in SUBSET sending :
        /\ table' = [key \in Key |->
             IF \E item \in stored : item.key = key
               THEN CHOOSE item \in stored : item.key = key ELSE table[key]]
        /\ buffer' = buffer \cup (sending \ stored)
  BY DEF Processed
<1>2. sending' = {} /\ UNCHANGED <<data, start, done, state>>
  BY DEF Processed
<1>3. buffer' \cup sending' \subseteq buffer \cup sending
  BY <1>1, <1>2
<1>4. TypeInv' /\ OneOfAKey'
  BY <1>2, <1>3 DEF Inv, TypeInv, OneOfAKey
<1>5. ASSUME NEW key \in Key, NEW x, WillHold(key, x), x = NoItem \/ x.key = key
      PROVE  WillHold(key, x)'
  <2>1. CASE \E item \in stored : item.key = key
    <3>1. PICK item \in stored : item.key = key
      BY <2>1
    <3>2. table'[key] \in stored /\ table'[key].key = key
      BY <1>1, <3>1
    <3>3. table'[key] = item
      BY <1>1, <3>1, <3>2 DEF Inv, OneOfAKey
    <3>4. item \in buffer \cup sending
      BY <3>1
    <3>5. x \in buffer \cup sending
      BY <1>5, <3>1, <3>4 DEF WillHold
    <3>6. x \in Item /\ x # NoItem
      BY <3>5, BatchAssumption DEF Inv, TypeInv
    <3>7. x = item
      BY <1>5, <3>1, <3>4, <3>5, <3>6 DEF Inv, OneOfAKey
    <3> QED
      BY <1>1, <1>2, <1>5, <3>1, <3>3, <3>7 DEF WillHold, Inv, OneOfAKey
  <2>2. CASE ~ \E item \in stored : item.key = key
    <3>1. table'[key] = table[key]
      BY <1>1, <2>2
    <3>2. \A w : w.key = key => (w \in buffer \cup sending <=> w \in buffer' \cup sending')
      BY <1>1, <1>2, <2>2
    <3>3. CASE \E w \in buffer \cup sending : w.key = key
      <4>1. x \in buffer \cup sending
        BY <1>5, <3>3 DEF WillHold
      <4>2. x.key = key
        BY <1>5, <4>1, BatchAssumption DEF Inv, TypeInv
      <4> QED BY <3>2, <3>3, <4>1, <4>2 DEF WillHold
    <3>4. CASE ~ \E w \in buffer \cup sending : w.key = key
      <4>1. table[key] = x
        BY <1>5, <3>4 DEF WillHold
      <4>2. ~ \E w \in buffer' \cup sending' : w.key = key
        BY <3>2, <3>4
      <4> QED BY <3>1, <4>1, <4>2 DEF WillHold
    <3> QED BY <3>3, <3>4
  <2> QED BY <2>1, <2>2
<1>6. LaterReadingStays'
  BY <1>2, <1>5 DEF Inv, LaterReadingStays, IsLatest
<1>7. state # "written" /\ ChunkEnd' = ChunkEnd
  BY <1>2 DEF Processed, Inv, WholeFileStored, ChunkEnd
<1> QED BY <1>2, <1>4, <1>6, <1>7 DEF Inv, WholeFileStored

LEMMA NextChunkInv == ASSUME Inv, NextChunk PROVE Inv'
<1>1. /\ state = "flush" /\ buffer = {} /\ sending = {} /\ done = ChunkEnd
      /\ UNCHANGED <<data, buffer, sending, table>>
  BY DEF NextChunk, Inv
<1>2. CASE start + ChunkSize < Len(data)
  <2>1. start' = start + ChunkSize /\ done' = done /\ state' = "put"
    BY <1>1, <1>2, BatchAssumption, SMT DEF NextChunk, ChunkEnd, Inv, TypeInv
  <2> QED
    BY <1>1, <2>1, BatchAssumption
    DEF Inv, TypeInv, OneOfAKey, LaterReadingStays, IsLatest, WillHold, WholeFileStored
<1>3. CASE ~(start + ChunkSize < Len(data))
  <2>1. UNCHANGED <<start, done>> /\ state' = "written"
    BY <1>3 DEF NextChunk
  <2>2. done = Len(data)
    BY <1>1, <1>3, BatchAssumption, SMT DEF ChunkEnd, Inv, TypeInv
  <2> QED
    BY <1>1, <2>1, <2>2
    DEF Inv, TypeInv, OneOfAKey, LaterReadingStays, IsLatest, WillHold, WholeFileStored
<1> QED BY <1>2, <1>3

LEMMA OtherInv ==
  ASSUME Inv, PutRaises \/ Refused \/ EndOfChunk \/ UNCHANGED batchVars
  PROVE  Inv'
  BY DEF Inv, TypeInv, OneOfAKey, LaterReadingStays, IsLatest, WillHold, PutRaises,
         Refused, EndOfChunk, batchVars, WholeFileStored, ChunkEnd

\* The invariant behind the three properties of the batch writer: what the
\* buffer, the request in flight and the table hold between them.
THEOREM BatchInvariant == BatchSpec => []Inv
<1>1. ASSUME Inv, [BatchNext]_batchVars PROVE Inv'
  BY <1>1, PutInv, SendInv, ProcessedInv, NextChunkInv, OtherInv DEF BatchNext
<1> QED BY InitInv, <1>1, PTL DEF BatchSpec

\* Of two readings with one key in a file the later one is stored.
THEOREM LaterStays == BatchSpec => []LaterReadingStays
<1>1. Inv => LaterReadingStays
  BY DEF Inv
<1> QED BY <1>1, BatchInvariant, PTL

\* The loop over the chunks leaves out no reading.
THEOREM WholeStored == BatchSpec => []WholeFileStored
<1>1. Inv => WholeFileStored
  BY DEF Inv
<1> QED BY <1>1, BatchInvariant, PTL

\* No request to DynamoDB holds two items of one key.
THEOREM KeysDistinct == BatchSpec => []DistinctKeys
<1>1. Inv => DistinctKeys
  BY DEF Inv, OneOfAKey, DistinctKeys, RepeatsKey
<1> QED BY <1>1, BatchInvariant, PTL
-----------------------------------------------------------------------------
(***************************************************************************)
(* The batch writer implements ChunkLoop.  What is buffered or in flight   *)
(* has been put in the current chunk, and of what has been put nothing is  *)
(* lost before a request fails.                                            *)
(***************************************************************************)
Covered(key) == table[key] # NoItem \/ \E item \in buffer \cup sending : item.key = key

InChunk ==
  /\ start <= done /\ done <= ChunkEnd
  /\ start = 0 \/ start < Len(data)
  /\ \A i \in (start + 1)..done : data[i].key # NoKey
  /\ state # "raised" => \A i \in (start + 1)..done : Covered(data[i].key)
  /\ \A item \in buffer \cup sending : \E i \in (start + 1)..done : data[i] = item

LoopInv == Inv /\ InChunk

LEMMA ChunkEndIs ==
  ASSUME Inv
  PROVE  /\ ChunkEnd \in Nat /\ ChunkEnd <= Len(data) /\ Len(data) \in Nat
         /\ start \in Nat /\ done \in Nat /\ start + ChunkSize \in Nat
         /\ start < Len(data) => start < ChunkEnd
         /\ start + ChunkSize < Len(data) => ChunkEnd = start + ChunkSize
         /\ ~(start + ChunkSize < Len(data)) => ChunkEnd = Len(data)
         /\ ChunkEnd = IF Len(data) < start + ChunkSize THEN Len(data) ELSE start + ChunkSize
<1>1. Len(data) \in Nat /\ start \in Nat /\ done \in Nat /\ ChunkSize \in Nat \ {0}
  BY BatchAssumption DEF Inv, TypeInv
<1> QED BY <1>1 DEF ChunkEnd

\* The instance's readings are the keys of the data.
LEMMA KeyAtIs ==
  ASSUME Inv
  PROVE  /\ KeyAt \in Seq(Key \cup {NoKey}) /\ Len(KeyAt) = Len(data)
         /\ \A i \in 1..Len(data) : KeyAt[i] = data[i].key
         /\ state # "written" => Complete = start /\ Loop!ChunkEnd = ChunkEnd
<1>1. Len(data) \in Nat /\ DOMAIN data = 1..Len(data) /\ \A i \in 1..Len(data) : data[i] \in Item
  BY DEF Inv, TypeInv
<1>2. KeyAt = [i \in 1..Len(data) |-> data[i].key]
  BY <1>1 DEF KeyAt
<1>3. \A i \in 1..Len(data) : data[i].key \in Key \cup {NoKey}
  BY <1>1 DEF Item
<1>4. KeyAt \in Seq(Key \cup {NoKey}) /\ Len(KeyAt) = Len(data)
  BY <1>1, <1>2, <1>3
<1>5. state # "written" => Complete = start
  BY DEF Complete
<1> QED BY <1>2, <1>4, <1>5 DEF Loop!ChunkEnd, ChunkEnd

LEMMA PutInChunk == ASSUME LoopInv, PutItem PROVE InChunk'
<1> PICK it : it = data[done + 1]
  OBVIOUS
<1>1. /\ Inv /\ InChunk /\ done < ChunkEnd /\ it.key # NoKey
      /\ UNCHANGED <<data, start, sending, table>> /\ done' = done + 1 /\ ChunkEnd' = ChunkEnd
  BY DEF LoopInv, PutItem, ChunkEnd
<1>2. buffer' = {b \in buffer : b.key # it.key} \cup {it}
  BY DEF PutItem, Replaced, Without
<1>3. start <= done' /\ done' <= ChunkEnd'
  BY <1>1, ChunkEndIs DEF InChunk
<1>4. \A i \in (start + 1)..done' : i = done + 1 \/ i \in (start + 1)..done
  BY <1>1, ChunkEndIs
<1>5. done + 1 \in (start + 1)..done' /\ \A i \in (start + 1)..done : i \in (start + 1)..done'
  BY <1>1, ChunkEndIs DEF InChunk
<1>6. \A key : Covered(key) => Covered(key)'
  <2> SUFFICES ASSUME NEW key, Covered(key) PROVE Covered(key)'
    OBVIOUS
  <2>1. CASE key = it.key
    BY <1>2, <2>1 DEF Covered
  <2>2. CASE key # it.key
    BY <1>1, <1>2, <2>2 DEF Covered
  <2> QED BY <2>1, <2>2
<1>7. Covered(it.key)'
  BY <1>2 DEF Covered
<1>8. ASSUME NEW i \in (start + 1)..done' PROVE data[i].key # NoKey /\ Covered(data[i].key)'
  <2>1. state # "raised"
    BY DEF PutItem
  <2> QED BY <1>1, <1>4, <1>6, <1>7, <2>1 DEF InChunk
<1>9. ASSUME NEW item \in buffer' \cup sending' PROVE \E i \in (start + 1)..done' : data[i] = item
  <2>1. item = it \/ item \in buffer \cup sending
    BY <1>1, <1>2
  <2> QED BY <1>1, <1>5, <2>1 DEF InChunk
<1> QED BY <1>1, <1>3, <1>8, <1>9 DEF InChunk, Covered

\* What is stored keeps its key; what is not is still buffered.
LEMMA ProcessedStores ==
  ASSUME Inv, Processed
  PROVE  /\ \A key \in Key : Covered(key) => Covered(key)'
         /\ buffer' \cup sending' \subseteq buffer \cup sending
         /\ Stored \subseteq Stored'
         /\ \A key \in Stored' : key \in Stored \/ \E item \in sending : item.key = key
<1>1. PICK batch \in SUBSET sending :
        /\ table' = [key \in Key |->
             IF \E item \in batch : item.key = key
               THEN CHOOSE item \in batch : item.key = key ELSE table[key]]
        /\ buffer' = buffer \cup (sending \ batch)
  BY DEF Processed
<1>2. sending' = {}
  BY DEF Processed
<1>3. ASSUME NEW key \in Key, NEW item \in batch, item.key = key
      PROVE  table'[key] # NoItem
  <2>1. table'[key] \in batch
    BY <1>1, <1>3
  <2> QED BY <2>1, BatchAssumption DEF Inv, TypeInv
<1>4. ASSUME NEW key \in Key, ~ \E item \in batch : item.key = key
      PROVE  table'[key] = table[key]
  BY <1>1, <1>4
<1>5. ASSUME NEW key \in Key, Covered(key) PROVE Covered(key)'
  <2>1. CASE \E item \in batch : item.key = key
    BY <1>3, <2>1 DEF Covered
  <2>2. CASE ~ \E item \in batch : item.key = key
    BY <1>1, <1>4, <1>5, <2>2 DEF Covered
  <2> QED BY <2>1, <2>2
<1>6. Stored \subseteq Stored'
  BY <1>3, <1>4 DEF Stored
<1>7. \A key \in Stored' : key \in Stored \/ \E item \in sending : item.key = key
  BY <1>4 DEF Stored
<1> QED BY <1>1, <1>2, <1>5, <1>6, <1>7

LEMMA ProcessedInChunk == ASSUME LoopInv, Processed PROVE InChunk'
<1>1. Inv /\ InChunk /\ UNCHANGED <<data, start, done>> /\ ChunkEnd' = ChunkEnd
  BY DEF LoopInv, Processed, ChunkEnd
<1>2. ASSUME NEW i \in (start + 1)..done PROVE data[i].key \in Key /\ data[i].key # NoKey
  <2>1. i \in 1..Len(data)
    BY <1>1, ChunkEndIs DEF InChunk
  <2> QED BY <1>1, <2>1 DEF InChunk, Inv, TypeInv, Item
<1>3. ASSUME state' # "raised", NEW i \in (start + 1)..done PROVE Covered(data[i].key)'
  <2>1. state # "raised"
    BY <1>3 DEF Processed
  <2> QED BY <1>1, <1>2, <2>1, ProcessedStores DEF InChunk
<1>4. \A item \in buffer' \cup sending' : \E i \in (start + 1)..done : data[i] = item
  BY <1>1, ProcessedStores DEF InChunk
<1> QED BY <1>1, <1>2, <1>3, <1>4 DEF InChunk, Covered

LEMMA NextInChunk == ASSUME LoopInv, NextChunk PROVE InChunk'
<1>1. /\ Inv /\ InChunk /\ buffer = {} /\ sending = {} /\ done = ChunkEnd
      /\ UNCHANGED <<data, buffer, sending, table>>
  BY DEF LoopInv, NextChunk, Inv
<1>2. CASE start + ChunkSize < Len(data)
  <2>1. start' = start + ChunkSize /\ done' = start + ChunkSize
    BY <1>2 DEF NextChunk
  <2>2. start' \in Nat /\ Len(data) \in Nat /\ ChunkSize \in Nat
    BY <1>1, <2>1, ChunkEndIs, BatchAssumption
  <2>3. done' <= ChunkEnd' /\ start' <= done' /\ start' < Len(data)
    BY <1>1, <1>2, <2>1, <2>2 DEF ChunkEnd
  <2>4. (start' + 1)..done' = {}
    BY <2>1, <2>2
  <2> QED BY <1>1, <2>3, <2>4 DEF InChunk
<1>3. CASE ~(start + ChunkSize < Len(data))
  <2>1. UNCHANGED <<start, done>> /\ ChunkEnd' = ChunkEnd /\ state # "raised"
    BY <1>1, <1>3 DEF NextChunk, ChunkEnd
  <2> QED BY <1>1, <2>1 DEF InChunk, Covered
<1> QED BY <1>2, <1>3

LEMMA SendInChunk == ASSUME LoopInv, Send PROVE InChunk'
<1>1. PICK batch \in SUBSET buffer : sending' = batch /\ buffer' = buffer \ batch
  BY DEF Send
<1>2. sending = {} /\ UNCHANGED <<data, start, done, state, table>> /\ ChunkEnd' = ChunkEnd
  BY DEF Send, ChunkEnd
<1>3. buffer' \cup sending' = buffer \cup sending
  BY <1>1, <1>2
<1> QED BY <1>2, <1>3 DEF LoopInv, InChunk, Covered

\* A request that fails loses its items: main raises, and nothing goes on.
LEMMA OtherInChunk ==
  ASSUME LoopInv, PutRaises \/ Refused \/ EndOfChunk \/ UNCHANGED batchVars
  PROVE  InChunk'
BY DEF LoopInv, InChunk, Covered, PutRaises, Refused, EndOfChunk, batchVars, ChunkEnd

LEMMA InitLoop == BatchInit => LoopInv
<1> SUFFICES ASSUME BatchInit PROVE LoopInv
  OBVIOUS
<1>1. Inv /\ start = 0 /\ done = 0 /\ buffer = {} /\ sending = {}
  BY InitInv DEF BatchInit
<1>2. (start + 1)..done = {} /\ start <= done
  BY <1>1
<1> QED BY <1>1, <1>2, ChunkEndIs DEF LoopInv, InChunk

LEMMA StepLoop == ASSUME LoopInv, [BatchNext]_batchVars PROVE LoopInv'
<1>1. Inv'
  BY PutInv, SendInv, ProcessedInv, NextChunkInv, OtherInv DEF LoopInv, BatchNext
<1>2. InChunk'
  BY PutInChunk, SendInChunk, ProcessedInChunk, NextInChunk, OtherInChunk DEF BatchNext
<1> QED BY <1>1, <1>2 DEF LoopInv

\* A request that is processed stores keys of the current chunk.
LEMMA ProcessedFlushes == ASSUME LoopInv, Processed PROVE Loop!FlushSome
<1>1. Inv /\ InChunk /\ UNCHANGED <<data, start, state>> /\ state # "written"
  BY DEF LoopInv, Processed, Inv, WholeFileStored
<1>2. KeyAt' = KeyAt /\ Complete' = Complete /\ Complete = start
  BY <1>1 DEF KeyAt, Complete
<1>3. Loop!ChunkEnd = ChunkEnd /\ \A i \in 1..Len(data) : KeyAt[i] = data[i].key
  BY <1>1, KeyAtIs
<1>4. ASSUME NEW i \in (start + 1)..done
      PROVE  /\ i \in 1..Len(data) /\ i \in (start + 1)..ChunkEnd
             /\ \A j \in (start + 1)..i : j \in (start + 1)..done /\ j \in 1..Len(data)
  BY <1>1, ChunkEndIs DEF InChunk
<1>5. ASSUME NEW i \in (start + 1)..done PROVE i \in Loop!Reached /\ KeyAt[i] = data[i].key
  BY <1>1, <1>2, <1>3, <1>4 DEF Loop!Reached, InChunk
<1>6. ASSUME NEW item \in sending PROVE item.key \in Loop!Chunk
  <2>1. PICK i \in (start + 1)..done : data[i] = item
    BY <1>1 DEF InChunk
  <2> QED BY <1>5, <2>1 DEF Loop!Chunk
<1>7. \E part \in SUBSET Loop!Chunk : Stored' = Stored \cup part
  <2>1. Stored \subseteq Stored' /\ Stored' \ Stored \subseteq Loop!Chunk
    BY <1>1, <1>6, ProcessedStores
  <2>2. Stored' = Stored \cup (Stored' \ Stored)
    BY <2>1
  <2> QED BY <2>1, <2>2
<1> QED BY <1>2, <1>7 DEF Loop!FlushSome

\* The with block of a chunk is left when the table has all of its keys.
LEMMA NextWrites == ASSUME LoopInv, NextChunk PROVE [Loop!LoopNext]_Loop!loopVars
<1>1. /\ Inv /\ InChunk /\ buffer = {} /\ sending = {} /\ done = ChunkEnd /\ state = "flush"
      /\ UNCHANGED <<data, table>>
  BY DEF LoopInv, NextChunk, Inv
<1>2. KeyAt' = KeyAt /\ Stored' = Stored
  BY <1>1 DEF KeyAt, Stored
<1>3. Complete = start /\ Loop!ChunkEnd = ChunkEnd /\ \A i \in 1..Len(data) : KeyAt[i] = data[i].key
  BY <1>1, KeyAtIs
<1>4. Complete' = ChunkEnd
  <2>1. CASE start + ChunkSize < Len(data)
    BY <1>1, <2>1, ChunkEndIs DEF NextChunk, Complete
  <2>2. CASE ~(start + ChunkSize < Len(data))
    BY <1>1, <2>2, ChunkEndIs DEF NextChunk, Complete
  <2> QED BY <2>1, <2>2
<1>5. CASE start = ChunkEnd
  BY <1>2, <1>3, <1>4, <1>5 DEF Loop!loopVars
<1>6. CASE start # ChunkEnd
  <2>1. Complete < Loop!ChunkEnd
    BY <1>1, <1>3, <1>6, ChunkEndIs DEF InChunk
  <2>2. ASSUME NEW i \in (start + 1)..ChunkEnd
        PROVE  /\ i \in 1..Len(data) /\ KeyAt[i] = data[i].key /\ KeyAt[i] # NoKey
               /\ KeyAt[i] \in Stored
    <3>1. i \in 1..Len(data) /\ i \in (start + 1)..done
      BY <1>1, ChunkEndIs
    <3>2. data[i].key # NoKey /\ Covered(data[i].key)
      BY <1>1, <3>1 DEF InChunk
    <3>3. data[i].key \in Key
      BY <1>1, <3>1, <3>2 DEF Inv, TypeInv, Item
    <3> QED BY <1>1, <1>3, <3>1, <3>2, <3>3 DEF Covered, Stored
  <2>3. \A i \in (start + 1)..ChunkEnd : \A j \in (start + 1)..i : j \in (start + 1)..ChunkEnd
    BY <1>1, ChunkEndIs
  <2>4. Loop!Reached = (start + 1)..ChunkEnd
    BY <1>3, <2>2, <2>3 DEF Loop!Reached
  <2>5. Loop!Chunk \subseteq Stored
    BY <2>2, <2>4 DEF Loop!Chunk
  <2>6. Stored' = Stored \cup Loop!Chunk
    BY <1>2, <2>5
  <2>7. Loop!WriteChunk
    BY <1>2, <1>3, <1>4, <2>1, <2>4, <2>6 DEF Loop!WriteChunk
  <2> QED BY <2>7 DEF Loop!LoopNext
<1> QED BY <1>5, <1>6

LEMMA OtherStutters ==
  ASSUME Inv, PutItem \/ PutRaises \/ Send \/ Refused \/ EndOfChunk \/ UNCHANGED batchVars
  PROVE  UNCHANGED Loop!loopVars
<1>1. UNCHANGED <<data, start, table>>
  BY DEF PutItem, PutRaises, Send, Refused, EndOfChunk, batchVars
<1>2. state' = "written" <=> state = "written"
  BY DEF Inv, WholeFileStored, PutItem, PutRaises, Send, Refused, EndOfChunk, batchVars
<1> QED BY <1>1, <1>2 DEF Loop!loopVars, KeyAt, Complete, Stored

\* The batch writer implements ChunkLoop (WritesInChunks), for every file, chunk
\* size and behaviour of DynamoDB: no key of a later chunk is in the table
\* before the chunk is reached, none of a chunk is missing when it is left.
THEOREM BatchesAreChunks == BatchSpec => WritesInChunks
<1>1. BatchInit => Loop!LoopInit
  <2> SUFFICES ASSUME BatchInit PROVE Loop!LoopInit
    OBVIOUS
  <2>1. KeyAt \in Seq(Key \cup {NoKey}) /\ Complete = 0
    BY InitInv, KeyAtIs DEF BatchInit
  <2>2. Stored = {}
    BY DEF BatchInit, Stored
  <2> QED BY <2>1, <2>2 DEF Loop!LoopInit
<1>2. LoopInv /\ [BatchNext]_batchVars => LoopInv'
  BY StepLoop
<1>3. LoopInv /\ [BatchNext]_batchVars => [Loop!LoopNext]_Loop!loopVars
  <2> SUFFICES ASSUME LoopInv, [BatchNext]_batchVars PROVE [Loop!LoopNext]_Loop!loopVars
    OBVIOUS
  <2>1. CASE Processed
    BY <2>1, ProcessedFlushes DEF Loop!LoopNext
  <2>2. CASE NextChunk
    BY <2>2, NextWrites
  <2>3. CASE PutItem \/ PutRaises \/ Send \/ Refused \/ EndOfChunk \/ UNCHANGED batchVars
    BY <2>3, OtherStutters DEF LoopInv
  <2> QED BY <2>1, <2>2, <2>3 DEF BatchNext
<1> QED BY InitLoop, <1>1, <1>2, <1>3, PTL DEF BatchSpec, WritesInChunks, Loop!LoopSpec
=============================================================================
