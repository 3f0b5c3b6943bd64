--------------------------- MODULE DashboardProofs ---------------------------
(***************************************************************************)
(* Theorems about the dashboard, for any number of sessions, minutes, calls*)
(* and rows: every variable keeps its type, however many threads the server*)
(* has; and a server with one thread shows in each figure the statuses of  *)
(* the date it was requested for, and never goes back from a figure to one *)
(* of an older state of the log.                                           *)
(***************************************************************************)
EXTENDS DashboardCorrectness, FiniteSetTheorems, SequenceTheorems, TLAPS

IsCall(c) ==
  \E arg, at, state, left, lists, log, answer :
    c = [arg |-> arg, at |-> at, state |-> state, left |-> left, lists |-> lists,
         log |-> log, answer |-> answer]

IsPage(p) ==
  \E date, plot, click, message :
    p = [date |-> date, plot |-> plot, click |-> click, message |-> message]

\* calls and page are tables of records.
Records ==
  /\ calls = [k \in Slot |-> calls[k]]
  /\ \A k \in Slot : calls[k] # None => IsCall(calls[k])
  /\ page = [s \in Session |-> page[s]]
  /\ \A s \in Session : IsPage(page[s])

(***************************************************************************)
(* What the browser does to the calls: a call is left alone, dropped, or   *)
(* superseded, or a new one takes its slot.                                *)
(***************************************************************************)
Superseded(c) == [c EXCEPT !.state = "superseded"]

Posted(k) == \E arg : calls'[k] \in {Call(arg), Superseded(Call(arg))}

Browsed ==
  /\ calls' = [k \in Slot |-> calls'[k]]
  /\ \A k \in Slot :
       \/ calls'[k] = calls[k] \/ calls'[k] = None \/ Posted(k)
       \/ calls[k] # None /\ calls'[k] = Superseded(calls[k])

\* A step of the browser or of the Lambda.
Outside ==
  \/ \E time \in 1..MaxRows, date \in Date, minute \in Minute, status \in Reported :
       Report(time, date, minute, status)
  \/ \E s \in Session :
       \/ Open(s) \/ Tick(s)
       \/ \E d \in Date : Select(s, d)
       \/ \E m \in Minute : Click(s, m)
  \/ \E k \in Slot : Accept(k) \/ Ignore(k)

LEMMA ThreadsStay == [Next]_vars => threads' = threads
BY DEF Next, vars, Report, Open, Tick, Select, Click, Accept, Ignore, Serve, SetToday,
   ReturnDate, SetDate, ResetStatus, FillStatus, QueryStatus, WriteStatus, PlotStatus,
   ShowLog, DbFails, InServer

LEMMA NextCases == Next <=> Outside \/ \E k \in Slot : Serve(k)
BY DEF Next, Outside

LEMMA SupersededIs ==
  ASSUME NEW c, IsCall(c)
  PROVE  /\ IsCall(Superseded(c))
         /\ Superseded(c).state = "superseded"
         /\ Superseded(c).arg = c.arg /\ Superseded(c).at = c.at
         /\ Superseded(c).left = c.left /\ Superseded(c).lists = c.lists
         /\ Superseded(c).log = c.log /\ Superseded(c).answer = c.answer
         /\ Superseded(Superseded(c)) = Superseded(c)
<1>1. PICK arg, at, state, left, lists, log, answer :
        c = [arg |-> arg, at |-> at, state |-> state, left |-> left, lists |-> lists,
             log |-> log, answer |-> answer]
  BY DEF IsCall
<1>2. Superseded(c) = [arg |-> arg, at |-> at, state |-> "superseded", left |-> left,
                       lists |-> lists, log |-> log, answer |-> answer]
  BY <1>1 DEF Superseded
<1>3. Superseded(Superseded(c)) = Superseded(c)
  BY <1>2 DEF Superseded
<1>4. IsCall(Superseded(c))
  BY <1>2 DEF IsCall
<1> QED BY <1>1, <1>2, <1>3, <1>4

LEMMA CallIs ==
  ASSUME NEW arg
  PROVE  /\ IsCall(Call(arg))
         /\ Call(arg).arg = arg /\ Call(arg).at = "sent"
         /\ Call(arg).left = {} /\ Call(arg).lists = <<>> /\ Call(arg).log = {}
BY DEF IsCall, Call

\* A session waits for one call per output at most.
OneCurrent(cs) ==
  \A j, k \in Slot :
    /\ j[1] = k[1] /\ j[2] = k[2]
    /\ cs[j] # None /\ cs[j].state = "current"
    /\ cs[k] # None /\ cs[k].state = "current"
    => j = k

\* cs is the table of calls after some answers have arrived.
Remaining(cs) ==
  /\ cs = [k \in Slot |-> cs[k]]
  /\ \A k \in Slot : cs[k] = calls[k] \/ cs[k] = None

LEMMA SentOneCurrent ==
  ASSUME NEW cs, \A k \in Slot : cs[k] # None => IsCall(cs[k]),
         OneCurrent(cs), NEW k \in Slot, NEW arg
  PROVE  OneCurrent(Sent(cs, k, arg))
<1> DEFINE new == Sent(cs, k, arg)
<1>1. \A j \in Slot : j # k /\ j[1] = k[1] /\ j[2] = k[2] /\ cs[j] # None
        => new[j].state = "superseded"
  BY SupersededIs DEF Sent, Superseded
<1>2. \A j \in Slot : j # k /\ ~(j[1] = k[1] /\ j[2] = k[2] /\ cs[j] # None)
        => new[j] = cs[j]
  BY DEF Sent
<1> HIDE DEF new
<1>3. ASSUME NEW i \in Slot, NEW j \in Slot, i[1] = j[1], i[2] = j[2],
             new[i] # None, new[i].state = "current", new[j] # None, new[j].state = "current"
      PROVE  i = j
  BY <1>1, <1>2, <1>3 DEF OneCurrent
<1> QED BY <1>3 DEF OneCurrent, new

LEMMA SentBrowses ==
  ASSUME Records, OneCurrent(calls), NEW cs, Remaining(cs), NEW k \in Slot, NEW arg,
         calls' = Sent(cs, k, arg)
  PROVE  Browsed /\ OneCurrent(calls)'
<1>4. /\ calls' = [j \in Slot |-> calls'[j]]
      /\ calls'[k] = Call(arg)
      /\ \A j \in Slot : j # k =>
           calls'[j] = cs[j] \/ (cs[j] # None /\ calls'[j] = Superseded(cs[j]))
  BY DEF Sent, Superseded
<1>5. ASSUME NEW j \in Slot
      PROVE  \/ calls'[j] = calls[j] \/ calls'[j] = None \/ Posted(j)
             \/ calls[j] # None /\ calls'[j] = Superseded(calls[j])
  <2>1. CASE j = k
    BY <1>4, <2>1 DEF Posted
  <2>2. CASE j # k /\ cs[j] = None
    BY <1>4, <2>2
  <2>3. CASE j # k /\ cs[j] = calls[j]
    BY <1>4, <2>3
  <2> QED BY <2>1, <2>2, <2>3 DEF Remaining
<1>1. Browsed
  BY <1>4, <1>5 DEF Browsed
<1>2. OneCurrent(cs)
  BY DEF OneCurrent, Remaining
<1>3. OneCurrent(calls')
  BY <1>2, SentOneCurrent DEF Remaining, Records
<1> QED BY <1>1, <1>3 DEF OneCurrent

LEMMA DateSetBrowses ==
  ASSUME Records, OneCurrent(calls), NEW cs, Remaining(cs), NEW s, NEW d, DateSet(cs, s, d)
  PROVE  Browsed /\ OneCurrent(calls)'
<1>1. PICK f \in Slot, l \in Slot :
        LET asked == Sent(cs, f, d)
        IN calls' = IF page[s].click = None THEN asked ELSE Sent(asked, l, page[s].click)
  BY DEF DateSet
<1> DEFINE asked == Sent(cs, f, d)
<1>2. CASE page[s].click = None
  BY <1>1, <1>2, SentBrowses
<1>3. CASE page[s].click # None
  <2>1. calls' = Sent(asked, l, page[s].click)
    BY <1>1, <1>3
  <2>2. /\ asked[f] = Call(d)
        /\ \A j \in Slot : j # f =>
             asked[j] = cs[j] \/ (cs[j] # None /\ asked[j] = Superseded(cs[j]))
    BY DEF Sent, Superseded
  <2> HIDE DEF asked
  <2>3. \A j \in Slot :
          \/ asked[j] = calls[j] \/ asked[j] = None \/ asked[j] = Call(d)
          \/ calls[j] # None /\ asked[j] = Superseded(calls[j])
    BY <2>2 DEF Remaining
  <2>4. \A j \in Slot : asked[j] # None => IsCall(asked[j])
    BY <2>3, SupersededIs, CallIs DEF Records
  <2>5. OneCurrent(asked)
    <3>1. OneCurrent(cs)
      BY DEF OneCurrent, Remaining
    <3> QED BY <3>1, SentOneCurrent DEF Remaining, Records, asked
  <2>6. OneCurrent(Sent(asked, l, page[s].click))
    BY <2>4, <2>5, SentOneCurrent
  <2>8. /\ calls' = [j \in Slot |-> calls'[j]]
        /\ calls'[l] = Call(page[s].click)
        /\ \A j \in Slot : j # l =>
             calls'[j] = asked[j] \/ (asked[j] # None /\ calls'[j] = Superseded(asked[j]))
    BY <2>1 DEF Sent, Superseded
  <2>9. ASSUME NEW j \in Slot
        PROVE  \/ calls'[j] = calls[j] \/ calls'[j] = None \/ Posted(j)
               \/ calls[j] # None /\ calls'[j] = Superseded(calls[j])
    <3>1. CASE j = l
      BY <2>8, <3>1 DEF Posted
    <3>2. CASE j # l /\ calls'[j] = asked[j]
      BY <2>3, <3>2 DEF Posted
    <3>3. CASE j # l /\ asked[j] # None /\ calls'[j] = Superseded(asked[j])
      <4>2. CASE asked[j] = calls[j] \/ (calls[j] # None /\ asked[j] = Superseded(calls[j]))
        BY <3>3, <4>2, SupersededIs DEF Records
      <4>3. CASE asked[j] = Call(d)
        BY <3>3, <4>3 DEF Posted
      <4> QED BY <2>3, <3>3, <4>2, <4>3
    <3> QED BY <2>8, <3>1, <3>2, <3>3
  <2>7. Browsed
    BY <2>8, <2>9 DEF Browsed
  <2> QED BY <2>1, <2>6, <2>7 DEF OneCurrent
<1> QED BY <1>2, <1>3

\* The figure of a page changes only when the answer to the session's call for
\* it is put there.
Accepted(k) ==
  /\ k[2] = "figure"
  /\ calls[k] # None /\ calls[k].at = "done" /\ calls[k].state = "current"
  /\ page'[k[1]].plot = Plot(calls[k].lists, calls[k].arg, calls[k].log)
  /\ calls'[k] = None

PlotsFromAnswers ==
  \A s \in Session :
    page'[s].plot = page[s].plot \/ \E k \in Slot : k[1] = s /\ Accepted(k)

LEMMA PageKeepsPlot ==
  ASSUME Records, NEW s \in Session, NEW x,
         \/ page' = [page EXCEPT ![s].date = x]
         \/ page' = [page EXCEPT ![s].click = x]
         \/ page' = [page EXCEPT ![s].message = x]
  PROVE  /\ page' = [r \in Session |-> page'[r]]
         /\ \A r \in Session : IsPage(page'[r]) /\ page'[r].plot = page[r].plot
<1>1. PICK date, plot, click, message :
        page[s] = [date |-> date, plot |-> plot, click |-> click, message |-> message]
  BY DEF Records, IsPage
<1>2. /\ page' = [r \in Session |-> page'[r]]
      /\ \A r \in Session : r # s => page'[r] = page[r]
  BY DEF Records
<1>3. \/ page'[s] = [date |-> x, plot |-> plot, click |-> click, message |-> message]
      \/ page'[s] = [date |-> date, plot |-> plot, click |-> x, message |-> message]
      \/ page'[s] = [date |-> date, plot |-> plot, click |-> click, message |-> x]
  BY <1>1 DEF Records
<1>4. IsPage(page'[s])
  BY <1>3 DEF IsPage
<1>5. page'[s].plot = page[s].plot
  BY <1>1, <1>3
<1> QED BY <1>2, <1>4, <1>5 DEF Records

LEMMA PageTakesPlot ==
  ASSUME Records, NEW s \in Session, NEW x, page' = [page EXCEPT ![s].plot = x]
  PROVE  /\ page' = [r \in Session |-> page'[r]]
         /\ \A r \in Session : IsPage(page'[r])
         /\ page'[s].plot = x
         /\ \A r \in Session : r # s => page'[r].plot = page[r].plot
<1>1. PICK date, plot, click, message :
        page[s] = [date |-> date, plot |-> plot, click |-> click, message |-> message]
  BY DEF Records, IsPage
<1>2. /\ page' = [r \in Session |-> page'[r]]
      /\ \A r \in Session : r # s => page'[r] = page[r]
  BY DEF Records
<1>3. page'[s] = [date |-> date, plot |-> x, click |-> click, message |-> message]
  BY <1>1 DEF Records
<1>4. IsPage(page'[s])
  BY <1>3 DEF IsPage
<1> QED BY <1>2, <1>3, <1>4 DEF Records

LEMMA CallsStay == Records /\ UNCHANGED calls => Browsed
BY DEF Browsed, Records

LEMMA DroppedIs ==
  ASSUME Records, NEW k \in Slot
  PROVE  Remaining(Dropped(k)) /\ Dropped(k)[k] = None
BY DEF Records, Remaining, Dropped

LEMMA DropBrowses ==
  ASSUME Records, OneCurrent(calls), NEW k \in Slot, calls' = Dropped(k)
  PROVE  Browsed /\ OneCurrent(calls)'
<1>1. Remaining(calls')
  BY DroppedIs
<1> QED BY <1>1 DEF Remaining, Browsed, OneCurrent

LEMMA OutsideStep ==
  ASSUME Records, OneCurrent(calls), Outside
  PROVE  /\ Browsed /\ OneCurrent(calls)'
         /\ page' = [s \in Session |-> page'[s]]
         /\ \A s \in Session : IsPage(page'[s])
         /\ PlotsFromAnswers
         /\ UNCHANGED <<current_date, upload_status>>
         /\ xml_log \subseteq xml_log'
<1> DEFINE Goal ==
      /\ Browsed /\ OneCurrent(calls)'
      /\ page' = [s \in Session |-> page'[s]]
      /\ \A s \in Session : IsPage(page'[s])
      /\ PlotsFromAnswers
      /\ UNCHANGED <<current_date, upload_status>>
      /\ xml_log \subseteq xml_log'
<1>1. Remaining(calls)
  BY DEF Records, Remaining
<1>2. UNCHANGED calls => Browsed /\ OneCurrent(calls)'
  BY CallsStay DEF OneCurrent
<1>3. UNCHANGED page => /\ page' = [s \in Session |-> page'[s]]
                        /\ \A s \in Session : IsPage(page'[s])
                        /\ PlotsFromAnswers
  BY DEF Records, PlotsFromAnswers
<1>4. ASSUME NEW time \in 1..MaxRows, NEW date \in Date, NEW minute \in Minute,
             NEW status \in Reported, Report(time, date, minute, status)
      PROVE  Goal
  BY <1>2, <1>3, <1>4 DEF Report
<1>5. ASSUME NEW s \in Session, Open(s) \/ Tick(s)
      PROVE  Goal
  <2>1. PICK k \in Slot, arg \in {0, 1} : calls' = Sent(calls, k, arg)
    BY <1>5 DEF Open, Tick
  <2>2. Browsed /\ OneCurrent(calls)'
    BY <1>1, <2>1, SentBrowses
  <2> QED BY <1>3, <1>5, <2>2 DEF Open, Tick
<1>6. ASSUME NEW s \in Session, NEW d \in Date, Select(s, d)
      PROVE  Goal
  <2>1. Browsed /\ OneCurrent(calls)'
    BY <1>1, <1>2, <1>6, DateSetBrowses DEF Select
  <2>2. page' = [page EXCEPT ![s].date = d]
    BY <1>6 DEF Select
  <2>3. /\ page' = [r \in Session |-> page'[r]]
        /\ \A r \in Session : IsPage(page'[r]) /\ page'[r].plot = page[r].plot
    BY <2>2, PageKeepsPlot
  <2> QED BY <1>6, <2>1, <2>3 DEF Select, PlotsFromAnswers
<1>7. ASSUME NEW s \in Session, NEW m \in Minute, Click(s, m)
      PROVE  Goal
  <2>1. Browsed /\ OneCurrent(calls)'
    BY <1>1, <1>2, <1>7, SentBrowses DEF Click
  <2>2. page' = [page EXCEPT ![s].click = m]
    BY <1>7 DEF Click
  <2>3. /\ page' = [r \in Session |-> page'[r]]
        /\ \A r \in Session : IsPage(page'[r]) /\ page'[r].plot = page[r].plot
    BY <2>2, PageKeepsPlot
  <2> QED BY <1>7, <2>1, <2>3 DEF Click, PlotsFromAnswers
<1>8. ASSUME NEW k \in Slot, Accept(k)
      PROVE  Goal
  <2>1. k[1] \in Session
    BY DEF Slot
  <2>2. UNCHANGED <<xml_log, current_date, upload_status>>
    BY <1>8 DEF Accept
  <2>3. CASE /\ k[2] = "date"
             /\ page' = [page EXCEPT ![k[1]].date = calls[k].answer]
             /\ DateSet(Dropped(k), k[1], calls[k].answer)
    <3>1. Browsed /\ OneCurrent(calls)'
      BY <2>3, DroppedIs, DateSetBrowses
    <3>2. /\ page' = [r \in Session |-> page'[r]]
          /\ \A r \in Session : IsPage(page'[r]) /\ page'[r].plot = page[r].plot
      BY <2>1, <2>3, PageKeepsPlot
    <3> QED BY <2>2, <3>1, <3>2 DEF PlotsFromAnswers
  <2>4. CASE /\ k[2] = "figure"
             /\ page' = [page EXCEPT
                  ![k[1]].plot = Plot(calls[k].lists, calls[k].arg, calls[k].log)]
             /\ calls' = Dropped(k)
    <3>1. Browsed /\ OneCurrent(calls)'
      BY <2>4, DropBrowses
    <3>2. /\ page' = [r \in Session |-> page'[r]]
          /\ \A r \in Session : IsPage(page'[r])
          /\ page'[k[1]].plot = Plot(calls[k].lists, calls[k].arg, calls[k].log)
          /\ \A r \in Session : r # k[1] => page'[r].plot = page[r].plot
      BY <2>1, <2>4, PageTakesPlot
    <3>3. Accepted(k)
      BY <1>8, <2>4, <3>2, DroppedIs DEF Accept, Accepted
    <3> QED BY <2>2, <3>1, <3>2, <3>3 DEF PlotsFromAnswers
  <2>5. CASE /\ k[2] = "log"
             /\ page' = [page EXCEPT ![k[1]].message = calls[k].answer]
             /\ calls' = Dropped(k)
    <3>1. Browsed /\ OneCurrent(calls)'
      BY <2>5, DropBrowses
    <3>2. /\ page' = [r \in Session |-> page'[r]]
          /\ \A r \in Session : IsPage(page'[r]) /\ page'[r].plot = page[r].plot
      BY <2>1, <2>5, PageKeepsPlot
    <3> QED BY <2>2, <3>1, <3>2 DEF PlotsFromAnswers
  <2> QED BY <1>8, <2>3, <2>4, <2>5 DEF Accept
<1>9. ASSUME NEW k \in Slot, Ignore(k)
      PROVE  Goal
  <2>1. calls' = Dropped(k)
    BY <1>9 DEF Ignore
  <2>2. Browsed /\ OneCurrent(calls)'
    BY <2>1, DropBrowses
  <2>3. UNCHANGED page /\ UNCHANGED <<current_date, upload_status>> /\ xml_log' = xml_log
    BY <1>9 DEF Ignore
  <2>4. /\ page' = [s \in Session |-> page'[s]]
        /\ \A s \in Session : IsPage(page'[s])
        /\ PlotsFromAnswers
    BY <1>3, <2>3
  <2> QED BY <2>2, <2>3, <2>4
<1> QED BY <1>4, <1>5, <1>6, <1>7, <1>8, <1>9 DEF Outside

(***************************************************************************)
(* What the server does to the calls: one call moves on.                   *)
(***************************************************************************)
Put(c, at, left, lists, log, answer) ==
  [arg |-> c.arg, at |-> at, state |-> c.state, left |-> left, lists |-> lists,
   log |-> log, answer |-> answer]

Moved(k, at, left, lists, log, answer) ==
  /\ calls[k] # None
  /\ calls' = [calls EXCEPT ![k] = Put(calls[k], at, left, lists, log, answer)]

LEMMA MovedIs ==
  ASSUME Records, NEW k \in Slot, NEW at, NEW left, NEW lists, NEW log, NEW answer,
         Moved(k, at, left, lists, log, answer)
  PROVE  /\ calls' = [j \in Slot |-> calls'[j]]
         /\ \A j \in Slot : j # k => calls'[j] = calls[j]
         /\ IsCall(calls'[k])
         /\ calls'[k].arg = calls[k].arg /\ calls'[k].state = calls[k].state
         /\ calls'[k].at = at /\ calls'[k].left = left /\ calls'[k].lists = lists
         /\ calls'[k].log = log /\ calls'[k].answer = answer
<1>1. calls'[k] =
        [arg |-> calls[k].arg, at |-> at, state |-> calls[k].state, left |-> left,
         lists |-> lists, log |-> log, answer |-> answer]
  BY DEF Moved, Put, Records
<1>2. IsCall(calls'[k])
  BY <1>1 DEF IsCall
<1> QED BY <1>1, <1>2 DEF Moved, Put, Records

LEMMA GoesIs ==
  ASSUME Records, NEW k \in Slot, NEW label, calls[k] # None, Goes(k, label)
  PROVE  Moved(k, label, calls[k].left, calls[k].lists, calls[k].log, calls[k].answer)
<1>1. PICK arg, at, state, left, lists, log, answer :
        calls[k] = [arg |-> arg, at |-> at, state |-> state, left |-> left,
                    lists |-> lists, log |-> log, answer |-> answer]
  BY DEF Records, IsCall
<1>2. calls' = [calls EXCEPT ![k] = [calls[k] EXCEPT !.at = label]]
  BY DEF Goes
<1>3. [calls[k] EXCEPT !.at = label] =
        [arg |-> arg, at |-> label, state |-> state, left |-> left, lists |-> lists,
         log |-> log, answer |-> answer]
  BY <1>1
<1> QED BY <1>1, <1>2, <1>3 DEF Moved, Put

\* The steps that change two fields of a call, or three.
LEMMA PutMoves ==
  ASSUME Records, NEW k \in Slot, calls[k] # None, NEW at, NEW x, NEW y
  PROVE  /\ calls' = [calls EXCEPT ![k] = [@ EXCEPT !.at = at, !.left = x]]
            => Moved(k, at, x, calls[k].lists, calls[k].log, calls[k].answer)
         /\ calls' = [calls EXCEPT ![k] = [@ EXCEPT !.at = at, !.lists = x]]
            => Moved(k, at, calls[k].left, x, calls[k].log, calls[k].answer)
         /\ calls' = [calls EXCEPT ![k] = [@ EXCEPT !.at = at, !.answer = x]]
            => Moved(k, at, calls[k].left, calls[k].lists, calls[k].log, x)
         /\ calls' = [calls EXCEPT ![k] = [@ EXCEPT !.at = at, !.left = x, !.log = y]]
            => Moved(k, at, x, calls[k].lists, y, calls[k].answer)
<1>0. PICK c : c = calls[k] /\ IsCall(c)
  BY DEF Records
<1>1. PICK arg, was, state, left, lists, log, answer :
        c = [arg |-> arg, at |-> was, state |-> state, left |-> left, lists |-> lists,
             log |-> log, answer |-> answer]
  BY <1>0 DEF IsCall
<1>2. PICK q : q = [c EXCEPT !.at = at]
  OBVIOUS
<1>3. q = [arg |-> arg, at |-> at, state |-> state, left |-> left, lists |-> lists,
           log |-> log, answer |-> answer]
  BY <1>1, <1>2
<1>4. PICK p : p = [q EXCEPT !.left = x]
  OBVIOUS
<1>5. p = [arg |-> arg, at |-> at, state |-> state, left |-> x, lists |-> lists,
           log |-> log, answer |-> answer]
  BY <1>3, <1>4
<1>6. [c EXCEPT !.at = at, !.left = x] = p
  BY <1>2, <1>4
<1>7. [q EXCEPT !.lists = x] =
        [arg |-> arg, at |-> at, state |-> state, left |-> left, lists |-> x,
         log |-> log, answer |-> answer]
  BY <1>3
<1>8. [q EXCEPT !.answer = x] =
        [arg |-> arg, at |-> at, state |-> state, left |-> left, lists |-> lists,
         log |-> log, answer |-> x]
  BY <1>3
<1>9. [p EXCEPT !.log = y] =
        [arg |-> arg, at |-> at, state |-> state, left |-> x, lists |-> lists,
         log |-> y, answer |-> answer]
  BY <1>5
<1>10. /\ [c EXCEPT !.at = at, !.lists = x] = [q EXCEPT !.lists = x]
       /\ [c EXCEPT !.at = at, !.answer = x] = [q EXCEPT !.answer = x]
  BY <1>2
<1>11. [c EXCEPT !.at = at, !.left = x, !.log = y] = [p EXCEPT !.log = y]
  BY <1>2, <1>4
<1>12. /\ c.arg = arg /\ c.state = state /\ c.left = left /\ c.lists = lists
       /\ c.log = log /\ c.answer = answer
  BY <1>1
<1>13. [c EXCEPT !.at = at, !.left = x] = Put(c, at, x, c.lists, c.log, c.answer)
  BY <1>5, <1>6, <1>12 DEF Put
<1>14. [c EXCEPT !.at = at, !.lists = x] = Put(c, at, c.left, x, c.log, c.answer)
  BY <1>7, <1>10, <1>12 DEF Put
<1>15. [c EXCEPT !.at = at, !.answer = x] = Put(c, at, c.left, c.lists, c.log, x)
  BY <1>8, <1>10, <1>12 DEF Put
<1>16. [c EXCEPT !.at = at, !.left = x, !.log = y] = Put(c, at, x, c.lists, y, c.answer)
  BY <1>9, <1>11, <1>12 DEF Put
<1> QED BY <1>0, <1>13, <1>14, <1>15, <1>16 DEF Moved

(***************************************************************************)
(* The steps of the server.                                                *)
(***************************************************************************)
Becomes(k, at) ==
  Moved(k, at, calls[k].left, calls[k].lists, calls[k].log, calls[k].answer)

LEMMA SetTodayMoves ==
  ASSUME Records, NEW k \in Slot, SetToday(k) PROVE Becomes(k, "date.return")
BY GoesIs DEF SetToday, Starts, Becomes

LEMMA ReturnDateMoves ==
  ASSUME Records, NEW k \in Slot, ReturnDate(k)
  PROVE  Moved(k, "done", calls[k].left, calls[k].lists, calls[k].log, current_date)
BY PutMoves DEF ReturnDate, At

LEMMA SetDateMoves ==
  ASSUME Records, NEW k \in Slot, SetDate(k) PROVE Becomes(k, "reset")
BY GoesIs DEF SetDate, Starts, Becomes

LEMMA ResetStatusMoves ==
  ASSUME Records, NEW k \in Slot, ResetStatus(k)
  PROVE  Moved(k, "fill", Minute, calls[k].lists, calls[k].log, calls[k].answer)
BY PutMoves DEF ResetStatus, At

LEMMA FillStatusMoves ==
  ASSUME Records, NEW k \in Slot, FillStatus(k)
  PROVE  \E m \in calls[k].left :
           /\ \A n \in calls[k].left : m <= n
           /\ upload_status' = Append(upload_status, [minute |-> m, status |-> -1])
           /\ Moved(k, IF calls[k].left = {m} THEN "query" ELSE "fill",
                    calls[k].left \ {m}, calls[k].lists, calls[k].log, calls[k].answer)
BY PutMoves DEF FillStatus, At

LEMMA QueryStatusMoves ==
  ASSUME Records, NEW k \in Slot, QueryStatus(k)
  PROVE  Moved(k, Rest(LatestRows(current_date)), LatestRows(current_date),
               calls[k].lists, xml_log, calls[k].answer)
BY PutMoves DEF QueryStatus, At

LEMMA WriteStatusMoves ==
  ASSUME Records, NEW k \in Slot, WriteStatus(k)
  PROVE  \E r \in calls[k].left :
           \/ /\ r.minute \in DOMAIN upload_status
              /\ upload_status' = [upload_status EXCEPT
                   ![r.minute] = [minute |-> r.minute, status |-> r.status]]
              /\ Moved(k, Rest(calls[k].left \ {r}), calls[k].left \ {r},
                       calls[k].lists, calls[k].log, calls[k].answer)
           \/ /\ r.minute \notin DOMAIN upload_status /\ UNCHANGED upload_status
              /\ Becomes(k, "failed")
<1>1. Goes(k, "failed") => Becomes(k, "failed")
  BY GoesIs DEF WriteStatus, At, Becomes
<1>2. PICK r \in calls[k].left :
        IF r.minute \in DOMAIN upload_status
          THEN /\ upload_status' = [upload_status EXCEPT
                    ![r.minute] = [minute |-> r.minute, status |-> r.status]]
               /\ calls' = [calls EXCEPT ![k] =
                    [@ EXCEPT !.at = Rest(calls[k].left \ {r}),
                              !.left = calls[k].left \ {r}]]
          ELSE Goes(k, "failed") /\ UNCHANGED upload_status
  BY DEF WriteStatus
<1>3. CASE r.minute \in DOMAIN upload_status
  BY <1>2, <1>3, PutMoves DEF WriteStatus, At
<1>4. CASE r.minute \notin DOMAIN upload_status
  BY <1>1, <1>2, <1>4
<1> QED BY <1>3, <1>4

LEMMA PlotStatusMoves ==
  ASSUME Records, NEW k \in Slot, PlotStatus(k)
  PROVE  Moved(k, IF Len(calls[k].lists) = Reads - 1 THEN "done" ELSE "plot", calls[k].left,
               Append(calls[k].lists, Markers(upload_status, Len(calls[k].lists))),
               calls[k].log, calls[k].answer)
BY PutMoves DEF PlotStatus, At

LEMMA ShowLogMoves ==
  ASSUME Records, NEW k \in Slot, ShowLog(k)
  PROVE  \E answer : Moved(k, "done", calls[k].left, calls[k].lists, calls[k].log, answer)
<1>1. PICK row :
        calls' = [calls EXCEPT ![k] = [@ EXCEPT !.at = "done", !.answer = row]]
  BY DEF ShowLog
<1> QED BY <1>1, PutMoves DEF ShowLog, Starts

LEMMA DbFailsMoves ==
  ASSUME Records, NEW k \in Slot, DbFails(k) PROVE Becomes(k, "failed")
BY GoesIs DEF DbFails, Starts, At, Becomes

-----------------------------------------------------------------------------
(***************************************************************************)
(* However many threads the server has: the call whose figure is taken has *)
(* not queried the table before the one whose figure it replaces, because  *)
(* a call queries the table after it was sent, and the answer is taken of  *)
(* the last call sent only.  What the figure shows is another question.    *)
(***************************************************************************)
Queried == {"write", "plot", "done"}

\* A figure that the page will take has been queried.
Waiting(k) ==
  /\ k[2] = "figure"
  /\ calls[k] # None /\ calls[k].state = "current" /\ calls[k].at \in Queried

NewerInv ==
  /\ Records /\ OneCurrent(calls)
  /\ \A k \in Slot : calls[k] # None =>
       calls[k].log \subseteq xml_log /\ (k[2] = "figure" => calls[k].at # "date.return")
  /\ \A s \in Session : page[s].plot.log \subseteq xml_log
  /\ \A k \in Slot : Waiting(k) => page[k[1]].plot.log \subseteq calls[k].log

\* The call k moves on, and has the log that it had or the present one.
Served(k) ==
  /\ calls[k] # None
  /\ calls' = [j \in Slot |-> calls'[j]]
  /\ \A j \in Slot : j # k => calls'[j] = calls[j]
  /\ IsCall(calls'[k]) /\ calls'[k].state = calls[k].state
  /\ k[2] = "figure" => calls'[k].at # "date.return"
  /\ \/ calls'[k].log = xml_log
     \/ /\ calls'[k].log = calls[k].log
        /\ k[2] = "figure" /\ calls'[k].at \in Queried => calls[k].at \in Queried

\* The label and the log that a step of the server may give to the call k.
Serves(k, at, log) ==
  /\ k[2] = "figure" => at # "date.return"
  /\ \/ log = xml_log
     \/ log = calls[k].log /\ (k[2] = "figure" /\ at \in Queried => calls[k].at \in Queried)

LEMMA MovedServes ==
  ASSUME Records, NEW k \in Slot, NEW at, NEW left, NEW lists, NEW log, NEW answer,
         Moved(k, at, left, lists, log, answer), Serves(k, at, log)
  PROVE  Served(k)
<1>1. calls[k] # None
  BY DEF Moved
<1>2. /\ calls' = [j \in Slot |-> calls'[j]]
      /\ \A j \in Slot : j # k => calls'[j] = calls[j]
      /\ IsCall(calls'[k])
      /\ calls'[k].state = calls[k].state
      /\ calls'[k].at = at /\ calls'[k].log = log
  BY MovedIs
<1> QED BY <1>1, <1>2 DEF Serves, Served

LEMMA ServeStep ==
  ASSUME Records, NEW k \in Slot, Serve(k),
         k[2] = "figure" => calls[k].at # "date.return"
  PROVE  Served(k) /\ UNCHANGED <<xml_log, page>>
<1>1. UNCHANGED <<xml_log, page>>
  BY DEF Serve, SetToday, ReturnDate, SetDate, ResetStatus, FillStatus, QueryStatus,
     WriteStatus, PlotStatus, ShowLog, DbFails, InServer
<1>2. \E at, left, lists, log, answer :
        Moved(k, at, left, lists, log, answer) /\ Serves(k, at, log)
  <2>1. CASE SetToday(k)
    <3>1. Moved(k, "date.return", calls[k].left, calls[k].lists, calls[k].log, calls[k].answer)
      BY <2>1, SetTodayMoves DEF Becomes
    <3>2. Serves(k, "date.return", calls[k].log)
      BY <2>1 DEF SetToday, Starts, Serves, Queried
    <3> QED BY <3>1, <3>2
  <2>2. CASE ReturnDate(k)
    <3>1. Moved(k, "done", calls[k].left, calls[k].lists, calls[k].log, current_date)
      BY <2>2, ReturnDateMoves
    <3>2. Serves(k, "done", calls[k].log)
      BY <2>2 DEF ReturnDate, At, Serves, Queried
    <3> QED BY <3>1, <3>2
  <2>3. CASE SetDate(k)
    <3>1. Moved(k, "reset", calls[k].left, calls[k].lists, calls[k].log, calls[k].answer)
      BY <2>3, SetDateMoves DEF Becomes
    <3>2. Serves(k, "reset", calls[k].log)
      BY DEF Serves, Queried
    <3> QED BY <3>1, <3>2
  <2>4. CASE ResetStatus(k)
    <3>1. Moved(k, "fill", Minute, calls[k].lists, calls[k].log, calls[k].answer)
      BY <2>4, ResetStatusMoves
    <3>2. Serves(k, "fill", calls[k].log)
      BY DEF Serves, Queried
    <3> QED BY <3>1, <3>2
  <2>5. CASE FillStatus(k)
    <3>1. PICK m :
            Moved(k, IF calls[k].left = {m} THEN "query" ELSE "fill", calls[k].left \ {m},
                  calls[k].lists, calls[k].log, calls[k].answer)
      BY <2>5, FillStatusMoves
    <3>2. Serves(k, IF calls[k].left = {m} THEN "query" ELSE "fill", calls[k].log)
      BY DEF Serves, Queried
    <3> QED BY <3>1, <3>2
  <2>6. CASE QueryStatus(k)
    <3>1. Moved(k, Rest(LatestRows(current_date)), LatestRows(current_date),
                calls[k].lists, xml_log, calls[k].answer)
      BY <2>6, QueryStatusMoves
    <3>2. Serves(k, Rest(LatestRows(current_date)), xml_log)
      BY DEF Serves, Rest
    <3> QED BY <3>1, <3>2
  <2>7. CASE WriteStatus(k)
    <3>1. PICK r :
            \/ Moved(k, Rest(calls[k].left \ {r}), calls[k].left \ {r}, calls[k].lists,
                     calls[k].log, calls[k].answer)
            \/ Becomes(k, "failed")
      BY <2>7, WriteStatusMoves
    <3>2. Serves(k, Rest(calls[k].left \ {r}), calls[k].log)
      BY <2>7 DEF WriteStatus, At, Serves, Queried, Rest
    <3>3. Serves(k, "failed", calls[k].log)
      BY DEF Serves, Queried
    <3> QED BY <3>1, <3>2, <3>3 DEF Becomes
  <2>8. CASE PlotStatus(k)
    <3> DEFINE at == IF Len(calls[k].lists) = Reads - 1 THEN "done" ELSE "plot"
    <3>1. PICK lists : Moved(k, at, calls[k].left, lists, calls[k].log, calls[k].answer)
      BY <2>8, PlotStatusMoves
    <3>2. Serves(k, at, calls[k].log)
      BY <2>8 DEF PlotStatus, At, Serves, Queried
    <3> QED BY <3>1, <3>2
  <2>9. CASE ShowLog(k)
    <3>1. PICK answer :
            Moved(k, "done", calls[k].left, calls[k].lists, calls[k].log, answer)
      BY <2>9, ShowLogMoves
    <3>2. Serves(k, "done", calls[k].log)
      BY <2>9 DEF ShowLog, Starts, Serves
    <3> QED BY <3>1, <3>2
  <2>10. CASE DbFails(k)
    <3>1. Moved(k, "failed", calls[k].left, calls[k].lists, calls[k].log, calls[k].answer)
      BY <2>10, DbFailsMoves DEF Becomes
    <3>2. Serves(k, "failed", calls[k].log)
      BY DEF Serves, Queried
    <3> QED BY <3>1, <3>2
  <2> QED BY <2>1, <2>2, <2>3, <2>4, <2>5, <2>6, <2>7, <2>8, <2>9, <2>10 DEF Serve
<1> QED BY <1>1, <1>2, MovedServes

LEMMA NewerServed ==
  ASSUME NewerInv, NEW k \in Slot, Serve(k)
  PROVE  NewerInv' /\ UNCHANGED page
<1>1. Served(k) /\ UNCHANGED <<xml_log, page>>
  BY ServeStep DEF NewerInv, Serve, SetToday, ReturnDate, SetDate, ResetStatus, FillStatus,
     QueryStatus, WriteStatus, PlotStatus, ShowLog, DbFails, At, Starts
<1>2. Records'
  BY <1>1 DEF NewerInv, Records, Served
<1>3. OneCurrent(calls)'
  BY <1>1 DEF NewerInv, OneCurrent, Served
<1>4. ASSUME NEW j \in Slot, calls'[j] # None
      PROVE  /\ calls'[j].log \subseteq xml_log'
             /\ j[2] = "figure" => calls'[j].at # "date.return"
  BY <1>1, <1>4 DEF NewerInv, Served
<1>5. ASSUME NEW j \in Slot, Waiting(j)'
      PROVE  page'[j[1]].plot.log \subseteq calls'[j].log
  <2>1. j[1] \in Session
    BY DEF Slot
  <2>2. CASE j # k
    BY <1>1, <1>5, <2>2 DEF NewerInv, Served, Waiting
  <2>3. CASE j = k
    BY <1>1, <1>5, <2>1, <2>3 DEF NewerInv, Served, Waiting
  <2> QED BY <2>2, <2>3
<1> QED BY <1>1, <1>2, <1>3, <1>4, <1>5 DEF NewerInv

LEMMA NewerOutside ==
  ASSUME NewerInv, Outside
  PROVE  NewerInv' /\ \A s \in Session : page[s].plot.log \subseteq page'[s].plot.log
<1>1. /\ Browsed /\ OneCurrent(calls)'
      /\ page' = [s \in Session |-> page'[s]]
      /\ \A s \in Session : IsPage(page'[s])
      /\ PlotsFromAnswers
      /\ xml_log \subseteq xml_log'
  BY OutsideStep DEF NewerInv
<1>2. ASSUME NEW k \in Slot, calls'[k] # None
      PROVE  /\ IsCall(calls'[k])
             /\ calls'[k].log \subseteq xml_log'
             /\ k[2] = "figure" => calls'[k].at # "date.return"
             /\ Waiting(k)' => calls'[k] = calls[k] /\ Waiting(k)
  <2>1. CASE calls'[k] = calls[k]
    BY <1>1, <1>2, <2>1 DEF NewerInv, Records, Waiting
  <2>2. CASE Posted(k)
    BY <2>2, CallIs, SupersededIs DEF Posted, Waiting, Queried
  <2>3. CASE calls[k] # None /\ calls'[k] = Superseded(calls[k])
    BY <1>1, <2>3, SupersededIs DEF NewerInv, Records, Waiting
  <2> QED BY <1>1, <1>2, <2>1, <2>2, <2>3 DEF Browsed
<1>3. ASSUME NEW s \in Session
      PROVE  /\ page[s].plot.log \subseteq page'[s].plot.log
             /\ page'[s].plot.log \subseteq xml_log'
             /\ \A k \in Slot :
                  k[1] = s /\ Waiting(k)' => page'[s].plot.log \subseteq calls'[k].log
  <2>1. CASE page'[s].plot = page[s].plot
    BY <1>1, <1>2, <2>1 DEF NewerInv, Waiting
  <2>2. ASSUME NEW j \in Slot, j[1] = s, Accepted(j)
        PROVE  /\ page[s].plot.log \subseteq page'[s].plot.log
               /\ page'[s].plot.log \subseteq xml_log'
               /\ \A k \in Slot : k[1] = s => ~Waiting(k)'
    <3>1. page'[s].plot.log = calls[j].log
      BY <2>2 DEF Accepted, Plot
    <3>2. Waiting(j)
      BY <2>2 DEF Accepted, Waiting, Queried
    <3>3. ASSUME NEW k \in Slot, k[1] = s, Waiting(k)'
          PROVE  FALSE
      <4>1. Waiting(k) /\ calls'[k] # None
        BY <1>2, <3>3 DEF Waiting
      <4>2. j = k
        BY <2>2, <3>2, <3>3, <4>1 DEF NewerInv, OneCurrent, Waiting
      <4> QED BY <2>2, <4>1, <4>2 DEF Accepted
    <3> QED BY <1>1, <2>2, <3>1, <3>2, <3>3 DEF NewerInv, Waiting
  <2> QED BY <1>1, <2>1, <2>2 DEF PlotsFromAnswers
<1>4. Records'
  BY <1>1, <1>2 DEF Records, Browsed
<1>5. \A k \in Slot : k[1] \in Session
  BY DEF Slot
<1> QED BY <1>1, <1>2, <1>3, <1>4, <1>5 DEF NewerInv

LEMMA NewerInit == Init => NewerInv
<1> SUFFICES ASSUME Init PROVE NewerInv
  OBVIOUS
<1>1. Records
  BY DEF Init, Records, IsPage
<1>2. OneCurrent(calls)
  BY DEF Init, OneCurrent
<1>3. \A s \in Session : page[s].plot.log \subseteq xml_log
  BY DEF Init, EmptyPlot, Plot
<1> QED BY <1>1, <1>2, <1>3 DEF Init, NewerInv, Waiting

LEMMA NewerStep ==
  NewerInv /\ [Next]_vars =>
    NewerInv' /\ \A s \in Session : page[s].plot.log \subseteq page'[s].plot.log
<1> SUFFICES ASSUME NewerInv, [Next]_vars
             PROVE  /\ NewerInv'
                    /\ \A s \in Session : page[s].plot.log \subseteq page'[s].plot.log
  OBVIOUS
<1>1. CASE UNCHANGED vars
  BY <1>1 DEF vars, NewerInv, Records, OneCurrent, Waiting
<1>2. CASE Outside
  BY <1>2, NewerOutside
<1>3. ASSUME NEW k \in Slot, Serve(k)
      PROVE  NewerInv' /\ UNCHANGED page
  BY <1>3, NewerServed
<1> QED BY <1>1, <1>2, <1>3, NextCases

-----------------------------------------------------------------------------
(***************************************************************************)
(* TypeOK.  What a call may hold depends on its output and on how far it   *)
(* has come: the dates that are passed around are dates, a loop goes over  *)
(* minutes or over rows, and the answer for a figure is complete.          *)
(***************************************************************************)
DateCall(c) == c.at \in {"sent", "date.return", "done"} /\ (c.at = "done" => c.answer \in Date)

FigureCall(c) ==
  /\ c.at \in Label \ {"date.return"}
  /\ c.arg \in Date
  /\ c.at = "fill" => c.left \subseteq Minute
  /\ c.at = "write" => c.left \subseteq LogRow
  /\ IF c.at = "done" THEN Len(c.lists) = Reads ELSE Len(c.lists) < Reads

LogCall(c) ==
  c.at \in {"sent", "done", "failed"} /\ (c.at = "done" => c.answer \in LogRow \cup {None})

Typed(k) ==
  calls[k] # None =>
    /\ calls[k].state \in {"current", "superseded"}
    /\ calls[k].log \subseteq LogRow
    /\ calls[k].lists \in Seq(SUBSET Minute) /\ Len(calls[k].lists) <= Reads
    /\ k[2] = "date" => DateCall(calls[k])
    /\ k[2] = "figure" => FigureCall(calls[k])
    /\ k[2] = "log" => LogCall(calls[k])

TypedInv == Records /\ OneCurrent(calls) /\ TypeOK /\ \A k \in Slot : Typed(k)

LEMMA ReadsNat == Reads \in Nat \ {0}
<1>1. Statuses \in Seq(-1..2) /\ -1 \in Range(Statuses)
  BY DashboardAssumption
<1>2. Len(Statuses) # 0
  BY <1>1 DEF Range
<1> QED BY <1>1, <1>2 DEF Reads

LEMMA MarkersTyped ==
  ASSUME NEW list \in Seq([minute: Minute, status: Stat]), NEW read
  PROVE  Markers(list, read) \subseteq Minute
<1>1. \A k \in DOMAIN list : list[k] \in [minute: Minute, status: Stat]
  BY LenProperties, ElementOfSeq, Zenon
<1> QED BY <1>1 DEF Markers

LEMMA GrayTyped == Gray \in Seq([minute: Minute, status: Stat])
<1>1. -1 \in Stat /\ Minutes \in Nat
  BY DashboardAssumption DEF Stat
<1>2. Gray \in [1..Minutes -> [minute: Minute, status: Stat]]
  BY <1>1 DEF Gray, Minute
<1> QED BY <1>1, <1>2, SeqDef

LEMMA TypedInit == Init => TypedInv
<1> SUFFICES ASSUME Init PROVE TypedInv
  OBVIOUS
<1>1. Records /\ OneCurrent(calls)
  BY NewerInit DEF NewerInv
<1>2. \A s \in Session : PageOK(page[s])
  BY GrayTyped, MarkersTyped, DashboardAssumption DEF Init, PageOK, EmptyPlot, Plot
<1>3. TypeOK
  BY <1>2, GrayTyped, DashboardAssumption DEF Init, TypeOK
<1>4. \A k \in Slot : Typed(k)
  BY DEF Init, Typed
<1> QED BY <1>1, <1>3, <1>4 DEF TypedInv

\* A call that satisfies Typed is a call in the sense of TypeOK.
LEMMA TypedCallOK ==
  ASSUME NEW k \in Slot, Typed(k), calls[k] # None
  PROVE  CallOK(calls[k])
<1>1. k[2] \in Output
  BY DEF Slot
<1>2. calls[k].at \in Label
  BY <1>1 DEF Output, Typed, DateCall, FigureCall, LogCall, Label
<1>3. \A n \in DOMAIN calls[k].lists : n <= Reads /\ calls[k].lists[n] \subseteq Minute
  BY ReadsNat DEF Typed
<1> QED BY <1>2, <1>3 DEF Typed, CallOK

\* The call k moves on; only what the step computes has to be looked at.
LEMMA MovedTyped ==
  ASSUME TypedInv, NEW k \in Slot, NEW at, NEW left, NEW lists, NEW log, NEW answer,
         Moved(k, at, left, lists, log, answer),
         UNCHANGED <<xml_log, page, opened, threads, inputs>>,
         log \subseteq LogRow, lists \in Seq(SUBSET Minute), Len(lists) <= Reads,
         k[2] = "date" => /\ at \in {"sent", "date.return", "done"}
                          /\ at = "done" => answer \in Date,
         k[2] = "figure" =>
           /\ at \in Label \ {"date.return"}
           /\ at = "fill" => left \subseteq Minute
           /\ at = "write" => left \subseteq LogRow
           /\ IF at = "done" THEN Len(lists) = Reads ELSE Len(lists) < Reads,
         k[2] = "log" => /\ at \in {"sent", "done", "failed"}
                         /\ at = "done" => answer \in LogRow \cup {None},
         current_date' \in Date, upload_status' \in Seq([minute: Minute, status: Stat]),
         faults' \in 0..MaxFaults
  PROVE  TypedInv'
<1>1. /\ calls[k] # None
      /\ calls' = [j \in Slot |-> calls'[j]]
      /\ \A j \in Slot : j # k => calls'[j] = calls[j]
      /\ IsCall(calls'[k])
      /\ calls'[k].arg = calls[k].arg /\ calls'[k].state = calls[k].state
      /\ calls'[k].at = at /\ calls'[k].left = left /\ calls'[k].lists = lists
      /\ calls'[k].log = log /\ calls'[k].answer = answer
  BY MovedIs DEF TypedInv, Moved
<1>2. Records'
  BY <1>1 DEF TypedInv, Records
<1>3. OneCurrent(calls)'
  BY <1>1 DEF TypedInv, OneCurrent
<1>4. Typed(k)'
  BY <1>1 DEF TypedInv, Typed, DateCall, FigureCall, LogCall
<1>5. \A j \in Slot : Typed(j)'
  BY <1>1, <1>4 DEF TypedInv, Typed
<1>6. \A j \in Slot : calls'[j] # None => CallOK(calls'[j])
  <2>1. ASSUME NEW j \in Slot, calls'[j] # None PROVE CallOK(calls'[j])
    <3>1. CASE j # k
      BY <1>1, <2>1, <3>1 DEF TypedInv, TypeOK
    <3>2. CASE j = k
      <4>1. k[2] \in Output
        BY DEF Slot
      <4>2. at \in Label
        BY <4>1 DEF Output, Label
      <4>3. \A n \in DOMAIN lists : n <= Reads /\ lists[n] \subseteq Minute
        BY ReadsNat
      <4> QED BY <1>1, <3>2, <4>2, <4>3 DEF TypedInv, Typed, CallOK
    <3> QED BY <3>1, <3>2
  <2> QED BY <2>1
<1>7. TypeOK'
  BY <1>6 DEF TypedInv, TypeOK
<1> QED BY <1>2, <1>3, <1>5, <1>7 DEF TypedInv

\* The parts of TypedInv that the steps of the server rest on.
LEMMA TypedParts ==
  ASSUME TypedInv, NEW k \in Slot, calls[k] # None
  PROVE  /\ Records
         /\ calls[k].log \subseteq LogRow
         /\ calls[k].lists \in Seq(SUBSET Minute) /\ Len(calls[k].lists) <= Reads
         /\ k[2] = "date" => DateCall(calls[k])
         /\ k[2] = "figure" => FigureCall(calls[k])
         /\ k[2] = "log" => LogCall(calls[k])
         /\ k[2] \in {"date", "figure", "log"}
         /\ current_date \in Date
         /\ upload_status \in Seq([minute: Minute, status: Stat])
         /\ xml_log \subseteq LogRow /\ faults \in 0..MaxFaults
BY DEF TypedInv, TypeOK, Typed, Slot, Output

LEMMA ServedTyped ==
  ASSUME TypedInv, NEW k \in Slot, Serve(k)
  PROVE  TypedInv'
<1>1. calls[k] # None
  BY DEF Serve, SetToday, ReturnDate, SetDate, ResetStatus, FillStatus, QueryStatus,
     WriteStatus, PlotStatus, ShowLog, DbFails, At, Starts
<1>2. UNCHANGED <<xml_log, page, opened, threads, inputs>>
  BY DEF Serve, SetToday, ReturnDate, SetDate, ResetStatus, FillStatus, QueryStatus,
     WriteStatus, PlotStatus, ShowLog, DbFails, InServer
<1>3. LatestRows(current_date) \subseteq LogRow
  BY <1>1, TypedParts DEF LatestRows
<1>4. CASE SetToday(k)
  <2>1. Moved(k, "date.return", calls[k].left, calls[k].lists, calls[k].log, calls[k].answer)
    BY <1>1, <1>4, TypedParts, SetTodayMoves DEF Becomes
  <2> QED BY <1>1, <1>2, <1>4, <2>1, TypedParts, MovedTyped, DashboardAssumption
          DEF SetToday, Starts
<1>5. CASE ReturnDate(k)
  <2>1. Moved(k, "done", calls[k].left, calls[k].lists, calls[k].log, current_date)
    BY <1>1, <1>5, TypedParts, ReturnDateMoves
  <2>2. k[2] = "date"
    BY <1>1, <1>5, TypedParts DEF ReturnDate, At, FigureCall, LogCall
  <2> QED BY <1>1, <1>2, <1>5, <2>1, <2>2, TypedParts, MovedTyped DEF ReturnDate
<1>6. CASE SetDate(k)
  <2>1. Moved(k, "reset", calls[k].left, calls[k].lists, calls[k].log, calls[k].answer)
    BY <1>1, <1>6, TypedParts, SetDateMoves DEF Becomes
  <2> QED BY <1>1, <1>2, <1>6, <2>1, TypedParts, MovedTyped
          DEF SetDate, Starts, FigureCall, Label
<1>7. CASE ResetStatus(k)
  <2>1. Moved(k, "fill", Minute, calls[k].lists, calls[k].log, calls[k].answer)
    BY <1>1, <1>7, TypedParts, ResetStatusMoves
  <2>2. k[2] = "figure" /\ FigureCall(calls[k]) /\ calls[k].at = "reset"
    BY <1>1, <1>7, TypedParts DEF ResetStatus, At, DateCall, LogCall
  <2> QED BY <1>1, <1>2, <1>7, <2>1, <2>2, TypedParts, MovedTyped
          DEF ResetStatus, FigureCall, Label
<1>8. CASE FillStatus(k)
  <2>1. PICK m \in calls[k].left :
          /\ upload_status' = Append(upload_status, [minute |-> m, status |-> -1])
          /\ Moved(k, IF calls[k].left = {m} THEN "query" ELSE "fill", calls[k].left \ {m},
                   calls[k].lists, calls[k].log, calls[k].answer)
    BY <1>1, <1>8, TypedParts, FillStatusMoves
  <2>2. k[2] = "figure" /\ FigureCall(calls[k]) /\ calls[k].at = "fill"
    BY <1>1, <1>8, TypedParts DEF FillStatus, At, DateCall, LogCall
  <2>3. m \in Minute /\ -1 \in Stat
    BY <2>2, DashboardAssumption DEF FigureCall, Stat
  <2>4. upload_status' \in Seq([minute: Minute, status: Stat])
    <3>1. [minute |-> m, status |-> -1] \in [minute: Minute, status: Stat]
      BY <2>3
    <3>2. upload_status \in Seq([minute: Minute, status: Stat])
      BY <1>1, TypedParts
    <3> QED BY <2>1, <3>1, <3>2, AppendProperties, Zenon
  <2>5. calls[k].left \ {m} \subseteq Minute
    BY <2>2 DEF FigureCall
  <2> QED BY <1>1, <1>2, <1>8, <2>1, <2>2, <2>4, <2>5, TypedParts, MovedTyped
          DEF FillStatus, FigureCall, Label
<1>9. CASE QueryStatus(k)
  <2>1. Moved(k, Rest(LatestRows(current_date)), LatestRows(current_date), calls[k].lists,
              xml_log, calls[k].answer)
    BY <1>1, <1>9, TypedParts, QueryStatusMoves
  <2>2. k[2] = "figure" /\ FigureCall(calls[k]) /\ calls[k].at = "query"
    BY <1>1, <1>9, TypedParts DEF QueryStatus, At, DateCall, LogCall
  <2> QED BY <1>1, <1>2, <1>3, <1>9, <2>1, <2>2, TypedParts, MovedTyped
          DEF QueryStatus, FigureCall, Label, Rest
<1>10. CASE WriteStatus(k)
  <2>1. PICK r \in calls[k].left :
          \/ /\ r.minute \in DOMAIN upload_status
             /\ upload_status' = [upload_status EXCEPT
                  ![r.minute] = [minute |-> r.minute, status |-> r.status]]
             /\ Moved(k, Rest(calls[k].left \ {r}), calls[k].left \ {r}, calls[k].lists,
                      calls[k].log, calls[k].answer)
          \/ UNCHANGED upload_status /\ Becomes(k, "failed")
    BY <1>1, <1>10, TypedParts, WriteStatusMoves
  <2>2. k[2] = "figure" /\ FigureCall(calls[k]) /\ calls[k].at = "write"
    BY <1>1, <1>10, TypedParts DEF WriteStatus, At, DateCall, LogCall
  <2>3. r \in LogRow /\ calls[k].left \ {r} \subseteq LogRow
    BY <2>2 DEF FigureCall
  <2>4. upload_status' \in Seq([minute: Minute, status: Stat])
    <3>1. [minute |-> r.minute, status |-> r.status] \in [minute: Minute, status: Stat]
      BY <2>3 DEF LogRow
    <3>2. upload_status \in Seq([minute: Minute, status: Stat])
      BY <1>1, TypedParts
    <3>3. DOMAIN upload_status = 1..Len(upload_status)
      BY <3>2, LenProperties, Zenon
    <3>4. CASE r.minute \in DOMAIN upload_status
      <4>1. \A e \in [minute: Minute, status: Stat] :
              [upload_status EXCEPT ![r.minute] = e] \in Seq([minute: Minute, status: Stat])
        BY <3>2, <3>3, <3>4, ExceptSeq, Zenon
      <4> QED BY <2>1, <3>1, <3>2, <4>1
    <3> QED BY <2>1, <3>2, <3>4
  <2>5. CASE Moved(k, Rest(calls[k].left \ {r}), calls[k].left \ {r}, calls[k].lists,
                   calls[k].log, calls[k].answer)
    BY <1>1, <1>2, <1>10, <2>2, <2>3, <2>4, <2>5, TypedParts, MovedTyped
       DEF WriteStatus, FigureCall, Label, Rest
  <2>6. CASE Moved(k, "failed", calls[k].left, calls[k].lists, calls[k].log, calls[k].answer)
    <3>1. UNCHANGED <<current_date, faults>>
      BY <1>10 DEF WriteStatus
    <3>2. Len(calls[k].lists) < Reads
      BY <2>2 DEF FigureCall
    <3> QED BY <1>1, <1>2, <2>2, <2>4, <2>6, <3>1, <3>2, TypedParts, MovedTyped DEF Label
  <2> QED BY <2>1, <2>5, <2>6 DEF Becomes
<1>11. CASE PlotStatus(k)
  <2>1. PICK new : new = Markers(upload_status, Len(calls[k].lists))
    OBVIOUS
  <2> DEFINE at == IF Len(calls[k].lists) = Reads - 1 THEN "done" ELSE "plot"
  <2>2. Moved(k, at, calls[k].left, Append(calls[k].lists, new), calls[k].log, calls[k].answer)
    BY <1>1, <1>11, <2>1, TypedParts, PlotStatusMoves
  <2>3. k[2] = "figure" /\ FigureCall(calls[k]) /\ calls[k].at = "plot"
    BY <1>1, <1>11, TypedParts DEF PlotStatus, At, DateCall, LogCall
  <2>4. new \in SUBSET Minute /\ calls[k].lists \in Seq(SUBSET Minute)
    BY <1>1, <2>1, TypedParts, MarkersTyped
  <2>5. /\ Append(calls[k].lists, new) \in Seq(SUBSET Minute)
        /\ Len(Append(calls[k].lists, new)) = Len(calls[k].lists) + 1
        /\ Len(calls[k].lists) \in Nat
    BY <2>4, AppendProperties, LenProperties
  <2>6. Len(calls[k].lists) < Reads
    BY <2>3 DEF FigureCall
  <2>7. /\ Len(Append(calls[k].lists, new)) <= Reads
        /\ IF at = "done" THEN Len(Append(calls[k].lists, new)) = Reads
                          ELSE Len(Append(calls[k].lists, new)) < Reads
    BY <2>5, <2>6, ReadsNat
  <2>8. at \in {"done", "plot"} /\ UNCHANGED <<current_date, upload_status, faults>>
    BY <1>11 DEF PlotStatus
  <2> HIDE DEF at
  <2> QED BY <1>1, <1>2, <2>2, <2>3, <2>5, <2>7, <2>8, TypedParts, MovedTyped DEF Label
<1>12. CASE ShowLog(k)
  <2> DEFINE latest == {r \in LatestRows(current_date) : r.minute = calls[k].arg}
  <2>1. PICK row : row = IF latest = {} THEN None ELSE CHOOSE r \in latest : TRUE
    OBVIOUS
  <2>2. row \in LogRow \cup {None}
    BY <1>3, <2>1
  <2>3. calls' = [calls EXCEPT ![k] = [@ EXCEPT !.at = "done", !.answer = row]]
    BY <1>12, <2>1 DEF ShowLog
  <2>4. Moved(k, "done", calls[k].left, calls[k].lists, calls[k].log, row)
    BY <1>1, <2>3, TypedParts, PutMoves
  <2> QED BY <1>1, <1>2, <1>12, <2>2, <2>4, TypedParts, MovedTyped DEF ShowLog, Starts
<1>13. CASE DbFails(k)
  <2>1. Moved(k, "failed", calls[k].left, calls[k].lists, calls[k].log, calls[k].answer)
    BY <1>1, <1>13, TypedParts, DbFailsMoves DEF Becomes
  <2>2. k[2] # "date"
    BY <1>1, <1>13, TypedParts DEF DbFails, At, Starts, DateCall
  <2>3. k[2] = "figure" => Len(calls[k].lists) < Reads
    BY <1>1, <1>13, TypedParts DEF DbFails, At, Starts, FigureCall
  <2>4. faults' \in 0..MaxFaults
    BY <1>1, <1>13, TypedParts, DashboardAssumption DEF DbFails
  <2> QED BY <1>1, <1>2, <1>13, <2>1, <2>2, <2>3, <2>4, TypedParts, MovedTyped
          DEF DbFails, Label
<1> QED BY <1>4, <1>5, <1>6, <1>7, <1>8, <1>9, <1>10, <1>11, <1>12, <1>13 DEF Serve

\* What the calls for figures are asked with, after a call has been sent.
Asks(cs) ==
  \A j \in Slot : cs[j] # None =>
    /\ IsCall(cs[j])
    /\ j[2] = "figure" => cs[j].arg \in Date

LEMMA SentAsks ==
  ASSUME NEW cs, Asks(cs), NEW k \in Slot, NEW arg, k[2] = "figure" => arg \in Date
  PROVE  Asks(Sent(cs, k, arg))
<1> DEFINE new == Sent(cs, k, arg)
<1>1. /\ new[k] = Call(arg)
      /\ \A j \in Slot : j # k =>
           new[j] = cs[j] \/ (cs[j] # None /\ new[j] = Superseded(cs[j]))
  BY DEF Sent, Superseded
<1> HIDE DEF new
<1>2. Asks(new)
  BY <1>1, CallIs, SupersededIs DEF Asks
<1> QED BY <1>2 DEF new

LEMMA DateSetAsks ==
  ASSUME NEW cs, Asks(cs), NEW s, NEW d \in Date, DateSet(cs, s, d)
  PROVE  Asks(calls')
<1>1. PICK f \in Slot, l \in Slot :
        /\ IF page[s].click = None THEN l = f ELSE FreeSlot(l, s, "log")
        /\ LET asked == Sent(cs, f, d)
           IN calls' = IF page[s].click = None THEN asked ELSE Sent(asked, l, page[s].click)
  BY DEF DateSet
<1>2. Asks(Sent(cs, f, d))
  BY SentAsks
<1>3. page[s].click # None => l[2] = "log"
  BY <1>1 DEF FreeSlot
<1> QED BY <1>1, <1>2, <1>3, SentAsks

LEMMA DroppedAsks ==
  ASSUME Asks(calls), NEW k \in Slot
  PROVE  Asks(Dropped(k))
BY DEF Asks, Dropped

\* The answer to a call for a date is a date.
LEMMA AnswerDate ==
  ASSUME TypedInv, NEW k \in Slot, calls[k] # None, calls[k].at = "done", k[2] = "date"
  PROVE  calls[k].answer \in Date
BY DEF TypedInv, Typed, DateCall

LEMMA OutsideAsks ==
  ASSUME TypedInv, Outside
  PROVE  Asks(calls')
<1>1. Asks(calls)
  BY DEF TypedInv, Records, Typed, FigureCall, Asks
<1>2. CASE UNCHANGED calls
  BY <1>1, <1>2
<1>3. ASSUME NEW s \in Session, Open(s) \/ Tick(s) PROVE Asks(calls')
  <2>1. PICK k \in Slot, arg \in {0, 1} : k[2] = "date" /\ calls' = Sent(calls, k, arg)
    BY <1>3 DEF Open, Tick, FreeSlot
  <2> QED BY <1>1, <2>1, SentAsks
<1>4. ASSUME NEW s \in Session, NEW d \in Date, Select(s, d) PROVE Asks(calls')
  BY <1>1, <1>4, DateSetAsks DEF Select
<1>5. ASSUME NEW s \in Session, NEW m \in Minute, Click(s, m) PROVE Asks(calls')
  <2>1. CASE UNCHANGED calls
    BY <1>1, <2>1
  <2>2. CASE ~UNCHANGED calls
    <3>1. PICK k \in Slot : k[2] = "log" /\ calls' = Sent(calls, k, m)
      BY <1>5, <2>2 DEF Click, FreeSlot
    <3> QED BY <1>1, <3>1, SentAsks
  <2> QED BY <2>1, <2>2
<1>6. ASSUME NEW k \in Slot, Accept(k) PROVE Asks(calls')
  <2>1. Asks(Dropped(k))
    BY <1>1, DroppedAsks
  <2>2. CASE k[2] = "date" /\ DateSet(Dropped(k), k[1], calls[k].answer)
    <3>1. calls[k].answer \in Date
      BY <1>6, <2>2, AnswerDate DEF Accept
    <3> QED BY <2>1, <2>2, <3>1, DateSetAsks
  <2> QED BY <1>6, <2>1, <2>2 DEF Accept
<1>7. ASSUME NEW k \in Slot, Ignore(k) PROVE Asks(calls')
  BY <1>1, <1>7, DroppedAsks DEF Ignore
<1> QED BY <1>2, <1>3, <1>4, <1>5, <1>6, <1>7 DEF Outside, Report

LEMMA OutsideCallsTyped ==
  ASSUME TypedInv, Outside
  PROVE  \A k \in Slot : Typed(k)'
<1>1. Browsed /\ Asks(calls') /\ xml_log \subseteq xml_log'
  BY OutsideStep, OutsideAsks DEF TypedInv
<1>2. ASSUME NEW k \in Slot, calls'[k] # None PROVE Typed(k)'
  <2>1. CASE calls'[k] = calls[k]
    BY <1>2, <2>1 DEF TypedInv, Typed
  <2>2. CASE Posted(k)
    <3>1. PICK arg : calls'[k] \in {Call(arg), Superseded(Call(arg))}
      BY <2>2 DEF Posted
    <3>2. /\ calls'[k].at = "sent" /\ calls'[k].log = {} /\ calls'[k].lists = <<>>
          /\ calls'[k].state \in {"current", "superseded"}
      BY <3>1, CallIs, SupersededIs DEF Call
    <3>3. k[2] = "figure" => calls'[k].arg \in Date
      BY <1>1, <1>2 DEF Asks
    <3>4. <<>> \in Seq(SUBSET Minute) /\ Len(<<>>) = 0
      OBVIOUS
    <3> QED BY <3>2, <3>3, <3>4, ReadsNat DEF Typed, DateCall, FigureCall, LogCall, Label
  <2>3. CASE calls[k] # None /\ calls'[k] = Superseded(calls[k])
    BY <2>3, SupersededIs DEF TypedInv, Records, Typed, DateCall, FigureCall, LogCall
  <2> QED BY <1>1, <1>2, <2>1, <2>2, <2>3 DEF Browsed
<1> QED BY <1>2 DEF Typed

\* The page of one session takes a value for one of its parts.
PageTakes(s, date, plot, click, message) ==
  /\ \A r \in Session : r # s => page'[r] = page[r]
  /\ page'[s].date = date /\ page'[s].plot = plot
  /\ page'[s].click = click /\ page'[s].message = message

LEMMA PagePuts ==
  ASSUME Records, NEW s \in Session, NEW x
  PROVE  /\ page' = [page EXCEPT ![s].date = x]
              => PageTakes(s, x, page[s].plot, page[s].click, page[s].message)
         /\ page' = [page EXCEPT ![s].plot = x]
              => PageTakes(s, page[s].date, x, page[s].click, page[s].message)
         /\ page' = [page EXCEPT ![s].click = x]
              => PageTakes(s, page[s].date, page[s].plot, x, page[s].message)
         /\ page' = [page EXCEPT ![s].message = x]
              => PageTakes(s, page[s].date, page[s].plot, page[s].click, x)
<1>1. PICK date, plot, click, message :
        page[s] = [date |-> date, plot |-> plot, click |-> click, message |-> message]
  BY DEF Records, IsPage
<1>2. page[s].date = date /\ page[s].plot = plot /\ page[s].click = click
      /\ page[s].message = message
  BY <1>1
<1>3. page = [r \in Session |-> page[r]]
  BY DEF Records
<1>4. ASSUME page' = [page EXCEPT ![s].date = x]
      PROVE  PageTakes(s, x, page[s].plot, page[s].click, page[s].message)
  <2>1. page'[s] = [date |-> x, plot |-> plot, click |-> click, message |-> message]
    BY <1>1, <1>3, <1>4
  <2>2. \A r \in Session : r # s => page'[r] = page[r]
    BY <1>3, <1>4
  <2> QED BY <1>2, <2>1, <2>2 DEF PageTakes
<1>5. ASSUME page' = [page EXCEPT ![s].plot = x]
      PROVE  PageTakes(s, page[s].date, x, page[s].click, page[s].message)
  <2>1. page'[s] = [date |-> date, plot |-> x, click |-> click, message |-> message]
    BY <1>1, <1>3, <1>5
  <2>2. \A r \in Session : r # s => page'[r] = page[r]
    BY <1>3, <1>5
  <2> QED BY <1>2, <2>1, <2>2 DEF PageTakes
<1>6. ASSUME page' = [page EXCEPT ![s].click = x]
      PROVE  PageTakes(s, page[s].date, page[s].plot, x, page[s].message)
  <2>1. page'[s] = [date |-> date, plot |-> plot, click |-> x, message |-> message]
    BY <1>1, <1>3, <1>6
  <2>2. \A r \in Session : r # s => page'[r] = page[r]
    BY <1>3, <1>6
  <2> QED BY <1>2, <2>1, <2>2 DEF PageTakes
<1>7. ASSUME page' = [page EXCEPT ![s].message = x]
      PROVE  PageTakes(s, page[s].date, page[s].plot, page[s].click, x)
  <2>1. page'[s] = [date |-> date, plot |-> plot, click |-> click, message |-> x]
    BY <1>1, <1>3, <1>7
  <2>2. \A r \in Session : r # s => page'[r] = page[r]
    BY <1>3, <1>7
  <2> QED BY <1>2, <2>1, <2>2 DEF PageTakes
<1> QED BY <1>4, <1>5, <1>6, <1>7

LEMMA PageTakesOK ==
  ASSUME \A r \in Session : PageOK(page[r]), NEW s \in Session, NEW date, NEW plot,
         NEW click, NEW message, PageTakes(s, date, plot, click, message),
         date \in Date, DOMAIN plot.lists = 1..Reads,
         \A n \in 1..Reads : plot.lists[n] \subseteq Minute,
         plot.of \in Date \cup {None}, plot.log \subseteq LogRow,
         click \in Minute \cup {None}, message \in LogRow \cup {None}
  PROVE  \A r \in Session : PageOK(page'[r])
<1>1. PageOK(page'[s])
  BY DEF PageTakes, PageOK
<1> QED BY <1>1 DEF PageTakes

LEMMA OutsidePagesTyped ==
  ASSUME TypedInv, Outside
  PROVE  \A s \in Session : PageOK(page'[s])
<1>1. /\ Records /\ \A s \in Session : PageOK(page[s])
      /\ \A k \in Slot : Typed(k)
  BY DEF TypedInv, TypeOK
<1>2. CASE UNCHANGED page
  BY <1>1, <1>2
<1>3. ASSUME NEW s \in Session, NEW d \in Date, Select(s, d)
      PROVE  \A r \in Session : PageOK(page'[r])
  <2>1. PageTakes(s, d, page[s].plot, page[s].click, page[s].message)
    BY <1>1, <1>3, PagePuts DEF Select
  <2>2. PageOK(page[s])
    BY <1>1
  <2> QED BY <1>1, <2>1, <2>2, PageTakesOK DEF PageOK
<1>4. ASSUME NEW s \in Session, NEW m \in Minute, Click(s, m)
      PROVE  \A r \in Session : PageOK(page'[r])
  <2>1. PageTakes(s, page[s].date, page[s].plot, m, page[s].message)
    BY <1>1, <1>4, PagePuts DEF Click
  <2>2. PageOK(page[s])
    BY <1>1
  <2> QED BY <1>1, <2>1, <2>2, PageTakesOK DEF PageOK
<1>5. ASSUME NEW k \in Slot, Accept(k)
      PROVE  \A r \in Session : PageOK(page'[r])
  <2> PICK s \in Session : s = k[1]
    BY DEF Slot
  <2>1. Typed(k) /\ calls[k] # None /\ calls[k].at = "done" /\ PageOK(page[s])
    BY <1>1, <1>5 DEF Accept
  <2>2. CASE k[2] = "date" /\ page' = [page EXCEPT ![s].date = calls[k].answer]
    <3>1. PageTakes(s, calls[k].answer, page[s].plot, page[s].click, page[s].message)
      BY <1>1, <2>2, PagePuts
    <3>2. calls[k].answer \in Date
      BY <2>1, <2>2, AnswerDate
    <3> QED BY <1>1, <2>1, <3>1, <3>2, PageTakesOK DEF PageOK
  <2>3. CASE /\ k[2] = "figure"
             /\ page' = [page EXCEPT
                  ![s].plot = Plot(calls[k].lists, calls[k].arg, calls[k].log)]
    <3>1. PICK plot : plot = Plot(calls[k].lists, calls[k].arg, calls[k].log)
      OBVIOUS
    <3>2. PageTakes(s, page[s].date, plot, page[s].click, page[s].message)
      BY <1>1, <2>3, <3>1, PagePuts
    <3>3. plot.lists = calls[k].lists /\ plot.of = calls[k].arg /\ plot.log = calls[k].log
      BY <3>1 DEF Plot
    <3>4. /\ calls[k].lists \in Seq(SUBSET Minute) /\ Len(calls[k].lists) = Reads
          /\ calls[k].arg \in Date /\ calls[k].log \subseteq LogRow
      BY <2>1, <2>3 DEF Typed, FigureCall
    <3>5. DOMAIN plot.lists = 1..Reads /\ \A n \in 1..Reads : plot.lists[n] \subseteq Minute
      BY <3>3, <3>4
    <3> QED BY <1>1, <2>1, <3>2, <3>3, <3>4, <3>5, PageTakesOK DEF PageOK
  <2>4. CASE k[2] = "log" /\ page' = [page EXCEPT ![s].message = calls[k].answer]
    <3>1. PageTakes(s, page[s].date, page[s].plot, page[s].click, calls[k].answer)
      BY <1>1, <2>4, PagePuts
    <3>2. calls[k].answer \in LogRow \cup {None}
      BY <2>1, <2>4 DEF Typed, LogCall
    <3> QED BY <1>1, <2>1, <3>1, <3>2, PageTakesOK DEF PageOK
  <2> QED BY <1>5, <2>2, <2>3, <2>4 DEF Accept
<1> QED BY <1>2, <1>3, <1>4, <1>5 DEF Outside, Report, Open, Tick, Ignore

\* What the browser and the Lambda do to the rest.
LEMMA OutsideRest ==
  ASSUME TypedInv, Outside
  PROVE  /\ xml_log' \subseteq LogRow
         /\ opened' \subseteq Session
         /\ inputs' \in [Session -> 0..MaxInputs]
         /\ faults' = faults
<1>1. /\ xml_log \subseteq LogRow /\ opened \subseteq Session
      /\ inputs \in [Session -> 0..MaxInputs] /\ MaxInputs \in Nat
  BY DashboardAssumption DEF TypedInv, TypeOK
<1>2. ASSUME NEW time \in 1..MaxRows, NEW date \in Date, NEW minute \in Minute,
             NEW status \in Reported, Report(time, date, minute, status)
      PROVE  xml_log' \subseteq LogRow /\ UNCHANGED <<opened, inputs, faults>>
  <2>1. [time |-> time, date |-> date, minute |-> minute, status |-> status] \in LogRow
    BY DEF LogRow, Reported
  <2> QED BY <1>1, <1>2, <2>1 DEF Report
<1>3. ASSUME NEW s \in Session, inputs[s] < MaxInputs,
             inputs' = [inputs EXCEPT ![s] = @ + 1]
      PROVE  inputs' \in [Session -> 0..MaxInputs]
  BY <1>1, <1>3
<1>4. ASSUME NEW s \in Session, \/ Open(s) \/ Tick(s)
                                \/ \E d \in Date : Select(s, d)
                                \/ \E m \in Minute : Click(s, m)
      PROVE  /\ opened' \subseteq Session /\ inputs' \in [Session -> 0..MaxInputs]
             /\ UNCHANGED <<xml_log, faults>>
  BY <1>1, <1>3, <1>4 DEF Open, Tick, Select, Click
<1>5. ASSUME NEW k \in Slot, Accept(k) \/ Ignore(k)
      PROVE  UNCHANGED <<xml_log, opened, inputs, faults>>
  BY <1>5 DEF Accept, Ignore
<1> QED BY <1>1, <1>2, <1>4, <1>5 DEF Outside

LEMMA TypedStep == TypedInv /\ [Next]_vars => TypedInv'
<1> SUFFICES ASSUME TypedInv, [Next]_vars PROVE TypedInv'
  OBVIOUS
<1>1. CASE UNCHANGED vars
  BY <1>1 DEF vars, TypedInv, Records, OneCurrent, TypeOK, Typed
<1>2. CASE Outside
  <2>1. /\ Browsed /\ OneCurrent(calls)' /\ Asks(calls')
        /\ page' = [s \in Session |-> page'[s]]
        /\ \A s \in Session : IsPage(page'[s])
        /\ UNCHANGED <<current_date, upload_status>>
    BY <1>2, OutsideStep, OutsideAsks DEF TypedInv
  <2>2. Records'
    BY <2>1 DEF Records, Browsed, Asks
  <2>3. \A k \in Slot : Typed(k)'
    BY <1>2, OutsideCallsTyped
  <2>4. \A k \in Slot : calls'[k] # None => CallOK(calls'[k])
    <3>1. ASSUME NEW k \in Slot, calls'[k] # None PROVE CallOK(calls'[k])
      <4>1. Typed(k)' /\ k[2] \in Output
        BY <2>3 DEF Slot
      <4>2. calls'[k].at \in Label
        BY <3>1, <4>1 DEF Output, Typed, DateCall, FigureCall, LogCall, Label
      <4>3. \A n \in DOMAIN calls'[k].lists : n <= Reads /\ calls'[k].lists[n] \subseteq Minute
        BY <3>1, <4>1, ReadsNat DEF Typed
      <4> QED BY <3>1, <4>1, <4>2, <4>3 DEF Typed, CallOK
    <3> QED BY <3>1
  <2>5. TypeOK'
    BY <1>2, <2>1, <2>4, OutsidePagesTyped, OutsideRest, ThreadsStay DEF TypedInv, TypeOK
  <2> QED BY <2>1, <2>2, <2>3, <2>5 DEF TypedInv
<1> QED BY <1>1, <1>2, ServedTyped, NextCases

\* TypeOK holds of every instance, with any number of sessions and threads: the
\* list that the threads write to at once always holds entries of the day, and
\* what arrives in a page is complete.
THEOREM DashboardTypes == Spec => []TypeOK
<1>1. TypedInv => TypeOK
  BY DEF TypedInv
<1> QED BY <1>1, TypedInit, TypedStep, PTL DEF Spec

-----------------------------------------------------------------------------
(***************************************************************************)
(* When the server executes one callback at a time, every figure shows the *)
(* statuses of the date that it was requested for.  A call for a figure    *)
(* then has the globals to itself from its first step to its last, and     *)
(* each of its steps leaves upload_status in the state that Stage says.    *)
(***************************************************************************)

(***************************************************************************)
(* The rows and their statuses.                                            *)
(***************************************************************************)

\* A table of the log: no two rows have the same time.
Rows(rows) ==
  /\ rows \subseteq LogRow
  /\ \A q, r \in rows : q.time = r.time => q = r

Latest(rows, date) ==
  {r \in rows : r.date = date /\ \A q \in rows : SameFile(q, r) => q.time <= r.time}

LEMMA LatestOne ==
  ASSUME NEW rows, Rows(rows), NEW date, NEW q \in Latest(rows, date),
         NEW r \in Latest(rows, date), q.minute = r.minute
  PROVE  q = r
<1>1. q.time \in Int /\ r.time \in Int
  BY DashboardAssumption DEF Latest, Rows, LogRow
<1>2. q.time <= r.time /\ r.time <= q.time
  BY DEF Latest, SameFile
<1>3. q.time = r.time
  BY <1>1, <1>2
<1> QED BY <1>3 DEF Latest, Rows

\* The statuses that the loop over the rows writes are those of the figure.
LEMMA LatestStatus ==
  ASSUME NEW rows, Rows(rows), NEW date, NEW r \in Latest(rows, date)
  PROVE  StatusIn(rows, date, r.minute) = r.status
<1> DEFINE file == {p \in rows : p.date = date /\ p.minute = r.minute}
           latest == {p \in file : \A q \in file : q.time <= p.time}
<1>1. r \in latest
  BY DEF Latest, SameFile
<1>2. \A p \in latest : p \in Latest(rows, date) /\ p.minute = r.minute
  BY DEF Latest, SameFile
<1>3. \A p \in latest : p = r
  BY <1>2, LatestOne
<1>4. latest # {} /\ (CHOOSE p \in latest : TRUE) = r
  BY <1>1, <1>3
<1> QED BY <1>4 DEF StatusIn

LEMMA NoLatestStatus ==
  ASSUME NEW rows, NEW date, NEW m, \A r \in Latest(rows, date) : r.minute # m
  PROVE  StatusIn(rows, date, m) = -1
<1> DEFINE file == {p \in rows : p.date = date /\ p.minute = m}
           latest == {p \in file : \A q \in file : q.time <= p.time}
<1>1. \A p \in latest : p \in Latest(rows, date) /\ p.minute = m
  BY DEF Latest, SameFile
<1>2. latest = {}
  BY <1>1
<1> QED BY <1>2 DEF StatusIn

(***************************************************************************)
(* The list upload_status.                                                 *)
(***************************************************************************)

\* The list has an entry for each minute of the day, with the status in st.
Listed(list, st) ==
  /\ DOMAIN list = Minute
  /\ \A m \in Minute : list[m].minute = m /\ list[m].status = st[m]

Shown(rows, date) == [m \in Minute |-> StatusIn(rows, date, m)]

\* The statuses before the rows of `left' are written.
Before(rows, date, left) ==
  [m \in Minute |-> IF \E r \in left : r.minute = m THEN -1 ELSE StatusIn(rows, date, m)]

LEMMA MarkersShown ==
  ASSUME NEW list, NEW rows, NEW date, Listed(list, Shown(rows, date)),
         NEW n \in 0..(Reads - 1)
  PROVE  Markers(list, n) = Figure(rows, date)[n + 1]
<1>1. Markers(list, n) = {m \in Minute : StatusIn(rows, date, m) = StatusOf(n)}
  BY DEF Markers, Listed, Shown
<1>2. Reads \in Nat
  BY DashboardAssumption DEF Reads
<1>3. n + 1 \in 1..Reads /\ (n + 1) - 1 = n
  BY <1>2
<1> QED BY <1>1, <1>3 DEF Figure

LEMMA BeforeAll ==
  ASSUME NEW rows, NEW date
  PROVE  /\ Before(rows, date, Latest(rows, date)) = [m \in Minute |-> -1]
         /\ Before(rows, date, {}) = Shown(rows, date)
<1>1. ASSUME NEW m \in Minute, ~ \E r \in Latest(rows, date) : r.minute = m
      PROVE  StatusIn(rows, date, m) = -1
  BY <1>1, NoLatestStatus
<1> QED BY <1>1 DEF Before, Shown

\* One turn of the loop over the rows.
LEMMA BeforeOne ==
  ASSUME NEW rows, Rows(rows), NEW date, NEW left, left \subseteq Latest(rows, date),
         NEW r \in left, NEW list, Listed(list, Before(rows, date, left))
  PROVE  /\ r.minute \in DOMAIN list
         /\ Listed([list EXCEPT ![r.minute] = [minute |-> r.minute, status |-> r.status]],
                   Before(rows, date, left \ {r}))
<1> DEFINE new == [list EXCEPT ![r.minute] = [minute |-> r.minute, status |-> r.status]]
           st == Before(rows, date, left \ {r})
<1>1. r.minute \in Minute
  BY DEF Latest, Rows, LogRow
<1>2. StatusIn(rows, date, r.minute) = r.status
  BY LatestStatus
<1>3. \A q \in left \ {r} : q.minute # r.minute
  BY LatestOne
<1>4. st[r.minute] = r.status
  BY <1>1, <1>2, <1>3 DEF Before
<1>5. ASSUME NEW m \in Minute, m # r.minute
      PROVE  st[m] = Before(rows, date, left)[m]
  BY <1>5 DEF Before
<1>6. DOMAIN new = Minute
  BY DEF Listed
<1>7. ASSUME NEW m \in Minute
      PROVE  new[m].minute = m /\ new[m].status = st[m]
  <2>1. CASE m = r.minute
    BY <1>1, <1>4, <2>1 DEF Listed
  <2>2. CASE m # r.minute
    <3>1. new[m] = list[m]
      BY <2>2 DEF Listed
    <3> QED BY <1>5, <2>2, <3>1 DEF Listed
  <2> QED BY <2>1, <2>2
<1> HIDE DEF new, st
<1>8. Listed(new, st)
  BY <1>6, <1>7 DEF Listed
<1> QED BY <1>1, <1>8 DEF Listed, new, st

\* The list after the loop over the minutes has appended n of them.
Filled(list, n) ==
  /\ list \in Seq([minute: Minute, status: {-1}]) /\ Len(list) = n
  /\ \A i \in 1..n : list[i] = [minute |-> i, status |-> -1]

LEMMA FilledOne ==
  ASSUME NEW n \in 0..(Minutes - 1), NEW list, Filled(list, n),
         NEW m \in (n + 1)..Minutes, \A i \in (n + 1)..Minutes : m <= i
  PROVE  /\ m = n + 1
         /\ Filled(Append(list, [minute |-> m, status |-> -1]), n + 1)
         /\ ((n + 1)..Minutes) \ {m} = (n + 2)..Minutes
         /\ (n + 1)..Minutes = {m} <=> n + 1 = Minutes
<1>1. Minutes \in Nat \ {0} /\ n \in Nat
  BY DashboardAssumption
<1>2. m = n + 1
  BY <1>1
<1>3. [minute |-> m, status |-> -1] \in [minute: Minute, status: {-1}]
  BY <1>1 DEF Minute
<1>4. Filled(Append(list, [minute |-> m, status |-> -1]), n + 1)
  <2> DEFINE entry == [minute |-> m, status |-> -1]
             S == [minute: Minute, status: {-1}]
  <2>1. entry \in S
    BY <1>3
  <2>2. list \in Seq(S) /\ Len(list) = n /\ \A i \in 1..n : list[i] = [minute |-> i, status |-> -1]
    BY DEF Filled
  <2>3. entry = [minute |-> n + 1, status |-> -1]
    BY <1>2
  <2> HIDE DEF entry, S
  <2>4. /\ Append(list, entry) \in Seq(S)
        /\ Len(Append(list, entry)) = n + 1
        /\ \A i \in 1..n : Append(list, entry)[i] = list[i]
        /\ Append(list, entry)[n + 1] = entry
    BY <2>1, <2>2, AppendProperties
  <2>5. \A i \in 1..(n + 1) : Append(list, entry)[i] = [minute |-> i, status |-> -1]
    BY <1>1, <2>2, <2>3, <2>4
  <2> QED BY <2>4, <2>5 DEF Filled, entry, S
<1> QED BY <1>1, <1>2, <1>4

LEMMA FilledAll ==
  ASSUME NEW list, Filled(list, Minutes)
  PROVE  Listed(list, [m \in Minute |-> -1])
<1>1. DOMAIN list = 1..Minutes
  BY LenProperties DEF Filled
<1> QED BY <1>1 DEF Filled, Listed, Minute

(***************************************************************************)
(* The lists of coordinates.                                               *)
(***************************************************************************)
Drawn(lists, rows, date) ==
  /\ lists \in Seq(SUBSET Minute) /\ Len(lists) < Reads
  /\ \A n \in 1..Len(lists) : lists[n] = Figure(rows, date)[n]

LEMMA DrawnNone ==
  ASSUME NEW rows, NEW date
  PROVE  Drawn(<<>>, rows, date)
<1>1. Len(Statuses) \in Nat /\ Len(Statuses) # 0
  <2>1. DOMAIN Statuses = 1..Len(Statuses) /\ Len(Statuses) \in Nat
    BY DashboardAssumption, LenProperties
  <2>2. PICK n \in DOMAIN Statuses : Statuses[n] = -1
    BY DashboardAssumption DEF Range
  <2> QED BY <2>1, <2>2
<1>2. Reads > 0
  BY <1>1 DEF Reads
<1>3. <<>> \in Seq(SUBSET Minute) /\ Len(<<>>) = 0
  BY EmptySeq
<1> QED BY <1>2, <1>3 DEF Drawn

LEMMA DrawnOne ==
  ASSUME NEW list, NEW rows, NEW date, Listed(list, Shown(rows, date)),
         NEW lists, Drawn(lists, rows, date)
  PROVE  LET new == Append(lists, Markers(list, Len(lists)))
         IN IF Len(lists) = Reads - 1 THEN new = Figure(rows, date)
                                      ELSE Drawn(new, rows, date)
<1> DEFINE markers == Markers(list, Len(lists))
           new == Append(lists, markers)
<1>1. Len(Statuses) \in Nat /\ Reads \in Nat
  BY DashboardAssumption, LenProperties DEF Reads
<1>2. Len(lists) \in 0..(Reads - 1)
  BY <1>1, LenProperties DEF Drawn
<1>3. markers = Figure(rows, date)[Len(lists) + 1]
  BY <1>2, MarkersShown
<1>4. markers \in SUBSET Minute
  BY <1>1, <1>2, <1>3 DEF Figure
<1> HIDE DEF markers
<1>5. /\ new \in Seq(SUBSET Minute)
      /\ Len(new) = Len(lists) + 1
      /\ \A n \in 1..Len(lists) : new[n] = lists[n]
      /\ new[Len(lists) + 1] = markers
  BY <1>4, AppendProperties DEF Drawn
<1>6. new \in [1..Len(new) -> SUBSET Minute]
  BY <1>5, LenProperties
<1> HIDE DEF new
<1>7. \A n \in 1..Len(new) : new[n] = Figure(rows, date)[n]
  BY <1>2, <1>3, <1>5 DEF Drawn
<1>8. CASE Len(lists) = Reads - 1
  <2>1. Len(new) = Reads
    BY <1>1, <1>5, <1>8
  <2>2. Figure(rows, date) = [n \in 1..Reads |-> Figure(rows, date)[n]]
    BY DEF Figure
  <2>3. new = Figure(rows, date)
    BY <1>6, <1>7, <2>1, <2>2
  <2> QED BY <1>8, <2>3 DEF new, markers
<1>9. CASE Len(lists) # Reads - 1
  <2>1. Len(new) < Reads
    BY <1>1, <1>2, <1>5, <1>9
  <2>2. Drawn(new, rows, date)
    BY <1>5, <1>7, <2>1 DEF Drawn
  <2> QED BY <1>9, <2>2 DEF new, markers
<1> QED BY <1>8, <1>9

-----------------------------------------------------------------------------
(***************************************************************************)
(* The stages of a call for a figure.                                      *)
(***************************************************************************)
Idle == {"sent", "done", "failed"}

\* What holds of the globals, and of what the call has read, at each label.
Stage(at, arg, left, lists, log) ==
  /\ Rows(log)
  /\ \/ at \in {"sent", "reset", "fill", "query", "write"} /\ lists = <<>>
     \/ at \in {"plot", "done", "failed"}
  /\ at \in {"reset", "fill", "query"} => current_date = arg
  /\ at = "fill" => \E n \in 0..(Minutes - 1) :
                      left = (n + 1)..Minutes /\ Filled(upload_status, n)
  /\ at = "query" => Listed(upload_status, [m \in Minute |-> -1])
  /\ at = "write" => left \subseteq Latest(log, arg)
                     /\ Listed(upload_status, Before(log, arg, left))
  /\ at = "plot" => Listed(upload_status, Shown(log, arg)) /\ Drawn(lists, log, arg)
  /\ at = "done" => lists = Figure(log, arg)

StageOf(k) ==
  IF k[2] = "figure"
    THEN Stage(calls[k].at, calls[k].arg, calls[k].left, calls[k].lists, calls[k].log)
    ELSE calls[k].at \in {"sent", "date.return", "done", "failed"}

\* The server executes the call k.
Busy(k) == calls[k] # None /\ calls[k].at \notin Idle

SerialInv ==
  /\ Records /\ OneCurrent(calls)
  /\ Rows(xml_log)
  /\ \A j, k \in Slot : Busy(j) /\ Busy(k) => j = k
  /\ \A k \in Slot : calls[k] # None => StageOf(k)
  /\ ShownAsLogged

\* The other calls are not executed.
Alone(k) == \A j \in Slot : j # k => ~Busy(j)

LEMMA SlotFinite == IsFiniteSet(Slot)
<1> DEFINE S == Session \X (Output \X (1..MaxCalls))
           f == [x \in S |-> <<x[1], x[2][1], x[2][2]>>]
<1>1. IsFiniteSet(Output)
  <2>1. IsFiniteSet({"date"}) /\ IsFiniteSet({"date"} \cup {"figure"})
    <3>1. IsFiniteSet({} \cup {"date"})
      BY FS_EmptySet, FS_AddElement
    <3> QED BY <3>1, FS_AddElement
  <2>2. IsFiniteSet(({"date"} \cup {"figure"}) \cup {"log"})
    BY <2>1, FS_AddElement
  <2>3. Output = ({"date"} \cup {"figure"}) \cup {"log"}
    BY DEF Output
  <2> QED BY <2>2, <2>3
<1>2. IsFiniteSet(1..MaxCalls)
  BY DashboardAssumption, FS_Interval
<1>3. IsFiniteSet(S)
  BY <1>1, <1>2, DashboardAssumption, FS_Product
<1>4. f \in Surjection(S, Slot)
  <2>1. f \in [S -> Slot]
    BY DEF Slot
  <2>2. ASSUME NEW k \in Slot
        PROVE  \E x \in S : f[x] = k
    <3>1. PICK s \in Session, o \in Output, n \in 1..MaxCalls : k = <<s, o, n>>
      BY DEF Slot
    <3>2. <<s, <<o, n>>>> \in S /\ f[<<s, <<o, n>>>>] = k
      BY <3>1
    <3> QED BY <3>2
  <2> QED BY <2>1, <2>2 DEF Surjection
<1> QED BY <1>3, <1>4, FS_Surjection

LEMMA StartsAlone ==
  ASSUME threads = 1, NEW k \in Slot, NEW output, Starts(k, output)
  PROVE  Alone(k)
<1>1. IsFiniteSet(Running)
  BY SlotFinite, FS_Subset DEF Running
<1>2. Cardinality(Running) = 0
  BY <1>1, FS_CardinalityType DEF Starts
<1>3. Running = {}
  BY <1>1, <1>2, FS_EmptySet
<1> QED BY <1>3 DEF Alone, Busy, Running, Idle

LEMMA AtAlone ==
  ASSUME SerialInv, NEW k \in Slot, NEW label, label \notin Idle, At(k, label)
  PROVE  Alone(k)
BY DEF SerialInv, Alone, Busy, At

\* A step of the server preserves the invariant if the call that moves on is the
\* one that is executed, and reaches its next stage.
LEMMA MovedSerial ==
  ASSUME SerialInv, NEW k \in Slot, Alone(k), UNCHANGED <<xml_log, page>>,
         NEW at, NEW left, NEW lists, NEW log, NEW answer,
         Moved(k, at, left, lists, log, answer), StageOf(k)'
  PROVE  SerialInv'
<1>1. calls[k] # None
  BY DEF Moved
<1>2. /\ calls' = [j \in Slot |-> calls'[j]]
      /\ \A j \in Slot : j # k => calls'[j] = calls[j]
      /\ IsCall(calls'[k])
      /\ calls'[k].state = calls[k].state
  BY MovedIs DEF SerialInv
<1>3. Records'
  BY <1>2 DEF SerialInv, Records
<1>4. OneCurrent(calls)'
  BY <1>1, <1>2 DEF SerialInv, OneCurrent
<1>5. \A j \in Slot : Busy(j)' => j = k
  BY <1>2 DEF Alone, Busy
<1>6. ASSUME NEW j \in Slot, j # k, calls'[j] # None
      PROVE  StageOf(j)'
  <2>1. calls'[j] = calls[j] /\ calls[j].at \in Idle /\ StageOf(j)
    BY <1>2, <1>6 DEF SerialInv, Alone, Busy
  <2> QED BY <2>1 DEF StageOf, Stage, Idle
<1>7. ShownAsLogged'
  BY DEF SerialInv, ShownAsLogged
<1> QED BY <1>3, <1>4, <1>5, <1>6, <1>7 DEF SerialInv

(***************************************************************************)
(* Each step of the server.                                                *)
(***************************************************************************)
LEMMA InStage ==
  ASSUME SerialInv, NEW k \in Slot, NEW label, At(k, label),
         label \in {"reset", "fill", "query", "write", "plot"}
  PROVE  /\ k[2] = "figure"
         /\ Stage(label, calls[k].arg, calls[k].left, calls[k].lists, calls[k].log)
BY DEF SerialInv, At, StageOf

LEMMA SerialDate ==
  ASSUME SerialInv, threads = 1, NEW k \in Slot, SetToday(k) \/ ReturnDate(k)
  PROVE  SerialInv'
<1>1. UNCHANGED <<xml_log, page>>
  BY DEF SetToday, ReturnDate, InServer
<1>2. CASE SetToday(k)
  <2>1. Moved(k, "date.return", calls[k].left, calls[k].lists, calls[k].log, calls[k].answer)
    BY <1>2, SetTodayMoves DEF Becomes, SerialInv
  <2>2. StageOf(k)'
    <3>1. k[2] # "figure"
      BY <1>2 DEF SetToday, Starts
    <3>2. calls'[k].at = "date.return"
      BY <2>1, MovedIs DEF SerialInv
    <3> QED BY <3>1, <3>2 DEF StageOf
  <2>3. Alone(k)
    BY <1>2, StartsAlone DEF SetToday
  <2> QED BY <1>1, <2>1, <2>2, <2>3, MovedSerial
<1>3. CASE ReturnDate(k)
  <2>1. Moved(k, "done", calls[k].left, calls[k].lists, calls[k].log, current_date)
    BY <1>3, ReturnDateMoves DEF SerialInv
  <2>2. StageOf(k)'
    <3>1. k[2] # "figure"
      BY <1>3 DEF ReturnDate, At, SerialInv, StageOf, Stage
    <3>2. calls'[k].at = "done"
      BY <2>1, MovedIs DEF SerialInv
    <3> QED BY <3>1, <3>2 DEF StageOf
  <2>3. Alone(k)
    BY <1>3, AtAlone DEF ReturnDate, Idle
  <2> QED BY <1>1, <2>1, <2>2, <2>3, MovedSerial
<1> QED BY <1>2, <1>3

LEMMA SerialLog ==
  ASSUME SerialInv, threads = 1, NEW k \in Slot, ShowLog(k)
  PROVE  SerialInv'
<1>1. PICK answer :
        Moved(k, "done", calls[k].left, calls[k].lists, calls[k].log, answer)
  BY ShowLogMoves DEF SerialInv
<1>2. StageOf(k)'
  <2>1. k[2] # "figure"
    BY DEF ShowLog, Starts
  <2>2. calls'[k].at = "done"
    BY <1>1, MovedIs DEF SerialInv
  <2> QED BY <2>1, <2>2 DEF StageOf
<1>3. Alone(k)
  BY StartsAlone DEF ShowLog
<1>4. UNCHANGED <<xml_log, page>>
  BY DEF ShowLog, InServer
<1> QED BY <1>1, <1>2, <1>3, <1>4, MovedSerial

LEMMA SerialFails ==
  ASSUME SerialInv, threads = 1, NEW k \in Slot, DbFails(k)
  PROVE  SerialInv'
<1>1. Moved(k, "failed", calls[k].left, calls[k].lists, calls[k].log, calls[k].answer)
  BY DbFailsMoves DEF SerialInv, Becomes
<1>2. StageOf(k)'
  <2>1. /\ calls'[k].at = "failed"
        /\ calls'[k].log = calls[k].log
    BY <1>1, MovedIs DEF SerialInv
  <2>2. k[2] = "figure" => Rows(calls[k].log)
    BY <1>1 DEF SerialInv, Moved, StageOf, Stage
  <2> QED BY <2>1, <2>2 DEF StageOf, Stage
<1>3. Alone(k)
  BY StartsAlone, AtAlone DEF DbFails, Idle
<1>4. UNCHANGED <<xml_log, page>>
  BY DEF DbFails, InServer
<1> QED BY <1>1, <1>2, <1>3, <1>4, MovedSerial

LEMMA SerialSetDate ==
  ASSUME SerialInv, threads = 1, NEW k \in Slot, SetDate(k)
  PROVE  SerialInv'
<1>1. Moved(k, "reset", calls[k].left, calls[k].lists, calls[k].log, calls[k].answer)
  BY SetDateMoves DEF SerialInv, Becomes
<1>2. StageOf(k)'
  <2>1. /\ calls'[k].at = "reset" /\ calls'[k].arg = calls[k].arg
        /\ calls'[k].lists = calls[k].lists /\ calls'[k].log = calls[k].log
    BY <1>1, MovedIs DEF SerialInv
  <2>2. calls[k] # None /\ k[2] = "figure" /\ calls[k].at = "sent"
        /\ current_date' = calls[k].arg
    BY DEF SetDate, Starts
  <2>3. Rows(calls[k].log) /\ calls[k].lists = <<>>
    BY <2>2 DEF SerialInv, StageOf, Stage
  <2> QED BY <2>1, <2>2, <2>3 DEF StageOf, Stage
<1>3. Alone(k)
  BY StartsAlone DEF SetDate
<1>4. UNCHANGED <<xml_log, page>>
  BY DEF SetDate, InServer
<1> QED BY <1>1, <1>2, <1>3, <1>4, MovedSerial

LEMMA SerialReset ==
  ASSUME SerialInv, NEW k \in Slot, ResetStatus(k)
  PROVE  SerialInv'
<1>1. Moved(k, "fill", Minute, calls[k].lists, calls[k].log, calls[k].answer)
  BY ResetStatusMoves DEF SerialInv
<1>2. StageOf(k)'
  <2>1. /\ calls'[k].at = "fill" /\ calls'[k].arg = calls[k].arg
        /\ calls'[k].left = Minute
        /\ calls'[k].lists = calls[k].lists /\ calls'[k].log = calls[k].log
    BY <1>1, MovedIs DEF SerialInv
  <2>2. Stage("reset", calls[k].arg, calls[k].left, calls[k].lists, calls[k].log)
        /\ k[2] = "figure"
    BY InStage DEF ResetStatus
  <2>3. upload_status' = <<>> /\ current_date' = current_date
    BY DEF ResetStatus
  <2>4. Filled(<<>>, 0)
    BY EmptySeq DEF Filled
  <2>5. 0 \in 0..(Minutes - 1) /\ Minute = (0 + 1)..Minutes
    BY DashboardAssumption DEF Minute
  <2>6. \E n \in 0..(Minutes - 1) :
          calls'[k].left = (n + 1)..Minutes /\ Filled(upload_status', n)
    BY <2>1, <2>3, <2>4, <2>5
  <2> QED BY <2>1, <2>2, <2>3, <2>6 DEF StageOf, Stage
<1>3. Alone(k)
  BY AtAlone DEF ResetStatus, Idle
<1>4. UNCHANGED <<xml_log, page>>
  BY DEF ResetStatus, InServer
<1> QED BY <1>1, <1>2, <1>3, <1>4, MovedSerial

LEMMA SerialFill ==
  ASSUME SerialInv, NEW k \in Slot, FillStatus(k)
  PROVE  SerialInv'
<1>1. PICK m \in calls[k].left :
        /\ \A n \in calls[k].left : m <= n
        /\ upload_status' = Append(upload_status, [minute |-> m, status |-> -1])
        /\ Moved(k, IF calls[k].left = {m} THEN "query" ELSE "fill",
                 calls[k].left \ {m}, calls[k].lists, calls[k].log, calls[k].answer)
  BY FillStatusMoves DEF SerialInv
<1>2. StageOf(k)'
  <2>1. /\ calls'[k].at = IF calls[k].left = {m} THEN "query" ELSE "fill"
        /\ calls'[k].arg = calls[k].arg
        /\ calls'[k].left = calls[k].left \ {m}
        /\ calls'[k].lists = calls[k].lists /\ calls'[k].log = calls[k].log
    BY <1>1, MovedIs DEF SerialInv
  <2>2. /\ Stage("fill", calls[k].arg, calls[k].left, calls[k].lists, calls[k].log)
        /\ k[2] = "figure"
    BY InStage DEF FillStatus
  <2>3. current_date' = current_date
    BY DEF FillStatus
  <2>4. PICK n \in 0..(Minutes - 1) :
          calls[k].left = (n + 1)..Minutes /\ Filled(upload_status, n)
    BY <2>2 DEF Stage
  <2>5. /\ Filled(upload_status', n + 1)
        /\ calls'[k].left = (n + 2)..Minutes
        /\ calls[k].left = {m} <=> n + 1 = Minutes
    BY <1>1, <2>1, <2>4, FilledOne
  <2>6. CASE n + 1 = Minutes
    <3>1. Listed(upload_status', [i \in Minute |-> -1])
      BY <2>5, <2>6, FilledAll
    <3> QED BY <2>1, <2>2, <2>3, <2>5, <2>6, <3>1 DEF StageOf, Stage
  <2>7. CASE n + 1 # Minutes
    <3>1. n + 1 \in 0..(Minutes - 1) /\ (n + 1) + 1 = n + 2
      BY <2>7, DashboardAssumption
    <3>2. \E i \in 0..(Minutes - 1) :
            calls'[k].left = (i + 1)..Minutes /\ Filled(upload_status', i)
      BY <2>5, <3>1
    <3> QED BY <2>1, <2>2, <2>3, <2>5, <2>7, <3>2 DEF StageOf, Stage
  <2> QED BY <2>6, <2>7
<1>3. Alone(k)
  BY AtAlone DEF FillStatus, Idle
<1>4. UNCHANGED <<xml_log, page>>
  BY DEF FillStatus, InServer
<1> QED BY <1>1, <1>2, <1>3, <1>4, MovedSerial

\* With no row left to write, the list has the statuses of the figure.
LEMMA NothingLeft ==
  ASSUME NEW list, NEW log, NEW arg, Listed(list, Before(log, arg, {}))
  PROVE  Listed(list, Shown(log, arg)) /\ Drawn(<<>>, log, arg)
BY BeforeAll, DrawnNone

LEMMA SerialQuery ==
  ASSUME SerialInv, NEW k \in Slot, QueryStatus(k)
  PROVE  SerialInv'
<1> DEFINE rows == Latest(xml_log, current_date)
<1>1. LatestRows(current_date) = rows
  BY DEF LatestRows, Latest
<1>2. Moved(k, Rest(rows), rows, calls[k].lists, xml_log, calls[k].answer)
  BY <1>1, QueryStatusMoves DEF SerialInv
<1>3. StageOf(k)'
  <2>1. /\ calls'[k].at = Rest(rows) /\ calls'[k].arg = calls[k].arg
        /\ calls'[k].left = rows
        /\ calls'[k].lists = calls[k].lists /\ calls'[k].log = xml_log
    BY <1>2, MovedIs DEF SerialInv
  <2>2. /\ Stage("query", calls[k].arg, calls[k].left, calls[k].lists, calls[k].log)
        /\ k[2] = "figure"
    BY InStage DEF QueryStatus
  <2>3. current_date' = current_date /\ upload_status' = upload_status
    BY DEF QueryStatus
  <2>4. /\ calls[k].arg = current_date /\ calls[k].lists = <<>>
        /\ Listed(upload_status, [m \in Minute |-> -1])
    BY <2>2 DEF Stage
  <2>5. Listed(upload_status, Before(xml_log, current_date, rows))
    BY <2>4, BeforeAll
  <2>6. Rows(xml_log)
    BY DEF SerialInv
  <2>7. CASE rows = {}
    <3>1. Listed(upload_status, Shown(xml_log, current_date))
          /\ Drawn(<<>>, xml_log, current_date)
      BY <2>5, <2>7, NothingLeft
    <3> QED BY <2>1, <2>2, <2>3, <2>4, <2>6, <2>7, <3>1 DEF StageOf, Stage, Rest
  <2>8. CASE rows # {}
    <3> HIDE DEF rows
    <3>1. calls'[k].at = "write"
      BY <2>1, <2>8 DEF Rest
    <3>2. calls'[k].left \subseteq Latest(calls'[k].log, calls'[k].arg)
      BY <2>1, <2>4 DEF rows
    <3>3. Listed(upload_status', Before(calls'[k].log, calls'[k].arg, calls'[k].left))
      BY <2>1, <2>3, <2>4, <2>5
    <3> QED BY <2>1, <2>2, <2>4, <2>6, <3>1, <3>2, <3>3 DEF StageOf, Stage
  <2> QED BY <2>7, <2>8
<1>4. Alone(k)
  BY AtAlone DEF QueryStatus, Idle
<1>5. UNCHANGED <<xml_log, page>>
  BY DEF QueryStatus, InServer
<1> QED BY <1>2, <1>3, <1>4, <1>5, MovedSerial

LEMMA SerialWrite ==
  ASSUME SerialInv, NEW k \in Slot, WriteStatus(k)
  PROVE  SerialInv'
<1>1. /\ Stage("write", calls[k].arg, calls[k].left, calls[k].lists, calls[k].log)
      /\ k[2] = "figure"
  BY InStage DEF WriteStatus
<1>2. PICK r \in calls[k].left :
        \/ /\ r.minute \in DOMAIN upload_status
           /\ upload_status' = [upload_status EXCEPT
                ![r.minute] = [minute |-> r.minute, status |-> r.status]]
           /\ Moved(k, Rest(calls[k].left \ {r}), calls[k].left \ {r},
                    calls[k].lists, calls[k].log, calls[k].answer)
        \/ /\ r.minute \notin DOMAIN upload_status /\ UNCHANGED upload_status
           /\ Becomes(k, "failed")
  BY WriteStatusMoves DEF SerialInv
<1>3. PICK left, log, arg : left = calls[k].left /\ log = calls[k].log /\ arg = calls[k].arg
  OBVIOUS
<1>4. /\ Rows(log) /\ calls[k].lists = <<>>
      /\ left \subseteq Latest(log, arg)
      /\ Listed(upload_status, Before(log, arg, left))
  BY <1>1, <1>3 DEF Stage
<1>5. /\ r.minute \in DOMAIN upload_status
      /\ Listed([upload_status EXCEPT ![r.minute] = [minute |-> r.minute, status |-> r.status]],
                Before(log, arg, left \ {r}))
  BY <1>2, <1>3, <1>4, BeforeOne
<1>6. /\ Listed(upload_status', Before(log, arg, left \ {r}))
      /\ Moved(k, Rest(left \ {r}), left \ {r}, calls[k].lists, log, calls[k].answer)
  BY <1>2, <1>3, <1>5
<1>7. StageOf(k)'
  <2>1. /\ calls'[k].at = Rest(left \ {r}) /\ calls'[k].arg = arg
        /\ calls'[k].left = left \ {r}
        /\ calls'[k].lists = <<>> /\ calls'[k].log = log
    BY <1>3, <1>4, <1>6, MovedIs DEF SerialInv
  <2>2. CASE left \ {r} = {}
    <3>1. Listed(upload_status', Before(log, arg, {}))
      BY <1>6, <2>2
    <3>2. Listed(upload_status', Shown(log, arg)) /\ Drawn(<<>>, log, arg)
      BY <3>1, NothingLeft
    <3> QED BY <1>1, <1>4, <2>1, <2>2, <3>2 DEF StageOf, Stage, Rest
  <2>3. CASE left \ {r} # {}
    <3>1. left \ {r} \subseteq Latest(log, arg)
      BY <1>4
    <3> QED BY <1>1, <1>4, <1>6, <2>1, <2>3, <3>1 DEF StageOf, Stage, Rest
  <2> QED BY <2>2, <2>3
<1>8. Alone(k)
  BY AtAlone DEF WriteStatus, Idle
<1>9. UNCHANGED <<xml_log, page>>
  BY DEF WriteStatus, InServer
<1> QED BY <1>6, <1>7, <1>8, <1>9, MovedSerial

LEMMA SerialPlot ==
  ASSUME SerialInv, NEW k \in Slot, PlotStatus(k)
  PROVE  SerialInv'
<1> DEFINE new == Append(calls[k].lists, Markers(upload_status, Len(calls[k].lists)))
<1>1. Moved(k, IF Len(calls[k].lists) = Reads - 1 THEN "done" ELSE "plot", calls[k].left,
            new, calls[k].log, calls[k].answer)
  BY PlotStatusMoves DEF SerialInv
<1>2. /\ Stage("plot", calls[k].arg, calls[k].left, calls[k].lists, calls[k].log)
      /\ k[2] = "figure"
  BY InStage DEF PlotStatus
<1>3. /\ Rows(calls[k].log)
      /\ Listed(upload_status, Shown(calls[k].log, calls[k].arg))
      /\ Drawn(calls[k].lists, calls[k].log, calls[k].arg)
  BY <1>2 DEF Stage
<1>4. IF Len(calls[k].lists) = Reads - 1 THEN new = Figure(calls[k].log, calls[k].arg)
                                         ELSE Drawn(new, calls[k].log, calls[k].arg)
  BY <1>3, DrawnOne
<1> HIDE DEF new
<1>5. StageOf(k)'
  <2>1. /\ calls'[k].at = IF Len(calls[k].lists) = Reads - 1 THEN "done" ELSE "plot"
        /\ calls'[k].arg = calls[k].arg
        /\ calls'[k].lists = new /\ calls'[k].log = calls[k].log
    BY <1>1, MovedIs DEF SerialInv
  <2>2. upload_status' = upload_status
    BY DEF PlotStatus
  <2> QED BY <1>2, <1>3, <1>4, <2>1, <2>2 DEF StageOf, Stage
<1>6. Alone(k)
  BY AtAlone DEF PlotStatus, Idle
<1>7. UNCHANGED <<xml_log, page>>
  BY DEF PlotStatus, InServer
<1> QED BY <1>1, <1>5, <1>6, <1>7, MovedSerial

LEMMA SerialServed ==
  ASSUME SerialInv, threads = 1, NEW k \in Slot, Serve(k)
  PROVE  SerialInv'
BY SerialDate, SerialLog, SerialFails, SerialSetDate, SerialReset, SerialFill, SerialQuery,
   SerialWrite, SerialPlot DEF Serve

(***************************************************************************)
(* The steps of the browser and of the Lambda.                             *)
(***************************************************************************)
LEMMA RowsStay ==
  ASSUME Rows(xml_log), Outside
  PROVE  Rows(xml_log)'
<1>1. ASSUME NEW time \in 1..MaxRows, NEW date \in Date, NEW minute \in Minute,
             NEW status \in Reported, Report(time, date, minute, status)
      PROVE  Rows(xml_log)'
  <2>1. [time |-> time, date |-> date, minute |-> minute, status |-> status] \in LogRow
    BY DEF LogRow, Reported
  <2> QED BY <1>1, <2>1 DEF Report, Rows
<1>2. ASSUME UNCHANGED xml_log PROVE Rows(xml_log)'
  BY <1>2 DEF Rows
<1> QED BY <1>1, <1>2 DEF Outside, Open, Tick, Select, Click, Accept, Ignore

LEMMA SerialOutside ==
  ASSUME SerialInv, Outside
  PROVE  SerialInv'
<1>1. /\ Browsed /\ OneCurrent(calls)'
      /\ page' = [s \in Session |-> page'[s]]
      /\ \A s \in Session : IsPage(page'[s])
      /\ PlotsFromAnswers
      /\ current_date' = current_date /\ upload_status' = upload_status
  BY OutsideStep DEF SerialInv
<1>2. ASSUME NEW k \in Slot, calls'[k] # None
      PROVE  /\ IsCall(calls'[k])
             /\ StageOf(k)'
             /\ Busy(k)' => Busy(k)
  <2>1. CASE calls'[k] = calls[k]
    BY <1>1, <1>2, <2>1 DEF SerialInv, Records, StageOf, Stage, Busy
  <2>2. CASE Posted(k)
    <3>1. PICK arg : calls'[k] \in {Call(arg), Superseded(Call(arg))}
      BY <2>2 DEF Posted
    <3>2. /\ IsCall(calls'[k]) /\ calls'[k].at = "sent"
          /\ calls'[k].lists = <<>> /\ calls'[k].log = {}
      BY <3>1, CallIs, SupersededIs
    <3>3. Rows({})
      BY DEF Rows
    <3> QED BY <3>2, <3>3 DEF StageOf, Stage, Busy, Idle
  <2>3. CASE calls[k] # None /\ calls'[k] = Superseded(calls[k])
    <3>1. /\ IsCall(calls'[k])
          /\ calls'[k].arg = calls[k].arg /\ calls'[k].at = calls[k].at
          /\ calls'[k].left = calls[k].left /\ calls'[k].lists = calls[k].lists
          /\ calls'[k].log = calls[k].log
      BY <2>3, SupersededIs DEF SerialInv, Records
    <3>2. StageOf(k)
      BY <2>3 DEF SerialInv
    <3> QED BY <1>1, <2>3, <3>1, <3>2 DEF StageOf, Stage, Busy
  <2> QED BY <1>1, <1>2, <2>1, <2>2, <2>3 DEF Browsed
<1>3. Records'
  BY <1>1, <1>2 DEF Records, Browsed
<1>4. Rows(xml_log)'
  BY RowsStay DEF SerialInv
<1>5. \A j, k \in Slot : Busy(j)' /\ Busy(k)' => j = k
  BY <1>2 DEF SerialInv, Busy
<1>6. ASSUME NEW s \in Session
      PROVE  page'[s].plot.lists = Figure(page'[s].plot.log, page'[s].plot.of)
  <2>1. CASE page'[s].plot = page[s].plot
    BY <2>1 DEF SerialInv, ShownAsLogged
  <2>2. ASSUME NEW k \in Slot, Accepted(k), k[1] = s
        PROVE  page'[s].plot.lists = Figure(page'[s].plot.log, page'[s].plot.of)
    <3>1. calls[k].lists = Figure(calls[k].log, calls[k].arg)
      BY <2>2 DEF Accepted, SerialInv, StageOf, Stage
    <3> QED BY <2>2, <3>1 DEF Accepted, Plot
  <2> QED BY <1>1, <2>1, <2>2 DEF PlotsFromAnswers
<1>7. ShownAsLogged'
  BY <1>6 DEF ShownAsLogged
<1> QED BY <1>1, <1>2, <1>3, <1>4, <1>5, <1>7 DEF SerialInv

LEMMA SerialInit == Init => SerialInv
<1> SUFFICES ASSUME Init PROVE SerialInv
  OBVIOUS
<1>1. NewerInv
  BY NewerInit
<1>2. Rows(xml_log)
  BY DEF Init, Rows
<1>3. EmptyPlot.lists = Figure({}, None)
  <2>1. Listed(Gray, Shown({}, None))
    <3>1. \A m \in Minute : StatusIn({}, None, m) = -1
      BY NoLatestStatus DEF Latest
    <3> QED BY <3>1 DEF Listed, Gray, Shown
  <2>2. Reads \in Nat
    BY DashboardAssumption, LenProperties DEF Reads
  <2>3. ASSUME NEW n \in 1..Reads
        PROVE  Markers(Gray, n - 1) = Figure({}, None)[n]
    <3>1. n - 1 \in 0..(Reads - 1) /\ (n - 1) + 1 = n
      BY <2>2
    <3>2. Markers(Gray, n - 1) = Figure({}, None)[(n - 1) + 1]
      BY <2>1, <3>1, MarkersShown
    <3> QED BY <3>1, <3>2
  <2>4. Figure({}, None) = [n \in 1..Reads |-> Figure({}, None)[n]]
    BY DEF Figure
  <2>5. EmptyPlot.lists = [n \in 1..Reads |-> Markers(Gray, n - 1)]
    BY DEF EmptyPlot, Plot
  <2> QED BY <2>3, <2>4, <2>5
<1>4. ShownAsLogged
  <2>1. \A s \in Session : page[s].plot = EmptyPlot
    BY DEF Init
  <2>2. EmptyPlot.log = {} /\ EmptyPlot.of = None
    BY DEF EmptyPlot, Plot
  <2> QED BY <1>3, <2>1, <2>2 DEF ShownAsLogged
<1>5. \A k \in Slot : calls[k] = None
  BY DEF Init
<1> QED BY <1>1, <1>2, <1>4, <1>5 DEF NewerInv, SerialInv, Busy

\* The inductive invariant: with one thread, SerialInv.
SerialIfOne == threads = 1 => SerialInv

LEMMA SerialStep == SerialIfOne /\ [Next]_vars => SerialIfOne'
<1> SUFFICES ASSUME SerialIfOne, [Next]_vars, threads' = 1 PROVE SerialInv'
  BY DEF SerialIfOne
<1>1. threads = 1 /\ SerialInv
  BY ThreadsStay DEF SerialIfOne
<1>2. CASE UNCHANGED vars
  BY <1>1, <1>2 DEF vars, SerialInv, Records, OneCurrent, Rows, Busy, StageOf, Stage,
     ShownAsLogged
<1>3. CASE Outside
  BY <1>1, <1>3, SerialOutside
<1>4. ASSUME NEW k \in Slot, Serve(k)
      PROVE  SerialInv'
  BY <1>1, <1>4, SerialServed
<1> QED BY <1>2, <1>3, <1>4, NextCases

\* On a server with one thread, a figure shows the status that each minute of the
\* date it was requested for had when the table was queried, whatever the sessions
\* do and in whatever order calls and answers arrive.
THEOREM SerialShown == Spec => [](threads = 1 => ShownAsLogged)
<1>1. Init => SerialIfOne
  BY SerialInit DEF SerialIfOne
<1>2. SerialIfOne => (threads = 1 => ShownAsLogged)
  BY DEF SerialIfOne, SerialInv
<1> QED BY <1>1, <1>2, SerialStep, PTL DEF Spec

\* On a server with one thread, the figure of a page is never replaced by one that
\* shows an older state of the log, for any number of sessions, calls and rows: the
\* markers of both figures are those of the log at their own query, and the query
\* of the second one came later.
THEOREM NeverOlder == Spec => NeverOlderPlot
<1>1. SerialIfOne /\ SerialIfOne' /\ NewerInv /\ [Next]_vars =>
        [\A s \in Session :
           LET old == page[s].plot
               new == page'[s].plot
           IN threads = 1 /\ new # old =>
                /\ old.lists = Figure(old.log, old.of)
                /\ new.lists = Figure(new.log, new.of)
                /\ old.log \subseteq new.log]_<<page, threads>>
  <2>1. [Next]_vars => threads' = threads
    BY ThreadsStay
  <2>2. SerialIfOne /\ threads = 1 =>
          \A s \in Session : page[s].plot.lists = Figure(page[s].plot.log, page[s].plot.of)
    BY DEF SerialIfOne, SerialInv, ShownAsLogged
  <2>3. SerialIfOne' /\ threads' = 1 =>
          \A s \in Session : page'[s].plot.lists = Figure(page'[s].plot.log, page'[s].plot.of)
    BY DEF SerialIfOne, SerialInv, ShownAsLogged
  <2>4. NewerInv /\ [Next]_vars =>
          \A s \in Session :
            page'[s].plot # page[s].plot => page[s].plot.log \subseteq page'[s].plot.log
    BY NewerStep
  <2> QED BY <2>1, <2>2, <2>3, <2>4
<1>2. Init => SerialIfOne /\ NewerInv
  BY SerialInit, NewerInit DEF SerialIfOne
<1>3. SerialIfOne /\ [Next]_vars => SerialIfOne'
  BY SerialStep
<1>4. NewerInv /\ [Next]_vars => NewerInv'
  BY NewerStep
<1> QED BY <1>1, <1>2, <1>3, <1>4, PTL DEF Spec, NeverOlderPlot
=============================================================================
