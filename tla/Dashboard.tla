------------------------------ MODULE Dashboard ------------------------------
(***************************************************************************)
(* app.py: the web page that shows, for a day, which minutes have been     *)
(* processed.  Three callbacks run on the server; two of them share the    *)
(* module globals current_date and upload_status.                          *)
(*                                                                         *)
(* A browser session holds one page.  dash-renderer, in the browser, calls *)
(* a callback when one of its inputs changes, sets the page's property     *)
(* from the answer, and that change may call other callbacks in turn.      *)
(* Calls travel on connections of their own and overtake one another.  A   *)
(* call is superseded by a later call for the same output: its answer is   *)
(* then ignored.                                                           *)
(*                                                                         *)
(* Flask's server executes one callback at a time before version 1.0, and  *)
(* each in a thread of its own since: a server has one thread or more.     *)
(* Every access to a global, and every transaction, is a step.             *)
(***************************************************************************)
EXTENDS Integers, Sequences, FiniteSets, Functions

CONSTANTS
  Session,    \* the browser sessions
  Date,       \* the days that can be selected
  Minutes,    \* how many minutes a day has
  Today,      \* the day in Amsterdam
  StartDay,   \* the day on which the server was started
  Statuses,   \* the statuses in the order in which table_plot goes through them
  Workers,    \* bound: the threads of the server
  Prompt,     \* TRUE: answers take less time than refresh_rate
  MaxCalls,   \* bound: the calls of a session for one output at a time
  MaxInputs,  \* bound: how often the user of a session selects or clicks
  MaxRows,    \* bound: how many rows the Lambda writes
  MaxFaults,  \* bound: how often the database does not answer
  None        \* no call, no marker clicked, an empty message

Minute == 1..Minutes   \* hour * 60 + minute + 1
Stat == Range(Statuses) \* the keys of colors and status; -1: nothing received
Reported == Stat \ {-1}  \* the ones that the Lambda reports

ASSUME DashboardAssumption ==
  /\ IsFiniteSet(Session)
  /\ Minutes \in Nat \ {0}
  /\ Today \in Date /\ StartDay \in Date
  /\ Statuses \in Seq(-1..2) /\ IsInjective(Statuses) /\ -1 \in Range(Statuses)
  /\ Workers \in Nat \ {0}
  /\ Prompt \in BOOLEAN
  /\ MaxCalls \in Nat \ {0}
  /\ MaxInputs \in Nat /\ MaxRows \in Nat /\ MaxFaults \in Nat

VARIABLES
  xml_log,        \* the rows about traffic files
  current_date, upload_status,
  page,           \* page[s]: the page of session s
  opened,         \* the sessions whose page is loaded
  threads,        \* how many callbacks the server executes at a time
  calls,          \* calls[k]: a call under way, sent by session k[1] for output k[2]
  inputs, faults

vars ==
  <<xml_log, current_date, upload_status, page, opened, threads, calls, inputs, faults>>

Output == {"date", "figure", "log"}
Slot == Session \X Output \X (1..MaxCalls)

Gray == [m \in Minute |-> [minute |-> m, status |-> -1]]

(***************************************************************************)
(* A figure has a trace per status, and a trace has two lists of           *)
(* coordinates.  It is built by reading upload_status once for each of     *)
(* them: the reads are numbered from 0, the even ones are for x.  (A third *)
(* list, the hover text, repeats both coordinates and is left out.)        *)
(***************************************************************************)
Reads == 2 * Len(Statuses)
StatusOf(read) == Statuses[read \div 2 + 1]

\* The minutes of the entries with the status of this read.
Markers(list, read) ==
  {list[k].minute : k \in {k \in DOMAIN list : list[k].status = StatusOf(read)}}

\* A figure, what it was requested for, and the table when it was queried
\* (history).
Plot(lists, date, rows) == [lists |-> lists, of |-> date, log |-> rows]

\* table_plot() when the module is imported.
EmptyPlot == Plot([n \in 1..Reads |-> Markers(Gray, n - 1)], None, {})

Init ==
  /\ xml_log = {}
  /\ current_date = StartDay
  /\ upload_status = Gray
  /\ page = [s \in Session |->
       [date |-> StartDay, plot |-> EmptyPlot, click |-> None, message |-> None]]
  /\ opened = {}
  /\ threads \in 1..Workers
  /\ calls = [k \in Slot |-> None]
  /\ inputs = [s \in Session |-> 0]
  /\ faults = 0

-----------------------------------------------------------------------------
(***************************************************************************)
(* xml_log: what the Lambda inserts, and the queries.                      *)
(***************************************************************************)

\* A row becomes visible.  The time in it is unique, and it is older than
\* the row (MetaLog), so rows may appear out of the order of their times.
Report(time, date, minute, status) ==
  /\ \A r \in xml_log : r.time # time
  /\ xml_log' = xml_log \cup
       {[time |-> time, date |-> date, minute |-> minute, status |-> status]}
  /\ UNCHANGED <<current_date, upload_status, page, opened, threads, calls, inputs, faults>>

SameFile(q, r) == q.date = r.date /\ q.minute = r.minute

\* Mutant: min instead of max.
OldestRows(date) ==
  {r \in xml_log : r.date = date /\ \A q \in xml_log : SameFile(q, r) => r.time <= q.time}

\* The rows joined with the latest time of their file, for the files of a day.
LatestRows(date) ==
  {r \in xml_log : r.date = date /\ \A q \in xml_log : SameFile(q, r) => q.time <= r.time}

-----------------------------------------------------------------------------
(***************************************************************************)
(* The browser: dash-renderer.                                             *)
(***************************************************************************)
UnderWay(s, output) == {k \in Slot : k[1] = s /\ k[2] = output /\ calls[k] # None}

\* The session waits for a date: calls whose inputs depend on it are not sent,
\* the answer will trigger them.
DateAwaited(s) == \E k \in UnderWay(s, "date") : calls[k].state = "current"

Call(arg) ==
  [arg |-> arg, at |-> "sent", state |-> "current", left |-> {}, lists |-> <<>>, log |-> {},
   answer |-> None]

\* The first free slot for a call of session s for `output'.
FreeSlot(k, s, output) ==
  /\ k[1] = s /\ k[2] = output /\ calls[k] = None
  /\ \A n \in 1..(k[3] - 1) : calls[<<s, output, n>>] # None

\* Send a call in slot k; it supersedes the earlier ones for its output.
Sent(cs, k, arg) ==
  [j \in Slot |->
     CASE j = k -> Call(arg)
       [] j # k /\ j[1] = k[1] /\ j[2] = k[2] /\ cs[j] # None
          -> [cs[j] EXCEPT !.state = "superseded"]
       [] OTHER -> cs[j]]

\* The date of the page of s has changed, or been set again, to d: the figure is
\* requested, and the message if a marker has been clicked.  (Without a click
\* show_log returns the empty text, which the page shows anyway.)
DateSet(cs, s, d) ==
  \E f, l \in Slot :
    /\ FreeSlot(f, s, "figure")
    /\ IF page[s].click = None THEN l = f ELSE FreeSlot(l, s, "log")
    /\ LET asked == Sent(cs, f, d)
       IN calls' = IF page[s].click = None THEN asked ELSE Sent(asked, l, page[s].click)

Quiet(s) == \A k \in Slot : k[1] = s => calls[k] = None

\* The page is loaded: the interval's first value, 0, is an input.
Open(s) ==
  /\ s \notin opened
  /\ opened' = opened \cup {s}
  /\ \E k \in Slot : FreeSlot(k, s, "date") /\ calls' = Sent(calls, k, 0)
  /\ UNCHANGED <<xml_log, current_date, upload_status, page, threads, inputs, faults>>

\* The interval component fires: n_intervals is not 0 any more.
Tick(s) ==
  /\ s \in opened
  /\ Prompt => Quiet(s)
  /\ \E k \in Slot : FreeSlot(k, s, "date") /\ calls' = Sent(calls, k, 1)
  /\ UNCHANGED <<xml_log, current_date, upload_status, page, opened, threads, inputs, faults>>

\* The user selects a date.
Select(s, d) ==
  /\ s \in opened /\ d # page[s].date
  /\ inputs[s] < MaxInputs
  /\ inputs' = [inputs EXCEPT ![s] = @ + 1]
  /\ page' = [page EXCEPT ![s].date = d]
  /\ IF DateAwaited(s) THEN UNCHANGED calls ELSE DateSet(calls, s, d)
  /\ UNCHANGED <<xml_log, current_date, upload_status, opened, threads, faults>>

\* The user clicks on a marker.
Click(s, m) ==
  /\ s \in opened /\ m # page[s].click
  /\ \E n \in 1..Reads : m \in page[s].plot.lists[n]
  /\ inputs[s] < MaxInputs
  /\ inputs' = [inputs EXCEPT ![s] = @ + 1]
  /\ page' = [page EXCEPT ![s].click = m]
  /\ IF DateAwaited(s) THEN UNCHANGED calls
     ELSE \E k \in Slot : FreeSlot(k, s, "log") /\ calls' = Sent(calls, k, m)
  /\ UNCHANGED <<xml_log, current_date, upload_status, opened, threads, faults>>

Dropped(k) == [calls EXCEPT ![k] = None]

\* An answer arrives that is superseded, or the server's error page does.
Ignore(k) ==
  /\ calls[k] # None
  /\ calls[k].at = "failed" \/ (calls[k].at = "done" /\ calls[k].state = "superseded")
  /\ calls' = Dropped(k)
  /\ UNCHANGED <<xml_log, current_date, upload_status, page, opened, threads, inputs, faults>>

\* An answer arrives and is put into the page.
Accept(k) ==
  LET s == k[1]
      c == calls[k]
  IN /\ c # None
     /\ c.at = "done" /\ c.state = "current"
     /\ \/ /\ k[2] = "date"
           /\ page' = [page EXCEPT ![s].date = c.answer]
           /\ DateSet(Dropped(k), s, c.answer)
        \/ /\ k[2] = "figure"
           /\ page' = [page EXCEPT ![s].plot = Plot(c.lists, c.arg, c.log)]
           /\ calls' = Dropped(k)
        \/ /\ k[2] = "log"
           /\ page' = [page EXCEPT ![s].message = c.answer]
           /\ calls' = Dropped(k)
     /\ UNCHANGED <<xml_log, current_date, upload_status, opened, threads, inputs, faults>>

-----------------------------------------------------------------------------
(***************************************************************************)
(* The server: the steps of the call k.                                    *)
(***************************************************************************)
Running == {k \in Slot : calls[k] # None /\ calls[k].at \notin {"sent", "done", "failed"}}

Starts(k, output) ==
  /\ calls[k] # None /\ k[2] = output /\ calls[k].at = "sent"
  /\ Cardinality(Running) < threads

At(k, label) == calls[k] # None /\ calls[k].at = label
Goes(k, label) == calls' = [calls EXCEPT ![k].at = label]
InServer == UNCHANGED <<xml_log, page, opened, threads, inputs>>

\* init_date: the first call of a page sets the global.
SetToday(k) ==
  /\ Starts(k, "date")
  /\ current_date' = IF calls[k].arg = 0 THEN Today ELSE current_date
  /\ Goes(k, "date.return")
  /\ UNCHANGED <<upload_status, faults>> /\ InServer

\* Mutant: the return statement is inside the `if'.
ReturnInIf(k) ==
  /\ At(k, "date.return")
  /\ calls' = [calls EXCEPT ![k] =
       [@ EXCEPT !.at = "done", !.answer = IF calls[k].arg = 0 THEN current_date ELSE None]]
  /\ UNCHANGED <<current_date, upload_status, faults>> /\ InServer

ReturnDate(k) ==
  /\ At(k, "date.return")
  /\ calls' = [calls EXCEPT ![k] = [@ EXCEPT !.at = "done", !.answer = current_date]]
  /\ UNCHANGED <<current_date, upload_status, faults>> /\ InServer

\* Mutant: nothing is computed for a date that has not changed.
UnchangedDateSkipped(k) ==
  /\ Starts(k, "figure")
  /\ current_date' = calls[k].arg
  /\ Goes(k, IF current_date = calls[k].arg THEN "plot" ELSE "reset")
  /\ UNCHANGED <<upload_status, faults>> /\ InServer

\* show_date_status, line by line.
SetDate(k) ==
  /\ Starts(k, "figure")
  /\ current_date' = calls[k].arg
  /\ Goes(k, "reset")
  /\ UNCHANGED <<upload_status, faults>> /\ InServer

\* Mutant: the list is not emptied.
NotEmptied(k) ==
  /\ At(k, "reset")
  /\ calls' = [calls EXCEPT ![k] = [@ EXCEPT !.at = "fill", !.left = Minute]]
  /\ UNCHANGED <<current_date, upload_status, faults>> /\ InServer

ResetStatus(k) ==
  /\ At(k, "reset")
  /\ upload_status' = <<>>
  /\ calls' = [calls EXCEPT ![k] = [@ EXCEPT !.at = "fill", !.left = Minute]]
  /\ UNCHANGED <<current_date, faults>> /\ InServer

\* One turn of the loop over the minutes, in their order; `left' has the
\* minutes to come.
FillStatus(k) ==
  /\ At(k, "fill")
  /\ \E m \in calls[k].left :
       /\ \A n \in calls[k].left : m <= n
       /\ upload_status' = Append(upload_status, [minute |-> m, status |-> -1])
       /\ calls' = [calls EXCEPT ![k] =
            [@ EXCEPT !.at = IF calls[k].left = {m} THEN "query" ELSE "fill",
                      !.left = calls[k].left \ {m}]]
  /\ UNCHANGED <<current_date, faults>> /\ InServer

\* The loop over the rows ends when none is left.
Rest(rows) == IF rows = {} THEN "plot" ELSE "write"

\* The query has the global's date in it, not the argument's; `left' has the
\* rows to come.
QueryStatus(k) ==
  /\ At(k, "query")
  /\ calls' = [calls EXCEPT ![k] =
       [@ EXCEPT !.at = Rest(LatestRows(current_date)), !.left = LatestRows(current_date),
                 !.log = xml_log]]
  /\ UNCHANGED <<current_date, upload_status, faults>> /\ InServer

\* One turn of the loop over the rows, which come in any order.  Another thread
\* may have emptied the list: IndexError.
WriteStatus(k) ==
  /\ At(k, "write")
  /\ \E r \in calls[k].left :
       IF r.minute \in DOMAIN upload_status
         THEN /\ upload_status' = [upload_status EXCEPT
                   ![r.minute] = [minute |-> r.minute, status |-> r.status]]
              /\ calls' = [calls EXCEPT ![k] =
                   [@ EXCEPT !.at = Rest(calls[k].left \ {r}), !.left = calls[k].left \ {r}]]
         ELSE Goes(k, "failed") /\ UNCHANGED upload_status
  /\ UNCHANGED <<current_date, faults>> /\ InServer

\* table_plot reads the global for one list of coordinates.
PlotStatus(k) ==
  /\ At(k, "plot")
  /\ calls' = [calls EXCEPT ![k] =
       [@ EXCEPT !.at = IF Len(calls[k].lists) = Reads - 1 THEN "done" ELSE "plot",
                 !.lists = Append(calls[k].lists,
                                  Markers(upload_status, Len(calls[k].lists)))]]
  /\ UNCHANGED <<current_date, upload_status, faults>> /\ InServer

\* show_log: the row whose message is the latest of the file of the clicked
\* minute on the global's date; its other argument, the page's date, is not used.
ShowLog(k) ==
  LET latest == {r \in LatestRows(current_date) : r.minute = calls[k].arg}
  IN /\ Starts(k, "log")
     /\ calls' = [calls EXCEPT ![k] =
          [@ EXCEPT !.at = "done",
                    !.answer = IF latest = {} THEN None ELSE CHOOSE r \in latest : TRUE]]
     /\ UNCHANGED <<current_date, upload_status, faults>> /\ InServer

\* The database does not answer: the exception becomes an error page.
DbFails(k) ==
  /\ At(k, "query") \/ Starts(k, "log")
  /\ faults < MaxFaults
  /\ faults' = faults + 1
  /\ Goes(k, "failed")
  /\ UNCHANGED <<current_date, upload_status>> /\ InServer

-----------------------------------------------------------------------------
Serve(k) ==
  \/ SetToday(k) \/ ReturnDate(k)
  \/ SetDate(k) \/ ResetStatus(k) \/ FillStatus(k) \/ QueryStatus(k) \/ WriteStatus(k)
  \/ PlotStatus(k) \/ ShowLog(k) \/ DbFails(k)

Next ==
  \/ \E time \in 1..MaxRows, date \in Date, minute \in Minute, status \in Reported :
       Report(time, date, minute, status)
  \/ \E s \in Session :
       \/ Open(s) \/ Tick(s)
       \/ \E d \in Date : Select(s, d)
       \/ \E m \in Minute : Click(s, m)
  \/ \E k \in Slot : Serve(k) \/ Accept(k) \/ Ignore(k)

Spec == Init /\ [][Next]_vars

(***************************************************************************)
(* Fairness.  The server works off its calls, answers arrive, and the      *)
(* interval of an open page fires again and again.                         *)
(***************************************************************************)
FairSpec ==
  /\ Spec
  /\ \A k \in Slot : WF_vars(Serve(k)) /\ WF_vars(Accept(k) \/ Ignore(k))
  /\ \A s \in Session : WF_vars(Tick(s))
=============================================================================
