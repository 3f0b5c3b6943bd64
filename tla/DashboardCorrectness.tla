------------------------ MODULE DashboardCorrectness ------------------------
(***************************************************************************)
(* What makes the dashboard correct, as properties of Dashboard.           *)
(***************************************************************************)
EXTENDS Dashboard

LogRow == [time: 1..MaxRows, date: Date, minute: Minute, status: Stat]
Label ==
  {"sent", "date.return", "reset", "fill", "query", "write", "plot", "done", "failed"}

CallOK(c) ==
  /\ c.at \in Label /\ c.state \in {"current", "superseded"}
  /\ c.log \subseteq LogRow
  /\ \A n \in DOMAIN c.lists : n <= Reads /\ c.lists[n] \subseteq Minute

PageOK(p) ==
  /\ p.date \in Date
  /\ DOMAIN p.plot.lists = 1..Reads
  /\ \A n \in 1..Reads : p.plot.lists[n] \subseteq Minute
  /\ p.plot.of \in Date \cup {None} /\ p.plot.log \subseteq LogRow
  /\ p.click \in Minute \cup {None}
  /\ p.message \in LogRow \cup {None}

\* Every variable holds a value of its kind; the date of a page is a date, and
\* every entry of upload_status is a minute of the day with a status.
TypeOK ==
  /\ xml_log \subseteq LogRow
  /\ current_date \in Date
  /\ upload_status \in Seq([minute: Minute, status: Stat])
  /\ \A s \in Session : PageOK(page[s])
  /\ \A k \in Slot : calls[k] # None => CallOK(calls[k])
  /\ opened \subseteq Session
  /\ threads \in 1..Workers
  /\ inputs \in [Session -> 0..MaxInputs]
  /\ faults \in 0..MaxFaults

\* The status of a minute of a day, by the latest of its rows.
StatusIn(rows, date, m) ==
  LET file == {r \in rows : r.date = date /\ r.minute = m}
      latest == {r \in file : \A q \in file : q.time <= r.time}
  IN IF latest = {} THEN -1 ELSE (CHOOSE r \in latest : TRUE).status

\* The figure for a day.
Figure(rows, date) ==
  [n \in 1..Reads |-> {m \in Minute : StatusIn(rows, date, m) = StatusOf(n - 1)}]

\* "displays which files have been processed for a given date" (README.md):
\* a figure shows, for the date it was requested for, the status that each
\* minute had in xml_log when the table was queried, and nothing from another
\* call (show_date_status and table_plot work on globals).
ShownAsLogged ==
  \A s \in Session :
    LET plot == page[s].plot IN plot.lists = Figure(plot.log, plot.of)

\* On a server with one thread: when the figure of a page is replaced, the
\* markers shown before and after are those of two states of the log, and the
\* second state is not the older one, although calls and answers overtake one
\* another (every call fills the shared list from a query of its own, and
\* superseded answers are ignored).  With more threads this fails: a slow one
\* may write the rows of its older query into the list that a later call draws.
NeverOlderPlot ==
  [][\A s \in Session :
       LET old == page[s].plot
           new == page'[s].plot
       IN threads = 1 /\ new # old =>
            /\ old.lists = Figure(old.log, old.of)
            /\ new.lists = Figure(new.log, new.of)
            /\ old.log \subseteq new.log]_<<page, threads>>

\* Once the log and the user are at rest, the page shows the statuses of its
\* date and the latest message of the clicked minute, and goes on to: the
\* refresh of the interval makes up for every race and every failed call.
ShowsLatest ==
  <>[](\A s \in Session :
         LET p == page[s]
             clicked == {r \in xml_log : r.date = p.date /\ r.minute = p.click}
         IN /\ s \in opened => p.plot.lists = Figure(xml_log, p.date)
            /\ p.click # None /\ clicked # {} =>
                 p.message \in {r \in clicked : \A q \in clicked : q.time <= r.time})

=============================================================================
