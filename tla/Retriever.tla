------------------------------ MODULE Retriever ------------------------------
(***************************************************************************)
(* retrieve-realtime-data.sh: the loop that downloads the file published   *)
(* every minute and copies it to the S3 bucket under a name made of the    *)
(* date and the time.  Each call of date reads the clock anew, and the     *)
(* clock goes on between the calls.                                        *)
(*                                                                         *)
(* Time is counted in ticks of five seconds; a publication is the number   *)
(* of the minute it was published in.                                      *)
(***************************************************************************)
EXTENDS Integers, FiniteSets

CONSTANTS
  Minute,        \* ticks of a minute: 12
  Hour, Day,     \* minutes of an hour and of a day
  Published,     \* the tick of a minute that has its 42nd second
  Ripe,          \* the last tick of a minute that is not past the 45th second
  Nap,           \* sleep 5
  Lag,           \* at most so many ticks pass between the other calls of a round
  MaxDownload,   \* at most so many ticks pass in a download
  MaxFaults,     \* bound: failed downloads and failed copies
  MaxTime,       \* bound: ticks
  None, Empty    \* an unset variable; an empty file

ASSUME RetrieverAssumption ==
  /\ Minute \in Nat \ {0} /\ Hour \in Nat \ {0} /\ Day \in Nat \ {0}
  /\ Published \in 0..Ripe /\ Ripe \in 0..(Minute - 1)
  /\ Nap \in Nat \ {0} /\ Lag \in Nat /\ MaxDownload \in Nat
  /\ MaxFaults \in Nat /\ MaxTime \in Nat
  /\ None \notin Nat /\ Empty \notin Nat

VARIABLES
  now,       \* the clock
  pc,        \* the next command
  minute, old_minute, d, t,
  tmpfile,   \* what the temporary file holds
  bucket,    \* the copies made so far: name and content
  spent,     \* ticks since the command began
  lag,       \* ticks in this round outside the download and the nap
  faults,
  began      \* when the script was started

vars == <<now, pc, minute, old_minute, d, t, tmpfile, bucket, spent, lag, faults, began>>

\* What date prints with %S, %M, %Y-%m-%d and %H%M.
Second(time) == time % Minute
MinuteOfHour(time) == (time \div Minute) % Hour
Date(time) == time \div (Minute * Day)
TimeOfDay(time) == (time \div Minute) % Day

\* The file at the source at a time; none before the first one.
Source(time) == IF time < Published THEN Empty ELSE (time - Published) \div Minute

Then(command) == pc' = command /\ spent' = 0
Clock == UNCHANGED <<now, began>>

\* Mutant: the script sleeps a minute.
SleptMinute == spent = Minute

Slept == spent = Nap

\* Time passes while a command runs.
Tick ==
  /\ now < MaxTime
  /\ \/ pc = "sleep" /\ ~Slept /\ UNCHANGED lag
     \/ pc = "wget" /\ tmpfile # None /\ spent < MaxDownload /\ UNCHANGED lag
     \/ pc \notin {"sleep", "wget"} /\ lag < Lag /\ lag' = lag + 1
  /\ now' = now + 1 /\ spent' = spent + 1
  /\ UNCHANGED <<pc, minute, old_minute, d, t, tmpfile, bucket, faults, began>>

ReadMinute ==
  /\ pc = "minute" /\ minute' = MinuteOfHour(now)
  /\ Then("second")
  /\ UNCHANGED <<old_minute, d, t, tmpfile, bucket, lag, faults>> /\ Clock

\* Mutant: the minute is not compared with that of the last check.
Late(sec) == sec > Ripe

\* "past the 45th second, and the first check during this minute"
Due(sec) == sec > Ripe /\ minute # old_minute

ReadSecond ==
  /\ pc = "second"
  /\ Then(IF Due(Second(now)) THEN "date" ELSE "sleep")
  /\ UNCHANGED <<minute, old_minute, d, t, tmpfile, bucket, lag, faults>> /\ Clock

ReadDate ==
  /\ pc = "date" /\ d' = Date(now)
  /\ Then("time")
  /\ UNCHANGED <<minute, old_minute, t, tmpfile, bucket, lag, faults>> /\ Clock

ReadTime ==
  /\ pc = "time" /\ t' = TimeOfDay(now)
  /\ Then("wget") /\ tmpfile' = None
  /\ UNCHANGED <<minute, old_minute, d, bucket, lag, faults>> /\ Clock

\* wget empties the file and asks for the source as it is now.
Request ==
  /\ pc = "wget" /\ tmpfile = None
  /\ tmpfile' = Source(now)
  /\ UNCHANGED <<pc, minute, old_minute, d, t, bucket, spent, lag, faults>> /\ Clock

\* The download ends; if it failed, the script goes on with an empty file.
Downloaded ==
  /\ pc = "wget" /\ tmpfile # None
  /\ \/ UNCHANGED <<tmpfile, faults>>
     \/ faults < MaxFaults /\ faults' = faults + 1 /\ tmpfile' = Empty
  /\ Then("cp")
  /\ UNCHANGED <<minute, old_minute, d, t, bucket, lag>> /\ Clock

\* The copy to S3 is made or fails; the minute is done in either case.
Copy ==
  /\ pc = "cp"
  /\ \/ /\ bucket' = bucket \cup {[date |-> d, time |-> t, content |-> tmpfile]}
        /\ UNCHANGED faults
     \/ faults < MaxFaults /\ faults' = faults + 1 /\ UNCHANGED bucket
  /\ old_minute' = minute
  /\ Then("sleep")
  /\ UNCHANGED <<minute, d, t, tmpfile, lag>> /\ Clock

Wake ==
  /\ pc = "sleep" /\ Slept
  /\ Then("minute") /\ lag' = 0
  /\ UNCHANGED <<minute, old_minute, d, t, tmpfile, bucket, faults>> /\ Clock

Init ==
  /\ now \in 0..(Minute * Day - 1) /\ began = now
  /\ pc = "minute" /\ spent = 0 /\ lag = 0 /\ faults = 0
  /\ minute = None /\ old_minute = None /\ d = None /\ t = None
  /\ tmpfile = Empty /\ bucket = {}

Next ==
  \/ Tick \/ ReadMinute \/ ReadSecond \/ ReadDate \/ ReadTime \/ Request \/ Downloaded
  \/ Copy \/ Wake

Spec == Init /\ [][Next]_vars

-----------------------------------------------------------------------------
\* The publications since the start that have been replaced by a later one.
Replaced == {p \in 0..(now \div Minute) : p * Minute + Published > began /\ p < Source(now)}

\* As long as the calls and the downloads are prompt, no publication is missed:
\* each that has been replaced has been copied, or is about to be, but for as many
\* as calls failed.  It is copied under the time of its own minute, or of the next one.
PublicationsCopied ==
  now >= Published =>
    Cardinality({p \in Replaced : ~(pc \in {"wget", "cp"} /\ tmpfile = p) /\ ~ \E copy \in bucket :
        copy.content = p /\ copy.time \in {p % Day, (p + 1) % Day}}) <= faults

\* No publication is copied under two names.
CopiedOnce ==
  \A copy, other \in bucket :
    copy.content = other.content /\ copy.content # Empty => copy = other
=============================================================================
