------------------------------ MODULE PgTypes ------------------------------
(* A program that registers types of the server on a connection             *)
(* (register_range, register_hstore, register_composite), within a           *)
(* transaction of its own or outside, and then sends values of these types   *)
(* and reads them back (_range.py, extras.py).  The connection, the server   *)
(* and the casts of single values are external.                              *)
EXTENDS PgText, FiniteSets

CONSTANTS
    Texts,      \* texts of fields, keys and bounds
    NumberTexts,\* texts of numbers
    MaxFields,  \* bound on the fields of a row and the keys of an hstore
    MaxRead,    \* bound on the ranges read by one query
    MaxWork     \* bound on the statements of one transaction

\* The text of a number needs no quotes.
ASSUME TextAssumption ==
    /\ Special \cup Delimiter \cup {"N", "U", "L", "=", ">"} \subseteq Char
    /\ Texts \subseteq Text /\ NumberTexts \subseteq Text
    /\ None \notin Texts \cup NumberTexts
    /\ \A text \in NumberTexts :
        /\ text # <<>>
        /\ \A i \in 1 .. Len(text) : text[i] \notin Special \cup Delimiter

(* The integers stand for a type of the server with values between any two   *)
(* of its own, such as numeric: a range from one to another holds a point.   *)
ASSUME SpreadAssumption ==
    /\ Values # {}
    /\ \A v, w \in Values : v < w => v + 1 < w

ASSUME BoundAssumption == MaxFields \in Nat

VARIABLES
    autocommit, \* conn.autocommit
    status,     \* conn.status: "ready", or "begin", STATUS_IN_TRANSACTION
    server,     \* the transaction at the server: "idle", "intrans", "inerror"
    work,       \* statements of the program in the transaction
    types,      \* the types registered
    outcome,    \* of the last call of a register function, "none" after others
    reading,    \* the type of the values being read, or "none"
    got         \* value sent -> value read

session == <<status, server, work>>
vars == <<autocommit, session, types, outcome, reading, got>>

Init ==
    /\ autocommit \in BOOLEAN
    /\ status = "ready" /\ server = "idle" /\ work = 0
    /\ types = {}
    /\ outcome = "none"
    /\ reading = "none" /\ got = <<>>

-----------------------------------------------------------------------------
(* The connection.  A statement begins a transaction, unless in autocommit.  *)
Begun ==
    IF autocommit THEN status' = "ready" /\ server' = "idle"
    ELSE status' = "begin" /\ server' = "intrans"

Fails ==
    /\ status' = IF autocommit THEN "ready" ELSE "begin"
    /\ server' = IF autocommit THEN "idle" ELSE "inerror"
    /\ UNCHANGED work

RolledBack == status' = "ready" /\ server' = "idle" /\ work' = 0

(* The program's own statements, and their end.                              *)
Execute ==
    /\ reading = "none"
    /\ server # "inerror" /\ work < MaxWork
    /\ \/ Begun /\ work' = IF autocommit THEN 0 ELSE work + 1
       \/ Fails
    /\ outcome' = "none"
    /\ UNCHANGED <<autocommit, types, reading, got>>

EndTransaction ==
    /\ reading = "none"
    /\ RolledBack
    /\ outcome' = "none"
    /\ UNCHANGED <<autocommit, types, reading, got>>

-----------------------------------------------------------------------------
(* What a bug would do: the transaction ends, whoever began it.              *)
RevertAll ==
    IF ~ autocommit THEN RolledBack ELSE Begun /\ UNCHANGED work

(* `revert the status of the connection as before the command'               *)
Revert ==
    IF status # "begin" /\ ~ autocommit THEN RolledBack
    ELSE Begun /\ UNCHANGED work

(* The query for the oid of type t: the type is found or not.                *)
Queried(t) ==
    /\ server # "inerror"
    /\ Revert
    /\ \/ outcome' = "registered" /\ types' = types \cup {t}
       \/ outcome' = "missing" /\ UNCHANGED types

(* It raises: in a failed transaction no statement is executed.              *)
QueryRaises ==
    /\ \/ server = "inerror" /\ UNCHANGED session
       \/ server # "inerror" /\ Fails
    /\ outcome' = "raised" /\ UNCHANGED types

(* RangeCaster._from_db handles a ProgrammingError.                          *)
RangeQueryRaises ==
    /\ server # "inerror"
    /\ IF autocommit THEN UNCHANGED session ELSE RolledBack
    /\ outcome' = "raised" /\ UNCHANGED types

RegisterRange == Queried("range") \/ QueryRaises \/ RangeQueryRaises

RegisterHstore == Queried("hstore") \/ QueryRaises

RegisterComposite == Queried("row") \/ QueryRaises

Register ==
    /\ reading = "none"
    /\ RegisterRange \/ RegisterHstore \/ RegisterComposite
    /\ UNCHANGED <<autocommit, reading, got>>

-----------------------------------------------------------------------------
(* Ranges.  A naming gives the values the texts that the server prints and   *)
(* cur.cast reads: any texts for a type of the program's own, and for a      *)
(* numeric range such as need no quotes.                                     *)
Distinct(f) == \A v, w \in Values : f[v] = f[w] => v = w

Namings == {f \in [Values -> Texts] : Distinct(f)}

Numbers == {f \in [Values -> NumberTexts] : Distinct(f)}

TextOf(naming, v) == IF v = None THEN None ELSE naming[v]

Cast(naming, text) ==
    IF text = None THEN None ELSE CHOOSE v \in Values : naming[v] = text

EmptyText == <<"e", "m", "p", "t", "y">>

(* The range of the server with these bounds.                                *)
Valid(r) == r.lower # None /\ r.upper # None => r.lower <= r.upper

ServerRange(lower, upper, flags) ==
    IF lower # None /\ lower = upper /\ flags # <<"[", "]">> THEN EmptyRange
    ELSE [lower |-> lower, upper |-> upper,
          bounds |-> <<IF lower = None THEN "(" ELSE flags[1],
                       IF upper = None THEN ")" ELSE flags[2]>>]

(* RangeAdapter.getquoted: a call of the constructor, which the server       *)
(* evaluates.                                                                *)
SentByName(r) ==
    IF IsEmpty(r) THEN EmptyRange ELSE ServerRange(r.lower, r.upper, r.bounds)

(* NumberRangeAdapter.getquoted: the text of the range, which the server     *)
(* reads.  The text of a number needs no quotes.                             *)
NumberText(r, naming) ==
    LET Bound(v) == IF v = None THEN <<>> ELSE naming[v]
    IN  IF IsEmpty(r) THEN EmptyText
        ELSE <<r.bounds[1]>> \o
             (Bound(r.lower) \o (<<",">> \o (Bound(r.upper) \o <<r.bounds[2]>>)))

SentAsNumber(r, naming) ==
    LET text == NumberText(r, naming)
        parts == ParsedRange(text)
    IN  IF text = EmptyText THEN EmptyRange
        ELSE ServerRange(Cast(naming, parts.lower), Cast(naming, parts.upper), parts.flags)

PrintedRangeOf(r, naming) ==
    IF IsEmpty(r) THEN EmptyText
    ELSE PrintedRange(TextOf(naming, r.lower), TextOf(naming, r.upper), r.bounds)

(* RangeCaster.parse                                                         *)
RangeRead(text, naming) ==
    LET parts == ParsedRange(text)
    IN  IF text = EmptyText THEN EmptyRange
        ELSE [lower |-> Cast(naming, parts.lower), upper |-> Cast(naming, parts.upper),
              bounds |-> parts.flags]

RangeBack(r, naming) == RangeRead(PrintedRangeOf(r, naming), naming)

RangeSets ==
    {{f[i] : i \in 1 .. MaxRead} : f \in [1 .. MaxRead -> {r \in Ranges : Valid(r)}]}

Fields == Texts \cup {None}

Rows == UNION {[1 .. n -> Fields] : n \in 1 .. MaxFields}

Hstores ==
    {<<>>} \cup UNION {[{f[i] : i \in 1 .. MaxFields} -> Fields] : f \in [1 .. MaxFields -> Texts]}

-----------------------------------------------------------------------------
(* The program sends values in one query and reads them back.  One range of  *)
(* a registered type, or some of a numeric type: those are registered when   *)
(* psycopg2 is imported.                                                     *)
RangesRead ==
    {[s \in {r} |-> RangeBack(SentByName(s), naming)] :
        r \in {s \in Ranges : Valid(s)}, naming \in Namings}

NumbersRead ==
    {[s \in S |-> RangeBack(SentAsNumber(s, naming), naming)] :
        S \in RangeSets, naming \in Numbers}

(* HstoreAdapter.getquoted gives the server the keys and the values.         *)
HstoresRead == {[d \in {dict} |-> ParsedHstore(PrintedHstore(d))] : dict \in Hstores}

RowsRead == {[r \in {row} |-> Tokens[Tail(PrintedRow(r))]] : row \in Rows}

Read ==
    /\ reading = "none" /\ server # "inerror"
    /\ \/ reading' = "number" /\ got' \in NumbersRead
       \/ reading' = "range" /\ "range" \in types /\ got' \in RangesRead
       \/ reading' = "hstore" /\ "hstore" \in types /\ got' \in HstoresRead
       \/ reading' = "row" /\ "row" \in types /\ got' \in RowsRead
    /\ Begun /\ UNCHANGED work
    /\ outcome' = "none"
    /\ UNCHANGED <<autocommit, types>>

Done ==
    /\ reading # "none"
    /\ reading' = "none" /\ got' = <<>>
    /\ UNCHANGED <<autocommit, session, types, outcome>>

Next == Execute \/ EndTransaction \/ Register \/ Read \/ Done

Spec == Init /\ [][Next]_vars

-----------------------------------------------------------------------------
(* The values read, next to what the server's semantics says.                *)
Points == {v + d : v \in Values, d \in {-1, 0, 1}}

Within(range, x) ==
    /\ range # EmptyRange
    /\ range.lower = None \/ range.lower < x \/ (range.lower = x /\ range.bounds[1] = "[")
    /\ range.upper = None \/ x < range.upper \/ (range.upper = x /\ range.bounds[2] = "]")

(* A range read back contains the points that the server's range contains,   *)
(* and so does the Range that was sent, whatever the texts of its bounds are *)
(* (Range.__contains__, getquoted, RangeCaster.parse).  It says that it is   *)
(* empty exactly when it contains nothing, and an inclusive bound is a point *)
(* of it (isempty, lower_inc, upper_inc).                                    *)
SamePoints ==
    reading \in {"range", "number"} =>
        \A r \in DOMAIN got :
            /\ \A x \in Points : /\ Holds(got[r], x) <=> Within(SentByName(r), x)
                                 /\ Holds(r, x) <=> Within(SentByName(r), x)
            /\ IsEmpty(got[r]) <=> \A x \in Points : ~ Holds(got[r], x)
            /\ LowerInc(got[r]) => Holds(got[r], got[r].lower)
            /\ UpperInc(got[r]) => Holds(got[r], got[r].upper)

(* The order of ranges is total and agrees with equality, for those of the   *)
(* program and those of the server together (Range.__lt__ and its kin).      *)
OrderConsistent ==
    reading \in {"range", "number"} =>
        LET known == DOMAIN got \cup {got[r] : r \in DOMAIN got}
        IN  /\ \A r \in known : ~ Less(r, r) /\ AtMost(r, r) /\ AtLeast(r, r)
            /\ \A r, s \in known :
                /\ r # s => (Less(r, s) <=> ~ Less(s, r))
                /\ AtMost(r, s) <=> ~ Greater(r, s)
            /\ \A r, s, t \in known : Less(r, s) /\ Less(s, t) => Less(r, t)

(* A row or an hstore is read as it was sent, whatever characters it has     *)
(* (CompositeCaster.tokenize, HstoreAdapter.parse).                          *)
ReadAsSent == reading \in {"row", "hstore"} => \A v \in DOMAIN got : got[v] = v

(* A registration that returns, or that finds no type, leaves the connection *)
(* in the transaction it was in, with its work, and opens none.              *)
StatusReverted ==
    [][outcome' \in {"registered", "missing"} => UNCHANGED session]_vars
=============================================================================
