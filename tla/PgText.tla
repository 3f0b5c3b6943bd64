------------------------------- MODULE PgText -------------------------------
(* The text in which the server sends ranges, rows and hstores, and how      *)
(* psycopg2 takes it apart with regular expressions (_range.py, extras.py).  *)
(* A text is a sequence of characters; a regular expression is tried at its  *)
(* beginning and leaves the rest.  What the server prints is external; the   *)
(* parsers are defined on every text that it prints.                         *)
EXTENDS PgRange, Sequences, SequencesExt, FiniteSetsExt

CONSTANT Char   \* characters of a text

Text == Seq(Char)
Field == Text \cup {None}   \* None is NULL

Quote == "\""
Backslash == "\\"
Special == {Quote, Backslash}
Delimiter == {"(", ")", "[", "]", ",", " "}

At(s, i) == IF i \in 1 .. Len(s) THEN s[i] ELSE ""
Behind(s, i) == SubSeq(s, i + 1, Len(s))

-----------------------------------------------------------------------------
(* The server: a bound or a field is quoted when it is empty or has a        *)
(* special character or a delimiter, with each special character twice.      *)
Doubled[s \in Text] ==
    IF s = <<>> THEN <<>>
    ELSE (IF Head(s) \in Special THEN <<Head(s), Head(s)>> ELSE <<Head(s)>>) \o Doubled[Tail(s)]

Printed(text) ==
    IF text = None THEN <<>>
    ELSE IF text = <<>> \/ \E i \in 1 .. Len(text) : text[i] \in Special \cup Delimiter
         THEN <<Quote>> \o (Doubled[text] \o <<Quote>>)
         ELSE text

PrintedRange(lower, upper, flags) ==
    <<flags[1]>> \o (Printed(lower) \o (<<",">> \o (Printed(upper) \o <<flags[2]>>)))

PrintedFields[row \in Seq(Field)] ==
    IF row = <<>> THEN <<>>
    ELSE Printed(Head(row)) \o
         (<<IF Len(row) = 1 THEN ")" ELSE ",">> \o PrintedFields[Tail(row)])

PrintedRow(row) == <<"(">> \o PrintedFields[row]

(* An hstore escapes with a backslash, and quotes every key and value.       *)
Escaped[s \in Text] ==
    IF s = <<>> THEN <<>>
    ELSE (IF Head(s) \in Special THEN <<Backslash, Head(s)>> ELSE <<Head(s)>>) \o Escaped[Tail(s)]

PrintedValue(value) ==
    IF value = None THEN <<"N", "U", "L", "L">> ELSE <<Quote>> \o (Escaped[value] \o <<Quote>>)

PrintedPairs[pairs \in Seq(Text \X Field)] ==
    IF pairs = <<>> THEN <<>>
    ELSE <<Quote>> \o (Escaped[Head(pairs)[1]] \o
         (<<Quote, "=", ">">> \o (PrintedValue(Head(pairs)[2]) \o
         ((IF Len(pairs) = 1 THEN <<>> ELSE <<",", " ">>) \o PrintedPairs[Tail(pairs)]))))

PrintedHstore(dict) ==
    LET keys == SetToSeq(DOMAIN dict)
    IN  PrintedPairs[[i \in 1 .. Len(keys) |-> <<keys[i], dict[keys[i]]>>]]

-----------------------------------------------------------------------------
(* _re_undouble: of two equal special characters one stays.                  *)
Undouble[s \in Text] ==
    IF s = <<>> THEN <<>>
    ELSE <<Head(s)>> \o
         (IF Head(s) \in Special /\ At(s, 2) = Head(s) THEN Undouble[Behind(s, 2)]
                                                       ELSE Undouble[Tail(s)])

(* _bsdec: a backslash stands for the character after it.                    *)
Unescape[s \in Text] ==
    IF s = <<>> THEN <<>>
    ELSE IF Head(s) = Backslash /\ Len(s) > 1 THEN <<s[2]>> \o Unescape[Behind(s, 2)]
    ELSE <<Head(s)>> \o Unescape[Tail(s)]

(* How many characters (?: [^"] | "")* has, in the text behind a quote.      *)
Quoted[s \in Text] ==
    IF s = <<>> \/ (Head(s) = Quote /\ At(s, 2) # Quote) THEN 0
    ELSE IF Head(s) = Quote THEN 2 + Quoted[Behind(s, 2)]
    ELSE 1 + Quoted[Tail(s)]

(* How many characters (?: [^"\\] | \\. )* has.                              *)
InEscapes[s \in Text] ==
    IF s = <<>> \/ Head(s) = Quote THEN 0
    ELSE IF Head(s) = Backslash /\ Len(s) > 1 THEN 2 + InEscapes[Behind(s, 2)]
    ELSE 1 + InEscapes[Tail(s)]

(* How many characters come before one of S.                                 *)
Before(s, S) == Min({j \in 1 .. Len(s) : s[j] \in S} \cup {Len(s) + 1}) - 1

NoMatch == [ok |-> FALSE]

Unquoted(text) == Undouble[text]

(* One bound or field, up to one of the characters in `stops': a quoted      *)
(* string, a text that is not quoted, or nothing, which is None.             *)
Part(s, stops) ==
    IF At(s, 1) = Quote
    THEN LET n == Quoted[Tail(s)]
         IN  IF At(s, n + 3) \in stops
             THEN [ok |-> TRUE, text |-> Unquoted(SubSeq(s, 2, n + 1)), stop |-> n + 3]
             ELSE NoMatch
    ELSE LET n == Before(s, stops \cup {Quote})
         IN  IF At(s, n + 1) \in stops
             THEN [ok |-> TRUE, text |-> IF n = 0 THEN None ELSE SubSeq(s, 1, n), stop |-> n + 1]
             ELSE NoMatch

(* RangeCaster.parse, before the bounds are cast.                            *)
ParsedRange(s) ==
    LET lower == Part(Tail(s), {","})
        rest == Behind(Tail(s), lower.stop)
        upper == Part(rest, {")", "]"})
    IN  IF At(s, 1) \in {"(", "["} /\ lower.ok /\ upper.ok
        THEN [ok |-> TRUE, lower |-> lower.text, upper |-> upper.text,
              flags |-> <<s[1], rest[upper.stop]>>]
        ELSE NoMatch

(* CompositeCaster.tokenize, behind the first parenthesis: one field after   *)
(* another.                                                                  *)
Tokens[s \in Text] ==
    LET field == Part(s, {",", ")"})
    IN  IF s = <<>> \/ ~ field.ok THEN <<>>
        ELSE <<field.text>> \o Tokens[Behind(s, field.stop)]

(* \s*                                                                       *)
Stripped[s \in Text] == IF s # <<>> /\ Head(s) = " " THEN Stripped[Tail(s)] ELSE s

(* _re_hstore: the pairs, in the order of the text.                          *)
Pairs[s \in Text] ==
    IF s = <<>> THEN <<>>
    ELSE LET key == InEscapes[Tail(s)]
             text == Stripped[Behind(Stripped[Behind(s, key + 2)], 2)]
             null == At(text, 1) = "N"
             value == IF null THEN 2 ELSE InEscapes[Behind(text, 1)]
             rest == Stripped[Behind(text, value + 2)]
         IN  << <<Unescape[SubSeq(s, 2, key + 1)],
                  IF null THEN None ELSE Unescape[SubSeq(text, 2, value + 1)]>> >>
             \o Pairs[IF At(rest, 1) = "," THEN Stripped[Behind(rest, 1)] ELSE rest]

(* What a bug would do: the value that is not there is read as an empty one. *)
ParsedWithoutNulls(s) ==
    LET pairs == Pairs[s]
    IN  [key \in {p[1] : p \in ToSet(pairs)} |->
            LET value == pairs[Max({i \in 1 .. Len(pairs) : pairs[i][1] = key})][2]
            IN  IF value = None THEN <<>> ELSE value]

(* HstoreAdapter.parse: the last value of a key stays.                       *)
ParsedHstore(s) ==
    LET pairs == Pairs[s]
    IN  [key \in {p[1] : p \in ToSet(pairs)} |->
            pairs[Max({i \in 1 .. Len(pairs) : pairs[i][1] = key})][2]]
=============================================================================
