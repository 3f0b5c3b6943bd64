---------------------------- MODULE YamlResolver ----------------------------
(***************************************************************************)
(* The tags of plain scalars (yaml/resolver.py) and what the constructors  *)
(* of scalars make of them (yaml/constructor.py).  The resolvers' first    *)
(* characters follow from their expressions.  Of the timestamps, those     *)
(* with a time of the day are left out; a float is its digits.             *)
(***************************************************************************)
EXTENDS Integers, Sequences, SequencesExt

Chars(string) == [n \in 1..Len(string) |-> SubSeq(string, n, n)]
Spellings(strings) == {Chars(string) : string \in strings}
Only(v, chars) == \A n \in DOMAIN v : v[n] \in chars
Rest(v, n) == SubSeq(v, n + 1, Len(v))
Starts(v, string) == Len(v) >= Len(string) /\ SubSeq(v, 1, Len(string)) = Chars(string)
Decimal == {"0", "1", "2", "3", "4", "5", "6", "7", "8", "9"}
HexDigit == Decimal \cup {"a", "b", "c", "d", "e", "f", "A", "B", "C", "D", "E", "F"}

Unsigned(v) == IF v # <<>> /\ v[1] \in {"-", "+"} THEN Tail(v) ELSE v

\* The parts of a value between separators.
Parts(v, separator) ==
  FoldLeft(LAMBDA parts, c : IF c = separator THEN Append(parts, <<>>)
                             ELSE Append(Front(parts), Append(Last(parts), c)), << <<>> >>, v)

\* ":[0-5]?[0-9]", as often as the value has it.
Sixties(parts) ==
  \A n \in 2..Len(parts) : /\ Len(parts[n]) \in {1, 2} /\ Only(parts[n], Decimal)
                           /\ Len(parts[n]) = 2 => parts[n][1] \in {"0", "1", "2", "3", "4", "5"}
Digits(v) == v # <<>> /\ v[1] \in Decimal /\ Only(v, Decimal \cup {"_"})

IntForm(v) ==
  LET u == Unsigned(v)
      parts == Parts(u, ":")
  IN u # <<>> /\
     \/ Starts(u, "0b") /\ Len(u) > 2 /\ Only(Rest(u, 2), {"0", "1", "_"})
     \/ u[1] = "0" /\ Len(u) > 1 /\ Only(Tail(u), {"0", "1", "2", "3", "4", "5", "6", "7", "_"})
     \/ u = <<"0">>
     \/ Starts(u, "0x") /\ Len(u) > 2 /\ Only(Rest(u, 2), HexDigit \cup {"_"})
     \/ u[1] # "0" /\ Digits(parts[1]) /\ Sixties(parts)

Exponent(v) == v = <<>> \/ /\ Len(v) > 2 /\ v[1] \in {"e", "E"} /\ v[2] \in {"-", "+"}
                                 /\ Only(Rest(v, 2), Decimal)

FloatForm(v) ==
  LET u == Unsigned(v)
      halves == Parts(u, ".")
      whole == Parts(halves[1], ":")
      Decimals(w) == \E n \in 0..Len(w) : Only(SubSeq(w, 1, n), Decimal \cup {"_"}) /\ Exponent(Rest(w, n))
  IN \/ /\ Len(halves) = 2 /\ Digits(whole[1])
        /\ IF Len(whole) = 1 THEN Decimals(halves[2])
           ELSE Sixties(whole) /\ Only(halves[2], Decimal \cup {"_"})
     \/ v = u /\ Len(halves) = 2 /\ halves[1] = <<>> /\ Decimals(halves[2])
        /\ halves[2] # <<>> /\ halves[2][1] \in Decimal \cup {"_"}
     \/ u \in Spellings({".inf", ".Inf", ".INF"}) \/ v \in Spellings({".nan", ".NaN", ".NAN"})

DateForm(v) == /\ Len(v) = 10 /\ v[5] = "-" /\ v[8] = "-"
               /\ \A n \in 1..10 \ {5, 8} : v[n] \in Decimal

True == Spellings({"yes", "Yes", "YES", "true", "True", "TRUE", "on", "On", "ON"})
False == Spellings({"no", "No", "NO", "false", "False", "FALSE", "off", "Off", "OFF"})

\* resolve, of a scalar that is plain.
Resolve(v) ==
  CASE v \in True \cup False -> "bool"
    [] FloatForm(v) -> "float"
    [] IntForm(v) -> "int"
    [] v = <<"<", "<">> -> "merge"
    [] v \in Spellings({"~", "null", "Null", "NULL", ""}) -> "null"
    [] DateForm(v) -> "timestamp"
    [] v = <<"=">> -> "value"
    [] OTHER -> "str"

-----------------------------------------------------------------------------
\* int() of digits in a base; it raises if there are none or others.
Raised == <<"raised">>
DigitValue(c) == CHOOSE n \in 0..15 :
  c \in {SubSeq("0123456789abcdef", n + 1, n + 1), SubSeq("0123456789ABCDEF", n + 1, n + 1)}
Read(digits, base) ==
  IF digits # <<>> /\ \A n \in DOMAIN digits : digits[n] \in HexDigit /\ DigitValue(digits[n]) < base
  THEN <<"int", FoldLeft(LAMBDA sum, c : sum * base + DigitValue(c), 0, digits)>> ELSE Raised

\* construct_yaml_int
ConstructInt(value) ==
  LET v == SelectSeq(value, LAMBDA c : c # "_")
      u == Unsigned(v)
      sign == IF v # <<>> /\ v[1] = "-" THEN -1 ELSE 1
      parts == Parts(u, ":")
      places == [n \in DOMAIN parts |-> Read(parts[n], 10)]
      number ==
        CASE u = <<>> -> Raised
          [] Starts(u, "0b") -> Read(Rest(u, 2), 2)
          [] Starts(u, "0x") -> Read(Rest(u, 2), 16)
          [] u # <<>> /\ u[1] = "0" /\ ~Starts(u, "0b") /\ ~Starts(u, "0x") -> Read(u, 8)
          [] OTHER -> IF \E n \in DOMAIN places : places[n] = Raised THEN Raised
                      ELSE <<"int", FoldLeft(LAMBDA sum, p : sum * 60 + p[2], 0, places)>>
  IN IF number = Raised THEN Raised ELSE <<"int", sign * number[2]>>

\* datetime.date raises for a day the calendar does not have.
ConstructDate(v) ==
  LET Number(i, j) == Read(SubSeq(v, i, j), 10)[2]
      year == Number(1, 4)
      leap == year % 4 = 0 /\ (year % 100 # 0 \/ year % 400 = 0)
      days == <<31, IF leap THEN 29 ELSE 28, 31, 30, 31, 30, 31, 31, 30, 31, 30, 31>>
  IN IF DateForm(v) /\ year > 0 /\ Number(6, 7) \in 1..12 /\ Number(9, 10) \in 1..days[Number(6, 7)]
     THEN <<"date", v>> ELSE Raised

\* float() raises if there is no digit before the exponent.
HasDigits(v) ==
  \/ v[Len(v)] \in {"f", "F", "n", "N"}
  \/ \E n \in DOMAIN v : v[n] \in Decimal /\ \A m \in 1..n : v[m] \notin {"e", "E"}

\* The constructor of a tag; bool_values has the words in lower case.
ConstructScalar(tag, v) ==
  CASE tag = "str" -> <<"str", v>>
    [] tag = "null" -> <<"null">>
    [] tag = "bool" -> IF v \in True \cup False THEN <<"bool", v \in True>> ELSE Raised
    [] tag = "int" -> ConstructInt(v)
    [] tag = "float" -> IF FloatForm(v) /\ HasDigits(v) THEN <<"float", SelectSeq(v, LAMBDA c : c # "_")>> ELSE Raised
    [] tag = "timestamp" -> ConstructDate(v)
    [] OTHER -> Raised
=============================================================================
