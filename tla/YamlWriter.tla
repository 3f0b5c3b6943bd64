----------------------------- MODULE YamlWriter -----------------------------
(***************************************************************************)
(* A writer of YAML 1.1: what a value looks like in each of the styles that*)
(* the format has.  It is the reference that yaml.load is checked against  *)
(* and does not follow any code.  Values are <<"str", lines>>,             *)
(* <<"int", n>>, <<"word", text, what it stands for>>, <<"seq", values>>,  *)
(* <<"map", sequence of pairs>> and <<"merge", mappings, sequence of       *)
(* pairs>>, a mapping that takes the rest of its keys from others.         *)
(***************************************************************************)
EXTENDS Integers, Sequences, SequencesExt

Chars_(string) == [n \in 1..Len(string) |-> SubSeq(string, n, n)]
NewLine(column) == <<"LF">> \o [n \in 1..column |-> " "]
Joined(parts, separator) ==
  FoldLeft(LAMBDA all, n : (IF n = 1 THEN <<>> ELSE all \o separator) \o parts[n], <<>>,
           [n \in DOMAIN parts |-> n])

Glyph(d) == LET place == d + 1 IN <<SubSeq("0123456789abcdef", place, place)>>

RECURSIVE Numeral(_, _)
Numeral(n, base) ==
  LET d == n % base IN
  (IF n < base THEN <<>> ELSE Numeral(n \div base, base))
  \o CASE base # 60 -> Glyph(d)
       [] base = 60 /\ n < 60 -> Numeral(n, 10)
       [] base = 60 /\ n >= 60 -> <<":">> \o Glyph(d \div 10) \o Glyph(d % 10)
Mark == [b \in {2, 8, 10, 16, 60} |->
  CASE b = 2 -> Chars_("0b") [] b = 8 -> <<"0">> [] b = 16 -> Chars_("0x") [] OTHER -> <<>>]
Written(n, base) ==
  LET size == IF n < 0 THEN -n ELSE n
      b == IF base = 60 /\ size < 60 THEN 10 ELSE base
  IN (IF n < 0 THEN <<"-">> ELSE <<>>) \o Mark[b] \o Numeral(size, b)

-----------------------------------------------------------------------------
(***************************************************************************)
(* A style says: flow or block collections, explicit keys or simple ones,  *)
(* terse (sequences in mappings not indented, pairs in flow sequences      *)
(* without braces), repeated items as aliases, how strings are written, and*)
(* the base of numbers (in flow collections PyYAML takes no colons in plain*)
(* scalars).  Lines of a scalar are indented deeper than column.           *)
(***************************************************************************)
Str(lines, string, column) ==
  LET line == NewLine(column + 1) IN
  CASE string = "plain" -> Joined(lines, <<"LF">> \o line)
    [] string = "single" -> <<"'">> \o Joined(lines, <<"LF">> \o line) \o <<"'">>
    [] string = "double" -> <<"\"">> \o Joined(lines, <<"\\", "n">>) \o <<"\"">>
    [] string = "literal" -> <<"|", "-">> \o line \o Joined(lines, line)
    [] string = "folded" -> <<">", "-">> \o line \o Joined(lines, <<"LF">> \o line)

Simple(s) == IF s.string \in {"literal", "folded"} THEN [s EXCEPT !.string = "plain"] ELSE s
InFlow(s) == [Simple(s) EXCEPT !.flow = TRUE]
Collection_(v) == v[1] \in {"seq", "map", "merge"}
Pairs(v) == IF v[1] = "map" THEN v[2]
            ELSE << << <<"word", <<"<", "<">>, <<>> >>,
                       IF Len(v[2]) = 1 THEN v[2][1] ELSE <<"seq", v[2]>> >> >> \o v[3]

\* A node that begins at a column of a line.
RECURSIVE Node_(_, _, _)

Entry(p, s, column) ==
  LET key == Node_(p[1], IF s.explicit THEN s ELSE Simple(s), column + 2)
      indent == IF s.terse /\ p[2][1] = "seq" THEN column ELSE column + 2
      inner == IF Collection_(p[2]) /\ ~s.flow /\ p[2][2] # <<>> THEN NewLine(indent) ELSE <<" ">>
  IN IF s.explicit
     THEN <<"?", " ">> \o key \o (IF s.flow THEN <<" ", ":", " ">> ELSE NewLine(column) \o <<":", " ">>)
          \o Node_(p[2], s, column + 2)
     ELSE key \o <<":">> \o inner \o Node_(p[2], s, IF inner = <<" ">> THEN column ELSE indent)

Item_(items, n, s, column) ==
  LET v == items[n]
      repeated == s.alias /\ \E m \in DOMAIN items : m # n /\ items[m] = v
      anchor == <<"&", "x">> \o IF Collection_(v) /\ ~s.flow THEN NewLine(column) ELSE <<" ">>
  IN IF repeated /\ \E m \in 1..(n - 1) : items[m] = v THEN <<"*", "x">>
     ELSE (IF repeated THEN anchor ELSE <<>>)
          \o IF s.flow /\ s.terse /\ ~repeated /\ v[1] = "map" /\ Len(v[2]) = 1
             THEN Entry(v[2][1], s, column) ELSE Node_(v, s, column)

Node_(v, s, column) ==
  LET pairs == Pairs(v)
      inner == IF s.flow THEN InFlow(s) ELSE s
      items == IF v[1] = "seq" THEN [n \in DOMAIN v[2] |-> Item_(v[2], n, inner, column + 2)]
               ELSE [n \in DOMAIN pairs |-> Entry(pairs[n], inner, column)]
  IN
  CASE v[1] = "str" -> Str(v[2], s.string, column)
    [] v[1] = "int" -> Written(v[2], IF s.flow /\ s.base = 60 THEN 10 ELSE s.base)
    [] v[1] = "word" -> v[2]
    [] v[1] = "seq" ->
         IF s.flow \/ v[2] = <<>> THEN <<"[">> \o Joined(items, <<",", " ">>) \o <<"]">>
         ELSE <<"-", " ">> \o Joined(items, NewLine(column) \o <<"-", " ">>)
    [] v[1] \in {"map", "merge"} ->
         IF s.flow \/ pairs = <<>> THEN <<"{">> \o Joined(items, <<",", " ">>) \o <<"}">>
         ELSE Joined(items, NewLine(column))

\* A document, and what it stands for.
Document(v, s) == s.head \o Node_(v, s, 0) \o s.foot \o <<"NUL">>

RECURSIVE Meaning(_)
Meaning(v) ==
  LET LastOf(pairs, k) == CHOOSE n \in DOMAIN pairs :
        /\ Meaning(pairs[n][1]) = k
        /\ \A m \in (n + 1)..Len(pairs) : Meaning(pairs[m][1]) # k
      KeysOf(pairs) == {Meaning(pairs[n][1]) : n \in DOMAIN pairs}
      own == IF v[1] = "map" THEN v[2] ELSE v[3]
      ownPairs == {<<k, Meaning(own[LastOf(own, k)][2])>> : k \in KeysOf(own)}
      others == [n \in DOMAIN v[2] |-> Meaning(v[2][n])[2]]
      inherited == {p \in UNION {others[n] : n \in DOMAIN others} :
        /\ p[1] \notin KeysOf(own)
        /\ \E n \in DOMAIN others : p \in others[n] /\ \A m \in 1..(n - 1) : \A q \in others[m] : q[1] # p[1]}
  IN
  CASE v[1] = "str" -> <<"str", Joined(v[2], <<"LF">>)>>
    [] v[1] = "int" -> v
    [] v[1] = "word" -> v[3]
    [] v[1] = "seq" -> <<"seq", [n \in DOMAIN v[2] |-> Meaning(v[2][n])]>>
    [] v[1] = "map" -> <<"map", ownPairs>>
    [] v[1] = "merge" -> <<"map", ownPairs \cup inherited>>
=============================================================================
