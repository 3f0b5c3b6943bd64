------------------------------- MODULE MCYaml -------------------------------
(***************************************************************************)
(* The documents for TLC: all values of a bounded size in all styles, all  *)
(* texts made of a few pieces, and some texts with features of their own.  *)
(***************************************************************************)
EXTENDS YamlCorrectness, FiniteSetsExt

CONSTANTS Pieces, MaxPieces

W == INSTANCE YamlWriter

\* Characters by their code: "A" and, for all the others, "e".
MCChr(digits) == IF digits = <<"4", "1">> THEN <<"A">> ELSE <<"e">>

Text(string) == [n \in 1..Len(string) |->
  LET c == SubSeq(string, n, n) IN IF c = "\n" THEN "LF" ELSE IF c = "\t" THEN "TAB" ELSE c]
Closed(string) == Append(Text(string), "NUL")

-----------------------------------------------------------------------------
S(string) == <<"str", <<Text(string)>> >>
N(number) == <<"int", number>>
Scalars == {S("a"), <<"str", <<Text("a b"), Text("c")>> >>, N(-75), N(3723), <<"word", Text("yes"), <<"bool", TRUE>> >>,
            <<"word", Text("~"), <<"null">> >>, <<"word", Text("2004-02-29"), <<"date", Text("2004-02-29")>> >>}
Simple == {S("a"), N(0)}
Pair(k, v) == <<S(k), v>>
Map(pairs) == <<"map", pairs>>
Seq_(values) == <<"seq", values>>

Small == Simple \cup {Seq_(v) : v \in BoundedSeq(Simple, 1)} \cup {Map(<<>>), Map(<<Pair("k", N(0))>>)}
Values ==
  Scalars \cup {Seq_(v) : v \in BoundedSeq(Small, 2)}
  \cup {Map(<<Pair("k", v)>>) : v \in Scalars \cup Small}
  \cup {Map(<<Pair("k", v), Pair(k, w)>>) : k \in {"k", "l"}, v \in Small, w \in Small}
  \cup {Seq_(<<Seq_(<<v, v>>), Map(<<Pair("k", Seq_(<<v>>)), Pair("l", w)>>)>>) : v \in Small, w \in Simple}
  \cup {<<"merge", m, p>> :
          m \in {<<Map(<<Pair("k", N(1))>>)>>,
                 <<Map(<<Pair("k", N(1)), Pair("l", N(2))>>), Map(<<Pair("k", N(3)), Pair("m", N(4))>>)>>,
                 << <<"merge", <<Map(<<Pair("k", N(1)), Pair("l", N(5))>>)>>, <<Pair("m", N(2))>> >>,
                    Map(<<Pair("l", N(6))>>)>>},
          p \in {<<>>, <<Pair("k", N(7))>>, <<Pair("m", N(8)), Pair("m", N(9))>>}}

Styles == [flow : BOOLEAN, explicit : BOOLEAN, terse : BOOLEAN, alias : BOOLEAN,
           string : {"plain", "single", "double", "literal", "folded"}, base : {10},
           head : {<<>>}, foot : {<<"LF">>}]
PlainStyle == [flow |-> FALSE, explicit |-> FALSE, terse |-> FALSE, alias |-> FALSE, string |-> "plain",
               base |-> 10, head |-> <<>>, foot |-> <<>>]

WrittenAs(v, s) == [text |-> W!Document(v, s), value |-> W!Meaning(v)]

WrittenTexts ==
  {WrittenAs(v, s) : v \in Values, s \in {s \in Styles : s.flow => s.string \notin {"literal", "folded"}}}
  \cup {WrittenAs(v, [PlainStyle EXCEPT !.base = b, !.flow = f, !.head = Text(h), !.foot = Text(t)]) :
          v \in {N(n) : n \in {-75, 0, 7, 3723}} \cup {Seq_(<<N(-9), N(8000)>>), Map(<<Pair("k", N(64))>>)},
          b \in {2, 8, 16, 60}, f \in BOOLEAN,
          h \in {"", "---\n", "%YAML 1.1\n%TAG !x! y\n%OTHER z\n--- # c\n"}, t \in {"", " # c\n", "\n...\n"}}

\* Features that WrittenTexts has no style for; those of value None raise or
\* contain themselves.
Str(string) == <<"str", Text(string)>>
Examples == {
  <<"!!str 1", Str("1")>>, <<"! 1", <<"int", 1>> >>, <<"!!int '7'", <<"int", 7>> >>, <<"!<s> 1", None>>,
  <<"%TAG !y! s\n--- !y!tr 1", None>>, <<"%TAG !! s\n--- !!t a", None>>, <<"!!int", None>>,
  <<"!!set {a, ? b}", <<"map", {<<Str("a"), <<"null">> >>, <<Str("b"), <<"null">> >>}>> >>,
  <<"!!omap [a: 1]", <<"seq", << <<Str("a"), <<"int", 1>> >> >> >> >>, <<"!!pairs\n- a: 1\n", <<"seq", << <<Str("a"), <<"int", 1>> >> >> >> >>,
  <<"!!str {=: a}", Str("a")>>, <<"\"a\\x41\\\n  b\"", Str("aAb")>>, <<"!!str %41", None>>, <<"!%73tr a", None>>,
  <<">2+\n   a\n  b\n\n", <<"str", <<" ", "a", "LF", "b", "LF", "LF">> >> >>, <<"|\n  a\n   b\n\n", <<"str", <<"a", "LF", " ", "b", "LF">> >> >>,
  <<"--- a\n...\n...", Str("a")>>, <<"...\na", None>>, <<"# c\n", None>>, <<"a: b\nc\nd: e", None>>, <<"&a [*a, *b]", None>>, <<"&a [*a]", None>>,
  <<"- &a a\n- &a b", None>>, <<"a\n---\nb", None>>, <<"%YAML 2.0\n--- a", None>>, <<"%YAML 1.1\n%YAML 1.1\n---", None>>,
  <<"%TAG ! a\n%TAG ! b\n---", None>>, <<"!q!x a", None>>, <<"2001-02-29", None>>, <<"0x_", None>>, <<"._", None>>,
  <<"abcdefghijklmnopqrstuvwx: a", <<"map", {<<Str("abcdefghijklmnopqrstuvwx"), Str("a")>>}>> >>,
  <<"abcdefghijklmnopqrstuvwxy: a", None>>, <<"? [a]\n: b", None>>, <<"[a: b, ? c : d, ? , : e]", None>>, <<"{a, ? b, : c}", None>>}
ExampleTexts == {[text |-> Closed(e[1]), value |-> e[2]] : e \in Examples}

AnyTexts == {[text |-> FlattenSeq([n \in DOMAIN p |-> Text(p[n])]) \o <<"NUL">>, value |-> None] :
              p \in BoundedSeq(Pieces, MaxPieces)}

MCPieces == {"a", "- ", "? ", ": ", ":", "[", "]", "{", "}", ",", "&a ", "*a", "!!set ", "!a", "\n", "\n ", "'",
             "\"", "|", ">", "#", "<<", "=", "\n---", "...", "%T\n", " ", "\t"}
MCDocuments == AnyTexts \cup WrittenTexts \cup ExampleTexts
=============================================================================
