----------------------------- MODULE YamlScalar -----------------------------
(***************************************************************************)
(* How scanner.py reads plain, quoted and block scalars: where one ends    *)
(* and what its lines are folded to.  The functions below are those on the *)
(* positions of the text; Stop(value, next) is their result at the end.    *)
(***************************************************************************)
EXTENDS YamlText

\* What is read at a position, put before what is read from the next one.
Join(value, rest) == IF rest.next = Bad THEN Failed ELSE [rest EXCEPT !.value = value \o @]

\* Mutant: a space also where empty lines follow.
FoldToSpace(break, others) == IF break # <<"LF">> THEN break \o others ELSE <<" ">> \o others

\* A break is folded to a space unless others follow or it is a special one.
Fold(break, others) == IF break # <<"LF">> THEN break \o others
                       ELSE IF others = <<>> THEN <<" ">> ELSE others

-----------------------------------------------------------------------------
\* scan_plain_spaces: the spaces up to w after a word, and the breaks that
\* follow, the first one up to b.
SpacesTo(i, w, b) ==
  LET j == Skip(b, Break \cup {" "})
      marker == Separator(b) \/ (At(j - 1) \in Break /\ Separator(j))
  IN CASE At(w) \notin Break -> Scanned(Slice(i, w), w)
       [] At(w) \in Break /\ marker -> Scanned(<<>>, IF Separator(b) THEN b ELSE j)
       [] OTHER -> Scanned(Fold(BreakValue(w), Breaks(b, j)), j)
PlainSpaces(i) == LET w == Skip(i, {" "}) IN SpacesTo(i, w, BreakEnd(w))

\* scan_plain: word after word, each from p to e.  allow tells whether a line
\* has ended since the last word.
EndsWord(j, flow) ==
  \/ At(j) \in BlankZ
  \/ flow = 0 /\ At(j) = ":" /\ At(j + 1) \in BlankZ
  \/ flow # 0 /\ At(j) \in {",", ":", "?", "[", "]", "{", "}"}
WordEnd(p, flow) == CHOOSE j \in p..Len(text) : EndsWord(j, flow) /\ \A k \in p..(j - 1) : ~EndsWord(k, flow)

Following(word, spaces, allow, rest) ==
  CASE rest.next = Bad -> Failed
    [] rest.next # Bad /\ rest.words = 0 ->
         [value |-> word, next |-> rest.next, words |-> 1, allow |-> allow]
    [] OTHER -> Join(word \o spaces.value, rest)

Word(word, e, spaces, flow, indent, rest) ==
  LET allow == \E k \in e..(spaces.next - 1) : At(k) \in Break
      last == \/ spaces.value = <<>> \/ At(spaces.next) = "#"
              \/ flow = 0 /\ Column(spaces.next) < indent
  IN IF last THEN [value |-> word, next |-> spaces.next, words |-> 1, allow |-> allow]
     ELSE Following(word, spaces, allow, rest)

Words(i, flow, indent) ==
  LET From[p \in Pos] ==
        LET e == WordEnd(p, flow)
            spaces == PlainSpaces(e)
            colon == /\ At(p) # "#" /\ flow # 0 /\ At(e) = ":"
                     /\ At(e + 1) \notin BlankZ \cup {",", "[", "]", "{", "}"}
        IN
        CASE colon -> Failed
          [] ~colon /\ (e = p \/ At(p) = "#") -> [value |-> <<>>, next |-> p, words |-> 0, allow |-> FALSE]
          [] OTHER -> Word(Slice(p, e), e, spaces, flow, indent, From[spaces.next])
  IN From[i]

ScanPlain(i, flow, indent) == Words(i, flow, indent)

-----------------------------------------------------------------------------
Replacement ==
  [c \in {"0", "a", "b", "t", "TAB", "n", "v", "f", "r", "e", " ", "\"", "\\", "N", "_", "L", "P"} |->
    CASE c = "0" -> "NUL" [] c = "a" -> "BEL" [] c = "b" -> "BS" [] c = "t" -> "TAB" [] c = "n" -> "LF"
      [] c = "v" -> "VT" [] c = "f" -> "FF" [] c = "r" -> "CR" [] c = "e" -> "ESC" [] c = "N" -> "NEL"
      [] c = "_" -> "NBSP" [] c = "L" -> "LS" [] c = "P" -> "PS" [] OTHER -> c]
CodeLength == [x |-> 2, u |-> 4, U |-> 8]

\* scan_flow_scalar_breaks: the lines after a break, none of which may be a
\* document separator.
QuotedBreaks(i) ==
  LET j == Skip(i, Break \cup {" ", "TAB"}) IN
  IF \E k \in i..j : (k = i \/ EndsLine(k - 1)) /\ Separator(k) THEN Failed
  ELSE Scanned(Breaks(i, j), j)

\* scan_flow_scalar: character after character up to the closing quote.
ScanQuoted(i) ==
  LET quote == At(i)
      double == quote = "\""
      Chars[p \in Pos] ==
        LET w == Skip(p, {" ", "TAB"})
            lines == QuotedBreaks(BreakEnd(w))
            escaped == At(p + 1)
            continued == QuotedBreaks(BreakEnd(p + 1))
            code == Prefix(p + 2, CodeLength[escaped])
        IN
        CASE At(p) = "NUL" -> Failed
          [] ~double /\ At(p) = "'" /\ At(p + 1) = "'" -> Join(<<"'">>, Chars[p + 2])
          [] At(p) = quote /\ (double \/ At(p + 1) # "'") -> Scanned(<<>>, p + 1)
          [] double /\ At(p) = "\\" ->
               CASE escaped \in DOMAIN Replacement -> Join(<<Replacement[escaped]>>, Chars[p + 2])
                 [] escaped \in DOMAIN CodeLength ->
                      IF \A k \in DOMAIN code : code[k] \in Hex
                      THEN Join(Chr(code), Chars[p + 2 + Len(code)]) ELSE Failed
                 [] escaped \in Break ->
                      IF continued.next = Bad THEN Failed
                      ELSE Join(continued.value, Chars[continued.next])
                 [] OTHER -> Failed
          [] At(p) \in Break \cup {" ", "TAB"} ->
               CASE At(w) = "NUL" -> Failed
                 [] At(w) \in Break ->
                      IF lines.next = Bad THEN Failed
                      ELSE Join(Fold(BreakValue(w), lines.value), Chars[lines.next])
                 [] OTHER -> Join(Slice(p, w), Chars[w])
          [] OTHER -> Join(<<At(p)>>, Chars[p + 1])
  IN Chars[i + 1]

-----------------------------------------------------------------------------
\* scan_block_scalar_indicators: chomping and increment in either order.
Header(i, folded) ==
  LET Sign(c) == c \in {"+", "-"}
      signs == {k \in i..(i + 1) : Sign(At(k)) /\ (k = i \/ At(i) \in Digit)}
      digits == {k \in i..(i + 1) : At(k) \in Digit /\ (k = i \/ Sign(At(i)))}
      end == i + Cardinality(signs) + Cardinality(digits)
  IN
  [folded |-> folded,
   chomp |-> IF signs = {} THEN " " ELSE At(CHOOSE k \in signs : TRUE),
   increment |-> IF digits = {} THEN 0
                 ELSE CHOOSE n \in 0..9 : ToString(n) = At(CHOOSE k \in digits : TRUE),
   next |-> IF At(end) \notin SpaceZ \/ \E k \in digits : At(k) = "0" THEN Bad
            ELSE IgnoredLine(end)]

\* The column of the lines: the header's, or that of the deepest line before
\* the first text, and deeper than the block around them.
Inner(header, indent, blank) ==
  LET least == IF indent + 1 < 1 THEN 1 ELSE indent + 1
      columns == {Column(k) : k \in {k \in (header.next + 1)..blank : At(k - 1) = " "}} \cup {least}
  IN IF header.increment # 0 THEN least + header.increment - 1
     ELSE CHOOSE c \in columns : \A d \in columns : d <= c

\* scan_block_scalar_breaks
InMargin(k, inner) == At(k) = " " /\ ~(Column(k) >= inner)
Margin(p, inner) == CHOOSE j \in p..Len(text) : ~InMargin(j, inner) /\ \A k \in p..(j - 1) : InMargin(k, inner)
Empties(i, inner) ==
  LET From[p \in Pos] ==
        LET j == Margin(p, inner) IN IF At(j) \in Break THEN From[BreakEnd(j)] ELSE j
  IN From[i]

InBlock(p, inner) == Column(p) = inner /\ At(p) # "NUL"
Chomped(chomp, break, others) ==
  (IF chomp = "-" THEN <<>> ELSE break) \o (IF chomp = "+" THEN others ELSE <<>>)

\* The line from first on, and the others.
BlockLines(first, h, inner) ==
  LET From[p \in Pos] ==
        LET e == Until(p, BreakZ)
            j == Empties(BreakEnd(e), inner)
            break == BreakValue(e)
            others == Breaks(BreakEnd(e), j)
            fold == h.folded /\ break = <<"LF">> /\ {At(p), At(j)} \cap {" ", "TAB"} = {}
        IN IF InBlock(j, inner)
           THEN Join(Slice(p, e) \o (IF fold THEN Fold(break, others) ELSE break \o others), From[j])
           ELSE Scanned(Slice(p, e) \o Chomped(h.chomp, break, others), j)
  IN From[first]

\* scan_block_scalar: the lines indented like the first one, or as the header
\* says.
BlockText(first, breaks, h, inner) ==
  IF InBlock(first, inner) THEN Join(breaks, BlockLines(first, h, inner))
  ELSE Scanned(Chomped(h.chomp, <<>>, breaks), first)

BlockBody(h, inner) ==
  LET first == IF h.increment = 0 THEN Skip(h.next, Break \cup {" "}) ELSE Empties(h.next, inner)
  IN BlockText(first, Breaks(h.next, first), h, inner)

BlockScalar(h, indent) ==
  IF h.next = Bad THEN Failed
  ELSE BlockBody(h, Inner(h, indent, Skip(h.next, Break \cup {" "})))
ScanBlock(i, indent) == BlockScalar(Header(i + 1, At(i) = ">"), indent)
=============================================================================
