------------------------------ MODULE YamlText ------------------------------
(***************************************************************************)
(* The characters of a YAML text as PyYAML's reader hands them to the      *)
(* scanner (yaml/reader.py, peek, prefix and forward), and the parts of    *)
(* scanner.py that only read characters.  A character is a string of one   *)
(* character or one of the names below; a position is the reader's index,  *)
(* from which line and column follow.                                      *)
(***************************************************************************)
EXTENDS Integers, Sequences, FiniteSets, TLC

VARIABLE text      \* the characters of the stream, closed by NUL

CONSTANT Chr(_)    \* the character with the code that hexadecimal digits give, or <<>>

Break == {"CR", "LF", "NEL", "LS", "PS"}
BreakZ == Break \cup {"NUL"}
SpaceZ == BreakZ \cup {" "}
BlankZ == SpaceZ \cup {"TAB"}
Digit == {"0", "1", "2", "3", "4", "5", "6", "7", "8", "9"}
Hex == Digit \cup {"a", "b", "c", "d", "e", "f", "A", "B", "C", "D", "E", "F"}
WordChar == Hex \cup {"-", "_",
  "g", "h", "i", "j", "k", "l", "m", "n", "o", "p", "q", "r", "s", "t", "u", "v", "w", "x",
  "y", "z", "G", "H", "I", "J", "K", "L", "M", "N", "O", "P", "Q", "R", "S", "T", "U", "V",
  "W", "X", "Y", "Z"}
UriChar == WordChar \cup {";", "/", "?", ":", "@", "&", "=", "+", "$", ",", ".", "!", "~",
  "*", "'", "(", ")", "[", "]", "%"}

At(i) == IF i < Len(text) THEN text[i + 1] ELSE "NUL"
Slice(i, j) == SubSeq(text, i + 1, j)
Prefix(i, length) == [k \in 1..length |-> At(i + k - 1)]
Pos == 0..Len(text)

\* The first position from i on whose character is not, or is, in a set.
Skip(i, chars) == CHOOSE j \in i..Len(text) :
  At(j) \notin chars /\ \A k \in i..(j - 1) : At(k) \in chars
Until(i, chars) == CHOOSE j \in i..Len(text) :
  At(j) \in chars /\ \A k \in i..(j - 1) : At(k) \notin chars

EndsLine(k) == At(k) \in Break /\ ~(At(k) = "CR" /\ At(k + 1) = "LF")
LineStart(i) == LET ends == {k \in 0..(i - 1) : EndsLine(k)} IN
  IF ends = {} THEN 0 ELSE 1 + CHOOSE k \in ends : \A l \in ends : l <= k
Column(i) == Cardinality({k \in LineStart(i)..(i - 1) : At(k) # "BOM"})

\* scan_line_break: the position behind the break at i, and what it becomes.
BreakEnd(i) ==
  CASE At(i) = "CR" /\ At(i + 1) = "LF" -> i + 2
    [] EndsLine(i) -> i + 1
    [] OTHER -> i
BreakValue(i) == CASE At(i) \in {"LS", "PS"} -> <<At(i)>>
                   [] At(i) \in {"CR", "LF", "NEL"} -> <<"LF">>
                   [] OTHER -> <<>>

\* The breaks from i up to j.
Breaks(i, j) ==
  LET From[k \in Pos] ==
        IF k >= j THEN <<>>
        ELSE IF At(k) \in Break THEN BreakValue(k) \o From[BreakEnd(k)] ELSE From[k + 1]
  IN From[i]

Comment(i) == LET s == Skip(i, {" "}) IN IF At(s) = "#" THEN Until(s, BreakZ) ELSE s

\* "---" or "..." followed by a blank.
DocumentIndicator(i, ch) == At(i) = ch /\ At(i + 1) = ch /\ At(i + 2) = ch /\ At(i + 3) \in BlankZ
Separator(i) == DocumentIndicator(i, "-") \/ DocumentIndicator(i, ".")

-----------------------------------------------------------------------------
\* What the functions scan_... return: the position behind what was scanned,
\* Bad when they raise ScannerError, and the value.
Bad == -1
Scanned(value, next) == [value |-> value, next |-> next]
Failed == Scanned(<<>>, Bad)

\* The rest of a line that may hold a comment only.
IgnoredLine(i) == IF At(Comment(i)) \in BreakZ THEN BreakEnd(Comment(i)) ELSE Bad

ScanAnchor(i) ==
  LET end == Skip(i + 1, WordChar) IN
  IF end > i + 1 /\ At(end) \in BlankZ \cup {"?", ":", ",", "]", "}", "%", "@", "GRAVE"}
  THEN Scanned(Slice(i + 1, end), end) ELSE Failed

\* A handle is "!" alone, before a space, or a word between two of them.
TagHandle(i) ==
  LET end == Skip(i + 1, WordChar) IN
  CASE At(i) # "!" -> Bad
    [] At(i) = "!" /\ At(i + 1) = " " -> i + 1
    [] At(i) = "!" /\ At(i + 1) # " " -> IF At(end) = "!" THEN end + 1 ELSE Bad

\* The characters up to end with their escapes decoded.
Uri(i, end) ==
  LET From[k \in Pos] ==
        LET escape == Prefix(k + 1, 2)
            char == IF At(k) # "%" THEN <<At(k)>>
                    ELSE IF \A n \in 1..2 : escape[n] \in Hex THEN Chr(escape) ELSE <<>>
            rest == From[IF At(k) = "%" THEN k + 3 ELSE k + 1]
        IN
        IF k >= end THEN Scanned(<<>>, k)
        ELSE IF char = <<>> \/ rest.next = Bad THEN Failed
             ELSE Scanned(char \o rest.value, rest.next)
  IN From[i]

ScanUri(i) == LET end == Skip(i, UriChar) IN IF end = i THEN Failed ELSE Uri(i, end)

\* A tag is "<uri>", a lone "!", or a suffix behind a handle; the handle of a
\* tag without one is None.
ScanTag(i) ==
  LET verbatim == ScanUri(i + 2)
      named == \E j \in (i + 1)..Len(text) : At(j) = "!" /\ \A k \in (i + 1)..j : At(k) \notin SpaceZ
      handle == IF named THEN TagHandle(i) ELSE i + 1
      suffix == IF handle = Bad THEN Failed ELSE ScanUri(handle)
      tag ==
        CASE At(i + 1) = "<" ->
               IF verbatim.next = Bad \/ At(verbatim.next) # ">" THEN Failed
               ELSE Scanned([handle |-> <<>>, suffix |-> verbatim.value], verbatim.next + 1)
          [] At(i + 1) \in BlankZ -> Scanned([handle |-> <<>>, suffix |-> <<"!">>], i + 1)
          [] OTHER ->
               IF suffix.next = Bad THEN Failed
               ELSE Scanned([handle |-> Slice(i, handle), suffix |-> suffix.value], suffix.next)
  IN IF tag.next = Bad \/ At(tag.next) \notin SpaceZ THEN Failed ELSE tag

\* "%YAML 1.1", "%TAG !handle! prefix" or a directive that is skipped.
ScanDirective(i) ==
  LET name == Skip(i + 1, WordChar)
      named == name > i + 1 /\ At(name) \in SpaceZ
      s == Skip(name, {" "})
      major == Skip(s, Digit)
      minor == Skip(major + 1, Digit)
      handle == TagHandle(s)
      prefix == ScanUri(Skip(handle, {" "}))
      directive ==
        CASE ~named -> Failed
          [] named /\ Slice(i + 1, name) = <<"Y", "A", "M", "L">> ->
               IF major > s /\ At(major) = "." /\ minor > major + 1 /\ At(minor) \in SpaceZ
               THEN Scanned([name |-> "YAML", major |-> Slice(Skip(s, {"0"}), major)], minor) ELSE Failed
          [] named /\ Slice(i + 1, name) = <<"T", "A", "G">> ->
               IF handle # Bad /\ At(handle) = " " /\ prefix.next # Bad /\ At(prefix.next) \in SpaceZ
               THEN Scanned([name |-> "TAG", handle |-> Slice(s, handle), prefix |-> prefix.value],
                            prefix.next)
               ELSE Failed
          [] OTHER -> Scanned([name |-> "other"], Until(name, BreakZ))
  IN IF directive.next = Bad THEN Failed
     ELSE [directive EXCEPT !.next = IgnoredLine(@)]
=============================================================================
