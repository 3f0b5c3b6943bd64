----------------------------- MODULE YamlScanner -----------------------------
(***************************************************************************)
(* PyYAML's scanner (yaml/scanner.py): the queue of tokens that are not    *)
(* emitted yet, the indentation levels, and the possible simple keys, for  *)
(* which a KEY token is put into the queue behind the fact when their ":"  *)
(* is found.  A step is a call of fetch_more_tokens; it raises ScannerError*)
(* by setting result.                                                      *)
(***************************************************************************)
EXTENDS YamlScalar, SequencesExt

CONSTANT MaxKeyLength     \* characters of a simple key: 1024

ASSUME KeyLengthAssumption == MaxKeyLength \in Nat

VARIABLES
  index,       \* the reader's position
  tokens,      \* tokens that are not emitted
  taken,       \* tokens_taken
  indents,     \* indents and, as the last one, indent
  flow,        \* flow_level
  allow,       \* allow_simple_key
  keys,        \* possible_simple_keys: a function from some of the levels
  done,        \* the end of the stream has been reached
  result       \* None, "error", or what load returns

scannerVars == <<index, tokens, taken, indents, flow, allow, keys, done>>

Token(type, at) == [type |-> type, at |-> at, value |-> <<>>, plain |-> FALSE]
Keys(k) == {k[level] : level \in DOMAIN k}
Without(k, levels) == [level \in DOMAIN k \ levels |-> k[level]]

\* stale_possible_simple_keys at a position; a stale key that is required
\* raises.
StaleAt(key, i) == LineStart(key.at) # LineStart(i) \/ i - key.at > MaxKeyLength
Fresh(i) == Without(keys, {level \in DOMAIN keys : StaleAt(keys[level], i)})
Overdue(i) == \E key \in Keys(keys) : StaleAt(key, i) /\ key.required

\* Mutant: the possible simple keys are not looked at.
QueueEmpty == ~done /\ tokens = <<>>

\* need_more_tokens, which drops the stale keys (they are not read again
\* before fetch_more_tokens drops them in Ready).
NeedMore ==
  /\ ~done
  /\ \/ tokens = <<>>
     \/ LET numbers == {key.number : key \in Keys(Fresh(index))} IN
        taken \in numbers /\ \A n \in numbers : taken <= n

-----------------------------------------------------------------------------
\* unwind_indent: the levels deeper than a column are closed.
Level(column) ==
  IF flow # 0 THEN Len(indents)
  ELSE CHOOSE n \in DOMAIN indents : indents[n] <= column /\ \A m \in (n + 1)..Len(indents) : indents[m] > column

Unwound(queue, level, at) == queue \o [n \in 1..(Len(indents) - level) |-> Token("BlockEnd", at)]

NextToken[i \in Pos] == IF At(Comment(i)) \in Break THEN NextToken[BreakEnd(Comment(i))] ELSE Comment(i)

\* fetch_more_tokens: the token that starts at the position.
Indicator(i) ==
  LET ch == At(i)
      blank == At(i + 1) \in BlankZ
      block == flow = 0
      separator == Column(i) = 0 /\ Separator(i)
  IN
  CASE ch = "NUL" -> "StreamEnd"
    [] ch = "%" /\ Column(i) = 0 -> "Directive"
    [] Column(i) = 0 /\ DocumentIndicator(i, "-") -> "DocumentStart"
    [] Column(i) = 0 /\ DocumentIndicator(i, ".") -> "DocumentEnd"
    [] ch = "[" -> "FlowSequenceStart"
    [] ch = "{" -> "FlowMappingStart"
    [] ch = "]" -> "FlowSequenceEnd"
    [] ch = "}" -> "FlowMappingEnd"
    [] ch = "," -> "FlowEntry"
    [] ch = "-" /\ blank -> "BlockEntry"
    [] ch = "?" /\ (blank \/ ~block) -> "Key"
    [] ch = ":" /\ (blank \/ ~block) -> "Value"
    [] ch = "*" -> "Alias"
    [] ch = "&" -> "Anchor"
    [] ch = "!" -> "Tag"
    [] ch \in {"|", ">"} /\ block -> "Block"
    [] ch \in {"'", "\""} -> "Quoted"
    [] /\ ~separator
       /\ \/ ch \notin BlankZ \cup {"-", "?", ":", ",", "[", "]", "{", "}", "#", "&", "*", "!", "|",
                                    ">", "'", "\"", "%", "@", "GRAVE"}
          \/ ~blank /\ (ch = "-" \/ (block /\ ch \in {"?", ":"})) -> "Plain"
    [] OTHER -> "none"

\* The state after the blanks, when the first character of a token is looked at.
Ready ==
  LET at == NextToken[IF index = 0 /\ At(0) = "BOM" THEN 1 ELSE index]
      newline == flow = 0 /\ \E k \in index..(at - 1) : At(k) \in Break
      level == Level(Column(at))
  IN [at |-> at, type |-> Indicator(at), column |-> Column(at), allow |-> allow \/ newline,
      keys |-> Fresh(at), indents |-> SubSeq(indents, 1, level), tokens |-> Unwound(tokens, level, at)]

-----------------------------------------------------------------------------
\* remove_possible_simple_key
Required(k) == flow \in DOMAIN k /\ k[flow].required
Removed(k) == Without(k, {flow})

\* save_possible_simple_key
Saved(r) ==
  IF r.allow
  THEN [level \in DOMAIN r.keys \cup {flow} |->
          IF level # flow THEN r.keys[level]
          ELSE [number |-> taken + Len(r.tokens), at |-> r.at,
                required |-> flow = 0 /\ Last(r.indents) = r.column]]
  ELSE r.keys

\* Mutant: every entry adds a level.
AlwaysIndented(r, column) == Append(r.indents, column)

\* add_indent
Indented(r, column) == IF Last(r.indents) < column THEN Append(r.indents, column) ELSE r.indents

\* The token that opens a block collection if the column does.
Opening(r, type) ==
  IF flow = 0 /\ Last(r.indents) < r.column THEN Append(r.tokens, Token(type, r.at)) ELSE r.tokens

Emit(queue, type, r, length) == tokens' = Append(queue, Token(type, r.at)) /\ index' = r.at + length

FetchStreamEnd(r) ==
  /\ r.type = "StreamEnd" /\ ~Required(r.keys)
  /\ Emit(Unwound(tokens, Level(-1), r.at), "StreamEnd", r, 0)
  /\ indents' = SubSeq(indents, 1, Level(-1))
  /\ allow' = FALSE /\ keys' = <<>> /\ done' = TRUE
  /\ UNCHANGED flow

FetchDirective(r, directive) ==
  /\ r.type = "Directive" /\ ~Required(r.keys) /\ directive.next # Bad
  /\ tokens' = Append(Unwound(tokens, Level(-1), r.at),
                      [Token("Directive", r.at) EXCEPT !.value = directive.value])
  /\ index' = directive.next
  /\ indents' = SubSeq(indents, 1, Level(-1))
  /\ allow' = FALSE /\ keys' = Removed(r.keys)
  /\ UNCHANGED <<flow, done>>

FetchDocumentIndicator(r) ==
  /\ r.type \in {"DocumentStart", "DocumentEnd"} /\ ~Required(r.keys)
  /\ Emit(Unwound(tokens, Level(-1), r.at), r.type, r, 3)
  /\ indents' = SubSeq(indents, 1, Level(-1))
  /\ allow' = FALSE /\ keys' = Removed(r.keys)
  /\ UNCHANGED <<flow, done>>

FetchFlowCollectionStart(r) ==
  /\ r.type \in {"FlowSequenceStart", "FlowMappingStart"} /\ ~(r.allow /\ Required(r.keys))
  /\ keys' = Saved(r)
  /\ flow' = flow + 1 /\ allow' = TRUE
  /\ Emit(r.tokens, r.type, r, 1)
  /\ indents' = r.indents /\ UNCHANGED done

FetchFlowCollectionEnd(r) ==
  /\ r.type \in {"FlowSequenceEnd", "FlowMappingEnd"} /\ ~Required(r.keys)
  /\ keys' = Removed(r.keys)
  /\ flow' = flow - 1 /\ allow' = FALSE
  /\ Emit(r.tokens, r.type, r, 1)
  /\ indents' = r.indents /\ UNCHANGED done

FetchFlowEntry(r) ==
  /\ r.type = "FlowEntry" /\ ~Required(r.keys)
  /\ keys' = Removed(r.keys) /\ allow' = TRUE
  /\ Emit(r.tokens, "FlowEntry", r, 1)
  /\ indents' = r.indents /\ UNCHANGED <<flow, done>>

FetchBlockEntry(r) ==
  /\ r.type = "BlockEntry" /\ ~Required(r.keys) /\ (flow = 0 => r.allow)
  /\ keys' = Removed(r.keys) /\ allow' = TRUE
  /\ Emit(Opening(r, "BlockSequenceStart"), "BlockEntry", r, 1)
  /\ indents' = IF flow = 0 THEN Indented(r, r.column) ELSE r.indents
  /\ UNCHANGED <<flow, done>>

FetchKey(r) ==
  /\ r.type = "Key" /\ ~Required(r.keys) /\ (flow = 0 => r.allow)
  /\ keys' = Removed(r.keys) /\ allow' = (flow = 0)
  /\ Emit(Opening(r, "BlockMappingStart"), "Key", r, 1)
  /\ indents' = IF flow = 0 THEN Indented(r, r.column) ELSE r.indents
  /\ UNCHANGED <<flow, done>>

\* Mutant: the KEY is put behind the key's first token.
PlaceBehind(key) == key.number + 1 - taken

\* Where the KEY token of a key goes.
Place(key) == key.number - taken

\* fetch_value, of a simple key: KEY, and perhaps BLOCK-MAPPING-START, are put
\* before the tokens of the key.
FetchSimpleValue(r) ==
  /\ r.type = "Value" /\ flow \in DOMAIN r.keys
  /\ LET key == r.keys[flow]
         opens == flow = 0 /\ Last(r.indents) < Column(key.at)
         put == (IF opens THEN <<Token("BlockMappingStart", key.at)>> ELSE <<>>)
                \o <<Token("Key", key.at)>>
     IN /\ Emit(SubSeq(r.tokens, 1, Place(key)) \o put
                \o SubSeq(r.tokens, Place(key) + 1, Len(r.tokens)), "Value", r, 1)
        /\ indents' = IF flow = 0 THEN Indented(r, Column(key.at)) ELSE r.indents
  /\ keys' = Removed(r.keys) /\ allow' = FALSE
  /\ UNCHANGED <<flow, done>>

\* fetch_value, of a complex key or of none.
FetchValue(r) ==
  /\ r.type = "Value" /\ flow \notin DOMAIN r.keys /\ (flow = 0 => r.allow)
  /\ Emit(Opening(r, "BlockMappingStart"), "Value", r, 1)
  /\ indents' = IF flow = 0 THEN Indented(r, r.column) ELSE r.indents
  /\ keys' = r.keys /\ allow' = (flow = 0)
  /\ UNCHANGED <<flow, done>>

\* fetch_alias, fetch_anchor, fetch_tag and the scalars that can be keys.
FetchNodePart(r, scanned) ==
  /\ r.type \in {"Alias", "Anchor", "Tag", "Quoted", "Plain"}
  /\ ~(r.allow /\ Required(r.keys)) /\ scanned.next # Bad
  /\ keys' = Saved(r)
  /\ tokens' = Append(r.tokens,
       [type |-> IF r.type \in {"Quoted", "Plain"} THEN "Scalar" ELSE r.type,
        at |-> r.at, value |-> scanned.value, plain |-> r.type = "Plain"])
  /\ index' = scanned.next
  /\ allow' = (r.type = "Plain" /\ scanned.allow)
  /\ indents' = r.indents /\ UNCHANGED <<flow, done>>

FetchBlockScalar(r, scalar) ==
  /\ r.type = "Block" /\ ~Required(r.keys) /\ scalar.next # Bad
  /\ keys' = Removed(r.keys) /\ allow' = TRUE
  /\ tokens' = Append(r.tokens, [Token("Scalar", r.at) EXCEPT !.value = scalar.value])
  /\ index' = scalar.next
  /\ indents' = r.indents /\ UNCHANGED <<flow, done>>

-----------------------------------------------------------------------------
\* What is scanned at the first character of a token.
Scan(r) ==
  CASE r.type \in {"Alias", "Anchor"} -> ScanAnchor(r.at)
    [] r.type = "Tag" -> ScanTag(r.at)
    [] r.type = "Quoted" -> ScanQuoted(r.at)
    [] r.type = "Plain" -> ScanPlain(r.at, flow, Last(r.indents) + 1)
    [] r.type = "Block" -> ScanBlock(r.at, Last(r.indents))
    [] r.type = "Directive" -> ScanDirective(r.at)
    [] OTHER -> Scanned(<<>>, r.at)

\* The cases in which fetch_more_tokens raises ScannerError.
Raises(r, scanned) ==
  \/ Overdue(r.at)
  \/ r.type = "none" \/ scanned.next = Bad
  \/ Required(r.keys) /\ \/ r.type \notin {"FlowSequenceStart", "FlowMappingStart", "Alias", "Anchor",
                                           "Tag", "Quoted", "Plain", "Value"}
                         \/ r.type # "Value" /\ r.allow
  \/ flow = 0 /\ ~r.allow /\ \/ r.type \in {"BlockEntry", "Key"}
                             \/ r.type = "Value" /\ flow \notin DOMAIN r.keys

ScannerError == result' = "error" /\ UNCHANGED scannerVars

Fetch(r, scanned) ==
  \/ Raises(r, scanned) /\ ScannerError
  \/ /\ ~Overdue(r.at)
     /\ \/ FetchStreamEnd(r) \/ FetchDirective(r, scanned) \/ FetchDocumentIndicator(r)
        \/ FetchFlowCollectionStart(r) \/ FetchFlowCollectionEnd(r) \/ FetchFlowEntry(r)
        \/ FetchBlockEntry(r) \/ FetchKey(r) \/ FetchSimpleValue(r) \/ FetchValue(r)
        \/ FetchNodePart(r, scanned) \/ FetchBlockScalar(r, scanned)
     /\ UNCHANGED <<taken, result>>

\* check_token: fetches tokens until the first one is certain.
FetchMoreTokens ==
  \/ NeedMore /\ \E r \in {Ready} : \E scanned \in {Scan(r)} : Fetch(r, scanned)
  \/ ~done /\ tokens # <<>> /\ Overdue(index) /\ ScannerError

Certain == ~NeedMore /\ (done \/ ~Overdue(index))

\* get_token
Take == tokens' = Tail(tokens) /\ taken' = taken + 1

ScannerInit ==
  /\ index = 0 /\ tokens = <<Token("StreamStart", 0)>> /\ taken = 0 /\ indents = <<-1>>
  /\ flow = 0 /\ allow = TRUE /\ keys = <<>> /\ done = FALSE

-----------------------------------------------------------------------------
\* A token that may still turn out to begin a simple key is not emitted: it
\* is in the queue, or the next one, and its KEY can be put before it.
KeysInTime ==
  \A key \in Keys(Fresh(index)) : taken <= key.number /\ key.number <= taken + Len(tokens)

\* The tokens are in the order of the text, those that are put in behind the
\* fact directly before the token that they belong to.
TokensInOrder ==
  \A n \in 1..(Len(tokens) - 1) :
    LET this == tokens[n]  next == tokens[n + 1] IN
    \/ this.at < next.at
    \/ this.at = next.at /\ this.type \in {"StreamStart", "BlockSequenceStart", "BlockMappingStart", "BlockEnd", "Key"}

\* Every block collection is indented deeper than the one around it.
IndentsGrow == indents[1] = -1 /\ \A n \in 1..(Len(indents) - 1) : indents[n] < indents[n + 1]
=============================================================================
