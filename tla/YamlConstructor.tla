--------------------------- MODULE YamlConstructor ---------------------------
(***************************************************************************)
(* PyYAML's constructor (yaml/constructor.py) on the nodes of a document,  *)
(* and yaml.load as a whole.  Constructors of collections are generators:  *)
(* they yield an empty object at once and fill it when they are resumed, so*)
(* that a collection may contain itself.  A step is a generator's run.     *)
(*                                                                         *)
(* An object is known by the node it is made of.  The tags of binary data  *)
(* and of Python's own types are left out.                                 *)
(***************************************************************************)
EXTENDS YamlComposer

VARIABLES
  objects,      \* constructed_objects: the objects made, by their node
  generators,   \* state_generators: the nodes whose objects are not filled
  batch         \* the generators that are being run

constructorVars == <<objects, generators, batch>>
vars == <<text, parserVars, scannerVars, composerVars, constructorVars, result>>

Collections == {"seq", "map", "set", "omap", "pairs"}
Unfilled == <<"unfilled">>

-----------------------------------------------------------------------------
\* flatten_mapping: the pairs of the mappings under "<<" are put before the
\* others, those of the last mapping of a list first.  g is the graph of nodes,
\* n the mapping, i the pair, merge what has been merged; <<>> if it raises.
RECURSIVE Flatten(_, _, _, _)
RECURSIVE FlattenAll(_, _)

FlattenAll(g, list) ==
  IF list = <<>> \/ g = <<>> THEN g ELSE FlattenAll(Flatten(g, Head(list), 1, <<>>), Tail(list))

Flatten(g, n, i, merge) ==
  LET pairs == g[n].value
      key == pairs[i][1]
      value == pairs[i][2]
      merged == IF g[value].kind = "sequence" THEN g[value].value ELSE <<value>>
      flat == FlattenAll([g EXCEPT ![n].value = RemoveAt(@, i)], merged)
      lists == [m \in DOMAIN merged |-> flat[merged[Len(merged) + 1 - m]].value]
  IN
  CASE i > Len(pairs) -> [g EXCEPT ![n].value = merge \o @]
    [] i <= Len(pairs) /\ g[key].tag = "merge" ->
         IF (\E m \in DOMAIN merged : g[merged[m]].kind # "mapping") \/ flat = <<>> THEN <<>>
         ELSE Flatten(flat, n, i, merge \o FlattenSeq(lists))
    [] i <= Len(pairs) /\ g[key].tag = "value" -> Flatten([g EXCEPT ![key].tag = "str"], n, i + 1, merge)
    [] OTHER -> Flatten(g, n, i + 1, merge)

\* construct_scalar: a mapping may stand for the scalar under its "=" key.
RECURSIVE ScalarOf(_, _)
ScalarOf(g, n) ==
  LET values == IF g[n].kind = "mapping" THEN {m \in DOMAIN g[n].value : g[g[n].value[m][1]].tag = "value"} ELSE {}
  IN IF g[n].kind = "scalar" THEN <<"scalar", g[n].value>>
     ELSE IF values = {} THEN Raised
     ELSE ScalarOf(g, g[n].value[CHOOSE m \in values : \A l \in values : m <= l][2])

\* construct_object.  The state of the constructor is s; ok is FALSE if it raises.
Made(s, n, object) == [s EXCEPT !.objects = (n :> object) @@ @]

ScalarObject(tag, scalar) == IF scalar = Raised THEN Raised ELSE ConstructScalar(tag, scalar[2])
Keep(s, n, object) == IF object = Raised THEN [s EXCEPT !.ok = FALSE] ELSE Made(s, n, object)

ConstructObject(s, n) ==
  CASE ~s.ok \/ n \in DOMAIN s.objects -> s
    [] s.ok /\ n \notin DOMAIN s.objects /\ s.nodes[n].tag \in Collections ->
         [Made(s, n, Unfilled) EXCEPT !.generators = Append(@, n)]
    [] OTHER -> Keep(s, n, ScalarObject(s.nodes[n].tag, ScalarOf(s.nodes, n)))

ConstructAll(s, list) == FoldLeft(ConstructObject, s, list)

\* What a mapping's key is compared by: Python takes True for 1.
Hash(s, n) == IF s.objects[n][1] = "bool" THEN <<"int", IF s.objects[n][2] THEN 1 ELSE 0>> ELSE s.objects[n]
Hashable(s, n) == n \in DOMAIN s.objects => s.nodes[n].tag \notin Collections

\* construct_mapping: the last of the pairs with equal keys stays.
ConstructMapping(s, n) ==
  LET flat == Flatten(s.nodes, n, 1, <<>>)
      pairs == flat[n].value
      all == ConstructAll([s EXCEPT !.nodes = flat], FlattenSeq(pairs))
      ok == all.ok /\ \A m \in DOMAIN pairs : Hashable(all, pairs[m][1])
      Places(m) == {l \in DOMAIN pairs : Hash(all, pairs[l][1]) = Hash(all, pairs[m][1])}
      kept == {m \in DOMAIN pairs : \A l \in Places(m) : l <= m}
  IN IF s.nodes[n].kind # "mapping" \/ flat = <<>> THEN [s EXCEPT !.ok = FALSE]
     ELSE IF ~ok THEN [all EXCEPT !.ok = FALSE]
     ELSE Made(all, n, <<"map", {<<Hash(all, pairs[m][1]), pairs[m][2]>> : m \in kept}>>)

ConstructSequence(s, n) ==
  LET all == ConstructAll(s, s.nodes[n].value) IN
  IF s.nodes[n].kind # "sequence" THEN [s EXCEPT !.ok = FALSE]
  ELSE Made(all, n, <<"seq", s.nodes[n].value>>)

\* construct_yaml_omap, construct_yaml_pairs: a list of mappings of one pair.
ConstructPairs(s, n) ==
  LET subnodes == s.nodes[n].value
      single == /\ s.nodes[n].kind = "sequence"
                /\ \A m \in DOMAIN subnodes : /\ s.nodes[subnodes[m]].kind = "mapping"
                                              /\ Len(s.nodes[subnodes[m]].value) = 1
      pairs == [m \in DOMAIN subnodes |-> s.nodes[subnodes[m]].value[1]]
  IN IF ~single THEN [s EXCEPT !.ok = FALSE]
     ELSE Made(ConstructAll(s, FlattenSeq(pairs)), n, <<"pairs", pairs>>)

\* A generator's run after its first yield.
Filled(s, n) ==
  CASE s.nodes[n].tag = "seq" -> ConstructSequence(s, n)
    [] s.nodes[n].tag \in {"map", "set"} -> ConstructMapping(s, n)
    [] s.nodes[n].tag \in {"omap", "pairs"} -> ConstructPairs(s, n)

-----------------------------------------------------------------------------
Constructs(s, rest) ==
  /\ nodes' = s.nodes /\ objects' = s.objects /\ generators' = s.generators /\ batch' = rest
  /\ result' = IF s.ok THEN result ELSE "error"
  /\ UNCHANGED <<text, parserVars, scannerVars, anchors, path, root, phase>>

State == [nodes |-> nodes, objects |-> objects, generators |-> generators, ok |-> TRUE]

\* construct_document: the root's object first, then the generators in rounds.
ConstructRoot ==
  /\ result = None /\ phase = "composed" /\ root # None /\ objects = <<>>
  /\ Constructs(ConstructObject(State, root), batch)

NextRound ==
  /\ result = None /\ objects # <<>> /\ batch = <<>> /\ generators # <<>>
  /\ Constructs([State EXCEPT !.generators = <<>>], generators)

\* Mutant: a generator that is put off while others run is forgotten.
ResumeLast ==
  /\ result = None /\ batch # <<>>
  /\ Constructs(Filled(State, Last(batch)), <<>>)

Resume ==
  /\ result = None /\ batch # <<>>
  /\ Constructs(Filled(State, Head(batch)), Tail(batch))

\* get_single_data returns; an empty stream is None.
Loaded ==
  /\ result = None /\ phase = "composed"
  /\ root = None \/ (objects # <<>> /\ batch = <<>> /\ generators = <<>>)
  /\ result' = "loaded"
  /\ UNCHANGED <<text, parserVars, scannerVars, composerVars, constructorVars>>

-----------------------------------------------------------------------------
Init ==
  /\ ScannerInit /\ ParserInit /\ ComposerInit
  /\ objects = <<>> /\ generators = <<>> /\ batch = <<>>
  /\ result = None

\* yaml.load: the composer asks for events, the parser for tokens.
Step == \/ /\ ParserFetch \/ Parse
           /\ UNCHANGED <<text, composerVars, constructorVars>>
        \/ Compose /\ UNCHANGED <<text, constructorVars>>
Next == Step \/ ConstructRoot \/ NextRound \/ Resume \/ Loaded
=============================================================================
