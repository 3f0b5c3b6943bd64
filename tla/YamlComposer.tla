---------------------------- MODULE YamlComposer ----------------------------
(***************************************************************************)
(* PyYAML's composer (yaml/composer.py): it takes the events of the only   *)
(* document and makes a graph of nodes, in which an alias is the node its  *)
(* anchor belongs to.  A step takes one event; the stack of calls of       *)
(* compose_node is path.                                                   *)
(***************************************************************************)
EXTENDS YamlParser, YamlResolver

VARIABLES
  nodes,      \* the nodes made so far; a node is known by its number
  anchors,    \* the nodes with an anchor
  path,       \* the collections that are open: a node, and the key that waits for its value
  root,       \* the document's node
  phase       \* where get_single_node is

composerVars == <<nodes, anchors, path, root, phase>>

\* "tag:yaml.org,2002:" and the name of a tag.
Standard(tag) ==
  LET names == {name \in {"str", "int", "float", "bool", "null", "timestamp", "seq", "map", "set",
                          "omap", "pairs"} : tag = <<"tag:">> \o Chars(name)}
  IN IF names = {} THEN "undefined" ELSE CHOOSE name \in names : TRUE

NodeTag(kind) ==
  IF event.tag \notin {None, <<"!">>} THEN Standard(event.tag)
  ELSE CASE kind = "scalar" -> IF event.plain THEN Resolve(event.value) ELSE "str"
         [] kind = "sequence" -> "seq"
         [] kind = "mapping" -> "map"

NewNode(kind) ==
  [kind |-> kind, tag |-> NodeTag(kind), value |-> IF kind = "scalar" THEN event.value ELSE <<>>]
NewAnchors == IF event.anchor = None THEN anchors ELSE (event.anchor :> Len(nodes) + 1) @@ anchors
Duplicate == event.anchor # None /\ event.anchor \in DOMAIN anchors

\* A node that is complete becomes the root, or part of the collection around it.
Attach(node_, graph, stack) ==
  IF stack = <<>> THEN nodes' = graph /\ root' = node_ /\ path' = stack /\ phase' = "document end"
  ELSE LET top == Last(stack) IN
    /\ UNCHANGED <<root, phase>>
    /\ IF graph[top.node].kind = "mapping" /\ top.key = None
       THEN nodes' = graph /\ path' = Append(Front(stack), [top EXCEPT !.key = node_])
       ELSE LET child == IF top.key = None THEN node_ ELSE <<top.key, node_>> IN
            /\ nodes' = [graph EXCEPT ![top.node].value = Append(@, child)]
            /\ path' = Append(Front(stack), [top EXCEPT !.key = None])

\* Mutant: the end of a document ends the parser.
ComposerDisposes == event # None /\ result = None /\ event' = None
                    /\ state' = (IF event.type = "DocumentEnd" THEN None ELSE state)
                    /\ UNCHANGED <<states, marks, version, handles, node, item>>
                    /\ UNCHANGED scannerVars

\* An event is taken (get_event); every step of the composer takes one.
ComposerTakes == event # None /\ result = None /\ event' = None
                 /\ UNCHANGED <<state, states, marks, version, handles, node, item>>
                 /\ UNCHANGED scannerVars

Takes(from, types, to) ==
  /\ phase = from /\ event.type \in types /\ phase' = to
  /\ UNCHANGED <<nodes, path, root, result>>

ComposeStream == Takes("stream", {"StreamStart"}, "document") /\ UNCHANGED anchors
ComposeDocument == Takes("document", {"DocumentStart"}, "node") /\ UNCHANGED anchors
DocumentComposed == Takes("document end", {"DocumentEnd"}, "end") /\ anchors' = <<>>
StreamComposed == Takes("document", {"StreamEnd"}, "composed") \/ Takes("end", {"StreamEnd"}, "composed")

ComposeAlias ==
  /\ phase = "node" /\ event.type = "Alias" /\ event.anchor \in DOMAIN anchors
  /\ Attach(anchors[event.anchor], nodes, path) /\ UNCHANGED <<anchors, result>>

ComposeScalar ==
  /\ phase = "node" /\ event.type = "Scalar" /\ ~Duplicate
  /\ anchors' = NewAnchors
  /\ Attach(Len(nodes) + 1, Append(nodes, NewNode("scalar")), path) /\ UNCHANGED result

ComposeCollection ==
  /\ phase = "node" /\ event.type \in {"SequenceStart", "MappingStart"} /\ ~Duplicate
  /\ anchors' = NewAnchors
  /\ nodes' = Append(nodes, NewNode(IF event.type = "SequenceStart" THEN "sequence" ELSE "mapping"))
  /\ path' = Append(path, [node |-> Len(nodes) + 1, key |-> None])
  /\ UNCHANGED <<root, phase, result>>

CollectionComposed ==
  /\ phase = "node" /\ event.type \in {"SequenceEnd", "MappingEnd"}
  /\ Attach(Last(path).node, nodes, Front(path)) /\ UNCHANGED <<anchors, result>>

\* An alias without an anchor, an anchor twice, or a second document.
ComposerError ==
  /\ \/ phase = "node" /\ event.type = "Alias" /\ event.anchor \notin DOMAIN anchors
     \/ phase = "node" /\ event.type # "Alias" /\ Duplicate
     \/ phase = "end" /\ event.type = "DocumentStart"
  /\ result' = "error" /\ UNCHANGED composerVars

Compose ==
  /\ ComposerTakes
  /\ \/ ComposeStream \/ ComposeDocument \/ DocumentComposed
     \/ StreamComposed /\ UNCHANGED anchors
     \/ ComposeAlias \/ ComposeScalar \/ ComposeCollection \/ CollectionComposed \/ ComposerError

ComposerInit ==
  nodes = <<>> /\ anchors = <<>> /\ path = <<>> /\ root = None /\ phase = "stream"
=============================================================================
