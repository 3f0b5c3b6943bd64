--------------------------- MODULE SchemaRegistry ---------------------------
(***************************************************************************)
(* schemas_xml.py, the table part: add_schema registers the schema of a    *)
(* YAML file in the table xml_schemas, find_schema picks the one that a    *)
(* data file is read with.                                                 *)
(*                                                                         *)
(* The primary key is (file pattern, version) and the insertion is ON      *)
(* CONFLICT DO NOTHING, so the first schema registered under a key stays.  *)
(* An exception of add_schema reaches the bare `except' of the handler     *)
(* (label "except"; "added" is its return), one of find_schema is caught   *)
(* nowhere ("raise").                                                      *)
(***************************************************************************)
EXTENDS PgSession

CONSTANTS
  Key,         \* the S3 object keys
  Pattern,     \* the file patterns of the schemas
  Like,        \* Like[p]: the keys that LIKE pattern p matches
  SchemaBody   \* the YAML files that may be uploaded

(***************************************************************************)
(* How a YAML file is broken, if it is: yaml.load raises; a key of its     *)
(* meta part is missing; PostgreSQL rejects the values (a version that is  *)
(* no timestamp, a quote in the description).                              *)
(***************************************************************************)
SchemaForm == {"ok", "badyaml", "badmeta", "badvalues"}

(***************************************************************************)
(* What the data part of a registered schema is good for: it extracts      *)
(* records; it has no `prefixes' or no `data'; extract_data raises on it.  *)
(***************************************************************************)
Layout == {"ok", "incomplete", "unusable"}

ASSUME SchemaAssumption ==
  /\ Like \in [Pattern -> SUBSET Key]
  /\ SchemaBody \subseteq
       [form: SchemaForm, pattern: Pattern, version: Nat, layout: Layout]

VARIABLE xml_schemas   \* the committed rows

SchemaLabel ==
  {"schema.create", "schema.enter", "schema.created", "schema.insert", "schema.commit"}

SameKey(s, t) == s.pattern = t.pattern /\ s.version = t.version

CreateSchemaTable(c) ==
  /\ \/ CreateSkips(c, "xml_schemas", "schema.create", "schema.insert")
     \/ CreateLooks(c, "xml_schemas", "schema.create", "schema.enter")
     \/ CreateEnters(c, "xml_schemas", "schema.enter", "schema.created")
     \/ CreateClashes(c, "xml_schemas", "schema.enter", "except")
     \/ CreateCommits(c, "xml_schemas", "schema.created", "schema.insert", "except")
  /\ UNCHANGED xml_schemas

\* Another session has inserted this key and not committed yet.  `body' is
\* the function from containers to what they are registering.
KeyHeld(c, body) ==
  \E d \in Container : pc[d] = "schema.commit" /\ SameKey(body[d], body[c])

InsertSchema(c, body) ==
  /\ pc[c] = "schema.insert"
  /\ \/ body[c].form = "ok" /\ ~KeyHeld(c, body)
        /\ Executes(c) /\ Goto(c, "schema.commit")
     \/ body[c].form = "badmeta" /\ Goto(c, "except") /\ UNCHANGED conn
     \/ body[c].form = "badvalues" /\ Rejected(c) /\ Goto(c, "except")
  /\ UNCHANGED <<tables, faults, xml_schemas>>

\* Mutant: ON CONFLICT DO UPDATE.
Upserted(s) == {t \in xml_schemas : ~SameKey(s, t)} \cup {s}

(***************************************************************************)
(* A conflicting row is committed now exactly if it was when the insertion *)
(* was executed, because KeyHeld keeps other insertions of the key out.    *)
(***************************************************************************)
Registered(s) ==
  IF \E t \in xml_schemas : SameKey(s, t) THEN xml_schemas ELSE xml_schemas \cup {s}

CommitSchema(c, body) ==
  /\ pc[c] = "schema.commit"
  /\ Committed(c, "added", "except")
  /\ xml_schemas' = Registered(body[c])
  /\ UNCHANGED tables

SchemaRaises(c) ==
  /\ pc[c] \in SchemaLabel
  /\ CallRaises(c)
  /\ Goto(c, "except")
  /\ UNCHANGED <<tables, xml_schemas>>

(***************************************************************************)
(* The rows that ORDER BY version DESC LIMIT 1 may return: two patterns    *)
(* can match with equal versions, and then either row may come first.      *)
(***************************************************************************)
Matching(key, date) ==
  {s \in xml_schemas : key \in Like[s.pattern] /\ s.version <= date}

\* Mutant: LIMIT 1 without ORDER BY.
AnyMatching(key, date) == Matching(key, date)

Newest(key, date) ==
  {s \in Matching(key, date) : \A t \in Matching(key, date) : t.version <= s.version}

=============================================================================
