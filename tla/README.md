# Verification of Data Freeway

Data Freeway ingests Dutch traffic data.  A shell loop downloads a file every
minute and puts it into an S3 bucket; a Lambda function reads each new object,
extracts speed readings from it with the help of a schema, writes them to
DynamoDB and keeps a progress log in PostgreSQL; a web dashboard shows, for a
day, which minutes have been processed.

This directory specifies that system in TLA+, checks it on small instances with
TLC and proves the properties that matter most with TLAPS.  Paths below are
relative to the repository.

## Inventory

| Component | Source | State it keeps | Operations |
|---|---|---|---|
| Ingestion Lambda | `src/lambda_xml/lambda_function_xml.py` | one PostgreSQL connection per container; the local variables of an invocation; the items of the table `TrafficSpeed` | import of the module, `main` |
| Progress log | `src/lambda_xml/logs.py` | the table `xml_log`; a logger (time, messages) per invocation | `get_logger`, `create_xml_log_table`, `commit_log` |
| Schema registry | `src/lambda_xml/schemas_xml.py:1-87` | the table `xml_schemas` | `create_schemas_meta_table`, `add_schema`, `find_schema` |
| Extraction | `src/lambda_xml/schemas_xml.py:90-277` | none; it deletes and restores a key of the schema while it runs | `expand_prefix`, `parse_val`, `extract_data` |
| Batch writer | boto3, as used at `lambda_function_xml.py:172-182` | a buffer of items per chunk | `put_item`, flush |
| Dashboard | `src/dash/app.py` | the globals `upload_status` and `current_date`; the pages of the sessions | `init_date`, `show_date_status`, `show_log` |
| Retriever | `src/retrieve-realtime-data.sh` | `minute`, `old_minute`, the temporary file | the loop |
| Deployment | `upload-lambda-xml.sh` | none | one upload |
| PyYAML | `src/lambda_xml/yaml` (vendored) | per load: the scanner's tokens, indents and simple keys, the parser's states and marks, the nodes, the objects and their generators | `yaml.load` |
| psycopg2 | `src/lambda_xml/psycopg2` (vendored) | a connection; a pool and its dictionaries; the types registered | connection, cursor; `getconn`, `putconn`, `closeall`; `register_range`, `register_hstore`, `register_composite` |

How they interact.  The retriever (or a person) puts objects into S3; S3 raises
an event per object; AWS Lambda delivers it to a container, at least once, and
retries an invocation that raised or died.  `main` calls the registry and the
log on the *same* PostgreSQL connection, which outlives the invocation and is
never in autocommit mode; the program calls `rollback` nowhere.  The Lambda and
the dashboard meet only in `xml_log`, where the dashboard takes, per file, the
row with the latest time.

What is hard about it:

* containers interleave on the two tables and on the items of one file, and
  `CREATE TABLE IF NOT EXISTS` itself is not atomic;
* an invocation can raise, time out or be killed between any two commits, and
  its event comes back;
* one rejected statement aborts the transaction of a connection that later
  invocations inherit;
* a row of the log carries the time of the *previous* commit, and that time is
  the primary key;
* the dashboard's callbacks share two globals between threads and sessions;
* the shell loop reads one clock in four calls;
* `extract_data` deletes a key of the schema while it is below it, and leaves two nested
  loops by one `break` and one `continue`;
* the YAML scanner inserts tokens before tokens it has already queued, the parser keeps two
  stacks in step, and the constructor fills objects in after it has handed them out;
* a connection pool is shared by threads, and the sessions it holds can end at any time.

What makes each part correct: the Lambda must not report a file as succeeded
that is not stored, must leave one verdict per attempt and the verdict last,
and must give every upload a verdict in the end; the registry must not replace a
schema and must pick the newest one that is not younger than the data; the log
must order the rows of a file as they were written; extraction must yield, for
each entry of the schema, the value or the marker the schema's author expects;
the dashboard must show the status of the selected day and no other; the
retriever must copy each publication once.  Of the libraries: `yaml.load` must load what
was written and must end; a pool must never lend a connection twice or lose one; values
must come back from the server as they were sent, and registering a type must leave the
caller's transaction alone.

## Modules

| Module | Models | State |
|---|---|---|
| `PgSession` | the connection of a container: psycopg2's transaction status, aborted transactions, broken connections and commits whose answer is lost, the two-step `CREATE TABLE IF NOT EXISTS` (external behaviour, as `logs.py` and `schemas_xml.py` use it) | `pc`, `conn`, `tables`, `faults` |
| `MetaLog` | `logs.py` | `now`, `logTime`, `entry`, `xml_log` |
| `SchemaRegistry` | `schemas_xml.py:1-87` | `xml_schemas` |
| `PreprocessLambda` | `lambda_function_xml.py`, with S3 and AWS Lambda around it; extends the three above | `s3`, `uploads`, `queue`, `kills`, `dups`, `event`, `alone`, `contents`, `schema`, `sent`, `traffic_table` |
| `IngestContract` | the abstract specification: what the outputs of the Lambda promise | `stored`, `reports` |
| `LambdaCorrectness` | the properties of `PreprocessLambda`, and its refinement of `IngestContract` | |
| `LambdaProofs` | the proofs of type correctness, with the inductive invariant, of the safety properties and of the refinement | |
| `MCLambda` | the small instances of the Lambda for TLC | |
| `Dashboard` | `app.py`: the callbacks, step by step; the browsers with dash-renderer, the rows that appear in `xml_log` | `current_date`, `upload_status`, `page`, `opened`, `calls`, `xml_log`, `inputs`, `faults` |
| `DashboardCorrectness` | the properties of `Dashboard` | |
| `DashboardProofs` | what a step does to the pages and the calls; the proofs that types are kept, and that a server with one thread shows the right figures and never goes back to an older one | |
| `MCDashboard` | the small instances of the dashboard for TLC | |
| `ExtractData` | `schemas_xml.py:90-277`: `extract_data` as a stack of calls | `doc`, `schema`, `stack`, `taken`, `outcome` |
| `BatchWriter` | the chunk loop (`lambda_function_xml.py:171-182`) with boto3's batch writer and DynamoDB, as the code uses them; its invariants | `data`, `start`, `done`, `buffer`, `sending`, `state`, `table` |
| `ChunkLoop` | the abstract specification: how the loop fills the table, with the keys of the readings only | `readings`, `sent`, `stored` |
| `DataFile` | the two composed: from a document and a schema to the table | |
| `DataFileCorrectness` | the schema read as a query, and the properties of the extraction | |
| `DataFileProofs` | the proofs about the options of a schema and about the batch writer | |
| `MCDataFile` | documents and schemas for TLC | |
| `Retriever` | `retrieve-realtime-data.sh`; its properties | `now`, `pc`, `minute`, `old_minute`, `d`, `t`, `tmpfile`, `bucket`, ... |
| `RetrieverProofs` | the proofs that no publication is copied twice and that none is missed | |
| `YamlText`, `YamlScalar` | what the scanner reads at a position: breaks, comments, directives, anchors, tags; plain, quoted and block scalars | `text` |
| `YamlScanner` | `scanner.py`: tokens, indents, simple keys | `index`, `tokens`, `taken`, `indents`, `flow`, `allow`, `keys`, `done`, ... |
| `YamlParser` | `parser.py`: one state for each function that waits for a token; the parser for any caller (`ParserSpec`), and its refinement of `YamlEvents` | `event`, `state`, `states`, `marks`, ... |
| `YamlEvents` | the abstract specification: how the events of a stream nest | `event`, `open` |
| `YamlResolver` | `resolver.py`, and what the scalar constructors make of a scalar | |
| `YamlComposer` | `composer.py`: events to a graph of nodes | `nodes`, `anchors`, `path`, `root`, `phase` |
| `YamlConstructor` | `constructor.py`, the safe part: the generators that fill in objects | `objects`, `generators`, `batch` |
| `YamlCorrectness` | `yaml.load` as a whole, and its properties | `value`, `steps` |
| `Descent` | functions that are defined recursively, each value from the one at an argument of lower rank: that they exist, satisfy their equation, and that what every step keeps holds of their values; a lemma module with constant operators | |
| `YamlProofs` | the proofs about the scanner and the parser | |
| `YamlWriter`, `MCYaml` | a writer of YAML in several styles, as a reference; the texts for TLC | |
| `ConnectionPool` | `pool.py`: both pool classes, several threads, sessions that are lost | `kind`, `pool`, `used`, `rused`, `keys`, `closed`, `link`, `busy`, `held` |
| `PoolCorrectness`, `PoolProofs`, `MCPool` | its properties, their proofs, its instance for TLC | |
| `PgRange` | `_range.py`: the class `Range` as operators on records | |
| `PgText` | the texts of ranges, rows and hstores: what the server prints (external), what `_range.py` and `extras.py` read | |
| `PgTypes` | the register functions with their transactions, values sent and read back; the properties | `autocommit`, `status`, `server`, `work`, `types`, `outcome`, `reading`, `got` |
| `PgProofs`, `MCPgTypes` | the proofs about ranges, about texts read back and about the registration of types; the instance for TLC | |

How they are composed.  `PgSession`, `MetaLog`, `SchemaRegistry` are extended by
`PreprocessLambda`; `ExtractData` and `BatchWriter` by `DataFile`; each `Yaml` module by
the next one down to `YamlCorrectness`.  `PreprocessLambda` has the outcomes of the other
parts and not their steps: `ExtractData` decides between its branches *extracted*, *raised*
and *quoted*, `BatchWriter` is its `FlushSome`, `WriteChunk` and `WriteRaises` in detail (it implements
`ChunkLoop`, which has the first two for one container), and
`yaml.load` decides the form of a schema file.

`Dashboard` has `xml_log` in common with the Lambda and nothing else.  It takes over
what matters to a reader of that table: a row has a time that no other row has,
it becomes visible later than its time, and so rows may appear out of order.

### How the model corresponds to the code

Each container `c` runs one invocation at a time; `pc[c]` is its next step.  A
step is one call to another service together with the local computation that
follows it.  The labels `data.get` ... `data.write` and `yml.get` are the places
in `main` between such calls; `schema.*` are the steps of `add_schema` (create,
insert, commit); `log.*` are those of `commit_log`, which is a procedure:
`CommitLog(c, status, then)` calls it, and `entry[c]` remembers its argument and
where `main` goes on.  `raise` is an exception that nobody catches, `except` the
bare `except` of the schema branch, `return` the end of `main`.

`conn[c]` is the transaction status of the connection.  A statement needs it to
be `idle` or `intrans`; a rejected statement makes it `inerror`, a lost
connection `closed`, and nothing but the end of the process changes these two,
because the program has no `rollback`.

Files are abstracted to what the properties tell apart.  A schema file has a
pattern, a version, a form (well formed, broken YAML, missing keys, rejected by
PostgreSQL) and a layout (usable, without `prefixes` or `data`, one on which
`extract_data` raises).  A data file has a publication date, a sequence of
readings - the primary keys of the items - and a form, one for every branch of
`main`: not GZIP, not UTF-8, not XML, undated, a date PostgreSQL rejects, a value
that makes `extract_data` raise, a value reported in a message that breaks the SQL
of `commit_log`, a reading without its DynamoDB key.

`logTime[c]` is `logger[0]`, read by `get_logger` and again after each commit, so
a row carries the time of the previous commit.  The clock `now` advances by some
`d \in Ticks` between two readings; `0 \in Ticks` lets two containers read the same
microsecond.  A container that has been to the server and back reads a later
time (`now + 1` in `CommitLogRow`).  There is one clock for all containers, which never goes
back, where `logs.py:30` and `:54` read `utcnow()` of the host each: `LoneRowIsNewest`, and
`FinalRowIsLatest` for an attempt that is tried again in another container, hold as far as
the hosts' clocks agree, to less than the time between two attempts.

The chunk loop is `WriteChunk`; `FlushSome` lets the batch writer send any part
of the chunk earlier, so that a crash leaves any part of it behind.

History variables and fields, which the program does not have: `alone[c]`, and the
field `of` of a log row (the attempt, what it had read, its schema).

### How the dashboard's model corresponds to the code

`page[s]` is what the browser of session `s` shows: the date in the input field, the
figure, the clicked marker and the message.  `calls[k]` is a callback under way in the
slot `k = <<session, output, number>>`, from the moment it is sent to the moment its
answer is taken or ignored; `at` is its next step on the server.

| Code | Actions |
|---|---|
| `init_date` (`app.py:164-172`) | `SetToday`, `ReturnDate` |
| `show_date_status` (`:196-237`) | `SetDate`, `ResetStatus`, `FillStatus`, `QueryStatus`, `WriteStatus` |
| `table_plot` (`:38-65`) | `PlotStatus`, once for each list of coordinates |
| `show_log` (`:240-279`) | `ShowLog` |
| a database that does not answer | `DbFails` |
| dash-renderer (external) | `Open`, `Tick`, `Select`, `Click` send calls; `Accept`, `Ignore` take answers |
| the Lambda, seen from here (external) | `Report` |

Every access of a callback to one of the two globals is a step of its own: the loops
append to and write into the global list entry by entry.  One list comprehension over it is
one step.  `threads` is how many callbacks the server runs at a time, any number up to the
bound `Workers`: Flask's server ran one before version 1.0 and runs a thread per request since,
and nothing in the repository says which version it is.  A minute of the day is a
number and not a pair of hour and minute; the trace of a status is a pair of sets of
minutes, one for each axis, because the two are read at different times.

dash-renderer is external code, modelled from the inputs and outputs that `app.py`
declares: a changed property calls the callbacks that have it as an input, except that
a callback waits for the answer of one that will set its input anyway (`DateAwaited`);
a call supersedes the earlier ones for the same output, whose answers are then ignored.

History fields: in a figure the date it was requested for (`of`) and the table at the time
of the query (`log`).

### How the other models correspond to the code

`ExtractData`.  A document is the sequence of its elements in document order, each with
its depth; a schema is a sequence of entries, already split at their commas and dots, which
is done by `split` and `strip` before anything else looks at them.  A frame of `stack` is a
call of `extract_data`, and `at` is the loop it is in: over the entries, over the nodes of
an entry (`MapNode`, `LeafNode`, `ListNode`, `NodesDone`), or over the options of a node
(`TryOption`, `OptionsDone`).  `taken` are the options whose `_` is deleted at the moment.
`Find` has the three forms of path that the sample schema uses.

`BatchWriter`.  `PutItem` is `put_item` with `overwrite_by_pkeys`; `Send` may take any part
of the buffer at any time, which is more than boto3 does (it sends 25 items when it has
them), and `Processed` may put any part of it back.

`ChunkLoop` is what `PreprocessLambda` makes of this, for one container: `stored` is its
`traffic_table`, the set of the keys that have an item; `sent` its variable of that name.  Its
`FlushSome` is `Processed`, its `WriteChunk` is `NextChunk`, and the other steps do nothing that
it sees.  In `PreprocessLambda` the reading without its key comes after all others; here it may
be anywhere, and `Reached` ends in front of it.  An exception leaves `main` only when the `with`
block has sent what it had: `state` is `raised` from the exception on, and the `WriteRaises` of
`PreprocessLambda` is the end of that phase, which is why keys may still be stored in it.

`Retriever`.  One action per command, and `Tick` between and during them.  A tick is five
seconds, a minute 12 of them; hours and days have three minutes, so that both roll over.

`Yaml...`.  A step of the scanner is one `fetch_...` function, a step of the parser the look
at one token, a step of the composer one event, a step of the constructor one run of a
generator.  They take turns as the calls of `check_token`, `check_event` and `get_node` make
them: the parser steps only when the scanner does not need more tokens, the composer only
when there is an event.  A text is a sequence of characters that ends with NUL; of the
character classes there are as many as the code tells apart.  The line and column of a mark
follow from the index.  The tag prefix `tag:yaml.org,2002:` is `tag:`, a float is its digits.
Before it was frozen the model was compared with the vendored library on some 24,000 random
texts without a difference; among what it reproduces: `! 1` is an int, `...` at the start of
a text is an error, `]` outside a collection makes the flow level -1, and `0b_`, `0x_` and
`._` raise `ValueError`.

`ConnectionPool`.  The lock makes each method one step.  `link[c]` is what is left of a
session: the server may have ended it without the client's knowledge (`down`), the client may
know (`unknown`, the status that `putconn` looks for), or the connection is closed.  A thread
may end and its ident be used again (`Exit`): in a persistent pool the next one inherits the
connection.  Threads use what they hold and give it back once; explicit keys are not passed
to a threaded pool.

`PgTypes`.  One connection, in autocommit or not, and a program that executes statements of
its own between calls of the register functions.  `Revert` is the code's "revert the status
of the connection as before the command"; `RangeQueryRaises` the rollback in `_from_db` when
its query raises.  `Read` sends values and reads back what `PgText` makes of the text that
the server prints.

## Runs

Bounds are constants named `Max...`, and they are guards of the model, not
constraints on states.  Two containers are enough for every race of the code,
whose steps involve one or two containers at a time.

| Run | Instance | Shows |
|---|---|---|
| `lambda_crash` | 2 containers, no tables yet, every form of schema and data file, 3 keys, 2 uploads, chunks of one reading, one kill, one failing call | `TypeOK`, `SucceededIsStored`, `NothingLeftOpen`, `SucceededHasSchema`, `FinalRowIsLatest`, `SchemasKept`, and `KeepsContract`: the refinement of `IngestContract` |
| `lambda_reprocess` | 2 containers with clocks that stand still between commits, one registered schema, two more uploads and a duplicate, two versions, two patterns, a key conflict | `NeverOlderSchema` |
| `lambda_settles` | 2 containers, fair, 2 uploads, one kill, two tries | `UploadsSettle`, `LoneRowIsNewest` |
| `dashboard_refresh` | 1 session, 2 days of one minute, 2 rows, 1 or 2 threads, one failing query; fair | `TypeOK`, `ShowsLatest`, `NeverOlderPlot` |
| `extract` | all documents of up to four elements of nine kinds, six schemas, chunks of two | `ExtractedAsWanted`, `OptionsPutBack`, `LaterReadingStays`, `DistinctKeys`, `WritesInChunks` |
| `retriever` | 8 minutes from any start, downloads of up to 9 ticks, one failure | `PublicationsCopied`, `CopiedOnce` |
| `yaml_load` | all texts of up to three of 28 pieces; every value of a bounded size in every style; examples | `LoadedAsWritten`, `EndsInTime`, `EveryObjectFilled`, `KeysInTime`, `TokensInOrder`, `IndentsGrow`, `NothingOpenAtEnd`, `EventsNest`: the refinement of `YamlEvents`, and `ParserSpec`: `yaml.load` uses the parser as the proofs about it assume |
| `pool` | both kinds, 3 threads, 5 connections, `minconn` 2, `maxconn` 3, 5 keys | `TypeOK`, `LentOnce`, `NothingLeaks`, `WithinLimit`, `PooledClean`, `PlacesComeBack`, `OwnConnection` |
| `pg_types` | autocommit or not, all ranges over two values, all rows and hstores of two texts out of ten awkward ones | `SamePoints`, `OrderConsistent`, `ReadAsSent`, `StatusReverted` |
| `lambda_raised` | violation | `RaisedIsLogged` |
| `lambda_registered` | violation | `SucceededIsRegistered` |
| `dashboard_threads` | violation, 2 sessions, 2 threads | `ShownAsLogged` |

Deadlock is not checked in the runs of the Lambda: when all uploads are processed and the
bounds are used up, it has nothing to do; the same holds for `extract` (one file) and for
`retriever` (its clock has a bound).  It is checked for the dashboard, whose interval fires for
ever, for the pool and the types, and for `yaml_load`, where it is part of the point: no
state but the end is without a step.

Why the bounds are enough.  A file with two chunks and a chunk size of one has a
first, an inner and a last boundary.  `SucceededIsStored` needs a schema and a data file
(two uploads), and a kill or a failing call between two chunks.  `lambda_crash` has no
duplicate and no retry, so no second attempt on a file gets as far as storing anything in
it: rivals, retries and a shorter last chunk are covered by the proof `SucceededStored`.
`NeverOlderSchema` needs two schemas and two attempts on the same data (one schema in the
table, two uploads and a duplicate).  The order of table creation matters only between two
containers that both find no table.

For the dashboard, a mixed figure needs two dates and two calls, of one session or of
two; an older figure needs two rows and two calls whose answers change places; two
calls per output are what lets one supersede the other.  Two statuses of the four are
enough, because a figure treats them alike.  `NeverOlderPlot` and `ShownAsLogged` are also
proved for a server with one thread, without any bound.  Neither holds of two threads: a slow
one writes the rows of an older query into the list that a later call draws, so that an older
figure replaces a newer one.  `NeverOlderPlot` therefore speaks of one thread only (its
instances with two are there for `TypeOK` and `ShowsLatest`), and compares the markers shown,
not only the times of the queries.

`extract`: four elements are enough for a node inside another of the same name, for an option
that fails before one that fits, for two readings of one key in different chunks, and for a
malformed number behind a well-formed one.  The reference, `Wanted`, is written from
`README.md:100-112` and from what the handlers of `extract_data` say, and not from its code:
every malformed value is marked `<parsing error>`, and every leaf has the key that the schema
gives it.  The code differs from it in two cases (see below).  So `ExtractedAsWanted` compares
what is *returned*, for queries whose leaves all have a node (`LeavesFound`), and says of an
exception only that there is a text which is no number.  Without these two restrictions TLC
finds both cases in the same instance.

`retriever`: eight minutes roll over the hour and the day twice; with a download of ten ticks
(50 seconds) instead of nine a publication is missed, which is the point where the loop skips a
minute.  `yaml_load`: three pieces reach every pair of adjacent tokens and every state of the
scanner; the written texts have three levels of nesting and merge keys that refer to mappings
with merge keys.  `MaxKeyLength` is 24 where the code has 1024.  `StepsPerCharacter` is 9: that
`yaml.load` ends is checked as a bound on its steps.  `pool`: three threads contend for one
more connection than the pool keeps, and one is left to be refused; `minconn < maxconn` makes
`putconn` close some and keep others.  `pg_types`: two values and the points beside them
distinguish all ranges; each awkward text could be taken for a part of the syntax around it.

Fairness.  `FairSpec` assumes that a running process takes its next step
eventually (it is a process on a machine), and that AWS delivers a queued event
to some container eventually (it is a queue).  It does not assume that anybody
uploads a file, that a container dies, or that a flush happens early.
For the dashboard, `FairSpec` assumes that the server works off every call, that an answer
that was sent arrives, and that the interval of an open page keeps firing
(`dcc.Interval`, `app.py:109-114`).  It does not assume that a user does anything or that
the Lambda reports.  `ShowsLatest` is checked with `Prompt`: the interval fires when the
session has no call under way.  The code does not enforce this; the interval is long
compared with a call.  Without it every refresh can supersede the figure that the
previous one has asked for, and a page may stay behind for ever; all other
properties, and the proofs, do without it.

`lambda_settles` allows one kill with two tries: with as many kills as tries AWS
gives up, and an upload need not settle.  It starts from existing tables and
well-formed files; `lambda_raised` shows what happens otherwise.

### Disagreements between the code and its documentation

* **An attempt that raises leaves no trace** (`lambda_raised`).  `find_schema` selects
  from a table that only `add_schema` creates.  A data file that arrives first makes
  the SELECT fail; nothing catches the exception, no row says that the file failed
  (the last one says `processing`), and the connection of the warm container stays
  aborted, so that every later file in it fails at its first statement.
  In the same way a schema that PostgreSQL refuses raises out of its own error handler: the bare
  `except` around `add_schema` logs the failure through the connection whose transaction the
  failure has just aborted (`lambda_function_xml.py:83-86`).
* **A changed schema is dropped and reported as succeeded** (`lambda_registered`),
  because the INSERT is `ON CONFLICT DO NOTHING`.
* **Threads mix figures** (`dashboard_threads`).  `README.md:132` says that the frontend
  "displays which files have been processed for a given date".  `current_date` and
  `upload_status` are module globals; between the assignment of the date and the query that
  uses it, and between the query and the plot, another thread may change them, so
  that a figure requested for one day shows rows of another.
* **One malformed number makes the whole file raise** (`lambda_raised`, whose instance has
  such a file).  The handlers of `extract_data` say "wrong value format" and "Writing
  <parsing error>" (`schemas_xml.py:170-176`, `239-245`), but they are for `ValueError`.
  `Decimal` raises `InvalidOperation`, which is an `ArithmeticError`: nothing is marked, `main`
  raises, and no reading of the file is stored.  (`int` and `strptime` raise `ValueError`, and
  are marked.)
* **A leaf without a node is stored under the tag** (no run of its own; `ExtractedAsWanted`
  leaves such documents out).  `README.md:104-105` says that a schema specifies for each tag
  "what key to output to in the resulting JSON (if different from the tag itself)".
  `field_name` becomes this key only inside the loop over the nodes (`schemas_xml.py:190`,
  `228`), so a tag that the document lacks puts its `<missing>` under its own name, and an
  array its empty list; the key is absent from the record.

Other things that the code does and no text clearly excludes are listed as hazards without a
property: the sessions of the dashboard share one date, so that a refresh gives one session the
day that somebody else has selected, or undoes a selection; `show_log` looks at the day in the
global and not at the one in its argument; an object name can combine two days, and repeats in the hour
that the end of summer time repeats; a thread can inherit a connection with an open
transaction from the one whose ident it has got; `register_range` rolls the program's own
transaction back when its query raises.

## Proofs

`LambdaProofs` proves the following for every value of the
constants that satisfies the assumptions `MaxFaultsAssumption`, `TicksAssumption`,
`SchemaAssumption`, `LambdaAssumption` and `NoneAssumption` (the types of the constants,
`ChunkSize` and `MaxTries` not zero, no body that is both a schema and a data file, `None` no
event).  The set of containers, keys, patterns, readings and files, and all bounds, are
arbitrary.

* `TypeCorrect`: `Spec => []TypeOK`.  `TypeOK` is not inductive: that a container which
  parses data has data in hand rests on where it has been.  `TypeInv` adds
  `ObjectsOK` (an event names an object that exists and is of the kind its name
  says) and `HandOK(c)`, which says what a container has in hand at each label
  *and at each label it will return to from `commit_log`* (`Heads`).
* `SucceededStored`: `Spec => []SucceededIsStored`.  `Sent(c)` says that the chunks before
  the index are stored, through the commits of log rows in between, that the
  index is zero before the loop, and that the whole file is stored once `commit_log`
  has been called with `succeeded`.
* `ClosedOutside`: `Spec => []NothingLeftOpen`, with the addition that an insertion into
  `xml_schemas` starts on an idle connection.
* `SchemasStay`: `Spec => SchemasKept`, and `SucceededRegistersKey`:
  `Spec => []SucceededHasSchema`, with `AddedOK(c)`: once `add_schema` has returned, and
  until `commit_log` has written its row, the key is in the table.

* `FinalIsLatest`: `Spec => []FinalRowIsLatest`.  It rests on what an attempt is: of the tries
  of one delivery at most one is waiting or running, and those that have written rows came
  before it (`EventsInv`), so that nobody else writes rows of this attempt.  `OrderInv` adds that
  the logger of a container is newer than the rows it has written and older than the clock, and
  that after a verdict `main` returns.
* `LambdaImplementsContract`: `Spec => KeepsContract`, the refinement of `IngestContract`, step by
  step: the commit of a row is a `Publish`, a flush or the end of a chunk a `Store`, all else a
  stutter.  `AnnouncedInv` says that from `data.parse` on the attempt has a row, which the
  contract asks for before anything is stored.
* `SchemaNeverOlder`: `Spec => NeverOlderSchema`, with `FoundInv`: the schema of a row, or in
  hand, matches the file.  As registered schemas stay (`SchemasGrow`), it still matches when the
  file comes again.
* `LoneNewest`: `Spec => LoneRowIsNewest`, with `LoneInv`: while no other attempt on its file
  overlaps, a logger is newer than all rows of the file.

`DashboardProofs` assumes only `DashboardAssumption` (the types of the
constants, finitely many sessions, distinct statuses with -1 among them).

* `SerialShown`: `Spec => [](threads = 1 => ShownAsLogged)`, for any number of sessions
  and calls, with failing queries.  `SerialInv` holds while `threads` is 1, which no step
  changes.  It says that at most one call is executed (from `Cardinality(Running) < threads`
  and the finiteness of the slots), and `Stage` says what that call has made of the globals
  at each of its labels: the list has its first
  entries, all of them in gray, the final status where no row is left to be written, or
  all final statuses.  `LatestStatus` and `BeforeOne` are the lemmas on which the
  loop over the rows rests: the joined query returns one row per minute, the latest.
* `NeverOlder`: `Spec => NeverOlderPlot`, which is about a server with one thread.
  `SerialInv`, before and after the step, says that both figures show the log that their own
  calls have queried.  `NewerInv` says which of these came first: a session waits for at most
  one call per output (`OneCurrent`), and the figure of a page was queried no later than a
  figure that it still waits for.  It is kept because a call queries the table after it was
  sent, and sending it supersedes the earlier ones.  This half holds of any number of threads,
  but with several it is about the queries only and not about what is shown.
* `DashboardTypes`: `Spec => []TypeOK`.  `TypedInv` says of each call, by its output and the
  place it has reached, what it carries: that an answer which is accepted is complete is why the
  page it goes to keeps its type.

All rest on two descriptions that do not depend on the property: `Browsed`, what the
browsers do to the calls, and one lemma per step of the server (`Moved`).

`DataFileProofs` assumes `BatchAssumption` (a chunk size of at least one, no key or item that is the
mark for none) and proves, for every sequence of readings, `LaterStays`, `WholeStored` and
`KeysDistinct` of `BatchSpec`.  The invariant `Inv` adds to the three properties that no two
items of the buffer *and* the request in flight have one key (`OneOfAKey`) - else an item that
comes back could overtake a later one - and that a chunk is complete when it is flushed.
`DataFile` takes the readings from the extraction and otherwise has the same steps.

`BatchesAreChunks`, `BatchSpec => WritesInChunks`, is the refinement of `ChunkLoop`, from the same
assumption.  A request that is processed must store keys of the current chunk only, and a chunk
that is left must be in the table, so `InChunk` says of the readings put in the current chunk
that each has its key, and that its key is stored, buffered or in flight unless a request has
failed; and that what is buffered or in flight is among them.  Every step is then one of
`ChunkLoop` or changes nothing of it.

It also proves `OptionsReturned`, `Spec => []OptionsPutBack` of `DataFile`, for every set of
documents and schemas of which `NestedOptions(inside)` holds for some `inside`: no option lies
within itself, which a schema read from a file satisfies unless it has an anchor around its own
alias.  (The instance for TLC assumes it of its schemas, with `PartsOf` for `inside`.)  `NestInv`
says that of the calls on the stack each but the last waits in its loop, and that the calls
above an option that is being tried look at entries that do not have this option within them:
so nobody meets it without its `_`, and the one to put it back is the one that has deleted it.
`ExtractAssumption` says that `None` is not among the outcomes it is compared with.

`RetrieverProofs` assumes `RetrieverAssumption` (a minute, an hour and a day are not empty, the
publication is not after the second the script waits for) and `Lag <= Published`, and proves
`CopiesOnce`, `Spec => []CopiedOnce`.  `OnceInv` names the minute `r` in which the round has read
the clock: nothing of `r` has been copied when it goes on, and it asks before the publication in
`r + 1`.  The hypothesis is needed: with `Lag = 9` and `Published = 8` TLC finds a publication
that is copied twice.  The script itself gives 42 seconds between the two.

`CopiesAll`, `Spec => []PublicationsCopied`, needs more, which `Prompt` says: an hour has more
than one minute, a round that comes too early is followed by one that is in time
(`Ripe + Nap + Lag < Minute`), and so is a round that downloads (`MaxDownload + Nap + 2 * Lag <=
Minute`).  The last bound is sharp: the run `retriever` has 12 on both sides, and with a download
of one tick more TLC finds a publication that is missed.  `OnTime(h)` is the schedule, with the
last minute `h` that a file was downloaded in: at each command, how late the clock may be for the
next round to fall into the end of minute `h + 1`.  `Lost(h)` are the publications up to `h` that
are neither copied nor in hand; each has cost a fault, also before the next one replaces it.

`YamlProofs` proves five theorems about the scanner and the parser for *every* text and *every*
caller (`ParserSpec`): between the parser's steps the caller may take an event, go on without one,
return or raise.  `yaml.load` is such a caller, which the run `yaml_load` checks; it is not itself
in the prover's reach because the constructor is recursive.  The hypothesis `NoneApart` says
that `None` is neither the name of a state nor an event.

* `ParserImplementsEvents`: `ParserSpec => EventsNest`.  The refinement mapping `Open` reads what
  is open off the parser's stack of states (`Around`, `Waits`).  `StackOK` says that the stack
  holds only functions that are called back, begins with `DocumentEnd` inside a document and is
  empty outside.  For each function of the parser a lemma says what it does to the stack
  (`Popped`, `Pushed`, `Went`), and one says which step of `YamlEvents` this is.
* `ParserEndsEmpty`: `ParserSpec => []NothingOpenAtEnd`, the two assertions of
  `parse_document_start`.  `MarksOK` says that there is one mark per collection whose first entry
  has been looked for, which is counted over the stack of states.
* `LevelsGrow`, `KeysComeInTime` and `TokensOrdered`: `IndentsGrow`, `KeysInTime` and
  `TokensInOrder` hold in `ParserSpec /\ TextOK`.  They share the invariant `ScanInv`.
  `TokensInOrder` is not inductive: a token may be put behind the queue only because what is in the
  queue ends before the reader (`Line`), and `KEY` before a token of the queue only because the key
  still numbers the token at its own position (`InQueue`, which is the part of `KeysFit` that
  `KeysInTime` follows from).  A key whose line has ended need not: it is stale, stays stale
  (`StaleStays`), and is dropped before anybody looks it up.  A step of the parser takes a token
  only if no key waits for it (`NumbersBehind`).

The invariant needs that a step of `fetch_more_tokens` leaves the reader behind the first
character of its token (`FetchMoves`), so that every function that reads the text must be shown to
return a later position of it, or to fail: `AnchorLeads`, `TagLeads`, `DirectiveLeads`,
`QuotedLeads`, `PlainLeads`, `BlockLeads`.  Six loops - over blanks and comments, URIs, quoted
scalars, words, empty lines and the lines of a block - are recursive functions on positions in
the model.  `Descent` has the argument once, with the right-hand side, the rank and the property
as constant operators, and is instantiated for each loop, with what is left of the text for the
rank: if every value is good by itself or follows from the value at one argument of lower rank,
the function exists (it is made rank after rank) and all values are good (else there is one of
least rank that is not).  That a later position is asked for is
where the loops could go wrong: an escape at the end of the text, a block scalar of empty lines, a URI
whose escape is cut off.  The only assumptions are `KeyLengthAssumption` (`MaxKeyLength` is a
natural number) and `TextOK`: the text has a length.  `text` is a variable that no step changes and
that `ParserSpec` gives no value, so that it stands for any text; `TextOK` says that it is one.

`PoolProofs` assumes `PoolAssumption` (finitely many threads and connections, `minconn <=
maxconn`, distinct kinds of values) and proves all seven properties of the run `pool` for any
number of threads and connections and both kinds of pool: `PoolTypeCorrect`, `PoolLendsOnce`,
`PoolLeaksNothing`, `PoolIsClean`, `PoolPlacesComeBack`, `PoolOwnConnection` and
`PoolWithinLimit`.  None but `TypeOK` is inductive alone.  `Inv` says that the two dictionaries
are inverse to each other and know what the threads hold (`Books`), that the list has no
connection twice (`Distinct`), that no two threads hold one (`Apart`), that what is open is
pooled or under a key (`Known`), and that the keys of a threaded pool are those made so far
(`Made`).  `Limit` bounds the connections the pool keeps, pooled and lent: the code tests
only the lent ones, and only when the pool is empty, when they are all it has.

`PgProofs` proves all four properties of the run `pg_types`, for any values, texts and bounds.  It
assumes `RangeAssumption` (the values are integers; `None` is neither an integer nor a pair of
brackets), `TextAssumption` (texts are sequences of characters, of which the special ones are
some; the text of a number is not empty and needs no quotes), `BoundAssumption` (a row has finitely
many fields) and `SpreadAssumption`: between two values there is a point, so that the integers
stand for a type such as numeric.

* `RangeOrderTotal`, `RangeOrderTransitive` and `RangeComparisonsAgree` say of `Range.__lt__` and
  its kin what `sort` and `bisect` need, through the lemmas that missing bounds and missing flags
  come first in a total order.  `RangeHoldsAsServer` says that `Range.__contains__` has the points
  that the server gives to the range, empty ranges and missing bounds included.
* `RowsAndHstoresReadAsSent`, `RangesReadHaveSamePoints` and `RangesReadOrdered`:
  `Spec => []ReadAsSent`, `[]SamePoints` and `[]OrderConsistent`.  `ReadInv` says what is behind
  them: what is read is the range that the server made of the one sent, and a row or an hstore as
  it is.  That the parser undoes what the server prints, for every text, rests on one lemma for each
  kind of quoting: `QuotedDoubled` and `InEscapesEscaped` (the regular expression ends at the
  closing quote and at no quote of the text), `UndoubleDoubled` and `UnescapeEscaped` (what it has
  is the text).  `PartIs` says it of one bound or field up to its delimiter, `RangeParsed`,
  `RowReadBack` and `PairsReadBack` of a range, a row and the pairs of an hstore, whatever stands
  next to each other; `HstoreReadBack` says that no key is lost on the way through a dictionary.
  `RangeReadBack` and `NumberSent` do not use the order of the values: the texts of two of them
  need only be distinct.
* `RegistrationReverts` is `Spec => StatusReverted`, with `SessionInv`: what the connection
  believes about its transaction agrees with the server, and there is work only inside a
  transaction.

The functions of `PgText` are recursive functions on sequences of characters.  The prover knows no
induction rule with an operator for the hypothesis; `SequenceInduction` has a *set* of sequences in
its place, which it can instantiate, and follows from the well-foundedness of lengths
(`Descent!LeastNumber`).  `Descent` gives each function its equation.

Only model-checked, and why:

* `UploadsSettle` and `ShowsLatest` are liveness under fairness, which is out of the prover's
  reach.
* `ExtractedAsWanted`, `LoadedAsWritten`, `EveryObjectFilled` and `EndsInTime` compare a program
  with a recursive definition or go through `YamlConstructor`, which is one; what it computes for
  every input needs induction over data.

## What is not modelled

* The text of log messages, SQL and plots, except where it changes the control
  (a quote in a message).
* `DecimalEncoder` (`lambda_function_xml.py:38-46`), which nothing uses.
* The values of the items in DynamoDB: the models have their primary keys.
* Of the dashboard: the hover text and the layout of the plot, the link of the message, and
  the text of a message, for which its row stands.
* Of the retriever: summer time, and objects that overwrite one another.
* Of PyYAML: the decoding and the buffer of `reader.py`, escapes of more than one byte in tags,
  the tags `python/*` and `binary`, timestamps with a time of the day, and the dumping half
  (`emitter.py`, `representer.py`, `serializer.py`), which the program never runs.
* Of psycopg2: the compiled core but for its transaction status; `sql.py`, `_json.py`, `tz.py`,
  the cursor classes, UUID and inet adapters and `execute_batch`/`execute_values` of
  `extras.py`, which keep no state or pass it on; `errorcodes.py`, which is a table.  Texts
  that no server prints, and servers before 9.2.  Explicit keys of a threaded pool, `minconn >
  maxconn` (then the limit is never met), and threads that use a connection after they have
  given it back.
* The deployment script, which has no state that outlives it.

## Plan

Done, in this order: the Lambda with its log and registry, the dashboard, the extraction and
the batch writer, the retriever, `yaml.load`, the connection pool, the registered types.

Left:

1. The pool composed with `PgTypes`, whose register functions run on a pooled connection.
2. Of the libraries, if the program comes to use them: `execute_values` and its pages, the
   named cursors of `extras.py`, and the emitter of PyYAML against `YamlWriter`.
