----------------------------- MODULE BatchWriter -----------------------------
(***************************************************************************)
(* lambda_function_xml.py: the loop of `main' that writes the extracted    *)
(* readings to DynamoDB, in chunks, each through a batch writer of its own *)
(* that is told the primary key (overwrite_by_pkeys).                      *)
(*                                                                         *)
(* The batch writer is boto3's: it buffers the items, sends some of the    *)
(* buffer whenever it likes and gets back those that DynamoDB did not      *)
(* process; leaving the `with' block sends what is left.  DynamoDB rejects *)
(* a batch that holds two items of one key.                                *)
(***************************************************************************)
EXTENDS Integers, Sequences, FiniteSets

CONSTANTS
  Key,         \* the primary keys: measurementSiteReference, measurementTimeDefault
  NoKey,       \* an item that lacks a part of its key, or is no record
  NoItem,      \* no item is stored under the key
  ChunkSize    \* chunk_size

\* A reading is known by its key and its place in the file.
Item == [key: Key \cup {NoKey}, at: Nat]

ASSUME BatchAssumption ==
  ChunkSize \in Nat \ {0} /\ NoKey \notin Key /\ NoItem \notin Item

VARIABLES
  data,      \* the readings of the file
  start,     \* the loop variable i: the number of items in earlier chunks
  done,      \* the place in the file of the last item put
  buffer,    \* the batch writer's buffer
  sending,   \* the items of the request in flight
  state,     \* "put", "flush" (leaving the with block), "written", "raised"
  table      \* table[key]: the item that DynamoDB holds, or NoItem

batchVars == <<data, start, done, buffer, sending, state, table>>

\* j: where the current chunk ends.
ChunkEnd == IF Len(data) < start + ChunkSize THEN Len(data) ELSE start + ChunkSize

\* The buffer is a set: its items have different keys and only the order of
\* equal keys could matter.
Without(items, key) == {item \in items : item.key # key}

\* Mutant: no overwrite_by_pkeys; the buffer may hold two items of a key.
Appended(items, item) == items \cup {item}

Replaced(items, item) == Without(items, item.key) \cup {item}

\* batch.put_item of the next item of the chunk.
PutItem ==
  /\ state = "put" /\ sending = {} /\ done < ChunkEnd
  /\ data[done + 1].key # NoKey
  /\ buffer' = Replaced(buffer, data[done + 1])
  /\ done' = done + 1
  /\ UNCHANGED <<data, start, sending, state, table>>

\* An item without its key raises; __exit__ still sends the buffer.
PutRaises ==
  /\ state = "put" /\ sending = {} /\ done < ChunkEnd
  /\ data[done + 1].key = NoKey
  /\ state' = "raised"
  /\ UNCHANGED <<data, start, done, buffer, sending, table>>

\* A batch_write_item request.
Send ==
  /\ sending = {} /\ state # "written"
  /\ \E batch \in SUBSET buffer \ {{}} :
       sending' = batch /\ buffer' = buffer \ batch
  /\ UNCHANGED <<data, start, done, state, table>>

RepeatsKey(items) ==
  \E item, other \in items : item # other /\ item.key = other.key

\* DynamoDB stores some of the items; the others go back to the buffer.
Processed ==
  /\ sending # {} /\ ~RepeatsKey(sending)
  /\ \E stored \in SUBSET sending :
       /\ table' = [key \in Key |->
            IF \E item \in stored : item.key = key
              THEN CHOOSE item \in stored : item.key = key ELSE table[key]]
       /\ buffer' = buffer \cup (sending \ stored)
  /\ sending' = {}
  /\ UNCHANGED <<data, start, done, state>>

\* The request fails: an exception leaves main.
Refused ==
  /\ sending # {}
  /\ sending' = {} /\ state' = "raised"
  /\ UNCHANGED <<data, start, done, buffer, table>>

\* The items of the chunk are put: the with block is left.
EndOfChunk ==
  /\ state = "put" /\ sending = {} /\ done = ChunkEnd
  /\ state' = "flush"
  /\ UNCHANGED <<data, start, done, buffer, sending, table>>

\* Mutant: the batch writer is flushed once, and what comes back is forgotten.
Forgets ==
  /\ state = "flush" /\ sending = {}
  /\ IF start + ChunkSize < Len(data)
       THEN start' = start + ChunkSize /\ done' = start + ChunkSize /\ state' = "put"
       ELSE state' = "written" /\ UNCHANGED <<start, done>>
  /\ buffer' = {}
  /\ UNCHANGED <<data, sending, table>>

\* Everything is sent: the next chunk, or the end of the loop.
NextChunk ==
  /\ state = "flush" /\ sending = {} /\ buffer = {}
  /\ IF start + ChunkSize < Len(data)
       THEN start' = start + ChunkSize /\ done' = start + ChunkSize /\ state' = "put"
       ELSE state' = "written" /\ UNCHANGED <<start, done>>
  /\ UNCHANGED <<data, buffer, sending, table>>

BatchInit ==
  /\ data \in Seq(Item)
  /\ start = 0 /\ done = 0 /\ buffer = {} /\ sending = {}
  /\ state = "put"
  /\ table = [key \in Key |-> NoItem]

BatchNext ==
  \/ PutItem \/ PutRaises \/ Send \/ Processed \/ Refused \/ EndOfChunk \/ NextChunk

BatchSpec == BatchInit /\ [][BatchNext]_batchVars

-----------------------------------------------------------------------------
\* The latest of the readings put so far with the key is the i-th.
IsLatest(i, key) ==
  /\ i \in 1..done /\ data[i].key = key
  /\ \A j \in (i + 1)..done : data[j].key # key

\* What the key holds once everything buffered or in flight is stored.
WillHold(key, item) ==
  IF \E w \in buffer \cup sending : w.key = key
    THEN item \in buffer \cup sending ELSE table[key] = item

\* Of two readings with one key the later one is stored, whatever the batches,
\* the items DynamoDB sends back and the chunks are.
LaterReadingStays ==
  state # "raised" =>
    \A key \in Key :
      /\ \A i \in 1..done : IsLatest(i, key) => WillHold(key, data[i])
      /\ (\A i \in 1..done : data[i].key # key) => WillHold(key, NoItem)

\* No request holds two items of one key: DynamoDB would reject it.
DistinctKeys == ~RepeatsKey(sending)

-----------------------------------------------------------------------------
\* The loop as ChunkLoop has it, where only the keys of the readings count.
KeyAt == [i \in DOMAIN data |-> data[i].key]
Complete == IF state = "written" THEN Len(data) ELSE start
Stored == {key \in Key : table[key] # NoItem}

Loop == INSTANCE ChunkLoop WITH readings <- KeyAt, sent <- Complete, stored <- Stored

\* The loop writes chunk by chunk: no reading of a chunk is stored before the
\* chunks in front of it are, and none is missing when it goes on or ends,
\* whatever the requests take, send back or refuse (main; PreprocessLambda's
\* FlushSome and WriteChunk take it for granted).
WritesInChunks == Loop!LoopSpec
=============================================================================
