------------------------------ MODULE ChunkLoop ------------------------------
(***************************************************************************)
(* What the loop of `main' that writes the readings of a file does to the  *)
(* table, as one container's FlushSome and WriteChunk of PreprocessLambda  *)
(* have it: it goes through the file in chunks; the keys of a chunk appear *)
(* in any order and number, those of later chunks not before it is         *)
(* complete; and it does not get past a reading without its key.           *)
(***************************************************************************)
EXTENDS Integers, Sequences

CONSTANTS Key, NoKey, ChunkSize

VARIABLES
  readings,   \* the keys of the readings of the file, or NoKey
  sent,       \* how many readings are in the chunks that are complete
  stored      \* the keys of the items in the table

loopVars == <<readings, sent, stored>>

ChunkEnd == IF Len(readings) < sent + ChunkSize THEN Len(readings) ELSE sent + ChunkSize

\* The readings of the chunk, up to one without its key.
Reached == {i \in (sent + 1)..ChunkEnd : \A j \in (sent + 1)..i : readings[j] # NoKey}

Chunk == {readings[i] : i \in Reached}

LoopInit == readings \in Seq(Key \cup {NoKey}) /\ sent = 0 /\ stored = {}

\* The readings come out of extract_data.
Extracted ==
  /\ readings = <<>> /\ readings' \in Seq(Key \cup {NoKey})
  /\ UNCHANGED <<sent, stored>>

\* Some readings of the chunk are stored.
FlushSome ==
  /\ \E part \in SUBSET Chunk : stored' = stored \cup part
  /\ UNCHANGED <<readings, sent>>

\* The chunk is left, with all of its readings in the table.
WriteChunk ==
  /\ sent < ChunkEnd /\ Reached = (sent + 1)..ChunkEnd
  /\ stored' = stored \cup Chunk
  /\ sent' = ChunkEnd
  /\ UNCHANGED readings

LoopNext == Extracted \/ FlushSome \/ WriteChunk

LoopSpec == LoopInit /\ [][LoopNext]_loopVars
=============================================================================
