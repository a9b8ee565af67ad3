----------------------------- MODULE SndBuffer -----------------------------
(***************************************************************************)
(* The send buffer, src/src/queue/snd_buffer.rs.                           *)
(*                                                                         *)
(* A buffer is the sequence of the payloads of its blocks (the VecDeque)   *)
(* and a position: how many blocks from the front have been handed out by  *)
(* fetch_batch.  A payload is the number of the block in the stream the    *)
(* application writes, 1, 2, 3, ..., so that two blocks never look alike.  *)
(* The message number, position flag and time to live of a block are not   *)
(* kept: send() is the only caller and always passes `None` as the ttl, so *)
(* has_expired is false and read_data never drops a message.               *)
(***************************************************************************)
EXTENDS Integers, Sequences

CONSTANTS
  SND_BUF_SIZE,       \* configuration.snd_buf_size, in blocks
  FETCH_BATCH_SIZE    \* most blocks handed out by one fetch_batch

ASSUME SndBufferAssumption ==
  SND_BUF_SIZE \in Nat \ {0} /\ FETCH_BATCH_SIZE \in Nat \ {0}

(* The two arms of add_message: a message of `chunks` blocks is taken      *)
(* whole or refused with OutOfMemory.                                      *)
HasRoom(buffer, chunks) == Len(buffer) + chunks <= SND_BUF_SIZE

AddMessage(buffer, written, chunks) ==
  buffer \o [i \in 1 .. chunks |-> written + i]

(* ack_data pops `offset` blocks, or all there are.                        *)
NumPopped(buffer, offset) == IF offset <= Len(buffer) THEN offset ELSE Len(buffer)

SndAckData(buffer, offset) ==
  SubSeq(buffer, NumPopped(buffer, offset) + 1, Len(buffer))

(* Mutant of HasBlock: the last block is taken for missing.                *)
HasBlockShort(buffer, offset) == offset < Len(buffer) - 1

(* read_data: the block at an offset, if there is one.                     *)
HasBlock(buffer, offset) == offset < Len(buffer)
ReadData(buffer, offset) == buffer[offset + 1]

(* Mutant of BatchBlock: the position is not advanced within a batch.      *)
BatchBlockStuck(buffer, position, i) == buffer[position + 1]

(* fetch_batch: how many blocks from the position on, and the i-th one.    *)
BatchLen(buffer, position) ==
  IF position + FETCH_BATCH_SIZE <= Len(buffer)
  THEN FETCH_BATCH_SIZE ELSE Len(buffer) - position

BatchBlock(buffer, position, i) == buffer[position + i]
=============================================================================
