--------------------------- MODULE ReliableStream ---------------------------
(***************************************************************************)
(* What one direction of a connection promises: a stream of numbered       *)
(* blocks.  The application writes the next ones and the application at    *)
(* the other end reads them, each once and in order.  Transfer implements  *)
(* it (src/src/socket.rs, send and recv).                                  *)
(***************************************************************************)
EXTENDS Naturals, Sequences

CONSTANT MaxBlocks     \* bound: blocks written

VARIABLES
  written,             \* how many blocks were written
  delivered            \* the blocks that were read, in order

streamVars == <<written, delivered>>

StreamInit == written = 0 /\ delivered = <<>>

Write ==
  /\ written' \in (written + 1) .. MaxBlocks
  /\ UNCHANGED delivered

Read ==
  /\ Len(delivered) < written
  /\ delivered' = Append(delivered, Len(delivered) + 1)
  /\ UNCHANGED written

StreamSpec == StreamInit /\ [][Write \/ Read]_streamVars
=============================================================================
