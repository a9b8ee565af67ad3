-------------------------- MODULE LifecycleProofs --------------------------
(***************************************************************************)
(* What Lifecycle promises to the users of a connection, for any number of *)
(* blocks, buffer size, readers, writers and calls of close() side by      *)
(* side.                                                                   *)
(***************************************************************************)
EXTENDS Lifecycle, TLAPS

(* A read that has failed found a dead connection.                         *)
ReaderInv == \A e \in Ends : reader[e] = "failed" => ~IsAlive(e)

(* The packet with data that the worker has in hand was transmitted.       *)
WorkerInv == \A e \in Ends : rworker[e] = "data" => got[e] < sent[Peer(e)]

(* A close() that has left its linger loop in time has everything that was *)
(* written before it acknowledged.                                         *)
CloseInv ==
  /\ \A t \in Tasks :
       /\ due[t] <= snd[t[1]]
       /\ closer[t] = "shutdown" /\ IsAlive(t[1]) => due[t] <= acked[t[1]]
  /\ \A e \in Ends : promise[e] <= acked[e]

(* The inductive invariant.                                                *)
IInv ==
  /\ TypeOK
  /\ WorkerInv
  /\ ReaderInv
  /\ CloseInv
  /\ GracefulClose
  /\ NoFalseEnd
  /\ NoLostReader

(* The two ends are each other's peers, and a task belongs to an end.      *)
LEMMA PeerFacts ==
  /\ \A e \in Ends : Peer(e) \in Ends /\ Peer(e) # e /\ Peer(Peer(e)) = e
  /\ \A e, d \in Ends : d = e \/ d = Peer(e)
  /\ \A t \in Tasks : t[1] \in Ends
  /\ \A e \in Ends : <<e, "gc">> \in Tasks
PROOF
  BY LifecycleAssumption DEF Ends, Peer, Tasks, UserTasks

LEMMA InitInv == Init => IInv
PROOF
  BY PeerFacts, LifecycleAssumption
  DEF Init, IInv, TypeOK, BlocksInOrder, WorkerInv, ReaderInv, CloseInv,
      GracefulClose, NoFalseEnd, NoLostReader, Statuses, ReaderSteps, WorkerSteps,
      CloserSteps, IsAlive, HasData

(* Types are kept, and the order of the blocks.                            *)
LEMMA TypeStep == TypeOK /\ WorkerInv /\ [Next]_vars => TypeOK' /\ WorkerInv'
PROOF
<1> DEFINE Kept == TypeOK' /\ WorkerInv'
<1> SUFFICES ASSUME TypeOK, WorkerInv, [Next]_vars PROVE Kept
    OBVIOUS
<1> USE PeerFacts, LifecycleAssumption
<1> USE DEF TypeOK, WorkerInv, BlocksInOrder, connVars, sendVars, recvVars, closeVars,
        netVars
<1>1. ASSUME NEW e \in Ends, PollWrite(e) PROVE Kept
      BY <1>1 DEF PollWrite
<1>2. ASSUME NEW e \in Ends, PollFlush(e) PROVE Kept
      BY <1>2 DEF PollFlush
<1>3. ASSUME NEW e \in Ends, WriterWaits(e) PROVE Kept
      BY <1>3 DEF WriterWaits
<1>4. ASSUME NEW e \in Ends, Transmit(e) PROVE Kept
      BY <1>4 DEF Transmit
<1>5. ASSUME NEW e \in Ends, TakeData(e) PROVE Kept
      BY <1>5 DEF TakeData, Looks, WorkerSteps
<1>6. ASSUME NEW e \in Ends, ProcessData(e) PROVE Kept
      BY <1>6 DEF ProcessData, ThenTimers, WorkerSteps
<1>7. ASSUME NEW e \in Ends, TakeAck(e) PROVE Kept
      BY <1>7 DEF TakeAck, Looks, WorkerSteps
<1>8. ASSUME NEW e \in Ends, ProcessAck(e) PROVE Kept
      BY <1>8 DEF ProcessAck, AckNumber, WakeAckWaiters, ThenTimers, WorkerSteps, CloserSteps
<1>9. ASSUME NEW e \in Ends, TakeShutdown(e) PROVE Kept
      BY <1>9 DEF TakeShutdown, Looks, WorkerSteps
<1>10. ASSUME NEW e \in Ends, ProcessShutdown(e) PROVE Kept
      BY <1>10 DEF ProcessShutdown, NotifyAll, WakeReader, ThenTimers, WorkerSteps, ReaderSteps, Statuses
<1>11. ASSUME NEW e \in Ends, AckTimer(e) PROVE Kept
      BY <1>11 DEF AckTimer, Looks, WorkerSteps
<1>12. ASSUME NEW e \in Ends, SendAck(e) PROVE Kept
      BY <1>12 DEF SendAck, WakeReader, WorkerSteps, ReaderSteps
<1>13. ASSUME NEW e \in Ends, ExpTimer(e) PROVE Kept
      BY <1>13 DEF ExpTimer, Silence, Looks, WorkerSteps
<1>14. ASSUME NEW e \in Ends, Expire(e) PROVE Kept
      BY <1>14 DEF Expire, WorkerSteps, Statuses
<1>15. ASSUME NEW e \in Ends, TimersChecked(e) PROVE Kept
      BY <1>15 DEF TimersChecked, WorkerSteps
<1>16. ASSUME NEW e \in Ends, Recv(e) PROVE Kept
      BY <1>16 DEF Recv, ReaderSteps
<1>17. ASSUME NEW e \in Ends, PollRead(e) PROVE Kept
      BY <1>17 DEF PollRead, ReadBuffer, HasData, ReaderSteps
<1>18. ASSUME NEW e \in Ends, ReaderWaits(e) PROVE Kept
      BY <1>18 DEF ReaderWaits, ReaderSteps
<1>19. ASSUME NEW e \in Ends, RecvReturns(e) PROVE Kept
      BY <1>19 DEF RecvReturns, ReadBuffer, HasData, ReaderSteps
<1>20. ASSUME NEW e \in Ends, CollectBroken(e) PROVE Kept
      BY <1>20 DEF CollectBroken, CloserSteps
<1>21. ASSUME NEW e \in Ends, CollectClosing(e) PROVE Kept
      BY <1>21 DEF CollectClosing, Statuses
<1>22. ASSUME NEW t \in Tasks, UserCloses(t) PROVE Kept
      BY <1>22 DEF UserCloses, CloserSteps
<1>23. ASSUME NEW t \in Tasks, TaskCloses(t) PROVE Kept
      BY <1>23 DEF TaskCloses, CloserSteps
<1>24. ASSUME NEW t \in Tasks, Linger(t) PROVE Kept
      BY <1>24 DEF Linger, CloserSteps
<1>25. ASSUME NEW t \in Tasks, CloserWaits(t) PROVE Kept
      BY <1>25 DEF CloserWaits, CloserSteps
<1>26. ASSUME NEW t \in Tasks, SendShutdown(t) PROVE Kept
      BY <1>26 DEF SendShutdown, CloserSteps
<1>27. ASSUME NEW t \in Tasks, SetClosing(t) PROVE Kept
      BY <1>27 DEF SetClosing, NotifyAll, WakeReader, ReaderSteps, Statuses, CloserSteps
<1>28. CASE UNCHANGED vars
      BY <1>28 DEF vars
<1> QED
    BY <1>1, <1>2, <1>3, <1>4, <1>5, <1>6, <1>7, <1>8, <1>9, <1>10, <1>11,
       <1>12, <1>13, <1>14, <1>15, <1>16, <1>17, <1>18, <1>19, <1>20, <1>21,
       <1>22, <1>23, <1>24, <1>25, <1>26, <1>27, <1>28 DEF Next, CloseStep, WorkerGoesOn

(* Where nothing is left to read, everything has been read.                *)
LEMMA AllRead ==
  TypeOK => \A d \in Ends : ~(read[d] < readable[d]) => read[d] = readable[d]
PROOF
<1> SUFFICES ASSUME TypeOK, NEW d \in Ends
             PROVE  ~(read[d] < readable[d]) => read[d] = readable[d]
    OBVIOUS
<1>1. read[d] \in Nat /\ readable[d] \in Nat /\ read[d] <= readable[d]
      BY DEF TypeOK, BlocksInOrder
<1> QED
    BY <1>1

(* Readers: what a failed, a woken and a sleeping read have found.         *)
LEMMA ReaderStep ==
  TypeOK /\ ReaderInv /\ NoFalseEnd /\ NoLostReader /\ [Next]_vars
    => ReaderInv' /\ NoFalseEnd' /\ NoLostReader'
PROOF
<1> DEFINE Kept == ReaderInv' /\ NoFalseEnd' /\ NoLostReader'
<1> SUFFICES ASSUME TypeOK, ReaderInv, NoFalseEnd, NoLostReader, [Next]_vars
             PROVE  Kept
    OBVIOUS
<1> USE PeerFacts
<1> USE DEF TypeOK, ReaderInv, NoFalseEnd, NoLostReader, IsAlive, HasData, connVars,
        sendVars, recvVars, closeVars, netVars
<1>0. \A d \in Ends : ~(read[d] < readable[d]) => read[d] = readable[d]
      BY AllRead
<1>1. ASSUME UNCHANGED <<status, readable, read, reader>> PROVE Kept
      BY <1>1
<1>2. ASSUME NEW e \in Ends, SendAck(e) PROVE Kept
      BY <1>2 DEF SendAck, WakeReader, ReaderSteps, BlocksInOrder
<1>3. ASSUME NEW e \in Ends, Recv(e) PROVE Kept
  <2>1. \A d \in Ends : d # e => reader'[d] = reader[d]
        BY <1>3 DEF Recv
  <2>2. reader'[e] = "wait" \/ (reader'[e] = "failed" /\ AtEnd(e))
        BY <1>3 DEF Recv
  <2>3. UNCHANGED <<status, readable, read>>
        BY <1>3 DEF Recv
  <2> QED
      BY <1>0, <2>1, <2>2, <2>3 DEF AtEnd
<1>4. ASSUME NEW e \in Ends, PollRead(e) PROVE Kept
  <2>1. \A d \in Ends : d # e => reader'[d] = reader[d] /\ read'[d] = read[d]
        BY <1>4 DEF PollRead, ReadBuffer
  <2>2. \/ reader'[e] \in {"idle", "wait"}
        \/ reader'[e] = "failed" /\ AtEnd(e) /\ read' = read
        BY <1>4 DEF PollRead
  <2>3. UNCHANGED <<status, readable>>
        BY <1>4 DEF PollRead
  <2> QED
      BY <1>0, <2>1, <2>2, <2>3 DEF AtEnd
<1>5. ASSUME NEW e \in Ends, ReaderWaits(e) PROVE Kept
      BY <1>5 DEF ReaderWaits, MustWait, ReaderSteps
<1>6. ASSUME NEW e \in Ends, RecvReturns(e) PROVE Kept
  <2>1. \A d \in Ends : d # e => reader'[d] = reader[d] /\ read'[d] = read[d]
        BY <1>6 DEF RecvReturns, ReadBuffer
  <2>2. \/ reader'[e] \in {"idle", "wait"}
        \/ reader'[e] = "failed" /\ AtEnd(e) /\ read' = read
        BY <1>6 DEF RecvReturns
  <2>3. UNCHANGED <<status, readable>>
        BY <1>6 DEF RecvReturns
  <2> QED
      BY <1>0, <2>1, <2>2, <2>3 DEF AtEnd
<1>7. ASSUME NEW e \in Ends, ProcessShutdown(e) PROVE Kept
      BY <1>7 DEF ProcessShutdown, NotifyAll, WakeReader, ReaderSteps, Statuses
<1>8. ASSUME NEW e \in Ends, Expire(e) PROVE Kept
      BY <1>8 DEF Expire, Statuses
<1>9. ASSUME NEW e \in Ends, CollectClosing(e) PROVE Kept
      BY <1>9 DEF CollectClosing, Statuses
<1>10. ASSUME NEW t \in Tasks, SetClosing(t) PROVE Kept
      BY <1>10 DEF SetClosing, NotifyAll, WakeReader, ReaderSteps, Statuses
<1>11. ASSUME NEW e \in Ends,
              PollWrite(e) \/ PollFlush(e) \/ WriterWaits(e) \/ Transmit(e)
              \/ TakeData(e) \/ ProcessData(e) \/ TakeAck(e) \/ ProcessAck(e)
              \/ TakeShutdown(e) \/ AckTimer(e) \/ ExpTimer(e) \/ TimersChecked(e)
              \/ CollectBroken(e)
       PROVE  UNCHANGED <<status, readable, read, reader>>
      BY <1>11 DEF PollWrite, PollFlush, WriterWaits, Transmit, TakeData, ProcessData,
                   TakeAck, ProcessAck, TakeShutdown, AckTimer, ExpTimer,
                   TimersChecked, CollectBroken, Looks
<1>12. ASSUME NEW t \in Tasks,
              UserCloses(t) \/ TaskCloses(t) \/ Linger(t) \/ CloserWaits(t)
              \/ SendShutdown(t)
       PROVE  UNCHANGED <<status, readable, read, reader>>
      BY <1>12 DEF UserCloses, TaskCloses, Linger, CloserWaits, SendShutdown
<1>13. ASSUME UNCHANGED vars PROVE UNCHANGED <<status, readable, read, reader>>
      BY <1>13 DEF vars
<1> HIDE DEF Kept
<1> QED
    BY <1>1, <1>2, <1>3, <1>4, <1>5, <1>6, <1>7, <1>8, <1>9, <1>10, <1>11, <1>12,
       <1>13 DEF Next, CloseStep, WorkerGoesOn

(* Calls of close(): what they have announced has been acknowledged.       *)
LEMMA CloseStepInv ==
  TypeOK /\ CloseInv /\ [Next]_vars => CloseInv'
PROOF
<1> SUFFICES ASSUME TypeOK, CloseInv, [Next]_vars PROVE CloseInv'
    OBVIOUS
<1> USE PeerFacts
<1> USE DEF TypeOK, CloseInv, IsAlive, connVars, sendVars, recvVars, closeVars, netVars
<1>1. ASSUME UNCHANGED <<status, snd, acked, closer, due, promise>>
      PROVE  CloseInv'
      BY <1>1
<1>2. ASSUME NEW e \in Ends, PollWrite(e) PROVE CloseInv'
      BY <1>2 DEF PollWrite
<1>3. ASSUME NEW e \in Ends, ProcessAck(e) PROVE CloseInv'
      BY <1>3 DEF ProcessAck, AckNumber, WakeAckWaiters
<1>4. ASSUME NEW e \in Ends, ProcessShutdown(e) PROVE CloseInv'
      BY <1>4 DEF ProcessShutdown
<1>5. ASSUME NEW e \in Ends, Expire(e) PROVE CloseInv'
      BY <1>5 DEF Expire
<1>6. ASSUME NEW e \in Ends, CollectBroken(e) PROVE CloseInv'
      BY <1>6 DEF CollectBroken, CloserSteps
<1>7. ASSUME NEW e \in Ends, CollectClosing(e) PROVE CloseInv'
      BY <1>7 DEF CollectClosing
<1>8. ASSUME NEW t \in Tasks, UserCloses(t) PROVE CloseInv'
      BY <1>8 DEF UserCloses, CloserSteps
<1>9. ASSUME NEW t \in Tasks, TaskCloses(t) PROVE CloseInv'
      BY <1>9 DEF TaskCloses, CloserSteps
<1>10. ASSUME NEW t \in Tasks, Linger(t) PROVE CloseInv'
      BY <1>10 DEF Linger, MustLinger, IsEmpty, CloserSteps, BlocksInOrder
<1>11. ASSUME NEW t \in Tasks, CloserWaits(t) PROVE CloseInv'
      BY <1>11 DEF CloserWaits, CloserSteps
<1>13. ASSUME NEW t \in Tasks, SendShutdown(t) PROVE CloseInv'
      BY <1>13 DEF SendShutdown, CloserSteps
<1>14. ASSUME NEW t \in Tasks, SetClosing(t) PROVE CloseInv'
      BY <1>14 DEF SetClosing, CloserSteps
<1>15. ASSUME NEW e \in Ends,
              PollFlush(e) \/ WriterWaits(e) \/ Transmit(e) \/ TakeData(e)
              \/ ProcessData(e) \/ TakeAck(e) \/ TakeShutdown(e) \/ AckTimer(e)
              \/ SendAck(e) \/ ExpTimer(e) \/ TimersChecked(e)
              \/ Recv(e) \/ PollRead(e) \/ ReaderWaits(e) \/ RecvReturns(e)
       PROVE  UNCHANGED <<status, snd, acked, closer, due, promise>>
      BY <1>15 DEF PollFlush, WriterWaits, Transmit, TakeData, ProcessData, TakeAck,
                   TakeShutdown, AckTimer, SendAck, ExpTimer, TimersChecked, Looks,
                   Recv, PollRead, ReaderWaits, RecvReturns
<1>16. ASSUME UNCHANGED vars
       PROVE  UNCHANGED <<status, snd, acked, closer, due, promise>>
      BY <1>16 DEF vars
<1> QED
    BY <1>1, <1>2, <1>3, <1>4, <1>5, <1>6, <1>7, <1>8, <1>9, <1>10, <1>11,
       <1>13, <1>14, <1>15, <1>16 DEF Next, CloseStep, WorkerGoesOn

(* What was announced to an end in good order is read before a read fails  *)
(* there: at that moment all that is readable has been read, and after it  *)
(* nothing is announced.                                                   *)
LEMMA GracefulStep ==
  TypeOK /\ ReaderInv /\ CloseInv /\ GracefulClose /\ [Next]_vars => GracefulClose'
PROOF
<1> SUFFICES ASSUME TypeOK, ReaderInv, CloseInv, GracefulClose, [Next]_vars
             PROVE  GracefulClose'
    OBVIOUS
<1> USE PeerFacts
<1> DEFINE Same == UNCHANGED <<reader, read, promise>>
           Kept == GracefulClose'
<1>0. \A d \in Ends : ~(read[d] < readable[d]) => read[d] = readable[d]
      BY AllRead
<1>1. \A d \in Ends : promise[Peer(d)] <= readable[d]
  <2> SUFFICES ASSUME NEW d \in Ends PROVE promise[Peer(d)] <= readable[d]
      OBVIOUS
  <2>1. /\ Peer(d) \in Ends
        /\ promise[Peer(d)] <= acked[Peer(d)]
        /\ acked[Peer(d)] <= readable[d]
        BY DEF CloseInv, TypeOK, BlocksInOrder
  <2>2. promise[Peer(d)] \in Nat /\ acked[Peer(d)] \in Nat /\ readable[d] \in Nat
        BY <2>1 DEF TypeOK
  <2> QED
      BY <2>1, <2>2
<1>2. ASSUME Same PROVE Kept
      BY <1>2 DEF GracefulClose
<1>3. ASSUME NEW e \in Ends, UNCHANGED promise,
             \A d \in Ends : d # e => reader'[d] = reader[d] /\ read'[d] = read[d],
             \/ reader'[e] # "failed"
             \/ read' = read /\ (reader[e] = "failed" \/ read[e] = readable[e])
      PROVE  Kept
  <2> SUFFICES ASSUME NEW d \in Ends, reader'[Peer(d)] = "failed"
               PROVE  promise'[d] <= read'[Peer(d)]
      BY DEF GracefulClose
  <2>1. Peer(d) \in Ends /\ Peer(Peer(d)) = d
        OBVIOUS
  <2>2. CASE Peer(d) # e
        BY <1>3, <2>1, <2>2 DEF GracefulClose
  <2>3. CASE Peer(d) = e
        BY <1>1, <1>3, <2>1, <2>3 DEF GracefulClose
  <2> QED
      BY <2>2, <2>3
<1>4. ASSUME NEW e \in Ends, Recv(e) PROVE Kept
  <2>1. UNCHANGED <<promise, read>>
        BY <1>4 DEF Recv, closeVars, recvVars
  <2>2. \A d \in Ends : d # e => reader'[d] = reader[d]
        BY <1>4 DEF Recv, TypeOK
  <2>3. reader'[e] # "failed" \/ read[e] = readable[e]
        BY <1>0, <1>4 DEF Recv, AtEnd, HasData, TypeOK
  <2> QED
      BY <1>3, <2>1, <2>2, <2>3
<1>5. ASSUME NEW e \in Ends, PollRead(e) PROVE Kept
  <2>1. UNCHANGED promise
        BY <1>5 DEF PollRead, closeVars
  <2>2. \A d \in Ends : d # e => reader'[d] = reader[d] /\ read'[d] = read[d]
        BY <1>5 DEF PollRead, ReadBuffer, TypeOK
  <2>3. reader'[e] # "failed" \/ (read' = read /\ read[e] = readable[e])
        BY <1>0, <1>5 DEF PollRead, AtEnd, HasData, TypeOK
  <2> QED
      BY <1>3, <2>1, <2>2, <2>3
<1>6. ASSUME NEW e \in Ends, RecvReturns(e) PROVE Kept
  <2>1. UNCHANGED promise
        BY <1>6 DEF RecvReturns, closeVars
  <2>2. \A d \in Ends : d # e => reader'[d] = reader[d] /\ read'[d] = read[d]
        BY <1>6 DEF RecvReturns, ReadBuffer, TypeOK
  <2>3. reader'[e] # "failed" \/ (read' = read /\ read[e] = readable[e])
        BY <1>0, <1>6 DEF RecvReturns, AtEnd, HasData, TypeOK
  <2> QED
      BY <1>3, <2>1, <2>2, <2>3
<1>7. ASSUME NEW e \in Ends, ReaderWaits(e) PROVE Kept
  <2>1. UNCHANGED <<promise, read>>
        BY <1>7 DEF ReaderWaits, closeVars, recvVars
  <2>2. \A d \in Ends : d # e => reader'[d] = reader[d]
        BY <1>7 DEF ReaderWaits, TypeOK
  <2>3. reader'[e] # "failed"
        BY <1>7 DEF ReaderWaits, TypeOK
  <2> QED
      BY <1>3, <2>1, <2>2, <2>3
<1>8. ASSUME NEW e \in Ends, WakeReader(e), UNCHANGED <<promise, read>> PROVE Kept
  <2>1. \A d \in Ends : d # e => reader'[d] = reader[d]
        BY <1>8 DEF WakeReader, TypeOK
  <2>2. reader'[e] # "failed" \/ reader[e] = "failed"
        BY <1>8 DEF WakeReader, TypeOK
  <2> QED
      BY <1>3, <1>8, <2>1, <2>2
<1>9. ASSUME NEW e \in Ends, SendAck(e) \/ ProcessShutdown(e) PROVE Kept
  <2>1. WakeReader(e) /\ UNCHANGED <<promise, read>>
        BY <1>9 DEF SendAck, ProcessShutdown, NotifyAll, closeVars, recvVars
  <2> QED
      BY <1>8, <2>1
<1>10. ASSUME NEW t \in Tasks, SetClosing(t) PROVE Kept
  <2>1. WakeReader(t[1]) /\ UNCHANGED <<promise, read>>
        BY <1>10 DEF SetClosing, NotifyAll, closeVars, recvVars
  <2> QED
      BY <1>8, <2>1
<1>11. ASSUME NEW t \in Tasks, SendShutdown(t) PROVE Kept
  <2> SUFFICES ASSUME NEW d \in Ends, reader'[Peer(d)] = "failed"
               PROVE  promise'[d] <= read'[Peer(d)]
      BY DEF GracefulClose
  <2>1. UNCHANGED <<reader, read>>
        BY <1>11 DEF SendShutdown, recvVars
  <2>2. Peer(d) \in Ends /\ ~IsAlive(Peer(d))
        BY <2>1 DEF ReaderInv
  <2>3. promise'[d] = promise[d]
        BY <1>11, <2>2 DEF SendShutdown, TypeOK
  <2> QED
      BY <2>1, <2>3 DEF GracefulClose
<1>12. ASSUME NEW e \in Ends,
              PollWrite(e) \/ PollFlush(e) \/ WriterWaits(e) \/ Transmit(e)
              \/ TakeData(e) \/ ProcessData(e) \/ TakeAck(e) \/ ProcessAck(e)
              \/ TakeShutdown(e) \/ AckTimer(e) \/ ExpTimer(e) \/ Expire(e)
              \/ TimersChecked(e) \/ CollectBroken(e) \/ CollectClosing(e)
       PROVE  Same
      BY <1>12 DEF PollWrite, PollFlush, WriterWaits, Transmit, TakeData, ProcessData,
                   TakeAck, ProcessAck, TakeShutdown, AckTimer, ExpTimer, Expire,
                   TimersChecked, CollectBroken, CollectClosing, Looks, closeVars,
                   recvVars
<1>13. ASSUME NEW t \in Tasks,
              UserCloses(t) \/ TaskCloses(t) \/ Linger(t) \/ CloserWaits(t)
       PROVE  Same
      BY <1>13 DEF UserCloses, TaskCloses, Linger, CloserWaits, closeVars, recvVars
<1>14. ASSUME UNCHANGED vars PROVE Same
      BY <1>14 DEF vars, closeVars, recvVars
<1> HIDE DEF Same, Kept
<1>15. Kept
       BY <1>2, <1>4, <1>5, <1>6, <1>7, <1>9, <1>10, <1>11, <1>12, <1>13, <1>14
       DEF Next, CloseStep, WorkerGoesOn
<1> QED
    BY <1>15 DEF Kept

(* The invariant is inductive: every step of readers, writers, workers,    *)
(* timers, close() and the collection keeps it.                            *)
THEOREM LifecycleInvariant == Spec => []IInv
PROOF
<1>1. IInv /\ [Next]_vars => IInv'
      BY TypeStep, ReaderStep, CloseStepInv, GracefulStep DEF IInv
<1> QED
    BY <1>1, InitInv, PTL DEF Spec

(* Types, and the order in which a block passes through the buffers of the *)
(* two ends.                                                               *)
THEOREM LifecycleTypes == Spec => []TypeOK
PROOF
<1>1. IInv => TypeOK
      BY DEF IInv
<1> QED
    BY <1>1, LifecycleInvariant, PTL

(* close() that has not run out of its linger time loses nothing, however  *)
(* many calls of it are under way at both ends: a read at a peer that was  *)
(* connected when the end was announced does not fail before it has read   *)
(* all, although the worker there may acknowledge data for a socket that   *)
(* has been closed under its hands (socket.rs, close and recv;             *)
(* rcv_queue.rs, worker).                                                  *)
THEOREM CloseLosesNothing == Spec => []GracefulClose
PROOF
<1>1. IInv => GracefulClose
      BY DEF IInv
<1> QED
    BY <1>1, LifecycleInvariant, PTL

(* A read that was woken never returns Ok(0) on a live connection          *)
(* (socket.rs, recv, wait_for_data_to_read and send_ack).                  *)
THEOREM NoFalseEndCorrect == Spec => []NoFalseEnd
PROOF
<1>1. IInv => NoFalseEnd
      BY DEF IInv
<1> QED
    BY <1>1, LifecycleInvariant, PTL

(* No reader sleeps although there is data or the socket is closed         *)
(* (socket.rs, wait_for_data_to_read, send_ack and notify_all).            *)
THEOREM NoLostReaderCorrect == Spec => []NoLostReader
PROOF
<1>1. IInv => NoLostReader
      BY DEF IInv
<1> QED
    BY <1>1, LifecycleInvariant, PTL
=============================================================================
