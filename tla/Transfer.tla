------------------------------ MODULE Transfer ------------------------------
(***************************************************************************)
(* Reliable transfer over UDP: one direction of a connected pair of UDT    *)
(* sockets, src/src/socket.rs.  The sending socket is driven by three      *)
(* tasks, the application (send), the worker of the send queue             *)
(* (next_data_packets) and the worker of the receive queue (process_ctrl   *)
(* and check_timers); the receiving socket by the worker of its receive    *)
(* queue (process_data, process_ctrl, check_timers) and by the application *)
(* (recv).                                                                 *)
(*                                                                         *)
(* Times are abstracted to nondeterministic choice, and so is the          *)
(* congestion window.  The send queue (queue/snd_queue.rs) is abstracted   *)
(* to whether it holds a node of this socket: update() adds one if there   *)
(* is none, the worker takes it out to serve the socket and puts it back   *)
(* only if there was something to send.                                    *)
(***************************************************************************)
EXTENDS SndBuffer, RcvBuffer

CONSTANTS
  ISN,                        \* initial_seq_number, the same for both ends
  PACKETS_BETWEEN_LIGHT_ACK,
  ACK_WINDOW_SIZE,            \* size of AckWindow
  EXP_LIMIT,                  \* expirations before the link may be given up
  CongestionWindows,          \* values get_congestion_window_size may return
  MultiThread,                \* runtime: tasks in parallel, or one at a time
  Adversarial,                \* network and timers, see below
  MaxBlocks,                  \* bound: blocks the application writes
  MaxChunks,                  \* bound: blocks of one message
  MaxPktCount,                \* bound: packets between two ACK timers
  MaxAcks,                    \* bound: ACKs sent
  MaxLosses                   \* bound: datagrams lost, if not Adversarial

ASSUME TransferAssumption ==
  /\ ISN \in SeqNumbers
  /\ PACKETS_BETWEEN_LIGHT_ACK \in Nat \ {0}
  /\ ACK_WINDOW_SIZE \in Nat \ {0}
  /\ EXP_LIMIT \in Nat \ {0}
  /\ CongestionWindows \subseteq Nat
  /\ MultiThread \in BOOLEAN
  /\ Adversarial \in BOOLEAN
  /\ MaxBlocks \in Nat
  /\ MaxChunks \in Nat
  /\ MaxPktCount \in Nat
  /\ MaxAcks \in Nat
  /\ MaxLosses \in Nat

VARIABLES
  (* The sending socket *)
  written,                    \* blocks accepted by send() so far
  snd_buffer,
  current_position,
  curr_snd_seq_number,
  last_ack_received,
  last_data_ack_processed,
  last_ack2_sent_back,
  snd_loss_list,
  flow_window_size,
  exp_count,
  status,
  queued,                     \* the send queue holds a node of the socket
  snd_worker,                 \* where the send worker is in next_data_packets
  (* The receiving socket *)
  packets,
  next_to_read,
  next_to_ack,
  curr_rcv_seq_number,
  last_sent_ack,
  last_ack2_received,
  last_ack_seq_number,
  rcv_loss_list,
  ack_window,
  pkt_count,
  light_ack_counter,
  delivered,                  \* what recv() has returned so far
  (* The network *)
  network,                    \* datagrams that may still arrive
  losses                      \* datagrams lost so far

bufVars  == <<written, snd_buffer, current_position>>
seqVars  == <<curr_snd_seq_number, last_ack_received, last_data_ack_processed,
              last_ack2_sent_back, snd_loss_list, flow_window_size>>
workVars == <<queued, snd_worker>>
sndVars  == <<bufVars, seqVars, exp_count, status, workVars>>
rbufVars == <<packets, next_to_read, next_to_ack, delivered>>
ackVars  == <<last_sent_ack, last_ack2_received, last_ack_seq_number,
              ack_window, light_ack_counter>>
rcvVars  == <<rbufVars, ackVars, curr_rcv_seq_number, rcv_loss_list, pkt_count>>
netVars  == <<network, losses>>
vars     == <<sndVars, rcvVars, netVars>>

(***************************************************************************)
(* The network.  If Adversarial, a datagram that was sent may arrive any   *)
(* number of times, in any order and at any later moment, or never; timers *)
(* may expire at any moment.  Otherwise a datagram arrives once or is      *)
(* lost, MaxLosses may be lost, and the timers that guard against loss     *)
(* expire once nothing is under way (RcvSilent and SndSilent below).       *)
(***************************************************************************)

DataPacket(seq, data)   == [type |-> "data", seq |-> seq, data |-> data]
Ack(ack, seq, size)     == [type |-> "ack", ack |-> ack, seq |-> seq, size |-> size]
LightAck(seq)           == [type |-> "light", seq |-> seq]
Ack2(ack)               == [type |-> "ack2", ack |-> ack]
Nak(first, last)        == [type |-> "nak", first |-> first, last |-> last]

Send(ms) == network' = network \cup ms /\ UNCHANGED losses

Receive(m, replies) ==
  /\ network' = (IF Adversarial THEN network ELSE network \ {m}) \cup replies
  /\ UNCHANGED losses

Lose(m) ==
  /\ ~Adversarial
  /\ losses < MaxLosses
  /\ losses' = losses + 1
  /\ network' = network \ {m}
  /\ UNCHANGED <<sndVars, rcvVars>>

(***************************************************************************)
(* Initial states: just after the handshake.  SocketState::new sets        *)
(* last_sent_ack to isn - 1; on the side that connected, the handshake's   *)
(* post-connect branch then sets it to isn.  The receiver is either side.  *)
(***************************************************************************)

Idle == [pc |-> "idle"]

Init ==
  /\ written = 0
  /\ snd_buffer = <<>>
  /\ current_position = 0
  /\ curr_snd_seq_number = SeqAdd(ISN, -1)
  /\ last_ack_received = ISN
  /\ last_data_ack_processed = ISN
  /\ last_ack2_sent_back = ISN
  /\ snd_loss_list = {}
  /\ flow_window_size = 0
  /\ exp_count = 1
  /\ status = "Connected"
  /\ queued = FALSE
  /\ snd_worker = Idle
  /\ packets = [s \in {} |-> s]
  /\ next_to_read = ISN
  /\ next_to_ack = ISN
  /\ curr_rcv_seq_number = SeqAdd(ISN, -1)
  /\ last_sent_ack \in {ISN, SeqAdd(ISN, -1)}
  /\ last_ack2_received = ISN
  /\ last_ack_seq_number = 0
  /\ rcv_loss_list = {}
  /\ ack_window = <<>>
  /\ pkt_count = 0
  /\ light_ack_counter = 0
  /\ delivered = <<>>
  /\ network = {}
  /\ losses = 0

(* Mutants of AckPoint: losses are ignored; one number too far.            *)
AckPointIgnoringLosses == SeqAdd(curr_rcv_seq_number, 1)
AckPointTooFar ==
  IF rcv_loss_list = {} THEN SeqAdd(curr_rcv_seq_number, 2)
  ELSE FirstAfter(rcv_loss_list, SeqAdd(curr_rcv_seq_number, 1))

(* send_ack: the first number that has not been received.                  *)
AckPoint ==
  LET next == SeqAdd(curr_rcv_seq_number, 1)
  IN  IF rcv_loss_list = {} THEN next ELSE FirstAfter(rcv_loss_list, next)

(* When, in the orderly network, the delay of a timer has passed.  An ACK  *)
(* is repeated after a round trip.  The EXP delay is longer than the ACK   *)
(* period, so that the receiver has sent all its ACKs by then, and the     *)
(* application has read what there is; ends with nothing to send keep each *)
(* other alive.                                                            *)
RcvSilent == Adversarial \/ network = {}

AckDue ==
  AckPoint # last_ack2_received /\ SeqSub(AckPoint, last_sent_ack) >= 0

SndSilent ==
  \/ Adversarial
  \/ /\ network = {}
     /\ ~queued
     /\ ~AckDue
     /\ Readable(packets, next_to_read, next_to_ack) = {}
     /\ snd_buffer # <<>>

(***************************************************************************)
(* The sending socket                                                      *)
(***************************************************************************)

(* next_data_packets does not await between its steps: on a                *)
(* single-threaded runtime no other task of the socket runs between them.  *)
Interruptible == MultiThread \/ snd_worker = Idle

(* Mutant of UpdateSndQueue: the queue is not told.                        *)
UpdateSndQueueForgotten == UNCHANGED queued

(* update_snd_queue: the socket is in the send queue from now on.          *)
UpdateSndQueue == queued' = TRUE

(* send(): a message that does not fit is refused and changes nothing.     *)
SendMessage(chunks) ==
  /\ Interruptible
  /\ status = "Connected"
  /\ written + chunks <= MaxBlocks
  /\ HasRoom(snd_buffer, chunks)
  /\ snd_buffer' = AddMessage(snd_buffer, written, chunks)
  /\ written' = written + chunks
  /\ UpdateSndQueue
  /\ UNCHANGED <<current_position, seqVars, exp_count, status, snd_worker,
                 rcvVars, netVars>>

(* The worker takes the socket out of the send queue; next_data_packets    *)
(* returns at once if the socket is no longer alive.                       *)
Dequeue == queued /\ snd_worker = Idle /\ queued' = FALSE

SkipBroken ==
  /\ Dequeue
  /\ status = "Broken"
  /\ UNCHANGED <<bufVars, seqVars, exp_count, status, snd_worker, rcvVars,
                 netVars>>

(* next_data_packets, first step, under the state lock: the first lost     *)
(* packet at or after last_data_ack_processed is taken off the loss list   *)
(* and its offset in the send buffer is computed.                          *)
PopLoss ==
  /\ Dequeue
  /\ status = "Connected"
  /\ snd_loss_list # {}
  /\ LET seq    == FirstAfter(snd_loss_list, last_data_ack_processed)
         offset == SeqSub(seq, last_data_ack_processed)
     IN  /\ snd_loss_list' = snd_loss_list \ {seq}
         /\ snd_worker' = IF offset < 0 THEN Idle
                          ELSE [pc |-> "resend", seq |-> seq, offset |-> offset]
  /\ UNCHANGED <<bufVars, curr_snd_seq_number, last_ack_received,
                 last_data_ack_processed, last_ack2_sent_back,
                 flow_window_size, exp_count, status, rcvVars, netVars>>

(* Second step, under the lock of the send buffer only: the block at that  *)
(* offset is sent with that sequence number.                               *)
Resend ==
  /\ snd_worker.pc = "resend"
  /\ snd_worker' = Idle
  /\ IF HasBlock(snd_buffer, snd_worker.offset)
     THEN /\ Send({DataPacket(snd_worker.seq,
                              ReadData(snd_buffer, snd_worker.offset))})
          /\ queued' = TRUE
     ELSE UNCHANGED <<queued, netVars>>
  /\ UNCHANGED <<bufVars, seqVars, exp_count, status, rcvVars>>

(* Nothing to send again: the window is read, with no lock held after.     *)
ReadWindow ==
  /\ Dequeue
  /\ status = "Connected"
  /\ snd_loss_list = {}
  /\ \E w \in CongestionWindows :
       snd_worker' = [pc |-> "fetch",
                      window |-> IF flow_window_size < w
                                 THEN flow_window_size ELSE w]
  /\ UNCHANGED <<bufVars, seqVars, exp_count, status, rcvVars, netVars>>

(* New packets are numbered and sent, under the locks of the state and of  *)
(* the send buffer, unless the window is exceeded or there are none.       *)
FetchBatch ==
  LET n == BatchLen(snd_buffer, current_position)
      blocked == SeqSub(curr_snd_seq_number, last_ack_received)
                   > snd_worker.window
  IN  /\ snd_worker.pc = "fetch"
      /\ snd_worker' = Idle
      /\ IF blocked \/ n = 0
         THEN UNCHANGED <<current_position, curr_snd_seq_number, queued, netVars>>
         ELSE /\ current_position' = current_position + n
              /\ curr_snd_seq_number' = SeqAdd(curr_snd_seq_number, n)
              /\ queued' = TRUE
              /\ Send({DataPacket(SeqAdd(curr_snd_seq_number, i),
                                  BatchBlock(snd_buffer, current_position, i)) :
                         i \in 1 .. n})
      /\ UNCHANGED <<written, snd_buffer, last_ack_received,
                     last_data_ack_processed, last_ack2_sent_back,
                     snd_loss_list, flow_window_size, exp_count, status,
                     rcvVars>>

(* Mutant of CtrlArrives: exp_count is not reset.                          *)
CtrlArrivesNoReset == Interruptible /\ status = "Connected" /\ UNCHANGED exp_count

(* The receive worker hands a control packet to process_ctrl if the socket *)
(* is alive; any control packet resets exp_count.                          *)
CtrlArrives ==
  /\ Interruptible
  /\ status = "Connected"
  /\ exp_count' = 1

ProcessKeepAlive ==
  /\ CtrlArrives
  /\ UNCHANGED <<bufVars, seqVars, status, workVars, rcvVars, netVars>>

ProcessLightAck(m) ==
  LET nb_acked == SeqSub(m.seq, last_ack_received)
  IN  /\ m.type = "light"
      /\ CtrlArrives
      /\ IF nb_acked >= 0
         THEN /\ last_ack_received' = m.seq
              /\ flow_window_size' = (flow_window_size - nb_acked) % U32_MODULUS
         ELSE UNCHANGED <<last_ack_received, flow_window_size>>
      /\ Receive(m, {})
      /\ UNCHANGED <<bufVars, curr_snd_seq_number, last_data_ack_processed,
                     last_ack2_sent_back, snd_loss_list, status, workVars,
                     rcvVars>>

(* A full ACK.  An ACK2 is sent back if the last one is older than         *)
(* SYN_INTERVAL, or was for the same ACK.  An ACK beyond what was sent     *)
(* breaks the socket, and is processed all the same.                       *)
ProcessAck(m) ==
  LET offset == SeqSub(m.seq, last_data_ack_processed)
  IN  /\ m.type = "ack"
      /\ CtrlArrives
      /\ \E reply \in BOOLEAN :
           /\ m.ack = last_ack2_sent_back \/ ~Adversarial => reply
           /\ last_ack2_sent_back' = IF reply THEN m.ack ELSE last_ack2_sent_back
           /\ Receive(m, IF reply THEN {Ack2(m.ack)} ELSE {})
      /\ status' = IF SeqSub(m.seq, curr_snd_seq_number) > 1
                   THEN "Broken" ELSE status
      /\ IF SeqSub(m.seq, last_ack_received) >= 0
         THEN last_ack_received' = m.seq /\ flow_window_size' = m.size
         ELSE UNCHANGED <<last_ack_received, flow_window_size>>
      /\ IF offset > 0
         THEN /\ snd_buffer' = SndAckData(snd_buffer, offset)
              /\ current_position' =
                   current_position - NumPopped(snd_buffer, offset)
              /\ snd_loss_list' = snd_loss_list
                   \ CyclicRange(last_data_ack_processed, SeqAdd(m.seq, -1))
              /\ last_data_ack_processed' = m.seq
              /\ UpdateSndQueue
         ELSE UNCHANGED <<snd_buffer, current_position, snd_loss_list,
                          last_data_ack_processed, queued>>
      /\ UNCHANGED <<written, curr_snd_seq_number, snd_worker, rcvVars>>

(* Mutant of StillLost: an old NAK is taken at its word.                   *)
StillLostUnclipped(first, last) == CyclicRange(first, last)

(* What is left of a NAK for first..last without the acknowledged part.    *)
StillLost(first, last) ==
  IF SeqSub(first, last_ack_received) >= 0
  THEN CyclicRange(first, last)
  ELSE IF SeqSub(last, last_ack_received) >= 0
  THEN CyclicRange(last_ack_received, last)
  ELSE {}

ProcessNak(m) ==
  LET broken == \/ SeqSub(m.first, m.last) > 0
                \/ SeqSub(m.last, curr_snd_seq_number) > 0
  IN  /\ m.type = "nak"
      /\ CtrlArrives
      /\ status' = IF broken THEN "Broken" ELSE status
      /\ snd_loss_list' = IF broken THEN snd_loss_list
                          ELSE snd_loss_list \cup StillLost(m.first, m.last)
      /\ IF broken THEN UNCHANGED queued ELSE UpdateSndQueue
      /\ Receive(m, {})
      /\ UNCHANGED <<bufVars, curr_snd_seq_number, last_ack_received,
                     last_data_ack_processed, last_ack2_sent_back,
                     flow_window_size, snd_worker, rcvVars>>

(* Mutant of LinkExpired: one expiration too many.                         *)
LinkExpiredLate == exp_count > EXP_LIMIT + 1

(* check_timers, the EXP timer: after EXP_LIMIT expirations without a      *)
(* control packet the link is given up.  (The code also asks for 5 seconds *)
(* of silence, but the timer's own delay is longer by then.)               *)
LinkExpired == exp_count > EXP_LIMIT

ExpBreak ==
  /\ Interruptible
  /\ SndSilent
  /\ status = "Connected"
  /\ LinkExpired
  /\ status' = "Broken"
  /\ UpdateSndQueue
  /\ UNCHANGED <<bufVars, seqVars, exp_count, snd_worker, rcvVars, netVars>>

(* Before that, if there is anything unacknowledged and no loss is known,  *)
(* everything in flight is taken for lost.  (With an empty send buffer a   *)
(* keep-alive is sent, which does not change the receiving half.)          *)
ExpTimer ==
  /\ Interruptible
  /\ SndSilent
  /\ status = "Connected"
  /\ ~LinkExpired
  /\ exp_count' = exp_count + 1
  /\ IF snd_buffer # <<>> THEN UpdateSndQueue ELSE UNCHANGED queued
  /\ snd_loss_list' =
       IF /\ snd_buffer # <<>>
          /\ last_ack_received # SeqAdd(curr_snd_seq_number, 1)
          /\ snd_loss_list = {}
       THEN CyclicRange(last_ack_received, curr_snd_seq_number)
       ELSE snd_loss_list
  /\ UNCHANGED <<bufVars, curr_snd_seq_number, last_ack_received,
                 last_data_ack_processed, last_ack2_sent_back,
                 flow_window_size, status, snd_worker, rcvVars, netVars>>

(***************************************************************************)
(* The receiving socket                                                    *)
(***************************************************************************)

(* process_data: a packet that is too late or does not fit is ignored, a   *)
(* gap before it is recorded and reported at once.                         *)
ProcessData(m) ==
  LET offset == SeqSub(m.seq, last_sent_ack)
      ahead  == SeqSub(m.seq, curr_rcv_seq_number)
      first  == SeqAdd(curr_rcv_seq_number, 1)
      last   == SeqAdd(m.seq, -1)
  IN  /\ m.type = "data"
      /\ pkt_count < MaxPktCount
      /\ pkt_count' = pkt_count + 1
      /\ IF offset < 0 \/ AvailableBufSize(packets) < offset
         THEN /\ Receive(m, {})
              /\ UNCHANGED <<packets, curr_rcv_seq_number, rcv_loss_list>>
         ELSE /\ packets' = RcvInsert(packets, m.seq, m.data)
              /\ Receive(m, IF ahead > 1 THEN {Nak(first, last)} ELSE {})
              /\ curr_rcv_seq_number' =
                   IF ahead > 0 THEN m.seq ELSE curr_rcv_seq_number
              /\ rcv_loss_list' =
                   IF ahead > 1 THEN rcv_loss_list \cup CyclicRange(first, last)
                   ELSE IF ahead > 0 THEN rcv_loss_list
                   ELSE rcv_loss_list \ {m.seq}
      /\ UNCHANGED <<next_to_read, next_to_ack, delivered, ackVars, sndVars>>

(* The end of send_ack: an ACK goes out unless all that was acknowledged   *)
(* has been confirmed by an ACK2; it is remembered in the ACK window, from *)
(* which the oldest falls out.                                             *)
EmitAck(acked) ==
  LET ack     == last_ack_seq_number + 1
      avail   == AvailableBufSize(packets)
      entry   == [ack |-> ack, seq |-> acked]
      window  == IF Len(ack_window) >= ACK_WINDOW_SIZE
                 THEN Tail(ack_window) ELSE ack_window
  IN  IF SeqSub(acked, last_ack2_received) > 0
      THEN /\ ack <= MaxAcks
           /\ last_ack_seq_number' = ack
           /\ ack_window' = Append(window, entry)
           /\ Send({Ack(ack, acked, IF avail > 2 THEN avail ELSE 2)})
      ELSE UNCHANGED <<last_ack_seq_number, ack_window, netVars>>

(* check_timers, the ACK timer: send_ack(false) and a new period.          *)
AckTimer ==
  LET to_ack == SeqSub(AckPoint, last_sent_ack)
  IN  /\ pkt_count' = 0
      /\ light_ack_counter' = 0
      /\ \/ (* nothing new, all confirmed; or a repetition before its time *)
            /\ AckPoint = last_ack2_received \/ to_ack <= 0
            /\ UNCHANGED <<last_sent_ack, next_to_ack, last_ack_seq_number,
                           ack_window, netVars>>
         \/ (* new data to acknowledge *)
            /\ AckPoint # last_ack2_received
            /\ to_ack > 0
            /\ last_sent_ack' = AckPoint
            /\ next_to_ack' = RcvAckData(next_to_ack, AckPoint)
            /\ EmitAck(AckPoint)
         \/ (* repetition *)
            /\ AckPoint # last_ack2_received
            /\ to_ack = 0
            /\ RcvSilent
            /\ EmitAck(last_sent_ack)
            /\ UNCHANGED <<last_sent_ack, next_to_ack>>
      /\ UNCHANGED <<packets, next_to_read, delivered, last_ack2_received,
                     curr_rcv_seq_number, rcv_loss_list, sndVars>>

(* check_timers between two ACK timers: a light ACK every so many packets. *)
SendLightAck ==
  /\ (light_ack_counter + 1) * PACKETS_BETWEEN_LIGHT_ACK <= pkt_count
  /\ light_ack_counter' = light_ack_counter + 1
  /\ Send(IF AckPoint = last_ack2_received THEN {} ELSE {LightAck(AckPoint)})
  /\ UNCHANGED <<rbufVars, last_sent_ack, last_ack2_received,
                 last_ack_seq_number, ack_window, curr_rcv_seq_number,
                 rcv_loss_list, pkt_count, sndVars>>

(* Mutant of NewlyConfirmed: an older ACK is confirmed after a newer one.  *)
NewlyConfirmedAny(ack) == {a.seq : a \in {b \in Range(ack_window) : b.ack = ack}}

(* An ACK2 confirms the ACK it names, if the ACK window still has it and   *)
(* it is newer than the one confirmed last.                                *)
NewlyConfirmed(ack) ==
  LET confirmed == {a.seq : a \in {b \in Range(ack_window) : b.ack = ack}}
  IN  {s \in confirmed : SeqSub(s, last_ack2_received) > 0}

ProcessAck2(m) ==
  /\ m.type = "ack2"
  /\ last_ack2_received' \in IF NewlyConfirmed(m.ack) = {} THEN {last_ack2_received}
                             ELSE NewlyConfirmed(m.ack)
  /\ Receive(m, {})
  /\ UNCHANGED <<rbufVars, last_sent_ack, last_ack_seq_number, ack_window,
                 light_ack_counter, curr_rcv_seq_number, rcv_loss_list,
                 pkt_count, sndVars>>

(* recv(): the first readable packet is taken out of the buffer.  A call   *)
(* whose buffer holds several packets is as many of these in a row.        *)
Recv ==
  LET readable == Readable(packets, next_to_read, next_to_ack)
      seq      == FirstAfter(readable, next_to_read)
  IN  /\ readable # {}
      /\ delivered' = Append(delivered, packets[seq])
      /\ next_to_read' = SeqAdd(seq, 1)
      /\ packets' = RcvRemove(packets, seq)
      /\ UNCHANGED <<next_to_ack, ackVars, curr_rcv_seq_number,
                     rcv_loss_list, pkt_count, sndVars, netVars>>

(***************************************************************************)
(* The specification                                                       *)
(***************************************************************************)

SndWorker == SkipBroken \/ PopLoss \/ Resend \/ ReadWindow \/ FetchBatch

Arrive(m) ==
  \/ ProcessLightAck(m) \/ ProcessAck(m) \/ ProcessNak(m)
  \/ ProcessData(m) \/ ProcessAck2(m)

Next ==
  \/ \E chunks \in 1 .. MaxChunks : SendMessage(chunks)
  \/ SndWorker
  \/ ProcessKeepAlive
  \/ ExpTimer
  \/ ExpBreak
  \/ AckTimer
  \/ SendLightAck
  \/ Recv
  \/ \E m \in network : Arrive(m)
  \/ \E m \in network : Lose(m)

Spec == Init /\ [][Next]_vars

(***************************************************************************)
(* Fairness: the tasks of the two ends keep running, the datagrams that    *)
(* are not lost arrive, and the receiving application keeps reading.       *)
(***************************************************************************)

Fairness ==
  /\ WF_vars(SndWorker)
  /\ WF_vars(\E m \in network : Arrive(m))
  /\ WF_vars(AckTimer)
  /\ WF_vars(ExpTimer)
  /\ WF_vars(Recv)

FairSpec == Spec /\ Fairness
(***************************************************************************)
(* Properties                                                              *)
(***************************************************************************)

(* The block that the packet with a sequence number should carry, however  *)
(* often the numbers wrap: 1 for ISN, and 0 for the number before it.      *)
BlockOf(seq) == (seq - ISN + 1) % (MAX_NUMBER + 1)

Blocks == 1 .. MaxBlocks

(* How many blocks ack_data has popped from the send buffer.               *)
Released == written - Len(snd_buffer)

Messages ==
       [type : {"data"}, seq : SeqNumbers, data : Blocks]
  \cup [type : {"ack"}, ack : 1 .. MaxAcks, seq : SeqNumbers,
        size : 0 .. (U32_MODULUS + 1)]
  \cup [type : {"light"}, seq : SeqNumbers]
  \cup [type : {"ack2"}, ack : 1 .. MaxAcks]
  \cup [type : {"nak"}, first : SeqNumbers, last : SeqNumbers]

SndTypeOK ==
  /\ written \in 0 .. MaxBlocks
  /\ snd_buffer \in Seq(Blocks)
  /\ current_position \in 0 .. Len(snd_buffer)
  /\ curr_snd_seq_number \in SeqNumbers
  /\ last_ack_received \in SeqNumbers
  /\ last_data_ack_processed \in SeqNumbers
  /\ last_ack2_sent_back \in SeqNumbers \cup (1 .. MaxAcks)
  /\ snd_loss_list \subseteq SeqNumbers
  /\ flow_window_size \in 0 .. (U32_MODULUS + 1)
  /\ exp_count \in 1 .. (EXP_LIMIT + 1)
  /\ status \in {"Connected", "Broken"}
  /\ queued \in BOOLEAN
  /\ snd_worker \in {Idle} \cup [pc : {"resend"}, seq : SeqNumbers, offset : Nat]
                           \cup [pc : {"fetch"}, window : Nat]

RcvTypeOK ==
  /\ DOMAIN packets \subseteq SeqNumbers
  /\ \A s \in DOMAIN packets : packets[s] \in Blocks
  /\ next_to_read \in SeqNumbers
  /\ next_to_ack \in SeqNumbers
  /\ curr_rcv_seq_number \in SeqNumbers
  /\ last_sent_ack \in SeqNumbers
  /\ last_ack2_received \in SeqNumbers
  /\ last_ack_seq_number \in 0 .. MaxAcks
  /\ rcv_loss_list \subseteq SeqNumbers
  /\ ack_window \in Seq([ack : 1 .. MaxAcks, seq : SeqNumbers])
  /\ pkt_count \in 0 .. MaxPktCount
  /\ light_ack_counter \in Nat
  /\ delivered \in Seq(Blocks)

(* Types.  The position of fetch_batch stays within the send buffer, whose *)
(* front ack_data pops (snd_buffer.rs, current_position).                  *)
TypeOK ==
  /\ SndTypeOK
  /\ RcvTypeOK
  /\ network \subseteq Messages
  /\ losses \in 0 .. MaxLosses

(* recv() returns the blocks that send() accepted, in order, without gap   *)
(* or repetition, whatever the network does with the datagrams             *)
(* (next_data_packets, process_data, read_buffer).                         *)
StreamIntegrity == delivered = [i \in 1 .. Len(delivered) |-> i]

(* The two sockets and the network between them implement a stream: recv() *)
(* returns the blocks written, each once and in order, and never one that  *)
(* send() has not accepted (socket.rs).                                    *)
Stream == INSTANCE ReliableStream
ImplementsStream == Stream!StreamSpec

(* The receiver's loss list holds exactly the numbers that are missing     *)
(* between what was read and the largest number received: nothing missing  *)
(* is forgotten, nothing received stays on the list (process_data).        *)
RcvLossExact ==
  {BlockOf(s) : s \in rcv_loss_list} =
    (Len(delivered) + 1 .. BlockOf(curr_rcv_seq_number))
      \ {BlockOf(s) : s \in DOMAIN packets}

(* A block the sender has released, and can never send again, is with the  *)
(* receiver: an acknowledgement, however late, never covers a gap          *)
(* (send_ack, and the ACK branch of process_ctrl).                         *)
ReleasedIsReceived ==
  1 .. Released \subseteq
    1 .. Len(delivered) \cup {BlockOf(s) : s \in DOMAIN packets}

(* Every number on the sender's loss list is of a packet that was sent and *)
(* that the send buffer still holds: a stale NAK or EXP timer never makes  *)
(* next_data_packets look for a block that is gone.                        *)
SndLossReadable ==
  \A s \in snd_loss_list :
    BlockOf(s) \in (Released + 1) .. (Released + current_position)

(* Only the EXP timer gives the link up: an acknowledgement or a NAK that  *)
(* the peer really sent, however late, never makes process_ctrl set the    *)
(* status to Broken.                                                       *)
NoProtocolBreak == status = "Broken" => exp_count > EXP_LIMIT

(* A socket that the send worker has left out of its queue has nothing to  *)
(* send again, and if it has anything left to send for the first time an   *)
(* acknowledgement is still to come that puts it back (next_data_packets   *)
(* and the callers of update_snd_queue).                                   *)
NoLostWakeup ==
  status = "Connected" /\ ~queued /\ snd_worker = Idle =>
    /\ snd_loss_list = {}
    /\ current_position < Len(snd_buffer) => current_position > 0

(* However acknowledgements are delayed, repeated or reordered, no step    *)
(* takes one back: the sender's two marks, the receiver's confirmed mark   *)
(* and the mark up to which recv() may read only move forward              *)
(* (process_ctrl, ack_data of rcv_buffer.rs).                              *)
AcksNeverRetreat ==
  [][/\ BlockOf(last_ack_received') >= BlockOf(last_ack_received)
     /\ BlockOf(last_data_ack_processed') >= BlockOf(last_data_ack_processed)
     /\ BlockOf(last_ack2_received') >= BlockOf(last_ack2_received)
     /\ BlockOf(next_to_ack') >= BlockOf(next_to_ack)]_vars

(* In an orderly network the link is never given up while fewer datagrams  *)
(* are lost than the EXP timer allows for (check_timers).                  *)
LinkKept == losses < EXP_LIMIT => status = "Connected"

(* Every block that send() accepts is eventually read by recv(), although  *)
(* datagrams of every kind are lost (the whole of socket.rs).              *)
EveryBlockDelivered ==
  \A n \in Blocks : written >= n ~> Len(delivered) >= n
=============================================================================
