--------------------------- MODULE TransferProofs ---------------------------
(***************************************************************************)
(* Proofs about Transfer, for every size of the buffers, windows and       *)
(* batches, every number of blocks, ACKs and losses, and both kinds of     *)
(* runtime and network, as long as the sequence numbers of the connection  *)
(* do not wrap.                                                            *)
(***************************************************************************)
EXTENDS Transfer, SeqNumberProofs, FiniteSetTheorems, SequenceTheorems

(* The numbers of the connection do not reach the wrap from either side,   *)
(* and any two of them are at most half of the cycle apart.                *)
NoWrap ==
  /\ ISN >= 1
  /\ ISN + MaxBlocks <= MAX_NUMBER
  /\ MaxBlocks + 1 <= Threshold

(* The numbers that occur: from the one before the first to the one after  *)
(* the last.                                                               *)
Used == (ISN - 1) .. (ISN + MaxBlocks)

(***************************************************************************)
(* The inductive invariant                                                 *)
(***************************************************************************)

(* The send buffer holds the blocks from last_data_ack_processed on, and   *)
(* the position of fetch_batch is where curr_snd_seq_number is.            *)
SndInv ==
  /\ last_data_ack_processed \in ISN .. (ISN + MaxBlocks)
  /\ Len(snd_buffer) = written - (last_data_ack_processed - ISN)
  /\ \A i \in 1 .. Len(snd_buffer) :
       snd_buffer[i] = last_data_ack_processed - ISN + i
  /\ curr_snd_seq_number = last_data_ack_processed - 1 + current_position
  /\ last_ack_received \in last_data_ack_processed .. (curr_snd_seq_number + 1)
  /\ snd_loss_list \subseteq last_data_ack_processed .. curr_snd_seq_number

(* What the send worker holds between two steps.  That its offset is still *)
(* the right one is true only if nothing runs between them.                *)
WorkerInv ==
  snd_worker.pc = "resend" =>
    /\ snd_worker.seq \in ISN .. curr_snd_seq_number
    /\ ~MultiThread => snd_worker.offset = snd_worker.seq - last_data_ack_processed

(* The receive buffer and the loss list share out the numbers between the  *)
(* next to read and the largest received; what is acknowledged is there.   *)
RcvInv ==
  /\ curr_rcv_seq_number \in (ISN - 1) .. curr_snd_seq_number
  /\ last_sent_ack \in (ISN - 1) .. (curr_rcv_seq_number + 1)
  /\ next_to_ack = IF last_sent_ack < ISN THEN ISN ELSE last_sent_ack
  /\ next_to_read \in ISN .. next_to_ack
  /\ rcv_loss_list \subseteq next_to_ack .. curr_rcv_seq_number
  /\ DOMAIN packets = (next_to_read .. curr_rcv_seq_number) \ rcv_loss_list
  /\ Len(delivered) = next_to_read - ISN

(* What the two ends know of each other.                                   *)
AckInv ==
  /\ last_data_ack_processed <= next_to_ack
  /\ last_ack_received <= curr_rcv_seq_number + 1
  /\ \A s \in rcv_loss_list : last_ack_received <= s
  /\ last_ack2_received \in ISN .. next_to_ack
  /\ \A i \in DOMAIN ack_window : ack_window[i].seq \in ISN .. next_to_ack

(* A datagram, however old, never says more than what is true now.         *)
NetInv ==
  \A m \in network :
    /\ m.type = "data" => m.seq \in ISN .. curr_snd_seq_number
    /\ m.type = "ack" => m.seq \in ISN .. next_to_ack
    /\ m.type = "light" => /\ m.seq \in ISN .. (curr_rcv_seq_number + 1)
                           /\ \A s \in rcv_loss_list : m.seq <= s
    /\ m.type = "nak" => /\ m.first \in ISN .. curr_snd_seq_number
                         /\ m.last \in m.first .. curr_snd_seq_number

(* A sequence number always carries the same block.                        *)
DataInv ==
  ~MultiThread =>
    /\ \A m \in network : m.type = "data" => m.data = m.seq - ISN + 1
    /\ \A s \in DOMAIN packets : packets[s] = s - ISN + 1
    /\ StreamIntegrity

IInv ==
  /\ TypeOK
  /\ SndInv
  /\ WorkerInv
  /\ RcvInv
  /\ AckInv
  /\ NetInv
  /\ DataInv
  /\ NoProtocolBreak

(***************************************************************************)
(* Arithmetic                                                              *)
(***************************************************************************)

(* Among the numbers of the connection, sequence number arithmetic is the  *)
(* plain one (seq_number.rs, sub and add).                                 *)
LEMMA UsedExact ==
  ASSUME NoWrap
  PROVE  /\ Used \subseteq Nat
         /\ Used \subseteq SeqNumbers
         /\ \A a, b \in Used : SeqSub(a, b) = a - b
         /\ \A a \in Used, k \in Int : a + k \in Used => SeqAdd(a, k) = a + k
<1> ISN \in Nat /\ MaxBlocks \in Nat /\ MAX_NUMBER \in Nat
  BY TransferAssumption, MaxNumberAssumption DEF SeqNumbers
<1> Threshold \in Int
  BY DEF Threshold
<1>1. Used \subseteq Nat /\ Used \subseteq SeqNumbers
  BY DEF NoWrap, Used, SeqNumbers
<1>2. ASSUME NEW a \in Used, NEW b \in Used PROVE SeqSub(a, b) = a - b
  <2>1. a \in Int /\ b \in Int /\ a - b <= Threshold /\ b - a <= Threshold
    BY DEF NoWrap, Used
  <2> QED BY <2>1, SubExact
<1>3. ASSUME NEW a \in Used, NEW k \in Int, a + k \in Used
      PROVE  SeqAdd(a, k) = a + k
  BY <1>1, <1>3, AddExact
<1> QED BY <1>1, <1>2, <1>3

(* A range of increasing numbers does not wrap (loss_list.rs, insert).     *)
LEMMA RangeExact ==
  ASSUME NEW a \in Int, NEW b \in Int, a <= b
  PROVE  CyclicRange(a, b) = a .. b
BY DEF CyclicRange

(* The block of a number of the connection.                                *)
LEMMA BlockOfExact ==
  ASSUME NoWrap, NEW s \in Used
  PROVE  BlockOf(s) = s - ISN + 1
<1> ISN \in Nat /\ MaxBlocks \in Nat /\ MAX_NUMBER \in Nat
  BY TransferAssumption, MaxNumberAssumption DEF SeqNumbers
<1>1. s - ISN + 1 \in Nat /\ s - ISN + 1 < MAX_NUMBER + 1
  BY DEF NoWrap, Used
<1> QED BY <1>1, ModSmall DEF BlockOf

(* All the numbers the two ends keep are numbers of the connection.        *)
LEMMA AllUsed ==
  ASSUME NoWrap, IInv
  PROVE  /\ ISN \in Used
         /\ curr_snd_seq_number \in Used
         /\ curr_snd_seq_number + 1 \in Used
         /\ last_ack_received \in Used
         /\ last_data_ack_processed \in Used
         /\ snd_loss_list \subseteq Used
         /\ curr_rcv_seq_number \in Used
         /\ curr_rcv_seq_number + 1 \in Used
         /\ last_sent_ack \in Used
         /\ next_to_ack \in Used
         /\ next_to_read \in Used
         /\ rcv_loss_list \subseteq Used
         /\ last_ack2_received \in Used
<1> ISN \in Nat /\ MaxBlocks \in Nat
  BY TransferAssumption DEF SeqNumbers
<1> written \in 0 .. MaxBlocks /\ Len(snd_buffer) \in Nat
    /\ current_position \in 0 .. Len(snd_buffer)
  BY DEF IInv, TypeOK, SndTypeOK
<1>1. /\ ISN \in Used
      /\ last_data_ack_processed \in Used
      /\ curr_snd_seq_number \in Used
      /\ curr_snd_seq_number + 1 \in Used
      /\ last_ack_received \in Used
      /\ snd_loss_list \subseteq Used
  BY DEF IInv, SndInv, Used, NoWrap
<1>2. /\ curr_rcv_seq_number \in Used
      /\ curr_rcv_seq_number + 1 \in Used
      /\ last_sent_ack \in Used
      /\ next_to_ack \in Used
      /\ next_to_read \in Used
      /\ rcv_loss_list \subseteq Used
  BY <1>1 DEF IInv, RcvInv, Used, NoWrap
<1>3. last_ack2_received \in Used
  BY <1>2 DEF IInv, AckInv, Used
<1> QED BY <1>1, <1>2, <1>3

(* ... and so they are naturals.                                           *)
LEMMA AllNat ==
  ASSUME NoWrap, IInv
  PROVE  /\ ISN \in Nat
         /\ curr_snd_seq_number \in Nat
         /\ last_ack_received \in Nat
         /\ last_data_ack_processed \in Nat
         /\ snd_loss_list \subseteq Nat
         /\ curr_rcv_seq_number \in Nat
         /\ last_sent_ack \in Nat
         /\ next_to_ack \in Nat
         /\ next_to_read \in Nat
         /\ rcv_loss_list \subseteq Nat
         /\ last_ack2_received \in Nat
BY AllUsed, UsedExact

(* The number an ACK is sent for: all before it is there (send_ack).       *)
LEMMA AckPointExact ==
  ASSUME NoWrap, IInv
  PROVE  /\ AckPoint \in next_to_ack .. (curr_rcv_seq_number + 1)
         /\ AckPoint \in Used
         /\ \A s \in rcv_loss_list : AckPoint <= s
<1> curr_rcv_seq_number \in Nat /\ next_to_ack \in Nat /\ rcv_loss_list \subseteq Nat
  BY AllNat
<1>1. SeqAdd(curr_rcv_seq_number, 1) = curr_rcv_seq_number + 1
  <2>1. curr_rcv_seq_number \in Used /\ curr_rcv_seq_number + 1 \in Used
    BY AllUsed
  <2> QED BY <2>1, UsedExact
<1>2. next_to_ack <= curr_rcv_seq_number + 1
  <2>1. /\ curr_rcv_seq_number >= ISN - 1
        /\ last_sent_ack <= curr_rcv_seq_number + 1
        /\ next_to_ack = IF last_sent_ack < ISN THEN ISN ELSE last_sent_ack
    BY DEF IInv, RcvInv
  <2>2. ISN \in Nat /\ last_sent_ack \in Nat
    BY AllNat
  <2> QED BY <2>1, <2>2
<1>3. CASE rcv_loss_list = {}
  <2>1. AckPoint = curr_rcv_seq_number + 1
    BY <1>1, <1>3 DEF AckPoint
  <2> QED BY <1>2, <1>3, <2>1, AllUsed
<1>4. CASE rcv_loss_list # {}
  <2>1. \A s \in rcv_loss_list : s < curr_rcv_seq_number + 1
    BY AllUsed DEF IInv, RcvInv
  <2>2. rcv_loss_list \subseteq Nat /\ curr_rcv_seq_number + 1 \in Int
    OBVIOUS
  <2>3. AckPoint = FirstAfter(rcv_loss_list, curr_rcv_seq_number + 1)
    BY <1>1, <1>4 DEF AckPoint
  <2>4. AckPoint \in rcv_loss_list /\ \A s \in rcv_loss_list : AckPoint <= s
    BY <1>4, <2>1, <2>2, <2>3, FirstAfterExact
  <2> QED BY <2>4, AllUsed DEF IInv, RcvInv
<1> QED BY <1>3, <1>4

(* The free space is a number (rcv_buffer.rs, get_available_buf_size).     *)
LEMMA AvailableType ==
  ASSUME NoWrap, IInv
  PROVE  AvailableBufSize(packets) \in 0 .. (U32_MODULUS - 1)
<1> DEFINE full == next_to_read .. curr_rcv_seq_number
<1>1. next_to_read \in Int /\ curr_rcv_seq_number \in Int
  BY AllUsed, UsedExact
<1>2. IsFiniteSet(full)
  BY <1>1, FS_Interval
<1>3. DOMAIN packets \in SUBSET full
  BY DEF IInv, RcvInv
<1>4. Cardinality(DOMAIN packets) \in Nat
  BY <1>2, <1>3, FS_Subset, FS_CardinalityType
<1> QED BY <1>4, RcvBufferAssumption DEF AvailableBufSize

(***************************************************************************)
(* The initial states and the steps                                        *)
(***************************************************************************)

(* Every initial state satisfies the invariant (socket_state.rs, new, and  *)
(* the handshake branch of process_ctrl).                                  *)
LEMMA InitInv ==
  ASSUME NoWrap, Init
  PROVE  IInv
<1> ISN \in Nat /\ MaxBlocks \in Nat /\ MAX_NUMBER \in Nat
  BY TransferAssumption, MaxNumberAssumption DEF SeqNumbers
<1>1. SeqAdd(ISN, -1) = ISN - 1
  <2>1. ISN \in Used /\ ISN + (-1) \in Used /\ -1 \in Int
    BY DEF Used, NoWrap
  <2> QED BY <2>1, UsedExact
<1>2. ISN \in SeqNumbers /\ ISN - 1 \in SeqNumbers
  BY DEF NoWrap, SeqNumbers
<1>3. TypeOK
  <2>1. SndTypeOK
    <3>1. snd_buffer \in Seq(Blocks) /\ Len(snd_buffer) = 0
      BY EmptySeq DEF Init
    <3>2. flow_window_size \in 0 .. (U32_MODULUS + 1) /\ exp_count \in 1 .. (EXP_LIMIT + 1)
      BY TransferAssumption, RcvBufferAssumption DEF Init
    <3>3. queued \in BOOLEAN
      BY DEF Init
    <3>4. /\ snd_worker \in {Idle} \cup [pc : {"resend"}, seq : SeqNumbers, offset : Nat]
                                   \cup [pc : {"fetch"}, window : Nat]
          /\ status \in {"Connected", "Broken"}
          /\ snd_loss_list \subseteq SeqNumbers
      BY DEF Init
    <3>5. /\ written \in 0 .. MaxBlocks
          /\ current_position \in 0 .. Len(snd_buffer)
          /\ curr_snd_seq_number \in SeqNumbers
          /\ last_ack_received \in SeqNumbers
          /\ last_data_ack_processed \in SeqNumbers
          /\ last_ack2_sent_back \in SeqNumbers \cup (1 .. MaxAcks)
      BY <1>1, <1>2, <3>1 DEF Init
    <3> QED BY <3>1, <3>2, <3>3, <3>4, <3>5 DEF SndTypeOK
  <2>2. RcvTypeOK
    BY <1>1, <1>2, TransferAssumption DEF Init, RcvTypeOK
  <2> QED BY <2>1, <2>2, TransferAssumption DEF Init, TypeOK
<1>4. SndInv
  BY <1>1 DEF Init, SndInv
<1>5. WorkerInv
  BY DEF Init, WorkerInv, Idle
<1>6. RcvInv
  BY <1>1 DEF Init, RcvInv
<1>7. AckInv /\ NetInv /\ NoProtocolBreak
  BY <1>1 DEF Init, AckInv, NetInv, NoProtocolBreak
<1>8. DataInv
  BY DEF Init, DataInv, StreamIntegrity
<1> QED BY <1>3, <1>4, <1>5, <1>6, <1>7, <1>8 DEF IInv

(* A step that leaves the receiving socket alone, and does not move the    *)
(* sender's newest number back, keeps what is known of the receiver.       *)
LEMMA RcvFrame ==
  ASSUME NoWrap, IInv, UNCHANGED rcvVars,
         curr_snd_seq_number' \in Nat, curr_snd_seq_number' >= curr_snd_seq_number
  PROVE  RcvTypeOK' /\ RcvInv'
<1>1. RcvTypeOK'
  BY DEF IInv, TypeOK, RcvTypeOK, rcvVars, rbufVars, ackVars
<1>2. curr_rcv_seq_number' \in (ISN - 1) .. curr_snd_seq_number'
  BY AllNat DEF IInv, RcvInv, rcvVars
<1>3. RcvInv'
  BY <1>2 DEF IInv, RcvInv, rcvVars, rbufVars, ackVars
<1> QED BY <1>1, <1>3

(* A step that leaves the sending socket alone keeps what is known of it.  *)
LEMMA SndFrame ==
  ASSUME IInv, UNCHANGED sndVars
  PROVE  SndTypeOK' /\ SndInv' /\ WorkerInv' /\ NoProtocolBreak'
<1>1. SndTypeOK'
  BY DEF IInv, TypeOK, SndTypeOK, sndVars, bufVars, seqVars, workVars
<1>2. SndInv'
  BY DEF IInv, SndInv, sndVars, bufVars, seqVars
<1>3. WorkerInv'
  BY DEF IInv, WorkerInv, sndVars, seqVars, workVars
<1>4. NoProtocolBreak'
  BY DEF IInv, NoProtocolBreak, sndVars
<1> QED BY <1>1, <1>2, <1>3, <1>4

(* send(): the new blocks continue the numbering of the send buffer.       *)
LEMMA SendMessageInv ==
  ASSUME NoWrap, IInv, NEW chunks \in 1 .. MaxChunks, SendMessage(chunks)
  PROVE  IInv'
<1> /\ MaxChunks \in Nat /\ MaxBlocks \in Nat /\ chunks \in Nat /\ ISN \in Nat
    /\ written \in Nat /\ snd_buffer \in Seq(Blocks) /\ Len(snd_buffer) \in Nat
    /\ last_data_ack_processed \in Nat /\ curr_snd_seq_number \in Nat
  BY TransferAssumption, AllNat DEF IInv, TypeOK, SndTypeOK
<1> DEFINE new == [i \in 1 .. chunks |-> written + i]
<1>1. /\ UNCHANGED <<current_position, seqVars, exp_count, status, snd_worker,
                     rcvVars, netVars>>
      /\ written' = written + chunks
      /\ written + chunks <= MaxBlocks
      /\ snd_buffer' = snd_buffer \o new
      /\ queued' = TRUE
  BY DEF SendMessage, UpdateSndQueue, AddMessage
<1>2. /\ new \in Seq(Blocks)
      /\ Len(new) = chunks
      /\ \A i \in 1 .. chunks : new[i] = written + i
  <2>1. \A i \in 1 .. chunks : written + i \in Blocks
    BY <1>1 DEF Blocks
  <2> QED BY <2>1
<1> HIDE DEF new
<1>3. /\ snd_buffer' \in Seq(Blocks)
      /\ Len(snd_buffer') = Len(snd_buffer) + chunks
      /\ \A i \in 1 .. Len(snd_buffer) : snd_buffer'[i] = snd_buffer[i]
      /\ \A i \in (Len(snd_buffer) + 1) .. (Len(snd_buffer) + chunks) :
           snd_buffer'[i] = new[i - Len(snd_buffer)]
  <2>1. /\ snd_buffer' \in Seq(Blocks)
        /\ Len(snd_buffer') = Len(snd_buffer) + chunks
        /\ \A i \in 1 .. (Len(snd_buffer) + chunks) : snd_buffer'[i] =
             IF i <= Len(snd_buffer) THEN snd_buffer[i] ELSE new[i - Len(snd_buffer)]
    BY <1>1, <1>2, ConcatProperties
  <2> QED BY <2>1
<1>4. SndTypeOK'
  BY <1>1, <1>3 DEF IInv, TypeOK, SndTypeOK, seqVars
<1>5. SndInv'
  <2>1. Len(snd_buffer') = written' - (last_data_ack_processed' - ISN)
    BY <1>1, <1>3 DEF IInv, SndInv, seqVars
  <2>2. \A i \in 1 .. Len(snd_buffer') :
          snd_buffer'[i] = last_data_ack_processed' - ISN + i
    <3> SUFFICES ASSUME NEW i \in 1 .. Len(snd_buffer')
                 PROVE  snd_buffer'[i] = last_data_ack_processed - ISN + i
      BY <1>1 DEF seqVars
    <3>1. CASE i \in 1 .. Len(snd_buffer)
      BY <1>3, <3>1 DEF IInv, SndInv
    <3>2. CASE i \in (Len(snd_buffer) + 1) .. (Len(snd_buffer) + chunks)
      <4>1. i - Len(snd_buffer) \in 1 .. chunks
        BY <3>2
      <4>2. snd_buffer'[i] = written + (i - Len(snd_buffer))
        BY <1>2, <1>3, <3>2, <4>1
      <4> QED BY <4>2 DEF IInv, SndInv
    <3> QED BY <1>3, <3>1, <3>2
  <2> QED BY <1>1, <2>1, <2>2 DEF IInv, SndInv, seqVars
<1>6. WorkerInv'
  BY <1>1 DEF IInv, WorkerInv, seqVars
<1>7. RcvTypeOK' /\ RcvInv'
  BY <1>1, RcvFrame DEF seqVars
<1>8. AckInv'
  BY <1>1 DEF IInv, AckInv, seqVars, rcvVars, rbufVars, ackVars
<1>9. TypeOK' /\ NetInv' /\ DataInv' /\ NoProtocolBreak'
  <2>1. NetInv'
    BY <1>1 DEF IInv, NetInv, seqVars, rcvVars, rbufVars, netVars
  <2>2. DataInv'
    BY <1>1 DEF IInv, DataInv, StreamIntegrity, rcvVars, rbufVars, netVars
  <2>3. TypeOK'
    BY <1>1, <1>4, <1>7 DEF IInv, TypeOK, netVars
  <2> QED BY <1>1, <2>1, <2>2, <2>3 DEF IInv, NoProtocolBreak
<1> QED BY <1>5, <1>6, <1>7, <1>8, <1>9 DEF IInv

(* The worker passing over a broken socket changes nothing else.           *)
LEMMA SkipBrokenInv ==
  ASSUME NoWrap, IInv, SkipBroken
  PROVE  IInv'
<1> curr_snd_seq_number \in Nat
  BY AllNat
<1>1. /\ UNCHANGED <<bufVars, seqVars, exp_count, status, snd_worker, rcvVars, netVars>>
      /\ queued' = FALSE
  BY DEF SkipBroken, Dequeue
<1>2. SndTypeOK'
  BY <1>1 DEF IInv, TypeOK, SndTypeOK, bufVars, seqVars
<1>3. SndInv' /\ WorkerInv' /\ NoProtocolBreak'
  BY <1>1 DEF IInv, SndInv, WorkerInv, NoProtocolBreak, bufVars, seqVars
<1>4. RcvTypeOK' /\ RcvInv'
  BY <1>1, RcvFrame DEF seqVars
<1>5. AckInv' /\ NetInv'
  BY <1>1 DEF IInv, AckInv, NetInv, seqVars, rcvVars, rbufVars, ackVars, netVars
<1>6. DataInv'
  BY <1>1 DEF IInv, DataInv, StreamIntegrity, rcvVars, rbufVars, netVars
<1>7. TypeOK'
  BY <1>1, <1>2, <1>4 DEF IInv, TypeOK, netVars
<1> QED BY <1>3, <1>4, <1>5, <1>6, <1>7 DEF IInv

(* A lost number is at or after last_data_ack_processed, so its offset is  *)
(* the position of its block (next_data_packets, first step).              *)
LEMMA PopLossInv ==
  ASSUME NoWrap, IInv, PopLoss
  PROVE  IInv'
<1> DEFINE seq    == FirstAfter(snd_loss_list, last_data_ack_processed)
           offset == SeqSub(seq, last_data_ack_processed)
<1> /\ curr_snd_seq_number \in Nat /\ last_data_ack_processed \in Nat
    /\ snd_loss_list \subseteq Nat
  BY AllNat
<1>1. /\ UNCHANGED <<bufVars, curr_snd_seq_number, last_ack_received,
                     last_data_ack_processed, last_ack2_sent_back,
                     flow_window_size, exp_count, status, rcvVars, netVars>>
      /\ queued' = FALSE
      /\ snd_loss_list' = snd_loss_list \ {seq}
      /\ snd_worker' = IF offset < 0 THEN Idle
                       ELSE [pc |-> "resend", seq |-> seq, offset |-> offset]
      /\ snd_loss_list # {}
  BY DEF PopLoss, Dequeue
<1>2. \A s \in snd_loss_list : s >= last_data_ack_processed
  BY DEF IInv, SndInv
<1>3. seq \in snd_loss_list
  <2>1. snd_loss_list # {} /\ last_data_ack_processed \in Int
    BY <1>1
  <2> QED BY <1>2, <2>1, FirstAfterExact
<1>4. seq \in Used /\ last_data_ack_processed \in Used
  BY <1>3, AllUsed
<1>5. offset = seq - last_data_ack_processed /\ offset \in Nat /\ seq \in SeqNumbers
  <2> HIDE DEF seq
  <2>1. seq \in Nat /\ seq >= last_data_ack_processed
    BY <1>2, <1>3
  <2>2. SeqSub(seq, last_data_ack_processed) = seq - last_data_ack_processed
    BY <1>4, UsedExact
  <2> QED BY <1>4, <2>1, <2>2, UsedExact
<1>6. seq \in ISN .. curr_snd_seq_number
  <2> HIDE DEF seq
  <2>1. /\ snd_loss_list \subseteq last_data_ack_processed .. curr_snd_seq_number
        /\ last_data_ack_processed >= ISN
    BY DEF IInv, SndInv
  <2>2. ISN \in Nat /\ curr_snd_seq_number \in Nat /\ last_data_ack_processed \in Nat
    BY AllNat
  <2>3. seq \in last_data_ack_processed .. curr_snd_seq_number
    BY <1>3, <2>1
  <2> QED BY <2>1, <2>2, <2>3
<1> HIDE DEF seq, offset
<1>7. snd_worker' = [pc |-> "resend", seq |-> seq, offset |-> offset]
  BY <1>1, <1>5
<1>8. SndTypeOK'
  <2>1. snd_worker' \in [pc : {"resend"}, seq : SeqNumbers, offset : Nat]
    BY <1>5, <1>7
  <2>2. snd_loss_list' \subseteq SeqNumbers
    BY <1>1 DEF IInv, TypeOK, SndTypeOK
  <2> QED BY <1>1, <2>1, <2>2 DEF IInv, TypeOK, SndTypeOK, bufVars
<1>9. SndInv'
  BY <1>1 DEF IInv, SndInv, bufVars
<1>10. WorkerInv'
  BY <1>1, <1>5, <1>6, <1>7 DEF WorkerInv
<1>11. RcvTypeOK' /\ RcvInv'
  BY <1>1, RcvFrame
<1>12. AckInv' /\ NetInv' /\ NoProtocolBreak'
  BY <1>1 DEF IInv, AckInv, NetInv, NoProtocolBreak, rcvVars, rbufVars, ackVars, netVars
<1>13. DataInv'
  BY <1>1 DEF IInv, DataInv, StreamIntegrity, rcvVars, rbufVars, netVars
<1>14. TypeOK'
  BY <1>1, <1>8, <1>11 DEF IInv, TypeOK, netVars
<1> QED BY <1>9, <1>10, <1>11, <1>12, <1>13, <1>14 DEF IInv

(* The block sent again is the one its number stands for, if the offset is *)
(* still good (next_data_packets, second step).                            *)
LEMMA ResendInv ==
  ASSUME NoWrap, IInv, Resend
  PROVE  IInv'
<1> DEFINE msg == DataPacket(snd_worker.seq, ReadData(snd_buffer, snd_worker.offset))
<1> /\ curr_snd_seq_number \in Nat /\ last_data_ack_processed \in Nat /\ ISN \in Nat
  BY AllNat
<1>1. /\ UNCHANGED <<bufVars, seqVars, exp_count, status, rcvVars>>
      /\ snd_worker' = Idle
      /\ snd_worker.pc = "resend"
      /\ \/ /\ HasBlock(snd_buffer, snd_worker.offset)
            /\ network' = network \cup {msg}
            /\ UNCHANGED losses
            /\ queued' = TRUE
         \/ UNCHANGED <<queued, network, losses>>
  BY DEF Resend, Send, netVars
<1>2. /\ snd_worker.seq \in SeqNumbers /\ snd_worker.offset \in Nat
      /\ snd_worker.seq \in ISN .. curr_snd_seq_number
      /\ ~MultiThread => snd_worker.offset = snd_worker.seq - last_data_ack_processed
  BY <1>1 DEF IInv, TypeOK, SndTypeOK, WorkerInv, Idle
<1>3. ASSUME HasBlock(snd_buffer, snd_worker.offset)
      PROVE  /\ msg \in Messages
             /\ msg.type = "data"
             /\ msg.seq \in ISN .. curr_snd_seq_number
             /\ ~MultiThread => msg.data = msg.seq - ISN + 1
  <2>0. snd_buffer \in Seq(Blocks)
    BY DEF IInv, TypeOK, SndTypeOK
  <2>1. snd_worker.offset + 1 \in 1 .. Len(snd_buffer) /\ snd_buffer \in Seq(Blocks)
    BY <1>2, <1>3, <2>0 DEF HasBlock
  <2>2. ReadData(snd_buffer, snd_worker.offset) \in Blocks
    BY <2>1 DEF ReadData
  <2>3. ~MultiThread => ReadData(snd_buffer, snd_worker.offset) = snd_worker.seq - ISN + 1
    <3>1. ASSUME NEW k \in Nat, k + 1 \in 1 .. Len(snd_buffer)
          PROVE  snd_buffer[k + 1] = last_data_ack_processed - ISN + (k + 1)
      BY <3>1 DEF IInv, SndInv
    <3>2. snd_buffer[snd_worker.offset + 1]
            = last_data_ack_processed - ISN + (snd_worker.offset + 1)
      BY <1>2, <2>1, <3>1
    <3>3. \A a, b, c \in Int : b - c + ((a - b) + 1) = a - c + 1
      OBVIOUS
    <3>4. snd_worker.seq \in Int
      BY <1>2
    <3>5. ~MultiThread => last_data_ack_processed - ISN + (snd_worker.offset + 1)
                            = snd_worker.seq - ISN + 1
      BY <1>2, <3>3, <3>4
    <3> QED BY <3>2, <3>5 DEF ReadData
  <2> QED BY <1>2, <2>2, <2>3 DEF DataPacket, Messages
<1> HIDE DEF msg
<1>4. SndTypeOK'
  BY <1>1 DEF IInv, TypeOK, SndTypeOK, bufVars, seqVars
<1>5. SndInv' /\ NoProtocolBreak'
  BY <1>1 DEF IInv, SndInv, NoProtocolBreak, bufVars, seqVars
<1>6. WorkerInv'
  BY <1>1 DEF WorkerInv, Idle
<1>7. RcvTypeOK' /\ RcvInv'
  BY <1>1, RcvFrame DEF seqVars
<1>8. AckInv'
  BY <1>1 DEF IInv, AckInv, seqVars, rcvVars, rbufVars, ackVars
<1>9. NetInv'
  BY <1>1, <1>3 DEF IInv, NetInv, seqVars, rcvVars, rbufVars
<1>10. DataInv'
  BY <1>1, <1>3 DEF IInv, DataInv, StreamIntegrity, rcvVars, rbufVars
<1>11. TypeOK'
  BY <1>1, <1>3, <1>4, <1>7 DEF IInv, TypeOK
<1> QED BY <1>5, <1>6, <1>7, <1>8, <1>9, <1>10, <1>11 DEF IInv

(* Reading the window changes nothing but the worker's own place.          *)
LEMMA ReadWindowInv ==
  ASSUME NoWrap, IInv, ReadWindow
  PROVE  IInv'
<1> curr_snd_seq_number \in Nat
  BY AllNat
<1>1. /\ UNCHANGED <<bufVars, seqVars, exp_count, status, rcvVars, netVars>>
      /\ queued' = FALSE
  BY DEF ReadWindow, Dequeue
<1>2. PICK w \in CongestionWindows :
        snd_worker' = [pc |-> "fetch",
                       window |-> IF flow_window_size < w THEN flow_window_size ELSE w]
  BY DEF ReadWindow
<1>3. w \in Nat /\ flow_window_size \in Nat
  BY TransferAssumption, RcvBufferAssumption DEF IInv, TypeOK, SndTypeOK
<1>4. snd_worker' \in [pc : {"fetch"}, window : Nat]
  BY <1>2, <1>3
<1>5. SndTypeOK'
  BY <1>1, <1>4 DEF IInv, TypeOK, SndTypeOK, bufVars, seqVars
<1>6. SndInv' /\ NoProtocolBreak'
  BY <1>1 DEF IInv, SndInv, NoProtocolBreak, bufVars, seqVars
<1>7. WorkerInv'
  BY <1>2 DEF WorkerInv
<1>8. RcvTypeOK' /\ RcvInv'
  BY <1>1, RcvFrame DEF seqVars
<1>9. AckInv' /\ NetInv'
  BY <1>1 DEF IInv, AckInv, NetInv, seqVars, rcvVars, rbufVars, ackVars, netVars
<1>10. DataInv'
  BY <1>1 DEF IInv, DataInv, StreamIntegrity, rcvVars, rbufVars, netVars
<1>11. TypeOK'
  BY <1>1, <1>5, <1>8 DEF IInv, TypeOK, netVars
<1> QED BY <1>6, <1>7, <1>8, <1>9, <1>10, <1>11 DEF IInv

(* New packets take the next numbers, and the blocks at the position of    *)
(* fetch_batch are the ones those numbers stand for (fetch_batch).         *)
LEMMA FetchBatchInv ==
  ASSUME NoWrap, IInv, FetchBatch
  PROVE  IInv'
<1> DEFINE n == BatchLen(snd_buffer, current_position)
           msgs == {DataPacket(SeqAdd(curr_snd_seq_number, i),
                               BatchBlock(snd_buffer, current_position, i)) : i \in 1 .. n}
<1> /\ curr_snd_seq_number \in Nat /\ last_data_ack_processed \in Nat /\ ISN \in Nat
    /\ last_ack_received \in Nat
  BY AllNat
<1> /\ current_position \in Nat /\ Len(snd_buffer) \in Nat
    /\ current_position <= Len(snd_buffer) /\ snd_buffer \in Seq(Blocks)
    /\ FETCH_BATCH_SIZE \in Nat /\ MaxBlocks \in Nat /\ written \in 0 .. MaxBlocks
  BY SndBufferAssumption, TransferAssumption DEF IInv, TypeOK, SndTypeOK
<1>1. n \in Nat /\ current_position + n <= Len(snd_buffer)
  BY DEF BatchLen
<1> HIDE DEF n
<1>2. /\ UNCHANGED <<written, snd_buffer, last_ack_received,
                     last_data_ack_processed, last_ack2_sent_back,
                     snd_loss_list, flow_window_size, exp_count, status, rcvVars>>
      /\ snd_worker' = Idle
      /\ losses' = losses
      /\ \/ UNCHANGED <<current_position, curr_snd_seq_number, queued, network>>
         \/ /\ current_position' = current_position + n
            /\ curr_snd_seq_number' = SeqAdd(curr_snd_seq_number, n)
            /\ queued' = TRUE
            /\ network' = network \cup msgs
  BY DEF FetchBatch, Send, netVars, n
<1>3. curr_snd_seq_number = last_data_ack_processed - 1 + current_position
  BY DEF IInv, SndInv
<1>4. Len(snd_buffer) = written - (last_data_ack_processed - ISN)
  BY DEF IInv, SndInv
<1>5. \A i \in 0 .. n : /\ SeqAdd(curr_snd_seq_number, i) = curr_snd_seq_number + i
                        /\ curr_snd_seq_number + i \in Used
  <2> TAKE i \in 0 .. n
  <2>1. i \in Int
    BY <1>1
  <2>2. curr_snd_seq_number + i \in Used
    BY <1>1, <1>3, <1>4, <2>1, AllUsed DEF Used
  <2>3. curr_snd_seq_number \in Used
    BY AllUsed
  <2> QED BY <2>1, <2>2, <2>3, UsedExact
<1>6. \A m \in msgs : /\ m \in Messages
                      /\ m.type = "data"
                      /\ m.seq \in ISN .. (curr_snd_seq_number + n)
                      /\ m.data = m.seq - ISN + 1
  <2> TAKE m \in msgs
  <2>1. PICK i \in 1 .. n : m = DataPacket(curr_snd_seq_number + i, snd_buffer[current_position + i])
    <3>1. PICK i \in 1 .. n : m = DataPacket(SeqAdd(curr_snd_seq_number, i),
                                              BatchBlock(snd_buffer, current_position, i))
      OBVIOUS
    <3>2. i \in 0 .. n
      BY <1>1
    <3>3. SeqAdd(curr_snd_seq_number, i) = curr_snd_seq_number + i
      BY <1>5, <3>2
    <3> QED BY <3>1, <3>3 DEF BatchBlock
  <2>2. i \in Nat /\ i <= n /\ i >= 1 /\ i \in 0 .. n
    BY <1>1
  <2>3. current_position + i \in 1 .. Len(snd_buffer)
    BY <1>1, <2>2
  <2>4. snd_buffer[current_position + i] = last_data_ack_processed - ISN + (current_position + i)
    BY <2>3 DEF IInv, SndInv
  <2>5. snd_buffer[current_position + i] \in Blocks
    BY <2>3
  <2>6. curr_snd_seq_number + i \in SeqNumbers
    BY <1>5, <2>2, UsedExact
  <2>7. curr_snd_seq_number + i \in ISN .. (curr_snd_seq_number + n)
    BY <1>1, <1>3, <2>2 DEF IInv, SndInv
  <2>8. snd_buffer[current_position + i] = (curr_snd_seq_number + i) - ISN + 1
    BY <1>3, <2>2, <2>4
  <2> QED BY <2>1, <2>5, <2>6, <2>7, <2>8 DEF DataPacket, Messages
<1> HIDE DEF msgs
<1>7. /\ current_position' \in 0 .. Len(snd_buffer)
      /\ curr_snd_seq_number' \in Used
      /\ curr_snd_seq_number' \in Nat
      /\ curr_snd_seq_number' >= curr_snd_seq_number
      /\ curr_snd_seq_number' = last_data_ack_processed - 1 + current_position'
  <2>1. CASE UNCHANGED <<current_position, curr_snd_seq_number>>
    BY <1>3, <2>1, AllUsed
  <2>2. CASE /\ current_position' = current_position + n
             /\ curr_snd_seq_number' = SeqAdd(curr_snd_seq_number, n)
    <3>1. curr_snd_seq_number' = curr_snd_seq_number + n /\ curr_snd_seq_number' \in Used
      BY <1>1, <1>5, <2>2
    <3> QED BY <1>1, <1>3, <2>2, <3>1
  <2> QED BY <1>2, <2>1, <2>2
<1>grows. curr_snd_seq_number' \in Nat /\ curr_snd_seq_number <= curr_snd_seq_number'
  BY <1>7
<1>sum. PICK k \in Nat : curr_snd_seq_number' = curr_snd_seq_number + k
  <2>1. curr_snd_seq_number' = curr_snd_seq_number + 0
        \/ curr_snd_seq_number' = curr_snd_seq_number + n
    BY <1>1, <1>2, <1>5
  <2> QED BY <1>1, <2>1
<1>8. \A m \in network' : m \in network \/ (m \in msgs /\ curr_snd_seq_number' = curr_snd_seq_number + n)
  BY <1>1, <1>2, <1>5
<1>9. SndTypeOK'
  <2>1. curr_snd_seq_number' \in SeqNumbers
    BY <1>7, UsedExact
  <2>2. queued' \in BOOLEAN
    BY <1>2 DEF IInv, TypeOK, SndTypeOK
  <2> QED BY <1>2, <1>7, <2>1, <2>2 DEF IInv, TypeOK, SndTypeOK
<1>10. SndInv'
  <2>1. snd_loss_list \subseteq last_data_ack_processed .. curr_snd_seq_number'
    <3>1. snd_loss_list \subseteq last_data_ack_processed .. curr_snd_seq_number
      BY DEF IInv, SndInv
    <3> QED BY <1>grows, <3>1
  <2>2. last_ack_received \in last_data_ack_processed .. (curr_snd_seq_number' + 1)
    <3>1. last_ack_received \in last_data_ack_processed .. (curr_snd_seq_number + 1)
      BY DEF IInv, SndInv
    <3> QED BY <1>sum, <3>1
  <2> QED BY <1>2, <1>7, <2>1, <2>2 DEF IInv, SndInv
<1>11. WorkerInv'
  BY <1>2 DEF WorkerInv, Idle
<1>12. RcvTypeOK' /\ RcvInv'
  BY <1>2, <1>7, RcvFrame
<1>13. AckInv' /\ NoProtocolBreak'
  BY <1>2 DEF IInv, AckInv, NoProtocolBreak, rcvVars, rbufVars, ackVars
<1>14. NetInv'
  <2> SUFFICES ASSUME NEW m \in network'
               PROVE  /\ m.type = "data" => m.seq \in ISN .. curr_snd_seq_number'
                      /\ m.type = "ack" => m.seq \in ISN .. next_to_ack
                      /\ m.type = "light" => /\ m.seq \in ISN .. (curr_rcv_seq_number + 1)
                                             /\ \A s \in rcv_loss_list : m.seq <= s
                      /\ m.type = "nak" => /\ m.first \in ISN .. curr_snd_seq_number'
                                           /\ m.last \in m.first .. curr_snd_seq_number'
    BY <1>2 DEF NetInv, rcvVars, rbufVars
  <2>1. CASE m \in network
    <3>1. m.type = "data" => m.seq \in ISN .. curr_snd_seq_number
      BY <2>1 DEF IInv, NetInv
    <3>2. m.type = "nak" => /\ m.first \in ISN .. curr_snd_seq_number
                            /\ m.last \in m.first .. curr_snd_seq_number
      BY <2>1 DEF IInv, NetInv
    <3>3. m.type = "data" => m.seq \in ISN .. curr_snd_seq_number'
      BY <1>grows, <3>1
    <3>4. m.type = "nak" => /\ m.first \in ISN .. curr_snd_seq_number'
                            /\ m.last \in m.first .. curr_snd_seq_number'
      BY <1>grows, <3>2
    <3> QED BY <2>1, <3>3, <3>4 DEF IInv, NetInv
  <2>2. CASE m \in msgs /\ curr_snd_seq_number' = curr_snd_seq_number + n
    BY <1>6, <2>2
  <2> QED BY <1>8, <2>1, <2>2
<1>15. DataInv'
  <2>1. ~MultiThread => \A m \in network' : m.type = "data" => m.data = m.seq - ISN + 1
    BY <1>6, <1>8 DEF IInv, DataInv
  <2> QED BY <1>2, <2>1 DEF IInv, DataInv, StreamIntegrity, rcvVars, rbufVars
<1>16. TypeOK'
  <2>1. network' \subseteq Messages
    BY <1>6, <1>8 DEF IInv, TypeOK
  <2> QED BY <1>2, <1>9, <1>12, <2>1 DEF IInv, TypeOK
<1> QED BY <1>10, <1>11, <1>12, <1>13, <1>14, <1>15, <1>16 DEF IInv

(* A control packet without content only resets the EXP count.             *)
LEMMA ProcessKeepAliveInv ==
  ASSUME NoWrap, IInv, ProcessKeepAlive
  PROVE  IInv'
<1> curr_snd_seq_number \in Nat
  BY AllNat
<1>1. /\ UNCHANGED <<bufVars, seqVars, status, workVars, rcvVars, netVars>>
      /\ exp_count' = 1
      /\ status = "Connected"
  BY DEF ProcessKeepAlive, CtrlArrives
<1>2. SndTypeOK'
  BY <1>1, TransferAssumption DEF IInv, TypeOK, SndTypeOK, bufVars, seqVars, workVars
<1>3. SndInv' /\ WorkerInv' /\ NoProtocolBreak'
  BY <1>1 DEF IInv, SndInv, WorkerInv, NoProtocolBreak, bufVars, seqVars, workVars
<1>4. RcvTypeOK' /\ RcvInv'
  BY <1>1, RcvFrame DEF seqVars
<1>5. AckInv' /\ NetInv'
  BY <1>1 DEF IInv, AckInv, NetInv, seqVars, rcvVars, rbufVars, ackVars, netVars
<1>6. DataInv'
  BY <1>1 DEF IInv, DataInv, StreamIntegrity, rcvVars, rbufVars, netVars
<1>7. TypeOK'
  BY <1>1, <1>2, <1>4 DEF IInv, TypeOK, netVars
<1> QED BY <1>3, <1>4, <1>5, <1>6, <1>7 DEF IInv

(* A light ACK names a number that the receiver has reached and before     *)
(* which nothing is missing (process_ctrl).                                *)
LEMMA ProcessLightAckInv ==
  ASSUME NoWrap, IInv, NEW m \in network, ProcessLightAck(m)
  PROVE  IInv'
<1> DEFINE acked == SeqSub(m.seq, last_ack_received)
<1> /\ curr_snd_seq_number \in Nat /\ last_data_ack_processed \in Nat /\ ISN \in Nat
    /\ last_ack_received \in Nat /\ curr_rcv_seq_number \in Nat /\ rcv_loss_list \subseteq Nat
  BY AllNat
<1>1. /\ UNCHANGED <<bufVars, curr_snd_seq_number, last_data_ack_processed,
                     last_ack2_sent_back, snd_loss_list, status, workVars, rcvVars>>
      /\ m.type = "light"
      /\ exp_count' = 1
      /\ status = "Connected"
      /\ network' \subseteq network
      /\ losses' = losses
      /\ \/ /\ acked >= 0
            /\ last_ack_received' = m.seq
            /\ flow_window_size' = (flow_window_size - acked) % U32_MODULUS
         \/ UNCHANGED <<last_ack_received, flow_window_size>>
  BY DEF ProcessLightAck, CtrlArrives, Receive
<1>2. /\ m.seq \in ISN .. (curr_rcv_seq_number + 1)
      /\ \A s \in rcv_loss_list : m.seq <= s
  BY <1>1 DEF IInv, NetInv
<1>3. m.seq \in Used /\ m.seq \in Nat /\ m.seq \in SeqNumbers
  <2>1. curr_rcv_seq_number + 1 \in Used
    BY AllUsed
  <2>2. m.seq \in Used
    BY <1>2, <2>1, TransferAssumption DEF Used
  <2> QED BY <2>2, UsedExact
<1>4. acked = m.seq - last_ack_received
  BY <1>3, AllUsed, UsedExact
<1>5. m.seq <= curr_snd_seq_number + 1
  <2>1. curr_rcv_seq_number <= curr_snd_seq_number
    BY DEF IInv, RcvInv
  <2> QED BY <1>2, <1>3, <2>1
<1> HIDE DEF acked
<1>6. SndTypeOK'
  <2>1. last_ack_received' \in SeqNumbers
    BY <1>1, <1>3 DEF IInv, TypeOK, SndTypeOK
  <2>2. flow_window_size' \in 0 .. (U32_MODULUS + 1)
    <3>1. U32_MODULUS \in Nat /\ U32_MODULUS > 0 /\ flow_window_size \in Nat
      BY RcvBufferAssumption DEF IInv, TypeOK, SndTypeOK
    <3>2. acked \in Int /\ flow_window_size - acked \in Int
      BY <1>3, <1>4, <3>1
    <3>3. (flow_window_size - acked) % U32_MODULUS \in 0 .. (U32_MODULUS + 1)
      BY <3>1, <3>2, ModType
    <3> QED BY <1>1, <3>3 DEF IInv, TypeOK, SndTypeOK
  <2> QED BY <1>1, <2>1, <2>2, TransferAssumption
          DEF IInv, TypeOK, SndTypeOK, bufVars, workVars
<1>7. SndInv'
  <2>1. last_ack_received' \in last_data_ack_processed .. (curr_snd_seq_number + 1)
    BY <1>1, <1>3, <1>4, <1>5 DEF IInv, SndInv
  <2> QED BY <1>1, <2>1 DEF IInv, SndInv, bufVars
<1>8. WorkerInv' /\ NoProtocolBreak'
  BY <1>1 DEF IInv, WorkerInv, NoProtocolBreak, workVars
<1>9. RcvTypeOK' /\ RcvInv'
  BY <1>1, RcvFrame
<1>10. AckInv'
  <2>1. /\ last_ack_received' <= curr_rcv_seq_number + 1
        /\ \A s \in rcv_loss_list : last_ack_received' <= s
    BY <1>1, <1>2, <1>3 DEF IInv, AckInv
  <2> QED BY <1>1, <2>1 DEF IInv, AckInv, rcvVars, rbufVars, ackVars
<1>11. NetInv'
  BY <1>1 DEF IInv, NetInv, rcvVars, rbufVars
<1>12. DataInv'
  BY <1>1 DEF IInv, DataInv, StreamIntegrity, rcvVars, rbufVars
<1>13. TypeOK'
  BY <1>1, <1>6, <1>9 DEF IInv, TypeOK
<1> QED BY <1>7, <1>8, <1>9, <1>10, <1>11, <1>12, <1>13 DEF IInv

(* A NAK, however late, names packets that were sent; what remains of it   *)
(* after the acknowledged part is still in the send buffer (process_ctrl). *)
LEMMA ProcessNakInv ==
  ASSUME NoWrap, IInv, NEW m \in network, ProcessNak(m)
  PROVE  IInv'
<1> DEFINE broken == \/ SeqSub(m.first, m.last) > 0
                     \/ SeqSub(m.last, curr_snd_seq_number) > 0
           lost   == IF SeqSub(m.first, last_ack_received) >= 0
                     THEN CyclicRange(m.first, m.last)
                     ELSE IF SeqSub(m.last, last_ack_received) >= 0
                     THEN CyclicRange(last_ack_received, m.last)
                     ELSE {}
<1> /\ curr_snd_seq_number \in Nat /\ last_data_ack_processed \in Nat /\ ISN \in Nat
    /\ last_ack_received \in Nat /\ snd_loss_list \subseteq Nat
  BY AllNat
<1>1. /\ UNCHANGED <<bufVars, curr_snd_seq_number, last_ack_received,
                     last_data_ack_processed, last_ack2_sent_back,
                     flow_window_size, snd_worker, rcvVars>>
      /\ m.type = "nak"
      /\ exp_count' = 1
      /\ status = "Connected"
      /\ network' \subseteq network
      /\ losses' = losses
      /\ status' = IF broken THEN "Broken" ELSE status
      /\ snd_loss_list' = IF broken THEN snd_loss_list ELSE snd_loss_list \cup lost
      /\ queued' = TRUE \/ queued' = queued
  BY DEF ProcessNak, StillLost, UpdateSndQueue, CtrlArrives, Receive
<1>2. m.first \in ISN .. curr_snd_seq_number /\ m.last \in m.first .. curr_snd_seq_number
  BY <1>1 DEF IInv, NetInv
<1>3. /\ m.first \in Nat /\ m.last \in Nat /\ m.first <= m.last
      /\ m.last <= curr_snd_seq_number
  BY <1>2
<1>4. m.first \in Used /\ m.last \in Used /\ last_ack_received \in Used
      /\ curr_snd_seq_number \in Used
  <2>1. curr_snd_seq_number \in Used /\ last_ack_received \in Used
    BY AllUsed
  <2> QED BY <1>2, <1>3, <2>1, TransferAssumption DEF Used
<1>5. ~broken
  <2>1. SeqSub(m.first, m.last) = m.first - m.last
    BY <1>4, UsedExact
  <2>2. SeqSub(m.last, curr_snd_seq_number) = m.last - curr_snd_seq_number
    BY <1>4, UsedExact
  <2> QED BY <1>3, <2>1, <2>2
<1>6. lost \subseteq last_data_ack_processed .. curr_snd_seq_number
  <2>1. last_data_ack_processed <= last_ack_received
    BY DEF IInv, SndInv
  <2>2. SeqSub(m.first, last_ack_received) = m.first - last_ack_received
    BY <1>4, UsedExact
  <2>3. SeqSub(m.last, last_ack_received) = m.last - last_ack_received
    BY <1>4, UsedExact
  <2>4. CASE m.first >= last_ack_received
    <3>1. lost = m.first .. m.last
      BY <1>3, <2>2, <2>4, RangeExact
    <3> QED BY <1>3, <2>1, <2>4, <3>1
  <2>5. CASE ~(m.first >= last_ack_received) /\ m.last >= last_ack_received
    <3>1. lost = last_ack_received .. m.last
      BY <1>3, <2>2, <2>3, <2>5, RangeExact
    <3> QED BY <1>3, <2>1, <2>5, <3>1
  <2>6. CASE ~(m.first >= last_ack_received) /\ ~(m.last >= last_ack_received)
    <3>1. lost = {}
      BY <1>3, <2>2, <2>3, <2>6
    <3> QED BY <3>1
  <2> QED BY <2>4, <2>5, <2>6
<1> HIDE DEF broken, lost
<1>7. snd_loss_list' \subseteq last_data_ack_processed .. curr_snd_seq_number
  BY <1>1, <1>5, <1>6 DEF IInv, SndInv
<1>8. SndTypeOK'
  <2>1. snd_loss_list' \subseteq SeqNumbers
    <3>1. last_data_ack_processed .. curr_snd_seq_number \subseteq Used
      BY AllUsed, TransferAssumption DEF Used
    <3> QED BY <1>7, <3>1, UsedExact
  <2>2. status' = "Connected"
    BY <1>1, <1>5
  <2>3. queued' \in BOOLEAN
    BY <1>1 DEF IInv, TypeOK, SndTypeOK
  <2> QED BY <1>1, <2>1, <2>2, <2>3, TransferAssumption, SMTT(30) DEF IInv, TypeOK, SndTypeOK, bufVars
<1>9. SndInv'
  BY <1>1, <1>7 DEF IInv, SndInv, bufVars
<1>10. WorkerInv' /\ NoProtocolBreak'
  BY <1>1, <1>5 DEF IInv, WorkerInv, NoProtocolBreak
<1>11. RcvTypeOK' /\ RcvInv'
  BY <1>1, RcvFrame
<1>12. AckInv' /\ NetInv'
  BY <1>1 DEF IInv, AckInv, NetInv, rcvVars, rbufVars, ackVars
<1>13. DataInv'
  BY <1>1 DEF IInv, DataInv, StreamIntegrity, rcvVars, rbufVars
<1>14. TypeOK'
  BY <1>1, <1>8, <1>11 DEF IInv, TypeOK
<1> QED BY <1>9, <1>10, <1>11, <1>12, <1>13, <1>14 DEF IInv

(* A full ACK, however late, covers only what was sent, and the blocks it  *)
(* pops are the ones before the number it names (process_ctrl, ack_data).  *)
LEMMA ProcessAckInv ==
  ASSUME NoWrap, IInv, NEW m \in network, ProcessAck(m)
  PROVE  IInv'
<1> DEFINE offset == SeqSub(m.seq, last_data_ack_processed)
           popped == NumPopped(snd_buffer, offset)
<1> /\ curr_snd_seq_number \in Nat /\ last_data_ack_processed \in Nat /\ ISN \in Nat
    /\ last_ack_received \in Nat /\ snd_loss_list \subseteq Nat
    /\ curr_rcv_seq_number \in Nat /\ next_to_ack \in Nat /\ rcv_loss_list \subseteq Nat
  BY AllNat
<1> /\ current_position \in Nat /\ Len(snd_buffer) \in Nat
    /\ current_position <= Len(snd_buffer) /\ snd_buffer \in Seq(Blocks)
    /\ MaxBlocks \in Nat /\ written \in 0 .. MaxBlocks
  BY TransferAssumption DEF IInv, TypeOK, SndTypeOK
<1>1. /\ m.type = "ack"
      /\ Interruptible
      /\ exp_count' = 1
      /\ status = "Connected"
      /\ status' = IF SeqSub(m.seq, curr_snd_seq_number) > 1 THEN "Broken" ELSE status
      /\ UNCHANGED <<written, curr_snd_seq_number, snd_worker, rcvVars>>
  BY DEF ProcessAck, UpdateSndQueue, CtrlArrives
<1>2. /\ losses' = losses
      /\ \/ network' \subseteq network \cup {Ack2(m.ack)} /\ last_ack2_sent_back' = m.ack
         \/ network' \subseteq network /\ last_ack2_sent_back' = last_ack2_sent_back
  BY DEF ProcessAck, UpdateSndQueue, Receive
<1>3. \/ SeqSub(m.seq, last_ack_received) >= 0 /\ last_ack_received' = m.seq
                                               /\ flow_window_size' = m.size
      \/ /\ ~(SeqSub(m.seq, last_ack_received) >= 0)
         /\ UNCHANGED <<last_ack_received, flow_window_size>>
  BY DEF ProcessAck, UpdateSndQueue
<1>4. \/ /\ offset > 0
         /\ snd_buffer' = SndAckData(snd_buffer, offset)
         /\ current_position' = current_position - popped
         /\ snd_loss_list' = snd_loss_list
              \ CyclicRange(last_data_ack_processed, SeqAdd(m.seq, -1))
         /\ last_data_ack_processed' = m.seq
         /\ queued' = TRUE
      \/ /\ ~(offset > 0)
         /\ UNCHANGED <<snd_buffer, current_position, snd_loss_list,
                        last_data_ack_processed, queued>>
  BY DEF ProcessAck, UpdateSndQueue
<1>5. m.seq \in ISN .. next_to_ack /\ m.ack \in 1 .. MaxAcks /\ m.size \in 0 .. (U32_MODULUS + 1)
  <2>1. m \in Messages
    BY DEF IInv, TypeOK
  <2>2. m \in [type : {"ack"}, ack : 1 .. MaxAcks, seq : SeqNumbers, size : 0 .. (U32_MODULUS + 1)]
    BY <1>1, <2>1 DEF Messages
  <2> QED BY <1>1, <2>2 DEF IInv, NetInv
<1>6. m.seq \in Nat /\ m.seq >= ISN /\ m.seq <= next_to_ack
      /\ next_to_ack <= curr_rcv_seq_number + 1 /\ curr_rcv_seq_number <= curr_snd_seq_number
  BY <1>5 DEF IInv, RcvInv
<1>7. m.seq \in Used
  BY <1>6, AllUsed DEF Used
<1>8. /\ SeqSub(m.seq, curr_snd_seq_number) = m.seq - curr_snd_seq_number
      /\ SeqSub(m.seq, last_ack_received) = m.seq - last_ack_received
      /\ offset = m.seq - last_data_ack_processed
  BY <1>7, AllUsed, UsedExact
<1> HIDE DEF offset
<1>9. status' = "Connected"
  <2>1. ~(m.seq - curr_snd_seq_number > 1)
    BY <1>6
  <2> QED BY <1>1, <1>8, <2>1
<1>10. /\ last_ack_received' \in Nat
       /\ last_ack_received' >= last_ack_received
       /\ last_ack_received' >= m.seq
       /\ last_ack_received' = m.seq \/ last_ack_received' = last_ack_received
       /\ last_ack_received' \in SeqNumbers
  <2>1. m.seq \in SeqNumbers /\ last_ack_received \in SeqNumbers
    BY <1>7, AllUsed, UsedExact
  <2>2. CASE m.seq - last_ack_received >= 0
    <3>1. last_ack_received' = m.seq
      BY <1>3, <1>8, <2>2
    <3>2. m.seq >= last_ack_received
      BY <1>6, <2>2
    <3> QED BY <1>6, <2>1, <3>1, <3>2
  <2>3. CASE ~(m.seq - last_ack_received >= 0)
    <3>1. last_ack_received' = last_ack_received
      BY <1>3, <1>8, <2>3
    <3>2. last_ack_received >= m.seq
      BY <1>6, <2>3
    <3> QED BY <2>1, <3>1, <3>2
  <2> QED BY <2>2, <2>3
<1>11. flow_window_size' \in 0 .. (U32_MODULUS + 1)
  BY <1>3, <1>5 DEF IInv, TypeOK, SndTypeOK
<1>12. last_ack2_sent_back' \in SeqNumbers \cup (1 .. MaxAcks)
  BY <1>2, <1>5 DEF IInv, TypeOK, SndTypeOK
<1>13. /\ snd_buffer' \in Seq(Blocks)
       /\ current_position' \in 0 .. Len(snd_buffer')
       /\ queued' \in BOOLEAN
       /\ last_data_ack_processed' \in ISN .. (ISN + MaxBlocks)
       /\ last_data_ack_processed' <= next_to_ack
       /\ Len(snd_buffer') = written - (last_data_ack_processed' - ISN)
       /\ \A i \in 1 .. Len(snd_buffer') :
            snd_buffer'[i] = last_data_ack_processed' - ISN + i
       /\ curr_snd_seq_number = last_data_ack_processed' - 1 + current_position'
       /\ last_ack_received' \in last_data_ack_processed' .. (curr_snd_seq_number + 1)
       /\ snd_loss_list' \subseteq last_data_ack_processed' .. curr_snd_seq_number
  <2>1. CASE offset > 0
    <3>1. /\ offset \in Nat /\ offset <= current_position /\ offset >= 1
          /\ curr_snd_seq_number = last_data_ack_processed - 1 + current_position
      <4>1. curr_snd_seq_number = last_data_ack_processed - 1 + current_position
        BY DEF IInv, SndInv
      <4>2. \A a, b, c, p \in Nat : a - b > 0 /\ a <= c + 1 /\ c = b - 1 + p
                                      => /\ a - b \in Nat
                                         /\ a - b <= p
                                         /\ a - b >= 1
        OBVIOUS
      <4>3. m.seq - last_data_ack_processed > 0 /\ m.seq <= curr_snd_seq_number + 1
        <5>1. m.seq - last_data_ack_processed > 0
          BY <1>8, <2>1
        <5>2. \A a, b, c, d \in Nat : a <= b /\ b <= c + 1 /\ c <= d => a <= d + 1
          OBVIOUS
        <5> QED BY <1>6, <5>1, <5>2
      <4> QED BY <1>6, <1>8, <4>1, <4>2, <4>3
    <3>2. popped = offset
      BY <3>1 DEF NumPopped
    <3> HIDE DEF popped
    <3>3. snd_buffer' = SubSeq(snd_buffer, offset + 1, Len(snd_buffer))
      BY <1>4, <2>1, <3>2 DEF SndAckData, popped
    <3>4. /\ snd_buffer' \in Seq(Blocks)
          /\ Len(snd_buffer') = Len(snd_buffer) - offset
          /\ \A i \in 1 .. (Len(snd_buffer) - offset) : snd_buffer'[i] = snd_buffer[offset + i]
      <4>1. \A i \in (offset + 1) .. Len(snd_buffer) : snd_buffer[i] \in Blocks
        BY <3>1
      <4>2. /\ SubSeq(snd_buffer, offset + 1, Len(snd_buffer)) \in Seq(Blocks)
            /\ Len(SubSeq(snd_buffer, offset + 1, Len(snd_buffer))) =
                 IF offset + 1 <= Len(snd_buffer) THEN Len(snd_buffer) - (offset + 1) + 1 ELSE 0
            /\ \A i \in 1 .. Len(snd_buffer) - (offset + 1) + 1 :
                 SubSeq(snd_buffer, offset + 1, Len(snd_buffer))[i] = snd_buffer[offset + 1 + i - 1]
        <5>1. offset + 1 \in Int /\ Len(snd_buffer) \in Int
          BY <3>1
        <5> QED BY <4>1, <5>1, SubSeqProperties
      <4>3. Len(snd_buffer') = Len(snd_buffer) - offset /\ snd_buffer' \in Seq(Blocks)
        BY <3>1, <3>3, <4>2
      <4>4. \A i \in 1 .. (Len(snd_buffer) - offset) :
              /\ i \in 1 .. Len(snd_buffer) - (offset + 1) + 1
              /\ offset + 1 + i - 1 = offset + i
        BY <3>1
      <4> QED BY <3>3, <4>2, <4>3, <4>4
    <3>5. current_position' = current_position - offset /\ last_data_ack_processed' = m.seq
      BY <1>4, <2>1, <3>2
    <3>6. \A i \in 1 .. Len(snd_buffer') : snd_buffer'[i] = m.seq - ISN + i
      <4>0. \A j \in Nat : last_data_ack_processed - ISN + (offset + j) = m.seq - ISN + j
        <5>1. offset = m.seq - last_data_ack_processed
          BY <1>8
        <5>2. \A a, b, c, j \in Int : a - b + ((c - a) + j) = c - b + j
          OBVIOUS
        <5>3. m.seq \in Int /\ last_data_ack_processed \in Int /\ ISN \in Int
          BY <1>6
        <5> QED BY <5>1, <5>2, <5>3, SMTT(30)
      <4> TAKE i \in 1 .. Len(snd_buffer')
      <4>1. i \in Nat /\ i \in 1 .. (Len(snd_buffer) - offset)
        BY <3>1, <3>4
      <4>2. offset + i \in 1 .. Len(snd_buffer)
        BY <3>1, <4>1
      <4>3. snd_buffer[offset + i] = last_data_ack_processed - ISN + (offset + i)
        BY <4>2 DEF IInv, SndInv
      <4>4. snd_buffer'[i] = snd_buffer[offset + i]
        BY <3>4, <4>1
      <4>5. last_data_ack_processed - ISN + (offset + i) = m.seq - ISN + i
        BY <4>0, <4>1
      <4> QED BY <4>3, <4>4, <4>5
    <3>7. snd_loss_list' \subseteq m.seq .. curr_snd_seq_number
      <4>1. SeqAdd(m.seq, -1) = m.seq - 1
        <5>1. m.seq + (-1) \in Used /\ -1 \in Int
          <6>1. m.seq - 1 >= ISN - 1 /\ m.seq - 1 \in Int /\ m.seq + (-1) = m.seq - 1
            BY <1>6
          <6>2. m.seq <= ISN + MaxBlocks
            BY <1>7 DEF Used
          <6> QED BY <1>6, <6>1, <6>2 DEF Used
        <5> QED BY <1>6, <1>7, <5>1, UsedExact
      <4>2. CyclicRange(last_data_ack_processed, SeqAdd(m.seq, -1))
              = last_data_ack_processed .. (m.seq - 1)
        BY <1>6, <1>8, <2>1, <4>1, RangeExact, SMTT(30)
      <4>3. snd_loss_list' = snd_loss_list \ (last_data_ack_processed .. (m.seq - 1))
        BY <1>4, <2>1, <4>2
      <4>4. snd_loss_list \subseteq last_data_ack_processed .. curr_snd_seq_number
        BY DEF IInv, SndInv
      <4> SUFFICES ASSUME NEW s \in snd_loss_list' PROVE s \in m.seq .. curr_snd_seq_number
        OBVIOUS
      <4>5. s \in Nat /\ s >= last_data_ack_processed /\ s <= curr_snd_seq_number
        BY <4>3, <4>4
      <4>6. ~(s <= m.seq - 1)
        BY <1>6, <4>3, <4>5
      <4> QED BY <1>6, <4>5, <4>6
    <3>8. /\ current_position' \in 0 .. Len(snd_buffer')
          /\ queued' \in BOOLEAN
          /\ last_data_ack_processed' \in ISN .. (ISN + MaxBlocks)
          /\ last_data_ack_processed' <= next_to_ack
      <4>1. m.seq <= ISN + MaxBlocks
        BY <1>7, TransferAssumption DEF Used
      <4>2. current_position - offset \in 0 .. (Len(snd_buffer) - offset)
        BY <3>1
      <4>3. current_position' \in 0 .. Len(snd_buffer')
        BY <3>4, <3>5, <4>2
      <4>4. queued' \in BOOLEAN
        BY <1>4, <2>1
      <4>5. m.seq \in ISN .. (ISN + MaxBlocks) /\ m.seq <= next_to_ack
        BY <1>6, <4>1
      <4> QED BY <3>5, <4>3, <4>4, <4>5
    <3>9. Len(snd_buffer') = written - (m.seq - ISN)
      <4>1. Len(snd_buffer) = written - (last_data_ack_processed - ISN)
        BY DEF IInv, SndInv
      <4> QED BY <1>6, <1>8, <3>4, <4>1, SMTT(30)
    <3>10. curr_snd_seq_number = m.seq - 1 + (current_position - offset)
      <4>1. \A a, b, p \in Nat : b - 1 + p = a - 1 + (p - (a - b))
        OBVIOUS
      <4> QED BY <1>6, <1>8, <3>1, <4>1, SMTT(30)
    <3>11. last_ack_received' \in m.seq .. (curr_snd_seq_number + 1)
      <4>1. last_ack_received <= curr_snd_seq_number + 1
        BY DEF IInv, SndInv
      <4>2. CASE last_ack_received' = m.seq
        BY <1>6, <4>2
      <4>3. CASE last_ack_received' = last_ack_received
        BY <1>6, <1>10, <4>1, <4>3
      <4> QED BY <1>10, <4>2, <4>3
    <3> QED BY <3>4, <3>5, <3>6, <3>7, <3>8, <3>9, <3>10, <3>11
  <2>2. CASE ~(offset > 0)
    <3>1. UNCHANGED <<snd_buffer, current_position, snd_loss_list,
                      last_data_ack_processed, queued>>
      BY <1>4, <2>2
    <3>2. last_ack_received' \in last_data_ack_processed .. (curr_snd_seq_number + 1)
      <4>1. last_ack_received \in last_data_ack_processed .. (curr_snd_seq_number + 1)
        BY DEF IInv, SndInv
      <4>2. CASE last_ack_received' = m.seq
        BY <1>6, <1>10, <4>1, <4>2
      <4>3. CASE last_ack_received' = last_ack_received
        BY <4>1, <4>3
      <4> QED BY <1>10, <4>2, <4>3
    <3>3. last_data_ack_processed <= next_to_ack
      BY DEF IInv, AckInv
    <3> QED BY <3>1, <3>2, <3>3 DEF IInv, SndInv, TypeOK, SndTypeOK
  <2> QED BY <2>1, <2>2
<1> HIDE DEF popped
<1>14. SndTypeOK'
  <2>1. ISN .. (ISN + MaxBlocks) \subseteq Used
    BY DEF Used
  <2>2. last_data_ack_processed' \in SeqNumbers
    BY <1>13, <2>1, UsedExact
  <2>3. snd_loss_list' \subseteq SeqNumbers
    BY <1>4 DEF IInv, TypeOK, SndTypeOK
  <2>4. /\ snd_buffer' \in Seq(Blocks)
        /\ current_position' \in 0 .. Len(snd_buffer')
        /\ queued' \in BOOLEAN
    BY <1>13
  <2>5. /\ exp_count' \in 1 .. (EXP_LIMIT + 1)
        /\ written' \in 0 .. MaxBlocks
        /\ curr_snd_seq_number' \in SeqNumbers
    BY <1>1, TransferAssumption DEF IInv, TypeOK, SndTypeOK
  <2>6. /\ status' \in {"Connected", "Broken"}
        /\ snd_worker' \in {Idle} \cup [pc : {"resend"}, seq : SeqNumbers, offset : Nat]
                                  \cup [pc : {"fetch"}, window : Nat]
    BY <1>1, <1>9 DEF IInv, TypeOK, SndTypeOK
  <2> QED BY <1>10, <1>11, <1>12, <2>2, <2>3, <2>4, <2>5, <2>6 DEF SndTypeOK
<1>15. SndInv'
  BY <1>1, <1>13 DEF SndInv
<1>16. WorkerInv' /\ NoProtocolBreak'
  BY <1>1, <1>9 DEF IInv, WorkerInv, NoProtocolBreak, Interruptible, Idle
<1>17. RcvTypeOK' /\ RcvInv'
  BY <1>1, RcvFrame
<1>18. AckInv'
  <2>1. \A s \in rcv_loss_list : next_to_ack <= s
    BY DEF IInv, RcvInv
  <2>2. /\ last_ack_received' <= curr_rcv_seq_number + 1
        /\ \A s \in rcv_loss_list : last_ack_received' <= s
    <3>1. /\ last_ack_received <= curr_rcv_seq_number + 1
          /\ \A s \in rcv_loss_list : last_ack_received <= s
      BY DEF IInv, AckInv
    <3>2. CASE last_ack_received' = last_ack_received
      BY <3>1, <3>2
    <3>3. CASE last_ack_received' = m.seq
      <4>1. m.seq <= curr_rcv_seq_number + 1
        BY <1>6
      <4>2. \A s \in rcv_loss_list : m.seq <= s
        BY <1>6, <2>1
      <4> QED BY <3>3, <4>1, <4>2
    <3> QED BY <1>10, <3>2, <3>3
  <2> QED BY <1>1, <1>13, <2>2 DEF IInv, AckInv, rcvVars, rbufVars, ackVars
<1>19. NetInv'
  BY <1>1, <1>2 DEF IInv, NetInv, Ack2, rcvVars, rbufVars
<1>20. DataInv'
  BY <1>1, <1>2 DEF IInv, DataInv, StreamIntegrity, Ack2, rcvVars, rbufVars
<1>21. TypeOK'
  <2>1. Ack2(m.ack) \in Messages
    BY <1>5 DEF Ack2, Messages
  <2>2. network' \subseteq Messages
    BY <1>2, <2>1 DEF IInv, TypeOK
  <2> QED BY <1>2, <1>14, <1>17, <2>2 DEF IInv, TypeOK
<1> QED BY <1>15, <1>16, <1>17, <1>18, <1>19, <1>20, <1>21 DEF IInv

(* Giving the link up changes nothing but the status.                      *)
LEMMA ExpBreakInv ==
  ASSUME NoWrap, IInv, ExpBreak
  PROVE  IInv'
<1> curr_snd_seq_number \in Nat
  BY AllNat
<1>1. /\ UNCHANGED <<bufVars, seqVars, exp_count, snd_worker, rcvVars, netVars>>
      /\ queued' = TRUE
      /\ status' = "Broken"
      /\ exp_count > EXP_LIMIT
  BY DEF ExpBreak, LinkExpired, UpdateSndQueue
<1>2. SndTypeOK'
  BY <1>1 DEF IInv, TypeOK, SndTypeOK, bufVars, seqVars
<1>3. SndInv' /\ WorkerInv' /\ NoProtocolBreak'
  BY <1>1 DEF IInv, SndInv, WorkerInv, NoProtocolBreak, bufVars, seqVars
<1>4. RcvTypeOK' /\ RcvInv'
  BY <1>1, RcvFrame DEF seqVars
<1>5. AckInv' /\ NetInv'
  BY <1>1 DEF IInv, AckInv, NetInv, seqVars, rcvVars, rbufVars, ackVars, netVars
<1>6. DataInv'
  BY <1>1 DEF IInv, DataInv, StreamIntegrity, rcvVars, rbufVars, netVars
<1>7. TypeOK'
  BY <1>1, <1>2, <1>4 DEF IInv, TypeOK, netVars
<1> QED BY <1>3, <1>4, <1>5, <1>6, <1>7 DEF IInv

(* What the EXP timer takes for lost is in flight (check_timers).          *)
LEMMA ExpTimerInv ==
  ASSUME NoWrap, IInv, ExpTimer
  PROVE  IInv'
<1> /\ curr_snd_seq_number \in Nat /\ last_ack_received \in Nat
    /\ last_data_ack_processed \in Nat
  BY AllNat
<1>1. /\ UNCHANGED <<bufVars, curr_snd_seq_number, last_ack_received,
                     last_data_ack_processed, last_ack2_sent_back,
                     flow_window_size, status, snd_worker, rcvVars, netVars>>
      /\ status = "Connected"
      /\ exp_count <= EXP_LIMIT
      /\ exp_count' = exp_count + 1
      /\ queued' = TRUE \/ queued' = queued
      /\ \/ snd_loss_list' = snd_loss_list
         \/ /\ last_ack_received # SeqAdd(curr_snd_seq_number, 1)
            /\ snd_loss_list' = CyclicRange(last_ack_received, curr_snd_seq_number)
  <2>1. exp_count \in Nat /\ EXP_LIMIT \in Nat
    BY TransferAssumption, SMTT(30) DEF IInv, TypeOK, SndTypeOK
  <2>2. exp_count <= EXP_LIMIT
    BY <2>1 DEF ExpTimer, LinkExpired
  <2> QED BY <2>2 DEF ExpTimer, UpdateSndQueue
<1>2. snd_loss_list' \subseteq last_data_ack_processed .. curr_snd_seq_number
  <2>1. SeqAdd(curr_snd_seq_number, 1) = curr_snd_seq_number + 1
    <3>1. curr_snd_seq_number \in Used /\ curr_snd_seq_number + 1 \in Used
      BY AllUsed
    <3> QED BY <3>1, UsedExact
  <2>2. last_ack_received \in last_data_ack_processed .. (curr_snd_seq_number + 1)
    BY DEF IInv, SndInv
  <2>3. CASE last_ack_received <= curr_snd_seq_number
    <3>1. CyclicRange(last_ack_received, curr_snd_seq_number)
            = last_ack_received .. curr_snd_seq_number
      BY <2>3, RangeExact
    <3>2. last_ack_received .. curr_snd_seq_number
            \subseteq last_data_ack_processed .. curr_snd_seq_number
      BY <2>2
    <3> QED BY <1>1, <3>1, <3>2 DEF IInv, SndInv
  <2>4. CASE last_ack_received = curr_snd_seq_number + 1
    BY <1>1, <2>1, <2>4 DEF IInv, SndInv
  <2> QED BY <2>2, <2>3, <2>4
<1>3. SndTypeOK'
  <2>1. last_data_ack_processed .. curr_snd_seq_number \subseteq Used
    BY AllUsed, TransferAssumption DEF Used
  <2>2. snd_loss_list' \subseteq SeqNumbers
    BY <1>2, <2>1, UsedExact
  <2>3. exp_count' \in 1 .. (EXP_LIMIT + 1)
    BY <1>1, TransferAssumption DEF IInv, TypeOK, SndTypeOK
  <2>4. queued' \in BOOLEAN
    BY <1>1 DEF IInv, TypeOK, SndTypeOK
  <2> QED BY <1>1, <2>2, <2>3, <2>4 DEF IInv, TypeOK, SndTypeOK, bufVars
<1>4. SndInv'
  BY <1>1, <1>2 DEF IInv, SndInv, bufVars
<1>5. WorkerInv' /\ NoProtocolBreak'
  BY <1>1 DEF IInv, WorkerInv, NoProtocolBreak
<1>6. RcvTypeOK' /\ RcvInv'
  BY <1>1, RcvFrame
<1>7. AckInv' /\ NetInv'
  BY <1>1 DEF IInv, AckInv, NetInv, rcvVars, rbufVars, ackVars, netVars
<1>8. DataInv'
  BY <1>1 DEF IInv, DataInv, StreamIntegrity, rcvVars, rbufVars, netVars
<1>9. TypeOK'
  BY <1>1, <1>3, <1>6 DEF IInv, TypeOK, netVars
<1> QED BY <1>4, <1>5, <1>6, <1>7, <1>8, <1>9 DEF IInv

(* A data packet that is taken in goes into the receive buffer and off the *)
(* loss list, and the gap before it goes onto the list (process_data).     *)
LEMMA ProcessDataInv ==
  ASSUME NoWrap, IInv, NEW m \in network, ProcessData(m)
  PROVE  IInv'
<1> DEFINE ahead == SeqSub(m.seq, curr_rcv_seq_number)
           first == SeqAdd(curr_rcv_seq_number, 1)
           last  == SeqAdd(m.seq, -1)
<1> /\ curr_snd_seq_number \in Nat /\ ISN \in Nat /\ last_sent_ack \in Nat
    /\ last_ack_received \in Nat /\ next_to_read \in Nat
    /\ curr_rcv_seq_number \in Nat /\ next_to_ack \in Nat /\ rcv_loss_list \subseteq Nat
  BY AllNat
<1>1. /\ m.type = "data"
      /\ pkt_count < MaxPktCount
      /\ pkt_count' = pkt_count + 1
      /\ UNCHANGED <<next_to_read, next_to_ack, delivered, ackVars, sndVars>>
      /\ losses' = losses
  BY DEF ProcessData, Receive
<1>2. /\ m \in [type : {"data"}, seq : SeqNumbers, data : Blocks]
      /\ m.seq \in ISN .. curr_snd_seq_number
  <2>1. m \in Messages
    BY DEF IInv, TypeOK
  <2> QED BY <1>1, <2>1 DEF Messages, IInv, NetInv
<1>3. m.seq \in Nat /\ m.seq >= ISN /\ m.seq <= curr_snd_seq_number /\ m.data \in Blocks
  BY <1>2
<1>4. m.seq \in Used
  BY <1>3, AllUsed, TransferAssumption DEF Used
<1>5. pkt_count' \in 0 .. MaxPktCount
  BY <1>1, TransferAssumption DEF IInv, TypeOK, RcvTypeOK
<1>6. SndTypeOK' /\ SndInv' /\ WorkerInv' /\ NoProtocolBreak'
  BY <1>1, SndFrame
<1>7. CASE /\ network' \subseteq network
           /\ UNCHANGED <<packets, curr_rcv_seq_number, rcv_loss_list>>
  <2>1. RcvTypeOK'
    BY <1>1, <1>5, <1>7 DEF IInv, TypeOK, RcvTypeOK, ackVars
  <2>2. RcvInv' /\ AckInv' /\ NetInv'
    BY <1>1, <1>7 DEF IInv, RcvInv, AckInv, NetInv, ackVars, sndVars, seqVars
  <2>3. DataInv'
    BY <1>1, <1>7 DEF IInv, DataInv, StreamIntegrity
  <2>4. TypeOK'
    BY <1>1, <1>6, <1>7, <2>1 DEF IInv, TypeOK
  <2> QED BY <1>6, <2>2, <2>3, <2>4 DEF IInv
<1>8. CASE /\ ~(SeqSub(m.seq, last_sent_ack) < 0)
           /\ packets' = RcvInsert(packets, m.seq, m.data)
           /\ network' \subseteq network \cup (IF ahead > 1 THEN {Nak(first, last)} ELSE {})
           /\ curr_rcv_seq_number' = IF ahead > 0 THEN m.seq ELSE curr_rcv_seq_number
           /\ rcv_loss_list' = IF ahead > 1 THEN rcv_loss_list \cup CyclicRange(first, last)
                               ELSE IF ahead > 0 THEN rcv_loss_list
                               ELSE rcv_loss_list \ {m.seq}
  <2>1. m.seq >= next_to_ack
    <3>1. SeqSub(m.seq, last_sent_ack) = m.seq - last_sent_ack
      BY <1>4, AllUsed, UsedExact
    <3> QED BY <1>3, <1>8, <3>1 DEF IInv, RcvInv
  <2>2. ahead = m.seq - curr_rcv_seq_number
    BY <1>4, AllUsed, UsedExact
  <2>3. first = curr_rcv_seq_number + 1
    <3>1. curr_rcv_seq_number \in Used /\ curr_rcv_seq_number + 1 \in Used
      BY AllUsed
    <3> QED BY <3>1, UsedExact
  <2>4. last = m.seq - 1
    <3>1. m.seq + (-1) \in Used /\ -1 \in Int
      BY <1>3, <1>4, TransferAssumption DEF Used
    <3> QED BY <1>3, <1>4, <3>1, UsedExact
  <2>5. ahead > 1 => CyclicRange(first, last) = (curr_rcv_seq_number + 1) .. (m.seq - 1)
    BY <1>3, <2>2, <2>3, <2>4, RangeExact
  <2> HIDE DEF ahead, first, last
  <2>6. /\ DOMAIN packets' = DOMAIN packets \cup {m.seq}
        /\ \A s \in DOMAIN packets' :
             packets'[s] = IF s \in DOMAIN packets THEN packets[s] ELSE m.data
    BY <1>8 DEF RcvInsert
  <2>7. /\ curr_rcv_seq_number' \in Nat
        /\ curr_rcv_seq_number' >= curr_rcv_seq_number
        /\ curr_rcv_seq_number' <= curr_snd_seq_number
        /\ curr_rcv_seq_number' = curr_rcv_seq_number \/ curr_rcv_seq_number' = m.seq
    <3>1. curr_rcv_seq_number <= curr_snd_seq_number
      BY DEF IInv, RcvInv
    <3> QED BY <1>3, <1>8, <2>2, <3>1
  <2>8. \A s \in rcv_loss_list' : \/ s \in rcv_loss_list
                                  \/ /\ s \in Nat
                                     /\ s >= curr_rcv_seq_number + 1
                                     /\ s < curr_rcv_seq_number'
    <3>1. CASE ahead > 1
      <4>1. rcv_loss_list' = rcv_loss_list \cup ((curr_rcv_seq_number + 1) .. (m.seq - 1))
        BY <1>8, <2>5, <3>1
      <4>2. curr_rcv_seq_number' = m.seq
        BY <1>3, <1>8, <2>2, <3>1
      <4> QED BY <1>3, <4>1, <4>2
    <3>2. CASE ~(ahead > 1)
      BY <1>8, <3>2
    <3> QED BY <3>1, <3>2
  <2>9. next_to_ack <= curr_rcv_seq_number + 1 /\ curr_rcv_seq_number + 1 >= ISN
    BY DEF IInv, RcvInv
  <2>9a. ASSUME NEW a \in Nat, a <= curr_rcv_seq_number + 1,
                \A s \in rcv_loss_list : a <= s
         PROVE  \A s \in rcv_loss_list' : a <= s
    <3> TAKE s \in rcv_loss_list'
    <3>1. CASE s \in rcv_loss_list
      BY <2>9a, <3>1
    <3>2. CASE s \in Nat /\ s >= curr_rcv_seq_number + 1
      BY <2>9a, <3>2
    <3> QED BY <2>8, <3>1, <3>2
  <2>10. rcv_loss_list' \subseteq next_to_ack .. curr_rcv_seq_number'
    <3> SUFFICES ASSUME NEW s \in rcv_loss_list'
                 PROVE  s \in next_to_ack .. curr_rcv_seq_number'
      OBVIOUS
    <3>1. CASE s \in rcv_loss_list
      <4>1. s \in Nat /\ s >= next_to_ack /\ s <= curr_rcv_seq_number
        BY <3>1 DEF IInv, RcvInv
      <4> QED BY <2>7, <4>1
    <3>2. CASE s \in Nat /\ s >= curr_rcv_seq_number + 1 /\ s < curr_rcv_seq_number'
      <4>1. s >= next_to_ack
        BY <2>9, <3>2
      <4> QED BY <2>7, <3>2, <4>1
    <3> QED BY <2>8, <3>1, <3>2
  <2>11. DOMAIN packets' = (next_to_read .. curr_rcv_seq_number') \ rcv_loss_list'
    <3>1. DOMAIN packets = (next_to_read .. curr_rcv_seq_number) \ rcv_loss_list
      BY DEF IInv, RcvInv
    <3>2. next_to_read <= next_to_ack
      BY DEF IInv, RcvInv
    <3>3. \A s \in rcv_loss_list : s <= curr_rcv_seq_number
      BY DEF IInv, RcvInv
    <3>4. CASE ahead > 1
      <4>1. /\ curr_rcv_seq_number' = m.seq
            /\ rcv_loss_list' = rcv_loss_list \cup ((curr_rcv_seq_number + 1) .. (m.seq - 1))
        <5>1. ahead > 0
          BY <1>3, <2>2, <3>4
        <5> QED BY <1>8, <2>5, <3>4, <5>1
      <4>2. m.seq > curr_rcv_seq_number
        BY <1>3, <2>2, <3>4
      <4> QED BY <1>3, <2>1, <2>6, <2>9, <3>1, <3>2, <3>3, <4>1, <4>2
    <3>5. CASE ahead = 1
      <4>1. curr_rcv_seq_number' = m.seq /\ rcv_loss_list' = rcv_loss_list
        BY <1>8, <2>2, <3>5
      <4>2. m.seq = curr_rcv_seq_number + 1
        BY <1>3, <2>2, <3>5
      <4> QED BY <1>3, <2>1, <2>6, <2>9, <3>1, <3>2, <3>3, <4>1, <4>2
    <3>6. CASE ahead <= 0
      <4>1. curr_rcv_seq_number' = curr_rcv_seq_number /\ rcv_loss_list' = rcv_loss_list \ {m.seq}
        BY <1>3, <1>8, <2>2, <3>6
      <4>2. m.seq <= curr_rcv_seq_number
        BY <1>3, <2>2, <3>6
      <4> QED BY <1>3, <2>1, <2>6, <3>1, <3>2, <4>1, <4>2
    <3> QED BY <1>3, <2>2, <3>4, <3>5, <3>6
  <2>12. last_sent_ack \in (ISN - 1) .. (curr_rcv_seq_number' + 1)
    <3>1. last_sent_ack \in (ISN - 1) .. (curr_rcv_seq_number + 1)
      BY DEF IInv, RcvInv
    <3>2. CASE curr_rcv_seq_number' = curr_rcv_seq_number
      BY <3>1, <3>2
    <3>3. CASE curr_rcv_seq_number' = m.seq
      <4>1. curr_rcv_seq_number <= m.seq
        BY <2>7, <3>3
      <4> QED BY <1>3, <3>1, <3>3, <4>1
    <3> QED BY <2>7, <3>2, <3>3
  <2>13. RcvInv'
    <3>1. curr_rcv_seq_number' \in (ISN - 1) .. curr_snd_seq_number'
      <4>1. curr_snd_seq_number' = curr_snd_seq_number
        BY <1>1 DEF sndVars, seqVars
      <4>2. curr_rcv_seq_number >= ISN - 1
        BY DEF IInv, RcvInv
      <4> QED BY <2>7, <4>1, <4>2
    <3> QED BY <1>1, <2>10, <2>11, <2>12, <3>1 DEF IInv, RcvInv, ackVars
  <2>14. RcvTypeOK'
    <3>1. next_to_ack .. curr_rcv_seq_number' \subseteq Used
      <4>1. curr_rcv_seq_number' \in Used
        BY <1>4, <2>7, AllUsed
      <4> QED BY <4>1, AllUsed, TransferAssumption DEF Used
    <3>2. rcv_loss_list' \subseteq SeqNumbers /\ curr_rcv_seq_number' \in SeqNumbers
      BY <1>4, <2>7, <2>10, <3>1, AllUsed, UsedExact
    <3>3. DOMAIN packets' \subseteq SeqNumbers /\ \A s \in DOMAIN packets' : packets'[s] \in Blocks
      BY <1>3, <1>4, <2>6, UsedExact DEF IInv, TypeOK, RcvTypeOK
    <3> QED BY <1>1, <1>5, <3>2, <3>3 DEF IInv, TypeOK, RcvTypeOK, ackVars
  <2>15. AckInv'
    <3>1. /\ last_ack_received <= curr_rcv_seq_number + 1
          /\ \A s \in rcv_loss_list : last_ack_received <= s
      BY DEF IInv, AckInv
    <3>2. \A s \in rcv_loss_list' : last_ack_received <= s
      BY <3>1, <2>9a
    <3>3. last_ack_received <= curr_rcv_seq_number' + 1
      <4>1. CASE curr_rcv_seq_number' = curr_rcv_seq_number
        BY <3>1, <4>1
      <4>2. CASE curr_rcv_seq_number' = m.seq
        <5>1. curr_rcv_seq_number <= m.seq
          BY <2>7, <4>2
        <5> QED BY <1>3, <3>1, <4>2, <5>1
      <4> QED BY <2>7, <4>1, <4>2
    <3> QED BY <1>1, <3>2, <3>3 DEF IInv, AckInv, ackVars, sndVars, seqVars
  <2>16. ahead > 1 => /\ Nak(first, last) \in Messages
                      /\ Nak(first, last).type = "nak"
                      /\ first \in ISN .. curr_snd_seq_number
                      /\ last \in first .. curr_snd_seq_number
                      /\ Nak(first, last).first = first
                      /\ Nak(first, last).last = last
    <3> HAVE ahead > 1
    <3>1. /\ first \in ISN .. curr_snd_seq_number
          /\ last \in first .. curr_snd_seq_number
      BY <1>3, <2>2, <2>3, <2>4, <2>9
    <3>2. first \in SeqNumbers /\ last \in SeqNumbers
      BY <2>3, <2>4, <1>3, <1>4, AllUsed, AddType, UsedExact DEF first, last
    <3> QED BY <3>1, <3>2 DEF Nak, Messages
  <2>17. NetInv'
    <3> SUFFICES ASSUME NEW d \in network'
                 PROVE  /\ d.type = "data" => d.seq \in ISN .. curr_snd_seq_number
                        /\ d.type = "ack" => d.seq \in ISN .. next_to_ack
                        /\ d.type = "light" => /\ d.seq \in ISN .. (curr_rcv_seq_number' + 1)
                                               /\ \A s \in rcv_loss_list' : d.seq <= s
                        /\ d.type = "nak" => /\ d.first \in ISN .. curr_snd_seq_number
                                             /\ d.last \in d.first .. curr_snd_seq_number
      BY <1>1 DEF NetInv, sndVars, seqVars
    <3>1. CASE d \in network
      <4>1. d.type = "light" => /\ d.seq \in ISN .. (curr_rcv_seq_number' + 1)
                                /\ \A s \in rcv_loss_list' : d.seq <= s
        <5> HAVE d.type = "light"
        <5>1. /\ d.seq \in ISN .. (curr_rcv_seq_number + 1)
              /\ \A s \in rcv_loss_list : d.seq <= s
          BY <3>1 DEF IInv, NetInv
        <5>2. \A s \in rcv_loss_list' : d.seq <= s
          BY <5>1, <2>9a
        <5>3. d.seq \in ISN .. (curr_rcv_seq_number' + 1)
          <6>1. CASE curr_rcv_seq_number' = curr_rcv_seq_number
            BY <5>1, <6>1
          <6>2. CASE curr_rcv_seq_number' = m.seq
            <7>1. curr_rcv_seq_number <= m.seq
              BY <2>7, <6>2
            <7> QED BY <1>3, <5>1, <6>2, <7>1
          <6> QED BY <2>7, <6>1, <6>2
        <5> QED BY <5>2, <5>3
      <4> QED BY <3>1, <4>1 DEF IInv, NetInv
    <3>2. CASE ahead > 1 /\ d = Nak(first, last)
      BY <2>16, <3>2
    <3> QED BY <1>8, <3>1, <3>2
  <2>18. DataInv'
    <3> SUFFICES ASSUME ~MultiThread PROVE DataInv'
      BY DEF DataInv
    <3>1. m.data = m.seq - ISN + 1
      BY <1>1 DEF IInv, DataInv
    <3>2. \A s \in DOMAIN packets' : packets'[s] = s - ISN + 1
      BY <2>6, <3>1 DEF IInv, DataInv
    <3>3. \A d \in network' : d.type = "data" => d.data = d.seq - ISN + 1
      BY <1>8, <2>16 DEF IInv, DataInv
    <3> QED BY <1>1, <3>2, <3>3 DEF IInv, DataInv, StreamIntegrity
  <2>19. TypeOK'
    <3>1. network' \subseteq Messages
      BY <1>8, <2>16 DEF IInv, TypeOK
    <3> QED BY <1>1, <1>6, <2>14, <3>1 DEF IInv, TypeOK
  <2> QED BY <1>6, <2>13, <2>15, <2>17, <2>18, <2>19 DEF IInv
<1> QED
  <2>1. \/ /\ network' \subseteq network
           /\ UNCHANGED <<packets, curr_rcv_seq_number, rcv_loss_list>>
        \/ /\ ~(SeqSub(m.seq, last_sent_ack) < 0)
           /\ packets' = RcvInsert(packets, m.seq, m.data)
           /\ network' \subseteq network \cup (IF ahead > 1 THEN {Nak(first, last)} ELSE {})
           /\ curr_rcv_seq_number' = IF ahead > 0 THEN m.seq ELSE curr_rcv_seq_number
           /\ rcv_loss_list' = IF ahead > 1 THEN rcv_loss_list \cup CyclicRange(first, last)
                               ELSE IF ahead > 0 THEN rcv_loss_list
                               ELSE rcv_loss_list \ {m.seq}
    <3>1. CASE SeqSub(m.seq, last_sent_ack) < 0 \/ AvailableBufSize(packets) < SeqSub(m.seq, last_sent_ack)
      BY <3>1 DEF ProcessData, Receive
    <3>2. CASE ~(SeqSub(m.seq, last_sent_ack) < 0 \/ AvailableBufSize(packets) < SeqSub(m.seq, last_sent_ack))
      <4> HIDE DEF ahead, first, last
      <4> QED BY <3>2 DEF ProcessData, Receive, ahead, first, last
    <3> QED BY <3>1, <3>2
  <2> QED BY <1>7, <1>8, <2>1

(* The ACK window only ever holds ACKs that were sent, and the new ACK     *)
(* says what the receiver has acknowledged (send_ack, ack_window.rs).      *)
LEMMA EmitAckTypes ==
  ASSUME NoWrap, IInv, NEW acked \in SeqNumbers, EmitAck(acked)
  PROVE  /\ last_ack_seq_number' \in 0 .. MaxAcks
         /\ ack_window' \in Seq([ack : 1 .. MaxAcks, seq : SeqNumbers])
         /\ \A i \in DOMAIN ack_window' :
              \/ ack_window'[i].seq = acked
              \/ \E j \in DOMAIN ack_window : ack_window'[i] = ack_window[j]
         /\ \A d \in network' :
              d \in network \/ (d \in Messages /\ d.type = "ack" /\ d.seq = acked)
         /\ losses' = losses
<1> DEFINE Entries == [ack : 1 .. MaxAcks, seq : SeqNumbers]
           ack    == last_ack_seq_number + 1
           avail  == AvailableBufSize(packets)
           size   == IF avail > 2 THEN avail ELSE 2
           entry  == [ack |-> ack, seq |-> acked]
           window == IF Len(ack_window) >= ACK_WINDOW_SIZE
                     THEN Tail(ack_window) ELSE ack_window
<1>1. last_ack_seq_number \in Nat /\ MaxAcks \in Nat /\ ack_window \in Seq(Entries)
      /\ last_ack_seq_number \in 0 .. MaxAcks
  BY TransferAssumption DEF IInv, TypeOK, RcvTypeOK
<1>2. CASE UNCHANGED <<last_ack_seq_number, ack_window, netVars>>
  BY <1>1, <1>2 DEF netVars
<1>3. CASE /\ ack <= MaxAcks
           /\ last_ack_seq_number' = ack
           /\ ack_window' = Append(window, entry)
           /\ Send({Ack(ack, acked, size)})
  <2>1. ack \in 1 .. MaxAcks
    BY <1>1, <1>3
  <2>2. entry \in Entries /\ entry.seq = acked
    BY <2>1
  <2>3. /\ window \in Seq(Entries)
        /\ \A i \in 1 .. Len(window) : \E j \in DOMAIN ack_window : window[i] = ack_window[j]
    <3>1. CASE Len(ack_window) >= ACK_WINDOW_SIZE
      <4>1. ack_window # <<>>
        BY <1>1, <3>1, TransferAssumption
      <4>2. /\ Tail(ack_window) \in Seq(Entries)
            /\ Len(Tail(ack_window)) = Len(ack_window) - 1
            /\ \A i \in 1 .. Len(Tail(ack_window)) : Tail(ack_window)[i] = ack_window[i + 1]
        BY <1>1, <4>1, HeadTailProperties
      <4>3. \A i \in 1 .. Len(Tail(ack_window)) : i + 1 \in DOMAIN ack_window
        BY <1>1, <4>2
      <4> QED BY <3>1, <4>2, <4>3
    <3>2. CASE ~(Len(ack_window) >= ACK_WINDOW_SIZE)
      BY <1>1, <3>2
    <3> QED BY <3>1, <3>2
  <2> HIDE DEF Entries, entry, window
  <2>4. /\ ack_window' \in Seq(Entries)
        /\ Len(ack_window') = Len(window) + 1
        /\ \A i \in 1 .. Len(window) : ack_window'[i] = window[i]
        /\ ack_window'[Len(window) + 1] = entry
    BY <1>3, <2>2, <2>3, AppendProperties
  <2>5. ASSUME NEW i \in DOMAIN ack_window'
        PROVE  \/ ack_window'[i].seq = acked
               \/ \E j \in DOMAIN ack_window : ack_window'[i] = ack_window[j]
    <3>1. Len(window) \in Nat /\ DOMAIN ack_window' = 1 .. (Len(window) + 1)
      BY <2>3, <2>4
    <3>2. CASE i = Len(window) + 1
      BY <2>2, <2>4, <3>2
    <3>3. CASE i \in 1 .. Len(window)
      BY <2>3, <2>4, <3>3
    <3> QED BY <3>1, <3>2, <3>3
  <2>6. size \in 0 .. (U32_MODULUS + 1)
    <3>1. avail \in 0 .. (U32_MODULUS - 1)
      BY AvailableType
    <3>2. U32_MODULUS \in Nat /\ U32_MODULUS >= 1
      BY RcvBufferAssumption
    <3> HIDE DEF avail
    <3> QED BY <3>1, <3>2
  <2> HIDE DEF size, ack
  <2>7. Ack(ack, acked, size) \in Messages
    BY <2>1, <2>6 DEF Ack, Messages
  <2>8. Ack(ack, acked, size).type = "ack" /\ Ack(ack, acked, size).seq = acked
    BY DEF Ack
  <2>9. network' = network \cup {Ack(ack, acked, size)} /\ losses' = losses
    BY <1>3 DEF Send
  <2>10. last_ack_seq_number' \in 0 .. MaxAcks
    BY <1>1, <1>3, <2>1
  <2> QED BY <2>4, <2>5, <2>7, <2>8, <2>9, <2>10 DEF Entries
<1> QED BY <1>2, <1>3 DEF EmitAck

(* The ACK timer: what is acknowledged, and so released to recv() and by   *)
(* the sender, has all been received (check_timers and send_ack).          *)
LEMMA AckTimerInv ==
  ASSUME NoWrap, IInv, AckTimer
  PROVE  IInv'
<1> DEFINE to_ack == SeqSub(AckPoint, last_sent_ack)
           Entries == [ack : 1 .. MaxAcks, seq : SeqNumbers]
<1> /\ curr_snd_seq_number \in Nat /\ ISN \in Nat /\ last_sent_ack \in Nat
    /\ last_data_ack_processed \in Nat /\ next_to_read \in Nat
    /\ last_ack2_received \in Nat /\ last_ack_received \in Nat
    /\ curr_rcv_seq_number \in Nat /\ next_to_ack \in Nat /\ rcv_loss_list \subseteq Nat
  BY AllNat
<1>1. /\ pkt_count' = 0 /\ light_ack_counter' = 0
      /\ UNCHANGED <<packets, next_to_read, delivered, last_ack2_received,
                     curr_rcv_seq_number, rcv_loss_list, sndVars>>
  BY DEF AckTimer
<1>2. SndTypeOK' /\ SndInv' /\ WorkerInv' /\ NoProtocolBreak'
  BY <1>1, SndFrame
<1>3. /\ AckPoint \in Nat
      /\ AckPoint >= next_to_ack /\ AckPoint <= curr_rcv_seq_number + 1
      /\ AckPoint \in Used
      /\ \A s \in rcv_loss_list : AckPoint <= s
  BY AckPointExact
<1>4. AckPoint \in SeqNumbers /\ last_sent_ack \in SeqNumbers
  BY <1>3, UsedExact DEF IInv, TypeOK, RcvTypeOK
<1>5. to_ack = AckPoint - last_sent_ack
  BY <1>3, AllUsed, UsedExact
<1>6. next_to_ack >= ISN
  BY DEF IInv, RcvInv
<1>7. /\ next_to_ack' = next_to_ack \/ next_to_ack' = AckPoint
      /\ \/ last_sent_ack' = last_sent_ack /\ next_to_ack' = next_to_ack
         \/ last_sent_ack' = AckPoint /\ next_to_ack' = AckPoint
      /\ \/ UNCHANGED <<last_ack_seq_number, ack_window, netVars>>
         \/ EmitAck(AckPoint) /\ next_to_ack' = AckPoint
  <2>1. CASE UNCHANGED <<last_sent_ack, next_to_ack, last_ack_seq_number,
                         ack_window, netVars>>
    BY <2>1
  <2>2. CASE /\ last_sent_ack' = AckPoint
             /\ next_to_ack' = RcvAckData(next_to_ack, AckPoint)
             /\ EmitAck(AckPoint)
    <3>1. SeqSub(AckPoint, next_to_ack) = AckPoint - next_to_ack
      BY <1>3, AllUsed, UsedExact
    <3>2. next_to_ack' = AckPoint
      BY <1>3, <2>2, <3>1 DEF RcvAckData
    <3> QED BY <2>2, <3>2
  <2>3. CASE /\ to_ack = 0
             /\ EmitAck(last_sent_ack)
             /\ UNCHANGED <<last_sent_ack, next_to_ack>>
    <3>1. last_sent_ack = AckPoint
      BY <1>3, <1>5, <2>3
    <3>2. next_to_ack = AckPoint
      BY <1>3, <1>6, <3>1 DEF IInv, RcvInv
    <3> QED BY <2>3, <3>1, <3>2
  <2> QED BY <2>1, <2>2, <2>3 DEF AckTimer
<1> HIDE DEF to_ack, Entries
<1>8. /\ next_to_ack' \in Nat
      /\ next_to_ack' >= next_to_ack /\ next_to_ack' <= AckPoint
  BY <1>3, <1>7
<1>9. /\ last_ack_seq_number' \in 0 .. MaxAcks
      /\ ack_window' \in Seq(Entries)
      /\ \A i \in DOMAIN ack_window' :
           \/ ack_window'[i].seq = next_to_ack'
           \/ \E j \in DOMAIN ack_window : ack_window'[i] = ack_window[j]
      /\ \A d \in network' :
           d \in network \/ (d \in Messages /\ d.type = "ack" /\ d.seq = next_to_ack')
      /\ losses' = losses
  <2>1. CASE UNCHANGED <<last_ack_seq_number, ack_window, netVars>>
    BY <2>1 DEF IInv, TypeOK, RcvTypeOK, netVars, Entries
  <2>2. CASE EmitAck(AckPoint) /\ next_to_ack' = AckPoint
    BY <1>4, <2>2, EmitAckTypes DEF Entries
  <2> QED BY <1>7, <2>1, <2>2
<1>10. RcvTypeOK'
  <2>1. next_to_ack' \in SeqNumbers /\ last_sent_ack' \in SeqNumbers
    BY <1>4, <1>7 DEF IInv, TypeOK, RcvTypeOK
  <2> QED BY <1>1, <1>9, <2>1, TransferAssumption DEF IInv, TypeOK, RcvTypeOK, Entries
<1>11. RcvInv'
  <2>1. /\ last_sent_ack' \in (ISN - 1) .. (curr_rcv_seq_number + 1)
        /\ next_to_ack' = IF last_sent_ack' < ISN THEN ISN ELSE last_sent_ack'
    <3>1. CASE last_sent_ack' = last_sent_ack /\ next_to_ack' = next_to_ack
      BY <3>1 DEF IInv, RcvInv
    <3>2. CASE last_sent_ack' = AckPoint /\ next_to_ack' = AckPoint
      BY <1>3, <1>6, <3>2
    <3> QED BY <1>7, <3>1, <3>2
  <2>2. next_to_read \in ISN .. next_to_ack'
    BY <1>8 DEF IInv, RcvInv
  <2>3. rcv_loss_list \subseteq next_to_ack' .. curr_rcv_seq_number
    <3>1. \A s \in rcv_loss_list : s \in Nat /\ s <= curr_rcv_seq_number
      BY DEF IInv, RcvInv
    <3> QED BY <1>3, <1>8, <3>1
  <2> QED BY <1>1, <2>1, <2>2, <2>3 DEF IInv, RcvInv, sndVars, seqVars
<1>12. AckInv'
  <2>1. last_data_ack_processed <= next_to_ack' /\ last_ack2_received \in ISN .. next_to_ack'
    BY <1>8 DEF IInv, AckInv
  <2>2. ASSUME NEW i \in DOMAIN ack_window'
        PROVE  ack_window'[i].seq \in ISN .. next_to_ack'
    <3>1. CASE ack_window'[i].seq = next_to_ack'
      BY <1>6, <1>8, <3>1
    <3>2. CASE \E j \in DOMAIN ack_window : ack_window'[i] = ack_window[j]
      <4>1. ack_window'[i].seq \in ISN .. next_to_ack
        BY <3>2 DEF IInv, AckInv
      <4> QED BY <1>8, <4>1
    <3> QED BY <1>9, <3>1, <3>2
  <2> QED BY <1>1, <2>1, <2>2 DEF IInv, AckInv, sndVars, seqVars
<1>13. NetInv'
  <2> SUFFICES ASSUME NEW d \in network'
               PROVE  /\ d.type = "data" => d.seq \in ISN .. curr_snd_seq_number
                      /\ d.type = "ack" => d.seq \in ISN .. next_to_ack'
                      /\ d.type = "light" => /\ d.seq \in ISN .. (curr_rcv_seq_number + 1)
                                             /\ \A s \in rcv_loss_list : d.seq <= s
                      /\ d.type = "nak" => /\ d.first \in ISN .. curr_snd_seq_number
                                           /\ d.last \in d.first .. curr_snd_seq_number
    BY <1>1 DEF NetInv, sndVars, seqVars
  <2>1. CASE d \in network
    <3>1. d.type = "ack" => d.seq \in ISN .. next_to_ack'
      <4> HAVE d.type = "ack"
      <4>1. d.seq \in ISN .. next_to_ack
        BY <2>1 DEF IInv, NetInv
      <4> QED BY <1>8, <4>1
    <3> QED BY <2>1, <3>1 DEF IInv, NetInv
  <2>2. CASE d.type = "ack" /\ d.seq = next_to_ack'
    BY <1>6, <1>8, <2>2
  <2> QED BY <1>9, <2>1, <2>2
<1>14. DataInv'
  <2>1. \A d \in network' : d.type = "data" => d \in network
    BY <1>9
  <2> QED BY <1>1, <2>1 DEF IInv, DataInv, StreamIntegrity
<1>15. TypeOK'
  <2>1. network' \subseteq Messages
    BY <1>9 DEF IInv, TypeOK
  <2> QED BY <1>2, <1>9, <1>10, <2>1 DEF IInv, TypeOK
<1> QED BY <1>2, <1>11, <1>12, <1>13, <1>14, <1>15 DEF IInv

(* A light ACK names the same number as an ACK would (send_ack).           *)
LEMMA SendLightAckInv ==
  ASSUME NoWrap, IInv, SendLightAck
  PROVE  IInv'
<1> /\ ISN \in Nat /\ curr_rcv_seq_number \in Nat /\ next_to_ack \in Nat
    /\ rcv_loss_list \subseteq Nat
  BY AllNat
<1>1. /\ light_ack_counter' = light_ack_counter + 1
      /\ network' \subseteq network \cup {LightAck(AckPoint)}
      /\ losses' = losses
      /\ UNCHANGED <<rbufVars, last_sent_ack, last_ack2_received,
                     last_ack_seq_number, ack_window, curr_rcv_seq_number,
                     rcv_loss_list, pkt_count, sndVars>>
  BY DEF SendLightAck, Send
<1>2. SndTypeOK' /\ SndInv' /\ WorkerInv' /\ NoProtocolBreak'
  BY <1>1, SndFrame
<1>3. RcvTypeOK'
  <2>1. light_ack_counter' \in Nat
    BY <1>1 DEF IInv, TypeOK, RcvTypeOK
  <2> QED BY <1>1, <2>1 DEF IInv, TypeOK, RcvTypeOK, rbufVars
<1>4. RcvInv' /\ AckInv'
  BY <1>1 DEF IInv, RcvInv, AckInv, rbufVars, sndVars, seqVars
<1>5. /\ AckPoint \in ISN .. (curr_rcv_seq_number + 1)
      /\ AckPoint \in SeqNumbers
      /\ \A s \in rcv_loss_list : AckPoint <= s
  <2>1. next_to_ack >= ISN
    BY DEF IInv, RcvInv
  <2> QED BY <2>1, AckPointExact, UsedExact
<1>6. /\ LightAck(AckPoint) \in Messages
      /\ LightAck(AckPoint).type = "light"
      /\ LightAck(AckPoint).seq = AckPoint
  BY <1>5 DEF LightAck, Messages
<1>7. NetInv'
  <2>1. ASSUME NEW d \in network'
        PROVE  /\ d.type = "data" => d.seq \in ISN .. curr_snd_seq_number
               /\ d.type = "ack" => d.seq \in ISN .. next_to_ack
               /\ d.type = "light" => /\ d.seq \in ISN .. (curr_rcv_seq_number + 1)
                                      /\ \A s \in rcv_loss_list : d.seq <= s
               /\ d.type = "nak" => /\ d.first \in ISN .. curr_snd_seq_number
                                    /\ d.last \in d.first .. curr_snd_seq_number
    <3>1. CASE d \in network
      BY <3>1 DEF IInv, NetInv
    <3>2. CASE d = LightAck(AckPoint)
      BY <1>5, <1>6, <3>2
    <3> QED BY <1>1, <3>1, <3>2
  <2> QED BY <1>1, <2>1 DEF NetInv, rbufVars, sndVars, seqVars
<1>8. DataInv'
  <2>1. \A d \in network' : d.type = "data" => d \in network
    BY <1>1, <1>6
  <2> QED BY <1>1, <2>1 DEF IInv, DataInv, StreamIntegrity, rbufVars
<1>9. TypeOK'
  BY <1>1, <1>2, <1>3, <1>6 DEF IInv, TypeOK
<1> QED BY <1>2, <1>4, <1>7, <1>8, <1>9 DEF IInv

(* An ACK2 confirms no more than what was acknowledged (process_ctrl).     *)
LEMMA ProcessAck2Inv ==
  ASSUME NoWrap, IInv, NEW m \in network, ProcessAck2(m)
  PROVE  IInv'
<1> DEFINE confirmed == {a.seq : a \in {b \in Range(ack_window) : b.ack = m.ack}}
           newer     == {s \in confirmed : SeqSub(s, last_ack2_received) > 0}
<1>1. /\ last_ack2_received' \in IF newer = {} THEN {last_ack2_received} ELSE newer
      /\ network' \subseteq network
      /\ losses' = losses
      /\ UNCHANGED <<rbufVars, last_sent_ack, last_ack_seq_number, ack_window,
                     light_ack_counter, curr_rcv_seq_number, rcv_loss_list,
                     pkt_count, sndVars>>
  BY DEF ProcessAck2, NewlyConfirmed, Receive
<1>2. SndTypeOK' /\ SndInv' /\ WorkerInv' /\ NoProtocolBreak'
  BY <1>1, SndFrame
<1>3. confirmed \subseteq ISN .. next_to_ack /\ confirmed \subseteq SeqNumbers
  <2> SUFFICES ASSUME NEW b \in Range(ack_window)
               PROVE  b.seq \in ISN .. next_to_ack /\ b.seq \in SeqNumbers
    OBVIOUS
  <2>1. PICK i \in DOMAIN ack_window : b = ack_window[i]
    BY DEF Range
  <2>2. ack_window[i] \in [ack : 1 .. MaxAcks, seq : SeqNumbers]
    <3>1. ack_window \in Seq([ack : 1 .. MaxAcks, seq : SeqNumbers])
      BY DEF IInv, TypeOK, RcvTypeOK
    <3>2. i \in 1 .. Len(ack_window)
      BY <3>1
    <3> QED BY <3>1, <3>2, ElementOfSeq
  <2> QED BY <2>1, <2>2 DEF IInv, AckInv
<1>4. last_ack2_received' \in ISN .. next_to_ack /\ last_ack2_received' \in SeqNumbers
  <2>1. last_ack2_received \in ISN .. next_to_ack /\ last_ack2_received \in SeqNumbers
    BY DEF IInv, AckInv, TypeOK, RcvTypeOK
  <2>2. last_ack2_received' = last_ack2_received \/ last_ack2_received' \in confirmed
    BY <1>1
  <2> HIDE DEF confirmed, newer
  <2> QED BY <1>3, <2>1, <2>2
<1>5. RcvTypeOK'
  BY <1>1, <1>4 DEF IInv, TypeOK, RcvTypeOK, rbufVars
<1>6. RcvInv' /\ AckInv' /\ NetInv'
  BY <1>1, <1>4 DEF IInv, RcvInv, AckInv, NetInv, rbufVars, sndVars, seqVars
<1>7. DataInv'
  BY <1>1 DEF IInv, DataInv, StreamIntegrity, rbufVars
<1>8. TypeOK'
  BY <1>1, <1>2, <1>5 DEF IInv, TypeOK
<1> QED BY <1>2, <1>6, <1>7, <1>8 DEF IInv

(* Everything below next_to_ack is in the receive buffer, so that recv()   *)
(* takes out the very next number (read_buffer).                           *)
LEMMA RecvInv ==
  ASSUME NoWrap, IInv, Recv
  PROVE  IInv'
<1> DEFINE readable == Readable(packets, next_to_read, next_to_ack)
           seq      == FirstAfter(readable, next_to_read)
<1> /\ ISN \in Nat /\ next_to_read \in Nat /\ next_to_ack \in Nat
    /\ curr_rcv_seq_number \in Nat /\ rcv_loss_list \subseteq Nat
  BY AllNat
<1>1. /\ readable # {}
      /\ delivered' = Append(delivered, packets[seq])
      /\ next_to_read' = SeqAdd(seq, 1)
      /\ packets' = RcvRemove(packets, seq)
      /\ UNCHANGED <<next_to_ack, ackVars, curr_rcv_seq_number,
                     rcv_loss_list, pkt_count, sndVars, netVars>>
  BY DEF Recv
<1>2. /\ next_to_read <= next_to_ack
      /\ next_to_read >= ISN
      /\ \A s \in rcv_loss_list : s >= next_to_ack
      /\ DOMAIN packets = (next_to_read .. curr_rcv_seq_number) \ rcv_loss_list
      /\ Len(delivered) = next_to_read - ISN
      /\ delivered \in Seq(Blocks)
  BY DEF IInv, RcvInv, TypeOK, RcvTypeOK
<1>3. readable = {s \in DOMAIN packets : next_to_read <= s /\ s < next_to_ack}
  BY <1>2 DEF Readable
<1>4. next_to_read \in readable
  <2>1. PICK s \in readable : TRUE
    BY <1>1
  <2>2. s \in Nat /\ s >= next_to_read /\ s <= curr_rcv_seq_number /\ s < next_to_ack
    BY <1>2, <1>3
  <2>3. next_to_read < next_to_ack /\ next_to_read <= curr_rcv_seq_number
    BY <2>2
  <2>4. next_to_read \notin rcv_loss_list
    BY <1>2, <2>3
  <2> QED BY <1>2, <1>3, <2>3, <2>4
<1>5. seq = next_to_read
  <2>1. readable \subseteq Nat /\ \A s \in readable : s >= next_to_read
    BY <1>2, <1>3
  <2>2. next_to_read \in Int
    OBVIOUS
  <2> HIDE DEF readable
  <2>3. seq \in readable /\ \A s \in readable : seq <= s
    BY <1>1, <2>1, <2>2, FirstAfterExact
  <2> HIDE DEF seq
  <2>4. seq <= next_to_read /\ seq >= next_to_read /\ seq \in Nat
    BY <1>4, <2>1, <2>3
  <2> QED BY <2>4
<1> HIDE DEF seq
<1>6. next_to_read < next_to_ack /\ next_to_read \in DOMAIN packets
  BY <1>3, <1>4
<1> HIDE DEF readable
<1>7. next_to_read' = next_to_read + 1 /\ next_to_read + 1 \in SeqNumbers
  <2>1. next_to_read \in Used /\ next_to_read + 1 \in Used
    BY <1>2, <1>6, AllUsed, TransferAssumption DEF Used
  <2> QED BY <1>1, <1>5, <2>1, UsedExact
<1>8. /\ DOMAIN packets' = DOMAIN packets \ {next_to_read}
      /\ \A s \in DOMAIN packets' : packets'[s] = packets[s]
  BY <1>1, <1>5 DEF RcvRemove
<1>9. packets[next_to_read] \in Blocks
  BY <1>6 DEF IInv, TypeOK, RcvTypeOK
<1>10. /\ delivered' \in Seq(Blocks)
       /\ Len(delivered') = Len(delivered) + 1
       /\ \A i \in 1 .. Len(delivered) : delivered'[i] = delivered[i]
       /\ delivered'[Len(delivered) + 1] = packets[next_to_read]
  BY <1>1, <1>2, <1>5, <1>9, AppendProperties
<1>11. SndTypeOK' /\ SndInv' /\ WorkerInv' /\ NoProtocolBreak'
  BY <1>1, SndFrame
<1>12. RcvTypeOK'
  BY <1>1, <1>7, <1>8, <1>10 DEF IInv, TypeOK, RcvTypeOK, ackVars
<1>13. RcvInv'
  <2>1. next_to_read' \in ISN .. next_to_ack
    BY <1>2, <1>6, <1>7
  <2>2. DOMAIN packets' = (next_to_read' .. curr_rcv_seq_number) \ rcv_loss_list
    BY <1>2, <1>6, <1>7, <1>8
  <2>3. Len(delivered') = next_to_read' - ISN
    BY <1>2, <1>7, <1>10
  <2> QED BY <1>1, <2>1, <2>2, <2>3 DEF IInv, RcvInv, ackVars, sndVars, seqVars
<1>14. AckInv' /\ NetInv'
  BY <1>1 DEF IInv, AckInv, NetInv, ackVars, sndVars, seqVars, netVars
<1>15. DataInv'
  <2> SUFFICES ASSUME ~MultiThread PROVE DataInv'
    BY DEF DataInv
  <2>1. \A s \in DOMAIN packets' : packets'[s] = s - ISN + 1
    BY <1>8 DEF IInv, DataInv
  <2>2. packets[next_to_read] = Len(delivered) + 1
    <3>1. packets[next_to_read] = next_to_read - ISN + 1
      BY <1>6 DEF IInv, DataInv
    <3> QED BY <1>2, <3>1
  <2>3. Len(delivered) \in Nat /\ \A i \in 1 .. Len(delivered) : delivered[i] = i
    BY <1>2 DEF IInv, DataInv, StreamIntegrity
  <2>4. \A i \in 1 .. (Len(delivered) + 1) : delivered'[i] = i
    <3> TAKE i \in 1 .. (Len(delivered) + 1)
    <3>1. CASE i = Len(delivered) + 1
      BY <1>10, <2>2, <3>1
    <3>2. CASE i \in 1 .. Len(delivered)
      BY <1>10, <2>3, <3>2
    <3> QED BY <2>3, <3>1, <3>2
  <2>5. StreamIntegrity'
    <3>1. DOMAIN delivered' = 1 .. Len(delivered')
      BY <1>10
    <3>2. \A i \in 1 .. Len(delivered') : delivered'[i] = i
      BY <1>10, <2>4
    <3>3. delivered' = [i \in DOMAIN delivered' |-> delivered'[i]]
      BY <1>10
    <3> QED BY <3>1, <3>2, <3>3 DEF StreamIntegrity
  <2> QED BY <1>1, <2>1, <2>5 DEF IInv, DataInv, netVars
<1>16. TypeOK'
  BY <1>1, <1>11, <1>12 DEF IInv, TypeOK, netVars
<1> QED BY <1>11, <1>13, <1>14, <1>15, <1>16 DEF IInv

(* The loss of a datagram.                                                 *)
LEMMA LoseInv ==
  ASSUME NoWrap, IInv, NEW m \in network, Lose(m)
  PROVE  IInv'
<1>1. /\ losses < MaxLosses
      /\ losses' = losses + 1
      /\ network' \subseteq network
      /\ UNCHANGED sndVars /\ UNCHANGED rcvVars
  BY DEF Lose
<1>2. SndTypeOK' /\ SndInv' /\ WorkerInv' /\ NoProtocolBreak'
  BY <1>1, SndFrame
<1>3. RcvTypeOK' /\ RcvInv'
  <2>1. curr_snd_seq_number' = curr_snd_seq_number
    BY <1>1 DEF sndVars, seqVars
  <2> QED BY <1>1, <2>1, AllNat, RcvFrame
<1>4. AckInv' /\ NetInv'
  BY <1>1 DEF IInv, AckInv, NetInv, sndVars, seqVars, rcvVars, rbufVars, ackVars
<1>5. DataInv'
  BY <1>1 DEF IInv, DataInv, StreamIntegrity, rcvVars, rbufVars
<1>6. losses' \in 0 .. MaxLosses
  BY <1>1, TransferAssumption DEF IInv, TypeOK
<1>7. TypeOK'
  BY <1>1, <1>2, <1>3, <1>6 DEF IInv, TypeOK
<1> QED BY <1>2, <1>3, <1>4, <1>5, <1>7 DEF IInv

(* Every step keeps the invariant.                                         *)
LEMMA NextInv ==
  ASSUME NoWrap, IInv, [Next]_vars
  PROVE  IInv'
<1>1. CASE \E chunks \in 1 .. MaxChunks : SendMessage(chunks)
  BY <1>1, SendMessageInv
<1>2. CASE SndWorker
  BY <1>2, SkipBrokenInv, PopLossInv, ResendInv, ReadWindowInv, FetchBatchInv DEF SndWorker
<1>3. CASE ProcessKeepAlive
  BY <1>3, ProcessKeepAliveInv
<1>4. CASE ExpTimer
  BY <1>4, ExpTimerInv
<1>5. CASE ExpBreak
  BY <1>5, ExpBreakInv
<1>6. CASE AckTimer
  BY <1>6, AckTimerInv
<1>7. CASE SendLightAck
  BY <1>7, SendLightAckInv
<1>8. CASE Recv
  BY <1>8, RecvInv
<1>9. CASE \E m \in network : Arrive(m)
  BY <1>9, ProcessLightAckInv, ProcessAckInv, ProcessNakInv, ProcessDataInv, ProcessAck2Inv
     DEF Arrive
<1>10. CASE \E m \in network : Lose(m)
  BY <1>10, LoseInv
<1>11. CASE UNCHANGED vars
  <2>1. UNCHANGED sndVars /\ UNCHANGED rcvVars /\ UNCHANGED netVars
    BY <1>11 DEF vars
  <2>2. SndTypeOK' /\ SndInv' /\ WorkerInv' /\ NoProtocolBreak'
    BY <2>1, SndFrame
  <2>3. RcvTypeOK' /\ RcvInv'
    <3>1. curr_snd_seq_number' = curr_snd_seq_number
      BY <2>1 DEF sndVars, seqVars
    <3> QED BY <2>1, <3>1, AllNat, RcvFrame
  <2>4. AckInv' /\ NetInv'
    BY <2>1 DEF IInv, AckInv, NetInv, sndVars, seqVars, rcvVars, rbufVars, ackVars, netVars
  <2>5. DataInv'
    BY <2>1 DEF IInv, DataInv, StreamIntegrity, rcvVars, rbufVars, netVars
  <2>6. TypeOK'
    BY <2>1, <2>2, <2>3 DEF IInv, TypeOK, netVars
  <2> QED BY <2>2, <2>3, <2>4, <2>5, <2>6 DEF IInv
<1> QED BY <1>1, <1>2, <1>3, <1>4, <1>5, <1>6, <1>7, <1>8, <1>9, <1>10, <1>11 DEF Next

(***************************************************************************)
(* What the invariant implies                                              *)
(***************************************************************************)

(* The receiver's loss list is what is missing (process_data).             *)
LEMMA RcvLossFromInv ==
  ASSUME NoWrap, IInv
  PROVE  RcvLossExact
<1> DEFINE missing == {BlockOf(s) : s \in rcv_loss_list}
           present == {BlockOf(s) : s \in DOMAIN packets}
<1> /\ ISN \in Nat /\ next_to_read \in Nat /\ curr_rcv_seq_number \in Nat
    /\ next_to_ack \in Nat /\ rcv_loss_list \subseteq Nat
  BY AllNat
<1>1. /\ DOMAIN packets = (next_to_read .. curr_rcv_seq_number) \ rcv_loss_list
      /\ \A s \in rcv_loss_list : s >= next_to_ack /\ s <= curr_rcv_seq_number
      /\ next_to_read <= next_to_ack
      /\ Len(delivered) = next_to_read - ISN
      /\ next_to_read >= ISN
  BY DEF IInv, RcvInv
<1>2. \A s \in next_to_read .. curr_rcv_seq_number : BlockOf(s) = s - ISN + 1
  <2>1. next_to_read .. curr_rcv_seq_number \subseteq Used
    BY AllUsed, TransferAssumption DEF Used
  <2> QED BY <2>1, BlockOfExact
<1>3. BlockOf(curr_rcv_seq_number) = curr_rcv_seq_number - ISN + 1
  BY AllUsed, BlockOfExact
<1>4. rcv_loss_list \subseteq next_to_read .. curr_rcv_seq_number
  BY <1>1
<1>5. ASSUME NEW s \in rcv_loss_list
      PROVE  /\ BlockOf(s) \in (Len(delivered) + 1) .. BlockOf(curr_rcv_seq_number)
             /\ BlockOf(s) \notin present
  <2>1. BlockOf(s) = s - ISN + 1 /\ s >= next_to_read /\ s <= curr_rcv_seq_number
    BY <1>2, <1>4
  <2>2. ASSUME NEW t \in DOMAIN packets PROVE BlockOf(t) # BlockOf(s)
    <3>1. t \in Nat /\ t # s /\ BlockOf(t) = t - ISN + 1
      BY <1>1, <1>2
    <3> QED BY <2>1, <3>1
  <2> QED BY <1>1, <1>3, <2>1, <2>2
<1>6. ASSUME NEW n \in (Len(delivered) + 1) .. BlockOf(curr_rcv_seq_number), n \notin present
      PROVE  n \in missing
  <2> DEFINE s == n + ISN - 1
  <2>1. s \in next_to_read .. curr_rcv_seq_number /\ n = s - ISN + 1
    BY <1>1, <1>3
  <2>2. BlockOf(s) = n
    BY <1>2, <2>1
  <2> HIDE DEF s
  <2>3. s \in rcv_loss_list
    BY <1>1, <1>6, <2>1, <2>2
  <2> QED BY <2>2, <2>3
<1> HIDE DEF present
<1>7. missing = ((Len(delivered) + 1) .. BlockOf(curr_rcv_seq_number)) \ present
  BY <1>5, <1>6
<1> QED BY <1>7 DEF RcvLossExact, present

(* What the sender has released (process_ctrl).                            *)
LEMMA ReleasedFromInv ==
  ASSUME NoWrap, IInv
  PROVE  /\ Released = last_data_ack_processed - ISN
         /\ ReleasedIsReceived
<1> /\ ISN \in Nat /\ last_data_ack_processed \in Nat /\ next_to_ack \in Nat
    /\ next_to_read \in Nat /\ curr_rcv_seq_number \in Nat /\ last_sent_ack \in Nat
  BY AllNat
<1>1. written \in Nat /\ Len(snd_buffer) \in Nat
  BY TransferAssumption DEF IInv, TypeOK, SndTypeOK
<1>2. Len(snd_buffer) = written - (last_data_ack_processed - ISN)
  BY DEF IInv, SndInv
<1>3. Released = last_data_ack_processed - ISN
  BY <1>1, <1>2 DEF Released
<1>4. ASSUME NEW n \in 1 .. Released, n \notin 1 .. Len(delivered)
      PROVE  n \in {BlockOf(s) : s \in DOMAIN packets}
  <2> DEFINE s == n + ISN - 1
  <2>1. s \in Nat /\ s >= next_to_read /\ s < last_data_ack_processed
    BY <1>3, <1>4 DEF IInv, RcvInv
  <2>2. s < next_to_ack /\ s <= curr_rcv_seq_number
    <3>1. last_data_ack_processed <= next_to_ack
      BY DEF IInv, AckInv
    <3>2. next_to_ack <= curr_rcv_seq_number + 1
      BY DEF IInv, RcvInv
    <3> HIDE DEF s
    <3> QED BY <2>1, <3>1, <3>2
  <2>3. s \in DOMAIN packets
    <3> HIDE DEF s
    <3>1. s \notin rcv_loss_list
      BY <2>1, <2>2 DEF IInv, RcvInv
    <3> QED BY <2>1, <2>2, <3>1 DEF IInv, RcvInv
  <2>4. BlockOf(s) = n
    <3>1. s \in Used
      BY <2>1, <2>2, AllUsed, TransferAssumption DEF Used
    <3>2. BlockOf(s) = s - ISN + 1
      BY <3>1, BlockOfExact
    <3> QED BY <1>3, <3>2
  <2> QED BY <2>3, <2>4
<1> QED BY <1>3, <1>4 DEF ReleasedIsReceived

(* The sender's loss list stays within the send buffer (process_ctrl).     *)
LEMMA SndLossFromInv ==
  ASSUME NoWrap, IInv
  PROVE  SndLossReadable
<1> /\ ISN \in Nat /\ last_data_ack_processed \in Nat /\ curr_snd_seq_number \in Nat
    /\ snd_loss_list \subseteq Nat
  BY AllNat
<1>1. Released = last_data_ack_processed - ISN
  BY ReleasedFromInv
<1>2. /\ current_position \in Nat
      /\ curr_snd_seq_number = last_data_ack_processed - 1 + current_position
      /\ last_data_ack_processed >= ISN
  BY DEF IInv, SndInv, TypeOK, SndTypeOK
<1> SUFFICES ASSUME NEW s \in snd_loss_list
             PROVE  BlockOf(s) \in (Released + 1) .. (Released + current_position)
  BY DEF SndLossReadable
<1>3. BlockOf(s) = s - ISN + 1
  BY AllUsed, BlockOfExact
<1>4. s \in Nat /\ s >= last_data_ack_processed /\ s <= curr_snd_seq_number
  BY DEF IInv, SndInv
<1> QED BY <1>1, <1>2, <1>3, <1>4

(* The marks as plain numbers: what a step may do to them.                 *)
LEMMA MarksForward ==
  ASSUME NoWrap, IInv, [Next]_vars
  PROVE  /\ last_ack_received' \in Used /\ last_ack_received' >= last_ack_received
         /\ last_data_ack_processed' \in Used
         /\ last_data_ack_processed' >= last_data_ack_processed
         /\ last_ack2_received' \in Used /\ last_ack2_received' >= last_ack2_received
         /\ next_to_ack' \in Used /\ next_to_ack' >= next_to_ack
<1> DEFINE Forward ==
      /\ last_ack_received' \in Used /\ last_ack_received' >= last_ack_received
      /\ last_data_ack_processed' \in Used
      /\ last_data_ack_processed' >= last_data_ack_processed
      /\ last_ack2_received' \in Used /\ last_ack2_received' >= last_ack2_received
      /\ next_to_ack' \in Used /\ next_to_ack' >= next_to_ack
<1>1. /\ last_ack_received \in Used /\ last_data_ack_processed \in Used
      /\ last_ack2_received \in Used /\ next_to_ack \in Used
      /\ last_ack_received \in Nat /\ last_data_ack_processed \in Nat
      /\ last_ack2_received \in Nat /\ next_to_ack \in Nat /\ ISN \in Nat
  BY AllUsed, AllNat
<1>2. ASSUME UNCHANGED <<last_ack_received, last_data_ack_processed,
                         last_ack2_received, next_to_ack>>
      PROVE  Forward
  BY <1>1, <1>2
<1>3. \A s \in ISN .. next_to_ack : s \in Used
  BY <1>1, TransferAssumption DEF Used
<1>4. ASSUME NEW m \in network, ProcessLightAck(m) PROVE Forward
  <2>1. m.seq \in ISN .. (curr_rcv_seq_number + 1)
    BY <1>4 DEF ProcessLightAck, IInv, NetInv
  <2>2. m.seq \in Used /\ m.seq \in Nat
    <3>1. curr_rcv_seq_number + 1 \in Used
      BY AllUsed
    <3>2. m.seq \in Used
      BY <1>1, <2>1, <3>1, TransferAssumption DEF Used
    <3> QED BY <3>2, UsedExact
  <2>3. SeqSub(m.seq, last_ack_received) = m.seq - last_ack_received
    BY <1>1, <2>2, UsedExact
  <2>4. UNCHANGED <<last_data_ack_processed, last_ack2_received, next_to_ack>>
    BY <1>4 DEF ProcessLightAck, rcvVars, rbufVars, ackVars
  <2>5. last_ack_received' \in Used /\ last_ack_received' >= last_ack_received
    BY <1>1, <1>4, <2>2, <2>3 DEF ProcessLightAck
  <2> QED BY <1>1, <2>4, <2>5
<1>5. ASSUME NEW m \in network, ProcessAck(m) PROVE Forward
  <2>1. m.seq \in ISN .. next_to_ack
    BY <1>5 DEF ProcessAck, IInv, NetInv
  <2>2. m.seq \in Used /\ m.seq \in Nat
    BY <1>1, <1>3, <2>1
  <2>3. /\ SeqSub(m.seq, last_ack_received) = m.seq - last_ack_received
        /\ SeqSub(m.seq, last_data_ack_processed) = m.seq - last_data_ack_processed
    BY <1>1, <2>2, UsedExact
  <2>4. UNCHANGED <<last_ack2_received, next_to_ack>>
    BY <1>5 DEF ProcessAck, rcvVars, rbufVars, ackVars
  <2>5. last_ack_received' \in Used /\ last_ack_received' >= last_ack_received
    BY <1>1, <1>5, <2>2, <2>3 DEF ProcessAck
  <2>6. /\ last_data_ack_processed' \in Used
        /\ last_data_ack_processed' >= last_data_ack_processed
    BY <1>1, <1>5, <2>2, <2>3 DEF ProcessAck
  <2> QED BY <1>1, <2>4, <2>5, <2>6
<1>6. ASSUME NEW m \in network, ProcessAck2(m) PROVE Forward
  <2>1. UNCHANGED <<last_ack_received, last_data_ack_processed, next_to_ack>>
    BY <1>6 DEF ProcessAck2, rbufVars, sndVars, seqVars
  <2>2. \/ last_ack2_received' = last_ack2_received
        \/ /\ SeqSub(last_ack2_received', last_ack2_received) > 0
           /\ \E i \in DOMAIN ack_window : last_ack2_received' = ack_window[i].seq
    BY <1>6 DEF ProcessAck2, NewlyConfirmed, Range
  <2>3. CASE /\ SeqSub(last_ack2_received', last_ack2_received) > 0
             /\ \E i \in DOMAIN ack_window : last_ack2_received' = ack_window[i].seq
    <3>1. PICK s \in ISN .. next_to_ack : last_ack2_received' = s
      BY <2>3 DEF IInv, AckInv
    <3>2. SeqSub(s, last_ack2_received) = s - last_ack2_received
      BY <1>1, <1>3, UsedExact
    <3>3. s \in Nat /\ s > last_ack2_received
      BY <1>1, <2>3, <3>1, <3>2
    <3> QED BY <1>1, <1>3, <2>1, <3>1, <3>3
  <2> QED BY <1>1, <2>1, <2>2, <2>3
<1>7. ASSUME AckTimer PROVE Forward
  <2>1. UNCHANGED <<last_ack_received, last_data_ack_processed, last_ack2_received>>
    BY <1>7 DEF AckTimer, sndVars, seqVars
  <2>2. next_to_ack' = next_to_ack \/ next_to_ack' = AckPoint
    BY <1>7 DEF AckTimer, RcvAckData
  <2>3. AckPoint \in Nat /\ AckPoint >= next_to_ack /\ AckPoint \in Used
    BY AckPointExact, UsedExact
  <2> QED BY <1>1, <2>1, <2>2, <2>3
<1>8. ASSUME \/ \E chunks \in 1 .. MaxChunks : SendMessage(chunks)
             \/ SndWorker \/ ProcessKeepAlive \/ ExpTimer \/ ExpBreak
      PROVE  Forward
  <2>1. UNCHANGED <<last_ack_received, last_data_ack_processed, rcvVars>>
    BY <1>8 DEF SendMessage, SndWorker, SkipBroken, PopLoss, Resend, ReadWindow,
                FetchBatch, ProcessKeepAlive, ExpTimer, ExpBreak, seqVars
  <2> QED BY <1>2, <2>1 DEF rcvVars, rbufVars, ackVars
<1>9. ASSUME SendLightAck \/ Recv PROVE Forward
  BY <1>2, <1>9 DEF SendLightAck, Recv, rbufVars, ackVars, sndVars, seqVars
<1>10. ASSUME NEW m \in network, ProcessNak(m) PROVE Forward
  BY <1>2, <1>10 DEF ProcessNak, rcvVars, rbufVars, ackVars
<1>11. ASSUME NEW m \in network, ProcessData(m) PROVE Forward
  <2>1. UNCHANGED <<next_to_ack, ackVars, sndVars>>
    BY <1>11 DEF ProcessData
  <2> QED BY <1>2, <2>1 DEF ackVars, sndVars, seqVars
<1>12. ASSUME (\E m \in network : Lose(m)) \/ UNCHANGED vars PROVE Forward
  <2>1. UNCHANGED <<sndVars, rcvVars>>
    BY <1>12 DEF Lose, vars
  <2> QED BY <1>2, <2>1 DEF sndVars, seqVars, rcvVars, rbufVars, ackVars
<1> QED BY <1>4, <1>5, <1>6, <1>7, <1>8, <1>9, <1>10, <1>11, <1>12 DEF Next, Arrive

(* recv() has something to read only if it was written (read_buffer).      *)
LEMMA ReadIsWritten ==
  ASSUME NoWrap, IInv, Recv
  PROVE  Len(delivered) < written
<1> /\ ISN \in Nat /\ next_to_read \in Nat /\ next_to_ack \in Nat
    /\ curr_rcv_seq_number \in Nat /\ curr_snd_seq_number \in Nat
    /\ last_data_ack_processed \in Nat /\ last_sent_ack \in Nat
  BY AllNat
<1>1. PICK s \in Readable(packets, next_to_read, next_to_ack) : TRUE
  BY DEF Recv
<1>2. next_to_read <= next_to_ack /\ DOMAIN packets \subseteq Nat
  BY DEF IInv, RcvInv
<1>3. next_to_read < next_to_ack
  BY <1>1, <1>2 DEF Readable
<1>4. next_to_ack <= curr_rcv_seq_number + 1 /\ curr_rcv_seq_number <= curr_snd_seq_number
  BY DEF IInv, RcvInv
<1>5. /\ written \in Nat /\ Len(snd_buffer) \in Nat /\ current_position \in Nat
      /\ current_position <= Len(snd_buffer)
      /\ Len(snd_buffer) = written - (last_data_ack_processed - ISN)
      /\ curr_snd_seq_number = last_data_ack_processed - 1 + current_position
  BY TransferAssumption DEF IInv, TypeOK, SndTypeOK, SndInv
<1>6. Len(delivered) = next_to_read - ISN
  BY DEF IInv, RcvInv
<1> QED BY <1>3, <1>4, <1>5, <1>6

(***************************************************************************)
(* The send queue is told                                                  *)
(***************************************************************************)

(* What NoLostWakeup needs to be inductive: while the socket is out of the *)
(* send queue, what the worker has in hand will put it back.  A packet to  *)
(* send again is still in the send buffer, because the ACK that releases   *)
(* it puts the socket back; and only that packet hides a loss.             *)
WakeInv ==
  status = "Connected" /\ ~queued =>
    /\ snd_worker.pc = "resend" => HasBlock(snd_buffer, snd_worker.offset)
    /\ snd_worker.pc # "resend" => snd_loss_list = {}
    /\ snd_worker = Idle /\ current_position < Len(snd_buffer) => current_position > 0

(* The state that WakeInv reads.                                           *)
wakeVars == <<status, queued, snd_worker, snd_buffer, snd_loss_list, current_position>>

(* A step that leaves that state alone keeps WakeInv.                      *)
LEMMA WakeFrame ==
  ASSUME WakeInv, UNCHANGED wakeVars
  PROVE  WakeInv'
BY DEF WakeInv, wakeVars, HasBlock

(* A number on the loss list is that of a block in the send buffer.        *)
LEMMA PopLossWake ==
  ASSUME NoWrap, IInv, PopLoss
  PROVE  WakeInv'
<1> DEFINE seq    == FirstAfter(snd_loss_list, last_data_ack_processed)
           offset == SeqSub(seq, last_data_ack_processed)
<1>1. /\ last_data_ack_processed \in Nat /\ curr_snd_seq_number \in Nat
      /\ snd_loss_list \subseteq Nat /\ snd_loss_list # {}
      /\ Len(snd_buffer) \in Nat /\ current_position \in 0 .. Len(snd_buffer)
  BY AllNat DEF PopLoss, IInv, TypeOK, SndTypeOK
<1>2. /\ snd_loss_list \subseteq last_data_ack_processed .. curr_snd_seq_number
      /\ curr_snd_seq_number = last_data_ack_processed - 1 + current_position
  BY DEF IInv, SndInv
<1>3. seq \in snd_loss_list
  <2>1. \A s \in snd_loss_list : s >= last_data_ack_processed
    BY <1>1, <1>2
  <2>2. last_data_ack_processed \in Int /\ snd_loss_list \subseteq Nat /\ snd_loss_list # {}
    BY <1>1
  <2> QED BY <2>1, <2>2, FirstAfterExact
<1>4. offset = seq - last_data_ack_processed
  BY <1>3, AllUsed, UsedExact
<1> HIDE DEF seq
<1>5. offset >= 0 /\ offset < Len(snd_buffer)
  BY <1>1, <1>2, <1>3, <1>4
<1>6. snd_worker' = IF offset < 0 THEN Idle
                    ELSE [pc |-> "resend", seq |-> seq, offset |-> offset]
  BY DEF PopLoss, seq
<1> HIDE DEF offset
<1>7. offset \in Int
  BY <1>1, <1>3, <1>4
<1>8. snd_worker'.pc = "resend" /\ snd_worker'.offset = offset /\ snd_worker' # Idle
  BY <1>5, <1>6, <1>7 DEF Idle
<1>9. snd_buffer' = snd_buffer
  BY DEF PopLoss, bufVars
<1> QED BY <1>5, <1>8, <1>9 DEF WakeInv, HasBlock

(* A batch is held back only by packets that are under way.                *)
LEMMA FetchBatchWake ==
  ASSUME NoWrap, IInv, WakeInv, FetchBatch
  PROVE  WakeInv'
<1> DEFINE n == BatchLen(snd_buffer, current_position)
           blocked == SeqSub(curr_snd_seq_number, last_ack_received) > snd_worker.window
<1>1. /\ last_data_ack_processed \in Nat /\ curr_snd_seq_number \in Nat /\ last_ack_received \in Nat
      /\ Len(snd_buffer) \in Nat /\ current_position \in 0 .. Len(snd_buffer)
      /\ FETCH_BATCH_SIZE \in Nat \ {0}
  BY AllNat, SndBufferAssumption DEF IInv, TypeOK, SndTypeOK
<1>2. /\ curr_snd_seq_number = last_data_ack_processed - 1 + current_position
      /\ last_ack_received >= last_data_ack_processed
  BY DEF IInv, SndInv
<1>3. snd_worker.pc = "fetch" /\ snd_worker.window \in Nat
  <2>1. snd_worker.pc = "fetch"
    BY DEF FetchBatch
  <2>2. snd_worker \in {Idle} \cup [pc : {"resend"}, seq : SeqNumbers, offset : Nat]
                              \cup [pc : {"fetch"}, window : Nat]
    BY DEF IInv, TypeOK, SndTypeOK
  <2> QED BY <2>1, <2>2 DEF Idle
<1>4. SeqSub(curr_snd_seq_number, last_ack_received) = curr_snd_seq_number - last_ack_received
  BY AllUsed, UsedExact
<1>5. blocked => current_position > 0
  BY <1>1, <1>2, <1>3, <1>4
<1>6. n = 0 => ~(current_position < Len(snd_buffer))
  BY <1>1 DEF BatchLen
<1>7. /\ snd_worker' = Idle
      /\ UNCHANGED <<snd_buffer, snd_loss_list, status>>
      /\ IF blocked \/ n = 0 THEN UNCHANGED <<current_position, queued>> ELSE queued' = TRUE
  BY DEF FetchBatch
<1> HIDE DEF blocked, n
<1>8. CASE blocked \/ n = 0
  BY <1>3, <1>5, <1>6, <1>7, <1>8 DEF WakeInv, Idle
<1>9. CASE ~(blocked \/ n = 0)
  BY <1>7, <1>9 DEF WakeInv
<1> QED BY <1>8, <1>9

(* Every step keeps WakeInv.                                               *)
LEMMA NextWake ==
  ASSUME NoWrap, IInv, WakeInv, [Next]_vars
  PROVE  WakeInv'
<1>1. ASSUME NEW chunks \in 1 .. MaxChunks, SendMessage(chunks) PROVE WakeInv'
  BY <1>1 DEF SendMessage, UpdateSndQueue, WakeInv
<1>2. ASSUME SkipBroken PROVE WakeInv'
  BY <1>2 DEF SkipBroken, WakeInv
<1>3. ASSUME PopLoss PROVE WakeInv'
  BY <1>3, PopLossWake
<1>4. ASSUME Resend PROVE WakeInv'
  <2>1. CASE HasBlock(snd_buffer, snd_worker.offset)
    BY <1>4, <2>1 DEF Resend, WakeInv
  <2>2. CASE ~HasBlock(snd_buffer, snd_worker.offset)
    BY <1>4, <2>2 DEF Resend, WakeInv
  <2> QED BY <2>1, <2>2
<1>5. ASSUME ReadWindow PROVE WakeInv'
  BY <1>5 DEF ReadWindow, WakeInv, Idle, seqVars
<1>6. ASSUME FetchBatch PROVE WakeInv'
  BY <1>6, FetchBatchWake
<1>7. ASSUME ProcessKeepAlive PROVE WakeInv'
  BY <1>7, WakeFrame DEF ProcessKeepAlive, wakeVars, bufVars, seqVars, workVars
<1>8. ASSUME ExpTimer PROVE WakeInv'
  <2>1. CASE snd_buffer # <<>>
    BY <1>8, <2>1 DEF ExpTimer, UpdateSndQueue, WakeInv
  <2>2. CASE snd_buffer = <<>>
    <3>1. UNCHANGED wakeVars
      BY <1>8, <2>2 DEF ExpTimer, wakeVars, bufVars
    <3> QED BY <3>1, WakeFrame
  <2> QED BY <2>1, <2>2
<1>9. ASSUME ExpBreak PROVE WakeInv'
  BY <1>9 DEF ExpBreak, WakeInv
<1>10. ASSUME UNCHANGED sndVars PROVE WakeInv'
  BY <1>10, WakeFrame DEF sndVars, wakeVars, bufVars, seqVars, workVars
<1>11. ASSUME AckTimer \/ SendLightAck \/ Recv PROVE UNCHANGED sndVars
  BY <1>11 DEF AckTimer, SendLightAck, Recv
<1>12. ASSUME NEW m \in network, ProcessData(m) \/ ProcessAck2(m) \/ Lose(m)
       PROVE  UNCHANGED sndVars
  BY <1>12 DEF ProcessData, ProcessAck2, Lose
<1>13. ASSUME NEW m \in network, ProcessLightAck(m) PROVE WakeInv'
  BY <1>13, WakeFrame DEF ProcessLightAck, wakeVars, bufVars, workVars
<1>14. ASSUME NEW m \in network, ProcessAck(m) PROVE WakeInv'
  <2>1. CASE queued' = TRUE
    BY <2>1 DEF WakeInv
  <2>2. CASE queued' # TRUE
    <3>1. UNCHANGED <<snd_buffer, current_position, snd_loss_list, queued, snd_worker>>
      BY <1>14, <2>2 DEF ProcessAck, UpdateSndQueue
    <3>2. status = "Connected"
      BY <1>14 DEF ProcessAck, CtrlArrives
    <3> QED BY <3>1, <3>2 DEF WakeInv, HasBlock
  <2> QED BY <2>1, <2>2
<1>15. ASSUME NEW m \in network, ProcessNak(m) PROVE WakeInv'
  BY <1>15 DEF ProcessNak, UpdateSndQueue, WakeInv
<1>16. CASE UNCHANGED vars
  <2>1. UNCHANGED sndVars
    BY <1>16 DEF vars
  <2> QED BY <1>10, <2>1
<1> QED BY <1>1, <1>2, <1>3, <1>4, <1>5, <1>6, <1>7, <1>8, <1>9, <1>10, <1>11, <1>12,
           <1>13, <1>14, <1>15, <1>16 DEF Next, SndWorker, Arrive

(***************************************************************************)
(* The link is kept                                                        *)
(***************************************************************************)

(* What an ACK2 confirms, the sender has processed: the entry of the ACK   *)
(* window that an ACK2 names is the ACK it answers.                        *)
Ack2Inv ==
  /\ last_ack2_received <= last_data_ack_processed
  /\ \A i \in DOMAIN ack_window : ack_window[i].ack <= last_ack_seq_number
  /\ \A m \in network : m.type = "ack" =>
       /\ m.ack <= last_ack_seq_number
       /\ \A i \in DOMAIN ack_window :
            ack_window[i].ack = m.ack => ack_window[i].seq = m.seq
  /\ \A m \in network : m.type = "ack2" =>
       /\ m.ack <= last_ack_seq_number
       /\ \A i \in DOMAIN ack_window :
            ack_window[i].ack = m.ack => ack_window[i].seq <= last_data_ack_processed

(* Before its first ACK, which it counts from the number before ISN, the   *)
(* receiver keeps room for the packet ISN (process_data).                  *)
RoomInv ==
  last_sent_ack < ISN /\ ISN \notin DOMAIN packets =>
    Cardinality(DOMAIN packets) < RCV_BUF_SIZE

(* The first packet that the receiver misses is about to be sent again, or *)
(* is under way.                                                           *)
ResendUnderWay ==
  \/ AckPoint \in snd_loss_list
  \/ snd_worker.pc = "resend" /\ snd_worker.seq = AckPoint
  \/ \E m \in network : m.type = "data" /\ m.seq = AckPoint

(* Every expiration but the first is paid for by a lost datagram.          *)
ExpInv ==
  /\ status = "Connected" =>
       /\ exp_count > 1 => \A m \in network : m.type # "ack2"
       /\ exp_count <= losses + 2
       /\ exp_count = losses + 2 => AckDue \/ ResendUnderWay
  /\ status = "Broken" => losses >= EXP_LIMIT

(* The number of an entry of the ACK window stays that of its ACK.         *)
LEMMA EmitAckConfirms ==
  ASSUME NoWrap, IInv, Ack2Inv, NEW acked \in SeqNumbers, EmitAck(acked),
         UNCHANGED <<last_ack2_received, last_data_ack_processed>>
  PROVE  Ack2Inv'
<1> DEFINE Entries == [ack : 1 .. MaxAcks, seq : SeqNumbers]
           ack    == last_ack_seq_number + 1
           avail  == AvailableBufSize(packets)
           size   == IF avail > 2 THEN avail ELSE 2
           entry  == [ack |-> ack, seq |-> acked]
           window == IF Len(ack_window) >= ACK_WINDOW_SIZE
                     THEN Tail(ack_window) ELSE ack_window
<1>1. /\ last_ack_seq_number \in Nat
      /\ ack_window \in Seq(Entries)
      /\ \A i \in DOMAIN ack_window : ack_window[i].ack \in Nat
      /\ \A m \in network : m.type \in {"ack", "ack2"} => m.ack \in Nat
  <2>1. last_ack_seq_number \in Nat /\ ack_window \in Seq(Entries)
    BY TransferAssumption DEF IInv, TypeOK, RcvTypeOK
  <2>2. \A i \in DOMAIN ack_window : ack_window[i].ack \in Nat
    <3> TAKE i \in DOMAIN ack_window
    <3>1. i \in 1 .. Len(ack_window)
      BY <2>1
    <3>2. ack_window[i] \in Entries
      BY <2>1, <3>1, ElementOfSeq
    <3> QED BY <3>2
  <2>3. \A m \in network : m.type \in {"ack", "ack2"} => m.ack \in Nat
    <3> TAKE m \in network
    <3>1. m \in Messages
      BY DEF IInv, TypeOK
    <3> QED BY <3>1 DEF Messages
  <2> QED BY <2>1, <2>2, <2>3
<1>2. CASE UNCHANGED <<last_ack_seq_number, ack_window, netVars>>
  BY <1>2 DEF netVars, Ack2Inv
<1>3. CASE /\ last_ack_seq_number' = ack
           /\ ack_window' = Append(window, entry)
           /\ Send({Ack(ack, acked, size)})
  <2>1. /\ window \in Seq(Entries)
        /\ \A i \in 1 .. Len(window) : \E j \in DOMAIN ack_window : window[i] = ack_window[j]
    <3>1. CASE Len(ack_window) >= ACK_WINDOW_SIZE
      <4>1. ack_window # <<>>
        BY <1>1, <3>1, TransferAssumption
      <4>2. /\ Tail(ack_window) \in Seq(Entries)
            /\ Len(Tail(ack_window)) = Len(ack_window) - 1
            /\ \A i \in 1 .. Len(Tail(ack_window)) : Tail(ack_window)[i] = ack_window[i + 1]
        BY <1>1, <4>1, HeadTailProperties
      <4>3. \A i \in 1 .. Len(Tail(ack_window)) : i + 1 \in DOMAIN ack_window
        BY <1>1, <4>2
      <4> QED BY <3>1, <4>2, <4>3
    <3>2. CASE ~(Len(ack_window) >= ACK_WINDOW_SIZE)
      BY <1>1, <3>2
    <3> QED BY <3>1, <3>2
  <2> HIDE DEF Entries, window
  <2>2. /\ Len(ack_window') = Len(window) + 1
        /\ DOMAIN ack_window' = 1 .. (Len(window) + 1)
        /\ \A i \in 1 .. Len(window) : ack_window'[i] = window[i]
        /\ ack_window'[Len(window) + 1] = entry
    BY <1>3, <2>1
  <2>3. \A i \in DOMAIN ack_window' :
          \/ ack_window'[i] = entry
          \/ \E j \in DOMAIN ack_window : ack_window'[i] = ack_window[j]
    <3> TAKE i \in DOMAIN ack_window'
    <3>1. CASE i = Len(window) + 1
      BY <2>2, <3>1
    <3>2. CASE i \in 1 .. Len(window)
      BY <2>1, <2>2, <3>2
    <3>3. Len(window) \in Nat
      BY <2>1
    <3> QED BY <2>2, <3>1, <3>2, <3>3
  <2>4. entry.ack = last_ack_seq_number + 1 /\ entry.seq = acked
    OBVIOUS
  <2> HIDE DEF entry, size
  <2>5. \A m \in network' : m \in network \/ m = Ack(ack, acked, size)
    BY <1>3 DEF Send
  <2>6. /\ Ack(ack, acked, size).type = "ack" /\ Ack(ack, acked, size).ack = ack
        /\ Ack(ack, acked, size).seq = acked
    BY DEF Ack
  <2>7. \A i \in DOMAIN ack_window' : ack_window'[i].ack <= last_ack_seq_number'
    BY <1>1, <1>3, <2>3, <2>4 DEF Ack2Inv
  <2>8. ASSUME NEW m \in network', m.type = "ack"
        PROVE  /\ m.ack <= last_ack_seq_number'
               /\ \A i \in DOMAIN ack_window' :
                    ack_window'[i].ack = m.ack => ack_window'[i].seq = m.seq
    <3>1. CASE m \in network
      <4>1. /\ m.ack \in Nat /\ m.ack <= last_ack_seq_number
            /\ \A j \in DOMAIN ack_window :
                 ack_window[j].ack = m.ack => ack_window[j].seq = m.seq
        BY <1>1, <2>8, <3>1 DEF Ack2Inv
      <4>2. m.ack <= last_ack_seq_number' /\ entry.ack # m.ack
        BY <1>1, <1>3, <2>4, <4>1
      <4> QED BY <2>3, <4>1, <4>2
    <3>2. CASE m = Ack(ack, acked, size)
      <4>1. m.ack = last_ack_seq_number + 1 /\ m.seq = acked
        BY <2>6, <3>2
      <4>2. m.ack <= last_ack_seq_number'
        BY <1>1, <1>3, <4>1
      <4>3. \A j \in DOMAIN ack_window : ack_window[j].ack # m.ack
        BY <1>1, <4>1 DEF Ack2Inv
      <4> QED BY <2>3, <2>4, <4>1, <4>2, <4>3
    <3> QED BY <2>5, <3>1, <3>2
  <2>9. ASSUME NEW m \in network', m.type = "ack2"
        PROVE  /\ m.ack <= last_ack_seq_number'
               /\ \A i \in DOMAIN ack_window' :
                    ack_window'[i].ack = m.ack => ack_window'[i].seq <= last_data_ack_processed'
    <3>1. m \in network
      BY <2>5, <2>6, <2>9
    <3> QED BY <1>1, <1>3, <2>3, <2>4, <2>9, <3>1 DEF Ack2Inv
  <2>10. last_ack2_received' <= last_data_ack_processed'
    BY DEF Ack2Inv
  <2> QED BY <2>7, <2>8, <2>9, <2>10 DEF Ack2Inv
<1> QED BY <1>2, <1>3 DEF EmitAck

(* A step that sends neither an ACK nor an ACK2, and releases nothing of   *)
(* what is confirmed.                                                      *)
LEMMA Ack2Frame ==
  ASSUME NoWrap, IInv, Ack2Inv,
         UNCHANGED <<last_ack2_received, last_ack_seq_number, ack_window>>,
         last_data_ack_processed' \in Nat,
         last_data_ack_processed' >= last_data_ack_processed,
         \A m \in network' : m.type \in {"ack", "ack2"} => m \in network
  PROVE  Ack2Inv'
<1>1. /\ last_ack2_received \in Nat /\ last_data_ack_processed \in Nat
      /\ \A i \in DOMAIN ack_window : ack_window[i].seq \in Nat
  <2>1. \A i \in DOMAIN ack_window : ack_window[i].seq \in ISN .. next_to_ack
    BY DEF IInv, AckInv
  <2> QED BY <2>1, AllNat
<1> QED BY <1>1 DEF Ack2Inv

(* The ACK that is processed is the one that its ACK2 will confirm.        *)
LEMMA ProcessAckConfirms ==
  ASSUME NoWrap, IInv, Ack2Inv, NEW m \in network, ProcessAck(m)
  PROVE  Ack2Inv'
<1>1. /\ last_ack2_received \in Nat /\ last_data_ack_processed \in Nat
      /\ \A i \in DOMAIN ack_window : ack_window[i].seq \in Nat
      /\ m.seq \in Nat /\ m.seq \in Used
  <2>1. /\ \A i \in DOMAIN ack_window : ack_window[i].seq \in ISN .. next_to_ack
        /\ m.seq \in ISN .. next_to_ack
    BY DEF IInv, AckInv, NetInv, ProcessAck
  <2>2. ISN .. next_to_ack \subseteq Used
    BY AllUsed, AllNat, TransferAssumption DEF Used
  <2> QED BY <2>1, <2>2, AllNat
<1>2. SeqSub(m.seq, last_data_ack_processed) = m.seq - last_data_ack_processed
  BY <1>1, AllUsed, UsedExact
<1>3. /\ last_data_ack_processed' \in Nat
      /\ last_data_ack_processed' >= last_data_ack_processed
      /\ last_data_ack_processed' >= m.seq
  BY <1>1, <1>2 DEF ProcessAck
<1>4. UNCHANGED <<last_ack2_received, last_ack_seq_number, ack_window>>
  BY DEF ProcessAck, rcvVars, ackVars
<1>5. \A d \in network' : d \in network \/ d = Ack2(m.ack)
  BY DEF ProcessAck, Receive
<1>6. m.type = "ack"
  BY DEF ProcessAck
<1>7. Ack2(m.ack).type = "ack2" /\ Ack2(m.ack).ack = m.ack
  BY DEF Ack2
<1>8. ASSUME NEW d \in network', d.type = "ack2"
      PROVE  /\ d.ack <= last_ack_seq_number
             /\ \A i \in DOMAIN ack_window :
                  ack_window[i].ack = d.ack => ack_window[i].seq <= last_data_ack_processed'
  <2>1. CASE d \in network
    BY <1>1, <1>3, <1>8, <2>1 DEF Ack2Inv
  <2>2. CASE d = Ack2(m.ack)
    <3>1. d.ack = m.ack
      BY <1>7, <2>2
    <3> QED BY <1>1, <1>3, <1>6, <3>1 DEF Ack2Inv
  <2> QED BY <1>5, <2>1, <2>2
<1>9. \A d \in network' : d.type = "ack" => d \in network
  BY <1>5, <1>7
<1>10. last_ack2_received <= last_data_ack_processed'
  BY <1>1, <1>3 DEF Ack2Inv
<1> QED BY <1>4, <1>8, <1>9, <1>10 DEF Ack2Inv

(* The confirmed mark moves only to what the sender has processed.         *)
LEMMA ProcessAck2Confirms ==
  ASSUME NoWrap, IInv, Ack2Inv, NEW m \in network, ProcessAck2(m)
  PROVE  Ack2Inv'
<1>1. /\ UNCHANGED <<last_data_ack_processed, last_ack_seq_number, ack_window>>
      /\ network' \subseteq network
      /\ m.type = "ack2"
  BY DEF ProcessAck2, Receive, sndVars, seqVars
<1>2. \/ last_ack2_received' = last_ack2_received
      \/ \E i \in DOMAIN ack_window :
           ack_window[i].ack = m.ack /\ last_ack2_received' = ack_window[i].seq
  BY DEF ProcessAck2, NewlyConfirmed, Range
<1>3. last_ack2_received' <= last_data_ack_processed'
  BY <1>1, <1>2 DEF Ack2Inv
<1> QED BY <1>1, <1>3 DEF Ack2Inv

(* Every step keeps Ack2Inv.                                               *)
LEMMA NextConfirms ==
  ASSUME NoWrap, IInv, Ack2Inv, [Next]_vars
  PROVE  Ack2Inv'
<1>1. /\ last_data_ack_processed' \in Nat
      /\ last_data_ack_processed' >= last_data_ack_processed
  BY MarksForward, UsedExact
<1>2. CASE AckTimer
  <2>1. UNCHANGED <<last_ack2_received, last_data_ack_processed>>
    BY <1>2 DEF AckTimer, sndVars, seqVars
  <2>2. CASE UNCHANGED <<last_ack_seq_number, ack_window, netVars>>
    <3>1. network' = network
      BY <2>2 DEF netVars
    <3> QED BY <1>1, <2>1, <2>2, <3>1, Ack2Frame
  <2>3. CASE EmitAck(AckPoint)
    <3>1. AckPoint \in SeqNumbers
      BY AckPointExact, UsedExact
    <3> QED BY <2>1, <2>3, <3>1, EmitAckConfirms
  <2>4. CASE EmitAck(last_sent_ack)
    <3>1. last_sent_ack \in SeqNumbers
      BY AllUsed, UsedExact
    <3> QED BY <2>1, <2>4, <3>1, EmitAckConfirms
  <2> QED BY <1>2, <2>2, <2>3, <2>4 DEF AckTimer
<1>3. ASSUME NEW m \in network, ProcessAck(m) PROVE Ack2Inv'
  BY <1>3, ProcessAckConfirms
<1>4. ASSUME NEW m \in network, ProcessAck2(m) PROVE Ack2Inv'
  BY <1>4, ProcessAck2Confirms
<1>5. ASSUME UNCHANGED <<last_ack2_received, last_ack_seq_number, ack_window>>,
             \A m \in network' : m \in network \/ m.type \in {"data", "light", "nak"}
      PROVE  Ack2Inv'
  BY <1>1, <1>5, Ack2Frame
<1>6. ASSUME NEW chunks \in 1 .. MaxChunks, SendMessage(chunks) PROVE Ack2Inv'
  BY <1>5, <1>6 DEF SendMessage, rcvVars, ackVars, netVars
<1>7. CASE SndWorker
  <2>1. UNCHANGED rcvVars
    BY <1>7 DEF SndWorker, SkipBroken, PopLoss, Resend, ReadWindow, FetchBatch
  <2>2. CASE SkipBroken \/ PopLoss \/ ReadWindow
    BY <1>5, <2>1, <2>2 DEF SkipBroken, PopLoss, ReadWindow, rcvVars, ackVars, netVars
  <2>3. CASE Resend
    <3>1. \A m \in network' : m \in network \/ m.type = "data"
      BY <2>3 DEF Resend, Send, DataPacket, netVars
    <3> QED BY <1>5, <2>1, <3>1 DEF rcvVars, ackVars
  <2>4. CASE FetchBatch
    <3>1. \A m \in network' : m \in network \/ m.type = "data"
      BY <2>4 DEF FetchBatch, Send, DataPacket, netVars
    <3> QED BY <1>5, <2>1, <3>1 DEF rcvVars, ackVars
  <2> QED BY <1>7, <2>2, <2>3, <2>4 DEF SndWorker
<1>8. CASE ProcessKeepAlive \/ ExpTimer \/ ExpBreak
  BY <1>5, <1>8 DEF ProcessKeepAlive, ExpTimer, ExpBreak, rcvVars, ackVars, netVars
<1>9. CASE SendLightAck
  BY <1>5, <1>9 DEF SendLightAck, Send, LightAck
<1>10. CASE Recv
  BY <1>5, <1>10 DEF Recv, ackVars, netVars
<1>11. ASSUME NEW m \in network, ProcessLightAck(m) \/ ProcessNak(m) PROVE Ack2Inv'
  BY <1>5, <1>11 DEF ProcessLightAck, ProcessNak, Receive, rcvVars, ackVars
<1>12. ASSUME NEW m \in network, ProcessData(m) PROVE Ack2Inv'
  <2>1. \A d \in network' : d \in network \/ d.type = "nak"
    BY <1>12 DEF ProcessData, Receive, Nak
  <2>2. UNCHANGED ackVars
    BY <1>12 DEF ProcessData
  <2> QED BY <1>5, <2>1, <2>2 DEF ackVars
<1>13. ASSUME NEW m \in network, Lose(m) PROVE Ack2Inv'
  BY <1>5, <1>13 DEF Lose, rcvVars, ackVars
<1>14. CASE UNCHANGED vars
  BY <1>5, <1>14 DEF vars, rcvVars, ackVars, netVars
<1> QED BY <1>2, <1>3, <1>4, <1>6, <1>7, <1>8, <1>9, <1>10, <1>11, <1>12, <1>13, <1>14
        DEF Next, Arrive

(* How much room there is, while there is some (get_available_buf_size).   *)
LEMMA AvailableExact ==
  ASSUME NEW n \in Nat, n < RCV_BUF_SIZE
  PROVE  (RCV_BUF_SIZE - n) % U32_MODULUS = RCV_BUF_SIZE - n
<1>1. RCV_BUF_SIZE - n \in Nat /\ RCV_BUF_SIZE - n < U32_MODULUS /\ U32_MODULUS \in Nat
  BY RcvBufferAssumption
<1> QED BY <1>1, ModSmall

(* The packets in the receive buffer can be counted.                       *)
LEMMA PacketsFinite ==
  ASSUME NoWrap, IInv
  PROVE  IsFiniteSet(DOMAIN packets) /\ Cardinality(DOMAIN packets) \in Nat
<1> DEFINE full == next_to_read .. curr_rcv_seq_number
<1>1. next_to_read \in Int /\ curr_rcv_seq_number \in Int
  BY AllNat
<1>2. IsFiniteSet(full)
  BY <1>1, FS_Interval
<1>3. DOMAIN packets \in SUBSET full
  BY DEF IInv, RcvInv
<1> QED BY <1>2, <1>3, FS_Subset, FS_CardinalityType

(* A packet after ISN is taken in only if there is room for one more.      *)
LEMMA ProcessDataRoom ==
  ASSUME NoWrap, IInv, RoomInv, NEW m \in network, ProcessData(m)
  PROVE  RoomInv'
<1> DEFINE offset == SeqSub(m.seq, last_sent_ack)
<1> SUFFICES ASSUME last_sent_ack' < ISN, ISN \notin DOMAIN packets'
             PROVE  Cardinality(DOMAIN packets') < RCV_BUF_SIZE
  BY DEF RoomInv
<1>1. last_sent_ack' = last_sent_ack
  BY DEF ProcessData, ackVars
<1>2. /\ m.seq \in ISN .. curr_snd_seq_number
      /\ last_sent_ack \in (ISN - 1) .. (curr_rcv_seq_number + 1)
  BY DEF ProcessData, IInv, NetInv, RcvInv
<1>3. /\ m.seq \in Nat /\ m.seq >= ISN /\ last_sent_ack \in Nat /\ ISN \in Nat
      /\ last_sent_ack = ISN - 1
  BY <1>1, <1>2, AllNat
<1>4. offset = m.seq - last_sent_ack
  <2>1. m.seq \in Used
    BY <1>2, AllNat, AllUsed, TransferAssumption DEF Used
  <2> QED BY <2>1, AllUsed, UsedExact
<1>5. CASE packets' = packets
  BY <1>1, <1>5 DEF RoomInv
<1>6. CASE /\ ~(AvailableBufSize(packets) < offset)
           /\ packets' = RcvInsert(packets, m.seq, m.data)
  <2>1. DOMAIN packets' = DOMAIN packets \cup {m.seq}
    BY <1>6 DEF RcvInsert
  <2>2. ISN \notin DOMAIN packets /\ m.seq # ISN
    BY <2>1
  <2>3. Cardinality(DOMAIN packets) \in Nat /\ Cardinality(DOMAIN packets) < RCV_BUF_SIZE
    BY <1>1, <2>2, PacketsFinite DEF RoomInv
  <2>4. AvailableBufSize(packets) = RCV_BUF_SIZE - Cardinality(DOMAIN packets)
    BY <2>3, AvailableExact DEF AvailableBufSize
  <2>5. offset >= 2
    BY <1>3, <1>4, <2>2
  <2> HIDE DEF offset
  <2>6. Cardinality(DOMAIN packets) + 1 < RCV_BUF_SIZE
    BY <1>3, <1>4, <1>6, <2>3, <2>4, <2>5, RcvBufferAssumption DEF offset
  <2>7. Cardinality(DOMAIN packets') <= Cardinality(DOMAIN packets) + 1
    <3>1. Cardinality(DOMAIN packets \cup {m.seq})
            = IF m.seq \in DOMAIN packets THEN Cardinality(DOMAIN packets)
              ELSE Cardinality(DOMAIN packets) + 1
      BY PacketsFinite, FS_AddElement
    <3> QED BY <2>1, <2>3, <3>1
  <2>8. Cardinality(DOMAIN packets') \in Nat
    BY <2>1, PacketsFinite, FS_AddElement, FS_CardinalityType
  <2> QED BY <2>3, <2>6, <2>7, <2>8, RcvBufferAssumption
<1> QED BY <1>5, <1>6 DEF ProcessData

(* Every step keeps RoomInv.                                               *)
LEMMA NextRoom ==
  ASSUME NoWrap, IInv, RoomInv, [Next]_vars
  PROVE  RoomInv'
<1>1. ASSUME UNCHANGED <<packets, last_sent_ack>> PROVE RoomInv'
  BY <1>1 DEF RoomInv
<1>2. CASE AckTimer
  <2>1. packets' = packets /\ (last_sent_ack' = last_sent_ack \/ last_sent_ack' = AckPoint)
    BY <1>2 DEF AckTimer
  <2>2. AckPoint \in Nat /\ AckPoint >= ISN
    <3>1. next_to_ack \in ISN .. next_to_ack
      BY AllNat DEF IInv, RcvInv
    <3> QED BY <3>1, AckPointExact, AllNat
  <2>3. CASE last_sent_ack' = AckPoint
    BY <2>2, <2>3, AllNat DEF RoomInv
  <2> QED BY <1>1, <2>1, <2>3
<1>3. CASE Recv
  <2>1. last_sent_ack' = last_sent_ack
    BY <1>3 DEF Recv, ackVars
  <2>2. PICK s \in Readable(packets, next_to_read, next_to_ack) : TRUE
    BY <1>3 DEF Recv
  <2>3. next_to_read <= next_to_ack /\ DOMAIN packets \subseteq Nat /\ next_to_read >= ISN
        /\ next_to_ack = IF last_sent_ack < ISN THEN ISN ELSE last_sent_ack
    BY AllNat DEF IInv, RcvInv
  <2>4. next_to_read < next_to_ack
    BY <2>2, <2>3, AllNat DEF Readable
  <2>5. ~(last_sent_ack < ISN)
    BY <2>3, <2>4, AllNat
  <2> QED BY <2>1, <2>5 DEF RoomInv
<1>4. ASSUME NEW m \in network, ProcessData(m) PROVE RoomInv'
  BY <1>4, ProcessDataRoom
<1>5. ASSUME UNCHANGED rcvVars PROVE RoomInv'
  BY <1>1, <1>5 DEF rcvVars, rbufVars, ackVars
<1>6. ASSUME NEW chunks \in 1 .. MaxChunks, SendMessage(chunks) PROVE UNCHANGED rcvVars
  BY <1>6 DEF SendMessage
<1>7. ASSUME SndWorker \/ ProcessKeepAlive \/ ExpTimer \/ ExpBreak PROVE UNCHANGED rcvVars
  BY <1>7 DEF SndWorker, SkipBroken, PopLoss, Resend, ReadWindow, FetchBatch,
              ProcessKeepAlive, ExpTimer, ExpBreak
<1>8. ASSUME NEW m \in network,
             ProcessLightAck(m) \/ ProcessAck(m) \/ ProcessNak(m) \/ Lose(m)
      PROVE  UNCHANGED rcvVars
  BY <1>8 DEF ProcessLightAck, ProcessAck, ProcessNak, Lose
<1>9. CASE SendLightAck
  BY <1>1, <1>9 DEF SendLightAck, rbufVars
<1>10. ASSUME NEW m \in network, ProcessAck2(m) PROVE RoomInv'
  BY <1>1, <1>10 DEF ProcessAck2, rbufVars
<1>11. CASE UNCHANGED vars
  BY <1>5, <1>11 DEF vars
<1> QED BY <1>2, <1>3, <1>4, <1>5, <1>6, <1>7, <1>8, <1>9, <1>10, <1>11 DEF Next, Arrive

(* What AckPoint computes from the largest number received and the loss    *)
(* list (send_ack).                                                        *)
FirstMissing(c, L) ==
  IF L = {} THEN SeqAdd(c, 1) ELSE FirstAfter(L, SeqAdd(c, 1))

(* It is the least number missing, or the one after the last received.     *)
LEMMA FirstMissingExact ==
  ASSUME NoWrap, NEW c \in Nat, c \in Used, c + 1 \in Used,
         NEW L, L \subseteq Nat, \A s \in L : s <= c
  PROVE  /\ FirstMissing(c, L) \in Nat
         /\ FirstMissing(c, L) \in L \/ FirstMissing(c, L) = c + 1
         /\ \A s \in L : FirstMissing(c, L) <= s
         /\ FirstMissing(c, L) <= c + 1
<1>1. SeqAdd(c, 1) = c + 1
  BY UsedExact
<1>2. CASE L = {}
  BY <1>1, <1>2 DEF FirstMissing
<1>3. CASE L # {}
  <2>1. \A s \in L : s < c + 1
    OBVIOUS
  <2>2. c + 1 \in Int /\ L \subseteq Nat /\ L # {}
    BY <1>3
  <2>3. FirstAfter(L, c + 1) \in L /\ \A s \in L : FirstAfter(L, c + 1) <= s
    BY <2>1, <2>2, FirstAfterExact
  <2>4. FirstMissing(c, L) = FirstAfter(L, c + 1)
    BY <1>1, <1>3 DEF FirstMissing
  <2>5. FirstMissing(c, L) \in L /\ \A s \in L : FirstMissing(c, L) <= s
    BY <2>3, <2>4
  <2>6. PICK p \in L : p = FirstMissing(c, L)
    BY <2>5
  <2>7. p \in Nat /\ p < c + 1
    BY <2>1, <2>2
  <2>8. p <= c + 1
    BY <2>7
  <2> QED BY <2>5, <2>6, <2>7, <2>8
<1> QED BY <1>2, <1>3

(* The first missing packet is not in the receive buffer.                  *)
LEMMA AckPointMissing ==
  ASSUME NoWrap, IInv
  PROVE  /\ AckPoint \in Nat
         /\ AckPoint = FirstMissing(curr_rcv_seq_number, rcv_loss_list)
         /\ AckPoint \in rcv_loss_list \/ AckPoint = curr_rcv_seq_number + 1
         /\ AckPoint \notin DOMAIN packets
<1>1. /\ curr_rcv_seq_number \in Nat /\ curr_rcv_seq_number \in Used
      /\ curr_rcv_seq_number + 1 \in Used /\ rcv_loss_list \subseteq Nat
  BY AllNat, AllUsed
<1>2. \A s \in rcv_loss_list : s <= curr_rcv_seq_number
  BY <1>1 DEF IInv, RcvInv
<1>3. AckPoint = FirstMissing(curr_rcv_seq_number, rcv_loss_list)
  BY DEF AckPoint, FirstMissing
<1>4. /\ AckPoint \in Nat
      /\ AckPoint \in rcv_loss_list \/ AckPoint = curr_rcv_seq_number + 1
  BY <1>1, <1>2, <1>3, FirstMissingExact
<1>5. DOMAIN packets = (next_to_read .. curr_rcv_seq_number) \ rcv_loss_list
  BY DEF IInv, RcvInv
<1> QED BY <1>1, <1>3, <1>4, <1>5, AllNat

(* An ACK is due as soon as the first missing number is past the last      *)
(* acknowledged one.                                                       *)
LEMMA AckDueExact ==
  ASSUME NoWrap, IInv
  PROVE  AckDue <=> AckPoint # last_ack2_received
<1>1. AckPoint \in Nat /\ last_sent_ack \in Nat /\ AckPoint >= next_to_ack
  BY AckPointExact, AckPointMissing, AllNat
<1>2. next_to_ack \in Nat /\ next_to_ack >= last_sent_ack
  BY AllNat DEF IInv, RcvInv
<1>3. SeqSub(AckPoint, last_sent_ack) = AckPoint - last_sent_ack
  BY AckPointExact, AllUsed, UsedExact
<1> QED BY <1>1, <1>2, <1>3 DEF AckDue

(* The packet that the receiver misses first is taken in when it arrives,  *)
(* whatever the buffer holds (process_data).                               *)
LEMMA FirstMissingFits ==
  ASSUME NoWrap, IInv, RoomInv, AckPoint = next_to_ack
  PROVE  LET offset == SeqSub(AckPoint, last_sent_ack)
         IN  ~(offset < 0 \/ AvailableBufSize(packets) < offset)
<1>1. SeqSub(AckPoint, last_sent_ack) = AckPoint - last_sent_ack
  BY AckPointExact, AllUsed, UsedExact
<1>2. /\ last_sent_ack \in Nat /\ next_to_ack \in Nat /\ ISN \in Nat
      /\ last_sent_ack >= ISN - 1
      /\ next_to_ack = IF last_sent_ack < ISN THEN ISN ELSE last_sent_ack
  BY AllNat DEF IInv, RcvInv
<1>3. AvailableBufSize(packets) \in Nat
  BY AvailableType, RcvBufferAssumption
<1>4. CASE last_sent_ack >= ISN
  BY <1>1, <1>2, <1>3, <1>4
<1>5. CASE last_sent_ack < ISN
  <2>1. Cardinality(DOMAIN packets) \in Nat /\ Cardinality(DOMAIN packets) < RCV_BUF_SIZE
    BY <1>2, <1>5, AckPointMissing, PacketsFinite DEF RoomInv
  <2>2. AvailableBufSize(packets) = RCV_BUF_SIZE - Cardinality(DOMAIN packets)
    BY <2>1, AvailableExact DEF AvailableBufSize
  <2>3. AvailableBufSize(packets) >= 1
    BY <2>1, <2>2, RcvBufferAssumption
  <2> QED BY <1>1, <1>2, <1>3, <1>5, <2>3
<1> QED BY <1>2, <1>4, <1>5

(* A data packet never moves the first missing number back, and the packet *)
(* with that very number moves it forward (process_data).                  *)
LEMMA DataMovesAckPoint ==
  ASSUME NoWrap, IInv, IInv', RoomInv, NEW m \in network, ProcessData(m)
  PROVE  /\ AckPoint' \in Nat /\ AckPoint' >= AckPoint
         /\ m.seq = AckPoint /\ AckPoint = next_to_ack => AckPoint' # AckPoint
<1> DEFINE ahead == SeqSub(m.seq, curr_rcv_seq_number)
           first == SeqAdd(curr_rcv_seq_number, 1)
           last  == SeqAdd(m.seq, -1)
           ignored == \/ SeqSub(m.seq, last_sent_ack) < 0
                      \/ AvailableBufSize(packets) < SeqSub(m.seq, last_sent_ack)
<1>1. /\ curr_rcv_seq_number \in Nat /\ ISN \in Nat /\ next_to_ack \in Nat
      /\ AckPoint \in Nat /\ AckPoint <= curr_rcv_seq_number + 1 /\ AckPoint >= next_to_ack
  BY AllNat, AckPointExact, AckPointMissing
<1>1a. \A s \in rcv_loss_list : s \in Nat /\ AckPoint <= s /\ s <= curr_rcv_seq_number
  <2>1. \A s \in rcv_loss_list : s <= curr_rcv_seq_number
    BY AllNat DEF IInv, RcvInv
  <2> QED BY <2>1, AllNat, AckPointExact
<1>2. m.seq \in ISN .. curr_snd_seq_number
  BY DEF ProcessData, IInv, NetInv
<1>3. m.seq \in Nat /\ m.seq \in Used /\ m.seq >= ISN
  <2>1. m.seq \in Used
    BY <1>2, AllNat, AllUsed, TransferAssumption DEF Used
  <2> QED BY <1>2, <2>1, AllNat
<1>4. CASE ignored
  <2>1. UNCHANGED <<curr_rcv_seq_number, rcv_loss_list>>
    BY <1>4 DEF ProcessData
  <2>2. AckPoint' = AckPoint
    BY <2>1 DEF AckPoint
  <2>3. ~(m.seq = AckPoint /\ AckPoint = next_to_ack)
    BY <1>4, FirstMissingFits
  <2> QED BY <1>1, <2>2, <2>3
<1>5. CASE ~ignored
  <2>1. ahead = m.seq - curr_rcv_seq_number
    BY <1>3, AllUsed, UsedExact
  <2>2. first = curr_rcv_seq_number + 1
    <3>1. curr_rcv_seq_number \in Used /\ curr_rcv_seq_number + 1 \in Used
      BY AllUsed
    <3> QED BY <3>1, UsedExact
  <2>3. last = m.seq - 1
    <3>1. m.seq + (-1) \in Used /\ -1 \in Int
      BY <1>1, <1>3, TransferAssumption DEF Used
    <3> QED BY <1>3, <3>1, UsedExact
  <2>4. ahead > 1 => CyclicRange(first, last) = (curr_rcv_seq_number + 1) .. (m.seq - 1)
    BY <1>1, <1>3, <2>1, <2>2, <2>3, RangeExact
  <2>5. /\ curr_rcv_seq_number' = IF ahead > 0 THEN m.seq ELSE curr_rcv_seq_number
        /\ rcv_loss_list' = IF ahead > 1 THEN rcv_loss_list \cup CyclicRange(first, last)
                            ELSE IF ahead > 0 THEN rcv_loss_list
                            ELSE rcv_loss_list \ {m.seq}
    <3> HIDE DEF ahead, first, last
    <3> QED BY <1>5 DEF ProcessData, ahead, first, last
  <2> HIDE DEF ahead, first, last, ignored
  <2>6. /\ curr_rcv_seq_number' \in Nat
        /\ curr_rcv_seq_number' >= curr_rcv_seq_number
        /\ curr_rcv_seq_number' >= m.seq
    BY <1>1, <1>3, <2>1, <2>5
  <2>7. \A s \in rcv_loss_list' : s \in rcv_loss_list
                                  \/ (s \in Nat /\ s > curr_rcv_seq_number /\ s < m.seq)
    <3>1. CASE ahead > 1
      BY <1>1, <1>3, <2>4, <2>5, <3>1
    <3>2. CASE ~(ahead > 1)
      BY <2>5, <3>2
    <3> QED BY <3>1, <3>2
  <2>8. \A s \in rcv_loss_list' : s \in Nat /\ s >= AckPoint /\ s <= curr_rcv_seq_number'
    <3> TAKE s \in rcv_loss_list'
    <3>1. CASE s \in rcv_loss_list
      <4>1. s \in Nat /\ AckPoint <= s /\ s <= curr_rcv_seq_number
        BY <1>1a, <3>1
      <4> QED BY <1>1, <2>6, <4>1
    <3>2. CASE s \in Nat /\ s > curr_rcv_seq_number /\ s < m.seq
      BY <1>1, <1>3, <2>6, <3>2
    <3> QED BY <2>7, <3>1, <3>2
  <2>9. AckPoint' = FirstMissing(curr_rcv_seq_number', rcv_loss_list')
    BY DEF AckPoint, FirstMissing
  <2>10. curr_rcv_seq_number' \in Used /\ curr_rcv_seq_number' + 1 \in Used
    <3>1. curr_rcv_seq_number' <= curr_snd_seq_number'
      BY <2>6 DEF IInv, RcvInv
    <3>2. curr_snd_seq_number' = curr_snd_seq_number
      BY DEF ProcessData, sndVars, seqVars
    <3>3. /\ curr_snd_seq_number \in Nat /\ curr_snd_seq_number + 1 <= ISN + MaxBlocks
          /\ MaxBlocks \in Nat
      BY AllUsed, AllNat, TransferAssumption DEF Used
    <3>4. curr_rcv_seq_number' >= ISN - 1
      BY <1>1, <1>3, <2>6
    <3>5. curr_rcv_seq_number' <= curr_snd_seq_number
      BY <3>1, <3>2
    <3>6. PICK c \in Nat : c = curr_rcv_seq_number'
      BY <2>6
    <3>7. c >= ISN - 1 /\ c <= curr_snd_seq_number
      BY <3>4, <3>5, <3>6
    <3>8. c \in Used /\ c + 1 \in Used
      BY <1>1, <3>3, <3>7 DEF Used
    <3> QED BY <3>6, <3>8
  <2>11. /\ AckPoint' \in Nat
         /\ AckPoint' \in rcv_loss_list' \/ AckPoint' = curr_rcv_seq_number' + 1
    <3>1. rcv_loss_list' \subseteq Nat /\ \A s \in rcv_loss_list' : s <= curr_rcv_seq_number'
      BY <2>8
    <3> HIDE DEF FirstMissing
    <3> QED BY <2>6, <2>9, <2>10, <3>1, FirstMissingExact
  <2>12. AckPoint' >= AckPoint
    <3>1. CASE AckPoint' \in rcv_loss_list'
      BY <2>8, <3>1
    <3>2. CASE AckPoint' = curr_rcv_seq_number' + 1
      <4>1. PICK c \in Nat : c = curr_rcv_seq_number'
        BY <2>6
      <4>2. c >= curr_rcv_seq_number
        BY <2>6, <4>1
      <4>3. c + 1 >= AckPoint
        BY <1>1, <4>2
      <4> QED BY <3>2, <4>1, <4>3
    <3> QED BY <2>11, <3>1, <3>2
  <2>13. m.seq = AckPoint => AckPoint' # AckPoint
    <3> HAVE m.seq = AckPoint
    <3>1. ahead <= 1
      BY <1>1, <1>3, <2>1
    <3>2. m.seq \notin rcv_loss_list'
      <4>1. CASE ahead = 1
        <5>1. rcv_loss_list' = rcv_loss_list
          BY <2>5, <4>1
        <5>2. m.seq > curr_rcv_seq_number
          BY <1>1, <1>3, <2>1, <4>1
        <5> QED BY <1>1, <1>1a, <1>3, <5>1, <5>2
      <4>2. CASE ~(ahead > 0)
        <5>1. rcv_loss_list' = rcv_loss_list \ {m.seq}
          BY <1>1, <1>3, <2>1, <2>5, <4>2
        <5> QED BY <5>1
      <4> QED BY <1>1, <1>3, <2>1, <3>1, <4>1, <4>2
    <3>3. m.seq # curr_rcv_seq_number' + 1
      BY <1>3, <2>6
    <3> QED BY <2>11, <3>2, <3>3
  <2> QED BY <2>11, <2>12, <2>13
<1> QED BY <1>4, <1>5

(* When the EXP timer expires, the number of expirations has not used up   *)
(* the losses: what the receiver waits for is neither on the loss list nor *)
(* under way.                                                              *)
LEMMA SilenceIsLoss ==
  ASSUME NoWrap, ~Adversarial, ~MultiThread, IInv, WakeInv, ExpInv,
         Interruptible, SndSilent, status = "Connected"
  PROVE  exp_count <= losses + 1
<1>1. network = {} /\ ~queued /\ ~AckDue
  BY DEF SndSilent
<1>2. snd_worker = Idle
  BY DEF Interruptible
<1>3. snd_worker.pc # "resend" /\ snd_loss_list = {}
  BY <1>1, <1>2 DEF Idle, WakeInv
<1>4. ~ResendUnderWay
  BY <1>1, <1>3 DEF ResendUnderWay
<1>5. exp_count \in Int /\ losses \in Int
  BY TransferAssumption DEF IInv, TypeOK, SndTypeOK
<1>6. exp_count <= losses + 2 /\ exp_count # losses + 2
  BY <1>1, <1>4 DEF ExpInv
<1> QED BY <1>5, <1>6

(* The EXP timer puts the packet that the receiver misses first on the     *)
(* loss list: it was sent, and nothing after it is acknowledged.           *)
LEMMA ExpTimerResends ==
  ASSUME NoWrap, ~Adversarial, ~MultiThread, IInv, WakeInv, Ack2Inv, ExpTimer
  PROVE  AckPoint \in snd_loss_list'
<1>1. /\ Interruptible /\ SndSilent /\ status = "Connected"
      /\ snd_loss_list' =
           IF /\ snd_buffer # <<>>
              /\ last_ack_received # SeqAdd(curr_snd_seq_number, 1)
              /\ snd_loss_list = {}
           THEN CyclicRange(last_ack_received, curr_snd_seq_number)
           ELSE snd_loss_list
  BY DEF ExpTimer
<1>2. ~queued /\ ~AckDue /\ snd_buffer # <<>>
  BY <1>1 DEF SndSilent
<1>3. snd_worker = Idle
  BY <1>1 DEF Interruptible
<1>4. /\ snd_loss_list = {}
      /\ current_position < Len(snd_buffer) => current_position > 0
  BY <1>1, <1>2, <1>3 DEF WakeInv, Idle
<1>5. /\ last_ack_received \in Nat /\ last_data_ack_processed \in Nat
      /\ curr_snd_seq_number \in Nat /\ last_ack2_received \in Nat
      /\ AckPoint \in Nat
  BY AllNat, AckPointMissing
<1>6. current_position > 0 /\ current_position \in Nat
  <2>1. Len(snd_buffer) \in Nat /\ Len(snd_buffer) # 0
    BY <1>2, EmptySeq DEF IInv, TypeOK, SndTypeOK
  <2>2. current_position \in 0 .. Len(snd_buffer)
    BY DEF IInv, TypeOK, SndTypeOK
  <2> QED BY <1>4, <2>1, <2>2
<1>7. AckPoint = last_ack2_received
  BY <1>2, AckDueExact
<1>8. last_ack_received <= AckPoint
  <2>1. /\ last_ack_received <= curr_rcv_seq_number + 1
        /\ \A s \in rcv_loss_list : last_ack_received <= s
    BY DEF IInv, AckInv
  <2> QED BY <2>1, AckPointMissing
<1>9. /\ last_data_ack_processed <= last_ack_received
      /\ curr_snd_seq_number = last_data_ack_processed - 1 + current_position
  BY <1>5 DEF IInv, SndInv
<1>10. last_ack2_received <= last_data_ack_processed
  BY DEF Ack2Inv
<1>11. AckPoint = last_ack_received /\ last_ack_received <= curr_snd_seq_number
  BY <1>5, <1>6, <1>7, <1>8, <1>9, <1>10
<1>12. SeqAdd(curr_snd_seq_number, 1) = curr_snd_seq_number + 1
  <2>1. curr_snd_seq_number \in Used /\ curr_snd_seq_number + 1 \in Used
    BY AllUsed
  <2> QED BY <2>1, UsedExact
<1>13. last_ack_received # SeqAdd(curr_snd_seq_number, 1)
  BY <1>5, <1>11, <1>12
<1>14. snd_loss_list' = CyclicRange(last_ack_received, curr_snd_seq_number)
  BY <1>1, <1>2, <1>4, <1>13
<1>15. CyclicRange(last_ack_received, curr_snd_seq_number)
         = last_ack_received .. curr_snd_seq_number
  BY <1>5, <1>11, RangeExact
<1> QED BY <1>5, <1>11, <1>14, <1>15

(* The worker sends the packet it has taken off the loss list.             *)
LEMMA PopLossUnderWay ==
  ASSUME NoWrap, IInv, PopLoss, ResendUnderWay, AckPoint' = AckPoint
  PROVE  ResendUnderWay'
<1> DEFINE seq    == FirstAfter(snd_loss_list, last_data_ack_processed)
           offset == SeqSub(seq, last_data_ack_processed)
<1>1. /\ last_data_ack_processed \in Nat /\ snd_loss_list \subseteq Nat
      /\ snd_loss_list # {} /\ last_data_ack_processed \in Int
      /\ \A s \in snd_loss_list : s >= last_data_ack_processed
  BY AllNat DEF PopLoss, IInv, SndInv
<1>2. seq \in snd_loss_list
  BY <1>1, FirstAfterExact
<1>3. offset = seq - last_data_ack_processed
  BY <1>2, AllUsed, UsedExact
<1>4. /\ snd_loss_list' = snd_loss_list \ {seq}
      /\ snd_worker' = IF offset < 0 THEN Idle
                       ELSE [pc |-> "resend", seq |-> seq, offset |-> offset]
      /\ network' = network
      /\ snd_worker = Idle
  BY DEF PopLoss, Dequeue, netVars
<1> HIDE DEF seq
<1>5. ~(offset < 0)
  <2>1. seq \in Nat /\ seq >= last_data_ack_processed
    BY <1>1, <1>2
  <2> QED BY <1>1, <1>3, <2>1
<1> HIDE DEF offset
<1>6. snd_worker'.pc = "resend" /\ snd_worker'.seq = seq
  BY <1>4, <1>5
<1>7. snd_worker.pc # "resend"
  BY <1>4 DEF Idle
<1> QED BY <1>4, <1>6, <1>7 DEF ResendUnderWay

(* The block of a packet to send again is in the send buffer, since on a   *)
(* runtime with one thread nothing has released it meanwhile.              *)
LEMMA ResendUnderWayStays ==
  ASSUME NoWrap, ~MultiThread, IInv, Resend, ResendUnderWay, AckPoint' = AckPoint
  PROVE  ResendUnderWay'
<1>1. /\ snd_worker.pc = "resend"
      /\ snd_loss_list' = snd_loss_list
      /\ network \subseteq network'
  BY DEF Resend, Send, seqVars, netVars
<1>2. snd_worker.seq \in SeqNumbers /\ snd_worker.offset \in Nat
  <2>1. snd_worker \in {Idle} \cup [pc : {"resend"}, seq : SeqNumbers, offset : Nat]
                              \cup [pc : {"fetch"}, window : Nat]
    BY DEF IInv, TypeOK, SndTypeOK
  <2> QED BY <1>1, <2>1 DEF Idle
<1>3. /\ snd_worker.seq <= curr_snd_seq_number /\ snd_worker.seq \in Nat
      /\ snd_worker.offset = snd_worker.seq - last_data_ack_processed
  BY <1>1, AllNat DEF IInv, WorkerInv
<1>4. /\ curr_snd_seq_number = last_data_ack_processed - 1 + current_position
      /\ current_position \in 0 .. Len(snd_buffer) /\ Len(snd_buffer) \in Nat
  BY DEF IInv, SndInv, TypeOK, SndTypeOK
<1>5. HasBlock(snd_buffer, snd_worker.offset)
  BY <1>2, <1>3, <1>4, AllNat DEF HasBlock
<1>6. DataPacket(snd_worker.seq, ReadData(snd_buffer, snd_worker.offset)) \in network'
  BY <1>5 DEF Resend, Send
<1>7. /\ DataPacket(snd_worker.seq, ReadData(snd_buffer, snd_worker.offset)).type = "data"
      /\ DataPacket(snd_worker.seq, ReadData(snd_buffer, snd_worker.offset)).seq
           = snd_worker.seq
  BY DEF DataPacket
<1> QED BY <1>1, <1>6, <1>7 DEF ResendUnderWay

(* A data packet is the one the receiver waits for, and makes an ACK due,  *)
(* or leaves that packet under way.                                        *)
LEMMA ProcessDataUnderWay ==
  ASSUME NoWrap, IInv, IInv', RoomInv, NEW m \in network, ProcessData(m),
         AckDue \/ ResendUnderWay
  PROVE  AckDue' \/ ResendUnderWay'
<1>1. /\ AckPoint \in Nat /\ last_ack2_received \in Nat /\ next_to_ack \in Nat
      /\ AckPoint >= next_to_ack /\ last_ack2_received <= next_to_ack
      /\ last_sent_ack \in Nat /\ next_to_ack >= last_sent_ack
  <2>1. last_ack2_received <= next_to_ack /\ next_to_ack >= last_sent_ack
    <3>1. last_ack2_received <= next_to_ack
      BY AllNat DEF IInv, AckInv, RcvInv
    <3>2. next_to_ack = IF last_sent_ack < ISN THEN ISN ELSE last_sent_ack
      BY Zenon DEF IInv, RcvInv
    <3>3. ISN \in Nat /\ last_sent_ack \in Nat /\ next_to_ack \in Nat
      BY AllNat
    <3>4. next_to_ack >= last_sent_ack
      BY <3>2, <3>3
    <3> QED BY <3>1, <3>4
  <2> QED BY <2>1, AckPointExact, AckPointMissing, AllNat
<1>2. UNCHANGED <<last_ack2_received, last_sent_ack, snd_loss_list, snd_worker>>
  BY DEF ProcessData, ackVars, sndVars, seqVars, workVars
<1>3. /\ AckPoint' \in Nat /\ AckPoint' >= AckPoint
      /\ m.seq = AckPoint /\ AckPoint = next_to_ack => AckPoint' # AckPoint
  BY DataMovesAckPoint
<1>4. AckDue' <=> AckPoint' # last_ack2_received'
  <2>1. (AckDue <=> AckPoint # last_ack2_received)'
    BY AckDueExact, PTL
  <2> QED BY <2>1
<1>5. AckDue <=> AckPoint # last_ack2_received
  BY AckDueExact
<1>6. CASE AckPoint' # AckPoint
  <2>1. PICK p \in Nat : p = AckPoint'
    BY <1>3
  <2>2. p >= AckPoint /\ p # AckPoint
    BY <1>3, <1>6, <2>1
  <2>3. p # last_ack2_received
    BY <1>1, <2>2
  <2> QED BY <1>2, <1>4, <2>1, <2>3
<1>7. CASE AckPoint' = AckPoint
  <2>1. CASE AckDue
    BY <1>2, <1>4, <1>5, <1>7, <2>1
  <2>2. CASE ~AckDue
    <3>1. m.seq # AckPoint
      BY <1>1, <1>3, <1>5, <1>7, <2>2
    <3>2. \A d \in network : d = m \/ d \in network'
      BY DEF ProcessData, Receive
    <3>3. ResendUnderWay
      BY <2>2
    <3> QED BY <1>2, <1>7, <3>1, <3>2, <3>3 DEF ResendUnderWay
  <2> QED BY <2>1, <2>2
<1> QED BY <1>6, <1>7

(* A step that leaves the counters and the first missing number alone, and *)
(* sends no ACK2.                                                          *)
LEMMA ExpFrame ==
  ASSUME ExpInv, UNCHANGED <<status, exp_count, losses>>,
         \A m \in network' : m \in network \/ m.type # "ack2",
         AckDue \/ ResendUnderWay => AckDue' \/ ResendUnderWay'
  PROVE  ExpInv'
BY DEF ExpInv

(* A control packet resets the counter, and none breaks the link.          *)
LEMMA CtrlArrivesExp ==
  ASSUME IInv, IInv', CtrlArrives, losses' = losses
  PROVE  ExpInv'
<1>1. exp_count' = 1 /\ losses \in Nat /\ EXP_LIMIT \in Nat \ {0}
  BY TransferAssumption DEF CtrlArrives, IInv, TypeOK
<1>2. status' # "Broken"
  BY <1>1 DEF IInv, NoProtocolBreak
<1>3. ~(exp_count' > 1) /\ exp_count' <= losses' + 2 /\ exp_count' # losses' + 2
  BY <1>1
<1> QED BY <1>2, <1>3 DEF ExpInv

(* Every step keeps ExpInv.                                                *)
LEMMA NextExp ==
  ASSUME NoWrap, ~Adversarial, ~MultiThread, IInv, IInv', WakeInv, Ack2Inv, RoomInv,
         ExpInv, [Next]_vars
  PROVE  ExpInv'
<1> USE DEF netVars
<1>0. exp_count \in Nat /\ losses \in Nat /\ EXP_LIMIT \in Nat
  BY TransferAssumption, SMTT(30) DEF IInv, TypeOK, SndTypeOK
<1>1. ASSUME UNCHANGED <<curr_rcv_seq_number, rcv_loss_list>> PROVE AckPoint' = AckPoint
  BY <1>1 DEF AckPoint
<1>2. ASSUME UNCHANGED <<curr_rcv_seq_number, rcv_loss_list, last_ack2_received>>
      PROVE  AckDue => AckDue'
  <2>1. (AckDue <=> AckPoint # last_ack2_received)'
    BY AckDueExact, PTL
  <2> QED BY <1>1, <1>2, <2>1, AckDueExact
<1>3. ASSUME UNCHANGED <<status, exp_count, losses, curr_rcv_seq_number, rcv_loss_list,
                         last_ack2_received>>,
             \A m \in network' : m \in network \/ m.type # "ack2",
             AckPoint' = AckPoint /\ ResendUnderWay => ResendUnderWay'
      PROVE  ExpInv'
  BY <1>1, <1>2, <1>3, ExpFrame
<1>4. ASSUME UNCHANGED <<status, exp_count, losses, curr_rcv_seq_number, rcv_loss_list,
                         last_ack2_received, snd_loss_list>>,
             snd_worker.pc = "resend" => snd_worker' = snd_worker,
             network \subseteq network',
             \A m \in network' : m \in network \/ m.type # "ack2"
      PROVE  ExpInv'
  BY <1>3, <1>4 DEF ResendUnderWay
<1>5. ASSUME NEW chunks \in 1 .. MaxChunks, SendMessage(chunks) PROVE ExpInv'
  BY <1>4, <1>5 DEF SendMessage, seqVars, rcvVars, ackVars
<1>6. CASE SkipBroken
  BY <1>4, <1>6 DEF SkipBroken, seqVars, rcvVars, ackVars
<1>7. CASE PopLoss
  BY <1>3, <1>7, PopLossUnderWay DEF PopLoss, rcvVars, ackVars
<1>8. CASE Resend
  <2>1. /\ \A m \in network' : m \in network \/ m.type # "ack2"
        /\ losses' = losses
    BY <1>8 DEF Resend, Send, DataPacket
  <2> QED BY <1>3, <1>8, <2>1, ResendUnderWayStays DEF Resend, rcvVars, ackVars
<1>9. CASE ReadWindow
  BY <1>4, <1>9 DEF ReadWindow, Dequeue, Idle, seqVars, rcvVars, ackVars
<1>10. CASE FetchBatch
  <2>1. /\ \A m \in network' : m \in network \/ m.type # "ack2"
        /\ network \subseteq network'
        /\ losses' = losses
    BY <1>10 DEF FetchBatch, Send, DataPacket
  <2> QED BY <1>4, <1>10, <2>1 DEF FetchBatch, rcvVars, ackVars
<1>11. CASE ProcessKeepAlive
  BY <1>11, CtrlArrivesExp DEF ProcessKeepAlive
<1>12. ASSUME NEW m \in network, ProcessLightAck(m) \/ ProcessAck(m) \/ ProcessNak(m)
       PROVE  ExpInv'
  BY <1>12, CtrlArrivesExp DEF ProcessLightAck, ProcessAck, ProcessNak, Receive
<1>13. CASE ExpTimer
  <2>1. /\ exp_count' = exp_count + 1 /\ status' = "Connected" /\ losses' = losses
        /\ network' = {}
    BY <1>13 DEF ExpTimer, SndSilent
  <2>2. exp_count <= losses + 1
    BY <1>13, SilenceIsLoss DEF ExpTimer
  <2>3. exp_count' <= losses' + 2
    BY <1>0, <2>1, <2>2
  <2>4. ResendUnderWay'
    <3>1. AckPoint' = AckPoint
      BY <1>1, <1>13 DEF ExpTimer, rcvVars
    <3> QED BY <1>13, <3>1, ExpTimerResends DEF ResendUnderWay
  <2> QED BY <2>1, <2>3, <2>4 DEF ExpInv
<1>14. CASE ExpBreak
  <2>1. exp_count > EXP_LIMIT /\ status' = "Broken" /\ losses' = losses
    BY <1>14 DEF ExpBreak, LinkExpired
  <2>2. exp_count <= losses + 1
    BY <1>14, SilenceIsLoss DEF ExpBreak
  <2>3. losses >= EXP_LIMIT
    BY <1>0, <2>1, <2>2
  <2> QED BY <2>1, <2>3 DEF ExpInv
<1>15. CASE AckTimer
  <2>1. /\ network \subseteq network' /\ losses' = losses
        /\ \A m \in network' : m \in network \/ m.type # "ack2"
    BY <1>15 DEF AckTimer, EmitAck, Send, Ack
  <2> QED BY <1>4, <1>15, <2>1 DEF AckTimer, sndVars, seqVars, workVars
<1>16. CASE SendLightAck
  BY <1>4, <1>16 DEF SendLightAck, Send, LightAck, sndVars, seqVars, workVars
<1>17. CASE Recv
  BY <1>4, <1>17 DEF Recv, ackVars, sndVars, seqVars, workVars
<1>18. ASSUME NEW m \in network, ProcessData(m) PROVE ExpInv'
  <2>1. \A d \in network' : d \in network \/ d.type # "ack2"
    BY <1>18 DEF ProcessData, Receive, Nak
  <2>2. UNCHANGED <<status, exp_count, losses>>
    BY <1>18 DEF ProcessData, Receive, sndVars
  <2> QED BY <1>18, <2>1, <2>2, ProcessDataUnderWay, ExpFrame
<1>19. ASSUME NEW m \in network, ProcessAck2(m) PROVE ExpInv'
  <2>1. UNCHANGED <<status, exp_count, losses>> /\ m.type = "ack2" /\ network' \subseteq network
    BY <1>19 DEF ProcessAck2, Receive, sndVars
  <2>2. CASE status = "Broken"
    BY <2>1, <2>2 DEF ExpInv
  <2>3. CASE status = "Connected"
    <3>1. ~(exp_count > 1)
      BY <2>1, <2>3 DEF ExpInv
    <3>2. exp_count <= losses + 2 /\ exp_count # losses + 2
      BY <1>0, <3>1
    <3> QED BY <2>1, <2>3, <3>1, <3>2 DEF ExpInv
  <2> QED BY <2>2, <2>3 DEF IInv, TypeOK, SndTypeOK
<1>20. ASSUME NEW m \in network, Lose(m) PROVE ExpInv'
  <2>1. /\ UNCHANGED <<status, exp_count>> /\ losses' = losses + 1
        /\ network' \subseteq network
    BY <1>20 DEF Lose, sndVars
  <2>2. CASE status = "Broken"
    <3>1. losses >= EXP_LIMIT
      BY <2>2 DEF ExpInv
    <3>2. losses + 1 >= EXP_LIMIT
      BY <1>0, <3>1
    <3> QED BY <2>1, <2>2, <3>2 DEF ExpInv
  <2>3. CASE status = "Connected"
    <3>1. exp_count <= losses + 2
      BY <2>3 DEF ExpInv
    <3>2. exp_count <= (losses + 1) + 2 /\ exp_count # (losses + 1) + 2
      BY <1>0, <3>1
    <3>3. exp_count' > 1 => \A d \in network' : d.type # "ack2"
      BY <2>1, <2>3 DEF ExpInv
    <3> QED BY <2>1, <2>3, <3>2, <3>3 DEF ExpInv
  <2> QED BY <2>2, <2>3 DEF IInv, TypeOK, SndTypeOK
<1>21. CASE UNCHANGED vars
  BY <1>4, <1>21 DEF vars, sndVars, seqVars, workVars, rcvVars, ackVars
<1> QED BY <1>5, <1>6, <1>7, <1>8, <1>9, <1>10, <1>11, <1>12, <1>13, <1>14, <1>15, <1>16,
           <1>17, <1>18, <1>19, <1>20, <1>21 DEF Next, SndWorker, Arrive

(***************************************************************************)
(* The theorems.  Each holds for every number of messages, ACKs, losses    *)
(* and repetitions the constants allow, and every size of the buffers.     *)
(***************************************************************************)

(* The invariant is one: it holds initially and every operation of the two *)
(* sockets and of the network keeps it.                                    *)
THEOREM InvariantHolds ==
  ASSUME NoWrap
  PROVE  Spec => []IInv
<1>1. Init => IInv
  BY InitInv
<1>2. IInv /\ [Next]_vars => IInv'
  BY NextInv
<1> QED BY <1>1, <1>2, PTL DEF Spec

(* Type correctness: among others, the position of fetch_batch stays       *)
(* within the send buffer (snd_buffer.rs).                                 *)
THEOREM TypeCorrect ==
  ASSUME NoWrap
  PROVE  Spec => []TypeOK
<1>1. IInv => TypeOK
  BY DEF IInv
<1> QED BY <1>1, InvariantHolds, PTL

(* On a runtime with one thread, recv() returns exactly the stream that    *)
(* send() accepted, although the network loses, repeats and reorders       *)
(* datagrams (socket.rs, snd_buffer.rs and rcv_buffer.rs together).        *)
THEOREM StreamCorrect ==
  ASSUME NoWrap, ~MultiThread
  PROVE  Spec => []StreamIntegrity
<1>1. IInv => StreamIntegrity
  BY DEF IInv, DataInv
<1> QED BY <1>1, InvariantHolds, PTL

(* On either runtime, the receiver's loss list is exact (process_data).    *)
THEOREM RcvLossCorrect ==
  ASSUME NoWrap
  PROVE  Spec => []RcvLossExact
<1>1. IInv => RcvLossExact
  BY RcvLossFromInv
<1> QED BY <1>1, InvariantHolds, PTL

(* On either runtime, the sender never releases a block that the receiver  *)
(* does not have (send_ack and process_ctrl).                              *)
THEOREM ReleaseCorrect ==
  ASSUME NoWrap
  PROVE  Spec => []ReleasedIsReceived
<1>1. IInv => ReleasedIsReceived
  BY ReleasedFromInv
<1> QED BY <1>1, InvariantHolds, PTL

(* The sender's loss list never names a packet that was not sent or has    *)
(* been released (process_ctrl, check_timers).                             *)
THEOREM SndLossCorrect ==
  ASSUME NoWrap
  PROVE  Spec => []SndLossReadable
<1>1. IInv => SndLossReadable
  BY SndLossFromInv
<1> QED BY <1>1, InvariantHolds, PTL

(* No acknowledgement and no NAK that was really sent breaks the link, in  *)
(* whatever order they arrive (process_ctrl).                              *)
THEOREM LinkNotBroken ==
  ASSUME NoWrap
  PROVE  Spec => []NoProtocolBreak
<1>1. IInv => NoProtocolBreak
  BY DEF IInv
<1> QED BY <1>1, InvariantHolds, PTL

(* On either runtime, a socket that is out of the send queue with the      *)
(* worker idle has nothing to send again, and if it has something to send  *)
(* for the first time then packets are under way whose ACK puts it back    *)
(* (next_data_packets, update_snd_queue).                                  *)
THEOREM WakeupNotLost ==
  ASSUME NoWrap
  PROVE  Spec => []NoLostWakeup
<1>1. Init => WakeInv
  BY DEF Init, WakeInv, Idle
<1>2. IInv /\ WakeInv /\ [Next]_vars => WakeInv'
  BY NextWake
<1>3. WakeInv => NoLostWakeup
  BY DEF WakeInv, NoLostWakeup, Idle
<1> QED BY <1>1, <1>2, <1>3, InvariantHolds, PTL DEF Spec

(* In an orderly network, on a runtime with one thread, the EXP timer does *)
(* not give the link up before it has allowed for as many lost datagrams   *)
(* as EXP_LIMIT: every expiration but one is the fault of a loss, because  *)
(* an expiration resends the packet that the receiver waits for, and that  *)
(* packet is answered (check_timers, process_data, send_ack).              *)
THEOREM LinkNotGivenUp ==
  ASSUME NoWrap, ~Adversarial, ~MultiThread
  PROVE  Spec => []LinkKept
<1> DEFINE LInv == WakeInv /\ Ack2Inv /\ RoomInv /\ ExpInv
<1>1. Init => LInv
  <2> SUFFICES ASSUME Init PROVE LInv
    OBVIOUS
  <2>1. WakeInv
    BY DEF Init, WakeInv, Idle
  <2>2. Ack2Inv
    BY TransferAssumption DEF Init, Ack2Inv, SeqNumbers
  <2>3. RoomInv
    <3>1. DOMAIN packets = {}
      BY DEF Init
    <3> QED BY <3>1, FS_EmptySet, RcvBufferAssumption DEF RoomInv
  <2>4. ExpInv
    BY TransferAssumption DEF Init, ExpInv
  <2> QED BY <2>1, <2>2, <2>3, <2>4
<1>2. IInv /\ IInv' /\ LInv /\ [Next]_vars => LInv'
  BY NextWake, NextConfirms, NextRoom, NextExp
<1>3. IInv /\ LInv => LinkKept
  <2> SUFFICES ASSUME IInv, ExpInv, losses < EXP_LIMIT PROVE status = "Connected"
    BY DEF LinkKept
  <2>1. losses \in Nat /\ EXP_LIMIT \in Nat /\ status \in {"Connected", "Broken"}
    BY TransferAssumption DEF IInv, TypeOK, SndTypeOK
  <2> QED BY <2>1 DEF ExpInv
<1> QED BY <1>1, <1>2, <1>3, InvariantHolds, PTL DEF Spec

(* On either runtime no step takes an acknowledgement back, however old    *)
(* the datagram that arrives (process_ctrl, send_ack, rcv_buffer.rs).      *)
THEOREM AcksForward ==
  ASSUME NoWrap
  PROVE  Spec => AcksNeverRetreat
<1> DEFINE A == /\ BlockOf(last_ack_received') >= BlockOf(last_ack_received)
                /\ BlockOf(last_data_ack_processed') >= BlockOf(last_data_ack_processed)
                /\ BlockOf(last_ack2_received') >= BlockOf(last_ack2_received)
                /\ BlockOf(next_to_ack') >= BlockOf(next_to_ack)
<1>1. IInv /\ [Next]_vars => [A]_vars
  <2> SUFFICES ASSUME IInv, [Next]_vars PROVE A
    OBVIOUS
  <2>1. ASSUME NEW a \in Used, NEW b \in Used, b >= a
        PROVE  BlockOf(b) >= BlockOf(a)
    <3>1. BlockOf(a) = a - ISN + 1 /\ BlockOf(b) = b - ISN + 1
      BY BlockOfExact
    <3>2. a \in Nat /\ b \in Nat /\ ISN \in Nat
      BY UsedExact, AllNat
    <3> QED BY <2>1, <3>1, <3>2
  <2> QED BY <2>1, MarksForward, AllUsed
<1> QED BY <1>1, InvariantHolds, PTL DEF Spec, AcksNeverRetreat

(* On a runtime with one thread the protocol implements the reliable       *)
(* stream: every step is a write, a read of the next block, or invisible.  *)
THEOREM StreamRefinement ==
  ASSUME NoWrap, ~MultiThread
  PROVE  Spec => ImplementsStream
<1> USE DEF Stream!streamVars
<1>1. Init => Stream!StreamInit
  BY DEF Init, Stream!StreamInit
<1>2. IInv /\ IInv' /\ [Next]_vars => [Stream!Write \/ Stream!Read]_(Stream!streamVars)
  <2> SUFFICES ASSUME IInv, IInv', [Next]_vars
               PROVE  Stream!Write \/ Stream!Read \/ UNCHANGED Stream!streamVars
    OBVIOUS
  <2>1. ASSUME NEW chunks \in 1 .. MaxChunks, SendMessage(chunks) PROVE Stream!Write
    <3>1. /\ written \in Nat /\ MaxBlocks \in Nat /\ chunks \in Nat /\ chunks >= 1
          /\ written' = written + chunks /\ written + chunks <= MaxBlocks
          /\ delivered' = delivered
      BY <2>1, TransferAssumption
         DEF SendMessage, IInv, TypeOK, SndTypeOK, rcvVars, rbufVars
    <3> QED BY <3>1 DEF Stream!Write
  <2>2. ASSUME Recv PROVE Stream!Read
    <3>1. /\ written' = written
          /\ \E b : delivered' = Append(delivered, b)
      BY <2>2 DEF Recv, sndVars, bufVars
    <3>2. delivered \in Seq(Blocks) /\ Len(delivered) \in Nat
      BY DEF IInv, TypeOK, RcvTypeOK
    <3>3. PICK b : delivered' = Append(delivered, b)
      BY <3>1
    <3>4. Len(delivered') = Len(delivered) + 1 /\ delivered'[Len(delivered) + 1] = b
      BY <3>2, <3>3
    <3>5. b = Len(delivered) + 1
      BY <3>2, <3>4 DEF IInv, DataInv, StreamIntegrity
    <3>6. Len(delivered) < written
      BY <2>2, ReadIsWritten
    <3> QED BY <3>1, <3>3, <3>5, <3>6 DEF Stream!Read
  <2>3. ASSUME SndWorker \/ ProcessKeepAlive \/ ExpTimer \/ ExpBreak
        PROVE  UNCHANGED <<written, delivered>>
    BY <2>3 DEF SndWorker, SkipBroken, PopLoss, Resend, ReadWindow, FetchBatch,
                ProcessKeepAlive, ExpTimer, ExpBreak, bufVars, rcvVars, rbufVars
  <2>4. ASSUME AckTimer \/ SendLightAck PROVE UNCHANGED <<written, delivered>>
    BY <2>4 DEF AckTimer, SendLightAck, rbufVars, sndVars, bufVars
  <2>5. ASSUME NEW m \in network, Arrive(m) PROVE UNCHANGED <<written, delivered>>
    BY <2>5 DEF Arrive, ProcessLightAck, ProcessAck, ProcessNak, ProcessData,
                ProcessAck2, bufVars, sndVars, rcvVars, rbufVars
  <2>6. ASSUME (\E m \in network : Lose(m)) \/ UNCHANGED vars
        PROVE  UNCHANGED <<written, delivered>>
    BY <2>6 DEF Lose, vars, sndVars, bufVars, rcvVars, rbufVars
  <2> QED BY <2>1, <2>2, <2>3, <2>4, <2>5, <2>6 DEF Next
<1> QED BY <1>1, <1>2, InvariantHolds, PTL DEF Spec, ImplementsStream, Stream!StreamSpec

=============================================================================
