----------------------------- MODULE RcvBuffer -----------------------------
(***************************************************************************)
(* The receive buffer, src/src/queue/rcv_buffer.rs: a map from sequence    *)
(* numbers to payloads, and the two marks next_to_read and next_to_ack.    *)
(***************************************************************************)
EXTENDS LossSet

CONSTANTS
  RCV_BUF_SIZE,    \* configuration.rcv_buf_size, in packets
  U32_MODULUS      \* 2^32: the sizes and windows of the code are u32

ASSUME RcvBufferAssumption ==
  /\ RCV_BUF_SIZE \in Nat \ {0}
  /\ U32_MODULUS \in Nat
  /\ RCV_BUF_SIZE < U32_MODULUS

(* max_size - packets.len(), a u32.                                        *)
AvailableBufSize(packets) ==
  (RCV_BUF_SIZE - Cardinality(DOMAIN packets)) % U32_MODULUS

(* entry(seq).or_insert(packet): a packet that is there is not replaced.   *)
RcvInsert(packets, seq, data) ==
  [s \in DOMAIN packets \cup {seq} |->
     IF s \in DOMAIN packets THEN packets[s] ELSE data]

RcvRemove(packets, seq) == [s \in DOMAIN packets \ {seq} |-> packets[s]]

RcvAckData(nextToAck, to) ==
  IF SeqSub(to, nextToAck) > 0 THEN to ELSE nextToAck

(* The keys in the range next_to_read .. next_to_ack, the end excluded,    *)
(* that has_data_to_read and read_buffer look at.                          *)
Readable(packets, nextToRead, nextToAck) ==
  {s \in DOMAIN packets :
     IF nextToRead <= nextToAck
     THEN nextToRead <= s /\ s < nextToAck
     ELSE nextToRead <= s \/ s < nextToAck}
=============================================================================
