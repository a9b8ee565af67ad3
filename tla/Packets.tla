------------------------------ MODULE Packets ------------------------------
(***************************************************************************)
(* Packets on the wire: how packet.rs, data_packet.rs and                  *)
(* control_packet.rs write and read them, and how multiplexer.rs and       *)
(* rcv_queue.rs pass them through a UDP socket.                            *)
(*                                                                         *)
(* A datagram is a sequence of words, u32 in the code.  Lengths count      *)
(* words, and the payload of a data packet is made of words too.  Only     *)
(* packets that the code itself produces are sent: no datagram is          *)
(* malformed.                                                              *)
(***************************************************************************)
EXTENDS LossSet, Sequences

CONSTANTS
  HALF,        \* the values of half a word, 2^16 in the code
  MSS,         \* the longest packet, 1500 bytes in the code
  CHUNKS,      \* datagrams that are received at a time, 100 in the code
  Samples,     \* the data and control packets that are sent
  Gaps,        \* the numbers that a gap lies between
  MaxPackets   \* bound: packets sent

WORD      == HALF * HALF
HIGH_BIT  == WORD \div 2          \* 0x8000_0000
CTRL_BIT  == HALF \div 2          \* 0x8000
MAX_MSG   == WORD \div 8 - 1      \* 0x1fff_ffff
HEADER    == 4                    \* words in either header

Word == 0 .. WORD - 1

(***************************************************************************)
(* Data packets                                                            *)
(***************************************************************************)

Positions == [First |-> 2, Last |-> 1, Only |-> 3, Middle |-> 0]

(* UdtDataPacket::serialize: position, in_order and message number share   *)
(* the second word.                                                        *)
SerializeData(p) ==
  << p.seq_number,
     Positions[p.position] * (WORD \div 4) + (IF p.in_order THEN WORD \div 8 ELSE 0)
       + p.msg_number,
     p.timestamp, p.dest_socket_id >> \o p.data

(* PacketPosition::try_from.                                               *)
PositionOf(bits) == CHOOSE name \in DOMAIN Positions : Positions[name] = bits

(* UdtDataPacket::deserialize.                                             *)
DeserializeData(raw) ==
  [ kind           |-> "data",
    seq_number     |-> raw[1] % HIGH_BIT,
    position       |-> PositionOf(raw[2] \div (WORD \div 4)),
    in_order       |-> (raw[2] \div (WORD \div 8)) % 2 = 1,
    msg_number     |-> raw[2] % (WORD \div 8),
    timestamp      |-> raw[3],
    dest_socket_id |-> raw[4],
    data           |-> SubSeq(raw, HEADER + 1, Len(raw)) ]

(***************************************************************************)
(* The control information field                                           *)
(***************************************************************************)

SocketTypes == [Stream |-> 1, Datagram |-> 2]

(* ip_to_bytes: the rest of an IPv4 address is zero.                       *)
IpToWords(ip) == IF Len(ip) = 1 THEN ip \o <<0, 0, 0>> ELSE ip

(* connection_type is signed, in two's complement.                         *)
FromI32(n) == n % WORD
ToI32(w)   == IF w >= HIGH_BIT THEN w - WORD ELSE w

SerializeHandshake(hs) ==
  << hs.udt_version, SocketTypes[hs.socket_type], hs.initial_seq_number,
     hs.max_packet_size, hs.max_window_size, FromI32(hs.connection_type),
     hs.socket_id, hs.syn_cookie >> \o IpToWords(hs.ip_address)

(* An address whose last three words are zero is taken for IPv4.           *)
DeserializeHandshake(raw) ==
  [ udt_version        |-> raw[1],
    socket_type        |-> CHOOSE t \in DOMAIN SocketTypes : SocketTypes[t] = raw[2],
    initial_seq_number |-> raw[3],
    max_packet_size    |-> raw[4],
    max_window_size    |-> raw[5],
    connection_type    |-> ToI32(raw[6]),
    socket_id          |-> raw[7],
    syn_cookie         |-> raw[8],
    ip_address         |-> IF \A i \in 10 .. 12 : raw[i] = 0
                           THEN <<raw[9]>> ELSE SubSeq(raw, 9, 12) ]

(* A light ACK has only the number, a full one five words more.            *)
SerializeAck(ack) == <<ack.next_seq_number>> \o ack.info

DeserializeAck(raw) ==
  [ next_seq_number |-> raw[1],
    info            |-> IF Len(raw) <= 1 THEN <<>> ELSE SubSeq(raw, 2, 6) ]

SerializeDrop(drop) == <<drop.first_seq_number, drop.last_seq_number>>

DeserializeDrop(raw) == [first_seq_number |-> raw[1], last_seq_number |-> raw[2]]

(***************************************************************************)
(* Control packets                                                         *)
(***************************************************************************)

(* type_as_u15; UserDefined is never sent.                                 *)
TypeIds ==
  [ Handshake |-> 0, KeepAlive |-> 1, Ack |-> 2, Nak |-> 3, Shutdown |-> 5,
    Ack2 |-> 6, MsgDropRequest |-> 7, UserDefined |-> CTRL_BIT - 1 ]

(* control_info_field.                                                     *)
ControlInfoField(p) ==
  CASE p.type = "Handshake"      -> SerializeHandshake(p.info)
    [] p.type = "Ack"            -> SerializeAck(p.info)
    [] p.type = "Nak"            -> p.info
    [] p.type = "MsgDropRequest" -> SerializeDrop(p.info)
    [] OTHER                     -> <<>>

SerializeControl(p) ==
  << (CTRL_BIT + TypeIds[p.type]) * HALF + p.reserved,
     p.additional_info, p.timestamp, p.dest_socket_id >> \o ControlInfoField(p)

(* ControlPacketType::deserialize.                                         *)
InfoOf(type, raw) ==
  CASE type = "Handshake"      -> DeserializeHandshake(raw)
    [] type = "Ack"            -> DeserializeAck(raw)
    [] type = "Nak"            -> raw
    [] type = "MsgDropRequest" -> DeserializeDrop(raw)
    [] OTHER                   -> <<>>

DeserializeControl(raw) ==
  LET id   == (raw[1] \div HALF) % CTRL_BIT
      type == CHOOSE t \in DOMAIN TypeIds : TypeIds[t] = id
  IN  [ kind            |-> "control",
        type            |-> type,
        reserved        |-> raw[1] % HALF,
        additional_info |-> raw[2],
        timestamp       |-> raw[3],
        dest_socket_id  |-> raw[4],
        info            |-> InfoOf(type, SubSeq(raw, HEADER + 1, Len(raw))) ]

(***************************************************************************)
(* Packets                                                                 *)
(***************************************************************************)

Serialize(p) == IF p.kind = "data" THEN SerializeData(p) ELSE SerializeControl(p)

(* UdtPacket::deserialize: the first bit tells data from control.          *)
Deserialize(raw) ==
  IF raw[1] < HIGH_BIT THEN DeserializeData(raw) ELSE DeserializeControl(raw)

(* The NAK of a gap, and what the sender takes for lost when it reads one. *)

(* Mutant of LossInfo: the flag of a range is forgotten.                   *)
LossInfoNoFlag(curr, seq) ==
  IF SeqAdd(curr, 1) = SeqAdd(seq, -1) THEN <<SeqAdd(seq, -1)>>
  ELSE <<SeqAdd(curr, 1), SeqAdd(seq, -1)>>

(* process_data: one number, or the two ends of a range, the first of them *)
(* with the high bit set.                                                  *)
LossInfo(curr, seq) ==
  IF SeqAdd(curr, 1) = SeqAdd(seq, -1) THEN <<SeqAdd(seq, -1)>>
  ELSE <<SeqAdd(curr, 1) + HIGH_BIT, SeqAdd(seq, -1)>>

(* process_ctrl: the numbers that a NAK names.  That a range which ends    *)
(* beyond what was sent breaks the link, and that one which begins before  *)
(* the last ACK is clipped, is modelled in Transfer (ProcessNak).          *)
Losses(info) ==
  LET from[i \in 1 .. Len(info) + 2] ==
        IF i > Len(info) THEN {}
        ELSE IF info[i] < HIGH_BIT THEN {info[i]} \cup from[i + 1]
        ELSE IF i = Len(info) THEN {}
        ELSE CyclicRange(info[i] % HIGH_BIT, info[i + 1]) \cup from[i + 2]
  IN  from[1]

(***************************************************************************)
(* The packets that the code produces                                      *)
(***************************************************************************)

Payload == {d \in Seq(Word) : Len(d) <= MSS - HEADER}

DataPacket ==
  [ kind : {"data"}, seq_number : SeqNumbers, position : DOMAIN Positions,
    in_order : BOOLEAN, msg_number : 0 .. MAX_MSG, timestamp : Word,
    dest_socket_id : Word, data : Payload ]

(* new_ack and the other constructors: reserved and timestamp are zero.    *)
Control(type, infos, additional) ==
  [ kind : {"control"}, type : {type}, reserved : {0}, additional_info : additional,
    timestamp : {0}, dest_socket_id : Word, info : infos ]

(* The address that a handshake is sent to, IPv4 or IPv6: any of them.     *)
Address == {a \in Seq(Word) : Len(a) \in {1, 4}}

HandshakeInfo ==
  [ udt_version : Word, socket_type : DOMAIN SocketTypes,
    initial_seq_number : SeqNumbers, max_packet_size : Word, max_window_size : Word,
    connection_type : -HIGH_BIT .. HIGH_BIT - 1, socket_id : Word, syn_cookie : Word,
    ip_address : Address ]

AckInfo  == [next_seq_number : SeqNumbers, info : {<<>>} \cup [1 .. 5 -> Word]]
DropInfo == [first_seq_number : SeqNumbers, last_seq_number : SeqNumbers]

ControlPacket ==
       Control("Handshake", HandshakeInfo, {0})
  \cup Control("KeepAlive", {<<>>}, {0})
  \cup Control("Shutdown", {<<>>}, {0})
  \cup Control("Ack", AckInfo, SeqNumbers)
  \cup Control("Ack2", {<<>>}, SeqNumbers)
  \cup Control("MsgDropRequest", DropInfo, 0 .. MAX_MSG)

(* new_nak.                                                                *)
NakPacket ==
  Control("Nak", {LossInfo(curr, seq) : curr \in SeqNumbers, seq \in SeqNumbers}, {0})

Nak(curr, seq) ==
  [ kind |-> "control", type |-> "Nak", reserved |-> 0, additional_info |-> 0,
    timestamp |-> 0, dest_socket_id |-> WORD - 1, info |-> LossInfo(curr, seq) ]

ASSUME PacketsAssumption ==
  /\ HALF \in Nat /\ HALF % 4 = 0 /\ HALF > 16
  /\ MAX_NUMBER = HIGH_BIT - 1
  /\ MSS \in Nat /\ MSS >= HEADER + 12          \* a handshake fits
  /\ CHUNKS \in Nat \ {0}
  /\ \A p \in Samples : p \in DataPacket \/ p \in ControlPacket
  /\ Gaps \subseteq SeqNumbers
  /\ MaxPackets \in Nat

(***************************************************************************)
(* The UDP socket and the receive worker                                   *)
(***************************************************************************)

VARIABLES
  channel,      \* datagrams that have arrived and are not read
  buf,          \* the worker's buffer, in chunks; it is never cleared
  received,     \* the packets of the last batch
  (* History *)
  sent,         \* what was sent as each datagram of the channel
  expected,     \* what was sent as each packet of the last batch
  count         \* packets sent so far

vars == <<channel, buf, received, sent, expected, count>>

Init ==
  /\ channel = <<>>
  /\ buf = [i \in 1 .. CHUNKS |-> [w \in 1 .. MSS |-> 0]]
  /\ received = <<>>
  /\ sent = <<>>
  /\ expected = <<>>
  /\ count = 0

(* What is sent: packets, and the numbers they report as lost; n of them   *)
(* get through.                                                            *)
Transmit(ps, lost, n) ==
  /\ count + Len(ps) <= MaxPackets
  /\ count' = count + Len(ps)
  /\ channel' = channel \o [i \in 1 .. n |-> Serialize(ps[i])]
  /\ sent' = sent \o [i \in 1 .. n |-> [packet |-> ps[i], lost |-> lost]]
  /\ UNCHANGED <<buf, received, expected>>

(* send_to.                                                                *)
SendTo(p) == Transmit(<<p>>, {}, 1)

(* send_mmsg_to: when the socket would block the rest of a batch is lost.  *)
SendMmsgTo(ps) == \E n \in 0 .. Len(ps) : Transmit(ps, {}, n)

(* process_data, for a packet after a gap.                                 *)
SendNak(curr, seq) ==
  /\ SeqSub(seq, curr) > 1
  /\ Transmit(<<Nak(curr, seq)>>, CyclicRange(SeqAdd(curr, 1), SeqAdd(seq, -1)), 1)

(* Mutant of Slice: the whole chunk.                                       *)
SliceAll(chunk, n) == chunk

(* The part of a chunk that was just received.                             *)
Slice(chunk, n) == SubSeq(chunk, 1, n)

(* receive_packets and the worker: a batch is read into the chunks, each   *)
(* datagram at the start of one, and read from there.                      *)
ReceivePackets ==
  LET n == IF Len(channel) < CHUNKS THEN Len(channel) ELSE CHUNKS
  IN  /\ n > 0
      /\ buf' = [i \in 1 .. CHUNKS |-> [w \in 1 .. MSS |->
                   IF i <= n /\ w \in DOMAIN channel[i] THEN channel[i][w] ELSE buf[i][w]]]
      /\ received' = [i \in 1 .. n |-> Deserialize(Slice(buf'[i], Len(channel[i])))]
      /\ expected' = SubSeq(sent, 1, n)
      /\ channel' = SubSeq(channel, n + 1, Len(channel))
      /\ sent' = SubSeq(sent, n + 1, Len(sent))
      /\ UNCHANGED count

Send ==
  \/ \E p \in Samples : SendTo(p)
  \/ \E p, q \in {s \in Samples : s.kind = "data"} :
       q.seq_number = SeqAdd(p.seq_number, 1) /\ SendMmsgTo(<<p, q>>)
  \/ \E curr, seq \in Gaps : SendNak(curr, seq)

Next ==
  \/ count < MaxPackets /\ Send
  \/ ReceivePackets

Spec == Init /\ [][Next]_vars

(***************************************************************************)
(* Properties                                                              *)
(***************************************************************************)

(* The one thing that the format cannot tell: an IPv6 address whose last   *)
(* twelve bytes are zero has the words of an IPv4 address.                 *)
PlainAddress(a)    == IF Len(a) = 4 /\ \A i \in 2 .. 4 : a[i] = 0 THEN <<a[1]>> ELSE a
PlainHandshake(hs) == [hs EXCEPT !.ip_address = PlainAddress(@)]

(* What a packet says to whoever reads it: all that it said to whoever     *)
(* wrote it, but for such an address in a handshake.                       *)
AsRead(p) ==
  IF p.kind = "control" /\ p.type = "Handshake"
  THEN [p EXCEPT !.info = PlainHandshake(@)] ELSE p

(* Whatever is left in the buffer of longer packets, whichever packets     *)
(* come before or after: the receiver reads each packet as it was sent     *)
(* (packet.rs; rcv_queue.rs, worker), every field of it, with one          *)
(* exception: control_packet.rs:252 takes an IPv6 address that ends in     *)
(* twelve zero bytes, such as ::, for an IPv4 address.  Nothing in the     *)
(* code looks at that field of a handshake it has read.                    *)
ReadAsSent == \A i \in DOMAIN received : received[i] = AsRead(expected[i].packet)

(* A sender that reads a NAK takes for lost exactly the gap that the       *)
(* receiver saw, one packet or many, at the ends of the number space too   *)
(* (socket.rs, process_data and process_ctrl).                             *)
NakNamesGap ==
  \A i \in DOMAIN received :
    (received[i].kind = "control" /\ received[i].type = "Nak")
      => Losses(received[i].info) = expected[i].lost
=============================================================================
