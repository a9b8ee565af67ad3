--------------------------- MODULE PacketsProofs ---------------------------
(***************************************************************************)
(* Proofs about Packets, for every width of a word, every longest packet,  *)
(* every size of a batch and every set of packets that are sent: each      *)
(* packet is read as it was sent, but for the addresses that the format    *)
(* cannot tell apart, and a NAK names the gap it is about.                 *)
(***************************************************************************)
EXTENDS Packets, SeqNumberProofs, SequenceTheorems, TLAPS

(***************************************************************************)
(* Words and their bit fields                                              *)
(***************************************************************************)

(* A quotient and a remainder are found again in what is made of them.     *)
LEMMA DivMod ==
  ASSUME NEW q \in Nat, NEW b \in Nat, b > 0, NEW r \in 0 .. b - 1
  PROVE  /\ (q * b + r) \div b = q
         /\ (q * b + r) % b = r
<1> DEFINE n == q * b + r
           d == n \div b
           m == n % b
<1>1. n \in Nat /\ d \in Int /\ m \in 0 .. b - 1 /\ n = b * d + m
  OBVIOUS
<1>2. b * (q - d) = m - r
  BY <1>1
<1>3. q - d < 1
  <2>1. SUFFICES ASSUME q - d >= 1 PROVE FALSE
    BY <1>1
  <2>2. b * (q - d) >= b
    BY <1>1, <2>1
  <2> QED BY <1>1, <1>2, <2>2
<1>4. q - d > -1
  <2>1. SUFFICES ASSUME q - d <= -1 PROVE FALSE
    BY <1>1
  <2>2. b * (q - d) <= -b
    BY <1>1, <2>1
  <2> QED BY <1>1, <1>2, <2>2
<1> QED BY <1>1, <1>2, <1>3, <1>4

(* The widths of the fields, from the eighth of a word and from the half   *)
(* of its half.                                                            *)
LEMMA Widths ==
  \E e, c \in Nat :
    /\ e > 8 /\ c > 8
    /\ WORD = 8 * e /\ HIGH_BIT = 4 * e /\ MAX_MSG = e - 1 /\ MAX_NUMBER = 4 * e - 1
    /\ WORD \div 4 = 2 * e /\ WORD \div 8 = e
    /\ CTRL_BIT = c /\ HALF = 2 * c /\ HIGH_BIT = c * HALF
<1>1. PICK k \in Nat : HALF = 4 * k /\ k > 4
  BY PacketsAssumption
<1>2. PICK e \in Nat : e = 2 * (k * k)
  BY <1>1
<1>3. k * k > 4 /\ k * k \in Nat
  BY <1>1
<1>4. WORD = 8 * e
  BY <1>1, <1>2 DEF WORD
<1>5. e > 8
  BY <1>2, <1>3
<1>6. HIGH_BIT = 4 * e /\ WORD \div 4 = 2 * e /\ WORD \div 8 = e /\ MAX_MSG = e - 1
  BY <1>4 DEF HIGH_BIT, MAX_MSG
<1>7. MAX_NUMBER = 4 * e - 1
  BY <1>6, PacketsAssumption
<1>8. CTRL_BIT = 2 * k
  BY <1>1 DEF CTRL_BIT
<1>9. HIGH_BIT = (2 * k) * HALF
  BY <1>1, <1>2, <1>6
<1> WITNESS e \in Nat, 2 * k \in Nat
<1> QED BY <1>1, <1>4, <1>5, <1>6, <1>7, <1>8, <1>9

(***************************************************************************)
(* Headers and what follows them                                           *)
(***************************************************************************)

(* A part of a sequence, word by word.                                     *)
LEMMA PartIs ==
  ASSUME NEW s, NEW m \in Int, NEW n \in Int, NEW t \in Seq(Int),
         Len(t) = n - m + 1,
         \A i \in 1 .. Len(t) : t[i] = s[m + i - 1]
  PROVE  SubSeq(s, m, n) = t
<1>0. Len(t) \in Nat
  BY LenProperties
<1>1. \A i \in m .. n : s[i] \in Int
  <2>1. SUFFICES ASSUME NEW i \in m .. n PROVE s[i] \in Int
    OBVIOUS
  <2>2. PICK j \in 1 .. Len(t) : j = i - m + 1
    BY <1>0
  <2>3. t[j] \in Int
    BY ElementOfSeq
  <2>4. t[j] = s[m + j - 1] /\ m + j - 1 = i
    BY <2>2
  <2> QED BY <2>3, <2>4
<1> DEFINE part == SubSeq(s, m, n)
<1>2. /\ part \in Seq(Int)
      /\ Len(part) = IF m <= n THEN n - m + 1 ELSE 0
      /\ \A i \in 1 .. n - m + 1 : part[i] = s[m + i - 1]
  BY <1>1, SubSeqProperties
<1> HIDE DEF part
<1>3. Len(part) = Len(t)
  BY <1>0, <1>2
<1>4. \A i \in 1 .. Len(t) : part[i] = t[i]
  BY <1>2
<1>5. part = t
  BY <1>2, <1>3, <1>4, SeqEqual
<1> QED BY <1>5 DEF part

(* A header of four words, and the rest.                                   *)
Framed(raw, a, b, c, d, body) ==
  /\ raw \in Seq(Int)
  /\ Len(raw) = HEADER + Len(body)
  /\ raw[1] = a /\ raw[2] = b /\ raw[3] = c /\ raw[4] = d
  /\ SubSeq(raw, HEADER + 1, Len(raw)) = body

(* The header and the rest are found again in a datagram.                  *)
LEMMA Header ==
  ASSUME NEW a \in Int, NEW b \in Int, NEW c \in Int, NEW d \in Int,
         NEW body \in Seq(Int)
  PROVE  Framed(<<a, b, c, d>> \o body, a, b, c, d, body)
<1> DEFINE head == <<a, b, c, d>>
           raw  == head \o body
<1>1. head \in Seq(Int) /\ Len(head) = 4
      /\ head[1] = a /\ head[2] = b /\ head[3] = c /\ head[4] = d
  OBVIOUS
<1> HIDE DEF head
<1>0. /\ raw \in Seq(Int)
      /\ Len(raw) = Len(head) + Len(body)
      /\ \A i \in 1 .. Len(head) + Len(body) :
           raw[i] = IF i <= Len(head) THEN head[i] ELSE body[i - Len(head)]
  BY <1>1, ConcatProperties, Zenon
<1>2. /\ raw \in Seq(Int)
      /\ Len(raw) = 4 + Len(body)
      /\ \A i \in 1 .. 4 + Len(body) : raw[i] = IF i <= 4 THEN head[i] ELSE body[i - 4]
  BY <1>0, <1>1
<1>3. Len(body) \in Nat
  BY LenProperties
<1> HIDE DEF raw
<1>4. raw[1] = a /\ raw[2] = b /\ raw[3] = c /\ raw[4] = d
  BY <1>1, <1>2, <1>3
<1>5. SubSeq(raw, 5, Len(raw)) = body
  <2>1. Len(body) = Len(raw) - 5 + 1
    BY <1>2, <1>3
  <2>2. \A i \in 1 .. Len(body) : body[i] = raw[5 + i - 1]
    <3>1. SUFFICES ASSUME NEW i \in 1 .. Len(body) PROVE body[i] = raw[5 + i - 1]
      OBVIOUS
    <3>2. PICK j \in 1 .. 4 + Len(body) : j = 5 + i - 1 /\ j > 4 /\ j - 4 = i
      BY <1>3
    <3> QED BY <1>2, <3>2
  <2>3. Len(raw) \in Int
    BY <1>2, <1>3
  <2> QED BY <2>1, <2>2, <2>3, PartIs
<1> QED BY <1>2, <1>4, <1>5 DEF raw, head, HEADER, Framed

(***************************************************************************)
(* Data packets                                                            *)
(***************************************************************************)

(* What is written of a packet is a datagram that fits in a chunk, and     *)
(* reading it gives the packet back, with its address as it is read.       *)
ReadsBack(p) ==
  /\ Serialize(p) \in Seq(Int)
  /\ Len(Serialize(p)) <= MSS
  /\ Deserialize(Serialize(p)) = AsRead(p)

(* The two bits of a position tell which one it is.                        *)
LEMMA PositionFound ==
  ASSUME NEW name \in DOMAIN Positions
  PROVE  /\ Positions[name] \in 0 .. 3
         /\ PositionOf(Positions[name]) = name
<1>1. DOMAIN Positions = {"First", "Last", "Only", "Middle"}
  BY DEF Positions
<1>2. /\ Positions["First"] = 2 /\ Positions["Last"] = 1
      /\ Positions["Only"] = 3 /\ Positions["Middle"] = 0
  BY DEF Positions
<1>3. \A other \in DOMAIN Positions : Positions[other] = Positions[name] => other = name
  BY <1>1, <1>2
<1>4. PositionOf(Positions[name]) \in DOMAIN Positions
      /\ Positions[PositionOf(Positions[name])] = Positions[name]
  BY DEF PositionOf
<1> QED BY <1>1, <1>2, <1>3, <1>4

(* The second word of a data packet holds three fields.                    *)
LEMMA SecondWord ==
  ASSUME NEW position \in 0 .. 3, NEW order \in 0 .. 1, NEW msg \in 0 .. MAX_MSG
  PROVE  LET w == position * (WORD \div 4) + order * (WORD \div 8) + msg
         IN  /\ w \in Int
             /\ w \div (WORD \div 4) = position
             /\ (w \div (WORD \div 8)) % 2 = order
             /\ w % (WORD \div 8) = msg
<1>1. PICK e \in Nat : e > 8 /\ MAX_MSG = e - 1 /\ WORD \div 4 = 2 * e /\ WORD \div 8 = e
  BY Widths
<1> DEFINE w == position * (2 * e) + order * e + msg
<1>2. PICK r \in 0 .. 2 * e - 1 : r = order * e + msg
  BY <1>1
<1>3. w = position * (2 * e) + r
  BY <1>2
<1>4. w \div (2 * e) = position
  <2>1. position \in Nat /\ 2 * e \in Nat /\ 2 * e > 0
    BY <1>1
  <2> QED BY <1>3, <2>1, DivMod
<1>5. PICK q \in Nat : q = position * 2 + order
  OBVIOUS
<1>6. w = q * e + msg
  <2>1. q * e = position * (2 * e) + order * e
    BY <1>5
  <2> QED BY <2>1
<1>7. w \div e = q /\ w % e = msg
  <2>1. e > 0 /\ msg \in 0 .. e - 1
    BY <1>1
  <2> QED BY <1>6, <2>1, DivMod
<1>8. q % 2 = order
  BY <1>5
<1>9. w \in Int
  OBVIOUS
<1> QED BY <1>1, <1>4, <1>7, <1>8, <1>9

(* A data packet reads back.                                               *)
LEMMA DataReadsBack ==
  ASSUME NEW p \in DataPacket
  PROVE  ReadsBack(p)
<1>1. /\ p.kind = "data" /\ p.seq_number \in SeqNumbers /\ p.position \in DOMAIN Positions
      /\ p.in_order \in BOOLEAN /\ p.msg_number \in 0 .. MAX_MSG
      /\ p.timestamp \in Word /\ p.dest_socket_id \in Word /\ p.data \in Payload
  BY DEF DataPacket
<1> DEFINE order == IF p.in_order THEN 1 ELSE 0
           w == Positions[p.position] * (WORD \div 4) + order * (WORD \div 8) + p.msg_number
           raw == <<p.seq_number, w, p.timestamp, p.dest_socket_id>> \o p.data
<1>2. PICK e \in Nat : /\ e > 8 /\ WORD = 8 * e /\ HIGH_BIT = 4 * e
                       /\ MAX_NUMBER = 4 * e - 1 /\ WORD \div 8 = e
  BY Widths
<1>3. p.timestamp \in Int /\ p.dest_socket_id \in Int /\ p.seq_number \in 0 .. 4 * e - 1
      /\ p.seq_number \in Int
  BY <1>1, <1>2 DEF Word, SeqNumbers
<1>4. p.data \in Seq(Int) /\ Len(p.data) <= MSS - 4
  <2>1. p.data \in Seq(Word) /\ Len(p.data) <= MSS - 4
    BY <1>1 DEF Payload, HEADER
  <2>2. \A i \in 1 .. Len(p.data) : p.data[i] \in Int
    BY <2>1, <1>2, ElementOfSeq DEF Word
  <2> QED BY <2>1, <2>2
<1>5. order \in 0 .. 1 /\ (order = 1 <=> p.in_order)
  BY <1>1
<1>6. /\ w \in Int
      /\ w \div (WORD \div 4) = Positions[p.position]
      /\ (w \div (WORD \div 8)) % 2 = order
      /\ w % (WORD \div 8) = p.msg_number
  <2>1. Positions[p.position] \in 0 .. 3
    BY <1>1, PositionFound
  <2> HIDE DEF order
  <2> QED BY <1>1, <1>5, <2>1, SecondWord
<1>7. (IF p.in_order THEN WORD \div 8 ELSE 0) = order * (WORD \div 8)
  BY <1>1, <1>2
<1>8. Serialize(p) = raw
  BY <1>1, <1>7 DEF Serialize, SerializeData
<1> HIDE DEF w, order
<1>9. /\ raw \in Seq(Int)
      /\ Len(raw) = HEADER + Len(p.data)
      /\ raw[1] = p.seq_number /\ raw[2] = w
      /\ raw[3] = p.timestamp /\ raw[4] = p.dest_socket_id
      /\ SubSeq(raw, HEADER + 1, Len(raw)) = p.data
  <2>1. Framed(raw, p.seq_number, w, p.timestamp, p.dest_socket_id, p.data)
    BY <1>3, <1>4, <1>6, Header, Zenon
  <2> HIDE DEF raw
  <2> QED BY <2>1 DEF Framed
<1> HIDE DEF raw
<1>10. Len(raw) <= MSS
  BY <1>4, <1>9, LenProperties, PacketsAssumption DEF HEADER
<1>11. raw[1] < HIGH_BIT /\ raw[1] % HIGH_BIT = p.seq_number
  <2>1. PICK n \in 0 .. 4 * e - 1 : n = p.seq_number
    BY <1>3
  <2>2. n < 4 * e /\ n % (4 * e) = n
    BY <1>2, ModSmall
  <2> QED BY <1>2, <1>9, <2>1, <2>2
<1>12. Deserialize(raw) = DeserializeData(raw)
  BY <1>11 DEF Deserialize
<1>13. PositionOf(raw[2] \div (WORD \div 4)) = p.position
  BY <1>1, <1>6, <1>9, PositionFound
<1>14. ((raw[2] \div (WORD \div 8)) % 2 = 1) = p.in_order
  BY <1>1, <1>5, <1>6, <1>9
<1>15. raw[2] % (WORD \div 8) = p.msg_number
  BY <1>6, <1>9
<1>16. DeserializeData(raw) =
         [ kind |-> p.kind, seq_number |-> p.seq_number, position |-> p.position,
           in_order |-> p.in_order, msg_number |-> p.msg_number,
           timestamp |-> p.timestamp, dest_socket_id |-> p.dest_socket_id,
           data |-> p.data ]
  BY <1>1, <1>9, <1>11, <1>13, <1>14, <1>15 DEF DeserializeData
<1>17. DeserializeData(raw) = p
  BY <1>16 DEF DataPacket
<1>18. AsRead(p) = p
  BY <1>1 DEF AsRead
<1> QED BY <1>8, <1>9, <1>10, <1>12, <1>17, <1>18 DEF ReadsBack

(***************************************************************************)
(* Control information                                                     *)
(***************************************************************************)

(* A signed number is found again in its two's complement.                 *)
LEMMA SignedReadsBack ==
  ASSUME NEW n \in -HIGH_BIT .. HIGH_BIT - 1
  PROVE  FromI32(n) \in Int /\ ToI32(FromI32(n)) = n
<1>1. PICK e \in Nat : e > 8 /\ WORD = 8 * e /\ HIGH_BIT = 4 * e
  BY Widths
<1>2. CASE n >= 0
  <2>1. n % (8 * e) = n
    BY <1>1, <1>2, ModSmall
  <2> QED BY <1>1, <1>2, <2>1 DEF FromI32, ToI32
<1>3. CASE n < 0
  <2>1. n % (8 * e) = n + 8 * e
    <3>1. PICK m \in Nat : m = 8 * e
      BY <1>1
    <3>2. n >= -m
      BY <1>1, <3>1
    <3> QED BY <1>3, <3>1, <3>2
  <2> QED BY <1>1, <1>3, <2>1 DEF FromI32, ToI32
<1> QED BY <1>2, <1>3, <1>1

(* An address takes four words, and the last three tell which kind it is.  *)
LEMMA AddressReadsBack ==
  ASSUME NEW a \in Address
  PROVE  /\ IpToWords(a) \in Seq(Int)
         /\ Len(IpToWords(a)) = 4
         /\ IF \A i \in 2 .. 4 : IpToWords(a)[i] = 0
            THEN PlainAddress(a) = <<IpToWords(a)[1]>>
            ELSE PlainAddress(a) = IpToWords(a)
<1>1. Word \subseteq Int
  BY Widths DEF Word
<1>2. a \in Seq(Int)
  <2>1. a \in Seq(Word)
    BY DEF Address
  <2> QED BY <1>1, <2>1, SeqMonotonic
<1>3. CASE Len(a) = 1
  <2>1. a = <<a[1]>> /\ a[1] \in Int
    BY <1>2, <1>3
  <2>2. PICK x \in Int : a = <<x>>
    BY <2>1
  <2> DEFINE z == <<0, 0, 0>>
             w == a \o z
  <2>3. z \in Seq(Int) /\ Len(z) = 3 /\ z[1] = 0 /\ z[2] = 0 /\ z[3] = 0
    OBVIOUS
  <2> HIDE DEF z
  <2>a. /\ w \in Seq(Int)
        /\ Len(w) = Len(a) + Len(z)
        /\ \A i \in 1 .. Len(a) + Len(z) :
             w[i] = IF i <= Len(a) THEN a[i] ELSE z[i - Len(a)]
    BY <1>2, <2>3, ConcatProperties, Zenon
  <2> HIDE DEF w
  <2>4. w \in Seq(Int) /\ Len(w) = 4 /\ w[1] = x /\ w[2] = 0 /\ w[3] = 0 /\ w[4] = 0
    BY <1>3, <2>2, <2>3, <2>a
  <2>5. \A i \in 2 .. 4 : w[i] = 0
    BY <2>4
  <2>6. a = <<w[1]>>
    BY <2>2, <2>4
  <2>7. IpToWords(a) = w
    BY <1>3 DEF IpToWords, w, z
  <2>8. PlainAddress(a) = a
    BY <1>3 DEF PlainAddress
  <2> QED BY <2>4, <2>5, <2>6, <2>7, <2>8
<1>4. CASE Len(a) = 4
  <2>1. IpToWords(a) = a
    BY <1>4 DEF IpToWords
  <2>2. CASE \A i \in 2 .. 4 : a[i] = 0
    BY <1>2, <1>4, <2>1, <2>2 DEF PlainAddress
  <2>3. CASE ~ \A i \in 2 .. 4 : a[i] = 0
    BY <1>2, <1>4, <2>1, <2>3 DEF PlainAddress
  <2> QED BY <2>2, <2>3
<1> QED BY <1>3, <1>4 DEF Address

(* A handshake reads back, with its address as it is read.                 *)
LEMMA HandshakeReadsBack ==
  ASSUME NEW hs \in HandshakeInfo
  PROVE  /\ SerializeHandshake(hs) \in Seq(Int)
         /\ Len(SerializeHandshake(hs)) = 12
         /\ DeserializeHandshake(SerializeHandshake(hs)) = PlainHandshake(hs)
<1>1. /\ hs.udt_version \in Word /\ hs.socket_type \in DOMAIN SocketTypes
      /\ hs.initial_seq_number \in SeqNumbers /\ hs.max_packet_size \in Word
      /\ hs.max_window_size \in Word
      /\ hs.connection_type \in -HIGH_BIT .. HIGH_BIT - 1
      /\ hs.socket_id \in Word /\ hs.syn_cookie \in Word /\ hs.ip_address \in Address
  BY DEF HandshakeInfo
<1>2. Word \subseteq Int /\ SeqNumbers \subseteq Int
  BY Widths DEF Word, SeqNumbers
<1>3. /\ SocketTypes[hs.socket_type] \in Int
      /\ (CHOOSE t \in DOMAIN SocketTypes : SocketTypes[t] = SocketTypes[hs.socket_type])
           = hs.socket_type
  <2>1. DOMAIN SocketTypes = {"Stream", "Datagram"}
    BY DEF SocketTypes
  <2>2. SocketTypes["Stream"] = 1 /\ SocketTypes["Datagram"] = 2
    BY DEF SocketTypes
  <2> QED BY <1>1, <2>1, <2>2
<1> DEFINE type == SocketTypes[hs.socket_type]
           conn == FromI32(hs.connection_type)
           fixed == << hs.udt_version, type, hs.initial_seq_number,
                       hs.max_packet_size, hs.max_window_size, conn,
                       hs.socket_id, hs.syn_cookie >>
           ip == IpToWords(hs.ip_address)
           plain == PlainAddress(hs.ip_address)
           raw == fixed \o ip
<1>4. conn \in Int /\ ToI32(conn) = hs.connection_type
  BY <1>1, SignedReadsBack
<1>5. /\ ip \in Seq(Int) /\ Len(ip) = 4
      /\ IF \A i \in 2 .. 4 : ip[i] = 0 THEN plain = <<ip[1]>> ELSE plain = ip
  BY <1>1, AddressReadsBack
<1> HIDE DEF type, conn, ip, plain
<1>6. /\ fixed \in Seq(Int) /\ Len(fixed) = 8
      /\ fixed[1] = hs.udt_version /\ fixed[2] = type
      /\ fixed[3] = hs.initial_seq_number /\ fixed[4] = hs.max_packet_size
      /\ fixed[5] = hs.max_window_size /\ fixed[6] = conn
      /\ fixed[7] = hs.socket_id /\ fixed[8] = hs.syn_cookie
  <2>1. type \in Int
    BY <1>3 DEF type
  <2>2. /\ hs.udt_version \in Int /\ hs.initial_seq_number \in Int
        /\ hs.max_packet_size \in Int /\ hs.max_window_size \in Int
        /\ hs.socket_id \in Int /\ hs.syn_cookie \in Int
    BY <1>1, <1>2
  <2> QED BY <1>4, <2>1, <2>2
<1> HIDE DEF fixed
<1>7. /\ raw \in Seq(Int)
      /\ Len(raw) = Len(fixed) + Len(ip)
      /\ \A i \in 1 .. Len(fixed) + Len(ip) :
           raw[i] = IF i <= Len(fixed) THEN fixed[i] ELSE ip[i - Len(fixed)]
  BY <1>5, <1>6, ConcatProperties, Zenon
<1> HIDE DEF raw
<1>8. /\ Len(raw) = 12
      /\ raw[9] = ip[1] /\ raw[10] = ip[2] /\ raw[11] = ip[3] /\ raw[12] = ip[4]
  BY <1>5, <1>6, <1>7
<1>9. /\ raw[1] = hs.udt_version /\ raw[2] = type
      /\ raw[3] = hs.initial_seq_number /\ raw[4] = hs.max_packet_size
      /\ raw[5] = hs.max_window_size /\ raw[6] = conn
      /\ raw[7] = hs.socket_id /\ raw[8] = hs.syn_cookie
  BY <1>5, <1>6, <1>7
<1>10. (IF \A i \in 10 .. 12 : raw[i] = 0 THEN <<raw[9]>> ELSE SubSeq(raw, 9, 12))
         = plain
  <2>1. (\A i \in 10 .. 12 : raw[i] = 0) <=> (\A i \in 2 .. 4 : ip[i] = 0)
    BY <1>8
  <2>2. SubSeq(raw, 9, 12) = ip
    <3>1. Len(ip) = 12 - 9 + 1
      BY <1>5
    <3>2. \A i \in 1 .. Len(ip) : ip[i] = raw[9 + i - 1]
      BY <1>5, <1>8
    <3> QED BY <1>5, <3>1, <3>2, PartIs
  <2> QED BY <1>5, <1>8, <2>1, <2>2
<1>11. DeserializeHandshake(raw) =
         [ udt_version |-> hs.udt_version, socket_type |-> hs.socket_type,
           initial_seq_number |-> hs.initial_seq_number,
           max_packet_size |-> hs.max_packet_size,
           max_window_size |-> hs.max_window_size,
           connection_type |-> hs.connection_type, socket_id |-> hs.socket_id,
           syn_cookie |-> hs.syn_cookie, ip_address |-> plain ]
  BY <1>3, <1>4, <1>9, <1>10 DEF DeserializeHandshake, type
<1>12. DeserializeHandshake(raw) = PlainHandshake(hs)
  BY <1>11 DEF HandshakeInfo, PlainHandshake, plain
<1>13. SerializeHandshake(hs) = raw
  BY DEF SerializeHandshake, raw, fixed, ip, conn, type
<1> QED BY <1>7, <1>8, <1>12, <1>13

(* An acknowledgement reads back, light or full.                           *)
LEMMA AckReadsBack ==
  ASSUME NEW ack \in AckInfo
  PROVE  /\ SerializeAck(ack) \in Seq(Int)
         /\ Len(SerializeAck(ack)) <= 12
         /\ DeserializeAck(SerializeAck(ack)) = ack
<1>1. Word \subseteq Int /\ SeqNumbers \subseteq Int
  BY Widths DEF Word, SeqNumbers
<1>2. PICK n \in Int : n = ack.next_seq_number
  BY <1>1 DEF AckInfo
<1>3. ack = [next_seq_number |-> n, info |-> ack.info]
  BY <1>2 DEF AckInfo
<1>4. CASE ack.info = <<>>
  <2>1. SerializeAck(ack) = <<n>>
    BY <1>2, <1>4 DEF SerializeAck
  <2>2. DeserializeAck(<<n>>) = [next_seq_number |-> n, info |-> <<>>]
    BY DEF DeserializeAck
  <2> QED BY <1>2, <1>3, <1>4, <2>1, <2>2
<1>5. CASE ack.info \in [1 .. 5 -> Word]
  <2>1. ack.info \in Seq(Int) /\ Len(ack.info) = 5
    <3>1. ack.info \in [1 .. 5 -> Int]
      BY <1>1, <1>5
    <3>2. ack.info \in Seq(Int)
      BY <3>1, SeqDef
    <3>3. DOMAIN ack.info = 1 .. 5
      BY <3>1
    <3>4. Len(ack.info) \in Nat /\ 1 .. Len(ack.info) = 1 .. 5
      BY <3>2, <3>3, LenProperties
    <3>5. Len(ack.info) = 5
      <4>1. \A l \in Nat : 1 .. l = 1 .. 5 => l = 5
        OBVIOUS
      <4> QED BY <3>4, <4>1
    <3> QED BY <3>2, <3>5
  <2>2. PICK info \in Seq(Int) : info = ack.info /\ Len(info) = 5
    BY <2>1
  <2> DEFINE raw == <<n>> \o info
  <2>3. <<n>> \in Seq(Int) /\ Len(<<n>>) = 1
    OBVIOUS
  <2>4. /\ raw \in Seq(Int)
        /\ Len(raw) = Len(<<n>>) + Len(info)
        /\ \A i \in 1 .. Len(<<n>>) + Len(info) :
             raw[i] = IF i <= Len(<<n>>) THEN <<n>>[i] ELSE info[i - Len(<<n>>)]
    BY <2>3, ConcatProperties, Zenon
  <2> HIDE DEF raw
  <2>5. Len(raw) = 6 /\ raw[1] = n /\ \A i \in 2 .. 6 : raw[i] = info[i - 1]
    BY <2>2, <2>3, <2>4
  <2>6. SubSeq(raw, 2, 6) = info
    <3>1. Len(info) = 6 - 2 + 1
      BY <2>2
    <3>2. \A i \in 1 .. Len(info) : info[i] = raw[2 + i - 1]
      <4>1. SUFFICES ASSUME NEW i \in 1 .. 5 PROVE info[i] = raw[2 + i - 1]
        BY <2>2
      <4>2. i + 1 \in 2 .. 6 /\ 2 + i - 1 = i + 1 /\ (i + 1) - 1 = i
        OBVIOUS
      <4> QED BY <2>5, <4>2
    <3> QED BY <3>1, <3>2, PartIs
  <2>7. DeserializeAck(raw) = [next_seq_number |-> n, info |-> info]
    <3>1. Len(raw) = 6 /\ raw[1] = n
      BY <2>5, Zenon
    <3>2. ~(Len(raw) <= 1)
      BY <3>1
    <3> QED BY <2>6, <3>1, <3>2, Zenon DEF DeserializeAck
  <2>8. SerializeAck(ack) = raw
    BY <1>2, <2>2 DEF SerializeAck, raw
  <2>9. DeserializeAck(raw) = ack
    BY <1>3, <2>2, <2>7
  <2>10. raw \in Seq(Int) /\ Len(raw) <= 12
    <3>1. Len(raw) = 6
      BY <2>5, Zenon
    <3>2. raw \in Seq(Int)
      BY <2>4, Zenon
    <3> QED BY <3>1, <3>2
  <2> QED BY <2>8, <2>9, <2>10, Zenon
<1> QED BY <1>4, <1>5 DEF AckInfo

(* A request to drop a message reads back.                                 *)
LEMMA DropReadsBack ==
  ASSUME NEW drop \in DropInfo
  PROVE  /\ SerializeDrop(drop) \in Seq(Int)
         /\ Len(SerializeDrop(drop)) = 2
         /\ DeserializeDrop(SerializeDrop(drop)) = drop
<1>1. SeqNumbers \subseteq Int
  BY Widths DEF SeqNumbers
<1>2. /\ drop.first_seq_number \in Int /\ drop.last_seq_number \in Int
      /\ drop = [first_seq_number |-> drop.first_seq_number,
                 last_seq_number |-> drop.last_seq_number]
  BY <1>1 DEF DropInfo
<1> QED BY <1>2 DEF SerializeDrop, DeserializeDrop

(***************************************************************************)
(* Control packets                                                         *)
(***************************************************************************)

(* The fifteen bits of a type tell which one it is.                        *)
LEMMA TypeFound ==
  ASSUME NEW type \in DOMAIN TypeIds
  PROVE  /\ TypeIds[type] \in 0 .. CTRL_BIT - 1
         /\ (CHOOSE t \in DOMAIN TypeIds : TypeIds[t] = TypeIds[type]) = type
<1>1. PICK c \in Nat : c > 8 /\ CTRL_BIT = c
  BY Widths
<1>2. DOMAIN TypeIds = {"Handshake", "KeepAlive", "Ack", "Nak", "Shutdown", "Ack2",
                        "MsgDropRequest", "UserDefined"}
  BY DEF TypeIds
<1>3. /\ TypeIds["Handshake"] = 0 /\ TypeIds["KeepAlive"] = 1 /\ TypeIds["Ack"] = 2
      /\ TypeIds["Nak"] = 3 /\ TypeIds["Shutdown"] = 5 /\ TypeIds["Ack2"] = 6
      /\ TypeIds["MsgDropRequest"] = 7 /\ TypeIds["UserDefined"] = c - 1
  BY <1>1 DEF TypeIds
<1>4. TypeIds[type] \in 0 .. c - 1
  BY <1>1, <1>2, <1>3
<1>5. \A t \in DOMAIN TypeIds : TypeIds[t] = TypeIds[type] => t = type
  BY <1>1, <1>2, <1>3
<1> QED BY <1>1, <1>4, <1>5

(* The first word of a control packet: the first bit, and the type.        *)
LEMMA FirstWord ==
  ASSUME NEW id \in 0 .. CTRL_BIT - 1
  PROVE  LET w == (CTRL_BIT + id) * HALF + 0
         IN  /\ w \in Int
             /\ ~(w < HIGH_BIT)
             /\ (w \div HALF) % CTRL_BIT = id
             /\ w % HALF = 0
<1>1. PICK c \in Nat : c > 8 /\ CTRL_BIT = c /\ HALF = 2 * c /\ HIGH_BIT = c * HALF
  BY Widths
<1>2. PICK q \in Nat : q = c + id
  BY <1>1
<1>3. PICK b \in Nat : b = HALF /\ b > 0
  BY <1>1
<1>4. 0 \in 0 .. b - 1 /\ id \in 0 .. c - 1 /\ id \in Nat
  BY <1>1, <1>3
<1>5. (q * b + 0) \div b = q /\ (q * b + 0) % b = 0
  BY <1>3, <1>4, DivMod
<1>6. q % c = id
  <2>1. q = 1 * c + id
    BY <1>1, <1>2, <1>4
  <2>2. 1 \in Nat /\ c > 0
    BY <1>1
  <2> QED BY <1>4, <2>1, <2>2, DivMod
<1>7. q * b = c * b + id * b /\ id * b >= 0
  BY <1>1, <1>2, <1>3, <1>4
<1>8. q * b + 0 \in Int /\ ~(q * b + 0 < c * b)
  BY <1>1, <1>2, <1>3, <1>4, <1>7
<1> QED BY <1>1, <1>2, <1>3, <1>5, <1>6, <1>8

(* A control packet reads back if its control information does.            *)
LEMMA ControlReadsBack ==
  ASSUME NEW type \in DOMAIN TypeIds, NEW infos, NEW additional, additional \subseteq Int,
         NEW p \in Control(type, infos, additional), NEW field \in Seq(Int),
         ControlInfoField(p) = field, Len(field) <= 12,
         InfoOf(type, field) = AsRead(p).info
  PROVE  ReadsBack(p)
<1>1. /\ p.kind = "control" /\ p.type = type /\ p.reserved = 0
      /\ p.additional_info \in Int /\ p.timestamp = 0 /\ p.dest_socket_id \in Int
  <2>1. Word \subseteq Int
    BY Widths DEF Word
  <2> QED BY <2>1 DEF Control
<1> DEFINE id  == TypeIds[type]
           w   == (CTRL_BIT + id) * HALF + 0
           raw == <<w, p.additional_info, 0, p.dest_socket_id>> \o field
<1>2. id \in 0 .. CTRL_BIT - 1
      /\ (CHOOSE t \in DOMAIN TypeIds : TypeIds[t] = id) = type
  BY TypeFound
<1> HIDE DEF id
<1>3. w \in Int /\ ~(w < HIGH_BIT) /\ (w \div HALF) % CTRL_BIT = id /\ w % HALF = 0
  BY <1>2, FirstWord
<1>4. Serialize(p) = raw
  BY <1>1 DEF Serialize, SerializeControl, id
<1> HIDE DEF w
<1>5. /\ raw \in Seq(Int)
      /\ Len(raw) = HEADER + Len(field)
      /\ raw[1] = w /\ raw[2] = p.additional_info /\ raw[3] = 0
      /\ raw[4] = p.dest_socket_id
      /\ SubSeq(raw, HEADER + 1, Len(raw)) = field
  <2>1. 0 \in Int
    OBVIOUS
  <2>2. Framed(raw, w, p.additional_info, 0, p.dest_socket_id, field)
    BY <1>1, <1>3, <2>1, Header, Zenon
  <2> HIDE DEF raw
  <2> QED BY <2>2 DEF Framed
<1> HIDE DEF raw
<1>6. Len(raw) <= MSS
  BY <1>5, LenProperties, PacketsAssumption DEF HEADER
<1>7. Deserialize(raw) = DeserializeControl(raw)
  BY <1>3, <1>5 DEF Deserialize
<1>8. DeserializeControl(raw) =
        [ kind |-> p.kind, type |-> p.type, reserved |-> p.reserved,
          additional_info |-> p.additional_info, timestamp |-> p.timestamp,
          dest_socket_id |-> p.dest_socket_id, info |-> AsRead(p).info ]
  BY <1>1, <1>2, <1>3, <1>5 DEF DeserializeControl
<1>9. DeserializeControl(raw) = AsRead(p)
  BY <1>8 DEF Control, AsRead
<1> QED BY <1>4, <1>5, <1>6, <1>7, <1>9 DEF ReadsBack

(* Every packet that the constructors make reads back.                     *)
LEMMA PacketReadsBack ==
  ASSUME NEW p \in DataPacket \cup ControlPacket
  PROVE  ReadsBack(p)
<1>1. {0} \subseteq Int /\ SeqNumbers \subseteq Int /\ 0 .. MAX_MSG \subseteq Int
  BY Widths DEF SeqNumbers
<1>2. \A type \in {"Handshake", "KeepAlive", "Ack", "Shutdown", "Ack2", "MsgDropRequest"} :
        type \in DOMAIN TypeIds
  BY DEF TypeIds
<1>3. ASSUME NEW type \in {"KeepAlive", "Shutdown", "Ack2"}, NEW additional,
             additional \subseteq Int, p \in Control(type, {<<>>}, additional)
      PROVE  ReadsBack(p)
  <2>1. p.type = type /\ p.info = <<>>
    BY <1>3 DEF Control
  <2>2. ControlInfoField(p) = <<>> /\ InfoOf(type, <<>>) = AsRead(p).info
    BY <2>1 DEF ControlInfoField, InfoOf, AsRead
  <2>3. <<>> \in Seq(Int) /\ Len(<<>>) <= 12
    OBVIOUS
  <2> QED BY <1>2, <1>3, <2>2, <2>3, ControlReadsBack
<1>4. CASE p \in Control("Handshake", HandshakeInfo, {0})
  <2>1. p.kind = "control" /\ p.type = "Handshake" /\ p.info \in HandshakeInfo
    BY <1>4 DEF Control
  <2>2. PICK field \in Seq(Int) :
          /\ field = SerializeHandshake(p.info) /\ Len(field) = 12
          /\ DeserializeHandshake(field) = PlainHandshake(p.info)
    BY <2>1, HandshakeReadsBack
  <2>3. ControlInfoField(p) = field /\ InfoOf("Handshake", field) = AsRead(p).info
    <3>1. AsRead(p).info = PlainHandshake(p.info)
      BY <1>4, <2>1 DEF AsRead, Control
    <3> QED BY <2>1, <2>2, <3>1 DEF ControlInfoField, InfoOf
  <2>4. Len(field) <= 12
    BY <2>2
  <2> QED BY <1>1, <1>2, <1>4, <2>3, <2>4, ControlReadsBack
<1>5. CASE p \in Control("Ack", AckInfo, SeqNumbers)
  <2>1. p.type = "Ack" /\ p.info \in AckInfo
    BY <1>5 DEF Control
  <2>2. PICK field \in Seq(Int) :
          /\ field = SerializeAck(p.info) /\ Len(field) <= 12
          /\ DeserializeAck(field) = p.info
    BY <2>1, AckReadsBack
  <2>3. ControlInfoField(p) = field /\ InfoOf("Ack", field) = AsRead(p).info
    BY <2>1, <2>2 DEF ControlInfoField, InfoOf, AsRead
  <2> QED BY <1>1, <1>2, <1>5, <2>2, <2>3, ControlReadsBack
<1>6. CASE p \in Control("MsgDropRequest", DropInfo, 0 .. MAX_MSG)
  <2>1. p.type = "MsgDropRequest" /\ p.info \in DropInfo
    BY <1>6 DEF Control
  <2>2. PICK field \in Seq(Int) :
          /\ field = SerializeDrop(p.info) /\ Len(field) = 2
          /\ DeserializeDrop(field) = p.info
    BY <2>1, DropReadsBack
  <2>3. ControlInfoField(p) = field /\ InfoOf("MsgDropRequest", field) = AsRead(p).info
    BY <2>1, <2>2 DEF ControlInfoField, InfoOf, AsRead
  <2>4. Len(field) <= 12
    BY <2>2
  <2> QED BY <1>1, <1>2, <1>6, <2>3, <2>4, ControlReadsBack
<1>7. CASE p \in DataPacket
  BY <1>7, DataReadsBack
<1> QED BY <1>1, <1>3, <1>4, <1>5, <1>6, <1>7 DEF ControlPacket

(***************************************************************************)
(* Loss reports                                                            *)
(***************************************************************************)

(* The loop over the words of a NAK: f[i] is what is named from the i-th   *)
(* word on.                                                                *)
LossLoop(info, f) ==
  f = [i \in 1 .. Len(info) + 2 |->
         IF i > Len(info) THEN {}
         ELSE IF info[i] < HIGH_BIT THEN {info[i]} \cup f[i + 1]
         ELSE IF i = Len(info) THEN {}
         ELSE CyclicRange(info[i] % HIGH_BIT, info[i + 1]) \cup f[i + 2]]

(* Losses is what the loop names from the first word on.                   *)
LEMMA LossesIsLoop ==
  ASSUME NEW info
  PROVE  Losses(info) = (CHOOSE f : LossLoop(info, f))[1]
BY DEF Losses, LossLoop

(* A word without the flag names itself.                                   *)
LEMMA LossesOfOne ==
  ASSUME NEW x \in 0 .. HIGH_BIT - 1, HIGH_BIT \in Nat
  PROVE  Losses(<<x>>) = {x}
<1> DEFINE info == <<x>>
           g == [i \in 1 .. 3 |-> IF i > 1 THEN {} ELSE {x}]
<1>1. Len(info) = 1 /\ info[1] = x
  OBVIOUS
<1> HIDE DEF info
<1>2. LossLoop(info, g)
  BY <1>1 DEF LossLoop
<1>3. PICK f : f = (CHOOSE h : LossLoop(info, h)) /\ LossLoop(info, f)
  BY <1>2, Zenon
<1>4. f[2] = {}
  BY <1>1, <1>3 DEF LossLoop
<1>5. f[1] = {x} \cup f[2]
  BY <1>1, <1>3 DEF LossLoop
<1>6. Losses(info) = {x}
  BY <1>3, <1>4, <1>5, LossesIsLoop
<1> QED BY <1>6 DEF info

(* A word with the flag and the word after it name a range.                *)
LEMMA LossesOfRange ==
  ASSUME NEW a \in 0 .. HIGH_BIT - 1, NEW b \in 0 .. HIGH_BIT - 1, HIGH_BIT \in Nat
  PROVE  Losses(<<a + HIGH_BIT, b>>) = CyclicRange(a, b)
<1> DEFINE info == <<a + HIGH_BIT, b>>
           g == [i \in 1 .. 4 |-> IF i > 2 THEN {} ELSE IF i = 2 THEN {b}
                                  ELSE CyclicRange(a, b)]
<1>1. Len(info) = 2 /\ info[1] = a + HIGH_BIT /\ info[2] = b
  OBVIOUS
<1>2. (a + HIGH_BIT) % HIGH_BIT = a
  <2>1. a + HIGH_BIT = 1 * HIGH_BIT + a /\ 1 \in Nat /\ HIGH_BIT > 0
    OBVIOUS
  <2> QED BY <2>1, DivMod
<1>3. ~(a + HIGH_BIT < HIGH_BIT) /\ b < HIGH_BIT
  OBVIOUS
<1> HIDE DEF info
<1>4. LossLoop(info, g)
  BY <1>1, <1>2, <1>3 DEF LossLoop
<1>5. PICK f : f = (CHOOSE h : LossLoop(info, h)) /\ LossLoop(info, f)
  BY <1>4, Zenon
<1>6. f[3] = {}
  BY <1>1, <1>5 DEF LossLoop
<1>7. f[1] = CyclicRange(a, b) \cup f[3]
  BY <1>1, <1>2, <1>3, <1>5 DEF LossLoop
<1>8. Losses(info) = CyclicRange(a, b)
  BY <1>5, <1>6, <1>7, LossesIsLoop
<1> QED BY <1>8 DEF info

(* A loss report names the gap, and its words are words.                   *)
LEMMA LossInfoNamesGap ==
  ASSUME NEW curr \in SeqNumbers, NEW seq \in SeqNumbers
  PROVE  /\ LossInfo(curr, seq) \in Seq(Int)
         /\ Len(LossInfo(curr, seq)) <= 2
         /\ Losses(LossInfo(curr, seq)) = CyclicRange(SeqAdd(curr, 1), SeqAdd(seq, -1))
<1>1. HIGH_BIT \in Nat /\ SeqNumbers = 0 .. HIGH_BIT - 1
  BY Widths, PacketsAssumption DEF SeqNumbers
<1>2. curr \in Int /\ seq \in Int /\ 1 \in Int /\ -1 \in Int
  BY <1>1
<1>3. PICK a \in 0 .. HIGH_BIT - 1 : a = SeqAdd(curr, 1)
  BY <1>1, <1>2, AddType
<1>4. PICK b \in 0 .. HIGH_BIT - 1 : b = SeqAdd(seq, -1)
  BY <1>1, <1>2, AddType
<1>5. CASE a = b
  <2>1. LossInfo(curr, seq) = <<b>>
    BY <1>3, <1>4, <1>5 DEF LossInfo
  <2>2. CyclicRange(a, b) = {b}
    BY <1>5 DEF CyclicRange
  <2>3. Losses(<<b>>) = {b}
    BY <1>1, LossesOfOne
  <2>4. <<b>> \in Seq(Int) /\ Len(<<b>>) <= 2
    OBVIOUS
  <2> QED BY <1>3, <1>4, <2>1, <2>2, <2>3, <2>4
<1>6. CASE a # b
  <2>1. LossInfo(curr, seq) = <<a + HIGH_BIT, b>>
    BY <1>3, <1>4, <1>6 DEF LossInfo
  <2>2. Losses(<<a + HIGH_BIT, b>>) = CyclicRange(a, b)
    BY <1>1, LossesOfRange
  <2>3. <<a + HIGH_BIT, b>> \in Seq(Int) /\ Len(<<a + HIGH_BIT, b>>) <= 2
    BY <1>1
  <2> QED BY <1>3, <1>4, <2>1, <2>2, <2>3
<1> QED BY <1>5, <1>6

(* A NAK reads back.                                                       *)
LEMMA NakReadsBack ==
  ASSUME NEW p \in NakPacket
  PROVE  ReadsBack(p)
<1>1. p.type = "Nak" /\ \E curr, seq \in SeqNumbers : p.info = LossInfo(curr, seq)
  BY DEF NakPacket, Control
<1>2. PICK field \in Seq(Int) : field = p.info /\ Len(field) <= 2
  BY <1>1, LossInfoNamesGap
<1>3. p \in Control("Nak", {field}, {0})
  BY <1>2 DEF NakPacket, Control
<1>4. ControlInfoField(p) = field /\ InfoOf("Nak", field) = AsRead(p).info
  BY <1>1, <1>2 DEF ControlInfoField, InfoOf, AsRead
<1>5. "Nak" \in DOMAIN TypeIds /\ {0} \subseteq Int /\ Len(field) <= 12
  BY <1>2 DEF TypeIds
<1> QED BY <1>3, <1>4, <1>5, ControlReadsBack

(***************************************************************************)
(* Through the UDP socket and the buffer                                   *)
(***************************************************************************)

Sendable == Samples \cup {Nak(curr, seq) : curr \in Gaps, seq \in Gaps}

(* An entry of the history: a packet, and what it reports as lost.         *)
Entry ==
  {e \in [packet : Sendable, lost : SUBSET Int] :
     (e.packet.kind = "control" /\ e.packet.type = "Nak") => Losses(e.packet.info) = e.lost}

(* The inductive invariant: the channel holds what was sent, written, and  *)
(* the last batch is what was sent, as it is read.                         *)
Inv ==
  /\ channel \in Seq(Seq(Int))
  /\ sent \in Seq(Entry)
  /\ Len(channel) = Len(sent)
  /\ \A i \in 1 .. Len(sent) : channel[i] = Serialize(sent[i].packet)
  /\ buf \in [1 .. CHUNKS -> [1 .. MSS -> Int]]
  /\ expected \in Seq(Entry)
  /\ received = [i \in 1 .. Len(expected) |-> AsRead(expected[i].packet)]

(* Every packet that is sent reads back.                                   *)
LEMMA SendableReadsBack ==
  ASSUME NEW p \in Sendable
  PROVE  ReadsBack(p)
<1>1. CASE p \in Samples
  BY <1>1, PacketsAssumption, PacketReadsBack
<1>2. ASSUME NEW curr \in Gaps, NEW seq \in Gaps, p = Nak(curr, seq)
      PROVE  ReadsBack(p)
  <2>1. curr \in SeqNumbers /\ seq \in SeqNumbers
    BY PacketsAssumption
  <2>2. WORD - 1 \in Word
    BY Widths DEF Word
  <2>3. p \in NakPacket
    BY <1>2, <2>1, <2>2 DEF NakPacket, Control, Nak
  <2> QED BY <2>3, NakReadsBack
<1> QED BY <1>1, <1>2 DEF Sendable

(* Packets get into the channel as they are written.                       *)
LEMMA TransmitInv ==
  ASSUME Inv, NEW ps \in Seq(Sendable), NEW lost \in SUBSET Int, NEW n \in 0 .. Len(ps),
         \A i \in 1 .. n : [packet |-> ps[i], lost |-> lost] \in Entry,
         Transmit(ps, lost, n)
  PROVE  Inv'
<1> DEFINE es == [i \in 1 .. n |-> [packet |-> ps[i], lost |-> lost]]
           cs == [i \in 1 .. n |-> Serialize(ps[i])]
<1>0. n \in Nat /\ Len(ps) \in Nat /\ n <= Len(ps)
  BY LenProperties
<1>1. \A i \in 1 .. n : ps[i] \in Sendable
  <2>1. SUFFICES ASSUME NEW i \in 1 .. n PROVE ps[i] \in Sendable
    OBVIOUS
  <2>2. i \in 1 .. Len(ps)
    BY <1>0
  <2> QED BY <2>2, ElementOfSeq
<1>2. \A i \in 1 .. n : Serialize(ps[i]) \in Seq(Int)
  BY <1>1, SendableReadsBack DEF ReadsBack
<1>3. es \in Seq(Entry) /\ Len(es) = n
  <2>1. es \in [1 .. n -> Entry]
    OBVIOUS
  <2> QED BY <1>0, <2>1
<1>4. cs \in Seq(Seq(Int)) /\ Len(cs) = n
  <2>1. cs \in [1 .. n -> Seq(Int)]
    BY <1>2
  <2> QED BY <1>0, <2>1
<1>5. \A i \in 1 .. n : cs[i] = Serialize(es[i].packet)
  OBVIOUS
<1>6. channel' = channel \o cs /\ sent' = sent \o es
      /\ UNCHANGED <<buf, received, expected>>
  BY DEF Transmit
<1> HIDE DEF es, cs
<1>7. /\ sent' \in Seq(Entry)
      /\ Len(sent') = Len(sent) + Len(es)
      /\ \A i \in 1 .. Len(sent) + Len(es) :
           sent'[i] = IF i <= Len(sent) THEN sent[i] ELSE es[i - Len(sent)]
  <2>1. sent \in Seq(Entry)
    BY DEF Inv
  <2> QED BY <1>3, <1>6, <2>1, ConcatProperties, Zenon
<1>8. /\ channel' \in Seq(Seq(Int))
      /\ Len(channel') = Len(channel) + Len(cs)
      /\ \A i \in 1 .. Len(channel) + Len(cs) :
           channel'[i] = IF i <= Len(channel) THEN channel[i] ELSE cs[i - Len(channel)]
  <2>1. channel \in Seq(Seq(Int))
    BY DEF Inv
  <2> QED BY <1>4, <1>6, <2>1, ConcatProperties, Zenon
<1>9. Len(channel) = Len(sent) /\ Len(sent) \in Nat
      /\ \A i \in 1 .. Len(sent) : channel[i] = Serialize(sent[i].packet)
  BY LenProperties DEF Inv
<1>10. \A i \in 1 .. Len(sent') : channel'[i] = Serialize(sent'[i].packet)
  <2>1. SUFFICES ASSUME NEW i \in 1 .. Len(sent) + n
                 PROVE  channel'[i] = Serialize(sent'[i].packet)
    BY <1>3, <1>7
  <2>2. CASE i <= Len(sent)
    <3>1. channel'[i] = channel[i] /\ sent'[i] = sent[i] /\ i \in 1 .. Len(sent)
      BY <1>3, <1>4, <1>7, <1>8, <1>9, <2>2
    <3> QED BY <1>9, <3>1
  <2>3. CASE i > Len(sent)
    <3>0. PICK l \in Nat : l = Len(sent)
      BY <1>9
    <3>1. PICK j \in 1 .. n : j = i - Len(sent)
      <4>1. i \in 1 .. l + n /\ i > l
        BY <2>3, <3>0
      <4>2. i - l \in 1 .. n
        BY <1>0, <4>1
      <4> QED BY <3>0, <4>2
    <3>2. channel'[i] = cs[j] /\ sent'[i] = es[j]
      <4>1. Len(cs) = n /\ Len(es) = n /\ Len(channel) = l /\ Len(sent) = l
        BY <1>3, <1>4, <1>9, <3>0
      <4>2. i \in 1 .. l + n /\ ~(i <= l) /\ i - l = j
        BY <2>3, <3>0, <3>1
      <4>3. channel'[i] = cs[i - l]
        BY <1>8, <4>1, <4>2
      <4>4. sent'[i] = es[i - l]
        BY <1>7, <4>1, <4>2
      <4> QED BY <4>2, <4>3, <4>4
    <3> QED BY <1>5, <3>2
  <2> QED BY <1>9, <2>2, <2>3
<1>11. Len(channel') = Len(sent')
  BY <1>3, <1>4, <1>7, <1>8, <1>9
<1> QED BY <1>6, <1>7, <1>8, <1>10, <1>11 DEF Inv

(* A batch is read as it was sent, whatever the buffer held before.        *)
LEMMA ReceiveInv ==
  ASSUME Inv, ReceivePackets
  PROVE  Inv'
<1> DEFINE n == IF Len(channel) < CHUNKS THEN Len(channel) ELSE CHUNKS
<1>1. /\ Len(channel) \in Nat /\ Len(sent) = Len(channel)
      /\ CHUNKS \in Nat /\ MSS \in Nat
  BY PacketsAssumption, LenProperties DEF Inv
<1>2. n \in Nat /\ n <= CHUNKS /\ n <= Len(channel)
  BY <1>1
<1>3. /\ n > 0
      /\ buf' = [i \in 1 .. CHUNKS |-> [w \in 1 .. MSS |->
                   IF i <= n /\ w \in DOMAIN channel[i] THEN channel[i][w] ELSE buf[i][w]]]
      /\ received' = [i \in 1 .. n |-> Deserialize(Slice(buf'[i], Len(channel[i])))]
      /\ expected' = SubSeq(sent, 1, n)
      /\ channel' = SubSeq(channel, n + 1, Len(channel))
      /\ sent' = SubSeq(sent, n + 1, Len(sent))
  BY DEF ReceivePackets
<1> HIDE DEF n
<1>4. ASSUME NEW i \in 1 .. n
      PROVE  /\ channel[i] \in Seq(Int) /\ Len(channel[i]) \in 0 .. MSS
             /\ DOMAIN channel[i] = 1 .. Len(channel[i])
             /\ sent[i] \in Entry
             /\ Deserialize(channel[i]) = AsRead(sent[i].packet)
  <2>1. i \in 1 .. Len(sent)
    BY <1>1, <1>2
  <2>2. sent[i] \in Entry
    BY <2>1, ElementOfSeq DEF Inv
  <2>3. ReadsBack(sent[i].packet)
    BY <2>2, SendableReadsBack DEF Entry
  <2>4. channel[i] = Serialize(sent[i].packet)
    BY <2>1 DEF Inv
  <2>5. channel[i] \in Seq(Int) /\ Len(channel[i]) <= MSS
        /\ Deserialize(channel[i]) = AsRead(sent[i].packet)
    BY <2>3, <2>4 DEF ReadsBack
  <2>6. Len(channel[i]) \in Nat /\ DOMAIN channel[i] = 1 .. Len(channel[i])
    BY <2>5, LenProperties
  <2> QED BY <1>1, <2>2, <2>5, <2>6
<1>5. ASSUME NEW i \in 1 .. n
      PROVE  Slice(buf'[i], Len(channel[i])) = channel[i]
  <2>1. PICK l \in 0 .. MSS : l = Len(channel[i])
    BY <1>4, <1>5
  <2>2. \A w \in 1 .. l : buf'[i][w] = channel[i][w]
    <3>1. SUFFICES ASSUME NEW w \in 1 .. l PROVE buf'[i][w] = channel[i][w]
      OBVIOUS
    <3>2. i \in 1 .. CHUNKS /\ i <= n /\ w \in 1 .. MSS
      BY <1>1, <1>2
    <3>3. w \in DOMAIN channel[i]
      BY <1>4, <2>1
    <3> QED BY <1>3, <3>2, <3>3
  <2>3. SubSeq(buf'[i], 1, l) = channel[i]
    <3>1. channel[i] \in Seq(Int) /\ Len(channel[i]) = l - 1 + 1 /\ l \in Int /\ 1 \in Int
      BY <1>4, <2>1
    <3>2. \A w \in 1 .. Len(channel[i]) : channel[i][w] = buf'[i][1 + w - 1]
      BY <2>1, <2>2
    <3> QED BY <3>1, <3>2, PartIs
  <2> QED BY <2>1, <2>3 DEF Slice
<1>6. received' = [i \in 1 .. n |-> AsRead(sent[i].packet)]
  BY <1>3, <1>4, <1>5
<1>7. /\ expected' \in Seq(Entry) /\ Len(expected') = n
      /\ \A i \in 1 .. n : expected'[i] = sent[i]
  <2>1. \A i \in 1 .. n : sent[i] \in Entry
    BY <1>4
  <2>2. 1 \in Int /\ n \in Int
    BY <1>2
  <2>3. /\ expected' \in Seq(Entry)
        /\ Len(expected') = IF 1 <= n THEN n - 1 + 1 ELSE 0
        /\ \A i \in 1 .. n - 1 + 1 : expected'[i] = sent[1 + i - 1]
    BY <1>3, <2>1, <2>2, SubSeqProperties
  <2> QED BY <1>2, <1>3, <2>3
<1>8. received' = [i \in 1 .. Len(expected') |-> AsRead(expected'[i].packet)]
  BY <1>6, <1>7
<1> DEFINE rest == Len(channel) - n
<1>9. rest \in Nat
  BY <1>1, <1>2
<1>10. /\ sent' \in Seq(Entry) /\ Len(sent') = rest
       /\ \A i \in 1 .. rest : sent'[i] = sent[n + i]
  <2>1. \A i \in n + 1 .. Len(sent) : sent[i] \in Entry
    <3>1. SUFFICES ASSUME NEW i \in n + 1 .. Len(sent) PROVE sent[i] \in Entry
      OBVIOUS
    <3>2. i \in 1 .. Len(sent) /\ sent \in Seq(Entry)
      BY <1>1, <1>2 DEF Inv
    <3> QED BY <3>2, ElementOfSeq
  <2>2. n + 1 \in Int /\ Len(sent) \in Int
    BY <1>1, <1>2
  <2>3. /\ sent' \in Seq(Entry)
        /\ Len(sent') = IF n + 1 <= Len(sent) THEN Len(sent) - (n + 1) + 1 ELSE 0
        /\ \A i \in 1 .. Len(sent) - (n + 1) + 1 : sent'[i] = sent[n + 1 + i - 1]
    BY <1>3, <2>1, <2>2, SubSeqProperties
  <2> QED BY <1>1, <1>2, <2>3
<1>11. /\ channel' \in Seq(Seq(Int)) /\ Len(channel') = rest
       /\ \A i \in 1 .. rest : channel'[i] = channel[n + i]
  <2>1. \A i \in n + 1 .. Len(channel) : channel[i] \in Seq(Int)
    <3>1. SUFFICES ASSUME NEW i \in n + 1 .. Len(channel) PROVE channel[i] \in Seq(Int)
      OBVIOUS
    <3>2. i \in 1 .. Len(channel) /\ channel \in Seq(Seq(Int))
      BY <1>1, <1>2 DEF Inv
    <3> QED BY <3>2, ElementOfSeq
  <2>2. n + 1 \in Int /\ Len(channel) \in Int
    BY <1>1, <1>2
  <2>3. /\ channel' \in Seq(Seq(Int))
        /\ Len(channel') = IF n + 1 <= Len(channel) THEN Len(channel) - (n + 1) + 1 ELSE 0
        /\ \A i \in 1 .. Len(channel) - (n + 1) + 1 : channel'[i] = channel[n + 1 + i - 1]
    BY <1>3, <2>1, <2>2, SubSeqProperties
  <2> QED BY <1>1, <1>2, <2>3
<1>12. \A i \in 1 .. Len(sent') : channel'[i] = Serialize(sent'[i].packet)
  <2>1. SUFFICES ASSUME NEW i \in 1 .. rest
                 PROVE  channel'[i] = Serialize(sent'[i].packet)
    BY <1>10
  <2>2. n + i \in 1 .. Len(sent)
    BY <1>1, <1>2, <1>9
  <2>3. channel[n + i] = Serialize(sent[n + i].packet)
    BY <2>2 DEF Inv
  <2> QED BY <1>10, <1>11, <2>3
<1>13. buf' \in [1 .. CHUNKS -> [1 .. MSS -> Int]]
  <2>1. \A i \in 1 .. CHUNKS, w \in 1 .. MSS : buf[i][w] \in Int
    BY DEF Inv
  <2>2. \A i \in 1 .. CHUNKS, w \in 1 .. MSS :
          (i <= n /\ w \in DOMAIN channel[i]) => channel[i][w] \in Int
    <3>1. SUFFICES ASSUME NEW i \in 1 .. CHUNKS, NEW w, i <= n, w \in DOMAIN channel[i]
                   PROVE  channel[i][w] \in Int
      OBVIOUS
    <3>2. i \in 1 .. n
      BY <1>1, <1>2, <3>1
    <3>3. channel[i] \in Seq(Int) /\ w \in 1 .. Len(channel[i])
      BY <1>4, <3>1, <3>2
    <3> QED BY <3>3, ElementOfSeq
  <2> QED BY <1>3, <2>1, <2>2
<1> QED BY <1>7, <1>8, <1>10, <1>11, <1>12, <1>13 DEF Inv

(* Every step keeps the invariant.                                         *)
LEMMA NextInv ==
  ASSUME Inv, [Next]_vars
  PROVE  Inv'
<1>1. CASE UNCHANGED vars
  BY <1>1 DEF Inv, vars
<1>2. ASSUME NEW p \in Samples, SendTo(p)
      PROVE  Inv'
  <2>1. <<p>> \in Seq(Sendable) /\ Len(<<p>>) = 1 /\ <<p>>[1] = p
    BY DEF Sendable
  <2>2. [packet |-> p, lost |-> {}] \in Entry
    <3>1. ~(p.kind = "control" /\ p.type = "Nak")
      BY PacketsAssumption DEF DataPacket, ControlPacket, Control
    <3>2. p \in Sendable /\ {} \in SUBSET Int
      BY DEF Sendable
    <3> QED BY <3>1, <3>2 DEF Entry
  <2>3. 1 \in 0 .. Len(<<p>>)
        /\ \A i \in 1 .. 1 : [packet |-> <<p>>[i], lost |-> {}] \in Entry
    BY <2>1, <2>2
  <2>4. Transmit(<<p>>, {}, 1) /\ {} \in SUBSET Int
    BY <1>2 DEF SendTo
  <2> QED BY <2>1, <2>3, <2>4, TransmitInv
<1>3. ASSUME NEW p \in Samples, NEW q \in Samples, p.kind = "data", q.kind = "data",
             SendMmsgTo(<<p, q>>)
      PROVE  Inv'
  <2> DEFINE ps == <<p, q>>
  <2>1. ps \in Seq(Sendable) /\ Len(ps) = 2 /\ ps[1] = p /\ ps[2] = q
    BY DEF Sendable
  <2>2. PICK n \in 0 .. Len(ps) : Transmit(ps, {}, n)
    BY <1>3 DEF SendMmsgTo
  <2> HIDE DEF ps
  <2>3. \A i \in 1 .. n : [packet |-> ps[i], lost |-> {}] \in Entry
    <3>1. SUFFICES ASSUME NEW i \in 1 .. n
                   PROVE  [packet |-> ps[i], lost |-> {}] \in Entry
      OBVIOUS
    <3>2. ps[i] \in Sendable /\ ps[i].kind = "data"
      <4>1. i = 1 \/ i = 2
        BY <2>1
      <4> QED BY <1>3, <2>1, <4>1 DEF Sendable
    <3> QED BY <3>2 DEF Entry
  <2>4. {} \in SUBSET Int
    OBVIOUS
  <2> QED BY <2>1, <2>2, <2>3, <2>4, TransmitInv
<1>4. ASSUME NEW curr \in Gaps, NEW seq \in Gaps, SendNak(curr, seq)
      PROVE  Inv'
  <2> DEFINE p == Nak(curr, seq)
             lost == CyclicRange(SeqAdd(curr, 1), SeqAdd(seq, -1))
  <2>1. p \in Sendable
    BY DEF Sendable
  <2>2. curr \in SeqNumbers /\ seq \in SeqNumbers
    BY PacketsAssumption
  <2>3. p.info = LossInfo(curr, seq)
    BY DEF Nak
  <2>4. Losses(p.info) = lost
    BY <2>2, <2>3, LossInfoNamesGap
  <2>5. lost \in SUBSET Int
    <3>1. curr \in Int /\ seq \in Int /\ 1 \in Int /\ -1 \in Int /\ SeqNumbers \subseteq Int
      BY <2>2, MaxNumberAssumption DEF SeqNumbers
    <3>2. SeqAdd(curr, 1) \in Int /\ SeqAdd(seq, -1) \in Int
      BY <3>1, AddType
    <3> QED BY <3>2, MaxNumberAssumption DEF CyclicRange
  <2>6. Transmit(<<p>>, lost, 1)
    BY <1>4 DEF SendNak
  <2> HIDE DEF p, lost
  <2>7. <<p>> \in Seq(Sendable) /\ Len(<<p>>) = 1 /\ <<p>>[1] = p
    BY <2>1
  <2>8. [packet |-> p, lost |-> lost] \in Entry
    BY <2>1, <2>4, <2>5 DEF Entry
  <2>9. 1 \in 0 .. Len(<<p>>)
        /\ \A i \in 1 .. 1 : [packet |-> <<p>>[i], lost |-> lost] \in Entry
    BY <2>7, <2>8
  <2> QED BY <2>5, <2>6, <2>7, <2>9, TransmitInv
<1>5. CASE ReceivePackets
  BY <1>5, ReceiveInv
<1> QED BY <1>1, <1>2, <1>3, <1>4, <1>5 DEF Next, Send

(* At the start nothing has been sent, and the buffer is all zeros.        *)
LEMMA InitInv == Init => Inv
<1> SUFFICES ASSUME Init PROVE Inv
  OBVIOUS
<1>1. channel = <<>> /\ sent = <<>> /\ expected = <<>> /\ received = <<>>
  BY DEF Init
<1>2. buf \in [1 .. CHUNKS -> [1 .. MSS -> Int]]
  BY DEF Init
<1>3. <<>> \in Seq(Seq(Int)) /\ <<>> \in Seq(Entry) /\ Len(<<>>) = 0
  OBVIOUS
<1>4. <<>> = [i \in 1 .. 0 |-> AsRead(<<>>[i].packet)]
  OBVIOUS
<1> QED BY <1>1, <1>2, <1>3, <1>4 DEF Inv

(* The invariant gives both properties.                                    *)
LEMMA InvImplies == Inv => ReadAsSent /\ NakNamesGap
<1> SUFFICES ASSUME Inv PROVE ReadAsSent /\ NakNamesGap
  OBVIOUS
<1>1. DOMAIN received = 1 .. Len(expected)
  BY DEF Inv
<1>2. \A i \in 1 .. Len(expected) : received[i] = AsRead(expected[i].packet)
  BY DEF Inv
<1>3. \A i \in 1 .. Len(expected) : expected[i] \in Entry
  BY ElementOfSeq DEF Inv
<1>4. \A i \in 1 .. Len(expected) :
        (received[i].kind = "control" /\ received[i].type = "Nak")
          => Losses(received[i].info) = expected[i].lost
  <2> SUFFICES ASSUME NEW i \in 1 .. Len(expected),
                      received[i].kind = "control" /\ received[i].type = "Nak"
               PROVE  Losses(received[i].info) = expected[i].lost
    OBVIOUS
  <2> DEFINE p == expected[i].packet
  <2>1. received[i] = AsRead(p) /\ expected[i] \in Entry
    BY <1>2, <1>3
  <2>2. AsRead(p) = p
    <3>1. CASE p.kind = "control" /\ p.type = "Handshake"
      <4>1. p \in ControlPacket
        BY <2>1, <3>1, PacketsAssumption DEF Entry, Sendable, Nak, DataPacket
      <4>2. AsRead(p).type = "Handshake"
        BY <3>1, <4>1 DEF AsRead, ControlPacket, Control
      <4> QED BY <2>1, <4>2
    <3>2. CASE ~(p.kind = "control" /\ p.type = "Handshake")
      BY <3>2 DEF AsRead
    <3> QED BY <3>1, <3>2
  <2> QED BY <2>1, <2>2 DEF Entry
<1> QED BY <1>1, <1>2, <1>4 DEF ReadAsSent, NakNamesGap

(* A handshake with the first four bytes of its address as IPv4.           *)
WithIPv4(hs) == [hs EXCEPT !.ip_address = <<hs.ip_address[1]>>]

(* Reading what was written gives the packet back, for every packet of     *)
(* every type, a NAK of any gap too, and every value of its fields:        *)
(* deserialize inverts serialize (packet.rs, data_packet.rs,               *)
(* control_packet.rs), and what is written fits in a chunk of the buffer.  *)
(* The one field that may be read as something else is the address of a    *)
(* handshake: IPv6, and all but its first four bytes zero.                 *)
THEOREM CodecInverse ==
  \A p \in DataPacket \cup ControlPacket \cup NakPacket :
    /\ Len(Serialize(p)) <= MSS
    /\ Deserialize(Serialize(p)) = AsRead(p)
    /\ Deserialize(Serialize(p)) # p =>
         /\ p.type = "Handshake" /\ Len(p.info.ip_address) = 4
         /\ \A i \in 2 .. 4 : p.info.ip_address[i] = 0
         /\ Deserialize(Serialize(p)) = [p EXCEPT !.info = WithIPv4(p.info)]
<1>1. SUFFICES ASSUME NEW p \in DataPacket \cup ControlPacket \cup NakPacket,
                      AsRead(p) # p
               PROVE  /\ p.type = "Handshake" /\ Len(p.info.ip_address) = 4
                      /\ \A i \in 2 .. 4 : p.info.ip_address[i] = 0
                      /\ AsRead(p) = [p EXCEPT !.info = WithIPv4(p.info)]
  BY PacketReadsBack, NakReadsBack DEF ReadsBack
<1>2. p.kind = "control" /\ p.type = "Handshake"
  BY <1>1 DEF AsRead
<1>3. p \in Control("Handshake", HandshakeInfo, {0})
  BY <1>2 DEF DataPacket, ControlPacket, NakPacket, Control
<1>4. PICK hs \in HandshakeInfo : hs = p.info
  BY <1>3 DEF Control
<1>5. PlainHandshake(hs) # hs /\ AsRead(p) = [p EXCEPT !.info = PlainHandshake(hs)]
  <2>1. AsRead(p) = [p EXCEPT !.info = PlainHandshake(hs)]
    BY <1>2, <1>4 DEF AsRead
  <2>2. [p EXCEPT !.info = p.info] = p
    BY <1>3 DEF Control
  <2> QED BY <1>1, <1>4, <2>1, <2>2
<1>6. PlainAddress(hs.ip_address) # hs.ip_address
  BY <1>5 DEF PlainHandshake, HandshakeInfo
<1>7. /\ Len(hs.ip_address) = 4 /\ \A i \in 2 .. 4 : hs.ip_address[i] = 0
      /\ PlainAddress(hs.ip_address) = <<hs.ip_address[1]>>
  BY <1>6 DEF PlainAddress
<1>8. PlainHandshake(hs) = WithIPv4(hs)
  BY <1>7 DEF PlainHandshake, WithIPv4
<1> QED BY <1>2, <1>4, <1>5, <1>7, <1>8

(* Whatever is left in the buffer of longer packets, each packet of a      *)
(* batch is read as it was sent, but for such an address in a handshake    *)
(* (rcv_queue.rs, receive_packets and worker; multiplexer.rs, send_to and  *)
(* send_mmsg_to).                                                          *)
THEOREM ReadAsSentCorrect == Spec => []ReadAsSent
<1>1. Inv /\ [Next]_vars => Inv'
  BY NextInv
<1>2. Inv => ReadAsSent
  BY InvImplies
<1> QED BY <1>1, <1>2, InitInv, PTL DEF Spec

(* A NAK that is read names exactly the gap that the receiver saw          *)
(* (socket.rs, process_data and process_ctrl).                             *)
THEOREM NakNamesGapCorrect == Spec => []NakNamesGap
<1>1. Inv /\ [Next]_vars => Inv'
  BY NextInv
<1>2. Inv => NakNamesGap
  BY InvImplies
<1> QED BY <1>1, <1>2, InitInv, PTL DEF Spec
=============================================================================
