----------------------------- MODULE MCPackets -----------------------------
(***************************************************************************)
(* Packets with words of ten bits: every packet type, with boundary values *)
(* in its fields.                                                          *)
(***************************************************************************)
EXTENDS Packets

Seqs      == {0, MAX_NUMBER}
SocketIds == {WORD - 1}
Listener  == 0

DataSamples ==
  [ kind : {"data"}, seq_number : Seqs, position : DOMAIN Positions,
    in_order : BOOLEAN, msg_number : {0, MAX_MSG}, timestamp : {WORD - 1},
    dest_socket_id : SocketIds, data : {<<0>>, <<WORD - 1, 1>>} ]

HandshakeSamples ==
  [ udt_version : {4}, socket_type : DOMAIN SocketTypes, initial_seq_number : {MAX_NUMBER},
    max_packet_size : {MSS}, max_window_size : {WORD - 1},
    connection_type : {1, -1, HIGH_BIT - 1}, socket_id : SocketIds,
    syn_cookie : {HIGH_BIT},
    ip_address : {<<0>>, <<WORD - 1>>, <<0, 0, 0, 1>>, <<HIGH_BIT, 0, 1, 0>>,
                  <<0, 0, 0, 0>>, <<1, 0, 0, 0>>} ]

AckSamples  == [next_seq_number : Seqs, info : {<<>>, <<0, 1, 2, 3, WORD - 1>>}]
DropSamples == [first_seq_number : Seqs, last_seq_number : Seqs]

ControlSamples(type, infos, additional, dests) ==
  [ kind : {"control"}, type : {type}, reserved : {0}, additional_info : additional,
    timestamp : {0}, dest_socket_id : dests, info : infos ]

MCSamples ==
  UNION { DataSamples,
          ControlSamples("Handshake", HandshakeSamples, {0}, SocketIds \cup {Listener}),
          ControlSamples("KeepAlive", {<<>>}, {0}, SocketIds),
          ControlSamples("Shutdown", {<<>>}, {0}, SocketIds),
          ControlSamples("Ack", AckSamples, Seqs, SocketIds),
          ControlSamples("Ack2", {<<>>}, Seqs, SocketIds),
          ControlSamples("MsgDropRequest", DropSamples, {0, MAX_MSG}, SocketIds) }

MCGaps == {0, 1, 2, 3, MAX_NUMBER - 2, MAX_NUMBER - 1, MAX_NUMBER}
=============================================================================
