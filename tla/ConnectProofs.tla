--------------------------- MODULE ConnectProofs ---------------------------
(***************************************************************************)
(* Setting up connections, for any number of clients, sockets, acceptors,  *)
(* repeated and lost datagrams: who talks to whom, that a client has one   *)
(* live socket at the server, and that every connection is accepted once.  *)
(***************************************************************************)
EXTENDS Connect, FiniteSetTheorems, WellFoundedInduction, TLAPS

(***************************************************************************)
(* The inductive invariant                                                 *)
(***************************************************************************)

(* The clients: no peer is known before the connection is set up.          *)
ClientInv ==
  /\ cstatus \in [Clients -> {"Init", "Connecting", "Connected", "Broken", "Closing"}]
  /\ cpeer \in [Clients -> Ids \cup {NoSocket}]
  /\ polled \subseteq Clients
  /\ cworker \subseteq Clients
  /\ call \in [Clients -> {"none", "waiting", "woken", "ok"}]
  /\ \A c \in Clients : cstatus[c] \in {"Init", "Connecting"} => cpeer[c] = NoSocket
  /\ \A c \in Clients : cstatus[c] = "Connected" => cpeer[c] \in Ids

BoundInv ==
  /\ dups \in 0 .. MaxDups
  /\ losses \in 0 .. MaxLosses
  /\ minute \in 0 .. MaxMinute

(* The table: ids are handed out downwards.                                *)
TableInv ==
  /\ status \in [Ids -> Statuses \cup {"Free"}]
  /\ peer \in [Ids -> Clients \cup {NoClient}]
  /\ next_socket_id \in 0 .. MaxSockets
  /\ \A id \in Ids : status[id] = "Free" <=> peer[id] = NoClient
  /\ \A id \in Ids : id <= next_socket_id => status[id] = "Free"

(* A live socket is the newest of its client.                              *)
NewestInv ==
  \A i, j \in Ids : status[i] = "Connected" /\ peer[i] = peer[j] => i <= j

(* The accept queue, and the sockets in the hands of accept().             *)
AcceptInv ==
  /\ queued_sockets \subseteq Ids
  /\ Cardinality(queued_sockets) <= ACCEPT_QUEUE_SIZE
  /\ accepted \subseteq Ids
  /\ acceptor \in [Acceptors ->      [pc : {"look", "park", "parked"}]
                                \cup [pc : {"got"}, socket : Ids]]
  /\ \A id \in Ids : status[id] = "Free" =>
       id \notin queued_sockets /\ id \notin accepted /\ ~Held(id)
  /\ \A a, b \in Acceptors : \A id \in Ids :
       acceptor[a] = [pc |-> "got", socket |-> id] /\ acceptor[b] = acceptor[a] => a = b
  /\ AcceptedOnce

FlagInv == sworker \in BOOLEAN /\ permit \in BOOLEAN

ServerInv == TableInv /\ NewestInv /\ AcceptInv /\ FlagInv

(* A reply names a socket that was created for the client it goes to.      *)
GoodMessage(m, p) ==
  /\ m.type # "cshutdown" => m.client \in Clients
  /\ m.type = "cshutdown" => m.socket \in Ids
  /\ m.type = "reply" => m.socket \in Ids /\ p[m.socket] = m.client

NetInv == \A m \in network : GoodMessage(m, peer)

(* The inductive invariant.                                                *)
IInv == ClientInv /\ BoundInv /\ ServerInv /\ NetInv /\ EndsAgree

(* A socket never changes its client.                                      *)
PeersKept == \A id \in Ids : peer[id] # NoClient => peer'[id] = peer[id]

(***************************************************************************)
(* Facts about the operators                                               *)
(***************************************************************************)

(* A non-empty set of natural numbers has a least element.                 *)
LEMMA MinExists ==
  ASSUME NEW S \in SUBSET Nat, S # {}
  PROVE  Min(S) \in S /\ \A y \in S : Min(S) <= y
PROOF
<1>1. IsWellFoundedOn(OpToRel(<, Nat), Nat)
      BY NatLessThanWellFounded, Zenon
<1>2. PICK x \in S : \A y \in S : ~(<<y, x>> \in OpToRel(<, Nat))
      BY <1>1, WFMin, Zenon
<1>3. \A y \in S : ~(y < x)
      BY <1>2 DEF OpToRel
<1>4. \A y \in S : x <= y
      BY <1>3
<1> QED
    BY <1>4 DEF Min

LEMMA IdsFinite ==
  /\ Ids \subseteq Nat /\ 0 \notin Ids
  /\ \A S \in SUBSET Ids : IsFiniteSet(S) /\ Cardinality(S) \in Nat
PROOF
<1>1. Ids \subseteq Nat /\ 0 \notin Ids
      BY ConnectAssumption DEF Ids
<1>2. IsFiniteSet(Ids)
      BY ConnectAssumption, FS_Interval DEF Ids
<1>3. \A S \in SUBSET Ids : IsFiniteSet(S)
      BY <1>2, FS_Subset
<1>4. \A S \in SUBSET Ids : Cardinality(S) \in Nat
      BY <1>3, FS_CardinalityType
<1> QED
    BY <1>1, <1>3, <1>4

(* A smaller accept queue has fewer sockets.                               *)
LEMMA SmallerQueue ==
  ASSUME NEW S \in SUBSET Ids, NEW T \in SUBSET S
  PROVE  Cardinality(T) <= Cardinality(S)
PROOF
<1>1. IsFiniteSet(S)
      BY IdsFinite
<1> QED
    BY <1>1, FS_Subset

(* What arrives or is sent.                                                *)
LEMMA ReceiveEffect ==
  ASSUME BoundInv, NEW m, NEW R, Receive(m, R)
  PROVE  network' \subseteq network \cup R /\ dups' \in 0 .. MaxDups /\ losses' = losses
PROOF
  BY ConnectAssumption DEF Receive, BoundInv

LEMMA SendEffect ==
  ASSUME NEW m, Send(m)
  PROVE  network' \subseteq network \cup {m} /\ dups' = dups /\ losses' = losses
PROOF
  BY DEF Send

(* A message stays good when sockets keep their clients.                   *)
LEMMA MessageKept ==
  ASSUME PeersKept, NEW m, GoodMessage(m, peer)
  PROVE  GoodMessage(m, peer')
PROOF
<1>1. m.type = "reply" => peer[m.socket] # NoClient
      BY ConnectAssumption DEF GoodMessage
<1> QED
    BY <1>1 DEF GoodMessage, PeersKept

LEMMA EndsKept ==
  ASSUME ClientInv, EndsAgree, PeersKept, cpeer' = cpeer
  PROVE  EndsAgree'
PROOF
<1> SUFFICES ASSUME NEW c \in Clients, cpeer[c] # NoSocket
             PROVE  peer'[cpeer[c]] = c
    BY DEF EndsAgree
<1>1. cpeer[c] \in Ids /\ peer[cpeer[c]] = c
      BY DEF ClientInv, EndsAgree
<1> QED
    BY <1>1, ConnectAssumption DEF PeersKept

(* Parts that only read variables which do not change.                     *)
LEMMA ClientsKept ==
  ASSUME ClientInv, UNCHANGED clientVars
  PROVE  ClientInv'
PROOF
  BY DEF ClientInv, clientVars

LEMMA ServerKept ==
  ASSUME ServerInv, UNCHANGED serverVars
  PROVE  ServerInv' /\ PeersKept
PROOF
  BY DEF ServerInv, TableInv, NewestInv, AcceptInv, FlagInv, AcceptedOnce, Held,
         PeersKept, serverVars, tableVars, acceptVars

(***************************************************************************)
(* Steps of the clients and of the network                                 *)
(***************************************************************************)

(* A step of a client that keeps its peer and sends at most a message.     *)
LEMMA ClientSends ==
  ASSUME IInv, UNCHANGED serverVars, ClientInv', BoundInv', cpeer' = cpeer,
         NEW m, network' \subseteq network \cup {m}, GoodMessage(m, peer)
  PROVE  IInv'
PROOF
<1>1. ServerInv' /\ PeersKept
      BY ServerKept DEF IInv
<1>2. EndsAgree'
      BY <1>1, EndsKept DEF IInv
<1>3. peer' = peer
      BY DEF serverVars, tableVars
<1>4. NetInv'
      BY <1>3 DEF IInv, NetInv, GoodMessage
<1> QED
    BY <1>1, <1>2, <1>4 DEF IInv

(* A step that leaves the server alone and sends nothing.                  *)
LEMMA ClientSide ==
  ASSUME IInv, UNCHANGED serverVars, ClientInv', BoundInv', EndsAgree',
         network' \subseteq network \cup {}
  PROVE  IInv'
PROOF
<1>1. ServerInv'
      BY ServerKept DEF IInv
<1>2. peer' = peer
      BY DEF serverVars, tableVars
<1>3. NetInv'
      BY <1>2 DEF IInv, NetInv, GoodMessage
<1> QED
    BY <1>1, <1>3 DEF IInv

LEMMA ClientSilent ==
  ASSUME IInv, UNCHANGED serverVars, ClientInv', BoundInv', cpeer' = cpeer,
         network' \subseteq network \cup {}
  PROVE  IInv'
PROOF
<1>1. EndsAgree'
      BY EndsKept, ServerKept DEF IInv
<1> QED
    BY <1>1, ClientSide

LEMMA ConnectStep == ASSUME IInv, NEW c \in Clients, Connect(c) PROVE IInv'
PROOF
<1>1. ClientInv /\ BoundInv
      BY DEF IInv
<1>2. UNCHANGED serverVars /\ cpeer' = cpeer /\ minute' = minute
      BY DEF Connect
<1>3. network' \subseteq network \cup {Request(c)} /\ dups' = dups /\ losses' = losses
      BY SendEffect DEF Connect
<1>4. ClientInv'
      BY <1>1 DEF ClientInv, Connect
<1>5. BoundInv'
      BY <1>1, <1>2, <1>3 DEF BoundInv
<1>6. GoodMessage(Request(c), peer)
      BY DEF GoodMessage, Request
<1> QED
    BY <1>2, <1>3, <1>4, <1>5, <1>6, ClientSends, Zenon

(* Steps of a client that send nothing and receive nothing.                *)
LEMMA LocalStep ==
  ASSUME IInv, NEW c \in Clients, ConnectReturns(c) \/ ClientExpires(c)
  PROVE  IInv'
PROOF
<1>1. ClientInv /\ BoundInv
      BY DEF IInv
<1>2. UNCHANGED serverVars /\ UNCHANGED netVars /\ cpeer' = cpeer /\ minute' = minute
      BY DEF ConnectReturns, ClientExpires
<1>3. ClientInv'
  <2>1. CASE ConnectReturns(c)
        BY <1>1, <2>1 DEF ClientInv, ConnectReturns
  <2>2. CASE ClientExpires(c)
        BY <1>1, <2>2 DEF ClientInv, ClientExpires
  <2> QED
      BY <2>1, <2>2
<1>4. BoundInv'
      BY <1>1, <1>2 DEF BoundInv, netVars
<1>5. network' \subseteq network \cup {}
      BY <1>2 DEF netVars
<1> QED
    BY <1>2, <1>3, <1>4, <1>5, ClientSilent, Zenon

LEMMA ClosesStep == ASSUME IInv, NEW c \in Clients, ClientCloses(c) PROVE IInv'
PROOF
<1>1. ClientInv /\ BoundInv
      BY DEF IInv
<1>2. UNCHANGED serverVars /\ cpeer' = cpeer /\ minute' = minute
      BY DEF ClientCloses
<1>3. ClientInv'
      BY <1>1 DEF ClientInv, ClientCloses, WakeConnect
<1>4. CASE cstatus[c] = "Connected"
  <2>1. network' \subseteq network \cup {ClientShutdown(cpeer[c])}
        /\ dups' = dups /\ losses' = losses
        BY <1>4, SendEffect DEF ClientCloses
  <2>2. GoodMessage(ClientShutdown(cpeer[c]), peer)
        BY <1>1, <1>4 DEF ClientInv, GoodMessage, ClientShutdown
  <2>3. BoundInv'
        BY <1>1, <1>2, <2>1 DEF BoundInv
  <2> QED
      BY <1>2, <1>3, <2>1, <2>2, <2>3, ClientSends, Zenon
<1>5. CASE cstatus[c] # "Connected"
  <2>1. UNCHANGED netVars
        BY <1>5 DEF ClientCloses
  <2>2. network' \subseteq network \cup {} /\ BoundInv'
        BY <1>1, <1>2, <2>1 DEF netVars, BoundInv
  <2> QED
      BY <1>2, <1>3, <2>2, ClientSilent, Zenon
<1> QED
    BY <1>4, <1>5

(* Whatever arrives at a client.                                           *)
LEMMA ClientArriveStep ==
  ASSUME IInv, NEW m \in network, ClientArrive(m)
  PROVE  IInv'
PROOF
<1> DEFINE c == m.client
<1>1. ClientInv /\ BoundInv /\ NetInv
      BY DEF IInv
<1>2. m.type \in {"challenge", "reply", "sshutdown"}
      BY DEF ClientArrive
<1>3. c \in Clients
      BY <1>1, <1>2 DEF NetInv, GoodMessage
<1>4. \A R : Receive(m, R) /\ minute' = minute =>
        network' \subseteq network \cup R /\ BoundInv'
      BY <1>1, ReceiveEffect DEF BoundInv
<1>5. CASE ClientIgnores(c, m)
  <2>1. network' \subseteq network \cup {} /\ BoundInv'
        BY <1>4, <1>5 DEF ClientIgnores
  <2>2. ClientInv' /\ UNCHANGED serverVars /\ cpeer' = cpeer
        BY <1>1, <1>5, ClientsKept DEF ClientIgnores, clientVars
  <2> QED
      BY <2>1, <2>2, ClientSilent, Zenon
<1>6. CASE ProcessChallenge(c, m)
  <2>1. network' \subseteq network \cup {Response(c, m.cookie)} /\ BoundInv'
        BY <1>4, <1>6 DEF ProcessChallenge
  <2>2. ClientInv' /\ UNCHANGED serverVars /\ cpeer' = cpeer
        BY <1>1, <1>3, <1>6 DEF ProcessChallenge, ClientReceives, ClientInv
  <2>3. GoodMessage(Response(c, m.cookie), peer)
        BY <1>3 DEF GoodMessage, Response
  <2> QED
      BY <2>1, <2>2, <2>3, ClientSends, Zenon
<1>7. CASE m.type = "reply" /\ ProcessReply(c, m)
  <2>1. network' \subseteq network \cup {} /\ BoundInv'
        BY <1>4, <1>7 DEF ProcessReply
  <2>2. m.socket \in Ids /\ peer[m.socket] = c
        BY <1>1, <1>7 DEF NetInv, GoodMessage
  <2>3. ClientInv' /\ UNCHANGED serverVars
        BY <1>1, <1>3, <1>7, <2>2
        DEF ProcessReply, ClientReceives, WakeConnect, ClientInv
  <2>4. EndsAgree'
    <3>1. peer' = peer /\ cpeer' = [cpeer EXCEPT ![c] = m.socket]
          BY <1>7 DEF ProcessReply, serverVars, tableVars
    <3>2. EndsAgree /\ cpeer \in [Clients -> Ids \cup {NoSocket}]
          BY <1>1 DEF IInv, ClientInv
    <3> QED
        BY <1>3, <2>2, <3>1, <3>2 DEF EndsAgree
  <2> QED
      BY <2>1, <2>3, <2>4, ClientSide, Zenon
<1>8. CASE UnexpectedHandshake(c, m)
  <2>1. network' \subseteq network \cup {} /\ BoundInv'
        BY <1>4, <1>8 DEF UnexpectedHandshake
  <2>2. ClientInv' /\ UNCHANGED serverVars /\ cpeer' = cpeer
        BY <1>1, <1>3, <1>8 DEF UnexpectedHandshake, ClientInv
  <2> QED
      BY <2>1, <2>2, ClientSilent, Zenon
<1>9. CASE ProcessShutdown(c, m)
  <2>1. network' \subseteq network \cup {} /\ BoundInv'
        BY <1>4, <1>9 DEF ProcessShutdown
  <2>2. ClientInv' /\ UNCHANGED serverVars /\ cpeer' = cpeer
        BY <1>1, <1>3, <1>9 DEF ProcessShutdown, ClientReceives, WakeConnect, ClientInv
  <2> QED
      BY <2>1, <2>2, ClientSilent, Zenon
<1> QED
    BY <1>5, <1>6, <1>7, <1>8, <1>9 DEF ClientArrive

(* Datagrams that are lost, and the clock.                                 *)
LEMMA LoseStep ==
  ASSUME IInv, NextMinute \/ \E m \in network : Lose(m)
  PROVE  IInv'
PROOF
<1>1. UNCHANGED clientVars /\ UNCHANGED serverVars /\ network' \subseteq network \cup {}
      BY DEF Lose, NextMinute, netVars
<1>2. BoundInv'
      BY ConnectAssumption DEF IInv, BoundInv, Lose, NextMinute, netVars
<1>3. ClientInv' /\ cpeer' = cpeer
      BY <1>1, ClientsKept DEF IInv, clientVars
<1> QED
    BY <1>1, <1>2, <1>3, ClientSilent, Zenon

(***************************************************************************)
(* Steps of the server                                                     *)
(***************************************************************************)

(* A step that leaves the clients alone and sends at most a message.       *)
LEMMA ServerSends ==
  ASSUME IInv, UNCHANGED clientVars, BoundInv', ServerInv', PeersKept,
         NEW m, network' \subseteq network \cup {m}, GoodMessage(m, peer')
  PROVE  IInv'
PROOF
<1>1. ClientInv' /\ cpeer' = cpeer
      BY ClientsKept DEF IInv, clientVars
<1>2. EndsAgree'
      BY <1>1, EndsKept DEF IInv
<1>3. NetInv'
      BY MessageKept DEF IInv, NetInv
<1> QED
    BY <1>1, <1>2, <1>3 DEF IInv

LEMMA ServerSilent ==
  ASSUME IInv, UNCHANGED clientVars, BoundInv', ServerInv', PeersKept,
         network' \subseteq network \cup {}
  PROVE  IInv'
PROOF
<1>1. ClientInv' /\ cpeer' = cpeer
      BY ClientsKept DEF IInv, clientVars
<1>2. EndsAgree'
      BY <1>1, EndsKept DEF IInv
<1>3. NetInv'
      BY MessageKept DEF IInv, NetInv
<1> QED
    BY <1>1, <1>2, <1>3 DEF IInv

(* Peers are kept when the table of peers does not change.                 *)
LEMMA SamePeers == peer' = peer => PeersKept
PROOF
  BY DEF PeersKept

(* A socket that stops being live.                                         *)
LEMMA StatusChange ==
  ASSUME ServerInv, NEW id \in Ids, NEW s \in {"Broken", "Closing", "Closed"},
         status[id] # "Free", status' = [status EXCEPT ![id] = s],
         UNCHANGED <<peer, next_socket_id, queued_sockets, sworker, acceptVars>>
  PROVE  ServerInv' /\ PeersKept
PROOF
<1>1. TableInv /\ NewestInv /\ AcceptInv /\ FlagInv
      BY DEF ServerInv
<1>2. TableInv'
      BY <1>1 DEF TableInv, Statuses
<1>3. \A x \in Ids : /\ status'[x] = "Connected" => status[x] = "Connected"
                     /\ status'[x] = "Free" <=> status[x] = "Free"
      BY <1>1 DEF TableInv
<1>4. NewestInv'
      BY <1>1, <1>3 DEF NewestInv
<1>5. AcceptInv'
      BY <1>1, <1>3 DEF AcceptInv, AcceptedOnce, Held, acceptVars
<1>6. FlagInv'
      BY <1>1 DEF FlagInv, acceptVars
<1> QED
    BY <1>2, <1>4, <1>5, <1>6, SamePeers DEF ServerInv

LEMMA ExpiresStep ==
  ASSUME IInv, NEW id \in Ids,
         ServerExpires(id) \/ CloseBroken(id) \/ CollectClosing(id)
  PROVE  IInv'
PROOF
<1>1. UNCHANGED clientVars /\ UNCHANGED netVars /\ minute' = minute
      BY DEF ServerExpires, CloseBroken, CollectClosing
<1>2. network' \subseteq network \cup {} /\ BoundInv'
      BY <1>1 DEF IInv, netVars, BoundInv
<1>3. ServerInv
      BY DEF IInv
<1>4. PICK s \in {"Broken", "Closing", "Closed"} :
        status[id] # "Free" /\ status' = [status EXCEPT ![id] = s]
      BY DEF ServerExpires, CloseBroken, CollectClosing
<1>5. UNCHANGED <<peer, next_socket_id, queued_sockets, sworker, acceptVars>>
      BY DEF ServerExpires, CloseBroken, CollectClosing
<1>6. ServerInv' /\ PeersKept
      BY <1>3, <1>4, <1>5, StatusChange
<1> QED
    BY <1>1, <1>2, <1>6, ServerSilent, Zenon

LEMMA ServerClosesStep == ASSUME IInv, NEW id \in Ids, ServerCloses(id) PROVE IInv'
PROOF
<1>1. UNCHANGED clientVars /\ minute' = minute
      BY DEF ServerCloses
<1>2. network' \subseteq network \cup {ServerShutdown(peer[id])}
      /\ dups' = dups /\ losses' = losses
      BY SendEffect DEF ServerCloses
<1>3. BoundInv'
      BY <1>1, <1>2 DEF IInv, BoundInv
<1>4. ServerInv' /\ PeersKept
      BY StatusChange DEF ServerCloses, IInv
<1>5. peer[id] \in Clients
      BY ConnectAssumption DEF ServerCloses, IInv, ServerInv, TableInv
<1>6. GoodMessage(ServerShutdown(peer[id]), peer')
      BY <1>5 DEF GoodMessage, ServerShutdown
<1> QED
    BY <1>1, <1>2, <1>3, <1>4, <1>6, ServerSends, Zenon

(* A broken socket leaves the accept queue.                                *)
LEMMA CollectStep == ASSUME IInv, NEW id \in Ids, CollectBroken(id) PROVE IInv'
PROOF
<1>1. UNCHANGED clientVars /\ UNCHANGED netVars /\ minute' = minute
      BY DEF CollectBroken
<1>2. network' \subseteq network \cup {} /\ BoundInv'
      BY <1>1 DEF IInv, netVars, BoundInv
<1>3. TableInv /\ NewestInv /\ AcceptInv /\ FlagInv
      BY DEF IInv, ServerInv
<1>4. UNCHANGED tableVars /\ UNCHANGED acceptVars /\ sworker' = sworker
      /\ status[id] = "Broken" /\ queued_sockets' = queued_sockets \ {id}
      BY DEF CollectBroken
<1>5. TableInv' /\ NewestInv' /\ FlagInv' /\ PeersKept
      BY <1>3, <1>4, SamePeers DEF TableInv, NewestInv, FlagInv, tableVars, acceptVars
<1>6. AcceptInv'
  <2>1. Cardinality(queued_sockets') <= ACCEPT_QUEUE_SIZE
    <3>1. queued_sockets \in SUBSET Ids /\ queued_sockets' \in SUBSET queued_sockets
          BY <1>3, <1>4 DEF AcceptInv
    <3>2. /\ Cardinality(queued_sockets') <= Cardinality(queued_sockets)
          /\ Cardinality(queued_sockets') \in Nat /\ Cardinality(queued_sockets) \in Nat
          BY <3>1, SmallerQueue, IdsFinite
    <3> QED
        BY <1>3, <3>2, ConnectAssumption DEF AcceptInv
  <2> QED
      BY <1>3, <1>4, <2>1 DEF AcceptInv, AcceptedOnce, Held, tableVars, acceptVars
<1> QED
    BY <1>1, <1>2, <1>5, <1>6, ServerSilent, Zenon DEF ServerInv

(* The newest socket of a client in the table.                             *)
LEMMA PeerSocketNewest ==
  ASSUME NEW c, Existing(c)
  PROVE  /\ PeerSocket(c) \in Ids /\ InTable(PeerSocket(c)) /\ peer[PeerSocket(c)] = c
         /\ \A id \in PeerSockets(c) : PeerSocket(c) <= id
PROOF
<1>1. PeerSockets(c) \in SUBSET Nat /\ PeerSockets(c) # {}
      BY IdsFinite DEF PeerSockets, PeersOf, Existing
<1>2. PeerSocket(c) \in PeerSockets(c) /\ \A id \in PeerSockets(c) : PeerSocket(c) <= id
      BY <1>1, MinExists DEF PeerSocket
<1> QED
    BY <1>2 DEF PeerSockets, PeersOf

(* Handshakes and shutdowns that create no socket.                         *)
LEMMA ListenStep ==
  ASSUME IInv, NEW m \in network,
         ListenRequest(m) \/ ListenBadCookie(m) \/ AnswerAgain(m) \/ ListenShutdown(m)
  PROVE  IInv'
PROOF
<1>1. ServerInv /\ BoundInv /\ NetInv
      BY DEF IInv
<1>2. \A R : Receive(m, R) /\ minute' = minute =>
        network' \subseteq network \cup R /\ BoundInv'
      BY <1>1, ReceiveEffect DEF BoundInv
<1>3. CASE ListenRequest(m)
  <2>1. network' \subseteq network \cup {Challenge(m.client, minute)} /\ BoundInv'
        BY <1>2, <1>3 DEF ListenRequest
  <2>2. UNCHANGED clientVars /\ UNCHANGED serverVars
        BY <1>3 DEF ListenRequest
  <2>3. ServerInv' /\ PeersKept
        BY <1>1, <2>2, ServerKept
  <2>4. m.client \in Clients
        BY <1>1, <1>3 DEF ListenRequest, NetInv, GoodMessage
  <2>5. GoodMessage(Challenge(m.client, minute), peer')
        BY <2>4 DEF GoodMessage, Challenge
  <2> QED
      BY <2>1, <2>2, <2>3, <2>5, ServerSends, Zenon
<1>4. CASE ListenBadCookie(m)
  <2>1. network' \subseteq network \cup {} /\ BoundInv'
        BY <1>2, <1>4 DEF ListenBadCookie
  <2>2. /\ UNCHANGED clientVars /\ UNCHANGED tableVars /\ UNCHANGED acceptVars
        /\ queued_sockets' = queued_sockets /\ sworker' = FALSE
        BY <1>4 DEF ListenBadCookie
  <2>3. TableInv' /\ NewestInv' /\ AcceptInv' /\ PeersKept
        BY <1>1, <2>2, SamePeers
        DEF ServerInv, TableInv, NewestInv, AcceptInv, AcceptedOnce, Held,
            tableVars, acceptVars
  <2>4. FlagInv'
        BY <1>1, <2>2 DEF ServerInv, FlagInv, acceptVars
  <2> QED
      BY <2>1, <2>2, <2>3, <2>4, ServerSilent, Zenon DEF ServerInv
<1>5. CASE AnswerAgain(m)
  <2> DEFINE c == m.client
  <2>1. network' \subseteq network \cup {Reply(c, PeerSocket(c))} /\ BoundInv'
        BY <1>2, <1>5 DEF AnswerAgain
  <2>2. UNCHANGED clientVars /\ UNCHANGED serverVars
        BY <1>5 DEF AnswerAgain
  <2>3. ServerInv' /\ PeersKept
        BY <1>1, <2>2, ServerKept
  <2>4. c \in Clients
        BY <1>1, <1>5 DEF AnswerAgain, NetInv, GoodMessage
  <2>5. PeerSocket(c) \in Ids /\ peer[PeerSocket(c)] = c
        BY <1>5, PeerSocketNewest DEF AnswerAgain
  <2>6. peer' = peer
        BY <2>2 DEF serverVars, tableVars
  <2>7. GoodMessage(Reply(c, PeerSocket(c)), peer')
        BY <2>4, <2>5, <2>6 DEF GoodMessage, Reply
  <2> QED
      BY <2>1, <2>2, <2>3, <2>7, ServerSends, Zenon
<1>6. CASE ListenShutdown(m)
  <2>1. network' \subseteq network \cup {} /\ BoundInv'
        BY <1>2, <1>6 DEF ListenShutdown
  <2>2. UNCHANGED clientVars
        /\ UNCHANGED <<peer, next_socket_id, queued_sockets, sworker, acceptVars>>
        BY <1>6 DEF ListenShutdown
  <2>3. m.socket \in Ids
        BY <1>1, <1>6 DEF ListenShutdown, NetInv, GoodMessage
  <2>4. CASE status[m.socket] = "Connected"
    <3>1. status' = [status EXCEPT ![m.socket] = "Closing"]
          BY <1>6, <2>4 DEF ListenShutdown
    <3>2. ServerInv' /\ PeersKept
          BY <1>1, <2>2, <2>3, <2>4, <3>1, StatusChange
    <3> QED
        BY <2>1, <2>2, <3>2, ServerSilent, Zenon
  <2>5. CASE status[m.socket] # "Connected"
    <3>1. status \in [Ids -> Statuses \cup {"Free"}]
          BY <1>1 DEF ServerInv, TableInv
    <3>2. status' = status
          BY <1>6, <2>3, <2>5, <3>1 DEF ListenShutdown
    <3>3. UNCHANGED serverVars
          BY <2>2, <3>2 DEF serverVars, tableVars
    <3>4. ServerInv' /\ PeersKept
          BY <1>1, <3>3, ServerKept
    <3> QED
        BY <2>1, <2>2, <3>4, ServerSilent, Zenon
  <2> QED
      BY <2>4, <2>5
<1> QED
    BY <1>3, <1>4, <1>5, <1>6

(* notify_one() takes no socket out of the hands of accept().              *)
LEMMA NotifyEffect ==
  ASSUME AcceptInv, FlagInv, NotifyAccept
  PROVE  /\ acceptor' \in [Acceptors ->      [pc : {"look", "park", "parked"}]
                                       \cup [pc : {"got"}, socket : Ids]]
         /\ permit' \in BOOLEAN
         /\ \A a \in Acceptors : \A id \in Ids :
              acceptor'[a] = [pc |-> "got", socket |-> id]
                <=> acceptor[a] = [pc |-> "got", socket |-> id]
PROOF
<1> DEFINE parked == {a \in Acceptors : acceptor[a].pc = "parked"}
<1>1. CASE parked = {}
      BY <1>1 DEF NotifyAccept, AcceptInv, FlagInv
<1>2. CASE parked # {}
  <2>1. PICK a \in parked : acceptor' = [acceptor EXCEPT ![a] = [pc |-> "look"]]
        BY <1>2 DEF NotifyAccept
  <2>2. permit' = permit
        BY <1>2 DEF NotifyAccept
  <2>3. acceptor' \in [Acceptors ->      [pc : {"look", "park", "parked"}]
                                   \cup [pc : {"got"}, socket : Ids]]
        BY <2>1 DEF AcceptInv
  <2>4. acceptor[a].pc = "parked" /\ acceptor'[a].pc = "look"
        BY <2>1 DEF AcceptInv
  <2>5. \A id \in Ids : /\ acceptor[a] # [pc |-> "got", socket |-> id]
                        /\ acceptor'[a] # [pc |-> "got", socket |-> id]
        BY <2>4
  <2>6. \A b \in Acceptors : b # a => acceptor'[b] = acceptor[b]
        BY <2>1 DEF AcceptInv
  <2> QED
      BY <2>2, <2>3, <2>5, <2>6 DEF FlagInv
<1> QED
    BY <1>1, <1>2

(* The queue without the broken socket of the client.                      *)
LEMMA NewConnectionStep ==
  ASSUME IInv, NEW m \in network, NewConnection(m)
  PROVE  IInv'
PROOF
<1> DEFINE c     == m.client
           queue == queued_sockets \ (IF IsBroken(c) THEN {PeerSocket(c)} ELSE {})
           id    == next_socket_id
<1>1. TableInv /\ NewestInv /\ AcceptInv /\ FlagInv /\ BoundInv /\ NetInv
      BY DEF IInv, ServerInv
<1>2. c \in Clients
      BY <1>1 DEF NewConnection, NetInv, GoodMessage
<1>3. id \in Ids /\ next_socket_id' = next_socket_id - 1
      BY DEF NewConnection
<1>4. status[id] = "Free" /\ peer[id] = NoClient
      BY <1>1, <1>3, IdsFinite DEF TableInv
<1>5. UNCHANGED clientVars /\ minute' = minute
      BY DEF NewConnection
<1>6. next_socket_id' \in 0 .. MaxSockets /\ next_socket_id' <= next_socket_id
      BY <1>3, ConnectAssumption DEF Ids
<1>7. \A R : Receive(m, R) => network' \subseteq network \cup R /\ BoundInv'
      BY <1>1, <1>5, ReceiveEffect DEF BoundInv
<1>8. /\ queue \in SUBSET Ids /\ queue \in SUBSET queued_sockets
      /\ Cardinality(queue) \in Nat
      /\ \A x \in Ids : status[x] = "Connected" /\ x \in queued_sockets => x \in queue
  <2>1. queue \in SUBSET Ids /\ queue \in SUBSET queued_sockets
        BY <1>1 DEF AcceptInv
  <2>2. Cardinality(queue) \in Nat
        BY <2>1, IdsFinite
  <2>3. IsBroken(c) => status[PeerSocket(c)] = "Broken"
        BY DEF IsBroken
  <2> QED
      BY <2>1, <2>2, <2>3
<1>9. CASE QueueFull(queue)
  <2>1. /\ sworker' = FALSE /\ queued_sockets' = queue /\ Receive(m, {})
        /\ status' = status /\ peer' = peer /\ UNCHANGED acceptVars
        BY <1>9 DEF NewConnection
  <2>2. network' \subseteq network \cup {} /\ BoundInv'
        BY <1>7, <2>1
  <2>3. TableInv'
        BY <1>1, <1>6, <2>1, IdsFinite DEF TableInv
  <2>4. NewestInv' /\ PeersKept
        BY <1>1, <2>1, SamePeers DEF NewestInv
  <2>5. AcceptInv'
    <3>1. Cardinality(queue) <= ACCEPT_QUEUE_SIZE
      <4>1. queued_sockets \in SUBSET Ids
            BY <1>1 DEF AcceptInv
      <4>2. /\ Cardinality(queue) <= Cardinality(queued_sockets)
            /\ Cardinality(queued_sockets) \in Nat
            BY <1>8, <4>1, SmallerQueue, IdsFinite
      <4> QED
          BY <1>1, <1>8, <4>2, ConnectAssumption DEF AcceptInv
    <3> HIDE DEF queue
    <3> QED
        BY <1>1, <1>8, <2>1, <3>1 DEF AcceptInv, AcceptedOnce, Held, acceptVars
  <2>6. FlagInv'
        BY <1>1, <2>1 DEF FlagInv, acceptVars
  <2> QED
      BY <1>5, <2>2, <2>3, <2>4, <2>5, <2>6, ServerSilent, Zenon DEF ServerInv
<1>10. CASE ~QueueFull(queue)
  <2>1. /\ status' = [status EXCEPT ![id] = "Connected"]
        /\ peer' = [peer EXCEPT ![id] = c]
        /\ queued_sockets' = queue \cup {id}
        /\ NotifyAccept /\ Receive(m, {Reply(c, id)})
        /\ sworker' = sworker /\ accepted' = accepted
        BY <1>10 DEF NewConnection
  <2>2. network' \subseteq network \cup {Reply(c, id)} /\ BoundInv'
        BY <1>7, <2>1
  <2>3. TableInv'
        BY <1>1, <1>2, <1>3, <1>4, <1>6, <2>1, ConnectAssumption, IdsFinite
        DEF TableInv, Statuses
  <2>4. PeersKept
        BY <1>1, <1>4, <2>1 DEF PeersKept, TableInv
  <2>5. GoodMessage(Reply(c, id), peer')
        BY <1>1, <1>2, <1>3, <2>1 DEF GoodMessage, Reply, TableInv
  <2>6. \A i \in Ids : status[i] = "Connected" => peer[i] # c
    <3> SUFFICES ASSUME NEW i \in Ids, status[i] = "Connected", peer[i] = c PROVE FALSE
        OBVIOUS
    <3>1. i \in PeerSockets(c)
          BY <1>2, ConnectAssumption DEF PeerSockets, PeersOf, InTable
    <3>2. Existing(c) /\ status[PeerSocket(c)] = "Broken"
          BY <3>1 DEF Existing, NewConnection, IsBroken
    <3>3. PeerSocket(c) \in Ids /\ peer[PeerSocket(c)] = c /\ PeerSocket(c) <= i
          BY <3>1, <3>2, PeerSocketNewest
    <3>4. i <= PeerSocket(c)
          BY <1>1, <3>3 DEF NewestInv
    <3>5. i \in Nat /\ PeerSocket(c) \in Nat
          BY <3>3, IdsFinite
    <3>6. \A a, b \in Nat : a <= b /\ b <= a => a = b
          OBVIOUS
    <3>7. i = PeerSocket(c)
          BY <3>3, <3>4, <3>5, <3>6
    <3> QED
        BY <3>2, <3>7
  <2>7. NewestInv'
    <3> SUFFICES ASSUME NEW i \in Ids, NEW j \in Ids,
                        status'[i] = "Connected", peer'[i] = peer'[j]
                 PROVE  i <= j
        BY DEF NewestInv
    <3>1. CASE i = id
      <4>1. peer'[i] = c
            BY <1>1, <1>3, <2>1, <3>1 DEF TableInv
      <4>2. j = id \/ peer[j] # NoClient
            BY <1>1, <1>2, <2>1, <4>1, ConnectAssumption DEF TableInv
      <4>3. j = id \/ ~(j <= id)
            BY <1>1, <4>2 DEF TableInv
      <4> QED
          BY <1>3, <3>1, <4>3, IdsFinite
    <3>2. CASE i # id
      <4>1. status[i] = "Connected" /\ peer'[i] = peer[i]
            BY <1>1, <2>1, <3>2 DEF TableInv
      <4>2. j # id
            BY <1>1, <1>3, <2>1, <2>6, <4>1 DEF TableInv
      <4>3. peer'[j] = peer[j]
            BY <1>1, <2>1, <4>2 DEF TableInv
      <4> QED
          BY <1>1, <4>1, <4>3 DEF NewestInv
    <3> QED
        BY <3>1, <3>2
  <2>8. Cardinality(queued_sockets') <= ACCEPT_QUEUE_SIZE
    <3>1. IsFiniteSet(queue)
          BY <1>8, IdsFinite
    <3>2. Cardinality(queue \cup {id}) \in {Cardinality(queue), Cardinality(queue) + 1}
          BY <3>1, FS_AddElement
    <3> HIDE DEF queue
    <3> QED
        BY <1>8, <1>10, <2>1, <3>2, ConnectAssumption DEF QueueFull
  <2>9. AcceptInv' /\ FlagInv'
    <3>1. /\ acceptor' \in [Acceptors ->      [pc : {"look", "park", "parked"}]
                                        \cup [pc : {"got"}, socket : Ids]]
          /\ permit' \in BOOLEAN
          /\ \A a \in Acceptors : \A x \in Ids :
               acceptor'[a] = [pc |-> "got", socket |-> x]
                 <=> acceptor[a] = [pc |-> "got", socket |-> x]
          BY <1>1, <2>1, NotifyEffect
    <3>2. \A x \in Ids : Held(x)' <=> Held(x)
          BY <3>1 DEF Held
    <3>3. \A x \in Ids : x # id => status'[x] = status[x]
          BY <1>1, <2>1 DEF TableInv
    <3>4. status'[id] = "Connected"
          BY <1>1, <1>3, <2>1 DEF TableInv
    <3>5. id \notin queued_sockets /\ id \notin accepted /\ ~Held(id)
          BY <1>1, <1>3, <1>4 DEF AcceptInv
    <3> HIDE DEF queue, id, c
    <3>6. \A x \in Ids : status'[x] = "Free" =>
            x \notin queued_sockets' /\ x \notin accepted' /\ ~Held(x)'
          BY <1>1, <1>8, <2>1, <3>2, <3>3, <3>4 DEF AcceptInv
    <3>7. \A a, b \in Acceptors : \A x \in Ids :
            acceptor'[a] = [pc |-> "got", socket |-> x] /\ acceptor'[b] = acceptor'[a]
              => a = b
          BY <1>1, <3>1 DEF AcceptInv
    <3>8. \A x \in Ids :
            /\ status'[x] = "Connected" =>
                 x \in queued_sockets' \/ Held(x)' \/ x \in accepted'
            /\ x \in queued_sockets' => ~Held(x)' /\ x \notin accepted'
            /\ Held(x)' => x \notin accepted'
          BY <1>1, <1>8, <2>1, <3>2, <3>3, <3>5 DEF AcceptInv, AcceptedOnce
    <3>9. queued_sockets' \subseteq Ids /\ accepted' \subseteq Ids
          BY <1>1, <1>3, <1>8, <2>1 DEF AcceptInv
    <3>10. AcceptInv'
          BY <2>8, <3>1, <3>6, <3>7, <3>8, <3>9 DEF AcceptInv, AcceptedOnce
    <3>11. FlagInv'
          BY <1>1, <2>1, <3>1, Zenon DEF FlagInv
    <3> QED
        BY <3>10, <3>11
  <2>10. ServerInv'
        BY <2>3, <2>7, <2>9 DEF ServerInv
  <2> HIDE DEF id, c
  <2> QED
      BY <1>5, <2>2, <2>4, <2>5, <2>10, ServerSends, Zenon
<1> QED
    BY <1>9, <1>10

(***************************************************************************)
(* accept()                                                                *)
(***************************************************************************)

(* A call that has no socket in its hands goes on without one.             *)
LEMMA AcceptorMoves ==
  ASSUME AcceptInv, NEW a \in Acceptors, acceptor[a].pc # "got",
         NEW pc \in {"look", "park", "parked"},
         acceptor' = [acceptor EXCEPT ![a] = [pc |-> pc]],
         UNCHANGED <<status, queued_sockets, accepted>>
  PROVE  AcceptInv'
PROOF
<1>1. acceptor' \in [Acceptors ->      [pc : {"look", "park", "parked"}]
                                 \cup [pc : {"got"}, socket : Ids]]
      BY DEF AcceptInv
<1>2. \A b \in Acceptors : b # a => acceptor'[b] = acceptor[b]
      BY DEF AcceptInv
<1>3. acceptor'[a].pc # "got"
      BY DEF AcceptInv
<1>4. \A id \in Ids : /\ acceptor[a] # [pc |-> "got", socket |-> id]
                      /\ acceptor'[a] # [pc |-> "got", socket |-> id]
      BY <1>3
<1>5. \A id \in Ids : Held(id)' <=> Held(id)
      BY <1>2, <1>4 DEF Held
<1>6. \A b, d \in Acceptors : \A id \in Ids :
        acceptor'[b] = [pc |-> "got", socket |-> id] /\ acceptor'[d] = acceptor'[b] => b = d
      BY <1>2, <1>4 DEF AcceptInv
<1> QED
    BY <1>1, <1>5, <1>6 DEF AcceptInv, AcceptedOnce

(* The table and the flags do not change in accept().                      *)
LEMMA TableKept ==
  ASSUME ServerInv, UNCHANGED tableVars
  PROVE  TableInv' /\ NewestInv' /\ PeersKept
PROOF
  BY SamePeers DEF ServerInv, TableInv, NewestInv, tableVars

(* The first socket of the queue is taken.                                 *)
LEMMA AcceptTakes ==
  ASSUME AcceptInv, NEW a \in Acceptors, acceptor[a].pc = "look",
         NEW id \in queued_sockets, queued_sockets' = queued_sockets \ {id},
         acceptor' = [acceptor EXCEPT ![a] = [pc |-> "got", socket |-> id]],
         UNCHANGED <<status, accepted>>
  PROVE  AcceptInv'
PROOF
<1>1. queued_sockets \in SUBSET Ids /\ id \in Ids
      BY DEF AcceptInv
<1>2. acceptor' \in [Acceptors ->      [pc : {"look", "park", "parked"}]
                                 \cup [pc : {"got"}, socket : Ids]]
      BY <1>1 DEF AcceptInv
<1>3. Cardinality(queued_sockets') <= ACCEPT_QUEUE_SIZE
  <2>1. /\ Cardinality(queued_sockets') <= Cardinality(queued_sockets)
        /\ Cardinality(queued_sockets') \in Nat /\ Cardinality(queued_sockets) \in Nat
        BY <1>1, SmallerQueue, IdsFinite
  <2> QED
      BY <2>1, ConnectAssumption DEF AcceptInv
<1>4. /\ acceptor'[a] = [pc |-> "got", socket |-> id]
      /\ \A b \in Acceptors : b # a => acceptor'[b] = acceptor[b]
      BY DEF AcceptInv
<1>5. \A x \in Ids : acceptor[a] # [pc |-> "got", socket |-> x]
      OBVIOUS
<1>6. \A x \in Ids : x # id => [pc |-> "got", socket |-> id] # [pc |-> "got", socket |-> x]
      OBVIOUS
<1>7. \A x \in Ids : Held(x)' <=> x = id \/ Held(x)
      BY <1>4, <1>5, <1>6 DEF Held
<1>8. ~Held(id) /\ id \notin accepted /\ status[id] # "Free"
      BY <1>1 DEF AcceptInv, AcceptedOnce
<1>9. \A b \in Acceptors : acceptor[b] # [pc |-> "got", socket |-> id]
      BY <1>8 DEF Held
<1>10. \A b, d \in Acceptors : \A x \in Ids :
         acceptor'[b] = [pc |-> "got", socket |-> x] /\ acceptor'[d] = acceptor'[b] => b = d
      BY <1>4, <1>5, <1>6, <1>9 DEF AcceptInv
<1>11. \A x \in Ids : status'[x] = "Free" =>
         x \notin queued_sockets' /\ x \notin accepted' /\ ~Held(x)'
      BY <1>7, <1>8 DEF AcceptInv
<1>12. \A x \in Ids :
         /\ status'[x] = "Connected" => x \in queued_sockets' \/ Held(x)' \/ x \in accepted'
         /\ x \in queued_sockets' => ~Held(x)' /\ x \notin accepted'
         /\ Held(x)' => x \notin accepted'
      BY <1>7, <1>8 DEF AcceptInv, AcceptedOnce
<1>13. queued_sockets' \subseteq Ids /\ accepted' \subseteq Ids
      BY <1>1 DEF AcceptInv
<1> QED
    BY <1>2, <1>3, <1>10, <1>11, <1>12, <1>13 DEF AcceptInv, AcceptedOnce

(* A socket is handed to the user, unless it has been collected.           *)
LEMMA AcceptGives ==
  ASSUME TableInv, AcceptInv, NEW a \in Acceptors, AcceptReturns(a)
  PROVE  AcceptInv'
PROOF
<1> DEFINE id == acceptor[a].socket
<1>1. /\ acceptor[a].pc = "got" /\ acceptor' = [acceptor EXCEPT ![a] = [pc |-> "look"]]
      /\ status' = status /\ queued_sockets' = queued_sockets
      /\ accepted' = IF InTable(id) THEN accepted \cup {id} ELSE accepted
      BY DEF AcceptReturns, tableVars
<1>2. acceptor[a] = [pc |-> "got", socket |-> id] /\ id \in Ids
      BY <1>1 DEF AcceptInv
<1>3. acceptor' \in [Acceptors ->      [pc : {"look", "park", "parked"}]
                                 \cup [pc : {"got"}, socket : Ids]]
      BY <1>1 DEF AcceptInv
<1>4. /\ acceptor'[a].pc = "look"
      /\ \A b \in Acceptors : b # a => acceptor'[b] = acceptor[b]
      BY <1>1 DEF AcceptInv
<1>5. \A x \in Ids : acceptor'[a] # [pc |-> "got", socket |-> x]
      BY <1>4
<1>6. \A x \in Ids : x # id => acceptor[a] # [pc |-> "got", socket |-> x]
      BY <1>2
<1>7. \A b \in Acceptors : b # a => acceptor[b] # [pc |-> "got", socket |-> id]
      BY <1>2 DEF AcceptInv
<1>8. Held(id)
      BY <1>2 DEF Held
<1> HIDE DEF id
<1>9. \A x \in Ids : Held(x)' <=> x # id /\ Held(x)
      BY <1>4, <1>5, <1>6, <1>7 DEF Held
<1>10. status[id] = "Connected" => id \in accepted'
      BY <1>1 DEF InTable
<1>11. accepted' \subseteq accepted \cup {id} /\ accepted \subseteq accepted'
      BY <1>1
<1>12. status[id] # "Free" /\ id \notin queued_sockets
      BY <1>2, <1>8 DEF AcceptInv, AcceptedOnce
<1>13. \A b, d \in Acceptors : \A x \in Ids :
         acceptor'[b] = [pc |-> "got", socket |-> x] /\ acceptor'[d] = acceptor'[b] => b = d
      BY <1>4, <1>5 DEF AcceptInv
<1>14. \A x \in Ids : status'[x] = "Free" =>
         x \notin queued_sockets' /\ x \notin accepted' /\ ~Held(x)'
      BY <1>1, <1>9, <1>11, <1>12 DEF AcceptInv
<1>15. \A x \in Ids :
         /\ status'[x] = "Connected" => x \in queued_sockets' \/ Held(x)' \/ x \in accepted'
         /\ x \in queued_sockets' => ~Held(x)' /\ x \notin accepted'
         /\ Held(x)' => x \notin accepted'
      BY <1>1, <1>9, <1>10, <1>11, <1>12 DEF AcceptInv, AcceptedOnce
<1>16. queued_sockets' \subseteq Ids /\ accepted' \subseteq Ids
       /\ Cardinality(queued_sockets') <= ACCEPT_QUEUE_SIZE
      BY <1>1, <1>2, <1>11 DEF AcceptInv
<1> QED
    BY <1>3, <1>13, <1>14, <1>15, <1>16 DEF AcceptInv, AcceptedOnce

LEMMA AcceptStep == ASSUME IInv, NEW a \in Acceptors, Accept(a) PROVE IInv'
PROOF
<1>1. ServerInv /\ TableInv /\ AcceptInv /\ FlagInv
      BY DEF IInv, ServerInv
<1>2. UNCHANGED clientVars /\ UNCHANGED tableVars /\ UNCHANGED netVars
      /\ minute' = minute /\ sworker' = sworker
      BY DEF Accept, AcceptLook, AcceptPark, AcceptReturns
<1>3. network' \subseteq network \cup {} /\ BoundInv'
      BY <1>2 DEF IInv, netVars, BoundInv
<1>4. TableInv' /\ NewestInv' /\ PeersKept /\ status' = status
      BY <1>1, <1>2, TableKept DEF tableVars
<1>5. FlagInv'
  <2>1. permit' = permit \/ permit' = FALSE
        BY DEF Accept, AcceptLook, AcceptPark, AcceptReturns
  <2> QED
      BY <1>1, <1>2, <2>1, Zenon DEF FlagInv
<1>6. AcceptInv'
  <2>1. CASE AcceptLook(a) /\ queued_sockets # {}
    <3> DEFINE id == Min(queued_sockets)
    <3>1. queued_sockets \in SUBSET Nat
          BY <1>1, IdsFinite DEF AcceptInv
    <3>2. id \in queued_sockets
          BY <2>1, <3>1, MinExists
    <3>3. /\ acceptor[a].pc = "look" /\ queued_sockets' = queued_sockets \ {id}
          /\ acceptor' = [acceptor EXCEPT ![a] = [pc |-> "got", socket |-> id]]
          /\ accepted' = accepted
          BY <2>1 DEF AcceptLook
    <3> HIDE DEF id
    <3> QED
        BY <1>1, <1>4, <3>2, <3>3, AcceptTakes
  <2>2. CASE AcceptLook(a) /\ queued_sockets = {}
    <3>1. /\ acceptor[a].pc # "got"
          /\ acceptor' = [acceptor EXCEPT ![a] = [pc |-> "park"]]
          /\ UNCHANGED <<status, queued_sockets, accepted>>
          BY <1>4, <2>2 DEF AcceptLook
    <3> QED
        BY <1>1, <3>1, AcceptorMoves
  <2>3. CASE AcceptPark(a)
    <3>1. PICK pc \in {"look", "parked"} :
            acceptor' = [acceptor EXCEPT ![a] = [pc |-> pc]]
          BY <2>3 DEF AcceptPark
    <3>2. acceptor[a].pc # "got" /\ UNCHANGED <<status, queued_sockets, accepted>>
          BY <1>4, <2>3 DEF AcceptPark
    <3> QED
        BY <1>1, <3>1, <3>2, AcceptorMoves
  <2>4. CASE AcceptReturns(a)
        BY <1>1, <2>4, AcceptGives
  <2> QED
      BY <2>1, <2>2, <2>3, <2>4 DEF Accept
<1>7. ServerInv'
      BY <1>4, <1>5, <1>6 DEF ServerInv
<1> QED
    BY <1>2, <1>3, <1>4, <1>7, ServerSilent, Zenon

(***************************************************************************)
(* The theorems                                                            *)
(***************************************************************************)

LEMMA InitInv == Init => IInv
PROOF
<1> SUFFICES ASSUME Init PROVE IInv
    OBVIOUS
<1>1. ClientInv /\ BoundInv
      BY ConnectAssumption DEF Init, ClientInv, BoundInv
<1>2. TableInv
      BY ConnectAssumption DEF Init, TableInv
<1>3. NewestInv /\ NetInv
      BY DEF Init, NewestInv, NetInv
<1>4. EndsAgree
      BY DEF Init, EndsAgree
<1>5. AcceptInv
  <2>1. Cardinality(queued_sockets) = 0
        BY FS_EmptySet DEF Init
  <2>2. \A a \in Acceptors : acceptor[a].pc = "look"
        BY DEF Init
  <2>3. \A id \in Ids : ~Held(id)
        BY <2>2 DEF Held
  <2>4. acceptor \in [Acceptors ->      [pc : {"look", "park", "parked"}]
                                  \cup [pc : {"got"}, socket : Ids]]
        BY DEF Init
  <2>5. \A a, b \in Acceptors : \A id \in Ids :
          acceptor[a] = [pc |-> "got", socket |-> id] /\ acceptor[b] = acceptor[a] => a = b
        BY <2>2
  <2>6. \A id \in Ids : status[id] # "Connected"
        BY DEF Init
  <2>7. queued_sockets = {} /\ accepted = {}
        BY DEF Init
  <2> QED
      BY <2>1, <2>3, <2>4, <2>5, <2>6, <2>7, ConnectAssumption DEF AcceptInv, AcceptedOnce
<1>6. FlagInv
      BY Zenon DEF Init, FlagInv
<1> QED
    BY <1>1, <1>2, <1>3, <1>4, <1>5, <1>6 DEF IInv, ServerInv

LEMMA StepInv == IInv /\ [Next]_vars => IInv'
PROOF
<1> SUFFICES ASSUME IInv, [Next]_vars PROVE IInv'
    OBVIOUS
<1>1. CASE UNCHANGED vars
  <2>1. UNCHANGED clientVars /\ UNCHANGED serverVars /\ UNCHANGED netVars /\ minute' = minute
        BY <1>1 DEF vars
  <2>2. network' \subseteq network \cup {} /\ BoundInv'
        BY <2>1 DEF IInv, netVars, BoundInv
  <2>3. ClientInv' /\ cpeer' = cpeer
        BY <2>1, ClientsKept DEF IInv, clientVars
  <2> QED
      BY <2>1, <2>2, <2>3, ClientSilent, Zenon
<1>2. CASE \E c \in Clients :
             Connect(c) \/ ConnectReturns(c) \/ ClientExpires(c) \/ ClientCloses(c)
      BY <1>2, ConnectStep, LocalStep, ClosesStep
<1>3. CASE \E id \in Ids :
             \/ ServerExpires(id) \/ ServerCloses(id)
             \/ CollectBroken(id) \/ CloseBroken(id) \/ CollectClosing(id)
      BY <1>3, ExpiresStep, ServerClosesStep, CollectStep
<1>4. CASE \E a \in Acceptors : Accept(a)
      BY <1>4, AcceptStep
<1>5. CASE \E m \in network : Arrive(m)
      BY <1>5, ListenStep, NewConnectionStep, ClientArriveStep DEF Arrive, ServerArrive
<1>6. CASE NextMinute \/ \E m \in network : Lose(m)
      BY <1>6, LoseStep
<1> QED
    BY <1>1, <1>2, <1>3, <1>4, <1>5, <1>6 DEF Next

(* The inductive invariant holds for any number of clients and datagrams.  *)
THEOREM ConnectInvariant == Spec => []IInv
PROOF
  BY InitInv, StepInv, PTL DEF Spec

(* Types, and the bound of the accept queue (udt.rs, new_connection).      *)
THEOREM TypeCorrect == Spec => []TypeOK
PROOF
<1>1. IInv => TypeOK
      BY DEF IInv, ClientInv, BoundInv, ServerInv, TableInv, AcceptInv, FlagInv, TypeOK
<1> QED
    BY <1>1, ConnectInvariant, PTL

(* The two ends of a connection agree on who they talk to, whatever socket *)
(* ids and initial numbers the clients choose (udt.rs, get_peer_socket).   *)
THEOREM EndsAgreeCorrect == Spec => []EndsAgree
PROOF
<1>1. IInv => EndsAgree
      BY DEF IInv
<1> QED
    BY <1>1, ConnectInvariant, PTL

(* However many handshakes arrive again or late, a client has at most one  *)
(* live socket at the server, because a live socket is the newest of its   *)
(* client and new_connection looks at the newest (udt.rs).                 *)
THEOREM OneLiveSocketCorrect == Spec => []OneLiveSocket
PROOF
<1>1. IInv => OneLiveSocket
  <2> SUFFICES ASSUME IInv, NEW i \in Ids, NEW j \in Ids,
                      status[i] = "Connected", status[j] = "Connected", peer[i] = peer[j]
               PROVE  i = j
      BY DEF OneLiveSocket
  <2>1. i <= j /\ j <= i
        BY DEF IInv, ServerInv, NewestInv
  <2>2. i \in Nat /\ j \in Nat
        BY IdsFinite
  <2> QED
      BY <2>1, <2>2
<1> QED
    BY <1>1, ConnectInvariant, PTL

(* Every live connection is waiting to be accepted, is being accepted or   *)
(* was accepted, and none is accepted twice (listener.rs, accept; udt.rs,  *)
(* garbage_collect_sockets).                                               *)
THEOREM AcceptedOnceCorrect == Spec => []AcceptedOnce
PROOF
<1>1. IInv => AcceptedOnce
      BY DEF IInv, ServerInv, AcceptInv
<1> QED
    BY <1>1, ConnectInvariant, PTL

(* A client never changes the socket it is connected to (socket.rs,        *)
(* process_ctrl).                                                          *)
THEOREM PeerKeptCorrect == Spec => PeerKept
PROOF
<1>1. ASSUME IInv, [Next]_vars
      PROVE  [\A c \in Clients : cpeer[c] # NoSocket => cpeer'[c] = cpeer[c]]_vars
  <2>1. CASE cpeer' = cpeer
        BY <2>1
  <2>2. CASE \E m \in network : m.type = "reply" /\ ProcessReply(m.client, m)
    <3>1. PICK m \in network : m.type = "reply" /\ ProcessReply(m.client, m)
          BY <2>2
    <3>2. /\ cstatus[m.client] = "Connecting"
          /\ cpeer' = [cpeer EXCEPT ![m.client] = m.socket]
          BY <3>1 DEF ProcessReply
    <3>3. m.client \in Clients
          BY <1>1, <3>1 DEF IInv, NetInv, GoodMessage
    <3>4. cpeer[m.client] = NoSocket
          BY <1>1, <3>2, <3>3 DEF IInv, ClientInv
    <3> QED
        BY <1>1, <3>2, <3>3, <3>4 DEF IInv, ClientInv
  <2> QED
      BY <1>1, <2>1, <2>2
      DEF Next, vars, clientVars, Connect, ConnectReturns, ClientExpires, ClientCloses,
          ServerExpires, ServerCloses, CollectBroken, CloseBroken, CollectClosing,
          Accept, AcceptLook, AcceptPark, AcceptReturns, Arrive, ServerArrive,
          ClientArrive, ListenRequest, ListenBadCookie, AnswerAgain, NewConnection,
          ListenShutdown, ClientIgnores, ProcessChallenge, UnexpectedHandshake,
          ProcessShutdown, Lose, NextMinute
<1> QED
    BY <1>1, ConnectInvariant, PTL DEF Spec, PeerKept

(* While a connection waits to be accepted, not every call of accept()     *)
(* sleeps, however many notifications share the one permit (listener.rs,   *)
(* accept; udt.rs, new_connection).                                        *)
THEOREM NoLostAcceptCorrect == Spec => []NoLostAccept
PROOF
<1> DEFINE Awake == permit \/ \E a \in Acceptors : acceptor[a].pc \in {"look", "got"}
<1>1. Init => NoLostAccept
      BY DEF Init, NoLostAccept
<1>2. ASSUME IInv, NoLostAccept, [Next]_vars
      PROVE  NoLostAccept'
  <2>1. acceptor \in [Acceptors ->      [pc : {"look", "park", "parked"}]
                                  \cup [pc : {"got"}, socket : Ids]]
        BY <1>2 DEF IInv, ServerInv, AcceptInv
  <2>2. CASE UNCHANGED <<permit, acceptor>> /\ queued_sockets' \subseteq queued_sockets
        BY <1>2, <2>2 DEF NoLostAccept
  <2>3. ASSUME NotifyAccept PROVE Awake'
    <3>1. CASE \A a \in Acceptors : acceptor[a].pc # "parked"
          BY <2>3, <3>1 DEF NotifyAccept
    <3>2. CASE \E a \in Acceptors : acceptor[a].pc = "parked"
      <4>1. PICK a \in Acceptors : acceptor' = [acceptor EXCEPT ![a] = [pc |-> "look"]]
            BY <2>3, <3>2 DEF NotifyAccept
      <4>2. acceptor'[a].pc = "look"
            BY <2>1, <4>1
      <4> QED
          BY <4>2
    <3> QED
        BY <3>1, <3>2
  <2>4. ASSUME NEW m \in network, NewConnection(m) PROVE NoLostAccept'
        BY <1>2, <2>2, <2>3, <2>4 DEF NewConnection, NoLostAccept, acceptVars
  <2>5. ASSUME NEW a \in Acceptors, AcceptLook(a) PROVE NoLostAccept'
    <3>1. CASE queued_sockets = {}
          BY <2>5, <3>1 DEF AcceptLook, NoLostAccept
    <3>2. CASE queued_sockets # {}
      <4>1. acceptor' = [acceptor EXCEPT ![a] = [pc |-> "got", socket |-> Min(queued_sockets)]]
            BY <2>5, <3>2 DEF AcceptLook
      <4>2. acceptor'[a].pc = "got"
            BY <2>1, <4>1
      <4> QED
          BY <4>2 DEF NoLostAccept
    <3> QED
        BY <3>1, <3>2
  <2>6. ASSUME NEW a \in Acceptors, AcceptPark(a) PROVE NoLostAccept'
    <3>1. /\ acceptor[a].pc = "park" /\ queued_sockets' = queued_sockets
          /\ \A b \in Acceptors : b # a => acceptor'[b] = acceptor[b]
          BY <2>1, <2>6 DEF AcceptPark
    <3>2. permit => acceptor'[a].pc = "look"
          BY <2>1, <2>6 DEF AcceptPark
    <3> QED
        BY <1>2, <3>1, <3>2 DEF NoLostAccept
  <2>7. ASSUME NEW a \in Acceptors, AcceptReturns(a) PROVE NoLostAccept'
    <3>1. acceptor'[a].pc = "look"
          BY <2>1, <2>7 DEF AcceptReturns
    <3> QED
        BY <3>1 DEF NoLostAccept
  <2> QED
      BY <1>2, <2>2, <2>4, <2>5, <2>6, <2>7
      DEF Next, vars, serverVars, acceptVars, Connect, ConnectReturns, ClientExpires,
          ClientCloses, ServerExpires, ServerCloses, CollectBroken, CloseBroken,
          CollectClosing, Accept, Arrive, ServerArrive, ClientArrive, ListenRequest,
          ListenBadCookie, AnswerAgain, ListenShutdown, ClientIgnores,
          ProcessChallenge, ProcessReply, UnexpectedHandshake, ProcessShutdown, Lose,
          NextMinute
<1> QED
    BY <1>1, <1>2, ConnectInvariant, PTL DEF Spec

(***************************************************************************)
(* No receive worker ends                                                  *)
(***************************************************************************)

(* No datagram arrives twice, the accept queue has room for a connection   *)
(* of every client, and at most one minute begins: no cookie is older than *)
(* the server accepts.  Datagrams may be lost, timers may expire, and      *)
(* connections may be closed.                                              *)
NoRepetition ==
  /\ MaxDups = 0
  /\ MaxMinute <= 1
  /\ IsFiniteSet(Clients)
  /\ Cardinality(Clients) <= ACCEPT_QUEUE_SIZE

IsHandshake(m) == m.type \in {"request", "challenge", "response", "reply"}

(* A client has at most one handshake under way, which is always the next  *)
(* one that is expected, and at most one socket at the server.             *)
OnceInv ==
  /\ \A m \in network : IsHandshake(m) =>
       /\ cstatus[m.client] \notin {"Init", "Connected"}
       /\ \A d \in network : IsHandshake(d) /\ d.client = m.client => d = m
       /\ m.type # "reply" => \A id \in Ids : peer[id] # m.client
       /\ m.type \in {"challenge", "response"} => m.cookie \in 0 .. minute
  /\ \A c \in Clients : cstatus[c] = "Init" => \A id \in Ids : peer[id] # c
  /\ \A i, j \in Ids : peer[i] = peer[j] /\ peer[i] # NoClient => i = j

(* A datagram that arrives is gone.                                        *)
LEMMA ReceivedOnce ==
  ASSUME NoRepetition, IInv, NEW m, NEW R, Receive(m, R)
  PROVE  network' = (network \ {m}) \cup R
PROOF
<1>1. dups \in Nat /\ dups <= 0
      BY DEF NoRepetition, IInv, BoundInv
<1> QED
    BY <1>1 DEF Receive, NoRepetition

(* A step that sends no handshake and creates no socket.                   *)
LEMMA OnceQuiet ==
  ASSUME IInv, OnceInv, peer' = peer,
         minute' = minute \/ minute' = minute + 1,
         \A c \in Clients : cstatus'[c] = cstatus[c] \/ cstatus'[c] \in {"Broken", "Closing"},
         \A m \in network' : IsHandshake(m) => m \in network
  PROVE  OnceInv'
PROOF
<1>1. minute \in Nat /\ minute' \in Nat /\ 0 .. minute \subseteq 0 .. minute'
      BY ConnectAssumption DEF IInv, BoundInv
<1>2. \A m \in network : IsHandshake(m) => m.client \in Clients
      BY DEF IInv, NetInv, GoodMessage, IsHandshake
<1>3. ASSUME NEW m \in network', IsHandshake(m)
      PROVE  /\ cstatus'[m.client] \notin {"Init", "Connected"}
             /\ \A d \in network' : IsHandshake(d) /\ d.client = m.client => d = m
             /\ m.type # "reply" => \A id \in Ids : peer'[id] # m.client
             /\ m.type \in {"challenge", "response"} => m.cookie \in 0 .. minute'
  <2>1. m \in network /\ m.client \in Clients
        BY <1>2, <1>3
  <2>2. cstatus'[m.client] \notin {"Init", "Connected"}
        BY <1>3, <2>1 DEF OnceInv
  <2>3. m.type \in {"challenge", "response"} => m.cookie \in 0 .. minute'
        BY <1>1, <1>3, <2>1 DEF OnceInv
  <2> QED
      BY <1>3, <2>1, <2>2, <2>3 DEF OnceInv
<1>4. \A c \in Clients : cstatus'[c] = "Init" => \A id \in Ids : peer'[id] # c
      BY DEF OnceInv
<1> QED
    BY <1>3, <1>4 DEF OnceInv

(* A step that answers a handshake with the next one.                      *)
LEMMA OnceAnswered ==
  ASSUME IInv, OnceInv, NEW m \in network, NEW d,
         IsHandshake(m), IsHandshake(d), d.client = m.client,
         network' = (network \ {m}) \cup {d},
         cstatus' = cstatus, minute' = minute,
         \A c \in Clients : c # m.client => \A id \in Ids : peer'[id] = c => peer[id] = c,
         d.type # "reply" => \A id \in Ids : peer'[id] # m.client,
         d.type \in {"challenge", "response"} => d.cookie \in 0 .. minute,
         \A i, j \in Ids : peer'[i] = peer'[j] /\ peer'[i] # NoClient => i = j
  PROVE  OnceInv'
PROOF
<1>1. \A n \in network : IsHandshake(n) => n.client \in Clients
      BY DEF IInv, NetInv, GoodMessage, IsHandshake
<1>2. \A n \in network : IsHandshake(n) /\ n # m => n.client # m.client
      BY DEF OnceInv
<1>3. ASSUME NEW n \in network', IsHandshake(n)
      PROVE  /\ cstatus'[n.client] \notin {"Init", "Connected"}
             /\ \A e \in network' : IsHandshake(e) /\ e.client = n.client => e = n
             /\ n.type # "reply" => \A id \in Ids : peer'[id] # n.client
             /\ n.type \in {"challenge", "response"} => n.cookie \in 0 .. minute'
  <2>1. CASE n = d
    <3>1. cstatus'[n.client] \notin {"Init", "Connected"}
          BY <2>1 DEF OnceInv
    <3>2. \A e \in network' : IsHandshake(e) /\ e.client = n.client => e = n
          BY <1>2, <2>1
    <3> QED
        BY <2>1, <3>1, <3>2
  <2>2. CASE n \in network /\ n # m
    <3>1. n.client \in Clients /\ n.client # m.client
          BY <1>1, <1>2, <1>3, <2>2
    <3>2. n.type # "reply" => \A id \in Ids : peer'[id] # n.client
          BY <1>3, <2>2, <3>1 DEF OnceInv
    <3>3. \A e \in network' : IsHandshake(e) /\ e.client = n.client => e = n
          BY <1>3, <2>2, <3>1 DEF OnceInv
    <3> QED
        BY <1>3, <2>2, <3>2, <3>3 DEF OnceInv
  <2> QED
      BY <2>1, <2>2
<1>4. \A c \in Clients : cstatus'[c] = "Init" => \A id \in Ids : peer'[id] # c
  <2>1. cstatus[m.client] # "Init"
        BY DEF OnceInv
  <2> QED
      BY <2>1 DEF OnceInv
<1> QED
    BY <1>3, <1>4 DEF OnceInv

(* The first handshake of a client.                                        *)
LEMMA OnceConnect ==
  ASSUME IInv, OnceInv, NEW c \in Clients, Connect(c)
  PROVE  OnceInv'
PROOF
<1>1. /\ cstatus[c] = "Init"
      /\ cstatus' = [cstatus EXCEPT ![c] = "Connecting"]
      /\ network' = network \cup {Request(c)}
      /\ peer' = peer /\ minute' = minute
      BY DEF Connect, Send, serverVars, tableVars
<1>2. Request(c).type = "request" /\ Request(c).client = c
      BY DEF Request
<1>3. \A m \in network : IsHandshake(m) => m.client \in Clients /\ m.client # c
      BY <1>1 DEF OnceInv, IInv, NetInv, GoodMessage, IsHandshake
<1>4. /\ cstatus'[c] = "Connecting"
      /\ \A b \in Clients : b # c => cstatus'[b] = cstatus[b]
      BY <1>1 DEF IInv, ClientInv
<1>5. ASSUME NEW m \in network', IsHandshake(m)
      PROVE  /\ cstatus'[m.client] \notin {"Init", "Connected"}
             /\ \A d \in network' : IsHandshake(d) /\ d.client = m.client => d = m
             /\ m.type # "reply" => \A id \in Ids : peer'[id] # m.client
             /\ m.type \in {"challenge", "response"} => m.cookie \in 0 .. minute'
  <2>1. CASE m = Request(c)
    <3>1. m.type = "request" /\ m.client = c
          BY <1>2, <2>1
    <3>2. \A d \in network' : IsHandshake(d) /\ d.client = c => d = m
          BY <1>1, <1>3, <2>1
    <3>3. \A id \in Ids : peer'[id] # c
          BY <1>1 DEF OnceInv
    <3> QED
        BY <1>4, <3>1, <3>2, <3>3
  <2>2. CASE m \in network
    <3>1. m.client \in Clients /\ m.client # c
          BY <1>3, <1>5, <2>2
    <3>2. \A d \in network' : IsHandshake(d) /\ d.client = m.client => d = m
          BY <1>1, <1>2, <1>5, <2>2, <3>1 DEF OnceInv
    <3> QED
        BY <1>1, <1>4, <1>5, <2>2, <3>1, <3>2 DEF OnceInv
  <2> QED
      BY <1>1, <2>1, <2>2
<1>6. \A b \in Clients : cstatus'[b] = "Init" => \A id \in Ids : peer'[id] # b
      BY <1>1, <1>4 DEF OnceInv
<1>7. \A i, j \in Ids : peer'[i] = peer'[j] /\ peer'[i] # NoClient => i = j
      BY <1>1 DEF OnceInv
<1> QED
    BY <1>5, <1>6, <1>7 DEF OnceInv

(* The reply that connects a client was its only handshake.                *)
LEMMA OnceReply ==
  ASSUME NoRepetition, IInv, OnceInv, NEW m \in network, m.type = "reply",
         ProcessReply(m.client, m)
  PROVE  OnceInv'
PROOF
<1>1. /\ network' = (network \ {m}) \cup {}
      /\ peer' = peer /\ minute' = minute
      /\ cstatus' = [cstatus EXCEPT ![m.client] = "Connected"]
      BY ReceivedOnce DEF ProcessReply, serverVars, tableVars
<1>2. IsHandshake(m) /\ m.client \in Clients
      BY DEF IsHandshake, IInv, NetInv, GoodMessage
<1>3. /\ cstatus'[m.client] = "Connected"
      /\ \A c \in Clients : c # m.client => cstatus'[c] = cstatus[c]
      BY <1>1, <1>2 DEF IInv, ClientInv
<1>4. ASSUME NEW n \in network', IsHandshake(n)
      PROVE  n \in network /\ n.client \in Clients /\ n.client # m.client
      BY <1>1, <1>2, <1>4 DEF OnceInv, IInv, NetInv, GoodMessage, IsHandshake
<1>5. \A n \in network' : IsHandshake(n) =>
        /\ cstatus'[n.client] \notin {"Init", "Connected"}
        /\ \A d \in network' : IsHandshake(d) /\ d.client = n.client => d = n
        /\ n.type # "reply" => \A id \in Ids : peer'[id] # n.client
        /\ n.type \in {"challenge", "response"} => n.cookie \in 0 .. minute'
      BY <1>1, <1>3, <1>4 DEF OnceInv
<1>6. \A c \in Clients : cstatus'[c] = "Init" => \A id \in Ids : peer'[id] # c
      BY <1>1, <1>3 DEF OnceInv
<1>7. \A i, j \in Ids : peer'[i] = peer'[j] /\ peer'[i] # NoClient => i = j
      BY <1>1 DEF OnceInv
<1> QED
    BY <1>5, <1>6, <1>7 DEF OnceInv

(* While a client without a socket asks for one, the accept queue has      *)
(* room: it holds at most one socket of every other client.                *)
LEMMA QueueHasRoom ==
  ASSUME NoRepetition, IInv, OnceInv, NEW c \in Clients, \A id \in Ids : peer[id] # c
  PROVE  ~QueueFull(queued_sockets)
PROOF
<1> DEFINE f == [id \in queued_sockets |-> peer[id]]
           T == Clients \ {c}
<1>1. queued_sockets \subseteq Ids /\ peer \in [Ids -> Clients \cup {NoClient}]
      BY DEF IInv, ServerInv, AcceptInv, TableInv
<1>2. \A id \in queued_sockets : peer[id] # NoClient
      BY <1>1 DEF IInv, ServerInv, AcceptInv, TableInv
<1>3. f \in [queued_sockets -> T]
      BY <1>1, <1>2
<1>4. \A i, j \in queued_sockets : f[i] = f[j] => i = j
      BY <1>1, <1>2 DEF OnceInv
<1>5. f \in Injection(queued_sockets, T)
      BY <1>3, <1>4 DEF Injection, IsInjective
<1>6. /\ IsFiniteSet(T)
      /\ Cardinality(T) = Cardinality(Clients) - 1
      BY FS_RemoveElement DEF NoRepetition
<1>7. Cardinality(queued_sockets) <= Cardinality(T)
      BY <1>5, <1>6, FS_Injection
<1>8. Cardinality(Clients) \in Nat /\ Cardinality(queued_sockets) \in Nat
      BY <1>1, IdsFinite, FS_CardinalityType DEF NoRepetition
<1> QED
    BY <1>6, <1>7, <1>8, ConnectAssumption DEF NoRepetition, QueueFull

(* A socket for the client whose response arrives.                         *)
LEMMA OnceNewConnection ==
  ASSUME NoRepetition, IInv, OnceInv, NEW m \in network, NewConnection(m)
  PROVE  OnceInv' /\ sworker' = sworker
PROOF
<1> DEFINE c  == m.client
           id == next_socket_id
<1>1. m.type = "response" /\ IsHandshake(m) /\ c \in Clients
      BY DEF NewConnection, IsHandshake, IInv, NetInv, GoodMessage
<1>2. \A i \in Ids : peer[i] # c
      BY <1>1 DEF OnceInv
<1>3. ~IsBroken(c)
      BY <1>2 DEF IsBroken, Existing, PeerSockets, PeersOf
<1>4. ~QueueFull(queued_sockets)
      BY <1>1, <1>2, QueueHasRoom
<1>5. queued_sockets \ (IF IsBroken(c) THEN {PeerSocket(c)} ELSE {}) = queued_sockets
      BY <1>3
<1>6. /\ id \in Ids
      /\ peer' = [peer EXCEPT ![id] = c]
      /\ Receive(m, {Reply(c, id)})
      /\ sworker' = sworker
      /\ cstatus' = cstatus /\ minute' = minute
      BY <1>4, <1>5 DEF NewConnection, clientVars
<1>7. network' = (network \ {m}) \cup {Reply(c, id)}
      BY <1>6, ReceivedOnce
<1>8. /\ IsHandshake(Reply(c, id)) /\ Reply(c, id).client = c
      /\ Reply(c, id).type = "reply"
      BY DEF Reply, IsHandshake
<1>9. peer'[id] = c /\ \A i \in Ids : i # id => peer'[i] = peer[i]
      BY <1>6 DEF IInv, ServerInv, TableInv
<1>10. \A b \in Clients : b # c => \A i \in Ids : peer'[i] = b => peer[i] = b
      BY <1>9
<1>11. \A i, j \in Ids : peer'[i] = peer'[j] /\ peer'[i] # NoClient => i = j
      BY <1>2, <1>9 DEF OnceInv
<1> HIDE DEF c, id
<1>12. OnceInv'
      BY <1>1, <1>6, <1>7, <1>8, <1>10, <1>11, OnceAnswered DEF c
<1> QED
    BY <1>6, <1>12

(* Every step keeps OnceInv, and no worker ends.                           *)
LEMMA NextOnce ==
  ASSUME NoRepetition, IInv, OnceInv, WorkersRun, [Next]_vars
  PROVE  OnceInv' /\ WorkersRun'
PROOF
<1>1. ASSUME peer' = peer, minute' = minute \/ minute' = minute + 1, cstatus' = cstatus,
             \A m \in network' : IsHandshake(m) => m \in network
      PROVE  OnceInv'
      BY <1>1, OnceQuiet
<1>2. ASSUME UNCHANGED <<sworker, cworker>> PROVE WorkersRun'
      BY <1>2 DEF WorkersRun
<1>3. ASSUME NEW c \in Clients, Connect(c) PROVE OnceInv' /\ WorkersRun'
      BY <1>2, <1>3, OnceConnect DEF Connect, serverVars
<1>4. ASSUME NEW c \in Clients, ConnectReturns(c) PROVE OnceInv' /\ WorkersRun'
      BY <1>1, <1>2, <1>4 DEF ConnectReturns, serverVars, tableVars, netVars
<1>5. ASSUME NEW c \in Clients, ClientExpires(c) \/ ClientCloses(c)
      PROVE  OnceInv' /\ WorkersRun'
  <2>1. /\ peer' = peer /\ minute' = minute
        /\ cstatus' = [cstatus EXCEPT ![c] = "Broken"]
           \/ cstatus' = [cstatus EXCEPT ![c] = "Closing"]
        /\ UNCHANGED <<sworker, cworker>>
        BY <1>5 DEF ClientExpires, ClientCloses, serverVars, tableVars
  <2>2. \A m \in network' : IsHandshake(m) => m \in network
        BY <1>5 DEF ClientExpires, ClientCloses, Send, ClientShutdown, netVars, IsHandshake
  <2>3. \A b \in Clients : cstatus'[b] = cstatus[b] \/ cstatus'[b] \in {"Broken", "Closing"}
        BY <2>1 DEF IInv, ClientInv
  <2> QED
      BY <1>2, <2>1, <2>2, <2>3, OnceQuiet
<1>6. ASSUME NEW id \in Ids,
             \/ ServerExpires(id) \/ ServerCloses(id)
             \/ CollectBroken(id) \/ CloseBroken(id) \/ CollectClosing(id)
      PROVE  OnceInv' /\ WorkersRun'
  <2>1. /\ peer' = peer /\ minute' = minute /\ cstatus' = cstatus
        /\ UNCHANGED <<sworker, cworker>>
        BY <1>6 DEF ServerExpires, ServerCloses, CollectBroken, CloseBroken,
                    CollectClosing, clientVars, tableVars
  <2>2. \A m \in network' : IsHandshake(m) => m \in network
        BY <1>6 DEF ServerExpires, ServerCloses, CollectBroken, CloseBroken,
                    CollectClosing, netVars, Send, ServerShutdown, IsHandshake
  <2> QED
      BY <1>1, <1>2, <2>1, <2>2
<1>7. ASSUME NEW a \in Acceptors, Accept(a) PROVE OnceInv' /\ WorkersRun'
      BY <1>1, <1>2, <1>7 DEF Accept, AcceptLook, AcceptPark, AcceptReturns, clientVars,
                              tableVars, netVars
<1>8. ASSUME (\E m \in network : Lose(m)) \/ NextMinute \/ UNCHANGED vars
      PROVE  OnceInv' /\ WorkersRun'
      BY <1>1, <1>2, <1>8 DEF Lose, NextMinute, vars, clientVars, serverVars, tableVars, netVars
<1>9. ASSUME NEW m \in network, ListenRequest(m) PROVE OnceInv' /\ WorkersRun'
  <2>1. /\ peer' = peer /\ minute' = minute /\ cstatus' = cstatus
        /\ UNCHANGED <<sworker, cworker>>
        /\ m.type = "request" /\ IsHandshake(m)
        BY <1>9 DEF ListenRequest, clientVars, serverVars, tableVars, IsHandshake
  <2>2. network' = (network \ {m}) \cup {Challenge(m.client, minute)}
        BY <1>9, ReceivedOnce DEF ListenRequest
  <2>3. /\ IsHandshake(Challenge(m.client, minute))
        /\ Challenge(m.client, minute).client = m.client
        /\ Challenge(m.client, minute).cookie = minute
        BY DEF Challenge, IsHandshake
  <2>4. minute \in 0 .. minute
        BY ConnectAssumption DEF IInv, BoundInv
  <2>5. /\ \A i, j \in Ids : peer'[i] = peer'[j] /\ peer'[i] # NoClient => i = j
        /\ \A id \in Ids : peer'[id] # m.client
        BY <2>1 DEF OnceInv
  <2>6. OnceInv'
        BY <2>1, <2>2, <2>3, <2>4, <2>5, OnceAnswered
  <2> QED
      BY <1>2, <2>1, <2>6
<1>10. ASSUME NEW m \in network, ListenBadCookie(m) PROVE FALSE
  <2>1. m.type = "response" /\ ~(m.cookie \in {minute, minute - 1})
        BY <1>10 DEF ListenBadCookie, ValidCookie
  <2>2. m.cookie \in 0 .. minute
        BY <2>1 DEF OnceInv, IsHandshake
  <2>3. minute \in Nat /\ minute <= 1
        BY ConnectAssumption DEF IInv, BoundInv, NoRepetition
  <2> QED
      BY <2>1, <2>2, <2>3
<1>11. ASSUME NEW m \in network, AnswerAgain(m) PROVE FALSE
  <2>1. m.type = "response" /\ PeerSockets(m.client) # {}
        BY <1>11 DEF AnswerAgain, Existing
  <2>2. \A id \in Ids : peer[id] # m.client
        BY <2>1 DEF OnceInv, IsHandshake
  <2> QED
      BY <2>1, <2>2 DEF PeerSockets, PeersOf
<1>12. ASSUME NEW m \in network, NewConnection(m) PROVE OnceInv' /\ WorkersRun'
  <2>1. OnceInv' /\ sworker' = sworker
        BY <1>12, OnceNewConnection
  <2>2. cworker' = cworker
        BY <1>12 DEF NewConnection, clientVars
  <2> QED
      BY <1>2, <2>1, <2>2
<1>13. ASSUME NEW m \in network, ListenShutdown(m) PROVE OnceInv' /\ WorkersRun'
      BY <1>1, <1>2, <1>13, ReceivedOnce DEF ListenShutdown, clientVars
<1>14. ASSUME NEW m \in network, ClientArrive(m) PROVE OnceInv' /\ WorkersRun'
  <2>1. CASE ClientIgnores(m.client, m)
        BY <1>1, <1>2, <2>1, ReceivedOnce DEF ClientIgnores, clientVars, serverVars, tableVars
  <2>2. CASE m.type = "challenge" /\ ProcessChallenge(m.client, m)
    <3> DEFINE d == Response(m.client, m.cookie)
    <3>1. /\ peer' = peer /\ minute' = minute /\ cstatus' = cstatus
          /\ UNCHANGED <<sworker, cworker>> /\ IsHandshake(m)
          BY <2>2 DEF ProcessChallenge, serverVars, tableVars, IsHandshake
    <3>2. network' = (network \ {m}) \cup {d}
          BY <2>2, ReceivedOnce DEF ProcessChallenge
    <3>3. IsHandshake(d) /\ d.client = m.client /\ d.cookie = m.cookie
          BY DEF Response, IsHandshake
    <3>4. /\ \A i, j \in Ids : peer'[i] = peer'[j] /\ peer'[i] # NoClient => i = j
          /\ \A id \in Ids : peer'[id] # m.client
          /\ m.cookie \in 0 .. minute
          BY <2>2, <3>1 DEF OnceInv
    <3> HIDE DEF d
    <3>5. OnceInv'
          BY <3>1, <3>2, <3>3, <3>4, OnceAnswered
    <3> QED
        BY <1>2, <3>1, <3>5
  <2>3. CASE m.type = "reply" /\ ProcessReply(m.client, m)
        BY <1>2, <2>3, OnceReply DEF ProcessReply, serverVars
  <2>4. CASE m.type # "sshutdown" /\ UnexpectedHandshake(m.client, m)
    <3>1. IsHandshake(m) /\ cstatus[m.client] = "Connected"
          BY <1>14, <2>4 DEF ClientArrive, UnexpectedHandshake, IsHandshake
    <3> QED
        BY <3>1 DEF OnceInv
  <2>5. CASE m.type = "sshutdown" /\ ProcessShutdown(m.client, m)
    <3>1. /\ peer' = peer /\ minute' = minute
          /\ cstatus' = [cstatus EXCEPT ![m.client] = "Closing"]
          /\ UNCHANGED <<sworker, cworker>>
          BY <2>5 DEF ProcessShutdown, serverVars, tableVars
    <3>2. network' \subseteq network
          BY <2>5, ReceivedOnce DEF ProcessShutdown
    <3>3. \A b \in Clients : cstatus'[b] = cstatus[b] \/ cstatus'[b] \in {"Broken", "Closing"}
          BY <3>1 DEF IInv, ClientInv
    <3> QED
        BY <1>2, <3>1, <3>2, <3>3, OnceQuiet
  <2> QED
      BY <1>14, <2>1, <2>2, <2>3, <2>4, <2>5 DEF ClientArrive
<1> QED
    BY <1>3, <1>4, <1>5, <1>6, <1>7, <1>8, <1>9, <1>10, <1>11, <1>12, <1>13, <1>14
    DEF Next, Arrive, ServerArrive

(* Without repeated datagrams no receive worker ends with an error, for    *)
(* any number of clients and sockets, although datagrams are lost, timers  *)
(* expire and connections are closed: every handshake that arrives is the  *)
(* one that is expected, and a queue with a place for every client is      *)
(* never full (socket.rs, process_ctrl and listen_on_handshake; udt.rs,    *)
(* new_connection; multiplexer.rs, run).                                   *)
THEOREM WorkersRunCorrect ==
  ASSUME NoRepetition
  PROVE  Spec => []WorkersRun
PROOF
<1>1. Init => OnceInv /\ WorkersRun
  <2> SUFFICES ASSUME Init PROVE OnceInv /\ WorkersRun
      OBVIOUS
  <2>1. network = {} /\ \A id \in Ids : peer[id] = NoClient
      BY DEF Init
  <2>2. OnceInv
      BY <2>1, ConnectAssumption DEF OnceInv
  <2>3. WorkersRun
      BY DEF Init, WorkersRun
  <2> QED
      BY <2>2, <2>3
<1>2. IInv /\ OnceInv /\ WorkersRun /\ [Next]_vars => OnceInv' /\ WorkersRun'
      BY NextOnce
<1> QED
    BY <1>1, <1>2, ConnectInvariant, PTL DEF Spec
=============================================================================
