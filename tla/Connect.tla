------------------------------ MODULE Connect ------------------------------
(***************************************************************************)
(* Setting up connections: connect() of connection.rs and socket.rs, the   *)
(* handshake of the listener (socket.rs, listen_on_handshake and udt.rs,   *)
(* new_connection), the accept queue and accept() of listener.rs, and the  *)
(* end of connections as far as it matters here (the EXP timer, close()    *)
(* and the collection of sockets in udt.rs).                               *)
(*                                                                         *)
(* Each client is a socket with a multiplexer of its own, hence with its   *)
(* own address; the server is a listener and the sockets it creates, all   *)
(* on one multiplexer.  A receive worker ends for good when it gets an     *)
(* error from a handler (rcv_queue.rs, worker; multiplexer.rs, run).       *)
(***************************************************************************)
EXTENDS Integers, FiniteSets, FiniteSetsExt

CONSTANTS
  Clients,
  PeerKey,                \* socket id and initial number each client chose
  Acceptors,              \* tasks that call accept() in a loop
  NoClient,
  ACCEPT_QUEUE_SIZE,
  Timers,                 \* whether EXP timers give up and users close
  MaxSockets,             \* bound: ids the server hands out, before they wrap
  MaxMinute,              \* bound: minutes, after which cookies change
  MaxDups,                \* bound: datagrams that arrive twice
  MaxLosses               \* bound: datagrams lost

ASSUME ConnectAssumption ==
  /\ DOMAIN PeerKey = Clients
  /\ NoClient \notin Clients
  /\ ACCEPT_QUEUE_SIZE \in Nat
  /\ Timers \in BOOLEAN
  /\ MaxSockets \in Nat
  /\ MaxMinute \in Nat
  /\ MaxDups \in Nat
  /\ MaxLosses \in Nat

VARIABLES
  (* The clients *)
  cstatus,                \* status of the socket
  cpeer,                  \* peer_socket_id, NoSocket before it is known
  polled,                 \* the receive queue checks the timers of the socket
  cworker,                \* the receive worker is running
  call,                   \* where the call of connect() is
  (* The server *)
  status,                 \* status of each socket; "Free" if not created yet
  peer,                   \* client of each socket
  next_socket_id,         \* counts downwards
  queued_sockets,         \* the accept queue
  sworker,                \* the receive worker is running
  permit,                 \* the permit of accept_notify
  acceptor,               \* where each call of accept() is
  accepted,               \* sockets that accept() has returned
  (* The network and the clock *)
  network,
  dups,
  losses,
  minute                  \* age of the listener

clientVars == <<cstatus, cpeer, polled, cworker, call>>
tableVars  == <<status, peer, next_socket_id>>
acceptVars == <<permit, acceptor, accepted>>
serverVars == <<tableVars, queued_sockets, sworker, acceptVars>>
netVars    == <<network, dups, losses>>
vars       == <<clientVars, serverVars, netVars, minute>>

Ids      == 1 .. MaxSockets
NoSocket == 0

(***************************************************************************)
(* The network: handshakes of the types 1 and -1 in both directions, and   *)
(* shutdowns.  A datagram is lost or arrives once, or twice if it is one   *)
(* of MaxDups, at any later moment and in any order.                       *)
(***************************************************************************)

Request(c)          == [type |-> "request", client |-> c]
Challenge(c, k)     == [type |-> "challenge", client |-> c, cookie |-> k]
Response(c, k)      == [type |-> "response", client |-> c, cookie |-> k]
Reply(c, id)        == [type |-> "reply", client |-> c, socket |-> id]
ClientShutdown(id)  == [type |-> "cshutdown", socket |-> id]
ServerShutdown(c)   == [type |-> "sshutdown", client |-> c]

Send(m) == network' = network \cup {m} /\ UNCHANGED <<dups, losses>>

Receive(m, replies) ==
  /\ \/ network' = (network \ {m}) \cup replies /\ UNCHANGED dups
     \/ dups < MaxDups /\ dups' = dups + 1 /\ network' = network \cup replies
  /\ UNCHANGED losses

Lose(m) ==
  /\ losses < MaxLosses
  /\ losses' = losses + 1
  /\ network' = network \ {m}
  /\ UNCHANGED <<clientVars, serverVars, dups, minute>>

Init ==
  /\ cstatus = [c \in Clients |-> "Init"]
  /\ cpeer = [c \in Clients |-> NoSocket]
  /\ polled = {}
  /\ cworker = Clients
  /\ call = [c \in Clients |-> "none"]
  /\ status = [id \in Ids |-> "Free"]
  /\ peer = [id \in Ids |-> NoClient]
  /\ next_socket_id = MaxSockets
  /\ queued_sockets = {}
  /\ sworker = TRUE
  /\ permit = FALSE
  /\ acceptor = [a \in Acceptors |-> [pc |-> "look"]]
  /\ accepted = {}
  /\ network = {}
  /\ dups = 0
  /\ losses = 0
  /\ minute = 0

IsAlive(s) == s \in {"Connecting", "Connected"}

(***************************************************************************)
(* The clients                                                             *)
(***************************************************************************)

(* connect(): the socket is opened, gets its multiplexer and sends the     *)
(* first handshake.  Nothing repeats it.                                   *)
Connect(c) ==
  /\ cstatus[c] = "Init"
  /\ cstatus' = [cstatus EXCEPT ![c] = "Connecting"]
  /\ call' = [call EXCEPT ![c] = "waiting"]
  /\ Send(Request(c))
  /\ UNCHANGED <<cpeer, polled, cworker, serverVars, minute>>

(* Mutant of WakeConnect: the waiting call is not told.                    *)
WakeConnectForgotten(c) == UNCHANGED call

(* connect_notify.notify_waiters(): wait_for_connection registers under    *)
(* the lock of the status, so that it misses none.                         *)
WakeConnect(c) ==
  call' = [call EXCEPT ![c] = IF @ = "waiting" THEN "woken" ELSE @]

(* _bind_and_connect returns Ok with any status but Connecting.            *)
ConnectReturns(c) ==
  /\ call[c] = "woken"
  /\ call' = [call EXCEPT ![c] = "ok"]
  /\ UNCHANGED <<cstatus, cpeer, polled, cworker, serverVars, netVars, minute>>

(* The worker hands a datagram to a socket that is alive and looks after   *)
(* its timers from then on.                                                *)
ClientReceives(c) ==
  /\ c \in cworker
  /\ IsAlive(cstatus[c])
  /\ polled' = polled \cup {c}

(* A datagram for a socket that is not alive is ignored, and nothing reads *)
(* it when the worker has ended.                                           *)
ClientIgnores(c, m) ==
  /\ c \notin cworker \/ ~IsAlive(cstatus[c])
  /\ Receive(m, {})
  /\ UNCHANGED <<clientVars, serverVars, minute>>

(* process_ctrl, a handshake of a positive type: the cookie is returned.   *)
ProcessChallenge(c, m) ==
  /\ ClientReceives(c)
  /\ cstatus[c] = "Connecting"
  /\ Receive(m, {Response(c, m.cookie)})
  /\ UNCHANGED <<cstatus, cpeer, cworker, call, serverVars, minute>>

(* A handshake of a negative type: the connection is set up.               *)
ProcessReply(c, m) ==
  /\ ClientReceives(c)
  /\ cstatus[c] = "Connecting"
  /\ cstatus' = [cstatus EXCEPT ![c] = "Connected"]
  /\ cpeer' = [cpeer EXCEPT ![c] = m.socket]
  /\ WakeConnect(c)
  /\ Receive(m, {})
  /\ UNCHANGED <<cworker, serverVars, minute>>

(* Any handshake for a socket that is not connecting is an error.  (The    *)
(* socket is not put back among those whose timers are checked, but stays  *)
(* there if it was; the worker that would check them has ended.)           *)
UnexpectedHandshake(c, m) ==
  /\ c \in cworker
  /\ cstatus[c] = "Connected"
  /\ cworker' = cworker \ {c}
  /\ Receive(m, {})
  /\ UNCHANGED <<cstatus, cpeer, polled, call, serverVars, minute>>

ProcessShutdown(c, m) ==
  /\ ClientReceives(c)
  /\ cstatus' = [cstatus EXCEPT ![c] = "Closing"]
  /\ WakeConnect(c)
  /\ Receive(m, {})
  /\ UNCHANGED <<cpeer, cworker, serverVars, minute>>

(* check_timers gives the connection up and tells nobody.                  *)
ClientExpires(c) ==
  /\ Timers
  /\ c \in polled /\ c \in cworker
  /\ IsAlive(cstatus[c])
  /\ cstatus' = [cstatus EXCEPT ![c] = "Broken"]
  /\ UNCHANGED <<cpeer, polled, cworker, call, serverVars, netVars, minute>>

(* close(), by the user who has the connection or, for a broken one, by    *)
(* the cleanup task.                                                       *)
ClientCloses(c) ==
  /\ Timers
  /\ cstatus[c] = "Broken" \/ (cstatus[c] = "Connected" /\ call[c] = "ok")
  /\ cstatus' = [cstatus EXCEPT ![c] = "Closing"]
  /\ WakeConnect(c)
  /\ IF cstatus[c] = "Connected" THEN Send(ClientShutdown(cpeer[c]))
                                 ELSE UNCHANGED netVars
  /\ UNCHANGED <<cpeer, polled, cworker, serverVars, minute>>

(***************************************************************************)
(* The server                                                              *)
(***************************************************************************)

(* A socket is in the table from its creation until it is collected.       *)
InTable(id) == status[id] \in {"Connected", "Broken", "Closing"}

(* The map of peers is never cleaned: it has every socket ever created.    *)
PeersOf(key) == {id \in Ids : peer[id] # NoClient /\ PeerKey[peer[id]] = key}

(* Mutant of PeerSockets: the address is not compared.                     *)
PeerSocketsAnywhere(c) == {id \in PeersOf(PeerKey[c]) : InTable(id)}

(* get_peer_socket: the sockets in the table with this key and this        *)
(* address, of which the first in the order of ids is taken.               *)
PeerSockets(c) == {id \in PeersOf(PeerKey[c]) : InTable(id) /\ peer[id] = c}

(* Mutant of PeerSocket: ids taken for growing ones.                       *)
PeerSocketLast(c) == Max(PeerSockets(c))

PeerSocket(c) == Min(PeerSockets(c))

(* Mutant of NotifyAccept: only those that wait already are told, as       *)
(* notify_waiters would do.                                                *)
NotifyAcceptWaiters ==
  /\ acceptor' = [a \in Acceptors |-> IF acceptor[a].pc = "parked"
                                      THEN [pc |-> "look"] ELSE acceptor[a]]
  /\ UNCHANGED permit

(* accept_notify.notify_one(): one that waits is woken, otherwise a permit *)
(* is kept, and there is only one.                                         *)
NotifyAccept ==
  LET parked == {a \in Acceptors : acceptor[a].pc = "parked"}
  IN  IF parked = {} THEN permit' = TRUE /\ UNCHANGED acceptor
      ELSE /\ \E a \in parked : acceptor' = [acceptor EXCEPT ![a] = [pc |-> "look"]]
           /\ UNCHANGED permit

(* listen_on_handshake, type 1: a cookie for this address and minute.      *)
ListenRequest(m) ==
  /\ m.type = "request"
  /\ sworker
  /\ Receive(m, {Challenge(m.client, minute)})
  /\ UNCHANGED <<clientVars, serverVars, minute>>

(* Mutant of ValidCookie: only the cookie of this minute.                  *)
ValidCookieNow(k) == k = minute

(* The cookie of a response is the one of this minute or of the last.      *)
ValidCookie(k) == k \in {minute, minute - 1}

ListenBadCookie(m) ==
  /\ m.type = "response"
  /\ sworker
  /\ ~ValidCookie(m.cookie)
  /\ sworker' = FALSE
  /\ Receive(m, {})
  /\ UNCHANGED <<clientVars, tableVars, queued_sockets, acceptVars, minute>>

(* new_connection: the client has a socket, broken or not.                 *)
Existing(c) == PeerSockets(c) # {}
IsBroken(c) == Existing(c) /\ status[PeerSocket(c)] = "Broken"

(* "Respond with existing socket configuration."                           *)
AnswerAgain(m) ==
  /\ m.type = "response"
  /\ sworker
  /\ ValidCookie(m.cookie)
  /\ Existing(m.client) /\ ~IsBroken(m.client)
  /\ Receive(m, {Reply(m.client, PeerSocket(m.client))})
  /\ UNCHANGED <<clientVars, serverVars, minute>>

(* Mutant of QueueFull: off by one.                                        *)
QueueFullLate(queue) == Cardinality(queue) > ACCEPT_QUEUE_SIZE

QueueFull(queue) == Cardinality(queue) >= ACCEPT_QUEUE_SIZE

(* A broken socket leaves the accept queue, and a new one is created, with *)
(* an id of its own, unless the accept queue is full.                      *)
NewConnection(m) ==
  LET c     == m.client
      queue == queued_sockets \ (IF IsBroken(c) THEN {PeerSocket(c)} ELSE {})
      id    == next_socket_id
  IN  /\ m.type = "response"
      /\ sworker
      /\ ValidCookie(m.cookie)
      /\ Existing(c) => IsBroken(c)
      /\ next_socket_id \in Ids
      /\ next_socket_id' = next_socket_id - 1
      /\ IF QueueFull(queue)
         THEN /\ sworker' = FALSE
              /\ queued_sockets' = queue
              /\ Receive(m, {})
              /\ UNCHANGED <<status, peer, acceptVars>>
         ELSE /\ status' = [status EXCEPT ![id] = "Connected"]
              /\ peer' = [peer EXCEPT ![id] = c]
              /\ queued_sockets' = queue \cup {id}
              /\ NotifyAccept
              /\ Receive(m, {Reply(c, id)})
              /\ UNCHANGED <<sworker, accepted>>
      /\ UNCHANGED <<clientVars, minute>>

(* A shutdown for a server socket.                                         *)
ListenShutdown(m) ==
  /\ m.type = "cshutdown"
  /\ sworker
  /\ status' = [status EXCEPT ![m.socket] = IF @ = "Connected" THEN "Closing" ELSE @]
  /\ Receive(m, {})
  /\ UNCHANGED <<clientVars, peer, next_socket_id, queued_sockets, sworker,
                 acceptVars, minute>>

(* The timers of a server socket are checked from its creation on.         *)
ServerExpires(id) ==
  /\ Timers
  /\ sworker
  /\ status[id] = "Connected"
  /\ status' = [status EXCEPT ![id] = "Broken"]
  /\ UNCHANGED <<clientVars, peer, next_socket_id, queued_sockets, sworker,
                 acceptVars, netVars, minute>>

(* close() by the user who accepted the connection.                        *)
ServerCloses(id) ==
  /\ Timers
  /\ id \in accepted
  /\ status[id] = "Connected"
  /\ status' = [status EXCEPT ![id] = "Closing"]
  /\ Send(ServerShutdown(peer[id]))
  /\ UNCHANGED <<clientVars, peer, next_socket_id, queued_sockets, sworker,
                 acceptVars, minute>>

(* garbage_collect_sockets: a broken socket leaves the accept queue, and a *)
(* task is started that closes it; a closing one leaves the table.         *)
CollectBroken(id) ==
  /\ status[id] = "Broken"
  /\ id \in queued_sockets
  /\ queued_sockets' = queued_sockets \ {id}
  /\ UNCHANGED <<clientVars, tableVars, sworker, acceptVars, netVars, minute>>

CloseBroken(id) ==
  /\ status[id] = "Broken"
  /\ id \notin queued_sockets
  /\ status' = [status EXCEPT ![id] = "Closing"]
  /\ UNCHANGED <<clientVars, peer, next_socket_id, queued_sockets, sworker,
                 acceptVars, netVars, minute>>

CollectClosing(id) ==
  /\ status[id] = "Closing"
  /\ status' = [status EXCEPT ![id] = "Closed"]
  /\ UNCHANGED <<clientVars, peer, next_socket_id, queued_sockets, sworker,
                 acceptVars, netVars, minute>>

(* Mutant of AcceptLook: the socket stays in the accept queue.             *)
AcceptLookKeeps(a) ==
  /\ acceptor[a].pc = "look"
  /\ acceptor' = [acceptor EXCEPT ![a] =
       IF queued_sockets # {} THEN [pc |-> "got", socket |-> Min(queued_sockets)]
                              ELSE [pc |-> "park"]]
  /\ UNCHANGED <<clientVars, tableVars, queued_sockets, sworker, permit, accepted,
                 netVars, minute>>

(* accept(), under the lock of the accept queue: the first id is taken,    *)
(* or the call is going to wait.                                           *)
AcceptLook(a) ==
  /\ acceptor[a].pc = "look"
  /\ IF queued_sockets # {}
     THEN LET id == Min(queued_sockets)
          IN  /\ queued_sockets' = queued_sockets \ {id}
              /\ acceptor' = [acceptor EXCEPT ![a] = [pc |-> "got", socket |-> id]]
     ELSE /\ acceptor' = [acceptor EXCEPT ![a] = [pc |-> "park"]]
          /\ UNCHANGED queued_sockets
  /\ UNCHANGED <<clientVars, tableVars, sworker, permit, accepted, netVars, minute>>

(* notified() is polled, with no lock held.                                *)
AcceptPark(a) ==
  /\ acceptor[a].pc = "park"
  /\ acceptor' = [acceptor EXCEPT ![a] = [pc |-> IF permit THEN "look" ELSE "parked"]]
  /\ permit' = FALSE
  /\ UNCHANGED <<clientVars, tableVars, queued_sockets, sworker, accepted,
                 netVars, minute>>

(* Mutant of AcceptReturns: the socket is not found, as if new_connection  *)
(* had not put it into the table.                                          *)
AcceptReturnsError(a) ==
  /\ acceptor[a].pc = "got"
  /\ acceptor' = [acceptor EXCEPT ![a] = [pc |-> "look"]]
  /\ UNCHANGED <<clientVars, tableVars, queued_sockets, sworker, permit, accepted,
                 netVars, minute>>

(* The socket is looked up in the table: an error if it has been           *)
(* collected.  The user's loop calls accept() again.                       *)
AcceptReturns(a) ==
  /\ acceptor[a].pc = "got"
  /\ acceptor' = [acceptor EXCEPT ![a] = [pc |-> "look"]]
  /\ accepted' = IF InTable(acceptor[a].socket)
                 THEN accepted \cup {acceptor[a].socket} ELSE accepted
  /\ UNCHANGED <<clientVars, tableVars, queued_sockets, sworker, permit,
                 netVars, minute>>

(***************************************************************************)
(* The specification                                                       *)
(***************************************************************************)

NextMinute ==
  /\ minute < MaxMinute
  /\ minute' = minute + 1
  /\ UNCHANGED <<clientVars, serverVars, netVars>>

Accept(a) == AcceptLook(a) \/ AcceptPark(a) \/ AcceptReturns(a)

ClientArrive(m) ==
  /\ m.type \in {"challenge", "reply", "sshutdown"}
  /\ \/ ClientIgnores(m.client, m)
     \/ m.type = "challenge" /\ ProcessChallenge(m.client, m)
     \/ m.type = "reply" /\ ProcessReply(m.client, m)
     \/ m.type # "sshutdown" /\ UnexpectedHandshake(m.client, m)
     \/ m.type = "sshutdown" /\ ProcessShutdown(m.client, m)

ServerArrive(m) ==
  \/ ListenRequest(m) \/ ListenBadCookie(m) \/ AnswerAgain(m)
  \/ NewConnection(m) \/ ListenShutdown(m)

Arrive(m) == ServerArrive(m) \/ ClientArrive(m)

Next ==
  \/ \E c \in Clients :
       Connect(c) \/ ConnectReturns(c) \/ ClientExpires(c) \/ ClientCloses(c)
  \/ \E id \in Ids :
       \/ ServerExpires(id) \/ ServerCloses(id)
       \/ CollectBroken(id) \/ CloseBroken(id) \/ CollectClosing(id)
  \/ \E a \in Acceptors : Accept(a)
  \/ \E m \in network : Arrive(m)
  \/ \E m \in network : Lose(m)
  \/ NextMinute

Spec == Init /\ [][Next]_vars

(* Datagrams that are not lost arrive, woken tasks run, and the user's     *)
(* loop keeps calling accept().                                            *)
Fairness ==
  /\ WF_vars(\E m \in network : Arrive(m))
  /\ \A c \in Clients : WF_vars(ConnectReturns(c))
  /\ \A a \in Acceptors : WF_vars(Accept(a))

FairSpec == Spec /\ Fairness

(***************************************************************************)
(* Properties                                                              *)
(***************************************************************************)

Statuses == {"Connected", "Broken", "Closing", "Closed"}

(* Types.  The accept queue never exceeds its configured size.             *)
TypeOK ==
  /\ cstatus \in [Clients -> {"Init", "Connecting", "Connected", "Broken", "Closing"}]
  /\ cpeer \in [Clients -> Ids \cup {NoSocket}]
  /\ polled \subseteq Clients
  /\ cworker \subseteq Clients
  /\ call \in [Clients -> {"none", "waiting", "woken", "ok"}]
  /\ status \in [Ids -> Statuses \cup {"Free"}]
  /\ peer \in [Ids -> Clients \cup {NoClient}]
  /\ next_socket_id \in 0 .. MaxSockets
  /\ queued_sockets \subseteq Ids
  /\ Cardinality(queued_sockets) <= ACCEPT_QUEUE_SIZE
  /\ sworker \in BOOLEAN
  /\ permit \in BOOLEAN
  /\ acceptor \in [Acceptors ->      [pc : {"look", "park", "parked"}]
                                \cup [pc : {"got"}, socket : Ids]]
  /\ accepted \subseteq Ids
  /\ dups \in 0 .. MaxDups
  /\ losses \in 0 .. MaxLosses
  /\ minute \in 0 .. MaxMinute

(* However often its handshakes arrive, and however late, a client never   *)
(* has two live sockets at the server (udt.rs, new_connection).            *)
OneLiveSocket ==
  \A i, j \in Ids :
    status[i] = "Connected" /\ status[j] = "Connected" /\ peer[i] = peer[j] => i = j

(* The two ends agree on who they talk to, even if two clients have chosen *)
(* the same socket id and initial sequence number (udt.rs,                 *)
(* get_peer_socket).                                                       *)
EndsAgree ==
  \A c \in Clients : cpeer[c] # NoSocket => peer[cpeer[c]] = c

(* A client never changes the socket it is connected to (socket.rs,        *)
(* process_ctrl).                                                          *)
PeerKept == [][\A c \in Clients : cpeer[c] # NoSocket => cpeer'[c] = cpeer[c]]_vars

Held(id) == \E a \in Acceptors : acceptor[a] = [pc |-> "got", socket |-> id]

(* A live connection is in the accept queue, or in the hands of accept(),  *)
(* or has been returned by it, and only in one of these places: none is    *)
(* forgotten, and none is returned twice (udt.rs, new_connection and       *)
(* garbage_collect_sockets; listener.rs, accept).                          *)
AcceptedOnce ==
  \A id \in Ids :
    /\ status[id] = "Connected" => id \in queued_sockets \/ Held(id) \/ id \in accepted
    /\ id \in queued_sockets => ~Held(id) /\ id \notin accepted
    /\ Held(id) => id \notin accepted

(* While a connection waits to be accepted, not every acceptor sleeps,     *)
(* although two notifications may leave only one permit (listener.rs,      *)
(* accept; udt.rs, new_connection).                                        *)
NoLostAccept ==
  queued_sockets # {} =>
    permit \/ \E a \in Acceptors : acceptor[a].pc \in {"look", "got"}

(* If nothing is lost or repeated, every connect() returns, and with a     *)
(* connected socket.                                                       *)
ConnectSucceeds ==
  \A c \in Clients : call[c] = "waiting" ~> (call[c] = "ok" /\ cstatus[c] = "Connected")

(* If nothing is lost or repeated, every server socket is accepted,        *)
(* although accept() takes the newest first.                               *)
EveryConnectionAccepted ==
  \A id \in Ids : status[id] = "Connected" ~> id \in accepted

(* If nothing is lost or repeated and the accept queue is large enough, no *)
(* receive worker ends with an error, even if a minute passes while a      *)
(* handshake is under way (socket.rs, listen_on_handshake; multiplexer.rs, *)
(* run).                                                                   *)
WorkersRun == sworker /\ cworker = Clients
=============================================================================
