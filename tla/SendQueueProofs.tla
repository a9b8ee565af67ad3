-------------------------- MODULE SendQueueProofs --------------------------
(***************************************************************************)
(* Proofs about SendQueue, for any number of sockets and callers and any   *)
(* bounds: the gaps in update() lose no socket and no wakeup, and leave a  *)
(* bounded number of nodes.                                                *)
(***************************************************************************)
EXTENDS SendQueue, FiniteSetTheorems, TLAPS

Queues == [Sockets -> Seq(Times)]

(***************************************************************************)
(* The heap                                                                *)
(***************************************************************************)

(* A pushed node is the last of its socket (snd_queue.rs, insert).         *)
LEMMA PushFacts ==
  ASSUME NEW q \in Queues, NEW s \in Sockets, NEW ts \in Times
  PROVE  /\ Push(q, s, ts) \in Queues
         /\ Push(q, s, ts)[s] = Append(q[s], ts)
         /\ \A r \in Sockets \ {s} : Push(q, s, ts)[r] = q[r]
BY DEF Push, Queues

(* The length of a socket's nodes after a push, and what they are.         *)
LEMMA AppendFacts ==
  ASSUME NEW q \in Seq(Times), NEW ts \in Times
  PROVE  /\ Len(q) \in Nat
         /\ DOMAIN q = 1 .. Len(q)
         /\ Len(Append(q, ts)) = Len(q) + 1
         /\ Append(q, ts) # <<>>
         /\ DOMAIN Append(q, ts) = 1 .. (Len(q) + 1)
         /\ \A i \in 1 .. Len(q) : Append(q, ts)[i] = q[i]
         /\ Append(q, ts)[Len(q) + 1] = ts
OBVIOUS

(* The same of a whole insert().                                           *)
LEMMA InsertFacts ==
  ASSUME queue \in [Sockets -> Seq(Times)], NEW s \in Sockets, NEW ts \in Times, Insert(s, ts)
  PROVE  /\ queue' \in Queues
         /\ queue'[s] = Append(queue[s], ts)
         /\ queue'[s] # <<>>
         /\ \A r \in Sockets \ {s} : queue'[r] = queue[r]
<1>1. queue' = Push(queue, s, ts)
  BY DEF Insert
<1>2. Append(queue[s], ts) # <<>>
  BY AppendFacts
<1>3. queue \in Queues
  BY DEF Queues
<1> QED
  BY <1>1, <1>2, <1>3, PushFacts

(* pop() takes one node out (snd_queue.rs, worker).                        *)
LEMMA DropFacts ==
  ASSUME NEW q \in Queues, NEW s \in Sockets, NEW i \in DOMAIN q[s]
  PROVE  /\ Drop(q, s, i) \in Queues
         /\ Len(Drop(q, s, i)[s]) = Len(q[s]) - 1
         /\ \A r \in Sockets \ {s} : Drop(q, s, i)[r] = q[r]
<1> DEFINE p == q[s]
           d == [j \in 1 .. (Len(p) - 1) |-> IF j < i THEN p[j] ELSE p[j + 1]]
<1>1. /\ p \in Seq(Times)
      /\ Len(p) \in Nat
      /\ DOMAIN p = 1 .. Len(p)
      /\ \A j \in 1 .. Len(p) : p[j] \in Times
  BY DEF Queues
<1>2. Len(p) - 1 \in Nat
  BY <1>1
<1>3. d \in [1 .. (Len(p) - 1) -> Times]
  BY <1>1
<1>4. d \in Seq(Times) /\ Len(d) = Len(p) - 1
  <2> HIDE DEF d, p
  <2> QED  BY <1>2, <1>3
<1>5. Drop(q, s, i) = [q EXCEPT ![s] = d]
  BY DEF Drop
<1> QED
  BY <1>4, <1>5 DEF Queues

(* A node on top is a node (snd_queue.rs, peek).                           *)
LEMMA TopsFacts ==
  ASSUME NEW q, NEW top \in Tops(q)
  PROVE  /\ top[1] \in Sockets
         /\ top[2] \in DOMAIN q[top[1]]
         /\ top = <<top[1], top[2]>>
         /\ \A r \in Sockets : \A j \in DOMAIN q[r] : q[top[1]][top[2]] <= q[r][j]
<1>1. PICK s \in Sockets : top \in {s} \X DOMAIN q[s]
  BY DEF Tops, Nodes
<1>2. \A r \in Sockets : \A j \in DOMAIN q[r] : <<r, j>> \in Nodes(q)
  BY DEF Nodes
<1>3. \A o \in Nodes(q) : q[top[1]][top[2]] <= q[o[1]][o[2]]
  BY DEF Tops, TimeOf
<1>4. \A r \in Sockets : \A j \in DOMAIN q[r] : q[top[1]][top[2]] <= q[r][j]
  <2> TAKE r \in Sockets
  <2> TAKE j \in DOMAIN q[r]
  <2>1. q[top[1]][top[2]] <= q[<<r, j>>[1]][<<r, j>>[2]]
    BY <1>2, <1>3
  <2> QED  BY <2>1
<1>5. top[1] \in Sockets /\ top[2] \in DOMAIN q[top[1]] /\ top = <<top[1], top[2]>>
  BY <1>1
<1> QED
  BY <1>4, <1>5

(***************************************************************************)
(* Types                                                                   *)
(***************************************************************************)

(* UdtSndQueue::new starts with an empty heap, all of the right types.     *)
LEMMA TypeInit == Init => TypeOK
<1> SUFFICES ASSUME Init PROVE TypeOK
  OBVIOUS
<1>1. queue \in [Sockets -> Seq(Times)]
  BY DEF Init
<1>2. worker \in WorkerStates
  BY DEF Init, WorkerStates, Looking
<1>3. caller \in [Callers -> CallerStates]
  BY DEF Init, CallerStates, Idle
<1>4. channel \in 0 .. TOKIO_CHANNEL_CAPACITY /\ now \in Times /\ calls \in 0 .. MaxCalls
  BY SendQueueAssumption DEF Init, Times
<1>5. permit \in BOOLEAN /\ alive \subseteq Sockets
  BY DEF Init
<1>6. work \in [Sockets -> Nat]
  BY DEF Init
<1> QED
  BY <1>1, <1>2, <1>3, <1>4, <1>5, <1>6 DEF TypeOK

(* notify_one leaves the worker and the permit well typed.                 *)
LEMMA NotifyType ==
  ASSUME TypeOK, NotifyOne
  PROVE  permit' \in BOOLEAN /\ worker' \in WorkerStates
<1>1. Looking \in WorkerStates
  BY DEF Looking, WorkerStates
<1>2. CASE worker.pc = "parked"
  BY <1>1, <1>2 DEF NotifyOne, TypeOK
<1>3. CASE worker.pc # "parked"
  BY <1>3 DEF NotifyOne, TypeOK
<1> QED
  BY <1>2, <1>3

(* Where a caller is, and the socket it is busy with.                      *)
LEMMA CallerFacts ==
  ASSUME TypeOK, NEW c \in Callers
  PROVE  /\ caller[c].pc \in {"peek", "check", "remove", "insert"} =>
              /\ caller[c].socket \in Sockets
              /\ caller[c].reschedule \in BOOLEAN
              /\ \A pc \in {"peek", "check", "remove", "insert"} :
                   [caller[c] EXCEPT !.pc = pc] =
                     [pc |-> pc, socket |-> caller[c].socket,
                      reschedule |-> caller[c].reschedule]
         /\ caller[c].pc = "close" => caller[c].socket \in Sockets
         /\ Idle \in CallerStates
BY DEF TypeOK, CallerStates, Idle

(* A caller inside update() is in a state of the right type.               *)
LEMMA BusyType ==
  ASSUME NEW pc \in {"peek", "check", "remove", "insert"}, NEW s \in Sockets,
         NEW r \in BOOLEAN
  PROVE  [pc |-> pc, socket |-> s, reschedule |-> r] \in CallerStates
BY DEF CallerStates

(* A caller goes from one part of update() to another.                     *)
LEMMA MoveFacts ==
  ASSUME TypeOK, NEW c \in Callers,
         caller[c].pc \in {"peek", "check", "remove", "insert"},
         NEW pc \in {"peek", "check", "remove", "insert"},
         NEW next, next = [caller EXCEPT ![c].pc = pc]
  PROVE  /\ next \in [Callers -> CallerStates]
         /\ next[c].pc = pc
         /\ next[c].socket = caller[c].socket
         /\ \A d \in Callers \ {c} : next[d] = caller[d]
<1> DEFINE state == [pc |-> pc, socket |-> caller[c].socket,
                     reschedule |-> caller[c].reschedule]
<1>1. state \in CallerStates
  BY CallerFacts, BusyType
<1>2. [caller EXCEPT ![c].pc = pc] = [caller EXCEPT ![c] = state]
  BY CallerFacts
<1>3. /\ [caller EXCEPT ![c] = state] \in [Callers -> CallerStates]
      /\ [caller EXCEPT ![c] = state][c] = state
      /\ \A d \in Callers \ {c} : [caller EXCEPT ![c] = state][d] = caller[d]
  <2> HIDE DEF state
  <2> QED  BY <1>1 DEF TypeOK
<1> QED
  BY <1>2, <1>3

(* A call of update() after send() or a packet keeps the types.            *)
LEMMA CallType ==
  ASSUME TypeOK, NEW c \in Callers, NEW s \in Sockets,
         NEW reschedule \in BOOLEAN, NEW more \in 0 .. 1,
         Call(c, s, reschedule, more)
  PROVE  TypeOK'
<1> DEFINE state == [pc |-> IF reschedule THEN "peek" ELSE "check",
                     socket |-> s, reschedule |-> reschedule]
<1>1. state \in CallerStates
  BY BusyType
<1>2. caller' \in [Callers -> CallerStates]
  <2>1. caller' = [caller EXCEPT ![c] = state]
    BY DEF Call
  <2> HIDE DEF state
  <2> QED  BY <1>1, <2>1 DEF TypeOK
<1>3. work' \in [Sockets -> Nat]
  BY DEF Call, TypeOK
<1>4. calls' \in 0 .. MaxCalls
  BY SendQueueAssumption DEF Call, TypeOK
<1>5. UNCHANGED <<queue, permit, worker, channel, alive, now>>
  BY DEF Call
<1> QED
  BY <1>2, <1>3, <1>4, <1>5 DEF TypeOK

(* A connection given up by check_timers keeps the types.                  *)
LEMMA ExpireType ==
  ASSUME TypeOK, NEW c \in Callers, NEW s \in Sockets, Expire(c, s)
  PROVE  TypeOK'
<1> DEFINE state == [pc |-> "peek", socket |-> s, reschedule |-> TRUE]
<1>1. state \in CallerStates
  BY BusyType
<1>2. caller' \in [Callers -> CallerStates]
  <2>1. caller' = [caller EXCEPT ![c] = state]
    BY DEF Expire
  <2> HIDE DEF state
  <2> QED  BY <1>1, <2>1 DEF TypeOK
<1>3. alive' \subseteq Sockets
  BY DEF Expire, TypeOK
<1>4. calls' \in 0 .. MaxCalls
  BY SendQueueAssumption DEF Expire, TypeOK
<1>5. UNCHANGED <<queue, permit, worker, channel, work, now>>
  BY DEF Expire
<1> QED
  BY <1>2, <1>3, <1>4, <1>5 DEF TypeOK

(* The first part of update(), the look at the top, keeps the types.       *)
LEMMA PeekType ==
  ASSUME TypeOK, NEW c \in Callers, Peek(c)
  PROVE  TypeOK'
<1> DEFINE s == caller[c].socket
<1>1. caller[c].pc = "peek" /\ s \in Sockets
  BY CallerFacts DEF Peek, At
<1>2. UNCHANGED <<channel, work, alive, now, calls>>
  BY DEF Peek
<1>3. CASE \E i \in DOMAIN queue[s] :
             /\ queue' = [queue EXCEPT ![s][i] = start_time]
             /\ NotifyOne
             /\ caller' = [caller EXCEPT ![c] = Idle]
  <2> PICK i \in DOMAIN queue[s] :
             /\ queue' = [queue EXCEPT ![s][i] = start_time]
             /\ NotifyOne
             /\ caller' = [caller EXCEPT ![c] = Idle]
    BY <1>3
  <2>1. start_time \in Times
    BY SendQueueAssumption DEF start_time, Times
  <2>2. queue' \in [Sockets -> Seq(Times)]
    <3>1. queue[s] \in Seq(Times)
      BY <1>1 DEF TypeOK
    <3>2. [queue[s] EXCEPT ![i] = start_time] \in Seq(Times)
      BY <2>1, <3>1
    <3> QED  BY <1>1, <3>2 DEF TypeOK
  <2>3. permit' \in BOOLEAN /\ worker' \in WorkerStates
    BY NotifyType
  <2>4. caller' \in [Callers -> CallerStates]
    BY CallerFacts DEF TypeOK
  <2> QED
    BY <1>2, <2>2, <2>3, <2>4 DEF TypeOK
<1>4. CASE /\ caller' = [caller EXCEPT ![c].pc = "check"]
           /\ UNCHANGED <<queue, permit, worker>>
  <2>1. caller' \in [Callers -> CallerStates]
    BY <1>1, <1>4, MoveFacts
  <2> QED
    BY <1>2, <1>4, <2>1 DEF TypeOK
<1> QED
  BY <1>3, <1>4 DEF Peek

(* The search of update() for the socket keeps the types.                  *)
LEMMA CheckType ==
  ASSUME TypeOK, NEW c \in Callers, Check(c)
  PROVE  TypeOK'
<1>1. caller[c].pc = "check"
  BY DEF Check, At
<1>2. \/ caller' = [caller EXCEPT ![c].pc = "insert"]
      \/ caller' = [caller EXCEPT ![c].pc = "remove"]
      \/ caller' = [caller EXCEPT ![c] = Idle]
  BY DEF Check
<1>3. caller' \in [Callers -> CallerStates]
  <2>1. [caller EXCEPT ![c] = Idle] \in [Callers -> CallerStates]
    BY CallerFacts DEF TypeOK
  <2>2. [caller EXCEPT ![c].pc = "insert"] \in [Callers -> CallerStates]
    BY <1>1, MoveFacts
  <2>3. [caller EXCEPT ![c].pc = "remove"] \in [Callers -> CallerStates]
    BY <1>1, MoveFacts
  <2> QED  BY <1>2, <2>1, <2>2, <2>3
<1> QED
  BY <1>3 DEF Check, TypeOK

(* remove() inside update() keeps the types.                               *)
LEMMA RemoveType ==
  ASSUME TypeOK, NEW c \in Callers, Remove(c)
  PROVE  TypeOK'
<1>1. caller[c].pc = "remove"
  BY DEF Remove, At
<1>2. caller' \in [Callers -> CallerStates]
  BY <1>1, MoveFacts DEF Remove
<1>3. queue' \in [Sockets -> Seq(Times)]
  <2>1. <<>> \in Seq(Times)
    OBVIOUS
  <2>2. queue' = [queue EXCEPT ![caller[c].socket] = <<>>]
    BY DEF Remove
  <2> QED  BY <2>1, <2>2 DEF TypeOK
<1> QED
  BY <1>2, <1>3 DEF Remove, TypeOK

(* insert() at the end of update() keeps the types.                        *)
LEMMA InsertFirstType ==
  ASSUME TypeOK, NEW c \in Callers, InsertFirst(c)
  PROVE  TypeOK'
<1> DEFINE s == caller[c].socket
<1>1. s \in Sockets
  BY CallerFacts DEF InsertFirst, At
<1>2. queue' = Push(queue, s, start_time) /\ start_time \in Times
  BY SendQueueAssumption DEF InsertFirst, Insert, start_time, Times
<1>3. queue' \in [Sockets -> Seq(Times)]
  BY <1>1, <1>2, PushFacts DEF Queues, TypeOK
<1>4. NotifyOne \/ UNCHANGED <<permit, worker>>
  BY DEF InsertFirst, Insert
<1>5. permit' \in BOOLEAN /\ worker' \in WorkerStates
  BY <1>4, NotifyType DEF TypeOK
<1>6. caller' \in [Callers -> CallerStates]
  BY CallerFacts DEF TypeOK, InsertFirst
<1> QED
  BY <1>3, <1>5, <1>6 DEF InsertFirst, TypeOK

(* remove() inside close() keeps the types.                                *)
LEMMA CloseRemoveType ==
  ASSUME TypeOK, NEW c \in Callers, NEW s \in Sockets, CloseRemove(c, s)
  PROVE  TypeOK'
<1> DEFINE state == [pc |-> "close", socket |-> s]
<1>1. state \in CallerStates
  BY DEF CallerStates
<1>2. caller' \in [Callers -> CallerStates]
  <2>1. caller' = [caller EXCEPT ![c] = state]
    BY DEF CloseRemove
  <2> HIDE DEF state
  <2> QED  BY <1>1, <2>1 DEF TypeOK
<1>3. queue' \in [Sockets -> Seq(Times)]
  <2>1. <<>> \in Seq(Times)
    OBVIOUS
  <2>2. queue' = [queue EXCEPT ![s] = <<>>]
    BY DEF CloseRemove
  <2> QED  BY <2>1, <2>2 DEF TypeOK
<1>4. UNCHANGED <<permit, worker, channel, work, alive, now, calls>>
  BY DEF CloseRemove
<1> QED
  BY <1>2, <1>3, <1>4 DEF TypeOK

(* The status that close() sets at its end keeps the types.                *)
LEMMA CloseStatusType ==
  ASSUME TypeOK, NEW c \in Callers, CloseStatus(c)
  PROVE  TypeOK'
<1>1. caller' \in [Callers -> CallerStates]
  BY CallerFacts DEF CloseStatus, TypeOK
<1>2. alive' \subseteq Sockets
  BY DEF CloseStatus, TypeOK
<1> QED
  BY <1>1, <1>2 DEF CloseStatus, TypeOK

(* What the worker holds, by where it is.                                  *)
LEMMA WorkerFacts ==
  ASSUME TypeOK
  PROVE  /\ worker.pc \in {"park", "parked"} =>
              /\ worker.until \in 1 .. Never
              /\ [worker EXCEPT !.pc = "parked"] =
                   [pc |-> "parked", until |-> worker.until]
         /\ worker.pc = "serve" => worker.socket \in Sockets
         /\ worker.pc = "insert" => worker.socket \in Sockets /\ worker.ts \in Times
         /\ Looking \in WorkerStates
BY DEF TypeOK, WorkerStates, Looking

(* The worker's look at the heap: it is empty, or the node on top is       *)
(* taken out, or waited for (snd_queue.rs, worker).                        *)
LEMMA LookCases ==
  ASSUME TypeOK, Look
  PROVE  \/ /\ IsEmpty(queue)
            /\ worker' = [pc |-> "park", until |-> Never]
            /\ queue' = queue
         \/ \E s \in Sockets : \E i \in DOMAIN queue[s] :
              /\ queue' = Drop(queue, s, i)
              /\ worker' = [pc |-> "serve", socket |-> s]
         \/ \E s \in Sockets : \E i \in DOMAIN queue[s] :
              /\ ~(queue[s][i] <= now)
              /\ worker' = [pc |-> "park", until |-> queue[s][i]]
              /\ \A r \in Sockets : \A j \in DOMAIN queue[r] :
                   queue[s][i] <= queue[r][j]
              /\ queue' = queue
<1>1. CASE IsEmpty(queue)
  BY <1>1 DEF Look
<1>2. CASE ~IsEmpty(queue)
  <2>1. PICK top \in Tops(queue) :
          IF queue[top[1]][top[2]] <= now
          THEN /\ queue' = Drop(queue, top[1], top[2])
               /\ worker' = [pc |-> "serve", socket |-> top[1]]
          ELSE /\ worker' = [pc |-> "park", until |-> queue[top[1]][top[2]]]
               /\ UNCHANGED queue
    BY <1>2 DEF Look
  <2>2. /\ top[1] \in Sockets
        /\ top[2] \in DOMAIN queue[top[1]]
        /\ \A r \in Sockets : \A j \in DOMAIN queue[r] :
             queue[top[1]][top[2]] <= queue[r][j]
    BY TopsFacts
  <2>3. CASE queue[top[1]][top[2]] <= now
    BY <2>1, <2>2, <2>3
  <2>4. CASE ~(queue[top[1]][top[2]] <= now)
    BY <2>1, <2>2, <2>4
  <2> QED
    BY <2>3, <2>4
<1> QED
  BY <1>1, <1>2

(* The worker's look at the heap keeps the types.                          *)
LEMMA LookType ==
  ASSUME TypeOK, Look
  PROVE  TypeOK'
<1>1. UNCHANGED <<permit, caller, channel, work, alive, now, calls>>
  BY DEF Look
<1>2. CASE worker' = [pc |-> "park", until |-> Never] /\ queue' = queue
  <2>1. Never \in 1 .. Never
    BY SendQueueAssumption DEF Never
  <2>2. worker' \in WorkerStates
    BY <1>2, <2>1 DEF WorkerStates
  <2> QED
    BY <1>1, <1>2, <2>2 DEF TypeOK
<1>3. ASSUME NEW s \in Sockets, NEW i \in DOMAIN queue[s],
             queue' = Drop(queue, s, i),
             worker' = [pc |-> "serve", socket |-> s]
      PROVE  TypeOK'
  <2>1. queue' \in [Sockets -> Seq(Times)]
    BY <1>3, DropFacts DEF TypeOK, Queues
  <2>2. worker' \in WorkerStates
    BY <1>3 DEF WorkerStates
  <2> QED
    BY <1>1, <2>1, <2>2 DEF TypeOK
<1>4. ASSUME NEW s \in Sockets, NEW i \in DOMAIN queue[s],
             ~(queue[s][i] <= now),
             worker' = [pc |-> "park", until |-> queue[s][i]],
             queue' = queue
      PROVE  TypeOK'
  <2>1. queue[s][i] \in Times
    BY DEF TypeOK
  <2>2. queue[s][i] \in 1 .. Never
    BY <1>4, <2>1, SendQueueAssumption DEF TypeOK, Times, Never
  <2>3. worker' \in WorkerStates
    BY <1>4, <2>2 DEF WorkerStates
  <2> QED
    BY <1>1, <1>4, <2>3 DEF TypeOK
<1> QED
  BY <1>2, <1>3, <1>4, LookCases

(* The worker's call of next_data_packets keeps the types.                 *)
LEMMA ServeType ==
  ASSUME TypeOK, Serve
  PROVE  TypeOK'
<1>1. UNCHANGED <<queue, permit, caller, channel, alive, now, calls>>
  BY DEF Serve
<1> DEFINE s == worker.socket
<1>2. s \in Sockets
  BY WorkerFacts DEF Serve
<1>3. CASE s \in alive /\ work[s] > 0
  <2>1. work' \in [Sockets -> Nat]
    <3>1. work' = [work EXCEPT ![s] = work[s] - 1]
      BY <1>3 DEF Serve
    <3>2. work[s] - 1 \in Nat
      BY <1>2, <1>3 DEF TypeOK
    <3> HIDE DEF s
    <3> QED  BY <3>1, <3>2 DEF TypeOK
  <2>2. PICK ts \in now .. MaxTime :
          worker' = [pc |-> "insert", socket |-> s, ts |-> ts]
    BY <1>3 DEF Serve
  <2>3. ts \in Times
    BY <2>2, SendQueueAssumption DEF TypeOK, Times
  <2>4. worker' \in WorkerStates
    BY <1>2, <2>2, <2>3 DEF WorkerStates
  <2> QED
    BY <1>1, <2>1, <2>4 DEF TypeOK
<1>4. CASE ~(s \in alive /\ work[s] > 0)
  BY <1>1, <1>4, WorkerFacts DEF Serve, TypeOK
<1> QED
  BY <1>3, <1>4

(* The worker's insert() keeps the types.                                  *)
LEMMA ReinsertType ==
  ASSUME TypeOK, Reinsert
  PROVE  TypeOK'
<1>1. worker.socket \in Sockets /\ worker.ts \in Times
  BY WorkerFacts DEF Reinsert
<1>2. queue' \in [Sockets -> Seq(Times)]
  BY <1>1, PushFacts DEF Reinsert, TypeOK, Queues
<1>3. worker' \in WorkerStates
  BY DEF Reinsert, WorkerStates
<1>4. permit' \in BOOLEAN
  BY DEF Reinsert
<1> QED
  BY <1>2, <1>3, <1>4 DEF Reinsert, TypeOK

(* Every step of the worker keeps the types, the bounded channel included. *)
LEMMA WorkerType ==
  ASSUME TypeOK, Worker
  PROVE  TypeOK'
<1>1. CASE Park
  <2>1. worker' = Looking \/ worker' = [worker EXCEPT !.pc = "parked"]
    BY <1>1 DEF Park
  <2>2. [pc |-> "parked", until |-> worker.until] \in WorkerStates
    BY <1>1, WorkerFacts DEF Park, WorkerStates
  <2>3. worker' \in WorkerStates
    BY <1>1, <2>1, <2>2, WorkerFacts DEF Park
  <2> QED
    BY <1>1, <2>3 DEF Park, TypeOK
<1>2. CASE Timeout
  BY <1>2, WorkerFacts DEF Timeout, TypeOK
<1>3. CASE PassOn
  <2>1. channel' \in 0 .. TOKIO_CHANNEL_CAPACITY
    BY <1>3, SendQueueAssumption DEF PassOn, TypeOK
  <2> QED
    BY <1>3, <2>1, WorkerFacts DEF PassOn, TypeOK
<1> QED
  BY <1>1, <1>2, <1>3, LookType, ServeType, ReinsertType DEF Worker

(* Every step keeps the types.                                             *)
LEMMA TypeStep ==
  ASSUME TypeOK, [Next]_vars
  PROVE  TypeOK'
<1>1. CASE SendPackets
  <2>1. channel' \in 0 .. TOKIO_CHANNEL_CAPACITY
    BY <1>1, SendQueueAssumption DEF SendPackets, TypeOK
  <2> QED
    BY <1>1, <2>1 DEF SendPackets, TypeOK
<1>2. CASE Tick
  <2>1. now' \in Times
    BY <1>2, SendQueueAssumption DEF Tick, TypeOK, Times
  <2> QED
    BY <1>2, <2>1 DEF Tick, TypeOK
<1>3. CASE UNCHANGED vars
  BY <1>3 DEF vars, TypeOK
<1>4. ASSUME NEW c \in Callers, Update(c) \/ CloseStatus(c)
      PROVE  TypeOK'
  BY <1>4, PeekType, CheckType, RemoveType, InsertFirstType, CloseStatusType
  DEF Update
<1>5. ASSUME NEW c \in Callers, NEW s \in Sockets,
             \/ \E reschedule \in BOOLEAN, more \in 0 .. 1 :
                  Call(c, s, reschedule, more)
             \/ Expire(c, s)
             \/ CloseRemove(c, s)
      PROVE  TypeOK'
  BY <1>5, CallType, ExpireType, CloseRemoveType
<1> QED
  BY <1>1, <1>2, <1>3, <1>4, <1>5, WorkerType DEF Next

(* The types hold in every reachable state; in particular the channel      *)
(* stays within its capacity (snd_queue.rs).                               *)
THEOREM TypeCorrect == Spec => []TypeOK
BY TypeInit, TypeStep, PTL DEF Spec

(***************************************************************************)
(* What a caller does in one step                                          *)
(***************************************************************************)

(* The steps of update(), each with its effect on the heap and on where    *)
(* the caller is (snd_queue.rs, update).                                   *)
LEMMA UpdateCases ==
  ASSUME TypeOK, NEW c \in Callers, Update(c)
  PROVE  LET s == caller[c].socket
         IN  /\ caller[c].pc \in {"peek", "check", "remove", "insert"}
             /\ s \in Sockets
             /\ UNCHANGED <<work, alive>>
             /\ \A d \in Callers \ {c} : caller'[d] = caller[d]
             /\ \/ /\ caller[c].pc = "peek"
                   /\ caller'[c].pc = "idle"
                   /\ NotifyOne
                   /\ \E i \in DOMAIN queue[s] :
                        queue' = [queue EXCEPT ![s][i] = start_time]
                \/ /\ caller[c].pc = "check"
                   /\ caller'[c].pc = "idle"
                   /\ queue[s] # <<>>
                   /\ UNCHANGED <<queue, permit, worker>>
                \/ /\ caller[c].pc \in {"peek", "check"}
                   /\ caller'[c].pc \in {"check", "remove"}
                   /\ caller'[c].socket = s
                   /\ UNCHANGED <<queue, permit, worker>>
                \/ /\ caller[c].pc = "check"
                   /\ caller'[c].pc = "insert"
                   /\ caller'[c].socket = s
                   /\ queue[s] = <<>>
                   /\ UNCHANGED <<queue, permit, worker>>
                \/ /\ caller[c].pc = "remove"
                   /\ caller'[c].pc = "insert"
                   /\ caller'[c].socket = s
                   /\ queue' = [queue EXCEPT ![s] = <<>>]
                   /\ UNCHANGED <<permit, worker>>
                \/ /\ caller[c].pc = "insert"
                   /\ caller'[c].pc = "idle"
                   /\ Insert(s, start_time)
<1> DEFINE s == caller[c].socket
<1>1. /\ caller[c].pc \in {"peek", "check", "remove", "insert"}
      /\ s \in Sockets
  BY CallerFacts DEF Update, Peek, Check, Remove, InsertFirst, At
<1>2. UNCHANGED <<work, alive>>
  BY DEF Update, Peek, Check, Remove, InsertFirst
<1>3. \A d \in Callers \ {c} : caller'[d] = caller[d]
  <2>1. CASE Peek(c)
    <3>1. \/ caller' = [caller EXCEPT ![c] = Idle]
          \/ caller' = [caller EXCEPT ![c].pc = "check"]
      BY <2>1 DEF Peek
    <3>2. CASE caller' = [caller EXCEPT ![c] = Idle]
      BY <3>2 DEF TypeOK
    <3>3. CASE caller' = [caller EXCEPT ![c].pc = "check"]
      BY <1>1, <3>3, MoveFacts
    <3> QED  BY <3>1, <3>2, <3>3
  <2>2. CASE Check(c)
    BY <2>2 DEF Check, TypeOK
  <2>3. CASE Remove(c)
    BY <1>1, <2>3, MoveFacts DEF Remove
  <2>4. CASE InsertFirst(c)
    BY <2>4 DEF InsertFirst, TypeOK
  <2> QED
    BY <2>1, <2>2, <2>3, <2>4 DEF Update
<1>4. [caller EXCEPT ![c] = Idle][c].pc = "idle"
  BY DEF TypeOK, Idle
<1>6. CASE Peek(c)
  <2>1. CASE /\ \E i \in DOMAIN queue[s] :
                  queue' = [queue EXCEPT ![s][i] = start_time]
             /\ NotifyOne
             /\ caller' = [caller EXCEPT ![c] = Idle]
    BY <1>1, <1>2, <1>3, <1>4, <1>6, <2>1 DEF Peek, At
  <2>2. CASE /\ caller' = [caller EXCEPT ![c].pc = "check"]
             /\ UNCHANGED <<queue, permit, worker>>
    <3>1. caller'[c].pc = "check" /\ caller'[c].socket = s
      BY <1>1, <2>2, MoveFacts
    <3> QED  BY <1>1, <1>2, <1>3, <1>6, <2>2, <3>1 DEF Peek, At
  <2> QED
    BY <1>6, <2>1, <2>2 DEF Peek
<1>7. CASE Check(c)
  <2>0. caller[c].pc = "check" /\ UNCHANGED <<queue, permit, worker>>
    BY <1>7 DEF Check, At
  <2>1. CASE queue[s] = <<>>
    <3>1. caller' = [caller EXCEPT ![c].pc = "insert"]
      BY <1>7, <2>1 DEF Check
    <3>2. caller'[c].pc = "insert" /\ caller'[c].socket = s
      BY <1>1, <3>1, MoveFacts
    <3> QED  BY <1>1, <1>2, <1>3, <2>0, <2>1, <3>2
  <2>2. CASE queue[s] # <<>> /\ caller' = [caller EXCEPT ![c].pc = "remove"]
    <3>1. caller'[c].pc = "remove" /\ caller'[c].socket = s
      BY <1>1, <2>2, MoveFacts
    <3> QED  BY <1>1, <1>2, <1>3, <2>0, <3>1
  <2>3. CASE queue[s] # <<>> /\ caller' = [caller EXCEPT ![c] = Idle]
    <3>1. caller'[c].pc = "idle"
      BY <1>4, <2>3
    <3> QED  BY <1>1, <1>2, <1>3, <2>0, <2>3, <3>1
  <2> QED
    BY <1>7, <2>1, <2>2, <2>3 DEF Check
<1>8. CASE Remove(c)
  <2>1. /\ caller[c].pc = "remove"
        /\ caller' = [caller EXCEPT ![c].pc = "insert"]
        /\ queue' = [queue EXCEPT ![s] = <<>>]
        /\ UNCHANGED <<permit, worker>>
    BY <1>8 DEF Remove, At
  <2>2. caller'[c].pc = "insert" /\ caller'[c].socket = s
    BY <1>1, <2>1, MoveFacts
  <2> QED
    BY <1>1, <1>2, <1>3, <2>1, <2>2
<1>9. CASE InsertFirst(c)
  <2>1. caller[c].pc = "insert" /\ caller'[c].pc = "idle" /\ Insert(s, start_time)
    BY <1>4, <1>9 DEF InsertFirst, At
  <2> QED
    BY <1>1, <1>2, <1>3, <2>1
<1> QED
  BY <1>6, <1>7, <1>8, <1>9 DEF Update

(***************************************************************************)
(* No socket is stranded                                                   *)
(***************************************************************************)

(* A step of one caller, with one socket: it is enough to look at that     *)
(* socket, which is in the queue afterwards, or in the hands of the        *)
(* caller, or not alive.                                                   *)
LEMMA StrandedFrame ==
  ASSUME NoneStranded, TypeOK, NEW c \in Callers, NEW s \in Sockets,
         \A d \in Callers \ {c} : caller'[d] = caller[d],
         caller[c].pc # "idle" => caller[c].socket = s,
         \A r \in Sockets \ {s} : queue'[r] = queue[r] /\ work'[r] = work[r],
         alive' \subseteq alive,
         \A r \in Sockets : InHand(r) => InHand(r)',
         s \in alive' => \/ queue'[s] # <<>>
                         \/ /\ caller'[c].pc \in
                                  {"peek", "check", "remove", "insert", "close"}
                            /\ caller'[c].socket = s
  PROVE  NoneStranded'
<1> SUFFICES ASSUME NEW r \in alive', work'[r] > 0
             PROVE  \/ queue'[r] # <<>>
                    \/ InHand(r)'
                    \/ Updating(r)' # {}
                    \/ Closing(r)'
  BY DEF NoneStranded
<1>0. r \in alive /\ r \in Sockets
  BY DEF TypeOK
<1>1. CASE r = s
  BY <1>1 DEF Updating, Closing, At
<1>2. CASE r # s
  <2>1. \/ queue[r] # <<>> \/ InHand(r) \/ Updating(r) # {} \/ Closing(r)
    BY <1>0, <1>2 DEF NoneStranded
  <2>2. CASE Updating(r) # {}
    <3>1. PICK d \in Callers : /\ caller[d].pc \in {"peek", "check", "remove", "insert"}
                               /\ caller[d].socket = r
      BY <2>2 DEF Updating
    <3>2. d # c
      BY <1>2, <3>1
    <3>3. d \in Updating(r)'
      BY <3>1, <3>2 DEF Updating
    <3> QED  BY <3>3
  <2>3. CASE Closing(r)
    <3>1. PICK d \in Callers : caller[d].pc = "close" /\ caller[d].socket = r
      BY <2>3 DEF Closing, At
    <3>2. d # c
      BY <1>2, <3>1
    <3> QED  BY <3>1, <3>2 DEF Closing, At
  <2> QED
    BY <1>0, <1>2, <2>1, <2>2, <2>3
<1> QED
  BY <1>1, <1>2

(* notify_one takes nothing out of the hands of the worker.                *)
LEMMA NotifyKeepsHand ==
  ASSUME NotifyOne \/ UNCHANGED <<permit, worker>>
  PROVE  \A s \in Sockets : InHand(s) <=> InHand(s)'
BY DEF NotifyOne, InHand, Looking

(* No part of update() strands a socket: its gaps are covered by the       *)
(* caller itself.                                                          *)
LEMMA StrandedUpdate ==
  ASSUME TypeOK, NoneStranded, NEW c \in Callers, Update(c)
  PROVE  NoneStranded'
<1> DEFINE s == caller[c].socket
<1>1. /\ caller[c].pc \in {"peek", "check", "remove", "insert"}
      /\ s \in Sockets
      /\ UNCHANGED <<work, alive>>
      /\ \A d \in Callers \ {c} : caller'[d] = caller[d]
  BY UpdateCases
<1>2. NotifyOne \/ UNCHANGED <<permit, worker>>
  BY UpdateCases DEF Insert
<1>3. \A r \in Sockets \ {s} : queue'[r] = queue[r]
  <2>1. start_time \in Times
    BY SendQueueAssumption DEF start_time, Times
  <2>2. Insert(s, start_time) => \A r \in Sockets \ {s} : queue'[r] = queue[r]
    BY <1>1, <2>1, InsertFacts DEF TypeOK
  <2>3. \/ queue' = queue
        \/ \E i \in DOMAIN queue[s] : queue' = [queue EXCEPT ![s][i] = start_time]
        \/ queue' = [queue EXCEPT ![s] = <<>>]
        \/ Insert(s, start_time)
    BY UpdateCases
  <2>4. DOMAIN queue = Sockets
    BY DEF TypeOK
  <2> QED  BY <2>2, <2>3, <2>4
<1>4. \/ queue'[s] # <<>>
      \/ /\ caller'[c].pc \in {"peek", "check", "remove", "insert", "close"}
         /\ caller'[c].socket = s
  <2>1. start_time \in Times
    BY SendQueueAssumption DEF start_time, Times
  <2>2. Insert(s, start_time) => queue'[s] # <<>>
    BY <1>1, <2>1, InsertFacts DEF TypeOK
  <2>3. ASSUME NEW i \in DOMAIN queue[s], queue' = [queue EXCEPT ![s][i] = start_time]
        PROVE  queue'[s] # <<>>
    <3>1. queue'[s] = [queue[s] EXCEPT ![i] = start_time]
      BY <1>1, <2>3 DEF TypeOK
    <3>2. i \in DOMAIN queue'[s]
      BY <3>1
    <3> QED  BY <3>2
  <2> QED  BY <2>2, <2>3, UpdateCases
<1> QED
  BY <1>1, <1>2, <1>3, <1>4, NotifyKeepsHand, StrandedFrame

(* Neither a new call nor an expired or closed connection strands a        *)
(* socket.                                                                 *)
LEMMA StrandedCaller ==
  ASSUME TypeOK, NoneStranded, NEW c \in Callers, NEW s \in Sockets,
         \/ \E reschedule \in BOOLEAN, more \in 0 .. 1 : Call(c, s, reschedule, more)
         \/ Expire(c, s)
         \/ CloseRemove(c, s)
         \/ CloseStatus(c) /\ caller[c].socket = s
  PROVE  NoneStranded'
<1>1. /\ worker' = worker
      /\ alive' \subseteq alive
      /\ \A d \in Callers \ {c} : caller'[d] = caller[d]
      /\ \A r \in Sockets \ {s} : queue'[r] = queue[r] /\ work'[r] = work[r]
  BY DEF Call, Expire, CloseRemove, CloseStatus, TypeOK
<1>2. caller[c].pc # "idle" => caller[c].socket = s
  BY DEF Call, Expire, CloseRemove, CloseStatus, Idle
<1>3. s \in alive' => /\ caller'[c].pc \in
                            {"peek", "check", "remove", "insert", "close"}
                      /\ caller'[c].socket = s
  <2>1. ASSUME NEW reschedule \in BOOLEAN, NEW more \in 0 .. 1,
               Call(c, s, reschedule, more)
        PROVE  /\ caller'[c].pc \in {"peek", "check"}
               /\ caller'[c].socket = s
    BY <2>1 DEF Call, TypeOK
  <2>2. CASE CloseRemove(c, s)
    BY <2>2 DEF CloseRemove, TypeOK
  <2> QED  BY <2>1, <2>2 DEF Expire, CloseStatus
<1>4. \A r \in Sockets : InHand(r) => InHand(r)'
  BY <1>1 DEF InHand
<1> QED
  BY <1>1, <1>2, <1>3, <1>4, StrandedFrame

(* The worker keeps hold of a socket that it takes out until it has put it *)
(* back or found that there is nothing to send.                            *)
LEMMA StrandedWorker ==
  ASSUME TypeOK, NoneStranded, Worker
  PROVE  NoneStranded'
<1> SUFFICES ASSUME NEW r \in alive', work'[r] > 0
             PROVE  \/ queue'[r] # <<>>
                    \/ InHand(r)'
                    \/ Updating(r)' # {}
                    \/ Closing(r)'
  BY DEF NoneStranded
<1>1. r \in alive /\ r \in Sockets /\ alive' = alive /\ caller' = caller
  BY DEF Worker, Look, Park, Timeout, Serve, Reinsert, PassOn, TypeOK
<1>2. Updating(r)' = Updating(r) /\ Closing(r)' = Closing(r)
  BY <1>1 DEF Updating, Closing, At
<1>3. work[r] > 0
  <2>1. CASE Serve
    BY <1>1, <2>1 DEF Serve, TypeOK
  <2> QED
    BY <2>1 DEF Worker, Look, Park, Timeout, Reinsert, PassOn
<1>4. queue[r] # <<>> \/ InHand(r) \/ Updating(r) # {} \/ Closing(r)
  BY <1>1, <1>3 DEF NoneStranded
<1>5. CASE Look
  <2>1. ~InHand(r)
    BY <1>5 DEF Look, InHand
  <2>2. CASE queue' = queue
    BY <1>2, <1>4, <2>1, <2>2
  <2>3. ASSUME NEW s \in Sockets, NEW i \in DOMAIN queue[s],
               queue' = Drop(queue, s, i),
               worker' = [pc |-> "serve", socket |-> s]
        PROVE  queue'[r] = queue[r] \/ InHand(r)'
    <3>1. CASE r = s
      BY <2>3, <3>1 DEF InHand
    <3>2. CASE r # s
      BY <1>1, <2>3, <3>2, DropFacts DEF TypeOK, Queues
    <3> QED  BY <3>1, <3>2
  <2> QED
    BY <1>2, <1>4, <1>5, <2>1, <2>2, <2>3, LookCases
<1>6. CASE Serve
  <2>1. queue' = queue
    BY <1>6 DEF Serve
  <2>2. InHand(r) => InHand(r)'
    BY <1>1, <1>3, <1>6 DEF Serve, InHand
  <2> QED  BY <1>2, <1>4, <2>1, <2>2
<1>7. CASE Reinsert
  <2>1. worker.socket \in Sockets /\ worker.ts \in Times /\ queue \in Queues
    BY <1>7, WorkerFacts DEF Reinsert, TypeOK, Queues
  <2>2. queue' = Push(queue, worker.socket, worker.ts)
    BY <1>7 DEF Reinsert
  <2>3. queue'[worker.socket] # <<>>
    BY <2>1, <2>2, PushFacts, AppendFacts DEF Queues
  <2>4. r # worker.socket => queue'[r] = queue[r]
    BY <1>1, <2>1, <2>2, PushFacts
  <2>5. InHand(r) => r = worker.socket
    BY DEF InHand
  <2> QED  BY <1>2, <1>4, <2>3, <2>4, <2>5
<1>8. CASE Park \/ Timeout \/ PassOn
  <2>1. queue' = queue /\ ~InHand(r)
    BY <1>8 DEF Park, Timeout, PassOn, InHand
  <2> QED  BY <1>2, <1>4, <2>1
<1> QED
  BY <1>5, <1>6, <1>7, <1>8 DEF Worker

(* No step strands a socket (snd_queue.rs, worker and update).             *)
LEMMA StrandedStep ==
  ASSUME TypeOK, NoneStranded, [Next]_vars
  PROVE  NoneStranded'
<1>1. CASE SendPackets \/ Tick \/ UNCHANGED vars
  BY <1>1 DEF SendPackets, Tick, vars, NoneStranded, InHand, Updating, Closing, At
<1>2. ASSUME NEW c \in Callers, CloseStatus(c)
      PROVE  NoneStranded'
  <2>1. caller[c].socket \in Sockets
    BY <1>2, CallerFacts DEF CloseStatus, At
  <2> QED  BY <1>2, <2>1, StrandedCaller
<1>3. ASSUME NEW c \in Callers, NEW s \in Sockets,
             \/ \E reschedule \in BOOLEAN, more \in 0 .. 1 :
                  Call(c, s, reschedule, more)
             \/ Expire(c, s)
             \/ CloseRemove(c, s)
      PROVE  NoneStranded'
  BY <1>3, StrandedCaller
<1> QED
  BY <1>1, <1>2, <1>3, StrandedUpdate, StrandedWorker DEF Next

(* At first no socket has anything to send.                                *)
LEMMA StrandedInit == Init => NoneStranded
BY DEF Init, NoneStranded

(* No interleaving of callers, close() and the worker loses a socket that  *)
(* has something to send from the queue (snd_queue.rs, update and worker). *)
THEOREM NoneStrandedCorrect == Spec => []NoneStranded
BY TypeCorrect, StrandedInit, StrandedStep, PTL DEF Spec

(***************************************************************************)
(* The worker misses no wakeup                                             *)
(***************************************************************************)

(* A node at the earliest time is on top, alone or with others that were   *)
(* there before, so that the worker is told or has been told.              *)
LEMMA WakeupInsert ==
  ASSUME TypeOK, NoMissedWakeup, NEW s \in Sockets, Insert(s, start_time)
  PROVE  NoMissedWakeup'
<1>1. start_time \in Times /\ start_time = 0
  BY SendQueueAssumption DEF start_time, Times
<1>2. queue \in [Sockets -> Seq(Times)]
  BY DEF TypeOK
<1>3. /\ queue' \in Queues
      /\ queue'[s] = Append(queue[s], start_time)
      /\ \A r \in Sockets \ {s} : queue'[r] = queue[r]
  BY <1>1, <1>2, InsertFacts
<1>4. CASE NotifyOne
  BY <1>4 DEF NotifyOne, NoMissedWakeup, Looking
<1>5. CASE UNCHANGED <<permit, worker>>
  <2>1. CASE \E top \in Tops(queue') : top[1] # s
    <3>1. PICK top \in Tops(queue') : top[1] # s
      BY <2>1
    <3> DEFINE r == top[1]
               i == top[2]
    <3>2. /\ r \in Sockets /\ i \in DOMAIN queue'[r]
          /\ \A t \in Sockets : \A j \in DOMAIN queue'[t] : queue'[r][i] <= queue'[t][j]
      BY TopsFacts
    <3>3. queue'[r] = queue[r]
      BY <1>3, <3>1, <3>2
    <3>4. /\ Len(queue[s]) + 1 \in DOMAIN queue'[s]
          /\ queue'[s][Len(queue[s]) + 1] = 0
      BY <1>1, <1>2, <1>3, AppendFacts
    <3>5. queue[r][i] <= 0
      BY <3>2, <3>3, <3>4
    <3>6. i \in DOMAIN queue[r]
      BY <3>2, <3>3
    <3>7. worker.pc \in {"park", "parked"} => worker.until \in 1 .. Never
      BY WorkerFacts
    <3>8. worker.pc \in {"park", "parked"} => ~(worker.until <= queue[r][i])
      <4>1. queue[r][i] \in Int
        <5>1. \A q \in Seq(Times) : \A k \in DOMAIN q : q[k] \in Times
          OBVIOUS
        <5>2. queue[r] \in Seq(Times)
          BY <1>2, <3>2
        <5>3. queue[r][i] \in Times
          BY <3>6, <5>1, <5>2
        <5> QED  BY <5>3, SendQueueAssumption DEF Times
      <4> HIDE DEF r, i
      <4> QED  BY <3>5, <3>7, <4>1
    <3>9. worker.pc \in {"park", "parked"} => worker.pc = "park" /\ permit
      <4> HIDE DEF r, i
      <4> QED  BY <3>2, <3>6, <3>8 DEF NoMissedWakeup
    <3> QED
      BY <1>5, <3>9 DEF NoMissedWakeup
  <2> QED
    BY <1>4, <2>1 DEF Insert
<1> QED
  BY <1>4, <1>5 DEF Insert

(* Nodes that leave the heap, or stay, give no reason to wake.             *)
LEMMA WakeupFewer ==
  ASSUME TypeOK, NoMissedWakeup, NEW s \in Sockets,
         queue' = queue \/ queue' = [queue EXCEPT ![s] = <<>>],
         UNCHANGED <<permit, worker>>
  PROVE  NoMissedWakeup'
<1>1. CASE queue' = queue
  BY <1>1 DEF NoMissedWakeup
<1>2. CASE queue' = [queue EXCEPT ![s] = <<>>]
  <2>1. DOMAIN queue'[s] = {}
    BY <1>2 DEF TypeOK
  <2>2. \A r \in Sockets \ {s} : queue'[r] = queue[r]
    BY <1>2 DEF TypeOK
  <2> QED
    BY <2>1, <2>2 DEF NoMissedWakeup
<1> QED
  BY <1>1, <1>2

(* No part of update() leaves the worker asleep past a node.               *)
LEMMA WakeupUpdate ==
  ASSUME TypeOK, NoMissedWakeup, NEW c \in Callers, Update(c)
  PROVE  NoMissedWakeup'
<1>1. caller[c].socket \in Sockets
  BY UpdateCases
<1>2. CASE NotifyOne
  BY <1>2 DEF NotifyOne, NoMissedWakeup, Looking
<1> QED
  BY <1>1, <1>2, UpdateCases, WakeupInsert, WakeupFewer

(* The worker waits for the earliest node, and uses up a permit before it  *)
(* waits.                                                                  *)
LEMMA WakeupWorker ==
  ASSUME TypeOK, NoMissedWakeup, Worker
  PROVE  NoMissedWakeup'
<1>1. CASE Look
  <2>1. CASE IsEmpty(queue) /\ queue' = queue
    <3>1. \A s \in Sockets : DOMAIN queue'[s] = {}
      BY <2>1 DEF IsEmpty
    <3> QED  BY <3>1 DEF NoMissedWakeup
  <2>2. CASE worker'.pc = "serve"
    BY <2>2 DEF NoMissedWakeup
  <2>3. ASSUME NEW s \in Sockets, NEW i \in DOMAIN queue[s],
               worker' = [pc |-> "park", until |-> queue[s][i]],
               \A r \in Sockets : \A j \in DOMAIN queue[r] :
                 queue[s][i] <= queue[r][j],
               queue' = queue
        PROVE  NoMissedWakeup'
    BY <2>3 DEF NoMissedWakeup
  <2> QED
    BY <1>1, <2>1, <2>2, <2>3, LookCases
<1>2. CASE Park
  <2>1. CASE permit
    BY <1>2, <2>1 DEF Park, NoMissedWakeup, Looking
  <2>2. CASE ~permit
    <3>1. worker' = [pc |-> "parked", until |-> worker.until] /\ queue' = queue
      BY <1>2, <2>2, WorkerFacts DEF Park
    <3>2. \A s \in Sockets : \A i \in DOMAIN queue[s] : worker.until <= queue[s][i]
      BY <1>2, <2>2 DEF Park, NoMissedWakeup
    <3> QED  BY <3>1, <3>2 DEF NoMissedWakeup
  <2> QED
    BY <2>1, <2>2
<1>3. CASE Timeout \/ Serve \/ Reinsert \/ PassOn
  <2>1. worker'.pc \notin {"park", "parked"}
    BY <1>3 DEF Timeout, Serve, Reinsert, PassOn, Looking
  <2> QED  BY <2>1 DEF NoMissedWakeup
<1> QED
  BY <1>1, <1>2, <1>3 DEF Worker

(* No step leaves the worker asleep past a node (snd_queue.rs, worker).    *)
LEMMA WakeupStep ==
  ASSUME TypeOK, NoMissedWakeup, [Next]_vars
  PROVE  NoMissedWakeup'
<1>1. CASE SendPackets \/ Tick \/ UNCHANGED vars
  BY <1>1 DEF SendPackets, Tick, vars, NoMissedWakeup
<1>2. ASSUME NEW c \in Callers, CloseStatus(c)
      PROVE  NoMissedWakeup'
  BY <1>2 DEF CloseStatus, NoMissedWakeup
<1>3. ASSUME NEW c \in Callers, NEW s \in Sockets,
             \/ \E reschedule \in BOOLEAN, more \in 0 .. 1 :
                  Call(c, s, reschedule, more)
             \/ Expire(c, s)
             \/ CloseRemove(c, s)
      PROVE  NoMissedWakeup'
  BY <1>3, WakeupFewer DEF Call, Expire, CloseRemove
<1> QED
  BY <1>1, <1>2, <1>3, WakeupUpdate, WakeupWorker DEF Next

(* The worker starts by looking at the heap.                               *)
LEMMA WakeupInit == Init => NoMissedWakeup
BY DEF Init, NoMissedWakeup, Looking

(* The worker never sleeps past a node, although insert() notifies it only *)
(* if its own node is on top (snd_queue.rs, insert and worker).            *)
THEOREM NoMissedWakeupCorrect == Spec => []NoMissedWakeup
BY TypeCorrect, WakeupInit, WakeupStep, PTL DEF Spec

(***************************************************************************)
(* The nodes are bounded                                                   *)
(***************************************************************************)

Inserting(s) == {c \in Callers : caller[c].pc = "insert" /\ caller[c].socket = s}

HandCount(s) == IF InHand(s) THEN 1 ELSE 0

(* The inductive form: the nodes of a socket in the heap, the one in the   *)
(* hands of the worker and those the callers are about to insert.          *)
NodesCounted ==
  \A s \in Sockets :
    Len(queue[s]) + HandCount(s) + Cardinality(Inserting(s)) <= Cardinality(Callers) + 1

(* The parts of the count are natural numbers, and the callers about to    *)
(* insert are at most all of them.                                         *)
LEMMA CountFacts ==
  ASSUME TypeOK, NEW s \in Sockets
  PROVE  /\ Len(queue[s]) \in Nat
         /\ HandCount(s) \in 0 .. 1
         /\ IsFiniteSet(Inserting(s))
         /\ Cardinality(Inserting(s)) \in Nat
         /\ Cardinality(Inserting(s)) <= Cardinality(Callers)
         /\ Cardinality(Callers) \in Nat
<1>1. Len(queue[s]) \in Nat
  BY DEF TypeOK
<1>2. HandCount(s) \in 0 .. 1
  BY DEF HandCount
<1>3. Inserting(s) \in SUBSET Callers
  BY DEF Inserting
<1>4. IsFiniteSet(Callers)
  BY SendQueueAssumption
<1>5. IsFiniteSet(Inserting(s)) /\ Cardinality(Inserting(s)) <= Cardinality(Callers)
  BY <1>3, <1>4, FS_Subset
<1> QED
  BY <1>1, <1>2, <1>4, <1>5, FS_CardinalityType

(* A step of one caller with one socket: the count of the others is the    *)
(* same, and that of this socket is bounded.                               *)
LEMMA CountedFrame ==
  ASSUME TypeOK, NodesCounted, NEW c \in Callers, NEW s \in Sockets,
         \A d \in Callers \ {c} : caller'[d] = caller[d],
         caller[c].pc = "insert" => caller[c].socket = s,
         caller'[c].pc = "insert" => caller'[c].socket = s,
         \A r \in Sockets \ {s} : queue'[r] = queue[r],
         \A r \in Sockets : InHand(r) <=> InHand(r)',
         Len(queue'[s]) + HandCount(s) + Cardinality(Inserting(s)')
           <= Cardinality(Callers) + 1
  PROVE  NodesCounted'
<1>1. \A r \in Sockets : HandCount(r)' = HandCount(r)
  BY DEF HandCount
<1>2. \A r \in Sockets \ {s} : Inserting(r)' = Inserting(r)
  BY DEF Inserting
<1>3. ASSUME NEW r \in Sockets
      PROVE  Len(queue'[r]) + HandCount(r)' + Cardinality(Inserting(r)')
               <= Cardinality(Callers) + 1
  <2>1. CASE r = s
    BY <1>1, <2>1
  <2>2. CASE r # s
    BY <1>1, <1>2, <2>2 DEF NodesCounted
  <2> QED  BY <2>1, <2>2
<1> QED
  BY <1>3 DEF NodesCounted

(* update() inserts a node only after it has found or made the socket's    *)
(* part of the heap empty.                                                 *)
LEMMA CountedUpdate ==
  ASSUME TypeOK, NodesCounted, NEW c \in Callers, Update(c)
  PROVE  NodesCounted'
<1>0. PICK s \in Sockets : s = caller[c].socket
  BY UpdateCases
<1> DEFINE bound == Len(queue'[s]) + HandCount(s) + Cardinality(Inserting(s)')
                      <= Cardinality(Callers) + 1
<1>1. /\ caller[c].pc \in {"peek", "check", "remove", "insert"}
      /\ \A d \in Callers \ {c} : caller'[d] = caller[d]
  BY UpdateCases
<1>2. \A r \in Sockets : InHand(r) <=> InHand(r)'
  <2>1. NotifyOne \/ UNCHANGED <<permit, worker>>
    BY UpdateCases DEF Insert
  <2> QED  BY <2>1, NotifyKeepsHand
<1>3. start_time \in Times
  BY SendQueueAssumption DEF start_time, Times
<1>4. \A r \in Sockets \ {s} : queue'[r] = queue[r]
  <2>1. Insert(s, start_time) => \A r \in Sockets \ {s} : queue'[r] = queue[r]
    BY <1>3, InsertFacts DEF TypeOK
  <2>2. \/ queue' = queue
        \/ \E i \in DOMAIN queue[s] : queue' = [queue EXCEPT ![s][i] = start_time]
        \/ queue' = [queue EXCEPT ![s] = <<>>]
        \/ Insert(s, start_time)
    BY <1>0, UpdateCases
  <2>3. DOMAIN queue = Sockets
    BY DEF TypeOK
  <2> QED  BY <2>1, <2>2, <2>3
<1>5. /\ Len(queue[s]) \in Nat
      /\ HandCount(s) \in 0 .. 1
      /\ IsFiniteSet(Inserting(s))
      /\ Cardinality(Inserting(s)) \in Nat
      /\ Cardinality(Callers) \in Nat
      /\ Len(queue[s]) + HandCount(s) + Cardinality(Inserting(s))
           <= Cardinality(Callers) + 1
  BY CountFacts DEF NodesCounted
<1>6. /\ Cardinality(Inserting(s)') \in Nat
      /\ Cardinality(Inserting(s)') <= Cardinality(Callers)
  <2>1. {d \in Callers : caller'[d].pc = "insert" /\ caller'[d].socket = s}
          \in SUBSET Callers
    OBVIOUS
  <2>2. IsFiniteSet(Callers)
    BY SendQueueAssumption
  <2> QED  BY <2>1, <2>2, FS_Subset, FS_CardinalityType DEF Inserting
<1>7. caller'[c].pc = "insert" => caller'[c].socket = s
  BY <1>0, UpdateCases
<1>8. CASE /\ caller[c].pc \in {"peek", "check"}
           /\ caller'[c].pc \in {"idle", "check", "remove"}
           /\ \/ queue' = queue
              \/ \E i \in DOMAIN queue[s] : queue' = [queue EXCEPT ![s][i] = start_time]
  <2>1. Inserting(s)' = Inserting(s)
    BY <1>1, <1>8 DEF Inserting
  <2>2. Len(queue'[s]) = Len(queue[s])
    <3>1. ASSUME NEW i \in DOMAIN queue[s], queue' = [queue EXCEPT ![s][i] = start_time]
          PROVE  Len(queue'[s]) = Len(queue[s])
      <4>1. queue'[s] = [queue[s] EXCEPT ![i] = start_time]
        BY <3>1 DEF TypeOK
      <4>2. queue[s] \in Seq(Times)
        BY DEF TypeOK
      <4> QED  BY <1>3, <4>1, <4>2
    <3> QED  BY <1>8, <3>1
  <2>3. bound
    BY <1>5, <2>1, <2>2
  <2> QED
    BY <1>0, <1>1, <1>2, <1>4, <1>7, <2>3, CountedFrame
<1>9. CASE queue'[s] = <<>>
  <2>1. Len(queue'[s]) = 0
    BY <1>9
  <2>2. bound
    BY <1>5, <1>6, <2>1
  <2> QED
    BY <1>0, <1>1, <1>2, <1>4, <1>7, <2>2, CountedFrame
<1>10. CASE /\ caller[c].pc = "insert"
            /\ caller'[c].pc = "idle"
            /\ Insert(s, start_time)
  <2>1. Inserting(s)' = Inserting(s) \ {c} /\ c \in Inserting(s)
    BY <1>0, <1>1, <1>10 DEF Inserting
  <2>2. Cardinality(Inserting(s)') = Cardinality(Inserting(s)) - 1
    BY <1>5, <2>1, FS_RemoveElement
  <2>3. Len(queue'[s]) = Len(queue[s]) + 1
    <3>1. queue'[s] = Append(queue[s], start_time)
      BY <1>3, <1>10, InsertFacts DEF TypeOK
    <3> QED  BY <1>3, <3>1, AppendFacts DEF TypeOK
  <2>4. bound
    <3>1. \A l, h, k, n \in Int : l + h + k <= n + 1 => (l + 1) + h + (k - 1) <= n + 1
      OBVIOUS
    <3> QED  BY <1>5, <2>2, <2>3, <3>1
  <2> QED
    BY <1>0, <1>1, <1>2, <1>4, <1>7, <2>4, CountedFrame
<1>11. queue' = [queue EXCEPT ![s] = <<>>] => queue'[s] = <<>>
  BY DEF TypeOK
<1> QED
  BY <1>0, <1>8, <1>9, <1>10, <1>11, UpdateCases

(* A caller that begins or ends a call, or close(), adds no node.          *)
LEMMA CountedCaller ==
  ASSUME TypeOK, NodesCounted, NEW c \in Callers, NEW s \in Sockets,
         \/ \E reschedule \in BOOLEAN, more \in 0 .. 1 : Call(c, s, reschedule, more)
         \/ Expire(c, s)
         \/ CloseRemove(c, s)
         \/ CloseStatus(c)
  PROVE  NodesCounted'
<1>1. /\ worker' = worker
      /\ \A d \in Callers \ {c} : caller'[d] = caller[d]
      /\ \A r \in Sockets \ {s} : queue'[r] = queue[r]
      /\ queue'[s] = queue[s] \/ queue'[s] = <<>>
  BY DEF Call, Expire, CloseRemove, CloseStatus, TypeOK
<1>2. caller[c].pc # "insert"
  BY DEF Call, Expire, CloseRemove, CloseStatus, At, Idle
<1>3. caller'[c].pc # "insert"
  BY DEF Call, Expire, CloseRemove, CloseStatus, Idle, TypeOK
<1>4. Inserting(s)' = Inserting(s)
  BY <1>1, <1>2, <1>3 DEF Inserting
<1>5. Len(queue'[s]) \in Nat /\ Len(queue'[s]) <= Len(queue[s])
  <2>1. Len(queue[s]) \in Nat /\ Len(<<>>) = 0
    BY CountFacts
  <2> QED  BY <1>1, <2>1
<1>6. Len(queue'[s]) + HandCount(s) + Cardinality(Inserting(s)')
        <= Cardinality(Callers) + 1
  <2>1. \A a, b, h, k, n \in Int : a <= b /\ b + h + k <= n + 1 => a + h + k <= n + 1
    OBVIOUS
  <2>2. /\ Len(queue[s]) \in Int /\ HandCount(s) \in Int
        /\ Cardinality(Inserting(s)) \in Int /\ Cardinality(Callers) \in Int
    BY CountFacts
  <2>3. Len(queue[s]) + HandCount(s) + Cardinality(Inserting(s)) <= Cardinality(Callers) + 1
    BY DEF NodesCounted
  <2>4. Len(queue'[s]) + HandCount(s) + Cardinality(Inserting(s)) <= Cardinality(Callers) + 1
    BY <1>5, <2>1, <2>2, <2>3
  <2> QED  BY <1>4, <2>4
<1>7. \A r \in Sockets : InHand(r) <=> InHand(r)'
  BY <1>1 DEF InHand
<1> QED
  BY <1>1, <1>2, <1>3, <1>6, <1>7, CountedFrame

(* The worker moves a node between the heap and its hands.                 *)
LEMMA CountedWorker ==
  ASSUME TypeOK, NodesCounted, Worker
  PROVE  NodesCounted'
<1> SUFFICES ASSUME NEW r \in Sockets
             PROVE  Len(queue'[r]) + HandCount(r)' + Cardinality(Inserting(r)')
                      <= Cardinality(Callers) + 1
  BY DEF NodesCounted
<1>1. Inserting(r)' = Inserting(r)
  BY DEF Worker, Look, Park, Timeout, Serve, Reinsert, PassOn, Inserting
<1>2. /\ Len(queue[r]) \in Nat
      /\ HandCount(r) \in 0 .. 1
      /\ Cardinality(Inserting(r)) \in Nat
      /\ Cardinality(Callers) \in Nat
      /\ Len(queue[r]) + HandCount(r) + Cardinality(Inserting(r))
           <= Cardinality(Callers) + 1
  BY CountFacts DEF NodesCounted
<1>3. SUFFICES /\ Len(queue'[r]) \in Nat /\ HandCount(r)' \in Nat
               /\ Len(queue'[r]) + HandCount(r)' <= Len(queue[r]) + HandCount(r)
  <2>1. \A a, b, g, h, k, n \in Int :
          a + g <= b + h /\ b + h + k <= n + 1 => a + g + k <= n + 1
    OBVIOUS
  <2> QED  BY <1>1, <1>2, <2>1
<1>4. CASE Look
  <2>1. HandCount(r) = 0
    BY <1>4 DEF Look, HandCount, InHand
  <2>2. CASE queue' = queue /\ worker'.pc = "park"
    BY <1>2, <2>1, <2>2 DEF HandCount, InHand
  <2>3. ASSUME NEW s \in Sockets, NEW i \in DOMAIN queue[s],
               queue' = Drop(queue, s, i),
               worker' = [pc |-> "serve", socket |-> s]
        PROVE  /\ Len(queue'[r]) \in Nat /\ HandCount(r)' \in Nat
               /\ Len(queue'[r]) + HandCount(r)' <= Len(queue[r])
    <3>1. queue' \in Queues
      BY <2>3, DropFacts DEF TypeOK, Queues
    <3>2. Len(queue'[r]) \in Nat
      BY <3>1 DEF Queues
    <3>3. CASE r = s
      <4>1. HandCount(r)' = 1
        BY <2>3, <3>3 DEF HandCount, InHand
      <4>2. Len(queue'[r]) = Len(queue[r]) - 1
        BY <2>3, <3>3, DropFacts DEF TypeOK, Queues
      <4> QED  BY <1>2, <3>2, <4>1, <4>2
    <3>4. CASE r # s
      <4>1. HandCount(r)' = 0
        BY <2>3, <3>4 DEF HandCount, InHand
      <4>2. queue'[r] = queue[r]
        BY <2>3, <3>4, DropFacts DEF TypeOK, Queues
      <4> QED  BY <1>2, <4>1, <4>2
    <3> QED  BY <3>3, <3>4
  <2> QED
    BY <1>2, <1>4, <2>1, <2>2, <2>3, LookCases
<1>5. CASE Reinsert
  <2>1. worker.socket \in Sockets /\ worker.ts \in Times /\ queue \in Queues
    BY <1>5, WorkerFacts DEF Reinsert, TypeOK, Queues
  <2>2. queue' = Push(queue, worker.socket, worker.ts)
    BY <1>5 DEF Reinsert
  <2>3. HandCount(r)' = 0
    BY <1>5 DEF Reinsert, HandCount, InHand
  <2>4. CASE r = worker.socket
    <3>1. HandCount(r) = 1
      BY <1>5, <2>4 DEF Reinsert, HandCount, InHand
    <3>2. Len(queue'[r]) = Len(queue[r]) + 1
      BY <2>1, <2>2, <2>4, PushFacts, AppendFacts DEF Queues
    <3> QED  BY <1>2, <2>3, <3>1, <3>2
  <2>5. CASE r # worker.socket
    <3>1. queue'[r] = queue[r]
      BY <2>1, <2>2, <2>5, PushFacts
    <3> QED  BY <1>2, <2>3, <3>1
  <2> QED
    BY <2>4, <2>5
<1>6. CASE Serve
  <2>1. queue' = queue
    BY <1>6 DEF Serve
  <2>2. InHand(r)' => InHand(r)
    BY <1>6 DEF Serve, InHand, Looking
  <2>3. HandCount(r)' \in 0 .. 1 /\ HandCount(r)' <= HandCount(r)
    BY <2>2 DEF HandCount
  <2> QED  BY <1>2, <2>1, <2>3
<1>7. CASE Park \/ Timeout \/ PassOn
  <2>1. queue' = queue
    BY <1>7 DEF Park, Timeout, PassOn
  <2>2. worker'.pc \notin {"serve", "insert"}
    BY <1>7, WorkerFacts DEF Park, Timeout, PassOn, Looking
  <2>3. HandCount(r)' = 0
    BY <2>2 DEF HandCount, InHand
  <2> QED  BY <1>2, <2>1, <2>3
<1> QED
  BY <1>4, <1>5, <1>6, <1>7 DEF Worker

(* Every step keeps the count of nodes (snd_queue.rs, update and worker).  *)
LEMMA CountedStep ==
  ASSUME TypeOK, NodesCounted, [Next]_vars
  PROVE  NodesCounted'
<1>1. CASE SendPackets \/ Tick \/ UNCHANGED vars
  BY <1>1 DEF SendPackets, Tick, vars, NodesCounted, Inserting, HandCount, InHand
<1>2. ASSUME NEW c \in Callers, CloseStatus(c)
      PROVE  NodesCounted'
  <2>1. caller[c].socket \in Sockets
    BY <1>2, CallerFacts DEF CloseStatus, At
  <2> QED  BY <1>2, <2>1, CountedCaller
<1>3. ASSUME NEW c \in Callers, NEW s \in Sockets,
             \/ \E reschedule \in BOOLEAN, more \in 0 .. 1 :
                  Call(c, s, reschedule, more)
             \/ Expire(c, s)
             \/ CloseRemove(c, s)
      PROVE  NodesCounted'
  BY <1>3, CountedCaller
<1> QED
  BY <1>1, <1>2, <1>3, CountedUpdate, CountedWorker DEF Next

(* The heap is empty at first.                                             *)
LEMMA CountedInit == Init => NodesCounted
<1> SUFFICES ASSUME Init, NEW s \in Sockets
             PROVE  Len(queue[s]) + HandCount(s) + Cardinality(Inserting(s))
                      <= Cardinality(Callers) + 1
  BY DEF NodesCounted
<1>1. Len(queue[s]) = 0
  BY DEF Init
<1>2. HandCount(s) = 0
  BY DEF Init, HandCount, InHand, Looking
<1>3. Inserting(s) = {}
  BY DEF Init, Inserting, Idle
<1>4. Cardinality(Inserting(s)) = 0
  BY <1>3, FS_EmptySet
<1>5. Cardinality(Callers) \in Nat
  BY SendQueueAssumption, FS_CardinalityType
<1> QED
  BY <1>1, <1>2, <1>4, <1>5

(* The gaps in update() may leave several nodes of a socket in the heap,   *)
(* but never more than one for each caller and one for the worker          *)
(* (snd_queue.rs, update).                                                 *)
THEOREM NodesBoundedCorrect == Spec => []NodesBounded
<1>1. TypeOK /\ NodesCounted => NodesBounded
  BY CountFacts DEF NodesCounted, NodesBounded
<1> QED
  BY <1>1, TypeCorrect, CountedInit, CountedStep, PTL DEF Spec
=============================================================================
