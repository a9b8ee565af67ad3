----------------------------- MODULE SendQueue -----------------------------
(***************************************************************************)
(* The send queue of a multiplexer, src/src/queue/snd_queue.rs: a heap of  *)
(* (timestamp, socket) nodes, the worker that serves them in the order of  *)
(* their times, and the tasks that call update() and remove() on it.       *)
(*                                                                         *)
(* The mutex of the heap is released between the parts of update(), so     *)
(* that on a multi-threaded runtime other callers and the worker act       *)
(* between them: each part is a step of its own here.  What a socket has   *)
(* to send is abstracted to a number of batches, the times of              *)
(* next_data_packets to any time from now on.                              *)
(***************************************************************************)
EXTENDS Integers, Sequences, FiniteSets

CONSTANTS
  Sockets,
  Callers,                    \* tasks that use the queue beside its worker
  TOKIO_CHANNEL_CAPACITY,
  MaxTime,                    \* bound: the last moment
  MaxCalls                    \* bound: calls of update()

ASSUME SendQueueAssumption ==
  /\ IsFiniteSet(Callers)
  /\ TOKIO_CHANNEL_CAPACITY \in Nat \ {0}
  /\ MaxTime \in Nat
  /\ MaxCalls \in Nat

VARIABLES
  queue,      \* for each socket the timestamps of its nodes in the heap
  permit,     \* the permit that Notify keeps for the worker
  worker,     \* where the worker is, with what it holds
  caller,     \* where each caller is in update() or close()
  channel,    \* batches between the worker and the task that sends them
  work,       \* batches that each socket has to send
  alive,      \* sockets whose status is alive
  now,
  calls

vars == <<queue, permit, worker, caller, channel, work, alive, now, calls>>

Times      == 0 .. MaxTime
start_time == 0
Never      == MaxTime + 1     \* the worker waits without a timeout

Looking == [pc |-> "look"]
Idle    == [pc |-> "idle"]

Init ==
  /\ queue = [s \in Sockets |-> <<>>]
  /\ permit = FALSE
  /\ worker = Looking
  /\ caller = [c \in Callers |-> Idle]
  /\ channel = 0
  /\ work = [s \in Sockets |-> 0]
  /\ alive = Sockets
  /\ now = 0
  /\ calls = 0

(***************************************************************************)
(* The heap and the notification                                           *)
(***************************************************************************)

Nodes(q) == UNION {{s} \X DOMAIN q[s] : s \in Sockets}

TimeOf(q, node) == q[node[1]][node[2]]

(* The nodes peek() may return: of several with the same, smallest         *)
(* timestamp, any.                                                         *)
Tops(q) == {n \in Nodes(q) : \A o \in Nodes(q) : TimeOf(q, n) <= TimeOf(q, o)}

IsEmpty(q) == \A s \in Sockets : q[s] = <<>>

Push(q, s, ts) == [q EXCEPT ![s] = Append(@, ts)]

(* Mutant of Drop: the node is looked at and not taken out.                *)
DropNot(q, s, i) == q

(* pop(): the nodes of a socket without the i-th.                          *)
Drop(q, s, i) ==
  [q EXCEPT ![s] = [j \in 1 .. (Len(@) - 1) |-> IF j < i THEN @[j] ELSE @[j + 1]]]

(* Notify::notify_one: a worker that waits is woken, otherwise the permit  *)
(* is kept, and there is only one.                                         *)
NotifyOne ==
  IF worker.pc = "parked"
  THEN worker' = Looking /\ UNCHANGED permit
  ELSE permit' = TRUE /\ UNCHANGED worker

(* Mutant of Insert: the worker is not told.                               *)
InsertNoNotify(s, ts) == queue' = Push(queue, s, ts) /\ UNCHANGED <<permit, worker>>

(* insert() by a caller: it notifies if the node on top is of its socket.  *)
Insert(s, ts) ==
  /\ queue' = Push(queue, s, ts)
  /\ \E top \in Tops(queue') :
       IF top[1] = s THEN NotifyOne ELSE UNCHANGED <<permit, worker>>

(***************************************************************************)
(* The callers                                                             *)
(***************************************************************************)

(* A task changes what the socket has to send, or not, and calls update(). *)
Call(c, s, reschedule, more) ==
  /\ caller[c] = Idle
  /\ s \in alive
  /\ calls < MaxCalls
  /\ calls' = calls + 1
  /\ work' = [work EXCEPT ![s] = @ + more]
  /\ caller' = [caller EXCEPT ![c] =
       [pc |-> IF reschedule THEN "peek" ELSE "check",
        socket |-> s, reschedule |-> reschedule]]
  /\ UNCHANGED <<queue, permit, worker, channel, alive, now>>

(* check_timers gives the connection up: the socket is not alive any more  *)
(* when update() is called for it.                                         *)
Expire(c, s) ==
  /\ caller[c] = Idle
  /\ s \in alive
  /\ calls < MaxCalls
  /\ calls' = calls + 1
  /\ alive' = alive \ {s}
  /\ caller' = [caller EXCEPT ![c] =
       [pc |-> "peek", socket |-> s, reschedule |-> TRUE]]
  /\ UNCHANGED <<queue, permit, worker, channel, work, now>>

At(c, pc) == caller[c].pc = pc

(* update(), first part, if the socket is to be rescheduled: the node on   *)
(* top, if it is of this socket, gets the earliest time.                   *)
Peek(c) ==
  LET s == caller[c].socket
  IN  /\ At(c, "peek")
      /\ \/ \E i \in DOMAIN queue[s] :
              /\ <<s, i>> \in Tops(queue)
              /\ queue' = [queue EXCEPT ![s][i] = start_time]
              /\ NotifyOne
              /\ caller' = [caller EXCEPT ![c] = Idle]
         \/ /\ \/ IsEmpty(queue)
               \/ \E top \in Tops(queue) : top[1] # s
            /\ caller' = [caller EXCEPT ![c].pc = "check"]
            /\ UNCHANGED <<queue, permit, worker>>
      /\ UNCHANGED <<channel, work, alive, now, calls>>

(* Mutant of Check: a socket without a node is put in only if it is to be  *)
(* rescheduled.                                                            *)
CheckRescheduleOnly(c) ==
  /\ At(c, "check")
  /\ caller' = [caller EXCEPT ![c] =
       IF caller[c].reschedule THEN [@ EXCEPT !.pc = "insert"] ELSE Idle]
  /\ UNCHANGED <<queue, permit, worker, channel, work, alive, now, calls>>

(* Second part: is there a node of the socket?                             *)
Check(c) ==
  LET s == caller[c].socket
  IN  /\ At(c, "check")
      /\ caller' = [caller EXCEPT ![c] =
           IF queue[s] = <<>>           THEN [@ EXCEPT !.pc = "insert"]
           ELSE IF caller[c].reschedule THEN [@ EXCEPT !.pc = "remove"]
           ELSE Idle]
      /\ UNCHANGED <<queue, permit, worker, channel, work, alive, now, calls>>

(* Third part, if it is to be rescheduled: remove() all its nodes.         *)
Remove(c) ==
  /\ At(c, "remove")
  /\ queue' = [queue EXCEPT ![caller[c].socket] = <<>>]
  /\ caller' = [caller EXCEPT ![c].pc = "insert"]
  /\ UNCHANGED <<permit, worker, channel, work, alive, now, calls>>

(* Last part: insert() at the earliest time.                               *)
InsertFirst(c) ==
  /\ At(c, "insert")
  /\ Insert(caller[c].socket, start_time)
  /\ caller' = [caller EXCEPT ![c] = Idle]
  /\ UNCHANGED <<channel, work, alive, now, calls>>

(* close(): the nodes of the socket are removed, and its status is set     *)
(* afterwards.                                                             *)
CloseRemove(c, s) ==
  /\ caller[c] = Idle
  /\ s \in alive
  /\ queue' = [queue EXCEPT ![s] = <<>>]
  /\ caller' = [caller EXCEPT ![c] = [pc |-> "close", socket |-> s]]
  /\ UNCHANGED <<permit, worker, channel, work, alive, now, calls>>

CloseStatus(c) ==
  /\ At(c, "close")
  /\ alive' = alive \ {caller[c].socket}
  /\ caller' = [caller EXCEPT ![c] = Idle]
  /\ UNCHANGED <<queue, permit, worker, channel, work, now, calls>>

(***************************************************************************)
(* The worker                                                              *)
(***************************************************************************)

(* The worker looks at the node on top: it takes it out if its time has    *)
(* come, otherwise it is going to wait for that time, or for ever.         *)
Look ==
  /\ worker.pc = "look"
  /\ IF IsEmpty(queue)
     THEN worker' = [pc |-> "park", until |-> Never] /\ UNCHANGED queue
     ELSE \E top \in Tops(queue) :
            LET s == top[1]
                t == queue[s][top[2]]
            IN  IF t <= now
                THEN /\ queue' = Drop(queue, s, top[2])
                     /\ worker' = [pc |-> "serve", socket |-> s]
                ELSE /\ worker' = [pc |-> "park", until |-> t]
                     /\ UNCHANGED queue
  /\ UNCHANGED <<permit, caller, channel, work, alive, now, calls>>

(* notified() is polled: a permit that is there is used up.                *)
Park ==
  /\ worker.pc = "park"
  /\ worker' = IF permit THEN Looking ELSE [worker EXCEPT !.pc = "parked"]
  /\ permit' = FALSE
  /\ UNCHANGED <<queue, caller, channel, work, alive, now, calls>>

Timeout ==
  /\ worker.pc \in {"park", "parked"}
  /\ worker.until <= now
  /\ worker' = Looking
  /\ UNCHANGED <<queue, permit, caller, channel, work, alive, now, calls>>

(* next_data_packets of the socket, if it is alive and has something.      *)
Serve ==
  /\ worker.pc = "serve"
  /\ LET s == worker.socket
     IN  IF s \in alive /\ work[s] > 0
         THEN /\ work' = [work EXCEPT ![s] = @ - 1]
              /\ \E ts \in now .. MaxTime :
                   worker' = [pc |-> "insert", socket |-> s, ts |-> ts]
         ELSE worker' = Looking /\ UNCHANGED work
  /\ UNCHANGED <<queue, permit, caller, channel, alive, now, calls>>

(* Mutant of Reinsert: the socket does not go back into the queue.         *)
ReinsertForgotten ==
  /\ worker.pc = "insert"
  /\ worker' = [pc |-> "send"]
  /\ UNCHANGED <<queue, permit, caller, channel, work, alive, now, calls>>

(* The socket goes back into the queue before its packets are passed on.   *)
(* notify_one leaves a permit for the worker itself.                       *)
Reinsert ==
  /\ worker.pc = "insert"
  /\ queue' = Push(queue, worker.socket, worker.ts)
  /\ \E top \in Tops(queue') : permit' = (permit \/ top[1] = worker.socket)
  /\ worker' = [pc |-> "send"]
  /\ UNCHANGED <<caller, channel, work, alive, now, calls>>

(* tx.send().await, with a bounded channel, and the task at its other end. *)
PassOn ==
  /\ worker.pc = "send"
  /\ channel < TOKIO_CHANNEL_CAPACITY
  /\ channel' = channel + 1
  /\ worker' = Looking
  /\ UNCHANGED <<queue, permit, caller, work, alive, now, calls>>

SendPackets ==
  /\ channel > 0
  /\ channel' = channel - 1
  /\ UNCHANGED <<queue, permit, worker, caller, work, alive, now, calls>>

Tick ==
  /\ now < MaxTime
  /\ now' = now + 1
  /\ UNCHANGED <<queue, permit, worker, caller, channel, work, alive, calls>>

(***************************************************************************)
(* The specification                                                       *)
(***************************************************************************)

Update(c) == Peek(c) \/ Check(c) \/ Remove(c) \/ InsertFirst(c)

Worker == Look \/ Park \/ Timeout \/ Serve \/ Reinsert \/ PassOn

Next ==
  \/ \E c \in Callers, s \in Sockets :
       \/ \E reschedule \in BOOLEAN, more \in 0 .. 1 : Call(c, s, reschedule, more)
       \/ Expire(c, s)
       \/ CloseRemove(c, s)
  \/ \E c \in Callers : Update(c) \/ CloseStatus(c)
  \/ Worker
  \/ SendPackets
  \/ Tick

Spec == Init /\ [][Next]_vars

(* A call that has begun goes on, since nothing in it awaits; the worker,  *)
(* the task that sends and the clock go on.                                *)
Fairness ==
  /\ \A c \in Callers : WF_vars(Update(c) \/ CloseStatus(c))
  /\ WF_vars(Worker)
  /\ WF_vars(SendPackets)
  /\ WF_vars(Tick)

FairSpec == Spec /\ Fairness

(***************************************************************************)
(* Properties                                                              *)
(***************************************************************************)

WorkerStates ==
       [pc : {"look", "send"}]
  \cup [pc : {"park", "parked"}, until : 1 .. Never]
  \cup [pc : {"serve"}, socket : Sockets]
  \cup [pc : {"insert"}, socket : Sockets, ts : Times]

CallerStates ==
       [pc : {"idle"}]
  \cup [pc : {"peek", "check", "remove", "insert"}, socket : Sockets,
        reschedule : BOOLEAN]
  \cup [pc : {"close"}, socket : Sockets]

(* Types.  The channel never holds more than its capacity, and a node the  *)
(* worker waits for is later than the start of the queue.                  *)
TypeOK ==
  /\ queue \in [Sockets -> Seq(Times)]
  /\ permit \in BOOLEAN
  /\ worker \in WorkerStates
  /\ caller \in [Callers -> CallerStates]
  /\ channel \in 0 .. TOKIO_CHANNEL_CAPACITY
  /\ work \in [Sockets -> Nat]
  /\ alive \subseteq Sockets
  /\ now \in Times
  /\ calls \in 0 .. MaxCalls

(* The callers that are going to put the socket into the queue, or to look *)
(* whether they have to; the worker has the socket out of the queue.       *)
Updating(s) ==
  {c \in Callers : /\ caller[c].pc \in {"peek", "check", "remove", "insert"}
                   /\ caller[c].socket = s}
InHand(s) == worker.pc \in {"serve", "insert"} /\ worker.socket = s

(* A socket in the middle of close() may be left out.                      *)
Closing(s) == \E c \in Callers : At(c, "close") /\ caller[c].socket = s

(* A socket with something to send is in the queue, or in the hands of     *)
(* the worker, or of a caller that will see to it: the unlocked gaps in    *)
(* update() never lose it (snd_queue.rs, worker and update).               *)
NoneStranded ==
  \A s \in alive :
    work[s] > 0 => \/ queue[s] # <<>>
                   \/ InHand(s)
                   \/ Updating(s) # {}
                   \/ Closing(s)

(* The worker never sleeps past a node: if one is earlier than what it is  *)
(* waiting for, a permit is there and it has not been parked yet.  insert  *)
(* notifies only if its node is on top, which has to be enough             *)
(* (snd_queue.rs, worker and insert).                                      *)
NoMissedWakeup ==
  worker.pc \in {"park", "parked"} =>
    \/ worker.pc = "park" /\ permit
    \/ \A s \in Sockets : \A i \in DOMAIN queue[s] : worker.until <= queue[s][i]

(* Racing callers may leave several nodes of a socket in the heap, but     *)
(* never more than one for each of them and one for the worker, however    *)
(* long the queue is in use (snd_queue.rs, update).                        *)
NodesBounded ==
  \A s \in Sockets : Len(queue[s]) <= Cardinality(Callers) + 1

(* Whatever a socket has to send is passed on in the end, unless the       *)
(* socket is closed (snd_queue.rs, worker).                                *)
EveryBatchSent ==
  \A s \in Sockets : work[s] > 0 ~> (work[s] = 0 \/ s \notin alive)
=============================================================================
