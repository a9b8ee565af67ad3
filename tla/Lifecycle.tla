----------------------------- MODULE Lifecycle -----------------------------
(***************************************************************************)
(* The end of a connection: close() with its linger loop, the Shutdown     *)
(* packet, the EXP timer and the collection of sockets, with the calls     *)
(* that wait meanwhile: recv() and poll_read for data, poll_write and      *)
(* poll_flush for ACKs (socket.rs, connection.rs, udt.rs).                 *)
(*                                                                         *)
(* The two ends of one connection, on two hosts, start connected.  Data is *)
(* counted in blocks and arrives in order; how that is achieved is the     *)
(* subject of Transfer.  The send queue, which close() leaves and every    *)
(* write, ACK and timeout enters again, is the subject of SendQueue: here  *)
(* a socket that is alive may always transmit.                             *)
(* The status of a socket is under a lock of its own that is released      *)
(* between a test and what depends on it: those are steps of their own.    *)
(* So the receive worker may work on a socket that was closed after it     *)
(* looked, and a user may have several calls of close() under way.         *)
(***************************************************************************)
EXTENDS Integers

CONSTANTS
  MaxData,          \* bound: blocks that are taken from each user
  SND_BUF_SIZE,     \* blocks in a send buffer
  Readers,          \* ends whose user reads
  Writers,          \* ends whose user writes
  ClosesA, ClosesB, \* calls of close() that the users of "a" and "b" may make
  MaxEvents         \* bound: calls of close() and long failures of the network

Ends    == {"a", "b"}
Peer(e) == IF e = "a" THEN "b" ELSE "a"

(* The tasks that run close(): the calls of the users, side by side (each  *)
(* poll of poll_shutdown starts one), and one at each end that the         *)
(* collection of sockets starts.                                           *)
UserTasks == ({"a"} \X ClosesA) \cup ({"b"} \X ClosesB)
Tasks     == UserTasks \cup (Ends \X {"gc"})

ASSUME LifecycleAssumption ==
  /\ MaxData \in Nat
  /\ SND_BUF_SIZE \in Nat \ {0}
  /\ Readers \subseteq Ends
  /\ Writers \subseteq Ends
  /\ "gc" \notin ClosesA \cup ClosesB
  /\ MaxEvents \in Nat

VARIABLES
  status,           \* status of the socket of each end
  table,            \* ends whose socket is in the table of sockets
  rworker,          \* what the receive worker is about to do with the socket
  (* Data of an end on its way to the other *)
  snd,              \* blocks taken by send()
  sent,             \* blocks transmitted
  acked,            \* blocks released from the send buffer
  got,              \* blocks received at an end, from the other one
  readable,         \* blocks acknowledged there, which recv() may return
  read,             \* blocks returned by recv()
  (* Calls *)
  reader,           \* recv() or poll_read of each end
  writer,           \* poll_write or poll_flush of each end
  closer,           \* close() of each task
  (* The network *)
  shutdowns,        \* ends to which a Shutdown is on its way
  events,           \* calls of close() and long failures so far
  (* History *)
  due,              \* blocks taken when the close() of a task began, 0 once its
                    \* linger time is over
  promise           \* blocks a close() has announced the end of in good order,
                    \* to a peer that was connected

connVars  == <<status, table, rworker>>
sendVars  == <<snd, sent, acked>>
recvVars  == <<got, readable, read>>
closeVars == <<closer, due, promise>>
netVars   == <<shutdowns, events>>
vars      == <<connVars, sendVars, recvVars, reader, writer, closeVars, netVars>>

IsAlive(e)  == status[e] = "Connected"
IsEmpty(e)  == snd[e] = acked[e]
HasData(e)  == read[e] < readable[e]

Init ==
  /\ status = [e \in Ends |-> "Connected"]
  /\ table = Ends
  /\ rworker = [e \in Ends |-> "idle"]
  /\ snd = [e \in Ends |-> 0]
  /\ sent = [e \in Ends |-> 0]
  /\ acked = [e \in Ends |-> 0]
  /\ got = [e \in Ends |-> 0]
  /\ readable = [e \in Ends |-> 0]
  /\ read = [e \in Ends |-> 0]
  /\ reader = [e \in Ends |-> "idle"]
  /\ writer = [e \in Ends |-> "idle"]
  /\ closer = [t \in Tasks |-> "none"]
  /\ shutdowns = {}
  /\ events = 0
  /\ due = [t \in Tasks |-> 0]
  /\ promise = [e \in Ends |-> 0]

(***************************************************************************)
(* Notifications.  A call registers under the lock of what it has looked   *)
(* at, and notify_waiters reaches every call that has registered.          *)
(***************************************************************************)

(* rcv_notify.                                                             *)
WakeReader(e) ==
  reader' = [reader EXCEPT ![e] = IF @ = "parked" THEN "woken" ELSE @]

(* Mutant of NotifyAll: the readers are left out.                          *)
NotifyAllButReader(e) == UNCHANGED reader

(* notify_all(): of those who wait on a connection only the readers.       *)
NotifyAll(e) == WakeReader(e)

(* Mutant of WakeAckWaiters: the calls of close() are left out.            *)
WakeWriterOnly(e) ==
  /\ writer' = [writer EXCEPT ![e] = IF @ = "parked" THEN "idle" ELSE @]
  /\ UNCHANGED closer

(* ack_notify: those who wait for the send buffer look again.              *)
WakeAckWaiters(e) ==
  /\ writer' = [writer EXCEPT ![e] = IF @ = "parked" THEN "idle" ELSE @]
  /\ closer' = [t \in Tasks |-> IF t[1] = e /\ closer[t] = "parked"
                                THEN "linger" ELSE closer[t]]

(***************************************************************************)
(* Writing                                                                 *)
(***************************************************************************)

(* poll_write calls send(), which fails on a socket that is not connected: *)
(* the block is taken, or the buffer is full and a task is started that    *)
(* waits for an ACK.                                                       *)
PollWrite(e) ==
  /\ writer[e] = "idle"
  /\ IsAlive(e)
  /\ \/ /\ snd[e] - acked[e] >= SND_BUF_SIZE
        /\ writer' = [writer EXCEPT ![e] = "wait"]
        /\ UNCHANGED snd
     \/ /\ snd[e] - acked[e] < SND_BUF_SIZE
        /\ snd[e] < MaxData
        /\ snd' = [snd EXCEPT ![e] = @ + 1]
        /\ UNCHANGED writer
  /\ UNCHANGED <<connVars, sent, acked, recvVars, reader, closeVars, netVars>>

(* poll_flush is pending while the send buffer is not empty, whatever the  *)
(* status.                                                                 *)
PollFlush(e) ==
  /\ writer[e] = "idle"
  /\ ~IsEmpty(e)
  /\ writer' = [writer EXCEPT ![e] = "wait"]
  /\ UNCHANGED <<connVars, sendVars, recvVars, reader, closeVars, netVars>>

(* wait_for_next_ack_or_empty_snd_buffer, for poll_write and poll_flush.   *)
WriterWaits(e) ==
  /\ writer[e] = "wait"
  /\ writer' = [writer EXCEPT ![e] = IF IsEmpty(e) THEN "idle" ELSE "parked"]
  /\ UNCHANGED <<connVars, sendVars, recvVars, reader, closeVars, netVars>>

(***************************************************************************)
(* The way of the data                                                     *)
(***************************************************************************)

(* The send worker takes the socket from its queue.                        *)
Transmit(e) ==
  /\ IsAlive(e)
  /\ sent[e] < snd[e]
  /\ sent' = [sent EXCEPT ![e] = @ + 1]
  /\ UNCHANGED <<connVars, snd, acked, recvVars, reader, writer, closeVars, netVars>>

(***************************************************************************)
(* The receive worker looks at the status of the socket once, for a packet *)
(* or when its timers are due, and does not look again until it has        *)
(* processed the packet and checked the timers, whatever happens to the    *)
(* socket meanwhile.  A packet for a socket that is not alive is ignored,  *)
(* and a check of the timers that does nothing is left out.                *)
(***************************************************************************)

Looks(e, work) ==
  /\ rworker[e] = "idle"
  /\ IsAlive(e)
  /\ rworker' = [rworker EXCEPT ![e] = work]
  /\ UNCHANGED <<status, table, sendVars, recvVars, reader, writer, closeVars>>

(* The packet is processed; check_timers is next, if it has an ACK to send.*)
ThenTimers(e) ==
  rworker' = [rworker EXCEPT ![e] = IF readable[e] < got'[e] THEN "timers" ELSE "idle"]

(* A packet with data; its sender may be gone by now.                      *)
TakeData(e) ==
  /\ got[e] < sent[Peer(e)]
  /\ Looks(e, "data")
  /\ UNCHANGED netVars

ProcessData(e) ==
  /\ rworker[e] = "data"
  /\ got' = [got EXCEPT ![e] = @ + 1]
  /\ ThenTimers(e)
  /\ UNCHANGED <<status, table, sendVars, readable, read, reader, writer, closeVars,
                 netVars>>

(* Mutant of AckNumber: blocks are acknowledged before they are readable.  *)
AckNumberOfReceived(e) == got[Peer(e)]

(* The number in the last ACK of the peer.                                 *)
AckNumber(e) == readable[Peer(e)]

(* An ACK that releases blocks: the last one or an older one.  (Its number *)
(* is chosen when it is processed, so it may also be one sent meanwhile.)  *)
TakeAck(e) ==
  /\ acked[e] < AckNumber(e)
  /\ Looks(e, "ack")
  /\ UNCHANGED netVars

ProcessAck(e) ==
  /\ rworker[e] = "ack"
  /\ \E n \in acked[e] + 1 .. AckNumber(e) : acked' = [acked EXCEPT ![e] = n]
  /\ WakeAckWaiters(e)
  /\ UNCHANGED <<status, table, snd, sent, recvVars, reader, due, promise, netVars>>
  /\ ThenTimers(e)

(* Nothing makes a Shutdown arrive: it may stay on its way for ever.       *)
TakeShutdown(e) ==
  /\ e \in shutdowns
  /\ shutdowns' = shutdowns \ {e}
  /\ Looks(e, "shutdown")
  /\ UNCHANGED events

(* process_ctrl, Shutdown.                                                 *)
ProcessShutdown(e) ==
  /\ rworker[e] = "shutdown"
  /\ status' = [status EXCEPT ![e] = "Closing"]
  /\ NotifyAll(e)
  /\ UNCHANGED <<table, sendVars, recvVars, writer, closeVars, netVars>>
  /\ ThenTimers(e)

(* The ACK timer is due, and there is something to acknowledge.            *)
AckTimer(e) ==
  /\ readable[e] < got[e]
  /\ Looks(e, "sendack")
  /\ UNCHANGED netVars

(* Mutant of SendAck: readers are woken by every ACK, also by one that is  *)
(* sent again.                                                             *)
SendAckWakesAlways(e) ==
  /\ rworker[e] \in {"sendack", "timers", "expire"}
  /\ got[e] > 0
  /\ readable' = [readable EXCEPT ![e] = got[e]]
  /\ WakeReader(e)
  /\ rworker' = [rworker EXCEPT ![e] = IF @ = "expire" THEN @ ELSE "idle"]
  /\ UNCHANGED <<status, table, sendVars, got, read, writer, closeVars, netVars>>

(* check_timers, send_ack(false): what has been received becomes readable. *)
SendAck(e) ==
  /\ rworker[e] \in {"sendack", "timers", "expire"}
  /\ readable[e] < got[e]
  /\ readable' = [readable EXCEPT ![e] = got[e]]
  /\ WakeReader(e)
  /\ rworker' = [rworker EXCEPT ![e] = IF @ = "expire" THEN @ ELSE "idle"]
  /\ UNCHANGED <<status, table, sendVars, got, read, writer, closeVars, netVars>>

(* An end hears nothing for long if its peer is dead (one that is alive    *)
(* sends data, ACKs or KeepAlives) or if the network fails.                *)
Silence(e) ==
  \/ ~IsAlive(Peer(e)) /\ UNCHANGED events
  \/ events < MaxEvents /\ events' = events + 1

(* Mutant of ExpTimer: only a socket that waits for ACKs gives up.         *)
ExpTimerWithData(e) ==
  /\ ~IsEmpty(e)
  /\ Silence(e)
  /\ Looks(e, "expire")
  /\ UNCHANGED shutdowns

(* The 17th EXP timeout in a row is due, with nothing heard for five       *)
(* seconds; so it never follows a packet at once.                          *)
ExpTimer(e) ==
  /\ Silence(e)
  /\ Looks(e, "expire")
  /\ UNCHANGED shutdowns

(* check_timers, "Connection is broken": nobody is told.                   *)
Expire(e) ==
  /\ rworker[e] = "expire"
  /\ status' = [status EXCEPT ![e] = "Broken"]
  /\ rworker' = [rworker EXCEPT ![e] = "idle"]
  /\ UNCHANGED <<table, sendVars, recvVars, reader, writer, closeVars, netVars>>

(* The ACK timer is not due when check_timers follows a packet.            *)
TimersChecked(e) ==
  /\ rworker[e] = "timers"
  /\ rworker' = [rworker EXCEPT ![e] = "idle"]
  /\ UNCHANGED <<status, table, sendVars, recvVars, reader, writer, closeVars, netVars>>

(* What the worker does once it has looked.                                *)
WorkerGoesOn(e) ==
  \/ ProcessData(e) \/ ProcessAck(e) \/ ProcessShutdown(e)
  \/ SendAck(e) \/ Expire(e) \/ TimersChecked(e)

(***************************************************************************)
(* Reading                                                                 *)
(***************************************************************************)

(* recv() and poll_recv() fail: "connection was closed or broken".         *)
AtEnd(e) == ~IsAlive(e) /\ ~HasData(e)

(* read_buffer: some of what is readable, or nothing.                      *)
ReadBuffer(e) ==
  IF HasData(e) THEN \E n \in read[e] + 1 .. readable[e] : read' = [read EXCEPT ![e] = n]
                ELSE UNCHANGED read

(* recv(), up to its wait for data.                                        *)
Recv(e) ==
  /\ reader[e] = "idle"
  /\ reader' = [reader EXCEPT ![e] = IF AtEnd(e) THEN "failed" ELSE "wait"]
  /\ UNCHANGED <<connVars, sendVars, recvVars, writer, closeVars, netVars>>

(* poll_read: poll_recv, and a task that waits for data if it is pending   *)
(* and has it polled again then.  (Whether recv() or poll_read waits is    *)
(* not recorded.)                                                          *)
PollRead(e) ==
  /\ reader[e] \in {"idle", "woken"}
  /\ IF HasData(e)
     THEN ReadBuffer(e) /\ reader' = [reader EXCEPT ![e] = "idle"]
     ELSE /\ reader' = [reader EXCEPT ![e] = IF AtEnd(e) THEN "failed" ELSE "wait"]
          /\ UNCHANGED read
  /\ UNCHANGED <<connVars, sendVars, got, readable, writer, closeVars, netVars>>

(* Mutant of MustWait: only the data is looked at.                         *)
MustWaitForData(e) == ~HasData(e)

(* wait_for_data_to_read, under the locks of the status and the buffer.    *)
MustWait(e) == IsAlive(e) /\ ~HasData(e)

ReaderWaits(e) ==
  /\ reader[e] = "wait"
  /\ reader' = [reader EXCEPT ![e] = IF MustWait(e) THEN "parked" ELSE "woken"]
  /\ UNCHANGED <<connVars, sendVars, recvVars, writer, closeVars, netVars>>

(* recv() looks at the status again and reads.                             *)
RecvReturns(e) ==
  /\ reader[e] = "woken"
  /\ IF AtEnd(e)
     THEN reader' = [reader EXCEPT ![e] = "failed"] /\ UNCHANGED read
     ELSE reader' = [reader EXCEPT ![e] = "idle"] /\ ReadBuffer(e)
  /\ UNCHANGED <<connVars, sendVars, got, readable, writer, closeVars, netVars>>

(***************************************************************************)
(* close()                                                                 *)
(***************************************************************************)

(* A user calls close(), or polls poll_shutdown, which starts a task that  *)
(* does so unless the socket is Closed, again each time it is polled.  On  *)
(* a socket that is Closing the call returns at once.                      *)
UserCloses(t) ==
  /\ t \in UserTasks
  /\ closer[t] = "none"
  /\ status[t[1]] \notin {"Closing", "Closed"}
  /\ events < MaxEvents
  /\ events' = events + 1
  /\ closer' = [closer EXCEPT ![t] = "linger"]
  /\ due' = [due EXCEPT ![t] = snd[t[1]]]
  /\ UNCHANGED <<connVars, sendVars, recvVars, reader, writer, promise, shutdowns>>

(* The task of the collection begins.  A socket that was broken is never   *)
(* connected again: close() does not linger and sends no Shutdown.         *)
TaskCloses(t) ==
  /\ closer[t] = "start"
  /\ closer' = [closer EXCEPT ![t] =
       IF status[t[1]] \in {"Closing", "Closed"} THEN "none" ELSE "set"]
  /\ UNCHANGED <<connVars, sendVars, recvVars, reader, writer, due, promise, netVars>>

(* Mutant of MustLinger: the socket closes at once.                        *)
MustLingerNever(t) == FALSE

(* The condition of the linger loop, but for the time.                     *)
MustLinger(t) == IsAlive(t[1]) /\ ~IsEmpty(t[1])

(* The linger loop, which also ends when its time is over.  The time is    *)
(* looked at here and nowhere else: a close() that waits sleeps on.        *)
Linger(t) ==
  /\ closer[t] = "linger"
  /\ \/ /\ closer' = [closer EXCEPT ![t] = IF MustLinger(t) THEN "wait" ELSE "shutdown"]
        /\ UNCHANGED due
     \/ /\ MustLinger(t)
        /\ closer' = [closer EXCEPT ![t] = "shutdown"]
        /\ due' = [due EXCEPT ![t] = 0]
  /\ UNCHANGED <<connVars, sendVars, recvVars, reader, writer, promise, netVars>>

(* wait_for_next_ack_or_empty_snd_buffer, for close().                     *)
CloserWaits(t) ==
  /\ closer[t] = "wait"
  /\ closer' = [closer EXCEPT ![t] = IF IsEmpty(t[1]) THEN "linger" ELSE "parked"]
  /\ UNCHANGED <<connVars, sendVars, recvVars, reader, writer, due, promise, netVars>>

(* A Shutdown is sent if the socket is still connected.                    *)
SendShutdown(t) ==
  LET e == t[1]
  IN  /\ closer[t] = "shutdown"
      /\ IF IsAlive(e)
         THEN /\ shutdowns' = shutdowns \cup {Peer(e)}
              /\ promise' = [promise EXCEPT ![e] =
                   IF IsAlive(Peer(e)) /\ due[t] > @ THEN due[t] ELSE @]
         ELSE UNCHANGED <<shutdowns, promise>>
      /\ closer' = [closer EXCEPT ![t] = "set"]
      /\ UNCHANGED <<connVars, sendVars, recvVars, reader, writer, due, events>>

SetClosing(t) ==
  /\ closer[t] = "set"
  /\ status' = [status EXCEPT ![t[1]] = "Closing"]
  /\ NotifyAll(t[1])
  /\ closer' = [closer EXCEPT ![t] = "none"]
  /\ due' = [due EXCEPT ![t] = 0]
  /\ UNCHANGED <<table, rworker, sendVars, recvVars, writer, promise, netVars>>

CloseStep(t) ==
  \/ TaskCloses(t) \/ Linger(t) \/ CloserWaits(t)
  \/ SendShutdown(t) \/ SetClosing(t)

(***************************************************************************)
(* garbage_collect_sockets, once a second                                  *)
(***************************************************************************)

(* Mutant of CollectBroken: broken sockets are left to their users.        *)
CollectBrokenNever(e) == FALSE /\ UNCHANGED vars

(* A task is started that closes a broken socket.  (The code starts one    *)
(* every second; here the next one waits for the last to end.)             *)
CollectBroken(e) ==
  /\ e \in table
  /\ status[e] = "Broken"
  /\ closer[<<e, "gc">>] = "none"
  /\ closer' = [closer EXCEPT ![<<e, "gc">>] = "start"]
  /\ UNCHANGED <<connVars, sendVars, recvVars, reader, writer, due, promise, netVars>>

CollectClosing(e) ==
  /\ e \in table
  /\ status[e] = "Closing"
  /\ table' = table \ {e}
  /\ status' = [status EXCEPT ![e] = "Closed"]
  /\ UNCHANGED <<rworker, sendVars, recvVars, reader, writer, closeVars,
                 netVars>>

(***************************************************************************)
(* The specification                                                       *)
(***************************************************************************)

Next ==
  \/ \E e \in Ends :
       \/ e \in Writers /\ (PollWrite(e) \/ PollFlush(e))
       \/ WriterWaits(e)
       \/ Transmit(e)
       \/ TakeData(e) \/ TakeAck(e) \/ TakeShutdown(e) \/ AckTimer(e) \/ ExpTimer(e)
       \/ WorkerGoesOn(e)
       \/ e \in Readers /\ (Recv(e) \/ PollRead(e))
       \/ ReaderWaits(e) \/ RecvReturns(e)
       \/ CollectBroken(e) \/ CollectClosing(e)
  \/ \E t \in Tasks : UserCloses(t) \/ CloseStep(t)

Spec == Init /\ [][Next]_vars

(* Workers and tasks run, timers fire and the collection takes place.      *)
(* While both ends are alive, data and ACKs that the network loses are     *)
(* repeated until they arrive or a timer gives up.  Users need not read,   *)
(* write or close, and a Shutdown need not arrive.                         *)
Fairness ==
  /\ \A e \in Ends :
       /\ WF_vars(Transmit(e))
       /\ WF_vars(\/ IsAlive(Peer(e)) /\ (TakeData(e) \/ TakeAck(e))
                  \/ ~IsAlive(Peer(e)) /\ ExpTimer(e)
                  \/ AckTimer(e)
                  \/ WorkerGoesOn(e))
       /\ WF_vars(CollectBroken(e) \/ CollectClosing(e))
  /\ \A t \in Tasks : WF_vars(CloseStep(t))

FairSpec == Spec /\ Fairness

(***************************************************************************)
(* Properties                                                              *)
(***************************************************************************)

Statuses    == {"Connected", "Broken", "Closing", "Closed"}
ReaderSteps == {"idle", "wait", "parked", "woken", "failed"}
WorkerSteps == {"idle", "data", "ack", "shutdown", "sendack", "expire", "timers"}
CloserSteps == {"none", "start", "linger", "wait", "parked", "shutdown",
                "set"}

(* A block is taken, transmitted, received, acknowledged and read, in this *)
(* order, and released from the send buffer after it was acknowledged.     *)
BlocksInOrder ==
  \A e \in Ends :
    /\ read[e] <= readable[e] /\ readable[e] <= got[e] /\ got[e] <= sent[Peer(e)]
    /\ acked[e] <= readable[Peer(e)]
    /\ sent[e] <= snd[e] /\ snd[e] <= MaxData
    /\ snd[e] - acked[e] <= SND_BUF_SIZE

(* Types, and the order in which a block passes through the buffers.       *)
TypeOK ==
  /\ status \in [Ends -> Statuses]
  /\ table \subseteq Ends
  /\ rworker \in [Ends -> WorkerSteps]
  /\ snd \in [Ends -> Nat] /\ sent \in [Ends -> Nat] /\ acked \in [Ends -> Nat]
  /\ got \in [Ends -> Nat] /\ readable \in [Ends -> Nat] /\ read \in [Ends -> Nat]
  /\ BlocksInOrder
  /\ reader \in [Ends -> ReaderSteps]
  /\ writer \in [Ends -> {"idle", "wait", "parked"}]
  /\ closer \in [Tasks -> CloserSteps]
  /\ shutdowns \subseteq Ends
  /\ events \in 0 .. MaxEvents
  /\ due \in [Tasks -> Nat]
  /\ promise \in [Ends -> Nat]

(* A close() that has not run out of its linger time announces the end of  *)
(* what was written before it only after all of it has become readable at  *)
(* the peer: if the peer is still connected then, no read there fails      *)
(* before all of it has been read, whether the peer learns of the end by   *)
(* the Shutdown, gives up, or closes later (socket.rs, close and recv).    *)
(* Of a peer that has closed already it cannot be said: its worker, which  *)
(* looked before, may acknowledge data after a read has failed.            *)
GracefulClose ==
  \A e \in Ends : reader[Peer(e)] = "failed" => promise[e] <= read[Peer(e)]

(* recv() that was woken has data or reports the end: it never returns     *)
(* Ok(0), which a reader takes for the end of the stream, on a connection  *)
(* that is alive (socket.rs, recv and wait_for_data_to_read).              *)
NoFalseEnd ==
  \A e \in Ends : reader[e] = "woken" => HasData(e) \/ ~IsAlive(e)

(* A reader sleeps only while there is nothing to read, and not past the   *)
(* close of the socket: whatever order the check, the ACK, the Shutdown    *)
(* and close() come in, no wakeup is lost (socket.rs,                      *)
(* wait_for_data_to_read, send_ack and notify_all).                        *)
NoLostReader ==
  \A e \in Ends :
    reader[e] = "parked" =>
      ~HasData(e) /\ status[e] \in {"Connected", "Broken"}

(* A reader that waits on a connection that has ended, in whatever way,    *)
(* is told, though a timeout tells nobody by itself (socket.rs,            *)
(* check_timers; udt.rs, garbage_collect_sockets).                         *)
ReaderTold ==
  \A e \in Readers : status[e] # "Connected" ~> reader[e] # "parked"

(* When a connection has ended, the sockets of both ends leave the tables  *)
(* of their hosts, although timers, the peer and several calls of close()  *)
(* change the status in any order (udt.rs, garbage_collect_sockets).       *)
SocketCollected == (\A e \in Ends : status[e] # "Connected") ~> table = {}

(* When one end has closed, the other learns of it, even if the Shutdown   *)
(* is lost (socket.rs, close and check_timers).                            *)
PeerLearns ==
  (\E e \in Ends : status[e] # "Connected") ~> (\A e \in Ends : status[e] # "Connected")

(* Calls that wait for ACKs at an end.                                     *)
AckWaiters(e) ==
  writer[e] = "parked" \/ \E t \in UserTasks : t[1] = e /\ closer[t] = "parked"

(* While the connection lasts, the calls of close(), poll_write and        *)
(* poll_flush that wait for ACKs go on, all of them: data and ACKs get     *)
(* through, or the connection is given up (socket.rs,                      *)
(* wait_for_next_ack_or_empty_snd_buffer and process_ctrl).                *)
AckWaitersGoOn ==
  \A e \in Writers : AckWaiters(e) ~> ~AckWaiters(e) \/ ~IsAlive(e)

(* "Linger time on close()": a close() returns, at the latest when the     *)
(* linger time is over.                                                    *)
CloseReturns ==
  \A t \in UserTasks : closer[t] = "linger" ~> closer[t] = "none"
=============================================================================
