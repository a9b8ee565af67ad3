---------------------------- MODULE RateControl ----------------------------
(***************************************************************************)
(* The rate control of a sender: RateControl of rate_control.rs, with the  *)
(* rates that UdtFlow (flow.rs) smooths for it, driven by the ACKs, NAKs   *)
(* and timeouts of socket.rs.                                              *)
(*                                                                         *)
(* Sequence numbers count from the number before the first packet and do   *)
(* not wrap here.  The sending period is a floating-point quantity: the    *)
(* model keeps which rule set it last and counts how often it was          *)
(* lengthened.  The congestion window is kept rounded down, as the sender  *)
(* uses it.  Rates are far below 2^32 / 7, where smoothing would overflow. *)
(***************************************************************************)
EXTENDS Integers

CONSTANTS
  MAX_WINDOW,       \* max_window_size, the flow window of the handshake
  FETCH_BATCH_SIZE, \* packets sent at a time
  Rates,            \* rates an ACK may report, in packets per second
  Delays,           \* rtt + rc_interval, in hundredths of a second
  MaxSeq,           \* bound: packets sent
  MaxReports        \* bound: loss reports within a period

ASSUME RateAssumption ==
  /\ MAX_WINDOW \in Nat
  /\ FETCH_BATCH_SIZE \in Nat \ {0}
  /\ Rates \subseteq Nat
  /\ Delays \subseteq Nat
  /\ MaxSeq \in Nat
  /\ MaxReports \in Nat

VARIABLES
  slow_start,
  congestion_window_size,
  pkt_send_period,        \* the rule that set it last
  recv_rate,              \* peer_delivery_rate of the flow, handed on as is
  bandwidth,              \* peer_bandwidth of the flow, handed on as is
  curr_snd_seq_number,
  last_ack,
  acked,                  \* last_data_ack_processed of the socket
  loss,                   \* a loss since the rate was last looked at
  last_dec_seq,
  nak_count,
  avg_nak_num,
  dec_random,
  dec_count,
  (* History *)
  cuts                    \* slowdowns by loss reports since a new packet was sent

windowVars == <<slow_start, congestion_window_size, last_ack>>
rateVars   == <<recv_rate, bandwidth>>
decVars    == <<last_dec_seq, nak_count, avg_nak_num, dec_random, dec_count>>
vars       == <<windowVars, rateVars, decVars, pkt_send_period, curr_snd_seq_number,
                acked, loss, cuts>>

INITIAL_WINDOW == 16
DEC_LIMIT      == 5

(* init(), after new(): the defaults of UdtFlow are 16 and 1.              *)
Init ==
  /\ slow_start = TRUE
  /\ congestion_window_size = INITIAL_WINDOW
  /\ pkt_send_period = "initial"
  /\ recv_rate = 16
  /\ bandwidth = 1
  /\ curr_snd_seq_number = 0
  /\ last_ack = 0
  /\ acked = 0
  /\ loss = FALSE
  /\ last_dec_seq = -1
  /\ nak_count = 0
  /\ avg_nak_num = 0
  /\ dec_random = 1
  /\ dec_count = 0
  /\ cuts = 0

(* set_curr_snd_seq_number, when a batch of new packets is fetched.        *)
SendNew(n) ==
  /\ curr_snd_seq_number + n <= MaxSeq
  /\ curr_snd_seq_number' = curr_snd_seq_number + n
  /\ cuts' = 0
  /\ UNCHANGED <<windowVars, rateVars, decVars, pkt_send_period, acked, loss>>

(***************************************************************************)
(* ACKs                                                                    *)
(***************************************************************************)

(* Mutant of Smooth: divided before it is multiplied.                      *)
SmoothTruncated(old, new) == 7 * (old \div 8) + new \div 8

(* update_peer_delivery_rate and update_bandwidth.                         *)
Smooth(old, new) == (7 * old + new) \div 8

(* An ACK reports a rate only if it is positive.                           *)
Report(old, new) == IF new > 0 THEN Smooth(old, new) ELSE old

(* The rule for the period at the end of slow start.                       *)
PeriodAfterSlowStart(rate) == IF rate > 0 THEN "rate" ELSE "window"

(* on_ack: the rate is weighed, unless a loss has been reported since.     *)
Weigh(period) ==
  /\ loss' = FALSE
  /\ pkt_send_period' = IF loss THEN period ELSE "raised"

(* Slow start: the window grows by what is acknowledged, up to its limit.  *)
SlowStartAck(ack) ==
  /\ slow_start
  /\ congestion_window_size' = congestion_window_size + (ack - last_ack)
  /\ last_ack' = ack
  /\ slow_start' = (congestion_window_size' <= MAX_WINDOW)
  /\ IF slow_start' THEN UNCHANGED <<loss, pkt_send_period>>
                    ELSE Weigh(PeriodAfterSlowStart(recv_rate'))

(* Afterwards the window is what the peer receives in a round trip.        *)
SteadyAck ==
  /\ ~slow_start
  /\ \E d \in Delays :
       congestion_window_size' = INITIAL_WINDOW + (recv_rate' * d) \div 100
  /\ Weigh(pkt_send_period)
  /\ UNCHANGED <<slow_start, last_ack>>

(* process_ctrl, an ACK that acknowledges new data: on_ack looks at it if  *)
(* the last one it has looked at is more than rc_interval ago.             *)
Ack(ack, rate, capacity) ==
  /\ acked' = ack
  /\ recv_rate' = Report(recv_rate, rate)
  /\ bandwidth' = Report(bandwidth, capacity)
  /\ \/ UNCHANGED <<windowVars, pkt_send_period, loss>>
     \/ SlowStartAck(ack)
     \/ SteadyAck
  /\ UNCHANGED <<decVars, cuts, curr_snd_seq_number>>

(***************************************************************************)
(* Losses                                                                  *)
(***************************************************************************)

(* The sending period is lengthened.                                       *)
Cut(rule) ==
  /\ pkt_send_period' = rule
  /\ cuts' = cuts + 1

(* on_loss: the first loss ends slow start and does nothing else, if the   *)
(* rate of the peer is known; not even the loss is remembered.             *)
LossEndsSlowStart ==
  /\ slow_start
  /\ recv_rate > 0
  /\ slow_start' = FALSE
  /\ Cut("rate")
  /\ UNCHANGED <<congestion_window_size, last_ack, rateVars, decVars,
                 curr_snd_seq_number, acked, loss>>

PastSlowStart ==
  /\ ~(slow_start /\ recv_rate > 0)
  /\ slow_start' = FALSE
  /\ UNCHANGED <<congestion_window_size, last_ack, rateVars, curr_snd_seq_number, acked>>

(* Mutant of AverageNaks: a sum.                                           *)
AverageNaksSum(avg, n) == avg + n

(* The average number of NAKs in a period, rounded up.                     *)
AverageNaks(avg, n) == (7 * avg + n + 7) \div 8

DecRandoms(avg) == IF avg = 0 THEN {1} ELSE 1 .. avg

(* A loss of a packet that was sent after the last slowdown.               *)
FirstLoss(seq) ==
  /\ PastSlowStart
  /\ seq > last_dec_seq
  /\ loss' = TRUE
  /\ Cut("cut")
  /\ avg_nak_num' = AverageNaks(avg_nak_num, nak_count)
  /\ nak_count' = 1
  /\ dec_count' = 1
  /\ last_dec_seq' = curr_snd_seq_number
  /\ dec_random' \in DecRandoms(avg_nak_num')

(* Mutant of MaySlowDown: no limit.                                        *)
MaySlowDownAlways(n) == TRUE

(* Only the first reports of a period count.                               *)
MaySlowDown(n) == n <= DEC_LIMIT

(* Another loss of the same period: every dec_random-th slows down.        *)
LaterLoss(seq) ==
  /\ PastSlowStart
  /\ seq <= last_dec_seq
  /\ loss' = TRUE
  /\ dec_count < MaxReports
  /\ dec_count' = dec_count + 1
  /\ nak_count' = IF MaySlowDown(dec_count') THEN nak_count + 1 ELSE nak_count
  /\ IF MaySlowDown(dec_count') /\ nak_count' % dec_random = 0
     THEN Cut("cut") /\ last_dec_seq' = curr_snd_seq_number
     ELSE UNCHANGED <<pkt_send_period, cuts, last_dec_seq>>
  /\ UNCHANGED <<avg_nak_num, dec_random>>

OnLoss(seq) == LossEndsSlowStart \/ FirstLoss(seq) \/ LaterLoss(seq)

(* on_timeout.                                                             *)
OnTimeout ==
  /\ slow_start
  /\ slow_start' = FALSE
  /\ pkt_send_period' = PeriodAfterSlowStart(recv_rate)
  /\ UNCHANGED <<congestion_window_size, last_ack, rateVars, decVars,
                 curr_snd_seq_number, acked, loss, cuts>>

(***************************************************************************)
(* The specification.  The peer acknowledges and reports as lost only what *)
(* was sent; reports may be late and come again.                           *)
(***************************************************************************)

Next ==
  \/ \E n \in 1 .. FETCH_BATCH_SIZE : SendNew(n)
  \/ \E ack \in acked + 1 .. curr_snd_seq_number + 1, rate, capacity \in Rates :
       Ack(ack, rate, capacity)
  \/ \E seq \in 1 .. curr_snd_seq_number : OnLoss(seq)
  \/ OnTimeout

Spec == Init /\ [][Next]_vars

(***************************************************************************)
(* Properties                                                              *)
(***************************************************************************)

(* Types; dec_random is a divisor.                                         *)
TypeOK ==
  /\ slow_start \in BOOLEAN
  /\ congestion_window_size \in Nat
  /\ pkt_send_period \in {"initial", "rate", "window", "cut", "raised"}
  /\ recv_rate \in Nat
  /\ bandwidth \in Nat
  /\ curr_snd_seq_number \in Nat
  /\ last_ack \in Nat
  /\ acked \in Nat
  /\ loss \in BOOLEAN
  /\ last_dec_seq \in Int
  /\ nak_count \in Nat
  /\ avg_nak_num \in Nat
  /\ dec_random \in Nat \ {0}
  /\ dec_count \in Nat
  /\ cuts \in Nat

(* However many loss reports arrive, late or repeated, the sender slows    *)
(* down at most DEC_LIMIT + 1 times before something new is sent: for      *)
(* DEC_LIMIT reports of a period and for the one that ends slow start,     *)
(* which on_loss does not count.                                           *)
BurstBounded == cuts <= DEC_LIMIT + 1

(* The counters of on_loss stay within the limit, over any number of       *)
(* periods: the remainder by dec_random is always defined, and dec_random  *)
(* never exceeds the number of reports that count.                         *)
NakCounters ==
  /\ dec_random \in 1 .. DEC_LIMIT
  /\ avg_nak_num <= DEC_LIMIT
  /\ nak_count <= DEC_LIMIT

(* Integer smoothing never brings the rates to zero (flow.rs,              *)
(* update_peer_delivery_rate and update_bandwidth), where the sender would *)
(* fall back on its window and then never grow it again.                   *)
RatesPositive ==
  recv_rate > 0 /\ bandwidth > 0 /\ pkt_send_period # "window"
=============================================================================
