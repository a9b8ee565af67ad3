------------------------- MODULE RateControlProofs -------------------------
(***************************************************************************)
(* The bounds of the rate control, for every number of packets, every rate *)
(* a peer may report and every round trip time.                            *)
(***************************************************************************)
EXTENDS RateControl, TLAPS

(* The reports of a period count up to the limit.                          *)
CounterInv ==
  /\ NakCounters
  /\ nak_count <= dec_count

(* After a slowdown only a packet that is still to be sent can begin the   *)
(* next period, and the slowdowns since are reports of this one, but for   *)
(* the one that has ended slow start.                                      *)
BurstInv ==
  /\ last_dec_seq <= curr_snd_seq_number
  /\ slow_start => cuts = 0
  /\ last_dec_seq < curr_snd_seq_number => cuts <= 1
  /\ cuts <= dec_count + 1
  /\ BurstBounded

(* The inductive invariant; the window shrinks by no ACK.                  *)
IInv ==
  /\ TypeOK
  /\ CounterInv
  /\ BurstInv
  /\ RatesPositive
  /\ last_ack <= acked

(* TypeOK in two parts, for the booleans and for the rest.                 *)
BoolTypes == slow_start \in BOOLEAN /\ loss \in BOOLEAN
NumTypes ==
  /\ congestion_window_size \in Nat
  /\ pkt_send_period \in {"initial", "rate", "window", "cut", "raised"}
  /\ recv_rate \in Nat /\ bandwidth \in Nat
  /\ curr_snd_seq_number \in Nat
  /\ last_ack \in Nat /\ acked \in Nat
  /\ last_dec_seq \in Int
  /\ nak_count \in Nat /\ avg_nak_num \in Nat
  /\ dec_random \in Nat \ {0} /\ dec_count \in Nat
  /\ cuts \in Nat

LEMMA TypeParts ==
  /\ TypeOK <=> BoolTypes /\ NumTypes
  /\ TypeOK' <=> BoolTypes' /\ NumTypes'
PROOF
  BY Zenon DEF TypeOK, BoolTypes, NumTypes

(* The smoothed rate of a positive rate and a positive report is positive. *)
LEMMA SmoothPositive ==
  ASSUME NEW old \in Nat, old > 0, NEW new \in Nat
  PROVE  Report(old, new) \in Nat /\ Report(old, new) > 0
PROOF
  BY DEF Report, Smooth

(* The average of numbers up to the limit is up to the limit.              *)
LEMMA AverageBounded ==
  ASSUME NEW avg \in 0 .. DEC_LIMIT, NEW n \in 0 .. DEC_LIMIT
  PROVE  AverageNaks(avg, n) \in 0 .. DEC_LIMIT
PROOF
  BY DEF AverageNaks, DEC_LIMIT

(* A quotient of natural numbers is one.                                   *)
LEMMA WindowNatural ==
  ASSUME NEW rate \in Nat, NEW d \in Nat
  PROVE  (rate * d) \div 100 \in Nat
PROOF
<1>1. rate * d \in Nat
      OBVIOUS
<1>2. \A n \in Nat : n \div 100 \in Nat
      OBVIOUS
<1> QED
    BY <1>1, <1>2

LEMMA InitInv == Init => IInv
PROOF
<1> SUFFICES ASSUME Init PROVE IInv
    OBVIOUS
<1>1. BoolTypes
      BY Zenon DEF Init, BoolTypes
<1>2. NumTypes
      BY DEF Init, NumTypes, INITIAL_WINDOW
<1>3. CounterInv /\ BurstInv
      BY DEF Init, CounterInv, BurstInv, NakCounters, BurstBounded, DEC_LIMIT
<1>4. RatesPositive /\ last_ack <= acked
      BY DEF Init, RatesPositive
<1> QED
    BY <1>1, <1>2, <1>3, <1>4, TypeParts DEF IInv

(* What weighing an ACK leaves behind.                                     *)
LEMMA WeighStep ==
  ASSUME TypeOK, NEW period \in {"initial", "rate", "cut", "raised"}, Weigh(period)
  PROVE  /\ loss' = FALSE
         /\ pkt_send_period' \in {"initial", "rate", "cut", "raised"}
PROOF
  BY DEF Weigh, TypeOK

(* New packets.                                                            *)
LEMMA SendNewStep ==
  ASSUME IInv, NEW n \in 1 .. FETCH_BATCH_SIZE, SendNew(n) PROVE IInv'
PROOF
<1> USE RateAssumption
<1> USE DEF IInv, SendNew, windowVars, rateVars, decVars
<1>1. TypeOK'
      BY DEF TypeOK
<1>2. CounterInv'
      BY DEF CounterInv, NakCounters
<1>3. BurstInv'
      BY DEF BurstInv, BurstBounded, DEC_LIMIT, TypeOK
<1>4. RatesPositive' /\ (last_ack <= acked)'
      BY DEF RatesPositive
<1> QED
    BY <1>1, <1>2, <1>3, <1>4

(* ACKs, whether they are weighed or not.                                  *)
LEMMA AckStep ==
  ASSUME IInv,
         NEW ack \in acked + 1 .. curr_snd_seq_number + 1,
         NEW rate \in Rates, NEW capacity \in Rates,
         Ack(ack, rate, capacity)
  PROVE  IInv'
PROOF
<1> DEFINE Rules == {"initial", "rate", "cut", "raised"}
<1>1. TypeOK /\ CounterInv /\ BurstInv /\ RatesPositive /\ last_ack <= acked
      BY DEF IInv
<1>2. rate \in Nat /\ capacity \in Nat /\ ack \in Nat /\ ack > acked
      BY <1>1, RateAssumption DEF TypeOK
<1>3. recv_rate' \in Nat /\ recv_rate' > 0 /\ bandwidth' \in Nat /\ bandwidth' > 0
      BY <1>1, <1>2, SmoothPositive DEF Ack, TypeOK, RatesPositive
<1>4. UNCHANGED <<decVars, cuts, curr_snd_seq_number>> /\ acked' = ack
      BY DEF Ack
<1>5. CounterInv' /\ BurstInv'
  <2>1. slow_start' => slow_start
        BY Zenon DEF Ack, SlowStartAck, SteadyAck, windowVars
  <2>2. slow_start' => cuts = 0
        BY <1>1, <2>1, Zenon DEF BurstInv
  <2> QED
      BY <1>1, <1>4, <2>2 DEF CounterInv, BurstInv, NakCounters, BurstBounded, decVars
<1>6. pkt_send_period \in Rules
      BY <1>1 DEF TypeOK, RatesPositive
<1> DEFINE Good == /\ slow_start' \in BOOLEAN
                   /\ congestion_window_size' \in Nat
                   /\ last_ack' \in Nat
                   /\ pkt_send_period' \in Rules
                   /\ loss' \in BOOLEAN
                   /\ last_ack' <= acked'
<1>7. Good
  <2>1. CASE UNCHANGED <<windowVars, pkt_send_period, loss>>
        BY <1>1, <1>2, <1>4, <1>6, <2>1
        DEF windowVars, TypeOK
  <2>2. CASE SlowStartAck(ack)
    <3>1. /\ slow_start /\ last_ack' = ack
          /\ congestion_window_size' = congestion_window_size + (ack - last_ack)
          /\ slow_start' \in BOOLEAN
          BY <2>2 DEF SlowStartAck
    <3>3. /\ congestion_window_size' \in Nat
          /\ last_ack' \in Nat /\ last_ack' <= acked'
          BY <1>1, <1>2, <1>4, <3>1 DEF TypeOK
    <3>4. CASE slow_start'
          BY <1>1, <1>2, <1>6, <2>2, <3>1, <3>3, <3>4
          DEF SlowStartAck, TypeOK
    <3>5. CASE ~slow_start'
      <4>1. Weigh("rate")
            BY <1>3, <2>2, <3>5 DEF SlowStartAck, PeriodAfterSlowStart
      <4> QED
          BY <1>1, <1>2, <3>1, <3>3, <4>1, WeighStep
    <3> QED
        BY <3>4, <3>5
  <2>3. CASE SteadyAck
    <3>1. PICK d \in Delays :
            congestion_window_size' = INITIAL_WINDOW + (recv_rate' * d) \div 100
          BY <2>3 DEF SteadyAck
    <3>2. (recv_rate' * d) \div 100 \in Nat
          BY <1>3, WindowNatural, RateAssumption
    <3>3. congestion_window_size' \in Nat
          BY <3>1, <3>2 DEF INITIAL_WINDOW
    <3>4. ~slow_start /\ slow_start' = slow_start /\ last_ack' = last_ack
          BY <2>3 DEF SteadyAck
    <3>5. last_ack' <= acked' /\ last_ack' \in Nat
          BY <1>1, <1>2, <1>4, <3>4 DEF TypeOK
    <3>7. loss' = FALSE /\ pkt_send_period' \in Rules
          BY <1>1, <1>6, <2>3, WeighStep DEF SteadyAck
    <3>8. slow_start' \in BOOLEAN
          BY <1>1, <3>4, Zenon DEF TypeOK
    <3>9. loss' \in BOOLEAN
          BY <3>7, Zenon
    <3> QED
        BY <3>3, <3>5, <3>7, <3>8, <3>9, Zenon
  <2> QED
      BY <2>1, <2>2, <2>3 DEF Ack
<1>8. TypeOK'
  <2>1. BoolTypes'
        BY <1>7, Zenon DEF BoolTypes
  <2>2. NumTypes
        BY <1>1, TypeParts
  <2>3. NumTypes'
        BY <1>2, <1>3, <1>4, <1>7, <2>2 DEF NumTypes, decVars
  <2> QED
      BY <2>1, <2>3, TypeParts
<1>9. RatesPositive'
      BY <1>3, <1>7 DEF RatesPositive
<1> QED
    BY <1>5, <1>7, <1>8, <1>9 DEF IInv

(* Loss reports, the first and the later ones of a period.                 *)
LEMMA LossStep ==
  ASSUME IInv, NEW seq \in 1 .. curr_snd_seq_number, OnLoss(seq) PROVE IInv'
PROOF
<1>1. TypeOK /\ CounterInv /\ BurstInv /\ RatesPositive /\ last_ack <= acked
      BY DEF IInv
<1>2. CASE LossEndsSlowStart
  <2> USE <1>1, <1>2 DEF LossEndsSlowStart, Cut, rateVars, decVars
  <2>1. TypeOK'
    <3>1. BoolTypes /\ NumTypes
          BY TypeParts
    <3>2. BoolTypes'
          BY <3>1, Zenon DEF BoolTypes
    <3>3. NumTypes'
          BY <3>1 DEF NumTypes
    <3> QED
        BY <3>2, <3>3, TypeParts
  <2>2. CounterInv' /\ BurstInv'
    <3>1. cuts = 0 /\ cuts' = cuts + 1 /\ ~slow_start'
          BY Zenon DEF BurstInv
    <3>2. cuts' = 1 /\ dec_count \in Nat
          BY <3>1 DEF TypeOK
    <3>3. UNCHANGED <<last_dec_seq, curr_snd_seq_number, dec_count, nak_count,
                      avg_nak_num, dec_random>>
          OBVIOUS
    <3>4. CounterInv'
          BY <3>3 DEF CounterInv, NakCounters
    <3>5. last_dec_seq' <= curr_snd_seq_number'
          BY <3>3 DEF BurstInv
    <3>6. cuts' <= 1 /\ cuts' <= dec_count' + 1 /\ cuts' <= DEC_LIMIT + 1
          BY <3>2, <3>3 DEF DEC_LIMIT
    <3> QED
        BY <3>1, <3>4, <3>5, <3>6, Zenon DEF BurstInv, BurstBounded
  <2>3. RatesPositive' /\ (last_ack <= acked)'
        BY DEF RatesPositive
  <2> QED
      BY <2>1, <2>2, <2>3 DEF IInv
<1>3. CASE FirstLoss(seq)
  <2>1. avg_nak_num' \in 0 .. DEC_LIMIT
        BY <1>1, <1>3, AverageBounded
        DEF FirstLoss, CounterInv, NakCounters, TypeOK, DEC_LIMIT
  <2>2. dec_random' \in 1 .. DEC_LIMIT
        BY <1>3, <2>1 DEF FirstLoss, DecRandoms, DEC_LIMIT
  <2>3. cuts <= 1
        BY <1>1, <1>3 DEF FirstLoss, BurstInv, TypeOK
  <2> USE <1>1, <1>3 DEF FirstLoss, PastSlowStart, Cut, rateVars
  <2>4. TypeOK'
    <3>1. BoolTypes'
          BY Zenon DEF BoolTypes
    <3>2. NumTypes
          BY TypeParts
    <3>3. NumTypes'
          BY <2>1, <2>2, <3>2 DEF NumTypes, DEC_LIMIT
    <3> QED
        BY <3>1, <3>3, TypeParts
  <2>5. CounterInv'
        BY <2>1, <2>2 DEF CounterInv, NakCounters, DEC_LIMIT
  <2>6. BurstInv'
        BY <2>3 DEF BurstInv, BurstBounded, DEC_LIMIT, TypeOK
  <2>7. RatesPositive' /\ (last_ack <= acked)'
        BY DEF RatesPositive
  <2> QED
      BY <2>4, <2>5, <2>6, <2>7 DEF IInv
<1>4. CASE LaterLoss(seq)
  <2>1. /\ loss' = TRUE /\ slow_start' = FALSE /\ dec_count' = dec_count + 1
        /\ UNCHANGED <<congestion_window_size, last_ack, recv_rate, bandwidth,
                       curr_snd_seq_number, acked, avg_nak_num, dec_random>>
        BY <1>4 DEF LaterLoss, PastSlowStart, rateVars
  <2>2. /\ nak_count' \in Nat /\ nak_count' <= DEC_LIMIT /\ nak_count' <= dec_count'
        BY <1>1, <1>4, <2>1
        DEF LaterLoss, MaySlowDown, CounterInv, NakCounters, TypeOK, DEC_LIMIT
  <2>3. \/ /\ dec_count' <= DEC_LIMIT /\ Cut("cut") /\ last_dec_seq' = curr_snd_seq_number
        \/ UNCHANGED <<pkt_send_period, cuts, last_dec_seq>>
        BY <1>4 DEF LaterLoss, MaySlowDown
  <2>4. TypeOK'
    <3>1. BoolTypes /\ NumTypes
          BY <1>1, TypeParts
    <3>2. BoolTypes'
          BY <2>1, <2>3, <3>1, Zenon DEF BoolTypes, Cut
    <3>3. NumTypes'
          BY <2>1, <2>2, <2>3, <3>1 DEF NumTypes, Cut
    <3> QED
        BY <3>2, <3>3, TypeParts
  <2>5. CounterInv'
        BY <1>1, <2>1, <2>2 DEF CounterInv, NakCounters
  <2>6. BurstInv'
    <3>1. CASE UNCHANGED <<pkt_send_period, cuts, last_dec_seq>>
          BY <1>1, <2>1, <3>1 DEF BurstInv, BurstBounded, TypeOK
    <3>2. CASE dec_count' <= DEC_LIMIT /\ Cut("cut") /\ last_dec_seq' = curr_snd_seq_number
      <4>1. cuts' = cuts + 1 /\ cuts <= dec_count + 1
            BY <1>1, <3>2 DEF Cut, BurstInv, TypeOK
      <4> QED
          BY <1>1, <2>1, <3>2, <4>1 DEF BurstInv, BurstBounded, TypeOK, DEC_LIMIT
    <3> QED
        BY <2>3, <3>1, <3>2
  <2>7. RatesPositive' /\ (last_ack <= acked)'
        BY <1>1, <2>1, <2>3 DEF RatesPositive, Cut
  <2> QED
      BY <2>4, <2>5, <2>6, <2>7 DEF IInv
<1> QED
    BY <1>2, <1>3, <1>4 DEF OnLoss

(* Timeouts.                                                               *)
LEMMA TimeoutStep == ASSUME IInv, OnTimeout PROVE IInv'
PROOF
<1> USE DEF IInv, OnTimeout, rateVars, decVars
<1>1. TypeOK'
      BY DEF TypeOK, PeriodAfterSlowStart
<1>2. CounterInv' /\ BurstInv'
      BY DEF CounterInv, BurstInv, NakCounters, BurstBounded
<1>3. RatesPositive' /\ (last_ack <= acked)'
      BY DEF RatesPositive, PeriodAfterSlowStart
<1> QED
    BY <1>1, <1>2, <1>3

(* Nothing but the history of the sender is needed: the invariant is       *)
(* inductive.                                                              *)
THEOREM RateInvariant == Spec => []IInv
PROOF
<1>1. IInv /\ UNCHANGED vars => IInv'
      BY DEF IInv, TypeOK, CounterInv, BurstInv, NakCounters, BurstBounded,
             RatesPositive, vars, windowVars, rateVars, decVars
<1>2. IInv /\ [Next]_vars => IInv'
      BY <1>1, SendNewStep, AckStep, LossStep, TimeoutStep DEF Next
<1> QED
    BY <1>2, InitInv, PTL DEF Spec

(* However many loss reports arrive, the sender slows down at most six     *)
(* times before it sends something new, five times within a period and     *)
(* once when slow start ends (rate_control.rs, on_loss).                   *)
THEOREM SlowdownsBounded == Spec => []BurstBounded
PROOF
<1>1. IInv => BurstBounded
      BY DEF IInv, BurstInv
<1> QED
    BY <1>1, RateInvariant, PTL

(* Every variable keeps its type, and dec_random is never zero where it is *)
(* a divisor (rate_control.rs, on_loss).                                   *)
THEOREM TypeCorrect == Spec => []TypeOK
PROOF
<1>1. IInv => TypeOK
      BY DEF IInv, CounterInv
<1> QED
    BY <1>1, RateInvariant, PTL

(* The counters of on_loss never leave their limit, over any number of     *)
(* periods of losses (rate_control.rs, on_loss).                           *)
THEOREM CountersBounded == Spec => []NakCounters
PROOF
<1>1. IInv => NakCounters
      BY DEF IInv, CounterInv
<1> QED
    BY <1>1, RateInvariant, PTL

(* The smoothed rates never become zero, so that the end of slow start     *)
(* always finds a rate (flow.rs, update_peer_delivery_rate).               *)
THEOREM RatesStayPositive == Spec => []RatesPositive
PROOF
<1>1. IInv => RatesPositive
      BY DEF IInv
<1> QED
    BY <1>1, RateInvariant, PTL
=============================================================================
