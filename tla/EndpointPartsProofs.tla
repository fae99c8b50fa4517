------------------------ MODULE EndpointPartsProofs ------------------------
(* Proofs about the machines inside an endpoint: the cell that tells its     *)
(* status, for any number of subscribers and values, and the ticker.         *)
EXTENDS MCEndpoint, TLAPS

-----------------------------------------------------------------------------
(* Every variable of the status cell and of its subscribers keeps its type.   *)
THEOREM TypeCorrect == Spec => []TypeOK
<1>1. Init => TypeOK
  <2> SUFFICES ASSUME Init PROVE TypeOK
    OBVIOUS
  <2>1. called \in [Subscribers -> BOOLEAN]
    BY Zenon DEF Init
  <2>2. sets \in 0..MaxSets
    BY SMT, StatusNotifyAssumption DEF Init
  <2> QED
    BY <2>1, <2>2, StatusNotifyAssumption DEF Init, TypeOK, PCs
<1>2. TypeOK /\ [Next]_vars => TypeOK'
  <2> SUFFICES ASSUME TypeOK, [Next]_vars PROVE TypeOK'
    OBVIOUS
  <2> USE StatusNotifyAssumption DEF TypeOK, PCs
  <2>1. CASE \E v \in Values : setStatus(v)
    BY <2>1 DEF setStatus, Broadcast
  <2>2. CASE close
    BY <2>2 DEF close, Broadcast
  <2>3. CASE \E s \in Subscribers : Subscriber(s)
    <3> PICK s \in Subscribers : Subscriber(s)
      BY <2>3
    <3>1. CASE Start(s)
      BY <3>1 DEF Start
    <3>2. CASE Call(s)
      BY <3>2 DEF Call
    <3>3. CASE Check(s)
      BY <3>3 DEF Check, Stop, Report
    <3>4. CASE Woken(s)
      BY <3>4 DEF Woken, Stop, Report
    <3> QED
      BY <3>1, <3>2, <3>3, <3>4 DEF Subscriber
  <2>4. CASE UNCHANGED vars
    BY <2>4 DEF vars
  <2> QED
    BY <2>1, <2>2, <2>3, <2>4 DEF Next
<1> QED
  BY <1>1, <1>2, PTL DEF Spec

-----------------------------------------------------------------------------
(* The strengthening that makes the two properties inductive: where the       *)
(* subscriber is in its loop says whether the last report and prev agree.      *)
Inv ==
    \A s \in Subscribers :
        /\ pc[s] \in {"check", "wait", "woken"} => called[s] /\ told[s] = prev[s]
        /\ pc[s] = "wait" => ~closed /\ prev[s] = status
        /\ pc[s] = "start" => ~called[s]
        /\ pc[s] = "call" /\ called[s] => prev[s] # told[s]

(* Inv holds in every reachable state.                                         *)
THEOREM Invariance == Spec => []Inv
<1>1. Init => Inv
  BY DEF Init, Inv
<1>2. TypeOK /\ Inv /\ [Next]_vars => Inv'
  <2> SUFFICES ASSUME TypeOK, Inv, [Next]_vars PROVE Inv'
    OBVIOUS
  <2> USE DEF TypeOK, Inv, PCs
  <2>1. CASE \E v \in Values : setStatus(v)
    BY <2>1 DEF setStatus, Broadcast
  <2>2. CASE close
    BY <2>2 DEF close, Broadcast
  <2>3. CASE \E s \in Subscribers : Subscriber(s)
    <3> PICK s \in Subscribers : Subscriber(s)
      BY <2>3
    <3>1. CASE Start(s)
      BY <3>1 DEF Start
    <3>2. CASE Call(s)
      BY <3>2 DEF Call
    <3>3. CASE Check(s)
      BY <3>3 DEF Check, Stop, Report
    <3>4. CASE Woken(s)
      BY <3>4 DEF Woken, Stop, Report
    <3> QED
      BY <3>1, <3>2, <3>3, <3>4 DEF Subscriber
  <2>4. CASE UNCHANGED vars
    BY <2>4 DEF vars
  <2> QED
    BY <2>1, <2>2, <2>3, <2>4 DEF Next
<1> QED
  BY <1>1, <1>2, TypeCorrect, PTL DEF Spec

(* No subscriber ever sleeps through a change: whoever waits has reported the  *)
(* current value of an open cell.                                              *)
THEOREM NoMissedWakeup == Spec => []SleepsInformed
<1>1. Inv => SleepsInformed
  BY DEF Inv, SleepsInformed
<1> QED
  BY <1>1, Invariance, PTL

(* After its first callback a subscriber is called back only with a value it   *)
(* has not just been given.                                                    *)
THEOREM NoIdleCallback == Spec => []ReportsChanges
<1>1. Inv => ReportsChanges
  BY DEF Inv, ReportsChanges
<1> QED
  BY <1>1, Invariance, PTL


-----------------------------------------------------------------------------
(* The ticker: no reset is lost *)

\* SetState writes both under one lock.
LimitOfPriority == maxInterval = Ticker!MaxIntervalOf(tickerPriority)

Limits ==
    /\ state \in Ticker!States /\ tickerPriority \in Ticker!Priorities
    /\ currentInterval \in Nat

TickerInv == Limits /\ LimitOfPriority /\ ResetTakesEffect

LEMMA SetStateKeepsInv ==
    ASSUME TickerInv, NEW s \in Ticker!States, NEW p \in Ticker!Priorities, NEW f \in BOOLEAN,
           Ticker!SetState(s, p, f)
    PROVE  TickerInv'
BY DEF TickerInv, Limits, LimitOfPriority, ResetTakesEffect, Ticker!ResetNotLost,
   Ticker!IntervalBounded, Ticker!SetState, Ticker!MaxIntervalOf, Ticker!StartIntervalOf,
   Ticker!States, Ticker!Priorities

LEMMA RunKeepsInv ==
    ASSUME TickerInv, Ticker!Run \/ Ticker!Receive \/ Ticker!Close
    PROVE  TickerInv'
<1> USE DEF TickerInv, Limits, LimitOfPriority, ResetTakesEffect, Ticker!ResetNotLost,
    Ticker!IntervalBounded, Ticker!settings, Ticker!MaxIntervalOf, Ticker!States,
    Ticker!Priorities
<1>1. CASE Ticker!Arm
  BY <1>1 DEF Ticker!Arm
<1>2. CASE Ticker!TakeReset \/ Ticker!TakeClosed \/ Ticker!TimerFires
  BY <1>2 DEF Ticker!TakeReset, Ticker!TakeClosed, Ticker!TimerFires
<1>3. CASE Ticker!Backoff
  BY <1>3 DEF Ticker!Backoff
<1>4. CASE Ticker!Receive \/ Ticker!Close
  BY <1>4 DEF Ticker!Receive, Ticker!Close
<1> QED
  BY <1>1, <1>2, <1>3, <1>4 DEF Ticker!Run

(* However SetState, the doubling and the goroutine interleave, a sleeping goroutine that    *)
(* no token waits for sleeps for the current interval, and the interval stays within the    *)
(* limits of state and priority (ticker.go:103-137).                                        *)
THEOREM ResetsTakeEffect == Ticker!Spec => []ResetTakesEffect
<1>1. Ticker!Init => TickerInv
  BY DEF Ticker!Init, TickerInv, LimitOfPriority, ResetTakesEffect, Limits,
     Ticker!ResetNotLost, Ticker!IntervalBounded, Ticker!MaxIntervalOf,
     Ticker!StartIntervalOf, Ticker!States, Ticker!Priorities
<1>2. TickerInv /\ [Ticker!Next]_(Ticker!vars) => TickerInv'
  <2> SUFFICES ASSUME TickerInv, [Ticker!Next]_(Ticker!vars) PROVE TickerInv'
    OBVIOUS
  <2>1. CASE UNCHANGED Ticker!vars
    BY <2>1 DEF Ticker!vars, TickerInv, LimitOfPriority, ResetTakesEffect, Limits,
       Ticker!ResetNotLost, Ticker!IntervalBounded
  <2> QED
    BY <2>1, SetStateKeepsInv, RunKeepsInv DEF Ticker!Next
<1>3. TickerInv => ResetTakesEffect
  BY DEF TickerInv
<1> QED
  BY <1>1, <1>2, <1>3, PTL DEF Ticker!Spec
=============================================================================
