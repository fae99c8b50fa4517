------------------------------ MODULE Ticker ------------------------------
(* The ticker that paces the pings to an endpoint (disco/ticker/ticker.go).  *)
(* Its goroutine arms a timer with the current interval, and doubles the      *)
(* interval after every tick up to a maximum; SetState, called from other     *)
(* goroutines, restarts the interval and wakes the goroutine through a         *)
(* channel of capacity one that a second call finds full.                      *)
EXTENDS Integers

VARIABLES
    state, priority,    \* as last set by SetState
    currentInterval,    \* milliseconds
    maxInterval,
    wakeCh, reset,      \* channels of capacity one: does each hold a token?
    closed,
    pc,                 \* the goroutine: "arm", "select", "backoff", "done"
    armed               \* the interval the timer was armed with

vars == <<state, priority, currentInterval, maxInterval, wakeCh, reset, closed,
          pc, armed>>
settings == <<state, priority, currentInterval, maxInterval>>

States == {"Connecting", "Connected"}
Priorities == {"Primary", "Sub"}

MaxIntervalOf(p) == IF p = "Primary" THEN 3000 ELSE 10000
StartIntervalOf(s) == IF s = "Connecting" THEN 100 ELSE 3000

\* NewTicker: SetState(Connecting, Primary) and wake() run before the goroutine.
Init ==
    /\ state = "Connecting"
    /\ priority = "Primary"
    /\ currentInterval = StartIntervalOf("Connecting")
    /\ maxInterval = MaxIntervalOf("Primary")
    /\ wakeCh = TRUE
    /\ reset = TRUE
    /\ closed = FALSE
    /\ pc = "arm"
    /\ armed = 0

\* Mutant: the goroutine is not told that the interval changed.
SetStateSilent(s, p, forceReinit) ==
    /\ forceReinit \/ state # s \/ priority # p
    /\ state' = s
    /\ priority' = p
    /\ maxInterval' = MaxIntervalOf(p)
    /\ currentInterval' = StartIntervalOf(s)
    /\ UNCHANGED <<wakeCh, reset, closed, pc, armed>>

\* A call that repeats what is set returns early, unless it is forced.
SetState(s, p, forceReinit) ==
    /\ forceReinit \/ state # s \/ priority # p
    /\ state' = s
    /\ priority' = p
    /\ maxInterval' = MaxIntervalOf(p)
    /\ currentInterval' = StartIntervalOf(s)
    /\ reset' = TRUE
    /\ UNCHANGED <<wakeCh, closed, pc, armed>>

\* run, top of the loop: the timer is armed with the current interval.
Arm ==
    /\ pc = "arm"
    /\ armed' = currentInterval
    /\ pc' = "select"
    /\ UNCHANGED <<settings, wakeCh, reset, closed>>

TakeReset ==
    /\ pc = "select"
    /\ reset
    /\ reset' = FALSE
    /\ pc' = "arm"
    /\ UNCHANGED <<settings, wakeCh, closed, armed>>

TakeClosed ==
    /\ pc = "select"
    /\ closed
    /\ pc' = "done"
    /\ UNCHANGED <<settings, wakeCh, reset, closed, armed>>

\* Mutant: the interval backs off but nobody is woken.
TimerFiresSilently ==
    /\ pc = "select"
    /\ pc' = "backoff"
    /\ UNCHANGED <<settings, wakeCh, reset, closed, armed>>

\* The timer fires: wake(), which drops the token if one is already waiting.
TimerFires ==
    /\ pc = "select"
    /\ wakeCh' = TRUE
    /\ pc' = "backoff"
    /\ UNCHANGED <<settings, reset, closed, armed>>

\* The interval doubles, under the lock again: SetState may have run since.
Backoff ==
    /\ pc = "backoff"
    /\ currentInterval' = IF 2 * currentInterval > maxInterval
                          THEN maxInterval ELSE 2 * currentInterval
    /\ pc' = "arm"
    /\ UNCHANGED <<state, priority, maxInterval, wakeCh, reset, closed, armed>>

\* The endpoint's goroutine reads C().
Receive ==
    /\ wakeCh
    /\ wakeCh' = FALSE
    /\ UNCHANGED <<settings, reset, closed, pc, armed>>

Close ==
    /\ ~closed
    /\ closed' = TRUE
    /\ UNCHANGED <<settings, wakeCh, reset, pc, armed>>

Run == Arm \/ TakeReset \/ TakeClosed \/ TimerFires \/ Backoff

Next ==
    \/ \E s \in States, p \in Priorities, f \in BOOLEAN : SetState(s, p, f)
    \/ Run
    \/ Receive
    \/ Close

Spec == Init /\ [][Next]_vars

(* The goroutine is scheduled and the endpoint keeps reading C().  TimerFires  *)
(* is strongly fair: a reset arms the timer for the same point in time          *)
(* (runPrev + interval), so it cannot put the tick off for ever, and select     *)
(* picks at random among the channels that are ready.                           *)
Fairness == /\ WF_vars(Run) /\ SF_vars(TimerFires) /\ SF_vars(TakeClosed)
            /\ WF_vars(Receive)

FairSpec == Spec /\ Fairness

-----------------------------------------------------------------------------
(* Types, with the intervals the two constants and the doubling can produce.   *)
TypeOK ==
    /\ state \in States
    /\ priority \in Priorities
    /\ currentInterval \in 1..10000
    /\ maxInterval \in {3000, 10000}
    /\ wakeCh \in BOOLEAN
    /\ reset \in BOOLEAN
    /\ closed \in BOOLEAN
    /\ pc \in {"arm", "select", "backoff", "done"}
    /\ armed \in 0..10000

(* The back-off never leaves its limits, however SetState and the doubling     *)
(* interleave: a primary endpoint is pinged at least every 3 s, any other at    *)
(* least every 10 s, and a connected one never more often than every 3 s.       *)
IntervalBounded ==
    /\ currentInterval <= (IF priority = "Primary" THEN 3000 ELSE 10000)
    /\ state = "Connected" => currentInterval >= 3000

(* A change of the interval is never lost in the full reset channel: while the *)
(* goroutine sleeps with no token pending, its timer runs on the current        *)
(* interval.                                                                    *)
ResetNotLost ==
    pc = "select" /\ ~reset => armed = currentInterval

(* Until it is closed the ticker ticks for ever, through any number of resets. *)
KeepsTicking == <>closed \/ ([]<>wakeCh /\ []<>~wakeCh)

(* Close ends the goroutine.                                                   *)
CloseStops == closed ~> pc = "done"

=============================================================================
