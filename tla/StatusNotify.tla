--------------------------- MODULE StatusNotify ---------------------------
(* The status cell of an endpoint (discoPeerEndpointStatus,                  *)
(* disco/discoPeerEndpoint.go; discoPeerStatus in discoPeer.go is the same    *)
(* code over other fields): a value under a mutex with a condition variable,  *)
(* and subscriber goroutines that call back with every value they find        *)
(* changed.  The callback runs without the mutex.                             *)
EXTENDS Naturals

CONSTANTS Values,       \* values of the status (state and round-trip time)
          Zero,         \* the value of a new cell
          Subscribers,  \* goroutines started by NotifyStatus
          MaxSets       \* bound: calls of setStatus

ASSUME StatusNotifyAssumption ==
    /\ Zero \in Values
    /\ MaxSets \in Nat

VARIABLES status, closed,
          pc,           \* "start", "call", "check", "wait", "woken", "done"
          prev,         \* the local prev; while pc is "call", the argument
          told,         \* the value of the last callback that returned
          called,       \* has a callback returned?
          sets          \* calls of setStatus so far

vars == <<status, closed, pc, prev, told, called, sets>>

PCs == {"start", "call", "check", "wait", "woken", "done"}

Init ==
    /\ status = Zero
    /\ closed = FALSE
    /\ pc = [s \in Subscribers |-> "start"]
    /\ prev = [s \in Subscribers |-> Zero]
    /\ told = [s \in Subscribers |-> Zero]
    /\ called = [s \in Subscribers |-> FALSE]
    /\ sets = 0

\* Broadcast: every goroutine in Wait may take the mutex again.
Broadcast == pc' = [s \in Subscribers |-> IF pc[s] = "wait" THEN "woken" ELSE pc[s]]

\* Mutant: setStatus forgets to wake the subscribers.
setStatusSilent(v) ==
    /\ sets < MaxSets
    /\ sets' = sets + 1
    /\ status' = v
    /\ UNCHANGED <<closed, pc, prev, told, called>>

setStatus(v) ==
    /\ sets < MaxSets
    /\ sets' = sets + 1
    /\ status' = v
    /\ Broadcast
    /\ UNCHANGED <<closed, prev, told, called>>

close ==
    /\ ~closed
    /\ closed' = TRUE
    /\ Broadcast
    /\ UNCHANGED <<status, prev, told, called, sets>>

\* notifyStatus reads the value it first reports, also of a closed cell.
Start(s) ==
    /\ pc[s] = "start"
    /\ prev' = [prev EXCEPT ![s] = status]
    /\ pc' = [pc EXCEPT ![s] = "call"]
    /\ UNCHANGED <<status, closed, told, called, sets>>

\* fn(curr) returns; prev is what was reported.
Call(s) ==
    /\ pc[s] = "call"
    /\ told' = [told EXCEPT ![s] = prev[s]]
    /\ called' = [called EXCEPT ![s] = TRUE]
    /\ pc' = [pc EXCEPT ![s] = "check"]
    /\ UNCHANGED <<status, closed, prev, sets>>

Stop(s) ==
    /\ pc' = [pc EXCEPT ![s] = "done"]
    /\ UNCHANGED prev

Report(s) ==
    /\ pc' = [pc EXCEPT ![s] = "call"]
    /\ prev' = [prev EXCEPT ![s] = status]

\* Mutant: the value is compared before the mutex is taken for Wait, so a change
\* in between goes unnoticed.
CheckThenWaitUnlocked(s) ==
    /\ pc[s] = "check"
    /\ \/ closed /\ Stop(s)
       \/ ~closed /\ status # prev[s] /\ Report(s)
       \/ ~closed /\ told[s] = prev[s] /\ pc' = [pc EXCEPT ![s] = "wait"] /\ UNCHANGED prev
    /\ UNCHANGED <<status, closed, told, called, sets>>

\* The top of the loop: comparison and Wait happen under one hold of the mutex.
Check(s) ==
    /\ pc[s] = "check"
    /\ \/ closed /\ Stop(s)
       \/ ~closed /\ status # prev[s] /\ Report(s)
       \/ ~closed /\ status = prev[s] /\ pc' = [pc EXCEPT ![s] = "wait"] /\ UNCHANGED prev
    /\ UNCHANGED <<status, closed, told, called, sets>>

\* Mutant: a woken subscriber reports without comparing.
WokenAlwaysReports(s) ==
    /\ pc[s] = "woken"
    /\ IF closed THEN Stop(s) ELSE Report(s)
    /\ UNCHANGED <<status, closed, told, called, sets>>

\* After Wait: a value set twice may be back at what was reported.
Woken(s) ==
    /\ pc[s] = "woken"
    /\ \/ closed /\ Stop(s)
       \/ ~closed /\ status # prev[s] /\ Report(s)
       \/ ~closed /\ status = prev[s] /\ pc' = [pc EXCEPT ![s] = "check"] /\ UNCHANGED prev
    /\ UNCHANGED <<status, closed, told, called, sets>>

Subscriber(s) == Start(s) \/ Call(s) \/ Check(s) \/ Woken(s)

Next ==
    \/ \E v \in Values : setStatus(v)
    \/ close
    \/ \E s \in Subscribers : Subscriber(s)

Spec == Init /\ [][Next]_vars

\* Go schedules every goroutine, and the callbacks return.
Fairness == \A s \in Subscribers : WF_vars(Subscriber(s))

FairSpec == Spec /\ Fairness

-----------------------------------------------------------------------------
(* Every variable has its type.                                                *)
TypeOK ==
    /\ status \in Values
    /\ closed \in BOOLEAN
    /\ pc \in [Subscribers -> PCs]
    /\ prev \in [Subscribers -> Values]
    /\ told \in [Subscribers -> Values]
    /\ called \in [Subscribers -> BOOLEAN]
    /\ sets \in 0..MaxSets

(* No wakeup is missed: a subscriber asleep in Wait has reported the current   *)
(* value, and the cell is open.                                                *)
SleepsInformed ==
    \A s \in Subscribers : pc[s] = "wait" =>
        /\ ~closed
        /\ called[s]
        /\ told[s] = status

(* Every callback after the first brings a value other than the last one, so   *)
(* the engine is not reconfigured for nothing.                                  *)
ReportsChanges ==
    \A s \in Subscribers : pc[s] = "call" /\ called[s] => prev[s] # told[s]

(* What was set last is reported to every subscriber, unless the cell is       *)
(* closed; and closing ends every subscriber.                                   *)
EventuallyTold ==
    \A s \in Subscribers : <>[](IF closed THEN pc[s] = "done" ELSE told[s] = status)

=============================================================================
