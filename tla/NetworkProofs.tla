---------------------------- MODULE NetworkProofs ----------------------------
(* Proofs about the way of packets and of news into a node: the process, for any  *)
(* number of changes of the node, the split connection, for any children, filters,  *)
(* packets, buffers and lengths of the queues, and the XDP controller, for any     *)
(* interfaces, receivers, and failures.                                            *)
EXTENDS MCNetwork, SequenceTheorems, TLAPS

-----------------------------------------------------------------------------
(* No change is lost *)

(* The combinator takes its subscriber out only after the loop has ended: until *)
(* then the monitor finds it.                                                   *)
Subscribed ==
    /\ comb \notin {"new", "select", "send"} => combClosed
    /\ combClosed => loop = "done"
    /\ comb = "new" => loop = "new"
    /\ loop = "new" => comb = "new"

\* What has to be known for no change to be lost.
Inv == Subscribed /\ NoLostChange

(* No step of the monitor loses the word of a change.                          *)
LEMMA MonitorKeepsInv == ASSUME Inv, Monitor PROVE Inv'
<1> USE DEF Inv, Subscribed, NoLostChange, OnTheWay, netlink, alarm, engine, views, ending
<1>1. CASE ReceiveFails
  <2>1. missedRecv' /\ missedSend'
    BY <1>1 DEF ReceiveFails, Loses
  <2> QED
    BY <1>1, <2>1 DEF ReceiveFails
<1>2. CASE Receive
  BY <1>2 DEF Receive
<1>3. CASE RangeSubscriber
  BY <1>3 DEF RangeSubscriber, InMap, Loses
<1>4. CASE Wake
  BY <1>4 DEF Wake
<1>5. CASE WakePanics
  BY <1>5 DEF WakePanics, Ends
<1>6. CASE Dial
  BY <1>6 DEF Dial
<1> QED
  BY <1>1, <1>2, <1>3, <1>4, <1>5, <1>6 DEF Monitor

(* Nor does one of the ticker, the combinator or the loop in main.              *)
LEMMA LoopKeepsInv == ASSUME Inv, Tick \/ Combinator \/ Loop PROVE Inv'
<1> USE DEF Inv, Subscribed, NoLostChange, OnTheWay, netlink, alarm, engine, views, ending
<1>1. CASE Tick
  BY <1>1 DEF Tick
<1>2. CASE TakeTick
  BY <1>2 DEF TakeTick
<1>3. CASE TakeToken
  BY <1>3 DEF TakeToken
<1>4. CASE CombinatorEnds
  BY <1>4 DEF CombinatorEnds
<1>5. CASE LoopReceives
  BY <1>5 DEF LoopReceives
<1>6. CASE LoopEnds
  BY <1>6 DEF LoopEnds
<1>7. CASE LoopTriggers
  BY <1>7 DEF LoopTriggers
<1>8. CASE Subscribe
  BY <1>8 DEF Subscribe
<1> QED
  BY <1>1, <1>2, <1>3, <1>4, <1>5, <1>6, <1>7, <1>8 DEF Combinator, Loop

(* The engine takes a token before it reads the addresses and the routes: what   *)
(* changes afterwards has a token of its own.                                    *)
LEMMA EngineKeepsInv ==
    ASSUME Inv, Engine \/ discoStatusCallback \/ TriggerPanics PROVE Inv'
<1> USE DEF Inv, Subscribed, NoLostChange, OnTheWay, netlink, alarm, engine, views, ending
<1>1. CASE runReconfig
  BY <1>1 DEF runReconfig
<1>2. ASSUME NEW ok \in BOOLEAN, RefreshReceiver(ok) PROVE Inv'
  BY <1>2 DEF RefreshReceiver
<1>3. ASSUME NEW ok \in BOOLEAN, RefreshSender(ok) PROVE Inv'
  BY <1>3 DEF RefreshSender
<1>4. CASE Reconfigured
  BY <1>4 DEF Reconfigured
<1>5. CASE SetPeersPanics \/ TriggerPanics \/ RefreshPanics
  <2>1. PICK how : Ends(how)
    BY <1>5 DEF SetPeersPanics, TriggerPanics, RefreshPanics
  <2> QED
    BY <2>1 DEF Ends
<1>6. CASE discoStatusCallback
  BY <1>6 DEF discoStatusCallback
<1> QED
  BY <1>1, <1>2, <1>3, <1>4, <1>5, <1>6 DEF Engine

(* Inv holds in every reachable state.                                            *)
THEOREM InvHolds == Spec => []Inv
<1>1. Init => Inv
  BY DEF Init, Inv, Subscribed, NoLostChange, OnTheWay
<1>2. Inv /\ [Next]_vars => Inv'
  <2> SUFFICES ASSUME Inv, [Next]_vars PROVE Inv'
    OBVIOUS
  <2> USE DEF Inv, Subscribed, NoLostChange, OnTheWay, netlink, alarm, engine, views, ending
  <2>1. CASE Change
    BY <2>1 DEF Change, Loses
  <2>2. CASE Signal
    BY <2>2 DEF Signal
  <2>3. CASE ManagerFails \/ Exit
    BY <2>3 DEF ManagerFails, Exit, Ends
  <2>4. CASE ManagerStops
    BY <2>4 DEF ManagerStops
  <2>5. CASE Close
    BY <2>5 DEF Close
  <2>6. CASE UNCHANGED vars
    BY <2>6 DEF vars
  <2> QED
    BY <2>1, <2>2, <2>3, <2>4, <2>5, <2>6, MonitorKeepsInv, LoopKeepsInv, EngineKeepsInv
    DEF Next, Main
<1> QED
  BY <1>1, <1>2, PTL DEF Spec

(* No change of the node's addresses or routes is lost on its way to the receiver *)
(* and the sender, however often they change and whatever the engine is doing.     *)
THEOREM NoChangeLost == Spec => []NoLostChange
<1>1. Inv => NoLostChange
  BY DEF Inv
<1> QED
  BY <1>1, InvHolds, PTL

-----------------------------------------------------------------------------
(* The end of the process *)

(* Parts are closed only by Close, at most the five there are.                   *)
Counts ==
    /\ closed \in 0..5
    /\ main = "manager" => closed = 0
    /\ main = "close" => closed < 5

(* Before the process is told to stop nothing is taken apart.                    *)
Orderly ==
    /\ loop = "done" => stop
    /\ main # "manager" => stop
    /\ subClosed => comb = "done"
    /\ end \in {"wakePanics", "triggerPanics", "peersPanic"} => stop

\* Whoever panics on the triggers finds them closed.
LastTrigger == end = "triggerPanics" => closed = 5

(* The triggers are the last of the five parts that are closed.                  *)
LEMMA TriggerIsLast ==
    ASSUME Counts
    PROVE  /\ Closed("trigger") => closed = 5
           /\ closed = 5 => \A part \in {"disco", "wireguard", "collector", "hijack"} :
                                Closed(part)
           /\ closed = 0 => \A part : ~Closed(part)
<1>1. /\ CloseOrder[1] = "disco" /\ CloseOrder[2] = "wireguard"
      /\ CloseOrder[3] = "collector" /\ CloseOrder[4] = "hijack"
  BY DEF CloseOrder
<1>2. Closed("trigger") => closed = 5
  BY <1>1 DEF Closed, Counts
<1>3. closed = 0 => \A part : ~Closed(part)
  BY DEF Closed
<1>4. ASSUME closed = 5
      PROVE  \A part \in {"disco", "wireguard", "collector", "hijack"} : Closed(part)
  <2>1. 1 \in 1..closed /\ 2 \in 1..closed /\ 3 \in 1..closed /\ 4 \in 1..closed
    BY <1>4
  <2>2. /\ Closed("disco") /\ Closed("wireguard")
        /\ Closed("collector") /\ Closed("hijack")
    BY <1>1, <2>1 DEF Closed
  <2> QED
    BY <2>2
<1> QED
  BY <1>2, <1>3, <1>4

(* A step that ends the process, and how it does.                                *)
LEMMA EndingSteps ==
    ASSUME Next
    PROVE  \/ end' = end
           \/ Ends("wakePanics") /\ WakePanics
           \/ Ends("triggerPanics") /\ TriggerPanics
           \/ Ends("peersPanic") /\ SetPeersPanics
           \/ Ends("refreshPanics")
           \/ Ends("failed")
           \/ Ends("exit")
<1> USE DEF ending
<1>1. CASE Change \/ Signal \/ Tick \/ discoStatusCallback
  BY <1>1 DEF Change, Signal, Tick, discoStatusCallback
<1>2. CASE Monitor
  BY <1>2 DEF Monitor, Dial, ReceiveFails, Receive, RangeSubscriber, Wake, WakePanics
<1>3. CASE Combinator \/ Loop
  BY <1>3 DEF Combinator, TakeTick, TakeToken, CombinatorEnds,
              Loop, Subscribe, LoopReceives, LoopEnds, LoopTriggers
<1>4. CASE TriggerPanics
  BY <1>4 DEF TriggerPanics
<1>5. CASE Engine
  BY <1>5 DEF Engine, runReconfig, RefreshReceiver, RefreshSender, RefreshPanics,
              Reconfigured, SetPeersPanics
<1>6. CASE Main
  BY <1>6 DEF Main, ManagerFails, ManagerStops, Close, Exit
<1> QED
  BY <1>1, <1>2, <1>3, <1>4, <1>5, <1>6 DEF Next

(* Only ManagerStops and Close touch the main goroutine and what it has closed.   *)
LEMMA OnlyMainCloses ==
    ASSUME [Next]_vars PROVE ManagerStops \/ Close \/ (main' = main /\ closed' = closed)
<1> USE DEF ending
<1>1. CASE \E how : Ends(how)
  BY <1>1 DEF Ends
<1>2. CASE Change \/ Signal \/ Tick \/ discoStatusCallback
  BY <1>2 DEF Change, Signal, Tick, discoStatusCallback
<1>3. CASE Monitor
  BY <1>1, <1>3 DEF Monitor, Dial, ReceiveFails, Receive, RangeSubscriber, Wake, WakePanics
<1>4. CASE Combinator \/ Loop
  BY <1>4 DEF Combinator, TakeTick, TakeToken, CombinatorEnds,
              Loop, Subscribe, LoopReceives, LoopEnds, LoopTriggers
<1>5. CASE TriggerPanics
  BY <1>1, <1>5 DEF TriggerPanics
<1>6. CASE Engine
  BY <1>1, <1>6 DEF Engine, runReconfig, RefreshReceiver, RefreshSender, RefreshPanics,
                    Reconfigured, SetPeersPanics
<1>7. CASE Main
  BY <1>1, <1>7 DEF Main, ManagerFails, Exit
<1>8. CASE UNCHANGED vars
  BY <1>8 DEF vars
<1> QED
  BY <1>2, <1>3, <1>4, <1>5, <1>6, <1>7, <1>8 DEF Next

(* The number of closed parts stays right.                                        *)
LEMMA CountsKept == ASSUME Counts, [Next]_vars PROVE Counts'
<1>1. CASE Close
  <2>1. Len(CloseOrder) = 5
    BY DEF CloseOrder
  <2> QED
    BY <1>1, <2>1 DEF Close, Counts
<1>2. CASE ManagerStops
  BY <1>2 DEF ManagerStops, Counts
<1>3. CASE main' = main /\ closed' = closed
  BY <1>3 DEF Counts
<1> QED
  BY <1>1, <1>2, <1>3, OnlyMainCloses

(* Nothing is closed once the process has ended, and the triggers only panic when  *)
(* they are.                                                                       *)
LEMMA LastTriggerKept == ASSUME Counts, LastTrigger, [Next]_vars PROVE LastTrigger'
<1>1. CASE Close
  BY <1>1 DEF Close, Alive, LastTrigger
<1>2. CASE ManagerStops
  BY <1>2 DEF ManagerStops, Alive, LastTrigger
<1>3. CASE main' = main /\ closed' = closed /\ end' = end
  BY <1>3 DEF LastTrigger
<1>4. CASE TriggerPanics
  BY <1>4, TriggerIsLast DEF TriggerPanics, Ends, ending, LastTrigger
<1>5. CASE end' # "triggerPanics"
  BY <1>5 DEF LastTrigger
<1>6. CASE UNCHANGED vars
  BY <1>3, <1>6 DEF vars, ending
<1> QED
  BY <1>1, <1>2, <1>3, <1>4, <1>5, <1>6, EndingSteps, OnlyMainCloses DEF Ends

(* A subscriber is closed after the loop has ended, and a part of the engine after *)
(* the manager: both take a signal.                                                *)
LEMMA OrderlyKept == ASSUME Subscribed, Counts, Orderly, [Next]_vars PROVE Orderly'
<1> USE DEF Orderly, netlink, alarm, engine, views, ending
<1>1. ASSUME NEW part, Closed(part) PROVE stop
  <2>1. closed # 0
    BY <1>1, TriggerIsLast
  <2>2. main # "manager"
    BY <2>1 DEF Counts
  <2> QED
    BY <2>2
<1>2. ASSUME NEW how, Ends(how),
             how \in {"wakePanics", "triggerPanics", "peersPanic"} => stop
      PROVE  Orderly'
  BY <1>2 DEF Ends
<1>3. CASE WakePanics
  <2>1. stop
    BY <1>3 DEF WakePanics, Subscribed
  <2> QED
    BY <1>2, <1>3, <2>1 DEF WakePanics
<1>4. CASE TriggerPanics \/ SetPeersPanics
  <2>1. stop
    BY <1>1, <1>4 DEF TriggerPanics, SetPeersPanics
  <2> QED
    BY <1>2, <1>4, <2>1 DEF TriggerPanics, SetPeersPanics
<1>5. CASE ManagerFails \/ Exit \/ RefreshPanics
  BY <1>2, <1>5 DEF ManagerFails, Exit, RefreshPanics
<1>6. ASSUME loop' = loop, main' = main, subClosed' = subClosed, comb' = comb, end' = end,
             stop' = stop
      PROVE  Orderly'
  BY <1>6
<1>7. CASE Change \/ Tick \/ discoStatusCallback
  BY <1>6, <1>7 DEF Change, Tick, discoStatusCallback
<1>8. CASE Dial \/ ReceiveFails \/ Receive \/ RangeSubscriber \/ Wake
  BY <1>6, <1>8 DEF Dial, ReceiveFails, Receive, RangeSubscriber, Wake
<1>9. CASE runReconfig \/ Reconfigured
  BY <1>6, <1>9 DEF runReconfig, Reconfigured
<1>10. ASSUME NEW ok \in BOOLEAN, RefreshReceiver(ok) \/ RefreshSender(ok) PROVE Orderly'
  BY <1>6, <1>10 DEF RefreshReceiver, RefreshSender
<1>11. CASE Signal
  BY <1>11 DEF Signal
<1>12. CASE TakeTick
  BY <1>12 DEF TakeTick
<1>13. CASE TakeToken
  BY <1>13 DEF TakeToken
<1>14. CASE CombinatorEnds
  BY <1>14 DEF CombinatorEnds
<1>15. CASE LoopReceives
  BY <1>15 DEF LoopReceives
<1>16. CASE LoopEnds
  BY <1>16 DEF LoopEnds
<1>17. CASE LoopTriggers
  BY <1>17 DEF LoopTriggers
<1>18. CASE ManagerStops \/ Subscribe
  BY <1>18 DEF ManagerStops, Subscribe
<1>19. CASE Close
  <2>1. stop
    BY <1>19 DEF Close
  <2>2. /\ stop' = stop /\ loop' = loop /\ subClosed' = subClosed /\ comb' = comb
        /\ end' = end
    BY <1>19 DEF Close
  <2> QED
    BY <2>1, <2>2
<1>20. CASE UNCHANGED vars
  BY <1>20 DEF vars
<1> QED
  BY <1>3, <1>4, <1>5, <1>7, <1>8, <1>9, <1>10, <1>11, <1>12, <1>13, <1>14, <1>15, <1>16,
     <1>17, <1>18, <1>19, <1>20
  DEF Next, Monitor, Combinator, Loop, Engine, Main

(* No panic but that of Refresh before the process is told to stop, and none on the *)
(* triggers before every other part of the engine is closed.                       *)
THEOREM NoEarlyPanic == Spec => []PanicsLate
<1> DEFINE EndInv == Subscribed /\ Counts /\ Orderly /\ LastTrigger
<1>1. Init => EndInv
  <2>1. Init => Subscribed /\ Orderly /\ LastTrigger
    BY DEF Init, Subscribed, Orderly, LastTrigger
  <2>2. Init => Counts
    BY DEF Init, Counts
  <2> QED
    BY <2>1, <2>2
<1>2. EndInv /\ Inv /\ Inv' /\ [Next]_vars => EndInv'
  BY CountsKept, LastTriggerKept, OrderlyKept DEF Inv
<1>3. EndInv => PanicsLate
  <2> SUFFICES ASSUME EndInv PROVE PanicsLate
    OBVIOUS
  <2>1. end \in {"wakePanics", "triggerPanics", "peersPanic"} => stop
    BY DEF Orderly
  <2>2. end = "triggerPanics" =>
            \A part \in {"disco", "wireguard", "collector", "hijack"} : Closed(part)
    BY TriggerIsLast DEF LastTrigger
  <2> QED
    BY <2>1, <2>2 DEF PanicsLate
<1>4. Spec => []Inv
  BY InvHolds
<1> QED
  BY <1>1, <1>2, <1>3, <1>4, PTL DEF Spec

-----------------------------------------------------------------------------
(* The type of the state *)

(* The steps of the monitor, the ticker, the combinator and the loop keep the type. *)
LEMMA NewsKeepsType ==
    ASSUME TypeOK, Change \/ Monitor \/ Tick \/ Combinator \/ Loop
    PROVE  TypeOK'
<1> USE DEF netlink, alarm, engine, views, ending, Places
<1>1. CASE Change
  BY <1>1, DaemonAssumption DEF Change, Loses, TypeOK, Flags
<1>2. CASE Monitor
  <2>1. CASE ReceiveFails \/ Receive \/ Dial
    <3>1. Flags'
      BY <2>1, Zenon DEF ReceiveFails, Receive, Dial, Loses, TypeOK, Flags
    <3> QED
      BY <2>1, <3>1 DEF ReceiveFails, Receive, Dial, Loses, TypeOK
  <2>2. CASE RangeSubscriber
    BY <2>2 DEF RangeSubscriber, InMap, Loses, TypeOK, Flags
  <2>3. CASE Wake
    BY <2>3 DEF Wake, TypeOK, Flags
  <2>4. CASE WakePanics
    BY <2>4 DEF WakePanics, Ends, TypeOK, Flags
  <2> QED
    BY <1>2, <2>1, <2>2, <2>3, <2>4 DEF Monitor
<1>3. CASE Tick
  BY <1>3 DEF Tick, TypeOK, Flags
<1>4. CASE Combinator
  BY <1>4 DEF Combinator, TakeTick, TakeToken, CombinatorEnds, TypeOK, Flags
<1>5. CASE Loop
  <2>1. CASE LoopReceives
    BY <2>1 DEF LoopReceives, TypeOK, Flags
  <2>2. CASE LoopEnds
    BY <2>2 DEF LoopEnds, TypeOK, Flags
  <2>3. CASE LoopTriggers
    BY <2>3 DEF LoopTriggers, TypeOK, Flags
  <2>4. CASE Subscribe
    BY <2>4 DEF Subscribe, TypeOK, Flags
  <2> QED
    BY <1>5, <2>1, <2>2, <2>3, <2>4 DEF Loop
<1> QED
  BY <1>1, <1>2, <1>3, <1>4, <1>5

(* So do those of the engine and of main.                                           *)
LEMMA EndKeepsType ==
    ASSUME TypeOK, Counts',
           Signal \/ discoStatusCallback \/ TriggerPanics \/ Engine \/ Main
    PROVE  TypeOK'
<1> USE DEF netlink, alarm, engine, views, ending, Places
<1>1. CASE Signal
  BY <1>1 DEF Signal, TypeOK, Flags
<1>2. CASE discoStatusCallback
  BY <1>2 DEF discoStatusCallback, TypeOK, Flags
<1>3. CASE TriggerPanics
  BY <1>3 DEF TriggerPanics, Ends, TypeOK, Flags
<1>4. CASE Engine
  <2>1. CASE runReconfig
    <3>1. Flags'
      BY <2>1, Zenon DEF runReconfig, TypeOK, Flags
    <3> QED
      BY <2>1, <3>1 DEF runReconfig, TypeOK
  <2>2. ASSUME NEW ok \in BOOLEAN, RefreshReceiver(ok)
        PROVE  TypeOK'
    BY <2>2 DEF RefreshReceiver, TypeOK, Flags
  <2>3. ASSUME NEW ok \in BOOLEAN, RefreshSender(ok)
        PROVE  TypeOK'
    BY <2>3 DEF RefreshSender, TypeOK, Flags
  <2>4. CASE Reconfigured \/ SetPeersPanics \/ RefreshPanics
    BY <2>4 DEF Reconfigured, SetPeersPanics, RefreshPanics, Ends, TypeOK, Flags
  <2> QED
    BY <1>4, <2>1, <2>2, <2>3, <2>4 DEF Engine
<1>5. CASE Main
  <2>1. Len(CloseOrder) = 5
    BY DEF CloseOrder
  <2>2. CASE Close
    BY <2>1, <2>2 DEF Close, Counts, TypeOK, Flags
  <2>3. CASE ManagerFails \/ ManagerStops \/ Exit
    BY <2>3 DEF ManagerFails, ManagerStops, Exit, Ends, TypeOK, Flags
  <2> QED
    BY <1>5, <2>2, <2>3 DEF Main
<1> QED
  BY <1>1, <1>2, <1>3, <1>4, <1>5

(* Every variable of the process has its type: each goroutine is at one of its      *)
(* places, and Close closes no more parts than there are (tetraengine.go:351-367). *)
THEOREM TypeCorrect == Spec => []TypeOK
<1>1. Init => TypeOK /\ Counts
  <2>1. Len(CloseOrder) = 5
    BY DEF CloseOrder
  <2>2. Init => Flags
    BY Zenon DEF Init, Flags
  <2> QED
    BY <2>1, <2>2, DaemonAssumption DEF Init, TypeOK, Places, Counts
<1>2. TypeOK /\ Counts /\ [Next]_vars => (TypeOK /\ Counts)'
  <2> SUFFICES ASSUME TypeOK, Counts, [Next]_vars
      PROVE  TypeOK' /\ Counts'
    OBVIOUS
  <2>1. Counts'
    BY CountsKept
  <2>2. CASE UNCHANGED vars
    <3> USE DEF vars, netlink, alarm, engine, views, ending
    <3>1. Flags'
      BY <2>2 DEF TypeOK, Flags
    <3> QED
      BY <2>1, <2>2, <3>1 DEF TypeOK, Places
  <2>3. CASE Next
    BY <2>1, <2>3, NewsKeepsType, EndKeepsType DEF Next
  <2> QED
    BY <2>1, <2>2, <2>3
<1> QED
  BY <1>1, <1>2, PTL DEF Spec


-----------------------------------------------------------------------------
(* The split connection: types *)

Conns == Split!Conns
Labels == {"idle", "top", "took", "do", "wait", "lead", "filled"}
Flying == {"lead", "filled"}

SplitTypes ==
    /\ pc \in [Conns -> Labels]
    /\ queue \in [Conns -> Seq(Bufs)] /\ \A c \in Conns : Len(queue[c]) <= Cap
    /\ held \in [Conns -> Bufs \cup {None}]
    /\ contents \in [Bufs -> Packets \cup {None}]
    /\ pool \subseteq Bufs
    /\ late \in 0..Late

\* A reader has a buffer from the time it takes one to the time it gives it away, and one
\* reader at a time reads the connection.
Holds == \A c \in Conns : held[c] # None <=> pc[c] \in {"took"} \cup Flying
OneFlight == \A c, d \in Conns : pc[c] \in Flying /\ pc[d] \in Flying => c = d

LEMMA SplitConstants ==
    None \notin Bufs /\ None \notin Packets /\ Cap \in Nat \ {0} /\ Late \in Nat
BY SplitAssumption DEF Split!Assumption

LEMMA Appended ==
    ASSUME NEW S, NEW s \in Seq(S), NEW b \in S
    PROVE  /\ Append(s, b) \in Seq(S) /\ Len(s) \in Nat /\ Len(Append(s, b)) = Len(s) + 1
           /\ Append(s, b)[Len(s) + 1] = b
           /\ \A i \in 1..Len(s) : Append(s, b)[i] = s[i]
OBVIOUS

LEMMA Taken ==
    ASSUME NEW S, NEW s \in Seq(S), s # << >>
    PROVE  /\ Head(s) = s[1] /\ Head(s) \in S /\ Tail(s) \in Seq(S)
           /\ Len(s) \in Nat \ {0} /\ Len(Tail(s)) = Len(s) - 1
           /\ \A i \in 1..Len(Tail(s)) : i + 1 \in 1..Len(s) /\ Tail(s)[i] = s[i + 1]
<1>1. /\ Head(s) = s[1] /\ Head(s) \in S /\ Tail(s) \in Seq(S)
      /\ Len(s) \in Nat \ {0} /\ Len(Tail(s)) = Len(s) - 1
  BY HeadTailProperties, EmptySeq, LenProperties
<1>2. \A i \in 1..Len(Tail(s)) : i + 1 \in 1..Len(s) /\ Tail(s)[i] = s[i + 1]
  BY <1>1, HeadTailProperties
<1> QED
  BY <1>1, <1>2

(* The steps of a reader that is not in a flight keep the types.                   *)
LEMMA ReaderKeepsTypes ==
    ASSUME SplitTypes, Holds, OneFlight, NEW c \in Conns,
           Split!Call(c) \/ Split!Poll(c) \/ Split!Return(c) \/ Split!Do(c)
    PROVE  SplitTypes' /\ Holds' /\ OneFlight'
<1> USE SplitConstants
    DEF SplitTypes, Holds, OneFlight, Conns, Labels, Flying, Split!Goto, Split!Put
<1>1. CASE Split!Call(c)
  BY <1>1 DEF Split!Call
<1>2. CASE Split!Poll(c)
  <2>1. CASE queue[c] # << >>
    <3>1. /\ Head(queue[c]) \in Bufs /\ Tail(queue[c]) \in Seq(Bufs)
          /\ Len(Tail(queue[c])) = Len(queue[c]) - 1 /\ Len(queue[c]) \in Nat
      BY <2>1, Taken
    <3>2. /\ held' = [held EXCEPT ![c] = Head(queue[c])]
          /\ queue' = [queue EXCEPT ![c] = Tail(queue[c])]
          /\ pc[c] = "top" /\ pc' = [pc EXCEPT ![c] = "took"]
          /\ UNCHANGED <<contents, pool, late>>
      BY <1>2, <2>1 DEF Split!Poll
    <3>3. SplitTypes'
      BY <3>1, <3>2
    <3>4. Holds' /\ OneFlight'
      BY <3>1, <3>2
    <3> QED
      BY <3>3, <3>4
  <2>2. CASE queue[c] = << >>
    <3>1. pc[c] = "top" /\ pc' = [pc EXCEPT ![c] = "do"]
          /\ UNCHANGED <<queue, held, contents, pool, late>>
      BY <1>2, <2>2 DEF Split!Poll
    <3>2. SplitTypes'
      BY <3>1
    <3>3. Holds' /\ OneFlight'
      BY <3>1
    <3> QED
      BY <3>2, <3>3
  <2> QED
    BY <2>1, <2>2
<1>3. CASE Split!Return(c)
  BY <1>3 DEF Split!Return
<1>4. CASE Split!Do(c)
  <2>1. CASE Split!InFlight
    BY <1>4, <2>1 DEF Split!Do
  <2>2. CASE ~Split!InFlight
    <3>1. PICK b \in Bufs : held' = [held EXCEPT ![c] = b] /\ pool' = pool \ {b}
      BY <1>4, <2>2 DEF Split!Do
    <3>2. pc' = [pc EXCEPT ![c] = "lead"] /\ UNCHANGED <<queue, contents, late>>
      BY <1>4, <2>2 DEF Split!Do
    <3>3. SplitTypes'
      BY <3>1, <3>2
    <3>4. Holds'
      BY <3>1, <3>2
    <3>5. OneFlight'
      BY <2>2, <3>2 DEF Split!InFlight
    <3> QED
      BY <3>3, <3>4, <3>5
  <2> QED
    BY <2>1, <2>2
<1> QED
  BY <1>1, <1>2, <1>3, <1>4

(* So do the steps of a flight.                                                     *)
LEMMA FlightKeepsTypes ==
    ASSUME SplitTypes, Holds, OneFlight, NEW c \in Conns,
           Split!Deliver(c) \/ Split!Fail(c) \/ \E p \in Packets : Split!Arrive(c, p)
    PROVE  SplitTypes' /\ Holds' /\ OneFlight'
<1> USE SplitConstants
    DEF SplitTypes, Holds, OneFlight, Conns, Labels, Flying, Split!Goto, Split!Put
<1>1. CASE \E p \in Packets : Split!Arrive(c, p)
  BY <1>1 DEF Split!Arrive
<1>2. CASE Split!Fail(c)
  BY <1>2 DEF Split!Fail
<1>3. CASE Split!Deliver(c)
  <2> DEFINE d == Head(Split!Accepting(contents[held[c]]))
  <2>1. held[c] \in Bufs /\ pc[c] = "filled"
    BY <1>3 DEF Split!Deliver
  <2>2. queue' \in [Conns -> Seq(Bufs)] /\ \A e \in Conns : Len(queue'[e]) <= Cap
    <3>1. \/ UNCHANGED queue
          \/ Len(queue[d]) < Cap /\ queue' = [queue EXCEPT ![d] = Append(@, held[c])]
      BY <1>3 DEF Split!Deliver
    <3> HIDE DEF d
    <3>2. \A e \in Conns : /\ Append(queue[e], held[c]) \in Seq(Bufs)
                           /\ Len(Append(queue[e], held[c])) = Len(queue[e]) + 1
                           /\ Len(queue[e]) \in Nat
      BY <2>1, Appended
    <3>3. \A e \in Conns : \/ queue'[e] = queue[e]
                           \/ /\ Len(queue[e]) < Cap
                              /\ queue'[e] = Append(queue[e], held[c])
      BY <3>1
    <3>4. DOMAIN queue' = Conns /\ queue' = [e \in Conns |-> queue'[e]]
      BY <3>1
    <3>5. \A e \in Conns : queue'[e] \in Seq(Bufs) /\ Len(queue'[e]) <= Cap
      <4> SUFFICES ASSUME NEW e \in Conns
                   PROVE  queue'[e] \in Seq(Bufs) /\ Len(queue'[e]) <= Cap
        OBVIOUS
      <4>1. CASE queue'[e] = queue[e]
        BY <4>1
      <4>2. CASE Len(queue[e]) < Cap /\ queue'[e] = Append(queue[e], held[c])
        BY <3>2, <4>2
      <4> QED
        BY <3>3, <4>1, <4>2
    <3> QED
      BY <3>4, <3>5
  <2>3. pool' \subseteq Bufs
    BY <1>3, <2>1 DEF Split!Deliver
  <2> QED
    BY <1>3, <2>1, <2>2, <2>3 DEF Split!Deliver, Split!Land
<1> QED
  BY <1>1, <1>2, <1>3

-----------------------------------------------------------------------------
(* The split connection: buffers *)

\* A buffer is in one place: in one queue once, with one reader, or in the pool.
Lies(b, c) == \E i \in 1..Len(queue[c]) : queue[c][i] = b
HeldOnce ==
    \A c \in Conns : held[c] # None =>
        /\ held[c] \notin pool
        /\ \A d \in Conns : ~Lies(held[c], d) /\ (held[d] = held[c] => d = c)
QueuedOnce ==
    \A c, d \in Conns : \A i \in 1..Len(queue[c]), j \in 1..Len(queue[d]) :
        queue[c][i] = queue[d][j] => c = d /\ i = j
PooledOnce == \A c \in Conns : \A b \in pool : ~Lies(b, c)
OnePlace == HeldOnce /\ QueuedOnce /\ PooledOnce

\* A packet waits in the queue of the child that it is for.
For(b, c) ==
    LET accepting == Split!Accepting(contents[b])
    IN  accepting # << >> /\ Head(accepting) = c
Sorted ==
    \A c \in Conns :
        /\ pc[c] = "took" => For(held[c], c)
        /\ \A i \in 1..Len(queue[c]) : For(queue[c][i], c)

(* The first of a queue moves into the hands of its reader.                        *)
LEMMA TakeKeepsPlace ==
    ASSUME SplitTypes, OnePlace, NEW c \in Conns, held[c] = None, queue[c] # << >>,
           held' = [held EXCEPT ![c] = Head(queue[c])],
           queue' = [queue EXCEPT ![c] = Tail(queue[c])], pool' = pool
    PROVE  OnePlace'
<1>0. PICK b \in Bufs : b = queue[c][1]
  BY Taken DEF SplitTypes
<1>1. /\ Head(queue[c]) = b /\ 1 \in 1..Len(queue[c])
      /\ Len(Tail(queue[c])) = Len(queue[c]) - 1 /\ Len(queue[c]) \in Nat
      /\ \A i \in 1..Len(Tail(queue[c])) :
             i + 1 \in 1..Len(queue[c]) /\ i + 1 # 1 /\ Tail(queue[c])[i] = queue[c][i + 1]
  BY <1>0, Taken DEF SplitTypes
<1>2. /\ \A d \in Conns : held'[d] = IF d = c THEN b ELSE held[d]
      /\ \A d \in Conns : queue'[d] = IF d = c THEN Tail(queue[c]) ELSE queue[d]
  BY <1>1 DEF SplitTypes
<1>3. \A e \in Conns : \A i \in 1..Len(queue'[e]) :
          \E j \in 1..Len(queue[e]) : /\ queue'[e][i] = queue[e][j]
                                      /\ j = IF e = c THEN i + 1 ELSE i
  BY <1>1, <1>2
<1>4. \A x, e : e \in Conns /\ Lies(x, e)' => Lies(x, e)
  BY <1>3 DEF Lies
<1>5. Lies(b, c) /\ \A e \in Conns : ~Lies(b, e)'
  <2>1. Lies(b, c)
    BY <1>0, <1>1 DEF Lies
  <2>2. ASSUME NEW e \in Conns, NEW i \in 1..Len(queue'[e]), queue'[e][i] = b
        PROVE  FALSE
    <3>1. PICK j \in 1..Len(queue[e]) : /\ queue[c][1] = queue[e][j]
                                        /\ j = IF e = c THEN i + 1 ELSE i
      BY <1>0, <1>3, <2>2
    <3>2. e = c /\ j = 1
      BY <1>1, <3>1 DEF OnePlace, QueuedOnce
    <3> QED
      BY <3>1, <3>2
  <2> QED
    BY <2>1, <2>2 DEF Lies
<1>6. QueuedOnce'
  <2>1. ASSUME NEW d \in Conns, NEW e \in Conns, NEW i \in 1..Len(queue'[d]),
               NEW j \in 1..Len(queue'[e]), queue'[d][i] = queue'[e][j]
        PROVE  d = e /\ i = j
    <3>1. PICK k \in 1..Len(queue[d]) : /\ queue'[d][i] = queue[d][k]
                                        /\ k = IF d = c THEN i + 1 ELSE i
      BY <1>3
    <3>2. PICK l \in 1..Len(queue[e]) : /\ queue'[e][j] = queue[e][l]
                                        /\ l = IF e = c THEN j + 1 ELSE j
      BY <1>3
    <3>3. d = e /\ k = l
      BY <2>1, <3>1, <3>2 DEF OnePlace, QueuedOnce
    <3> QED
      BY <3>1, <3>2, <3>3
  <2> QED
    BY <2>1 DEF QueuedOnce
<1>7. HeldOnce'
  <2>1. b \notin pool
    BY <1>5 DEF OnePlace, PooledOnce
  <2>2. \A d \in Conns : held[d] # b \/ held[d] = None
    BY <1>5 DEF OnePlace, HeldOnce
  <2>3. b # None
    BY <1>1, SplitConstants
  <2>4. ASSUME NEW d \in Conns, held'[d] # None
        PROVE  /\ held'[d] \notin pool
               /\ \A e \in Conns : ~Lies(held[d], e)' /\ (held'[e] = held'[d] => e = d)
    <3>1. CASE d = c
      <4>1. held'[d] = b
        BY <1>2, <3>1
      <4>2. \A e \in Conns : ~Lies(held[d], e)'
        BY <1>5, <4>1 DEF Lies
      <4> QED
        BY <1>2, <2>1, <2>2, <2>3, <3>1, <4>1, <4>2
    <3>2. CASE d # c
      <4>1. held'[d] = held[d] /\ held[d] # b
        BY <1>2, <2>2, <2>4, <3>2
      <4>2. \A e \in Conns : ~Lies(held[d], e) /\ (held[e] = held[d] => e = d)
        BY <2>4, <4>1 DEF OnePlace, HeldOnce
      <4>3. held[d] \notin pool
        BY <2>4, <4>1 DEF OnePlace, HeldOnce
      <4>4. \A e \in Conns : ~Lies(held[d], e)'
        BY <1>4, <4>1, <4>2 DEF Lies
      <4> QED
        BY <1>2, <4>1, <4>2, <4>3, <4>4
    <3> QED
      BY <3>1, <3>2
  <2> QED
    BY <2>4 DEF HeldOnce
<1>8. PooledOnce'
  BY <1>4 DEF OnePlace, PooledOnce
<1> QED
  BY <1>6, <1>7, <1>8 DEF OnePlace

(* A buffer is put back, or dropped.                                                *)
LEMMA GiveKeepsPlace ==
    ASSUME SplitTypes, OnePlace, NEW c \in Conns, held[c] # None,
           held' = [held EXCEPT ![c] = None], queue' = queue,
           pool' = pool \/ pool' = pool \cup {held[c]}
    PROVE  OnePlace'
<1>1. \A d \in Conns : held'[d] = IF d = c THEN None ELSE held[d]
  BY DEF SplitTypes
<1>2. \A x, e : Lies(x, e)' <=> Lies(x, e)
  BY DEF Lies
<1>3. QueuedOnce'
  BY DEF OnePlace, QueuedOnce
<1>4. HeldOnce'
  BY <1>1, <1>2 DEF OnePlace, HeldOnce
<1>5. PooledOnce'
  BY <1>2 DEF OnePlace, HeldOnce, PooledOnce
<1> QED
  BY <1>3, <1>4, <1>5 DEF OnePlace

(* The leader of a flight gets one that was put back or that nobody has.           *)
LEMMA GetKeepsPlace ==
    ASSUME SplitTypes, OnePlace, NEW c \in Conns, held[c] = None, NEW b \in Bufs,
           Split!Get(b), held' = [held EXCEPT ![c] = b], queue' = queue, pool' = pool \ {b}
    PROVE  OnePlace'
<1>1. \A d \in Conns : ~Lies(b, d) /\ held[d] # b
  <2>1. CASE pool # {}
    <3>1. b \in pool
      BY <2>1 DEF Split!Get
    <3> QED
      BY <3>1, SplitConstants DEF OnePlace, PooledOnce, HeldOnce
  <2>2. CASE pool = {}
    <3>1. b \notin Split!InUse
      BY <2>2 DEF Split!Get
    <3>2. \A d \in Conns : \A i \in 1..Len(queue[d]) : queue[d][i] \in Split!Range(queue[d])
      BY DEF Split!Range, SplitTypes
    <3> QED
      BY <3>1, <3>2 DEF Split!InUse, Lies, Conns
  <2> QED
    BY <2>1, <2>2
<1>2. \A d \in Conns : held'[d] = IF d = c THEN b ELSE held[d]
  BY DEF SplitTypes
<1>3. \A x, e : Lies(x, e)' <=> Lies(x, e)
  BY DEF Lies
<1>4. QueuedOnce'
  BY DEF OnePlace, QueuedOnce
<1>5. HeldOnce'
  BY <1>1, <1>2, <1>3 DEF OnePlace, HeldOnce
<1>6. PooledOnce'
  BY <1>3 DEF OnePlace, PooledOnce
<1> QED
  BY <1>4, <1>5, <1>6 DEF OnePlace

(* The leader's buffer goes to the end of a queue.                                  *)
LEMMA QueueKeepsPlace ==
    ASSUME SplitTypes, OnePlace, NEW c \in Conns, held[c] # None, NEW d \in Conns,
           held' = [held EXCEPT ![c] = None], pool' = pool,
           queue' = [queue EXCEPT ![d] = Append(queue[d], held[c])]
    PROVE  OnePlace'
<1>1. PICK b \in Bufs : b = held[c]
  BY DEF SplitTypes
<1>2. \A e \in Conns : held'[e] = IF e = c THEN None ELSE held[e]
  BY DEF SplitTypes
<1>3. \A e \in Conns : queue'[e] = IF e = d THEN Append(queue[d], b) ELSE queue[e]
  BY <1>1 DEF SplitTypes
<1>4. /\ Len(queue[d]) \in Nat /\ Len(Append(queue[d], b)) = Len(queue[d]) + 1
      /\ Append(queue[d], b)[Len(queue[d]) + 1] = b
      /\ \A i \in 1..Len(queue[d]) : Append(queue[d], b)[i] = queue[d][i]
  BY Appended DEF SplitTypes
\* What lies in a queue lay there before, at the same place, or is the buffer.
<1>5. ASSUME NEW e \in Conns, NEW i \in 1..Len(queue'[e])
      PROVE  \/ i \in 1..Len(queue[e]) /\ queue'[e][i] = queue[e][i]
             \/ e = d /\ i = Len(queue[d]) + 1 /\ queue'[e][i] = b
  <2>1. CASE e # d
    BY <1>3, <1>5, <2>1
  <2>2. CASE e = d
    <3>1. queue'[e] = Append(queue[d], b)
      BY <1>3, <2>2
    <3>2. i \in 1..(Len(queue[d]) + 1)
      BY <1>4, <1>5, <3>1
    <3> QED
      BY <1>4, <2>2, <3>1, <3>2
  <2> QED
    BY <2>1, <2>2
<1>6. /\ b \notin pool /\ \A e \in Conns : ~Lies(b, e)
      /\ \A e \in Conns : held[e] = b => e = c
  <2>1. held[c] \notin pool /\ \A e \in Conns : ~Lies(held[c], e) /\ (held[e] = held[c] => e = c)
    BY DEF OnePlace, HeldOnce
  <2> QED
    BY <1>1, <2>1 DEF Lies
<1>7. \A x, e : e \in Conns /\ Lies(x, e)' => Lies(x, e) \/ x = b
  BY <1>5 DEF Lies
<1>8. QueuedOnce'
  <2>1. ASSUME NEW e \in Conns, NEW f \in Conns, NEW i \in 1..Len(queue'[e]),
               NEW j \in 1..Len(queue'[f]), queue'[e][i] = queue'[f][j]
        PROVE  e = f /\ i = j
    <3>1. CASE /\ i \in 1..Len(queue[e]) /\ queue'[e][i] = queue[e][i]
               /\ j \in 1..Len(queue[f]) /\ queue'[f][j] = queue[f][j]
      BY <2>1, <3>1 DEF OnePlace, QueuedOnce
    <3>2. CASE i \in 1..Len(queue[e]) /\ queue'[e][i] = queue[e][i] /\ queue'[f][j] = b
      BY <1>6, <2>1, <3>2 DEF Lies
    <3>3. CASE j \in 1..Len(queue[f]) /\ queue'[f][j] = queue[f][j] /\ queue'[e][i] = b
      BY <1>6, <2>1, <3>3 DEF Lies
    <3>4. CASE e = d /\ f = d /\ i = Len(queue[d]) + 1 /\ j = Len(queue[d]) + 1
      BY <3>4
    <3> QED
      BY <1>5, <3>1, <3>2, <3>3, <3>4
  <2> QED
    BY <2>1 DEF QueuedOnce
<1>9. HeldOnce'
  <2>1. ASSUME NEW e \in Conns, held'[e] # None
        PROVE  /\ held'[e] \notin pool
               /\ \A f \in Conns : ~Lies(held[e], f)' /\ (held'[f] = held'[e] => f = e)
    <3>1. e # c /\ held'[e] = held[e] /\ held[e] # b
      BY <1>2, <1>6, <2>1
    <3>2. \A f \in Conns : ~Lies(held[e], f) /\ (held[f] = held[e] => f = e)
      BY <2>1, <3>1 DEF OnePlace, HeldOnce
    <3>3. \A f \in Conns : ~Lies(held[e], f)'
      BY <1>7, <3>1, <3>2 DEF Lies
    <3>4. held[e] \notin pool
      BY <2>1, <3>1 DEF OnePlace, HeldOnce
    <3> QED
      BY <1>2, <2>1, <3>1, <3>2, <3>3, <3>4
  <2> QED
    BY <2>1 DEF HeldOnce
<1>10. PooledOnce'
  BY <1>6, <1>7 DEF OnePlace, PooledOnce
<1> QED
  BY <1>8, <1>9, <1>10 DEF OnePlace

SplitFlag == connClosed \in BOOLEAN
SplitInv == SplitTypes /\ Holds /\ OneFlight /\ OnePlace /\ Sorted

(* No step has a buffer in two places.                                              *)
LEMMA StepKeepsPlace ==
    ASSUME SplitInv, NEW c \in Conns,
           \/ Split!Call(c) \/ Split!Poll(c) \/ Split!Return(c) \/ Split!Do(c)
           \/ Split!Deliver(c) \/ Split!Fail(c) \/ \E p \in Packets : Split!Arrive(c, p)
    PROVE  OnePlace'
<1> USE DEF SplitInv, Split!Goto, Split!Put
<1>0. CASE UNCHANGED <<held, queue, pool>>
  BY <1>0 DEF OnePlace, HeldOnce, QueuedOnce, PooledOnce, Lies
<1>1. CASE Split!Call(c) \/ \E p \in Packets : Split!Arrive(c, p)
  BY <1>0, <1>1 DEF Split!Call, Split!Arrive
<1>2. CASE Split!Poll(c)
  <2>1. held[c] = None
    BY <1>2 DEF Split!Poll, Holds, Flying
  <2> QED
    BY <1>0, <1>2, <2>1, TakeKeepsPlace DEF Split!Poll
<1>3. CASE Split!Return(c) \/ Split!Fail(c)
  <2>1. held[c] # None
    BY <1>3 DEF Split!Return, Split!Fail, Holds, Flying
  <2> QED
    BY <1>3, <2>1, GiveKeepsPlace DEF Split!Return, Split!Fail
<1>4. CASE Split!Do(c)
  <2>1. held[c] = None
    BY <1>4 DEF Split!Do, Holds, Flying
  <2> QED
    BY <1>0, <1>4, <2>1, GetKeepsPlace DEF Split!Do
<1>5. CASE Split!Deliver(c)
  <2> DEFINE d == Head(Split!Accepting(contents[held[c]]))
  <2>1. held[c] # None
    BY <1>5 DEF Split!Deliver, Holds, Flying
  <2>2. /\ held' = [held EXCEPT ![c] = None]
        /\ \/ UNCHANGED <<queue, pool>>
           \/ UNCHANGED queue /\ pool' = pool \cup {held[c]}
           \/ UNCHANGED pool /\ queue' = [queue EXCEPT ![d] = Append(queue[d], held[c])]
    BY <1>5 DEF Split!Deliver
  <2> HIDE DEF d
  <2>3. CASE UNCHANGED queue
    BY <2>1, <2>2, <2>3, GiveKeepsPlace
  <2>4. CASE queue' # queue
    <3>1. d \in Conns
      BY <2>2, <2>4 DEF SplitTypes
    <3> QED
      BY <2>1, <2>2, <2>4, <3>1, QueueKeepsPlace
  <2> QED
    BY <2>3, <2>4
<1> QED
  BY <1>1, <1>2, <1>3, <1>4, <1>5

(* A packet stays with the child that it is for: its buffer is in one place, and the      *)
(* leader writes into one that it holds itself.                                         *)
LEMMA StepKeepsSorted ==
    ASSUME SplitInv, NEW c \in Conns,
           \/ Split!Call(c) \/ Split!Poll(c) \/ Split!Return(c) \/ Split!Do(c)
           \/ Split!Deliver(c) \/ Split!Fail(c) \/ \E p \in Packets : Split!Arrive(c, p)
    PROVE  Sorted'
<1> USE DEF SplitInv, SplitTypes, Split!Goto, Conns
\* The labels that other readers may get, and their buffers.
<1>1. \A d \in Conns : d # c => /\ held'[d] = held[d]
                                /\ pc'[d] = "took" => pc[d] = "took"
  BY DEF Split!Call, Split!Poll, Split!Return, Split!Do, Split!Deliver, Split!Fail,
     Split!Arrive, Split!Land
<1>2. CASE \/ Split!Call(c) \/ Split!Poll(c) \/ Split!Return(c) \/ Split!Do(c)
           \/ Split!Deliver(c) \/ Split!Fail(c)
  <2>1. UNCHANGED contents
    BY <1>2 DEF Split!Call, Split!Poll, Split!Return, Split!Do, Split!Deliver, Split!Fail
  <2>2. \A d \in Conns : \A i \in 1..Len(queue'[d]) : For(queue'[d][i], d)
    <3>1. CASE UNCHANGED queue
      BY <3>1 DEF Sorted
    <3>2. CASE Split!Poll(c) /\ queue[c] # << >>
      <4>1. /\ queue' = [queue EXCEPT ![c] = Tail(queue[c])]
            /\ \A i \in 1..Len(Tail(queue[c])) :
                   i + 1 \in 1..Len(queue[c]) /\ Tail(queue[c])[i] = queue[c][i + 1]
        BY <3>2, Taken DEF Split!Poll
      <4> QED
        BY <4>1 DEF Sorted
    <3>3. CASE Split!Deliver(c) /\ queue' # queue
      <4> DEFINE h == Head(Split!Accepting(contents[held[c]]))
      <4>1. For(held[c], h) /\ queue' = [queue EXCEPT ![h] = Append(queue[h], held[c])]
        BY <3>3 DEF Split!Deliver, For
      <4>2. held[c] \in Bufs
        BY <3>3 DEF Split!Deliver, Holds, Flying
      <4> HIDE DEF h
      <4>3. ASSUME NEW d \in Conns, NEW i \in 1..Len(queue'[d])
            PROVE  For(queue'[d][i], d)
        <5>1. CASE d # h
          BY <4>1, <4>3, <5>1 DEF Sorted
        <5>2. CASE d = h
          <6>1. queue'[d] = Append(queue[d], held[c])
            BY <4>1, <5>2
          <6>2. CASE i \in 1..Len(queue[d])
            BY <4>2, <6>1, <6>2, Appended DEF Sorted
          <6>3. CASE i = Len(queue[d]) + 1
            BY <4>1, <4>2, <5>2, <6>1, <6>3, Appended
          <6> QED
            BY <4>2, <4>3, <6>1, <6>2, <6>3, Appended
        <5> QED
          BY <5>1, <5>2
      <4> QED
        BY <4>3
    <3> QED
      BY <1>2, <3>1, <3>2, <3>3 DEF Split!Call, Split!Poll, Split!Return, Split!Do, Split!Fail
  <2>3. pc'[c] = "took" => For(held'[c], c)
    <3>1. ASSUME pc'[c] = "took" PROVE Split!Poll(c) /\ queue[c] # << >>
      BY <1>2, <3>1 DEF Split!Call, Split!Poll, Split!Return, Split!Do, Split!Deliver,
         Split!Fail, Split!Land
    <3>2. ASSUME Split!Poll(c), queue[c] # << >> PROVE For(held'[c], c)
      <4>1. held'[c] = queue[c][1] /\ 1 \in 1..Len(queue[c])
        BY <3>2, Taken DEF Split!Poll
      <4> QED
        BY <4>1 DEF Sorted
    <3> QED
      BY <3>1, <3>2
  <2>4. \A d \in Conns : /\ pc'[d] = "took" => For(held'[d], d)
                         /\ \A i \in 1..Len(queue'[d]) : For(queue'[d][i], d)
    <3>1. \A d \in Conns : d # c /\ pc'[d] = "took" => For(held'[d], d)
      BY <1>1 DEF Sorted
    <3> QED
      BY <2>2, <2>3, <3>1
  <2> QED
    BY <2>1, <2>4 DEF Sorted, For
<1>3. CASE \E p \in Packets : Split!Arrive(c, p)
  <2>1. PICK p \in Packets : contents' = [contents EXCEPT ![held[c]] = p]
    BY <1>3 DEF Split!Arrive
  <2>2. pc[c] = "lead" /\ pc'[c] = "filled" /\ held[c] # None /\ UNCHANGED <<held, queue>>
    BY <1>3 DEF Split!Arrive, Holds, Flying
  <2>3. \A b, d : b \in Bufs /\ b # held[c] /\ For(b, d) => For(b, d)'
    BY <2>1 DEF For
  <2>4. \A d \in Conns : \A i \in 1..Len(queue[d]) :
            queue[d][i] \in Bufs /\ queue[d][i] # held[c]
    BY <2>2 DEF OnePlace, HeldOnce, Lies
  <2>5. \A d \in Conns : pc'[d] = "took" => /\ pc[d] = "took" /\ held[d] \in Bufs
                                            /\ held[d] # held[c]
    BY <1>1, <2>2 DEF OnePlace, HeldOnce, Holds
  <2> QED
    BY <2>2, <2>3, <2>4, <2>5 DEF Sorted, For
<1> QED
  BY <1>2, <1>3

LEMMA SplitInvKept ==
    SplitInv /\ SplitFlag /\ [Split!Next]_(Split!vars)
        => SplitInv' /\ SplitFlag'
<1> SUFFICES ASSUME SplitInv, SplitFlag, [Split!Next]_(Split!vars)
             PROVE  SplitInv' /\ SplitFlag'
  OBVIOUS
<1>1. ASSUME NEW c \in Conns,
             \/ Split!Call(c) \/ Split!Poll(c) \/ Split!Return(c) \/ Split!Do(c)
             \/ Split!Deliver(c) \/ Split!Fail(c) \/ \E p \in Packets : Split!Arrive(c, p)
      PROVE  SplitInv' /\ SplitFlag'
  <2>1. SplitTypes' /\ Holds' /\ OneFlight'
    BY <1>1, ReaderKeepsTypes, FlightKeepsTypes DEF SplitInv
  <2>2. OnePlace' /\ Sorted'
    BY <1>1, StepKeepsPlace, StepKeepsSorted
  <2>3. UNCHANGED connClosed
    BY <1>1 DEF Split!Call, Split!Poll, Split!Return, Split!Do, Split!Deliver, Split!Fail,
       Split!Arrive
  <2> QED
    BY <2>1, <2>2, <2>3 DEF SplitInv, SplitFlag
<1>2. ASSUME UNCHANGED <<pc, queue, held, contents, pool>>, late' \in 0..Late
      PROVE  SplitInv'
  <2>1. SplitTypes' /\ Holds' /\ OneFlight'
    BY <1>2 DEF SplitInv, SplitTypes, Holds, OneFlight
  <2>2. OnePlace'
    BY <1>2 DEF SplitInv, OnePlace, HeldOnce, QueuedOnce, PooledOnce, Lies
  <2>3. Sorted'
    BY <1>2 DEF SplitInv, Sorted, For
  <2> QED
    BY <2>1, <2>2, <2>3 DEF SplitInv
<1>3. CASE Split!Close
  <2>1. SplitInv'
    BY <1>2, <1>3 DEF Split!Close
  <2> QED
    BY <1>3, <2>1, Zenon DEF Split!Close, SplitFlag
<1>4. CASE UNCHANGED Split!vars
  <2>1. SplitInv'
    BY <1>2, <1>4 DEF Split!vars, SplitInv, SplitTypes
  <2> QED
    BY <1>4, <2>1 DEF Split!vars, SplitFlag
<1> QED
  BY <1>1, <1>3, <1>4 DEF Split!Next, Split!Reader, Split!Packet, Conns

(* A read returns a packet of its own child from a buffer that nobody has written since,    *)
(* the queues stay within their capacity, and one goroutine at a time reads the              *)
(* connection, for any children and filters and any number of buffers                      *)
(* (splitconn.go:63-90).                                                                  *)
THEOREM PacketsReadIntact == Split!Spec => []ReadIntact
<1>1. Split!Init => SplitInv /\ SplitFlag
  <2> SUFFICES ASSUME Split!Init PROVE SplitInv /\ SplitFlag
    OBVIOUS
  <2>1. SplitFlag
    BY Zenon DEF Split!Init, SplitFlag
  <2>2. \A c \in Conns : pc[c] = "idle" /\ held[c] = None /\ queue[c] = << >> /\ Len(queue[c]) = 0
    BY DEF Split!Init, Conns
  <2>3. SplitTypes
    BY <2>2, SplitConstants DEF Split!Init, SplitTypes, Conns, Labels
  <2>4. Holds /\ OneFlight
    BY <2>2 DEF Holds, OneFlight, Flying
  <2>5. OnePlace
    BY <2>2 DEF Split!Init, OnePlace, HeldOnce, QueuedOnce, PooledOnce
  <2>6. Sorted
    BY <2>2 DEF Sorted
  <2> QED
    BY <2>1, <2>3, <2>4, <2>5, <2>6 DEF SplitInv
<1>2. SplitInv /\ SplitFlag => ReadIntact
  <2> SUFFICES ASSUME SplitInv, SplitFlag PROVE ReadIntact
    OBVIOUS
  <2>1. Split!ReadIntact
    BY DEF SplitInv, Sorted, For, Split!ReadIntact, Conns
  <2>2. \A c, d \in Conns : {pc[c], pc[d]} \subseteq {"lead", "filled"} => c = d
    BY DEF SplitInv, OneFlight, Flying
  <2>3. \A c \in Conns : Split!Range(queue[c]) \subseteq Bufs
    BY DEF SplitInv, SplitTypes, Split!Range
  <2>4. Split!TypeOK
    BY <2>2, <2>3 DEF SplitFlag, SplitInv, SplitTypes, Split!TypeOK, Conns, Labels
  <2> QED
    BY <2>1, <2>4 DEF ReadIntact
<1> QED
  BY <1>1, <1>2, SplitInvKept, PTL DEF Split!Spec

-----------------------------------------------------------------------------
(* The receivers *)

Link == [name : Ifaces, idx : 1..MaxIndex]
FnLabels == {"none", "new", "recv", "exit"}
WatcherLabels == {"none", "start", "select", "check", "close", "detached", "unsubscribe", "left",
                  "closed"}

WorldTypes ==
    /\ index \in [Ifaces -> 0..MaxIndex] /\ made \in 0..MaxIndex /\ fails \in 0..MaxFails
    /\ refresh \in [at : {"idle", "wake", "run"}, todo : SUBSET Recvs, waking : SUBSET Recvs,
                    ifaces : SUBSET Link]
    /\ subscribed \subseteq Recvs /\ ch \in [Recvs -> 0..1]

RecvTypes ==
    /\ set \subseteq Ifaces
    /\ fn \in [Recvs -> FnLabels] /\ watcher \in [Recvs -> WatcherLabels]
    /\ iface \in [Recvs -> [name : Ifaces \cup {"none"}, idx : 0..MaxIndex]]
    /\ attached \subseteq Recvs /\ ended \subseteq Recvs

\* The group has the interface of every goroutine, and one goroutine of every interface.
OneEach ==
    /\ \A r \in Recvs : fn[r] # "none" => iface[r].name \in set
    /\ \A r, q \in Recvs :
           fn[r] # "none" /\ fn[q] # "none" /\ iface[r].name = iface[q].name => r = q

\* A program is attached only while its goroutine receives, and Recv is told of the end
\* after the program is detached; a goroutine that is new has no watcher yet.
EndsDetached ==
    /\ \A r \in Recvs : fn[r] = "new" => watcher[r] = "none"
    /\ \A r \in Recvs : watcher[r] = "none" => r \notin ended
    /\ \A r \in attached : fn[r] = "recv" /\ r \notin ended

RecvInv == RecvTypes /\ OneEach /\ EndsDetached

(* A step of the kernel, of Refresh, or of Close leaves the receivers as they are, or      *)
(* makes one that has none of an earlier one left.                                         *)
LEMMA RefreshKeepsInv ==
    ASSUME XDP!Assumption, WorldTypes, RecvInv,
           \/ \E i \in Ifaces : XDP!LinkAdd(i) \/ XDP!LinkDelete(i)
           \/ XDP!Refresher \/ XDP!Close \/ XDP!LastToken
    PROVE  WorldTypes' /\ RecvInv'
<1> USE DEF XDP!Assumption, RecvInv
<1>1. ASSUME UNCHANGED <<set, fn, watcher, iface, attached, ended>> PROVE RecvInv'
  BY <1>1 DEF RecvTypes, OneEach, EndsDetached
<1>2. CASE (\E i \in Ifaces : XDP!LinkAdd(i) \/ XDP!LinkDelete(i)) \/ XDP!Close \/ XDP!LastToken
  <2>1. /\ UNCHANGED <<set, fn, watcher, iface, attached, ended, refresh, subscribed, ch, fails>>
        /\ index' \in [Ifaces -> 0..MaxIndex] /\ made' \in 0..MaxIndex
    BY <1>2 DEF XDP!LinkAdd, XDP!LinkDelete, XDP!Close, XDP!LastToken, XDP!recv,
       XDP!alarm, WorldTypes
  <2> QED
    BY <1>1, <2>1 DEF WorldTypes
<1>3. CASE \/ XDP!StartRefresh \/ XDP!List \/ XDP!Refreshed
           \/ \E r \in Recvs : XDP!Visit(r) \/ XDP!Wake(r)
           \/ \E f \in refresh.ifaces : XDP!RunAgain(f)
  <2>1. UNCHANGED <<set, fn, watcher, iface, attached, ended, subscribed, index, made>>
    BY <1>3 DEF XDP!StartRefresh, XDP!List, XDP!Refreshed, XDP!Visit, XDP!Wake, XDP!RunAgain,
       XDP!recv, XDP!alarm, XDP!world, XDP!Failing
  <2>2. XDP!There \subseteq Link
    BY DEF XDP!There, Link, WorldTypes
  <2>3. XDP!Idle \in [at : {"idle", "wake", "run"}, todo : SUBSET Recvs, waking : SUBSET Recvs,
                      ifaces : SUBSET Link]
    BY DEF XDP!Idle
  <2>4. fails' \in 0..MaxFails /\ ch' \in [Recvs -> 0..1]
    <3>1. /\ fails' = fails \/ (fails < MaxFails /\ fails' = fails + 1)
          /\ ch' = ch \/ \E r \in Recvs : ch' = [ch EXCEPT ![r] = 1]
      BY <1>3 DEF XDP!StartRefresh, XDP!List, XDP!Refreshed, XDP!Visit, XDP!Wake,
         XDP!RunAgain, XDP!recv, XDP!alarm, XDP!world, XDP!Failing
    <3> QED
      BY <3>1 DEF WorldTypes
  <2>5. refresh' \in [at : {"idle", "wake", "run"}, todo : SUBSET Recvs, waking : SUBSET Recvs,
                      ifaces : SUBSET Link]
    <3>1. CASE XDP!StartRefresh
      BY <2>3, <3>1 DEF XDP!StartRefresh, WorldTypes
    <3>2. CASE XDP!List
      BY <2>2, <2>3, <3>2 DEF XDP!List, WorldTypes
    <3>3. CASE XDP!Refreshed
      BY <2>3, <3>3 DEF XDP!Refreshed
    <3>4. CASE \E r \in Recvs : XDP!Visit(r) \/ XDP!Wake(r)
      <4>1. \E r \in Recvs :
                \/ refresh' = [refresh EXCEPT !.waking = {}]
                \/ refresh' = [refresh EXCEPT !.todo = @ \ {r}, !.waking = {r}]
                \/ refresh' = [refresh EXCEPT !.todo = @ \ {r}, !.waking = {}]
        BY <3>4 DEF XDP!Visit, XDP!Wake
      <4> DEFINE AtRefresh == [at : {"idle", "wake", "run"}, todo : SUBSET Recvs,
                            waking : SUBSET Recvs, ifaces : SUBSET Link]
      <4>2. PICK r \in Recvs :
                \/ refresh' = [refresh EXCEPT !.waking = {}]
                \/ refresh' = [refresh EXCEPT !.todo = @ \ {r}, !.waking = {r}]
                \/ refresh' = [refresh EXCEPT !.todo = @ \ {r}, !.waking = {}]
        BY <4>1
      <4>3. refresh \in AtRefresh
        BY DEF WorldTypes
      <4>4. [refresh EXCEPT !.waking = {}] \in AtRefresh
        BY <4>3
      <4>5. ASSUME NEW w \in SUBSET Recvs
            PROVE  [refresh EXCEPT !.todo = @ \ {r}, !.waking = w] \in AtRefresh
        BY <4>3
      <4>6. {} \in SUBSET Recvs /\ {r} \in SUBSET Recvs
        OBVIOUS
      <4> HIDE DEF AtRefresh
      <4>7. refresh' \in AtRefresh
        BY <4>2, <4>4, <4>5, <4>6
      <4> QED
        BY <4>7 DEF AtRefresh
    <3>5. CASE \E f \in refresh.ifaces : XDP!RunAgain(f)
      BY <3>5 DEF XDP!RunAgain, WorldTypes
    <3> QED
      BY <1>3, <3>1, <3>2, <3>3, <3>4, <3>5
  <2> QED
    BY <1>1, <2>1, <2>4, <2>5 DEF WorldTypes
<1>4. CASE XDP!Panic
  <2>1. /\ set' = {} /\ attached' = {} /\ ended' = {} /\ subscribed' = {}
        /\ fn' = [r \in Recvs |-> "none"] /\ watcher' = [r \in Recvs |-> "none"]
        /\ iface' = [r \in Recvs |-> XDP!NoIface] /\ ch' = [r \in Recvs |-> 0]
        /\ refresh' = XDP!Idle
        /\ UNCHANGED <<index, made, fails>>
    BY <1>4 DEF XDP!Panic, XDP!world
  <2>2. WorldTypes'
    BY <2>1 DEF WorldTypes, XDP!Idle
  <2>3. RecvTypes' /\ OneEach' /\ EndsDetached'
    BY <2>1 DEF RecvTypes, FnLabels, WatcherLabels, XDP!NoIface, OneEach, EndsDetached
  <2> QED
    BY <2>2, <2>3
<1>5. ASSUME NEW f \in refresh.ifaces, NEW r \in Recvs, XDP!Run(f, r)
      PROVE  WorldTypes' /\ RecvInv'
  <2>1. /\ f.name \notin set /\ fn[r] = "none" /\ watcher[r] = "none"
        /\ set' = set \cup {f.name} /\ fn' = [fn EXCEPT ![r] = "new"]
        /\ iface' = [iface EXCEPT ![r] = f]
        /\ refresh' = [refresh EXCEPT !.ifaces = @ \ {f}]
        /\ UNCHANGED <<index, made, fails, watcher, attached, ended, subscribed, ch>>
    BY <1>5 DEF XDP!Run, XDP!Free, XDP!world, XDP!alarm
  <2>2. f \in Link /\ f.name \in Ifaces
    BY DEF WorldTypes, Link
  <2>3. WorldTypes'
    BY <2>1 DEF WorldTypes
  <2>4. RecvTypes'
    BY <2>1, <2>2 DEF RecvTypes, FnLabels, Link
  <2>5. /\ fn'[r] = "new" /\ iface'[r] = f
        /\ \A q \in Recvs : q # r => fn'[q] = fn[q] /\ iface'[q] = iface[q]
    BY <2>1 DEF RecvTypes
  <2>6. OneEach'
    BY <2>1, <2>5 DEF OneEach
  <2>7. EndsDetached'
    BY <2>1, <2>5 DEF EndsDetached
  <2> QED
    BY <2>3, <2>4, <2>6, <2>7
<1> QED
  BY <1>2, <1>3, <1>4, <1>5 DEF XDP!Refresher

(* A step of the goroutine of an interface.                                                *)
LEMMA GoroutineKeepsInv ==
    ASSUME XDP!Assumption, WorldTypes, RecvInv, NEW r \in Recvs, XDP!Goroutine(r)
    PROVE  WorldTypes' /\ RecvInv'
<1> USE DEF XDP!Assumption, RecvInv
<1>1. WorldTypes' /\ UNCHANGED <<iface, ended>>
  BY DEF XDP!Goroutine, XDP!Attach, XDP!AttachFails, XDP!RecvFails, XDP!Exit, XDP!world,
     XDP!alarm, XDP!Failing, WorldTypes
<1>2. CASE XDP!Attach(r)
  <2>1. /\ fn[r] = "new" /\ UNCHANGED set
        /\ attached' = attached \cup {r} /\ fn' = [fn EXCEPT ![r] = "recv"]
        /\ watcher' = [watcher EXCEPT ![r] = "start"]
    BY <1>2 DEF XDP!Attach
  <2>2. RecvTypes'
    BY <1>1, <2>1 DEF RecvTypes, FnLabels, WatcherLabels
  <2>3. OneEach' /\ EndsDetached'
    BY <1>1, <2>1 DEF OneEach, EndsDetached, RecvTypes
  <2> QED
    BY <1>1, <2>2, <2>3
<1>3. CASE XDP!AttachFails(r) \/ XDP!RecvFails(r)
  <2>1. /\ fn[r] # "none" /\ (r \in attached => FALSE) /\ fn' = [fn EXCEPT ![r] = "exit"]
        /\ UNCHANGED <<set, watcher, attached>>
    BY <1>3 DEF XDP!AttachFails, XDP!RecvFails, EndsDetached
  <2>2. RecvTypes'
    BY <1>1, <2>1 DEF RecvTypes, FnLabels
  <2>3. OneEach' /\ EndsDetached'
    BY <1>1, <2>1 DEF OneEach, EndsDetached, RecvTypes
  <2> QED
    BY <1>1, <2>2, <2>3
<1>4. CASE XDP!Exit(r)
  <2>1. /\ fn[r] = "exit" /\ set' = set \ {iface[r].name} /\ fn' = [fn EXCEPT ![r] = "none"]
        /\ UNCHANGED <<watcher, attached>>
    BY <1>4 DEF XDP!Exit
  <2>2. RecvTypes'
    BY <1>1, <2>1 DEF RecvTypes, FnLabels
  <2>3. OneEach' /\ EndsDetached'
    BY <1>1, <2>1 DEF OneEach, EndsDetached, RecvTypes
  <2> QED
    BY <1>1, <2>2, <2>3
<1> QED
  BY <1>2, <1>3, <1>4 DEF XDP!Goroutine

(* A step of the watcher of a receiver.                                                    *)
LEMMA WatcherKeepsInv ==
    ASSUME XDP!Assumption, WorldTypes, RecvInv, NEW r \in Recvs, XDP!Watcher(r)
    PROVE  WorldTypes' /\ RecvInv'
<1> USE DEF XDP!Assumption, RecvInv
<1>1. CASE XDP!Collect(r)
  <2>1. /\ watcher[r] = "closed" /\ fn[r] = "none"
        /\ watcher' = [watcher EXCEPT ![r] = "none"]
        /\ iface' = [iface EXCEPT ![r] = XDP!NoIface]
        /\ ended' = ended \ {r}
        /\ ch' = [ch EXCEPT ![r] = 0]
        /\ refresh' = [refresh EXCEPT !.todo = @ \ {r}]
        /\ UNCHANGED <<index, made, fails, set, fn, attached, subscribed>>
    BY <1>1 DEF XDP!Collect, XDP!world
  <2>2. WorldTypes'
    BY <2>1 DEF WorldTypes
  <2>3. RecvTypes'
    BY <2>1 DEF RecvTypes, WatcherLabels, XDP!NoIface
  <2>4. OneEach' /\ EndsDetached'
    BY <2>1 DEF OneEach, EndsDetached, RecvTypes
  <2> QED
    BY <2>2, <2>3, <2>4
<1>2. ASSUME NEW from \in WatcherLabels \ {"none"}, NEW to \in WatcherLabels \ {"none"},
             XDP!Watching(r, from, to), attached' \subseteq attached,
             ended' = ended \/ (ended' = ended \cup {r} /\ r \notin attached')
      PROVE  RecvInv'
  <2>1. /\ watcher[r] = from /\ watcher' = [watcher EXCEPT ![r] = to]
        /\ UNCHANGED <<set, fn, iface>>
    BY <1>2 DEF XDP!Watching
  <2>2. RecvTypes'
    BY <1>2, <2>1 DEF RecvTypes
  <2>3. OneEach' /\ EndsDetached'
    BY <1>2, <2>1 DEF OneEach, EndsDetached, RecvTypes
  <2> QED
    BY <2>2, <2>3
<1>3. CASE \/ XDP!Subscribe(r) \/ XDP!Woken(r) \/ XDP!SeesClosed(r) \/ XDP!Healthy(r)
           \/ XDP!Unhealthy(r) \/ XDP!Detach(r) \/ XDP!End(r) \/ XDP!Unsubscribe(r)
           \/ XDP!CloseChannel(r)
  <2>1. /\ UNCHANGED <<index, made, refresh>> /\ fails' \in 0..MaxFails
        /\ subscribed' \subseteq Recvs /\ ch' \in [Recvs -> 0..1]
    BY <1>3 DEF XDP!Subscribe, XDP!Woken, XDP!SeesClosed, XDP!Healthy, XDP!Unhealthy,
       XDP!Detach, XDP!End, XDP!Unsubscribe, XDP!CloseChannel, XDP!Watching, XDP!world,
       XDP!alarm, XDP!Failing, WorldTypes
  <2>2. WorldTypes'
    BY <2>1 DEF WorldTypes
  <2>3. \E from, to \in WatcherLabels \ {"none"} :
            /\ XDP!Watching(r, from, to) /\ attached' \subseteq attached
            /\ ended' = ended \/ (ended' = ended \cup {r} /\ r \notin attached')
    BY <1>3 DEF XDP!Subscribe, XDP!Woken, XDP!SeesClosed, XDP!Healthy, XDP!Unhealthy,
       XDP!Detach, XDP!End, XDP!Unsubscribe, XDP!CloseChannel, WatcherLabels
  <2> QED
    BY <1>2, <2>2, <2>3
<1> QED
  BY <1>1, <1>3 DEF XDP!Watcher

XDPFlag == xdpClosed \in BOOLEAN /\ caller \in {"runs", "last"}

(* A program is never attached where one of an earlier receiver still is, for any          *)
(* interfaces, receivers and number of failures: the goroutine of the earlier one leaves   *)
(* the group only after its program is detached (bgsingleflight.go:26, xdprecv.go:207-224). *)
THEOREM NeverAttachedTwice == XDP!Spec => []NeverBusy
<1> USE XDPAssumption
<1>1. XDP!Init => WorldTypes /\ RecvInv /\ XDPFlag
  <2> SUFFICES ASSUME XDP!Init PROVE WorldTypes /\ RecvInv /\ XDPFlag
    OBVIOUS
  <2>1. XDPFlag
    BY Zenon DEF XDP!Init, XDPFlag
  <2>2. WorldTypes
    BY DEF XDP!Init, XDP!ProcessInit, XDP!Idle, XDP!Assumption, WorldTypes
  <2>3. RecvInv
    BY DEF XDP!Init, XDP!ProcessInit, XDP!NoIface, XDP!Assumption, RecvInv, RecvTypes, FnLabels,
       WatcherLabels, OneEach, EndsDetached
  <2> QED
    BY <2>1, <2>2, <2>3
<1>2. WorldTypes /\ RecvInv /\ XDPFlag /\ [XDP!Next]_(XDP!vars)
        => WorldTypes' /\ RecvInv' /\ XDPFlag'
  <2> SUFFICES ASSUME WorldTypes, RecvInv, XDPFlag, [XDP!Next]_(XDP!vars)
               PROVE  WorldTypes' /\ RecvInv' /\ XDPFlag'
    OBVIOUS
  <2>1. CASE UNCHANGED XDP!vars
    <3>1. UNCHANGED <<index, made, fails, xdpClosed, caller, set, refresh, fn, watcher, iface,
                      attached, ended, subscribed, ch>>
      BY <2>1 DEF XDP!vars, XDP!world, XDP!recv, XDP!alarm
    <3> QED
      BY <3>1 DEF WorldTypes, RecvInv, RecvTypes, OneEach, EndsDetached, XDPFlag
  <2>2. CASE XDP!Next
    <3>1. WorldTypes' /\ RecvInv'
      BY <2>2, RefreshKeepsInv, GoroutineKeepsInv, WatcherKeepsInv DEF XDP!Next
    <3>2. CASE XDP!Close \/ XDP!LastToken
      BY <3>1, <3>2, Zenon DEF XDP!Close, XDP!LastToken, XDPFlag
    <3>3. CASE XDP!Panic
      BY <3>1, <3>3, Zenon DEF XDP!Panic, XDPFlag
    <3>4. CASE ~XDP!Close /\ ~XDP!LastToken /\ ~XDP!Panic
      <4>1. UNCHANGED <<xdpClosed, caller>>
        BY <2>2, <3>4
        DEF XDP!Next, XDP!LinkAdd, XDP!LinkDelete, XDP!Refresher, XDP!StartRefresh, XDP!List,
            XDP!Refreshed, XDP!Visit, XDP!Wake, XDP!RunAgain, XDP!Run, XDP!Goroutine,
            XDP!Attach, XDP!AttachFails, XDP!RecvFails, XDP!Exit, XDP!Watcher, XDP!Subscribe,
            XDP!Woken, XDP!SeesClosed, XDP!Healthy, XDP!Unhealthy, XDP!Detach, XDP!End,
            XDP!Unsubscribe, XDP!CloseChannel, XDP!Collect, XDP!Failing, XDP!world
      <4> QED
        BY <3>1, <4>1 DEF XDPFlag
    <3> QED
      BY <3>2, <3>3, <3>4
  <2> QED
    BY <2>1, <2>2
<1>3. WorldTypes /\ RecvInv /\ XDPFlag => NeverBusy
  <2> SUFFICES ASSUME WorldTypes, RecvInv, XDPFlag PROVE NeverBusy
    OBVIOUS
  <2>1. XDP!TypeOK
    BY DEF WorldTypes, RecvInv, RecvTypes, FnLabels, WatcherLabels, XDPFlag, XDP!TypeOK
  <2>2. XDP!NeverBusy
    BY DEF RecvInv, RecvTypes, OneEach, EndsDetached, XDP!NeverBusy
  <2> QED
    BY <2>1, <2>2 DEF NeverBusy
<1> QED
  BY <1>1, <1>2, <1>3, PTL DEF XDP!Spec
=============================================================================
