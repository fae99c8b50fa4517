------------------------------- MODULE Disco -------------------------------
(* The table of peers of a node (disco/disco.go): SetPeers, called by the     *)
(* engine's reconfiguration goroutine, against Close.  AddPeer makes a peer    *)
(* before it knows whether it will be the one in the table; the flag temporal, *)
(* captured by the peer's onClose, says so.  Every operation on the concurrent *)
(* map is a step, and so is every step of a peer's Close that others can see.  *)
EXTENDS Naturals

CONSTANTS
    Keys,       \* public disco keys of peers
    Setter,     \* the goroutine that calls SetPeers
    Closer,     \* the goroutine that calls Close
    MaxPeers    \* bound: peers made by AddPeer

Threads == {Setter, Closer}
Peers == 1..MaxPeers
None == 0

Assumption ==
    /\ Keys # {}
    /\ Setter # Closer
    /\ MaxPeers \in Nat \ {0}

VARIABLES
    closed,     \* the closed channel of disco
    peers,      \* the table: key -> peer, or None
    keyOf,      \* the key a peer was made for
    made,       \* peers made so far
    open,       \* peers whose closed channel is open
    temporal,   \* peers whose onClose leaves the table alone
    panicked,   \* SetPeers used the nil AddPeer returned
    want,       \* the argument of SetPeers
    pc, todo, cur   \* per goroutine; todo: keys left, cur: the peer in hand

vars == <<closed, peers, keyOf, made, open, temporal, panicked, want, pc, todo, cur>>
table == <<closed, peers, keyOf, made, open, temporal>>

Init ==
    /\ closed = FALSE
    /\ peers = [k \in Keys |-> None]
    /\ keyOf = [p \in Peers |-> CHOOSE k \in Keys : TRUE]
    /\ made = 0
    /\ open = {}
    /\ temporal = {}
    /\ panicked = FALSE
    /\ want = {}
    /\ pc = [t \in Threads |-> "idle"]
    /\ todo = [t \in Threads |-> {}]
    /\ cur = [t \in Threads |-> None]

Goto(t, l) == pc' = [pc EXCEPT ![t] = l]
Holds(t, p) == cur' = [cur EXCEPT ![t] = p]
Leaves(t, k) == todo' = [todo EXCEPT ![t] = @ \ {k}]

Stored == {k \in Keys : peers[k] # None}

\* A Range begins: it visits the keys stored now, and may or may not visit one
\* that is stored while it runs.
StartRange(t, l) ==
    /\ Goto(t, l)
    /\ \E late \in SUBSET (Keys \ Stored) : todo' = [todo EXCEPT ![t] = Stored \cup late]

-----------------------------------------------------------------------------
(* SetPeers and AddPeer *)

SetPeers(ks) ==
    /\ pc[Setter] = "idle"
    /\ want' = ks
    /\ todo' = [todo EXCEPT ![Setter] = ks]
    /\ Goto(Setter, "add")
    /\ UNCHANGED <<table, panicked, cur>>

\* AddPeer, Load: the peer is there, and SetEndpoints is called on it.
Found(k) ==
    /\ pc[Setter] = "add"
    /\ k \in todo[Setter]
    /\ peers[k] # None
    /\ Leaves(Setter, k)
    /\ UNCHANGED <<table, panicked, want, pc, cur>>

\* AddPeer, NewDiscoPeer: nobody else knows the new peer yet.
Make(k) ==
    /\ pc[Setter] = "add"
    /\ k \in todo[Setter]
    /\ peers[k] = None
    /\ made < MaxPeers
    /\ made' = made + 1
    /\ keyOf' = [keyOf EXCEPT ![made'] = k]
    /\ open' = open \cup {made'}
    /\ temporal' = temporal \cup {made'}
    /\ Holds(Setter, made')
    /\ Leaves(Setter, k)
    /\ Goto(Setter, "store")
    /\ UNCHANGED <<closed, peers, panicked, want>>

\* AddPeer, LoadOrStore.  A peer that finds its key taken is closed, and the one
\* in the table used (with one goroutine adding peers the key is still free).
Store ==
    /\ pc[Setter] = "store"
    /\ IF peers[keyOf[cur[Setter]]] = None
       THEN /\ peers' = [peers EXCEPT ![keyOf[cur[Setter]]] = cur[Setter]]
            /\ Goto(Setter, "stored")
            /\ UNCHANGED open
       ELSE /\ open' = open \ {cur[Setter]}
            /\ Goto(Setter, "add")
            /\ UNCHANGED peers
    /\ UNCHANGED <<closed, keyOf, made, temporal, panicked, want, todo, cur>>

\* From here on the peer's Close takes it out of the table.
ClearTemporal ==
    /\ pc[Setter] = "stored"
    /\ temporal' = temporal \ {cur[Setter]}
    /\ Goto(Setter, "check")
    /\ UNCHANGED <<closed, peers, keyOf, made, open, panicked, want, todo, cur>>

\* AddPeer, the look at closed: a peer added to a closed disco is closed again
\* and nil returned; otherwise SetEndpoints is called on the peer.
Check ==
    /\ pc[Setter] = "check"
    /\ Goto(Setter, IF closed THEN "closeNil" ELSE "add")
    /\ UNCHANGED <<table, panicked, want, todo, cur>>

\* All are added: the Range over the table begins.
Added ==
    /\ pc[Setter] = "add"
    /\ todo[Setter] = {}
    /\ StartRange(Setter, "range")
    /\ UNCHANGED <<table, panicked, want, cur>>

\* The Range of SetPeers: a peer that is not wanted is closed.
Visit(k) ==
    /\ pc[Setter] = "range"
    /\ k \in todo[Setter]
    /\ Leaves(Setter, k)
    /\ IF peers[k] = None \/ k \in want
       THEN UNCHANGED <<pc, cur>>
       ELSE Goto(Setter, "closeUnwanted") /\ Holds(Setter, peers[k])
    /\ UNCHANGED <<table, panicked, want>>

SetPeersReturns ==
    /\ pc[Setter] = "range"
    /\ todo[Setter] = {}
    /\ Goto(Setter, "idle")
    /\ UNCHANGED <<table, panicked, want, todo, cur>>

-----------------------------------------------------------------------------
(* Close of a peer, called from the three places that hold one *)

Closing(t) == pc[t] \in {"closeNil", "closeUnwanted", "closeAll"}

\* What the caller does after Close.
Return(t) ==
    CASE pc[t] \in {"closeNil", "onCloseNil"} -> Goto(t, "nil")
      [] pc[t] \in {"closeUnwanted", "onCloseUnwanted"} -> Goto(t, "range")
      [] OTHER -> Goto(t, "rangeAll")

\* The second Close of a peer panics and recovers: it returns at once, without
\* calling onClose.
ClosePeer(t) ==
    /\ Closing(t)
    /\ IF cur[t] \in open
       THEN Goto(t, CASE pc[t] = "closeNil" -> "onCloseNil"
                      [] pc[t] = "closeUnwanted" -> "onCloseUnwanted"
                      [] OTHER -> "onCloseAll")
       ELSE Return(t)
    /\ open' = open \ {cur[t]}
    /\ UNCHANGED <<closed, peers, keyOf, made, temporal, panicked, want, todo, cur>>

\* onClose deletes the key, whichever peer it leads to by now.
OnClose(t) ==
    /\ pc[t] \in {"onCloseNil", "onCloseUnwanted", "onCloseAll"}
    /\ peers' = IF cur[t] \in temporal THEN peers
                ELSE [peers EXCEPT ![keyOf[cur[t]]] = None]
    /\ Return(t)
    /\ UNCHANGED <<closed, keyOf, made, open, temporal, panicked, want, todo, cur>>

\* SetPeers calls SetEndpoints on the nil it got: the process ends.
UseNil ==
    /\ pc[Setter] = "nil"
    /\ panicked' = TRUE
    /\ UNCHANGED <<table, want, pc, todo, cur>>

-----------------------------------------------------------------------------
(* Close *)

Close ==
    /\ pc[Closer] = "idle"
    /\ closed' = TRUE
    /\ StartRange(Closer, "rangeAll")
    /\ UNCHANGED <<peers, keyOf, made, open, temporal, panicked, want, cur>>

\* closeAllPeers, Range: it has read the peer of a key ...
VisitAll(k) ==
    /\ pc[Closer] = "rangeAll"
    /\ k \in todo[Closer]
    /\ Leaves(Closer, k)
    /\ IF peers[k] = None THEN UNCHANGED <<pc, cur>>
       ELSE Goto(Closer, "delete") /\ Holds(Closer, peers[k])
    /\ UNCHANGED <<table, panicked, want>>

\* ... and deletes the key before it closes the peer.
Delete ==
    /\ pc[Closer] = "delete"
    /\ peers' = [peers EXCEPT ![keyOf[cur[Closer]]] = None]
    /\ Goto(Closer, "closeAll")
    /\ UNCHANGED <<closed, keyOf, made, open, temporal, panicked, want, todo, cur>>

CloseReturns ==
    /\ pc[Closer] = "rangeAll"
    /\ todo[Closer] = {}
    /\ Goto(Closer, "done")
    /\ UNCHANGED <<table, panicked, want, todo, cur>>

-----------------------------------------------------------------------------
Next ==
    /\ ~panicked
    /\ \/ \E ks \in SUBSET Keys : SetPeers(ks)
       \/ \E k \in Keys : Found(k) \/ Make(k) \/ Visit(k) \/ VisitAll(k)
       \/ Store \/ ClearTemporal \/ Check \/ Added \/ SetPeersReturns
       \/ UseNil
       \/ \E t \in Threads : ClosePeer(t) \/ OnClose(t)
       \/ Close \/ Delete \/ CloseReturns

Spec == Init /\ [][Next]_vars

-----------------------------------------------------------------------------
(* Type invariant: only peers that AddPeer made are open or temporal.            *)
TypeOK ==
    /\ closed \in BOOLEAN
    /\ peers \in [Keys -> Peers \cup {None}]
    /\ keyOf \in [Peers -> Keys]
    /\ made \in 0..MaxPeers
    /\ open \in SUBSET (1..made)
    /\ temporal \in SUBSET (1..made)
    /\ panicked \in BOOLEAN
    /\ want \in SUBSET Keys
    /\ pc \in [Threads -> {"idle", "add", "store", "stored", "check", "range", "nil",
                           "closeNil", "closeUnwanted", "closeAll", "onCloseNil",
                           "onCloseUnwanted", "onCloseAll", "rangeAll", "delete", "done"}]
    /\ todo \in [Threads -> SUBSET Keys]
    /\ cur \in [Threads -> Peers \cup {None}]

(* A peer whose goroutines run is never lost: it is in the table under its key,  *)
(* or in the hands of a goroutine that will store or close it.  (The Close of an *)
(* old peer deletes its key even if a new peer is there by now.)                 *)
NoLostPeer ==
    \A p \in open :
        \/ peers[keyOf[p]] = p
        \/ cur[Setter] = p /\ pc[Setter] \in {"store", "stored", "check", "closeNil"}
        \/ cur[Closer] = p /\ pc[Closer] = "closeAll"

(* Once Close and SetPeers have returned, a closed disco has no peer and none of *)
(* the peers it ever made is open, whatever SetPeers was doing when it was       *)
(* closed.                                                                       *)
ClosedMeansEmpty ==
    closed /\ pc[Closer] = "done" /\ pc[Setter] = "idle" => open = {} /\ Stored = {}

(* Between calls the table of an open disco holds exactly the peers asked for,    *)
(* and all of them are open: a closed peer left in the table would be found by    *)
(* every later SetPeers and never ping anyone.                                    *)
TableIsWanted ==
    ~closed /\ pc[Setter] = "idle" =>
        /\ Stored = want
        /\ \A k \in Stored : peers[k] \in open

=============================================================================
