------------------------------ MODULE SplitConn ------------------------------
(* One packet connection shared by several readers (pkg/splitconn).  Every child    *)
(* has a filter and a bounded queue.  A reader that finds its queue empty joins the  *)
(* one flight that reads the connection: its leader hands the packet to the first    *)
(* child whose filter accepts it, and everyone in the flight looks again.  Packets   *)
(* live in buffers of a pool that are written over once they are put back.           *)
EXTENDS Naturals, Sequences, FiniteSets, SequencesExt

CONSTANTS
    Children,   \* the children in the order of Add
    Packets,
    Filter,     \* the packets that the filter of each child accepts
    Cap,        \* the capacity of a queue; 5 in the code
    Bufs,       \* buffers
    Late,       \* how many packets a connection may still have when it is closed
    None

Conns == Range(Children)

\* Enough buffers for New never to be out of one: all that can be in use, and one.
Assumption ==
    /\ None \notin Bufs \cup Packets
    /\ Cardinality(Conns) = Len(Children)
    /\ Filter \in [Conns -> SUBSET Packets]
    /\ Cap \in Nat \ {0}
    /\ Late \in Nat
    /\ Cardinality(Bufs) > Len(Children) * (Cap + 1)

VARIABLES
    pc,         \* where the ReadFrom of each child is; one goroutine reads each child
    queue,      \* the queue of each child: buffers
    held,       \* the buffer a reader has taken, or that it fills as the leader
    contents,   \* the packet in each buffer
    pool,       \* the buffers that were put back
    closed,     \* the connection is closed
    late        \* the packets it still has then

vars == <<pc, queue, held, contents, pool, closed, late>>

Init ==
    /\ pc = [c \in Conns |-> "idle"]
    /\ queue = [c \in Conns |-> <<>>]
    /\ held = [c \in Conns |-> None]
    /\ contents = [b \in Bufs |-> None]
    /\ pool = {}
    /\ closed = FALSE
    /\ late = 0

Goto(c, l) == pc' = [pc EXCEPT ![c] = l]
Put(b) == pool' = pool \cup {b}
InUse == {held[c] : c \in Conns} \cup UNION {Range(queue[c]) : c \in Conns}
InFlight == \E c \in Conns : pc[c] \in {"lead", "filled"}

\* sync.Pool hands out a buffer that was put back, or makes one that nobody has.  It may
\* forget the ones it has: the buffer it makes then is as good, for it is written before it
\* is read.
Get(b) ==
    IF pool # {}
    THEN b = CHOOSE x \in pool : TRUE
    ELSE b \notin InUse /\ b = CHOOSE x \in Bufs : x \notin InUse

\* The child that a packet is for.
Accepting(p) == SelectSeq(Children, LAMBDA c : p \in Filter[c])

-----------------------------------------------------------------------------
\* Mutant: the waiters go into the next flight without a look at their queues.
LandUnpolled(c) == pc' = [d \in Conns |-> IF pc[d] = "wait" THEN "do" ELSE
                                           IF d = c THEN "top" ELSE pc[d]]

\* The flight ends: everyone in it looks at its queue again.
Land(c) == pc' = [d \in Conns |-> IF d = c \/ pc[d] = "wait" THEN "top" ELSE pc[d]]

\* Mutant: the buffer is put back although a queue has it.
DeliverAndPut(c) ==
    LET accepting == Accepting(contents[held[c]]) IN
    /\ pc[c] = "filled"
    /\ IF accepting # <<>> /\ Len(queue[Head(accepting)]) < Cap
       THEN queue' = [queue EXCEPT ![Head(accepting)] = Append(@, held[c])]
       ELSE UNCHANGED queue
    /\ Put(held[c])
    /\ held' = [held EXCEPT ![c] = None]
    /\ Land(c)
    /\ UNCHANGED <<contents, closed, late>>

-----------------------------------------------------------------------------
\* The goroutine that reads the child calls again.
Call(c) ==
    /\ pc[c] = "idle"
    /\ Goto(c, "top")
    /\ UNCHANGED <<queue, held, contents, pool, closed, late>>

\* The select on the queue: a packet is there, or the reader goes on to the flight.
Poll(c) ==
    /\ pc[c] = "top"
    /\ IF queue[c] # <<>>
       THEN /\ held' = [held EXCEPT ![c] = Head(queue[c])]
            /\ queue' = [queue EXCEPT ![c] = Tail(@)]
            /\ Goto(c, "took")
       ELSE Goto(c, "do") /\ UNCHANGED <<queue, held>>
    /\ UNCHANGED <<contents, pool, closed, late>>

\* The packet is copied out and its buffer put back.
Return(c) ==
    /\ pc[c] = "took"
    /\ Put(held[c])
    /\ held' = [held EXCEPT ![c] = None]
    /\ Goto(c, "idle")
    /\ UNCHANGED <<queue, contents, closed, late>>

\* group.Do: the first one leads the flight with a buffer of the pool, the others wait
\* for its end.
Do(c) ==
    /\ pc[c] = "do"
    /\ \/ /\ InFlight
          /\ Goto(c, "wait")
          /\ UNCHANGED <<held, pool>>
       \/ /\ ~InFlight
          /\ \E b \in Bufs : Get(b) /\ held' = [held EXCEPT ![c] = b] /\ pool' = pool \ {b}
          /\ Goto(c, "lead")
    /\ UNCHANGED <<queue, contents, closed, late>>

\* The leader reads a packet into its buffer.
Arrive(c, p) ==
    /\ pc[c] = "lead"
    /\ closed => late > 0
    /\ late' = IF closed THEN late - 1 ELSE late
    /\ contents' = [contents EXCEPT ![held[c]] = p]
    /\ Goto(c, "filled")
    /\ UNCHANGED <<queue, held, pool, closed>>

\* The buffer goes to the first child that accepts its packet if there is room, and
\* back to the pool if there is none; what no child accepts is dropped with its buffer.
Deliver(c) ==
    LET accepting == Accepting(contents[held[c]]) IN
    /\ pc[c] = "filled"
    /\ \/ /\ accepting = <<>>
          /\ UNCHANGED <<queue, pool>>
       \/ /\ accepting # <<>>
          /\ LET d == Head(accepting) IN
             IF Len(queue[d]) < Cap
             THEN queue' = [queue EXCEPT ![d] = Append(@, held[c])] /\ UNCHANGED pool
             ELSE Put(held[c]) /\ UNCHANGED queue
    /\ held' = [held EXCEPT ![c] = None]
    /\ Land(c)
    /\ UNCHANGED <<contents, closed, late>>

\* The read of a closed connection fails: its error goes to everyone in the flight.
Fail(c) ==
    /\ pc[c] = "lead" /\ closed
    /\ Put(held[c])
    /\ held' = [held EXCEPT ![c] = None]
    /\ pc' = [d \in Conns |-> IF d = c \/ pc[d] = "wait" THEN "idle" ELSE pc[d]]
    /\ UNCHANGED <<queue, contents, closed, late>>

Close ==
    /\ ~closed
    /\ closed' = TRUE
    /\ late' \in 0 .. Late
    /\ UNCHANGED <<pc, queue, held, contents, pool>>

-----------------------------------------------------------------------------
Reader(c) == Call(c) \/ Poll(c) \/ Return(c) \/ Do(c) \/ Deliver(c)
Packet == \E c \in Conns, p \in Packets : Arrive(c, p)

Next ==
    \/ \E c \in Conns : Reader(c) \/ Fail(c)
    \/ Packet
    \/ Close

\* The readers run, and peers and STUN servers keep sending packets of some kind.
Fairness ==
    /\ \A c \in Conns : WF_vars(Reader(c)) /\ WF_vars(Fail(c))
    /\ WF_vars(Packet)

Spec == Init /\ [][Next]_vars /\ Fairness

-----------------------------------------------------------------------------
\* The type of the state: queues stay within their capacity and one goroutine at a time
\* reads the connection (splitconn.go:70).
TypeOK ==
    /\ pc \in [Conns -> {"idle", "top", "took", "do", "wait", "lead", "filled"}]
    /\ \A c \in Conns : Len(queue[c]) <= Cap /\ Range(queue[c]) \subseteq Bufs
    /\ held \in [Conns -> Bufs \cup {None}]
    /\ contents \in [Bufs -> Packets \cup {None}]
    /\ pool \subseteq Bufs
    /\ closed \in BOOLEAN
    /\ late \in 0 .. Late
    /\ \A c, d \in Conns : {pc[c], pc[d]} \subseteq {"lead", "filled"} => c = d

\* A read returns a packet that its own filter accepts and that no earlier child's does,
\* though the buffer was filled by another goroutine and is shared by all
\* (splitconn.go:63-66, 81-90): the buffer was not written again in the meantime.
ReadIntact ==
    \A c \in Conns : pc[c] = "took" =>
        LET accepting == Accepting(contents[held[c]]) IN
        accepting # <<>> /\ Head(accepting) = c

\* A packet in a queue is read, also when its reader had looked at the queue before and
\* has entered the next flight: that flight ends with the next packet of any kind.
EventuallyRead ==
    \A c \in Conns : (queue[c] # <<>>) ~> (pc[c] = "took" \/ closed)

\* Close ends every ReadFrom, that of a child that waits in another's flight too
\* (splitconn.go:95-97).
ReadReturns ==
    \A c \in Conns : (closed /\ pc[c] # "idle") ~> (pc[c] = "idle")
=============================================================================
