----------------------------- MODULE MCEndpoint -----------------------------
(* An endpoint of a peer and the two machines inside it: its ticker and the cell that    *)
(* tells subscribers its status.  The model of the endpoint has its own, smaller idea of *)
(* both, so a behaviour is one of the three; turn says which, and the rest does not move.*)
EXTENDS StatusNotify

CONSTANTS Ids, NoId, MaxFlips

VARIABLES
    turn,
    state, tickerPriority, currentInterval, maxInterval, tickerWakeCh, reset,
    tickerClosed, tickerPC, tickerArmed,
    pending, armed, dropping, acking, recvChan, wakeCh, tick, endpointStatus,
    priority, checked, quiet, endpointClosed, running, pings, pongs, up, flips

Ticker == INSTANCE Ticker WITH
    priority <- tickerPriority, wakeCh <- tickerWakeCh, closed <- tickerClosed,
    pc <- tickerPC, armed <- tickerArmed

\* Answers that come in time or not at all: the endpoint must connect over such a network.
Endpoint == INSTANCE DiscoPeerEndpoint WITH
    Timely <- TRUE, status <- endpointStatus, closed <- endpointClosed

tickerVars == <<state, tickerPriority, currentInterval, maxInterval, tickerWakeCh,
                reset, tickerClosed, tickerPC, tickerArmed>>
endpointVars == <<pending, armed, dropping, acking, recvChan, wakeCh, tick,
                  endpointStatus, priority, checked, quiet, endpointClosed, running,
                  pings, pongs, up, flips>>

MCInit ==
    /\ turn \in {"notify", "ticker", "endpoint"}
    /\ Init /\ Ticker!Init
    /\ Endpoint!Init /\ (turn # "endpoint" => up)

MCNext ==
    /\ UNCHANGED turn
    /\ \/ turn = "notify" /\ Next /\ UNCHANGED <<tickerVars, endpointVars>>
       \/ turn = "ticker" /\ Ticker!Next /\ UNCHANGED <<vars, endpointVars>>
       \/ turn = "endpoint" /\ Endpoint!Next /\ UNCHANGED <<vars, tickerVars>>

MCSpec ==
    /\ MCInit /\ [][MCNext]_<<turn, vars, tickerVars, endpointVars>>
    /\ \/ turn = "notify" /\ Fairness
       \/ turn = "ticker" /\ Ticker!Fairness
       \/ turn = "endpoint" /\ Endpoint!Fairness

-----------------------------------------------------------------------------
\* No change of the interval is lost in the full reset channel (ticker.go:137), and the
\* back-off stays within the limits of state and priority, however SetState and the
\* doubling interleave (ticker.go:103-108, 119-130).
ResetTakesEffect == Ticker!ResetNotLost /\ Ticker!IntervalBounded

\* Until it is closed the ticker ticks for ever, through any number of resets.
KeepsTicking == turn = "ticker" => Ticker!KeepsTicking

\* An endpoint connects on a network that stays up, and its ticker with it; it notices a
\* network that stays down, and keeps trying at the fast pace.
FollowsNetwork == turn = "endpoint" => Endpoint!StaysConnected /\ Endpoint!NoticesLoss

\* Close ends the goroutine of the endpoint and that of the ticker, whatever else is ready
\* when they look.
CloseStops ==
    /\ turn = "ticker" => Ticker!CloseStops
    /\ turn = "endpoint" => Endpoint!CloseStops

\* Every subscriber is told the last status, or ends with its endpoint.
ToldOrDone == turn = "notify" => EventuallyTold
=============================================================================
