--------------------------- MODULE MCWsClientLive --------------------------
(***************************************************************************)
(* WsClient whose calls come from the threads, over one connection; or     *)
(* from the callbacks, which connect again: a thread starts the first      *)
(* connection and leaves the rest to them, without OnMessage, whose        *)
(* callback makes the same calls as OnOpen's.  The latter is followed      *)
(* until Connects overlap, for which CallsReturn promises nothing.         *)
(***************************************************************************)
EXTENDS WsClient

CONSTANTS Main,   \* the thread that starts the first connection
          Second  \* the connection that only a callback starts

ASSUME CallersAssumption == Main \in Threads /\ Second \in Conns

VARIABLE caller   \* who makes the calls

Begins(x) == call[x] = NoCall /\ call'[x] # NoCall

OfThreads == \A x \in Callers : call'[x].new # Second

OfCallbacks ==
    /\ \A t \in Threads : /\ Begins(t) => t = Main /\ \A c \in Conns : session[c] = "none"
                          /\ call'[t].new # Second
    /\ \A c \in Conns : last'[c] # "text"
    /\ ~crossed

LiveSpec ==
    /\ Init /\ caller \in {"threads", "callbacks"}
    /\ [][/\ Next
          /\ caller = "threads" => OfThreads
          /\ caller = "callbacks" => OfCallbacks
          /\ caller' = caller]_<<vars, caller>>
    /\ Fairness
=============================================================================
