---------------------------- MODULE WsContract -----------------------------
(***************************************************************************)
(* What WebSocketLibClient.h promises of the callbacks of a connection:    *)
(* OnOpen at most once and first; one OnClose or OnFail, after which there *)
(* is nothing; OnFail only instead of OnOpen; OnClose without OnOpen only  *)
(* for a connection that was asked to close; and nothing once the client   *)
(* has gone on to another connection.                                      *)
(*                                                                         *)
(* The code delivers a message before OnOpen in one case, a close asked    *)
(* for while connecting, when OnOpen is left out: the contract allows it.  *)
(***************************************************************************)
CONSTANT Conns

VARIABLES asked,    \* connections somebody asked to close
          enabled,  \* connections whose callbacks are enabled
          last      \* the last callback of a connection

vars == <<asked, enabled, last>>

Over(c)   == last[c] \in {"close", "fail"}
Opened(c) == last[c] \in {"open", "text"}

Init ==
    /\ asked = [c \in Conns |-> FALSE]
    /\ enabled = [c \in Conns |-> TRUE]
    /\ last = [c \in Conns |-> "none"]

Ask(c) ==
    /\ asked' = [asked EXCEPT ![c] = TRUE]
    /\ UNCHANGED <<enabled, last>>

Silence(c) ==
    /\ enabled' = [enabled EXCEPT ![c] = FALSE]
    /\ UNCHANGED <<asked, last>>

MaySay(c, callback) ==
    \/ callback = "open" /\ last[c] = "none"
    \/ callback = "fail" /\ last[c] = "none"
    \/ callback \in {"text", "close"} /\ (Opened(c) \/ (last[c] = "none" /\ asked[c]))

Say(c, callback) ==
    /\ enabled[c]
    /\ MaySay(c, callback)
    /\ last' = [last EXCEPT ![c] = callback]
    /\ UNCHANGED <<asked, enabled>>

Next ==
    \E c \in Conns :
        \/ Ask(c) \/ Silence(c)
        \/ \E callback \in {"open", "text", "close", "fail"} : Say(c, callback)

Spec == Init /\ [][Next]_vars
=============================================================================
