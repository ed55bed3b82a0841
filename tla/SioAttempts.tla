---------------------------- MODULE SioAttempts ----------------------------
(***************************************************************************)
(* What sio::client promises of its connection attempts                    *)
(* (set_reconnect_attempts in sio_client.h): a connect() makes one         *)
(* attempt.  An attempt or a connection that ends may be followed by a     *)
(* wait and another attempt, for as long as Attempts are not used up;      *)
(* connect() and a connection that opened give all of them back.  A new    *)
(* attempt begins only when nothing is left of the one before.             *)
(***************************************************************************)
EXTENDS Naturals

CONSTANT Attempts

VARIABLES link,     \* none, or the attempt or connection under way
          asked,    \* connect() asked for an attempt that did not begin
          waiting,  \* for the next attempt
          made      \* the attempts used since the last connect() or open

vars == <<link, asked, waiting, made>>

Idle == link = "none" /\ ~asked /\ ~waiting

Init == Idle /\ made = 0

Ask ==
    /\ Idle
    /\ asked' = TRUE /\ made' = 0
    /\ UNCHANGED <<link, waiting>>

\* An attempt may be refused before it begins.
Begins == link = "none" /\ link' \in {"none", "dialing"}

Dial ==
    /\ asked /\ ~waiting
    /\ Begins
    /\ asked' = FALSE
    /\ UNCHANGED <<waiting, made>>

Wait ==
    /\ Idle
    /\ made < Attempts
    /\ waiting' = TRUE
    /\ UNCHANGED <<link, asked, made>>

Cancel ==
    /\ waiting' = FALSE
    /\ UNCHANGED <<link, asked, made>>

Redial ==
    /\ waiting /\ ~asked
    /\ Begins
    /\ waiting' = FALSE /\ made' = made + 1
    /\ UNCHANGED asked

\* The link goes on, or is over.
Goes(from, to) ==
    /\ link \in from /\ link' \in to
    /\ UNCHANGED <<asked, waiting, made>>

Opens  == Goes({"dialing"}, {"open", "closing"})
Closes == Goes({"open"}, {"closing"})
Ends   == Goes({"dialing", "open", "closing"}, {"none"})

Confirm ==
    /\ link = "open"
    /\ made' = 0
    /\ UNCHANGED <<link, asked, waiting>>

Next ==
    \/ Ask \/ Dial \/ Wait \/ Cancel \/ Redial
    \/ Opens \/ Confirm \/ Closes \/ Ends

Spec == Init /\ [][Next]_vars
=============================================================================
