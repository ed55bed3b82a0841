-------------------------- MODULE SioClientProofs --------------------------
(***************************************************************************)
(* TLAPS proofs about SioClient: the invariants the model-checking run     *)
(* checks hold, and the client keeps the promise of SioAttempts, for every *)
(* set of application threads, every m_reconn_attempts and every bound on  *)
(* the io_service queue.                                                   *)
(***************************************************************************)
EXTENDS SioClient, TLAPS

-----------------------------------------------------------------------------
(* The queue: what appending and taking a handler do to Has and Once.      *)

LEMMA QueueUnchanged ==
    ASSUME posted' = posted, NEW h \in Handlers
    PROVE  /\ Has(h)' <=> Has(h)
           /\ Once(h)' <=> Once(h)
  BY DEF Has, Once

LEMMA QueueAppend ==
    ASSUME posted \in Seq(Handlers), NEW g \in Handlers, posted' = Append(posted, g),
           NEW h \in Handlers
    PROVE  /\ Has(h)' <=> Has(h) \/ g = h
           /\ Once(h) /\ (g = h => ~Has(h)) => Once(h)'
  <1>1. /\ DOMAIN posted = 1 .. Len(posted)
        /\ DOMAIN posted' = 1 .. (Len(posted) + 1)
        /\ Len(posted) \in Nat
    OBVIOUS
  <1>2. posted'[Len(posted) + 1] = g /\ \A i \in 1 .. Len(posted) : posted'[i] = posted[i]
    OBVIOUS
  <1>3. QED
    BY <1>1, <1>2 DEF Has, Once

LEMMA QueueTail ==
    ASSUME posted \in Seq(Handlers), posted # <<>>, posted' = Tail(posted),
           NEW h \in Handlers
    PROVE  /\ Has(h)' => Has(h)
           /\ Head(posted) = h => Has(h)
           /\ Head(posted) # h => (Has(h)' <=> Has(h))
           /\ Once(h) => Once(h)'
           /\ Once(h) /\ Head(posted) = h => ~Has(h)'
  <1>1. /\ Len(posted) \in Nat \ {0}
        /\ DOMAIN posted = 1 .. Len(posted)
        /\ DOMAIN posted' = 1 .. (Len(posted) - 1)
        /\ Head(posted) = posted[1]
    OBVIOUS
  <1>2. \A i \in 1 .. (Len(posted) - 1) : posted'[i] = posted[i + 1]
    OBVIOUS
  <1>3. Has(h)' => Has(h)
    BY <1>1, <1>2 DEF Has
  <1>4. Head(posted) = h => Has(h)
    BY <1>1 DEF Has
  <1>5. ASSUME Head(posted) # h, Has(h)
        PROVE  Has(h)'
    <2>1. PICK i \in DOMAIN posted : posted[i] = h
      BY <1>5 DEF Has
    <2>2. i \in 2 .. Len(posted)
      BY <1>1, <1>5, <2>1
    <2>3. posted'[i - 1] = h /\ i - 1 \in DOMAIN posted'
      BY <1>1, <1>2, <2>1, <2>2
    <2>4. QED
      BY <2>3 DEF Has
  <1>6. ASSUME Once(h), NEW i \in DOMAIN posted', NEW j \in DOMAIN posted',
               posted'[i] = h, posted'[j] = h
        PROVE  i = j
    BY <1>1, <1>2, <1>6 DEF Once
  <1>7. ASSUME Once(h), Head(posted) = h, Has(h)'
        PROVE  FALSE
    BY <1>1, <1>2, <1>7 DEF Once, Has
  <1>8. QED
    BY <1>3, <1>4, <1>5, <1>6, <1>7 DEF Once

-----------------------------------------------------------------------------
(* Type correctness.                                                       *)

LEMMA TypeInit == Init => TypeOK
  <1>1. Init => posted \in Seq(Handlers)
    BY DEF Init
  <1>2. Init => timerArmed \in BOOLEAN /\ hdl \in BOOLEAN /\ nspTimer \in BOOLEAN
                /\ owed \in BOOLEAN
    BY DEF Init
  <1>3. Init => pc \in [Threads -> {"idle", "closing"} \cup Owning]
    BY DEF Init
  <1>4. QED
    BY <1>1, <1>2, <1>3 DEF Init, TypeOK, ConStates, NetSteps

\* Every step keeps the types.
LEMMA TypeStep == TypeOK /\ [Next]_vars => TypeOK'
  <1> SUFFICES ASSUME TypeOK, [Next]_vars
               PROVE  TypeOK'
    OBVIOUS
  <1> USE DEF TypeOK
  <1>1. ASSUME NEW t \in Threads, ConnectBegin(t)
        PROVE  TypeOK'
    BY <1>1 DEF ConnectBegin, NoOwner, linkVars, Owning
  <1>2. ASSUME NEW t \in Threads, ConnectJoined(t)
        PROVE  TypeOK'
    BY <1>2 DEF ConnectJoined, linkVars, Owning
  <1>3. ASSUME NEW t \in Threads, ConnectStart(t)
        PROVE  TypeOK'
    BY <1>3 DEF ConnectStart, linkVars, Owning, ConStates
  <1>4. ASSUME NEW t \in Threads, ConnectLaunch(t)
        PROVE  TypeOK'
    BY <1>4 DEF ConnectLaunch, linkVars, Owning, Handlers
  <1>5. ASSUME NEW t \in Threads, CloseBegin(t)
        PROVE  TypeOK'
    <2>1. owed' \in BOOLEAN
      BY <1>5 DEF CloseBegin, Engaged
    <2>2. pc' \in [Threads -> {"idle", "closing"} \cup Owning]
      BY <1>5 DEF CloseBegin, Owning
    <2> QED
      BY <1>5, <2>1, <2>2 DEF CloseBegin, linkVars, ConStates
  <1>6. ASSUME NEW t \in Threads, ClosePost(t)
        PROVE  TypeOK'
    BY <1>6 DEF ClosePost, linkVars, Owning, Handlers
  <1>7. ASSUME NEW t \in Threads, SyncCloseJoined(t)
        PROVE  TypeOK'
    BY <1>7 DEF SyncCloseJoined, linkVars, Owning
  <1>8. ASSUME RunConnectImpl
        PROVE  TypeOK'
    <2>1. posted' \in Seq(Handlers)
      BY <1>8 DEF RunConnectImpl, ConnectImpl, TakeHandler, NetIdle, linkVars, appVars
    <2>2. timerArmed' \in BOOLEAN
      BY <1>8 DEF RunConnectImpl, ConnectImpl, TakeHandler, NetIdle, linkVars, appVars
    <2>3. QED
      BY <1>8, <2>1, <2>2 DEF RunConnectImpl, ConnectImpl, TakeHandler, NetIdle, linkVars, appVars, linkVars, ConStates
  <1>9. ASSUME RunCloseImpl
        PROVE  TypeOK'
    <2>1. posted' \in Seq(Handlers)
      BY <1>9 DEF RunCloseImpl, CloseImpl, TakeHandler, NetIdle, appVars
    <2>2. timerArmed' \in BOOLEAN
      BY <1>9 DEF RunCloseImpl, CloseImpl, TakeHandler, NetIdle, appVars
    <2>3. QED
      BY <1>9, <2>1, <2>2 DEF RunCloseImpl, CloseImpl, TakeHandler, NetIdle, appVars, linkVars, ConStates
  <1>10. ASSUME ServerEndsSession
        PROVE  TypeOK'
    BY <1>10 DEF ServerEndsSession, CloseImpl, NetIdle, appVars
  <1>11. ASSUME OnOpen
        PROVE  TypeOK'
    BY <1>11 DEF OnOpen, OpenedWhileClosing, NetIdle, appVars, NetSteps
  <1>12. ASSUME OnOpenFinish
        PROVE  TypeOK'
    <2>1. net' \in NetSteps /\ conState' \in ConStates /\ made' \in Nat
      BY <1>12 DEF OnOpenFinish, NetSteps, ConStates
    <2> QED
      BY <1>12, <2>1 DEF OnOpenFinish, appVars
  <1>13. ASSUME OnFail
        PROVE  TypeOK'
    BY <1>13 DEF OnFail, NetIdle, appVars, NetSteps
  <1>14. ASSUME OnFailReset
        PROVE  TypeOK'
    BY <1>14 DEF OnFailReset, appVars, NetSteps, ConStates
  <1>15. ASSUME OnClose
        PROVE  TypeOK'
    BY <1>15 DEF OnClose, NetIdle, appVars, NetSteps
  <1>16. ASSUME OnCloseReset
        PROVE  TypeOK'
    BY <1>16 DEF OnCloseReset, appVars, NetSteps, ConStates
  <1>17. ASSUME Rearm
        PROVE  TypeOK'
    BY <1>17 DEF Rearm, MayRetry, linkVars, appVars, NetSteps
  <1>18. ASSUME ReconnTimerExpires
        PROVE  TypeOK'
    <2>1. posted' \in Seq(Handlers)
      BY <1>18 DEF ReconnTimerExpires, linkVars, appVars, Handlers
    <2>2. timerArmed' \in BOOLEAN
      BY <1>18 DEF ReconnTimerExpires, linkVars, appVars
    <2>3. QED
      BY <1>18, <2>1, <2>2 DEF ReconnTimerExpires, linkVars, appVars, linkVars, ConStates
  <1>19. ASSUME TimeoutReconnect
        PROVE  TypeOK'
    BY <1>19 DEF TimeoutReconnect, TakeHandler, NetIdle, linkVars, appVars, NetSteps
  <1>20. ASSUME TimeoutReconnectDial
        PROVE  TypeOK'
    BY <1>20 DEF TimeoutReconnectDial, Counted, appVars, NetSteps, ConStates
  <1>21. ASSUME NspTimerArmed
        PROVE  TypeOK'
    BY <1>21 DEF NspTimerArmed, linkVars, appVars
  <1>22. ASSUME NspTimerEnds
        PROVE  TypeOK'
    BY <1>22 DEF NspTimerEnds, NetIdle, linkVars, appVars
  <1>23. ASSUME RunLoopEnds
        PROVE  TypeOK'
    BY <1>23 DEF RunLoopEnds, NetIdle, linkVars
  <1>24. CASE UNCHANGED vars
    BY <1>24 DEF vars, appVars, linkVars
  <1>25. QED
    BY <1>1, <1>2, <1>3, <1>4, <1>5, <1>6, <1>7, <1>8, <1>9, <1>10, <1>11, <1>12,
       <1>13, <1>14, <1>15, <1>16, <1>17, <1>18, <1>19, <1>20, <1>21, <1>22, <1>23, <1>24
       DEF Next, Proceed, Handler, DialAnswered

\* Every variable of the client keeps its type, for all constants.
THEOREM TypeCorrect == Spec => []TypeOK
  BY TypeInit, TypeStep, PTL DEF Spec

-----------------------------------------------------------------------------
(* The inductive invariant: what is under way, what m_con and m_con_state  *)
(* say of it, and which call owns m_network_thread.                        *)

Flight == SingleFlight /\ AttemptsRespected /\ Quiet
Link   == OpenedHasConnection /\ HandleIsConnection /\ OpeningIsUnderWay /\ NeverWedged
Owners == OneOwner /\ OwnerKnows

LEMMA Parts == IInv <=> TypeOK /\ Flight /\ Link /\ Owners
  BY DEF IInv, Flight, Link, Owners

LEMMA InvInit == Init => IInv
  <1> SUFFICES ASSUME Init
               PROVE  IInv
    OBVIOUS
  <1>1. /\ ~Has("dial") /\ ~Has("reconnect")
        /\ Once("dial") /\ Once("reconnect")
    BY DEF Init, Has, Once
  <1>2. Flight
    BY <1>1, AttemptsAssumption
       DEF Init, Flight, SingleFlight, AttemptsRespected, Quiet, InHandler
  <1>3. Link
    BY DEF Init, Link, OpenedHasConnection, HandleIsConnection, OpeningIsUnderWay, NeverWedged
  <1>4. Owners
    BY DEF Init, Owners, OneOwner, OwnerKnows, Owning
  <1>5. QED
    BY <1>2, <1>3, <1>4, TypeInit, Parts

\* The queue of a state the invariant admits, for the lemmas above.
LEMMA QueueTyped ==
    ASSUME IInv
    PROVE  /\ posted \in Seq(Handlers)
           /\ "dial" \in Handlers /\ "close" \in Handlers /\ "reconnect" \in Handlers
  BY DEF IInv, TypeOK, Handlers

LEMMA ConnectBeginKeeps ==
    ASSUME IInv, NEW t \in Threads, ConnectBegin(t)
    PROVE  Flight' /\ Link' /\ Owners'
  <1> USE DEF ConnectBegin, NoOwner, linkVars
  <1>1. /\ Has("dial")' <=> Has("dial")
        /\ Has("reconnect")' <=> Has("reconnect")
        /\ Once("dial")' <=> Once("dial")
        /\ Once("reconnect")' <=> Once("reconnect")
    BY QueueTyped, QueueUnchanged
  <1>2. Flight'
    BY <1>1, AttemptsAssumption
       DEF IInv, TypeOK, Flight, SingleFlight, AttemptsRespected, Quiet, InHandler,
           HandleIsConnection, OwnerKnows
  <1>3. Link'
    BY <1>1
       DEF IInv, TypeOK, Link, OpenedHasConnection, HandleIsConnection, OpeningIsUnderWay,
           NeverWedged, SingleFlight, InHandler, Quiet, OwnerKnows, OneOwner, Owning, ConStates
  <1>4. Owners'
    BY DEF IInv, TypeOK, Owners, OneOwner, OwnerKnows, Owning, Quiet
  <1>5. QED
    BY <1>2, <1>3, <1>4

LEMMA ConnectJoinedKeeps ==
    ASSUME IInv, NEW t \in Threads, ConnectJoined(t)
    PROVE  Flight' /\ Link' /\ Owners'
  <1> USE DEF ConnectJoined, linkVars
  <1>1. /\ Has("dial")' <=> Has("dial")
        /\ Has("reconnect")' <=> Has("reconnect")
        /\ Once("dial")' <=> Once("dial")
        /\ Once("reconnect")' <=> Once("reconnect")
    BY QueueTyped, QueueUnchanged
  <1>2. Flight'
    BY <1>1, AttemptsAssumption
       DEF IInv, TypeOK, Flight, SingleFlight, AttemptsRespected, Quiet, InHandler,
           HandleIsConnection, OwnerKnows
  <1>3. Link'
    BY <1>1
       DEF IInv, TypeOK, Link, OpenedHasConnection, HandleIsConnection, OpeningIsUnderWay,
           NeverWedged, SingleFlight, InHandler, Quiet, OwnerKnows, OneOwner, Owning, ConStates
  <1>4. Owners'
    BY DEF IInv, TypeOK, Owners, OneOwner, OwnerKnows, Owning, Quiet
  <1>5. QED
    BY <1>2, <1>3, <1>4

LEMMA ConnectStartKeeps ==
    ASSUME IInv, NEW t \in Threads, ConnectStart(t)
    PROVE  Flight' /\ Link' /\ Owners'
  <1> USE DEF ConnectStart, linkVars
  <1>1. /\ Has("dial")' <=> Has("dial")
        /\ Has("reconnect")' <=> Has("reconnect")
        /\ Once("dial")' <=> Once("dial")
        /\ Once("reconnect")' <=> Once("reconnect")
    BY QueueTyped, QueueUnchanged
  <1>2. Flight'
    BY <1>1, AttemptsAssumption
       DEF IInv, TypeOK, Flight, SingleFlight, AttemptsRespected, Quiet, InHandler,
           HandleIsConnection, OwnerKnows
  <1>3. Link'
    BY <1>1
       DEF IInv, TypeOK, Link, OpenedHasConnection, HandleIsConnection, OpeningIsUnderWay,
           NeverWedged, SingleFlight, InHandler, Quiet, OwnerKnows, OneOwner, Owning, ConStates
  <1>4. Owners'
    BY DEF IInv, TypeOK, Owners, OneOwner, OwnerKnows, Owning, Quiet
  <1>5. QED
    BY <1>2, <1>3, <1>4

LEMMA ConnectLaunchKeeps ==
    ASSUME IInv, NEW t \in Threads, ConnectLaunch(t)
    PROVE  Flight' /\ Link' /\ Owners'
  <1> USE DEF ConnectLaunch, linkVars
  <1>1. /\ Has("dial")'
        /\ Has("reconnect")' <=> Has("reconnect")
        /\ Once("dial") /\ ~Has("dial") => Once("dial")'
        /\ Once("reconnect") => Once("reconnect")'
    BY QueueTyped, QueueAppend
  <1>2. Flight'
    BY <1>1, AttemptsAssumption
       DEF IInv, TypeOK, Flight, SingleFlight, AttemptsRespected, Quiet, InHandler,
           HandleIsConnection, OwnerKnows
  <1>3. Link'
    BY <1>1
       DEF IInv, TypeOK, Link, OpenedHasConnection, HandleIsConnection, OpeningIsUnderWay,
           NeverWedged, SingleFlight, InHandler, Quiet, OwnerKnows, OneOwner, Owning, ConStates
  <1>4. Owners'
    BY DEF IInv, TypeOK, Owners, OneOwner, OwnerKnows, Owning, Quiet
  <1>5. QED
    BY <1>2, <1>3, <1>4

LEMMA CloseBeginKeeps ==
    ASSUME IInv, NEW t \in Threads, CloseBegin(t)
    PROVE  Flight' /\ Link' /\ Owners'
  <1> USE DEF CloseBegin, NoOwner, linkVars
  <1>1. /\ Has("dial")' <=> Has("dial")
        /\ Has("reconnect")' <=> Has("reconnect")
        /\ Once("dial")' <=> Once("dial")
        /\ Once("reconnect")' <=> Once("reconnect")
    BY QueueTyped, QueueUnchanged
  <1>2. Flight'
    BY <1>1, AttemptsAssumption
       DEF IInv, TypeOK, Flight, SingleFlight, AttemptsRespected, Quiet, InHandler,
           HandleIsConnection, OwnerKnows
  <1>3. Link'
    BY <1>1
       DEF IInv, TypeOK, Link, OpenedHasConnection, HandleIsConnection, OpeningIsUnderWay,
           NeverWedged, SingleFlight, InHandler, Quiet, OwnerKnows, OneOwner, Owning, ConStates
  <1>4. Owners'
    BY DEF IInv, TypeOK, Owners, OneOwner, OwnerKnows, Owning, Quiet
  <1>5. QED
    BY <1>2, <1>3, <1>4

LEMMA ClosePostKeeps ==
    ASSUME IInv, NEW t \in Threads, ClosePost(t)
    PROVE  Flight' /\ Link' /\ Owners'
  <1> USE DEF ClosePost, linkVars
  <1>1. /\ Has("dial")' <=> Has("dial")
        /\ Has("reconnect")' <=> Has("reconnect")
        /\ Once("dial") => Once("dial")'
        /\ Once("reconnect") => Once("reconnect")'
    BY QueueTyped, QueueAppend
  <1>2. Flight'
    BY <1>1, AttemptsAssumption
       DEF IInv, TypeOK, Flight, SingleFlight, AttemptsRespected, Quiet, InHandler,
           HandleIsConnection, OwnerKnows
  <1>3. Link'
    BY <1>1
       DEF IInv, TypeOK, Link, OpenedHasConnection, HandleIsConnection, OpeningIsUnderWay,
           NeverWedged, SingleFlight, InHandler, Quiet, OwnerKnows, OneOwner, Owning, ConStates
  <1>4. Owners'
    BY DEF IInv, TypeOK, Owners, OneOwner, OwnerKnows, Owning, Quiet
  <1>5. QED
    BY <1>2, <1>3, <1>4

LEMMA SyncCloseJoinedKeeps ==
    ASSUME IInv, NEW t \in Threads, SyncCloseJoined(t)
    PROVE  Flight' /\ Link' /\ Owners'
  <1> USE DEF SyncCloseJoined, linkVars
  <1>1. /\ Has("dial")' <=> Has("dial")
        /\ Has("reconnect")' <=> Has("reconnect")
        /\ Once("dial")' <=> Once("dial")
        /\ Once("reconnect")' <=> Once("reconnect")
    BY QueueTyped, QueueUnchanged
  <1>2. Flight'
    BY <1>1, AttemptsAssumption
       DEF IInv, TypeOK, Flight, SingleFlight, AttemptsRespected, Quiet, InHandler,
           HandleIsConnection, OwnerKnows
  <1>3. Link'
    BY <1>1
       DEF IInv, TypeOK, Link, OpenedHasConnection, HandleIsConnection, OpeningIsUnderWay,
           NeverWedged, SingleFlight, InHandler, Quiet, OwnerKnows, OneOwner, Owning, ConStates
  <1>4. Owners'
    BY DEF IInv, TypeOK, Owners, OneOwner, OwnerKnows, Owning, Quiet
  <1>5. QED
    BY <1>2, <1>3, <1>4

LEMMA RunConnectImplKeeps ==
    ASSUME IInv, RunConnectImpl
    PROVE  Flight' /\ Link' /\ Owners'
  <1> USE DEF RunConnectImpl, ConnectImpl, TakeHandler, NetIdle, linkVars, appVars
  <1>1. /\ Once("dial") => Has("dial") /\ ~Has("dial")'
        /\ Has("reconnect")' <=> Has("reconnect")
        /\ Once("dial") => Once("dial")'
        /\ Once("reconnect") => Once("reconnect")'
    BY QueueTyped, QueueTail
  <1>2. Flight'
    BY <1>1, AttemptsAssumption
       DEF IInv, TypeOK, Flight, SingleFlight, AttemptsRespected, Quiet, InHandler,
           HandleIsConnection, OwnerKnows
  <1>3. Link'
    <2>1. con = "none" /\ net = "idle" /\ conState # "opened" /\ ~hdl /\ thread = "running"
      BY <1>1 DEF IInv, SingleFlight, OpenedHasConnection, HandleIsConnection
    <2>2. OpenedHasConnection' /\ NeverWedged'
      BY <2>1 DEF OpenedHasConnection, NeverWedged
    <2>3. HandleIsConnection'
      BY <2>1 DEF HandleIsConnection
    <2>4. OpeningIsUnderWay'
      BY <2>1 DEF OpeningIsUnderWay
    <2>5. QED
      BY <2>2, <2>3, <2>4 DEF Link
  <1>4. Owners'
    BY DEF IInv, TypeOK, Owners, OneOwner, OwnerKnows, Owning, Quiet
  <1>5. QED
    BY <1>2, <1>3, <1>4

LEMMA RunCloseImplKeeps ==
    ASSUME IInv, RunCloseImpl
    PROVE  Flight' /\ Link' /\ Owners'
  <1> USE DEF RunCloseImpl, CloseImpl, TakeHandler, NetIdle, appVars
  <1>1. /\ Has("dial")' <=> Has("dial")
        /\ Has("reconnect")' <=> Has("reconnect")
        /\ Once("dial") => Once("dial")'
        /\ Once("reconnect") => Once("reconnect")'
    BY QueueTyped, QueueTail
  <1>2. Flight'
    BY <1>1, AttemptsAssumption
       DEF IInv, TypeOK, Flight, SingleFlight, AttemptsRespected, Quiet, InHandler,
           HandleIsConnection, OwnerKnows
  <1>3. Link'
    BY <1>1
       DEF IInv, TypeOK, Link, OpenedHasConnection, HandleIsConnection, OpeningIsUnderWay,
           NeverWedged, SingleFlight, InHandler, Quiet, OwnerKnows, OneOwner, Owning, ConStates
  <1>4. Owners'
    BY DEF IInv, TypeOK, Owners, OneOwner, OwnerKnows, Owning, Quiet
  <1>5. QED
    BY <1>2, <1>3, <1>4

LEMMA ServerEndsSessionKeeps ==
    ASSUME IInv, ServerEndsSession
    PROVE  Flight' /\ Link' /\ Owners'
  <1> USE DEF ServerEndsSession, CloseImpl, NetIdle, appVars
  <1>1. /\ Has("dial")' <=> Has("dial")
        /\ Has("reconnect")' <=> Has("reconnect")
        /\ Once("dial")' <=> Once("dial")
        /\ Once("reconnect")' <=> Once("reconnect")
    BY QueueTyped, QueueUnchanged
  <1>2. Flight'
    BY <1>1, AttemptsAssumption
       DEF IInv, TypeOK, Flight, SingleFlight, AttemptsRespected, Quiet, InHandler,
           HandleIsConnection, OwnerKnows
  <1>3. Link'
    BY <1>1
       DEF IInv, TypeOK, Link, OpenedHasConnection, HandleIsConnection, OpeningIsUnderWay,
           NeverWedged, SingleFlight, InHandler, Quiet, OwnerKnows, OneOwner, Owning, ConStates
  <1>4. Owners'
    BY DEF IInv, TypeOK, Owners, OneOwner, OwnerKnows, Owning, Quiet
  <1>5. QED
    BY <1>2, <1>3, <1>4

LEMMA OnOpenKeeps ==
    ASSUME IInv, OnOpen
    PROVE  Flight' /\ Link' /\ Owners'
  <1> USE DEF OnOpen, OpenedWhileClosing, NetIdle, appVars
  <1>1. /\ Has("dial")' <=> Has("dial")
        /\ Has("reconnect")' <=> Has("reconnect")
        /\ Once("dial")' <=> Once("dial")
        /\ Once("reconnect")' <=> Once("reconnect")
    BY QueueTyped, QueueUnchanged
  <1>2. Flight'
    BY <1>1, AttemptsAssumption
       DEF IInv, TypeOK, Flight, SingleFlight, AttemptsRespected, Quiet, InHandler,
           HandleIsConnection, OwnerKnows
  <1>3. Link'
    BY <1>1
       DEF IInv, TypeOK, Link, OpenedHasConnection, HandleIsConnection, OpeningIsUnderWay,
           NeverWedged, SingleFlight, InHandler, Quiet, OwnerKnows, OneOwner, Owning, ConStates
  <1>4. Owners'
    BY DEF IInv, TypeOK, Owners, OneOwner, OwnerKnows, Owning, Quiet
  <1>5. QED
    BY <1>2, <1>3, <1>4

LEMMA OnOpenFinishKeeps ==
    ASSUME IInv, OnOpenFinish
    PROVE  Flight' /\ Link' /\ Owners'
  <1> USE DEF OnOpenFinish, appVars
  <1>1. /\ Has("dial")' <=> Has("dial")
        /\ Has("reconnect")' <=> Has("reconnect")
        /\ Once("dial")' <=> Once("dial")
        /\ Once("reconnect")' <=> Once("reconnect")
    BY QueueTyped, QueueUnchanged
  <1>2. Flight'
    BY <1>1, AttemptsAssumption
       DEF IInv, TypeOK, Flight, SingleFlight, AttemptsRespected, Quiet, InHandler,
           HandleIsConnection, OwnerKnows
  <1>3. Link'
    BY <1>1
       DEF IInv, TypeOK, Link, OpenedHasConnection, HandleIsConnection, OpeningIsUnderWay,
           NeverWedged, SingleFlight, InHandler, Quiet, OwnerKnows, OneOwner, Owning, ConStates
  <1>4. Owners'
    BY DEF IInv, TypeOK, Owners, OneOwner, OwnerKnows, Owning, Quiet
  <1>5. QED
    BY <1>2, <1>3, <1>4

LEMMA OnFailKeeps ==
    ASSUME IInv, OnFail
    PROVE  Flight' /\ Link' /\ Owners'
  <1> USE DEF OnFail, NetIdle, appVars
  <1>1. /\ Has("dial")' <=> Has("dial")
        /\ Has("reconnect")' <=> Has("reconnect")
        /\ Once("dial")' <=> Once("dial")
        /\ Once("reconnect")' <=> Once("reconnect")
    BY QueueTyped, QueueUnchanged
  <1>2. Flight'
    BY <1>1, AttemptsAssumption
       DEF IInv, TypeOK, Flight, SingleFlight, AttemptsRespected, Quiet, InHandler,
           HandleIsConnection, OwnerKnows
  <1>3. Link'
    BY <1>1
       DEF IInv, TypeOK, Link, OpenedHasConnection, HandleIsConnection, OpeningIsUnderWay,
           NeverWedged, SingleFlight, InHandler, Quiet, OwnerKnows, OneOwner, Owning, ConStates
  <1>4. Owners'
    BY DEF IInv, TypeOK, Owners, OneOwner, OwnerKnows, Owning, Quiet
  <1>5. QED
    BY <1>2, <1>3, <1>4

LEMMA OnFailResetKeeps ==
    ASSUME IInv, OnFailReset
    PROVE  Flight' /\ Link' /\ Owners'
  <1> USE DEF OnFailReset, appVars
  <1>1. /\ Has("dial")' <=> Has("dial")
        /\ Has("reconnect")' <=> Has("reconnect")
        /\ Once("dial")' <=> Once("dial")
        /\ Once("reconnect")' <=> Once("reconnect")
    BY QueueTyped, QueueUnchanged
  <1>2. Flight'
    BY <1>1, AttemptsAssumption
       DEF IInv, TypeOK, Flight, SingleFlight, AttemptsRespected, Quiet, InHandler,
           HandleIsConnection, OwnerKnows
  <1>3. Link'
    BY <1>1
       DEF IInv, TypeOK, Link, OpenedHasConnection, HandleIsConnection, OpeningIsUnderWay,
           NeverWedged, SingleFlight, InHandler, Quiet, OwnerKnows, OneOwner, Owning, ConStates
  <1>4. Owners'
    BY DEF IInv, TypeOK, Owners, OneOwner, OwnerKnows, Owning, Quiet
  <1>5. QED
    BY <1>2, <1>3, <1>4

LEMMA OnCloseKeeps ==
    ASSUME IInv, OnClose
    PROVE  Flight' /\ Link' /\ Owners'
  <1> USE DEF OnClose, NetIdle, appVars
  <1>1. /\ Has("dial")' <=> Has("dial")
        /\ Has("reconnect")' <=> Has("reconnect")
        /\ Once("dial")' <=> Once("dial")
        /\ Once("reconnect")' <=> Once("reconnect")
    BY QueueTyped, QueueUnchanged
  <1>2. Flight'
    BY <1>1, AttemptsAssumption
       DEF IInv, TypeOK, Flight, SingleFlight, AttemptsRespected, Quiet, InHandler,
           HandleIsConnection, OwnerKnows
  <1>3. Link'
    BY <1>1
       DEF IInv, TypeOK, Link, OpenedHasConnection, HandleIsConnection, OpeningIsUnderWay,
           NeverWedged, SingleFlight, InHandler, Quiet, OwnerKnows, OneOwner, Owning, ConStates
  <1>4. Owners'
    BY DEF IInv, TypeOK, Owners, OneOwner, OwnerKnows, Owning, Quiet
  <1>5. QED
    BY <1>2, <1>3, <1>4

LEMMA OnCloseResetKeeps ==
    ASSUME IInv, OnCloseReset
    PROVE  Flight' /\ Link' /\ Owners'
  <1> USE DEF OnCloseReset, appVars
  <1>1. /\ Has("dial")' <=> Has("dial")
        /\ Has("reconnect")' <=> Has("reconnect")
        /\ Once("dial")' <=> Once("dial")
        /\ Once("reconnect")' <=> Once("reconnect")
    BY QueueTyped, QueueUnchanged
  <1>2. Flight'
    BY <1>1, AttemptsAssumption
       DEF IInv, TypeOK, Flight, SingleFlight, AttemptsRespected, Quiet, InHandler,
           HandleIsConnection, OwnerKnows
  <1>3. Link'
    BY <1>1
       DEF IInv, TypeOK, Link, OpenedHasConnection, HandleIsConnection, OpeningIsUnderWay,
           NeverWedged, SingleFlight, InHandler, Quiet, OwnerKnows, OneOwner, Owning, ConStates
  <1>4. Owners'
    BY DEF IInv, TypeOK, Owners, OneOwner, OwnerKnows, Owning, Quiet
  <1>5. QED
    BY <1>2, <1>3, <1>4

LEMMA RearmKeeps ==
    ASSUME IInv, Rearm
    PROVE  Flight' /\ Link' /\ Owners'
  <1> USE DEF Rearm, MayRetry, linkVars, appVars
  <1>1. /\ Has("dial")' <=> Has("dial")
        /\ Has("reconnect")' <=> Has("reconnect")
        /\ Once("dial")' <=> Once("dial")
        /\ Once("reconnect")' <=> Once("reconnect")
    BY QueueTyped, QueueUnchanged
  <1>2. Flight'
    BY <1>1, AttemptsAssumption
       DEF IInv, TypeOK, Flight, SingleFlight, AttemptsRespected, Quiet, InHandler,
           HandleIsConnection, OwnerKnows
  <1>3. Link'
    BY <1>1
       DEF IInv, TypeOK, Link, OpenedHasConnection, HandleIsConnection, OpeningIsUnderWay,
           NeverWedged, SingleFlight, InHandler, Quiet, OwnerKnows, OneOwner, Owning, ConStates
  <1>4. Owners'
    BY DEF IInv, TypeOK, Owners, OneOwner, OwnerKnows, Owning, Quiet
  <1>5. QED
    BY <1>2, <1>3, <1>4

LEMMA ReconnTimerExpiresKeeps ==
    ASSUME IInv, ReconnTimerExpires
    PROVE  Flight' /\ Link' /\ Owners'
  <1> USE DEF ReconnTimerExpires, linkVars, appVars
  <1>1. /\ Has("dial")' <=> Has("dial")
        /\ Has("reconnect")'
        /\ Once("dial") => Once("dial")'
        /\ Once("reconnect") /\ ~Has("reconnect") => Once("reconnect")'
    BY QueueTyped, QueueAppend
  <1>2. Flight'
    BY <1>1, AttemptsAssumption
       DEF IInv, TypeOK, Flight, SingleFlight, AttemptsRespected, Quiet, InHandler,
           HandleIsConnection, OwnerKnows
  <1>3. Link'
    BY <1>1
       DEF IInv, TypeOK, Link, OpenedHasConnection, HandleIsConnection, OpeningIsUnderWay,
           NeverWedged, SingleFlight, InHandler, Quiet, OwnerKnows, OneOwner, Owning, ConStates
  <1>4. Owners'
    BY DEF IInv, TypeOK, Owners, OneOwner, OwnerKnows, Owning, Quiet
  <1>5. QED
    BY <1>2, <1>3, <1>4

LEMMA TimeoutReconnectKeeps ==
    ASSUME IInv, TimeoutReconnect
    PROVE  Flight' /\ Link' /\ Owners'
  <1> USE DEF TimeoutReconnect, TakeHandler, NetIdle, linkVars, appVars
  <1>1. /\ Has("dial")' <=> Has("dial")
        /\ Once("reconnect") => Has("reconnect") /\ ~Has("reconnect")'
        /\ Once("dial") => Once("dial")'
        /\ Once("reconnect") => Once("reconnect")'
    BY QueueTyped, QueueTail
  <1>2. Flight'
    BY <1>1, AttemptsAssumption
       DEF IInv, TypeOK, Flight, SingleFlight, AttemptsRespected, Quiet, InHandler,
           HandleIsConnection, OwnerKnows
  <1>3. Link'
    BY <1>1
       DEF IInv, TypeOK, Link, OpenedHasConnection, HandleIsConnection, OpeningIsUnderWay,
           NeverWedged, SingleFlight, InHandler, Quiet, OwnerKnows, OneOwner, Owning, ConStates
  <1>4. Owners'
    BY DEF IInv, TypeOK, Owners, OneOwner, OwnerKnows, Owning, Quiet
  <1>5. QED
    BY <1>2, <1>3, <1>4

LEMMA TimeoutReconnectDialKeeps ==
    ASSUME IInv, TimeoutReconnectDial
    PROVE  Flight' /\ Link' /\ Owners'
  <1> USE DEF TimeoutReconnectDial, Counted, appVars
  <1>1. /\ Has("dial")' <=> Has("dial")
        /\ Has("reconnect")' <=> Has("reconnect")
        /\ Once("dial")' <=> Once("dial")
        /\ Once("reconnect")' <=> Once("reconnect")
    BY QueueTyped, QueueUnchanged
  <1>2. Flight'
    BY <1>1, AttemptsAssumption
       DEF IInv, TypeOK, Flight, SingleFlight, AttemptsRespected, Quiet, InHandler,
           HandleIsConnection, OwnerKnows
  <1>3. Link'
    BY <1>1
       DEF IInv, TypeOK, Link, OpenedHasConnection, HandleIsConnection, OpeningIsUnderWay,
           NeverWedged, SingleFlight, InHandler, Quiet, OwnerKnows, OneOwner, Owning, ConStates
  <1>4. Owners'
    BY DEF IInv, TypeOK, Owners, OneOwner, OwnerKnows, Owning, Quiet
  <1>5. QED
    BY <1>2, <1>3, <1>4

LEMMA NspTimerArmedKeeps ==
    ASSUME IInv, NspTimerArmed
    PROVE  Flight' /\ Link' /\ Owners'
  <1> USE DEF NspTimerArmed, linkVars, appVars
  <1>1. /\ Has("dial")' <=> Has("dial")
        /\ Has("reconnect")' <=> Has("reconnect")
        /\ Once("dial")' <=> Once("dial")
        /\ Once("reconnect")' <=> Once("reconnect")
    BY QueueTyped, QueueUnchanged
  <1>2. Flight'
    BY <1>1, AttemptsAssumption
       DEF IInv, TypeOK, Flight, SingleFlight, AttemptsRespected, Quiet, InHandler,
           HandleIsConnection, OwnerKnows
  <1>3. Link'
    BY <1>1
       DEF IInv, TypeOK, Link, OpenedHasConnection, HandleIsConnection, OpeningIsUnderWay,
           NeverWedged, SingleFlight, InHandler, Quiet, OwnerKnows, OneOwner, Owning, ConStates
  <1>4. Owners'
    BY DEF IInv, TypeOK, Owners, OneOwner, OwnerKnows, Owning, Quiet
  <1>5. QED
    BY <1>2, <1>3, <1>4

LEMMA NspTimerEndsKeeps ==
    ASSUME IInv, NspTimerEnds
    PROVE  Flight' /\ Link' /\ Owners'
  <1> USE DEF NspTimerEnds, NetIdle, linkVars, appVars
  <1>1. /\ Has("dial")' <=> Has("dial")
        /\ Has("reconnect")' <=> Has("reconnect")
        /\ Once("dial")' <=> Once("dial")
        /\ Once("reconnect")' <=> Once("reconnect")
    BY QueueTyped, QueueUnchanged
  <1>2. Flight'
    BY <1>1, AttemptsAssumption
       DEF IInv, TypeOK, Flight, SingleFlight, AttemptsRespected, Quiet, InHandler,
           HandleIsConnection, OwnerKnows
  <1>3. Link'
    BY <1>1
       DEF IInv, TypeOK, Link, OpenedHasConnection, HandleIsConnection, OpeningIsUnderWay,
           NeverWedged, SingleFlight, InHandler, Quiet, OwnerKnows, OneOwner, Owning, ConStates
  <1>4. Owners'
    BY DEF IInv, TypeOK, Owners, OneOwner, OwnerKnows, Owning, Quiet
  <1>5. QED
    BY <1>2, <1>3, <1>4

LEMMA RunLoopEndsKeeps ==
    ASSUME IInv, RunLoopEnds
    PROVE  Flight' /\ Link' /\ Owners'
  <1> USE DEF RunLoopEnds, NetIdle, linkVars
  <1>1. /\ Has("dial")' <=> Has("dial")
        /\ Has("reconnect")' <=> Has("reconnect")
        /\ Once("dial")' <=> Once("dial")
        /\ Once("reconnect")' <=> Once("reconnect")
    BY QueueTyped, QueueUnchanged
  <1>2. ~Has("dial") /\ ~Has("reconnect")
    BY DEF RunLoopEnds, Has
  <1>3. Flight'
    BY <1>1, <1>2, AttemptsAssumption
       DEF IInv, TypeOK, Flight, SingleFlight, AttemptsRespected, Quiet, InHandler,
           HandleIsConnection, OwnerKnows
  <1>4. Link'
    BY <1>1, <1>2
       DEF IInv, TypeOK, Link, OpenedHasConnection, HandleIsConnection, OpeningIsUnderWay,
           NeverWedged, SingleFlight, InHandler, Quiet, OwnerKnows, OneOwner, Owning, ConStates
  <1>5. Owners'
    BY DEF IInv, TypeOK, Owners, OneOwner, OwnerKnows, Owning, Quiet
  <1>6. QED
    BY <1>3, <1>4, <1>5

\* Every step keeps the invariant.
LEMMA InvStep == IInv /\ [Next]_vars => IInv'
  <1> SUFFICES ASSUME IInv, [Next]_vars
               PROVE  Flight' /\ Link' /\ Owners'
    BY TypeStep, Parts DEF IInv, Flight, Link, Owners
  <1>1. ASSUME NEW t \in Threads, ConnectBegin(t)
        PROVE  Flight' /\ Link' /\ Owners'
    BY <1>1, ConnectBeginKeeps
  <1>2. ASSUME NEW t \in Threads, ConnectJoined(t)
        PROVE  Flight' /\ Link' /\ Owners'
    BY <1>2, ConnectJoinedKeeps
  <1>3. ASSUME NEW t \in Threads, ConnectStart(t)
        PROVE  Flight' /\ Link' /\ Owners'
    BY <1>3, ConnectStartKeeps
  <1>4. ASSUME NEW t \in Threads, ConnectLaunch(t)
        PROVE  Flight' /\ Link' /\ Owners'
    BY <1>4, ConnectLaunchKeeps
  <1>5. ASSUME NEW t \in Threads, CloseBegin(t)
        PROVE  Flight' /\ Link' /\ Owners'
    BY <1>5, CloseBeginKeeps
  <1>6. ASSUME NEW t \in Threads, ClosePost(t)
        PROVE  Flight' /\ Link' /\ Owners'
    BY <1>6, ClosePostKeeps
  <1>7. ASSUME NEW t \in Threads, SyncCloseJoined(t)
        PROVE  Flight' /\ Link' /\ Owners'
    BY <1>7, SyncCloseJoinedKeeps
  <1>8. ASSUME RunConnectImpl
        PROVE  Flight' /\ Link' /\ Owners'
    BY <1>8, RunConnectImplKeeps
  <1>9. ASSUME RunCloseImpl
        PROVE  Flight' /\ Link' /\ Owners'
    BY <1>9, RunCloseImplKeeps
  <1>10. ASSUME ServerEndsSession
        PROVE  Flight' /\ Link' /\ Owners'
    BY <1>10, ServerEndsSessionKeeps
  <1>11. ASSUME OnOpen
        PROVE  Flight' /\ Link' /\ Owners'
    BY <1>11, OnOpenKeeps
  <1>12. ASSUME OnOpenFinish
        PROVE  Flight' /\ Link' /\ Owners'
    BY <1>12, OnOpenFinishKeeps
  <1>13. ASSUME OnFail
        PROVE  Flight' /\ Link' /\ Owners'
    BY <1>13, OnFailKeeps
  <1>14. ASSUME OnFailReset
        PROVE  Flight' /\ Link' /\ Owners'
    BY <1>14, OnFailResetKeeps
  <1>15. ASSUME OnClose
        PROVE  Flight' /\ Link' /\ Owners'
    BY <1>15, OnCloseKeeps
  <1>16. ASSUME OnCloseReset
        PROVE  Flight' /\ Link' /\ Owners'
    BY <1>16, OnCloseResetKeeps
  <1>17. ASSUME Rearm
        PROVE  Flight' /\ Link' /\ Owners'
    BY <1>17, RearmKeeps
  <1>18. ASSUME ReconnTimerExpires
        PROVE  Flight' /\ Link' /\ Owners'
    BY <1>18, ReconnTimerExpiresKeeps
  <1>19. ASSUME TimeoutReconnect
        PROVE  Flight' /\ Link' /\ Owners'
    BY <1>19, TimeoutReconnectKeeps
  <1>20. ASSUME TimeoutReconnectDial
        PROVE  Flight' /\ Link' /\ Owners'
    BY <1>20, TimeoutReconnectDialKeeps
  <1>21. ASSUME NspTimerArmed
        PROVE  Flight' /\ Link' /\ Owners'
    BY <1>21, NspTimerArmedKeeps
  <1>22. ASSUME NspTimerEnds
        PROVE  Flight' /\ Link' /\ Owners'
    BY <1>22, NspTimerEndsKeeps
  <1>23. ASSUME RunLoopEnds
        PROVE  Flight' /\ Link' /\ Owners'
    BY <1>23, RunLoopEndsKeeps
  <1>24. CASE UNCHANGED vars
    <2>1. /\ Has("dial")' <=> Has("dial")
          /\ Has("reconnect")' <=> Has("reconnect")
          /\ Once("dial")' <=> Once("dial")
          /\ Once("reconnect")' <=> Once("reconnect")
      BY <1>24, QueueTyped, QueueUnchanged DEF vars
    <2>2. QED
      BY <1>24, <2>1 DEF vars, appVars, linkVars, IInv, Flight, Link, Owners,
         SingleFlight, AttemptsRespected, Quiet, InHandler, OpenedHasConnection,
         HandleIsConnection, OpeningIsUnderWay, NeverWedged, OneOwner, OwnerKnows
  <1>25. QED
    BY <1>1, <1>2, <1>3, <1>4, <1>5, <1>6, <1>7, <1>8, <1>9, <1>10, <1>11, <1>12,
       <1>13, <1>14, <1>15, <1>16, <1>17, <1>18, <1>19, <1>20, <1>21, <1>22, <1>23, <1>24
       DEF Next, Proceed, Handler, DialAnswered

-----------------------------------------------------------------------------
(* The properties.                                                         *)

\* The inductive invariant holds in every reachable state: the four properties
\* of the client below are among its conjuncts.
THEOREM Invariance == Spec => []IInv
  BY InvInit, InvStep, PTL DEF Spec

\* At most one attempt or connection is ever under way, whatever the
\* interleaving of connect(), close(), the timer and the queued handlers.
THEOREM OneFlight == Spec => []SingleFlight
  <1>1. IInv => SingleFlight
    BY DEF IInv
  <1>2. QED
    BY <1>1, Invariance, PTL

\* m_reconn_made never passes m_reconn_attempts.
THEOREM AttemptsBounded == Spec => []AttemptsRespected
  <1>1. IInv => AttemptsRespected
    BY DEF IInv
  <1>2. QED
    BY <1>1, Invariance, PTL

\* con_opened implies a connection that m_con refers to.
THEOREM OpenedIsLive == Spec => []OpenedHasConnection
  <1>1. IInv => OpenedHasConnection
    BY DEF IInv
  <1>2. QED
    BY <1>1, Invariance, PTL

\* Without a network thread connect() is never ignored.
THEOREM ConnectStaysPossible == Spec => []NeverWedged
  <1>1. IInv => NeverWedged
    BY DEF IInv
  <1>2. QED
    BY <1>1, Invariance, PTL
-----------------------------------------------------------------------------
(* SioClient implements SioAttempts.                                       *)

\* What SioAttempts knows of the client: thread t is about to queue its dial, or
\* the dial is queued; a retry waits for the timer, in the queue or in its handler.
Launching == \E t \in Threads : pc[t] = "launching"

LEMMA PromiseInit == Init => Promise!Init
  BY DEF Init, Promise!Init, Promise!Idle, Asked, Waiting, Has

\* Nothing is under way while m_network_thread does not run.
LEMMA LaunchesAlone ==
    ASSUME IInv, Launching
    PROVE  /\ ~Has("dial") /\ ~Waiting
           /\ con = "none" /\ net = "idle" /\ thread = "none"
  BY DEF IInv, OwnerKnows, Quiet, Launching, Waiting

\* An attempt that connect() asked for, a retry and a link exclude each other.
LEMMA Exclusive ==
    ASSUME IInv
    PROVE  /\ Asked => con = "none" /\ ~Waiting /\ net = "idle"
           /\ Waiting => con = "none" /\ ~Asked /\ made < Attempts
           /\ InHandler => con = "none" /\ ~Asked
           /\ net \in {"rearmFail", "rearmClose"} => ~Waiting
  <1>1. Has("dial") => con = "none" /\ ~Waiting /\ net = "idle"
    BY DEF IInv, SingleFlight, Waiting
  <1>2. Launching => con = "none" /\ ~Waiting /\ net = "idle"
    BY LaunchesAlone
  <1>3. Waiting => con = "none" /\ made < Attempts
    BY DEF IInv, SingleFlight, AttemptsRespected, InHandler, Waiting
  <1>4. InHandler => con = "none"
    BY DEF IInv, SingleFlight
  <1>5. net \in {"rearmFail", "rearmClose"} => ~Waiting
    BY DEF IInv, SingleFlight, Waiting
  <1> QED
    BY <1>1, <1>2, <1>3, <1>4, <1>5 DEF Asked, Launching, InHandler

LEMMA Stutters ==
    ASSUME con' = con, made' = made, Asked' <=> Asked, Waiting' <=> Waiting
    PROVE  [Promise!Next]_Promise!vars
  <1>1. Asked' = Asked /\ Waiting' = Waiting
    BY Zenon DEF Asked, Waiting, Has
  <1> QED
    BY <1>1 DEF Promise!vars

LEMMA ApplicationPromises ==
    ASSUME IInv, NEW t \in Threads,
           ConnectBegin(t) \/ CloseBegin(t) \/ Proceed(t)
    PROVE  [Promise!Next]_Promise!vars
  <1> USE QueueTyped
  <1>1. CASE ConnectBegin(t)
    <2>1. Asked' <=> Asked
      BY <1>1, QueueUnchanged DEF ConnectBegin, IInv, TypeOK, Asked
    <2>2. Waiting' <=> Has("reconnect") \/ net = "reconnect"
      BY <1>1, QueueUnchanged DEF ConnectBegin, Waiting
    <2> QED
      BY <1>1, <2>1, <2>2
      DEF ConnectBegin, linkVars, Waiting, Promise!Next, Promise!Cancel, Promise!vars
  <1>2. CASE ConnectJoined(t)
    <2>1. (Asked' <=> Asked) /\ (Waiting' <=> Waiting)
      BY <1>2, QueueUnchanged DEF ConnectJoined, IInv, TypeOK, Asked, Waiting
    <2> QED
      BY <1>2, <2>1, Stutters DEF ConnectJoined, linkVars
  <1>3. CASE ConnectStart(t)
    <2>1. thread = "none" /\ con = "none" /\ ~Has("dial") /\ ~Waiting
      BY <1>3 DEF ConnectStart, IInv, OwnerKnows, Quiet, Waiting
    <2>2. ~Launching
      BY <1>3 DEF ConnectStart, Launching, IInv, OneOwner, Owning
    <2>3. Asked' /\ (Waiting' <=> Waiting)
      BY <1>3, QueueUnchanged DEF ConnectStart, IInv, TypeOK, Asked, Waiting
    <2> QED
      BY <1>3, <2>1, <2>2, <2>3
      DEF ConnectStart, linkVars, Asked, Launching, Waiting, Promise!Next, Promise!Ask, Promise!Idle
  <1>4. CASE ConnectLaunch(t)
    <2>1. Asked /\ Asked' /\ (Waiting' <=> Waiting)
      BY <1>4, QueueAppend DEF ConnectLaunch, Asked, Waiting
    <2> QED
      BY <1>4, <2>1, Stutters DEF ConnectLaunch, linkVars
  <1>5. CASE CloseBegin(t)
    <2>1. (Asked' <=> Asked) /\ (Waiting' <=> Waiting)
      BY <1>5, QueueUnchanged DEF CloseBegin, IInv, TypeOK, Asked, Waiting
    <2> QED
      BY <1>5, <2>1, Stutters DEF CloseBegin, linkVars
  <1>6. CASE ClosePost(t)
    <2>1. (Asked' <=> Asked) /\ (Waiting' <=> Waiting)
      BY <1>6, QueueAppend DEF ClosePost, IInv, TypeOK, Asked, Waiting
    <2> QED
      BY <1>6, <2>1, Stutters DEF ClosePost, linkVars
  <1>7. CASE SyncCloseJoined(t)
    <2>1. (Asked' <=> Asked) /\ (Waiting' <=> Waiting)
      BY <1>7, QueueUnchanged DEF SyncCloseJoined, IInv, TypeOK, Asked, Waiting
    <2> QED
      BY <1>7, <2>1, Stutters DEF SyncCloseJoined, linkVars
  <1> QED
    BY <1>1, <1>2, <1>3, <1>4, <1>5, <1>6, <1>7 DEF Proceed

\* A step that leaves the timer and the queue alone and does not change whether a
\* reconnection is being handled.
LEMMA PlansStay ==
    ASSUME IInv, posted' = posted, UNCHANGED <<pc, timerArmed>>,
           net' = "reconnect" <=> net = "reconnect"
    PROVE  (Asked' <=> Asked) /\ (Waiting' <=> Waiting)
  <1>1. (Has("dial")' <=> Has("dial")) /\ (Has("reconnect")' <=> Has("reconnect"))
    BY QueueTyped, QueueUnchanged
  <1> QED
    BY <1>1 DEF Asked, Waiting

\* A link that goes on or ends leaves what is planned alone.
LEMMA LinkGoes ==
    ASSUME IInv, made' = made, Asked' <=> Asked, Waiting' <=> Waiting,
           \/ con = "dialing" /\ con' \in {"open", "closing"}
           \/ con = "open" /\ con' = "closing"
           \/ con \in {"dialing", "open", "closing"} /\ con' = "none"
           \/ con' = con
    PROVE  [Promise!Next]_Promise!vars
  <1>1. Asked' = Asked /\ Waiting' = Waiting
    BY Zenon DEF Asked, Waiting, Has
  <1> QED
    BY <1>1 DEF Promise!Next, Promise!Opens, Promise!Closes, Promise!Ends, Promise!Goes,
                Promise!vars

LEMMA DialPromises ==
    ASSUME IInv, RunConnectImpl
    PROVE  [Promise!Next]_Promise!vars
  <1>1. /\ Has("dial") /\ ~Has("dial")'
        /\ Has("reconnect")' <=> Has("reconnect")
    BY QueueTyped, QueueTail DEF RunConnectImpl, TakeHandler, IInv, SingleFlight
  <1>2. thread = "running" /\ UNCHANGED pc
    BY DEF RunConnectImpl, TakeHandler, NetIdle, appVars
  <1>3. ~Launching
    BY <1>2, LaunchesAlone
  <1>4. Asked /\ ~Asked'
    BY <1>1, <1>2, <1>3 DEF Asked, Launching
  <1>5. ~Waiting /\ ~Waiting'
    BY <1>1, <1>4, Exclusive DEF Waiting, RunConnectImpl
  <1>6. Waiting' = Waiting
    BY <1>5, Zenon DEF Waiting, Has
  <1>7. Asked' = FALSE
    BY <1>4, Zenon DEF Asked, Has
  <1> QED
    BY <1>4, <1>5, <1>6, <1>7, Exclusive
       DEF RunConnectImpl, ConnectImpl, linkVars, Promise!Next, Promise!Dial, Promise!Begins

\* close_impl cancels a wait or starts the close handshake: a wait has no link.
LEMMA ClosePromises ==
    ASSUME IInv, made' = made, Asked' <=> Asked, timerArmed' = FALSE, net' = net,
           Has("reconnect")' <=> Has("reconnect"),
           con' = con \/ (con = "open" /\ con' = "closing")
    PROVE  [Promise!Next]_Promise!vars
  <1>1. Asked' = Asked
    BY Zenon DEF Asked, Has
  <1>2. CASE Waiting
    <2>1. con' = con
      BY <1>2, Exclusive
    <2>2. CASE Waiting'
      BY <1>2, <2>1, <2>2, Stutters
    <2>3. CASE ~Waiting'
      BY <1>1, <2>1, <2>3 DEF Promise!Next, Promise!Cancel
    <2> QED
      BY <2>2, <2>3
  <1>3. CASE ~Waiting
    <2>1. ~Waiting'
      BY <1>3 DEF Waiting
    <2> QED
      BY <1>3, <2>1, LinkGoes
  <1> QED
    BY <1>2, <1>3

LEMMA NetworkClosePromises ==
    ASSUME IInv, RunCloseImpl \/ ServerEndsSession
    PROVE  [Promise!Next]_Promise!vars
  <1>1. /\ Has("dial")' <=> Has("dial")
        /\ Has("reconnect")' <=> Has("reconnect")
    BY QueueTyped, QueueTail, QueueUnchanged DEF RunCloseImpl, ServerEndsSession, TakeHandler
  <1>2. made' = made /\ timerArmed' = FALSE /\ net' = net /\ UNCHANGED pc
    BY DEF RunCloseImpl, ServerEndsSession, CloseImpl, appVars
  <1>3. con' = con \/ (con = "open" /\ con' = "closing")
    BY DEF RunCloseImpl, ServerEndsSession, CloseImpl
  <1>4. Asked' <=> Asked
    BY <1>1, <1>2 DEF Asked
  <1> QED
    BY <1>1, <1>2, <1>3, <1>4, ClosePromises

\* The dial is answered: a link goes on or ends, on_open's rest confirms it.
LEMMA LinkPromises ==
    ASSUME IInv, DialAnswered \/ OnClose \/ OnOpenFinish
    PROVE  [Promise!Next]_Promise!vars
  <1>1. CASE DialAnswered
    <2>1. con = "dialing" /\ con' \in {"none", "open", "closing"} /\ net = "idle" /\ made' = made
      BY <1>1 DEF DialAnswered, OnOpen, OnFail, OpenedWhileClosing, NetIdle
    <2>2. ~timerArmed /\ timerArmed' = FALSE
      BY <1>1, <2>1 DEF DialAnswered, OnOpen, OnFail, OpenedWhileClosing, IInv, TypeOK, SingleFlight
    <2>3. UNCHANGED <<pc, timerArmed, posted>> /\ net' # "reconnect"
      BY <1>1, <2>1, <2>2 DEF DialAnswered, OnOpen, OnFail, OpenedWhileClosing, appVars, IInv, TypeOK
    <2> QED
      BY <2>1, <2>3, PlansStay, LinkGoes
  <1>2. CASE OnClose
    <2>1. /\ con \in {"open", "closing"} /\ con' = "none" /\ made' = made
          /\ UNCHANGED <<pc, timerArmed, posted>> /\ net = "idle" /\ net' = "onClose"
      BY <1>2 DEF OnClose, NetIdle, appVars
    <2> QED
      BY <2>1, PlansStay, LinkGoes
  <1>3. CASE OnOpenFinish
    <2>1. con = "open" /\ con' = con /\ made' = 0
      BY <1>3 DEF OnOpenFinish, IInv, HandleIsConnection
    <2>2. (Asked' <=> Asked) /\ (Waiting' <=> Waiting)
      BY <1>3, PlansStay DEF OnOpenFinish, appVars
    <2>3. Asked' = Asked /\ Waiting' = Waiting
      BY <2>2, Zenon DEF Asked, Waiting, Has
    <2> QED
      BY <2>1, <2>3 DEF Promise!Next, Promise!Confirm
  <1> QED
    BY <1>1, <1>2, <1>3

LEMMA RearmPromises ==
    ASSUME IInv, Rearm
    PROVE  [Promise!Next]_Promise!vars
  <1>1. /\ con = "none" /\ ~Asked /\ ~Waiting
        /\ con' = con /\ made' = made /\ net' = "idle"
    BY Exclusive DEF Rearm, InHandler, linkVars
  <1>2. (Has("dial")' <=> Has("dial")) /\ (Has("reconnect")' <=> Has("reconnect")) /\ pc' = pc
    BY QueueTyped, QueueUnchanged DEF Rearm, appVars
  <1>3. ~Asked'
    BY <1>1, <1>2 DEF Asked
  <1>4. CASE MayRetry
    <2>1. Waiting' /\ made < Attempts
      BY <1>4 DEF Rearm, MayRetry, Waiting
    <2>2. Waiting' = TRUE
      BY <2>1, Zenon DEF Waiting, Has
    <2>3. Asked' = Asked
      BY <1>1, <1>3, Zenon DEF Asked, Has
    <2> QED
      BY <1>1, <2>1, <2>2, <2>3 DEF Promise!Next, Promise!Wait, Promise!Idle
  <1>5. CASE ~MayRetry
    <2>1. ~Waiting'
      BY <1>1, <1>2, <1>5 DEF Rearm, Waiting
    <2> QED
      BY <1>1, <1>3, <2>1, Stutters
  <1> QED
    BY <1>4, <1>5

\* The wait goes from the timer to the queue, and from there to its handler, or
\* ends there.
LEMMA ReconnectPromises ==
    ASSUME IInv, ReconnTimerExpires \/ TimeoutReconnect \/ TimeoutReconnectDial
    PROVE  [Promise!Next]_Promise!vars
  <1>1. CASE ReconnTimerExpires
    <2>1. (Has("dial")' <=> Has("dial")) /\ Has("reconnect")' /\ UNCHANGED <<pc, con, made>>
      BY <1>1, QueueTyped, QueueAppend DEF ReconnTimerExpires, appVars, linkVars
    <2>2. Waiting /\ Waiting' /\ (Asked' <=> Asked)
      BY <1>1, <2>1 DEF ReconnTimerExpires, Waiting, Asked
    <2> QED
      BY <2>1, <2>2, Stutters
  <1>2. CASE TimeoutReconnect
    <2>1. /\ Has("reconnect") /\ ~Has("reconnect")' /\ ~timerArmed
          /\ Has("dial")' <=> Has("dial")
      BY <1>2, QueueTyped, QueueTail DEF TimeoutReconnect, TakeHandler, IInv, SingleFlight
    <2>2. UNCHANGED <<pc, con, made, timerArmed>>
      BY <1>2 DEF TimeoutReconnect, appVars, linkVars
    <2>3. (Asked' <=> Asked) /\ Waiting
      BY <2>1, <2>2 DEF Asked, Waiting
    <2>4. CASE Waiting'
      BY <2>2, <2>3, <2>4, Stutters
    <2>5. CASE ~Waiting'
      <3>1. Asked' = Asked
        BY <2>3, Zenon DEF Asked, Has
      <3> QED
        BY <2>2, <2>5, <3>1 DEF Promise!Next, Promise!Cancel
    <2> QED
      BY <2>4, <2>5
  <1>3. CASE TimeoutReconnectDial
    <2>1. (Has("dial")' <=> Has("dial")) /\ (Has("reconnect")' <=> Has("reconnect")) /\ pc' = pc
      BY <1>3, QueueTyped, QueueUnchanged DEF TimeoutReconnectDial, appVars
    <2>2. Waiting /\ net = "reconnect"
      BY <1>3 DEF TimeoutReconnectDial, Waiting
    <2>3. con = "none" /\ ~Asked
      BY <2>2, Exclusive
    <2>4. ~Asked'
      BY <2>1, <2>3 DEF Asked
    <2>5. ~Waiting'
      BY <1>3, <2>1 DEF TimeoutReconnectDial, Waiting, IInv, TypeOK, SingleFlight
    <2>6. con' \in {"none", "dialing"} /\ made' = made + 1
      BY <1>3, <2>3 DEF TimeoutReconnectDial, Counted
    <2>7. Asked' = Asked
      BY <2>3, <2>4, Zenon DEF Asked, Has
    <2>8. Waiting' = FALSE
      BY <2>5, Zenon DEF Waiting, Has
    <2> QED
      BY <2>2, <2>3, <2>6, <2>7, <2>8
         DEF Promise!Next, Promise!Redial, Promise!Begins
  <1> QED
    BY <1>1, <1>2, <1>3

\* The rest of the steps touch neither the link nor what is planned.
LEMMA OtherPromises ==
    ASSUME IInv,
           OnFailReset \/ OnCloseReset \/ NspTimerArmed \/ NspTimerEnds \/ RunLoopEnds
           \/ UNCHANGED vars
    PROVE  [Promise!Next]_Promise!vars
  <1>1. /\ UNCHANGED <<pc, timerArmed, posted, con, made>>
        /\ net' = "reconnect" <=> net = "reconnect"
    BY DEF OnFailReset, OnCloseReset, NspTimerArmed, NspTimerEnds, RunLoopEnds, NetIdle,
           appVars, linkVars, vars
  <1> QED
    BY <1>1, PlansStay, Stutters

LEMMA PromiseStep == IInv /\ [Next]_vars => [Promise!Next]_Promise!vars
  BY ApplicationPromises, DialPromises, NetworkClosePromises, LinkPromises, RearmPromises,
     ReconnectPromises, OtherPromises
     DEF Next, Handler

\* The client implements SioAttempts: one attempt per connect(), a retry only
\* while attempts are left, and none of them while a link is left, however calls,
\* handlers and the timer interleave.
THEOREM AttemptsKept == Spec => KeepsAttempts
  BY PromiseInit, PromiseStep, Invariance, PTL DEF Spec, KeepsAttempts, Promise!Spec
=============================================================================
