-------------------------- MODULE WsClientProofs ---------------------------
(***************************************************************************)
(* Proofs about WsClient for every set of threads and of connections: its  *)
(* inductive invariant, that WsClient implements WsContract, and that no   *)
(* connection is left without an owner when Connects do not overlap.       *)
(***************************************************************************)
EXTENDS WsClient, TLAPS

\* The initial state.
LEMMA InvInit == Init => IInv
  <1> SUFFICES ASSUME Init PROVE IInv
    OBVIOUS
  <1>1. TypeOK
    BY DEF Init, TypeOK, Calls, NoCall
  <1> QED
    BY <1>1 DEF Init, IInv, CallsFit, OneConnect, CallbacksFit, OverIsClosed, ClosesFirst, NoCall

-----------------------------------------------------------------------------
(* The invariant is kept: one lemma per action, one step per conjunct.     *)

\* Connect takes the connection out; the new one is fresh, and nobody else's.
LEMMA ConnectKeeps ==
  ASSUME IInv, NEW x \in Callers, Connect(x)
  PROVE  IInv'
  <1>1. TypeOK'
    BY NoneAssumption DEF IInv, TypeOK, Calls, Connect, TakeOut, CanCall,
       Unused, NoCall, connVars
  <1>2. CallsFit'
    BY NoneAssumption DEF IInv, TypeOK, Calls, CallsFit, CallbacksFit, Connect,
       TakeOut, CanCall, Unused, NoCall, connVars
  <1>3. OneConnect'
    <2>1. PICK c \in Unused : TakeOut(x, "start", c)
      BY DEF Connect
    <2>2. /\ c # None /\ current' = None
          /\ call'[x].new = c /\ call'[x].then = "start"
          /\ call'[x].at # "wait"
          /\ \A y \in Callers : y # x => call'[y] = call[y]
      BY <2>1, NoneAssumption DEF IInv, TypeOK, Calls, TakeOut, Unused
    <2>3. ~crossed' => \A y \in Callers : call[y].new = None
      BY DEF Connect
    <2> QED
      BY <2>2, <2>3 DEF IInv, OneConnect
  <1>4. CallbacksFit'
    BY NoneAssumption DEF IInv, TypeOK, Calls, CallsFit, CallbacksFit,
       OverIsClosed, Met, Connect, TakeOut, CanCall, Unused, NoCall, connVars
  <1>5. OverIsClosed'
    BY NoneAssumption DEF IInv, TypeOK, Calls, CallsFit, CallbacksFit,
       OverIsClosed, ClosesFirst, Connect, TakeOut, CanCall, Unused, NoCall,
       connVars
  <1>6. ClosesFirst'
    BY NoneAssumption DEF IInv, TypeOK, Calls, CallsFit, CallbacksFit,
       ClosesFirst, Connect, TakeOut, CanCall, Unused, NoCall, connVars
  <1> QED
    BY <1>1, <1>2, <1>3, <1>4, <1>5, <1>6 DEF IInv

\* The destructor.
LEMMA DestroyKeeps ==
  ASSUME IInv, NEW x \in Callers, Destroy(x)
  PROVE  IInv'
  <1>1. TypeOK'
    <2>1. CASE current = None
      BY <2>1 DEF IInv, TypeOK, Destroy, connVars
    <2>2. CASE current # None
      <3> DEFINE k == [at |-> "disable", conn |-> current, then |-> "idle", new |-> None]
      <3>1. call' = [call EXCEPT ![x] = k] /\ current' = None /\ alive' = FALSE
        BY <2>2 DEF Destroy, TakeOut
      <3>2. k \in Calls
        BY DEF IInv, TypeOK, Calls
      <3> QED
        BY <2>2, <3>1, <3>2 DEF IInv, TypeOK, Destroy, connVars
    <2> QED
      BY <2>1, <2>2
  <1>2. CallsFit'
    BY NoneAssumption DEF IInv, TypeOK, Calls, CallsFit, CallbacksFit, Destroy,
       TakeOut, CanCall, NoCall, connVars
  <1>3. OneConnect'
    BY NoneAssumption DEF IInv, TypeOK, Calls, OneConnect, CallsFit, Destroy,
       TakeOut, CanCall, NoCall, connVars
  <1>4. CallbacksFit'
    BY NoneAssumption DEF IInv, TypeOK, Calls, CallsFit, CallbacksFit,
       OverIsClosed, Met, Destroy, TakeOut, CanCall, NoCall, connVars
  <1>5. OverIsClosed'
    BY NoneAssumption DEF IInv, TypeOK, Calls, CallsFit, CallbacksFit,
       OverIsClosed, ClosesFirst, Destroy, TakeOut, CanCall, NoCall, connVars
  <1>6. ClosesFirst'
    BY NoneAssumption DEF IInv, TypeOK, Calls, CallsFit, CallbacksFit,
       ClosesFirst, Destroy, TakeOut, CanCall, NoCall, connVars
  <1> QED
    BY <1>1, <1>2, <1>3, <1>4, <1>5, <1>6 DEF IInv

\* Close and SyncClose.
LEMMA CloseKeeps ==
  ASSUME IInv, NEW x \in Callers, Close(x)
  PROVE  IInv'
  <1>1. TypeOK'
    BY NoneAssumption DEF IInv, TypeOK, Calls, Close, CanCall, NoCall, connVars
  <1>2. CallsFit'
    BY NoneAssumption DEF IInv, TypeOK, Calls, CallsFit, CallbacksFit, Close,
       CanCall, NoCall, connVars
  <1>3. OneConnect'
    BY NoneAssumption DEF IInv, TypeOK, Calls, OneConnect, CallsFit, Close,
       CanCall, NoCall, connVars
  <1>4. CallbacksFit'
    BY NoneAssumption DEF IInv, TypeOK, Calls, CallsFit, CallbacksFit,
       OverIsClosed, Met, Close, CanCall, NoCall, connVars
  <1>5. OverIsClosed'
    BY NoneAssumption DEF IInv, TypeOK, Calls, CallsFit, CallbacksFit,
       OverIsClosed, ClosesFirst, Close, CanCall, NoCall, connVars
  <1>6. ClosesFirst'
    BY NoneAssumption DEF IInv, TypeOK, Calls, CallsFit, CallbacksFit,
       ClosesFirst, Close, CanCall, NoCall, connVars
  <1> QED
    BY <1>1, <1>2, <1>3, <1>4, <1>5, <1>6 DEF IInv

\* The old connection's callbacks are disabled.
LEMMA DisableOldKeeps ==
  ASSUME IInv, NEW x \in Callers, DisableOld(x)
  PROVE  IInv'
  <1>1. TypeOK'
    BY NoneAssumption DEF IInv, TypeOK, Calls, DisableOld, Goes
  <1>2. CallsFit'
    BY NoneAssumption DEF IInv, TypeOK, Calls, CallsFit, CallbacksFit,
       DisableOld, Goes
  <1>3. OneConnect'
    BY NoneAssumption DEF IInv, TypeOK, Calls, OneConnect, CallsFit, DisableOld,
       Goes
  <1>4. CallbacksFit'
    BY NoneAssumption DEF IInv, TypeOK, Calls, CallsFit, CallbacksFit,
       OverIsClosed, Met, DisableOld, Goes
  <1>5. OverIsClosed'
    BY NoneAssumption DEF IInv, TypeOK, Calls, CallsFit, CallbacksFit,
       OverIsClosed, ClosesFirst, DisableOld, Goes
  <1>6. ClosesFirst'
    BY NoneAssumption DEF IInv, TypeOK, Calls, CallsFit, CallbacksFit,
       ClosesFirst, DisableOld, Goes
  <1> QED
    BY <1>1, <1>2, <1>3, <1>4, <1>5, <1>6 DEF IInv

\* Once a connection is asked to close, its caller goes on to the next step, keeps
\* the new connection it has, or returns; the others stay where they are.
LEMMA CallerGoesOn ==
  ASSUME TypeOK, NEW x \in Callers, call[x].at \in {"ask", "post"},
         Continues(x) \/ Goes(x, "post")
  PROVE  /\ call' \in [Callers -> Calls]
         /\ \A y \in Callers : y # x => call'[y] = call[y]
         /\ call'[x].new \in {call[x].new, None}
         /\ call'[x].new # None => call'[x].then = call[x].then
         /\ call'[x].at \in {"post", "start", "wait", "idle"}
         /\ call'[x].at = "post" => Goes(x, "post") /\ call'[x].conn = call[x].conn
         /\ call'[x].at = "start" \/ call'[x].then = "start" => call'[x].new # None
         /\ call'[x].at = "wait" => call[x].then = "wait"
         /\ call'[x].at \in {"post", "wait"} => call'[x].conn # None
  <1>1. call[x] \in Calls /\ call \in [Callers -> Calls]
    BY DEF TypeOK
  <1>2. CASE Returns(x)
    <2>1. NoCall \in Calls
      BY DEF NoCall, Calls
    <2>2. call' \in [Callers -> Calls] /\ call'[x] = NoCall /\ \A y \in Callers : y # x => call'[y] = call[y]
      BY <1>1, <1>2, <2>1 DEF Returns
    <2> QED
      BY <2>2 DEF NoCall
  <1>3. ASSUME NEW at \in {"post", "start", "wait"}, Goes(x, at), at # "post" => call[x].then = at
        PROVE  /\ call' \in [Callers -> Calls]
               /\ \A y \in Callers : y # x => call'[y] = call[y]
               /\ call'[x] = [call[x] EXCEPT !.at = at]
    <2>1. [call[x] EXCEPT !.at = at] \in Calls
      BY <1>1 DEF Calls
    <2>2. call' = [call EXCEPT ![x] = [call[x] EXCEPT !.at = at]]
      BY <1>1, <1>3 DEF Goes
    <2> QED
      BY <1>1, <2>1, <2>2
  <1>4. \E at \in {"post", "start", "wait"} : Returns(x) \/ (Goes(x, at) /\ (at # "post" => call[x].then = at))
    BY DEF Continues
  <1>5. /\ call[x].conn # None
        /\ call[x].then = "start" => call[x].new # None
    BY DEF TypeOK
  <1>6. ASSUME NEW at \in {"post", "start", "wait"}, Goes(x, at), at # "post" => call[x].then = at
        PROVE  /\ call'[x].new = call[x].new /\ call'[x].then = call[x].then
               /\ call'[x].conn = call[x].conn /\ call'[x].at = at
    BY <1>1, <1>3, <1>6 DEF Calls
  <1> QED
    BY <1>2, <1>3, <1>4, <1>5, <1>6

\* A connection is asked to close.
LEMMA AskCloseKeeps ==
  ASSUME IInv, NEW x \in Callers, AskClose(x)
  PROVE  IInv'
  <1>1. TypeOK'
    <2>1. call[x].at \in {"ask", "post"} /\ (Continues(x) \/ Goes(x, "post"))
      BY DEF AskClose
    <2>2. /\ call' \in [Callers -> Calls]
          /\ \A y \in Callers :
                /\ call'[y].at \in {"disable", "ask", "post", "wait"} => call'[y].conn # None
                /\ call'[y].at \in {"start", "publish"} \/ call'[y].then = "start" => call'[y].new # None
      BY <2>1, CallerGoesOn DEF IInv, TypeOK
    <2>3. /\ asked' \in [Conns -> BOOLEAN]
          /\ task' \in [Conns -> {"none", "queued", "done"}]
      BY DEF AskClose, IInv, TypeOK
    <2> QED
      BY <2>2, <2>3 DEF AskClose, IInv, TypeOK
  <1>2. CallsFit'
    <2>1. /\ asked' = [asked EXCEPT ![call[x].conn] = TRUE] /\ session' = session
          /\ asked[call[x].conn] \/ Goes(x, "post")
          /\ Continues(x) \/ Goes(x, "post")
          /\ call[x].at = "ask"
      BY DEF AskClose
    <2>2. call[x].conn \in Conns /\ asked \in [Conns -> BOOLEAN]
      BY <2>1 DEF IInv, TypeOK, Calls
    <2>3. \A y \in Callers : call'[y].at = "post" => asked'[call'[y].conn]
      <3>1. \A c \in Conns : asked[c] => asked'[c]
        BY <2>1, <2>2
      <3>2. asked'[call[x].conn]
        BY <2>1, <2>2
      <3>3. \A y \in Callers : call[y].at = "post" => call[y].conn \in Conns /\ asked[call[y].conn]
        BY DEF IInv, TypeOK, Calls, CallsFit
      <3> QED
        BY <2>1, <3>1, <3>2, <3>3, CallerGoesOn DEF IInv
    <2>4. \A y \in Callers : call'[y].new # None => call'[y].new = call[y].new
      BY <2>1, CallerGoesOn DEF IInv
    <2>5. \A y \in Callers : call'[y].new # None /\ call'[y].at # "publish" =>
             session'[call'[y].new] = "none"
      BY <2>1, <2>4, CallerGoesOn DEF IInv, CallsFit
    <2>6. \A y, z \in Callers : call'[y].new # None /\ call'[z].new = call'[y].new => y = z
      BY <2>4 DEF IInv, CallsFit
    <2> QED
      BY <2>3, <2>5, <2>6 DEF CallsFit
  <1>3. OneConnect'
    <2>1. call[x].at \in {"ask", "post"} /\ (Continues(x) \/ Goes(x, "post"))
          /\ UNCHANGED <<crossed, current>>
      BY DEF AskClose
    <2>2. \A y \in Callers : call'[y].new # None => call'[y].new = call[y].new /\ call'[y].then = call[y].then
      BY <2>1, CallerGoesOn DEF IInv
    <2>3. \A y \in Callers : call'[y].at = "wait" => call'[y].new = None
      BY <2>1, <2>2, CallerGoesOn DEF IInv, OneConnect
    <2> QED
      BY <2>1, <2>2, <2>3 DEF IInv, OneConnect
  <1>4. CallbacksFit'
    BY NoneAssumption DEF IInv, TypeOK, Calls, CallsFit, CallbacksFit,
       OverIsClosed, Met, AskClose, Continues, Goes, Returns, NoCall
  <1>5. OverIsClosed'
    BY NoneAssumption DEF IInv, TypeOK, Calls, CallsFit, CallbacksFit,
       OverIsClosed, ClosesFirst, AskClose, Continues, Goes, Returns, NoCall
  <1>6. ClosesFirst'
    BY NoneAssumption DEF IInv, TypeOK, Calls, CallsFit, CallbacksFit,
       ClosesFirst, AskClose, Continues, Goes, Returns, NoCall
  <1> QED
    BY <1>1, <1>2, <1>3, <1>4, <1>5, <1>6 DEF IInv

\* Its task is posted.
LEMMA PostCloseKeeps ==
  ASSUME IInv, NEW x \in Callers, PostClose(x)
  PROVE  IInv'
  <1>1. TypeOK'
    <2>1. call[x].at \in {"ask", "post"} /\ (Continues(x) \/ Goes(x, "post"))
      BY DEF PostClose
    <2>2. /\ call' \in [Callers -> Calls]
          /\ \A y \in Callers :
                /\ call'[y].at \in {"disable", "ask", "post", "wait"} => call'[y].conn # None
                /\ call'[y].at \in {"start", "publish"} \/ call'[y].then = "start" => call'[y].new # None
      BY <2>1, CallerGoesOn DEF IInv, TypeOK
    <2>3. /\ asked' \in [Conns -> BOOLEAN]
          /\ task' \in [Conns -> {"none", "queued", "done"}]
      BY DEF PostClose, IInv, TypeOK
    <2> QED
      BY <2>2, <2>3 DEF PostClose, IInv, TypeOK
  <1>2. CallsFit'
    <2>1. call[x].at = "post" /\ Continues(x) /\ UNCHANGED <<asked, session>>
      BY DEF PostClose
    <2>2. \A y \in Callers : call'[y].at = "post" =>
             call[y].at = "post" /\ call'[y].conn = call[y].conn
      BY <2>1, CallerGoesOn DEF IInv
    <2>3. \A y \in Callers : call'[y].new # None => call'[y].new = call[y].new
      BY <2>1, CallerGoesOn DEF IInv
    <2>4. \A y \in Callers : call'[y].new # None /\ call'[y].at # "publish" =>
             session'[call'[y].new] = "none"
      BY <2>1, <2>3, CallerGoesOn DEF IInv, CallsFit
    <2>5. \A y, z \in Callers : call'[y].new # None /\ call'[z].new = call'[y].new => y = z
      BY <2>3 DEF IInv, CallsFit
    <2> QED
      BY <2>1, <2>2, <2>4, <2>5 DEF CallsFit, IInv
  <1>3. OneConnect'
    <2>1. call[x].at \in {"ask", "post"} /\ (Continues(x) \/ Goes(x, "post"))
          /\ UNCHANGED <<crossed, current>>
      BY DEF PostClose
    <2>2. \A y \in Callers : call'[y].new # None => call'[y].new = call[y].new /\ call'[y].then = call[y].then
      BY <2>1, CallerGoesOn DEF IInv
    <2>3. \A y \in Callers : call'[y].at = "wait" => call'[y].new = None
      BY <2>1, <2>2, CallerGoesOn DEF IInv, OneConnect
    <2> QED
      BY <2>1, <2>2, <2>3 DEF IInv, OneConnect
  <1>4. CallbacksFit'
    BY NoneAssumption DEF IInv, TypeOK, Calls, CallsFit, CallbacksFit,
       OverIsClosed, Met, PostClose, Continues, Goes, Returns, NoCall
  <1>5. OverIsClosed'
    BY NoneAssumption DEF IInv, TypeOK, Calls, CallsFit, CallbacksFit,
       OverIsClosed, ClosesFirst, PostClose, Continues, Goes, Returns, NoCall
  <1>6. ClosesFirst'
    BY NoneAssumption DEF IInv, TypeOK, Calls, CallsFit, CallbacksFit,
       ClosesFirst, PostClose, Continues, Goes, Returns, NoCall
  <1> QED
    BY <1>1, <1>2, <1>3, <1>4, <1>5, <1>6 DEF IInv

\* The new connection starts, or is refused.
LEMMA StartKeeps ==
  ASSUME IInv, NEW x \in Callers, Start(x)
  PROVE  IInv'
  <1>1. TypeOK'
    <2>1. call \in [Callers -> Calls] /\ call[x].at = "start" /\ call[x].new # None
      BY DEF Start, IInv, TypeOK
    <2>2. NoCall \in Calls /\ [call[x] EXCEPT !.at = "publish"] \in Calls
      BY <2>1 DEF NoCall, Calls
    <2>3. call'[x] \in {NoCall, [call[x] EXCEPT !.at = "publish"]} /\ call' = [call EXCEPT ![x] = call'[x]]
      BY <2>1 DEF Start, Returns, Goes
    <2>4. [call[x] EXCEPT !.at = "publish"].new # None
      BY <2>1 DEF Calls
    <2>5. /\ call' \in [Callers -> Calls]
          /\ \A y \in Callers :
                /\ call'[y].at \in {"disable", "ask", "post", "wait"} => call'[y].conn # None
                /\ call'[y].at \in {"start", "publish"} \/ call'[y].then = "start" => call'[y].new # None
      <3>1. \A y \in Callers : y # x => call'[y] = call[y]
        BY <2>1, <2>3
      <3>2. /\ call'[x].at \in {"idle", "publish"}
            /\ call'[x].at = "publish" \/ call'[x].then = "start" => call'[x].new # None
        BY <2>1, <2>3, <2>4 DEF NoCall, Calls
      <3>3. call' \in [Callers -> Calls]
        BY <2>1, <2>2, <2>3
      <3> QED
        BY <3>1, <3>2, <3>3 DEF IInv, TypeOK
    <2>6. /\ session' \in [Conns -> {"none", "connecting", "open", "closing", "closed"}]
          /\ state' \in [Conns -> {"idle", "connecting", "open", "closed"}]
          /\ net' \in [Conns -> {"none", "idle", "opened", "failed", "sayOpen", "sayFail",
                                 "sayClose", "callback", "finished"}]
      BY DEF Start, IInv, TypeOK
    <2> QED
      BY <2>5, <2>6 DEF Start, IInv, TypeOK
  <1>2. CallsFit'
    BY NoneAssumption DEF IInv, TypeOK, Calls, CallsFit, CallbacksFit, Start,
       Goes, Returns, NoCall
  <1>3. OneConnect'
    BY NoneAssumption DEF IInv, TypeOK, Calls, OneConnect, CallsFit, Start,
       Goes, Returns, NoCall
  <1>4. CallbacksFit'
    BY NoneAssumption DEF IInv, TypeOK, Calls, CallsFit, CallbacksFit,
       OverIsClosed, Met, Start, Goes, Returns, NoCall
  <1>5. OverIsClosed'
    BY NoneAssumption DEF IInv, TypeOK, Calls, CallsFit, CallbacksFit,
       OverIsClosed, ClosesFirst, Start, Goes, Returns, NoCall
  <1>6. ClosesFirst'
    BY NoneAssumption DEF IInv, TypeOK, Calls, CallsFit, CallbacksFit,
       ClosesFirst, Start, Goes, Returns, NoCall
  <1> QED
    BY <1>1, <1>2, <1>3, <1>4, <1>5, <1>6 DEF IInv

\* The new connection becomes the client's.
LEMMA PublishKeeps ==
  ASSUME IInv, NEW x \in Callers, Publish(x)
  PROVE  IInv'
  <1>1. TypeOK'
    BY NoneAssumption DEF IInv, TypeOK, Calls, Publish, Returns, NoCall,
       connVars
  <1>2. CallsFit'
    BY NoneAssumption DEF IInv, TypeOK, Calls, CallsFit, CallbacksFit, Publish,
       Returns, NoCall, connVars
  <1>3. OneConnect'
    BY NoneAssumption DEF IInv, TypeOK, Calls, OneConnect, CallsFit, Publish,
       Returns, NoCall, connVars
  <1>4. CallbacksFit'
    BY NoneAssumption DEF IInv, TypeOK, Calls, CallsFit, CallbacksFit,
       OverIsClosed, Met, Publish, Returns, NoCall, connVars
  <1>5. OverIsClosed'
    BY NoneAssumption DEF IInv, TypeOK, Calls, CallsFit, CallbacksFit,
       OverIsClosed, ClosesFirst, Publish, Returns, NoCall, connVars
  <1>6. ClosesFirst'
    BY NoneAssumption DEF IInv, TypeOK, Calls, CallsFit, CallbacksFit,
       ClosesFirst, Publish, Returns, NoCall, connVars
  <1> QED
    BY <1>1, <1>2, <1>3, <1>4, <1>5, <1>6 DEF IInv

\* SyncClose returns.
LEMMA WaitEndsKeeps ==
  ASSUME IInv, NEW x \in Callers, WaitEnds(x)
  PROVE  IInv'
  <1>1. TypeOK'
    BY NoneAssumption DEF IInv, TypeOK, Calls, WaitEnds, Returns, NoCall
  <1>2. CallsFit'
    BY NoneAssumption DEF IInv, TypeOK, Calls, CallsFit, CallbacksFit, WaitEnds,
       Returns, NoCall
  <1>3. OneConnect'
    BY NoneAssumption DEF IInv, TypeOK, Calls, OneConnect, CallsFit, WaitEnds,
       Returns, NoCall
  <1>4. CallbacksFit'
    BY NoneAssumption DEF IInv, TypeOK, Calls, CallsFit, CallbacksFit,
       OverIsClosed, Met, WaitEnds, Returns, NoCall
  <1>5. OverIsClosed'
    BY NoneAssumption DEF IInv, TypeOK, Calls, CallsFit, CallbacksFit,
       OverIsClosed, ClosesFirst, WaitEnds, Returns, NoCall
  <1>6. ClosesFirst'
    BY NoneAssumption DEF IInv, TypeOK, Calls, CallsFit, CallbacksFit,
       ClosesFirst, WaitEnds, Returns, NoCall
  <1> QED
    BY <1>1, <1>2, <1>3, <1>4, <1>5, <1>6 DEF IInv

\* The dial succeeds.
LEMMA HandleOpenKeeps ==
  ASSUME IInv, NEW c \in Conns, HandleOpen(c)
  PROVE  IInv'
  <1>1. TypeOK'
    BY NoneAssumption DEF IInv, TypeOK, Calls, HandleOpen, Runs, At, clientVars
  <1>2. CallsFit'
    BY NoneAssumption DEF IInv, TypeOK, Calls, CallsFit, CallbacksFit,
       HandleOpen, Runs, At, clientVars
  <1>3. OneConnect'
    BY NoneAssumption DEF IInv, TypeOK, Calls, OneConnect, CallsFit, HandleOpen,
       Runs, At, clientVars
  <1>4. CallbacksFit'
    BY NoneAssumption DEF IInv, TypeOK, Calls, CallsFit, CallbacksFit,
       OverIsClosed, Met, HandleOpen, Runs, At, clientVars
  <1>5. OverIsClosed'
    BY NoneAssumption DEF IInv, TypeOK, Calls, CallsFit, CallbacksFit,
       OverIsClosed, ClosesFirst, HandleOpen, Runs, At, clientVars
  <1>6. ClosesFirst'
    BY NoneAssumption DEF IInv, TypeOK, Calls, CallsFit, CallbacksFit,
       ClosesFirst, HandleOpen, Runs, At, clientVars
  <1> QED
    BY <1>1, <1>2, <1>3, <1>4, <1>5, <1>6 DEF IInv

\* The open handler reads the flag.
LEMMA OpenChecksCloseKeeps ==
  ASSUME IInv, NEW c \in Conns, OpenChecksClose(c)
  PROVE  IInv'
  <1>1. TypeOK'
    BY NoneAssumption DEF IInv, TypeOK, Calls, OpenChecksClose, At, clientVars
  <1>2. CallsFit'
    BY NoneAssumption DEF IInv, TypeOK, Calls, CallsFit, CallbacksFit,
       OpenChecksClose, At, clientVars
  <1>3. OneConnect'
    BY NoneAssumption DEF IInv, TypeOK, Calls, OneConnect, CallsFit,
       OpenChecksClose, At, clientVars
  <1>4. CallbacksFit'
    BY NoneAssumption DEF IInv, TypeOK, Calls, CallsFit, CallbacksFit,
       OverIsClosed, Met, OpenChecksClose, At, clientVars
  <1>5. OverIsClosed'
    BY NoneAssumption DEF IInv, TypeOK, Calls, CallsFit, CallbacksFit,
       OverIsClosed, ClosesFirst, OpenChecksClose, At, clientVars
  <1>6. ClosesFirst'
    BY NoneAssumption DEF IInv, TypeOK, Calls, CallsFit, CallbacksFit,
       ClosesFirst, OpenChecksClose, At, clientVars
  <1> QED
    BY <1>1, <1>2, <1>3, <1>4, <1>5, <1>6 DEF IInv

\* The dial fails.
LEMMA HandleFailKeeps ==
  ASSUME IInv, NEW c \in Conns, HandleFail(c)
  PROVE  IInv'
  <1>1. TypeOK'
    BY NoneAssumption DEF IInv, TypeOK, Calls, HandleFail, Runs, At, clientVars
  <1>2. CallsFit'
    BY NoneAssumption DEF IInv, TypeOK, Calls, CallsFit, CallbacksFit,
       HandleFail, Runs, At, clientVars
  <1>3. OneConnect'
    BY NoneAssumption DEF IInv, TypeOK, Calls, OneConnect, CallsFit, HandleFail,
       Runs, At, clientVars
  <1>4. CallbacksFit'
    BY NoneAssumption DEF IInv, TypeOK, Calls, CallsFit, CallbacksFit,
       OverIsClosed, Met, HandleFail, Runs, At, clientVars
  <1>5. OverIsClosed'
    BY NoneAssumption DEF IInv, TypeOK, Calls, CallsFit, CallbacksFit,
       OverIsClosed, ClosesFirst, HandleFail, Runs, At, clientVars
  <1>6. ClosesFirst'
    BY NoneAssumption DEF IInv, TypeOK, Calls, CallsFit, CallbacksFit,
       ClosesFirst, HandleFail, Runs, At, clientVars
  <1> QED
    BY <1>1, <1>2, <1>3, <1>4, <1>5, <1>6 DEF IInv

\* The fail handler reads the flag.
LEMMA FailChecksCloseKeeps ==
  ASSUME IInv, NEW c \in Conns, FailChecksClose(c)
  PROVE  IInv'
  <1>1. TypeOK'
    BY NoneAssumption DEF IInv, TypeOK, Calls, FailChecksClose, At, clientVars
  <1>2. CallsFit'
    BY NoneAssumption DEF IInv, TypeOK, Calls, CallsFit, CallbacksFit,
       FailChecksClose, At, clientVars
  <1>3. OneConnect'
    BY NoneAssumption DEF IInv, TypeOK, Calls, OneConnect, CallsFit,
       FailChecksClose, At, clientVars
  <1>4. CallbacksFit'
    BY NoneAssumption DEF IInv, TypeOK, Calls, CallsFit, CallbacksFit,
       OverIsClosed, Met, FailChecksClose, At, clientVars
  <1>5. OverIsClosed'
    BY NoneAssumption DEF IInv, TypeOK, Calls, CallsFit, CallbacksFit,
       OverIsClosed, ClosesFirst, FailChecksClose, At, clientVars
  <1>6. ClosesFirst'
    BY NoneAssumption DEF IInv, TypeOK, Calls, CallsFit, CallbacksFit,
       ClosesFirst, FailChecksClose, At, clientVars
  <1> QED
    BY <1>1, <1>2, <1>3, <1>4, <1>5, <1>6 DEF IInv

\* The connection closes.
LEMMA HandleCloseKeeps ==
  ASSUME IInv, NEW c \in Conns, HandleClose(c)
  PROVE  IInv'
  <1>1. TypeOK'
    BY NoneAssumption DEF IInv, TypeOK, Calls, HandleClose, Runs, At, clientVars
  <1>2. CallsFit'
    BY NoneAssumption DEF IInv, TypeOK, Calls, CallsFit, CallbacksFit,
       HandleClose, Runs, At, clientVars
  <1>3. OneConnect'
    BY NoneAssumption DEF IInv, TypeOK, Calls, OneConnect, CallsFit,
       HandleClose, Runs, At, clientVars
  <1>4. CallbacksFit'
    BY NoneAssumption DEF IInv, TypeOK, Calls, CallsFit, CallbacksFit,
       OverIsClosed, Met, HandleClose, Runs, At, clientVars
  <1>5. OverIsClosed'
    BY NoneAssumption DEF IInv, TypeOK, Calls, CallsFit, CallbacksFit,
       OverIsClosed, ClosesFirst, HandleClose, Runs, At, clientVars
  <1>6. ClosesFirst'
    BY NoneAssumption DEF IInv, TypeOK, Calls, CallsFit, CallbacksFit,
       ClosesFirst, HandleClose, Runs, At, clientVars
  <1> QED
    BY <1>1, <1>2, <1>3, <1>4, <1>5, <1>6 DEF IInv

\* A message arrives.
LEMMA HandleMessageKeeps ==
  ASSUME IInv, NEW c \in Conns, HandleMessage(c)
  PROVE  IInv'
  <1>1. TypeOK'
    BY NoneAssumption DEF IInv, TypeOK, Calls, HandleMessage, CallBack, Runs,
       At, clientVars
  <1>2. CallsFit'
    BY NoneAssumption DEF IInv, TypeOK, Calls, CallsFit, CallbacksFit,
       HandleMessage, CallBack, Runs, At, clientVars
  <1>3. OneConnect'
    BY NoneAssumption DEF IInv, TypeOK, Calls, OneConnect, CallsFit,
       HandleMessage, CallBack, Runs, At, clientVars
  <1>4. CallbacksFit'
    BY NoneAssumption DEF IInv, TypeOK, Calls, CallsFit, CallbacksFit,
       OverIsClosed, Met, HandleMessage, CallBack, Runs, At, clientVars
  <1>5. OverIsClosed'
    BY NoneAssumption DEF IInv, TypeOK, Calls, CallsFit, CallbacksFit,
       OverIsClosed, ClosesFirst, HandleMessage, CallBack, Runs, At, clientVars
  <1>6. ClosesFirst'
    BY NoneAssumption DEF IInv, TypeOK, Calls, CallsFit, CallbacksFit,
       ClosesFirst, HandleMessage, CallBack, Runs, At, clientVars
  <1> QED
    BY <1>1, <1>2, <1>3, <1>4, <1>5, <1>6 DEF IInv

\* A handler calls back.
LEMMA ReportsKeeps ==
  ASSUME IInv, NEW c \in Conns, Reports(c)
  PROVE  IInv'
  <1>1. TypeOK'
    BY NoneAssumption DEF IInv, TypeOK, Calls, Reports, CallBack, At, clientVars
  <1>2. CallsFit'
    BY NoneAssumption DEF IInv, TypeOK, Calls, CallsFit, CallbacksFit, Reports,
       CallBack, At, clientVars
  <1>3. OneConnect'
    BY NoneAssumption DEF IInv, TypeOK, Calls, OneConnect, CallsFit, Reports,
       CallBack, At, clientVars
  <1>4. CallbacksFit'
    <2> USE NoneAssumption DEF IInv, TypeOK, CallbacksFit, Met, CallBack, At
    <2>1. UNCHANGED <<state, session, asked, task, enabled, stopped>>
      BY DEF Reports
    <2>2. CASE net[c] = "sayOpen" /\ CallBack(c, "open")
      BY <2>1, <2>2
    <2>3. CASE net[c] = "sayFail" /\ CallBack(c, "fail")
      BY <2>1, <2>3
    <2>4. CASE net[c] = "sayClose" /\ CallBack(c, "close")
      BY <2>1, <2>4
    <2> QED
      BY <2>2, <2>3, <2>4 DEF Reports
  <1>5. OverIsClosed'
    BY NoneAssumption DEF IInv, TypeOK, Calls, CallsFit, CallbacksFit,
       OverIsClosed, ClosesFirst, Reports, CallBack, At, clientVars
  <1>6. ClosesFirst'
    BY NoneAssumption DEF IInv, TypeOK, Calls, CallsFit, CallbacksFit,
       ClosesFirst, Reports, CallBack, At, clientVars
  <1> QED
    BY <1>1, <1>2, <1>3, <1>4, <1>5, <1>6 DEF IInv

\* The close task runs.
LEMMA CloseTaskKeeps ==
  ASSUME IInv, NEW c \in Conns, CloseTask(c)
  PROVE  IInv'
  <1>1. TypeOK'
    BY NoneAssumption DEF IInv, TypeOK, Calls, CloseTask, CloseSession, Runs,
       At, clientVars
  <1>2. CallsFit'
    BY NoneAssumption DEF IInv, TypeOK, Calls, CallsFit, CallbacksFit,
       CloseTask, CloseSession, Runs, At, clientVars
  <1>3. OneConnect'
    BY NoneAssumption DEF IInv, TypeOK, Calls, OneConnect, CallsFit, CloseTask,
       CloseSession, Runs, At, clientVars
  <1>4. CallbacksFit'
    BY NoneAssumption DEF IInv, TypeOK, Calls, CallsFit, CallbacksFit,
       OverIsClosed, Met, CloseTask, CloseSession, Runs, At, clientVars
  <1>5. OverIsClosed'
    BY NoneAssumption DEF IInv, TypeOK, Calls, CallsFit, CallbacksFit,
       OverIsClosed, ClosesFirst, CloseTask, CloseSession, Runs, At, clientVars
  <1>6. ClosesFirst'
    BY NoneAssumption DEF IInv, TypeOK, Calls, CallsFit, CallbacksFit,
       ClosesFirst, CloseTask, CloseSession, Runs, At, clientVars
  <1> QED
    BY <1>1, <1>2, <1>3, <1>4, <1>5, <1>6 DEF IInv

\* A callback returns.
LEMMA CallbackEndsKeeps ==
  ASSUME IInv, NEW c \in Conns, CallbackEnds(c)
  PROVE  IInv'
  <1>1. TypeOK'
    BY NoneAssumption DEF IInv, TypeOK, Calls, CallbackEnds, At, clientVars
  <1>2. CallsFit'
    BY NoneAssumption DEF IInv, TypeOK, Calls, CallsFit, CallbacksFit,
       CallbackEnds, At, clientVars
  <1>3. OneConnect'
    BY NoneAssumption DEF IInv, TypeOK, Calls, OneConnect, CallsFit,
       CallbackEnds, At, clientVars
  <1>4. CallbacksFit'
    BY NoneAssumption DEF IInv, TypeOK, Calls, CallsFit, CallbacksFit,
       OverIsClosed, Met, CallbackEnds, At, clientVars
  <1>5. OverIsClosed'
    BY NoneAssumption DEF IInv, TypeOK, Calls, CallsFit, CallbacksFit,
       OverIsClosed, ClosesFirst, CallbackEnds, At, clientVars
  <1>6. ClosesFirst'
    BY NoneAssumption DEF IInv, TypeOK, Calls, CallsFit, CallbacksFit,
       ClosesFirst, CallbackEnds, At, clientVars
  <1> QED
    BY <1>1, <1>2, <1>3, <1>4, <1>5, <1>6 DEF IInv

\* The network thread ends.
LEMMA RunLoopEndsKeeps ==
  ASSUME IInv, NEW c \in Conns, RunLoopEnds(c)
  PROVE  IInv'
  <1>1. TypeOK'
    BY NoneAssumption DEF IInv, TypeOK, Calls, RunLoopEnds, At, clientVars
  <1>2. CallsFit'
    BY NoneAssumption DEF IInv, TypeOK, Calls, CallsFit, CallbacksFit,
       RunLoopEnds, At, clientVars
  <1>3. OneConnect'
    BY NoneAssumption DEF IInv, TypeOK, Calls, OneConnect, CallsFit,
       RunLoopEnds, At, clientVars
  <1>4. CallbacksFit'
    BY NoneAssumption DEF IInv, TypeOK, Calls, CallsFit, CallbacksFit,
       OverIsClosed, Met, RunLoopEnds, At, clientVars
  <1>5. OverIsClosed'
    BY NoneAssumption DEF IInv, TypeOK, Calls, CallsFit, CallbacksFit,
       OverIsClosed, ClosesFirst, RunLoopEnds, At, clientVars
  <1>6. ClosesFirst'
    BY NoneAssumption DEF IInv, TypeOK, Calls, CallsFit, CallbacksFit,
       ClosesFirst, RunLoopEnds, At, clientVars
  <1> QED
    BY <1>1, <1>2, <1>3, <1>4, <1>5, <1>6 DEF IInv

-----------------------------------------------------------------------------

\* A step that changes nothing.
LEMMA StutterKeeps ==
  ASSUME IInv, UNCHANGED vars
  PROVE  IInv'
  BY DEF IInv, TypeOK, CallsFit, OneConnect, CallbacksFit, OverIsClosed, ClosesFirst, Met,
         vars, clientVars, connVars

LEMMA NextKeeps == IInv /\ [Next]_vars => IInv'
  <1> SUFFICES ASSUME IInv, [Next]_vars PROVE IInv'
    OBVIOUS
  <1>1. ASSUME NEW x \in Callers,
               Connect(x) \/ Destroy(x) \/ Close(x) \/ DisableOld(x) \/ CallStep(x)
        PROVE  IInv'
    BY <1>1, ConnectKeeps, DestroyKeeps, CloseKeeps, DisableOldKeeps, AskCloseKeeps,
       PostCloseKeeps, StartKeeps, PublishKeeps, WaitEndsKeeps DEF CallStep
  <1>2. ASSUME NEW c \in Conns,
               \/ NetStep(c) \/ CallbackEnds(c) \/ CloseTask(c)
               \/ HandleOpen(c) \/ HandleFail(c) \/ HandleClose(c) \/ HandleMessage(c)
        PROVE  IInv'
    BY <1>2, HandleOpenKeeps, OpenChecksCloseKeeps, HandleFailKeeps, FailChecksCloseKeeps,
       HandleCloseKeeps, HandleMessageKeeps, ReportsKeeps, CloseTaskKeeps,
       CallbackEndsKeeps, RunLoopEndsKeeps DEF NetStep
  <1>3. CASE UNCHANGED vars
    BY <1>3, StutterKeeps
  <1> QED
    BY <1>1, <1>2, <1>3 DEF Next

\* IInv is an invariant of WsClient.
THEOREM WsInvariance == Spec => []IInv
  BY InvInit, NextKeeps, PTL DEF Spec

\* Every reachable state is well typed.
THEOREM WsTypes == Spec => []TypeOK
  <1>1. IInv => TypeOK
    BY DEF IInv
  <1> QED
    BY <1>1, WsInvariance, PTL

-----------------------------------------------------------------------------
(* WsClient implements WsContract: a callback is one the contract allows   *)
(* at that moment, every other step asks, silences or changes nothing.     *)

\* A callback that CallBack makes is one the contract may allow.
LEMMA CallBackSays ==
  ASSUME NEW c \in Conns, NEW callback, CallBack(c, callback),
         enabled[c] => Contract!MaySay(c, callback), UNCHANGED <<asked, enabled>>
  PROVE  Contract!Say(c, callback) \/ UNCHANGED Contract!vars
  BY DEF CallBack, Contract!Say, Contract!vars

\* A message is delivered after OnOpen, or to a connection asked to close.
LEMMA MessageSays ==
  ASSUME IInv, NEW c \in Conns, HandleMessage(c)
  PROVE  [Contract!Next]_Contract!vars
  <1>1. enabled[c] => Contract!MaySay(c, "text")
    BY DEF IInv, CallbacksFit, Met, HandleMessage, Runs, Contract!MaySay, Contract!Opened
  <1> QED
    BY <1>1, CallBackSays DEF HandleMessage, Contract!Next

\* So is what the handlers report.
LEMMA ReportsSay ==
  ASSUME IInv, NEW c \in Conns, Reports(c)
  PROVE  [Contract!Next]_Contract!vars
  <1>1. UNCHANGED <<asked, enabled>>
    BY DEF Reports
  <1>2. CASE net[c] = "sayOpen" /\ CallBack(c, "open")
    <2>1. Contract!MaySay(c, "open")
      BY <1>2 DEF IInv, CallbacksFit, Contract!MaySay
    <2> QED
      BY <1>1, <1>2, <2>1, CallBackSays DEF Contract!Next
  <1>3. CASE net[c] = "sayFail" /\ CallBack(c, "fail")
    <2>1. Contract!MaySay(c, "fail")
      BY <1>3 DEF IInv, CallbacksFit, Contract!MaySay
    <2> QED
      BY <1>1, <1>3, <2>1, CallBackSays DEF Contract!Next
  <1>4. CASE net[c] = "sayClose" /\ CallBack(c, "close")
    <2>1. enabled[c] => Contract!MaySay(c, "close")
      BY <1>4 DEF IInv, CallbacksFit, Met, Contract!MaySay, Contract!Opened
    <2> QED
      BY <1>1, <1>4, <2>1, CallBackSays DEF Contract!Next
  <1> QED
    BY <1>2, <1>3, <1>4 DEF Reports

\* A caller's step asks, silences, or does not concern the contract.
LEMMA CallerSilent ==
  ASSUME IInv, NEW x \in Callers,
         Connect(x) \/ Destroy(x) \/ Close(x) \/ DisableOld(x) \/ CallStep(x)
  PROVE  [Contract!Next]_Contract!vars
  <1>1. CASE DisableOld(x)
    <2>1. call[x].conn \in Conns
      BY <1>1 DEF IInv, TypeOK, Calls, DisableOld
    <2>2. Contract!Silence(call[x].conn)
      BY <1>1 DEF DisableOld, Contract!Silence
    <2> QED
      BY <2>1, <2>2 DEF Contract!Next
  <1>2. CASE AskClose(x)
    <2>1. call[x].conn \in Conns
      BY <1>2 DEF IInv, TypeOK, Calls, AskClose
    <2>2. Contract!Ask(call[x].conn)
      BY <1>2 DEF AskClose, Contract!Ask
    <2> QED
      BY <2>1, <2>2 DEF Contract!Next
  <1>3. CASE Connect(x) \/ Destroy(x) \/ Close(x) \/ PostClose(x) \/ Start(x) \/ Publish(x)
             \/ WaitEnds(x)
    BY <1>3 DEF Connect, Destroy, Close, PostClose, Start, Publish, WaitEnds, connVars,
                Contract!vars
  <1> QED
    BY <1>1, <1>2, <1>3 DEF CallStep

LEMMA NextContract ==
  ASSUME IInv, [Next]_vars
  PROVE  [Contract!Next]_Contract!vars
  <1>1. ASSUME NEW c \in Conns,
               \/ OpenChecksClose(c) \/ FailChecksClose(c) \/ RunLoopEnds(c)
               \/ CallbackEnds(c) \/ CloseTask(c)
               \/ HandleOpen(c) \/ HandleFail(c) \/ HandleClose(c)
        PROVE  UNCHANGED Contract!vars
    BY <1>1 DEF OpenChecksClose, FailChecksClose, RunLoopEnds, CallbackEnds, CloseTask,
                HandleOpen, HandleFail, HandleClose, Contract!vars
  <1>2. CASE UNCHANGED vars
    BY <1>2 DEF vars, connVars, Contract!vars
  <1> QED
    BY <1>1, <1>2, CallerSilent, MessageSays, ReportsSay DEF Next, NetStep

\* Every behaviour of WsClient is one of WsContract: whatever is called from
\* whichever thread and callback, a connection makes the callbacks it promises.
THEOREM ContractKept == Spec => KeepsContract
  <1>1. Init => Contract!Init
    BY DEF Init, Contract!Init
  <1>2. IInv /\ [Next]_vars => [Contract!Next]_Contract!vars
    BY NextContract
  <1> QED
    BY <1>1, <1>2, WsInvariance, PTL DEF Spec, KeepsContract, Contract!Spec

-----------------------------------------------------------------------------
(* No orphan: the connection Publish overwrites is none, unless Connects   *)
(* overlapped.                                                             *)

LEMMA OrphanInit == Init => NoOrphan
  BY DEF Init, NoOrphan, Live

LEMMA OrphanKept ==
  ASSUME IInv, NoOrphan, [Next]_vars
  PROVE  NoOrphan'
  <1> SUFFICES ASSUME ~crossed', NEW d \in Conns, Live(d)'
               PROVE  Owned(d)'
    BY DEF NoOrphan
  <1>1. CASE \E x \in Callers : Connect(x) \/ Destroy(x)
    <2>1. PICK x \in Callers : Connect(x) \/ Destroy(x)
      BY <1>1
    <2>2. Owned(d)
      BY <2>1 DEF NoOrphan, Live, Connect, Destroy, connVars
    <2> QED
      BY <2>1, <2>2 DEF IInv, TypeOK, Calls, Owned, Connect, Destroy, TakeOut, CanCall, NoCall
  <1>2. CASE \E x \in Callers : Close(x)
    <2>1. PICK x \in Callers : Close(x)
      BY <1>2
    <2>2. Owned(d)
      BY <2>1 DEF NoOrphan, Live, Close, connVars
    <2> QED
      BY <2>1, <2>2 DEF IInv, TypeOK, Calls, Owned, Close, CanCall, NoCall
  <1>3. CASE \E x \in Callers : DisableOld(x)
    <2>1. PICK x \in Callers : DisableOld(x)
      BY <1>3
    <2>2. Owned(d) /\ d # call[x].conn
      BY <2>1 DEF IInv, TypeOK, Calls, NoOrphan, Live, DisableOld
    <2> QED
      BY <2>1, <2>2 DEF IInv, TypeOK, Calls, Owned, DisableOld, Goes
  <1>4. CASE \E x \in Callers : AskClose(x) \/ PostClose(x) \/ WaitEnds(x)
    <2>1. PICK x \in Callers : AskClose(x) \/ PostClose(x) \/ WaitEnds(x)
      BY <1>4
    <2>2. Owned(d)
      BY <2>1 DEF NoOrphan, Live, AskClose, PostClose, WaitEnds
    <2>3. call[x].at \in {"ask", "post", "wait"} /\ current' = current
      BY <2>1 DEF AskClose, PostClose, WaitEnds
    <2>4. CASE call[x].then = "start"
      <3>1. CASE Goes(x, "post") \/ Goes(x, "start")
        BY <2>2, <2>3, <3>1 DEF IInv, TypeOK, Calls, Owned, Goes
      <3>2. CASE call[x].at = "wait" /\ Returns(x)
        <4>1. call[x].new = None
          BY <3>2 DEF IInv, OneConnect
        <4> QED
          BY <2>2, <2>3, <3>2, <4>1, NoneAssumption DEF IInv, TypeOK, Calls, Owned, Returns, NoCall
      <3> QED
        BY <2>1, <2>4, <3>1, <3>2 DEF AskClose, PostClose, WaitEnds, Continues
    <2>5. CASE call[x].then # "start"
      <3>1. call[x].new = None
        BY <2>5 DEF IInv, OneConnect
      <3>2. \A y \in Callers : y # x => call'[y] = call[y]
        BY <2>1 DEF IInv, TypeOK, AskClose, PostClose, WaitEnds, Continues, Goes, Returns
      <3> QED
        BY <2>2, <2>3, <3>1, <3>2, NoneAssumption DEF Owned
    <2> QED
      BY <2>4, <2>5
  <1>5. CASE \E x \in Callers : Start(x)
    <2>1. PICK x \in Callers : Start(x)
      BY <1>5
    <2>2. CASE d = call[x].new
      BY <2>1, <2>2 DEF IInv, TypeOK, Calls, CallsFit, CallbacksFit, Live, Owned, Start, Goes,
         Returns, NoCall
    <2>3. CASE d # call[x].new
      <3>1. Owned(d)
        BY <2>1, <2>3 DEF IInv, TypeOK, NoOrphan, Live, Start
      <3> QED
        BY <2>1, <2>3, <3>1 DEF IInv, TypeOK, Calls, Owned, Start, Goes, Returns, NoCall
    <2> QED
      BY <2>2, <2>3
  <1>6. CASE \E x \in Callers : Publish(x)
    <2>1. PICK x \in Callers : Publish(x)
      BY <1>6
    <2>2. Owned(d)
      BY <2>1 DEF NoOrphan, Live, Publish, connVars
    <2> QED
      BY <2>1, <2>2, NoneAssumption DEF IInv, TypeOK, Calls, OneConnect, Owned, Publish,
         Returns, NoCall
  <1>7. CASE \E c \in Conns :
                \/ NetStep(c) \/ CallbackEnds(c) \/ CloseTask(c)
                \/ HandleOpen(c) \/ HandleFail(c) \/ HandleClose(c) \/ HandleMessage(c)
    <2>1. PICK c \in Conns :
             \/ NetStep(c) \/ CallbackEnds(c) \/ CloseTask(c)
             \/ HandleOpen(c) \/ HandleFail(c) \/ HandleClose(c) \/ HandleMessage(c)
      BY <1>7
    <2>2. UNCHANGED clientVars /\ UNCHANGED enabled
      BY <2>1 DEF NetStep, OpenChecksClose, FailChecksClose, Reports, RunLoopEnds, CallbackEnds,
         CloseTask, HandleOpen, HandleFail, HandleClose, HandleMessage
    <2>3. net[d] \notin {"none", "finished"}
      BY <2>1 DEF IInv, TypeOK, Live, NetStep, OpenChecksClose, FailChecksClose, Reports,
         RunLoopEnds, CallbackEnds, CloseTask, CloseSession, HandleOpen, HandleFail,
         HandleClose, HandleMessage, CallBack, Runs, At
    <2> QED
      BY <2>2, <2>3 DEF NoOrphan, Live, Owned, clientVars
  <1>8. CASE UNCHANGED vars
    BY <1>8 DEF NoOrphan, Live, Owned, vars, clientVars, connVars
  <1> QED
    BY <1>1, <1>2, <1>3, <1>4, <1>5, <1>6, <1>7, <1>8 DEF Next, CallStep

\* As long as Connects do not overlap, a connection that calls back is the
\* client's, or in the hands of a call.
THEOREM EveryoneOwned == Spec => []NoOrphan
  BY OrphanInit, OrphanKept, WsInvariance, PTL DEF Spec
=============================================================================
