----------------------------- MODULE SioLatent -----------------------------
(***************************************************************************)
(* Latent nodes of a graph: ApplyURL of USIOJRequestJSON, which remembers  *)
(* its action in ContinueAction, and the nodes made with FCULatentAction,  *)
(* whose action a lambda captures (EmitWithGraphCallBack, GetURLBinary,    *)
(* CallFunctionOnThreadGraphReturn).  The engine's latent action manager   *)
(* (external) owns the actions: it resumes and deletes the called ones,    *)
(* and deletes those of a destroyed target and those it was told to        *)
(* remove, after it notified them.                                         *)
(***************************************************************************)
EXTENDS Naturals, Sequences

CONSTANTS Targets,
          Uuids,      \* latent nodes of a target
          Requests,   \* USIOJRequestJSON objects
          NoRequest,
          MaxActions  \* bounds the nodes run

ASSUME LatentAssumption == NoRequest \notin Requests /\ MaxActions \in Nat

VARIABLES
    living,       \* targets that exist
    actions,      \* every action made
    toRemove,     \* actions RemoveActionsForObject put on the manager's list
    continue,     \* ContinueAction of a request, or 0
    flights,      \* HTTP requests under way, by the object that made them
    handler,      \* which handler is bound to a request's completion
    broadcasting, \* the handler that tells its listeners of a response, if one does
    captured,     \* actions a lambda holds
    deserted,     \* history: actions a request has forgotten before it finished them
    passed        \* history: actions a binary response has passed by

latentVars == <<living, actions, toRemove, continue, flights, handler, broadcasting, captured,
                deserted, passed>>

LatentInit ==
    /\ living = Targets
    /\ actions = <<>> /\ toRemove = {}
    /\ continue = [q \in Requests |-> 0]
    /\ flights = [q \in Requests |-> 0]
    /\ handler = [q \in Requests |-> "json"]
    /\ broadcasting = {}
    /\ captured = {} /\ deserted = {} /\ passed = {}

IsLive(i) == actions[i].state \in {"waiting", "called"}
ActionsOf(target) == {i \in DOMAIN actions : actions[i].target = target /\ IsLive(i)}
Waits(i) == i \in DOMAIN actions /\ actions[i].kind = "url" /\ actions[i].state = "waiting"

Remembered == {continue[q] : q \in Requests} \ {0}
Deserts    == deserted' = deserted \cup (Remembered \ Remembered')

NewAction(target, uuid, kind, request) ==
    [target |-> target, uuid |-> uuid, kind |-> kind, request |-> request, state |-> "waiting"]

-----------------------------------------------------------------------------
(* USIOJRequestJSON.                                                       *)

\* (mutant) the request goes on remembering the action.
CancelledKept(i) == continue

\* USIOJRequestJSON::Cancel as the action's Cancel() reaches it.
Cancelled(i) == IF actions[i].kind = "url" THEN [continue EXCEPT ![actions[i].request] = 0]
                ELSE continue

\* ProcessRequest binds the handler of bShouldHaveBinaryResponse, which graphs may
\* write at any time, and sends the HTTP request; the last handler bound counts.
ProcessRequest(q) ==
    /\ flights' = [flights EXCEPT ![q] = @ + 1]
    /\ \E h \in {"json", "binary"} : handler' = [handler EXCEPT ![q] = h]

\* An action of the same node goes, and with it all of its target's.  A listener of
\* a response may be the caller.
ApplyURL(target, uuid, q) ==
    LET existing == {i \in ActionsOf(target) : actions[i].uuid = uuid}
        new      == Len(actions) + 1
    IN  /\ target \in living /\ Len(actions) < MaxActions
        /\ \A i \in existing : actions[i].kind = "url"
        /\ actions' = Append(actions, NewAction(target, uuid, "url", q))
        /\ IF existing = {}
           THEN /\ continue' = [continue EXCEPT ![q] = new]
                /\ UNCHANGED toRemove
           ELSE \E i \in existing :
                /\ continue' = [Cancelled(i) EXCEPT ![q] = new]
                /\ toRemove' = toRemove \cup ActionsOf(target)
        /\ ProcessRequest(q)
        /\ Deserts
        /\ UNCHANGED <<living, broadcasting, captured, passed>>

\* Cancel(), called by a graph.
CancelRequest(q) ==
    /\ continue[q] # 0
    /\ continue' = [continue EXCEPT ![q] = 0]
    /\ Deserts
    /\ UNCHANGED <<living, actions, toRemove, flights, handler, broadcasting, captured, passed>>

\* ProcessURL: a request without an action.
ProcessURL(q) ==
    /\ flights[q] = 0
    /\ ProcessRequest(q)
    /\ UNCHANGED <<living, actions, toRemove, continue, broadcasting, captured, deserted, passed>>

\* The bound handler tells the listeners of a response, or of a failure.
OnProcessRequestComplete(q) ==
    /\ broadcasting = {} /\ flights[q] > 0
    /\ flights' = [flights EXCEPT ![q] = @ - 1]
    /\ broadcasting' = {<<q, handler[q]>>}
    /\ UNCHANGED <<living, actions, toRemove, continue, handler, captured, deserted, passed>>

\* OnProcessRequestCompleteBinaryResult ends there: the action stays where it is.
BinaryCompletes(q) ==
    /\ <<q, "binary">> \in broadcasting
    /\ broadcasting' = {}
    /\ passed' = passed \cup ({continue[q]} \ {0})
    /\ UNCHANGED <<living, actions, toRemove, continue, flights, handler, captured, deserted>>

\* (mutant) a failed request leaves the node where it is.
FinishActionOnSuccess(q) ==
    /\ <<q, "json">> \in broadcasting
    /\ broadcasting' = {}
    /\ continue' = [continue EXCEPT ![q] = 0]
    /\ actions' \in {actions, IF continue[q] = 0 THEN actions
                              ELSE [actions EXCEPT ![continue[q]].state = "called"]}
    /\ UNCHANGED <<living, toRemove, flights, handler, captured, deserted, passed>>

\* OnProcessRequestComplete then finishes the action the request has by now.
FinishAction(q) ==
    /\ <<q, "json">> \in broadcasting
    /\ broadcasting' = {}
    /\ continue' = [continue EXCEPT ![q] = 0]
    /\ actions' = IF continue[q] = 0 THEN actions
                  ELSE [actions EXCEPT ![continue[q]].state = "called"]
    /\ UNCHANGED <<living, toRemove, flights, handler, captured, deserted, passed>>

-----------------------------------------------------------------------------
(* FCULatentAction.                                                        *)

\* A new action is made even if the node has one.
CreateLatentAction(target, uuid, kind, state) ==
    /\ target \in living /\ Len(actions) < MaxActions
    /\ \A i \in ActionsOf(target) : actions[i].uuid = uuid => actions[i].kind # "url"
    /\ actions' = Append(actions, [NewAction(target, uuid, kind, NoRequest) EXCEPT !.state = state])
    /\ UNCHANGED <<living, toRemove, continue, flights, handler, broadcasting, deserted, passed>>

\* A lambda holds the action until the event is answered,
EmitWithGraphCallBack(target, uuid) ==
    /\ CreateLatentAction(target, uuid, "ack", "waiting")
    /\ captured' = captured \cup {Len(actions) + 1}

\* or the binary response has come,
GetURLBinary(target, uuid) ==
    /\ CreateLatentAction(target, uuid, "binary", "waiting")
    /\ captured' = captured \cup {Len(actions) + 1}

\* or the function was called on its thread; here, or if there is none, the action
\* is called at once.
CallFunctionOnThreadGraphReturn(target, uuid) ==
    \/ /\ CreateLatentAction(target, uuid, "thread", "waiting")
       /\ captured' = captured \cup {Len(actions) + 1}
    \/ CreateLatentAction(target, uuid, "thread", "called") /\ UNCHANGED captured

\* The lambda calls the action; one that was deleted is a stale pointer.
CallAction(i) ==
    /\ i \in captured
    /\ actions[i].kind = "thread" => actions[i].target \in living
    /\ captured' = captured \ {i}
    /\ actions' = [actions EXCEPT ![i].state = IF @ \in {"gone", "stale"} THEN "stale" ELSE "called"]
    /\ UNCHANGED <<living, toRemove, continue, flights, handler, broadcasting, deserted, passed>>

\* No answer: a socket that was closed, a failed request (which does not call its
\* OnProcessURLCompleteCallback), a destroyed target.
DropCapture(i) ==
    /\ i \in captured
    /\ captured' = captured \ {i}
    /\ UNCHANGED <<living, actions, toRemove, continue, flights, handler, broadcasting,
                   deserted, passed>>

-----------------------------------------------------------------------------
(* The engine.                                                             *)

Destroy(target) ==
    /\ target \in living
    /\ living' = living \ {target}
    /\ UNCHANGED <<actions, toRemove, continue, flights, handler, broadcasting, captured,
                   deserted, passed>>

\* NotifyActionAborted or NotifyObjectDestroyed, which Cancel(), and delete.
RemoveAction(i) ==
    /\ broadcasting = {} /\ i \in DOMAIN actions /\ IsLive(i)
    /\ i \in toRemove \/ actions[i].target \notin living
    /\ continue' = Cancelled(i)
    /\ actions' = [actions EXCEPT ![i].state = "gone"]
    /\ toRemove' = toRemove \ {i}
    /\ Deserts
    /\ UNCHANGED <<living, flights, handler, broadcasting, captured, passed>>

\* UpdateOperation of a called action triggers its link, and delete.
UpdateOperation(i) ==
    /\ broadcasting = {} /\ i \in DOMAIN actions
    /\ actions[i].state = "called" /\ actions[i].target \in living /\ i \notin toRemove
    /\ actions' = [actions EXCEPT ![i].state = "resumed"]
    /\ UNCHANGED <<living, toRemove, continue, flights, handler, broadcasting, captured,
                   deserted, passed>>

-----------------------------------------------------------------------------

LatentNext ==
    \/ \E t \in Targets, u \in Uuids :
          \/ \E q \in Requests : ApplyURL(t, u, q)
          \/ EmitWithGraphCallBack(t, u) \/ GetURLBinary(t, u)
          \/ CallFunctionOnThreadGraphReturn(t, u)
    \/ \E q \in Requests : CancelRequest(q) \/ ProcessURL(q) \/ OnProcessRequestComplete(q)
                           \/ BinaryCompletes(q) \/ FinishAction(q)
    \/ \E t \in Targets : Destroy(t)
    \/ \E i \in 1..MaxActions : CallAction(i) \/ DropCapture(i) \/ RemoveAction(i) \/ UpdateOperation(i)

\* The engine answers every HTTP request, with a failure after its timeout at the
\* latest, and ticks its latent actions, whatever else a frame does: both lists are
\* gone through to the end, so strong fairness.
LatentFairness ==
    /\ \A q \in Requests : SF_latentVars(OnProcessRequestComplete(q))
                           /\ WF_latentVars(BinaryCompletes(q) \/ FinishAction(q))
    /\ \A i \in 1..MaxActions : SF_latentVars(RemoveAction(i)) /\ SF_latentVars(UpdateOperation(i))

LatentSpec     == LatentInit /\ [][LatentNext]_latentVars
LatentFairSpec == LatentSpec /\ LatentFairness

-----------------------------------------------------------------------------
(* Properties.                                                             *)

\* A request never remembers an action that the manager deleted or is done with:
\* whatever removes an action makes the request forget it, or a request it
\* remembered since.
ContinueLive == \A q \in Requests : continue[q] # 0 => Waits(continue[q])

Over(i) == i \in DOMAIN actions /\ actions[i].state \in {"resumed", "gone"}

\* A node that waits for a request is resumed, whether the request succeeds or
\* fails and whatever its listeners do, or its target is destroyed first; unless
\* the request forgot it (it was cancelled, another node used the request, a removed
\* node cancelled it) or answered with the binary handler.
ApplyReturns ==
    \A i \in 1..MaxActions : Waits(i) ~> Over(i) \/ i \in deserted \cup passed

\* "Finish the latent action here too, or ApplyURL never returns for a failed
\* request": a node its request remembers to the end is resumed.  It does not hold,
\* and is in no run, for a request with bShouldHaveBinaryResponse, whose handler
\* resumes nobody.
FailedReturns ==
    \A i \in 1..MaxActions : Waits(i) ~> Over(i) \/ i \in deserted
=============================================================================
