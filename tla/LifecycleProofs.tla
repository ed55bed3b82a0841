-------------------------- MODULE LifecycleProofs --------------------------
(***************************************************************************)
(* Who lives how long: proofs about SioPlugin for every number of          *)
(* components, natives and ids (its types, that bHasActiveNativePointers   *)
(* follows the pointers, that an id leads to no native that was released)  *)
(* and about SioLatent for every number of targets, requests and actions   *)
(* (its types, that a request remembers no action that is gone).           *)
(***************************************************************************)
EXTENDS SioPlugin, SioLatent, TLAPS

-----------------------------------------------------------------------------
(* The natives of the plugin module.                                       *)

\* What was released, or is held, was made.
MadeFirst ==
    /\ \A r \in release : r.native \notin fresh
    /\ \A c \in Comps : held[c] \notin fresh

\* Nobody can release the native that is being made.
MadeStays ==
    game = "made" => \E n \in pointers : \A r \in release : r.native # n

PluginInv == PluginTypeOK /\ MadeFirst /\ MadeStays /\ FlagFollows /\ SharedIsLive

LEMMA PluginInitInv == PluginInit => PluginInv
  BY PluginAssumption
  DEF PluginInit, PluginInv, PluginTypeOK, MadeFirst, MadeStays, FlagFollows, SharedIsLive

\* What a release adds: its records, and no id of a released native is left.
LEMMA ReleaseAdds ==
  ASSUME PluginTypeOK, NEW ns \in SUBSET Natives, NEW by \in {"owner", "shutdown"}, Release(ns, by)
  PROVE  /\ release' \subseteq Releases
         /\ release \subseteq release'
         /\ \A r \in release' : r \in release \/ r.native \in ns
         /\ shared' \in [Ids -> Natives \cup {None}]
         /\ \A i \in Ids : shared'[i] # None => shared'[i] = shared[i] /\ shared[i] \notin ns
  BY DEF Release, Releases, PluginTypeOK

-----------------------------------------------------------------------------
(* One lemma for each group of actions.                                    *)

LEMMA NewInv ==
  ASSUME PluginInv, NEW c \in Comps, InitializeNew(c)
  PROVE  PluginInv'
  <1> PICK n \in fresh :
        /\ fresh' = fresh \ {n} /\ pointers' = pointers \cup {n}
        /\ shared' = [i \in Ids |-> IF i = scoped[c] THEN n ELSE shared[i]]
        /\ Takes(c, n)
    BY DEF InitializeNew
  <1>1. n \in Natives /\ n # None
    BY PluginAssumption DEF PluginInv, PluginTypeOK
  <1>2. PluginTypeOK'
    BY <1>1 DEF InitializeNew, Takes, PluginInv, PluginTypeOK
  <1>3. MadeFirst'
    BY <1>1 DEF InitializeNew, Takes, PluginInv, PluginTypeOK, MadeFirst
  <1>4. MadeStays'
    BY DEF InitializeNew, PluginInv, MadeStays, MadeFirst
  <1>5. FlagFollows'
    BY DEF InitializeNew, PluginInv, FlagFollows
  <1>6. SharedIsLive'
    BY DEF InitializeNew, PluginInv, PluginTypeOK, SharedIsLive, MadeFirst
  <1> QED
    BY <1>2, <1>3, <1>4, <1>5, <1>6 DEF PluginInv

LEMMA GameInv ==
  ASSUME PluginInv, SetActive \/ StopsWaiting \/ ForceQuit
  PROVE  PluginInv'
  <1>1. PluginTypeOK' /\ MadeFirst'
    BY DEF SetActive, StopsWaiting, ForceQuit, compVars, PluginInv, PluginTypeOK, MadeFirst
  <1>2. MadeStays' /\ FlagFollows' /\ SharedIsLive'
    BY DEF SetActive, StopsWaiting, ForceQuit, compVars, PluginInv, MadeStays, FlagFollows, SharedIsLive
  <1> QED
    BY <1>1, <1>2 DEF PluginInv

LEMMA SharedInv ==
  ASSUME PluginInv, NEW c \in Comps, InitializeShared(c)
  PROVE  PluginInv'
  <1>1. shared[scoped[c]] \in Natives /\ shared[scoped[c]] \in pointers
    BY DEF InitializeShared, PluginInv, PluginTypeOK, SharedIsLive
  <1>2. PluginTypeOK' /\ MadeFirst'
    BY <1>1 DEF InitializeShared, Takes, PluginInv, PluginTypeOK, MadeFirst
  <1>3. MadeStays' /\ FlagFollows' /\ SharedIsLive'
    BY DEF InitializeShared, Takes, PluginInv, MadeStays, FlagFollows, SharedIsLive
  <1> QED
    BY <1>2, <1>3 DEF PluginInv

LEMMA UninitializeInv ==
  ASSUME PluginInv, NEW c \in Comps, Uninitialize(c)
  PROVE  PluginInv'
  <1>1. held[c] \in Natives \ fresh
    BY DEF Uninitialize, PluginInv, PluginTypeOK, MadeFirst
  <1>2. /\ release' \subseteq Releases
        /\ release \subseteq release'
        /\ \A r \in release' : r \in release \/ r.native = held[c]
        /\ shared' \in [Ids -> Natives \cup {None}]
        /\ \A i \in Ids : shared'[i] # None =>
              shared'[i] = shared[i] /\ \A r \in release' \ release : r.native # shared[i]
    <2>1. CASE scoped[c] = None
      BY <1>1, <2>1, ReleaseAdds DEF Uninitialize, PluginInv
    <2>2. CASE scoped[c] # None
      BY <2>2 DEF Uninitialize, PluginInv, PluginTypeOK
    <2> QED
      BY <2>1, <2>2
  <1>3. PluginTypeOK' /\ MadeFirst'
    BY <1>1, <1>2, PluginAssumption DEF Uninitialize, PluginInv, PluginTypeOK, MadeFirst
  <1>4. MadeStays' /\ FlagFollows'
    BY <1>2 DEF Uninitialize, PluginInv, MadeStays, FlagFollows
  <1>5. SharedIsLive'
    BY <1>2 DEF Uninitialize, PluginInv, SharedIsLive
  <1> QED
    BY <1>3, <1>4, <1>5 DEF PluginInv

LEMMA ShutdownInv ==
  ASSUME PluginInv, Shutdown
  PROVE  PluginInv'
  <1>1. pointers \subseteq Natives \ fresh
    BY DEF PluginInv, PluginTypeOK
  <1>2. /\ release' \subseteq Releases
        /\ release \subseteq release'
        /\ \A r \in release' : r \in release \/ r.native \in pointers
        /\ shared' \in [Ids -> Natives \cup {None}]
        /\ \A i \in Ids : shared'[i] # None => shared'[i] = shared[i] /\ shared[i] \notin pointers
    BY <1>1, ReleaseAdds DEF Shutdown, PluginInv
  <1>3. PluginTypeOK' /\ MadeFirst'
    BY <1>1, <1>2 DEF Shutdown, compVars, PluginInv, PluginTypeOK, MadeFirst
  <1>4. MadeStays' /\ FlagFollows'
    BY <1>2 DEF Shutdown, PluginInv, MadeStays, FlagFollows
  <1>5. SharedIsLive'
    BY <1>2 DEF Shutdown, PluginInv, SharedIsLive
  <1> QED
    BY <1>3, <1>4, <1>5 DEF PluginInv

\* The steps of a release lambda.
LEMMA LambdaInv ==
  ASSUME PluginInv, NEW r \in release, Removes(r) \/ Closes(r) \/ UpdatesActive(r)
  PROVE  PluginInv'
  <1>1. r \in Releases
    BY DEF PluginInv, PluginTypeOK
  <1>2. [r EXCEPT !.at = "closing"] \in Releases /\ [r EXCEPT !.at = "closed"] \in Releases
    BY <1>1 DEF Releases
  <1>3. [r EXCEPT !.at = "closing"].native = r.native /\ [r EXCEPT !.at = "closed"].native = r.native
    BY <1>1 DEF Releases
  <1>4. PluginTypeOK'
    BY <1>2 DEF Removes, Closes, UpdatesActive, compVars, PluginInv, PluginTypeOK
  <1>5. MadeFirst' /\ MadeStays'
    BY <1>3 DEF Removes, Closes, UpdatesActive, compVars, PluginInv, MadeFirst, MadeStays
  <1>6. FlagFollows'
    BY DEF Removes, Closes, UpdatesActive, PluginInv, FlagFollows
  <1>7. SharedIsLive'
    BY <1>3 DEF Removes, Closes, UpdatesActive, PluginInv, SharedIsLive
  <1> QED
    BY <1>4, <1>5, <1>6, <1>7 DEF PluginInv

LEMMA PluginNextInv == PluginInv /\ [PluginNext]_pluginVars => PluginInv'
  <1> SUFFICES ASSUME PluginInv, [PluginNext]_pluginVars PROVE PluginInv'
    OBVIOUS
  <1>1. CASE PluginNext
    BY <1>1, NewInv, SharedInv, UninitializeInv, LambdaInv, GameInv, ShutdownInv DEF PluginNext
  <1>2. CASE UNCHANGED pluginVars
    BY <1>2 DEF pluginVars, PluginInv, PluginTypeOK, MadeFirst, MadeStays, FlagFollows, SharedIsLive
  <1> QED
    BY <1>1, <1>2

-----------------------------------------------------------------------------

\* The invariant that carries the other results: ReleaseNativePointer is never at
\* work on the native NewValidNativePointer is making.
THEOREM PluginInvariance == PluginSpec => []PluginInv
  BY PluginInitInv, PluginNextInv, PTL DEF PluginSpec

\* bHasActiveNativePointers follows the natives, whichever release lambdas, of any
\* number of threads, run between a creation and its flag.
THEOREM FlagIsRight == PluginSpec => []FlagFollows
  <1>1. PluginInv => FlagFollows
    BY DEF PluginInv
  <1> QED
    BY <1>1, PluginInvariance, PTL

\* ValidSharedNativePointer never hands out a native that a component or
\* ShutdownModule released.
THEOREM SharedStaysLive == PluginSpec => []SharedIsLive
  <1>1. PluginInv => SharedIsLive
    BY DEF PluginInv
  <1> QED
    BY <1>1, PluginInvariance, PTL

-----------------------------------------------------------------------------
(* Latent actions.                                                         *)

Kinds  == {"url", "ack", "binary", "thread"}
States == {"waiting", "called", "resumed", "gone", "stale"}
Action == [target : Targets, uuid : Uuids, kind : Kinds, request : Requests \cup {NoRequest},
           state : States]

LatentTypeOK ==
    /\ living \subseteq Targets
    /\ actions \in Seq(Action)
    /\ toRemove \subseteq Nat
    /\ continue \in [Requests -> Nat]
    /\ captured \subseteq Nat

\* No lambda holds the action of a request.
CapturesOthers == \A i \in captured : i \in DOMAIN actions /\ actions[i].kind # "url"

\* A request remembers a waiting action, and one of its own.
Remembers == \A q \in Requests : continue[q] # 0 =>
                Waits(continue[q]) /\ actions[continue[q]].request = q

LatentInv == LatentTypeOK /\ CapturesOthers /\ Remembers

LEMMA LatentInitInv == LatentInit => LatentInv
  BY DEF LatentInit, LatentInv, LatentTypeOK, CapturesOthers, Remembers

\* What an action forgets is its own.
LEMMA Forgets ==
  ASSUME LatentInv, NEW i \in DOMAIN actions
  PROVE  /\ Cancelled(i) \in [Requests -> Nat]
         /\ \A q \in Requests : Cancelled(i)[q] # 0 =>
               Cancelled(i)[q] = continue[q] /\ continue[q] # i
  <1>1. CASE actions[i].kind = "url"
    BY <1>1 DEF Cancelled, LatentInv, LatentTypeOK, Remembers
  <1>2. CASE actions[i].kind # "url"
    BY <1>2 DEF Cancelled, LatentInv, LatentTypeOK, Remembers, Waits
  <1> QED
    BY <1>1, <1>2

\* A new action is the last, and those before it are what they were.
LEMMA Added ==
  ASSUME LatentInv, NEW a \in Action, actions' = Append(actions, a)
  PROVE  /\ actions' \in Seq(Action)
         /\ DOMAIN actions \subseteq DOMAIN actions'
         /\ Len(actions) + 1 \in DOMAIN actions' \cap Nat
         /\ Len(actions) + 1 \notin DOMAIN actions
         /\ actions'[Len(actions) + 1] = a
         /\ \A i \in DOMAIN actions : actions'[i] = actions[i]
  BY DEF LatentInv, LatentTypeOK

\* The state of one action changes.
LEMMA Changed ==
  ASSUME LatentInv, NEW i \in DOMAIN actions, NEW state \in States,
         actions' = [actions EXCEPT ![i].state = state]
  PROVE  /\ actions' \in Seq(Action)
         /\ DOMAIN actions' = DOMAIN actions
         /\ \A j \in DOMAIN actions :
               /\ actions'[j].kind = actions[j].kind
               /\ actions'[j].request = actions[j].request
               /\ j # i => actions'[j] = actions[j]
  <1>1. actions \in Seq(Action) /\ actions[i] \in Action
    BY DEF LatentInv, LatentTypeOK
  <1>2. [actions[i] EXCEPT !.state = state] \in Action
    BY <1>1 DEF Action
  <1>3. actions' = [actions EXCEPT ![i] = [actions[i] EXCEPT !.state = state]]
    BY <1>1
  <1>4. actions' \in Seq(Action) /\ DOMAIN actions' = DOMAIN actions
    BY <1>1, <1>2, <1>3
  <1>5. /\ [actions[i] EXCEPT !.state = state].kind = actions[i].kind
        /\ [actions[i] EXCEPT !.state = state].request = actions[i].request
    BY <1>1 DEF Action
  <1> QED
    BY <1>1, <1>3, <1>4, <1>5

-----------------------------------------------------------------------------
(* The actions.                                                            *)

LEMMA ApplyInv ==
  ASSUME LatentInv, NEW target \in Targets, NEW uuid \in Uuids, NEW q \in Requests,
         ApplyURL(target, uuid, q)
  PROVE  LatentInv'
  <1> DEFINE new == Len(actions) + 1
             a == NewAction(target, uuid, "url", q)
  <1>1. a \in Action /\ a.kind = "url" /\ a.request = q /\ a.state = "waiting"
    BY DEF NewAction, Action, Kinds, States
  <1>2. actions' = Append(actions, a)
    BY DEF ApplyURL
  <1>3. /\ actions' \in Seq(Action)
        /\ DOMAIN actions \subseteq DOMAIN actions'
        /\ new \in DOMAIN actions' \cap Nat
        /\ actions'[new] = a
        /\ \A i \in DOMAIN actions : actions'[i] = actions[i]
    BY <1>1, <1>2, Added
  <1>4. PICK old \in [Requests -> Nat] :
          /\ continue' = [old EXCEPT ![q] = new]
          /\ \A p \in Requests : old[p] # 0 => old[p] = continue[p]
    <2>1. CASE continue' = [continue EXCEPT ![q] = new]
      BY <2>1 DEF LatentInv, LatentTypeOK
    <2>2. CASE \E i \in ActionsOf(target) : continue' = [Cancelled(i) EXCEPT ![q] = new]
      <3>1. PICK i \in ActionsOf(target) : continue' = [Cancelled(i) EXCEPT ![q] = new]
        BY <2>2
      <3>2. /\ Cancelled(i) \in [Requests -> Nat]
            /\ \A p \in Requests : Cancelled(i)[p] # 0 => Cancelled(i)[p] = continue[p]
        BY Forgets DEF ActionsOf
      <3> QED
        BY <3>1, <3>2
    <2> QED
      BY <2>1, <2>2 DEF ApplyURL
  <1>5. toRemove' \subseteq Nat
    <2>1. ActionsOf(target) \subseteq Nat
      BY DEF ActionsOf, LatentInv, LatentTypeOK
    <2> QED
      BY <2>1 DEF ApplyURL, LatentInv, LatentTypeOK
  <1>6. LatentTypeOK'
    BY <1>3, <1>4, <1>5 DEF ApplyURL, LatentInv, LatentTypeOK
  <1>7. CapturesOthers'
    BY <1>3 DEF ApplyURL, LatentInv, CapturesOthers
  <1>8. Remembers'
    <2> SUFFICES ASSUME NEW p \in Requests, continue'[p] # 0
                 PROVE  Waits(continue[p])' /\ actions'[continue'[p]].request = p
      BY DEF Remembers
    <2>1. CASE p = q
      BY <1>1, <1>3, <1>4, <2>1 DEF Waits
    <2>2. CASE p # q
      <3>1. continue'[p] = continue[p] /\ continue[p] # 0
        BY <1>4, <2>2
      <3> QED
        BY <1>3, <3>1 DEF Waits, LatentInv, Remembers
    <2> QED
      BY <2>1, <2>2
  <1> QED
    BY <1>6, <1>7, <1>8 DEF LatentInv

\* Other nodes add actions that no request remembers.
LEMMA CreateInv ==
  ASSUME LatentInv, NEW target \in Targets, NEW uuid \in Uuids,
         \/ EmitWithGraphCallBack(target, uuid)
         \/ GetURLBinary(target, uuid)
         \/ CallFunctionOnThreadGraphReturn(target, uuid)
  PROVE  LatentInv'
  <1>1. PICK kind \in {"ack", "binary", "thread"}, state \in {"waiting", "called"} :
          /\ CreateLatentAction(target, uuid, kind, state)
          /\ captured' \in {captured, captured \cup {Len(actions) + 1}}
    BY DEF EmitWithGraphCallBack, GetURLBinary, CallFunctionOnThreadGraphReturn
  <1> DEFINE a == [target |-> target, uuid |-> uuid, kind |-> kind, request |-> NoRequest, state |-> state]
  <1>2. a \in Action /\ a.kind # "url"
    BY DEF Action, Kinds, States
  <1>3. actions' = Append(actions, a)
    BY <1>1 DEF CreateLatentAction, NewAction
  <1>4. /\ actions' \in Seq(Action)
        /\ DOMAIN actions \subseteq DOMAIN actions'
        /\ Len(actions) + 1 \in DOMAIN actions' \cap Nat
        /\ actions'[Len(actions) + 1] = a
        /\ \A i \in DOMAIN actions : actions'[i] = actions[i]
    BY <1>2, <1>3, Added
  <1>5. LatentTypeOK'
    BY <1>1, <1>4 DEF CreateLatentAction, LatentInv, LatentTypeOK
  <1>6. CapturesOthers'
    BY <1>1, <1>2, <1>4 DEF LatentInv, CapturesOthers
  <1>7. Remembers'
    BY <1>1, <1>4 DEF CreateLatentAction, LatentInv, Remembers, Waits
  <1> QED
    BY <1>5, <1>6, <1>7 DEF LatentInv

\* A response finishes the action its request remembers.
LEMMA FinishInv ==
  ASSUME LatentInv, NEW q \in Requests, FinishAction(q)
  PROVE  LatentInv'
  <1>1. continue' = [continue EXCEPT ![q] = 0] /\ UNCHANGED <<living, toRemove, captured>>
    BY DEF FinishAction
  <1>2. CASE continue[q] = 0
    BY <1>1, <1>2 DEF FinishAction, LatentInv, LatentTypeOK, CapturesOthers, Remembers, Waits
  <1>3. CASE continue[q] # 0
    <2>1. /\ continue[q] \in DOMAIN actions
          /\ actions' = [actions EXCEPT ![continue[q]].state = "called"]
      BY <1>3 DEF FinishAction, LatentInv, Remembers, Waits
    <2>2. /\ actions' \in Seq(Action)
          /\ DOMAIN actions' = DOMAIN actions
          /\ \A j \in DOMAIN actions :
                /\ actions'[j].kind = actions[j].kind
                /\ actions'[j].request = actions[j].request
                /\ j # continue[q] => actions'[j] = actions[j]
      BY <2>1, Changed DEF States
    <2>3. LatentTypeOK' /\ CapturesOthers'
      BY <1>1, <2>2 DEF LatentInv, LatentTypeOK, CapturesOthers
    <2>4. ASSUME NEW p \in Requests, continue'[p] # 0
          PROVE  p # q /\ continue'[p] = continue[p] /\ continue[p] # continue[q]
      BY <1>1, <1>3, <2>4 DEF LatentInv, LatentTypeOK, Remembers
    <2>5. Remembers'
      BY <2>2, <2>4 DEF LatentInv, Remembers, Waits
    <2> QED
      BY <2>3, <2>5 DEF LatentInv
  <1> QED
    BY <1>2, <1>3

\* A lambda, or the engine, is done with an action.
LEMMA DoneInv ==
  ASSUME LatentInv, NEW i \in 1..MaxActions, CallAction(i) \/ RemoveAction(i) \/ UpdateOperation(i)
  PROVE  LatentInv'
  <1>1. i \in DOMAIN actions
    BY DEF CallAction, RemoveAction, UpdateOperation, LatentInv, CapturesOthers
  <1>2. \E state \in States : actions' = [actions EXCEPT ![i].state = state]
    BY DEF CallAction, RemoveAction, UpdateOperation, States
  <1>3. /\ actions' \in Seq(Action)
        /\ DOMAIN actions' = DOMAIN actions
        /\ \A j \in DOMAIN actions :
              /\ actions'[j].kind = actions[j].kind
              /\ actions'[j].request = actions[j].request
              /\ j # i => actions'[j] = actions[j]
    BY <1>1, <1>2, Changed
  <1>4. /\ continue' \in [Requests -> Nat]
        /\ \A q \in Requests : continue'[q] # 0 => continue'[q] = continue[q] /\ continue[q] # i
    <2>1. CASE RemoveAction(i)
      BY <1>1, <2>1, Forgets DEF RemoveAction
    <2>2. CASE CallAction(i)
      BY <2>2 DEF CallAction, LatentInv, LatentTypeOK, CapturesOthers, Remembers, Waits
    <2>3. CASE UpdateOperation(i)
      BY <2>3 DEF UpdateOperation, LatentInv, LatentTypeOK, Remembers, Waits
    <2> QED
      BY <2>1, <2>2, <2>3
  <1>5. LatentTypeOK' /\ CapturesOthers'
    BY <1>3, <1>4 DEF CallAction, RemoveAction, UpdateOperation, LatentInv, LatentTypeOK, CapturesOthers
  <1>6. Remembers'
    BY <1>3, <1>4 DEF LatentInv, Remembers, Waits
  <1> QED
    BY <1>5, <1>6 DEF LatentInv

\* The rest changes no action.
LEMMA OtherInv ==
  ASSUME LatentInv,
         \/ \E q \in Requests : \/ CancelRequest(q) \/ ProcessURL(q)
                               \/ OnProcessRequestComplete(q) \/ BinaryCompletes(q)
         \/ \E t \in Targets : Destroy(t)
         \/ \E i \in 1..MaxActions : DropCapture(i)
  PROVE  LatentInv'
  <1>1. /\ UNCHANGED <<actions, toRemove>>
        /\ living' \subseteq Targets /\ captured' \subseteq captured
    BY DEF CancelRequest, ProcessURL, OnProcessRequestComplete, BinaryCompletes, Destroy,
           DropCapture, LatentInv, LatentTypeOK
  <1>2. \/ UNCHANGED continue
        \/ \E q \in Requests : continue' = [continue EXCEPT ![q] = 0]
    BY DEF CancelRequest, ProcessURL, OnProcessRequestComplete, BinaryCompletes, Destroy,
           DropCapture
  <1>3. /\ continue' \in [Requests -> Nat]
        /\ \A q \in Requests : continue'[q] # 0 => continue'[q] = continue[q]
    BY <1>2 DEF LatentInv, LatentTypeOK
  <1> QED
    BY <1>1, <1>3 DEF LatentInv, LatentTypeOK, CapturesOthers, Remembers, Waits

LEMMA LatentNextInv == LatentInv /\ [LatentNext]_latentVars => LatentInv'
  <1> SUFFICES ASSUME LatentInv, [LatentNext]_latentVars PROVE LatentInv'
    OBVIOUS
  <1>1. CASE UNCHANGED latentVars
    BY <1>1 DEF latentVars, LatentInv, LatentTypeOK, CapturesOthers, Remembers, Waits
  <1>2. CASE LatentNext
    BY <1>2, ApplyInv, CreateInv, FinishInv, DoneInv, OtherInv DEF LatentNext
  <1> QED
    BY <1>1, <1>2

-----------------------------------------------------------------------------

\* The invariant: an action a request remembers waits and is that request's, and no
\* lambda holds it.
THEOREM LatentInvariance == LatentSpec => []LatentInv
  BY LatentInitInv, LatentNextInv, PTL DEF LatentSpec

\* ContinueAction of USIOJRequestJSON never points to a deleted action, however
\* responses, cancels, nodes that run again and destroyed targets follow each other.
THEOREM ContinueStaysLive == LatentSpec => []ContinueLive
  <1>1. LatentInv => ContinueLive
    BY DEF LatentInv, Remembers, ContinueLive
  <1> QED
    BY <1>1, LatentInvariance, PTL
=============================================================================
