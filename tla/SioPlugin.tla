----------------------------- MODULE SioPlugin -----------------------------
(***************************************************************************)
(* The plugin module (FSocketIOClientModule) and the lifecycle of its      *)
(* components: native clients are made on the game thread, held by one     *)
(* component or shared by an id, and released on background threads, cut   *)
(* where PointerSection is taken.  ShutdownModule waits for a flag.        *)
(***************************************************************************)
EXTENDS Naturals, FiniteSets

CONSTANTS Comps, Natives, Ids,
          None

ASSUME PluginAssumption == None \notin Comps \cup Natives

VARIABLES
    fresh,      \* natives not made yet
    pointers,   \* PluginNativePointers
    shared,     \* SharedNativePointers; AllSharedPtrs is its range
    active,     \* bHasActiveNativePointers
    release,    \* release lambdas under way, by who asked and for what
    game,       \* the game thread: inside NewValidNativePointer, ShutdownModule
    held,       \* NativeClient of a component
    scoped,     \* its PluginScopedId if bPluginScopedConnection
    hears,      \* the component whose callbacks a native calls
    forced      \* ShutdownModule gave up after 5 seconds

pluginVars == <<fresh, pointers, shared, active, release, game, held, scoped, hears, forced>>
compVars   == <<held, scoped, hears>>

Releases == [native : Natives, by : {"owner", "shutdown"}, at : {"queued", "closing", "closed"}]

PluginTypeOK ==
    /\ fresh \subseteq Natives /\ pointers \subseteq Natives \ fresh
    /\ shared \in [Ids -> Natives \cup {None}]
    /\ active \in BOOLEAN /\ forced \in BOOLEAN
    /\ release \subseteq Releases
    /\ game \in {"idle", "made", "waiting", "done"}
    /\ held \in [Comps -> Natives \cup {None}]
    /\ scoped \in [Comps -> Ids \cup {None}]
    /\ hears \in [Natives -> Comps \cup {None}]

PluginInit ==
    /\ fresh = Natives /\ pointers = {}
    /\ shared = [i \in Ids |-> None]
    /\ active = FALSE /\ forced = FALSE
    /\ release = {}
    /\ game = "idle"
    /\ held = [c \in Comps |-> None]
    /\ scoped \in [Comps -> Ids \cup {None}]
    /\ hears = [n \in Natives |-> None]

\* InitializeNative ends in SetupCallbacks, which takes the native's callbacks.
Takes(c, n) ==
    /\ held' = [held EXCEPT ![c] = n]
    /\ hears' = [hears EXCEPT ![n] = c]
    /\ UNCHANGED scoped

\* NewValidNativePointer: the pointer is added under the lock, the flag set
\* after it.
InitializeNew(c) ==
    /\ game = "idle" /\ held[c] = None
    /\ scoped[c] # None => shared[scoped[c]] = None
    /\ \E n \in fresh :
        /\ fresh' = fresh \ {n}
        /\ pointers' = pointers \cup {n}
        /\ shared' = [i \in Ids |-> IF i = scoped[c] THEN n ELSE shared[i]]
        /\ Takes(c, n)
    /\ game' = "made"
    /\ UNCHANGED <<active, release, forced>>

SetActive ==
    /\ game = "made"
    /\ active' = TRUE
    /\ game' = "idle"
    /\ UNCHANGED <<fresh, pointers, shared, release, compVars, forced>>

\* ValidSharedNativePointer finds the id.
InitializeShared(c) ==
    /\ game = "idle" /\ held[c] = None
    /\ scoped[c] # None /\ shared[scoped[c]] # None
    /\ Takes(c, shared[scoped[c]])
    /\ UNCHANGED <<fresh, pointers, shared, active, release, game, forced>>

\* (mutant) an id keeps its native.
ReleaseShared(ns, by) ==
    /\ UNCHANGED shared
    /\ release' = release \cup [native : ns, by : {by}, at : {"queued"}]

\* The part of ReleaseNativePointer the caller runs.
Release(ns, by) ==
    /\ shared' = [i \in Ids |-> IF shared[i] \in ns THEN None ELSE shared[i]]
    /\ release' = release \cup [native : ns, by : {by}, at : {"queued"}]

\* UninitializeComponent clears the callbacks of its native, whoever set them, and
\* releases a native of its own.
Uninitialize(c) ==
    /\ game = "idle" /\ held[c] # None
    /\ hears' = [hears EXCEPT ![held[c]] = None]
    /\ held' = [held EXCEPT ![c] = None]
    /\ IF scoped[c] = None THEN Release({held[c]}, "owner") ELSE UNCHANGED <<shared, release>>
    /\ UNCHANGED <<fresh, pointers, active, game, scoped, forced>>

\* (mutant) the pointer is left to the owner.
RemovesNothing(r) ==
    /\ r \in release /\ r.at = "queued"
    /\ release' = (release \ {r}) \cup {[r EXCEPT !.at = "closing"]}
    /\ UNCHANGED <<fresh, pointers, shared, active, game, compVars, forced>>

\* The lambda removes its pointer, closes the client, and then looks at what is
\* left.
Removes(r) ==
    /\ r \in release /\ r.at = "queued"
    /\ pointers' = pointers \ {r.native}
    /\ release' = (release \ {r}) \cup {[r EXCEPT !.at = "closing"]}
    /\ UNCHANGED <<fresh, shared, active, game, compVars, forced>>

\* SyncDisconnect or SyncShutdown.
Closes(r) ==
    /\ r \in release /\ r.at = "closing"
    /\ release' = (release \ {r}) \cup {[r EXCEPT !.at = "closed"]}
    /\ UNCHANGED <<fresh, pointers, shared, active, game, compVars, forced>>

\* (mutant) whoever is done clears the flag.
UpdatesActiveToFalse(r) ==
    /\ r \in release /\ r.at = "closed"
    /\ active' = FALSE
    /\ release' = release \ {r}
    /\ UNCHANGED <<fresh, pointers, shared, game, compVars, forced>>

UpdatesActive(r) ==
    /\ r \in release /\ r.at = "closed"
    /\ active' = (pointers # {})
    /\ release' = release \ {r}
    /\ UNCHANGED <<fresh, pointers, shared, game, compVars, forced>>

\* ShutdownModule releases what is left, and waits.
Shutdown ==
    /\ game = "idle"
    /\ Release(pointers, "shutdown")
    /\ game' = "waiting"
    /\ UNCHANGED <<fresh, pointers, active, compVars, forced>>

StopsWaiting ==
    /\ game = "waiting" /\ ~active
    /\ game' = "done"
    /\ pointers' = {}
    /\ UNCHANGED <<fresh, shared, active, release, compVars, forced>>

\* "if it takes more than 5 seconds, just quit".
ForceQuit ==
    /\ game = "waiting" /\ active
    /\ game' = "done"
    /\ forced' = TRUE
    /\ pointers' = {}
    /\ UNCHANGED <<fresh, shared, active, release, compVars>>

-----------------------------------------------------------------------------

PluginNext ==
    \/ \E c \in Comps : InitializeNew(c) \/ InitializeShared(c) \/ Uninitialize(c)
    \/ \E r \in release : Removes(r) \/ Closes(r) \/ UpdatesActive(r)
    \/ SetActive \/ Shutdown \/ StopsWaiting \/ ForceQuit

\* Background threads run, SioClient's sync_close() returns, and the game thread
\* goes on; nobody has to start or stop a component, and the 5 s need not pass.
PluginFairness ==
    /\ WF_pluginVars(SetActive) /\ WF_pluginVars(StopsWaiting)
    /\ \A n \in Natives, who \in {"owner", "shutdown"} :
           WF_pluginVars(\E r \in release :
               /\ r.native = n /\ r.by = who
               /\ Removes(r) \/ Closes(r) \/ UpdatesActive(r))

PluginSpec     == PluginInit /\ [][PluginNext]_pluginVars
PluginFairSpec == PluginSpec /\ PluginFairness

-----------------------------------------------------------------------------
(* Properties.                                                             *)

\* bHasActiveNativePointers, which release lambdas of several threads and the
\* creation of a native write, does not miss a native: outside a creation it is
\* set while there is one, and it is not left set when there is none and no
\* release to clear it.
FlagFollows ==
    /\ game # "made" /\ pointers # {} => active
    /\ active /\ game # "done" => pointers # {} \/ release # {}

\* An id never leads a component to a native that was released: the shared
\* references go before the release starts.
SharedIsLive ==
    game # "done" =>
        \A i \in Ids : shared[i] # None =>
            shared[i] \in pointers /\ \A r \in release : r.native # shared[i]

\* ShutdownModule stops waiting because the flag is cleared, not because of its
\* 5 s, if every release ends.
ShutdownEnds == game = "waiting" ~> game = "done"
=============================================================================
