--------------------------- MODULE ProxyClearance ---------------------------
(***************************************************************************)
(* The proxy directory of one worker (app/control/proxy/__init__.py) and   *)
(* the scheduler that refreshes its clearance bundles (scheduler.py): which *)
(* node a request leaves through, which bundle of cookies it gets, who     *)
(* fetches a missing bundle and who waits for that fetch.                  *)
(*                                                                         *)
(* The bodies under the directory's lock have no await, so a call runs in  *)
(* one step up to the two places where it suspends: waiting for another    *)
(* coroutine's event, and the FlareSolverr call.  Every caller asks for    *)
(* the runtime, which reloads the configuration, and acquires in one step. *)
(*                                                                         *)
(* An event is named by the coroutine that made it: it makes no other      *)
(* before it has set this one.                                             *)
(***************************************************************************)
EXTENDS Naturals, Sequences, FiniteSets

CONSTANTS Requests,     \* the requests that use the directory
          Scheduler,    \* the clearance scheduler's task
          Urls,         \* proxy URLs
          Direct,       \* the affinity of going without a proxy
          Hosts,        \* the hosts that clearance is needed for
          DefaultHost,  \* grok.com
          Configs,      \* the configurations the service may be given
          CursorMod,    \* a common multiple of the pools' lengths
          MaxAcquires,  \* bound: acquisitions in a behaviour
          MaxChanges,   \* bound: changes of configuration
          Nobody,       \* no coroutine
          NoKey         \* no bundle key

Actors     == Requests \cup {Scheduler}
Affinities == Urls \cup {Direct}
Keys       == Affinities \X Hosts

EgressModes    == {"direct", "single", "pool"}
ClearanceModes == {"none", "manual", "flaresolverr"}

\* A configuration: the modes, the base nodes in order, the affinities of the
\* resource nodes, and a mark for the other fields that make it differ.
Config == [egress : EgressModes, clearance : ClearanceModes,
           nodes : Seq(Urls), resource : SUBSET Urls, mark : Nat]

ASSUME ProxyAssumption ==
    /\ IsFiniteSet(Requests)
    /\ Scheduler \notin Requests
    /\ Direct \notin Urls
    /\ DefaultHost \in Hosts
    /\ Configs \subseteq Config
    /\ CursorMod \in Nat \ {0}
    /\ MaxAcquires \in Nat /\ MaxChanges \in Nat
    /\ Nobody \notin Actors
    /\ NoKey \notin Keys

VARIABLES config,    \* the configuration snapshot
          loaded,    \* the configuration the directory has loaded
          bundle,    \* _bundles: the state of each key's bundle
          event,     \* _refresh_events: the maker of each key's event
          cursor,    \* _pool_cursor, modulo CursorMod
          stage,     \* where each coroutine stands
          key,       \* the key it works for
          waitsFor,  \* whose event it waits for
          task,      \* what the scheduler does
          todo,      \* the keys its current round has left
          acquires, changes  \* counters for the bounds

directoryVars == <<loaded, bundle, event, cursor>>
actorVars     == <<stage, key, waitsFor>>
roundVars     == <<task, todo>>
vars == <<config, directoryVars, actorVars, roundVars, acquires, changes>>

BundleStates == {"none", "valid", "invalid"}

\* "fetch" is the single-flight fetch, "swap" the scheduler's own.
Stages == {"idle", "wait", "woken", "fetch", "swap", "lease"}

TypeOK ==
    /\ config   \in Configs
    /\ loaded   \in Configs
    /\ bundle   \in [Keys -> BundleStates]
    /\ event    \in [Keys -> Actors \cup {Nobody}]
    /\ cursor   \in 0 .. CursorMod - 1
    /\ stage    \in [Actors -> Stages]
    /\ key      \in [Actors -> Keys \cup {NoKey}]
    /\ waitsFor \in [Actors -> Actors \cup {Nobody}]
    /\ task     \in {"start", "warm", "sleep", "refresh"}
    /\ todo     \in SUBSET Keys
    /\ acquires \in Nat
    /\ changes  \in Nat

-----------------------------------------------------------------------------
(* Loading the configuration.                                              *)

NodesOf(c) == {c.nodes[i] : i \in 1 .. Len(c.nodes)}

\* valid_affinities.
AffinitiesOf(c) ==
    IF NodesOf(c) \cup c.resource = {} THEN {Direct}
                                       ELSE NodesOf(c) \cup c.resource

\* The keys that warm_up and refresh_clearance_safe always cover.
DefaultKeys(c) ==
    IF NodesOf(c) = {} THEN {<<Direct, DefaultHost>>}
                       ELSE NodesOf(c) \X {DefaultHost}

\* load(): nothing if the configuration is the loaded one; otherwise bundles
\* are kept but invalid, and bundles and events of other affinities dropped.
LoadedBundle ==
    IF loaded = config THEN bundle
    ELSE [k \in Keys |-> IF bundle[k] # "none" /\ k[1] \in AffinitiesOf(config)
                         THEN "invalid" ELSE "none"]

\* Mutant: a reload forgets all running fetches.
EventsForgotten == IF loaded = config THEN event ELSE [k \in Keys |-> Nobody]

LoadedEvent ==
    IF loaded = config THEN event
    ELSE [k \in Keys |-> IF k[1] \in AffinitiesOf(config) THEN event[k]
                                                          ELSE Nobody]

LoadedCursor == IF loaded = config THEN cursor ELSE 0

\* The directory is made and loaded before the service takes requests.
Init ==
    /\ config \in Configs
    /\ loaded = config
    /\ bundle   = [k \in Keys |-> "none"]
    /\ event    = [k \in Keys |-> Nobody]
    /\ cursor   = 0
    /\ stage    = [a \in Actors |-> "idle"]
    /\ key      = [a \in Actors |-> NoKey]
    /\ waitsFor = [a \in Actors |-> Nobody]
    /\ task = "start" /\ todo = {}
    /\ acquires = 0 /\ changes = 0

\* An operator saves another configuration.
SetConfig(c) ==
    /\ c # config
    /\ changes < MaxChanges
    /\ changes' = changes + 1
    /\ config' = c
    /\ UNCHANGED <<directoryVars, actorVars, roundVars, acquires>>

-----------------------------------------------------------------------------
(* The single-flight guard.                                                *)

\* What a coroutine does once it has its answer: a request goes on with its
\* lease, the scheduler to its next key.
Rest(a) == IF a = Scheduler THEN "idle" ELSE "lease"

Answered(a, k) ==
    /\ stage'    = [stage EXCEPT ![a] = Rest(a)]
    /\ key'      = [key EXCEPT ![a] = IF a = Scheduler THEN NoKey ELSE k]
    /\ waitsFor' = [waitsFor EXCEPT ![a] = Nobody]

\* The four ways through _get_or_build_bundle from a place where the bundles
\* are b, the events e and the loaded configuration c, up to its next await.
HasBundle(a, k, b, e) ==
    /\ b[k] = "valid"
    /\ bundle' = b /\ event' = e
    /\ Answered(a, k)

JoinFetch(a, k, b, e) ==
    /\ b[k] # "valid" /\ e[k] # Nobody
    /\ bundle' = b /\ event' = e
    /\ stage'    = [stage EXCEPT ![a] = "wait"]
    /\ key'      = [key EXCEPT ![a] = k]
    /\ waitsFor' = [waitsFor EXCEPT ![a] = e[k]]

\* A provider that answers without suspending: a bundle from the operator's
\* cookies, or nothing because the mode has changed.
BuildAtOnce(a, k, b, e, c) ==
    /\ b[k] # "valid" /\ e[k] = Nobody
    /\ c.clearance = "manual" \/ config.clearance # "flaresolverr"
    /\ bundle' = IF c.clearance = "manual" /\ config.clearance = "manual"
                 THEN [b EXCEPT ![k] = "valid"] ELSE b
    /\ event' = e
    /\ Answered(a, k)

StartFetch(a, k, b, e, c) ==
    /\ b[k] # "valid" /\ e[k] = Nobody
    /\ c.clearance # "manual" /\ config.clearance = "flaresolverr"
    /\ bundle' = b
    /\ event'    = [e EXCEPT ![k] = a]
    /\ stage'    = [stage EXCEPT ![a] = "fetch"]
    /\ key'      = [key EXCEPT ![a] = k]
    /\ waitsFor' = [waitsFor EXCEPT ![a] = Nobody]

GetOrBuild(a, k, b, e, c) ==
    \/ HasBundle(a, k, b, e)
    \/ JoinFetch(a, k, b, e)
    \/ BuildAtOnce(a, k, b, e, c)
    \/ StartFetch(a, k, b, e, c)

\* Mutant: the event is removed and not set.
Unwoken(a) == stage

\* The event fires: whoever waited for it may go on.
Woken(a) ==
    [x \in Actors |-> IF stage[x] = "wait" /\ waitsFor[x] = a
                      THEN "woken" ELSE stage[x]]

\* Mutant: the winner does not remove its event if the fetch has failed.
EventAfter(a, ok) == IF ok THEN [event EXCEPT ![key[a]] = Nobody] ELSE event

\* The finally block: whichever event the key has is removed.
EventPopped(a, ok) == [event EXCEPT ![key[a]] = Nobody]

\* The FlareSolverr call returns, with a bundle or without one.
FetchDone(a) ==
    /\ stage[a] = "fetch"
    /\ \E ok \in BOOLEAN :
          /\ bundle' = IF ok THEN [bundle EXCEPT ![key[a]] = "valid"] ELSE bundle
          /\ event' = EventPopped(a, ok)
    /\ stage' = [Woken(a) EXCEPT ![a] = Rest(a)]
    /\ key' = IF a = Scheduler THEN [key EXCEPT ![a] = NoKey] ELSE key
    /\ UNCHANGED <<config, loaded, cursor, waitsFor, roundVars, acquires, changes>>

\* A woken coroutine looks again.
Retry(a) ==
    /\ stage[a] = "woken"
    /\ GetOrBuild(a, key[a], bundle, event, loaded)
    /\ UNCHANGED <<config, loaded, cursor, roundVars, acquires, changes>>

-----------------------------------------------------------------------------
(* Requests.                                                               *)

\* _pick_proxy_url.
Picked(c, cur) ==
    IF c.egress = "direct" \/ c.nodes = <<>> THEN Direct
    ELSE IF c.egress = "single" THEN c.nodes[1]
    ELSE c.nodes[(cur % Len(c.nodes)) + 1]

\* get_proxy_runtime and acquire.
Acquire(r) ==
    /\ stage[r] = "idle"
    /\ acquires < MaxAcquires
    /\ acquires' = acquires + 1
    /\ loaded' = config
    /\ cursor' = LoadedCursor
    /\ \E h \in Hosts :
          LET k == <<Picked(config, LoadedCursor), h>>
          IN  IF config.clearance = "none"
              THEN /\ bundle' = LoadedBundle /\ event' = LoadedEvent
                   /\ Answered(r, k)
              ELSE GetOrBuild(r, k, LoadedBundle, LoadedEvent, config)
    /\ UNCHANGED <<config, roundVars, changes>>

\* The client is gone while its request waits or fetches.
Cancel(r) ==
    /\ stage[r] \in {"wait", "woken", "fetch"}
    /\ IF stage[r] = "fetch"
       THEN /\ event' = EventPopped(r, FALSE)
            /\ stage' = [Woken(r) EXCEPT ![r] = "idle"]
       ELSE /\ stage' = [stage EXCEPT ![r] = "idle"]
            /\ UNCHANGED event
    /\ key' = [key EXCEPT ![r] = NoKey]
    /\ waitsFor' = [waitsFor EXCEPT ![r] = Nobody]
    /\ UNCHANGED <<config, loaded, bundle, cursor, roundVars, acquires, changes>>

FeedbackKinds == {"SUCCESS", "CHALLENGE", "UNAUTHORIZED", "FORBIDDEN",
                  "RATE_LIMITED", "UPSTREAM_5XX", "TRANSPORT_ERROR"}
Discredits    == {"CHALLENGE", "UNAUTHORIZED"}
NodeFailures  == Discredits \cup {"FORBIDDEN", "TRANSPORT_ERROR"}

\* feedback(lease, result); a request that gives none is like a success.
Feedback(r, fk) ==
    /\ stage[r] = "lease"
    /\ bundle' = IF fk \in Discredits /\ bundle[key[r]] # "none"
                 THEN [bundle EXCEPT ![key[r]] = "invalid"] ELSE bundle
    /\ cursor' = IF /\ fk \in NodeFailures
                    /\ loaded.egress = "pool" /\ key[r][1] # Direct
                 THEN (cursor + 1) % CursorMod ELSE cursor
    /\ stage' = [stage EXCEPT ![r] = "idle"]
    /\ key'   = [key EXCEPT ![r] = NoKey]
    /\ UNCHANGED <<config, loaded, event, waitsFor, roundVars, acquires, changes>>

-----------------------------------------------------------------------------
(* The scheduler: one round of warm_up, then rounds of                     *)
(* refresh_clearance_safe.  A round takes its keys in any order.           *)

\* load(), and nothing more if no clearance is needed.
BeginWarmUp ==
    /\ task = "start"
    /\ loaded' = config /\ cursor' = LoadedCursor
    /\ bundle' = LoadedBundle /\ event' = LoadedEvent
    /\ task' = "warm"
    /\ todo' = IF config.clearance = "none" THEN {} ELSE DefaultKeys(config)
    /\ UNCHANGED <<config, actorVars, acquires, changes>>

WarmNext(k) ==
    /\ task = "warm" /\ stage[Scheduler] = "idle"
    /\ k \in todo
    /\ todo' = todo \ {k}
    /\ IF loaded.clearance = "none"
       THEN UNCHANGED <<bundle, event, actorVars>>
       ELSE GetOrBuild(Scheduler, k, bundle, event, loaded)
    /\ UNCHANGED <<config, loaded, cursor, task, acquires, changes>>

RoundEnds ==
    /\ task \in {"warm", "refresh"} /\ stage[Scheduler] = "idle"
    /\ todo = {}
    /\ task' = "sleep"
    /\ UNCHANGED <<config, directoryVars, actorVars, todo, acquires, changes>>

\* load() and the targets of a refresh: the default keys and all keys that
\* have a bundle.
BeginRefresh ==
    /\ task = "sleep"
    /\ loaded' = config /\ cursor' = LoadedCursor
    /\ bundle' = LoadedBundle /\ event' = LoadedEvent
    /\ config.clearance # "none"
    /\ task' = "refresh"
    /\ todo' = DefaultKeys(config) \cup {k \in Keys : LoadedBundle[k] # "none"}
    /\ UNCHANGED <<config, actorVars, acquires, changes>>

\* One target: built at once, skipped by the provider, or fetched.  There is
\* no event here.
RefreshNext(k) ==
    /\ task = "refresh" /\ stage[Scheduler] = "idle"
    /\ k \in todo
    /\ todo' = todo \ {k}
    /\ IF loaded.clearance = "manual" \/ config.clearance # "flaresolverr"
       THEN /\ bundle' = IF /\ loaded.clearance = "manual"
                            /\ config.clearance = "manual"
                         THEN [bundle EXCEPT ![k] = "valid"] ELSE bundle
            /\ UNCHANGED <<stage, key>>
       ELSE /\ stage' = [stage EXCEPT ![Scheduler] = "swap"]
            /\ key'   = [key EXCEPT ![Scheduler] = k]
            /\ UNCHANGED bundle
    /\ UNCHANGED <<config, loaded, event, cursor, waitsFor, task, acquires, changes>>

\* A refresh that fails leaves the old bundle.
Swap ==
    /\ stage[Scheduler] = "swap"
    /\ \E ok \in BOOLEAN :
          bundle' = IF ok THEN [bundle EXCEPT ![key[Scheduler]] = "valid"]
                          ELSE bundle
    /\ stage' = [stage EXCEPT ![Scheduler] = "idle"]
    /\ key'   = [key EXCEPT ![Scheduler] = NoKey]
    /\ UNCHANGED <<config, loaded, event, cursor, waitsFor, roundVars, acquires,
                   changes>>

Next ==
    \/ \E c \in Configs : SetConfig(c)
    \/ \E a \in Actors : FetchDone(a) \/ Retry(a)
    \/ \E r \in Requests : Acquire(r) \/ Cancel(r)
    \/ \E r \in Requests, fk \in FeedbackKinds : Feedback(r, fk)
    \/ \E k \in Keys : WarmNext(k) \/ RefreshNext(k)
    \/ BeginWarmUp
    \/ RoundEnds
    \/ BeginRefresh
    \/ Swap

(***************************************************************************)
(* A FlareSolverr call has a timeout, and the event loop runs a coroutine  *)
(* whose event has been set.                                               *)
(***************************************************************************)
Fairness == \A a \in Actors : WF_vars(FetchDone(a)) /\ WF_vars(Retry(a))

Spec     == Init /\ [][Next]_vars
FairSpec == Spec /\ Fairness

-----------------------------------------------------------------------------
(* Properties.                                                             *)

\* Nobody waits for an event that nobody will set: whoever waits, waits for a
\* fetch of its own key that is under way, and so does whoever will find an
\* event there, although reloads drop events, fetches fail and their
\* coroutines are cancelled.
WaitersHaveFetcher ==
    /\ \A a \in Actors : stage[a] = "wait" =>
          /\ waitsFor[a] # Nobody
          /\ stage[waitsFor[a]] = "fetch"
          /\ key[waitsFor[a]] = key[a]
    /\ \A k \in Keys : event[k] # Nobody =>
          stage[event[k]] = "fetch" /\ key[event[k]] = k

\* The affinities that every configuration has.
StableAffinities == {x \in Affinities : \A c \in Configs : x \in AffinitiesOf(c)}

\* "Single-flight: only one coroutine fetches clearance per proxy+host key"
\* (_get_or_build_bundle), for as long as no configuration drops the node.
OneFetchPerKey ==
    \A a, b \in Actors :
        /\ stage[a] = "fetch" /\ stage[b] = "fetch"
        /\ key[a] = key[b] /\ key[a][1] \in StableAffinities
        => a = b

\* An acquisition comes to an end, with a bundle or without.  Acquisitions
\* are bounded: without a bound newcomers could overtake a waiter for ever.
AcquiresEnd ==
    \A a \in Actors :
        stage[a] \in {"wait", "woken", "fetch"} ~> stage[a] \in {"idle", "lease"}
=============================================================================
