------------------------ MODULE ProxyClearanceProofs ------------------------
(***************************************************************************)
(* Proofs about the proxy directory: nobody waits for an event that nobody *)
(* will set, and a key that no configuration drops is fetched by one       *)
(* coroutine at a time, for any requests, nodes, hosts and configurations. *)
(*                                                                         *)
(* The invariant relates stages, keys, waiters and events.  It is stated   *)
(* of values and not of the variables, so that each kind of change a step  *)
(* makes is a lemma of its own.                                            *)
(***************************************************************************)
EXTENDS ProxyClearance, TLAPS

Maps(st, ky, wf, ev) ==
    /\ st \in [Actors -> Stages]
    /\ ky \in [Actors -> Keys \cup {NoKey}]
    /\ wf \in [Actors -> Actors \cup {Nobody}]
    /\ ev \in [Keys -> Actors \cup {Nobody}]

Good(st, ky, wf, ev) ==
    /\ \A a \in Actors : st[a] = "wait" =>
          wf[a] # Nobody /\ st[wf[a]] = "fetch" /\ ky[wf[a]] = ky[a]
    /\ \A a \in Actors : st[a] # "idle" => ky[a] \in Keys
    /\ \A k \in Keys : ev[k] # Nobody =>
          st[ev[k]] = "fetch" /\ ky[ev[k]] = k
    /\ \A a \in Actors : st[a] = "fetch" /\ ky[a][1] \in StableAffinities =>
          ev[ky[a]] = a

IInv == TypeOK /\ Good(stage, key, waitsFor, event)

-----------------------------------------------------------------------------
(* The changes that steps make.                                            *)

\* A reload drops events, none of them of a stable affinity.
LEMMA DropEvents ==
    ASSUME NEW st, NEW ky, NEW wf, NEW ev, NEW ev2,
           Maps(st, ky, wf, ev), Good(st, ky, wf, ev),
           ev2 \in [Keys -> Actors \cup {Nobody}],
           \A k \in Keys : \/ ev2[k] = ev[k]
                           \/ ev2[k] = Nobody /\ k[1] \notin StableAffinities
    PROVE  Maps(st, ky, wf, ev2) /\ Good(st, ky, wf, ev2)
  BY DEF Maps, Good

\* A coroutine that does not fetch takes up a key or lays it down.
LEMMA Move ==
    ASSUME NEW st, NEW ky, NEW wf, NEW ev,
           Maps(st, ky, wf, ev), Good(st, ky, wf, ev),
           NEW a \in Actors, st[a] # "fetch",
           NEW s \in {"idle", "lease", "swap"},
           NEW k \in Keys \cup {NoKey}, s # "idle" => k \in Keys,
           NEW w \in Actors \cup {Nobody}
    PROVE  /\ Maps([st EXCEPT ![a] = s], [ky EXCEPT ![a] = k],
                   [wf EXCEPT ![a] = w], ev)
           /\ Good([st EXCEPT ![a] = s], [ky EXCEPT ![a] = k],
                   [wf EXCEPT ![a] = w], ev)
  <1> DEFINE st2 == [st EXCEPT ![a] = s]
             ky2 == [ky EXCEPT ![a] = k]
             wf2 == [wf EXCEPT ![a] = w]
  <1>1. Maps(st2, ky2, wf2, ev)
    BY DEF Maps, Stages
  <1>2. /\ \A x \in Actors \ {a} : st2[x] = st[x] /\ ky2[x] = ky[x] /\ wf2[x] = wf[x]
        /\ st2[a] = s /\ ky2[a] = k
    BY DEF Maps
  <1>3. \A x \in Actors : st[x] = "fetch" => x # a
    OBVIOUS
  <1>4. Good(st2, ky2, wf2, ev)
    BY <1>2, <1>3 DEF Maps, Good
  <1>. QED  BY <1>1, <1>4

\* A coroutine joins the fetch whose event its key has.
LEMMA Join ==
    ASSUME NEW st, NEW ky, NEW wf, NEW ev,
           Maps(st, ky, wf, ev), Good(st, ky, wf, ev),
           NEW a \in Actors, st[a] # "fetch",
           NEW k \in Keys, ev[k] # Nobody
    PROVE  /\ Maps([st EXCEPT ![a] = "wait"], [ky EXCEPT ![a] = k],
                   [wf EXCEPT ![a] = ev[k]], ev)
           /\ Good([st EXCEPT ![a] = "wait"], [ky EXCEPT ![a] = k],
                   [wf EXCEPT ![a] = ev[k]], ev)
  <1> DEFINE st2 == [st EXCEPT ![a] = "wait"]
             ky2 == [ky EXCEPT ![a] = k]
             wf2 == [wf EXCEPT ![a] = ev[k]]
  <1>1. Maps(st2, ky2, wf2, ev)
    BY DEF Maps, Stages
  <1>2. /\ \A x \in Actors \ {a} : st2[x] = st[x] /\ ky2[x] = ky[x] /\ wf2[x] = wf[x]
        /\ st2[a] = "wait" /\ ky2[a] = k /\ wf2[a] = ev[k]
    BY DEF Maps
  <1>3. ev[k] \in Actors /\ st[ev[k]] = "fetch" /\ ky[ev[k]] = k
    BY DEF Maps, Good
  <1>4. \A x \in Actors : st[x] = "fetch" => x # a
    OBVIOUS
  <1>5. Good(st2, ky2, wf2, ev)
    BY <1>2, <1>3, <1>4 DEF Maps, Good
  <1>. QED  BY <1>1, <1>5

\* A coroutine starts the fetch of a key that has no event.
LEMMA Start ==
    ASSUME NEW st, NEW ky, NEW wf, NEW ev,
           Maps(st, ky, wf, ev), Good(st, ky, wf, ev),
           NEW a \in Actors, st[a] # "fetch",
           NEW k \in Keys, ev[k] = Nobody
    PROVE  /\ Maps([st EXCEPT ![a] = "fetch"], [ky EXCEPT ![a] = k],
                   [wf EXCEPT ![a] = Nobody], [ev EXCEPT ![k] = a])
           /\ Good([st EXCEPT ![a] = "fetch"], [ky EXCEPT ![a] = k],
                   [wf EXCEPT ![a] = Nobody], [ev EXCEPT ![k] = a])
  <1> DEFINE st2 == [st EXCEPT ![a] = "fetch"]
             ky2 == [ky EXCEPT ![a] = k]
             wf2 == [wf EXCEPT ![a] = Nobody]
             ev2 == [ev EXCEPT ![k] = a]
  <1>1. Maps(st2, ky2, wf2, ev2)
    BY DEF Maps, Stages
  <1>2. /\ \A x \in Actors \ {a} : st2[x] = st[x] /\ ky2[x] = ky[x] /\ wf2[x] = wf[x]
        /\ st2[a] = "fetch" /\ ky2[a] = k
        /\ \A x \in Keys \ {k} : ev2[x] = ev[x]
        /\ ev2[k] = a
    BY DEF Maps
  <1>3. a # Nobody
    BY ProxyAssumption
  <1>4. \A x \in Actors : st[x] = "fetch" => x # a
    OBVIOUS
  <1>5. \A x \in Actors :
           st[x] = "fetch" /\ ky[x][1] \in StableAffinities => ky[x] # k
    BY ProxyAssumption DEF Good
  <1>6. \A x \in Actors : st2[x] = "wait" =>
           wf2[x] # Nobody /\ st2[wf2[x]] = "fetch" /\ ky2[wf2[x]] = ky2[x]
    BY <1>2, <1>4 DEF Maps, Good
  <1>7. \A x \in Actors : st2[x] # "idle" => ky2[x] \in Keys
    BY <1>2 DEF Good
  <1>8. \A x \in Keys : ev2[x] # Nobody => st2[ev2[x]] = "fetch" /\ ky2[ev2[x]] = x
    BY <1>2, <1>4 DEF Maps, Good
  <1>9. \A x \in Actors :
           st2[x] = "fetch" /\ ky2[x][1] \in StableAffinities => ev2[ky2[x]] = x
    BY <1>2, <1>5, <1>7 DEF Good
  <1>. QED  BY <1>1, <1>6, <1>7, <1>8, <1>9 DEF Good

\* A fetch is over: its event is removed and its waiters are woken.
LEMMA Done ==
    ASSUME NEW st, NEW ky, NEW wf, NEW ev,
           Maps(st, ky, wf, ev), Good(st, ky, wf, ev),
           NEW a \in Actors, st[a] = "fetch",
           NEW s \in {"idle", "lease"},
           NEW k \in Keys \cup {NoKey}, s # "idle" => k \in Keys,
           NEW w \in Actors \cup {Nobody},
           NEW wk, wk = [x \in Actors |-> IF st[x] = "wait" /\ wf[x] = a
                                          THEN "woken" ELSE st[x]]
    PROVE  /\ Maps([wk EXCEPT ![a] = s], [ky EXCEPT ![a] = k],
                   [wf EXCEPT ![a] = w], [ev EXCEPT ![ky[a]] = Nobody])
           /\ Good([wk EXCEPT ![a] = s], [ky EXCEPT ![a] = k],
                   [wf EXCEPT ![a] = w], [ev EXCEPT ![ky[a]] = Nobody])
  <1> DEFINE st2 == [wk EXCEPT ![a] = s]
             ky2 == [ky EXCEPT ![a] = k]
             wf2 == [wf EXCEPT ![a] = w]
             ev2 == [ev EXCEPT ![ky[a]] = Nobody]
  <1>1. ky[a] \in Keys
    BY DEF Good
  <1>2. wk \in [Actors -> Stages]
    BY DEF Maps, Stages
  <1>3. Maps(st2, ky2, wf2, ev2)
    BY <1>1, <1>2 DEF Maps, Stages
  <1>4. /\ \A x \in Actors \ {a} :
              /\ ky2[x] = ky[x] /\ wf2[x] = wf[x]
              /\ st2[x] = IF st[x] = "wait" /\ wf[x] = a THEN "woken" ELSE st[x]
        /\ st2[a] = s /\ ky2[a] = k
        /\ \A x \in Keys \ {ky[a]} : ev2[x] = ev[x]
        /\ ev2[ky[a]] = Nobody
    BY <1>1, <1>2 DEF Maps
  <1>5. \A x \in Actors : st2[x] = "wait" =>
           wf2[x] # Nobody /\ st2[wf2[x]] = "fetch" /\ ky2[wf2[x]] = ky2[x]
    BY <1>4 DEF Maps, Good
  <1>6. \A x \in Actors : st2[x] # "idle" => ky2[x] \in Keys
    BY <1>4 DEF Good
  <1>7. \A x \in Keys : ev2[x] # Nobody => st2[ev2[x]] = "fetch" /\ ky2[ev2[x]] = x
    BY <1>1, <1>4 DEF Maps, Good
  <1>8. \A x \in Actors :
           st2[x] = "fetch" /\ ky2[x][1] \in StableAffinities => ev2[ky2[x]] = x
    <2>. SUFFICES ASSUME NEW x \in Actors, st2[x] = "fetch",
                         ky2[x][1] \in StableAffinities
                  PROVE  ev2[ky2[x]] = x
      OBVIOUS
    <2>1. x # a /\ st[x] = "fetch" /\ ky2[x] = ky[x]
      BY <1>4
    <2>2. ev[ky[x]] = x /\ ky[x] \in Keys
      BY <2>1 DEF Good
    <2>3. ky[x] # ky[a]
      BY <1>1, <2>1, <2>2 DEF Good
    <2>. QED  BY <1>4, <2>1, <2>2, <2>3
  <1>. QED  BY <1>3, <1>5, <1>6, <1>7, <1>8 DEF Good

-----------------------------------------------------------------------------
(* What the steps have in common.                                          *)

\* Writing the value that a function has leaves the function.
LEMMA SameValue ==
    ASSUME NEW D, NEW R, NEW f \in [D -> R], NEW x \in D
    PROVE  [f EXCEPT ![x] = f[x]] = f
  OBVIOUS

\* What the assumption on the configurations says of each of them.
LEMMA ParametersTyped ==
    ASSUME NEW c \in Configs
    PROVE  /\ c.clearance \in ClearanceModes /\ c.egress \in EgressModes
           /\ c.nodes \in Seq(Urls) /\ c.resource \in SUBSET Urls
  BY ProxyAssumption DEF Config

\* A remainder is an index of a pool, or of the cursor's range.
LEMMA Remainder ==
    ASSUME NEW n \in Nat, NEW d \in Nat \ {0}
    PROVE  (n % d) + 1 \in 1 .. d /\ 1 \in 1 .. d
  <1>1. n % d \in 0 .. d - 1
    OBVIOUS
  <1>. QED  BY <1>1

\* _pick_proxy_url returns one of the affinities.
LEMMA PickedAffinity ==
    ASSUME NEW c \in Configs, NEW n \in Nat
    PROVE  Picked(c, n) \in Affinities
  <1>1. c.nodes \in Seq(Urls)
    BY ParametersTyped
  <1>2. CASE c.egress = "direct" \/ c.nodes = <<>>
    BY <1>2 DEF Picked, Affinities
  <1>3. CASE ~(c.egress = "direct" \/ c.nodes = <<>>)
    <2>1. Len(c.nodes) \in Nat \ {0}
      BY <1>1, <1>3
    <2>2. (n % Len(c.nodes)) + 1 \in 1 .. Len(c.nodes) /\ 1 \in 1 .. Len(c.nodes)
      BY <2>1, Remainder
    <2>3. \A i \in 1 .. Len(c.nodes) : c.nodes[i] \in Urls
      BY <1>1
    <2>. QED  BY <1>3, <2>2, <2>3 DEF Picked, Affinities
  <1>. QED  BY <1>2, <1>3

\* The keys of a warm-up or a refresh are keys.
LEMMA DefaultKeysAreKeys ==
    ASSUME NEW c \in Configs
    PROVE  DefaultKeys(c) \in SUBSET Keys
  <1>1. c.nodes \in Seq(Urls)
    BY ParametersTyped
  <1>2. NodesOf(c) \in SUBSET Urls
    BY <1>1 DEF NodesOf
  <1>. QED  BY <1>2, ProxyAssumption DEF DefaultKeys, Keys, Affinities

\* A reload leaves well-typed maps and drops no event of a stable affinity.
LEMMA LoadKeeps ==
    ASSUME IInv
    PROVE  /\ LoadedBundle \in [Keys -> BundleStates]
           /\ LoadedEvent \in [Keys -> Actors \cup {Nobody}]
           /\ LoadedCursor \in 0 .. CursorMod - 1
           /\ Good(stage, key, waitsFor, LoadedEvent)
           /\ Maps(stage, key, waitsFor, LoadedEvent)
  <1>1. LoadedBundle \in [Keys -> BundleStates]
    BY DEF IInv, TypeOK, LoadedBundle, BundleStates
  <1>2. LoadedEvent \in [Keys -> Actors \cup {Nobody}]
    BY DEF IInv, TypeOK, LoadedEvent
  <1>3. LoadedCursor \in 0 .. CursorMod - 1
    BY ProxyAssumption DEF IInv, TypeOK, LoadedCursor
  <1>4. \A k \in Keys : \/ LoadedEvent[k] = event[k]
                        \/ /\ LoadedEvent[k] = Nobody
                           /\ k[1] \notin StableAffinities
    BY DEF IInv, TypeOK, LoadedEvent, StableAffinities
  <1>5. Maps(stage, key, waitsFor, event) /\ Good(stage, key, waitsFor, event)
    BY DEF IInv, TypeOK, Maps
  <1>. QED  BY <1>1, <1>2, <1>3, <1>4, <1>5, DropEvents

\* A coroutine has its answer: whether it is a request or the scheduler.
LEMMA AnsweredKeeps ==
    ASSUME NEW STATE e, NEW a \in Actors, NEW k \in Keys, stage[a] # "fetch",
           Maps(stage, key, waitsFor, e), Good(stage, key, waitsFor, e),
           Answered(a, k)
    PROVE  Maps(stage', key', waitsFor', e) /\ Good(stage', key', waitsFor', e)
  <1>1. CASE a = Scheduler
    <2>1. /\ stage' = [stage EXCEPT ![a] = "idle"]
          /\ key' = [key EXCEPT ![a] = NoKey]
          /\ waitsFor' = [waitsFor EXCEPT ![a] = Nobody]
      BY <1>1 DEF Answered, Rest
    <2>. QED  BY <2>1, Move
  <1>2. CASE a # Scheduler
    <2>1. /\ stage' = [stage EXCEPT ![a] = "lease"]
          /\ key' = [key EXCEPT ![a] = k]
          /\ waitsFor' = [waitsFor EXCEPT ![a] = Nobody]
      BY <1>2 DEF Answered, Rest
    <2>. QED  BY <2>1, Move
  <1>. QED  BY <1>1, <1>2

\* _get_or_build_bundle keeps the invariant from wherever it starts.
LEMMA GetOrBuildKeeps ==
    ASSUME NEW STATE b, NEW STATE e, NEW STATE c,
           NEW a \in Actors, NEW k \in Keys, stage[a] # "fetch",
           b \in [Keys -> BundleStates],
           Maps(stage, key, waitsFor, e), Good(stage, key, waitsFor, e),
           GetOrBuild(a, k, b, e, c)
    PROVE  /\ bundle' \in [Keys -> BundleStates]
           /\ Maps(stage', key', waitsFor', event')
           /\ Good(stage', key', waitsFor', event')
  <1>1. CASE HasBundle(a, k, b, e)
    BY <1>1, AnsweredKeeps DEF HasBundle
  <1>2. CASE JoinFetch(a, k, b, e)
    BY <1>2, Join DEF JoinFetch
  <1>3. CASE BuildAtOnce(a, k, b, e, c)
    <2>1. bundle' \in [Keys -> BundleStates]
      BY <1>3 DEF BuildAtOnce, BundleStates
    <2>. QED  BY <1>3, <2>1, AnsweredKeeps DEF BuildAtOnce
  <1>4. CASE StartFetch(a, k, b, e, c)
    BY <1>4, Start DEF StartFetch
  <1>. QED  BY <1>1, <1>2, <1>3, <1>4 DEF GetOrBuild

-----------------------------------------------------------------------------
(* The invariant.                                                          *)

\* The part of TypeOK that the lemmas say nothing about.
OthersTyped ==
    /\ config \in Configs /\ loaded \in Configs
    /\ cursor \in 0 .. CursorMod - 1
    /\ task \in {"start", "warm", "sleep", "refresh"}
    /\ todo \in SUBSET Keys
    /\ acquires \in Nat /\ changes \in Nat

\* The parts of the invariant, as the lemmas above take them.
LEMMA IInvParts ==
    IInv <=> /\ OthersTyped
             /\ bundle \in [Keys -> BundleStates]
             /\ Maps(stage, key, waitsFor, event)
             /\ Good(stage, key, waitsFor, event)
  BY DEF IInv, TypeOK, OthersTyped, Maps

\* A directory that has just been loaded satisfies the invariant.
THEOREM InitHolds == Init => IInv
  <1>. SUFFICES ASSUME Init PROVE IInv
    OBVIOUS
  <1>1. TypeOK
    BY ProxyAssumption DEF Init, TypeOK, Stages, BundleStates
  <1>2. Good(stage, key, waitsFor, event)
    BY ProxyAssumption DEF Init, Good
  <1>. QED  BY <1>1, <1>2 DEF IInv

\* A change of configuration keeps the invariant: the directory sees it later.
THEOREM SetConfigKeeps ==
    ASSUME IInv, NEW c \in Configs, SetConfig(c)
    PROVE  IInv'
  BY DEF IInv, TypeOK, SetConfig, directoryVars, actorVars, roundVars

\* The finally block of a fetch keeps the invariant.
THEOREM FetchDoneKeeps ==
    ASSUME IInv, NEW a \in Actors, FetchDone(a)
    PROVE  IInv'
  <1>1. /\ Maps(stage, key, waitsFor, event) /\ Good(stage, key, waitsFor, event)
        /\ stage[a] = "fetch" /\ waitsFor[a] \in Actors \cup {Nobody}
        /\ key[a] \in Keys
    BY IInvParts DEF FetchDone, Maps, Good
  <1>2. /\ event' = [event EXCEPT ![key[a]] = Nobody]
        /\ waitsFor' = [waitsFor EXCEPT ![a] = waitsFor[a]]
        /\ stage' = [Woken(a) EXCEPT ![a] = Rest(a)]
    BY <1>1, SameValue DEF FetchDone, EventPopped, Maps
  <1>3. PICK k \in Keys \cup {NoKey} :
           key' = [key EXCEPT ![a] = k] /\ (Rest(a) # "idle" => k \in Keys)
    <2>1. CASE a = Scheduler
      BY <2>1 DEF FetchDone, Rest
    <2>2. CASE a # Scheduler
      <3>1. key' = [key EXCEPT ![a] = key[a]]
        BY <1>1, <2>2, SameValue DEF FetchDone, Maps
      <3>. QED  BY <1>1, <3>1
    <2>. QED  BY <2>1, <2>2
  <1>4. Rest(a) \in {"idle", "lease"}
    BY DEF Rest
  <1>5. /\ Maps(stage', key', waitsFor', event')
        /\ Good(stage', key', waitsFor', event')
    BY <1>1, <1>2, <1>3, <1>4, Done DEF Woken
  <1>6. bundle' \in [Keys -> BundleStates]
    BY IInvParts DEF FetchDone, BundleStates
  <1>7. OthersTyped'
    BY DEF FetchDone, IInv, TypeOK, OthersTyped, roundVars
  <1>. QED  BY <1>5, <1>6, <1>7, IInvParts DEF IInv, TypeOK, OthersTyped, Maps

\* A woken coroutine that looks again keeps the invariant.
THEOREM RetryKeeps ==
    ASSUME IInv, NEW a \in Actors, Retry(a)
    PROVE  IInv'
  <1>1. /\ Maps(stage, key, waitsFor, event) /\ Good(stage, key, waitsFor, event)
        /\ stage[a] = "woken" /\ key[a] \in Keys
        /\ bundle \in [Keys -> BundleStates]
    BY IInvParts DEF Retry, Good
  <1>2. /\ bundle' \in [Keys -> BundleStates]
        /\ Maps(stage', key', waitsFor', event')
        /\ Good(stage', key', waitsFor', event')
    BY <1>1, GetOrBuildKeeps DEF Retry
  <1>3. OthersTyped'
    BY DEF Retry, IInv, TypeOK, OthersTyped, roundVars
  <1>. QED  BY <1>2, <1>3 DEF IInv, TypeOK, OthersTyped, Maps

\* Reloading and acquiring keeps the invariant.
THEOREM AcquireKeeps ==
    ASSUME IInv, NEW r \in Requests, Acquire(r)
    PROVE  IInv'
  <1>1. /\ LoadedBundle \in [Keys -> BundleStates]
        /\ LoadedEvent \in [Keys -> Actors \cup {Nobody}]
        /\ LoadedCursor \in 0 .. CursorMod - 1
        /\ Good(stage, key, waitsFor, LoadedEvent)
        /\ Maps(stage, key, waitsFor, LoadedEvent)
    BY LoadKeeps
  <1>2. config \in Configs /\ LoadedCursor \in Nat
    BY <1>1, ProxyAssumption DEF IInv, TypeOK
  <1>3. PICK h \in Hosts :
           LET k == <<Picked(config, LoadedCursor), h>>
           IN  IF config.clearance = "none"
               THEN /\ bundle' = LoadedBundle /\ event' = LoadedEvent
                    /\ Answered(r, k)
               ELSE GetOrBuild(r, k, LoadedBundle, LoadedEvent, config)
    BY DEF Acquire
  <1>. DEFINE k == <<Picked(config, LoadedCursor), h>>
  <1>4. k \in Keys /\ r \in Actors /\ stage[r] # "fetch"
    BY <1>2, PickedAffinity DEF Acquire, Keys, Actors
  <1>5. /\ bundle' \in [Keys -> BundleStates]
        /\ Maps(stage', key', waitsFor', event')
        /\ Good(stage', key', waitsFor', event')
    <2>1. CASE config.clearance = "none"
      <3>1. bundle' = LoadedBundle /\ event' = LoadedEvent /\ Answered(r, k)
        BY <1>3, <2>1
      <3>. HIDE DEF k
      <3>2. /\ Maps(stage', key', waitsFor', LoadedEvent)
            /\ Good(stage', key', waitsFor', LoadedEvent)
        BY <1>1, <1>4, <3>1, AnsweredKeeps
      <3>. QED  BY <1>1, <3>1, <3>2
    <2>2. CASE config.clearance # "none"
      <3>1. GetOrBuild(r, k, LoadedBundle, LoadedEvent, config)
        BY <1>3, <2>2
      <3>. HIDE DEF k
      <3>. QED  BY <1>1, <1>4, <3>1, GetOrBuildKeeps
    <2>. QED  BY <2>1, <2>2
  <1>6. OthersTyped'
    BY <1>1, <1>2 DEF Acquire, IInv, TypeOK, OthersTyped, roundVars
  <1>. QED  BY <1>5, <1>6 DEF IInv, TypeOK, OthersTyped, Maps

\* A request that is cancelled keeps the invariant.
THEOREM CancelKeeps ==
    ASSUME IInv, NEW r \in Requests, Cancel(r)
    PROVE  IInv'
  <1>1. /\ Maps(stage, key, waitsFor, event) /\ Good(stage, key, waitsFor, event)
        /\ r \in Actors
    BY IInvParts DEF Actors
  <1>2. /\ key' = [key EXCEPT ![r] = NoKey]
        /\ waitsFor' = [waitsFor EXCEPT ![r] = Nobody]
    BY DEF Cancel
  <1>3. /\ Maps(stage', key', waitsFor', event')
        /\ Good(stage', key', waitsFor', event')
    <2>1. CASE stage[r] = "fetch"
      <3>1. /\ event' = [event EXCEPT ![key[r]] = Nobody]
            /\ stage' = [Woken(r) EXCEPT ![r] = "idle"]
        BY <2>1 DEF Cancel, EventPopped
      <3>. QED  BY <1>1, <1>2, <2>1, <3>1, Done DEF Woken
    <2>2. CASE stage[r] # "fetch"
      <3>1. event' = event /\ stage' = [stage EXCEPT ![r] = "idle"]
        BY <2>2 DEF Cancel
      <3>. QED  BY <1>1, <1>2, <2>2, <3>1, Move
    <2>. QED  BY <2>1, <2>2
  <1>4. OthersTyped' /\ bundle' \in [Keys -> BundleStates]
    BY DEF Cancel, IInv, TypeOK, OthersTyped, roundVars
  <1>. QED  BY <1>3, <1>4 DEF IInv, TypeOK, OthersTyped, Maps

\* Feedback keeps the invariant.
THEOREM FeedbackKeeps ==
    ASSUME IInv, NEW r \in Requests, NEW fk \in FeedbackKinds, Feedback(r, fk)
    PROVE  IInv'
  <1>1. /\ Maps(stage, key, waitsFor, event) /\ Good(stage, key, waitsFor, event)
        /\ r \in Actors /\ stage[r] # "fetch"
        /\ waitsFor[r] \in Actors \cup {Nobody}
    BY IInvParts DEF Actors, Feedback, Maps
  <1>2. /\ stage' = [stage EXCEPT ![r] = "idle"]
        /\ key' = [key EXCEPT ![r] = NoKey]
        /\ waitsFor' = [waitsFor EXCEPT ![r] = waitsFor[r]]
        /\ event' = event
    BY <1>1, SameValue DEF Feedback, Maps
  <1>3. /\ Maps(stage', key', waitsFor', event')
        /\ Good(stage', key', waitsFor', event')
    BY <1>1, <1>2, Move
  <1>4. cursor' \in 0 .. CursorMod - 1
    <2>1. cursor + 1 \in Nat /\ CursorMod \in Nat \ {0}
      BY ProxyAssumption DEF IInv, TypeOK
    <2>2. (cursor + 1) % CursorMod \in 0 .. CursorMod - 1
      BY <2>1
    <2>. QED  BY <2>2 DEF Feedback, IInv, TypeOK
  <1>5. bundle' \in [Keys -> BundleStates]
    BY DEF Feedback, IInv, TypeOK, BundleStates
  <1>6. OthersTyped'
    BY <1>4 DEF Feedback, IInv, TypeOK, OthersTyped, roundVars
  <1>. QED  BY <1>3, <1>5, <1>6 DEF IInv, TypeOK, OthersTyped, Maps

\* A step of warm_up keeps the invariant.
THEOREM WarmKeeps ==
    ASSUME IInv, NEW k \in Keys, WarmNext(k)
    PROVE  IInv'
  <1>1. /\ Maps(stage, key, waitsFor, event) /\ Good(stage, key, waitsFor, event)
        /\ Scheduler \in Actors /\ stage[Scheduler] # "fetch"
        /\ bundle \in [Keys -> BundleStates]
    BY IInvParts DEF Actors, WarmNext
  <1>2. /\ bundle' \in [Keys -> BundleStates]
        /\ Maps(stage', key', waitsFor', event')
        /\ Good(stage', key', waitsFor', event')
    <2>1. CASE loaded.clearance = "none"
      BY <1>1, <2>1 DEF WarmNext, actorVars
    <2>2. CASE loaded.clearance # "none"
      BY <1>1, <2>2, GetOrBuildKeeps DEF WarmNext
    <2>. QED  BY <2>1, <2>2
  <1>3. OthersTyped'
    BY DEF WarmNext, IInv, TypeOK, OthersTyped
  <1>. QED  BY <1>2, <1>3 DEF IInv, TypeOK, OthersTyped, Maps

\* The beginning and the end of a round keep the invariant.
THEOREM RoundKeeps ==
    ASSUME IInv, BeginWarmUp \/ BeginRefresh \/ RoundEnds
    PROVE  IInv'
  <1>1. CASE BeginWarmUp \/ BeginRefresh
    <2>1. /\ loaded' = config /\ cursor' = LoadedCursor
          /\ bundle' = LoadedBundle /\ event' = LoadedEvent
          /\ config' = config /\ stage' = stage /\ key' = key
          /\ waitsFor' = waitsFor /\ acquires' = acquires /\ changes' = changes
          /\ task' \in {"warm", "refresh"}
      BY <1>1 DEF BeginWarmUp, BeginRefresh, actorVars
    <2>2. todo' \in SUBSET Keys
      BY <1>1, DefaultKeysAreKeys DEF BeginWarmUp, BeginRefresh, IInv, TypeOK
    <2>. QED  BY <2>1, <2>2, LoadKeeps DEF IInv, TypeOK, Maps
  <1>2. CASE RoundEnds
    BY <1>2 DEF RoundEnds, IInv, TypeOK, directoryVars, actorVars
  <1>. QED  BY <1>1, <1>2

\* A step of refresh_clearance_safe keeps the invariant: it makes no event.
THEOREM RefreshKeeps ==
    ASSUME IInv, (\E k \in Keys : RefreshNext(k)) \/ Swap
    PROVE  IInv'
  <1>1. /\ Maps(stage, key, waitsFor, event) /\ Good(stage, key, waitsFor, event)
        /\ Scheduler \in Actors /\ stage[Scheduler] # "fetch"
        /\ waitsFor[Scheduler] \in Actors \cup {Nobody}
    BY IInvParts DEF Actors, RefreshNext, Swap, Maps
  <1>2. /\ event' = event
        /\ waitsFor' = [waitsFor EXCEPT ![Scheduler] = waitsFor[Scheduler]]
    BY <1>1, SameValue DEF RefreshNext, Swap, Maps
  <1>3. /\ Maps(stage', key', waitsFor', event')
        /\ Good(stage', key', waitsFor', event')
    <2>1. CASE stage' = stage /\ key' = key
      BY <1>1, <1>2, <2>1, SameValue DEF Maps
    <2>2. CASE \E k \in Keys : /\ stage' = [stage EXCEPT ![Scheduler] = "swap"]
                               /\ key' = [key EXCEPT ![Scheduler] = k]
      <3>1. PICK k \in Keys : /\ stage' = [stage EXCEPT ![Scheduler] = "swap"]
                              /\ key' = [key EXCEPT ![Scheduler] = k]
        BY <2>2
      <3>2. k \in Keys \cup {NoKey}
        OBVIOUS
      <3>. QED  BY <1>1, <1>2, <3>1, <3>2, Move
    <2>3. CASE /\ stage' = [stage EXCEPT ![Scheduler] = "idle"]
               /\ key' = [key EXCEPT ![Scheduler] = NoKey]
      BY <1>1, <1>2, <2>3, Move
    <2>. QED  BY <2>1, <2>2, <2>3 DEF RefreshNext, Swap
  <1>4. bundle' \in [Keys -> BundleStates]
    BY DEF RefreshNext, Swap, IInv, TypeOK, BundleStates
  <1>5. OthersTyped'
    BY DEF RefreshNext, Swap, IInv, TypeOK, OthersTyped, roundVars
  <1>. QED  BY <1>3, <1>4, <1>5 DEF IInv, TypeOK, OthersTyped, Maps

\* Every step keeps the invariant.
THEOREM NextKeeps == IInv /\ [Next]_vars => IInv'
  <1>. SUFFICES ASSUME IInv, [Next]_vars PROVE IInv'
    OBVIOUS
  <1>1. CASE \E c \in Configs : SetConfig(c)
    BY <1>1, SetConfigKeeps
  <1>2. CASE \E a \in Actors : FetchDone(a) \/ Retry(a)
    BY <1>2, FetchDoneKeeps, RetryKeeps
  <1>3. CASE \E r \in Requests : Acquire(r) \/ Cancel(r)
    BY <1>3, AcquireKeeps, CancelKeeps
  <1>4. CASE \E r \in Requests, fk \in FeedbackKinds : Feedback(r, fk)
    BY <1>4, FeedbackKeeps
  <1>5. CASE \E k \in Keys : WarmNext(k)
    BY <1>5, WarmKeeps
  <1>6. CASE BeginWarmUp \/ BeginRefresh \/ RoundEnds
    BY <1>6, RoundKeeps
  <1>7. CASE (\E k \in Keys : RefreshNext(k)) \/ Swap
    BY <1>7, RefreshKeeps
  <1>8. CASE UNCHANGED vars
    BY <1>8 DEF vars, directoryVars, actorVars, roundVars, IInv, TypeOK, Good
  <1>. QED  BY <1>1, <1>2, <1>3, <1>4, <1>5, <1>6, <1>7, <1>8 DEF Next

\* The invariant of the directory: stages, keys, waiters and events agree in
\* every reachable state.
THEOREM ClearanceInvariant == Spec => []IInv
  BY InitHolds, NextKeeps, PTL DEF Spec

-----------------------------------------------------------------------------
(* What follows from it.                                                   *)

\* Type correctness of the proxy directory and its scheduler.
THEOREM TypeCorrect == Spec => []TypeOK
  <1>1. IInv => TypeOK
    BY DEF IInv
  <1>. QED  BY <1>1, ClearanceInvariant, PTL

\* No coroutine waits for an event that will not be set (the single-flight
\* loop of _get_or_build_bundle), through reloads, failures and cancellations.
THEOREM NobodyIsForgotten == Spec => []WaitersHaveFetcher
  <1>1. IInv => WaitersHaveFetcher
    BY DEF IInv, Good, WaitersHaveFetcher
  <1>. QED  BY <1>1, ClearanceInvariant, PTL

\* One coroutine at a time fetches the bundle of a key whose node no
\* configuration drops.
THEOREM FetchesAreSingle == Spec => []OneFetchPerKey
  <1>1. IInv => OneFetchPerKey
    BY DEF IInv, Good, OneFetchPerKey
  <1>. QED  BY <1>1, ClearanceInvariant, PTL
=============================================================================
