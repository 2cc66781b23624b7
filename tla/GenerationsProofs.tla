-------------------------- MODULE GenerationsProofs --------------------------
(***************************************************************************)
(* Theorems about Generations, reloads under the shutdown included: no     *)
(* request is stranded by a swap, and no rejected candidate leaves work    *)
(* behind.                                                                 *)
(*                                                                         *)
(* The argument rests on Placed: between its look-up and its count a       *)
(* request stands on the generation that is still current, because genMu   *)
(* keeps both swaps out; so the count of a generation that has been taken  *)
(* out can only fall.                                                      *)
(***************************************************************************)
EXTENDS Generations, FiniteSetTheorems, TLAPS

Current == \A g \in Gens : gens[g].phase = "serving" <=> g = current

Candidate ==
  /\ reload.step \in {"chains", "swap"} <=> reload.gen # 0
  /\ \A g \in Gens : gens[g].phase = "building" <=> g = reload.gen
  /\ \A g \in Gens : gens[g].phase = "building" => gens[g].cfg = reload.cfg
  /\ reload.step \in {"store", "pools", "chains", "swap"} => reload.cfg \in Loadable
  /\ reload.step = "swap" => reload.cfg \in Buildable

Deployed ==
  \A g \in Gens : Published(g) => gens[g].cfg \in Buildable

Placed ==
  \A r \in Requests :
    /\ req[r].at = "locked" => req[r].gen = current
    /\ req[r].at = "serving" => req[r].gen \in Gens /\ Published(req[r].gen)

RefsExact == \A g \in Gens : gens[g].refs = Cardinality(Holders(g))

ClosedEmpty ==
  \A g \in Gens : gens[g].phase = "closed" /\ g \notin expired => gens[g].refs = 0

WorkOwned ==
  \A g \in Gens : gens[g].ctx => gens[g].phase \in {"building", "serving", "retired", "last"}

(* The generation Drain took out is the only one of its kind. *)
LastDrain ==
  /\ main \in {"running", "stopping", "swap"} => \A g \in Gens : gens[g].phase # "last"
  /\ \A g, h \in Gens : gens[g].phase = "last" /\ gens[h].phase = "last" => g = h
  /\ main = "draining" => \A g \in Gens : gens[g].phase = "last" => ~gens[g].ctx

IInv ==
  /\ TypeOK /\ Current /\ Candidate /\ Deployed
  /\ Placed /\ RefsExact /\ ClosedEmpty /\ WorkOwned /\ LastDrain

-----------------------------------------------------------------------------
LEMMA GensTypes == 0 \notin Gens /\ 1 \in Gens /\ Gens \subseteq Nat
  BY ConstantsAssumption DEF Gens

LEMMA ConstantTypes ==
  /\ Buildable \subseteq Configs /\ Loadable \subseteq Configs
  /\ Missing \notin Configs /\ IsFiniteSet(Requests)
  BY ConstantsAssumption

LEMMA HoldersFinite == \A g : IsFiniteSet(Holders(g)) /\ Cardinality(Holders(g)) \in Nat
<1> TAKE g
<1>1. Holders(g) \subseteq Requests
  BY DEF Holders
<1> QED
  BY <1>1, ConstantTypes, FS_Subset, FS_CardinalityType

(* Holders only depend on who is serving where. *)
LEMMA SameHolders ==
  ASSUME \A r \in Requests :
           /\ req'[r].at = "serving" <=> req[r].at = "serving"
           /\ req[r].at = "serving" => req'[r].gen = req[r].gen
  PROVE  \A g : Holders(g)' = Holders(g)
  BY DEF Holders

-----------------------------------------------------------------------------
LEMMA InitIInv == Init => IInv
<1> SUFFICES ASSUME Init PROVE IInv
  OBVIOUS
<1>1. PICK c \in Buildable :
        /\ file = [cfg |-> c, stamp |-> 0]
        /\ gens = [g \in Gens |->
             IF g = 1 THEN [phase |-> "serving", cfg |-> c, refs |-> 0, ctx |-> TRUE]
             ELSE Unused]
        /\ store = [path |-> StorePath[c], open |-> StorePath[c] # NoPath]
  BY DEF Init
<1>2. /\ watcher = [phase |-> "starting", seen |-> 0, found |-> 0] /\ reload = Idle /\ current = 1
      /\ req = [r \in Requests |-> Out] /\ timers = <<>> /\ expired = {}
      /\ main = "running" /\ asked = 0 /\ tried = 0
  BY DEF Init
<1>3. c \in Configs
  BY ConstantTypes
<1>4. gens \in [Gens -> Runtime]
  BY <1>1, <1>3 DEF Unused, Runtime
<1>5. TypeOK
  <2>1. reload \in Reload /\ watcher \in Watcher
    BY <1>2 DEF Idle, Reload, Watcher
  <2>2. req \in [Requests -> Request]
    BY <1>2 DEF Out, Request
  <2>3. store \in [path : {NoPath} \cup {StorePath[x] : x \in Configs}, open : BOOLEAN]
    BY <1>1, <1>3
  <2>4. file \in [cfg : Configs \cup {Missing}, stamp : Nat]
    BY <1>1, <1>3
  <2> QED
    BY <1>2, <1>4, <2>1, <2>2, <2>3, <2>4, GensTypes DEF TypeOK
<1>6. \A g \in Gens : /\ gens[g].refs = 0
                      /\ gens[g].phase = IF g = 1 THEN "serving" ELSE "unused"
                      /\ gens[g].ctx = (g = 1)
                      /\ g = 1 => gens[g].cfg = c
  BY <1>1 DEF Unused
<1>7. \A g : Holders(g) = {}
  BY <1>2 DEF Holders, Out
<1>8. RefsExact
  BY <1>6, <1>7, FS_EmptySet DEF RefsExact
<1>9. Current /\ Candidate /\ Deployed /\ ClosedEmpty /\ WorkOwned /\ Placed /\ LastDrain
  BY <1>2, <1>6, GensTypes
     DEF Current, Candidate, Deployed, Published, ClosedEmpty, WorkOwned, Placed, LastDrain,
         Idle, Out
<1> QED
  BY <1>5, <1>8, <1>9 DEF IInv

-----------------------------------------------------------------------------
(* Steps that touch neither generations nor requests, and reload only      *)
(* before its candidate has a number.                                      *)
Aside ==
  /\ UNCHANGED <<gens, current, req>>
  /\ expired \subseteq expired'
  /\ \/ UNCHANGED main
     \/ main' \in {"stopping", "swap"} /\ main \in {"running", "stopping"}
  /\ \/ UNCHANGED reload
     \/ /\ reload.gen = 0 /\ reload'.gen = 0
        /\ reload'.step \notin {"chains", "swap"}
        /\ reload'.step \in {"store", "pools"} => reload'.cfg \in Loadable

LEMMA AsideKeeps ==
  ASSUME IInv, TypeOK', Aside
  PROVE  IInv'
<1>1. \A g : Holders(g)' = Holders(g)
  BY DEF Aside, Holders
<1>2. RefsExact' /\ ClosedEmpty'
  BY <1>1 DEF IInv, RefsExact, ClosedEmpty, Aside
<1>3. Current' /\ Deployed' /\ Placed' /\ WorkOwned'
  BY DEF IInv, Aside, Current, Deployed, Published, Placed, WorkOwned
<1>4. Candidate' /\ LastDrain'
  BY GensTypes DEF IInv, Aside, Candidate, LastDrain
<1> QED
  BY <1>2, <1>3, <1>4 DEF IInv

LEMMA EditKeeps ==
  ASSUME IInv, NEW c \in Configs \cup {Missing}, Edit(c)
  PROVE  IInv'
<1>1. TypeOK'
  BY DEF IInv, TypeOK, Edit
<1> QED
  BY <1>1, AsideKeeps DEF Edit, Aside

LEMMA WatchKeeps ==
  ASSUME IInv, WatchStarts \/ WatchTick
  PROVE  IInv'
<1>1. watcher' \in Watcher
  <2>1. file.stamp \in Nat /\ watcher \in Watcher
    BY DEF IInv, TypeOK
  <2>2. CASE WatchStarts
    BY <2>1, <2>2 DEF WatchStarts, Watcher
  <2>3. CASE WatchTick
    BY <2>1, <2>3 DEF WatchTick, Watcher
  <2> QED
    BY <2>2, <2>3
<1>2. TypeOK'
  BY <1>1 DEF IInv, TypeOK, WatchStarts, WatchTick
<1> QED
  BY <1>2, AsideKeeps DEF WatchStarts, WatchTick, Aside

LEMMA LockKeeps ==
  ASSUME IInv, LockWatch \/ LockAdmin
  PROVE  IInv'
<1>1. reload.gen = 0 /\ reload'.gen = 0 /\ reload'.step = "load" /\ reload' \in Reload
  <2>1. PICK p \in {"watch", "admin"} :
          reload = Idle /\ reload' = [Idle EXCEPT !.step = "load", !.by = p]
    BY DEF LockWatch, LockAdmin
  <2>2. Idle \in Reload /\ Idle.gen = 0
    BY DEF Idle, Reload
  <2> QED
    BY <2>1, <2>2 DEF Reload
<1>2. watcher' \in Watcher /\ asked' \in Nat
  BY DEF LockWatch, LockAdmin, IInv, TypeOK, Watcher
<1>3. TypeOK'
  BY <1>1, <1>2 DEF IInv, TypeOK, LockWatch, LockAdmin
<1> QED
  BY <1>1, <1>3, AsideKeeps DEF LockWatch, LockAdmin, Aside

(* Releasing reloadMu leaves well-typed values. *)
LEMMA LeaveTypes ==
  ASSUME TypeOK, NEW stamp \in Nat, Leave(stamp)
  PROVE  /\ reload' \in Reload /\ tried' \in Nat /\ watcher' \in Watcher
         /\ reload'.gen = 0 /\ reload'.step = "idle"
<1>1. reload' = Idle /\ tried' = stamp
  BY DEF Leave
<1>2. watcher' \in Watcher
  BY DEF Leave, TypeOK, Watcher
<1> QED
  BY <1>1, <1>2 DEF Idle, Reload

LEMMA LoadKeeps ==
  ASSUME IInv, Load
  PROVE  IInv'
<1>1. /\ reload.gen = 0 /\ reload \in Reload
      /\ file.stamp \in Nat /\ file.cfg \in Configs \cup {Missing}
  BY DEF IInv, TypeOK, Candidate, Load
<1>2. CASE file.cfg \in Loadable
  <2>1. /\ reload' \in Reload /\ reload'.gen = 0 /\ reload'.step = "store"
        /\ reload'.cfg \in Loadable
    BY <1>1, <1>2 DEF Load, Reload
  <2>2. TypeOK'
    BY <1>2, <2>1 DEF Load, IInv, TypeOK
  <2> QED
    BY <1>1, <2>1, <2>2, AsideKeeps DEF Load, Aside
<1>3. CASE file.cfg \notin Loadable
  <2>1. Leave(file.stamp)
    BY <1>3 DEF Load
  <2>2. TypeOK'
    BY <1>1, <2>1, LeaveTypes DEF Load, IInv, TypeOK
  <2> QED
    BY <1>1, <2>1, <2>2, LeaveTypes, AsideKeeps DEF Load, Aside, IInv
<1> QED
  BY <1>2, <1>3

LEMMA OpenStoreKeeps ==
  ASSUME IInv, OpenStore
  PROVE  IInv'
<1>1. /\ reload.gen = 0 /\ reload \in Reload /\ reload.stamp \in Nat
      /\ reload.cfg \in Loadable /\ reload.cfg \in Configs
  BY ConstantTypes DEF IInv, TypeOK, Candidate, OpenStore, Reload
<1>2. store' \in [path : {NoPath} \cup {StorePath[c] : c \in Configs}, open : BOOLEAN]
  <2>1. CASE UNCHANGED store
    BY <2>1 DEF IInv, TypeOK
  <2>2. CASE store' = [path |-> StorePath[reload.cfg], open |-> TRUE]
    BY <1>1, <2>2
  <2> QED
    BY <2>1, <2>2 DEF OpenStore
<1>3. CASE reload' = [reload EXCEPT !.step = "pools"] /\ UNCHANGED <<watcher, tried>>
  <2>1. /\ reload' \in Reload /\ reload'.gen = 0 /\ reload'.step = "pools"
        /\ reload'.cfg \in Loadable
    BY <1>1, <1>3 DEF Reload
  <2>2. TypeOK'
    BY <1>2, <1>3, <2>1 DEF OpenStore, IInv, TypeOK
  <2> QED
    BY <1>1, <2>1, <2>2, AsideKeeps DEF OpenStore, Aside
<1>4. CASE Leave(reload.stamp)
  <2>1. TypeOK'
    BY <1>1, <1>2, <1>4, LeaveTypes DEF OpenStore, IInv, TypeOK
  <2> QED
    BY <1>1, <1>4, <2>1, LeaveTypes, AsideKeeps DEF OpenStore, Aside, IInv
<1> QED
  BY <1>3, <1>4 DEF OpenStore

LEMMA StopKeeps ==
  ASSUME IInv, Signal \/ ServersStop \/ Expire
  PROVE  IInv'
<1>1. timers' \in Seq(Gens \cup {ShutdownTimer}) /\ expired' \subseteq Gens \cup {ShutdownTimer}
  <2>1. CASE Signal
    BY <2>1 DEF Signal, IInv, TypeOK
  <2>2. CASE ServersStop
    BY <2>2 DEF ServersStop, IInv, TypeOK
  <2>3. CASE Expire
    BY <2>3 DEF Expire, IInv, TypeOK
  <2> QED
    BY <2>1, <2>2, <2>3
<1>2. TypeOK'
  BY <1>1 DEF Signal, ServersStop, Expire, IInv, TypeOK
<1> QED
  BY <1>2, AsideKeeps DEF Signal, ServersStop, Expire, Aside

-----------------------------------------------------------------------------
(* Steps that move generations along and leave requests where they are.    *)
LEMMA RequestsStay ==
  ASSUME IInv, UNCHANGED req, current' = current \/ Readers = {},
         \A g \in Gens : /\ gens'[g].refs = gens[g].refs
                         /\ Published(g) => Published(g)'
  PROVE  Placed' /\ RefsExact'
<1>1. \A g : Holders(g)' = Holders(g)
  BY DEF Holders
<1>2. RefsExact'
  BY <1>1 DEF IInv, RefsExact
<1>3. \A r \in Requests : req[r].at = "locked" => current' = current
  BY DEF Readers
<1>4. Placed'
  BY <1>3 DEF IInv, Placed
<1> QED
  BY <1>2, <1>4

(* A generation that is not published is held by nobody. *)
LEMMA UnheldBefore ==
  ASSUME IInv, NEW g \in Gens, ~Published(g)
  PROVE  gens[g].refs = 0
<1>1. Holders(g) = {}
  BY DEF IInv, Placed, Holders
<1> QED
  BY <1>1, FS_EmptySet DEF IInv, RefsExact

LEMMA StartPoolsKeeps ==
  ASSUME IInv, StartPools
  PROVE  IInv'
<1>1. PICK g \in Gens :
        /\ gens[g].phase = "unused"
        /\ gens' = [gens EXCEPT ![g] = [phase |-> "building", cfg |-> reload.cfg,
                                        refs |-> 0, ctx |-> TRUE]]
        /\ reload' = [reload EXCEPT !.step = "chains", !.gen = g]
  <2>1. PICK g \in Gens :
          /\ Fresh(g)
          /\ gens' = [gens EXCEPT ![g] = [phase |-> "building", cfg |-> reload.cfg,
                                          refs |-> 0, ctx |-> TRUE]]
          /\ reload' = [reload EXCEPT !.step = "chains", !.gen = g]
    BY DEF StartPools
  <2>2. gens[g].phase = "unused"
    BY <2>1, GensTypes DEF Fresh
  <2> QED
    BY <2>1, <2>2
<1>2. reload \in Reload /\ gens \in [Gens -> Runtime] /\ reload.step = "pools" /\ reload.gen = 0
  BY DEF IInv, TypeOK, Candidate, StartPools
<1>3. /\ reload' \in Reload /\ reload'.gen = g /\ reload'.step = "chains"
      /\ reload'.cfg = reload.cfg
  BY <1>1, <1>2 DEF Reload
<1>4. [phase |-> "building", cfg |-> reload.cfg, refs |-> 0, ctx |-> TRUE] \in Runtime
  BY <1>2 DEF Reload, Runtime
<1>5. gens' \in [Gens -> Runtime]
  BY <1>1, <1>2, <1>4
<1>6. TypeOK'
  BY <1>3, <1>5 DEF StartPools, IInv, TypeOK
<1>7. /\ gens'[g].phase = "building" /\ gens'[g].refs = 0 /\ gens'[g].cfg = reload.cfg
      /\ \A h \in Gens : h # g => gens'[h] = gens[h]
  BY <1>1, <1>2
<1>8. ~Published(g) /\ gens[g].refs = 0
  BY <1>1, UnheldBefore DEF Published
<1>9. UNCHANGED <<req, current, expired, main>>
  BY DEF StartPools
<1>10. Placed' /\ RefsExact'
  BY <1>7, <1>8, <1>9, RequestsStay DEF Published
<1>11. Current' /\ Deployed' /\ ClosedEmpty' /\ WorkOwned' /\ LastDrain'
  BY <1>1, <1>7, <1>9 DEF IInv, Current, Deployed, Published, ClosedEmpty, WorkOwned, LastDrain
<1>12. Candidate'
  BY <1>2, <1>3, <1>7, GensTypes DEF IInv, Candidate
<1> QED
  BY <1>6, <1>10, <1>11, <1>12 DEF IInv

LEMMA BuildChainsKeeps ==
  ASSUME IInv, BuildChains
  PROVE  IInv'
<1>1. /\ reload \in Reload /\ reload.stamp \in Nat /\ gens \in [Gens -> Runtime]
      /\ reload.gen \in Gens /\ reload.step = "chains"
      /\ gens[reload.gen].phase = "building"
  BY DEF IInv, TypeOK, Candidate, BuildChains, Reload
<1>2. UNCHANGED <<req, current, expired, main>>
  BY DEF BuildChains
<1>3. CASE reload.cfg \in Buildable
  <2>1. UNCHANGED <<gens, watcher, tried>> /\ reload' = [reload EXCEPT !.step = "swap"]
    BY <1>3 DEF BuildChains
  <2>2. /\ reload' \in Reload /\ reload'.gen = reload.gen /\ reload'.step = "swap"
        /\ reload'.cfg = reload.cfg
    BY <1>1, <2>1 DEF Reload
  <2>3. TypeOK'
    BY <2>1, <2>2 DEF BuildChains, IInv, TypeOK
  <2>4. Placed' /\ RefsExact'
    BY <1>2, <2>1, RequestsStay DEF Published
  <2>5. Current' /\ Deployed' /\ ClosedEmpty' /\ WorkOwned' /\ LastDrain'
    BY <1>2, <2>1 DEF IInv, Current, Deployed, Published, ClosedEmpty, WorkOwned, LastDrain
  <2>6. Candidate'
    BY <1>1, <1>3, <2>1, <2>2 DEF IInv, Candidate
  <2> QED
    BY <2>3, <2>4, <2>5, <2>6 DEF IInv
<1>4. CASE reload.cfg \notin Buildable
  <2> DEFINE g == reload.gen
  <2>1. /\ Leave(reload.stamp)
        /\ gens' = [gens EXCEPT ![g].phase = "discarded", ![g].ctx = FALSE]
    BY <1>4 DEF BuildChains
  <2>2. /\ gens'[g].phase = "discarded" /\ gens'[g].ctx = FALSE
        /\ gens'[g].refs = gens[g].refs
        /\ \A h \in Gens : h # g => gens'[h] = gens[h]
    BY <1>1, <2>1 DEF Runtime
  <2>3. gens' \in [Gens -> Runtime]
    BY <1>1, <2>1 DEF Runtime
  <2>4. TypeOK'
    BY <1>1, <2>1, <2>3, LeaveTypes DEF BuildChains, IInv, TypeOK
  <2>5. Placed' /\ RefsExact'
    BY <1>1, <1>2, <2>2, RequestsStay DEF Published
  <2>6. Current' /\ Deployed' /\ ClosedEmpty' /\ WorkOwned' /\ LastDrain'
    BY <1>1, <1>2, <2>2 DEF IInv, Current, Deployed, Published, ClosedEmpty, WorkOwned, LastDrain
  <2>7. Candidate'
    BY <1>1, <2>1, <2>2, LeaveTypes, GensTypes DEF IInv, Candidate
  <2> QED
    BY <2>4, <2>5, <2>6, <2>7 DEF IInv
<1> QED
  BY <1>3, <1>4

(* The grace of the generation taken out is one more timer. *)
LEMMA GraceTypes ==
  ASSUME TypeOK
  PROVE  StartGrace \in Seq(Gens \cup {ShutdownTimer})
  BY DEF TypeOK, StartGrace

LEMMA SwapKeeps ==
  ASSUME IInv, Swap
  PROVE  IInv'
<1> DEFINE g == reload.gen
<1>1. /\ reload.stamp \in Nat /\ gens \in [Gens -> Runtime] /\ g \in Gens
      /\ gens[g].phase = "building" /\ gens[g].cfg = reload.cfg /\ reload.cfg \in Buildable
      /\ g # current
  BY DEF IInv, TypeOK, Candidate, Current, Swap, Reload
<1>2. /\ Readers = {} /\ current' = g /\ Leave(reload.stamp) /\ timers' = StartGrace
      /\ UNCHANGED <<file, req, expired, store, main, asked>>
  BY DEF Swap
<1>3. gens' = [h \in Gens |->
                IF h = g THEN [gens[h] EXCEPT !.phase = "serving"]
                ELSE IF h = current THEN [gens[h] EXCEPT !.phase = "retired"]
                ELSE gens[h]]
  BY DEF Swap
<1>4. \A h \in Gens :
        /\ gens'[h].phase = IF h = g THEN "serving"
                            ELSE IF h = current THEN "retired" ELSE gens[h].phase
        /\ gens'[h].cfg = gens[h].cfg /\ gens'[h].refs = gens[h].refs
        /\ gens'[h].ctx = gens[h].ctx
  BY <1>1, <1>3 DEF Runtime
<1>5. gens' \in [Gens -> Runtime]
  BY <1>1, <1>3 DEF Runtime
<1>6. TypeOK'
  BY <1>1, <1>2, <1>5, LeaveTypes, GraceTypes DEF IInv, TypeOK
<1>7. \A h \in Gens : h = current => gens[h].phase = "serving"
  BY DEF IInv, Current
<1>8. Placed' /\ RefsExact'
  BY <1>1, <1>2, <1>4, <1>7, RequestsStay DEF Published
<1>9. Current' /\ ClosedEmpty' /\ WorkOwned' /\ LastDrain'
  BY <1>1, <1>2, <1>4, <1>7 DEF IInv, Current, ClosedEmpty, WorkOwned, LastDrain
<1>10. Deployed'
  BY <1>1, <1>4, <1>7 DEF IInv, Deployed, Published
<1>11. Candidate'
  BY <1>1, <1>2, <1>4, LeaveTypes, GensTypes DEF IInv, Candidate
<1> QED
  BY <1>6, <1>8, <1>9, <1>10, <1>11 DEF IInv

LEMMA RetireKeeps ==
  ASSUME IInv, NEW g \in Gens, RetireCancel(g) \/ RetireClose(g)
  PROVE  IInv'
<1>1. gens \in [Gens -> Runtime] /\ gens[g].phase \in {"retired", "draining"}
  BY DEF IInv, TypeOK, RetireCancel, RetireClose
<1>2. UNCHANGED <<file, watcher, reload, current, req, timers, expired, store, main, asked, tried>>
  BY DEF RetireCancel, RetireClose
<1>3. /\ gens' \in [Gens -> Runtime]
      /\ \A h \in Gens : h # g => gens'[h] = gens[h]
      /\ gens'[g].refs = gens[g].refs /\ gens'[g].cfg = gens[g].cfg
      /\ gens'[g].phase \in {"draining", "closed"}
      /\ gens'[g].ctx => gens[g].ctx
  BY <1>1 DEF RetireCancel, RetireClose, Runtime
<1>4. TypeOK'
  BY <1>2, <1>3 DEF IInv, TypeOK
<1>5. gens'[g].phase = "closed" => gens[g].refs = 0 \/ g \in expired
  BY <1>1 DEF RetireCancel, RetireClose, Drained, Runtime
<1>6. ~gens'[g].ctx
  BY <1>1 DEF RetireCancel, RetireClose, IInv, WorkOwned, Runtime
<1>7. Placed' /\ RefsExact'
  BY <1>2, <1>3, RequestsStay DEF Published
<1>8. Current' /\ ClosedEmpty' /\ WorkOwned' /\ Candidate' /\ LastDrain'
  BY <1>1, <1>2, <1>3, <1>5, <1>6 DEF IInv, Current, ClosedEmpty, WorkOwned, Candidate, LastDrain
<1>9. Deployed'
  BY <1>1, <1>3 DEF IInv, Deployed, Published
<1> QED
  BY <1>4, <1>7, <1>8, <1>9 DEF IInv

-----------------------------------------------------------------------------
(* The steps of a request. *)
LEMMA OnTheWayKeeps ==
  ASSUME IInv, NEW r \in Requests, Arrive(r) \/ Lookup(r) \/ Upgrade(r)
  PROVE  IInv'
<1>1. /\ req \in [Requests -> Request] /\ current \in Gens \cup {0}
      /\ UNCHANGED <<file, watcher, reload, gens, current, timers, expired, store,
                     main, asked, tried>>
  BY DEF IInv, TypeOK, Arrive, Lookup, Upgrade
<1>2. /\ req' \in [Requests -> Request]
      /\ \A q \in Requests : q # r => req'[q] = req[q]
      /\ \/ req[r].at \in {"idle", "arrived"} /\ req'[r].at = "arrived"
         \/ req[r].at = "arrived" /\ req'[r].at = "locked" /\ req'[r].gen = current
         \/ req[r].at = "serving" /\ req'[r].at = "serving" /\ req'[r].gen = req[r].gen
  <2>1. CASE Arrive(r)
    <3>1. req[r].at = "idle" /\ req' = [req EXCEPT ![r].at = "arrived"]
      BY <2>1 DEF Arrive, Out
    <3> QED
      BY <1>1, <3>1 DEF Request
  <2>2. CASE Lookup(r)
    BY <1>1, <2>2 DEF Lookup, Request
  <2>3. CASE Upgrade(r)
    BY <1>1, <2>3 DEF Upgrade, Request
  <2> QED
    BY <2>1, <2>2, <2>3
<1>3. TypeOK'
  BY <1>1, <1>2 DEF IInv, TypeOK
<1>4. \A g : Holders(g)' = Holders(g)
  BY <1>2, SameHolders
<1>5. RefsExact' /\ Placed'
  BY <1>1, <1>2, <1>4 DEF IInv, RefsExact, Placed, Published
<1>6. Current' /\ Candidate' /\ Deployed' /\ ClosedEmpty' /\ WorkOwned' /\ LastDrain'
  BY <1>1 DEF IInv, Current, Candidate, Deployed, Published, ClosedEmpty, WorkOwned, LastDrain
<1> QED
  BY <1>3, <1>5, <1>6 DEF IInv

(* The count of one generation moves by one, and so do its holders. *)
LEMMA CountKeeps ==
  ASSUME IInv, NEW r \in Requests, Count(r)
  PROVE  IInv'
<1>1. PICK g \in Gens \cup {0} : g = req[r].gen
  BY DEF IInv, TypeOK, Request
<1>2. /\ req \in [Requests -> Request] /\ gens \in [Gens -> Runtime]
      /\ UNCHANGED <<file, watcher, reload, current, timers, expired, store, main, asked, tried>>
      /\ req[r].at = "locked" /\ g = current
  BY <1>1 DEF IInv, TypeOK, Placed, Count, Request
<1>3. CASE g = 0
  <2>1. req' = [req EXCEPT ![r] = Out] /\ UNCHANGED gens
    BY <1>1, <1>3 DEF Count
  <2>2. req' \in [Requests -> Request]
    BY <1>1, <1>2, <2>1 DEF Out, Request
  <2>3. TypeOK'
    BY <1>1, <1>2, <2>1, <2>2 DEF IInv, TypeOK
  <2>4. /\ \A q \in Requests : q # r => req'[q] = req[q]
        /\ req'[r].at = "idle"
    BY <1>1, <1>2, <2>1 DEF Out
  <2>5. \A h : Holders(h)' = Holders(h)
    BY <1>1, <1>2, <2>4, SameHolders
  <2>6. RefsExact' /\ Placed'
    BY <1>1, <1>2, <2>1, <2>4, <2>5 DEF IInv, RefsExact, Placed, Published
  <2>7. Current' /\ Candidate' /\ Deployed' /\ ClosedEmpty' /\ WorkOwned' /\ LastDrain'
    BY <1>1, <1>2, <2>1 DEF IInv, Current, Candidate, Deployed, Published, ClosedEmpty, WorkOwned, LastDrain
  <2> QED
    BY <2>3, <2>6, <2>7 DEF IInv
<1>4. CASE g # 0
  <2>1. /\ g \in Gens /\ req' = [req EXCEPT ![r].at = "serving"]
        /\ gens' = [gens EXCEPT ![g].refs = @ + 1]
    BY <1>1, <1>2, <1>4 DEF Count
  <2>2. /\ req' \in [Requests -> Request] /\ gens' \in [Gens -> Runtime]
        /\ \A q \in Requests : q # r => req'[q] = req[q]
        /\ req'[r].at = "serving" /\ req'[r].gen = g
    <3>1. gens' \in [Gens -> Runtime]
      BY <1>2, <2>1 DEF Runtime
    <3>2. /\ req' \in [Requests -> Request]
          /\ \A q \in Requests : q # r => req'[q] = req[q]
          /\ req'[r].at = "serving" /\ req'[r].gen = req[r].gen
      BY <1>2, <2>1 DEF Request
    <3> QED
      BY <1>1, <3>1, <3>2
  <2>3. /\ gens'[g].refs = gens[g].refs + 1
        /\ \A h \in Gens : h # g => gens'[h].refs = gens[h].refs
        /\ \A h \in Gens : /\ gens'[h].phase = gens[h].phase
                           /\ gens'[h].cfg = gens[h].cfg /\ gens'[h].ctx = gens[h].ctx
    BY <1>1, <1>2, <2>1 DEF Runtime
  <2>4. TypeOK'
    BY <1>1, <1>2, <2>2 DEF IInv, TypeOK
  <2>5. /\ Holders(g)' = Holders(g) \cup {r} /\ r \notin Holders(g)
        /\ \A h \in Gens : h # g => Holders(h)' = Holders(h)
    BY <1>1, <1>2, <2>2 DEF Holders
  <2>6. Cardinality(Holders(g)') = Cardinality(Holders(g)) + 1
    BY <2>5, HoldersFinite, FS_AddElement
  <2>7. RefsExact'
    BY <2>3, <2>5, <2>6 DEF IInv, RefsExact
  <2>8. gens[g].phase = "serving"
    BY <1>1, <1>2, <2>1 DEF IInv, Current
  <2>9. Placed'
    BY <1>1, <1>2, <2>1, <2>2, <2>3, <2>8 DEF IInv, Placed, Published
  <2>10. Current' /\ Candidate' /\ Deployed' /\ WorkOwned' /\ LastDrain'
    BY <1>1, <1>2, <2>3 DEF IInv, Current, Candidate, Deployed, Published, WorkOwned, LastDrain
  <2>11. ClosedEmpty'
    BY <1>1, <1>2, <2>3, <2>8 DEF IInv, ClosedEmpty
  <2> QED
    BY <2>4, <2>7, <2>9, <2>10, <2>11 DEF IInv
<1> QED
  BY <1>3, <1>4

LEMMA FinishKeeps ==
  ASSUME IInv, NEW r \in Requests, Finish(r)
  PROVE  IInv'
<1>0. PICK g \in Gens : g = req[r].gen
  BY DEF IInv, Placed, Finish
<1>1. /\ req \in [Requests -> Request] /\ gens \in [Gens -> Runtime] /\ g = req[r].gen
      /\ UNCHANGED <<file, watcher, reload, current, timers, expired, store, main, asked, tried>>
      /\ req[r].at = "serving" /\ req' = [req EXCEPT ![r] = Out]
      /\ gens' = [gens EXCEPT ![g].refs = @ - 1]
  BY <1>0 DEF IInv, TypeOK, Placed, Finish
<1>2. /\ req' \in [Requests -> Request]
      /\ \A q \in Requests : q # r => req'[q] = req[q]
      /\ req'[r].at = "idle"
  BY <1>1 DEF Out, Request
<1>3. /\ Holders(g)' = Holders(g) \ {r} /\ r \in Holders(g)
      /\ \A h \in Gens : h # g => Holders(h)' = Holders(h)
  BY <1>1, <1>2 DEF Holders
<1>4. /\ Cardinality(Holders(g)') = Cardinality(Holders(g)) - 1
      /\ Cardinality(Holders(g)) > 0
  <2>1. Cardinality(Holders(g)) # 0
    BY <1>3, HoldersFinite, FS_EmptySet
  <2> QED
    BY <1>3, <2>1, HoldersFinite, FS_RemoveElement
<1>5. /\ gens'[g].refs = gens[g].refs - 1 /\ gens[g].refs > 0
      /\ \A h \in Gens : h # g => gens'[h].refs = gens[h].refs
      /\ \A h \in Gens : /\ gens'[h].phase = gens[h].phase
                         /\ gens'[h].cfg = gens[h].cfg /\ gens'[h].ctx = gens[h].ctx
  BY <1>1, <1>4 DEF Runtime, IInv, RefsExact
<1>6. gens[g].refs - 1 \in Nat
  BY <1>1, <1>5 DEF Runtime
<1>7. gens' \in [Gens -> Runtime]
  BY <1>1, <1>6 DEF Runtime
<1>8. TypeOK'
  BY <1>1, <1>2, <1>7 DEF IInv, TypeOK
<1>9. RefsExact'
  BY <1>3, <1>4, <1>5 DEF IInv, RefsExact
<1>10. Placed'
  BY <1>1, <1>2, <1>5 DEF IInv, Placed, Published
<1>11. Current' /\ Candidate'
  BY <1>1, <1>5 DEF IInv, Current, Candidate
<1>12. Deployed' /\ WorkOwned' /\ LastDrain'
  BY <1>1, <1>5 DEF IInv, Deployed, Published, WorkOwned, LastDrain
<1>13. ClosedEmpty'
  BY <1>1, <1>5 DEF IInv, ClosedEmpty
<1> QED
  BY <1>8, <1>9, <1>10, <1>11, <1>12, <1>13 DEF IInv

-----------------------------------------------------------------------------
(* The last drain. *)
LEMMA DrainSwapKeeps ==
  ASSUME IInv, DrainSwap
  PROVE  IInv'
<1>1. /\ gens \in [Gens -> Runtime]
      /\ Readers = {} /\ current' = 0 /\ timers' = StartGrace
      /\ UNCHANGED <<file, watcher, reload, req, expired, store, asked, tried>>
      /\ main = "swap" /\ main' \in {"exited", "cancel"}
  BY DEF DrainSwap, IInv, TypeOK
<1>2. gens' = [h \in Gens |-> IF h = current THEN [gens[h] EXCEPT !.phase = "last"] ELSE gens[h]]
  BY DEF DrainSwap
<1>3. /\ gens' \in [Gens -> Runtime]
      /\ \A h \in Gens :
           /\ gens'[h].phase = IF h = current THEN "last" ELSE gens[h].phase
           /\ gens'[h].cfg = gens[h].cfg /\ gens'[h].refs = gens[h].refs
           /\ gens'[h].ctx = gens[h].ctx
  BY <1>1, <1>2 DEF Runtime
<1>4. TypeOK'
  BY <1>1, <1>3, GraceTypes DEF IInv, TypeOK
<1>5. \A h \in Gens : h = current <=> gens[h].phase = "serving"
  BY DEF IInv, Current
<1>6. Placed' /\ RefsExact'
  BY <1>1, <1>3, RequestsStay DEF Published
<1>7. Current' /\ ClosedEmpty' /\ WorkOwned' /\ LastDrain'
  BY <1>1, <1>3, <1>5, GensTypes DEF IInv, Current, ClosedEmpty, WorkOwned, LastDrain
<1>8. Deployed' /\ Candidate'
  BY <1>1, <1>3, <1>5 DEF IInv, Deployed, Published, Candidate
<1> QED
  BY <1>4, <1>6, <1>7, <1>8 DEF IInv

LEMMA DrainEndKeeps ==
  ASSUME IInv, NEW g \in Gens, DrainCancel(g) \/ DrainClose(g)
  PROVE  IInv'
<1>1. /\ gens \in [Gens -> Runtime] /\ gens[g].phase = "last"
      /\ UNCHANGED <<file, watcher, reload, current, req, timers, expired, asked, tried>>
      /\ main' \in {"draining", "exited"}
  BY DEF DrainCancel, DrainClose, IInv, TypeOK
<1>2. /\ gens' \in [Gens -> Runtime]
      /\ \A h \in Gens : h # g => gens'[h] = gens[h]
      /\ gens'[g].refs = gens[g].refs /\ gens'[g].cfg = gens[g].cfg
      /\ gens'[g].phase \in {"last", "closed"}
      /\ gens'[g].phase = "closed" => ~gens'[g].ctx
  <2>1. CASE DrainCancel(g)
    BY <1>1, <2>1 DEF DrainCancel, Runtime
  <2>2. CASE DrainClose(g)
    <3>1. ~gens[g].ctx
      BY <1>1, <2>2 DEF DrainClose, IInv, LastDrain
    <3> QED
      BY <1>1, <2>2, <3>1 DEF DrainClose, Runtime
  <2> QED
    BY <2>1, <2>2
<1>3. store' \in [path : {NoPath} \cup {StorePath[c] : c \in Configs}, open : BOOLEAN]
  BY DEF DrainCancel, DrainClose, IInv, TypeOK
<1>4. TypeOK'
  BY <1>1, <1>2, <1>3 DEF IInv, TypeOK
<1>5. gens'[g].phase = "closed" => gens[g].refs = 0 \/ g \in expired
  BY <1>1 DEF DrainCancel, DrainClose, Drained, Runtime
<1>6. Placed' /\ RefsExact'
  BY <1>1, <1>2, RequestsStay DEF Published
<1>7. Current' /\ ClosedEmpty' /\ Candidate'
  BY <1>1, <1>2, <1>5 DEF IInv, Current, ClosedEmpty, Candidate
<1>8. Deployed' /\ WorkOwned'
  BY <1>1, <1>2 DEF IInv, Deployed, Published, WorkOwned
<1>9. LastDrain'
  <2>1. CASE DrainCancel(g)
    <3>1. gens'[g].ctx = FALSE
      BY <1>1, <2>1 DEF DrainCancel, Runtime
    <3> QED
      BY <1>1, <1>2, <2>1, <3>1 DEF DrainCancel, IInv, LastDrain
  <2>2. CASE DrainClose(g)
    BY <1>1, <1>2, <2>2 DEF DrainClose, IInv, LastDrain
  <2> QED
    BY <2>1, <2>2
<1> QED
  BY <1>4, <1>6, <1>7, <1>8, <1>9 DEF IInv

-----------------------------------------------------------------------------
LEMMA StepIInv == IInv /\ [Next]_vars => IInv'
<1> SUFFICES ASSUME IInv, [Next]_vars PROVE IInv'
  OBVIOUS
<1>1. CASE UNCHANGED vars
  <2>1. TypeOK'
    BY <1>1 DEF vars, IInv, TypeOK
  <2> QED
    BY <1>1, <2>1, AsideKeeps DEF vars, Aside
<1>2. CASE \E c \in Configs \cup {Missing} : Edit(c)
  BY <1>2, EditKeeps
<1>3. CASE WatchStarts \/ WatchTick
  BY <1>3, WatchKeeps
<1>4. CASE LockWatch \/ LockAdmin
  BY <1>4, LockKeeps
<1>5. CASE Reloading
  BY <1>5, LoadKeeps, OpenStoreKeeps, StartPoolsKeeps, BuildChainsKeeps, SwapKeeps DEF Reloading
<1>6. CASE \E g \in Gens : RetireCancel(g) \/ RetireClose(g)
  BY <1>6, RetireKeeps
<1>7. CASE \E g \in Gens : DrainCancel(g) \/ DrainClose(g)
  BY <1>7, DrainEndKeeps
<1>8. CASE Signal \/ ServersStop \/ Expire
  BY <1>8, StopKeeps
<1>9. CASE \E r \in Requests : Arrive(r) \/ Lookup(r) \/ Upgrade(r)
  BY <1>9, OnTheWayKeeps
<1>10. CASE \E r \in Requests : Count(r)
  BY <1>10, CountKeeps
<1>11. CASE \E r \in Requests : Finish(r)
  BY <1>11, FinishKeeps
<1>12. CASE DrainSwap
  BY <1>12, DrainSwapKeeps
<1> QED
  BY <1>1, <1>2, <1>3, <1>4, <1>5, <1>6, <1>7, <1>8, <1>9, <1>10, <1>11, <1>12 DEF Next

(* The inductive invariant holds in every behaviour, and with it the types *)
(* of the supervisor's state.                                              *)
THEOREM Invariance == Spec => []IInv
<1> QED
  BY InitIInv, StepIInv, PTL DEF Spec

THEOREM GenerationTypes == Spec => []TypeOK
<1>1. IInv => TypeOK
  BY DEF IInv
<1> QED
  BY <1>1, Invariance, PTL

(* The claim of acquireRuntime's comment (supervisor.go:80-83), for every  *)
(* number of requests, edits and reloads: a generation closed within its   *)
(* grace is on nobody's hands.                                             *)
THEOREM NobodyStranded == Spec => []NoStranding
<1>1. IInv => NoStranding
  <2> SUFFICES ASSUME IInv, NEW g \in Gens, gens[g].phase = "closed", g \notin expired,
                      NEW r \in Requests, req[r].at \in {"locked", "serving"},
                      req[r].gen = g
               PROVE  FALSE
    BY DEF NoStranding
  <2>1. CASE req[r].at = "locked"
    BY <2>1 DEF IInv, Placed, Current
  <2>2. CASE req[r].at = "serving"
    <3>1. r \in Holders(g)
      BY <2>2 DEF Holders
    <3>2. Cardinality(Holders(g)) = 0
      BY DEF IInv, ClosedEmpty, RefsExact
    <3>3. Holders(g) = {}
      BY <3>2, HoldersFinite, FS_EmptySet
    <3> QED
      BY <3>1, <3>3
  <2> QED
    BY <2>1, <2>2
<1> QED
  BY <1>1, Invariance, PTL

(* Whatever a build started is stopped when the candidate is rejected, and *)
(* health checkers never outlive the start of their generation's drain.    *)
THEOREM WorkAccountedFor == Spec => []NoOrphanWork
<1>1. IInv => NoOrphanWork
  BY DEF IInv, NoOrphanWork, WorkOwned, Current, Candidate
<1> QED
  BY <1>1, Invariance, PTL
=============================================================================
