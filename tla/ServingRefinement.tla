------------------------- MODULE ServingRefinement -------------------------
(***************************************************************************)
(* Theorems about Generations when no reload overlaps the shutdown: reload *)
(* implements the atomic switch of ServingContract, nothing joins the last *)
(* drain, the shared store outlasts everybody who needs it, and the        *)
(* process does not exit under a request with grace left.                  *)
(*                                                                         *)
(* Why the exit is orderly: timers fire in the order in which they were    *)
(* started, so that when the servers' own grace runs out before their      *)
(* requests are done, the grace of every generation replaced earlier has   *)
(* run out too (Graces).                                                   *)
(***************************************************************************)
EXTENDS GenerationsProofs

Orderly == ~LateReloads

(* No reload is under way once the gateway stops, and no generation is in  *)
(* force once it has been swapped out for good.                            *)
Stopped ==
  /\ main # "running" => reload.step = "idle"
  /\ main \in {"running", "stopping", "swap"} <=> current # 0

Upgrades == \A r \in Requests : req[r].upgraded => req[r].at = "serving"

TakenOut(g) == gens[g].phase \in {"retired", "draining"}

(* The grace of a generation taken out has run out, or it will before the  *)
(* servers'.                                                               *)
Graces ==
  /\ main = "running" =>
       ShutdownTimer \notin expired /\ \A i \in 1 .. Len(timers) : timers[i] # ShutdownTimer
  /\ ShutdownTimer \in expired => \A g \in Gens : TakenOut(g) => g \in expired
  /\ \A g \in Gens : TakenOut(g) /\ g \notin expired =>
       \E i \in 1 .. Len(timers) :
         timers[i] = g /\ \A j \in 1 .. i : timers[j] # ShutdownTimer

(* What the servers' Shutdown waited for. *)
Waited ==
  /\ main \in {"swap", "cancel", "draining", "exited"} =>
       ShutdownTimer \in expired \/ \A r \in Requests : req[r].at = "idle" \/ req[r].upgraded
  /\ main = "exited" => \A g \in Gens : gens[g].phase # "last"

(* The store is the one every candidate and generation was built for. *)
StoreKept ==
  /\ store.path # NoPath /\ main # "exited" => store.open
  /\ \A g \in Gens :
       Published(g) \/ gens[g].phase = "building" =>
         StorePath[gens[g].cfg] \in {NoPath, store.path}
  /\ reload.step \in {"pools", "chains", "swap"} => StorePath[reload.cfg] \in {NoPath, store.path}

OInv == IInv /\ Stopped /\ Upgrades /\ Graces /\ Waited /\ StoreKept

-----------------------------------------------------------------------------
(* Which actions move what. *)

LEMMA MainMoves ==
  ASSUME [Next]_vars, main' # main
  PROVE  Signal \/ ServersStop \/ DrainSwap \/ \E g \in Gens : DrainCancel(g) \/ DrainClose(g)
BY DEF Next, vars, Edit, WatchStarts, WatchTick, LockWatch, LockAdmin, Reloading, Load, OpenStore,
       StartPools, BuildChains, Swap, RetireCancel, RetireClose, Expire, Arrive, Lookup, Count,
       Upgrade, Finish

LEMMA ReloadMoves ==
  ASSUME [Next]_vars, reload' # reload
  PROVE  LockWatch \/ LockAdmin \/ Reloading
BY DEF Next, vars, Edit, WatchStarts, WatchTick, RetireCancel, RetireClose, DrainCancel, DrainClose,
       Expire, Arrive, Lookup, Count, Upgrade, Finish, Signal, ServersStop, DrainSwap

LEMMA CurrentMoves ==
  ASSUME [Next]_vars, current' # current
  PROVE  Swap \/ DrainSwap
BY DEF Next, vars, Edit, WatchStarts, WatchTick, LockWatch, LockAdmin, Reloading, Load, OpenStore,
       StartPools, BuildChains, RetireCancel, RetireClose, DrainCancel, DrainClose, Expire, Arrive,
       Lookup, Count, Upgrade, Finish, Signal, ServersStop

LEMMA RequestMoves ==
  ASSUME [Next]_vars, req' # req
  PROVE  \E r \in Requests : Arrive(r) \/ Lookup(r) \/ Count(r) \/ Upgrade(r) \/ Finish(r)
BY DEF Next, vars, Edit, WatchStarts, WatchTick, LockWatch, LockAdmin, Reloading, Load, OpenStore,
       StartPools, BuildChains, Swap, RetireCancel, RetireClose, DrainCancel, DrainClose, Expire,
       Signal, ServersStop, DrainSwap

LEMMA StoreMoves ==
  ASSUME [Next]_vars, store' # store
  PROVE  OpenStore \/ \E g \in Gens : DrainClose(g)
BY DEF Next, vars, Edit, WatchStarts, WatchTick, LockWatch, LockAdmin, Reloading, Load,
       StartPools, BuildChains, Swap, RetireCancel, RetireClose, DrainCancel, Expire, Arrive,
       Lookup, Count, Upgrade, Finish, Signal, ServersStop, DrainSwap

LEMMA TimerMoves ==
  ASSUME [Next]_vars, timers' # timers \/ expired' # expired
  PROVE  Swap \/ DrainSwap \/ Signal \/ Expire
BY DEF Next, vars, Edit, WatchStarts, WatchTick, LockWatch, LockAdmin, Reloading, Load, OpenStore,
       StartPools, BuildChains, RetireCancel, RetireClose, DrainCancel, DrainClose, Arrive,
       Lookup, Count, Upgrade, Finish, ServersStop

(* What a step does to the generations: configurations are given once, and *)
(* phases only move on.                                                    *)
LEMMA PhaseMoves ==
  ASSUME IInv, [Next]_vars, NEW g \in Gens
  PROVE  \/ gens'[g].phase = gens[g].phase /\ gens'[g].cfg = gens[g].cfg
         \/ /\ gens[g].phase = "unused" /\ gens'[g].phase = "building"
            /\ reload.step = "pools" /\ gens'[g].cfg = reload.cfg
         \/ /\ gens'[g].cfg = gens[g].cfg
            /\ \/ gens[g].phase = "building" /\ gens'[g].phase = "discarded"
               \/ Swap /\ gens[g].phase = "building" /\ gens'[g].phase = "serving"
               \/ Swap /\ g = current /\ gens'[g].phase = "retired"
               \/ DrainSwap /\ g = current /\ gens'[g].phase = "last"
               \/ gens[g].phase = "retired" /\ gens'[g].phase = "draining"
               \/ gens[g].phase = "draining" /\ gens'[g].phase = "closed"
               \/ DrainClose(g) /\ gens[g].phase = "last" /\ gens'[g].phase = "closed"
<1>1. gens \in [Gens -> Runtime] /\ current \in Gens \cup {0}
  BY DEF IInv, TypeOK
<1>2. CASE UNCHANGED gens
  BY <1>2
<1>3. CASE StartPools
  <2>1. PICK h \in Gens :
          /\ gens[h].phase = "unused" /\ reload.step = "pools"
          /\ gens' = [gens EXCEPT ![h] = [phase |-> "building", cfg |-> reload.cfg,
                                          refs |-> 0, ctx |-> TRUE]]
    <3>1. PICK h \in Gens :
            /\ Fresh(h)
            /\ gens' = [gens EXCEPT ![h] = [phase |-> "building", cfg |-> reload.cfg,
                                            refs |-> 0, ctx |-> TRUE]]
      BY <1>3 DEF StartPools
    <3>2. gens[h].phase = "unused"
      BY <3>1, GensTypes DEF Fresh
    <3> QED
      BY <1>3, <3>1, <3>2 DEF StartPools
  <2> QED
    BY <1>1, <2>1
<1>4. CASE BuildChains
  <2>1. reload.gen \in Gens /\ gens[reload.gen].phase = "building"
    BY <1>4 DEF IInv, TypeOK, Candidate, BuildChains, Reload
  <2> QED
    BY <1>1, <1>4, <2>1 DEF BuildChains, Runtime
<1>5. CASE Swap
  <2>1. gens[reload.gen].phase = "building" /\ reload.gen # current
    BY <1>5 DEF IInv, TypeOK, Candidate, Current, Swap, Reload
  <2> QED
    BY <1>1, <1>5, <2>1 DEF Swap, Runtime
<1>6. CASE DrainSwap
  BY <1>1, <1>6 DEF DrainSwap, Runtime
<1>7. CASE \E h \in Gens : RetireCancel(h) \/ RetireClose(h)
  BY <1>1, <1>7 DEF RetireCancel, RetireClose, Runtime
<1>8. CASE \E h \in Gens : DrainCancel(h)
  BY <1>1, <1>8 DEF DrainCancel, Runtime
<1>9. CASE \E h \in Gens : DrainClose(h)
  <2>1. PICK h \in Gens : DrainClose(h)
    BY <1>9
  <2>2. gens[h].phase = "last" /\ gens' = [gens EXCEPT ![h].phase = "closed"]
    BY <2>1 DEF DrainClose
  <2>3. CASE g = h
    BY <1>1, <2>1, <2>2, <2>3 DEF Runtime
  <2>4. CASE g # h
    BY <1>1, <2>2, <2>4
  <2> QED
    BY <2>3, <2>4
<1>10. CASE \E r \in Requests : Count(r) \/ Finish(r)
  BY <1>1, <1>10 DEF Count, Finish, Runtime
<1>11. \/ UNCHANGED gens \/ StartPools \/ BuildChains \/ Swap \/ DrainSwap
       \/ \E h \in Gens : RetireCancel(h) \/ RetireClose(h) \/ DrainCancel(h) \/ DrainClose(h)
       \/ \E r \in Requests : Count(r) \/ Finish(r)
  BY DEF Next, vars, Edit, WatchStarts, WatchTick, LockWatch, LockAdmin, Reloading, Load, OpenStore,
         Expire, Arrive, Lookup, Upgrade, Signal, ServersStop
<1> QED
  BY <1>2, <1>3, <1>4, <1>5, <1>6, <1>7, <1>8, <1>9, <1>10, <1>11

-----------------------------------------------------------------------------
LEMMA StoppedKeeps ==
  ASSUME OInv, Orderly, [Next]_vars
  PROVE  Stopped'
<1>1. reload'.step # "idle" => main' = "running"
  <2>1. CASE reload' = reload
    <3>1. reload.step # "idle" => main = "running"
      BY DEF OInv, Stopped
    <3>2. main' # main /\ main = "running" => reload.step = "idle"
      BY MainMoves DEF Signal, ServersStop, DrainSwap, DrainCancel, DrainClose, Orderly, Idle
    <3> QED
      BY <2>1, <3>1, <3>2
  <2>2. CASE LockWatch \/ LockAdmin
    BY <2>2 DEF LockWatch, LockAdmin, MayReload, Orderly
  <2>3. CASE Reloading
    <3>1. reload.step # "idle" /\ main' = main
      BY <2>3 DEF Reloading, Load, OpenStore, StartPools, BuildChains, Swap
    <3> QED
      BY <3>1 DEF OInv, Stopped
  <2> QED
    BY <2>1, <2>2, <2>3, ReloadMoves
<1>2. main' \in {"running", "stopping", "swap"} <=> current' # 0
  <2>1. CASE Swap
    <3>1. main = "running" /\ main' = main /\ current' = reload.gen /\ reload.gen # 0
      BY <2>1 DEF OInv, Stopped, IInv, Candidate, Swap
    <3> QED
      BY <3>1
  <2>2. CASE DrainSwap
    BY <2>2 DEF DrainSwap, OInv, Stopped
  <2>3. CASE current' = current
    <3>1. CASE main' = main
      BY <2>3, <3>1 DEF OInv, Stopped
    <3>2. CASE main' # main /\ ~DrainSwap
      <4>1. \/ main \in {"running", "stopping"} /\ main' \in {"stopping", "swap"}
            \/ main \in {"cancel", "draining"} /\ main' \in {"draining", "exited"}
        BY <3>2, MainMoves DEF Signal, ServersStop, DrainCancel, DrainClose
      <4> QED
        BY <2>3, <4>1 DEF OInv, Stopped
    <3> QED
      BY <2>2, <3>1, <3>2
  <2> QED
    BY <2>1, <2>2, <2>3, CurrentMoves
<1> QED
  BY <1>1, <1>2 DEF Stopped

LEMMA UpgradesKeep ==
  ASSUME OInv, [Next]_vars
  PROVE  Upgrades'
<1>1. CASE req' = req
  BY <1>1 DEF OInv, Upgrades
<1>2. ASSUME NEW r \in Requests, Arrive(r) \/ Lookup(r) \/ Count(r) \/ Upgrade(r) \/ Finish(r)
      PROVE  Upgrades'
  <2>1. req \in [Requests -> Request]
    BY DEF OInv, IInv, TypeOK
  <2>2. \A q \in Requests : q # r => req'[q] = req[q]
    BY <1>2, <2>1 DEF Arrive, Lookup, Count, Upgrade, Finish
  <2>3. req'[r].upgraded => req'[r].at = "serving"
    <3>1. req[r].upgraded => req[r].at = "serving"
      BY DEF OInv, Upgrades
    <3>2. CASE Arrive(r) \/ Lookup(r)
      BY <2>1, <3>1, <3>2 DEF Arrive, Lookup, Out, Request
    <3>3. CASE Count(r) \/ Upgrade(r) \/ Finish(r)
      BY <2>1, <3>1, <3>3 DEF Count, Upgrade, Finish, Out, Request
    <3> QED
      BY <1>2, <3>2, <3>3
  <2> QED
    BY <2>2, <2>3 DEF OInv, Upgrades
<1> QED
  BY <1>1, <1>2, RequestMoves

LEMMA WaitedKeeps ==
  ASSUME OInv, Orderly, [Next]_vars
  PROVE  Waited'
<1> DEFINE Idling == \A r \in Requests : req[r].at = "idle" \/ req[r].upgraded
           Past == main \in {"swap", "cancel", "draining", "exited"}
<1>1. ShutdownTimer \in expired => ShutdownTimer \in expired'
  BY TimerMoves DEF Swap, DrainSwap, Signal, Expire
<1>2. main' \in {"swap", "cancel", "draining", "exited"} => Past \/ ServersStop
  BY MainMoves DEF Signal, ServersStop, DrainSwap, DrainCancel, DrainClose
<1>3. ServersStop => ShutdownTimer \in expired' \/ Idling'
  BY DEF ServersStop
<1>4. Past /\ Idling => Idling'
  <2> SUFFICES ASSUME Past, Idling, req' # req PROVE Idling'
    BY DEF Past
  <2>1. PICK r \in Requests : Arrive(r) \/ Lookup(r) \/ Count(r) \/ Upgrade(r) \/ Finish(r)
    BY RequestMoves
  <2>2. req \in [Requests -> Request] /\ (req[r].upgraded => req[r].at = "serving")
    BY DEF OInv, IInv, TypeOK, Upgrades
  <2>3. Finish(r)
    BY <2>1, <2>2 DEF Past, Idling, Arrive, Lookup, Count, Upgrade
  <2> QED
    BY <2>2, <2>3 DEF Finish, Out
<1>5. main' \in {"swap", "cancel", "draining", "exited"} => ShutdownTimer \in expired' \/ Idling'
  BY <1>1, <1>2, <1>3, <1>4 DEF OInv, Waited
<1>6. ASSUME main' = "exited", NEW g \in Gens PROVE gens'[g].phase # "last"
  <2>1. CASE main = "exited"
    <3>1. ~DrainSwap /\ gens[g].phase # "last"
      BY <2>1 DEF DrainSwap, OInv, Waited
    <3> QED
      BY <3>1, PhaseMoves DEF OInv
  <2>2. CASE DrainSwap
    BY <1>6, <2>2 DEF DrainSwap, OInv, Stopped
  <2>3. CASE \E h \in Gens : DrainClose(h)
    <3>1. PICK h \in Gens : DrainClose(h)
      BY <2>3
    <3>2. gens \in [Gens -> Runtime] /\ gens[h].phase = "last"
          /\ gens' = [gens EXCEPT ![h].phase = "closed"]
      BY <3>1 DEF DrainClose, OInv, IInv, TypeOK
    <3>3. gens[g].phase = "last" => g = h
      BY <3>2 DEF OInv, IInv, LastDrain
    <3>4. gens'[h].phase = "closed" /\ (g # h => gens'[g] = gens[g])
      BY <3>2 DEF Runtime
    <3> QED
      BY <3>3, <3>4
  <2> QED
    BY <1>6, <2>1, <2>2, <2>3, MainMoves DEF Signal, ServersStop, DrainCancel
<1> QED
  BY <1>5, <1>6 DEF Waited

LEMMA StoreKeptKeeps ==
  ASSUME OInv, Orderly, [Next]_vars
  PROVE  StoreKept'
<1>1. store \in [path : {NoPath} \cup {StorePath[c] : c \in Configs}, open : BOOLEAN]
  BY DEF OInv, IInv, TypeOK
<1>2. \/ store' = store
      \/ OpenStore /\ store.path = NoPath /\ store'.path = StorePath[reload.cfg] /\ store'.open
      \/ main' = "exited" /\ store'.path = store.path
  BY <1>1, StoreMoves DEF OpenStore, DrainClose
<1>3. store'.path # NoPath /\ main' # "exited" => store'.open
  <2>1. main' # "exited" => main # "exited"
    BY MainMoves DEF Signal, ServersStop, DrainSwap, DrainCancel, DrainClose
  <2> QED
    BY <1>2, <2>1 DEF OInv, StoreKept
<1>4. store.path # NoPath => store'.path = store.path
  BY <1>2
<1>5. ASSUME NEW g \in Gens, Published(g)' \/ gens'[g].phase = "building"
      PROVE  StorePath[gens'[g].cfg] \in {NoPath, store'.path}
  <2>1. \/ gens'[g].phase = gens[g].phase /\ gens'[g].cfg = gens[g].cfg
        \/ reload.step = "pools" /\ gens'[g].cfg = reload.cfg
        \/ gens[g].phase = "building" /\ gens'[g].cfg = gens[g].cfg
        \/ Published(g) /\ gens'[g].cfg = gens[g].cfg
    <3>1. g = current => gens[g].phase = "serving"
      BY DEF OInv, IInv, Current
    <3> QED
      BY <3>1, PhaseMoves DEF OInv, Published
  <2>2. gens'[g].phase = gens[g].phase => Published(g) \/ gens[g].phase = "building"
    BY <1>5 DEF Published
  <2>3. CASE reload.step = "pools" /\ gens'[g].cfg = reload.cfg
    BY <1>4, <2>3 DEF OInv, StoreKept
  <2>4. CASE (Published(g) \/ gens[g].phase = "building") /\ gens'[g].cfg = gens[g].cfg
    <3>1. StorePath[gens[g].cfg] \in {NoPath, store.path}
      BY <2>4 DEF OInv, StoreKept
    <3> QED
      BY <1>4, <2>4, <3>1
  <2> QED
    BY <2>1, <2>2, <2>3, <2>4
<1>6. ASSUME reload'.step \in {"pools", "chains", "swap"}
      PROVE  StorePath[reload'.cfg] \in {NoPath, store'.path}
  <2>1. reload \in Reload
    BY DEF OInv, IInv, TypeOK
  <2>2. CASE reload.step \in {"pools", "chains", "swap"} /\ reload'.cfg = reload.cfg
    BY <1>4, <2>2 DEF OInv, StoreKept
  <2>3. CASE OpenStore
    BY <1>1, <1>6, <2>1, <2>3 DEF OpenStore, Leave, Idle, Reload
  <2>4. \/ OpenStore
        \/ reload.step \in {"pools", "chains", "swap"} /\ reload'.cfg = reload.cfg
    <3>1. CASE reload' = reload
      BY <1>6, <3>1
    <3>2. CASE LockWatch \/ LockAdmin
      BY <1>6, <3>2 DEF LockWatch, LockAdmin, Idle
    <3>3. CASE Load
      <4>1. file.cfg \in Loadable => reload'.step = "store"
        BY <2>1, <3>3 DEF Load, Reload
      <4>2. file.cfg \notin Loadable => reload'.step = "idle"
        BY <3>3 DEF Load, Leave, Idle
      <4> QED
        BY <1>6, <4>1, <4>2
    <3>4. CASE StartPools
      BY <2>1, <3>4 DEF StartPools, Reload
    <3>5. CASE BuildChains
      BY <1>6, <2>1, <3>5 DEF BuildChains, Leave, Idle, Reload
    <3>6. CASE Swap
      BY <1>6, <3>6 DEF Swap, Leave, Idle
    <3> QED
      BY <3>1, <3>2, <3>3, <3>4, <3>5, <3>6, ReloadMoves DEF Reloading
  <2> QED
    BY <2>2, <2>3, <2>4
<1> QED
  BY <1>3, <1>5, <1>6 DEF StoreKept

(* Generation g's grace ends before the servers'. *)
Ahead(g) == \E i \in 1 .. Len(timers) : timers[i] = g /\ \A j \in 1 .. i : timers[j] # ShutdownTimer

LEMMA LaterTimer ==
  ASSUME timers \in Seq(Gens \cup {ShutdownTimer}), NEW t \in Gens \cup {ShutdownTimer},
         timers' = Append(timers, t), NEW g, Ahead(g)
  PROVE  Ahead(g)'
<1>1. Len(timers') = Len(timers) + 1 /\ \A i \in 1 .. Len(timers) : timers'[i] = timers[i]
  OBVIOUS
<1>2. PICK i \in 1 .. Len(timers) : timers[i] = g /\ \A j \in 1 .. i : timers[j] # ShutdownTimer
  BY DEF Ahead
<1>3. i \in 1 .. Len(timers') /\ timers'[i] = g /\ \A j \in 1 .. i : timers'[j] # ShutdownTimer
  BY <1>1, <1>2
<1> QED
  BY <1>3 DEF Ahead

LEMMA TimerFires ==
  ASSUME timers \in Seq(Gens \cup {ShutdownTimer}), timers # <<>>, timers' = Tail(timers),
         NEW g, g # Head(timers), Ahead(g)
  PROVE  Ahead(g)'
<1>1. /\ Len(timers) \in Nat /\ Len(timers') = Len(timers) - 1
      /\ \A i \in 1 .. Len(timers') : timers'[i] = timers[i + 1]
  OBVIOUS
<1>2. PICK i \in 1 .. Len(timers) : timers[i] = g /\ \A j \in 1 .. i : timers[j] # ShutdownTimer
  BY DEF Ahead
<1>3. i # 1
  BY <1>2
<1>4. i - 1 \in 1 .. Len(timers') /\ timers'[i - 1] = g
  BY <1>1, <1>2, <1>3
<1>5. \A j \in 1 .. (i - 1) : timers'[j] # ShutdownTimer
  BY <1>1, <1>2
<1> QED
  BY <1>4, <1>5 DEF Ahead

LEMMA GracesKeep ==
  ASSUME OInv, Orderly, [Next]_vars
  PROVE  Graces'
<1>1. /\ timers \in Seq(Gens \cup {ShutdownTimer}) /\ current \in Gens \cup {0}
      /\ ShutdownTimer \notin Gens /\ ShutdownTimer = 0
  BY GensTypes DEF OInv, IInv, TypeOK, ShutdownTimer
<1>2. Swap => main = "running" /\ main' = main /\ current \in Gens
  BY <1>1 DEF OInv, IInv, Candidate, Stopped, Swap
<1>3. main' = "running" => main = "running"
  BY MainMoves DEF Signal, ServersStop, DrainSwap, DrainCancel, DrainClose
<1>4. ASSUME NEW g \in Gens, TakenOut(g)', ~TakenOut(g)
      PROVE  Swap /\ g = current
  BY <1>4, PhaseMoves DEF OInv, TakenOut
<1>5. \/ UNCHANGED <<timers, expired>>
      \/ \E t \in Gens \cup {ShutdownTimer} : timers' = Append(timers, t) /\ expired' = expired
      \/ Expire
  <2>1. Swap \/ DrainSwap => timers' = StartGrace /\ expired' = expired
    BY DEF Swap, DrainSwap
  <2>2. Signal => timers' = Append(timers, ShutdownTimer) /\ expired' = expired
    BY DEF Signal
  <2>3. StartGrace = timers \/ (current \in Gens /\ StartGrace = Append(timers, current))
    BY <1>1 DEF StartGrace
  <2> QED
    BY <2>1, <2>2, <2>3, TimerMoves
<1>6. expired \subseteq expired'
  BY <1>5 DEF Expire
<1>7. ASSUME main' = "running"
      PROVE  ShutdownTimer \notin expired' /\ \A i \in 1 .. Len(timers') : timers'[i] # ShutdownTimer
  <2>1. /\ ShutdownTimer \notin expired
        /\ \A i \in 1 .. Len(timers) : timers[i] # ShutdownTimer
    BY <1>3, <1>7 DEF OInv, Graces
  <2>2. CASE Swap
    <3>1. timers' = Append(timers, current) /\ expired' = expired
      BY <1>1, <1>2, <2>2 DEF Swap, StartGrace
    <3>2. Len(timers') = Len(timers) + 1 /\ timers'[Len(timers) + 1] = current
          /\ \A i \in 1 .. Len(timers) : timers'[i] = timers[i]
      BY <1>1, <3>1
    <3> QED
      BY <1>1, <1>2, <2>1, <2>2, <3>1, <3>2
  <2>3. CASE Expire
    <3>1. Head(timers) = timers[1] /\ 1 \in 1 .. Len(timers)
      BY <1>1, <2>3 DEF Expire
    <3>2. Len(timers') = Len(timers) - 1 /\ \A i \in 1 .. Len(timers') : timers'[i] = timers[i + 1]
      BY <1>1, <2>3 DEF Expire
    <3>3. \A i \in 1 .. Len(timers') : i + 1 \in 1 .. Len(timers)
      BY <1>1, <3>2
    <3>4. expired' = expired \cup {timers[1]}
      BY <2>3, <3>1 DEF Expire
    <3> QED
      BY <2>1, <3>1, <3>2, <3>3, <3>4
  <2>4. ~Signal /\ ~DrainSwap
    BY <1>3, <1>7 DEF Signal, DrainSwap
  <2>5. CASE UNCHANGED <<timers, expired>>
    BY <2>1, <2>5
  <2> QED
    BY <2>2, <2>3, <2>4, <2>5, TimerMoves
<1>8. ASSUME ShutdownTimer \in expired', NEW g \in Gens, TakenOut(g)'
      PROVE  g \in expired'
  <2>1. CASE ShutdownTimer \in expired
    <3>1. main # "running"
      BY <2>1 DEF OInv, Graces
    <3>2. TakenOut(g)
      BY <1>2, <1>4, <1>8, <3>1
    <3> QED
      BY <1>6, <2>1, <3>2 DEF OInv, Graces
  <2>2. CASE ShutdownTimer \notin expired
    <3>1. Expire
      BY <1>5, <1>8, <2>2
    <3>2. Head(timers) = ShutdownTimer /\ Head(timers) = timers[1]
      BY <1>1, <1>8, <2>2, <3>1 DEF Expire
    <3>3. TakenOut(g)
      <4>1. UNCHANGED current /\ gens' = gens
        BY <3>1 DEF Expire
      <4> QED
        BY <1>8, <4>1 DEF TakenOut
    <3>4. ~Ahead(g)
      BY <1>1, <3>2 DEF Ahead
    <3> QED
      BY <1>6, <3>3, <3>4 DEF OInv, Graces, Ahead
  <2> QED
    BY <2>1, <2>2
<1>9. ASSUME NEW g \in Gens, TakenOut(g)', g \notin expired'
      PROVE  Ahead(g)'
  <2>1. CASE TakenOut(g)
    <3>1. Ahead(g)
      BY <1>6, <1>9, <2>1 DEF OInv, Graces, Ahead
    <3>2. CASE UNCHANGED <<timers, expired>>
      BY <3>1, <3>2 DEF Ahead
    <3>3. CASE \E t \in Gens \cup {ShutdownTimer} : timers' = Append(timers, t)
      BY <1>1, <3>1, <3>3, LaterTimer
    <3>4. CASE Expire
      <4>1. timers # <<>> /\ timers' = Tail(timers) /\ g # Head(timers)
        BY <1>9, <3>4 DEF Expire
      <4> QED
        BY <1>1, <3>1, <4>1, TimerFires
    <3> QED
      BY <1>5, <3>2, <3>3, <3>4
  <2>2. CASE ~TakenOut(g)
    <3>1. Swap /\ g = current /\ main = "running"
      BY <1>2, <1>4, <1>9, <2>2
    <3>2. timers' = Append(timers, g)
      BY <1>1, <1>2, <3>1 DEF Swap, StartGrace
    <3>3. /\ Len(timers') = Len(timers) + 1 /\ timers'[Len(timers')] = g
          /\ \A i \in 1 .. Len(timers) : timers'[i] = timers[i]
      BY <1>1, <3>2
    <3>4. \A i \in 1 .. Len(timers') : timers'[i] # ShutdownTimer
      BY <1>3, <1>7, <3>1, <1>2
    <3>5. Len(timers') \in 1 .. Len(timers')
      BY <1>1, <3>3
    <3> QED
      BY <3>3, <3>4, <3>5 DEF Ahead
  <2> QED
    BY <2>1, <2>2
<1> QED
  BY <1>7, <1>8, <1>9 DEF Graces, Ahead

-----------------------------------------------------------------------------
LEMMA InitOInv == Init => OInv
<1> SUFFICES ASSUME Init PROVE OInv
  OBVIOUS
<1>1. PICK c \in Buildable :
        /\ gens = [g \in Gens |->
             IF g = 1 THEN [phase |-> "serving", cfg |-> c, refs |-> 0, ctx |-> TRUE]
             ELSE Unused]
        /\ store = [path |-> StorePath[c], open |-> StorePath[c] # NoPath]
  BY DEF Init
<1>2. \A g \in Gens : /\ gens[g].phase = IF g = 1 THEN "serving" ELSE "unused"
                      /\ g = 1 => gens[g].cfg = c
  BY <1>1 DEF Unused
<1>3. Stopped /\ Upgrades
  BY DEF Init, Stopped, Upgrades, Idle, Out
<1>4. Graces /\ Waited
  <2>1. timers = <<>> /\ expired = {} /\ main = "running"
    BY DEF Init
  <2> QED
    BY <1>2, <2>1 DEF Graces, Waited, TakenOut
<1>5. StoreKept
  BY <1>1, <1>2 DEF Init, StoreKept, Published, Idle
<1> QED
  BY <1>3, <1>4, <1>5, InitIInv DEF OInv

LEMMA StepOInv == OInv /\ Orderly /\ [Next]_vars => OInv'
  BY StepIInv, StoppedKeeps, UpgradesKeep, WaitedKeeps, StoreKeptKeeps, GracesKeep DEF OInv

(* The inductive invariant of a gateway whose reloads end before it does.  *)
THEOREM OrderlyInvariance ==
  ASSUME Orderly
  PROVE  Spec => []OInv
<1>1. OInv /\ [Next]_vars => OInv'
  BY StepOInv
<1> QED
  BY InitOInv, <1>1, PTL DEF Spec

-----------------------------------------------------------------------------
(* Who is still worked for when the process exits has had its grace. *)
LEMMA ExitIsLate ==
  ASSUME OInv, main = "exited", NEW g \in Gens, WorkedFor(g)
  PROVE  g \in expired
<1>1. PICK r \in Requests : req[r].at = "serving" /\ req[r].gen = g /\ ~req[r].upgraded
  BY DEF WorkedFor, Holders
<1>2. Published(g) /\ gens[g].phase # "last"
  BY <1>1 DEF OInv, IInv, Placed, Waited
<1>3. gens[g].phase # "serving"
  BY GensTypes DEF OInv, IInv, Current, Stopped
<1>4. CASE TakenOut(g)
  <2>1. ShutdownTimer \in expired
    BY <1>1 DEF OInv, Waited
  <2> QED
    BY <1>4, <2>1 DEF OInv, Graces
<1>5. CASE gens[g].phase = "closed"
  <2> SUFFICES ASSUME g \notin expired PROVE FALSE
    OBVIOUS
  <2>1. Cardinality(Holders(g)) = 0
    BY <1>5 DEF OInv, IInv, ClosedEmpty, RefsExact
  <2>2. Holders(g) = {}
    BY <2>1, HoldersFinite, FS_EmptySet
  <2> QED
    BY <1>1, <2>2 DEF Holders
<1>6. gens[g] \in Runtime
  BY DEF OInv, IInv, TypeOK
<1> QED
  BY <1>2, <1>3, <1>4, <1>5, <1>6 DEF Published, TakenOut, Runtime

(* README.md:544 for every number of requests, edits and reloads: a        *)
(* request with grace left is never cut off by the exit.                   *)
THEOREM NoneCutOff ==
  ASSUME Orderly
  PROVE  Spec => []ExitAfterGrace
<1>1. OInv => ExitAfterGrace
  BY ExitIsLate DEF ExitAfterGrace
<1> QED
  BY <1>1, OrderlyInvariance, PTL

(* The shared store is there, and the one configured, for as long as a     *)
(* limiter may need it.                                                    *)
THEOREM StoreOutlastsUse ==
  ASSUME Orderly
  PROVE  Spec => []StoreServes
<1>1. OInv => StoreServes
  <2> SUFFICES ASSUME OInv, NEW g \in Gens, g = current \/ (WorkedFor(g) /\ g \notin expired),
                      StorePath[gens[g].cfg] # NoPath
               PROVE  store = [path |-> StorePath[gens[g].cfg], open |-> TRUE]
    BY DEF StoreServes
  <2>1. Published(g)
    <3>1. CASE g = current
      BY <3>1 DEF OInv, IInv, Current, Published
    <3>2. CASE WorkedFor(g)
      BY <3>2 DEF OInv, IInv, Placed, WorkedFor, Holders
    <3> QED
      BY <3>1, <3>2
  <2>2. main # "exited"
    <3>1. CASE g = current
      BY <3>1, GensTypes DEF OInv, Stopped
    <3>2. CASE WorkedFor(g) /\ g \notin expired
      BY <3>2, ExitIsLate
    <3> QED
      BY <3>1, <3>2
  <2>3. store.path = StorePath[gens[g].cfg]
    BY <2>1 DEF OInv, StoreKept
  <2>4. store.open = TRUE
    BY <2>2, <2>3 DEF OInv, IInv, TypeOK, StoreKept
  <2>5. store \in [path : {NoPath} \cup {StorePath[c] : c \in Configs}, open : BOOLEAN]
    BY DEF OInv, IInv, TypeOK
  <2> QED
    BY <2>3, <2>4, <2>5
<1> QED
  BY <1>1, OrderlyInvariance, PTL

(* supervisor.go:217-219, for a gateway no reload overtakes: who looked up *)
(* a generation before the last swap is waited for, who comes later finds  *)
(* none.                                                                   *)
THEOREM DrainIsClosed ==
  ASSUME Orderly
  PROVE  Spec => NoneJoinsDrain
<1> DEFINE Stays(r) ==
      main \in {"cancel", "draining"} /\ req[r].at = "locked" => req'[r].at # "serving"
<1>1. OInv /\ [Next]_vars => \A r \in Requests : Stays(r)
  <2> SUFFICES ASSUME OInv, [Next]_vars, NEW r \in Requests,
                      main \in {"cancel", "draining"}, req[r].at = "locked"
               PROVE  req'[r].at # "serving"
    OBVIOUS
  <2>1. req[r].gen = 0
    BY DEF OInv, IInv, Placed, Stopped
  <2>2. CASE req' = req
    BY <2>2
  <2>3. ASSUME NEW q \in Requests,
               Arrive(q) \/ Lookup(q) \/ Count(q) \/ Upgrade(q) \/ Finish(q)
        PROVE  req'[r].at # "serving"
    <3>1. req \in [Requests -> Request]
      BY DEF OInv, IInv, TypeOK
    <3>2. CASE q = r
      BY <2>1, <2>3, <3>1, <3>2 DEF Arrive, Lookup, Count, Upgrade, Finish, Out
    <3>3. CASE q # r
      BY <2>3, <3>1, <3>3 DEF Arrive, Lookup, Count, Upgrade, Finish
    <3> QED
      BY <3>2, <3>3
  <2> QED
    BY <2>2, <2>3, RequestMoves
<1>2. OInv /\ [Next]_vars => [\A r \in Requests : Stays(r)]_vars
  BY <1>1
<1> QED
  BY <1>2, OrderlyInvariance, PTL DEF Spec, NoneJoinsDrain

-----------------------------------------------------------------------------
(* The configuration in force, and the one request r is served by.         *)
Active == IF current = 0 THEN Missing ELSE gens[current].cfg

UsedBy(r) ==
  IF req[r].at \in {"locked", "serving"} /\ req[r].gen # 0 THEN gens[req[r].gen].cfg ELSE Missing

Using == [r \in Requests |-> UsedBy(r)]

LEMMA CfgKept ==
  ASSUME OInv, [Next]_vars, NEW g \in Gens, Published(g)
  PROVE  gens'[g].cfg = gens[g].cfg
<1>1. g = current => gens[g].phase = "serving"
  BY DEF OInv, IInv, Current
<1> QED
  BY <1>1, PhaseMoves DEF OInv, Published

LEMMA CurrentPublished ==
  ASSUME OInv, current # 0
  PROVE  current \in Gens /\ Published(current) /\ gens[current].cfg # Missing
<1>1. current \in Gens /\ Published(current)
  BY DEF OInv, IInv, TypeOK, Current, Published
<1> QED
  BY <1>1, ConstantTypes DEF OInv, IInv, Deployed

(* Whose place does not change is served by the same configuration. *)
LEMMA UsedByKept ==
  ASSUME OInv, [Next]_vars, NEW r \in Requests,
         req'[r].at \in {"locked", "serving"} <=> req[r].at \in {"locked", "serving"},
         req'[r].gen = req[r].gen
  PROVE  UsedBy(r)' = UsedBy(r)
<1>1. CASE req[r].at \in {"locked", "serving"} /\ req[r].gen # 0
  <2>1. req[r].gen \in Gens /\ Published(req[r].gen)
    BY <1>1, CurrentPublished DEF OInv, IInv, Placed
  <2>2. gens'[req[r].gen].cfg = gens[req[r].gen].cfg
    BY <2>1, CfgKept
  <2> QED
    BY <2>2 DEF UsedBy
<1>2. CASE ~(req[r].at \in {"locked", "serving"} /\ req[r].gen # 0)
  BY <1>2 DEF UsedBy
<1> QED
  BY <1>1, <1>2

LEMMA ActiveKept ==
  ASSUME OInv, [Next]_vars, current' = current
  PROVE  Active' = Active
<1>1. CASE current = 0
  BY <1>1 DEF Active
<1>2. CASE current # 0
  BY <1>2, CurrentPublished, CfgKept DEF Active
<1> QED
  BY <1>1, <1>2

(* A step of one request, and what becomes of the request.                 *)
LEMMA UsingOfOne ==
  ASSUME OInv, [Next]_vars, NEW r \in Requests, \A q \in Requests : q # r => req'[q] = req[q]
  PROVE  /\ UsedBy(r)' = UsedBy(r) => Using' = Using
         /\ Using' = [Using EXCEPT ![r] = UsedBy(r)']
<1>1. \A q \in Requests : q # r => UsedBy(q)' = UsedBy(q)
  BY UsedByKept
<1> QED
  BY <1>1 DEF Using

LEMMA ServingInit == Init => Serving!Init
<1> SUFFICES ASSUME Init PROVE Serving!Init
  OBVIOUS
<1>1. PICK c \in Buildable :
        gens = [g \in Gens |->
             IF g = 1 THEN [phase |-> "serving", cfg |-> c, refs |-> 0, ctx |-> TRUE]
             ELSE Unused]
  BY DEF Init
<1>2. current = 1 /\ gens[1].cfg = c
  BY <1>1, GensTypes DEF Init
<1>3. Active \in Buildable
  BY <1>2 DEF Active
<1>4. Using = [r \in Requests |-> Missing]
  BY DEF Init, Out, Using, UsedBy
<1> QED
  BY <1>3, <1>4 DEF Serving!Init, Active, Using, UsedBy

LEMMA ServingStep ==
  ASSUME OInv, Orderly, [Next]_vars
  PROVE  [Serving!Next]_(Serving!vars)
<1> DEFINE Goal == [Serving!Next]_(Serving!vars)
<1>1. Active' = Active /\ Using' = Using => Goal
  BY DEF Active, Using, UsedBy, Serving!vars
<1>2. CASE UNCHANGED <<current, req>>
  <2>1. \A r \in Requests : UsedBy(r)' = UsedBy(r)
    BY <1>2, UsedByKept
  <2>2. Active' = Active /\ Using' = Using
    BY <1>2, <2>1, ActiveKept DEF Using
  <2> QED
    BY <1>1, <2>2
<1>3. CASE current' # current
  <2>1. req' = req
    BY <1>3, CurrentMoves DEF Swap, DrainSwap
  <2>2. \A r \in Requests : UsedBy(r)' = UsedBy(r)
    BY <2>1, UsedByKept
  <2>3. Using' = Using
    BY <2>2 DEF Using
  <2>4. CASE Swap
    <3>1. Active # Missing
      BY <2>4, CurrentPublished DEF Active, OInv, Stopped, Swap
    <3>2. /\ current' = reload.gen /\ reload.gen \in Gens /\ reload.cfg \in Buildable
          /\ gens[reload.gen].phase = "building" /\ gens[reload.gen].cfg = reload.cfg
      BY <2>4 DEF Swap, OInv, IInv, TypeOK, Candidate, Reload
    <3>3. gens'[reload.gen].cfg = reload.cfg
      BY <3>2, PhaseMoves DEF OInv
    <3>4. Active' \in Buildable
      BY <3>2, <3>3, GensTypes DEF Active
    <3>5. Serving!Switch
      BY <2>3, <3>1, <3>4 DEF Serving!Switch, Active, Using, UsedBy
    <3> QED
      BY <3>5 DEF Serving!Next
  <2>5. CASE DrainSwap
    <3>1. Active' = Missing
      BY <2>5 DEF DrainSwap, Active
    <3>2. Serving!Stop
      BY <2>3, <3>1 DEF Serving!Stop, Active, Using, UsedBy
    <3> QED
      BY <3>2 DEF Serving!Next
  <2> QED
    BY <1>3, <2>4, <2>5, CurrentMoves
<1>4. ASSUME NEW r \in Requests, Arrive(r) \/ Lookup(r) \/ Count(r) \/ Upgrade(r) \/ Finish(r)
      PROVE  Goal
  <2>1. req \in [Requests -> Request]
    BY DEF OInv, IInv, TypeOK
  <2>2. \A q \in Requests : q # r => req'[q] = req[q]
    BY <1>4, <2>1 DEF Arrive, Lookup, Count, Upgrade, Finish
  <2>3. Active' = Active
    <3>1. current' = current
      BY <1>4 DEF Arrive, Lookup, Count, Upgrade, Finish
    <3> QED
      BY <3>1, ActiveKept
  <2>4. UsedBy(r)' = UsedBy(r) => Goal
    BY <1>1, <2>2, <2>3, UsingOfOne
  <2>5. Using' = [Using EXCEPT ![r] = UsedBy(r)']
    BY <2>2, UsingOfOne
  <2>6. CASE Arrive(r)
    <3>1. req[r].at = "idle" /\ req'[r].at = "arrived"
      BY <2>1, <2>6 DEF Arrive, Out
    <3> QED
      BY <2>4, <3>1 DEF UsedBy
  <2>7. CASE Upgrade(r)
    <3>1. req'[r].at = req[r].at /\ req'[r].gen = req[r].gen
      BY <2>1, <2>7 DEF Upgrade, Request
    <3> QED
      BY <2>4, <3>1, UsedByKept
  <2>8. CASE Lookup(r)
    <3>1. req[r].at = "arrived" /\ req'[r].at = "locked" /\ req'[r].gen = current
      BY <2>1, <2>8 DEF Lookup, Request
    <3>2. UsedBy(r) = Missing
      BY <3>1 DEF UsedBy
    <3>3. UsedBy(r)' = Active
      <4>1. gens' = gens /\ current' = current
        BY <2>8 DEF Lookup
      <4> QED
        BY <3>1, <4>1 DEF UsedBy, Active
    <3>4. CASE current = 0
      BY <2>4, <3>2, <3>3, <3>4 DEF Active
    <3>5. CASE current # 0
      <4>1. Active # Missing
        BY <3>5, CurrentPublished DEF Active
      <4>2. Using[r] = Missing /\ Using' = [Using EXCEPT ![r] = Active]
        BY <2>5, <3>2, <3>3 DEF Using
      <4>3. Serving!Admit(r)
        BY <2>3, <4>1, <4>2 DEF Serving!Admit, Active, Using, UsedBy
      <4> QED
        BY <4>3 DEF Serving!Next
    <3> QED
      BY <3>4, <3>5
  <2>9. CASE Count(r)
    <3>1. CASE req[r].gen = 0
      <4>1. UsedBy(r) = Missing /\ req'[r].at = "idle"
        BY <2>1, <2>9, <3>1 DEF Count, Out, UsedBy
      <4> QED
        BY <2>4, <4>1 DEF UsedBy
    <3>2. CASE req[r].gen # 0
      <4>1. req[r].at = "locked" /\ req'[r].at = "serving" /\ req'[r].gen = req[r].gen
        BY <2>1, <2>9, <3>2 DEF Count, Request
      <4> QED
        BY <2>4, <4>1, UsedByKept
    <3> QED
      BY <3>1, <3>2
  <2>10. CASE Finish(r)
    <3>1. req[r].at = "serving" /\ req'[r].at = "idle"
      BY <2>1, <2>10 DEF Finish, Out
    <3>2. UsedBy(r) # Missing
      BY <3>1, GensTypes, ConstantTypes DEF UsedBy, OInv, IInv, Placed, Deployed
    <3>3. UsedBy(r)' = Missing
      BY <3>1 DEF UsedBy
    <3>4. Using[r] # Missing /\ Using' = [Using EXCEPT ![r] = Missing]
      BY <2>5, <3>2, <3>3 DEF Using
    <3>5. Serving!Finish(r)
      BY <2>3, <3>4 DEF Serving!Finish, Active, Using, UsedBy
    <3> QED
      BY <3>5 DEF Serving!Next
  <2> QED
    BY <1>4, <2>6, <2>7, <2>8, <2>9, <2>10
<1> QED
  BY <1>2, <1>3, <1>4, RequestMoves

(* A gateway whose reloads end before it does behaves, for its clients, as *)
(* if configurations were switched atomically.                             *)
THEOREM SwitchesAtomically ==
  ASSUME Orderly
  PROVE  Spec => KeepsServingContract
<1>1. OInv /\ [Next]_vars => [Serving!Next]_(Serving!vars)
  BY ServingStep
<1> QED
  BY <1>1, ServingInit, OrderlyInvariance, PTL DEF Spec, KeepsServingContract, Serving!Spec
=============================================================================
