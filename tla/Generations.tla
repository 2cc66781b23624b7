---------------------------- MODULE Generations ----------------------------
(***************************************************************************)
(* Hot reload and shutdown (internal/runtime/supervisor.go, the skeleton   *)
(* of build.go, and the end of cmd/gatewright/run.go): immutable           *)
(* configuration generations, the references requests hold on them, the    *)
(* file watcher, reloads through the admin API, and the final drain.       *)
(*                                                                         *)
(* Two locks: reloadMu serialises applyConfig (the record `reload` is its  *)
(* holder), genMu separates the acquire path from the two swaps.  All      *)
(* grace periods are the same 30 seconds, so their timers fire in the      *)
(* order in which they were started.                                       *)
(***************************************************************************)
EXTENDS Integers, FiniteSets, Sequences, SequencesExt

CONSTANTS
  Requests,         \* requests that may be under way at once
  Configs,          \* contents the configuration file may have
  Loadable,         \* the contents config.Load accepts
  Buildable,        \* the contents every component can be built from
  StorePath,        \* StorePath[c]: store.path when c has a shared limiter
  NoPath,           \* the value of StorePath[c] otherwise
  Missing,          \* stands for the contents of a file that is not there
  LateReloads,      \* may a reload overlap the shutdown?
  MaxEdits,         \* bound: changes of the file
  MaxAsked          \* bound: reloads asked for through the admin API

ASSUME ConstantsAssumption ==
  /\ Loadable \subseteq Configs /\ Buildable \subseteq Loadable
  /\ Missing \notin Configs
  /\ IsFiniteSet(Requests)
  /\ LateReloads \in BOOLEAN
  /\ {MaxEdits, MaxAsked} \subseteq Nat

(* Every change is noticed at most once, so no reload lacks a number. *)
Gens == 1 .. 1 + MaxEdits + MaxAsked
ShutdownTimer == 0

VARIABLES
  file,     \* [cfg, stamp]: contents and modification time
  watcher,  \* the polling goroutine: the stamp it acted on, and (history) the
            \* one it found at first
  reload,   \* the applyConfig that holds reloadMu
  gens,     \* gens[g]: one Runtime
  current,  \* the published generation; 0 for nil
  req,      \* req[r]: where a request is
  timers,   \* grace periods running, oldest first
  expired,  \* grace periods that ran out
  store,    \* [path, open]: the supervisor's shared store, once opened
  main,     \* run.go: "running", "stopping", "swap", "cancel", "draining", "exited"
  asked,    \* number of reloads asked for
  tried     \* history: stamp of the last candidate applied or rejected

vars == <<file, watcher, reload, gens, current, req, timers, expired, store,
          main, asked, tried>>

Watcher == [phase : {"starting", "idle", "due", "applying"}, seen : Nat, found : Nat]

Reload ==
  [step : {"idle", "load", "store", "pools", "chains", "swap"},
   by : {"nobody", "watch", "admin"},
   cfg : Configs \cup {Missing}, stamp : Nat, gen : Gens \cup {0}]

Runtime ==
  [phase : {"unused", "building", "discarded", "serving", "retired", "draining",
            "last", "closed"},
   cfg : Configs \cup {Missing}, refs : Nat, ctx : BOOLEAN]

Request ==
  [at : {"idle", "arrived", "locked", "serving"}, gen : Gens \cup {0}, upgraded : BOOLEAN]

Idle == [step |-> "idle", by |-> "nobody", cfg |-> Missing, stamp |-> 0, gen |-> 0]

Unused == [phase |-> "unused", cfg |-> Missing, refs |-> 0, ctx |-> FALSE]

Out == [at |-> "idle", gen |-> 0, upgraded |-> FALSE]

Fresh(g) == g \in Gens /\ \A h \in Gens : h >= g <=> gens[h].phase = "unused"

(* genMu: readers hold it between the load and the increment; a writer     *)
(* that waits keeps new readers out (sync.RWMutex).                        *)
Readers == {r \in Requests : req[r].at = "locked"}
WriterWaits == reload.step = "swap" \/ main = "swap"

Holders(g) == {r \in Requests : req[r].at = "serving" /\ req[r].gen = g}

Up == main # "exited"

MayReload == Up /\ (main = "running" \/ LateReloads)

Init ==
  /\ \E c \in Buildable :
       /\ file = [cfg |-> c, stamp |-> 0]
       /\ gens = [g \in Gens |->
                    IF g = 1 THEN [phase |-> "serving", cfg |-> c, refs |-> 0, ctx |-> TRUE]
                    ELSE Unused]
       /\ store = [path |-> StorePath[c], open |-> StorePath[c] # NoPath]
  /\ watcher = [phase |-> "starting", seen |-> 0, found |-> 0]
  /\ reload = Idle
  /\ current = 1
  /\ req = [r \in Requests |-> Out]
  /\ timers = <<>> /\ expired = {}
  /\ main = "running"
  /\ asked = 0 /\ tried = 0

-----------------------------------------------------------------------------
(* The operator edits, removes or restores the file. *)
Edit(c) ==
  /\ main = "running"
  /\ file.stamp < MaxEdits
  /\ file' = [cfg |-> c, stamp |-> file.stamp + 1]
  /\ UNCHANGED <<watcher, reload, gens, current, req, timers, expired, store,
                 main, asked, tried>>

(* Watch takes its first modification time when its goroutine first runs. *)
WatchStarts ==
  /\ Up /\ watcher.phase = "starting"
  /\ watcher' = [phase |-> "idle", seen |-> file.stamp, found |-> file.stamp]
  /\ UNCHANGED <<file, reload, gens, current, req, timers, expired, store,
                 main, asked, tried>>

WatchTick ==
  /\ MayReload /\ watcher.phase = "idle"
  /\ file.cfg # Missing
  /\ file.stamp # watcher.seen
  /\ watcher' = [watcher EXCEPT !.phase = "due", !.seen = file.stamp]
  /\ UNCHANGED <<file, reload, gens, current, req, timers, expired, store,
                 main, asked, tried>>

-----------------------------------------------------------------------------
(* applyConfig, from taking reloadMu to releasing it. *)

LockWatch ==
  /\ MayReload /\ watcher.phase = "due" /\ reload = Idle
  /\ watcher' = [watcher EXCEPT !.phase = "applying"]
  /\ reload' = [Idle EXCEPT !.step = "load", !.by = "watch"]
  /\ UNCHANGED <<file, gens, current, req, timers, expired, store, main, asked, tried>>

LockAdmin ==
  /\ MayReload /\ asked < MaxAsked /\ reload = Idle
  /\ asked' = asked + 1
  /\ reload' = [Idle EXCEPT !.step = "load", !.by = "admin"]
  /\ UNCHANGED <<file, watcher, gens, current, req, timers, expired, store, main, tried>>

(* Mutant: the watcher takes the file as seen when it is done, not when it *)
(* noticed the change.                                                     *)
Leave_SeenAtEnd(stamp) ==
  /\ reload' = Idle
  /\ tried' = stamp
  /\ watcher' = IF reload.by = "watch"
                THEN [watcher EXCEPT !.phase = "idle", !.seen = file.stamp] ELSE watcher

(* The candidate with this stamp is disposed of and reloadMu released. *)
Leave(stamp) ==
  /\ reload' = Idle
  /\ tried' = stamp
  /\ watcher' = IF reload.by = "watch" THEN [watcher EXCEPT !.phase = "idle"] ELSE watcher

Load ==
  /\ Up /\ reload.step = "load"
  /\ IF file.cfg \in Loadable
     THEN /\ reload' = [reload EXCEPT !.step = "store", !.cfg = file.cfg, !.stamp = file.stamp]
          /\ UNCHANGED <<watcher, tried>>
     ELSE Leave(file.stamp)
  /\ UNCHANGED <<file, gens, current, req, timers, expired, store, main, asked>>

(* openStore: the first path ever opened is the only one accepted, and     *)
(* opening it may fail (another process holds the file lock).              *)
OpenStore ==
  LET path == StorePath[reload.cfg]
  IN  /\ Up /\ reload.step = "store"
      /\ \/ /\ path = NoPath \/ store.path = path
            /\ reload' = [reload EXCEPT !.step = "pools"]
            /\ UNCHANGED <<store, watcher, tried>>
         \/ /\ path # NoPath /\ store.path = NoPath
            /\ reload' = [reload EXCEPT !.step = "pools"]
            /\ store' = [path |-> path, open |-> TRUE]
            /\ UNCHANGED <<watcher, tried>>
         \/ /\ path # NoPath /\ store.path # path
            /\ Leave(reload.stamp)
            /\ UNCHANGED store
      /\ UNCHANGED <<file, gens, current, req, timers, expired, main, asked>>

(* Pools are created and their health checkers started. *)
StartPools ==
  /\ Up /\ reload.step = "pools"
  /\ \E g \in Gens :
       /\ Fresh(g)
       /\ gens' = [gens EXCEPT ![g] = [phase |-> "building", cfg |-> reload.cfg,
                                       refs |-> 0, ctx |-> TRUE]]
       /\ reload' = [reload EXCEPT !.step = "chains", !.gen = g]
  /\ UNCHANGED <<file, watcher, current, req, timers, expired, store, main, asked, tried>>

(* Mutant: a failing build is logged and published all the same. *)
BuildChains_Ignores ==
  /\ Up /\ reload.step = "chains"
  /\ reload' = [reload EXCEPT !.step = "swap"]
  /\ UNCHANGED <<file, watcher, gens, current, req, timers, expired, store,
                 main, asked, tried>>

(* Mutant: a failing build forgets to cancel what it started. *)
BuildChains_NoCancel ==
  /\ Up /\ reload.step = "chains"
  /\ IF reload.cfg \in Buildable
     THEN /\ reload' = [reload EXCEPT !.step = "swap"]
          /\ UNCHANGED <<watcher, tried, gens>>
     ELSE /\ Leave(reload.stamp)
          /\ gens' = [gens EXCEPT ![reload.gen].phase = "discarded"]
  /\ UNCHANGED <<file, current, req, timers, expired, store, main, asked>>

(* Router, limiters and route chains; any failure cancels the candidate. *)
BuildChains ==
  /\ Up /\ reload.step = "chains"
  /\ IF reload.cfg \in Buildable
     THEN /\ reload' = [reload EXCEPT !.step = "swap"]
          /\ UNCHANGED <<watcher, tried, gens>>
     ELSE /\ Leave(reload.stamp)
          /\ gens' = [gens EXCEPT ![reload.gen].phase = "discarded",
                                  ![reload.gen].ctx = FALSE]
  /\ UNCHANGED <<file, current, req, timers, expired, store, main, asked>>

(* The grace of the generation taken out runs from the swap: the goroutine *)
(* that waits for it starts at once.                                       *)
StartGrace == IF current = 0 THEN timers ELSE Append(timers, current)

(* Mutant: the swap does not wait for the acquire path. *)
Swap_Unlocked ==
  /\ Up /\ reload.step = "swap"
  /\ gens' = [g \in Gens |->
                IF g = reload.gen THEN [gens[g] EXCEPT !.phase = "serving"]
                ELSE IF g = current THEN [gens[g] EXCEPT !.phase = "retired"]
                ELSE gens[g]]
  /\ current' = reload.gen
  /\ timers' = StartGrace
  /\ Leave(reload.stamp)
  /\ UNCHANGED <<file, req, expired, store, main, asked>>

Swap ==
  /\ Up /\ reload.step = "swap"
  /\ Readers = {}
  /\ gens' = [g \in Gens |->
                IF g = reload.gen THEN [gens[g] EXCEPT !.phase = "serving"]
                ELSE IF g = current THEN [gens[g] EXCEPT !.phase = "retired"]
                ELSE gens[g]]
  /\ current' = reload.gen
  /\ timers' = StartGrace
  /\ Leave(reload.stamp)
  /\ UNCHANGED <<file, req, expired, store, main, asked>>

-----------------------------------------------------------------------------
(* shutdownAsync: the goroutine that retires generation g. *)
RetireCancel(g) ==
  /\ Up /\ gens[g].phase = "retired"
  /\ gens' = [gens EXCEPT ![g].phase = "draining", ![g].ctx = FALSE]
  /\ UNCHANGED <<file, watcher, reload, current, req, timers, expired, store, main, asked, tried>>

(* Mutant: the wait has no deadline. *)
Drained_NoDeadline(g) == gens[g].refs = 0

Drained(g) == gens[g].refs = 0 \/ g \in expired

RetireClose(g) ==
  /\ Up /\ gens[g].phase = "draining"
  /\ Drained(g)
  /\ gens' = [gens EXCEPT ![g].phase = "closed"]
  /\ UNCHANGED <<file, watcher, reload, current, req, timers, expired, store,
                 main, asked, tried>>

Expire ==
  /\ Up /\ timers # <<>>
  /\ expired' = expired \cup {Head(timers)}
  /\ timers' = Tail(timers)
  /\ UNCHANGED <<file, watcher, reload, gens, current, req, store, main, asked, tried>>

-----------------------------------------------------------------------------
(* Handler and serve. *)
Arrive(r) ==
  /\ main = "running"
  /\ req[r] = Out
  /\ req' = [req EXCEPT ![r].at = "arrived"]
  /\ UNCHANGED <<file, watcher, reload, gens, current, timers, expired, store,
                 main, asked, tried>>

Lookup(r) ==
  /\ Up /\ req[r].at = "arrived"
  /\ ~WriterWaits
  /\ req' = [req EXCEPT ![r].at = "locked", ![r].gen = current]
  /\ UNCHANGED <<file, watcher, reload, gens, current, timers, expired, store,
                 main, asked, tried>>

(* The reference is counted, or there is nothing to serve it (503). *)
Count(r) ==
  /\ Up /\ req[r].at = "locked"
  /\ IF req[r].gen = 0
     THEN req' = [req EXCEPT ![r] = Out] /\ UNCHANGED gens
     ELSE /\ req' = [req EXCEPT ![r].at = "serving"]
          /\ gens' = [gens EXCEPT ![req[r].gen].refs = @ + 1]
  /\ UNCHANGED <<file, watcher, reload, current, timers, expired, store, main, asked, tried>>

Upgrade(r) ==
  /\ Up /\ req[r].at = "serving" /\ ~req[r].upgraded
  /\ req' = [req EXCEPT ![r].upgraded = TRUE]
  /\ UNCHANGED <<file, watcher, reload, gens, current, timers, expired, store,
                 main, asked, tried>>

Finish(r) ==
  /\ Up /\ req[r].at = "serving"
  /\ req' = [req EXCEPT ![r] = Out]
  /\ gens' = [gens EXCEPT ![req[r].gen].refs = @ - 1]
  /\ UNCHANGED <<file, watcher, reload, current, timers, expired, store, main, asked, tried>>

-----------------------------------------------------------------------------
(* run.go after the signal: Shutdown of the servers, then Drain. *)
Signal ==
  /\ main = "running"
  /\ LateReloads \/ reload = Idle
  /\ main' = "stopping"
  /\ timers' = Append(timers, ShutdownTimer)
  /\ UNCHANGED <<file, watcher, reload, gens, current, req, expired, store, asked, tried>>

(* http.Server.Shutdown returns when no connection it still owns is busy;  *)
(* it does not know of hijacked ones.                                      *)
ServersStop ==
  /\ main = "stopping"
  /\ \/ \A r \in Requests : req[r].at = "idle" \/ req[r].upgraded
     \/ ShutdownTimer \in expired
  /\ main' = "swap"
  /\ UNCHANGED <<file, watcher, reload, gens, current, req, timers, expired, store, asked, tried>>

(* Mutant: the last swap does not wait for the acquire path. *)
DrainSwap_Unlocked ==
  /\ main = "swap"
  /\ current' = 0
  /\ main' = IF current = 0 THEN "exited" ELSE "cancel"
  /\ gens' = [g \in Gens |-> IF g = current THEN [gens[g] EXCEPT !.phase = "last"] ELSE gens[g]]
  /\ timers' = StartGrace
  /\ UNCHANGED <<file, watcher, reload, req, expired, store, asked, tried>>

(* Drain swaps in nil; the generation it takes out is the one whose phase  *)
(* is "last" from here on.                                                 *)
DrainSwap ==
  /\ main = "swap"
  /\ Readers = {}
  /\ current' = 0
  /\ main' = IF current = 0 THEN "exited" ELSE "cancel"
  /\ gens' = [g \in Gens |-> IF g = current THEN [gens[g] EXCEPT !.phase = "last"] ELSE gens[g]]
  /\ timers' = StartGrace
  /\ UNCHANGED <<file, watcher, reload, req, expired, store, asked, tried>>

DrainCancel(g) ==
  /\ main = "cancel"
  /\ gens[g].phase = "last"
  /\ gens' = [gens EXCEPT ![g].ctx = FALSE]
  /\ main' = "draining"
  /\ UNCHANGED <<file, watcher, reload, current, req, timers, expired, store, asked, tried>>

(* Mutant: the drain does not wait. *)
DrainClose_NoWait(g) ==
  /\ main = "draining"
  /\ gens[g].phase = "last"
  /\ gens' = [gens EXCEPT ![g].phase = "closed"]
  /\ store' = [store EXCEPT !.open = FALSE]
  /\ main' = "exited"
  /\ UNCHANGED <<file, watcher, reload, current, req, timers, expired, asked, tried>>

DrainClose(g) ==
  /\ main = "draining"
  /\ gens[g].phase = "last"
  /\ Drained(g)
  /\ gens' = [gens EXCEPT ![g].phase = "closed"]
  /\ store' = [store EXCEPT !.open = FALSE]
  /\ main' = "exited"
  /\ UNCHANGED <<file, watcher, reload, current, req, timers, expired, asked, tried>>

-----------------------------------------------------------------------------
Reloading == Load \/ OpenStore \/ StartPools \/ BuildChains \/ Swap

Next ==
  \/ \E c \in Configs \cup {Missing} : Edit(c)
  \/ WatchStarts \/ WatchTick \/ LockWatch \/ LockAdmin
  \/ Reloading
  \/ \E g \in Gens : RetireCancel(g) \/ RetireClose(g) \/ DrainCancel(g) \/ DrainClose(g)
  \/ Expire
  \/ \E r \in Requests : Arrive(r) \/ Lookup(r) \/ Count(r) \/ Upgrade(r) \/ Finish(r)
  \/ Signal \/ ServersStop \/ DrainSwap

Spec == Init /\ [][Next]_vars

(* Fairness: goroutines that can run do, and timers fire.  The lock of     *)
(* reloadMu is given to a waiting watcher in the end (sync.Mutex starves   *)
(* nobody), and nothing obliges a request to end or a signal to come.      *)
Fairness ==
  /\ WF_vars(WatchStarts) /\ WF_vars(WatchTick) /\ SF_vars(LockWatch)
  /\ WF_vars(Reloading) /\ WF_vars(Expire)
  /\ \A g \in Gens : WF_vars(RetireCancel(g)) /\ WF_vars(RetireClose(g))
  /\ WF_vars(\E g \in Gens : DrainCancel(g) \/ DrainClose(g))
  /\ \A r \in Requests : WF_vars(Count(r))
  /\ WF_vars(ServersStop) /\ WF_vars(DrainSwap)

FairSpec == Spec /\ Fairness

-----------------------------------------------------------------------------
(* Every variable keeps to its type. *)
TypeOK ==
  /\ file \in [cfg : Configs \cup {Missing}, stamp : Nat]
  /\ watcher \in Watcher
  /\ reload \in Reload
  /\ gens \in [Gens -> Runtime]
  /\ current \in Gens \cup {0}
  /\ req \in [Requests -> Request]
  /\ timers \in Seq(Gens \cup {ShutdownTimer})
  /\ expired \subseteq Gens \cup {ShutdownTimer}
  /\ store \in [path : {NoPath} \cup {StorePath[c] : c \in Configs}, open : BOOLEAN]
  /\ main \in {"running", "stopping", "swap", "cancel", "draining", "exited"}
  /\ asked \in Nat /\ tried \in Nat

(* A generation is closed only when nobody holds it and nobody ever will,  *)
(* unless its grace ran out: "a concurrent swap can never strand a request *)
(* on a retired runtime without the retirement wait seeing it"             *)
(* (supervisor.go:80-83).                                                  *)
NoStranding ==
  \A g \in Gens : gens[g].phase = "closed" /\ g \notin expired =>
    \A r \in Requests : req[r].at \in {"locked", "serving"} => req[r].gen # g

(* Background work (health checkers) runs for the generation that serves,  *)
(* for the candidate being built and for one just taken out, never for a   *)
(* rejected candidate or one whose drain has begun.                        *)
NoOrphanWork ==
  \A g \in Gens : gens[g].ctx =>
    \/ g = current
    \/ g = reload.gen
    \/ gens[g].phase \in {"retired", "last"}

(* A request that the gateway still works for: once its connection is      *)
(* upgraded only bytes are copied.                                         *)
WorkedFor(g) == \E r \in Holders(g) : ~req[r].upgraded

(* As long as a request is worked for within its grace, or the gateway     *)
(* accepts requests at all, the shared store its limiters need is open.    *)
StoreServes ==
  \A g \in Gens :
    (/\ g = current \/ (WorkedFor(g) /\ g \notin expired)
     /\ StorePath[gens[g].cfg] # NoPath)
    => store = [path |-> StorePath[gens[g].cfg], open |-> TRUE]

(* The process does not exit under a request that has grace left: "the old *)
(* generation ... drains in-flight requests up to a 30s deadline before    *)
(* closing.  On shutdown (SIGINT/SIGTERM) both listeners drain gracefully  *)
(* with a 30s deadline" (README.md:544).  Only upgraded connections of a   *)
(* generation replaced before the last are cut off.                        *)
ExitAfterGrace ==
  main = "exited" => \A g \in Gens : WorkedFor(g) => g \in expired

(* Nothing is admitted while Drain waits: the generation is swapped out    *)
(* "so no new request can take a reference while the drain waits for the   *)
(* existing ones" (supervisor.go:217-219).                                 *)
NoneJoinsDrain ==
  [][\A r \in Requests :
       main \in {"cancel", "draining"} /\ req[r].at = "locked" => req'[r].at # "serving"]_vars

(* A candidate is refused for its store path only when it changes the one  *)
(* in use: the error "is returned when a reload attempts to change         *)
(* store.path" (errs/errors.go:12).                                        *)
Published(g) == gens[g].phase \notin {"unused", "building", "discarded"}

RefusedOnlyForChange ==
  [][(/\ reload.step = "store" /\ reload' = Idle
      /\ store.path \notin {NoPath, StorePath[reload.cfg]})
     => \E g \in Gens : Published(g) /\ StorePath[gens[g].cfg] = store.path]_vars

(* The newest contents of the file are tried in the end, whatever edits,   *)
(* failures and reloads from elsewhere came in between ("the supervisor    *)
(* watches the config file mtime", README.md:544), unless the file was     *)
(* last changed before the watcher's first look.                           *)
Settles ==
  <>[](\/ main # "running" \/ file.cfg = Missing
       \/ tried = file.stamp \/ watcher.found = file.stamp)

(* Whatever requests do, every generation taken out is closed in the end,  *)
(* and a stop completes (shutdownAsync and Drain give up after the grace). *)
WindsDown ==
  /\ \A g \in Gens :
       gens[g].phase = "retired" ~> gens[g].phase = "closed" \/ main = "exited"
  /\ main = "stopping" ~> main = "exited"

-----------------------------------------------------------------------------
Serving == INSTANCE ServingContract WITH
  Sound <- Buildable, None <- Missing,
  active <- IF current = 0 THEN Missing ELSE gens[current].cfg,
  using <- [r \in Requests |->
              IF req[r].at \in {"locked", "serving"} /\ req[r].gen # 0
              THEN gens[req[r].gen].cfg ELSE Missing]

(* A request sees one configuration, the one in force when it was looked   *)
(* up, and none is put in force once the gateway has stopped.              *)
KeepsServingContract == Serving!Spec
=============================================================================
