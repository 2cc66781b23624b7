---------------------------- MODULE TargetHealth ----------------------------
(***************************************************************************)
(* One upstream target of a pool (internal/pool/targetstate.go): its       *)
(* health state, its circuit breaker and its in-flight count, driven by    *)
(* concurrent proxy attempts, by the active health checker and by time.    *)
(*                                                                         *)
(* Every method of targetState runs under one mutex, so each is one step.  *)
(* The instant a method is handed is read BEFORE the mutex is taken        *)
(* (poolimpl.go Done, the pickers' Pick), so a step may use any instant    *)
(* at most MaxLag old.                                                     *)
(***************************************************************************)
EXTENDS Integers, FiniteSets

CONSTANTS
  Attempts,            \* proxy attempts that may be under way at once
  Weight,              \* configured weight; 0 takes the target out of rotation
  HealthyThreshold,    \* probe successes that end probing
  UnhealthyThreshold,  \* consecutive active failures that mark it down
  PassiveFailures,     \* failures inside PassiveWindow that eject; 0 or less disables
  PassiveWindow,
  EjectionTime,
  BreakerFailures,     \* failures inside BreakerWindow that open; 0 disables
  BreakerWindow,
  Cooldown,
  HalfOpenProbes,      \* trials admitted while half-open
  MidStreamAborts,     \* may a response be cut off half way through?
  FailUntil,           \* last instant at which the target misbehaves
  MaxLag,              \* bound: age of the instant a locked step works with
  MaxTime              \* bound: horizon of the clock

Times == 0 .. MaxTime

(* The values configuration loading can produce (config/validate.go, which *)
(* asks nothing of passive.failures).                                      *)
ASSUME ConstantsAssumption ==
  /\ IsFiniteSet(Attempts)
  /\ PassiveFailures \in Int
  /\ {Weight, PassiveWindow, EjectionTime, BreakerFailures,
      BreakerWindow, Cooldown, FailUntil, MaxLag, MaxTime} \subseteq Nat
  /\ {HealthyThreshold, UnhealthyThreshold, HalfOpenProbes} \subseteq Nat \ {0}
  /\ MidStreamAborts \in BOOLEAN

VARIABLES
  now,      \* the wall clock
  st,       \* the targetState record
  attempt,  \* attempt[a]: "idle", "live", or "lost" (ended without Done)
  prober,   \* the health checker: "none" (not configured), "running",
            \* "cancelled" or "off"
  trials    \* history: attempts admitted in the present half-open period

vars == <<now, st, attempt, prober, trials>>

-----------------------------------------------------------------------------
(* Failure windows: how many failures were recorded at each instant. *)

NoFails == [x \in Times |-> 0]

Recorded(fails, t) == [fails EXCEPT ![t] = @ + 1]

(* Window 0 empties the list, the failure just recorded included. *)
Pruned(fails, t, window) ==
  [x \in Times |-> IF window > 0 /\ x > t - window THEN fails[x] ELSE 0]

(* Each failure is told apart by its instant and its number among those of *)
(* that instant.                                                           *)
FailuresAt(fails, x) == {x} \X (1 .. fails[x])

Count(fails) == Cardinality(UNION {FailuresAt(fails, x) : x \in Times})

AtLeastOne(d) == IF d < 1 THEN 1 ELSE d

-----------------------------------------------------------------------------
(* The methods of targetState, from record to record. *)

Target ==
  [state : {"healthy", "probing", "ejected", "down"},
   cause : {"none", "ejection", "recovery"},
   ejectedUntil : Nat, probeStreak : Nat, inflight : Nat,
   passiveFails : [Times -> Nat],
   cb : {"closed", "open", "halfOpen"},
   cbUntil : Nat, breakerFails : [Times -> Nat], halfLive : Nat,
   activeFailStreak : Nat]

NewTarget ==
  [state |-> "healthy", cause |-> "none", ejectedUntil |-> 0,
   probeStreak |-> 0, inflight |-> 0, passiveFails |-> NoFails,
   cb |-> "closed", cbUntil |-> 0, breakerFails |-> NoFails, halfLive |-> 0,
   activeFailStreak |-> 0]

Eject(s, t) ==
  [s EXCEPT !.state = "ejected", !.cause = "none", !.probeStreak = 0,
            !.ejectedUntil = t + AtLeastOne(EjectionTime)]

Promote(s) == [s EXCEPT !.state = "healthy", !.cause = "none", !.probeStreak = 0]

Demote(s) == [s EXCEPT !.state = "down", !.cause = "none", !.probeStreak = 0]

(* Mutant: reopening forgets to zero the half-open budget. *)
OpenBreaker_KeepsBudget(s, t) ==
  [s EXCEPT !.cb = "open", !.cbUntil = t + AtLeastOne(Cooldown)]

OpenBreaker(s, t) ==
  [s EXCEPT !.cb = "open", !.halfLive = 0, !.cbUntil = t + AtLeastOne(Cooldown)]

CloseBreaker(s) ==
  [s EXCEPT !.cb = "closed", !.halfLive = 0, !.breakerFails = NoFails]

(* Mutant: an ejected target re-enters without looking at its deadline. *)
Reenter_AtOnce(s, t) ==
  IF s.state = "ejected"
  THEN [s EXCEPT !.state = "probing", !.cause = "ejection", !.probeStreak = 0]
  ELSE s

(* Lazy, time-driven transitions, applied whenever anybody looks. *)
Reenter(s, t) ==
  IF s.state = "ejected" /\ t >= s.ejectedUntil
  THEN [s EXCEPT !.state = "probing", !.cause = "ejection", !.probeStreak = 0]
  ELSE s

HalfOpen(s, t) ==
  IF s.cb = "open" /\ t >= s.cbUntil THEN [s EXCEPT !.cb = "halfOpen"] ELSE s

Normalize(s, t) == HalfOpen(Reenter(s, t), t)

(* Mutant: a probing target takes attempts without limit. *)
Admissible_ProbingOpen(s) ==
  /\ Weight > 0
  /\ s.state \notin {"down", "ejected"}
  /\ s.cb # "open"
  /\ ~(s.cb = "halfOpen" /\ s.halfLive >= HalfOpenProbes)

Admissible(s) ==
  /\ Weight > 0
  /\ s.state \notin {"down", "ejected"}
  /\ s.cb # "open"
  /\ ~(s.state = "probing" /\ s.inflight >= 1)
  /\ ~(s.cb = "halfOpen" /\ s.halfLive >= HalfOpenProbes)

Begun(s) ==
  [s EXCEPT !.inflight = @ + 1,
            !.halfLive = IF s.cb = "halfOpen" THEN @ + 1 ELSE @]

Released(s) == [s EXCEPT !.inflight = IF @ > 0 THEN @ - 1 ELSE 0]

(* Mutants: the budget is kept; the slot is kept. *)
Cancelled_KeepsBudget(s) == Released(s)

Cancelled_KeepsSlot(s) ==
  [s EXCEPT !.halfLive = IF s.cb = "halfOpen" /\ @ > 0 THEN @ - 1 ELSE @]

(* A cancelled attempt gives back its budget and says nothing else. *)
Cancelled(s) ==
  [Released(s) EXCEPT !.halfLive = IF s.cb = "halfOpen" /\ @ > 0 THEN @ - 1 ELSE @]

PassiveFailure(s, t) ==
  LET fails == Pruned(Recorded(s.passiveFails, t), t, PassiveWindow)
      full == PassiveFailures > 0 /\ Count(fails) >= PassiveFailures
      w == [s EXCEPT !.passiveFails = IF full THEN NoFails ELSE fails]
  IN  IF full /\ s.state # "down" THEN Eject(w, t) ELSE w

(* Mutant: the breaker trips one failure too late. *)
BreakerFailure_OffByOne(s, t) ==
  LET fails == Pruned(Recorded(s.breakerFails, t), t, BreakerWindow)
  IN  IF BreakerFailures = 0 \/ s.cb # "closed" THEN s
      ELSE IF Count(fails) > BreakerFailures
           THEN OpenBreaker([s EXCEPT !.breakerFails = NoFails], t)
           ELSE [s EXCEPT !.breakerFails = fails]

BreakerFailure(s, t) ==
  LET fails == Pruned(Recorded(s.breakerFails, t), t, BreakerWindow)
  IN  IF BreakerFailures = 0 \/ s.cb # "closed" THEN s
      ELSE IF Count(fails) >= BreakerFailures
           THEN OpenBreaker([s EXCEPT !.breakerFails = NoFails], t)
           ELSE [s EXCEPT !.breakerFails = fails]

ProbeSuccess(s) ==
  IF s.probeStreak + 1 >= HealthyThreshold
  THEN Promote(s) ELSE [s EXCEPT !.probeStreak = @ + 1]

(* ANY completion counts as the verdict of a probing or half-open period, *)
(* whenever the attempt was admitted.                                     *)
ProbeVerdict(s, ok, t) ==
  IF ~(s.state = "probing" /\ s.cause # "none") THEN s
  ELSE IF ok THEN ProbeSuccess(s)
  ELSE IF s.cause = "ejection" THEN Eject(s, t) ELSE Demote(s)

TrialVerdict(s, ok, t) ==
  IF ~(s.cb = "halfOpen" /\ s.halfLive > 0) THEN s
  ELSE IF ok THEN CloseBreaker(s) ELSE OpenBreaker(s, t)

Windows(s, ok, t) ==
  IF ok THEN [s EXCEPT !.passiveFails = NoFails, !.breakerFails = NoFails]
  ELSE BreakerFailure(PassiveFailure(s, t), t)

Completed(s, ok, t) ==
  TrialVerdict(ProbeVerdict(Windows(Released(s), ok, t), ok, t), ok, t)

(* Mutant: one good check lifts a target straight from down to healthy. *)
ActiveSuccess_NoTrial(s) ==
  [s EXCEPT !.activeFailStreak = 0, !.state = IF @ = "down" THEN "healthy" ELSE @]

(* The failure streak is only compared with UnhealthyThreshold, where it  *)
(* saturates.                                                             *)
ActiveSuccess(s) ==
  LET z == [s EXCEPT !.activeFailStreak = 0]
  IN  CASE s.state = "down" ->
             [z EXCEPT !.state = "probing", !.cause = "recovery", !.probeStreak = 1]
        [] s.state = "probing" -> ProbeSuccess(z)
        [] s.state = "ejected" -> [z EXCEPT !.probeStreak = 0]
        [] OTHER -> z

ActiveFailure(s) ==
  LET z == [s EXCEPT !.activeFailStreak =
                       IF @ < UnhealthyThreshold THEN @ + 1 ELSE @]
      tripped == z.activeFailStreak >= UnhealthyThreshold
  IN  IF \/ s.state = "healthy" /\ tripped
         \/ s.state = "probing" /\ (s.cause = "recovery" \/ tripped)
      THEN Demote(z) ELSE z

ActiveResult(s, ok) == IF ok THEN ActiveSuccess(s) ELSE ActiveFailure(s)

-----------------------------------------------------------------------------
Live == {a \in Attempts : attempt[a] = "live"}
Outstanding == {a \in Attempts : attempt[a] # "idle"}

SampledTimes == {t \in Times : t <= now /\ now - t <= MaxLag}

MayFail == now <= FailUntil

(* History: a half-open period ends when the circuit moves on. *)
Trials(s, s1, extra) ==
  IF s1.cb = "halfOpen" THEN (IF s.cb = "halfOpen" THEN trials ELSE {}) \cup extra
  ELSE {}

Init ==
  /\ now = 0
  /\ st = NewTarget
  /\ attempt = [a \in Attempts |-> "idle"]
  /\ prober \in {"none", "running"}
  /\ trials = {}

(* A picker found the target and reserved a slot on it. *)
Begin(a, t) ==
  LET s == Normalize(st, t)
  IN  /\ attempt[a] = "idle"
      /\ Admissible(s)
      /\ st' = Begun(s)
      /\ attempt' = [attempt EXCEPT ![a] = "live"]
      /\ trials' = Trials(st, s, {a})
      /\ UNCHANGED <<now, prober>>

(* A refused begin, a picker's availability test, Status and Healthy:     *)
(* all they change is what the clock made due.                            *)
Look(t) ==
  LET s == Normalize(st, t)
  IN  /\ s # st
      /\ st' = s
      /\ trials' = Trials(st, s, {})
      /\ UNCHANGED <<now, attempt, prober>>

(* Done with an outcome that counts. *)
Complete(a, ok, t) ==
  LET s == Completed(st, ok, t)
  IN  /\ attempt[a] = "live"
      /\ ok \/ MayFail
      /\ st' = s
      /\ attempt' = [attempt EXCEPT ![a] = "idle"]
      /\ trials' = Trials(st, s, {}) \ {a}
      /\ UNCHANGED <<now, prober>>

(* Done with ErrCanceled. *)
Cancel(a) ==
  /\ attempt[a] = "live"
  /\ MayFail
  /\ st' = Cancelled(st)
  /\ attempt' = [attempt EXCEPT ![a] = "idle"]
  /\ trials' = trials \ {a}
  /\ UNCHANGED <<now, prober>>

(* The reverse proxy panics with ErrAbortHandler when a response breaks   *)
(* off after its header was sent; the panic passes by the call of Done.   *)
Abort(a) ==
  /\ MidStreamAborts
  /\ attempt[a] = "live"
  /\ attempt' = [attempt EXCEPT ![a] = "lost"]
  /\ UNCHANGED <<now, st, prober, trials>>

ProbeResult(ok) ==
  /\ prober = "running"
  /\ ok \/ MayFail
  /\ st' = ActiveResult(st, ok)
  /\ UNCHANGED <<now, attempt, prober, trials>>

(* The generation is replaced: its context ends, perhaps during a probe,  *)
(* whose result (a failure, unless it had the answer already) still lands.*)
CancelProber ==
  /\ prober = "running"
  /\ prober' = "cancelled"
  /\ UNCHANGED <<now, st, attempt, trials>>

LastProbe ==
  /\ prober = "cancelled"
  /\ prober' = "off"
  /\ st' \in {st, ActiveResult(st, TRUE), ActiveResult(st, FALSE)}
  /\ UNCHANGED <<now, attempt, trials>>

Tick ==
  /\ now < MaxTime
  /\ now' = now + 1
  /\ UNCHANGED <<st, attempt, prober, trials>>

Next ==
  \/ \E t \in SampledTimes :
       \/ \E a \in Attempts : Begin(a, t)
       \/ Look(t)
       \/ \E a \in Attempts, ok \in BOOLEAN : Complete(a, ok, t)
  \/ \E a \in Attempts : Cancel(a) \/ Abort(a)
  \/ \E ok \in BOOLEAN : ProbeResult(ok)
  \/ CancelProber
  \/ LastProbe
  \/ Tick

Spec == Init /\ [][Next]_vars
-----------------------------------------------------------------------------
(* Fairness: the clock runs, clients keep coming, an attempt that was      *)
(* picked ends (connect and read timeouts bound it), a running checker     *)
(* probes on every tick of its ticker, and a cancelled probe returns.      *)
Fairness ==
  /\ WF_vars(Tick)
  /\ WF_vars(\E t \in SampledTimes, a \in Attempts : Begin(a, t))
  /\ \A a \in Attempts :
       WF_vars(\E ok \in BOOLEAN, t \in SampledTimes : Complete(a, ok, t))
  /\ WF_vars(\E ok \in BOOLEAN : ProbeResult(ok))
  /\ WF_vars(LastProbe)

FairSpec == Spec /\ Fairness

-----------------------------------------------------------------------------
(* Every variable keeps to its type; the record is what Status reports.    *)
TypeOK ==
  /\ now \in Times
  /\ st \in Target
  /\ attempt \in [Attempts -> {"idle", "live", "lost"}]
  /\ prober \in {"none", "running", "cancelled", "off"}
  /\ trials \subseteq Attempts

(* The fields of the record agree: a cause is recorded exactly while       *)
(* probing, a probe streak only exists then, budget is held only in        *)
(* half-open and never beyond what is in flight, and an open or half-open  *)
(* breaker has an empty failure window, so that it starts afresh.          *)
Sound(s) ==
  /\ s.state = "probing" <=> s.cause # "none"
  /\ s.state # "probing" => s.probeStreak = 0
  /\ s.halfLive > 0 => s.cb = "halfOpen"
  /\ s.halfLive <= HalfOpenProbes
  /\ s.halfLive <= s.inflight
  /\ s.cb # "closed" => s.breakerFails = NoFails

(* The record is sound whatever the order of picks, results and checks.    *)
Consistent == Sound(st)

(* The in-flight counter, which the pickers balance on and which gates a   *)
(* probing target, is the number of attempts begun and not yet reported.   *)
InflightExact == st.inflight = Cardinality(Outstanding)

(* A failure window that has reached its threshold has been acted on: no   *)
(* target stays in service on a full window (ejectIfThresholdLocked,       *)
(* recordBreakerFailureLocked).                                            *)
NoMissedTrip ==
  /\ PassiveFailures > 0 => Count(st.passiveFails) < PassiveFailures
  /\ BreakerFailures > 0 => Count(st.breakerFails) < BreakerFailures

(* Without the active checker nothing could lift a target out of "down":   *)
(* passive health alone never puts it there.                               *)
DownNeedsChecker == prober = "none" => st.state # "down"

(* A target nobody is using, whose deadlines have passed and which is not  *)
(* marked down can be picked: no count left behind by any sequence of      *)
(* calls keeps it out (begin's two concurrency gates).                     *)
NeverWedged ==
  (/\ Outstanding = {}
   /\ Weight > 0
   /\ st.state # "down"
   /\ st.state = "ejected" => now >= st.ejectedUntil
   /\ st.cb = "open" => now >= st.cbUntil)
  => Admissible(Normalize(st, now))

(* Every unit of half-open budget that is taken is held by an attempt that *)
(* will give it back: "returning any half-open probe budget so it cannot   *)
(* wedge" (targetstate.go:207).                                            *)
BudgetBacked == st.halfLive <= Cardinality(Live)

(* At most half_open_probes trials run at once while the breaker is        *)
(* half-open ("Trial requests admitted while half-open", README.md:233;    *)
(* "extra half-open probe allowed beyond limit", poolimpl_test.go:781).    *)
TrialsWithinBudget == Cardinality(trials) <= HalfOpenProbes

(* A step admits attempt a. *)
Admits(a) == attempt[a] = "idle" /\ attempt'[a] = "live"

(* A target that is probing its way back is given one attempt at a time:   *)
(* none is admitted beside another, not even beside one admitted before    *)
(* the ejection.                                                           *)
ProbeAlone ==
  [][\A a \in Attempts :
       Admits(a) /\ st'.state = "probing" => Outstanding' = {a}]_vars

(* Nothing reaches a target that is down, or before its ejection or its    *)
(* cooldown has really run out, however old the instant the picker used.   *)
HeldOut ==
  [][\A a \in Attempts : Admits(a) =>
       /\ st.state # "down"
       /\ st.state = "ejected" => now >= st.ejectedUntil
       /\ st.cb = "open" => now >= st.cbUntil]_vars

InService == st.state = "healthy" /\ st.cb = "closed"

(* Once the target behaves, it returns to full service and stays there,    *)
(* unless it was down when its checker was stopped.                        *)
Recovers == <>[](InService \/ (st.state = "down" /\ prober = "off"))

-----------------------------------------------------------------------------
(* The record keeps the contract the gateway relies on. *)
Contract == INSTANCE TargetContract WITH
  clock <- now, load <- Cardinality(Outstanding),
  health <- st.state, ejectedUntil <- st.ejectedUntil,
  circuit <- st.cb, reopenAt <- st.cbUntil

(* Every step of the record is a step of the contract: no verdict skips    *)
(* the trial period, moves a deadline it should not, or lets load in early.*)
KeepsContract == Contract!Spec
=============================================================================
