------------------------- MODULE TargetHealthProofs -------------------------
(***************************************************************************)
(* Proofs about TargetHealth, for any set of attempts and any thresholds,  *)
(* windows and deadlines.                                                  *)
(*                                                                         *)
(* The argument: each method of targetState maps a sound record to a sound *)
(* one (one lemma per method), and changes the in-flight count exactly as  *)
(* the step it belongs to changes the set of outstanding attempts.         *)
(***************************************************************************)
EXTENDS TargetHealth, FiniteSetTheorems, TLAPS

(* The constants, one by one. *)
LEMMA ConstantTypes ==
  /\ Weight \in Nat /\ PassiveFailures \in Int /\ PassiveWindow \in Nat
  /\ EjectionTime \in Nat /\ BreakerFailures \in Nat /\ BreakerWindow \in Nat
  /\ Cooldown \in Nat /\ MaxLag \in Nat /\ MaxTime \in Nat
  /\ HealthyThreshold \in Nat \ {0} /\ UnhealthyThreshold \in Nat \ {0}
  /\ HalfOpenProbes \in Nat \ {0}
  BY ConstantsAssumption DEF ConstantsAssumption

(* The window operators return windows. *)
LEMMA WindowTypes ==
  ASSUME NEW f \in [Times -> Nat], NEW t \in Times, NEW w \in Nat
  PROVE  /\ NoFails \in [Times -> Nat]
         /\ Recorded(f, t) \in [Times -> Nat]
         /\ Pruned(f, t, w) \in [Times -> Nat]
  BY DEF NoFails, Recorded, Pruned

(* A deadline counted from an instant of the clock is a natural number. *)
LEMMA DeadlineType ==
  ASSUME NEW t \in Times, NEW d \in Nat
  PROVE  AtLeastOne(d) \in Nat /\ t + AtLeastOne(d) \in Nat
  BY ConstantsAssumption DEF AtLeastOne, Times

(* Done gives the in-flight slot back before it settles the half-open     *)
(* budget: in between the budget may exceed what is in flight by one.      *)
Near(s, k) ==
  /\ s.state = "probing" <=> s.cause # "none"
  /\ s.state # "probing" => s.probeStreak = 0
  /\ s.halfLive > 0 => s.cb = "halfOpen"
  /\ s.halfLive <= HalfOpenProbes
  /\ s.halfLive <= s.inflight + k
  /\ s.cb # "closed" => s.breakerFails = NoFails

LEMMA NearIsSound == \A s \in Target : Sound(s) <=> Near(s, 0)
  BY DEF Near, Sound, Target

(* The verdicts keep a record sound and leave the in-flight count alone.   *)
LEMMA EjectSound ==
  ASSUME NEW s \in Target, NEW t \in Times, NEW k \in {0, 1}, Near(s, k)
  PROVE  /\ Eject(s, t) \in Target
         /\ Near(Eject(s, t), k)
         /\ Eject(s, t).inflight = s.inflight
  BY DeadlineType, ConstantTypes DEF Eject, Target, Near

LEMMA PromoteSound ==
  ASSUME NEW s \in Target, NEW k \in {0, 1}, Near(s, k)
  PROVE  /\ Promote(s) \in Target
         /\ Near(Promote(s), k)
         /\ Promote(s).inflight = s.inflight
  BY DEF Promote, Target, Near

LEMMA DemoteSound ==
  ASSUME NEW s \in Target, NEW k \in {0, 1}, Near(s, k)
  PROVE  /\ Demote(s) \in Target
         /\ Near(Demote(s), k)
         /\ Demote(s).inflight = s.inflight
  BY DEF Demote, Target, Near

LEMMA OpenBreakerSound ==
  ASSUME NEW s \in Target, NEW t \in Times, NEW k \in {0, 1}, Near(s, k),
         s.breakerFails = NoFails
  PROVE  /\ OpenBreaker(s, t) \in Target
         /\ Near(OpenBreaker(s, t), 0)
         /\ OpenBreaker(s, t).inflight = s.inflight
<1> DEFINE u == t + AtLeastOne(Cooldown)
<1>1. u \in Nat
  BY DeadlineType, ConstantTypes
<1>2. s.inflight \in Nat
  BY DEF Target
<1>3. OpenBreaker(s, t) = [s EXCEPT !.cb = "open", !.halfLive = 0, !.cbUntil = u]
  BY DEF OpenBreaker, Target
<1> HIDE DEF u
<1>5. OpenBreaker(s, t) \in Target
  BY <1>1, Zenon DEF OpenBreaker, Target, u
<1>4. /\ OpenBreaker(s, t).cb = "open" /\ OpenBreaker(s, t).halfLive = 0
      /\ OpenBreaker(s, t).breakerFails = NoFails
      /\ OpenBreaker(s, t).state = s.state /\ OpenBreaker(s, t).cause = s.cause
      /\ OpenBreaker(s, t).probeStreak = s.probeStreak
      /\ OpenBreaker(s, t).inflight = s.inflight
  BY <1>1, <1>2, <1>3 DEF Target
<1> QED
  BY <1>2, <1>5, <1>4, ConstantTypes DEF Near

LEMMA CloseBreakerSound ==
  ASSUME NEW s \in Target, NEW k \in {0, 1}, Near(s, k)
  PROVE  /\ CloseBreaker(s) \in Target
         /\ Near(CloseBreaker(s), 0)
         /\ CloseBreaker(s).inflight = s.inflight
<1>1. NoFails \in [Times -> Nat] /\ s.inflight \in Nat
  BY DEF NoFails, Target
<1>2. CloseBreaker(s) = [s EXCEPT !.cb = "closed", !.halfLive = 0,
                                  !.breakerFails = NoFails]
  BY DEF CloseBreaker, Target
<1>5. CloseBreaker(s) \in Target
  BY <1>1, Zenon DEF CloseBreaker, Target
<1>4. /\ CloseBreaker(s).cb = "closed" /\ CloseBreaker(s).halfLive = 0
      /\ CloseBreaker(s).breakerFails = NoFails
      /\ CloseBreaker(s).state = s.state /\ CloseBreaker(s).cause = s.cause
      /\ CloseBreaker(s).probeStreak = s.probeStreak
      /\ CloseBreaker(s).inflight = s.inflight
  BY <1>1, <1>2 DEF Target
<1> QED
  BY <1>1, <1>5, <1>4, ConstantTypes DEF Near

LEMMA NormalizeSound ==
  ASSUME NEW s \in Target, NEW t \in Times, Sound(s)
  PROVE  /\ Normalize(s, t) \in Target
         /\ Sound(Normalize(s, t))
         /\ Normalize(s, t).inflight = s.inflight
<1>1. /\ Reenter(s, t) \in Target
      /\ Sound(Reenter(s, t))
      /\ Reenter(s, t).inflight = s.inflight
  BY DEF Reenter, Target, Sound
<1>2. ASSUME NEW r \in Target, Sound(r)
      PROVE  /\ HalfOpen(r, t) \in Target
             /\ Sound(HalfOpen(r, t))
             /\ HalfOpen(r, t).inflight = r.inflight
  BY <1>2 DEF HalfOpen, Target, Sound
<1> QED
  BY <1>1, <1>2 DEF Normalize

LEMMA BegunSound ==
  ASSUME NEW s \in Target, Sound(s), Admissible(s)
  PROVE  /\ Begun(s) \in Target
         /\ Sound(Begun(s))
         /\ Begun(s).inflight = s.inflight + 1
<1> DEFINE h == IF s.cb = "halfOpen" THEN s.halfLive + 1 ELSE s.halfLive
<1>1. s.halfLive \in Nat /\ s.inflight \in Nat
  BY DEF Target
<1>2. /\ h \in Nat /\ h <= s.inflight + 1 /\ h <= HalfOpenProbes
      /\ h > 0 => s.cb = "halfOpen"
  BY <1>1, ConstantTypes DEF Admissible, Sound
<1>3. Begun(s) = [s EXCEPT !.inflight = s.inflight + 1, !.halfLive = h]
  BY DEF Begun, Target
<1> HIDE DEF h
<1>4. s.inflight + 1 \in Nat
  BY <1>1
<1>5. /\ Begun(s) \in Target
      /\ Begun(s).inflight = s.inflight + 1 /\ Begun(s).halfLive = h
      /\ Begun(s).state = s.state /\ Begun(s).cause = s.cause /\ Begun(s).cb = s.cb
      /\ Begun(s).probeStreak = s.probeStreak
      /\ Begun(s).breakerFails = s.breakerFails
  BY <1>1, <1>2, <1>3, <1>4 DEF Target
<1> QED
  BY <1>1, <1>2, <1>5, ConstantTypes DEF Sound

LEMMA ReleasedSound ==
  ASSUME NEW s \in Target, Sound(s)
  PROVE  /\ Released(s) \in Target
         /\ Near(Released(s), 1)
         /\ s.inflight > 0 => Released(s).inflight = s.inflight - 1
<1> DEFINE n == IF s.inflight > 0 THEN s.inflight - 1 ELSE 0
<1>1. s.halfLive \in Nat /\ s.inflight \in Nat
  BY DEF Target
<1>2. n \in Nat /\ s.halfLive <= n + 1 /\ (s.inflight > 0 => n = s.inflight - 1)
  BY <1>1 DEF Sound
<1>3. Released(s) = [s EXCEPT !.inflight = n, !.halfLive = s.halfLive]
  BY DEF Released, Target
<1> HIDE DEF n
<1>5. /\ Released(s) \in Target
      /\ Released(s).inflight = n /\ Released(s).halfLive = s.halfLive
      /\ Released(s).state = s.state /\ Released(s).cause = s.cause /\ Released(s).cb = s.cb
      /\ Released(s).probeStreak = s.probeStreak
      /\ Released(s).breakerFails = s.breakerFails
  BY <1>1, <1>2, <1>3 DEF Target
<1> QED
  BY <1>1, <1>2, <1>5, ConstantTypes DEF Sound, Near

LEMMA CancelledSound ==
  ASSUME NEW s \in Target, Sound(s)
  PROVE  /\ Cancelled(s) \in Target
         /\ Sound(Cancelled(s))
         /\ s.inflight > 0 => Cancelled(s).inflight = s.inflight - 1
<1> DEFINE n == IF s.inflight > 0 THEN s.inflight - 1 ELSE 0
           h == IF s.cb = "halfOpen" /\ s.halfLive > 0
                THEN s.halfLive - 1 ELSE s.halfLive
<1>1. s.halfLive \in Nat /\ s.inflight \in Nat
  BY DEF Target
<1>2. /\ n \in Nat /\ (s.inflight > 0 => n = s.inflight - 1)
      /\ h \in Nat /\ h <= n /\ h <= HalfOpenProbes
      /\ h > 0 => s.cb = "halfOpen"
  BY <1>1, ConstantTypes DEF Sound
<1>3. Cancelled(s) = [s EXCEPT !.inflight = n, !.halfLive = h]
  BY DEF Cancelled, Released, Target
<1> HIDE DEF n, h
<1>5. /\ Cancelled(s) \in Target
      /\ Cancelled(s).inflight = n /\ Cancelled(s).halfLive = h
      /\ Cancelled(s).state = s.state /\ Cancelled(s).cause = s.cause /\ Cancelled(s).cb = s.cb
      /\ Cancelled(s).probeStreak = s.probeStreak
      /\ Cancelled(s).breakerFails = s.breakerFails
  BY <1>1, <1>2, <1>3 DEF Target
<1> QED
  BY <1>1, <1>2, <1>5, ConstantTypes DEF Sound

-----------------------------------------------------------------------------
(* Done with a counting outcome, stage by stage. *)

LEMMA PassiveFailureSound ==
  ASSUME NEW s \in Target, NEW t \in Times, Near(s, 1)
  PROVE  /\ PassiveFailure(s, t) \in Target
         /\ Near(PassiveFailure(s, t), 1)
         /\ PassiveFailure(s, t).inflight = s.inflight
<1> DEFINE fails == Pruned(Recorded(s.passiveFails, t), t, PassiveWindow)
           full == PassiveFailures > 0 /\ Count(fails) >= PassiveFailures
           kept == IF full THEN NoFails ELSE fails
           w == [s EXCEPT !.passiveFails = kept]
<1>1. s.passiveFails \in [Times -> Nat]
  BY DEF Target
<1>2. fails \in [Times -> Nat] /\ NoFails \in [Times -> Nat]
  BY <1>1, WindowTypes, ConstantTypes
<1>3. kept \in [Times -> Nat]
  BY <1>2
<1>4. PassiveFailure(s, t) = IF full /\ s.state # "down" THEN Eject(w, t) ELSE w
  BY DEF PassiveFailure
<1> HIDE DEF kept, full
<1>5. w \in Target /\ Near(w, 1) /\ w.inflight = s.inflight
  BY <1>3 DEF Target, Near
<1> HIDE DEF w
<1> QED
  BY <1>4, <1>5, EjectSound

LEMMA BreakerFailureSound ==
  ASSUME NEW s \in Target, NEW t \in Times, Near(s, 1)
  PROVE  /\ BreakerFailure(s, t) \in Target
         /\ Near(BreakerFailure(s, t), 1)
         /\ BreakerFailure(s, t).inflight = s.inflight
<1> DEFINE fails == Pruned(Recorded(s.breakerFails, t), t, BreakerWindow)
           c == [s EXCEPT !.breakerFails = NoFails]
           w == [s EXCEPT !.breakerFails = fails]
<1>1. s.breakerFails \in [Times -> Nat]
  BY DEF Target
<1>2. fails \in [Times -> Nat] /\ NoFails \in [Times -> Nat]
  BY <1>1, WindowTypes, ConstantTypes
<1>3. CASE BreakerFailures = 0 \/ s.cb # "closed"
  BY <1>3 DEF BreakerFailure
<1>4. CASE ~(BreakerFailures = 0 \/ s.cb # "closed")
  <2>1. BreakerFailure(s, t) = OpenBreaker(c, t) \/ BreakerFailure(s, t) = w
    BY <1>4 DEF BreakerFailure
  <2> HIDE DEF fails
  <2>2. /\ c \in Target /\ Near(c, 1) /\ c.inflight = s.inflight
        /\ c.breakerFails = NoFails
    BY <1>2 DEF Target, Near
  <2>3. w \in Target /\ Near(w, 1) /\ w.inflight = s.inflight
    BY <1>2, <1>4 DEF Target, Near
  <2> HIDE DEF c, w
  <2>4. /\ OpenBreaker(c, t) \in Target /\ Near(OpenBreaker(c, t), 0)
        /\ OpenBreaker(c, t).inflight = s.inflight
    BY <2>2, OpenBreakerSound
  <2>5. ASSUME NEW r \in Target, Near(r, 0) PROVE Near(r, 1)
    BY <2>5 DEF Near, Target
  <2> QED
    BY <2>1, <2>3, <2>4, <2>5
<1> QED
  BY <1>3, <1>4

LEMMA WindowsSound ==
  ASSUME NEW s \in Target, NEW t \in Times, NEW ok \in BOOLEAN, Near(s, 1)
  PROVE  /\ Windows(s, ok, t) \in Target
         /\ Near(Windows(s, ok, t), 1)
         /\ Windows(s, ok, t).inflight = s.inflight
         /\ ok => Windows(s, ok, t).breakerFails = NoFails
<1>1. NoFails \in [Times -> Nat]
  BY DEF NoFails
<1>2. CASE ok
  <2>1. Windows(s, ok, t) =
          [s EXCEPT !.passiveFails = NoFails, !.breakerFails = NoFails]
    BY <1>2 DEF Windows
  <2> QED
    BY <1>1, <1>2, <2>1 DEF Target, Near
<1>3. CASE ~ok
  BY <1>3, PassiveFailureSound, BreakerFailureSound DEF Windows
<1> QED
  BY <1>2, <1>3

LEMMA ProbeSuccessSound ==
  ASSUME NEW s \in Target, NEW k \in {0, 1}, Near(s, k), s.state = "probing"
  PROVE  /\ ProbeSuccess(s) \in Target
         /\ Near(ProbeSuccess(s), k)
         /\ ProbeSuccess(s).inflight = s.inflight
<1> DEFINE r == [s EXCEPT !.probeStreak = @ + 1]
<1>1. r \in Target /\ Near(r, k) /\ r.inflight = s.inflight
  BY DEF Target, Near
<1>2. ProbeSuccess(s) = Promote(s) \/ ProbeSuccess(s) = r
  BY DEF ProbeSuccess
<1> QED
  BY <1>1, <1>2, PromoteSound

LEMMA ProbeVerdictSound ==
  ASSUME NEW s \in Target, NEW t \in Times, NEW ok \in BOOLEAN, Near(s, 1)
  PROVE  /\ ProbeVerdict(s, ok, t) \in Target
         /\ Near(ProbeVerdict(s, ok, t), 1)
         /\ ProbeVerdict(s, ok, t).inflight = s.inflight
  BY ProbeSuccessSound, EjectSound, DemoteSound DEF ProbeVerdict

LEMMA TrialVerdictSound ==
  ASSUME NEW s \in Target, NEW t \in Times, NEW ok \in BOOLEAN, Near(s, 1)
  PROVE  /\ TrialVerdict(s, ok, t) \in Target
         /\ Sound(TrialVerdict(s, ok, t))
         /\ TrialVerdict(s, ok, t).inflight = s.inflight
<1>1. CASE s.cb = "halfOpen" /\ s.halfLive > 0
  <2>1. s.breakerFails = NoFails
    BY <1>1 DEF Near
  <2>2. \/ TrialVerdict(s, ok, t) = CloseBreaker(s)
        \/ TrialVerdict(s, ok, t) = OpenBreaker(s, t)
    BY <1>1 DEF TrialVerdict
  <2> QED
    BY <2>1, <2>2, CloseBreakerSound, OpenBreakerSound, NearIsSound
<1>2. CASE ~(s.cb = "halfOpen" /\ s.halfLive > 0)
  <2>1. TrialVerdict(s, ok, t) = s
    BY <1>2 DEF TrialVerdict
  <2>2. s.halfLive = 0 /\ s.inflight \in Nat
    BY <1>2 DEF Near, Target
  <2> QED
    BY <2>1, <2>2 DEF Near, Sound
<1> QED
  BY <1>1, <1>2

LEMMA CompletedSound ==
  ASSUME NEW s \in Target, NEW t \in Times, NEW ok \in BOOLEAN, Sound(s)
  PROVE  /\ Completed(s, ok, t) \in Target
         /\ Sound(Completed(s, ok, t))
         /\ s.inflight > 0 => Completed(s, ok, t).inflight = s.inflight - 1
  BY ReleasedSound, WindowsSound, ProbeVerdictSound, TrialVerdictSound
     DEF Completed
-----------------------------------------------------------------------------
(* An active check's result. *)

LEMMA ActiveResultSound ==
  ASSUME NEW s \in Target, NEW ok \in BOOLEAN, Sound(s)
  PROVE  /\ ActiveResult(s, ok) \in Target
         /\ Sound(ActiveResult(s, ok))
         /\ ActiveResult(s, ok).inflight = s.inflight
<1>1. Near(s, 0)
  BY NearIsSound
<1>2. CASE ok
  <2> DEFINE z == [s EXCEPT !.activeFailStreak = 0]
  <2>1. z \in Target /\ Near(z, 0) /\ z.inflight = s.inflight /\ z.state = s.state
    BY <1>1 DEF Target, Near
  <2>2. CASE s.state = "down"
    <3> DEFINE r == [z EXCEPT !.state = "probing", !.cause = "recovery", !.probeStreak = 1]
    <3>1. ActiveResult(s, ok) = r
      BY <1>2, <2>2 DEF ActiveResult, ActiveSuccess
    <3> HIDE DEF z
    <3>2. r \in Target /\ Near(r, 0) /\ r.inflight = z.inflight
      BY <2>1 DEF Target, Near
    <3> QED
      BY <2>1, <3>1, <3>2, NearIsSound
  <2>3. CASE s.state = "probing"
    <3>1. ActiveResult(s, ok) = ProbeSuccess(z)
      BY <1>2, <2>3 DEF ActiveResult, ActiveSuccess
    <3> QED
      BY <2>1, <2>3, <3>1, ProbeSuccessSound, NearIsSound
  <2>4. CASE s.state = "ejected"
    <3> DEFINE r == [z EXCEPT !.probeStreak = 0]
    <3>1. ActiveResult(s, ok) = r
      BY <1>2, <2>4 DEF ActiveResult, ActiveSuccess
    <3> HIDE DEF z
    <3>2. r \in Target /\ Near(r, 0) /\ r.inflight = z.inflight
      BY <2>1 DEF Target, Near
    <3> QED
      BY <2>1, <3>1, <3>2, NearIsSound
  <2>5. CASE s.state = "healthy"
    <3>1. ActiveResult(s, ok) = z
      BY <1>2, <2>5 DEF ActiveResult, ActiveSuccess
    <3> QED
      BY <2>1, <3>1, NearIsSound
  <2> QED
    BY <2>2, <2>3, <2>4, <2>5 DEF Target
<1>3. CASE ~ok
  <2> DEFINE n == IF s.activeFailStreak < UnhealthyThreshold
                  THEN s.activeFailStreak + 1 ELSE s.activeFailStreak
             z == [s EXCEPT !.activeFailStreak = n]
  <2>1. n \in Nat
    BY DEF Target
  <2>2. ActiveResult(s, ok) = Demote(z) \/ ActiveResult(s, ok) = z
    BY <1>3 DEF ActiveResult, ActiveFailure
  <2> HIDE DEF n
  <2>3. z \in Target /\ Near(z, 0) /\ z.inflight = s.inflight
    BY <1>1, <2>1 DEF Target, Near
  <2> QED
    BY <2>2, <2>3, DemoteSound, NearIsSound
<1> QED
  BY <1>2, <1>3

-----------------------------------------------------------------------------
(* The in-flight count follows the outstanding attempts. *)

LEMMA OutstandingFinite ==
  /\ IsFiniteSet(Outstanding)
  /\ Cardinality(Outstanding) \in Nat
<1>1. Outstanding \in SUBSET Attempts
  BY DEF Outstanding
<1> QED
  BY <1>1, ConstantsAssumption, FS_Subset, FS_CardinalityType
     DEF ConstantsAssumption

LEMMA OutstandingGrows ==
  ASSUME NEW a \in Attempts, TypeOK, attempt[a] = "idle",
         attempt' = [attempt EXCEPT ![a] = "live"]
  PROVE  /\ Outstanding' = Outstanding \cup {a}
         /\ Cardinality(Outstanding') = Cardinality(Outstanding) + 1
<1>1. Outstanding' = Outstanding \cup {a} /\ a \notin Outstanding
  BY DEF Outstanding, TypeOK
<1> QED
  BY <1>1, OutstandingFinite, FS_AddElement

LEMMA OutstandingShrinks ==
  ASSUME NEW a \in Attempts, TypeOK, attempt[a] = "live",
         attempt' = [attempt EXCEPT ![a] = "idle"]
  PROVE  /\ Outstanding' = Outstanding \ {a}
         /\ Cardinality(Outstanding) > 0
         /\ Cardinality(Outstanding') = Cardinality(Outstanding) - 1
<1>1. Outstanding' = Outstanding \ {a} /\ a \in Outstanding
  BY DEF Outstanding, TypeOK
<1>2. Cardinality(Outstanding) # 0
  BY <1>1, OutstandingFinite, FS_EmptySet
<1> QED
  BY <1>1, <1>2, OutstandingFinite, FS_RemoveElement

-----------------------------------------------------------------------------
(* The inductive invariant: types, a sound record and an exact count. *)
IInv == TypeOK /\ Consistent /\ InflightExact

LEMMA InitIInv == Init => IInv
<1> SUFFICES ASSUME Init PROVE IInv
  OBVIOUS
<1>1. NoFails \in [Times -> Nat]
  BY DEF NoFails
<1>2. NewTarget \in Target /\ Sound(NewTarget) /\ NewTarget.inflight = 0
  BY <1>1, ConstantTypes DEF NewTarget, Target, Sound
<1>3. Outstanding = {}
  BY DEF Init, Outstanding
<1>4. 0 \in Times
  BY ConstantTypes DEF Times
<1> QED
  BY <1>2, <1>3, <1>4, FS_EmptySet DEF Init, IInv, TypeOK, Consistent, InflightExact

LEMMA StepIInv == IInv /\ [Next]_vars => IInv'
<1> SUFFICES ASSUME IInv, [Next]_vars PROVE IInv'
  OBVIOUS
<1>0. /\ TypeOK /\ st \in Target /\ Sound(st) /\ st.inflight = Cardinality(Outstanding)
      /\ now \in Times
  BY DEF IInv, TypeOK, Consistent, InflightExact
<1>t. \A t \in SampledTimes : t \in Times
  BY DEF SampledTimes
<1>1. ASSUME NEW a \in Attempts, NEW t \in SampledTimes, Begin(a, t)
      PROVE  IInv'
  <2> DEFINE s == Normalize(st, t)
  <2>1. s \in Target /\ Sound(s) /\ s.inflight = st.inflight
    BY <1>0, <1>t, NormalizeSound
  <2>2. /\ attempt[a] = "idle" /\ Admissible(s) /\ st' = Begun(s)
        /\ attempt' = [attempt EXCEPT ![a] = "live"]
        /\ trials' \subseteq trials \cup {a}
        /\ UNCHANGED <<now, prober>>
    BY <1>1 DEF Begin, Trials
  <2> HIDE DEF s
  <2>3. st' \in Target /\ Sound(st') /\ st'.inflight = st.inflight + 1
    BY <2>1, <2>2, BegunSound
  <2>4. Cardinality(Outstanding') = Cardinality(Outstanding) + 1
    BY <1>0, <2>2, OutstandingGrows
  <2> QED
    BY <1>0, <2>2, <2>3, <2>4 DEF IInv, TypeOK, Consistent, InflightExact
<1>2. ASSUME NEW t \in SampledTimes, Look(t)
      PROVE  IInv'
  <2>1. st' \in Target /\ Sound(st') /\ st'.inflight = st.inflight
    BY <1>0, <1>t, <1>2, NormalizeSound DEF Look
  <2>2. trials' \subseteq trials /\ UNCHANGED <<now, attempt, prober>>
    BY <1>2 DEF Look, Trials
  <2> QED
    BY <1>0, <2>1, <2>2 DEF IInv, TypeOK, Consistent, InflightExact, Outstanding
<1>3. ASSUME NEW a \in Attempts, NEW ok \in BOOLEAN, NEW t \in SampledTimes,
             Complete(a, ok, t)
      PROVE  IInv'
  <2>1. /\ attempt[a] = "live" /\ st' = Completed(st, ok, t)
        /\ attempt' = [attempt EXCEPT ![a] = "idle"]
        /\ trials' \subseteq trials
        /\ UNCHANGED <<now, prober>>
    BY <1>3 DEF Complete, Trials
  <2>2. /\ Cardinality(Outstanding) > 0
        /\ Cardinality(Outstanding') = Cardinality(Outstanding) - 1
    BY <1>0, <2>1, OutstandingShrinks
  <2>3. st' \in Target /\ Sound(st') /\ st'.inflight = st.inflight - 1
    BY <1>0, <1>t, <2>1, <2>2, CompletedSound
  <2> QED
    BY <1>0, <2>1, <2>2, <2>3 DEF IInv, TypeOK, Consistent, InflightExact
<1>4. ASSUME NEW a \in Attempts, Cancel(a)
      PROVE  IInv'
  <2>1. /\ attempt[a] = "live" /\ st' = Cancelled(st)
        /\ attempt' = [attempt EXCEPT ![a] = "idle"]
        /\ trials' \subseteq trials /\ UNCHANGED <<now, prober>>
    BY <1>4 DEF Cancel
  <2>2. /\ Cardinality(Outstanding) > 0
        /\ Cardinality(Outstanding') = Cardinality(Outstanding) - 1
    BY <1>0, <2>1, OutstandingShrinks
  <2>3. st' \in Target /\ Sound(st') /\ st'.inflight = st.inflight - 1
    BY <1>0, <2>1, <2>2, CancelledSound
  <2> QED
    BY <1>0, <2>1, <2>2, <2>3 DEF IInv, TypeOK, Consistent, InflightExact
<1>5. ASSUME NEW a \in Attempts, Abort(a)
      PROVE  IInv'
  <2>1. Outstanding' = Outstanding
    BY <1>0, <1>5 DEF Abort, Outstanding, TypeOK
  <2> QED
    BY <1>0, <1>5, <2>1 DEF Abort, IInv, TypeOK, Consistent, InflightExact
<1>6. ASSUME NEW ok \in BOOLEAN, ProbeResult(ok)
      PROVE  IInv'
  <2>1. st' \in Target /\ Sound(st') /\ st'.inflight = st.inflight
    BY <1>0, <1>6, ActiveResultSound DEF ProbeResult
  <2> QED
    BY <1>0, <1>6, <2>1
       DEF ProbeResult, IInv, TypeOK, Consistent, InflightExact, Outstanding
<1>7. CASE LastProbe
  <2>1. st' \in Target /\ Sound(st') /\ st'.inflight = st.inflight
    BY <1>0, <1>7, ActiveResultSound DEF LastProbe
  <2> QED
    BY <1>0, <1>7, <2>1
       DEF LastProbe, IInv, TypeOK, Consistent, InflightExact, Outstanding
<1>8. CASE CancelProber
  BY <1>0, <1>8 DEF CancelProber, IInv, TypeOK, Consistent, InflightExact, Outstanding
<1>9. CASE Tick
  <2>1. now + 1 \in Times
    BY <1>0, <1>9, ConstantTypes DEF Tick, Times
  <2> QED
    BY <1>0, <1>9, <2>1 DEF Tick, IInv, TypeOK, Consistent, InflightExact, Outstanding
<1>10. CASE UNCHANGED vars
  BY <1>0, <1>10 DEF vars, IInv, TypeOK, Consistent, InflightExact, Outstanding
<1> QED
  BY <1>1, <1>2, <1>3, <1>4, <1>5, <1>6, <1>7, <1>8, <1>9, <1>10 DEF Next

(* Types, a sound record and an exact in-flight count, always.             *)
THEOREM Invariance == Spec => []IInv
  BY InitIInv, StepIInv, PTL DEF Spec

(* The record never contradicts itself (targetstate.go, every method).     *)
THEOREM RecordConsistent == Spec => []Consistent
<1>1. IInv => Consistent
  BY DEF IInv
<1> QED
  BY <1>1, Invariance, PTL

(* The in-flight count is exact (begin, done).                             *)
THEOREM CountExact == Spec => []InflightExact
<1>1. IInv => InflightExact
  BY DEF IInv
<1> QED
  BY <1>1, Invariance, PTL

(* An admission is a Begin. *)
LEMMA OnlyBeginAdmits ==
  ASSUME TypeOK, [Next]_vars, NEW a \in Attempts, Admits(a)
  PROVE  \E t \in SampledTimes : Begin(a, t)
<1>1. ASSUME NEW b \in Attempts, NEW t \in SampledTimes, Begin(b, t)
      PROVE  a = b
  BY <1>1 DEF Begin, Admits, TypeOK
<1>2. ASSUME NEW b \in Attempts, NEW ok \in BOOLEAN, NEW t \in SampledTimes,
             Complete(b, ok, t)
      PROVE  FALSE
  BY <1>2 DEF Complete, Admits, TypeOK
<1>3. ASSUME NEW b \in Attempts, Cancel(b) \/ Abort(b)
      PROVE  FALSE
  BY <1>3 DEF Cancel, Abort, Admits, TypeOK
<1>4. ~ UNCHANGED attempt
  BY DEF Admits
<1> QED
  BY <1>1, <1>2, <1>3, <1>4
     DEF Next, vars, Look, ProbeResult, CancelProber, LastProbe, Tick

(* A probing target is never given a second attempt (begin's first gate).  *)
THEOREM ProbingIsExclusive == Spec => ProbeAlone
<1>1. ASSUME IInv, [Next]_vars, NEW a \in Attempts, Admits(a), st'.state = "probing"
      PROVE  Outstanding' = {a}
  <2>1. PICK t \in SampledTimes : Begin(a, t)
    BY <1>1, OnlyBeginAdmits DEF IInv
  <2> DEFINE s == Normalize(st, t)
  <2>2. s \in Target /\ s.inflight = Cardinality(Outstanding)
    BY <1>1, NormalizeSound
       DEF IInv, TypeOK, Consistent, InflightExact, SampledTimes
  <2>3. /\ attempt[a] = "idle" /\ Admissible(s) /\ st' = Begun(s)
        /\ attempt' = [attempt EXCEPT ![a] = "live"]
    BY <2>1 DEF Begin
  <2> HIDE DEF s
  <2>4. Begun(s).state = s.state
    BY <2>2 DEF Begun, Target
  <2>5. Cardinality(Outstanding) = 0
    BY <1>1, <2>2, <2>3, <2>4, OutstandingFinite DEF Admissible
  <2>6. Outstanding = {}
    BY <2>5, OutstandingFinite, FS_EmptySet
  <2> QED
    BY <1>1, <2>3, <2>6, OutstandingGrows DEF IInv
<1>2. IInv /\ [Next]_vars =>
        [\A a \in Attempts :
           Admits(a) /\ st'.state = "probing" => Outstanding' = {a}]_vars
  BY <1>1
<1> QED
  BY <1>2, Invariance, PTL DEF Spec, ProbeAlone

(* Nothing is admitted while the target is down, ejected or tripped        *)
(* (availableLocked), whatever instant the picker sampled.                 *)
THEOREM NoEarlyAdmission == Spec => HeldOut
<1>1. ASSUME IInv, [Next]_vars, NEW a \in Attempts, Admits(a)
      PROVE  /\ st.state # "down"
             /\ st.state = "ejected" => now >= st.ejectedUntil
             /\ st.cb = "open" => now >= st.cbUntil
  <2>1. PICK t \in SampledTimes : Begin(a, t)
    BY <1>1, OnlyBeginAdmits DEF IInv
  <2>2. /\ t \in Times /\ t <= now /\ st \in Target /\ now \in Times
        /\ Admissible(Normalize(st, t))
    BY <1>1, <2>1 DEF Begin, IInv, TypeOK, SampledTimes
  <2>3. \A x \in Times : x \in Nat
    BY ConstantTypes DEF Times
  <2>4. st.ejectedUntil \in Nat /\ st.cbUntil \in Nat
    BY <2>2 DEF Target
  <2>5. st.state # "down" /\ (st.state = "ejected" => t >= st.ejectedUntil)
    BY <2>2 DEF Admissible, Normalize, Reenter, HalfOpen, Target
  <2>6. st.cb = "open" => t >= st.cbUntil
    BY <2>2 DEF Admissible, Normalize, Reenter, HalfOpen, Target
  <2> QED
    BY <2>2, <2>3, <2>4, <2>5, <2>6
<1>2. IInv /\ [Next]_vars =>
        [\A a \in Attempts : Admits(a) =>
           /\ st.state # "down"
           /\ st.state = "ejected" => now >= st.ejectedUntil
           /\ st.cb = "open" => now >= st.cbUntil]_vars
  BY <1>1
<1> QED
  BY <1>2, Invariance, PTL DEF Spec, HeldOut

(* When no response can be cut off half way, every outstanding attempt is  *)
(* still running and will report.                                          *)
NoneLost == \A a \in Attempts : attempt[a] # "lost"

LEMMA AllReport ==
  ASSUME ~MidStreamAborts
  PROVE  Spec => [](IInv /\ NoneLost)
<1>1. Init => NoneLost
  BY DEF Init, NoneLost
<1>2. IInv /\ NoneLost /\ [Next]_vars => NoneLost'
  BY DEF IInv, TypeOK, NoneLost, Next, vars, Begin, Look, Complete, Cancel, Abort,
         ProbeResult, CancelProber, LastProbe, Tick
<1> QED
  BY <1>1, <1>2, Invariance, PTL DEF Spec

(* Half-open budget is always held by an attempt that will return it.      *)
THEOREM BudgetAlwaysBacked ==
  ASSUME ~MidStreamAborts
  PROVE  Spec => []BudgetBacked
<1>1. IInv /\ NoneLost => BudgetBacked
  <2> SUFFICES ASSUME IInv, NoneLost PROVE BudgetBacked
    OBVIOUS
  <2>1. Live = Outstanding
    BY DEF IInv, TypeOK, NoneLost, Live, Outstanding
  <2> QED
    BY <2>1 DEF IInv, Consistent, Sound, InflightExact, BudgetBacked
<1> QED
  BY <1>1, AllReport, PTL

(* No sequence of calls leaves a target unpickable once nobody uses it and *)
(* its deadlines have passed.                                              *)
THEOREM NoWedge == Spec => []NeverWedged
<1>1. IInv => NeverWedged
  <2> SUFFICES ASSUME IInv, Outstanding = {}, Weight > 0, st.state # "down",
                      st.state = "ejected" => now >= st.ejectedUntil,
                      st.cb = "open" => now >= st.cbUntil
               PROVE  Admissible(Normalize(st, now))
    BY DEF NeverWedged
  <2> DEFINE s == Normalize(st, now)
  <2>2. st \in Target /\ Sound(st) /\ now \in Times /\ st.inflight = 0
    BY FS_EmptySet DEF IInv, TypeOK, Consistent, InflightExact
  <2>3. s \in Target /\ Sound(s) /\ s.inflight = 0
    BY <2>2, NormalizeSound
  <2>4. s.state \notin {"down", "ejected"} /\ s.cb # "open"
    BY DEF IInv, TypeOK, Normalize, Reenter, HalfOpen, Target
  <2> HIDE DEF s
  <2>5. s.halfLive = 0
    BY <2>3 DEF Sound, Target
  <2> QED
    BY <2>3, <2>4, <2>5, ConstantTypes DEF Admissible, s
<1> QED
  BY <1>1, Invariance, PTL

(* Without the checker nothing marks a target down and nothing starts a    *)
(* recovery, the only cause whose failure would.                           *)
NoChecker ==
  prober = "none" => st.state # "down" /\ st.cause # "recovery"

LEMMA CompletedKeepsUp ==
  ASSUME NEW s \in Target, NEW t \in Times, NEW ok \in BOOLEAN, Sound(s),
         s.state # "down", s.cause # "recovery"
  PROVE  /\ Completed(s, ok, t).state # "down"
         /\ Completed(s, ok, t).cause # "recovery"
<1> DEFINE a == Released(s)
           b == Windows(a, ok, t)
           c == ProbeVerdict(b, ok, t)
<1>1. a.state = s.state /\ a.cause = s.cause /\ a \in Target /\ Near(a, 1)
  BY ReleasedSound DEF Released, Target
<1> HIDE DEF a
<1>2. b.state # "down" /\ b.cause # "recovery"
  <2>1. CASE ok
    BY <1>1, <2>1 DEF Windows, Target
  <2>2. CASE ~ok
    <3> DEFINE r == PassiveFailure(a, t)
    <3>1. r.state # "down" /\ r.cause # "recovery"
      BY <1>1 DEF PassiveFailure, Eject, Target
    <3>2. r \in Target
      BY <1>1, PassiveFailureSound
    <3> HIDE DEF r
    <3>3. /\ BreakerFailure(r, t).state = r.state
          /\ BreakerFailure(r, t).cause = r.cause
      BY <3>2 DEF BreakerFailure, OpenBreaker, Target
    <3> QED
      BY <2>2, <3>1, <3>3 DEF Windows, r
  <2> QED
    BY <2>1, <2>2
<1>3. b \in Target /\ Near(b, 1)
  BY <1>1, WindowsSound
<1> HIDE DEF b
<1>4. c.state # "down" /\ c.cause # "recovery"
  <2>1. /\ ProbeSuccess(b).state # "down" /\ ProbeSuccess(b).cause # "recovery"
        /\ Eject(b, t).state # "down" /\ Eject(b, t).cause # "recovery"
    BY <1>2, <1>3 DEF ProbeSuccess, Promote, Eject, Target
  <2>2. b.cause \in {"none", "ejection"}
    BY <1>2, <1>3 DEF Target
  <2> QED
    BY <1>2, <2>1, <2>2 DEF ProbeVerdict
<1>5. c \in Target
  BY <1>3, ProbeVerdictSound
<1> HIDE DEF c
<1>6. /\ TrialVerdict(c, ok, t).state = c.state
      /\ TrialVerdict(c, ok, t).cause = c.cause
  BY <1>5 DEF TrialVerdict, CloseBreaker, OpenBreaker, Target
<1> QED
  BY <1>4, <1>6 DEF Completed, a, b, c

LEMMA NormalizeKeepsUp ==
  ASSUME NEW s \in Target, NEW t \in Times, Sound(s),
         s.state # "down", s.cause # "recovery"
  PROVE  /\ Normalize(s, t) \in Target
         /\ Normalize(s, t).state # "down"
         /\ Normalize(s, t).cause # "recovery"
<1>1. Normalize(s, t) \in Target
  BY NormalizeSound
<1>2. /\ Reenter(s, t).state # "down" /\ Reenter(s, t).cause # "recovery"
  BY DEF Reenter, Target
<1>3. Reenter(s, t) \in Target
  BY DEF Reenter, Target
<1> QED
  BY <1>1, <1>2, <1>3 DEF Normalize, HalfOpen, Target

LEMMA StepNoChecker == IInv /\ NoChecker /\ [Next]_vars => NoChecker'
<1> SUFFICES ASSUME IInv, [Next]_vars, prober' = "none",
                    prober = "none" => st.state # "down" /\ st.cause # "recovery"
             PROVE  st'.state # "down" /\ st'.cause # "recovery"
  BY DEF NoChecker
<1>0. prober = "none" /\ st.state # "down" /\ st.cause # "recovery"
  BY DEF Next, vars, Begin, Look, Complete, Cancel, Abort, ProbeResult, CancelProber,
         LastProbe, Tick
<1> DEFINE Kept == st'.state # "down" /\ st'.cause # "recovery"
<1>1. ASSUME NEW a \in Attempts, NEW t \in SampledTimes, Begin(a, t) PROVE Kept
  <2>1. /\ Normalize(st, t) \in Target
        /\ Normalize(st, t).state # "down" /\ Normalize(st, t).cause # "recovery"
    BY <1>0, NormalizeKeepsUp DEF IInv, TypeOK, Consistent, SampledTimes
  <2> QED
    BY <1>1, <2>1 DEF Begin, Begun, Target
<1>2. ASSUME NEW t \in SampledTimes, Look(t) PROVE Kept
  BY <1>0, <1>2, NormalizeKeepsUp DEF Look, IInv, TypeOK, Consistent, SampledTimes
<1>3. ASSUME NEW a \in Attempts, NEW t \in SampledTimes, NEW ok \in BOOLEAN,
             Complete(a, ok, t)
      PROVE  Kept
  BY <1>0, <1>3, CompletedKeepsUp DEF Complete, IInv, TypeOK, Consistent, SampledTimes
<1>4. ASSUME NEW a \in Attempts, Cancel(a) PROVE Kept
  BY <1>0, <1>4 DEF Cancel, Cancelled, Released, Target, IInv, TypeOK
<1>5. Kept
  BY <1>0, <1>1, <1>2, <1>3, <1>4
     DEF Next, vars, Abort, ProbeResult, CancelProber, LastProbe, Tick
<1> QED
  BY <1>5

(* A pool with passive health only never takes a target down for good:     *)
(* "down" is reached through the checker alone.                            *)
THEOREM DownThroughChecker == Spec => []DownNeedsChecker
<1>1. Init => NoChecker
  BY DEF Init, NewTarget, NoChecker
<1>2. NoChecker => DownNeedsChecker
  BY DEF NoChecker, DownNeedsChecker
<1> QED
  BY <1>1, <1>2, StepNoChecker, Invariance, PTL DEF Spec

-----------------------------------------------------------------------------
(* No full window: apart from recording a failure, which acts on a window  *)
(* it has filled, nothing adds to one.                                     *)
Untripped(s) ==
  /\ PassiveFailures > 0 => Count(s.passiveFails) < PassiveFailures
  /\ BreakerFailures > 0 => Count(s.breakerFails) < BreakerFailures

(* A window holds finitely many failures, an empty one none. *)
LEMMA CountFacts ==
  /\ \A f \in [Times -> Nat] : Count(f) \in Nat
  /\ Count(NoFails) = 0
<1>1. ASSUME NEW f \in [Times -> Nat]
      PROVE  Count(f) \in Nat
  <2> DEFINE at == [x \in Times |-> FailuresAt(f, x)]
             all == {FailuresAt(f, x) : x \in Times}
  <2>1. IsFiniteSet(Times)
    BY FS_Interval, ConstantTypes DEF Times
  <2>2. at \in Surjection(Times, all)
    BY DEF Surjection
  <2>3. IsFiniteSet(all)
    <3> HIDE DEF at, all
    <3> QED BY <2>1, <2>2, FS_Surjection
  <2>4. \A x \in Times : IsFiniteSet(FailuresAt(f, x))
    <3> TAKE x \in Times
    <3>1. f[x] \in Int /\ 1 \in Int
      OBVIOUS
    <3>2. IsFiniteSet(1 .. f[x])
      BY <3>1, FS_Interval
    <3>3. IsFiniteSet({x})
      BY FS_Singleton
    <3> QED BY <3>2, <3>3, FS_Product DEF FailuresAt
  <2>5. IsFiniteSet(UNION all)
    BY <2>3, <2>4, FS_UNION
  <2> QED BY <2>5, FS_CardinalityType DEF Count
<1>2. Count(NoFails) = 0
  <2>1. \A x \in Times : FailuresAt(NoFails, x) = {}
    BY DEF FailuresAt, NoFails
  <2>2. UNION {FailuresAt(NoFails, x) : x \in Times} = {}
    BY <2>1
  <2> QED BY <2>2, FS_EmptySet DEF Count
<1> QED BY <1>1, <1>2

LEMMA EmptyIsUntripped ==
  /\ PassiveFailures > 0 => Count(NoFails) < PassiveFailures
  /\ BreakerFailures > 0 => Count(NoFails) < BreakerFailures
  BY CountFacts, ConstantTypes

KeepsWindows(s, r) ==
  /\ r.passiveFails \in {s.passiveFails, NoFails}
  /\ r.breakerFails \in {s.breakerFails, NoFails}

LEMMA WindowsKept ==
  ASSUME NEW s, NEW r, Untripped(s), KeepsWindows(s, r)
  PROVE  Untripped(r)
  BY EmptyIsUntripped DEF Untripped, KeepsWindows

LEMMA VerdictsKeepWindows ==
  ASSUME NEW s \in Target, NEW t
  PROVE  /\ KeepsWindows(s, s)
         /\ KeepsWindows(s, Eject(s, t)) /\ KeepsWindows(s, ProbeSuccess(s))
         /\ KeepsWindows(s, Promote(s)) /\ KeepsWindows(s, Demote(s))
         /\ KeepsWindows(s, OpenBreaker(s, t)) /\ KeepsWindows(s, CloseBreaker(s))
<1>1. KeepsWindows(s, Eject(s, t)) /\ KeepsWindows(s, s)
  BY DEF KeepsWindows, Eject, Target
<1>2. /\ KeepsWindows(s, ProbeSuccess(s)) /\ KeepsWindows(s, Promote(s))
      /\ KeepsWindows(s, Demote(s))
  BY DEF KeepsWindows, ProbeSuccess, Promote, Demote, Target
<1>3. KeepsWindows(s, OpenBreaker(s, t)) /\ KeepsWindows(s, CloseBreaker(s))
  BY DEF KeepsWindows, OpenBreaker, CloseBreaker, Target
<1> QED BY <1>1, <1>2, <1>3

LEMMA CallsKeepWindows ==
  ASSUME NEW s \in Target, NEW t
  PROVE  /\ KeepsWindows(s, Released(s)) /\ KeepsWindows(s, Cancelled(s))
         /\ KeepsWindows(s, Begun(s)) /\ KeepsWindows(s, Normalize(s, t))
<1>1. KeepsWindows(s, Released(s)) /\ KeepsWindows(s, Begun(s))
  BY DEF KeepsWindows, Released, Begun, Target
<1>2. KeepsWindows(s, Cancelled(s))
  BY DEF KeepsWindows, Released, Cancelled, Target
<1>3. /\ Reenter(s, t).passiveFails = s.passiveFails
      /\ Reenter(s, t).breakerFails = s.breakerFails
  BY DEF Reenter, Target
<1>4. /\ Normalize(s, t).passiveFails = Reenter(s, t).passiveFails
      /\ Normalize(s, t).breakerFails = Reenter(s, t).breakerFails
  BY DEF Normalize, HalfOpen, Reenter, Target
<1> QED BY <1>1, <1>2, <1>3, <1>4 DEF KeepsWindows

LEMMA PassiveFailureUntripped ==
  ASSUME NEW s \in Target, NEW t \in Times, Untripped(s)
  PROVE  Untripped(PassiveFailure(s, t))
<1> DEFINE fails == Pruned(Recorded(s.passiveFails, t), t, PassiveWindow)
           full == PassiveFailures > 0 /\ Count(fails) >= PassiveFailures
           kept == IF full THEN NoFails ELSE fails
           w == [s EXCEPT !.passiveFails = kept]
<1>1. fails \in [Times -> Nat] /\ NoFails \in [Times -> Nat]
  BY WindowTypes, ConstantTypes DEF Target
<1>2. PassiveFailures > 0 => Count(kept) < PassiveFailures
  <2> HIDE DEF fails
  <2> QED BY <1>1, CountFacts, EmptyIsUntripped, ConstantTypes
<1>3. kept \in [Times -> Nat]
  BY <1>1
<1>4. PassiveFailure(s, t) = IF full /\ s.state # "down" THEN Eject(w, t) ELSE w
  BY DEF PassiveFailure
<1> HIDE DEF kept, full
<1>5. w \in Target /\ w.passiveFails = kept /\ w.breakerFails = s.breakerFails
  BY <1>3 DEF Target
<1> HIDE DEF w
<1>6. Untripped(w)
  BY <1>2, <1>5 DEF Untripped
<1> QED BY <1>4, <1>5, <1>6, VerdictsKeepWindows, WindowsKept

LEMMA BreakerFailureUntripped ==
  ASSUME NEW s \in Target, NEW t \in Times, Untripped(s)
  PROVE  Untripped(BreakerFailure(s, t))
<1> DEFINE fails == Pruned(Recorded(s.breakerFails, t), t, BreakerWindow)
           c == [s EXCEPT !.breakerFails = NoFails]
           w == [s EXCEPT !.breakerFails = fails]
<1>1. fails \in [Times -> Nat] /\ NoFails \in [Times -> Nat]
  BY WindowTypes, ConstantTypes DEF Target
<1>2. \/ BreakerFailure(s, t) = s
      \/ BreakerFailure(s, t) = OpenBreaker(c, t)
      \/ BreakerFailure(s, t) = w /\ ~(Count(fails) >= BreakerFailures)
  BY DEF BreakerFailure
<1> HIDE DEF fails
<1>3. c \in Target /\ KeepsWindows(s, c)
  BY <1>1 DEF KeepsWindows, Target
<1>4. w.passiveFails = s.passiveFails /\ w.breakerFails = fails
  BY DEF Target
<1> HIDE DEF c, w
<1>5. Untripped(OpenBreaker(c, t))
  BY <1>3, VerdictsKeepWindows, WindowsKept
<1>6. ~(Count(fails) >= BreakerFailures) => Untripped(w)
  BY <1>1, <1>4, CountFacts, ConstantTypes DEF Untripped
<1> QED BY <1>2, <1>5, <1>6

LEMMA CompletedUntripped ==
  ASSUME NEW s \in Target, NEW t \in Times, NEW ok \in BOOLEAN, Sound(s), Untripped(s)
  PROVE  Untripped(Completed(s, ok, t))
<1> DEFINE a == Released(s)
           b == Windows(a, ok, t)
           c == ProbeVerdict(b, ok, t)
<1>1. a \in Target /\ Near(a, 1) /\ Untripped(a)
  BY ReleasedSound, CallsKeepWindows, WindowsKept
<1> HIDE DEF a
<1>2. b \in Target /\ Near(b, 1)
  BY <1>1, WindowsSound
<1>3. Untripped(b)
  <2>1. CASE ok
    <3>1. KeepsWindows(a, b)
      BY <1>1, <2>1 DEF Windows, KeepsWindows, Target
    <3> QED BY <1>1, <3>1, WindowsKept
  <2>2. CASE ~ok
    <3>1. PassiveFailure(a, t) \in Target /\ Untripped(PassiveFailure(a, t))
      BY <1>1, PassiveFailureSound, PassiveFailureUntripped
    <3> QED BY <2>2, <3>1, BreakerFailureUntripped DEF Windows
  <2> QED BY <2>1, <2>2
<1> HIDE DEF b
<1>4. c \in Target /\ Untripped(c)
  <2>1. KeepsWindows(b, c)
    BY <1>2, VerdictsKeepWindows DEF ProbeVerdict
  <2> QED BY <1>2, <1>3, <2>1, ProbeVerdictSound, WindowsKept
<1> HIDE DEF c
<1>5. KeepsWindows(c, TrialVerdict(c, ok, t))
  BY <1>4, VerdictsKeepWindows DEF TrialVerdict
<1> QED BY <1>4, <1>5, WindowsKept DEF Completed, a, b, c

LEMMA ActiveResultKeepsWindows ==
  ASSUME NEW s \in Target, NEW ok \in BOOLEAN
  PROVE  KeepsWindows(s, ActiveResult(s, ok))
<1> DEFINE z == [s EXCEPT !.activeFailStreak = 0]
           f == [s EXCEPT !.activeFailStreak = IF @ < UnhealthyThreshold THEN @ + 1 ELSE @]
<1>1. z \in Target /\ KeepsWindows(s, z) /\ z.passiveFails = s.passiveFails
      /\ z.breakerFails = s.breakerFails
  BY DEF KeepsWindows, Target
<1>2. f \in Target /\ f.passiveFails = s.passiveFails /\ f.breakerFails = s.breakerFails
  <2>1. (IF s.activeFailStreak < UnhealthyThreshold THEN s.activeFailStreak + 1
         ELSE s.activeFailStreak) \in Nat
    BY DEF Target
  <2> QED BY <2>1 DEF Target
<1>3. KeepsWindows(s, ActiveFailure(s))
  <2>1. ActiveFailure(s) \in {f, Demote(f)}
    BY DEF ActiveFailure
  <2> HIDE DEF f
  <2> QED BY <1>2, <2>1, VerdictsKeepWindows DEF KeepsWindows
<1>4. KeepsWindows(s, ActiveSuccess(s))
  <2>1. ActiveSuccess(s) \in {z, ProbeSuccess(z), [z EXCEPT !.probeStreak = 0],
          [z EXCEPT !.state = "probing", !.cause = "recovery", !.probeStreak = 1]}
    BY DEF ActiveSuccess, Target
  <2> HIDE DEF z
  <2>2. /\ KeepsWindows(z, [z EXCEPT !.probeStreak = 0])
        /\ KeepsWindows(z, [z EXCEPT !.state = "probing", !.cause = "recovery",
                                     !.probeStreak = 1])
    BY <1>1 DEF KeepsWindows, Target
  <2> QED BY <1>1, <2>1, <2>2, VerdictsKeepWindows DEF KeepsWindows
<1> QED BY <1>3, <1>4 DEF ActiveResult

(* recordBreakerFailureLocked, ejectIfThresholdLocked: for all thresholds  *)
(* and windows, and with instants applied late, no target stays in service *)
(* on a window that has reached its threshold.                             *)
THEOREM NoTripIsMissed == Spec => []NoMissedTrip
<1>0. NoMissedTrip <=> Untripped(st)
  BY DEF NoMissedTrip, Untripped
<1>1. Init => Untripped(st)
  BY EmptyIsUntripped DEF Init, NewTarget, Untripped
<1>2. IInv /\ Untripped(st) /\ [Next]_vars => Untripped(st)'
  <2> SUFFICES ASSUME IInv, Untripped(st), [Next]_vars
               PROVE  Untripped(st')
    BY DEF Untripped
  <2>0. st \in Target /\ Sound(st) /\ \A t \in SampledTimes : t \in Times
    BY DEF IInv, TypeOK, Consistent, SampledTimes
  <2>1. ASSUME NEW a \in Attempts, NEW t \in SampledTimes, Begin(a, t)
        PROVE  Untripped(st')
    <3>1. Normalize(st, t) \in Target /\ Untripped(Normalize(st, t))
      BY <2>0, NormalizeSound, CallsKeepWindows, WindowsKept
    <3> QED BY <2>1, <3>1, CallsKeepWindows, WindowsKept DEF Begin
  <2>2. ASSUME NEW t \in SampledTimes, Look(t)
        PROVE  Untripped(st')
    BY <2>0, <2>2, CallsKeepWindows, WindowsKept DEF Look
  <2>3. ASSUME NEW a \in Attempts, NEW ok \in BOOLEAN, NEW t \in SampledTimes,
               Complete(a, ok, t)
        PROVE  Untripped(st')
    BY <2>0, <2>3, CompletedUntripped DEF Complete
  <2>4. ASSUME NEW a \in Attempts, Cancel(a)
        PROVE  Untripped(st')
    BY <2>0, <2>4, CallsKeepWindows, WindowsKept DEF Cancel
  <2>5. CASE (\E ok \in BOOLEAN : ProbeResult(ok)) \/ LastProbe
    <3>1. st' \in {st, ActiveResult(st, TRUE), ActiveResult(st, FALSE)}
      BY <2>5 DEF ProbeResult, LastProbe
    <3>2. \A ok \in BOOLEAN : Untripped(ActiveResult(st, ok))
      BY <2>0, ActiveResultKeepsWindows, WindowsKept
    <3> QED BY <3>1, <3>2
  <2>6. CASE UNCHANGED st
    BY <2>6
  <2> QED
    BY <2>1, <2>2, <2>3, <2>4, <2>5, <2>6 DEF Next, vars, Abort, CancelProber, Tick
<1> QED
  BY <1>0, <1>1, <1>2, Invariance, PTL DEF Spec

-----------------------------------------------------------------------------
(***************************************************************************)
(* TargetHealth implements TargetContract: every step of the record is a   *)
(* step of the contract, or none.                                          *)
(*                                                                         *)
(* HealthMove and CircuitMove say what one completion may do to the two    *)
(* halves of a record; each stage of Done is shown to make such a move,    *)
(* and at most one stage moves each half.                                  *)
(***************************************************************************)
SameHealth(s, r) == r.state = s.state /\ r.ejectedUntil = s.ejectedUntil

EjectedAt(s, r, t) ==
  /\ s.state # "down" /\ r.state = "ejected"
  /\ r.ejectedUntil = t + AtLeastOne(EjectionTime)

ProbingEnded(s, r) ==
  /\ s.state = "probing" /\ r.state \in {"healthy", "down"}
  /\ r.ejectedUntil = s.ejectedUntil

HealthMove(s, r, t) == SameHealth(s, r) \/ EjectedAt(s, r, t) \/ ProbingEnded(s, r)

SameCircuit(s, r) == r.cb = s.cb /\ r.cbUntil = s.cbUntil

OpenedAt(s, r, t) ==
  /\ s.cb \in {"closed", "halfOpen"} /\ r.cb = "open"
  /\ r.cbUntil = t + AtLeastOne(Cooldown)

Closed(s, r) == s.cb = "halfOpen" /\ r.cb = "closed" /\ r.cbUntil = s.cbUntil

CircuitMove(s, r, t) == SameCircuit(s, r) \/ OpenedAt(s, r, t) \/ Closed(s, r)

(* Giving the slot back moves neither half. *)
LEMMA ReleasedMoves ==
  ASSUME NEW s \in Target
  PROVE  /\ SameHealth(s, Released(s)) /\ SameCircuit(s, Released(s))
         /\ SameHealth(s, Cancelled(s)) /\ SameCircuit(s, Cancelled(s))
  BY DEF Released, Cancelled, SameHealth, SameCircuit, Target

(* The passive window ejects; the breaker window opens a closed breaker.   *)
LEMMA PassiveMoves ==
  ASSUME NEW s \in Target, NEW t \in Times
  PROVE  /\ \/ SameHealth(s, PassiveFailure(s, t))
            \/ EjectedAt(s, PassiveFailure(s, t), t)
         /\ SameCircuit(s, PassiveFailure(s, t))
  BY DEF PassiveFailure, Eject, Target, SameHealth, EjectedAt, SameCircuit

LEMMA BreakerMoves ==
  ASSUME NEW s \in Target, NEW t \in Times
  PROVE  /\ SameHealth(s, BreakerFailure(s, t))
         /\ \/ SameCircuit(s, BreakerFailure(s, t))
            \/ s.cb = "closed" /\ OpenedAt(s, BreakerFailure(s, t), t)
  BY DEF BreakerFailure, OpenBreaker, Target, SameHealth, SameCircuit, OpenedAt

LEMMA WindowsMoves ==
  ASSUME NEW s \in Target, NEW t \in Times, NEW ok \in BOOLEAN, Near(s, 1)
  PROVE  /\ SameHealth(s, Windows(s, ok, t)) \/ EjectedAt(s, Windows(s, ok, t), t)
         /\ \/ SameCircuit(s, Windows(s, ok, t))
            \/ s.cb = "closed" /\ OpenedAt(s, Windows(s, ok, t), t)
<1>1. CASE ok
  BY <1>1 DEF Windows, Target, SameHealth, SameCircuit
<1>2. CASE ~ok
  <2> DEFINE r == PassiveFailure(s, t)
  <2>1. r \in Target
    BY PassiveFailureSound
  <2>2. Windows(s, ok, t) = BreakerFailure(r, t)
    BY <1>2 DEF Windows
  <2>3. (SameHealth(s, r) \/ EjectedAt(s, r, t)) /\ SameCircuit(s, r)
    BY PassiveMoves
  <2> HIDE DEF r
  <2>4. /\ SameHealth(r, BreakerFailure(r, t))
        /\ \/ SameCircuit(r, BreakerFailure(r, t))
           \/ r.cb = "closed" /\ OpenedAt(r, BreakerFailure(r, t), t)
    BY <2>1, BreakerMoves
  <2> QED
    BY <2>2, <2>3, <2>4 DEF SameHealth, SameCircuit, EjectedAt, OpenedAt
<1> QED
  BY <1>1, <1>2

(* A probing verdict moves health, and only from "probing". *)
LEMMA ProbeVerdictMoves ==
  ASSUME NEW s \in Target, NEW t \in Times, NEW ok \in BOOLEAN
  PROVE  /\ \/ SameHealth(s, ProbeVerdict(s, ok, t))
            \/ s.state = "probing" /\ EjectedAt(s, ProbeVerdict(s, ok, t), t)
            \/ ProbingEnded(s, ProbeVerdict(s, ok, t))
         /\ SameCircuit(s, ProbeVerdict(s, ok, t))
<1>1. /\ SameHealth(s, s) /\ SameCircuit(s, s)
  BY DEF SameHealth, SameCircuit
<1>2. ASSUME s.state = "probing"
      PROVE  /\ SameHealth(s, ProbeSuccess(s)) \/ ProbingEnded(s, ProbeSuccess(s))
             /\ SameCircuit(s, ProbeSuccess(s))
  BY <1>2 DEF ProbeSuccess, Promote, Target, SameHealth, ProbingEnded, SameCircuit
<1>3. ASSUME s.state = "probing"
      PROVE  /\ EjectedAt(s, Eject(s, t), t) /\ SameCircuit(s, Eject(s, t))
             /\ ProbingEnded(s, Demote(s)) /\ SameCircuit(s, Demote(s))
  BY <1>3 DEF Eject, Demote, Target, EjectedAt, ProbingEnded, SameCircuit
<1> QED
  BY <1>1, <1>2, <1>3 DEF ProbeVerdict

(* A trial verdict moves the circuit, and only from half-open. *)
LEMMA TrialVerdictMoves ==
  ASSUME NEW s \in Target, NEW t \in Times, NEW ok \in BOOLEAN
  PROVE  /\ SameHealth(s, TrialVerdict(s, ok, t))
         /\ \/ SameCircuit(s, TrialVerdict(s, ok, t))
            \/ s.cb = "halfOpen" /\ OpenedAt(s, TrialVerdict(s, ok, t), t)
            \/ Closed(s, TrialVerdict(s, ok, t))
<1>1. SameHealth(s, s) /\ SameCircuit(s, s)
  BY DEF SameHealth, SameCircuit
<1>2. /\ SameHealth(s, CloseBreaker(s)) /\ SameHealth(s, OpenBreaker(s, t))
      /\ s.cb = "halfOpen" => Closed(s, CloseBreaker(s)) /\ OpenedAt(s, OpenBreaker(s, t), t)
  BY DEF CloseBreaker, OpenBreaker, Target, SameHealth, Closed, OpenedAt
<1> QED
  BY <1>1, <1>2 DEF TrialVerdict

(* A completion makes at most one move of each half. *)
LEMMA CompletedMoves ==
  ASSUME NEW s \in Target, NEW t \in Times, NEW ok \in BOOLEAN, Sound(s)
  PROVE  HealthMove(s, Completed(s, ok, t), t) /\ CircuitMove(s, Completed(s, ok, t), t)
<1> DEFINE a == Released(s)
           b == Windows(a, ok, t)
           c == ProbeVerdict(b, ok, t)
           d == TrialVerdict(c, ok, t)
<1>1. a \in Target /\ Near(a, 1) /\ SameHealth(s, a) /\ SameCircuit(s, a)
  BY ReleasedSound, ReleasedMoves
<1>2. Completed(s, ok, t) = d
  BY DEF Completed
<1> HIDE DEF a
<1>3. /\ b \in Target /\ Near(b, 1)
      /\ \/ SameHealth(a, b)
         \/ EjectedAt(a, b, t)
      /\ \/ SameCircuit(a, b)
         \/ a.cb = "closed" /\ OpenedAt(a, b, t)
  BY <1>1, WindowsSound, WindowsMoves
<1> HIDE DEF b
<1>4. /\ c \in Target
      /\ \/ SameHealth(b, c) \/ ProbingEnded(b, c)
         \/ b.state = "probing" /\ EjectedAt(b, c, t)
      /\ SameCircuit(b, c)
  BY <1>3, ProbeVerdictSound, ProbeVerdictMoves
<1> HIDE DEF c
<1>5. /\ SameHealth(c, d)
      /\ \/ SameCircuit(c, d) \/ Closed(c, d)
         \/ c.cb = "halfOpen" /\ OpenedAt(c, d, t)
  BY <1>4, TrialVerdictMoves
<1> HIDE DEF d
<1>6. HealthMove(s, d, t)
  BY <1>1, <1>3, <1>4, <1>5 DEF HealthMove, SameHealth, EjectedAt, ProbingEnded
<1>7. CircuitMove(s, d, t)
  BY <1>1, <1>3, <1>4, <1>5 DEF CircuitMove, SameCircuit, OpenedAt, Closed
<1> QED
  BY <1>2, <1>6, <1>7

(* An active check moves health along the contract's edges only. *)
LEMMA ActiveMoves ==
  ASSUME NEW s \in Target, NEW ok \in BOOLEAN
  PROVE  LET r == ActiveResult(s, ok)
         IN  /\ SameCircuit(s, r)
             /\ r.ejectedUntil = s.ejectedUntil
             /\ \/ r.state = s.state
                \/ s.state = "down" /\ r.state = "probing"
                \/ s.state = "probing" /\ r.state \in {"healthy", "down"}
                \/ s.state = "healthy" /\ r.state = "down"
<1>1. CASE ok
  BY <1>1 DEF ActiveResult, ActiveSuccess, ProbeSuccess, Promote, Target, SameCircuit
<1>2. CASE ~ok
  BY <1>2 DEF ActiveResult, ActiveFailure, Demote, Target, SameCircuit
<1> QED
  BY <1>1, <1>2

-----------------------------------------------------------------------------
(* An instant a step may use is one the contract lets a deadline count from. *)
LEMMA SampledDeadline ==
  ASSUME TypeOK, NEW t \in SampledTimes, NEW d \in Nat
  PROVE  t + AtLeastOne(d) \in Contract!Deadlines(d)
<1> DEFINE lag == now - t
           w == AtLeastOne(d)
<1>1. now \in Nat /\ t \in Nat /\ t <= now /\ now - t <= MaxLag
  BY ConstantTypes DEF TypeOK, Times, SampledTimes
<1>2. w \in Nat /\ w = Contract!AtLeastOne(d)
  BY DEF AtLeastOne, Contract!AtLeastOne
<1>3. lag \in 0 .. MaxLag
  BY <1>1, ConstantTypes
<1> HIDE DEF w
<1>4. t + w = now - lag + w
  BY <1>1, <1>2
<1> QED
  BY <1>2, <1>3, <1>4 DEF Contract!Deadlines, w

(* What the clock makes due in the record is what the contract says is.    *)
LEMMA NormalizeIsDue ==
  ASSUME IInv, NEW t \in SampledTimes,
         NEW r \in Target, r.state = Normalize(st, t).state,
         r.ejectedUntil = Normalize(st, t).ejectedUntil,
         r.cb = Normalize(st, t).cb, r.cbUntil = Normalize(st, t).cbUntil,
         st' = r
  PROVE  Contract!Due
<1>1. now \in Nat /\ t \in Nat /\ t <= now /\ st \in Target
  BY ConstantTypes DEF IInv, TypeOK, Times, SampledTimes
<1>2. st.ejectedUntil \in Nat /\ st.cbUntil \in Nat
  BY <1>1 DEF Target
<1>3. /\ r.ejectedUntil = st.ejectedUntil /\ r.cbUntil = st.cbUntil
      /\ \/ r.state = st.state
         \/ st.state = "ejected" /\ t >= st.ejectedUntil /\ r.state = "probing"
      /\ \/ r.cb = st.cb
         \/ st.cb = "open" /\ t >= st.cbUntil /\ r.cb = "halfOpen"
  BY <1>1 DEF Normalize, Reenter, HalfOpen, Target
<1> QED
  BY <1>1, <1>2, <1>3 DEF Contract!Due

LEMMA BeginPlaces ==
  ASSUME IInv, NEW a \in Attempts, NEW t \in SampledTimes, Begin(a, t)
  PROVE  Contract!Place
<1> DEFINE s == Normalize(st, t)
<1>1. s \in Target /\ s.inflight = Cardinality(Outstanding) /\ Begun(s) \in Target
  BY NormalizeSound, BegunSound
     DEF IInv, TypeOK, Consistent, InflightExact, SampledTimes, Begin
<1>2. /\ attempt[a] = "idle" /\ Admissible(s) /\ st' = Begun(s)
      /\ attempt' = [attempt EXCEPT ![a] = "live"] /\ now' = now
  BY DEF Begin
<1>3. /\ Begun(s).state = s.state /\ Begun(s).ejectedUntil = s.ejectedUntil
      /\ Begun(s).cb = s.cb /\ Begun(s).cbUntil = s.cbUntil
  BY <1>1 DEF Begun, Target
<1>4. Contract!Due
  BY <1>1, <1>2, <1>3, NormalizeIsDue
<1> HIDE DEF s
<1>5. s.state \in {"healthy", "probing"} /\ s.cb # "open"
  BY <1>1, <1>2 DEF Admissible, Target
<1>6. s.state = "probing" => Cardinality(Outstanding) = 0
  BY <1>1, <1>2, OutstandingFinite DEF Admissible
<1>7. Cardinality(Outstanding') = Cardinality(Outstanding) + 1
  BY <1>2, OutstandingGrows DEF IInv
<1> QED
  BY <1>2, <1>3, <1>4, <1>5, <1>6, <1>7 DEF Contract!Place

LEMMA LookExpires ==
  ASSUME IInv, NEW t \in SampledTimes, Look(t)
  PROVE  Contract!Expire
<1>1. Normalize(st, t) \in Target
  BY NormalizeSound DEF IInv, TypeOK, Consistent, SampledTimes
<1>2. st' = Normalize(st, t) /\ now' = now /\ attempt' = attempt
  BY DEF Look
<1>3. Contract!Due
  BY <1>1, <1>2, NormalizeIsDue
<1>4. Outstanding' = Outstanding
  BY <1>2 DEF Outstanding
<1> QED
  BY <1>2, <1>3, <1>4 DEF Contract!Expire

LEMMA CompleteReturns ==
  ASSUME IInv, NEW a \in Attempts, NEW t \in SampledTimes, NEW ok \in BOOLEAN,
         Complete(a, ok, t)
  PROVE  Contract!Return
<1> DEFINE r == Completed(st, ok, t)
<1>1. /\ attempt[a] = "live" /\ attempt' = [attempt EXCEPT ![a] = "idle"]
      /\ st' = r /\ now' = now
  BY DEF Complete
<1>2. HealthMove(st, r, t) /\ CircuitMove(st, r, t)
  BY CompletedMoves DEF IInv, TypeOK, Consistent, SampledTimes
<1> HIDE DEF r
<1>3. /\ t + AtLeastOne(EjectionTime) \in Contract!Deadlines(EjectionTime)
      /\ t + AtLeastOne(Cooldown) \in Contract!Deadlines(Cooldown)
  BY SampledDeadline, ConstantTypes DEF IInv
<1>4. \/ Contract!Idle
      \/ st.state # "down" /\ Contract!Ejected
      \/ /\ st.state = "probing" /\ st'.state \in {"healthy", "down"}
         /\ st'.ejectedUntil = st.ejectedUntil
  BY <1>1, <1>2, <1>3
     DEF HealthMove, SameHealth, EjectedAt, ProbingEnded, Contract!Idle, Contract!Ejected
<1>5. \/ st'.cb = st.cb /\ st'.cbUntil = st.cbUntil
      \/ st.cb \in {"closed", "halfOpen"} /\ Contract!Opened
      \/ st.cb = "halfOpen" /\ st'.cb = "closed" /\ st'.cbUntil = st.cbUntil
  BY <1>1, <1>2, <1>3 DEF CircuitMove, SameCircuit, OpenedAt, Closed, Contract!Opened
<1>6. Contract!Verdict
  BY <1>4, <1>5 DEF Contract!Verdict
<1>7. /\ Cardinality(Outstanding) > 0
      /\ Cardinality(Outstanding') = Cardinality(Outstanding) - 1
  BY <1>1, OutstandingShrinks DEF IInv
<1> QED
  BY <1>1, <1>6, <1>7 DEF Contract!Return

LEMMA CancelReturns ==
  ASSUME IInv, NEW a \in Attempts, Cancel(a)
  PROVE  Contract!Return
<1>1. /\ attempt[a] = "live" /\ attempt' = [attempt EXCEPT ![a] = "idle"]
      /\ st' = Cancelled(st) /\ now' = now
  BY DEF Cancel
<1>2. SameHealth(st, st') /\ SameCircuit(st, st')
  BY <1>1, ReleasedMoves DEF IInv, TypeOK
<1>3. Contract!Verdict
  BY <1>2 DEF SameHealth, SameCircuit, Contract!Verdict, Contract!Idle
<1>4. /\ Cardinality(Outstanding) > 0
      /\ Cardinality(Outstanding') = Cardinality(Outstanding) - 1
  BY <1>1, OutstandingShrinks DEF IInv
<1> QED
  BY <1>1, <1>3, <1>4 DEF Contract!Return

(* A result of the active checker, in time or late. *)
LEMMA ResultChecks ==
  ASSUME IInv, NEW ok \in BOOLEAN, st' = ActiveResult(st, ok),
         UNCHANGED <<now, attempt>>
  PROVE  Contract!Checked \/ UNCHANGED Contract!vars
<1>1. Cardinality(Outstanding') = Cardinality(Outstanding)
  BY DEF Outstanding
<1>2. /\ SameCircuit(st, st') /\ st'.ejectedUntil = st.ejectedUntil
      /\ \/ st'.state = st.state
         \/ st.state = "down" /\ st'.state = "probing"
         \/ st.state = "probing" /\ st'.state \in {"healthy", "down"}
         \/ st.state = "healthy" /\ st'.state = "down"
  BY ActiveMoves DEF IInv, TypeOK
<1> QED
  BY <1>1, <1>2 DEF SameCircuit, Contract!Checked, Contract!vars

LEMMA StepImplements ==
  IInv /\ [Next]_vars => [Contract!Next]_(Contract!vars)
<1> SUFFICES ASSUME IInv, [Next]_vars
             PROVE  Contract!Next \/ UNCHANGED Contract!vars
  OBVIOUS
<1>1. ASSUME NEW a \in Attempts, NEW t \in SampledTimes, Begin(a, t)
      PROVE  Contract!Next
  BY <1>1, BeginPlaces DEF Contract!Next
<1>2. ASSUME NEW t \in SampledTimes, Look(t)
      PROVE  Contract!Next
  BY <1>2, LookExpires DEF Contract!Next
<1>3. ASSUME NEW a \in Attempts, NEW t \in SampledTimes, NEW ok \in BOOLEAN,
             Complete(a, ok, t)
      PROVE  Contract!Next
  BY <1>3, CompleteReturns DEF Contract!Next
<1>4. ASSUME NEW a \in Attempts, Cancel(a)
      PROVE  Contract!Next
  BY <1>4, CancelReturns DEF Contract!Next
<1>5. ASSUME NEW a \in Attempts, Abort(a)
      PROVE  UNCHANGED Contract!vars
  <2>1. Outstanding' = Outstanding
    BY <1>5 DEF Abort, Outstanding, IInv, TypeOK
  <2> QED
    BY <1>5, <2>1 DEF Abort, Contract!vars
<1>6. ASSUME NEW ok \in BOOLEAN, ProbeResult(ok)
      PROVE  Contract!Next \/ UNCHANGED Contract!vars
  BY <1>6, ResultChecks DEF ProbeResult, Contract!Next
<1>7. ASSUME LastProbe
      PROVE  Contract!Next \/ UNCHANGED Contract!vars
  <2>1. CASE st' = st
    BY <1>7, <2>1 DEF LastProbe, Outstanding, Contract!vars
  <2>2. CASE st' # st
    BY <1>7, <2>2, ResultChecks DEF LastProbe, Contract!Next
  <2> QED
    BY <2>1, <2>2
<1>8. ASSUME CancelProber \/ UNCHANGED vars
      PROVE  UNCHANGED Contract!vars
  BY <1>8 DEF CancelProber, vars, Outstanding, Contract!vars
<1>9. ASSUME Tick
      PROVE  Contract!Next
  BY <1>9 DEF Tick, Outstanding, Contract!Next, Contract!Advance
<1> QED
  BY <1>1, <1>2, <1>3, <1>4, <1>5, <1>6, <1>7, <1>8, <1>9 DEF Next

(* The record of targetstate.go keeps the contract, for every number of    *)
(* attempts, every threshold and every age of the sampled instants.        *)
THEOREM Refinement == Spec => KeepsContract
<1>1. Init => Contract!Init
  <2> SUFFICES ASSUME Init PROVE Contract!Init
    OBVIOUS
  <2>1. Outstanding = {}
    BY DEF Init, Outstanding
  <2>2. Cardinality(Outstanding) = 0
    BY <2>1, FS_EmptySet
  <2> QED
    BY <2>2 DEF Init, NewTarget, Contract!Init
<1> QED
  BY <1>1, StepImplements, Invariance, PTL DEF Spec, KeepsContract, Contract!Spec
=============================================================================
