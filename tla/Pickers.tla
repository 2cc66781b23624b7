------------------------------ MODULE Pickers ------------------------------
(***************************************************************************)
(* The choice of a target (internal/pool/picker_*.go): one pool, its       *)
(* picker under a mutex, and the callers that pick, hold a target and      *)
(* report it done.                                                         *)
(*                                                                         *)
(* A picker looks at one target after the other and then reserves the one  *)
(* it settled on.  The targets have mutexes of their own: their health,    *)
(* their counts and the callers' Done move between any two of these steps, *)
(* so that a target found available may refuse.  Of the targets' health    *)
(* (module TargetHealth) there remains what a picker can tell apart.       *)
(***************************************************************************)
EXTENDS Integers, Sequences, FiniteSetsExt

CONSTANTS
  Callers,      \* goroutines that pick: attempts of requests
  Mirrors,      \* those that pick for a mirrored request
  N,            \* number of targets
  Balances,     \* the values of load_balance in use
  Weights,      \* the weights the targets may have
  Keys,         \* the hash keys in use: NoKey, or how many places of
                \* Placement their hash lies beyond
  Placement,    \* the ring's places in the order of their hashes, each the
                \* target and the number of the replica that falls there
  VnodeFactor,  \* places on the ring for each unit of weight
  MaxTurns,     \* bound: changes of the targets' health
  MaxPicks,     \* bound: picks counted while all is calm
  MaxCredit,    \* bound: round-robin credit
  MaxInflight   \* bound: attempts in flight on one target

Targets == 0 .. N - 1
Nobody == -1
NoKey == -1

LoadBalancers == {"round_robin", "least_connections", "ring_hash"}

ASSUME PickersAssumption ==
  /\ IsFiniteSet(Callers) /\ Mirrors \subseteq Callers
  /\ N \in Nat \ {0}
  /\ Balances \subseteq LoadBalancers
  /\ Weights \subseteq [Targets -> Nat]
  /\ Placement \in Seq(Targets \X Nat)
  /\ Keys \subseteq {NoKey} \cup 0 .. Len(Placement)
  /\ VnodeFactor \in Nat \ {0}
  \* every replica that a weight grants has a place (newRingHashPicker)
  /\ \A w \in Weights, i \in Targets : \A j \in 0 .. w[i] * VnodeFactor - 1 :
       \E p \in DOMAIN Placement : Placement[p] = << i, j >>
  /\ {MaxTurns, MaxPicks, MaxCredit, MaxInflight} \subseteq Nat

VARIABLES
  balance,   \* load_balance of the pool
  weight,    \* weight[i]: configured weight of target i
  health,    \* health[i]: "up", "probing" (one attempt at a time) or "out"
  inflight,  \* inflight[i]: attempts begun on i and not reported
  cur,       \* cur[i]: round robin's current weight of i
  rot,       \* where the next rotation starts
  pick,      \* pick[c]: the call of Pick that c is in
  hold,      \* hold[c]: the target c was given and has not reported
  turns,     \* bounded: changes of health so far
  calm,      \* history: the targets in service have not changed since the
             \* first pick
  tally      \* history: round robin's choices, per target, while calm

vars == <<balance, weight, health, inflight, cur, rot, pick, hold, turns, calm, tally>>

-----------------------------------------------------------------------------
(* A call of Pick. *)

NoCall ==
  [at |-> "idle", key |-> NoKey, off |-> 0, best |-> Nobody, fewest |-> 0, total |-> 0,
   excluded |-> {}, seen |-> {}, first |-> [i \in Targets |-> 0]]

Call ==
  [at : {"idle", "look", "reserve"}, key : {NoKey} \cup Nat, off : Nat,
   best : Targets \cup {Nobody}, fewest : Nat, total : Nat, excluded : SUBSET Targets,
   seen : SUBSET Targets,      \* history: found unavailable, or refused
   first : [Targets -> Nat]]   \* history: the counts when the call began

(* The pool's ring: those places whose replica the target's weight grants. *)
Ring == {p \in DOMAIN Placement : Placement[p][2] < weight[Placement[p][1]] * VnodeFactor}

Vnodes == Cardinality(Ring)

(* The place that n places of the ring come before. *)
Place(n) == CHOOSE p \in Ring : Cardinality({q \in Ring : q < p}) = n

(* Where the walk for a key starts: the first place at or after its hash. *)
Search(key) == Cardinality({p \in Ring : p <= key})

(* Mutant: the walk starts where the last one ended, not at the key. *)
Walk_Rotated(key, off) == Placement[Place((rot + off) % Vnodes)][1]

Walk(key, off) == Placement[Place((Search(key) + off) % Vnodes)][1]

Keyed(p) == balance = "ring_hash" /\ p.key # NoKey

(* How many looks one pass takes, at whom each is, and the next one. *)
Size(p) == IF Keyed(p) THEN Vnodes ELSE N

LookAt(p, off) ==
  IF Keyed(p) THEN Walk(p.key, off)
  ELSE IF balance = "round_robin" THEN off
  ELSE (off + rot) % N

At(p) == LookAt(p, p.off)

(* availableLocked: an out-of-service target is not looked at further; a   *)
(* probing one is, whatever it has in flight.                              *)
Available(i) == weight[i] > 0 /\ health[i] # "out"

(* begin, which decides. *)
Admits(i) == Available(i) /\ ~(health[i] = "probing" /\ inflight[i] >= 1)

-----------------------------------------------------------------------------
Init ==
  /\ balance \in Balances
  /\ weight \in Weights
  /\ health = [i \in Targets |-> "up"]
  /\ inflight = [i \in Targets |-> 0]
  /\ cur = [i \in Targets |-> 0]
  /\ rot = 0
  /\ pick = [c \in Callers |-> NoCall]
  /\ hold = [c \in Callers |-> Nobody]
  /\ turns = 0
  /\ calm = TRUE
  /\ tally = [i \in Targets |-> 0]

Unlocked == \A c \in Callers : pick[c].at = "idle"

(* Sums over the targets: over those before n, and over all. *)
RunningTotal(f) ==
  LET s[n \in 0 .. N] == IF n = 0 THEN 0 ELSE s[n - 1] + f[n - 1]
  IN  s

Total(f) == RunningTotal(f)[N]

Bounded ==
  /\ \A i \in Targets : cur[i] \in -MaxCredit .. MaxCredit /\ inflight[i] < MaxInflight
  /\ Total(tally) < MaxPicks

(* A caller enters Pick.  A mirror has no key (forward.go:635). *)
Pick(c, key) ==
  /\ pick[c].at = "idle" /\ hold[c] = Nobody
  /\ Unlocked
  /\ Bounded
  /\ c \in Mirrors => key = NoKey
  /\ pick' = [pick EXCEPT ![c] = 
       [NoCall EXCEPT !.at = "look", !.key = key,
                      !.first = IF balance = "least_connections" THEN inflight ELSE @]]
  /\ UNCHANGED <<balance, weight, health, inflight, cur, rot, hold, turns, calm, tally>>

Looking(c) == pick[c].at = "look" /\ pick[c].off < Size(pick[c])

Advanced(p) == [p EXCEPT !.off = @ + 1]

(* The target looked at was looked at before, or is not available. *)
Skip(c) ==
  LET p == pick[c]
      i == At(p)
  IN  /\ Looking(c)
      /\ i \in p.excluded \/ ~Available(i)
      /\ pick' = [pick EXCEPT ![c] =
           [Advanced(p) EXCEPT
              !.excluded = IF Keyed(p) THEN @ \cup {i} ELSE @,
              !.seen = IF i \in p.excluded THEN @ ELSE @ \cup {i}]]
      /\ UNCHANGED <<balance, weight, health, inflight, cur, rot, hold, turns, calm, tally>>

Eligible(c) == Looking(c) /\ At(pick[c]) \notin pick[c].excluded /\ Available(At(pick[c]))

(* Mutant: every target in rotation counts the same. *)
Gain_Alike(i) == 1

Gain(i) == weight[i]

(* Round robin gives every eligible target its weight and remembers the    *)
(* first that has the most.                                                *)
LookInTurn(c) ==
  LET p == pick[c]
      i == At(p)
  IN  /\ balance = "round_robin" /\ Eligible(c)
      /\ cur' = [cur EXCEPT ![i] = @ + Gain(i)]
      /\ pick' = [pick EXCEPT ![c] =
           [Advanced(p) EXCEPT
              !.total = @ + Gain(i),
              !.best = IF @ = Nobody \/ cur'[i] > cur'[@] THEN i ELSE @]]
      /\ UNCHANGED <<balance, weight, health, inflight, rot, hold, turns, calm, tally>>

(* Mutant: a tie goes to the lighter target. *)
Prefers_Lighter(p, i) ==
  \/ p.best = Nobody
  \/ inflight[i] < p.fewest
  \/ inflight[i] = p.fewest /\ weight[i] < weight[p.best]

(* Fewest in flight, then the heavier, then the one met first. *)
Prefers(p, i) ==
  \/ p.best = Nobody
  \/ inflight[i] < p.fewest
  \/ inflight[i] = p.fewest /\ weight[i] > weight[p.best]

LookForFewest(c) ==
  LET p == pick[c]
      i == At(p)
  IN  /\ balance = "least_connections" /\ Eligible(c)
      /\ pick' = [pick EXCEPT ![c] =
           IF Prefers(p, i)
           THEN [Advanced(p) EXCEPT !.best = i, !.fewest = inflight[i]]
           ELSE Advanced(p)]
      /\ UNCHANGED <<balance, weight, health, inflight, cur, rot, hold, turns, calm, tally>>

(* The ring takes the first available target; without a key it moves the   *)
(* start of the rotation on before it tries it.                            *)
LookAlongRing(c) ==
  LET p == pick[c]
      i == At(p)
  IN  /\ balance = "ring_hash" /\ Eligible(c)
      /\ rot' = IF Keyed(p) THEN rot ELSE (rot + 1) % N
      /\ pick' = [pick EXCEPT ![c] =
           [p EXCEPT !.at = "reserve", !.best = i,
                     !.excluded = IF Keyed(p) THEN @ \cup {i} ELSE @]]
      /\ UNCHANGED <<balance, weight, health, inflight, cur, hold, turns, calm, tally>>

(* The pass is over: round robin and least connections settle. *)
Settle(c) ==
  LET p == pick[c]
  IN  /\ p.at = "look" /\ p.off = Size(p) /\ p.best # Nobody
      /\ pick' = [pick EXCEPT ![c].at = "reserve"]
      /\ cur' = IF balance = "round_robin" THEN [cur EXCEPT ![p.best] = @ - p.total] ELSE cur
      /\ rot' = IF balance = "least_connections" THEN (rot + 1) % N ELSE rot
      /\ UNCHANGED <<balance, weight, health, inflight, hold, turns, calm, tally>>

(* Nobody is left: ErrNoHealthy. *)
Fail(c) ==
  LET p == pick[c]
  IN  /\ p.at = "look" /\ p.off = Size(p) /\ p.best = Nobody
      /\ pick' = [pick EXCEPT ![c] = NoCall]
      /\ rot' = IF balance = "ring_hash" /\ ~Keyed(p) THEN (rot + 1) % N ELSE rot
      /\ UNCHANGED <<balance, weight, health, inflight, cur, hold, turns, calm, tally>>

(* The target admits the attempt, which is the caller's from now on. *)
Reserve(c) ==
  LET i == pick[c].best
  IN  /\ pick[c].at = "reserve" /\ Admits(i)
      /\ inflight' = [inflight EXCEPT ![i] = @ + 1]
      /\ hold' = [hold EXCEPT ![c] = i]
      /\ pick' = [pick EXCEPT ![c] = NoCall]
      /\ tally' = IF calm /\ balance = "round_robin" THEN [tally EXCEPT ![i] = @ + 1] ELSE tally
      /\ UNCHANGED <<balance, weight, health, cur, rot, turns, calm>>

(* Mutant: the target that refused stays in the running. *)
Anew_NotExcluded(p) == [p EXCEPT !.at = "look", !.off = 0, !.best = Nobody, !.total = 0,
                                 !.fewest = 0]

(* A pass from the start without the target that refused. *)
Anew(p) ==
  [p EXCEPT !.at = "look", !.off = 0, !.best = Nobody, !.total = 0, !.fewest = 0,
            !.excluded = @ \cup {p.best}]

(* Mutant: the ring gives up at the first refusal. *)
Onward_GivesUp(p) == [p EXCEPT !.at = "look", !.off = Size(p), !.best = Nobody]

Onward(p) == [Advanced(p) EXCEPT !.at = "look", !.best = Nobody]

(* The target refuses.  Round robin takes back what the choice cost, but   *)
(* not what the pass gave to each; the ring goes on to the next.           *)
Refuse(c) ==
  LET p == pick[c]
      q == IF balance = "ring_hash" THEN Onward(p) ELSE Anew(p)
  IN  /\ p.at = "reserve" /\ ~Admits(p.best)
      /\ pick' = [pick EXCEPT ![c] = [q EXCEPT !.seen = @ \cup {p.best}]]
      /\ cur' = IF balance = "round_robin" THEN [cur EXCEPT ![p.best] = @ + p.total] ELSE cur
      /\ UNCHANGED <<balance, weight, health, inflight, rot, hold, turns, calm, tally>>

(* The caller is through with its target.  A mirrored request never says   *)
(* so (forward.go:631-690).                                                *)
Done(c) ==
  /\ hold[c] # Nobody
  /\ inflight' = IF c \in Mirrors THEN inflight ELSE [inflight EXCEPT ![hold[c]] = @ - 1]
  /\ hold' = [hold EXCEPT ![c] = Nobody]
  /\ UNCHANGED <<balance, weight, health, cur, rot, pick, turns, calm, tally>>

(* A target's health moves on: out of service, back on trial, recovered.   *)
Turn(i) ==
  /\ turns < MaxTurns
  /\ turns' = turns + 1
  /\ \E to \in {"up", "probing", "out"} :
       /\ <<health[i], to>> \in {<<"up", "out">>, <<"out", "probing">>,
                                 <<"probing", "up">>, <<"probing", "out">>}
       /\ health' = [health EXCEPT ![i] = to]
       /\ calm' = (calm /\ to # "probing" /\ Unlocked /\ \A j \in Targets : cur[j] = 0)
  /\ tally' = [j \in Targets |-> 0]
  /\ UNCHANGED <<balance, weight, inflight, cur, rot, pick, hold>>

Step(c) ==
  \/ Skip(c) \/ LookInTurn(c) \/ LookForFewest(c) \/ LookAlongRing(c)
  \/ Settle(c) \/ Fail(c) \/ Reserve(c) \/ Refuse(c)

Next ==
  \/ \E c \in Callers : Step(c) \/ Done(c)
  \/ \E c \in Callers, key \in Keys : Pick(c, key)
  \/ \E i \in Targets : Turn(i)

Spec == Init /\ [][Next]_vars

(* A call that holds the picker's mutex runs on. *)
FairSpec == Spec /\ \A c \in Callers : WF_vars(Step(c))

-----------------------------------------------------------------------------
(* Every variable keeps to its type. *)
TypeOK ==
  /\ balance \in Balances /\ weight \in Weights
  /\ health \in [Targets -> {"up", "probing", "out"}]
  /\ inflight \in [Targets -> Nat]
  /\ cur \in [Targets -> Int]
  /\ rot \in Targets
  /\ pick \in [Callers -> Call]
  /\ hold \in [Callers -> Targets \cup {Nobody}]
  /\ turns \in Nat /\ calm \in BOOLEAN
  /\ tally \in [Targets -> Nat]

InRotation == {i \in Targets : weight[i] > 0}

Fails(c) == pick[c].at = "look" /\ pick'[c].at = "idle"

(* "ErrNoHealthy is returned by Pick when no target may receive traffic"   *)
(* (pool.go:152): when a call fails, it has found every target in rotation *)
(* unavailable or been refused by it.  The keyless walk of the ring is     *)
(* left out here.                                                          *)
NoneLeft ==
  [][\A c \in Callers :
       Fails(c) /\ (balance = "ring_hash" => Keyed(pick[c])) => InRotation \subseteq pick[c].seen]_vars

(* The same for every call: what the keyless walk breaks.                  *)
NonePassedOver ==
  [][\A c \in Callers : Fails(c) => InRotation \subseteq pick[c].seen]_vars

(* How far along the ring from the key target i is met first. *)
Distance(key, i) ==
  Min({off \in 0 .. Vnodes - 1 : Placement[Place((Search(key) + off) % Vnodes)][1] = i})

(* Target j should have been given rather than i: it had fewer attempts in *)
(* flight throughout, or as few and more weight; it lies nearer the key.   *)
Preferable(p, j, i) ==
  \/ /\ balance = "least_connections"
     /\ \/ p.first[j] < inflight[i]
        \/ p.first[j] = inflight[i] /\ weight[j] > weight[i]
  \/ Keyed(p) /\ Distance(p.key, j) < Distance(p.key, i)

(* A call is given the target its strategy prefers among those it was not  *)
(* turned away from, although counts and health move while it looks: what  *)
(* it read of a count only falls until it reserves (picker_leastconn.go,   *)
(* picker_ringhash.go).                                                    *)
BestAdmitted ==
  [][\A c \in Callers : hold[c] = Nobody /\ hold'[c] # Nobody =>
       \A j \in InRotation \ pick[c].seen : ~Preferable(pick[c], j, hold'[c])]_vars

(* The targets that round robin serves, each with its weight. *)
Serving == {i \in InRotation : health[i] # "out"}

Shares == [i \in Targets |-> IF i \in Serving THEN weight[i] ELSE 0]

(* Smooth round robin "yields exact weight-proportional distribution over  *)
(* full cycles" (picker_roundrobin.go:8-11): while the targets in service  *)
(* stay the same, none is ever a whole pick ahead of its share, and after  *)
(* every full cycle each has exactly its share.                            *)
Proportional ==
  LET cycle == Total(Shares)
      picks == Total(tally)
  IN  calm => \A i \in Serving :
                /\ tally[i] * cycle - picks * weight[i] < cycle
                /\ picks % cycle = 0 => tally[i] * cycle = picks * weight[i]

(* Every attempt counted in flight is held by a caller who will report it; *)
(* a mirrored request breaks it.                                           *)
InflightHeld ==
  \A i \in Targets : inflight[i] = Cardinality({c \in Callers : hold[c] = i})

(* A call of Pick comes to an end, whatever the targets do meanwhile.      *)
PickEnds == \A c \in Callers : pick[c].at # "idle" ~> pick[c].at = "idle"
=============================================================================
