------------------------------ MODULE Limiter ------------------------------
(***************************************************************************)
(* One configured rate limiter with the memory driver                      *)
(* (internal/limiter/engine.go), and what a configuration reload does to   *)
(* it (carryState, internal/runtime/build.go).                             *)
(*                                                                         *)
(* A limiter keeps the state of its strategy per key, in shards: a map     *)
(* under one lock.  The model is of one shard; shards share nothing.  A    *)
(* reload that leaves the limiter's settings alone builds a second engine, *)
(* copies the first one's live state into it, and puts it in service some  *)
(* time later, if the rest of the build succeeds; requests that were under *)
(* way stay with the engine they found.                                    *)
(*                                                                         *)
(* A request's instant is read before the lock is taken                    *)
(* (middleware/ratelimit.go), so decisions need not use their instants in  *)
(* order; the driver's own instant, for expiry and eviction, is read under *)
(* the lock.                                                               *)
(***************************************************************************)
EXTENDS Strategies, FiniteSets, FiniteSetsExt, Functions

CONSTANTS
  Keys,             \* keys that fall in this shard
  Budget,           \* entries a shard may keep: max(max_keys / 16, 8)
  RestoreTTL,       \* life of a restored entry nobody touches: one hour
  StrategiesInUse,  \* the strategies to consider
  MaxEngines,       \* bound: engines built
  MaxTime,          \* bound: ticks of the clock
  MaxLag,           \* bound: ticks between reading an instant and deciding
  MaxUnits,         \* bound: units an engine admits, those of the ledger it inherits included
  MaxLate,          \* bound: requests that decide after their engine was replaced
  MaxRewind         \* bound: disorder per key, see Rewind

ASSUME LimiterAssumption ==
  /\ StrategiesInUse \subseteq AllStrategies
  /\ {Budget, RestoreTTL, MaxEngines} \subseteq Nat \ {0}
  /\ {MaxTime, MaxLag, MaxUnits, MaxLate, MaxRewind} \subseteq Nat

VARIABLES
  clock,
  strategy,
  shard,       \* engine -> what it keeps: key -> [state, expires, touched]
  active,      \* the engine new requests find
  building,    \* the engine a reload has built and not yet put in service, 0: none
  held,        \* engine -> key -> units admitted and not yet handed back
  \* What the properties remember:
  inherited,   \* engine -> key -> units held elsewhere that were copied in
  ledger,      \* engine -> key -> instant -> units admitted with an instant up to
               \* that one, inherited ones included
  rewound,     \* engine -> key -> disorder so far
  forgotten,   \* engine -> keys dropped while their state still mattered
  late         \* requests that decided after their engine was replaced

vars == << clock, strategy, shard, active, building, held, inherited, ledger, rewound,
           forgotten, late >>
ghosts == << inherited, ledger, rewound, forgotten, late >>

Engines == 1 .. MaxEngines
Times == 0 .. MaxTime
Cost == 1  \* ratelimit.go asks for one unit per request

Live(e, k) == k \in DOMAIN shard[e] /\ shard[e][k].expires > clock

(* lookupLocked: an expired entry is as good as none. *)
Known(e, k, now) == IF Live(e, k) THEN shard[e][k].state ELSE Blank(strategy, now)

(* memStore.update: the shard with the new state of k put in or taken out, *)
(* before eviction.                                                        *)
Updated(sh, k, keep, next) ==
  LET stored == IF keep THEN DOMAIN sh \cup {k} ELSE DOMAIN sh \ {k}
      entry == [state |-> next, expires |-> clock + TTL(strategy), touched |-> clock]
  IN  [j \in stored |-> IF j = k THEN entry ELSE sh[j]]

(* Mutant: the LRU pass takes one entry too many. *)
Evicted_OneTooMany(sh) ==
  LET live == {k \in DOMAIN sh : sh[k].expires > clock}
      oldestGone(S) == \A kept \in S, gone \in live \ S : sh[kept].touched >= sh[gone].touched
  IN  IF Cardinality(DOMAIN sh) <= Budget THEN {sh}
      ELSE IF Cardinality(live) <= Budget THEN {Restrict(sh, live)}
      ELSE {Restrict(sh, S) : S \in {S \in kSubset(Budget - 1, live) : oldestGone(S)}}

(* Mutant: only the expired go. *)
Evicted_ExpiredOnly(sh) ==
  {IF Cardinality(DOMAIN sh) <= Budget THEN sh
   ELSE Restrict(sh, {k \in DOMAIN sh : sh[k].expires > clock})}

(* evictLocked: over budget, the expired go, then those touched longest    *)
(* ago; ties fall as the sort happens to leave them.                       *)
Evicted(sh) ==
  LET live == {k \in DOMAIN sh : sh[k].expires > clock}
      oldestGone(S) == \A kept \in S, gone \in live \ S : sh[kept].touched >= sh[gone].touched
  IN  IF Cardinality(DOMAIN sh) <= Budget THEN {sh}
      ELSE IF Cardinality(live) <= Budget THEN {Restrict(sh, live)}
      ELSE {Restrict(sh, S) : S \in {S \in kSubset(Budget, live) : oldestGone(S)}}

(* What disorder is worth to a strategy when it decides at now, in windows *)
(* gone back for fixed_window and in ticks gone back for the buckets.      *)
Rewind(s, now) ==
  CASE strategy = "fixed_window" -> IF s.start > StartOf(now) THEN 1 ELSE 0
    [] strategy \in {"token_bucket", "leaky_bucket"} -> Most(0, s.last - now)
    [] OTHER -> 0

(* Entries of other keys that eviction takes while they matter, and k's    *)
(* own if it lapsed with units held: a hold matters however old it is.     *)
Lost(e, kept, k) ==
  {j \in DOMAIN shard[e] \ (DOMAIN kept \cup {k}) : Live(e, j) \/ strategy = "concurrency"}
    \cup {j \in DOMAIN shard[e] \cap {k} : ~Live(e, j) /\ strategy = "concurrency"}

(* update: everything a call does under the shard's lock. *)
Update(e, k, keep, next) ==
  \E kept \in Evicted(Updated(shard[e], k, keep, next)) :
    /\ shard' = [shard EXCEPT ![e] = kept]
    /\ forgotten' = [forgotten EXCEPT ![e] = @ \cup Lost(e, kept, k)
                       \cup {j \in {k} \ DOMAIN kept : keep}]

-----------------------------------------------------------------------------
NoUnits == [k \in Keys |-> 0]
NoAdmissions == [k \in Keys |-> [t \in Times |-> 0]]

Init ==
  /\ clock = 0
  /\ strategy \in StrategiesInUse
  /\ shard = [e \in Engines |-> << >>]
  /\ active = 1
  /\ building = 0
  /\ held = [e \in Engines |-> NoUnits]
  /\ inherited = [e \in Engines |-> NoUnits]
  /\ ledger = [e \in Engines |-> NoAdmissions]
  /\ rewound = [e \in Engines |-> NoUnits]
  /\ forgotten = [e \in Engines |-> {}]
  /\ late = 0

Used(e) == SumFunction(held[e]) + SumFunction([k \in Keys |-> ledger[e][k][MaxTime]])

(* A row of the ledger with units more, admitted at now. *)
Entered(row, now, units) == [t \in Times |-> row[t] + (IF now <= t THEN units ELSE 0)]

(* engine.Allow, for a request that read its instant now. *)
Allow(e, k, now) ==
  LET s == Known(e, k, now)
      o == Step(strategy, s, now, Cost)
      units == IF o.d.allowed THEN Cost ELSE 0
  IN  /\ e <= active
      /\ e < active => late < MaxLate
      /\ rewound[e][k] + Rewind(s, now) <= MaxRewind
      /\ Used(e) + units <= MaxUnits
      /\ Update(e, k, o.keep, o.next)
      /\ rewound' = [rewound EXCEPT ![e][k] = @ + Rewind(s, now)]
      /\ IF strategy = "concurrency"
         THEN held' = [held EXCEPT ![e][k] = @ + units] /\ UNCHANGED ledger
         ELSE ledger' = [ledger EXCEPT ![e][k] = Entered(@, now, units)] /\ UNCHANGED held
      /\ late' = IF e < active THEN late + 1 ELSE late
      /\ UNCHANGED << clock, strategy, active, building, inherited >>

(* engine.Release, by the request that was admitted. *)
Release(e, k) ==
  LET left == HandedBack(Known(e, k, clock), Cost)
  IN  /\ held[e][k] > 0
      /\ Update(e, k, left > 0, left)
      /\ held' = [held EXCEPT ![e][k] = @ - Cost]
      /\ UNCHANGED << clock, strategy, active, building, inherited, ledger, rewound, late >>

(* Mutant: nothing is carried over. *)
Restored_Nothing(sh) == << >>

(* memStore.snapshot and restore: the live entries, with a new lease. *)
Restored(sh) ==
  [k \in {k \in DOMAIN sh : sh[k].expires > clock} |->
     [state |-> sh[k].state, expires |-> clock + RestoreTTL, touched |-> clock]]

(* carryState. *)
CarryOver ==
  LET e == active + 1
      copy == Restored(shard[active])
      count(k) == IF k \in DOMAIN copy THEN copy[k].state ELSE 0
  IN  /\ building = 0
      /\ e \in Engines
      /\ building' = e
      /\ shard' = [shard EXCEPT ![e] = copy]
      /\ ledger' = [ledger EXCEPT ![e] = ledger[active]]
      /\ rewound' = [rewound EXCEPT ![e] = rewound[active]]
      /\ IF strategy = "concurrency"
         THEN inherited' = [inherited EXCEPT ![e] = [k \in Keys |-> count(k)]]
              /\ UNCHANGED forgotten
         ELSE forgotten' = [forgotten EXCEPT ![e] = forgotten[active]]
              /\ UNCHANGED inherited
      /\ UNCHANGED << clock, strategy, active, held, late >>

(* A later step of the build failed. *)
Abandon ==
  /\ building # 0
  /\ building' = 0
  /\ shard' = [shard EXCEPT ![building] = << >>]
  /\ inherited' = [inherited EXCEPT ![building] = NoUnits]
  /\ ledger' = [ledger EXCEPT ![building] = NoAdmissions]
  /\ rewound' = [rewound EXCEPT ![building] = NoUnits]
  /\ forgotten' = [forgotten EXCEPT ![building] = {}]
  /\ UNCHANGED << clock, strategy, active, held, late >>

(* The new generation is published. *)
Swap ==
  /\ building # 0
  /\ active' = building
  /\ building' = 0
  /\ UNCHANGED << clock, strategy, shard, held, ghosts >>

Tick ==
  /\ clock < MaxTime
  /\ clock' = clock + 1
  /\ UNCHANGED << strategy, shard, active, building, held, ghosts >>

Next ==
  \/ \E e \in Engines, k \in Keys, now \in Most(0, clock - MaxLag) .. clock : Allow(e, k, now)
  \/ \E e \in Engines, k \in Keys : Release(e, k)
  \/ CarryOver
  \/ Abandon
  \/ Swap
  \/ Tick

Spec == Init /\ [][Next]_vars

-----------------------------------------------------------------------------
StateOf(kind) ==
  CASE kind = "fixed_window" -> [start : Times, count : 0 .. Limit]
    [] kind = "sliding_window_log" -> UNION {[1 .. n -> Times] : n \in 0 .. Limit}
    [] kind = "sliding_window_counter" ->
         [prev : 0 .. Limit, cur : 0 .. Limit, cell : Times]
    [] kind = "token_bucket" -> [tokens : 0 .. Burst * Window, last : Times]
    [] kind = "leaky_bucket" -> [level : 0 .. Capacity * Window, last : Times]
    [] kind = "concurrency" -> 1 .. Capacity

Leases == 0 .. MaxTime + Most(RestoreTTL, TTL(strategy))

(* Every value is of its kind. *)
TypeOK ==
  /\ clock \in Times
  /\ strategy \in StrategiesInUse
  /\ DOMAIN shard = Engines
  /\ \A e \in Engines :
       /\ DOMAIN shard[e] \subseteq Keys
       /\ \A k \in DOMAIN shard[e] :
            shard[e][k] \in [state : StateOf(strategy), expires : Leases, touched : Times]
  /\ active \in Engines
  /\ building \in {0} \cup (Engines \ 1 .. active)
  /\ {held, inherited, rewound} \subseteq [Engines -> [Keys -> Nat]]
  /\ ledger \in [Engines -> [Keys -> [Times -> Nat]]]
  /\ forgotten \in [Engines -> SUBSET Keys]
  /\ late \in 0 .. MaxLate

(* A strategy's state never holds more than its settings allow, and a      *)
(* shard never keeps more entries than its share of max_keys, whatever     *)
(* keys the clients present (engine.go evictLocked).                       *)
Bounded == TypeOK /\ \A e \in Engines : Cardinality(DOMAIN shard[e]) <= Budget

(* When the driver last wrote an entry it had not restored. *)
LastUse(entry) == entry.expires - TTL(strategy)

(* Eviction spares the working set: a live entry goes only when the units  *)
(* it counted are handed back, or when as many keys as a shard may keep    *)
(* are left that have been used at least as recently: the LRU pass of      *)
(* evictLocked takes the right ones, and no more than it must.  Of the     *)
(* first engine: those a reload makes hold entries whose last use is not   *)
(* recorded.                                                               *)
WorkingSetKept ==
  [][\A k \in Keys :
       Live(1, k) /\ k \notin DOMAIN shard'[1] /\ held'[1][k] >= held[1][k] =>
         Cardinality({j \in DOMAIN shard'[1] : LastUse(shard'[1][j]) >= LastUse(shard[1][k])})
           >= Budget]_vars

(* Units with instants up to t, and within a stretch of time. *)
UpTo(row, t) == IF t < 0 THEN 0 ELSE row[Least(t, MaxTime)]
Between(row, from, to) == UpTo(row, to) - UpTo(row, from - 1)
Spent(e, k, from, to) == Between(ledger[e][k], from, to)
Remembered(e) == Keys \ forgotten[e]

(* fixed_window admits at most Limit in an aligned window, across reloads  *)
(* and whatever expires, and at most Limit more for each time a late       *)
(* decision took the window back (fixedwindow/algo.go Step).               *)
WindowExact ==
  strategy = "fixed_window" =>
    \A e \in Engines, t \in Times : \A k \in Remembered(e) :
      Spent(e, k, StartOf(t), StartOf(t) + Window - 1) <= Limit * (1 + rewound[e][k])

(* sliding_window_log admits at most Limit in any window, aligned or not;  *)
(* decisions that come late can cost the window no more than their         *)
(* lateness (slidinglog/algo.go Step).                                     *)
LogExact ==
  strategy = "sliding_window_log" =>
    \A e \in Engines, t \in Times : \A k \in Remembered(e) :
      Spent(e, k, t, t + Window - MaxLag - 1) <= Limit

Depth == IF strategy = "token_bucket" THEN Burst ELSE Capacity

(* A bucket admits, in any stretch of time, at most its depth and what has *)
(* flowed meanwhile; a decision whose instant lies before the last one's   *)
(* gives back that distance once more, and no more than that               *)
(* (tokenbucket/algo.go and leakybucket/algo.go Step).                     *)
BucketExact ==
  strategy \in {"token_bucket", "leaky_bucket"} =>
    \A e \in Engines, from \in Times : \A to \in from .. MaxTime, k \in Remembered(e) :
      Spent(e, k, from, to) * Window <= Depth * Window + Limit * (to - from + rewound[e][k])

(* A concurrency counter is the units its engine's requests hold and those *)
(* it was born with, no more and no fewer, whatever order admissions,      *)
(* releases and reloads come in (concurrency/algo.go Step, ReleaseStep).   *)
SlotsExact ==
  strategy = "concurrency" =>
    \A e \in Engines : \A k \in Remembered(e) :
      held[e][k] + inherited[e][k] =
        (IF k \in DOMAIN shard[e] THEN shard[e][k].state ELSE 0)

(* What the clock and a reload must leave room for, so that no state       *)
(* lapses that still restricts a request: a request decides within a       *)
(* window of reading its instant, and a restored entry lives as long as    *)
(* its strategy looks back.  (RestoreTTL is an hour whatever the window:   *)
(* engine.go restore.)                                                     *)
Timely ==
  /\ MaxLag <= Window
  /\ Window + MaxLag <= RestoreTTL
  /\ Most(Burst, Capacity) * Window <= Limit * (RestoreTTL - MaxLag)

(* Every strategy admits its quota and no more, in every engine, with what *)
(* it inherited, whatever the order of instants, releases and reloads.     *)
AdmitsItsQuota == WindowExact /\ LogExact /\ BucketExact /\ SlotsExact

(* Decisions tell the truth (limiter.go Decision): after an admission,     *)
(* Remaining more units would be admitted at once and not one unit more;   *)
(* after a denial the same request succeeds RetryAfter later and not       *)
(* before, but for an answer raised to MinRetry.  The two strategies that  *)
(* only give a hint are left out of the second part.                       *)
HonestDecision ==
  \A e \in 1 .. active, k \in Keys, now \in Most(0, clock - MaxLag) .. clock :
    LET o == Step(strategy, Known(e, k, now), now, Cost)
        admits(t, cost) == Step(strategy, o.next, t, cost).d.allowed
    IN  IF o.d.allowed
        THEN (o.d.remaining = 0 \/ admits(now, o.d.remaining))
             /\ ~admits(now, o.d.remaining + 1)
        ELSE strategy \notin {"sliding_window_counter", "concurrency"} =>
               /\ admits(now + o.d.retryAfter, Cost)
               /\ \A t \in now .. now + o.d.retryAfter - 1 :
                    t = now \/ o.d.retryAfter > MinRetry => ~admits(t, Cost)

(* An entry's life ends only when it no longer matters: from the instant   *)
(* it expires, every request would be answered as it is when nothing is    *)
(* stored (the TTL methods).                                               *)
ExpiryHarmless ==
  strategy # "concurrency" =>
    \A e \in Engines : \A k \in DOMAIN shard[e] :
      \A now \in shard[e][k].expires - MaxLag .. shard[e][k].expires + Window :
        Step(strategy, shard[e][k].state, now, Cost).d
          = Step(strategy, Blank(strategy, now), now, Cost).d

-----------------------------------------------------------------------------
(* What the documents say and the code does not do. *)

(* README: sliding_window_counter is approximate, by a fraction of Limit.  *)
(* Here: no window admits twice Limit.                                     *)
CounterApproximates ==
  strategy = "sliding_window_counter" =>
    \A e \in Engines, t \in Times : \A k \in Remembered(e) :
      Spent(e, k, t, t + Window - 1) <= 2 * Limit

(* README: concurrency slots are released exactly once at response         *)
(* completion.  Here: when nothing is in flight, no slot is taken.         *)
SlotsReturn ==
  strategy = "concurrency" =>
    \A k \in Keys :
      (\A e \in Engines : held[e][k] = 0) => Known(active, k, clock) = 0
=============================================================================
