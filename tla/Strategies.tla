----------------------------- MODULE Strategies -----------------------------
(***************************************************************************)
(* The six admission strategies (internal/limiter/*/algo.go), each a pure  *)
(* step from a key's state, an instant and a cost to the next state and a  *)
(* decision, and the clamps the engine puts on every decision              *)
(* (engine.go step).                                                       *)
(*                                                                         *)
(* Time counts ticks of the finest duration that matters.  The buckets'    *)
(* fractional levels are held exactly, as multiples of 1/Window: a bucket  *)
(* of n units is n * Window, and Limit units of it move per tick.          *)
(***************************************************************************)
EXTENDS Integers, Sequences, SequencesExt

CONSTANTS
  Limit, Window,  \* required by every strategy (concurrency has no window)
  Burst,          \* token_bucket
  Capacity,       \* leaky_bucket and concurrency
  Cells,          \* sliding_window_counter
  MinRetry,       \* one millisecond
  MinIdle,        \* one minute: the least TTL of a bucket
  HoldTTL,        \* one hour: TTL of a concurrency counter
  RetryHint       \* what a full concurrency counter tells the client

(* What the factories accept (limiter/*/factory.go). *)
ASSUME StrategyAssumption ==
  /\ {Limit, Window, Burst, Capacity, MinRetry, HoldTTL, RetryHint} \subseteq Nat \ {0}
  /\ MinIdle \in Nat
  /\ Cells \in Nat \ {0, 1}
  /\ Window >= Cells

AllStrategies ==
  {"fixed_window", "sliding_window_log", "sliding_window_counter", "token_bucket",
   "leaky_bucket", "concurrency"}

Least(a, b) == IF a < b THEN a ELSE b
Most(a, b) == IF a > b THEN a ELSE b
(* Mutant: a waiting time is rounded down. *)
CeilDiv_Down(a, b) == a \div b

CeilDiv(a, b) == (a + b - 1) \div b

Grant(limit, remaining, reset) ==
  [allowed |-> TRUE, limit |-> limit, remaining |-> remaining, retryAfter |-> 0,
   resetIn |-> reset]

Deny(limit, remaining, retry, reset) ==
  [allowed |-> FALSE, limit |-> limit, remaining |-> remaining,
   retryAfter |-> Most(MinRetry, retry), resetIn |-> reset]

(* keep = FALSE: nothing is stored under the key. *)
Outcome(next, d) == [keep |-> TRUE, next |-> next, d |-> d]

-----------------------------------------------------------------------------
(* fixed_window *)
StartOf(now) == now - (now % Window)

FixedWindow(s, now, cost) ==
  LET start == StartOf(now)
      count == IF s.start = start THEN s.count ELSE 0
      reset == Window - (now - start)
  IN  IF count + cost <= Limit
      THEN Outcome([start |-> start, count |-> count + cost],
                   Grant(Limit, Limit - (count + cost), reset))
      ELSE Outcome([start |-> start, count |-> count], Deny(Limit, 0, reset, reset))

(* sliding_window_log: the instants of the admitted units, ascending. *)

(* How many events come before the first that is later than t. *)
Through(events, t) ==
  CHOOSE n \in 0 .. Len(events) :
    /\ \A i \in 1 .. n : events[i] <= t
    /\ n < Len(events) => events[n + 1] > t

(* capTo and prune: the oldest go. *)
Capped(events) ==
  IF Len(events) > Limit THEN SubSeq(events, Len(events) - Limit + 1, Len(events))
  ELSE events

Inside(events, now) ==
  Capped(SubSeq(events, Through(events, now - Window) + 1, Len(events)))

(* The units are appended and the list is sorted again. *)
Logged(events, now, cost) ==
  LET n == Through(events, now)
  IN  SubSeq(events, 1, n) \o [i \in 1 .. cost |-> now] \o SubSeq(events, n + 1, Len(events))

SlidingLog(events, now, cost) ==
  LET inside == Inside(events, now)
      k == Len(inside) + cost - Limit
      logged == Logged(inside, now, cost)
  IN  IF k <= 0
      THEN Outcome(logged, Grant(Limit, Limit - Len(logged), logged[1] - (now - Window)))
      ELSE Outcome(inside,
             Deny(Limit, 0,
                  IF cost <= Limit /\ k <= Len(inside)
                  THEN inside[k] - (now - Window) ELSE Window,
                  IF inside = <<>> THEN 0 ELSE inside[1] - (now - Window)))

(* sliding_window_counter: the present cell and the one before it. *)
CellWidth == Window \div Cells

Advanced(s, cell) ==
  CASE cell = s.cell + 1 -> [prev |-> s.cur, cur |-> 0, cell |-> cell]
    [] cell > s.cell + 1 -> [prev |-> 0, cur |-> 0, cell |-> cell]
    [] OTHER -> s

SlidingCounter(s, now, cost) ==
  LET z == Advanced(s, now \div CellWidth)
      left == CellWidth - (now % CellWidth)
      used == (z.prev * left) \div CellWidth + z.cur
      reset == left + CellWidth * (Cells - 1)
  IN  IF used + cost <= Limit
      THEN Outcome([z EXCEPT !.cur = @ + cost], Grant(Limit, Limit - (used + cost), reset))
      ELSE Outcome(z, Deny(Limit, Most(0, Limit - used), left, reset))

(* token_bucket *)
Refilled(s, now) ==
  Least(Burst * Window, s.tokens + (now - Least(s.last, now)) * Limit)

TokenBucket(s, now, cost) ==
  LET tokens == Refilled(s, now)
      need == cost * Window
      left == IF need <= tokens THEN tokens - need ELSE tokens
      reset == (Burst * Window - left) \div Limit
  IN  Outcome([tokens |-> left, last |-> now],
        IF need <= tokens THEN Grant(Burst, left \div Window, reset)
        ELSE Deny(Burst, 0, CeilDiv(need - tokens, Limit), reset))

(* leaky_bucket *)
Leaked(s, now) == Most(0, s.level - (now - Least(s.last, now)) * Limit)

LeakyBucket(s, now, cost) ==
  LET level == Leaked(s, now)
      over == level + cost * Window - Capacity * Window
      after == IF over <= 0 THEN level + cost * Window ELSE level
      reset == after \div Limit
  IN  Outcome([level |-> after, last |-> now],
        IF over <= 0 THEN Grant(Capacity, (Capacity * Window - after) \div Window, reset)
        ELSE Deny(Capacity, 0, CeilDiv(over, Limit), reset))

(* concurrency *)
Concurrency(current, cost) ==
  IF current + cost <= Capacity
  THEN Outcome(current + cost, Grant(Capacity, Capacity - (current + cost), 0))
  ELSE [keep |-> current # 0, next |-> current, d |-> Deny(Capacity, 0, RetryHint, 0)]

(* Mutant: the counter is cleared. *)
HandedBack_All(current, cost) == 0

(* ReleaseStep: what is left when cost units are handed back; 0 is absent. *)
HandedBack(current, cost) == current - Least(cost, current)

-----------------------------------------------------------------------------
(* The state a strategy starts from when nothing is stored. *)
Blank(strategy, now) ==
  CASE strategy = "fixed_window" -> [start |-> 0, count |-> 0]
    [] strategy = "sliding_window_log" -> <<>>
    [] strategy = "sliding_window_counter" -> [prev |-> 0, cur |-> 0, cell |-> 0]
    [] strategy = "token_bucket" -> [tokens |-> Burst * Window, last |-> now]
    [] strategy = "leaky_bucket" -> [level |-> 0, last |-> now]
    [] strategy = "concurrency" -> 0

Step(strategy, s, now, cost) ==
  CASE strategy = "fixed_window" -> FixedWindow(s, now, cost)
    [] strategy = "sliding_window_log" -> SlidingLog(s, now, cost)
    [] strategy = "sliding_window_counter" -> SlidingCounter(s, now, cost)
    [] strategy = "token_bucket" -> TokenBucket(s, now, cost)
    [] strategy = "leaky_bucket" -> LeakyBucket(s, now, cost)
    [] strategy = "concurrency" -> Concurrency(s, cost)

(* Mutant: one window is taken to be enough. *)
TTL_OneWindow(strategy) == IF strategy = "concurrency" THEN HoldTTL ELSE Window

TTL(strategy) ==
  CASE strategy \in {"fixed_window", "sliding_window_log", "sliding_window_counter"} ->
         2 * Window
    [] strategy = "token_bucket" -> Most(MinIdle, 2 * Window + 2 * ((Window * Burst) \div Limit))
    [] strategy = "leaky_bucket" -> Most(MinIdle, 2 * Window + 2 * ((Window * Capacity) \div Limit))
    [] strategy = "concurrency" -> HoldTTL
=============================================================================
