---------------------------- MODULE LimiterProofs ----------------------------
(***************************************************************************)
(* Theorems about Limiter: every strategy admits its quota and no more,    *)
(* a shard keeps within its budget, and what expires no longer matters,    *)
(* whatever the limits, the keys, the order of instants and the reloads.   *)
(***************************************************************************)
EXTENDS Limiter, FiniteSetTheorems, SequenceTheorems, WellFoundedInduction, TLAPS

-----------------------------------------------------------------------------
(* Arithmetic.                                                             *)

LEMMA Settings ==
  /\ Limit \in Nat /\ Window \in Nat /\ Burst \in Nat /\ Capacity \in Nat /\ Cells \in Nat
  /\ Limit >= 1 /\ Window >= 1 /\ Burst >= 1 /\ Capacity >= 1 /\ Cells >= 2 /\ Window >= Cells
  /\ MinRetry \in Nat /\ MinIdle \in Nat /\ HoldTTL \in Nat /\ HoldTTL >= 1 /\ RetryHint \in Nat
  /\ MinRetry >= 1 /\ RetryHint >= 1
  BY StrategyAssumption

LEMMA Bounds ==
  /\ Budget \in Nat /\ RestoreTTL \in Nat /\ MaxEngines \in Nat /\ MaxTime \in Nat
  /\ MaxLag \in Nat /\ MaxUnits \in Nat /\ MaxLate \in Nat /\ MaxRewind \in Nat
  /\ Budget >= 1 /\ RestoreTTL >= 1 /\ MaxEngines >= 1
  BY LimiterAssumption

LEMMA DivMod ==
  ASSUME NEW a \in Int, NEW b \in Nat \ {0}
  PROVE  /\ a \div b \in Int /\ a % b \in Int
         /\ a = b * (a \div b) + (a % b) /\ 0 <= a % b /\ a % b < b
  OBVIOUS

LEMMA DivNat ==
  ASSUME NEW a \in Nat, NEW b \in Nat \ {0}
  PROVE  a \div b \in Nat /\ b * (a \div b) <= a /\ a \div b <= a /\ a < b * (a \div b) + b
<1>1. b * (a \div b) <= a /\ a \div b \in Int /\ a < b * (a \div b) + b
  BY DivMod
<1>2. a \div b >= 0
  <2> SUFFICES ASSUME a \div b <= -1 PROVE FALSE
    BY <1>1
  <2>1. b * (a \div b) <= b * (-1)
    BY <1>1
  <2> QED BY <1>1, <2>1
<1>3. b * (a \div b) >= a \div b
  BY <1>1, <1>2
<1> QED BY <1>1, <1>2, <1>3

(* Multiplication keeps an order. *)
LEMMA Scaled ==
  ASSUME NEW n \in Nat, NEW a \in Int, NEW b \in Int, a <= b
  PROVE  n * a \in Int /\ n * b \in Int /\ n * a <= n * b
  OBVIOUS

LEMMA Spread ==
  ASSUME NEW n \in Int, NEW a \in Int, NEW b \in Int
  PROVE  n * (a + b) = n * a + n * b
  OBVIOUS

(* Every set of naturals that is not empty has a least element. *)
LEMMA LeastNat ==
  ASSUME NEW T \in SUBSET Nat, T # {}
  PROVE  \E n \in T : \A m \in T : n <= m
<1>1. \E x \in T : \A y \in T : ~ (<< y, x >> \in OpToRel(<, Nat))
  BY NatLessThanWellFounded, WFMin, Zenon
<1>2. PICK x \in T : \A y \in T : ~ (<< y, x >> \in OpToRel(<, Nat))
  BY <1>1, Zenon
<1>3. \A y \in T : ~(y < x)
  <2> SUFFICES ASSUME NEW y \in T, y < x PROVE FALSE
    OBVIOUS
  <2>1. << y, x >> \in OpToRel(<, Nat)
    BY Zenon DEF OpToRel
  <2> QED BY <1>2, <2>1, Zenon
<1> HIDE <1>2
<1> QED BY <1>3

(* The window an instant falls in. *)
LEMMA Start ==
  ASSUME NEW t \in Nat
  PROVE  StartOf(t) \in Nat /\ StartOf(t) <= t /\ t < StartOf(t) + Window
  BY DivMod, Settings DEF StartOf

LEMMA SameStart ==
  ASSUME NEW t \in Nat, NEW u \in Nat, StartOf(u) <= t, t < StartOf(u) + Window
  PROVE  StartOf(t) = StartOf(u)
<1> DEFINE p == u \div Window
           q == t \div Window
<1>1. StartOf(u) = Window * p /\ StartOf(t) = Window * q /\ p \in Int /\ q \in Int
  BY DivMod, Settings DEF StartOf
<1>2. Window * q <= t /\ t < Window * q + Window
  BY Start, <1>1
<1>3. Window * p < Window * (q + 1) /\ Window * q < Window * (p + 1)
  BY <1>1, <1>2, Settings
<1>4. p < q + 1 /\ q < p + 1
  <2> HIDE DEF p, q
  <2>1. p \in Int /\ q \in Int
    BY <1>1
  <2>2. p >= q + 1 => Window * p >= Window * (q + 1)
    BY <2>1, Settings
  <2>3. q >= p + 1 => Window * q >= Window * (p + 1)
    BY <2>1, Settings
  <2>4. Window * p \in Int /\ Window * q \in Int /\ Window * (q + 1) \in Int /\ Window * (p + 1) \in Int
    BY <2>1, Settings
  <2> QED BY <1>3, <2>1, <2>2, <2>3, <2>4
<1> QED BY <1>1, <1>4

-----------------------------------------------------------------------------
(* Rows of the ledger.                                                     *)

Rows == {row \in [Times -> Nat] : \A s, t \in Times : s <= t => row[s] <= row[t]}

LEMMA UpToType ==
  ASSUME NEW row \in Rows, NEW t \in Int
  PROVE  UpTo(row, t) \in Nat
  BY Bounds DEF Rows, UpTo, Times, Least

LEMMA UpToGrows ==
  ASSUME NEW row \in Rows, NEW s \in Int, NEW t \in Int, s <= t
  PROVE  UpTo(row, s) <= UpTo(row, t)
  BY Bounds DEF Rows, UpTo, Times, Least

LEMMA BetweenBounds ==
  ASSUME NEW row \in Rows, NEW from \in Int, NEW to \in Int
  PROVE  /\ Between(row, from, to) \in Int
         /\ from <= to + 1 => Between(row, from, to) >= 0
         /\ from >= to + 1 => Between(row, from, to) <= 0
         /\ Between(row, from, to) <= Between(row, from, MaxTime)
<1>1. UpTo(row, to) \in Nat /\ UpTo(row, from - 1) \in Nat /\ UpTo(row, MaxTime) \in Nat
  BY UpToType, Bounds
<1>2. /\ from <= to + 1 => UpTo(row, from - 1) <= UpTo(row, to)
      /\ from >= to + 1 => UpTo(row, to) <= UpTo(row, from - 1)
  BY UpToGrows
<1>3. UpTo(row, to) <= UpTo(row, MaxTime)
  <2>1. CASE to <= MaxTime
    BY <2>1, UpToGrows, Bounds
  <2>2. CASE to > MaxTime
    BY <2>2, <1>1, Bounds DEF UpTo, Least
  <2> QED BY <2>1, <2>2, Bounds
<1> QED BY <1>1, <1>2, <1>3 DEF Between

LEMMA EnteredRow ==
  ASSUME NEW row \in Rows, NEW now \in Times, NEW units \in Nat
  PROVE  Entered(row, now, units) \in Rows
<1> DEFINE entered == Entered(row, now, units)
<1>1. \A t \in Times : row[t] \in Nat
  BY DEF Rows
<1>2. \A t \in Times : entered[t] = row[t] + (IF now <= t THEN units ELSE 0)
  BY DEF Entered
<1>3. entered \in [Times -> Nat]
  BY <1>1 DEF Entered
<1>4. \A t \in Times : t \in Int
  BY Bounds DEF Times
<1>5. ASSUME NEW x \in Times, NEW y \in Times, x <= y PROVE entered[x] <= entered[y]
  <2>1. row[x] <= row[y]
    BY <1>5 DEF Rows
  <2> HIDE DEF entered
  <2> QED BY <1>1, <1>2, <1>4, <1>5, <2>1
<1> HIDE DEF entered
<1>6. entered \in Rows
  BY <1>3, <1>5 DEF Rows
<1> QED BY <1>6 DEF entered

(* A unit admitted at now is counted in the stretches that hold now. *)
LEMMA EnteredBetween ==
  ASSUME NEW row \in Rows, NEW now \in Times, NEW units \in Nat,
         NEW from \in Int, NEW to \in Int, from <= to + 1
  PROVE  Between(Entered(row, now, units), from, to)
           = Between(row, from, to) + (IF from <= now /\ now <= to THEN units ELSE 0)
<1> DEFINE new == Entered(row, now, units)
<1>1. \A t \in Int : UpTo(new, t) = UpTo(row, t) + (IF now <= t THEN units ELSE 0)
  BY Bounds DEF Rows, Entered, Times, UpTo, Least
<1>2. UpTo(row, to) \in Nat /\ UpTo(row, from - 1) \in Nat
  BY UpToType
<1>3. now \in Int
  BY Bounds DEF Times
<1> HIDE DEF new
<1>4. Between(new, from, to) = UpTo(new, to) - UpTo(new, from - 1)
  BY DEF Between
<1>5. Between(row, from, to) = UpTo(row, to) - UpTo(row, from - 1)
  BY DEF Between
<1>6. from - 1 \in Int
  OBVIOUS
<1> QED BY <1>1, <1>2, <1>3, <1>4, <1>5, <1>6 DEF new

-----------------------------------------------------------------------------
(* Units a decision admits, and the disorder it stands for (Rewind, of a   *)
(* strategy that is given).                                                *)

Units(o) == IF o.d.allowed THEN 1 ELSE 0

Back(kind, s, now) ==
  CASE kind = "fixed_window" -> IF s.start > StartOf(now) THEN 1 ELSE 0
    [] kind \in {"token_bucket", "leaky_bucket"} -> Most(0, s.last - now)
    [] OTHER -> 0

LEMMA BackIs ==
  ASSUME NEW s, NEW now
  PROVE  /\ Back("fixed_window", s, now) = IF s.start > StartOf(now) THEN 1 ELSE 0
         /\ Back("sliding_window_log", s, now) = 0
         /\ Back("sliding_window_counter", s, now) = 0
         /\ Back("token_bucket", s, now) = Most(0, s.last - now)
         /\ Back("leaky_bucket", s, now) = Most(0, s.last - now)
  BY DEF Back

-----------------------------------------------------------------------------
(* fixed_window.  What a stored state and what the lack of one say of the  *)
(* ledger: the present window has no more units than are counted, later    *)
(* ones have none, but for Limit more with every return to an earlier one. *)

InWindow(row, t) == Between(row, StartOf(t), StartOf(t) + Window - 1)

WindowHas(row, r, s) ==
  \A t \in Times :
    /\ InWindow(row, t) <= Limit * r + Limit
    /\ StartOf(t) > s.start => InWindow(row, t) <= Limit * r
    /\ StartOf(t) = s.start => InWindow(row, t) <= Limit * r + s.count

WindowNone(row, r, c) ==
  \A t \in Times :
    /\ InWindow(row, t) <= Limit * r + Limit
    /\ StartOf(t) + Window > c - MaxLag => InWindow(row, t) <= Limit * r

WindowState == [start : Times, count : 0 .. Limit]

LEMMA InWindowType ==
  ASSUME NEW row \in Rows, NEW t \in Times
  PROVE  InWindow(row, t) \in Nat
<1>1. StartOf(t) \in Nat /\ StartOf(t) <= (StartOf(t) + Window - 1) + 1 /\ Window \in Nat
  BY Start, Settings DEF Times
<1> QED BY <1>1, BetweenBounds DEF InWindow

LEMMA InWindowEntered ==
  ASSUME NEW row \in Rows, NEW t \in Times, NEW now \in Times, NEW units \in Nat
  PROVE  InWindow(Entered(row, now, units), t)
           = InWindow(row, t) + (IF StartOf(t) = StartOf(now) THEN units ELSE 0)
<1>1. StartOf(t) \in Nat /\ StartOf(t) <= (StartOf(t) + Window - 1) + 1 /\ Window \in Nat
  BY Start, Settings DEF Times
<1>2. t \in Nat /\ now \in Nat
  BY DEF Times
<1>3. StartOf(t) <= now /\ now <= StartOf(t) + Window - 1 <=> StartOf(t) = StartOf(now)
  BY <1>1, <1>2, Start, SameStart, Settings
<1> QED BY <1>1, <1>3, EnteredBetween DEF InWindow

LEMMA WindowStep ==
  ASSUME NEW row \in Rows, NEW r \in Nat, NEW s \in WindowState, NEW now \in Times,
         WindowHas(row, r, s),
         NEW o, o = FixedWindow(s, now, 1)
  PROVE  /\ o.d.allowed \in BOOLEAN /\ o.keep = TRUE /\ o.next \in WindowState
         /\ o.next.start = StartOf(now)
         /\ WindowHas(Entered(row, now, Units(o)), r + Back("fixed_window", s, now), o.next)
<1> DEFINE units == Units(o)
           back == Back("fixed_window", s, now)
<1> units = (IF o.d.allowed THEN 1 ELSE 0)
  BY DEF Units
<1> back = (IF s.start > StartOf(now) THEN 1 ELSE 0)
  BY BackIs
<1> HIDE DEF units, back
<1> DEFINE count == IF s.start = StartOf(now) THEN s.count ELSE 0
<1>1. /\ now \in Nat /\ StartOf(now) \in Times /\ StartOf(now) \in Nat
      /\ s.start \in Nat /\ s.count \in 0 .. Limit /\ count \in 0 .. Limit
  BY Start, Bounds, Settings DEF Times, WindowState
<1>2. /\ o.d.allowed \in BOOLEAN /\ (o.d.allowed <=> count + 1 <= Limit)
      /\ o.keep = TRUE
      /\ o.next = [start |-> StartOf(now), count |-> count + units]
  <2>1. CASE count + 1 <= Limit
    <3>1. o.d.allowed = TRUE /\ o.keep = TRUE /\ o.next = [start |-> StartOf(now), count |-> count + 1]
      BY <2>1 DEF FixedWindow, Outcome, Grant
    <3> QED BY <2>1, <3>1
  <2>2. CASE ~(count + 1 <= Limit)
    <3>1. o.d.allowed = FALSE /\ o.keep = TRUE /\ o.next = [start |-> StartOf(now), count |-> count]
      BY <2>2 DEF FixedWindow, Outcome, Deny
    <3>2. count + 0 = count
      BY <1>1
    <3> QED BY <2>2, <3>1, <3>2
  <2> QED BY <2>1, <2>2
<1>3. units \in {0, 1} /\ count + units <= Limit
  BY <1>1, <1>2, Settings
<1>4. o.d.allowed \in BOOLEAN /\ o.keep = TRUE /\ o.next \in WindowState /\ o.next.start = StartOf(now)
  BY <1>1, <1>2, <1>3, Settings DEF WindowState
<1>5. Limit * (r + back) = Limit * r + Limit * back /\ Limit * r \in Nat /\ back \in {0, 1}
  BY <1>1, Settings
<1>6. ASSUME NEW t \in Times
      PROVE  /\ InWindow(Entered(row, now, units), t) <= Limit * (r + back) + Limit
             /\ StartOf(t) > o.next.start =>
                  InWindow(Entered(row, now, units), t) <= Limit * (r + back)
             /\ StartOf(t) = o.next.start =>
                  InWindow(Entered(row, now, units), t) <= Limit * (r + back) + o.next.count
  <2> DEFINE a == InWindow(row, t)
             b == InWindow(Entered(row, now, units), t)
             m == Limit * r
  <2>1. a \in Nat /\ StartOf(t) \in Nat
    BY InWindowType, Start DEF Times
  <2>2. b = a + (IF StartOf(t) = StartOf(now) THEN units ELSE 0)
    BY InWindowEntered, <1>3
  <2>3. a <= m + Limit
        /\ (StartOf(t) > s.start => a <= m)
        /\ (StartOf(t) = s.start => a <= m + s.count)
    BY DEF WindowHas
  <2>4. Limit * (r + back) = m + (IF back = 1 THEN Limit ELSE 0)
    BY <1>5, Settings
  <2>5. o.next.start = StartOf(now) /\ o.next.count = count + units
    BY <1>2
  <2>6. m \in Nat
    BY <1>5
  <2> HIDE DEF a, b, m
  <2>7. CASE StartOf(t) > StartOf(now)
    BY <2>1, <2>2, <2>3, <2>4, <2>5, <2>6, <2>7, <1>1, <1>3, Settings DEF b
  <2>8. CASE StartOf(t) = StartOf(now)
    <3>1. a <= m + (IF back = 1 THEN Limit ELSE 0) + count
      BY <2>1, <2>3, <2>6, <2>8, <1>1, Settings
    <3> QED BY <3>1, <2>1, <2>2, <2>4, <2>5, <2>6, <2>8, <1>1, <1>3, Settings DEF b
  <2>9. CASE StartOf(t) < StartOf(now)
    BY <2>1, <2>2, <2>3, <2>4, <2>5, <2>6, <2>9, <1>1, <1>3, Settings DEF b
  <2> QED BY <2>1, <2>7, <2>8, <2>9, <1>1 DEF b
<1> QED BY <1>4, <1>6 DEF WindowHas, units, back

(* With nothing stored, it is as if the present window had just begun. *)
LEMMA WindowFresh ==
  ASSUME NEW row \in Rows, NEW r \in Nat, NEW c \in Times, NEW now \in Times,
         c - MaxLag <= now, WindowNone(row, r, c)
  PROVE  WindowHas(row, r, [start |-> StartOf(now), count |-> 0])
<1>1. now \in Nat /\ StartOf(now) \in Nat /\ now < StartOf(now) + Window
  BY Start DEF Times
<1>2. \A t \in Times : InWindow(row, t) \in Nat /\ StartOf(t) \in Nat
  BY InWindowType, Start DEF Times
<1>3. \A t \in Times : StartOf(t) >= StartOf(now) => StartOf(t) + Window > c - MaxLag
  BY <1>1, <1>2, Settings, Bounds DEF Times
<1>4. Limit * r \in Nat
  BY Settings
<1> QED BY <1>1, <1>2, <1>3, <1>4, Settings DEF WindowHas, WindowNone

LEMMA WindowBlank ==
  ASSUME NEW now \in Times
  PROVE  FixedWindow([start |-> 0, count |-> 0], now, 1)
           = FixedWindow([start |-> StartOf(now), count |-> 0], now, 1)
  BY DEF FixedWindow, Outcome, Grant, Deny

LEMMA WindowLapses ==
  ASSUME NEW row \in Rows, NEW r \in Nat, NEW s \in WindowState, NEW c \in Times, NEW x \in Nat,
         WindowHas(row, r, s), s.start + Window + MaxLag <= x, x <= c
  PROVE  WindowNone(row, r, c)
<1>1. \A t \in Times : StartOf(t) \in Nat
  BY Start DEF Times
<1>2. s.start \in Nat
  BY DEF WindowState, Times
<1> QED BY <1>1, <1>2, Settings, Bounds DEF WindowHas, WindowNone, Times

-----------------------------------------------------------------------------
(* sliding_window_log.  For every instant the present window still holds,  *)
(* the events that are not before it are at least the units admitted from  *)
(* it on.                                                                  *)

LogFits(row) == \A t \in Times : Between(row, t, t + Window - MaxLag - 1) <= Limit

LogHas(row, s, c) ==
  /\ LogFits(row)
  /\ \A x \in Times, i \in 0 .. Len(s) :
       x > c - Window /\ (\A j \in 1 .. i : s[j] < x) => Between(row, x, MaxTime) <= Len(s) - i

LogNone(row, c) ==
  /\ LogFits(row)
  /\ \A x \in Times : x > c - Window => Between(row, x, MaxTime) <= 0

LogState == UNION {[1 .. n -> Times] : n \in 0 .. Limit}

LEMMA ThroughIs ==
  ASSUME NEW m \in Nat, NEW events \in [1 .. m -> Times], NEW t \in Int
  PROVE  /\ Len(events) = m
         /\ Through(events, t) \in 0 .. m
         /\ \A i \in 1 .. Through(events, t) : events[i] <= t
         /\ Through(events, t) < m => events[Through(events, t) + 1] > t
<1>1. Len(events) = m
  OBVIOUS
<1> DEFINE T == {n \in Nat : n >= m \/ (n < m /\ events[n + 1] > t)}
<1>2. PICK n \in T : \A q \in T : n <= q
  <2>1. m \in T /\ T \in SUBSET Nat
    OBVIOUS
  <2> HIDE DEF T
  <2> QED BY <2>1, LeastNat
<1>3. m \in T
  OBVIOUS
<1>4. n \in 0 .. m /\ (n < m => events[n + 1] > t)
  BY <1>2, <1>3
<1>5. ASSUME NEW i \in 1 .. n PROVE events[i] <= t
  <2>0. n \in 0 .. m /\ i - 1 \in Nat /\ i - 1 < n /\ i - 1 < m
    BY <1>4
  <2>1. ~(i - 1 \in T)
    <3> HIDE DEF T
    <3> QED BY <1>2, <2>0
  <2>2. i - 1 + 1 = i
    OBVIOUS
  <2>3. ~(events[i] > t)
    BY <2>0, <2>1, <2>2
  <2>4. events[i] \in Int
    BY <1>4, Bounds DEF Times
  <2> QED BY <2>3, <2>4
<1>6. \E q \in 0 .. Len(events) : /\ \A i \in 1 .. q : events[i] <= t
                                  /\ q < Len(events) => events[q + 1] > t
  BY <1>1, <1>4, <1>5
<1> HIDE DEF T
<1>7. /\ Through(events, t) \in 0 .. Len(events)
      /\ \A i \in 1 .. Through(events, t) : events[i] <= t
      /\ Through(events, t) < Len(events) => events[Through(events, t) + 1] > t
  BY <1>6 DEF Through
<1> QED BY <1>1, <1>7

(* prune takes a stretch off the front, nothing later than a window ago;   *)
(* capTo finds nothing to do.                                              *)
LEMMA InsideIs ==
  ASSUME NEW m \in 0 .. Limit, NEW s \in [1 .. m -> Times], NEW now \in Times
  PROVE  \E p \in 0 .. m :
           /\ Inside(s, now) \in [1 .. m - p -> Times]
           /\ \A i \in 1 .. p : s[i] <= now - Window
           /\ \A i \in 1 .. m - p : Inside(s, now)[i] = s[i + p]
<1> DEFINE p == Through(s, now - Window)
           rest == SubSeq(s, p + 1, Len(s))
<1>1. m \in Nat /\ now - Window \in Int
  BY Settings, Bounds DEF Times
<1>2. Len(s) = m /\ p \in 0 .. m /\ \A i \in 1 .. p : s[i] <= now - Window
  BY <1>1, ThroughIs
<1> HIDE DEF p
<1>3. rest = [i \in 1 .. m - p |-> s[i + p]]
  <2>1. s \in Seq(Times)
    BY <1>1
  <2> QED BY <2>1, <1>1, <1>2
<1>4. rest \in [1 .. m - p -> Times] /\ Len(rest) = m - p /\ m - p <= Limit
  <2>1. m - p \in Nat /\ m - p <= Limit /\ \A i \in 1 .. m - p : i + p \in 1 .. m
    BY <1>1, <1>2, Settings
  <2> HIDE DEF rest
  <2>2. rest \in [1 .. m - p -> Times]
    BY <1>3, <2>1
  <2> QED BY <2>1, <2>2
<1> HIDE DEF rest
<1>5. Inside(s, now) = rest
  <2>1. Inside(s, now) = Capped(rest)
    BY DEF Inside, rest, p
  <2>2. ~(Len(rest) > Limit)
    BY <1>1, <1>2, <1>4, Settings
  <2> QED BY <2>1, <2>2 DEF Capped
<1> QED BY <1>2, <1>3, <1>4, <1>5

(* A unit goes behind the events that are not later than it.               *)
LEMMA LoggedIs ==
  ASSUME NEW m \in Nat, NEW s \in [1 .. m -> Times], NEW now \in Times
  PROVE  /\ Logged(s, now, 1) \in [1 .. m + 1 -> Times]
         /\ \E n \in 0 .. m :
              /\ \A i \in 1 .. n : Logged(s, now, 1)[i] = s[i] /\ s[i] <= now
              /\ Logged(s, now, 1)[n + 1] = now
              /\ \A i \in n + 2 .. m + 1 : Logged(s, now, 1)[i] = s[i - 1]
<1> DEFINE n == Through(s, now)
           front == SubSeq(s, 1, n)
           one == [i \in 1 .. 1 |-> now]
           back == SubSeq(s, n + 1, Len(s))
           all == front \o one \o back
<1>1. Len(s) = m /\ n \in 0 .. m /\ (\A i \in 1 .. n : s[i] <= now) /\ s \in Seq(Times)
  <2>1. now \in Int
    BY Bounds DEF Times
  <2>2. Len(s) = m /\ n \in 0 .. m /\ \A i \in 1 .. n : s[i] <= now
    BY <2>1, ThroughIs
  <2> QED BY <2>2
<1> HIDE DEF n
<1>2. front = [i \in 1 .. n |-> s[i]] /\ front \in Seq(Times) /\ Len(front) = n
  BY <1>1
<1>3. back = [i \in 1 .. m - n |-> s[i + n]] /\ back \in Seq(Times) /\ Len(back) = m - n
  BY <1>1
<1>4. one \in Seq(Times) /\ Len(one) = 1 /\ one[1] = now
  OBVIOUS
<1>5. /\ all \in Seq(Times) /\ Len(all) = m + 1
      /\ \A i \in 1 .. n : all[i] = front[i]
      /\ all[n + 1] = now
      /\ \A i \in n + 2 .. m + 1 : all[i] = back[i - n - 1]
  <2> DEFINE both == front \o one
  <2>1. /\ both \in Seq(Times) /\ Len(both) = n + 1
        /\ \A i \in 1 .. n + 1 : both[i] = IF i <= n THEN front[i] ELSE one[i - n]
    <3> HIDE DEF front, one
    <3>1. front \in Seq(Times) /\ one \in Seq(Times) /\ Len(front) = n /\ Len(one) = 1
      BY <1>2, <1>4
    <3>2. /\ front \o one \in Seq(Times) /\ Len(front \o one) = Len(front) + Len(one)
          /\ \A i \in 1 .. Len(front) + Len(one) :
               (front \o one)[i] = IF i <= Len(front) THEN front[i] ELSE one[i - Len(front)]
      BY <3>1, ConcatProperties, Zenon
    <3> QED BY <3>1, <3>2
  <2>2. /\ both \o back \in Seq(Times) /\ Len(both \o back) = (n + 1) + (m - n)
        /\ \A i \in 1 .. (n + 1) + (m - n) :
             (both \o back)[i] = IF i <= n + 1 THEN both[i] ELSE back[i - (n + 1)]
    <3> HIDE DEF both, back
    <3>1. back \in Seq(Times) /\ Len(back) = m - n
      BY <1>3
    <3>2. both \in Seq(Times) /\ Len(both) = n + 1
      BY <2>1
    <3>3. /\ both \o back \in Seq(Times) /\ Len(both \o back) = Len(both) + Len(back)
          /\ \A i \in 1 .. Len(both) + Len(back) :
               (both \o back)[i] = IF i <= Len(both) THEN both[i] ELSE back[i - Len(both)]
      BY <3>1, <3>2, ConcatProperties, Zenon
    <3> QED BY <3>1, <3>2, <3>3, Zenon
  <2>3. all = both \o back
    OBVIOUS
  <2>4. one[1] = now
    OBVIOUS
  <2> HIDE DEF front, one, both, back, all
  <2>5. (n + 1) + (m - n) = m + 1 /\ n \in Nat /\ n <= m
    BY <1>1
  <2>6. all \in Seq(Times) /\ Len(all) = m + 1
    BY <2>2, <2>3, <2>5
  <2>7. \A i \in 1 .. m + 1 : all[i] = IF i <= n + 1 THEN both[i] ELSE back[i - (n + 1)]
    BY <2>2, <2>3, <2>5
  <2>8. \A i \in 1 .. n : all[i] = front[i]
    BY <2>1, <2>5, <2>7
  <2>9. all[n + 1] = now
    BY <2>1, <2>4, <2>5, <2>7
  <2>10. \A i \in n + 2 .. m + 1 : all[i] = back[i - n - 1]
    BY <2>5, <2>7
  <2> QED BY <2>6, <2>8, <2>9, <2>10
<1>6. Logged(s, now, 1) = all
  BY DEF Logged, n
<1>7. \A i \in n + 2 .. m + 1 : back[i - n - 1] = s[i - 1]
  <2> SUFFICES ASSUME NEW i \in n + 2 .. m + 1 PROVE back[i - n - 1] = s[i - 1]
    OBVIOUS
  <2>1. i - n - 1 \in 1 .. m - n /\ i - n - 1 + n = i - 1
    BY <1>1
  <2> QED BY <1>3, <2>1
<1>8. \A i \in 1 .. n : front[i] = s[i]
  BY <1>2
<1> HIDE DEF all, front, back, one
<1>9. all \in [1 .. m + 1 -> Times]
  BY <1>5
<1>10. /\ \A i \in 1 .. n : all[i] = s[i] /\ s[i] <= now
       /\ all[n + 1] = now
       /\ \A i \in n + 2 .. m + 1 : all[i] = s[i - 1]
  BY <1>1, <1>5, <1>7, <1>8
<1> QED BY <1>1, <1>6, <1>9, <1>10, Zenon

LEMMA LogStep ==
  ASSUME NEW row \in Rows, NEW s \in LogState, NEW c \in Times, NEW now \in Times,
         now <= c, c - MaxLag <= now, LogHas(row, s, c), \A i \in 1 .. Len(s) : s[i] <= c,
         NEW o, o = SlidingLog(s, now, 1)
  PROVE  /\ o.d.allowed \in BOOLEAN /\ o.keep = TRUE /\ o.next \in LogState
         /\ \A i \in 1 .. Len(o.next) : o.next[i] <= c
         /\ LogHas(Entered(row, now, Units(o)), o.next, c)
<1> DEFINE units == Units(o)
<1> units = (IF o.d.allowed THEN 1 ELSE 0)
  BY DEF Units
<1> HIDE DEF units
<1> DEFINE in == Inside(s, now)
           logged == Logged(in, now, 1)
<1>1. PICK m \in 0 .. Limit : s \in [1 .. m -> Times]
  BY DEF LogState
<1>2. PICK p \in 0 .. m : /\ in \in [1 .. m - p -> Times]
                          /\ \A i \in 1 .. p : s[i] <= now - Window
                          /\ \A i \in 1 .. m - p : in[i] = s[i + p]
  BY <1>1, InsideIs
<1> DEFINE q == m - p
<1>3. m \in Nat /\ p \in Nat /\ q \in 0 .. Limit /\ q \in Nat /\ now \in Int /\ c \in Int
  BY <1>1, <1>2, Settings, Bounds DEF Times
<1>4. Len(s) = m /\ Len(in) = q
  BY <1>1, <1>2, <1>3
<1>13. in \in [1 .. q -> Times]
  BY <1>2
<1>5. PICK n \in 0 .. q : /\ \A i \in 1 .. n : logged[i] = in[i] /\ in[i] <= now
                          /\ logged[n + 1] = now
                          /\ \A i \in n + 2 .. q + 1 : logged[i] = in[i - 1]
  <2>1. \E n \in 0 .. q : /\ \A i \in 1 .. n : Logged(in, now, 1)[i] = in[i] /\ in[i] <= now
                          /\ Logged(in, now, 1)[n + 1] = now
                          /\ \A i \in n + 2 .. q + 1 : Logged(in, now, 1)[i] = in[i - 1]
    <3> HIDE DEF in, q
    <3>1. q \in Nat
      BY <1>3
    <3> QED BY <1>13, <3>1, LoggedIs, Zenon
  <2> HIDE DEF in
  <2> QED BY <2>1
<1>6. logged \in [1 .. q + 1 -> Times]
  <2> HIDE DEF in
  <2> QED BY <1>2, <1>3, LoggedIs
<1>7. Len(logged) = q + 1
  <2> HIDE DEF logged
  <2> QED BY <1>3, <1>6
<1>8. in \in LogState /\ \A i \in 1 .. q : in[i] \in Int /\ in[i] <= c
  <2>1. \A i \in 1 .. q : i + p \in 1 .. m /\ s[i + p] \in Times
    BY <1>1, <1>2, <1>3
  <2>2. \A i \in 1 .. q : in[i] \in Int /\ in[i] <= c
    BY <1>2, <1>4, <2>1, Bounds DEF Times
  <2> QED BY <1>2, <1>3, <2>2 DEF LogState
(* What is pruned lies before every instant the window still holds. *)
<1>9. ASSUME NEW x \in Times, NEW i \in 0 .. q, x > c - Window, \A j \in 1 .. i : in[j] < x
      PROVE  Between(row, x, MaxTime) <= q - i
  <2>1. p + i \in 0 .. Len(s) /\ Len(s) - (p + i) = q - i
    BY <1>3, <1>4
  <2>2. ASSUME NEW j \in 1 .. p + i PROVE s[j] < x
    <3>1. s[j] \in Int /\ x \in Int
      BY <1>1, <1>2, <1>3, Bounds DEF Times
    <3>2. CASE j <= p
      BY <1>2, <1>3, <1>9, <3>1, <3>2, Settings
    <3>3. CASE j > p
      <4>1. j - p \in 1 .. i /\ j - p \in 1 .. m - p /\ (j - p) + p = j
        BY <1>3, <3>3
      <4> QED BY <1>2, <1>9, <4>1
    <3> QED BY <1>3, <3>2, <3>3
  <2> QED BY <1>9, <2>1, <2>2 DEF LogHas
<1>10. LogFits(row)
  BY DEF LogHas
<1> HIDE DEF in, logged, q
<1>11. CASE q + 1 <= Limit
  <2>1. o.d.allowed = TRUE /\ o.keep = TRUE /\ o.next = logged
    <3>1. Len(in) + 1 - Limit <= 0
      BY <1>3, <1>4, <1>11, Settings
    <3> QED BY <3>1 DEF SlidingLog, Outcome, Grant, in, logged
  <2>2. units = 1
    BY <2>1
  <2>3. logged \in LogState
    BY <1>3, <1>6, <1>11, Settings DEF LogState
  <2>4. \A i \in 1 .. q + 1 : logged[i] <= c
    <3> SUFFICES ASSUME NEW i \in 1 .. q + 1 PROVE logged[i] <= c
      OBVIOUS
    <3>1. CASE i <= n
      BY <1>3, <1>5, <1>8, <3>1
    <3>2. CASE i = n + 1
      BY <1>5, <3>2
    <3>3. CASE i >= n + 2
      <4>1. i \in n + 2 .. q + 1 /\ i - 1 \in 1 .. q
        BY <1>3, <3>3
      <4> QED BY <1>5, <1>8, <4>1
    <3> QED BY <1>3, <3>1, <3>2, <3>3
  <2>5. ASSUME NEW t \in Times
        PROVE  Between(Entered(row, now, 1), t, t + Window - MaxLag - 1) <= Limit
    <3> DEFINE to == t + Window - MaxLag - 1
               a == Between(row, t, to)
    <3>1. t \in Int /\ to \in Int /\ a \in Int /\ a <= Between(row, t, MaxTime) /\ a <= Limit
      <4>1. t \in Int /\ to \in Int
        BY Settings, Bounds DEF Times
      <4> HIDE DEF to
      <4>2. a \in Int /\ a <= Between(row, t, MaxTime)
        BY <4>1, BetweenBounds
      <4> QED BY <1>10, <4>1, <4>2 DEF LogFits, to
    <3>2. CASE t <= now /\ now <= to
      <4>1. t > c - Window /\ t <= to + 1
        BY <1>3, <3>1, <3>2, Settings, Bounds
      <4>2. Between(row, t, MaxTime) <= q - 0
        <5>1. 0 \in 0 .. q /\ \A j \in 1 .. 0 : in[j] < t
          BY <1>3
        <5> QED BY <1>9, <4>1, <5>1
      <4>3. a <= q
        BY <1>3, <3>1, <4>2, BetweenBounds, Bounds
      <4>4. Between(Entered(row, now, 1), t, to) = a + 1
        <5> HIDE DEF to
        <5> QED BY <3>1, <3>2, <4>1, EnteredBetween
      <4> QED BY <1>3, <1>11, <3>1, <4>3, <4>4, Settings
    <3>3. CASE ~(t <= now /\ now <= to)
      <4>1. CASE t <= to + 1
        <5>1. Between(Entered(row, now, 1), t, to) = a + 0
          <6> HIDE DEF to
          <6> QED BY <3>1, <3>3, <4>1, EnteredBetween
        <5> QED BY <3>1, <5>1
      <4>2. CASE t > to + 1
        <5>1. Between(Entered(row, now, 1), t, to) <= 0
          <6> HIDE DEF to
          <6>1. Entered(row, now, 1) \in Rows
            BY EnteredRow
          <6> QED BY <3>1, <4>2, <6>1, BetweenBounds
        <5>2. Between(Entered(row, now, 1), t, to) \in Int
          <6> HIDE DEF to
          <6>1. Entered(row, now, 1) \in Rows
            BY EnteredRow
          <6> QED BY <3>1, <6>1, BetweenBounds
        <5> QED BY <5>1, <5>2, Settings
      <4> QED BY <3>1, <4>1, <4>2
    <3> QED BY <3>2, <3>3
  <2>6. ASSUME NEW x \in Times, NEW i \in 0 .. q + 1, x > c - Window,
               \A j \in 1 .. i : logged[j] < x
        PROVE  Between(Entered(row, now, 1), x, MaxTime) <= q + 1 - i
    <3>1. x \in Int /\ x <= MaxTime + 1 /\ now <= MaxTime /\ MaxTime \in Int
      BY Bounds DEF Times
    <3>2. Between(Entered(row, now, 1), x, MaxTime)
            = Between(row, x, MaxTime) + (IF x <= now THEN 1 ELSE 0)
      BY <3>1, EnteredBetween
    <3>3. Between(row, x, MaxTime) \in Int
      BY <3>1, BetweenBounds
    <3>4. CASE i <= n
      <4>1. i \in 0 .. q
        BY <1>3, <2>6, <3>4
      <4>2. ASSUME NEW j \in 1 .. i PROVE in[j] < x
        <5>1. j \in 1 .. n
          BY <1>3, <3>4, <4>2
        <5>2. logged[j] < x /\ logged[j] = in[j]
          BY <1>5, <2>6, <4>2, <5>1
        <5> QED BY <5>2
      <4>3. Between(row, x, MaxTime) <= q - i
        BY <1>9, <2>6, <4>1, <4>2
      <4> QED BY <1>3, <2>6, <3>2, <3>3, <4>3
    <3>5. CASE i >= n + 1
      <4>1. x > now
        <5>1. logged[n + 1] < x
          BY <1>3, <2>6, <3>5
        <5> QED BY <1>3, <1>5, <3>1, <5>1
      <4>2. i - 1 \in 0 .. q /\ q - (i - 1) = q + 1 - i
        BY <1>3, <3>5
      <4>3. ASSUME NEW j \in 1 .. i - 1 PROVE in[j] < x
        <5>1. CASE j <= n
          <6>1. in[j] = logged[j] /\ j \in 1 .. i
            BY <1>3, <1>5, <4>2, <5>1
          <6> QED BY <2>6, <6>1
        <5>2. CASE j > n
          <6>1. j + 1 \in n + 2 .. q + 1 /\ j + 1 \in 1 .. i /\ (j + 1) - 1 = j
            BY <1>3, <4>2, <5>2
          <6>2. logged[j + 1] = in[j]
            BY <1>5, <6>1
          <6> QED BY <2>6, <6>1, <6>2
        <5> QED BY <1>3, <5>1, <5>2
      <4>4. Between(row, x, MaxTime) <= q - (i - 1)
        BY <1>9, <2>6, <4>2, <4>3
      <4> QED BY <1>3, <3>1, <3>2, <3>3, <4>1, <4>2, <4>4
    <3> QED BY <1>3, <3>4, <3>5
  <2>7. LogHas(Entered(row, now, 1), logged, c)
    <3>1. LogFits(Entered(row, now, 1))
      BY <2>5 DEF LogFits
    <3>2. ASSUME NEW x \in Times, NEW i \in 0 .. Len(logged), x > c - Window,
                 \A j \in 1 .. i : logged[j] < x
          PROVE  Between(Entered(row, now, 1), x, MaxTime) <= Len(logged) - i
      BY <1>3, <1>7, <2>6, <3>2
    <3> QED BY <3>1, <3>2 DEF LogHas
  <2>8. \A i \in 1 .. Len(logged) : logged[i] <= c
    BY <1>7, <2>4
  <2> QED BY <2>1, <2>2, <2>3, <2>7, <2>8 DEF units
<1>12. CASE ~(q + 1 <= Limit)
  <2>1. o.d.allowed = FALSE /\ o.keep = TRUE /\ o.next = in
    <3>1. ~(Len(in) + 1 - Limit <= 0)
      BY <1>3, <1>4, <1>12, Settings
    <3> QED BY <3>1 DEF SlidingLog, Outcome, Deny, in, logged
  <2>2. units = 0
    BY <2>1
  <2>3. Entered(row, now, 0) = row
    BY DEF Entered, Rows
  <2>4. LogHas(row, in, c)
    BY <1>4, <1>9, <1>10 DEF LogHas
  <2> QED BY <1>4, <1>8, <2>1, <2>2, <2>3, <2>4 DEF units
<1> QED BY <1>11, <1>12 DEF units

LEMMA LogFresh ==
  ASSUME NEW row \in Rows, NEW c \in Times, LogNone(row, c)
  PROVE  LogHas(row, << >>, c)
  BY DEF LogHas, LogNone

LEMMA LogLapses ==
  ASSUME NEW row \in Rows, NEW s \in LogState, NEW c \in Times, NEW d \in Times, NEW x \in Nat,
         LogHas(row, s, c), c <= d, \A i \in 1 .. Len(s) : s[i] + Window + MaxLag <= x, x <= d
  PROVE  LogNone(row, d)
<1>1. PICK m \in 0 .. Limit : s \in [1 .. m -> Times]
  BY DEF LogState
<1>2. Len(s) = m /\ m \in Nat
  BY <1>1, Settings
<1>3. ASSUME NEW y \in Times, y > d - Window PROVE Between(row, y, MaxTime) <= 0
  <2> y \in Int /\ c \in Int /\ d \in Int /\ Window \in Int /\ MaxLag \in Nat
    BY Settings, Bounds DEF Times
  <2>0. ASSUME NEW j \in 1 .. m PROVE s[j] < y
    <3>1. s[j] \in Int
      BY <1>1, Bounds DEF Times
    <3>2. s[j] + Window + MaxLag <= x
      BY <1>2
    <3> QED BY <1>3, <3>1, <3>2
  <2>1. y > c - Window /\ \A j \in 1 .. m : s[j] < y
    BY <1>3, <2>0
  <2>2. Between(row, y, MaxTime) <= m - m
    BY <1>2, <2>1 DEF LogHas
  <2> QED BY <1>2, <2>2
<1> QED BY <1>3 DEF LogHas, LogNone

-----------------------------------------------------------------------------
(* The buckets.  room is what the bucket would still admit, in units of    *)
(* 1/Window, and last + r the instant its account has been drawn up to:    *)
(* what was admitted since from, and the room left, came out of a full     *)
(* bucket and the flow from then to there.                                 *)

BucketFits(depth, row, r) ==
  \A from \in Times : \A to \in from .. MaxTime :
    Between(row, from, to) * Window <= depth * Window + Limit * (to - from + r)

Covers(row, from, end, sum) ==
  /\ from <= end => Between(row, from, MaxTime) * Window + sum <= Limit * (end - from)
  /\ ~(from <= end) => Between(row, from, MaxTime) = 0

BucketHas(depth, row, r, room, last) ==
  /\ BucketFits(depth, row, r)
  /\ \A from \in Times : Covers(row, from, last + r, room - depth * Window)

BucketNone(depth, row, r, c) ==
  /\ BucketFits(depth, row, r)
  /\ \A from \in Times : Covers(row, from, c - MaxLag + r, 0)

LEMMA SinceType ==
  ASSUME NEW row \in Rows, NEW from \in Times
  PROVE  Between(row, from, MaxTime) \in Nat
<1>1. from \in Int /\ MaxTime \in Int /\ from <= MaxTime + 1
  BY Bounds DEF Times
<1> QED BY <1>1, BetweenBounds

LEMMA CoversIs ==
  ASSUME NEW row \in Rows, NEW from \in Times, NEW end \in Int, NEW sum \in Int
  PROVE  Covers(row, from, end, sum)
           <=> /\ from <= end =>
                    Between(row, from, MaxTime) * Window + sum <= Limit * (end - from)
               /\ from > end => Between(row, from, MaxTime) = 0
  BY Bounds DEF Covers, Times

(* An instant later than the last one lets units flow, an earlier one      *)
(* counts as disorder.                                                     *)
LEMMA BucketFlows ==
  ASSUME NEW depth \in Nat, NEW row \in Rows, NEW r \in Nat, NEW last \in Times,
         NEW room \in 0 .. depth * Window, NEW now \in Times,
         BucketHas(depth, row, r, room, last),
         NEW back, back = Most(0, last - now),
         NEW flowed, flowed = Least(depth * Window, room + (now - Least(last, now)) * Limit)
  PROVE  back \in Nat /\ flowed \in 0 .. depth * Window /\ BucketHas(depth, row, r + back, flowed, now)
<1> DEFINE D == depth * Window
           gone == now - Least(last, now)
<1>1. D \in Nat /\ gone \in Nat /\ back \in Nat /\ now + (r + back) = last + r + gone
      /\ last \in Nat /\ now \in Nat
  BY Settings, Bounds DEF Times, Most, Least
<1>2. gone * Limit \in Nat /\ gone * Limit = Limit * gone
  BY <1>1, Settings
<1>3. flowed \in 0 .. D /\ flowed <= room + Limit * gone /\ room \in Nat /\ room <= D
  BY <1>1, <1>2, Settings DEF Least
<1> HIDE DEF D, gone
<1>4. BucketFits(depth, row, r + back)
  <2> SUFFICES ASSUME NEW from \in Times, NEW to \in from .. MaxTime
               PROVE  Between(row, from, to) * Window <= D + Limit * (to - from + (r + back))
    BY DEF BucketFits, D
  <2>1. from \in Int /\ to \in Int
    BY Bounds DEF Times
  <2>2. Between(row, from, to) * Window <= D + Limit * (to - from + r)
    BY DEF BucketHas, BucketFits, D
  <2>3. Between(row, from, to) * Window \in Int
    BY <2>1, BetweenBounds, Settings
  <2>4. Limit * (to - from + (r + back)) = Limit * (to - from + r) + Limit * back
    BY <1>1, <2>1, Settings
  <2>5. Limit * back \in Nat /\ Limit * (to - from + r) \in Int
    BY <1>1, <2>1, Settings
  <2> QED BY <1>1, <2>2, <2>3, <2>4, <2>5
<1>5. ASSUME NEW from \in Times
      PROVE  Covers(row, from, now + (r + back), flowed - D)
  <2> DEFINE since == Between(row, from, MaxTime)
  <2>1. from \in Nat /\ since \in Nat /\ since * Window \in Nat
    BY SinceType, Settings DEF Times
  <2>2. Covers(row, from, last + r, room - D)
    BY DEF BucketHas, D
  <2>3. now + (r + back) \in Int /\ now + (r + back) >= last + r /\ last + r \in Int
    BY <1>1
  <2>4. CASE from <= last + r
    <3>1. since * Window + (room - D) <= Limit * (last + r - from)
      BY <2>2, <2>4, <1>1, <1>3, <2>1, CoversIs
    <3>2. Limit * (now + (r + back) - from) = Limit * (last + r - from) + Limit * gone
      <4>1. now + (r + back) - from = (last + r - from) + gone
        BY <1>1, <2>1
      <4>2. last + r - from \in Int /\ gone \in Int /\ Limit \in Int
        BY <1>1, <2>1, Settings
      <4> QED BY <4>1, <4>2, Spread
    <3>3. Limit * (last + r - from) \in Int /\ Limit * gone \in Int
      BY <1>1, <2>1, Settings
    <3>4. since * Window + (flowed - D) <= Limit * (now + (r + back) - from)
      <4> HIDE DEF since
      <4> QED BY <1>1, <1>3, <2>1, <3>1, <3>2, <3>3
    <3>5. from <= now + (r + back)
      BY <2>1, <2>3, <2>4
    <3> QED BY <3>4, <3>5, <1>1, <1>3, <2>1, CoversIs
  <2>5. CASE ~(from <= last + r)
    <3>1. since = 0
      BY <2>2, <2>5, <1>1, <1>3, <2>1, CoversIs
    <3>2. CASE from <= now + (r + back)
      <4>1. Limit * (now + (r + back) - from) \in Nat
        BY <1>1, <2>1, <2>3, <3>2, Settings
      <4>2. since * Window = 0
        BY <3>1, Settings
      <4>3. since * Window + (flowed - D) <= Limit * (now + (r + back) - from)
        <5> HIDE DEF since
        <5> QED BY <1>1, <1>3, <4>1, <4>2
      <4> QED BY <3>2, <4>3, <1>1, <1>3, <2>1, CoversIs
    <3>3. CASE ~(from <= now + (r + back))
      BY <3>1, <3>3, <1>1, <1>3, <2>1, CoversIs
    <3> QED BY <3>2, <3>3
  <2> QED BY <2>4, <2>5
<1> QED BY <1>1, <1>3, <1>4, <1>5 DEF BucketHas, D

(* A unit that is admitted takes its room. *)
LEMMA BucketTakes ==
  ASSUME NEW depth \in Nat, NEW row \in Rows, NEW r \in Nat, NEW now \in Times,
         NEW room \in 0 .. depth * Window, Window <= room,
         BucketHas(depth, row, r, room, now)
  PROVE  BucketHas(depth, Entered(row, now, 1), r, room - Window, now)
<1> DEFINE D == depth * Window
           new == Entered(row, now, 1)
<1>0. new \in Rows
  BY EnteredRow
<1>1. D \in Nat /\ now \in Nat /\ now <= MaxTime /\ room \in Nat /\ Window \in Nat /\ Limit \in Nat /\ MaxTime \in Nat
  BY Settings, Bounds DEF Times
<1> HIDE DEF D, new
<1>2. ASSUME NEW from \in Times
      PROVE  Between(row, from, MaxTime) \in Nat
             /\ Between(new, from, MaxTime) = Between(row, from, MaxTime) + (IF from <= now THEN 1 ELSE 0)
             /\ Covers(row, from, now + r, room - D)
  <2>1. from \in Int /\ from <= MaxTime + 1
    BY Bounds DEF Times
  <2> QED BY <1>1, <2>1, SinceType, EnteredBetween DEF new, BucketHas, D
<1>3. ASSUME NEW from \in Times
      PROVE  Covers(new, from, now + r, room - Window - D)
  <2> DEFINE since == Between(row, from, MaxTime)
             after == Between(new, from, MaxTime)
  <2>1. from \in Nat /\ since \in Nat /\ since * Window \in Nat
    BY <1>2, Settings DEF Times
  <2>2. CASE from <= now
    <3>1. after = since + 1
      BY <1>2, <2>2
    <3>2. after * Window = since * Window + Window
      BY <1>1, <2>1, <3>1
    <3>3. from <= now + r
      BY <1>1, <2>1, <2>2
    <3>4. since * Window + (room - D) <= Limit * (now + r - from)
      BY <1>2, <3>3, <1>0, <1>1, <2>1, CoversIs
    <3>5. after * Window + (room - Window - D) <= Limit * (now + r - from)
      <4>1. Limit * (now + r - from) \in Int
        BY <1>1, <2>1
      <4> HIDE DEF since, after
      <4> QED BY <1>1, <2>1, <3>2, <3>4, <4>1
    <3> QED BY <3>3, <3>5, <1>0, <1>1, <2>1, CoversIs
  <2>3. CASE ~(from <= now)
    <3>1. after = since
      BY <1>2, <2>1, <2>3
    <3>2. CASE from <= now + r
      <4>1. since * Window + (room - D) <= Limit * (now + r - from)
        BY <1>2, <3>2, <1>0, <1>1, <2>1, CoversIs
      <4>2. Limit * (now + r - from) \in Int
        BY <1>1, <2>1
      <4>3. since * Window + (room - Window - D) <= Limit * (now + r - from)
        <5> HIDE DEF since
        <5> QED BY <1>1, <2>1, <4>1, <4>2
      <4> QED BY <3>1, <3>2, <4>3, <1>0, <1>1, <2>1, CoversIs
    <3>3. CASE ~(from <= now + r)
      BY <1>2, <3>1, <3>3, <1>0, <1>1, <2>1, CoversIs
    <3> QED BY <3>2, <3>3
  <2> QED BY <2>2, <2>3
<1>4. BucketFits(depth, new, r)
  <2> SUFFICES ASSUME NEW from \in Times, NEW to \in from .. MaxTime
               PROVE  Between(new, from, to) * Window <= D + Limit * (to - from + r)
    BY DEF BucketFits, D
  <2> DEFINE a == Between(row, from, to)
             b == Between(row, from, MaxTime)
  <2>1. from \in Nat /\ to \in Nat /\ from <= to + 1 /\ from <= MaxTime + 1
    BY Bounds DEF Times
  <2>2. a * Window <= D + Limit * (to - from + r)
    BY DEF BucketHas, BucketFits, D
  <2>3. a \in Int /\ b \in Nat /\ a <= b
    BY <1>2, <2>1, BetweenBounds
  <2>4. Between(new, from, to) = a + (IF from <= now /\ now <= to THEN 1 ELSE 0)
    BY <2>1, EnteredBetween DEF new
  <2>5. CASE from <= now /\ now <= to
    <3>1. Covers(new, from, now + r, room - Window - D) /\ from <= now + r
      BY <1>1, <1>3, <2>1, <2>5
    <3>2. Between(new, from, MaxTime) = b + 1
      BY <1>2, <2>5
    <3>3. (b + 1) * Window + (room - Window - D) <= Limit * (now + r - from)
      BY <3>1, <3>2, <1>0, <1>1, <2>1, CoversIs
    <3>4. now + r - from <= to - from + r /\ now + r - from \in Int /\ to - from + r \in Int
      BY <1>1, <2>1, <2>5
    <3>5. Limit * (now + r - from) <= Limit * (to - from + r)
          /\ Limit * (now + r - from) \in Int /\ Limit * (to - from + r) \in Int
      BY <1>1, <3>4, Scaled
    <3>6. (a + 1) * Window <= (b + 1) * Window /\ (a + 1) * Window \in Int /\ (b + 1) * Window \in Int
      <4>1. Window * (a + 1) <= Window * (b + 1)
        BY <1>1, <2>3, Scaled
      <4> HIDE DEF a, b
      <4> QED BY <1>1, <2>3, <4>1
    <3>7. Between(new, from, to) = a + 1
      BY <2>4, <2>5
    <3> HIDE DEF a, b
    <3> QED BY <1>1, <3>3, <3>5, <3>6, <3>7
  <2>6. CASE ~(from <= now /\ now <= to)
    BY <2>2, <2>3, <2>4, <2>6
  <2> QED BY <2>5, <2>6
<1>5. room - Window - D = (room - Window) - depth * Window
  BY DEF D
<1> QED BY <1>3, <1>4, <1>5 DEF BucketHas, new

LEMMA EnteredNone ==
  ASSUME NEW row \in Rows, NEW now \in Times
  PROVE  Entered(row, now, 0) = row
  BY DEF Entered, Rows

TokenState == [tokens : 0 .. Burst * Window, last : Times]
LeakyState == [level : 0 .. Capacity * Window, last : Times]

LEMMA TokenStep ==
  ASSUME NEW row \in Rows, NEW r \in Nat, NEW s \in TokenState, NEW now \in Times,
         BucketHas(Burst, row, r, s.tokens, s.last),
         NEW o, o = TokenBucket(s, now, 1)
  PROVE  /\ o.d.allowed \in BOOLEAN /\ o.keep = TRUE /\ o.next \in TokenState /\ o.next.last = now
         /\ BucketHas(Burst, Entered(row, now, Units(o)), r + Back("token_bucket", s, now), o.next.tokens, now)
<1> DEFINE units == Units(o)
           back == Back("token_bucket", s, now)
<1> units = (IF o.d.allowed THEN 1 ELSE 0)
  BY DEF Units
<1> back = Most(0, s.last - now)
  BY BackIs
<1> HIDE DEF units, back
<1> DEFINE tokens == Refilled(s, now)
<1>1. Burst \in Nat /\ s.tokens \in 0 .. Burst * Window /\ s.last \in Times
  BY Settings DEF TokenState
<1>2. /\ back \in Nat /\ tokens \in 0 .. Burst * Window
      /\ BucketHas(Burst, row, r + back, tokens, now)
  BY <1>1, BucketFlows DEF Refilled
<1>3. Burst * Window \in Nat /\ tokens \in Nat /\ Window \in Nat /\ 1 * Window = Window
  BY <1>1, <1>2, Settings
<1> HIDE DEF tokens
<1>4. CASE Window <= tokens
  <2>1. o.d.allowed = TRUE /\ o.keep = TRUE /\ o.next = [tokens |-> tokens - 1 * Window, last |-> now]
    <3>1. 1 * Window <= tokens
      BY <1>3, <1>4
    <3> QED BY <3>1 DEF TokenBucket, Outcome, Grant, tokens
  <2>2. tokens - 1 * Window \in 0 .. Burst * Window /\ tokens - 1 * Window = tokens - Window
    BY <1>2, <1>3, <1>4
  <2>3. o.next \in TokenState /\ o.next.tokens = tokens - Window /\ o.next.last = now
    BY <2>1, <2>2 DEF TokenState
  <2>4. BucketHas(Burst, Entered(row, now, 1), r + back, tokens - Window, now)
    <3>1. r + back \in Nat
      BY <1>2
    <3> QED BY <1>1, <1>2, <1>4, <3>1, BucketTakes
  <2>5. units = 1
    BY <2>1
  <2> QED BY <2>1, <2>3, <2>4, <2>5 DEF units, back
<1>5. CASE ~(Window <= tokens)
  <2>1. o.d.allowed = FALSE /\ o.keep = TRUE /\ o.next = [tokens |-> tokens, last |-> now]
    <3>1. ~(1 * Window <= tokens)
      BY <1>3, <1>5
    <3> QED BY <3>1 DEF TokenBucket, Outcome, Deny, tokens
  <2>2. o.next \in TokenState /\ o.next.tokens = tokens /\ o.next.last = now
    BY <1>2, <2>1 DEF TokenState
  <2>3. units = 0 /\ Entered(row, now, 0) = row
    BY <2>1, EnteredNone
  <2> QED BY <1>2, <2>1, <2>2, <2>3 DEF units, back
<1> QED BY <1>4, <1>5 DEF units, back

LEMMA LeakyStep ==
  ASSUME NEW row \in Rows, NEW r \in Nat, NEW s \in LeakyState, NEW now \in Times,
         BucketHas(Capacity, row, r, Capacity * Window - s.level, s.last),
         NEW o, o = LeakyBucket(s, now, 1)
  PROVE  /\ o.d.allowed \in BOOLEAN /\ o.keep = TRUE /\ o.next \in LeakyState /\ o.next.last = now
         /\ BucketHas(Capacity, Entered(row, now, Units(o)), r + Back("leaky_bucket", s, now), Capacity * Window - o.next.level, now)
<1> DEFINE units == Units(o)
           back == Back("leaky_bucket", s, now)
<1> units = (IF o.d.allowed THEN 1 ELSE 0)
  BY DEF Units
<1> back = Most(0, s.last - now)
  BY BackIs
<1> HIDE DEF units, back
<1> DEFINE D == Capacity * Window
           level == Leaked(s, now)
<1>1. Capacity \in Nat /\ D \in Nat /\ s.level \in 0 .. D /\ s.last \in Times /\ D - s.level \in 0 .. D
  BY Settings DEF LeakyState
<1>2. level \in 0 .. D /\ D - level = Least(D, (D - s.level) + (now - Least(s.last, now)) * Limit)
  <2> DEFINE out == (now - Least(s.last, now)) * Limit
  <2>1. out \in Nat
    <3>1. now - Least(s.last, now) \in Nat
      BY <1>1, Bounds DEF Times, Least
    <3> QED BY <3>1, Settings
  <2>2. level = Most(0, s.level - out)
    BY DEF Leaked
  <2> HIDE DEF out, level, D
  <2>3. level \in 0 .. D /\ D - level = Least(D, (D - s.level) + out)
    BY <1>1, <2>1, <2>2 DEF Most, Least
  <2> QED BY <2>3 DEF out
<1>3. /\ back \in Nat
      /\ BucketHas(Capacity, row, r + back, D - level, now)
  <2> HIDE DEF level
  <2> QED BY <1>1, <1>2, BucketFlows
<1>4. D \in Nat /\ level \in Nat /\ Window \in Nat /\ 1 * Window = Window /\ D - level \in 0 .. D
  BY <1>1, <1>2, Settings
<1> HIDE DEF level
<1>5. CASE Window <= D - level
  <2>1. o.d.allowed = TRUE /\ o.keep = TRUE /\ o.next = [level |-> level + 1 * Window, last |-> now]
    <3>1. level + 1 * Window - Capacity * Window <= 0
      <4> HIDE DEF D
      <4>1. level + 1 * Window - D <= 0
        BY <1>4, <1>5
      <4> QED BY <4>1 DEF D
    <3> QED BY <3>1 DEF LeakyBucket, Outcome, Grant, level
  <2> HIDE DEF D
  <2>2. level + 1 * Window \in 0 .. D /\ D - (level + 1 * Window) = (D - level) - Window
    BY <1>4, <1>5
  <2>3. o.next \in LeakyState /\ o.next.level = level + 1 * Window /\ o.next.last = now
    BY <2>1, <2>2 DEF LeakyState, D
  <2>4. BucketHas(Capacity, Entered(row, now, 1), r + back, (D - level) - Window, now)
    <3>1. r + back \in Nat
      BY <1>3
    <3> QED BY <1>1, <1>3, <1>4, <1>5, <3>1, BucketTakes DEF D
  <2>5. units = 1
    BY <2>1
  <2>6. D - o.next.level = (D - level) - Window
    BY <2>2, <2>3
  <2> QED BY <2>1, <2>3, <2>4, <2>5, <2>6 DEF D, units, back
<1>6. CASE ~(Window <= D - level)
  <2>1. o.d.allowed = FALSE /\ o.keep = TRUE /\ o.next = [level |-> level, last |-> now]
    <3>1. ~(level + 1 * Window - Capacity * Window <= 0)
      <4> HIDE DEF D
      <4>1. ~(level + 1 * Window - D <= 0)
        BY <1>4, <1>6
      <4> QED BY <4>1 DEF D
    <3> QED BY <3>1 DEF LeakyBucket, Outcome, Deny, level
  <2>2. o.next \in LeakyState /\ o.next.level = level /\ o.next.last = now
    BY <1>2, <2>1 DEF LeakyState
  <2>3. units = 0 /\ Entered(row, now, 0) = row
    BY <2>1, EnteredNone
  <2> QED BY <1>3, <2>1, <2>2, <2>3 DEF units, back
<1> QED BY <1>5, <1>6 DEF units, back

(* What is covered is covered later on. *)
LEMMA CoversGrows ==
  ASSUME NEW row \in Rows, NEW from \in Times, NEW end \in Int, NEW to \in Int, end <= to,
         Covers(row, from, end, 0)
  PROVE  Covers(row, from, to, 0)
<1> DEFINE since == Between(row, from, MaxTime)
<1>1. from \in Nat /\ since \in Nat /\ since * Window \in Nat
  BY SinceType, Settings DEF Times
<1>2. CASE from <= end
  <2>1. since * Window + 0 <= Limit * (end - from)
    BY <1>1, <1>2, CoversIs
  <2>2. Limit * (end - from) <= Limit * (to - from)
        /\ Limit * (end - from) \in Int /\ Limit * (to - from) \in Int
    <3>1. end - from <= to - from /\ end - from \in Int /\ to - from \in Int /\ Limit \in Nat
      BY <1>1, Settings
    <3> QED BY <3>1, Scaled
  <2>3. since * Window + 0 <= Limit * (to - from) /\ from <= to
    <3> HIDE DEF since
    <3> QED BY <1>1, <1>2, <2>1, <2>2
  <2> QED BY <1>1, <2>3, CoversIs
<1>3. CASE ~(from <= end)
  <2>1. since = 0
    BY <1>1, <1>3, CoversIs
  <2>2. from <= to => Limit * (to - from) \in Nat
    BY <1>1, Settings
  <2>3. since * Window + 0 = 0
    BY <2>1, Settings
  <2> QED BY <1>1, <2>1, <2>2, <2>3, CoversIs
<1> QED BY <1>2, <1>3

(* A bucket nobody knows is full, and no unit was admitted later than the  *)
(* request that finds it can have read its instant.                        *)
LEMMA BucketFresh ==
  ASSUME NEW depth \in Nat, NEW row \in Rows, NEW r \in Nat, NEW c \in Times, NEW now \in Times,
         c - MaxLag <= now, BucketNone(depth, row, r, c)
  PROVE  BucketHas(depth, row, r, depth * Window, now)
<1> DEFINE D == depth * Window
<1>1. D \in Nat /\ D - D = 0 /\ c - MaxLag + r \in Int /\ now + r \in Int /\ c - MaxLag + r <= now + r
  BY Settings, Bounds DEF Times
<1> HIDE DEF D
<1>2. ASSUME NEW from \in Times
      PROVE  Covers(row, from, now + r, 0)
  <2>1. Covers(row, from, c - MaxLag + r, 0)
    BY DEF BucketNone
  <2> QED BY <1>1, <2>1, CoversGrows
<1> QED BY <1>1, <1>2 DEF BucketHas, BucketNone, D

LEMMA BucketLapses ==
  ASSUME NEW depth \in Nat \ {0}, NEW row \in Rows, NEW r \in Nat, NEW last \in Times,
         NEW room \in 0 .. depth * Window, NEW c \in Times, NEW x \in Nat,
         BucketHas(depth, row, r, room, last),
         depth * Window <= Limit * (x - MaxLag - last), x <= c
  PROVE  BucketNone(depth, row, r, c)
<1> DEFINE D == depth * Window
           gap == x - MaxLag - last
<1>1. D \in Nat /\ D > 0 /\ gap \in Int /\ c \in Int /\ last \in Int /\ MaxLag \in Int /\ Limit \in Nat
  BY Settings, Bounds DEF Times
<1> HIDE DEF D
<1>2. gap >= 0 /\ D <= Limit * gap
  BY <1>1, Settings DEF D
<1>3. last + r + gap <= c - MaxLag + r
  BY <1>1
<1> HIDE DEF gap
<1>4. ASSUME NEW from \in Times
      PROVE  Covers(row, from, c - MaxLag + r, 0)
  <2> DEFINE since == Between(row, from, MaxTime)
             end == c - MaxLag + r
  <2>1. from \in Nat /\ since \in Nat /\ since * Window \in Nat /\ end \in Int
    BY <1>1, SinceType, Settings DEF Times
  <2>2. Covers(row, from, last + r, room - D) /\ room - D \in Int
    BY <1>1 DEF BucketHas, D
  <2>3. CASE from <= last + r
    <3>1. since * Window + (room - D) <= Limit * (last + r - from)
      BY <1>1, <2>1, <2>2, <2>3, CoversIs
    <3>2. Limit * (last + r + gap - from) <= Limit * (end - from)
          /\ Limit * (last + r + gap - from) \in Int /\ Limit * (end - from) \in Int
      <4>1. last + r + gap - from <= end - from /\ last + r + gap - from \in Int /\ end - from \in Int
        BY <1>1, <1>3, <2>1
      <4> HIDE DEF end
      <4> QED BY <1>1, <4>1, Scaled
    <3>3. Limit * (last + r + gap - from) = Limit * (last + r - from) + Limit * gap
          /\ Limit * gap \in Int /\ Limit * (last + r - from) \in Int
      <4>1. last + r + gap - from = (last + r - from) + gap /\ last + r - from \in Int
        BY <1>1, <2>1
      <4> QED BY <1>1, <4>1, Spread
    <3>4. since * Window + 0 <= Limit * (end - from) /\ from <= end
      <4>1. room \in Nat
        BY <1>1 DEF D
      <4>2. from <= end
        BY <1>1, <1>2, <1>3, <2>1, <2>3
      <4> HIDE DEF since, end
      <4> QED BY <1>1, <1>2, <2>1, <3>1, <3>2, <3>3, <4>1, <4>2
    <3> QED BY <2>1, <3>4, CoversIs
  <2>4. CASE ~(from <= last + r)
    <3>1. since = 0
      BY <1>1, <2>1, <2>2, <2>4, CoversIs
    <3>2. from <= end => Limit * (end - from) \in Nat
      BY <1>1, <2>1
    <3>3. since * Window + 0 = 0
      BY <3>1, Settings
    <3> QED BY <2>1, <3>1, <3>2, <3>3, CoversIs
  <2> QED BY <2>3, <2>4
<1> QED BY <1>4 DEF BucketHas, BucketNone

-----------------------------------------------------------------------------
(* sliding_window_counter and concurrency.                                 *)

CounterState == [prev : 0 .. Limit, cur : 0 .. Limit, cell : Times]

LEMMA Cell ==
  ASSUME NEW t \in Nat
  PROVE  /\ CellWidth \in Nat \ {0} /\ 2 * CellWidth <= Window
         /\ t \div CellWidth \in Nat /\ t \div CellWidth <= t
         /\ (t \div CellWidth) * CellWidth <= t
         /\ t % CellWidth \in 0 .. CellWidth - 1
<1>1. CellWidth \in Nat /\ Cells * CellWidth <= Window /\ Window < Cells * CellWidth + Cells
  BY Settings, DivNat DEF CellWidth
<1>2. CellWidth # 0
  BY <1>1, Settings
<1>3. 2 * CellWidth <= Cells * CellWidth
  <2>1. CellWidth * 2 <= CellWidth * Cells
    BY <1>1, Settings, Scaled
  <2> QED BY <1>1, <2>1, Settings
<1>4. t \div CellWidth \in Nat /\ CellWidth * (t \div CellWidth) <= t /\ t \div CellWidth <= t
  BY <1>1, <1>2, DivNat
<1>5. t % CellWidth \in Int /\ 0 <= t % CellWidth /\ t % CellWidth < CellWidth
  BY <1>1, <1>2, DivMod
<1>6. (t \div CellWidth) * CellWidth = CellWidth * (t \div CellWidth)
  BY <1>1, <1>4
<1>7. Cells * CellWidth \in Nat
  BY <1>1, Settings
<1> QED BY <1>1, <1>2, <1>3, <1>4, <1>5, <1>6, <1>7, Settings

LEMMA CounterStep ==
  ASSUME NEW s \in CounterState, NEW now \in Times, NEW c \in Times,
         now <= c, s.cell * CellWidth <= c,
         NEW o, o = SlidingCounter(s, now, 1)
  PROVE  /\ o.d.allowed \in BOOLEAN /\ o.keep = TRUE /\ o.next \in CounterState
         /\ o.next.cell * CellWidth <= c
<1> DEFINE cell == now \div CellWidth
           z == Advanced(s, cell)
           left == CellWidth - (now % CellWidth)
           share == (z.prev * left) \div CellWidth
<1>1. now \in Nat /\ cell \in Times /\ cell * CellWidth <= c /\ CellWidth \in Nat \ {0} /\ left \in Nat
  <2>1. now \in Nat
    BY DEF Times
  <2>2. cell \in Nat /\ cell <= now /\ cell * CellWidth <= now /\ CellWidth \in Nat \ {0}
    BY <2>1, Cell
  <2>3. now % CellWidth \in 0 .. CellWidth - 1
    BY <2>1, Cell
  <2>4. cell * CellWidth \in Nat
    BY <2>2
  <2> HIDE DEF cell
  <2> QED BY <2>1, <2>2, <2>3, <2>4, Bounds DEF Times
<1> HIDE DEF cell
<1>2. z \in CounterState /\ z.cell * CellWidth <= c
  <2>1. /\ s.prev \in 0 .. Limit /\ s.cur \in 0 .. Limit /\ s.cell \in Times /\ 0 \in 0 .. Limit
    BY Settings DEF CounterState
  <2>2. CASE cell = s.cell + 1
    <3>1. z = [prev |-> s.cur, cur |-> 0, cell |-> cell]
      <4>1. ~(cell > s.cell + 1)
        BY <2>1, <2>2, Bounds DEF Times
      <4> QED BY <2>2, <4>1 DEF Advanced
    <3> HIDE DEF z
    <3> QED BY <1>1, <2>1, <3>1 DEF CounterState
  <2>3. CASE cell # s.cell + 1 /\ cell > s.cell + 1
    <3>1. z = [prev |-> 0, cur |-> 0, cell |-> cell]
      BY <2>3 DEF Advanced
    <3> HIDE DEF z
    <3> QED BY <1>1, <2>1, <3>1 DEF CounterState
  <2>4. CASE ~(cell = s.cell + 1) /\ ~(cell > s.cell + 1)
    BY <2>4 DEF Advanced
  <2> QED BY <2>2, <2>3, <2>4
<1> HIDE DEF z, left
<1>3. share \in Nat /\ z.cur \in 0 .. Limit /\ z.cell \in Times /\ z.prev \in 0 .. Limit
  <2>1. z.prev \in Nat /\ z.cur \in 0 .. Limit /\ z.cell \in Times /\ z.prev \in 0 .. Limit
    BY <1>2, Settings DEF CounterState
  <2>2. z.prev * left \in Nat
    BY <1>1, <2>1
  <2> QED BY <1>1, <2>1, <2>2, DivNat
<1> HIDE DEF share
<1>4. CASE share + z.cur + 1 <= Limit
  <2>1. o.d.allowed = TRUE /\ o.keep = TRUE /\ o.next = [z EXCEPT !.cur = @ + 1]
    BY <1>4 DEF SlidingCounter, Outcome, Grant, cell, z, left, share
  <2>2. z.cur + 1 \in 0 .. Limit
    BY <1>3, <1>4, Settings
  <2> QED BY <1>2, <2>1, <2>2 DEF CounterState
<1>5. CASE ~(share + z.cur + 1 <= Limit)
  <2>1. o.d.allowed = FALSE /\ o.keep = TRUE /\ o.next = z
    BY <1>5 DEF SlidingCounter, Outcome, Deny, cell, z, left, share
  <2> QED BY <1>2, <2>1
<1> QED BY <1>4, <1>5

LEMMA SlotStep ==
  ASSUME NEW s \in 0 .. Capacity, NEW o, o = Concurrency(s, 1)
  PROVE  \/ o.d.allowed = TRUE /\ o.keep = TRUE /\ o.next = s + 1 /\ s + 1 \in 1 .. Capacity
         \/ o.d.allowed = FALSE /\ o.keep \in BOOLEAN /\ (o.keep = TRUE <=> s # 0) /\ o.next = s
<1>1. CASE s + 1 <= Capacity
  <2>1. o.d.allowed = TRUE /\ o.keep = TRUE /\ o.next = s + 1
    BY <1>1 DEF Concurrency, Outcome, Grant
  <2> QED BY <1>1, <2>1, Settings
<1>2. CASE ~(s + 1 <= Capacity)
  BY <1>2 DEF Concurrency, Deny
<1> QED BY <1>1, <1>2

-----------------------------------------------------------------------------
(* What a stored state says of the ledger, whatever the strategy, and what *)
(* it says that nothing is stored.                                         *)

Has(kind, row, r, s, c) ==
  /\ kind = "fixed_window" => WindowHas(row, r, s)
  /\ kind = "sliding_window_log" => LogHas(row, s, c)
  /\ kind = "token_bucket" => BucketHas(Burst, row, r, s.tokens, s.last)
  /\ kind = "leaky_bucket" => BucketHas(Capacity, row, r, Capacity * Window - s.level, s.last)

HasNone(kind, row, r, c) ==
  /\ kind = "fixed_window" => WindowNone(row, r, c)
  /\ kind = "sliding_window_log" => LogNone(row, c)
  /\ kind = "token_bucket" => BucketNone(Burst, row, r, c)
  /\ kind = "leaky_bucket" => BucketNone(Capacity, row, r, c)

(* A state holds nothing later than c. *)
Past(kind, s, c) ==
  /\ kind = "fixed_window" => s.start <= c
  /\ kind = "sliding_window_log" => \A i \in 1 .. Len(s) : s[i] <= c
  /\ kind = "sliding_window_counter" => s.cell * CellWidth <= c
  /\ kind \in {"token_bucket", "leaky_bucket"} => s.last <= c

(* A state restricts no request that decides at x or later. *)
Lapsed(kind, s, x) ==
  /\ kind = "fixed_window" => s.start + Window + MaxLag <= x
  /\ kind = "sliding_window_log" => \A i \in 1 .. Len(s) : s[i] + Window + MaxLag <= x
  /\ kind = "sliding_window_counter" => s.cell * CellWidth + 2 * CellWidth + MaxLag <= x
  /\ kind = "token_bucket" => Burst * Window <= Limit * (x - MaxLag - s.last)
  /\ kind = "leaky_bucket" => Capacity * Window <= Limit * (x - MaxLag - s.last)

Timed == AllStrategies \ {"concurrency"}

LEMMA StateOfIs ==
  /\ StateOf("fixed_window") = WindowState
  /\ StateOf("sliding_window_log") = LogState
  /\ StateOf("sliding_window_counter") = CounterState
  /\ StateOf("token_bucket") = TokenState
  /\ StateOf("leaky_bucket") = LeakyState
  /\ StateOf("concurrency") = 1 .. Capacity
  BY DEF StateOf, WindowState, LogState, CounterState, TokenState, LeakyState

LEMMA StepIs ==
  ASSUME NEW s, NEW now, NEW cost
  PROVE  /\ Step("fixed_window", s, now, cost) = FixedWindow(s, now, cost)
         /\ Step("sliding_window_log", s, now, cost) = SlidingLog(s, now, cost)
         /\ Step("sliding_window_counter", s, now, cost) = SlidingCounter(s, now, cost)
         /\ Step("token_bucket", s, now, cost) = TokenBucket(s, now, cost)
         /\ Step("leaky_bucket", s, now, cost) = LeakyBucket(s, now, cost)
         /\ Step("concurrency", s, now, cost) = Concurrency(s, cost)
  BY DEF Step

LEMMA BlankIs ==
  ASSUME NEW now
  PROVE  /\ Blank("fixed_window", now) = [start |-> 0, count |-> 0]
         /\ Blank("sliding_window_log", now) = << >>
         /\ Blank("sliding_window_counter", now) = [prev |-> 0, cur |-> 0, cell |-> 0]
         /\ Blank("token_bucket", now) = [tokens |-> Burst * Window, last |-> now]
         /\ Blank("leaky_bucket", now) = [level |-> 0, last |-> now]
         /\ Blank("concurrency", now) = 0
  BY DEF Blank

(* A decision leaves a state that tells what its engine admitted. *)
Keeps(kind, row, r, c, now, o) ==
  /\ o.d.allowed \in BOOLEAN /\ o.keep = TRUE /\ o.next \in StateOf(kind)
  /\ Past(kind, o.next, c)
  /\ Has(kind, Entered(row, now, Units(o)), r, o.next, c)

LEMMA StepKeeps ==
  ASSUME NEW kind \in Timed, NEW row \in Rows, NEW r \in Nat, NEW s \in StateOf(kind),
         NEW c \in Times, NEW now \in Times, now <= c, c - MaxLag <= now,
         Has(kind, row, r, s, c), Past(kind, s, c)
  PROVE  /\ Back(kind, s, now) \in Nat
         /\ Keeps(kind, row, r + Back(kind, s, now), c, now, Step(kind, s, now, 1))
<1> DEFINE o == Step(kind, s, now, 1)
<1>1. kind \in AllStrategies /\ kind # "concurrency"
  BY DEF Timed
<1>2. CASE kind = "fixed_window"
  <2>1. s \in WindowState /\ o = FixedWindow(s, now, 1) /\ WindowHas(row, r, s)
    BY <1>2, StateOfIs, StepIs DEF Has
  <2>2. Back(kind, s, now) = IF s.start > StartOf(now) THEN 1 ELSE 0
    BY <1>2 DEF Back
  <2>3. /\ o.d.allowed \in BOOLEAN /\ o.keep = TRUE /\ o.next \in WindowState
        /\ o.next.start = StartOf(now)
        /\ WindowHas(Entered(row, now, Units(o)), r + Back("fixed_window", s, now), o.next)
    BY <2>1, WindowStep
  <2>4. StartOf(now) <= c
    BY Start, Bounds DEF Times
  <2>5. Back(kind, s, now) \in Nat
    BY <2>2
  <2> QED BY <1>2, <2>3, <2>4, <2>5, StateOfIs DEF Has, Past, Keeps
<1>3. CASE kind = "sliding_window_log"
  <2>1. s \in LogState /\ o = SlidingLog(s, now, 1) /\ LogHas(row, s, c)
        /\ \A i \in 1 .. Len(s) : s[i] <= c
    BY <1>3, StateOfIs, StepIs DEF Has, Past
  <2>2. Back(kind, s, now) = 0
    BY <1>3 DEF Back
  <2>3. /\ o.d.allowed \in BOOLEAN /\ o.keep = TRUE /\ o.next \in LogState
        /\ \A i \in 1 .. Len(o.next) : o.next[i] <= c
        /\ LogHas(Entered(row, now, Units(o)), o.next, c)
    BY <2>1, LogStep
  <2> QED BY <1>3, <2>2, <2>3, StateOfIs DEF Has, Past, Keeps
<1>4. CASE kind = "sliding_window_counter"
  <2>1. s \in CounterState /\ o = SlidingCounter(s, now, 1) /\ s.cell * CellWidth <= c
    BY <1>4, StateOfIs, StepIs DEF Past
  <2>2. Back(kind, s, now) = 0
    BY <1>4 DEF Back
  <2>3. /\ o.d.allowed \in BOOLEAN /\ o.keep = TRUE /\ o.next \in CounterState
        /\ o.next.cell * CellWidth <= c
    BY <2>1, CounterStep
  <2> QED BY <1>4, <2>2, <2>3, StateOfIs DEF Has, Past, Keeps
<1>5. CASE kind = "token_bucket"
  <2>1. s \in TokenState /\ o = TokenBucket(s, now, 1)
        /\ BucketHas(Burst, row, r, s.tokens, s.last)
    BY <1>5, StateOfIs, StepIs DEF Has
  <2>2. Back(kind, s, now) = Most(0, s.last - now)
    BY <1>5 DEF Back
  <2>3. /\ o.d.allowed \in BOOLEAN /\ o.keep = TRUE /\ o.next \in TokenState /\ o.next.last = now
        /\ BucketHas(Burst, Entered(row, now, Units(o)), r + Back("token_bucket", s, now), o.next.tokens, now)
    BY <2>1, TokenStep
  <2>4. Back(kind, s, now) \in Nat
    BY <2>1, <2>2, Bounds DEF TokenState, Times, Most
  <2> QED BY <1>5, <2>3, <2>4, StateOfIs DEF Has, Past, Keeps
<1>6. CASE kind = "leaky_bucket"
  <2>1. s \in LeakyState /\ o = LeakyBucket(s, now, 1)
        /\ BucketHas(Capacity, row, r, Capacity * Window - s.level, s.last)
    BY <1>6, StateOfIs, StepIs DEF Has
  <2>2. Back(kind, s, now) = Most(0, s.last - now)
    BY <1>6 DEF Back
  <2>3. /\ o.d.allowed \in BOOLEAN /\ o.keep = TRUE /\ o.next \in LeakyState /\ o.next.last = now
        /\ BucketHas(Capacity, Entered(row, now, Units(o)), r + Back("leaky_bucket", s, now),
                     Capacity * Window - o.next.level, now)
    BY <2>1, LeakyStep
  <2>4. Back(kind, s, now) \in Nat
    BY <2>1, <2>2, Bounds DEF LeakyState, Times, Most
  <2> QED BY <1>6, <2>3, <2>4, StateOfIs DEF Has, Past, Keeps
<1> QED BY <1>1, <1>2, <1>3, <1>4, <1>5, <1>6 DEF AllStrategies

(* So does one made with nothing stored.                                   *)
LEMMA BlankKeeps ==
  ASSUME NEW kind \in Timed, NEW row \in Rows, NEW r \in Nat,
         NEW c \in Times, NEW now \in Times, now <= c, c - MaxLag <= now,
         HasNone(kind, row, r, c)
  PROVE  /\ Back(kind, Blank(kind, now), now) = 0
         /\ Keeps(kind, row, r, c, now, Step(kind, Blank(kind, now), now, 1))
<1> DEFINE begin == IF kind = "fixed_window" THEN [start |-> StartOf(now), count |-> 0]
                    ELSE Blank(kind, now)
<1>1. kind \in AllStrategies /\ kind # "concurrency" /\ now \in Nat /\ c \in Nat /\ r + 0 = r
  BY DEF Timed, Times
<1>2. StartOf(now) \in Times /\ StartOf(now) <= now /\ StartOf(now) \in Nat /\ 0 \in Times
  BY <1>1, Start, Bounds DEF Times
<1>3. CASE kind = "fixed_window"
  <2>1. begin = [start |-> StartOf(now), count |-> 0]
    BY <1>3
  <2>2. begin \in StateOf(kind)
    <3>1. begin \in WindowState
      BY <1>2, <2>1, Settings DEF WindowState
    <3> QED BY <1>3, <3>1, StateOfIs
  <2>3. WindowHas(row, r, begin)
    BY <1>3, <2>1, WindowFresh DEF HasNone
  <2>4. Has(kind, row, r, begin, c) /\ Past(kind, begin, c)
    BY <1>1, <1>2, <1>3, <2>1, <2>3 DEF Has, Past
  <2>5. Step(kind, Blank(kind, now), now, 1) = Step(kind, begin, now, 1)
    BY <1>3, <2>1, StepIs, BlankIs, WindowBlank
  <2>6. Back(kind, begin, now) = 0 /\ Back(kind, Blank(kind, now), now) = 0
    BY <1>2, <1>3, <2>1, BlankIs DEF Back
  <2> HIDE DEF begin
  <2>7. Keeps(kind, row, r + Back(kind, begin, now), c, now, Step(kind, begin, now, 1))
    BY <2>2, <2>4, StepKeeps
  <2> QED BY <1>1, <2>5, <2>6, <2>7
<1>4. CASE kind # "fixed_window"
  <2>1. begin = Blank(kind, now)
    BY <1>4
  <2>2. begin \in StateOf(kind) /\ Past(kind, begin, c) /\ Back(kind, begin, now) = 0
    <3>1. CASE kind = "sliding_window_log"
      <4>1. begin = << >> /\ << >> \in LogState
        <5>1. << >> \in [1 .. 0 -> Times] /\ 0 \in 0 .. Limit
          BY Settings
        <5> QED BY <3>1, <5>1, BlankIs DEF LogState
      <4> QED BY <3>1, <4>1, StateOfIs DEF Past, Back
    <3>2. CASE kind = "sliding_window_counter"
      <4>1. begin = [prev |-> 0, cur |-> 0, cell |-> 0]
        BY <3>2, BlankIs
      <4>2. 0 * CellWidth = 0
        BY <1>1, Cell
      <4> HIDE DEF begin
      <4>3. begin \in CounterState
        BY <1>2, <4>1, Settings DEF CounterState
      <4>4. begin.cell * CellWidth <= c
        BY <1>1, <4>1, <4>2
      <4> QED BY <3>2, <4>3, <4>4, StateOfIs DEF Past, Back
    <3>3. CASE kind = "token_bucket"
      <4>1. begin = [tokens |-> Burst * Window, last |-> now] /\ Burst * Window \in 0 .. Burst * Window
        BY <3>3, BlankIs, Settings
      <4>2. Most(0, now - now) = 0
        BY <1>1 DEF Most
      <4> HIDE DEF begin
      <4>3. begin \in TokenState /\ begin.last = now
        BY <4>1 DEF TokenState
      <4> QED BY <1>1, <3>3, <4>2, <4>3, StateOfIs DEF Past, Back
    <3>4. CASE kind = "leaky_bucket"
      <4>1. begin = [level |-> 0, last |-> now] /\ 0 \in 0 .. Capacity * Window
        BY <3>4, BlankIs, Settings
      <4>2. Most(0, now - now) = 0
        BY <1>1 DEF Most
      <4> HIDE DEF begin
      <4>3. begin \in LeakyState /\ begin.last = now
        BY <4>1 DEF LeakyState
      <4> QED BY <1>1, <3>4, <4>2, <4>3, StateOfIs DEF Past, Back
    <3> QED BY <1>1, <1>4, <3>1, <3>2, <3>3, <3>4 DEF AllStrategies
  <2>3. Has(kind, row, r, begin, c)
    <3>1. CASE kind = "sliding_window_log"
      BY <2>1, <3>1, BlankIs, LogFresh DEF Has, HasNone
    <3>2. CASE kind = "sliding_window_counter"
      BY <3>2 DEF Has
    <3>3. CASE kind = "token_bucket"
      <4>1. BucketHas(Burst, row, r, Burst * Window, now)
        BY <3>3, BucketFresh, Settings DEF HasNone
      <4>2. begin.tokens = Burst * Window /\ begin.last = now
        BY <2>1, <3>3, BlankIs
      <4> HIDE DEF begin
      <4> QED BY <3>3, <4>1, <4>2 DEF Has
    <3>4. CASE kind = "leaky_bucket"
      <4>1. BucketHas(Capacity, row, r, Capacity * Window, now)
        BY <3>4, BucketFresh, Settings DEF HasNone
      <4>2. begin.level = 0 /\ begin.last = now /\ Capacity * Window - 0 = Capacity * Window
        BY <2>1, <3>4, BlankIs, Settings
      <4> HIDE DEF begin
      <4> QED BY <3>4, <4>1, <4>2 DEF Has
    <3> QED BY <1>1, <1>4, <3>1, <3>2, <3>3, <3>4 DEF AllStrategies
  <2>4. Step(kind, Blank(kind, now), now, 1) = Step(kind, begin, now, 1)
    BY <2>1
  <2>5. Back(kind, Blank(kind, now), now) = 0
    BY <2>1, <2>2
  <2> HIDE DEF begin
  <2>6. Keeps(kind, row, r + Back(kind, begin, now), c, now, Step(kind, begin, now, 1))
    BY <2>2, <2>3, StepKeeps
  <2> QED BY <1>1, <2>2, <2>4, <2>5, <2>6
<1> QED BY <1>3, <1>4

(* What is stored lapses before it goes, in a lease of TTL ticks or, when  *)
(* the settings are timely, of RestoreTTL ticks.                           *)
LEMMA LongEnough ==
  ASSUME NEW depth \in Nat \ {0}, MaxLag <= Window
  PROVE  /\ (Window * depth) \div Limit \in Nat
         /\ depth * Window <= Limit * (2 * Window + 2 * ((Window * depth) \div Limit) - MaxLag)
<1> DEFINE q == (Window * depth) \div Limit
<1>1. q \in Nat /\ Window * depth < Limit * q + Limit /\ Window * depth \in Nat
  BY Settings, DivNat
<1> HIDE DEF q
<1>2. Limit * (q + 1) <= Limit * (2 * Window + 2 * q - MaxLag)
      /\ Limit * (q + 1) \in Int /\ Limit * (2 * Window + 2 * q - MaxLag) \in Int
  <2>1. q + 1 <= 2 * Window + 2 * q - MaxLag /\ q + 1 \in Int /\ 2 * Window + 2 * q - MaxLag \in Int
    BY <1>1, Settings, Bounds
  <2> QED BY <2>1, Scaled, Settings
<1>3. Limit * (q + 1) = Limit * q + Limit /\ Limit * q \in Nat /\ depth * Window = Window * depth
  BY <1>1, Settings
<1>4. depth * Window <= Limit * (2 * Window + 2 * q - MaxLag)
  BY <1>1, <1>2, <1>3, Settings
<1> QED BY <1>1, <1>4 DEF q

LEMMA LeaseHolds ==
  ASSUME NEW kind \in Timed, NEW s \in StateOf(kind), NEW c \in Times, Past(kind, s, c),
         NEW life \in Nat, Window + MaxLag <= life,
         kind = "token_bucket" => Burst * Window <= Limit * (life - MaxLag),
         kind = "leaky_bucket" => Capacity * Window <= Limit * (life - MaxLag)
  PROVE  Lapsed(kind, s, c + life)
<1>1. kind \in AllStrategies /\ kind # "concurrency" /\ c \in Nat
  BY DEF Timed, Times
<1>2. CASE kind = "fixed_window"
  <2>1. s.start \in Nat
    <3>1. s \in WindowState
      BY <1>2, StateOfIs
    <3> QED BY <3>1 DEF WindowState, Times
  <2> QED BY <1>1, <1>2, <2>1, Settings, Bounds DEF Past, Lapsed
<1>3. CASE kind = "sliding_window_log"
  <2>1. PICK m \in 0 .. Limit : s \in [1 .. m -> Times]
    BY <1>3, StateOfIs DEF LogState
  <2>2. Len(s) = m /\ \A i \in 1 .. m : s[i] \in Nat
    BY <2>1, Settings DEF Times
  <2> QED BY <1>1, <1>3, <2>2, Settings, Bounds DEF Past, Lapsed
<1>4. CASE kind = "sliding_window_counter"
  <2>1. s.cell \in Nat /\ CellWidth \in Nat /\ 2 * CellWidth <= Window
    <3>1. s \in CounterState
      BY <1>4, StateOfIs
    <3> QED BY <1>1, <3>1, Cell DEF CounterState, Times
  <2>2. s.cell * CellWidth \in Nat
    BY <2>1
  <2>3. s.cell * CellWidth <= c
    BY <1>4 DEF Past
  <2>4. s.cell * CellWidth + 2 * CellWidth + MaxLag <= c + life
    BY <1>1, <2>1, <2>2, <2>3, Settings, Bounds
  <2> QED BY <1>4, <2>4 DEF Lapsed
<1>5. ASSUME NEW last \in Times, last <= c
      PROVE  Limit * (life - MaxLag) <= Limit * (c + life - MaxLag - last)
             /\ Limit * (life - MaxLag) \in Int /\ Limit * (c + life - MaxLag - last) \in Int
  <2>1. life - MaxLag <= c + life - MaxLag - last /\ life - MaxLag \in Int
        /\ c + life - MaxLag - last \in Int /\ Limit \in Nat
    BY <1>1, <1>5, Settings, Bounds DEF Times
  <2> QED BY <2>1, Scaled
<1>6. CASE kind = "token_bucket"
  <2>1. s.last \in Times /\ s.last <= c
    <3>1. s \in TokenState
      BY <1>6, StateOfIs
    <3> QED BY <1>6, <3>1 DEF TokenState, Past
  <2>2. Burst * Window <= Limit * (c + life - MaxLag - s.last)
    <3>1. Burst * Window \in Nat
      BY Settings
    <3> QED BY <1>5, <1>6, <2>1, <3>1
  <2> QED BY <1>1, <1>6, <2>1, <2>2, Settings, Bounds DEF Lapsed, Times
<1>7. CASE kind = "leaky_bucket"
  <2>1. s.last \in Times /\ s.last <= c
    <3>1. s \in LeakyState
      BY <1>7, StateOfIs
    <3> QED BY <1>7, <3>1 DEF LeakyState, Past
  <2>2. Capacity * Window <= Limit * (c + life - MaxLag - s.last)
    <3>1. Capacity * Window \in Nat
      BY Settings
    <3> QED BY <1>5, <1>7, <2>1, <3>1
  <2> QED BY <1>1, <1>7, <2>1, <2>2, Settings, Bounds DEF Lapsed, Times
<1> QED BY <1>1, <1>2, <1>3, <1>4, <1>6, <1>7 DEF AllStrategies

-----------------------------------------------------------------------------
(* The invariant.  Safe holds whatever the settings; Tells, which says     *)
(* what the stored states stand for, needs them to be Timely.              *)

Safe ==
  /\ TypeOK
  /\ \A e \in Engines : IsFiniteSet(DOMAIN shard[e]) /\ Cardinality(DOMAIN shard[e]) <= Budget
  /\ \A e \in Engines, k \in Keys : ledger[e][k] \in Rows
  /\ \A e \in Engines, k \in Keys : strategy \in Timed \/ e > active => held[e][k] = 0
  /\ \A e \in Engines : \A k \in DOMAIN shard[e] :
       strategy \in Timed => Past(strategy, shard[e][k].state, clock)
  /\ SlotsExact

Leased ==
  \A e \in Engines : \A k \in DOMAIN shard[e] :
    strategy \in Timed => Lapsed(strategy, shard[e][k].state, shard[e][k].expires)

Told ==
  \A e \in Engines : \A k \in Remembered(e) :
    strategy \in Timed =>
      IF Live(e, k)
      THEN Has(strategy, ledger[e][k], rewound[e][k], shard[e][k].state, clock)
      ELSE HasNone(strategy, ledger[e][k], rewound[e][k], clock)

Tells == Leased /\ Told

LEMMA TTLIs ==
  ASSUME NEW kind \in AllStrategies
  PROVE  /\ TTL(kind) \in Nat \ {0}
         /\ kind \in {"fixed_window", "sliding_window_log", "sliding_window_counter"} =>
              TTL(kind) = 2 * Window
         /\ kind = "token_bucket" => TTL(kind) >= 2 * Window + 2 * ((Window * Burst) \div Limit)
         /\ kind = "leaky_bucket" => TTL(kind) >= 2 * Window + 2 * ((Window * Capacity) \div Limit)
<1> DEFINE q(depth) == (Window * depth) \div Limit
<1>1. q(Burst) \in Nat /\ q(Capacity) \in Nat
  <2>1. Window * Burst \in Nat /\ Window * Capacity \in Nat /\ Limit \in Nat \ {0}
    BY Settings
  <2> QED BY <2>1, DivNat
<1> HIDE DEF q
<1>2. CASE kind \in {"fixed_window", "sliding_window_log", "sliding_window_counter"}
  <2>1. TTL(kind) = 2 * Window
    BY <1>2 DEF TTL
  <2> QED BY <1>2, <2>1, Settings
<1>3. CASE kind = "token_bucket"
  <2>1. TTL(kind) = Most(MinIdle, 2 * Window + 2 * q(Burst))
    BY <1>3 DEF TTL, q
  <2>2. TTL(kind) \in Nat \ {0} /\ TTL(kind) >= 2 * Window + 2 * q(Burst)
    BY <1>1, <2>1, Settings DEF Most
  <2> QED BY <1>3, <2>2 DEF q
<1>4. CASE kind = "leaky_bucket"
  <2>1. TTL(kind) = Most(MinIdle, 2 * Window + 2 * q(Capacity))
    BY <1>4 DEF TTL, q
  <2>2. TTL(kind) \in Nat \ {0} /\ TTL(kind) >= 2 * Window + 2 * q(Capacity)
    BY <1>1, <2>1, Settings DEF Most
  <2> QED BY <1>4, <2>2 DEF q
<1>5. CASE kind = "concurrency"
  <2>1. TTL(kind) = HoldTTL
    BY <1>5 DEF TTL
  <2> QED BY <1>5, <2>1, Settings
<1> QED BY <1>2, <1>3, <1>4, <1>5 DEF AllStrategies

(* What update leaves of a shard: the entry of k, if there is one, is the  *)
(* new one, the others are as they were, and they fit the budget.          *)
Shaped(kept, sh, k, keep, next) ==
  /\ DOMAIN kept \subseteq DOMAIN sh \cup {k}
  /\ k \in DOMAIN kept =>
       /\ keep = TRUE
       /\ kept[k] = [state |-> next, expires |-> clock + TTL(strategy), touched |-> clock]
  /\ \A j \in DOMAIN kept : j # k => kept[j] = sh[j]
  /\ IsFiniteSet(DOMAIN kept) /\ Cardinality(DOMAIN kept) <= Budget

LEMMA UpdateShape ==
  ASSUME NEW sh, NEW k \in Keys, NEW keep \in BOOLEAN, NEW next,
         IsFiniteSet(DOMAIN sh), Cardinality(DOMAIN sh) <= Budget,
         NEW kept \in Evicted(Updated(sh, k, keep, next))
  PROVE  Shaped(kept, sh, k, keep, next)
<1> DEFINE u == Updated(sh, k, keep, next)
           entry == [state |-> next, expires |-> clock + TTL(strategy), touched |-> clock]
           live == {j \in DOMAIN u : u[j].expires > clock}
<1>1. /\ DOMAIN u = IF keep THEN DOMAIN sh \cup {k} ELSE DOMAIN sh \ {k}
      /\ \A j \in DOMAIN u : j # k => u[j] = sh[j]
      /\ k \in DOMAIN u => keep = TRUE /\ u[k] = entry
  <2>1. CASE keep = TRUE
    BY <2>1 DEF Updated
  <2>2. CASE keep = FALSE
    BY <2>2 DEF Updated
  <2> QED BY <2>1, <2>2
<1>2. IsFiniteSet(DOMAIN u)
  BY <1>1, FS_AddElement, FS_RemoveElement
<1>3. CASE Cardinality(DOMAIN u) <= Budget
  <2>1. kept = u
    BY <1>3 DEF Evicted
  <2> HIDE DEF u
  <2> QED BY <1>1, <1>2, <1>3, <2>1 DEF Shaped
<1>4. CASE ~(Cardinality(DOMAIN u) <= Budget) /\ Cardinality(live) <= Budget
  <2>1. kept = Restrict(u, live)
    BY <1>4 DEF Evicted
  <2> HIDE DEF u
  <2>2. DOMAIN kept = live /\ \A j \in live : kept[j] = u[j]
    BY <2>1 DEF Restrict
  <2>3. IsFiniteSet(live) /\ live \subseteq DOMAIN u
    BY <1>2, FS_Subset
  <2> HIDE DEF live, entry
  <2> QED BY <1>1, <1>4, <2>2, <2>3 DEF entry, Shaped
<1>5. CASE ~(Cardinality(DOMAIN u) <= Budget) /\ ~(Cardinality(live) <= Budget)
  <2>1. \E S \in kSubset(Budget, live) : kept = Restrict(u, S)
    BY <1>5 DEF Evicted
  <2> HIDE DEF u
  <2>2. PICK S : S \in SUBSET live /\ Cardinality(S) = Budget /\ kept = Restrict(u, S)
    BY <2>1 DEF kSubset
  <2>3. DOMAIN kept = S /\ \A j \in S : kept[j] = u[j]
    BY <2>2 DEF Restrict
  <2>4. S \subseteq DOMAIN u
    BY <2>2
  <2>5. IsFiniteSet(S)
    BY <1>2, <2>4, FS_Subset
  <2> HIDE DEF live, entry
  <2> QED BY <1>1, <2>2, <2>3, <2>4, <2>5, Bounds DEF entry, Shaped
<1> QED BY <1>3, <1>4, <1>5

LEMMA Typed ==
  ASSUME Safe
  PROVE  /\ clock \in Times /\ strategy \in AllStrategies /\ TTL(strategy) \in Nat \ {0}
         /\ active \in Engines
         /\ \A e \in Engines : \A k \in DOMAIN shard[e] :
              /\ k \in Keys
              /\ shard[e][k].state \in StateOf(strategy)
              /\ shard[e][k].expires \in Leases /\ shard[e][k].expires \in Nat
              /\ shard[e][k].touched \in Times
         /\ \A e \in Engines, k \in Keys :
              /\ held[e][k] \in Nat /\ inherited[e][k] \in Nat /\ rewound[e][k] \in Nat
              /\ ledger[e][k] \in Rows
<1>1. strategy \in AllStrategies
  BY LimiterAssumption DEF Safe, TypeOK
<1>2. TTL(strategy) \in Nat \ {0}
  BY <1>1, TTLIs
<1>3. Leases \subseteq Nat
  BY <1>2, Bounds DEF Leases, Most
<1>4. ASSUME NEW e \in Engines, NEW k \in Keys
      PROVE  held[e][k] \in Nat /\ inherited[e][k] \in Nat /\ rewound[e][k] \in Nat
  BY DEF Safe, TypeOK
<1>5. ASSUME NEW e \in Engines, NEW k \in DOMAIN shard[e]
      PROVE  /\ k \in Keys
             /\ shard[e][k].state \in StateOf(strategy)
             /\ shard[e][k].expires \in Leases /\ shard[e][k].touched \in Times
  <2>1. k \in Keys /\ shard[e][k] \in [state : StateOf(strategy), expires : Leases, touched : Times]
    BY DEF Safe, TypeOK
  <2> QED BY <2>1
<1> QED BY <1>1, <1>2, <1>3, <1>4, <1>5 DEF Safe, TypeOK

(* What a call may store. *)
Fits(keep, next) ==
  /\ keep \in BOOLEAN
  /\ keep = TRUE => next \in StateOf(strategy)
  /\ keep = TRUE /\ strategy \in Timed => Past(strategy, next, clock)

(* What a call on k does to the shards, and whom it forgets. *)
Stores(e, k, keep, next) ==
  /\ DOMAIN shard' = Engines
  /\ forgotten' \in [Engines -> SUBSET Keys] /\ forgotten[e] \subseteq forgotten'[e]
  /\ \A x \in Engines : x # e => shard'[x] = shard[x] /\ forgotten'[x] = forgotten[x]
  /\ DOMAIN shard'[e] \subseteq DOMAIN shard[e] \cup {k}
  /\ \A j \in DOMAIN shard'[e] : j # k => shard'[e][j] = shard[e][j]
  /\ k \in DOMAIN shard'[e] =>
       /\ keep = TRUE
       /\ shard'[e][k] = [state |-> next, expires |-> clock + TTL(strategy), touched |-> clock]
  /\ \A j \in Keys \ forgotten'[e] : j # k /\ j \in DOMAIN shard[e] \ DOMAIN shard'[e] =>
       ~Live(e, j) /\ strategy # "concurrency"
  /\ k \notin forgotten'[e] =>
       /\ keep = TRUE => k \in DOMAIN shard'[e]
       /\ strategy = "concurrency" /\ k \in DOMAIN shard[e] => Live(e, k)

(* What Safe says of the shards. *)
ShardsFit ==
  \A x \in Engines :
    /\ DOMAIN shard'[x] \subseteq Keys
    /\ IsFiniteSet(DOMAIN shard'[x]) /\ Cardinality(DOMAIN shard'[x]) <= Budget
    /\ \A j \in DOMAIN shard'[x] :
         /\ shard'[x][j] \in [state : StateOf(strategy), expires : Leases, touched : Times]
         /\ strategy \in Timed => Past(strategy, shard'[x][j].state, clock)

LEMMA AfterUpdate ==
  ASSUME Safe, NEW e \in Engines, NEW k \in Keys, NEW keep, NEW next,
         Fits(keep, next), Update(e, k, keep, next)
  PROVE  Stores(e, k, keep, next) /\ ShardsFit
<1>0. /\ keep \in BOOLEAN
      /\ keep = TRUE => next \in StateOf(strategy)
      /\ keep = TRUE /\ strategy \in Timed => Past(strategy, next, clock)
  BY DEF Fits
<1>1. PICK kept \in Evicted(Updated(shard[e], k, keep, next)) :
        /\ shard' = [shard EXCEPT ![e] = kept]
        /\ forgotten' = [forgotten EXCEPT ![e] = @ \cup Lost(e, kept, k)
                           \cup {j \in {k} \ DOMAIN kept : keep}]
  BY DEF Update
<1>2. /\ DOMAIN shard = Engines /\ forgotten \in [Engines -> SUBSET Keys]
      /\ \A x \in Engines : DOMAIN shard[x] \subseteq Keys
      /\ \A x \in Engines : IsFiniteSet(DOMAIN shard[x]) /\ Cardinality(DOMAIN shard[x]) <= Budget
  BY DEF Safe, TypeOK
<1>3. /\ DOMAIN kept \subseteq DOMAIN shard[e] \cup {k}
      /\ k \in DOMAIN kept =>
           keep = TRUE /\ kept[k] = [state |-> next, expires |-> clock + TTL(strategy), touched |-> clock]
      /\ \A j \in DOMAIN kept : j # k => kept[j] = shard[e][j]
      /\ IsFiniteSet(DOMAIN kept) /\ Cardinality(DOMAIN kept) <= Budget
  <2>1. Shaped(kept, shard[e], k, keep, next)
    BY <1>0, <1>1, <1>2, UpdateShape
  <2> QED BY <2>1 DEF Shaped
<1>4. /\ DOMAIN shard' = Engines /\ shard'[e] = kept
      /\ \A x \in Engines : x # e => shard'[x] = shard[x] /\ forgotten'[x] = forgotten[x]
      /\ forgotten'[e] = forgotten[e] \cup Lost(e, kept, k) \cup {j \in {k} \ DOMAIN kept : keep}
  BY <1>1, <1>2
<1>5. Lost(e, kept, k) \subseteq Keys
  BY <1>2 DEF Lost
<1>6. forgotten' \in [Engines -> SUBSET Keys] /\ forgotten[e] \subseteq forgotten'[e]
  BY <1>1, <1>2, <1>4, <1>5
<1>7. \A j \in Keys \ forgotten'[e] : j # k /\ j \in DOMAIN shard[e] \ DOMAIN kept =>
        ~Live(e, j) /\ strategy # "concurrency"
  BY <1>4 DEF Lost
<1>8. k \notin forgotten'[e] =>
        /\ keep = TRUE => k \in DOMAIN kept
        /\ strategy = "concurrency" /\ k \in DOMAIN shard[e] => Live(e, k)
  BY <1>4 DEF Lost
<1>9. ASSUME NEW x \in Engines, NEW j \in DOMAIN shard[x]
      PROVE  /\ shard[x][j] \in [state : StateOf(strategy), expires : Leases, touched : Times]
             /\ strategy \in Timed => Past(strategy, shard[x][j].state, clock)
  BY DEF Safe, TypeOK
<1>10. keep = TRUE => [state |-> next, expires |-> clock + TTL(strategy), touched |-> clock]
                  \in [state : StateOf(strategy), expires : Leases, touched : Times]
  <2>1. clock \in Times /\ clock + TTL(strategy) \in Leases
    BY Typed, Bounds DEF Leases, Times, Most
  <2> QED BY <1>0, <2>1
<1>11. ASSUME NEW j \in DOMAIN kept
       PROVE  /\ kept[j] \in [state : StateOf(strategy), expires : Leases, touched : Times]
              /\ strategy \in Timed => Past(strategy, kept[j].state, clock)
  <2>1. CASE j = k
    <3>1. keep = TRUE /\ kept[k] = [state |-> next, expires |-> clock + TTL(strategy), touched |-> clock]
      BY <1>3, <2>1
    <3>2. kept[k].state = next
      BY <3>1
    <3> QED BY <1>0, <1>10, <2>1, <3>1, <3>2
  <2>2. CASE j # k
    BY <1>3, <1>9, <2>2
  <2> QED BY <2>1, <2>2
<1>12. ASSUME NEW x \in Engines
       PROVE  /\ DOMAIN shard'[x] \subseteq Keys
              /\ IsFiniteSet(DOMAIN shard'[x]) /\ Cardinality(DOMAIN shard'[x]) <= Budget
              /\ \A j \in DOMAIN shard'[x] :
                   /\ shard'[x][j] \in [state : StateOf(strategy), expires : Leases, touched : Times]
                   /\ strategy \in Timed => Past(strategy, shard'[x][j].state, clock)
  <2>1. CASE x = e
    BY <1>2, <1>3, <1>4, <1>11, <2>1
  <2>2. CASE x # e
    BY <1>2, <1>4, <1>9, <2>2
  <2> QED BY <2>1, <2>2
<1> QED BY <1>3, <1>4, <1>6, <1>7, <1>8, <1>12 DEF Stores, ShardsFit

(* Nothing admitted is covered by whatever is stored, or by nothing. *)
NoRow == [t \in Times |-> 0]

LEMMA NoRowIs ==
  /\ NoRow \in Rows
  /\ \A from \in Int, to \in Int : Between(NoRow, from, to) = 0
<1>1. NoRow \in Rows
  BY DEF Rows, NoRow
<1>2. \A t \in Int : UpTo(NoRow, t) = 0
  BY Bounds DEF UpTo, NoRow, Times, Least
<1>3. ASSUME NEW from \in Int, NEW to \in Int
      PROVE  Between(NoRow, from, to) = 0
  <2>1. UpTo(NoRow, to) = 0 /\ UpTo(NoRow, from - 1) = 0
    BY <1>2
  <2> QED BY <2>1 DEF Between
<1> QED BY <1>1, <1>3

LEMMA NoRowCovered ==
  ASSUME NEW from \in Times, NEW end \in Int, NEW sum \in Int, sum <= 0
  PROVE  Covers(NoRow, from, end, sum)
<1>1. NoRow \in Rows /\ Between(NoRow, from, MaxTime) = 0 /\ 0 * Window = 0
  BY NoRowIs, Bounds, Settings DEF Times
<1>2. from <= end => Limit * (end - from) \in Nat
  BY Settings, Bounds DEF Times
<1>3. from \in Int
  BY Bounds DEF Times
<1> HIDE DEF NoRow
<1> QED BY <1>1, <1>2, <1>3, CoversIs

LEMMA NoRowFits ==
  ASSUME NEW depth \in Nat, NEW r \in Nat
  PROVE  BucketFits(depth, NoRow, r)
<1> SUFFICES ASSUME NEW from \in Times, NEW to \in from .. MaxTime
             PROVE  Between(NoRow, from, to) * Window <= depth * Window + Limit * (to - from + r)
  BY DEF BucketFits
<1>1. from \in Int /\ to \in Int /\ to - from + r \in Nat
  BY Bounds DEF Times
<1>2. depth * Window \in Nat /\ Limit * (to - from + r) \in Nat /\ 0 * Window = 0
  BY <1>1, Settings
<1>3. Between(NoRow, from, to) = 0
  BY <1>1, NoRowIs
<1> QED BY <1>2, <1>3

LEMMA NoRowHas ==
  ASSUME NEW kind \in Timed, NEW s \in StateOf(kind), NEW r \in Nat, NEW c \in Times
  PROVE  Has(kind, NoRow, r, s, c) /\ HasNone(kind, NoRow, r, c)
<1>1. kind \in AllStrategies /\ kind # "concurrency" /\ c \in Int /\ MaxLag \in Int
  BY Bounds DEF Timed, Times
<1>2. CASE kind = "fixed_window"
  <2>1. s \in WindowState
    BY <1>2, StateOfIs
  <2>2. s.count \in Nat /\ Limit * r \in Nat /\ Limit \in Nat
    BY <2>1, Settings DEF WindowState
  <2>3. ASSUME NEW t \in Times PROVE InWindow(NoRow, t) = 0
    <3>1. StartOf(t) \in Int /\ StartOf(t) + Window - 1 \in Int
      BY Start, Settings DEF Times
    <3> QED BY <3>1, NoRowIs DEF InWindow
  <2>4. WindowHas(NoRow, r, s) /\ WindowNone(NoRow, r, c)
    BY <2>2, <2>3 DEF WindowHas, WindowNone
  <2> QED BY <1>2, <2>4 DEF Has, HasNone
<1>3. CASE kind = "sliding_window_log"
  <2>1. s \in LogState
    BY <1>3, StateOfIs
  <2>2. Len(s) \in Nat
    BY <2>1, Settings DEF LogState
  <2>3. \A x \in Times : Between(NoRow, x, MaxTime) = 0
    BY NoRowIs, Bounds DEF Times
  <2>4. LogFits(NoRow)
    <3>1. \A t \in Times : t \in Int /\ t + Window - MaxLag - 1 \in Int
      BY Settings, Bounds DEF Times
    <3> QED BY <3>1, NoRowIs, Settings DEF LogFits
  <2>5. LogHas(NoRow, s, c)
    BY <2>2, <2>3, <2>4 DEF LogHas
  <2>6. LogNone(NoRow, c)
    BY <2>3, <2>4 DEF LogNone
  <2> QED BY <1>3, <2>5, <2>6 DEF Has, HasNone
<1>4. CASE kind = "sliding_window_counter"
  BY <1>4 DEF Has, HasNone
<1>5. CASE kind = "token_bucket"
  <2>1. s \in TokenState
    BY <1>5, StateOfIs
  <2>2. /\ s.last + r \in Int /\ s.tokens - Burst * Window \in Int /\ s.tokens - Burst * Window <= 0
        /\ c - MaxLag + r \in Int /\ Burst \in Nat
    BY <1>1, <2>1, Settings DEF TokenState, Times
  <2>3. BucketHas(Burst, NoRow, r, s.tokens, s.last)
    BY <2>2, NoRowFits, NoRowCovered DEF BucketHas
  <2>4. BucketNone(Burst, NoRow, r, c)
    BY <2>2, NoRowFits, NoRowCovered DEF BucketNone
  <2> QED BY <1>5, <2>3, <2>4 DEF Has, HasNone
<1>6. CASE kind = "leaky_bucket"
  <2> DEFINE room == Capacity * Window - s.level
  <2>1. s \in LeakyState
    BY <1>6, StateOfIs
  <2>2. /\ s.last + r \in Int /\ room - Capacity * Window \in Int /\ room - Capacity * Window <= 0
        /\ c - MaxLag + r \in Int /\ Capacity \in Nat
    BY <1>1, <2>1, Settings DEF LeakyState, Times
  <2>3. BucketHas(Capacity, NoRow, r, room, s.last)
    <3> HIDE DEF room
    <3> QED BY <2>2, NoRowFits, NoRowCovered DEF BucketHas
  <2>4. BucketNone(Capacity, NoRow, r, c)
    BY <2>2, NoRowFits, NoRowCovered DEF BucketNone
  <2> QED BY <1>6, <2>3, <2>4 DEF Has, HasNone
<1> QED BY <1>1, <1>2, <1>3, <1>4, <1>5, <1>6 DEF AllStrategies

LEMMA NoRowNone ==
  ASSUME NEW kind \in Timed, NEW r \in Nat, NEW c \in Times
  PROVE  HasNone(kind, NoRow, r, c)
<1>1. \E s : s \in StateOf(kind)
  <2>1. /\ [start |-> 0, count |-> 0] \in WindowState
        /\ [prev |-> 0, cur |-> 0, cell |-> 0] \in CounterState
        /\ [tokens |-> 0, last |-> 0] \in TokenState
        /\ [level |-> 0, last |-> 0] \in LeakyState
    BY Settings, Bounds DEF WindowState, CounterState, TokenState, LeakyState, Times
  <2>2. << >> \in LogState
    <3>1. << >> \in [1 .. 0 -> Times] /\ 0 \in 0 .. Limit
      BY Settings
    <3> QED BY <3>1 DEF LogState
  <2> QED BY <2>1, <2>2, StateOfIs DEF AllStrategies, Timed
<1> QED BY <1>1, NoRowHas

LEMMA Instants ==
  ASSUME Safe, NEW now \in Most(0, clock - MaxLag) .. clock
  PROVE  now \in Times /\ now <= clock /\ clock - MaxLag <= now
<1>1. clock \in Nat /\ clock <= MaxTime
  BY Typed, Bounds DEF Times
<1> QED BY <1>1, Bounds DEF Most, Times

LEMMA RewindIs ==
  ASSUME NEW s, NEW now
  PROVE  Rewind(s, now) = Back(strategy, s, now)
  BY DEF Rewind, Back

(* What a decision makes of the shard, by the kind of strategy. *)
LEMMA Decided ==
  ASSUME Safe, strategy \in Timed, NEW e \in Engines, NEW k \in Keys,
         NEW now \in Most(0, clock - MaxLag) .. clock,
         NEW o, o = Step(strategy, Known(e, k, now), now, Cost)
  PROVE  /\ o.d.allowed \in BOOLEAN /\ o.keep = TRUE /\ o.next \in StateOf(strategy)
         /\ Past(strategy, o.next, clock)
         /\ Rewind(Known(e, k, now), now) \in Nat
<1>1. clock \in Times /\ now \in Times /\ now <= clock /\ clock - MaxLag <= now
  BY Typed, Instants
<1>2. NoRow \in Rows /\ 0 \in Nat /\ Cost = 1
  BY NoRowIs DEF Cost
<1>3. CASE Live(e, k)
  <2> DEFINE s == shard[e][k].state
  <2>1. k \in DOMAIN shard[e] /\ s \in StateOf(strategy)
    BY <1>3, Typed DEF Live
  <2>2. Past(strategy, s, clock)
    BY <2>1 DEF Safe
  <2>3. Known(e, k, now) = s
    BY <1>3 DEF Known
  <2> HIDE DEF s
  <2>4. Has(strategy, NoRow, 0, s, clock)
    BY <1>1, <1>2, <2>1, NoRowHas
  <2>5. /\ Back(strategy, s, now) \in Nat
        /\ Keeps(strategy, NoRow, 0 + Back(strategy, s, now), clock, now, Step(strategy, s, now, 1))
    BY <1>1, <1>2, <2>1, <2>2, <2>4, StepKeeps
  <2> QED BY <1>2, <2>3, <2>5, RewindIs DEF Keeps
<1>4. CASE ~Live(e, k)
  <2>1. Known(e, k, now) = Blank(strategy, now)
    BY <1>4 DEF Known
  <2>3. HasNone(strategy, NoRow, 0, clock)
    BY <1>1, <1>2, NoRowNone
  <2>4. /\ Back(strategy, Blank(strategy, now), now) = 0
        /\ Keeps(strategy, NoRow, 0, clock, now, Step(strategy, Blank(strategy, now), now, 1))
    BY <1>1, <1>2, <2>3, BlankKeeps
  <2> QED BY <1>2, <2>1, <2>4, RewindIs DEF Keeps
<1> QED BY <1>3, <1>4

LEMMA Slots ==
  ASSUME Safe, strategy = "concurrency", NEW e \in Engines, NEW k \in Keys, NEW now
  PROVE  /\ Known(e, k, now) \in 0 .. Capacity /\ Rewind(Known(e, k, now), now) = 0
         /\ Live(e, k) => Known(e, k, now) = shard[e][k].state
         /\ ~Live(e, k) => Known(e, k, now) = 0
<1>1. Live(e, k) => shard[e][k].state \in 1 .. Capacity
  BY Typed, StateOfIs DEF Live
<1>2. Blank(strategy, now) = 0
  BY BlankIs
<1> QED BY <1>1, <1>2, Settings DEF Known, Rewind

LEMMA Decides ==
  ASSUME Safe, NEW e \in Engines, NEW k \in Keys, NEW now \in Most(0, clock - MaxLag) .. clock,
         NEW o, o = Step(strategy, Known(e, k, now), now, Cost)
  PROVE  o.d.allowed \in BOOLEAN /\ Fits(o.keep, o.next) /\ Rewind(Known(e, k, now), now) \in Nat
<1>1. CASE strategy = "concurrency"
  <2> DEFINE s == Known(e, k, now)
  <2>1. s \in 0 .. Capacity /\ Rewind(s, now) = 0
    BY <1>1, Slots
  <2>2. o = Concurrency(s, 1)
    BY <1>1, StepIs DEF Cost
  <2> HIDE DEF s
  <2>3. \/ o.d.allowed = TRUE /\ o.keep = TRUE /\ o.next = s + 1 /\ s + 1 \in 1 .. Capacity
        \/ o.d.allowed = FALSE /\ o.keep \in BOOLEAN /\ (o.keep = TRUE <=> s # 0) /\ o.next = s
    BY <2>1, <2>2, SlotStep
  <2>4. StateOf(strategy) = 1 .. Capacity /\ strategy \notin Timed
    BY <1>1, StateOfIs, Zenon DEF Timed
  <2>5. o.keep = TRUE => o.next \in 1 .. Capacity
    BY <2>1, <2>3, Settings
  <2>6. Fits(o.keep, o.next)
    BY <2>3, <2>4, <2>5 DEF Fits
  <2>7. o.d.allowed \in BOOLEAN
    BY <2>3
  <2>8. Rewind(s, now) \in Nat
    BY <2>1
  <2> QED BY <2>6, <2>7, <2>8 DEF s
<1>2. CASE strategy # "concurrency"
  <2>1. strategy \in Timed
    BY <1>2, Typed DEF Timed
  <2> QED BY <2>1, Decided DEF Fits
<1> QED BY <1>1, <1>2

(* A call on k keeps Safe when what it does to the units does. *)
LEMMA UpdateSafe ==
  ASSUME Safe, clock' = clock, strategy' = strategy, active' = active, building' = building,
         inherited' = inherited,
         NEW e \in Engines, NEW k \in Keys, NEW keep, NEW next,
         Fits(keep, next), Update(e, k, keep, next),
         held' \in [Engines -> [Keys -> Nat]], rewound' \in [Engines -> [Keys -> Nat]],
         ledger' \in [Engines -> [Keys -> [Times -> Nat]]], late' \in 0 .. MaxLate,
         \A x \in Engines, j \in Keys : ledger'[x][j] \in Rows,
         \A x \in Engines, j \in Keys : strategy \in Timed \/ x > active => held'[x][j] = 0,
         SlotsExact'
  PROVE  Safe'
<1>1. Stores(e, k, keep, next) /\ ShardsFit
  BY AfterUpdate
<1>2. Leases' = Leases
  BY DEF Leases
<1>3. TypeOK'
  BY <1>1, <1>2 DEF Safe, TypeOK, Stores, ShardsFit
<1> QED BY <1>1, <1>3 DEF Safe, ShardsFit

LEMMA AllowSafe ==
  ASSUME Safe, NEW e \in Engines, NEW k \in Keys, NEW now \in Most(0, clock - MaxLag) .. clock,
         Allow(e, k, now)
  PROVE  Safe'
<1> DEFINE s == Known(e, k, now)
           o == Step(strategy, s, now, Cost)
           units == IF o.d.allowed THEN Cost ELSE 0
<1>1. /\ e <= active /\ (e < active => late < MaxLate)
      /\ Update(e, k, o.keep, o.next)
      /\ rewound' = [rewound EXCEPT ![e][k] = @ + Rewind(s, now)]
      /\ IF strategy = "concurrency"
         THEN held' = [held EXCEPT ![e][k] = @ + units] /\ UNCHANGED ledger
         ELSE ledger' = [ledger EXCEPT ![e][k] = Entered(@, now, units)] /\ UNCHANGED held
      /\ late' = IF e < active THEN late + 1 ELSE late
      /\ UNCHANGED << clock, strategy, active, building, inherited >>
  BY DEF Allow
<1>2. o.d.allowed \in BOOLEAN /\ Fits(o.keep, o.next) /\ Rewind(s, now) \in Nat
  BY Decides
<1>11. Stores(e, k, o.keep, o.next)
  BY <1>1, <1>2, AfterUpdate
<1>3. now \in Times /\ strategy \in AllStrategies /\ units \in Nat
  BY Instants, Typed DEF Cost
<1>4. /\ held \in [Engines -> [Keys -> Nat]] /\ rewound \in [Engines -> [Keys -> Nat]]
      /\ ledger \in [Engines -> [Keys -> [Times -> Nat]]] /\ late \in 0 .. MaxLate
      /\ \A x \in Engines, j \in Keys : ledger[x][j] \in Rows
      /\ \A x \in Engines, j \in Keys : strategy \in Timed \/ x > active => held[x][j] = 0
      /\ active \in Int /\ e \in Int
  <2>1. TypeOK
    BY DEF Safe
  <2>2. /\ held \in [Engines -> [Keys -> Nat]] /\ rewound \in [Engines -> [Keys -> Nat]]
        /\ ledger \in [Engines -> [Keys -> [Times -> Nat]]] /\ late \in 0 .. MaxLate
    BY <2>1 DEF TypeOK
  <2>3. \A x \in Engines, j \in Keys : ledger[x][j] \in Rows
    BY DEF Safe
  <2>4. \A x \in Engines, j \in Keys : strategy \in Timed \/ x > active => held[x][j] = 0
    BY DEF Safe
  <2>5. active \in Int /\ e \in Int
    BY <2>1 DEF TypeOK, Engines
  <2> QED BY <2>2, <2>3, <2>4, <2>5
<1> DEFINE rewind == Rewind(s, now)
<1>5. /\ rewound' = [rewound EXCEPT ![e][k] = @ + rewind] /\ rewind \in Nat
  BY <1>1, <1>2
<1>6. SlotsExact'
  <2> SUFFICES ASSUME strategy = "concurrency", NEW x \in Engines, NEW j \in Keys, j \notin forgotten'[x]
               PROVE  held'[x][j] + inherited[x][j]
                        = IF j \in DOMAIN shard'[x] THEN shard'[x][j].state ELSE 0
    BY <1>1 DEF SlotsExact, Remembered
  <2>1. held' = [held EXCEPT ![e][k] = @ + units]
    BY <1>1
  <2>2. j \notin forgotten[x] =>
          held[x][j] + inherited[x][j] = IF j \in DOMAIN shard[x] THEN shard[x][j].state ELSE 0
    BY DEF Safe, SlotsExact, Remembered
  <2>3. held[x][j] \in Nat /\ inherited[x][j] \in Nat
    BY Typed
  <2>4. CASE x # e
    <3>1. shard'[x] = shard[x] /\ forgotten'[x] = forgotten[x]
      BY <1>11, <2>4 DEF Stores
    <3>2. held'[x][j] = held[x][j]
      BY <1>4, <2>1, <2>4
    <3> QED BY <2>2, <3>1, <3>2
  <2>5. CASE x = e /\ j # k
    <3>1. forgotten[e] \subseteq forgotten'[e]
          /\ DOMAIN shard'[e] \subseteq DOMAIN shard[e] \cup {k}
          /\ (j \in DOMAIN shard'[e] => shard'[e][j] = shard[e][j])
          /\ ~(j \in DOMAIN shard[e] \ DOMAIN shard'[e])
      <4> HIDE DEF s, o
      <4> QED BY <1>11, <2>5 DEF Stores
    <3>2. held'[x][j] = held[x][j]
      BY <1>4, <2>1, <2>5
    <3> QED BY <2>2, <2>5, <3>1, <3>2
  <2>6. CASE x = e /\ j = k
    <3>1. /\ forgotten[e] \subseteq forgotten'[e]
          /\ k \in DOMAIN shard'[e] => o.keep = TRUE /\ shard'[e][k].state = o.next
          /\ o.keep = TRUE => k \in DOMAIN shard'[e]
          /\ k \in DOMAIN shard[e] => Live(e, k)
      <4> HIDE DEF s, o
      <4> QED BY <1>11, <2>6 DEF Stores
    <3>2. held'[e][k] = held[e][k] + units
      BY <1>4, <2>1
    <3>3. s \in 0 .. Capacity /\ s = held[e][k] + inherited[e][k]
      <4>1. /\ s \in 0 .. Capacity
            /\ Live(e, k) => s = shard[e][k].state
            /\ ~Live(e, k) => s = 0
        BY Slots
      <4> QED BY <2>2, <2>6, <3>1, <4>1 DEF Live
    <3>4. \/ o.d.allowed = TRUE /\ o.keep = TRUE /\ o.next = s + 1
          \/ o.d.allowed = FALSE /\ (o.keep = TRUE <=> s # 0) /\ o.next = s
      <4>1. o = Concurrency(s, 1)
        BY StepIs DEF Cost
      <4> HIDE DEF o, s
      <4>2. s \in 0 .. Capacity
        BY <3>3
      <4>3. \/ o.d.allowed = TRUE /\ o.keep = TRUE /\ o.next = s + 1 /\ s + 1 \in 1 .. Capacity
            \/ o.d.allowed = FALSE /\ o.keep \in BOOLEAN /\ (o.keep = TRUE <=> s # 0) /\ o.next = s
        BY <4>1, <4>2, SlotStep, Zenon
      <4> QED BY <4>3
    <3>5. (IF k \in DOMAIN shard'[e] THEN shard'[e][k].state ELSE 0) = s + units
      <4> HIDE DEF s, o
      <4> QED BY <3>1, <3>3, <3>4, Settings DEF Cost
    <3> HIDE DEF s, units
    <3> QED BY <1>3, <2>3, <2>6, <3>2, <3>3, <3>5, Settings
  <2> QED BY <2>4, <2>5, <2>6
<1> HIDE DEF s, o, units, rewind
<1>7. held' \in [Engines -> [Keys -> Nat]] /\ rewound' \in [Engines -> [Keys -> Nat]]
  <2>1. CASE strategy = "concurrency"
    <3>1. held' = [held EXCEPT ![e][k] = @ + units]
      BY <1>1, <2>1
    <3> QED BY <1>3, <1>4, <1>5, <3>1
  <2>2. CASE strategy # "concurrency"
    <3>1. held' = held
      BY <1>1, <2>2
    <3> QED BY <1>4, <1>5, <3>1
  <2> QED BY <2>1, <2>2
<1>8. ledger' \in [Engines -> [Keys -> [Times -> Nat]]]
      /\ \A x \in Engines, j \in Keys : ledger'[x][j] \in Rows
  <2>1. CASE strategy = "concurrency"
    BY <1>1, <1>4, <2>1
  <2>2. CASE strategy # "concurrency"
    <3>1. ledger' = [ledger EXCEPT ![e][k] = Entered(ledger[e][k], now, units)]
      BY <1>1, <2>2
    <3>2. Entered(ledger[e][k], now, units) \in Rows
      BY <1>3, <1>4, EnteredRow
    <3>3. Entered(ledger[e][k], now, units) \in [Times -> Nat]
      BY <3>2 DEF Rows
    <3> QED BY <1>4, <3>1, <3>2, <3>3
  <2> QED BY <2>1, <2>2
<1>9. late' \in 0 .. MaxLate
  BY <1>1, <1>4, Bounds
<1>10. \A x \in Engines, j \in Keys : strategy \in Timed \/ x > active => held'[x][j] = 0
  <2> SUFFICES ASSUME NEW x \in Engines, NEW j \in Keys, strategy \in Timed \/ x > active
               PROVE  held'[x][j] = 0
    OBVIOUS
  <2>1. CASE strategy = "concurrency"
    <3>1. x # e
      BY <1>1, <1>4, <2>1 DEF Timed
    <3> QED BY <1>1, <1>4, <2>1, <3>1
  <2>2. CASE strategy # "concurrency"
    BY <1>1, <1>4, <2>2
  <2> QED BY <2>1, <2>2
<1> QED BY <1>1, <1>2, <1>6, <1>7, <1>8, <1>9, <1>10, UpdateSafe

LEMMA ReleaseSafe ==
  ASSUME Safe, NEW e \in Engines, NEW k \in Keys, Release(e, k)
  PROVE  Safe'
<1> DEFINE s == Known(e, k, clock)
           left == HandedBack(s, Cost)
           keep == left > 0
<1>1. /\ held[e][k] > 0
      /\ Update(e, k, keep, left)
      /\ held' = [held EXCEPT ![e][k] = @ - Cost]
      /\ UNCHANGED << clock, strategy, active, building, inherited, ledger, rewound, late >>
  BY DEF Release
<1>2. held[e][k] \in Nat /\ inherited[e][k] \in Nat /\ strategy \in AllStrategies
  BY Typed
<1>3. strategy = "concurrency" /\ ~(e > active)
  <2>1. ~(strategy \in Timed) /\ ~(e > active)
    BY <1>1, <1>2 DEF Safe
  <2> QED BY <1>2, <2>1 DEF Timed
<1>4. s \in 0 .. Capacity
  BY <1>3, Slots
<1>5. left \in 0 .. Capacity /\ left = s - Least(1, s)
  <2> HIDE DEF s
  <2> QED BY <1>4, Settings DEF HandedBack, Cost, Least
<1>6. keep \in BOOLEAN /\ (keep = TRUE <=> left # 0)
  <2> HIDE DEF left
  <2> QED BY <1>5, Settings
<1> HIDE DEF s, left, keep
<1>7. Fits(keep, left)
  <2>1. StateOf(strategy) = 1 .. Capacity /\ strategy \notin Timed
    BY <1>3, StateOfIs, Zenon DEF Timed
  <2>2. keep = TRUE => left \in 1 .. Capacity
    BY <1>5, <1>6, Settings
  <2> QED BY <1>6, <2>1, <2>2 DEF Fits
<1>8. Stores(e, k, keep, left)
  BY <1>1, <1>7, AfterUpdate
<1>9. /\ held \in [Engines -> [Keys -> Nat]] /\ rewound \in [Engines -> [Keys -> Nat]]
      /\ ledger \in [Engines -> [Keys -> [Times -> Nat]]] /\ late \in 0 .. MaxLate
      /\ \A x \in Engines, j \in Keys : ledger[x][j] \in Rows
      /\ \A x \in Engines, j \in Keys : x > active => held[x][j] = 0
  BY DEF Safe, TypeOK
<1>10. held' = [held EXCEPT ![e][k] = held[e][k] - 1] /\ held[e][k] - 1 \in Nat
  BY <1>1, <1>2 DEF Cost
<1>11. SlotsExact'
  <2> SUFFICES ASSUME NEW x \in Engines, NEW j \in Keys, j \notin forgotten'[x]
               PROVE  held'[x][j] + inherited[x][j]
                        = IF j \in DOMAIN shard'[x] THEN shard'[x][j].state ELSE 0
    BY <1>1 DEF SlotsExact, Remembered
  <2>1. j \notin forgotten[x] =>
          held[x][j] + inherited[x][j] = IF j \in DOMAIN shard[x] THEN shard[x][j].state ELSE 0
    BY <1>3 DEF Safe, SlotsExact, Remembered
  <2>2. CASE x # e
    <3>1. shard'[x] = shard[x] /\ forgotten'[x] = forgotten[x]
      BY <1>8, <2>2 DEF Stores
    <3>2. held'[x][j] = held[x][j]
      BY <1>9, <1>10, <2>2
    <3> QED BY <2>1, <3>1, <3>2
  <2>3. CASE x = e /\ j # k
    <3>1. forgotten[e] \subseteq forgotten'[e]
          /\ DOMAIN shard'[e] \subseteq DOMAIN shard[e] \cup {k}
          /\ (j \in DOMAIN shard'[e] => shard'[e][j] = shard[e][j])
          /\ ~(j \in DOMAIN shard[e] \ DOMAIN shard'[e])
      BY <1>3, <1>8, <2>3 DEF Stores
    <3>2. held'[x][j] = held[x][j]
      BY <1>9, <1>10, <2>3
    <3> QED BY <2>1, <2>3, <3>1, <3>2
  <2>4. CASE x = e /\ j = k
    <3>1. /\ forgotten[e] \subseteq forgotten'[e]
          /\ k \in DOMAIN shard'[e] => keep = TRUE /\ shard'[e][k].state = left
          /\ keep = TRUE => k \in DOMAIN shard'[e]
          /\ k \in DOMAIN shard[e] => Live(e, k)
      BY <1>3, <1>8, <2>4 DEF Stores
    <3>2. held'[e][k] = held[e][k] - 1
      BY <1>9, <1>10
    <3>3. s = held[e][k] + inherited[e][k]
      <4>1. (Live(e, k) => s = shard[e][k].state) /\ (~Live(e, k) => s = 0)
        BY <1>3, Slots DEF s
      <4> QED BY <2>1, <2>4, <3>1, <4>1 DEF Live
    <3>4. left = s - 1
      BY <1>1, <1>2, <1>4, <1>5, <3>3, Settings DEF Least
    <3>5. (IF k \in DOMAIN shard'[e] THEN shard'[e][k].state ELSE 0) = left
      BY <1>6, <3>1
    <3> QED BY <1>2, <2>4, <3>2, <3>3, <3>4, <3>5
  <2> QED BY <2>2, <2>3, <2>4
<1>12. held' \in [Engines -> [Keys -> Nat]]
  BY <1>9, <1>10
<1>13. \A x \in Engines, j \in Keys : strategy \in Timed \/ x > active => held'[x][j] = 0
  BY <1>3, <1>9, <1>10 DEF Timed
<1> QED BY <1>1, <1>7, <1>9, <1>11, <1>12, <1>13, UpdateSafe

(* What a reload does to the shard it fills and to the one it drops. *)
LEMMA CarryOverSafe ==
  ASSUME Safe, CarryOver
  PROVE  Safe'
<1> DEFINE e == active + 1
           copy == Restored(shard[active])
           count(k) == IF k \in DOMAIN copy THEN copy[k].state ELSE 0
<1>1. /\ building = 0 /\ e \in Engines /\ building' = e
      /\ shard' = [shard EXCEPT ![e] = copy]
      /\ ledger' = [ledger EXCEPT ![e] = ledger[active]]
      /\ rewound' = [rewound EXCEPT ![e] = rewound[active]]
      /\ IF strategy = "concurrency"
         THEN inherited' = [inherited EXCEPT ![e] = [k \in Keys |-> count(k)]] /\ forgotten' = forgotten
         ELSE forgotten' = [forgotten EXCEPT ![e] = forgotten[active]] /\ inherited' = inherited
      /\ clock' = clock /\ strategy' = strategy /\ active' = active /\ held' = held /\ late' = late
  BY DEF CarryOver
<1>2. /\ active \in Engines /\ active \in Int /\ e # active /\ e > active /\ e \notin 1 .. active
  BY DEF Safe, TypeOK, Engines
<1>3. /\ clock \in Times /\ clock + RestoreTTL \in Leases
      /\ \A k \in DOMAIN shard[active] : k \in Keys /\ shard[active][k].state \in StateOf(strategy)
  <2>1. clock \in Times /\ TTL(strategy) \in Nat
    BY Typed
  <2> QED BY <1>2, <2>1, Typed, Bounds DEF Leases, Times, Most
<1>4. /\ DOMAIN copy = {k \in DOMAIN shard[active] : shard[active][k].expires > clock}
      /\ \A k \in DOMAIN copy :
           copy[k] = [state |-> shard[active][k].state, expires |-> clock + RestoreTTL,
                      touched |-> clock]
  BY DEF Restored
<1> HIDE DEF copy
<1>5. /\ DOMAIN copy \subseteq Keys
      /\ IsFiniteSet(DOMAIN copy) /\ Cardinality(DOMAIN copy) <= Budget
  <2>1. IsFiniteSet(DOMAIN shard[active]) /\ Cardinality(DOMAIN shard[active]) <= Budget
    BY <1>2 DEF Safe
  <2>2. Cardinality(DOMAIN shard[active]) \in Nat /\ Cardinality(DOMAIN copy) \in Nat
        /\ Cardinality(DOMAIN copy) <= Cardinality(DOMAIN shard[active]) /\ IsFiniteSet(DOMAIN copy)
    BY <1>4, <2>1, FS_Subset, FS_CardinalityType
  <2> QED BY <1>3, <1>4, <2>1, <2>2, Bounds
<1>6. ASSUME NEW k \in DOMAIN copy
      PROVE  /\ copy[k] \in [state : StateOf(strategy), expires : Leases, touched : Times]
             /\ strategy \in Timed => Past(strategy, copy[k].state, clock)
  <2>1. k \in DOMAIN shard[active] /\ shard[active][k].state \in StateOf(strategy)
    BY <1>3, <1>4
  <2>2. strategy \in Timed => Past(strategy, shard[active][k].state, clock)
    BY <1>2, <2>1 DEF Safe
  <2> DEFINE old == shard[active][k].state
  <2>3. copy[k] = [state |-> old, expires |-> clock + RestoreTTL, touched |-> clock]
    BY <1>4
  <2> HIDE DEF old
  <2>4. copy[k].state = old
    BY <2>3
  <2>5. old \in StateOf(strategy) /\ (strategy \in Timed => Past(strategy, old, clock))
    BY <2>1, <2>2 DEF old
  <2> QED BY <1>3, <2>3, <2>4, <2>5
<1> HIDE DEF e
<1>7. strategy = "concurrency" => \A k \in Keys : count(k) \in Nat
  <2>1. ASSUME strategy = "concurrency", NEW k \in DOMAIN copy PROVE copy[k].state \in Nat
    <3>1. copy[k].state \in StateOf(strategy)
      BY <1>6
    <3>2. copy[k].state \in 1 .. Capacity
      BY <2>1, <3>1, StateOfIs
    <3> QED BY <3>2, Settings
  <2> QED BY <2>1
<1>8. /\ held \in [Engines -> [Keys -> Nat]] /\ rewound \in [Engines -> [Keys -> Nat]]
      /\ inherited \in [Engines -> [Keys -> Nat]]
      /\ ledger \in [Engines -> [Keys -> [Times -> Nat]]] /\ late \in 0 .. MaxLate
      /\ forgotten \in [Engines -> SUBSET Keys] /\ DOMAIN shard = Engines
      /\ strategy \in StrategiesInUse
  BY DEF Safe, TypeOK
<1>9. inherited' \in [Engines -> [Keys -> Nat]] /\ forgotten' \in [Engines -> SUBSET Keys]
  <2>1. CASE strategy = "concurrency"
    <3>1. [k \in Keys |-> count(k)] \in [Keys -> Nat]
      BY <1>7, <2>1
    <3> QED BY <1>1, <1>8, <2>1, <3>1
  <2>2. CASE strategy # "concurrency"
    BY <1>1, <1>2, <1>8, <2>2
  <2> QED BY <2>1, <2>2
<1>10. rewound' \in [Engines -> [Keys -> Nat]]
       /\ ledger' \in [Engines -> [Keys -> [Times -> Nat]]]
       /\ \A x \in Engines, j \in Keys : ledger'[x][j] \in Rows
  <2>1. \A x \in Engines, j \in Keys : ledger[x][j] \in Rows
    BY DEF Safe
  <2> QED BY <1>1, <1>2, <1>8, <2>1
<1>11. /\ DOMAIN shard' = Engines /\ shard'[e] = copy
       /\ \A x \in Engines : x # e => shard'[x] = shard[x]
  BY <1>1, <1>8
<1>12. ShardsFit
  <2>1. \A x \in Engines :
          /\ DOMAIN shard[x] \subseteq Keys
          /\ IsFiniteSet(DOMAIN shard[x]) /\ Cardinality(DOMAIN shard[x]) <= Budget
          /\ \A j \in DOMAIN shard[x] :
               /\ shard[x][j] \in [state : StateOf(strategy), expires : Leases, touched : Times]
               /\ strategy \in Timed => Past(strategy, shard[x][j].state, clock)
    BY DEF Safe, TypeOK
  <2> QED BY <1>5, <1>6, <1>11, <2>1 DEF ShardsFit
<1>13. building' \in {0} \cup (Engines \ 1 .. active)
  BY <1>1, <1>2
<1>14. TypeOK'
  <2>1. Leases' = Leases
    BY <1>1 DEF Leases
  <2> QED BY <1>1, <1>2, <1>3, <1>8, <1>9, <1>10, <1>11, <1>12, <1>13, <2>1 DEF TypeOK, ShardsFit
<1>15. SlotsExact'
  <2> SUFFICES ASSUME strategy = "concurrency",
                      NEW x \in Engines, NEW j \in Keys, j \notin forgotten[x]
               PROVE  held[x][j] + inherited'[x][j]
                        = IF j \in DOMAIN shard'[x] THEN shard'[x][j].state ELSE 0
    BY <1>1 DEF SlotsExact, Remembered
  <2>1. CASE x = e
    <3>1. held[e][j] = 0 /\ inherited'[e][j] = count(j)
      BY <1>1, <1>2, <1>8 DEF Safe
    <3> QED BY <1>7, <1>11, <2>1, <3>1
  <2>2. CASE x # e
    <3>1. shard'[x] = shard[x] /\ inherited'[x] = inherited[x]
      BY <1>1, <1>8, <1>11, <2>2
    <3>2. held[x][j] + inherited[x][j] = IF j \in DOMAIN shard[x] THEN shard[x][j].state ELSE 0
      BY DEF Safe, SlotsExact, Remembered
    <3> QED BY <3>1, <3>2
  <2> QED BY <2>1, <2>2
<1>16. \A x \in Engines, j \in Keys : strategy \in Timed \/ x > active => held[x][j] = 0
  BY DEF Safe
<1> QED BY <1>1, <1>10, <1>12, <1>14, <1>15, <1>16 DEF Safe, ShardsFit

LEMMA AbandonSafe ==
  ASSUME Safe, Abandon
  PROVE  Safe'
<1>1. /\ building # 0 /\ building' = 0
      /\ shard' = [shard EXCEPT ![building] = << >>]
      /\ inherited' = [inherited EXCEPT ![building] = NoUnits]
      /\ ledger' = [ledger EXCEPT ![building] = NoAdmissions]
      /\ rewound' = [rewound EXCEPT ![building] = NoUnits]
      /\ forgotten' = [forgotten EXCEPT ![building] = {}]
      /\ clock' = clock /\ strategy' = strategy /\ active' = active /\ held' = held /\ late' = late
  BY DEF Abandon
<1>2. /\ held \in [Engines -> [Keys -> Nat]] /\ rewound \in [Engines -> [Keys -> Nat]]
      /\ inherited \in [Engines -> [Keys -> Nat]]
      /\ ledger \in [Engines -> [Keys -> [Times -> Nat]]] /\ late \in 0 .. MaxLate
      /\ forgotten \in [Engines -> SUBSET Keys] /\ DOMAIN shard = Engines
      /\ clock \in Times /\ strategy \in StrategiesInUse /\ active \in Engines
  BY DEF Safe, TypeOK
<1>3. building \in Engines /\ building > active
  BY <1>1 DEF Safe, TypeOK, Engines
<1>4. NoUnits \in [Keys -> Nat] /\ NoAdmissions \in [Keys -> [Times -> Nat]]
      /\ \A j \in Keys : NoUnits[j] = 0 /\ NoAdmissions[j] \in Rows
  BY NoRowIs DEF NoUnits, NoAdmissions, NoRow
<1>5. /\ DOMAIN shard' = Engines /\ shard'[building] = << >>
      /\ \A x \in Engines : x # building => shard'[x] = shard[x]
  BY <1>1, <1>2, <1>3
<1>6. DOMAIN << >> = {} /\ IsFiniteSet({}) /\ Cardinality({}) = 0
  BY FS_EmptySet
<1>7. ShardsFit
  <2>1. \A x \in Engines :
          /\ DOMAIN shard[x] \subseteq Keys
          /\ IsFiniteSet(DOMAIN shard[x]) /\ Cardinality(DOMAIN shard[x]) <= Budget
          /\ \A j \in DOMAIN shard[x] :
               /\ shard[x][j] \in [state : StateOf(strategy), expires : Leases, touched : Times]
               /\ strategy \in Timed => Past(strategy, shard[x][j].state, clock)
    BY DEF Safe, TypeOK
  <2> QED BY <1>5, <1>6, <2>1, Bounds DEF ShardsFit
<1>8. \A x \in Engines, j \in Keys : ledger'[x][j] \in Rows
  BY <1>1, <1>2, <1>3, <1>4 DEF Safe
<1>9. TypeOK'
  <2>1. Leases' = Leases
    BY <1>1 DEF Leases
  <2>2. /\ rewound' \in [Engines -> [Keys -> Nat]] /\ inherited' \in [Engines -> [Keys -> Nat]]
        /\ ledger' \in [Engines -> [Keys -> [Times -> Nat]]]
        /\ forgotten' \in [Engines -> SUBSET Keys]
    BY <1>1, <1>2, <1>4
  <2> QED BY <1>1, <1>2, <1>5, <1>7, <2>1, <2>2 DEF TypeOK, ShardsFit
<1>10. SlotsExact'
  <2> SUFFICES ASSUME strategy = "concurrency",
                      NEW x \in Engines, NEW j \in Keys, j \notin forgotten'[x]
               PROVE  held[x][j] + inherited'[x][j]
                        = IF j \in DOMAIN shard'[x] THEN shard'[x][j].state ELSE 0
    BY <1>1 DEF SlotsExact, Remembered
  <2>1. CASE x = building
    <3>1. held[x][j] = 0 /\ inherited'[x][j] = 0
      BY <1>1, <1>2, <1>3, <1>4, <2>1 DEF Safe
    <3> QED BY <1>5, <1>6, <2>1, <3>1
  <2>2. CASE x # building
    <3>1. shard'[x] = shard[x] /\ inherited'[x] = inherited[x] /\ forgotten'[x] = forgotten[x]
      BY <1>1, <1>2, <1>5, <2>2
    <3>2. held[x][j] + inherited[x][j] = IF j \in DOMAIN shard[x] THEN shard[x][j].state ELSE 0
      BY <3>1 DEF Safe, SlotsExact, Remembered
    <3> QED BY <3>1, <3>2
  <2> QED BY <2>1, <2>2
<1>11. \A x \in Engines, j \in Keys : strategy \in Timed \/ x > active => held[x][j] = 0
  BY DEF Safe
<1> QED BY <1>1, <1>7, <1>8, <1>9, <1>10, <1>11 DEF Safe, ShardsFit

LEMMA SwapSafe ==
  ASSUME Safe, Swap
  PROVE  Safe'
<1>1. /\ building # 0 /\ active' = building /\ building' = 0
      /\ clock' = clock /\ strategy' = strategy /\ shard' = shard /\ held' = held
      /\ inherited' = inherited /\ ledger' = ledger /\ rewound' = rewound
      /\ forgotten' = forgotten /\ late' = late
  BY DEF Swap, ghosts
<1>2. building \in Engines /\ building > active /\ active \in Int /\ building \in Int
  BY <1>1 DEF Safe, TypeOK, Engines
<1>3. TypeOK'
  <2>1. Leases' = Leases
    BY <1>1 DEF Leases
  <2> QED BY <1>1, <1>2, <2>1 DEF Safe, TypeOK
<1>4. SlotsExact'
  BY <1>1 DEF Safe, SlotsExact, Remembered
<1>5. \A x \in Engines, j \in Keys : strategy \in Timed \/ x > building => held[x][j] = 0
  <2>1. \A x \in Engines : x > building => x > active
    BY <1>2 DEF Engines
  <2> QED BY <2>1 DEF Safe
<1> QED BY <1>1, <1>3, <1>4, <1>5 DEF Safe

LEMMA PastGrows ==
  ASSUME NEW kind \in Timed, NEW s \in StateOf(kind), NEW c \in Nat, Past(kind, s, c)
  PROVE  Past(kind, s, c + 1)
<1>1. CASE kind = "fixed_window"
  <2>1. s \in WindowState
    BY <1>1, StateOfIs
  <2>2. s.start \in Nat
    BY <2>1 DEF WindowState, Times
  <2> QED BY <1>1, <2>2 DEF Past
<1>2. CASE kind = "sliding_window_log"
  <2>1. s \in LogState
    BY <1>2, StateOfIs
  <2>2. \A i \in 1 .. Len(s) : s[i] \in Nat
    BY <2>1, Settings DEF LogState, Times
  <2> QED BY <1>2, <2>2 DEF Past
<1>3. CASE kind = "sliding_window_counter"
  <2>1. s \in CounterState
    BY <1>3, StateOfIs
  <2>2. s.cell \in Nat /\ CellWidth \in Nat /\ 0 \in Nat
    BY <2>1, Cell DEF CounterState, Times
  <2>3. s.cell * CellWidth \in Nat
    BY <2>2
  <2> QED BY <1>3, <2>3 DEF Past
<1>4. CASE kind = "token_bucket"
  <2>1. s \in TokenState
    BY <1>4, StateOfIs
  <2>2. s.last \in Nat
    BY <2>1 DEF TokenState, Times
  <2> QED BY <1>4, <2>2 DEF Past
<1>5. CASE kind = "leaky_bucket"
  <2>1. s \in LeakyState
    BY <1>5, StateOfIs
  <2>2. s.last \in Nat
    BY <2>1 DEF LeakyState, Times
  <2> QED BY <1>5, <2>2 DEF Past
<1> QED BY <1>1, <1>2, <1>3, <1>4, <1>5 DEF Timed, AllStrategies

LEMMA TickSafe ==
  ASSUME Safe, Tick
  PROVE  Safe'
<1>1. /\ clock < MaxTime /\ clock' = clock + 1
      /\ strategy' = strategy /\ shard' = shard /\ active' = active /\ building' = building
      /\ held' = held /\ inherited' = inherited /\ ledger' = ledger /\ rewound' = rewound
      /\ forgotten' = forgotten /\ late' = late
  BY DEF Tick, ghosts
<1>2. clock \in Nat /\ clock + 1 \in Times
  BY <1>1, Typed, Bounds DEF Times
<1>3. TypeOK'
  <2>1. Leases' = Leases
    BY <1>1 DEF Leases
  <2> QED BY <1>1, <1>2, <2>1 DEF Safe, TypeOK
<1>4. SlotsExact'
  BY <1>1 DEF Safe, SlotsExact, Remembered
<1>5. ASSUME NEW x \in Engines, NEW k \in DOMAIN shard[x], strategy \in Timed
      PROVE  Past(strategy, shard[x][k].state, clock + 1)
  <2>1. shard[x][k].state \in StateOf(strategy)
    BY Typed
  <2>2. Past(strategy, shard[x][k].state, clock)
    BY <1>5 DEF Safe
  <2> QED BY <1>2, <1>5, <2>1, <2>2, PastGrows
<1> QED BY <1>1, <1>3, <1>4, <1>5 DEF Safe

LEMMA InitSafe ==
  ASSUME Init
  PROVE  Safe
<1>1. /\ clock = 0 /\ strategy \in StrategiesInUse /\ shard = [e \in Engines |-> << >>]
      /\ active = 1 /\ building = 0
      /\ held = [e \in Engines |-> NoUnits] /\ inherited = [e \in Engines |-> NoUnits]
      /\ ledger = [e \in Engines |-> NoAdmissions] /\ rewound = [e \in Engines |-> NoUnits]
      /\ forgotten = [e \in Engines |-> {}] /\ late = 0
  BY DEF Init
<1>2. NoUnits \in [Keys -> Nat] /\ NoAdmissions \in [Keys -> [Times -> Nat]]
      /\ \A j \in Keys : NoUnits[j] = 0 /\ NoAdmissions[j] \in Rows
  BY NoRowIs DEF NoUnits, NoAdmissions, NoRow
<1>3. DOMAIN << >> = {} /\ IsFiniteSet({}) /\ Cardinality({}) = 0
  BY FS_EmptySet
<1>4. clock \in Times /\ active \in Engines /\ late \in 0 .. MaxLate
  BY <1>1, Bounds DEF Times, Engines
<1>5. TypeOK
  BY <1>1, <1>2, <1>3, <1>4 DEF TypeOK
<1>6. SlotsExact
  BY <1>1, <1>2, <1>3 DEF SlotsExact, Remembered
<1> QED BY <1>1, <1>2, <1>3, <1>5, <1>6, Bounds DEF Safe

LEMMA StutterSafe ==
  ASSUME Safe, UNCHANGED vars
  PROVE  Safe'
<1>1. /\ clock' = clock /\ strategy' = strategy /\ shard' = shard /\ active' = active
      /\ building' = building /\ held' = held /\ inherited' = inherited /\ ledger' = ledger
      /\ rewound' = rewound /\ forgotten' = forgotten /\ late' = late
  BY DEF vars
<1>2. TypeOK'
  <2>1. Leases' = Leases
    BY <1>1 DEF Leases
  <2> QED BY <1>1, <2>1 DEF Safe, TypeOK
<1>3. SlotsExact'
  BY <1>1 DEF Safe, SlotsExact, Remembered
<1> QED BY <1>1, <1>2, <1>3 DEF Safe

(* What a limiter keeps is of its kind and within its bounds, the units of *)
(* concurrency add up, and no state is later than the clock.               *)
THEOREM AlwaysSafe == Spec => []Safe
<1>1. Init => Safe
  BY InitSafe
<1>2. Safe /\ [Next]_vars => Safe'
  <2> SUFFICES ASSUME Safe, [Next]_vars PROVE Safe'
    OBVIOUS
  <2>1. ASSUME NEW e \in Engines, NEW k \in Keys, NEW now \in Most(0, clock - MaxLag) .. clock,
               Allow(e, k, now)
        PROVE  Safe'
    BY <2>1, AllowSafe
  <2>2. ASSUME NEW e \in Engines, NEW k \in Keys, Release(e, k) PROVE Safe'
    BY <2>2, ReleaseSafe
  <2>3. CASE CarryOver
    BY <2>3, CarryOverSafe
  <2>4. CASE Abandon
    BY <2>4, AbandonSafe
  <2>5. CASE Swap
    BY <2>5, SwapSafe
  <2>6. CASE Tick
    BY <2>6, TickSafe
  <2>7. CASE UNCHANGED vars
    BY <2>7, StutterSafe
  <2> QED BY <2>1, <2>2, <2>3, <2>4, <2>5, <2>6, <2>7 DEF Next
<1> QED BY <1>1, <1>2, PTL DEF Spec

(* No state holds more than its settings allow and no shard more entries   *)
(* than its budget, whatever keys the clients present (engine.go           *)
(* evictLocked).                                                           *)
THEOREM AlwaysBounded == Spec => []Bounded
<1>1. Safe => Bounded
  BY DEF Safe, Bounded
<1> QED BY <1>1, AlwaysSafe, PTL

(* A concurrency counter is the units held and those inherited, whatever   *)
(* order admissions, releases and reloads come in (concurrency/algo.go     *)
(* Step, ReleaseStep; engine.go Release, restore).                         *)
THEOREM SlotsAlwaysExact == Spec => []SlotsExact
<1>1. Safe => SlotsExact
  BY DEF Safe
<1> QED BY <1>1, AlwaysSafe, PTL

-----------------------------------------------------------------------------
(* What is stored tells what was admitted, when the settings are Timely.   *)

LEMMA TTLHolds ==
  ASSUME Timely, NEW kind \in Timed, NEW s \in StateOf(kind), NEW c \in Times, Past(kind, s, c)
  PROVE  Lapsed(kind, s, c + TTL(kind))
<1> DEFINE life == TTL(kind)
           q(depth) == (Window * depth) \div Limit
<1>1. MaxLag <= Window /\ kind \in AllStrategies /\ life \in Nat
  <2>1. kind \in AllStrategies
    BY DEF Timed
  <2> QED BY <2>1, TTLIs DEF Timely
<1>2. /\ kind \in {"fixed_window", "sliding_window_log", "sliding_window_counter"} => life = 2 * Window
      /\ kind = "token_bucket" => life >= 2 * Window + 2 * q(Burst)
      /\ kind = "leaky_bucket" => life >= 2 * Window + 2 * q(Capacity)
  BY <1>1, TTLIs
<1>3. ASSUME NEW depth \in Nat \ {0}, life >= 2 * Window + 2 * q(depth)
      PROVE  Window + MaxLag <= life /\ depth * Window <= Limit * (life - MaxLag)
  <2> DEFINE least == 2 * Window + 2 * q(depth)
  <2>1. q(depth) \in Nat /\ depth * Window <= Limit * (2 * Window + 2 * q(depth) - MaxLag)
    BY <1>1, LongEnough
  <2> HIDE DEF q
  <2>2. least - MaxLag \in Int /\ life - MaxLag \in Int /\ least - MaxLag <= life - MaxLag
        /\ Window + MaxLag <= life /\ Limit \in Nat /\ depth * Window \in Int
    BY <1>1, <1>3, <2>1, Settings, Bounds
  <2>4. 2 * Window + 2 * q(depth) - MaxLag = least - MaxLag
    BY <2>1, Settings, Bounds
  <2> HIDE DEF least, life
  <2>3. Limit * (least - MaxLag) <= Limit * (life - MaxLag)
        /\ Limit * (least - MaxLag) \in Int /\ Limit * (life - MaxLag) \in Int
    BY <2>2, Scaled
  <2> QED BY <2>1, <2>2, <2>3, <2>4
<1> HIDE DEF life, q
<1>4. CASE kind \in {"fixed_window", "sliding_window_log", "sliding_window_counter"}
  <2>1. Window + MaxLag <= life
    BY <1>1, <1>2, <1>4, Settings, Bounds
  <2>2. Lapsed(kind, s, c + life)
    BY <1>1, <1>4, <2>1, LeaseHolds
  <2> QED BY <2>2 DEF life
<1>5. CASE kind = "token_bucket"
  <2>1. Window + MaxLag <= life /\ Burst * Window <= Limit * (life - MaxLag)
    BY <1>2, <1>3, <1>5, Settings
  <2>2. Lapsed(kind, s, c + life)
    BY <1>1, <1>5, <2>1, LeaseHolds
  <2> QED BY <2>2 DEF life
<1>6. CASE kind = "leaky_bucket"
  <2>1. Window + MaxLag <= life /\ Capacity * Window <= Limit * (life - MaxLag)
    BY <1>2, <1>3, <1>6, Settings
  <2>2. Lapsed(kind, s, c + life)
    BY <1>1, <1>6, <2>1, LeaseHolds
  <2> QED BY <2>2 DEF life
<1> QED BY <1>1, <1>4, <1>5, <1>6 DEF Timed, AllStrategies

LEMMA RestoreHolds ==
  ASSUME Timely, NEW kind \in Timed, NEW s \in StateOf(kind), NEW c \in Times, Past(kind, s, c)
  PROVE  Lapsed(kind, s, c + RestoreTTL)
<1> DEFINE most == Most(Burst, Capacity)
           room == RestoreTTL - MaxLag
<1>1. Window + MaxLag <= RestoreTTL /\ most * Window <= Limit * room /\ RestoreTTL \in Nat
  BY Bounds DEF Timely
<1>2. most \in Nat /\ Burst <= most /\ Capacity <= most /\ room \in Int
  BY Settings, Bounds DEF Most
<1> HIDE DEF most, room
<1>3. Burst * Window <= Limit * room /\ Capacity * Window <= Limit * room
  <2>1. Window * Burst <= Window * most /\ Window * Capacity <= Window * most
        /\ Window * Burst \in Int /\ Window * Capacity \in Int /\ Window * most \in Int
    BY <1>2, Settings, Scaled
  <2>2. Limit * room \in Int /\ Burst * Window = Window * Burst /\ Capacity * Window = Window * Capacity
        /\ most * Window = Window * most
    BY <1>2, Settings
  <2> QED BY <1>1, <2>1, <2>2
<1>4. Burst * Window <= Limit * (RestoreTTL - MaxLag)
      /\ Capacity * Window <= Limit * (RestoreTTL - MaxLag)
  BY <1>3 DEF room
<1> QED BY <1>1, <1>4, LeaseHolds

(* A decision by what is known of a key tells of its admission too. *)
LEMMA AllowKeeps ==
  ASSUME Safe, Told, strategy \in Timed, NEW e \in Engines, NEW k \in Remembered(e),
         NEW now \in Most(0, clock - MaxLag) .. clock
  PROVE  Keeps(strategy, ledger[e][k], rewound[e][k] + Rewind(Known(e, k, now), now), clock, now,
               Step(strategy, Known(e, k, now), now, 1))
<1>1. clock \in Times /\ now \in Times /\ now <= clock /\ clock - MaxLag <= now
  BY Typed, Instants
<1>2. k \in Keys
  BY DEF Remembered
<1>3. ledger[e][k] \in Rows /\ rewound[e][k] \in Nat
  BY <1>2, Typed
<1>4. CASE Live(e, k)
  <2> DEFINE s == shard[e][k].state
  <2>1. k \in DOMAIN shard[e] /\ s \in StateOf(strategy) /\ Known(e, k, now) = s
    BY <1>4, Typed DEF Live, Known
  <2>2. Past(strategy, s, clock)
    BY <2>1 DEF Safe
  <2>3. Has(strategy, ledger[e][k], rewound[e][k], s, clock)
    BY <1>4 DEF Told
  <2> HIDE DEF s
  <2>4. Keeps(strategy, ledger[e][k], rewound[e][k] + Back(strategy, s, now), clock, now,
              Step(strategy, s, now, 1))
    BY <1>1, <1>3, <2>1, <2>2, <2>3, StepKeeps
  <2> QED BY <2>1, <2>4, RewindIs
<1>5. CASE ~Live(e, k)
  <2>1. Known(e, k, now) = Blank(strategy, now)
    BY <1>5 DEF Known
  <2>2. HasNone(strategy, ledger[e][k], rewound[e][k], clock)
    BY <1>5 DEF Told
  <2>3. /\ Back(strategy, Blank(strategy, now), now) = 0
        /\ Keeps(strategy, ledger[e][k], rewound[e][k], clock, now,
                 Step(strategy, Blank(strategy, now), now, 1))
    BY <1>1, <1>3, <2>2, BlankKeeps
  <2>4. rewound[e][k] + 0 = rewound[e][k]
    BY <1>3
  <2> QED BY <2>1, <2>3, <2>4, RewindIs
<1> QED BY <1>4, <1>5

LEMMA AllowTells ==
  ASSUME Timely, Safe, Tells, strategy \in Timed,
         NEW e \in Engines, NEW k \in Keys, NEW now \in Most(0, clock - MaxLag) .. clock,
         Allow(e, k, now)
  PROVE  Tells'
<1> DEFINE s == Known(e, k, now)
           o == Step(strategy, s, now, Cost)
           units == IF o.d.allowed THEN Cost ELSE 0
           rewind == Rewind(s, now)
<1>1. /\ Update(e, k, o.keep, o.next)
      /\ rewound' = [rewound EXCEPT ![e][k] = @ + rewind]
      /\ ledger' = [ledger EXCEPT ![e][k] = Entered(@, now, units)]
      /\ clock' = clock /\ strategy' = strategy
  BY DEF Allow, Timed
<1>2. /\ o.d.allowed \in BOOLEAN /\ o.keep = TRUE /\ o.next \in StateOf(strategy)
      /\ Past(strategy, o.next, clock) /\ Fits(o.keep, o.next)
  BY Decided, Decides
<1>3. Stores(e, k, o.keep, o.next)
  BY <1>1, <1>2, AfterUpdate
<1>4. units = Units(o) /\ o = Step(strategy, s, now, 1) /\ clock \in Times /\ TTL(strategy) \in Nat \ {0}
  BY Typed DEF Units, Cost
<1>5. k \in Remembered(e) =>
        /\ Keeps(strategy, ledger[e][k], rewound[e][k] + rewind, clock, now, o)
        /\ Has(strategy, Entered(ledger[e][k], now, units), rewound[e][k] + rewind, o.next, clock)
  BY <1>4, AllowKeeps DEF Tells, Keeps
<1> HIDE DEF s, o, units, rewind
<1>6. Leased'
  <2> SUFFICES ASSUME NEW x \in Engines, NEW j \in DOMAIN shard'[x]
               PROVE  Lapsed(strategy, shard'[x][j].state, shard'[x][j].expires)
    BY <1>1 DEF Leased
  <2>1. CASE x = e /\ j = k
    <3>1. shard'[e][k] = [state |-> o.next, expires |-> clock + TTL(strategy), touched |-> clock]
      BY <1>3, <2>1 DEF Stores
    <3>2. Lapsed(strategy, o.next, clock + TTL(strategy))
      BY <1>2, <1>4, TTLHolds
    <3>3. shard'[e][k].state = o.next /\ shard'[e][k].expires = clock + TTL(strategy)
      BY <3>1
    <3> QED BY <2>1, <3>2, <3>3
  <2>2. CASE ~(x = e /\ j = k)
    <3>1. j \in DOMAIN shard[x] /\ shard'[x][j] = shard[x][j]
      BY <1>3, <2>2 DEF Stores
    <3> QED BY <3>1 DEF Tells, Leased
  <2> QED BY <2>1, <2>2
<1>7. Told'
  <2> SUFFICES ASSUME NEW x \in Engines, NEW j \in Keys, j \notin forgotten'[x]
               PROVE  IF Live(x, j)'
                      THEN Has(strategy, ledger'[x][j], rewound'[x][j], shard'[x][j].state, clock)
                      ELSE HasNone(strategy, ledger'[x][j], rewound'[x][j], clock)
    BY <1>1 DEF Told, Remembered
  <2>1. /\ ledger \in [Engines -> [Keys -> [Times -> Nat]]] /\ rewound \in [Engines -> [Keys -> Nat]]
    BY DEF Safe, TypeOK
  <2>2. CASE x = e /\ j = k
    <3>1. k \in Remembered(e) /\ k \in DOMAIN shard'[e]
      BY <1>2, <1>3, <2>2 DEF Stores, Remembered
    <3>2. shard'[e][k] = [state |-> o.next, expires |-> clock + TTL(strategy), touched |-> clock]
      BY <1>3, <3>1 DEF Stores
    <3>3. shard'[e][k].state = o.next /\ shard'[e][k].expires = clock + TTL(strategy)
      BY <3>2
    <3>4. clock + TTL(strategy) > clock
      BY <1>4 DEF Times
    <3>5. Live(e, k)'
      BY <1>1, <3>1, <3>3, <3>4 DEF Live
    <3>6. ledger'[e][k] = Entered(ledger[e][k], now, units) /\ rewound'[e][k] = rewound[e][k] + rewind
      BY <1>1, <2>1
    <3> QED BY <1>5, <2>2, <3>1, <3>3, <3>5, <3>6
  <2>3. CASE ~(x = e /\ j = k)
    <3>1. ledger'[x][j] = ledger[x][j] /\ rewound'[x][j] = rewound[x][j]
      BY <1>1, <2>1, <2>3
    <3>2. j \in Remembered(x)
      BY <1>3, <2>3 DEF Stores, Remembered
    <3>3. j \in DOMAIN shard'[x] => j \in DOMAIN shard[x] /\ shard'[x][j] = shard[x][j]
      BY <1>3, <2>3 DEF Stores
    <3>4. j \in DOMAIN shard[x] \ DOMAIN shard'[x] => ~Live(x, j)
      BY <1>3, <2>3 DEF Stores
    <3>5. Live(x, j)' <=> Live(x, j)
      BY <1>1, <3>3, <3>4 DEF Live
    <3>6. IF Live(x, j)
          THEN Has(strategy, ledger[x][j], rewound[x][j], shard[x][j].state, clock)
          ELSE HasNone(strategy, ledger[x][j], rewound[x][j], clock)
      BY <3>2 DEF Tells, Told
    <3>7. Live(x, j)' => shard'[x][j] = shard[x][j]
      BY <3>3 DEF Live
    <3> QED BY <3>1, <3>5, <3>6, <3>7
  <2> QED BY <2>2, <2>3
<1> QED BY <1>6, <1>7 DEF Tells

LEMMA CarryOverTells ==
  ASSUME Timely, Safe, Tells, strategy \in Timed, CarryOver
  PROVE  Tells'
<1> DEFINE e == active + 1
           copy == Restored(shard[active])
<1>1. /\ e \in Engines
      /\ shard' = [shard EXCEPT ![e] = copy]
      /\ ledger' = [ledger EXCEPT ![e] = ledger[active]]
      /\ rewound' = [rewound EXCEPT ![e] = rewound[active]]
      /\ forgotten' = [forgotten EXCEPT ![e] = forgotten[active]]
      /\ clock' = clock /\ strategy' = strategy
  BY DEF CarryOver, Timed
<1>2. /\ active \in Engines /\ clock \in Times /\ DOMAIN shard = Engines
      /\ ledger \in [Engines -> [Keys -> [Times -> Nat]]] /\ rewound \in [Engines -> [Keys -> Nat]]
      /\ forgotten \in [Engines -> SUBSET Keys]
  BY DEF Safe, TypeOK
<1>3. /\ DOMAIN copy = {k \in DOMAIN shard[active] : shard[active][k].expires > clock}
      /\ \A k \in DOMAIN copy :
           copy[k] = [state |-> shard[active][k].state, expires |-> clock + RestoreTTL,
                      touched |-> clock]
  BY DEF Restored
<1> HIDE DEF e, copy
<1>4. /\ shard'[e] = copy /\ ledger'[e] = ledger[active] /\ rewound'[e] = rewound[active]
      /\ forgotten'[e] = forgotten[active]
      /\ \A x \in Engines : x # e =>
           /\ shard'[x] = shard[x] /\ ledger'[x] = ledger[x]
           /\ rewound'[x] = rewound[x] /\ forgotten'[x] = forgotten[x]
  BY <1>1, <1>2
<1>5. ASSUME NEW k \in DOMAIN copy
      PROVE  /\ Live(active, k) /\ copy[k].state = shard[active][k].state
             /\ copy[k].expires = clock + RestoreTTL
             /\ clock + RestoreTTL > clock
             /\ Lapsed(strategy, shard[active][k].state, clock + RestoreTTL)
  <2> DEFINE old == shard[active][k].state
  <2>1. copy[k] = [state |-> old, expires |-> clock + RestoreTTL, touched |-> clock]
    BY <1>3
  <2>2. k \in DOMAIN shard[active] /\ Live(active, k)
    BY <1>3 DEF Live
  <2>3. old \in StateOf(strategy) /\ Past(strategy, old, clock)
    BY <1>2, <2>2, Typed DEF Safe
  <2> HIDE DEF old
  <2>4. Lapsed(strategy, old, clock + RestoreTTL)
    BY <1>2, <2>3, RestoreHolds
  <2>5. clock + RestoreTTL > clock
    BY <1>2, Bounds DEF Times
  <2>6. copy[k].state = old /\ copy[k].expires = clock + RestoreTTL
    BY <2>1
  <2> QED BY <2>2, <2>4, <2>5, <2>6 DEF old
<1>6. Leased'
  <2> SUFFICES ASSUME NEW x \in Engines, NEW j \in DOMAIN shard'[x]
               PROVE  Lapsed(strategy, shard'[x][j].state, shard'[x][j].expires)
    BY <1>1 DEF Leased
  <2>1. CASE x = e
    BY <1>4, <1>5, <2>1
  <2>2. CASE x # e
    BY <1>4, <2>2 DEF Tells, Leased
  <2> QED BY <2>1, <2>2
<1>7. Told'
  <2> SUFFICES ASSUME NEW x \in Engines, NEW j \in Keys, j \notin forgotten'[x]
               PROVE  IF Live(x, j)'
                      THEN Has(strategy, ledger'[x][j], rewound'[x][j], shard'[x][j].state, clock)
                      ELSE HasNone(strategy, ledger'[x][j], rewound'[x][j], clock)
    BY <1>1 DEF Told, Remembered
  <2>1. CASE x = e
    <3>1. j \in Remembered(active)
      BY <1>4, <2>1 DEF Remembered
    <3>2. IF Live(active, j)
          THEN Has(strategy, ledger[active][j], rewound[active][j], shard[active][j].state, clock)
          ELSE HasNone(strategy, ledger[active][j], rewound[active][j], clock)
      BY <1>2, <3>1 DEF Tells, Told
    <3>3. Live(x, j)' <=> j \in DOMAIN copy
      BY <1>1, <1>4, <1>5, <2>1 DEF Live
    <3>4. Live(active, j) <=> j \in DOMAIN copy
      BY <1>3 DEF Live
    <3>5. j \in DOMAIN copy => copy[j].state = shard[active][j].state
      BY <1>5
    <3> QED BY <1>4, <2>1, <3>2, <3>3, <3>4, <3>5
  <2>2. CASE x # e
    <3>1. j \in Remembered(x) /\ (Live(x, j)' <=> Live(x, j))
      BY <1>1, <1>4, <2>2 DEF Remembered, Live
    <3>2. IF Live(x, j)
          THEN Has(strategy, ledger[x][j], rewound[x][j], shard[x][j].state, clock)
          ELSE HasNone(strategy, ledger[x][j], rewound[x][j], clock)
      BY <3>1 DEF Tells, Told
    <3> QED BY <1>4, <2>2, <3>1, <3>2
  <2> QED BY <2>1, <2>2
<1> QED BY <1>6, <1>7 DEF Tells

LEMMA AbandonTells ==
  ASSUME Safe, Tells, strategy \in Timed, Abandon
  PROVE  Tells'
<1>1. /\ building # 0
      /\ shard' = [shard EXCEPT ![building] = << >>]
      /\ ledger' = [ledger EXCEPT ![building] = NoAdmissions]
      /\ rewound' = [rewound EXCEPT ![building] = NoUnits]
      /\ forgotten' = [forgotten EXCEPT ![building] = {}]
      /\ clock' = clock /\ strategy' = strategy
  BY DEF Abandon
<1>2. /\ building \in Engines /\ clock \in Times /\ DOMAIN shard = Engines
      /\ ledger \in [Engines -> [Keys -> [Times -> Nat]]] /\ rewound \in [Engines -> [Keys -> Nat]]
      /\ forgotten \in [Engines -> SUBSET Keys]
  BY <1>1 DEF Safe, TypeOK
<1>3. /\ shard'[building] = << >> /\ ledger'[building] = NoAdmissions /\ rewound'[building] = NoUnits
      /\ \A x \in Engines : x # building =>
           /\ shard'[x] = shard[x] /\ ledger'[x] = ledger[x]
           /\ rewound'[x] = rewound[x] /\ forgotten'[x] = forgotten[x]
  BY <1>1, <1>2
<1>4. DOMAIN << >> = {}
  OBVIOUS
<1>5. Leased'
  <2> SUFFICES ASSUME NEW x \in Engines, NEW j \in DOMAIN shard'[x]
               PROVE  Lapsed(strategy, shard'[x][j].state, shard'[x][j].expires)
    BY <1>1 DEF Leased
  <2>1. x # building
    BY <1>3, <1>4
  <2> QED BY <1>3, <2>1 DEF Tells, Leased
<1>6. Told'
  <2> SUFFICES ASSUME NEW x \in Engines, NEW j \in Keys, j \notin forgotten'[x]
               PROVE  IF Live(x, j)'
                      THEN Has(strategy, ledger'[x][j], rewound'[x][j], shard'[x][j].state, clock)
                      ELSE HasNone(strategy, ledger'[x][j], rewound'[x][j], clock)
    BY <1>1 DEF Told, Remembered
  <2>1. CASE x = building
    <3>1. ~Live(x, j)'
      BY <1>3, <1>4, <2>1 DEF Live
    <3>2. ledger'[building][j] = NoRow /\ rewound'[building][j] = 0
      BY <1>3 DEF NoAdmissions, NoUnits, NoRow
    <3>3. HasNone(strategy, NoRow, 0, clock)
      BY <1>2, NoRowNone
    <3> QED BY <2>1, <3>1, <3>2, <3>3
  <2>2. CASE x # building
    <3>1. j \in Remembered(x) /\ (Live(x, j)' <=> Live(x, j))
      BY <1>1, <1>3, <2>2 DEF Remembered, Live
    <3>2. IF Live(x, j)
          THEN Has(strategy, ledger[x][j], rewound[x][j], shard[x][j].state, clock)
          ELSE HasNone(strategy, ledger[x][j], rewound[x][j], clock)
      BY <3>1 DEF Tells, Told
    <3> QED BY <1>3, <2>2, <3>1, <3>2
  <2> QED BY <2>1, <2>2
<1> QED BY <1>5, <1>6 DEF Tells

(* Time only loosens what the stored states say. *)
LEMMA NoneGrows ==
  ASSUME NEW kind \in Timed, NEW row \in Rows, NEW r \in Nat, NEW c \in Times, c + 1 \in Times,
         HasNone(kind, row, r, c)
  PROVE  HasNone(kind, row, r, c + 1)
<1>1. c \in Nat /\ MaxLag \in Nat
  BY Bounds DEF Times
<1>2. WindowNone(row, r, c) => WindowNone(row, r, c + 1)
  <2>1. \A t \in Times : StartOf(t) \in Nat
    BY Start DEF Times
  <2> QED BY <1>1, <2>1, Settings DEF WindowNone
<1>3. LogNone(row, c) => LogNone(row, c + 1)
  <2>1. \A x \in Times : x \in Nat
    BY DEF Times
  <2> QED BY <1>1, <2>1, Settings DEF LogNone
<1>4. ASSUME NEW depth \in Nat, BucketNone(depth, row, r, c)
      PROVE  BucketNone(depth, row, r, c + 1)
  <2>1. c - MaxLag + r \in Int /\ (c + 1) - MaxLag + r \in Int /\ c - MaxLag + r <= (c + 1) - MaxLag + r
    BY <1>1
  <2>2. ASSUME NEW from \in Times PROVE Covers(row, from, (c + 1) - MaxLag + r, 0)
    <3>1. Covers(row, from, c - MaxLag + r, 0)
      BY <1>4 DEF BucketNone
    <3> QED BY <2>1, <3>1, CoversGrows
  <2> QED BY <1>4, <2>2, Zenon DEF BucketNone
<1> QED BY <1>2, <1>3, <1>4, Settings DEF HasNone

LEMMA HasGrows ==
  ASSUME NEW kind, NEW row, NEW r, NEW s, NEW c \in Times, c + 1 \in Times, Has(kind, row, r, s, c)
  PROVE  Has(kind, row, r, s, c + 1)
<1>1. LogHas(row, s, c) => LogHas(row, s, c + 1)
  <2>1. \A x \in Times : x > (c + 1) - Window => x > c - Window
    BY Settings, Bounds DEF Times
  <2> SUFFICES ASSUME LogHas(row, s, c), NEW x \in Times, NEW i \in 0 .. Len(s),
                      x > (c + 1) - Window, \A j \in 1 .. i : s[j] < x
               PROVE  Between(row, x, MaxTime) <= Len(s) - i
    BY DEF LogHas
  <2>2. x > c - Window
    BY <2>1
  <2> QED BY <2>2, Zenon DEF LogHas
<1> QED BY <1>1 DEF Has

LEMMA Lapses ==
  ASSUME NEW kind \in Timed, NEW row \in Rows, NEW r \in Nat, NEW s \in StateOf(kind),
         NEW c \in Times, c + 1 \in Times, NEW x \in Nat, x <= c + 1,
         Has(kind, row, r, s, c), Lapsed(kind, s, x)
  PROVE  HasNone(kind, row, r, c + 1)
<1>0. c \in Nat /\ c <= c + 1
  BY DEF Times
<1>1. CASE kind = "fixed_window"
  <2>1. s \in WindowState /\ WindowHas(row, r, s) /\ s.start + Window + MaxLag <= x
    BY <1>1, StateOfIs DEF Has, Lapsed
  <2>2. WindowNone(row, r, c + 1)
    BY <2>1, WindowLapses
  <2> QED BY <1>1, <2>2 DEF HasNone
<1>2. CASE kind = "sliding_window_log"
  <2>1. s \in LogState /\ LogHas(row, s, c) /\ \A i \in 1 .. Len(s) : s[i] + Window + MaxLag <= x
    BY <1>2, StateOfIs DEF Has, Lapsed
  <2>2. LogNone(row, c + 1)
    BY <1>0, <2>1, LogLapses
  <2> QED BY <1>2, <2>2 DEF HasNone
<1>3. CASE kind = "sliding_window_counter"
  BY <1>3 DEF HasNone
<1>4. CASE kind = "token_bucket"
  <2>1. s \in TokenState /\ BucketHas(Burst, row, r, s.tokens, s.last)
        /\ Burst * Window <= Limit * (x - MaxLag - s.last)
    BY <1>4, StateOfIs DEF Has, Lapsed
  <2>2. Burst \in Nat \ {0} /\ s.tokens \in 0 .. Burst * Window /\ s.last \in Times
    BY <2>1, Settings DEF TokenState
  <2>3. BucketNone(Burst, row, r, c + 1)
    BY <2>1, <2>2, BucketLapses
  <2> QED BY <1>4, <2>3 DEF HasNone
<1>5. CASE kind = "leaky_bucket"
  <2>1. s \in LeakyState /\ BucketHas(Capacity, row, r, Capacity * Window - s.level, s.last)
        /\ Capacity * Window <= Limit * (x - MaxLag - s.last)
    BY <1>5, StateOfIs DEF Has, Lapsed
  <2>2. Capacity \in Nat \ {0} /\ Capacity * Window - s.level \in 0 .. Capacity * Window /\ s.last \in Times
    BY <2>1, Settings DEF LeakyState
  <2>3. BucketNone(Capacity, row, r, c + 1)
    BY <2>1, <2>2, BucketLapses
  <2> QED BY <1>5, <2>3 DEF HasNone
<1> QED BY <1>1, <1>2, <1>3, <1>4, <1>5 DEF Timed, AllStrategies

LEMMA TickTells ==
  ASSUME Safe, Tells, strategy \in Timed, Tick
  PROVE  Tells'
<1>1. /\ clock < MaxTime /\ clock' = clock + 1 /\ strategy' = strategy /\ shard' = shard
      /\ ledger' = ledger /\ rewound' = rewound /\ forgotten' = forgotten
  BY DEF Tick, ghosts
<1>2. clock \in Times /\ clock + 1 \in Times /\ clock \in Nat
  BY <1>1, Typed, Bounds DEF Times
<1>3. Leased'
  BY <1>1 DEF Tells, Leased
<1>4. Told'
  <2> SUFFICES ASSUME NEW x \in Engines, NEW j \in Remembered(x)
               PROVE  IF Live(x, j)'
                      THEN Has(strategy, ledger[x][j], rewound[x][j], shard[x][j].state, clock + 1)
                      ELSE HasNone(strategy, ledger[x][j], rewound[x][j], clock + 1)
    BY <1>1 DEF Told, Remembered
  <2>1. ledger[x][j] \in Rows /\ rewound[x][j] \in Nat
    BY Typed DEF Remembered
  <2>2. Live(x, j)' <=> j \in DOMAIN shard[x] /\ shard[x][j].expires > clock + 1
    BY <1>1 DEF Live
  <2>3. CASE Live(x, j)
    <3> DEFINE s == shard[x][j].state
               end == shard[x][j].expires
    <3>1. j \in DOMAIN shard[x] /\ s \in StateOf(strategy) /\ end \in Nat
      BY <2>3, Typed DEF Live
    <3>2. Has(strategy, ledger[x][j], rewound[x][j], s, clock) /\ Lapsed(strategy, s, end)
      BY <2>3, <3>1 DEF Tells, Told, Leased
    <3> HIDE DEF s, end
    <3>3. CASE end > clock + 1
      <4>1. Has(strategy, ledger[x][j], rewound[x][j], s, clock + 1)
        BY <1>2, <3>2, HasGrows
      <4> QED BY <2>2, <3>1, <3>3, <4>1 DEF s, end
    <3>4. CASE ~(end > clock + 1)
      <4>1. end <= clock + 1
        BY <1>2, <3>1, <3>4
      <4>2. HasNone(strategy, ledger[x][j], rewound[x][j], clock + 1)
        BY <1>2, <2>1, <3>1, <3>2, <4>1, Lapses
      <4> QED BY <2>2, <3>4, <4>2 DEF end
    <3> QED BY <3>3, <3>4
  <2>4. CASE ~Live(x, j)
    <3>1. HasNone(strategy, ledger[x][j], rewound[x][j], clock)
      BY <2>4 DEF Tells, Told
    <3>2. HasNone(strategy, ledger[x][j], rewound[x][j], clock + 1)
      BY <1>2, <2>1, <3>1, NoneGrows
    <3>3. ~Live(x, j)'
      <4>1. j \in DOMAIN shard[x] => shard[x][j].expires \in Nat /\ ~(shard[x][j].expires > clock)
        BY <2>4, Typed DEF Live
      <4> QED BY <1>2, <2>2, <4>1
    <3> QED BY <3>2, <3>3
  <2> QED BY <2>3, <2>4
<1> QED BY <1>3, <1>4 DEF Tells

LEMMA UntoldTells ==
  ASSUME strategy \notin Timed
  PROVE  Tells
  BY DEF Tells, Told, Leased

(* Under Timely settings the stored states tell what was admitted, and     *)
(* lapse only when they say nothing any more.                              *)
THEOREM AlwaysTells ==
  ASSUME Timely
  PROVE  Spec => []Tells
<1>1. Init => Tells
  <2> SUFFICES ASSUME Init, strategy \in Timed PROVE Tells
    BY UntoldTells
  <2>1. /\ clock \in Times /\ shard = [e \in Engines |-> << >>] /\ DOMAIN << >> = {}
        /\ \A e \in Engines, k \in Keys : ledger[e][k] = NoRow /\ rewound[e][k] = 0
    BY Bounds DEF Init, Times, NoAdmissions, NoUnits, NoRow
  <2>2. HasNone(strategy, NoRow, 0, clock)
    BY <2>1, NoRowNone
  <2> QED BY <2>1, <2>2 DEF Tells, Told, Leased, Live, Remembered
<1>2. Safe /\ Tells /\ [Next]_vars => Tells'
  <2> SUFFICES ASSUME Safe, Tells, [Next]_vars PROVE Tells'
    OBVIOUS
  <2>1. CASE strategy \notin Timed
    <3>1. strategy' = strategy
      BY DEF Next, Allow, Release, CarryOver, Abandon, Swap, Tick, vars
    <3> QED BY <2>1, <3>1 DEF Tells, Told, Leased
  <2>2. CASE strategy \in Timed
    <3>1. ASSUME NEW e \in Engines, NEW k \in Keys, NEW now \in Most(0, clock - MaxLag) .. clock,
                 Allow(e, k, now)
          PROVE  Tells'
      BY <2>2, <3>1, AllowTells
    <3>2. ASSUME NEW e \in Engines, NEW k \in Keys, Release(e, k) PROVE FALSE
      <4>1. held[e][k] > 0 /\ held[e][k] = 0
        BY <2>2, <3>2 DEF Release, Safe
      <4> QED BY <4>1
    <3>3. CASE CarryOver
      BY <2>2, <3>3, CarryOverTells
    <3>4. CASE Abandon
      BY <2>2, <3>4, AbandonTells
    <3>5. CASE Swap
      BY <3>5 DEF Swap, ghosts, Tells, Told, Leased, Remembered, Live
    <3>6. CASE Tick
      BY <2>2, <3>6, TickTells
    <3>7. CASE UNCHANGED vars
      BY <3>7 DEF vars, Tells, Told, Leased, Remembered, Live
    <3> QED BY <3>1, <3>2, <3>3, <3>4, <3>5, <3>6, <3>7 DEF Next
  <2> QED BY <2>1, <2>2
<1> QED BY <1>1, <1>2, AlwaysSafe, PTL DEF Spec

(* A strategy of the three that count exactly admits its quota: whatever   *)
(* is stored, and when nothing is, the ledger is within the limits.        *)
LEMMA ToldFits ==
  ASSUME Safe, Told, strategy \in Timed, NEW e \in Engines, NEW k \in Remembered(e)
  PROVE  /\ ledger[e][k] \in Rows /\ rewound[e][k] \in Nat
         /\ strategy = "fixed_window" =>
              \A t \in Times : InWindow(ledger[e][k], t) <= Limit * rewound[e][k] + Limit
         /\ strategy = "sliding_window_log" => LogFits(ledger[e][k])
         /\ strategy = "token_bucket" => BucketFits(Burst, ledger[e][k], rewound[e][k])
         /\ strategy = "leaky_bucket" => BucketFits(Capacity, ledger[e][k], rewound[e][k])
<1>1. ledger[e][k] \in Rows /\ rewound[e][k] \in Nat
  BY Typed DEF Remembered
<1>2. CASE Live(e, k)
  <2>1. Has(strategy, ledger[e][k], rewound[e][k], shard[e][k].state, clock)
    BY <1>2 DEF Told
  <2> QED BY <1>1, <2>1 DEF Has, WindowHas, LogHas, BucketHas
<1>3. CASE ~Live(e, k)
  <2>1. HasNone(strategy, ledger[e][k], rewound[e][k], clock)
    BY <1>3 DEF Told
  <2> QED BY <1>1, <2>1 DEF HasNone, WindowNone, LogNone, BucketNone
<1> QED BY <1>2, <1>3

LEMMA QuotaHeld ==
  ASSUME Safe, Told
  PROVE  AdmitsItsQuota
<1>1. WindowExact
  <2> SUFFICES ASSUME strategy = "fixed_window", NEW e \in Engines, NEW t \in Times,
                      NEW k \in Remembered(e)
               PROVE  Spent(e, k, StartOf(t), StartOf(t) + Window - 1)
                        <= Limit * (1 + rewound[e][k])
    BY DEF WindowExact
  <2>1. strategy \in Timed
    BY DEF Timed, AllStrategies
  <2>2. rewound[e][k] \in Nat /\ InWindow(ledger[e][k], t) <= Limit * rewound[e][k] + Limit
    BY <2>1, ToldFits
  <2>3. Limit * (1 + rewound[e][k]) = Limit * rewound[e][k] + Limit
    <3>1. Limit * (1 + rewound[e][k]) = Limit * 1 + Limit * rewound[e][k]
      BY <2>2, Settings, Spread
    <3> QED BY <2>2, <3>1, Settings
  <2> QED BY <2>2, <2>3 DEF Spent, InWindow
<1>2. LogExact
  <2> SUFFICES ASSUME strategy = "sliding_window_log", NEW e \in Engines, NEW t \in Times,
                      NEW k \in Remembered(e)
               PROVE  Spent(e, k, t, t + Window - MaxLag - 1) <= Limit
    BY DEF LogExact
  <2>1. strategy \in Timed
    BY DEF Timed, AllStrategies
  <2>2. LogFits(ledger[e][k])
    BY <2>1, ToldFits
  <2> QED BY <2>2 DEF Spent, LogFits
<1>3. BucketExact
  <2> SUFFICES ASSUME strategy \in {"token_bucket", "leaky_bucket"}, NEW e \in Engines,
                      NEW from \in Times, NEW to \in from .. MaxTime, NEW k \in Remembered(e)
               PROVE  Spent(e, k, from, to) * Window
                        <= Depth * Window + Limit * (to - from + rewound[e][k])
    BY DEF BucketExact
  <2>1. strategy \in Timed
    BY DEF Timed, AllStrategies
  <2>2. BucketFits(Depth, ledger[e][k], rewound[e][k])
    BY <2>1, ToldFits DEF Depth
  <2> QED BY <2>2 DEF Spent, BucketFits
<1> QED BY <1>1, <1>2, <1>3 DEF Safe, AdmitsItsQuota

(* Every strategy admits its quota and no more, across reloads and late    *)
(* decisions (limiter/*/algo.go Step, engine.go, carryState).              *)
THEOREM AlwaysAdmitsItsQuota ==
  ASSUME Timely
  PROVE  Spec => []AdmitsItsQuota
<1>1. Safe /\ Tells => AdmitsItsQuota
  BY QuotaHeld DEF Tells
<1> QED BY <1>1, AlwaysSafe, AlwaysTells, PTL

-----------------------------------------------------------------------------
(* A lapsed state answers as if nothing were stored.                       *)

LEMMA WindowIdle ==
  ASSUME NEW s \in WindowState, NEW now \in Nat, s.start + Window <= now
  PROVE  FixedWindow(s, now, 1).d = FixedWindow([start |-> 0, count |-> 0], now, 1).d
<1>1. s.start # StartOf(now)
  BY Start, Settings DEF WindowState, Times
<1> QED BY <1>1 DEF FixedWindow, Outcome, Grant, Deny

LEMMA LogIdle ==
  ASSUME NEW s \in LogState, NEW now \in Nat, \A i \in 1 .. Len(s) : s[i] + Window <= now
  PROVE  SlidingLog(s, now, 1).d = SlidingLog(<< >>, now, 1).d
<1>1. PICK m \in 0 .. Limit : s \in [1 .. m -> Times]
  BY DEF LogState
<1>2. Len(s) = m /\ m \in Nat /\ \A i \in 1 .. m : s[i] \in Nat /\ s[i] + Window <= now
  BY <1>1, Settings DEF Times
<1>3. ASSUME NEW n \in Nat, NEW events \in [1 .. n -> Times],
             \A i \in 1 .. n : events[i] <= now - Window
      PROVE  Inside(events, now) = << >>
  <2> DEFINE p == Through(events, now - Window)
  <2>1. now - Window \in Int
    BY Settings
  <2>2. Len(events) = n /\ p \in 0 .. n
    BY <2>1, ThroughIs
  <2>3. p < n => events[p + 1] > now - Window
    <3>1. \E j \in 0 .. n : /\ \A i \in 1 .. j : events[i] <= now - Window
                            /\ j < n => events[j + 1] > now - Window
      <4>1. n \in 0 .. n /\ ~(n < n)
        OBVIOUS
      <4> QED BY <1>3, <4>1
    <3> QED BY <2>2, <3>1 DEF Through
  <2> HIDE DEF p
  <2>4. p = n
    <3> SUFFICES ASSUME p # n PROVE FALSE
      OBVIOUS
    <3>1. p + 1 \in 1 .. n /\ p < n
      BY <2>2
    <3>2. events[p + 1] <= now - Window /\ events[p + 1] \in Nat
      BY <1>3, <3>1 DEF Times
    <3> QED BY <2>1, <2>3, <3>1, <3>2
  <2>5. SubSeq(events, n + 1, n) = << >>
    OBVIOUS
  <2>6. Capped(<< >>) = << >>
    BY Settings DEF Capped
  <2> QED BY <2>2, <2>4, <2>5, <2>6 DEF Inside, p
<1>4. Inside(s, now) = << >>
  <2>1. \A i \in 1 .. m : s[i] <= now - Window
    BY <1>2, Settings
  <2> QED BY <1>1, <1>2, <1>3, <2>1
<1>5. Inside(<< >>, now) = << >>
  <2>1. << >> \in [1 .. 0 -> Times] /\ 1 .. 0 = {}
    OBVIOUS
  <2> QED BY <1>3, <2>1
<1> QED BY <1>4, <1>5 DEF SlidingLog, Outcome, Grant, Deny

LEMMA CounterIdle ==
  ASSUME NEW s \in CounterState, NEW now \in Nat, s.cell * CellWidth + 2 * CellWidth <= now
  PROVE  SlidingCounter(s, now, 1).d
           = SlidingCounter([prev |-> 0, cur |-> 0, cell |-> 0], now, 1).d
<1> DEFINE cell == now \div CellWidth
           none == [prev |-> 0, cur |-> 0, cell |-> 0]
<1>1. CellWidth \in Nat \ {0} /\ cell \in Nat /\ now < CellWidth * cell + CellWidth
  BY Cell, DivNat
<1>2. s.cell \in Nat
  BY DEF CounterState, Times
<1> HIDE DEF cell
<1>3. cell > s.cell + 1
  <2> SUFFICES ASSUME cell <= s.cell + 1 PROVE FALSE
    BY <1>1, <1>2
  <2>1. CellWidth * cell <= CellWidth * (s.cell + 1) /\ CellWidth * cell \in Int
    BY <1>1, <1>2, Scaled
  <2>2. CellWidth * (s.cell + 1) = CellWidth * s.cell + CellWidth * 1
        /\ CellWidth * s.cell = s.cell * CellWidth /\ CellWidth * s.cell \in Int
    BY <1>1, <1>2, Spread
  <2> QED BY <1>1, <1>2, <2>1, <2>2
<1>4. Advanced(s, cell) = [prev |-> 0, cur |-> 0, cell |-> cell]
  <2>1. cell # s.cell + 1
    BY <1>1, <1>2, <1>3
  <2> QED BY <1>3, <2>1 DEF Advanced
<1>5. Advanced(none, cell).prev = 0 /\ Advanced(none, cell).cur = 0
  BY DEF Advanced
<1>6. Advanced(s, cell).prev = 0 /\ Advanced(s, cell).cur = 0
  BY <1>4
<1> DEFINE z == Advanced(s, cell)
           y == Advanced(none, cell)
<1> HIDE DEF none, z, y
<1> QED BY <1>5, <1>6 DEF SlidingCounter, Outcome, Grant, Deny, cell, z, y, none

LEMMA TokenIdle ==
  ASSUME NEW s \in TokenState, NEW now \in Nat, Burst * Window <= Limit * (now - s.last)
  PROVE  TokenBucket(s, now, 1).d = TokenBucket([tokens |-> Burst * Window, last |-> now], now, 1).d
<1> DEFINE D == Burst * Window
           full == [tokens |-> D, last |-> now]
<1>1. D \in Nat /\ D >= 1 /\ s.tokens \in 0 .. D /\ s.last \in Nat
  BY Settings DEF TokenState, Times
<1>2. D <= Limit * (now - s.last)
  OBVIOUS
<1> HIDE DEF D
<1>3. s.last <= now /\ Limit * (now - s.last) = (now - s.last) * Limit
  BY <1>1, <1>2, Settings
<1>4. Refilled(s, now) = D
  <2>1. now - Least(s.last, now) = now - s.last
    BY <1>1, <1>3 DEF Least
  <2> DEFINE flow == (now - s.last) * Limit
  <2>2. flow \in Int /\ s.tokens \in Nat /\ D <= flow
    BY <1>1, <1>2, <1>3, Settings
  <2> HIDE DEF flow
  <2>3. Least(D, s.tokens + flow) = D
    BY <1>1, <2>2 DEF Least
  <2> QED BY <2>1, <2>3 DEF Refilled, D, flow
<1>5. Refilled(full, now) = D
  <2>1. now - Least(now, now) = 0 /\ 0 * Limit = 0 /\ Least(D, D + 0) = D
    BY <1>1, Settings DEF Least
  <2> QED BY <2>1 DEF Refilled, D
<1> HIDE DEF full
<1>6. TokenBucket(s, now, 1).d = TokenBucket(full, now, 1).d
  BY <1>4, <1>5 DEF TokenBucket, Outcome
<1> QED BY <1>6 DEF full, D

LEMMA LeakyIdle ==
  ASSUME NEW s \in LeakyState, NEW now \in Nat, Capacity * Window <= Limit * (now - s.last)
  PROVE  LeakyBucket(s, now, 1).d = LeakyBucket([level |-> 0, last |-> now], now, 1).d
<1> DEFINE D == Capacity * Window
           empty == [level |-> 0, last |-> now]
<1>1. D \in Nat /\ D >= 1 /\ s.level \in 0 .. D /\ s.last \in Nat
  BY Settings DEF LeakyState, Times
<1>2. D <= Limit * (now - s.last)
  OBVIOUS
<1> HIDE DEF D
<1>3. s.last <= now /\ Limit * (now - s.last) = (now - s.last) * Limit
  BY <1>1, <1>2, Settings
<1>4. Leaked(s, now) = 0
  <2>1. now - Least(s.last, now) = now - s.last
    BY <1>1, <1>3 DEF Least
  <2>2. (now - s.last) * Limit \in Int /\ s.level \in Nat
    BY <1>1, Settings
  <2>3. Most(0, s.level - (now - s.last) * Limit) = 0
    BY <1>1, <1>2, <1>3, <2>2 DEF Most
  <2> QED BY <2>1, <2>3 DEF Leaked
<1>5. Leaked(empty, now) = 0
  <2>1. now - Least(now, now) = 0 /\ 0 * Limit = 0 /\ Most(0, 0 - 0) = 0
    BY Settings DEF Least, Most
  <2> QED BY <2>1 DEF Leaked
<1> HIDE DEF empty
<1>6. LeakyBucket(s, now, 1).d = LeakyBucket(empty, now, 1).d
  BY <1>4, <1>5 DEF LeakyBucket, Outcome
<1> QED BY <1>6 DEF empty

LEMMA LapsedIdle ==
  ASSUME NEW kind \in Timed, NEW s \in StateOf(kind), NEW x \in Nat, NEW now \in Int,
         x - MaxLag <= now, Lapsed(kind, s, x)
  PROVE  Step(kind, s, now, Cost).d = Step(kind, Blank(kind, now), now, Cost).d
<1>0. Cost = 1 /\ MaxLag \in Nat
  BY Bounds DEF Cost
<1>1. CASE kind = "fixed_window"
  <2>1. s \in WindowState /\ s.start + Window + MaxLag <= x
    BY <1>1, StateOfIs DEF Lapsed
  <2>2. s.start + Window <= now /\ now \in Nat
    BY <1>0, <2>1, Settings DEF WindowState, Times
  <2>3. FixedWindow(s, now, 1).d = FixedWindow([start |-> 0, count |-> 0], now, 1).d
    BY <2>1, <2>2, WindowIdle
  <2> QED BY <1>0, <1>1, <2>3, StepIs, BlankIs
<1>2. CASE kind = "sliding_window_log"
  <2>1. s \in LogState /\ \A i \in 1 .. Len(s) : s[i] + Window + MaxLag <= x
    BY <1>2, StateOfIs DEF Lapsed
  <2>2. \A i \in 1 .. Len(s) : s[i] \in Nat
    BY <2>1, Settings DEF LogState, Times
  <2>3. \A i \in 1 .. Len(s) : s[i] + Window <= now
    BY <1>0, <2>1, <2>2, Settings
  <2>4. now \in Nat => SlidingLog(s, now, 1).d = SlidingLog(<< >>, now, 1).d
    BY <2>1, <2>3, LogIdle
  <2>5. now \notin Nat => s = << >>
    <3> SUFFICES ASSUME now \notin Nat PROVE s = << >>
      OBVIOUS
    <3>1. PICK m \in 0 .. Limit : s \in [1 .. m -> Times]
      BY <2>1 DEF LogState
    <3>2. m \in Nat /\ Len(s) = m
      BY <3>1, Settings
    <3>3. m = 0
      <4> SUFFICES ASSUME m # 0 PROVE FALSE
        OBVIOUS
      <4>1. 1 \in 1 .. m
        BY <3>2
      <4> QED BY <2>2, <2>3, <3>2, <4>1, Settings
    <3> QED BY <3>1, <3>3
  <2> QED BY <1>0, <1>2, <2>4, <2>5, StepIs, BlankIs
<1>3. CASE kind = "sliding_window_counter"
  <2>1. s \in CounterState /\ s.cell * CellWidth + 2 * CellWidth + MaxLag <= x
    BY <1>3, StateOfIs DEF Lapsed
  <2>2. CellWidth \in Nat /\ s.cell \in Nat
    BY <2>1, Cell DEF CounterState, Times
  <2>3. s.cell * CellWidth \in Nat
    BY <2>2
  <2>4. s.cell * CellWidth + 2 * CellWidth <= now /\ now \in Nat
    BY <1>0, <2>1, <2>2, <2>3
  <2>5. SlidingCounter(s, now, 1).d = SlidingCounter([prev |-> 0, cur |-> 0, cell |-> 0], now, 1).d
    BY <2>1, <2>4, CounterIdle
  <2> QED BY <1>0, <1>3, <2>5, StepIs, BlankIs
<1>4. ASSUME NEW depth \in Nat \ {0}, NEW last \in Nat, depth * Window <= Limit * (x - MaxLag - last)
      PROVE  depth * Window <= Limit * (now - last) /\ now \in Nat
  <2> DEFINE D == depth * Window
             gap == x - MaxLag - last
  <2>1. D \in Nat /\ D >= 1 /\ gap \in Int /\ now - last \in Int /\ gap <= now - last /\ D <= Limit * gap
    BY <1>0, <1>4, Settings
  <2>2. Limit * gap <= Limit * (now - last) /\ Limit * gap \in Int /\ Limit * (now - last) \in Int
    <3> HIDE DEF D, gap
    <3> QED BY <2>1, Settings, Scaled
  <2>3. gap > 0
    <3> HIDE DEF D, gap
    <3> QED BY <2>1, Settings
  <2>4. now \in Nat
    <3> HIDE DEF D, gap
    <3> QED BY <2>1, <2>3
  <2>5. D <= Limit * (now - last)
    <3> HIDE DEF D, gap
    <3> QED BY <2>1, <2>2
  <2> QED BY <2>4, <2>5 DEF D
<1>5. CASE kind = "token_bucket"
  <2>1. s \in TokenState /\ Burst * Window <= Limit * (x - MaxLag - s.last)
    BY <1>5, StateOfIs DEF Lapsed
  <2>2. Burst \in Nat \ {0} /\ s.last \in Nat
    BY <2>1, Settings DEF TokenState, Times
  <2>3. Burst * Window <= Limit * (now - s.last) /\ now \in Nat
    BY <1>4, <2>1, <2>2
  <2>4. TokenBucket(s, now, 1).d = TokenBucket([tokens |-> Burst * Window, last |-> now], now, 1).d
    BY <2>1, <2>3, TokenIdle
  <2> QED BY <1>0, <1>5, <2>4, StepIs, BlankIs
<1>6. CASE kind = "leaky_bucket"
  <2>1. s \in LeakyState /\ Capacity * Window <= Limit * (x - MaxLag - s.last)
    BY <1>6, StateOfIs DEF Lapsed
  <2>2. Capacity \in Nat \ {0} /\ s.last \in Nat
    BY <2>1, Settings DEF LeakyState, Times
  <2>3. Capacity * Window <= Limit * (now - s.last) /\ now \in Nat
    BY <1>4, <2>1, <2>2
  <2>4. LeakyBucket(s, now, 1).d = LeakyBucket([level |-> 0, last |-> now], now, 1).d
    BY <2>1, <2>3, LeakyIdle
  <2> QED BY <1>0, <1>6, <2>4, StepIs, BlankIs
<1> QED BY <1>1, <1>2, <1>3, <1>5, <1>6 DEF Timed, AllStrategies

(* An entry expires only when every request would be answered as it is     *)
(* with nothing stored (the TTL methods, engine.go restore).               *)
THEOREM ExpiryAlwaysHarmless ==
  ASSUME Timely
  PROVE  Spec => []ExpiryHarmless
<1>1. Safe /\ Tells => ExpiryHarmless
  <2> SUFFICES ASSUME Safe, Tells, strategy # "concurrency", NEW e \in Engines,
                      NEW k \in DOMAIN shard[e],
                      NEW now \in shard[e][k].expires - MaxLag .. shard[e][k].expires + Window
               PROVE  Step(strategy, shard[e][k].state, now, Cost).d
                        = Step(strategy, Blank(strategy, now), now, Cost).d
    BY DEF ExpiryHarmless
  <2> DEFINE s == shard[e][k].state
             x == shard[e][k].expires
  <2>1. strategy \in Timed /\ s \in StateOf(strategy) /\ x \in Nat
    BY Typed DEF Timed
  <2>2. Lapsed(strategy, s, x)
    BY <2>1 DEF Tells, Leased
  <2> HIDE DEF s
  <2>3. now \in Int /\ x - MaxLag <= now
    <3> HIDE DEF x
    <3> QED BY <2>1, Bounds, Settings DEF x
  <2> HIDE DEF x
  <2>4. Step(strategy, s, now, Cost).d = Step(strategy, Blank(strategy, now), now, Cost).d
    BY <2>1, <2>2, <2>3, LapsedIdle
  <2> QED BY <2>4 DEF s
<1> QED BY <1>1, AlwaysSafe, AlwaysTells, PTL

-----------------------------------------------------------------------------
(* Decisions tell the truth.                                               *)

(* What a decision at now says of the requests after it. *)
Honest(kind, o, now) ==
  IF o.d.allowed
  THEN (o.d.remaining = 0 \/ Step(kind, o.next, now, o.d.remaining).d.allowed)
       /\ ~Step(kind, o.next, now, o.d.remaining + 1).d.allowed
  ELSE kind \notin {"sliding_window_counter", "concurrency"} =>
         /\ Step(kind, o.next, now + o.d.retryAfter, Cost).d.allowed
         /\ \A t \in now .. now + o.d.retryAfter - 1 :
              t = now \/ o.d.retryAfter > MinRetry => ~Step(kind, o.next, t, Cost).d.allowed

(* When a state admits a request. *)
LEMMA Admits ==
  ASSUME NEW s, NEW t, NEW cost
  PROVE  /\ FixedWindow(s, t, cost).d.allowed
              <=> (IF s.start = StartOf(t) THEN s.count ELSE 0) + cost <= Limit
         /\ SlidingLog(s, t, cost).d.allowed <=> Len(Inside(s, t)) + cost - Limit <= 0
         /\ TokenBucket(s, t, cost).d.allowed <=> cost * Window <= Refilled(s, t)
         /\ LeakyBucket(s, t, cost).d.allowed
              <=> Leaked(s, t) + cost * Window - Capacity * Window <= 0
         /\ Concurrency(s, cost).d.allowed <=> s + cost <= Capacity
<1>1. FixedWindow(s, t, cost).d.allowed
        <=> (IF s.start = StartOf(t) THEN s.count ELSE 0) + cost <= Limit
  BY DEF FixedWindow, Outcome, Grant, Deny
<1>2. SlidingLog(s, t, cost).d.allowed <=> Len(Inside(s, t)) + cost - Limit <= 0
  BY DEF SlidingLog, Outcome, Grant, Deny
<1>3. TokenBucket(s, t, cost).d.allowed <=> cost * Window <= Refilled(s, t)
  BY DEF TokenBucket, Outcome, Grant, Deny
<1>4. LeakyBucket(s, t, cost).d.allowed
        <=> Leaked(s, t) + cost * Window - Capacity * Window <= 0
  BY DEF LeakyBucket, Outcome, Grant, Deny
<1>5. Concurrency(s, cost).d.allowed <=> s + cost <= Capacity
  BY DEF Concurrency, Outcome, Grant, Deny
<1> QED BY <1>1, <1>2, <1>3, <1>4, <1>5

LEMMA WindowHonest ==
  ASSUME NEW s \in WindowState, NEW now \in Nat, NEW o, o = FixedWindow(s, now, 1)
  PROVE  Honest("fixed_window", o, now)
<1> SUFFICES /\ o.d.allowed =>
                  /\ o.d.remaining \in Nat /\ FixedWindow(o.next, now, o.d.remaining).d.allowed
                  /\ ~FixedWindow(o.next, now, o.d.remaining + 1).d.allowed
             /\ ~o.d.allowed =>
                  /\ o.d.retryAfter \in Nat /\ FixedWindow(o.next, now + o.d.retryAfter, 1).d.allowed
                  /\ \A t \in now .. now + o.d.retryAfter - 1 :
                       t = now \/ o.d.retryAfter > MinRetry => ~FixedWindow(o.next, t, 1).d.allowed
  BY StepIs DEF Honest, Cost
<1> DEFINE start == StartOf(now)
           count == IF s.start = start THEN s.count ELSE 0
           reset == Window - (now - start)
<1>1. start \in Nat /\ start <= now /\ now < start + Window
  BY Start
<1>2. count \in 0 .. Limit /\ Limit \in Nat /\ Limit >= 1 /\ Window \in Nat /\ MinRetry \in Nat
  BY Settings DEF WindowState
<1>3. CASE count + 1 <= Limit
  <2>1. /\ o.d.allowed /\ o.d.remaining = Limit - (count + 1)
        /\ o.next.start = start /\ o.next.count = count + 1
    BY <1>3 DEF FixedWindow, Outcome, Grant
  <2>2. o.next.start = StartOf(now)
    BY <2>1
  <2> HIDE DEF start, count
  <2>3. o.d.remaining \in Nat
        /\ o.next.count + o.d.remaining <= Limit /\ ~(o.next.count + (o.d.remaining + 1) <= Limit)
    BY <1>2, <1>3, <2>1
  <2> QED BY <2>1, <2>2, <2>3, Admits
<1>4. CASE ~(count + 1 <= Limit)
  <2>1. /\ ~o.d.allowed /\ o.d.retryAfter = Most(MinRetry, reset)
        /\ o.next.start = start /\ o.next.count = count
    BY <1>4 DEF FixedWindow, Outcome, Deny
  <2>2. reset \in Nat /\ reset = start + Window - now
    BY <1>1, <1>2
  <2> HIDE DEF start, count, reset
  <2>3. o.d.retryAfter \in Nat /\ o.d.retryAfter >= reset
        /\ (o.d.retryAfter > MinRetry => o.d.retryAfter = reset)
    BY <1>2, <2>1, <2>2 DEF Most
  <2>4. FixedWindow(o.next, now + o.d.retryAfter, 1).d.allowed
    <3>1. now + o.d.retryAfter \in Nat /\ now + o.d.retryAfter >= start + Window
      BY <1>1, <1>2, <2>2, <2>3
    <3>2. StartOf(now + o.d.retryAfter) # start
      BY <1>1, <1>2, <3>1, Start
    <3> QED BY <1>2, <2>1, <3>2, Admits
  <2>5. ASSUME NEW t \in now .. now + o.d.retryAfter - 1, t = now \/ o.d.retryAfter > MinRetry
        PROVE  ~FixedWindow(o.next, t, 1).d.allowed
    <3>1. t \in Nat /\ start <= t /\ t < start + Window
      BY <1>1, <1>2, <2>2, <2>3, <2>5
    <3>2. StartOf(t) = start
      BY <3>1, SameStart DEF start
    <3> QED BY <1>2, <1>4, <2>1, <3>2, Admits
  <2> QED BY <2>1, <2>3, <2>4, <2>5
<1> QED BY <1>3, <1>4

(* Of what a log holds, the part before the window is pruned, and no more. *)
LEMMA InsideHead ==
  ASSUME NEW m \in 0 .. Limit, NEW s \in [1 .. m -> Times], NEW t \in Nat
  PROVE  /\ Len(Inside(s, t)) \in 0 .. m
         /\ Len(Inside(s, t)) > 0 => Inside(s, t)[1] > t - Window
         /\ m > 0 /\ s[1] > t - Window => Inside(s, t) = s
         /\ m > 0 /\ s[1] <= t - Window => Len(Inside(s, t)) < m
<1> DEFINE p == Through(s, t - Window)
           rest == SubSeq(s, p + 1, Len(s))
<1>1. m \in Nat /\ t - Window \in Int /\ s \in Seq(Times) /\ \A i \in 1 .. m : s[i] \in Nat
  BY Settings, Bounds DEF Times
<1>2. Len(s) = m /\ p \in 0 .. m /\ (\A i \in 1 .. p : s[i] <= t - Window)
      /\ (p < m => s[p + 1] > t - Window)
  BY <1>1, ThroughIs
<1> HIDE DEF p
<1>3. rest = [i \in 1 .. m - p |-> s[i + p]]
  BY <1>1, <1>2
<1>4. Len(rest) = m - p /\ m - p <= Limit
  <2>1. m - p \in Nat /\ m - p <= Limit
    BY <1>1, <1>2, Settings
  <2> HIDE DEF rest
  <2> QED BY <1>3, <2>1
<1> HIDE DEF rest
<1>5. Inside(s, t) = rest
  <2>1. Inside(s, t) = Capped(rest)
    BY DEF Inside, rest, p
  <2>2. ~(Len(rest) > Limit)
    BY <1>1, <1>2, <1>4, Settings
  <2> QED BY <2>1, <2>2 DEF Capped
<1>6. Len(rest) > 0 => rest[1] > t - Window
  <2> SUFFICES ASSUME Len(rest) > 0 PROVE rest[1] > t - Window
    OBVIOUS
  <2>1. 1 \in 1 .. m - p /\ p < m
    BY <1>1, <1>2, <1>4
  <2>2. rest[1] = s[1 + p]
    BY <1>3, <2>1
  <2>3. 1 + p = p + 1
    BY <1>2
  <2> QED BY <1>2, <2>1, <2>2, <2>3
<1>7. ASSUME m > 0, s[1] > t - Window PROVE rest = s
  <2>1. p = 0
    <3> SUFFICES ASSUME p # 0 PROVE FALSE
      OBVIOUS
    <3>1. 1 \in 1 .. p /\ 1 \in 1 .. m
      BY <1>1, <1>2
    <3>2. s[1] <= t - Window /\ s[1] \in Nat
      BY <1>1, <1>2, <3>1
    <3> QED BY <1>1, <1>7, <3>2
  <2>2. \A i \in 1 .. m : s[i + 0] = s[i]
    BY <1>1
  <2>3. rest = [i \in 1 .. m |-> s[i]]
    BY <1>1, <1>3, <2>1, <2>2
  <2> QED BY <2>3
<1>8. ASSUME m > 0, s[1] <= t - Window PROVE p > 0
  <2> SUFFICES ASSUME p = 0 PROVE FALSE
    BY <1>2
  <2>1. s[1] > t - Window /\ s[1] \in Nat
    BY <1>1, <1>2, <1>8
  <2> QED BY <1>1, <1>8, <2>1
<1> QED BY <1>1, <1>2, <1>4, <1>5, <1>6, <1>7, <1>8

LEMMA LogHonest ==
  ASSUME NEW s \in LogState, NEW now \in Times, NEW o, o = SlidingLog(s, now, 1)
  PROVE  Honest("sliding_window_log", o, now)
<1> SUFFICES /\ o.d.allowed =>
                  /\ o.d.remaining \in Nat /\ SlidingLog(o.next, now, o.d.remaining).d.allowed
                  /\ ~SlidingLog(o.next, now, o.d.remaining + 1).d.allowed
             /\ ~o.d.allowed =>
                  /\ o.d.retryAfter \in Nat /\ SlidingLog(o.next, now + o.d.retryAfter, 1).d.allowed
                  /\ \A t \in now .. now + o.d.retryAfter - 1 :
                       t = now \/ o.d.retryAfter > MinRetry => ~SlidingLog(o.next, t, 1).d.allowed
  BY StepIs DEF Honest, Cost
<1> DEFINE in == Inside(s, now)
           logged == Logged(in, now, 1)
<1>1. PICK m \in 0 .. Limit : s \in [1 .. m -> Times]
  BY DEF LogState
<1>2. now \in Nat /\ now \in Int /\ Limit \in Nat /\ Limit >= 1 /\ Window \in Nat /\ Window >= 1
      /\ MinRetry \in Nat /\ MinRetry >= 1
  BY Settings, Bounds DEF Times
<1>3. PICK p \in 0 .. m : in \in [1 .. m - p -> Times]
  <2>1. \E p \in 0 .. m :
           /\ Inside(s, now) \in [1 .. m - p -> Times]
           /\ \A i \in 1 .. p : s[i] <= now - Window
           /\ \A i \in 1 .. m - p : Inside(s, now)[i] = s[i + p]
    BY <1>1, InsideIs, Zenon
  <2> QED BY <2>1
<1> DEFINE q == m - p
<1>4. q \in 0 .. Limit /\ q \in Nat /\ in \in [1 .. q -> Times]
  BY <1>2, <1>3
<1>5. Len(in) > 0 => in[1] > now - Window
  BY <1>1, <1>2, InsideHead
<1> HIDE DEF in, q
<1>6. Len(in) = q /\ \A i \in 1 .. q : in[i] \in Nat
  BY <1>2, <1>4, Bounds DEF Times
<1>7. CASE q + 1 <= Limit
  <2>1. logged \in [1 .. q + 1 -> Times]
        /\ \E n \in 0 .. q : /\ \A i \in 1 .. n : logged[i] = in[i] /\ in[i] <= now
                             /\ logged[n + 1] = now
                             /\ \A i \in n + 2 .. q + 1 : logged[i] = in[i - 1]
    BY <1>4, LoggedIs, Zenon
  <2> HIDE DEF logged
  <2>2. Len(logged) = q + 1
    BY <1>4, <2>1
  <2>3. logged[1] > now - Window
    <3>1. PICK n \in 0 .. q : /\ \A i \in 1 .. n : logged[i] = in[i]
                              /\ logged[n + 1] = now
      BY <2>1
    <3>2. CASE n = 0
      BY <1>2, <3>1, <3>2
    <3>3. CASE n # 0
      <4>1. 1 \in 1 .. n /\ Len(in) > 0
        BY <1>4, <1>6, <3>3
      <4> QED BY <1>5, <3>1, <4>1
    <3> QED BY <3>2, <3>3
  <2>4. Inside(logged, now) = logged
    <3>1. q + 1 \in 0 .. Limit /\ q + 1 > 0
      BY <1>2, <1>4, <1>7
    <3> QED BY <1>2, <2>1, <2>3, <3>1, InsideHead
  <2>5. o.d.allowed /\ o.d.remaining = Limit - (q + 1) /\ o.next = logged
    <3>1. Len(in) + 1 - Limit <= 0
      BY <1>2, <1>4, <1>6, <1>7
    <3> QED BY <2>2, <3>1 DEF SlidingLog, Outcome, Grant, in, logged
  <2>6. o.d.remaining \in Nat /\ (q + 1) + o.d.remaining - Limit <= 0
        /\ ~((q + 1) + (o.d.remaining + 1) - Limit <= 0)
    <3> DEFINE more == Limit - (q + 1)
    <3>1. more \in Nat /\ (q + 1) + more - Limit <= 0 /\ ~((q + 1) + (more + 1) - Limit <= 0)
      BY <1>2, <1>4, <1>7
    <3> HIDE DEF more
    <3>2. o.d.remaining = more
      BY <2>5 DEF more
    <3> QED BY <3>1, <3>2
  <2>7. ASSUME NEW n
        PROVE  SlidingLog(logged, now, n).d.allowed <=> (q + 1) + n - Limit <= 0
    BY <2>2, <2>4, Admits
  <2> QED BY <2>5, <2>6, <2>7
<1>8. CASE ~(q + 1 <= Limit)
  <2>1. q = Limit /\ q > 0 /\ q + 1 - Limit = 1
    BY <1>2, <1>4, <1>8
  <2> DEFINE wait == in[1] - (now - Window)
  <2>2. in[1] \in Nat /\ wait \in Nat /\ wait >= 1 /\ in[1] = now + wait - Window
    <3>1. in[1] \in Nat /\ in[1] > now - Window
      BY <1>4, <1>5, <1>6, <2>1
    <3> QED BY <1>2, <3>1
  <2>3. ~o.d.allowed /\ o.d.retryAfter = Most(MinRetry, wait) /\ o.next = in
    <3>1. Len(in) + 1 - Limit = 1 /\ ~(1 <= 0) /\ 1 <= Limit /\ 1 <= Len(in)
      BY <1>2, <1>6, <2>1
    <3> QED BY <3>1 DEF SlidingLog, Outcome, Deny, in
  <2> HIDE DEF wait
  <2>4. o.d.retryAfter \in Nat /\ o.d.retryAfter >= wait
        /\ (o.d.retryAfter > MinRetry => o.d.retryAfter = wait)
    BY <1>2, <2>2, <2>3 DEF Most
  <2>5. SlidingLog(o.next, now + o.d.retryAfter, 1).d.allowed
    <3> DEFINE t == now + o.d.retryAfter
    <3>1. t \in Nat /\ in[1] <= t - Window
      BY <1>2, <2>2, <2>4
    <3> HIDE DEF t
    <3>2. Len(Inside(in, t)) \in 0 .. q /\ Len(Inside(in, t)) < q
      BY <1>4, <2>1, <3>1, InsideHead
    <3>3. Len(Inside(in, t)) + 1 - Limit <= 0
      BY <1>2, <2>1, <3>2
    <3> QED BY <2>3, <3>3, Admits DEF t
  <2>6. ASSUME NEW t \in now .. now + o.d.retryAfter - 1, t = now \/ o.d.retryAfter > MinRetry
        PROVE  ~SlidingLog(o.next, t, 1).d.allowed
    <3>1. t \in Nat /\ in[1] > t - Window
      BY <1>2, <2>2, <2>4, <2>6
    <3>2. Inside(in, t) = in
      BY <1>4, <2>1, <3>1, InsideHead
    <3>3. ~(Len(Inside(in, t)) + 1 - Limit <= 0)
      BY <1>2, <1>6, <2>1, <3>2
    <3> QED BY <2>3, <3>3, Admits
  <2> QED BY <2>3, <2>4, <2>5, <2>6
<1> QED BY <1>7, <1>8

LEMMA CounterHonest ==
  ASSUME NEW s \in CounterState, NEW now \in Nat, NEW o, o = SlidingCounter(s, now, 1)
  PROVE  Honest("sliding_window_counter", o, now)
<1> SUFFICES ASSUME o.d.allowed
             PROVE  /\ o.d.remaining \in Nat
                    /\ SlidingCounter(o.next, now, o.d.remaining).d.allowed
                    /\ ~SlidingCounter(o.next, now, o.d.remaining + 1).d.allowed
  BY StepIs DEF Honest
<1> DEFINE cell == now \div CellWidth
           left == CellWidth - (now % CellWidth)
           z == Advanced(s, cell)
           used == (z.prev * left) \div CellWidth + z.cur
<1>1. CellWidth \in Nat \ {0} /\ cell \in Nat /\ left \in Nat /\ s.cell \in Nat
  <2>1. CellWidth \in Nat \ {0} /\ cell \in Nat /\ now % CellWidth \in 0 .. CellWidth - 1
    BY Cell
  <2>2. s.cell \in Nat
    BY DEF CounterState, Times
  <2>3. left \in Nat
    BY <2>1
  <2> QED BY <2>1, <2>2, <2>3
<1>2. z \in [prev : 0 .. Limit, cur : 0 .. Limit, cell : Nat] /\ cell <= z.cell
  <2> HIDE DEF cell
  <2>1. CASE cell = s.cell + 1
    BY <1>1, <2>1, Settings DEF Advanced, CounterState
  <2>2. CASE cell # s.cell + 1 /\ cell > s.cell + 1
    BY <1>1, <2>2, Settings DEF Advanced, CounterState
  <2>3. CASE cell # s.cell + 1 /\ ~(cell > s.cell + 1)
    BY <1>1, <2>3, Settings DEF Advanced, CounterState, Times
  <2> QED BY <2>1, <2>2, <2>3
<1> HIDE DEF cell, z
<1>3. used \in Nat /\ z.prev \in Nat /\ z.cur \in Nat
  <2>1. z.prev * left \in Nat /\ z.prev \in Nat /\ z.cur \in Nat
    BY <1>1, <1>2, Settings
  <2>2. (z.prev * left) \div CellWidth \in Nat
    BY <1>1, <2>1, DivNat
  <2> QED BY <2>1, <2>2
<1> HIDE DEF left
<1>4. used + 1 <= Limit
  <2> SUFFICES ASSUME ~(used + 1 <= Limit) PROVE FALSE
    OBVIOUS
  <2>1. o.d.allowed = FALSE
    BY DEF SlidingCounter, Outcome, Deny, cell, left, z
  <2> QED BY <2>1
<1>5. o.d.remaining = Limit - (used + 1) /\ o.next = [z EXCEPT !.cur = @ + 1]
  BY <1>4 DEF SlidingCounter, Outcome, Grant, cell, left, z
<1>6. /\ o.next.prev = z.prev /\ o.next.cell = z.cell /\ o.next.cur = z.cur + 1
  BY <1>2, <1>5
<1>7. Advanced(o.next, cell) = o.next
  BY <1>1, <1>2, <1>6 DEF Advanced
<1>8. ASSUME NEW cost \in Nat
      PROVE  SlidingCounter(o.next, now, cost).d.allowed <=> used + 1 + cost <= Limit
  <2> DEFINE share == (z.prev * left) \div CellWidth
  <2>1. SlidingCounter(o.next, now, cost).d.allowed
          <=> (o.next.prev * left) \div CellWidth + o.next.cur + cost <= Limit
    BY <1>7 DEF SlidingCounter, Outcome, Grant, Deny, cell, left
  <2>2. share \in Int
    BY <1>3, <1>1 DEF left
  <2> HIDE DEF share
  <2>3. share + (z.cur + 1) + cost = (share + z.cur) + 1 + cost
    BY <1>3, <2>2
  <2> QED BY <1>6, <2>1, <2>3 DEF share
<1> HIDE DEF used
<1>9. o.d.remaining \in Nat /\ used + 1 + o.d.remaining <= Limit
      /\ ~(used + 1 + (o.d.remaining + 1) <= Limit) /\ o.d.remaining + 1 \in Nat
  BY <1>3, <1>4, <1>5, Settings
<1> QED BY <1>8, <1>9

(* The wait for gap/Limit ticks, rounded up, is long enough and no longer. *)
LEMMA CeilDivIs ==
  ASSUME NEW gap \in Nat \ {0}
  PROVE  /\ CeilDiv(gap, Limit) \in Nat \ {0}
         /\ \A d \in Nat : d * Limit >= gap <=> d >= CeilDiv(gap, Limit)
<1> DEFINE up == gap + Limit - 1
           n == up \div Limit
<1>1. Limit \in Nat \ {0} /\ up \in Nat /\ up >= Limit
  BY Settings
<1>2. n \in Nat /\ Limit * n <= up /\ up < Limit * n + Limit
  <2> HIDE DEF up
  <2> QED BY <1>1, DivNat
<1> HIDE DEF n
<1>3. n # 0
  <2> SUFFICES ASSUME n = 0 PROVE FALSE
    OBVIOUS
  <2>1. Limit * n = 0
    BY <1>1
  <2> QED BY <1>1, <1>2, <2>1
<1>4. ASSUME NEW d \in Nat PROVE d * Limit >= gap <=> d >= n
  <2>1. d * Limit = Limit * d /\ Limit * d \in Nat /\ Limit * n \in Nat
    BY <1>1, <1>2
  <2>2. ASSUME d >= n PROVE Limit * d >= gap
    <3>1. Limit * n <= Limit * d
      BY <1>1, <1>2, <2>2, Scaled
    <3> QED BY <1>1, <1>2, <2>1, <3>1
  <2>3. ASSUME ~(d >= n) PROVE ~(Limit * d >= gap)
    <3>1. d + 1 \in Int /\ d + 1 <= n
      BY <1>2, <2>3
    <3>2. Limit * (d + 1) <= Limit * n
      BY <1>1, <1>2, <3>1, Scaled
    <3>3. Limit * (d + 1) = Limit * d + Limit * 1
      BY <1>1, Spread
    <3> QED BY <1>1, <1>2, <2>1, <3>2, <3>3
  <2> QED BY <2>1, <2>2, <2>3
<1> QED BY <1>2, <1>3, <1>4 DEF CeilDiv, n

(* What is left of a bucket is worth so many units and not one more.       *)
LEMMA WorthUnits ==
  ASSUME NEW room \in Nat
  PROVE  /\ room \div Window \in Nat
         /\ (room \div Window) * Window <= room
         /\ ~((room \div Window + 1) * Window <= room)
<1> DEFINE n == room \div Window
<1>1. Window \in Nat \ {0} /\ n \in Nat /\ Window * n <= room /\ room < Window * n + Window
  BY DivNat, Settings
<1> HIDE DEF n
<1>2. n * Window = Window * n /\ (n + 1) * Window = Window * (n + 1)
      /\ Window * n \in Nat
  BY <1>1
<1>3. Window * (n + 1) = Window * n + Window * 1
  BY <1>1, Spread
<1> QED BY <1>1, <1>2, <1>3 DEF n

LEMMA TokenHonest ==
  ASSUME NEW s \in TokenState, NEW now \in Nat, NEW o, o = TokenBucket(s, now, 1)
  PROVE  Honest("token_bucket", o, now)
<1> SUFFICES /\ o.d.allowed =>
                  /\ o.d.remaining \in Nat /\ TokenBucket(o.next, now, o.d.remaining).d.allowed
                  /\ ~TokenBucket(o.next, now, o.d.remaining + 1).d.allowed
             /\ ~o.d.allowed =>
                  /\ o.d.retryAfter \in Nat /\ TokenBucket(o.next, now + o.d.retryAfter, 1).d.allowed
                  /\ \A t \in now .. now + o.d.retryAfter - 1 :
                       t = now \/ o.d.retryAfter > MinRetry => ~TokenBucket(o.next, t, 1).d.allowed
  BY StepIs DEF Honest, Cost
<1> DEFINE D == Burst * Window
           tokens == Refilled(s, now)
<1>1. D \in Nat /\ Window <= D /\ Window \in Nat /\ Window >= 1 /\ Limit \in Nat /\ Limit >= 1
      /\ MinRetry \in Nat
  <2>1. Window * 1 <= Window * Burst /\ Window * Burst = Burst * Window
    BY Settings, Scaled
  <2> QED BY <2>1, Settings
<1>2. 1 * Window = Window /\ s.tokens \in 0 .. D /\ s.last \in Nat
  BY Settings DEF TokenState, Times
<1>3. tokens \in 0 .. D
  <2> DEFINE flow == (now - Least(s.last, now)) * Limit
  <2>1. now - Least(s.last, now) \in Nat
    BY <1>2 DEF Least
  <2>2. flow \in Nat
    BY <1>1, <2>1
  <2> HIDE DEF flow, D
  <2>3. Least(D, s.tokens + flow) \in 0 .. D
    BY <1>1, <1>2, <2>2 DEF Least
  <2> QED BY <2>3 DEF Refilled, flow, D
<1> HIDE DEF D
<1>4. ASSUME NEW left \in 0 .. D, NEW d \in Nat
      PROVE  Refilled([tokens |-> left, last |-> now], now + d) = Least(D, left + d * Limit)
  <2> DEFINE b == [tokens |-> left, last |-> now]
             then == now + d
  <2>1. b.tokens = left /\ then - Least(b.last, then) = d
    BY DEF Least
  <2> HIDE DEF b, then
  <2>2. Refilled(b, then) = Least(D, left + d * Limit)
    BY <2>1, Zenon DEF Refilled, D
  <2> QED BY <2>2 DEF b, then
<1> HIDE DEF tokens
<1>5. CASE Window <= tokens
  <2> DEFINE left == tokens - Window
  <2>1. left \in 0 .. D /\ left \in Nat
    BY <1>1, <1>3, <1>5
  <2>2. /\ o.d.allowed /\ o.d.remaining = left \div Window
        /\ o.next = [tokens |-> left, last |-> now]
    <3>1. 1 * Window <= tokens
      BY <1>2, <1>5
    <3> QED BY <1>2, <3>1 DEF TokenBucket, Outcome, Grant, tokens
  <2> HIDE DEF left
  <2>3. Refilled(o.next, now) = left
    <3>1. now + 0 = now /\ 0 * Limit = 0 /\ Least(D, left + 0) = left
      BY <1>1, <2>1 DEF Least
    <3>2. Refilled([tokens |-> left, last |-> now], now + 0) = Least(D, left + 0 * Limit)
      BY <1>4, <2>1
    <3> QED BY <2>2, <3>1, <3>2
  <2>4. o.d.remaining \in Nat /\ o.d.remaining * Window <= left
        /\ ~((o.d.remaining + 1) * Window <= left)
    BY <2>1, <2>2, WorthUnits
  <2> QED BY <2>2, <2>3, <2>4, Admits
<1>6. CASE ~(Window <= tokens)
  <2> DEFINE gap == Window - tokens
             wait == CeilDiv(gap, Limit)
  <2>1. gap \in Nat \ {0} /\ tokens \in Nat
    BY <1>1, <1>3, <1>6
  <2>2. /\ ~o.d.allowed /\ o.d.retryAfter = Most(MinRetry, wait)
        /\ o.next = [tokens |-> tokens, last |-> now]
    <3>1. ~(1 * Window <= tokens)
      BY <1>2, <1>6
    <3> QED BY <1>2, <3>1 DEF TokenBucket, Outcome, Deny, tokens
  <2> HIDE DEF gap
  <2>3. wait \in Nat \ {0} /\ \A d \in Nat : d * Limit >= gap <=> d >= wait
    BY <2>1, CeilDivIs
  <2> HIDE DEF wait
  <2>4. o.d.retryAfter \in Nat /\ o.d.retryAfter >= wait
        /\ (o.d.retryAfter > MinRetry => o.d.retryAfter = wait)
    BY <1>1, <2>2, <2>3 DEF Most
  <2>5. ASSUME NEW d \in Nat
        PROVE  TokenBucket(o.next, now + d, 1).d.allowed <=> d >= wait
    <3> DEFINE flow == d * Limit
    <3>1. flow \in Nat
      BY <1>1
    <3>2. Refilled(o.next, now + d) = Least(D, tokens + flow)
      BY <1>3, <1>4, <2>2
    <3>3. flow >= gap <=> d >= wait
      BY <2>3
    <3> HIDE DEF flow
    <3>4. Window <= Least(D, tokens + flow) <=> flow >= gap
      BY <1>1, <2>1, <3>1 DEF Least, gap
    <3> QED BY <1>2, <3>2, <3>3, <3>4, Admits
  <2>6. ASSUME NEW t \in now .. now + o.d.retryAfter - 1, t = now \/ o.d.retryAfter > MinRetry
        PROVE  ~TokenBucket(o.next, t, 1).d.allowed
    <3>1. t - now \in Nat /\ now + (t - now) = t /\ ~(t - now >= wait)
      BY <2>3, <2>4, <2>6
    <3> QED BY <2>5, <3>1
  <2> QED BY <2>2, <2>4, <2>5, <2>6
<1> QED BY <1>5, <1>6

LEMMA LeakyHonest ==
  ASSUME NEW s \in LeakyState, NEW now \in Nat, NEW o, o = LeakyBucket(s, now, 1)
  PROVE  Honest("leaky_bucket", o, now)
<1> SUFFICES /\ o.d.allowed =>
                  /\ o.d.remaining \in Nat /\ LeakyBucket(o.next, now, o.d.remaining).d.allowed
                  /\ ~LeakyBucket(o.next, now, o.d.remaining + 1).d.allowed
             /\ ~o.d.allowed =>
                  /\ o.d.retryAfter \in Nat /\ LeakyBucket(o.next, now + o.d.retryAfter, 1).d.allowed
                  /\ \A t \in now .. now + o.d.retryAfter - 1 :
                       t = now \/ o.d.retryAfter > MinRetry => ~LeakyBucket(o.next, t, 1).d.allowed
  BY StepIs DEF Honest, Cost
<1> DEFINE D == Capacity * Window
           level == Leaked(s, now)
<1>1. D \in Nat /\ Window <= D /\ Window \in Nat /\ Window >= 1 /\ Limit \in Nat /\ Limit >= 1
      /\ MinRetry \in Nat
  <2>1. Window * 1 <= Window * Capacity /\ Window * Capacity = Capacity * Window
    BY Settings, Scaled
  <2> QED BY <2>1, Settings
<1>2. 1 * Window = Window /\ s.level \in 0 .. D /\ s.last \in Nat
  BY Settings DEF LeakyState, Times
<1>3. level \in 0 .. D
  <2> DEFINE flow == (now - Least(s.last, now)) * Limit
  <2>1. now - Least(s.last, now) \in Nat
    BY <1>2 DEF Least
  <2>2. flow \in Nat
    BY <1>1, <2>1
  <2> HIDE DEF flow, D
  <2>3. Most(0, s.level - flow) \in 0 .. D
    BY <1>1, <1>2, <2>2 DEF Most
  <2> QED BY <2>3 DEF Leaked, flow, D
<1>4. ASSUME NEW after \in 0 .. D, NEW d \in Nat
      PROVE  Leaked([level |-> after, last |-> now], now + d) = Most(0, after - d * Limit)
  <2> DEFINE b == [level |-> after, last |-> now]
             then == now + d
  <2>1. b.level = after /\ then - Least(b.last, then) = d
    BY DEF Least
  <2> HIDE DEF b, then
  <2>2. Leaked(b, then) = Most(0, after - d * Limit)
    BY <2>1, Zenon DEF Leaked
  <2> QED BY <2>2 DEF b, then
<1> HIDE DEF D, level
<1>5. CASE level + Window - D <= 0
  <2> DEFINE after == level + Window
             room == D - after
  <2>1. after \in 0 .. D /\ room \in Nat
    BY <1>1, <1>3, <1>5
  <2>2. /\ o.d.allowed /\ o.d.remaining = room \div Window
        /\ o.next = [level |-> after, last |-> now]
    <3>1. level + 1 * Window - D <= 0
      BY <1>2, <1>5
    <3> QED BY <1>2, <3>1 DEF LeakyBucket, Outcome, Grant, level, D
  <2> HIDE DEF after
  <2>3. Leaked(o.next, now) = after
    <3>1. now + 0 = now /\ 0 * Limit = 0 /\ Most(0, after - 0) = after
      BY <1>1, <2>1 DEF Most
    <3>2. Leaked([level |-> after, last |-> now], now + 0) = Most(0, after - 0 * Limit)
      BY <1>4, <2>1
    <3> QED BY <2>2, <3>1, <3>2
  <2> HIDE DEF room
  <2>4. o.d.remaining \in Nat /\ o.d.remaining * Window <= room
        /\ ~((o.d.remaining + 1) * Window <= room)
    BY <2>1, <2>2, WorthUnits
  <2>5. ASSUME NEW n \in Nat
        PROVE  LeakyBucket(o.next, now, n).d.allowed <=> n * Window <= room
    <3> DEFINE need == n * Window
    <3>1. need \in Nat
      BY <1>1
    <3>2. LeakyBucket(o.next, now, n).d.allowed <=> after + need - D <= 0
      BY <2>3, Admits DEF D
    <3> HIDE DEF need
    <3>3. after + need - D <= 0 <=> need <= room
      BY <1>1, <2>1, <3>1 DEF room
    <3> QED BY <3>2, <3>3 DEF need
  <2>6. o.d.remaining + 1 \in Nat
    BY <2>4
  <2> QED BY <2>2, <2>4, <2>5, <2>6
<1>6. CASE ~(level + Window - D <= 0)
  <2> DEFINE gap == level + Window - D
             wait == CeilDiv(gap, Limit)
  <2>1. gap \in Nat \ {0} /\ level \in Nat
    BY <1>1, <1>3, <1>6
  <2>2. /\ ~o.d.allowed /\ o.d.retryAfter = Most(MinRetry, wait)
        /\ o.next = [level |-> level, last |-> now]
    <3>1. ~(level + 1 * Window - D <= 0)
      BY <1>2, <1>6
    <3> QED BY <1>2, <3>1 DEF LeakyBucket, Outcome, Deny, level, D
  <2> HIDE DEF gap
  <2>3. wait \in Nat \ {0} /\ \A d \in Nat : d * Limit >= gap <=> d >= wait
    BY <2>1, CeilDivIs
  <2> HIDE DEF wait
  <2>4. o.d.retryAfter \in Nat /\ o.d.retryAfter >= wait
        /\ (o.d.retryAfter > MinRetry => o.d.retryAfter = wait)
    BY <1>1, <2>2, <2>3 DEF Most
  <2>5. ASSUME NEW d \in Nat
        PROVE  LeakyBucket(o.next, now + d, 1).d.allowed <=> d >= wait
    <3> DEFINE flow == d * Limit
    <3>1. flow \in Nat
      BY <1>1
    <3>2. Leaked(o.next, now + d) = Most(0, level - flow)
      BY <1>3, <1>4, <2>2
    <3>3. flow >= gap <=> d >= wait
      BY <2>3
    <3> HIDE DEF flow
    <3>4. Most(0, level - flow) + Window - D <= 0 <=> flow >= gap
      BY <1>1, <2>1, <3>1 DEF Most, gap
    <3>5. LeakyBucket(o.next, now + d, 1).d.allowed
            <=> Leaked(o.next, now + d) + 1 * Window - D <= 0
      BY Admits DEF D
    <3> QED BY <1>2, <3>2, <3>3, <3>4, <3>5
  <2>6. ASSUME NEW t \in now .. now + o.d.retryAfter - 1, t = now \/ o.d.retryAfter > MinRetry
        PROVE  ~LeakyBucket(o.next, t, 1).d.allowed
    <3>1. t - now \in Nat /\ now + (t - now) = t /\ ~(t - now >= wait)
      BY <2>3, <2>4, <2>6
    <3> QED BY <2>5, <3>1
  <2> QED BY <2>2, <2>4, <2>5, <2>6
<1> QED BY <1>5, <1>6

LEMMA SlotHonest ==
  ASSUME NEW s \in 0 .. Capacity, NEW o, o = Concurrency(s, 1), NEW now
  PROVE  Honest("concurrency", o, now)
<1> SUFFICES ASSUME o.d.allowed
             PROVE  /\ o.d.remaining \in Nat /\ Concurrency(o.next, o.d.remaining).d.allowed
                    /\ ~Concurrency(o.next, o.d.remaining + 1).d.allowed
  BY StepIs DEF Honest
<1>1. s + 1 <= Capacity
  <2> SUFFICES ASSUME ~(s + 1 <= Capacity) PROVE FALSE
    OBVIOUS
  <2> QED BY DEF Concurrency, Deny
<1>2. o.d.remaining = Capacity - (s + 1) /\ o.next = s + 1
  BY <1>1 DEF Concurrency, Outcome, Grant
<1>3. o.d.remaining \in Nat /\ (s + 1) + o.d.remaining <= Capacity
      /\ ~((s + 1) + (o.d.remaining + 1) <= Capacity)
  BY <1>1, <1>2, Settings
<1> QED BY <1>2, <1>3, Admits

LEMMA BlankState ==
  ASSUME NEW kind \in Timed, NEW now \in Times
  PROVE  Blank(kind, now) \in StateOf(kind)
<1>1. 0 \in Times /\ 0 \in 0 .. Limit /\ Limit \in Nat
  BY Settings, Bounds DEF Times
<1>2. [start |-> 0, count |-> 0] \in WindowState
  BY <1>1 DEF WindowState
<1>3. << >> \in LogState
  <2>1. << >> \in [1 .. 0 -> Times]
    OBVIOUS
  <2> QED BY <1>1, <2>1 DEF LogState
<1>4. [prev |-> 0, cur |-> 0, cell |-> 0] \in CounterState
  BY <1>1 DEF CounterState
<1>5. [tokens |-> Burst * Window, last |-> now] \in TokenState
  <2>1. Burst * Window \in 0 .. Burst * Window
    BY Settings
  <2> QED BY <2>1 DEF TokenState
<1>6. [level |-> 0, last |-> now] \in LeakyState
  <2>1. 0 \in 0 .. Capacity * Window
    BY Settings
  <2> QED BY <2>1 DEF LeakyState
<1> QED BY <1>2, <1>3, <1>4, <1>5, <1>6, BlankIs, StateOfIs DEF Timed, AllStrategies

LEMMA StepHonest ==
  ASSUME NEW kind \in Timed, NEW s \in StateOf(kind), NEW now \in Times
  PROVE  Honest(kind, Step(kind, s, now, Cost), now)
<1>0. Cost = 1 /\ now \in Nat
  BY Bounds DEF Cost, Times
<1>1. CASE kind = "fixed_window"
  <2>1. s \in WindowState /\ Step(kind, s, now, Cost) = FixedWindow(s, now, 1)
    BY <1>0, <1>1, StateOfIs, StepIs
  <2>2. Honest("fixed_window", FixedWindow(s, now, 1), now)
    BY <1>0, <2>1, WindowHonest
  <2> QED BY <1>1, <2>1, <2>2
<1>2. CASE kind = "sliding_window_log"
  <2>1. s \in LogState /\ Step(kind, s, now, Cost) = SlidingLog(s, now, 1)
    BY <1>0, <1>2, StateOfIs, StepIs
  <2>2. Honest("sliding_window_log", SlidingLog(s, now, 1), now)
    BY <1>0, <2>1, LogHonest
  <2> QED BY <1>2, <2>1, <2>2
<1>3. CASE kind = "sliding_window_counter"
  <2>1. s \in CounterState /\ Step(kind, s, now, Cost) = SlidingCounter(s, now, 1)
    BY <1>0, <1>3, StateOfIs, StepIs
  <2>2. Honest("sliding_window_counter", SlidingCounter(s, now, 1), now)
    BY <1>0, <2>1, CounterHonest
  <2> QED BY <1>3, <2>1, <2>2
<1>4. CASE kind = "token_bucket"
  <2>1. s \in TokenState /\ Step(kind, s, now, Cost) = TokenBucket(s, now, 1)
    BY <1>0, <1>4, StateOfIs, StepIs
  <2>2. Honest("token_bucket", TokenBucket(s, now, 1), now)
    BY <1>0, <2>1, TokenHonest
  <2> QED BY <1>4, <2>1, <2>2
<1>5. CASE kind = "leaky_bucket"
  <2>1. s \in LeakyState /\ Step(kind, s, now, Cost) = LeakyBucket(s, now, 1)
    BY <1>0, <1>5, StateOfIs, StepIs
  <2>2. Honest("leaky_bucket", LeakyBucket(s, now, 1), now)
    BY <1>0, <2>1, LeakyHonest
  <2> QED BY <1>5, <2>1, <2>2
<1> QED BY <1>1, <1>2, <1>3, <1>4, <1>5 DEF Timed, AllStrategies

(* After an admission exactly Remaining more units would be admitted, and  *)
(* after a denial the request succeeds RetryAfter later and not before, in *)
(* every state an engine can reach (limiter.go Decision, the Step of each  *)
(* strategy, engine.go step).                                              *)
THEOREM AlwaysHonest == Spec => []HonestDecision
<1>1. Safe => HonestDecision
  <2>1. ASSUME Safe, NEW e \in 1 .. active, NEW k \in Keys, NEW now \in Most(0, clock - MaxLag) .. clock
        PROVE  Honest(strategy, Step(strategy, Known(e, k, now), now, Cost), now)
    <3>1. e \in Engines /\ now \in Times /\ strategy \in AllStrategies
      BY <2>1, Typed, Instants, Bounds DEF Engines
    <3>2. CASE strategy = "concurrency"
      <4> DEFINE s == Known(e, k, now)
      <4>1. s \in 0 .. Capacity
        BY <2>1, <3>1, <3>2, Slots
      <4> HIDE DEF s
      <4>2. Step(strategy, s, now, Cost) = Concurrency(s, 1)
        BY <3>2, StepIs DEF Cost
      <4>3. Honest("concurrency", Concurrency(s, 1), now)
        BY <4>1, SlotHonest
      <4> QED BY <3>2, <4>2, <4>3 DEF s
    <3>3. CASE strategy # "concurrency"
      <4>1. strategy \in Timed
        BY <3>1, <3>3 DEF Timed
      <4>2. Known(e, k, now) \in StateOf(strategy)
        <5>1. CASE Live(e, k)
          BY <2>1, <3>1, <5>1, Typed DEF Live, Known
        <5>2. CASE ~Live(e, k)
          BY <3>1, <4>1, <5>2, BlankState DEF Known
        <5> QED BY <5>1, <5>2
      <4> QED BY <3>1, <4>1, <4>2, StepHonest
    <3> QED BY <3>2, <3>3
  <2> QED BY <2>1 DEF HonestDecision, Honest
<1> QED BY <1>1, AlwaysSafe, PTL

-----------------------------------------------------------------------------
(* Eviction spares the working set.                                        *)

DatedShard(sh) ==
  \A j \in DOMAIN sh : LastUse(sh[j]) = sh[j].touched /\ sh[j].touched \in 0 .. clock

(* An entry of the first engine bears the instant of its last use. *)
Dated == DatedShard(shard[1])

(* The keys of a shard that have been used at u or later. *)
UsedSince(sh, u) == {j \in DOMAIN sh : LastUse(sh[j]) >= u}

(* What a call on k makes of a shard lacks a live entry only when there is *)
(* a budget of others used as recently, or the call takes k's own away.    *)
Spares(kept, sh, k, keep) ==
  \A j \in DOMAIN sh :
    sh[j].expires > clock /\ j \notin DOMAIN kept /\ (j = k => keep = TRUE) =>
      Cardinality(UsedSince(kept, LastUse(sh[j]))) >= Budget

(* No live entry of the first engine goes while it is of use. *)
SparesUsed ==
  \A k \in Keys :
    Live(1, k) /\ k \notin DOMAIN shard'[1] /\ held'[1][k] >= held[1][k] =>
      Cardinality(UsedSince(shard'[1], LastUse(shard[1][k]))) >= Budget

LEMMA UpdateSpares ==
  ASSUME clock \in Nat, TTL(strategy) \in Nat \ {0},
         NEW sh, NEW k \in Keys, NEW keep \in BOOLEAN, NEW next,
         IsFiniteSet(DOMAIN sh), Cardinality(DOMAIN sh) <= Budget, DatedShard(sh),
         NEW kept \in Evicted(Updated(sh, k, keep, next))
  PROVE  DatedShard(kept) /\ Spares(kept, sh, k, keep)
<1> DEFINE u == Updated(sh, k, keep, next)
           entry == [state |-> next, expires |-> clock + TTL(strategy), touched |-> clock]
           live == {j \in DOMAIN u : u[j].expires > clock}
<1>1. /\ DOMAIN u = IF keep THEN DOMAIN sh \cup {k} ELSE DOMAIN sh \ {k}
      /\ \A j \in DOMAIN u : j # k => u[j] = sh[j]
      /\ k \in DOMAIN u => keep = TRUE /\ u[k] = entry
  <2>1. CASE keep = TRUE
    BY <2>1 DEF Updated
  <2>2. CASE keep = FALSE
    BY <2>2 DEF Updated
  <2> QED BY <2>1, <2>2
<1>2. IsFiniteSet(DOMAIN u)
  BY <1>1, FS_AddElement, FS_RemoveElement
<1>3. LastUse(entry) = clock /\ entry.touched = clock /\ entry.expires > clock
  BY DEF LastUse
<1>4. /\ DatedShard(u)
      /\ \A j \in DOMAIN sh \cap DOMAIN u :
           u[j].touched >= LastUse(sh[j]) /\ (sh[j].expires > clock => u[j].expires > clock)
  <2> HIDE DEF u, entry
  <2>1. ASSUME NEW j \in DOMAIN u
        PROVE  LastUse(u[j]) = u[j].touched /\ u[j].touched \in 0 .. clock
    <3>1. CASE j = k
      BY <1>1, <1>3, <3>1
    <3>2. CASE j # k
      <4>1. j \in DOMAIN sh /\ u[j] = sh[j]
        BY <1>1, <3>2
      <4> QED BY <4>1 DEF DatedShard
    <3> QED BY <3>1, <3>2
  <2>2. ASSUME NEW j \in DOMAIN sh \cap DOMAIN u
        PROVE  u[j].touched >= LastUse(sh[j]) /\ (sh[j].expires > clock => u[j].expires > clock)
    <3>1. LastUse(sh[j]) = sh[j].touched /\ sh[j].touched \in 0 .. clock
      BY DEF DatedShard
    <3>2. CASE j = k
      BY <1>1, <1>3, <3>1, <3>2
    <3>3. CASE j # k
      BY <1>1, <3>1, <3>3
    <3> QED BY <3>2, <3>3
  <2> QED BY <2>1, <2>2 DEF DatedShard
<1>5. CASE Cardinality(DOMAIN u) <= Budget
  <2>1. kept = u
    BY <1>5 DEF Evicted
  <2> HIDE DEF u
  <2>2. ASSUME NEW j \in DOMAIN sh, j \notin DOMAIN u PROVE j = k /\ ~(keep = TRUE)
    BY <1>1, <2>2
  <2> QED BY <1>4, <2>1, <2>2 DEF Spares
<1>6. CASE ~(Cardinality(DOMAIN u) <= Budget)
  <2>1. keep = TRUE
    <3> SUFFICES ASSUME keep = FALSE PROVE FALSE
      OBVIOUS
    <3>1. DOMAIN u \subseteq DOMAIN sh
      BY <1>1
    <3> HIDE DEF u
    <3>2. Cardinality(DOMAIN u) <= Cardinality(DOMAIN sh)
      BY <3>1, FS_Subset
    <3> QED BY <1>2, <1>6, <3>2, FS_CardinalityType, Bounds
  <2>2. DOMAIN sh \subseteq DOMAIN u
    BY <1>1, <2>1
  <2>3. \A j \in DOMAIN sh : sh[j].expires > clock => j \in live
    BY <1>4, <2>2
  <2>4. CASE Cardinality(live) <= Budget
    <3>1. kept = Restrict(u, live)
      BY <1>6, <2>4 DEF Evicted
    <3> HIDE DEF u
    <3>2. DOMAIN kept = live /\ (\A j \in live : kept[j] = u[j]) /\ live \subseteq DOMAIN u
      BY <3>1 DEF Restrict
    <3> HIDE DEF live
    <3>3. DatedShard(kept)
      BY <1>4, <3>2 DEF DatedShard
    <3>4. Spares(kept, sh, k, keep)
      BY <2>3, <3>2 DEF Spares
    <3> QED BY <3>3, <3>4
  <2>5. CASE ~(Cardinality(live) <= Budget)
    <3>1. \E S \in kSubset(Budget, live) :
            /\ \A i \in S, j \in live \ S : u[i].touched >= u[j].touched
            /\ kept = Restrict(u, S)
      BY <1>6, <2>5 DEF Evicted
    <3> HIDE DEF u
    <3>2. PICK S \in SUBSET live :
            /\ Cardinality(S) = Budget
            /\ \A i \in S, j \in live \ S : u[i].touched >= u[j].touched
            /\ kept = Restrict(u, S)
      BY <3>1 DEF kSubset
    <3>3. DOMAIN kept = S /\ (\A j \in S : kept[j] = u[j]) /\ live \subseteq DOMAIN u
      BY <3>2 DEF Restrict
    <3> HIDE DEF live
    <3>4. DatedShard(kept)
      BY <1>4, <3>2, <3>3 DEF DatedShard
    <3>5. ASSUME NEW j \in DOMAIN sh, sh[j].expires > clock, j \notin S, NEW i \in S
          PROVE  LastUse(kept[i]) >= LastUse(sh[j])
      <4>1. j \in live \ S /\ i \in DOMAIN u /\ j \in DOMAIN u
        BY <2>3, <3>3, <3>5
      <4>2. LastUse(kept[i]) = u[i].touched /\ u[i].touched \in Int
        BY <1>4, <3>3, <4>1 DEF DatedShard
      <4>3. u[i].touched >= u[j].touched /\ u[j].touched \in Int
        BY <1>4, <3>2, <4>1 DEF DatedShard
      <4>4. u[j].touched >= LastUse(sh[j]) /\ LastUse(sh[j]) \in Int
        BY <1>4, <4>1 DEF DatedShard
      <4> QED BY <4>2, <4>3, <4>4
    <3>6. Cardinality(S) = Budget
      BY <3>2
    <3>7. ASSUME NEW j \in DOMAIN sh, sh[j].expires > clock, j \notin S
          PROVE  Cardinality(UsedSince(kept, LastUse(sh[j]))) >= Budget
      <4>1. UsedSince(kept, LastUse(sh[j])) = S
        BY <3>3, <3>5, <3>7 DEF UsedSince
      <4> QED BY <3>6, <4>1, Bounds
    <3> QED BY <3>3, <3>4, <3>7 DEF Spares
  <2> QED BY <2>4, <2>5
<1> QED BY <1>5, <1>6

(* A decision keeps the entry of a key that has one. *)
LEMMA LiveKept ==
  ASSUME Safe, NEW e \in Engines, NEW k \in Keys, NEW now \in Most(0, clock - MaxLag) .. clock,
         Live(e, k)
  PROVE  Step(strategy, Known(e, k, now), now, Cost).keep = TRUE
<1> DEFINE s == Known(e, k, now)
           o == Step(strategy, s, now, Cost)
<1>1. CASE strategy = "concurrency"
  <2>1. s = shard[e][k].state /\ s \in 0 .. Capacity
    BY <1>1, Slots
  <2>2. s \in 1 .. Capacity
    BY <1>1, <2>1, Typed, StateOfIs DEF Live
  <2>3. o = Concurrency(s, 1)
    BY <1>1, StepIs DEF Cost
  <2> HIDE DEF s
  <2>4. \/ o.keep = TRUE
        \/ o.keep \in BOOLEAN /\ (o.keep = TRUE <=> s # 0)
    BY <2>1, <2>3, SlotStep
  <2>5. s # 0
    BY <2>2, Settings
  <2> QED BY <2>4, <2>5 DEF s
<1>2. CASE strategy # "concurrency"
  <2>1. strategy \in Timed
    BY <1>2, Typed DEF Timed
  <2> QED BY <2>1, Decided
<1> QED BY <1>1, <1>2

LEMMA StaysDated ==
  ASSUME Safe, Dated, [Next]_vars
  PROVE  Dated' /\ SparesUsed
<1>1. /\ clock \in Times /\ clock \in Nat /\ TTL(strategy) \in Nat \ {0} /\ 1 \in Engines
      /\ active \in Engines /\ active >= 1
      /\ DOMAIN shard = Engines
      /\ IsFiniteSet(DOMAIN shard[1]) /\ Cardinality(DOMAIN shard[1]) <= Budget
  <2>1. clock \in Times /\ TTL(strategy) \in Nat \ {0} /\ active \in Engines
    BY Typed
  <2>2. 1 \in Engines /\ active >= 1 /\ clock \in Nat
    BY <2>1, Bounds DEF Engines, Times
  <2> QED BY <2>1, <2>2 DEF Safe, TypeOK
<1>2. ASSUME clock' >= clock, clock' \in Nat, strategy' = strategy, shard'[1] = shard[1]
      PROVE  Dated' /\ SparesUsed
  <2>1. ASSUME NEW j \in DOMAIN shard[1]
        PROVE  LastUse(shard[1][j]) = shard[1][j].touched /\ shard[1][j].touched \in 0 .. clock'
    BY <1>1, <1>2, <2>1 DEF Dated, DatedShard
  <2>2. TTL(strategy') = TTL(strategy)
    BY <1>2
  <2>3. SparesUsed
    BY <1>2 DEF SparesUsed, Live
  <2> QED BY <1>2, <2>1, <2>2, <2>3 DEF Dated, DatedShard, LastUse
<1>3. ASSUME NEW e \in Engines, NEW k \in Keys, NEW keep \in BOOLEAN, NEW next,
             clock' = clock, strategy' = strategy, Update(e, k, keep, next),
             Live(e, k) /\ held'[e][k] >= held[e][k] => keep = TRUE
      PROVE  Dated' /\ SparesUsed
  <2>1. PICK kept \in Evicted(Updated(shard[e], k, keep, next)) :
          shard' = [shard EXCEPT ![e] = kept]
    BY <1>3 DEF Update
  <2>2. CASE e = 1
    <3>1. shard'[1] = kept
      BY <1>1, <2>1, <2>2
    <3>2. DatedShard(kept) /\ Spares(kept, shard[1], k, keep)
      BY <1>1, <2>1, <2>2, UpdateSpares DEF Dated
    <3>3. TTL(strategy') = TTL(strategy)
      BY <1>3
    <3>4. Dated'
      BY <1>3, <3>1, <3>2, <3>3 DEF Dated, DatedShard, LastUse
    <3>5. SparesUsed
      BY <1>3, <2>2, <3>1, <3>2 DEF SparesUsed, Spares, Live
    <3> QED BY <3>4, <3>5
  <2>3. CASE e # 1
    <3>1. shard'[1] = shard[1]
      BY <1>1, <2>1, <2>3
    <3> QED BY <1>1, <1>2, <1>3, <3>1
  <2> QED BY <2>2, <2>3
<1>4. ASSUME NEW e \in Engines, NEW k \in Keys, NEW now \in Most(0, clock - MaxLag) .. clock,
             Allow(e, k, now)
      PROVE  Dated' /\ SparesUsed
  <2> DEFINE o == Step(strategy, Known(e, k, now), now, Cost)
  <2>1. clock' = clock /\ strategy' = strategy /\ Update(e, k, o.keep, o.next)
    BY <1>4 DEF Allow
  <2>2. o.keep \in BOOLEAN
    BY <1>4, Decides DEF Fits
  <2>3. Live(e, k) => o.keep = TRUE
    BY <1>4, LiveKept
  <2> HIDE DEF o
  <2> QED BY <1>3, <2>1, <2>2, <2>3
<1>5. ASSUME NEW e \in Engines, NEW k \in Keys, Release(e, k)
      PROVE  Dated' /\ SparesUsed
  <2> DEFINE left == HandedBack(Known(e, k, clock), Cost)
  <2>1. clock' = clock /\ strategy' = strategy /\ Update(e, k, left > 0, left)
    BY <1>5 DEF Release
  <2>2. (left > 0) \in BOOLEAN
    OBVIOUS
  <2>3. ~(held'[e][k] >= held[e][k])
    <3>1. DOMAIN held = Engines /\ DOMAIN held[e] = Keys /\ held[e][k] \in Nat
      BY DEF Safe, TypeOK
    <3>2. held'[e][k] = held[e][k] - Cost
      BY <1>5, <3>1 DEF Release
    <3> QED BY <3>1, <3>2 DEF Cost
  <2> HIDE DEF left
  <2> QED BY <1>3, <2>1, <2>2, <2>3
<1>6. ASSUME CarryOver \/ Abandon \/ Swap \/ Tick \/ UNCHANGED vars
      PROVE  Dated' /\ SparesUsed
  <2>1. clock' >= clock /\ clock' \in Nat /\ strategy' = strategy
    BY <1>1, <1>6 DEF CarryOver, Abandon, Swap, Tick, vars
  <2>2. shard'[1] = shard[1]
    <3>1. CASE CarryOver
      <4>1. shard' = [shard EXCEPT ![active + 1] = Restored(shard[active])]
        BY <3>1 DEF CarryOver
      <4>2. active + 1 # 1
        BY <1>1 DEF Engines
      <4> QED BY <1>1, <4>1, <4>2
    <3>2. CASE Abandon
      <4>1. building # 1
        BY <1>1, <3>2 DEF Abandon, Safe, TypeOK, Engines
      <4> QED BY <1>1, <3>2, <4>1 DEF Abandon
    <3>3. CASE Swap \/ Tick \/ UNCHANGED vars
      BY <3>3 DEF Swap, Tick, vars
    <3> QED BY <1>6, <3>1, <3>2, <3>3
  <2> QED BY <1>2, <2>1, <2>2
<1> QED BY <1>4, <1>5, <1>6 DEF Next

(* A live entry goes only when its own units are handed back, or when as   *)
(* many keys as a shard may keep are left that have been used at least as  *)
(* recently (engine.go evictLocked), whatever the keys, the budget and the *)
(* order of calls: eviction takes the right entries and none too many.     *)
THEOREM WorkingSetIsKept == Spec => WorkingSetKept
<1>1. Init => Dated
  <2>1. ASSUME Init PROVE shard[1] = << >>
    BY <2>1, Bounds DEF Init, Engines
  <2>2. DOMAIN << >> = {}
    OBVIOUS
  <2> QED BY <2>1, <2>2 DEF Dated, DatedShard
<1>2. Safe /\ Dated /\ [Next]_vars => Dated'
  BY StaysDated
<1>3. Safe /\ Dated /\ [Next]_vars =>
        [\A k \in Keys :
           Live(1, k) /\ k \notin DOMAIN shard'[1] /\ held'[1][k] >= held[1][k] =>
             Cardinality({j \in DOMAIN shard'[1] : LastUse(shard'[1][j]) >= LastUse(shard[1][k])})
               >= Budget]_vars
  BY StaysDated DEF SparesUsed, UsedSince
<1> QED BY <1>1, <1>2, <1>3, AlwaysSafe, PTL DEF Spec, WorkingSetKept

=============================================================================
