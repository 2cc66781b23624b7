--------------------------- MODULE PickersProofs ---------------------------
(***************************************************************************)
(* Proofs about Pickers, for any number of targets and callers, any        *)
(* weights and any ring.                                                   *)
(*                                                                         *)
(* Three arguments.  A pass of a call meets every target in rotation, and  *)
(* whom it met without settling on one it has found unavailable.  A count  *)
(* that a call has read only falls until the call reserves, because        *)
(* nobody else can.  And round robin's credits are, between two calls,     *)
(* what each target is owed: they add up to nothing.                       *)
(***************************************************************************)
EXTENDS Pickers, FiniteSetTheorems, NaturalsInduction, TLAPS

(* The constants, one by one. *)
LEMMA Numbers ==
  /\ N \in Nat /\ N >= 1 /\ VnodeFactor \in Nat /\ VnodeFactor >= 1
  /\ IsFiniteSet(Callers) /\ Mirrors \subseteq Callers
  /\ Targets = 0 .. N - 1
  BY PickersAssumption DEF Targets

LEMMA Weighty ==
  ASSUME NEW w \in Weights
  PROVE  w \in [Targets -> Nat]
  BY PickersAssumption

(* A set of naturals that has 0 and with each number below n the next one  *)
(* has every number up to n.                                               *)
LEMMA Climb ==
  ASSUME NEW n \in Nat, NEW T \in SUBSET Nat, 0 \in T, \A m \in 0 .. n - 1 : m \in T => m + 1 \in T
  PROVE  0 .. n \subseteq T
<1> DEFINE rest == {m \in 0 .. n : m \notin T}
<1>1. SUFFICES ASSUME rest # {} PROVE FALSE
  OBVIOUS
<1>2. \E x \in rest : \A y \in rest : ~ (<< y, x >> \in OpToRel(<, Nat))
  <2>1. rest \subseteq Nat
    OBVIOUS
  <2> HIDE DEF rest
  <2> QED BY <1>1, <2>1, NatLessThanWellFounded, WFMin, Zenon
<1>3. PICK x \in rest : \A y \in rest : ~ (<< y, x >> \in OpToRel(<, Nat))
  BY <1>2, Zenon
<1>4. x \in Nat /\ x # 0 /\ x - 1 \in 0 .. n - 1 /\ x - 1 + 1 = x
  OBVIOUS
<1>5. x - 1 \notin rest
  <2> HIDE DEF rest
  <2>1. SUFFICES ASSUME x - 1 \in rest PROVE FALSE
    OBVIOUS
  <2>2. x - 1 \in Nat /\ x - 1 < x
    BY <1>4
  <2>3. << x - 1, x >> \in OpToRel(<, Nat)
    BY <1>4, <2>2, Zenon DEF OpToRel
  <2> QED BY <1>3, <2>1, <2>3, Zenon
<1>6. x - 1 \in T
  BY <1>4, <1>5
<1>7. x \in T
  BY <1>4, <1>6
<1> QED BY <1>7

-----------------------------------------------------------------------------
(* Sums over the targets. *)

Runs(f, s, m) == s \in [0 .. m -> Int] /\ s[0] = 0 /\ \A n \in 1 .. m : s[n] = s[n - 1] + f[n - 1]

(* There is a running total as far as one likes. *)
LEMMA RunsFar ==
  ASSUME NEW f \in [Targets -> Int]
  PROVE  \E s : Runs(f, s, N)
<1> DEFINE T == {m \in 0 .. N : \E s : Runs(f, s, m)}
<1>1. 0 \in T
  <2>1. Runs(f, [n \in 0 .. 0 |-> 0], 0)
    BY DEF Runs
  <2> QED BY <2>1, Numbers
<1>2. ASSUME NEW m \in 0 .. N - 1, m \in T PROVE m + 1 \in T
  <2>1. PICK s : Runs(f, s, m)
    BY <1>2
  <2> DEFINE r == [n \in 0 .. m + 1 |-> IF n = m + 1 THEN s[m] + f[m] ELSE s[n]]
  <2>2. m \in Targets /\ f[m] \in Int /\ m \in Nat
    BY Numbers
  <2>3. s \in [0 .. m -> Int] /\ s[m] \in Int
    BY <2>1, <2>2 DEF Runs
  <2>4. r \in [0 .. m + 1 -> Int] /\ r[0] = 0
    BY <2>1, <2>2, <2>3 DEF Runs
  <2>5. ASSUME NEW n \in 1 .. m + 1 PROVE r[n] = r[n - 1] + f[n - 1]
    BY <2>1, <2>2 DEF Runs
  <2>6. Runs(f, r, m + 1)
    <3> HIDE DEF r
    <3> QED BY <2>4, <2>5 DEF Runs
  <2> QED BY <2>6, Numbers
<1>3. 0 .. N \subseteq T
  <2>1. T \in SUBSET Nat
    BY Numbers
  <2> HIDE DEF T
  <2> QED BY <1>1, <1>2, <2>1, Numbers, Climb
<1> QED BY <1>3, Numbers

LEMMA RunningIs ==
  ASSUME NEW f \in [Targets -> Int]
  PROVE  Runs(f, RunningTotal(f), N)
<1> DEFINE one(s) == [n \in 0 .. N |-> IF n = 0 THEN 0 ELSE s[n - 1] + f[n - 1]]
<1>1. PICK s : Runs(f, s, N)
  BY RunsFar
<1>2. s = one(s)
  <2>1. s = [n \in 0 .. N |-> s[n]]
    BY <1>1 DEF Runs
  <2>2. \A n \in 0 .. N : s[n] = IF n = 0 THEN 0 ELSE s[n - 1] + f[n - 1]
    BY <1>1, Numbers DEF Runs
  <2> QED BY <2>1, <2>2
<1>3. RunningTotal(f) = CHOOSE r : r = one(r)
  BY DEF RunningTotal
<1>4. RunningTotal(f) = one(RunningTotal(f))
  BY <1>2, <1>3
<1> DEFINE r == RunningTotal(f)
           T == {n \in 0 .. N : r[n] \in Int}
<1> HIDE DEF r
<1>5. r = [n \in 0 .. N |-> IF n = 0 THEN 0 ELSE r[n - 1] + f[n - 1]]
  BY <1>4 DEF r
<1>6. r[0] = 0 /\ \A n \in 1 .. N : r[n] = r[n - 1] + f[n - 1]
  BY <1>5, Numbers
<1>7. ASSUME NEW m \in 0 .. N - 1, m \in T PROVE m + 1 \in T
  <2>1. m + 1 \in 1 .. N /\ f[m] \in Int /\ m + 1 - 1 = m
    BY Numbers
  <2>2. r[m + 1] = r[m] + f[m]
    BY <1>6, <2>1
  <2> QED BY <1>7, <2>1, <2>2
<1>8. 0 .. N \subseteq T
  <2>1. T \in SUBSET Nat /\ 0 \in T
    BY <1>6, Numbers
  <2> HIDE DEF T
  <2> QED BY <1>7, <2>1, Numbers, Climb
<1>9. r \in [0 .. N -> Int]
  BY <1>5, <1>8
<1>10. Runs(f, r, N)
  BY <1>6, <1>9 DEF Runs
<1> QED BY <1>10 DEF r

LEMMA TotalType ==
  ASSUME NEW f \in [Targets -> Int]
  PROVE  Total(f) \in Int
  BY RunningIs, Numbers DEF Runs, Total

LEMMA RunningStep ==
  ASSUME NEW f \in [Targets -> Int]
  PROVE  /\ RunningTotal(f)[0] = 0 /\ Total(f) = RunningTotal(f)[N]
         /\ \A n \in 0 .. N : RunningTotal(f)[n] \in Int
         /\ \A i \in Targets : RunningTotal(f)[i + 1] = RunningTotal(f)[i] + f[i]
<1> DEFINE r == RunningTotal(f)
<1>1. Runs(f, r, N) /\ Total(f) = r[N]
  BY RunningIs DEF Total
<1> HIDE DEF r
<1>2. r[0] = 0 /\ \A n \in 0 .. N : r[n] \in Int
  BY <1>1 DEF Runs
<1>3. ASSUME NEW i \in Targets PROVE r[i + 1] = r[i] + f[i]
  <2> DEFINE n == i + 1
  <2>1. n \in 1 .. N /\ n - 1 = i
    BY Numbers
  <2> HIDE DEF n
  <2>2. r[n] = r[n - 1] + f[n - 1]
    BY <1>1, <2>1 DEF Runs
  <2>3. r[n] = r[i] + f[i]
    BY <2>1, <2>2
  <2> QED BY <2>3 DEF n
<1> QED BY <1>1, <1>2, <1>3 DEF r

LEMMA Distribute ==
  ASSUME NEW a \in Int, NEW b \in Int, NEW x \in Int, NEW y \in Int, NEW u \in Int, NEW v \in Int
  PROVE  (a * x + b * y) + (a * u + b * v) = a * (x + u) + b * (y + v)
  OBVIOUS

LEMMA TotalLinear ==
  ASSUME NEW f \in [Targets -> Int], NEW g \in [Targets -> Int], NEW a \in Int, NEW b \in Int,
         NEW h \in [Targets -> Int], \A i \in Targets : h[i] = a * f[i] + b * g[i]
  PROVE  Total(h) = a * Total(f) + b * Total(g)
<1> DEFINE rf == RunningTotal(f)
           rg == RunningTotal(g)
           rh == RunningTotal(h)
<1>1. /\ rf[0] = 0 /\ Total(f) = rf[N] /\ \A n \in 0 .. N : rf[n] \in Int
      /\ \A i \in Targets : rf[i + 1] = rf[i] + f[i]
  BY RunningStep
<1>2. /\ rg[0] = 0 /\ Total(g) = rg[N] /\ \A n \in 0 .. N : rg[n] \in Int
      /\ \A i \in Targets : rg[i + 1] = rg[i] + g[i]
  BY RunningStep
<1>3. /\ rh[0] = 0 /\ Total(h) = rh[N] /\ \A n \in 0 .. N : rh[n] \in Int
      /\ \A i \in Targets : rh[i + 1] = rh[i] + h[i]
  BY RunningStep
<1> HIDE DEF rf, rg, rh
<1> DEFINE T == {n \in 0 .. N : rh[n] = a * rf[n] + b * rg[n]}
<1>4. 0 \in T
  <2>1. rh[0] = a * rf[0] + b * rg[0]
    BY <1>1, <1>2, <1>3
  <2> QED BY <2>1, Numbers
<1>5. ASSUME NEW m \in 0 .. N - 1, m \in T PROVE m + 1 \in T
  <2>1. m \in Targets /\ m + 1 \in 0 .. N /\ m \in 0 .. N
    BY Numbers
  <2>2. rf[m] \in Int /\ rg[m] \in Int /\ f[m] \in Int /\ g[m] \in Int
    BY <1>1, <1>2, <2>1
  <2>3. rh[m + 1] = (a * rf[m] + b * rg[m]) + (a * f[m] + b * g[m])
    BY <1>3, <1>5, <2>1
  <2>4. rh[m + 1] = a * (rf[m] + f[m]) + b * (rg[m] + g[m])
    BY <2>2, <2>3, Distribute
  <2>5. rf[m + 1] = rf[m] + f[m] /\ rg[m + 1] = rg[m] + g[m]
    BY <1>1, <1>2, <2>1
  <2> QED BY <2>1, <2>4, <2>5
<1>6. 0 .. N \subseteq T
  <2>1. T \in SUBSET Nat
    BY Numbers
  <2> HIDE DEF T
  <2> QED BY <1>4, <1>5, <2>1, Numbers, Climb
<1> QED BY <1>1, <1>2, <1>3, <1>6, Numbers

LEMMA TotalGrows ==
  ASSUME NEW f \in [Targets -> Int], NEW g \in [Targets -> Int],
         \A i \in Targets : f[i] <= g[i]
  PROVE  Total(f) <= Total(g)
<1> DEFINE rf == RunningTotal(f)
           rg == RunningTotal(g)
<1>1. /\ rf[0] = 0 /\ Total(f) = rf[N] /\ \A n \in 0 .. N : rf[n] \in Int
      /\ \A i \in Targets : rf[i + 1] = rf[i] + f[i]
  BY RunningStep
<1>2. /\ rg[0] = 0 /\ Total(g) = rg[N] /\ \A n \in 0 .. N : rg[n] \in Int
      /\ \A i \in Targets : rg[i + 1] = rg[i] + g[i]
  BY RunningStep
<1> HIDE DEF rf, rg
<1> DEFINE T == {n \in 0 .. N : rf[n] <= rg[n]}
<1>4. 0 \in T
  BY <1>1, <1>2, Numbers
<1>5. ASSUME NEW m \in 0 .. N - 1, m \in T PROVE m + 1 \in T
  <2>1. m \in Targets /\ m + 1 \in 0 .. N /\ m \in 0 .. N
    BY Numbers
  <2>2. rf[m] \in Int /\ rg[m] \in Int /\ f[m] \in Int /\ g[m] \in Int /\ f[m] <= g[m]
    BY <1>1, <1>2, <2>1
  <2>5. rf[m + 1] = rf[m] + f[m] /\ rg[m + 1] = rg[m] + g[m]
    BY <1>1, <1>2, <2>1
  <2> QED BY <1>5, <2>1, <2>2, <2>5
<1>6. 0 .. N \subseteq T
  <2>1. T \in SUBSET Nat
    BY Numbers
  <2> HIDE DEF T
  <2> QED BY <1>4, <1>5, <2>1, Numbers, Climb
<1> QED BY <1>1, <1>2, <1>6, Numbers

LEMMA TotalOfNothing == Total([i \in Targets |-> 0]) = 0
<1> DEFINE z == [i \in Targets |-> 0]
<1>1. z \in [Targets -> Int] /\ \A i \in Targets : z[i] = 0 * z[i] + 0 * z[i]
  OBVIOUS
<1> HIDE DEF z
<1>2. Total(z) = 0 * Total(z) + 0 * Total(z)
  BY <1>1, TotalLinear
<1>3. Total(z) \in Int
  BY <1>1, TotalType
<1>4. Total(z) = 0
  BY <1>2, <1>3
<1> QED BY <1>4 DEF z

(* One summand changes. *)
LEMMA TotalExcept ==
  ASSUME NEW f \in [Targets -> Int], NEW i \in Targets, NEW v \in Int
  PROVE  Total([f EXCEPT ![i] = v]) = Total(f) + v - f[i]
<1> DEFINE g == [f EXCEPT ![i] = v]
           rf == RunningTotal(f)
           rg == RunningTotal(g)
<1>0. g \in [Targets -> Int] /\ g[i] = v /\ \A j \in Targets : j # i => g[j] = f[j]
  OBVIOUS
<1>1. /\ rf[0] = 0 /\ Total(f) = rf[N] /\ \A n \in 0 .. N : rf[n] \in Int
      /\ \A j \in Targets : rf[j + 1] = rf[j] + f[j]
  BY RunningStep
<1>2. /\ rg[0] = 0 /\ Total(g) = rg[N] /\ \A n \in 0 .. N : rg[n] \in Int
      /\ \A j \in Targets : rg[j + 1] = rg[j] + g[j]
  <2> HIDE DEF g
  <2> QED BY <1>0, RunningStep
<1> HIDE DEF rf, rg, g
<1> DEFINE T == {n \in 0 .. N : rg[n] = rf[n] + (IF i < n THEN v - f[i] ELSE 0)}
<1>4. 0 \in T
  BY <1>1, <1>2, Numbers
<1>5. ASSUME NEW m \in 0 .. N - 1, m \in T PROVE m + 1 \in T
  <2>1. m \in Targets /\ m + 1 \in 0 .. N /\ m \in 0 .. N /\ i \in Int
    BY Numbers
  <2>2. rf[m] \in Int /\ rg[m] \in Int /\ f[m] \in Int /\ f[i] \in Int
    BY <1>1, <1>2, <2>1
  <2>3. rf[m + 1] = rf[m] + f[m] /\ rg[m + 1] = rg[m] + g[m]
    BY <1>1, <1>2, <2>1
  <2>4. CASE m = i
    BY <1>0, <1>5, <2>1, <2>2, <2>3, <2>4
  <2>5. CASE m # i
    BY <1>0, <1>5, <2>1, <2>2, <2>3, <2>5
  <2> QED BY <2>4, <2>5
<1>6. 0 .. N \subseteq T
  <2>1. T \in SUBSET Nat
    BY Numbers
  <2> HIDE DEF T
  <2> QED BY <1>4, <1>5, <2>1, Numbers, Climb
<1>7. Total(g) = Total(f) + (v - f[i])
  BY <1>1, <1>2, <1>6, Numbers
<1>8. Total(g) = Total(f) + v - f[i]
  BY <1>1, <1>7, Numbers
<1> QED BY <1>8 DEF g

(* A sum of what is not negative is no less than each of its parts. *)
LEMMA TotalCovers ==
  ASSUME NEW f \in [Targets -> Int], NEW i \in Targets, \A j \in Targets : f[j] >= 0
  PROVE  f[i] <= Total(f)
<1> DEFINE z == [j \in Targets |-> 0]
           v == f[i]
           g == [z EXCEPT ![i] = v]
<1>1. z \in [Targets -> Int] /\ v \in Int /\ z[i] = 0
  OBVIOUS
<1>2. g \in [Targets -> Int] /\ \A j \in Targets : g[j] <= f[j]
  OBVIOUS
<1>3. Total(z) = 0
  BY TotalOfNothing
<1>4. Total(g) = Total(z) + v - z[i]
  <2> HIDE DEF z, v
  <2> QED BY <1>1, TotalExcept
<1>5. Total(g) = v
  <2> HIDE DEF z, v, g
  <2> QED BY <1>1, <1>3, <1>4
<1>6. Total(g) <= Total(f)
  <2> HIDE DEF g
  <2> QED BY <1>2, TotalGrows
<1> QED BY <1>5, <1>6

-----------------------------------------------------------------------------
(* The walks. *)

LEMMA Divided ==
  ASSUME NEW x \in Int, NEW v \in Nat \ {0}
  PROVE  /\ x % v \in 0 .. v - 1 /\ x \div v \in Int
         /\ x = v * (x \div v) + (x % v)
  OBVIOUS

LEMMA SameRemainder ==
  ASSUME NEW v \in Nat \ {0}, NEW m \in 0 .. v - 1, NEW n \in 0 .. v - 1, NEW k \in Int,
         n - m = v * k
  PROVE  m = n
<1>1. CASE k >= 1
  <2>1. v * k >= v
    BY <1>1
  <2> QED BY <2>1
<1>2. CASE k <= -1
  <2>1. v * k <= -v
    BY <1>2
  <2> QED BY <2>1
<1>3. CASE k = 0
  BY <1>3
<1> QED BY <1>1, <1>2, <1>3

(* Whoever goes around from anywhere comes past every place. *)
LEMMA GoesAround ==
  ASSUME NEW v \in Nat \ {0}, NEW s \in Int, NEW n \in 0 .. v - 1
  PROVE  \E off \in 0 .. v - 1 : (s + off) % v = n
<1> DEFINE off == (n - s) % v
           a == (n - s) \div v
           m == (s + off) % v
           b == (s + off) \div v
<1>1. off \in 0 .. v - 1 /\ a \in Int /\ n - s = v * a + off
  <2>1. n - s \in Int
    OBVIOUS
  <2> QED BY <2>1, Divided
<1>2. m \in 0 .. v - 1 /\ b \in Int /\ s + off = v * b + m
  <2>1. s + off \in Int
    BY <1>1
  <2> HIDE DEF off
  <2> QED BY <2>1, Divided
<1> HIDE DEF off, a, m, b
<1>3. n - m = v * (a + b)
  <2>1. v * (a + b) = v * a + v * b
    BY <1>1, <1>2
  <2>2. v * a \in Int /\ v * b \in Int
    BY <1>1, <1>2
  <2> QED BY <1>1, <1>2, <2>1, <2>2
<1>4. m = n
  <2>1. a + b \in Int
    BY <1>1, <1>2
  <2> QED BY <1>2, <1>3, <2>1, SameRemainder
<1> QED BY <1>1, <1>4 DEF m

(* How many places of the ring come before one. *)
Rank(p) == Cardinality({q \in Ring : q < p})

LEMMA RingFinite ==
  /\ Ring \subseteq 1 .. Len(Placement) /\ IsFiniteSet(Ring) /\ Vnodes \in Nat
  /\ Ring \subseteq Nat
<1>1. Len(Placement) \in Nat /\ DOMAIN Placement = 1 .. Len(Placement)
  BY PickersAssumption
<1>2. Ring \subseteq 1 .. Len(Placement)
  BY <1>1 DEF Ring
<1>3. IsFiniteSet(Ring)
  <2> DEFINE places == 1 .. Len(Placement)
  <2>1. IsFiniteSet(places)
    BY <1>1, FS_Interval
  <2> HIDE DEF places
  <2> QED BY <1>2, <2>1, FS_Subset DEF places
<1>4. Vnodes \in Nat
  BY <1>3, FS_CardinalityType DEF Vnodes
<1>5. Ring \subseteq Nat
  BY <1>1, <1>2
<1> QED BY <1>2, <1>3, <1>4, <1>5

LEMMA RankGrows ==
  ASSUME NEW p \in Ring
  PROVE  /\ Rank(p) \in 0 .. Vnodes - 1
         /\ \A r \in Ring : p < r => Rank(p) < Rank(r)
<1> DEFINE below(x) == {q \in Ring : q < x}
<1>1. \A x : below(x) \in SUBSET Ring /\ IsFiniteSet(below(x)) /\ Cardinality(below(x)) \in Nat
  <2> TAKE x
  <2>1. below(x) \in SUBSET Ring
    OBVIOUS
  <2> HIDE DEF below
  <2> QED BY <2>1, RingFinite, FS_Subset, FS_CardinalityType
<1>2. p \notin below(p)
  BY RingFinite
<1>3. Cardinality(below(p) \cup {p}) = Cardinality(below(p)) + 1
  <2> HIDE DEF below
  <2> QED BY <1>1, <1>2, FS_AddElement
<1>4. Cardinality(below(p)) + 1 <= Vnodes
  <2>1. below(p) \cup {p} \in SUBSET Ring
    OBVIOUS
  <2> HIDE DEF below
  <2> QED BY <1>3, <2>1, RingFinite, FS_Subset DEF Vnodes
<1>5. ASSUME NEW r \in Ring, p < r PROVE Cardinality(below(p)) + 1 <= Cardinality(below(r))
  <2>1. below(p) \cup {p} \in SUBSET below(r)
    <3>1. p \in Nat /\ r \in Nat /\ \A q \in Ring : q \in Nat
      BY RingFinite
    <3>2. ASSUME NEW q \in below(p) \cup {p} PROVE q \in Ring /\ q < r
      BY <1>5, <3>1
    <3> QED BY <3>2
  <2> HIDE DEF below
  <2> QED BY <1>1, <1>3, <2>1, FS_Subset
<1>6. \A x : Rank(x) = Cardinality(below(x))
  BY DEF Rank
<1> HIDE DEF below
<1>7. Rank(p) \in 0 .. Vnodes - 1
  BY <1>1, <1>4, <1>6, RingFinite
<1>8. ASSUME NEW r \in Ring, p < r PROVE Rank(p) < Rank(r)
  BY <1>1, <1>5, <1>6, <1>8
<1> QED BY <1>7, <1>8

LEMMA RankTells ==
  ASSUME NEW p \in Ring, NEW r \in Ring, Rank(p) = Rank(r)
  PROVE  p = r
<1>1. p \in Nat /\ r \in Nat
  BY RingFinite
<1>2. Rank(p) \in Int /\ Rank(r) \in Int
  BY RankGrows
<1>3. ~(p < r) /\ ~(r < p)
  BY <1>2, RankGrows
<1> QED BY <1>1, <1>3

LEMMA PlaceOfRank ==
  ASSUME NEW p \in Ring
  PROVE  Place(Rank(p)) = p
<1> DEFINE n == Rank(p)
<1>1. p \in Ring /\ Rank(p) = n
  OBVIOUS
<1>2. Place(n) = CHOOSE r \in Ring : Rank(r) = n
  BY Zenon DEF Place, Rank
<1> HIDE DEF n
<1>3. Place(n) \in Ring /\ Rank(Place(n)) = n
  BY <1>1, <1>2, Zenon
<1>4. Place(n) = p
  BY <1>1, <1>3, RankTells, Zenon
<1> QED BY <1>4 DEF n

LEMMA PlaceIs ==
  ASSUME NEW n \in 0 .. Vnodes - 1
  PROVE  Place(n) \in Ring
<1> DEFINE ranks == 0 .. Vnodes - 1
           f == [p \in Ring |-> Rank(p)]
<1>1. f \in [Ring -> ranks]
  BY RankGrows
<1>2. f \in Injection(Ring, ranks)
  <2>1. \A p, r \in Ring : f[p] = f[r] => p = r
    BY RankTells
  <2> HIDE DEF f
  <2> QED BY <1>1, <2>1, Zenon DEF Injection, IsInjective
<1>3. IsFiniteSet(ranks) /\ Cardinality(ranks) = Cardinality(Ring)
  <2>1. 0 \in Int /\ Vnodes - 1 \in Int /\ Vnodes = Cardinality(Ring) /\ Vnodes \in Nat
    BY RingFinite DEF Vnodes
  <2>2. IsFiniteSet(ranks) /\ Cardinality(ranks) = IF 0 > Vnodes - 1 THEN 0 ELSE Vnodes - 1 - 0 + 1
    BY <2>1, FS_Interval
  <2> HIDE DEF ranks
  <2> QED BY <2>1, <2>2
<1>4. f \in Surjection(Ring, ranks)
  <2> HIDE DEF f, ranks
  <2> QED BY <1>2, <1>3, FS_Injection, Zenon
<1>5. PICK p \in Ring : f[p] = n
  <2>1. n \in ranks
    OBVIOUS
  <2> HIDE DEF f, ranks
  <2> QED BY <1>4, <2>1, Zenon DEF Surjection
<1>6. Rank(p) = n
  BY <1>5
<1> QED BY <1>6, PlaceOfRank

LEMMA RingHas ==
  ASSUME weight \in Weights, NEW i \in InRotation
  PROVE  \E p \in Ring : Placement[p][1] = i
<1>1. i \in Targets /\ weight[i] \in Nat /\ weight[i] >= 1
  BY Weighty DEF InRotation
<1>2. weight[i] * VnodeFactor >= 1
  <2> DEFINE w == weight[i]
             v == VnodeFactor
  <2>1. w \in Nat /\ w >= 1 /\ v \in Nat /\ v >= 1
    BY <1>1, Numbers
  <2> HIDE DEF w, v
  <2>2. w * v >= 1
    BY <2>1
  <2> QED BY <2>2 DEF w, v
<1>3. 0 \in 0 .. weight[i] * VnodeFactor - 1
  <2>1. weight[i] * VnodeFactor \in Int
    BY <1>1, Numbers
  <2> QED BY <1>2, <2>1
<1>4. PICK p \in DOMAIN Placement : Placement[p] = << i, 0 >>
  BY <1>1, <1>3, PickersAssumption
<1>5. Placement[p][1] = i /\ Placement[p][2] = 0
  BY <1>4
<1>6. 0 < weight[i] * VnodeFactor
  <2>1. weight[i] * VnodeFactor \in Int
    BY <1>1, Numbers
  <2> QED BY <1>2, <2>1
<1>7. Placement[p][2] < weight[Placement[p][1]] * VnodeFactor
  BY <1>5, <1>6, Zenon
<1>8. p \in Ring
  BY <1>7, Zenon DEF Ring
<1> QED BY <1>5, <1>8

LEMMA PlacedTarget ==
  ASSUME NEW p \in Ring
  PROVE  Placement[p][1] \in Targets
  BY PickersAssumption DEF Ring

LEMMA SearchType ==
  ASSUME NEW key
  PROVE  Search(key) \in Nat
<1>1. {p \in Ring : p <= key} \in SUBSET Ring
  OBVIOUS
<1> QED BY <1>1, RingFinite, FS_Subset, FS_CardinalityType DEF Search

(* What a call looks at next depends on these. *)
Placed == weight \in Weights /\ balance \in Balances /\ rot \in Targets

LEMMA LooksAtTargets ==
  ASSUME Placed, NEW p
  PROVE  /\ Size(p) \in Nat
         /\ \A off \in 0 .. Size(p) - 1 : LookAt(p, off) \in Targets
<1>1. CASE Keyed(p)
  <2>1. Size(p) = Vnodes
    BY <1>1 DEF Size
  <2>2. ASSUME NEW off \in 0 .. Vnodes - 1 PROVE LookAt(p, off) \in Targets
    <3> DEFINE s == Search(p.key)
               n == (s + off) % Vnodes
    <3>1. Vnodes \in Nat \ {0} /\ s + off \in Int
      BY RingFinite, SearchType
    <3>2. n \in 0 .. Vnodes - 1
      <4> HIDE DEF s
      <4> QED BY <3>1, Divided
    <3>3. LookAt(p, off) = Placement[Place(n)][1]
      BY <1>1 DEF LookAt, Walk
    <3> HIDE DEF n
    <3> QED BY <3>2, <3>3, PlaceIs, PlacedTarget
  <2> QED BY <2>1, <2>2, RingFinite
<1>2. CASE ~Keyed(p)
  <2>1. Size(p) = N
    BY <1>2 DEF Size
  <2>2. ASSUME NEW off \in 0 .. N - 1 PROVE LookAt(p, off) \in Targets
    <3>1. N \in Nat \ {0} /\ off + rot \in Int /\ off \in Targets
      BY Numbers DEF Placed
    <3>2. (off + rot) % N \in Targets
      BY <3>1, Divided, Numbers
    <3> QED BY <1>2, <3>1, <3>2 DEF LookAt
  <2> QED BY <2>1, <2>2, Numbers
<1> QED BY <1>1, <1>2

LEMMA LooksAtAll ==
  ASSUME Placed, NEW p, NEW i \in InRotation
  PROVE  \E off \in 0 .. Size(p) - 1 : LookAt(p, off) = i
<1>0. i \in Targets
  BY DEF InRotation
<1>1. CASE Keyed(p)
  <2> DEFINE s == Search(p.key)
  <2>1. Size(p) = Vnodes /\ \A off : LookAt(p, off) = Placement[Place((s + off) % Vnodes)][1]
    BY <1>1 DEF Size, LookAt, Walk
  <2>2. PICK r \in Ring : Placement[r][1] = i
    BY RingHas DEF Placed
  <2>3. Rank(r) \in 0 .. Vnodes - 1 /\ Vnodes \in Nat \ {0} /\ s \in Int
    BY RankGrows, RingFinite, SearchType
  <2> HIDE DEF s
  <2>4. PICK off \in 0 .. Vnodes - 1 : (s + off) % Vnodes = Rank(r)
    BY <2>3, GoesAround
  <2> QED BY <2>1, <2>2, <2>4, PlaceOfRank
<1>2. CASE ~Keyed(p) /\ balance = "round_robin"
  BY <1>0, <1>2, Numbers DEF Size, LookAt
<1>3. CASE ~Keyed(p) /\ balance # "round_robin"
  <2>1. Size(p) = N /\ \A off : LookAt(p, off) = (off + rot) % N
    BY <1>3 DEF Size, LookAt
  <2>2. N \in Nat \ {0} /\ rot \in Int /\ i \in 0 .. N - 1
    BY <1>0, Numbers DEF Placed
  <2>3. PICK off \in 0 .. N - 1 : (rot + off) % N = i
    BY <2>2, GoesAround
  <2>4. rot + off = off + rot
    BY <2>2
  <2> QED BY <2>1, <2>3, <2>4
<1> QED BY <1>1, <1>2, <1>3

-----------------------------------------------------------------------------
(* The invariant.  First what every call of Pick keeps to. *)

Sole == \A c, d \in Callers : pick[c].at # "idle" /\ pick[d].at # "idle" => c = d

Proper(c, p) ==
  /\ p.at = "idle" => p = NoCall
  /\ p.at # "idle" => hold[c] = Nobody
  /\ p.off <= Size(p)
  /\ p.at = "look" /\ balance = "ring_hash" => p.best = Nobody
  /\ p.at = "reserve" => p.best \in Targets
  /\ p.at = "reserve" /\ balance = "ring_hash" => p.off < Size(p)
  /\ p.at = "reserve" /\ Keyed(p) => p.best = At(p)

Reporters(i) == {c \in Callers \ Mirrors : hold[c] = i}

Counted == \A i \in Targets : Cardinality(Reporters(i)) <= inflight[i]

Orderly == TypeOK /\ Sole /\ (\A c \in Callers : Proper(c, pick[c])) /\ Counted

(* A call that has settled on nobody has turned away whom it met. *)
Passes(p) ==
  /\ p.excluded \subseteq p.seen \cup (IF p.at = "reserve" THEN {p.best} ELSE {})
  /\ Keyed(p) \/ (balance # "ring_hash" /\ p.at = "look" /\ p.best = Nobody) =>
       \A off \in 0 .. p.off - 1 : LookAt(p, off) \in p.seen

Passed == \A c \in Callers : Passes(pick[c])

(* Least connections: whom the call has met and not turned away had at     *)
(* least as much in flight when the call began as the best has now.        *)
Outranks(p, j) ==
  \/ j \in p.seen
  \/ p.fewest < p.first[j]
  \/ p.fewest = p.first[j] /\ weight[j] <= weight[p.best]

Compares(p) ==
  /\ \A j \in Targets : inflight[j] <= p.first[j]
  /\ p.best # Nobody => inflight[p.best] <= p.fewest
  /\ p.at = "look" /\ p.best # Nobody => \A off \in 0 .. p.off - 1 : Outranks(p, LookAt(p, off))
  /\ p.at = "reserve" => \A j \in InRotation : Outranks(p, j)

Compared ==
  balance = "least_connections" => \A c \in Callers : pick[c].at # "idle" => Compares(pick[c])

(* Round robin, while all is calm: what target i is owed, and how a pass   *)
(* has added to it so far.                                                 *)
Cycle == Total(Shares)
Picks == Total(tally)
Owed(i) == Picks * Shares[i] - Cycle * tally[i]

Accrues(p, credit) ==
  /\ p.at = "look" =>
       /\ p.excluded = {} /\ p.total = RunningTotal(Shares)[p.off]
       /\ p.best # Nobody => p.best \in Serving /\ p.best < p.off
       /\ \A i \in Targets : credit[i] = Owed(i) + (IF i < p.off THEN Shares[i] ELSE 0)
       /\ \A i \in Serving : i < p.off => p.best # Nobody /\ credit[i] <= credit[p.best]
  /\ p.at = "reserve" =>
       /\ p.best \in Serving /\ Owed(p.best) + Shares[p.best] > 0
       /\ \A i \in Targets : credit[i] = Owed(i) + Shares[i] - (IF i = p.best THEN Cycle ELSE 0)

Owing ==
  /\ \A i \in Targets : health[i] # "probing" /\ (i \notin Serving => tally[i] = 0)
  /\ \A i \in Serving : Owed(i) > -Cycle
  /\ Unlocked => \A i \in Targets : cur[i] = Owed(i)
  /\ \A c \in Callers : Accrues(pick[c], cur)

Calm ==
  /\ balance = "round_robin" /\ calm => Owing
  /\ balance # "round_robin" => \A i \in Targets : tally[i] = 0

LEMMA StillLooks ==
  ASSUME weight' = weight, balance' = balance
  PROVE  /\ Vnodes' = Vnodes /\ Ring' = Ring
         /\ \A key, off : Walk(key, off)' = Walk(key, off)
         /\ \A p : Keyed(p)' = Keyed(p) /\ Size(p)' = Size(p)
         /\ \A p, off : Keyed(p) \/ rot' = rot => LookAt(p, off)' = LookAt(p, off)
         /\ InRotation' = InRotation
<1>1. Ring' = Ring /\ InRotation' = InRotation
  BY DEF Ring, InRotation
<1>2. Vnodes' = Vnodes /\ \A n : Place(n)' = Place(n)
  BY <1>1 DEF Vnodes, Place
<1>3. \A key : Search(key)' = Search(key)
  BY <1>1 DEF Search
<1>4. \A key, off : Walk(key, off)' = Walk(key, off)
  BY <1>2, <1>3 DEF Walk
<1>5. \A p : Keyed(p)' = Keyed(p)
  BY DEF Keyed
<1>6. \A p : Size(p)' = Size(p)
  BY <1>2, <1>5 DEF Size
<1>7. \A p, off : Keyed(p) \/ rot' = rot => LookAt(p, off)' = LookAt(p, off)
  BY <1>4, <1>5 DEF LookAt
<1> QED BY <1>1, <1>2, <1>4, <1>5, <1>6, <1>7

LEMMA Quiet ==
  /\ NoCall \in Call /\ NoCall.at = "idle" /\ NoCall.key = NoKey /\ NoCall.off = 0
  /\ NoCall.best = Nobody /\ NoCall.fewest = 0 /\ NoCall.total = 0
  /\ NoCall.excluded = {} /\ NoCall.seen = {} /\ NoCall.first = [i \in Targets |-> 0]
  BY DEF NoCall, Call

LEMMA Unkeyed == NoKey \notin Nat /\ Nobody \notin Targets /\ Nobody \notin Nat
  BY Numbers DEF NoKey, Nobody

LEMMA OrderlyIs ==
  ASSUME Orderly
  PROVE  /\ Placed /\ balance \in LoadBalancers /\ weight \in [Targets -> Nat]
         /\ inflight \in [Targets -> Nat] /\ cur \in [Targets -> Int] /\ tally \in [Targets -> Nat]
         /\ \A c \in Callers : pick[c] \in Call /\ Proper(c, pick[c])
         /\ \A p : Size(p) \in Nat
<1>1. Placed /\ balance \in LoadBalancers
  BY PickersAssumption DEF Orderly, TypeOK, Placed
<1>2. weight \in [Targets -> Nat]
  BY Weighty DEF Orderly, TypeOK
<1>3. /\ inflight \in [Targets -> Nat] /\ cur \in [Targets -> Int] /\ tally \in [Targets -> Nat]
      /\ \A c \in Callers : pick[c] \in Call /\ Proper(c, pick[c])
  BY DEF Orderly, TypeOK
<1>4. \A p : Size(p) \in Nat
  BY <1>1, LooksAtTargets
<1> QED BY <1>1, <1>2, <1>3, <1>4

(* Whoever is in Pick is alone there. *)
LEMMA Alone ==
  ASSUME Orderly, NEW c \in Callers, pick[c].at # "idle" \/ Unlocked
  PROVE  \A d \in Callers : d # c => pick[d] = NoCall
  BY DEF Orderly, Sole, Unlocked, Proper

LEMMA Replaces ==
  ASSUME Orderly, NEW c \in Callers, pick[c].at # "idle" \/ Unlocked,
         NEW q \in Call, pick' = [pick EXCEPT ![c] = q]
  PROVE  /\ pick' \in [Callers -> Call] /\ Sole'
         /\ pick'[c] = q /\ \A d \in Callers : d # c => pick'[d] = NoCall
<1>1. pick \in [Callers -> Call]
  BY DEF Orderly, TypeOK
<1>2. pick' \in [Callers -> Call] /\ pick'[c] = q /\ \A d \in Callers : d # c => pick'[d] = pick[d]
  BY <1>1
<1>3. \A d \in Callers : d # c => pick'[d] = NoCall
  BY <1>2, Alone
<1>4. Sole'
  BY <1>2, <1>3, Quiet DEF Sole
<1> QED BY <1>2, <1>3, <1>4

LEMMA QuietProper ==
  ASSUME Placed, NEW d
  PROVE  Proper(d, NoCall)
<1>1. Size(NoCall) \in Nat
  BY LooksAtTargets
<1> QED BY <1>1, Quiet DEF Proper

(* A step of the call that c is in. *)
CallMoves(c, q) ==
  /\ pick' = [pick EXCEPT ![c] = q]
  /\ pick[c].at # "idle" \/ Unlocked
  /\ UNCHANGED << balance, weight, health, inflight, hold, turns, calm, tally >>
  /\ rot' \in Targets /\ cur' \in [Targets -> Int]

LEMMA MovesOrderly ==
  ASSUME Orderly, NEW c \in Callers, NEW q \in Call, CallMoves(c, q), Proper(c, q)
  PROVE  Orderly'
<1>1. /\ pick' \in [Callers -> Call] /\ Sole'
      /\ pick'[c] = q /\ \A d \in Callers : d # c => pick'[d] = NoCall
  BY Replaces DEF CallMoves
<1>2. weight' = weight /\ balance' = balance /\ hold' = hold
  BY DEF CallMoves
<1>3. /\ Vnodes' = Vnodes /\ \A p : Keyed(p)' = Keyed(p) /\ Size(p)' = Size(p)
      /\ \A p, off : Keyed(p) => LookAt(p, off)' = LookAt(p, off)
  BY <1>2, StillLooks
<1>4. TypeOK'
  BY <1>1, <1>2 DEF Orderly, TypeOK, CallMoves
<1>5. Counted'
  BY DEF Orderly, Counted, Reporters, CallMoves
<1>6. ASSUME NEW d \in Callers PROVE Proper(d, pick[d])'
  <2>1. CASE d = c
    BY <1>1, <1>2, <1>3, <2>1 DEF Proper, At
  <2>2. CASE d # c
    <3>1. Proper(d, NoCall)
      BY OrderlyIs, QuietProper
    <3> QED BY <1>1, <1>2, <1>3, <2>2, <3>1 DEF Proper, At
  <2> QED BY <2>1, <2>2
<1> QED BY <1>1, <1>4, <1>5, <1>6 DEF Orderly

-----------------------------------------------------------------------------
(* What each step makes of the call. *)

LEMMA Fields ==
  ASSUME NEW p \in Call
  PROVE  /\ DOMAIN p = {"at", "key", "off", "best", "fewest", "total", "excluded", "seen", "first"}
         /\ p.at \in {"idle", "look", "reserve"} /\ p.key \in {NoKey} \cup Nat /\ p.off \in Nat
         /\ p.best \in Targets \cup {Nobody} /\ p.fewest \in Nat /\ p.total \in Nat
         /\ p.excluded \in SUBSET Targets /\ p.seen \in SUBSET Targets /\ p.first \in [Targets -> Nat]
  BY DEF Call

Rebuild(p, at, off, best, fewest, total, excluded, seen) ==
  [p EXCEPT !.at = at, !.off = off, !.best = best, !.fewest = fewest,
            !.total = total, !.excluded = excluded, !.seen = seen]

Fills(at, off, best, fewest, total, excluded, seen) ==
  /\ at \in {"idle", "look", "reserve"} /\ off \in Nat /\ best \in Targets \cup {Nobody}
  /\ fewest \in Nat /\ total \in Nat /\ excluded \in SUBSET Targets /\ seen \in SUBSET Targets

Becomes(q, p, at, off, best, fewest, total, excluded, seen) ==
  /\ q \in Call /\ q.at = at /\ q.key = p.key /\ q.first = p.first /\ q.off = off
  /\ q.best = best /\ q.total = total /\ q.fewest = fewest
  /\ q.excluded = excluded /\ q.seen = seen

LEMMA Rebuilt ==
  ASSUME NEW p \in Call, NEW at, NEW off, NEW best, NEW fewest, NEW total, NEW excluded, NEW seen,
         Fills(at, off, best, fewest, total, excluded, seen),
         NEW q, q = Rebuild(p, at, off, best, fewest, total, excluded, seen)
  PROVE  Becomes(q, p, at, off, best, fewest, total, excluded, seen)
<1>1. /\ q.at = at /\ q.key = p.key /\ q.first = p.first /\ q.off = off
      /\ q.best = best /\ q.total = total /\ q.fewest = fewest
      /\ q.excluded = excluded /\ q.seen = seen
  BY Fields DEF Rebuild
<1>2. q = [at |-> at, key |-> p.key, off |-> off, best |-> best, fewest |-> fewest, total |-> total,
           excluded |-> excluded, seen |-> seen, first |-> p.first]
  BY Fields DEF Rebuild
<1>3. q \in Call
  BY <1>2, Fields DEF Call, Fills
<1> QED BY <1>1, <1>3 DEF Becomes

Same(p, q) == q.key = p.key /\ q.first = p.first /\ q.at = "look" /\ p.at = "look"

LEMMA Meets ==
  ASSUME Orderly, NEW c \in Callers, Looking(c)
  PROVE  /\ pick[c].at = "look" /\ pick[c] \in Call /\ Proper(c, pick[c])
         /\ At(pick[c]) \in Targets /\ At(pick[c]) = LookAt(pick[c], pick[c].off)
         /\ pick[c].off \in Nat /\ pick[c].off < Size(pick[c]) /\ Size(pick[c]) \in Nat
<1> DEFINE p == pick[c]
<1>1. p \in Call /\ Proper(c, p) /\ Size(p) \in Nat /\ Placed
  BY OrderlyIs
<1>2. p.at = "look" /\ p.off < Size(p)
  BY DEF Looking
<1> HIDE DEF p
<1>3. p.off \in Nat
  BY <1>1 DEF Call
<1>4. p.off \in 0 .. Size(p) - 1
  BY <1>1, <1>2, <1>3
<1>5. LookAt(p, p.off) \in Targets
  BY <1>1, <1>4, LooksAtTargets
<1> QED BY <1>1, <1>2, <1>3, <1>5 DEF At, p

LEMMA SkipIs ==
  ASSUME Orderly, NEW c \in Callers, Skip(c)
  PROVE  LET p == pick[c]
             i == At(p)
         IN  /\ Looking(c) /\ (i \in p.excluded \/ ~Available(i))
             /\ rot' = rot /\ cur' = cur
             /\ \E q \in Call :
                  /\ CallMoves(c, q) /\ Proper(c, q) /\ Same(p, q)
                  /\ q.off = p.off + 1 /\ q.best = p.best /\ q.total = p.total /\ q.fewest = p.fewest
                  /\ q.seen = (IF i \in p.excluded THEN p.seen ELSE p.seen \cup {i})
                  /\ q.excluded = (IF Keyed(p) THEN p.excluded \cup {i} ELSE p.excluded)
<1> DEFINE p == pick[c]
           i == At(p)
           excluded == IF Keyed(p) THEN p.excluded \cup {i} ELSE p.excluded
           seen == IF i \in p.excluded THEN p.seen ELSE p.seen \cup {i}
           q == [Advanced(p) EXCEPT !.excluded = IF Keyed(p) THEN @ \cup {i} ELSE @,
                                    !.seen = IF i \in p.excluded THEN @ ELSE @ \cup {i}]
<1>1. Looking(c) /\ (i \in p.excluded \/ ~Available(i)) /\ pick' = [pick EXCEPT ![c] = q]
      /\ UNCHANGED <<balance, weight, health, inflight, cur, rot, hold, turns, calm, tally>>
  BY DEF Skip
<1>2. /\ p.at = "look" /\ p \in Call /\ Proper(c, p) /\ i \in Targets
      /\ p.off \in Nat /\ p.off < Size(p) /\ Size(p) \in Nat
  BY <1>1, Meets
<1>3. /\ q = [p EXCEPT !.off = p.off + 1, !.excluded = excluded, !.seen = seen]
      /\ excluded \in SUBSET Targets /\ seen \in SUBSET Targets
  <2> HIDE DEF i
  <2> QED BY <1>2 DEF Call, Advanced
<1> HIDE DEF q, excluded, seen, i, p
<1>4. /\ q \in Call /\ q.at = "look" /\ q.key = p.key /\ q.first = p.first /\ q.off = p.off + 1
      /\ q.best = p.best /\ q.total = p.total /\ q.fewest = p.fewest
      /\ q.excluded = excluded /\ q.seen = seen
  <2>1. q = Rebuild(p, p.at, p.off + 1, p.best, p.fewest, p.total, excluded, seen)
    BY <1>2, <1>3, Fields DEF Rebuild
  <2>2. Fills(p.at, p.off + 1, p.best, p.fewest, p.total, excluded, seen)
    BY <1>2, <1>3, Fields DEF Fills
  <2>3. Becomes(q, p, p.at, p.off + 1, p.best, p.fewest, p.total, excluded, seen)
    BY <1>2, <2>1, <2>2, Rebuilt, Zenon
  <2> QED BY <1>2, <2>3 DEF Becomes
<1>5. Size(q) = Size(p) /\ (Keyed(q) <=> Keyed(p))
  BY <1>4 DEF Size, Keyed
<1>6. Proper(c, q)
  BY <1>2, <1>4, <1>5 DEF Proper
<1>7. CallMoves(c, q)
  BY <1>1, <1>2 DEF CallMoves, Orderly, TypeOK, p
<1>8. Same(p, q)
  BY <1>2, <1>4 DEF Same
<1> QED BY <1>1, <1>4, <1>6, <1>7, <1>8 DEF p, i, excluded, seen

LEMMA LookInTurnIs ==
  ASSUME Orderly, NEW c \in Callers, LookInTurn(c)
  PROVE  LET p == pick[c]
             i == At(p)
         IN  /\ Eligible(c) /\ balance = "round_robin" /\ rot' = rot
             /\ cur' = [cur EXCEPT ![i] = @ + weight[i]]
             /\ \E q \in Call :
                  /\ CallMoves(c, q) /\ Proper(c, q) /\ Same(p, q)
                  /\ q.off = p.off + 1 /\ q.total = p.total + weight[i]
                  /\ q.best = (IF p.best = Nobody \/ cur'[i] > cur'[p.best] THEN i ELSE p.best)
                  /\ q.seen = p.seen /\ q.excluded = p.excluded
<1> DEFINE p == pick[c]
           i == At(p)
           best == IF p.best = Nobody \/ cur'[i] > cur'[p.best] THEN i ELSE p.best
           total == p.total + weight[i]
           q == [Advanced(p) EXCEPT !.total = @ + Gain(i),
                                    !.best = IF @ = Nobody \/ cur'[i] > cur'[@] THEN i ELSE @]
<1>1. /\ Eligible(c) /\ Looking(c) /\ balance = "round_robin" /\ pick' = [pick EXCEPT ![c] = q]
      /\ UNCHANGED <<balance, weight, health, inflight, rot, hold, turns, calm, tally>>
      /\ cur' = [cur EXCEPT ![i] = @ + weight[i]]
  BY DEF LookInTurn, Eligible, Gain
<1>2. /\ p.at = "look" /\ p \in Call /\ Proper(c, p) /\ i \in Targets
      /\ p.off \in Nat /\ p.off < Size(p) /\ Size(p) \in Nat
      /\ weight[i] \in Nat /\ cur \in [Targets -> Int]
  BY <1>1, Meets, OrderlyIs
<1>3. /\ q = [p EXCEPT !.off = p.off + 1, !.total = total, !.best = best]
      /\ total \in Nat /\ best \in Targets \cup {Nobody}
  <2> HIDE DEF i
  <2> QED BY <1>2 DEF Call, Advanced, Gain
<1>0. rot' \in Targets /\ cur' \in [Targets -> Int]
  <2> HIDE DEF i
  <2> QED BY <1>1, <1>2 DEF Orderly, TypeOK
<1> HIDE DEF q, best, total, i, p
<1>4. /\ q \in Call /\ q.at = "look" /\ q.key = p.key /\ q.first = p.first /\ q.off = p.off + 1
      /\ q.best = best /\ q.total = total
      /\ q.excluded = p.excluded /\ q.seen = p.seen
  <2>1. q = Rebuild(p, p.at, p.off + 1, best, p.fewest, total, p.excluded, p.seen)
    BY <1>2, <1>3, Fields DEF Rebuild
  <2>2. Fills(p.at, p.off + 1, best, p.fewest, total, p.excluded, p.seen)
    BY <1>2, <1>3, Fields DEF Fills
  <2>3. Becomes(q, p, p.at, p.off + 1, best, p.fewest, total, p.excluded, p.seen)
    BY <1>2, <2>1, <2>2, Rebuilt, Zenon
  <2> QED BY <1>2, <2>3 DEF Becomes
<1>5. Size(q) = Size(p) /\ (Keyed(q) <=> Keyed(p))
  BY <1>4 DEF Size, Keyed
<1>6. Proper(c, q)
  BY <1>1, <1>2, <1>4, <1>5 DEF Proper
<1>7. CallMoves(c, q)
  BY <1>0, <1>1, <1>2 DEF CallMoves, p
<1>8. Same(p, q)
  BY <1>2, <1>4 DEF Same
<1> QED BY <1>1, <1>4, <1>6, <1>7, <1>8 DEF p, i, best, total

LEMMA LookForFewestIs ==
  ASSUME Orderly, NEW c \in Callers, LookForFewest(c)
  PROVE  LET p == pick[c]
             i == At(p)
         IN  /\ Eligible(c) /\ balance = "least_connections" /\ rot' = rot /\ cur' = cur
             /\ \E q \in Call :
                  /\ CallMoves(c, q) /\ Proper(c, q) /\ Same(p, q)
                  /\ q.off = p.off + 1
                  /\ q.best = (IF Prefers(p, i) THEN i ELSE p.best)
                  /\ q.fewest = (IF Prefers(p, i) THEN inflight[i] ELSE p.fewest)
                  /\ q.seen = p.seen /\ q.excluded = p.excluded
<1> DEFINE p == pick[c]
           i == At(p)
           best == IF Prefers(p, i) THEN i ELSE p.best
           fewest == IF Prefers(p, i) THEN inflight[i] ELSE p.fewest
           q == IF Prefers(p, i) THEN [Advanced(p) EXCEPT !.best = i, !.fewest = inflight[i]]
                ELSE Advanced(p)
<1>1. /\ Eligible(c) /\ Looking(c) /\ balance = "least_connections" /\ pick' = [pick EXCEPT ![c] = q]
      /\ UNCHANGED <<balance, weight, health, inflight, cur, rot, hold, turns, calm, tally>>
  BY DEF LookForFewest, Eligible
<1>2. /\ p.at = "look" /\ p \in Call /\ Proper(c, p) /\ i \in Targets
      /\ p.off \in Nat /\ p.off < Size(p) /\ Size(p) \in Nat
      /\ inflight[i] \in Nat
  BY <1>1, Meets, OrderlyIs
<1>3. /\ best \in Targets \cup {Nobody} /\ fewest \in Nat
      /\ q = [p EXCEPT !.off = p.off + 1, !.best = best, !.fewest = fewest]
  <2> HIDE DEF i
  <2> QED BY <1>2 DEF Call, Advanced
<1> HIDE DEF q, best, fewest, i, p
<1>4. /\ q \in Call /\ q.at = "look" /\ q.key = p.key /\ q.first = p.first /\ q.off = p.off + 1
      /\ q.best = best /\ q.fewest = fewest
      /\ q.excluded = p.excluded /\ q.seen = p.seen
  <2>1. q = Rebuild(p, p.at, p.off + 1, best, fewest, p.total, p.excluded, p.seen)
    BY <1>2, <1>3, Fields DEF Rebuild
  <2>2. Fills(p.at, p.off + 1, best, fewest, p.total, p.excluded, p.seen)
    BY <1>2, <1>3, Fields DEF Fills
  <2>3. Becomes(q, p, p.at, p.off + 1, best, fewest, p.total, p.excluded, p.seen)
    BY <1>2, <2>1, <2>2, Rebuilt, Zenon
  <2> QED BY <1>2, <2>3 DEF Becomes
<1>5. Size(q) = Size(p) /\ (Keyed(q) <=> Keyed(p))
  BY <1>4 DEF Size, Keyed
<1>6. Proper(c, q)
  BY <1>1, <1>2, <1>4, <1>5 DEF Proper
<1>7. CallMoves(c, q)
  BY <1>1, <1>2 DEF CallMoves, Orderly, TypeOK, p
<1>8. Same(p, q)
  BY <1>2, <1>4 DEF Same
<1> QED BY <1>1, <1>4, <1>6, <1>7, <1>8 DEF p, i, best, fewest

LEMMA TurnsRound ==
  ASSUME Orderly
  PROVE  (rot + 1) % N \in Targets
<1>1. rot + 1 \in Int /\ N \in Nat \ {0}
  BY OrderlyIs, Numbers DEF Placed
<1> QED BY <1>1, Divided, Numbers

LEMMA LookAlongRingIs ==
  ASSUME Orderly, NEW c \in Callers, LookAlongRing(c)
  PROVE  LET p == pick[c]
             i == At(p)
         IN  /\ Eligible(c) /\ balance = "ring_hash" /\ cur' = cur /\ (Keyed(p) => rot' = rot)
             /\ \E q \in Call :
                  /\ CallMoves(c, q) /\ Proper(c, q)
                  /\ q.key = p.key /\ q.off = p.off /\ q.at = "reserve" /\ q.best = i /\ q.seen = p.seen
                  /\ q.excluded = (IF Keyed(p) THEN p.excluded \cup {i} ELSE p.excluded)
<1> DEFINE p == pick[c]
           i == At(p)
           excluded == IF Keyed(p) THEN p.excluded \cup {i} ELSE p.excluded
           q == [p EXCEPT !.at = "reserve", !.best = i,
                          !.excluded = IF Keyed(p) THEN @ \cup {i} ELSE @]
<1>1. /\ Eligible(c) /\ Looking(c) /\ balance = "ring_hash" /\ pick' = [pick EXCEPT ![c] = q]
      /\ UNCHANGED <<balance, weight, health, inflight, cur, hold, turns, calm, tally>>
      /\ rot' = IF Keyed(p) THEN rot ELSE (rot + 1) % N
  BY DEF LookAlongRing, Eligible
<1>2. /\ p.at = "look" /\ p \in Call /\ Proper(c, p) /\ i \in Targets /\ i = LookAt(p, p.off)
      /\ p.off \in Nat /\ p.off < Size(p) /\ Size(p) \in Nat
  BY <1>1, Meets
<1>3. /\ excluded \in SUBSET Targets
      /\ q = [p EXCEPT !.at = "reserve", !.best = i, !.excluded = excluded]
  <2> HIDE DEF i
  <2> QED BY <1>2 DEF Call
<1>0. rot' \in Targets /\ cur' \in [Targets -> Int]
  BY <1>1, TurnsRound, OrderlyIs DEF Placed
<1> HIDE DEF q, excluded, i, p
<1>4. /\ q \in Call /\ q.at = "reserve" /\ q.key = p.key /\ q.off = p.off
      /\ q.best = i /\ q.excluded = excluded /\ q.seen = p.seen
  <2>1. q = Rebuild(p, "reserve", p.off, i, p.fewest, p.total, excluded, p.seen)
    BY <1>2, <1>3, Fields DEF Rebuild
  <2>2. Fills("reserve", p.off, i, p.fewest, p.total, excluded, p.seen)
    BY <1>2, <1>3, Fields DEF Fills
  <2>3. Becomes(q, p, "reserve", p.off, i, p.fewest, p.total, excluded, p.seen)
    BY <1>2, <2>1, <2>2, Rebuilt, Zenon
  <2> QED BY <1>2, <2>3 DEF Becomes
<1>5. Size(q) = Size(p) /\ (Keyed(q) <=> Keyed(p)) /\ At(q) = i
  BY <1>2, <1>4 DEF Size, Keyed, At, LookAt
<1>6. Proper(c, q)
  BY <1>1, <1>2, <1>4, <1>5 DEF Proper
<1>7. CallMoves(c, q)
  BY <1>0, <1>1, <1>2 DEF CallMoves, p
<1> QED BY <1>1, <1>4, <1>6, <1>7 DEF p, i, excluded

LEMMA SettleIs ==
  ASSUME Orderly, NEW c \in Callers, Settle(c)
  PROVE  LET p == pick[c]
         IN  /\ p.at = "look" /\ p.off = Size(p) /\ p.best \in Targets /\ balance # "ring_hash"
             /\ cur' = (IF balance = "round_robin" THEN [cur EXCEPT ![p.best] = @ - p.total] ELSE cur)
             /\ \E q \in Call :
                  /\ CallMoves(c, q) /\ Proper(c, q)
                  /\ q.key = p.key /\ q.off = p.off /\ q.at = "reserve" /\ q.best = p.best
                  /\ q.fewest = p.fewest /\ q.total = p.total /\ q.first = p.first
                  /\ q.seen = p.seen /\ q.excluded = p.excluded
<1> DEFINE p == pick[c]
           q == [p EXCEPT !.at = "reserve"]
<1>1. /\ p \in Call /\ Proper(c, p) /\ Size(p) \in Nat /\ cur \in [Targets -> Int]
      /\ pick \in [Callers -> Call]
  BY OrderlyIs DEF Orderly, TypeOK
<1>2. /\ p.at = "look" /\ p.off = Size(p) /\ p.best # Nobody
      /\ UNCHANGED <<balance, weight, health, inflight, hold, turns, calm, tally>>
      /\ cur' = (IF balance = "round_robin" THEN [cur EXCEPT ![p.best] = @ - p.total] ELSE cur)
      /\ rot' = IF balance = "least_connections" THEN (rot + 1) % N ELSE rot
      /\ pick' = [pick EXCEPT ![c] = q]
  BY <1>1 DEF Settle
<1> HIDE DEF p
<1>3. p.best \in Targets /\ balance # "ring_hash"
  BY <1>1, <1>2, Fields DEF Proper
<1>4. rot' \in Targets /\ cur' \in [Targets -> Int]
  <2>1. p.total \in Nat
    BY <1>1, Fields
  <2> QED BY <1>1, <1>2, <1>3, <2>1, TurnsRound, OrderlyIs DEF Placed
<1> HIDE DEF q
<1>5. /\ q \in Call /\ q.at = "reserve" /\ q.key = p.key /\ q.off = p.off /\ q.best = p.best
      /\ q.fewest = p.fewest /\ q.total = p.total /\ q.first = p.first
      /\ q.seen = p.seen /\ q.excluded = p.excluded
  <2>1. q = Rebuild(p, "reserve", p.off, p.best, p.fewest, p.total, p.excluded, p.seen)
    BY <1>1, Fields DEF Rebuild, q
  <2>2. Fills("reserve", p.off, p.best, p.fewest, p.total, p.excluded, p.seen)
    BY <1>1, Fields DEF Fills
  <2>3. Becomes(q, p, "reserve", p.off, p.best, p.fewest, p.total, p.excluded, p.seen)
    BY <1>1, <2>1, <2>2, Rebuilt, Zenon
  <2> QED BY <2>3 DEF Becomes
<1>6. Size(q) = Size(p)
  BY <1>5 DEF Size, Keyed
<1>7. Proper(c, q)
  BY <1>1, <1>2, <1>3, <1>5, <1>6 DEF Proper, Keyed
<1>8. CallMoves(c, q)
  BY <1>2, <1>4 DEF CallMoves, p
<1> QED BY <1>2, <1>3, <1>5, <1>7, <1>8 DEF p

LEMMA FailIs ==
  ASSUME Orderly, NEW c \in Callers, Fail(c)
  PROVE  /\ pick[c].at = "look" /\ pick[c].off = Size(pick[c]) /\ pick[c].best = Nobody
         /\ CallMoves(c, NoCall) /\ NoCall \in Call /\ Proper(c, NoCall) /\ cur' = cur
<1>1. rot' \in Targets /\ cur' \in [Targets -> Int]
  BY TurnsRound, OrderlyIs DEF Fail, Placed
<1>2. pick[c].at = "look" /\ pick[c].off = Size(pick[c]) /\ pick[c].best = Nobody
  BY DEF Fail
<1>3. CallMoves(c, NoCall) /\ cur' = cur
  BY <1>1, <1>2 DEF Fail, CallMoves
<1> QED BY <1>2, <1>3, Quiet, QuietProper, OrderlyIs

LEMMA RefuseIs ==
  ASSUME Orderly, NEW c \in Callers, Refuse(c)
  PROVE  LET p == pick[c]
         IN  /\ p.at = "reserve" /\ p.best \in Targets /\ ~Admits(p.best) /\ rot' = rot
             /\ \E q \in Call :
                  /\ CallMoves(c, q) /\ Proper(c, q)
                  /\ q.key = p.key /\ q.at = "look" /\ q.best = Nobody /\ q.first = p.first
                  /\ q.seen = p.seen \cup {p.best}
                  /\ IF balance = "ring_hash" THEN q.off = p.off + 1 /\ q.excluded = p.excluded
                     ELSE q.off = 0 /\ q.excluded = p.excluded \cup {p.best}
<1> DEFINE p == pick[c]
           ring == balance = "ring_hash"
           seen == p.seen \cup {p.best}
           off == IF ring THEN p.off + 1 ELSE 0
           fewest == IF ring THEN p.fewest ELSE 0
           total == IF ring THEN p.total ELSE 0
           excluded == IF ring THEN p.excluded ELSE p.excluded \cup {p.best}
           r == IF ring THEN Onward(p) ELSE Anew(p)
           q == [r EXCEPT !.seen = @ \cup {p.best}]
<1>1. /\ p \in Call /\ Proper(c, p) /\ Size(p) \in Nat /\ cur \in [Targets -> Int]
  BY OrderlyIs
<1>2. /\ p.at = "reserve" /\ ~Admits(p.best)
      /\ UNCHANGED <<balance, weight, health, inflight, rot, hold, turns, calm, tally>>
      /\ cur' = (IF balance = "round_robin" THEN [cur EXCEPT ![p.best] = @ + p.total] ELSE cur)
      /\ pick' = [pick EXCEPT ![c] = q]
  BY DEF Refuse
<1> HIDE DEF p
<1>3. p.best \in Targets
  BY <1>1, <1>2 DEF Proper
<1>4. cur' \in [Targets -> Int] /\ rot' \in Targets
  <2>1. p.total \in Nat
    BY <1>1, Fields
  <2> QED BY <1>1, <1>2, <1>3, <2>1, OrderlyIs DEF Placed
<1>5. q = Rebuild(p, "look", off, Nobody, fewest, total, excluded, seen)
  <2>1. CASE ring
    BY <1>1, <2>1, Fields DEF Rebuild, Onward, Advanced
  <2>2. CASE ~ring
    BY <1>1, <2>2, Fields DEF Rebuild, Anew
  <2> QED BY <2>1, <2>2
<1>6. Fills("look", off, Nobody, fewest, total, excluded, seen)
  BY <1>1, <1>3, Fields DEF Fills
<1> HIDE DEF r, q, off, fewest, total, excluded, seen
<1>7. Becomes(q, p, "look", off, Nobody, fewest, total, excluded, seen)
  BY <1>1, <1>5, <1>6, Rebuilt, Zenon
<1>8. /\ q \in Call /\ q.at = "look" /\ q.key = p.key /\ q.off = off /\ q.best = Nobody
      /\ q.first = p.first /\ q.seen = seen /\ q.excluded = excluded
  BY <1>7 DEF Becomes
<1>9. Size(q) = Size(p)
  BY <1>8 DEF Size, Keyed
<1>10. off <= Size(p)
  BY <1>1, <1>2, Fields DEF Proper, off
<1>11. Proper(c, q)
  BY <1>1, <1>2, <1>8, <1>9, <1>10 DEF Proper
<1>12. CallMoves(c, q)
  BY <1>2, <1>4 DEF CallMoves, p
<1> QED BY <1>2, <1>3, <1>8, <1>11, <1>12 DEF p, seen, off, excluded

LEMMA PickIs ==
  ASSUME Orderly, NEW c \in Callers, NEW key \in Keys, Pick(c, key)
  PROVE  /\ Unlocked /\ cur' = cur /\ rot' = rot
         /\ \E q \in Call :
              /\ CallMoves(c, q) /\ Proper(c, q)
              /\ q.key = key /\ q.at = "look" /\ q.off = 0 /\ q.best = Nobody /\ q.total = 0
              /\ q.seen = {} /\ q.excluded = {}
              /\ balance = "least_connections" => q.first = inflight
<1> DEFINE first == IF balance = "least_connections" THEN inflight ELSE [i \in Targets |-> 0]
           q == [NoCall EXCEPT !.at = "look", !.key = key,
                               !.first = IF balance = "least_connections" THEN inflight ELSE @]
<1>1. /\ Unlocked /\ pick[c].at = "idle" /\ hold[c] = Nobody /\ pick' = [pick EXCEPT ![c] = q]
      /\ UNCHANGED <<balance, weight, health, inflight, cur, rot, hold, turns, calm, tally>>
  BY DEF Pick
<1>2. key \in {NoKey} \cup Nat
  <2>1. Len(Placement) \in Nat /\ key \in {NoKey} \cup 0 .. Len(Placement)
    BY PickersAssumption
  <2> QED BY <2>1
<1>3. first \in [Targets -> Nat]
  BY OrderlyIs
<1>4. q = [at |-> "look", key |-> key, off |-> 0, best |-> Nobody, fewest |-> 0, total |-> 0,
           excluded |-> {}, seen |-> {}, first |-> first]
  <2>1. q = [NoCall EXCEPT !.at = "look", !.key = key, !.first = first]
    BY Quiet
  <2> HIDE DEF q, first
  <2> QED BY <2>1 DEF NoCall
<1> HIDE DEF q, first
<1>5. /\ q \in Call /\ q.key = key /\ q.at = "look" /\ q.off = 0 /\ q.best = Nobody /\ q.total = 0
      /\ q.seen = {} /\ q.excluded = {} /\ q.first = first
  BY <1>2, <1>3, <1>4 DEF Call
<1>6. Size(q) \in Nat
  BY OrderlyIs
<1>7. Proper(c, q)
  BY <1>1, <1>5, <1>6 DEF Proper
<1>8. CallMoves(c, q)
  BY <1>1, OrderlyIs DEF CallMoves, Placed
<1> QED BY <1>1, <1>5, <1>7, <1>8 DEF first

LEMMA ReportersFinite ==
  ASSUME NEW i
  PROVE  IsFiniteSet(Reporters(i)) /\ Cardinality(Reporters(i)) \in Nat
<1>1. Reporters(i) \in SUBSET Callers
  BY DEF Reporters
<1> HIDE DEF Reporters
<1>2. IsFiniteSet(Reporters(i))
  BY <1>1, Numbers, FS_Subset
<1> QED BY <1>2, FS_CardinalityType

LEMMA ReserveOrderly ==
  ASSUME Orderly, NEW c \in Callers, Reserve(c)
  PROVE  /\ Orderly' /\ pick[c].best \in Targets /\ hold[c] = Nobody
         /\ \A d \in Callers : pick'[d] = NoCall
<1> DEFINE i == pick[c].best
<1>1. /\ pick[c].at = "reserve" /\ Admits(i) /\ inflight' = [inflight EXCEPT ![i] = @ + 1]
      /\ hold' = [hold EXCEPT ![c] = i] /\ pick' = [pick EXCEPT ![c] = NoCall]
      /\ tally' = IF calm /\ balance = "round_robin" THEN [tally EXCEPT ![i] = @ + 1] ELSE tally
      /\ UNCHANGED <<balance, weight, health, cur, rot, turns, calm>>
  BY DEF Reserve
<1>2. /\ i \in Targets /\ hold[c] = Nobody /\ inflight \in [Targets -> Nat]
      /\ tally \in [Targets -> Nat] /\ hold \in [Callers -> Targets \cup {Nobody}]
  BY <1>1, OrderlyIs DEF Proper, Orderly, TypeOK
<1> HIDE DEF i
<1>3. /\ pick' \in [Callers -> Call] /\ Sole' /\ \A d \in Callers : pick'[d] = NoCall
  <2>1. pick[c].at # "idle" /\ NoCall \in Call
    BY <1>1, Quiet
  <2>2. /\ pick' \in [Callers -> Call] /\ Sole' /\ pick'[c] = NoCall
        /\ \A d \in Callers : d # c => pick'[d] = NoCall
    BY <1>1, <2>1, Replaces
  <2> QED BY <2>2
<1>4. TypeOK'
  <2>1. inflight' \in [Targets -> Nat] /\ tally' \in [Targets -> Nat]
        /\ hold' \in [Callers -> Targets \cup {Nobody}]
    BY <1>1, <1>2
  <2> QED BY <1>1, <1>3, <2>1 DEF Orderly, TypeOK
<1>5. ASSUME NEW d \in Callers PROVE Proper(d, pick[d])'
  <2>1. Proper(d, NoCall)
    BY OrderlyIs, QuietProper
  <2>2. \A p : Size(p)' = Size(p)
    BY <1>1, StillLooks
  <2> QED BY <1>1, <1>3, <2>1, <2>2, Quiet, Unkeyed DEF Proper, Keyed
<1>6. ASSUME NEW j \in Targets PROVE Cardinality(Reporters(j))' <= inflight'[j]
  <2>1. Cardinality(Reporters(j)) <= inflight[j]
    BY DEF Orderly, Counted
  <2>2. CASE j = i
    <3>1. Reporters(j)' \in SUBSET (Reporters(j) \cup {c})
      BY <1>1, <1>2 DEF Reporters
    <3>2. /\ Cardinality(Reporters(j))' <= Cardinality(Reporters(j) \cup {c})
          /\ Cardinality(Reporters(j) \cup {c}) <= Cardinality(Reporters(j)) + 1
          /\ Cardinality(Reporters(j) \cup {c}) \in Nat /\ Cardinality(Reporters(j))' \in Nat
          /\ Cardinality(Reporters(j)) \in Nat
      <4> DEFINE new == Reporters(j)'
                 old == Reporters(j)
      <4>1. IsFiniteSet(old) /\ Cardinality(old) \in Nat
        BY ReportersFinite
      <4>2. new \in SUBSET (old \cup {c})
        BY <3>1
      <4> HIDE DEF new, old
      <4>3. IsFiniteSet(old \cup {c}) /\ Cardinality(old \cup {c}) <= Cardinality(old) + 1
        <5>1. /\ IsFiniteSet(old \cup {c})
              /\ Cardinality(old \cup {c}) = IF c \in old THEN Cardinality(old) ELSE Cardinality(old) + 1
          BY <4>1, FS_AddElement, Zenon
        <5> QED BY <4>1, <5>1
      <4>4. Cardinality(old \cup {c}) \in Nat
        BY <4>3, FS_CardinalityType
      <4>5. IsFiniteSet(new) /\ Cardinality(new) <= Cardinality(old \cup {c})
        BY <4>2, <4>3, FS_Subset
      <4>6. Cardinality(new) \in Nat
        BY <4>5, FS_CardinalityType
      <4> QED BY <4>1, <4>3, <4>4, <4>5, <4>6 DEF new, old
    <3>3. inflight'[j] = inflight[j] + 1
      BY <1>1, <1>2, <2>2
    <3> QED BY <1>2, <2>1, <3>2, <3>3
  <2>3. CASE j # i
    <3>1. Reporters(j)' = Reporters(j)
      BY <1>1, <1>2, <2>3, Unkeyed DEF Reporters
    <3> QED BY <1>1, <1>2, <2>1, <2>3, <3>1
  <2> QED BY <2>2, <2>3
<1> QED BY <1>2, <1>3, <1>4, <1>5, <1>6 DEF Orderly, Counted, i

LEMMA DoneOrderly ==
  ASSUME Orderly, NEW c \in Callers, Done(c)
  PROVE  /\ Orderly' /\ hold' \in [Callers -> Targets \cup {Nobody}]
         /\ inflight' \in [Targets -> Nat] /\ \A j \in Targets : inflight'[j] <= inflight[j]
<1> DEFINE i == hold[c]
<1>1. /\ i # Nobody /\ hold' = [hold EXCEPT ![c] = Nobody]
      /\ inflight' = IF c \in Mirrors THEN inflight ELSE [inflight EXCEPT ![i] = @ - 1]
      /\ UNCHANGED <<balance, weight, health, cur, rot, pick, turns, calm, tally>>
  BY DEF Done
<1>2. /\ hold \in [Callers -> Targets \cup {Nobody}] /\ inflight \in [Targets -> Nat] /\ i \in Targets
  BY <1>1 DEF Orderly, TypeOK
<1>3. ASSUME NEW j \in Targets
      PROVE  /\ Cardinality(Reporters(j)) \in Nat /\ Cardinality(Reporters(j))' \in Nat
             /\ Cardinality(Reporters(j)) <= inflight[j]
             /\ Cardinality(Reporters(j))' <= Cardinality(Reporters(j))
             /\ j = i /\ c \notin Mirrors => Cardinality(Reporters(j))' = Cardinality(Reporters(j)) - 1
  <2> DEFINE new == Reporters(j)'
             old == Reporters(j)
  <2>1. IsFiniteSet(old) /\ Cardinality(old) \in Nat /\ Cardinality(old) <= inflight[j]
    BY ReportersFinite DEF Orderly, Counted
  <2>2. new = old \ {c}
    BY <1>1, <1>2, Unkeyed DEF Reporters
  <2>3. j = i /\ c \notin Mirrors => c \in old
    BY DEF Reporters
  <2> HIDE DEF new, old
  <2>4. /\ IsFiniteSet(new)
        /\ Cardinality(new) = IF c \in old THEN Cardinality(old) - 1 ELSE Cardinality(old)
    BY <2>1, <2>2, FS_RemoveElement
  <2>5. Cardinality(new) \in Nat
    BY <2>4, FS_CardinalityType
  <2> QED BY <2>1, <2>3, <2>4, <2>5 DEF new, old
<1> HIDE DEF i
<1>4. inflight' \in [Targets -> Nat] /\ \A j \in Targets : inflight'[j] <= inflight[j]
  <2>1. CASE c \in Mirrors
    BY <1>1, <1>2, <2>1
  <2>2. CASE c \notin Mirrors
    <3>1. inflight[i] >= 1
      BY <1>2, <1>3, <2>2
    <3> QED BY <1>1, <1>2, <2>2, <3>1
  <2> QED BY <2>1, <2>2
<1>5. Counted'
  <2> SUFFICES ASSUME NEW j \in Targets PROVE Cardinality(Reporters(j))' <= inflight'[j]
    BY DEF Counted
  <2>1. CASE j = i /\ c \notin Mirrors
    <3>1. inflight'[j] = inflight[j] - 1
      BY <1>1, <1>2, <2>1
    <3> QED BY <1>2, <1>3, <2>1, <3>1
  <2>2. CASE ~(j = i /\ c \notin Mirrors)
    <3>1. inflight'[j] = inflight[j]
      BY <1>1, <1>2, <2>2
    <3> QED BY <1>2, <1>3, <3>1
  <2> QED BY <2>1, <2>2
<1>6. hold' \in [Callers -> Targets \cup {Nobody}] /\ hold'[c] = Nobody
      /\ \A d \in Callers : hold[d] = Nobody => hold'[d] = Nobody
  BY <1>1, <1>2
<1>7. TypeOK'
  BY <1>1, <1>4, <1>6 DEF Orderly, TypeOK
<1>8. ASSUME NEW d \in Callers PROVE Proper(d, pick[d])'
  <2>1. Proper(d, pick[d])
    BY OrderlyIs
  <2>2. \A p : Size(p)' = Size(p) /\ Keyed(p)' = Keyed(p)
    BY <1>1, StillLooks
  <2>3. \A p, off : LookAt(p, off)' = LookAt(p, off)
    BY <1>1, StillLooks
  <2> QED BY <1>1, <1>6, <2>1, <2>2, <2>3 DEF Proper, At
<1>9. Sole'
  BY <1>1 DEF Orderly, Sole
<1> QED BY <1>4, <1>5, <1>6, <1>7, <1>8, <1>9 DEF Orderly

LEMMA TurnOrderly ==
  ASSUME Orderly, NEW i \in Targets, Turn(i)
  PROVE  Orderly'
<1>1. /\ turns' = turns + 1 /\ tally' = [j \in Targets |-> 0] /\ calm' \in BOOLEAN
      /\ \E to \in {"up", "probing", "out"} : health' = [health EXCEPT ![i] = to]
      /\ UNCHANGED <<balance, weight, inflight, cur, rot, pick, hold>>
  BY DEF Turn, Orderly, TypeOK
<1>2. health' \in [Targets -> {"up", "probing", "out"}]
  BY <1>1 DEF Orderly, TypeOK
<1>3. TypeOK'
  BY <1>1, <1>2 DEF Orderly, TypeOK
<1>4. ASSUME NEW d \in Callers PROVE Proper(d, pick[d])'
  <2>1. Proper(d, pick[d])
    BY OrderlyIs
  <2>2. \A p : Size(p)' = Size(p) /\ Keyed(p)' = Keyed(p)
    BY <1>1, StillLooks
  <2>3. \A p, off : LookAt(p, off)' = LookAt(p, off)
    BY <1>1, StillLooks
  <2> QED BY <1>1, <2>1, <2>2, <2>3 DEF Proper, At
<1>5. Sole' /\ Counted'
  BY <1>1 DEF Orderly, Sole, Counted, Reporters
<1> QED BY <1>3, <1>4, <1>5 DEF Orderly

LEMMA InitOrderly ==
  ASSUME Init
  PROVE  Orderly
<1>1. pick = [c \in Callers |-> NoCall] /\ hold = [c \in Callers |-> Nobody]
      /\ inflight = [j \in Targets |-> 0]
  BY DEF Init
<1>2. TypeOK
  BY Quiet, Numbers DEF Init, TypeOK
<1>3. Placed
  BY <1>2 DEF TypeOK, Placed
<1>4. ASSUME NEW d \in Callers PROVE Proper(d, pick[d])
  BY <1>1, <1>3, QuietProper
<1>5. ASSUME NEW j \in Targets PROVE Cardinality(Reporters(j)) <= inflight[j]
  <2>1. Reporters(j) = {}
    BY <1>1, Unkeyed DEF Reporters
  <2>2. Cardinality(Reporters(j)) = 0
    BY <2>1, FS_EmptySet
  <2> QED BY <1>1, <2>2
<1>6. Sole
  BY <1>1, Quiet DEF Sole
<1> QED BY <1>2, <1>4, <1>5, <1>6 DEF Orderly, Counted

-----------------------------------------------------------------------------
(* What a call knows of those it has met. *)

Knows(p) == Passes(p) /\ (balance = "least_connections" /\ p.at # "idle" => Compares(p))

Known == \A c \in Callers : Knows(pick[c])

LEMMA KnownIs == Known <=> Passed /\ Compared
  BY DEF Known, Knows, Passed, Compared

LEMMA QuietKnows == Knows(NoCall)
<1>1. ~Keyed(NoCall)
  BY Quiet DEF Keyed
<1> QED BY <1>1, Quiet DEF Knows, Passes

LEMMA SameKey ==
  ASSUME NEW p, NEW q, q.key = p.key
  PROVE  /\ Keyed(q) <=> Keyed(p)
         /\ \A off : LookAt(q, off) = LookAt(p, off)
  BY DEF Keyed, LookAt

LEMMA MovesKnown ==
  ASSUME Orderly, NEW c \in Callers, NEW q \in Call, CallMoves(c, q), Knows(q),
         rot' = rot \/ balance = "ring_hash" \/ q.at # "look"
  PROVE  Known'
<1>1. pick'[c] = q /\ \A d \in Callers : d # c => pick'[d] = NoCall
  BY Replaces DEF CallMoves
<1>2. weight' = weight /\ balance' = balance /\ inflight' = inflight
  BY DEF CallMoves
<1>3. /\ InRotation' = InRotation /\ \A p : Keyed(p)' = Keyed(p)
      /\ \A p, off : Keyed(p) \/ rot' = rot => LookAt(p, off)' = LookAt(p, off)
  BY <1>2, StillLooks
<1>4. Knows(pick[c])'
  <2>1. Passes(pick[c])'
    BY <1>1, <1>2, <1>3 DEF Knows, Passes
  <2>2. ASSUME balance = "least_connections", q.at # "idle" PROVE Compares(pick[c])'
    <3>1. Compares(q)
      BY <2>2 DEF Knows
    <3>2. q.at = "look" => \A off : LookAt(q, off)' = LookAt(q, off)
      BY <1>3, <2>2
    <3> QED BY <1>1, <1>2, <1>3, <3>1, <3>2 DEF Compares, Outranks
  <2> QED BY <1>1, <1>2, <2>1, <2>2 DEF Knows
<1>5. ASSUME NEW d \in Callers, d # c PROVE Knows(pick[d])'
  <2>1. ~Keyed(NoCall)
    BY Quiet DEF Keyed
  <2> QED BY <1>1, <1>3, <1>5, <2>1, Quiet DEF Knows, Passes
<1> QED BY <1>4, <1>5 DEF Known

LEMMA SkipKnown ==
  ASSUME Orderly, Known, NEW c \in Callers, Skip(c)
  PROVE  Known'
<1> DEFINE p == pick[c]
           i == At(p)
<1>1. /\ Looking(c) /\ (i \in p.excluded \/ ~Available(i)) /\ rot' = rot
      /\ \E q \in Call :
           /\ CallMoves(c, q) /\ Proper(c, q) /\ Same(p, q)
           /\ q.off = p.off + 1 /\ q.best = p.best /\ q.total = p.total /\ q.fewest = p.fewest
           /\ q.seen = (IF i \in p.excluded THEN p.seen ELSE p.seen \cup {i})
           /\ q.excluded = (IF Keyed(p) THEN p.excluded \cup {i} ELSE p.excluded)
  BY SkipIs
<1>2. /\ p.at = "look" /\ i = LookAt(p, p.off) /\ p.off \in Nat
  BY <1>1, Meets
<1>3. Knows(p)
  BY DEF Known
<1> HIDE DEF p, i
<1>4. PICK q \in Call :
           /\ CallMoves(c, q) /\ Proper(c, q) /\ Same(p, q)
           /\ q.off = p.off + 1 /\ q.best = p.best /\ q.total = p.total /\ q.fewest = p.fewest
           /\ q.seen = (IF i \in p.excluded THEN p.seen ELSE p.seen \cup {i})
           /\ q.excluded = (IF Keyed(p) THEN p.excluded \cup {i} ELSE p.excluded)
  BY <1>1
<1>5. /\ q.at = "look" /\ q.key = p.key /\ q.first = p.first
      /\ Keyed(q) <=> Keyed(p)
      /\ \A off : LookAt(q, off) = LookAt(p, off)
  BY <1>4, SameKey DEF Same
<1>6. p.excluded \subseteq p.seen /\ i \in q.seen /\ p.seen \subseteq q.seen
  BY <1>2, <1>3, <1>4 DEF Knows, Passes
<1>7. \A off \in 0 .. q.off - 1 : off = p.off \/ off \in 0 .. p.off - 1
  BY <1>2, <1>4
<1>8. Passes(q)
  BY <1>2, <1>3, <1>4, <1>5, <1>6, <1>7 DEF Knows, Passes
<1>9. balance = "least_connections" => Compares(q)
  <2> SUFFICES ASSUME balance = "least_connections" PROVE Compares(q)
    OBVIOUS
  <2>1. Compares(p)
    BY <1>2, <1>3 DEF Knows
  <2>2. \A j : Outranks(p, j) => Outranks(q, j)
    BY <1>4, <1>5, <1>6 DEF Outranks
  <2>3. Outranks(q, i)
    BY <1>6 DEF Outranks
  <2> QED BY <1>2, <1>4, <1>5, <1>7, <2>1, <2>2, <2>3 DEF Compares
<1> QED BY <1>1, <1>4, <1>8, <1>9, MovesKnown DEF Knows

LEMMA LookInTurnKnown ==
  ASSUME Orderly, Known, NEW c \in Callers, LookInTurn(c)
  PROVE  Known'
<1> DEFINE p == pick[c]
           i == At(p)
           Goes(q) ==
             /\ CallMoves(c, q) /\ Proper(c, q) /\ Same(p, q)
             /\ q.off = p.off + 1 /\ q.total = p.total + weight[i]
             /\ q.best = (IF p.best = Nobody \/ cur'[i] > cur'[p.best] THEN i ELSE p.best)
             /\ q.seen = p.seen /\ q.excluded = p.excluded
<1>1. Eligible(c) /\ balance = "round_robin" /\ rot' = rot /\ \E q \in Call : Goes(q)
  BY LookInTurnIs
<1>2. Looking(c)
  BY <1>1 DEF Eligible
<1>3. p.at = "look" /\ i \in Targets /\ Knows(p)
  BY <1>2, Meets DEF Known
<1> HIDE DEF p, i
<1>4. PICK q \in Call : Goes(q)
  BY <1>1
<1>5. q.best # Nobody /\ q.at = "look" /\ ~Keyed(q)
  BY <1>1, <1>3, <1>4, Unkeyed DEF Same, Keyed
<1>6. Knows(q)
  BY <1>1, <1>3, <1>4, <1>5 DEF Knows, Passes
<1> QED BY <1>1, <1>4, <1>6, MovesKnown

LEMMA LookForFewestKnown ==
  ASSUME Orderly, Known, NEW c \in Callers, LookForFewest(c)
  PROVE  Known'
<1> DEFINE p == pick[c]
           i == At(p)
           Goes(q) ==
             /\ CallMoves(c, q) /\ Proper(c, q) /\ Same(p, q)
             /\ q.off = p.off + 1
             /\ q.best = (IF Prefers(p, i) THEN i ELSE p.best)
             /\ q.fewest = (IF Prefers(p, i) THEN inflight[i] ELSE p.fewest)
             /\ q.seen = p.seen /\ q.excluded = p.excluded
<1>1. Eligible(c) /\ balance = "least_connections" /\ rot' = rot /\ \E q \in Call : Goes(q)
  BY LookForFewestIs
<1>2. Looking(c)
  BY <1>1 DEF Eligible
<1>3. /\ p.at = "look" /\ i \in Targets /\ Knows(p) /\ i = LookAt(p, p.off) /\ p.off \in Nat
      /\ p \in Call
  BY <1>2, Meets DEF Known
<1> HIDE DEF p, i
<1>4. PICK q \in Call : Goes(q)
  BY <1>1
<1>5. /\ q.at = "look" /\ q.key = p.key /\ q.first = p.first
      /\ \A off : LookAt(q, off) = LookAt(p, off)
  BY <1>4, SameKey DEF Same
<1>6. q.best # Nobody /\ ~Keyed(q)
  BY <1>1, <1>3, <1>4, Unkeyed DEF Prefers, Keyed
<1>7. Passes(q)
  BY <1>3, <1>4, <1>5, <1>6 DEF Knows, Passes
<1>8. Compares(p) /\ Passes(p) /\ ~Keyed(p)
  BY <1>1, <1>3 DEF Knows, Keyed
<1>9. /\ inflight[i] \in Nat /\ p.fewest \in Nat /\ \A j \in Targets : p.first[j] \in Nat
      /\ weight \in [Targets -> Nat] /\ p.best \in Targets \cup {Nobody}
  BY <1>3, Fields, OrderlyIs
<1>10. inflight[i] <= p.first[i]
  BY <1>3, <1>8 DEF Compares
<1>11. ASSUME NEW off \in 0 .. q.off - 1 PROVE Outranks(q, LookAt(q, off))
  <2> DEFINE j == LookAt(p, off)
  <2> SUFFICES Outranks(q, j)
    BY <1>5
  <2>1. off = p.off \/ off \in 0 .. p.off - 1
    BY <1>3, <1>4
  <2>2. j \in Targets
    <3>1. p.off < Size(p) /\ Size(p) \in Nat /\ Placed
      BY <1>2, Meets, OrderlyIs DEF p
    <3>2. off \in 0 .. Size(p) - 1
      BY <1>3, <2>1, <3>1
    <3> QED BY <3>1, <3>2, LooksAtTargets
  <2>3. /\ p.best # Nobody /\ off \in 0 .. p.off - 1 => Outranks(p, j)
        /\ p.best = Nobody /\ off \in 0 .. p.off - 1 => j \in p.seen
    BY <1>1, <1>3, <1>8 DEF Compares, Passes
  <2>4. off = p.off => j = i
    BY <1>3
  <2> HIDE DEF j
  <2>5. CASE Prefers(p, i)
    <3>1. q.best = i /\ q.fewest = inflight[i] /\ q.seen = p.seen
      BY <1>4, <2>5
    <3>2. CASE off = p.off
      BY <1>3, <1>5, <1>9, <1>10, <2>4, <3>1, <3>2 DEF Outranks
    <3>3. CASE off \in 0 .. p.off - 1
      <4>1. CASE p.best = Nobody
        BY <2>3, <3>1, <3>3, <4>1 DEF Outranks
      <4>2. CASE p.best # Nobody
        <5>1. /\ Outranks(p, j) /\ p.best \in Targets
              /\ inflight[i] < p.fewest \/ (inflight[i] = p.fewest /\ weight[i] > weight[p.best])
          BY <1>9, <2>3, <2>5, <3>3, <4>2 DEF Prefers
        <5>2. weight[i] \in Nat /\ weight[p.best] \in Nat /\ weight[j] \in Nat /\ p.first[j] \in Nat
          BY <1>3, <1>9, <2>2, <5>1
        <5> QED BY <1>5, <1>9, <3>1, <5>1, <5>2 DEF Outranks
      <4> QED BY <4>1, <4>2
    <3> QED BY <2>1, <3>2, <3>3
  <2>6. CASE ~Prefers(p, i)
    <3>1. q.best = p.best /\ q.fewest = p.fewest /\ q.seen = p.seen /\ p.best # Nobody
      BY <1>4, <2>6 DEF Prefers
    <3>2. CASE off = p.off
      <4>1. /\ p.best \in Targets
            /\ ~(inflight[i] < p.fewest) /\ ~(inflight[i] = p.fewest /\ weight[i] > weight[p.best])
        BY <1>9, <2>6, <3>1 DEF Prefers
      <4>2. weight[i] \in Nat /\ weight[p.best] \in Nat /\ p.first[i] \in Nat
        BY <1>3, <1>9, <4>1
      <4> QED BY <1>5, <1>9, <1>10, <2>4, <3>1, <3>2, <4>1, <4>2 DEF Outranks
    <3>3. CASE off \in 0 .. p.off - 1
      BY <1>5, <2>3, <3>1, <3>3 DEF Outranks
    <3> QED BY <2>1, <3>2, <3>3
  <2> QED BY <2>5, <2>6
<1>12. Compares(q)
  <2>1. inflight[q.best] <= q.fewest
    BY <1>3, <1>4, <1>6, <1>8, <1>9 DEF Compares
  <2> QED BY <1>5, <1>8, <1>11, <2>1 DEF Compares
<1> QED BY <1>1, <1>4, <1>7, <1>12, MovesKnown DEF Knows

LEMMA LookAlongRingKnown ==
  ASSUME Orderly, Known, NEW c \in Callers, LookAlongRing(c)
  PROVE  Known'
<1> DEFINE p == pick[c]
           i == At(p)
           Goes(q) ==
             /\ CallMoves(c, q) /\ Proper(c, q)
             /\ q.key = p.key /\ q.off = p.off /\ q.at = "reserve" /\ q.best = i /\ q.seen = p.seen
             /\ q.excluded = (IF Keyed(p) THEN p.excluded \cup {i} ELSE p.excluded)
<1>1. Eligible(c) /\ balance = "ring_hash" /\ \E q \in Call : Goes(q)
  BY LookAlongRingIs
<1>2. Looking(c)
  BY <1>1 DEF Eligible
<1>3. p.at = "look" /\ Knows(p)
  BY <1>2, Meets DEF Known
<1> HIDE DEF p, i
<1>4. PICK q \in Call : Goes(q)
  BY <1>1
<1>5. /\ Keyed(q) <=> Keyed(p)
      /\ \A off : LookAt(q, off) = LookAt(p, off)
  BY <1>4, SameKey
<1>6. Knows(q)
  BY <1>1, <1>3, <1>4, <1>5 DEF Knows, Passes
<1> QED BY <1>1, <1>4, <1>6, MovesKnown

LEMMA SettleKnown ==
  ASSUME Orderly, Known, NEW c \in Callers, Settle(c)
  PROVE  Known'
<1> DEFINE p == pick[c]
           Goes(q) ==
             /\ CallMoves(c, q) /\ Proper(c, q)
             /\ q.key = p.key /\ q.off = p.off /\ q.at = "reserve" /\ q.best = p.best
             /\ q.fewest = p.fewest /\ q.total = p.total /\ q.first = p.first
             /\ q.seen = p.seen /\ q.excluded = p.excluded
<1>1. /\ p.at = "look" /\ p.off = Size(p) /\ p.best \in Targets /\ balance # "ring_hash"
      /\ \E q \in Call : Goes(q)
  BY SettleIs
<1>2. Knows(p)
  BY DEF Known
<1> HIDE DEF p
<1>3. PICK q \in Call : Goes(q)
  BY <1>1
<1>4. ~Keyed(q) /\ ~Keyed(p) /\ p.best # Nobody
  BY <1>1, Unkeyed DEF Keyed
<1>5. Passes(q)
  BY <1>1, <1>2, <1>3, <1>4 DEF Knows, Passes
<1>6. balance = "least_connections" => Compares(q)
  <2> SUFFICES ASSUME balance = "least_connections" PROVE Compares(q)
    OBVIOUS
  <2>1. Compares(p)
    BY <1>1, <1>2 DEF Knows
  <2>2. ASSUME NEW j \in InRotation PROVE Outranks(p, j)
    <3>1. PICK off \in 0 .. Size(p) - 1 : LookAt(p, off) = j
      BY OrderlyIs, LooksAtAll
    <3>2. off \in 0 .. p.off - 1
      BY <1>1
    <3> QED BY <1>1, <1>4, <2>1, <3>1, <3>2 DEF Compares
  <2> QED BY <1>3, <2>1, <2>2 DEF Compares, Outranks
<1> QED BY <1>3, <1>5, <1>6, MovesKnown DEF Knows

LEMMA RefuseKnown ==
  ASSUME Orderly, Known, NEW c \in Callers, Refuse(c)
  PROVE  Known'
<1> DEFINE p == pick[c]
           Goes(q) ==
             /\ CallMoves(c, q) /\ Proper(c, q)
             /\ q.key = p.key /\ q.at = "look" /\ q.best = Nobody /\ q.first = p.first
             /\ q.seen = p.seen \cup {p.best}
             /\ IF balance = "ring_hash" THEN q.off = p.off + 1 /\ q.excluded = p.excluded
                ELSE q.off = 0 /\ q.excluded = p.excluded \cup {p.best}
<1>1. p.at = "reserve" /\ p.best \in Targets /\ rot' = rot /\ \E q \in Call : Goes(q)
  BY RefuseIs
<1>2. Knows(p) /\ p \in Call /\ Proper(c, p)
  BY OrderlyIs DEF Known
<1> HIDE DEF p
<1>3. PICK q \in Call : Goes(q)
  BY <1>1
<1>4. /\ Keyed(q) <=> Keyed(p)
      /\ \A off : LookAt(q, off) = LookAt(p, off)
      /\ p.off \in Nat
  BY <1>2, <1>3, SameKey, Fields
<1>5. q.excluded \subseteq q.seen
  BY <1>1, <1>2, <1>3 DEF Knows, Passes
<1>6. CASE balance = "ring_hash"
  <2>1. Keyed(q) => \A off \in 0 .. q.off - 1 : LookAt(q, off) \in q.seen
    <3> SUFFICES ASSUME Keyed(q), NEW off \in 0 .. q.off - 1 PROVE LookAt(q, off) \in q.seen
      OBVIOUS
    <3>1. off = p.off \/ off \in 0 .. p.off - 1
      BY <1>3, <1>4, <1>6
    <3>2. CASE off = p.off
      BY <1>1, <1>2, <1>3, <1>4, <3>2 DEF Proper, At
    <3>3. CASE off \in 0 .. p.off - 1
      BY <1>2, <1>3, <1>4, <3>3 DEF Knows, Passes
    <3> QED BY <3>1, <3>2, <3>3
  <2>2. Knows(q)
    BY <1>3, <1>5, <1>6, <2>1 DEF Knows, Passes
  <2> QED BY <1>1, <1>3, <2>2, MovesKnown
<1>7. CASE balance # "ring_hash"
  <2>1. q.off = 0 /\ ~Keyed(q) /\ q.best = Nobody
    BY <1>3, <1>7 DEF Keyed
  <2>2. Passes(q)
    BY <1>3, <1>5, <2>1 DEF Passes
  <2>3. balance = "least_connections" => Compares(q)
    BY <1>1, <1>2, <1>3, <2>1 DEF Knows, Compares
  <2> QED BY <1>1, <1>3, <2>2, <2>3, MovesKnown DEF Knows
<1> QED BY <1>6, <1>7

LEMMA PickKnown ==
  ASSUME Orderly, Known, NEW c \in Callers, NEW key \in Keys, Pick(c, key)
  PROVE  Known'
<1> DEFINE Goes(q) ==
              /\ CallMoves(c, q) /\ Proper(c, q)
              /\ q.key = key /\ q.at = "look" /\ q.off = 0 /\ q.best = Nobody /\ q.total = 0
              /\ q.seen = {} /\ q.excluded = {}
              /\ balance = "least_connections" => q.first = inflight
<1>1. rot' = rot /\ \E q \in Call : Goes(q)
  BY PickIs
<1>2. PICK q \in Call : Goes(q)
  BY <1>1
<1>3. inflight \in [Targets -> Nat]
  BY OrderlyIs
<1>4. Knows(q)
  BY <1>2, <1>3 DEF Knows, Passes, Compares
<1> QED BY <1>1, <1>2, <1>4, MovesKnown

LEMMA FailKnown ==
  ASSUME Orderly, Known, NEW c \in Callers, Fail(c)
  PROVE  Known'
<1>1. CallMoves(c, NoCall) /\ NoCall \in Call
  BY FailIs
<1> QED BY <1>1, Quiet, QuietKnows, MovesKnown

(* The steps that change no call of Pick. *)
LEMMA OthersKnown ==
  ASSUME Orderly, Known, UNCHANGED << balance, weight, rot, pick >>,
         inflight' \in [Targets -> Nat], \A j \in Targets : inflight'[j] <= inflight[j]
  PROVE  Known'
<1>1. /\ InRotation' = InRotation /\ \A p : Keyed(p)' = Keyed(p)
      /\ \A p, off : LookAt(p, off)' = LookAt(p, off)
  BY StillLooks
<1>2. ASSUME NEW d \in Callers PROVE Passes(pick[d])'
  BY <1>1 DEF Known, Knows, Passes
<1>3. ASSUME NEW d \in Callers, balance = "least_connections", pick[d].at # "idle"
      PROVE  Compares(pick[d])'
  <2>1. Compares(pick[d]) /\ pick[d] \in Call
    BY <1>3, OrderlyIs DEF Known, Knows
  <2>2. /\ \A j \in Targets : pick[d].first[j] \in Nat
        /\ pick[d].fewest \in Nat /\ pick[d].best \in Targets \cup {Nobody}
        /\ inflight \in [Targets -> Nat]
    BY <2>1, Fields, OrderlyIs
  <2>3. \A j \in Targets : inflight'[j] <= pick[d].first[j]
    BY <2>1, <2>2 DEF Compares
  <2>4. pick[d].best # Nobody => inflight'[pick[d].best] <= pick[d].fewest
    BY <2>1, <2>2 DEF Compares
  <2> QED BY <1>1, <2>1, <2>3, <2>4 DEF Compares, Outranks
<1> QED BY <1>2, <1>3 DEF Known, Knows

LEMMA ReserveKnown ==
  ASSUME Orderly, Known, NEW c \in Callers, Reserve(c)
  PROVE  Known'
<1>1. balance' = balance /\ \A d \in Callers : pick'[d] = NoCall
  BY ReserveOrderly DEF Reserve
<1>2. ~Keyed(NoCall)'
  BY Quiet DEF Keyed
<1> QED BY <1>1, <1>2, Quiet DEF Known, Knows, Passes

-----------------------------------------------------------------------------
LEMMA StepOrderly ==
  ASSUME Orderly, NEW c \in Callers, Step(c)
  PROVE  Orderly'
<1>1. CASE Skip(c)
  <2>1. \E q \in Call : CallMoves(c, q) /\ Proper(c, q)
    BY <1>1, SkipIs
  <2> QED BY <2>1, MovesOrderly
<1>2. CASE LookInTurn(c)
  <2>1. \E q \in Call : CallMoves(c, q) /\ Proper(c, q)
    BY <1>2, LookInTurnIs
  <2> QED BY <2>1, MovesOrderly
<1>3. CASE LookForFewest(c)
  <2>1. \E q \in Call : CallMoves(c, q) /\ Proper(c, q)
    BY <1>3, LookForFewestIs
  <2> QED BY <2>1, MovesOrderly
<1>4. CASE LookAlongRing(c)
  <2>1. \E q \in Call : CallMoves(c, q) /\ Proper(c, q)
    BY <1>4, LookAlongRingIs
  <2> QED BY <2>1, MovesOrderly
<1>5. CASE Settle(c)
  <2>1. \E q \in Call : CallMoves(c, q) /\ Proper(c, q)
    BY <1>5, SettleIs
  <2> QED BY <2>1, MovesOrderly
<1>6. CASE Fail(c)
  BY <1>6, FailIs, MovesOrderly
<1>7. CASE Reserve(c)
  BY <1>7, ReserveOrderly
<1>8. CASE Refuse(c)
  <2>1. \E q \in Call : CallMoves(c, q) /\ Proper(c, q)
    BY <1>8, RefuseIs
  <2> QED BY <2>1, MovesOrderly
<1> QED BY <1>1, <1>2, <1>3, <1>4, <1>5, <1>6, <1>7, <1>8 DEF Step

LEMMA StepKnown ==
  ASSUME Orderly, Known, NEW c \in Callers, Step(c)
  PROVE  Known'
  BY SkipKnown, LookInTurnKnown, LookForFewestKnown, LookAlongRingKnown, SettleKnown, FailKnown,
     ReserveKnown, RefuseKnown DEF Step

LEMMA NextOrderly == Orderly /\ Known /\ [Next]_vars => Orderly' /\ Known'
<1> SUFFICES ASSUME Orderly, Known, [Next]_vars PROVE Orderly' /\ Known'
  OBVIOUS
<1>1. CASE UNCHANGED vars
  <2>1. UNCHANGED << balance, weight, health, inflight, cur, rot, pick, hold, turns, calm, tally >>
    BY <1>1 DEF vars
  <2>2. Known'
    <3>1. inflight \in [Targets -> Nat]
      BY OrderlyIs
    <3> QED BY <2>1, <3>1, OthersKnown
  <2>3. ASSUME NEW d \in Callers PROVE Proper(d, pick[d])'
    <3>1. Proper(d, pick[d])
      BY OrderlyIs
    <3>2. /\ \A p : Size(p)' = Size(p) /\ Keyed(p)' = Keyed(p)
          /\ \A p, off : LookAt(p, off)' = LookAt(p, off)
      BY <2>1, StillLooks
    <3> QED BY <2>1, <3>1, <3>2 DEF Proper, At
  <2>4. TypeOK' /\ Sole' /\ Counted'
    BY <2>1 DEF Orderly, TypeOK, Sole, Counted, Reporters
  <2> QED BY <2>2, <2>3, <2>4 DEF Orderly
<1>2. CASE Next
  <2>1. ASSUME NEW c \in Callers, Step(c) PROVE Orderly' /\ Known'
    BY <2>1, StepOrderly, StepKnown
  <2>2. ASSUME NEW c \in Callers, Done(c) PROVE Orderly' /\ Known'
    <3>1. UNCHANGED << balance, weight, rot, pick >>
      BY <2>2 DEF Done
    <3> QED BY <2>2, <3>1, DoneOrderly, OthersKnown
  <2>3. ASSUME NEW c \in Callers, NEW key \in Keys, Pick(c, key) PROVE Orderly' /\ Known'
    <3>1. \E q \in Call : CallMoves(c, q) /\ Proper(c, q)
      BY <2>3, PickIs
    <3> QED BY <2>3, <3>1, MovesOrderly, PickKnown
  <2>4. ASSUME NEW i \in Targets, Turn(i) PROVE Orderly' /\ Known'
    <3>1. UNCHANGED << balance, weight, rot, pick, inflight >> /\ inflight \in [Targets -> Nat]
      BY <2>4, OrderlyIs DEF Turn
    <3> QED BY <2>4, <3>1, TurnOrderly, OthersKnown
  <2> QED BY <1>2, <2>1, <2>2, <2>3, <2>4 DEF Next
<1> QED BY <1>1, <1>2

LEMMA InitKnown ==
  ASSUME Init
  PROVE  Known
<1>1. pick = [c \in Callers |-> NoCall]
  BY DEF Init
<1> QED BY <1>1, QuietKnows DEF Known

THEOREM CallsInvariance == Spec => [](Orderly /\ Known)
<1>1. Init => Orderly /\ Known
  BY InitOrderly, InitKnown
<1> QED BY <1>1, NextOrderly, PTL DEF Spec

(* The state of the pool and of its picker keeps to its types.             *)
THEOREM TypeCorrect == Spec => []TypeOK
<1>1. Orderly /\ Known => TypeOK
  BY DEF Orderly
<1> QED BY <1>1, CallsInvariance, PTL

(* Only a call that gives up ends without a target. *)
LEMMA WhoFails ==
  ASSUME Orderly, [Next]_vars, NEW c \in Callers, Fails(c)
  PROVE  Fail(c)
<1> DEFINE p == pick[c]
<1>1. p.at = "look" /\ pick'[c].at = "idle" /\ pick \in [Callers -> Call]
  BY DEF Fails, Orderly, TypeOK
<1>2. CASE UNCHANGED vars \/ (\E d \in Callers : Done(d)) \/ (\E i \in Targets : Turn(i))
  BY <1>1, <1>2 DEF vars, Done, Turn
<1>3. ASSUME NEW d \in Callers, NEW key \in Keys, Pick(d, key) PROVE FALSE
  BY <1>1, <1>3 DEF Pick, Unlocked
<1>4. ASSUME NEW d \in Callers, Step(d), d # c PROVE FALSE
  <2>1. pick[d].at # "idle"
    BY <1>4 DEF Step, Skip, LookInTurn, LookForFewest, LookAlongRing, Settle, Fail, Reserve, Refuse,
                Eligible, Looking
  <2> QED BY <1>1, <1>4, <2>1 DEF Orderly, Sole
<1>5. ASSUME Step(c) PROVE Fail(c)
  <2>1. ASSUME NEW q \in Call, CallMoves(c, q) PROVE pick'[c] = q
    BY <1>1, <2>1 DEF CallMoves
  <2>2. CASE Skip(c)
    <3>1. \E q \in Call : CallMoves(c, q) /\ q.at = "look"
      BY <2>2, SkipIs DEF Same
    <3> QED BY <1>1, <2>1, <3>1
  <2>3. CASE LookInTurn(c)
    <3>1. \E q \in Call : CallMoves(c, q) /\ q.at = "look"
      BY <2>3, LookInTurnIs DEF Same
    <3> QED BY <1>1, <2>1, <3>1
  <2>4. CASE LookForFewest(c)
    <3>1. \E q \in Call : CallMoves(c, q) /\ q.at = "look"
      BY <2>4, LookForFewestIs DEF Same
    <3> QED BY <1>1, <2>1, <3>1
  <2>5. CASE LookAlongRing(c)
    <3>1. \E q \in Call : CallMoves(c, q) /\ q.at = "reserve"
      BY <2>5, LookAlongRingIs
    <3> QED BY <1>1, <2>1, <3>1
  <2>6. CASE Settle(c)
    <3>1. \E q \in Call : CallMoves(c, q) /\ q.at = "reserve"
      BY <2>6, SettleIs
    <3> QED BY <1>1, <2>1, <3>1
  <2>7. CASE Reserve(c) \/ Refuse(c)
    BY <1>1, <2>7 DEF Reserve, Refuse
  <2> QED BY <1>5, <2>2, <2>3, <2>4, <2>5, <2>6, <2>7 DEF Step
<1> QED BY <1>2, <1>3, <1>4, <1>5 DEF Next

(* A call that fails has turned every target in rotation away, whatever    *)
(* the targets and the other callers did meanwhile (pool.go:152,           *)
(* picker_roundrobin.go:45-47, picker_leastconn.go:59-61,                  *)
(* picker_ringhash.go:88).                                                 *)
THEOREM NoneIsLeft == Spec => NoneLeft
<1>1. ASSUME Orderly, Known, [Next]_vars
      PROVE  [\A c \in Callers :
                Fails(c) /\ (balance = "ring_hash" => Keyed(pick[c]))
                  => InRotation \subseteq pick[c].seen]_vars
  <2> SUFFICES ASSUME NEW c \in Callers, Fails(c), balance = "ring_hash" => Keyed(pick[c]),
                      NEW i \in InRotation
               PROVE  i \in pick[c].seen
    OBVIOUS
  <2> DEFINE p == pick[c]
  <2>1. p.at = "look"
    BY DEF Fails
  <2>2. p.off = Size(p) /\ p.best = Nobody
    <3>1. Fail(c)
      BY <1>1, WhoFails
    <3> QED BY <1>1, <3>1, FailIs
  <2>3. PICK off \in 0 .. Size(p) - 1 : LookAt(p, off) = i
    BY <1>1, OrderlyIs, LooksAtAll
  <2>4. Passes(p)
    BY <1>1 DEF Known, Knows
  <2> HIDE DEF p
  <2>5. LookAt(p, off) \in p.seen
    BY <2>1, <2>2, <2>4 DEF Passes, p
  <2> QED BY <2>3, <2>5 DEF p
<1> QED BY <1>1, CallsInvariance, PTL DEF Spec, NoneLeft

(* Only a call that reserves gives its caller a target. *)
LEMMA WhoReceives ==
  ASSUME Orderly, [Next]_vars, NEW c \in Callers, hold[c] = Nobody, hold'[c] # Nobody
  PROVE  Reserve(c) /\ hold'[c] = pick[c].best
<1>1. hold \in [Callers -> Targets \cup {Nobody}]
  BY DEF Orderly, TypeOK
<1>2. hold' # hold
  OBVIOUS
<1>3. ASSUME NEW d \in Callers, Done(d) PROVE FALSE
  BY <1>1, <1>3 DEF Done
<1>4. ASSUME NEW d \in Callers, NEW key \in Keys, Pick(d, key) PROVE FALSE
  BY <1>2, <1>4 DEF Pick
<1>5. ASSUME NEW i \in Targets, Turn(i) PROVE FALSE
  BY <1>2, <1>5 DEF Turn
<1>6. ASSUME NEW d \in Callers, Step(d) PROVE Reserve(d)
  BY <1>2, <1>6 DEF Step, Skip, LookInTurn, LookForFewest, LookAlongRing, Settle, Fail, Refuse
<1>7. PICK d \in Callers : Reserve(d)
  BY <1>2, <1>3, <1>4, <1>5, <1>6 DEF Next, vars
<1>8. hold' = [hold EXCEPT ![d] = pick[d].best]
  BY <1>7 DEF Reserve
<1>9. d = c
  BY <1>1, <1>8
<1> QED BY <1>1, <1>7, <1>8, <1>9

(* Every set of naturals that is not empty has a least element. *)
LEMMA MinIs ==
  ASSUME NEW T \in SUBSET Nat, T # {}
  PROVE  Min(T) \in T /\ \A m \in T : Min(T) <= m
<1>1. \E x \in T : \A y \in T : ~ (<< y, x >> \in OpToRel(<, Nat))
  BY NatLessThanWellFounded, WFMin, Zenon
<1>2. PICK x \in T : \A y \in T : ~ (<< y, x >> \in OpToRel(<, Nat))
  BY <1>1, Zenon
<1>3. \A y \in T : ~(y < x)
  <2> SUFFICES ASSUME NEW y \in T, y < x PROVE FALSE
    OBVIOUS
  <2>1. << y, x >> \in OpToRel(<, Nat)
    BY Zenon DEF OpToRel
  <2> QED BY <1>2, <2>1, Zenon
<1> HIDE <1>2
<1>4. \E n \in T : \A m \in T : n <= m
  BY <1>3
<1> QED BY <1>4 DEF Min

(* The walk for a key meets a target no sooner than at its distance. *)
LEMMA DistanceIs ==
  ASSUME Placed, NEW p, Keyed(p), NEW j \in InRotation
  PROVE  /\ Distance(p.key, j) \in 0 .. Size(p) - 1 /\ LookAt(p, Distance(p.key, j)) = j
         /\ \A off \in 0 .. Size(p) - 1 : LookAt(p, off) = j => Distance(p.key, j) <= off
<1> DEFINE T == {off \in 0 .. Vnodes - 1 : Placement[Place((Search(p.key) + off) % Vnodes)][1] = j}
           meets == {off \in 0 .. Size(p) - 1 : LookAt(p, off) = j}
<1>1. Size(p) = Vnodes
      /\ \A off : LookAt(p, off) = Placement[Place((Search(p.key) + off) % Vnodes)][1]
  BY DEF Size, LookAt, Walk
<1>2. Distance(p.key, j) = Min(T)
  BY DEF Distance
<1>3. T = meets
  BY <1>1
<1>4. meets \in SUBSET Nat /\ meets # {}
  BY LooksAtAll, LooksAtTargets
<1>5. Min(meets) \in meets /\ \A m \in meets : Min(meets) <= m
  <2> HIDE DEF meets
  <2> QED BY <1>4, MinIs
<1>6. Distance(p.key, j) = Min(meets)
  BY <1>2, <1>3
<1> HIDE DEF T
<1> QED BY <1>5, <1>6

(* A call is given none but the target its strategy prefers among those    *)
(* that did not turn it away (picker_leastconn.go:35-57,                   *)
(* picker_ringhash.go:73-88): a count read early is by then no higher, and *)
(* whoever lies nearer the key has been asked.                             *)
THEOREM BestIsAdmitted == Spec => BestAdmitted
<1>1. ASSUME Orderly, Known, [Next]_vars
      PROVE  [\A c \in Callers : hold[c] = Nobody /\ hold'[c] # Nobody =>
                \A j \in InRotation \ pick[c].seen : ~Preferable(pick[c], j, hold'[c])]_vars
  <2> SUFFICES ASSUME NEW c \in Callers, hold[c] = Nobody, hold'[c] # Nobody,
                      NEW j \in InRotation, j \notin pick[c].seen,
                      Preferable(pick[c], j, hold'[c])
               PROVE  FALSE
    BY Zenon
  <2> DEFINE p == pick[c]
             i == p.best
  <2>1. p.at = "reserve" /\ hold'[c] = i /\ weight[i] > 0
    BY <1>1, WhoReceives DEF Reserve, Admits, Available
  <2>2. p \in Call /\ Proper(c, p) /\ Placed /\ inflight \in [Targets -> Nat]
        /\ weight \in [Targets -> Nat] /\ Knows(p)
    BY <1>1, OrderlyIs DEF Known
  <2>0. Preferable(p, j, i) /\ j \notin p.seen
    BY <2>1
  <2> HIDE DEF p
  <2>3. /\ i \in Targets /\ j \in Targets /\ p.fewest \in Nat /\ p.first \in [Targets -> Nat]
        /\ p.off \in Nat
    BY <2>1, <2>2, Fields DEF Proper, InRotation
  <2>4. CASE balance = "least_connections"
    <3>1. Outranks(p, j) /\ inflight[i] <= p.fewest
      BY <2>1, <2>2, <2>3, <2>4, Unkeyed DEF Knows, Compares
    <3>2. ~Keyed(p)
      BY <2>4 DEF Keyed
    <3>3. p.first[j] < inflight[i] \/ (p.first[j] = inflight[i] /\ weight[j] > weight[i])
      BY <2>0, <3>2 DEF Preferable
    <3>4. p.fewest < p.first[j] \/ (p.fewest = p.first[j] /\ weight[j] <= weight[i])
      BY <2>0, <3>1 DEF Outranks
    <3>5. /\ p.first[j] \in Nat /\ inflight[i] \in Nat /\ weight[i] \in Nat /\ weight[j] \in Nat
      BY <2>2, <2>3
    <3> HIDE DEF i
    <3> QED BY <2>3, <3>1, <3>3, <3>4, <3>5
  <2>5. CASE balance # "least_connections"
    <3>1. Keyed(p) /\ Distance(p.key, j) < Distance(p.key, i)
      BY <2>0, <2>5 DEF Preferable
    <3>2. p.off < Size(p) /\ LookAt(p, p.off) = i
      BY <2>1, <2>2, <3>1 DEF Proper, At, Keyed
    <3>3. /\ Distance(p.key, j) \in 0 .. Size(p) - 1 /\ LookAt(p, Distance(p.key, j)) = j
      BY <2>2, <3>1, DistanceIs
    <3>4. i \in InRotation
      BY <2>1, <2>3 DEF InRotation
    <3>5. Size(p) \in Nat
      BY <2>2, LooksAtTargets
    <3>6. Distance(p.key, i) <= p.off /\ Distance(p.key, i) \in Int
      BY <2>2, <2>3, <3>1, <3>2, <3>4, <3>5, DistanceIs
    <3>7. Distance(p.key, j) \in 0 .. p.off - 1
      BY <2>3, <3>1, <3>3, <3>5, <3>6
    <3>8. j \in p.seen
      BY <2>2, <3>1, <3>3, <3>7 DEF Knows, Passes
    <3> QED BY <2>0, <3>8
  <2> QED BY <2>4, <2>5
<1> QED BY <1>1, CallsInvariance, PTL DEF Spec, BestAdmitted

-----------------------------------------------------------------------------
(* What round robin owes. *)

LEMMA SharesIs ==
  ASSUME Orderly
  PROVE  /\ Shares \in [Targets -> Int] /\ Serving \in SUBSET Targets
         /\ \A i \in Targets : Shares[i] >= 0 /\ (i \notin Serving => Shares[i] = 0)
         /\ \A i \in Serving : Shares[i] = weight[i] /\ Shares[i] >= 1
         /\ \A i \in Targets : Shares[i] <= Cycle
         /\ Cycle \in Int /\ Picks \in Int /\ tally \in [Targets -> Int]
         /\ \A i \in Targets : Owed(i) \in Int
<1>1. weight \in [Targets -> Nat] /\ tally \in [Targets -> Int]
  BY OrderlyIs
<1>2. /\ Shares \in [Targets -> Int] /\ Serving \in SUBSET Targets
      /\ \A i \in Targets : Shares[i] >= 0 /\ (i \notin Serving => Shares[i] = 0)
      /\ \A i \in Serving : Shares[i] = weight[i] /\ Shares[i] >= 1
  BY <1>1 DEF Shares, Serving, InRotation
<1> HIDE <1>1
<1>3. Cycle \in Int /\ Picks \in Int
  BY <1>1, <1>2, TotalType DEF Cycle, Picks
<1>4. \A i \in Targets : Shares[i] <= Cycle
  BY <1>2, TotalCovers DEF Cycle
<1>5. \A i \in Targets : Owed(i) \in Int
  BY <1>1, <1>2, <1>3 DEF Owed
<1> QED BY <1>1, <1>2, <1>3, <1>4, <1>5

LEMMA Cancels ==
  ASSUME NEW a \in Int, NEW b \in Int
  PROVE  a * b + (-b) * a = 0
  OBVIOUS

LEMMA Subtracts ==
  ASSUME NEW a \in Int, NEW b \in Int, NEW x \in Int, NEW y \in Int
  PROVE  a * x - b * y = a * x + (-b) * y
  OBVIOUS

(* What the targets are owed adds up to nothing. *)
LEMMA OwedNothing ==
  ASSUME Orderly, NEW h \in [Targets -> Int], \A i \in Targets : h[i] = Owed(i)
  PROVE  Total(h) = 0
<1>1. /\ Shares \in [Targets -> Int] /\ tally \in [Targets -> Int] /\ Cycle \in Int /\ Picks \in Int
  BY SharesIs
<1>2. \A i \in Targets : h[i] = Picks * Shares[i] + (-Cycle) * tally[i]
  <2> SUFFICES ASSUME NEW i \in Targets PROVE h[i] = Picks * Shares[i] + (-Cycle) * tally[i]
    OBVIOUS
  <2>1. h[i] = Picks * Shares[i] - Cycle * tally[i]
    BY DEF Owed
  <2>2. Shares[i] \in Int /\ tally[i] \in Int
    BY <1>1
  <2> QED BY <1>1, <2>1, <2>2, Subtracts
<1>3. Total(h) = Picks * Total(Shares) + (-Cycle) * Total(tally)
  <2>1. -Cycle \in Int
    BY <1>1
  <2> QED BY <1>1, <1>2, <2>1, TotalLinear
<1>4. Total(h) = Picks * Cycle + (-Cycle) * Picks
  BY <1>3 DEF Cycle, Picks
<1> QED BY <1>1, <1>4, Cancels

(* Nothing is owed differently while the tally and the service stay. *)
LEMMA StillOwes ==
  ASSUME UNCHANGED << weight, health, tally >>
  PROVE  /\ Shares' = Shares /\ Serving' = Serving /\ Cycle' = Cycle /\ Picks' = Picks
         /\ RunningTotal(Shares)' = RunningTotal(Shares)
         /\ \A i : Owed(i)' = Owed(i)
<1>1. Serving' = Serving
  BY DEF Serving, InRotation
<1>2. Shares' = Shares
  BY <1>1 DEF Shares
<1>3. Cycle' = Cycle /\ Picks' = Picks
  BY <1>2 DEF Cycle, Picks
<1>4. \A i : Owed(i)' = Owed(i)
  BY <1>2, <1>3 DEF Owed
<1>5. RunningTotal(Shares)' = RunningTotal(Shares)
  BY <1>2
<1> QED BY <1>1, <1>2, <1>3, <1>4, <1>5

LEMMA QuietAccrues ==
  ASSUME NEW credit
  PROVE  Accrues(NoCall, credit)
  BY Quiet DEF Accrues

(* A step of a call keeps what is owed if its own part does. *)
LEMMA MovesCalm ==
  ASSUME Orderly, Calm, NEW c \in Callers, NEW q \in Call, CallMoves(c, q),
         balance = "round_robin" /\ calm /\ Owing =>
           /\ Accrues(q, cur')
           /\ q.at = "idle" => \A i \in Targets : cur'[i] = Owed(i)
  PROVE  Calm'
<1>1. UNCHANGED << balance, weight, health, calm, tally >> /\ pick' = [pick EXCEPT ![c] = q]
      /\ (pick[c].at # "idle" \/ Unlocked)
  BY DEF CallMoves
<1>2. /\ Shares' = Shares /\ Serving' = Serving /\ Cycle' = Cycle /\ \A i : Owed(i)' = Owed(i)
      /\ RunningTotal(Shares)' = RunningTotal(Shares)
  BY <1>1, StillOwes
<1>3. pick'[c] = q /\ \A d \in Callers : d # c => pick'[d] = NoCall
  BY <1>1, Replaces
<1>4. ASSUME balance = "round_robin", calm PROVE Owing'
  <2>1. /\ Owing /\ Accrues(q, cur')
        /\ q.at = "idle" => \A i \in Targets : cur'[i] = Owed(i)
    BY <1>4 DEF Calm
  <2>2. ASSUME NEW d \in Callers PROVE Accrues(pick'[d], cur')
    BY <1>3, <2>1, QuietAccrues
  <2>3. ASSUME NEW d \in Callers PROVE Accrues(pick[d], cur)'
    <3>1. Accrues(pick'[d], cur')
      BY <2>2
    <3> QED BY <1>2, <3>1 DEF Accrues
  <2>4. Unlocked' => \A i \in Targets : cur'[i] = Owed(i)'
    BY <1>2, <1>3, <2>1 DEF Unlocked
  <2> QED BY <1>1, <1>2, <2>1, <2>3, <2>4 DEF Owing
<1> QED BY <1>1, <1>4 DEF Calm

(* What round robin looks at, while all is calm. *)
LEMMA InTurn ==
  ASSUME Orderly, balance = "round_robin", NEW p
  PROVE  /\ ~Keyed(p) /\ Size(p) = N /\ At(p) = p.off
         /\ calm /\ Owing => \A i \in Targets : i \in Serving <=> Available(i)
<1>1. ~Keyed(p)
  BY DEF Keyed
<1>2. \A i \in Targets : i \in Serving <=> Available(i)
  BY DEF Serving, InRotation, Available
<1> QED BY <1>1, <1>2 DEF Size, At, LookAt

LEMMA SkipCalm ==
  ASSUME Orderly, Calm, NEW c \in Callers, Skip(c)
  PROVE  Calm'
<1> DEFINE p == pick[c]
           Goes(q) ==
             /\ CallMoves(c, q) /\ Proper(c, q) /\ Same(p, q)
             /\ q.off = p.off + 1 /\ q.best = p.best /\ q.total = p.total /\ q.fewest = p.fewest
             /\ q.seen = (IF At(p) \in p.excluded THEN p.seen ELSE p.seen \cup {At(p)})
             /\ q.excluded = (IF Keyed(p) THEN p.excluded \cup {At(p)} ELSE p.excluded)
<1>1. /\ Looking(c) /\ (At(p) \in p.excluded \/ ~Available(At(p))) /\ cur' = cur
      /\ \E q \in Call : Goes(q)
  BY SkipIs
<1>2. PICK q \in Call : Goes(q)
  BY <1>1
<1>3. ASSUME balance = "round_robin", calm, Owing PROVE Accrues(q, cur')
  <2>1. p \in Call /\ p.at = "look" /\ q.at = "look" /\ Accrues(p, cur)
    BY <1>2, <1>3, OrderlyIs DEF Same, Owing
  <2>2. /\ ~Keyed(p) /\ Size(p) = N /\ At(p) = p.off /\ p.off \in Targets
        /\ \A i \in Targets : i \in Serving <=> Available(i)
    BY <1>1, <1>3, InTurn, Meets
  <2> HIDE DEF p
  <2>3. p.off \notin Serving
    BY <1>1, <2>1, <2>2 DEF Accrues
  <2>4. Shares[p.off] = 0 /\ p.off \in Nat
    BY <2>1, <2>2, <2>3, SharesIs, Fields
  <2>5. /\ p.off + 1 \in 0 .. N
        /\ RunningTotal(Shares)[p.off + 1] = RunningTotal(Shares)[p.off]
    <3>1. Shares \in [Targets -> Int]
      BY SharesIs
    <3>2. RunningTotal(Shares)[p.off + 1] = RunningTotal(Shares)[p.off] + Shares[p.off]
      BY <2>2, <3>1, RunningStep
    <3>3. p.off \in 0 .. N /\ p.off + 1 \in 0 .. N
      BY <2>2, Numbers
    <3>4. RunningTotal(Shares)[p.off] \in Int
      BY <3>1, <3>3, RunningStep
    <3> QED BY <2>4, <3>2, <3>3, <3>4
  <2>6. \A i \in Targets : i < p.off + 1 <=> i < p.off \/ i = p.off
    BY <2>4, Numbers
  <2>7. q.total = RunningTotal(Shares)[q.off] /\ q.excluded = {} /\ q.best = p.best
    BY <1>2, <2>1, <2>2, <2>5 DEF Accrues
  <2>8. \A i \in Targets : cur'[i] = Owed(i) + (IF i < q.off THEN Shares[i] ELSE 0)
    <3> SUFFICES ASSUME NEW i \in Targets
                 PROVE  cur'[i] = Owed(i) + (IF i < q.off THEN Shares[i] ELSE 0)
      OBVIOUS
    <3>1. cur[i] = Owed(i) + (IF i < p.off THEN Shares[i] ELSE 0)
      BY <2>1 DEF Accrues
    <3>2. q.off = p.off + 1 /\ cur'[i] = cur[i]
      BY <1>1, <1>2
    <3> QED BY <2>4, <2>6, <3>1, <3>2
  <2>9. q.best # Nobody => q.best \in Serving /\ q.best < q.off
    <3>1. q.best # Nobody => q.best \in Serving /\ q.best < p.off
      BY <2>1, <2>7 DEF Accrues
    <3>2. q.best \in Targets => q.best \in Int
      BY Numbers
    <3> QED BY <1>2, <2>4, <3>1, <3>2, SharesIs
  <2>10. \A i \in Serving : i < q.off => q.best # Nobody /\ cur'[i] <= cur'[q.best]
    <3> SUFFICES ASSUME NEW i \in Serving, i < q.off
                 PROVE  q.best # Nobody /\ cur'[i] <= cur'[q.best]
      OBVIOUS
    <3>1. i < p.off
      BY <1>2, <2>3, <2>6, SharesIs
    <3> QED BY <1>1, <2>1, <2>7, <3>1 DEF Accrues
  <2> QED BY <2>1, <2>7, <2>8, <2>9, <2>10 DEF Accrues
<1>4. q.at = "look"
  BY <1>2 DEF Same
<1> QED BY <1>2, <1>3, <1>4, MovesCalm

LEMMA LookInTurnCalm ==
  ASSUME Orderly, Calm, NEW c \in Callers, LookInTurn(c)
  PROVE  Calm'
<1> DEFINE p == pick[c]
           i == At(p)
           Goes(q) ==
             /\ CallMoves(c, q) /\ Proper(c, q) /\ Same(p, q)
             /\ q.off = p.off + 1 /\ q.total = p.total + weight[i]
             /\ q.best = (IF p.best = Nobody \/ cur'[i] > cur'[p.best] THEN i ELSE p.best)
             /\ q.seen = p.seen /\ q.excluded = p.excluded
<1>1. /\ Eligible(c) /\ Looking(c) /\ cur' = [cur EXCEPT ![i] = @ + weight[i]]
      /\ balance = "round_robin" /\ \E q \in Call : Goes(q)
  BY LookInTurnIs DEF Eligible
<1>2. PICK q \in Call : Goes(q)
  BY <1>1
<1>3. ASSUME balance = "round_robin", calm, Owing PROVE Accrues(q, cur')
  <2>1. p \in Call /\ p.at = "look" /\ q.at = "look" /\ Accrues(p, cur)
    BY <1>2, <1>3, OrderlyIs DEF Same, Owing
  <2>2. i = p.off /\ p.off \in Targets /\ p.off \in Serving
    BY <1>1, <1>3, InTurn, Meets DEF Eligible
  <2> HIDE DEF p, i
  <2>3. /\ Shares[p.off] = weight[p.off] /\ Shares[p.off] \in Int /\ p.off \in Int
        /\ cur \in [Targets -> Int]
    <3>1. Shares[p.off] = weight[p.off] /\ Shares[p.off] \in Int
      BY <2>2, SharesIs
    <3> QED BY <2>2, <3>1, OrderlyIs, Numbers
  <2>4. q.total = RunningTotal(Shares)[q.off] /\ q.excluded = {}
    <3>1. Shares \in [Targets -> Int]
      BY SharesIs
    <3>2. RunningTotal(Shares)[p.off + 1] = RunningTotal(Shares)[p.off] + Shares[p.off]
      BY <2>2, <3>1, RunningStep
    <3> QED BY <1>2, <2>1, <2>2, <2>3, <3>2 DEF Accrues
  <2>5. /\ cur'[p.off] = cur[p.off] + Shares[p.off]
        /\ \A j \in Targets : j # p.off => cur'[j] = cur[j]
    BY <1>1, <2>2, <2>3
  <2>6. q.off = p.off + 1 /\ \A j \in Targets : j < q.off <=> j < p.off \/ j = p.off
    BY <1>2, <2>2, Numbers
  <2>7. \A j \in Targets : cur'[j] = Owed(j) + (IF j < q.off THEN Shares[j] ELSE 0)
    <3> SUFFICES ASSUME NEW j \in Targets
                 PROVE  cur'[j] = Owed(j) + (IF j < q.off THEN Shares[j] ELSE 0)
      OBVIOUS
    <3>1. cur[j] = Owed(j) + (IF j < p.off THEN Shares[j] ELSE 0)
      BY <2>1 DEF Accrues
    <3>2. Owed(j) \in Int /\ ~(p.off < p.off)
      BY <2>3, SharesIs
    <3> QED BY <2>3, <2>5, <2>6, <3>1, <3>2
  <2>8. p.best # Nobody => p.best \in Serving /\ p.best \in Targets /\ p.best # p.off
    BY <2>1, <2>3, SharesIs DEF Accrues
  <2>9. q.best # Nobody => q.best \in Serving /\ q.best < q.off
    <3>1. q.best = p.off \/ (q.best = p.best /\ p.best # Nobody)
      BY <1>2, <2>2
    <3>2. CASE q.best = p.off
      BY <2>2, <2>3, <2>6, <3>2
    <3>3. CASE q.best = p.best /\ p.best # Nobody
      BY <2>1, <2>6, <2>8, <3>3 DEF Accrues
    <3> QED BY <3>1, <3>2, <3>3
  <2>10. \A j \in Serving : j < q.off => q.best # Nobody /\ cur'[j] <= cur'[q.best]
    <3> SUFFICES ASSUME NEW j \in Serving, j < q.off
                 PROVE  q.best # Nobody /\ cur'[j] <= cur'[q.best]
      OBVIOUS
    <3>0. /\ j \in Targets /\ (j < p.off \/ j = p.off) /\ cur'[j] \in Int /\ cur'[p.off] \in Int
          /\ p.off # Nobody
      BY <2>2, <2>3, <2>5, <2>6, SharesIs, Unkeyed
    <3>1. CASE p.best = Nobody
      <4>1. j = p.off /\ q.best = p.off
        BY <1>2, <2>1, <2>2, <3>0, <3>1 DEF Accrues
      <4> QED BY <3>0, <4>1
    <3>2. CASE p.best # Nobody
      <4>1. cur'[p.best] = cur[p.best] /\ cur[p.best] \in Int
        BY <2>3, <2>5, <2>8, <3>2
      <4>2. j < p.off => cur'[j] <= cur'[p.best]
        <5> SUFFICES ASSUME j < p.off PROVE cur'[j] <= cur'[p.best]
          OBVIOUS
        <5>1. cur[j] <= cur[p.best] /\ j # p.off
          BY <2>1, <2>3 DEF Accrues
        <5> QED BY <2>5, <3>0, <4>1, <5>1
      <4>3. CASE cur'[p.off] > cur'[p.best]
        <5>1. q.best = p.off
          BY <1>2, <2>2, <4>3
        <5> QED BY <3>0, <4>1, <4>2, <4>3, <5>1
      <4>4. CASE ~(cur'[p.off] > cur'[p.best])
        <5>1. q.best = p.best
          BY <1>2, <2>2, <3>2, <4>4
        <5> QED BY <3>0, <3>2, <4>1, <4>2, <4>4, <5>1
      <4> QED BY <4>3, <4>4
    <3> QED BY <3>1, <3>2
  <2> QED BY <2>1, <2>4, <2>7, <2>9, <2>10 DEF Accrues
<1>4. q.at = "look"
  BY <1>2 DEF Same
<1> QED BY <1>2, <1>3, <1>4, MovesCalm

LEMMA LookElsewhereCalm ==
  ASSUME Orderly, Calm, NEW c \in Callers, LookForFewest(c) \/ LookAlongRing(c)
  PROVE  Calm'
<1>1. balance # "round_robin" /\ \E q \in Call : CallMoves(c, q)
  BY LookForFewestIs, LookAlongRingIs
<1> QED BY <1>1, MovesCalm

(* Somebody has credit when a pass is over: what it gave is a whole cycle. *)
LEMMA SomebodyIsAhead ==
  ASSUME Orderly, Owing, NEW best \in Serving,
         \A i \in Targets : cur[i] = Owed(i) + Shares[i],
         \A i \in Serving : cur[i] <= cur[best]
  PROVE  Owed(best) + Shares[best] > 0
<1>1. /\ Shares \in [Targets -> Int] /\ best \in Targets /\ Shares[best] >= 1
      /\ \A i \in Targets : Shares[i] <= Cycle /\ (i \notin Serving => Shares[i] = 0)
      /\ \A i \in Targets : Owed(i) \in Int
      /\ Cycle \in Int /\ Picks \in Int /\ tally \in [Targets -> Int]
  BY SharesIs
<1>2. cur \in [Targets -> Int]
  BY OrderlyIs
<1> DEFINE h == [i \in Targets |-> Owed(i)]
<1>3. h \in [Targets -> Int] /\ \A i \in Targets : h[i] = Owed(i)
  BY <1>1
<1> HIDE DEF h
<1>4. Total(h) = 0
  BY <1>3, OwedNothing
<1>5. Total(cur) = Cycle
  <2>1. \A i \in Targets : cur[i] = 1 * h[i] + 1 * Shares[i]
    <3> SUFFICES ASSUME NEW i \in Targets PROVE cur[i] = 1 * h[i] + 1 * Shares[i]
      OBVIOUS
    <3>1. cur[i] = h[i] + Shares[i] /\ h[i] \in Int /\ Shares[i] \in Int
      BY <1>1, <1>3
    <3> QED BY <3>1
  <2>2. Total(cur) = 1 * Total(h) + 1 * Total(Shares)
    BY <1>1, <1>2, <1>3, <2>1, TotalLinear
  <2> QED BY <1>1, <1>4, <2>2 DEF Cycle
<1>6. SUFFICES ASSUME cur[best] <= 0 PROVE FALSE
  BY <1>1, <1>2
<1>7. \A i \in Targets : cur[i] <= 0
  <2> SUFFICES ASSUME NEW i \in Targets PROVE cur[i] <= 0
    OBVIOUS
  <2>1. CASE i \in Serving
    <3>1. cur[i] <= cur[best] /\ cur[i] \in Int /\ cur[best] \in Int
      BY <1>1, <1>2, <2>1
    <3> QED BY <1>6, <3>1
  <2>2. CASE i \notin Serving
    <3>1. Shares[i] = 0 /\ tally[i] = 0
      BY <1>1, <2>2 DEF Owing
    <3>2. Owed(i) = Picks * 0 - Cycle * 0
      BY <3>1, Zenon DEF Owed
    <3>3. Owed(i) = 0
      BY <1>1, <3>2
    <3>4. cur[i] = Owed(i) + Shares[i]
      OBVIOUS
    <3> QED BY <3>1, <3>3, <3>4
  <2> QED BY <2>1, <2>2
<1>8. Total(cur) <= 0
  <2> DEFINE z == [i \in Targets |-> 0]
  <2>1. z \in [Targets -> Int] /\ Total(z) = 0 /\ \A i \in Targets : cur[i] <= z[i]
    BY <1>7, TotalOfNothing
  <2> HIDE DEF z
  <2>2. Total(cur) <= Total(z)
    BY <1>2, <2>1, TotalGrows
  <2> QED BY <2>1, <2>2
<1> QED BY <1>1, <1>5, <1>8

LEMMA SettleCalm ==
  ASSUME Orderly, Calm, NEW c \in Callers, Settle(c)
  PROVE  Calm'
<1> DEFINE p == pick[c]
           Goes(q) ==
             /\ CallMoves(c, q) /\ Proper(c, q)
             /\ q.key = p.key /\ q.off = p.off /\ q.at = "reserve" /\ q.best = p.best
             /\ q.fewest = p.fewest /\ q.total = p.total /\ q.first = p.first
             /\ q.seen = p.seen /\ q.excluded = p.excluded
<1>1. /\ p.at = "look" /\ p.off = Size(p) /\ p.best \in Targets
      /\ cur' = (IF balance = "round_robin" THEN [cur EXCEPT ![p.best] = @ - p.total] ELSE cur)
      /\ \E q \in Call : Goes(q)
  BY SettleIs
<1>2. PICK q \in Call : Goes(q)
  BY <1>1
<1>3. ASSUME balance = "round_robin", calm, Owing PROVE Accrues(q, cur')
  <2>1. p.off = N /\ Accrues(p, cur)
    BY <1>1, <1>3, InTurn DEF Owing
  <2> HIDE DEF p
  <2>2. p.best # Nobody /\ p.best \in Serving
    BY <1>1, <2>1, Unkeyed DEF Accrues
  <2>3. \A i \in Targets : i \in Nat /\ i < p.off
    BY <2>1, Numbers
  <2>4. \A i \in Targets : cur[i] = Owed(i) + Shares[i]
    BY <1>1, <2>1, <2>3 DEF Accrues
  <2>5. \A i \in Serving : cur[i] <= cur[p.best]
    BY <1>1, <2>1, <2>3, SharesIs DEF Accrues
  <2>6. Owed(p.best) + Shares[p.best] > 0
    BY <1>3, <2>2, <2>4, <2>5, SomebodyIsAhead
  <2>7. p.total = Cycle
    BY <1>1, <2>1 DEF Accrues, Cycle, Total
  <2>8. \A i \in Targets : cur'[i] = Owed(i) + Shares[i] - (IF i = p.best THEN Cycle ELSE 0)
    <3> SUFFICES ASSUME NEW i \in Targets
                 PROVE  cur'[i] = Owed(i) + Shares[i] - (IF i = p.best THEN Cycle ELSE 0)
      OBVIOUS
    <3>1. cur[i] = Owed(i) + Shares[i] /\ Owed(i) \in Int /\ Shares[i] \in Int /\ Cycle \in Int
      BY <2>4, SharesIs
    <3>2. cur'[i] = IF i = p.best THEN cur[i] - Cycle ELSE cur[i]
      BY <1>1, <1>3, <2>7, OrderlyIs
    <3> QED BY <3>1, <3>2
  <2> QED BY <1>2, <2>2, <2>6, <2>8 DEF Accrues
<1>4. q.at = "reserve"
  BY <1>2
<1> QED BY <1>2, <1>3, <1>4, MovesCalm

LEMMA FailCalm ==
  ASSUME Orderly, Calm, NEW c \in Callers, Fail(c)
  PROVE  Calm'
<1> DEFINE p == pick[c]
<1>1. /\ p.at = "look" /\ p.off = Size(p) /\ p.best = Nobody
      /\ CallMoves(c, NoCall) /\ NoCall \in Call /\ cur' = cur
  BY FailIs
<1>2. ASSUME balance = "round_robin", calm, Owing PROVE \A i \in Targets : cur'[i] = Owed(i)
  <2>1. p.off = N /\ Accrues(p, cur)
    BY <1>1, <1>2, InTurn DEF Owing
  <2> HIDE DEF p
  <2>2. \A i \in Targets : i \in Nat /\ i < p.off
    BY <2>1, Numbers
  <2>3. Serving = {}
    BY <1>1, <2>1, <2>2, SharesIs DEF Accrues
  <2> SUFFICES ASSUME NEW i \in Targets PROVE cur'[i] = Owed(i)
    OBVIOUS
  <2>4. cur[i] = Owed(i) + Shares[i]
    BY <1>1, <2>1, <2>2 DEF Accrues
  <2>5. Shares[i] = 0 /\ Owed(i) \in Int
    BY <2>3, SharesIs
  <2> QED BY <1>1, <2>4, <2>5
<1> QED BY <1>1, <1>2, QuietAccrues, MovesCalm

(* While all is calm nobody refuses. *)
LEMMA RefuseCalm ==
  ASSUME Orderly, Calm, NEW c \in Callers, Refuse(c)
  PROVE  Calm'
<1> DEFINE p == pick[c]
<1>1. /\ p.at = "reserve" /\ p.best \in Targets /\ ~Admits(p.best)
      /\ \E q \in Call : CallMoves(c, q)
  BY RefuseIs
<1>2. ASSUME balance = "round_robin", calm, Owing PROVE FALSE
  <2>1. p.best \in Serving /\ health[p.best] # "probing"
    BY <1>1, <1>2 DEF Owing, Accrues
  <2>2. Available(p.best)
    BY <1>1, <1>2, <2>1, InTurn
  <2> QED BY <1>1, <2>1, <2>2 DEF Admits
<1> QED BY <1>1, <1>2, MovesCalm

LEMMA PickCalm ==
  ASSUME Orderly, Calm, NEW c \in Callers, NEW key \in Keys, Pick(c, key)
  PROVE  Calm'
<1> DEFINE Goes(q) ==
              /\ CallMoves(c, q) /\ Proper(c, q)
              /\ q.key = key /\ q.at = "look" /\ q.off = 0 /\ q.best = Nobody /\ q.total = 0
              /\ q.seen = {} /\ q.excluded = {}
              /\ balance = "least_connections" => q.first = inflight
<1>1. Unlocked /\ cur' = cur /\ \E q \in Call : Goes(q)
  BY PickIs
<1>2. PICK q \in Call : Goes(q)
  BY <1>1
<1>3. ASSUME balance = "round_robin", calm, Owing PROVE Accrues(q, cur')
  <2>1. RunningTotal(Shares)[0] = 0
    BY SharesIs, RunningStep
  <2>2. \A i \in Targets : ~(i < 0)
    BY Numbers
  <2>3. \A i \in Targets : cur'[i] = Owed(i) + 0
    BY <1>1, <1>3, SharesIs DEF Owing
  <2> QED BY <1>2, <2>1, <2>2, <2>3, SharesIs DEF Accrues
<1>4. q.at = "look"
  BY <1>2
<1> QED BY <1>2, <1>3, <1>4, MovesCalm

LEMMA PicksOn ==
  ASSUME NEW a \in Int, NEW b \in Int, NEW x \in Int, NEW t \in Int
  PROVE  /\ (a + 1) * x - b * t = (a * x - b * t) + x
         /\ (a + 1) * x - b * (t + 1) = (a * x - b * t) + x - b
  OBVIOUS

LEMMA ReserveCalm ==
  ASSUME Orderly, Calm, NEW c \in Callers, Reserve(c)
  PROVE  Calm'
<1> DEFINE p == pick[c]
           b == p.best
<1>1. /\ p.at = "reserve" /\ b \in Targets /\ \A d \in Callers : pick'[d] = NoCall
      /\ tally' = (IF calm /\ balance = "round_robin" THEN [tally EXCEPT ![b] = @ + 1] ELSE tally)
      /\ UNCHANGED << balance, weight, health, cur, calm >>
  BY ReserveOrderly DEF Reserve
<1>2. Serving' = Serving /\ Shares' = Shares /\ Cycle' = Cycle
  BY <1>1 DEF Serving, InRotation, Shares, Cycle
<1>3. CASE balance # "round_robin"
  BY <1>1, <1>3 DEF Calm
<1>4. ASSUME balance = "round_robin", calm PROVE Owing'
  <2>1. Owing /\ Accrues(p, cur)
    BY <1>4 DEF Calm, Owing
  <2> HIDE DEF p, b
  <2>2. /\ b \in Serving /\ Owed(b) + Shares[b] > 0
        /\ \A i \in Targets : cur[i] = Owed(i) + Shares[i] - (IF i = b THEN Cycle ELSE 0)
    BY <1>1, <2>1 DEF Accrues, b
  <2>3. /\ Shares \in [Targets -> Int] /\ Cycle \in Int /\ Picks \in Int /\ tally \in [Targets -> Int]
        /\ \A i \in Targets : Owed(i) \in Int
        /\ \A i \in Serving : i \in Targets /\ Shares[i] >= 1
    BY SharesIs
  <2>4. tally' = [tally EXCEPT ![b] = tally[b] + 1]
    BY <1>1, <1>4
  <2>5. Picks' = Picks + 1
    <3>1. tally[b] \in Int /\ tally[b] + 1 \in Int
      BY <1>1, <2>3
    <3>2. Total([tally EXCEPT ![b] = tally[b] + 1]) = Total(tally) + (tally[b] + 1) - tally[b]
      BY <1>1, <2>3, <3>1, TotalExcept
    <3>3. Picks' = Picks + (tally[b] + 1) - tally[b]
      BY <2>4, <3>2 DEF Picks
    <3> QED BY <2>3, <3>1, <3>3
  <2>6. \A i \in Targets : cur'[i] = Owed(i)'
    <3> SUFFICES ASSUME NEW i \in Targets PROVE cur'[i] = Owed(i)'
      OBVIOUS
    <3>1. Owed(i)' = (Picks + 1) * Shares[i] - Cycle * tally'[i]
      BY <1>2, <2>5 DEF Owed
    <3>2. Owed(i) = Picks * Shares[i] - Cycle * tally[i]
      BY DEF Owed
    <3>3. Shares[i] \in Int /\ tally[i] \in Int
      BY <2>3
    <3>4. CASE i = b
      <4>1. tally'[i] = tally[i] + 1
        BY <2>3, <2>4, <3>4
      <4>2. Owed(i)' = Owed(i) + Shares[i] - Cycle
        BY <2>3, <3>1, <3>2, <3>3, <4>1, PicksOn
      <4> QED BY <1>1, <2>2, <3>4, <4>2
    <3>5. CASE i # b
      <4>1. tally'[i] = tally[i]
        BY <2>3, <2>4, <3>5
      <4>2. Owed(i)' = Owed(i) + Shares[i]
        BY <2>3, <3>1, <3>2, <3>3, <4>1, PicksOn
      <4>3. cur[i] = Owed(i) + Shares[i] - 0
        BY <2>2, <3>5
      <4> QED BY <1>1, <2>3, <3>3, <4>2, <4>3
    <3> QED BY <3>4, <3>5
  <2>7. \A i \in Serving' : Owed(i)' > -Cycle'
    <3> SUFFICES ASSUME NEW i \in Serving PROVE cur[i] > -Cycle
      BY <1>1, <1>2, <2>3, <2>6
    <3>1. /\ Owed(i) > -Cycle /\ Owed(i) \in Int /\ Shares[i] \in Int /\ Shares[i] >= 1
          /\ cur[i] = Owed(i) + Shares[i] - (IF i = b THEN Cycle ELSE 0)
      BY <2>1, <2>2, <2>3 DEF Owing
    <3> QED BY <2>2, <2>3, <3>1
  <2>8. /\ \A i \in Targets : health'[i] # "probing"
        /\ \A i \in Targets : i \notin Serving' => tally'[i] = 0
    BY <1>1, <1>2, <2>1, <2>2, <2>3, <2>4 DEF Owing
  <2>9. ASSUME NEW d \in Callers PROVE Accrues(pick[d], cur)'
    BY <1>1, Quiet DEF Accrues
  <2> QED BY <2>6, <2>7, <2>8, <2>9 DEF Owing
<1> QED BY <1>1, <1>3, <1>4 DEF Calm

LEMMA StillCalm ==
  ASSUME Calm, UNCHANGED << balance, weight, health, cur, pick, calm, tally >>
  PROVE  Calm'
<1>1. /\ Shares' = Shares /\ Serving' = Serving /\ Cycle' = Cycle
      /\ RunningTotal(Shares)' = RunningTotal(Shares) /\ \A i : Owed(i)' = Owed(i)
  BY StillOwes
<1>2. ASSUME Owing PROVE Owing'
  <2>1. ASSUME NEW d \in Callers PROVE Accrues(pick[d], cur)'
    <3>1. Accrues(pick[d], cur)
      BY <1>2 DEF Owing
    <3> QED BY <1>1, <3>1 DEF Accrues
  <2>2. Unlocked' <=> Unlocked
    BY DEF Unlocked
  <2> QED BY <1>1, <1>2, <2>1, <2>2 DEF Owing
<1> QED BY <1>2 DEF Calm

(* Nothing was picked, nothing is owed. *)
Fresh ==
  /\ Orderly /\ Unlocked
  /\ cur = [i \in Targets |-> 0] /\ tally = [i \in Targets |-> 0]
  /\ \A i \in Targets : health[i] # "probing"

LEMMA Afresh == Fresh => Owing
<1> SUFFICES ASSUME Orderly, cur = [i \in Targets |-> 0], tally = [i \in Targets |-> 0], Unlocked,
                    \A i \in Targets : health[i] # "probing"
             PROVE  Owing
  BY DEF Fresh
<1>1. /\ Shares \in [Targets -> Int] /\ Cycle \in Int
      /\ \A i \in Serving : i \in Targets /\ Shares[i] >= 1 /\ Shares[i] <= Cycle
  BY SharesIs
<1>2. Picks = 0
  BY TotalOfNothing DEF Picks
<1>3. \A i \in Targets : Owed(i) = 0
  <2> SUFFICES ASSUME NEW i \in Targets PROVE Owed(i) = 0
    OBVIOUS
  <2>1. Owed(i) = 0 * Shares[i] - Cycle * 0 /\ Shares[i] \in Int
    BY <1>1, <1>2 DEF Owed
  <2> QED BY <1>1, <2>1
<1>4. \A d \in Callers : Accrues(pick[d], cur)
  BY DEF Unlocked, Accrues
<1>5. \A i \in Serving : Owed(i) > -Cycle
  <2> SUFFICES ASSUME NEW i \in Serving PROVE Owed(i) > -Cycle
    OBVIOUS
  <2>1. Owed(i) = 0 /\ Shares[i] \in Int /\ Shares[i] >= 1 /\ Shares[i] <= Cycle
    BY <1>1, <1>3
  <2> QED BY <1>1, <2>1
<1> QED BY <1>3, <1>4, <1>5 DEF Owing

LEMMA AfreshNext == Fresh' => Owing'
  BY Afresh, PTL

LEMMA TurnCalm ==
  ASSUME Orderly, Calm, NEW i \in Targets, Turn(i)
  PROVE  Calm'
<1>1. Orderly'
  BY TurnOrderly
<1>2. tally' = [j \in Targets |-> 0] /\ UNCHANGED << balance, weight, cur, pick >>
  BY DEF Turn
<1>3. ASSUME balance = "round_robin", calm' PROVE Owing'
  <2>1. PICK to \in {"up", "probing", "out"} :
          /\ health' = [health EXCEPT ![i] = to] /\ to # "probing"
          /\ calm /\ Unlocked /\ \A j \in Targets : cur[j] = 0
    BY <1>3 DEF Turn
  <2>2. cur' = [j \in Targets |-> 0]
    BY <1>2, <2>1, OrderlyIs
  <2>3. Unlocked'
    BY <1>2, <2>1 DEF Unlocked
  <2>4. \A j \in Targets : health'[j] # "probing"
    BY <1>3, <2>1 DEF Calm, Owing, Orderly, TypeOK
  <2>5. Fresh'
    BY <1>1, <1>2, <2>2, <2>3, <2>4 DEF Fresh
  <2> QED BY <2>5, AfreshNext
<1> QED BY <1>2, <1>3 DEF Calm

LEMMA InitCalm ==
  ASSUME Init
  PROVE  Calm
<1>1. /\ cur = [i \in Targets |-> 0] /\ tally = [i \in Targets |-> 0]
      /\ \A i \in Targets : health[i] # "probing"
  BY DEF Init
<1>2. Unlocked
  BY Quiet DEF Init, Unlocked
<1> QED   BY <1>1, <1>2, InitOrderly, Afresh DEF Calm, Fresh

LEMMA NextCalm == Orderly /\ Calm /\ [Next]_vars => Calm'
<1> SUFFICES ASSUME Orderly, Calm, [Next]_vars PROVE Calm'
  OBVIOUS
<1>1. CASE UNCHANGED vars
  BY <1>1, StillCalm DEF vars
<1>2. ASSUME NEW c \in Callers, Step(c) PROVE Calm'
  BY <1>2, SkipCalm, LookInTurnCalm, LookElsewhereCalm, SettleCalm, FailCalm, ReserveCalm, RefuseCalm
     DEF Step
<1>3. ASSUME NEW c \in Callers, Done(c) PROVE Calm'
  BY <1>3, StillCalm DEF Done
<1>4. ASSUME NEW c \in Callers, NEW key \in Keys, Pick(c, key) PROVE Calm'
  BY <1>4, PickCalm
<1>5. ASSUME NEW i \in Targets, Turn(i) PROVE Calm'
  BY <1>5, TurnCalm
<1> QED BY <1>1, <1>2, <1>3, <1>4, <1>5 DEF Next

LEMMA CalmInvariance == Spec => [](Orderly /\ Calm)
<1>1. Init => Orderly /\ Calm
  BY InitOrderly, InitCalm
<1>2. Orderly /\ Known /\ Calm /\ [Next]_vars => Calm'
  BY NextCalm
<1> QED BY <1>1, <1>2, CallsInvariance, PTL DEF Spec

(* Being owed a whole number of cycles is being owed nothing less than     *)
(* nothing.                                                                *)
LEMMA WholeCycles ==
  ASSUME NEW c \in Int, c > 0, NEW k \in Int, NEW w \in Int, NEW t \in Int,
         (c * k) * w - c * t > -c
  PROVE  (c * k) * w - c * t >= 0
<1> DEFINE d == k * w - t
<1>1. d \in Int /\ (c * k) * w - c * t = c * d
  <2>1. k * w \in Int /\ (c * k) * w = c * (k * w)
    OBVIOUS
  <2> DEFINE x == k * w
  <2>2. x \in Int /\ c * x - c * t = c * (x - t)
    BY <2>1
  <2> QED BY <2>1, <2>2
<1> HIDE DEF d
<1>2. d > -1
  <2> SUFFICES ASSUME d <= -1 PROVE FALSE
    BY <1>1
  <2>1. c * d <= -c
    <3> DEFINE e == -1 - d
    <3>1. e \in Nat /\ d = -1 - e
      BY <1>1
    <3> HIDE DEF e
    <3>2. c * d = -c - c * e /\ c * e >= 0 /\ c * e \in Int
      BY <3>1
    <3> QED BY <3>2
  <2>2. c * d \in Int
    BY <1>1
  <2> QED BY <1>1, <2>1, <2>2
<1>3. d \in Nat
  BY <1>1, <1>2
<1>4. c * d >= 0
  BY <1>3
<1> QED BY <1>1, <1>4

(* While the targets in service stay the same, round robin is nowhere a    *)
(* whole pick ahead of a target's share, and after every full cycle it has *)
(* given each exactly its share (picker_roundrobin.go:8-11,30-44): between *)
(* two calls a target's credit is what it is owed, the credits add up to   *)
(* nothing, and whoever is chosen was owed something.                      *)
THEOREM AlwaysProportional == Spec => []Proportional
<1>1. Orderly /\ Calm => Proportional
  <2> SUFFICES ASSUME Orderly, Calm, calm, NEW i \in Serving
               PROVE  /\ tally[i] * Cycle - Picks * weight[i] < Cycle
                      /\ Picks % Cycle = 0 => tally[i] * Cycle = Picks * weight[i]
    BY DEF Proportional, Cycle, Picks
  <2>1. /\ Shares \in [Targets -> Int] /\ Cycle \in Int /\ Picks \in Int /\ tally \in [Targets -> Int]
        /\ \A j \in Targets : Owed(j) \in Int /\ (j \notin Serving => Shares[j] = 0)
        /\ i \in Targets /\ Shares[i] = weight[i] /\ Shares[i] >= 1 /\ Shares[i] <= Cycle
    BY SharesIs
  <2>2. /\ Cycle \in Int /\ Cycle > 0 /\ Picks \in Int /\ tally[i] \in Int
        /\ weight[i] \in Int /\ Owed(i) \in Int
        /\ Owed(i) = Picks * weight[i] - Cycle * tally[i]
    <3>1. Shares[i] \in Int
      BY <2>1
    <3> QED BY <2>1, <3>1 DEF Owed
  <2>3. CASE balance # "round_robin"
    <3>1. tally = [j \in Targets |-> 0]
      BY <2>1, <2>3 DEF Calm
    <3>2. tally[i] = 0 /\ Picks = 0
      BY <2>1, <3>1, TotalOfNothing DEF Picks
    <3> QED BY <2>2, <3>2
  <2>4. CASE balance = "round_robin"
    <3>1. Owing
      BY <2>4 DEF Calm
    <3>2. tally[i] * Cycle = Cycle * tally[i] /\ Cycle * tally[i] \in Int /\ Picks * weight[i] \in Int
      BY <2>2
    <3>3. tally[i] * Cycle - Picks * weight[i] < Cycle
      <4>1. Owed(i) > -Cycle
        BY <3>1 DEF Owing
      <4> QED BY <2>2, <3>2, <4>1
    <3>4. ASSUME Picks % Cycle = 0 PROVE Owed(i) = 0
      <4> DEFINE k == Picks \div Cycle
      <4>1. k \in Int /\ Picks = Cycle * k
        <5>1. Cycle \in Nat \ {0}
          BY <2>2
        <5>2. k \in Int /\ Picks = Cycle * k + (Picks % Cycle)
          BY <2>1, <5>1, Divided
        <5>3. Cycle * k \in Int
          BY <2>1, <5>2
        <5> QED BY <3>4, <5>2, <5>3
      <4> HIDE DEF k
      <4>2. ASSUME NEW j \in Targets PROVE Owed(j) >= 0
        <5>0. Owed(j) = Picks * Shares[j] - Cycle * tally[j] /\ Shares[j] \in Int /\ tally[j] \in Int
          BY <2>1 DEF Owed
        <5>1. CASE j \in Serving
          <6>1. Owed(j) > -Cycle
            BY <3>1, <5>1 DEF Owing
          <6>2. Owed(j) = (Cycle * k) * Shares[j] - Cycle * tally[j]
            BY <4>1, <5>0
          <6> QED BY <2>2, <4>1, <5>0, <6>1, <6>2, WholeCycles
        <5>2. CASE j \notin Serving
          <6>1. Shares[j] = 0 /\ tally[j] = 0
            BY <2>1, <3>1, <5>2 DEF Owing
          <6> QED BY <2>2, <5>0, <6>1
        <5> QED BY <5>1, <5>2
      <4> DEFINE h == [j \in Targets |-> Owed(j)]
      <4>3. h \in [Targets -> Int] /\ \A j \in Targets : h[j] = Owed(j)
        BY <2>1
      <4> HIDE DEF h
      <4>4. Total(h) = 0
        BY <4>3, OwedNothing
      <4>5. h[i] <= Total(h)
        BY <2>1, <4>2, <4>3, TotalCovers
      <4> QED BY <2>1, <4>2, <4>3, <4>4, <4>5
    <3>5. ASSUME Picks % Cycle = 0 PROVE tally[i] * Cycle = Picks * weight[i]
      <4>1. Owed(i) = 0
        BY <3>4, <3>5
      <4> QED BY <2>2, <3>2, <4>1
    <3> QED BY <3>3, <3>5
  <2> QED BY <2>3, <2>4
<1> QED BY <1>1, CalmInvariance, PTL

=============================================================================
