--------------------------- MODULE DispatchProofs ----------------------------
(***************************************************************************)
(* Theorems about Dispatch, for tables of any length, any documents and    *)
(* any requests.  The request goes to the route the documented order puts  *)
(* first, and it is refused for the documented reason.  An accepted file   *)
(* means what it says and builds; the names in it resolve; and what is     *)
(* routed is forwarded, under the path that was routed.                    *)
(*                                                                         *)
(* The documented order is one of positions, first difference decides; the *)
(* code compares the route in hand with the best so far.  That the single  *)
(* pass finds the maximum rests on better4 and betterTuple being strict    *)
(* total orders on what Match remembers, and on what it remembers being    *)
(* the scores of the route it names.                                       *)
(*                                                                         *)
(* The rest follows from what validation leaves no problem about: the      *)
(* lemmas that end in Sound take one report apart each, and SInv carries   *)
(* the result, that the configuration in force is accepted and that the    *)
(* generation is built from it, to the states in which requests are        *)
(* answered.                                                               *)
(***************************************************************************)
EXTENDS Dispatch, FiniteSetTheorems, SequenceTheorems, TLAPS

\* What Match remembers of the best route, and of the best candidate.
Scores(j) ==
  [ idx |-> j, host |-> HostScore(table[j], request), path |-> PathScore(table[j]),
    meth |-> MethodScore(table[j]), hdr |-> Len(table[j].headers) ]

PlaceScores(j) ==
  [ idx |-> j, host |-> HostScore(table[j], request), path |-> PathScore(table[j]),
    meth |-> 0, hdr |-> 0 ]

Beats(i, j) ==
  Better4(HostScore(table[i], request), PathScore(table[i]), MethodScore(table[i]),
          Len(table[i].headers), i, Scores(j))

PlaceBeats(i, j) ==
  BetterTuple(HostScore(table[i], request), PathScore(table[i]), i, PlaceScores(j))

\* Best of the routes before n that match, and of those that are placed.
BestBefore(n) ==
  /\ best = NoRoute => \A j \in 1 .. n - 1 : ~Fits(j)
  /\ best # NoRoute =>
       /\ best.idx \in 1 .. n - 1 /\ best = Scores(best.idx) /\ Fits(best.idx)
       /\ \A j \in 1 .. n - 1 : Fits(j) /\ j # best.idx => Beats(best.idx, j)

CandidateBefore(n) ==
  /\ candidate = NoRoute => \A j \in 1 .. n - 1 : ~Placed(j)
  /\ candidate # NoRoute =>
       /\ candidate.idx \in 1 .. n - 1 /\ candidate = PlaceScores(candidate.idx)
       /\ Placed(candidate.idx)
       /\ \A j \in 1 .. n - 1 : Placed(j) /\ j # candidate.idx => PlaceBeats(candidate.idx, j)

Typed ==
  /\ document \in Documents
  /\ stage = "loaded" => cfg = ApplyDefaults(document)
  /\ table \in Seq(CompiledRoute)
  /\ stage \in {"matching", "routed"} => clean = Clean(request.path)

Remembered ==
  /\ stage = "matching" =>
       next \in 1 .. Len(table) + 1 /\ BestBefore(next) /\ CandidateBefore(next)
  /\ stage = "routed" => best # NoRoute /\ BestBefore(Len(table) + 1)

IInv == Typed /\ Remembered /\ RefusedRightly

-----------------------------------------------------------------------------
(***************************************************************************)
(* The orders                                                              *)
(***************************************************************************)

LEMMA ScoresTyped ==
  ASSUME table \in Seq(CompiledRoute), NEW j \in DOMAIN table
  PROVE  /\ HostScore(table[j], request) \in Int /\ PathScore(table[j]) \in Int
         /\ MethodScore(table[j]) \in Int /\ Len(table[j].headers) \in Int
         /\ j \in 1 .. Len(table) /\ Len(table) \in Nat
<1> DEFINE cr == table[j]
<1>1. cr \in CompiledRoute
  OBVIOUS
<1>2. HostScore(cr, request) \in {-1, 0, 1, 2}
  BY DEF HostScore
<1>3. Len(cr.headers) \in Int /\ Len(cr.pattern) \in Nat
  BY <1>1 DEF CompiledRoute
<1>4. cr.prefix # Absent => Len(cr.prefix[1]) \in Nat
  <2>1. cr.prefix \in Seq(Seq(STRING))
    BY <1>1 DEF CompiledRoute
  <2> QED
    BY <2>1 DEF Absent
<1>5. Cardinality({i \in DOMAIN cr.pattern : cr.pattern[i].kind = "literal"}) \in Nat
  <2>1. IsFiniteSet(1 .. Len(cr.pattern))
    BY <1>3, FS_Interval
  <2>2. DOMAIN cr.pattern = 1 .. Len(cr.pattern)
    BY <1>1 DEF CompiledRoute
  <2> QED
    BY <2>1, <2>2, FS_Subset, FS_CardinalityType
<1>6. PathScore(cr) \in Int
  <2> DEFINE segs == IF cr.prefix = Absent THEN 0 ELSE Len(cr.prefix[1])
             lits == Cardinality({i \in DOMAIN cr.pattern : cr.pattern[i].kind = "literal"})
  <2>1. PathScore(cr) = 2 * segs + Len(cr.pattern) + lits
    BY Zenon DEF PathScore
  <2>2. segs \in Nat /\ lits \in Nat
    BY <1>4, <1>5
  <2> HIDE DEF segs, lits
  <2> QED
    BY <1>3, <2>1, <2>2
<1>7. MethodScore(cr) \in Int
  BY DEF MethodScore
<1> QED
  BY <1>2, <1>3, <1>6, <1>7

\* The scores by themselves, so that a proof can look at nothing else.
H(n) == HostScore(table[n], request)
P(n) == PathScore(table[n])
M(n) == MethodScore(table[n])
X(n) == Len(table[n].headers)

LEMMA ScoresAreIntegers ==
  ASSUME table \in Seq(CompiledRoute)
  PROVE  \A n \in DOMAIN table : H(n) \in Int /\ P(n) \in Int /\ M(n) \in Int /\ X(n) \in Int /\ n \in Int
  BY ScoresTyped DEF H, P, M, X

BeatsScores(a, b) ==
  \/ H(a) > H(b)
  \/ H(a) = H(b) /\ P(a) > P(b)
  \/ H(a) = H(b) /\ P(a) = P(b) /\ M(a) > M(b)
  \/ H(a) = H(b) /\ P(a) = P(b) /\ M(a) = M(b) /\ X(a) > X(b)
  \/ H(a) = H(b) /\ P(a) = P(b) /\ M(a) = M(b) /\ X(a) = X(b) /\ a < b

PlaceBeatsScores(a, b) ==
  \/ H(a) > H(b)
  \/ H(a) = H(b) /\ P(a) > P(b)
  \/ H(a) = H(b) /\ P(a) = P(b) /\ a < b

LEMMA BeatsIs == \A a, b : Beats(a, b) <=> BeatsScores(a, b)
  BY DEF Beats, BeatsScores, Better4, Scores, H, P, M, X

LEMMA PlaceBeatsIs == \A a, b : PlaceBeats(a, b) <=> PlaceBeatsScores(a, b)
  BY DEF PlaceBeats, PlaceBeatsScores, BetterTuple, PlaceScores, H, P

\* better4 and betterTuple are strict total orders on the table's indices.
LEMMA BeatsOrders ==
  ASSUME table \in Seq(CompiledRoute)
  PROVE  /\ \A i, j, k \in DOMAIN table : Beats(i, j) /\ Beats(j, k) => Beats(i, k)
         /\ \A i, j \in DOMAIN table : i # j => Beats(i, j) \/ Beats(j, i)
<1>1. ASSUME NEW i \in DOMAIN table, NEW j \in DOMAIN table, NEW k \in DOMAIN table,
             Beats(i, j), Beats(j, k)
      PROVE  Beats(i, k)
  <2>1. BeatsScores(i, j) /\ BeatsScores(j, k)
    BY <1>1, BeatsIs
  <2>2. /\ H(i) \in Int /\ H(j) \in Int /\ H(k) \in Int /\ P(i) \in Int /\ P(j) \in Int /\ P(k) \in Int
        /\ M(i) \in Int /\ M(j) \in Int /\ M(k) \in Int /\ X(i) \in Int /\ X(j) \in Int /\ X(k) \in Int
        /\ i \in Int /\ j \in Int /\ k \in Int
    BY ScoresAreIntegers
  <2>3. BeatsScores(i, k)
    BY <2>1, <2>2, SMTT(30) DEF BeatsScores
  <2> QED
    BY <2>3, BeatsIs
<1>2. ASSUME NEW i \in DOMAIN table, NEW j \in DOMAIN table, i # j
      PROVE  Beats(i, j) \/ Beats(j, i)
  <2>1. BeatsScores(i, j) \/ BeatsScores(j, i)
    BY <1>2, ScoresAreIntegers DEF BeatsScores
  <2> QED
    BY <2>1, BeatsIs
<1> QED
  BY <1>1, <1>2

LEMMA PlaceBeatsOrders ==
  ASSUME table \in Seq(CompiledRoute)
  PROVE  /\ \A i, j, k \in DOMAIN table : PlaceBeats(i, j) /\ PlaceBeats(j, k) => PlaceBeats(i, k)
         /\ \A i, j \in DOMAIN table : i # j => PlaceBeats(i, j) \/ PlaceBeats(j, i)
<1>1. ASSUME NEW i \in DOMAIN table, NEW j \in DOMAIN table, NEW k \in DOMAIN table,
             PlaceBeats(i, j), PlaceBeats(j, k)
      PROVE  PlaceBeats(i, k)
  <2>1. PlaceBeatsScores(i, j) /\ PlaceBeatsScores(j, k)
    BY <1>1, PlaceBeatsIs
  <2>2. /\ H(i) \in Int /\ H(j) \in Int /\ H(k) \in Int /\ P(i) \in Int /\ P(j) \in Int /\ P(k) \in Int
        /\ M(i) \in Int /\ M(j) \in Int /\ M(k) \in Int /\ X(i) \in Int /\ X(j) \in Int /\ X(k) \in Int
        /\ i \in Int /\ j \in Int /\ k \in Int
    BY ScoresAreIntegers
  <2>3. PlaceBeatsScores(i, k)
    BY <2>1, <2>2, SMTT(30) DEF PlaceBeatsScores
  <2> QED
    BY <2>3, PlaceBeatsIs
<1>2. ASSUME NEW i \in DOMAIN table, NEW j \in DOMAIN table, i # j
      PROVE  PlaceBeats(i, j) \/ PlaceBeats(j, i)
  <2>1. PlaceBeatsScores(i, j) \/ PlaceBeatsScores(j, i)
    BY <1>2, ScoresAreIntegers DEF PlaceBeatsScores
  <2> QED
    BY <2>1, PlaceBeatsIs
<1> QED
  BY <1>1, <1>2

\* What better4 decides is what the documented criteria decide.
LEMMA BeatsPrecedes ==
  ASSUME table \in Seq(CompiledRoute), NEW i \in DOMAIN table, NEW j \in DOMAIN table,
         Beats(i, j)
  PROVE  Precedes(i, j)
<1> DEFINE Same(n) == Rank(i)[n] = Rank(j)[n]
<1>1. CASE HostScore(table[i], request) > HostScore(table[j], request)
  <2>1. Above(i, j, 1)
    BY <1>1 DEF Above, Rank
  <2> QED
    BY <2>1 DEF Precedes
<1>2. CASE Same(1) /\ PathScore(table[i]) > PathScore(table[j])
  <2>1. Above(i, j, 2)
    BY <1>2 DEF Above, Rank
  <2> QED
    BY <2>1 DEF Precedes
<1>3. CASE Same(1) /\ Same(2) /\ MethodScore(table[i]) > MethodScore(table[j])
  <2>1. Above(i, j, 3)
    BY <1>3 DEF Above, Rank
  <2> QED
    BY <2>1 DEF Precedes
<1>4. CASE Same(1) /\ Same(2) /\ Same(3) /\ Len(table[i].headers) > Len(table[j].headers)
  <2>1. Above(i, j, 4)
    BY <1>4 DEF Above, Rank
  <2> QED
    BY <2>1 DEF Precedes
<1>5. CASE Same(1) /\ Same(2) /\ Same(3) /\ Same(4) /\ i < j
  <2>1. Above(i, j, 5)
    BY <1>5, ScoresTyped DEF Above, Rank
  <2> QED
    BY <2>1 DEF Precedes
<1> QED
  BY <1>1, <1>2, <1>3, <1>4, <1>5 DEF Beats, Better4, Scores, Rank

LEMMA PlaceBeatsAbove ==
  ASSUME table \in Seq(CompiledRoute), NEW i \in DOMAIN table, NEW j \in DOMAIN table,
         PlaceBeats(i, j)
  PROVE  \/ \E n \in 1 .. 2 : Above(i, j, n)
         \/ i < j /\ \A n \in 1 .. 2 : Rank(i)[n] = Rank(j)[n]
<1>1. CASE HostScore(table[i], request) > HostScore(table[j], request)
  <2>1. Above(i, j, 1)
    BY <1>1 DEF Above, Rank
  <2> QED
    BY <2>1
<1>2. CASE /\ HostScore(table[i], request) = HostScore(table[j], request)
           /\ PathScore(table[i]) > PathScore(table[j])
  <2>1. Above(i, j, 2)
    BY <1>2 DEF Above, Rank
  <2> QED
    BY <2>1
<1>3. CASE /\ HostScore(table[i], request) = HostScore(table[j], request)
           /\ PathScore(table[i]) = PathScore(table[j]) /\ i < j
  BY <1>3 DEF Rank
<1> QED
  BY <1>1, <1>2, <1>3 DEF PlaceBeats, BetterTuple, PlaceScores

-----------------------------------------------------------------------------
(***************************************************************************)
(* One turn of the loop                                                    *)
(***************************************************************************)

\* When nothing a decision looks at changes, neither does what it says.
Fixed == UNCHANGED << table, request, clean >>

LEMMA FixedScores ==
  ASSUME Fixed
  PROVE  \A i, j : /\ Scores(i)' = Scores(i) /\ PlaceScores(i)' = PlaceScores(i)
                   /\ Fits(i)' = Fits(i) /\ Placed(i)' = Placed(i)
                   /\ Beats(i, j)' = Beats(i, j) /\ PlaceBeats(i, j)' = PlaceBeats(i, j)
<1>1. table' = table /\ request' = request /\ clean' = clean
  BY DEF Fixed
<1>2. \A i : Scores(i)' = Scores(i) /\ PlaceScores(i)' = PlaceScores(i)
  BY <1>1 DEF Scores, PlaceScores
<1>3. \A i : Fits(i)' = Fits(i) /\ Placed(i)' = Placed(i)
  BY <1>1 DEF Fits, Placed
<1>4. \A i, j : Beats(i, j)' = Beats(i, j) /\ PlaceBeats(i, j)' = PlaceBeats(i, j)
  BY <1>1, <1>2 DEF Beats, PlaceBeats
<1> QED
  BY <1>2, <1>3, <1>4

LEMMA ConsiderBest ==
  ASSUME table \in Seq(CompiledRoute), next \in 1 .. Len(table), BestBefore(next), Consider
  PROVE  BestBefore(next)'
<1> DEFINE Wins == Fits(next) /\ (best = NoRoute \/ Better4(H(next), P(next), M(next), X(next), next, best))
<1>1. Fixed /\ next' = next + 1
  BY DEF Consider, Fixed, generation
<1>2. best' = IF Wins THEN Scores(next) ELSE best
  BY DEF Consider, Fits, Placed, Scores, H, P, M, X
<1>3. next \in Nat /\ next \in DOMAIN table /\ \A j \in 1 .. next - 1 : j \in DOMAIN table /\ j # next
  OBVIOUS
<1>4. \A j : Scores(j).idx = j
  BY DEF Scores
<1>5. Scores(next) # NoRoute
  BY <1>3, <1>4 DEF NoRoute
<1>6. \A j : Beats(next, j) <=> Better4(H(next), P(next), M(next), X(next), next, Scores(j))
  BY DEF Beats, H, P, M, X
<1> DEFINE Found(b) ==
       /\ b = NoRoute => \A j \in 1 .. next : ~Fits(j)
       /\ b # NoRoute =>
            /\ b.idx \in 1 .. next /\ b = Scores(b.idx) /\ Fits(b.idx)
            /\ \A j \in 1 .. next : Fits(j) /\ j # b.idx => Beats(b.idx, j)
<1>7. ASSUME Wins PROVE Found(best')
  <2>1. best' = Scores(next) /\ best' # NoRoute /\ best'.idx = next
    BY <1>2, <1>4, <1>5, <1>7
  <2>2. ASSUME NEW j \in 1 .. next, Fits(j), j # next
        PROVE  Beats(next, j)
    <3>1. j \in 1 .. next - 1
      BY <1>3, <2>2
    <3>2. best # NoRoute /\ best.idx \in 1 .. next - 1 /\ best = Scores(best.idx)
      BY <2>2, <3>1 DEF BestBefore
    <3>3. Beats(next, best.idx)
      BY <1>6, <1>7, <3>2
    <3>4. j = best.idx \/ Beats(best.idx, j)
      BY <2>2, <3>1, <3>2 DEF BestBefore
    <3> QED
      BY <1>3, <3>1, <3>2, <3>3, <3>4, BeatsOrders
  <2> QED
    BY <1>3, <1>4, <1>7, <2>1, <2>2
<1>8. ASSUME ~Wins PROVE Found(best')
  <2>1. best' = best
    BY <1>2, <1>8
  <2>2. ASSUME best # NoRoute, Fits(next)
        PROVE  Beats(best.idx, next)
    <3>1. best.idx \in 1 .. next - 1 /\ best = Scores(best.idx)
      BY <2>2 DEF BestBefore
    <3>2. ~Beats(next, best.idx)
      BY <1>6, <1>8, <2>2, <3>1
    <3> QED
      BY <1>3, <3>1, <3>2, BeatsOrders
  <2>3. best = NoRoute => ~Fits(next)
    BY <1>8
  <2>4. 1 .. next = (1 .. next - 1) \cup {next}
    BY <1>3
  <2>5. Found(best)
    BY <2>2, <2>3, <2>4 DEF BestBefore
  <2> QED
    BY <2>1, <2>5
<1>9. next' - 1 = next
  BY <1>1, <1>3
<1>10. Found(best')
  BY <1>7, <1>8
<1> QED
  BY <1>1, <1>9, <1>10, FixedScores DEF BestBefore

LEMMA ConsiderCandidate ==
  ASSUME table \in Seq(CompiledRoute), next \in 1 .. Len(table), CandidateBefore(next), Consider
  PROVE  CandidateBefore(next)'
<1> DEFINE Wins == Placed(next) /\ (candidate = NoRoute \/ BetterTuple(H(next), P(next), next, candidate))
<1>1. Fixed /\ next' = next + 1
  BY DEF Consider, Fixed, generation
<1>2. candidate' = IF Wins THEN PlaceScores(next) ELSE candidate
  BY DEF Consider, Placed, PlaceScores, H, P
<1>3. next \in Nat /\ next \in DOMAIN table /\ \A j \in 1 .. next - 1 : j \in DOMAIN table /\ j # next
  OBVIOUS
<1>4. \A j : PlaceScores(j).idx = j
  BY DEF PlaceScores
<1>5. PlaceScores(next) # NoRoute
  BY <1>3, <1>4 DEF NoRoute
<1>6. \A j : PlaceBeats(next, j) <=> BetterTuple(H(next), P(next), next, PlaceScores(j))
  BY DEF PlaceBeats, H, P
<1> DEFINE Found(b) ==
       /\ b = NoRoute => \A j \in 1 .. next : ~Placed(j)
       /\ b # NoRoute =>
            /\ b.idx \in 1 .. next /\ b = PlaceScores(b.idx) /\ Placed(b.idx)
            /\ \A j \in 1 .. next : Placed(j) /\ j # b.idx => PlaceBeats(b.idx, j)
<1>7. ASSUME Wins PROVE Found(candidate')
  <2>1. candidate' = PlaceScores(next) /\ candidate' # NoRoute /\ candidate'.idx = next
    BY <1>2, <1>4, <1>5, <1>7
  <2>2. ASSUME NEW j \in 1 .. next, Placed(j), j # next
        PROVE  PlaceBeats(next, j)
    <3>1. j \in 1 .. next - 1
      BY <1>3, <2>2
    <3>2. candidate # NoRoute /\ candidate.idx \in 1 .. next - 1 /\ candidate = PlaceScores(candidate.idx)
      BY <2>2, <3>1 DEF CandidateBefore
    <3>3. PlaceBeats(next, candidate.idx)
      BY <1>6, <1>7, <3>2
    <3>4. j = candidate.idx \/ PlaceBeats(candidate.idx, j)
      BY <2>2, <3>1, <3>2 DEF CandidateBefore
    <3> QED
      BY <1>3, <3>1, <3>2, <3>3, <3>4, PlaceBeatsOrders
  <2> QED
    BY <1>3, <1>4, <1>7, <2>1, <2>2
<1>8. ASSUME ~Wins PROVE Found(candidate')
  <2>1. candidate' = candidate
    BY <1>2, <1>8
  <2>2. ASSUME candidate # NoRoute, Placed(next)
        PROVE  PlaceBeats(candidate.idx, next)
    <3>1. candidate.idx \in 1 .. next - 1 /\ candidate = PlaceScores(candidate.idx)
      BY <2>2 DEF CandidateBefore
    <3>2. ~PlaceBeats(next, candidate.idx)
      BY <1>6, <1>8, <2>2, <3>1
    <3> QED
      BY <1>3, <3>1, <3>2, PlaceBeatsOrders
  <2>3. candidate = NoRoute => ~Placed(next)
    BY <1>8
  <2>4. 1 .. next = (1 .. next - 1) \cup {next}
    BY <1>3
  <2>5. Found(candidate)
    BY <2>2, <2>3, <2>4 DEF CandidateBefore
  <2> QED
    BY <2>1, <2>5
<1>9. next' - 1 = next
  BY <1>1, <1>3
<1>10. Found(candidate')
  BY <1>7, <1>8
<1> QED
  BY <1>1, <1>9, <1>10, FixedScores DEF CandidateBefore

-----------------------------------------------------------------------------
(***************************************************************************)
(* The invariant                                                           *)
(***************************************************************************)

LEMMA LoopStarts ==
  /\ best = NoRoute /\ candidate = NoRoute => BestBefore(1) /\ CandidateBefore(1)
  BY DEF BestBefore, CandidateBefore

LEMMA Initially == Init => IInv
  BY DEF Init, IInv, Typed, Remembered, RefusedRightly

\* The answer Decide gives when nothing fits.
LEMMA DecideRefuses ==
  ASSUME IInv, Decide
  PROVE  RefusedRightly'
<1>1. /\ stage = "matching" /\ next = Len(table) + 1 /\ Len(table) \in Nat
      /\ BestBefore(next) /\ CandidateBefore(next) /\ DOMAIN table = 1 .. next - 1
  BY DEF IInv, Typed, Remembered, Decide
<1>2. Fixed /\ UNCHANGED candidate
  BY DEF Decide, Fixed, generation, matching
<1>3. CASE best # NoRoute
  BY <1>3 DEF Decide, RefusedRightly
<1>4. CASE best = NoRoute /\ candidate # NoRoute
  <2>1. outcome'.code = "RT002"
    BY <1>4 DEF Decide, Refusal, NoOutcome
  <2>2. /\ candidate.idx \in DOMAIN table /\ Placed(candidate.idx)
        /\ \A j \in DOMAIN table : ~Fits(j)
        /\ \A j \in DOMAIN table : Placed(j) /\ j # candidate.idx => PlaceBeats(candidate.idx, j)
    BY <1>1, <1>4 DEF BestBefore, CandidateBefore
  <2>3. \A j \in DOMAIN table : Placed(j) /\ j # candidate.idx =>
          \/ \E n \in 1 .. 2 : Above(candidate.idx, j, n)
          \/ candidate.idx < j /\ \A n \in 1 .. 2 : Rank(candidate.idx)[n] = Rank(j)[n]
    BY <2>2, PlaceBeatsAbove DEF IInv, Typed
  <2> QED
    BY <1>2, <2>1, <2>2, <2>3 DEF Fixed, RefusedRightly, Placed, Fits, Above, Rank
<1>5. CASE best = NoRoute /\ candidate = NoRoute
  <2>1. outcome'.code = "RT001"
    BY <1>5 DEF Decide, Refusal, NoOutcome
  <2>2. \A j \in DOMAIN table : ~Placed(j)
    BY <1>1, <1>5 DEF CandidateBefore
  <2> QED
    BY <1>2, <2>1, <2>2 DEF Fixed, RefusedRightly, Placed
<1> QED
  BY <1>3, <1>4, <1>5

LEMMA Steps ==
  ASSUME IInv, [Next]_vars
  PROVE  IInv'
<1> USE DEF generation, matching
<1>1. CASE Load
  BY <1>1 DEF Load, IInv, Typed, Remembered, RefusedRightly
<1>2. CASE Build
  <2>1. document \in Documents /\ cfg = ApplyDefaults(document)
    BY <1>2 DEF Build, IInv, Typed
  <2>2. table' \in Seq(CompiledRoute)
    BY <1>2, <2>1, DispatchAssumption DEF Build, IInv, Typed
  <2> QED
    BY <1>2, <2>1, <2>2 DEF Build, IInv, Typed, Remembered, RefusedRightly
<1>3. ASSUME NEW r \in Requests, Receive(r)
      PROVE  IInv'
  <2>1. Typed'
    BY <1>3 DEF Receive, IInv, Typed
  <2>2. next' = 1 /\ best' = NoRoute /\ candidate' = NoRoute /\ table' = table
    BY <1>3 DEF Receive
  <2>3. BestBefore(next)' /\ CandidateBefore(next)'
    BY <2>2 DEF BestBefore, CandidateBefore
  <2>4. next' \in 1 .. Len(table') + 1
    BY <2>1, <2>2 DEF Typed
  <2>5. Remembered'
    BY <1>3, <2>3, <2>4 DEF Receive, Remembered
  <2>6. RefusedRightly'
    BY <1>3 DEF Receive, RefusedRightly, Refusal, NoOutcome
  <2> QED
    BY <2>1, <2>5, <2>6 DEF IInv
<1>4. CASE Consider
  <2>1. /\ stage = "matching" /\ stage' = "matching" /\ table' = table
        /\ next' = next + 1 /\ next \in DOMAIN table
    BY <1>4 DEF Consider
  <2>2. table \in Seq(CompiledRoute) /\ BestBefore(next) /\ CandidateBefore(next)
    BY <2>1 DEF IInv, Typed, Remembered
  <2>3. next \in 1 .. Len(table) /\ next' \in 1 .. Len(table') + 1
    BY <2>1, <2>2
  <2>4. BestBefore(next)' /\ CandidateBefore(next)'
    BY <1>4, <2>2, <2>3, ConsiderBest, ConsiderCandidate
  <2> QED
    BY <1>4, <2>1, <2>3, <2>4 DEF Consider, IInv, Typed, Remembered, RefusedRightly
<1>5. CASE Decide
  <2>1. RefusedRightly'
    BY <1>5, DecideRefuses
  <2>2. Fixed /\ UNCHANGED << document, cfg, best, next >> /\ stage = "matching"
    BY <1>5 DEF Decide, Fixed
  <2>3. stage' \in {"routed", "answered"} /\ (stage' = "routed" => best # NoRoute)
    BY <1>5 DEF Decide
  <2>4. next = Len(table) + 1 /\ BestBefore(next)
    BY <1>5, <2>2 DEF Decide, IInv, Typed, Remembered
  <2>5. BestBefore(Len(table) + 1)'
    BY <2>2, <2>4, FixedScores DEF BestBefore, Fixed
  <2> QED
    BY <2>1, <2>2, <2>3, <2>5 DEF Fixed, IInv, Typed, Remembered
<1>6. CASE Forward
  <2>1. /\ stage = "routed" /\ stage' = "answered"
        /\ UNCHANGED << document, cfg, table, request, clean >>
    BY <1>6 DEF Forward
  <2>2. outcome'.code = "forwarded" \/ (outcome'.code = "RT003" /\ PathHasDotSegments(Clean(request.path)))
    BY <1>6 DEF Forward, Refusal, NoOutcome
  <2>3. clean = Clean(request.path)
    BY <2>1 DEF IInv, Typed
  <2> QED
    BY <2>1, <2>2, <2>3 DEF IInv, Typed, Remembered, RefusedRightly
<1>7. CASE UNCHANGED vars
  <2>1. UNCHANGED vars
    BY <1>7
  <2> QED
    BY <2>1 DEF vars, IInv, Typed, Remembered, RefusedRightly, BestBefore, CandidateBefore,
                Scores, PlaceScores, Beats, PlaceBeats, Placed, Fits, Above, Rank
<1> QED
  BY <1>1, <1>2, <1>3, <1>4, <1>5, <1>6, <1>7 DEF Next

LEMMA Invariance == Spec => []IInv
<1> QED
  BY Initially, Steps, PTL DEF Spec

-----------------------------------------------------------------------------
(***************************************************************************)
(* Types                                                                   *)
(***************************************************************************)

\* Until a generation is built, nothing has been matched.
Fresh == stage \in {"file", "loaded"} => next = 0 /\ best = NoRoute /\ candidate = NoRoute

TInv == TypeOK /\ Typed /\ Fresh

LEMMA RefusalCode == \A code, allow : Refusal(code, allow).code = code /\ NoOutcome.code = "none"
  BY DEF Refusal, NoOutcome

LEMMA TypesKept ==
  ASSUME TInv, [Next]_vars
  PROVE  TInv'
<1> USE DEF generation, matching
<1>1. CASE Load
  BY <1>1 DEF Load, TInv, TypeOK, Typed, Fresh
<1>2. CASE Build
  <2>1. document \in Documents /\ cfg = ApplyDefaults(document)
    BY <1>2 DEF Build, TInv, Typed
  <2>2. table' \in Seq(CompiledRoute)
    BY <1>2, <2>1, DispatchAssumption DEF Build, TInv, Typed
  <2>3. next' = 0 /\ best' = NoRoute /\ candidate' = NoRoute
    BY <1>2 DEF Build, TInv, Fresh
  <2>4. best'.idx = 0 /\ candidate'.idx = 0
    BY <2>3 DEF NoRoute
  <2> QED
    BY <1>2, <2>1, <2>2, <2>3, <2>4 DEF Build, TInv, TypeOK, Typed, Fresh
<1>3. ASSUME NEW r \in Requests, Receive(r)
      PROVE  TInv'
  <2>1. best'.idx = 0 /\ candidate'.idx = 0
    BY <1>3 DEF Receive, NoRoute
  <2>2. outcome'.code \in {"none", "RT003"}
    BY <1>3, RefusalCode DEF Receive
  <2> QED
    BY <1>3, <2>1, <2>2 DEF Receive, TInv, TypeOK, Typed, Fresh
<1>4. CASE Consider
  <2>1. next \in 1 .. Len(table) /\ table' = table /\ table \in Seq(CompiledRoute)
    BY <1>4 DEF Consider, TInv, Typed
  <2>2. best'.idx \in {next, best.idx} /\ candidate'.idx \in {next, candidate.idx}
    BY <1>4 DEF Consider
  <2> QED
    BY <1>4, <2>1, <2>2 DEF Consider, TInv, TypeOK, Typed, Fresh
<1>5. CASE Decide
  <2>1. CASE best # NoRoute
    BY <1>5, <2>1 DEF Decide, TInv, TypeOK, Typed, Fresh
  <2>2. CASE best = NoRoute /\ candidate # NoRoute
    <3>1. outcome'.code = "RT002"
      BY <1>5, <2>2, RefusalCode DEF Decide
    <3> QED
      BY <1>5, <2>2, <3>1 DEF Decide, TInv, TypeOK, Typed, Fresh
  <2>3. CASE best = NoRoute /\ candidate = NoRoute
    <3>1. outcome'.code = "RT001"
      BY <1>5, <2>3, RefusalCode DEF Decide
    <3> QED
      BY <1>5, <2>3, <3>1 DEF Decide, TInv, TypeOK, Typed, Fresh
  <2> QED
    BY <2>1, <2>2, <2>3
<1>6. CASE Forward
  <2>1. outcome'.code \in {"forwarded", "RT003"}
    BY <1>6, RefusalCode DEF Forward, NoOutcome
  <2>2. /\ stage = "routed" /\ stage' = "answered"
        /\ UNCHANGED << document, world, cfg, table, request, clean, next, best, candidate >>
    BY <1>6 DEF Forward
  <2> QED
    BY <2>1, <2>2 DEF TInv, TypeOK, Typed, Fresh
<1>7. CASE UNCHANGED vars
  BY <1>7 DEF vars, TInv, TypeOK, Typed, Fresh
<1> QED
  BY <1>1, <1>2, <1>3, <1>4, <1>5, <1>6, <1>7 DEF Next

-----------------------------------------------------------------------------
(***************************************************************************)
(* The theorems                                                            *)
(***************************************************************************)

\* The variables keep their types; in particular what Match remembers never
\* lies outside the table (Router.Match).
THEOREM TypeCorrect == Spec => []TypeOK
<1>1. Init => TInv
  BY DEF Init, TInv, TypeOK, Typed, Fresh, NoRoute, NoOutcome
<1>2. TInv => TypeOK
  BY DEF TInv
<1> QED
  BY <1>1, <1>2, TypesKept, PTL DEF Spec

\* Whatever the table, the route a request is handed to is the one the
\* documented order puts before every other that matches (Router.Match).
THEOREM TheBestRouteWins == Spec => []WinnerIsBest
<1>1. ASSUME IInv PROVE WinnerIsBest
  <2>1. SUFFICES ASSUME stage = "routed"
                 PROVE  /\ best.idx \in DOMAIN table /\ Fits(best.idx)
                        /\ \A j \in DOMAIN table : Fits(j) /\ j # best.idx => Precedes(best.idx, j)
    BY DEF WinnerIsBest
  <2>2. best # NoRoute /\ BestBefore(Len(table) + 1) /\ table \in Seq(CompiledRoute)
    BY <1>1, <2>1 DEF IInv, Typed, Remembered
  <2>3. 1 .. Len(table) + 1 - 1 = DOMAIN table
    BY <2>2
  <2>4. /\ best.idx \in DOMAIN table /\ Fits(best.idx)
        /\ \A j \in DOMAIN table : Fits(j) /\ j # best.idx => Beats(best.idx, j)
    BY <2>2, <2>3 DEF BestBefore
  <2> QED
    BY <2>2, <2>4, BeatsPrecedes
<1> QED
  BY <1>1, Invariance, PTL

\* Whatever the table, a request is refused for the documented reason: 404
\* when no route takes its host and path, 405 when none takes it altogether
\* and with the best of those that take its host and path (Router.Match).
THEOREM RefusalsAreRight == Spec => []RefusedRightly
<1>1. IInv => RefusedRightly
  BY DEF IInv
<1> QED
  BY <1>1, Invariance, PTL

-----------------------------------------------------------------------------
(***************************************************************************)
(* What the defaults leave alone                                           *)
(***************************************************************************)

LEMMA ServerDefaultsKeep ==
  ASSUME NEW pools, NEW d \in DocumentType(pools)
  PROVE  /\ ServerDefaults(d).routes = d.routes /\ ServerDefaults(d).upstreams = d.upstreams
         /\ {"routes", "upstreams"} \subseteq DOMAIN ServerDefaults(d)
  BY DEF ServerDefaults, DocumentType

LEMMA DefaultRoutes ==
  ASSUME NEW pools, NEW d \in DocumentType(pools)
  PROVE  /\ ApplyDefaults(d).routes = [i \in DOMAIN d.routes |-> RouteDefaults(d.routes[i])]
         /\ ApplyDefaults(d).upstreams = [name \in DOMAIN d.upstreams |-> UpstreamDefaults(d.upstreams[name])]
  BY ServerDefaultsKeep DEF ApplyDefaults

LEMMA RouteDefaultsKeep ==
  ASSUME NEW r \in RouteType
  PROVE  /\ RouteDefaults(r).name = r.name /\ RouteDefaults(r).prefix = r.prefix
         /\ RouteDefaults(r).strip = r.strip /\ RouteDefaults(r).upstreams = r.upstreams
         /\ RouteDefaults(r).mirror = r.mirror /\ RouteDefaults(r).auth = r.auth
         /\ RouteDefaults(r).timeout = SetDur(r.timeout, 60 * Second)
         /\ RouteDefaults(r).limits = [k \in DOMAIN r.limits |-> LimitDefaults(r.limits[k])]
  BY DEF RouteDefaults, RouteType

LEMMA LimitDefaultsKeep ==
  ASSUME NEW rl \in LimitType
  PROVE  /\ LimitDefaults(rl).name = rl.name /\ LimitDefaults(rl).window = rl.window
         /\ LimitDefaults(rl).strategy = rl.strategy /\ LimitDefaults(rl).key = rl.key
         /\ LimitDefaults(rl).limit = rl.limit /\ LimitDefaults(rl).burst = rl.burst
         /\ LimitDefaults(rl).capacity = rl.capacity
         /\ LimitDefaults(rl).cells = Default(rl.cells, 0, 10)
         /\ LimitDefaults(rl).maxKeys = Default(rl.maxKeys, 0, 65536)
  BY SMT DEF LimitDefaults, LimitType

\* A limiter as the strategies' checkers get it.
Filled(rl) ==
  /\ rl.name \in Seq(STRING) /\ rl.window.value \in Int
  /\ rl.limit \in Int /\ rl.burst \in Int /\ rl.capacity \in Int
  /\ rl.cells \in Int \ {0} /\ rl.maxKeys \in Int \ {0}

LEMMA LimitDefaultsTyped ==
  ASSUME NEW rl \in LimitType
  PROVE  Filled(LimitDefaults(rl))
<1>1. /\ rl.name \in Seq(STRING) /\ rl.limit \in Int /\ rl.burst \in Int /\ rl.capacity \in Int
      /\ rl.cells \in Int /\ rl.maxKeys \in Int /\ rl.window.value \in Int
  BY SMT DEF LimitType, DurationType
<1>2. Default(rl.cells, 0, 10) \in Int \ {0} /\ Default(rl.maxKeys, 0, 65536) \in Int \ {0}
  BY <1>1, SMT DEF Default
<1> DEFINE e == LimitDefaults(rl)
<1>3. /\ e.name = rl.name /\ e.window = rl.window /\ e.limit = rl.limit /\ e.burst = rl.burst
      /\ e.capacity = rl.capacity
      /\ e.cells = Default(rl.cells, 0, 10) /\ e.maxKeys = Default(rl.maxKeys, 0, 65536)
  BY LimitDefaultsKeep, SMTT(20)
<1> HIDE DEF e
<1>4. Filled(e)
  BY <1>1, <1>2, <1>3, SMT DEF Filled
<1> QED
  BY <1>4 DEF e

\* The lists of an effective configuration, and what is in them.
Listed(c) ==
  /\ \E n \in Nat : DOMAIN c.routes = 1 .. n
  /\ \A i \in DOMAIN c.routes :
       /\ c.routes[i].name \in Seq(STRING) /\ c.routes[i].strip \in BOOLEAN
       /\ c.routes[i].auth \in Seq(AuthType)
       /\ \E n \in Nat : DOMAIN c.routes[i].limits = 1 .. n
       /\ \A k \in DOMAIN c.routes[i].limits : Filled(c.routes[i].limits[k])

LEMMA DefaultsListed ==
  ASSUME NEW pools, NEW d \in DocumentType(pools)
  PROVE  Listed(ApplyDefaults(d))
<1> DEFINE c == ApplyDefaults(d)
<1>1. d.routes \in Seq(RouteType)
  BY DEF DocumentType
<1>0. c.routes = [i \in DOMAIN d.routes |-> RouteDefaults(d.routes[i])]
  BY DefaultRoutes, Zenon
<1> HIDE DEF c
<1>2. DOMAIN c.routes = 1 .. Len(d.routes) /\ Len(d.routes) \in Nat
  BY <1>1, <1>0
<1>3. ASSUME NEW i \in DOMAIN c.routes
      PROVE  /\ c.routes[i].name \in Seq(STRING) /\ c.routes[i].strip \in BOOLEAN
             /\ c.routes[i].auth \in Seq(AuthType)
             /\ \E n \in Nat : DOMAIN c.routes[i].limits = 1 .. n
             /\ \A k \in DOMAIN c.routes[i].limits : Filled(c.routes[i].limits[k])
  <2> DEFINE r == d.routes[i]
  <2>1. i \in DOMAIN d.routes /\ r \in RouteType
    BY <1>1, <1>2
  <2>2. c.routes[i] = RouteDefaults(r)
    BY <2>1, <1>0
  <2>3. r.name \in Seq(STRING) /\ r.strip \in BOOLEAN /\ r.limits \in Seq(LimitType) /\ r.auth \in Seq(AuthType)
    BY <2>1 DEF RouteType
  <2>4. RouteDefaults(r).limits = [k \in 1 .. Len(r.limits) |-> LimitDefaults(r.limits[k])]
    <3>1. RouteDefaults(r).limits = [k \in DOMAIN r.limits |-> LimitDefaults(r.limits[k])]
      BY <2>1, RouteDefaultsKeep
    <3>2. DOMAIN r.limits = 1 .. Len(r.limits)
      BY <2>3
    <3> QED
      BY <3>1, <3>2
  <2>5. \A k \in 1 .. Len(r.limits) : Filled(LimitDefaults(r.limits[k]))
    BY <2>3, LimitDefaultsTyped
  <2>6. RouteDefaults(r).name = r.name /\ RouteDefaults(r).strip = r.strip /\ RouteDefaults(r).auth = r.auth
    BY <2>1, RouteDefaultsKeep
  <2>7. Len(r.limits) \in Nat
    BY <2>3
  <2> HIDE DEF r
  <2>8. \E n \in Nat : DOMAIN c.routes[i].limits = 1 .. n
    BY <2>2, <2>4, <2>7
  <2>9. \A k \in DOMAIN c.routes[i].limits : Filled(c.routes[i].limits[k])
    BY <2>2, <2>4, <2>5
  <2> QED
    BY <2>2, <2>3, <2>6, <2>8, <2>9
<1> QED
  BY <1>2, <1>3 DEF Listed, c

-----------------------------------------------------------------------------
(***************************************************************************)
(* What validation leaves nothing to say about                             *)
(***************************************************************************)

LEMMA NoneOfBoth == \A A, B : A \cup B = {} => A = {} /\ B = {}
<1>1. ASSUME NEW A, NEW B, A \cup B = {} PROVE A = {} /\ B = {}
  <2>1. \A x : x \notin A \cup B
    BY <1>1
  <2> QED
    BY <2>1
<1> QED
  BY <1>1

LEMMA NoneOfUnion == \A S : UNION S = {} => \A A \in S : A = {}
<1>1. ASSUME NEW S, UNION S = {}, NEW A \in S PROVE A = {}
  <2>1. \A x : x \notin UNION S
    BY <1>1
  <2> QED
    BY <1>1, <2>1
<1> QED
  BY <1>1

LEMMA RouteSound ==
  ASSUME NEW routes, NEW i, NEW pools, RouteProblems(routes, i, pools) = {}
  PROVE  /\ routes[i].name # << >> /\ NameRe(routes[i].name) /\ ~NamedBefore(routes, i)
         /\ PoolProblems(routes[i].upstreams, pools, << "routes", i >>) = {}
         /\ Issue(routes[i].timeout, Append(<< "routes", i >>, "timeout")) = {}
         /\ \A k \in DOMAIN routes[i].mirror : \E where : MirrorProblems(routes[i].mirror[k], pools, where) = {}
         /\ \A k \in DOMAIN routes[i].auth : \E where : AuthProblems(routes[i].auth[k], where) = {}
         /\ \A k \in DOMAIN routes[i].limits : \E where : LimitProblems(routes[i].limits, k, where) = {}
<1> DEFINE r == routes[i]
           where == << "routes", i >>
           at == Append(where, "name")
           mirrors == {MirrorProblems(r.mirror[k], pools, Append(where, "mirror")) : k \in DOMAIN r.mirror}
           crosses == {CORSProblems(r.cors[k], Append(where, "cors")) : k \in DOMAIN r.cors}
           auths == {AuthProblems(r.auth[k], Append(where, "auth")) : k \in DOMAIN r.auth}
           limits == {LimitProblems(r.limits, k, where \o << "rate_limits", k >>) : k \in DOMAIN r.limits}
<1>1. r.name # << >>
  <2>1. r.name = << >> => RouteProblems(routes, i, pools) = {<< at, "CFG003" >>}
    BY Zenon DEF RouteProblems
  <2> HIDE DEF r, at
  <2> QED
    BY <2>1
<1> DEFINE N == Check(NameRe(r.name), at, "CFG002")
           B == Check(~NamedBefore(routes, i), at, "CFG004")
           P1 == PredicateProblems(r, where)
           P2 == PathProblems(r, where)
           P3 == PoolProblems(r.upstreams, pools, where)
           T == Issue(r.timeout, Append(where, "timeout"))
           U1 == UNION mirrors
           W == RewriteProblems(r, where)
           U2 == UNION crosses
           U3 == UNION auths
           U4 == UNION limits
<1>2. RouteProblems(routes, i, pools) =
        N \cup B \cup P1 \cup P2 \cup P3 \cup T \cup U1 \cup W \cup U2 \cup U3 \cup U4
  BY <1>1 DEF RouteProblems
<1>3. N = {} /\ B = {} /\ P3 = {} /\ T = {} /\ U1 = {} /\ U3 = {} /\ U4 = {}
  <2> HIDE DEF N, B, P1, P2, P3, T, U1, W, U2, U3, U4
  <2> QED
    BY <1>2, NoneOfBoth, Zenon
<1>4. NameRe(r.name) /\ ~NamedBefore(routes, i)
  BY <1>3 DEF Check
<1>5. ASSUME NEW k \in DOMAIN r.mirror
      PROVE  MirrorProblems(r.mirror[k], pools, Append(where, "mirror")) = {}
  <2>1. MirrorProblems(r.mirror[k], pools, Append(where, "mirror")) \in mirrors
    OBVIOUS
  <2> HIDE DEF mirrors
  <2> QED
    BY <1>3, <2>1, NoneOfUnion, Zenon
<1>6. ASSUME NEW k \in DOMAIN r.auth
      PROVE  AuthProblems(r.auth[k], Append(where, "auth")) = {}
  <2>1. AuthProblems(r.auth[k], Append(where, "auth")) \in auths
    OBVIOUS
  <2> HIDE DEF auths
  <2> QED
    BY <1>3, <2>1, NoneOfUnion, Zenon
<1>7. ASSUME NEW k \in DOMAIN r.limits
      PROVE  LimitProblems(r.limits, k, where \o << "rate_limits", k >>) = {}
  <2>1. LimitProblems(r.limits, k, where \o << "rate_limits", k >>) \in limits
    OBVIOUS
  <2> HIDE DEF limits
  <2> QED
    BY <1>3, <2>1, NoneOfUnion, Zenon
<1> QED
  BY <1>1, <1>3, <1>4, <1>5, <1>6, <1>7, Zenon

LEMMA LimitSound ==
  ASSUME NEW limits, NEW k, NEW where, LimitProblems(limits, k, where) = {}
  PROVE  /\ limits[k].name # << >> /\ NameRe(limits[k].name) /\ ~NamedBefore(limits, k)
         /\ limits[k].strategy \in Strategies
         /\ CheckSettings(limits[k].strategy, SettingsOf(limits[k])) = {}
         /\ ParseKeySpec(limits[k].key).ok
         /\ limits[k].limit > 0 /\ ~limits[k].window.err
         /\ limits[k].burst >= 0 /\ limits[k].capacity >= 0
         /\ limits[k].cells # 0 => limits[k].cells \in 2 .. Cells
         /\ limits[k].maxKeys = 0 \/ limits[k].maxKeys >= 8
<1> DEFINE rl == limits[k]
           C1 == Check(rl.name # << >>, where, "CFG003")
           C2 == Check(rl.name # << >> => NameRe(rl.name), where, "CFG002")
           C3 == Check(~NamedBefore(limits, k), where, "CFG004")
           C4 == Check(rl.strategy \in Strategies, where, "CFG002")
           C5 == Check(rl.strategy \in Strategies => CheckSettings(rl.strategy, SettingsOf(rl)) = {}, where, "CFG002")
           C6 == Check(ParseKeySpec(rl.key).ok, Append(where, "key"), "CFG002")
           C7 == Check(rl.limit > 0, Append(where, "limit"), "CFG002")
           C8 == Issue(rl.window, Append(where, "window"))
           C9 == Check(rl.burst >= 0 /\ rl.capacity >= 0, where, "CFG002")
           C10 == Check(rl.cells # 0 => rl.cells \in 2 .. Cells, Append(where, "cells"), "CFG002")
           C11 == Check(rl.maxKeys = 0 \/ rl.maxKeys >= 8, Append(where, "max_keys"), "CFG002")
           C12 == Check(rl.backend \in Backends, Append(where, "backend"), "CFG002")
<1>1. C1 \cup C2 \cup C3 \cup C4 \cup C5 \cup C6 \cup C7 \cup C8 \cup C9 \cup C10 \cup C11 \cup C12 = {}
  BY Zenon DEF LimitProblems
<1>2. /\ C1 = {} /\ C2 = {} /\ C3 = {} /\ C4 = {} /\ C5 = {} /\ C6 = {} /\ C7 = {} /\ C8 = {}
      /\ C9 = {} /\ C10 = {} /\ C11 = {}
  <2> HIDE DEF C1, C2, C3, C4, C5, C6, C7, C8, C9, C10, C11, C12
  <2> QED
    BY <1>1, NoneOfBoth, Zenon
<1>3. rl.name # << >> /\ NameRe(rl.name) /\ ~NamedBefore(limits, k)
  BY <1>2, Zenon DEF Check
<1>4. rl.strategy \in Strategies /\ CheckSettings(rl.strategy, SettingsOf(rl)) = {}
  BY <1>2, Zenon DEF Check
<1>5. ParseKeySpec(rl.key).ok
  BY <1>2, Zenon DEF Check
<1>6. rl.limit > 0 /\ rl.burst >= 0 /\ rl.capacity >= 0
  BY <1>2, Zenon DEF Check
<1>7. ~rl.window.err
  BY <1>2, Zenon DEF Check, Issue
<1>8. (rl.cells # 0 => rl.cells \in 2 .. Cells) /\ (rl.maxKeys = 0 \/ rl.maxKeys >= 8)
  BY <1>2, Zenon DEF Check
<1> QED
  BY <1>3, <1>4, <1>5, <1>6, <1>7, <1>8

LEMMA ReportSound ==
  ASSUME NEW d, Report(d) = {}
  PROVE  Problems(ApplyDefaults(d)) = {}
<1>1. CASE d.file = "mapping"
  BY <1>1, NoneOfBoth, Zenon DEF Report
<1>2. CASE d.file # "mapping"
  <2>1. Report(d) = {<< << "document" >>, "CFG003" >>}
    BY <1>2, Zenon DEF Report, SyntaxProblems
  <2> QED
    BY <2>1
<1> QED
  BY <1>1, <1>2

LEMMA ProblemsSound ==
  ASSUME NEW c, Problems(c) = {}
  PROVE  /\ \A i \in DOMAIN c.routes : RouteProblems(c.routes, i, DOMAIN c.upstreams) = {}
         /\ \A name \in DOMAIN c.upstreams : UpstreamProblems(c.upstreams[name], << "upstreams", name >>) = {}
         /\ Issues(c.timers, << "server" >>) = {} /\ Issue(c.header, << "server.max_header_bytes" >>) = {}
<1> DEFINE S == ServerProblems(c)
           A == AdminProblems(c)
           O == ObservabilityProblems(c)
           ups == {UpstreamProblems(c.upstreams[name], << "upstreams", name >>) : name \in DOMAIN c.upstreams}
           routes == {RouteProblems(c.routes, i, DOMAIN c.upstreams) : i \in DOMAIN c.routes}
           U1 == UNION ups
           U2 == UNION routes
           F == StoreProblems(c)
<1>0. Problems(c) = S \cup A \cup O \cup U1 \cup U2 \cup F
  BY DEF Problems
<1>1. S = {} /\ U1 = {} /\ U2 = {}
  <2> HIDE DEF S, A, O, U1, U2, F
  <2> QED
    BY <1>0, NoneOfBoth, Zenon
<1>2. Issues(c.timers, << "server" >>) = {} /\ Issue(c.header, << "server.max_header_bytes" >>) = {}
  BY <1>1, NoneOfBoth, Zenon DEF ServerProblems
<1>3. ASSUME NEW i \in DOMAIN c.routes PROVE RouteProblems(c.routes, i, DOMAIN c.upstreams) = {}
  <2>1. RouteProblems(c.routes, i, DOMAIN c.upstreams) \in routes
    OBVIOUS
  <2> HIDE DEF routes
  <2> QED
    BY <1>1, <2>1, NoneOfUnion, Zenon
<1>4. ASSUME NEW name \in DOMAIN c.upstreams
      PROVE  UpstreamProblems(c.upstreams[name], << "upstreams", name >>) = {}
  <2>1. UpstreamProblems(c.upstreams[name], << "upstreams", name >>) \in ups
    OBVIOUS
  <2> HIDE DEF ups
  <2> QED
    BY <1>1, <2>1, NoneOfUnion, Zenon
<1> QED
  BY <1>2, <1>3, <1>4

\* The names of routes tell them apart, and so do the names of the limiters
\* of one route.
NamesApart(list) ==
  \A i, j \in DOMAIN list : list[i].name = list[j].name => i = j

LEMMA NotNamedBefore ==
  ASSUME NEW list, NEW n \in Nat, DOMAIN list = 1 .. n,
         \A i \in DOMAIN list : list[i].name # << >> /\ ~NamedBefore(list, i)
  PROVE  NamesApart(list)
<1> SUFFICES ASSUME NEW i \in 1 .. n, NEW j \in 1 .. n, list[i].name = list[j].name, i # j PROVE FALSE
  BY DEF NamesApart
<1>1. CASE i < j
  BY <1>1 DEF NamedBefore
<1>2. CASE j < i
  BY <1>2 DEF NamedBefore
<1> QED
  BY <1>1, <1>2

\* A name without "/" ends where the first "/" is.
Parts(S, a, sep, b) ==
  a \in Seq(S) /\ b \in Seq(S) /\ sep \in S /\ \A i \in 1 .. Len(a) : a[i] # sep
Joined(a, sep, b) == a \o << sep >> \o b

LEMMA JoinedApart ==
  ASSUME NEW S, NEW a, NEW b, NEW c, NEW d, NEW sep,
         Parts(S, a, sep, b), Parts(S, c, sep, d), Joined(a, sep, b) = Joined(c, sep, d)
  PROVE  a = c /\ b = d
<1> USE DEF Parts, Joined
<1> DEFINE s == a \o << sep >> \o b
           t == c \o << sep >> \o d
<1>3. Len(a) \in Nat /\ Len(b) \in Nat /\ Len(c) \in Nat /\ Len(d) \in Nat
  OBVIOUS
<1>1. /\ Len(s) = Len(a) + 1 + Len(b) /\ Len(t) = Len(c) + 1 + Len(d)
      /\ \A i \in 1 .. Len(a) : s[i] = a[i]
      /\ s[Len(a) + 1] = sep
      /\ \A i \in 1 .. Len(b) : s[Len(a) + 1 + i] = b[i]
      /\ \A i \in 1 .. Len(c) : t[i] = c[i]
      /\ t[Len(c) + 1] = sep
      /\ \A i \in 1 .. Len(d) : t[Len(c) + 1 + i] = d[i]
  <2>1. /\ Len(s) = Len(a) + 1 + Len(b)
        /\ \A i \in 1 .. Len(a) : s[i] = a[i]
        /\ s[Len(a) + 1] = sep
        /\ \A i \in 1 .. Len(b) : s[Len(a) + 1 + i] = b[i]
    OBVIOUS
  <2>2. /\ Len(t) = Len(c) + 1 + Len(d)
        /\ \A i \in 1 .. Len(c) : t[i] = c[i]
        /\ t[Len(c) + 1] = sep
        /\ \A i \in 1 .. Len(d) : t[Len(c) + 1 + i] = d[i]
    OBVIOUS
  <2> QED
    BY <2>1, <2>2
<1>2. s = t
  OBVIOUS
<1> HIDE DEF s, t
<1>4. Len(a) = Len(c)
  <2>1. ASSUME Len(a) < Len(c) PROVE FALSE
    <3>1. Len(a) + 1 \in 1 .. Len(c)
      BY <1>3, <2>1
    <3>2. c[Len(a) + 1] = sep
      BY <1>1, <1>2, <3>1
    <3> QED
      BY <3>1, <3>2
  <2>2. ASSUME Len(c) < Len(a) PROVE FALSE
    <3>1. Len(c) + 1 \in 1 .. Len(a)
      BY <1>3, <2>2
    <3>2. a[Len(c) + 1] = sep
      BY <1>1, <1>2, <3>1
    <3> QED
      BY <3>1, <3>2
  <2> QED
    BY <1>3, <2>1, <2>2
<1>5. Len(b) = Len(d)
  BY <1>1, <1>2, <1>3, <1>4
<1>6. \A i \in 1 .. Len(a) : a[i] = c[i]
  BY <1>1, <1>2, <1>4
<1>7. \A i \in 1 .. Len(b) : b[i] = d[i]
  BY <1>1, <1>2, <1>4, <1>5
<1> QED
  BY <1>4, <1>5, <1>6, <1>7, SeqEqual

-----------------------------------------------------------------------------
(***************************************************************************)
(* Names of an accepted configuration resolve                              *)
(***************************************************************************)
Accepted(c) == Problems(c) = {} /\ Listed(c)

LEMMA AcceptedNames ==
  ASSUME NEW c, Accepted(c)
  PROVE  /\ NamesApart(c.routes)
         /\ \A i \in DOMAIN c.routes :
              /\ NameRe(c.routes[i].name) /\ c.routes[i].name \in Seq(STRING)
              /\ NamesApart(c.routes[i].limits)
              /\ \A k \in DOMAIN c.routes[i].limits : c.routes[i].limits[k].name \in Seq(STRING)
<1>1. \A i \in DOMAIN c.routes : RouteProblems(c.routes, i, DOMAIN c.upstreams) = {}
  BY ProblemsSound DEF Accepted
<1>2. PICK n \in Nat : DOMAIN c.routes = 1 .. n
  BY DEF Accepted, Listed
<1>3. \A i \in DOMAIN c.routes : c.routes[i].name # << >> /\ NameRe(c.routes[i].name) /\ ~NamedBefore(c.routes, i)
  BY <1>1, RouteSound, Zenon
<1>4. NamesApart(c.routes)
  BY <1>2, <1>3, NotNamedBefore
<1>5. ASSUME NEW i \in DOMAIN c.routes
      PROVE  NamesApart(c.routes[i].limits)
  <2>1. \A k \in DOMAIN c.routes[i].limits : \E where : LimitProblems(c.routes[i].limits, k, where) = {}
    BY <1>1, RouteSound, Zenon
  <2>2. \A k \in DOMAIN c.routes[i].limits :
          c.routes[i].limits[k].name # << >> /\ ~NamedBefore(c.routes[i].limits, k)
    BY <2>1, LimitSound, Zenon
  <2>3. PICK m \in Nat : DOMAIN c.routes[i].limits = 1 .. m
    BY DEF Accepted, Listed
  <2> QED
    BY <2>2, <2>3, NotNamedBefore
<1> QED
  BY <1>3, <1>4, <1>5 DEF Accepted, Listed, Filled

LEMMA ChainsResolve ==
  ASSUME NEW c, Accepted(c), NEW i \in DOMAIN c.routes
  PROVE  ChainsOf(c)[c.routes[i].name] = i
<1> DEFINE name == c.routes[i].name
           Latest(k) == c.routes[k].name = name /\ \A j \in DOMAIN c.routes : c.routes[j].name = name => j <= k
<1>1. \A j \in DOMAIN c.routes : c.routes[j].name = name => j = i
  BY AcceptedNames DEF NamesApart
<1>2. i \in Int
  BY DEF Accepted, Listed
<1>3. Latest(i) /\ \A k \in DOMAIN c.routes : Latest(k) => k = i
  BY <1>1, <1>2
<1>4. ChainsOf(c)[name] = CHOOSE k \in DOMAIN c.routes : Latest(k)
  BY DEF ChainsOf
<1> HIDE DEF Latest
<1> QED
  BY <1>3, <1>4

\* The key of an engine tells its route and its limiter apart, because no
\* name holds the "/" between them.
LEMMA KeysApart ==
  ASSUME NEW c, Accepted(c), NEW p \in Limiters(c), NEW q \in Limiters(c), EngineKey(c, p) = EngineKey(c, q)
  PROVE  p = q
<1>1. /\ p = << p[1], p[2] >> /\ p[1] \in DOMAIN c.routes /\ p[2] \in DOMAIN c.routes[p[1]].limits
      /\ q = << q[1], q[2] >> /\ q[1] \in DOMAIN c.routes /\ q[2] \in DOMAIN c.routes[q[1]].limits
  BY DEF Limiters
<1> DEFINE S == STRING \cup {"/"}
           a == c.routes[p[1]].name
           b == c.routes[p[1]].limits[p[2]].name
           x == c.routes[q[1]].name
           y == c.routes[q[1]].limits[q[2]].name
<1>2. a \in Seq(STRING) /\ b \in Seq(STRING) /\ x \in Seq(STRING) /\ y \in Seq(STRING)
  BY <1>1, AcceptedNames
<1>3. NameRe(a) /\ NameRe(x)
  BY <1>1, AcceptedNames
<1>4. a \o << "/" >> \o b = x \o << "/" >> \o y
  BY DEF EngineKey, LimiterAt
<1> HIDE DEF a, b, x, y
<1>5. (\A i \in 1 .. Len(a) : a[i] # "/") /\ (\A i \in 1 .. Len(x) : x[i] # "/")
  <2>1. "/" \notin NameChars
    BY DEF NameChars
  <2>2. DOMAIN a = 1 .. Len(a) /\ DOMAIN x = 1 .. Len(x)
    BY <1>2
  <2> QED
    BY <1>3, <2>1, <2>2 DEF NameRe
<1>6. a \in Seq(S) /\ b \in Seq(S) /\ x \in Seq(S) /\ y \in Seq(S) /\ "/" \in S
  BY <1>2, SeqMonotonic
<1> HIDE DEF S
<1> DEFINE sep == "/"
<1>7. Joined(a, sep, b) = Joined(x, sep, y) /\ Parts(S, a, sep, b) /\ Parts(S, x, sep, y)
  BY <1>4, <1>5, <1>6 DEF Joined, Parts
<1> HIDE DEF sep
<1>8. a = x /\ b = y
  BY <1>7, JoinedApart, Zenon
<1>9. p[1] = q[1]
  BY <1>1, <1>8, AcceptedNames DEF NamesApart, a, x
<1>10. p[2] = q[2]
  <2>1. NamesApart(c.routes[p[1]].limits)
    BY <1>1, AcceptedNames
  <2> QED
    BY <1>1, <1>8, <1>9, <2>1 DEF NamesApart, b, y
<1> QED
  BY <1>1, <1>9, <1>10

LEMMA EnginesResolve ==
  ASSUME NEW c, Accepted(c), NEW at \in Limiters(c)
  PROVE  EnginesOf(c)[EngineKey(c, at)] = at
<1> DEFINE key == EngineKey(c, at)
           Latest(p) == EngineKey(c, p) = key /\ \A q \in Limiters(c) : EngineKey(c, q) = key => Later(p, q)
<1>1. \A p \in Limiters(c) : EngineKey(c, p) = key => p = at
  BY KeysApart
<1>2. Later(at, at)
  <2>1. at[1] \in DOMAIN c.routes /\ at[2] \in DOMAIN c.routes[at[1]].limits
    BY DEF Limiters
  <2>2. at[1] \in Int /\ at[2] \in Int
    BY <2>1 DEF Accepted, Listed
  <2> QED
    BY <2>2 DEF Later
<1>3. Latest(at) /\ \A p \in Limiters(c) : Latest(p) => p = at
  BY <1>1, <1>2
<1>4. EnginesOf(c)[key] = CHOOSE p \in Limiters(c) : Latest(p)
  BY DEF EnginesOf
<1> HIDE DEF Latest
<1> QED
  BY <1>3, <1>4

-----------------------------------------------------------------------------
(***************************************************************************)
(* What is settled once a file is loaded, a generation built and a request *)
(* answered                                                                *)
(***************************************************************************)
Unloaded == {"file", "rejected"}
Serving == {"serving", "matching", "routed", "answered"}

Settled ==
  /\ stage \in Unloaded => cfg = Nothing
  /\ stage \notin Unloaded => cfg = ApplyDefaults(document) /\ Report(document) = {}
  /\ stage \in Serving => table = Compiled(cfg.routes) /\ chains = ChainsOf(cfg) /\ engines = EnginesOf(cfg)

\* What the target of best is asked for.
Remaining ==
  UpstreamPath(clean, cfg.routes[chains[cfg.routes[best.idx].name]].strip, MatchedPrefix(table[best.idx]))

Handed ==
  /\ stage \in {"matching", "routed"} => request \in Requests /\ ~PathHasDotSegments(clean)
  /\ outcome.code = "forwarded" => stage = "answered" /\ best # NoRoute
  /\ stage = "answered" /\ best # NoRoute =>
       /\ clean \in PathType /\ ~PathHasDotSegments(clean)
       /\ best.idx \in DOMAIN table /\ MatchPath(table[best.idx], clean)
       /\ outcome.code = "forwarded" /\ outcome.chain = chains[cfg.routes[best.idx].name]
       /\ outcome.path = JoinEscapedPath(<< >>, Remaining)

SInv == IInv /\ Settled /\ Handed

LEMMA HandedUnchanged ==
  ASSUME Handed, UNCHANGED << cfg, table, chains, clean, best, request, stage, outcome >>
  PROVE  Handed'
  BY DEF Handed, Remaining

LEMMA SettledSteps ==
  ASSUME SInv, [Next]_vars
  PROVE  Settled'
<1> USE DEF SInv, Settled, Unloaded, Serving
<1>1. CASE Load
  BY <1>1 DEF Load
<1>2. CASE Build
  BY <1>2 DEF Build
<1>3. ASSUME NEW r \in Requests, Receive(r)
      PROVE  Settled'
  BY <1>3 DEF Receive, generation
<1>4. CASE Consider
  BY <1>4 DEF Consider, generation
<1>5. CASE Decide
  BY <1>5 DEF Decide, generation
<1>6. CASE Forward
  BY <1>6 DEF Forward, generation
<1>7. CASE UNCHANGED vars
  BY <1>7 DEF vars, generation
<1> QED
  BY <1>1, <1>2, <1>3, <1>4, <1>5, <1>6, <1>7 DEF Next

LEMMA HandedSteps ==
  ASSUME SInv, [Next]_vars
  PROVE  Handed'
<1>0. Handed /\ IInv /\ Typed /\ Remembered
  BY DEF SInv, IInv
<1>1. CASE Load
  BY <1>0, <1>1 DEF Load, Handed, matching
<1>2. CASE Build
  BY <1>0, <1>2 DEF Build, Handed, matching
<1>3. ASSUME NEW r \in Requests, Receive(r)
      PROVE  Handed'
  <2>1. best' = NoRoute /\ request' = r
    BY <1>3 DEF Receive
  <2>2. outcome'.code # "forwarded"
    BY <1>3, RefusalCode DEF Receive
  <2>3. stage' = "matching" => ~PathHasDotSegments(clean')
    BY <1>3 DEF Receive
  <2>4. stage' # "routed"
    BY <1>3 DEF Receive
  <2> QED
    BY <2>1, <2>2, <2>3, <2>4 DEF Handed, PathHasDotSegments
<1>4. CASE Consider
  <2>1. stage = "matching" /\ UNCHANGED << stage, request, clean, outcome >>
    BY <1>4 DEF Consider
  <2> QED
    BY <1>0, <2>1 DEF Handed, PathHasDotSegments
<1>5. CASE Decide
  <2>1. /\ stage = "matching" /\ UNCHANGED << request, clean, best >>
        /\ \/ stage' = "routed" /\ outcome' = outcome
           \/ best = NoRoute /\ stage' = "answered" /\ outcome'.code \in {"RT001", "RT002"}
    BY <1>5, RefusalCode DEF Decide, matching
  <2> QED
    BY <1>0, <2>1 DEF Handed, PathHasDotSegments
<1>6. CASE Forward
  <2>1. /\ stage = "routed" /\ stage' = "answered"
        /\ UNCHANGED << document, cfg, table, chains, request, clean, next, best >>
    BY <1>6 DEF Forward, generation, matching
  <2>2. /\ request \in Requests /\ clean = Clean(request.path) /\ ~PathHasDotSegments(clean)
        /\ best # NoRoute /\ BestBefore(Len(table) + 1) /\ table \in Seq(CompiledRoute)
    BY <1>0, <2>1 DEF Handed, Typed, Remembered
  <2>3. clean \in PathType
    BY <2>2, DispatchAssumption
  <2>4. best.idx \in DOMAIN table /\ MatchPath(table[best.idx], clean)
    <3>1. best.idx \in 1 .. Len(table) + 1 - 1 /\ Fits(best.idx)
      BY <2>2 DEF BestBefore
    <3> QED
      BY <2>2, <3>1 DEF Fits, Placed
  <2>5. /\ outcome'.code = "forwarded" /\ outcome'.chain = chains[cfg.routes[best.idx].name]
        /\ outcome'.path = JoinEscapedPath(<< >>, Remaining)
    BY <1>6, <2>2 DEF Forward, NoOutcome, Remaining
  <2>6. Remaining' = Remaining
    BY <2>1 DEF Remaining
  <2> QED
    BY <2>1, <2>2, <2>3, <2>4, <2>5, <2>6 DEF Handed
<1>7. CASE UNCHANGED vars
  BY <1>0, <1>7, HandedUnchanged DEF vars, generation, matching
<1> QED
  BY <1>1, <1>2, <1>3, <1>4, <1>5, <1>6, <1>7 DEF Next

LEMMA SInvariance == Spec => []SInv
<1>1. Init => SInv
  BY Initially DEF Init, SInv, Settled, Handed, Unloaded, Serving, NoOutcome
<1>2. SInv /\ [Next]_vars => SInv'
  BY Steps, SettledSteps, HandedSteps DEF SInv
<1> QED
  BY <1>1, <1>2, PTL DEF Spec

LEMMA AcceptedInForce ==
  ASSUME SInv, stage \notin Unloaded
  PROVE  Accepted(cfg)
<1>1. document \in Documents /\ cfg = ApplyDefaults(document) /\ Report(document) = {}
  BY DEF SInv, IInv, Typed, Settled
<1>2. Problems(cfg) = {}
  BY <1>1, ReportSound
<1>3. Listed(cfg)
  BY <1>1, DispatchAssumption, DefaultsListed
<1> QED
  BY <1>2, <1>3 DEF Accepted

\* Whatever the file and the requests, a request is served by the chain
\* built for the route it was matched with, and each limiter has an engine
\* of its own (build.go, the maps keyed by names).
THEOREM NamesAlwaysResolve == Spec => []NamesResolve
<1>1. ASSUME SInv PROVE NamesResolve
  <2>1. ASSUME outcome.code = "forwarded"
        PROVE  outcome.chain = best.idx
    <3>1. stage = "answered" /\ best # NoRoute
      BY <1>1, <2>1 DEF SInv, Handed
    <3>2. outcome.chain = chains[cfg.routes[best.idx].name] /\ best.idx \in DOMAIN table
      BY <1>1, <3>1 DEF SInv, Handed
    <3>3. table = Compiled(cfg.routes) /\ chains = ChainsOf(cfg)
      BY <1>1, <3>1 DEF SInv, Settled, Serving
    <3>4. Accepted(cfg)
      BY <1>1, <3>1, AcceptedInForce DEF Unloaded
    <3>5. best.idx \in DOMAIN cfg.routes
      BY <3>2, <3>3 DEF Compiled
    <3> QED
      BY <3>2, <3>3, <3>4, <3>5, ChainsResolve
  <2>2. ASSUME stage = "serving", NEW at \in Limiters(cfg)
        PROVE  engines[EngineKey(cfg, at)] = at
    <3>1. engines = EnginesOf(cfg)
      BY <1>1, <2>2 DEF SInv, Settled, Serving
    <3>2. Accepted(cfg)
      BY <1>1, <2>2, AcceptedInForce DEF Unloaded
    <3> QED
      BY <3>1, <3>2, EnginesResolve
  <2> QED
    BY <2>1, <2>2 DEF NamesResolve
<1> QED
  BY <1>1, SInvariance, PTL

-----------------------------------------------------------------------------
(***************************************************************************)
(* The path that is forwarded                                              *)
(***************************************************************************)

\* A path that ends another.
EndOf(s, t) ==
  s \in PathType /\ IsSuffix(s, t) /\ \A i \in DOMAIN s : \E j \in DOMAIN t : s[i] = t[j]

LEMMA ReverseIs ==
  ASSUME NEW s \in Seq(STRING)
  PROVE  /\ Reverse(s) \in Seq(STRING) /\ Len(Reverse(s)) = Len(s)
         /\ \A i \in 1 .. Len(s) : Reverse(s)[i] = s[Len(s) - i + 1]
  BY DEF Reverse

\* What follows the first m segments of a path.
LEMMA TailIsSuffix ==
  ASSUME NEW t \in PathType, NEW m \in 0 .. Len(t), NEW s, s = SubSeq(t, m + 1, Len(t))
  PROVE  EndOf(s, t)
<1> USE DEF PathType, EndOf
<1>1. Len(t) \in Nat /\ m \in Nat /\ m <= Len(t)
  OBVIOUS
<1>2. s \in Seq(STRING) /\ Len(s) = Len(t) - m /\ \A i \in 1 .. Len(t) - m : s[i] = t[m + i]
  BY <1>1, SubSeqProperties
<1> DEFINE rs == Reverse(s)
           rt == Reverse(t)
<1>3. /\ rs \in Seq(STRING) /\ Len(rs) = Len(s)
      /\ \A i \in 1 .. Len(s) : rs[i] = s[Len(s) - i + 1]
  BY <1>2, ReverseIs
<1>4. /\ rt \in Seq(STRING) /\ Len(rt) = Len(t)
      /\ \A i \in 1 .. Len(t) : rt[i] = t[Len(t) - i + 1]
  BY ReverseIs
<1> HIDE DEF rs, rt
<1>5. ASSUME NEW i \in 1 .. Len(t) - m
      PROVE  rs[i] = rt[i]
  <2> DEFINE k == Len(t) - m - i + 1
  <2>1. k \in 1 .. Len(t) - m /\ m + k = Len(t) - i + 1 /\ i \in 1 .. Len(t)
    BY <1>1
  <2>2. rs[i] = s[k]
    BY <1>2, <1>3
  <2>3. rt[i] = t[Len(t) - i + 1]
    BY <1>4, <2>1
  <2> HIDE DEF k
  <2>4. s[k] = t[m + k]
    BY <1>2, <2>1
  <2> QED
    BY <2>1, <2>2, <2>3, <2>4
<1>6. SubSeq(rs, 1, Len(rs)) = SubSeq(rt, 1, Len(rs))
  BY <1>1, <1>2, <1>3, <1>4, <1>5
<1>7. IsSuffix(s, t)
  <2>1. Len(rs) <= Len(rt)
    BY <1>1, <1>2, <1>3, <1>4
  <2>2. IsPrefix(rs, rt)
    BY <1>6, <2>1 DEF IsPrefix
  <2> QED
    BY <2>2 DEF IsSuffix, rs, rt
<1>8. ASSUME NEW i \in DOMAIN s PROVE \E j \in DOMAIN t : s[i] = t[j]
  <2>1. i \in 1 .. Len(t) - m /\ m + i \in DOMAIN t
    BY <1>1, <1>2
  <2> QED
    BY <1>2, <2>1
<1> QED
  BY <1>2, <1>7, <1>8

LEMMA WholeIsSuffix ==
  ASSUME NEW t \in PathType
  PROVE  EndOf(t, t)
<1>1. IsSuffix(t, t)
  BY DEF PathType, IsSuffix, IsPrefix, Reverse
<1> QED
  BY <1>1 DEF EndOf

LEMMA PrefixAndTail ==
  ASSUME NEW p \in PathType, NEW t \in PathType, IsPrefix(p, t)
  PROVE  Len(p) <= Len(t) /\ p \o SubSeq(t, Len(p) + 1, Len(t)) = t
<1> USE DEF PathType
<1>1. Len(p) \in Nat /\ Len(t) \in Nat /\ Len(p) <= Len(t)
  BY DEF IsPrefix
<1>2. \A i \in 1 .. Len(p) : p[i] = t[i]
  BY <1>1 DEF IsPrefix
<1> DEFINE s == SubSeq(t, Len(p) + 1, Len(t))
<1>3. s \in Seq(STRING) /\ Len(s) = Len(t) - Len(p) /\ \A i \in 1 .. Len(t) - Len(p) : s[i] = t[Len(p) + i]
  BY <1>1, SubSeqProperties
<1> HIDE DEF s
<1>4. p \o s \in Seq(STRING) /\ Len(p \o s) = Len(t)
  BY <1>1, <1>3
<1>5. \A i \in 1 .. Len(t) : (p \o s)[i] = t[i]
  BY <1>1, <1>2, <1>3
<1>6. p \o s = t
  BY <1>4, <1>5, SeqEqual
<1> QED
  BY <1>1, <1>6 DEF s

\* Whatever is to be stripped: the target is asked for a suffix of the path,
\* the path itself or what follows a prefix that it has.
LEMMA UpstreamPathIs ==
  ASSUME NEW path \in PathType, NEW prefix \in PathType, NEW strip \in BOOLEAN, NEW out,
         out = UpstreamPath(path, strip, prefix)
  PROVE  /\ EndOf(out, path)
         /\ ~strip => out = path
         /\ strip /\ IsPrefix(prefix, path) => prefix \o out = path
<1>1. CASE ~strip \/ prefix = << >> \/ ~IsPrefix(prefix, path)
  <2>1. out = path
    BY <1>1 DEF UpstreamPath
  <2>2. << >> \o path = path
    BY DEF PathType
  <2> QED
    BY <1>1, <2>1, <2>2, WholeIsSuffix
<1>2. CASE strip /\ IsPrefix(prefix, path) /\ prefix # << >>
  <2>1. out = SubSeq(path, Len(prefix) + 1, Len(path))
    BY <1>2 DEF UpstreamPath
  <2>2. Len(prefix) <= Len(path) /\ prefix \o out = path
    BY <1>2, <2>1, PrefixAndTail
  <2>3. Len(prefix) \in 0 .. Len(path)
    BY <2>2 DEF PathType
  <2> DEFINE m == Len(prefix)
  <2>4. m \in 0 .. Len(path) /\ out = SubSeq(path, m + 1, Len(path))
    BY <2>1, <2>3
  <2> HIDE DEF m
  <2>5. EndOf(out, path)
    BY <2>4, TailIsSuffix, Zenon
  <2> QED
    BY <1>2, <2>2, <2>5
<1> QED
  BY <1>1, <1>2

\* Whatever the routes and the request, the path that was matched is the
\* path that is forwarded (forward.go, upstreamPath; router.go, Match).
THEOREM RoutedAlwaysForwarded == Spec => []RoutedIsForwarded
<1>1. ASSUME SInv PROVE RoutedIsForwarded
  <2> SUFFICES ASSUME stage = "answered", best # NoRoute PROVE RoutedIsForwarded
    BY DEF RoutedIsForwarded
  <2> DEFINE b == best.idx
             r == cfg.routes[b]
             cr == table[b]
             p == MatchedPrefix(cr)
             prefix == IF r.prefix = << "" >> THEN << >> ELSE Clean(r.prefix)
  <2>1. /\ clean \in PathType /\ ~PathHasDotSegments(clean) /\ b \in DOMAIN table /\ MatchPath(cr, clean)
        /\ outcome.code = "forwarded" /\ outcome.path = JoinEscapedPath(<< >>, Remaining)
    BY <1>1 DEF SInv, Handed
  <2>2. table = Compiled(cfg.routes) /\ chains = ChainsOf(cfg) /\ table \in Seq(CompiledRoute)
    BY <1>1 DEF SInv, Settled, Serving, IInv, Typed
  <2>3. Accepted(cfg)
    BY <1>1, AcceptedInForce DEF Unloaded
  <2>4. b \in DOMAIN cfg.routes /\ cr = CompileRoute(r)
    BY <2>1, <2>2 DEF Compiled
  <2>5. chains[r.name] = b
    BY <2>2, <2>3, <2>4, ChainsResolve
  <2>6. r.strip \in BOOLEAN
    BY <2>3, <2>4 DEF Accepted, Listed
  <2>7. cr.prefix \in Seq(PathType) /\ cr.head \in PathType
    <3>1. cr \in CompiledRoute
      BY <2>1, <2>2
    <3> HIDE DEF cr
    <3> QED
      BY <3>1 DEF CompiledRoute, PathType
  <2>8. p \in PathType
    <3> HIDE DEF cr
    <3>1. CASE cr.prefix \in {Absent, << << >> >>}
      BY <2>7, <3>1 DEF MatchedPrefix
    <3>2. CASE cr.prefix \notin {Absent, << << >> >>}
      <4>1. 1 \in DOMAIN cr.prefix
        BY <2>7, <3>2 DEF Absent
      <4> QED
        BY <2>7, <3>2, <4>1 DEF MatchedPrefix
    <3> QED
      BY <3>1, <3>2
  <2>9. Remaining = UpstreamPath(clean, r.strip, p)
    BY <2>5 DEF Remaining
  <2> DEFINE out == UpstreamPath(clean, r.strip, p)
             strip == r.strip
  <2>10. /\ EndOf(out, clean)
         /\ ~strip => out = clean
         /\ strip /\ IsPrefix(p, clean) => p \o out = clean
    <3>1. out = UpstreamPath(clean, strip, p) /\ strip \in BOOLEAN
      BY <2>6
    <3>2. clean \in PathType /\ p \in PathType
      BY <2>1, <2>8
    <3> HIDE DEF out, p, strip
    <3> QED
      BY <3>1, <3>2, UpstreamPathIs, Zenon
  <2>11. cr.prefix = IF r.prefix = << "" >> THEN Absent ELSE << Clean(r.prefix) >>
    <3> HIDE DEF r, cr
    <3> QED
      BY <2>4 DEF CompileRoute
  <2>12. prefix # << >> => p = prefix /\ IsPrefix(p, clean)
    <3> SUFFICES ASSUME prefix # << >> PROVE p = prefix /\ IsPrefix(p, clean)
      OBVIOUS
    <3>1. cr.prefix = << prefix >>
      BY <2>11
    <3> HIDE DEF prefix, cr
    <3>2. cr.prefix # Absent /\ cr.prefix # << << >> >> /\ cr.prefix[1] = prefix
      BY <3>1 DEF Absent
    <3>3. p = prefix
      BY <3>2 DEF MatchedPrefix
    <3>4. IsPrefix(prefix, clean)
      BY <2>1, <3>2 DEF MatchPath, PrefixMatches
    <3> QED
      BY <3>3, <3>4
  <2>13. outcome.path = out
    <3>1. outcome.path = << >> \o out
      BY <2>1, <2>9 DEF JoinEscapedPath
    <3> HIDE DEF out
    <3>2. out \in Seq(STRING)
      BY <2>1, <2>10 DEF PathType, EndOf
    <3> QED
      BY <3>1, <3>2
  <2> HIDE DEF out, p
  <2>14. ~PathHasDotSegments(out)
    BY <2>1, <2>10 DEF PathHasDotSegments, EndOf
  <2> QED
    BY <2>1, <2>10, <2>12, <2>13, <2>14 DEF RoutedIsForwarded, EndOf
<1> QED
  BY <1>1, SInvariance, PTL

-----------------------------------------------------------------------------
(***************************************************************************)
(* An accepted configuration builds                                        *)
(***************************************************************************)
Outside == {"store", "keys", "secret", "jwks", "predicate"}

LEMMA PoolsSound ==
  ASSUME NEW name, NEW pools, NEW where, PoolProblems(name, pools, where) = {}
  PROVE  name \in pools
<1> DEFINE A == Check(name # NoText, Append(where, "upstreams"), "CFG003")
           B == Check(name # NoText => name \in pools, Append(where, "upstreams"), "CFG005")
<1>1. A \cup B = {}
  BY Zenon DEF PoolProblems
<1>2. A = {} /\ B = {}
  <2> HIDE DEF A, B
  <2> QED
    BY <1>1, NoneOfBoth, Zenon
<1> QED
  BY <1>2, Zenon DEF Check

LEMMA MirrorSound ==
  ASSUME NEW m, NEW pools, NEW where, MirrorProblems(m, pools, where) = {}
  PROVE  m.upstreams \in pools
<1>1. PoolProblems(m.upstreams, pools, where) = {}
  BY NoneOfBoth, Zenon DEF MirrorProblems
<1> QED
  BY <1>1, PoolsSound

LEMMA APIKeySound ==
  ASSUME NEW key, NEW where, APIKeyProblems(key, where) = {}
  PROVE  key.env # key.file
<1>1. Check(key.env # key.file, where, "CFG005") = {}
  BY NoneOfBoth, Zenon DEF APIKeyProblems
<1> QED
  BY <1>1, Zenon DEF Check

LEMMA JWTSound ==
  ASSUME NEW jwt, NEW where, JWTProblems(jwt, where) = {}
  PROVE  /\ jwt.algorithms # {} /\ jwt.algorithms \subseteq JWTAlgorithms
         /\ jwt.secret # (jwt.jwks # NoText)
         /\ jwt.secret => jwt.algorithms \subseteq HSAlgorithms
         /\ jwt.jwks # NoText => jwt.algorithms \cap HSAlgorithms = {}
<1> DEFINE A == Check(jwt.algorithms # {}, where, "CFG003")
           B == Check(jwt.algorithms \subseteq JWTAlgorithms, where, "CFG002")
           C == Check(/\ jwt.secret # (jwt.jwks # NoText)
                      /\ jwt.secret => jwt.algorithms \subseteq HSAlgorithms
                      /\ jwt.jwks # NoText => jwt.algorithms \cap HSAlgorithms = {}, where, "CFG005")
           D == Check(jwt.jwks # NoText => jwt.jwks \in AbsoluteURLs, Append(where, "jwks_url"), "CFG002")
<1>1. A \cup B \cup C \cup D = {}
  BY Zenon DEF JWTProblems
<1>2. A = {} /\ B = {} /\ C = {}
  <2> HIDE DEF A, B, C, D
  <2> QED
    BY <1>1, NoneOfBoth, Zenon
<1>3. jwt.algorithms # {} /\ jwt.algorithms \subseteq JWTAlgorithms
  BY <1>2, Zenon DEF Check
<1>4. /\ jwt.secret # (jwt.jwks # NoText)
      /\ jwt.secret => jwt.algorithms \subseteq HSAlgorithms
      /\ jwt.jwks # NoText => jwt.algorithms \cap HSAlgorithms = {}
  BY <1>2, Zenon DEF Check
<1> QED
  BY <1>3, <1>4

LEMMA AuthSound ==
  ASSUME NEW auth, NEW where, AuthProblems(auth, where) = {}
  PROVE  /\ auth.type \in AuthTypes
         /\ auth.type = "api_key" =>
              auth.key # Absent /\ \A k \in DOMAIN auth.key : APIKeyProblems(auth.key[k], where) = {}
         /\ auth.type = "jwt" =>
              auth.jwt # Absent /\ \A k \in DOMAIN auth.jwt : JWTProblems(auth.jwt[k], where) = {}
<1> DEFINE A == Check(auth.type \in AuthTypes, where, "CFG002")
           B == Check(auth.type = "api_key" => auth.key # Absent, where, "CFG003")
           C == Check(auth.type = "jwt" => auth.jwt # Absent, where, "CFG003")
           keys == {APIKeyProblems(auth.key[i], where) : i \in {j \in DOMAIN auth.key : auth.type = "api_key"}}
           jwts == {JWTProblems(auth.jwt[i], where) : i \in {j \in DOMAIN auth.jwt : auth.type = "jwt"}}
           D == UNION keys
           E == UNION jwts
<1>1. AuthProblems(auth, where) = A \cup B \cup C \cup D \cup E
  BY DEF AuthProblems
<1>2. A = {} /\ B = {} /\ C = {} /\ D = {} /\ E = {}
  <2> HIDE DEF A, B, C, D, E
  <2> QED
    BY <1>1, NoneOfBoth, Zenon
<1>3. /\ auth.type \in AuthTypes
      /\ auth.type = "api_key" => auth.key # Absent
      /\ auth.type = "jwt" => auth.jwt # Absent
  BY <1>2, Zenon DEF Check
<1>4. ASSUME auth.type = "api_key", NEW k \in DOMAIN auth.key PROVE APIKeyProblems(auth.key[k], where) = {}
  <2>1. APIKeyProblems(auth.key[k], where) \in keys
    BY <1>4
  <2> HIDE DEF keys
  <2> QED
    BY <1>2, <2>1, NoneOfUnion, Zenon
<1>5. ASSUME auth.type = "jwt", NEW k \in DOMAIN auth.jwt PROVE JWTProblems(auth.jwt[k], where) = {}
  <2>1. JWTProblems(auth.jwt[k], where) \in jwts
    BY <1>5
  <2> HIDE DEF jwts
  <2> QED
    BY <1>2, <2>1, NoneOfUnion, Zenon
<1> QED
  BY <1>3, <1>4, <1>5

\* NewAuth finds in an accepted block all that it looks for.
LEMMA AuthBuilds ==
  ASSUME NEW auth \in AuthType, NEW where, AuthProblems(auth, where) = {}
  PROVE  AuthFailures(auth) \subseteq {"keys", "secret", "jwks"}
<1> DEFINE jwt == auth.type = "jwt"
           key == auth.type = "api_key"
           listed == UNION {auth.jwt[k].algorithms : k \in DOMAIN auth.jwt}
           hs == listed \cap HSAlgorithms # {}
           asym == (listed \cap JWTAlgorithms) \ HSAlgorithms # {}
<1>1. auth.type \in AuthTypes
  BY AuthSound
<1>2. ASSUME key
      PROVE  auth.key # Absent /\ \A k \in DOMAIN auth.key : auth.key[k].env \/ auth.key[k].file
  <2>1. auth.key # Absent /\ \A k \in DOMAIN auth.key : APIKeyProblems(auth.key[k], where) = {}
    BY <1>2, AuthSound
  <2>2. \A k \in DOMAIN auth.key : auth.key[k].env # auth.key[k].file
    BY <2>1, APIKeySound
  <2> DEFINE Key == [header : BOOLEAN, env : BOOLEAN, file : BOOLEAN]
  <2>3. auth.key \in Seq(Key) /\ \A e \in Key : e.env \in BOOLEAN /\ e.file \in BOOLEAN
    BY DEF AuthType
  <2> HIDE DEF Key
  <2>4. \A k \in DOMAIN auth.key : auth.key[k].env \in BOOLEAN /\ auth.key[k].file \in BOOLEAN
    BY <2>3
  <2> QED
    BY <2>1, <2>2, <2>4, Zenon
<1>3. ASSUME jwt
      PROVE  /\ listed # {} /\ listed \subseteq JWTAlgorithms
             /\ hs => \E k \in DOMAIN auth.jwt : auth.jwt[k].secret
             /\ asym => \E k \in DOMAIN auth.jwt : auth.jwt[k].jwks # NoText
  <2>1. auth.jwt # Absent /\ \A k \in DOMAIN auth.jwt : JWTProblems(auth.jwt[k], where) = {}
    BY <1>3, AuthSound
  <2> DEFINE Token == [secret : BOOLEAN, jwks : STRING, algorithms : SUBSET STRING]
  <2>2. auth.jwt \in Seq(Token) /\ \A e \in Token : e.secret \in BOOLEAN
    BY DEF AuthType
  <2> HIDE DEF Token
  <2>3. \A k \in DOMAIN auth.jwt : auth.jwt[k].secret \in BOOLEAN
    BY <2>2
  <2>4. 1 \in DOMAIN auth.jwt
    BY <2>1, <2>2 DEF Absent
  <2>5. \A k \in DOMAIN auth.jwt :
          /\ auth.jwt[k].algorithms # {} /\ auth.jwt[k].algorithms \subseteq JWTAlgorithms
          /\ auth.jwt[k].secret # (auth.jwt[k].jwks # NoText)
          /\ auth.jwt[k].secret => auth.jwt[k].algorithms \subseteq HSAlgorithms
          /\ auth.jwt[k].jwks # NoText => auth.jwt[k].algorithms \cap HSAlgorithms = {}
    BY <2>1, JWTSound
  <2>6. listed # {} /\ listed \subseteq JWTAlgorithms
    BY <2>4, <2>5
  <2>7. ASSUME hs PROVE \E k \in DOMAIN auth.jwt : auth.jwt[k].secret
    <3>1. PICK k \in DOMAIN auth.jwt : auth.jwt[k].algorithms \cap HSAlgorithms # {}
      BY <2>7
    <3>2. ~(auth.jwt[k].jwks # NoText)
      BY <2>5, <3>1
    <3>3. auth.jwt[k].secret # FALSE
      BY <2>5, <3>2, Zenon
    <3> QED
      BY <2>3, <3>3, Zenon
  <2>8. ASSUME asym PROVE \E k \in DOMAIN auth.jwt : auth.jwt[k].jwks # NoText
    <3>1. PICK k \in DOMAIN auth.jwt : ~(auth.jwt[k].algorithms \subseteq HSAlgorithms)
      BY <2>8
    <3>2. auth.jwt[k].secret = FALSE
      BY <2>3, <2>5, <3>1, Zenon
    <3> QED
      BY <2>5, <3>2, Zenon
  <2> QED
    BY <2>6, <2>7, <2>8
<1> HIDE DEF listed, hs, asym
<1>4. "auth" \notin AuthFailures(auth)
  BY <1>1, <1>2, <1>3, Zenon DEF AuthFailures, listed, hs, asym
<1>5. AuthFailures(auth) \subseteq {"auth", "keys", "secret", "jwks"}
  BY Zenon DEF AuthFailures
<1> QED
  BY <1>4, <1>5

\* What an accepted limiter gives a strategy's factory is within what the
\* factory takes.
LEMMA LimiterBuilds ==
  ASSUME NEW limits, NEW k, NEW where, LimitProblems(limits, k, where) = {}, Filled(limits[k]),
         NEW rl, rl = limits[k], NEW conf, conf = ConfigFrom(rl.strategy, SettingsOf(rl))
  PROVE  /\ rl.strategy \in Strategies /\ ParseKeySpec(rl.key).ok /\ conf.ok
         /\ SuitsStrategy(rl)
<1> DEFINE s == SettingsOf(rl)
<1>1. /\ rl.strategy \in Strategies /\ ParseKeySpec(rl.key).ok
      /\ CheckSettings(rl.strategy, s) = {}
      /\ rl.limit > 0 /\ rl.burst >= 0 /\ rl.capacity >= 0
      /\ rl.cells # 0 => rl.cells \in 2 .. Cells
      /\ rl.maxKeys = 0 \/ rl.maxKeys >= 8
  BY LimitSound
<1>2. /\ rl.window.value \in Int /\ rl.limit \in Int /\ rl.burst \in Int /\ rl.capacity \in Int
      /\ rl.cells \in Int \ {0} /\ rl.maxKeys \in Int \ {0}
  BY DEF Filled
<1>3. /\ s.limit = rl.limit /\ s.window = rl.window.value /\ s.burst = rl.burst
      /\ s.capacity = rl.capacity /\ s.cells = rl.cells
  BY DEF SettingsOf
<1> HIDE DEF s
<1>4. s.limit >= 1 /\ s.burst >= 0 /\ s.capacity >= 0 /\ s.cells \in 2 .. Cells /\ rl.maxKeys >= 8
  BY <1>1, <1>2, <1>3
<1>5. CellsOrDefault(s) \in 2 .. Cells /\ CapacityOrLimit(s) >= 1 /\ Default(s.burst, 0, s.limit) >= 1
  <2>1. CellsOrDefault(s) = s.cells
    BY <1>2, <1>3 DEF CellsOrDefault, Default
  <2>2. CapacityOrLimit(s) >= 1
    BY <1>2, <1>3, <1>4 DEF CapacityOrLimit, Default
  <2>3. Default(s.burst, 0, s.limit) >= 1
    BY <1>2, <1>3, <1>4 DEF Default
  <2> QED
    BY <1>4, <2>1, <2>2, <2>3
<1>6. rl.strategy # "concurrency" => s.window >= 1
  <2>1. "window" \notin CheckSettings(rl.strategy, s)
    BY <1>1
  <2>2. ~(rl.strategy # "concurrency" /\ s.window < 1)
    BY <2>1, Zenon DEF CheckSettings
  <2> QED
    BY <1>2, <1>3, <2>2
<1>7. /\ conf.limit = s.limit /\ conf.window = s.window /\ conf.burst = Default(s.burst, 0, s.limit)
      /\ conf.capacity = CapacityOrLimit(s) /\ conf.cells = CellsOrDefault(s)
  BY DEF ConfigFrom, s
<1>8. conf.ok
  <2>1. conf.ok = IF rl.strategy = "concurrency" THEN CapacityOrLimit(s) >= 1
                  ELSE /\ s.limit >= 1
                       /\ s.window >= 1
                       /\ rl.strategy = "token_bucket" => s.burst >= 0
                       /\ rl.strategy = "leaky_bucket" => s.capacity >= 0
                       /\ rl.strategy = "sliding_window_counter" => CellsOrDefault(s) \in 2 .. Cells
    BY DEF ConfigFrom, s
  <2> QED
    BY <1>4, <1>5, <1>6, <2>1
<1>9. rl.strategy = "sliding_window_counter" => conf.window * Millisecond >= conf.cells
  <2> SUFFICES ASSUME rl.strategy = "sliding_window_counter"
               PROVE  conf.window * Millisecond >= conf.cells
    OBVIOUS
  <2>1. conf.window \in Int /\ conf.window >= 1 /\ conf.cells \in 2 .. Cells
    BY <1>2, <1>3, <1>5, <1>6, <1>7
  <2>2. Cells \in 10 .. 1000
    BY ConfigurationAssumption
  <2> QED
    BY <2>1, <2>2 DEF Millisecond
<1>10. SuitsStrategy(rl)
  <2>1. /\ conf.limit >= 1 /\ conf.burst >= 1 /\ conf.capacity >= 1 /\ rl.maxKeys >= 8
        /\ rl.strategy # "concurrency" => conf.window >= 1
        /\ conf.cells \in 2 .. Cells
    BY <1>4, <1>5, <1>6, <1>7
  <2> QED
    BY <1>9, <2>1, Zenon DEF SuitsStrategy
<1> QED
  BY <1>1, <1>8, <1>10

\* Of an accepted configuration, nothing that is in the file stops a build
\* but a predicate.
LEMMA AcceptedBuild ==
  ASSUME NEW c, Accepted(c)
  PROVE  BuildFailures(c) \subseteq Outside
<1>1. \A i \in DOMAIN c.routes : RouteProblems(c.routes, i, DOMAIN c.upstreams) = {}
  BY ProblemsSound DEF Accepted
<1> DEFINE pools == DOMAIN c.upstreams
<1>2. ASSUME NEW i \in DOMAIN c.routes PROVE c.routes[i].upstreams \in pools
  <2> DEFINE name == c.routes[i].upstreams
             where == << "routes", i >>
  <2>1. PoolProblems(name, pools, where) = {}
    BY <1>1, RouteSound, Zenon
  <2> HIDE DEF pools, name, where
  <2>2. name \in pools
    BY <2>1, PoolsSound, Zenon
  <2> QED
    BY <2>2 DEF name
<1>3. Mirrors(c) \subseteq DOMAIN c.upstreams
  <2>1. ASSUME NEW i \in DOMAIN c.routes, NEW k \in DOMAIN c.routes[i].mirror
        PROVE  c.routes[i].mirror[k].upstreams \in pools
    <3> DEFINE m == c.routes[i].mirror[k]
    <3>1. PICK where : MirrorProblems(m, pools, where) = {}
      <4>1. \A n \in DOMAIN c.routes[i].mirror : \E where : MirrorProblems(c.routes[i].mirror[n], pools, where) = {}
        BY <1>1, <2>1, RouteSound, Zenon
      <4> QED
        BY <2>1, <4>1
    <3> HIDE DEF m, pools
    <3>2. m.upstreams \in pools
      BY <3>1, MirrorSound, Zenon
    <3> QED
      BY <3>2 DEF m
  <2> QED
    BY <2>1 DEF Mirrors, Range
<1>4. ASSUME NEW at \in Limiters(c), NEW rl, rl = LimiterAt(c, at)
      PROVE  /\ ParseKeySpec(rl.key).ok /\ rl.strategy \in Strategies
             /\ ConfigFrom(rl.strategy, SettingsOf(rl)).ok
  <2>1. at[1] \in DOMAIN c.routes /\ at[2] \in DOMAIN c.routes[at[1]].limits
    BY DEF Limiters
  <2> DEFINE limits == c.routes[at[1]].limits
  <2>2. PICK where : LimitProblems(limits, at[2], where) = {}
    BY <1>1, <2>1, RouteSound, Zenon
  <2>3. Filled(limits[at[2]])
    BY <2>1 DEF Accepted, Listed
  <2>4. rl = limits[at[2]]
    BY <1>4 DEF LimiterAt
  <2> HIDE DEF limits
  <2> QED
    BY <2>2, <2>3, <2>4, LimiterBuilds, Zenon
<1>5. ASSUME NEW auth \in Auths(c) PROVE AuthFailures(auth) \subseteq Outside
  <2>1. PICK i \in DOMAIN c.routes : auth \in Range(c.routes[i].auth)
    BY DEF Auths, Range
  <2>2. PICK k \in DOMAIN c.routes[i].auth : auth = c.routes[i].auth[k]
    BY <2>1 DEF Range
  <2>3. PICK where : AuthProblems(auth, where) = {}
    BY <1>1, <2>2, RouteSound, Zenon
  <2>4. auth \in AuthType
    BY <2>2 DEF Accepted, Listed
  <2>5. AuthFailures(auth) \subseteq {"keys", "secret", "jwks"}
    BY <2>3, <2>4, AuthBuilds, Zenon
  <2> QED
    BY <2>5 DEF Outside
<1> DEFINE Stumbles(f) ==
             \/ f = "store" /\ NeedsStore(c) /\ ~(c.store # NoText /\ world.store)
             \/ f = "predicate" /\ \E i \in DOMAIN c.routes : ~RouteCompiles(c.routes[i])
             \/ f = "pool" /\ \E i \in DOMAIN c.routes : c.routes[i].upstreams \notin DOMAIN c.upstreams
             \/ f = "mirror" /\ ~(Mirrors(c) \subseteq DOMAIN c.upstreams)
             \/ f = "key" /\ \E at \in Limiters(c) : ~ParseKeySpec(LimiterAt(c, at).key).ok
             \/ f = "limiter" /\ \E at \in Limiters(c) :
                  LET rl == LimiterAt(c, at) IN
                  rl.strategy \notin Strategies \/ ~ConfigFrom(rl.strategy, SettingsOf(rl)).ok
           own == {f \in {"store", "predicate", "pool", "mirror", "key", "limiter"} : Stumbles(f)}
           auths == {AuthFailures(auth) : auth \in Auths(c)}
<1>6. \A f : Stumbles(f) => f \in Outside
  BY <1>2, <1>3, <1>4 DEF Outside
<1>7. BuildFailures(c) = own \cup UNION auths
  BY DEF BuildFailures
<1>8. own \subseteq Outside
  <2> HIDE DEF Stumbles
  <2> QED
    BY <1>6
<1>9. UNION auths \subseteq Outside
  BY <1>5
<1> HIDE DEF own, auths
<1> QED
  BY <1>7, <1>8, <1>9

\* What the defaults make of a pool.
LEMMA PoolDefaults ==
  ASSUME NEW up \in PoolType
  PROVE  /\ UpstreamDefaults(up).timers =
              [connect |-> SetDur(up.timers.connect, 5 * Second), read |-> SetDur(up.timers.read, 30 * Second),
               write |-> SetDur(up.timers.write, 30 * Second), keepalive |-> SetDur(up.timers.keepalive, 30 * Second)]
         /\ UpstreamDefaults(up).active.interval =
              IF up.active.interval.value = 0 THEN SetDur(up.active.interval, 10 * Second) ELSE up.active.interval
         /\ UpstreamDefaults(up).active.timeout = SetDur(up.active.timeout, 2 * Second)
         /\ UpstreamDefaults(up).active.healthy = Default(up.active.healthy, 0, 2)
         /\ UpstreamDefaults(up).active.unhealthy = Default(up.active.unhealthy, 0, 3)
         /\ UpstreamDefaults(up).passive =
              [window |-> SetDur(up.passive.window, 30 * Second), failures |-> Default(up.passive.failures, 0, 5),
               ejection |-> SetDur(up.passive.ejection, 30 * Second)]
         /\ UpstreamDefaults(up).breaker =
              [failures |-> Default(up.breaker.failures, 0, 10), window |-> SetDur(up.breaker.window, 60 * Second),
               cooldown |-> SetDur(up.breaker.cooldown, 30 * Second), probes |-> Default(up.breaker.probes, 0, 3)]
<1>1. {"balance", "timers", "idle", "active", "passive", "breaker"} \subseteq DOMAIN up
  BY SMT DEF PoolType
<1>2. {"interval", "timeout", "method", "healthy", "unhealthy"} \subseteq DOMAIN up.active
  BY SMT DEF PoolType
<1>3. UpstreamDefaults(up).active =
        [up.active EXCEPT !.interval = IF @.value = 0 THEN SetDur(@, 10 * Second) ELSE @,
           !.timeout = SetDur(@, 2 * Second), !.method = Default(@, NoText, "GET"),
           !.healthy = Default(@, 0, 2), !.unhealthy = Default(@, 0, 3)]
  BY <1>1, SMT DEF UpstreamDefaults
<1>4. /\ UpstreamDefaults(up).timers =
           [connect |-> SetDur(up.timers.connect, 5 * Second), read |-> SetDur(up.timers.read, 30 * Second),
            write |-> SetDur(up.timers.write, 30 * Second), keepalive |-> SetDur(up.timers.keepalive, 30 * Second)]
      /\ UpstreamDefaults(up).passive =
           [window |-> SetDur(up.passive.window, 30 * Second), failures |-> Default(up.passive.failures, 0, 5),
            ejection |-> SetDur(up.passive.ejection, 30 * Second)]
  BY <1>1, SMT DEF UpstreamDefaults
<1>5. UpstreamDefaults(up).breaker =
        [failures |-> Default(up.breaker.failures, 0, 10), window |-> SetDur(up.breaker.window, 60 * Second),
         cooldown |-> SetDur(up.breaker.cooldown, 30 * Second), probes |-> Default(up.breaker.probes, 0, 3)]
  BY <1>1, SMT DEF UpstreamDefaults
<1> QED
  BY <1>2, <1>3, <1>4, <1>5, SMT

\* The defaults leave none of the numbers that count how often zero, and no
\* duration negative.
LEMMA PoolDefaultsFill ==
  ASSUME NEW up \in PoolType
  PROVE  /\ UpstreamDefaults(up).active.healthy \in Int \ {0}
         /\ UpstreamDefaults(up).active.unhealthy \in Int \ {0}
         /\ UpstreamDefaults(up).breaker.failures \in Int \ {0}
         /\ UpstreamDefaults(up).breaker.probes \in Int \ {0}
         /\ UpstreamDefaults(up).passive.failures \in Int
         /\ UpstreamDefaults(up).passive.window.value \in Nat
         /\ UpstreamDefaults(up).passive.ejection.value \in Nat
         /\ UpstreamDefaults(up).breaker.window.value \in Nat
         /\ UpstreamDefaults(up).breaker.cooldown.value \in Nat
         /\ UpstreamDefaults(up).targets = up.targets
<1>1. /\ UpstreamDefaults(up).active.healthy = Default(up.active.healthy, 0, 2)
      /\ UpstreamDefaults(up).active.unhealthy = Default(up.active.unhealthy, 0, 3)
      /\ UpstreamDefaults(up).breaker.failures = Default(up.breaker.failures, 0, 10)
      /\ UpstreamDefaults(up).breaker.probes = Default(up.breaker.probes, 0, 3)
  <2>1. UpstreamDefaults(up).breaker =
          [failures |-> Default(up.breaker.failures, 0, 10), window |-> SetDur(up.breaker.window, 60 * Second),
           cooldown |-> SetDur(up.breaker.cooldown, 30 * Second), probes |-> Default(up.breaker.probes, 0, 3)]
    BY PoolDefaults, Zenon
  <2>2. /\ UpstreamDefaults(up).active.healthy = Default(up.active.healthy, 0, 2)
        /\ UpstreamDefaults(up).active.unhealthy = Default(up.active.unhealthy, 0, 3)
    BY PoolDefaults, Zenon
  <2> QED
    BY <2>1, <2>2, SMT
<1>2. /\ up.active.healthy \in Int /\ up.active.unhealthy \in Int
      /\ up.breaker.failures \in Int /\ up.breaker.probes \in Int
  BY SMT DEF PoolType
<1>3. ASSUME NEW s \in DurationType, NEW n \in Nat PROVE SetDur(s, n).value \in Nat
  BY <1>3 DEF SetDur, DurationType
<1>4. /\ UpstreamDefaults(up).passive.failures \in Int
      /\ UpstreamDefaults(up).passive.window.value \in Nat
      /\ UpstreamDefaults(up).passive.ejection.value \in Nat
  <2>1. UpstreamDefaults(up).passive =
          [window |-> SetDur(up.passive.window, 30 * Second), failures |-> Default(up.passive.failures, 0, 5),
           ejection |-> SetDur(up.passive.ejection, 30 * Second)]
    BY PoolDefaults, Zenon
  <2>2. /\ up.passive.failures \in Int /\ up.passive.window \in DurationType
        /\ up.passive.ejection \in DurationType
    BY SMT DEF PoolType
  <2>3. /\ SetDur(up.passive.window, 30 * Second).value \in Nat
        /\ SetDur(up.passive.ejection, 30 * Second).value \in Nat
    BY <1>3, <2>2 DEF Second
  <2>4. Default(up.passive.failures, 0, 5) \in Int
    BY <2>2 DEF Default
  <2> QED
    BY <2>1, <2>3, <2>4
<1>5. /\ UpstreamDefaults(up).breaker.window.value \in Nat
      /\ UpstreamDefaults(up).breaker.cooldown.value \in Nat
  <2>1. UpstreamDefaults(up).breaker =
          [failures |-> Default(up.breaker.failures, 0, 10), window |-> SetDur(up.breaker.window, 60 * Second),
           cooldown |-> SetDur(up.breaker.cooldown, 30 * Second), probes |-> Default(up.breaker.probes, 0, 3)]
    BY PoolDefaults, Zenon
  <2>2. up.breaker.window \in DurationType /\ up.breaker.cooldown \in DurationType
    BY SMT DEF PoolType
  <2>3. /\ SetDur(up.breaker.window, 60 * Second).value \in Nat
        /\ SetDur(up.breaker.cooldown, 30 * Second).value \in Nat
    BY <1>3, <2>2 DEF Second
  <2> QED
    BY <2>1, <2>3
<1>6. UpstreamDefaults(up).targets = up.targets
  BY SMT DEF UpstreamDefaults, PoolType
<1> QED
  BY <1>1, <1>2, <1>4, <1>5, <1>6 DEF Default

\* What validation asks of a pool.
LEMMA PoolSound ==
  ASSUME NEW up, NEW where, UpstreamProblems(up, where) = {}
  PROVE  /\ up.active.healthy >= 0 /\ up.active.unhealthy >= 0
         /\ up.breaker.failures >= 0 /\ up.breaker.probes >= 0
         /\ \A i \in DOMAIN up.targets : up.targets[i].weight >= 0
         /\ Issues(up.timers, where) = {}
         /\ \E at : Issues([interval |-> up.active.interval, timeout |-> up.active.timeout], at) = {}
         /\ \E at : Issues([window |-> up.passive.window, ejection |-> up.passive.ejection], at) = {}
         /\ \E at : Issues([window |-> up.breaker.window, cooldown |-> up.breaker.cooldown], at) = {}
<1>1. /\ HealthProblems(up, where) = {} /\ Issues(up.timers, where) = {}
      /\ \A i \in DOMAIN up.targets :
           TargetProblems(up.targets[i], where \o << "targets", i >>) = {}
  <2> DEFINE A == Check(up.targets # << >>, Append(where, "targets"), "CFG003")
             B == UNION {TargetProblems(up.targets[i], where \o << "targets", i >>) : i \in DOMAIN up.targets}
             C == Check(up.balance \in LoadBalancers, Append(where, "load_balance"), "CFG002")
             D == Check(up.balance = "ring_hash" => up.hash # NoKey, Append(where, "hash_key"), "CFG005")
             E == Check(up.hash # NoKey => ParseKeySpec(up.hash).ok, Append(where, "hash_key"), "CFG002")
             F == Issues(up.timers, where)
             G == Check(up.idle >= 0, Append(where, "max_idle"), "CFG002")
             T == HealthProblems(up, where)
  <2>1. A \cup B \cup C \cup D \cup E \cup F \cup G \cup T = {}
    BY DEF UpstreamProblems
  <2> HIDE DEF A, B, C, D, E, F, G, T
  <2>2. B = {} /\ F = {} /\ T = {}
    BY <2>1, NoneOfBoth, Zenon
  <2>3. \A i \in DOMAIN up.targets : TargetProblems(up.targets[i], where \o << "targets", i >>) = {}
    BY <2>2, Zenon DEF B
  <2> QED
    BY <2>2, <2>3 DEF F, T
<1>7. ASSUME NEW i \in DOMAIN up.targets PROVE up.targets[i].weight >= 0
  <2> DEFINE t == up.targets[i]
             at == where \o << "targets", i >>
  <2> HIDE DEF at
  <2>1. TargetProblems(t, at) = {}
    BY <1>1 DEF at
  <2> HIDE DEF t
  <2>2. Check(t.weight >= 0, Append(at, "weight"), "CFG002") = {}
    BY <2>1, NoneOfBoth, Zenon DEF TargetProblems
  <2> QED
    BY <2>2, Zenon DEF Check, t
<1> DEFINE active == up.active
           I == [interval |-> active.interval, timeout |-> active.timeout]
           V == [window |-> up.passive.window, ejection |-> up.passive.ejection]
           K == [window |-> up.breaker.window, cooldown |-> up.breaker.cooldown]
           A == Issues(I, Append(where, "active"))
           B == Check(active.enabled => active.path # << "" >>, Append(where, "path"), "CFG003")
           C == Check(active.enabled /\ active.path # << "" >> => Rooted(active.path), Append(where, "path"), "CFG002")
           D == Check(active.enabled /\ active.method # NoText => active.method \in MethodTokens,
                      Append(where, "method"), "CFG002")
           E == Check(active.healthy >= 0 /\ active.unhealthy >= 0, Append(where, "thresholds"), "CFG002")
           F == Issues(V, Append(where, "passive"))
           G == Issues(K, Append(where, "breaker"))
           T == Check(up.breaker.failures >= 0 /\ up.breaker.probes >= 0, Append(where, "breaker"), "CFG002")
<1>2. A \cup B \cup C \cup D \cup E \cup F \cup G \cup T = {}
  BY <1>1, Zenon DEF HealthProblems
<1>3. A = {} /\ E = {} /\ F = {} /\ G = {} /\ T = {}
  <2> HIDE DEF A, B, C, D, E, F, G, T
  <2> QED
    BY <1>2, NoneOfBoth, Zenon
<1>4. active.healthy >= 0 /\ active.unhealthy >= 0
  BY <1>3, Zenon DEF Check
<1>5. up.breaker.failures >= 0 /\ up.breaker.probes >= 0
  BY <1>3, Zenon DEF Check
<1> HIDE DEF I, V, K
<1>6. (\E at : Issues(I, at) = {}) /\ (\E at : Issues(V, at) = {}) /\ (\E at : Issues(K, at) = {})
  BY <1>3, Zenon
<1> QED
  BY <1>1, <1>4, <1>5, <1>6, <1>7 DEF I, V, K

\* What the targets, health checks and breakers of an accepted pool get.
LEMMA AcceptedSuits ==
  ASSUME NEW up \in PoolType, NEW where, UpstreamProblems(UpstreamDefaults(up), where) = {}
  PROVE  SuitsTargets(UpstreamDefaults(up))
<1> DEFINE e == UpstreamDefaults(up)
<1>1. /\ e.active.healthy \in Int \ {0} /\ e.active.unhealthy \in Int \ {0}
      /\ e.breaker.failures \in Int \ {0} /\ e.breaker.probes \in Int \ {0}
      /\ e.passive.failures \in Int
      /\ e.passive.window.value \in Nat /\ e.passive.ejection.value \in Nat
      /\ e.breaker.window.value \in Nat /\ e.breaker.cooldown.value \in Nat
      /\ e.targets = up.targets
  BY PoolDefaultsFill
<1>2. \A i \in DOMAIN up.targets : up.targets[i].weight \in Int
  <2> DEFINE ts == up.targets
             T == [url : STRING, weight : Int]
  <2>1. ts \in Seq(T)
    BY SMT DEF PoolType
  <2> HIDE DEF ts, T
  <2>2. \A i \in DOMAIN ts : ts[i] \in T
    BY <2>1
  <2>3. \A i \in DOMAIN ts : ts[i].weight \in Int
    BY <2>2 DEF T
  <2> QED
    BY <2>3 DEF ts
<1> HIDE DEF e
<1>3. UpstreamProblems(e, where) = {}
  BY DEF e
<1>4. /\ e.active.healthy >= 0 /\ e.active.unhealthy >= 0
      /\ e.breaker.failures >= 0 /\ e.breaker.probes >= 0
      /\ \A i \in DOMAIN e.targets : e.targets[i].weight >= 0
  BY <1>3, PoolSound
<1>5. \A i \in DOMAIN e.targets : e.targets[i].weight \in Nat
  BY <1>1, <1>2, <1>4
<1> QED
  BY <1>1, <1>4, <1>5 DEF SuitsTargets, e

\* The pools of a document that is loaded are the document's, with the
\* defaults filled in, and validation has nothing to say about them.
LEMMA PoolsInForce ==
  ASSUME SInv, stage \notin Unloaded, NEW name \in DOMAIN cfg.upstreams
  PROVE  /\ name \in DOMAIN document.upstreams /\ document.upstreams[name] \in PoolType
         /\ cfg.upstreams[name] = UpstreamDefaults(document.upstreams[name])
         /\ UpstreamProblems(cfg.upstreams[name], << "upstreams", name >>) = {}
<1>1. document \in Documents /\ cfg = ApplyDefaults(document)
  BY DEF SInv, IInv, Typed, Settled
<1>2. document \in DocumentType(DOMAIN document.upstreams)
  BY <1>1, DispatchAssumption, Zenon
<1>3. cfg.upstreams = [n \in DOMAIN document.upstreams |-> UpstreamDefaults(document.upstreams[n])]
  BY <1>1, <1>2, DefaultRoutes, Zenon
<1>4. document.upstreams \in [DOMAIN document.upstreams -> PoolType]
  <2> DEFINE pools == DOMAIN document.upstreams
  <2> HIDE DEF pools
  <2>1. document \in DocumentType(pools)
    BY <1>2 DEF pools
  <2>2. document.upstreams \in [pools -> PoolType]
    BY <2>1, SMT DEF DocumentType
  <2> QED
    BY <2>2 DEF pools
<1>5. \A n \in DOMAIN cfg.upstreams : UpstreamProblems(cfg.upstreams[n], << "upstreams", n >>) = {}
  BY AcceptedInForce, ProblemsSound, Zenon DEF Accepted
<1> QED
  BY <1>3, <1>4, <1>5

BInv == SInv /\ failure \subseteq Outside

LEMMA BuildSteps ==
  ASSUME BInv, [Next]_vars
  PROVE  failure' \subseteq Outside
<1>1. CASE Build
  <2>1. stage \notin Unloaded /\ failure' = BuildFailures(cfg)
    BY <1>1 DEF Build, Unloaded
  <2>2. Accepted(cfg)
    BY <2>1, AcceptedInForce DEF BInv
  <2> QED
    BY <2>1, <2>2, AcceptedBuild
<1>2. CASE ~Build
  <2>1. failure' = failure
    BY <1>2 DEF Next, Load, Receive, Consider, Decide, Forward, generation, vars
  <2> QED
    BY <2>1 DEF BInv
<1> QED
  BY <1>1, <1>2

\* Whatever the file and the world, an accepted configuration is stopped
\* only by what is outside the file or by a predicate, and every number of
\* a pool or a limiter is one that TargetHealth, Limiter and Strategies
\* take: each parameter they have from the file is among them (validate.go
\* against build.go, auth.go, targetstate.go and the factories).
THEOREM AcceptedAlwaysBuilds == Spec => []AcceptedBuilds
<1>1. Init => failure \subseteq Outside
  BY DEF Init
<1>2. SInv /\ failure \subseteq Outside /\ [Next]_vars => (failure \subseteq Outside)'
  BY BuildSteps DEF BInv
<1>3. ASSUME SInv, failure \subseteq Outside PROVE AcceptedBuilds
  <2>1. ASSUME cfg # Nothing PROVE stage \notin Unloaded /\ Accepted(cfg)
    BY <1>3, <2>1, AcceptedInForce DEF SInv, Settled
  <2>2. ASSUME cfg # Nothing, NEW name \in DOMAIN cfg.upstreams
        PROVE  SuitsTargets(cfg.upstreams[name])
    <3> DEFINE up == document.upstreams[name]
               where == << "upstreams", name >>
    <3>1. /\ up \in PoolType /\ cfg.upstreams[name] = UpstreamDefaults(up)
          /\ UpstreamProblems(cfg.upstreams[name], where) = {}
      BY <1>3, <2>1, <2>2, PoolsInForce, Zenon
    <3> HIDE DEF up, where
    <3>2. SuitsTargets(UpstreamDefaults(up))
      BY <3>1, AcceptedSuits, Zenon
    <3> QED
      BY <3>1, <3>2
  <2>3. ASSUME cfg # Nothing, NEW at \in Limiters(cfg), NEW rl, rl = LimiterAt(cfg, at),
               NEW conf, conf = ConfigFrom(rl.strategy, SettingsOf(rl))
        PROVE  SuitsStrategy(rl)
    <3>1. at[1] \in DOMAIN cfg.routes /\ at[2] \in DOMAIN cfg.routes[at[1]].limits
      BY <2>3 DEF Limiters
    <3> DEFINE limits == cfg.routes[at[1]].limits
    <3>2. RouteProblems(cfg.routes, at[1], DOMAIN cfg.upstreams) = {}
      BY <2>1, <2>3, <3>1, ProblemsSound DEF Accepted
    <3>3. PICK where : LimitProblems(limits, at[2], where) = {}
      BY <3>1, <3>2, RouteSound, Zenon
    <3>4. Filled(limits[at[2]])
      BY <2>1, <2>3, <3>1 DEF Accepted, Listed
    <3>5. rl = limits[at[2]]
      BY <2>3 DEF LimiterAt
    <3> HIDE DEF limits
    <3> DEFINE k == at[2]
    <3>6. LimitProblems(limits, k, where) = {} /\ Filled(limits[k]) /\ rl = limits[k]
      BY <3>3, <3>4, <3>5
    <3> HIDE DEF k
    <3> QED
      BY <2>3, <3>6, LimiterBuilds
  <2>4. failure \subseteq {"store", "keys", "secret", "jwks", "predicate"}
    BY <1>3 DEF Outside
  <2> QED
    BY <2>2, <2>3, <2>4 DEF AcceptedBuilds
<1> QED
  BY <1>1, <1>2, <1>3, SInvariance, PTL DEF Spec

-----------------------------------------------------------------------------
(***************************************************************************)
(* What the scalars of an accepted document become                         *)
(***************************************************************************)

\* The scalar s of a document is readable, and e, which is in force, is what
\* it says if it says anything.
Kept(s, e) == ~s.err /\ (s.set => e = s)

LEMMA SetDurKeeps ==
  ASSUME NEW s \in ScalarType \cup DurationType, NEW n, ~SetDur(s, n).err
  PROVE  Kept(s, SetDur(s, n))
<1>1. CASE s.set
  BY <1>1 DEF SetDur, Kept
<1>2. CASE ~s.set
  <2>1. SetDur(s, n).err = s.err
    BY <1>2 DEF SetDur, ScalarType, DurationType
  <2> QED
    BY <1>2, <2>1 DEF Kept
<1> QED
  BY <1>1, <1>2

LEMMA NoIssue ==
  ASSUME NEW s, NEW where, Issue(s, where) = {}
  PROVE  ~s.err
BY Zenon DEF Issue, Check

LEMMA NoIssues ==
  ASSUME NEW scalars, NEW where, Issues(scalars, where) = {}
  PROVE  \A k \in DOMAIN scalars : ~scalars[k].err
<1> DEFINE issues == {Issue(scalars[k], Append(where, k)) : k \in DOMAIN scalars}
<1>1. ASSUME NEW k \in DOMAIN scalars PROVE ~scalars[k].err
  <2>1. Issue(scalars[k], Append(where, k)) \in issues
    OBVIOUS
  <2>2. UNION issues = {}
    BY DEF Issues
  <2> HIDE DEF issues
  <2>3. Issue(scalars[k], Append(where, k)) = {}
    BY <2>1, <2>2, NoneOfUnion, Zenon
  <2> QED
    BY <2>3, NoIssue, Zenon
<1> QED
  BY <1>1

LEMMA PoolTimersKept ==
  ASSUME NEW up \in PoolType, NEW where, UpstreamProblems(UpstreamDefaults(up), where) = {},
         NEW k \in DOMAIN up.timers
  PROVE  k \in DOMAIN UpstreamDefaults(up).timers /\ Kept(up.timers[k], UpstreamDefaults(up).timers[k])
<1> DEFINE t == up.timers
           e == UpstreamDefaults(up).timers
<1>1. e = [connect |-> SetDur(t.connect, 5 * Second), read |-> SetDur(t.read, 30 * Second),
           write |-> SetDur(t.write, 30 * Second), keepalive |-> SetDur(t.keepalive, 30 * Second)]
  BY PoolDefaults, Zenon
<1>2. t \in [connect : DurationType, read : DurationType, write : DurationType, keepalive : DurationType]
  BY SMT DEF PoolType
<1>3. Issues(e, where) = {}
  BY PoolSound, Zenon
<1> HIDE DEF t, e
<1>4. \A j \in DOMAIN e : ~e[j].err
  BY <1>3, NoIssues, Zenon
<1>5. PICK n : e[k] = SetDur(t[k], n) /\ t[k] \in DurationType /\ k \in DOMAIN e
  <2>1. k \in {"connect", "read", "write", "keepalive"}
    BY <1>2 DEF t
  <2>2. DOMAIN e = {"connect", "read", "write", "keepalive"} /\ t[k] \in DurationType
    BY <1>1, <1>2, <2>1
  <2>3. \/ e[k] = SetDur(t[k], 5 * Second)
        \/ e[k] = SetDur(t[k], 30 * Second)
    BY <1>1, <2>1
  <2> QED
    BY <2>1, <2>2, <2>3
<1>6. ~SetDur(t[k], n).err
  BY <1>4, <1>5
<1> QED
  BY <1>5, <1>6, SetDurKeeps DEF t, e

\* The scalars of a pool's health checks and breaker, by their place.
HealthScalars(up) ==
  [interval |-> up.active.interval, probe |-> up.active.timeout,
   window |-> up.passive.window, ejection |-> up.passive.ejection,
   tripping |-> up.breaker.window, cooldown |-> up.breaker.cooldown]

LEMMA HealthScalarsKept ==
  ASSUME NEW up \in PoolType, NEW where, UpstreamProblems(UpstreamDefaults(up), where) = {},
         NEW k \in DOMAIN HealthScalars(up)
  PROVE  /\ k \in DOMAIN HealthScalars(UpstreamDefaults(up))
         /\ Kept(HealthScalars(up)[k], HealthScalars(UpstreamDefaults(up))[k])
<1> DEFINE e == UpstreamDefaults(up)
<1>1. /\ up.active.interval \in DurationType /\ up.active.timeout \in DurationType
      /\ up.passive.window \in DurationType /\ up.passive.ejection \in DurationType
      /\ up.breaker.window \in DurationType /\ up.breaker.cooldown \in DurationType
  BY SMT DEF PoolType
<1>2. /\ \/ e.active.interval = up.active.interval
         \/ e.active.interval = SetDur(up.active.interval, 10 * Second)
      /\ e.active.timeout = SetDur(up.active.timeout, 2 * Second)
  BY PoolDefaults, Zenon
<1>3. /\ e.passive.window = SetDur(up.passive.window, 30 * Second)
      /\ e.passive.ejection = SetDur(up.passive.ejection, 30 * Second)
  <2>1. e.passive = [window |-> SetDur(up.passive.window, 30 * Second),
                     failures |-> Default(up.passive.failures, 0, 5),
                     ejection |-> SetDur(up.passive.ejection, 30 * Second)]
    BY PoolDefaults, Zenon
  <2> HIDE DEF e
  <2> QED
    BY <2>1
<1>4. /\ e.breaker.window = SetDur(up.breaker.window, 60 * Second)
      /\ e.breaker.cooldown = SetDur(up.breaker.cooldown, 30 * Second)
  <2>1. e.breaker = [failures |-> Default(up.breaker.failures, 0, 10),
                     window |-> SetDur(up.breaker.window, 60 * Second),
                     cooldown |-> SetDur(up.breaker.cooldown, 30 * Second),
                     probes |-> Default(up.breaker.probes, 0, 3)]
    BY PoolDefaults, Zenon
  <2> HIDE DEF e
  <2> QED
    BY <2>1
<1>5. UpstreamProblems(e, where) = {}
  OBVIOUS
<1> HIDE DEF e
<1>6. ~e.active.interval.err /\ ~e.active.timeout.err
  <2> DEFINE I == [interval |-> e.active.interval, timeout |-> e.active.timeout]
  <2>1. \E at : Issues(I, at) = {}
    BY <1>5, PoolSound, Zenon
  <2> HIDE DEF I
  <2>2. \A j \in DOMAIN I : ~I[j].err
    BY <2>1, NoIssues, Zenon
  <2>3. I["interval"] = e.active.interval /\ I["timeout"] = e.active.timeout /\ {"interval", "timeout"} \subseteq DOMAIN I
    BY DEF I
  <2> QED
    BY <2>2, <2>3
<1>7. ~e.passive.window.err /\ ~e.passive.ejection.err
  <2> DEFINE I == [window |-> e.passive.window, ejection |-> e.passive.ejection]
  <2>1. \E at : Issues(I, at) = {}
    BY <1>5, PoolSound, Zenon
  <2> HIDE DEF I
  <2>2. \A j \in DOMAIN I : ~I[j].err
    BY <2>1, NoIssues, Zenon
  <2>3. I["window"] = e.passive.window /\ I["ejection"] = e.passive.ejection /\ {"window", "ejection"} \subseteq DOMAIN I
    BY DEF I
  <2> QED
    BY <2>2, <2>3
<1>8. ~e.breaker.window.err /\ ~e.breaker.cooldown.err
  <2> DEFINE I == [window |-> e.breaker.window, cooldown |-> e.breaker.cooldown]
  <2>1. \E at : Issues(I, at) = {}
    BY <1>5, PoolSound, Zenon
  <2> HIDE DEF I
  <2>2. \A j \in DOMAIN I : ~I[j].err
    BY <2>1, NoIssues, Zenon
  <2>3. I["window"] = e.breaker.window /\ I["cooldown"] = e.breaker.cooldown /\ {"window", "cooldown"} \subseteq DOMAIN I
    BY DEF I
  <2> QED
    BY <2>2, <2>3
<1>9. Kept(up.active.interval, e.active.interval) /\ Kept(up.active.timeout, e.active.timeout)
  <2>1. CASE e.active.interval = up.active.interval
    BY <1>1, <1>2, <1>6, <2>1, SetDurKeeps DEF Kept
  <2>2. CASE e.active.interval = SetDur(up.active.interval, 10 * Second)
    BY <1>1, <1>2, <1>6, <2>2, SetDurKeeps
  <2> QED
    BY <1>2, <2>1, <2>2
<1>10. Kept(up.passive.window, e.passive.window) /\ Kept(up.passive.ejection, e.passive.ejection)
  BY <1>1, <1>3, <1>7, SetDurKeeps
<1>11. Kept(up.breaker.window, e.breaker.window) /\ Kept(up.breaker.cooldown, e.breaker.cooldown)
  BY <1>1, <1>4, <1>8, SetDurKeeps
<1> QED
  BY <1>9, <1>10, <1>11, SMT DEF HealthScalars, e

LEMMA PoolScalarsKept ==
  ASSUME NEW up \in PoolType, NEW where, UpstreamProblems(UpstreamDefaults(up), where) = {},
         NEW k \in DOMAIN PoolScalars(up)
  PROVE  /\ k \in DOMAIN PoolScalars(UpstreamDefaults(up))
         /\ Kept(PoolScalars(up)[k], PoolScalars(UpstreamDefaults(up))[k])
<1> DEFINE e == UpstreamDefaults(up)
<1>1. \A p : /\ DOMAIN PoolScalars(p) = {"connect", "read", "write", "keepalive"} \cup DOMAIN HealthScalars(p)
             /\ \A x \in {"connect", "read", "write", "keepalive"} : PoolScalars(p)[x] = p.timers[x]
             /\ \A x \in DOMAIN HealthScalars(p) : PoolScalars(p)[x] = HealthScalars(p)[x]
  BY DEF PoolScalars, HealthScalars
<1>2. DOMAIN up.timers = {"connect", "read", "write", "keepalive"}
  BY SMT DEF PoolType
<1>3. DOMAIN e.timers = {"connect", "read", "write", "keepalive"}
  <2>1. e.timers = [connect |-> SetDur(up.timers.connect, 5 * Second), read |-> SetDur(up.timers.read, 30 * Second),
                    write |-> SetDur(up.timers.write, 30 * Second),
                    keepalive |-> SetDur(up.timers.keepalive, 30 * Second)]
    BY PoolDefaults, Zenon
  <2> HIDE DEF e
  <2> QED
    BY <2>1
<1>4. k \in DOMAIN up.timers => Kept(up.timers[k], e.timers[k])
  BY PoolTimersKept, Zenon
<1>5. k \in DOMAIN HealthScalars(up) => k \in DOMAIN HealthScalars(e) /\ Kept(HealthScalars(up)[k], HealthScalars(e)[k])
  BY HealthScalarsKept, Zenon
<1> HIDE DEF e
<1>6. CASE k \in {"connect", "read", "write", "keepalive"}
  <2>1. k \in DOMAIN PoolScalars(e) /\ PoolScalars(e)[k] = e.timers[k] /\ PoolScalars(up)[k] = up.timers[k]
    BY <1>1, <1>6
  <2> QED
    BY <1>2, <1>4, <1>6, <2>1 DEF e
<1>7. CASE k \in DOMAIN HealthScalars(up)
  <2>1. k \in DOMAIN HealthScalars(e)
    BY <1>5, <1>7
  <2>2. /\ k \in DOMAIN PoolScalars(e) /\ PoolScalars(e)[k] = HealthScalars(e)[k]
        /\ PoolScalars(up)[k] = HealthScalars(up)[k]
    BY <1>1, <1>7, <2>1
  <2> QED
    BY <1>5, <1>7, <2>2 DEF e
<1>8. k \in {"connect", "read", "write", "keepalive"} \/ k \in DOMAIN HealthScalars(up)
  BY <1>1
<1> QED
  BY <1>6, <1>7, <1>8

LEMMA ServerScalars ==
  ASSUME NEW pools, NEW d \in DocumentType(pools), NEW c, c = ApplyDefaults(d),
         Issues(c.timers, << "server" >>) = {}, Issue(c.header, << "server.max_header_bytes" >>) = {}
  PROVE  /\ Kept(d.header, c.header)
         /\ \A k \in DOMAIN d.timers : k \in DOMAIN c.timers /\ Kept(d.timers[k], c.timers[k])
<1>1. d.timers \in [read : DurationType, write : DurationType, idle : DurationType] /\ d.header \in ScalarType
  BY SMT DEF DocumentType
<1>2. /\ c.timers = [read |-> SetDur(d.timers.read, 30 * Second), write |-> SetDur(d.timers.write, 60 * Second),
                     idle |-> SetDur(d.timers.idle, 120 * Second)]
      /\ c.header = SetDur(d.header, 1048576)
  <2>1. {"version", "listen", "timers", "header", "tls", "admin", "log", "metrics"} \subseteq DOMAIN d
    BY SMT DEF DocumentType
  <2>2. /\ ServerDefaults(d).timers =
             [read |-> SetDur(d.timers.read, 30 * Second), write |-> SetDur(d.timers.write, 60 * Second),
              idle |-> SetDur(d.timers.idle, 120 * Second)]
        /\ ServerDefaults(d).header = SetDur(d.header, 1048576)
    BY <2>1, SMT DEF ServerDefaults
  <2>3. c.timers = ServerDefaults(d).timers /\ c.header = ServerDefaults(d).header
    BY ServerDefaultsKeep DEF ApplyDefaults
  <2> QED
    BY <2>2, <2>3
<1>3. Kept(d.header, c.header)
  BY <1>1, <1>2, NoIssue, SetDurKeeps
<1>4. ASSUME NEW k \in DOMAIN d.timers
      PROVE  k \in DOMAIN c.timers /\ Kept(d.timers[k], c.timers[k])
  <2>1. k \in {"read", "write", "idle"}
    BY <1>1, <1>4
  <2>2. k \in DOMAIN c.timers /\ d.timers[k] \in DurationType
    BY <1>1, <1>2, <2>1
  <2>3. ~c.timers[k].err
    BY <2>2, NoIssues, Zenon
  <2>4. PICK n : c.timers[k] = SetDur(d.timers[k], n)
    <3>1. \/ c.timers[k] = SetDur(d.timers[k], 30 * Second)
          \/ c.timers[k] = SetDur(d.timers[k], 60 * Second)
          \/ c.timers[k] = SetDur(d.timers[k], 120 * Second)
      BY <1>2, <2>1
    <3> QED
      BY <3>1
  <2> QED
    BY <2>2, <2>3, <2>4, SetDurKeeps
<1> QED
  BY <1>3, <1>4

LEMMA RouteScalars ==
  ASSUME NEW pools, NEW d \in DocumentType(pools), NEW c, c = ApplyDefaults(d),
         \A i \in DOMAIN c.routes : RouteProblems(c.routes, i, DOMAIN c.upstreams) = {}
  PROVE  /\ \A i \in DOMAIN d.routes : i \in DOMAIN c.routes /\ Kept(d.routes[i].timeout, c.routes[i].timeout)
         /\ \A at \in Limiters(d) : /\ at \in Limiters(c)
                                    /\ Kept(LimiterAt(d, at).window, LimiterAt(c, at).window)
<1>1. d.routes \in Seq(RouteType)
  BY SMT DEF DocumentType
<1>2. c.routes = [i \in DOMAIN d.routes |-> RouteDefaults(d.routes[i])]
  BY DefaultRoutes, Zenon
<1>3. ASSUME NEW i \in DOMAIN d.routes
      PROVE  /\ i \in DOMAIN c.routes /\ Kept(d.routes[i].timeout, c.routes[i].timeout)
             /\ \A k \in DOMAIN d.routes[i].limits :
                  /\ k \in DOMAIN c.routes[i].limits
                  /\ Kept(d.routes[i].limits[k].window, c.routes[i].limits[k].window)
  <2> DEFINE r == d.routes[i]
  <2>1. i \in DOMAIN c.routes /\ c.routes[i] = RouteDefaults(r) /\ r \in RouteType
    BY <1>1, <1>2
  <2>2. /\ c.routes[i].timeout = SetDur(r.timeout, 60 * Second)
        /\ c.routes[i].limits = [k \in DOMAIN r.limits |-> LimitDefaults(r.limits[k])]
    BY <2>1, RouteDefaultsKeep
  <2>3. r.timeout \in DurationType /\ r.limits \in Seq(LimitType)
    BY <2>1 DEF RouteType
  <2> HIDE DEF r
  <2>4. /\ Issue(c.routes[i].timeout, Append(<< "routes", i >>, "timeout")) = {}
        /\ \A k \in DOMAIN c.routes[i].limits : \E where : LimitProblems(c.routes[i].limits, k, where) = {}
    BY <2>1, RouteSound, Zenon
  <2>5. Kept(r.timeout, c.routes[i].timeout)
    BY <2>2, <2>3, <2>4, NoIssue, SetDurKeeps
  <2>6. ASSUME NEW k \in DOMAIN r.limits
        PROVE  k \in DOMAIN c.routes[i].limits /\ Kept(r.limits[k].window, c.routes[i].limits[k].window)
    <3>1. k \in DOMAIN c.routes[i].limits /\ c.routes[i].limits[k] = LimitDefaults(r.limits[k]) /\ r.limits[k] \in LimitType
      BY <2>2, <2>3
    <3>2. c.routes[i].limits[k].window = r.limits[k].window
      BY <3>1, LimitDefaultsKeep
    <3>3. ~c.routes[i].limits[k].window.err
      BY <2>4, <3>1, LimitSound, Zenon
    <3> QED
      BY <3>1, <3>2, <3>3 DEF Kept
  <2> QED
    BY <2>1, <2>5, <2>6 DEF r
<1>4. ASSUME NEW at \in Limiters(d)
      PROVE  at \in Limiters(c) /\ Kept(LimiterAt(d, at).window, LimiterAt(c, at).window)
  <2>1. /\ at = << at[1], at[2] >> /\ at[1] \in DOMAIN d.routes
        /\ at[2] \in DOMAIN d.routes[at[1]].limits
    BY DEF Limiters
  <2>2. /\ at[1] \in DOMAIN c.routes /\ at[2] \in DOMAIN c.routes[at[1]].limits
        /\ Kept(d.routes[at[1]].limits[at[2]].window, c.routes[at[1]].limits[at[2]].window)
    BY <1>3, <2>1
  <2> QED
    BY <2>1, <2>2 DEF Limiters, LimiterAt
<1> QED
  BY <1>3, <1>4

\* The scalars of a document, place by place.
PoolsOf(c) ==
  {{<< k, name, 0, 0, PoolScalars(c.upstreams[name])[k] >> : k \in DOMAIN PoolScalars(c.upstreams[name])} :
     name \in DOMAIN c.upstreams}

LEMMA ScalarsAre ==
  ASSUME NEW c, NEW w
  PROVE  w \in Scalars(c) <=>
           \/ \E k \in DOMAIN c.timers : w = << k, NoText, 0, 0, c.timers[k] >>
           \/ w = << "header", NoText, 0, 0, c.header >>
           \/ \E name \in DOMAIN c.upstreams : \E k \in DOMAIN PoolScalars(c.upstreams[name]) :
                w = << k, name, 0, 0, PoolScalars(c.upstreams[name])[k] >>
           \/ \E i \in DOMAIN c.routes : w = << "timeout", NoText, i, 0, c.routes[i].timeout >>
           \/ \E at \in Limiters(c) : w = << "window", NoText, at[1], at[2], LimiterAt(c, at).window >>
<1> DEFINE A == {<< k, NoText, 0, 0, c.timers[k] >> : k \in DOMAIN c.timers}
           B == {<< "header", NoText, 0, 0, c.header >>}
           C == UNION PoolsOf(c)
           D == {<< "timeout", NoText, i, 0, c.routes[i].timeout >> : i \in DOMAIN c.routes}
           E == {<< "window", NoText, at[1], at[2], LimiterAt(c, at).window >> : at \in Limiters(c)}
<1>1. Scalars(c) = A \cup B \cup C \cup D \cup E
  BY DEF Scalars, PoolsOf
<1>2. w \in A <=> \E k \in DOMAIN c.timers : w = << k, NoText, 0, 0, c.timers[k] >>
  OBVIOUS
<1>3. w \in B <=> w = << "header", NoText, 0, 0, c.header >>
  OBVIOUS
<1>4. w \in C <=> \E name \in DOMAIN c.upstreams : \E k \in DOMAIN PoolScalars(c.upstreams[name]) :
                    w = << k, name, 0, 0, PoolScalars(c.upstreams[name])[k] >>
  <2> DEFINE Pool(name) ==
               {<< k, name, 0, 0, PoolScalars(c.upstreams[name])[k] >> : k \in DOMAIN PoolScalars(c.upstreams[name])}
  <2>1. PoolsOf(c) = {Pool(name) : name \in DOMAIN c.upstreams}
    BY DEF PoolsOf
  <2>2. \A name : w \in Pool(name) <=> \E k \in DOMAIN PoolScalars(c.upstreams[name]) :
                                       w = << k, name, 0, 0, PoolScalars(c.upstreams[name])[k] >>
    OBVIOUS
  <2> HIDE DEF Pool
  <2>3. w \in C <=> \E name \in DOMAIN c.upstreams : w \in Pool(name)
    BY <2>1
  <2> HIDE DEF C
  <2> QED
    BY <2>2, <2>3, Zenon
<1>5. w \in D <=> \E i \in DOMAIN c.routes : w = << "timeout", NoText, i, 0, c.routes[i].timeout >>
  OBVIOUS
<1>6. w \in E <=> \E at \in Limiters(c) : w = << "window", NoText, at[1], at[2], LimiterAt(c, at).window >>
  OBVIOUS
<1> HIDE DEF A, B, C, D, E
<1> QED
  BY <1>1, <1>2, <1>3, <1>4, <1>5, <1>6

\* A scalar that is kept, at its place, is in force.
LEMMA KeptIsInForce ==
  ASSUME NEW a, NEW b, NEW i, NEW k, NEW s, NEW e, NEW effective, Kept(s, e),
         << a, b, i, k, e >> \in effective
  PROVE  ~s.err /\ (s.set => << a, b, i, k, s >> \in effective)
BY DEF Kept

\* Whatever the file, one that is accepted means what it says: every
\* duration and size in it is readable, and what is given is in force and
\* gives way to no default (types.go:28, "units are never guessed").
THEOREM AcceptedMeansAsWritten == Spec => []AsWritten
<1>1. ASSUME SInv, cfg # Nothing
      PROVE  InForce(Scalars(document), Scalars(cfg))
  <2>1. document \in Documents /\ cfg = ApplyDefaults(document) /\ stage \notin Unloaded
    BY <1>1 DEF SInv, IInv, Typed, Settled
  <2> DEFINE pools == DOMAIN document.upstreams
  <2>2. document \in DocumentType(pools)
    BY <2>1, DispatchAssumption, Zenon
  <2>3. /\ \A i \in DOMAIN cfg.routes : RouteProblems(cfg.routes, i, DOMAIN cfg.upstreams) = {}
        /\ Issues(cfg.timers, << "server" >>) = {} /\ Issue(cfg.header, << "server.max_header_bytes" >>) = {}
    BY <1>1, <2>1, AcceptedInForce, ProblemsSound, Zenon DEF Accepted
  <2>4. DOMAIN cfg.upstreams = pools
    BY <2>1, <2>2, DefaultRoutes
  <2>5. /\ Kept(document.header, cfg.header)
        /\ \A k \in DOMAIN document.timers : k \in DOMAIN cfg.timers /\ Kept(document.timers[k], cfg.timers[k])
    BY <2>1, <2>2, <2>3, ServerScalars, Zenon
  <2>6. /\ \A i \in DOMAIN document.routes :
             i \in DOMAIN cfg.routes /\ Kept(document.routes[i].timeout, cfg.routes[i].timeout)
        /\ \A at \in Limiters(document) :
             at \in Limiters(cfg) /\ Kept(LimiterAt(document, at).window, LimiterAt(cfg, at).window)
    BY <2>1, <2>2, <2>3, RouteScalars, Zenon
  <2>7. ASSUME NEW name \in pools, NEW k \in DOMAIN PoolScalars(document.upstreams[name])
        PROVE  /\ k \in DOMAIN PoolScalars(cfg.upstreams[name])
               /\ Kept(PoolScalars(document.upstreams[name])[k], PoolScalars(cfg.upstreams[name])[k])
    <3> DEFINE up == document.upstreams[name]
               where == << "upstreams", name >>
    <3>1. name \in DOMAIN cfg.upstreams
      BY <2>4, <2>7
    <3>2. /\ up \in PoolType /\ cfg.upstreams[name] = UpstreamDefaults(up)
          /\ UpstreamProblems(cfg.upstreams[name], where) = {}
      BY <1>1, <2>1, <3>1, PoolsInForce, Zenon
    <3>3. k \in DOMAIN PoolScalars(up)
      BY <2>7
    <3> HIDE DEF up, where
    <3>4. k \in DOMAIN PoolScalars(UpstreamDefaults(up)) /\ Kept(PoolScalars(up)[k], PoolScalars(UpstreamDefaults(up))[k])
      BY <3>2, <3>3, PoolScalarsKept, Zenon
    <3> QED
      BY <3>2, <3>4 DEF up
  <2> HIDE DEF pools
  <2> DEFINE effective == Scalars(cfg)
             Good(w) == ~w[5].err /\ (w[5].set => w \in effective)
             Right(a, b, i, k, s, e) == Kept(s, e) /\ << a, b, i, k, e >> \in effective
  <2>8. ASSUME NEW a, NEW b, NEW i, NEW k, NEW s, NEW e, Right(a, b, i, k, s, e)
        PROVE  Good(<< a, b, i, k, s >>)
    <3> HIDE DEF effective
    <3> QED
      BY <2>8, KeptIsInForce
  <2>9. ASSUME NEW w \in Scalars(document) PROVE Good(w)
    <3> HIDE DEF Good, Right
    <3>1. CASE \E k \in DOMAIN document.timers : w = << k, NoText, 0, 0, document.timers[k] >>
      <4>1. PICK k \in DOMAIN document.timers : w = << k, NoText, 0, 0, document.timers[k] >>
        BY <3>1
      <4>2. << k, NoText, 0, 0, cfg.timers[k] >> \in effective
        BY <2>5, ScalarsAre
      <4>3. Right(k, NoText, 0, 0, document.timers[k], cfg.timers[k])
        BY <2>5, <4>2 DEF Right
      <4> QED
        BY <2>8, <4>1, <4>3, Zenon
    <3>2. CASE w = << "header", NoText, 0, 0, document.header >>
      <4>1. << "header", NoText, 0, 0, cfg.header >> \in effective
        BY ScalarsAre
      <4>2. Right("header", NoText, 0, 0, document.header, cfg.header)
        BY <2>5, <4>1 DEF Right
      <4> QED
        BY <2>8, <3>2, <4>2, Zenon
    <3>3. CASE \E name \in DOMAIN document.upstreams : \E k \in DOMAIN PoolScalars(document.upstreams[name]) :
                 w = << k, name, 0, 0, PoolScalars(document.upstreams[name])[k] >>
      <4>0. PICK name \in pools : \E k \in DOMAIN PoolScalars(document.upstreams[name]) :
              w = << k, name, 0, 0, PoolScalars(document.upstreams[name])[k] >>
        BY <3>3 DEF pools
      <4>1. PICK k \in DOMAIN PoolScalars(document.upstreams[name]) :
              w = << k, name, 0, 0, PoolScalars(document.upstreams[name])[k] >>
        BY <4>0
      <4>2. << k, name, 0, 0, PoolScalars(cfg.upstreams[name])[k] >> \in effective
        BY <2>4, <2>7, ScalarsAre
      <4>3. Right(k, name, 0, 0, PoolScalars(document.upstreams[name])[k], PoolScalars(cfg.upstreams[name])[k])
        BY <2>7, <4>2 DEF Right
      <4> QED
        BY <2>8, <4>1, <4>3, Zenon
    <3>4. CASE \E i \in DOMAIN document.routes : w = << "timeout", NoText, i, 0, document.routes[i].timeout >>
      <4>1. PICK i \in DOMAIN document.routes : w = << "timeout", NoText, i, 0, document.routes[i].timeout >>
        BY <3>4
      <4>2. << "timeout", NoText, i, 0, cfg.routes[i].timeout >> \in effective
        BY <2>6, ScalarsAre
      <4>3. Right("timeout", NoText, i, 0, document.routes[i].timeout, cfg.routes[i].timeout)
        BY <2>6, <4>2 DEF Right
      <4> QED
        BY <2>8, <4>1, <4>3, Zenon
    <3>5. CASE \E at \in Limiters(document) :
                 w = << "window", NoText, at[1], at[2], LimiterAt(document, at).window >>
      <4>1. PICK at \in Limiters(document) :
              w = << "window", NoText, at[1], at[2], LimiterAt(document, at).window >>
        BY <3>5
      <4>2. << "window", NoText, at[1], at[2], LimiterAt(cfg, at).window >> \in effective
        BY <2>6, ScalarsAre
      <4>3. Right("window", NoText, at[1], at[2], LimiterAt(document, at).window, LimiterAt(cfg, at).window)
        BY <2>6, <4>2 DEF Right
      <4> QED
        BY <2>8, <4>1, <4>3, Zenon
    <3>6. \/ \E k \in DOMAIN document.timers : w = << k, NoText, 0, 0, document.timers[k] >>
          \/ w = << "header", NoText, 0, 0, document.header >>
          \/ \E name \in DOMAIN document.upstreams : \E k \in DOMAIN PoolScalars(document.upstreams[name]) :
               w = << k, name, 0, 0, PoolScalars(document.upstreams[name])[k] >>
          \/ \E i \in DOMAIN document.routes : w = << "timeout", NoText, i, 0, document.routes[i].timeout >>
          \/ \E at \in Limiters(document) :
               w = << "window", NoText, at[1], at[2], LimiterAt(document, at).window >>
      BY <2>9, ScalarsAre
    <3> QED
      BY <3>1, <3>2, <3>3, <3>4, <3>5, <3>6, Zenon
  <2> QED
    BY <2>9 DEF InForce
<1> QED
  BY <1>1, SInvariance, PTL DEF AsWritten

=============================================================================
