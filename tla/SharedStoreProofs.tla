------------------------- MODULE SharedStoreProofs -------------------------
(***************************************************************************)
(* Theorems about SharedStore, for any number of gateways and requests:    *)
(* the record of a key counts exactly the slots that are out, and the      *)
(* gateways together implement SlotContract.                               *)
(*                                                                         *)
(* A transaction judges the record by an instant that may be MaxLag old,   *)
(* and stamps it with one; so what has to be shown is that no record       *)
(* expires under a request that holds: a holder's own stamp, and every     *)
(* later one, reaches MaxHold and twice MaxLag beyond the instant at which *)
(* it was admitted (Leased), which is StoreAssumption.                     *)
(***************************************************************************)
EXTENDS SharedStore, FiniteSetTheorems, TLAPS

Keyed == \A u \in Calls : call[u].at # "idle" => call[u].key \in Keys

(* Instants lie in the past, and no further than the bounds allow. *)
Ages ==
  \A u \in Calls :
    /\ call[u].when <= clock
    /\ call[u].at \in {"allow", "release"} => clock <= call[u].when + MaxLag
    /\ call[u].at = "holding" => clock <= call[u].when + MaxHold

(* A holder's record was stamped when it was admitted or later. *)
Leased ==
  \A u \in Calls :
    /\ call[u].at = "holding" =>
         file[call[u].key].expires >= call[u].when + TTL - MaxLag
    /\ call[u].at = "release" =>
         file[call[u].key].expires >= call[u].when + TTL - MaxLag - MaxHold

(* A record was stamped when it was last touched. *)
Stamps ==
  \A k \in Keys : file[k].count > 0 => file[k].expires >= touched[k] + TTL - MaxLag

IInv == TypeOK /\ Keyed /\ Ages /\ Leased /\ Stamps /\ CountExact

-----------------------------------------------------------------------------
LEMMA Bounds ==
  /\ TTL \in Nat /\ MaxLag \in Nat /\ MaxHold \in Nat /\ MaxTime \in Nat /\ Capacity \in Nat
  /\ Capacity >= 1 /\ TTL > MaxHold + 2 * MaxLag /\ Nobody \notin Calls
  BY StoreAssumption

LEMMA HoldersFinite == \A k : IsFiniteSet(Holders(k)) /\ Cardinality(Holders(k)) \in Nat
<1> TAKE k
<1>1. Holders(k) \subseteq Calls
  BY DEF Holders
<1> QED
  BY <1>1, StoreAssumption, FS_Subset, FS_CardinalityType

(* Holders depend only on who is admitted to what. *)
LEMMA SameHolders ==
  ASSUME \A u \in Calls :
           /\ call'[u].at \in {"holding", "release"} <=> call[u].at \in {"holding", "release"}
           /\ call[u].at \in {"holding", "release"} => call'[u].key = call[u].key
  PROVE  \A k : Holders(k)' = Holders(k)
  BY DEF Holders

(* A record that somebody holds a slot of is alive at every instant read   *)
(* up to now.                                                              *)
LEMMA HeldIsLive ==
  ASSUME IInv, NEW k \in Keys, Holders(k) # {}, NEW when \in Int, when <= clock
  PROVE  Live(k, when) = file[k].count /\ file[k].count >= 1
<1>1. PICK u \in Calls : call[u].at \in {"holding", "release"} /\ call[u].key = k
  BY DEF Holders
<1>2. /\ clock \in Nat /\ call[u].when \in Nat /\ file[k].expires \in Nat /\ file[k].count \in Nat
      /\ lost[k] \in Nat
  BY Bounds DEF IInv, TypeOK, Times, Call, Record
<1>3. file[k].expires > clock
  <2>1. CASE call[u].at = "holding"
    BY <1>1, <1>2, <2>1, Bounds DEF IInv, Leased, Ages
  <2>2. CASE call[u].at = "release"
    BY <1>1, <1>2, <2>2, Bounds DEF IInv, Leased, Ages
  <2> QED
    BY <1>1, <2>1, <2>2
<1>4. Cardinality(Holders(k)) # 0
  BY HoldersFinite, FS_EmptySet
<1>5. file[k].count >= 1
  BY <1>2, <1>4, HoldersFinite DEF IInv, CountExact
<1> QED
  BY <1>2, <1>3, <1>5 DEF Live

(* What a transaction finds: the whole record, or one nobody holds a slot  *)
(* of and that has not been touched for nearly its lifetime.               *)
LEMMA Found ==
  ASSUME IInv, NEW k \in Keys, NEW when \in Int, when <= clock
  PROVE  \/ Live(k, when) = file[k].count /\ StillLost(k, when) = lost[k]
         \/ /\ Live(k, when) = 0 /\ StillLost(k, when) = 0 /\ file[k].count > 0
            /\ Holders(k) = {} /\ clock >= touched[k] + TTL - MaxLag
<1>1. /\ file[k].expires \in Nat /\ file[k].count \in Nat /\ lost[k] \in Nat
      /\ touched[k] \in Nat /\ clock \in Nat
  BY Bounds DEF IInv, TypeOK, Times, Record
<1>2. file[k].count = Cardinality(Holders(k)) + lost[k]
  BY DEF IInv, CountExact
<1>3. CASE file[k].expires > when /\ file[k].count > 0
  BY <1>1, <1>3 DEF Live, StillLost
<1>4. CASE file[k].count = 0
  BY <1>1, <1>2, <1>4, HoldersFinite DEF Live, StillLost
<1>5. CASE ~(file[k].expires > when) /\ file[k].count > 0
  <2>1. Live(k, when) = 0
    BY <1>5 DEF Live
  <2>2. Holders(k) = {}
    BY <1>5, <2>1, HeldIsLive
  <2>3. clock >= touched[k] + TTL - MaxLag
    BY <1>1, <1>5, Bounds DEF IInv, Stamps
  <2> QED
    BY <1>5, <2>1, <2>2, <2>3 DEF StillLost
<1> QED
  BY <1>1, <1>3, <1>4, <1>5

LEMMA FoundTypes ==
  ASSUME IInv, NEW k \in Keys, NEW when \in Int
  PROVE  Live(k, when) \in 0 .. Capacity /\ StillLost(k, when) \in Nat
  BY Bounds DEF IInv, TypeOK, Record, Live, StillLost

-----------------------------------------------------------------------------
LEMMA InitIInv == Init => IInv
<1> SUFFICES ASSUME Init PROVE IInv
  OBVIOUS
<1>1. TypeOK /\ Keyed /\ Ages /\ Leased /\ Stamps
  BY Bounds DEF Init, TypeOK, Keyed, Ages, Leased, Stamps, Times, Record, Call, Idle, Empty
<1>2. \A k : Holders(k) = {}
  BY DEF Init, Holders, Idle
<1>3. CountExact
  BY <1>2, FS_EmptySet DEF Init, CountExact, Empty
<1> QED
  BY <1>1, <1>3 DEF IInv

(* Steps that leave every request's place at the limiter alone. *)
LEMMA ProcessSteps ==
  ASSUME IInv, NEW g \in Gateways, Start(g) \/ Open(g) \/ OpenFails(g) \/ Close(g)
  PROVE  IInv'
<1>1. UNCHANGED <<clock, file, call, lost, touched, writer>>
  BY DEF Start, Open, OpenFails, Close
<1>2. TypeOK'
  <2>1. clock \in Times /\ 0 \in Times
    BY Bounds DEF IInv, TypeOK, Times
  <2>2. gateway' \in [Gateways -> {"down", "opening", "serving", "closed"}]
    BY DEF IInv, TypeOK, Start, Open, OpenFails, Close
  <2>3. asked' \in [Gateways -> Times]
    BY <2>1 DEF IInv, TypeOK, Start, Open, OpenFails, Close
  <2>4. flock' \in Gateways \cup {Nobody}
    BY DEF IInv, TypeOK, Start, Open, OpenFails, Close
  <2> QED
    BY <1>1, <2>1, <2>2, <2>3, <2>4 DEF IInv, TypeOK
<1>3. CountExact'
  BY <1>1 DEF IInv, CountExact, Holders
<1> QED
  BY <1>1, <1>2, <1>3 DEF IInv, Keyed, Ages, Leased, Stamps

(* What the death of a gateway takes away. *)
LEMMA GoneHolders ==
  ASSUME IInv, NEW g \in Gateways, Gone(g), NEW k \in Keys
  PROVE  /\ Holders(k)' = Holders(k) \ Of(g)
         /\ lost[k]' = lost[k] + Cardinality(Holders(k) \cap Of(g))
         /\ Cardinality(Holders(k)') = Cardinality(Holders(k)) - Cardinality(Holders(k) \cap Of(g))
         /\ Cardinality(Holders(k) \cap Of(g)) \in Nat
<1>1. Holders(k)' = Holders(k) \ Of(g)
  BY DEF Gone, Holders, Idle
<1>2. lost[k]' = lost[k] + Cardinality(Holders(k) \cap Of(g))
  BY DEF Gone
<1>3. IsFiniteSet(Holders(k) \cap Of(g))
  BY HoldersFinite, FS_Intersection
<1> QED
  BY <1>1, <1>2, <1>3, HoldersFinite, FS_Difference, FS_CardinalityType

LEMMA GoneStep ==
  ASSUME IInv, NEW g \in Gateways, Gone(g)
  PROVE  IInv'
<1>1. TypeOK'
  <2>1. lost' \in [Keys -> Nat]
    <3>1. \A k \in Keys : lost[k] + Cardinality(Holders(k) \cap Of(g)) \in Nat
      BY GoneHolders DEF IInv, TypeOK
    <3> QED
      BY <3>1 DEF Gone
  <2>2. call' \in [Calls -> Call]
    BY Bounds DEF IInv, TypeOK, Gone, Idle, Call, Times
  <2> QED
    BY <2>1, <2>2, Bounds DEF IInv, TypeOK, Gone, Times
<1>2. Keyed' /\ Ages' /\ Leased'
  BY Bounds DEF IInv, TypeOK, Times, Keyed, Ages, Leased, Gone, Idle
<1>3. Stamps'
  BY DEF IInv, Stamps, Gone
<1>4. CountExact'
  <2> SUFFICES ASSUME NEW k \in Keys
               PROVE  file[k]'.count = Cardinality(Holders(k)') + lost[k]'
    BY DEF CountExact
  <2>1. file[k]' = file[k] /\ file[k].count = Cardinality(Holders(k)) + lost[k] /\ lost[k] \in Nat
    BY DEF IInv, TypeOK, CountExact, Gone
  <2>2. /\ lost[k]' = lost[k] + Cardinality(Holders(k) \cap Of(g))
        /\ Cardinality(Holders(k)') = Cardinality(Holders(k)) - Cardinality(Holders(k) \cap Of(g))
        /\ Cardinality(Holders(k) \cap Of(g)) \in Nat
    BY GoneHolders
  <2>3. Cardinality(Holders(k)) \in Nat
    BY HoldersFinite
  <2> QED
    BY <2>1, <2>2, <2>3
<1> QED
  BY <1>1, <1>2, <1>3, <1>4 DEF IInv

-----------------------------------------------------------------------------
(* A request's steps. *)

LEMMA AllowStep ==
  ASSUME IInv, NEW u \in Calls, NEW k \in Keys, Allow(u, k)
  PROVE  IInv'
<1>1. \A j : Holders(j)' = Holders(j)
  BY SameHolders DEF IInv, TypeOK, Allow, Idle
<1>2. TypeOK'
  BY DEF IInv, TypeOK, Allow, Call
<1>3. Keyed' /\ Ages' /\ Leased' /\ Stamps'
  BY Bounds DEF IInv, TypeOK, Times, Keyed, Ages, Leased, Stamps, Allow
<1>4. CountExact'
  BY <1>1 DEF IInv, CountExact, Allow
<1> QED
  BY <1>2, <1>3, <1>4 DEF IInv

LEMMA ReleaseStep ==
  ASSUME IInv, NEW u \in Calls, Release(u)
  PROVE  IInv'
<1>0. /\ call' \in [Calls -> Call] /\ call'[u].at = "release"
      /\ call'[u].key = call[u].key /\ call'[u].when = clock
      /\ \A v \in Calls \ {u} : call'[v] = call[v]
  BY DEF IInv, TypeOK, Release, Call
<1>1. \A j : Holders(j)' = Holders(j)
  BY <1>0, SameHolders DEF Release
<1>2. TypeOK'
  BY <1>0 DEF IInv, TypeOK, Release
<1>3. Keyed' /\ Stamps'
  BY <1>0 DEF IInv, Keyed, Stamps, Release
<1>4. Ages'
  BY <1>0, Bounds DEF IInv, TypeOK, Times, Ages, Release
<1>5. Leased'
  <2> SUFFICES ASSUME NEW v \in Calls
               PROVE  /\ call'[v].at = "holding" =>
                           file[call'[v].key].expires >= call'[v].when + TTL - MaxLag
                      /\ call'[v].at = "release" =>
                           file[call'[v].key].expires >= call'[v].when + TTL - MaxLag - MaxHold
    BY DEF Leased, Release
  <2>1. CASE v # u
    BY <1>0, <2>1 DEF IInv, Leased
  <2>2. CASE v = u
    <3>1. call[u].at = "holding" /\ clock <= call[u].when + MaxHold
      BY DEF IInv, Ages, Release
    <3>2. file[call[u].key].expires >= call[u].when + TTL - MaxLag
      BY <3>1 DEF IInv, Leased
    <3>3. call[u].key \in Keys
      BY <3>1 DEF IInv, Keyed
    <3>4. clock \in Nat /\ call[u].when \in Nat /\ file[call[u].key].expires \in Nat
      BY <3>3, Bounds DEF IInv, TypeOK, Times, Call, Record
    <3> QED
      BY <1>0, <2>2, <3>1, <3>2, <3>4, Bounds
  <2> QED
    BY <2>1, <2>2
<1>6. CountExact'
  BY <1>1 DEF IInv, CountExact, Release
<1> QED
  BY <1>2, <1>3, <1>4, <1>5, <1>6 DEF IInv

LEMMA BeginStep ==
  ASSUME IInv, NEW u \in Calls, Begin(u)
  PROVE  IInv'
<1>1. UNCHANGED <<clock, file, flock, gateway, asked, call, lost, touched>> /\ writer' = u
  BY DEF Begin
<1>2. CountExact'
  BY <1>1 DEF IInv, CountExact, Holders
<1> QED
  BY <1>1, <1>2 DEF IInv, TypeOK, Keyed, Ages, Leased, Stamps

(* An allow whose record had room for it, or had expired. *)
LEMMA CommitAllowStep ==
  ASSUME IInv, NEW u \in Calls, CommitAllow(u),
         NEW k \in Keys, k = call[u].key, NEW when \in Nat, when = call[u].when
  PROVE  IInv'
<1> DEFINE count == Live(k, when)
           left == IF Fits(count) THEN count + 1 ELSE count
<1>1. /\ call[u].at = "allow" /\ clock \in Nat /\ clock \in Times
      /\ when <= clock /\ clock <= when + MaxLag /\ \A j : u \notin Holders(j)
  BY Bounds DEF IInv, TypeOK, Times, Call, Ages, CommitAllow, Holders
<1>2. /\ call' = [call EXCEPT ![u] =
           IF Fits(count) THEN [at |-> "holding", key |-> k, when |-> clock] ELSE Idle]
      /\ file' = [file EXCEPT ![k] = [count |-> left, expires |-> when + TTL]]
      /\ lost' = [lost EXCEPT ![k] = StillLost(k, when)]
      /\ touched' = [touched EXCEPT ![k] = clock]
      /\ writer' = Nobody /\ UNCHANGED <<clock, flock, gateway, asked>>
  BY DEF CommitAllow, Stamped
<1>3. count \in 0 .. Capacity /\ StillLost(k, when) \in Nat /\ left \in 0 .. Capacity
  BY <1>1, FoundTypes, Bounds DEF Fits
<1> HIDE DEF count, left
<1>4. TypeOK'
  <2>1. call' \in [Calls -> Call]
    <3>1. 0 \in Times
      BY Bounds DEF Times
    <3> QED
      BY <1>1, <1>2, <3>1 DEF IInv, TypeOK, Call, Idle
  <2>2. [count |-> left, expires |-> when + TTL] \in Record
    BY <1>1, <1>3, Bounds DEF Record
  <2>3. file' \in [Keys -> Record] /\ lost' \in [Keys -> Nat] /\ touched' \in [Keys -> Times]
    BY <1>1, <1>2, <1>3, <2>2 DEF IInv, TypeOK
  <2> QED
    BY <1>2, <2>1, <2>3 DEF IInv, TypeOK
<1>5. \A v \in Calls \ {u} : call'[v] = call[v]
  BY <1>2 DEF IInv, TypeOK
<1>6. \/ Fits(count) /\ call'[u] = [at |-> "holding", key |-> k, when |-> clock]
      \/ ~Fits(count) /\ call'[u] = Idle
  BY <1>2 DEF IInv, TypeOK
<1>7. Keyed'
  BY <1>1, <1>5, <1>6 DEF IInv, Keyed, Idle
<1>8. Ages'
  BY <1>1, <1>2, <1>5, <1>6, Bounds DEF IInv, Ages, Idle
<1>9. /\ file'[k].expires = when + TTL /\ touched'[k] = clock
      /\ \A j \in Keys \ {k} : file'[j] = file[j] /\ touched'[j] = touched[j]
  BY <1>1, <1>2 DEF IInv, TypeOK
<1>10. Leased'
  <2> SUFFICES ASSUME NEW v \in Calls
               PROVE  /\ call'[v].at = "holding" =>
                           file'[call'[v].key].expires >= call'[v].when + TTL - MaxLag
                      /\ call'[v].at = "release" =>
                           file'[call'[v].key].expires >= call'[v].when + TTL - MaxLag - MaxHold
    BY DEF Leased
  <2>1. CASE call'[v].at \in {"holding", "release"} /\ call'[v].key = k
    <3>1. call'[v].when \in Nat /\ call'[v].when <= clock
      BY <1>2, <1>4, <1>8 DEF TypeOK, Call, Times, Ages
    <3> QED
      BY <1>1, <1>9, <2>1, <3>1, Bounds
  <2>2. CASE call'[v].at \in {"holding", "release"} /\ call'[v].key # k
    <3>1. v # u
      BY <1>6, <2>2 DEF Idle
    <3>2. call'[v] = call[v] /\ call[v].key \in Keys \ {k}
      BY <1>5, <2>2, <3>1 DEF IInv, Keyed
    <3> QED
      BY <1>9, <3>2 DEF IInv, Leased
  <2> QED
    BY <2>1, <2>2
<1>11. Stamps'
  BY <1>1, <1>9, Bounds DEF IInv, Stamps
<1>12. CountExact'
  <2> SUFFICES ASSUME NEW j \in Keys
               PROVE  file'[j].count = Cardinality(Holders(j)') + lost'[j]
    BY DEF CountExact
  <2>1. CASE j # k
    <3>1. Holders(j)' = Holders(j)
      BY <1>1, <1>5, <1>6, <2>1 DEF Holders, Idle
    <3>2. file'[j] = file[j] /\ lost'[j] = lost[j]
      BY <1>2, <2>1 DEF IInv, TypeOK
    <3> QED
      BY <3>1, <3>2 DEF IInv, CountExact
  <2>2. CASE j = k
    <3>1. file'[k].count = left /\ lost'[k] = StillLost(k, when)
      BY <1>1, <1>2 DEF IInv, TypeOK
    <3>2. count = Cardinality(Holders(k)) + StillLost(k, when)
      <4>1. file[k].count = Cardinality(Holders(k)) + lost[k]
        BY <1>1 DEF IInv, CountExact
      <4>2. \/ Live(k, when) = file[k].count /\ StillLost(k, when) = lost[k]
            \/ Live(k, when) = 0 /\ StillLost(k, when) = 0 /\ Holders(k) = {}
        BY <1>1, Found
      <4>3. Holders(k) = {} => Cardinality(Holders(k)) = 0
        BY FS_EmptySet
      <4> QED
        BY <4>1, <4>2, <4>3 DEF count
    <3>3. CASE Fits(count)
      <4>1. Holders(k)' = Holders(k) \cup {u}
        BY <1>5, <1>6, <3>3 DEF Holders
      <4>2. Cardinality(Holders(k)') = Cardinality(Holders(k)) + 1
        BY <1>1, <4>1, HoldersFinite, FS_AddElement
      <4>3. Cardinality(Holders(k)) \in Nat
        BY HoldersFinite
      <4> QED
        BY <1>3, <2>2, <3>1, <3>2, <3>3, <4>2, <4>3 DEF left
    <3>4. CASE ~Fits(count)
      <4>1. Holders(k)' = Holders(k)
        BY <1>1, <1>5, <1>6, <3>4 DEF Holders, Idle
      <4> QED
        BY <2>2, <3>1, <3>2, <3>4, <4>1 DEF left
    <3> QED
      BY <3>3, <3>4
  <2> QED
    BY <2>1, <2>2
<1> QED
  BY <1>4, <1>7, <1>8, <1>10, <1>11, <1>12 DEF IInv

(* A release finds the record alive and counting its own unit. *)
LEMMA CommitReleaseStep ==
  ASSUME IInv, NEW u \in Calls, CommitRelease(u),
         NEW k \in Keys, k = call[u].key, NEW when \in Nat, when = call[u].when
  PROVE  IInv'
<1> DEFINE left == file[k].count - 1
<1>1. /\ call[u].at = "release" /\ clock \in Nat /\ clock \in Times
      /\ when <= clock /\ clock <= when + MaxLag
  BY Bounds DEF IInv, TypeOK, Times, Call, Ages, CommitRelease
<1>2. u \in Holders(k) /\ \A j : j # k => u \notin Holders(j)
  BY <1>1 DEF Holders
<1>3. Live(k, when) = file[k].count /\ file[k].count >= 1
  BY <1>1, <1>2, HeldIsLive
<1>4. file[k].count \in 0 .. Capacity /\ lost[k] \in Nat
  BY DEF IInv, TypeOK, Record
<1>5. left \in 0 .. Capacity /\ HandedBack(Live(k, when)) = left /\ StillLost(k, when) = lost[k]
  BY <1>3, <1>4, Bounds DEF HandedBack, StillLost
<1>6. /\ call' = [call EXCEPT ![u] = Idle]
      /\ file' = [file EXCEPT ![k] =
           IF left > 0 THEN [count |-> left, expires |-> when + TTL] ELSE Empty]
      /\ lost' = [lost EXCEPT ![k] = lost[k]]
      /\ touched' = [touched EXCEPT ![k] = clock]
      /\ writer' = Nobody /\ UNCHANGED <<clock, flock, gateway, asked>>
  BY <1>5 DEF CommitRelease, Stamped
<1>7. /\ call'[u] = Idle
      /\ \A v \in Calls \ {u} : call'[v] = call[v]
      /\ lost' = lost /\ touched'[k] = clock
      /\ left > 0 => file'[k] = [count |-> left, expires |-> when + TTL]
      /\ left = 0 => file'[k] = Empty
      /\ \A j \in Keys \ {k} : file'[j] = file[j] /\ touched'[j] = touched[j]
  BY <1>5, <1>6 DEF IInv, TypeOK
<1>8. /\ Holders(k)' = Holders(k) \ {u}
      /\ \A j : j # k => Holders(j)' = Holders(j)
  BY <1>2, <1>7 DEF Holders, Idle
<1>9. Cardinality(Holders(k)) = file[k].count - lost[k]
  BY <1>4, HoldersFinite DEF IInv, CountExact
<1>10. Cardinality(Holders(k)') = left - lost[k] /\ IsFiniteSet(Holders(k)')
  BY <1>2, <1>4, <1>8, <1>9, HoldersFinite, FS_RemoveElement
<1>11. left = 0 => Holders(k)' = {}
  <2>1. Cardinality(Holders(k)') \in Nat
    BY <1>10, FS_CardinalityType
  <2>2. left = 0 => Cardinality(Holders(k)') = 0
    BY <1>4, <1>10, <2>1
  <2> QED
    BY <1>10, <2>2, FS_EmptySet
<1> HIDE DEF left
<1>12. TypeOK'
  <2>1. call' \in [Calls -> Call]
    <3>1. 0 \in Times
      BY Bounds DEF Times
    <3> QED
      BY <1>6, <3>1 DEF IInv, TypeOK, Call, Idle
  <2>2. [count |-> left, expires |-> when + TTL] \in Record /\ Empty \in Record
    BY <1>5, Bounds DEF Record, Empty
  <2> QED
    BY <1>1, <1>6, <1>7, <2>1, <2>2 DEF IInv, TypeOK
<1>13. Keyed' /\ Ages'
  BY <1>1, <1>6, <1>7 DEF IInv, Keyed, Ages, Idle
<1>14. Leased'
  <2> SUFFICES ASSUME NEW v \in Calls, call'[v].at \in {"holding", "release"}
               PROVE  /\ call'[v].at = "holding" =>
                           file'[call'[v].key].expires >= call'[v].when + TTL - MaxLag
                      /\ call'[v].at = "release" =>
                           file'[call'[v].key].expires >= call'[v].when + TTL - MaxLag - MaxHold
    BY DEF Leased
  <2>1. v # u /\ call'[v] = call[v]
    BY <1>7 DEF Idle
  <2>2. CASE call[v].key = k
    <3>1. left > 0
      BY <1>5, <1>11, <2>1, <2>2 DEF Holders
    <3>2. call[v].when \in Nat /\ call[v].when <= clock
      BY Bounds DEF IInv, TypeOK, Call, Times, Ages
    <3> QED
      BY <1>1, <1>7, <2>1, <2>2, <3>1, <3>2, Bounds
  <2>3. CASE call[v].key # k
    BY <1>7, <2>1, <2>3 DEF IInv, Keyed, Leased
  <2> QED
    BY <2>2, <2>3
<1>15. Stamps'
  <2>1. file'[k].count > 0 => file'[k].expires >= touched'[k] + TTL - MaxLag
    BY <1>1, <1>5, <1>7, Bounds DEF Empty
  <2> QED
    BY <1>7, <2>1 DEF IInv, Stamps
<1>16. CountExact'
  <2>1. file'[k].count = left
    BY <1>5, <1>7 DEF Empty
  <2>2. left = Cardinality(Holders(k)') + lost'[k]
    BY <1>4, <1>5, <1>7, <1>10
  <2>3. \A j \in Keys \ {k} : file'[j].count = Cardinality(Holders(j)') + lost'[j]
    BY <1>7, <1>8 DEF IInv, CountExact
  <2> QED
    BY <2>1, <2>2, <2>3 DEF CountExact
<1> QED
  BY <1>12, <1>13, <1>14, <1>15, <1>16 DEF IInv

(* A request that is dropped leaves its unit behind. *)
LEMMA StoreFailsStep ==
  ASSUME IInv, NEW u \in Calls, StoreFails(u),
         NEW k \in Keys, k = call[u].key
  PROVE  IInv'
<1>1. /\ call'[u] = Idle
      /\ \A v \in Calls \ {u} : call'[v] = call[v]
      /\ UNCHANGED <<clock, file, flock, gateway, asked, writer, touched>>
  BY DEF IInv, TypeOK, StoreFails
<1>2. /\ call[u].at = "allow" => lost' = lost
      /\ call[u].at = "release" => lost' = [lost EXCEPT ![k] = lost[k] + 1]
  BY DEF StoreFails
<1>3. call[u].at \in {"allow", "release"}
  BY DEF StoreFails
<1>4. TypeOK'
  <2>1. call' \in [Calls -> Call]
    BY Bounds DEF IInv, TypeOK, StoreFails, Idle, Call, Times
  <2>2. lost' \in [Keys -> Nat]
    BY <1>2, <1>3 DEF IInv, TypeOK
  <2> QED
    BY <1>1, <2>1, <2>2 DEF IInv, TypeOK, Times
<1>5. Keyed' /\ Stamps'
  BY <1>1 DEF IInv, Keyed, Stamps, Idle
<1>6. Ages' /\ Leased'
  <2>1. clock >= 0
    BY Bounds DEF IInv, TypeOK, Times
  <2> QED
    BY <1>1, <2>1 DEF IInv, Ages, Leased, Idle
<1>7. CountExact'
  <2>1. CASE call[u].at = "allow"
    <3>1. \A j : Holders(j)' = Holders(j)
      BY <1>1, <2>1 DEF Holders, Idle
    <3> QED
      BY <1>1, <1>2, <2>1, <3>1 DEF IInv, CountExact
  <2>2. CASE call[u].at = "release"
    <3>1. /\ u \in Holders(k) /\ Holders(k)' = Holders(k) \ {u}
          /\ \A j : j # k => Holders(j)' = Holders(j)
      BY <1>1, <2>2 DEF Holders, Idle
    <3>2. Cardinality(Holders(k)') = Cardinality(Holders(k)) - 1
      <4>1. IsFiniteSet(Holders(k))
        BY HoldersFinite
      <4> QED
        BY <3>1, <4>1, FS_RemoveElement
    <3>3. /\ lost'[k] = lost[k] + 1 /\ \A j \in Keys \ {k} : lost'[j] = lost[j]
          /\ lost[k] \in Nat
      BY <1>2, <2>2 DEF IInv, TypeOK
    <3>4. Cardinality(Holders(k)) \in Nat
      BY HoldersFinite
    <3>5. file'[k].count = Cardinality(Holders(k)') + lost'[k]
      BY <1>1, <3>2, <3>3, <3>4 DEF IInv, CountExact
    <3>6. \A j \in Keys \ {k} : file'[j].count = Cardinality(Holders(j)') + lost'[j]
      BY <1>1, <3>1, <3>3 DEF IInv, CountExact
    <3> QED
      BY <3>5, <3>6 DEF CountExact
  <2> QED
    BY <1>3, <2>1, <2>2
<1> QED
  BY <1>4, <1>5, <1>6, <1>7 DEF IInv

(* The sweep drops no record that somebody holds a slot of. *)
LEMMA SweepStep ==
  ASSUME IInv, NEW when \in Times, when <= clock, SweepExpired(when)
  PROVE  IInv'
<1>1. /\ UNCHANGED <<clock, flock, gateway, asked, writer, call, touched>>
      /\ \A k \in Keys : /\ file'[k] = IF Live(k, when) > 0 THEN file[k] ELSE Empty
                         /\ lost'[k] = StillLost(k, when)
  BY DEF SweepExpired
<1>2. when \in Int
  BY Bounds DEF Times
<1>3. \A k : Holders(k)' = Holders(k)
  BY <1>1 DEF Holders
<1>4. \A k \in Keys : Holders(k) # {} => file'[k] = file[k]
  <2> SUFFICES ASSUME NEW k \in Keys, Holders(k) # {} PROVE file'[k] = file[k]
    OBVIOUS
  <2>1. Live(k, when) >= 1 /\ Live(k, when) \in Nat
    BY <1>2, HeldIsLive, FoundTypes, Bounds
  <2> QED
    BY <1>1, <2>1
<1>5. TypeOK'
  <2>1. lost' \in [Keys -> Nat]
    BY <1>2, FoundTypes DEF SweepExpired
  <2>2. file' \in [Keys -> Record]
    BY Bounds DEF IInv, TypeOK, SweepExpired, Record, Empty
  <2> QED
    BY <1>1, <2>1, <2>2 DEF IInv, TypeOK, Times
<1>6. Keyed' /\ Ages'
  BY <1>1 DEF IInv, Keyed, Ages
<1>7. Leased'
  <2>1. \A u \in Calls : call[u].at \in {"holding", "release"} =>
          call[u].key \in Keys /\ file'[call[u].key] = file[call[u].key]
    BY <1>4 DEF IInv, Keyed, Holders
  <2> QED
    BY <1>1, <2>1 DEF IInv, Leased
<1>8. Stamps'
  BY <1>1 DEF IInv, Stamps, Empty
<1>9. CountExact'
  <2> SUFFICES ASSUME NEW k \in Keys
               PROVE  file'[k].count = Cardinality(Holders(k)) + lost'[k]
    BY <1>3 DEF CountExact
  <2>1. file[k].count = Cardinality(Holders(k)) + lost[k] /\ file[k].count \in Nat
    BY Bounds DEF IInv, TypeOK, Record, CountExact
  <2>2. \/ Live(k, when) = file[k].count /\ StillLost(k, when) = lost[k]
        \/ Live(k, when) = 0 /\ StillLost(k, when) = 0 /\ Holders(k) = {}
    BY <1>2, Found
  <2>3. Holders(k) = {} => Cardinality(Holders(k)) = 0
    BY FS_EmptySet
  <2> QED
    BY <1>1, <2>1, <2>2, <2>3 DEF Empty
<1> QED
  BY <1>5, <1>6, <1>7, <1>8, <1>9 DEF IInv

LEMMA TickStep == ASSUME IInv, Tick PROVE IInv'
<1>1. UNCHANGED <<file, flock, gateway, asked, writer, call, lost, touched>> /\ clock' = clock + 1
  BY DEF Tick
<1>2. TypeOK'
  BY <1>1, Bounds DEF IInv, TypeOK, Times, Tick
<1>3. Ages'
  BY <1>1, Bounds DEF IInv, TypeOK, Times, Call, Ages, Tick
<1>4. CountExact'
  BY <1>1 DEF IInv, CountExact, Holders
<1> QED
  BY <1>1, <1>2, <1>3, <1>4 DEF IInv, Keyed, Leased, Stamps

-----------------------------------------------------------------------------
LEMMA Place ==
  ASSUME IInv, NEW u \in Calls, call[u].at # "idle"
  PROVE  call[u].key \in Keys /\ call[u].when \in Nat
BY Bounds DEF IInv, Keyed, TypeOK, Call, Times

LEMMA Invariance == IInv /\ [Next]_vars => IInv'
<1> SUFFICES ASSUME IInv, [Next]_vars PROVE IInv'
  OBVIOUS
<1>1. CASE \E g \in Gateways : Start(g) \/ Open(g) \/ OpenFails(g) \/ Close(g) \/ Gone(g)
  BY <1>1, ProcessSteps, GoneStep
<1>2. CASE \E u \in Calls, k \in Keys : Allow(u, k)
  BY <1>2, AllowStep
<1>3. CASE \E u \in Calls : Release(u)
  BY <1>3, ReleaseStep
<1>4. CASE \E u \in Calls : Begin(u)
  BY <1>4, BeginStep
<1>5. CASE \E u \in Calls : CommitAllow(u)
  <2>1. PICK u \in Calls : CommitAllow(u)
    BY <1>5
  <2>2. call[u].key \in Keys /\ call[u].when \in Nat
    BY <2>1, Place DEF CommitAllow
  <2> QED
    BY <2>1, <2>2, CommitAllowStep
<1>6. CASE \E u \in Calls : CommitRelease(u)
  <2>1. PICK u \in Calls : CommitRelease(u)
    BY <1>6
  <2>2. call[u].key \in Keys /\ call[u].when \in Nat
    BY <2>1, Place DEF CommitRelease
  <2> QED
    BY <2>1, <2>2, CommitReleaseStep
<1>7. CASE \E u \in Calls : StoreFails(u)
  <2>1. PICK u \in Calls : StoreFails(u)
    BY <1>7
  <2>2. call[u].key \in Keys
    BY <2>1, Place DEF StoreFails
  <2> QED
    BY <2>1, <2>2, StoreFailsStep
<1>8. CASE \E when \in Times : when <= clock /\ clock <= when + MaxLag /\ SweepExpired(when)
  BY <1>8, SweepStep
<1>9. CASE Tick
  BY <1>9, TickStep
<1>10. CASE UNCHANGED vars
  <2>1. CountExact'
    BY <1>10 DEF vars, IInv, CountExact, Holders
  <2> QED
    BY <1>10, <2>1 DEF vars, IInv, TypeOK, Keyed, Ages, Leased, Stamps
<1> QED
  BY <1>1, <1>2, <1>3, <1>4, <1>5, <1>6, <1>7, <1>8, <1>9, <1>10 DEF Next

LEMMA Inductive == Spec => []IInv
BY InitIInv, Invariance, PTL DEF Spec

(* Every variable keeps to its type. *)
THEOREM TypeCorrect == Spec => []TypeOK
<1>1. IInv => TypeOK
  BY DEF IInv
<1> QED
  BY <1>1, Inductive, PTL

(* The record of a key counts the slots that are out, whoever crashes      *)
(* between which steps of a transaction and however old the instant it     *)
(* judges the record by (bbolt.go Update).                                 *)
THEOREM SlotsCounted == Spec => []CountExact
<1>1. IInv => CountExact
  BY DEF IInv
<1> QED
  BY <1>1, Inductive, PTL

-----------------------------------------------------------------------------
(* The gateways implement SlotContract. *)

Out == [k \in Keys |-> Holders(k)]

LEMMA OutIs == \A k \in Keys : Out[k] = Holders(k)
  BY DEF Out

(* The contract counts as the gateways do. *)
LEMMA SameCount == \A S : Contract!Cardinality(S) = Cardinality(S)
  BY DEF Contract!Cardinality, Cardinality

LEMMA ContractInit == Init => Contract!Init
<1> SUFFICES ASSUME Init PROVE Contract!Init
  OBVIOUS
<1>1. \A k : Holders(k) = {}
  BY DEF Init, Holders, Idle
<1> QED
  BY <1>1 DEF Init, Contract!Init

(* Who holds what after an allow, and what it found. *)
LEMMA AllowEffect ==
  ASSUME IInv, NEW u \in Calls, CommitAllow(u),
         NEW k \in Keys, k = call[u].key, NEW when \in Nat, when = call[u].when
  PROVE  /\ \A j : u \notin Holders(j)
         /\ \A j \in Keys \ {k} : Holders(j)' = Holders(j)
         /\ Fits(Live(k, when)) => Holders(k)' = Holders(k) \cup {u}
         /\ ~Fits(Live(k, when)) => Holders(k)' = Holders(k)
         /\ lost' = [lost EXCEPT ![k] = StillLost(k, when)]
         /\ touched' = [touched EXCEPT ![k] = clock] /\ clock' = clock
         /\ when <= clock
<1>1. call[u].at = "allow" /\ when <= clock
  BY DEF IInv, Ages, CommitAllow
<1>2. /\ \A v \in Calls \ {u} : call'[v] = call[v]
      /\ Fits(Live(k, when)) => call'[u] = [at |-> "holding", key |-> k, when |-> clock]
      /\ ~Fits(Live(k, when)) => call'[u] = Idle
  BY DEF IInv, TypeOK, CommitAllow
<1>3. \A j \in Keys \ {k} : Holders(j)' = Holders(j)
  BY <1>1, <1>2 DEF Holders, Idle
<1>4. Fits(Live(k, when)) => Holders(k)' = Holders(k) \cup {u}
  BY <1>2 DEF Holders
<1>5. ~Fits(Live(k, when)) => Holders(k)' = Holders(k)
  BY <1>1, <1>2 DEF Holders, Idle
<1>6. \A j : u \notin Holders(j)
  BY <1>1 DEF Holders
<1> QED
  BY <1>1, <1>3, <1>4, <1>5, <1>6 DEF CommitAllow

LEMMA AllowImplements ==
  ASSUME IInv, NEW u \in Calls, CommitAllow(u),
         NEW k \in Keys, k = call[u].key, NEW when \in Nat, when = call[u].when
  PROVE  Contract!Admit(u, k) \/ Contract!Deny(k)
<1>1. /\ lost \in [Keys -> Nat] /\ Live(k, when) \in 0 .. Capacity
      /\ Cardinality(Holders(k)) \in Nat /\ when \in Int
  BY FoundTypes, HoldersFinite DEF IInv, TypeOK
<1>2. Cardinality(Holders(k)) + lost[k] = file[k].count
  BY DEF IInv, CountExact
<1>3. \/ Live(k, when) = file[k].count /\ StillLost(k, when) = lost[k]
      \/ /\ Live(k, when) = 0 /\ StillLost(k, when) = 0
         /\ Holders(k) = {} /\ clock >= touched[k] + TTL - MaxLag
  BY <1>1, AllowEffect, Found
<1>4. CASE Fits(Live(k, when))
  <2>1. [j \in Keys |-> Holders(j)]' = [Out EXCEPT ![k] = @ \cup {u}]
    <3>1. /\ Holders(k)' = Holders(k) \cup {u}
          /\ \A j \in Keys \ {k} : Holders(j)' = Holders(j)
      BY <1>4, AllowEffect
    <3> QED
      BY <3>1 DEF Out
  <2>2. \/ Cardinality(Out[k]) + lost[k] < Capacity /\ lost' = lost
        \/ /\ Out[k] = {} /\ clock >= touched[k] + (TTL - MaxLag)
           /\ lost' = [lost EXCEPT ![k] = 0]
    <3>1. CASE Live(k, when) = file[k].count /\ StillLost(k, when) = lost[k]
      <4>1. Cardinality(Out[k]) + lost[k] < Capacity
        BY <1>1, <1>2, <1>4, <3>1, OutIs, Bounds DEF Fits
      <4>2. lost' = lost
        BY <1>1, <3>1, AllowEffect
      <4> QED
        BY <4>1, <4>2
    <3>2. CASE /\ Live(k, when) = 0 /\ StillLost(k, when) = 0
               /\ Holders(k) = {} /\ clock >= touched[k] + TTL - MaxLag
      <4>1. clock \in Nat /\ touched[k] \in Nat
        BY Bounds DEF IInv, TypeOK, Times
      <4>2. clock >= touched[k] + (TTL - MaxLag)
        BY <3>2, <4>1, Bounds
      <4> QED
        BY <3>2, <4>2, OutIs, AllowEffect
    <3> QED
      BY <1>3, <3>1, <3>2
  <2>3. \A j \in Keys : u \notin Out[j]
    BY OutIs, AllowEffect
  <2>4. touched' = [touched EXCEPT ![k] = clock] /\ clock' = clock
    BY AllowEffect
  <2> QED
    BY <2>1, <2>2, <2>3, <2>4, SameCount
    DEF Contract!Admit, Contract!Taken, Contract!Forgotten, Contract!TouchedNow, Out
<1>5. CASE ~Fits(Live(k, when))
  <2>1. Live(k, when) = Capacity
    BY <1>1, <1>5, Bounds DEF Fits
  <2>2. file[k].count = Capacity /\ StillLost(k, when) = lost[k]
    BY <1>3, <2>1, Bounds
  <2>3. lost' = lost
    BY <1>1, <2>2, AllowEffect
  <2>4. [j \in Keys |-> Holders(j)]' = [j \in Keys |-> Holders(j)]
    BY <1>5, AllowEffect
  <2>5. Cardinality(Out[k]) + lost[k] = Capacity
    BY <1>2, <2>2, OutIs
  <2>6. touched' = [touched EXCEPT ![k] = clock] /\ clock' = clock
    BY AllowEffect
  <2> QED
    BY <2>3, <2>4, <2>5, <2>6, SameCount
    DEF Contract!Deny, Contract!Taken, Contract!TouchedNow, Out
<1> QED
  BY <1>4, <1>5

LEMMA ReleaseImplements ==
  ASSUME IInv, NEW u \in Calls, CommitRelease(u),
         NEW k \in Keys, k = call[u].key, NEW when \in Nat, when = call[u].when
  PROVE  Contract!Return(u, k)
<1>1. call[u].at = "release" /\ when <= clock
  BY DEF IInv, Ages, CommitRelease
<1>2. u \in Holders(k)
  BY <1>1 DEF Holders
<1>3. Live(k, when) # 0
  BY <1>1, <1>2, HeldIsLive DEF IInv, TypeOK, Record
<1>4. lost' = lost
  BY <1>3 DEF CommitRelease, StillLost, IInv, TypeOK
<1>5. Holders(k)' = Holders(k) \ {u} /\ \A j : j # k => Holders(j)' = Holders(j)
  BY <1>1 DEF IInv, TypeOK, CommitRelease, Holders, Idle
<1>6. [j \in Keys |-> Holders(j)]' = [Out EXCEPT ![k] = @ \ {u}]
  BY <1>5 DEF Out
<1> QED
  BY <1>2, <1>4, <1>6 DEF CommitRelease, Contract!Return, Contract!TouchedNow, Out

LEMMA FailureImplements ==
  ASSUME IInv, NEW u \in Calls, StoreFails(u),
         NEW k \in Keys, k = call[u].key
  PROVE  Contract!Lose({u}) \/ UNCHANGED Contract!vars
<1>1. call'[u] = Idle /\ \A v \in Calls \ {u} : call'[v] = call[v]
  BY DEF IInv, TypeOK, StoreFails
<1>2. CASE call[u].at = "allow"
  <2>1. \A j : Holders(j)' = Holders(j)
    BY <1>1, <1>2 DEF Holders, Idle
  <2> QED
    BY <1>2, <2>1 DEF StoreFails, Contract!vars
<1>3. CASE call[u].at = "release"
  <2>1. /\ \A j : Holders(j)' = Holders(j) \ {u}
        /\ Holders(k) \cap {u} = {u}
        /\ \A j : j # k => Holders(j) \cap {u} = {}
    BY <1>1, <1>3 DEF Holders, Idle
  <2>2. Cardinality({u}) = 1 /\ Cardinality({}) = 0
    BY FS_Singleton, FS_EmptySet
  <2>3. lost \in [Keys -> Nat] /\ lost' = [lost EXCEPT ![k] = lost[k] + 1]
    BY <1>3 DEF IInv, TypeOK, StoreFails
  <2>4. lost' = [j \in Keys |-> lost[j] + Cardinality(Out[j] \cap {u})]
    <3>1. Cardinality(Out[k] \cap {u}) = 1
      BY <2>1, <2>2, OutIs
    <3>2. ASSUME NEW j \in Keys \ {k} PROVE lost[j] + Cardinality(Out[j] \cap {u}) = lost[j]
      <4>1. Out[j] \cap {u} = {}
        BY <2>1, OutIs
      <4> QED
        BY <2>2, <2>3, <4>1
    <3> QED
      BY <2>3, <3>1, <3>2
  <2>5. [j \in Keys |-> Holders(j)]' = [j \in Keys |-> Out[j] \ {u}]
    BY <2>1, OutIs
  <2>6. clock' = clock /\ touched' = touched
    BY DEF StoreFails
  <2> QED
    BY <2>4, <2>5, <2>6, SameCount DEF Contract!Lose, Out
<1> QED
  BY <1>2, <1>3 DEF StoreFails

LEMMA DeathImplements ==
  ASSUME IInv, NEW g \in Gateways, Gone(g)
  PROVE  Contract!Lose(Of(g)) \/ UNCHANGED Contract!vars
<1>1. \A j \in Keys : Holders(j)' = Holders(j) \ Of(g)
  BY GoneHolders
<1>2. CASE Of(g) # {}
  <2>1. lost' = [j \in Keys |-> lost[j] + Cardinality(Out[j] \cap Of(g))]
    <3>1. \A j \in Keys : Cardinality(Out[j] \cap Of(g)) = Cardinality(Holders(j) \cap Of(g))
      BY OutIs
    <3> QED
      BY <3>1 DEF Gone
  <2>2. [j \in Keys |-> Holders(j)]' = [j \in Keys |-> Out[j] \ Of(g)]
    BY <1>1, OutIs
  <2>3. clock' = clock /\ touched' = touched
    BY DEF Gone
  <2> QED
    BY <1>2, <2>1, <2>2, <2>3, SameCount DEF Contract!Lose, Out
<1>3. CASE Of(g) = {}
  <2>1. ASSUME NEW j \in Keys
        PROVE  Holders(j)' = Holders(j) /\ Cardinality(Holders(j) \cap Of(g)) = 0
    <3>1. Holders(j) \cap Of(g) = {}
      BY <1>3
    <3> QED
      BY <1>1, <1>3, <3>1, FS_EmptySet
  <2>2. lost' = lost
    <3>1. \A j \in Keys : lost[j] + Cardinality(Holders(j) \cap Of(g)) = lost[j]
      BY <2>1 DEF IInv, TypeOK
    <3> QED
      BY <3>1 DEF Gone, IInv, TypeOK
  <2> QED
    BY <2>1, <2>2 DEF Gone, Contract!vars
<1> QED
  BY <1>2, <1>3

LEMMA SweepImplements ==
  ASSUME IInv, NEW when \in Times, when <= clock, SweepExpired(when)
  PROVE  Contract!Sweep
<1> DEFINE dead == {k \in Keys : Holders(k) = {} /\ clock >= touched[k] + (TTL - MaxLag)
                               /\ StillLost(k, when) = 0}
<1>1. when \in Int
  BY Bounds DEF Times
<1>2. dead \in SUBSET {k \in Keys : Contract!Forgotten(k)}
  BY DEF Contract!Forgotten
<1>3. lost' = [k \in Keys |-> IF k \in dead THEN 0 ELSE lost[k]]
  <2>1. \A k \in Keys : StillLost(k, when) = IF k \in dead THEN 0 ELSE lost[k]
    <3> SUFFICES ASSUME NEW k \in Keys, k \notin dead PROVE StillLost(k, when) = lost[k]
      OBVIOUS
    <3>1. clock \in Nat /\ touched[k] \in Nat
      BY Bounds DEF IInv, TypeOK, Times
    <3>2. \/ StillLost(k, when) = lost[k]
          \/ /\ StillLost(k, when) = 0 /\ Holders(k) = {}
             /\ clock >= touched[k] + TTL - MaxLag
      BY <1>1, Found
    <3> QED
      BY <3>1, <3>2, Bounds
  <2> QED
    BY <2>1 DEF SweepExpired
<1>4. [k \in Keys |-> Holders(k)]' = [k \in Keys |-> Holders(k)]
  BY DEF SweepExpired, Holders
<1> HIDE DEF dead
<1> QED
  BY <1>2, <1>3, <1>4 DEF SweepExpired, Contract!Sweep

LEMMA StepImplements == IInv /\ [Next]_vars => [Contract!Next]_Contract!vars
<1> SUFFICES ASSUME IInv, [Next]_vars PROVE [Contract!Next]_Contract!vars
  OBVIOUS
<1>1. CASE \E g \in Gateways : Start(g) \/ Open(g) \/ OpenFails(g) \/ Close(g)
  <2>1. UNCHANGED <<clock, call, lost, touched>>
    BY <1>1 DEF Start, Open, OpenFails, Close
  <2> QED
    BY <2>1 DEF Contract!vars, Holders
<1>2. CASE \E g \in Gateways : Gone(g)
  <2>1. \A g \in Gateways : Of(g) \in SUBSET Calls
    BY DEF Of
  <2> QED
    BY <1>2, <2>1, DeathImplements DEF Contract!Next
<1>3. CASE \E u \in Calls, k \in Keys : Allow(u, k)
  <2>1. \A k : Holders(k)' = Holders(k)
    BY <1>3, SameHolders DEF IInv, TypeOK, Allow, Idle
  <2> QED
    BY <1>3, <2>1 DEF Allow, Contract!vars
<1>4. CASE \E u \in Calls : Release(u)
  <2>1. \A k : Holders(k)' = Holders(k)
    BY <1>4, SameHolders DEF IInv, TypeOK, Call, Release
  <2> QED
    BY <1>4, <2>1 DEF Release, Contract!vars
<1>5. CASE \E u \in Calls : Begin(u)
  BY <1>5 DEF Begin, Holders, Contract!vars
<1>6. CASE \E u \in Calls : CommitAllow(u)
  <2>1. PICK u \in Calls : CommitAllow(u)
    BY <1>6
  <2>2. call[u].key \in Keys /\ call[u].when \in Nat
    BY <2>1, Place DEF CommitAllow
  <2> QED
    BY <2>1, <2>2, AllowImplements DEF Contract!Next
<1>7. CASE \E u \in Calls : CommitRelease(u)
  <2>1. PICK u \in Calls : CommitRelease(u)
    BY <1>7
  <2>2. call[u].key \in Keys /\ call[u].when \in Nat
    BY <2>1, Place DEF CommitRelease
  <2> QED
    BY <2>1, <2>2, ReleaseImplements DEF Contract!Next
<1>8. CASE \E u \in Calls : StoreFails(u)
  <2>1. PICK u \in Calls : StoreFails(u)
    BY <1>8
  <2>2. call[u].key \in Keys /\ {u} \in SUBSET Calls
    BY <2>1, Place DEF StoreFails
  <2> QED
    BY <2>1, <2>2, FailureImplements DEF Contract!Next
<1>9. CASE \E when \in Times : when <= clock /\ clock <= when + MaxLag /\ SweepExpired(when)
  BY <1>9, SweepImplements DEF Contract!Next
<1>10. CASE Tick
  <2>1. clock' > clock
    BY <1>10, Bounds DEF IInv, TypeOK, Times, Tick
  <2>2. [k \in Keys |-> Holders(k)]' = [k \in Keys |-> Holders(k)]
    BY <1>10 DEF Tick, Holders
  <2> QED
    BY <1>10, <2>1, <2>2 DEF Tick, Contract!Tick, Contract!Next
<1>11. CASE UNCHANGED vars
  BY <1>11 DEF vars, Contract!vars, Holders
<1> QED
  BY <1>1, <1>2, <1>3, <1>4, <1>5, <1>6, <1>7, <1>8, <1>9, <1>10, <1>11 DEF Next

(* Whoever crashes, restarts or closes the store, the gateways together    *)
(* keep to the limiter's contract.                                         *)
THEOREM Implements == Spec => KeepsContract
BY ContractInit, StepImplements, Inductive, PTL DEF Spec, KeepsContract, Contract!Spec
=============================================================================
