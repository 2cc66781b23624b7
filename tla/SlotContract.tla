--------------------------- MODULE SlotContract ---------------------------
(***************************************************************************)
(* What a concurrency limiter over a shared store promises, whoever        *)
(* crashes: never more than Capacity of a key's slots are out, a slot that *)
(* nobody will hand back stays taken, and slots are forgotten only when    *)
(* the key has not been touched for nearly its lifetime.                   *)
(***************************************************************************)
EXTENDS Integers, FiniteSets

CONSTANTS Calls, Keys, Capacity, Lifetime

VARIABLES
  time,     \* the wall clock
  out,      \* out[k]: the calls that hold a slot of k
  lost,     \* lost[k]: slots of k whose holder is gone
  touched   \* touched[k]: when k was last asked for or handed back

vars == <<time, out, lost, touched>>

TouchedNow(k) == touched' = [touched EXCEPT ![k] = time]

(* Slots may turn out forgotten when the key is next used or swept. *)
Forgotten(k) ==
  out[k] = {} /\ time >= touched[k] + Lifetime

Taken(k) == Cardinality(out[k]) + lost[k]

Admit(u, k) ==
  /\ \A j \in Keys : u \notin out[j]
  /\ \/ Taken(k) < Capacity /\ lost' = lost
     \/ Forgotten(k) /\ lost' = [lost EXCEPT ![k] = 0]
  /\ out' = [out EXCEPT ![k] = @ \cup {u}]
  /\ TouchedNow(k)
  /\ UNCHANGED time

Deny(k) == Taken(k) = Capacity /\ TouchedNow(k) /\ UNCHANGED <<time, out, lost>>

Return(u, k) ==
  /\ u \in out[k]
  /\ out' = [out EXCEPT ![k] = @ \ {u}]
  /\ TouchedNow(k)
  /\ UNCHANGED <<time, lost>>

(* Some holders are gone without handing back. *)
Lose(gone) ==
  /\ gone # {}
  /\ out' = [k \in Keys |-> out[k] \ gone]
  /\ lost' = [k \in Keys |-> lost[k] + Cardinality(out[k] \cap gone)]
  /\ UNCHANGED <<time, touched>>

Sweep ==
  /\ \E dead \in SUBSET {k \in Keys : Forgotten(k)} :
       lost' = [k \in Keys |-> IF k \in dead THEN 0 ELSE lost[k]]
  /\ UNCHANGED <<time, out, touched>>

Tick == time' > time /\ UNCHANGED <<out, lost, touched>>

Init ==
  /\ time = 0
  /\ out = [k \in Keys |-> {}]
  /\ lost = [k \in Keys |-> 0]
  /\ touched = [k \in Keys |-> 0]

Next ==
  \/ \E k \in Keys, u \in Calls : Admit(u, k) \/ Return(u, k)
  \/ \E k \in Keys : Deny(k)
  \/ \E gone \in SUBSET Calls : Lose(gone)
  \/ Sweep
  \/ Tick

Spec == Init /\ [][Next]_vars
=============================================================================
