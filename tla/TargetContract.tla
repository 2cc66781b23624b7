--------------------------- MODULE TargetContract ---------------------------
(***************************************************************************)
(* What a target's health record promises the rest of the gateway, without *)
(* saying how verdicts are reached: an ejected or tripped target carries   *)
(* no new load before its deadline, a returning one goes through a trial   *)
(* period first, and only one that is given up on needs outside help.      *)
(***************************************************************************)
EXTENDS Integers

CONSTANTS
  EjectionTime, Cooldown,
  MaxLag        \* a verdict's deadline may count from an instant this old

VARIABLES
  clock,
  load,         \* requests placed on the target and not returned
  health, ejectedUntil,
  circuit, reopenAt

vars == <<clock, load, health, ejectedUntil, circuit, reopenAt>>

AtLeastOne(d) == IF d < 1 THEN 1 ELSE d

Deadlines(d) == {clock - lag + AtLeastOne(d) : lag \in 0 .. MaxLag}

Init ==
  /\ clock = 0
  /\ load = 0
  /\ health = "healthy" /\ ejectedUntil = 0
  /\ circuit = "closed" /\ reopenAt = 0

Ejected == health' = "ejected" /\ ejectedUntil' \in Deadlines(EjectionTime)

Opened == circuit' = "open" /\ reopenAt' \in Deadlines(Cooldown)

(* What becomes due by the passing of time. *)
Due ==
  /\ \/ UNCHANGED health
     \/ health = "ejected" /\ clock >= ejectedUntil /\ health' = "probing"
  /\ \/ UNCHANGED circuit
     \/ circuit = "open" /\ clock >= reopenAt /\ circuit' = "halfOpen"
  /\ UNCHANGED <<ejectedUntil, reopenAt>>

Idle == UNCHANGED <<health, ejectedUntil>>

(* The verdict of a request that was served. *)
Verdict ==
  /\ \/ Idle
     \/ health # "down" /\ Ejected
     \/ /\ health = "probing"
        /\ health' \in {"healthy", "down"}
        /\ UNCHANGED ejectedUntil
  /\ \/ UNCHANGED <<circuit, reopenAt>>
     \/ circuit \in {"closed", "halfOpen"} /\ Opened
     \/ circuit = "halfOpen" /\ circuit' = "closed" /\ UNCHANGED reopenAt

(* The verdict of an active check never moves the circuit, nor shortens or *)
(* lengthens an ejection.                                                  *)
Checked ==
  /\ \/ health = "down" /\ health' = "probing"
     \/ health = "probing" /\ health' \in {"healthy", "down"}
     \/ health = "healthy" /\ health' = "down"
  /\ UNCHANGED <<clock, load, ejectedUntil, circuit, reopenAt>>

Place ==
  /\ Due
  /\ health' \in {"healthy", "probing"}
  /\ circuit' # "open"
  /\ health' = "probing" => load = 0
  /\ load' = load + 1
  /\ UNCHANGED clock

Return ==
  /\ load > 0
  /\ load' = load - 1
  /\ Verdict
  /\ UNCHANGED clock

Expire == Due /\ UNCHANGED <<clock, load>>

Advance ==
  /\ clock' = clock + 1
  /\ UNCHANGED <<load, health, ejectedUntil, circuit, reopenAt>>

Next == Place \/ Return \/ Checked \/ Expire \/ Advance

Spec == Init /\ [][Next]_vars
=============================================================================
