-------------------------- MODULE ServingContract --------------------------
(***************************************************************************)
(* What hot reload promises a client: at any moment one configuration is   *)
(* in force, a request is served from start to end by the one in force     *)
(* when it was admitted, and once the gateway stops nothing is admitted.   *)
(***************************************************************************)
CONSTANTS
  Requests,
  Configs,
  Sound,    \* configurations that may be put in force
  None

VARIABLES
  active,   \* the configuration in force; None once stopped
  using     \* using[r]: the configuration serving request r, or None

vars == <<active, using>>

Init ==
  /\ active \in Sound
  /\ using = [r \in Requests |-> None]

Switch ==
  /\ active # None
  /\ active' \in Sound
  /\ UNCHANGED using

Admit(r) ==
  /\ active # None
  /\ using[r] = None
  /\ using' = [using EXCEPT ![r] = active]
  /\ UNCHANGED active

Finish(r) ==
  /\ using[r] # None
  /\ using' = [using EXCEPT ![r] = None]
  /\ UNCHANGED active

Stop == active' = None /\ UNCHANGED using

Next == Switch \/ Stop \/ \E r \in Requests : Admit(r) \/ Finish(r)

Spec == Init /\ [][Next]_vars
=============================================================================
