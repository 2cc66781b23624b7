---------------------------- MODULE SharedStore ----------------------------
(***************************************************************************)
(* The shared store (internal/store/bbolt.go) under concurrency limiters   *)
(* with backend: shared (limiter/engine.go, limiter/concurrency/algo.go):  *)
(* gateway processes of one host that start, crash, stop and start again   *)
(* around one database file, and the requests of each.                     *)
(*                                                                         *)
(* bbolt holds the file's lock from Open to Close; a transaction is under  *)
(* way between Begin and Commit, and nothing of it remains when its        *)
(* process dies before Commit.  The instant by which a record's expiry is  *)
(* judged and set is read before the writer's turn is waited for.          *)
(***************************************************************************)
EXTENDS Integers, FiniteSets

CONSTANTS
  Gateways,   \* processes configured with the same store.path
  Calls,      \* requests that use the limiter
  Home,       \* Home[u]: the gateway that serves u
  Keys,       \* the limiter's keys
  Capacity,   \* of the concurrency limiter
  TTL,        \* releaseTTL
  Patience,   \* how long Open waits for the file's lock
  MaxLag,     \* bound: age of an instant when its transaction commits
  MaxHold,    \* bound: how long a request holds its slot
  MaxTime,    \* bound: horizon of the clock
  Nobody

(* The lifetime "must comfortably exceed any legitimate in-flight request" *)
(* (concurrency/algo.go:21-23).                                            *)
ASSUME StoreAssumption ==
  /\ IsFiniteSet(Calls)
  /\ Home \in [Calls -> Gateways]
  /\ Nobody \notin Calls \cup Gateways
  /\ Capacity \in Nat \ {0}
  /\ {TTL, Patience, MaxLag, MaxHold, MaxTime} \subseteq Nat
  /\ TTL > MaxHold + 2 * MaxLag

VARIABLES
  clock,
  file,     \* file[k]: the record of k; a count of 0 stands for no record
  flock,    \* the gateway that has the file's lock
  gateway,  \* gateway[g]: "down", "opening", "serving" or "closed"
  asked,    \* asked[g]: when g called Open
  writer,   \* the call whose transaction is under way
  call,     \* call[u]: a request at the limiter
  lost,     \* history: units in k's record that nobody will hand back
  touched   \* history: when k's record was last written

vars == <<clock, file, flock, gateway, asked, writer, call, lost, touched>>

Times == 0 .. MaxTime

Empty == [count |-> 0, expires |-> 0]
Idle == [at |-> "idle", key |-> Nobody, when |-> 0]

Record == [count : 0 .. Capacity, expires : Nat]
Call == [at : {"idle", "allow", "holding", "release"}, key : Keys \cup {Nobody}, when : Times]

Holders(k) == {u \in Calls : call[u].at \in {"holding", "release"} /\ call[u].key = k}

Init ==
  /\ clock = 0
  /\ file = [k \in Keys |-> Empty]
  /\ flock = Nobody
  /\ gateway = [g \in Gateways |-> "down"]
  /\ asked = [g \in Gateways |-> 0]
  /\ writer = Nobody
  /\ call = [u \in Calls |-> Idle]
  /\ lost = [k \in Keys |-> 0]
  /\ touched = [k \in Keys |-> 0]

-----------------------------------------------------------------------------
(* A process and the file. *)

Start(g) ==
  /\ gateway[g] = "down"
  /\ gateway' = [gateway EXCEPT ![g] = "opening"]
  /\ asked' = [asked EXCEPT ![g] = clock]
  /\ UNCHANGED <<clock, file, flock, writer, call, lost, touched>>

Open(g) ==
  /\ gateway[g] = "opening" /\ flock = Nobody
  /\ gateway' = [gateway EXCEPT ![g] = "serving"]
  /\ asked' = [asked EXCEPT ![g] = 0]
  /\ flock' = g
  /\ UNCHANGED <<clock, file, writer, call, lost, touched>>

(* The lock did not come free in time: the process ends with an error. *)
OpenFails(g) ==
  /\ gateway[g] = "opening" /\ flock # Nobody
  /\ clock >= asked[g] + Patience
  /\ gateway' = [gateway EXCEPT ![g] = "down"]
  /\ asked' = [asked EXCEPT ![g] = 0]
  /\ UNCHANGED <<clock, file, flock, writer, call, lost, touched>>

(* The end of Drain.  Close waits for the transaction under way; requests  *)
(* that outlasted their grace run on without a store.                      *)
Close(g) ==
  /\ gateway[g] = "serving" /\ writer = Nobody
  /\ gateway' = [gateway EXCEPT ![g] = "closed"]
  /\ flock' = Nobody
  /\ UNCHANGED <<clock, file, asked, writer, call, lost, touched>>

Of(g) == {u \in Calls : Home[u] = g}

(* The process is gone, killed or because it has finished: its requests    *)
(* with it, its lock released by the system, its transaction undone.       *)
Gone(g) ==
  /\ gateway[g] # "down"
  /\ gateway' = [gateway EXCEPT ![g] = "down"]
  /\ asked' = [asked EXCEPT ![g] = 0]
  /\ flock' = IF flock = g THEN Nobody ELSE flock
  /\ writer' = IF writer \in Of(g) THEN Nobody ELSE writer
  /\ call' = [u \in Calls |-> IF u \in Of(g) THEN Idle ELSE call[u]]
  /\ lost' = [k \in Keys |-> lost[k] + Cardinality(Holders(k) \cap Of(g))]
  /\ UNCHANGED <<clock, file, touched>>

-----------------------------------------------------------------------------
(* A request and the limiter. *)

(* The limiter calls Update, which reads the clock. *)
Allow(u, k) ==
  /\ gateway[Home[u]] \in {"serving", "closed"} /\ call[u] = Idle
  /\ call' = [call EXCEPT ![u] = [at |-> "allow", key |-> k, when |-> clock]]
  /\ UNCHANGED <<clock, file, flock, gateway, asked, writer, lost, touched>>

Release(u) ==
  /\ call[u].at = "holding"
  /\ call' = [call EXCEPT ![u].at = "release", ![u].when = clock]
  /\ UNCHANGED <<clock, file, flock, gateway, asked, writer, lost, touched>>

Begin(u) ==
  /\ call[u].at \in {"allow", "release"}
  /\ gateway[Home[u]] = "serving" /\ writer = Nobody
  /\ writer' = u
  /\ UNCHANGED <<clock, file, flock, gateway, asked, call, lost, touched>>

(* What the record says at an instant. *)
Live(k, when) == IF file[k].expires > when THEN file[k].count ELSE 0

(* Mutant: a record keeps the expiry it was born with. *)
Stamped_Once(k, count, when) ==
  [count |-> count, expires |-> IF Live(k, when) > 0 THEN file[k].expires ELSE when + TTL]

Stamped(k, count, when) == [count |-> count, expires |-> when + TTL]

(* An expired record takes the units nobody will hand back with it. *)
StillLost(k, when) == IF Live(k, when) = 0 THEN 0 ELSE lost[k]

(* Mutant: one unit more than there are. *)
Fits_OneMore(count) == count <= Capacity

Fits(count) == count + 1 <= Capacity

(* The strategy's Step inside the transaction: a unit if there is one.     *)
(* Refused or not, the record is written anew and lives on.                *)
CommitAllow(u) ==
  LET k == call[u].key
      when == call[u].when
      count == Live(k, when)
      admitted == Fits(count)
  IN  /\ writer = u /\ call[u].at = "allow"
      /\ writer' = Nobody
      /\ file' = [file EXCEPT ![k] = Stamped(k, IF admitted THEN count + 1 ELSE count, when)]
      /\ call' = [call EXCEPT ![u] =
           IF admitted THEN [at |-> "holding", key |-> k, when |-> clock] ELSE Idle]
      /\ lost' = [lost EXCEPT ![k] = StillLost(k, when)]
      /\ touched' = [touched EXCEPT ![k] = clock]
      /\ UNCHANGED <<clock, flock, gateway, asked>>

HandedBack(count) == IF count > 0 THEN count - 1 ELSE 0

(* ReleaseStep inside the transaction; an emptied record is deleted. *)
CommitRelease(u) ==
  LET k == call[u].key
      when == call[u].when
      left == HandedBack(Live(k, when))
  IN  /\ writer = u /\ call[u].at = "release"
      /\ writer' = Nobody
      /\ file' = [file EXCEPT ![k] = IF left > 0 THEN Stamped(k, left, when) ELSE Empty]
      /\ call' = [call EXCEPT ![u] = Idle]
      /\ lost' = [lost EXCEPT ![k] = StillLost(k, when)]
      /\ touched' = [touched EXCEPT ![k] = clock]
      /\ UNCHANGED <<clock, flock, gateway, asked>>

(* The store is closed.  Allow fails closed: the request is denied.  A     *)
(* Release that fails is dropped.                                          *)
StoreFails(u) ==
  /\ call[u].at \in {"allow", "release"} /\ gateway[Home[u]] = "closed"
  /\ call' = [call EXCEPT ![u] = Idle]
  /\ lost' = IF call[u].at = "release" THEN [lost EXCEPT ![call[u].key] = @ + 1] ELSE lost
  /\ UNCHANGED <<clock, file, flock, gateway, asked, writer, touched>>

(* sweepExpired, whose instant is read before its transaction.  No gateway *)
(* starts the sweeper; whoever has the file open may.                      *)
SweepExpired(when) ==
  /\ flock # Nobody /\ writer = Nobody
  /\ file' = [k \in Keys |-> IF Live(k, when) > 0 THEN file[k] ELSE Empty]
  /\ lost' = [k \in Keys |-> StillLost(k, when)]
  /\ UNCHANGED <<clock, flock, gateway, asked, writer, call, touched>>

Tick ==
  /\ clock < MaxTime
  /\ clock' = clock + 1
  /\ \A u \in Calls :
       /\ call[u].at \in {"allow", "release"} => clock < call[u].when + MaxLag
       /\ call[u].at = "holding" => clock < call[u].when + MaxHold
  /\ UNCHANGED <<file, flock, gateway, asked, writer, call, lost, touched>>

Next ==
  \/ \E g \in Gateways : Start(g) \/ Open(g) \/ OpenFails(g) \/ Close(g) \/ Gone(g)
  \/ \E u \in Calls, k \in Keys : Allow(u, k)
  \/ \E u \in Calls :
       Release(u) \/ Begin(u) \/ CommitAllow(u) \/ CommitRelease(u) \/ StoreFails(u)
  \/ \E when \in Times : when <= clock /\ clock <= when + MaxLag /\ SweepExpired(when)
  \/ Tick

Spec == Init /\ [][Next]_vars

-----------------------------------------------------------------------------
(* Every variable keeps to its type. *)
TypeOK ==
  /\ clock \in Times
  /\ file \in [Keys -> Record]
  /\ flock \in Gateways \cup {Nobody}
  /\ gateway \in [Gateways -> {"down", "opening", "serving", "closed"}]
  /\ asked \in [Gateways -> Times]
  /\ writer \in Calls \cup {Nobody}
  /\ call \in [Calls -> Call]
  /\ lost \in [Keys -> Nat]
  /\ touched \in [Keys -> Times]

(* The record of a key counts the requests that hold one of its slots,     *)
(* those whose process died or closed the store included, and no others:   *)
(* no update is lost and none is applied twice, whoever crashes between    *)
(* which steps, and no record is dropped under a request that holds        *)
(* (bbolt.go Update).                                                      *)
CountExact ==
  \A k \in Keys : file[k].count = Cardinality(Holders(k)) + lost[k]

(* "It waits up to 1s to acquire the writer file lock -- long enough to    *)
(* absorb a sibling process mid-transaction" (bbolt.go:52-53): Open fails  *)
(* only while a transaction is under way.                                  *)
SiblingAbsorbed == [][\A g \in Gateways : OpenFails(g) => writer # Nobody]_vars

(* releaseTTL "exists to reap slots leaked by crashed callers"             *)
(* (concurrency/algo.go:21-22): a record whose units are all leaked is not *)
(* given a longer life.  A refused request gives it one.                   *)
LeaksReaped ==
  [][\A k \in Keys :
       lost[k] = Capacity /\ lost'[k] = Capacity => file'[k].expires <= file[k].expires]_vars

Contract == INSTANCE SlotContract WITH
  time <- clock, out <- [k \in Keys |-> Holders(k)], Lifetime <- TTL - MaxLag

(* The gateways together keep the limiter's contract, over crashes, closed *)
(* stores and restarts.                                                    *)
KeepsContract == Contract!Spec
=============================================================================
