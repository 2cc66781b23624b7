--------------------------- MODULE ExchangeProofs ---------------------------
(***************************************************************************)
(* Proofs about Exchange, for all sets of routes and requests.             *)
(*                                                                         *)
(* IInv is inductive.  Its first part locates the handler: what may still  *)
(* happen to the request depends on how far it has come.  The other parts  *)
(* are one per property: units of limiters (UnitsReturned), writers        *)
(* (OneAuthor), reports to the pool (ReportedOnce).                        *)
(*                                                                         *)
(* Two more invariants are inductive with it: SentInv, for what upstreams  *)
(* are sent (SentRightly), and AccountedInv, for what the access line says *)
(* (Accounted).                                                            *)
(***************************************************************************)
EXTENDS Exchange, TLAPS

Tries ==
  [ err : Causes, status : UpstreamFinal \cup {"none"}, framing : {"length", "chunked"} ]

Before == {"body-limit", "total-timeout", "cors", "auth", "rate-limit"}

Located ==
  /\ at \in Before \ {"rate-limit"} => turn = 1
  /\ at = "rate-limit" => turn <= Len(route.limiters)
  /\ at = "backoff" => attempt + 1 < route.attempts
  /\ broken => at \in {"release", "finish", "close", "end"}
  /\ at \in {"header", "copy"} => try.status # "none"

UnitsExact ==
  /\ UnitsReturned
  /\ at \in Before => ~limits.returned
  /\ at \in Before \ {"rate-limit"} => limits.pending = {}
  /\ at \in {"refuse", "finish", "close", "end"} /\ limits.pending # {} => limits.returned

By(o, who) == \A p \in o.pieces : p.by = who

(* Who may write: the timer from the moment it has found that the answer   *)
(* has not started, the handler otherwise; and once the timer has written, *)
(* nothing on the handler's way out finds anything left to write.          *)
Authors ==
  /\ By(out, IF out.timedOut THEN "timer" ELSE "handler")
  /\ out.timedOut => route.timeout /\ out.started
  /\ timer = "armed" => route.timeout /\ ~out.timedOut /\ (out.pieces # {} => out.started)
  /\ timer = "writing" => out.timedOut /\ out.pieces = {}
  /\ out.timedOut /\ timer = "off" => out.capped /\ out.logged # "none"
  /\ at \in {"body-limit", "total-timeout"} => timer = "off" /\ ~out.timedOut /\ out.pieces = {}
  /\ at \in {"close", "end"} => timer = "off"

IInv == TypeOK /\ Located /\ UnitsExact /\ Authors /\ ReportedOnce

-----------------------------------------------------------------------------
(* What a writer may do to what it passes on: it adds bytes of its caller, *)
(* forgets nothing, and leaves the timeout's flags alone.                  *)
Passes(o, q, by) ==
  /\ q \in Answer
  /\ q.timedOut = o.timedOut /\ q.started = o.started
  /\ o.capped => q.capped
  /\ o.logged # "none" => q.logged # "none"
  /\ \A p \in q.pieces : p \in o.pieces \/ p.by = by

LEMMA PassesTwice ==
  ASSUME NEW o, NEW q, NEW r, NEW by, Passes(o, q, by), Passes(q, r, by)
  PROVE  Passes(o, r, by)
  BY DEF Passes

LEMMA ServerHeadPasses ==
  ASSUME NEW o \in Answer, NEW a \in Answers \cup {"1xx"}, NEW by
  PROVE  Passes(o, ServerHead(o, a), by) /\ ServerHead(o, a).pieces = o.pieces
  BY DEF Passes, ServerHead, Answer, Answers

LEMMA ServerBodyPasses ==
  ASSUME NEW o \in Answer, NEW a \in Answers, NEW by \in {"handler", "timer"}
  PROVE  Passes(o, ServerBody(o, by, a), by)
<1>1. Passes(o, ServerHead(o, "ok"), by)
  BY ServerHeadPasses DEF Answers, UpstreamFinal
<1> DEFINE h == ServerHead(o, "ok")
           q == [h EXCEPT !.pieces = @ \cup {[by |-> by, of |-> a]}]
<1>2. Passes(h, q, by)
  <2>1. h \in Answer
    BY <1>1 DEF Passes
  <2> HIDE DEF h
  <2>2. q \in Answer
    BY <2>1 DEF Answer
  <2>3. q.pieces = h.pieces \cup {[by |-> by, of |-> a]}
    BY <2>1 DEF Answer
  <2>4. /\ q.timedOut = h.timedOut /\ q.started = h.started
        /\ q.capped = h.capped /\ q.logged = h.logged
    BY <2>1 DEF Answer
  <2> QED BY <2>2, <2>3, <2>4 DEF Passes
<1>3. Passes(o, q, by)
  BY <1>1, <1>2, PassesTwice
<1>4. Passes(o, o, by)
  BY DEF Passes
<1> QED BY <1>3, <1>4 DEF ServerBody

LEMMA CaptureHeadPasses ==
  ASSUME NEW o \in Answer, NEW a \in Answers \cup {"1xx"}, NEW by
  PROVE  /\ Passes(o, CaptureHead(o, a), by)
         /\ CaptureHead(o, a).logged # "none"
         /\ CaptureHead(o, a).pieces = o.pieces
<1> DEFINE q == [o EXCEPT !.logged = a]
<1>1. q \in Answer /\ q.logged = a /\ a # "none" /\ Passes(o, q, by) /\ q.pieces = o.pieces
  BY DEF Answer, Answers, UpstreamFinal, Envelopes, Passes
<1>2. Passes(q, ServerHead(q, a), by) /\ ServerHead(q, a).pieces = q.pieces
  BY <1>1, ServerHeadPasses
<1>3. Passes(o, ServerHead(q, a), by) /\ ServerHead(q, a).logged # "none"
  BY <1>1, <1>2, PassesTwice DEF Passes
<1>4. Passes(o, o, by)
  BY DEF Passes
<1> QED BY <1>1, <1>2, <1>3, <1>4 DEF CaptureHead

LEMMA CaptureBodyPasses ==
  ASSUME NEW o \in Answer, NEW a \in Answers, NEW by \in {"handler", "timer"}
  PROVE  Passes(o, CaptureBody(o, by, a), by) /\ CaptureBody(o, by, a).logged # "none"
<1>1. /\ Passes(o, CaptureHead(o, "ok"), by) /\ CaptureHead(o, "ok") \in Answer
      /\ CaptureHead(o, "ok").logged # "none"
  BY CaptureHeadPasses DEF Answers, UpstreamFinal, Passes
<1>2. Passes(CaptureHead(o, "ok"), CaptureBody(o, by, a), by)
  BY <1>1, ServerBodyPasses DEF CaptureBody
<1> QED BY <1>1, <1>2, PassesTwice DEF Passes

LEMMA OuterEnvelopePasses ==
  ASSUME NEW o \in Answer, NEW a \in Answers, NEW by \in {"handler", "timer"}
  PROVE  Passes(o, OuterEnvelope(o, by, a), by) /\ OuterEnvelope(o, by, a).logged # "none"
<1>1. Passes(o, CaptureHead(o, a), by) /\ CaptureHead(o, a) \in Answer
  BY CaptureHeadPasses DEF Passes
<1>2. /\ Passes(CaptureHead(o, a), OuterEnvelope(o, by, a), by)
      /\ OuterEnvelope(o, by, a).logged # "none"
  BY <1>1, CaptureBodyPasses DEF OuterEnvelope
<1> QED BY <1>1, <1>2, PassesTwice

(* The body limit's writer has noted by then that the answer has begun. *)
LEMMA DenyPasses ==
  ASSUME NEW o \in Answer, NEW by \in {"handler", "timer"}
  PROVE  /\ Passes(o, Deny(o, by), by)
         /\ Deny(o, by).capped /\ Deny(o, by).logged # "none"
<1> DEFINE q == [o EXCEPT !.denied = TRUE, !.capped = TRUE]
<1>1. q \in Answer /\ q.capped /\ Passes(o, q, by)
  BY DEF Answer, Passes
<1>2. Passes(q, Deny(o, by), by) /\ Deny(o, by).logged # "none"
  BY <1>1, OuterEnvelopePasses DEF Deny, Answers, Envelopes
<1> QED BY <1>1, <1>2, PassesTwice DEF Passes

LEMMA LimitHeadPasses ==
  ASSUME NEW o \in Answer, NEW a \in Answers \cup {"1xx"}, NEW by \in {"handler", "timer"}
  PROVE  Passes(o, LimitHead(o, by, a), by) /\ LimitHead(o, by, a).capped
<1> DEFINE q == [o EXCEPT !.capped = TRUE]
<1>1. q \in Answer /\ q.capped /\ Passes(o, q, by)
  BY DEF Answer, Passes
<1>2. Passes(q, CaptureHead(q, a), by)
  BY <1>1, CaptureHeadPasses
<1>3. Passes(o, CaptureHead(q, a), by) /\ CaptureHead(q, a).capped
  BY <1>1, <1>2, PassesTwice DEF Passes
<1>4. Passes(o, o, by)
  BY DEF Passes
<1> QED BY <1>3, <1>4, DenyPasses DEF LimitHead

LEMMA LimitBodyPasses ==
  ASSUME NEW o \in Answer, NEW a \in Answers, NEW by \in {"handler", "timer"}
  PROVE  /\ Passes(o, LimitBody(o, by, a), by)
         /\ LimitBody(o, by, a).capped /\ LimitBody(o, by, a).logged # "none"
<1> DEFINE q == IF o.capped THEN o ELSE LimitHead(o, by, "ok")
<1>1. Passes(o, q, by) /\ q.capped /\ q \in Answer
  BY LimitHeadPasses DEF Passes, Answers, UpstreamFinal
<1>2. Passes(q, CaptureBody(q, by, a), by) /\ CaptureBody(q, by, a).logged # "none"
  <2> HIDE DEF q
  <2> QED BY <1>1, CaptureBodyPasses
<1>3. Passes(o, CaptureBody(q, by, a), by) /\ CaptureBody(q, by, a).capped
  BY <1>1, <1>2, PassesTwice DEF Passes
<1> QED BY <1>2, <1>3, DenyPasses DEF LimitBody

(* Through the timeout's writer the handler only writes while the timer    *)
(* has not: the answer keeps its one author.                               *)
Sound(o) ==
  /\ o \in Answer
  /\ By(o, IF o.timedOut THEN "timer" ELSE "handler")
  /\ o.timedOut => route.timeout /\ o.started

LEMMA PassesSound ==
  ASSUME NEW o, NEW q, Sound(o), ~o.timedOut, Passes(o, q, "handler")
  PROVE  Sound(q)
  BY DEF Sound, Passes, By

LEMMA TimeoutHeadSound ==
  ASSUME NEW o, Sound(o), NEW a \in Answers \cup {"1xx"}
  PROVE  /\ Sound(TimeoutHead(o, a)) /\ TimeoutHead(o, a).started
         /\ TimeoutHead(o, a).timedOut = o.timedOut
         /\ o.timedOut => TimeoutHead(o, a) = o
<1> DEFINE q == [o EXCEPT !.started = TRUE]
<1>1. CASE route.timeout /\ (o.timedOut \/ o.started)
  BY <1>1 DEF TimeoutHead, Sound
<1>2. CASE ~(route.timeout /\ (o.timedOut \/ o.started))
  <2>1. ~o.timedOut
    BY <1>2 DEF Sound
  <2>2. Sound(q) /\ q.started /\ ~q.timedOut /\ q \in Answer
    BY <2>1 DEF Sound, By, Answer
  <2>3. Passes(q, LimitHead(q, "handler", a), "handler")
    BY <2>2, LimitHeadPasses
  <2>4. TimeoutHead(o, a) = LimitHead(q, "handler", a)
    BY <1>2 DEF TimeoutHead
  <2>5. Sound(LimitHead(q, "handler", a))
    BY <2>2, <2>3, PassesSound
  <2> HIDE DEF q
  <2>6. /\ LimitHead(q, "handler", a).started
        /\ LimitHead(q, "handler", a).timedOut = FALSE
    BY <2>2, <2>3 DEF Passes, Answer
  <2>7. o.timedOut = FALSE
    BY <2>1 DEF Sound, Answer
  <2> QED BY <2>4, <2>5, <2>6, <2>7
<1> QED BY <1>1, <1>2

LEMMA TimeoutBodySound ==
  ASSUME NEW o, Sound(o), NEW a \in Answers
  PROVE  /\ Sound(TimeoutBody(o, a)) /\ TimeoutBody(o, a).started
         /\ TimeoutBody(o, a).timedOut = o.timedOut
         /\ o.timedOut => TimeoutBody(o, a) = o
<1> DEFINE q == IF o.started THEN o ELSE TimeoutHead(o, "ok")
<1>1. CASE route.timeout /\ o.timedOut
  BY <1>1 DEF TimeoutBody, Sound
<1>2. CASE ~(route.timeout /\ o.timedOut)
  <2>1. ~o.timedOut
    BY <1>2 DEF Sound
  <2>2. Sound(q) /\ q.started /\ ~q.timedOut /\ q \in Answer
    BY <2>1, TimeoutHeadSound DEF Sound, Answers, UpstreamFinal
  <2>3. TimeoutBody(o, a) = LimitBody(q, "handler", a)
    BY <1>2 DEF TimeoutBody
  <2> HIDE DEF q
  <2>4. Passes(q, LimitBody(q, "handler", a), "handler")
    BY <2>2, LimitBodyPasses
  <2>5. Sound(LimitBody(q, "handler", a))
    BY <2>2, <2>4, PassesSound
  <2>6. /\ LimitBody(q, "handler", a).started
        /\ LimitBody(q, "handler", a).timedOut = FALSE
    BY <2>2, <2>4 DEF Passes, Answer
  <2>7. o.timedOut = FALSE
    BY <2>1 DEF Sound, Answer
  <2> QED BY <2>3, <2>5, <2>6, <2>7
<1> QED BY <1>1, <1>2

LEMMA EnvelopeSound ==
  ASSUME NEW o, Sound(o), NEW a \in Answers
  PROVE  /\ Sound(Envelope(o, a)) /\ Envelope(o, a).started
         /\ Envelope(o, a).timedOut = o.timedOut
         /\ o.timedOut => Envelope(o, a) = o
  BY TimeoutHeadSound, TimeoutBodySound DEF Envelope

-----------------------------------------------------------------------------
(* The chain's order, as a table. *)
LEMMA OrderFacts ==
  /\ After("body-limit") = "total-timeout" /\ After("total-timeout") = "cors"
  /\ After("cors") = "auth" /\ After("auth") = "rate-limit" /\ After("rate-limit") = "plan"
<1>1. Len(Order) = 6
  BY DEF Order
<1> DEFINE Next1(s) == CHOOSE i \in 2 .. 6 : Order[i - 1] = s
<1>2. \A s : After(s) = Order[Next1(s)]
  BY <1>1 DEF After
<1>3. \A k \in 1 .. 5 : \A i \in 2 .. 6 : Order[i - 1] = Order[k] <=> i = k + 1
  BY DEF Order
<1>4. \A k \in 1 .. 5 : Next1(Order[k]) = k + 1
  <2> SUFFICES ASSUME NEW k \in 1 .. 5 PROVE Next1(Order[k]) = k + 1
    OBVIOUS
  <2>1. k + 1 \in 2 .. 6 /\ Order[(k + 1) - 1] = Order[k]
    OBVIOUS
  <2>2. Next1(Order[k]) \in 2 .. 6 /\ Order[Next1(Order[k]) - 1] = Order[k]
    BY <2>1
  <2> HIDE DEF Next1
  <2> QED BY <2>2, <1>3
<1> HIDE DEF Next1
<1>5. \A k \in 1 .. 5 : After(Order[k]) = Order[k + 1]
  BY <1>2, <1>4
<1> QED BY <1>5 DEF Order

LEMMA FollowingFacts ==
  /\ Following("body-limit") = "total-timeout" /\ Following("total-timeout") = "cors"
  /\ Following("cors") = "auth"
  /\ Following("auth") = IF route.limiters = << >> THEN "plan" ELSE "rate-limit"
  BY OrderFacts DEF Following

LEMMA RouteFacts ==
  ASSUME TypeOK
  PROVE  /\ route \in RouteType /\ req \in RequestType
         /\ route.attempts \in Nat \ {0} /\ route.limiters \in Seq(BOOLEAN)
         /\ Len(route.limiters) \in Nat
         /\ DOMAIN route.limiters = 1 .. Len(route.limiters)
         /\ route.timeout \in BOOLEAN
         /\ route.limiters # << >> => 1 <= Len(route.limiters)
  BY ExchangeAssumption DEF TypeOK, RouteType

LEMMA ReleaseAllFacts ==
  ASSUME TypeOK, UnitsReturned
  PROVE  LET l == ReleaseAll(limits) IN
         /\ l.pending = limits.pending /\ l.returned
         /\ l \in [ pending : SUBSET DOMAIN route.limiters,
                    handed : [DOMAIN route.limiters -> Nat], returned : BOOLEAN ]
         /\ \A i \in DOMAIN route.limiters : l.handed[i] = IF i \in limits.pending THEN 1 ELSE 0
<1> DEFINE add == [i \in DOMAIN limits.handed |->
                     limits.handed[i] + (IF i \in limits.pending THEN 1 ELSE 0)]
           l == [limits EXCEPT !.returned = TRUE, !.handed = add]
<1>1. /\ DOMAIN limits.handed = DOMAIN route.limiters
      /\ \A i \in DOMAIN route.limiters : limits.handed[i] \in Nat
  BY DEF TypeOK
<1>2. CASE limits.returned
  BY <1>1, <1>2 DEF ReleaseAll, TypeOK, UnitsReturned
<1>3. CASE ~limits.returned
  <2>1. \A i \in DOMAIN route.limiters : add[i] = IF i \in limits.pending THEN 1 ELSE 0
    BY <1>1, <1>3 DEF UnitsReturned
  <2>2. add \in [DOMAIN route.limiters -> Nat]
    BY <1>1
  <2> HIDE DEF add
  <2>3. /\ l.pending = limits.pending /\ l.returned = TRUE /\ l.handed = add
        /\ l \in [ pending : SUBSET DOMAIN route.limiters,
                   handed : [DOMAIN route.limiters -> Nat], returned : BOOLEAN ]
    BY <2>2 DEF TypeOK
  <2>4. ReleaseAll(limits) = l
    BY <1>3 DEF ReleaseAll, add
  <2> QED BY <2>1, <2>3, <2>4
<1> QED BY <1>2, <1>3

LEMMA LocatedStep ==
  ASSUME IInv, Next
  PROVE  Located'
<1> USE DEF IInv, inputs, forwarding, ghosts
<1>1. CASE BodyLimit
  BY <1>1, FollowingFacts DEF BodyLimit, Located, Before, TypeOK
<1>2. CASE TotalTimeout
  BY <1>2, FollowingFacts DEF TotalTimeout, Located, Before, TypeOK
<1>3. CASE CORS
  BY <1>3, FollowingFacts DEF CORS, Screen, Located, Before, TypeOK
<1>4. CASE Auth
  BY <1>4, FollowingFacts, RouteFacts DEF Auth, Screen, Located, Before, TypeOK
<1>5. CASE RateLimit
  <2>1. turn \in Nat /\ Len(route.limiters) \in Nat /\ turn <= Len(route.limiters) + 1
    BY RouteFacts DEF TypeOK
  <2>2. CASE /\ turn' = turn + 1 /\ UNCHANGED route
             /\ at' = IF turn = Len(route.limiters) THEN "stamp" ELSE at
    <3>1. at = "rate-limit" /\ ~broken /\ UNCHANGED << broken, attempt, try >>
      BY <1>5 DEF RateLimit, Located
    <3> QED BY <2>1, <2>2, <3>1 DEF Located, Before
  <2>3. CASE at' = "refuse" /\ UNCHANGED << route, broken >> /\ at = "rate-limit"
    BY <2>3 DEF Located, Before
  <2> QED BY <1>5, <2>2, <2>3 DEF RateLimit
<1>6. CASE Refuse
  BY <1>6 DEF Refuse, Located, Before, TypeOK
<1>7. CASE Stamp
  BY <1>7, OrderFacts DEF Stamp, Located, Before, TypeOK
<1>8. CASE Plan
  BY <1>8 DEF Plan, Located, Before, TypeOK
<1>9. CASE Pick
  BY <1>9 DEF Pick, Located, Before, TypeOK
<1>10. CASE Send
  BY <1>10 DEF Send, Located, Before, TypeOK
<1>11. CASE Header
  BY <1>11 DEF Header, Located, Before, TypeOK
<1>12. CASE Copy
  BY <1>12 DEF Copy, Located, Before, TypeOK
<1>13. CASE Report
  BY <1>13, RouteFacts DEF Report, Located, Before, TypeOK, WillRetry, Attempts
<1>14. CASE Backoff
  BY <1>14 DEF Backoff, Located, Before, TypeOK
<1>15. CASE Fail
  BY <1>15 DEF Fail, Located, Before, TypeOK
<1>16. CASE Failed
  BY <1>16 DEF Failed, FailedWith, Located, Before, TypeOK
<1>17. CASE Inform
  BY <1>17 DEF Inform, Located, Before, TypeOK
<1>18. CASE Respond
  BY <1>18 DEF Respond, Located, Before, TypeOK, UpstreamFinal
<1>19. CASE CopyEnds
  BY <1>19 DEF CopyEnds, Located, Before, TypeOK
<1>20. CASE CopyBreaks
  BY <1>20 DEF CopyBreaks, Located, Before, TypeOK
<1>21. CASE Upgrade
  BY <1>21 DEF Upgrade, Located, Before, TypeOK
<1>22. CASE TunnelEnds
  BY <1>22 DEF TunnelEnds, Located, Before, TypeOK
<1>23. CASE Release
  BY <1>23 DEF Release, Located, Before, TypeOK
<1>24. CASE Finish
  BY <1>24 DEF Finish, Located, Before, TypeOK
<1>25. CASE Close
  BY <1>25 DEF Close, Located, Before, TypeOK
<1>26. CASE Expire
  BY <1>26 DEF Expire, Located, Before, TypeOK
<1>27. CASE ExpireWrites
  BY <1>27 DEF ExpireWrites, Located, Before, TypeOK
<1>28. CASE Upload
  BY <1>28 DEF Upload, Located, Before, TypeOK
<1>29. CASE ClientLeaves
  BY <1>29 DEF ClientLeaves, Located, Before, TypeOK
<1>30. CASE Cancel
  BY <1>30 DEF Cancel, Located, Before, TypeOK
<1>31. CASE Deadline
  BY <1>31 DEF Deadline, Located, Before, TypeOK
<1>32. CASE Ended
  BY <1>32 DEF Ended, vars, Located, Before, TypeOK
<1> QED
  BY <1>1, <1>2, <1>3, <1>4, <1>5, <1>6, <1>7, <1>8, <1>9, <1>10, <1>11, <1>12, <1>13, <1>14, <1>15, <1>16,
     <1>17, <1>18, <1>19, <1>20, <1>21, <1>22, <1>23, <1>24, <1>25, <1>26, <1>27, <1>28, <1>29, <1>30, <1>31, <1>32
     DEF Next, Stages, Forwarding, Upstream, Leaving, Timeout, Surroundings

LEMMA UnitsStep ==
  ASSUME IInv, Next
  PROVE  UnitsExact'
<1> USE DEF IInv, inputs, forwarding, ghosts
<1>1. CASE BodyLimit
  BY <1>1, FollowingFacts DEF BodyLimit, UnitsExact, UnitsReturned, TypeOK, Before
<1>2. CASE TotalTimeout
  BY <1>2, FollowingFacts DEF TotalTimeout, UnitsExact, UnitsReturned, TypeOK, Before
<1>3. CASE CORS
  BY <1>3, FollowingFacts DEF CORS, Screen, UnitsExact, UnitsReturned, TypeOK, Before
<1>4. CASE Auth
  BY <1>4, FollowingFacts DEF Auth, Screen, UnitsExact, UnitsReturned, TypeOK, Before
<1>5. CASE RateLimit
  <2>1. CASE limits' = ReleaseAll(limits) /\ at' = "refuse" /\ UNCHANGED route
    BY <2>1, ReleaseAllFacts DEF UnitsExact, UnitsReturned, TypeOK, Before
  <2>2. CASE /\ limits' = limits \/ limits' = [limits EXCEPT !.pending = @ \cup {turn}]
             /\ at' \in {"stamp", "rate-limit"} /\ at = "rate-limit" /\ UNCHANGED route
    <3>1. limits'.handed = limits.handed /\ limits'.returned = limits.returned /\ ~limits.returned
      BY <2>2 DEF UnitsExact, TypeOK, Before
    <3> QED BY <2>2, <3>1 DEF UnitsExact, UnitsReturned, TypeOK, Before
  <2> QED BY <1>5, <2>1, <2>2 DEF RateLimit
<1>6. CASE Refuse
  BY <1>6 DEF Refuse, UnitsExact, UnitsReturned, TypeOK, Before
<1>7. CASE Stamp
  BY <1>7, OrderFacts DEF Stamp, UnitsExact, UnitsReturned, TypeOK, Before
<1>8. CASE Plan
  BY <1>8 DEF Plan, UnitsExact, UnitsReturned, TypeOK, Before
<1>9. CASE Pick
  BY <1>9 DEF Pick, UnitsExact, UnitsReturned, TypeOK, Before
<1>10. CASE Send
  BY <1>10 DEF Send, UnitsExact, UnitsReturned, TypeOK, Before
<1>11. CASE Header
  BY <1>11, ReleaseAllFacts DEF Header, UnitsExact, UnitsReturned, TypeOK, Before
<1>12. CASE Copy
  BY <1>12 DEF Copy, UnitsExact, UnitsReturned, TypeOK, Before
<1>13. CASE Report
  BY <1>13 DEF Report, UnitsExact, UnitsReturned, TypeOK, Before
<1>14. CASE Backoff
  BY <1>14 DEF Backoff, UnitsExact, UnitsReturned, TypeOK, Before
<1>15. CASE Fail
  BY <1>15, ReleaseAllFacts DEF Fail, UnitsExact, UnitsReturned, TypeOK, Before
<1>16. CASE Failed
  BY <1>16 DEF Failed, FailedWith, UnitsExact, UnitsReturned, TypeOK, Before
<1>17. CASE Inform
  BY <1>17, ReleaseAllFacts DEF Inform, UnitsExact, UnitsReturned, TypeOK, Before
<1>18. CASE Respond
  BY <1>18 DEF Respond, UnitsExact, UnitsReturned, TypeOK, Before
<1>19. CASE CopyEnds
  BY <1>19 DEF CopyEnds, UnitsExact, UnitsReturned, TypeOK, Before
<1>20. CASE CopyBreaks
  BY <1>20 DEF CopyBreaks, UnitsExact, UnitsReturned, TypeOK, Before
<1>21. CASE Upgrade
  BY <1>21, ReleaseAllFacts DEF Upgrade, UnitsExact, UnitsReturned, TypeOK, Before
<1>22. CASE TunnelEnds
  BY <1>22 DEF TunnelEnds, UnitsExact, UnitsReturned, TypeOK, Before
<1>23. CASE Release
  BY <1>23, ReleaseAllFacts DEF Release, UnitsExact, UnitsReturned, TypeOK, Before
<1>24. CASE Finish
  BY <1>24 DEF Finish, UnitsExact, UnitsReturned, TypeOK, Before
<1>25. CASE Close
  BY <1>25 DEF Close, UnitsExact, UnitsReturned, TypeOK, Before
<1>26. CASE Expire
  BY <1>26 DEF Expire, UnitsExact, UnitsReturned, TypeOK, Before
<1>27. CASE ExpireWrites
  BY <1>27 DEF ExpireWrites, UnitsExact, UnitsReturned, TypeOK, Before
<1>28. CASE Upload
  BY <1>28 DEF Upload, UnitsExact, UnitsReturned, TypeOK, Before
<1>29. CASE ClientLeaves
  BY <1>29 DEF ClientLeaves, UnitsExact, UnitsReturned, TypeOK, Before
<1>30. CASE Cancel
  BY <1>30 DEF Cancel, UnitsExact, UnitsReturned, TypeOK, Before
<1>31. CASE Deadline
  BY <1>31 DEF Deadline, UnitsExact, UnitsReturned, TypeOK, Before
<1>32. CASE Ended
  BY <1>32 DEF Ended, vars, UnitsExact, UnitsReturned, TypeOK, Before
<1> QED
  BY <1>1, <1>2, <1>3, <1>4, <1>5, <1>6, <1>7, <1>8, <1>9, <1>10, <1>11, <1>12, <1>13, <1>14, <1>15, <1>16,
     <1>17, <1>18, <1>19, <1>20, <1>21, <1>22, <1>23, <1>24, <1>25, <1>26, <1>27, <1>28, <1>29, <1>30, <1>31, <1>32
     DEF Next, Stages, Forwarding, Upstream, Leaving, Timeout, Surroundings

LEMMA ReportedStep ==
  ASSUME IInv, Next
  PROVE  ReportedOnce'
<1> USE DEF IInv, inputs, forwarding, ghosts
<1>1. CASE BodyLimit
  BY <1>1, FollowingFacts DEF BodyLimit, ReportedOnce, TypeOK, Located
<1>2. CASE TotalTimeout
  BY <1>2, FollowingFacts DEF TotalTimeout, ReportedOnce, TypeOK, Located
<1>3. CASE CORS
  BY <1>3, FollowingFacts DEF CORS, Screen, ReportedOnce, TypeOK, Located
<1>4. CASE Auth
  BY <1>4, FollowingFacts DEF Auth, Screen, ReportedOnce, TypeOK, Located
<1>5. CASE RateLimit
  BY <1>5 DEF RateLimit, ReportedOnce, TypeOK, Located
<1>6. CASE Refuse
  BY <1>6 DEF Refuse, ReportedOnce, TypeOK, Located
<1>7. CASE Stamp
  BY <1>7, OrderFacts DEF Stamp, ReportedOnce, TypeOK, Located
<1>8. CASE Plan
  BY <1>8 DEF Plan, ReportedOnce, TypeOK, Located
<1>9. CASE Pick
  BY <1>9 DEF Pick, ReportedOnce, TypeOK, Located
<1>10. CASE Send
  BY <1>10 DEF Send, ReportedOnce, TypeOK, Located
<1>11. CASE Header
  BY <1>11 DEF Header, ReportedOnce, TypeOK, Located
<1>12. CASE Copy
  BY <1>12 DEF Copy, ReportedOnce, TypeOK, Located
<1>13. CASE Report
  BY <1>13 DEF Report, ReportedOnce, TypeOK, Located
<1>14. CASE Backoff
  BY <1>14 DEF Backoff, ReportedOnce, TypeOK, Located
<1>15. CASE Fail
  BY <1>15 DEF Fail, ReportedOnce, TypeOK, Located
<1>16. CASE Failed
  BY <1>16 DEF Failed, FailedWith, ReportedOnce, TypeOK, Located
<1>17. CASE Inform
  BY <1>17 DEF Inform, ReportedOnce, TypeOK, Located
<1>18. CASE Respond
  BY <1>18 DEF Respond, ReportedOnce, TypeOK, Located
<1>19. CASE CopyEnds
  BY <1>19 DEF CopyEnds, ReportedOnce, TypeOK, Located
<1>20. CASE CopyBreaks
  BY <1>20 DEF CopyBreaks, ReportedOnce, TypeOK, Located
<1>21. CASE Upgrade
  BY <1>21 DEF Upgrade, ReportedOnce, TypeOK, Located
<1>22. CASE TunnelEnds
  BY <1>22 DEF TunnelEnds, ReportedOnce, TypeOK, Located
<1>23. CASE Release
  BY <1>23 DEF Release, ReportedOnce, TypeOK, Located
<1>24. CASE Finish
  BY <1>24 DEF Finish, ReportedOnce, TypeOK, Located
<1>25. CASE Close
  BY <1>25 DEF Close, ReportedOnce, TypeOK, Located
<1>26. CASE Expire
  BY <1>26 DEF Expire, ReportedOnce, TypeOK, Located
<1>27. CASE ExpireWrites
  BY <1>27 DEF ExpireWrites, ReportedOnce, TypeOK, Located
<1>28. CASE Upload
  BY <1>28 DEF Upload, ReportedOnce, TypeOK, Located
<1>29. CASE ClientLeaves
  BY <1>29 DEF ClientLeaves, ReportedOnce, TypeOK, Located
<1>30. CASE Cancel
  BY <1>30 DEF Cancel, ReportedOnce, TypeOK, Located
<1>31. CASE Deadline
  BY <1>31 DEF Deadline, ReportedOnce, TypeOK, Located
<1>32. CASE Ended
  BY <1>32 DEF Ended, vars, ReportedOnce, TypeOK, Located
<1> QED
  BY <1>1, <1>2, <1>3, <1>4, <1>5, <1>6, <1>7, <1>8, <1>9, <1>10, <1>11, <1>12, <1>13, <1>14, <1>15, <1>16,
     <1>17, <1>18, <1>19, <1>20, <1>21, <1>22, <1>23, <1>24, <1>25, <1>26, <1>27, <1>28, <1>29, <1>30, <1>31, <1>32
     DEF Next, Stages, Forwarding, Upstream, Leaving, Timeout, Surroundings

(* The timer has decided to write. *)
LEMMA ExpiredFacts ==
  ASSUME NEW o \in Answer
  PROVE  LET q == [o EXCEPT !.timedOut = TRUE, !.started = TRUE]
         IN q \in Answer /\ q.timedOut /\ q.started /\ q.pieces = o.pieces
  BY DEF Answer

(* What the handler writes through the timeout's writer, whichever action   *)
(* it is, keeps Authors.                                                   *)
LEMMA HandlerWrites ==
  ASSUME IInv, Unlocked, UNCHANGED << route, timer >>,
         Sound(out'), out'.started, out'.timedOut = out.timedOut,
         out.timedOut => out'.capped = out.capped /\ out'.logged = out.logged,
         at' \notin {"body-limit", "total-timeout", "close", "end"}
  PROVE  Authors'
  BY DEF IInv, Authors, Unlocked, Sound, By, TypeOK

(* Closing the response adds nothing to what the timer wrote. *)
LEMMA CloseWrites ==
  ASSUME IInv, Close
  PROVE  out' \in Answer /\ Authors'
<1> DEFINE limited == IF TooLarge(out) THEN Deny(out, "handler") ELSE out
           lined == [limited EXCEPT !.line = IF limited.logged = "none" THEN "ok" ELSE limited.logged]
           recovered == IF broken /\ lined.logged = "none"
                        THEN ServerBody(ServerHead(lined, "INT500"), "handler", "INT500")
                        ELSE lined
           headed == ServerHead(recovered, "ok")
           Keeps(q) == Passes(out, q, "handler") /\ (out.timedOut => q.pieces = out.pieces)
<1>1. out \in Answer /\ Keeps(out)
  BY DEF IInv, TypeOK, Passes
<1>2. timer = "off"
  BY DEF IInv, Authors, Close
<1>3. Keeps(limited)
  BY <1>1, <1>2, DenyPasses DEF IInv, Authors, TooLarge
<1>4. Keeps(lined)
  <2> HIDE DEF limited
  <2>1. limited \in Answer
    BY <1>3 DEF Passes
  <2>2. lined \in Answer /\ lined.pieces = limited.pieces /\ lined.timedOut = limited.timedOut
        /\ lined.started = limited.started /\ lined.capped = limited.capped
        /\ lined.logged = limited.logged
    BY <2>1 DEF Answer, Answers, UpstreamFinal
  <2> HIDE DEF lined
  <2> QED BY <1>3, <2>2 DEF Passes
<1>5. Keeps(recovered)
  <2> HIDE DEF lined
  <2>1. CASE broken /\ lined.logged = "none"
    <3> DEFINE h == ServerHead(lined, "INT500")
               b == ServerBody(h, "handler", "INT500")
    <3>1. Passes(lined, h, "handler") /\ h \in Answer
      BY <1>4, ServerHeadPasses DEF Passes, Answers, Envelopes
    <3>2. Passes(h, b, "handler")
      <4> HIDE DEF h
      <4> QED BY <3>1, ServerBodyPasses DEF Answers, Envelopes
    <3>3. Passes(out, b, "handler")
      <4> HIDE DEF h, b
      <4> QED BY <1>4, <3>1, <3>2, PassesTwice
    <3>4. ~out.timedOut
      BY <1>2, <1>4, <2>1 DEF IInv, Authors, Passes
    <3> QED BY <2>1, <3>3, <3>4
  <2>2. CASE ~(broken /\ lined.logged = "none")
    BY <1>4, <2>2
  <2> QED BY <2>1, <2>2
<1>6. Keeps(headed)
  <2> HIDE DEF recovered
  <2>1. Passes(recovered, headed, "handler") /\ headed.pieces = recovered.pieces
    BY <1>5, ServerHeadPasses DEF Passes, Answers, UpstreamFinal
  <2> HIDE DEF headed
  <2> QED BY <1>5, <2>1, PassesTwice
<1>7. PICK e \in {"cut", "complete"} : out' = [headed EXCEPT !.end = e]
  BY DEF Close
<1> HIDE DEF headed
<1>8. /\ out' \in Answer
      /\ out'.pieces = headed.pieces /\ out'.timedOut = headed.timedOut
      /\ out'.started = headed.started /\ out'.capped = headed.capped
      /\ out'.logged = headed.logged
  <2>1. headed \in Answer
    BY <1>6 DEF Passes
  <2> QED BY <1>7, <2>1 DEF Answer
<1> QED
  BY <1>2, <1>6, <1>8 DEF IInv, Authors, By, Passes, Close, inputs

LEMMA SoundNow ==
  ASSUME IInv
  PROVE  Sound(out)
  BY DEF IInv, Sound, Authors, TypeOK

LEMMA AuthorsStep ==
  ASSUME IInv, Next
  PROVE  Authors'
<1> USE DEF IInv, inputs, forwarding, ghosts
<1>1. CASE BodyLimit
  <2>1. CASE at' = "close" /\ UNCHANGED << timer, route >> /\ out' = OuterEnvelope(out, "handler", "BODY001")
    <3>1. Passes(out, out', "handler")
      BY <2>1, OuterEnvelopePasses DEF TypeOK, Answers, Envelopes
    <3>2. timer = "off" /\ ~out.timedOut /\ out.pieces = {}
      BY <1>1 DEF BodyLimit, Authors
    <3> QED BY <2>1, <3>1, <3>2 DEF Authors, By, Passes
  <2>2. CASE at' = Following(at) /\ at = "body-limit" /\ UNCHANGED << out, timer, route >>
    BY <2>2, FollowingFacts DEF Authors, By
  <2> QED BY <1>1, <2>1, <2>2 DEF BodyLimit
<1>2. CASE TotalTimeout
  BY <1>2, FollowingFacts DEF TotalTimeout, Authors, By, TypeOK
<1>3. CASE CORS
  <2>1. CASE at' = "finish" /\ Unlocked /\ UNCHANGED << route, timer >> /\ out' = TimeoutHead(out, "preflight")
    BY <2>1, SoundNow, TimeoutHeadSound, HandlerWrites DEF Answers, Envelopes
  <2>2. CASE at' = Following(at) /\ at = "cors" /\ UNCHANGED << out, timer, route >>
    BY <2>2, FollowingFacts DEF Authors, By
  <2> QED BY <1>3, <2>1, <2>2 DEF CORS, Screen
<1>4. CASE Auth
  <2>1. CASE at' = "finish" /\ Unlocked /\ UNCHANGED << route, timer >> /\ out' = Envelope(out, "AUTH001")
    BY <2>1, SoundNow, EnvelopeSound, HandlerWrites DEF Answers, Envelopes
  <2>2. CASE at' = Following(at) /\ at = "auth" /\ UNCHANGED << out, timer, route >>
    BY <2>2, FollowingFacts DEF Authors, By
  <2> QED BY <1>4, <2>1, <2>2 DEF Auth, Screen
<1>5. CASE RateLimit
  BY <1>5 DEF RateLimit, Authors, By, TypeOK
<1>6. CASE Refuse
  BY <1>6, SoundNow, EnvelopeSound, HandlerWrites DEF Refuse, Answers, Envelopes
<1>7. CASE Stamp
  BY <1>7, OrderFacts DEF Stamp, Authors, By, TypeOK
<1>8. CASE Plan
  BY <1>8 DEF Plan, Authors, By, TypeOK
<1>9. CASE Pick
  BY <1>9 DEF Pick, Authors, By, TypeOK
<1>10. CASE Send
  BY <1>10 DEF Send, Authors, By, TypeOK
<1>11. CASE Header
  BY <1>11, SoundNow, TimeoutHeadSound, HandlerWrites DEF Header, Located, TypeOK, Answers
<1>12. CASE Copy
  BY <1>12, SoundNow, TimeoutBodySound, HandlerWrites DEF Copy, Located, TypeOK, Answers
<1>13. CASE Report
  BY <1>13 DEF Report, Authors, By, TypeOK
<1>14. CASE Backoff
  BY <1>14 DEF Backoff, Authors, By, TypeOK
<1>15. CASE Fail
  BY <1>15, SoundNow, EnvelopeSound, HandlerWrites DEF Fail, Code, Answers, Envelopes
<1>16. CASE Failed
  BY <1>16 DEF Failed, FailedWith, Authors, By, TypeOK
<1>17. CASE Inform
  <2> DEFINE q == TimeoutHead(out, "1xx")
  <2>1. Sound(q) /\ q.started /\ q.timedOut = out.timedOut /\ (out.timedOut => q = out)
    BY SoundNow, TimeoutHeadSound
  <2> HIDE DEF q
  <2>2. out' = [q EXCEPT !.informed = TRUE] /\ at' = "await" /\ Unlocked /\ UNCHANGED << route, timer >>
    BY <1>17 DEF Inform, q
  <2>3. /\ out' \in Answer /\ out'.pieces = q.pieces /\ out'.timedOut = q.timedOut
        /\ out'.started = q.started /\ out'.capped = q.capped /\ out'.logged = q.logged
    BY <2>1, <2>2 DEF Sound, Answer
  <2>4. Sound(out')
    BY <2>1, <2>3 DEF Sound, By
  <2> QED BY <2>1, <2>2, <2>3, <2>4, HandlerWrites
<1>18. CASE Respond
  BY <1>18 DEF Respond, Authors, By, TypeOK
<1>19. CASE CopyEnds
  BY <1>19 DEF CopyEnds, Authors, By, TypeOK, Answer
<1>20. CASE CopyBreaks
  BY <1>20 DEF CopyBreaks, Authors, By, TypeOK
<1>21. CASE Upgrade
  BY <1>21 DEF Upgrade, Authors, By, TypeOK, Answer
<1>22. CASE TunnelEnds
  BY <1>22 DEF TunnelEnds, Authors, By, TypeOK
<1>23. CASE Release
  BY <1>23 DEF Release, Authors, By, TypeOK
<1>24. CASE Finish
  BY <1>24 DEF Finish, Authors, By, TypeOK, Unlocked, Answer
<1>25. CASE Close
  BY <1>25, CloseWrites
<1>26. CASE Expire
  <2>1. CASE timer' = "off" /\ UNCHANGED << out, at, route >> /\ timer = "armed"
    BY <2>1 DEF Authors, By
  <2>2. CASE /\ timer = "armed" /\ timer' = "writing" /\ ~out.started /\ UNCHANGED << at, route >>
             /\ out' = [out EXCEPT !.timedOut = TRUE, !.started = TRUE]
    <3>1. out.pieces = {} /\ route.timeout /\ at \notin {"body-limit", "total-timeout", "close", "end"}
      BY <2>2 DEF Authors
    <3>2. out'.timedOut /\ out'.started /\ out'.pieces = {}
      BY <2>2, <3>1, ExpiredFacts DEF TypeOK
    <3> QED BY <2>2, <3>1, <3>2 DEF Authors, By
  <2> QED BY <1>26, <2>1, <2>2 DEF Expire
<1>27. CASE ExpireWrites
  <2> DEFINE h == LimitHead(out, "timer", "UP004")
  <2>1. out \in Answer /\ out.timedOut /\ out.started /\ out.pieces = {} /\ route.timeout
    BY <1>27 DEF ExpireWrites, Authors, TypeOK
  <2>2. Passes(out, h, "timer") /\ h \in Answer
    BY <2>1, LimitHeadPasses DEF Passes, Answers, Envelopes
  <2> HIDE DEF h
  <2>3. /\ Passes(h, LimitBody(h, "timer", "UP004"), "timer")
        /\ LimitBody(h, "timer", "UP004").capped /\ LimitBody(h, "timer", "UP004").logged # "none"
    BY <2>2, LimitBodyPasses DEF Answers, Envelopes
  <2>4. out' = LimitBody(h, "timer", "UP004") /\ timer' = "off" /\ UNCHANGED << at, route >>
    BY <1>27 DEF ExpireWrites, h
  <2>5. Passes(out, out', "timer") /\ out'.capped /\ out'.logged # "none"
    BY <2>2, <2>3, <2>4, PassesTwice
  <2>6. at \notin {"body-limit", "total-timeout"}
    BY <2>1 DEF Authors
  <2> QED BY <2>1, <2>4, <2>5, <2>6 DEF Authors, By, Passes
<1>28. CASE Upload
  BY <1>28 DEF Upload, Authors, By, TypeOK
<1>29. CASE ClientLeaves
  BY <1>29 DEF ClientLeaves, Authors, By, TypeOK
<1>30. CASE Cancel
  BY <1>30 DEF Cancel, Authors, By, TypeOK
<1>31. CASE Deadline
  BY <1>31 DEF Deadline, Authors, By, TypeOK
<1>32. CASE Ended
  BY <1>32 DEF Ended, vars, Authors, By, TypeOK
<1> QED
  BY <1>1, <1>2, <1>3, <1>4, <1>5, <1>6, <1>7, <1>8, <1>9, <1>10, <1>11, <1>12, <1>13, <1>14, <1>15, <1>16,
     <1>17, <1>18, <1>19, <1>20, <1>21, <1>22, <1>23, <1>24, <1>25, <1>26, <1>27, <1>28, <1>29, <1>30, <1>31, <1>32
     DEF Next, Stages, Forwarding, Upstream, Leaving, Timeout, Surroundings

LEMMA MorePending ==
  ASSUME NEW D, NEW i \in D,
         NEW l \in [ pending : SUBSET D, handed : [D -> Nat], returned : BOOLEAN ]
  PROVE  [l EXCEPT !.pending = @ \cup {i}]
           \in [ pending : SUBSET D, handed : [D -> Nat], returned : BOOLEAN ]
  OBVIOUS

LEMMA TriesFacts ==
  ASSUME NEW s \in UpstreamFinal, NEW f \in {"length", "chunked"}, NEW t \in Tries
  PROVE  /\ [err |-> "retry", status |-> s, framing |-> f] \in Tries
         /\ [t EXCEPT !.status = s, !.framing = f] \in Tries
  BY DEF Tries, Causes

LEMMA TypeStep ==
  ASSUME IInv, Next
  PROVE  TypeOK'
<1> USE DEF IInv, inputs, forwarding, ghosts
<1>1. CASE BodyLimit
  BY <1>1, FollowingFacts, OuterEnvelopePasses DEF BodyLimit, TypeOK, Places, Passes, Answers, Envelopes
<1>2. CASE TotalTimeout
  BY <1>2, FollowingFacts DEF TotalTimeout, TypeOK, Places
<1>3. CASE CORS
  BY <1>3, FollowingFacts, SoundNow, TimeoutHeadSound DEF CORS, Screen, TypeOK, Places, Sound, Answers
<1>4. CASE Auth
  BY <1>4, FollowingFacts, RouteFacts, SoundNow, EnvelopeSound DEF Auth, Screen, TypeOK, Places, Sound, Answers, Envelopes
<1>5. CASE RateLimit
  <2>1. CASE limits' = ReleaseAll(limits) /\ at' = "refuse" /\ UNCHANGED << spent, turn >>
    BY <1>5, <2>1, ReleaseAllFacts DEF RateLimit, TypeOK, Places, UnitsExact
  <2>2. CASE /\ spent' = spent \cup {turn} /\ turn' = turn + 1
             /\ limits' = limits \/ limits' = [limits EXCEPT !.pending = @ \cup {turn}]
             /\ at' = "stamp" \/ at' = at
    <3>1. turn \in DOMAIN route.limiters
      BY <1>5, RouteFacts DEF RateLimit, Located, TypeOK
    <3>2. limits' \in [ pending : SUBSET DOMAIN route.limiters,
                        handed : [DOMAIN route.limiters -> Nat], returned : BOOLEAN ]
      <4>1. limits \in [ pending : SUBSET DOMAIN route.limiters,
                         handed : [DOMAIN route.limiters -> Nat], returned : BOOLEAN ]
        BY DEF TypeOK
      <4>2. [limits EXCEPT !.pending = @ \cup {turn}] \in
              [ pending : SUBSET DOMAIN route.limiters,
                handed : [DOMAIN route.limiters -> Nat], returned : BOOLEAN ]
        BY <3>1, <4>1, MorePending
      <4> QED BY <2>2, <4>1, <4>2
    <3>3. turn' \in 1 .. Len(route.limiters) + 1 /\ spent' \subseteq DOMAIN route.limiters
      <4>1. DOMAIN route.limiters = 1 .. Len(route.limiters) /\ Len(route.limiters) \in Nat
        BY RouteFacts
      <4>2. spent \subseteq DOMAIN route.limiters
        BY DEF TypeOK
      <4> QED BY <2>2, <3>1, <4>1, <4>2
    <3>4. /\ at' \in Places /\ limits'.pending \subseteq DOMAIN route.limiters
          /\ limits' \in [ pending : SUBSET DOMAIN route'.limiters,
                          handed : [DOMAIN route'.limiters -> Nat], returned : BOOLEAN ]
      BY <1>5, <2>2, <3>2 DEF RateLimit, Places
    <3> QED BY <1>5, <3>3, <3>4 DEF RateLimit, TypeOK
  <2> QED BY <1>5, <2>1, <2>2 DEF RateLimit
<1>6. CASE Refuse
  BY <1>6, SoundNow, EnvelopeSound DEF Refuse, TypeOK, Places, Sound, Answers, Envelopes
<1>7. CASE Stamp
  BY <1>7, OrderFacts DEF Stamp, TypeOK, Places
<1>8. CASE Plan
  <2>1. replay' \in BOOLEAN /\ body' \in {"unread", "read", "cut", "over"} /\ shadow' \in BOOLEAN
    BY <1>8, RouteFacts DEF Plan, MayMirror, TypeOK, RouteType, RequestType
  <2> QED BY <1>8, <2>1 DEF Plan, TypeOK, Places
<1>9. CASE Pick
  <2>1. try' \in Tries
    BY <1>9 DEF Pick, TypeOK, Tries, Causes
  <2> QED BY <1>9, <2>1 DEF Pick, TypeOK, Tries, Places
<1>10. CASE Send
  <2>1. PICK s \in {"stream", "read", "cut", "over"} : arrivals' \in {arrivals, Append(arrivals, s)}
    BY <1>10 DEF Send, TypeOK
  <2>2. try' \in Tries
    BY <1>10 DEF Send, TypeOK, Tries, Causes
  <2>3. arrivals' \in Seq({"stream", "read", "cut", "over"})
    <3>1. arrivals \in Seq({"stream", "read", "cut", "over"})
      BY DEF TypeOK
    <3> QED BY <2>1, <3>1
  <2>4. at' \in Places
    BY <1>10 DEF Send, Places
  <2> QED BY <1>10, <2>2, <2>3, <2>4 DEF Send, TypeOK, Tries
<1>11. CASE Header
  BY <1>11, SoundNow, TimeoutHeadSound, ReleaseAllFacts DEF Header, TypeOK, Places, Located, UnitsExact, Sound, Answers
<1>12. CASE Copy
  BY <1>12, SoundNow, TimeoutBodySound DEF Copy, TypeOK, Places, Located, Sound, Answers
<1>13. CASE Report
  <2>1. Outcome \in {"success", "failure", "cancelled"} /\ try.err \in Causes
    BY DEF Outcome, TypeOK
  <2>2. verdicts' \in Seq([ outcome : {"success", "failure", "cancelled"}, cause : Causes ])
    BY <1>13, <2>1 DEF Report, TypeOK
  <2> QED BY <1>13, <2>2 DEF Report, TypeOK, Places
<1>14. CASE Backoff
  <2>1. attempt' \in Nat /\ attempt' < route.attempts
    BY <1>14 DEF Backoff, Located, TypeOK
  <2>2. at' \in Places
    BY <1>14 DEF Backoff, Places
  <2> QED BY <1>14, <2>1, <2>2 DEF Backoff, TypeOK
<1>15. CASE Fail
  BY <1>15, SoundNow, EnvelopeSound, ReleaseAllFacts DEF Fail, Code, TypeOK, Places, UnitsExact, Sound, Answers, Envelopes
<1>16. CASE Failed
  <2>1. PICK e \in Causes : try' = [try EXCEPT !.err = e]
    BY <1>16 DEF Failed, FailedWith, Causes
  <2>2. try' \in Tries
    BY <2>1 DEF TypeOK, Tries
  <2> QED BY <1>16, <2>2 DEF Failed, FailedWith, TypeOK, Tries, Places
<1>17. CASE Inform
  <2> DEFINE q == TimeoutHead(out, "1xx")
  <2>1. q \in Answer
    BY SoundNow, TimeoutHeadSound DEF Sound
  <2>2. out' = [q EXCEPT !.informed = TRUE]
    BY <1>17 DEF Inform
  <2> HIDE DEF q
  <2>3. out' \in Answer
    BY <2>1, <2>2 DEF Answer
  <2> QED BY <1>17, <2>3, ReleaseAllFacts DEF Inform, TypeOK, UnitsExact
<1>18. CASE Respond
  <2>1. PICK s \in UpstreamFinal, f \in {"length", "chunked"} :
          \/ try' = [err |-> "retry", status |-> s, framing |-> f]
          \/ try' = [try EXCEPT !.status = s, !.framing = f]
    BY <1>18 DEF Respond
  <2>2. try' \in Tries
    <3>1. try \in Tries
      BY DEF TypeOK, Tries
    <3>2. /\ [err |-> "retry", status |-> s, framing |-> f] \in Tries
          /\ [try EXCEPT !.status = s, !.framing = f] \in Tries
      BY <3>1, TriesFacts
    <3> QED BY <2>1, <3>2, Zenon
  <2> QED BY <1>18, <2>2 DEF Respond, TypeOK, Tries, Places
<1>19. CASE CopyEnds
  <2>1. out' \in Answer
    BY <1>19 DEF CopyEnds, TypeOK, Answer
  <2> QED BY <1>19, <2>1 DEF CopyEnds, TypeOK, Places
<1>20. CASE CopyBreaks
  BY <1>20 DEF CopyBreaks, TypeOK, Places
<1>21. CASE Upgrade
  <2>1. out' \in Answer
    BY <1>21 DEF Upgrade, TypeOK, Answer
  <2>2. try' \in Tries
    BY <1>21 DEF Upgrade, TypeOK, Tries, UpstreamFinal, Causes
  <2> QED BY <1>21, <2>1, <2>2, ReleaseAllFacts DEF Upgrade, TypeOK, Tries, Places, UnitsExact
<1>22. CASE TunnelEnds
  BY <1>22 DEF TunnelEnds, TypeOK, Places
<1>23. CASE Release
  BY <1>23, ReleaseAllFacts DEF Release, TypeOK, Places, UnitsExact
<1>24. CASE Finish
  <2>1. out' \in Answer
    BY <1>24 DEF Finish, TypeOK, Answer
  <2> QED BY <1>24, <2>1 DEF Finish, TypeOK, Places
<1>25. CASE Close
  <2>1. out' \in Answer
    BY <1>25, CloseWrites
  <2> QED BY <1>25, <2>1 DEF Close, TypeOK, Places
<1>26. CASE Expire
  <2>1. out' \in {out, [out EXCEPT !.timedOut = TRUE, !.started = TRUE]}
    BY <1>26 DEF Expire
  <2>2. out' \in Answer
    BY <2>1, ExpiredFacts DEF TypeOK
  <2> QED BY <1>26, <2>2 DEF Expire, TypeOK
<1>27. CASE ExpireWrites
  <2>1. LimitHead(out, "timer", "UP004") \in Answer
    BY LimitHeadPasses DEF TypeOK, Passes, Answers, Envelopes
  <2>2. out' \in Answer
    BY <1>27, <2>1, LimitBodyPasses DEF ExpireWrites, Passes, Answers, Envelopes
  <2> QED BY <1>27, <2>2 DEF ExpireWrites, TypeOK
<1>28. CASE Upload
  BY <1>28 DEF Upload, TypeOK
<1>29. CASE ClientLeaves
  BY <1>29 DEF ClientLeaves, TypeOK
<1>30. CASE Cancel
  BY <1>30 DEF Cancel, TypeOK
<1>31. CASE Deadline
  BY <1>31 DEF Deadline, TypeOK
<1>32. CASE Ended
  BY <1>32 DEF Ended, vars, TypeOK
<1> QED
  BY <1>1, <1>2, <1>3, <1>4, <1>5, <1>6, <1>7, <1>8, <1>9, <1>10, <1>11, <1>12, <1>13, <1>14, <1>15, <1>16,
     <1>17, <1>18, <1>19, <1>20, <1>21, <1>22, <1>23, <1>24, <1>25, <1>26, <1>27, <1>28, <1>29, <1>30, <1>31, <1>32
     DEF Next, Stages, Forwarding, Upstream, Leaving, Timeout, Surroundings

LEMMA InitIInv ==
  ASSUME Init
  PROVE  IInv
<1>1. route \in RouteType /\ req \in RequestType
  BY ExchangeAssumption DEF Init
<1>2. at = "body-limit"
  BY DEF Init, Order
<1>3. NoAnswer \in Answer
  BY DEF NoAnswer, Answer
<1>4. /\ try \in Tries /\ out \in Answer
      /\ limits.pending = {} /\ limits \in [ pending : SUBSET DOMAIN route.limiters,
                                             handed : [DOMAIN route.limiters -> Nat],
                                             returned : BOOLEAN ]
  BY <1>3 DEF Init, Tries, Causes
<1>5. turn \in 1 .. Len(route.limiters) + 1 /\ attempt \in Nat /\ attempt < route.attempts
  BY <1>1 DEF Init, RouteType
<1>6. arrivals \in Seq({"stream", "read", "cut", "over"}) /\ verdicts = << >>
  BY DEF Init
<1>7. TypeOK
  <2>1. verdicts \in Seq([ outcome : {"success", "failure", "cancelled"}, cause : Causes ])
    BY <1>6
  <2> QED BY <1>2, <1>4, <1>5, <1>6, <2>1 DEF Init, TypeOK, Tries, Places
<1>8. Located /\ UnitsExact
  BY <1>2 DEF Init, Located, UnitsExact, UnitsReturned, Before
<1>9. Authors /\ ReportedOnce
  BY <1>2 DEF Init, Authors, By, NoAnswer, ReportedOnce
<1> QED BY <1>7, <1>8, <1>9 DEF IInv

LEMMA StutterIInv ==
  ASSUME IInv, UNCHANGED vars
  PROVE  IInv'
  BY DEF vars, IInv, TypeOK, Located, UnitsExact, UnitsReturned, Authors, By, ReportedOnce, Outcome,
         Unlocked

(* The invariant holds in every state, for all routes and requests. *)
THEOREM Invariance == Spec => []IInv
<1>1. Init => IInv
  BY InitIInv
<1>2. IInv /\ [Next]_vars => IInv'
  <2> SUFFICES ASSUME IInv, [Next]_vars
               PROVE  IInv'
    OBVIOUS
  <2>1. CASE Next
    BY <2>1, TypeStep, LocatedStep, UnitsStep, AuthorsStep, ReportedStep DEF IInv
  <2>2. CASE UNCHANGED vars
    BY <2>2, StutterIInv
  <2> QED BY <2>1, <2>2
<1> QED BY <1>1, <1>2, PTL DEF Spec

(* The variables keep their types. *)
THEOREM TypeCorrect == Spec => []TypeOK
<1>1. IInv => TypeOK
  BY DEF IInv
<1> QED BY <1>1, Invariance, PTL

(* ratelimit.go: on every way out of the stage, by any number of limiters, *)
(* the units of a request are handed back, once.                           *)
THEOREM UnitsAreReturned == Spec => []UnitsReturned
<1>1. IInv => UnitsReturned
  BY DEF IInv, UnitsExact
<1> QED BY <1>1, Invariance, PTL

(* totaltimeout.go: an answer's bytes come from the handler or from the    *)
(* timer, never from both, whenever the deadline passes.                   *)
THEOREM AnswersHaveOneAuthor == Spec => []OneAuthor
<1>1. IInv => OneAuthor
  BY DEF IInv, Authors, By, OneAuthor
<1> QED BY <1>1, Invariance, PTL

(* forward.go: with any number of attempts, each picked target hears back  *)
(* once, but for the one whose response broke off.                         *)
THEOREM AttemptsAreReported == Spec => []ReportedOnce
<1>1. IInv => ReportedOnce
  BY DEF IInv
<1> QED BY <1>1, Invariance, PTL

-----------------------------------------------------------------------------
(* What SentRightly rests on, relative to IInv. *)
(* Behind the stages: where a request can only be once no stage has        *)
(* refused it.                                                             *)
Forwards == {"plan", "pick", "send", "await", "header", "copy", "tunnel", "report", "backoff",
             "fail"}

TooBig == route.cap /\ req.upload \in {"small", "large"} /\ ~req.fits

Screened ==
  /\ at \in (Before \ {"body-limit"}) \cup {"stamp"} \cup Forwards => ~TooBig
  /\ at \in {"auth", "rate-limit", "stamp"} \cup Forwards => ~(route.cors /\ req.preflight)
  /\ at \in {"rate-limit", "stamp"} \cup Forwards => (route.auth => req.credential)
  /\ at \in Before \ {"rate-limit"} => spent = {}
  /\ at = "rate-limit" => spent = 1 .. turn - 1
  /\ at \in {"stamp"} \cup Forwards => spent = DOMAIN route.limiters

(* What a further attempt needs is there as soon as there is one, and no   *)
(* attempt sends the request twice.                                        *)
Repeatable ==
  /\ req.upload = "none" => body = "read"
  /\ replay => body = "read" /\ req.upload \in {"none", "small"}
  /\ attempt > 0 \/ at = "backoff" => req.idempotent /\ replay
  /\ at \in Before \cup {"stamp", "plan"} => attempt = 0
  /\ Len(arrivals) <= attempt + 1
  /\ at \in Before \cup {"stamp", "plan", "pick", "send"} => Len(arrivals) <= attempt

(* Until an attempt's answer is passed on, the client has been sent        *)
(* nothing; and the deadline's answer is only sent once the context is     *)
(* done.                                                                   *)
Quiet(o) == o.status = "none" /\ o.pieces = {}

Waiting ==
  \/ at \in Before \cup {"stamp", "plan"}
  \/ replay /\ at \in {"pick", "send", "await", "backoff"}
  \/ replay /\ at = "report" /\ try.err # "none"

(* Where the loop does not come back from. *)
Answered == {"refuse", "fail", "release", "finish", "close", "end"}

Unanswered ==
  /\ at \in {"send", "await", "header", "copy", "tunnel"} => try.err = "none"
  /\ timer = "writing" => ctx # "live"
  /\ ctx = "live" /\ Waiting => Quiet(out)
  /\ at \notin Answered => \A i \in DOMAIN verdicts : verdicts[i].cause # "none"

SentInv == IInv /\ Screened /\ Repeatable /\ Unanswered

LEMMA ScreenedStep ==
  ASSUME IInv, Screened, Next
  PROVE  Screened'
<1> USE DEF IInv, inputs, forwarding, ghosts
<1>1. CASE BodyLimit
  BY <1>1, FollowingFacts DEF BodyLimit, Screened, Before, Forwards, TooBig
<1>2. CASE TotalTimeout
  BY <1>2, FollowingFacts DEF TotalTimeout, Screened, Before, Forwards, TooBig
<1>3. CASE CORS
  BY <1>3, FollowingFacts DEF CORS, Screen, Screened, Before, Forwards, TooBig
<1>4. CASE Auth
  <2>1. turn = 1 /\ spent = {} /\ at = "auth"
    BY <1>4 DEF Auth, Screen, Located, Screened, Before
  <2>2. route.limiters = << >> => DOMAIN route.limiters = {}
    OBVIOUS
  <2>3. 1 .. turn - 1 = {}
    BY <2>1
  <2> QED BY <1>4, <2>1, <2>2, <2>3, FollowingFacts DEF Auth, Screen, Screened, Before, Forwards, TooBig
<1>5. CASE RateLimit
  <2>1. /\ at = "rate-limit" /\ spent = 1 .. turn - 1
        /\ turn \in Nat \ {0} /\ Len(route.limiters) \in Nat
        /\ DOMAIN route.limiters = 1 .. Len(route.limiters)
    BY <1>5, RouteFacts DEF RateLimit, Screened, TypeOK
  <2>2. spent \cup {turn} = 1 .. turn /\ (turn + 1) - 1 = turn
    BY <2>1
  <2> QED BY <1>5, <2>1, <2>2 DEF RateLimit, Screened, Before, Forwards, TooBig
<1>6. CASE Refuse
  BY <1>6 DEF Refuse, Screened, Before, Forwards, TooBig
<1>7. CASE Stamp
  BY <1>7, OrderFacts DEF Stamp, Screened, Before, Forwards, TooBig
<1>8. CASE Plan
  BY <1>8 DEF Plan, Screened, Before, Forwards, TooBig
<1>9. CASE Pick
  BY <1>9 DEF Pick, Screened, Before, Forwards, TooBig
<1>10. CASE Send
  BY <1>10 DEF Send, Screened, Before, Forwards, TooBig
<1>11. CASE Header
  BY <1>11 DEF Header, Screened, Before, Forwards, TooBig
<1>12. CASE Copy
  BY <1>12 DEF Copy, Screened, Before, Forwards, TooBig
<1>13. CASE Report
  BY <1>13 DEF Report, Screened, Before, Forwards, TooBig
<1>14. CASE Backoff
  BY <1>14 DEF Backoff, Screened, Before, Forwards, TooBig
<1>15. CASE Fail
  BY <1>15 DEF Fail, Screened, Before, Forwards, TooBig
<1>16. CASE Failed
  BY <1>16 DEF Failed, FailedWith, Screened, Before, Forwards, TooBig
<1>17. CASE Inform
  BY <1>17 DEF Inform, Screened, Before, Forwards, TooBig
<1>18. CASE Respond
  BY <1>18 DEF Respond, Screened, Before, Forwards, TooBig
<1>19. CASE CopyEnds
  BY <1>19 DEF CopyEnds, Screened, Before, Forwards, TooBig
<1>20. CASE CopyBreaks
  BY <1>20 DEF CopyBreaks, Screened, Before, Forwards, TooBig
<1>21. CASE Upgrade
  BY <1>21 DEF Upgrade, Screened, Before, Forwards, TooBig
<1>22. CASE TunnelEnds
  BY <1>22 DEF TunnelEnds, Screened, Before, Forwards, TooBig
<1>23. CASE Release
  BY <1>23 DEF Release, Screened, Before, Forwards, TooBig
<1>24. CASE Finish
  BY <1>24 DEF Finish, Screened, Before, Forwards, TooBig
<1>25. CASE Close
  BY <1>25 DEF Close, Screened, Before, Forwards, TooBig
<1>26. CASE Expire
  BY <1>26 DEF Expire, Screened, Before, Forwards, TooBig
<1>27. CASE ExpireWrites
  BY <1>27 DEF ExpireWrites, Screened, Before, Forwards, TooBig
<1>28. CASE Upload
  BY <1>28 DEF Upload, Screened, Before, Forwards, TooBig
<1>29. CASE ClientLeaves
  BY <1>29 DEF ClientLeaves, Screened, Before, Forwards, TooBig
<1>30. CASE Cancel
  BY <1>30 DEF Cancel, Screened, Before, Forwards, TooBig
<1>31. CASE Deadline
  BY <1>31 DEF Deadline, Screened, Before, Forwards, TooBig
<1>32. CASE Ended
  BY <1>32 DEF Ended, vars, Screened, Before, Forwards, TooBig
<1> QED
  BY <1>1, <1>2, <1>3, <1>4, <1>5, <1>6, <1>7, <1>8, <1>9, <1>10, <1>11, <1>12, <1>13, <1>14, <1>15, <1>16,
     <1>17, <1>18, <1>19, <1>20, <1>21, <1>22, <1>23, <1>24, <1>25, <1>26, <1>27, <1>28, <1>29, <1>30, <1>31, <1>32
     DEF Next, Stages, Forwarding, Upstream, Leaving, Timeout, Surroundings

LEMMA RepeatableStep ==
  ASSUME IInv, Repeatable, Next
  PROVE  Repeatable'
<1> USE DEF IInv, inputs, forwarding, ghosts
<1>0. attempt \in Nat /\ Len(arrivals) \in Nat
  BY DEF TypeOK
<1>1. CASE BodyLimit
  BY <1>1, <1>0, FollowingFacts DEF BodyLimit, Repeatable, Before
<1>2. CASE TotalTimeout
  BY <1>2, <1>0, FollowingFacts DEF TotalTimeout, Repeatable, Before
<1>3. CASE CORS
  BY <1>3, <1>0, FollowingFacts DEF CORS, Screen, Repeatable, Before
<1>4. CASE Auth
  BY <1>4, <1>0, FollowingFacts DEF Auth, Screen, Repeatable, Before
<1>5. CASE RateLimit
  BY <1>5, <1>0 DEF RateLimit, Repeatable, Before
<1>6. CASE Refuse
  BY <1>6, <1>0 DEF Refuse, Repeatable, Before
<1>7. CASE Stamp
  BY <1>7, <1>0, OrderFacts DEF Stamp, Repeatable, Before
<1>8. CASE Plan
  BY <1>8, <1>0 DEF Plan, Repeatable, Before
<1>9. CASE Pick
  BY <1>9, <1>0 DEF Pick, Repeatable, Before
<1>10. CASE Send
  <2>1. Len(arrivals') \in {Len(arrivals), Len(arrivals) + 1} /\ at' # "send"
    BY <1>10 DEF Send, TypeOK
  <2> QED BY <1>10, <1>0, <2>1 DEF Send, Repeatable, Before
<1>11. CASE Header
  BY <1>11, <1>0 DEF Header, Repeatable, Before
<1>12. CASE Copy
  BY <1>12, <1>0 DEF Copy, Repeatable, Before
<1>13. CASE Report
  BY <1>13, <1>0 DEF Report, Repeatable, Before, WillRetry
<1>14. CASE Backoff
  BY <1>14, <1>0 DEF Backoff, Repeatable, Before
<1>15. CASE Fail
  BY <1>15, <1>0 DEF Fail, Repeatable, Before
<1>16. CASE Failed
  BY <1>16, <1>0 DEF Failed, FailedWith, Repeatable, Before
<1>17. CASE Inform
  BY <1>17, <1>0 DEF Inform, Repeatable, Before
<1>18. CASE Respond
  BY <1>18, <1>0 DEF Respond, Repeatable, Before
<1>19. CASE CopyEnds
  BY <1>19, <1>0 DEF CopyEnds, Repeatable, Before
<1>20. CASE CopyBreaks
  BY <1>20, <1>0 DEF CopyBreaks, Repeatable, Before
<1>21. CASE Upgrade
  BY <1>21, <1>0 DEF Upgrade, Repeatable, Before
<1>22. CASE TunnelEnds
  BY <1>22, <1>0 DEF TunnelEnds, Repeatable, Before
<1>23. CASE Release
  BY <1>23, <1>0 DEF Release, Repeatable, Before
<1>24. CASE Finish
  BY <1>24, <1>0 DEF Finish, Repeatable, Before
<1>25. CASE Close
  BY <1>25, <1>0 DEF Close, Repeatable, Before
<1>26. CASE Expire
  BY <1>26, <1>0 DEF Expire, Repeatable, Before
<1>27. CASE ExpireWrites
  BY <1>27, <1>0 DEF ExpireWrites, Repeatable, Before
<1>28. CASE Upload
  BY <1>28, <1>0 DEF Upload, Repeatable, Before
<1>29. CASE ClientLeaves
  BY <1>29, <1>0 DEF ClientLeaves, Repeatable, Before
<1>30. CASE Cancel
  BY <1>30, <1>0 DEF Cancel, Repeatable, Before
<1>31. CASE Deadline
  BY <1>31, <1>0 DEF Deadline, Repeatable, Before
<1>32. CASE Ended
  BY <1>32, <1>0 DEF Ended, vars, Repeatable, Before
<1> QED
  BY <1>1, <1>2, <1>3, <1>4, <1>5, <1>6, <1>7, <1>8, <1>9, <1>10, <1>11, <1>12, <1>13, <1>14, <1>15, <1>16,
     <1>17, <1>18, <1>19, <1>20, <1>21, <1>22, <1>23, <1>24, <1>25, <1>26, <1>27, <1>28, <1>29, <1>30, <1>31, <1>32
     DEF Next, Stages, Forwarding, Upstream, Leaving, Timeout, Surroundings

(* An informational response is passed on without a status and without     *)
(* bytes, unless the body limit refuses the body instead.                  *)
LEMMA InformedQuietly ==
  ASSUME NEW o \in Answer, Quiet(o), body # "over"
  PROVE  Quiet(TimeoutHead(o, "1xx"))
<1>1. ~TooLarge([o EXCEPT !.started = TRUE])
  BY DEF TooLarge
<1>2. \A q \in Answer : Quiet(q) => Quiet(CaptureHead(q, "1xx"))
  BY DEF CaptureHead, ServerHead, Quiet, Answer
<1>3. /\ Quiet([o EXCEPT !.started = TRUE]) /\ [o EXCEPT !.started = TRUE] \in Answer
      /\ \A q \in Answer : Quiet(q) => [q EXCEPT !.capped = TRUE] \in Answer
                                        /\ Quiet([q EXCEPT !.capped = TRUE])
  BY DEF Quiet, Answer
<1> QED BY <1>1, <1>2, <1>3 DEF TimeoutHead, LimitHead

LEMMA UnansweredStep ==
  ASSUME IInv, Repeatable, Unanswered, Next
  PROVE  Unanswered'
<1> USE DEF IInv, inputs, forwarding, ghosts
<1>1. CASE BodyLimit
  BY <1>1, FollowingFacts DEF BodyLimit, Unanswered, Waiting, Before, Answered
<1>2. CASE TotalTimeout
  BY <1>2, FollowingFacts DEF TotalTimeout, Unanswered, Waiting, Before, Answered
<1>3. CASE CORS
  BY <1>3, FollowingFacts DEF CORS, Screen, Unanswered, Waiting, Before, Answered
<1>4. CASE Auth
  BY <1>4, FollowingFacts DEF Auth, Screen, Unanswered, Waiting, Before, Answered
<1>5. CASE RateLimit
  BY <1>5 DEF RateLimit, Unanswered, Waiting, Before, Answered
<1>6. CASE Refuse
  BY <1>6 DEF Refuse, Unanswered, Waiting, Before, Answered
<1>7. CASE Stamp
  BY <1>7, OrderFacts DEF Stamp, Unanswered, Waiting, Before, Answered
<1>8. CASE Plan
  BY <1>8 DEF Plan, Unanswered, Waiting, Before, Answered
<1>9. CASE Pick
  BY <1>9 DEF Pick, Unanswered, Waiting, Before, Answered, TypeOK
<1>10. CASE Send
  BY <1>10 DEF Send, Unanswered, Waiting, Before, Answered, TypeOK
<1>11. CASE Header
  BY <1>11 DEF Header, Unanswered, Waiting, Before, Answered
<1>12. CASE Copy
  BY <1>12 DEF Copy, Unanswered, Waiting, Before, Answered
<1>13. CASE Report
  <2>1. try.err # "none" /\ at \notin Answered =>
          \A i \in DOMAIN verdicts' : verdicts'[i].cause # "none"
    BY <1>13 DEF Report, Unanswered, TypeOK
  <2> QED BY <1>13, <2>1 DEF Report, Unanswered, Waiting, Before, Answered, WillRetry
<1>14. CASE Backoff
  BY <1>14 DEF Backoff, Unanswered, Waiting, Before, Answered
<1>15. CASE Fail
  BY <1>15 DEF Fail, Unanswered, Waiting, Before, Answered
<1>16. CASE Failed
  BY <1>16 DEF Failed, FailedWith, Unanswered, Waiting, Before, Answered, Causes
<1>17. CASE Inform
  <2> DEFINE q == TimeoutHead(out, "1xx")
  <2>1. out \in Answer /\ q \in Answer
    BY SoundNow, TimeoutHeadSound DEF Sound
  <2>2. replay /\ Quiet(out) => Quiet(q)
    BY <2>1, InformedQuietly DEF Repeatable
  <2>3. out' = [q EXCEPT !.informed = TRUE]
    BY <1>17 DEF Inform
  <2> HIDE DEF q
  <2>4. replay /\ Quiet(out) => Quiet(out')
    BY <2>1, <2>2, <2>3 DEF Quiet, Answer
  <2> QED BY <1>17, <2>4 DEF Inform, Unanswered, Waiting, Before, Answered
<1>18. CASE Respond
  BY <1>18 DEF Respond, TypeOK, Unanswered, Waiting, Before, Answered
<1>19. CASE CopyEnds
  BY <1>19 DEF CopyEnds, Unanswered, Waiting, Before, Answered
<1>20. CASE CopyBreaks
  BY <1>20 DEF CopyBreaks, Unanswered, Waiting, Before, Answered
<1>21. CASE Upgrade
  <2>1. Quiet(out) => Quiet(out')
    BY <1>21 DEF Upgrade, Quiet, TypeOK, Answer
  <2>2. CASE at' = "tunnel"
    <3>1. try'.err = try.err
      BY <1>21, <2>2 DEF Upgrade, TypeOK
    <3> QED BY <1>21, <2>2, <3>1 DEF Upgrade, Unanswered, Waiting, Before, Answered
  <2>3. CASE at' = "report"
    BY <1>21, <2>1, <2>3 DEF Upgrade, Unanswered, Waiting, Before, Answered
  <2> QED BY <1>21, <2>2, <2>3 DEF Upgrade
<1>22. CASE TunnelEnds
  BY <1>22 DEF TunnelEnds, Unanswered, Waiting, Before, Answered
<1>23. CASE Release
  BY <1>23 DEF Release, Unanswered, Waiting, Before, Answered
<1>24. CASE Finish
  BY <1>24 DEF Finish, Unanswered, Waiting, Before, Answered
<1>25. CASE Close
  BY <1>25 DEF Close, Unanswered, Waiting, Before, Answered
<1>26. CASE Expire
  BY <1>26 DEF Expire, Unanswered, Waiting, Before, Answered
<1>27. CASE ExpireWrites
  BY <1>27 DEF ExpireWrites, Unanswered, Waiting, Before, Answered
<1>28. CASE Upload
  BY <1>28 DEF Upload, Unanswered, Waiting, Before, Answered
<1>29. CASE ClientLeaves
  BY <1>29 DEF ClientLeaves, Unanswered, Waiting, Before, Answered
<1>30. CASE Cancel
  BY <1>30 DEF Cancel, Unanswered, Waiting, Before, Answered
<1>31. CASE Deadline
  BY <1>31 DEF Deadline, Unanswered, Waiting, Before, Answered
<1>32. CASE Ended
  BY <1>32 DEF Ended, vars, Unanswered, Waiting, Before, Answered
<1> QED
  BY <1>1, <1>2, <1>3, <1>4, <1>5, <1>6, <1>7, <1>8, <1>9, <1>10, <1>11, <1>12, <1>13, <1>14, <1>15, <1>16,
     <1>17, <1>18, <1>19, <1>20, <1>21, <1>22, <1>23, <1>24, <1>25, <1>26, <1>27, <1>28, <1>29, <1>30, <1>31, <1>32
     DEF Next, Stages, Forwarding, Upstream, Leaving, Timeout, Surroundings

LEMMA InitSentInv ==
  ASSUME Init
  PROVE  SentInv
<1>1. at = "body-limit" /\ turn = 1 /\ attempt = 0
  BY DEF Init, Order
<1>2. Screened /\ Repeatable /\ Unanswered
  BY <1>1 DEF Init, Screened, Repeatable, Unanswered, Waiting, Quiet, NoAnswer, Before, Forwards,
              Answered
<1> QED BY <1>2, InitIInv DEF SentInv

(* Only an attempt adds an arrival, and only a live one; only the first    *)
(* step of the forwarder picks a mirror target.                            *)
LEMMA OnlySendArrives ==
  ASSUME Next
  PROVE  /\ arrivals' # arrivals => at = "send" /\ ctx = "live"
         /\ shadow' # shadow => at = "plan"
  BY DEF Next, Stages, Forwarding, Upstream, Leaving, Timeout, Surroundings, inputs, forwarding,
         ghosts, vars, BodyLimit, TotalTimeout, CORS, Auth, Screen, RateLimit, Refuse, Stamp, Plan,
         Pick, Send, Header, Copy, Report, Backoff, Fail, Failed, FailedWith, Inform, Respond,
         CopyEnds, CopyBreaks, Upgrade, TunnelEnds, Release, Finish, Close, Expire, ExpireWrites,
         Upload, ClientLeaves, Cancel, Deadline, Ended

LEMMA StutterSentInv ==
  ASSUME SentInv, UNCHANGED vars
  PROVE  SentInv'
<1>1. Screened' /\ Repeatable' /\ Unanswered'
  BY DEF SentInv, Screened, Repeatable, Unanswered, Waiting, Quiet, TooBig, vars
<1> QED BY <1>1, StutterIInv DEF SentInv

LEMMA SentInvStep ==
  ASSUME SentInv, Next
  PROVE  SentInv'
<1>1. IInv'
  BY TypeStep, LocatedStep, UnitsStep, AuthorsStep, ReportedStep DEF SentInv, IInv
<1> QED BY <1>1, ScreenedStep, RepeatableStep, UnansweredStep DEF SentInv

(* order.go, forward.go: whatever the route's stages and however many      *)
(* attempts it allows, nothing is sent past a stage that refuses, and      *)
(* nothing is sent again that must not be.                                 *)
THEOREM SentOnlyRightly == Spec => SentRightly
<1> DEFINE Rightly ==
      /\ arrivals' # arrivals \/ shadow' # shadow =>
           /\ route.auth => req.credential
           /\ ~(route.cors /\ req.preflight)
           /\ route.cap /\ req.upload \in {"small", "large"} => req.fits
           /\ spent = DOMAIN route.limiters
      /\ arrivals' # arrivals /\ arrivals # << >> =>
           /\ req.idempotent
           /\ body = "read" /\ req.upload \in {"none", "small"}
           /\ out.status = "none" /\ out.pieces = {}
           /\ \A i \in DOMAIN verdicts : verdicts[i].cause # "none"
           /\ Len(arrivals) < route.attempts
<1>1. Init => SentInv
  BY InitSentInv
<1>2. SentInv /\ [Next]_vars => SentInv' /\ [Rightly]_vars
  <2> SUFFICES ASSUME SentInv, [Next]_vars
               PROVE  SentInv' /\ [Rightly]_vars
    OBVIOUS
  <2>1. CASE UNCHANGED vars
    BY <2>1, StutterSentInv
  <2>2. CASE Next
    <3>1. arrivals' # arrivals \/ shadow' # shadow => at \in {"send", "plan"}
      BY <2>2, OnlySendArrives
    <3>2. at \in {"send", "plan"} =>
            /\ route.auth => req.credential
            /\ ~(route.cors /\ req.preflight)
            /\ route.cap /\ req.upload \in {"small", "large"} => req.fits
            /\ spent = DOMAIN route.limiters
      BY DEF SentInv, Screened, Forwards, TooBig
    <3>3. ASSUME arrivals' # arrivals, arrivals # << >>
          PROVE  /\ req.idempotent
                 /\ body = "read" /\ req.upload \in {"none", "small"}
                 /\ out.status = "none" /\ out.pieces = {}
                 /\ \A i \in DOMAIN verdicts : verdicts[i].cause # "none"
                 /\ Len(arrivals) < route.attempts
      <4>1. at = "send" /\ ctx = "live"
        BY <2>2, <3>3, OnlySendArrives
      <4>2. /\ Len(arrivals) \in Nat /\ Len(arrivals) # 0
            /\ attempt \in Nat /\ route.attempts \in Nat /\ attempt < route.attempts
        BY <3>3, RouteFacts DEF SentInv, IInv, TypeOK
      <4>3. Len(arrivals) <= attempt
        BY <4>1 DEF SentInv, Repeatable
      <4>4. req.idempotent /\ replay
        BY <4>2, <4>3 DEF SentInv, Repeatable
      <4>5. body = "read" /\ req.upload \in {"none", "small"}
        BY <4>4 DEF SentInv, Repeatable
      <4>6. Quiet(out)
        BY <4>1, <4>4 DEF SentInv, Unanswered, Waiting
      <4>7. \A i \in DOMAIN verdicts : verdicts[i].cause # "none"
        BY <4>1 DEF SentInv, Unanswered, Answered
      <4> QED BY <4>2, <4>3, <4>4, <4>5, <4>6, <4>7 DEF Quiet
    <3> QED BY <2>2, <3>1, <3>2, <3>3, SentInvStep
  <2> QED BY <2>1, <2>2
<1> QED BY <1>1, <1>2, PTL DEF Spec, SentRightly

-----------------------------------------------------------------------------
(* The access line's status is the one the client was sent. *)
Agrees(o) == ~o.informed /\ ~o.hijacked => o.logged = o.status

(* Wherever the answer must have begun, the access line's writer knows it: *)
(* once the writers inside of it have noted that it has, after an answer   *)
(* was passed on, and, where there is one attempt, on every way out.       *)
Accountable ==
  /\ at # "end" => Agrees(out)
  /\ at = "end" /\ ~out.informed /\ ~out.hijacked => out.line = out.status
  /\ out.capped => out.logged # "none"
  /\ out.started /\ timer # "writing" => out.logged # "none"
  /\ broken \/ at = "copy" => out.logged # "none"
  /\ at = "tunnel" => out.hijacked
  /\ at = "report" /\ try.err = "none" => out.logged # "none" \/ out.hijacked
  /\ route.attempts = 1 /\ at \in {"release", "finish", "close", "end"} =>
       out.logged # "none" \/ out.hijacked

AccountedInv == IInv /\ Accountable

(* The writers keep what the access line will say in step with what the    *)
(* server sends.                                                           *)
Follows(o, q) ==
  /\ q \in Answer /\ q.informed = o.informed /\ q.hijacked = o.hijacked
  /\ Agrees(o) => Agrees(q)

LEMMA FollowsTwice ==
  ASSUME NEW o, NEW q, NEW r, Follows(o, q), Follows(q, r)
  PROVE  Follows(o, r)
  BY DEF Follows

LEMMA FollowsItself ==
  ASSUME NEW o \in Answer
  PROVE  Follows(o, o)
  BY DEF Follows

(* Notes that an answer has begun are not what the client is sent. *)
LEMMA NotesFollow ==
  ASSUME NEW o \in Answer
  PROVE  /\ Follows(o, [o EXCEPT !.capped = TRUE])
         /\ Follows(o, [o EXCEPT !.denied = TRUE, !.capped = TRUE])
         /\ Follows(o, [o EXCEPT !.started = TRUE])
         /\ Follows(o, [o EXCEPT !.timedOut = TRUE, !.started = TRUE])
         /\ Follows(o, [o EXCEPT !.whole = TRUE])
         /\ Follows(o, [o EXCEPT !.finished = TRUE])
<1>1. Follows(o, [o EXCEPT !.capped = TRUE])
  BY DEF Follows, Agrees, Answer
<1>2. Follows(o, [o EXCEPT !.denied = TRUE, !.capped = TRUE])
  BY DEF Follows, Agrees, Answer
<1>3. Follows(o, [o EXCEPT !.started = TRUE])
  BY DEF Follows, Agrees, Answer
<1>4. Follows(o, [o EXCEPT !.timedOut = TRUE, !.started = TRUE])
  BY DEF Follows, Agrees, Answer
<1>5. Follows(o, [o EXCEPT !.whole = TRUE])
  BY DEF Follows, Agrees, Answer
<1>6. Follows(o, [o EXCEPT !.finished = TRUE])
  BY DEF Follows, Agrees, Answer
<1> QED BY <1>1, <1>2, <1>3, <1>4, <1>5, <1>6

LEMMA CaptureHeadFollows ==
  ASSUME NEW o \in Answer, NEW a \in Answers
  PROVE  Follows(o, CaptureHead(o, a))
<1> DEFINE q == [o EXCEPT !.logged = a]
<1>1. a # "1xx" /\ a # "none"
  BY DEF Answers, UpstreamFinal, Envelopes
<1>2. /\ q \in Answer /\ q.logged = a /\ q.status = o.status
      /\ q.informed = o.informed /\ q.hijacked = o.hijacked
  BY DEF Answer
<1>3. CASE o.logged # "none"
  BY <1>3, FollowsItself DEF CaptureHead
<1>4. CASE o.logged = "none" /\ (q.status # "none" \/ q.hijacked)
  <2>1. CaptureHead(o, a) = q
    BY <1>4 DEF CaptureHead, ServerHead
  <2> HIDE DEF q
  <2> QED BY <1>2, <1>4, <2>1 DEF Follows, Agrees
<1>5. CASE o.logged = "none" /\ ~(q.status # "none" \/ q.hijacked)
  <2>1. CaptureHead(o, a) = [q EXCEPT !.status = a]
    BY <1>1, <1>5 DEF CaptureHead, ServerHead
  <2> HIDE DEF q
  <2>2. /\ [q EXCEPT !.status = a] \in Answer
        /\ [q EXCEPT !.status = a].status = a /\ [q EXCEPT !.status = a].logged = q.logged
        /\ [q EXCEPT !.status = a].informed = q.informed
        /\ [q EXCEPT !.status = a].hijacked = q.hijacked
    BY <1>2 DEF Answer
  <2> QED BY <1>2, <2>1, <2>2 DEF Follows, Agrees
<1> QED BY <1>3, <1>4, <1>5

LEMMA CaptureBodyFollows ==
  ASSUME NEW o \in Answer, NEW a \in Answers, NEW by \in {"handler", "timer"}
  PROVE  Follows(o, CaptureBody(o, by, a))
<1> DEFINE h == CaptureHead(o, "ok")
           s == ServerHead(h, "ok")
           q == [s EXCEPT !.pieces = @ \cup {[by |-> by, of |-> a]}]
<1>1. Follows(o, h) /\ h.logged # "none"
  BY CaptureHeadFollows, CaptureHeadPasses DEF Answers, UpstreamFinal
<1>2. CaptureBody(o, by, a) = IF h.hijacked THEN h ELSE q
  BY DEF CaptureBody, ServerBody
<1> HIDE DEF h
<1>3. CASE h.hijacked
  BY <1>1, <1>2, <1>3
<1>4. CASE ~h.hijacked
  <2>1. h \in Answer
    BY <1>1 DEF Follows
  <2>2. /\ s \in Answer /\ s.logged = h.logged /\ s.informed = h.informed
        /\ s.hijacked = h.hijacked /\ (h.status # "none" => s.status = h.status)
    BY <2>1 DEF ServerHead, Answer, Answers, UpstreamFinal
  <2> HIDE DEF s
  <2>3. /\ q \in Answer /\ q.logged = s.logged /\ q.informed = s.informed
        /\ q.hijacked = s.hijacked /\ q.status = s.status
    BY <2>2 DEF Answer
  <2> HIDE DEF q
  <2>4. Follows(h, q)
    BY <1>1, <2>2, <2>3 DEF Follows, Agrees
  <2> QED BY <1>1, <1>2, <1>4, <2>4, FollowsTwice
<1> QED BY <1>3, <1>4

LEMMA OuterEnvelopeFollows ==
  ASSUME NEW o \in Answer, NEW a \in Answers, NEW by \in {"handler", "timer"}
  PROVE  Follows(o, OuterEnvelope(o, by, a))
<1>1. Follows(o, CaptureHead(o, a)) /\ CaptureHead(o, a) \in Answer
  BY CaptureHeadFollows DEF Follows
<1>2. Follows(CaptureHead(o, a), OuterEnvelope(o, by, a))
  BY <1>1, CaptureBodyFollows DEF OuterEnvelope
<1> QED BY <1>1, <1>2, FollowsTwice

LEMMA DenyFollows ==
  ASSUME NEW o \in Answer, NEW by \in {"handler", "timer"}
  PROVE  Follows(o, Deny(o, by))
<1> DEFINE q == [o EXCEPT !.denied = TRUE, !.capped = TRUE]
<1>1. Follows(o, q) /\ q \in Answer
  BY NotesFollow DEF Follows
<1>2. Follows(q, Deny(o, by))
  BY <1>1, OuterEnvelopeFollows DEF Deny, Answers, Envelopes
<1> QED BY <1>1, <1>2, FollowsTwice

(* An answer that has been noted is in the access line's writer. *)
Noted(o) == o.capped => o.logged # "none"

LEMMA LimitHeadNoted ==
  ASSUME NEW o \in Answer, NEW a \in Answers \cup {"1xx"}, NEW by \in {"handler", "timer"},
         Noted(o)
  PROVE  LimitHead(o, by, a).logged # "none"
<1> DEFINE q == [o EXCEPT !.capped = TRUE]
<1>1. q \in Answer
  BY DEF Answer
<1>2. CaptureHead(q, a).logged # "none"
  BY <1>1, CaptureHeadPasses
<1> QED BY <1>2, DenyPasses DEF LimitHead, Noted

LEMMA LimitHeadFollows ==
  ASSUME NEW o \in Answer, NEW a \in Answers, NEW by \in {"handler", "timer"}
  PROVE  Follows(o, LimitHead(o, by, a))
<1> DEFINE q == [o EXCEPT !.capped = TRUE]
<1>1. Follows(o, q) /\ q \in Answer
  BY NotesFollow DEF Follows
<1>2. Follows(q, CaptureHead(q, a))
  BY <1>1, CaptureHeadFollows
<1>3. Follows(o, CaptureHead(q, a)) /\ Follows(o, o) /\ Follows(o, Deny(o, by))
  BY <1>1, <1>2, FollowsTwice, FollowsItself, DenyFollows
<1> QED BY <1>3 DEF LimitHead

LEMMA LimitBodyFollows ==
  ASSUME NEW o \in Answer, NEW a \in Answers, NEW by \in {"handler", "timer"}
  PROVE  Follows(o, LimitBody(o, by, a))
<1> DEFINE q == IF o.capped THEN o ELSE LimitHead(o, by, "ok")
<1>1. Follows(o, q) /\ q \in Answer
  BY LimitHeadFollows, FollowsItself DEF Follows, Answers, UpstreamFinal
<1> HIDE DEF q
<1>2. Follows(q, CaptureBody(q, by, a))
  BY <1>1, CaptureBodyFollows
<1>3. Follows(o, CaptureBody(q, by, a)) /\ Follows(o, Deny(o, by))
  BY <1>1, <1>2, FollowsTwice, DenyFollows
<1> QED BY <1>3 DEF LimitBody, q

(* Once the timeout's writer lets the handler through, or has let an       *)
(* answer through that is complete, the access line's writer knows it.     *)
Begun(o) == o.started /\ Unlocked => o.logged # "none"

LEMMA TimeoutHeadFollows ==
  ASSUME NEW o \in Answer, NEW a \in Answers
  PROVE  Follows(o, TimeoutHead(o, a))
<1> DEFINE q == [o EXCEPT !.started = TRUE]
<1>1. Follows(o, q) /\ q \in Answer
  BY NotesFollow DEF Follows
<1>2. Follows(q, LimitHead(q, "handler", a))
  BY <1>1, LimitHeadFollows
<1>3. Follows(o, LimitHead(q, "handler", a)) /\ Follows(o, o)
  BY <1>1, <1>2, FollowsTwice, FollowsItself
<1> QED BY <1>3 DEF TimeoutHead

LEMMA TimeoutHeadBegins ==
  ASSUME NEW o, Sound(o), NEW a \in Answers \cup {"1xx"}, Noted(o), Begun(o), Unlocked
  PROVE  TimeoutHead(o, a).logged # "none"
<1> DEFINE q == [o EXCEPT !.started = TRUE]
<1>1. o \in Answer /\ (o.timedOut => o.started)
  BY DEF Sound
<1>2. q \in Answer /\ Noted(q)
  BY <1>1 DEF Answer, Noted
<1>3. LimitHead(q, "handler", a).logged # "none"
  BY <1>2, LimitHeadNoted
<1>4. CASE route.timeout /\ (o.timedOut \/ o.started)
  BY <1>1, <1>4 DEF TimeoutHead, Begun
<1>5. CASE ~(route.timeout /\ (o.timedOut \/ o.started))
  BY <1>3, <1>5 DEF TimeoutHead
<1> QED BY <1>4, <1>5

LEMMA TimeoutBodyFollows ==
  ASSUME NEW o \in Answer, NEW a \in Answers
  PROVE  Follows(o, TimeoutBody(o, a))
<1> DEFINE q == IF o.started THEN o ELSE TimeoutHead(o, "ok")
<1>1. Follows(o, q) /\ q \in Answer
  BY TimeoutHeadFollows, FollowsItself DEF Follows, Answers, UpstreamFinal
<1> HIDE DEF q
<1>2. Follows(q, LimitBody(q, "handler", a))
  BY <1>1, LimitBodyFollows
<1>3. Follows(o, LimitBody(q, "handler", a)) /\ Follows(o, o)
  BY <1>1, <1>2, FollowsTwice, FollowsItself
<1> QED BY <1>3 DEF TimeoutBody, q

LEMMA TimeoutBodyBegins ==
  ASSUME NEW o, Sound(o), NEW a \in Answers, Begun(o), Unlocked
  PROVE  TimeoutBody(o, a).logged # "none"
<1> DEFINE q == IF o.started THEN o ELSE TimeoutHead(o, "ok")
<1>1. CASE route.timeout /\ o.timedOut
  BY <1>1 DEF TimeoutBody, Sound, Begun
<1>2. CASE ~(route.timeout /\ o.timedOut)
  <2>1. TimeoutBody(o, a) = LimitBody(q, "handler", a)
    BY <1>2 DEF TimeoutBody
  <2>2. q \in Answer
    BY TimeoutHeadSound DEF Sound, Answers, UpstreamFinal
  <2> HIDE DEF q
  <2> QED BY <2>1, <2>2, LimitBodyPasses
<1> QED BY <1>1, <1>2

LEMMA EnvelopeFollows ==
  ASSUME NEW o, Sound(o), NEW a \in Answers, Noted(o), Begun(o), Unlocked
  PROVE  Follows(o, Envelope(o, a)) /\ Envelope(o, a).logged # "none"
<1> DEFINE q == TimeoutHead(o, a)
<1>1. Follows(o, q) /\ q \in Answer /\ Sound(q) /\ q.logged # "none"
  BY TimeoutHeadFollows, TimeoutHeadSound, TimeoutHeadBegins DEF Sound, Follows
<1> HIDE DEF q
<1>2. Follows(q, TimeoutBody(q, a)) /\ TimeoutBody(q, a).logged # "none"
  BY <1>1, TimeoutBodyFollows, TimeoutBodyBegins DEF Begun
<1> QED BY <1>1, <1>2, FollowsTwice DEF Envelope, q

LEMMA AccountableNow ==
  ASSUME IInv, Accountable
  PROVE  out \in Answer /\ Sound(out) /\ Noted(out) /\ Begun(out)
  BY SoundNow DEF IInv, TypeOK, Accountable, Noted, Begun, Unlocked

(* The handler or the timer has written. *)
LEMMA WrittenAccountable ==
  ASSUME at' \notin {"end", "tunnel"}, Agrees(out'), out'.logged # "none"
  PROVE  Accountable'
  BY DEF Accountable, Agrees

(* The access line is written when the answer is closed; the server's 200  *)
(* for an answer that never began is in it too.                            *)
LEMMA CloseAccounts ==
  ASSUME IInv, Accountable, Close
  PROVE  Accountable'
<1> DEFINE limited == IF TooLarge(out) THEN Deny(out, "handler") ELSE out
           line == IF limited.logged = "none" THEN "ok" ELSE limited.logged
           lined == [limited EXCEPT !.line = line]
           headed == ServerHead(lined, "ok")
           cut == broken /\ try.framing = "length" /\ lined.status = try.status
           ended == [headed EXCEPT !.end = IF cut THEN "cut" ELSE "complete"]
<1>1. at = "close" /\ at' = "end" /\ timer' = timer /\ broken' = broken /\ route' = route
      /\ out \in Answer /\ Agrees(out) /\ Noted(out) /\ Begun(out) /\ timer = "off"
  BY AccountableNow DEF IInv, Authors, Accountable, Close, inputs
<1>2. /\ Follows(out, limited) /\ Passes(out, limited, "handler") /\ Noted(limited)
      /\ limited \in Answer
  <2>1. Passes(out, out, "handler")
    BY <1>1 DEF Passes
  <2> QED BY <1>1, <2>1, DenyFollows, DenyPasses, FollowsItself DEF Noted, Passes
<1>3. broken => limited.logged # "none"
  BY <1>2 DEF Accountable, Passes
<1>4. out' = ended
  <2>1. lined.logged = limited.logged
    <3> HIDE DEF limited
    <3> QED BY <1>2 DEF Answer
  <2>2. ~(broken /\ lined.logged = "none")
    BY <1>3, <2>1
  <2> QED BY <2>2 DEF Close
<1>5. /\ limited.informed = out.informed /\ limited.hijacked = out.hijacked
      /\ limited.started = out.started /\ Agrees(limited)
      /\ out.logged # "none" => limited.logged # "none"
  BY <1>1, <1>2 DEF Follows, Passes
<1> HIDE DEF limited
<1>6. line \in Answers \cup {"1xx"} /\ (limited.logged # "none" => line = limited.logged)
      /\ (limited.logged = "none" => line = "ok")
  BY <1>2 DEF Answer, Answers, UpstreamFinal
<1> HIDE DEF line
<1>7. /\ lined \in Answer /\ lined.line = line /\ lined.logged = limited.logged
      /\ lined.status = limited.status /\ lined.informed = limited.informed
      /\ lined.hijacked = limited.hijacked /\ lined.started = limited.started
      /\ lined.capped = limited.capped
  BY <1>2, <1>6 DEF Answer
<1> HIDE DEF lined
<1>8. /\ headed \in Answer /\ headed.line = lined.line /\ headed.logged = lined.logged
      /\ headed.informed = lined.informed /\ headed.hijacked = lined.hijacked
      /\ headed.started = lined.started /\ headed.capped = lined.capped
      /\ ~lined.hijacked => headed.status = IF lined.status = "none" THEN "ok" ELSE lined.status
  BY <1>7 DEF ServerHead, Answer, Answers, UpstreamFinal
<1> HIDE DEF headed, cut
<1>9. /\ ended.line = headed.line /\ ended.logged = headed.logged /\ ended.status = headed.status
      /\ ended.informed = headed.informed /\ ended.hijacked = headed.hijacked
      /\ ended.started = headed.started /\ ended.capped = headed.capped
  BY <1>8 DEF Answer
<1> HIDE DEF ended
<1>10. ~ended.informed /\ ~ended.hijacked => ended.line = ended.status
  BY <1>5, <1>6, <1>7, <1>8, <1>9 DEF Agrees
<1>11. /\ ended.capped => ended.logged # "none"
       /\ ended.started => ended.logged # "none"
       /\ broken => ended.logged # "none"
       /\ route.attempts = 1 => ended.logged # "none" \/ ended.hijacked
  <2>1. ended.capped => ended.logged # "none"
    BY <1>2, <1>7, <1>8, <1>9 DEF Noted
  <2>2. ended.started => ended.logged # "none"
    BY <1>1, <1>5, <1>7, <1>8, <1>9 DEF Begun, Unlocked
  <2>3. broken => ended.logged # "none"
    BY <1>3, <1>7, <1>8, <1>9
  <2>4. route.attempts = 1 => ended.logged # "none" \/ ended.hijacked
    BY <1>1, <1>5, <1>7, <1>8, <1>9 DEF Accountable
  <2> QED BY <2>1, <2>2, <2>3, <2>4
<1> QED BY <1>1, <1>4, <1>10, <1>11 DEF Accountable

LEMMA AccountableStep ==
  ASSUME IInv, Accountable, Next
  PROVE  Accountable'
<1> USE DEF IInv, inputs, forwarding, ghosts
<1>0. out \in Answer /\ Sound(out) /\ Noted(out) /\ Begun(out) /\ (at # "end" => Agrees(out))
  BY AccountableNow DEF Accountable
<1>1. CASE BodyLimit
  <2>1. CASE out' = OuterEnvelope(out, "handler", "BODY001") /\ at = "body-limit" /\ at' = "close"
    <3>1. Follows(out, out') /\ out'.logged # "none"
      BY <1>0, <2>1, OuterEnvelopeFollows, OuterEnvelopePasses DEF Answers, Envelopes
    <3> QED BY <1>0, <2>1, <3>1, WrittenAccountable DEF Follows
  <2>2. CASE UNCHANGED out /\ at' = Following(at)
    BY <1>1, <2>2, FollowingFacts DEF BodyLimit, Accountable
  <2> QED BY <1>1, <2>1, <2>2 DEF BodyLimit
<1>2. CASE TotalTimeout
  BY <1>2, FollowingFacts DEF TotalTimeout, Accountable, Authors, Agrees
<1>3. CASE CORS
  <2>1. CASE out' = TimeoutHead(out, "preflight") /\ Unlocked /\ at = "cors" /\ at' = "finish"
    <3>1. Follows(out, out') /\ out'.logged # "none"
      BY <1>0, <2>1, TimeoutHeadFollows, TimeoutHeadBegins DEF Answers
    <3> QED BY <1>0, <2>1, <3>1, WrittenAccountable DEF Follows
  <2>2. CASE UNCHANGED out /\ at' = Following(at)
    BY <1>3, <2>2, FollowingFacts DEF CORS, Screen, Accountable
  <2> QED BY <1>3, <2>1, <2>2 DEF CORS, Screen
<1>4. CASE Auth
  <2>1. CASE out' = Envelope(out, "AUTH001") /\ Unlocked /\ at = "auth" /\ at' = "finish"
    <3>1. Follows(out, out') /\ out'.logged # "none"
      BY <1>0, <2>1, EnvelopeFollows DEF Answers, Envelopes
    <3> QED BY <1>0, <2>1, <3>1, WrittenAccountable DEF Follows
  <2>2. CASE UNCHANGED out /\ at' = Following(at)
    BY <1>4, <2>2, FollowingFacts DEF Auth, Screen, Accountable
  <2> QED BY <1>4, <2>1, <2>2 DEF Auth, Screen
<1>5. CASE RateLimit
  BY <1>5 DEF RateLimit, Accountable, Agrees
<1>6. CASE Refuse
  <2>1. Follows(out, out') /\ out'.logged # "none"
    BY <1>6, <1>0, EnvelopeFollows DEF Refuse, Answers, Envelopes
  <2> QED BY <1>6, <1>0, <2>1, WrittenAccountable DEF Refuse, Follows
<1>7. CASE Stamp
  BY <1>7, OrderFacts DEF Stamp, Accountable, Agrees
<1>8. CASE Plan
  BY <1>8 DEF Plan, Accountable, Agrees
<1>9. CASE Pick
  BY <1>9 DEF Pick, Accountable, Agrees
<1>10. CASE Send
  BY <1>10 DEF Send, TypeOK, Accountable, Agrees
<1>11. CASE Header
  <2>1. try.status \in Answers
    BY <1>11 DEF Header, Located, TypeOK, Answers
  <2>2. Follows(out, out') /\ out'.logged # "none"
    BY <1>11, <1>0, <2>1, TimeoutHeadFollows, TimeoutHeadBegins DEF Header
  <2> QED BY <1>11, <1>0, <2>2, WrittenAccountable DEF Header, Follows
<1>12. CASE Copy
  <2>1. try.status \in Answers
    BY <1>12 DEF Copy, Located, TypeOK, Answers
  <2>2. Follows(out, out') /\ out'.logged # "none"
    BY <1>12, <1>0, <2>1, TimeoutBodyFollows, TimeoutBodyBegins DEF Copy
  <2> QED BY <1>12, <1>0, <2>2, WrittenAccountable DEF Copy, Follows
<1>13. CASE Report
  BY <1>13, RouteFacts DEF Report, Accountable, WillRetry, Attempts, Agrees
<1>14. CASE Backoff
  BY <1>14, RouteFacts DEF Backoff, Accountable, Located, TypeOK, Agrees
<1>15. CASE Fail
  <2>1. Code(try.err) \in Answers
    BY DEF Code, Answers, Envelopes
  <2>2. Follows(out, out') /\ out'.logged # "none"
    BY <1>15, <1>0, <2>1, EnvelopeFollows DEF Fail
  <2> QED BY <1>15, <1>0, <2>2, WrittenAccountable DEF Fail, Follows
<1>16. CASE Failed
  BY <1>16 DEF Failed, FailedWith, Accountable, TypeOK, Agrees
<1>17. CASE Inform
  <2> DEFINE q == TimeoutHead(out, "1xx")
  <2>1. q \in Answer /\ q.logged # "none"
    BY <1>17, <1>0, TimeoutHeadSound, TimeoutHeadBegins DEF Inform, Sound
  <2>2. out' = [q EXCEPT !.informed = TRUE]
    BY <1>17 DEF Inform
  <2> HIDE DEF q
  <2>3. Agrees(out') /\ out'.logged # "none"
    BY <2>1, <2>2 DEF Agrees, Answer
  <2> QED BY <1>17, <2>3, WrittenAccountable DEF Inform
<1>18. CASE Respond
  BY <1>18 DEF Respond, Accountable, TypeOK, Agrees
<1>19. CASE CopyEnds
  <2>1. Follows(out, out') /\ out'.logged # "none"
    <3>1. out'.logged = out.logged
      BY <1>19, <1>0 DEF CopyEnds, Answer
    <3> QED BY <1>19, <1>0, <3>1, NotesFollow DEF CopyEnds, Accountable
  <2> QED BY <1>19, <1>0, <2>1, WrittenAccountable DEF CopyEnds, Follows
<1>20. CASE CopyBreaks
  BY <1>20 DEF CopyBreaks, Accountable, Agrees
<1>21. CASE Upgrade
  <2>1. /\ out'.hijacked /\ out'.logged = out.logged /\ out'.capped = out.capped
        /\ out'.started = out.started
    BY <1>21, <1>0 DEF Upgrade, Answer
  <2> QED BY <1>21, <2>1 DEF Upgrade, Accountable, Agrees, Located
<1>22. CASE TunnelEnds
  BY <1>22 DEF TunnelEnds, Accountable, Agrees
<1>23. CASE Release
  BY <1>23 DEF Release, Accountable, Agrees
<1>24. CASE Finish
  <2>1. /\ Follows(out, out') /\ out'.logged = out.logged /\ out'.capped = out.capped
        /\ out'.started = out.started /\ out'.hijacked = out.hijacked
    BY <1>24, <1>0, NotesFollow DEF Finish, Answer
  <2> QED BY <1>24, <1>0, <2>1 DEF Finish, Accountable, Follows, Unlocked
<1>25. CASE Close
  BY <1>25, CloseAccounts
<1>26. CASE Expire
  <2>1. at # "end" /\ UNCHANGED << at, broken, try, route >>
    BY <1>26 DEF Expire, Authors
  <2>2. CASE UNCHANGED out
    BY <1>26, <2>1, <2>2 DEF Expire, Accountable, Agrees
  <2>3. CASE out' = [out EXCEPT !.timedOut = TRUE, !.started = TRUE] /\ timer' = "writing"
    <3>1. /\ Follows(out, out') /\ out'.logged = out.logged /\ out'.capped = out.capped
          /\ out'.hijacked = out.hijacked
      BY <1>0, <2>3, NotesFollow DEF Answer
    <3> QED BY <1>0, <2>1, <2>3, <3>1 DEF Accountable, Follows
  <2> QED BY <1>26, <2>2, <2>3 DEF Expire
<1>27. CASE ExpireWrites
  <2> DEFINE h == LimitHead(out, "timer", "UP004")
  <2>1. at \notin {"close", "end"} /\ UNCHANGED at
    BY <1>27 DEF ExpireWrites, Authors
  <2>2. Follows(out, h) /\ h \in Answer
    BY <1>0, LimitHeadFollows DEF Follows, Answers, Envelopes
  <2>3. out' = LimitBody(h, "timer", "UP004")
    BY <1>27 DEF ExpireWrites
  <2> HIDE DEF h
  <2>4. Follows(h, out') /\ out'.logged # "none"
    BY <2>2, <2>3, LimitBodyFollows, LimitBodyPasses DEF Answers, Envelopes
  <2>5. Follows(out, out')
    BY <2>2, <2>4, FollowsTwice
  <2>6. at = "tunnel" => out'.hijacked
    BY <2>5 DEF Follows, Accountable
  <2> QED BY <1>0, <2>1, <2>4, <2>5, <2>6 DEF Accountable, Follows
<1>28. CASE Upload
  BY <1>28 DEF Upload, Accountable, Agrees
<1>29. CASE ClientLeaves
  BY <1>29 DEF ClientLeaves, Accountable, Agrees
<1>30. CASE Cancel
  BY <1>30 DEF Cancel, Accountable, Agrees
<1>31. CASE Deadline
  BY <1>31 DEF Deadline, Accountable, Agrees
<1>32. CASE Ended
  BY <1>32 DEF Ended, vars, Accountable, Agrees
<1> QED
  BY <1>1, <1>2, <1>3, <1>4, <1>5, <1>6, <1>7, <1>8, <1>9, <1>10, <1>11, <1>12, <1>13, <1>14, <1>15, <1>16,
     <1>17, <1>18, <1>19, <1>20, <1>21, <1>22, <1>23, <1>24, <1>25, <1>26, <1>27, <1>28, <1>29, <1>30, <1>31, <1>32
     DEF Next, Stages, Forwarding, Upstream, Leaving, Timeout, Surroundings

LEMMA InitAccountedInv ==
  ASSUME Init
  PROVE  AccountedInv
<1>1. at = "body-limit" /\ broken = FALSE
  BY DEF Init, Order
<1>2. Accountable
  BY <1>1 DEF Init, Accountable, Agrees, NoAnswer
<1> QED BY <1>2, InitIInv DEF AccountedInv

(* accesslog.go, build.go: with any routes and requests, the access line   *)
(* tells the status that was sent, and a route of one attempt leaves no    *)
(* request without an answer.                                              *)
THEOREM AlwaysAccounted == Spec => []Accounted
<1>1. Init => AccountedInv
  BY InitAccountedInv
<1>2. AccountedInv /\ [Next]_vars => AccountedInv'
  <2> SUFFICES ASSUME AccountedInv, [Next]_vars
               PROVE  AccountedInv'
    OBVIOUS
  <2>1. CASE Next
    <3>1. IInv'
      BY <2>1, TypeStep, LocatedStep, UnitsStep, AuthorsStep, ReportedStep DEF AccountedInv, IInv
    <3> QED BY <2>1, <3>1, AccountableStep DEF AccountedInv
  <2>2. CASE UNCHANGED vars
    <3>1. Accountable'
      BY <2>2 DEF AccountedInv, Accountable, Agrees, vars
    <3> QED BY <2>2, <3>1, StutterIInv DEF AccountedInv
  <2> QED BY <2>1, <2>2
<1>3. AccountedInv => Accounted
  BY DEF AccountedInv, Accountable, Accounted
<1> QED BY <1>1, <1>2, <1>3, PTL DEF Spec

=============================================================================
