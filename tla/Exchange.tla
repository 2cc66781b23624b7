------------------------------ MODULE Exchange ------------------------------
(***************************************************************************)
(* One request on its way through a route: the stages of its chain         *)
(* (internal/runtime/assemble.go, internal/middleware), the forwarder's    *)
(* attempts (internal/proxy/forward.go), and the writers the answer passes *)
(* on its way out.                                                         *)
(*                                                                         *)
(* Three goroutines touch the answer: the handler's, the one of the total  *)
(* timeout (totaltimeout.go), and the transport's, which reads the         *)
(* request's body while the handler waits.  The client may leave and the   *)
(* deadline may pass at any moment.                                        *)
(*                                                                         *)
(* External: net/http's server and transport and httputil.ReverseProxy,    *)
(* as far as the gateway depends on them.                                  *)
(***************************************************************************)
EXTENDS Naturals, Sequences

CONSTANTS
  Routes,        \* the routes to consider, see RouteType
  Requests,      \* the requests to consider, see RequestType
  Informational  \* may upstreams send 1xx responses before the final one?

RouteType ==
  [ attempts : Nat \ {0},        \* ForwarderOpts.Retry.Attempts
    limiters : Seq(BOOLEAN),     \* in order; TRUE: a concurrency limiter, units go back
    auth     : BOOLEAN,
    cors     : BOOLEAN,
    timeout  : BOOLEAN,          \* is there a total timeout?
    cap      : BOOLEAN,          \* is there a body limit?
    mirror   : BOOLEAN ]

RequestType ==
  [ idempotent : BOOLEAN,
    upload     : {"none", "small", "large", "chunked"},  \* small: declared, at most 8 KiB
    fits       : BOOLEAN,        \* within the body limit
    credential : BOOLEAN,
    preflight  : BOOLEAN,
    upgrade    : BOOLEAN ]

ASSUME ExchangeAssumption ==
  /\ Routes \subseteq RouteType
  /\ Requests \subseteq RequestType
  /\ Informational \in BOOLEAN

VARIABLES
  route, req,  \* chosen at the start
  at,          \* where the handler's goroutine is
  turn,        \* the limiter to ask next
  broken,      \* is the handler unwinding from http.ErrAbortHandler?
  attempt,     \* number of the current attempt, from 0
  try,         \* attemptState of the current attempt
  replay,      \* bodyPlan.replayable
  limits,      \* the rate limit stage: units admitted, handed back, relOnce
  body,        \* the request's body
  ctx,         \* the request's context: live, canceled, deadline
  client,      \* here or gone
  timer,       \* the goroutine of the total timeout
  out,         \* the writers and what they have let through
  \* What the properties remember:
  spent,       \* limiters that admitted the request
  arrivals,    \* what each attempt that went out could send of the body
  verdicts,    \* what each attempt reported to the pool, and why
  picks,       \* targets picked for attempts
  shadow       \* has a mirror target been picked?

inputs == << route, req >>
ghosts == << spent, arrivals, verdicts, picks, shadow >>
forwarding == << attempt, try, replay >>
vars == << route, req, at, turn, broken, attempt, try, replay, limits, body, ctx, client,
           timer, out, spent, arrivals, verdicts, picks, shadow >>

UpstreamFinal == {"ok", "bad", "fault"}  \* below 500; 502 or 503; other 5xx
Envelopes == {"BODY001", "AUTH001", "RATE001", "UP004", "UP010", "UP012", "INT500"}
Answers == UpstreamFinal \cup Envelopes \cup {"preflight"}

Causes == {"none", "retry", "pick", "peer", "slow", "deadline", "canceled", "upload",
           "switch"}

Places == {"body-limit", "total-timeout", "cors", "auth", "rate-limit", "stamp", "refuse",
           "plan", "pick", "send", "await", "header", "copy", "tunnel", "report", "backoff",
           "fail", "release", "finish", "close", "end"}

-----------------------------------------------------------------------------
(* The writers, from the server's outwards in: accesslog.go's              *)
(* captureWriter, bodysize.go's limitWriter, totaltimeout.go's             *)
(* timeoutWriter.  Each passes on what it lets through.  The others        *)
(* (counting, recovering, decorating, tracing) pass everything.            *)

Answer ==
  [ status : Answers \cup {"none"}, pieces : SUBSET [by : {"handler", "timer"}, of : Answers],
    hijacked : BOOLEAN, whole : BOOLEAN, end : {"open", "cut", "complete"},
    line : Answers \cup {"none", "1xx"}, logged : Answers \cup {"none", "1xx"},
    capped : BOOLEAN, denied : BOOLEAN, started : BOOLEAN, timedOut : BOOLEAN,
    finished : BOOLEAN, informed : BOOLEAN ]

NoAnswer ==
  [ status   |-> "none",  \* the final header the client was sent
    pieces   |-> {},      \* whose bytes are in the body: [by, of]
    hijacked |-> FALSE,
    whole    |-> FALSE,   \* did the upstream's body end by itself?
    end      |-> "open",  \* how the server ended the response
    line     |-> "none",  \* status in the access line, once it is written
    logged   |-> "none",  \* captureWriter.code
    capped   |-> FALSE,   \* limitWriter.wroteHeader
    denied   |-> FALSE,   \* limitWriter.handled
    started  |-> FALSE,   \* timeoutWriter.wroteHeader
    timedOut |-> FALSE,   \* timeoutWriter.timedOut
    finished |-> FALSE,   \* timeoutWriter.finished
    informed |-> FALSE ]  \* has a 1xx response come this way?

(* net/http's server: 1xx headers are not final, the first final one       *)
(* counts, bytes without one imply 200.                                    *)
ServerHead(o, a) ==
  IF a = "1xx" \/ o.status # "none" \/ o.hijacked THEN o ELSE [o EXCEPT !.status = a]

ServerBody(o, by, a) ==
  IF o.hijacked THEN o
  ELSE [ServerHead(o, "ok") EXCEPT !.pieces = @ \cup {[by |-> by, of |-> a]}]

CaptureHead_LastWins(o, a) == ServerHead([o EXCEPT !.logged = a], a)

CaptureHead(o, a) ==
  IF o.logged # "none" THEN o ELSE ServerHead([o EXCEPT !.logged = a], a)

CaptureBody(o, by, a) == ServerBody(CaptureHead(o, "ok"), by, a)

(* errs.Write through the writers outside the body limit's. *)
OuterEnvelope(o, by, a) == CaptureBody(CaptureHead(o, a), by, a)

TooLarge(o) == route.cap /\ body = "over" /\ ~o.denied /\ ~o.capped

Deny(o, by) == OuterEnvelope([o EXCEPT !.denied = TRUE, !.capped = TRUE], by, "BODY001")

LimitHead(o, by, a) ==
  IF TooLarge(o) THEN Deny(o, by)
  ELSE IF route.cap /\ o.capped THEN o
  ELSE CaptureHead([o EXCEPT !.capped = TRUE], a)

LimitBody(o, by, a) ==
  IF TooLarge(o) THEN Deny(o, by)
  ELSE CaptureBody(IF o.capped THEN o ELSE LimitHead(o, by, "ok"), by, a)

TimeoutHead(o, a) ==
  IF route.timeout /\ (o.timedOut \/ o.started) THEN o
  ELSE LimitHead([o EXCEPT !.started = TRUE], "handler", a)

TimeoutBody_KeepsWriting(o, a) ==
  LimitBody(IF o.started THEN o ELSE TimeoutHead(o, "ok"), "handler", a)

TimeoutBody(o, a) ==
  IF route.timeout /\ o.timedOut THEN o
  ELSE LimitBody(IF o.started THEN o ELSE TimeoutHead(o, "ok"), "handler", a)

(* errs.Write by the handler. *)
Envelope(o, a) == TimeoutBody(TimeoutHead(o, a), a)

(* timeoutWriter's mutex is free: expire holds it while it writes. *)
Unlocked == timer # "writing"

(* ratelimit.go's releaseAll, under relOnce. *)
ReleaseAll_Twice(l) ==
  [l EXCEPT !.returned = TRUE,
            !.handed = [i \in DOMAIN l.handed |-> l.handed[i] + (IF i \in l.pending THEN 1 ELSE 0)]]

ReleaseAll(l) ==
  IF l.returned THEN l
  ELSE [l EXCEPT !.returned = TRUE,
                 !.handed = [i \in DOMAIN l.handed |->
                               l.handed[i] + (IF i \in l.pending THEN 1 ELSE 0)]]

-----------------------------------------------------------------------------
(* The stages of the chain, in their order.                                *)

Order == << "body-limit", "total-timeout", "cors", "auth", "rate-limit", "plan" >>

After(stage) == Order[CHOOSE i \in 2 .. Len(Order) : Order[i - 1] = stage]

(* A route without limiters has no such stage. *)
Following(stage) ==
  IF After(stage) = "rate-limit" /\ route.limiters = << >> THEN After("rate-limit")
  ELSE After(stage)

Init ==
  /\ route \in Routes
  /\ req \in Requests
  /\ at = Order[1]
  /\ turn = 1
  /\ broken = FALSE
  /\ attempt = 0
  /\ try = [err |-> "none", status |-> "none", framing |-> "length"]
  /\ replay = FALSE
  /\ limits = [pending |-> {}, handed |-> [i \in DOMAIN route.limiters |-> 0], returned |-> FALSE]
  /\ body = IF req.upload = "none" THEN "read" ELSE "unread"
  /\ ctx = "live"
  /\ client = "here"
  /\ timer = "off"
  /\ out = NoAnswer
  /\ spent = {}
  /\ arrivals = << >>
  /\ verdicts = << >>
  /\ picks = 0
  /\ shadow = FALSE

(* A declared length over the limit is refused before anything else runs. *)
BodyLimit ==
  /\ at = "body-limit"
  /\ IF route.cap /\ req.upload \in {"small", "large"} /\ ~req.fits
     THEN /\ at' = "close"
          /\ out' = OuterEnvelope(out, "handler", "BODY001")
     ELSE /\ at' = Following(at)
          /\ UNCHANGED out
  /\ UNCHANGED << inputs, turn, broken, forwarding, limits, body, ctx, client, timer, ghosts >>

TotalTimeout ==
  /\ at = "total-timeout"
  /\ at' = Following(at)
  /\ timer' = IF route.timeout THEN "armed" ELSE "off"
  /\ UNCHANGED << inputs, turn, broken, forwarding, limits, body, ctx, client, out, ghosts >>

(* A preflight is answered here; a refused credential in the next stage. *)
Screen(stage, refuses, a) ==
  /\ at = stage
  /\ IF refuses
     THEN /\ Unlocked
          /\ at' = "finish"
          /\ out' = IF a = "preflight" THEN TimeoutHead(out, a) ELSE Envelope(out, a)
     ELSE /\ at' = Following(at)
          /\ UNCHANGED out
  /\ UNCHANGED << inputs, turn, broken, forwarding, limits, body, ctx, client, timer, ghosts >>

CORS == Screen("cors", route.cors /\ req.preflight, "preflight")

Auth == Screen("auth", route.auth /\ ~req.credential, "AUTH001")

(* One limiter is asked; the first to refuse ends it. *)
RateLimit ==
  /\ at = "rate-limit"
  /\ \/ /\ spent' = spent \cup {turn}
        /\ limits' = IF route.limiters[turn] THEN [limits EXCEPT !.pending = @ \cup {turn}]
                     ELSE limits
        /\ turn' = turn + 1
        /\ at' = IF turn = Len(route.limiters) THEN "stamp" ELSE at
     \/ /\ limits' = ReleaseAll(limits)
        /\ at' = "refuse"
        /\ UNCHANGED << spent, turn >>
  /\ UNCHANGED << inputs, broken, forwarding, body, ctx, client, timer, out,
                  arrivals, verdicts, picks, shadow >>

(* setRateHeaders and the RATE001 envelope. *)
Refuse ==
  /\ at = "refuse"
  /\ Unlocked
  /\ at' = "finish"
  /\ out' = Envelope(out, "RATE001")
  /\ UNCHANGED << inputs, turn, broken, forwarding, limits, body, ctx, client, timer, ghosts >>

(* setRateHeaders of an admitted request: no lock is taken for it. *)
Stamp ==
  /\ at = "stamp"
  /\ at' = After("rate-limit")
  /\ UNCHANGED << inputs, turn, broken, forwarding, limits, body, ctx, client, timer, out, ghosts >>

-----------------------------------------------------------------------------
(* The forwarder.                                                          *)

(* maybeMirror: a share of the replayable requests is mirrored. *)
MayMirror(replayable) == {FALSE, route.mirror /\ replayable}

(* planBody and maybeMirror.  A small body is read here; the client or the *)
(* server's read timeout may cut it short.                                 *)
Plan ==
  /\ at = "plan"
  /\ at' = "pick"
  /\ \/ /\ req.upload = "none"
        /\ replay' = TRUE
        /\ UNCHANGED body
     \/ /\ req.upload = "small"
        /\ \/ client = "here" /\ body' = "read" /\ replay' = TRUE
           \/ body' = "cut" /\ replay' = FALSE
     \/ /\ req.upload \in {"large", "chunked"}
        /\ replay' = FALSE
        /\ UNCHANGED body
  /\ shadow' \in MayMirror(replay')
  /\ UNCHANGED << inputs, turn, broken, attempt, try, limits, ctx, client, timer, out,
                  spent, arrivals, verdicts, picks >>

Attempts == IF req.idempotent /\ replay THEN route.attempts ELSE 1

WillRetry_AnyMethod == attempt + 1 < route.attempts

WillRetry == req.idempotent /\ replay /\ attempt + 1 < Attempts

Pick ==
  /\ at = "pick"
  /\ \/ /\ at' = "send"
        /\ picks' = picks + 1
        /\ try' = [err |-> "none", status |-> "none", framing |-> "length"]
     \/ /\ at' = "fail"
        /\ try' = [try EXCEPT !.err = "pick"]
        /\ UNCHANGED picks
  /\ UNCHANGED << inputs, turn, broken, attempt, replay, limits, body, ctx, client, timer, out,
                  spent, arrivals, verdicts, shadow >>

(* The transport refuses a context that is done before it sends anything. *)
Send ==
  /\ at = "send"
  /\ IF ctx = "live"
     THEN /\ at' = "await"
          /\ arrivals' = Append(arrivals, IF body = "unread" THEN "stream" ELSE body)
          /\ UNCHANGED try
     ELSE /\ at' = "report"
          /\ try' = [try EXCEPT !.err = ctx]
          /\ UNCHANGED arrivals
  /\ UNCHANGED << inputs, turn, broken, attempt, replay, limits, body, ctx, client, timer, out,
                  spent, verdicts, picks, shadow >>

(* The transport's goroutine reads the body to its end, its limit, or the  *)
(* place where the client left.                                            *)
Upload ==
  /\ at \in {"await", "header", "copy"}
  /\ req.upload \in {"large", "chunked"} /\ body = "unread"
  /\ \/ client = "here" /\ (req.fits \/ ~route.cap) /\ body' = "read"
     \/ route.cap /\ ~req.fits /\ body' = "over"
     \/ client = "gone" /\ body' = "cut"
  /\ UNCHANGED << inputs, at, turn, broken, forwarding, limits, ctx, client, timer, out, ghosts >>

(* RoundTrip fails: the target or its network, the time it was given, the  *)
(* context, or the body it was to send.  ReverseProxy calls onError.       *)
CauseExists_NoDeadline(e) ==
  /\ e # "deadline"
  /\ e = "canceled" => ctx = e
  /\ e = "upload" => body \in {"cut", "over"}

CauseExists(e) ==
  /\ e \in {"deadline", "canceled"} => ctx = e
  /\ e = "upload" => body \in {"cut", "over"}

FailedWith(e) ==
  /\ at = "await"
  /\ CauseExists(e)
  /\ at' = "report"
  /\ try' = [try EXCEPT !.err = e]
  /\ UNCHANGED << inputs, turn, broken, attempt, replay, limits, body, ctx, client, timer, out,
                  ghosts >>

Failed == \E e \in {"peer", "slow", "deadline", "canceled", "upload"} : FailedWith(e)

(* A 1xx response: ReverseProxy passes it on with WriteHeader. *)
Inform ==
  /\ Informational
  /\ at = "await"
  /\ ~out.informed
  /\ Unlocked
  /\ limits' = ReleaseAll(limits)
  /\ out' = [TimeoutHead(out, "1xx") EXCEPT !.informed = TRUE]
  /\ UNCHANGED << inputs, at, turn, broken, forwarding, body, ctx, client, timer, ghosts >>

(* The final header arrives; onResponse swallows a 502 or 503 that will be *)
(* retried.                                                                *)
Respond ==
  /\ at = "await"
  /\ \E s \in UpstreamFinal, f \in {"length", "chunked"} :
       IF WillRetry /\ s = "bad"
       THEN /\ at' = "report"
            /\ try' = [err |-> "retry", status |-> s, framing |-> f]
       ELSE /\ at' = "header"
            /\ try' = [try EXCEPT !.status = s, !.framing = f]
  /\ UNCHANGED << inputs, turn, broken, attempt, replay, limits, body, ctx, client, timer, out,
                  ghosts >>

(* ReverseProxy copies the header's fields, without a lock, and writes it. *)
Header ==
  /\ at = "header"
  /\ Unlocked
  /\ at' = "copy"
  /\ limits' = ReleaseAll(limits)
  /\ out' = TimeoutHead(out, try.status)
  /\ UNCHANGED << inputs, turn, broken, forwarding, body, ctx, client, timer, ghosts >>

Copy ==
  /\ at = "copy"
  /\ Unlocked
  /\ out' = TimeoutBody(out, try.status)
  /\ UNCHANGED << inputs, at, turn, broken, forwarding, limits, body, ctx, client, timer, ghosts >>

CopyEnds_Unreported ==
  /\ at = "copy"
  /\ at' = "release"
  /\ out' = [out EXCEPT !.whole = TRUE]
  /\ UNCHANGED << inputs, turn, broken, forwarding, limits, body, ctx, client, timer, ghosts >>

CopyEnds ==
  /\ at = "copy"
  /\ at' = "report"
  /\ out' = [out EXCEPT !.whole = TRUE]
  /\ UNCHANGED << inputs, turn, broken, forwarding, limits, body, ctx, client, timer, ghosts >>

(* The copy fails on either side, or the context is done: ReverseProxy     *)
(* panics with http.ErrAbortHandler, past everything the loop has left to  *)
(* do.                                                                     *)
CopyBreaks ==
  /\ at = "copy"
  /\ at' = "release"
  /\ broken' = TRUE
  /\ UNCHANGED << inputs, turn, forwarding, limits, body, ctx, client, timer, out, ghosts >>

(* A 101 response: every writer passes Hijack on.  ReverseProxy calls      *)
(* onError when the connection was taken over before, or when the client   *)
(* is gone and the 101 cannot be written to it.                            *)
Upgrade ==
  /\ at = "await"
  /\ req.upgrade
  /\ limits' = ReleaseAll(limits)
  /\ out' = [out EXCEPT !.hijacked = TRUE]
  /\ \/ /\ ~out.hijacked
        /\ at' = "tunnel"
        /\ try' = [try EXCEPT !.status = "ok"]
     \/ /\ out.hijacked \/ client = "gone"
        /\ at' = "report"
        /\ try' = [try EXCEPT !.status = "ok", !.err = "switch"]
  /\ UNCHANGED << inputs, turn, broken, attempt, replay, body, ctx, client, timer, ghosts >>

TunnelEnds ==
  /\ at = "tunnel"
  /\ at' = "report"
  /\ UNCHANGED << inputs, turn, broken, forwarding, limits, body, ctx, client, timer, out, ghosts >>

(* resolveAttempt, with the correction for a client that went away. *)
Outcome ==
  IF try.err = "none" /\ try.status = "ok" THEN "success"
  ELSE IF try.err = "canceled" \/ ctx = "canceled" THEN "cancelled"
  ELSE "failure"

(* The attempt is reported to the pool and the loop decides. *)
Report ==
  /\ at = "report"
  /\ verdicts' = Append(verdicts, [outcome |-> Outcome, cause |-> try.err])
  /\ at' = CASE try.err = "none" -> "release"
             [] try.err # "none" /\ WillRetry /\ ctx = "live" -> "backoff"
             [] OTHER -> "fail"
  /\ UNCHANGED << inputs, turn, broken, forwarding, limits, body, ctx, client, timer, out,
                  spent, arrivals, picks, shadow >>

Backoff ==
  /\ at = "backoff"
  /\ \/ /\ at' = "pick"
        /\ attempt' = attempt + 1
     \/ /\ ctx # "live"
        /\ at' = "release"
        /\ UNCHANGED attempt
  /\ UNCHANGED << inputs, turn, broken, try, replay, limits, body, ctx, client, timer, out, ghosts >>

Code(e) ==
  CASE e = "pick" -> "UP012"
    [] e \in {"slow", "deadline"} -> "UP004"
    [] OTHER -> "UP010"

Fail ==
  /\ at = "fail"
  /\ Unlocked
  /\ at' = "release"
  /\ limits' = ReleaseAll(limits)
  /\ out' = Envelope(out, Code(try.err))
  /\ UNCHANGED << inputs, turn, broken, forwarding, body, ctx, client, timer, ghosts >>

-----------------------------------------------------------------------------
(* The way out: the deferred calls, innermost first.                       *)

(* ratelimit.go: defer cw.markComplete(). *)
Release ==
  /\ at = "release"
  /\ at' = "finish"
  /\ limits' = ReleaseAll(limits)
  /\ UNCHANGED << inputs, turn, broken, forwarding, body, ctx, client, timer, out, ghosts >>

(* totaltimeout.go: markFinished and close(done). *)
Finish ==
  /\ at = "finish"
  /\ Unlocked
  /\ at' = "close"
  /\ out' = [out EXCEPT !.finished = TRUE]
  /\ timer' = "off"
  /\ UNCHANGED << inputs, turn, broken, forwarding, limits, body, ctx, client, ghosts >>

(* limitWriter.finish, the access line, recoverMiddleware, and what the    *)
(* server makes of a handler that has returned: a response with a declared *)
(* length that was not reached is cut off, a chunked one is terminated.    *)
Close ==
  /\ at = "close"
  /\ at' = "end"
  /\ LET limited == IF TooLarge(out) THEN Deny(out, "handler") ELSE out
         lined == [limited EXCEPT !.line = IF limited.logged = "none" THEN "ok" ELSE limited.logged]
         recovered == IF broken /\ lined.logged = "none"
                      THEN ServerBody(ServerHead(lined, "INT500"), "handler", "INT500")
                      ELSE lined
         cut == broken /\ try.framing = "length" /\ recovered.status = try.status
     IN out' = [ServerHead(recovered, "ok") EXCEPT !.end = IF cut THEN "cut" ELSE "complete"]
  /\ UNCHANGED << inputs, turn, broken, forwarding, limits, body, ctx, client, timer, ghosts >>

Ended == at = "end" /\ UNCHANGED vars

-----------------------------------------------------------------------------
(* The client, the clock and the timeout's goroutine.                      *)

ClientLeaves ==
  /\ at # "end" /\ client = "here"
  /\ client' = "gone"
  /\ UNCHANGED << inputs, at, turn, broken, forwarding, limits, body, ctx, timer, out, ghosts >>

(* The server notices a client that left only once it has read the body to *)
(* its end, and while the connection is its own.                           *)
Cancel ==
  /\ at # "end" /\ client = "gone" /\ body = "read" /\ ctx = "live" /\ ~out.hijacked
  /\ ctx' = "canceled"
  /\ UNCHANGED << inputs, at, turn, broken, forwarding, limits, body, client, timer, out, ghosts >>

Deadline ==
  /\ timer = "armed" /\ ctx = "live"
  /\ ctx' = "deadline"
  /\ UNCHANGED << inputs, at, turn, broken, forwarding, limits, body, client, timer, out, ghosts >>

(* The goroutine wakes: it has nothing to do for a request that was        *)
(* cancelled, nor (expire) when the answer has started or the handler is   *)
(* done.                                                                   *)
Expire ==
  /\ timer = "armed" /\ ctx # "live"
  /\ IF ctx = "canceled" \/ out.finished \/ out.started
     THEN /\ timer' = "off"
          /\ UNCHANGED out
     ELSE /\ timer' = "writing"
          /\ out' = [out EXCEPT !.timedOut = TRUE, !.started = TRUE]
  /\ UNCHANGED << inputs, at, turn, broken, forwarding, limits, body, ctx, client, ghosts >>

(* ... and writes the envelope, fields of the header included, under the   *)
(* writer's mutex.                                                         *)
ExpireWrites ==
  /\ timer = "writing"
  /\ timer' = "off"
  /\ out' = LimitBody(LimitHead(out, "timer", "UP004"), "timer", "UP004")
  /\ UNCHANGED << inputs, at, turn, broken, forwarding, limits, body, ctx, client, ghosts >>

-----------------------------------------------------------------------------
Stages == BodyLimit \/ TotalTimeout \/ CORS \/ Auth \/ RateLimit \/ Refuse \/ Stamp
Forwarding == Plan \/ Pick \/ Send \/ Header \/ Copy \/ Report \/ Backoff \/ Fail
Upstream == Failed \/ Inform \/ Respond \/ CopyEnds \/ CopyBreaks \/ Upgrade \/ TunnelEnds
Leaving == Release \/ Finish \/ Close
Timeout == Expire \/ ExpireWrites
Surroundings == Upload \/ ClientLeaves \/ Cancel \/ Deadline

Next == Stages \/ Forwarding \/ Upstream \/ Leaving \/ Timeout \/ Surroundings \/ Ended

Spec == Init /\ [][Next]_vars

(* The gateway's goroutines run and deadlines pass.  A body that planBody  *)
(* waits for comes or is cut off (the server's read timeout).  Upstreams   *)
(* may never answer and tunnels never end, but what waits on a context     *)
(* that is done returns.                                                   *)
Interrupted == ctx # "live" /\ (FailedWith(ctx) \/ CopyBreaks \/ TunnelEnds)

FairSpec ==
  /\ Spec
  /\ WF_vars(Stages \/ Forwarding \/ Leaving)
  /\ WF_vars(Timeout)
  /\ WF_vars(Deadline)
  /\ WF_vars(Interrupted)

-----------------------------------------------------------------------------
(* What holds.                                                             *)

(* Types of the variables. *)
TypeOK ==
  /\ route \in Routes /\ req \in Requests
  /\ at \in Places
  /\ turn \in 1 .. Len(route.limiters) + 1
  /\ broken \in BOOLEAN /\ replay \in BOOLEAN /\ shadow \in BOOLEAN
  /\ attempt \in Nat /\ attempt < route.attempts
  /\ try \in [ err : Causes,
               status : UpstreamFinal \cup {"none"},
               framing : {"length", "chunked"} ]
  /\ limits \in [ pending : SUBSET DOMAIN route.limiters,
                  handed : [DOMAIN route.limiters -> Nat],
                  returned : BOOLEAN ]
  /\ body \in {"unread", "read", "cut", "over"}
  /\ ctx \in {"live", "canceled", "deadline"}
  /\ client \in {"here", "gone"}
  /\ timer \in {"off", "armed", "writing"}
  /\ out \in Answer
  /\ spent \subseteq DOMAIN route.limiters
  /\ arrivals \in Seq({"stream", "read", "cut", "over"})
  /\ verdicts \in Seq([ outcome : {"success", "failure", "cancelled"}, cause : Causes ])
  /\ picks \in Nat

(* However a request ends, each unit it was admitted with is handed back   *)
(* once, and no other unit is (ratelimit.go; README.md:542).               *)
UnitsReturned ==
  /\ \A i \in DOMAIN limits.handed :
       limits.handed[i] = IF i \in limits.pending /\ limits.returned THEN 1 ELSE 0
  /\ at = "end" /\ limits.pending # {} => limits.returned

(* The handler and the timeout's goroutine never both write bytes into one *)
(* response (timeoutWriter).                                               *)
OneAuthor == \A p, q \in out.pieces : p.by = q.by

(* Every target picked for an attempt is reported back once, unless the    *)
(* attempt is still under way or its response broke off (forward.go).      *)
ReportedOnce ==
  picks = Len(verdicts) +
          (IF broken \/ at \in {"send", "await", "header", "copy", "tunnel", "report"}
           THEN 1 ELSE 0)

(* An upstream, or the mirror, sees a request only if no earlier stage     *)
(* refuses it and every limiter has admitted it (order.go); and a second   *)
(* time only if repeating is harmless, the whole body is there to be sent  *)
(* again, the client has been sent nothing, no attempt before it got as    *)
(* far as an answer or a tunnel, and the route allows another (forward.go).*)
SentRightly ==
  [][/\ arrivals' # arrivals \/ shadow' # shadow =>
          /\ route.auth => req.credential
          /\ ~(route.cors /\ req.preflight)
          /\ route.cap /\ req.upload \in {"small", "large"} => req.fits
          /\ spent = DOMAIN route.limiters
     /\ arrivals' # arrivals /\ arrivals # << >> =>
          /\ req.idempotent
          /\ body = "read" /\ req.upload \in {"none", "small"}
          /\ out.status = "none" /\ out.pieces = {}
          /\ \A i \in DOMAIN verdicts : verdicts[i].cause # "none"
          /\ Len(arrivals) < route.attempts]_vars

(* A request that ends is accounted for.  Its access line tells the status *)
(* the client was sent, but for tunnels, and unless a 1xx response came    *)
(* first (accesslog.go).  As the gateway builds its routes (build.go: one  *)
(* attempt), none ends without an answer, which the server would turn into *)
(* an empty 200.                                                           *)
Accounted ==
  at = "end" /\ ~out.hijacked =>
    /\ ~out.informed => out.line = out.status
    /\ route.attempts = 1 => out.logged # "none"

(* A request with a deadline ends, whatever its upstream does.             *)
Ends == route.timeout => <>(at = "end")

-----------------------------------------------------------------------------
(* What is said of the program and does not hold.                          *)

(* forward.go:170-173: the panic of a response that broke off propagates   *)
(* "so the outermost recover middleware can special-case it": a truncated  *)
(* response must not be ended as if it were complete.                      *)
TruncationVisible ==
  out.end = "complete" /\ out.status \in UpstreamFinal => out.whole

(* totaltimeout.go:15: "timeoutWriter serialises header state between the  *)
(* inner handler and the deadline watcher": the handler never changes the  *)
(* header's fields while the watcher does.                                 *)
HeadersSerialised ==
  timer = "writing" => at \notin {"stamp", "refuse", "header", "fail"}

(* forward.go:177: "A client disconnect is the caller's business, never    *)
(* the target's".                                                          *)
ClientNotBlamed ==
  \A i \in DOMAIN verdicts :
    verdicts[i].outcome = "failure" /\ client = "gone" => verdicts[i].cause \notin {"upload", "switch"}

(* errors.go:27: errors are "returned to clients with a stable JSON        *)
(* envelope": the body of an answer has one source.                        *)
EnvelopeIntact == \A p, q \in out.pieces : p.of = q.of

=============================================================================
