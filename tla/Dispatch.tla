------------------------------ MODULE Dispatch ------------------------------
(***************************************************************************)
(* From a configuration file to the target's URL: the file is loaded       *)
(* (Configuration), a generation is built from it (internal/runtime/       *)
(* build.go, internal/proxy/router.go, the strategies' factories), and     *)
(* each request is matched against the compiled routes, handed to the      *)
(* chain built for the winner and forwarded under the path that is left    *)
(* (router.go, the dispatcher in assemble.go, forward.go).                 *)
(*                                                                         *)
(* The router is immutable and its answer depends on nothing but the       *)
(* request: one request at a time shows all there is.  Match's loop is     *)
(* modelled one route per step, so that what it remembers between two      *)
(* routes is a state one can speak about.                                  *)
(***************************************************************************)
EXTENDS Configuration, FiniteSets

CONSTANTS
  Documents,  \* the files to consider
  Worlds,     \* what the process finds around it, see WorldType
  Requests    \* the requests to consider, see RequestType

WorldType ==
  [ store  : BOOLEAN,    \* the shared store's file can be opened
    secret : BOOLEAN,    \* jwt: the variable named by secret_env is set
    keys   : BOOLEAN,    \* api_key: the source can be read and holds a key
    jwks   : BOOLEAN ]   \* jwt: keyfunc accepts the key set's URL

RequestType ==
  [ host : Seq(STRING), path : PathType, method : STRING,
    headers : SUBSET [name : STRING, value : STRING] ]

VARIABLES
  document, world,
  stage,      \* file, rejected, loaded, failed, serving, matching, routed, answered
  cfg,        \* the configuration in force
  failure,    \* what the build stumbled over
  table,      \* Router.routes
  chains,     \* route name -> the route its chain and forwarder were built from
  engines,    \* limiter key -> the route and limiter its engine was built from
  request, clean,
  next,       \* the route Match looks at next
  best,       \* the best route so far that matches altogether
  candidate,  \* the best route so far by host and path alone
  outcome

generation == << cfg, failure, table, chains, engines >>
matching == << request, clean, next, best, candidate >>
vars == << document, world, stage, generation, matching, outcome >>

-----------------------------------------------------------------------------
(***************************************************************************)
(* Compiling a route                                                       *)
(***************************************************************************)
Lower(label) == IF label = "API" THEN "api" ELSE label
Trimmed(host) == SelectSeq([i \in DOMAIN host |-> Lower(host[i])], LAMBDA l : l # " ")
Starred(labels) == \E i \in DOMAIN labels : labels[i] \in {"*", "a*"}

Wild(labels) == Len(labels) > 1 /\ Head(labels) = "*"

HostCompiles(host) ==
  LET labels == Trimmed(host) IN
  /\ labels # << >>
  /\ IF Wild(labels) THEN Tail(labels) # << "" >> /\ ~Starred(Tail(labels)) ELSE ~Starred(labels)

CompileHost(host) ==
  LET labels == Trimmed(host) IN
  [wild |-> Wild(labels), labels |-> IF Wild(labels) THEN Tail(labels) ELSE labels]

\* path.Clean of a rooted path, as the sequence of its segments.
Clean(path) ==
  LET Walk(done, seg) ==
        CASE seg \in {"", "."} -> done
          [] seg = ".." -> IF done = << >> THEN done ELSE Front(done)
          [] OTHER -> Append(done, seg)
  IN  FoldLeft(Walk, << >>, path)

SplitPattern(segs) == SelectSeq(segs, LAMBDA s : s # Literal(""))

PatternCompiles(pattern) ==
  pattern = NoPattern \/ /\ pattern.rooted
                         /\ \A i \in DOMAIN pattern.segs : pattern.segs[i].kind \in {"literal", "param"}
                         /\ ~NamedTwice(pattern.segs, {"param"})

\* The literal segments a pattern begins with.
LiteralHead(segs) ==
  LET n == CHOOSE n \in 0 .. Len(segs) :
             /\ \A i \in 1 .. n : segs[i].kind = "literal"
             /\ n < Len(segs) => segs[n + 1].kind # "literal"
  IN  Clean([i \in 1 .. n |-> segs[i].name])

RouteCompiles(r) ==
  /\ \A i \in DOMAIN r.hosts : HostCompiles(r.hosts[i])
  /\ PatternCompiles(r.pattern)
  /\ \A i \in DOMAIN r.headers : Compiles(r.headers[i].value)

\* A prefix that is not set is Absent, the root prefix is << << >> >>.  The
\* pattern "/" leaves no segments, like a pattern that is not set.
CompileRoute(r) ==
  LET segs == SplitPattern(r.pattern.segs) IN
  [ hosts   |-> [i \in DOMAIN r.hosts |-> CompileHost(r.hosts[i])],
    prefix  |-> IF r.prefix = << "" >> THEN Absent ELSE << Clean(r.prefix) >>,
    pattern |-> segs,
    head    |-> LiteralHead(segs),
    methods |-> r.methods,
    headers |-> r.headers ]

CompiledRoute ==
  [ hosts   : Seq([wild : BOOLEAN, labels : Seq(STRING)]),
    prefix  : Seq(Seq(STRING)),
    pattern : Seq([kind : STRING, name : STRING]),
    head    : Seq(STRING),
    methods : SUBSET STRING,
    headers : Seq([name : STRING, value : STRING]) ]

Compiled(routes) == [i \in DOMAIN routes |-> CompileRoute(routes[i])]

\* What is decoded has the shape of config.Config and of a request.  Lists
\* are finite, and so is what they compile to and what is left of a path.
ASSUME DispatchAssumption ==
  /\ \A d \in Documents : d \in DocumentType(DOMAIN d.upstreams)
  /\ \A d \in Documents : Compiled(ApplyDefaults(d).routes) \in Seq(CompiledRoute)
  /\ Worlds \subseteq WorldType
  /\ Requests \subseteq RequestType
  /\ \A r \in Requests : Clean(r.path) \in PathType

-----------------------------------------------------------------------------
(***************************************************************************)
(* Building a generation                                                   *)
(***************************************************************************)

\* What a strategy's factory makes of its settings.
ConfigFrom(strategy, s) ==
  [ ok |-> IF strategy = "concurrency" THEN CapacityOrLimit(s) >= 1
           ELSE /\ s.limit >= 1
                /\ s.window >= 1
                /\ strategy = "token_bucket" => s.burst >= 0
                /\ strategy = "leaky_bucket" => s.capacity >= 0
                /\ strategy = "sliding_window_counter" => CellsOrDefault(s) \in 2 .. Cells,
    limit |-> s.limit, window |-> s.window, burst |-> Default(s.burst, 0, s.limit),
    capacity |-> CapacityOrLimit(s), cells |-> CellsOrDefault(s) ]

Limiters(c) == UNION {{i} \X DOMAIN c.routes[i].limits : i \in DOMAIN c.routes}
LimiterAt(c, at) == c.routes[at[1]].limits[at[2]]
Auths(c) == UNION {Range(r.auth) : r \in Range(c.routes)}
Mirrors(c) == {m.upstreams : m \in UNION {Range(r.mirror) : r \in Range(c.routes)}}

\* NewAuth panics, and buildRouteChainSafe turns that into an error, when a
\* block is missing or what it names is.
AuthFailures(auth) ==
  LET jwt == auth.type = "jwt"
      key == auth.type = "api_key"
      listed == UNION {auth.jwt[k].algorithms : k \in DOMAIN auth.jwt}
      hs == listed \cap HSAlgorithms # {}
      asym == (listed \cap JWTAlgorithms) \ HSAlgorithms # {}
  IN {f \in {"auth", "keys", "secret", "jwks"} :
        \/ f = "auth" /\ auth.type \notin AuthTypes
        \/ f = "auth" /\ key /\ auth.key = Absent
        \/ f = "auth" /\ key /\ \E k \in DOMAIN auth.key : ~auth.key[k].env /\ ~auth.key[k].file
        \/ f = "auth" /\ jwt /\ (listed = {} \/ ~(listed \subseteq JWTAlgorithms))
        \/ f = "auth" /\ jwt /\ hs /\ \A k \in DOMAIN auth.jwt : ~auth.jwt[k].secret
        \/ f = "auth" /\ jwt /\ asym /\ \A k \in DOMAIN auth.jwt : auth.jwt[k].jwks = NoText
        \/ f = "keys" /\ key /\ ~world.keys
        \/ f = "secret" /\ jwt /\ hs /\ ~world.secret
        \/ f = "jwks" /\ jwt /\ asym /\ ~world.jwks}

\* Everything buildRuntime can stumble over; it stops at the first of them.
BuildFailures(c) ==
  {f \in {"store", "predicate", "pool", "mirror", "key", "limiter"} :
     \/ f = "store" /\ NeedsStore(c) /\ ~(c.store # NoText /\ world.store)
     \/ f = "predicate" /\ \E i \in DOMAIN c.routes : ~RouteCompiles(c.routes[i])
     \/ f = "pool" /\ \E i \in DOMAIN c.routes : c.routes[i].upstreams \notin DOMAIN c.upstreams
     \/ f = "mirror" /\ ~(Mirrors(c) \subseteq DOMAIN c.upstreams)
     \/ f = "key" /\ \E at \in Limiters(c) : ~ParseKeySpec(LimiterAt(c, at).key).ok
     \/ f = "limiter" /\ \E at \in Limiters(c) :
          LET rl == LimiterAt(c, at) IN
          rl.strategy \notin Strategies \/ ~ConfigFrom(rl.strategy, SettingsOf(rl)).ok}
  \cup UNION {AuthFailures(auth) : auth \in Auths(c)}

\* Chains and forwarders are kept by the route's name: of two with one name
\* the later stays.
ChainsOf(c) ==
  [name \in {c.routes[i].name : i \in DOMAIN c.routes} |->
     CHOOSE i \in DOMAIN c.routes :
       c.routes[i].name = name /\ \A j \in DOMAIN c.routes : c.routes[j].name = name => j <= i]

\* Engines are kept by route.Name + "/" + rl.Name.
EngineKey(c, at) == c.routes[at[1]].name \o << "/" >> \o LimiterAt(c, at).name
\* The bucket of the shared store that an engine's records are kept in: the
\* store replaces what its file does not take in a name.
SanitizeBucket(bucket) == [i \in DOMAIN bucket |-> IF bucket[i] \in NameChars THEN bucket[i] ELSE "_"]

Later(p, q) == p[1] > q[1] \/ (p[1] = q[1] /\ p[2] >= q[2])

EnginesOf(c) ==
  [key \in {EngineKey(c, at) : at \in Limiters(c)} |->
     CHOOSE at \in Limiters(c) :
       EngineKey(c, at) = key /\ \A p \in Limiters(c) : EngineKey(c, p) = key => Later(at, p)]

-----------------------------------------------------------------------------
(***************************************************************************)
(* Matching                                                                *)
(***************************************************************************)
HostFromRequest(r) == [i \in DOMAIN r.host |-> Lower(r.host[i])]  \* the port is not part of r.host

HostScore(cr, r) ==
  LET host == HostFromRequest(r)
      Exact(p) == ~p.wild /\ p.labels = host
      Under(p) == p.wild /\ IsStrictSuffix(p.labels, host)
  IN  CASE cr.hosts = << >> -> 0
        [] \E i \in DOMAIN cr.hosts : Exact(cr.hosts[i]) -> 2
        [] \E i \in DOMAIN cr.hosts : Under(cr.hosts[i]) -> 1
        [] OTHER -> -1

MatchHosts(cr, r) == HostScore(cr, r) >= 0

PrefixMatches(path, prefix) == IsPrefix(prefix, path)

MatchPattern(segs, path) ==
  /\ Len(segs) = Len(path)
  /\ \A i \in DOMAIN segs : segs[i].kind = "literal" => segs[i].name = path[i]

MatchPath(cr, path) ==
  /\ cr.prefix # Absent => PrefixMatches(path, cr.prefix[1])
  /\ cr.pattern # << >> => MatchPattern(cr.pattern, path)

\* Two for a literal segment, one for a parameter.
PathScore(cr) ==
  2 * (IF cr.prefix = Absent THEN 0 ELSE Len(cr.prefix[1]))
  + Len(cr.pattern) + Cardinality({i \in DOMAIN cr.pattern : cr.pattern[i].kind = "literal"})

\* Mutant: the pattern's literal head goes before the prefix.
MatchedHead(cr) == IF cr.head = << >> /\ cr.prefix # Absent THEN cr.prefix[1] ELSE cr.head

\* What strip_prefix takes off.
MatchedPrefix(cr) == IF cr.prefix \in {Absent, << << >> >>} THEN cr.head ELSE cr.prefix[1]

Fold(method) == IF method = "get" THEN "GET" ELSE method
MethodAllowed(cr, r) == cr.methods # {} => \E m \in cr.methods : Fold(m) = Fold(r.method)

\* An expression is a literal that the value equals, or "." for any value.
MatchString(regexp, value) == regexp \in {value, "."}

MatchHeaders(cr, r) ==
  \A i \in DOMAIN cr.headers :
    \E h \in r.headers : /\ h.name = cr.headers[i].name
                         /\ cr.headers[i].value = NoText \/ MatchString(cr.headers[i].value, h.value)

MethodScore(cr) == IF cr.methods # {} THEN 1 ELSE 0

\* Mutant: the later of two equals stays.
BetterTupleLater(h, p, i, other) ==
  \/ h > other.host
  \/ h = other.host /\ p > other.path
  \/ h = other.host /\ p = other.path /\ i > other.idx

\* betterTuple: host, path, configuration order.
BetterTuple(h, p, i, other) ==
  \/ h > other.host
  \/ h = other.host /\ p > other.path
  \/ h = other.host /\ p = other.path /\ i < other.idx

\* Mutant: a longer path beats a more specific host.
Better4PathFirst(h, p, m, x, i, other) == p > other.path \/ (p = other.path /\ h > other.host)

\* better4: host, path, a restriction of methods, header predicates, order.
Better4(h, p, m, x, i, other) ==
  \/ h > other.host
  \/ h = other.host /\ p > other.path
  \/ h = other.host /\ p = other.path /\ m > other.meth
  \/ h = other.host /\ p = other.path /\ m = other.meth /\ x > other.hdr
  \/ h = other.host /\ p = other.path /\ m = other.meth /\ x = other.hdr /\ i < other.idx

Decoded(seg) == CASE seg = "%2e" -> "." [] seg = "%2e%2e" -> ".." [] seg = "%61" -> "a" [] OTHER -> seg

PathHasDotSegments(path) == \E i \in DOMAIN path : Decoded(path[i]) \in {".", ".."}

-----------------------------------------------------------------------------
(***************************************************************************)
(* Forwarding                                                              *)
(***************************************************************************)
UpstreamPath(incoming, strip, prefix) ==
  IF ~strip \/ prefix = << >> \/ ~IsPrefix(prefix, incoming) THEN incoming
  ELSE SubSeq(incoming, Len(prefix) + 1, Len(incoming))

\* The base path of the target's URL, then the request's.
JoinEscapedPath(base, path) == base \o path

(***************************************************************************)
(* writeRoutingError takes the Allow list from what follows a colon in the *)
(* error's text, here the sequence of its words.                           *)
(***************************************************************************)
NotAllowedMessage(r, name) == << "method", r.method, "not allowed for route" >> \o name

AllowFromMessage(message) ==
  LET colons == {i \in DOMAIN message : message[i] = ":"} IN
  IF colons = {} THEN << >>
  ELSE LET first == CHOOSE i \in colons : \A k \in colons : i <= k
       IN  SubSeq(message, first + 1, Len(message))

-----------------------------------------------------------------------------
(***************************************************************************)
(* The states                                                              *)
(***************************************************************************)
Nothing == << >>
NoRoute == [idx |-> 0, host |-> 0, path |-> 0, meth |-> 0, hdr |-> 0]
NoOutcome == [code |-> "none", chain |-> 0, allow |-> << >>, path |-> << >>]

Refusal(code, allow) == [NoOutcome EXCEPT !.code = code, !.allow = allow]

Init ==
  /\ document \in Documents
  /\ world \in Worlds
  /\ stage = "file"
  /\ cfg = Nothing /\ failure = {} /\ table = << >> /\ chains = << >> /\ engines = << >>
  /\ request = Nothing /\ clean = << >> /\ next = 0
  /\ best = NoRoute /\ candidate = NoRoute
  /\ outcome = NoOutcome

\* Load: defaults, then every check; accepted when nothing is reported.
Load ==
  /\ stage = "file"
  /\ IF Report(document) = {}
     THEN stage' = "loaded" /\ cfg' = ApplyDefaults(document)
     ELSE stage' = "rejected" /\ UNCHANGED cfg
  /\ UNCHANGED << document, world, failure, table, chains, engines, matching, outcome >>

\* buildRuntime
Build ==
  /\ stage = "loaded"
  /\ failure' = BuildFailures(cfg)
  /\ IF failure' = {}
     THEN /\ stage' = "serving"
          /\ table' = Compiled(cfg.routes)
          /\ chains' = ChainsOf(cfg)
          /\ engines' = EnginesOf(cfg)
     ELSE stage' = "failed" /\ UNCHANGED << table, chains, engines >>
  /\ UNCHANGED << document, world, cfg, matching, outcome >>

\* Match, up to its loop.
Receive(r) ==
  /\ stage \in {"serving", "answered"}
  /\ request' = r
  /\ clean' = Clean(r.path)
  /\ next' = 1 /\ best' = NoRoute /\ candidate' = NoRoute
  /\ IF PathHasDotSegments(clean')
     THEN stage' = "answered" /\ outcome' = Refusal("RT003", << >>)
     ELSE stage' = "matching" /\ outcome' = NoOutcome
  /\ UNCHANGED << document, world, generation >>

\* One turn of Match's loop.
Consider ==
  LET cr == table[next]
      h == HostScore(cr, request)
      p == PathScore(cr)
      m == MethodScore(cr)
      x == Len(cr.headers)
      placed == MatchHosts(cr, request) /\ MatchPath(cr, clean)
  IN
  /\ stage = "matching" /\ next \in DOMAIN table
  /\ candidate' = IF placed /\ (candidate = NoRoute \/ BetterTuple(h, p, next, candidate))
                  THEN [idx |-> next, host |-> h, path |-> p, meth |-> 0, hdr |-> 0] ELSE candidate
  /\ best' = IF /\ placed /\ MethodAllowed(cr, request) /\ MatchHeaders(cr, request)
                /\ best = NoRoute \/ Better4(h, p, m, x, next, best)
             THEN [idx |-> next, host |-> h, path |-> p, meth |-> m, hdr |-> x] ELSE best
  /\ next' = next + 1
  /\ UNCHANGED << document, world, stage, generation, request, clean, outcome >>

\* The end of Match, and the dispatcher's answer when there is no route.
Decide ==
  /\ stage = "matching" /\ next \notin DOMAIN table
  /\ CASE best # NoRoute -> stage' = "routed" /\ UNCHANGED outcome
       [] best = NoRoute /\ candidate # NoRoute ->
            /\ stage' = "answered"
            /\ outcome' = Refusal("RT002",
                 AllowFromMessage(NotAllowedMessage(request, cfg.routes[candidate.idx].name)))
       [] OTHER -> stage' = "answered" /\ outcome' = Refusal("RT001", << >>)
  /\ UNCHANGED << document, world, generation, matching >>

\* The winner's chain ends in its forwarder, which cleans and refuses the
\* path by the same rule again.  (What happens in between: Exchange.)
Forward ==
  LET i == chains[cfg.routes[best.idx].name]
      incoming == Clean(request.path)
      path == UpstreamPath(incoming, cfg.routes[i].strip, MatchedPrefix(table[best.idx]))
  IN
  /\ stage = "routed"
  /\ stage' = "answered"
  /\ outcome' = IF PathHasDotSegments(incoming) THEN Refusal("RT003", << >>)
                ELSE [NoOutcome EXCEPT !.code = "forwarded", !.chain = i, !.path = JoinEscapedPath(<< >>, path)]
  /\ UNCHANGED << document, world, generation, matching >>

Next == Load \/ Build \/ (\E r \in Requests : Receive(r)) \/ Consider \/ Decide \/ Forward

Spec == Init /\ [][Next]_vars

-----------------------------------------------------------------------------
(***************************************************************************)
(* Properties                                                              *)
(***************************************************************************)

\* The type invariant: the loop's index and what it remembers stay within
\* the table, and a decision is one of the four the dispatcher knows.
TypeOK ==
  /\ document \in Documents /\ world \in Worlds
  /\ stage \in {"file", "rejected", "loaded", "failed", "serving", "matching", "routed", "answered"}
  /\ stage \in {"serving", "matching", "routed", "answered"} => table \in Seq(CompiledRoute)
  /\ next \in 0 .. Len(table) + 1
  /\ {best.idx, candidate.idx} \subseteq 0 .. Len(table)
  /\ outcome.code \in {"none", "RT001", "RT002", "RT003", "forwarded"}

\* Does route j match by host and path, and does it match altogether?
Placed(j) == MatchHosts(table[j], request) /\ MatchPath(table[j], clean)
Fits(j) == Placed(j) /\ MethodAllowed(table[j], request) /\ MatchHeaders(table[j], request)

\* The documented precedence: the first criterion on which two routes differ
\* decides, the order of configuration last (Match, router.go:158).
Rank(j) ==
  << HostScore(table[j], request), PathScore(table[j]), MethodScore(table[j]),
     Len(table[j].headers), -j >>

Above(i, j, n) == Rank(i)[n] > Rank(j)[n] /\ \A k \in 1 .. n - 1 : Rank(i)[k] = Rank(j)[k]
Precedes(i, j) == \E n \in 1 .. 5 : Above(i, j, n)

\* Of the routes looked at, best is the one that precedes every other that
\* matches altogether, and it is unset only when none does: a single pass,
\* whatever the order of the routes.
BestSoFar ==
  stage \in {"matching", "routed"} =>
    /\ best = NoRoute => \A j \in 1 .. next - 1 : ~Fits(j)
    /\ best # NoRoute =>
         /\ best.idx \in 1 .. next - 1 /\ Fits(best.idx)
         /\ \A j \in 1 .. next - 1 : Fits(j) /\ j # best.idx => Precedes(best.idx, j)

\* The route a request is handed to precedes every other configured route
\* that matches it altogether (documented order; tables of any length).
WinnerIsBest ==
  stage = "routed" =>
    /\ best.idx \in DOMAIN table /\ Fits(best.idx)
    /\ \A j \in DOMAIN table : Fits(j) /\ j # best.idx => Precedes(best.idx, j)

\* A request is refused for the documented reason: 404 only when no route
\* takes its host and path; 405 only when one does and none takes it
\* altogether, and then the route named is the best by host and path; RT003
\* only for a path with encoded dot segments.  (Match, router.go:227)
RefusedRightly ==
  stage = "answered" =>
    /\ outcome.code = "RT001" => \A j \in DOMAIN table : ~Placed(j)
    /\ outcome.code = "RT002" =>
         /\ candidate.idx \in DOMAIN table /\ Placed(candidate.idx)
         /\ \A j \in DOMAIN table : ~Fits(j)
         /\ \A j \in DOMAIN table : Placed(j) /\ j # candidate.idx =>
              \/ \E n \in 1 .. 2 : Above(candidate.idx, j, n)
              \/ candidate.idx < j /\ \A n \in 1 .. 2 : Rank(candidate.idx)[n] = Rank(j)[n]
    /\ outcome.code = "RT003" => PathHasDotSegments(clean)

\* Whoever is routed is served by what was configured for that route: the
\* name finds the chain of the winner, not of a namesake, and no two
\* limiters anywhere share an engine (build.go, the maps keyed by names).
NamesResolve ==
  /\ outcome.code = "forwarded" => outcome.chain = best.idx
  /\ stage = "serving" => \A at \in Limiters(cfg) : engines[EngineKey(cfg, at)] = at

\* The path that was routed is the path that is forwarded: the target gets
\* what follows the configured prefix, the whole path when nothing is to be
\* stripped, never a dot segment; the forwarder's own check refuses nothing
\* that was routed (forward.go:126, upstreamPath).
RoutedIsForwarded ==
  stage = "answered" /\ best # NoRoute =>
    LET r == cfg.routes[best.idx]
        prefix == IF r.prefix = << "" >> THEN << >> ELSE Clean(r.prefix)
    IN  /\ outcome.code = "forwarded"
        /\ IsSuffix(outcome.path, clean) /\ ~PathHasDotSegments(outcome.path)
        /\ ~r.strip => outcome.path = clean
        /\ r.strip /\ prefix # << >> => prefix \o outcome.path = clean

\* What TargetHealth assumes of the numbers a pool gets from its file
\* (ConstantsAssumption): passive.failures alone may be anything.
SuitsTargets(up) ==
  /\ {up.active.healthy, up.active.unhealthy, up.breaker.failures, up.breaker.probes}
       \subseteq Nat \ {0}
  /\ {up.passive.window.value, up.passive.ejection.value, up.breaker.window.value,
      up.breaker.cooldown.value} \subseteq Nat
  /\ \A i \in DOMAIN up.targets : up.targets[i].weight \in Nat
  /\ up.passive.failures \in Int

Millisecond == 1000000  \* in nanoseconds, the ticks a cell is cut in

\* What Limiter and Strategies assume of the numbers a limiter gets
\* (LimiterAssumption, StrategyAssumption).
SuitsStrategy(rl) ==
  LET conf == ConfigFrom(rl.strategy, SettingsOf(rl)) IN
  /\ conf.limit >= 1 /\ conf.burst >= 1 /\ conf.capacity >= 1 /\ rl.maxKeys >= 8
  /\ rl.strategy # "concurrency" => conf.window >= 1
  /\ conf.cells \in 2 .. Cells
  /\ rl.strategy = "sliding_window_counter" => conf.window * Millisecond >= conf.cells

\* An accepted configuration builds, and builds what it may: the only
\* things left that can stop a generation are outside the file, or a host
\* or pattern that validation does not look at closely enough; and every
\* number a pool or a limiter is given is one its target records, breakers
\* and strategies are made for (validate.go against router.go, auth.go,
\* targetstate.go and the factories).
AcceptedBuilds ==
  /\ failure \subseteq {"store", "keys", "secret", "jwks", "predicate"}
  /\ cfg # Nothing =>
       /\ \A name \in DOMAIN cfg.upstreams : SuitsTargets(cfg.upstreams[name])
       /\ \A at \in Limiters(cfg) : SuitsStrategy(LimiterAt(cfg, at))

\* The scalars of a configuration, by their place; body limits apart.
PoolScalars(up) ==
  [connect |-> up.timers.connect, read |-> up.timers.read,
   write |-> up.timers.write, keepalive |-> up.timers.keepalive,
   interval |-> up.active.interval, probe |-> up.active.timeout,
   window |-> up.passive.window, ejection |-> up.passive.ejection,
   tripping |-> up.breaker.window, cooldown |-> up.breaker.cooldown]

Scalars(c) ==
  {<< k, NoText, 0, 0, c.timers[k] >> : k \in DOMAIN c.timers}
  \cup {<< "header", NoText, 0, 0, c.header >>}
  \cup (UNION {{<< k, name, 0, 0, PoolScalars(c.upstreams[name])[k] >> : k \in DOMAIN PoolScalars(c.upstreams[name])} :
                 name \in DOMAIN c.upstreams})
  \cup {<< "timeout", NoText, i, 0, c.routes[i].timeout >> : i \in DOMAIN c.routes}
  \cup {<< "window", NoText, at[1], at[2], LimiterAt(c, at).window >> : at \in Limiters(c)}

InForce(written, effective) ==
  \A w \in written : ~w[5].err /\ (w[5].set => w \in effective)

\* An accepted file means what it says: no duration or size in it is
\* unreadable, and none that is readable gives way to a default, an
\* explicit zero included (types.go:28, "units are never guessed").
AsWritten == cfg # Nothing => InForce(Scalars(document), Scalars(cfg))

(***************************************************************************)
(* Stated by the documents, and violated                                   *)
(***************************************************************************)

\* README.md:537, DESIGN.md:354: a 405 carries an Allow header (when the
\* route restricts its methods).
AllowSent ==
  outcome.code = "RT002" /\ cfg.routes[candidate.idx].methods # {} => outcome.allow # << >>

\* validate.go:22-24: names are restricted because "names become bbolt bucket
\* keys for shared backends, where arbitrary bytes could collide": two
\* limiters in the shared store do not keep their records in one bucket.
BucketsApart ==
  stage = "serving" =>
    LET shared == {at \in Limiters(cfg) : LimiterAt(cfg, at).backend = "shared"}
        bucket(at) == SanitizeBucket(EngineKey(cfg, at))
    IN  \A p, q \in shared : bucket(p) = bucket(q) => p = q

\* types.go:27, "Bare integers are rejected by design": body_limit too.
BodyLimitAsWritten ==
  cfg # Nothing => \A i \in DOMAIN document.routes : ~document.routes[i].body.err

\* router.go:97, "config validation already catches these earlier".
ValidatedCompiles == "predicate" \notin failure

\* router.go:328, a pattern matches paths of its own number of segments.
PatternExact ==
  outcome.code = "forwarded" /\ cfg.routes[best.idx].pattern # NoPattern =>
    Len(SplitPattern(cfg.routes[best.idx].pattern.segs)) = Len(clean)

=============================================================================
