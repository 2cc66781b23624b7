---------------------------- MODULE Configuration ----------------------------
(***************************************************************************)
(* What internal/config makes of a configuration file: the scalars that    *)
(* remember why they could not be read (types.go), the defaults, and the   *)
(* semantic validation (validate.go).  Load (loader.go) accepts a file     *)
(* exactly when no problem is left.                                        *)
(*                                                                         *)
(* A document is a record shaped like config.Config.  Texts are tokens:    *)
(* each set below holds the texts one check of the source accepts.  An     *)
(* optional block is a sequence of length at most one; a path is the       *)
(* sequence strings.Split(path, "/") yields, so "/v1" is << "", "v1" >>    *)
(* and the unset path is << "" >>.  A duration counts milliseconds.        *)
(***************************************************************************)
EXTENDS Integers, SequencesExt

CONSTANTS
  NameLen,  \* the longest name of a route or limiter, 64 in the source
  Cells     \* the largest number of counter cells, 1000 in the source

ASSUME ConfigurationAssumption == NameLen \in Nat \ {0} /\ Cells \in 10 .. 1000

-----------------------------------------------------------------------------
(***************************************************************************)
(* Scalars: what UnmarshalYAML leaves for a key that is absent, for a text *)
(* it cannot read, and for one it can.                                     *)
(***************************************************************************)
Unset == [value |-> 0, set |-> FALSE, err |-> FALSE]
Unreadable == [value |-> 0, set |-> FALSE, err |-> TRUE]
Given(n) == [value |-> n, set |-> TRUE, err |-> FALSE]
Unlimited == Given(-1)

\* Mutant: an explicit zero taken for an absent key.
SetDurIfZero(s, n) == IF s.value # 0 THEN s ELSE [s EXCEPT !.value = n, !.set = TRUE]

SetDur(s, n) == IF s.set THEN s ELSE [s EXCEPT !.value = n, !.set = TRUE]

Absent == << >>          \* an optional block left out
NoText == ""
Default(x, unset, d) == IF x = unset THEN d ELSE x

-----------------------------------------------------------------------------
(***************************************************************************)
(* The shape of a document (types.go)                                      *)
(***************************************************************************)
ScalarType == [value : Int, set : BOOLEAN, err : BOOLEAN]
DurationType == [value : Nat, set : BOOLEAN, err : BOOLEAN]  \* no negative one is read
KeyType == [composite : BOOLEAN, parts : Seq(STRING)]
PathType == Seq(STRING)
ListenType == Seq(STRING)

PoolType ==
  [ targets : Seq([url : STRING, weight : Int]),
    balance : STRING, hash : KeyType, idle : Int,
    timers  : [connect : DurationType, read : DurationType, write : DurationType, keepalive : DurationType],
    active  : [enabled : BOOLEAN, interval : DurationType, timeout : DurationType, path : PathType,
               method : STRING, healthy : Int, unhealthy : Int],
    passive : [window : DurationType, failures : Int, ejection : DurationType],
    breaker : [failures : Int, window : DurationType, cooldown : DurationType, probes : Int] ]

LimitType ==
  [ name : Seq(STRING), strategy : STRING, key : KeyType, limit : Int, window : DurationType,
    burst : Int, capacity : Int, cells : Int, maxKeys : Int, backend : STRING ]

AuthType ==
  [ type : STRING, key : Seq([header : BOOLEAN, env : BOOLEAN, file : BOOLEAN]),
    jwt : Seq([secret : BOOLEAN, jwks : STRING, algorithms : SUBSET STRING]) ]

RouteType ==
  [ name : Seq(STRING), hosts : Seq(Seq(STRING)), prefix : PathType,
    pattern : [rooted : BOOLEAN, segs : Seq([kind : STRING, name : STRING])],
    methods : SUBSET STRING, headers : Seq([name : STRING, value : STRING]),
    upstreams : STRING, strip : BOOLEAN, timeout : DurationType, body : ScalarType,
    mirror : Seq([upstreams : STRING, percentage : Int]), rewrite : SUBSET STRING,
    cors : Seq([origins : SUBSET STRING, methods : SUBSET STRING, age : DurationType]),
    auth : Seq(AuthType), limits : Seq(LimitType) ]

DocumentType(pools) ==
  [ file : STRING, unknown : BOOLEAN, mistyped : BOOLEAN, version : Int, listen : ListenType,
    timers : [read : DurationType, write : DurationType, idle : DurationType], header : ScalarType,
    tls : [cert : BOOLEAN, key : BOOLEAN, min : STRING],
    admin : [listen : ListenType, token : BOOLEAN],
    log : [format : STRING, fields : SUBSET STRING],
    metrics : [enabled : BOOLEAN, path : PathType], store : STRING,
    upstreams : [pools -> PoolType], routes : Seq(RouteType) ]

-----------------------------------------------------------------------------
(***************************************************************************)
(* The vocabularies                                                        *)
(***************************************************************************)
Formats == {"json", "human"}
LoadBalancers == {"round_robin", "least_connections", "ring_hash"}
TLSVersions == {"tls12", "tls13"}
HSAlgorithms == {"HS256", "HS512"}
JWTAlgorithms == HSAlgorithms \cup {"RS256", "ES256"}
AuthTypes == {"none", "api_key", "jwt"}
Backends == {"memory", "shared"}
Strategies == {"fixed_window", "sliding_window_log", "sliding_window_counter",
               "token_bucket", "leaky_bucket", "concurrency"}
LogFields == {"route", "status", "code"}

-----------------------------------------------------------------------------
(***************************************************************************)
(* Defaults                                                                *)
(***************************************************************************)
Second == 1000

ServerDefaults(c) ==
  [c EXCEPT
    !.version = Default(@, 0, 1),
    !.listen = Default(@, Absent, << "", "8080" >>),
    !.timers = [read |-> SetDur(@.read, 30 * Second), write |-> SetDur(@.write, 60 * Second),
                idle |-> SetDur(@.idle, 120 * Second)],
    !.header = SetDur(@, 1048576),
    !.tls.min = Default(@, NoText, "tls12"),
    !.admin.listen = Default(@, Absent, << "127.0.0.1", "9901" >>),
    !.log.format = Default(@, NoText, "json"),
    !.metrics.path = Default(@, << "" >>, << "", "metrics" >>)]

UpstreamDefaults(up) ==
  [up EXCEPT
    !.balance = Default(@, NoText, "round_robin"),
    !.timers = [connect |-> SetDur(@.connect, 5 * Second), read |-> SetDur(@.read, 30 * Second),
                write |-> SetDur(@.write, 30 * Second), keepalive |-> SetDur(@.keepalive, 30 * Second)],
    !.idle = Default(@, 0, 32),
    !.active.interval = IF @.value = 0 THEN SetDur(@, 10 * Second) ELSE @,
    !.active.timeout = SetDur(@, 2 * Second),
    !.active.method = Default(@, NoText, "GET"),
    !.active.healthy = Default(@, 0, 2),
    !.active.unhealthy = Default(@, 0, 3),
    !.passive = [window |-> SetDur(@.window, 30 * Second), failures |-> Default(@.failures, 0, 5),
                 ejection |-> SetDur(@.ejection, 30 * Second)],
    !.breaker = [failures |-> Default(@.failures, 0, 10), window |-> SetDur(@.window, 60 * Second),
                 cooldown |-> SetDur(@.cooldown, 30 * Second), probes |-> Default(@.probes, 0, 3)]]

LimitDefaults(rl) ==
  [rl EXCEPT !.maxKeys = Default(@, 0, 65536), !.backend = Default(@, NoText, "memory"),
             !.cells = Default(@, 0, 10)]

RouteDefaults(r) ==
  [r EXCEPT !.timeout = SetDur(@, 60 * Second), !.body = SetDur(@, 33554432),
            !.limits = [i \in DOMAIN @ |-> LimitDefaults(@[i])]]

ApplyDefaults(c) ==
  [ServerDefaults(c) EXCEPT
    !.upstreams = [name \in DOMAIN @ |-> UpstreamDefaults(@[name])],
    !.routes = [i \in DOMAIN @ |-> RouteDefaults(@[i])]]

-----------------------------------------------------------------------------
(***************************************************************************)
(* Small validators                                                        *)
(***************************************************************************)
ListenHosts == {"", "127.0.0.1", "localhost", "10.0.0.1", "gw.example"}
ListenPorts == {"8080", "9901", "0"}
ValidListen(l) == Len(l) = 2 /\ l[1] \in ListenHosts /\ l[2] \in ListenPorts

LoopbackListen(l) == Len(l) = 2 /\ l[1] \in {"", "localhost", "127.0.0.1"}

Rooted(path) == Len(path) > 1 /\ Head(path) = ""

MethodTokens == {"GET", "HEAD", "POST", "PURGE", "OPTIONS"}
Compiles(regexp) == regexp \notin {"(", "*"}
AbsoluteURLs == {"http://a", "https://b"}
Origins == {"*", "https://app.example", "https://*.app.example"}

\* A name becomes a bucket key: letters, digits, "_" and "-", at least one.
NameChars == {"a", "b", "c", "-", "_"}
\* Mutant: any character in a name.
AnyName(name) == Len(name) \in 1 .. NameLen

NameRe(name) == Len(name) \in 1 .. NameLen /\ \A i \in DOMAIN name : name[i] \in NameChars

(***************************************************************************)
(* Key selectors.  A selector is its comma-separated tokens and whether    *)
(* they stand in composite[...].                                           *)
(***************************************************************************)
KeyKinds == {"ip", "path", "api_key", "header:X-Key"}
NoKey == [composite |-> FALSE, parts |-> << >>]

ParseKeySpec(key) ==
  LET readable == \A i \in DOMAIN key.parts : key.parts[i] \in KeyKinds
      counted == IF key.composite THEN Len(key.parts) \in 2 .. 4 ELSE Len(key.parts) = 1
  IN  IF readable /\ counted THEN [ok |-> TRUE, parts |-> key.parts]
                             ELSE [ok |-> FALSE, parts |-> << >>]

(***************************************************************************)
(* A path pattern is its segments, each of a kind: a literal, a parameter  *)
(* {name}, or one of the forms nobody should write.                        *)
(*   partial v{name}   stray v}   unclosed {name   unnamed {}   odd {a-b}  *)
(***************************************************************************)
Literal(name) == [kind |-> "literal", name |-> name]
Param(name) == [kind |-> "param", name |-> name]
NoPattern == [rooted |-> FALSE, segs |-> << >>]

NamedTwice(segs, kinds) ==
  \E i, j \in DOMAIN segs :
    i < j /\ segs[i].kind \in kinds /\ segs[j].kind \in kinds /\ segs[i].name = segs[j].name

ValidatePattern(segs) ==
  /\ \A i \in DOMAIN segs : segs[i].kind \notin {"unclosed", "unnamed", "odd"}
  /\ ~NamedTwice(segs, {"param", "partial"})

-----------------------------------------------------------------------------
(***************************************************************************)
(* The checks each strategy registers (internal/limiter, the factories)    *)
(***************************************************************************)
SettingsOf(rl) ==
  [limit |-> rl.limit, window |-> rl.window.value, burst |-> rl.burst,
   capacity |-> rl.capacity, cells |-> rl.cells]

CellsOrDefault(s) == Default(s.cells, 0, 10)
CapacityOrLimit(s) == Default(s.capacity, 0, s.limit)

\* The problems a strategy's checker lists.
CheckSettings(strategy, s) ==
  {p \in {"limit", "window", "burst", "capacity", "cells"} :
     \/ p = "limit" /\ strategy # "concurrency" /\ s.limit < 1
     \/ p = "window" /\ strategy # "concurrency" /\ s.window < 1
     \/ p = "burst" /\ strategy = "token_bucket" /\ s.burst < 0
     \/ p = "capacity" /\ strategy = "leaky_bucket" /\ s.capacity < 0
     \/ p = "capacity" /\ strategy = "concurrency" /\ CapacityOrLimit(s) < 1
     \/ p = "cells" /\ strategy = "sliding_window_counter" /\ CellsOrDefault(s) \notin 2 .. Cells}

-----------------------------------------------------------------------------
(***************************************************************************)
(* Validation.  A problem is where it is and its code: CFG001 unknown      *)
(* field, 002 invalid value, 003 missing, 004 duplicate, 005 conflict,     *)
(* 006 unsafe combination.                                                 *)
(***************************************************************************)
Check(holds, where, code) == IF holds THEN {} ELSE {<< where, code >>}
Issue(scalar, where) == Check(~scalar.err, where, "CFG002")
Issues(scalars, where) ==
  UNION {Issue(scalars[k], Append(where, k)) : k \in DOMAIN scalars}

Configured(tls) == tls.cert \/ tls.key

ServerProblems(c) ==
  Check(c.version = 1, << "version" >>, "CFG002")
  \cup Check(ValidListen(c.listen), << "server.listen" >>, "CFG002")
  \cup Issues(c.timers, << "server" >>)
  \cup Issue(c.header, << "server.max_header_bytes" >>)
  \cup Check(Configured(c.tls) => c.tls.cert /\ c.tls.key, << "server.tls" >>, "CFG005")
  \cup Check(Configured(c.tls) => c.tls.min \in TLSVersions, << "server.tls.min_version" >>, "CFG002")

AdminProblems(c) ==
  Check(ValidListen(c.admin.listen), << "admin.listen" >>, "CFG002")
  \cup Check(LoopbackListen(c.admin.listen) \/ c.admin.token, << "admin.auth" >>, "CFG006")

ObservabilityProblems(c) ==
  Check(c.log.format \in Formats, << "access_log.format" >>, "CFG002")
  \cup Check(c.log.fields \subseteq LogFields, << "access_log.fields" >>, "CFG002")
  \cup Check(c.metrics.enabled => Rooted(c.metrics.path), << "metrics.path" >>, "CFG002")

\* Mutant: any weight will do.
TargetProblems_AnyWeight(t, where) == Check(t.url \in AbsoluteURLs, Append(where, "url"), "CFG002")

TargetProblems(t, where) ==
  Check(t.url \in AbsoluteURLs, Append(where, "url"), "CFG002")
  \cup Check(t.weight >= 0, Append(where, "weight"), "CFG002")

HealthProblems(up, where) ==
  LET active == up.active IN
  Issues([interval |-> active.interval, timeout |-> active.timeout], Append(where, "active"))
  \cup Check(active.enabled => active.path # << "" >>, Append(where, "path"), "CFG003")
  \cup Check(active.enabled /\ active.path # << "" >> => Rooted(active.path),
             Append(where, "path"), "CFG002")
  \cup Check(active.enabled /\ active.method # NoText => active.method \in MethodTokens,
             Append(where, "method"), "CFG002")
  \cup Check(active.healthy >= 0 /\ active.unhealthy >= 0, Append(where, "thresholds"), "CFG002")
  \cup Issues([window |-> up.passive.window, ejection |-> up.passive.ejection], Append(where, "passive"))
  \cup Issues([window |-> up.breaker.window, cooldown |-> up.breaker.cooldown], Append(where, "breaker"))
  \cup Check(up.breaker.failures >= 0 /\ up.breaker.probes >= 0, Append(where, "breaker"), "CFG002")

UpstreamProblems(up, where) ==
  Check(up.targets # << >>, Append(where, "targets"), "CFG003")
  \cup (UNION {TargetProblems(up.targets[i], where \o << "targets", i >>) : i \in DOMAIN up.targets})
  \cup Check(up.balance \in LoadBalancers, Append(where, "load_balance"), "CFG002")
  \cup Check(up.balance = "ring_hash" => up.hash # NoKey, Append(where, "hash_key"), "CFG005")
  \cup Check(up.hash # NoKey => ParseKeySpec(up.hash).ok, Append(where, "hash_key"), "CFG002")
  \cup Issues(up.timers, where)
  \cup Check(up.idle >= 0, Append(where, "max_idle"), "CFG002")
  \cup HealthProblems(up, where)

PathProblems(r, where) ==
  Check(r.prefix # << "" >> => Rooted(r.prefix), Append(where, "path_prefix"), "CFG002")
  \cup Check(r.pattern # NoPattern => r.pattern.rooted, Append(where, "path_pattern"), "CFG002")
  \cup Check(ValidatePattern(r.pattern.segs), Append(where, "path_pattern"), "CFG002")
  \cup Check(r.strip => r.prefix # << "" >> \/ r.pattern # NoPattern,
             Append(where, "strip_prefix"), "CFG005")

PredicateProblems(r, where) ==
  Check(\A i \in DOMAIN r.hosts : r.hosts[i] # << >>, Append(where, "hosts"), "CFG002")
  \cup Check(r.methods \subseteq MethodTokens, Append(where, "methods"), "CFG002")
  \cup Check(\A i \in DOMAIN r.headers : r.headers[i].name # NoText,
             Append(where, "match_headers"), "CFG003")
  \cup Check(\A i \in DOMAIN r.headers : Compiles(r.headers[i].value),
             Append(where, "match_headers"), "CFG002")

PoolProblems(name, pools, where) ==
  Check(name # NoText, Append(where, "upstreams"), "CFG003")
  \cup Check(name # NoText => name \in pools, Append(where, "upstreams"), "CFG005")

MirrorProblems(m, pools, where) ==
  PoolProblems(m.upstreams, pools, where) \cup Check(m.percentage \in 1 .. 100, where, "CFG002")

\* r.rewrite: the classes of names and values in request_headers and response_headers.
RewriteProblems(r, where) == Check(r.rewrite \subseteq {"good"}, Append(where, "headers"), "CFG002")

CORSProblems(cors, where) ==
  Check(cors.origins # {}, where, "CFG003")
  \cup Check(cors.origins \subseteq Origins, where, "CFG002")
  \cup Check(cors.methods \subseteq MethodTokens, where, "CFG002")
  \cup Issue(cors.age, where)

APIKeyProblems(key, where) ==
  Check(key.header, Append(where, "header"), "CFG003") \cup Check(key.env # key.file, where, "CFG005")

JWTProblems(jwt, where) ==
  Check(jwt.algorithms # {}, where, "CFG003")
  \cup Check(jwt.algorithms \subseteq JWTAlgorithms, where, "CFG002")
  \cup Check(/\ jwt.secret # (jwt.jwks # NoText)
             /\ jwt.secret => jwt.algorithms \subseteq HSAlgorithms
             /\ jwt.jwks # NoText => jwt.algorithms \cap HSAlgorithms = {}, where, "CFG005")
  \cup Check(jwt.jwks # NoText => jwt.jwks \in AbsoluteURLs, Append(where, "jwks_url"), "CFG002")

AuthProblems(auth, where) ==
  Check(auth.type \in AuthTypes, where, "CFG002")
  \cup Check(auth.type = "api_key" => auth.key # Absent, where, "CFG003")
  \cup Check(auth.type = "jwt" => auth.jwt # Absent, where, "CFG003")
  \cup (UNION {APIKeyProblems(auth.key[i], where) : i \in {j \in DOMAIN auth.key : auth.type = "api_key"}})
  \cup (UNION {JWTProblems(auth.jwt[i], where) : i \in {j \in DOMAIN auth.jwt : auth.type = "jwt"}})

NamedBefore(list, i) == \E j \in 1 .. i - 1 : list[j].name = list[i].name /\ list[i].name # << >>

LimitProblems(limits, i, where) ==
  LET rl == limits[i] IN
  Check(rl.name # << >>, where, "CFG003")
  \cup Check(rl.name # << >> => NameRe(rl.name), where, "CFG002")
  \cup Check(~NamedBefore(limits, i), where, "CFG004")
  \cup Check(rl.strategy \in Strategies, where, "CFG002")
  \cup Check(rl.strategy \in Strategies => CheckSettings(rl.strategy, SettingsOf(rl)) = {},
             where, "CFG002")
  \cup Check(ParseKeySpec(rl.key).ok, Append(where, "key"), "CFG002")
  \cup Check(rl.limit > 0, Append(where, "limit"), "CFG002")
  \cup Issue(rl.window, Append(where, "window"))
  \cup Check(rl.burst >= 0 /\ rl.capacity >= 0, where, "CFG002")
  \cup Check(rl.cells # 0 => rl.cells \in 2 .. Cells, Append(where, "cells"), "CFG002")
  \cup Check(rl.maxKeys = 0 \/ rl.maxKeys >= 8, Append(where, "max_keys"), "CFG002")
  \cup Check(rl.backend \in Backends, Append(where, "backend"), "CFG002")

\* A route without a name is reported for that and not looked at further.
RouteProblems(routes, i, pools) ==
  LET r == routes[i]
      where == << "routes", i >>
  IN  IF r.name = << >> THEN {<< Append(where, "name"), "CFG003" >>}
      ELSE Check(NameRe(r.name), Append(where, "name"), "CFG002")
           \cup Check(~NamedBefore(routes, i), Append(where, "name"), "CFG004")
           \cup PredicateProblems(r, where)
           \cup PathProblems(r, where)
           \cup PoolProblems(r.upstreams, pools, where)
           \cup Issue(r.timeout, Append(where, "timeout"))
           \cup (UNION {MirrorProblems(r.mirror[k], pools, Append(where, "mirror")) : k \in DOMAIN r.mirror})
           \cup RewriteProblems(r, where)
           \cup (UNION {CORSProblems(r.cors[k], Append(where, "cors")) : k \in DOMAIN r.cors})
           \cup (UNION {AuthProblems(r.auth[k], Append(where, "auth")) : k \in DOMAIN r.auth})
           \cup (UNION {LimitProblems(r.limits, k, where \o << "rate_limits", k >>) : k \in DOMAIN r.limits})

\* Does any limiter keep its state in the shared store?
NeedsStore(c) ==
  \E i \in DOMAIN c.routes : \E k \in DOMAIN c.routes[i].limits :
    c.routes[i].limits[k].backend = "shared"

\* anySharedBackend is only noticed on routes that have a name.
StoreProblems(c) ==
  Check((\E i \in DOMAIN c.routes : c.routes[i].name # << >> /\ NeedsStore([routes |-> << c.routes[i] >>]))
          => c.store # NoText, << "store.path" >>, "CFG005")

Problems(c) ==
  ServerProblems(c) \cup AdminProblems(c) \cup ObservabilityProblems(c)
  \cup (UNION {UpstreamProblems(c.upstreams[name], << "upstreams", name >>) : name \in DOMAIN c.upstreams})
  \cup (UNION {RouteProblems(c.routes, i, DOMAIN c.upstreams) : i \in DOMAIN c.routes})
  \cup StoreProblems(c)

(***************************************************************************)
(* Load: what the syntax already refuses, then the semantic problems of    *)
(* the decoded document with its defaults.  A key outside the schema and a *)
(* value of the wrong type do not stop the walk.                           *)
(***************************************************************************)
SyntaxProblems(doc) ==
  CASE doc.file # "mapping" -> {<< << "document" >>, "CFG003" >>}
    [] OTHER -> Check(~doc.unknown, << "unknown key" >>, "CFG001")
                \cup Check(~doc.mistyped, << "type" >>, "CFG002")

Report(doc) ==
  IF doc.file # "mapping" THEN SyntaxProblems(doc)
  ELSE SyntaxProblems(doc) \cup Problems(ApplyDefaults(doc))

=============================================================================
