----------------------------- MODULE MCDispatch -----------------------------
(* Documents that differ from a plain one in one place, so that every check *)
(* decides some document by itself, and a few tables of several routes.     *)
EXTENDS Dispatch

Target == [url |-> "http://a", weight |-> 1]

Pool ==
  [ targets |-> << Target >>, balance |-> NoText, hash |-> NoKey, idle |-> 0,
    timers |-> [connect |-> Unset, read |-> Unset, write |-> Unset, keepalive |-> Unset],
    active |-> [enabled |-> TRUE, interval |-> Unset, timeout |-> Unset, path |-> << "", "h" >>,
                method |-> NoText, healthy |-> 0, unhealthy |-> 0],
    passive |-> [window |-> Unset, failures |-> 0, ejection |-> Unset],
    breaker |-> [failures |-> 0, window |-> Unset, cooldown |-> Unset, probes |-> 0] ]

ByIP == [composite |-> FALSE, parts |-> << "ip" >>]
Composite(parts) == [composite |-> TRUE, parts |-> parts]

Limit ==
  [ name |-> << "a" >>, strategy |-> "token_bucket", key |-> ByIP, limit |-> 2,
    window |-> Given(60), burst |-> 0, capacity |-> 0, cells |-> 0, maxKeys |-> 0,
    backend |-> NoText ]

Route ==
  [ name |-> << "a" >>, hosts |-> << >>, prefix |-> << "" >>, pattern |-> NoPattern,
    methods |-> {}, headers |-> << >>, upstreams |-> "main", strip |-> FALSE,
    timeout |-> Unset, body |-> Unset, mirror |-> Absent, rewrite |-> {"good"},
    cors |-> Absent, auth |-> Absent, limits |-> << >> ]

Named(name, route) == [route EXCEPT !.name = << name >>]

Document ==
  [ file |-> "mapping", unknown |-> FALSE, mistyped |-> FALSE, version |-> 0, listen |-> Absent,
    timers |-> [read |-> Unset, write |-> Unset, idle |-> Unset], header |-> Unset,
    tls |-> [cert |-> FALSE, key |-> FALSE, min |-> NoText],
    admin |-> [listen |-> Absent, token |-> FALSE],
    log |-> [format |-> NoText, fields |-> {"route"}],
    metrics |-> [enabled |-> TRUE, path |-> << "" >>], store |-> NoText,
    upstreams |-> [main |-> Pool], routes |-> << Route >> ]

With(routes) == [Document EXCEPT !.routes = routes]
WithLimit(rl) == With(<< [Route EXCEPT !.limits = << rl >>] >>)
Bad == {Unreadable, Given(0)}

Servers ==
  {[Document EXCEPT !.file = "empty"], [Document EXCEPT !.unknown = TRUE],
   [Document EXCEPT !.mistyped = TRUE], [Document EXCEPT !.version = 2],
   [Document EXCEPT !.listen = << "8080" >>], [Document EXCEPT !.listen = << "", "70000" >>],
   [Document EXCEPT !.listen = << "a b", "8080" >>],
   [Document EXCEPT !.tls.cert = TRUE], [Document EXCEPT !.tls = [cert |-> TRUE, key |-> TRUE, min |-> "tls11"]],
   [Document EXCEPT !.tls = [cert |-> TRUE, key |-> TRUE, min |-> NoText]],
   [Document EXCEPT !.admin.listen = << "10.0.0.1", "9901" >>],
   [Document EXCEPT !.admin = [listen |-> << "10.0.0.1", "9901" >>, token |-> TRUE]],
   [Document EXCEPT !.log.format = "xml"], [Document EXCEPT !.log.fields = {"route", "colour"}],
   [Document EXCEPT !.metrics.path = << "metrics" >>]}
  \cup {[Document EXCEPT !.timers.read = s] : s \in Bad} \cup {[Document EXCEPT !.header = s] : s \in Bad}

Pools ==
  {[Pool EXCEPT !.targets = t] : t \in {<< >>, << [Target EXCEPT !.url = "ftp://a"] >>,
                                        << [Target EXCEPT !.weight = -1] >>}}
  \cup {[Pool EXCEPT !.balance = b] : b \in {"ring_hash", "random"}}
  \cup {[Pool EXCEPT !.balance = "ring_hash", !.hash = k] : k \in {ByIP, Composite(<< "ip" >>)}}
  \cup {[Pool EXCEPT !.timers.connect = s] : s \in Bad}
  \cup {[Pool EXCEPT !.idle = -1]}
  \cup {[Pool EXCEPT !.active.interval = s] : s \in Bad}
  \cup {[Pool EXCEPT !.active.path = p] : p \in {<< "" >>, << "h" >>}}
  \cup {[Pool EXCEPT !.active.method = "no method"], [Pool EXCEPT !.active.healthy = -1],
        [Pool EXCEPT !.active.unhealthy = -1], [Pool EXCEPT !.breaker.failures = -1],
        [Pool EXCEPT !.breaker.probes = -1], [Pool EXCEPT !.active.enabled = FALSE]}
  \cup {[Pool EXCEPT !.passive.failures = n] : n \in {-1, 1}}
  \cup {[Pool EXCEPT !.targets = << [Target EXCEPT !.weight = 0] >>]}
  \cup {[Pool EXCEPT !.passive.window = s] : s \in Bad} \cup {[Pool EXCEPT !.breaker.cooldown = s] : s \in Bad}

Limits ==
  {[Limit EXCEPT !.strategy = s] : s \in Strategies \cup {"leaky"}}
  \cup {[Limit EXCEPT !.name = n] : n \in {<< >>, << "a", "/" >>, << "a", "b", "a", "b" >>}}
  \cup {[Limit EXCEPT !.limit = n] : n \in {0, 1}} \cup {[Limit EXCEPT !.window = s] : s \in Bad \cup {Unset}}
  \cup {[Limit EXCEPT !.strategy = "concurrency", !.window = s] : s \in {Unset, Unreadable}}
  \cup {[Limit EXCEPT !.strategy = "concurrency", !.limit = 0, !.capacity = 2]}
  \cup {[Limit EXCEPT !.burst = -1]} \cup {[Limit EXCEPT !.strategy = "leaky_bucket", !.capacity = -1]}
  \cup {[Limit EXCEPT !.strategy = "sliding_window_counter", !.cells = n] : n \in {1, 2, Cells, Cells + 1}}
  \cup {[Limit EXCEPT !.maxKeys = n] : n \in {4, 8}}
  \cup {[Limit EXCEPT !.backend = b] : b \in {"shared", "redis"}}
  \cup {[Limit EXCEPT !.key = k] :
          k \in {NoKey, [composite |-> FALSE, parts |-> << "cookie" >>], Composite(<< "ip" >>),
                 Composite(<< "ip", "path" >>), Composite(<< "ip", "ip", "ip", "ip", "path" >>)}}

Guards ==
  {[type |-> "basic", key |-> Absent, jwt |-> Absent], [type |-> "none", key |-> Absent, jwt |-> Absent],
   [type |-> "api_key", key |-> Absent, jwt |-> Absent], [type |-> "jwt", key |-> Absent, jwt |-> Absent]}
  \cup {[type |-> "api_key", key |-> << [header |-> h, env |-> e, file |-> f] >>, jwt |-> Absent] :
          h, e, f \in BOOLEAN}
  \cup {[type |-> "jwt", key |-> Absent, jwt |-> << [secret |-> s, jwks |-> u, algorithms |-> a] >>] :
          s \in BOOLEAN, u \in {NoText, "http://a", "ftp://a"},
          a \in {{}, {"HS256"}, {"RS256"}, {"HS256", "RS256"}, {"none"}}}

Cross(origins, methods, age) == << [origins |-> origins, methods |-> methods, age |-> age] >>

Segs(segs) == [rooted |-> TRUE, segs |-> segs]
Odd(kind, name) == [kind |-> kind, name |-> name]

Routed ==
  {[Route EXCEPT !.name = n] : n \in {<< >>, << "a", "/" >>, << "a", "b", "c", "a" >>}}
  \cup {[Route EXCEPT !.hosts = << h >>] :
          h \in {<< >>, << " " >>, << "a*", "b" >>, << "*", "a*" >>, << "*" >>}}
  \cup {[Route EXCEPT !.prefix = << "v1" >>], [Route EXCEPT !.methods = {"get"}],
        [Route EXCEPT !.strip = TRUE], [Route EXCEPT !.upstreams = NoText],
        [Route EXCEPT !.upstreams = "other"], [Route EXCEPT !.body = Unreadable],
        [Route EXCEPT !.rewrite = {"good", "control"}]}
  \cup {[Route EXCEPT !.pattern = p] :
          p \in {Segs(<< Odd("partial", "n") >>), Segs(<< Odd("stray", "v") >>), Segs(<< Odd("unclosed", "n") >>),
                 Segs(<< Param("n"), Param("n") >>), Segs(<< Literal("") >>),
                 [rooted |-> FALSE, segs |-> << Literal("a") >>]}}
  \cup {[Route EXCEPT !.headers = << [name |-> n, value |-> v] >>] : n \in {NoText, "X-Env"}, v \in {NoText, "("}}
  \cup {[Route EXCEPT !.timeout = s] : s \in Bad} \cup {[Route EXCEPT !.body = Unlimited]}
  \cup {[Route EXCEPT !.mirror = << [upstreams |-> u, percentage |-> p] >>] :
          u \in {NoText, "main", "other"}, p \in {0, 50}}
  \cup {[Route EXCEPT !.cors = k] :
          k \in {Cross({}, {}, Unset), Cross({"*"}, {"get"}, Unset), Cross({"*"}, {"GET"}, Unreadable),
                 Cross({"a/b"}, {}, Unset), Cross({"https://*.app.example"}, {"GET"}, Given(0))}}
  \cup {[Route EXCEPT !.auth = << a >>] : a \in Guards}

-----------------------------------------------------------------------------
(* Tables of several routes.                                               *)
On(host, route) == [route EXCEPT !.hosts = << host >>]
At(prefix, route) == [route EXCEPT !.prefix = << "" >> \o prefix]
By(segs, route) == [route EXCEPT !.pattern = Segs(segs)]
For(methods, route) == [route EXCEPT !.methods = methods]
If(name, value, route) == [route EXCEPT !.headers = Append(@, [name |-> name, value |-> value])]
Stripped(route) == [route EXCEPT !.strip = TRUE]
Limited(name, route) == [route EXCEPT !.limits = Append(@, [Limit EXCEPT !.name = name])]

API == << "API", "x" >>
Wide == << "*", "x" >>

Tables ==
  { << Named("a", Route), Named("b", On(Wide, Route)), Named("c", On(API, Route)) >>,
    << Named("a", On(Wide, At(<< "v1", "u" >>, Route))), Named("b", On(API, At(<< "v1" >>, Route))) >>,
    << Named("a", At(<< "v1" >>, Route)), Named("b", By(<< Literal("v1"), Param("n") >>, Route)),
       Named("c", At(<< "v1", "u" >>, Route)) >>,
    << Named("a", For({"GET"}, Route)), Named("b", If("X-Env", "p", Route)),
       Named("c", If("X-Env", ".", For({"GET"}, Route))) >>,
    << Named("a", For({"POST"}, At(<< "v1" >>, Route))), Named("b", For({"POST"}, At(<< "v1", "u" >>, Route))) >>,
    << Named("a", If("X-Env", "p", Route)), Named("b", If("X-Key", "", If("X-Env", "p", Route))) >>,
    << Named("a", Stripped(At(<< "v1" >>, Route))), Named("b", Stripped(At(<< "v1", "u" >>, Route))) >>,
    << Named("a", Stripped(At(<< "" >>, By(<< Literal("v1"), Param("n") >>, Route)))) >>,
    << Named("a", Stripped(At(<< "v1", "" >>, By(<< Param("m"), Param("n") >>, Route)))) >>,
    << Named("a", Stripped(At(<< "v1" >>, By(<< Literal("v1"), Literal("u") >>, Route)))) >>,
    << Named("a", By(<< Literal("") >>, Route)) >>,
    << Named("a", At(<< "v1" >>, Route)), Named("a", At(<< "v1", "u" >>, Route)) >>,
    << Limited(<< "b", "/", "c" >>, Named("a", Route)), [Limited(<< "c" >>, Route) EXCEPT !.name = << "a", "/", "b" >>] >>,
    << Limited(<< "a" >>, Limited(<< "a" >>, Named("a", Route))) >>,
    << Limited(<< "b" >>, Limited(<< "a" >>, Named("a", Route))), Limited(<< "a" >>, Named("b", Route)) >> }

\* Two limiters in the shared store, their names joined by an underscore.
Joined ==
  LET Shared(name, route) == [route EXCEPT !.limits = << [Limit EXCEPT !.name = name, !.backend = "shared"] >>]
  IN  [With(<< Shared(<< "c" >>, [Route EXCEPT !.name = << "a", "_", "b" >>]),
               Shared(<< "b", "_", "c" >>, Named("a", Route)) >>) EXCEPT !.store = "f"]

SomeDocuments ==
  {Document, Joined} \cup Servers
  \cup {[Document EXCEPT !.upstreams.main = p] : p \in Pools}
  \cup {WithLimit(rl) : rl \in Limits}
  \cup {[WithLimit([Limit EXCEPT !.backend = "shared"]) EXCEPT !.store = "f"]}
  \cup {With(<< r >>) : r \in Routed} \cup {With(t) : t \in Tables}

\* All well, or one thing wrong.
SomeWorlds ==
  {[store |-> s, secret |-> t, keys |-> k, jwks |-> j] : s, t, k, j \in BOOLEAN}
  \cap {w \in WorldType : Cardinality({f \in DOMAIN w : ~w[f]}) < 2}

Asked(host, path, method, headers) ==
  [host |-> host, path |-> << "" >> \o path, method |-> method, headers |-> headers]

Env(value) == [name |-> "X-Env", value |-> value]

SomeRequests ==
  { Asked(<< "API", "x" >>, << "" >>, "GET", {}),
    Asked(<< "b", "x" >>, << "v1", "u" >>, "GET", {Env("p")}),
    Asked(<< "b", "API", "x" >>, << "v1", "w" >>, "get", {Env("q")}),
    Asked(<< "x" >>, << "v1" >>, "POST", {Env("p"), [name |-> "X-Key", value |-> "k"]}),
    Asked(<< "api", "x" >>, << "v1", "u", "w" >>, "PUT", {}),
    Asked(<< "y" >>, << "v1x" >>, "GET", {Env("p")}),
    Asked(<< "y" >>, << "v1", "", ".", "u", "..", "%61" >>, "GET", {}),
    Asked(<< "y" >>, << "v1", "%2e%2e", "u" >>, "GET", {}),
    Asked(<< "y" >>, << "..", "%2e" >>, "GET", {}) }
=============================================================================
