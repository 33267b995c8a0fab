--------------------------- MODULE MCApplication ---------------------------
(* Small applications.  The plain one is built of every dependency graph   *)
(* over three types; the others have nothing to build and differ in their  *)
(* routes, their middleware, and what is asked of them.                    *)
EXTENDS Application

CONSTANTS A, B, C

-----------------------------------------------------------------------------
(* Dependencies: three types provided in turn, or the first once more as a *)
(* replacement, and components beside them.                                *)
P(t, ps, sc, k) == [out |-> t, params |-> ps, scope |-> sc, supplied |-> FALSE,
                    kind |-> k, replace |-> FALSE]
Scopes == {"singleton", "request"}
Graphs ==
  {<<P(A, a, sa, "closer"), P(B, b, sb, "lifecycle"), P(C, c, sc, "closer")>> :
     a \in {<<>>, <<B>>, <<C>>}, b \in {<<>>, <<A>>, <<C, A>>},
     c \in {<<>>, <<B>>, <<A, B>>, <<RequestPtr, A>>},
     sa \in Scopes, sb \in Scopes, sc \in Scopes}
Replacing ==
  {<<P(A, <<>>, "singleton", "closer"), P(B, b, "singleton", "closer"),
     [P(A, a, "singleton", "plain") EXCEPT !.replace = r]>> :
     a \in {<<>>, <<B>>}, b \in {<<>>, <<A>>, <<C>>}, r \in BOOLEAN}
MCPlans == {<<>>} \cup Graphs \cup Replacing

D == [kind |-> "database", name |-> "database", gives |-> C]
S == [kind |-> "service", name |-> "service", gives |-> A]
K == [kind |-> "cache", name |-> "cache", gives |-> C]
J == [kind |-> "jobs", name |-> "jobs", gives |-> B]
MCComponents == {<<>>, <<D>>, <<K, J>>, <<S, S>>}

-----------------------------------------------------------------------------
(* Requests and routes.                                                    *)
NoCred == [bearer |-> Absent, key |-> Absent, basic |-> Absent]
NoBody == [is |-> "absent", ctype |-> "", fill |-> <<>>, value |-> Nil]
Ask(m, path) ==
  [method |-> m, path |-> path, host |-> "ok", id |-> "", proxy |-> FALSE, origin |-> "",
   preflight |-> FALSE, site |-> "", version |-> "", codings |-> <<>>, accept |-> <<>>,
   cred |-> NoCred, cookie |-> FALSE, noCache |-> FALSE, length |-> "ok",
   query |-> <<>>, headers |-> <<>>, cookies |-> <<>>, body |-> NoBody]

NoRules == [k |-> "struct", fields |-> <<>>, custom |-> FALSE]
R(m, pattern, stages, does) ==
  [method |-> m, pattern |-> pattern, name |-> "", stages |-> stages, does |-> does,
   input |-> <<>>, rules |-> NoRules]
E(r) == [groups |-> <<>>, route |-> r]
In(prefix, stages, e) == [e EXCEPT !.groups = <<[prefix |-> prefix, stages |-> stages]>> \o @]

Server(table, requests) ==
  [stages |-> <<>>, table |-> table, slash |-> FALSE, log |-> FALSE, recovery |-> FALSE,
   checks |-> <<>>, healthPaths |-> {<<"live">>, <<"ready">>}, requests |-> requests, second |-> {}]

Plain == [Server(<<E(R("GET", <<Lit("a")>>, <<>>, {"fail"}))>>, {Ask("GET", <<"a">>)})
            EXCEPT !.second = {Ask("GET", <<"a">>)}]

-----------------------------------------------------------------------------
(* Routing: patterns that overlap, and every short path.                   *)
Paths == {<<s>> : s \in {"a", "b", ""}} \cup {<<s, t>> : s \in {"a", "b"}, t \in {"a", "b", ""}}
         \cup {<<s, t, u>> : s \in {"a", "b"}, t \in {"a", "b"}, u \in {"a", "b", ""}}
         \cup {<<"a", "", "b">>}
Walk(ms) == {Ask(m, path) : m \in ms, path \in Paths}
Get(pattern) == E(R("GET", pattern, <<>>, {"bare"}))
Named(e, n) == [e EXCEPT !.route.name = n]
Post(e) == [e EXCEPT !.route.method = "POST"]

a == Lit("a")
b == Lit("b")
x == Par("x")
y == Par("y")
Tables == <<
  <<Get(<<a, b>>), Get(<<a, x, a>>), Get(<<x, b, b>>), Post(Get(<<x, y>>)), Get(<<Lit("")>>)>>,
  <<Get(<<a, x>>), Get(<<x, b>>), Get(<<x, y, b>>), Get(<<a, Wild("w")>>), Get(<<Wild("w")>>)>>,
  <<Get(<<a, b, x>>), Get(<<a, x, b>>), Get(<<x, y, a>>), Post(Get(<<a, b, Lit("")>>)), Get(<<b, Lit("")>>)>>,
  <<In(<<a>>, <<>>, Named(Get(<<Lit("")>>), "all")), In(<<a>>, <<>>, Named(Get(<<x>>), "one")),
    In(<<a>>, <<>>, In(<<b, Lit("")>>, <<>>, Get(<<y, Wild("w")>>))), Post(Get(<<x>>)),
    [Get(<<x, a>>) EXCEPT !.route.method = "HEAD"], [Get(<<b, b>>) EXCEPT !.route.method = "OPTIONS"]>>,
  <<Get(<<x, y, Wild("w")>>), Get(<<a, Wild("w")>>), Get(<<a, b, Lit("")>>), Get(<<x, b, a>>), Post(Get(<<a>>))>>,
  <<Get(<<x>>), Get(<<x, Lit("")>>), Get(<<a, y, b>>), Post(Get(<<Wild("w")>>)), Get(<<a, b, a>>)>>>>
Routing == [i \in 1..(2 * Len(Tables)) |->
  [Server(Tables[(i + 1) \div 2], Walk({"GET", "HEAD", "POST", "OPTIONS"})) EXCEPT !.slash = (i % 2 = 0)]]

(* Tables that Start must refuse.                                          *)
F(name, in, tag, kind) ==
  [name |-> name, in |-> in, tag |-> tag, kind |-> kind, multi |-> FALSE, opts |-> {},
   layout |-> FALSE, default |-> <<>>, json |-> TRUE, of |-> <<>>]
Rule(n, p) == [name |-> n, param |-> p]
Num == [k |-> "number"]
Fld(n, t, rs) == [name |-> n, type |-> t, rules |-> rs, skip |-> FALSE]
Rules(fs) == [k |-> "struct", fields |-> fs, custom |-> FALSE]
Takes(e, input, rules) ==
  [e EXCEPT !.route.does = {"typed"}, !.route.input = input, !.route.rules = rules]
Wrong == <<
  <<Get(<<a, x>>), Get(<<a, y>>)>>,
  <<Get(<<x, x>>)>>, <<Get(<<Wild("w"), a>>)>>, <<[Get(<<a>>) EXCEPT !.route.method = "G T"]>>,
  <<Named(Get(<<a>>), "n"), Named(Get(<<b>>), "n")>>,
  <<Takes(Get(<<a>>), <<[F("T", "query", "t", "int") EXCEPT !.multi = TRUE, !.opts = {"comma"},
                                                            !.default = <<"1", "2">>]>>, NoRules)>>,
  <<Takes(Get(<<a>>), <<F("T", "query", "t", "int")>>, Rules(<<Fld("T", Num, <<Rule("email", 0)>>)>>))>>>>
Refusing == [i \in DOMAIN Wrong |-> Server(Wrong[i], Walk({"GET"}))]

-----------------------------------------------------------------------------
(* Responses: the writers under every kind of handler, twice.              *)
Gzip == [name |-> "gzip", q |-> 1000]
Html == [typ |-> "text", sub |-> "html", q |-> 1000]
AnyType(q) == [typ |-> "*", sub |-> "*", q |-> q]
Everything == {"send", "bare", "fail", "stream", "format"}
OnA(stages) == <<E(R("GET", <<a>>, stages, Everything))>>
Is1(kind) == [is |-> kind]
Fetch == {[Ask(m, <<"a">>) EXCEPT !.codings = cs, !.accept = as] :
            m \in {"GET", "HEAD"}, cs \in {<<>>, <<Gzip>>, <<[Gzip EXCEPT !.name = "*", !.q = 0], Gzip>>},
            as \in {<<>>, <<AnyType(500), Html>>, <<AnyType(0)>>, <<[Html EXCEPT !.sub = "*", !.q = 200], Html, AnyType(600)>>}}
Again == {[Ask("GET", <<"a">>) EXCEPT !.codings = <<Gzip>>], Ask("HEAD", <<"a">>),
          [Ask("GET", <<"a">>) EXCEPT !.noCache = TRUE]}
Logged(s) == [s EXCEPT !.log = TRUE, !.recovery = TRUE]
Responses == <<
  Logged([Server(OnA(<<Is1("cache")>>), Fetch \cup {[Ask("GET", <<"a">>) EXCEPT !.cookie = TRUE]})
            EXCEPT !.stages = <<Is1("compress")>>, !.second = Again]),
  Logged([Server(OnA(<<Is1("compress")>>), Fetch) EXCEPT !.stages = <<Is1("std"), Is1("compress")>>]),
  Logged([Server(OnA(<<Is1("cache"), Is1("std")>>), {Ask("GET", <<"a">>)}) EXCEPT !.second = Again]),
  [Server(OnA(<<Is1("std")>>), Fetch) EXCEPT !.stages = <<Is1("compress")>>]>>

(* Guards of middleware, health probes and files.                          *)
CorsStage == [is |-> "cors", any |-> FALSE, credentials |-> TRUE, origins |-> {"friend"}]
Guarded == [Server(<<E(R("POST", <<a>>, <<Is1("sunset")>>, {"fail", "send"}))>>,
                   {[Ask(m, <<"a">>) EXCEPT !.origin = o, !.site = s, !.version = v,
                                            !.preflight = (m = "OPTIONS")] :
                      m \in {"POST", "OPTIONS"}, o \in {"", "friend", "stranger"},
                      s \in {"", "cross-site", "same-origin"}, v \in {"", "v2", "v9"}}
                   \cup {[Ask("POST", <<"a">>) EXCEPT !.host = "bad"],
                         [Ask("POST", <<"a">>) EXCEPT !.length = "over"],
                         [Ask("POST", <<"a">>) EXCEPT !.id = "valid", !.proxy = TRUE]})
  EXCEPT !.stages = <<CorsStage, [is |-> "csrf", trusted |-> {"friend"}], Is1("timeout"),
                      [is |-> "version", allowed |-> <<"v1", "v2">>]>>,
         !.log = TRUE, !.recovery = TRUE]
Check(opt, live) == [optional |-> opt, live |-> live]
Probed == [Server(OnA(<<>>), {Ask(m, <<q>>) : m \in {"GET", "HEAD", "POST"}, q \in {"live", "ready", "f", "z"}})
  EXCEPT !.stages = <<[is |-> "static", files |-> {<<"f">>}, spa |-> FALSE]>>, !.log = TRUE,
         !.checks = <<Check(FALSE, FALSE), Check(TRUE, TRUE), Check(FALSE, TRUE)>>]

-----------------------------------------------------------------------------
(* Callers.                                                                *)
Ann == [id |-> "ann", roles |-> {"admin"}, scopes |-> {"r", "w"}]
Bob == [id |-> "bob", roles |-> {"guest"}, scopes |-> {"r"}]
MCKeys == [k \in {"annKey", "bobKey"} |-> IF k = "annKey" THEN Ann ELSE Bob]
MCUsers == {<<"ann", "pw">>}
Token == [alg |-> "HS256", signed |-> TRUE, exp |-> "ahead", issuer |-> "us", audience |-> "api",
          sub |-> "ann", roles |-> {"admin"}, scopes |-> {"r"}]
Tokens == {Absent, Token, [Token EXCEPT !.sub = ""], [Token EXCEPT !.signed = FALSE],
           [Token EXCEPT !.exp = "past"], [Token EXCEPT !.issuer = "them"], [Token EXCEPT !.alg = "none"]}
Creds == {[bearer |-> t, key |-> k, basic |-> p] :
            t \in Tokens, k \in {Absent, "bobKey", "noKey"}, p \in {Absent}}
         \cup {[bearer |-> Absent, key |-> k, basic |-> p] :
            k \in {Absent, "bobKey", "noKey"}, p \in {<<"ann", "pw">>, <<"ann", "no">>}}
Banned == [op |-> "banned", role |-> "guest"]
Lookup == [op |-> "lookup"]
Needs == <<[op |-> "roles", names |-> {"admin", "root"}], [op |-> "scopes", names |-> {"r", "w"}],
           [op |-> "owner"], [op |-> "not", of |-> <<Banned>>],
           [op |-> "any", of |-> <<Lookup, Banned>>],
           [op |-> "not", of |-> <<[op |-> "any", of |-> <<Lookup, Banned>>]>>],
           [op |-> "not", of |-> <<[op |-> "all", of |-> <<Lookup, Banned>>]>>],
           [op |-> "all", of |-> <<[op |-> "owner"], [op |-> "not", of |-> <<Lookup>>]>>],
           [op |-> "any", of |-> <<>>], [op |-> "not", of |-> <<[op |-> "nil"]>>]>>
Numbered == <<"0", "1", "2", "3", "4", "5", "6", "7", "8", "9">>
PartsOf(ps) == ps \cup UNION {IF p.op \in Composite THEN Range(p.of) ELSE {} : p \in ps}
Early == [op |-> "not", of |-> <<[op |-> "any", of |-> <<[op |-> "owner"], Banned>>]>>]
MCPolicies == PartsOf(PartsOf(PartsOf(Range(Needs) \cup {Early})))
RECURSIVE Deep(_)
Deep(p) == IF p.op \in Composite /\ p.of # <<>> THEN 1 + Max({Deep(q) : q \in Range(p.of)}) ELSE 0
MCNesting == [p \in MCPolicies |-> Deep(p)]
Bearer(opt) == [is |-> "auth", optional |-> opt, names |-> <<"bearer", "apikey">>,
                cfg |-> [algorithms |-> {"HS256"}, issuer |-> "us", audience |-> ""]]
Basic(opt) == [Bearer(opt) EXCEPT !.names = <<"apikey", "basic", "bearer">>]
Guarding(stages) ==
  [i \in DOMAIN Needs |->
     In(<<Lit("g")>>, stages,
        E(R("GET", <<Lit(Numbered[i]), x>>, <<[is |-> "require", need |-> Needs[i]]>>, {"bare"})))]
Asking == <<<<Basic(FALSE)>>, <<Basic(TRUE)>>, <<Bearer(FALSE)>>, <<Bearer(TRUE)>>,
            <<[Bearer(TRUE) EXCEPT !.names = <<"bearer">>], Basic(FALSE)>>>>
Calls(ns, owner) == {[Ask("HEAD", <<"g", n, owner>>) EXCEPT !.cred = c] : n \in ns, c \in Creds}
Callers == [i \in DOMAIN Asking |-> Server(Guarding(Asking[i]), Calls(Range(Numbered), "ann"))]
           \o <<[Server(Guarding(<<>>), Calls({"0", "2", "4"}, "bob"))
                  EXCEPT !.stages = <<Basic(FALSE), [is |-> "require", need |-> Early]>>]>>

-----------------------------------------------------------------------------
(* Inputs.                                                                 *)
ID == F("ID", "path", "id", "int")
Tags == [F("Tags", "query", "", "int") EXCEPT !.multi = TRUE, !.opts = {"comma"}]
Page == [F("Page", "query", "page", "int") EXCEPT !.default = <<"1">>]
Name == F("Name", "", "", "string")
Strict == F("Strict", "", "", "strict")
Trace == F("Trace", "header", "X-Trace", "string")
BodyField == F("Body", "", "", "struct2")
Input1 == <<ID, [F("Paging", "", "", "struct") EXCEPT !.of = <<Tags, Page>>], Name, Trace>>
Input2 == <<ID, Tags, Page, Strict, BodyField>>
MCInputs == {Input1, Input1[2].of, Input2}
            \cup {Wrong[i][j].route.input : i \in DOMAIN Wrong, j \in {1}} \cup {<<>>}
Rules1 == Rules(<<Fld("ID", Num, <<Rule("min", 1)>>),
                  Fld("Tags", [k |-> "list", of |-> Num], <<Rule("max", 2), Rule("dive", 0), Rule("oneof", {1, 2})>>),
                  Fld("Page", Num, <<Rule("omitempty", 0), Rule("lt", 3)>>),
                  Fld("Name", Num, <<Rule("required", 0)>>), Fld("Trace", Num, <<>>)>>)
Item == [k |-> "struct", fields |-> <<Fld("Size", Num, <<Rule("required", 0), Rule("ne", 2)>>)>>, custom |-> TRUE]
Rules2 == Rules(<<Fld("ID", Num, <<>>), Fld("Tags", [k |-> "list", of |-> Num], <<Rule("required", 0)>>),
                  Fld("Page", Num, <<Rule("gt", 0)>>), [Fld("Strict", Num, <<>>) EXCEPT !.skip = TRUE],
                  Fld("Body", [k |-> "ptr", of |-> Rules(<<
                        Fld("Item", [k |-> "ptr", of |-> Item], <<>>),
                        Fld("Items", [k |-> "list", of |-> Item], <<Rule("min", 1)>>)>>)], <<Rule("required", 0)>>)>>)
PartsOfTypes(ts) ==
  ts \cup UNION {CASE t.k \in {"ptr", "list"} -> {t.of}
                   [] t.k = "struct" -> {f.type : f \in Range(t.fields)}
                   [] OTHER -> {} : t \in ts}
MCValidated == LET one == PartsOfTypes({Rules1, Rules2, NoRules} \cup {Wrong[i][1].route.rules : i \in DOMAIN Wrong})
           IN PartsOfTypes(PartsOfTypes(PartsOfTypes(PartsOfTypes(one))))
RECURSIVE DataOf(_)
DataOf(depth) == [n : -1..3, of : IF depth = 0 THEN {<<>>} ELSE Seq(DataOf(depth - 1))]
MCData == DataOf(5)
Raw(s) == <<<<s>>>>
Queries == {<<>>, [n \in {"page"} |-> Raw("2")], [n \in {"page"} |-> Raw("x")],
            [n \in {"page", "Tags"} |-> IF n = "page" THEN Raw("3") ELSE <<<<"1", "">>, <<"2">>>>],
            [n \in {"Tags"} |-> <<<<"3">>>>], [n \in {"Tags", "zz"} |-> Raw("1")]}
Sized(n) == StructOf(<<Scalar(n)>>)
BodyOf(item, items) == PtrTo(StructOf(<<item, items>>))
Filled == [n \in {"Name", "ID", "Page", "Tags"} |-> Raw("2")]
JSON == [is |-> "ok", ctype |-> "application/json", fill |-> Filled, value |-> BodyOf(Nil, ListOf(<<Sized(1)>>))]
Bodies == {NoBody, JSON, [JSON EXCEPT !.ctype = "text/plain"], [JSON EXCEPT !.is = "unknownField"],
           [JSON EXCEPT !.is = "tooLarge"], [JSON EXCEPT !.is = "syntax"],
           [JSON EXCEPT !.value = BodyOf(PtrTo(Sized(0)), ListOf(<<Sized(1)>>))],
           [JSON EXCEPT !.value = BodyOf(PtrTo(Sized(3)), ListOf(<<Sized(1), Sized(2)>>))],
           [JSON EXCEPT !.value = BodyOf(Nil, ListOf(<<>>)), !.fill = [n \in {"ID"} |-> Raw("1")]]}
Asked == {[Ask("POST", <<"a", id>>) EXCEPT !.query = q, !.body = bd] :
            id \in {"1", "0", "x"}, q \in Queries, bd \in Bodies}
Typing == <<Server(<<Takes(Post(Get(<<a, Par("id")>>)), Input1, Rules1)>>, Asked),
            Server(<<Takes(Post(Get(<<a, Par("id")>>)), Input2, Rules2)>>, Asked)>>

-----------------------------------------------------------------------------
MCServers == <<Plain>> \o Routing \o Refusing \o Responses \o <<Guarded, Probed>> \o Callers \o Typing

(* Only the plain application has dependencies; with components they are   *)
(* few.                                                                    *)
MCInit ==
  /\ ApplicationInit
  /\ server # 1 => plan = <<>> /\ infra = <<>>
  /\ infra # <<>> => plan \notin Graphs
MCSpec == MCInit /\ [][ApplicationNext]_applicationVars
=============================================================================
