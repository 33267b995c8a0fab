------------------------------- MODULE Router -------------------------------
(***************************************************************************)
(* The router (router.go), the paths of groups (group.go), the building of *)
(* URLs (route.go) and what App.dispatch and App.noRoute make of a lookup. *)
(*                                                                         *)
(* A path is the sequence of its segments ("/" is <<"">>, "/a/" is         *)
(* <<"a", "">>); a pattern is a sequence of [k, n] with k "lit", "par",    *)
(* "wild" or "mixed" and n the text or the name.  A node of the trie is    *)
(* the sequence of the keys that lead to it, so the trie of a method is    *)
(* given by the shapes of its routes; a route is [method, pattern, name].  *)
(***************************************************************************)
EXTENDS Naturals, Sequences, SequencesExt, FiniteSets, Positions

CONSTANTS NoRoute, Methods

Lit(s) == [k |-> "lit", n |-> s]
Par(s) == [k |-> "par", n |-> s]
Wild(s) == [k |-> "wild", n |-> s]

-----------------------------------------------------------------------------
(* Registration.                                                           *)

(* A path "" or "/" inside a group is the group's prefix itself; trailing  *)
(* slashes of the prefix go.                                               *)
JoinPaths(prefix, path) ==
  LET base == IF prefix # <<>> /\ Last(prefix) = Lit("") THEN Front(prefix) ELSE prefix
  IN IF path \in {<<>>, <<Lit("")>>}
       THEN IF base = <<>> THEN <<Lit("")>> ELSE base
       ELSE base \o path

(* A parameter's names, and where they are, are in the order of the        *)
(* pattern.                                                                *)
Parametric(pat) == {i \in DOMAIN pat : pat[i].k \in {"par", "wild"}}
ParamNames(pat) == Picked([i \in DOMAIN pat |-> pat[i].n], Parametric(pat))

PatternValid(pat) ==
  /\ pat # <<>>
  /\ \A i \in DOMAIN pat :
       /\ pat[i].k \in {"lit", "par", "wild"}
       /\ pat[i] = Lit("") => i = Len(pat)
       /\ pat[i].k = "par" => pat[i].n # ""
       /\ pat[i].k = "wild" => i = Len(pat)
  /\ \A i, j \in Parametric(pat) : pat[i].n = pat[j].n => i = j

Key(seg) == IF seg.k = "lit" THEN <<"lit", seg.n>> ELSE <<seg.k, "">>
Shape(pat) == [i \in DOMAIN pat |-> Key(pat[i])]

Conflict(routes, r) ==
  \E i \in DOMAIN routes : routes[i].method = r.method /\ Shape(routes[i].pattern) = Shape(r.pattern)

(* What addRoute reports, and the routes after it.                         *)
RouteProblem(routes, r) ==
  CASE r.method \notin Methods -> {"INVALID_ROUTE"}
    [] ~PatternValid(r.pattern) -> {"INVALID_ROUTE"}
    [] Conflict(routes, r) -> {"DUPLICATE_ROUTE"}
    [] OTHER -> {}
WithRoute(routes, r) == IF RouteProblem(routes, r) = {} THEN Append(routes, r) ELSE routes

(* A name is taken by the first route that has it.                         *)
NameProblem(routes) ==
  IF \E i, j \in DOMAIN routes : i < j /\ routes[i].name = routes[j].name /\ routes[i].name # ""
    THEN {"DUPLICATE_ROUTE_NAME"} ELSE {}

-----------------------------------------------------------------------------
(* Lookup.                                                                 *)

Nothing == [route |-> NoRoute, vals |-> <<>>]

Nodes(routes, m) ==
  UNION {{SubSeq(Shape(r.pattern), 1, l) : l \in 0..Len(r.pattern)} :
           r \in {q \in Range(routes) : q.method = m}}
RouteAt(routes, m, node) ==
  LET here == {r \in Range(routes) : r.method = m /\ Shape(r.pattern) = node}
  IN IF here = {} THEN NoRoute ELSE CHOOSE r \in here : TRUE

(* (Slip: the first child that exists is the only one tried.)              *)
OrElseNever(first, node, nodes, second) == IF node \in nodes THEN first ELSE second

(* Backtracking: a child without a match leaves the choice to the next.    *)
OrElse(first, node, nodes, second) == IF first.route # NoRoute THEN first ELSE second

(* The child that a segment leads to: the route there when no segment is   *)
(* left, what it matches otherwise, and the value the segment gave.        *)
Descend(routes, m, path, child, vs, match) ==
  CASE child \notin Nodes(routes, m) -> Nothing
    [] child \in Nodes(routes, m) /\ Len(child) = Len(path) ->
         LET r == RouteAt(routes, m, child)
         IN IF r = NoRoute THEN Nothing ELSE [route |-> r, vals |-> vs]
    [] OTHER -> IF match[child].route = NoRoute THEN Nothing
                ELSE [match[child] EXCEPT !.vals = vs \o @]

(* node.match: the segment after those that led to the node, as a literal, *)
(* as a parameter, or with all that follow as a wildcard.                  *)
MatchAt(routes, m, path, at, match) ==
  LET seg == path[Len(at) + 1]
      lit == Append(at, <<"lit", seg>>)
      par == Append(at, <<"par", "">>)
      wild == RouteAt(routes, m, Append(at, <<"wild", "">>))
      byWild == IF wild = NoRoute THEN Nothing
                ELSE [route |-> wild, vals |-> <<SubSeq(path, Len(at) + 1, Len(path))>>]
      byPar == IF seg = "" THEN Nothing ELSE Descend(routes, m, path, par, <<<<seg>>>>, match)
  IN OrElse(Descend(routes, m, path, lit, <<>>, match), lit, Nodes(routes, m),
            OrElse(byPar, par, Nodes(routes, m), byWild))

Inner(routes, m, path) == {at \in Nodes(routes, m) : Len(at) < Len(path)}
Match(routes, m, path) ==
  LET match[at \in Inner(routes, m, path)] == MatchAt(routes, m, path, at, match)
  IN match
Find(routes, m, path) ==
  IF <<>> \in Inner(routes, m, path) THEN Match(routes, m, path)[<<>>] ELSE Nothing
Found(routes, m, path) == Find(routes, m, path).route # NoRoute

Allowed(routes, path) ==
  LET ms == {m \in Methods : Found(routes, m, path)}
  IN IF ms = {} THEN {}
     ELSE ms \cup {"OPTIONS"} \cup (IF "GET" \in ms THEN {"HEAD"} ELSE {})

(* The other spelling of a path: without or with the trailing slash.       *)
Alternative(path) == IF Last(path) = "" THEN Front(path) ELSE Append(path, "")
ReadMethod(m) == IF m = "HEAD" THEN "GET" ELSE m
Redirects(routes, m, path, redirectSlash) ==
  /\ redirectSlash /\ path # <<"">>
  /\ \A i \in DOMAIN path : path[i] = "" => i = Len(path)
  /\ Found(routes, ReadMethod(m), Alternative(path))

(* dispatch, noRoute: a route with its values, or the status and header of *)
(* the answer.                                                             *)
Dispatch(routes, m, path, redirectSlash) ==
  LET direct == Find(routes, m, path)
      asGet == IF m = "HEAD" THEN Find(routes, "GET", path) ELSE Nothing
      answer(status) == [route |-> NoRoute, vals |-> <<>>, status |-> status]
      hit(f) == [route |-> f.route, vals |-> f.vals, status |-> 0]
  IN CASE direct.route # NoRoute -> hit(direct)
       [] direct.route = NoRoute /\ asGet.route # NoRoute -> hit(asGet)
       [] OTHER ->
            CASE Redirects(routes, m, path, redirectSlash) ->
                   answer(IF m \in {"GET", "HEAD"} THEN 301 ELSE 308)
              [] ~Redirects(routes, m, path, redirectSlash) /\ Allowed(routes, path) # {} ->
                   answer(IF m = "OPTIONS" THEN 204 ELSE 405)
              [] OTHER -> answer(404)

-----------------------------------------------------------------------------
(* URLs of named routes: values maps the parameter names to segments (a    *)
(* wildcard's value to a sequence of them); escaping keeps a segment one.  *)
BuildURL(r, values) ==
  LET n == Len(r.pattern)
      url == [i \in 1..n |-> IF r.pattern[i].k = "par" THEN values[r.pattern[i].n][1]
                             ELSE r.pattern[i].n]
  IN IF r.pattern[n].k = "wild" THEN SubSeq(url, 1, n - 1) \o values[r.pattern[n].n] ELSE url

-----------------------------------------------------------------------------
(* The reference: which routes match a path, and which of them wins.       *)

Covers(pat, path) ==
  LET n == Len(pat)
      one(i) == (pat[i].k = "par" /\ path[i] # "") \/ pat[i] = Lit(path[i])
  IN IF pat[n].k = "wild" THEN n <= Len(path) /\ \A i \in 1..(n - 1) : one(i)
     ELSE n = Len(path) /\ \A i \in 1..n : one(i)

Rank(seg) == CASE seg.k = "lit" -> 0 [] seg.k = "par" -> 1 [] OTHER -> 2
Beats(p, q) ==
  \E i \in DOMAIN p \cap DOMAIN q :
    /\ \A j \in 1..(i - 1) : Rank(p[j]) = Rank(q[j])
    /\ Rank(p[i]) < Rank(q[i])

ValuesIn(pat, path) ==
  Picked([i \in DOMAIN pat |->
            IF pat[i].k = "wild" THEN SubSeq(path, i, Len(path)) ELSE <<path[i]>>],
         Parametric(pat))

BestRoute(routes, m, path) ==
  LET fit == {r \in Range(routes) : r.method = m /\ Covers(r.pattern, path)}
  IN IF fit = {} THEN Nothing
     ELSE LET r == CHOOSE q \in fit : \A o \in fit \ {q} : Beats(q.pattern, o.pattern)
          IN [route |-> r, vals |-> ValuesIn(r.pattern, path)]
=============================================================================
