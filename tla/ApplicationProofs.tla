------------------------- MODULE ApplicationProofs -------------------------
(***************************************************************************)
(* What holds of an application for every set of registrations, routes,    *)
(* middleware, policies and requests.                                      *)
(***************************************************************************)
EXTENDS Application, StartupProofs, ListsProofs

(***************************************************************************)
(* An application's container is that of Startup.tla: routes and requests  *)
(* are steps of it or leave it alone, so what StartupProofs shows holds    *)
(* here too.                                                               *)
(***************************************************************************)
LEMMA NamesAreCodes == NameProblem(routes) \in SUBSET Code
BY DEF NameProblem, Code

LEMMA RoutesAreCodes ==
  ASSUME NEW r
  PROVE  RouteProblem(routes, r) \cup (IF r.method \in Methods /\ PlanFor(r.input).broken
                                        THEN {"INVALID_HANDLER"} ELSE {}) \in SUBSET Code
<1>1. RouteProblem(routes, r) \subseteq {"INVALID_ROUTE", "DUPLICATE_ROUTE"}
  BY DEF RouteProblem
<1> QED BY <1>1 DEF Code

LEMMA StepIsStartup == [ApplicationNext]_applicationVars => [StartupNext]_startupVars
<1> SUFFICES ASSUME [ApplicationNext]_applicationVars PROVE [StartupNext]_startupVars
  OBVIOUS
<1>1. CASE UNCHANGED applicationVars
  BY <1>1 DEF applicationVars
<1>2. CASE Register
  <2>1. \E found \in SUBSET Code : Report(found)
    BY <1>2, RoutesAreCodes DEF Register
  <2> QED BY <2>1 DEF StartupNext
<1>3. CASE Alone(StartRoutes)
  <2>1. \E found \in SUBSET Code : Begin(found)
    BY <1>3, NamesAreCodes DEF Alone, StartRoutes
  <2> QED BY <2>1 DEF StartupNext
<1>4. CASE Accept \/ Finish \/ Abandon
  BY <1>4 DEF Accept, Finish, Abandon, StartupNext
<1>5. CASE Inject
  BY <1>5 DEF Inject, StartupNext
<1>6. CASE Serve
  BY <1>6 DEF Serve
<1>7. CASE Alone(Freeze)
  BY <1>7 DEF Alone, Freeze, StartupNext
<1>8. CASE \/ Alone(Provide) \/ Alone(AddComponent) \/ Alone(ValidateGraph)
           \/ Alone(Visit) \/ Alone(Visited) \/ Alone(SearchEnds)
           \/ Alone(BuildFor) \/ Alone(Construct) \/ Alone(ConstructFails)
           \/ Alone(CloseBuilt) \/ Alone(Undone)
           \/ Alone(StartHook) \/ Alone(StartHookFails) \/ Alone(Started)
           \/ Alone(StopHook) \/ Alone(HooksStopped)
           \/ Alone(CloseScoped) \/ Alone(Stop) \/ Alone(Ended)
  BY <1>8 DEF Alone, StartupNext
<1> QED BY <1>1, <1>2, <1>3, <1>4, <1>5, <1>6, <1>7, <1>8 DEF ApplicationNext

(* Registering routes and serving requests changes nothing of a start but  *)
(* what addRoute reports: an application behaves as Startup says.          *)
THEOREM ApplicationIsStartup == ApplicationSpec => StartupSpec
<1>1. ApplicationInit => StartupInit
  BY DEF ApplicationInit
<1> QED BY <1>1, StepIsStartup, PTL DEF ApplicationSpec, StartupSpec

(* So what the container promises (container.go) it promises while routes  *)
(* are registered and requests served.                                     *)
THEOREM ApplicationContainer == ApplicationSpec => []ContainerSound
BY ApplicationIsStartup, ContainerSafety, PTL

-----------------------------------------------------------------------------
(***************************************************************************)
(* Policies.                                                               *)
(***************************************************************************)
Verdict == {"allow", "deny", "fail"}

LEMMA MinIs ==
  ASSUME NEW K \in SUBSET Nat, K # {}
  PROVE  Min(K) \in K /\ \A k \in K : Min(K) <= k
BY LeastNatural DEF Min

LEMMA PolicyParts ==
  ASSUME NEW p \in Policies, p.op \in Composite
  PROVE  /\ p.of \in Seq(Policies)
         /\ \A i \in DOMAIN p.of : p.of[i] \in Policies /\ Nesting[p.of[i]] < Nesting[p]
         /\ p.op = "not" => DOMAIN p.of = {1} /\ Len(p.of) = 1
<1>1. p.of \in Seq(Policies) /\ \A i \in DOMAIN p.of : Nesting[p.of[i]] < Nesting[p]
  BY AuthAssumption
<1>2. \A i \in DOMAIN p.of : p.of[i] \in Policies
  BY <1>1
<1>3. p.op = "not" => Len(p.of) = 1
  BY AuthAssumption
<1>4. Len(p.of) = 1 => DOMAIN p.of = {1}
  BY <1>1
<1> QED BY <1>1, <1>2, <1>3, <1>4

LEMMA LeafVerdict ==
  ASSUME NEW p, NEW who, NEW subject
  PROVE  Leaf(p, who, subject) \in Verdict
BY DEF Leaf, OwnerIs, Verdict

LEMMA CombineVerdict ==
  ASSUME NEW p \in Policies, p.op \in Composite, NEW vs \in [DOMAIN p.of -> Verdict]
  PROVE  Combine(p, vs) \in Verdict
<1> DEFINE against == {i \in DOMAIN vs : vs[i] # "allow"}
<1>1. p.of \in Seq(Policies) /\ DOMAIN vs = DOMAIN p.of /\ DOMAIN vs \in SUBSET Nat
  BY PolicyParts
<1>2. CASE p.op = "all"
  <2>1. against # {} => Min(against) \in against
    <3>1. against \in SUBSET Nat
      BY <1>1
    <3> HIDE DEF against
    <3> QED BY <3>1, MinIs
  <2>2. Combine(p, vs) = IF against = {} THEN "allow" ELSE vs[Min(against)]
    BY <1>2 DEF Combine
  <2> QED BY <2>1, <2>2 DEF Verdict
<1>3. CASE p.op = "any"
  <2>1. vs # <<>> => Len(vs) \in DOMAIN vs
    <3>1. vs \in Seq(Verdict)
      BY <1>1
    <3> QED BY <3>1
  <2>2. Combine(p, vs) \in {"deny", "allow", vs[Len(vs)]}
    BY <1>3 DEF Combine
  <2>3. vs = <<>> => Combine(p, vs) = "deny"
    BY <1>3 DEF Combine
  <2> QED BY <2>1, <2>2, <2>3 DEF Verdict
<1>4. CASE p.op = "not"
  BY <1>4, PolicyParts DEF Combine, Invert, Verdict
<1> QED BY <1>2, <1>3, <1>4 DEF Composite

(* The verdict of a policy is made of those of its parts.                  *)
LEMMA JudgeIs ==
  ASSUME NEW who, NEW subject
  PROVE  /\ Verdicts(who, subject) \in [Policies -> Verdict]
         /\ \A p \in Policies :
              Verdicts(who, subject)[p] =
                IF p.op \in Composite
                  THEN Combine(p, [i \in DOMAIN p.of |-> Verdicts(who, subject)[p.of[i]]])
                ELSE Leaf(p, who, subject)
<1> DEFINE parts(f, p) == [i \in DOMAIN p.of |-> f[p.of[i]]]
           value(f, p) == IF p.op \in Composite THEN Combine(p, parts(f, p)) ELSE Leaf(p, who, subject)
           step == [f \in [Policies -> Verdict] |-> [p \in Policies |-> value(f, p)]]
<1>1. ASSUME NEW f \in [Policies -> Verdict], NEW p \in Policies PROVE value(f, p) \in Verdict
  <2>1. CASE p.op \in Composite
    <3>1. parts(f, p) \in [DOMAIN p.of -> Verdict]
      BY <2>1, PolicyParts
    <3> HIDE DEF parts
    <3> QED BY <2>1, <3>1, CombineVerdict
  <2>2. CASE p.op \notin Composite
    BY <2>2, LeafVerdict
  <2> QED BY <2>1, <2>2
<1>2. step \in [[Policies -> Verdict] -> [Policies -> Verdict]]
  <2> HIDE DEF value
  <2> QED BY <1>1
<1>3. ASSUME NEW f \in [Policies -> Verdict], NEW g \in [Policies -> Verdict], NEW p \in Policies,
             \A q \in Policies : Nesting[q] < Nesting[p] => f[q] = g[q]
      PROVE  step[f][p] = step[g][p]
  <2>1. p.op \in Composite => parts(f, p) = parts(g, p)
    BY <1>3, PolicyParts
  <2>2. value(f, p) = value(g, p)
    <3> HIDE DEF parts
    <3> QED BY <2>1
  <2> HIDE DEF value
  <2> QED BY <2>2
<1>4. \E f \in [Policies -> Verdict] : step[f] = f
  <2>1. Nesting \in [Policies -> Nat]
    BY AuthAssumption
  <2>2. Verdict # {}
    BY DEF Verdict
  <2>3. \A f, g \in [Policies -> Verdict] : \A p \in Policies :
          (\A q \in Policies : Nesting[q] < Nesting[p] => f[q] = g[q]) => step[f][p] = step[g][p]
    <3> HIDE DEF step
    <3> QED BY <1>3
  <2> HIDE DEF step
  <2>4. Causal(Policies, Verdict, Nesting, step)
    BY <1>2, <2>1, <2>2, <2>3 DEF Causal
  <2> QED BY <2>4, Recursion
<1>5. PICK w \in [Policies -> Verdict] : w = [p \in Policies |-> value(w, p)]
  <2> HIDE DEF value
  <2> QED BY <1>4
<1> DEFINE v == Verdicts(who, subject)
<1>6. v = CHOOSE f : f = [p \in Policies |-> value(f, p)]
  BY DEF Verdicts
<1>7. v = [p \in Policies |-> value(v, p)]
  <2> DEFINE Fix(f) == f = [p \in Policies |-> value(f, p)]
  <2>1. Fix(w) /\ v = CHOOSE f : Fix(f)
    BY <1>5, <1>6
  <2>2. Fix(v)
    <3> HIDE DEF Fix, v
    <3> QED BY <2>1
  <2> QED BY <2>2
<1> HIDE DEF v
<1>8. \A p \in Policies : v[p] \in Verdict
  <2> DEFINE G == {p \in Policies : v[p] \in Verdict}
  <2>1. ASSUME NEW p \in Policies, \A q \in Policies : Nesting[q] < Nesting[p] => q \in G
        PROVE  p \in G
    <3>1. v[p] = value(v, p)
      <4> HIDE DEF value
      <4> QED BY <1>7
    <3>2. CASE p.op \in Composite
      <4>1. parts(v, p) \in [DOMAIN p.of -> Verdict]
        BY <2>1, <3>2, PolicyParts
      <4> HIDE DEF parts
      <4> QED BY <3>1, <3>2, <4>1, CombineVerdict
    <3>3. CASE p.op \notin Composite
      BY <3>1, <3>3, LeafVerdict
    <3> QED BY <3>2, <3>3
  <2>2. Nesting \in [Policies -> Nat]
    BY AuthAssumption
  <2> HIDE DEF G
  <2>3. Policies \subseteq G
    BY <2>1, <2>2, RankInduction
  <2> QED BY <2>3 DEF G
<1>9. v \in [Policies -> Verdict]
  <2> HIDE DEF value
  <2> QED BY <1>7, <1>8
<1>10. \A p \in Policies : v[p] = value(v, p)
  <2> HIDE DEF value
  <2> QED BY <1>7
<1> QED BY <1>9, <1>10 DEF v

(* The meaning of a policy likewise.                                       *)
LEMMA MeaningIs ==
  ASSUME NEW who, NEW subject, NEW p \in Policies
  PROVE  Holds3(p, who, subject) =
           IF p.op \in Composite
             THEN Meaning(p, {Holds3(p.of[i], who, subject) : i \in DOMAIN p.of})
           ELSE Leaf(p, who, subject)
<1> DEFINE parts(f, q) == {f[q.of[i]] : i \in DOMAIN q.of}
           value(f, q) == IF q.op \in Composite THEN Meaning(q, parts(f, q)) ELSE Leaf(q, who, subject)
           step == [f \in [Policies -> Verdict] |-> [q \in Policies |-> value(f, q)]]
           Fix(f) == f = [q \in Policies |-> value(f, q)]
           v == Meanings(who, subject)
<1>1. ASSUME NEW f, NEW q PROVE value(f, q) \in Verdict
  <2>1. Meaning(q, parts(f, q)) \in Verdict
    <3> HIDE DEF parts
    <3> QED BY DEF Meaning, Verdict
  <2> QED BY <2>1, LeafVerdict
<1>2. step \in [[Policies -> Verdict] -> [Policies -> Verdict]]
  <2> HIDE DEF value
  <2> QED BY <1>1
<1>3. ASSUME NEW f \in [Policies -> Verdict], NEW g \in [Policies -> Verdict], NEW q \in Policies,
             \A o \in Policies : Nesting[o] < Nesting[q] => f[o] = g[o]
      PROVE  step[f][q] = step[g][q]
  <2>1. q.op \in Composite => parts(f, q) = parts(g, q)
    BY <1>3, PolicyParts
  <2>2. value(f, q) = value(g, q)
    <3> HIDE DEF parts
    <3> QED BY <2>1
  <2> HIDE DEF value
  <2> QED BY <2>2
<1>4. Causal(Policies, Verdict, Nesting, step)
  <2>1. Nesting \in [Policies -> Nat] /\ Verdict # {}
    BY AuthAssumption DEF Verdict
  <2> HIDE DEF step
  <2> QED BY <1>2, <1>3, <2>1 DEF Causal
<1>5. \E w : Fix(w)
  <2>1. PICK w \in [Policies -> Verdict] : step[w] = w
    <3> HIDE DEF step
    <3> QED BY <1>4, Recursion
  <2>2. Fix(w)
    <3> HIDE DEF value
    <3> QED BY <2>1
  <2> HIDE DEF Fix
  <2> QED BY <2>2
<1>6. v = CHOOSE f : Fix(f)
  BY DEF Meanings
<1>7. Fix(v)
  <2> HIDE DEF Fix, v
  <2> QED BY <1>5, <1>6
<1>8. v[p] = value(v, p)
  <2> HIDE DEF value, v
  <2> QED BY <1>7
<1> QED BY <1>8 DEF Holds3

(* A policy forgets a failure itself or within one of its parts.           *)
LEMMA ForgetsIs ==
  ASSUME NEW who, NEW subject, NEW p \in Policies
  PROVE  ForgetsFailure(p, who, subject) <=>
           \/ Forgets(p, who, subject)
           \/ p.op \in Composite /\ \E i \in DOMAIN p.of : ForgetsFailure(p.of[i], who, subject)
<1> DEFINE value(f, q) == \/ Forgets(q, who, subject)
                          \/ q.op \in Composite /\ \E i \in DOMAIN q.of : f[q.of[i]]
           step == [f \in [Policies -> BOOLEAN] |-> [q \in Policies |-> value(f, q)]]
           Fix(f) == f = [q \in Policies |-> value(f, q)]
           v == Forgetful(who, subject)
<1>1. ASSUME NEW f, NEW q PROVE value(f, q) \in BOOLEAN
  OBVIOUS
<1>2. step \in [[Policies -> BOOLEAN] -> [Policies -> BOOLEAN]]
  <2> HIDE DEF value
  <2> QED BY <1>1
<1>3. ASSUME NEW f \in [Policies -> BOOLEAN], NEW g \in [Policies -> BOOLEAN], NEW q \in Policies,
             \A o \in Policies : Nesting[o] < Nesting[q] => f[o] = g[o]
      PROVE  step[f][q] = step[g][q]
  <2>1. q.op \in Composite => \A i \in DOMAIN q.of : f[q.of[i]] = g[q.of[i]]
    BY <1>3, PolicyParts
  <2>2. value(f, q) = value(g, q)
    BY <2>1
  <2> HIDE DEF value
  <2> QED BY <2>2
<1>4. Causal(Policies, BOOLEAN, Nesting, step)
  <2>1. Nesting \in [Policies -> Nat]
    BY AuthAssumption
  <2> HIDE DEF step
  <2> QED BY <1>2, <1>3, <2>1 DEF Causal
<1>5. \E w : Fix(w)
  <2>1. PICK w \in [Policies -> BOOLEAN] : step[w] = w
    <3> HIDE DEF step
    <3> QED BY <1>4, Recursion
  <2>2. Fix(w)
    <3> HIDE DEF value
    <3> QED BY <2>1
  <2> HIDE DEF Fix
  <2> QED BY <2>2
<1>6. v = CHOOSE f : Fix(f)
  BY DEF Forgetful
<1>7. Fix(v)
  <2> HIDE DEF Fix, v
  <2> QED BY <1>5, <1>6
<1>8. v[p] = value(v, p)
  <2> HIDE DEF value, v
  <2> QED BY <1>7
<1> QED BY <1>8 DEF ForgetsFailure

(* Where no failure is forgotten, a verdict that allows or denies is the   *)
(* meaning of the policy.                                                  *)
Sound3(p, who, subject) ==
  \/ ForgetsFailure(p, who, subject)
  \/ /\ Judge(p, who, subject) = "allow" => Holds3(p, who, subject) = "allow"
     /\ Judge(p, who, subject) = "deny" => Holds3(p, who, subject) = "deny"

LEMMA CompositeSound ==
  ASSUME NEW who, NEW subject, NEW p \in Policies, p.op \in Composite,
         \A i \in DOMAIN p.of : Sound3(p.of[i], who, subject)
  PROVE  Sound3(p, who, subject)
<1> DEFINE J(i) == Judge(p.of[i], who, subject)
           H(i) == Holds3(p.of[i], who, subject)
           vs == [i \in DOMAIN p.of |-> J(i)]
           ms == {H(i) : i \in DOMAIN p.of}
           against == {i \in DOMAIN vs : vs[i] # "allow"}
<1> SUFFICES ASSUME ~ForgetsFailure(p, who, subject)
             PROVE  /\ Judge(p, who, subject) = "allow" => Holds3(p, who, subject) = "allow"
                    /\ Judge(p, who, subject) = "deny" => Holds3(p, who, subject) = "deny"
  BY DEF Sound3
<1>1. \A i \in DOMAIN p.of : /\ J(i) = "allow" => H(i) = "allow"
                             /\ J(i) = "deny" => H(i) = "deny"
                             /\ J(i) \in Verdict
  <2>1. \A i \in DOMAIN p.of : J(i) \in Verdict
    BY JudgeIs, PolicyParts DEF Judge
  <2>2. \A i \in DOMAIN p.of : ~ForgetsFailure(p.of[i], who, subject)
    BY ForgetsIs
  <2> QED BY <2>1, <2>2 DEF Sound3
<1>2. Judge(p, who, subject) = Combine(p, vs)
  BY JudgeIs DEF Judge
<1>3. Holds3(p, who, subject) = Meaning(p, ms)
  BY MeaningIs
<1>4. ~Forgets(p, who, subject)
  BY ForgetsIs
<1>5. p.of \in Seq(Policies) /\ DOMAIN vs = DOMAIN p.of /\ DOMAIN p.of \in SUBSET Nat
  BY PolicyParts
<1>6. CASE p.op = "all"
  <2>1. against # {} => Min(against) \in against
    <3>1. against \in SUBSET Nat
      BY <1>5
    <3> HIDE DEF against
    <3> QED BY <3>1, MinIs
  <2>2. Combine(p, vs) = IF against = {} THEN "allow" ELSE vs[Min(against)]
    BY <1>6 DEF Combine
  <2>3. CASE Combine(p, vs) = "allow"
    <3>1. against = {}
      <4>1. against # {} => vs[Min(against)] # "allow"
        BY <2>1
      <4> QED BY <2>2, <2>3, <4>1
    <3>2. \A i \in DOMAIN p.of : J(i) = "allow"
      BY <3>1
    <3>3. ms \subseteq {"allow"}
      BY <1>1, <3>2
    <3>4. Meaning(p, ms) = "allow"
      BY <1>6, <3>3 DEF Meaning
    <3> QED BY <1>2, <1>3, <2>3, <3>4
  <2>4. CASE Combine(p, vs) = "deny"
    <3>1. \E i \in DOMAIN p.of : J(i) = "deny"
      BY <2>1, <2>2, <2>4
    <3>2. "deny" \in ms
      BY <1>1, <3>1
    <3>3. Meaning(p, ms) = "deny"
      BY <1>6, <3>2 DEF Meaning
    <3> QED BY <1>2, <1>3, <2>4, <3>3
  <2> QED BY <1>2, <2>3, <2>4
<1>7. CASE p.op = "any"
  <2>1. Combine(p, vs) = CASE vs = <<>> -> "deny"
                           [] vs # <<>> /\ against # DOMAIN vs -> "allow"
                           [] OTHER -> vs[Len(vs)]
    BY <1>7 DEF Combine
  <2>2. vs = <<>> <=> DOMAIN p.of = {}
    BY <1>5
  <2>3. CASE Combine(p, vs) = "allow"
    <3>1. \E i \in DOMAIN p.of : J(i) = "allow"
      <4>1. against # DOMAIN vs => \E i \in DOMAIN p.of : J(i) = "allow"
        OBVIOUS
      <4>2. against = DOMAIN vs /\ vs # <<>> => vs[Len(vs)] # "allow"
        <5>1. vs \in Seq(Verdict)
          BY <1>1, <1>5
        <5>2. vs # <<>> => Len(vs) \in DOMAIN vs
          BY <5>1
        <5> QED BY <5>2
      <4> HIDE DEF vs, against
      <4> QED BY <2>1, <2>3, <4>1, <4>2
    <3>2. "allow" \in ms
      BY <1>1, <3>1
    <3>3. Meaning(p, ms) = "allow"
      BY <1>7, <3>2 DEF Meaning
    <3> QED BY <1>2, <1>3, <2>3, <3>3
  <2>4. CASE Combine(p, vs) = "deny"
    <3>1. \A i \in DOMAIN p.of : J(i) = "deny"
      <4>1. CASE vs = <<>>
        BY <2>2, <4>1
      <4>2. CASE vs # <<>>
        <5>1. against = DOMAIN vs /\ vs[Len(vs)] = "deny"
          BY <2>1, <2>4, <4>2
        <5>2. vs \in Seq(Verdict) /\ Len(vs) = Len(p.of)
          BY <1>1, <1>5
        <5>3. Len(p.of) \in DOMAIN p.of /\ J(Len(p.of)) = "deny"
          BY <1>5, <4>2, <5>1, <5>2
        <5>4. \A i \in DOMAIN p.of : J(i) # "allow"
          BY <5>1
        <5>5. \A i \in DOMAIN p.of : i < Len(p.of) => J(i) # "fail"
          BY <1>4, <1>7, <5>3 DEF Forgets
        <5>6. \A i \in DOMAIN p.of : i < Len(p.of) \/ i = Len(p.of)
          BY <1>5
        <5> QED BY <1>1, <5>3, <5>4, <5>5, <5>6 DEF Verdict
      <4> QED BY <4>1, <4>2
    <3>2. ms \subseteq {"deny"}
      BY <1>1, <3>1
    <3>3. Meaning(p, ms) = "deny"
      BY <1>7, <3>2 DEF Meaning
    <3> QED BY <1>2, <1>3, <2>4, <3>3
  <2> QED BY <1>2, <2>3, <2>4
<1>8. CASE p.op = "not"
  <2>1. DOMAIN p.of = {1}
    BY <1>8, PolicyParts
  <2>2. ms = {H(1)} /\ vs[1] = J(1)
    BY <2>1
  <2>3. Combine(p, vs) = IF p.of[1].op = "nil" THEN "deny" ELSE Invert(J(1))
    BY <1>8, <2>2 DEF Combine
  <2>4. /\ J(1) = "allow" => H(1) = "allow"
        /\ J(1) = "deny" => H(1) = "deny"
        /\ J(1) \in Verdict
    BY <1>1, <2>1
  <2> HIDE DEF J, H, vs, ms
  <2>5. CASE p.of[1].op = "nil"
    BY <1>2, <1>3, <1>8, <2>3, <2>5 DEF Meaning
  <2>6. CASE p.of[1].op # "nil"
    BY <1>2, <1>3, <1>8, <2>2, <2>3, <2>4, <2>6 DEF Meaning, Invert, Verdict
  <2> QED BY <2>5, <2>6
<1> QED BY <1>6, <1>7, <1>8 DEF Composite

(* All, Any and Not never turn a failing check into access but where Any   *)
(* drops a failure before a denial: the policies of the program mean what  *)
(* three-valued logic says.                                                *)
THEOREM PoliciesSound ==
  ASSUME NEW who, NEW subject, NEW p \in Policies
  PROVE  Judge(p, who, subject) = "allow" =>
           Holds3(p, who, subject) = "allow" \/ ForgetsFailure(p, who, subject)
<1> DEFINE G == {q \in Policies : Sound3(q, who, subject)}
<1>1. ASSUME NEW q \in Policies, \A o \in Policies : Nesting[o] < Nesting[q] => o \in G
      PROVE  q \in G
  <2>1. CASE q.op \in Composite
    <3>1. \A i \in DOMAIN q.of : Sound3(q.of[i], who, subject)
      BY <1>1, <2>1, PolicyParts
    <3> QED BY <2>1, <3>1, CompositeSound
  <2>2. CASE q.op \notin Composite
    <3>1. Judge(q, who, subject) = Leaf(q, who, subject)
      BY <2>2, JudgeIs DEF Judge
    <3>2. Holds3(q, who, subject) = Leaf(q, who, subject)
      BY <2>2, MeaningIs
    <3> QED BY <3>1, <3>2 DEF Sound3
  <2> QED BY <2>1, <2>2
<1>2. Nesting \in [Policies -> Nat]
  BY AuthAssumption
<1>3. Policies \subseteq G
  <2> HIDE DEF G
  <2> QED BY <1>1, <1>2, RankInduction
<1> QED BY <1>3 DEF Sound3

-----------------------------------------------------------------------------
(***************************************************************************)
(* Lookup of a route.                                                      *)
(***************************************************************************)
(* A table of routes as the registrations leave it, and a path.            *)
RoutesSound(rs) ==
  /\ IsList(rs)
  /\ \A i \in DOMAIN rs : /\ rs[i] # NoRoute
                          /\ IsPattern(rs[i].pattern) /\ PatternValid(rs[i].pattern)
                          /\ StagesSound(rs[i].stages)
  /\ \A i, j \in DOMAIN rs :
       rs[i].method = rs[j].method /\ Shape(rs[i].pattern) = Shape(rs[j].pattern) => i = j
IsPath(path) == IsList(path) /\ path # <<>>

(* The pattern goes through a node.                                        *)
Passes(pat, at_) == Len(at_) <= Len(pat) /\ \A i \in 1..Len(at_) : Key(pat[i]) = at_[i]

LEMMA PatternIs ==
  ASSUME NEW pat, IsPattern(pat), PatternValid(pat)
  PROVE  /\ Len(pat) \in Nat \ {0} /\ DOMAIN pat = 1..Len(pat)
         /\ \A i \in 1..Len(pat) : /\ pat[i].k \in {"lit", "par", "wild"}
                                   /\ pat[i].k = "wild" => i = Len(pat)
                                   /\ pat[i] = [k |-> pat[i].k, n |-> pat[i].n]
         /\ \A i, j \in Parametric(pat) : pat[i].n = pat[j].n => i = j
<1>1. Len(pat) \in Nat /\ DOMAIN pat = 1..Len(pat)
  BY ListIs DEF IsPattern
<1>2. Len(pat) # 0
  <2>1. pat \in Seq({pat[i] : i \in DOMAIN pat}) /\ pat # <<>>
    BY DEF IsPattern, IsList, PatternValid
  <2> QED BY <2>1
<1> QED BY <1>1, <1>2 DEF IsPattern, PatternValid

LEMMA ShapeIs ==
  ASSUME NEW pat, IsPattern(pat), PatternValid(pat)
  PROVE  /\ IsList(Shape(pat)) /\ Len(Shape(pat)) = Len(pat)
         /\ \A i \in 1..Len(pat) : Shape(pat)[i] = Key(pat[i])
         /\ \A l \in 0..Len(pat) : /\ IsList(SubSeq(Shape(pat), 1, l))
                                   /\ Len(SubSeq(Shape(pat), 1, l)) = l
                                   /\ \A i \in 1..l : SubSeq(Shape(pat), 1, l)[i] = Key(pat[i])
<1> DEFINE n == Len(pat)
           sh == Shape(pat)
<1>1. n \in Nat /\ sh = [i \in 1..n |-> Key(pat[i])]
  BY PatternIs DEF Shape
<1> HIDE DEF n, sh
<1>2. sh = [i \in 1..n |-> sh[i]]
  BY <1>1
<1>3. IsList(sh) /\ Len(sh) = n /\ \A i \in 1..n : sh[i] = Key(pat[i])
  BY <1>1, <1>2, ListOfLength
<1>4. ASSUME NEW l \in 0..n
      PROVE  /\ IsList(SubSeq(sh, 1, l)) /\ Len(SubSeq(sh, 1, l)) = l
             /\ \A i \in 1..l : SubSeq(sh, 1, l)[i] = Key(pat[i])
  <2> DEFINE u == SubSeq(sh, 1, l)
  <2>1. l \in Nat /\ 1 - 1 + l = l /\ u = [i \in 1..l |-> sh[i]]
    <3>1. l \in Nat /\ sh \in Seq({sh[i] : i \in DOMAIN sh})
      BY <1>1, <1>3 DEF IsList
    <3>2. Len(u) = l /\ \A i \in 1..l : u[i] = sh[i]
      BY <1>1, <1>3, <3>1
    <3>3. u \in Seq({sh[i] : i \in DOMAIN sh})
      BY <1>1, <1>3, <3>1
    <3> QED BY <3>1, <3>2, <3>3
  <2> HIDE DEF u
  <2>2. u = [i \in 1..l |-> u[i]]
    BY <2>1
  <2>3. IsList(u) /\ Len(u) = l
    BY <2>1, <2>2, ListOfLength
  <2>4. \A i \in 1..l : u[i] = Key(pat[i])
    <3>1. \A i \in 1..l : i \in 1..n
      BY <1>1
    <3> QED BY <1>3, <2>1, <3>1
  <2> QED BY <2>3, <2>4 DEF u
<1> QED BY <1>3, <1>4 DEF n, sh

LEMMA NodeIs ==
  ASSUME NEW rs, RoutesSound(rs), NEW m, NEW node
  PROVE  node \in Nodes(rs, m) <=>
           IsList(node) /\ \E r \in Range(rs) : r.method = m /\ Passes(r.pattern, node)
<1>1. \A r \in Range(rs) : IsPattern(r.pattern) /\ PatternValid(r.pattern)
  BY DEF RoutesSound, Range
<1>2. ASSUME node \in Nodes(rs, m)
      PROVE  IsList(node) /\ \E r \in Range(rs) : r.method = m /\ Passes(r.pattern, node)
  <2>0. PICK r \in {q \in Range(rs) : q.method = m} :
          node \in {SubSeq(Shape(r.pattern), 1, l) : l \in 0..Len(r.pattern)}
    BY <1>2 DEF Nodes
  <2>1. PICK l \in 0..Len(r.pattern) : node = SubSeq(Shape(r.pattern), 1, l)
    BY <2>0
  <2>2. IsList(node) /\ Len(node) = l /\ \A i \in 1..l : node[i] = Key(r.pattern[i])
    BY <1>1, <2>1, ShapeIs
  <2>3. l <= Len(r.pattern)
    BY <1>1, <2>1, PatternIs
  <2> QED BY <2>1, <2>2, <2>3 DEF Passes
<1>3. ASSUME IsList(node), NEW r \in Range(rs), r.method = m, Passes(r.pattern, node)
      PROVE  node \in Nodes(rs, m)
  <2>1. Len(node) \in 0..Len(r.pattern)
    BY <1>1, <1>3, ListIs, PatternIs DEF Passes
  <2>2. node = SubSeq(Shape(r.pattern), 1, Len(node))
    <3>1. /\ IsList(SubSeq(Shape(r.pattern), 1, Len(node)))
          /\ Len(SubSeq(Shape(r.pattern), 1, Len(node))) = Len(node)
          /\ \A i \in 1..Len(node) : SubSeq(Shape(r.pattern), 1, Len(node))[i] = Key(r.pattern[i])
      BY <1>1, <2>1, ShapeIs
    <3> DEFINE u == SubSeq(Shape(r.pattern), 1, Len(node))
    <3>2. IsList(u) /\ Len(u) = Len(node) /\ \A i \in 1..Len(node) : u[i] = node[i]
      BY <1>3, <3>1 DEF Passes
    <3> HIDE DEF u
    <3>3. node = u
      BY <1>3, <3>2, ListsEqual
    <3> QED BY <3>3 DEF u
  <2>3. node \in {SubSeq(Shape(r.pattern), 1, l) : l \in 0..Len(r.pattern)}
    BY <2>1, <2>2
  <2>4. r \in {q \in Range(rs) : q.method = m}
    BY <1>3
  <2> QED BY <2>3, <2>4 DEF Nodes
<1> QED BY <1>2, <1>3

(* The route at a node is the only one that ends there.                    *)
LEMMA RouteAtIs ==
  ASSUME NEW rs, RoutesSound(rs), NEW m, NEW node, IsList(node)
  PROVE  /\ RouteAt(rs, m, node) # NoRoute =>
              /\ RouteAt(rs, m, node) \in Range(rs)
              /\ RouteAt(rs, m, node).method = m
              /\ Passes(RouteAt(rs, m, node).pattern, node)
              /\ Len(RouteAt(rs, m, node).pattern) = Len(node)
         /\ \A r \in Range(rs) :
              r.method = m /\ Passes(r.pattern, node) /\ Len(r.pattern) = Len(node)
                => RouteAt(rs, m, node) = r /\ r # NoRoute
<1>1. \A r \in Range(rs) : IsPattern(r.pattern) /\ PatternValid(r.pattern) /\ r # NoRoute
  BY DEF RoutesSound, Range
<1>2. ASSUME NEW r \in Range(rs)
      PROVE  Shape(r.pattern) = node <=> Passes(r.pattern, node) /\ Len(r.pattern) = Len(node)
  <2>1. /\ IsList(Shape(r.pattern)) /\ Len(Shape(r.pattern)) = Len(r.pattern)
        /\ \A i \in 1..Len(r.pattern) : Shape(r.pattern)[i] = Key(r.pattern[i])
    BY <1>1, ShapeIs
  <2>2. Len(node) \in Nat
    BY ListIs
  <2>3. ASSUME Shape(r.pattern) = node PROVE Passes(r.pattern, node) /\ Len(r.pattern) = Len(node)
    BY <2>1, <2>2, <2>3 DEF Passes
  <2>4. ASSUME Passes(r.pattern, node), Len(r.pattern) = Len(node) PROVE Shape(r.pattern) = node
    BY <2>1, <2>4, ListsEqual DEF Passes
  <2> QED BY <2>3, <2>4
<1>3. \A q, r \in Range(rs) : q.method = r.method /\ Shape(q.pattern) = Shape(r.pattern) => q = r
  BY DEF RoutesSound, Range
<1> DEFINE here == {r \in Range(rs) : r.method = m /\ Shape(r.pattern) = node}
<1>4. RouteAt(rs, m, node) = IF here = {} THEN NoRoute ELSE CHOOSE r \in here : TRUE
  BY DEF RouteAt
<1>5. here # {} => RouteAt(rs, m, node) \in here
  <2> HIDE DEF here
  <2> QED BY <1>4
<1>6. RouteAt(rs, m, node) # NoRoute => RouteAt(rs, m, node) \in here
  BY <1>4, <1>5
<1>7. ASSUME NEW r \in Range(rs), r.method = m, Passes(r.pattern, node), Len(r.pattern) = Len(node)
      PROVE  RouteAt(rs, m, node) = r /\ r # NoRoute
  <2>1. r \in here
    BY <1>2, <1>7
  <2>2. RouteAt(rs, m, node) \in here
    BY <1>5, <2>1
  <2> QED BY <1>1, <1>3, <2>1, <2>2
<1>8. ASSUME RouteAt(rs, m, node) # NoRoute
      PROVE  /\ RouteAt(rs, m, node) \in Range(rs) /\ RouteAt(rs, m, node).method = m
             /\ Passes(RouteAt(rs, m, node).pattern, node)
             /\ Len(RouteAt(rs, m, node).pattern) = Len(node)
  BY <1>2, <1>6, <1>8
<1> QED BY <1>7, <1>8

(* Which of the routes that go through a node match, and which of them     *)
(* wins; the values of the parameters after the node.                      *)
Fit(rs, m, path, node) ==
  {r \in Range(rs) : r.method = m /\ Covers(r.pattern, path) /\ Passes(r.pattern, node)}
After(pat, l) == {i \in Parametric(pat) : i > l}
Given_(pat, path) ==
  [i \in DOMAIN pat |-> IF pat[i].k = "wild" THEN SubSeq(path, i, Len(path)) ELSE <<path[i]>>]
Rest(pat, path, l) == Picked(Given_(pat, path), After(pat, l))
IsBest(F, path, l, res) ==
  \/ F = {} /\ res = Nothing
  \/ \E r \in F : /\ \A o \in F \ {r} : Beats(r.pattern, o.pattern)
                  /\ r # NoRoute /\ res = [route |-> r, vals |-> Rest(r.pattern, path, l)]

(* The node is on the way of the path.                                     *)
Along(node, path) ==
  /\ IsList(node) /\ Len(node) <= Len(path)
  /\ \A i \in 1..Len(node) : \/ node[i] = <<"lit", path[i]>>
                             \/ node[i] = <<"par", "">> /\ path[i] # ""

LEMMA PathIs ==
  ASSUME NEW path, IsPath(path)
  PROVE  Len(path) \in Nat \ {0} /\ DOMAIN path = 1..Len(path)
<1>1. Len(path) \in Nat /\ DOMAIN path = 1..Len(path)
  BY ListIs DEF IsPath
<1>2. path \in Seq({path[i] : i \in DOMAIN path}) /\ path # <<>>
  BY DEF IsPath, IsList
<1> QED BY <1>1, <1>2

LEMMA KeyKinds ==
  ASSUME NEW kind \in {"lit", "par", "wild"}, NEW n, NEW x
  PROVE  LET key == IF kind = "lit" THEN <<"lit", n>> ELSE <<kind, "">>
         IN /\ key = <<"lit", x>> <=> kind = "lit" /\ n = x
            /\ key = <<"par", "">> <=> kind = "par"
            /\ key = <<"wild", "">> <=> kind = "wild"
OBVIOUS

(* A segment of a pattern.                                                 *)
IsSegment(seg) == seg.k \in {"lit", "par", "wild"} /\ seg = [k |-> seg.k, n |-> seg.n]

LEMMA Within ==
  ASSUME NEW k \in Nat \ {0}, NEW n \in Nat, k <= n
  PROVE  k \in 1..n
OBVIOUS

LEMMA SegmentIs ==
  ASSUME NEW pat, IsPattern(pat), PatternValid(pat), NEW i \in 1..Len(pat)
  PROVE  IsSegment(pat[i])
BY PatternIs DEF IsSegment

LEMMA KeysApart ==
  ASSUME NEW seg, IsSegment(seg), NEW x
  PROVE  /\ Key(seg) = <<"lit", x>> <=> seg = Lit(x)
         /\ Key(seg) = <<"par", "">> <=> seg.k = "par"
         /\ Key(seg) = <<"wild", "">> <=> seg.k = "wild"
         /\ seg = Lit(x) => seg.k = "lit"
<1>1. PICK kind \in {"lit", "par", "wild"} : kind = seg.k
  BY DEF IsSegment
<1>2. PICK n : n = seg.n
  OBVIOUS
<1>3. Key(seg) = IF kind = "lit" THEN <<"lit", n>> ELSE <<kind, "">>
  BY <1>1, <1>2 DEF Key
<1>4. seg = Lit(x) <=> kind = "lit" /\ n = x
  BY <1>1, <1>2 DEF Lit, IsSegment
<1>5. PICK key : key = Key(seg)
  OBVIOUS
<1>6. /\ key = <<"lit", x>> <=> kind = "lit" /\ n = x
      /\ key = <<"par", "">> <=> kind = "par"
      /\ key = <<"wild", "">> <=> kind = "wild"
  <2>1. key = IF kind = "lit" THEN <<"lit", n>> ELSE <<kind, "">>
    BY <1>3, <1>5
  <2> QED BY <2>1, KeyKinds
<1> QED BY <1>1, <1>4, <1>5, <1>6

LEMMA CoversIs ==
  ASSUME NEW pat, IsPattern(pat), PatternValid(pat), NEW path, IsPath(path)
  PROVE  Covers(pat, path) <=>
           /\ IF pat[Len(pat)].k = "wild" THEN Len(pat) <= Len(path) ELSE Len(pat) = Len(path)
           /\ \A i \in 1..Len(pat) :
                pat[i].k = "wild" \/ (pat[i].k = "par" /\ path[i] # "") \/ pat[i] = Lit(path[i])
<1> DEFINE n == Len(pat)
           one(i) == (pat[i].k = "par" /\ path[i] # "") \/ pat[i] = Lit(path[i])
<1>1. n \in Nat \ {0} /\ \A i \in 1..n : pat[i].k = "wild" => i = n
  BY PatternIs
<1>2. \A i \in 1..n : one(i) => pat[i].k # "wild"
  <2> SUFFICES ASSUME NEW i \in 1..n, one(i) PROVE pat[i].k # "wild"
    OBVIOUS
  <2>1. Lit(path[i]).k = "lit"
    BY DEF Lit
  <2>2. pat[i].k = "par" \/ pat[i].k = "lit"
    BY <2>1
  <2> QED BY <2>2
<1>3. Covers(pat, path) <=>
        IF pat[n].k = "wild" THEN n <= Len(path) /\ \A i \in 1..(n - 1) : one(i)
        ELSE n = Len(path) /\ \A i \in 1..n : one(i)
  BY DEF Covers
<1> HIDE DEF n, one
<1>4. CASE pat[n].k = "wild"
  <2>1. (\A i \in 1..(n - 1) : one(i)) <=> \A i \in 1..n : pat[i].k = "wild" \/ one(i)
    <3>1. \A i \in 1..(n - 1) : i \in 1..n /\ i # n
      BY <1>1
    <3>2. \A i \in 1..n : i = n \/ i \in 1..(n - 1)
      BY <1>1
    <3> QED BY <1>1, <1>4, <3>1, <3>2
  <2> QED BY <1>3, <1>4, <2>1 DEF n, one
<1>5. CASE pat[n].k # "wild"
  <2>1. \A i \in 1..n : pat[i].k # "wild"
    BY <1>1, <1>5
  <2> QED BY <1>3, <1>5, <2>1 DEF n, one
<1> QED BY <1>4, <1>5

LEMMA PassesMore ==
  ASSUME NEW pat, IsPattern(pat), PatternValid(pat), NEW node, IsList(node), NEW key
  PROVE  Passes(pat, Append(node, key)) <=>
           Passes(pat, node) /\ Len(node) + 1 <= Len(pat) /\ Key(pat[Len(node) + 1]) = key
<1> DEFINE child == Append(node, key)
<1>1. /\ Len(child) = Len(node) + 1 /\ child[Len(node) + 1] = key
      /\ \A i \in 1..Len(node) : child[i] = node[i]
  BY ListAppend
<1>2. Len(node) \in Nat /\ Len(pat) \in Nat
  BY ListIs, PatternIs
<1>3. \A i \in 1..(Len(node) + 1) : i \in 1..Len(node) \/ i = Len(node) + 1
  BY <1>2
<1>4. \A i \in 1..Len(node) : i \in 1..(Len(node) + 1)
  BY <1>2
<1>5. Len(node) + 1 \in 1..(Len(node) + 1)
  BY <1>2
<1>6. Len(node) + 1 <= Len(pat) => Len(node) <= Len(pat)
  BY <1>2
<1> HIDE DEF child
<1> QED BY <1>1, <1>3, <1>4, <1>5, <1>6 DEF Passes, child

(* Literals are before parameters and parameters before wildcards.         *)
LEMMA BeatsAt ==
  ASSUME NEW p, IsPattern(p), PatternValid(p), NEW q, IsPattern(q), PatternValid(q),
         NEW node, IsList(node), Passes(p, node), Passes(q, node),
         Len(node) + 1 <= Len(p), Len(node) + 1 <= Len(q),
         Rank(p[Len(node) + 1]) < Rank(q[Len(node) + 1])
  PROVE  Beats(p, q)
<1> DEFINE k == Len(node) + 1
<1>1. k \in DOMAIN p /\ k \in DOMAIN q /\ Len(node) \in Nat
  BY ListIs, PatternIs
<1>2. \A j \in 1..Len(node) : Rank(p[j]) = Rank(q[j])
  <2> SUFFICES ASSUME NEW j \in 1..Len(node) PROVE Rank(p[j]) = Rank(q[j])
    OBVIOUS
  <2>1. Key(p[j]) = Key(q[j])
    BY DEF Passes
  <2>2. j \in 1..Len(p) /\ j \in 1..Len(q)
    BY <1>1, PatternIs
  <2>3. p[j].k = q[j].k
    <3>1. p[j].k \in {"lit", "par", "wild"} /\ q[j].k \in {"lit", "par", "wild"}
      BY <2>2, PatternIs
    <3>2. Key(p[j])[1] = p[j].k /\ Key(q[j])[1] = q[j].k
      BY DEF Key
    <3> QED BY <2>1, <3>2
  <2> QED BY <2>3 DEF Rank
<1>3. k - 1 = Len(node)
  BY <1>1
<1> HIDE DEF k
<1>4. \A j \in 1..(k - 1) : Rank(p[j]) = Rank(q[j])
  BY <1>2, <1>3
<1> QED BY <1>1, <1>4 DEF Beats, k

LEMMA BeatsOneWay ==
  ASSUME NEW p, NEW q, DOMAIN p \subseteq Nat \ {0}, Beats(p, q)
  PROVE  ~Beats(q, p)
<1> SUFFICES ASSUME Beats(q, p) PROVE FALSE
  OBVIOUS
<1>1. PICK i \in DOMAIN p : (\A j \in 1..(i - 1) : Rank(p[j]) = Rank(q[j])) /\ Rank(p[i]) < Rank(q[i])
  BY DEF Beats
<1>2. PICK k \in DOMAIN p : (\A j \in 1..(k - 1) : Rank(q[j]) = Rank(p[j])) /\ Rank(q[k]) < Rank(p[k])
  BY DEF Beats
<1>3. i \in Nat \ {0} /\ k \in Nat \ {0}
  OBVIOUS
<1>4. \A seg : Rank(seg) \in Nat
  BY DEF Rank
<1>5. i \in 1..(k - 1) \/ k \in 1..(i - 1) \/ i = k
  BY <1>3
<1> QED BY <1>1, <1>2, <1>4, <1>5

(* The values that a lookup gives.                                         *)
Matches_(rs, path) ==
  [route : Range(rs) \cup {NoRoute}, vals : Seq(Seq({path[i] : i \in DOMAIN path}))]

LEMMA NothingMatches ==
  ASSUME NEW rs, NEW path
  PROVE  Nothing \in Matches_(rs, path)
<1>1. <<>> \in Seq(Seq({path[i] : i \in DOMAIN path}))
  OBVIOUS
<1> QED BY <1>1 DEF Nothing, Matches_

LEMMA RouteAtTyped ==
  ASSUME NEW rs, RoutesSound(rs), NEW m, NEW node, IsList(node)
  PROVE  RouteAt(rs, m, node) \in Range(rs) \cup {NoRoute}
BY RouteAtIs

LEMMA SegmentsIn ==
  ASSUME NEW path, IsPath(path), NEW a \in 1..Len(path)
  PROVE  /\ <<path[a]>> \in Seq({path[i] : i \in DOMAIN path})
         /\ SubSeq(path, a, Len(path)) \in Seq({path[i] : i \in DOMAIN path})
<1> DEFINE E == {path[i] : i \in DOMAIN path}
<1>1. path \in Seq(E) /\ path[a] \in E
  BY PathIs DEF IsPath, IsList
<1> HIDE DEF E
<1>2. <<path[a]>> \in Seq(E)
  BY <1>1
<1>3. SubSeq(path, a, Len(path)) \in Seq(E)
  BY <1>1
<1> QED BY <1>2, <1>3 DEF E

LEMMA DescendTyped ==
  ASSUME NEW rs, RoutesSound(rs), NEW m, NEW path, IsPath(path), NEW child, IsList(child),
         Len(child) <= Len(path), NEW f \in [Inner(rs, m, path) -> Matches_(rs, path)],
         NEW vs \in Seq(Seq({path[i] : i \in DOMAIN path}))
  PROVE  Descend(rs, m, path, child, vs, f) \in Matches_(rs, path)
<1> DEFINE Q == Seq(Seq({path[i] : i \in DOMAIN path}))
<1>0. \A a, b \in Q : a \o b \in Q
  <2> DEFINE W == Seq({path[i] : i \in DOMAIN path})
  <2>1. \A a, b \in Seq(W) : a \o b \in Seq(W)
    <3> HIDE DEF W
    <3> QED OBVIOUS
  <2> QED BY <2>1
<1>1. CASE child \notin Nodes(rs, m)
  BY <1>1, NothingMatches DEF Descend
<1>2. CASE child \in Nodes(rs, m) /\ Len(child) = Len(path)
  <2>1. Descend(rs, m, path, child, vs, f) =
          IF RouteAt(rs, m, child) = NoRoute THEN Nothing
          ELSE [route |-> RouteAt(rs, m, child), vals |-> vs]
    BY <1>2 DEF Descend
  <2>2. RouteAt(rs, m, child) \in Range(rs) \cup {NoRoute}
    BY RouteAtTyped
  <2> HIDE DEF Q
  <2>3. [route |-> RouteAt(rs, m, child), vals |-> vs] \in [route : Range(rs) \cup {NoRoute}, vals : Q]
    BY <2>2 DEF Q
  <2> QED BY <2>1, <2>3, NothingMatches DEF Matches_, Q
<1>3. CASE child \in Nodes(rs, m) /\ Len(child) # Len(path)
  <2>1. child \in Inner(rs, m, path)
    <3>1. Len(child) \in Nat /\ Len(path) \in Nat
      BY ListIs, PathIs
    <3> QED BY <1>3, <3>1 DEF Inner
  <2>2. Descend(rs, m, path, child, vs, f) =
          IF f[child].route = NoRoute THEN Nothing ELSE [f[child] EXCEPT !.vals = vs \o @]
    BY <1>3 DEF Descend
  <2>3. f[child] \in Matches_(rs, path)
    BY <2>1
  <2> DEFINE g == f[child]
  <2> HIDE DEF Q, g
  <2>4. g \in [route : Range(rs) \cup {NoRoute}, vals : Q]
    BY <2>3 DEF Matches_, Q, g
  <2>5. [g EXCEPT !.vals = vs \o @] \in [route : Range(rs) \cup {NoRoute}, vals : Q]
    <3>1. vs \o g.vals \in Q
      BY <1>0, <2>4 DEF Q
    <3> QED BY <2>4, <3>1
  <2> QED BY <2>2, <2>5, NothingMatches DEF Matches_, Q, g
<1> QED BY <1>1, <1>2, <1>3

(* What the recursion of Match is.                                         *)
LEMMA MatchIs ==
  ASSUME NEW rs, RoutesSound(rs), NEW m, NEW path, IsPath(path)
  PROVE  \A a \in Inner(rs, m, path) :
           Match(rs, m, path)[a] = MatchAt(rs, m, path, a, Match(rs, m, path))
<1> DEFINE S == Inner(rs, m, path)
           V == Matches_(rs, path)
           value(f, a) == MatchAt(rs, m, path, a, f)
           step == [f \in [S -> V] |-> [a \in S |-> value(f, a)]]
           rank == [a \in S |-> Len(path) - Len(a)]
           Fix(f) == f = [a \in S |-> value(f, a)]
           v == Match(rs, m, path)
           W == {path[i] : i \in DOMAIN path}
<1>0. ASSUME NEW a \in S
      PROVE  /\ IsList(a) /\ Len(a) \in Nat /\ Len(a) + 1 \in 1..Len(path)
             /\ \A key : /\ IsList(Append(a, key))
                         /\ Len(Append(a, key)) = Len(a) + 1 /\ Len(Append(a, key)) <= Len(path)
  <2>1. a \in Nodes(rs, m) /\ Len(a) < Len(path)
    BY DEF Inner
  <2>2. IsList(a)
    BY <2>1, NodeIs
  <2>3. Len(a) \in Nat /\ Len(path) \in Nat
    BY <2>2, ListIs, PathIs
  <2>4. Len(a) + 1 \in 1..Len(path)
    BY <2>1, <2>3
  <2>5. \A key : IsList(Append(a, key)) /\ Len(Append(a, key)) = Len(a) + 1
    BY <2>2, ListAppend
  <2> QED BY <2>2, <2>3, <2>4, <2>5
<1>1. ASSUME NEW f \in [S -> V], NEW a \in S PROVE value(f, a) \in V
  <2> DEFINE seg == path[Len(a) + 1]
             lit == Append(a, <<"lit", seg>>)
             par == Append(a, <<"par", "">>)
             wild == RouteAt(rs, m, Append(a, <<"wild", "">>))
             sub == SubSeq(path, Len(a) + 1, Len(path))
             byLit == Descend(rs, m, path, lit, <<>>, f)
             down == Descend(rs, m, path, par, <<<<seg>>>>, f)
             byPar == IF seg = "" THEN Nothing ELSE down
             byWild == IF wild = NoRoute THEN Nothing ELSE [route |-> wild, vals |-> <<sub>>]
  <2>1. <<seg>> \in Seq(W) /\ sub \in Seq(W)
    BY <1>0, SegmentsIn
  <2>2. <<>> \in Seq(Seq(W)) /\ <<<<seg>>>> \in Seq(Seq(W)) /\ <<sub>> \in Seq(Seq(W))
    <3> DEFINE X == Seq(W)
    <3>1. \A x \in X : <<x>> \in Seq(X)
      <4> HIDE DEF X
      <4> QED OBVIOUS
    <3>2. <<>> \in Seq(X)
      OBVIOUS
    <3> HIDE DEF sub, seg
    <3> QED BY <2>1, <3>1, <3>2
  <2>3. byLit \in V
    BY <1>0, <2>2, DescendTyped
  <2>4. down \in V
    BY <1>0, <2>2, DescendTyped
  <2>5. byPar \in V
    <3> HIDE DEF down
    <3> QED BY <2>4, NothingMatches
  <2>6. byWild \in V
    <3>1. wild \in Range(rs) \cup {NoRoute}
      BY <1>0, RouteAtTyped
    <3> HIDE DEF wild, sub
    <3> QED BY <2>2, <3>1, NothingMatches DEF Matches_
  <2>7. value(f, a) = OrElse(byLit, lit, Nodes(rs, m), OrElse(byPar, par, Nodes(rs, m), byWild))
    BY DEF MatchAt
  <2> HIDE DEF byLit, byPar, byWild, value, V
  <2> QED BY <2>3, <2>5, <2>6, <2>7 DEF OrElse
<1>2. step \in [[S -> V] -> [S -> V]]
  <2> HIDE DEF value, S, V
  <2> QED BY <1>1
<1>3. ASSUME NEW f \in [S -> V], NEW g \in [S -> V], NEW a \in S,
             \A b \in S : rank[b] < rank[a] => f[b] = g[b]
      PROVE  step[f][a] = step[g][a]
  <2>1. ASSUME NEW key, NEW vs
        PROVE  Descend(rs, m, path, Append(a, key), vs, f) = Descend(rs, m, path, Append(a, key), vs, g)
    <3> DEFINE c == Append(a, key)
    <3>1. CASE c \in Nodes(rs, m) /\ Len(c) # Len(path)
      <4>1. Len(c) = Len(a) + 1 /\ Len(c) <= Len(path) /\ Len(a) \in Nat /\ Len(path) \in Nat
        BY <1>0, PathIs
      <4> HIDE DEF c
      <4>2. c \in S
        BY <3>1, <4>1 DEF Inner
      <4>3. rank[c] < rank[a]
        BY <4>1, <4>2
      <4>4. f[c] = g[c]
        BY <1>3, <4>2, <4>3
      <4>5. /\ Descend(rs, m, path, c, vs, f) =
                 IF f[c].route = NoRoute THEN Nothing ELSE [f[c] EXCEPT !.vals = vs \o @]
            /\ Descend(rs, m, path, c, vs, g) =
                 IF g[c].route = NoRoute THEN Nothing ELSE [g[c] EXCEPT !.vals = vs \o @]
        BY <3>1 DEF Descend
      <4>6. Descend(rs, m, path, c, vs, f) = Descend(rs, m, path, c, vs, g)
        BY <4>4, <4>5
      <4> QED BY <4>6 DEF c
    <3>2. CASE c \notin Nodes(rs, m)
      BY <3>2 DEF Descend
    <3>3. CASE c \in Nodes(rs, m) /\ Len(c) = Len(path)
      BY <3>3 DEF Descend
    <3> QED BY <3>1, <3>2, <3>3
  <2>2. value(f, a) = value(g, a)
    BY <2>1 DEF MatchAt
  <2> HIDE DEF value, S, V
  <2> QED BY <2>2
<1>4. Causal(S, V, rank, step)
  <2>1. V # {}
    BY NothingMatches
  <2>2. rank \in [S -> Nat]
    <3>1. ASSUME NEW a \in S PROVE Len(path) - Len(a) \in Nat
      <4>1. Len(a) \in Nat /\ Len(path) \in Nat /\ Len(a) < Len(path)
        BY <1>0, PathIs DEF Inner
      <4> QED BY <4>1
    <3> HIDE DEF S
    <3> QED BY <3>1
  <2> HIDE DEF step, S, V, rank
  <2> QED BY <1>2, <1>3, <2>1, <2>2 DEF Causal
<1>5. \E w : Fix(w)
  <2>1. PICK w \in [S -> V] : step[w] = w
    <3> HIDE DEF step, S, V, rank
    <3> QED BY <1>4, Recursion
  <2>2. Fix(w)
    <3> HIDE DEF value, S, V
    <3> QED BY <2>1
  <2> HIDE DEF Fix
  <2> QED BY <2>2
<1>6. v = CHOOSE f : Fix(f)
  BY DEF Match
<1>7. Fix(v)
  <2> HIDE DEF Fix, v
  <2> QED BY <1>5, <1>6
<1>8. \A a \in S : v[a] = value(v, a)
  <2> HIDE DEF value, v, S
  <2> QED BY <1>7
<1> QED BY <1>8

(* The key that a segment of the path has in the trie: as a literal, or,   *)
(* when there is something, as a parameter.                                *)
KeyFor(key, seg) == key = <<"lit", seg>> \/ (key = <<"par", "">> /\ seg # "")

LEMMA AlongMore ==
  ASSUME NEW path, IsPath(path), NEW a, Along(a, path), Len(a) < Len(path), NEW key,
         KeyFor(key, path[Len(a) + 1])
  PROVE  Along(Append(a, key), path)
<1> DEFINE child == Append(a, key)
<1>1. /\ IsList(child) /\ Len(child) = Len(a) + 1 /\ child[Len(a) + 1] = key
      /\ \A i \in 1..Len(a) : child[i] = a[i]
  BY ListAppend DEF Along
<1>2. Len(a) \in Nat /\ Len(path) \in Nat
  BY ListIs, PathIs DEF Along
<1>3. \A i \in 1..(Len(a) + 1) : i \in 1..Len(a) \/ i = Len(a) + 1
  BY <1>2
<1>4. Len(a) + 1 <= Len(path)
  BY <1>2
<1> HIDE DEF child
<1> QED BY <1>1, <1>3, <1>4 DEF Along, KeyFor, child

(* A route that goes through all a node's keys, as long as the path or     *)
(* with all that is left for its wildcard, matches.                        *)
LEMMA AlongCovers ==
  ASSUME NEW pat, IsPattern(pat), PatternValid(pat), NEW path, IsPath(path),
         NEW a, Along(a, path), Passes(pat, a), NEW i \in 1..Len(a)
  PROVE  /\ (pat[i].k = "par" /\ path[i] # "") \/ pat[i] = Lit(path[i])
         /\ pat[i].k # "wild"
<1>1. Len(a) \in Nat /\ Len(pat) \in Nat
  BY ListIs, PatternIs DEF Along
<1>2. i \in 1..Len(pat)
  BY <1>1 DEF Passes
<1>3. IsSegment(pat[i])
  BY <1>2, SegmentIs
<1>4. Key(pat[i]) = a[i]
  BY DEF Passes
<1>5. a[i] = <<"lit", path[i]>> \/ (a[i] = <<"par", "">> /\ path[i] # "")
  BY DEF Along
<1>6. CASE a[i] = <<"lit", path[i]>>
  <2>1. Key(pat[i]) = <<"lit", path[i]>>
    BY <1>4, <1>6
  <2> QED BY <1>3, <2>1, KeysApart
<1>7. CASE a[i] = <<"par", "">> /\ path[i] # ""
  <2>1. Key(pat[i]) = <<"par", "">>
    BY <1>4, <1>7
  <2> QED BY <1>3, <1>7, <2>1, KeysApart
<1> QED BY <1>5, <1>6, <1>7

LEMMA AfterNone ==
  ASSUME NEW pat, IsPattern(pat), PatternValid(pat), NEW path
  PROVE  Rest(pat, path, Len(pat)) = <<>>
<1>1. After(pat, Len(pat)) = {}
  <2>1. \A i \in 1..Len(pat) : ~(i > Len(pat))
    <3>1. Len(pat) \in Nat
      BY PatternIs
    <3> QED BY <3>1
  <2> QED BY <2>1, PatternIs DEF After, Parametric
<1>2. Picked(Given_(pat, path), {}) = <<>>
  BY FS_EmptySet DEF Picked
<1> QED BY <1>1, <1>2 DEF Rest

LEMMA RestIs ==
  ASSUME NEW pat, IsPattern(pat), PatternValid(pat), NEW path, NEW l \in Nat
  PROVE  Rest(pat, path, l) \in Seq({Given_(pat, path)[i] : i \in 1..Len(pat)})
<1>1. Given_(pat, path) \in Seq({Given_(pat, path)[i] : i \in 1..Len(pat)})
  <2> DEFINE n == Len(pat)
             E == {Given_(pat, path)[i] : i \in 1..n}
             g == Given_(pat, path)
  <2>1. n \in Nat /\ DOMAIN pat = 1..n
    BY PatternIs
  <2>2. g = [i \in 1..n |-> g[i]]
    BY <2>1 DEF Given_
  <2>3. \A i \in 1..n : g[i] \in E
    OBVIOUS
  <2> HIDE DEF g, E, n
  <2>4. g \in Seq(E)
    BY <2>1, <2>2, <2>3
  <2> QED BY <2>4 DEF g, E, n
<1>2. After(pat, l) \in SUBSET (DOMAIN Given_(pat, path))
  BY DEF After, Parametric, Given_
<1> QED BY <1>1, <1>2, PickedIs DEF Rest

LEMMA RestMore ==
  ASSUME NEW pat, IsPattern(pat), PatternValid(pat), NEW path, IsPath(path),
         NEW l \in Nat, l + 1 <= Len(pat)
  PROVE  Rest(pat, path, l) =
           IF pat[l + 1].k = "lit" THEN Rest(pat, path, l + 1)
           ELSE <<Given_(pat, path)[l + 1]>> \o Rest(pat, path, l + 1)
<1> DEFINE n == Len(pat)
           K == After(pat, l + 1)
<1>1. n \in Nat /\ l + 1 \in 1..n /\ DOMAIN pat = 1..n
  BY PatternIs
<1>2. pat[l + 1].k \in {"lit", "par", "wild"}
  BY <1>1, PatternIs
<1>3. \A i \in 1..n : i > l <=> i > l + 1 \/ i = l + 1
  BY <1>1
<1>4. CASE pat[l + 1].k = "lit"
  <2>1. l + 1 \notin Parametric(pat)
    BY <1>4 DEF Parametric
  <2>2. After(pat, l) = K
    BY <1>1, <1>3, <2>1 DEF After, Parametric
  <2> QED BY <1>4, <2>2 DEF Rest
<1>5. CASE pat[l + 1].k # "lit"
  <2>1. l + 1 \in Parametric(pat)
    BY <1>1, <1>2, <1>5 DEF Parametric
  <2>2. After(pat, l) = K \cup {l + 1}
    <3>1. l + 1 > l
      OBVIOUS
    <3> QED BY <1>1, <1>3, <2>1, <3>1 DEF After, Parametric
  <2>3. K \in SUBSET (1..n) /\ \A k \in K : l + 1 < k
    BY <1>1 DEF After, Parametric
  <2> DEFINE p == l + 1
             g == Given_(pat, path)
  <2>4. n \in Nat /\ p \in 1..n /\ \A k \in K : p < k
    BY <1>1, <2>3
  <2> HIDE DEF K, n, p, g
  <2>5. Picked(g, K \cup {p}) = <<g[p]>> \o Picked(g, K)
    <3>1. \A J \in SUBSET (1..n) : \A q \in 1..n :
            (\A k \in J : q < k) => Picked(g, J \cup {q}) = <<g[q]>> \o Picked(g, J)
      BY <2>4, PickedCons
    <3>2. K \in SUBSET (1..n) /\ p \in 1..n /\ \A k \in K : p < k
      BY <2>3, <2>4
    <3> QED BY ONLY <3>1, <3>2
  <2> QED BY <1>5, <2>2, <2>5 DEF Rest, K, p, g
<1> QED BY <1>4, <1>5

(* The values that a segment gives.                                        *)
Gave(key, seg) == IF key = <<"par", "">> THEN <<<<seg>>>> ELSE <<>>

(* What was found from a node on is the best there.                        *)
BestFrom(rs, m, path, node, f) ==
  node \in Inner(rs, m, path) => IsBest(Fit(rs, m, path, node), path, Len(node), f[node])

LEMMA BestNone ==
  ASSUME NEW F, F = {}, NEW path, NEW l
  PROVE  IsBest(F, path, l, Nothing)
BY DEF IsBest

LEMMA BestOne ==
  ASSUME NEW F, NEW r \in F, \A o \in F \ {r} : Beats(r.pattern, o.pattern), r # NoRoute,
         NEW path, NEW l
  PROVE  IsBest(F, path, l, [route |-> r, vals |-> Rest(r.pattern, path, l)])
BY DEF IsBest

(* What a child of a node gives is the best of the routes through it.      *)
LEMMA DescendBest ==
  ASSUME NEW rs, RoutesSound(rs), NEW m, NEW path, IsPath(path), NEW a, Along(a, path),
         Len(a) < Len(path), NEW key, KeyFor(key, path[Len(a) + 1]), NEW f,
         BestFrom(rs, m, path, Append(a, key), f)
  PROVE  IsBest(Fit(rs, m, path, Append(a, key)), path, Len(a),
                Descend(rs, m, path, Append(a, key), Gave(key, path[Len(a) + 1]), f))
<1> DEFINE child == Append(a, key)
           k == Len(a) + 1
           vs == Gave(key, path[k])
           F == Fit(rs, m, path, child)
           d == Descend(rs, m, path, child, vs, f)
<1> SUFFICES IsBest(F, path, Len(a), d)
  OBVIOUS
<1>1. \A r \in Range(rs) : IsPattern(r.pattern) /\ PatternValid(r.pattern) /\ r # NoRoute
  BY DEF RoutesSound, Range
<1>2. Len(a) \in Nat /\ k \in 1..Len(path) /\ Len(path) \in Nat /\ IsList(a)
  <2>1. IsList(a)
    BY DEF Along
  <2>2. Len(a) \in Nat /\ Len(path) \in Nat
    BY <2>1, ListIs, PathIs
  <2> QED BY <2>1, <2>2
<1>3. IsList(child) /\ Len(child) = k
  BY <1>2, ListAppend
<1>4. Along(child, path)
  BY AlongMore
<1> HIDE DEF vs
(* The values from the node on are the child's, behind the segment's.      *)
<1>5. ASSUME NEW r \in F PROVE Rest(r.pattern, path, Len(a)) = vs \o Rest(r.pattern, path, k)
  <2> DEFINE pat == r.pattern
  <2>1. IsPattern(pat) /\ PatternValid(pat) /\ Passes(pat, child)
    BY <1>1 DEF Fit
  <2>2. k <= Len(pat) /\ Key(pat[k]) = key
    BY <1>2, <2>1, PassesMore
  <2>3. /\ IsSegment(pat[k])
        /\ k \in 1..Len(pat) /\ DOMAIN pat = 1..Len(pat)
    <3>1. k \in 1..Len(pat) /\ DOMAIN pat = 1..Len(pat)
      <4>1. Len(pat) \in Nat /\ DOMAIN pat = 1..Len(pat)
        BY <2>1, PatternIs
      <4> QED BY <1>2, <2>2, <4>1
    <3> HIDE DEF k, pat
    <3> QED BY <2>1, <3>1, SegmentIs
  <2>4. Rest(pat, path, k) \in Seq({Given_(pat, path)[i] : i \in 1..Len(pat)})
    BY <1>2, <2>1, RestIs
  <2>5. Rest(pat, path, Len(a)) =
          IF pat[k].k = "lit" THEN Rest(pat, path, k) ELSE <<Given_(pat, path)[k]>> \o Rest(pat, path, k)
    BY <1>2, <2>1, <2>2, RestMore
  <2>6. CASE key = <<"par", "">>
    <3>1. pat[k].k = "par"
      BY <2>2, <2>3, <2>6, KeysApart
    <3>2. Given_(pat, path)[k] = <<path[k]>>
      BY <2>3, <3>1 DEF Given_
    <3>3. vs = <<<<path[k]>>>>
      BY <2>6 DEF vs, Gave
    <3> HIDE DEF pat, k
    <3> QED BY <2>5, <3>1, <3>2, <3>3 DEF pat, k
  <2>7. CASE key # <<"par", "">>
    <3>1. pat[k].k = "lit"
      BY <2>2, <2>3, <2>7, KeysApart DEF KeyFor
    <3>2. <<>> \o Rest(pat, path, k) = Rest(pat, path, k)
      <4> DEFINE s == Rest(pat, path, k)
                 E == {Given_(pat, path)[i] : i \in 1..Len(pat)}
      <4>1. s \in Seq(E)
        BY <2>4
      <4> HIDE DEF s, E
      <4>2. <<>> \o s = s
        BY <4>1
      <4> QED BY <4>2 DEF s
    <3>3. vs = <<>>
      BY <2>7 DEF vs, Gave
    <3> QED BY <2>5, <3>1, <3>2, <3>3
  <2> QED BY <2>6, <2>7
<1>6. CASE child \notin Nodes(rs, m)
  <2>1. F = {}
    BY <1>3, <1>6, NodeIs DEF Fit
  <2>2. d = Nothing
    BY <1>6 DEF Descend
  <2> HIDE DEF F, d
  <2> QED BY <2>1, <2>2, BestNone
<1>7. CASE child \in Nodes(rs, m) /\ Len(child) = Len(path)
  <2> DEFINE e == RouteAt(rs, m, child)
  <2>1. d = IF e = NoRoute THEN Nothing ELSE [route |-> e, vals |-> vs]
    BY <1>7 DEF Descend
  <2>2. ASSUME NEW r \in F PROVE r = e /\ e # NoRoute /\ Len(r.pattern) = k
    <3>1. /\ r \in Range(rs) /\ r.method = m /\ Covers(r.pattern, path) /\ Passes(r.pattern, child)
          /\ IsPattern(r.pattern) /\ PatternValid(r.pattern)
      BY <1>1 DEF Fit
    <3>2. Len(r.pattern) = Len(path)
      <4>1. Len(child) <= Len(r.pattern) /\ Len(r.pattern) <= Len(path)
        <5>1. Len(child) <= Len(r.pattern)
          BY <3>1 DEF Passes
        <5>2. Len(r.pattern) <= Len(path) \/ Len(r.pattern) = Len(path)
          BY <3>1, CoversIs
        <5> QED BY <1>2, <5>1, <5>2
      <4>2. Len(r.pattern) \in Nat
        BY <3>1, PatternIs
      <4> QED BY <1>2, <1>7, <4>1, <4>2
    <3> QED BY <1>3, <1>7, <3>1, <3>2, RouteAtIs
  <2>3. CASE e = NoRoute
    <3>1. F = {}
      BY <2>2, <2>3
    <3>2. d = Nothing
      BY <2>1, <2>3
    <3> HIDE DEF F, d
    <3> QED BY <3>1, <3>2, BestNone
  <2>4. CASE e # NoRoute
    <3>1. e \in Range(rs) /\ e.method = m /\ Passes(e.pattern, child) /\ Len(e.pattern) = Len(child)
      BY <1>3, <2>4, RouteAtIs
    <3>2. IsPattern(e.pattern) /\ PatternValid(e.pattern)
      BY <1>1, <3>1
    <3>3. Covers(e.pattern, path)
      <4>1. \A i \in 1..Len(child) : /\ (e.pattern[i].k = "par" /\ path[i] # "") \/ e.pattern[i] = Lit(path[i])
                                     /\ e.pattern[i].k # "wild"
        BY <1>4, <3>1, <3>2, AlongCovers
      <4> HIDE DEF e, child
      <4>2. Len(e.pattern) \in 1..Len(child)
        BY <3>1, <3>2, PatternIs
      <4> QED BY <1>7, <3>1, <3>2, <4>1, <4>2, CoversIs
    <3>4. e \in F
      BY <3>1, <3>3 DEF Fit
    <3>5. F = {e}
      <4> HIDE DEF F, e
      <4> QED BY <2>2, <3>4
    <3>6. Rest(e.pattern, path, Len(a)) = vs
      <4>1. Rest(e.pattern, path, k) = <<>>
        BY <1>3, <3>1, <3>2, AfterNone
      <4>2. vs \o <<>> = vs
        BY DEF vs, Gave
      <4> HIDE DEF F, e, k
      <4> QED BY <1>5, <3>4, <4>1, <4>2
    <3>7. d = [route |-> e, vals |-> Rest(e.pattern, path, Len(a))]
      <4> HIDE DEF e, d
      <4> QED BY <2>1, <2>4, <3>6
    <3> HIDE DEF F, e, d
    <3>8. \A o \in F \ {e} : Beats(e.pattern, o.pattern)
      BY <3>5
    <3> QED BY <2>4, <3>4, <3>7, <3>8, BestOne
  <2> HIDE DEF e, F, d
  <2> QED BY <2>3, <2>4
<1>8. CASE child \in Nodes(rs, m) /\ Len(child) # Len(path)
  <2>1. child \in Inner(rs, m, path)
    <3>1. Len(child) < Len(path)
      <4> HIDE DEF child
      <4> QED BY <1>2, <1>3, <1>8
    <3> QED BY <1>8, <3>1 DEF Inner
  <2>2. IsBest(F, path, k, f[child])
    BY <1>3, <2>1 DEF BestFrom
  <2>3. d = IF f[child].route = NoRoute THEN Nothing ELSE [f[child] EXCEPT !.vals = vs \o @]
    BY <1>8 DEF Descend
  <2>4. CASE F = {} /\ f[child] = Nothing
    <3>1. d = Nothing
      <4>1. Nothing.route = NoRoute
        BY DEF Nothing
      <4> HIDE DEF d, child
      <4> QED BY <2>3, <2>4, <4>1
    <3> HIDE DEF F, d
    <3> QED BY <2>4, <3>1, BestNone
  <2>5. ASSUME NEW r \in F, \A o \in F \ {r} : Beats(r.pattern, o.pattern), r # NoRoute,
               f[child] = [route |-> r, vals |-> Rest(r.pattern, path, k)]
        PROVE  IsBest(F, path, Len(a), d)
    <3> DEFINE s == Rest(r.pattern, path, k)
    <3>1. d = [route |-> r, vals |-> vs \o s]
      <4> DEFINE g == f[child]
      <4>1. g = [route |-> r, vals |-> s] /\ d = IF g.route = NoRoute THEN Nothing ELSE [g EXCEPT !.vals = vs \o @]
        BY <2>3, <2>5
      <4> HIDE DEF d, s, g
      <4> QED BY <2>5, <4>1
    <3>2. d = [route |-> r, vals |-> Rest(r.pattern, path, Len(a))]
      <4>1. Rest(r.pattern, path, Len(a)) = vs \o s
        BY <1>5
      <4> HIDE DEF d, s
      <4> QED BY <3>1, <4>1
    <3> HIDE DEF d, F
    <3> QED BY <2>5, <3>2, BestOne
  <2>6. \/ F = {} /\ f[child] = Nothing
        \/ \E r \in F : /\ \A o \in F \ {r} : Beats(r.pattern, o.pattern)
                        /\ r # NoRoute
                        /\ f[child] = [route |-> r, vals |-> Rest(r.pattern, path, k)]
    <3> HIDE DEF F, child, k
    <3> QED BY <2>2 DEF IsBest
  <2> HIDE DEF F, d, child, k
  <2>7. CASE \E r \in F : /\ \A o \in F \ {r} : Beats(r.pattern, o.pattern)
                          /\ r # NoRoute
                          /\ f[child] = [route |-> r, vals |-> Rest(r.pattern, path, k)]
    BY <2>5, <2>7
  <2> QED BY <2>4, <2>6, <2>7
<1> QED BY <1>6, <1>7, <1>8

(* Of two choices the first that gives something; all of the first's       *)
(* routes win over all of the second's.                                    *)
LEMMA OrElseBest ==
  ASSUME NEW F, NEW G, NEW path, NEW l, NEW x, NEW y, IsBest(F, path, l, x), IsBest(G, path, l, y),
         \A r \in F : \A o \in G : Beats(r.pattern, o.pattern), NEW node, NEW nodes
  PROVE  IsBest(F \cup G, path, l, OrElse(x, node, nodes, y))
<1>1. CASE F = {} /\ x = Nothing
  <2>1. F \cup G = G /\ OrElse(x, node, nodes, y) = y
    BY <1>1 DEF OrElse, Nothing
  <2> QED BY <2>1
<1>2. ASSUME NEW r \in F, \A o \in F \ {r} : Beats(r.pattern, o.pattern), r # NoRoute,
             x = [route |-> r, vals |-> Rest(r.pattern, path, l)]
      PROVE  IsBest(F \cup G, path, l, OrElse(x, node, nodes, y))
  <2>1. OrElse(x, node, nodes, y) = x
    BY <1>2 DEF OrElse
  <2>2. \A o \in (F \cup G) \ {r} : Beats(r.pattern, o.pattern)
    BY <1>2
  <2> QED BY <1>2, <2>1, <2>2, BestOne
<1> QED BY <1>1, <1>2 DEF IsBest

(* A route that matches and goes through a node on the way goes on with    *)
(* the segment as a literal, as a parameter or with a wildcard.            *)
LEMMA FitGoesOn ==
  ASSUME NEW rs, RoutesSound(rs), NEW m, NEW path, IsPath(path), NEW a, Along(a, path),
         Len(a) < Len(path), NEW r \in Fit(rs, m, path, a)
  PROVE  /\ Len(a) + 1 <= Len(r.pattern)
         /\ \/ Passes(r.pattern, Append(a, <<"lit", path[Len(a) + 1]>>)) /\ Rank(r.pattern[Len(a) + 1]) = 0
            \/ /\ Passes(r.pattern, Append(a, <<"par", "">>)) /\ Rank(r.pattern[Len(a) + 1]) = 1
               /\ path[Len(a) + 1] # ""
            \/ /\ Passes(r.pattern, Append(a, <<"wild", "">>)) /\ Rank(r.pattern[Len(a) + 1]) = 2
               /\ Len(r.pattern) = Len(a) + 1 /\ r.pattern[Len(a) + 1].k = "wild"
<1> DEFINE pat == r.pattern
           k == Len(a) + 1
<1>1. /\ IsPattern(pat) /\ PatternValid(pat) /\ Passes(pat, a) /\ Covers(pat, path)
  BY DEF RoutesSound, Range, Fit
<1>2. IsList(a) /\ Len(a) \in Nat /\ Len(path) \in Nat /\ Len(pat) \in Nat \ {0}
  <2>1. IsList(a)
    BY DEF Along
  <2> HIDE DEF pat
  <2> QED BY <1>1, <2>1, ListIs, PathIs, PatternIs
<1> HIDE DEF pat
<1>3. k <= Len(pat)
  <2> SUFFICES ASSUME Len(pat) = Len(a) PROVE FALSE
    <3>1. Len(a) <= Len(pat)
      BY <1>1 DEF Passes
    <3> QED BY <1>2, <3>1
  <2>1. Len(a) \in 1..Len(a)
    BY <1>2
  <2>2. pat[Len(pat)].k # "wild"
    BY <1>1, <2>1, AlongCovers
  <2>3. Len(pat) = Len(path)
    BY <1>1, <2>2, CoversIs
  <2> QED BY <1>2, <2>3
<1>4. k \in 1..Len(pat)
  BY <1>2, <1>3
<1> DEFINE seg == pat[k]
<1>5. IsSegment(seg) /\ (seg.k = "wild" => k = Len(pat))
  BY <1>1, <1>4, SegmentIs, PatternIs
<1>6. seg.k = "wild" \/ (seg.k = "par" /\ path[k] # "") \/ seg = Lit(path[k])
  BY <1>1, <1>4, CoversIs
<1>7. \A key : Key(seg) = key => Passes(pat, Append(a, key))
  BY <1>1, <1>2, <1>3, PassesMore
<1> HIDE DEF k, seg
<1>8. CASE seg.k = "wild"
  <2>1. Passes(pat, Append(a, <<"wild", "">>)) /\ Rank(seg) = 2
    BY <1>5, <1>7, <1>8, KeysApart DEF Rank
  <2> QED BY <1>3, <1>5, <1>8, <2>1 DEF seg, k, pat
<1>9. CASE seg.k = "par" /\ path[k] # ""
  <2>1. Passes(pat, Append(a, <<"par", "">>)) /\ Rank(seg) = 1
    BY <1>5, <1>7, <1>9, KeysApart DEF Rank
  <2> QED BY <1>3, <1>9, <2>1 DEF seg, k, pat
<1>10. CASE seg = Lit(path[k])
  <2>1. Key(seg) = <<"lit", path[k]>> /\ seg.k = "lit"
    BY <1>5, <1>10, KeysApart
  <2>2. Passes(pat, Append(a, <<"lit", path[k]>>)) /\ Rank(seg) = 0
    BY <1>7, <2>1 DEF Rank
  <2> QED BY <1>3, <2>2 DEF seg, k, pat
<1> QED BY <1>6, <1>8, <1>9, <1>10

(* The route of a wildcard matches all that is left.                       *)
LEMMA WildBest ==
  ASSUME NEW rs, RoutesSound(rs), NEW m, NEW path, IsPath(path), NEW a, Along(a, path),
         Len(a) < Len(path)
  PROVE  LET wild == RouteAt(rs, m, Append(a, <<"wild", "">>))
         IN IsBest({r \in Fit(rs, m, path, a) : Passes(r.pattern, Append(a, <<"wild", "">>))},
                   path, Len(a),
                   IF wild = NoRoute THEN Nothing
                   ELSE [route |-> wild, vals |-> <<SubSeq(path, Len(a) + 1, Len(path))>>])
<1> DEFINE child == Append(a, <<"wild", "">>)
           e == RouteAt(rs, m, child)
           k == Len(a) + 1
           F == {r \in Fit(rs, m, path, a) : Passes(r.pattern, child)}
           d == IF e = NoRoute THEN Nothing ELSE [route |-> e, vals |-> <<SubSeq(path, k, Len(path))>>]
<1> SUFFICES IsBest(F, path, Len(a), d)
  OBVIOUS
<1>1. \A r \in Range(rs) : IsPattern(r.pattern) /\ PatternValid(r.pattern) /\ r # NoRoute
  BY DEF RoutesSound, Range
<1>2. IsList(a) /\ Len(a) \in Nat /\ Len(path) \in Nat /\ k <= Len(path) /\ k \in Nat \ {0}
  <2>1. IsList(a)
    BY DEF Along
  <2>2. Len(a) \in Nat /\ Len(path) \in Nat
    BY <2>1, ListIs, PathIs
  <2> QED BY <2>1, <2>2
<1>3. IsList(child) /\ Len(child) = k
  BY <1>2, ListAppend
(* A pattern through the child has its wildcard there, and ends.           *)
<1>4. ASSUME NEW pat, IsPattern(pat), PatternValid(pat), Passes(pat, child)
      PROVE  /\ Passes(pat, a) /\ Len(pat) = k /\ pat[k].k = "wild"
             /\ Rest(pat, path, Len(a)) = <<SubSeq(path, k, Len(path))>>
  <2>1. Passes(pat, a) /\ k <= Len(pat) /\ Key(pat[k]) = <<"wild", "">>
    BY <1>2, <1>4, PassesMore
  <2>2. k \in 1..Len(pat) /\ DOMAIN pat = 1..Len(pat)
    <3>1. Len(pat) \in Nat /\ DOMAIN pat = 1..Len(pat)
      BY <1>4, PatternIs
    <3> HIDE DEF k, child
    <3>2. k <= Len(pat) /\ k \in Nat \ {0}
      BY <1>2, <2>1
    <3>3. k \in 1..Len(pat)
      BY <3>1, <3>2
    <3> QED BY <3>1, <3>3
  <2>3. IsSegment(pat[k])
    BY <1>4, <2>2, SegmentIs
  <2>4. pat[k].k = "wild"
    BY <2>1, <2>3, KeysApart
  <2>5. Len(pat) = k
    BY <1>4, <2>2, <2>4, PatternIs
  <2>6. Rest(pat, path, Len(a)) = <<Given_(pat, path)[k]>> \o Rest(pat, path, k)
    BY <1>2, <1>4, <2>1, <2>4, RestMore
  <2>7. Rest(pat, path, k) = <<>>
    BY <1>4, <2>5, AfterNone
  <2>8. Given_(pat, path)[k] = SubSeq(path, k, Len(path))
    BY <2>2, <2>4 DEF Given_
  <2>9. \A x : <<x>> \o <<>> = <<x>>
    OBVIOUS
  <2> HIDE DEF k, child
  <2> QED BY <2>1, <2>4, <2>5, <2>6, <2>7, <2>8, <2>9
<1>5. ASSUME NEW r \in F PROVE r = e /\ e # NoRoute
  <2>1. r \in Range(rs) /\ r.method = m /\ Passes(r.pattern, child)
    BY DEF Fit
  <2>2. Len(r.pattern) = Len(child)
    <3> HIDE DEF k, child
    <3> QED BY <1>1, <1>3, <1>4, <2>1
  <2> HIDE DEF child
  <2> QED BY <1>3, <2>1, <2>2, RouteAtIs
<1>6. CASE e = NoRoute
  <2>1. F = {}
    <3> HIDE DEF F, e
    <3> QED BY <1>5, <1>6
  <2>2. d = Nothing
    BY <1>6
  <2> HIDE DEF F, d
  <2> QED BY <2>1, <2>2, BestNone
<1>7. CASE e # NoRoute
  <2>1. e \in Range(rs) /\ e.method = m /\ Passes(e.pattern, child)
    BY <1>3, <1>7, RouteAtIs
  <2> DEFINE pat == e.pattern
  <2>2. IsPattern(pat) /\ PatternValid(pat)
    BY <1>1, <2>1
  <2>3. /\ Passes(pat, a) /\ Len(pat) = k /\ pat[k].k = "wild"
        /\ Rest(pat, path, Len(a)) = <<SubSeq(path, k, Len(path))>>
    <3>1. Passes(pat, child)
      BY <2>1
    <3> HIDE DEF k, child, pat
    <3> QED BY <1>4, <2>2, <3>1
  <2>4. Covers(pat, path)
    <3>1. \A i \in 1..Len(a) : (pat[i].k = "par" /\ path[i] # "") \/ pat[i] = Lit(path[i])
      <4> HIDE DEF pat, k
      <4> QED BY <2>2, <2>3, AlongCovers
    <3>2. \A i \in 1..k : i \in 1..Len(a) \/ i = k
      BY <1>2
    <3> HIDE DEF e, k, pat
    <3> QED BY <1>2, <2>2, <2>3, <3>1, <3>2, CoversIs DEF pat
  <2>5. e \in F
    BY <2>1, <2>3, <2>4 DEF Fit
  <2>6. d = [route |-> e, vals |-> Rest(e.pattern, path, Len(a))]
    <3>1. d = [route |-> e, vals |-> <<SubSeq(path, k, Len(path))>>]
      BY <1>7
    <3> HIDE DEF e, d, k
    <3> QED BY <2>3, <3>1
  <2>7. \A o \in F \ {e} : Beats(e.pattern, o.pattern)
    <3> HIDE DEF F, e
    <3> QED BY <1>5
  <2> HIDE DEF F, d, e
  <2> QED BY <1>7, <2>5, <2>6, <2>7, BestOne
<1> QED BY <1>6, <1>7

(* What a node gives is the best of the routes through it, when its        *)
(* children give theirs.                                                   *)
LEMMA NodeBest ==
  ASSUME NEW rs, RoutesSound(rs), NEW m, NEW path, IsPath(path), NEW a, Along(a, path),
         Len(a) < Len(path), NEW f,
         \A key : KeyFor(key, path[Len(a) + 1]) => BestFrom(rs, m, path, Append(a, key), f)
  PROVE  IsBest(Fit(rs, m, path, a), path, Len(a), MatchAt(rs, m, path, a, f))
<1> DEFINE k == Len(a) + 1
           seg == path[k]
           F == Fit(rs, m, path, a)
           lit == Append(a, <<"lit", seg>>)
           par == Append(a, <<"par", "">>)
           wild == Append(a, <<"wild", "">>)
           L == {r \in F : Passes(r.pattern, lit)}
           P == {r \in F : Passes(r.pattern, par)}
           W == {r \in F : Passes(r.pattern, wild)}
           byLit == Descend(rs, m, path, lit, <<>>, f)
           byPar == IF seg = "" THEN Nothing ELSE Descend(rs, m, path, par, <<<<seg>>>>, f)
           route == RouteAt(rs, m, wild)
           byWild == IF route = NoRoute THEN Nothing
                     ELSE [route |-> route, vals |-> <<SubSeq(path, k, Len(path))>>]
           N == Nodes(rs, m)
<1>1. \A r \in Range(rs) : IsPattern(r.pattern) /\ PatternValid(r.pattern)
  BY DEF RoutesSound, Range
<1>2. IsList(a)
  BY DEF Along
<1>0. k \in Nat \ {0}
  <2>1. Len(a) \in Nat
    BY <1>2, ListIs
  <2> QED BY <2>1
<1>3. \A key : \A r \in Range(rs) :
        Passes(r.pattern, Append(a, key)) =>
          Passes(r.pattern, a) /\ k <= Len(r.pattern) /\ Key(r.pattern[k]) = key
  BY <1>1, <1>2, PassesMore
<1>4. \A key : {r \in F : Passes(r.pattern, Append(a, key))} = Fit(rs, m, path, Append(a, key))
  BY <1>3 DEF Fit
<1>5. IsBest(L, path, Len(a), byLit)
  <2>1. KeyFor(<<"lit", seg>>, seg) /\ Gave(<<"lit", seg>>, seg) = <<>>
    BY DEF KeyFor, Gave
  <2>2. IsBest(Fit(rs, m, path, lit), path, Len(a),
               Descend(rs, m, path, lit, Gave(<<"lit", seg>>, seg), f))
    <3> DEFINE key == <<"lit", seg>>
    <3>1. KeyFor(key, seg) /\ BestFrom(rs, m, path, Append(a, key), f)
      BY <2>1
    <3> HIDE DEF key
    <3>2. IsBest(Fit(rs, m, path, Append(a, key)), path, Len(a),
                 Descend(rs, m, path, Append(a, key), Gave(key, seg), f))
      BY <3>1, DescendBest
    <3> QED BY <3>2 DEF key
  <2>3. L = Fit(rs, m, path, lit)
    BY <1>4
  <2>4. byLit = Descend(rs, m, path, lit, Gave(<<"lit", seg>>, seg), f)
    BY <2>1
  <2> HIDE DEF L, byLit, lit, seg
  <2> QED BY <2>2, <2>3, <2>4
<1>6. IsBest(P, path, Len(a), byPar)
  <2>1. CASE seg = ""
    <3>1. P = {}
      <4> SUFFICES ASSUME NEW r \in P PROVE FALSE
        OBVIOUS
      <4>1. r \in Range(rs) /\ k <= Len(r.pattern) /\ Key(r.pattern[k]) = <<"par", "">>
        BY <1>3 DEF Fit
      <4>2. r \in F /\ IsPattern(r.pattern) /\ PatternValid(r.pattern) /\ Covers(r.pattern, path)
        BY <1>1 DEF Fit
      <4> DEFINE pat == r.pattern
                 s == pat[k]
      <4>3. k \in 1..Len(pat)
        <5>1. k \in Nat \ {0}
          BY <1>0
        <5> HIDE DEF k
        <5>2. Len(pat) \in Nat /\ k <= Len(pat)
          BY <4>1, <4>2, PatternIs
        <5> QED BY <5>1, <5>2, Within
      <4>4. IsSegment(s) /\ Key(s) = <<"par", "">>
        BY <4>1, <4>2, <4>3, SegmentIs
      <4>5. s.k = "wild" \/ (s.k = "par" /\ path[k] # "") \/ s = Lit(path[k])
        BY <4>2, <4>3, CoversIs
      <4> HIDE DEF s
      <4>6. s.k = "par" /\ s # Lit(path[k])
        BY <4>4, KeysApart
      <4> QED BY <2>1, <4>5, <4>6
    <3>2. byPar = Nothing
      BY <2>1
    <3> HIDE DEF P, byPar
    <3> QED BY <3>1, <3>2, BestNone
  <2>2. CASE seg # ""
    <3> DEFINE key == <<"par", "">>
    <3>1. KeyFor(key, seg) /\ Gave(key, seg) = <<<<seg>>>>
      BY <2>2 DEF KeyFor, Gave
    <3>2. par = Append(a, key)
      OBVIOUS
    <3> HIDE DEF key, seg
    <3>3. IsBest(Fit(rs, m, path, Append(a, key)), path, Len(a),
                 Descend(rs, m, path, Append(a, key), Gave(key, seg), f))
      BY <3>1, DescendBest DEF seg
    <3>4. P = Fit(rs, m, path, par)
      BY <1>4
    <3>5. byPar = Descend(rs, m, path, par, <<<<seg>>>>, f)
      BY <2>2
    <3> HIDE DEF P, byPar, par
    <3> QED BY <3>1, <3>2, <3>3, <3>4, <3>5
  <2> QED BY <2>1, <2>2
<1>7. IsBest(W, path, Len(a), byWild)
  BY WildBest
(* The ranks of the three.                                                 *)
<1>8. ASSUME NEW r \in F
      PROVE  /\ r \in L \cup P \cup W /\ k <= Len(r.pattern)
             /\ r \in L => Rank(r.pattern[k]) = 0
             /\ r \in P => Rank(r.pattern[k]) = 1
             /\ r \in W => Rank(r.pattern[k]) = 2
  <2>1. /\ k <= Len(r.pattern)
        /\ \/ Passes(r.pattern, lit) \/ Passes(r.pattern, par) \/ Passes(r.pattern, wild)
    BY FitGoesOn
  <2>2. r \in L \cup P \cup W
    BY <2>1
  <2>3. r \in Range(rs)
    BY DEF Fit
  <2> DEFINE s == r.pattern[k]
  <2>4. IsSegment(s)
    <3>1. k \in Nat \ {0}
      BY <1>0
    <3> HIDE DEF k
    <3>2. Len(r.pattern) \in Nat
      BY <1>1, <2>3, PatternIs
    <3>3. k \in 1..Len(r.pattern)
      BY <2>1, <3>1, <3>2, Within
    <3> QED BY <1>1, <2>3, <3>3, SegmentIs
  <2>5. /\ r \in L => Key(s) = <<"lit", seg>>
        /\ r \in P => Key(s) = <<"par", "">>
        /\ r \in W => Key(s) = <<"wild", "">>
    BY <1>3, <2>3
  <2> HIDE DEF s, L, P, W, seg
  <2>6. /\ r \in L => Rank(s) = 0
        /\ r \in P => Rank(s) = 1
        /\ r \in W => Rank(s) = 2
    <3>1. /\ r \in L => s.k = "lit"
          /\ r \in P => s.k = "par"
          /\ r \in W => s.k = "wild"
      BY <2>4, <2>5, KeysApart
    <3> QED BY <3>1 DEF Rank
  <2> QED BY <2>1, <2>2, <2>6 DEF s
<1>9. ASSUME NEW p \in F, NEW q \in F, Rank(p.pattern[k]) < Rank(q.pattern[k])
      PROVE  Beats(p.pattern, q.pattern)
  <2>1. p \in Range(rs) /\ q \in Range(rs) /\ Passes(p.pattern, a) /\ Passes(q.pattern, a)
    BY DEF Fit
  <2>2. k <= Len(p.pattern) /\ k <= Len(q.pattern)
    BY <1>8
  <2> QED BY <1>1, <1>2, <1>9, <2>1, <2>2, BeatsAt
<1> HIDE DEF k
<1>10. /\ \A r \in P : \A o \in W : Beats(r.pattern, o.pattern)
       /\ \A r \in L : \A o \in P \cup W : Beats(r.pattern, o.pattern)
  <2>1. \A r \in L : r \in F /\ Rank(r.pattern[k]) = 0
    BY <1>8
  <2>2. \A r \in P : r \in F /\ Rank(r.pattern[k]) = 1
    BY <1>8
  <2>3. \A r \in W : r \in F /\ Rank(r.pattern[k]) = 2
    BY <1>8
  <2> HIDE DEF L, P, W, F
  <2>4. \A r \in P : \A o \in W : Beats(r.pattern, o.pattern)
    BY <1>9, <2>2, <2>3
  <2>5. \A r \in L : \A o \in P \cup W : Beats(r.pattern, o.pattern)
    BY <1>9, <2>1, <2>2, <2>3
  <2> QED BY <2>4, <2>5
<1>11. F = L \cup (P \cup W)
  <2>1. \A r \in F : r \in L \cup P \cup W
    BY <1>8
  <2> QED BY <2>1
<1>12. MatchAt(rs, m, path, a, f) = OrElse(byLit, lit, N, OrElse(byPar, par, N, byWild))
  BY DEF MatchAt, k
<1> HIDE DEF L, P, W, F, byLit, byPar, byWild, lit, par, N
<1>13. IsBest(P \cup W, path, Len(a), OrElse(byPar, par, N, byWild))
  BY <1>6, <1>7, <1>10, OrElseBest
<1>14. IsBest(L \cup (P \cup W), path, Len(a), OrElse(byLit, lit, N, OrElse(byPar, par, N, byWild)))
  BY <1>5, <1>10, <1>13, OrElseBest
<1> QED BY <1>11, <1>12, <1>14 DEF F

LEMMA MatchBest ==
  ASSUME NEW rs, RoutesSound(rs), NEW m, NEW path, IsPath(path),
         NEW a \in Inner(rs, m, path), Along(a, path)
  PROVE  IsBest(Fit(rs, m, path, a), path, Len(a), Match(rs, m, path)[a])
<1> DEFINE S == Inner(rs, m, path)
           f == Match(rs, m, path)
           rank == [b \in S |-> Len(path) - Len(b)]
           G == {b \in S : Along(b, path) => IsBest(Fit(rs, m, path, b), path, Len(b), f[b])}
<1>1. ASSUME NEW b \in S PROVE Len(b) \in Nat /\ Len(path) \in Nat /\ Len(b) < Len(path) /\ IsList(b)
  <2>1. b \in Nodes(rs, m) /\ Len(b) < Len(path)
    BY DEF Inner
  <2>2. IsList(b)
    BY <2>1, NodeIs
  <2> QED BY <2>1, <2>2, ListIs, PathIs
<1>2. rank \in [S -> Nat]
  <2>1. \A b \in S : Len(path) - Len(b) \in Nat
    <3> SUFFICES ASSUME NEW b \in S PROVE Len(path) - Len(b) \in Nat
      OBVIOUS
    <3>1. Len(b) \in Nat /\ Len(path) \in Nat /\ Len(b) < Len(path)
      BY <1>1
    <3> QED BY <3>1
  <2> HIDE DEF S
  <2> QED BY <2>1
<1>3. ASSUME NEW b \in S, \A c \in S : rank[c] < rank[b] => c \in G PROVE b \in G
  <2> SUFFICES ASSUME Along(b, path) PROVE IsBest(Fit(rs, m, path, b), path, Len(b), f[b])
    BY DEF G
  <2>1. ASSUME NEW key, KeyFor(key, path[Len(b) + 1]) PROVE BestFrom(rs, m, path, Append(b, key), f)
    <3> DEFINE c == Append(b, key)
    <3> SUFFICES ASSUME c \in S PROVE IsBest(Fit(rs, m, path, c), path, Len(c), f[c])
      BY DEF BestFrom
    <3>1. Along(c, path)
      BY <1>1, <2>1, AlongMore
    <3>2. Len(c) = Len(b) + 1 /\ Len(b) \in Nat /\ Len(path) \in Nat
      BY <1>1, ListAppend
    <3> HIDE DEF c
    <3>3. rank[c] < rank[b]
      BY <3>2
    <3>4. c \in G
      BY <1>3, <3>3
    <3> QED BY <3>1, <3>4
  <2>2. IsBest(Fit(rs, m, path, b), path, Len(b), MatchAt(rs, m, path, b, f))
    BY <1>1, <2>1, NodeBest
  <2>3. f[b] = MatchAt(rs, m, path, b, f)
    BY MatchIs
  <2> QED BY <2>2, <2>3
<1>4. S \subseteq G
  <2> HIDE DEF S, G, rank
  <2> QED BY <1>2, <1>3, RankInduction
<1> QED BY <1>4

(* The routes that match, and that the lookup gives the best of them.      *)
Matching(rs, m, path) == {r \in Range(rs) : r.method = m /\ Covers(r.pattern, path)}

LEMMA FromRoot ==
  ASSUME NEW rs, RoutesSound(rs), NEW path, NEW r \in Range(rs)
  PROVE  /\ IsPattern(r.pattern) /\ PatternValid(r.pattern)
         /\ Passes(r.pattern, <<>>) /\ DOMAIN r.pattern \subseteq Nat \ {0}
         /\ Rest(r.pattern, path, 0) = ValuesIn(r.pattern, path)
<1>1. IsPattern(r.pattern) /\ PatternValid(r.pattern)
  BY DEF RoutesSound, Range
<1>2. Len(r.pattern) \in Nat \ {0} /\ DOMAIN r.pattern = 1..Len(r.pattern)
  BY <1>1, PatternIs
<1>3. After(r.pattern, 0) = Parametric(r.pattern)
  BY <1>2 DEF After, Parametric
<1>4. Rest(r.pattern, path, 0) = ValuesIn(r.pattern, path)
  BY <1>3 DEF Rest, ValuesIn, Given_
<1>5. Passes(r.pattern, <<>>)
  BY <1>2 DEF Passes
<1> QED BY <1>1, <1>2, <1>4, <1>5

LEMMA FindIsBest ==
  ASSUME NEW rs, RoutesSound(rs), NEW m, NEW path, IsPath(path)
  PROVE  IsBest(Matching(rs, m, path), path, 0, Find(rs, m, path))
<1> DEFINE F == Matching(rs, m, path)
           root == <<>>
           d == Find(rs, m, path)
<1>1. IsList(root) /\ Len(root) = 0 /\ Along(root, path) /\ Len(root) < Len(path)
  <2>1. IsList(root) /\ Len(root) = 0
    BY DEF IsList
  <2>2. Len(path) \in Nat \ {0}
    BY PathIs
  <2> QED BY <2>1, <2>2 DEF Along
<1>2. \A r \in Range(rs) : Passes(r.pattern, root)
  BY FromRoot
<1>3. Fit(rs, m, path, root) = F
  BY <1>2 DEF Fit, Matching
<1>4. CASE root \in Inner(rs, m, path)
  <2>1. d = Match(rs, m, path)[root]
    BY <1>4 DEF Find
  <2> HIDE DEF d, F, root
  <2>2. IsBest(F, path, 0, d)
    BY <1>1, <1>3, <1>4, <2>1, MatchBest
  <2> QED BY <2>2 DEF F, d
<1>5. CASE root \notin Inner(rs, m, path)
  <2>1. root \notin Nodes(rs, m)
    BY <1>1, <1>5 DEF Inner
  <2>2. F = {}
    <3> HIDE DEF root
    <3> QED BY <1>1, <1>2, <2>1, NodeIs DEF Matching
  <2>3. d = Nothing
    BY <1>5 DEF Find
  <2> QED BY <2>2, <2>3, BestNone
<1> QED BY <1>4, <1>5

LEMMA FoundIs ==
  ASSUME NEW rs, RoutesSound(rs), NEW m, NEW path, IsPath(path)
  PROVE  \/ Find(rs, m, path) = Nothing /\ Find(rs, m, path).route = NoRoute
         \/ \E r \in Range(rs) : /\ r # NoRoute /\ r.method = m /\ Covers(r.pattern, path)
                                /\ Find(rs, m, path) = [route |-> r, vals |-> ValuesIn(r.pattern, path)]
<1> DEFINE F == Matching(rs, m, path)
           d == Find(rs, m, path)
<1>1. IsBest(F, path, 0, d)
  BY FindIsBest
<1>2. F \subseteq Range(rs) /\ \A r \in F : r.method = m /\ Covers(r.pattern, path)
  BY DEF Matching
<1>3. \A r \in Range(rs) : Rest(r.pattern, path, 0) = ValuesIn(r.pattern, path)
  BY FromRoot
<1>4. Nothing.route = NoRoute
  BY DEF Nothing
<1> HIDE DEF F, d
<1>5. \/ d = Nothing
      \/ \E r \in F : r # NoRoute /\ d = [route |-> r, vals |-> Rest(r.pattern, path, 0)]
  BY <1>1 DEF IsBest
<1>6. ASSUME NEW r \in F, r # NoRoute, d = [route |-> r, vals |-> Rest(r.pattern, path, 0)]
      PROVE  /\ r \in Range(rs) /\ r.method = m /\ Covers(r.pattern, path)
             /\ d = [route |-> r, vals |-> ValuesIn(r.pattern, path)]
  BY <1>2, <1>3, <1>6
<1>7. CASE d = Nothing
  BY <1>4, <1>7 DEF d
<1>8. CASE \E r \in F : r # NoRoute /\ d = [route |-> r, vals |-> Rest(r.pattern, path, 0)]
  BY <1>6, <1>8 DEF d
<1> QED BY <1>5, <1>7, <1>8

(* The lookup of the trie gives, for every table of routes, every method   *)
(* and every path, what the routes themselves say: nothing when none       *)
(* matches, and otherwise the one route that wins over all others that     *)
(* match, with the values of its parameters.                               *)
THEOREM FindsBest ==
  ASSUME NEW rs, RoutesSound(rs), NEW m, NEW path, IsPath(path)
  PROVE  Find(rs, m, path) = BestRoute(rs, m, path)
<1> DEFINE F == {r \in Range(rs) : r.method = m /\ Covers(r.pattern, path)}
           d == Find(rs, m, path)
           wins(q) == \A o \in F \ {q} : Beats(q.pattern, o.pattern)
<1>3. \A r \in Range(rs) : /\ DOMAIN r.pattern \subseteq Nat \ {0}
                            /\ Rest(r.pattern, path, 0) = ValuesIn(r.pattern, path)
  BY FromRoot
<1>5. IsBest(F, path, 0, d)
  BY FindIsBest DEF Matching
<1>6. CASE F = {}
  <2>1. d = Nothing
    <3> HIDE DEF d, F
    <3> QED BY <1>5, <1>6 DEF IsBest
  <2>2. BestRoute(rs, m, path) = Nothing
    BY <1>6 DEF BestRoute
  <2> QED BY <2>1, <2>2
<1>7. CASE F # {}
  <2>1. PICK r \in F : wins(r) /\ d = [route |-> r, vals |-> Rest(r.pattern, path, 0)]
    <3> HIDE DEF d, F
    <3> QED BY <1>5, <1>7 DEF IsBest
  <2>2. ASSUME NEW q \in F, wins(q) PROVE q = r
    <3> SUFFICES ASSUME q # r PROVE FALSE
      OBVIOUS
    <3>1. Beats(q.pattern, r.pattern) /\ Beats(r.pattern, q.pattern)
      BY <2>1, <2>2
    <3>2. DOMAIN q.pattern \subseteq Nat \ {0}
      BY <1>3
    <3> QED BY <3>1, <3>2, BeatsOneWay
  <2> DEFINE c == CHOOSE q \in F : wins(q)
  <2>3. c = r
    <3>1. c \in F /\ wins(c)
      <4> HIDE DEF F, wins
      <4> QED BY <2>1
    <3> HIDE DEF c, wins, F
    <3> QED BY <2>2, <3>1
  <2>4. BestRoute(rs, m, path) = [route |-> c, vals |-> ValuesIn(c.pattern, path)]
    BY <1>7 DEF BestRoute
  <2>5. Rest(r.pattern, path, 0) = ValuesIn(r.pattern, path)
    BY <1>3
  <2> HIDE DEF c, F, d
  <2> QED BY <2>1, <2>3, <2>4, <2>5 DEF d
<1> QED BY <1>6, <1>7

(* The URL built of the values a path gave to a pattern is the path.       *)
LEMMA ValuesBack ==
  ASSUME NEW pat, IsPattern(pat), PatternValid(pat), NEW path, NEW p \in Parametric(pat)
  PROVE  LET names == ParamNames(pat)
             vals == ValuesIn(pat, path)
             given == [n \in Range(names) |-> vals[CHOOSE i \in DOMAIN names : names[i] = n]]
         IN given[pat[p].n] = Given_(pat, path)[p]
<1> DEFINE K == Parametric(pat)
           ns == [i \in DOMAIN pat |-> pat[i].n]
           gs == Given_(pat, path)
           names == ParamNames(pat)
           vals == ValuesIn(pat, path)
           given == [n \in Range(names) |-> vals[CHOOSE i \in DOMAIN names : names[i] = n]]
           c == Cardinality(K)
           o == OrderIn(K, p)
<1>1. /\ Len(pat) \in Nat /\ DOMAIN pat = 1..Len(pat)
      /\ \A i, j \in K : pat[i].n = pat[j].n => i = j
  BY PatternIs
<1>2. K \in SUBSET (DOMAIN pat) /\ K \in SUBSET (1..Len(pat))
  BY <1>1 DEF Parametric
<1>3. /\ \A k \in 1..c : Nth(K, k) \in K /\ OrderIn(K, Nth(K, k)) = k
      /\ o \in 1..c /\ Nth(K, o) = p
  <2> HIDE DEF K
  <2> QED BY <1>1, <1>2, NthExists DEF K
<1>4. /\ names = [k \in 1..c |-> ns[Nth(K, k)]]
      /\ vals = [k \in 1..c |-> gs[Nth(K, k)]]
  BY DEF ParamNames, ValuesIn, Picked, Given_
<1> HIDE DEF K, c, o, gs, names, vals
<1>5. \A k \in 1..c : names[k] = pat[Nth(K, k)].n
  BY <1>2, <1>3, <1>4
<1>6. ASSUME NEW k \in 1..c, names[k] = pat[p].n PROVE k = o
  <2>1. Nth(K, k) \in K /\ p \in K
    BY <1>3 DEF K
  <2>2. Nth(K, k) = p
    BY <1>1, <1>5, <1>6, <2>1
  <2> QED BY <1>3, <2>2 DEF o
<1>7. DOMAIN names = 1..c
  BY <1>4
<1>8. names[o] = pat[p].n
  BY <1>3, <1>5
<1>9. pat[p].n \in Range(names)
  BY <1>3, <1>7, <1>8 DEF Range
<1>10. (CHOOSE i \in DOMAIN names : names[i] = pat[p].n) = o
  BY <1>3, <1>6, <1>7, <1>8
<1>11. given[pat[p].n] = vals[o]
  BY <1>9, <1>10
<1>12. vals[o] = gs[p]
  BY <1>3, <1>4
<1> QED BY <1>11, <1>12 DEF gs, names, vals

(* The URL a route gives for values found with it.                         *)
Rebuilt(r, vals) ==
  LET names == ParamNames(r.pattern)
      given == [n \in Range(names) |-> vals[CHOOSE i \in DOMAIN names : names[i] = n]]
  IN BuildURL(r, given)

LEMMA UrlBack ==
  ASSUME NEW r, IsPattern(r.pattern), PatternValid(r.pattern), NEW path, IsPath(path),
         Covers(r.pattern, path)
  PROVE  Rebuilt(r, ValuesIn(r.pattern, path)) = path
<1> DEFINE pat == r.pattern
           names == ParamNames(pat)
           vals == ValuesIn(pat, path)
           given == [n \in Range(names) |-> vals[CHOOSE i \in DOMAIN names : names[i] = n]]
           n == Len(pat)
           url == [i \in 1..n |-> IF pat[i].k = "par" THEN given[pat[i].n][1] ELSE pat[i].n]
           E == {path[i] : i \in DOMAIN path}
<1> SUFFICES BuildURL(r, given) = path
  BY DEF Rebuilt
<1>1. n \in Nat \ {0} /\ DOMAIN pat = 1..n /\ \A i \in 1..n : pat[i].k = "wild" => i = n
  BY PatternIs
<1>2. /\ IF pat[n].k = "wild" THEN n <= Len(path) ELSE n = Len(path)
      /\ \A i \in 1..n : pat[i].k = "wild" \/ (pat[i].k = "par" /\ path[i] # "") \/ pat[i] = Lit(path[i])
  BY CoversIs
<1>3. Len(path) \in Nat /\ path \in Seq(E) /\ IsList(path)
  BY PathIs DEF IsPath, IsList
<1>4. \A p \in Parametric(pat) : given[pat[p].n] = Given_(pat, path)[p]
  BY ValuesBack
<1>5. BuildURL(r, given) = IF pat[n].k = "wild" THEN SubSeq(url, 1, n - 1) \o given[pat[n].n] ELSE url
  BY DEF BuildURL
<1> HIDE DEF given
<1>6. ASSUME NEW i \in 1..n, pat[i].k # "wild" PROVE url[i] = path[i]
  <2>1. CASE pat[i].k = "par"
    <3>1. i \in Parametric(pat)
      BY <1>1, <2>1 DEF Parametric
    <3>2. given[pat[i].n] = <<path[i]>>
      <4>1. Given_(pat, path)[i] = <<path[i]>>
        BY <1>1, <2>1 DEF Given_
      <4> QED BY <1>4, <3>1, <4>1
    <3>3. url[i] = given[pat[i].n][1]
      BY <2>1
    <3> HIDE DEF url, pat
    <3> QED BY <3>2, <3>3
  <2>2. CASE pat[i].k # "par"
    <3>1. pat[i] = Lit(path[i])
      BY <1>2, <1>6, <2>2
    <3>2. pat[i].n = path[i]
      BY <3>1 DEF Lit
    <3> QED BY <2>2, <3>2
  <2> QED BY <2>1, <2>2
<1>7. IsList(url) /\ Len(url) = n
  <2>0. url = [i \in 1..n |-> url[i]]
    OBVIOUS
  <2> HIDE DEF url, n
  <2> QED BY <1>1, <2>0, ListOfLength
<1> HIDE DEF url
<1>8. CASE pat[n].k = "wild"
  <2>1. n \in Parametric(pat)
    BY <1>1, <1>8 DEF Parametric
  <2>2. given[pat[n].n] = SubSeq(path, n, Len(path))
    <3>1. Given_(pat, path)[n] = SubSeq(path, n, Len(path))
      <4>1. n \in DOMAIN pat
        BY <2>1 DEF Parametric
      <4> HIDE DEF n, pat
      <4> QED BY <1>8, <4>1 DEF Given_
    <3> QED BY <1>4, <2>1, <3>1
  <2>3. n \in 1..Len(path)
    <3>1. n <= Len(path)
      BY <1>2, <1>8
    <3> HIDE DEF n
    <3> QED BY <1>1, <1>3, <3>1, Within
  <2>4. \A i \in 1..(n - 1) : url[i] = path[i]
    <3>1. \A i \in 1..(n - 1) : i \in 1..n /\ i # n
      BY <1>1
    <3> QED BY <1>1, <1>6, <3>1
  <2>5. SubSeq(url, 1, n - 1) = SubSeq(path, 1, n - 1)
    <3> DEFINE U == {url[i] : i \in DOMAIN url}
               T == U \cup E
               a == SubSeq(url, 1, n - 1)
               b == SubSeq(path, 1, n - 1)
    <3>0. url \in Seq(U)
      BY <1>7 DEF IsList
    <3> HIDE DEF U, E, pat, n
    <3>1. url \in Seq(T) /\ path \in Seq(T)
      BY <1>3, <3>0
    <3> HIDE DEF T
    <3>2. a \in Seq(T) /\ Len(a) = n - 1 /\ \A i \in 1..(n - 1) : a[i] = url[i]
      BY <1>1, <1>7, <2>3, <3>1
    <3>3. b \in Seq(T) /\ Len(b) = n - 1 /\ \A i \in 1..(n - 1) : b[i] = path[i]
      BY <1>1, <2>3, <3>1
    <3> HIDE DEF a, b
    <3>4. a = b
      BY <2>4, <3>2, <3>3
    <3> QED BY <3>4 DEF a, b
  <2> HIDE DEF E, n, pat
  <2>6. SubSeq(path, 1, n - 1) \o SubSeq(path, n, Len(path)) = path
    BY <1>3, <2>3, SplitBack
  <2>7. BuildURL(r, given) = path
    BY <1>5, <1>8, <2>2, <2>5, <2>6
  <2> QED BY <2>7 DEF given, pat
<1>9. CASE pat[n].k # "wild"
  <2>1. \A i \in 1..n : pat[i].k # "wild"
    BY <1>1, <1>9
  <2>2. n = Len(path)
    BY <1>2, <1>9
  <2> HIDE DEF E, n, pat
  <2>3. url = path
    BY <1>3, <1>6, <1>7, <2>1, <2>2, ListsEqual
  <2>4. BuildURL(r, given) = path
    BY <1>5, <1>9, <2>3
  <2> QED BY <2>4 DEF given, pat
<1> QED BY <1>8, <1>9

(* The other spelling of a path is one.                                    *)
LEMMA FrontIs ==
  ASSUME NEW E, NEW s \in Seq(E), Len(s) > 1
  PROVE  IsPath(SubSeq(s, 1, Len(s) - 1))
<1> DEFINE f == SubSeq(s, 1, Len(s) - 1)
           n == Len(s) - 1
<1>1. n \in Nat /\ n # 0
  BY DEF n
<1>2. f \in Seq(E) /\ Len(f) = n
  OBVIOUS
<1> HIDE DEF f, n
<1>3. f = [i \in 1..n |-> f[i]]
  BY <1>2
<1>4. IsList(f)
  BY <1>1, <1>3, ListOfLength
<1>5. f # <<>>
  BY <1>1, <1>2
<1> QED BY <1>4, <1>5 DEF IsPath, f

LEMMA AppendPath ==
  ASSUME NEW path, IsList(path), NEW e
  PROVE  IsPath(Append(path, e))
<1> DEFINE E == {path[i] : i \in DOMAIN path} \cup {e}
           g == Append(path, e)
<1>1. IsList(g) /\ Len(g) = Len(path) + 1 /\ Len(path) \in Nat
  BY ListAppend, ListIs
<1> HIDE DEF g
<1>2. g # <<>>
  BY <1>1
<1> QED BY <1>1, <1>2 DEF IsPath, g

LEMMA OneSegment ==
  ASSUME NEW E, NEW s \in Seq(E), Len(s) = 1
  PROVE  s = <<s[1]>>
OBVIOUS

LEMMA AboveOne ==
  ASSUME NEW k \in Nat \ {0}, k # 1
  PROVE  k > 1
OBVIOUS

LEMMA AlternativeIs ==
  ASSUME NEW path, IsPath(path), path # <<"">>
  PROVE  IsPath(Alternative(path))
<1> DEFINE E == {path[i] : i \in DOMAIN path}
           n == Len(path)
<1>1. n \in Nat \ {0} /\ path \in Seq(E)
  BY PathIs DEF IsPath, IsList
<1>2. CASE Last(path) = ""
  <2>1. path[n] = ""
    BY <1>2 DEF Last
  <2>2. n # 1
    <3> SUFFICES ASSUME n = 1 PROVE FALSE
      OBVIOUS
    <3>1. path = <<path[1]>>
      BY <1>1, OneSegment
    <3>2. path = <<"">>
      BY <2>1, <3>1
    <3> QED BY <3>2
  <2>3. n > 1
    <3> HIDE DEF n
    <3> QED BY <1>1, <2>2, AboveOne
  <2>4. Alternative(path) = SubSeq(path, 1, n - 1)
    BY <1>2 DEF Alternative, Front
  <2> QED BY <1>1, <2>3, <2>4, FrontIs
<1>3. CASE Last(path) # ""
  <2>1. Alternative(path) = Append(path, "")
    BY <1>3 DEF Alternative
  <2> QED BY <2>1, AppendPath DEF IsPath
<1> QED BY <1>2, <1>3

(* App.dispatch and App.noRoute, in terms of the best routes.              *)
LEMMA DispatchIs ==
  ASSUME NEW rs, RoutesSound(rs), NEW m, NEW path, IsPath(path), NEW slash
  PROVE  LET d == Dispatch(rs, m, path, slash)
             best(x) == BestRoute(rs, x, path)
             direct == IF best(m).route = NoRoute /\ m = "HEAD" THEN best("GET") ELSE best(m)
             able == {x \in Methods : best(x).route # NoRoute}
         IN /\ d.route = direct.route /\ d.vals = direct.vals
            /\ d.route # NoRoute => /\ d.status = 0 /\ d.route \in Range(rs) /\ Covers(d.route.pattern, path)
                                    /\ d.vals = ValuesIn(d.route.pattern, path)
            /\ d.status \in {301, 308} => BestRoute(rs, ReadMethod(m), Alternative(path)).route # NoRoute
            /\ d.status = 404 => able = {}
            /\ d.status \in {204, 405} =>
                 /\ able # {} /\ m \notin able
                 /\ Allowed(rs, path) = able \cup {"OPTIONS"} \cup (IF "GET" \in able THEN {"HEAD"} ELSE {})
<1> DEFINE d == Dispatch(rs, m, path, slash)
           best(x) == BestRoute(rs, x, path)
           direct == IF best(m).route = NoRoute /\ m = "HEAD" THEN best("GET") ELSE best(m)
           able == {x \in Methods : best(x).route # NoRoute}
           found(x) == Find(rs, x, path)
           asGet == IF m = "HEAD" THEN found("GET") ELSE Nothing
           answer(status) == [route |-> NoRoute, vals |-> <<>>, status |-> status]
           hit(f) == [route |-> f.route, vals |-> f.vals, status |-> 0]
           sent == IF m = "OPTIONS" THEN 204 ELSE 405
           moved == IF m \in {"GET", "HEAD"} THEN 301 ELSE 308
<1>1. \A x : found(x) = best(x)
  BY FindsBest
<1>2. \A x : \/ found(x) = Nothing /\ found(x).route = NoRoute
             \/ \E r \in Range(rs) : /\ r # NoRoute /\ Covers(r.pattern, path)
                                     /\ found(x) = [route |-> r, vals |-> ValuesIn(r.pattern, path)]
  BY FoundIs
<1>3. Nothing.route = NoRoute /\ Nothing.vals = <<>>
  BY DEF Nothing
<1>4. /\ able = {x \in Methods : Found(rs, x, path)}
      /\ Allowed(rs, path) = IF able = {} THEN {}
                             ELSE able \cup {"OPTIONS"} \cup (IF "GET" \in able THEN {"HEAD"} ELSE {})
  <2>1. able = {x \in Methods : Found(rs, x, path)}
    BY <1>1 DEF Found
  <2> QED BY <2>1 DEF Allowed
<1>5. /\ found(m).route # NoRoute => d = hit(found(m))
      /\ found(m).route = NoRoute /\ asGet.route # NoRoute => d = hit(asGet)
      /\ found(m).route = NoRoute /\ asGet.route = NoRoute =>
           d = CASE Redirects(rs, m, path, slash) -> answer(moved)
                 [] ~Redirects(rs, m, path, slash) /\ Allowed(rs, path) # {} -> answer(sent)
                 [] OTHER -> answer(404)
  BY DEF Dispatch
<1>6. asGet = IF m = "HEAD" THEN found("GET") ELSE Nothing
  OBVIOUS
<1>7. direct = IF found(m).route = NoRoute /\ m = "HEAD" THEN found("GET") ELSE found(m)
  BY <1>1
<1>8. m \in able => found(m).route # NoRoute
  BY <1>1
<1>9. Redirects(rs, m, path, slash) => BestRoute(rs, ReadMethod(m), Alternative(path)).route # NoRoute
  <2> SUFFICES ASSUME Redirects(rs, m, path, slash)
               PROVE  BestRoute(rs, ReadMethod(m), Alternative(path)).route # NoRoute
    OBVIOUS
  <2>1. path # <<"">> /\ Found(rs, ReadMethod(m), Alternative(path))
    BY DEF Redirects
  <2>2. IsPath(Alternative(path))
    BY <2>1, AlternativeIs
  <2> QED BY <2>1, <2>2, FindsBest DEF Found
<1>10. 404 \notin {301, 308, 204, 405} /\ sent \in {204, 405} /\ moved \in {301, 308} /\ sent # 404 /\ moved # 404
  OBVIOUS
<1>11. ASSUME NEW f, f.route # NoRoute, d = hit(f), direct = f,
              \E r \in Range(rs) : /\ r # NoRoute /\ Covers(r.pattern, path)
                                   /\ f = [route |-> r, vals |-> ValuesIn(r.pattern, path)]
       PROVE  /\ d.route = direct.route /\ d.vals = direct.vals /\ d.status = 0
              /\ d.route \in Range(rs) /\ Covers(d.route.pattern, path)
              /\ d.vals = ValuesIn(d.route.pattern, path)
  <2>1. PICK r \in Range(rs) : /\ r # NoRoute /\ Covers(r.pattern, path)
                               /\ f = [route |-> r, vals |-> ValuesIn(r.pattern, path)]
    BY <1>11
  <2>2. d.route = f.route /\ d.vals = f.vals /\ d.status = 0
    <3> HIDE DEF d
    <3> QED BY <1>11
  <2> HIDE DEF d, direct
  <2> QED BY <1>11, <2>1, <2>2
<1>12. ASSUME NEW status, d = answer(status) PROVE d.route = NoRoute /\ d.vals = <<>> /\ d.status = status
  BY <1>12
<1> HIDE DEF d, direct, able, asGet, sent, moved, best, found
<1>13. CASE found(m).route # NoRoute
  <2>1. d = hit(found(m)) /\ direct = found(m)
    BY <1>5, <1>7, <1>13
  <2>2. /\ d.route = direct.route /\ d.vals = direct.vals /\ d.status = 0
        /\ d.route \in Range(rs) /\ Covers(d.route.pattern, path)
        /\ d.vals = ValuesIn(d.route.pattern, path)
    BY <1>2, <1>11, <1>13, <2>1
  <2> QED BY <2>2 DEF d, direct, able, best
<1>14. CASE found(m).route = NoRoute /\ asGet.route # NoRoute
  <2>1. m = "HEAD" /\ asGet = found("GET")
    BY <1>3, <1>6, <1>14
  <2>2. d = hit(found("GET")) /\ direct = found("GET")
    BY <1>5, <1>7, <1>14, <2>1
  <2>3. /\ d.route = direct.route /\ d.vals = direct.vals /\ d.status = 0
        /\ d.route \in Range(rs) /\ Covers(d.route.pattern, path)
        /\ d.vals = ValuesIn(d.route.pattern, path)
    BY <1>2, <1>11, <1>14, <2>1, <2>2
  <2> QED BY <2>3 DEF d, direct, able, best
<1>15. CASE found(m).route = NoRoute /\ asGet.route = NoRoute
  <2>1. direct = Nothing
    BY <1>2, <1>6, <1>7, <1>15
  <2>2. m \notin able
    BY <1>8, <1>15
  <2>3. CASE Redirects(rs, m, path, slash)
    <3>1. d = answer(moved)
      BY <1>5, <1>15, <2>3
    <3>2. d.route = NoRoute /\ d.vals = <<>> /\ d.status = moved
      BY <1>12, <3>1
    <3>3. d.status \notin {204, 405, 404}
      BY <3>2 DEF moved
    <3> QED BY <1>3, <1>9, <2>1, <2>3, <3>2, <3>3 DEF d, direct, able, best
  <2>4. CASE ~Redirects(rs, m, path, slash) /\ Allowed(rs, path) # {}
    <3>1. d = answer(sent)
      BY <1>5, <1>15, <2>4
    <3>2. d.route = NoRoute /\ d.vals = <<>> /\ d.status = sent
      BY <1>12, <3>1
    <3>3. d.status \notin {301, 308, 404}
      BY <3>2 DEF sent
    <3>4. able # {}
      BY <1>4, <2>4
    <3> QED BY <1>3, <1>4, <2>1, <2>2, <3>2, <3>3, <3>4 DEF d, direct, able, best
  <2>5. CASE ~Redirects(rs, m, path, slash) /\ Allowed(rs, path) = {}
    <3>1. d = answer(404)
      BY <1>5, <1>15, <2>5
    <3>2. d.route = NoRoute /\ d.vals = <<>> /\ d.status = 404
      BY <1>12, <3>1
    <3>3. d.status \notin {301, 308, 204, 405}
      BY <3>2
    <3>4. able = {}
      BY <1>4, <2>5
    <3> QED BY <1>3, <2>1, <3>2, <3>3, <3>4 DEF d, direct, able, best
  <2> QED BY <2>3, <2>4, <2>5
<1> QED BY <1>13, <1>14, <1>15

(* What a group makes of the paths and the middleware in it is lists of    *)
(* segments and of stages again.                                           *)
IsPart(seg) == seg = [k |-> seg.k, n |-> seg.n]

LEMMA PatternFrom ==
  ASSUME NEW T, \A seg \in T : IsPart(seg), NEW s \in Seq(T)
  PROVE  IsPattern(s)
<1>1. IsList(s) /\ \A i \in DOMAIN s : s[i] \in T
  BY ListFrom
<1>2. \A i \in DOMAIN s : IsPart(s[i])
  BY <1>1
<1> QED BY <1>1, <1>2 DEF IsPattern, IsPart

LEMMA StagesFrom ==
  ASSUME NEW T, \A stage \in T : StageSound(stage), NEW s \in Seq(T)
  PROVE  StagesSound(s)
BY ListFrom DEF StagesSound

Blank == Lit("")

LEMMA JoinedIn ==
  ASSUME NEW T, Blank \in T, NEW prefix \in Seq(T), NEW path \in Seq(T)
  PROVE  JoinPaths(prefix, path) \in Seq(T)
<1> DEFINE base == IF prefix # <<>> /\ Last(prefix) = Blank THEN Front(prefix) ELSE prefix
<1>1. prefix # <<>> => SubSeq(prefix, 1, Len(prefix) - 1) \in Seq(T)
  BY SeqFacts
<1>2. base \in Seq(T)
  BY <1>1 DEF Front
<1>3. JoinPaths(prefix, path) =
        IF path \in {<<>>, <<Blank>>} THEN (IF base = <<>> THEN <<Blank>> ELSE base)
        ELSE base \o path
  BY DEF JoinPaths, Blank
<1>4. <<Blank>> \in Seq(T)
  BY SeqFacts
<1> HIDE DEF base
<1>5. base \o path \in Seq(T)
  BY <1>2, SeqFacts
<1> QED BY <1>2, <1>3, <1>4, <1>5

GroupsIn(groups, T, U) ==
  \A i \in DOMAIN groups : groups[i].prefix \in Seq(T) /\ groups[i].stages \in Seq(U)

LEMMA AroundIs ==
  ASSUME NEW groups, IsList(groups), NEW T, Blank \in T, NEW U, GroupsIn(groups, T, U)
  PROVE  Around(groups).pattern \in Seq(T) /\ Around(groups).stages \in Seq(U)
<1> DEFINE n == Len(groups)
           S == 0..n
           V == [pattern : Seq(T), stages : Seq(U)]
           next_(w, g) == [pattern |-> JoinPaths(w.pattern, g.prefix), stages |-> w.stages \o g.stages]
           first == [pattern |-> <<>>, stages |-> <<>>]
           value(f, i) == IF i = 0 THEN first ELSE next_(f[i - 1], groups[i])
           step == [f \in [S -> V] |-> [i \in S |-> value(f, i)]]
           rank == [i \in S |-> i]
           Fix(f) == f = [i \in S |-> value(f, i)]
           v == CHOOSE f : Fix(f)
<1>1. n \in Nat /\ DOMAIN groups = 1..n
  BY ListIs
<1>2. first \in V
  <2>1. <<>> \in Seq(T) /\ <<>> \in Seq(U)
    OBVIOUS
  <2> QED BY <2>1
<1>3. ASSUME NEW w \in V, NEW i \in 1..n PROVE next_(w, groups[i]) \in V
  <2>1. w.pattern \in Seq(T) /\ w.stages \in Seq(U) /\ groups[i].prefix \in Seq(T) /\ groups[i].stages \in Seq(U)
    BY <1>1 DEF GroupsIn
  <2>2. JoinPaths(w.pattern, groups[i].prefix) \in Seq(T)
    BY <2>1, JoinedIn
  <2>3. w.stages \o groups[i].stages \in Seq(U)
    BY <2>1, SeqFacts
  <2> QED BY <2>2, <2>3
<1>4. \A i \in S : i \in Nat /\ (i # 0 => i \in 1..n /\ i - 1 \in S /\ i - 1 < i)
  <2> HIDE DEF n
  <2> QED BY <1>1
<1> HIDE DEF first, next_, V, n
<1>5. step \in [[S -> V] -> [S -> V]]
  <2>1. ASSUME NEW f \in [S -> V], NEW i \in S PROVE value(f, i) \in V
    BY <1>2, <1>3, <1>4
  <2> HIDE DEF value, S
  <2> QED BY <2>1
<1>6. ASSUME NEW f \in [S -> V], NEW g \in [S -> V], NEW i \in S,
             \A j \in S : rank[j] < rank[i] => f[j] = g[j]
      PROVE  step[f][i] = step[g][i]
  <2>1. i # 0 => f[i - 1] = g[i - 1]
    BY <1>4, <1>6
  <2>2. value(f, i) = value(g, i)
    BY <2>1
  <2> HIDE DEF value, S
  <2> QED BY <2>2
<1>7. Causal(S, V, rank, step)
  <2>1. V # {} /\ rank \in [S -> Nat]
    BY <1>2, <1>4
  <2> HIDE DEF step, S, rank
  <2> QED BY <1>5, <1>6, <2>1 DEF Causal
<1>8. \E f : Fix(f)
  <2>1. PICK f \in [S -> V] : step[f] = f
    <3> HIDE DEF step, S, rank
    <3>1. \E f \in [S -> V] : step[f] = f
      BY <1>7, Recursion
    <3> QED BY <3>1
  <2>2. Fix(f)
    <3> HIDE DEF value, S
    <3> QED BY <2>1
  <2> HIDE DEF Fix
  <2> QED BY <2>2
<1>9. Fix(v)
  <2> HIDE DEF Fix
  <2> QED BY <1>8
<1> HIDE DEF v
<1>10. \A i \in S : v[i] = value(v, i)
  <2> HIDE DEF value, S
  <2> QED BY <1>9
<1> DEFINE G == {i \in S : v[i] \in V}
<1>11. ASSUME NEW i \in S, \A j \in S : rank[j] < rank[i] => j \in G PROVE i \in G
  <2>1. i # 0 => v[i - 1] \in V
    BY <1>4, <1>11
  <2>2. value(v, i) \in V
    BY <1>2, <1>3, <1>4, <2>1
  <2> HIDE DEF value
  <2> QED BY <1>10, <2>2
<1>12. S \subseteq G
  <2>1. rank \in [S -> Nat]
    BY <1>4
  <2> HIDE DEF G, S, rank
  <2> QED BY <1>11, <2>1, RankInduction
<1>13. Around(groups) = v[n]
  BY DEF Around, v, n, first, next_
<1>14. v[n] \in V
  <2>1. n \in S
    BY <1>1
  <2> HIDE DEF S
  <2> QED BY <1>12, <2>1
<1> QED BY <1>13, <1>14 DEF V

LEMMA ResolvedSound ==
  ASSUME NEW entry, EntrySound(entry)
  PROVE  IsPattern(Resolved(entry).pattern) /\ StagesSound(Resolved(entry).stages)
<1> DEFINE gs == entry.groups
           parts(s) == {s[i] : i \in DOMAIN s}
           A == UNION {parts(gs[i].prefix) : i \in DOMAIN gs}
           B == parts(entry.route.pattern)
           C == UNION {parts(gs[i].stages) : i \in DOMAIN gs}
           D == parts(entry.route.stages)
           T == A \cup B \cup {Blank}
           U == C \cup D
<1>1. /\ IsList(gs) /\ IsPattern(entry.route.pattern) /\ StagesSound(entry.route.stages)
      /\ \A i \in DOMAIN gs : IsPattern(gs[i].prefix) /\ StagesSound(gs[i].stages)
  BY DEF EntrySound
<1>2. ASSUME NEW s, IsList(s), NEW X, parts(s) \subseteq X PROVE s \in Seq(X)
  <2>1. \A i \in DOMAIN s : s[i] \in X
    BY <1>2
  <2> QED BY <1>2, <2>1, ListIs
<1>3. GroupsIn(gs, T, U)
  <2> SUFFICES ASSUME NEW i \in DOMAIN gs PROVE gs[i].prefix \in Seq(T) /\ gs[i].stages \in Seq(U)
    BY DEF GroupsIn
  <2>1. parts(gs[i].prefix) \subseteq T /\ parts(gs[i].stages) \subseteq U
    OBVIOUS
  <2>2. IsList(gs[i].prefix) /\ IsList(gs[i].stages)
    BY <1>1 DEF IsPattern, StagesSound
  <2> HIDE DEF T, U, parts
  <2> QED BY <1>2, <2>1, <2>2
<1>4. entry.route.pattern \in Seq(T) /\ entry.route.stages \in Seq(U)
  <2>1. B \subseteq T /\ D \subseteq U
    <3> HIDE DEF A, B, C, D
    <3> QED OBVIOUS
  <2>2. IsList(entry.route.pattern) /\ IsList(entry.route.stages)
    BY <1>1 DEF IsPattern, StagesSound
  <2> HIDE DEF T, U, parts
  <2> QED BY <1>2, <2>1, <2>2
<1>5. \A seg \in T : IsPart(seg)
  <2>1. \A s : IsPattern(s) => \A seg \in parts(s) : IsPart(seg)
    BY DEF IsPattern, IsPart
  <2>2. IsPart(Blank)
    BY DEF IsPart, Lit, Blank
  <2> SUFFICES ASSUME NEW seg \in T PROVE IsPart(seg)
    OBVIOUS
  <2> HIDE DEF parts
  <2>3. CASE \E i \in DOMAIN gs : seg \in parts(gs[i].prefix)
    BY <1>1, <2>1, <2>3
  <2>4. CASE seg \in parts(entry.route.pattern)
    BY <1>1, <2>1, <2>4
  <2>5. CASE seg = Blank
    BY <2>2, <2>5
  <2>6. \/ \E i \in DOMAIN gs : seg \in parts(gs[i].prefix)
        \/ seg \in parts(entry.route.pattern) \/ seg = Blank
    <3>1. seg \in A \/ seg \in B \/ seg = Blank
      <4> HIDE DEF A, B
      <4> QED OBVIOUS
    <3>2. seg \in A => \E i \in DOMAIN gs : seg \in parts(gs[i].prefix)
      OBVIOUS
    <3> QED BY <3>1, <3>2
  <2> QED BY <2>3, <2>4, <2>5, <2>6
<1>6. \A stage \in U : StageSound(stage)
  <2>1. \A s : StagesSound(s) => \A stage \in parts(s) : StageSound(stage)
    BY DEF StagesSound
  <2> SUFFICES ASSUME NEW stage \in U PROVE StageSound(stage)
    OBVIOUS
  <2> HIDE DEF parts
  <2>3. CASE \E i \in DOMAIN gs : stage \in parts(gs[i].stages)
    BY <1>1, <2>1, <2>3
  <2>4. CASE stage \in parts(entry.route.stages)
    BY <1>1, <2>1, <2>4
  <2>5. (\E i \in DOMAIN gs : stage \in parts(gs[i].stages)) \/ stage \in parts(entry.route.stages)
    <3>1. stage \in C \/ stage \in D
      <4> HIDE DEF C, D
      <4> QED OBVIOUS
    <3>2. stage \in C => \E i \in DOMAIN gs : stage \in parts(gs[i].stages)
      OBVIOUS
    <3> QED BY <3>1, <3>2
  <2> QED BY <2>3, <2>4, <2>5
<1>7. Blank \in T
  <2> HIDE DEF A, B
  <2> QED OBVIOUS
<1> DEFINE a == Around(gs)
<1> HIDE DEF T, U, parts, a, gs
<1>8. a.pattern \in Seq(T) /\ a.stages \in Seq(U)
  BY <1>1, <1>3, <1>7, AroundIs DEF a
<1>9. Resolved(entry).pattern = JoinPaths(a.pattern, entry.route.pattern)
  BY DEF Resolved, a, gs
<1>10. Resolved(entry).stages = a.stages \o entry.route.stages
  BY DEF Resolved, a, gs
<1>11. JoinPaths(a.pattern, entry.route.pattern) \in Seq(T)
  BY <1>4, <1>7, <1>8, JoinedIn
<1>12. a.stages \o entry.route.stages \in Seq(U)
  BY <1>4, <1>8, SeqFacts
<1>13. IsPattern(Resolved(entry).pattern)
  BY <1>5, <1>9, <1>11, PatternFrom
<1>14. StagesSound(Resolved(entry).stages)
  BY <1>6, <1>10, <1>12, StagesFrom
<1> QED BY <1>13, <1>14

(* A registration leaves a sound table.                                    *)
LEMMA WithRouteSound ==
  ASSUME NEW rs, RoutesSound(rs), NEW r, r # NoRoute, IsPattern(r.pattern), StagesSound(r.stages)
  PROVE  RoutesSound(WithRoute(rs, r))
<1>1. CASE RouteProblem(rs, r) # {}
  BY <1>1 DEF WithRoute
<1>2. CASE RouteProblem(rs, r) = {}
  <2> DEFINE s == Append(rs, r)
             n == Len(rs)
  <2>1. PatternValid(r.pattern) /\ ~Conflict(rs, r)
    BY <1>2 DEF RouteProblem
  <2>2. IsList(rs) /\ n \in Nat /\ DOMAIN rs = 1..n
    BY ListIs DEF RoutesSound
  <2>3. /\ IsList(s) /\ Len(s) = n + 1 /\ s[n + 1] = r
        /\ \A i \in 1..n : s[i] = rs[i]
    BY <2>2, ListAppend
  <2>4. DOMAIN s = 1..(n + 1)
    BY <2>3, ListIs
  <2>5. \A i \in 1..(n + 1) : i \in 1..n \/ i = n + 1
    BY <2>2
  <2> HIDE DEF s, n
  <2>6. \A i \in DOMAIN s : /\ s[i] # NoRoute
                            /\ IsPattern(s[i].pattern) /\ PatternValid(s[i].pattern)
                            /\ StagesSound(s[i].stages)
    <3> SUFFICES ASSUME NEW i \in 1..(n + 1)
                 PROVE  /\ s[i] # NoRoute /\ IsPattern(s[i].pattern) /\ PatternValid(s[i].pattern)
                        /\ StagesSound(s[i].stages)
      BY <2>4
    <3>1. CASE i \in 1..n
      BY <2>2, <2>3, <3>1 DEF RoutesSound
    <3>2. CASE i = n + 1
      BY <2>1, <2>3, <3>2
    <3> QED BY <2>5, <3>1, <3>2
  <2>7. ASSUME NEW i \in DOMAIN s, NEW j \in DOMAIN s, s[i].method = s[j].method,
               Shape(s[i].pattern) = Shape(s[j].pattern)
        PROVE  i = j
    <3>1. CASE i \in 1..n /\ j \in 1..n
      BY <2>2, <2>3, <2>7, <3>1 DEF RoutesSound
    <3>2. CASE i \in 1..n /\ j = n + 1
      BY <2>1, <2>2, <2>3, <2>7, <3>2 DEF Conflict
    <3>3. CASE i = n + 1 /\ j \in 1..n
      BY <2>1, <2>2, <2>3, <2>7, <3>3 DEF Conflict
    <3> QED BY <2>4, <2>5, <3>1, <3>2, <3>3
  <2>8. RoutesSound(s)
    BY <2>3, <2>6, <2>7 DEF RoutesSound
  <2> QED BY <1>2, <2>8 DEF WithRoute, s
<1> QED BY <1>1, <1>2

-----------------------------------------------------------------------------
(***************************************************************************)
(* Requests.                                                               *)
(***************************************************************************)
(* The routes of a running application are sound and their names apart,    *)
(* the registrations still to come are its own, and what the router made   *)
(* of the request is what Dispatch says of it.                             *)
Looked == Dispatch(routes, req.method, req.path, srv.slash)
TableInv ==
  /\ server \in DOMAIN Servers
  /\ pending \in Seq(Range(srv.table))
  /\ RoutesSound(routes)
  /\ phase \notin {"building", "failed"} => NameProblem(routes) = {}
RequestInv ==
  /\ dir # "idle" => phase \in {"running", "stopping", "stopped"} /\ RequestSound(req)
  /\ DOMAIN ctx = DOMAIN NewContext
  /\ ctx.dispatched =>
       /\ dir # "idle"
       /\ ctx.route = Looked.route /\ ctx.vals = Looked.vals /\ ctx.status = Looked.status
  /\ ~ctx.dispatched => ctx.route = NoRoute /\ ctx.vals = <<>> /\ ctx.status = 0
RoutingInv == TableInv /\ RequestInv

(* What a stage does to a request, as far as its caller and its route are  *)
(* concerned: it hands it on, turns it away, is the handler, or is one of  *)
(* the three that decide.                                                  *)
ContextOK == DOMAIN ctx = DOMAIN NewContext
RouteSame ==
  /\ DOMAIN ctx' = DOMAIN ctx /\ ctx'.dispatched = ctx.dispatched
  /\ ctx'.route = ctx.route /\ ctx'.vals = ctx.vals /\ ctx'.status = ctx.status
CallerSame == RouteSame /\ ctx'.user = ctx.user
Marked ==
  \/ chain' = chain
  \/ Stage.is = "compress" /\ \E kind \in {"compress", "compressing"} :
                                chain' = [chain EXCEPT ![at] = [is |-> kind]]
  \/ Stage.is = "cache" /\ chain' = [chain EXCEPT ![at] = [is |-> "caching"]]
Further == dir = "in" /\ dir' = "in" /\ at >= 1 /\ at' = at + 1 /\ entered' = entered
Onward ==
  /\ Further /\ Marked /\ CallerSame
  /\ Stage.is \notin {"auth", "require", "router", "handler"}
  /\ Stage.is = "security" => req.host # "bad"
Away == dir # "idle" /\ dir' \notin {"idle", "in"} /\ entered' = entered /\ CallerSame
Handled_ == Going("in", "handler") /\ dir' \notin {"idle", "in"} /\ CallerSame
KnownBy ==
  LET who == Identify(ctx.user, Stage.optional, Stage.names, req.cred, Stage.cfg)
  IN /\ Further /\ Stage.is = "auth" /\ chain' = chain /\ RouteSame
     /\ who.error = "" /\ ctx'.user = who.user
AllowedBy ==
  /\ Further /\ Stage.is = "require" /\ chain' = chain /\ CallerSame
  /\ Authorize(ctx.user, Stage.need, ParamValue) = ""
Kept == server' = server /\ routes' = routes /\ req' = req
Deed == Kept /\ (Onward \/ Away \/ Handled_ \/ KnownBy \/ AllowedBy \/ Route)

LEMMA ContextFields ==
  ASSUME ContextOK
  PROVE  /\ "dispatched" \in DOMAIN ctx /\ "route" \in DOMAIN ctx /\ "vals" \in DOMAIN ctx
         /\ "status" \in DOMAIN ctx /\ "user" \in DOMAIN ctx
BY DEF ContextOK, NewContext

LEMMA ContextSame ==
  ASSUME ContextOK
  PROVE  /\ ctx' = ctx => CallerSame
         /\ \A x : ctx' = [ctx EXCEPT !.handled = x] => CallerSame
         /\ \A x : ctx' = [ctx EXCEPT !.id = x] => CallerSame
         /\ \A x : ctx' = [ctx EXCEPT !.deadline = x] => CallerSame
         /\ \A x : ctx' = [ctx EXCEPT !.version = x] => CallerSame
         /\ \A x : ctx' = [ctx EXCEPT !.offer = x] => CallerSame
         /\ \A x : ctx' = [ctx EXCEPT !.input = x] => CallerSame
         /\ \A x : ctx' = [ctx EXCEPT !.user = x] => RouteSame /\ ctx'.user = x
BY ContextFields DEF CallerSame, RouteSame

LEMMA HandlesSame ==
  ASSUME ContextOK, NEW e, NEW r, Handles(e, r)
  PROVE  CallerSame
BY ContextSame DEF Handles

LEMMA StagesIn ==
  ASSUME ContextOK
  PROVE  AssignID \/ SecurityHeaders \/ ServeHealth \/ Cors \/ Csrf \/ Timeout \/ APIVersion
           \/ CompressIn \/ Static \/ WrapIn \/ CacheIn \/ Sunset \/ PassIn => Deed
<1> USE DEF Deed, Kept, Quiet, Going, Further, Marked, Pass, Proceed, Return, Refuse, Answer
<1>1. AssignID => Kept /\ Onward
  BY ContextSame DEF AssignID, Onward
<1>2. SecurityHeaders => Kept /\ (Onward \/ Away)
  BY ContextSame DEF SecurityHeaders, Onward, Away
<1>3. ServeHealth => Kept /\ (Onward \/ Away)
  BY ContextSame DEF ServeHealth, Onward, Away
<1>4. Cors => Kept /\ (Onward \/ Away)
  BY ContextSame DEF Cors, Onward, Away
<1>5. Csrf => Kept /\ (Onward \/ Away)
  BY ContextSame DEF Csrf, Onward, Away
<1>6. Timeout => Kept /\ Onward
  BY ContextSame DEF Timeout, Onward
<1>7. APIVersion => Kept /\ (Onward \/ Away)
  BY ContextSame DEF APIVersion, Onward, Away
<1>8. CompressIn => Kept /\ Onward
  BY ContextSame DEF CompressIn, Onward
<1>9. Static => Kept /\ (Onward \/ Away)
  BY ContextSame, HandlesSame DEF Static, Onward, Away
<1>10. WrapIn => Kept /\ Onward
  BY ContextSame DEF WrapIn, Onward
<1>11. CacheIn => Kept /\ (Onward \/ Away)
  BY ContextSame DEF CacheIn, Onward, Away
<1>12. Sunset => Kept /\ Onward
  BY ContextSame DEF Sunset, Onward
<1>13. PassIn => Kept /\ Onward
  BY ContextSame DEF PassIn, PassedIn, Onward
<1> QED BY <1>1, <1>2, <1>3, <1>4, <1>5, <1>6, <1>7, <1>8, <1>9, <1>10, <1>11, <1>12, <1>13 DEF Deed

LEMMA StagesOut ==
  ASSUME ContextOK
  PROVE  Log \/ ErrorBoundary \/ Recover \/ CompressOut \/ WrapOut \/ CacheOut \/ CacheExpires
           \/ PassOut \/ Unwind => Deed
<1> USE DEF Kept, Quiet, Going, Return, Refuse, Away
<1>1. Log => Kept /\ Away
  BY ContextSame DEF Log
<1>2. ErrorBoundary => Kept /\ Away
  BY HandlesSame DEF ErrorBoundary
<1>3. Recover => Kept /\ Away
  BY ContextSame DEF Recover
<1>4. CompressOut => Kept /\ Away
  BY ContextSame, HandlesSame DEF CompressOut
<1>5. WrapOut => Kept /\ Away
  BY ContextSame, HandlesSame DEF WrapOut
<1>6. CacheOut => Kept /\ Away
  BY ContextSame DEF CacheOut
<1>7. CacheExpires => Kept /\ Away
  BY ContextSame DEF CacheExpires, pathVars, seenVars
<1>8. PassOut => Kept /\ Away
  BY ContextSame DEF PassOut
<1>9. Unwind => Kept /\ Away
  BY ContextSame DEF Unwind
<1> QED BY <1>1, <1>2, <1>3, <1>4, <1>5, <1>6, <1>7, <1>8, <1>9 DEF Deed

LEMMA StagesDecide ==
  ASSUME ContextOK
  PROVE  Authenticating \/ Authorizing \/ Route => Deed
<1> USE DEF Kept, Quiet, Going, Return, Refuse, Pass, Proceed, Further
<1>1. Authenticating => Kept /\ (KnownBy \/ Away)
  BY ContextSame DEF Authenticating, KnownBy, Away
<1>2. Authorizing => Kept /\ (AllowedBy \/ Away)
  BY ContextSame DEF Authorizing, AllowedBy, Away
<1>3. Route => Kept
  BY DEF Route, Follow
<1> QED BY <1>1, <1>2, <1>3 DEF Deed

LEMMA HandlersDo ==
  ASSUME ContextOK
  PROVE  Sends \/ Bare \/ Fails \/ Streams \/ Formats \/ Typed => Deed
<1> USE DEF Kept, Handled, Handling, Return, Refuse, Answer, Handled_
<1>1. Sends => Kept /\ Handled_
  BY ContextSame DEF Sends, Going
<1>2. Bare => Kept /\ Handled_
  BY ContextSame DEF Bare, Going
<1>3. Fails => Kept /\ Handled_
  BY ContextSame DEF Fails, Going
<1>4. Streams => Kept /\ Handled_
  BY ContextSame DEF Streams, Going
<1>5. Formats => Kept /\ Handled_
  BY ContextSame DEF Formats, Going
<1>6. Typed => Kept /\ Handled_
  BY ContextSame DEF Typed, Perform, Going
<1> QED BY <1>1, <1>2, <1>3, <1>4, <1>5, <1>6 DEF Deed

LEMMA StepIsDeed ==
  ASSUME ContextOK
  PROVE  PipelineStep => Deed
BY StagesIn, StagesOut, StagesDecide, HandlersDo DEF PipelineStep

(* An application that runs has found its names apart, and runs until it   *)
(* stops.                                                                  *)
Live == {"running", "stopping", "stopped"}
Unready == {"building", "failed"}
PhaseOK ==
  /\ phase' \in Unready \/ phase \notin Unready \/ NameProblem(routes) = {}
  /\ phase \in Live => phase' \in Live

LEMMA PhasesMove == [ApplicationNext]_applicationVars => PhaseOK
<1> SUFFICES ASSUME [ApplicationNext]_applicationVars PROVE PhaseOK
  OBVIOUS
<1> USE DEF Alone, PhaseOK, Live, Unready
<1>1. CASE UNCHANGED applicationVars
  BY <1>1 DEF applicationVars, startupVars, startVars
<1>2. CASE Alone(StartRoutes)
  BY <1>2 DEF StartRoutes, Begin
<1>3. CASE \/ Alone(Provide) \/ Alone(AddComponent) \/ Register \/ Alone(Visit) \/ Alone(Visited)
           \/ Alone(Construct) \/ Alone(CloseBuilt) \/ Alone(StartHook) \/ Alone(StopHook)
  BY <1>3 DEF Provide, AddComponent, Register, Report, Visit, Visited, Construct, CloseBuilt,
       StartHook, StopHook
<1>4. CASE Alone(BuildFor) \/ Accept \/ Inject \/ Finish \/ Alone(CloseScoped) \/ Abandon \/ Serve \/ Alone(Ended)
  BY <1>4 DEF BuildFor, Accept, RequestBegin, Inject, Dep, ResolveFor, Resolve, ResolveFails,
       Finish, RequestDone, CloseScoped, Abandon, RequestAborted, Serve, Ended, startVars, startupVars
<1>5. CASE \/ Alone(ValidateGraph) \/ Alone(SearchEnds) \/ Alone(ConstructFails) \/ Alone(Undone)
           \/ Alone(Freeze) \/ Alone(StartHookFails) \/ Alone(Started) \/ Alone(HooksStopped) \/ Alone(Stop)
  BY <1>5 DEF ValidateGraph, SearchEnds, ConstructFails, Undone, Freeze, InvokeAndFreeze,
       StartHookFails, Started, HooksStopped, Stop
<1> QED BY <1>1, <1>2, <1>3, <1>4, <1>5 DEF ApplicationNext

(* The steps of an application: of the container alone, a registration,    *)
(* and those of requests.                                                  *)
Elsewhere == UNCHANGED <<pending, pipelineVars>>

LEMMA StepIs ==
  ASSUME [ApplicationNext]_applicationVars
  PROVE  Elsewhere \/ Register \/ Accept \/ Finish \/ Abandon \/ Serve
BY DEF ApplicationNext, applicationVars, Alone, Inject, Elsewhere

LEMMA NoRoutes == RoutesSound(<<>>)
BY DEF RoutesSound, IsList

LEMMA ServerSound ==
  ASSUME server \in DOMAIN Servers
  PROVE  /\ StagesSound(srv.stages) /\ srv.table \in Seq(Range(srv.table))
         /\ \A entry \in Range(srv.table) : EntrySound(entry) /\ Resolved(entry) # NoRoute
         /\ \A r \in srv.requests \cup srv.second : RequestSound(r)
<1>1. srv.table \in Seq(Range(srv.table))
  BY PipelineAssumption DEF srv, IsList, Range
<1>2. \A entry \in Range(srv.table) : EntrySound(entry)
  BY PipelineAssumption DEF srv, Range
<1>3. \A entry \in Range(srv.table) : Resolved(entry) # NoRoute
  BY ApplicationAssumption DEF srv, Range
<1>4. StagesSound(srv.stages) /\ \A r \in srv.requests \cup srv.second : RequestSound(r)
  BY PipelineAssumption DEF srv
<1> QED BY <1>1, <1>2, <1>3, <1>4

LEMMA RoutingInit == ApplicationInit => RoutingInv
<1> SUFFICES ASSUME ApplicationInit PROVE RoutingInv
  OBVIOUS
<1>1. server \in DOMAIN Servers /\ routes = <<>> /\ dir = "idle" /\ ctx = NewContext
      /\ phase = "building" /\ pending = srv.table
  BY DEF ApplicationInit, PipelineInit, StartupInit
<1>2. TableInv
  BY <1>1, NoRoutes, ServerSound DEF TableInv
<1>3. RequestInv
  BY <1>1 DEF RequestInv, NewContext
<1> QED BY <1>2, <1>3 DEF RoutingInv

LEMMA LookedSame ==
  ASSUME server' = server, routes' = routes, req' = req
  PROVE  Looked' = Looked
BY DEF Looked, srv

(* The table, whatever is done to a request.                               *)
LEMMA TableKept ==
  ASSUME TableInv, PhaseOK, pending' = pending, server' = server, routes' = routes
  PROVE  TableInv'
<1>1. srv' = srv
  BY DEF srv
<1> QED BY <1>1 DEF TableInv, PhaseOK, Unready

LEMMA RequestKept ==
  ASSUME RequestInv, PhaseOK, Kept, dir # "idle", dir' # "idle", RouteSame
  PROVE  RequestInv'
<1>1. Looked' = Looked /\ req' = req
  BY LookedSame DEF Kept
<1> HIDE DEF Looked, RequestSound
<1> QED BY <1>1 DEF RequestInv, PhaseOK, Live, RouteSame, NewContext

LEMMA RegisterKeeps ==
  ASSUME RoutingInv, PhaseOK, Register
  PROVE  RoutingInv'
<1> DEFINE entry == Head(pending)
           r == Resolved(entry)
<1>1. /\ phase = "building" /\ phase' = phase /\ pending # <<>> /\ pending' = Tail(pending)
      /\ routes' = WithRoute(routes, r)
      /\ server' = server /\ req' = req /\ dir' = dir /\ ctx' = ctx
  BY DEF Register, Report, pathVars
<1>2. server \in DOMAIN Servers /\ pending \in Seq(Range(srv.table)) /\ RoutesSound(routes)
  BY DEF RoutingInv, TableInv
<1>3. entry \in Range(srv.table) /\ pending' \in Seq(Range(srv.table))
  BY <1>1, <1>2
<1>4. EntrySound(entry) /\ r # NoRoute
  BY <1>2, <1>3, ServerSound
<1> HIDE DEF entry
<1>5. IsPattern(r.pattern) /\ StagesSound(r.stages)
  BY <1>4, ResolvedSound
<1> HIDE DEF r
<1>6. RoutesSound(routes')
  BY <1>1, <1>2, <1>4, <1>5, WithRouteSound
<1>7. TableInv'
  BY <1>1, <1>2, <1>3, <1>6 DEF TableInv, srv
<1>8. dir = "idle" /\ ~ctx.dispatched
  BY <1>1 DEF RoutingInv, RequestInv, Live
<1>9. RequestInv'
  BY <1>1, <1>8 DEF RoutingInv, RequestInv, NewContext
<1> QED BY <1>7, <1>9 DEF RoutingInv

LEMMA AcceptKeeps ==
  ASSUME RoutingInv, PhaseOK, Accept
  PROVE  RoutingInv'
<1>1. /\ req' \in srv.requests \cup srv.second /\ ctx' = NewContext /\ dir' = "in"
      /\ server' = server /\ routes' = routes /\ pending' = pending /\ phase = "running"
  BY DEF Accept, Arrive, RequestBegin
<1>2. TableInv'
  BY <1>1, TableKept DEF RoutingInv
<1>3. RequestSound(req')
  BY <1>1, ServerSound DEF RoutingInv, TableInv
<1>4. RequestInv'
  BY <1>1, <1>3 DEF RequestInv, NewContext, PhaseOK, Live
<1> QED BY <1>2, <1>4 DEF RoutingInv

LEMMA ServeKeeps ==
  ASSUME RoutingInv, PhaseOK, Serve
  PROVE  RoutingInv'
<1>1. pending' = pending /\ ContextOK /\ PipelineStep
  BY DEF Serve, RoutingInv, RequestInv, ContextOK
<1>2. Deed /\ Kept
  BY <1>1, StepIsDeed DEF Deed
<1>3. TableInv'
  BY <1>1, <1>2, TableKept DEF RoutingInv, Kept
<1>4. CASE Onward \/ Away \/ Handled_ \/ KnownBy \/ AllowedBy
  <2>1. RouteSame /\ dir # "idle" /\ dir' # "idle"
    BY <1>4 DEF Onward, Away, Handled_, KnownBy, AllowedBy, Further, Going, CallerSame
  <2> QED BY <1>2, <1>3, <2>1, RequestKept DEF RoutingInv
<1>5. CASE Route
  <2> DEFINE d == Dispatch(routes, req.method, req.path, srv.slash)
             c == [ctx EXCEPT !.dispatched = TRUE, !.route = d.route, !.vals = d.vals, !.status = d.status]
  <2>1. ctx' = c /\ dir = "in" /\ dir' # "idle"
    BY <1>5 DEF Route, Follow, Going, Return, Answer
  <2>2. d = Looked /\ Looked' = Looked
    BY <1>2, LookedSame DEF Looked, Kept
  <2> HIDE DEF d
  <2>3. /\ DOMAIN ctx' = DOMAIN ctx /\ ctx'.dispatched = TRUE
        /\ ctx'.route = d.route /\ ctx'.vals = d.vals /\ ctx'.status = d.status
    BY <1>1, <2>1, ContextFields
  <2>4. /\ (phase \in Live)' /\ RequestSound(req)' /\ DOMAIN ctx' = DOMAIN NewContext
    BY <1>2, <2>1, <2>3 DEF RoutingInv, RequestInv, PhaseOK, Kept, Live
  <2>5. RequestInv'
    BY <2>1, <2>2, <2>3, <2>4 DEF RequestInv, Live, NewContext
  <2> QED BY <1>3, <2>5 DEF RoutingInv
<1> QED BY <1>2, <1>4, <1>5 DEF Deed

LEMMA RoutingStep ==
  ASSUME RoutingInv, [ApplicationNext]_applicationVars
  PROVE  RoutingInv'
<1>1. PhaseOK /\ ContextOK
  BY PhasesMove DEF RoutingInv, RequestInv, ContextOK
<1>2. CASE Elsewhere
  <2>1. /\ pending' = pending /\ server' = server /\ routes' = routes /\ req' = req
        /\ dir' = dir /\ ctx' = ctx
    BY <1>2 DEF Elsewhere, pipelineVars, pathVars
  <2>2. TableInv'
    BY <1>1, <2>1, TableKept DEF RoutingInv
  <2>3. Looked' = Looked
    BY <2>1, LookedSame
  <2>4. RequestInv'
    BY <1>1, <2>1, <2>3 DEF RoutingInv, RequestInv, PhaseOK, Live, NewContext
  <2> QED BY <2>2, <2>4 DEF RoutingInv
<1>3. CASE Finish \/ Abandon
  <2>1. /\ Kept /\ pending' = pending /\ dir # "idle" /\ dir' # "idle"
        /\ ctx' = ctx \/ \E e, r : Handles(e, r)
    BY <1>3 DEF Finish, ServeDone, Abandon, ServeAborts, Quiet, Kept
  <2>2. RouteSame
    BY <1>1, <2>1, HandlesSame, ContextSame DEF CallerSame
  <2>3. TableInv' /\ RequestInv'
    BY <1>1, <2>1, <2>2, TableKept, RequestKept DEF RoutingInv, Kept
  <2> QED BY <2>3 DEF RoutingInv
<1> QED BY <1>1, <1>2, <1>3, RegisterKeeps, AcceptKeeps, ServeKeeps, StepIs

LEMMA NamesApart ==
  ASSUME NEW rs, RoutesSound(rs), NameProblem(rs) = {}
  PROVE  \A q, r \in Range(rs) : r.name = q.name => r = q \/ r.name = ""
<1>1. \A i, j \in DOMAIN rs : ~(i < j /\ rs[i].name = rs[j].name /\ rs[i].name # "")
  BY DEF NameProblem
<1>2. DOMAIN rs = 1..Len(rs) /\ Len(rs) \in Nat
  BY ListIs DEF RoutesSound
<1> SUFFICES ASSUME NEW i \in DOMAIN rs, NEW j \in DOMAIN rs, rs[i].name = rs[j].name, i # j
             PROVE  rs[i].name = ""
  BY DEF Range
<1>3. i < j \/ j < i
  BY <1>2
<1> QED BY <1>1, <1>3

LEMMA BestRouted == RoutingInv => RoutesBest
<1> SUFFICES ASSUME RoutingInv, ctx.dispatched PROVE RoutesBest
  BY DEF RoutesBest
<1> DEFINE path == req.path
           m == req.method
           best(x) == BestRoute(routes, x, path)
           direct == IF best(m).route = NoRoute /\ m = "HEAD" THEN best("GET") ELSE best(m)
           able == {x \in Methods : best(x).route # NoRoute}
<1> SUFFICES
      /\ ctx.route = direct.route /\ ctx.vals = direct.vals
      /\ ctx.route # NoRoute =>
           /\ Rebuilt(ctx.route, ctx.vals) = path
           /\ \A r \in Range(routes) : r.name = ctx.route.name => r = ctx.route \/ r.name = ""
      /\ ctx.status \in {301, 308} => BestRoute(routes, ReadMethod(m), Alternative(path)).route # NoRoute
      /\ ctx.status = 404 => able = {}
      /\ ctx.status \in {204, 405} =>
           /\ able # {} /\ m \notin able
           /\ Allowed(routes, path) = able \cup {"OPTIONS"} \cup (IF "GET" \in able THEN {"HEAD"} ELSE {})
  BY DEF RoutesBest, Rebuilt
<1>1. RoutesSound(routes) /\ IsPath(path) /\ NameProblem(routes) = {}
  BY DEF RoutingInv, RequestInv, TableInv, RequestSound, IsPath, Live
<1>2. ctx.route = Looked.route /\ ctx.vals = Looked.vals /\ ctx.status = Looked.status
  BY DEF RoutingInv, RequestInv
<1>3. /\ Looked.route = direct.route /\ Looked.vals = direct.vals
      /\ Looked.route # NoRoute => /\ Looked.route \in Range(routes) /\ Covers(Looked.route.pattern, path)
                                   /\ Looked.vals = ValuesIn(Looked.route.pattern, path)
      /\ Looked.status \in {301, 308} => BestRoute(routes, ReadMethod(m), Alternative(path)).route # NoRoute
      /\ Looked.status = 404 => able = {}
      /\ Looked.status \in {204, 405} =>
           /\ able # {} /\ m \notin able
           /\ Allowed(routes, path) = able \cup {"OPTIONS"} \cup (IF "GET" \in able THEN {"HEAD"} ELSE {})
  BY <1>1, DispatchIs DEF Looked
<1> HIDE DEF Looked
<1>4. ASSUME ctx.route # NoRoute
      PROVE  /\ Rebuilt(ctx.route, ctx.vals) = path
             /\ \A r \in Range(routes) : r.name = ctx.route.name => r = ctx.route \/ r.name = ""
  <2>1. /\ ctx.route \in Range(routes) /\ Covers(ctx.route.pattern, path)
        /\ ctx.vals = ValuesIn(ctx.route.pattern, path)
    BY <1>2, <1>3, <1>4
  <2>2. IsPattern(ctx.route.pattern) /\ PatternValid(ctx.route.pattern)
    BY <1>1, <2>1 DEF RoutesSound, Range
  <2>3. Rebuilt(ctx.route, ctx.vals) = path
    BY <1>1, <2>1, <2>2, UrlBack
  <2>4. \A r \in Range(routes) : r.name = ctx.route.name => r = ctx.route \/ r.name = ""
    BY <1>1, <2>1, NamesApart
  <2> QED BY <2>3, <2>4
<1>5. ctx.route = direct.route /\ ctx.vals = direct.vals
  BY <1>2, <1>3
<1>6. ctx.status \in {301, 308} => BestRoute(routes, ReadMethod(m), Alternative(path)).route # NoRoute
  BY <1>2, <1>3
<1>7. ctx.status = 404 => able = {}
  BY <1>2, <1>3
<1>8. ctx.status \in {204, 405} =>
        /\ able # {} /\ m \notin able
        /\ Allowed(routes, path) = able \cup {"OPTIONS"} \cup (IF "GET" \in able THEN {"HEAD"} ELSE {})
  BY <1>2, <1>3
<1> QED BY <1>4, <1>5, <1>6, <1>7, <1>8

(* The table holds valid patterns without conflicts and, once Start went   *)
(* through, names of one route each; and a request keeps, from dispatch    *)
(* on, what the lookup of its path gave (App.addRoute, App.dispatch).      *)
THEOREM Routing == ApplicationSpec => []RoutingInv
<1>1. RoutingInv /\ [ApplicationNext]_applicationVars => RoutingInv'
  BY RoutingStep
<1> QED BY <1>1, RoutingInit, PTL DEF ApplicationSpec

(* Every request a running application dispatches gets, whatever was       *)
(* registered and in which order, the one route that wins over the others  *)
(* that match, with the values of its parameters and a name of its own, or *)
(* an answer that says what other paths and methods have.                  *)
THEOREM RoutedBest == ApplicationSpec => []RoutesBest
BY Routing, BestRouted, PTL

-----------------------------------------------------------------------------
(***************************************************************************)
(* Callers.                                                                *)
(***************************************************************************)
(* The chain of a request: the stages of the application, with those of    *)
(* the route and its handler once there is one; a compressor and a cache   *)
(* know that they are at work.                                             *)
Routed == ctx.dispatched /\ ctx.route # NoRoute /\ req.length # "over"
HandlerStage == [is |-> "handler"]
RouterStage == [is |-> "router"]
Whole == IF Routed THEN Stages \o ctx.route.stages \o <<HandlerStage>> ELSE Stages
Alike(stage, was) ==
  \/ stage = was
  \/ was.is = "compress" /\ stage.is \in {"compress", "compressing"}
  \/ was.is = "cache" /\ stage.is = "caching"
ChainOK(whole) ==
  /\ IsList(chain) /\ Len(chain) = Len(whole)
  /\ \A i \in 1..Len(whole) : Alike(chain[i], whole[i])
  /\ at \in 1..Len(whole)
  /\ at > Len(Stages) <=> ctx.dispatched
  /\ ctx.dispatched => Routed

(* What is known of a caller behind the first n stages of a list: c is who *)
(* is asked for, by which credentials, from which host; own of the stages  *)
(* are the application's, the others have the value of a parameter.        *)
Call(user, own, value) ==
  [user |-> user, cred |-> req.cred, host |-> req.host, own |-> own, value |-> value]
Told(c, guards, n) == {i \in 1..n : guards[i].is = "auth" /\ There(guards[i], c.cred) # {}}
Identified(c, guards, n) ==
  /\ IF Told(c, guards, n) = {} THEN c.user = Absent
     ELSE c.user # Absent /\ Proven(c.user, guards[Min(Told(c, guards, n))], c.cred)
  /\ \A i \in 1..n :
       guards[i].is = "auth" /\ (\A j \in Told(c, guards, n) : i < j) => guards[i].optional
Permitted(c, guards, n) ==
  \A i \in 1..n :
    guards[i].is = "require" =>
      Entitled(c.user, guards[i].need, IF i > c.own THEN c.value ELSE "")
Hosted(c, guards, n) == \A i \in 1..n : guards[i].is = "security" => c.host # "bad"
Behind(c, guards, n) == Identified(c, guards, n) /\ Permitted(c, guards, n) /\ Hosted(c, guards, n)

CallOf == Call(ctx.user, Len(Stages), ParamValue)
CallInv ==
  /\ dir = "in" => ~entered /\ ChainOK(Whole) /\ Behind(CallOf, Whole, at - 1)
  /\ entered => Routed /\ Behind(CallOf, Whole, Len(Whole) - 1)

(* Authentication and authorization, stage by stage.                       *)
Grants(name, cred, cfg, who) ==
  LET t == cred.bearer
  IN /\ who # Absent
     /\ \/ /\ name = "bearer" /\ t.signed /\ t.alg \in cfg.algorithms /\ t.exp \in {"ahead", "withinLeeway"}
           /\ cfg.issuer \in {"", t.issuer}
           /\ who = Claimed(t) /\ t.sub # ""
        \/ name = "apikey" /\ cred.key \in DOMAIN Keys /\ who = Keys[cred.key]
        \/ name = "basic" /\ cred.basic \in Users /\ who.id = cred.basic[1]
Answers(name, cred, cfg, got) ==
  /\ Speaks(got) <=> Present(name, cred)
  /\ got.is = "principal" => Grants(name, cred, cfg, got.who)

LEMMA Replies ==
  /\ Anonymous.is = "none" /\ Rejected.is = "invalid"
  /\ \A who : Known(who).is = "principal" /\ Known(who).who = who
BY DEF Anonymous, Rejected, Known

LEMMA AuthenticateIs ==
  ASSUME NEW name, NEW cred, NEW cfg,
         cred.bearer # Absent => Claimed(cred.bearer) # Absent
  PROVE  Answers(name, cred, cfg, Authenticate(name, cred, cfg))
<1> DEFINE got == Authenticate(name, cred, cfg)
           t == cred.bearer
<1> SUFFICES (Speaks(got) <=> Present(name, cred)) /\ (got.is = "principal" => Grants(name, cred, cfg, got.who))
  BY DEF Answers
<1>1. CASE name = "bearer"
  <2>1. got = IF t = Absent THEN Anonymous ELSE VerifyToken(t, cfg)
    BY <1>1 DEF Authenticate
  <2>2. VerifyToken(t, cfg) = IF TokenAccepted(t, cfg) /\ t.sub # "" THEN Known(Claimed(t)) ELSE Rejected
    BY DEF VerifyToken
  <2> DEFINE bearer == Present(name, cred)
  <2>3. bearer <=> t # Absent
    BY <1>1 DEF Present
  <2>4. Speaks(got) <=> got.is \in {"principal", "invalid"}
    BY DEF Speaks
  <2>5. ASSUME TokenAccepted(t, cfg), t.sub # "", t # Absent PROVE Grants(name, cred, cfg, Claimed(t))
    BY <1>1, <2>5 DEF Grants, TokenAccepted
  <2> HIDE DEF got, t, bearer
  <2>6. CASE t = Absent
    BY <2>1, <2>3, <2>4, <2>6, Replies DEF bearer
  <2>7. CASE t # Absent /\ TokenAccepted(t, cfg) /\ t.sub # ""
    BY <2>1, <2>2, <2>3, <2>4, <2>5, <2>7, Replies DEF bearer
  <2>8. CASE t # Absent /\ ~(TokenAccepted(t, cfg) /\ t.sub # "")
    BY <2>1, <2>2, <2>3, <2>4, <2>8, Replies DEF bearer
  <2> QED BY <2>6, <2>7, <2>8
<1>2. CASE name = "apikey"
  <2>1. got = IF cred.key = Absent THEN Anonymous
              ELSE IF cred.key \in DOMAIN Keys THEN Known(Keys[cred.key]) ELSE Rejected
    BY <1>2 DEF Authenticate
  <2>2. cred.key \in DOMAIN Keys => Grants(name, cred, cfg, Keys[cred.key])
    BY <1>2, AuthAssumption DEF Grants
  <2> HIDE DEF got
  <2> QED BY <1>2, <2>1, <2>2, Replies DEF Speaks, Present
<1>3. CASE name = "basic"
  <2> DEFINE u == [id |-> cred.basic[1], roles |-> {}, scopes |-> {}]
  <2>1. got = IF cred.basic = Absent THEN Anonymous
              ELSE IF cred.basic \in Users THEN Known(u) ELSE Rejected
    BY <1>3 DEF Authenticate
  <2>2. cred.basic \in Users => u # Absent
    BY AuthAssumption
  <2>3. u.id = cred.basic[1]
    OBVIOUS
  <2> HIDE DEF u
  <2>4. cred.basic \in Users => Grants(name, cred, cfg, u)
    BY <1>3, <2>2, <2>3 DEF Grants
  <2> HIDE DEF got
  <2> QED BY <1>3, <2>1, <2>4, Replies DEF Speaks, Present
<1>4. CASE name \notin {"bearer", "apikey", "basic"}
  <2>1. got = [is |-> "nobody", who |-> Absent]
    BY <1>4 DEF Authenticate
  <2> QED BY <1>4, <2>1 DEF Speaks, Present
<1> QED BY <1>1, <1>2, <1>3, <1>4

GoesOn(stage, cred) ==
  Identify(Absent, stage.optional, stage.names, cred, stage.cfg).error = ""

LEMMA IdentifySound ==
  ASSUME NEW stage, IsList(stage.names), NEW cred,
         cred.bearer # Absent => Claimed(cred.bearer) # Absent, GoesOn(stage, cred)
  PROVE  LET who == Identify(Absent, stage.optional, stage.names, cred, stage.cfg)
         IN IF There(stage, cred) = {} THEN who.user = Absent /\ stage.optional
            ELSE who.user # Absent /\ Proven(who.user, stage, cred)
<1> DEFINE names == stage.names
           cfg == stage.cfg
           results == [i \in DOMAIN names |-> Authenticate(names[i], cred, cfg)]
           heard == {i \in DOMAIN names : Speaks(results[i])}
           first == results[Min(heard)]
           who == Identify(Absent, stage.optional, names, cred, cfg)
<1>0. \A i \in DOMAIN names : Answers(names[i], cred, cfg, results[i])
  BY AuthenticateIs
<1>1. heard = There(stage, cred)
  BY <1>0 DEF There, Answers
<1>2. CASE heard = {}
  <2>1. who = [user |-> Absent, error |-> IF stage.optional THEN "" ELSE "AUTHENTICATION_REQUIRED"]
    BY <1>2 DEF Identify
  <2>2. who.error = ""
    BY DEF GoesOn
  <2> HIDE DEF who
  <2>3. stage.optional /\ who.user = Absent
    BY <2>1, <2>2
  <2> QED BY <1>1, <1>2, <2>3 DEF who
<1>3. CASE heard # {}
  <2> DEFINE n == Min(heard)
             name == names[n]
  <2>1. n \in heard /\ n \in DOMAIN names
    <3>1. heard \in SUBSET Nat
      <4>1. DOMAIN names = 1..Len(names)
        BY ListIs
      <4> QED BY <4>1
    <3>2. n \in heard
      <4> HIDE DEF heard
      <4> QED BY <1>3, <3>1, MinIs
    <3> QED BY <3>2
  <2>2. first = Authenticate(name, cred, cfg) /\ Speaks(first)
    BY <2>1
  <2>3. first.is = "principal" \/ first.is = "invalid"
    BY <2>2 DEF Speaks
  <2>4. first.is = "principal" /\ who.user = first.who
    <3>1. CASE first.is = "principal"
      <4>1. who = [user |-> first.who, error |-> ""]
        BY <1>3, <3>1 DEF Identify
      <4> HIDE DEF who, first
      <4> QED BY <3>1, <4>1
    <3>2. CASE first.is = "invalid"
      <4>1. who = [user |-> Absent, error |-> "INVALID_CREDENTIALS"]
        BY <1>3, <3>2 DEF Identify
      <4>2. who.error = ""
        BY DEF GoesOn
      <4> HIDE DEF who, first
      <4> QED BY <4>1, <4>2
    <3> QED BY <2>3, <3>1, <3>2
  <2>5. There(stage, cred) # {} /\ name = stage.names[Min(There(stage, cred))]
    BY <1>1, <1>3
  <2>6. Grants(name, cred, cfg, who.user)
    BY <1>0, <2>1, <2>4 DEF Answers
  <2> HIDE DEF who, first, n, heard
  <2>7. who.user # Absent
    BY <2>6 DEF Grants
  <2>8. Proven(who.user, stage, cred)
    <3> HIDE DEF name
    <3> QED BY <2>5, <2>6 DEF Proven, Grants, Claimed
  <2> QED BY <2>5, <2>7, <2>8 DEF who
<1> QED BY <1>2, <1>3

LEMMA AuthorizeSound ==
  ASSUME NEW user, NEW need, need.op \in {"roles", "scopes"} \/ need \in Policies, NEW subject,
         Authorize(user, need, subject) = ""
  PROVE  Entitled(user, need, subject)
<1>1. user # Absent
  BY DEF Authorize
<1>2. CASE need.op = "roles"
  BY <1>1, <1>2 DEF Authorize, Entitled
<1>3. CASE need.op = "scopes"
  BY <1>1, <1>3 DEF Authorize, Entitled
<1>4. CASE need.op \notin {"roles", "scopes"}
  <2>1. need \in Policies /\ Judge(need, user, subject) = "allow"
    BY <1>1, <1>4 DEF Authorize
  <2>2. Holds3(need, user, subject) = "allow" \/ ForgetsFailure(need, user, subject)
    BY <2>1, PoliciesSound
  <2> QED BY <1>1, <1>4, <2>2 DEF Entitled
<1> QED BY <1>2, <1>3, <1>4

(* The stages of an application.                                           *)
Builtin == {"request-id", "access-log", "error-boundary", "recovery", "security", "health"}
PassSound(stage) == stage.is \in Builtin \/ StageSound(stage)
BuiltinStage(kind) == [is |-> kind]
BuiltinStages == {BuiltinStage(kind) : kind \in Builtin}

LEMMA BuiltinsIn ==
  /\ <<BuiltinStage("request-id")>> \in Seq(BuiltinStages)
  /\ <<BuiltinStage("access-log"), BuiltinStage("error-boundary")>> \in Seq(BuiltinStages)
  /\ <<BuiltinStage("recovery")>> \in Seq(BuiltinStages)
  /\ <<BuiltinStage("security"), BuiltinStage("health")>> \in Seq(BuiltinStages)
  /\ <<>> \in Seq(BuiltinStages)
<1>1. \A kind \in Builtin : BuiltinStage(kind) \in BuiltinStages
  BY DEF BuiltinStages
<1>2. \A s, t \in BuiltinStages : <<s>> \in Seq(BuiltinStages) /\ <<s, t>> \in Seq(BuiltinStages)
  OBVIOUS
<1>3. /\ BuiltinStage("request-id") \in BuiltinStages
      /\ BuiltinStage("access-log") \in BuiltinStages /\ BuiltinStage("error-boundary") \in BuiltinStages
      /\ BuiltinStage("recovery") \in BuiltinStages
      /\ BuiltinStage("security") \in BuiltinStages /\ BuiltinStage("health") \in BuiltinStages
  BY <1>1 DEF Builtin
<1> HIDE DEF BuiltinStages, BuiltinStage
<1> QED BY <1>2, <1>3

Hosts == <<BuiltinStage("security"), BuiltinStage("health")>>
First(has) == IF has THEN <<BuiltinStage("access-log"), BuiltinStage("error-boundary")>> ELSE <<>>
Second(has) == IF has THEN <<BuiltinStage("recovery")>> ELSE <<>>
OpeningStages == <<BuiltinStage("request-id")>> \o First(srv.log) \o Second(srv.recovery)

LEMMA StagesAre ==
  Stages = OpeningStages \o Hosts \o srv.stages \o <<RouterStage>>
<1>1. /\ [i \in DOMAIN <<"request-id">> |-> [is |-> <<"request-id">>[i]]] = <<BuiltinStage("request-id")>>
      /\ [i \in DOMAIN <<"recovery">> |-> [is |-> <<"recovery">>[i]]] = <<BuiltinStage("recovery")>>
  BY DEF BuiltinStage
<1>2. [i \in DOMAIN <<"access-log", "error-boundary">> |-> [is |-> <<"access-log", "error-boundary">>[i]]]
        = <<BuiltinStage("access-log"), BuiltinStage("error-boundary")>>
  BY DEF BuiltinStage
<1>3. [i \in DOMAIN <<"security", "health">> |-> [is |-> <<"security", "health">>[i]]] = Hosts
  BY DEF BuiltinStage, Hosts
<1> QED BY <1>1, <1>2, <1>3 DEF Stages, OpeningStages, First, Second, RouterStage

StagesOK ==
  LET n == Len(Stages)
  IN /\ IsList(Stages) /\ n \in Nat /\ n > 1 /\ Stages[n] = RouterStage
     /\ \A i \in 1..(n - 1) : PassSound(Stages[i])
     /\ \E i \in 1..(n - 1) : Stages[i].is = "security"

LEMMA HostsIs == Len(Hosts) = 2 /\ Hosts[1] = BuiltinStage("security") /\ Hosts[1].is = "security"
BY DEF Hosts, BuiltinStage

LEMMA StagesIs == server \in DOMAIN Servers => StagesOK
<1> SUFFICES ASSUME server \in DOMAIN Servers PROVE StagesOK
  OBVIOUS
<1> DEFINE own == srv.stages
           A == {own[i] : i \in DOMAIN own}
           R == {RouterStage}
           T == (BuiltinStages \cup A) \cup R
           B == BuiltinStages \cup A
           f == First(srv.log)
           g == Second(srv.recovery)
           x == <<BuiltinStage("request-id")>>
<1>1. own \in Seq(A) /\ \A stage \in A : StageSound(stage)
  BY ServerSound DEF StagesSound, IsList
<1>2. \A stage \in BuiltinStages : stage.is \in Builtin
  BY DEF BuiltinStages, BuiltinStage
<1>3. \A stage \in B : PassSound(stage)
  <2> HIDE DEF A
  <2> QED BY <1>1, <1>2 DEF PassSound
<1>4. x \in Seq(BuiltinStages) /\ f \in Seq(BuiltinStages) /\ g \in Seq(BuiltinStages) /\ Hosts \in Seq(BuiltinStages)
  BY BuiltinsIn DEF First, Second, Hosts
<1> HIDE DEF A, f, g, x, own
<1>5. x \in Seq(B) /\ f \in Seq(B) /\ g \in Seq(B) /\ Hosts \in Seq(B) /\ own \in Seq(B)
  BY <1>1, <1>4
<1> DEFINE o == OpeningStages
           h == o \o Hosts
           s == h \o own
           n == Len(Stages)
<1>6. o \in Seq(B)
  <2>1. x \o f \in Seq(B)
    BY <1>5, ConcatFacts
  <2>2. (x \o f) \o g \in Seq(B)
    BY <1>5, <2>1, ConcatFacts
  <2> QED BY <2>2 DEF OpeningStages, x, f, g
<1> HIDE DEF B
<1>7. /\ h \in Seq(B) /\ Len(o) \in Nat /\ Len(h) = Len(o) + Len(Hosts)
      /\ \A i \in 1..Len(Hosts) : h[Len(o) + i] = Hosts[i]
  <2> HIDE DEF o
  <2> QED BY <1>5, <1>6, ConcatFacts
<1>8. /\ s \in Seq(B) /\ Len(s) = Len(h) + Len(own) /\ Len(own) \in Nat
      /\ \A i \in 1..Len(h) : s[i] = h[i]
  <2>1. h \in Seq(B) /\ own \in Seq(B)
    BY <1>5, <1>7
  <2> HIDE DEF h
  <2>2. /\ h \o own \in Seq(B) /\ Len(h \o own) = Len(h) + Len(own) /\ Len(own) \in Nat
        /\ \A i \in 1..Len(h) : (h \o own)[i] = h[i]
    BY <2>1, ConcatFacts
  <2> QED BY <2>2
<1>9. Stages = Append(s, RouterStage)
  <2>1. Stages = s \o <<RouterStage>>
    BY StagesAre DEF own
  <2> HIDE DEF s
  <2> QED BY <1>8, <2>1
<1> HIDE DEF s, h, o
<1>10. /\ IsList(s) /\ Len(s) \in Nat /\ \A i \in 1..Len(s) : s[i] \in B
  BY <1>8, ListFrom
<1>11. /\ IsList(Stages) /\ n = Len(s) + 1 /\ Stages[n] = RouterStage
       /\ \A i \in 1..Len(s) : Stages[i] = s[i]
  BY <1>9, <1>10, ListAppend
<1> HIDE DEF n
<1>12. \A i \in 1..(n - 1) : PassSound(Stages[i])
  <2>1. n - 1 = Len(s)
    BY <1>10, <1>11
  <2> QED BY <1>3, <1>10, <1>11, <2>1
<1>13. \E i \in 1..(n - 1) : Stages[i].is = "security"
  <2> DEFINE i == Len(o) + 1
  <2>1. h[i] = Hosts[1] /\ i \in 1..Len(h) /\ i \in 1..Len(s) /\ n - 1 = Len(s)
    BY <1>7, <1>8, <1>10, <1>11, HostsIs
  <2>2. Stages[i] = Hosts[1]
    BY <1>8, <1>11, <2>1
  <2> HIDE DEF i
  <2> QED BY <2>1, <2>2, HostsIs
<1>14. n \in Nat /\ n > 1
  BY <1>7, <1>8, <1>10, <1>11, HostsIs
<1> QED BY <1>11, <1>12, <1>13, <1>14 DEF StagesOK, n

(* What one more stage changes of what is known of a caller.               *)
LEMMA MinMore ==
  ASSUME NEW n \in Nat, NEW K \in SUBSET (1..n), K # {}, NEW L \in SUBSET (1..(n + 1)),
         K \subseteq L, \A i \in L : i \in K \/ i = n + 1
  PROVE  Min(L) = Min(K) /\ Min(K) \in 1..n
<1>1. Min(K) \in K /\ \A k \in K : Min(K) <= k
  BY MinIs
<1>2. Min(L) \in L /\ \A k \in L : Min(L) <= k
  <2>1. L \in SUBSET Nat
    <3>1. \A i \in L : i \in Nat
      OBVIOUS
    <3> QED BY <3>1
  <2>2. L # {}
    OBVIOUS
  <2> QED BY <2>1, <2>2, MinIs
<1>3. Min(K) \in 1..n /\ Min(L) \in 1..(n + 1)
  BY <1>1, <1>2
<1>4. Min(L) <= Min(K)
  BY <1>1, <1>2
<1>5. Min(K) <= Min(L)
  BY <1>1, <1>2, <1>3
<1> QED BY <1>3, <1>4, <1>5

LEMMA ToldIs ==
  ASSUME NEW c, NEW g, NEW n \in Nat
  PROVE  /\ Told(c, g, n) \in SUBSET (1..n) /\ Told(c, g, n) \subseteq Told(c, g, n + 1)
         /\ \A i \in Told(c, g, n + 1) : i \in Told(c, g, n) \/ i = n + 1
         /\ n + 1 \in Told(c, g, n + 1) <=> g[n + 1].is = "auth" /\ There(g[n + 1], c.cred) # {}
<1>1. n + 1 \in 1..(n + 1) /\ \A i \in 1..n : i \in 1..(n + 1)
  BY UpToMore
<1>2. \A i \in 1..(n + 1) : i \in 1..n \/ i = n + 1
  BY UpToMore
<1> QED BY <1>1, <1>2 DEF Told

LEMMA BehindNone ==
  ASSUME NEW c, c.user = Absent, NEW g
  PROVE  Behind(c, g, 0)
<1>1. 1..0 = {}
  OBVIOUS
<1>2. Told(c, g, 0) = {}
  BY <1>1 DEF Told
<1> QED BY <1>1, <1>2 DEF Behind, Identified, Permitted, Hosted

(* A stage that leaves the caller alone, or asks for one that is known.    *)
LEMMA IdentifiedMore ==
  ASSUME NEW c, NEW g, NEW n \in Nat, Identified(c, g, n),
         g[n + 1].is # "auth" \/ c.user # Absent
  PROVE  Identified(c, g, n + 1)
<1> DEFINE K == Told(c, g, n)
           L == Told(c, g, n + 1)
<1>1. /\ K \in SUBSET (1..n) /\ K \subseteq L /\ \A i \in L : i \in K \/ i = n + 1
      /\ n + 1 \in L => g[n + 1].is = "auth"
  BY ToldIs
<1>2. L \in SUBSET (1..(n + 1))
  BY DEF Told
<1>3. /\ IF K = {} THEN c.user = Absent ELSE c.user # Absent /\ Proven(c.user, g[Min(K)], c.cred)
      /\ \A i \in 1..n : g[i].is = "auth" /\ (\A j \in K : i < j) => g[i].optional
  BY DEF Identified
<1> HIDE DEF K, L
<1>4. CASE K = {}
  <2>1. L = {} /\ g[n + 1].is # "auth"
    BY <1>1, <1>3, <1>4
  <2>2. \A i \in 1..(n + 1) : g[i].is = "auth" /\ (\A j \in L : i < j) => g[i].optional
    BY <1>3, <1>4, <2>1, UpToMore
  <2> QED BY <1>3, <1>4, <2>1, <2>2 DEF Identified, L
<1>5. CASE K # {}
  <2>1. Min(L) = Min(K) /\ L # {}
    BY <1>1, <1>2, <1>5, MinMore
  <2>2. \A i \in 1..(n + 1) : g[i].is = "auth" /\ (\A j \in L : i < j) => g[i].optional
    <3> SUFFICES ASSUME NEW i \in 1..(n + 1), g[i].is = "auth", \A j \in L : i < j
                 PROVE  g[i].optional
      OBVIOUS
    <3>1. \A j \in K : i < j /\ j \in 1..n
      BY <1>1
    <3>2. i # n + 1
      BY <1>5, <3>1
    <3> QED BY <1>3, <3>1, <3>2, UpToMore
  <2> QED BY <1>3, <1>5, <2>1, <2>2 DEF Identified, L
<1> QED BY <1>4, <1>5

LEMMA BehindMore ==
  ASSUME NEW c, NEW g, NEW n \in Nat, Behind(c, g, n),
         g[n + 1].is # "auth" \/ c.user # Absent,
         g[n + 1].is = "require" =>
           Entitled(c.user, g[n + 1].need, IF n + 1 > c.own THEN c.value ELSE ""),
         g[n + 1].is = "security" => c.host # "bad"
  PROVE  Behind(c, g, n + 1)
<1>1. Identified(c, g, n + 1)
  BY IdentifiedMore DEF Behind
<1>2. Permitted(c, g, n + 1)
  BY UpToMore DEF Behind, Permitted
<1>3. Hosted(c, g, n + 1)
  BY UpToMore DEF Behind, Hosted
<1> QED BY <1>1, <1>2, <1>3 DEF Behind

(* One that looks for a caller who is not known yet.                       *)
LEMMA BehindKnown ==
  ASSUME NEW c, c.user = Absent, NEW g, NEW n \in Nat, Behind(c, g, n), g[n + 1].is = "auth",
         NEW d, d.cred = c.cred, d.host = c.host,
         IF There(g[n + 1], c.cred) = {} THEN d.user = Absent /\ g[n + 1].optional
         ELSE d.user # Absent /\ Proven(d.user, g[n + 1], c.cred)
  PROVE  Behind(d, g, n + 1)
<1> DEFINE K == Told(c, g, n)
           L == Told(d, g, n + 1)
<1>1. Identified(c, g, n) /\ Permitted(c, g, n) /\ Hosted(c, g, n)
  BY DEF Behind
<1>2. K = {} /\ \A i \in 1..n : g[i].is = "auth" => g[i].optional
  BY <1>1 DEF Identified
<1>3. L = Told(c, g, n + 1)
  BY DEF Told
<1>4. /\ \A i \in L : i = n + 1
      /\ n + 1 \in L <=> There(g[n + 1], c.cred) # {}
  BY <1>2, <1>3, ToldIs
<1> HIDE DEF K, L
<1>5. Identified(d, g, n + 1)
  <2>1. \A i \in 1..(n + 1) : g[i].is = "auth" /\ (\A j \in L : i < j) => g[i].optional
    <3> SUFFICES ASSUME NEW i \in 1..(n + 1), g[i].is = "auth", \A j \in L : i < j
                 PROVE  g[i].optional
      OBVIOUS
    <3>1. CASE i \in 1..n
      BY <1>2, <3>1
    <3>2. CASE i = n + 1
      BY <1>4, <3>2
    <3> QED BY <3>1, <3>2, UpToMore
  <2>2. CASE There(g[n + 1], c.cred) = {}
    <3>1. L = {}
      BY <1>4, <2>2
    <3> QED BY <2>1, <2>2, <3>1 DEF Identified, L
  <2>3. CASE There(g[n + 1], c.cred) # {}
    <3>1. L = {n + 1}
      BY <1>4, <2>3
    <3>2. Min(L) = n + 1
      BY <3>1 DEF Min
    <3> QED BY <2>1, <2>3, <3>1, <3>2 DEF Identified, L
  <2> QED BY <2>2, <2>3
<1>6. \A i \in 1..n : g[i].is # "require"
  BY <1>1 DEF Permitted, Entitled
<1>7. Permitted(d, g, n + 1)
  BY <1>6, UpToMore DEF Permitted
<1>8. Hosted(d, g, n + 1)
  BY <1>1, UpToMore DEF Hosted
<1> QED BY <1>5, <1>7, <1>8 DEF Behind

(* The same stages, with another parameter for those of a route to come.   *)
LEMMA BehindFront ==
  ASSUME NEW c, NEW g, NEW n \in Nat, Behind(c, g, n), NEW h, \A i \in 1..n : h[i] = g[i],
         NEW d, d.user = c.user, d.cred = c.cred, d.host = c.host, d.own = c.own, c.own \in Nat,
         n <= c.own \/ d.value = c.value
  PROVE  Behind(d, h, n)
<1>1. Told(d, h, n) = Told(c, g, n) /\ Told(c, g, n) \in SUBSET (1..n)
  BY DEF Told
<1>2. Identified(d, h, n)
  <2>1. Identified(c, g, n)
    BY DEF Behind
  <2>2. Told(c, g, n) # {} => Min(Told(c, g, n)) \in 1..n
    BY <1>1, MinIs
  <2>3. IF Told(d, h, n) = {} THEN d.user = Absent
        ELSE d.user # Absent /\ Proven(d.user, h[Min(Told(d, h, n))], d.cred)
    BY <1>1, <2>1, <2>2 DEF Identified
  <2>4. \A i \in 1..n :
          h[i].is = "auth" /\ (\A j \in Told(d, h, n) : i < j) => h[i].optional
    BY <1>1, <2>1 DEF Identified
  <2> QED BY <2>3, <2>4 DEF Identified
<1>3. Permitted(d, h, n)
  <2>1. CASE n <= c.own
    <3>1. \A i \in 1..n : ~(i > c.own)
      BY <2>1
    <3> QED BY <3>1 DEF Behind, Permitted
  <2>2. CASE d.value = c.value
    BY <2>2 DEF Behind, Permitted
  <2> QED BY <2>1, <2>2
<1>4. Hosted(d, h, n)
  BY DEF Behind, Hosted
<1> QED BY <1>2, <1>3, <1>4 DEF Behind

(* The chain with a route: its stages, and the handler at the end.         *)
Joined(a, b) == a \o b \o <<HandlerStage>>

(* The same stages, but for the handler.                                   *)
FrontOK(a, b, w, v) ==
  /\ IsList(v) /\ Len(v) = Len(a) + Len(b) /\ Len(w) = Len(a) + Len(b) + 1
  /\ \A i \in 1..(Len(a) + Len(b)) : w[i] = v[i]

LEMMA JoinedIs ==
  ASSUME NEW a, IsList(a), NEW b, IsList(b)
  PROVE  /\ Len(a) \in Nat /\ Len(b) \in Nat
         /\ FrontOK(a, b, Joined(a, b), a \o b)
         /\ IsList(Joined(a, b)) /\ Len(Joined(a, b)) = Len(a) + Len(b) + 1
         /\ \A i \in 1..Len(a) : Joined(a, b)[i] = a[i]
         /\ \A i \in 1..Len(b) : Joined(a, b)[Len(a) + i] = b[i]
         /\ Joined(a, b)[Len(a) + Len(b) + 1] = HandlerStage
<1> DEFINE A == {a[i] : i \in DOMAIN a}
           B == {b[i] : i \in DOMAIN b}
           T == A \cup B
           s == a \o b
           w == Joined(a, b)
<1>1. a \in Seq(A) /\ b \in Seq(B)
  BY DEF IsList
<1> HIDE DEF A, B
<1>2. a \in Seq(T) /\ b \in Seq(T)
  BY <1>1
<1> HIDE DEF T
<1>3. /\ s \in Seq(T) /\ Len(s) = Len(a) + Len(b) /\ Len(a) \in Nat /\ Len(b) \in Nat
      /\ \A i \in 1..Len(a) : s[i] = a[i]
      /\ \A i \in 1..Len(b) : s[Len(a) + i] = b[i]
  BY <1>2, ConcatFacts
<1> HIDE DEF s
<1>4. IsList(s)
  BY <1>3, ListFrom
<1>5. w = Append(s, HandlerStage)
  BY <1>3 DEF Joined, s
<1> HIDE DEF w
<1>6. /\ IsList(w) /\ Len(w) = Len(a) + Len(b) + 1 /\ w[Len(a) + Len(b) + 1] = HandlerStage
      /\ \A i \in 1..(Len(a) + Len(b)) : w[i] = s[i]
  <2>1. /\ IsList(w) /\ Len(w) = Len(s) + 1 /\ w[Len(s) + 1] = HandlerStage
        /\ \A i \in 1..Len(s) : w[i] = s[i]
    BY <1>4, <1>5, ListAppend
  <2> QED BY <1>3, <2>1
<1>7. ASSUME NEW i \in 1..Len(a) PROVE w[i] = a[i]
  <2>1. i \in 1..(Len(a) + Len(b))
    BY <1>3
  <2> QED BY <1>3, <1>6, <2>1
<1>8. ASSUME NEW i \in 1..Len(b) PROVE w[Len(a) + i] = b[i]
  <2>1. Len(a) + i \in 1..(Len(a) + Len(b))
    BY <1>3
  <2> QED BY <1>3, <1>6, <2>1
<1>9. FrontOK(a, b, w, s)
  BY <1>3, <1>4, <1>6 DEF FrontOK
<1> QED BY <1>3, <1>6, <1>7, <1>8, <1>9 DEF w, s

LEMMA LookedSound ==
  ASSUME RoutingInv, dir # "idle", Looked.route # NoRoute
  PROVE  StagesSound(Looked.route.stages)
<1>1. RoutesSound(routes) /\ IsPath(req.path)
  BY DEF RoutingInv, TableInv, RequestInv, RequestSound, IsPath
<1>2. Looked.route \in Range(routes)
  BY <1>1, DispatchIs DEF Looked
<1> QED BY <1>1, <1>2 DEF RoutesSound, Range

StageAt(i, n, own, routed, stage) ==
  \/ i = own /\ stage = RouterStage
  \/ routed /\ i = n /\ stage = HandlerStage
  \/ i # own /\ (routed => i # n) /\ PassSound(stage)
WholeOK ==
  LET n == Len(Whole)
      own == Len(Stages)
  IN /\ n \in Nat /\ own \in Nat /\ 1 < own /\ own <= n /\ IsList(Whole)
     /\ Routed => own < n
     /\ ~Routed => n = own
     /\ \A i \in 1..n : StageAt(i, n, own, Routed, Whole[i])
     /\ \A i \in 1..own : Whole[i] = Stages[i]
     /\ \E i \in 1..(own - 1) : Whole[i].is = "security"

LEMMA WholeIs == RoutingInv => WholeOK
<1> SUFFICES ASSUME RoutingInv PROVE WholeOK
  OBVIOUS
<1> DEFINE n == Len(Whole)
           own == Len(Stages)
           ss == Stages
           w == Whole
<1> SUFFICES
      /\ n \in Nat /\ own \in Nat /\ 1 < own /\ own <= n /\ IsList(w)
      /\ Routed => own < n
      /\ ~Routed => n = own
      /\ \A i \in 1..n : StageAt(i, n, own, Routed, w[i])
      /\ \A i \in 1..own : w[i] = ss[i]
      /\ \E i \in 1..(own - 1) : w[i].is = "security"
  BY DEF WholeOK
<1>1. /\ IsList(ss) /\ own \in Nat /\ own > 1 /\ ss[own] = RouterStage
      /\ \A i \in 1..(own - 1) : PassSound(ss[i])
      /\ \E i \in 1..(own - 1) : ss[i].is = "security"
  BY StagesIs DEF RoutingInv, TableInv, StagesOK
<1>2. CASE ~Routed
  <2>1. w = ss /\ n = own
    BY <1>2 DEF Whole
  <2> HIDE DEF w, ss, n, own
  <2>2. \A i \in 1..n : i = own \/ i \in 1..(own - 1)
    BY <1>1, <2>1
  <2>3. \A i \in 1..n : StageAt(i, n, own, Routed, w[i])
    BY <1>1, <1>2, <2>1, <2>2 DEF StageAt
  <2> QED BY <1>1, <1>2, <2>1, <2>3
<1>3. CASE Routed
  <2> DEFINE b == ctx.route.stages
             l == Len(b)
  <2>1. w = Joined(ss, b)
    BY <1>3 DEF Whole, Joined
  <2>2. StagesSound(b)
    BY <1>3, LookedSound DEF RoutingInv, RequestInv, Routed
  <2> HIDE DEF w, ss, b
  <2>3. IsList(b) /\ l \in Nat /\ \A i \in 1..l : StageSound(b[i])
    BY <2>2, ListIs DEF StagesSound
  <2>4. /\ IsList(w) /\ Len(w) = Len(ss) + Len(b) + 1
        /\ \A i \in 1..Len(ss) : w[i] = ss[i]
        /\ \A i \in 1..Len(b) : w[Len(ss) + i] = b[i]
        /\ w[Len(ss) + Len(b) + 1] = HandlerStage
    <3>1. IsList(ss) /\ IsList(b)
      BY <1>1, <2>3
    <3> HIDE DEF n, own, l
    <3>2. /\ IsList(Joined(ss, b)) /\ Len(Joined(ss, b)) = Len(ss) + Len(b) + 1
          /\ \A i \in 1..Len(ss) : Joined(ss, b)[i] = ss[i]
          /\ \A i \in 1..Len(b) : Joined(ss, b)[Len(ss) + i] = b[i]
          /\ Joined(ss, b)[Len(ss) + Len(b) + 1] = HandlerStage
      BY <3>1, JoinedIs
    <3> QED BY <2>1, <3>2
  <2>5. n = own + l + 1 /\ w[n] = HandlerStage /\ own = Len(ss) /\ l = Len(b)
    BY <2>4 DEF w, ss
  <2> HIDE DEF n, own, l
  <2>6. \A i \in 1..n : i \in 1..(own - 1) \/ i = own \/ i = n \/ i - own \in 1..l
    BY <1>1, <2>3, <2>5, SMTT(30)
  <2>7. ASSUME NEW i \in 1..n PROVE StageAt(i, n, own, Routed, w[i])
    <3>1. CASE i \in 1..(own - 1)
      <4>1. w[i] = ss[i] /\ i # own /\ i # n
        BY <1>1, <2>3, <2>4, <2>5, <3>1
      <4> QED BY <1>1, <3>1, <4>1 DEF StageAt
    <3>2. CASE i = own
      BY <1>1, <2>4, <2>5, <3>2 DEF StageAt
    <3>3. CASE i = n
      BY <1>3, <2>5, <3>3 DEF StageAt
    <3>4. CASE i - own \in 1..l
      <4>1. own + (i - own) = i /\ i # own /\ i # n
        BY <1>1, <2>3, <2>5, <3>4
      <4>2. w[i] = b[i - own]
        BY <2>4, <2>5, <3>4, <4>1
      <4> QED BY <2>3, <3>4, <4>1, <4>2 DEF StageAt, PassSound
    <3> QED BY <2>6, <3>1, <3>2, <3>3, <3>4
  <2>8. n \in Nat /\ own < n
    BY <1>1, <2>3, <2>5
  <2>9. \E i \in 1..(own - 1) : w[i].is = "security"
    <3>1. \A i \in 1..(own - 1) : i \in 1..own
      BY <1>1
    <3> QED BY <1>1, <2>4, <2>5, <3>1
  <2>10. IsList(w) /\ own <= n /\ \A i \in 1..own : w[i] = ss[i]
    BY <1>1, <2>4, <2>5, <2>8
  <2> QED BY <1>1, <1>3, <2>7, <2>8, <2>9, <2>10
<1> QED BY <1>2, <1>3

(* The stage a request is at, and the one it stands for.                   *)
Here(was) ==
  /\ Stage.is = "router" => at = Len(Stages)
  /\ Stage.is = "handler" => Routed /\ at = Len(Whole)
  /\ Stage.is \notin {"router", "handler"} =>
       at # Len(Stages) /\ (Routed => at # Len(Whole))
  /\ \/ Stage = was
     \/ Stage.is \in {"compress", "compressing"} /\ was.is = "compress"
     \/ Stage.is = "caching" /\ was.is = "cache"
  /\ Stage = was /\ Stage.is \notin {"router", "handler"} => PassSound(Stage)

LEMMA HereIs ==
  ASSUME RoutingInv, ChainOK(Whole)
  PROVE  Here(Whole[at])
<1> DEFINE n == Len(Whole)
           own == Len(Stages)
           was == Whole[at]
<1>1. at \in 1..n /\ Alike(Stage, was)
  BY DEF ChainOK, Stage
<1>2. StageAt(at, n, own, Routed, was)
  BY <1>1, WholeIs DEF WholeOK
<1>3. RouterStage.is = "router" /\ HandlerStage.is = "handler"
  BY DEF RouterStage, HandlerStage
<1>4. own < n \/ ~Routed
  BY WholeIs DEF WholeOK
<1>5. PassSound(was) => was.is \notin {"router", "handler"}
  BY DEF PassSound, StageSound, Builtin, Middleware
<1>6. own \in Nat /\ n \in Nat
  BY WholeIs DEF WholeOK
<1> HIDE DEF n, own, was
<1>7. was.is \in {"router", "handler"} => Stage = was
  BY <1>1 DEF Alike
<1>8. Stage.is \in {"router", "handler"} => Stage = was
  BY <1>1 DEF Alike
<1>9. /\ was.is = "router" <=> at = own
      /\ was.is = "handler" <=> Routed /\ at = n
      /\ was.is \in {"router", "handler"} \/ PassSound(was)
  BY <1>2, <1>3, <1>4, <1>5, <1>6 DEF StageAt
<1>10. \/ Stage = was
       \/ Stage.is \in {"compress", "compressing"} /\ was.is = "compress"
       \/ Stage.is = "caching" /\ was.is = "cache"
  BY <1>1 DEF Alike
<1> QED BY <1>7, <1>8, <1>9, <1>10 DEF Here, n, own, was

LEMMA WholeSame ==
  ASSUME Kept, RouteSame
  PROVE  /\ Stages' = Stages /\ Routed' = Routed /\ Whole' = Whole /\ ParamValue' = ParamValue
         /\ \A u, own, v : Call(u, own, v)' = Call(u, own, v)
<1>1. Stages' = Stages
  BY DEF Stages, srv, Kept
<1>2. Routed' = Routed
  BY DEF Routed, Kept, RouteSame
<1>3. Whole' = Whole
  BY <1>1, <1>2 DEF Whole, RouteSame
<1>4. ParamValue' = ParamValue
  BY DEF ParamValue, RouteSame
<1>5. \A u, own, v : Call(u, own, v)' = Call(u, own, v)
  BY DEF Call, Kept
<1> QED BY <1>1, <1>2, <1>3, <1>4, <1>5

(* On its way in, a request keeps to its chain.                            *)
LEMMA MarkedIs ==
  ASSUME RoutingInv, ChainOK(Whole), Marked
  PROVE  /\ IsList(chain') /\ Len(chain') = Len(Whole)
         /\ \A i \in 1..Len(Whole) : Alike(chain'[i], Whole[i])
<1> DEFINE w == Whole
           n == Len(w)
<1>1. IsList(chain) /\ Len(chain) = n /\ \A i \in 1..n : Alike(chain[i], w[i])
  BY DEF ChainOK
<1>2. at \in 1..n /\ Here(w[at])
  BY HereIs DEF ChainOK
<1> HIDE DEF w, n
<1>3. CASE chain' = chain
  BY <1>1, <1>3 DEF w, n
<1>4. ASSUME NEW e, chain' = [chain EXCEPT ![at] = e], Alike(e, w[at])
      PROVE  IsList(chain') /\ Len(chain') = n /\ \A i \in 1..n : Alike(chain'[i], w[i])
  <2> DEFINE t == [chain EXCEPT ![at] = e]
  <2>1. IsList(t) /\ Len(t) = n /\ t[at] = e /\ \A i \in 1..n : i # at => t[i] = chain[i]
    <3>1. IsList(chain) /\ at \in 1..Len(chain)
      BY <1>1, <1>2
    <3>2. /\ IsList(t) /\ Len(t) = Len(chain) /\ t[at] = e
          /\ \A i \in 1..Len(chain) : i # at => t[i] = chain[i]
      BY <3>1, ListExcept
    <3> QED BY <1>1, <3>2
  <2>2. chain' = t
    BY <1>4
  <2> HIDE DEF t
  <2>3. ASSUME NEW i \in 1..n PROVE Alike(t[i], w[i])
    <3>1. CASE i = at
      BY <1>4, <2>1, <3>1
    <3>2. CASE i # at
      BY <1>1, <2>1, <3>2
    <3> QED BY <3>1, <3>2
  <2> QED BY <2>1, <2>2, <2>3
<1>5. CASE Stage.is = "compress" /\ \E kind \in {"compress", "compressing"} :
                                      chain' = [chain EXCEPT ![at] = [is |-> kind]]
  <2>1. PICK kind \in {"compress", "compressing"} : chain' = [chain EXCEPT ![at] = [is |-> kind]]
    BY <1>5
  <2>2. w[at].is = "compress"
    BY <1>2, <1>5 DEF Here
  <2>3. Alike([is |-> kind], w[at])
    BY <2>2 DEF Alike
  <2> QED BY <1>4, <2>1, <2>3 DEF w, n
<1>6. CASE Stage.is = "cache" /\ chain' = [chain EXCEPT ![at] = [is |-> "caching"]]
  <2>1. w[at].is = "cache"
    BY <1>2, <1>6 DEF Here
  <2>2. Alike([is |-> "caching"], w[at])
    BY <2>1 DEF Alike
  <2> QED BY <1>4, <1>6, <2>2 DEF w, n
<1> QED BY <1>3, <1>5, <1>6 DEF Marked

LEMMA ChainFurther ==
  ASSUME RoutingInv, ChainOK(Whole), Kept, RouteSame, at' = at + 1, Marked,
         Stage.is \notin {"router", "handler"}
  PROVE  ChainOK(Whole)' /\ at' - 1 = at /\ at \in Nat /\ at - 1 \in Nat /\ (at - 1) + 1 = at
<1> DEFINE n == Len(Whole)
           own == Len(Stages)
<1>1. /\ Stages' = Stages /\ Whole' = Whole /\ (Routed' <=> Routed)
      /\ (ctx.dispatched)' = ctx.dispatched
  BY WholeSame DEF RouteSame
<1>2. IsList(chain') /\ Len(chain') = n /\ \A i \in 1..n : Alike(chain'[i], Whole[i])
  BY MarkedIs
<1>3. /\ at \in 1..n /\ (at > own <=> ctx.dispatched) /\ (ctx.dispatched => Routed)
  BY DEF ChainOK
<1>4. at # own /\ (Routed => at # n)
  BY HereIs DEF Here
<1>5. n \in Nat /\ own \in Nat /\ own <= n /\ (~Routed => n = own)
  BY WholeIs DEF WholeOK
<1> HIDE DEF n, own
<1>6. at' \in 1..n /\ at' - 1 = at
  BY <1>3, <1>4, <1>5
<1>7. at' > own <=> ctx.dispatched
  BY <1>3, <1>4, <1>5
<1>8. ChainOK(Whole)'
  <2>1. Len(Whole) = n /\ Len(Stages) = own
    BY DEF n, own
  <2> QED BY <1>1, <1>2, <1>3, <1>6, <1>7, <2>1 DEF ChainOK
<1>9. at \in Nat /\ at - 1 \in Nat /\ (at - 1) + 1 = at
  BY <1>3
<1> QED BY <1>6, <1>8, <1>9

LEMMA CallOfSame ==
  ASSUME Kept, CallerSame
  PROVE  CallOf' = CallOf
BY WholeSame DEF CallOf, CallerSame, Call, Kept

LEMMA CallFields ==
  ASSUME NEW user, NEW own, NEW value
  PROVE  /\ Call(user, own, value).user = user /\ Call(user, own, value).cred = req.cred
         /\ Call(user, own, value).host = req.host /\ Call(user, own, value).own = own
         /\ Call(user, own, value).value = value
BY DEF Call

LEMMA OnwardCalls ==
  ASSUME RoutingInv, CallInv, Kept, Onward
  PROVE  CallInv'
<1> DEFINE c == CallOf
           w == Whole
<1>1. /\ dir = "in" /\ dir' = "in" /\ at' = at + 1 /\ entered' = entered /\ Marked /\ CallerSame
      /\ Stage.is \notin {"auth", "require", "router", "handler"}
      /\ Stage.is = "security" => req.host # "bad"
  BY DEF Onward, Further
<1>2. ~entered /\ ChainOK(Whole) /\ Behind(c, w, at - 1) /\ RouteSame
  BY <1>1 DEF CallInv, CallerSame
<1>3. ChainOK(Whole)' /\ at' - 1 = at /\ at - 1 \in Nat /\ (at - 1) + 1 = at
  BY <1>1, <1>2, ChainFurther
<1>4. Here(w[at])
  BY <1>2, HereIs
<1>5. c.host = req.host
  BY CallFields DEF CallOf
<1>6. CallOf' = c /\ Whole' = w
  BY <1>1, <1>2, CallOfSame, WholeSame
<1> HIDE DEF c, w
<1>7. w[at].is \notin {"auth", "require"} /\ (w[at].is = "security" => c.host # "bad")
  BY <1>1, <1>4, <1>5 DEF Here
<1>8. Behind(c, w, (at - 1) + 1)
  BY <1>2, <1>3, <1>7, BehindMore
<1>9. Behind(CallOf', Whole', at' - 1)
  BY <1>3, <1>6, <1>8
<1> QED BY <1>1, <1>2, <1>3, <1>9 DEF CallInv

LEMMA AllowedCalls ==
  ASSUME RoutingInv, CallInv, Kept, AllowedBy
  PROVE  CallInv'
<1> DEFINE c == CallOf
           w == Whole
           stage == w[at]
           subject == IF at > c.own THEN c.value ELSE ""
<1>1. /\ dir = "in" /\ dir' = "in" /\ at' = at + 1 /\ entered' = entered /\ Marked /\ CallerSame
      /\ Stage.is = "require" /\ Authorize(ctx.user, Stage.need, ParamValue) = ""
  BY DEF AllowedBy, Further, Marked
<1>2. ~entered /\ ChainOK(Whole) /\ Behind(c, w, at - 1) /\ RouteSame
  BY <1>1 DEF CallInv, CallerSame
<1>3. ChainOK(Whole)' /\ at' - 1 = at /\ at - 1 \in Nat /\ (at - 1) + 1 = at
  BY <1>1, <1>2, ChainFurther
<1>4. Stage = stage /\ PassSound(Stage)
  BY <1>1, <1>2, HereIs DEF Here
<1>5. c.user = ctx.user /\ c.own = Len(Stages) /\ c.value = ParamValue
  BY CallFields DEF CallOf
<1>6. CallOf' = c /\ Whole' = w
  BY <1>1, <1>2, CallOfSame, WholeSame
<1>7. ParamValue = subject
  <2>1. CASE ctx.dispatched
    BY <1>2, <1>5, <2>1 DEF ChainOK
  <2>2. CASE ~ctx.dispatched
    <3>1. ctx.vals = <<>>
      BY <2>2 DEF RoutingInv, RequestInv
    <3>2. ParamValue = ""
      BY <3>1 DEF ParamValue
    <3>3. ~(at > c.own)
      BY <1>2, <1>5, <2>2 DEF ChainOK
    <3> QED BY <3>2, <3>3
  <2> QED BY <2>1, <2>2
<1>8. Stage.need.op \in {"roles", "scopes"} \/ Stage.need \in Policies
  BY <1>1, <1>4 DEF PassSound, StageSound, Builtin
<1> HIDE DEF c, w, subject, stage
<1>9. Entitled(c.user, stage.need, subject)
  BY <1>1, <1>4, <1>5, <1>7, <1>8, AuthorizeSound
<1>10. Behind(c, w, (at - 1) + 1)
  <2>1. /\ w[(at - 1) + 1].is = "require"
        /\ Entitled(c.user, w[(at - 1) + 1].need, IF (at - 1) + 1 > c.own THEN c.value ELSE "")
    BY <1>1, <1>3, <1>4, <1>9 DEF stage, subject
  <2> QED BY <1>2, <1>3, <2>1, BehindMore
<1>11. Behind(CallOf', Whole', at' - 1)
  BY <1>3, <1>6, <1>10
<1> QED BY <1>1, <1>2, <1>3, <1>11 DEF CallInv

LEMMA KnownCalls ==
  ASSUME RoutingInv, CallInv, Kept, KnownBy
  PROVE  CallInv'
<1> DEFINE c == CallOf
           d == CallOf'
           w == Whole
           stage == w[at]
           who == Identify(ctx.user, Stage.optional, Stage.names, req.cred, Stage.cfg)
<1>1. /\ dir = "in" /\ dir' = "in" /\ at' = at + 1 /\ entered' = entered /\ Marked /\ RouteSame
      /\ Stage.is = "auth" /\ who.error = "" /\ ctx'.user = who.user
  BY DEF KnownBy, Further, Marked
<1>2. ~entered /\ ChainOK(Whole) /\ Behind(c, w, at - 1)
  BY <1>1 DEF CallInv
<1>3. ChainOK(Whole)' /\ at' - 1 = at /\ at - 1 \in Nat /\ (at - 1) + 1 = at
  BY <1>1, <1>2, ChainFurther
<1>4. Stage = stage /\ PassSound(Stage)
  BY <1>1, <1>2, HereIs DEF Here
<1>5. /\ c.user = ctx.user /\ c.cred = req.cred /\ c.host = req.host
      /\ c.own = Len(Stages) /\ c.value = ParamValue
  BY CallFields DEF CallOf
<1>6. d.user = ctx'.user /\ d.cred = c.cred /\ d.host = c.host
  BY <1>5 DEF CallOf, Call, Kept
<1>7. Whole' = w /\ Stages' = Stages /\ ParamValue' = ParamValue
  BY <1>1, WholeSame
<1>8. Behind(d, w, at)
  <2>1. CASE ctx.user # Absent
    <3>1. who = [user |-> ctx.user, error |-> ""]
      BY <2>1 DEF Identify
    <3>2. who.user = ctx.user
      <4> HIDE DEF who
      <4> QED BY <3>1
    <3>3. CallerSame
      BY <1>1, <3>2 DEF CallerSame
    <3>4. d = c
      BY <3>3, CallOfSame
    <3> HIDE DEF c, d, w, who
    <3>5. Behind(c, w, (at - 1) + 1)
      <4>1. w[(at - 1) + 1].is = "auth" /\ c.user # Absent
        BY <1>1, <1>3, <1>4, <1>5, <2>1
      <4> QED BY <1>2, <1>3, <4>1, BehindMore
    <3> QED BY <1>3, <3>4, <3>5
  <2>2. CASE ctx.user = Absent
    <3>1. IsList(Stage.names)
      BY <1>1, <1>4 DEF PassSound, StageSound, Builtin
    <3>2. req.cred.bearer # Absent => Claimed(req.cred.bearer) # Absent
      BY <1>1 DEF RoutingInv, RequestInv, RequestSound
    <3>3. GoesOn(Stage, req.cred)
      BY <1>1, <2>2 DEF GoesOn
    <3>4. IF There(Stage, req.cred) = {} THEN who.user = Absent /\ Stage.optional
          ELSE who.user # Absent /\ Proven(who.user, Stage, req.cred)
      BY <2>2, <3>1, <3>2, <3>3, IdentifySound
    <3> HIDE DEF who, c, d, w
    <3>5. w[(at - 1) + 1] = Stage
      BY <1>3, <1>4
    <3>6. IF There(Stage, c.cred) = {} THEN d.user = Absent /\ Stage.optional
          ELSE d.user # Absent /\ Proven(d.user, Stage, c.cred)
      BY <1>1, <1>5, <1>6, <3>4
    <3>7. Behind(d, w, (at - 1) + 1)
      BY <1>1, <1>2, <1>3, <1>5, <1>6, <2>2, <3>5, <3>6, BehindKnown
    <3> QED BY <1>3, <3>7
  <2> QED BY <2>1, <2>2
<1>9. Behind(CallOf', Whole', at' - 1)
  BY <1>3, <1>7, <1>8
<1> QED BY <1>1, <1>2, <1>3, <1>9 DEF CallInv

LEMMA AwayCalls ==
  ASSUME CallInv, Kept, Away
  PROVE  CallInv'
<1>1. dir' # "in" /\ entered' = entered /\ RouteSame
  BY DEF Away, CallerSame
<1>2. CallOf' = CallOf /\ Whole' = Whole /\ (Routed' <=> Routed)
  BY <1>1, CallOfSame, WholeSame DEF Away
<1> QED BY <1>1, <1>2 DEF CallInv

LEMMA HandledCalls ==
  ASSUME RoutingInv, CallInv, Kept, Handled_
  PROVE  CallInv'
<1>1. dir = "in" /\ Stage.is = "handler" /\ dir' # "in" /\ RouteSame
  BY DEF Handled_, Going, CallerSame
<1>2. ChainOK(Whole) /\ Behind(CallOf, Whole, at - 1)
  BY <1>1 DEF CallInv
<1>3. Routed /\ at = Len(Whole)
  BY <1>1, <1>2, HereIs DEF Here
<1>4. CallOf' = CallOf /\ Whole' = Whole /\ (Routed' <=> Routed)
  BY <1>1, CallOfSame, WholeSame DEF Handled_
<1> QED BY <1>1, <1>2, <1>3, <1>4 DEF CallInv

LEMMA RouteCalls ==
  ASSUME RoutingInv, CallInv, Kept, Route
  PROVE  CallInv'
<1> DEFINE d == Looked
           c == [ctx EXCEPT !.dispatched = TRUE, !.route = d.route, !.vals = d.vals, !.status = d.status]
<1>1. /\ dir = "in" /\ Stage.is = "router" /\ entered' = entered /\ ctx' = c
      /\ \/ dir' # "in"
         \/ /\ d.route # NoRoute /\ req.length # "over" /\ at' = at + 1
            /\ chain' = chain \o d.route.stages \o <<HandlerStage>>
  BY DEF Route, Follow, Going, Quiet, Return, Answer, Looked, HandlerStage
<1> HIDE DEF d
<1>2. ~entered /\ ChainOK(Whole) /\ Behind(CallOf, Whole, at - 1)
  BY <1>1 DEF CallInv
<1>3. CASE dir' # "in"
  BY <1>1, <1>2, <1>3 DEF CallInv
<1>4. CASE dir' = "in"
  <2> DEFINE own == Len(Stages)
             b == d.route.stages
             w == Whole
             v == Joined(Stages, b)
  <2>1. /\ d.route # NoRoute /\ req.length # "over" /\ at' = at + 1
        /\ chain' = Joined(chain, b)
    BY <1>1, <1>4 DEF Joined
  <2>2. /\ ctx'.dispatched = TRUE /\ ctx'.route = d.route /\ ctx'.user = ctx.user
    BY <1>1, ContextFields DEF RoutingInv, RequestInv, ContextOK
  <2>3. at = own /\ Here(w[at])
    BY <1>1, <1>2, HereIs DEF Here
  <2>4. ~ctx.dispatched /\ ~Routed
    BY <1>2, <2>3, WholeIs DEF ChainOK, Routed, WholeOK
  <2>5. /\ w = Stages /\ IsList(Stages) /\ own \in Nat /\ own > 1
    BY <2>4, WholeIs DEF Whole, WholeOK
  <2>6. IsList(b) /\ Len(b) \in Nat
    <3>1. StagesSound(b)
      BY <1>1, <2>1, LookedSound DEF d
    <3> QED BY <3>1, ListIs DEF StagesSound
  <2>7. Stages' = Stages /\ Routed'
    BY <2>1, <2>2 DEF Stages, srv, Kept, Routed
  <2>8. Whole' = v
    BY <2>2, <2>7 DEF Whole, Joined
  <2>9. IsList(chain) /\ Len(chain) = own /\ \A i \in 1..own : Alike(chain[i], Stages[i])
    BY <1>2, <2>5 DEF ChainOK
  <2> HIDE DEF b, w
  <2>10. /\ IsList(v) /\ Len(v) = own + Len(b) + 1
         /\ \A i \in 1..own : v[i] = Stages[i]
         /\ \A i \in 1..Len(b) : v[own + i] = b[i]
         /\ v[own + Len(b) + 1] = HandlerStage
    <3>1. IsList(Stages) /\ IsList(b)
      BY <2>5, <2>6
    <3> HIDE DEF v
    <3>2. /\ IsList(Joined(Stages, b)) /\ Len(Joined(Stages, b)) = Len(Stages) + Len(b) + 1
          /\ \A i \in 1..Len(Stages) : Joined(Stages, b)[i] = Stages[i]
          /\ \A i \in 1..Len(b) : Joined(Stages, b)[Len(Stages) + i] = b[i]
          /\ Joined(Stages, b)[Len(Stages) + Len(b) + 1] = HandlerStage
      BY <3>1, JoinedIs
    <3> QED BY <3>2 DEF v
  <2>11. /\ IsList(chain') /\ Len(chain') = own + Len(b) + 1
         /\ \A i \in 1..own : chain'[i] = chain[i]
         /\ \A i \in 1..Len(b) : chain'[own + i] = b[i]
         /\ chain'[own + Len(b) + 1] = HandlerStage
    <3> DEFINE u == Joined(chain, b)
    <3>1. /\ IsList(u) /\ Len(u) = Len(chain) + Len(b) + 1
          /\ \A i \in 1..Len(chain) : u[i] = chain[i]
          /\ \A i \in 1..Len(b) : u[Len(chain) + i] = b[i]
          /\ u[Len(chain) + Len(b) + 1] = HandlerStage
      <4>1. IsList(chain) /\ IsList(b)
        BY <2>6, <2>9
      <4> HIDE DEF own, v
      <4> QED BY <4>1, JoinedIs
    <3>2. chain' = u
      BY <2>1
    <3> HIDE DEF u
    <3> QED BY <2>9, <3>1, <3>2
  <2> HIDE DEF v
  <2>12. \A i \in 1..Len(v) : i \in 1..own \/ i - own \in 1..Len(b) \/ i = own + Len(b) + 1
    <3> DEFINE l == Len(b)
    <3>1. own \in Nat /\ l \in Nat /\ Len(v) = own + l + 1
      BY <2>5, <2>6, <2>10
    <3> HIDE DEF own, l
    <3>2. \A i \in 1..(own + l + 1) : i \in 1..own \/ i - own \in 1..l \/ i = own + l + 1
      BY <3>1
    <3> QED BY <3>1, <3>2 DEF l
  <2>13. ASSUME NEW i \in 1..Len(v) PROVE Alike(chain'[i], v[i])
    <3>1. CASE i \in 1..own
      BY <2>9, <2>10, <2>11, <3>1
    <3>2. CASE i - own \in 1..Len(b)
      <4>1. own + (i - own) = i
        BY <2>5, <2>10
      <4>2. chain'[i] = v[i]
        BY <2>10, <2>11, <3>2, <4>1
      <4> QED BY <4>2 DEF Alike
    <3>3. CASE i = own + Len(b) + 1
      BY <2>10, <2>11, <3>3 DEF Alike
    <3> QED BY <2>12, <3>1, <3>2, <3>3
  <2>14. at' \in 1..Len(v) /\ at' > own /\ at' - 1 = own
    BY <2>1, <2>3, <2>5, <2>6, <2>10
  <2>15. ChainOK(Whole)'
    <3>1. ChainOK(Whole)' <=>
            /\ IsList(chain') /\ Len(chain') = Len(Whole')
            /\ \A i \in 1..Len(Whole') : Alike(chain'[i], Whole'[i])
            /\ at' \in 1..Len(Whole')
            /\ (at' > Len(Stages') <=> ctx'.dispatched)
            /\ ctx'.dispatched => Routed'
      BY DEF ChainOK
    <3> QED BY <2>2, <2>7, <2>8, <2>10, <2>11, <2>13, <2>14, <3>1
  <2>16. Behind(CallOf', v, own)
    <3> DEFINE o == CallOf
               e == CallOf'
    <3>1. /\ o.user = ctx.user /\ o.cred = req.cred /\ o.host = req.host /\ o.own = own
      BY CallFields DEF CallOf
    <3>2. /\ e.user = ctx'.user /\ e.cred = req.cred /\ e.host = req.host /\ e.own = own
      BY <2>7 DEF CallOf, Call, Kept
    <3>3. Behind(o, w, own - 1) /\ w = Stages
      BY <1>2, <2>3, <2>5 DEF w
    <3> HIDE DEF o, e
    <3>4. w[own].is = "router" /\ own - 1 \in Nat /\ (own - 1) + 1 = own
      <4>1. StagesOK
        BY StagesIs DEF RoutingInv, TableInv
      <4> QED BY <2>5, <3>3, <4>1 DEF StagesOK, RouterStage
    <3>5. Behind(o, w, (own - 1) + 1)
      <4>1. w[(own - 1) + 1].is \notin {"auth", "require", "security"}
        BY <3>4
      <4> QED BY <3>3, <3>4, <4>1, BehindMore
    <3>6. Behind(o, w, own)
      BY <3>4, <3>5
    <3>7. \A i \in 1..own : v[i] = w[i]
      BY <2>10, <3>3
    <3>8. own <= own
      BY <2>5
    <3> HIDE DEF own
    <3> QED BY <2>2, <2>5, <3>1, <3>2, <3>6, <3>7, <3>8, BehindFront DEF e
  <2>17. Behind(CallOf', Whole', at' - 1)
    BY <2>8, <2>14, <2>16
  <2> QED BY <1>1, <1>2, <2>15, <2>17 DEF CallInv
<1> QED BY <1>3, <1>4

LEMMA AcceptCalls ==
  ASSUME RoutingInv, Accept
  PROVE  CallInv'
<1> DEFINE n == Len(Stages)
<1>1. /\ chain' = Stages /\ at' = 1 /\ ctx' = NewContext /\ entered' = FALSE /\ server' = server
  BY DEF Accept, Arrive
<1>2. Stages' = Stages
  BY <1>1 DEF Stages, srv
<1>3. ctx'.dispatched = FALSE /\ ctx'.user = Absent
  BY <1>1 DEF NewContext
<1>4. ~(Routed') /\ Whole' = Stages
  BY <1>2, <1>3 DEF Routed, Whole
<1>5. IsList(Stages) /\ n \in Nat /\ n > 1
  BY StagesIs DEF RoutingInv, TableInv, StagesOK
<1>6. ChainOK(Whole)'
  <2>1. ChainOK(Whole)' <=>
          /\ IsList(chain') /\ Len(chain') = Len(Whole')
          /\ \A i \in 1..Len(Whole') : Alike(chain'[i], Whole'[i])
          /\ at' \in 1..Len(Whole')
          /\ (at' > Len(Stages') <=> ctx'.dispatched)
          /\ ctx'.dispatched => Routed'
    BY DEF ChainOK
  <2>2. \A i \in 1..n : Alike(Stages[i], Stages[i])
    BY DEF Alike
  <2>3. 1 \in 1..n /\ ~(1 > n)
    BY <1>5
  <2> QED BY <1>1, <1>2, <1>3, <1>4, <1>5, <2>1, <2>2, <2>3
<1>7. Behind(CallOf', Whole', at' - 1)
  <2> DEFINE c == CallOf'
  <2>1. c.user = Absent
    BY <1>3 DEF CallOf, Call
  <2>2. at' - 1 = 0
    BY <1>1
  <2> HIDE DEF c
  <2>3. Behind(c, Whole', 0)
    BY <2>1, BehindNone
  <2> QED BY <2>2, <2>3 DEF c
<1> QED BY <1>1, <1>6, <1>7 DEF CallInv

LEMMA ServeCalls ==
  ASSUME RoutingInv, CallInv, Serve
  PROVE  CallInv'
<1>1. Deed /\ Kept
  BY StepIsDeed DEF Serve, RoutingInv, RequestInv, ContextOK, Deed
<1> QED BY <1>1, OnwardCalls, AwayCalls, HandledCalls, KnownCalls, AllowedCalls, RouteCalls DEF Deed

LEMMA CallStep ==
  ASSUME RoutingInv, CallInv, [ApplicationNext]_applicationVars
  PROVE  CallInv'
<1>1. ContextOK
  BY DEF RoutingInv, RequestInv, ContextOK
<1>2. CASE Elsewhere \/ Register
  <2>1. /\ server' = server /\ req' = req /\ ctx' = ctx /\ chain' = chain /\ at' = at
        /\ dir' = dir /\ entered' = entered
    BY <1>2 DEF Elsewhere, Register, pipelineVars, pathVars, seenVars
  <2>2. Stages' = Stages /\ (Routed' <=> Routed) /\ Whole' = Whole /\ ParamValue' = ParamValue
    BY <2>1 DEF Stages, srv, Routed, Whole, ParamValue
  <2>3. CallOf' = CallOf
    BY <2>1, <2>2 DEF CallOf, Call
  <2>4. ChainOK(Whole)' <=> ChainOK(Whole)
    BY <2>1, <2>2 DEF ChainOK
  <2> QED BY <2>1, <2>2, <2>3, <2>4 DEF CallInv
<1>3. CASE Finish \/ Abandon
  <2>1. /\ Kept /\ dir # "idle" /\ dir' \notin {"idle", "in"} /\ entered' = entered
        /\ ctx' = ctx \/ \E e, r : Handles(e, r)
    BY <1>3 DEF Finish, ServeDone, Abandon, ServeAborts, Quiet, Kept
  <2>2. CallerSame
    BY <1>1, <2>1, HandlesSame, ContextSame
  <2> QED BY <2>1, <2>2, AwayCalls DEF Away
<1> QED BY <1>2, <1>3, AcceptCalls, ServeCalls, StepIs

LEMMA EntitledHere == RoutingInv /\ CallInv => HandlerEntitled
<1> SUFFICES ASSUME RoutingInv, CallInv, entered PROVE HandlerEntitled
  BY DEF HandlerEntitled
<1> DEFINE b == ctx.route.stages
           guards == Stages \o b
           n == Len(guards)
           w == Whole
           c == CallOf
           asking == {i \in DOMAIN guards : guards[i].is = "auth"}
           told == {i \in asking : There(guards[i], req.cred) # {}}
<1>1. Routed /\ Behind(c, w, Len(w) - 1)
  BY DEF CallInv
<1>2. StagesSound(b)
  BY <1>1, LookedSound DEF RoutingInv, RequestInv, Routed
<1>3. w = Joined(Stages, b)
  BY <1>1 DEF Whole, Joined
<1>4. IsList(Stages) /\ Len(Stages) \in Nat /\ IsList(b) /\ Len(b) \in Nat
  BY <1>2, StagesIs, ListIs DEF RoutingInv, TableInv, StagesOK, StagesSound
<1>5. /\ IsList(guards) /\ n = Len(Stages) + Len(b) /\ Len(w) = n + 1
      /\ \A i \in 1..n : w[i] = guards[i]
  <2> HIDE DEF b, w, c, asking, told
  <2>1. FrontOK(Stages, b, Joined(Stages, b), Stages \o b)
    BY <1>4, JoinedIs
  <2> HIDE DEF guards
  <2>2. FrontOK(Stages, b, w, guards)
    BY <1>3, <2>1 DEF guards
  <2> QED BY <2>2 DEF FrontOK
<1>6. n \in Nat /\ DOMAIN guards = 1..n
  <2> HIDE DEF guards
  <2> QED BY <1>5, ListIs
<1>7. Len(w) - 1 = n /\ Len(Stages) <= n
  BY <1>4, <1>5, <1>6
<1>8. /\ c.user = ctx.user /\ c.cred = req.cred /\ c.host = req.host
      /\ c.own = Len(Stages) /\ c.value = ParamValue
  BY CallFields DEF CallOf
<1>9. \E i \in 1..n : w[i].is = "security"
  <2>1. \E i \in 1..(Len(Stages) - 1) : w[i].is = "security"
    BY WholeIs DEF WholeOK
  <2>2. \A i \in 1..(Len(Stages) - 1) : i \in 1..n
    BY <1>4, <1>6, <1>7
  <2> QED BY <2>1, <2>2
<1>10. Behind(c, guards, n)
  <2> HIDE DEF guards, n, w, c, b
  <2>1. Behind(c, w, n)
    BY <1>1, <1>7
  <2>2. \A i \in 1..n : guards[i] = w[i]
    BY <1>5
  <2> QED BY <1>4, <1>6, <1>8, <2>1, <2>2, BehindFront
<1>11. told = Told(c, guards, n)
  <2> HIDE DEF guards, n, w, b
  <2> QED BY <1>6, <1>8 DEF Told
<1>12. Identified(c, guards, n) /\ Permitted(c, guards, n) /\ Hosted(c, guards, n)
  BY <1>10 DEF Behind
<1>13. req.length # "over" /\ req.host # "bad"
  <2>1. \E i \in 1..n : guards[i].is = "security"
    BY <1>5, <1>9
  <2> HIDE DEF guards, n, w, b, c
  <2> QED BY <1>1, <1>8, <1>12, <2>1 DEF Hosted, Routed
<1>14. IF told = {} THEN ctx.user = Absent ELSE Proven(ctx.user, guards[Min(told)], req.cred)
  <2> HIDE DEF guards, n, w, b, c, told
  <2> QED BY <1>8, <1>11, <1>12 DEF Identified
<1>15. \A i \in asking : (\A j \in told : i < j) => guards[i].optional
  <2>1. \A i \in asking : i \in 1..n /\ guards[i].is = "auth"
    BY <1>6
  <2> HIDE DEF guards, n, w, b, c, told, asking
  <2> QED BY <1>11, <1>12, <2>1 DEF Identified
<1>16. \A i \in DOMAIN guards :
         guards[i].is = "require" =>
           Entitled(ctx.user, guards[i].need, IF i > Len(Stages) THEN ParamValue ELSE "")
  <2> HIDE DEF guards, n, w, b, c
  <2> QED BY <1>6, <1>8, <1>12 DEF Permitted
<1> QED BY <1>13, <1>14, <1>15, <1>16 DEF HandlerEntitled

(* At every stage of the chain: whoever the context names has been proved, *)
(* and allowed by every requirement, of the stages behind the request      *)
(* (auth.middleware, auth.Require, and Chain, which runs them in order).   *)
THEOREM Calling == ApplicationSpec => [](RoutingInv /\ CallInv)
<1>1. ApplicationInit => CallInv
  BY DEF ApplicationInit, PipelineInit, CallInv
<1>2. (RoutingInv /\ CallInv) /\ [ApplicationNext]_applicationVars => (RoutingInv /\ CallInv)'
  BY RoutingStep, CallStep
<1> QED BY <1>1, <1>2, RoutingInit, PTL DEF ApplicationSpec

(* A handler runs only for a caller whom the first credential that is      *)
(* there proves, or for nobody where every authenticator is optional, whom *)
(* every requirement of the application, of the groups and of the route    *)
(* entitles, and only from a host and with a length that are allowed:      *)
(* whatever the middleware, the policies, the routes and the request.  One *)
(* requirement entitles without holding: an Any in it, as under Not, drops *)
(* a failure for a later denial (ForgetsFailure, auth/policy.go:80).       *)
THEOREM HandlersEntitled == ApplicationSpec => []HandlerEntitled
BY Calling, EntitledHere, PTL

(***************************************************************************)
(* Writers.  What goes down through the layers of a response, one layer    *)
(* after the other.                                                        *)
(***************************************************************************)
CommitRun(d, r, i, code) ==
  /\ d[0] = On(r, code)
  /\ \A n \in 1..i : d[n] = IF d[n - 1].code = 0 THEN d[n - 1] ELSE HeaderAt(d[n - 1].r, i - n + 1, d[n - 1].code)
  /\ Commit(r, i, code) = d[i].r
LEMMA CommitUnfolds ==
  ASSUME NEW r, NEW i \in Nat, NEW code
  PROVE  \E d : CommitRun(d, r, i, code)
<1> DEFINE next_(w, n) == IF w.code = 0 THEN w ELSE HeaderAt(w.r, i - n + 1, w.code)
           value(f, n) == IF n = 0 THEN On(r, code) ELSE next_(f[n - 1], n)
           Fix(f, m) == f = [n \in 0..m |-> value(f, n)]
           G == {m \in Nat : \E f : Fix(f, m)}
           v == CHOOSE f : Fix(f, i)
<1> HIDE DEF next_
<1>1. ASSUME NEW m \in Nat, NEW f, Fix(f, m) PROVE \E g : Fix(g, m + 1)
  <2> DEFINE g == [n \in 0..(m + 1) |-> IF n = m + 1 THEN next_(f[m], m + 1) ELSE f[n]]
  <2>1. \A n \in 0..m : f[n] = value(f, n)
    BY <1>1
  <2>2. \A n \in 0..(m + 1) : g[n] = value(g, n)
    BY <2>1
  <2>3. g = [n \in 0..(m + 1) |-> g[n]]
    OBVIOUS
  <2>4. Fix(g, m + 1)
    <3> HIDE DEF g, value
    <3> QED BY <2>2, <2>3
  <2> HIDE DEF g, Fix
  <2> QED BY <2>4
<1>2. \E f : Fix(f, 0)
  <2> DEFINE f == [n \in 0..0 |-> On(r, code)]
  <2>1. Fix(f, 0)
    OBVIOUS
  <2> HIDE DEF f, Fix
  <2> QED BY <2>1
<1>3. Nat \subseteq G
  <2> HIDE DEF Fix
  <2>1. 0 \in G /\ \A m \in Nat : m \in G => m + 1 \in G
    BY <1>1, <1>2
  <2> HIDE DEF G
  <2> QED BY <2>1, Upward
<1>4. Fix(v, i)
  <2> HIDE DEF Fix
  <2>1. \E f : Fix(f, i)
    BY <1>3
  <2> QED BY <2>1
<1>5. Commit(r, i, code) = v[i].r
  BY DEF Commit, v, next_
<1> HIDE DEF v
<1>6. \A n \in 0..i : v[n] = value(v, n)
  <2> HIDE DEF value
  <2> QED BY <1>4
<1>7. v[0] = On(r, code) /\ \A n \in 1..i : v[n] = next_(v[n - 1], n)
  BY <1>6
<1>8. \A n \in 1..i : v[n] = IF v[n - 1].code = 0 THEN v[n - 1] ELSE HeaderAt(v[n - 1].r, i - n + 1, v[n - 1].code)
  BY <1>7 DEF next_
<1>9. CommitRun(v, r, i, code)
  BY <1>5, <1>7, <1>8 DEF CommitRun
<1> QED BY <1>9

PutRun(d, r, i, pieces) ==
  /\ d[0] = Flow(r, pieces)
  /\ \A n \in 1..i : d[n] = IF d[n - 1].pieces = <<>> THEN d[n - 1] ELSE WriteAt(d[n - 1].r, i - n + 1, d[n - 1].pieces)
  /\ Put(r, i, pieces) = d[i].r
LEMMA PutUnfolds ==
  ASSUME NEW r, NEW i \in Nat, NEW pieces
  PROVE  \E d : PutRun(d, r, i, pieces)
<1> DEFINE next_(w, n) == IF w.pieces = <<>> THEN w ELSE WriteAt(w.r, i - n + 1, w.pieces)
           value(f, n) == IF n = 0 THEN Flow(r, pieces) ELSE next_(f[n - 1], n)
           Fix(f, m) == f = [n \in 0..m |-> value(f, n)]
           G == {m \in Nat : \E f : Fix(f, m)}
           v == CHOOSE f : Fix(f, i)
<1> HIDE DEF next_
<1>1. ASSUME NEW m \in Nat, NEW f, Fix(f, m) PROVE \E g : Fix(g, m + 1)
  <2> DEFINE g == [n \in 0..(m + 1) |-> IF n = m + 1 THEN next_(f[m], m + 1) ELSE f[n]]
  <2>1. \A n \in 0..m : f[n] = value(f, n)
    BY <1>1
  <2>2. \A n \in 0..(m + 1) : g[n] = value(g, n)
    BY <2>1
  <2>3. g = [n \in 0..(m + 1) |-> g[n]]
    OBVIOUS
  <2>4. Fix(g, m + 1)
    <3> HIDE DEF g, value
    <3> QED BY <2>2, <2>3
  <2> HIDE DEF g, Fix
  <2> QED BY <2>4
<1>2. \E f : Fix(f, 0)
  <2> DEFINE f == [n \in 0..0 |-> Flow(r, pieces)]
  <2>1. Fix(f, 0)
    OBVIOUS
  <2> HIDE DEF f, Fix
  <2> QED BY <2>1
<1>3. Nat \subseteq G
  <2> HIDE DEF Fix
  <2>1. 0 \in G /\ \A m \in Nat : m \in G => m + 1 \in G
    BY <1>1, <1>2
  <2> HIDE DEF G
  <2> QED BY <2>1, Upward
<1>4. Fix(v, i)
  <2> HIDE DEF Fix
  <2>1. \E f : Fix(f, i)
    BY <1>3
  <2> QED BY <2>1
<1>5. Put(r, i, pieces) = v[i].r
  BY DEF Put, v, next_
<1> HIDE DEF v
<1>6. \A n \in 0..i : v[n] = value(v, n)
  <2> HIDE DEF value
  <2> QED BY <1>4
<1>7. v[0] = Flow(r, pieces) /\ \A n \in 1..i : v[n] = next_(v[n - 1], n)
  BY <1>6
<1>8. \A n \in 1..i : v[n] = IF v[n - 1].pieces = <<>> THEN v[n - 1] ELSE WriteAt(v[n - 1].r, i - n + 1, v[n - 1].pieces)
  BY <1>7 DEF next_
<1>9. PutRun(v, r, i, pieces)
  BY <1>5, <1>7, <1>8 DEF PutRun
<1> QED BY <1>9

FlushRun(d, r, i) ==
  /\ d[0] = r
  /\ \A n \in 1..i : d[n] = Forced(Commit(d[n - 1], i - n + 1, 200), i - n + 1)
  /\ FlushAt(r, i) = d[i]
LEMMA FlushAtUnfolds ==
  ASSUME NEW r, NEW i \in Nat
  PROVE  \E d : FlushRun(d, r, i)
<1> DEFINE next_(w, n) == Forced(Commit(w, i - n + 1, 200), i - n + 1)
           value(f, n) == IF n = 0 THEN r ELSE next_(f[n - 1], n)
           Fix(f, m) == f = [n \in 0..m |-> value(f, n)]
           G == {m \in Nat : \E f : Fix(f, m)}
           v == CHOOSE f : Fix(f, i)
<1> HIDE DEF next_
<1>1. ASSUME NEW m \in Nat, NEW f, Fix(f, m) PROVE \E g : Fix(g, m + 1)
  <2> DEFINE g == [n \in 0..(m + 1) |-> IF n = m + 1 THEN next_(f[m], m + 1) ELSE f[n]]
  <2>1. \A n \in 0..m : f[n] = value(f, n)
    BY <1>1
  <2>2. \A n \in 0..(m + 1) : g[n] = value(g, n)
    BY <2>1
  <2>3. g = [n \in 0..(m + 1) |-> g[n]]
    OBVIOUS
  <2>4. Fix(g, m + 1)
    <3> HIDE DEF g, value
    <3> QED BY <2>2, <2>3
  <2> HIDE DEF g, Fix
  <2> QED BY <2>4
<1>2. \E f : Fix(f, 0)
  <2> DEFINE f == [n \in 0..0 |-> r]
  <2>1. Fix(f, 0)
    OBVIOUS
  <2> HIDE DEF f, Fix
  <2> QED BY <2>1
<1>3. Nat \subseteq G
  <2> HIDE DEF Fix
  <2>1. 0 \in G /\ \A m \in Nat : m \in G => m + 1 \in G
    BY <1>1, <1>2
  <2> HIDE DEF G
  <2> QED BY <2>1, Upward
<1>4. Fix(v, i)
  <2> HIDE DEF Fix
  <2>1. \E f : Fix(f, i)
    BY <1>3
  <2> QED BY <2>1
<1>5. FlushAt(r, i) = v[i]
  BY DEF FlushAt, v, next_
<1> HIDE DEF v
<1>6. \A n \in 0..i : v[n] = value(v, n)
  <2> HIDE DEF value
  <2> QED BY <1>4
<1>7. v[0] = r /\ \A n \in 1..i : v[n] = next_(v[n - 1], n)
  BY <1>6
<1>9. FlushRun(v, r, i)
  BY <1>5, <1>7 DEF FlushRun, next_
<1> QED BY <1>9

(* A step down, then those from the next layer on.                         *)
LEMMA CommitFrom ==
  ASSUME NEW r, NEW code
  PROVE  /\ Commit(r, 0, code) = r
         /\ \A i \in Nat : code = 0 => Commit(r, i, code) = r
         /\ \A i \in Nat \ {0} : code # 0 =>
              Commit(r, i, code) = Commit(HeaderAt(r, i, code).r, i - 1, HeaderAt(r, i, code).code)
<1>1. Commit(r, 0, code) = r
  <2>1. PICK d : CommitRun(d, r, 0, code)
    BY CommitUnfolds
  <2> QED BY <2>1 DEF CommitRun, On
<1>2. ASSUME NEW i \in Nat, code = 0 PROVE Commit(r, i, code) = r
  <2>1a. PICK d : CommitRun(d, r, i, code)
    BY CommitUnfolds
  <2>1. /\ d[0] = On(r, code) /\ Commit(r, i, code) = d[i].r
        /\ \A n \in 1..i : d[n - 1].code = 0 => d[n] = d[n - 1]
    BY <2>1a DEF CommitRun
  <2> DEFINE G == {n \in Nat : n <= i => d[n] = On(r, code)}
  <2>2. 0 \in G /\ \A n \in Nat : n \in G => n + 1 \in G
    <3>1. ASSUME NEW n \in Nat, n \in G, n + 1 <= i PROVE d[n + 1] = On(r, code)
      <4>1. d[n] = On(r, code) /\ n + 1 \in 1..i /\ (n + 1) - 1 = n
        BY <3>1
      <4>2. d[n].code = 0
        BY <1>2, <4>1 DEF On
      <4> QED BY <2>1, <4>1, <4>2
    <3>2. 0 \in G
      BY <2>1
    <3> QED BY <3>1, <3>2
  <2>3. i \in G
    <3> HIDE DEF G
    <3> QED BY <2>2, Upward
  <2> QED BY <2>1, <2>3 DEF On
<1>3. ASSUME NEW i \in Nat \ {0}, code # 0
      PROVE  Commit(r, i, code) = Commit(HeaderAt(r, i, code).r, i - 1, HeaderAt(r, i, code).code)
  <2> DEFINE h == HeaderAt(r, i, code)
             next_(w, n) == IF w.code = 0 THEN w ELSE HeaderAt(w.r, i - n + 1, w.code)
  <2>0. i - 1 \in Nat
    OBVIOUS
  <2>1a. PICK d : CommitRun(d, r, i, code)
    BY CommitUnfolds
  <2>1. /\ d[0] = On(r, code) /\ Commit(r, i, code) = d[i].r
        /\ \A n \in 1..i : d[n] = next_(d[n - 1], n)
    BY <2>1a DEF CommitRun
  <2>2a. PICK e : CommitRun(e, h.r, i - 1, h.code)
    BY <2>0, CommitUnfolds
  <2>2. /\ e[0] = On(h.r, h.code) /\ Commit(h.r, i - 1, h.code) = e[i - 1].r
        /\ \A n \in 1..(i - 1) : e[n] = next_(e[n - 1], n + 1)
    <3> HIDE DEF h
    <3>1. \A n \in 1..(i - 1) : (i - 1) - n + 1 = i - (n + 1) + 1
      OBVIOUS
    <3>2. /\ e[0] = On(h.r, h.code) /\ Commit(h.r, i - 1, h.code) = e[i - 1].r
          /\ \A n \in 1..(i - 1) : e[n] = IF e[n - 1].code = 0 THEN e[n - 1]
                                            ELSE HeaderAt(e[n - 1].r, (i - 1) - n + 1, e[n - 1].code)
      BY <2>2a DEF CommitRun
    <3> QED BY <3>1, <3>2
  <2>3. d[1] = e[0]
    <3>1. On(h.r, h.code) = h
      BY DEF h, HeaderAt, UnderHeader, On
    <3>2. next_(On(r, code), 1) = h
      BY <1>3 DEF On
    <3> HIDE DEF next_, h
    <3> QED BY <2>1, <2>2, <3>1, <3>2
  <2> HIDE DEF next_, h
  <2> DEFINE G == {n \in Nat : n <= i - 1 => d[n + 1] = e[n]}
  <2>4. 0 \in G /\ \A n \in Nat : n \in G => n + 1 \in G
    <3>1. ASSUME NEW n \in Nat, n \in G, n + 1 <= i - 1 PROVE d[(n + 1) + 1] = e[n + 1]
      <4>1. d[n + 1] = e[n] /\ n + 1 \in 1..(i - 1) /\ (n + 1) - 1 = n
        BY <3>1
      <4>2. (n + 1) + 1 \in 1..i /\ ((n + 1) + 1) - 1 = n + 1
        BY <4>1
      <4> QED BY <2>1, <2>2, <4>1, <4>2
    <3>2. d[0 + 1] = e[0]
      BY <2>3
    <3> QED BY <3>1, <3>2
  <2>5. i - 1 \in G
    <3> HIDE DEF G
    <3> QED BY <2>0, <2>4, Upward
  <2>6. d[i] = e[i - 1]
    <3>1. (i - 1) + 1 = i
      OBVIOUS
    <3> QED BY <2>0, <2>5, <3>1
  <2>7. Commit(r, i, code) = Commit(h.r, i - 1, h.code)
    BY <2>1, <2>2, <2>6
  <2> QED BY <2>7 DEF h
<1> QED BY <1>1, <1>2, <1>3

LEMMA PutFrom ==
  ASSUME NEW r, NEW pieces
  PROVE  /\ Put(r, 0, pieces) = r
         /\ \A i \in Nat : pieces = <<>> => Put(r, i, pieces) = r
         /\ \A i \in Nat \ {0} : pieces # <<>> =>
              Put(r, i, pieces) = Put(WriteAt(r, i, pieces).r, i - 1, WriteAt(r, i, pieces).pieces)
<1>1. Put(r, 0, pieces) = r
  <2>1. PICK d : PutRun(d, r, 0, pieces)
    BY PutUnfolds
  <2> QED BY <2>1 DEF PutRun, Flow
<1>2. ASSUME NEW i \in Nat, pieces = <<>> PROVE Put(r, i, pieces) = r
  <2>1a. PICK d : PutRun(d, r, i, pieces)
    BY PutUnfolds
  <2>1. /\ d[0] = Flow(r, pieces) /\ Put(r, i, pieces) = d[i].r
        /\ \A n \in 1..i : d[n - 1].pieces = <<>> => d[n] = d[n - 1]
    BY <2>1a DEF PutRun
  <2> DEFINE G == {n \in Nat : n <= i => d[n] = Flow(r, pieces)}
  <2>2. 0 \in G /\ \A n \in Nat : n \in G => n + 1 \in G
    <3>1. ASSUME NEW n \in Nat, n \in G, n + 1 <= i PROVE d[n + 1] = Flow(r, pieces)
      <4>1. d[n] = Flow(r, pieces) /\ n + 1 \in 1..i /\ (n + 1) - 1 = n
        BY <3>1
      <4>2. d[n].pieces = <<>>
        BY <1>2, <4>1 DEF Flow
      <4> QED BY <2>1, <4>1, <4>2
    <3> QED BY <2>1, <3>1
  <2>3. i \in G
    <3> HIDE DEF G
    <3> QED BY <2>2, Upward
  <2> QED BY <2>1, <2>3 DEF Flow
<1>3. ASSUME NEW i \in Nat \ {0}, pieces # <<>>
      PROVE  Put(r, i, pieces) = Put(WriteAt(r, i, pieces).r, i - 1, WriteAt(r, i, pieces).pieces)
  <2> DEFINE h == WriteAt(r, i, pieces)
             next_(w, n) == IF w.pieces = <<>> THEN w ELSE WriteAt(w.r, i - n + 1, w.pieces)
  <2>0. i - 1 \in Nat
    OBVIOUS
  <2>1a. PICK d : PutRun(d, r, i, pieces)
    BY PutUnfolds
  <2>1. /\ d[0] = Flow(r, pieces) /\ Put(r, i, pieces) = d[i].r
        /\ \A n \in 1..i : d[n] = next_(d[n - 1], n)
    BY <2>1a DEF PutRun
  <2>2a. PICK e : PutRun(e, h.r, i - 1, h.pieces)
    BY <2>0, PutUnfolds
  <2>2. /\ e[0] = Flow(h.r, h.pieces) /\ Put(h.r, i - 1, h.pieces) = e[i - 1].r
        /\ \A n \in 1..(i - 1) : e[n] = next_(e[n - 1], n + 1)
    <3> HIDE DEF h
    <3>1. \A n \in 1..(i - 1) : (i - 1) - n + 1 = i - (n + 1) + 1
      OBVIOUS
    <3>2. /\ e[0] = Flow(h.r, h.pieces) /\ Put(h.r, i - 1, h.pieces) = e[i - 1].r
          /\ \A n \in 1..(i - 1) : e[n] = IF e[n - 1].pieces = <<>> THEN e[n - 1]
                                            ELSE WriteAt(e[n - 1].r, (i - 1) - n + 1, e[n - 1].pieces)
      BY <2>2a DEF PutRun
    <3> QED BY <3>1, <3>2
  <2>3. d[1] = e[0]
    <3>1. Flow(h.r, h.pieces) = h
      BY DEF h, WriteAt, UnderWrite, Flow, Decide, Release
    <3>2. next_(Flow(r, pieces), 1) = h
      BY <1>3 DEF Flow
    <3> HIDE DEF next_, h
    <3> QED BY <2>1, <2>2, <3>1, <3>2
  <2> HIDE DEF next_, h
  <2> DEFINE G == {n \in Nat : n <= i - 1 => d[n + 1] = e[n]}
  <2>4. 0 \in G /\ \A n \in Nat : n \in G => n + 1 \in G
    <3>1. ASSUME NEW n \in Nat, n \in G, n + 1 <= i - 1 PROVE d[(n + 1) + 1] = e[n + 1]
      <4>1. d[n + 1] = e[n] /\ n + 1 \in 1..(i - 1) /\ (n + 1) - 1 = n
        BY <3>1
      <4>2. (n + 1) + 1 \in 1..i /\ ((n + 1) + 1) - 1 = n + 1
        BY <4>1
      <4> QED BY <2>1, <2>2, <4>1, <4>2
    <3>2. d[0 + 1] = e[0]
      BY <2>3
    <3> QED BY <3>1, <3>2
  <2>5. i - 1 \in G
    <3> HIDE DEF G
    <3> QED BY <2>0, <2>4, Upward
  <2>6. d[i] = e[i - 1]
    <3>1. (i - 1) + 1 = i
      OBVIOUS
    <3> QED BY <2>0, <2>5, <3>1
  <2>7. Put(r, i, pieces) = Put(h.r, i - 1, h.pieces)
    BY <2>1, <2>2, <2>6
  <2> QED BY <2>7 DEF h
<1> QED BY <1>1, <1>2, <1>3

LEMMA FlushFrom ==
  ASSUME NEW r
  PROVE  /\ FlushAt(r, 0) = r
         /\ \A i \in Nat \ {0} : FlushAt(r, i) = FlushAt(Forced(Commit(r, i, 200), i), i - 1)
<1>1. FlushAt(r, 0) = r
  <2>1. PICK d : FlushRun(d, r, 0)
    BY FlushAtUnfolds
  <2> QED BY <2>1 DEF FlushRun
<1>2. ASSUME NEW i \in Nat \ {0}
      PROVE  FlushAt(r, i) = FlushAt(Forced(Commit(r, i, 200), i), i - 1)
  <2> DEFINE h == Forced(Commit(r, i, 200), i)
             next_(w, n) == Forced(Commit(w, i - n + 1, 200), i - n + 1)
  <2>0. i - 1 \in Nat
    OBVIOUS
  <2>1a. PICK d : FlushRun(d, r, i)
    BY FlushAtUnfolds
  <2>1. /\ d[0] = r /\ FlushAt(r, i) = d[i]
        /\ \A n \in 1..i : d[n] = next_(d[n - 1], n)
    BY <2>1a DEF FlushRun
  <2>2a. PICK e : FlushRun(e, h, i - 1)
    BY <2>0, FlushAtUnfolds
  <2>2. /\ e[0] = h /\ FlushAt(h, i - 1) = e[i - 1]
        /\ \A n \in 1..(i - 1) : e[n] = next_(e[n - 1], n + 1)
    <3> HIDE DEF h
    <3>1. \A n \in 1..(i - 1) : (i - 1) - n + 1 = i - (n + 1) + 1
      OBVIOUS
    <3>2. /\ e[0] = h /\ FlushAt(h, i - 1) = e[i - 1]
          /\ \A n \in 1..(i - 1) :
            e[n] = Forced(Commit(e[n - 1], (i - 1) - n + 1, 200), (i - 1) - n + 1)
      BY <2>2a DEF FlushRun
    <3> QED BY <3>1, <3>2
  <2>3. d[1] = e[0]
    <3>1. next_(r, 1) = h
      <4>1. i - 1 + 1 = i
        OBVIOUS
      <4> QED BY <4>1
    <3>2. 1 \in 1..i /\ 1 - 1 = 0
      OBVIOUS
    <3> HIDE DEF next_, h
    <3> QED BY <2>1, <2>2, <3>1, <3>2
  <2> HIDE DEF next_, h
  <2> DEFINE G == {n \in Nat : n <= i - 1 => d[n + 1] = e[n]}
  <2>4. 0 \in G /\ \A n \in Nat : n \in G => n + 1 \in G
    <3>1. ASSUME NEW n \in Nat, n \in G, n + 1 <= i - 1 PROVE d[(n + 1) + 1] = e[n + 1]
      <4>1. d[n + 1] = e[n] /\ n + 1 \in 1..(i - 1) /\ (n + 1) - 1 = n
        BY <3>1
      <4>2. (n + 1) + 1 \in 1..i /\ ((n + 1) + 1) - 1 = n + 1
        BY <4>1
      <4> QED BY <2>1, <2>2, <4>1, <4>2
    <3>2. d[0 + 1] = e[0]
      BY <2>3
    <3> QED BY <3>1, <3>2
  <2>5. i - 1 \in G
    <3> HIDE DEF G
    <3> QED BY <2>0, <2>4, Upward
  <2>6. d[i] = e[i - 1]
    <3>1. (i - 1) + 1 = i
      OBVIOUS
    <3> QED BY <2>0, <2>5, <3>1
  <2>7. FlushAt(r, i) = FlushAt(h, i - 1)
    BY <2>1, <2>2, <2>6
  <2> QED BY <2>7 DEF h
<1> QED BY <1>1, <1>2

(***************************************************************************)
(* The form of a response.                                                 *)
(***************************************************************************)
(* (Who writes: handlers, static files, health probes, and rendered errors.) *)
Authors == {"handler", "file", "health", "error"}
PieceType == [of : Authors, big : BOOLEAN, zip : BOOLEAN]
StatusType == {0} \cup 200..599
LayerOK(l) ==
  l \in [kind : {"own", "gzip", "record", "std"}, status : StatusType, before : {l.before},
         code : StatusType, buf : Seq(PieceType), decided : BOOLEAN, zip : BOOLEAN,
         kept : {l.kept}, overflow : BOOLEAN]
LayersOK(ls) ==
  /\ Len(ls) \in Nat /\ Len(ls) >= 1 /\ DOMAIN ls = 1..Len(ls) /\ IsList(ls)
  /\ \A i \in 1..Len(ls) : LayerOK(ls[i]) /\ (ls[i].kind = "own") = (i = 1)
WireOK(w) == w \in [status : StatusType, header : {w.header}, body : Seq(PieceType)]
Response(layers, header, wire, head) ==
  [layers |-> layers, header |-> header, wire |-> wire, head |-> head]
ResponseOK(r) ==
  /\ r = Response(r.layers, r.header, r.wire, r.head)
  /\ LayersOK(r.layers) /\ WireOK(r.wire) /\ r.head \in BOOLEAN
SameForm(r, s) ==
  /\ s.head = r.head /\ Len(s.layers) = Len(r.layers)
  /\ \A i \in 1..Len(r.layers) : s.layers[i].kind = r.layers[i].kind

(* A response with another layer i, header or wire.                        *)
WithLayer(r, i, l, header, wire) == Response([r.layers EXCEPT ![i] = l], header, wire, r.head)
AtIs(r, i, l, header, wire, s) ==
  /\ ResponseOK(s) /\ SameForm(r, s)
  /\ s.header = header /\ s.wire = wire /\ s.head = r.head
  /\ Len(s.layers) = Len(r.layers)
  /\ \A k \in 1..Len(r.layers) : s.layers[k] = IF k = i THEN l ELSE r.layers[k]

LEMMA AtOK ==
  ASSUME NEW r, ResponseOK(r), NEW i \in 1..Len(r.layers),
         NEW l, LayerOK(l), l.kind = r.layers[i].kind, NEW header, NEW wire, WireOK(wire)
  PROVE  AtIs(r, i, l, header, wire, WithLayer(r, i, l, header, wire))
<1> DEFINE ls == r.layers
           ms == [ls EXCEPT ![i] = l]
           n == Len(ls)
<1>1. n \in Nat /\ n >= 1 /\ DOMAIN ls = 1..n /\ IsList(ls)
      /\ \A k \in 1..n : LayerOK(ls[k]) /\ (ls[k].kind = "own") = (k = 1)
  BY DEF ResponseOK, LayersOK
<1>2. ls = [k \in 1..n |-> ls[k]]
  <2>1. IsList(ls)
    BY <1>1
  <2> HIDE DEF ls
  <2>2. ls = [k \in 1..Len(ls) |-> ls[k]]
    BY ONLY <2>1 DEF IsList
  <2> QED BY <2>2
<1> HIDE DEF n
<1>3. /\ ms = [k \in 1..n |-> ms[k]]
      /\ \A k \in 1..n : ms[k] = IF k = i THEN l ELSE ls[k]
  BY <1>1, <1>2 DEF n
<1> HIDE DEF ms
<1>4. IsList(ms) /\ Len(ms) = n /\ DOMAIN ms = 1..n
  BY <1>1, <1>3, ListOfLength
<1>5. i \in 1..n
  BY DEF n
<1>6. LayersOK(ms)
  BY <1>1, <1>3, <1>4, <1>5 DEF LayersOK
<1>7. WithLayer(r, i, l, header, wire) = Response(ms, header, wire, r.head)
  BY DEF WithLayer, ms
<1>8. ResponseOK(Response(ms, header, wire, r.head))
  BY <1>6 DEF ResponseOK, Response
<1>9. SameForm(r, Response(ms, header, wire, r.head))
  BY <1>1, <1>3, <1>4, <1>5 DEF SameForm, Response, n
<1> DEFINE s == Response(ms, header, wire, r.head)
<1>10. s.header = header /\ s.wire = wire /\ s.head = r.head /\ s.layers = ms
  BY DEF Response
<1> HIDE DEF s
<1>11. Len(s.layers) = Len(r.layers) /\ \A k \in 1..Len(r.layers) : s.layers[k] = IF k = i THEN l ELSE r.layers[k]
  BY <1>3, <1>4, <1>10 DEF n
<1>12. AtIs(r, i, l, header, wire, s)
  BY <1>8, <1>9, <1>10, <1>11 DEF AtIs, s
<1> QED BY <1>7, <1>12 DEF s

LEMMA LayerIn ==
  ASSUME NEW r, ResponseOK(r), NEW i \in 1..Len(r.layers)
  PROVE  LayerOK(r.layers[i]) /\ WireOK(r.wire)
BY DEF ResponseOK, LayersOK

LEMMA SameFormTransitive ==
  ASSUME NEW r, NEW s, NEW t, SameForm(r, s), SameForm(s, t)
  PROVE  SameForm(r, t)
BY DEF SameForm

LEMMA SameFormItself == \A r : SameForm(r, r)
BY DEF SameForm

(* What a step of a layer makes of it.                                     *)
Upped(l, c) == [l EXCEPT !.before = <<>>, !.status = c]
Headed(l, h, c) ==
  CASE l.kind = "gzip" -> [Upped(l, c) EXCEPT !.code = IF l.code = 0 THEN c ELSE @]
    [] l.kind = "record" -> [Upped(l, c) EXCEPT !.code = c, !.kept = {p \in h : p[1] \in Replayed},
                                                !.overflow = HasHeader(h, "Set-Cookie")]
    [] OTHER -> Upped(l, c)
HeadedWire(r, i, h, c) ==
  IF r.layers[i].kind = "own" /\ r.wire.status = 0 THEN [status |-> c, header |-> h, body |-> <<>>]
  ELSE r.wire

(* One field of layer i, or of the response, at a time.                    *)
LEMMA LayerTwice ==
  ASSUME NEW L, NEW i \in DOMAIN L, NEW l
  PROVE  [L EXCEPT ![i] = l][i] = l /\ \A m : [[L EXCEPT ![i] = l] EXCEPT ![i] = m] = [L EXCEPT ![i] = m]
OBVIOUS

(* (Named, so that facts about them are found.)                            *)
SetHeaderTo(s, x) == [s EXCEPT !.header = x]
SetWireTo(s, x) == [s EXCEPT !.wire = x]
WithStatus(l, x) == [l EXCEPT !.status = x]
SetStatus(s, i, x) == [s EXCEPT !.layers[i].status = x]
WithBefore(l, x) == [l EXCEPT !.before = x]
SetBefore(s, i, x) == [s EXCEPT !.layers[i].before = x]
WithCode(l, x) == [l EXCEPT !.code = x]
SetCode(s, i, x) == [s EXCEPT !.layers[i].code = x]
WithBuf(l, x) == [l EXCEPT !.buf = x]
SetBuf(s, i, x) == [s EXCEPT !.layers[i].buf = x]
WithDecided(l, x) == [l EXCEPT !.decided = x]
SetDecided(s, i, x) == [s EXCEPT !.layers[i].decided = x]
WithZip(l, x) == [l EXCEPT !.zip = x]
SetZip(s, i, x) == [s EXCEPT !.layers[i].zip = x]
WithKept(l, x) == [l EXCEPT !.kept = x]
SetKept(s, i, x) == [s EXCEPT !.layers[i].kept = x]
WithOverflow(l, x) == [l EXCEPT !.overflow = x]
SetOverflow(s, i, x) == [s EXCEPT !.layers[i].overflow = x]

LEMMA AtHeader ==
  ASSUME NEW r, NEW i, NEW l, NEW h, NEW w, NEW x
  PROVE  SetHeaderTo(WithLayer(r, i, l, h, w), x) = WithLayer(r, i, l, x, w)
BY DEF WithLayer, Response, SetHeaderTo

LEMMA AtWire ==
  ASSUME NEW r, NEW i, NEW l, NEW h, NEW w, NEW x
  PROVE  SetWireTo(WithLayer(r, i, l, h, w), x) = WithLayer(r, i, l, h, x)
BY DEF WithLayer, Response, SetWireTo

LEMMA AtStatus ==
  ASSUME NEW r, NEW i \in DOMAIN r.layers, NEW l, NEW h, NEW w, NEW x
  PROVE  SetStatus(WithLayer(r, i, l, h, w), i, x) = WithLayer(r, i, WithStatus(l, x), h, w)
<1> DEFINE L == [r.layers EXCEPT ![i] = l]
<1>1. SetStatus(Response(L, h, w, r.head), i, x)
        = Response([L EXCEPT ![i] = WithStatus(L[i], x)], h, w, r.head)
  <2> HIDE DEF L
  <2> QED BY DEF Response, SetStatus, WithStatus
<1>2. L[i] = l /\ \A m : [L EXCEPT ![i] = m] = [r.layers EXCEPT ![i] = m]
  BY LayerTwice
<1> QED BY <1>1, <1>2 DEF WithLayer

LEMMA AtBefore ==
  ASSUME NEW r, NEW i \in DOMAIN r.layers, NEW l, NEW h, NEW w, NEW x
  PROVE  SetBefore(WithLayer(r, i, l, h, w), i, x) = WithLayer(r, i, WithBefore(l, x), h, w)
<1> DEFINE L == [r.layers EXCEPT ![i] = l]
<1>1. SetBefore(Response(L, h, w, r.head), i, x)
        = Response([L EXCEPT ![i] = WithBefore(L[i], x)], h, w, r.head)
  <2> HIDE DEF L
  <2> QED BY DEF Response, SetBefore, WithBefore
<1>2. L[i] = l /\ \A m : [L EXCEPT ![i] = m] = [r.layers EXCEPT ![i] = m]
  BY LayerTwice
<1> QED BY <1>1, <1>2 DEF WithLayer

LEMMA AtCode ==
  ASSUME NEW r, NEW i \in DOMAIN r.layers, NEW l, NEW h, NEW w, NEW x
  PROVE  SetCode(WithLayer(r, i, l, h, w), i, x) = WithLayer(r, i, WithCode(l, x), h, w)
<1> DEFINE L == [r.layers EXCEPT ![i] = l]
<1>1. SetCode(Response(L, h, w, r.head), i, x)
        = Response([L EXCEPT ![i] = WithCode(L[i], x)], h, w, r.head)
  <2> HIDE DEF L
  <2> QED BY DEF Response, SetCode, WithCode
<1>2. L[i] = l /\ \A m : [L EXCEPT ![i] = m] = [r.layers EXCEPT ![i] = m]
  BY LayerTwice
<1> QED BY <1>1, <1>2 DEF WithLayer

LEMMA AtBuf ==
  ASSUME NEW r, NEW i \in DOMAIN r.layers, NEW l, NEW h, NEW w, NEW x
  PROVE  SetBuf(WithLayer(r, i, l, h, w), i, x) = WithLayer(r, i, WithBuf(l, x), h, w)
<1> DEFINE L == [r.layers EXCEPT ![i] = l]
<1>1. SetBuf(Response(L, h, w, r.head), i, x)
        = Response([L EXCEPT ![i] = WithBuf(L[i], x)], h, w, r.head)
  <2> HIDE DEF L
  <2> QED BY DEF Response, SetBuf, WithBuf
<1>2. L[i] = l /\ \A m : [L EXCEPT ![i] = m] = [r.layers EXCEPT ![i] = m]
  BY LayerTwice
<1> QED BY <1>1, <1>2 DEF WithLayer

LEMMA AtDecided ==
  ASSUME NEW r, NEW i \in DOMAIN r.layers, NEW l, NEW h, NEW w, NEW x
  PROVE  SetDecided(WithLayer(r, i, l, h, w), i, x) = WithLayer(r, i, WithDecided(l, x), h, w)
<1> DEFINE L == [r.layers EXCEPT ![i] = l]
<1>1. SetDecided(Response(L, h, w, r.head), i, x)
        = Response([L EXCEPT ![i] = WithDecided(L[i], x)], h, w, r.head)
  <2> HIDE DEF L
  <2> QED BY DEF Response, SetDecided, WithDecided
<1>2. L[i] = l /\ \A m : [L EXCEPT ![i] = m] = [r.layers EXCEPT ![i] = m]
  BY LayerTwice
<1> QED BY <1>1, <1>2 DEF WithLayer

LEMMA AtZip ==
  ASSUME NEW r, NEW i \in DOMAIN r.layers, NEW l, NEW h, NEW w, NEW x
  PROVE  SetZip(WithLayer(r, i, l, h, w), i, x) = WithLayer(r, i, WithZip(l, x), h, w)
<1> DEFINE L == [r.layers EXCEPT ![i] = l]
<1>1. SetZip(Response(L, h, w, r.head), i, x)
        = Response([L EXCEPT ![i] = WithZip(L[i], x)], h, w, r.head)
  <2> HIDE DEF L
  <2> QED BY DEF Response, SetZip, WithZip
<1>2. L[i] = l /\ \A m : [L EXCEPT ![i] = m] = [r.layers EXCEPT ![i] = m]
  BY LayerTwice
<1> QED BY <1>1, <1>2 DEF WithLayer

LEMMA AtKept ==
  ASSUME NEW r, NEW i \in DOMAIN r.layers, NEW l, NEW h, NEW w, NEW x
  PROVE  SetKept(WithLayer(r, i, l, h, w), i, x) = WithLayer(r, i, WithKept(l, x), h, w)
<1> DEFINE L == [r.layers EXCEPT ![i] = l]
<1>1. SetKept(Response(L, h, w, r.head), i, x)
        = Response([L EXCEPT ![i] = WithKept(L[i], x)], h, w, r.head)
  <2> HIDE DEF L
  <2> QED BY DEF Response, SetKept, WithKept
<1>2. L[i] = l /\ \A m : [L EXCEPT ![i] = m] = [r.layers EXCEPT ![i] = m]
  BY LayerTwice
<1> QED BY <1>1, <1>2 DEF WithLayer

LEMMA AtOverflow ==
  ASSUME NEW r, NEW i \in DOMAIN r.layers, NEW l, NEW h, NEW w, NEW x
  PROVE  SetOverflow(WithLayer(r, i, l, h, w), i, x) = WithLayer(r, i, WithOverflow(l, x), h, w)
<1> DEFINE L == [r.layers EXCEPT ![i] = l]
<1>1. SetOverflow(Response(L, h, w, r.head), i, x)
        = Response([L EXCEPT ![i] = WithOverflow(L[i], x)], h, w, r.head)
  <2> HIDE DEF L
  <2> QED BY DEF Response, SetOverflow, WithOverflow
<1>2. L[i] = l /\ \A m : [L EXCEPT ![i] = m] = [r.layers EXCEPT ![i] = m]
  BY LayerTwice
<1> QED BY <1>1, <1>2 DEF WithLayer

LEMMA AtHere ==
  ASSUME NEW r, ResponseOK(r), NEW i \in 1..Len(r.layers)
  PROVE  i \in DOMAIN r.layers /\ r = WithLayer(r, i, r.layers[i], r.header, r.wire)
<1> DEFINE L == r.layers
<1>1. IsList(L) /\ DOMAIN L = 1..Len(L)
  BY DEF ResponseOK, LayersOK
<1>2. r = Response(L, r.header, r.wire, r.head)
  BY DEF ResponseOK
<1>3. i \in DOMAIN L
  BY <1>1
<1> HIDE DEF L
<1>4. L = [k \in 1..Len(L) |-> L[k]]
  BY ONLY <1>1 DEF IsList
<1>5. [L EXCEPT ![i] = L[i]] = L
  BY <1>4
<1> QED BY <1>2, <1>3, <1>5 DEF WithLayer, L

LEMMA UpdateFirst ==
  ASSUME NEW r, ResponseOK(r), NEW i \in 1..Len(r.layers), NEW c, NEW h
  PROVE  [r EXCEPT !.header = h, !.layers[i].before = <<>>, !.layers[i].status = c]
           = WithLayer(r, i, Upped(r.layers[i], c), h, r.wire)
<1> DEFINE l == r.layers[i]
           a == WithLayer(r, i, l, r.header, r.wire)
<1>1. i \in DOMAIN r.layers /\ r = a
  BY AtHere
<1> HIDE DEF l
<1>2. SetHeaderTo(a, h) = WithLayer(r, i, l, h, r.wire)
  BY AtHeader
<1>3. SetBefore(SetHeaderTo(a, h), i, <<>>) = WithLayer(r, i, WithBefore(l, <<>>), h, r.wire)
  BY <1>1, <1>2, AtBefore
<1>4. SetStatus(SetBefore(SetHeaderTo(a, h), i, <<>>), i, c)
        = WithLayer(r, i, WithStatus(WithBefore(l, <<>>), c), h, r.wire)
  BY <1>1, <1>3, AtStatus
<1> HIDE DEF a
<1>5. [a EXCEPT !.header = h, !.layers[i].before = <<>>, !.layers[i].status = c]
        = WithLayer(r, i, Upped(l, c), h, r.wire)
  BY <1>4 DEF Upped, SetHeaderTo, SetBefore, SetStatus, WithBefore, WithStatus
<1> QED BY <1>1, <1>5 DEF l

LEMMA HeadedOK ==
  ASSUME NEW l, LayerOK(l), NEW h, NEW c \in StatusType
  PROVE  LayerOK(Headed(l, h, c)) /\ Headed(l, h, c).kind = l.kind
<1> DEFINE u == Upped(l, c)
           K == {p \in h : p[1] \in Replayed}
           o == HasHeader(h, "Set-Cookie")
<1>1. LayerOK(u) /\ u.kind = l.kind /\ o \in BOOLEAN
  BY DEF LayerOK, Upped, HasHeader
<1> HIDE DEF u, K, o
<1>2. LayerOK([u EXCEPT !.code = c, !.kept = K, !.overflow = o])
      /\ [u EXCEPT !.code = c, !.kept = K, !.overflow = o].kind = u.kind
  BY <1>1 DEF LayerOK
<1>3. LayerOK([u EXCEPT !.code = c]) /\ [u EXCEPT !.code = c].kind = u.kind
      /\ [u EXCEPT !.code = u.code] = u
  BY <1>1 DEF LayerOK
<1>4. Headed(l, h, c) = CASE l.kind = "gzip" -> IF l.code = 0 THEN [u EXCEPT !.code = c] ELSE [u EXCEPT !.code = u.code]
                          [] l.kind = "record" -> [u EXCEPT !.code = c, !.kept = K, !.overflow = o]
                          [] OTHER -> u
  BY DEF Headed, u, K, o
<1>5. Headed(l, h, c) \in {u, [u EXCEPT !.code = c], [u EXCEPT !.code = c, !.kept = K, !.overflow = o]}
  BY <1>3, <1>4
<1> QED BY <1>1, <1>2, <1>3, <1>5

LEMMA HeaderAtIs ==
  ASSUME NEW r, ResponseOK(r), NEW i \in 1..Len(r.layers), NEW c \in StatusType
  PROVE  /\ r.layers[i].status # 0 => HeaderAt(r, i, c) = On(r, 0)
         /\ r.layers[i].status = 0 =>
              HeaderAt(r, i, c) =
                On(WithLayer(r, i, Headed(r.layers[i], Hooked(r, i), c), Hooked(r, i),
                      HeadedWire(r, i, Hooked(r, i), c)),
                   IF r.layers[i].kind \in {"own", "gzip"} THEN 0 ELSE c)
<1> DEFINE l == r.layers[i]
           h == Hooked(r, i)
           s == WithLayer(r, i, Upped(l, c), h, r.wire)
<1>1. r.layers[i].status # 0 => HeaderAt(r, i, c) = On(r, 0)
  BY DEF HeaderAt
<1>2. LayerOK(l) /\ WireOK(r.wire)
  BY LayerIn
<1>3. LayerOK(Upped(l, c)) /\ Upped(l, c).kind = l.kind
  BY <1>2 DEF LayerOK, Upped
<1>4. AtIs(r, i, Upped(l, c), h, r.wire, s)
  <2> HIDE DEF l, h
  <2> QED BY <1>2, <1>3, AtOK DEF l
<1>5. l.status = 0 => HeaderAt(r, i, c) = UnderHeader(s, i, c)
  BY UpdateFirst DEF HeaderAt
<1> HIDE DEF s
<1>6. /\ ResponseOK(s) /\ s.header = h /\ s.wire = r.wire /\ s.head = r.head
      /\ s.layers[i] = Upped(l, c) /\ s.layers[i].kind = l.kind /\ i \in 1..Len(s.layers)
  BY <1>3, <1>4 DEF AtIs
<1>7. /\ s = [layers |-> s.layers, header |-> s.header, wire |-> s.wire, head |-> s.head]
      /\ i \in DOMAIN s.layers
  BY <1>6 DEF ResponseOK, Response, LayersOK
<1>8. s.layers = [r.layers EXCEPT ![i] = Upped(l, c)] /\ i \in DOMAIN r.layers
  BY DEF s, WithLayer, Response, ResponseOK, LayersOK
<1>9. ASSUME NEW k PROVE [s.layers EXCEPT ![i] = k] = [r.layers EXCEPT ![i] = k]
  BY <1>8
<1>10. l.kind \in {"own", "gzip", "record", "std"} /\ Upped(l, c).code = l.code
  BY <1>2 DEF LayerOK, Upped
<1> HIDE DEF l, h
<1>11. CASE l.kind = "own"
  <2>1. UnderHeader(s, i, c) = On(IF s.wire.status # 0 THEN s
               ELSE [s EXCEPT !.wire = [status |-> c, header |-> s.header, body |-> <<>>]], 0)
    BY <1>6, <1>11 DEF UnderHeader
  <2>2. Headed(l, h, c) = Upped(l, c)
    BY <1>11 DEF Headed
  <2>3. [s EXCEPT !.wire = [status |-> c, header |-> s.header, body |-> <<>>]]
          = WithLayer(r, i, Upped(l, c), h, [status |-> c, header |-> h, body |-> <<>>])
    BY <1>6, <1>7, <1>8 DEF WithLayer, Response
  <2>4. s = WithLayer(r, i, Upped(l, c), h, r.wire)
    BY DEF s
  <2> QED BY <1>1, <1>5, <1>6, <1>11, <2>1, <2>2, <2>3, <2>4 DEF HeadedWire, l, h
<1>12. CASE l.kind = "gzip"
  <2>1. UnderHeader(s, i, c) = On(IF s.layers[i].code = 0 THEN [s EXCEPT !.layers[i].code = c] ELSE s, 0)
    BY <1>6, <1>12 DEF UnderHeader
  <2>2. [s EXCEPT !.layers[i].code = c] = WithLayer(r, i, [Upped(l, c) EXCEPT !.code = c], h, r.wire)
    <3>1. SetCode(s, i, c) = WithLayer(r, i, WithCode(Upped(l, c), c), h, r.wire)
      BY <1>8, AtCode DEF s
    <3> QED BY <3>1 DEF SetCode, WithCode
  <2>3. Headed(l, h, c) = IF l.code = 0 THEN [Upped(l, c) EXCEPT !.code = c] ELSE Upped(l, c)
    <3>1. [Upped(l, c) EXCEPT !.code = @] = Upped(l, c)
      BY <1>3 DEF LayerOK
    <3> QED BY <1>12, <3>1 DEF Headed
  <2>4. s = WithLayer(r, i, Upped(l, c), h, r.wire)
    BY DEF s
  <2> QED BY <1>1, <1>5, <1>6, <1>10, <1>12, <2>1, <2>2, <2>3, <2>4 DEF HeadedWire, l, h
<1>13. CASE l.kind = "record"
  <2> DEFINE m == [Upped(l, c) EXCEPT !.code = c, !.kept = {p \in h : p[1] \in Replayed},
                                      !.overflow = HasHeader(h, "Set-Cookie")]
  <2>1. UnderHeader(s, i, c) = On([s EXCEPT !.layers[i].code = c,
                         !.layers[i].kept = {p \in s.header : p[1] \in Replayed},
                         !.layers[i].overflow = HasHeader(s.header, "Set-Cookie")], c)
    BY <1>6, <1>13 DEF UnderHeader
  <2>2. [s EXCEPT !.layers[i].code = c,
                         !.layers[i].kept = {p \in s.header : p[1] \in Replayed},
                         !.layers[i].overflow = HasHeader(s.header, "Set-Cookie")]
         = WithLayer(r, i, m, h, r.wire)
    <3> DEFINE K == {p \in h : p[1] \in Replayed}
               o == HasHeader(h, "Set-Cookie")
    <3> HIDE DEF K, o
    <3>1. [s EXCEPT !.layers[i].code = c, !.layers[i].kept = K, !.layers[i].overflow = o]
            = WithLayer(r, i, [Upped(l, c) EXCEPT !.code = c, !.kept = K, !.overflow = o], h, r.wire)
      <4>1. SetCode(s, i, c) = WithLayer(r, i, WithCode(Upped(l, c), c), h, r.wire)
        BY <1>8, AtCode DEF s
      <4>2. SetKept(SetCode(s, i, c), i, K)
              = WithLayer(r, i, WithKept(WithCode(Upped(l, c), c), K), h, r.wire)
        BY <1>8, <4>1, AtKept
      <4>3. SetOverflow(SetKept(SetCode(s, i, c), i, K), i, o)
              = WithLayer(r, i, WithOverflow(WithKept(WithCode(Upped(l, c), c), K), o), h, r.wire)
        BY <1>8, <4>2, AtOverflow
      <4> QED BY <4>3 DEF SetCode, SetKept, SetOverflow, WithCode, WithKept, WithOverflow
    <3> QED BY <1>6, <3>1 DEF K, o
  <2>3. Headed(l, h, c) = m
    BY <1>13 DEF Headed
  <2> QED BY <1>1, <1>5, <1>6, <1>13, <2>1, <2>2, <2>3 DEF HeadedWire, l, h
<1>14. CASE l.kind = "std"
  <2>1. UnderHeader(s, i, c) = On(s, c)
    BY <1>6, <1>14 DEF UnderHeader
  <2>2. Headed(l, h, c) = Upped(l, c)
    BY <1>14 DEF Headed
  <2>4. s = WithLayer(r, i, Upped(l, c), h, r.wire)
    BY DEF s
  <2> QED BY <1>1, <1>5, <1>6, <1>14, <2>1, <2>2, <2>4 DEF HeadedWire, l, h
<1> QED BY <1>10, <1>11, <1>12, <1>13, <1>14

LEMMA HeaderAtOK ==
  ASSUME NEW r, ResponseOK(r), NEW i \in 1..Len(r.layers), NEW c \in StatusType
  PROVE  LET to == HeaderAt(r, i, c) IN ResponseOK(to.r) /\ SameForm(r, to.r) /\ to.code \in StatusType
<1> DEFINE l == r.layers[i]
           h == Hooked(r, i)
           w == HeadedWire(r, i, h, c)
           s == WithLayer(r, i, Headed(l, h, c), h, w)
<1>1. LayerOK(l) /\ WireOK(r.wire)
  BY LayerIn
<1>2. LayerOK(Headed(l, h, c)) /\ Headed(l, h, c).kind = l.kind
  BY <1>1, HeadedOK
<1>3. WireOK(w)
  BY <1>1 DEF HeadedWire, WireOK, StatusType
<1>4. AtIs(r, i, Headed(l, h, c), h, w, s)
  <2> HIDE DEF h, w
  <2> QED BY <1>2, <1>3, AtOK
<1>5. ResponseOK(s) /\ SameForm(r, s)
  BY <1>4 DEF AtIs
<1>6. 0 \in StatusType /\ SameForm(r, r)
  BY SameFormItself DEF StatusType
<1>7. /\ l.status # 0 => HeaderAt(r, i, c) = On(r, 0)
      /\ l.status = 0 => HeaderAt(r, i, c) = On(s, IF l.kind \in {"own", "gzip"} THEN 0 ELSE c)
  BY HeaderAtIs
<1> HIDE DEF s, l
<1>8. CASE l.status # 0
  BY <1>6, <1>7, <1>8 DEF On
<1>9. CASE l.status = 0
  <2> DEFINE d == IF l.kind \in {"own", "gzip"} THEN 0 ELSE c
  <2>1. d \in StatusType
    BY <1>6
  <2> HIDE DEF d
  <2>2. HeaderAt(r, i, c) = On(s, d)
    BY <1>7, <1>9 DEF d
  <2> QED BY <1>5, <2>1, <2>2 DEF On
<1> QED BY <1>8, <1>9

LEMMA CommitOK ==
  ASSUME NEW i \in Nat
  PROVE  \A r, c : ResponseOK(r) /\ i <= Len(r.layers) /\ c \in StatusType =>
           ResponseOK(Commit(r, i, c)) /\ SameForm(r, Commit(r, i, c))
<1> DEFINE Good(n, r, c) == ResponseOK(r) /\ n <= Len(r.layers) /\ c \in StatusType =>
                              ResponseOK(Commit(r, n, c)) /\ SameForm(r, Commit(r, n, c))
           G == {n \in Nat : \A r, c : Good(n, r, c)}
<1>1. ASSUME NEW r, NEW c PROVE Good(0, r, c)
  BY CommitFrom, SameFormItself
<1>2. ASSUME NEW n \in Nat, \A r, c : Good(n, r, c), NEW r, NEW c PROVE Good(n + 1, r, c)
  <2> HIDE DEF Good
  <2> SUFFICES ASSUME ResponseOK(r), n + 1 <= Len(r.layers), c \in StatusType
               PROVE  ResponseOK(Commit(r, n + 1, c)) /\ SameForm(r, Commit(r, n + 1, c))
    BY DEF Good
  <2>0. n + 1 \in Nat \ {0} /\ n + 1 \in Nat /\ (n + 1) - 1 = n
    OBVIOUS
  <2>1. CASE c = 0
    <3>1. \A m \in Nat : Commit(r, m, c) = r
      BY <2>1, CommitFrom
    <3> QED BY <2>0, <3>1, SameFormItself
  <2>2. CASE c # 0
    <3> DEFINE to == HeaderAt(r, n + 1, c)
    <3>1. Len(r.layers) \in Nat
      BY DEF ResponseOK, LayersOK
    <3>2. n + 1 \in 1..Len(r.layers)
      BY <3>1
    <3>3. ResponseOK(to.r) /\ SameForm(r, to.r) /\ to.code \in StatusType
      BY <3>2, HeaderAtOK
    <3>4. \A m \in Nat \ {0} : Commit(r, m, c) = Commit(HeaderAt(r, m, c).r, m - 1, HeaderAt(r, m, c).code)
      BY <2>2, CommitFrom
    <3>5. Commit(r, n + 1, c) = Commit(to.r, n, to.code)
      BY <2>0, <3>4
    <3>6. n <= Len(to.r.layers)
      BY <3>1, <3>3 DEF SameForm
    <3> HIDE DEF to
    <3>7. ResponseOK(Commit(to.r, n, to.code)) /\ SameForm(to.r, Commit(to.r, n, to.code))
      BY <1>2, <3>3, <3>6 DEF Good
    <3> QED BY <3>3, <3>5, <3>7, SameFormTransitive
  <2> QED BY <2>1, <2>2
<1> HIDE DEF Good
<1>3. 0 \in G /\ \A n \in Nat : n \in G => n + 1 \in G
  BY <1>1, <1>2
<1>4. i \in G
  <2> HIDE DEF G
  <2> QED BY <1>3, Upward
<1> QED BY <1>4 DEF Good

(* What the writers do with the body.                                      *)
Longer(l, pieces) == [l EXCEPT !.buf = @ \o pieces]
Dropped(l) == [l EXCEPT !.overflow = TRUE, !.buf = <<>>]
Opened(l, zip) == [l EXCEPT !.decided = TRUE, !.zip = zip, !.buf = <<>>]
CodedHeader(h, zip) == IF zip THEN SetHeader(h, "Content-Encoding", "gzip") ELSE h
MoreBody(w, pieces) == [w EXCEPT !.body = @ \o pieces]
Released(r, i, zip) == WithLayer(r, i, Opened(r.layers[i], zip), CodedHeader(r.header, zip), r.wire)

LEMMA BufferIs ==
  ASSUME NEW r, ResponseOK(r), NEW i \in 1..Len(r.layers), NEW pieces
  PROVE  Buffer(r, i, pieces) = WithLayer(r, i, Longer(r.layers[i], pieces), r.header, r.wire)
<1> DEFINE l == r.layers[i]
           a == WithLayer(r, i, l, r.header, r.wire)
<1>1. i \in DOMAIN r.layers /\ r = a
  BY AtHere
<1>2. SetBuf(a, i, l.buf \o pieces) = WithLayer(r, i, WithBuf(l, l.buf \o pieces), r.header, r.wire)
  <2> HIDE DEF l
  <2> QED BY <1>1, AtBuf
<1>3. Buffer(r, i, pieces) = SetBuf(r, i, l.buf \o pieces)
  BY DEF Buffer, SetBuf
<1>4. WithBuf(l, l.buf \o pieces) = Longer(l, pieces)
  BY DEF WithBuf, Longer
<1> QED BY <1>1, <1>2, <1>3, <1>4

DroppedResponse(r, i) == [r EXCEPT !.layers[i].overflow = TRUE, !.layers[i].buf = <<>>]

LEMMA DroppedIs ==
  ASSUME NEW r, ResponseOK(r), NEW i \in 1..Len(r.layers)
  PROVE  DroppedResponse(r, i) = WithLayer(r, i, Dropped(r.layers[i]), r.header, r.wire)
<1> DEFINE l == r.layers[i]
           a == WithLayer(r, i, l, r.header, r.wire)
<1>1. i \in DOMAIN r.layers /\ r = a
  BY AtHere
<1> DEFINE yes == TRUE
<1> HIDE DEF l, yes
<1>2. SetOverflow(a, i, yes) = WithLayer(r, i, WithOverflow(l, yes), r.header, r.wire)
  BY <1>1, AtOverflow
<1>3. SetBuf(SetOverflow(a, i, yes), i, <<>>) = WithLayer(r, i, WithBuf(WithOverflow(l, yes), <<>>), r.header, r.wire)
  BY <1>1, <1>2, AtBuf
<1> HIDE DEF a
<1> USE DEF yes
<1>4. [a EXCEPT !.layers[i].overflow = TRUE, !.layers[i].buf = <<>>] = WithLayer(r, i, Dropped(l), r.header, r.wire)
  BY <1>3 DEF SetBuf, SetOverflow, WithBuf, WithOverflow, Dropped
<1> QED BY <1>1, <1>4 DEF l, DroppedResponse

Opening(r, i, zip) ==
  [r EXCEPT !.header = IF zip THEN SetHeader(@, "Content-Encoding", "gzip") ELSE @,
            !.layers[i].decided = TRUE, !.layers[i].zip = zip, !.layers[i].buf = <<>>]

LEMMA ReleasedIs ==
  ASSUME NEW r, ResponseOK(r), NEW i \in 1..Len(r.layers), NEW zip
  PROVE  Opening(r, i, zip) = Released(r, i, zip)
<1> DEFINE l == r.layers[i]
           a == WithLayer(r, i, l, r.header, r.wire)
           h == CodedHeader(r.header, zip)
<1>1. i \in DOMAIN r.layers /\ r = a
  BY AtHere
<1> DEFINE yes == TRUE
<1> HIDE DEF l, h, yes
<1>2. SetHeaderTo(a, h) = WithLayer(r, i, l, h, r.wire)
  BY AtHeader
<1>3. SetDecided(SetHeaderTo(a, h), i, yes) = WithLayer(r, i, WithDecided(l, yes), h, r.wire)
  BY <1>1, <1>2, AtDecided
<1>4. SetZip(SetDecided(SetHeaderTo(a, h), i, yes), i, zip) = WithLayer(r, i, WithZip(WithDecided(l, yes), zip), h, r.wire)
  BY <1>1, <1>3, AtZip
<1>5. SetBuf(SetZip(SetDecided(SetHeaderTo(a, h), i, yes), i, zip), i, <<>>)
        = WithLayer(r, i, WithBuf(WithZip(WithDecided(l, yes), zip), <<>>), h, r.wire)
  BY <1>1, <1>4, AtBuf
<1> HIDE DEF a
<1> USE DEF yes
<1>6. [a EXCEPT !.header = h, !.layers[i].decided = TRUE, !.layers[i].zip = zip, !.layers[i].buf = <<>>]
        = WithLayer(r, i, Opened(l, zip), h, r.wire)
  BY <1>5 DEF SetBuf, SetZip, SetDecided, SetHeaderTo, WithBuf, WithZip, WithDecided, Opened
<1>7. h = IF zip THEN SetHeader(r.header, "Content-Encoding", "gzip") ELSE r.header
  BY DEF h, CodedHeader
<1>8. [r EXCEPT !.header = h, !.layers[i].decided = TRUE, !.layers[i].zip = zip, !.layers[i].buf = <<>>]
        = WithLayer(r, i, Opened(l, zip), h, r.wire)
  BY <1>1, <1>6
<1> QED BY <1>7, <1>8 DEF Released, Opening, l, h

LEMMA PartsOK ==
  ASSUME NEW l, LayerOK(l), NEW pieces \in Seq(PieceType), NEW zip \in BOOLEAN
  PROVE  /\ LayerOK(Longer(l, pieces)) /\ Longer(l, pieces).kind = l.kind
         /\ LayerOK(Dropped(l)) /\ Dropped(l).kind = l.kind
         /\ LayerOK(Opened(l, zip)) /\ Opened(l, zip).kind = l.kind
<1>1. l.buf \o pieces \in Seq(PieceType) /\ <<>> \in Seq(PieceType)
  <2>1. l.buf \in Seq(PieceType)
    BY DEF LayerOK
  <2> QED BY <2>1, SeqFacts
<1> DEFINE b == l.buf \o pieces
           S == Seq(PieceType)
<1> HIDE DEF b, S
<1>2. b \in S /\ <<>> \in S
  BY <1>1 DEF b, S
<1>3. LayerOK([l EXCEPT !.buf = b]) /\ [l EXCEPT !.buf = b].kind = l.kind
  BY <1>2 DEF LayerOK, S
<1>4. LayerOK([l EXCEPT !.overflow = TRUE, !.buf = <<>>]) /\ [l EXCEPT !.overflow = TRUE, !.buf = <<>>].kind = l.kind
  BY <1>2 DEF LayerOK, S
<1>5. LayerOK([l EXCEPT !.decided = TRUE, !.zip = zip, !.buf = <<>>])
      /\ [l EXCEPT !.decided = TRUE, !.zip = zip, !.buf = <<>>].kind = l.kind
  BY <1>2 DEF LayerOK, S
<1> QED BY <1>3, <1>4, <1>5 DEF Longer, Dropped, Opened, b

LEMMA BodyOK ==
  ASSUME NEW w, WireOK(w), NEW pieces \in Seq(PieceType)
  PROVE  WireOK(MoreBody(w, pieces))
<1>1. w.body \o pieces \in Seq(PieceType)
  <2>1. w.body \in Seq(PieceType)
    BY DEF WireOK
  <2> QED BY <2>1, SeqFacts
<1> DEFINE b == w.body \o pieces
           S == Seq(PieceType)
<1> HIDE DEF b, S
<1>2. b \in S
  BY <1>1 DEF b, S
<1>3. WireOK([w EXCEPT !.body = b])
  BY <1>2 DEF WireOK, S
<1> QED BY <1>3 DEF MoreBody, b

LEMMA ZippedOK ==
  ASSUME NEW pieces \in Seq(PieceType), NEW zip \in BOOLEAN
  PROVE  /\ Zipped(pieces, zip) \in Seq(PieceType)
         /\ DOMAIN Zipped(pieces, zip) = DOMAIN pieces
         /\ \A k \in DOMAIN pieces : /\ Zipped(pieces, zip)[k].of = pieces[k].of
                                     /\ Zipped(pieces, zip)[k].big = pieces[k].big
                                     /\ Zipped(pieces, zip)[k].zip = (pieces[k].zip \/ zip)
<1> DEFINE n == Len(pieces)
           z(p) == [p EXCEPT !.zip = @ \/ zip]
           s == [k \in 1..n |-> z(pieces[k])]
<1>1. n \in Nat /\ DOMAIN pieces = 1..n /\ \A k \in 1..n : pieces[k] \in PieceType
  OBVIOUS
<1>2. ASSUME NEW p \in PieceType
      PROVE  z(p) \in PieceType /\ z(p).of = p.of /\ z(p).big = p.big /\ z(p).zip = (p.zip \/ zip)
  BY DEF PieceType
<1>3. Zipped(pieces, zip) = s
  BY <1>1 DEF Zipped
<1> HIDE DEF n, z
<1>4. DOMAIN s = 1..n /\ \A k \in 1..n : s[k] = z(pieces[k]) /\ s[k] \in PieceType
  BY <1>1, <1>2
<1>5. s \in Seq(PieceType)
  <2>1. s \in [1..n -> PieceType]
    BY <1>4
  <2> HIDE DEF s
  <2> QED BY <1>1, <2>1
<1> HIDE DEF s
<1> QED BY <1>1, <1>2, <1>3, <1>4, <1>5

(* A layer under which something is written, already past its header.      *)
FlowOK(r, flow) == ResponseOK(flow.r) /\ SameForm(r, flow.r) /\ flow.pieces \in Seq(PieceType)

LEMMA ReleasedOK ==
  ASSUME NEW r, ResponseOK(r), NEW i \in 1..Len(r.layers), NEW zip \in BOOLEAN
  PROVE  AtIs(r, i, Opened(r.layers[i], zip), CodedHeader(r.header, zip), r.wire, Released(r, i, zip))
<1>1. LayerOK(r.layers[i]) /\ WireOK(r.wire) /\ <<>> \in Seq(PieceType)
  BY LayerIn
<1>2. LayerOK(Opened(r.layers[i], zip)) /\ Opened(r.layers[i], zip).kind = r.layers[i].kind
  BY <1>1, PartsOK
<1> QED BY <1>1, <1>2, AtOK DEF Released

LEMMA ReleaseIs ==
  ASSUME NEW r, ResponseOK(r), NEW i \in 1..Len(r.layers), NEW zip
  PROVE  Release(r, i, zip) = Flow(Commit(Released(r, i, zip), i - 1, r.layers[i].code),
                                   Zipped(r.layers[i].buf, zip))
<1>1. Release(r, i, zip) = Flow(Commit(Opening(r, i, zip), i - 1, r.layers[i].code),
                                Zipped(r.layers[i].buf, zip))
  BY DEF Release, Opening
<1> QED BY <1>1, ReleasedIs

LEMMA ReleaseOK ==
  ASSUME NEW r, ResponseOK(r), NEW i \in 1..Len(r.layers), NEW zip \in BOOLEAN
  PROVE  FlowOK(r, Release(r, i, zip))
<1> DEFINE s == Released(r, i, zip)
           l == r.layers[i]
<1>1. LayerOK(l) /\ Len(r.layers) \in Nat
  BY LayerIn DEF ResponseOK, LayersOK
<1>2. l.buf \in Seq(PieceType) /\ l.code \in StatusType
  BY <1>1 DEF LayerOK
<1>3. ResponseOK(s) /\ SameForm(r, s)
  BY ReleasedOK DEF AtIs
<1> HIDE DEF s
<1>4. i - 1 \in Nat /\ i - 1 <= Len(s.layers)
  BY <1>1, <1>3 DEF SameForm
<1>5. ResponseOK(Commit(s, i - 1, l.code)) /\ SameForm(s, Commit(s, i - 1, l.code))
  BY <1>2, <1>3, <1>4, CommitOK
<1>6. SameForm(r, Commit(s, i - 1, l.code))
  BY <1>3, <1>5, SameFormTransitive
<1>7. Zipped(l.buf, zip) \in Seq(PieceType)
  BY <1>2, ZippedOK
<1>8. Release(r, i, zip) = Flow(Commit(s, i - 1, l.code), Zipped(l.buf, zip))
  BY ReleaseIs DEF s
<1> HIDE DEF l
<1> QED BY <1>5, <1>6, <1>7, <1>8 DEF FlowOK, Flow

LEMMA BufferOK ==
  ASSUME NEW r, ResponseOK(r), NEW i \in 1..Len(r.layers), NEW pieces \in Seq(PieceType)
  PROVE  AtIs(r, i, Longer(r.layers[i], pieces), r.header, r.wire, Buffer(r, i, pieces))
<1>1. LayerOK(r.layers[i]) /\ WireOK(r.wire)
  BY LayerIn
<1>2. LayerOK(Longer(r.layers[i], pieces)) /\ Longer(r.layers[i], pieces).kind = r.layers[i].kind
  BY <1>1, PartsOK
<1> QED BY <1>1, <1>2, AtOK, BufferIs

Bodied(r, i, pieces) == WithLayer(r, i, r.layers[i], r.header, MoreBody(r.wire, pieces))

LEMMA BodiedIs ==
  ASSUME NEW r, ResponseOK(r), NEW i \in 1..Len(r.layers), NEW pieces
  PROVE  [r EXCEPT !.wire.body = @ \o pieces] = Bodied(r, i, pieces)
<1> DEFINE a == WithLayer(r, i, r.layers[i], r.header, r.wire)
<1>1. r = a
  BY AtHere
<1>2. SetWireTo(a, MoreBody(r.wire, pieces)) = Bodied(r, i, pieces)
  BY AtWire DEF Bodied
<1>3. [r EXCEPT !.wire.body = @ \o pieces] = SetWireTo(r, MoreBody(r.wire, pieces))
  BY DEF SetWireTo, MoreBody
<1> QED BY <1>1, <1>2, <1>3

LEMMA BodiedOK ==
  ASSUME NEW r, ResponseOK(r), NEW i \in 1..Len(r.layers), NEW pieces \in Seq(PieceType)
  PROVE  AtIs(r, i, r.layers[i], r.header, MoreBody(r.wire, pieces), Bodied(r, i, pieces))
<1>1. LayerOK(r.layers[i]) /\ WireOK(r.wire)
  BY LayerIn
<1>2. WireOK(MoreBody(r.wire, pieces))
  BY <1>1, BodyOK
<1> QED BY <1>1, <1>2, AtOK DEF Bodied

LEMMA DroppedOK ==
  ASSUME NEW r, ResponseOK(r), NEW i \in 1..Len(r.layers)
  PROVE  AtIs(r, i, Dropped(r.layers[i]), r.header, r.wire, DroppedResponse(r, i))
<1>1. LayerOK(r.layers[i]) /\ WireOK(r.wire)
  BY LayerIn
<1>2. LayerOK(Dropped(r.layers[i])) /\ Dropped(r.layers[i]).kind = r.layers[i].kind
  <2>1. <<>> \in Seq(PieceType) /\ TRUE \in BOOLEAN
    OBVIOUS
  <2> QED BY <1>1, <2>1, PartsOK
<1> QED BY <1>1, <1>2, AtOK, DroppedIs

(* What a layer does with pieces, one kind after the other.                *)
Full(l, pieces) == l.overflow \/ SomeBig(pieces)

LEMMA OwnWrites ==
  ASSUME NEW r, ResponseOK(r), NEW i \in 1..Len(r.layers), NEW pieces, r.layers[i].kind = "own"
  PROVE  \/ UnderWrite(r, i, pieces) = Flow(r, <<>>)
         \/ UnderWrite(r, i, pieces) = Flow(Bodied(r, i, pieces), <<>>)
<1>1. UnderWrite(r, i, pieces)
        = Flow(IF r.head \/ ~BodyAllowed(r.wire.status) THEN r
               ELSE [r EXCEPT !.wire.body = @ \o pieces], <<>>)
  BY DEF UnderWrite
<1>2. [r EXCEPT !.wire.body = @ \o pieces] = Bodied(r, i, pieces)
  BY BodiedIs
<1> QED BY <1>1, <1>2

LEMMA GzipWrites ==
  ASSUME NEW r, NEW i, NEW pieces, r.layers[i].kind = "gzip"
  PROVE  /\ r.layers[i].decided => UnderWrite(r, i, pieces) = Flow(r, Zipped(pieces, r.layers[i].zip))
         /\ ~r.layers[i].decided /\ SomeBig(pieces) =>
              UnderWrite(r, i, pieces) = Decide(Buffer(r, i, pieces), i, TRUE)
         /\ ~r.layers[i].decided /\ ~SomeBig(pieces) =>
              UnderWrite(r, i, pieces) = Flow(Buffer(r, i, pieces), <<>>)
BY DEF UnderWrite

LEMMA RecordWrites ==
  ASSUME NEW r, NEW i, NEW pieces, r.layers[i].kind = "record"
  PROVE  /\ Full(r.layers[i], pieces) => UnderWrite(r, i, pieces) = Flow(DroppedResponse(r, i), pieces)
         /\ ~Full(r.layers[i], pieces) => UnderWrite(r, i, pieces) = Flow(Buffer(r, i, pieces), pieces)
<1>1. UnderWrite(r, i, pieces) = Flow(IF Full(r.layers[i], pieces) THEN DroppedResponse(r, i)
                                      ELSE Buffer(r, i, pieces), pieces)
  BY DEF UnderWrite, DroppedResponse, Full
<1> DEFINE u == UnderWrite(r, i, pieces)
           f == Full(r.layers[i], pieces)
           d == DroppedResponse(r, i)
<1>2. u = Flow(IF f THEN d ELSE Buffer(r, i, pieces), pieces)
  BY <1>1
<1> HIDE DEF u, f, d
<1>3. (f => u = Flow(d, pieces)) /\ (~f => u = Flow(Buffer(r, i, pieces), pieces))
  BY <1>2
<1> QED BY <1>3 DEF u, f, d

LEMMA PlainWrites ==
  ASSUME NEW r, NEW i, NEW pieces, r.layers[i].kind = "std"
  PROVE  UnderWrite(r, i, pieces) = Flow(r, pieces)
BY DEF UnderWrite

LEMMA DecideOK ==
  ASSUME NEW r, ResponseOK(r), NEW i \in 1..Len(r.layers), NEW enough \in BOOLEAN
  PROVE  FlowOK(r, Decide(r, i, enough))
<1>1. Compresses(r, i, enough) \in BOOLEAN
  BY DEF Compresses
<1> QED BY <1>1, ReleaseOK DEF Decide

LEMMA UnderWriteOK ==
  ASSUME NEW r, ResponseOK(r), NEW i \in 1..Len(r.layers), NEW pieces \in Seq(PieceType)
  PROVE  FlowOK(r, UnderWrite(r, i, pieces))
<1> DEFINE l == r.layers[i]
           u == UnderWrite(r, i, pieces)
<1>1. <<>> \in Seq(PieceType)
  OBVIOUS
<1>2. ASSUME NEW s \in {r, Bodied(r, i, pieces), Buffer(r, i, pieces), DroppedResponse(r, i)},
             NEW ps \in Seq(PieceType)
      PROVE  FlowOK(r, Flow(s, ps))
  <2>1. ResponseOK(s) /\ SameForm(r, s)
    BY SameFormItself, BodiedOK, BufferOK, DroppedOK DEF AtIs
  <2> QED BY <2>1 DEF FlowOK, Flow
<1>3. LayerOK(l)
  BY LayerIn
<1>4. l.kind \in {"own", "gzip", "record", "std"} /\ l.zip \in BOOLEAN /\ l.decided \in BOOLEAN
  BY <1>3 DEF LayerOK
<1>5. CASE l.kind = "own"
  <2>1. u = Flow(r, <<>>) \/ u = Flow(Bodied(r, i, pieces), <<>>)
    BY <1>5, OwnWrites
  <2> HIDE DEF u
  <2> QED BY <1>1, <1>2, <2>1 DEF u
<1>6. CASE l.kind = "gzip" /\ l.decided
  <2>1. u = Flow(r, Zipped(pieces, l.zip))
    BY <1>6, GzipWrites
  <2>2. Zipped(pieces, l.zip) \in Seq(PieceType)
    BY <1>4, ZippedOK
  <2> HIDE DEF u, l
  <2> QED BY <1>2, <2>1, <2>2 DEF u
<1>7. CASE l.kind = "gzip" /\ ~l.decided /\ SomeBig(pieces)
  <2>1. u = Decide(Buffer(r, i, pieces), i, TRUE)
    BY <1>7, GzipWrites
  <2> DEFINE b == Buffer(r, i, pieces)
  <2>2. ResponseOK(b) /\ SameForm(r, b) /\ i \in 1..Len(b.layers)
    BY BufferOK DEF AtIs
  <2> HIDE DEF b
  <2>3. FlowOK(b, Decide(b, i, TRUE))
    BY <2>2, DecideOK
  <2>4. u = Decide(b, i, TRUE)
    BY <2>1 DEF b
  <2> HIDE DEF u
  <2> QED BY <2>2, <2>3, <2>4, SameFormTransitive DEF FlowOK, u
<1>8. CASE l.kind = "gzip" /\ ~l.decided /\ ~SomeBig(pieces)
  <2>1. u = Flow(Buffer(r, i, pieces), <<>>)
    BY <1>8, GzipWrites
  <2> HIDE DEF u
  <2> QED BY <1>1, <1>2, <2>1 DEF u
<1>9. CASE l.kind = "record"
  <2>2. u = Flow(DroppedResponse(r, i), pieces) \/ u = Flow(Buffer(r, i, pieces), pieces)
    BY <1>9, RecordWrites, Zenon
  <2> HIDE DEF u
  <2> QED BY <1>2, <2>2 DEF u
<1>10. CASE l.kind = "std"
  <2>1. u = Flow(r, pieces)
    BY <1>10, PlainWrites
  <2> HIDE DEF u
  <2> QED BY <1>2, <2>1 DEF u
<1> QED BY <1>4, <1>5, <1>6, <1>7, <1>8, <1>9, <1>10

LEMMA WriteAtOK ==
  ASSUME NEW r, ResponseOK(r), NEW i \in 1..Len(r.layers), NEW pieces \in Seq(PieceType)
  PROVE  FlowOK(r, WriteAt(r, i, pieces))
<1> DEFINE s == Commit(r, i, 200)
<1>1. 200 \in StatusType /\ i \in Nat /\ i <= Len(r.layers) /\ Len(r.layers) \in Nat
  BY DEF StatusType, ResponseOK, LayersOK
<1>2. ResponseOK(s) /\ SameForm(r, s)
  BY <1>1, CommitOK
<1> HIDE DEF s
<1>3. i \in 1..Len(s.layers)
  BY <1>2 DEF SameForm
<1>4. FlowOK(s, UnderWrite(s, i, pieces))
  BY <1>2, <1>3, UnderWriteOK
<1>5. WriteAt(r, i, pieces) = UnderWrite(s, i, pieces)
  BY DEF WriteAt, s
<1> QED BY <1>2, <1>4, <1>5, SameFormTransitive DEF FlowOK

LEMMA PutOK ==
  ASSUME NEW i \in Nat
  PROVE  \A r, pieces : ResponseOK(r) /\ i <= Len(r.layers) /\ pieces \in Seq(PieceType) =>
           ResponseOK(Put(r, i, pieces)) /\ SameForm(r, Put(r, i, pieces))
<1> DEFINE Good(n, r, ps) == ResponseOK(r) /\ n <= Len(r.layers) /\ ps \in Seq(PieceType) =>
                               ResponseOK(Put(r, n, ps)) /\ SameForm(r, Put(r, n, ps))
           G == {n \in Nat : \A r, ps : Good(n, r, ps)}
<1>1. ASSUME NEW r, NEW ps PROVE Good(0, r, ps)
  BY PutFrom, SameFormItself
<1>2. ASSUME NEW n \in Nat, \A r, ps : Good(n, r, ps), NEW r, NEW ps PROVE Good(n + 1, r, ps)
  <2> HIDE DEF Good
  <2> SUFFICES ASSUME ResponseOK(r), n + 1 <= Len(r.layers), ps \in Seq(PieceType)
               PROVE  ResponseOK(Put(r, n + 1, ps)) /\ SameForm(r, Put(r, n + 1, ps))
    BY DEF Good
  <2>0. n + 1 \in Nat \ {0} /\ n + 1 \in Nat /\ (n + 1) - 1 = n
    OBVIOUS
  <2>1. CASE ps = <<>>
    <3>1. \A m \in Nat : Put(r, m, ps) = r
      BY <2>1, PutFrom
    <3> QED BY <2>0, <3>1, SameFormItself
  <2>2. CASE ps # <<>>
    <3> DEFINE to == WriteAt(r, n + 1, ps)
    <3>1. Len(r.layers) \in Nat
      BY DEF ResponseOK, LayersOK
    <3>2. n + 1 \in 1..Len(r.layers)
      BY <3>1
    <3>3. ResponseOK(to.r) /\ SameForm(r, to.r) /\ to.pieces \in Seq(PieceType)
      BY <3>2, WriteAtOK DEF FlowOK
    <3>4. \A m \in Nat \ {0} : Put(r, m, ps) = Put(WriteAt(r, m, ps).r, m - 1, WriteAt(r, m, ps).pieces)
      BY <2>2, PutFrom
    <3>5. Put(r, n + 1, ps) = Put(to.r, n, to.pieces)
      BY <2>0, <3>4
    <3>6. n <= Len(to.r.layers)
      BY <3>1, <3>3 DEF SameForm
    <3> HIDE DEF to
    <3>7. ResponseOK(Put(to.r, n, to.pieces)) /\ SameForm(to.r, Put(to.r, n, to.pieces))
      BY <1>2, <3>3, <3>6 DEF Good
    <3> QED BY <3>3, <3>5, <3>7, SameFormTransitive
  <2> QED BY <2>1, <2>2
<1> HIDE DEF Good
<1>3. 0 \in G /\ \A n \in Nat : n \in G => n + 1 \in G
  BY <1>1, <1>2
<1>4. i \in G
  <2> HIDE DEF G
  <2> QED BY <1>3, Upward
<1> QED BY <1>4 DEF Good

LEMMA SinkOK ==
  ASSUME NEW r, NEW flow, FlowOK(r, flow), NEW i \in 1..Len(r.layers)
  PROVE  ResponseOK(Sink(flow, i)) /\ SameForm(r, Sink(flow, i))
<1>1. ResponseOK(flow.r) /\ SameForm(r, flow.r) /\ flow.pieces \in Seq(PieceType)
  BY DEF FlowOK
<1>2. i - 1 \in Nat /\ i - 1 <= Len(flow.r.layers)
  BY <1>1 DEF SameForm, ResponseOK, LayersOK
<1>3. ResponseOK(Put(flow.r, i - 1, flow.pieces)) /\ SameForm(flow.r, Put(flow.r, i - 1, flow.pieces))
  BY <1>1, <1>2, PutOK
<1> QED BY <1>1, <1>3, SameFormTransitive DEF Sink

LEMMA ForcedOK ==
  ASSUME NEW r, ResponseOK(r), NEW i \in 1..Len(r.layers)
  PROVE  ResponseOK(Forced(r, i)) /\ SameForm(r, Forced(r, i))
<1>1. FlowOK(r, Decide(r, i, TRUE))
  BY DecideOK
<1>2. ResponseOK(Sink(Decide(r, i, TRUE), i)) /\ SameForm(r, Sink(Decide(r, i, TRUE), i))
  BY <1>1, SinkOK
<1> QED BY <1>2, SameFormItself DEF Forced

LEMMA FlushAtOK ==
  ASSUME NEW i \in Nat
  PROVE  \A r : ResponseOK(r) /\ i <= Len(r.layers) =>
           ResponseOK(FlushAt(r, i)) /\ SameForm(r, FlushAt(r, i))
<1> DEFINE Good(n, r) == ResponseOK(r) /\ n <= Len(r.layers) =>
                           ResponseOK(FlushAt(r, n)) /\ SameForm(r, FlushAt(r, n))
           G == {n \in Nat : \A r : Good(n, r)}
<1>1. ASSUME NEW r PROVE Good(0, r)
  BY FlushFrom, SameFormItself
<1>2. ASSUME NEW n \in Nat, \A r : Good(n, r), NEW r PROVE Good(n + 1, r)
  <2> HIDE DEF Good
  <2> SUFFICES ASSUME ResponseOK(r), n + 1 <= Len(r.layers)
               PROVE  ResponseOK(FlushAt(r, n + 1)) /\ SameForm(r, FlushAt(r, n + 1))
    BY DEF Good
  <2> DEFINE s == Commit(r, n + 1, 200)
             to == Forced(s, n + 1)
  <2>1. n + 1 \in Nat \ {0} /\ n + 1 \in Nat /\ (n + 1) - 1 = n /\ 200 \in StatusType
    BY DEF StatusType
  <2>2. Len(r.layers) \in Nat
    BY DEF ResponseOK, LayersOK
  <2>3. ResponseOK(s) /\ SameForm(r, s)
    BY <2>1, CommitOK
  <2>4. \A m \in Nat \ {0} : FlushAt(r, m) = FlushAt(Forced(Commit(r, m, 200), m), m - 1)
    BY FlushFrom
  <2>5. FlushAt(r, n + 1) = FlushAt(to, n)
    BY <2>1, <2>4
  <2> HIDE DEF s
  <2>6. n + 1 \in 1..Len(s.layers)
    BY <2>2, <2>3 DEF SameForm
  <2>7. ResponseOK(to) /\ SameForm(s, to)
    BY <2>3, <2>6, ForcedOK
  <2> HIDE DEF to
  <2>8. n <= Len(to.layers)
    BY <2>2, <2>3, <2>7 DEF SameForm
  <2>9. ResponseOK(FlushAt(to, n)) /\ SameForm(to, FlushAt(to, n))
    BY <1>2, <2>7, <2>8 DEF Good
  <2>10. SameForm(r, to)
    BY <2>3, <2>7, SameFormTransitive
  <2> QED BY <2>5, <2>9, <2>10, SameFormTransitive
<1> HIDE DEF Good
<1>3. 0 \in G /\ \A n \in Nat : n \in G => n + 1 \in G
  BY <1>1, <1>2
<1>4. i \in G
  <2> HIDE DEF G
  <2> QED BY <1>3, Upward
<1> QED BY <1>4 DEF Good

(***************************************************************************)
(* How far a response has gone: c is its status, ps the names of what has  *)
(* been written, W the headers that were promised with it.  The layers     *)
(* above g have passed it on, the compressor g holds it, and those under   *)
(* g have seen nothing.  While something is on its way down, the layers up *)
(* to j have seen qs only.                                                 *)
(***************************************************************************)
NamesOf(pieces) == [k \in DOMAIN pieces |-> pieces[k].of]
NoStore == <<"Cache-Control", "no-store">>
Promised(h, W) ==
  /\ "Set-Cookie" \in W => HasHeader(h, "Set-Cookie")
  /\ "Cache-Control" \in W => NoStore \in h
Fresh(l) == l = Layer(l.kind)
Silence(r) == \A k \in 1..Len(r.layers) : Fresh(r.layers[k])
Recorded(l, c, ps, W) ==
  /\ l.code = c
  /\ l.overflow \/ NamesOf(l.buf) = ps
  /\ "Set-Cookie" \in W => l.overflow
  /\ "Cache-Control" \in W => NoStore \in l.kept
Passed(l, c, ps, W) ==
  /\ l.status = c
  /\ l.kind = "gzip" => l.decided
  /\ l.kind = "record" => Recorded(l, c, ps, W)
Held(l, c, ps) ==
  l.kind = "gzip" /\ l.status = c /\ l.code = c /\ ~l.decided /\ NamesOf(l.buf) = ps
Frontier(r, g, j, c, qs, ps, W) ==
  /\ g \in 0..Len(r.layers) /\ c # 0
  /\ \A k \in 1..Len(r.layers) : k < g => Fresh(r.layers[k])
  /\ \A k \in 1..Len(r.layers) : k > g => Passed(r.layers[k], c, IF k <= j THEN qs ELSE ps, W)
  /\ g # 0 => Held(r.layers[g], c, IF g <= j THEN qs ELSE ps)
  /\ Promised(r.header, W)
Reached(r, b, c, ps, W) == b <= Len(r.layers) /\ \E g \in 0..b : Frontier(r, g, 0, c, ps, ps, W)

LEMMA NamesAre ==
  ASSUME NEW a \in Seq(PieceType), NEW b \in Seq(PieceType), NEW zip \in BOOLEAN
  PROVE  /\ NamesOf(a \o b) = NamesOf(a) \o NamesOf(b)
         /\ NamesOf(Zipped(a, zip)) = NamesOf(a)
         /\ NamesOf(a) \in Seq(Authors)
         /\ a = <<>> <=> NamesOf(a) = <<>>
<1> DEFINE m == Len(a)
           n == Len(b)
           A == NamesOf(a)
           B == NamesOf(b)
<1>1. m \in Nat /\ n \in Nat /\ DOMAIN a = 1..m /\ DOMAIN b = 1..n
  OBVIOUS
<1>2. \A p \in PieceType : p.of \in Authors
  BY DEF PieceType
<1>3. A \in Seq(Authors) /\ Len(A) = m /\ \A k \in 1..m : A[k] = a[k].of
  <2>1. \A k \in 1..m : a[k] \in PieceType
    BY <1>1
  <2>2. A = [k \in 1..m |-> a[k].of]
    BY <1>1 DEF NamesOf
  <2> HIDE DEF A, m
  <2>3. A \in [1..m -> Authors]
    BY <1>2, <2>1, <2>2
  <2>4. A \in Seq(Authors) /\ Len(A) = m
    BY <1>1, <2>3
  <2> QED BY <2>2, <2>4
<1>4. B \in Seq(Authors) /\ Len(B) = n /\ \A k \in 1..n : B[k] = b[k].of
  <2>1. \A k \in 1..n : b[k] \in PieceType
    BY <1>1
  <2>2. B = [k \in 1..n |-> b[k].of]
    BY <1>1 DEF NamesOf
  <2> HIDE DEF B, n
  <2>3. B \in [1..n -> Authors]
    BY <1>2, <2>1, <2>2
  <2>4. B \in Seq(Authors) /\ Len(B) = n
    BY <1>1, <2>3
  <2> QED BY <2>2, <2>4
<1>5. NamesOf(a \o b) = A \o B
  <2> DEFINE ab == a \o b
             AB == A \o B
  <2>1. /\ ab \in Seq(PieceType) /\ Len(ab) = m + n
        /\ \A k \in 1..m : ab[k] = a[k]
        /\ \A k \in 1..n : ab[m + k] = b[k]
    BY ConcatFacts
  <2>2. /\ AB \in Seq(Authors) /\ Len(AB) = m + n
        /\ \A k \in 1..m : AB[k] = A[k]
        /\ \A k \in 1..n : AB[m + k] = B[k]
    <3> HIDE DEF A, B, m, n
    <3> QED BY <1>3, <1>4, ConcatFacts
  <2> HIDE DEF ab, AB, A, B
  <2>3. DOMAIN ab = 1..(m + n) /\ AB = [k \in 1..(m + n) |-> AB[k]]
    BY <2>1, <2>2
  <2> HIDE DEF m, n
  <2>4. \A k \in 1..(m + n) : k \in 1..m \/ (k - m \in 1..n /\ m + (k - m) = k)
    BY <1>1
  <2>5. ASSUME NEW k \in 1..(m + n) PROVE ab[k].of = AB[k]
    <3>1. CASE k \in 1..m
      BY <1>3, <2>1, <2>2, <3>1
    <3>2. CASE k - m \in 1..n /\ m + (k - m) = k
      <4>1. ab[m + (k - m)] = b[k - m] /\ AB[m + (k - m)] = B[k - m]
        BY <2>1, <2>2, <3>2
      <4> QED BY <1>4, <3>2, <4>1
    <3> QED BY <2>4, <3>1, <3>2
  <2>6. NamesOf(ab) = [k \in 1..(m + n) |-> ab[k].of]
    BY <2>3 DEF NamesOf
  <2>7. NamesOf(ab) = AB
    BY <2>3, <2>5, <2>6
  <2> QED BY <2>7 DEF ab, AB
<1>6. NamesOf(Zipped(a, zip)) = A
  BY ZippedOK DEF NamesOf
<1>7. a = <<>> <=> A = <<>>
  <2> HIDE DEF A
  <2> QED BY <1>3
<1> QED BY <1>3, <1>5, <1>6, <1>7

LEMMA NamesNone == NamesOf(<<>>) = <<>>
BY DEF NamesOf

LEMMA HookedNone ==
  ASSUME NEW r, NEW i, r.layers[i].before = <<>>
  PROVE  Hooked(r, i) = r.header
<1> DEFINE hs == r.layers[i].before
           F(f) == f = [n \in 0..Len(hs) |->
                         IF n = 0 THEN r.header
                         ELSE LET hook == hs[Len(hs) - n + 1] IN SetHeader(f[n - 1], hook[1], hook[2])]
           v == CHOOSE f : F(f)
<1>1. \E f : F(f)
  <2>1. F([n \in 0..0 |-> r.header])
    OBVIOUS
  <2> HIDE DEF F
  <2> QED BY <2>1
<1>2. Hooked(r, i) = v[Len(hs)]
  BY DEF Hooked
<1>3. F(v)
  <2> HIDE DEF F
  <2> QED BY <1>1
<1> HIDE DEF v
<1>4. Len(hs) = 0 /\ v[0] = r.header
  BY <1>3
<1> QED BY <1>2, <1>4

LEMMA HookedOne ==
  ASSUME NEW r, NEW i, NEW name, NEW value, r.layers[i].before = <<<<name, value>>>>
  PROVE  Hooked(r, i) = SetHeader(r.header, name, value)
<1> DEFINE hs == r.layers[i].before
           F(f) == f = [n \in 0..Len(hs) |->
                         IF n = 0 THEN r.header
                         ELSE LET hook == hs[Len(hs) - n + 1] IN SetHeader(f[n - 1], hook[1], hook[2])]
           v == CHOOSE f : F(f)
           h == SetHeader(r.header, name, value)
<1>0. Len(hs) = 1 /\ hs[1] = <<name, value>>
  OBVIOUS
<1>1. \E f : F(f)
  <2> DEFINE f == [n \in 0..1 |-> IF n = 0 THEN r.header ELSE h]
  <2>1. F(f)
    <3> HIDE DEF h
    <3>1. f[0] = r.header
      OBVIOUS
    <3>2. \A n \in 0..1 : n # 0 => n = 1 /\ hs[Len(hs) - n + 1] = <<name, value>> /\ n - 1 = 0
      BY <1>0
    <3>3. \A n \in 0..1 : f[n] = IF n = 0 THEN r.header
                         ELSE LET hook == hs[Len(hs) - n + 1] IN SetHeader(f[n - 1], hook[1], hook[2])
      BY <3>1, <3>2 DEF h
    <3> HIDE DEF hs
    <3>4. f = [n \in 0..1 |-> f[n]]
      OBVIOUS
    <3> HIDE DEF f
    <3> QED BY <1>0, <3>3, <3>4
  <2> HIDE DEF F
  <2> QED BY <2>1
<1>2. Hooked(r, i) = v[Len(hs)]
  BY DEF Hooked
<1>3. F(v)
  <2> HIDE DEF F
  <2> QED BY <1>1
<1> HIDE DEF v
<1>4. v[0] = r.header /\ v[1] = SetHeader(v[0], name, value)
  BY <1>0, <1>3
<1> QED BY <1>0, <1>2, <1>4

(* The header passes a layer that has seen nothing.                        *)
HeaderOK(r, i, c, W, s, d) ==
  /\ HeaderAt(r, i, c) = On(s, d)
  /\ d = IF r.layers[i].kind \in {"own", "gzip"} THEN 0 ELSE c
  /\ ResponseOK(s) /\ SameForm(r, s) /\ s.header = r.header
  /\ \A k \in 1..Len(r.layers) : k # i => s.layers[k] = r.layers[k]
  /\ r.layers[i].kind = "gzip" => Held(s.layers[i], c, <<>>)
  /\ r.layers[i].kind # "gzip" => Passed(s.layers[i], c, <<>>, W)

LEMMA FreshIs ==
  ASSUME NEW l, Fresh(l)
  PROVE  /\ l.status = 0 /\ l.before = <<>> /\ l.code = 0 /\ l.buf = <<>>
         /\ l.decided = FALSE /\ l.overflow = FALSE
<1> DEFINE k == l.kind
<1>1. l = Layer(k)
  BY DEF Fresh
<1> HIDE DEF k
<1> QED BY <1>1 DEF Layer

LEMMA HeadedFresh ==
  ASSUME NEW l, LayerOK(l), Fresh(l), NEW h, NEW W, Promised(h, W), NEW c
  PROVE  /\ l.kind = "gzip" => Held(Headed(l, h, c), c, <<>>)
         /\ l.kind # "gzip" => Passed(Headed(l, h, c), c, <<>>, W)
<1> DEFINE u == Upped(l, c)
           K == {p \in h : p[1] \in Replayed}
           o == HasHeader(h, "Set-Cookie")
<1>1. /\ l.status = 0 /\ l.before = <<>> /\ l.code = 0 /\ l.buf = <<>>
      /\ l.decided = FALSE /\ l.overflow = FALSE
  BY FreshIs
<1>2. /\ DOMAIN u = DOMAIN l /\ u.kind = l.kind /\ u.status = c /\ u.code = 0 /\ u.buf = <<>> /\ u.decided = FALSE
      /\ {"code", "kept", "overflow"} \subseteq DOMAIN u
  BY <1>1 DEF Upped, LayerOK
<1>3. /\ "Set-Cookie" \in W => o
      /\ "Cache-Control" \in W => NoStore \in K
  BY DEF Promised, NoStore, Replayed
<1> HIDE DEF u, K, o
<1>4. Headed(l, h, c) = CASE l.kind = "gzip" -> IF l.code = 0 THEN [u EXCEPT !.code = c] ELSE [u EXCEPT !.code = u.code]
                          [] l.kind = "record" -> [u EXCEPT !.code = c, !.kept = K, !.overflow = o]
                          [] OTHER -> u
  <2>1. [u EXCEPT !.code = @] = u
    BY <1>2, HeadedOK DEF LayerOK, u, Upped
  <2> QED BY <2>1 DEF Headed, u, K, o
<1>5. CASE l.kind = "gzip"
  <2>1. Headed(l, h, c) = [u EXCEPT !.code = c]
    BY <1>1, <1>4, <1>5
  <2> QED BY <1>2, <1>5, <2>1, NamesNone DEF Held
<1>6. CASE l.kind = "record"
  <2> DEFINE m == [u EXCEPT !.code = c, !.kept = K, !.overflow = o]
  <2>1. m.kind = l.kind /\ m.status = c /\ m.code = c /\ m.buf = <<>> /\ m.kept = K /\ m.overflow = o
    BY <1>2
  <2>2. Headed(l, h, c) = m
    BY <1>4, <1>6
  <2> HIDE DEF m
  <2> QED BY <1>3, <1>6, <2>1, <2>2, NamesNone DEF Passed, Recorded
<1>7. CASE l.kind \notin {"gzip", "record"}
  BY <1>2, <1>4, <1>7 DEF Passed
<1> QED BY <1>5, <1>6, <1>7

LEMMA HeaderFresh ==
  ASSUME NEW r, ResponseOK(r), NEW i \in 1..Len(r.layers), NEW c \in StatusType,
         NEW W, Promised(r.header, W), Fresh(r.layers[i])
  PROVE  \E s, d : HeaderOK(r, i, c, W, s, d)
<1> DEFINE l == r.layers[i]
           h == Hooked(r, i)
           w == HeadedWire(r, i, h, c)
           s == WithLayer(r, i, Headed(l, h, c), h, w)
           d == IF l.kind \in {"own", "gzip"} THEN 0 ELSE c
<1>1. LayerOK(l) /\ WireOK(r.wire)
  BY LayerIn
<1>2. LayerOK(Headed(l, h, c)) /\ Headed(l, h, c).kind = l.kind
  BY <1>1, HeadedOK
<1>3. WireOK(w)
  BY <1>1 DEF HeadedWire, WireOK, StatusType
<1>4. AtIs(r, i, Headed(l, h, c), h, w, s)
  <2> HIDE DEF h, w
  <2> QED BY <1>2, <1>3, AtOK
<1>5. l.status = 0 /\ h = r.header
  BY FreshIs, HookedNone
<1>6. HeaderAt(r, i, c) = On(s, d)
  BY <1>5, HeaderAtIs
<1>7. /\ l.kind = "gzip" => Held(Headed(l, h, c), c, <<>>)
      /\ l.kind # "gzip" => Passed(Headed(l, h, c), c, <<>>, W)
  <2> HIDE DEF l, h
  <2> QED BY <1>1, <1>5, HeadedFresh DEF l
<1> HIDE DEF s
<1>8. HeaderOK(r, i, c, W, s, d)
  <2> HIDE DEF w
  <2> QED BY <1>4, <1>5, <1>6, <1>7 DEF AtIs, HeaderOK
<1> QED BY <1>8

LEMMA CommitAgain ==
  ASSUME NEW r, ResponseOK(r), NEW i \in 1..Len(r.layers), NEW c \in StatusType, r.layers[i].status # 0
  PROVE  Commit(r, i, c) = r
<1>0. i \in Nat /\ i \in Nat \ {0} /\ i - 1 \in Nat
  OBVIOUS
<1>1. CASE c = 0
  <2>1. \A m \in Nat : Commit(r, m, c) = r
    BY <1>1, CommitFrom
  <2> QED BY <1>0, <2>1
<1>2. CASE c # 0
  <2>1. \A m \in Nat \ {0} : Commit(r, m, c) = Commit(HeaderAt(r, m, c).r, m - 1, HeaderAt(r, m, c).code)
    BY <1>2, CommitFrom
  <2>2. HeaderAt(r, i, c) = On(r, 0) /\ On(r, 0).r = r /\ On(r, 0).code = 0
    BY HeaderAtIs DEF On
  <2>3. Commit(r, i, c) = Commit(r, i - 1, 0)
    BY <1>0, <2>1, <2>2
  <2>4. \A m \in Nat : Commit(r, m, 0) = r
    BY CommitFrom
  <2> QED BY <1>0, <2>3, <2>4
<1> QED BY <1>1, <1>2

LEMMA CommittedStays ==
  ASSUME NEW r, ResponseOK(r), NEW i \in 1..Len(r.layers), r.layers[i].status # 0
  PROVE  Commit(r, i, 200) = r
<1> DEFINE d == 200
<1>1. d \in StatusType
  BY DEF StatusType
<1> HIDE DEF d
<1>2. Commit(r, i, d) = r
  BY <1>1, CommitAgain
<1> QED BY <1>2 DEF d

(* The header on its way down from layer i, under which all is fresh.      *)
Ahead(r, i, j, c, ps, W) ==
  /\ i <= Len(r.layers) /\ i <= j /\ c # 0
  /\ \A k \in 1..Len(r.layers) : k <= i => Fresh(r.layers[k])
  /\ \A k \in 1..Len(r.layers) : k > i => Passed(r.layers[k], c, IF k <= j THEN <<>> ELSE ps, W)
  /\ Promised(r.header, W)
Ending(r, s, i, j, c, qs, ps, W) ==
  /\ ResponseOK(s) /\ SameForm(r, s)
  /\ \E g \in 0..i : Frontier(s, g, j, c, qs, ps, W)

LEMMA EndingSameForm ==
  ASSUME NEW r, NEW s, NEW t, NEW i \in Nat, NEW j, NEW c, NEW qs, NEW ps, NEW W,
         SameForm(r, s), Ending(s, t, i, j, c, qs, ps, W)
  PROVE  Ending(r, t, i, j, c, qs, ps, W) /\ Ending(r, t, i + 1, j, c, qs, ps, W)
<1>1. SameForm(r, t)
  BY SameFormTransitive DEF Ending
<1>2. 0..i \subseteq 0..(i + 1)
  OBVIOUS
<1> HIDE DEF Frontier
<1> QED BY <1>1, <1>2 DEF Ending

LEMMA CommitDown ==
  ASSUME NEW i \in Nat, NEW j \in Nat, NEW c \in StatusType, NEW ps, NEW W
  PROVE  \A r : ResponseOK(r) /\ Ahead(r, i, j, c, ps, W) => Ending(r, Commit(r, i, c), i, j, c, <<>>, ps, W)
<1> DEFINE Good(n, r) == ResponseOK(r) /\ Ahead(r, n, j, c, ps, W) =>
                           Ending(r, Commit(r, n, c), n, j, c, <<>>, ps, W)
           G == {n \in Nat : \A r : Good(n, r)}
<1>1. ASSUME NEW r PROVE Good(0, r)
  <2> SUFFICES ASSUME ResponseOK(r), Ahead(r, 0, j, c, ps, W)
               PROVE  Ending(r, r, 0, j, c, <<>>, ps, W)
    BY CommitFrom
  <2>1. Len(r.layers) \in Nat
    BY DEF ResponseOK, LayersOK
  <2>2. Frontier(r, 0, j, c, <<>>, ps, W)
    BY <2>1 DEF Frontier, Ahead
  <2> QED BY <2>2, SameFormItself DEF Ending
<1>2. ASSUME NEW n \in Nat, \A r : Good(n, r), NEW r PROVE Good(n + 1, r)
  <2> HIDE DEF Good
  <2> SUFFICES ASSUME ResponseOK(r), Ahead(r, n + 1, j, c, ps, W)
               PROVE  Ending(r, Commit(r, n + 1, c), n + 1, j, c, <<>>, ps, W)
    BY DEF Good
  <2> DEFINE m == n + 1
             len == Len(r.layers)
  <2>1. len \in Nat /\ m \in 1..len /\ m \in Nat \ {0} /\ m \in Nat /\ m - 1 = n
    BY DEF ResponseOK, LayersOK, Ahead
  <2>2. /\ Fresh(r.layers[m]) /\ Promised(r.header, W) /\ c # 0 /\ m <= j
        /\ \A k \in 1..len : k <= m => Fresh(r.layers[k])
        /\ \A k \in 1..len : k > m => Passed(r.layers[k], c, IF k <= j THEN <<>> ELSE ps, W)
    BY <2>1 DEF Ahead
  <2>3. LayerOK(r.layers[m]) /\ (r.layers[m].kind = "own" <=> m = 1)
    BY <2>1 DEF ResponseOK, LayersOK
  <2> HIDE DEF m, len
  <2>4. PICK s, d : HeaderOK(r, m, c, W, s, d)
    BY <2>1, <2>2, HeaderFresh DEF len
  <2>5. /\ ResponseOK(s) /\ SameForm(r, s) /\ s.header = r.header /\ Len(s.layers) = len
        /\ \A k \in 1..len : k # m => s.layers[k] = r.layers[k]
    BY <2>4 DEF HeaderOK, SameForm, len
  <2>6. \A q \in Nat \ {0} : Commit(r, q, c) = Commit(HeaderAt(r, q, c).r, q - 1, HeaderAt(r, q, c).code)
    BY <2>2, CommitFrom
  <2>7. Commit(r, m, c) = Commit(s, n, d)
    BY <2>1, <2>4, <2>6 DEF HeaderOK, On
  <2>8. CASE r.layers[m].kind = "gzip"
    <3>1. d = 0 /\ Held(s.layers[m], c, <<>>)
      BY <2>4, <2>8 DEF HeaderOK
    <3>2. \A q \in Nat : Commit(s, q, 0) = s
      BY CommitFrom
    <3>3. Commit(r, m, c) = s
      BY <2>7, <3>1, <3>2
    <3>4. Frontier(s, m, j, c, <<>>, ps, W)
      <4>1. m # 0 /\ m \in 0..len /\ c # 0 /\ Promised(s.header, W)
        BY <2>1, <2>2, <2>5
      <4>2. \A k \in 1..len : k < m => Fresh(s.layers[k])
        BY <2>1, <2>2, <2>5
      <4>3. \A k \in 1..len : k > m => Passed(s.layers[k], c, IF k <= j THEN <<>> ELSE ps, W)
        BY <2>1, <2>2, <2>5
      <4>4. Held(s.layers[m], c, IF m <= j THEN <<>> ELSE ps)
        BY <2>2, <3>1
      <4> QED BY <2>5, <4>1, <4>2, <4>3, <4>4 DEF Frontier
    <3>5. m \in 0..m
      BY <2>1
    <3> QED BY <2>5, <3>3, <3>4, <3>5 DEF Ending, m
  <2>9. CASE r.layers[m].kind = "own"
    <3>1. d = 0 /\ Passed(s.layers[m], c, <<>>, W) /\ m = 1
      BY <2>3, <2>4, <2>9 DEF HeaderOK
    <3>2. \A q \in Nat : Commit(s, q, 0) = s
      BY CommitFrom
    <3>3. Commit(r, m, c) = s
      BY <2>7, <3>1, <3>2
    <3>4. Frontier(s, 0, j, c, <<>>, ps, W)
      BY <2>1, <2>2, <2>5, <3>1 DEF Frontier
    <3>5. 0 \in 0..m
      BY <2>1
    <3> QED BY <2>5, <3>3, <3>4, <3>5 DEF Ending, m
  <2>10. CASE r.layers[m].kind \in {"record", "std"}
    <3>1. d = c /\ Passed(s.layers[m], c, <<>>, W)
      BY <2>4, <2>10 DEF HeaderOK
    <3>2. Ahead(s, n, j, c, ps, W)
      <4>1. \A k \in 1..len : k <= n => Fresh(s.layers[k])
        <5>1. \A k \in 1..len : k <= n => k <= m /\ k # m
          BY <2>1
        <5> QED BY <2>2, <2>5, <5>1
      <4>2. ASSUME NEW k \in 1..len, k > n PROVE Passed(s.layers[k], c, IF k <= j THEN <<>> ELSE ps, W)
        <5>1. k = m \/ (k > m /\ k # m)
          BY <2>1, <4>2
        <5>2. CASE k = m
          <6>1. k <= j
            BY <2>2, <5>2
          <6> QED BY <3>1, <5>2, <6>1
        <5>3. CASE k > m /\ k # m
          BY <2>2, <2>5, <5>3
        <5> QED BY <5>1, <5>2, <5>3
      <4>3. n <= len /\ n <= j
        BY <2>1, <2>2
      <4> QED BY <2>2, <2>5, <4>1, <4>2, <4>3 DEF Ahead
    <3>3. Ending(s, Commit(s, n, c), n, j, c, <<>>, ps, W)
      BY <1>2, <2>5, <3>2 DEF Good
    <3>4. Ending(r, Commit(s, n, c), m, j, c, <<>>, ps, W)
      BY <2>5, <3>3, EndingSameForm DEF m
    <3> QED BY <2>7, <3>1, <3>4 DEF m
  <2>11. r.layers[m].kind \in {"own", "gzip", "record", "std"}
    BY <2>3 DEF LayerOK
  <2> QED BY <2>8, <2>9, <2>10, <2>11
<1> HIDE DEF Good
<1>3. 0 \in G /\ \A n \in Nat : n \in G => n + 1 \in G
  BY <1>1, <1>2
<1>4. i \in G
  <2> HIDE DEF G
  <2> QED BY <1>3, Upward
<1> QED BY <1>4 DEF Good

(* Pieces on their way down from layer i: those above have had ps, which   *)
(* is qs and these.                                                        *)
Flowing(r, b, i, c, pieces, qs, ps, W) ==
  /\ i <= Len(r.layers) /\ b <= Len(r.layers)
  /\ \E g \in 0..b :
       /\ Frontier(r, g, i, c, qs, ps, W)
       /\ pieces = <<>> => i < g \/ i = 0 \/ qs = ps
       /\ pieces # <<>> => g <= i /\ qs \o NamesOf(pieces) = ps

(* A compressor that holds all there is, under layers that are past it.    *)
Releasing(r, i, c, ps, W) ==
  LET l == r.layers[i]
  IN /\ i \in 1..Len(r.layers) /\ c # 0
     /\ l.kind = "gzip" /\ l.status = c /\ l.code = c /\ NamesOf(l.buf) = ps
     /\ \A k \in 1..Len(r.layers) : k < i => Fresh(r.layers[k])
     /\ \A k \in 1..Len(r.layers) : k > i => Passed(r.layers[k], c, ps, W)
     /\ Promised(r.header, W)

LEMMA HeaderKept ==
  ASSUME NEW h, NEW W, Promised(h, W), NEW zip
  PROVE  Promised(CodedHeader(h, zip), W)
BY DEF Promised, CodedHeader, SetHeader, HasHeader, NoStore

LEMMA OpenedIs ==
  ASSUME NEW l, LayerOK(l), NEW zip
  PROVE  Opened(l, zip).decided = TRUE /\ Opened(l, zip).status = l.status /\ Opened(l, zip).kind = l.kind
BY DEF Opened, LayerOK

LEMMA ReleaseDown ==
  ASSUME NEW r, ResponseOK(r), NEW i, NEW c \in StatusType, NEW ps \in Seq(Authors), NEW W,
         Releasing(r, i, c, ps, W), NEW zip \in BOOLEAN
  PROVE  Flowing(Release(r, i, zip).r, i - 1, i - 1, c, Release(r, i, zip).pieces, <<>>, ps, W)
<1> DEFINE l == r.layers[i]
           s == Released(r, i, zip)
           len == Len(r.layers)
           t == Commit(s, i - 1, c)
           pieces == Zipped(l.buf, zip)
<1>1. /\ i \in 1..len /\ c # 0 /\ l.kind = "gzip" /\ l.status = c /\ l.code = c /\ NamesOf(l.buf) = ps
      /\ \A k \in 1..len : k < i => Fresh(r.layers[k])
      /\ \A k \in 1..len : k > i => Passed(r.layers[k], c, ps, W)
      /\ Promised(r.header, W)
  BY DEF Releasing
<1>2. len \in Nat /\ i - 1 \in Nat /\ i - 1 <= len /\ LayerOK(l)
  BY <1>1, LayerIn DEF ResponseOK, LayersOK
<1>3. AtIs(r, i, Opened(l, zip), CodedHeader(r.header, zip), r.wire, s)
  BY <1>1, ReleasedOK
<1> HIDE DEF s
<1>4. /\ ResponseOK(s) /\ Len(s.layers) = len /\ Promised(s.header, W)
      /\ s.layers[i] = Opened(l, zip)
      /\ \A k \in 1..len : k # i => s.layers[k] = r.layers[k]
  BY <1>1, <1>3, HeaderKept DEF AtIs
<1>5. Passed(s.layers[i], c, ps, W)
  <2> DEFINE o == Opened(l, zip)
  <2>1. o.decided = TRUE /\ o.status = l.status /\ o.kind = l.kind
    BY <1>2, OpenedIs
  <2> HIDE DEF o
  <2>2. Passed(o, c, ps, W)
    BY <1>1, <2>1 DEF Passed
  <2> QED BY <1>4, <2>2 DEF o
<1>6. Ahead(s, i - 1, i - 1, c, ps, W)
  <2>1. \A k \in 1..len : k <= i - 1 => Fresh(s.layers[k])
    <3>1. \A k \in 1..len : k <= i - 1 => k < i /\ k # i
      BY <1>1
    <3> QED BY <1>1, <1>4, <3>1
  <2>2. ASSUME NEW k \in 1..len, k > i - 1 PROVE Passed(s.layers[k], c, IF k <= i - 1 THEN <<>> ELSE ps, W)
    <3>1. ~(k <= i - 1) /\ (k = i \/ (k > i /\ k # i))
      BY <1>1, <2>2
    <3> QED BY <1>1, <1>4, <1>5, <3>1
  <2> QED BY <1>1, <1>2, <1>4, <2>1, <2>2 DEF Ahead
<1>7. Ending(s, t, i - 1, i - 1, c, <<>>, ps, W)
  BY <1>2, <1>4, <1>6, CommitDown
<1>8. Release(r, i, zip) = Flow(t, pieces)
  BY <1>1, ReleaseIs DEF s
<1>9. Len(t.layers) = len
  BY <1>4, <1>7 DEF Ending, SameForm
<1>10. PICK g \in 0..(i - 1) : Frontier(t, g, i - 1, c, <<>>, ps, W)
  BY <1>7 DEF Ending
<1>11. NamesOf(pieces) = ps /\ (pieces = <<>> => <<>> = ps)
  <2>1. l.buf \in Seq(PieceType)
    BY <1>2 DEF LayerOK
  <2>2. NamesOf(pieces) = NamesOf(l.buf)
    BY <2>1, NamesAre
  <2> QED BY <1>1, <2>2, NamesNone
<1>12. <<>> \o ps = ps
  OBVIOUS
<1> HIDE DEF t, pieces, l
<1>13. Flowing(t, i - 1, i - 1, c, pieces, <<>>, ps, W)
  <2>1. g \in 0..Len(t.layers) /\ g <= i - 1
    BY <1>1, <1>2, <1>9
  <2> HIDE DEF Frontier
  <2> QED BY <1>2, <1>9, <1>10, <1>11, <1>12, <2>1 DEF Flowing
<1> QED BY <1>8, <1>13 DEF Flow

(* A layer takes its pieces.                                               *)
LEMMA LongerIs ==
  ASSUME NEW l, LayerOK(l), NEW pieces \in Seq(PieceType)
  PROVE  /\ Longer(l, pieces).kind = l.kind /\ Longer(l, pieces).status = l.status
         /\ Longer(l, pieces).code = l.code /\ Longer(l, pieces).decided = l.decided
         /\ Longer(l, pieces).kept = l.kept /\ Longer(l, pieces).overflow = l.overflow
         /\ NamesOf(Longer(l, pieces).buf) = NamesOf(l.buf) \o NamesOf(pieces)
<1>1. l.buf \in Seq(PieceType)
  BY DEF LayerOK
<1>2. NamesOf(l.buf \o pieces) = NamesOf(l.buf) \o NamesOf(pieces)
  BY <1>1, NamesAre
<1>3. Longer(l, pieces).buf = l.buf \o pieces
  BY DEF Longer, LayerOK
<1>4. /\ Longer(l, pieces).kind = l.kind /\ Longer(l, pieces).status = l.status
      /\ Longer(l, pieces).code = l.code /\ Longer(l, pieces).decided = l.decided
      /\ Longer(l, pieces).kept = l.kept /\ Longer(l, pieces).overflow = l.overflow
  BY DEF Longer, LayerOK
<1> QED BY <1>2, <1>3, <1>4

LEMMA DroppedPassed ==
  ASSUME NEW l, LayerOK(l), l.kind = "record", NEW c, NEW ps, NEW qs, NEW W, Passed(l, c, qs, W)
  PROVE  Passed(Dropped(l), c, ps, W)
<1> DEFINE d == Dropped(l)
<1>1. d.kind = "record" /\ d.status = l.status /\ d.code = l.code /\ d.kept = l.kept /\ d.overflow = TRUE
  BY DEF Dropped, LayerOK
<1> HIDE DEF d
<1>2. Passed(d, c, ps, W)
  BY <1>1 DEF Passed, Recorded
<1> QED BY <1>2 DEF d

LEMMA LongerPassed ==
  ASSUME NEW l, LayerOK(l), l.kind = "record", NEW pieces \in Seq(PieceType), NEW c, NEW qs, NEW W,
         Passed(l, c, qs, W)
  PROVE  Passed(Longer(l, pieces), c, qs \o NamesOf(pieces), W)
<1> DEFINE d == Longer(l, pieces)
<1>1. d.kind = "record" /\ d.status = l.status /\ d.code = l.code /\ d.kept = l.kept /\ d.overflow = l.overflow
      /\ NamesOf(d.buf) = NamesOf(l.buf) \o NamesOf(pieces)
  BY LongerIs
<1> HIDE DEF d
<1>2. Passed(d, c, qs \o NamesOf(pieces), W)
  BY <1>1 DEF Passed, Recorded
<1> QED BY <1>2 DEF d

LEMMA OthersPass ==
  ASSUME NEW l, l.kind # "record", NEW c, NEW ps, NEW qs, NEW W, Passed(l, c, qs, W)
  PROVE  Passed(l, c, ps, W)
BY DEF Passed

(* Layer i has passed on what it was given.                                *)
Shifts(r, s, i) ==
  /\ Len(s.layers) = Len(r.layers) /\ s.header = r.header
  /\ \A k \in 1..Len(r.layers) : k # i => s.layers[k] = r.layers[k]

LEMMA FrontierShifts ==
  ASSUME NEW r, NEW s, NEW i \in Nat, NEW g \in Nat, NEW c, NEW qs, NEW ps, NEW W,
         Len(r.layers) \in Nat, Shifts(r, s, i), Frontier(r, g, i, c, qs, ps, W), g < i,
         Passed(s.layers[i], c, ps, W)
  PROVE  Frontier(s, g, i - 1, c, qs, ps, W)
<1> DEFINE len == Len(r.layers)
<1>1. /\ g \in 0..len /\ c # 0 /\ Promised(r.header, W)
      /\ \A k \in 1..len : k < g => Fresh(r.layers[k])
      /\ \A k \in 1..len : k > g => Passed(r.layers[k], c, IF k <= i THEN qs ELSE ps, W)
      /\ g # 0 => Held(r.layers[g], c, qs)
  BY DEF Frontier
<1>2. Len(s.layers) = len /\ s.header = r.header /\ \A k \in 1..len : k # i => s.layers[k] = r.layers[k]
  BY DEF Shifts
<1> HIDE DEF len
<1>3. \A k \in 1..len : k < g => Fresh(s.layers[k])
  <2>1. \A k \in 1..len : k < g => k # i
    OBVIOUS
  <2> QED BY <1>1, <1>2, <2>1
<1>4. ASSUME NEW k \in 1..len, k > g PROVE Passed(s.layers[k], c, IF k <= i - 1 THEN qs ELSE ps, W)
  <2>1. CASE k = i
    <3>1. ~(k <= i - 1)
      BY <2>1
    <3> QED BY <2>1, <3>1
  <2>2. CASE k # i
    <3>1. k <= i - 1 <=> k <= i
      BY <2>2
    <3> QED BY <1>1, <1>2, <1>4, <2>2, <3>1
  <2> QED BY <2>1, <2>2
<1>5. g # 0 => Held(s.layers[g], c, IF g <= i - 1 THEN qs ELSE ps)
  <2>1. g # 0 => g \in 1..len /\ g # i /\ g <= i - 1
    BY <1>1, len \in Nat DEF len
  <2> QED BY <1>1, <1>2, <2>1
<1> QED BY <1>1, <1>2, <1>3, <1>4, <1>5 DEF Frontier, len

LEMMA FlowStep ==
  ASSUME NEW r, ResponseOK(r), NEW i \in 1..Len(r.layers), NEW c \in StatusType,
         NEW pieces \in Seq(PieceType), pieces # <<>>, NEW qs \in Seq(Authors), NEW ps \in Seq(Authors), NEW W,
         NEW b \in Nat, Flowing(r, b, i, c, pieces, qs, ps, W)
  PROVE  \E q \in Seq(Authors) :
           Flowing(WriteAt(r, i, pieces).r, b, i - 1, c, WriteAt(r, i, pieces).pieces, q, ps, W)
<1> DEFINE l == r.layers[i]
           len == Len(r.layers)
           u == UnderWrite(r, i, pieces)
<1>1. PICK g \in 0..b : Frontier(r, g, i, c, qs, ps, W) /\ g <= i /\ qs \o NamesOf(pieces) = ps
  BY DEF Flowing
<1>0. b <= len
  BY DEF Flowing
<1>2. /\ len \in Nat /\ i \in Nat /\ g \in Nat /\ i - 1 <= len /\ i - 1 \in Nat
      /\ g \in 0..len /\ g <= b
  BY <1>0 DEF ResponseOK, LayersOK
<1>3. /\ c # 0 /\ Promised(r.header, W)
      /\ \A k \in 1..len : k < g => Fresh(r.layers[k])
      /\ \A k \in 1..len : k > g => Passed(r.layers[k], c, IF k <= i THEN qs ELSE ps, W)
      /\ g # 0 => Held(r.layers[g], c, qs)
  BY <1>1 DEF Frontier
<1>4. LayerOK(l) /\ (l.kind = "own" <=> i = 1)
  BY DEF ResponseOK, LayersOK
<1>5. l.kind \in {"own", "gzip", "record", "std"} /\ l.decided \in BOOLEAN /\ l.zip \in BOOLEAN
  BY <1>4 DEF LayerOK
<1>6. g = i \/ (g < i /\ Passed(l, c, qs, W))
  BY <1>1, <1>2, <1>3
<1>7. g = i => Held(l, c, qs)
  BY <1>3
<1>8. WriteAt(r, i, pieces) = u
  <2>1. l.status # 0
    BY <1>3, <1>6, <1>7 DEF Passed, Held
  <2>2. Commit(r, i, 200) = r
    BY <2>1, CommittedStays
  <2> QED BY <2>2 DEF WriteAt
<1> HIDE DEF u, len
<1>9. ASSUME NEW s, NEW more \in Seq(PieceType), u = Flow(s, more), Shifts(r, s, i), g < i,
             Passed(s.layers[i], c, ps, W), NamesOf(more) = NamesOf(pieces)
      PROVE  Flowing(u.r, b, i - 1, c, u.pieces, qs, ps, W)
  <2>1. Frontier(s, g, i - 1, c, qs, ps, W)
    BY <1>1, <1>2, <1>9, FrontierShifts DEF len
  <2>2. u.r = s /\ u.pieces = more
    BY <1>9 DEF Flow
  <2>3. more # <<>>
    <3>1. NamesOf(pieces) # <<>>
      BY NamesAre
    <3> QED BY <1>9, <3>1, NamesNone
  <2>4. g <= i - 1 /\ Len(s.layers) = len
    BY <1>2, <1>9 DEF Shifts, len
  <2> HIDE DEF Frontier
  <2> QED BY <1>0, <1>1, <1>2, <1>9, <2>1, <2>2, <2>3, <2>4 DEF Flowing
<1>10. Shifts(r, r, i)
  BY DEF Shifts
<1>11. CASE l.kind = "own"
  <2>1. g < i /\ Passed(l, c, ps, W) /\ i - 1 = 0
    BY <1>2, <1>4, <1>6, <1>7, <1>11, OthersPass DEF Held
  <2>2. \E s : u = Flow(s, <<>>) /\ Shifts(r, s, i) /\ s.layers[i] = l
    <3>1. AtIs(r, i, r.layers[i], r.header, MoreBody(r.wire, pieces), Bodied(r, i, pieces))
      BY BodiedOK
    <3>2. Shifts(r, Bodied(r, i, pieces), i) /\ Bodied(r, i, pieces).layers[i] = l
      BY <3>1 DEF AtIs, Shifts
    <3> HIDE DEF l
    <3> QED BY <1>10, <1>11, <3>2, OwnWrites DEF u, l
  <2>3. PICK s : u = Flow(s, <<>>) /\ Shifts(r, s, i) /\ s.layers[i] = l
    BY <2>2
  <2>4. Frontier(s, g, i - 1, c, qs, ps, W)
    BY <1>1, <1>2, <2>1, <2>3, FrontierShifts DEF len
  <2>5. u.r = s /\ u.pieces = <<>> /\ Len(s.layers) = len
    BY <2>3 DEF Flow, Shifts, len
  <2> HIDE DEF Frontier
  <2>6. Flowing(u.r, b, i - 1, c, u.pieces, qs, ps, W)
    BY <1>0, <1>1, <1>2, <2>1, <2>4, <2>5 DEF Flowing
  <2> QED BY <1>8, <2>6
<1>12. CASE l.kind = "std"
  <2>1. g < i /\ Passed(l, c, ps, W)
    BY <1>6, <1>7, <1>12, OthersPass DEF Held
  <2>2. u = Flow(r, pieces)
    BY <1>12, PlainWrites DEF u
  <2>3. Flowing(u.r, b, i - 1, c, u.pieces, qs, ps, W)
    BY <1>9, <1>10, <2>1, <2>2
  <2> QED BY <1>8, <2>3
<1>13. CASE l.kind = "record"
  <2>1. g < i /\ Passed(l, c, qs, W)
    BY <1>6, <1>7, <1>13 DEF Held
  <2>2. CASE Full(l, pieces)
    <3> DEFINE s == DroppedResponse(r, i)
    <3>1. AtIs(r, i, Dropped(l), r.header, r.wire, s)
      BY DroppedOK
    <3> HIDE DEF s
    <3>2. Shifts(r, s, i) /\ s.layers[i] = Dropped(l)
      BY <3>1 DEF AtIs, Shifts
    <3>3. Passed(s.layers[i], c, ps, W)
      BY <1>4, <1>13, <2>1, <3>2, DroppedPassed
    <3>4. u = Flow(s, pieces)
      BY <1>13, <2>2, RecordWrites DEF u, s
    <3>5. Flowing(u.r, b, i - 1, c, u.pieces, qs, ps, W)
      BY <1>9, <2>1, <3>2, <3>3, <3>4
    <3> QED BY <1>8, <3>5
  <2>3. CASE ~Full(l, pieces)
    <3> DEFINE s == Buffer(r, i, pieces)
    <3>1. AtIs(r, i, Longer(l, pieces), r.header, r.wire, s)
      BY BufferOK
    <3> HIDE DEF s
    <3>2. Shifts(r, s, i) /\ s.layers[i] = Longer(l, pieces)
      BY <3>1 DEF AtIs, Shifts
    <3>3. Passed(Longer(l, pieces), c, qs \o NamesOf(pieces), W)
      BY <1>4, <1>13, <2>1, LongerPassed
    <3>4. u = Flow(s, pieces)
      BY <1>13, <2>3, RecordWrites DEF u, s
    <3>5. Flowing(u.r, b, i - 1, c, u.pieces, qs, ps, W)
      BY <1>1, <1>9, <2>1, <3>2, <3>3, <3>4
    <3> QED BY <1>8, <3>5
  <2> QED BY <2>2, <2>3
<1>14. CASE l.kind = "gzip" /\ l.decided
  <2>1. g < i /\ Passed(l, c, ps, W)
    BY <1>6, <1>7, <1>14, OthersPass DEF Held
  <2>2. u = Flow(r, Zipped(pieces, l.zip))
    BY <1>14, GzipWrites DEF u
  <2>3. Zipped(pieces, l.zip) \in Seq(PieceType) /\ NamesOf(Zipped(pieces, l.zip)) = NamesOf(pieces)
    <3> HIDE DEF l
    <3> QED BY <1>5, ZippedOK, NamesAre
  <2>4. Flowing(u.r, b, i - 1, c, u.pieces, qs, ps, W)
    BY <1>9, <1>10, <2>1, <2>2, <2>3
  <2> QED BY <1>8, <2>4
<1>15. CASE l.kind = "gzip" /\ ~l.decided
  <2>1. g = i /\ Held(l, c, qs)
    BY <1>6, <1>7, <1>15 DEF Passed
  <2> DEFINE s == Buffer(r, i, pieces)
             m == Longer(l, pieces)
  <2>2. AtIs(r, i, m, r.header, r.wire, s)
    BY BufferOK
  <2>3. /\ m.kind = "gzip" /\ m.status = c /\ m.code = c /\ ~m.decided /\ NamesOf(m.buf) = ps
    <3>1. /\ m.kind = l.kind /\ m.status = l.status /\ m.code = l.code /\ m.decided = l.decided
          /\ NamesOf(m.buf) = NamesOf(l.buf) \o NamesOf(pieces)
      BY <1>4, LongerIs
    <3> HIDE DEF m, l
    <3> QED BY <1>1, <2>1, <3>1 DEF Held
  <2> HIDE DEF s, m
  <2>4. ResponseOK(s) /\ Shifts(r, s, i) /\ s.layers[i] = m /\ Len(s.layers) = len
    BY <2>2 DEF AtIs, Shifts, len
  <2>5. /\ \A k \in 1..len : k < i => Fresh(s.layers[k])
        /\ \A k \in 1..len : k > i => Passed(s.layers[k], c, ps, W)
        /\ Promised(s.header, W)
    <3>1. \A k \in 1..len : k < i \/ k > i => k # i
      OBVIOUS
    <3>2. \A k \in 1..len : k > i => ~(k <= i)
      BY <1>2
    <3>3. \A k \in 1..len : k > i => Passed(r.layers[k], c, ps, W)
      BY <1>3, <2>1, <3>2
    <3> QED BY <1>3, <2>1, <2>4, <3>1, <3>3 DEF Shifts, len
  <2>6. CASE SomeBig(pieces)
    <3>1. u = Decide(s, i, TRUE)
      BY <1>15, <2>6, GzipWrites DEF u, s
    <3>2. Releasing(s, i, c, ps, W)
      BY <1>2, <1>3, <2>3, <2>4, <2>5 DEF Releasing, len
    <3>3. Compresses(s, i, TRUE) \in BOOLEAN
      BY DEF Compresses
    <3>4. Flowing(Release(s, i, Compresses(s, i, TRUE)).r, i - 1, i - 1, c,
                  Release(s, i, Compresses(s, i, TRUE)).pieces, <<>>, ps, W)
      BY <2>4, <3>2, <3>3, ReleaseDown
    <3>5. Flowing(u.r, i - 1, i - 1, c, u.pieces, <<>>, ps, W)
      BY <3>1, <3>4 DEF Decide
    <3>7. Flowing(u.r, b, i - 1, c, u.pieces, <<>>, ps, W)
      <4>1. 0..(i - 1) \subseteq 0..b
        BY <1>2, <2>1
      <4>2. Len(u.r.layers) = len
        <5>1. FlowOK(s, Decide(s, i, TRUE))
          BY <2>4, DecideOK DEF len
        <5> QED BY <2>4, <3>1, <5>1 DEF FlowOK, SameForm
      <4> HIDE DEF Frontier
      <4> QED BY <1>0, <3>5, <4>1, <4>2 DEF Flowing
    <3>6. <<>> \in Seq(Authors)
      OBVIOUS
    <3> QED BY <1>8, <3>6, <3>7
  <2>7. CASE ~SomeBig(pieces)
    <3>1. u = Flow(s, <<>>)
      BY <1>15, <2>7, GzipWrites DEF u, s
    <3>2. Frontier(s, i, i - 1, c, qs, ps, W)
      <4>1. Held(m, c, ps)
        BY <2>3 DEF Held
      <4>2. \A k \in 1..len : k > i => ~(k <= i - 1)
        BY <1>2
      <4>3. ~(i <= i - 1) /\ i \in 0..len /\ i # 0
        BY <1>2 DEF len
      <4> QED BY <1>3, <2>4, <2>5, <4>1, <4>2, <4>3 DEF Frontier
    <3>3. Flowing(u.r, b, i - 1, c, u.pieces, qs, ps, W)
      <4>1. u.r = s /\ u.pieces = <<>>
        BY <3>1 DEF Flow
      <4>2. i - 1 < i /\ i \in 0..len
        BY <1>2 DEF len
      <4> HIDE DEF Frontier
      <4> QED BY <1>0, <1>2, <2>1, <2>4, <3>2, <4>1, <4>2 DEF Flowing
    <3> QED BY <1>8, <3>3
  <2> QED BY <2>6, <2>7
<1> QED BY <1>5, <1>11, <1>12, <1>13, <1>14, <1>15

LEMMA FlowDone ==
  ASSUME NEW r, ResponseOK(r), NEW i \in Nat, NEW b \in Nat, NEW c, NEW pieces, NEW qs, NEW ps, NEW W,
         Flowing(r, b, i, c, pieces, qs, ps, W), pieces = <<>> \/ i = 0
  PROVE  Reached(r, b, c, ps, W)
<1> DEFINE len == Len(r.layers)
<1>1. PICK g \in 0..b : /\ Frontier(r, g, i, c, qs, ps, W)
                        /\ pieces = <<>> => i < g \/ i = 0 \/ qs = ps
  BY DEF Flowing
<1>2. len \in Nat /\ b <= len /\ (i < g \/ i = 0 \/ qs = ps)
  BY <1>1 DEF ResponseOK, LayersOK, Flowing
<1>3. /\ g \in 0..len /\ c # 0 /\ Promised(r.header, W)
      /\ \A k \in 1..len : k < g => Fresh(r.layers[k])
      /\ \A k \in 1..len : k > g => Passed(r.layers[k], c, IF k <= i THEN qs ELSE ps, W)
      /\ g # 0 => Held(r.layers[g], c, IF g <= i THEN qs ELSE ps)
  BY <1>1 DEF Frontier
<1> HIDE DEF len
<1>4. \A k \in 1..len : k > g => (IF k <= i THEN qs ELSE ps) = ps
  <2>1. CASE i < g \/ i = 0
    <3>1. \A k \in 1..len : k > g => ~(k <= i)
      BY <2>1
    <3> QED BY <3>1
  <2>2. CASE qs = ps
    BY <2>2
  <2> QED BY <1>2, <2>1, <2>2
<1>5. g # 0 => (IF g <= i THEN qs ELSE ps) = ps
  <2>1. CASE i < g \/ i = 0
    <3>1. g # 0 => ~(g <= i)
      BY <2>1
    <3> QED BY <3>1
  <2>2. CASE qs = ps
    BY <2>2
  <2> QED BY <1>2, <2>1, <2>2
<1>6. \A k \in 1..len : k > g => Passed(r.layers[k], c, IF k <= 0 THEN ps ELSE ps, W)
  BY <1>3, <1>4
<1>7. Frontier(r, g, 0, c, ps, ps, W)
  BY <1>3, <1>5, <1>6 DEF Frontier, len
<1> HIDE DEF Frontier
<1> QED BY <1>1, <1>2, <1>7 DEF Reached, len

LEMMA PutDown ==
  ASSUME NEW i \in Nat, NEW c \in StatusType, NEW ps \in Seq(Authors), NEW W, NEW b \in Nat
  PROVE  \A r, pieces, qs :
           ResponseOK(r) /\ pieces \in Seq(PieceType) /\ qs \in Seq(Authors) /\ Flowing(r, b, i, c, pieces, qs, ps, W)
             => Reached(Put(r, i, pieces), b, c, ps, W)
<1> DEFINE Good(n, r, pieces, qs) ==
             ResponseOK(r) /\ pieces \in Seq(PieceType) /\ qs \in Seq(Authors) /\ Flowing(r, b, n, c, pieces, qs, ps, W)
               => Reached(Put(r, n, pieces), b, c, ps, W)
           G == {n \in Nat : \A r, pieces, qs : Good(n, r, pieces, qs)}
<1>1. ASSUME NEW r, NEW pieces, NEW qs PROVE Good(0, r, pieces, qs)
  BY PutFrom, FlowDone
<1>2. ASSUME NEW n \in Nat, \A r, pieces, qs : Good(n, r, pieces, qs), NEW r, NEW pieces, NEW qs
      PROVE  Good(n + 1, r, pieces, qs)
  <2> HIDE DEF Good
  <2> SUFFICES ASSUME ResponseOK(r), pieces \in Seq(PieceType), qs \in Seq(Authors),
                      Flowing(r, b, n + 1, c, pieces, qs, ps, W)
               PROVE  Reached(Put(r, n + 1, pieces), b, c, ps, W)
    BY DEF Good
  <2> DEFINE m == n + 1
  <2>1. m \in Nat \ {0} /\ m \in Nat /\ m - 1 = n /\ m \in 1..Len(r.layers)
    BY DEF ResponseOK, LayersOK, Flowing
  <2> HIDE DEF m
  <2>2. CASE pieces = <<>>
    <3>1. \A q \in Nat : Put(r, q, pieces) = r
      BY <2>2, PutFrom
    <3>2. Reached(r, b, c, ps, W)
      BY <2>1, <2>2, FlowDone DEF m
    <3> QED BY <2>1, <3>1, <3>2 DEF m
  <2>3. CASE pieces # <<>>
    <3> DEFINE to == WriteAt(r, m, pieces)
    <3>1. \A q \in Nat \ {0} : Put(r, q, pieces) = Put(WriteAt(r, q, pieces).r, q - 1, WriteAt(r, q, pieces).pieces)
      BY <2>3, PutFrom
    <3>2. Put(r, m, pieces) = Put(to.r, n, to.pieces)
      BY <2>1, <3>1
    <3>3. ResponseOK(to.r) /\ to.pieces \in Seq(PieceType)
      BY <2>1, WriteAtOK DEF FlowOK
    <3>4. PICK q \in Seq(Authors) : Flowing(to.r, b, m - 1, c, to.pieces, q, ps, W)
      BY <2>1, <2>3, FlowStep DEF m
    <3> HIDE DEF to
    <3>5. Flowing(to.r, b, n, c, to.pieces, q, ps, W)
      BY <2>1, <3>4
    <3>6. Reached(Put(to.r, n, to.pieces), b, c, ps, W)
      BY <1>2, <3>3, <3>5 DEF Good
    <3> QED BY <3>2, <3>6 DEF m
  <2> QED BY <2>2, <2>3
<1> HIDE DEF Good
<1>3. 0 \in G /\ \A n \in Nat : n \in G => n + 1 \in G
  BY <1>1, <1>2
<1>4. i \in G
  <2> HIDE DEF G
  <2> QED BY <1>3, Upward
<1> QED BY <1>4 DEF Good

(* A compressor that decides sends all it holds further down.              *)
LEMMA DecideDown ==
  ASSUME NEW r, ResponseOK(r), NEW i, NEW c \in StatusType, NEW ps \in Seq(Authors), NEW W,
         Releasing(r, i, c, ps, W), NEW enough \in BOOLEAN
  PROVE  Reached(Sink(Decide(r, i, enough), i), i - 1, c, ps, W)
<1> DEFINE zip == Compresses(r, i, enough)
           flow == Release(r, i, zip)
<1>1. zip \in BOOLEAN /\ i \in 1..Len(r.layers) /\ Len(r.layers) \in Nat
  BY DEF Compresses, Releasing, ResponseOK, LayersOK
<1>2. Flowing(flow.r, i - 1, i - 1, c, flow.pieces, <<>>, ps, W)
  <2> HIDE DEF zip
  <2> QED BY <1>1, ReleaseDown
<1>3. FlowOK(r, flow)
  <2> HIDE DEF zip
  <2> QED BY <1>1, ReleaseOK
<1>4. flow = Decide(r, i, enough)
  BY DEF Decide
<1> HIDE DEF flow
<1>5. i - 1 \in Nat /\ <<>> \in Seq(Authors)
  BY <1>1
<1>6. Reached(Put(flow.r, i - 1, flow.pieces), i - 1, c, ps, W)
  <2>1. ResponseOK(flow.r) /\ flow.pieces \in Seq(PieceType)
    BY <1>3 DEF FlowOK
  <2> QED BY <1>2, <1>5, <2>1, PutDown
<1> QED BY <1>4, <1>6 DEF Sink

LEMMA HeldReleases ==
  ASSUME NEW r, Len(r.layers) \in Nat, NEW g \in Nat \ {0}, NEW c, NEW ps, NEW W,
         Frontier(r, g, 0, c, ps, ps, W)
  PROVE  Releasing(r, g, c, ps, W) /\ ~r.layers[g].decided
BY DEF Frontier, Releasing, Held

LEMMA FlushDown ==
  ASSUME NEW i \in Nat, NEW c \in StatusType, NEW ps \in Seq(Authors), NEW W
  PROVE  \A r : ResponseOK(r) /\ Reached(r, i, c, ps, W) => Reached(FlushAt(r, i), i, c, ps, W)
<1> DEFINE Good(n, r) == ResponseOK(r) /\ Reached(r, n, c, ps, W) => Reached(FlushAt(r, n), n, c, ps, W)
           G == {n \in Nat : \A r : Good(n, r)}
<1>1. ASSUME NEW r PROVE Good(0, r)
  BY FlushFrom
<1>2. ASSUME NEW n \in Nat, \A r : Good(n, r), NEW r PROVE Good(n + 1, r)
  <2> HIDE DEF Good
  <2> SUFFICES ASSUME ResponseOK(r), Reached(r, n + 1, c, ps, W)
               PROVE  Reached(FlushAt(r, n + 1), n + 1, c, ps, W)
    BY DEF Good
  <2> DEFINE m == n + 1
             len == Len(r.layers)
             l == r.layers[m]
             to == Forced(r, m)
  <2>1. m \in Nat \ {0} /\ m \in Nat /\ m - 1 = n /\ m \in 1..len /\ len \in Nat /\ n <= len
    BY DEF ResponseOK, LayersOK, Reached
  <2> HIDE DEF m
  <2>2. PICK g \in 0..m : Frontier(r, g, 0, c, ps, ps, W)
    BY DEF Reached, m
  <2>3. /\ c # 0 /\ g \in Nat
        /\ g < m => Passed(l, c, ps, W)
        /\ g = m => Held(l, c, ps)
    BY <2>1, <2>2 DEF Frontier
  <2>4. l.status # 0
    BY <2>1, <2>2, <2>3 DEF Passed, Held
  <2>5. Commit(r, m, 200) = r
    BY <2>1, <2>4, CommittedStays
  <2>6. \A q \in Nat \ {0} : FlushAt(r, q) = FlushAt(Forced(Commit(r, q, 200), q), q - 1)
    BY FlushFrom
  <2>7. FlushAt(r, m) = FlushAt(to, n)
    BY <2>1, <2>5, <2>6
  <2>8. ResponseOK(to) /\ SameForm(r, to)
    BY <2>1, ForcedOK
  <2>9. Reached(to, n, c, ps, W)
    <3>1. CASE g = m
      <4>1. Releasing(r, m, c, ps, W) /\ ~l.decided
        BY <2>1, <2>2, <3>1, HeldReleases
      <4>2. to = Sink(Decide(r, m, TRUE), m)
        BY <4>1 DEF Forced, Releasing
      <4>3. Reached(Sink(Decide(r, m, TRUE), m), m - 1, c, ps, W)
        BY <4>1, DecideDown
      <4> QED BY <2>1, <4>2, <4>3
    <3>2. CASE g # m
      <4>1. g < m /\ g \in 0..n
        BY <2>1, <2>2, <3>2
      <4>2. ~(l.kind = "gzip" /\ ~l.decided)
        BY <2>3, <4>1 DEF Passed
      <4>3. to = r
        BY <4>2 DEF Forced
      <4> HIDE DEF Frontier, to
      <4> QED BY <2>1, <2>2, <4>1, <4>3 DEF Reached
    <3> QED BY <3>1, <3>2
  <2> HIDE DEF to
  <2>10. Reached(FlushAt(to, n), n, c, ps, W)
    BY <1>2, <2>8, <2>9 DEF Good
  <2>11. Len(FlushAt(to, n).layers) = len
    <3>1. n <= Len(to.layers)
      BY <2>1, <2>8 DEF SameForm
    <3>2. SameForm(to, FlushAt(to, n))
      BY <2>8, <3>1, FlushAtOK
    <3> QED BY <2>8, <3>2 DEF SameForm
  <2>12. Reached(FlushAt(to, n), m, c, ps, W)
    <3>1. 0..n \subseteq 0..m /\ m <= len
      BY <2>1
    <3> HIDE DEF Frontier
    <3> QED BY <2>10, <2>11, <3>1 DEF Reached
  <2> QED BY <2>7, <2>12 DEF m
<1> HIDE DEF Good
<1>3. 0 \in G /\ \A n \in Nat : n \in G => n + 1 \in G
  BY <1>1, <1>2
<1>4. i \in G
  <2> HIDE DEF G
  <2> QED BY <1>3, Upward
<1> QED BY <1>4 DEF Good

(***************************************************************************)
(* What the operations make of a response: nothing has been written, or c  *)
(* and ps have and all layers know, or will.                               *)
(***************************************************************************)
Gone(r, c, ps, W) == Reached(r, Len(r.layers), c, ps, W)
Becomes(r, s, c, ps, W) == ResponseOK(s) /\ SameForm(r, s) /\ Gone(s, c, ps, W)

LEMMA TopLayer ==
  ASSUME NEW r, ResponseOK(r)
  PROVE  /\ Top(r) = Len(r.layers) /\ Top(r) \in Nat \ {0} /\ Top(r) \in 1..Len(r.layers)
         /\ Last(r.layers) = r.layers[Top(r)] /\ Status(r) = r.layers[Top(r)].status
         /\ Status(r) \in StatusType
<1>1. Len(r.layers) \in Nat /\ Len(r.layers) >= 1
  BY DEF ResponseOK, LayersOK
<1>2. Last(r.layers) = r.layers[Len(r.layers)]
  BY DEF Last
<1>3. LayerOK(r.layers[Len(r.layers)])
  BY <1>1, LayerIn
<1> QED BY <1>1, <1>2, <1>3 DEF Top, Status, LayerOK

LEMMA SilenceUnwritten ==
  ASSUME NEW r, ResponseOK(r), Silence(r)
  PROVE  ~Written(r)
BY TopLayer, FreshIs DEF Silence, Written

LEMMA GoneWritten ==
  ASSUME NEW r, ResponseOK(r), NEW c, NEW ps, NEW W, Gone(r, c, ps, W)
  PROVE  Written(r) /\ Status(r) = c /\ c # 0
<1> DEFINE n == Len(r.layers)
           l == r.layers[n]
<1>1. n \in Nat \ {0} /\ n \in 1..n /\ Status(r) = l.status
  BY TopLayer
<1>2. PICK g \in 0..n : Frontier(r, g, 0, c, ps, ps, W)
  BY DEF Gone, Reached
<1>3. (n > g => Passed(l, c, ps, W)) /\ (g = n => Held(l, c, ps)) /\ c # 0
  BY <1>1, <1>2 DEF Frontier
<1>4. l.status = c
  BY <1>1, <1>2, <1>3 DEF Passed, Held
<1> QED BY <1>1, <1>3, <1>4 DEF Written

LEMMA HeaderSet ==
  ASSUME NEW r, ResponseOK(r), NEW h
  PROVE  LET s == SetHeaderTo(r, h)
         IN ResponseOK(s) /\ SameForm(r, s) /\ s.layers = r.layers /\ s.header = h /\ (Silence(r) => Silence(s))
<1> DEFINE s == SetHeaderTo(r, h)
<1>1. s = Response(r.layers, h, r.wire, r.head)
  BY DEF ResponseOK, Response, SetHeaderTo
<1>2. s.layers = r.layers /\ s.header = h /\ s.wire = r.wire /\ s.head = r.head
  BY <1>1 DEF Response
<1> HIDE DEF s
<1>3. ResponseOK(s)
  BY <1>1, <1>2 DEF ResponseOK
<1>4. SameForm(r, s)
  BY <1>2 DEF SameForm
<1>5. Silence(r) => Silence(s)
  BY <1>2 DEF Silence
<1> QED BY <1>2, <1>3, <1>4, <1>5 DEF s

LEMMA StillPromised ==
  ASSUME NEW h, NEW W, Promised(h, W), NEW name, NEW v, name \notin {"Set-Cookie", "Cache-Control"}
  PROVE  Promised(SetHeader(h, name, v), W)
BY DEF Promised, SetHeader, HasHeader, NoStore

LEMMA PromisesNone == \A h : Promised(h, {})
BY DEF Promised

LEMMA OpenDown ==
  ASSUME NEW r, ResponseOK(r), Silence(r), NEW W, Promised(r.header, W), NEW c \in StatusType, c # 0
  PROVE  Becomes(r, WriteHeader(r, c), c, <<>>, W)
<1> DEFINE n == Len(r.layers)
           s == Commit(r, n, c)
<1>1. n \in Nat
  BY DEF ResponseOK, LayersOK
<1>2. Ahead(r, n, n, c, <<>>, W)
  BY <1>1 DEF Ahead, Silence
<1>3. Ending(r, s, n, n, c, <<>>, <<>>, W)
  BY <1>1, <1>2, CommitDown
<1>4. WriteHeader(r, c) = s
  BY DEF WriteHeader, Top
<1> HIDE DEF s
<1>5. ResponseOK(s) /\ SameForm(r, s) /\ Len(s.layers) = n
  BY <1>3 DEF Ending, SameForm
<1> HIDE DEF n
<1>6. Flowing(s, n, n, c, <<>>, <<>>, <<>>, W)
  <2> HIDE DEF Frontier
  <2> QED BY <1>1, <1>3, <1>5 DEF Ending, Flowing
<1>7. Reached(s, n, c, <<>>, W)
  BY <1>1, <1>5, <1>6, FlowDone
<1> QED BY <1>4, <1>5, <1>7 DEF Becomes, Gone

LEMMA FrontierBelow ==
  ASSUME NEW r, NEW g, NEW n, n = Len(r.layers), n \in Nat, NEW c, NEW qs, NEW ps, NEW W,
         Frontier(r, g, 0, c, qs, qs, W)
  PROVE  Frontier(r, g, n, c, qs, ps, W)
<1>1. \A k \in 1..n : k <= n
  OBVIOUS
<1>2. g \in 0..n /\ g <= n
  BY DEF Frontier
<1> QED BY <1>1, <1>2 DEF Frontier

LEMMA PutMore ==
  ASSUME NEW r, ResponseOK(r), NEW c \in StatusType, NEW ps \in Seq(Authors), NEW W, Gone(r, c, ps, W),
         NEW pieces \in Seq(PieceType)
  PROVE  /\ Becomes(r, Put(r, Top(r), pieces), c, ps \o NamesOf(pieces), W)
         /\ ps \o NamesOf(pieces) \in Seq(Authors)
<1> DEFINE n == Len(r.layers)
           t == ps \o NamesOf(pieces)
           s == Put(r, n, pieces)
<1>1. n \in Nat /\ Top(r) = n
  BY DEF ResponseOK, LayersOK, Top
<1>2. t \in Seq(Authors) /\ (pieces = <<>> => ps = t)
  <2>1. NamesOf(pieces) \in Seq(Authors)
    BY NamesAre
  <2>2. t \in Seq(Authors)
    BY <2>1, SeqFacts
  <2>3. ps \o <<>> = ps
    OBVIOUS
  <2> QED BY <2>2, <2>3, NamesNone
<1>3. ResponseOK(s) /\ SameForm(r, s) /\ Len(s.layers) = n
  BY <1>1, PutOK DEF SameForm
<1>4. PICK g \in 0..n : Frontier(r, g, 0, c, ps, ps, W)
  BY DEF Gone, Reached
<1>5. Frontier(r, g, n, c, ps, t, W)
  BY <1>1, <1>4, FrontierBelow
<1> HIDE DEF t, s
<1>6. Flowing(r, n, n, c, pieces, ps, t, W)
  <2>1. g <= n
    BY <1>1, <1>4
  <2> HIDE DEF Frontier
  <2> QED BY <1>1, <1>2, <1>4, <1>5, <2>1 DEF Flowing, t
<1>7. Reached(s, n, c, t, W)
  BY <1>1, <1>2, <1>6, PutDown DEF s
<1> QED BY <1>1, <1>2, <1>3, <1>7 DEF Becomes, Gone, t, s

LEMMA OnePiece ==
  ASSUME NEW piece \in PieceType
  PROVE  <<piece>> \in Seq(PieceType) /\ NamesOf(<<piece>>) = <<piece.of>>
<1>1. <<piece>> \in Seq(PieceType)
  BY SeqFacts
<1>2. DOMAIN <<piece>> = 1..1 /\ <<piece>>[1] = piece
  OBVIOUS
<1>3. NamesOf(<<piece>>) = [k \in 1..1 |-> <<piece>>[k].of]
  BY <1>2 DEF NamesOf
<1> QED BY <1>1, <1>3

LEMMA WriteMore ==
  ASSUME NEW r, ResponseOK(r), NEW c \in StatusType, NEW ps \in Seq(Authors), NEW W, Gone(r, c, ps, W),
         NEW piece \in PieceType
  PROVE  Becomes(r, Write(r, piece), c, ps \o <<piece.of>>, W) /\ ps \o <<piece.of>> \in Seq(Authors)
<1>1. <<piece>> \in Seq(PieceType) /\ NamesOf(<<piece>>) = <<piece.of>>
  BY OnePiece
<1>2. /\ Becomes(r, Put(r, Top(r), <<piece>>), c, ps \o NamesOf(<<piece>>), W)
      /\ ps \o NamesOf(<<piece>>) \in Seq(Authors)
  BY <1>1, PutMore
<1> QED BY <1>1, <1>2 DEF Write

LEMMA FlushMore ==
  ASSUME NEW r, ResponseOK(r), NEW c \in StatusType, NEW ps \in Seq(Authors), NEW W, Gone(r, c, ps, W)
  PROVE  Becomes(r, Flush(r), c, ps, W)
<1> DEFINE n == Len(r.layers)
           s == FlushAt(r, n)
<1>1. n \in Nat /\ Flush(r) = s
  BY DEF ResponseOK, LayersOK, Flush, Top
<1>2. ResponseOK(s) /\ SameForm(r, s) /\ Len(s.layers) = n
  BY <1>1, FlushAtOK DEF SameForm
<1>3. Reached(s, n, c, ps, W)
  BY <1>1, FlushDown DEF Gone
<1> QED BY <1>1, <1>2, <1>3 DEF Becomes, Gone

(* One writes c and ps, unless the request is a HEAD.                      *)
Tells(r, s, c, ps, W) == \E qs \in {<<>>, ps} : Becomes(r, s, c, qs, W) /\ (r.head \/ qs = ps)

LEMMA SameFormBecomes ==
  ASSUME NEW q, NEW r, SameForm(q, r), NEW s, NEW c, NEW ps, NEW W, Becomes(r, s, c, ps, W)
  PROVE  Becomes(q, s, c, ps, W)
BY SameFormTransitive DEF Becomes

(* The payload of a response whose header has been sent.                   *)
LEMMA PayloadDown ==
  ASSUME NEW r, ResponseOK(r), NEW c \in StatusType, NEW W, Gone(r, c, <<>>, W),
         NEW status, BodyAllowed(status), NEW piece \in PieceType
  PROVE  Tells(r, Payload(r, status, piece), c, <<piece.of>>, W)
<1>1. <<>> \in Seq(Authors) /\ <<>> \o <<piece.of>> = <<piece.of>>
  BY DEF PieceType
<1>2. Becomes(r, Write(r, piece), c, <<>> \o <<piece.of>>, W)
  BY <1>1, WriteMore
<1>3. Becomes(r, r, c, <<>>, W)
  BY SameFormItself DEF Becomes
<1>4. CASE r.head
  BY <1>3, <1>4 DEF Payload, Tells
<1>5. CASE ~r.head
  BY <1>1, <1>2, <1>5 DEF Payload, Tells
<1> QED BY <1>4, <1>5

LEMMA TellsAfter ==
  ASSUME NEW q, NEW r, SameForm(q, r), NEW s, NEW c, NEW ps, NEW W, Tells(r, s, c, ps, W)
  PROVE  Tells(q, s, c, ps, W)
<1>1. PICK qs \in {<<>>, ps} : Becomes(r, s, c, qs, W) /\ (r.head \/ qs = ps)
  BY DEF Tells
<1>2. Becomes(q, s, c, qs, W) /\ r.head = q.head
  BY <1>1, SameFormBecomes DEF SameForm
<1> QED BY <1>1, <1>2 DEF Tells

Typed_(r, ctype) == SetHeaderTo(r, SetHeader(r.header, "Content-Type", ctype))

LEMMA WriteBodyIs ==
  ASSUME NEW r, ~Written(r), NEW status, NEW ctype, NEW piece
  PROVE  WriteBody(r, status, ctype, piece) = Payload(WriteHeader(Typed_(r, ctype), status), status, piece)
BY DEF WriteBody, Typed_, SetHeaderTo

LEMMA WriteBodyDown ==
  ASSUME NEW r, ResponseOK(r), Silence(r), NEW W, Promised(r.header, W), NEW status \in StatusType, status # 0,
         BodyAllowed(status), NEW ctype, NEW piece \in PieceType
  PROVE  Tells(r, WriteBody(r, status, ctype, piece), status, <<piece.of>>, W)
<1> DEFINE h == SetHeader(r.header, "Content-Type", ctype)
           s == SetHeaderTo(r, h)
           u == WriteHeader(s, status)
<1>1. ~Written(r)
  BY SilenceUnwritten
<1>2. ResponseOK(s) /\ SameForm(r, s) /\ s.header = h /\ Silence(s)
  <2> HIDE DEF h
  <2> QED BY HeaderSet
<1>3. Promised(h, W)
  BY StillPromised
<1>4. WriteBody(r, status, ctype, piece) = Payload(u, status, piece)
  BY <1>1, WriteBodyIs DEF Typed_
<1> HIDE DEF s, h
<1>5. Becomes(s, u, status, <<>>, W)
  BY <1>2, <1>3, OpenDown
<1>6. ResponseOK(u) /\ SameForm(s, u) /\ Gone(u, status, <<>>, W)
  BY <1>5 DEF Becomes
<1> HIDE DEF u
<1>7. Tells(u, Payload(u, status, piece), status, <<piece.of>>, W)
  BY <1>6, PayloadDown
<1>8. SameForm(r, u)
  BY <1>2, <1>6, SameFormTransitive
<1> QED BY <1>4, <1>7, <1>8, TellsAfter

LEMMA WriteHeaderDown ==
  ASSUME NEW r, ResponseOK(r), Silence(r), NEW W, Promised(r.header, W), NEW c \in StatusType, c # 0
  PROVE  Tells(r, WriteHeader(r, c), c, <<>>, W)
BY OpenDown DEF Tells

LEMMA WriteAllDown ==
  ASSUME NEW r, ResponseOK(r), Silence(r), NEW W, Promised(r.header, W), NEW c \in StatusType, c # 0,
         NEW piece \in PieceType
  PROVE  Tells(r, Write(WriteHeader(r, c), piece), c, <<piece.of>>, W)
<1> DEFINE u == WriteHeader(r, c)
<1>1. ResponseOK(u) /\ SameForm(r, u) /\ Gone(u, c, <<>>, W)
  BY OpenDown DEF Becomes
<1>2. <<>> \in Seq(Authors) /\ <<>> \o <<piece.of>> = <<piece.of>>
  BY DEF PieceType
<1> HIDE DEF u
<1>3. Becomes(u, Write(u, piece), c, <<>> \o <<piece.of>>, W)
  BY <1>1, <1>2, WriteMore
<1>4. Tells(u, Write(u, piece), c, <<piece.of>>, W)
  BY <1>2, <1>3 DEF Tells
<1> QED BY <1>1, <1>4, TellsAfter DEF u

(* A hook registered with Before.                                          *)
LEMMA BeforeIs ==
  ASSUME NEW r, ResponseOK(r), Silence(r), NEW hook
  PROVE  LET n == Top(r)
             s == WithLayer(r, n, WithBefore(r.layers[n], <<hook>>), r.header, r.wire)
         IN /\ Before(r, hook) = s
            /\ AtIs(r, n, WithBefore(r.layers[n], <<hook>>), r.header, r.wire, s)
<1> DEFINE n == Top(r)
           l == r.layers[n]
           m == WithBefore(l, <<hook>>)
           s == WithLayer(r, n, m, r.header, r.wire)
<1>1. n \in 1..Len(r.layers) /\ ~Written(r)
  BY TopLayer, SilenceUnwritten
<1> HIDE DEF n
<1>2. n \in DOMAIN r.layers /\ r = WithLayer(r, n, l, r.header, r.wire)
  BY <1>1, AtHere
<1>3. l.before = <<>> /\ LayerOK(l) /\ WireOK(r.wire)
  BY <1>1, FreshIs, LayerIn DEF Silence
<1>4. Before(r, hook) = SetBefore(r, n, <<hook>>)
  <2>1. Append(l.before, hook) = <<hook>>
    BY <1>3
  <2>2. Before(r, hook) = [r EXCEPT !.layers[n].before = Append(@, hook)]
    BY <1>1 DEF Before, n
  <2>3. [r EXCEPT !.layers[n].before = Append(@, hook)] = SetBefore(r, n, Append(l.before, hook))
    BY DEF SetBefore
  <2> QED BY <2>1, <2>2, <2>3
<1>5. SetBefore(WithLayer(r, n, l, r.header, r.wire), n, <<hook>>) = s
  <2> HIDE DEF l
  <2> QED BY <1>2, AtBefore
<1>6. SetBefore(r, n, <<hook>>) = s
  BY <1>2, <1>5
<1>7. LayerOK(m) /\ m.kind = l.kind
  BY <1>3 DEF LayerOK, WithBefore
<1>8. AtIs(r, n, m, r.header, r.wire, s)
  BY <1>1, <1>3, <1>7, AtOK
<1> QED BY <1>4, <1>6, <1>8 DEF n

Opens(r, i, c, h) == [r EXCEPT !.header = h, !.layers[i].before = <<>>, !.layers[i].status = c]

LEMMA OpensIs ==
  ASSUME NEW r, ResponseOK(r), NEW i \in 1..Len(r.layers), NEW c, NEW h
  PROVE  Opens(r, i, c, h) = WithLayer(r, i, Upped(r.layers[i], c), h, r.wire)
BY UpdateFirst DEF Opens

LEMMA HeaderSame ==
  ASSUME NEW r, ResponseOK(r), NEW s, ResponseOK(s), NEW i \in 1..Len(r.layers), Len(s.layers) = Len(r.layers),
         NEW l, s.layers = [r.layers EXCEPT ![i] = l], NEW c, Upped(l, c) = Upped(r.layers[i], c),
         s.wire = r.wire, s.head = r.head,
         r.layers[i].status = 0, l.status = 0, Hooked(s, i) = Hooked(r, i)
  PROVE  HeaderAt(s, i, c) = HeaderAt(r, i, c)
<1> DEFINE h == Hooked(r, i)
           L == r.layers
           M == s.layers
           u == Upped(l, c)
           x == Opens(r, i, c, h)
           y == Opens(s, i, c, h)
<1>1. x = WithLayer(r, i, u, h, r.wire)
  <2> HIDE DEF h
  <2> QED BY OpensIs
<1>2. i \in DOMAIN L /\ i \in 1..Len(s.layers) /\ M[i] = l
  BY AtHere
<1>3. y = WithLayer(s, i, u, h, r.wire)
  <2> HIDE DEF h
  <2> QED BY <1>2, OpensIs
<1>4. [M EXCEPT ![i] = u] = [L EXCEPT ![i] = u]
  <2> HIDE DEF L, u
  <2> QED BY <1>2, LayerTwice DEF L
<1>5. x = y
  <2> HIDE DEF x, y, h, u
  <2> QED BY <1>1, <1>3, <1>4 DEF WithLayer
<1>6. HeaderAt(r, i, c) = UnderHeader(x, i, c)
  BY DEF HeaderAt, Opens
<1>7. HeaderAt(s, i, c) = UnderHeader(y, i, c)
  BY <1>2 DEF HeaderAt, Opens
<1> QED BY <1>5, <1>6, <1>7

HookHeader(r, ctype, name, value) == SetHeader(SetHeader(r.header, "Content-Type", ctype), name, value)

LEMMA HookDown ==
  ASSUME NEW r, ResponseOK(r), Silence(r), NEW name, NEW value, NEW W, NEW status \in StatusType, status # 0,
         BodyAllowed(status), NEW ctype, NEW piece \in PieceType,
         Promised(HookHeader(r, ctype, name, value), W)
  PROVE  Tells(r, WriteBody(Before(r, <<name, value>>), status, ctype, piece), status, <<piece.of>>, W)
<1> DEFINE n == Top(r)
           hook == <<name, value>>
           l == r.layers[n]
           m == WithBefore(l, <<hook>>)
           b == WithLayer(r, n, m, r.header, r.wire)
           h == SetHeader(r.header, "Content-Type", ctype)
           x == SetHeaderTo(b, h)
           y == SetHeaderTo(r, SetHeader(h, name, value))
<1>1. n \in 1..Len(r.layers) /\ n \in Nat \ {0} /\ n = Len(r.layers)
  BY TopLayer
<1>2. Before(r, hook) = b /\ AtIs(r, n, m, r.header, r.wire, b)
  <2> HIDE DEF hook
  <2> QED BY BeforeIs
<1>3. l.status = 0 /\ l.before = <<>> /\ LayerOK(l)
  BY <1>1, FreshIs, LayerIn DEF Silence
<1>4. m.status = 0 /\ m.before = <<hook>> /\ Upped(m, status) = Upped(l, status)
  <2> HIDE DEF hook, l
  <2> QED BY <1>3 DEF LayerOK, WithBefore, Upped
<1>5. /\ ResponseOK(b) /\ Len(b.layers) = Len(r.layers) /\ b.layers[n] = m
      /\ b.header = r.header /\ b.wire = r.wire /\ b.head = r.head
  BY <1>1, <1>2 DEF AtIs
<1>6. b.layers = [r.layers EXCEPT ![n] = m]
  <2> HIDE DEF m
  <2> QED BY DEF WithLayer, Response
<1> HIDE DEF b
<1>7. ResponseOK(x) /\ x.layers = b.layers /\ x.header = h /\ SameForm(b, x) /\ x.head = b.head
  <2> HIDE DEF h
  <2> QED BY <1>5, HeaderSet DEF SameForm
<1>8. ResponseOK(y) /\ y.layers = r.layers /\ y.header = SetHeader(h, name, value) /\ SameForm(r, y) /\ Silence(y) /\ y.head = r.head
  BY HeaderSet DEF SameForm
<1>9. x.wire = b.wire /\ y.wire = r.wire
  <2>1. ASSUME NEW s, ResponseOK(s), NEW g PROVE SetHeaderTo(s, g).wire = s.wire
    BY <2>1 DEF SetHeaderTo, ResponseOK, Response
  <2> HIDE DEF h
  <2> QED BY <1>5, <2>1
<1>10. ~Written(b) /\ Top(b) = n
  <2>1. Top(b) = n /\ Status(b) = b.layers[Top(b)].status
    BY <1>1, <1>5, TopLayer
  <2> QED BY <1>4, <1>5, <2>1 DEF Written
<1>11. WriteBody(b, status, ctype, piece) = Payload(WriteHeader(x, status), status, piece)
  BY <1>5, <1>10, WriteBodyIs DEF Typed_
<1> HIDE DEF m
<1>12. Hooked(x, n) = Hooked(y, n)
  <2>1. x.layers[n].before = <<<<name, value>>>> /\ y.layers[n].before = <<>>
    BY <1>3, <1>4, <1>5, <1>7, <1>8
  <2> HIDE DEF x, y, h
  <2>2. Hooked(x, n) = SetHeader(x.header, name, value)
    BY <2>1, HookedOne
  <2>3. Hooked(y, n) = y.header
    BY <2>1, HookedNone
  <2> QED BY <1>7, <1>8, <2>2, <2>3
<1> HIDE DEF x, y, h, l, hook, n
<1>13. HeaderAt(x, n, status) = HeaderAt(y, n, status)
  <2>1. /\ n \in 1..Len(y.layers) /\ Len(x.layers) = Len(y.layers)
        /\ x.layers = [y.layers EXCEPT ![n] = m] /\ Upped(m, status) = Upped(y.layers[n], status)
        /\ x.wire = y.wire /\ x.head = y.head /\ y.layers[n].status = 0 /\ m.status = 0
    BY <1>1, <1>3, <1>4, <1>5, <1>6, <1>7, <1>8, <1>9 DEF l
  <2> QED BY <1>7, <1>8, <1>12, <2>1, HeaderSame
<1>14. WriteHeader(x, status) = WriteHeader(y, status)
  <2>1. \A i \in Nat \ {0} : Commit(x, i, status) = Commit(HeaderAt(x, i, status).r, i - 1, HeaderAt(x, i, status).code)
    BY CommitFrom
  <2>2. \A i \in Nat \ {0} : Commit(y, i, status) = Commit(HeaderAt(y, i, status).r, i - 1, HeaderAt(y, i, status).code)
    BY CommitFrom
  <2>3. Commit(x, n, status) = Commit(y, n, status)
    BY <1>1, <1>13, <2>1, <2>2
  <2>4. Top(x) = n /\ Top(y) = n
    BY <1>1, <1>5, <1>7, <1>8 DEF Top
  <2> QED BY <2>3, <2>4 DEF WriteHeader
<1> DEFINE u == WriteHeader(y, status)
<1>15. ResponseOK(u) /\ SameForm(y, u) /\ Gone(u, status, <<>>, W)
  <2>1. Promised(y.header, W)
    BY <1>8 DEF HookHeader, h
  <2> QED BY <1>8, <2>1, OpenDown DEF Becomes
<1> HIDE DEF u
<1>16. Tells(u, Payload(u, status, piece), status, <<piece.of>>, W)
  BY <1>15, PayloadDown
<1>17. SameForm(r, u)
  BY <1>8, <1>15, SameFormTransitive
<1>18. WriteBody(Before(r, <<name, value>>), status, ctype, piece) = Payload(u, status, piece)
  BY <1>2, <1>11, <1>14 DEF u, hook
<1> QED BY <1>16, <1>17, <1>18, TellsAfter

(* What the cache replays.                                                 *)
LEMMA ReplayDown ==
  ASSUME NEW r, ResponseOK(r), Silence(r), NEW stored, stored.status \in StatusType, stored.status # 0,
         stored.body \in Seq(PieceType), NEW extra
  PROVE  Tells(r, Replay(r, stored, extra), stored.status, NamesOf(stored.body), {})
<1> DEFINE set == stored.header \cup extra
           h == {p \in r.header : \A q \in set : q[1] # p[1]} \cup set
           s == SetHeaderTo(r, h)
           u == WriteHeader(s, stored.status)
           c == stored.status
           body == stored.body
<1>1. Replay(r, stored, extra) = Put(u, Top(r), body)
  BY DEF Replay, SetHeaderTo
<1> HIDE DEF h
<1>2. ResponseOK(s) /\ SameForm(r, s) /\ Silence(s)
  BY HeaderSet
<1> HIDE DEF s, c, body
<1>3. c \in StatusType /\ c # 0 /\ body \in Seq(PieceType) /\ Promised(s.header, {})
  BY PromisesNone DEF c, body
<1>4. Becomes(s, u, c, <<>>, {})
  BY <1>2, <1>3, OpenDown DEF c
<1>5. ResponseOK(u) /\ SameForm(r, u) /\ Gone(u, c, <<>>, {})
  BY <1>2, <1>4, SameFormTransitive DEF Becomes
<1> HIDE DEF u
<1>6. <<>> \in Seq(Authors) /\ NamesOf(body) \in Seq(Authors) /\ <<>> \o NamesOf(body) = NamesOf(body)
  <2>1. NamesOf(body) \in Seq(Authors)
    BY <1>3, NamesAre
  <2> QED BY <2>1
<1>7. Becomes(u, Put(u, Top(u), body), c, <<>> \o NamesOf(body), {})
  BY <1>3, <1>5, <1>6, PutMore
<1>8. Top(u) = Top(r)
  BY <1>5 DEF Top, SameForm
<1>9. Tells(u, Put(u, Top(u), body), c, NamesOf(body), {})
  BY <1>6, <1>7 DEF Tells
<1>10. Tells(r, Put(u, Top(u), body), c, NamesOf(body), {})
  BY <1>5, <1>9, TellsAfter
<1> QED BY <1>1, <1>8, <1>10 DEF c, body

(* The header, then a flush after each of two pieces.                      *)
LEMMA StreamDown ==
  ASSUME NEW r, ResponseOK(r), Silence(r), NEW W, Promised(r.header, W), NEW c \in StatusType, c # 0,
         NEW piece \in PieceType
  PROVE  Tells(r, Flush(Write(Flush(Write(WriteHeader(r, c), piece)), piece)), c, <<piece.of, piece.of>>, W)
<1> DEFINE u == WriteHeader(r, c)
           v == Write(u, piece)
           w == Flush(v)
           x == Write(w, piece)
           y == Flush(x)
           one == <<piece.of>>
           two == <<piece.of, piece.of>>
<1>1. <<>> \in Seq(Authors) /\ <<>> \o one = one /\ one \o one = two /\ one \in Seq(Authors) /\ two \in Seq(Authors)
  <2> DEFINE e == piece.of
  <2>1. e \in Authors
    BY DEF PieceType
  <2> HIDE DEF e
  <2>2. /\ <<>> \o <<e>> = <<e>> /\ <<e>> \o <<e>> = <<e, e>>
        /\ <<>> \in Seq(Authors) /\ <<e>> \in Seq(Authors) /\ <<e, e>> \in Seq(Authors)
    BY <2>1, SaidTwice
  <2> QED BY <2>2 DEF e
<1>2. Becomes(r, u, c, <<>>, W)
  BY OpenDown
<1> HIDE DEF u, one, two
<1>3. Becomes(u, v, c, one, W)
  <2>1. Becomes(u, v, c, <<>> \o one, W)
    BY <1>1, <1>2, WriteMore DEF Becomes, one
  <2> QED BY <1>1, <2>1
<1> HIDE DEF v
<1>4. Becomes(v, w, c, one, W)
  BY <1>1, <1>3, FlushMore DEF Becomes
<1> HIDE DEF w
<1>5. Becomes(w, x, c, two, W)
  <2>1. Becomes(w, x, c, one \o one, W)
    BY <1>1, <1>4, WriteMore DEF Becomes, one
  <2> QED BY <1>1, <2>1
<1> HIDE DEF x
<1>6. Becomes(x, y, c, two, W)
  BY <1>1, <1>5, FlushMore DEF Becomes
<1> HIDE DEF y
<1>7. SameForm(r, u) /\ SameForm(u, v) /\ SameForm(v, w) /\ SameForm(w, x)
  BY <1>2, <1>3, <1>4, <1>5 DEF Becomes
<1>8. SameForm(r, x)
  BY <1>7, SameFormTransitive
<1>9. Becomes(r, y, c, two, W)
  BY <1>6, <1>8, SameFormBecomes
<1> QED BY <1>9 DEF Tells, u, v, w, x, y, two

(* Writers over and under one another.                                     *)
Cut(r, n) == [r EXCEPT !.layers = SubSeq(@, 1, n)]
CutTo(r, n, s) ==
  /\ ResponseOK(s) /\ Len(s.layers) = n /\ s.head = r.head /\ s.header = r.header
  /\ \A k \in 1..n : s.layers[k] = r.layers[k]

LEMMA CutIs ==
  ASSUME NEW r, ResponseOK(r), NEW n \in 1..Len(r.layers)
  PROVE  CutTo(r, n, Cut(r, n))
<1> DEFINE ls == SubSeq(r.layers, 1, n)
           s == Cut(r, n)
<1>1. /\ r = Response(r.layers, r.header, r.wire, r.head) /\ IsList(r.layers) /\ Len(r.layers) \in Nat
      /\ \A i \in 1..Len(r.layers) : LayerOK(r.layers[i]) /\ (r.layers[i].kind = "own") = (i = 1)
  BY DEF ResponseOK, LayersOK
<1>2. IsList(ls) /\ Len(ls) = n /\ DOMAIN ls = 1..n /\ \A k \in 1..n : ls[k] = r.layers[k]
  BY <1>1, SubList
<1>3. s = Response(ls, r.header, r.wire, r.head)
  <2> HIDE DEF ls
  <2>1. [r EXCEPT !.layers = ls] = Response(ls, r.header, r.wire, r.head)
    BY <1>1 DEF Response
  <2> QED BY <2>1 DEF Cut, ls
<1> HIDE DEF ls, s
<1>4. s.layers = ls /\ s.header = r.header /\ s.wire = r.wire /\ s.head = r.head
  BY <1>3 DEF Response
<1>5. LayersOK(ls)
  BY <1>1, <1>2 DEF LayersOK
<1>6. ResponseOK(s)
  BY <1>3, <1>4, <1>5 DEF ResponseOK
<1> QED BY <1>2, <1>4, <1>6 DEF CutTo, s

LEMMA UncoverIs ==
  ASSUME NEW r, ResponseOK(r), Len(r.layers) >= 2
  PROVE  CutTo(r, Len(r.layers) - 1, Uncover(r))
<1>1. Len(r.layers) \in Nat /\ Len(r.layers) - 1 \in 1..Len(r.layers)
  BY DEF ResponseOK, LayersOK
<1>2. Uncover(r) = Cut(r, Len(r.layers) - 1)
  BY DEF Uncover, Cut, Front
<1> QED BY <1>1, <1>2, CutIs

LEMMA CoverIs ==
  ASSUME NEW r, ResponseOK(r), NEW kind \in {"gzip", "record", "std"}
  PROVE  LET s == Cover(r, kind)
             n == Len(r.layers) + 1
         IN /\ ResponseOK(s) /\ Len(s.layers) = n /\ s.head = r.head /\ s.header = r.header
            /\ \A k \in 1..Len(r.layers) : s.layers[k] = r.layers[k]
            /\ s.layers[n].kind = kind /\ (Silence(r) => Silence(s))
<1> DEFINE l == Layer(kind)
           ls == Append(r.layers, l)
           s == Cover(r, kind)
           m == Len(r.layers)
           n == m + 1
<1>1. /\ r = Response(r.layers, r.header, r.wire, r.head) /\ IsList(r.layers) /\ m \in Nat /\ m >= 1
      /\ \A i \in 1..m : LayerOK(r.layers[i]) /\ (r.layers[i].kind = "own") = (i = 1)
  BY DEF ResponseOK, LayersOK
<1>2. LayerOK(l) /\ l.kind = kind
  BY DEF Layer, LayerOK, StatusType
<1>3. Fresh(l)
  BY <1>2 DEF Fresh, Layer
<1> HIDE DEF l
<1>4. IsList(ls) /\ Len(ls) = n /\ (\A k \in 1..m : ls[k] = r.layers[k]) /\ ls[n] = l
  BY <1>1, ListAppend
<1>5. DOMAIN ls = 1..n
  <2> HIDE DEF ls
  <2> QED BY <1>4, ListIs
<1>6. s = Response(ls, r.header, r.wire, r.head)
  BY <1>1 DEF Cover, Response, l
<1> HIDE DEF ls, s
<1>7. s.layers = ls /\ s.header = r.header /\ s.wire = r.wire /\ s.head = r.head
  BY <1>6 DEF Response
<1>8. \A k \in 1..n : k \in 1..m \/ k = n
  BY <1>1
<1>9. LayersOK(ls)
  <2>1. n \in Nat /\ n >= 1 /\ n # 1
    BY <1>1
  <2>2. \A k \in 1..n : LayerOK(ls[k]) /\ (ls[k].kind = "own") = (k = 1)
    BY <1>1, <1>2, <1>4, <1>8, <2>1
  <2> QED BY <1>4, <1>5, <2>1, <2>2 DEF LayersOK
<1>10. ResponseOK(s)
  BY <1>1, <1>6, <1>7, <1>9 DEF ResponseOK
<1>11. Silence(r) => Silence(s)
  BY <1>3, <1>4, <1>7, <1>8 DEF Silence
<1> QED BY <1>2, <1>4, <1>7, <1>10, <1>11 DEF s

LEMMA CutSilence ==
  ASSUME NEW r, Silence(r), NEW n, NEW s, CutTo(r, n, s), Len(r.layers) \in Nat, n <= Len(r.layers)
  PROVE  Silence(s)
<1>1. \A k \in 1..n : k \in 1..Len(r.layers)
  BY DEF CutTo, ResponseOK, LayersOK
<1> QED BY <1>1 DEF CutTo, Silence

LEMMA CutGone ==
  ASSUME NEW r, NEW n \in Nat, NEW s, CutTo(r, n, s), Len(r.layers) \in Nat, n <= Len(r.layers),
         NEW c, NEW ps, NEW W, Reached(r, n, c, ps, W)
  PROVE  Gone(s, c, ps, W)
<1>1. PICK g \in 0..n : Frontier(r, g, 0, c, ps, ps, W)
  BY DEF Reached
<1>2. \A k \in 1..n : k \in 1..Len(r.layers) /\ s.layers[k] = r.layers[k] /\ Len(s.layers) = n
  BY DEF CutTo
<1>3. g # 0 => g \in 1..n
  BY <1>1
<1>4. Len(s.layers) = n /\ s.header = r.header
  BY DEF CutTo
<1>5. Frontier(s, g, 0, c, ps, ps, W)
  BY <1>1, <1>2, <1>3, <1>4 DEF Frontier
<1> HIDE DEF Frontier
<1> QED BY <1>4, <1>5 DEF Gone, Reached

LEMMA TopPassed ==
  ASSUME NEW r, ResponseOK(r), NEW c, NEW ps, NEW W, Gone(r, c, ps, W),
         LET l == r.layers[Len(r.layers)] IN l.kind # "gzip" \/ l.decided
  PROVE  Reached(r, Len(r.layers) - 1, c, ps, W) /\ Passed(r.layers[Len(r.layers)], c, ps, W)
<1> DEFINE n == Len(r.layers)
<1>1. n \in Nat /\ n >= 1 /\ n \in 1..n
  BY DEF ResponseOK, LayersOK
<1>2. PICK g \in 0..n : Frontier(r, g, 0, c, ps, ps, W)
  BY DEF Gone, Reached
<1>3. g # n
  BY <1>1, <1>2 DEF Frontier, Held
<1>4. g < n /\ g \in 0..(n - 1) /\ n - 1 <= n /\ ~(n <= 0)
  BY <1>1, <1>3
<1>5. Passed(r.layers[n], c, ps, W)
  BY <1>1, <1>2, <1>4 DEF Frontier
<1>6. Reached(r, n - 1, c, ps, W)
  <2> HIDE DEF Frontier
  <2> QED BY <1>2, <1>4 DEF Reached
<1> QED BY <1>5, <1>6

LEMMA UncoverGone ==
  ASSUME NEW r, ResponseOK(r), Len(r.layers) >= 2, NEW c, NEW ps, NEW W, Gone(r, c, ps, W),
         LET l == r.layers[Len(r.layers)] IN l.kind # "gzip" \/ l.decided
  PROVE  Gone(Uncover(r), c, ps, W)
<1> DEFINE n == Len(r.layers)
           l == r.layers[n]
<1>1. n \in Nat /\ n - 1 \in Nat /\ n - 1 <= n
  BY DEF ResponseOK, LayersOK
<1>2. Reached(r, n - 1, c, ps, W)
  BY TopPassed
<1>3. CutTo(r, n - 1, Uncover(r))
  BY UncoverIs
<1> HIDE DEF n
<1> QED BY <1>1, <1>2, <1>3, CutGone DEF n

(* One writer less.                                                        *)
Lowered(r, s) ==
  /\ ResponseOK(s) /\ s.head = r.head /\ Len(s.layers) = Len(r.layers) - 1
  /\ \A k \in 1..Len(s.layers) : s.layers[k].kind = r.layers[k].kind

LEMMA UncoverLowers ==
  ASSUME NEW r, ResponseOK(r), Len(r.layers) >= 2
  PROVE  Lowered(r, Uncover(r)) /\ (Silence(r) => Silence(Uncover(r)))
<1>1. Len(r.layers) \in Nat /\ Len(r.layers) - 1 <= Len(r.layers)
  BY DEF ResponseOK, LayersOK
<1>2. CutTo(r, Len(r.layers) - 1, Uncover(r))
  BY UncoverIs
<1>3. Lowered(r, Uncover(r))
  BY <1>2 DEF CutTo, Lowered
<1>4. Silence(r) => Silence(Uncover(r))
  BY <1>1, <1>2, CutSilence
<1> QED BY <1>3, <1>4

LEMMA LoweredSameForm ==
  ASSUME NEW r, NEW s, NEW t, SameForm(r, s), Lowered(s, t), Len(r.layers) \in Nat
  PROVE  Lowered(r, t)
<1>1. Len(t.layers) = Len(r.layers) - 1 /\ \A k \in 1..Len(t.layers) : k \in 1..Len(r.layers)
  BY DEF SameForm, Lowered
<1> QED BY <1>1 DEF SameForm, Lowered

CloseNow(r) == r.layers[Top(r)].code # 0 /\ ~r.layers[Top(r)].decided

LEMMA CloseGzipIs ==
  ASSUME NEW r
  PROVE  /\ CloseNow(r) => CloseGzip(r) = Uncover(Sink(Decide(r, Top(r), SomeBig(r.layers[Top(r)].buf)), Top(r)))
         /\ ~CloseNow(r) => CloseGzip(r) = Uncover(r)
BY DEF CloseGzip, CloseNow

LEMMA CloseSinks ==
  ASSUME NEW r, ResponseOK(r)
  PROVE  LET s == Sink(Decide(r, Top(r), SomeBig(r.layers[Top(r)].buf)), Top(r))
         IN ResponseOK(s) /\ SameForm(r, s)
<1> DEFINE i == Top(r)
           big == SomeBig(r.layers[i].buf)
<1>1. i \in 1..Len(r.layers) /\ big \in BOOLEAN
  BY TopLayer DEF SomeBig
<1> HIDE DEF i, big
<1>2. FlowOK(r, Decide(r, i, big))
  BY <1>1, DecideOK
<1>3. ResponseOK(Sink(Decide(r, i, big), i)) /\ SameForm(r, Sink(Decide(r, i, big), i))
  BY <1>1, <1>2, SinkOK
<1> QED BY <1>3 DEF i, big

LEMMA CloseGzipLowers ==
  ASSUME NEW r, ResponseOK(r), Len(r.layers) >= 2
  PROVE  Lowered(r, CloseGzip(r)) /\ (Silence(r) => Silence(CloseGzip(r)))
<1> DEFINE s == Sink(Decide(r, Top(r), SomeBig(r.layers[Top(r)].buf)), Top(r))
<1>1. ResponseOK(s) /\ SameForm(r, s)
  BY CloseSinks
<1>2. CloseNow(r) => CloseGzip(r) = Uncover(s)
  BY CloseGzipIs
<1> HIDE DEF s
<1>3. Len(r.layers) \in Nat /\ Len(s.layers) >= 2
  BY <1>1 DEF ResponseOK, LayersOK, SameForm
<1>4. Lowered(r, Uncover(s))
  BY <1>1, <1>3, UncoverLowers, LoweredSameForm
<1>5. Lowered(r, CloseGzip(r))
  BY <1>2, <1>4, CloseGzipIs, UncoverLowers
<1>6. ASSUME Silence(r) PROVE Silence(CloseGzip(r))
  <2>1. ~CloseNow(r)
    BY <1>6, TopLayer, FreshIs DEF CloseNow, Silence
  <2> QED BY <1>6, <2>1, CloseGzipIs, UncoverLowers
<1> QED BY <1>5, <1>6

LEMMA CloseGzipGone ==
  ASSUME NEW r, ResponseOK(r), Len(r.layers) >= 2, r.layers[Len(r.layers)].kind = "gzip",
         NEW c \in StatusType, NEW ps \in Seq(Authors), NEW W, Gone(r, c, ps, W)
  PROVE  Gone(CloseGzip(r), c, ps, W)
<1> DEFINE n == Len(r.layers)
           l == r.layers[n]
           big == SomeBig(l.buf)
           s == Sink(Decide(r, n, big), n)
<1>1. n \in Nat \ {0} /\ n - 1 \in Nat /\ n - 1 <= n /\ Top(r) = n /\ big \in BOOLEAN
  BY TopLayer DEF SomeBig
<1>2. CASE l.decided
  <2>1. CloseGzip(r) = Uncover(r)
    BY <1>1, <1>2, CloseGzipIs DEF CloseNow
  <2> QED BY <1>2, <2>1, UncoverGone
<1>3. CASE ~l.decided
  <2>1. Frontier(r, n, 0, c, ps, ps, W)
    <3>1. PICK g \in 0..n : Frontier(r, g, 0, c, ps, ps, W)
      BY DEF Gone, Reached
    <3>2. n \in 1..n /\ (n > g => Passed(l, c, ps, W))
      BY <1>1, <3>1 DEF Frontier
    <3>3. ~(n > g)
      BY <1>3, <3>2 DEF Passed
    <3>4. g = n
      BY <1>1, <3>1, <3>3
    <3> QED BY <3>1, <3>4
  <2>2. Releasing(r, n, c, ps, W)
    BY <1>1, <2>1, HeldReleases
  <2>3. CloseNow(r)
    BY <1>1, <1>3, <2>2 DEF CloseNow, Releasing
  <2>4. CloseGzip(r) = Uncover(s)
    BY <1>1, <2>3, CloseGzipIs
  <2>5. ResponseOK(s) /\ SameForm(r, s) /\ Len(s.layers) = n
    BY <1>1, CloseSinks DEF SameForm
  <2>6. Reached(s, n - 1, c, ps, W)
    <3> HIDE DEF big
    <3> QED BY <1>1, <2>2, DecideDown
  <2> HIDE DEF s
  <2>7. CutTo(s, n - 1, Uncover(s))
    BY <1>1, <2>5, UncoverIs
  <2>8. Gone(Uncover(s), c, ps, W)
    <3> HIDE DEF n
    <3> QED BY <1>1, <2>5, <2>6, <2>7, CutGone
  <2> QED BY <2>4, <2>8
<1> QED BY <1>2, <1>3

(* What the recorder under the last stage has.                             *)
LEMMA CapturedIs ==
  ASSUME NEW r, ResponseOK(r), r.layers[Len(r.layers)].kind = "record",
         NEW c, NEW ps, NEW W, Gone(r, c, ps, W), NEW s \in Captured(r)
  PROVE  /\ s.status = c /\ NamesOf(s.body) = ps /\ s.body \in Seq(PieceType)
         /\ "Set-Cookie" \notin W
         /\ "Cache-Control" \in W => NoStore \in s.header
<1> DEFINE l == r.layers[Len(r.layers)]
<1>1. Last(r.layers) = l /\ LayerOK(l)
  BY TopLayer, LayerIn
<1>2. Passed(l, c, ps, W)
  BY TopPassed
<1>3. s = [status |-> l.code, header |-> l.kept, body |-> l.buf] /\ ~l.overflow
  <2> HIDE DEF l
  <2> QED BY <1>1 DEF Captured
<1>4. Recorded(l, c, ps, W)
  BY <1>2 DEF Passed
<1> HIDE DEF l
<1>5. s.status = l.code /\ s.header = l.kept /\ s.body = l.buf
  BY <1>3
<1>6. l.buf \in Seq(PieceType)
  BY <1>1 DEF LayerOK
<1> QED BY <1>3, <1>4, <1>5, <1>6 DEF Recorded

LEMMA CapturedNone ==
  ASSUME NEW r, ResponseOK(r), Silence(r)
  PROVE  Captured(r) = {}
BY TopLayer, FreshIs DEF Silence, Captured

LEMMA WriteHeaderOK ==
  ASSUME NEW r, ResponseOK(r), NEW c \in StatusType
  PROVE  ResponseOK(WriteHeader(r, c)) /\ SameForm(r, WriteHeader(r, c))
BY TopLayer, CommitOK DEF WriteHeader

LEMMA WriteOK ==
  ASSUME NEW r, ResponseOK(r), NEW piece \in PieceType
  PROVE  ResponseOK(Write(r, piece)) /\ SameForm(r, Write(r, piece))
<1>1. <<piece>> \in Seq(PieceType)
  BY OnePiece
<1>2. Top(r) \in Nat /\ Top(r) <= Len(r.layers)
  BY TopLayer
<1>3. ResponseOK(Put(r, Top(r), <<piece>>)) /\ SameForm(r, Put(r, Top(r), <<piece>>))
  BY <1>1, <1>2, PutOK
<1> QED BY <1>3 DEF Write

(***************************************************************************)
(* The writers of a request are those of the stages it is in, and what     *)
(* they have seen is what the program said.                                *)
(***************************************************************************)
Covers_(c, n) == {j \in 1..n : c[j].is \in Covering}
Count(c, n) == Cardinality(Covers_(c, n))
KindOver(kind) == CASE kind = "compressing" -> "gzip" [] kind = "caching" -> "record" [] OTHER -> "std"
StackedBy(c, n, r) ==
  /\ Len(r.layers) = 1 + Count(c, n)
  /\ \A j \in 1..n : c[j].is \in Covering => r.layers[1 + Count(c, j)].kind = KindOver(c[j].is)
OpenBy(c, n) == \A j \in 1..n : c[j].is \notin Covering

Marks == {"Set-Cookie", "Cache-Control"}
SaidBy(r, m) ==
  /\ m.status \in StatusType /\ m.body \in Seq(Authors) /\ m.with \subseteq Marks
  /\ \E ps \in {<<>>, m.body} : Gone(r, m.status, ps, m.with) /\ (r.head \/ ps = m.body)
Hushed(r, m) == Silence(r) /\ m = Unsaid
Coherent(r, m) == Hushed(r, m) \/ SaidBy(r, m)

Shareable == req.method \in {"GET", "HEAD"} /\ ~HasCredentials
Shared(s) ==
  /\ s.response.status = 200 /\ s.by.method = "GET"
  /\ s.by.cred.bearer = Absent /\ s.by.cred.basic = Absent /\ ~s.by.cookie
  /\ s.said.status = 200 /\ s.said.with = {}
  /\ NamesOf(s.response.body) = s.said.body /\ s.response.body \in Seq(PieceType)

StagesInv ==
  /\ IsList(chain) /\ at \in 0..Len(chain)
  /\ \A j \in 1..Len(chain) :
       /\ chain[j].is = "caching" => Shareable
       /\ chain[j].is = "recovery" => \A k \in 1..j : chain[k].is \in Builtin
  /\ dir = "in" => at >= 1 /\ \A j \in at..Len(chain) : chain[j].is \notin {"compressing", "caching"}
WayInv ==
  /\ dir = "in" => StackedBy(chain, at - 1, resp) /\ Hushed(resp, meant)
  /\ dir = "out" => OpenBy(chain, at) \/ (StackedBy(chain, at, resp) /\ Coherent(resp, meant))
  /\ dir \in {"panic", "abort"} => Len(resp.layers) >= 1 + Count(chain, at)
  /\ dir # "idle" => resp.head = (req.method = "HEAD")
StoreInv == \A s \in store : Shared(s)
Way == {"idle", "in", "out", "panic", "abort", "done", "gone"}
RecordInv ==
  /\ dir \in Way /\ exchanges \in 0..MaxExchanges /\ logged \in StatusType /\ entered \in BOOLEAN
WritersInv == ResponseOK(resp) /\ StagesInv /\ WayInv /\ StoreInv /\ RecordInv

LEMMA CountIs ==
  ASSUME NEW c, NEW n \in Nat
  PROVE  Count(c, n) \in Nat /\ IsFiniteSet(Covers_(c, n))
<1>1. IsFiniteSet(1..n)
  BY FS_Interval
<1>2. IsFiniteSet(Covers_(c, n))
  BY <1>1, FS_Subset DEF Covers_
<1> QED BY <1>2, FS_CardinalityType DEF Count

LEMMA CountMore ==
  ASSUME NEW c, NEW n \in Nat
  PROVE  Count(c, n + 1) = Count(c, n) + (IF c[n + 1].is \in Covering THEN 1 ELSE 0)
<1> DEFINE S(m) == Covers_(c, m)
<1>1. IsFiniteSet(S(n)) /\ n + 1 \notin S(n)
  <2>1. IsFiniteSet(S(n))
    BY CountIs
  <2>2. n + 1 \notin 1..n
    OBVIOUS
  <2> QED BY <2>1, <2>2 DEF Covers_
<1>2. CASE c[n + 1].is \in Covering
  <2>1. S(n + 1) = S(n) \cup {n + 1}
    BY <1>2 DEF Covers_
  <2> HIDE DEF S
  <2>2. Cardinality(S(n) \cup {n + 1}) = Cardinality(S(n)) + 1
    BY <1>1, FS_AddElement
  <2> QED BY <1>2, <2>1, <2>2 DEF Count, S
<1>3. CASE c[n + 1].is \notin Covering
  <2>1. S(n + 1) = S(n)
    BY <1>3 DEF Covers_
  <2>2. Count(c, n) \in Nat
    BY CountIs
  <2> QED BY <1>3, <2>1, <2>2 DEF Count
<1> QED BY <1>2, <1>3

LEMMA CountFrom ==
  ASSUME NEW c, NEW n \in Nat \ {0}
  PROVE  /\ Count(c, n) = Count(c, n - 1) + (IF c[n].is \in Covering THEN 1 ELSE 0)
         /\ Count(c, n - 1) \in Nat /\ Count(c, n) \in Nat
<1>1. n - 1 \in Nat /\ (n - 1) + 1 = n
  OBVIOUS
<1> DEFINE m == n - 1
<1> HIDE DEF m
<1>2. m \in Nat /\ m + 1 = n
  BY <1>1 DEF m
<1>3. Count(c, m + 1) = Count(c, m) + (IF c[m + 1].is \in Covering THEN 1 ELSE 0)
  BY <1>2, CountMore
<1>4. Count(c, m) \in Nat /\ Count(c, m + 1) \in Nat
  BY <1>2, CountIs
<1> QED BY <1>2, <1>3, <1>4 DEF m

LEMMA CountMonotone ==
  ASSUME NEW c, NEW n \in Nat, NEW m \in 0..n
  PROVE  Count(c, m) <= Count(c, n) /\ Count(c, m) \in Nat
<1> DEFINE S == Covers_(c, m)
           T == Covers_(c, n)
<1>0. S \subseteq T
  BY DEF Covers_
<1>1. IsFiniteSet(T) /\ Count(c, m) \in Nat
  <2>1. m \in Nat
    OBVIOUS
  <2> QED BY <2>1, CountIs
<1>2. Cardinality(S) <= Cardinality(T)
  BY <1>0, <1>1, FS_Subset
<1> QED BY <1>1, <1>2 DEF Count

LEMMA CountSame ==
  ASSUME NEW c, NEW d, NEW n, \A j \in 1..n : c[j].is \in Covering <=> d[j].is \in Covering
  PROVE  Count(c, n) = Count(d, n)
<1>1. Covers_(c, n) = Covers_(d, n)
  BY DEF Covers_
<1> QED BY <1>1 DEF Count

LEMMA CountNone ==
  ASSUME NEW c
  PROVE  Count(c, 0) = 0
<1>1. Covers_(c, 0) = {}
  BY DEF Covers_
<1> QED BY <1>1, FS_EmptySet DEF Count

(* The writers under a stage of a chain.                                   *)
Agree(c, d, n) ==
  \A j \in 1..n : (c[j].is \in Covering <=> d[j].is \in Covering) /\ (c[j].is \in Covering => d[j].is = c[j].is)

LEMMA StackedAgain ==
  ASSUME NEW c, NEW d, NEW n \in Nat, Agree(c, d, n), NEW r, NEW s, StackedBy(c, n, r), SameForm(r, s)
  PROVE  StackedBy(d, n, s)
<1>1. \A m \in 0..n : Count(c, m) = Count(d, m)
  <2> SUFFICES ASSUME NEW m \in 0..n PROVE Count(c, m) = Count(d, m)
    OBVIOUS
  <2>1. \A j \in 1..m : c[j].is \in Covering <=> d[j].is \in Covering
    BY DEF Agree
  <2> QED BY <2>1, CountSame
<1>2. ASSUME NEW j \in 1..n, d[j].is \in Covering
      PROVE  s.layers[1 + Count(d, j)].kind = KindOver(d[j].is)
  <2>1. c[j].is = d[j].is /\ c[j].is \in Covering
    BY <1>2 DEF Agree
  <2>2. j \in Nat \ {0} /\ j \in 0..n
    OBVIOUS
  <2>3. Count(c, j) <= Count(c, n) /\ Count(c, j) \in Nat /\ Count(c, n) \in Nat /\ Count(c, j) = Count(d, j)
    BY <1>1, <2>2, CountMonotone, CountIs
  <2>4. r.layers[1 + Count(c, j)].kind = KindOver(c[j].is) /\ Len(r.layers) = 1 + Count(c, n)
    BY <2>1 DEF StackedBy
  <2>5. 1 + Count(c, j) \in 1..Len(r.layers)
    BY <2>3, <2>4
  <2>6. s.layers[1 + Count(c, j)].kind = r.layers[1 + Count(c, j)].kind
    BY <2>5 DEF SameForm
  <2> QED BY <2>1, <2>3, <2>4, <2>6
<1>3. Len(s.layers) = 1 + Count(d, n)
  <2>1. n \in 0..n
    OBVIOUS
  <2> QED BY <1>1, <2>1 DEF StackedBy, SameForm
<1> QED BY <1>2, <1>3 DEF StackedBy

(* A stage more.                                                           *)
LEMMA StackedPlain ==
  ASSUME NEW c, NEW n \in Nat \ {0}, NEW r, c[n].is \notin Covering
  PROVE  StackedBy(c, n - 1, r) <=> StackedBy(c, n, r)
<1>1. Count(c, n) = Count(c, n - 1)
  BY CountFrom
<1>2. \A j \in 1..n : j = n \/ j \in 1..(n - 1)
  OBVIOUS
<1>3. \A j \in 1..(n - 1) : j \in 1..n
  OBVIOUS
<1> QED BY <1>1, <1>2, <1>3 DEF StackedBy

(* One more writer, over the others.                                       *)
Overlaid(r, s, kind) ==
  /\ ResponseOK(s) /\ Len(s.layers) = Len(r.layers) + 1 /\ s.head = r.head
  /\ \A k \in 1..Len(r.layers) : s.layers[k].kind = r.layers[k].kind
  /\ s.layers[Len(r.layers) + 1].kind = kind /\ (Silence(r) => Silence(s))

LEMMA StackedMore ==
  ASSUME NEW c, NEW n \in Nat \ {0}, NEW r, NEW s, StackedBy(c, n - 1, r), c[n].is \in Covering,
         Overlaid(r, s, KindOver(c[n].is))
  PROVE  StackedBy(c, n, s)
<1>1. Count(c, n) = Count(c, n - 1) + 1 /\ Count(c, n - 1) \in Nat /\ n - 1 \in Nat
  BY CountFrom
<1>2. Len(r.layers) = 1 + Count(c, n - 1) /\ Len(s.layers) = 1 + Count(c, n)
  BY <1>1 DEF StackedBy, Overlaid
<1>3. ASSUME NEW j \in 1..n, c[j].is \in Covering
      PROVE  s.layers[1 + Count(c, j)].kind = KindOver(c[j].is)
  <2>1. CASE j = n
    <3>1. s.layers[Len(r.layers) + 1].kind = KindOver(c[n].is)
      BY DEF Overlaid
    <3>2. Len(r.layers) + 1 = 1 + Count(c, n)
      BY <1>1, <1>2
    <3> QED BY <2>1, <3>1, <3>2
  <2>2. CASE j # n
    <3>1. j \in 1..(n - 1) /\ j \in 0..(n - 1)
      BY <2>2
    <3>2. Count(c, j) <= Count(c, n - 1) /\ Count(c, j) \in Nat
      BY <1>1, <3>1, CountMonotone
    <3>3. 1 + Count(c, j) \in 1..Len(r.layers)
      BY <1>1, <1>2, <3>2
    <3>4. r.layers[1 + Count(c, j)].kind = KindOver(c[j].is)
      BY <1>3, <3>1 DEF StackedBy
    <3> QED BY <3>3, <3>4 DEF Overlaid
  <2> QED BY <2>1, <2>2
<1> QED BY <1>2, <1>3 DEF StackedBy

(* A covering stage, and its writer.                                       *)
LEMMA StackedTop ==
  ASSUME NEW c, NEW n \in Nat \ {0}, NEW r, StackedBy(c, n, r), c[n].is \in Covering
  PROVE  Len(r.layers) >= 2 /\ r.layers[Len(r.layers)].kind = KindOver(c[n].is)
<1>1. Count(c, n) = Count(c, n - 1) + 1 /\ Count(c, n - 1) \in Nat /\ n \in 1..n
  BY CountFrom
<1>2. Len(r.layers) = 1 + Count(c, n) /\ r.layers[1 + Count(c, n)].kind = KindOver(c[n].is)
  BY <1>1 DEF StackedBy
<1> QED BY <1>1, <1>2

LEMMA StackedLess ==
  ASSUME NEW c, NEW n \in Nat \ {0}, NEW r, NEW s, StackedBy(c, n, r), c[n].is \in Covering, Lowered(r, s)
  PROVE  StackedBy(c, n - 1, s)
<1>1. Count(c, n) = Count(c, n - 1) + 1 /\ Count(c, n - 1) \in Nat /\ n - 1 \in Nat
  BY CountFrom
<1>2. Len(r.layers) = 1 + Count(c, n) /\ Len(s.layers) = 1 + Count(c, n - 1)
  BY <1>1 DEF StackedBy, Lowered
<1>3. ASSUME NEW j \in 1..(n - 1), c[j].is \in Covering
      PROVE  s.layers[1 + Count(c, j)].kind = KindOver(c[j].is)
  <2>1. j \in 1..n /\ j \in 0..(n - 1)
    BY <1>3
  <2>2. Count(c, j) <= Count(c, n - 1) /\ Count(c, j) \in Nat
    BY <1>1, <2>1, CountMonotone
  <2>3. 1 + Count(c, j) \in 1..Len(s.layers)
    BY <1>1, <1>2, <2>2
  <2>4. r.layers[1 + Count(c, j)].kind = KindOver(c[j].is)
    BY <1>3, <2>1 DEF StackedBy
  <2> QED BY <2>3, <2>4 DEF Lowered
<1> QED BY <1>2, <1>3 DEF StackedBy

LEMMA OpenLess ==
  ASSUME NEW c, NEW n \in Nat \ {0}, OpenBy(c, n)
  PROVE  OpenBy(c, n - 1) /\ c[n].is \notin Covering
BY DEF OpenBy

(* What a stage does to a response that stays as silent as it was.         *)
Touched(r, s) == ResponseOK(s) /\ SameForm(r, s) /\ (Silence(r) => Silence(s))

LEMMA TouchedIs ==
  ASSUME NEW r, ResponseOK(r)
  PROVE  Touched(r, r) /\ \A h : Touched(r, SetHeaderTo(r, h))
BY HeaderSet, SameFormItself DEF Touched

LEMMA OverlaidIs ==
  ASSUME NEW r, ResponseOK(r), NEW q, Touched(r, q), NEW kind \in {"gzip", "record", "std"}
  PROVE  Overlaid(r, Cover(q, kind), kind)
<1> DEFINE s == Cover(q, kind)
<1>1. ResponseOK(q) /\ SameForm(r, q) /\ (Silence(r) => Silence(q)) /\ Len(r.layers) \in Nat
  BY DEF Touched, ResponseOK, LayersOK
<1>2. /\ ResponseOK(s) /\ Len(s.layers) = Len(q.layers) + 1 /\ s.head = q.head
      /\ \A k \in 1..Len(q.layers) : s.layers[k] = q.layers[k]
      /\ s.layers[Len(q.layers) + 1].kind = kind /\ (Silence(q) => Silence(s))
  BY <1>1, CoverIs
<1> HIDE DEF s
<1>3. Overlaid(r, s, kind)
  BY <1>1, <1>2 DEF Overlaid, SameForm
<1> QED BY <1>3 DEF s

LEMMA StatusIs == \A e : StatusOf(e) \in StatusType /\ StatusOf(e) # 0 /\ BodyAllowed(StatusOf(e))
BY DEF StatusOf, StatusType, BodyAllowed

LEMMA PieceIs == \A of \in Authors, big \in BOOLEAN : Piece(of, big) \in PieceType /\ Piece(of, big).of = of
BY DEF Piece, PieceType

ErrorPiece == Piece("error", FALSE)

LEMMA ErrorPieceIs == ErrorPiece \in PieceType /\ ErrorPiece.of = "error"
BY PieceIs DEF ErrorPiece, Authors

JsonTo(r) == SetHeaderTo(r, SetHeader(r.header, "Content-Type", "json"))

LEMMA RenderedIs ==
  ASSUME NEW e, NEW r
  PROVE  Rendered(e, r) = IF Silent(e, r) THEN r ELSE Write(WriteHeader(JsonTo(r), StatusOf(e)), ErrorPiece)
BY DEF Rendered, JsonTo, SetHeaderTo, ErrorPiece

LEMMA RenderedOK ==
  ASSUME NEW e, NEW r, ResponseOK(r)
  PROVE  ResponseOK(Rendered(e, r)) /\ SameForm(r, Rendered(e, r))
<1> DEFINE s == JsonTo(r)
           c == StatusOf(e)
           u == WriteHeader(s, c)
           v == Write(u, ErrorPiece)
<1>1. ResponseOK(s) /\ SameForm(r, s)
  BY TouchedIs DEF Touched, JsonTo
<1>2. c \in StatusType
  BY StatusIs
<1> HIDE DEF s, c
<1>3. ResponseOK(u) /\ SameForm(s, u)
  BY <1>1, <1>2, WriteHeaderOK
<1> HIDE DEF u
<1>4. ResponseOK(v) /\ SameForm(u, v)
  BY <1>3, ErrorPieceIs, WriteOK
<1> HIDE DEF v
<1>5. SameForm(r, v)
  BY <1>1, <1>3, <1>4, SameFormTransitive
<1>6. Rendered(e, r) = IF Silent(e, r) THEN r ELSE v
  BY RenderedIs DEF v, u, s, c
<1> QED BY <1>4, <1>5, <1>6, SameFormItself

(* What has been said is what was written.                                 *)
Saying(c, ps, W) == [status |-> c, body |-> ps, with |-> W]

LEMMA SayingIs ==
  ASSUME NEW r, NEW s, NEW c \in StatusType, NEW ps \in Seq(Authors), NEW W, W \subseteq Marks, Tells(r, s, c, ps, W)
  PROVE  ResponseOK(s) /\ SameForm(r, s) /\ Coherent(s, Saying(c, ps, W))
<1> DEFINE m == Saying(c, ps, W)
<1>1. m.status = c /\ m.body = ps /\ m.with = W
  BY DEF Saying
<1> HIDE DEF m
<1>2. PICK qs \in {<<>>, ps} : Becomes(r, s, c, qs, W) /\ (r.head \/ qs = ps)
  BY DEF Tells
<1>3. ResponseOK(s) /\ SameForm(r, s) /\ Gone(s, c, qs, W) /\ s.head = r.head
  BY <1>2 DEF Becomes, SameForm
<1>4. SaidBy(s, m)
  BY <1>1, <1>2, <1>3 DEF SaidBy
<1> QED BY <1>3, <1>4 DEF Coherent, m

LEMMA SaidWritten ==
  ASSUME NEW r, ResponseOK(r), NEW m, Coherent(r, m), ~Written(r)
  PROVE  Hushed(r, m)
BY GoneWritten DEF Coherent, SaidBy

LEMMA SaidFirst ==
  ASSUME meant = Unsaid, NEW c, NEW ps
  PROVE  Said(c, ps) = Saying(c, ps, {})
BY DEF Said, Unsaid, Saying

(* HandleError renders an error, once, where nothing has been written.     *)
LEMMA HandlesCoherent ==
  ASSUME NEW e, NEW r, ResponseOK(r), Coherent(r, meant), Handles(e, r)
  PROVE  Coherent(Rendered(e, r), meant')
<1> DEFINE s == JsonTo(r)
           c == StatusOf(e)
           one == <<"error">>
           v == Write(WriteHeader(s, c), ErrorPiece)
<1>1. CASE Silent(e, r)
  BY <1>1, RenderedIs DEF Handles
<1>2. CASE ~Silent(e, r)
  <2>1. ~Written(r)
    BY <1>2 DEF Silent
  <2>2. Silence(r) /\ meant = Unsaid
    BY <2>1, SaidWritten DEF Hushed
  <2>3. Rendered(e, r) = v /\ meant' = Said(c, one)
    BY <1>2, RenderedIs DEF Handles
  <2>4. meant' = Saying(c, one, {})
    BY <2>2, <2>3, SaidFirst
  <2>5. ResponseOK(s) /\ Silence(s) /\ Promised(s.header, {})
    BY <2>2, TouchedIs, PromisesNone DEF Touched, JsonTo
  <2>6. c \in StatusType /\ c # 0 /\ one \in Seq(Authors)
    <3>1. "error" \in Authors
      BY DEF Authors
    <3> QED BY <3>1, StatusIs, SeqFacts
  <2> HIDE DEF s, c
  <2>7. Tells(s, v, c, <<ErrorPiece.of>>, {})
    BY <2>5, <2>6, ErrorPieceIs, WriteAllDown
  <2>8. <<ErrorPiece.of>> = one
    BY ErrorPieceIs
  <2> HIDE DEF one, v
  <2>9. Coherent(v, Saying(c, one, {}))
    BY <2>6, <2>7, <2>8, SayingIs
  <2> QED BY <2>3, <2>4, <2>9
<1> QED BY <1>1, <1>2

(***************************************************************************)
(* What the steps of a request do to its response, its chain and the cache.*)
(***************************************************************************)
Answered == ResponseOK(resp') /\ SameForm(resp, resp') /\ Coherent(resp', meant')
Inward == dir = "in" /\ dir' = "in" /\ at >= 1 /\ at' = at + 1 /\ meant' = meant /\ store' = store
Backward == at >= 1 /\ at' = at - 1 /\ chain' = chain
Marking(kind) == [chain EXCEPT ![at] = [is |-> kind]]
PlainIn ==
  /\ Inward /\ Touched(resp, resp') /\ Stage.is \notin Covering \cup {"router"}
  /\ chain' = chain \/ (Stage.is = "compress" /\ chain' = Marking("compress"))
CoveredIn ==
  /\ Inward
  /\ \/ Stage.is = "std" /\ Overlaid(resp, resp', "std") /\ chain' = chain
     \/ Stage.is = "compress" /\ Overlaid(resp, resp', "gzip") /\ chain' = Marking("compressing")
     \/ Stage.is = "cache" /\ Overlaid(resp, resp', "record") /\ chain' = Marking("caching") /\ Shareable
AnswersIn == dir = "in" /\ dir' = "out" /\ Backward /\ store' = store /\ Answered
PanicsIn ==
  /\ dir = "in" /\ dir' \in {"panic", "abort"} /\ Backward /\ store' = store
  /\ ResponseOK(resp') /\ SameForm(resp, resp')
PlainOut ==
  /\ dir = "out" /\ dir' = "out" /\ Backward /\ store' = store /\ Stage.is \notin Covering
  /\ ResponseOK(resp') /\ SameForm(resp, resp') /\ (Coherent(resp, meant) => Coherent(resp', meant'))
CoveredOut ==
  /\ dir = "out" /\ dir' = "out" /\ Backward /\ Stage.is \in Covering
  /\ Lowered(resp, resp') /\ Coherent(resp', meant') /\ \A s \in store' : Shared(s)
Unwinds ==
  /\ dir \in {"panic", "abort"} /\ dir' = dir /\ Backward /\ store' = store
  /\ resp' = resp \/ (Stage.is = "std" /\ resp' = Cut(resp, Beneath))
Recovers == dir = "panic" /\ dir' = "out" /\ Stage.is = "recovery" /\ Backward /\ store' = store /\ resp' = resp
Expires ==
  /\ dir = "done" /\ store' = {}
  /\ dir' = dir /\ at' = at /\ chain' = chain /\ resp' = resp /\ meant' = meant
Extends ==
  /\ Inward /\ Stage.is = "router" /\ resp' = resp
  /\ Looked.route # NoRoute /\ chain' = chain \o Looked.route.stages \o <<HandlerStage>>
Change ==
  PlainIn \/ CoveredIn \/ AnswersIn \/ PanicsIn \/ PlainOut \/ CoveredOut \/ Unwinds \/ Recovers \/ Expires \/ Extends

HeaderOnly == resp' = resp \/ \E h : resp' = SetHeaderTo(resp, h)
Quietly == ResponseOK(resp) /\ Hushed(resp, meant)

LEMMA HeaderOnlyTouches ==
  ASSUME ResponseOK(resp), HeaderOnly
  PROVE  Touched(resp, resp')
BY TouchedIs DEF HeaderOnly

LEMMA PassesIn ==
  ASSUME ResponseOK(resp), Inward, HeaderOnly, chain' = chain, Stage.is \notin Covering \cup {"router"}
  PROVE  PlainIn
BY HeaderOnlyTouches DEF PlainIn

LEMMA RefusesIn ==
  ASSUME Quietly, dir = "in", dir' = "out", Backward, store' = store, HeaderOnly, meant' = meant
  PROVE  AnswersIn
<1>1. ResponseOK(resp') /\ SameForm(resp, resp') /\ Silence(resp')
  BY HeaderOnlyTouches DEF Quietly, Hushed, Touched
<1> QED BY <1>1 DEF AnswersIn, Answered, Coherent, Quietly, Hushed

LEMMA TouchedQuiet ==
  ASSUME Quietly, NEW q, Touched(resp, q)
  PROVE  ResponseOK(q) /\ SameForm(resp, q) /\ Silence(q) /\ meant = Unsaid
BY DEF Quietly, Hushed, Touched

LEMMA ToldAnswers ==
  ASSUME Quietly, NEW q, Touched(resp, q), NEW c \in StatusType, NEW ps \in Seq(Authors),
         Tells(q, resp', c, ps, {}), meant' = Said(c, ps)
  PROVE  Answered
<1>1. ResponseOK(q) /\ SameForm(resp, q) /\ meant = Unsaid
  BY TouchedQuiet
<1>2. meant' = Saying(c, ps, {})
  BY <1>1, SaidFirst
<1>3. ResponseOK(resp') /\ SameForm(q, resp') /\ Coherent(resp', Saying(c, ps, {}))
  BY SayingIs
<1> QED BY <1>1, <1>2, <1>3, SameFormTransitive DEF Answered

LEMMA BodyAnswers ==
  ASSUME Quietly, NEW q, Touched(resp, q), NEW c \in {200, 503}, NEW ctype, NEW piece \in PieceType,
         resp' = WriteBody(q, c, ctype, piece), meant' = Said(c, <<piece.of>>)
  PROVE  Answered
<1>1. c \in StatusType /\ c # 0 /\ BodyAllowed(c) /\ <<piece.of>> \in Seq(Authors)
  <2>1. c \in StatusType /\ c # 0 /\ BodyAllowed(c) /\ piece.of \in Authors
    BY DEF StatusType, BodyAllowed, PieceType
  <2> QED BY <2>1, SeqFacts
<1>2. ResponseOK(q) /\ Silence(q) /\ Promised(q.header, {})
  BY TouchedQuiet, PromisesNone
<1>3. Tells(q, resp', c, <<piece.of>>, {})
  BY <1>1, <1>2, WriteBodyDown
<1> QED BY <1>1, <1>3, ToldAnswers

LEMMA HeaderAnswers ==
  ASSUME Quietly, NEW q, Touched(resp, q), NEW c \in StatusType, c # 0,
         resp' = WriteHeader(q, c), meant' = Said(c, <<>>)
  PROVE  Answered
<1>1. ResponseOK(q) /\ Silence(q) /\ Promised(q.header, {}) /\ <<>> \in Seq(Authors)
  BY TouchedQuiet, PromisesNone
<1>2. Tells(q, resp', c, <<>>, {})
  BY <1>1, WriteHeaderDown
<1> QED BY <1>1, <1>2, ToldAnswers

LEMMA FileAnswers ==
  ASSUME Quietly, NEW piece \in PieceType, resp' = Write(WriteHeader(resp, 200), piece), meant' = Said(200, <<piece.of>>)
  PROVE  Answered
<1>1. 200 \in StatusType /\ 200 # 0 /\ <<piece.of>> \in Seq(Authors)
  <2>1. piece.of \in Authors
    BY DEF PieceType
  <2> QED BY <2>1, SeqFacts DEF StatusType
<1>2. Touched(resp, resp)
  BY TouchedIs DEF Quietly
<1>3. ResponseOK(resp) /\ Silence(resp) /\ Promised(resp.header, {})
  BY <1>2, TouchedQuiet, PromisesNone
<1>4. Tells(resp, resp', 200, <<piece.of>>, {})
  <2> DEFINE c == 200
  <2>1. c \in StatusType /\ c # 0 /\ resp' = Write(WriteHeader(resp, c), piece)
    BY <1>1
  <2> HIDE DEF c
  <2>2. Tells(resp, resp', c, <<piece.of>>, {})
    BY <1>3, <2>1, WriteAllDown
  <2> QED BY <2>2 DEF c
<1> QED BY <1>1, <1>2, <1>4, ToldAnswers

LEMMA StreamAnswers ==
  ASSUME Quietly, NEW piece \in PieceType,
         resp' = Flush(Write(Flush(Write(WriteHeader(resp, 200), piece)), piece)),
         meant' = Said(200, <<piece.of, piece.of>>)
  PROVE  Answered
<1> DEFINE two == <<piece.of, piece.of>>
<1>1. 200 \in StatusType /\ 200 # 0 /\ two \in Seq(Authors)
  <2>1. piece.of \in Authors
    BY DEF PieceType
  <2>2. two \in Seq(Authors)
    BY <2>1
  <2> QED BY <2>2 DEF StatusType
<1>2. Touched(resp, resp)
  BY TouchedIs DEF Quietly
<1>3. ResponseOK(resp) /\ Silence(resp) /\ Promised(resp.header, {})
  BY <1>2, TouchedQuiet, PromisesNone
<1>4. Tells(resp, resp', 200, two, {})
  <2> DEFINE c == 200
  <2>1. c \in StatusType /\ c # 0 /\ resp' = Flush(Write(Flush(Write(WriteHeader(resp, c), piece)), piece))
    BY <1>1
  <2> HIDE DEF c
  <2>2. Tells(resp, resp', c, <<piece.of, piece.of>>, {})
    BY <1>3, <2>1, StreamDown
  <2> QED BY <2>2 DEF c
<1> HIDE DEF two
<1>5. meant' = Said(200, two)
  BY DEF two
<1> QED BY <1>1, <1>2, <1>4, <1>5, ToldAnswers

LEMMA ReplayAnswers ==
  ASSUME Quietly, NEW stored, stored.status \in StatusType, stored.status # 0, stored.body \in Seq(PieceType), NEW extra,
         resp' = Replay(resp, stored, extra), meant' = Said(stored.status, NamesOf(stored.body))
  PROVE  Answered
<1>1. Touched(resp, resp)
  BY TouchedIs DEF Quietly
<1>2. ResponseOK(resp) /\ Silence(resp)
  BY <1>1, TouchedQuiet
<1>3. Tells(resp, resp', stored.status, NamesOf(stored.body), {})
  BY <1>2, ReplayDown
<1>4. NamesOf(stored.body) \in Seq(Authors)
  BY NamesAre
<1> QED BY <1>1, <1>3, <1>4, ToldAnswers

LEMMA ErrorAnswers ==
  ASSUME Quietly, NEW e, Handles(e, resp), resp' = Rendered(e, resp)
  PROVE  Answered
<1>1. ResponseOK(resp) /\ Coherent(resp, meant)
  BY DEF Quietly, Coherent
<1> QED BY <1>1, RenderedOK, HandlesCoherent DEF Answered

(* A handler sends a body, with a header or a hook that sets one.          *)
LEMMA SayingAnswers ==
  ASSUME Quietly, NEW q, Touched(resp, q), NEW c \in StatusType, NEW ps \in Seq(Authors), NEW W, W \subseteq Marks,
         Tells(q, resp', c, ps, W), meant' = Saying(c, ps, W)
  PROVE  Answered
<1>1. ResponseOK(q) /\ SameForm(resp, q)
  BY TouchedQuiet
<1>2. ResponseOK(resp') /\ SameForm(q, resp') /\ Coherent(resp', Saying(c, ps, W))
  BY SayingIs
<1> QED BY <1>1, <1>2, SameFormTransitive DEF Answered

LEMMA SayingWith ==
  ASSUME meant = Unsaid, NEW c, NEW ps, NEW W
  PROVE  [Said(c, ps) EXCEPT !.with = W] = Saying(c, ps, W)
<1>1. Said(c, ps) = Saying(c, ps, {})
  BY SaidFirst
<1> QED BY <1>1 DEF Saying

LEMMA PromisedSet ==
  ASSUME NEW h, NEW name \in Marks, NEW value, name = "Cache-Control" => value = "no-store"
  PROVE  Promised(SetHeader(h, name, value), {name})
<1> DEFINE p == <<name, value>>
           s == SetHeader(h, name, value)
<1>1. p \in s /\ p[1] = name
  BY DEF SetHeader
<1>2. name = "Cache-Control" => p = NoStore
  BY DEF NoStore
<1> HIDE DEF p, s
<1>3. HasHeader(s, name)
  BY <1>1 DEF HasHeader
<1>4. Promised(s, {name})
  BY <1>1, <1>2, <1>3 DEF Promised
<1> QED BY <1>4 DEF s

Sending == Piece("handler", TRUE).of = "handler" /\ <<"handler">> \in Seq(Authors) /\ 200 \in StatusType /\ BodyAllowed(200)
LEMMA SendingIs == Sending
<1>1. "handler" \in Authors
  BY DEF Authors
<1>2. <<"handler">> \in Seq(Authors)
  BY <1>1, SeqFacts
<1> QED BY <1>2 DEF Sending, Piece, StatusType, BodyAllowed

SentBy(r, W) ==
  \E big \in BOOLEAN : /\ resp' = WriteBody(r, 200, "json", Piece("handler", big))
                       /\ meant' = [Said(200, <<"handler">>) EXCEPT !.with = W]

LEMMA SetAnswers ==
  ASSUME Quietly, NEW q, Touched(resp, q), NEW W, W \subseteq Marks, Promised(q.header, W), SentBy(q, W)
  PROVE  Answered
<1>1. PICK big \in BOOLEAN : /\ resp' = WriteBody(q, 200, "json", Piece("handler", big))
                             /\ meant' = [Said(200, <<"handler">>) EXCEPT !.with = W]
  BY DEF SentBy
<1> DEFINE p == Piece("handler", big)
           c == 200
           one == <<"handler">>
<1>2. ResponseOK(q) /\ Silence(q) /\ meant = Unsaid
  BY TouchedQuiet
<1>3. p \in PieceType /\ p.of = "handler"
  BY PieceIs DEF Authors
<1>4. c \in StatusType /\ c # 0 /\ BodyAllowed(c) /\ one \in Seq(Authors)
  BY SendingIs DEF Sending
<1>5. meant' = Saying(c, one, W)
  BY <1>1, <1>2, SayingWith
<1>6. resp' = WriteBody(q, c, "json", p)
  BY <1>1
<1> HIDE DEF p, c
<1>7. Tells(q, resp', c, <<p.of>>, W)
  BY <1>2, <1>3, <1>4, <1>6, WriteBodyDown
<1>8. <<p.of>> = one
  BY <1>3
<1> HIDE DEF one
<1> QED BY <1>4, <1>5, <1>7, <1>8, SayingAnswers

LEMMA HookAnswers ==
  ASSUME Quietly, SentBy(Before(resp, <<"Set-Cookie", "session">>), {"Set-Cookie"})
  PROVE  Answered
<1> DEFINE W == {"Set-Cookie"}
           q == Before(resp, <<"Set-Cookie", "session">>)
<1>1. PICK big \in BOOLEAN : /\ resp' = WriteBody(q, 200, "json", Piece("handler", big))
                             /\ meant' = [Said(200, <<"handler">>) EXCEPT !.with = W]
  BY DEF SentBy
<1> DEFINE p == Piece("handler", big)
           c == 200
           one == <<"handler">>
<1>2. ResponseOK(resp) /\ Silence(resp) /\ meant = Unsaid /\ Touched(resp, resp)
  BY TouchedIs DEF Quietly, Hushed
<1>3. p \in PieceType /\ p.of = "handler"
  BY PieceIs DEF Authors
<1>4. c \in StatusType /\ c # 0 /\ BodyAllowed(c) /\ one \in Seq(Authors)
  BY SendingIs DEF Sending
<1>5. meant' = Saying(c, one, W)
  BY <1>1, <1>2, SayingWith
<1>6. resp' = WriteBody(Before(resp, <<"Set-Cookie", "session">>), c, "json", p)
  BY <1>1
<1>7. Promised(HookHeader(resp, "json", "Set-Cookie", "session"), W) /\ W \subseteq Marks
  BY PromisedSet DEF HookHeader, Marks
<1> HIDE DEF p, c, W, q
<1>8. Tells(resp, resp', c, <<p.of>>, W)
  BY <1>2, <1>3, <1>4, <1>6, <1>7, HookDown
<1>9. <<p.of>> = one
  BY <1>3
<1> HIDE DEF one
<1> QED BY <1>2, <1>4, <1>5, <1>7, <1>8, <1>9, SayingAnswers

With(with) == CASE with = "" -> {} [] with = "Before" -> {"Set-Cookie"} [] OTHER -> {with}
Wearing(with) ==
  CASE with = "" -> resp
    [] with = "Before" -> Before(resp, <<"Set-Cookie", "session">>)
    [] OTHER -> [resp EXCEPT !.header = SetHeader(@, with, IF with = "Cache-Control" THEN "no-store" ELSE "handler")]

LEMMA SendAnswers ==
  ASSUME Quietly, NEW with \in {"", "Set-Cookie", "Cache-Control", "Before"}, SentBy(Wearing(with), With(with))
  PROVE  Answered
<1>0. ResponseOK(resp)
  BY DEF Quietly
<1>1. CASE with = ""
  <2>1. SentBy(resp, {})
    BY <1>1 DEF Wearing, With
  <2>2. Touched(resp, resp) /\ Promised(resp.header, {})
    BY <1>0, TouchedIs, PromisesNone
  <2> QED BY <2>1, <2>2, SetAnswers
<1>2. CASE with = "Before"
  <2>1. SentBy(Before(resp, <<"Set-Cookie", "session">>), {"Set-Cookie"})
    BY <1>2 DEF Wearing, With
  <2> QED BY <2>1, HookAnswers
<1>3. CASE with \in Marks
  <2> DEFINE h == SetHeader(resp.header, with, IF with = "Cache-Control" THEN "no-store" ELSE "handler")
             q == SetHeaderTo(resp, h)
  <2>1. SentBy(q, {with})
    BY <1>3 DEF Wearing, With, Marks, SetHeaderTo
  <2>2. Promised(h, {with})
    BY <1>3, PromisedSet
  <2> HIDE DEF h
  <2>3. Touched(resp, q)
    BY <1>0, TouchedIs
  <2>4. q.header = h
    BY <1>0, HeaderSet
  <2>5. {with} \subseteq Marks
    BY <1>3
  <2> HIDE DEF q
  <2> QED BY <2>1, <2>2, <2>3, <2>4, <2>5, SetAnswers
<1> QED BY <1>1, <1>2, <1>3 DEF Marks

(* Which step is which.                                                    *)
Rejects(e) == Refuse(e) /\ Quiet
LEMMA RejectsIn ==
  ASSUME Quietly, dir = "in", at >= 1, NEW e, Rejects(e)
  PROVE  AnswersIn
<1>1. dir' = "out" /\ Backward /\ store' = store /\ HeaderOnly /\ meant' = meant
  BY DEF Rejects, Refuse, Return, Quiet, Backward, HeaderOnly
<1> QED BY <1>1, RefusesIn

LEMMA PassingIn ==
  ASSUME Quietly, NEW kind, Going("in", kind), kind \notin Covering \cup {"router"}, NEW r, NEW c, Pass(r, c), Quiet,
         r = resp \/ \E h : r = SetHeaderTo(resp, h)
  PROVE  PlainIn
<1>1. Inward /\ HeaderOnly /\ chain' = chain /\ Stage.is \notin Covering \cup {"router"}
  BY DEF Going, Pass, Proceed, Quiet, Inward, HeaderOnly
<1> QED BY <1>1, PassesIn DEF Quietly

AnsweringAt == dir = "in" /\ at >= 1 /\ store' = store
LEMMA AnsweringIn ==
  ASSUME AnsweringAt, Answered, NEW e, Return(e)
  PROVE  AnswersIn
BY DEF AnsweringAt, Return, AnswersIn, Backward

LEMMA AssignIDChanges ==
  ASSUME Quietly, AssignID
  PROVE  PlainIn
<1> DEFINE id == IF req.id = "valid" /\ req.proxy THEN "incoming" ELSE "generated"
           r == SetHeaderTo(resp, SetHeader(resp.header, "X-Request-Id", id))
<1>1. Going("in", "request-id") /\ Quiet /\ \E c : Pass(r, c)
  BY DEF AssignID, SetHeaderTo
<1>2. "request-id" \notin Covering \cup {"router"}
  BY DEF Covering
<1>3. \E h : r = SetHeaderTo(resp, h)
  OBVIOUS
<1> HIDE DEF r
<1> QED BY <1>1, <1>2, <1>3, PassingIn

LEMMA SecurityChanges ==
  ASSUME Quietly, SecurityHeaders
  PROVE  PlainIn \/ AnswersIn
<1> DEFINE r == SetHeaderTo(resp, SetHeader(resp.header, "X-Frame-Options", "DENY"))
<1>1. Going("in", "security") /\ Quiet /\ (Refuse("INVALID_HOST") \/ Pass(r, ctx))
  BY DEF SecurityHeaders, SetHeaderTo
<1>2. "security" \notin Covering \cup {"router"}
  BY DEF Covering
<1>3. \E h : r = SetHeaderTo(resp, h)
  OBVIOUS
<1> HIDE DEF r
<1> QED BY <1>1, <1>2, <1>3, PassingIn, RejectsIn DEF Rejects, Going

LEMMA HealthChanges ==
  ASSUME Quietly, ServeHealth
  PROVE  PlainIn \/ AnswersIn
<1> DEFINE q == SetHeaderTo(resp, SetHeader(resp.header, "Cache-Control", "no-store"))
           p == Piece("health", FALSE)
<1>1. Going("in", "health") /\ Quiet
  BY DEF ServeHealth
<1>2. \/ Pass(resp, ctx)
      \/ \E status \in {200, 503} : Answer(WriteBody(q, status, "json", p), status, <<"health">>, "")
  BY DEF ServeHealth, SetHeaderTo
<1>3. p \in PieceType /\ <<p.of>> = <<"health">>
  BY PieceIs DEF Authors
<1>4. Touched(resp, q)
  BY TouchedIs DEF Quietly
<1>5. "health" \notin Covering \cup {"router"}
  BY DEF Covering
<1> HIDE DEF p, q
<1>6. CASE Pass(resp, ctx)
  BY <1>1, <1>5, <1>6, PassingIn
<1>7. ASSUME NEW status \in {200, 503}, Answer(WriteBody(q, status, "json", p), status, <<"health">>, "")
      PROVE  AnswersIn
  <2>1. /\ resp' = WriteBody(q, status, "json", p) /\ meant' = Said(status, <<p.of>>) /\ Return("")
    BY <1>3, <1>7 DEF Answer
  <2>2. Answered
    <3> DEFINE S == {200, 503}
    <3>1. \A c \in S : resp' = WriteBody(q, c, "json", p) /\ meant' = Said(c, <<p.of>>) => Answered
      BY <1>3, <1>4, BodyAnswers
    <3>2. status \in S
      OBVIOUS
    <3> HIDE DEF S
    <3> QED BY <2>1, <3>1, <3>2
  <2>3. AnsweringAt
    BY <1>1 DEF AnsweringAt, Going, Quiet
  <2> QED BY <2>1, <2>2, <2>3, AnsweringIn
<1> QED BY <1>2, <1>6, <1>7

LEMMA CorsChanges ==
  ASSUME Quietly, Cors
  PROVE  PlainIn \/ AnswersIn
<1>1. Going("in", "cors") /\ Quiet
  BY DEF Cors
<1>2. \E h : LET r == SetHeaderTo(resp, h) IN Pass(r, ctx) \/ Answer(WriteHeader(r, 204), 204, <<>>, "")
  <2> DEFINE vary == IF Stage.any /\ ~Stage.credentials THEN resp.header
                     ELSE AddHeader(resp.header, "Vary", "Origin")
             granted == SetHeader(vary, "Access-Control-Allow-Origin",
                                  IF Stage.any /\ ~Stage.credentials THEN "*" ELSE req.origin)
             h == IF req.origin # "" /\ CorsAllowed THEN granted ELSE vary
  <2>1. LET r == [resp EXCEPT !.header = h] IN Pass(r, ctx) \/ Answer(WriteHeader(r, 204), 204, <<>>, "")
    BY DEF Cors
  <2> HIDE DEF h
  <2> QED BY <2>1 DEF SetHeaderTo
<1>3. PICK h : LET r == SetHeaderTo(resp, h) IN Pass(r, ctx) \/ Answer(WriteHeader(r, 204), 204, <<>>, "")
  BY <1>2
<1> DEFINE q == SetHeaderTo(resp, h)
<1>4. Touched(resp, q) /\ \E x : q = SetHeaderTo(resp, x)
  BY TouchedIs DEF Quietly
<1>5. Pass(q, ctx) \/ Answer(WriteHeader(q, 204), 204, <<>>, "")
  BY <1>3
<1> HIDE DEF q
<1>6. CASE Pass(q, ctx)
  <2>1. "cors" \notin Covering \cup {"router"}
    BY DEF Covering
  <2> QED BY <1>1, <1>4, <1>6, <2>1, PassingIn
<1>7. CASE Answer(WriteHeader(q, 204), 204, <<>>, "")
  <2> DEFINE c == 204
  <2>1. resp' = WriteHeader(q, c) /\ meant' = Said(c, <<>>) /\ Return("")
    BY <1>7 DEF Answer
  <2>2. c \in StatusType /\ c # 0
    BY DEF StatusType
  <2> HIDE DEF c
  <2>3. Answered
    BY <1>4, <2>1, <2>2, HeaderAnswers
  <2>4. AnsweringAt
    BY <1>1 DEF AnsweringAt, Going, Quiet
  <2> QED BY <2>1, <2>3, <2>4, AnsweringIn
<1> QED BY <1>5, <1>6, <1>7

LEMMA ChecksChange ==
  ASSUME Quietly, Csrf \/ Timeout \/ Authenticating \/ Authorizing
  PROVE  PlainIn \/ AnswersIn
<1>1. \E kind \in {"csrf", "timeout", "auth", "require"} :
        Going("in", kind) /\ Quiet /\ ((\E e : Refuse(e)) \/ \E c : Pass(resp, c))
  BY DEF Csrf, Timeout, Authenticating, Authorizing
<1>2. PICK kind \in {"csrf", "timeout", "auth", "require"} :
        Going("in", kind) /\ Quiet /\ ((\E e : Refuse(e)) \/ \E c : Pass(resp, c))
  BY <1>1
<1>3. kind \notin Covering \cup {"router"}
  BY DEF Covering
<1> QED BY <1>2, <1>3, PassingIn, RejectsIn DEF Rejects, Going

LEMMA VersionChanges ==
  ASSUME Quietly, APIVersion
  PROVE  PlainIn \/ AnswersIn
<1>1. Going("in", "version") /\ Quiet
      /\ (Refuse("BAD_REQUEST") \/ \E h, c : Pass(SetHeaderTo(resp, h), c))
  BY DEF APIVersion, SetHeaderTo
<1>2. "version" \notin Covering \cup {"router"}
  BY DEF Covering
<1>3. CASE Refuse("BAD_REQUEST")
  BY <1>1, <1>3, RejectsIn DEF Rejects, Going
<1>4. ASSUME NEW h, NEW c, Pass(SetHeaderTo(resp, h), c)
      PROVE  PlainIn
  <2> DEFINE r == SetHeaderTo(resp, h)
  <2>1. \E x : r = SetHeaderTo(resp, x)
    OBVIOUS
  <2>2. Pass(r, c)
    BY <1>4
  <2> HIDE DEF r
  <2> QED BY <1>1, <1>2, <2>1, <2>2, PassingIn
<1> QED BY <1>1, <1>3, <1>4

LEMMA SunsetChanges ==
  ASSUME Quietly, Sunset
  PROVE  PlainIn
<1> DEFINE r == SetHeaderTo(resp, SetHeader(resp.header, "Deprecation", "true"))
<1>1. Going("in", "sunset") /\ Quiet /\ Pass(r, ctx)
  BY DEF Sunset, SetHeaderTo
<1>2. "sunset" \notin Covering \cup {"router"} /\ \E h : r = SetHeaderTo(resp, h)
  BY DEF Covering
<1> HIDE DEF r
<1> QED BY <1>1, <1>2, PassingIn

LEMMA PassInChanges ==
  ASSUME Quietly, PassIn
  PROVE  PlainIn
<1>1. Going("in", Stage.is) /\ Quiet /\ Pass(resp, ctx) /\ Stage.is \notin Covering \cup {"router"}
  BY DEF PassIn, PassedIn, Going, Covering
<1> QED BY <1>1, PassingIn

LEMMA StaticChanges ==
  ASSUME Quietly, Static
  PROVE  PlainIn \/ AnswersIn
<1> DEFINE p == Piece("file", TRUE)
<1>1. Going("in", "static") /\ Quiet
  BY DEF Static
<1>2. \/ Pass(resp, ctx)
      \/ Answer(Write(WriteHeader(resp, 200), p), 200, <<"file">>, "")
      \/ Handles("NOT_FOUND", resp) /\ resp' = Rendered("NOT_FOUND", resp) /\ Return("")
  BY DEF Static
<1>3. p \in PieceType /\ <<p.of>> = <<"file">>
  BY PieceIs DEF Authors
<1> HIDE DEF p
<1>4. AnsweringAt
  BY <1>1 DEF AnsweringAt, Going, Quiet
<1>5. CASE Pass(resp, ctx)
  <2>1. "static" \notin Covering \cup {"router"}
    BY DEF Covering
  <2> QED BY <1>1, <1>5, <2>1, PassingIn
<1>6. CASE Answer(Write(WriteHeader(resp, 200), p), 200, <<"file">>, "")
  <2>1. resp' = Write(WriteHeader(resp, 200), p) /\ meant' = Said(200, <<p.of>>) /\ Return("")
    BY <1>3, <1>6 DEF Answer
  <2>2. Answered
    BY <1>3, <2>1, FileAnswers
  <2> QED BY <1>4, <2>1, <2>2, AnsweringIn
<1>7. CASE Handles("NOT_FOUND", resp) /\ resp' = Rendered("NOT_FOUND", resp) /\ Return("")
  <2>1. Answered
    BY <1>7, ErrorAnswers
  <2> QED BY <1>4, <1>7, <2>1, AnsweringIn
<1> QED BY <1>2, <1>5, <1>6, <1>7

LEMMA CompressInChanges ==
  ASSUME Quietly, CompressIn
  PROVE  PlainIn \/ CoveredIn
<1> DEFINE q == SetHeaderTo(resp, AddHeader(resp.header, "Vary", "Accept-Encoding"))
<1>1. Inward /\ Stage.is = "compress"
  BY DEF CompressIn, Going, Quiet, Inward
<1>2. \/ resp' = q /\ chain' = Marking("compress")
      \/ resp' = Cover(q, "gzip") /\ chain' = Marking("compressing")
  BY DEF CompressIn, SetHeaderTo, Marking
<1>3. Touched(resp, q)
  BY TouchedIs DEF Quietly
<1> HIDE DEF q
<1>4. CASE resp' = q /\ chain' = Marking("compress")
  <2>1. Stage.is \notin Covering \cup {"router"}
    BY <1>1 DEF Covering
  <2> QED BY <1>1, <1>3, <1>4, <2>1 DEF PlainIn
<1>5. CASE resp' = Cover(q, "gzip") /\ chain' = Marking("compressing")
  <2>1. Overlaid(resp, resp', "gzip")
    BY <1>3, <1>5, OverlaidIs DEF Quietly
  <2> QED BY <1>1, <1>5, <2>1 DEF CoveredIn
<1> QED BY <1>2, <1>4, <1>5

LEMMA WrapInChanges ==
  ASSUME Quietly, WrapIn
  PROVE  CoveredIn
<1>1. Inward /\ Stage.is = "std" /\ chain' = chain /\ resp' = Cover(resp, "std")
  BY DEF WrapIn, Going, Quiet, Inward, Pass, Proceed
<1>2. Touched(resp, resp)
  BY TouchedIs DEF Quietly
<1>3. Overlaid(resp, resp', "std")
  BY <1>1, <1>2, OverlaidIs DEF Quietly
<1> QED BY <1>1, <1>3 DEF CoveredIn

LEMMA CacheInChanges ==
  ASSUME Quietly, StoreInv, CacheIn
  PROVE  PlainIn \/ CoveredIn \/ AnswersIn
<1> DEFINE plain == req.method \in {"GET", "HEAD"} /\ ~HasCredentials /\ ~req.noCache
           kept == {s \in store : s.key = req.path}
           t == CHOOSE k \in kept : TRUE
           q == SetHeaderTo(resp, SetHeader(resp.header, "X-Cache", "MISS"))
<1>1. Going("in", "cache") /\ Quiet
  BY DEF CacheIn
<1>2. \/ Pass(resp, ctx)
      \/ kept # {} /\ Answer(Replay(resp, t.response, {<<"X-Cache", "HIT">>}), t.response.status, NamesOf(t.response.body), "")
      \/ plain /\ resp' = Cover(q, "record") /\ chain' = Marking("caching") /\ at' = at + 1 /\ UNCHANGED <<dir, meant>>
  BY DEF CacheIn, SetHeaderTo, Marking, NamesOf
<1>3. kept # {} => t \in store
  OBVIOUS
<1>4. plain => Shareable
  BY DEF Shareable
<1>5. Touched(resp, q)
  BY TouchedIs DEF Quietly
<1> HIDE DEF plain, kept, t, q
<1>6. CASE Pass(resp, ctx)
  <2>1. "cache" \notin Covering \cup {"router"}
    BY DEF Covering
  <2> QED BY <1>1, <1>6, <2>1, PassingIn
<1>7. CASE kept # {} /\ Answer(Replay(resp, t.response, {<<"X-Cache", "HIT">>}), t.response.status, NamesOf(t.response.body), "")
  <2> DEFINE stored == t.response
  <2>1. Shared(t)
    BY <1>3, <1>7 DEF StoreInv
  <2>2. stored.status \in StatusType /\ stored.status # 0 /\ stored.body \in Seq(PieceType)
    BY <2>1 DEF Shared, StatusType
  <2>3. /\ resp' = Replay(resp, stored, {<<"X-Cache", "HIT">>})
        /\ meant' = Said(stored.status, NamesOf(stored.body)) /\ Return("")
    BY <1>7 DEF Answer
  <2> HIDE DEF stored
  <2>4. Answered
    BY <2>2, <2>3, ReplayAnswers
  <2>5. AnsweringAt
    BY <1>1 DEF AnsweringAt, Going, Quiet
  <2> QED BY <2>3, <2>4, <2>5, AnsweringIn
<1>8. CASE plain /\ resp' = Cover(q, "record") /\ chain' = Marking("caching") /\ at' = at + 1 /\ UNCHANGED <<dir, meant>>
  <2>1. Inward /\ Stage.is = "cache"
    BY <1>1, <1>8 DEF Going, Quiet, Inward
  <2>2. Overlaid(resp, resp', "record")
    BY <1>5, <1>8, OverlaidIs DEF Quietly
  <2> QED BY <1>4, <1>8, <2>1, <2>2 DEF CoveredIn
<1> QED BY <1>2, <1>6, <1>7, <1>8

LEMMA RouteChanges ==
  ASSUME Quietly, Route
  PROVE  AnswersIn \/ Extends
<1> DEFINE d == Looked
           q == SetHeaderTo(resp, SetHeader(resp.header, "Allow", Allowed(routes, req.path)))
           x == SetHeaderTo(resp, SetHeader(resp.header, "Location", Alternative(req.path)))
<1>1. Going("in", "router") /\ Quiet /\ Follow(d)
  BY DEF Route, Looked
<1>2. AnsweringAt
  BY <1>1 DEF AnsweringAt, Going, Quiet
<1> HIDE DEF d
<1>3. \/ \E e : Return(e) /\ UNCHANGED <<resp, meant>>
      \/ \E e : Return(e) /\ resp' = q /\ UNCHANGED meant
      \/ /\ d.route # NoRoute /\ at' = at + 1 /\ chain' = chain \o d.route.stages \o <<HandlerStage>>
         /\ UNCHANGED <<dir, resp, meant>>
      \/ d.status \in {301, 308} /\ Answer(WriteHeader(x, d.status), d.status, <<>>, "")
      \/ Answer(WriteHeader(q, 204), 204, <<>>, "")
  BY <1>1 DEF Follow, SetHeaderTo, HandlerStage
<1>4. Touched(resp, q) /\ Touched(resp, x) /\ \E h : q = SetHeaderTo(resp, h)
  BY TouchedIs DEF Quietly
<1> HIDE DEF q, x
<1>5. ASSUME NEW e, Return(e), HeaderOnly, UNCHANGED meant PROVE AnswersIn
  <2>1. dir' = "out" /\ Backward /\ store' = store
    BY <1>2, <1>5 DEF AnsweringAt, Return, Backward
  <2> QED BY <1>2, <1>5, <2>1, RefusesIn DEF AnsweringAt
<1>6. CASE /\ d.route # NoRoute /\ at' = at + 1 /\ chain' = chain \o d.route.stages \o <<HandlerStage>>
           /\ UNCHANGED <<dir, resp, meant>>
  BY <1>1, <1>6 DEF Extends, Inward, Going, Quiet, d
<1>7. ASSUME NEW c \in {204, 301, 308}, NEW r, Touched(resp, r), Answer(WriteHeader(r, c), c, <<>>, "")
      PROVE  AnswersIn
  <2>1. c \in StatusType /\ c # 0
    BY DEF StatusType
  <2>2. resp' = WriteHeader(r, c) /\ meant' = Said(c, <<>>) /\ Return("")
    BY <1>7 DEF Answer
  <2>3. Answered
    BY <1>7, <2>1, <2>2, HeaderAnswers
  <2> QED BY <1>2, <2>2, <2>3, AnsweringIn
<1>8. CASE \E e : Return(e) /\ (resp' = q \/ UNCHANGED resp) /\ UNCHANGED meant
  BY <1>4, <1>5, <1>8 DEF HeaderOnly
<1>9. CASE d.status \in {301, 308} /\ Answer(WriteHeader(x, d.status), d.status, <<>>, "")
  <2> DEFINE c == d.status
  <2>1. c \in {204, 301, 308} /\ Answer(WriteHeader(x, c), c, <<>>, "")
    BY <1>9
  <2> HIDE DEF c
  <2> QED BY <1>4, <1>7, <2>1
<1>10. CASE Answer(WriteHeader(q, 204), 204, <<>>, "")
  BY <1>4, <1>7, <1>10
<1> QED BY <1>3, <1>6, <1>8, <1>9, <1>10

(* Handlers.                                                               *)
AtHand == Going("in", "handler") /\ Handled

LEMMA AtHandIs ==
  ASSUME AtHand
  PROVE  AnsweringAt
BY DEF AtHand, Going, Handled, AnsweringAt

SendsAs(big, with, then) ==
  LET value == IF with = "Cache-Control" THEN "no-store" ELSE "handler"
      r == CASE with = "" -> resp
             [] with = "Before" -> Before(resp, <<"Set-Cookie", "session">>)
             [] OTHER -> [resp EXCEPT !.header = SetHeader(@, with, value)]
  IN /\ resp' = WriteBody(r, 200, "json", Piece("handler", big))
     /\ meant' = [Said(200, <<"handler">>) EXCEPT !.with =
                    CASE with = "" -> {} [] with = "Before" -> {"Set-Cookie"} [] OTHER -> {with}]
     /\ IF then = "panic" THEN dir' = "panic" /\ at' = at - 1 /\ UNCHANGED <<err, chain>>
        ELSE Return(then)

LEMMA SendsChanges ==
  ASSUME Quietly, Sends
  PROVE  AnswersIn \/ PanicsIn
<1>1. AtHand
  BY DEF Sends, Handling, AtHand
<1>2. PICK big \in BOOLEAN, with \in {"", "Set-Cookie", "Cache-Control", "Before"}, then \in {"", "FAILED", "panic"} :
        (with # "" => ~big /\ then = "") /\ SendsAs(big, with, then)
  BY Zenon DEF Sends, SendsAs
<1>3. SentBy(Wearing(with), With(with))
  BY <1>2, Zenon DEF SendsAs, SentBy, Wearing, With
<1>4. Return(then) \/ (dir' = "panic" /\ at' = at - 1 /\ UNCHANGED chain)
  BY <1>2, Zenon DEF SendsAs
<1>5. Answered
  BY <1>3, SendAnswers
<1> QED BY <1>1, <1>4, <1>5, AtHandIs, AnsweringIn DEF PanicsIn, Answered, AnsweringAt, Backward

LEMMA BareChanges ==
  ASSUME Quietly, Bare
  PROVE  AnswersIn
<1>1. AtHand /\ AnsweringAt /\ Touched(resp, resp)
  BY AtHandIs, TouchedIs DEF Bare, Handling, AtHand, Quietly
<1>2. (\E c \in {204, 302} : Answer(WriteHeader(resp, c), c, <<>>, "")) \/ Refuse("")
  BY DEF Bare
<1>3. ASSUME NEW c \in {204, 302}, Answer(WriteHeader(resp, c), c, <<>>, "")
      PROVE  AnswersIn
  <2>1. c \in StatusType /\ c # 0
    BY DEF StatusType
  <2>2. resp' = WriteHeader(resp, c) /\ meant' = Said(c, <<>>) /\ Return("")
    BY <1>3 DEF Answer
  <2>3. Answered
    BY <1>1, <2>1, <2>2, HeaderAnswers
  <2> QED BY <1>1, <2>2, <2>3, AnsweringIn
<1>4. CASE Refuse("")
  BY <1>1, <1>4, RefusesIn DEF Refuse, Return, AnsweringAt, Backward, HeaderOnly
<1> QED BY <1>2, <1>3, <1>4

LEMMA FailsChanges ==
  ASSUME Quietly, Fails
  PROVE  AnswersIn \/ PanicsIn
<1>1. AtHand /\ AnsweringAt
  BY AtHandIs DEF Fails, Handling, AtHand
<1>2. \/ \E e : Refuse(e)
      \/ \E how \in {"panic", "abort"} : dir' = how /\ at' = at - 1 /\ UNCHANGED <<chain, resp, meant>>
  BY DEF Fails
<1>3. CASE \E e : Refuse(e)
  BY <1>1, <1>3, RefusesIn DEF Refuse, Return, AnsweringAt, Backward, HeaderOnly
<1>4. CASE \E how \in {"panic", "abort"} : dir' = how /\ at' = at - 1 /\ UNCHANGED <<chain, resp, meant>>
  BY <1>1, <1>4, SameFormItself DEF PanicsIn, AnsweringAt, Backward, Quietly
<1> QED BY <1>2, <1>3, <1>4

LEMMA StreamsChanges ==
  ASSUME Quietly, Streams
  PROVE  AnswersIn
<1> DEFINE p == Piece("handler", FALSE)
           two == <<"handler", "handler">>
<1>1. AtHand /\ AnsweringAt
  BY AtHandIs DEF Streams, Handling, AtHand
<1>2. PICK e : Answer(Flush(Write(Flush(Write(WriteHeader(resp, 200), p)), p)), 200, two, e)
  BY DEF Streams
<1>3. p \in PieceType /\ <<p.of, p.of>> = two
  BY PieceIs DEF Authors
<1> HIDE DEF p, two
<1>4. /\ resp' = Flush(Write(Flush(Write(WriteHeader(resp, 200), p)), p))
      /\ meant' = Said(200, <<p.of, p.of>>) /\ Return(e)
  BY <1>2, <1>3 DEF Answer
<1>5. Answered
  BY <1>3, <1>4, StreamAnswers
<1> QED BY <1>1, <1>4, <1>5, AnsweringIn

LEMMA OutputAnswers ==
  ASSUME Quietly, NEW q, Touched(resp, q), NEW ctype, NEW e,
         Answer(WriteBody(q, 200, ctype, Piece("handler", FALSE)), 200, <<"handler">>, e)
  PROVE  Answered /\ Return(e)
<1> DEFINE p == Piece("handler", FALSE)
           c == 200
<1>1. p \in PieceType /\ <<p.of>> = <<"handler">>
  BY PieceIs DEF Authors
<1>2. c \in {200, 503}
  OBVIOUS
<1>3. resp' = WriteBody(q, c, ctype, p) /\ meant' = Said(c, <<"handler">>) /\ Return(e)
  BY DEF Answer
<1> HIDE DEF p, c
<1>4. meant' = Said(c, <<p.of>>)
  BY <1>1, <1>3
<1> DEFINE S == {200, 503}
<1>5. ASSUME NEW status \in S, resp' = WriteBody(q, status, ctype, p), meant' = Said(status, <<p.of>>)
      PROVE  Answered
  <2>1. p \in PieceType
    BY <1>1
  <2> QED BY <1>5, <2>1, BodyAnswers
<1>6. c \in S
  BY <1>2
<1> HIDE DEF S
<1> QED BY <1>3, <1>4, <1>5, <1>6

LEMMA FormatsChanges ==
  ASSUME Quietly, Formats
  PROVE  AnswersIn
<1> DEFINE q == SetHeaderTo(resp, AddHeader(resp.header, "Vary", "Accept"))
<1>1. AtHand /\ AnsweringAt
  BY AtHandIs DEF Formats, Handling, AtHand
<1>2. \/ resp' = q /\ Return("NOT_ACCEPTABLE") /\ UNCHANGED meant
      \/ \E ctype : Answer(WriteBody(q, 200, ctype, Piece("handler", FALSE)), 200, <<"handler">>, "")
  <2> DEFINE best == ChosenOffer(req.accept, Offers)
  <2>1. IF best = 0 THEN resp' = q /\ Return("NOT_ACCEPTABLE") /\ UNCHANGED meant
        ELSE Answer(WriteBody(q, 200, Offers[best][2], Piece("handler", FALSE)), 200, <<"handler">>, "")
    BY DEF Formats, SetHeaderTo
  <2> HIDE DEF best, q
  <2> QED BY <2>1
<1>3. Touched(resp, q) /\ \E h : q = SetHeaderTo(resp, h)
  BY TouchedIs DEF Quietly
<1> HIDE DEF q
<1>4. CASE resp' = q /\ Return("NOT_ACCEPTABLE") /\ UNCHANGED meant
  BY <1>1, <1>3, <1>4, RefusesIn DEF Return, AnsweringAt, Backward, HeaderOnly
<1>5. CASE \E ctype : Answer(WriteBody(q, 200, ctype, Piece("handler", FALSE)), 200, <<"handler">>, "")
  <2>1. Answered /\ Return("")
    BY <1>3, <1>5, OutputAnswers
  <2> QED BY <1>1, <2>1, AnsweringIn
<1> QED BY <1>2, <1>4, <1>5

LEMMA TypedChanges ==
  ASSUME Quietly, Typed
  PROVE  AnswersIn
<1>1. AtHand /\ AnsweringAt /\ Touched(resp, resp)
  BY AtHandIs, TouchedIs DEF Typed, AtHand, Quietly
<1>2. PICK input, failed : Perform(input, failed)
  BY DEF Typed
<1>3. \/ \E e : Return(e) /\ UNCHANGED <<resp, meant>>
      \/ Answer(WriteBody(resp, 200, "json", Piece("handler", FALSE)), 200, <<"handler">>, "")
      \/ Answer(WriteHeader(resp, 204), 204, <<>>, "")
  BY <1>2 DEF Perform, Refuse
<1>4. CASE \E e : Return(e) /\ UNCHANGED <<resp, meant>>
  BY <1>1, <1>4, RefusesIn DEF Return, AnsweringAt, Backward, HeaderOnly
<1>5. CASE Answer(WriteBody(resp, 200, "json", Piece("handler", FALSE)), 200, <<"handler">>, "")
  <2>1. Answered /\ Return("")
    BY <1>1, <1>5, OutputAnswers
  <2> QED BY <1>1, <2>1, AnsweringIn
<1>6. CASE Answer(WriteHeader(resp, 204), 204, <<>>, "")
  <2> DEFINE c == 204
  <2>1. resp' = WriteHeader(resp, c) /\ meant' = Said(c, <<>>) /\ Return("")
    BY <1>6 DEF Answer
  <2>2. c \in StatusType /\ c # 0
    BY DEF StatusType
  <2> HIDE DEF c
  <2>3. Answered
    BY <1>1, <2>1, <2>2, HeaderAnswers
  <2> QED BY <1>1, <2>1, <2>3, AnsweringIn
<1> QED BY <1>3, <1>4, <1>5, <1>6

InSteps ==
  \/ AssignID \/ SecurityHeaders \/ ServeHealth \/ Cors \/ Csrf \/ Timeout \/ APIVersion \/ CompressIn
  \/ Static \/ WrapIn \/ CacheIn \/ Authenticating \/ Authorizing \/ Sunset \/ PassIn \/ Route
  \/ Sends \/ Bare \/ Fails \/ Streams \/ Formats \/ Typed

LEMMA InStepsChange ==
  ASSUME Quietly, StoreInv, InSteps
  PROVE  Change
BY AssignIDChanges, SecurityChanges, HealthChanges, CorsChanges, ChecksChange, VersionChanges,
   CompressInChanges, StaticChanges, WrapInChanges, CacheInChanges, SunsetChanges, PassInChanges,
   RouteChanges, SendsChanges, BareChanges, FailsChanges, StreamsChanges, FormatsChanges, TypedChanges
   DEF InSteps, Change

(* On the way out: what covers a response is taken off it, and nothing of  *)
(* what was said is lost.                                                  *)
LEMMA CloseCoherent ==
  ASSUME NEW r, ResponseOK(r), Len(r.layers) >= 2, r.layers[Len(r.layers)].kind = "gzip", NEW m, Coherent(r, m)
  PROVE  Lowered(r, CloseGzip(r)) /\ Coherent(CloseGzip(r), m)
<1> DEFINE s == CloseGzip(r)
<1> SUFFICES Lowered(r, s) /\ Coherent(s, m)
  OBVIOUS
<1>1. Lowered(r, s) /\ (Silence(r) => Silence(s))
  BY CloseGzipLowers
<1>2. \A c \in StatusType, ps \in Seq(Authors) : \A W : Gone(r, c, ps, W) => Gone(s, c, ps, W)
  BY CloseGzipGone
<1> HIDE DEF s
<1>3. s.head = r.head
  BY <1>1 DEF Lowered
<1>4. CASE Hushed(r, m)
  BY <1>1, <1>4 DEF Hushed, Coherent
<1>5. CASE SaidBy(r, m)
  <2>1. m.status \in StatusType /\ m.body \in Seq(Authors) /\ m.with \subseteq Marks
    BY <1>5 DEF SaidBy
  <2>2. PICK ps \in {<<>>, m.body} : Gone(r, m.status, ps, m.with) /\ (r.head \/ ps = m.body)
    BY <1>5 DEF SaidBy
  <2>3. ps \in Seq(Authors)
    <3>1. <<>> \in Seq(Authors)
      OBVIOUS
    <3> QED BY <2>1, <2>2, <3>1
  <2>4. Gone(s, m.status, ps, m.with)
    BY <1>2, <2>1, <2>2, <2>3
  <2> QED BY <1>1, <1>3, <2>1, <2>2, <2>4 DEF SaidBy, Coherent
<1> QED BY <1>1, <1>4, <1>5 DEF Coherent

LEMMA UncoverCoherent ==
  ASSUME NEW r, ResponseOK(r), Len(r.layers) >= 2, r.layers[Len(r.layers)].kind # "gzip", NEW m, Coherent(r, m)
  PROVE  Lowered(r, Uncover(r)) /\ Coherent(Uncover(r), m)
<1> DEFINE s == Uncover(r)
<1> SUFFICES Lowered(r, s) /\ Coherent(s, m)
  OBVIOUS
<1>1. Lowered(r, s) /\ (Silence(r) => Silence(s))
  BY UncoverLowers
<1>2. \A c, ps, W : Gone(r, c, ps, W) => Gone(s, c, ps, W)
  BY UncoverGone
<1> HIDE DEF s
<1>3. s.head = r.head
  BY <1>1 DEF Lowered
<1>4. CASE Hushed(r, m)
  BY <1>1, <1>4 DEF Hushed, Coherent
<1>5. CASE SaidBy(r, m)
  <2>1. m.status \in StatusType /\ m.body \in Seq(Authors) /\ m.with \subseteq Marks
    BY <1>5 DEF SaidBy
  <2>2. PICK ps \in {<<>>, m.body} : Gone(r, m.status, ps, m.with) /\ (r.head \/ ps = m.body)
    BY <1>5 DEF SaidBy
  <2>3. Gone(s, m.status, ps, m.with)
    BY <1>2, <2>2
  <2> QED BY <1>1, <1>3, <2>1, <2>2, <2>3 DEF SaidBy, Coherent
<1> QED BY <1>1, <1>4, <1>5 DEF Coherent

(* The stage below which the writer of a stage lies.                       *)
Outward ==
  /\ ResponseOK(resp) /\ dir = "out" /\ at \in Nat \ {0}
  /\ OpenBy(chain, at) \/ (StackedBy(chain, at, resp) /\ Coherent(resp, meant))
Topped(kind) ==
  /\ Len(resp.layers) >= 2 /\ resp.layers[Len(resp.layers)].kind = kind
  /\ Coherent(resp, meant)

LEMMA UnderIs ==
  ASSUME Outward, Stage.is \in Covering
  PROVE  Topped(KindOver(Stage.is))
<1>1. at \in 1..at
  BY DEF Outward
<1>2. ~OpenBy(chain, at)
  BY <1>1 DEF OpenBy, Stage
<1>3. StackedBy(chain, at, resp) /\ Coherent(resp, meant) /\ at \in Nat \ {0}
  BY <1>2 DEF Outward
<1> QED BY <1>3, StackedTop DEF Topped, Stage

(* An error is rendered by a stage that covers the response, if by any.    *)
Rendering(r) == \E e : Handles(e, resp) /\ r = Rendered(e, resp)
Behaves(r) == Rendering(r) \/ (r = resp /\ meant' = meant)

LEMMA BehavesIs ==
  ASSUME ResponseOK(resp), NEW r, Behaves(r)
  PROVE  ResponseOK(r) /\ SameForm(resp, r) /\ (Coherent(resp, meant) => Coherent(r, meant'))
<1>1. CASE Rendering(r)
  BY <1>1, RenderedOK, HandlesCoherent DEF Rendering
<1>2. CASE r = resp /\ meant' = meant
  BY <1>2, SameFormItself
<1> QED BY <1>1, <1>2 DEF Behaves

LEMMA OutwardPlain ==
  ASSUME Outward, Behaves(resp'), Stage.is \notin Covering, NEW e, Return(e), store' = store
  PROVE  PlainOut
<1>1. ResponseOK(resp') /\ SameForm(resp, resp') /\ (Coherent(resp, meant) => Coherent(resp', meant'))
  BY BehavesIs DEF Outward
<1>2. dir = "out" /\ at >= 1
  BY DEF Outward
<1> QED BY <1>1, <1>2 DEF PlainOut, Return, Backward

LEMMA PlainOutChanges ==
  ASSUME Outward, Log \/ ErrorBoundary \/ PassOut
  PROVE  PlainOut
<1>1. Stage.is \notin Covering
  BY DEF Log, ErrorBoundary, PassOut, Going, Covering, ActiveOut
<1>2. Return(err) /\ store' = store
  BY DEF Log, ErrorBoundary, PassOut, Quiet
<1>3. Behaves(resp')
  BY DEF Log, ErrorBoundary, PassOut, Behaves, Rendering
<1> QED BY <1>1, <1>2, <1>3, OutwardPlain

LEMMA TopKind ==
  ASSUME ResponseOK(resp), NEW kind, Topped(kind), NEW r, Behaves(r)
  PROVE  /\ ResponseOK(r) /\ SameForm(resp, r) /\ Len(r.layers) >= 2 /\ Len(resp.layers) \in Nat
         /\ r.layers[Len(r.layers)].kind = kind /\ Coherent(r, meant')
<1>1. ResponseOK(r) /\ SameForm(resp, r) /\ Coherent(r, meant')
  BY BehavesIs DEF Topped
<1>2. Len(resp.layers) \in Nat /\ Len(resp.layers) >= 2 /\ resp.layers[Len(resp.layers)].kind = kind
  BY DEF Topped, ResponseOK, LayersOK
<1>3. Len(r.layers) = Len(resp.layers)
  BY <1>1 DEF SameForm
<1>4. Len(resp.layers) \in 1..Len(resp.layers)
  BY <1>2
<1>5. r.layers[Len(resp.layers)].kind = resp.layers[Len(resp.layers)].kind
  BY <1>1, <1>4 DEF SameForm
<1> QED BY <1>1, <1>2, <1>3, <1>5

LEMMA CompressOutChanges ==
  ASSUME Outward, StoreInv, CompressOut
  PROVE  CoveredOut
<1>1. Going("out", "compressing") /\ Return(err) /\ Quiet
  BY DEF CompressOut
<1>2. \E r : Behaves(r) /\ resp' = CloseGzip(r)
  BY Zenon DEF CompressOut, Behaves, Rendering
<1>3. PICK r : Behaves(r) /\ resp' = CloseGzip(r)
  BY <1>2
<1>4. Stage.is \in Covering /\ KindOver(Stage.is) = "gzip"
  BY <1>1 DEF Going, Covering, KindOver
<1>5. Topped("gzip") /\ ResponseOK(resp)
  BY <1>4, UnderIs DEF Outward
<1>6. /\ ResponseOK(r) /\ SameForm(resp, r) /\ Len(r.layers) >= 2 /\ Len(resp.layers) \in Nat
      /\ r.layers[Len(r.layers)].kind = "gzip" /\ Coherent(r, meant')
  BY <1>3, <1>5, TopKind
<1>7. Lowered(r, CloseGzip(r)) /\ Coherent(CloseGzip(r), meant')
  BY <1>6, CloseCoherent
<1>8. Lowered(resp, resp') /\ Coherent(resp', meant')
  BY <1>3, <1>6, <1>7, LoweredSameForm
<1> QED BY <1>1, <1>4, <1>8 DEF CoveredOut, Going, Return, Backward, Quiet, StoreInv

LEMMA WrapOutChanges ==
  ASSUME Outward, StoreInv, WrapOut
  PROVE  CoveredOut
<1>1. Going("out", "std") /\ Return(err) /\ Quiet
  BY DEF WrapOut
<1>2. \E r : Behaves(r) /\ resp' = Uncover(r)
  BY Zenon DEF WrapOut, Behaves, Rendering
<1>3. PICK r : Behaves(r) /\ resp' = Uncover(r)
  BY <1>2
<1>4. Stage.is \in Covering /\ KindOver(Stage.is) = "std"
  BY <1>1 DEF Going, Covering, KindOver
<1>5. Topped("std") /\ ResponseOK(resp)
  BY <1>4, UnderIs DEF Outward
<1>6. /\ ResponseOK(r) /\ SameForm(resp, r) /\ Len(r.layers) >= 2 /\ Len(resp.layers) \in Nat
      /\ r.layers[Len(r.layers)].kind = "std" /\ Coherent(r, meant')
  BY <1>3, <1>5, TopKind
<1>7. Lowered(r, Uncover(r)) /\ Coherent(Uncover(r), meant')
  BY <1>6, UncoverCoherent
<1>8. Lowered(resp, resp') /\ Coherent(resp', meant')
  BY <1>3, <1>6, <1>7, LoweredSameForm
<1> QED BY <1>1, <1>4, <1>8 DEF CoveredOut, Going, Return, Backward, Quiet, StoreInv

(* What the response cache keeps of a request.                             *)
Kept_(s) == [key |-> req.path, response |-> s, by |-> req, said |-> meant]

LEMMA KeptIs == \A s : Kept_(s).response = s /\ Kept_(s).by = req /\ Kept_(s).said = meant
BY DEF Kept_

LEMMA CapturedOne == \A r : \A s, t \in Captured(r) : s = t
BY DEF Captured

LEMMA SharedNow ==
  ASSUME ResponseOK(resp), Topped("record"), Shareable, resp.head = (req.method = "HEAD"),
         NEW s \in Captured(resp), WorthKeeping(Captured(resp))
  PROVE  Shared(Kept_(s))
<1>1. s.status = 200 /\ req.method # "HEAD" /\ NoStore \notin s.header
  BY CapturedOne DEF WorthKeeping, NoStore
<1>2. ~Silence(resp)
  BY CapturedNone
<1>3. SaidBy(resp, meant)
  BY <1>2 DEF Topped, Coherent, Hushed
<1>4. PICK ps \in {<<>>, meant.body} : Gone(resp, meant.status, ps, meant.with) /\ (resp.head \/ ps = meant.body)
  BY <1>3 DEF SaidBy
<1>5. ps = meant.body
  BY <1>1, <1>4
<1>6. resp.layers[Len(resp.layers)].kind = "record" /\ Gone(resp, meant.status, meant.body, meant.with)
  BY <1>4, <1>5 DEF Topped
<1>7. /\ s.status = meant.status /\ NamesOf(s.body) = meant.body /\ s.body \in Seq(PieceType)
      /\ "Set-Cookie" \notin meant.with
      /\ "Cache-Control" \in meant.with => NoStore \in s.header
  BY <1>6, CapturedIs
<1>8. meant.with = {}
  BY <1>1, <1>3, <1>7 DEF SaidBy, Marks
<1>9. req.method = "GET" /\ req.cred.bearer = Absent /\ req.cred.basic = Absent /\ ~req.cookie
  BY <1>1 DEF Shareable, HasCredentials
<1> QED BY <1>1, <1>7, <1>8, <1>9, KeptIs DEF Shared

LEMMA CacheOutChanges ==
  ASSUME Outward, StoreInv, Shareable, resp.head = (req.method = "HEAD"), CacheOut
  PROVE  CoveredOut
<1>1. Going("out", "caching") /\ Return(err) /\ resp' = Uncover(resp) /\ meant' = meant
  BY DEF CacheOut
<1>2. store' = store \/ (WorthKeeping(Captured(resp)) /\ store' = store \cup {Kept_(s) : s \in Captured(resp)})
  BY Zenon DEF CacheOut, Kept_
<1>3. Stage.is \in Covering /\ KindOver(Stage.is) = "record"
  BY <1>1 DEF Going, Covering, KindOver
<1>4. Topped("record") /\ ResponseOK(resp)
  BY <1>3, UnderIs DEF Outward
<1>5. Lowered(resp, resp') /\ Coherent(resp', meant')
  BY <1>1, <1>4, UncoverCoherent DEF Topped
<1>6. \A s \in store' : Shared(s)
  <2>1. \A s \in store : Shared(s)
    BY DEF StoreInv
  <2>2. CASE WorthKeeping(Captured(resp)) /\ store' = store \cup {Kept_(s) : s \in Captured(resp)}
    <3>1. \A s \in Captured(resp) : Shared(Kept_(s))
      BY <1>4, <2>2, SharedNow
    <3> QED BY <2>1, <2>2, <3>1
  <2> QED BY <1>2, <2>1, <2>2
<1> QED BY <1>1, <1>3, <1>5, <1>6 DEF CoveredOut, Going, Return, Backward

LEMMA UnwindChanges ==
  ASSUME Unwind
  PROVE  Unwinds
BY DEF Unwind, Unwinds, Backward, Cut

LEMMA RecoverChanges ==
  ASSUME Recover
  PROVE  Recovers
BY DEF Recover, Recovers, Going, Refuse, Return, Quiet, Backward

LEMMA ExpiresChanges ==
  ASSUME CacheExpires
  PROVE  Expires
BY DEF CacheExpires, Expires, pathVars, seenVars

LEMMA StepChanges ==
  ASSUME WritersInv, PipelineStep
  PROVE  Change
<1> USE DEF WritersInv
<1>1. at \in Nat /\ (\A j \in 1..Len(chain) : chain[j].is = "caching" => Shareable) /\ at \in 0..Len(chain)
  BY ListIs DEF StagesInv
<1>2. CASE dir = "in"
  <2>1. Quietly /\ StoreInv
    BY <1>2 DEF Quietly, WayInv
  <2>2. InSteps
    BY <1>2 DEF PipelineStep, InSteps, Log, ErrorBoundary, Recover, CompressOut, WrapOut, CacheOut,
       CacheExpires, PassOut, Unwind, Going
  <2> QED BY <2>1, <2>2, InStepsChange
<1>3. CASE dir = "out"
  <2>1. Log \/ ErrorBoundary \/ PassOut \/ CompressOut \/ WrapOut \/ CacheOut
    <3>1. ~InSteps
      BY <1>3 DEF InSteps, AssignID, SecurityHeaders, ServeHealth, Cors, Csrf, Timeout, APIVersion, CompressIn,
         Static, WrapIn, CacheIn, Authenticating, Authorizing, Sunset, PassIn, Route,
         Sends, Bare, Fails, Streams, Formats, Typed, Going, Handling
    <3>2. ~Recover /\ ~CacheExpires /\ ~Unwind
      BY <1>3 DEF Recover, CacheExpires, Unwind, Going
    <3> QED BY <3>1, <3>2 DEF PipelineStep, InSteps
  <2>2. at >= 1
    BY <2>1 DEF Log, ErrorBoundary, PassOut, CompressOut, WrapOut, CacheOut, Going
  <2>3. Outward /\ StoreInv /\ resp.head = (req.method = "HEAD")
    BY <1>1, <1>3, <2>2 DEF WayInv, Outward
  <2>4. CacheOut => Shareable
    <3>1. at \in 1..Len(chain)
      BY <1>1, <2>2
    <3> QED BY <1>1, <3>1 DEF CacheOut, Going, Stage
  <2> QED BY <2>1, <2>3, <2>4, PlainOutChanges, CompressOutChanges, WrapOutChanges, CacheOutChanges DEF Change
<1>4. CASE dir \notin {"in", "out"}
  <2>1. ~InSteps
    BY <1>4 DEF InSteps, AssignID, SecurityHeaders, ServeHealth, Cors, Csrf, Timeout, APIVersion, CompressIn,
       Static, WrapIn, CacheIn, Authenticating, Authorizing, Sunset, PassIn, Route,
       Sends, Bare, Fails, Streams, Formats, Typed, Going, Handling
  <2>2. ~Log /\ ~ErrorBoundary /\ ~PassOut /\ ~CompressOut /\ ~WrapOut /\ ~CacheOut
    BY <1>4 DEF Log, ErrorBoundary, PassOut, CompressOut, WrapOut, CacheOut, Going
  <2>3. Recover \/ CacheExpires \/ Unwind
    BY <2>1, <2>2 DEF PipelineStep, InSteps
  <2> QED BY <2>3, UnwindChanges, RecoverChanges, ExpiresChanges DEF Change
<1> QED BY <1>2, <1>3, <1>4

(* Each of these steps keeps the writers in their places.                  *)
At_ == at \in 0..Len(chain) /\ IsList(chain) /\ Len(chain) \in Nat

LEMMA AtIn_ == StagesInv => At_
BY ListIs DEF StagesInv, At_

LEMMA InwardAt ==
  ASSUME StagesInv, CallInv', Inward
  PROVE  /\ at \in 1..Len(chain) /\ at \in Nat \ {0} /\ at' - 1 = at /\ Len(chain) \in Nat
         /\ IsList(chain') /\ at' \in 1..Len(chain') /\ Len(chain') \in Nat
<1>1. at \in 0..Len(chain) /\ at >= 1 /\ at' = at + 1 /\ dir' = "in" /\ Len(chain) \in Nat
  BY AtIn_ DEF At_, Inward
<1>2. IsList(chain') /\ Len(chain') = Len(Whole') /\ at' \in 1..Len(Whole')
  BY <1>1 DEF CallInv, ChainOK
<1>3. Len(chain') \in Nat
  BY <1>2, ListIs
<1> QED BY <1>1, <1>2, <1>3

LEMMA BackwardAt ==
  ASSUME StagesInv, Backward
  PROVE  at \in 1..Len(chain) /\ at \in Nat \ {0} /\ at' \in 0..Len(chain) /\ at' = at - 1 /\ at' \in Nat
BY AtIn_ DEF At_, Backward

LEMMA MarkedList ==
  ASSUME IsList(chain), at \in 1..Len(chain), NEW kind, chain' = Marking(kind)
  PROVE  /\ Len(chain') = Len(chain) /\ chain'[at].is = kind
         /\ \A j \in 1..Len(chain) : j # at => chain'[j] = chain[j]
<1> DEFINE e == [is |-> kind]
<1>1. e.is = kind /\ chain' = [chain EXCEPT ![at] = e]
  BY DEF Marking
<1> HIDE DEF e
<1> QED BY <1>1, ListExcept

(* What a chain has been through, and what is ahead.                       *)
Ahead_(c, n) == \A j \in n..Len(c) : c[j].is \notin {"compressing", "caching"}
Opened_(c) == \A j \in 1..Len(c) : c[j].is = "recovery" => \A k \in 1..j : c[k].is \in Builtin
Cached_(c) == \A j \in 1..Len(c) : c[j].is = "caching" => Shareable

LEMMA StagesInvIs ==
  StagesInv <=> /\ IsList(chain) /\ at \in 0..Len(chain) /\ Cached_(chain) /\ Opened_(chain)
                /\ dir = "in" => at >= 1 /\ Ahead_(chain, at)
BY DEF StagesInv, Cached_, Opened_, Ahead_

LEMMA ShareableSame == Kept => Shareable' = Shareable
BY DEF Kept, Shareable, HasCredentials

LEMMA StagesInvNext ==
  ASSUME Kept, IsList(chain'), at' \in 0..Len(chain'), Cached_(chain'), Opened_(chain'),
         dir' = "in" => at' >= 1 /\ Ahead_(chain', at')
  PROVE  StagesInv'
<1>1. \A j \in 1..Len(chain') : chain'[j].is = "caching" => Shareable'
  BY ShareableSame DEF Cached_
<1> QED BY <1>1 DEF StagesInv, Opened_, Ahead_

LEMMA AheadMore ==
  ASSUME NEW c, NEW n \in Nat, Ahead_(c, n)
  PROVE  Ahead_(c, n + 1)
BY DEF Ahead_

LEMMA StagesBackward ==
  ASSUME StagesInv, Kept, Backward, dir' # "in"
  PROVE  StagesInv'
<1>1. Cached_(chain) /\ Opened_(chain) /\ IsList(chain)
  BY StagesInvIs
<1>2. at' \in 0..Len(chain) /\ chain' = chain
  BY BackwardAt DEF Backward
<1> QED BY <1>1, <1>2, StagesInvNext

LEMMA StagesOnward ==
  ASSUME StagesInv, CallInv', Kept, Inward,
         \/ chain' = chain
         \/ Stage.is = "compress" /\ \E kind \in {"compress", "compressing"} : chain' = Marking(kind)
         \/ Stage.is = "cache" /\ chain' = Marking("caching") /\ Shareable
  PROVE  StagesInv'
<1>1. /\ at \in 1..Len(chain) /\ at \in Nat \ {0} /\ at' - 1 = at /\ Len(chain) \in Nat
      /\ IsList(chain') /\ at' \in 1..Len(chain') /\ Len(chain') \in Nat
  BY InwardAt
<1>2. Cached_(chain) /\ Opened_(chain) /\ IsList(chain) /\ Ahead_(chain, at) /\ at' = at + 1
  BY StagesInvIs DEF Inward
<1>3. at' \in 0..Len(chain') /\ at' >= 1
  BY <1>1
<1>4. CASE chain' = chain
  <2>1. Ahead_(chain', at')
    BY <1>1, <1>2, <1>4, AheadMore
  <2> QED BY <1>1, <1>2, <1>3, <1>4, <2>1, StagesInvNext
<1>5. ASSUME NEW kind \in {"compress", "compressing", "caching"}, chain' = Marking(kind),
             Stage.is \in {"compress", "cache"}, kind = "caching" => Shareable
      PROVE  StagesInv'
  <2>1. /\ Len(chain') = Len(chain) /\ chain'[at].is = kind
        /\ \A j \in 1..Len(chain) : j # at => chain'[j] = chain[j]
    BY <1>1, <1>2, <1>5, MarkedList
  <2>2. Cached_(chain')
    BY <1>2, <1>5, <2>1 DEF Cached_
  <2>3. Opened_(chain')
    <3> SUFFICES ASSUME NEW j \in 1..Len(chain), chain'[j].is = "recovery", NEW k \in 1..j
                 PROVE  chain'[k].is \in Builtin
      BY <2>1 DEF Opened_
    <3>1. j # at
      BY <1>5, <2>1
    <3>2. \A i \in 1..j : chain[i].is \in Builtin
      BY <1>2, <2>1, <3>1 DEF Opened_
    <3>3. k # at
      <4>1. chain[at].is \notin Builtin
        BY <1>5 DEF Stage, Builtin
      <4> QED BY <3>2, <4>1
    <3>4. k \in 1..Len(chain)
      BY <1>1
    <3> QED BY <2>1, <3>2, <3>3, <3>4
  <2>4. Ahead_(chain', at')
    <3> SUFFICES ASSUME NEW j \in at'..Len(chain) PROVE chain'[j].is \notin {"compressing", "caching"}
      BY <2>1 DEF Ahead_
    <3>1. j \in at..Len(chain) /\ j # at /\ j \in 1..Len(chain)
      BY <1>1, <1>2
    <3> QED BY <1>2, <2>1, <3>1 DEF Ahead_
  <2> QED BY <1>1, <1>3, <2>2, <2>3, <2>4, StagesInvNext
<1> QED BY <1>4, <1>5

LEMMA StagesExtend ==
  ASSUME RoutingInv, StagesInv, CallInv', Kept, Extends
  PROVE  StagesInv' /\ Agree(chain, chain', at)
<1> DEFINE b == Looked.route.stages
           n == Len(chain)
           m == Len(b)
<1>1. /\ at \in 1..Len(chain) /\ at \in Nat \ {0} /\ at' - 1 = at /\ Len(chain) \in Nat
      /\ IsList(chain') /\ at' \in 1..Len(chain') /\ Len(chain') \in Nat
  BY InwardAt DEF Extends
<1>2. Cached_(chain) /\ Opened_(chain) /\ IsList(chain) /\ Ahead_(chain, at) /\ at' = at + 1
  BY StagesInvIs DEF Extends, Inward
<1>3. StagesSound(b) /\ chain' = Joined(chain, b)
  BY LookedSound DEF Extends, Inward, Joined
<1> HIDE DEF b
<1>4. IsList(b) /\ m \in Nat /\ \A i \in 1..m : StageSound(b[i])
  BY <1>3, ListIs DEF StagesSound
<1>5. /\ n \in Nat /\ Len(chain') = n + m + 1
      /\ \A i \in 1..n : chain'[i] = chain[i]
      /\ \A i \in 1..m : chain'[n + i] = b[i]
      /\ chain'[n + m + 1] = HandlerStage
  <2>1. /\ Len(Joined(chain, b)) = Len(chain) + Len(b) + 1
        /\ \A i \in 1..Len(chain) : Joined(chain, b)[i] = chain[i]
        /\ \A i \in 1..Len(b) : Joined(chain, b)[Len(chain) + i] = b[i]
        /\ Joined(chain, b)[Len(chain) + Len(b) + 1] = HandlerStage
    <3>1. IsList(chain) /\ IsList(b)
      BY <1>2, <1>4
    <3> HIDE DEF n, m
    <3> QED BY ONLY <3>1, JoinedIs
  <2> QED BY <1>1, <1>3, <2>1
<1>6. \A i \in 1..m : b[i].is \notin {"compressing", "caching", "recovery"}
  BY <1>4 DEF StageSound, Middleware
<1>7. HandlerStage.is = "handler"
  BY DEF HandlerStage
<1> HIDE DEF n, m
<1>8. \A i \in 1..(n + m + 1) : i \in 1..n \/ i - n \in 1..m \/ i = n + m + 1
  BY <1>4, <1>5
<1>9. ASSUME NEW i \in 1..Len(chain'), i \notin 1..n
      PROVE  chain'[i].is \notin {"compressing", "caching", "recovery"}
  <2>1. CASE i - n \in 1..m
    <3>1. n + (i - n) = i
      BY <1>4, <1>5, <2>1
    <3>2. chain'[i] = b[i - n]
      BY <1>5, <2>1, <3>1
    <3> QED BY <1>6, <2>1, <3>2
  <2>2. CASE i = n + m + 1
    BY <1>5, <1>7, <2>2
  <2> QED BY <1>5, <1>8, <1>9, <2>1, <2>2
<1>10. \A i \in 1..n : i \in 1..Len(chain') /\ i \in 1..Len(chain)
  BY <1>4, <1>5 DEF n
<1>11. Cached_(chain')
  BY <1>2, <1>5, <1>9, <1>10 DEF Cached_
<1>12. Opened_(chain')
  <2> SUFFICES ASSUME NEW j \in 1..Len(chain'), chain'[j].is = "recovery", NEW k \in 1..j
               PROVE  chain'[k].is \in Builtin
    BY DEF Opened_
  <2>1. j \in 1..n
    BY <1>9
  <2>2. k \in 1..n
    BY <1>5, <2>1
  <2>3. chain[j].is = "recovery" /\ j \in 1..Len(chain)
    BY <1>5, <1>10, <2>1
  <2> QED BY <1>2, <1>5, <2>2, <2>3 DEF Opened_
<1>13. Ahead_(chain', at')
  <2> SUFFICES ASSUME NEW j \in at'..Len(chain') PROVE chain'[j].is \notin {"compressing", "caching"}
    BY DEF Ahead_
  <2>1. j \in 1..Len(chain')
    BY <1>1
  <2>2. CASE j \in 1..n
    <3>1. j \in at..Len(chain)
      BY <1>1, <1>2, <1>10, <2>2
    <3> QED BY <1>2, <1>5, <2>2, <3>1 DEF Ahead_
  <2> QED BY <1>9, <2>1, <2>2
<1>14. Agree(chain, chain', at)
  <2>1. \A j \in 1..at : j \in 1..n
    BY <1>1 DEF n
  <2> QED BY <1>5, <2>1 DEF Agree
<1>15. at' \in 0..Len(chain') /\ at' >= 1
  BY <1>1
<1> QED BY <1>1, <1>11, <1>12, <1>13, <1>14, <1>15, StagesInvNext

(* On the way in.                                                          *)
LEMMA WayOnward ==
  ASSUME ResponseOK(resp), Kept, Inward, at' - 1 = at, resp'.head = resp.head, WayInv,
         StackedBy(chain', at, resp'), Silence(resp')
  PROVE  WayInv'
<1>1. Hushed(resp', meant')
  BY DEF WayInv, Inward, Hushed
<1>2. resp'.head = (req'.method = "HEAD")
  BY DEF WayInv, Inward, Kept
<1> QED BY <1>1, <1>2 DEF WayInv, Inward

LEMMA AgreeMarked ==
  ASSUME IsList(chain), Len(chain) \in Nat, at \in 1..Len(chain), NEW kind, chain' = Marking(kind)
  PROVE  Agree(chain, chain', at - 1)
<1>1. \A j \in 1..Len(chain) : j # at => chain'[j] = chain[j]
  BY MarkedList
<1>2. \A j \in 1..(at - 1) : j \in 1..Len(chain) /\ j # at
  OBVIOUS
<1> QED BY <1>1, <1>2 DEF Agree

LEMMA PlainInKeeps ==
  ASSUME RoutingInv, WritersInv, CallInv', Kept, PlainIn
  PROVE  ResponseOK(resp') /\ StagesInv' /\ WayInv' /\ StoreInv'
<1> USE DEF WritersInv
<1>1. /\ at \in 1..Len(chain) /\ at \in Nat \ {0} /\ at' - 1 = at /\ Len(chain) \in Nat
  BY InwardAt DEF PlainIn
<1>2. Inward /\ ResponseOK(resp') /\ SameForm(resp, resp') /\ Silence(resp') /\ Stage.is \notin Covering
  BY DEF PlainIn, Touched, Inward, WayInv, Hushed
<1>3. StackedBy(chain, at - 1, resp)
  BY <1>2 DEF Inward, WayInv
<1>4. StagesInv'
  BY StagesOnward DEF PlainIn
<1>5. StackedBy(chain, at, resp)
  BY <1>1, <1>2, <1>3, StackedPlain DEF Stage
<1>6. Agree(chain, chain', at)
  <2>1. CASE chain' = chain
    BY <2>1 DEF Agree
  <2>2. CASE Stage.is = "compress" /\ chain' = Marking("compress")
    <3>1. IsList(chain)
      BY DEF StagesInv
    <3>2. Agree(chain, chain', at - 1) /\ chain'[at].is = "compress"
      BY <1>1, <2>2, <3>1, AgreeMarked, MarkedList
    <3>3. \A j \in 1..at : j = at \/ j \in 1..(at - 1)
      BY <1>1
    <3> QED BY <2>2, <3>2, <3>3 DEF Agree, Stage
  <2> QED BY <2>1, <2>2 DEF PlainIn
<1>7. StackedBy(chain', at, resp')
  BY <1>1, <1>2, <1>5, <1>6, StackedAgain
<1>8. WayInv'
  BY <1>1, <1>2, <1>7, WayOnward DEF SameForm
<1> QED BY <1>2, <1>4, <1>8 DEF StoreInv, Inward

LEMMA CoveredInKeeps ==
  ASSUME RoutingInv, WritersInv, CallInv', Kept, CoveredIn
  PROVE  ResponseOK(resp') /\ StagesInv' /\ WayInv' /\ StoreInv'
<1> USE DEF WritersInv
<1>1. /\ at \in 1..Len(chain) /\ at \in Nat \ {0} /\ at' - 1 = at /\ Len(chain) \in Nat /\ IsList(chain) /\ at - 1 \in Nat
  BY InwardAt DEF CoveredIn, StagesInv
<1>2. Inward /\ StackedBy(chain, at - 1, resp) /\ Silence(resp)
  BY DEF CoveredIn, Inward, WayInv, Hushed
<1>3. StagesInv'
  <2>1. \/ chain' = chain
        \/ Stage.is = "compress" /\ \E kind \in {"compress", "compressing"} : chain' = Marking(kind)
        \/ Stage.is = "cache" /\ chain' = Marking("caching") /\ Shareable
    BY DEF CoveredIn
  <2> QED BY <1>2, <2>1, StagesOnward
<1>4. chain'[at].is \in Covering /\ Overlaid(resp, resp', KindOver(chain'[at].is)) /\ StackedBy(chain', at - 1, resp)
  <2>1. CASE Stage.is = "std" /\ Overlaid(resp, resp', "std") /\ chain' = chain
    BY <1>2, <2>1 DEF Stage, Covering, KindOver
  <2>2. ASSUME NEW kind \in {"compressing", "caching"}, chain' = Marking(kind), Overlaid(resp, resp', KindOver(kind))
        PROVE  chain'[at].is \in Covering /\ Overlaid(resp, resp', KindOver(chain'[at].is)) /\ StackedBy(chain', at - 1, resp)
    <3>1. Agree(chain, chain', at - 1) /\ chain'[at].is = kind
      BY <1>1, <2>2, AgreeMarked, MarkedList
    <3>2. SameForm(resp, resp)
      BY SameFormItself
    <3>3. StackedBy(chain', at - 1, resp)
      BY <1>1, <1>2, <3>1, <3>2, StackedAgain
    <3> QED BY <2>2, <3>1, <3>3 DEF Covering
  <2> QED BY <2>1, <2>2 DEF CoveredIn, KindOver
<1>5. StackedBy(chain', at, resp')
  BY <1>1, <1>4, StackedMore
<1>6. ResponseOK(resp') /\ Silence(resp') /\ resp'.head = resp.head
  BY <1>2, <1>4 DEF Overlaid
<1>7. WayInv'
  BY <1>1, <1>2, <1>5, <1>6, WayOnward
<1> QED BY <1>2, <1>3, <1>6, <1>7 DEF StoreInv, Inward

LEMMA ExtendsKeeps ==
  ASSUME RoutingInv, WritersInv, CallInv', Kept, Extends
  PROVE  ResponseOK(resp') /\ StagesInv' /\ WayInv' /\ StoreInv'
<1> USE DEF WritersInv
<1>1. Inward /\ Stage.is = "router" /\ resp' = resp
  BY DEF Extends
<1>2. at \in Nat \ {0} /\ at' - 1 = at /\ StagesInv' /\ Agree(chain, chain', at)
  BY <1>1, InwardAt, StagesExtend
<1>3. StackedBy(chain, at - 1, resp) /\ Silence(resp)
  BY <1>1 DEF Inward, WayInv, Hushed
<1>4. chain[at].is \notin Covering
  BY <1>1 DEF Stage, Covering
<1>5. StackedBy(chain, at, resp)
  BY <1>2, <1>3, <1>4, StackedPlain
<1>6. StackedBy(chain', at, resp)
  BY <1>2, <1>5, SameFormItself, StackedAgain
<1>7. WayInv'
  BY <1>1, <1>2, <1>3, <1>6, WayOnward
<1> QED BY <1>1, <1>2, <1>7 DEF StoreInv, Inward

(* On the way out.                                                         *)
LEMMA WayBack ==
  ASSUME StagesInv, WayInv, Kept, Backward, dir' = "out", dir # "idle", resp'.head = resp.head,
         OpenBy(chain, at - 1) \/ (StackedBy(chain, at - 1, resp') /\ Coherent(resp', meant'))
  PROVE  StagesInv' /\ WayInv'
<1>1. StagesInv'
  BY StagesBackward
<1>2. at' = at - 1 /\ chain' = chain
  BY DEF Backward
<1>3. resp'.head = (req'.method = "HEAD")
  BY DEF WayInv, Kept
<1>4. OpenBy(chain', at') \/ (StackedBy(chain', at', resp') /\ Coherent(resp', meant'))
  BY <1>2
<1> QED BY <1>1, <1>3, <1>4 DEF WayInv

LEMMA AnswersInKeeps ==
  ASSUME RoutingInv, WritersInv, CallInv', Kept, AnswersIn
  PROVE  ResponseOK(resp') /\ StagesInv' /\ WayInv' /\ StoreInv'
<1> USE DEF WritersInv
<1>1. at \in Nat \ {0} /\ at - 1 \in Nat /\ Backward /\ dir = "in" /\ dir' = "out" /\ store' = store
  BY BackwardAt DEF AnswersIn
<1>2. ResponseOK(resp') /\ SameForm(resp, resp') /\ Coherent(resp', meant')
  BY DEF AnswersIn, Answered
<1>3. StackedBy(chain, at - 1, resp)
  BY <1>1 DEF WayInv
<1>4. Agree(chain, chain, at - 1)
  BY DEF Agree
<1>5. StackedBy(chain, at - 1, resp')
  BY <1>1, <1>2, <1>3, <1>4, StackedAgain
<1>6. resp'.head = resp.head
  BY <1>2 DEF SameForm
<1> QED BY <1>1, <1>2, <1>5, <1>6, WayBack DEF StoreInv

LEMMA PlainOutKeeps ==
  ASSUME RoutingInv, WritersInv, CallInv', Kept, PlainOut
  PROVE  ResponseOK(resp') /\ StagesInv' /\ WayInv' /\ StoreInv'
<1> USE DEF WritersInv
<1>1. at \in Nat \ {0} /\ at - 1 \in Nat /\ Backward /\ dir = "out" /\ dir' = "out" /\ store' = store
  BY BackwardAt DEF PlainOut
<1>2. /\ ResponseOK(resp') /\ SameForm(resp, resp') /\ chain[at].is \notin Covering
      /\ Coherent(resp, meant) => Coherent(resp', meant')
  BY DEF PlainOut, Stage
<1>3. Agree(chain, chain, at - 1)
  BY DEF Agree
<1>4. OpenBy(chain, at - 1) \/ (StackedBy(chain, at - 1, resp') /\ Coherent(resp', meant'))
  <2>1. CASE OpenBy(chain, at)
    BY <1>1, <2>1, OpenLess
  <2>2. CASE StackedBy(chain, at, resp) /\ Coherent(resp, meant)
    <3>1. StackedBy(chain, at - 1, resp)
      BY <1>1, <1>2, <2>2, StackedPlain
    <3>2. StackedBy(chain, at - 1, resp')
      BY <1>1, <1>2, <1>3, <3>1, StackedAgain
    <3> QED BY <1>2, <2>2, <3>2
  <2> QED BY <1>1, <2>1, <2>2 DEF WayInv
<1>5. resp'.head = resp.head
  BY <1>2 DEF SameForm
<1> QED BY <1>1, <1>2, <1>4, <1>5, WayBack DEF StoreInv

LEMMA CoveredOutKeeps ==
  ASSUME RoutingInv, WritersInv, CallInv', Kept, CoveredOut
  PROVE  ResponseOK(resp') /\ StagesInv' /\ WayInv' /\ StoreInv'
<1> USE DEF WritersInv
<1>1. at \in Nat \ {0} /\ at - 1 \in Nat /\ Backward /\ dir = "out" /\ dir' = "out"
  BY BackwardAt DEF CoveredOut
<1>2. Lowered(resp, resp') /\ chain[at].is \in Covering /\ Coherent(resp', meant') /\ \A s \in store' : Shared(s)
  BY DEF CoveredOut, Stage
<1>3. StackedBy(chain, at, resp)
  <2>1. ~OpenBy(chain, at)
    <3>1. at \in 1..at
      BY <1>1
    <3> QED BY <1>2, <3>1 DEF OpenBy
  <2> QED BY <1>1, <2>1 DEF WayInv
<1>4. StackedBy(chain, at - 1, resp')
  BY <1>1, <1>2, <1>3, StackedLess
<1>5. resp'.head = resp.head /\ ResponseOK(resp')
  BY <1>2 DEF Lowered
<1>6. StoreInv'
  BY <1>2 DEF StoreInv, Shared
<1> QED BY <1>1, <1>2, <1>4, <1>5, <1>6, WayBack

(* Panics.                                                                 *)
LEMMA WayDown ==
  ASSUME StagesInv, WayInv, Kept, Backward, dir' \in {"panic", "abort"}, dir # "idle", resp'.head = resp.head,
         Len(resp'.layers) >= 1 + Count(chain, at - 1)
  PROVE  StagesInv' /\ WayInv'
<1>1. StagesInv'
  BY StagesBackward
<1>2. at' = at - 1 /\ chain' = chain
  BY DEF Backward
<1>3. resp'.head = (req'.method = "HEAD")
  BY DEF WayInv, Kept
<1>4. Len(resp'.layers) >= 1 + Count(chain', at')
  BY <1>2
<1> QED BY <1>1, <1>3, <1>4 DEF WayInv

LEMMA PanicsInKeeps ==
  ASSUME RoutingInv, WritersInv, CallInv', Kept, PanicsIn
  PROVE  ResponseOK(resp') /\ StagesInv' /\ WayInv' /\ StoreInv'
<1> USE DEF WritersInv
<1>1. at \in Nat \ {0} /\ at - 1 \in Nat /\ Backward /\ dir = "in" /\ dir' \in {"panic", "abort"} /\ store' = store
  BY BackwardAt DEF PanicsIn
<1>2. ResponseOK(resp') /\ SameForm(resp, resp')
  BY DEF PanicsIn
<1>3. StackedBy(chain, at - 1, resp) /\ Count(chain, at - 1) \in Nat
  BY <1>1, CountIs DEF WayInv
<1>4. Len(resp'.layers) >= 1 + Count(chain, at - 1) /\ resp'.head = resp.head
  BY <1>2, <1>3 DEF StackedBy, SameForm
<1> QED BY <1>1, <1>2, <1>4, WayDown DEF StoreInv

LEMMA UnwindsKeeps ==
  ASSUME RoutingInv, WritersInv, CallInv', Kept, Unwinds
  PROVE  ResponseOK(resp') /\ StagesInv' /\ WayInv' /\ StoreInv'
<1> USE DEF WritersInv
<1>1. /\ at \in Nat \ {0} /\ at - 1 \in Nat /\ Backward /\ dir \in {"panic", "abort"}
      /\ dir' \in {"panic", "abort"} /\ store' = store
  BY BackwardAt DEF Unwinds
<1>2. /\ Len(resp.layers) >= 1 + Count(chain, at) /\ Len(resp.layers) \in Nat
      /\ Count(chain, at) \in Nat /\ Count(chain, at - 1) \in Nat
      /\ Count(chain, at - 1) <= Count(chain, at)
  <2>1. Count(chain, at) = Count(chain, at - 1) + (IF chain[at].is \in Covering THEN 1 ELSE 0)
        /\ Count(chain, at - 1) \in Nat /\ Count(chain, at) \in Nat
    BY <1>1, CountFrom
  <2> QED BY <1>1, <2>1 DEF WayInv, ResponseOK, LayersOK
<1>3. CASE resp' = resp
  BY <1>1, <1>2, <1>3, WayDown DEF StoreInv
<1>4. CASE resp' = Cut(resp, Beneath)
  <2>1. Beneath = 1 + Count(chain, at - 1)
    BY DEF Beneath, Count, Covers_
  <2>2. Beneath \in 1..Len(resp.layers)
    BY <1>2, <2>1
  <2>3. CutTo(resp, Beneath, resp')
    BY <1>4, <2>2, CutIs
  <2>4. ResponseOK(resp') /\ Len(resp'.layers) >= 1 + Count(chain, at - 1) /\ resp'.head = resp.head
    BY <1>2, <2>1, <2>3 DEF CutTo
  <2> QED BY <1>1, <2>4, WayDown DEF StoreInv
<1> QED BY <1>3, <1>4 DEF Unwinds

LEMMA RecoversKeeps ==
  ASSUME RoutingInv, WritersInv, CallInv', Kept, Recovers
  PROVE  ResponseOK(resp') /\ StagesInv' /\ WayInv' /\ StoreInv'
<1> USE DEF WritersInv
<1>1. /\ at \in 1..Len(chain) /\ at \in Nat \ {0} /\ at - 1 \in Nat /\ Backward
      /\ dir = "panic" /\ dir' = "out" /\ store' = store /\ resp' = resp /\ chain[at].is = "recovery"
  BY BackwardAt DEF Recovers, Stage
<1>2. \A k \in 1..at : chain[k].is \in Builtin
  BY <1>1 DEF StagesInv
<1>3. OpenBy(chain, at - 1)
  <2>1. \A k \in 1..(at - 1) : k \in 1..at
    BY <1>1
  <2> QED BY <1>2, <2>1 DEF OpenBy, Builtin, Covering
<1> QED BY <1>1, <1>3, WayBack DEF StoreInv

LEMMA ExpiresKeeps ==
  ASSUME RoutingInv, WritersInv, CallInv', Kept, Expires
  PROVE  ResponseOK(resp') /\ StagesInv' /\ WayInv' /\ StoreInv'
<1> USE DEF WritersInv
<1>1. dir = "done" /\ dir' = "done" /\ at' = at /\ chain' = chain /\ resp' = resp /\ store' = {} /\ req' = req
  BY DEF Expires, Kept
<1>2. StagesInv'
  BY <1>1, ShareableSame DEF StagesInv
<1>3. WayInv'
  BY <1>1 DEF WayInv
<1> QED BY <1>1, <1>2, <1>3 DEF StoreInv

LEMMA ChangeKeeps ==
  ASSUME RoutingInv, WritersInv, CallInv', Kept, Change
  PROVE  ResponseOK(resp') /\ StagesInv' /\ WayInv' /\ StoreInv'
BY PlainInKeeps, CoveredInKeeps, AnswersInKeeps, PanicsInKeeps, PlainOutKeeps, CoveredOutKeeps,
   UnwindsKeeps, RecoversKeeps, ExpiresKeeps, ExtendsKeeps DEF Change

(* What a request begins with.                                             *)
SplitAt(s, n) ==
  /\ n \in 0..Len(s) /\ \A i \in 1..n : s[i].is \in Builtin
  /\ \A i \in 1..Len(s) : i > n => s[i].is \in Middleware \cup {"security", "health", "router"}

LEMMA SplitConcat ==
  ASSUME NEW T, NEW a \in Seq(T), NEW b \in Seq(T), NEW n, SplitAt(a, n),
         \A i \in 1..Len(b) : b[i].is \in Middleware \cup {"security", "health", "router"}
  PROVE  SplitAt(a \o b, n) /\ a \o b \in Seq(T)
<1> DEFINE s == a \o b
           late == Middleware \cup {"security", "health", "router"}
<1>1. /\ s \in Seq(T) /\ Len(s) = Len(a) + Len(b) /\ Len(a) \in Nat /\ Len(b) \in Nat
      /\ \A i \in 1..Len(a) : s[i] = a[i]
      /\ \A i \in 1..Len(b) : s[Len(a) + i] = b[i]
  BY ConcatFacts
<1> HIDE DEF s, late
<1>2. n \in 0..Len(a) /\ (\A i \in 1..n : a[i].is \in Builtin) /\ \A i \in 1..Len(a) : i > n => a[i].is \in late
  BY DEF SplitAt, late
<1>3. n \in 0..Len(s) /\ \A i \in 1..n : i \in 1..Len(a)
  BY <1>1, <1>2
<1>4. \A i \in 1..n : s[i].is \in Builtin
  BY <1>1, <1>2, <1>3
<1>5. ASSUME NEW i \in 1..Len(s), i > n PROVE s[i].is \in late
  <2>1. CASE i \in 1..Len(a)
    BY <1>1, <1>2, <1>5, <2>1
  <2>2. CASE i \notin 1..Len(a)
    <3>1. i - Len(a) \in 1..Len(b) /\ Len(a) + (i - Len(a)) = i
      BY <1>1, <2>2
    <3>2. s[i] = b[i - Len(a)]
      BY <1>1, <3>1
    <3> QED BY <3>1, <3>2 DEF late
  <2> QED BY <2>1, <2>2
<1> QED BY <1>1, <1>3, <1>4, <1>5 DEF SplitAt, s, late

LEMMA StagesOpen ==
  ASSUME server \in DOMAIN Servers
  PROVE  /\ Opened_(Stages)
         /\ \A j \in 1..Len(Stages) : Stages[j].is \notin {"compressing", "caching"}
<1> DEFINE own == srv.stages
           A == {own[i] : i \in DOMAIN own}
           T == (BuiltinStages \cup A) \cup {RouterStage}
           f == First(srv.log)
           g == Second(srv.recovery)
           x == <<BuiltinStage("request-id")>>
           o == OpeningStages
           late == Middleware \cup {"security", "health", "router"}
<1>1. own \in Seq(A) /\ Len(own) \in Nat /\ \A i \in 1..Len(own) : own[i].is \in Middleware
  <2>1. StagesSound(own)
    BY ServerSound
  <2>2. IsList(own) /\ \A i \in DOMAIN own : StageSound(own[i])
    BY <2>1 DEF StagesSound
  <2> HIDE DEF own
  <2>3. DOMAIN own = 1..Len(own) /\ Len(own) \in Nat
    BY <2>2, ListIs
  <2> QED BY <2>2, <2>3 DEF IsList, StageSound
<1>2. \A stage \in BuiltinStages : stage.is \in Builtin
  BY DEF BuiltinStages, BuiltinStage
<1>3. x \in Seq(BuiltinStages) /\ f \in Seq(BuiltinStages) /\ g \in Seq(BuiltinStages) /\ Hosts \in Seq(BuiltinStages)
  BY BuiltinsIn DEF First, Second, Hosts
<1> HIDE DEF A, f, g, x, own
<1>4. o \in Seq(BuiltinStages)
  <2>1. x \o f \in Seq(BuiltinStages)
    BY <1>3, ConcatFacts
  <2>2. (x \o f) \o g \in Seq(BuiltinStages)
    BY <1>3, <2>1, ConcatFacts
  <2> QED BY <2>2 DEF OpeningStages, x, f, g
<1>5. <<RouterStage>> \in Seq({RouterStage})
  OBVIOUS
<1>6. o \in Seq(T) /\ Hosts \in Seq(T) /\ own \in Seq(T) /\ <<RouterStage>> \in Seq(T)
  <2> HIDE DEF o
  <2> QED BY <1>1, <1>3, <1>4, <1>5
<1>7. SplitAt(o, Len(o))
  <2> HIDE DEF o
  <2>1. Len(o) \in Nat /\ \A i \in 1..Len(o) : o[i] \in BuiltinStages
    BY <1>4
  <2> QED BY <1>2, <2>1 DEF SplitAt
<1> DEFINE n == Len(o)
           h == o \o Hosts
           s == h \o own
<1> HIDE DEF T
<1>8. \A i \in 1..Len(Hosts) : Hosts[i].is \in late
  BY DEF Hosts, BuiltinStage
<1>9. \A i \in 1..Len(own) : own[i].is \in late
  BY <1>1
<1>10. \A i \in 1..Len(<<RouterStage>>) : <<RouterStage>>[i].is \in late
  BY DEF RouterStage
<1>11. SplitAt(h, n) /\ h \in Seq(T)
  <2> HIDE DEF o, n
  <2>1. SplitAt(o, n)
    BY <1>7 DEF n
  <2> QED BY <1>6, <1>8, <2>1, SplitConcat
<1>12. SplitAt(s, n) /\ s \in Seq(T)
  <2> HIDE DEF h, n
  <2> QED BY <1>6, <1>9, <1>11, SplitConcat
<1>13. SplitAt(s \o <<RouterStage>>, n)
  <2> HIDE DEF s, n
  <2> QED BY <1>6, <1>10, <1>12, SplitConcat
<1>14. Stages = s \o <<RouterStage>>
  BY StagesAre DEF own
<1> HIDE DEF s, n
<1>15. SplitAt(Stages, n)
  BY <1>13, <1>14
<1>16. n \in Nat /\ (\A i \in 1..n : Stages[i].is \in Builtin)
       /\ \A i \in 1..Len(Stages) : i > n => Stages[i].is \in late
  BY <1>15 DEF SplitAt
<1> HIDE DEF late
<1>17. "recovery" \notin late /\ {"compressing", "caching"} \cap (late \cup Builtin) = {}
  BY DEF late, Middleware, Builtin
<1>18. \A i \in 1..Len(Stages) : i \in 1..n \/ i > n
  BY <1>16
<1>19. \A j \in 1..Len(Stages) : Stages[j].is \notin {"compressing", "caching"}
  BY <1>16, <1>17, <1>18
<1>20. Opened_(Stages)
  <2> SUFFICES ASSUME NEW j \in 1..Len(Stages), Stages[j].is = "recovery", NEW k \in 1..j
               PROVE  Stages[k].is \in Builtin
    BY DEF Opened_
  <2>1. j \in 1..n
    BY <1>16, <1>17, <1>18
  <2>2. k \in 1..n
    BY <1>16, <2>1
  <2> QED BY <1>16, <2>2
<1> QED BY <1>19, <1>20

LEMMA NewResponseIs ==
  ASSUME NEW head \in BOOLEAN
  PROVE  /\ ResponseOK(NewResponse(head)) /\ Silence(NewResponse(head)) /\ Len(NewResponse(head).layers) = 1
         /\ NewResponse(head).head = head
<1> DEFINE l == Layer("own")
           ls == <<l>>
           r == NewResponse(head)
<1>1. LayerOK(l) /\ l.kind = "own" /\ Fresh(l)
  BY DEF Layer, LayerOK, StatusType, Fresh
<1>2. WireOK(NoWire)
  BY DEF WireOK, NoWire, StatusType
<1>3. r = Response(ls, {}, NoWire, head)
  BY DEF NewResponse, Response
<1> HIDE DEF l
<1>4. IsList(ls) /\ Len(ls) = 1 /\ DOMAIN ls = 1..1 /\ ls[1] = l
  BY DEF IsList
<1> HIDE DEF ls, r
<1>5. \A i \in 1..1 : i = 1
  OBVIOUS
<1>6. LayersOK(ls)
  BY <1>1, <1>4, <1>5 DEF LayersOK
<1>7. r.layers = ls /\ r.header = {} /\ r.wire = NoWire /\ r.head = head
  BY <1>3 DEF Response
<1>8. ResponseOK(r)
  BY <1>2, <1>3, <1>6, <1>7 DEF ResponseOK
<1>9. Silence(r)
  BY <1>1, <1>4, <1>5, <1>7 DEF Silence
<1> QED BY <1>4, <1>7, <1>8, <1>9 DEF r

(* What a step leaves of the record of requests.                           *)
LEMMA StatusOK == ASSUME NEW r, ResponseOK(r) PROVE Status(r) \in StatusType
<1> DEFINE ls == r.layers
<1>1. IsList(ls) /\ Len(ls) \in Nat /\ Len(ls) \in 1..Len(ls) /\ \A i \in 1..Len(ls) : LayerOK(ls[i])
  BY DEF ResponseOK, LayersOK
<1>2. Status(r) = ls[Len(ls)].status
  BY DEF Status, Last
<1> HIDE DEF ls
<1>3. LayerOK(ls[Len(ls)])
  BY <1>1
<1> QED BY <1>2, <1>3 DEF LayerOK

LEMMA RecordKept ==
  ASSUME WritersInv, PipelineStep
  PROVE  exchanges' = exchanges /\ logged' \in StatusType /\ entered' \in BOOLEAN
<1> USE DEF WritersInv
<1>1. ResponseOK(resp) /\ logged \in StatusType /\ entered \in BOOLEAN
  BY DEF RecordInv
<1>2. 0 \in StatusType
  BY DEF StatusType
<1>3. CASE Log
  <2>1. exchanges' = exchanges /\ entered' = entered
    BY <1>3 DEF Log
  <2>2. logged' \in {0, Status(resp), StatusOf(err)}
    BY <1>3 DEF Log
  <2> QED BY <1>1, <1>2, <2>1, <2>2, StatusOK, StatusIs
<1>4. CASE \/ AssignID \/ ErrorBoundary \/ Recover \/ SecurityHeaders \/ ServeHealth
           \/ Cors \/ Csrf \/ Timeout \/ APIVersion \/ CompressIn \/ CompressOut \/ Static
  BY <1>1, <1>4 DEF AssignID, ErrorBoundary, Recover, SecurityHeaders, ServeHealth,
     Cors, Csrf, Timeout, APIVersion, CompressIn, CompressOut, Static, Quiet
<1>5. CASE \/ WrapIn \/ WrapOut \/ CacheIn \/ CacheOut \/ CacheExpires
           \/ Authenticating \/ Authorizing \/ Sunset \/ PassIn \/ PassOut \/ Unwind \/ Route
  BY <1>1, <1>5 DEF WrapIn, WrapOut, CacheIn, CacheOut, CacheExpires, Authenticating, Authorizing,
     Sunset, PassIn, PassOut, Unwind, Route, Quiet, seenVars
<1>6. CASE Sends \/ Bare \/ Fails \/ Streams \/ Formats \/ Typed
  BY <1>1, <1>6 DEF Sends, Bare, Fails, Streams, Formats, Typed, Handling, Handled, Perform, seenVars
<1> QED BY <1>3, <1>4, <1>5, <1>6 DEF PipelineStep

LEMMA ServeWriters ==
  ASSUME RoutingInv, CallInv, WritersInv, Serve
  PROVE  WritersInv'
<1>1. PipelineStep /\ Change /\ Kept
  <2>1. PipelineStep
    BY DEF Serve
  <2>2. Change
    BY <2>1, StepChanges
  <2>3. ContextOK
    BY DEF RoutingInv, RequestInv, ContextOK
  <2>4. Deed
    BY <2>1, <2>3, StepIsDeed
  <2> QED BY <2>1, <2>2, <2>4 DEF Deed
<1>2. CallInv'
  BY ServeCalls
<1>3. ResponseOK(resp') /\ StagesInv' /\ WayInv' /\ StoreInv'
  BY <1>1, <1>2, ChangeKeeps
<1>4. exchanges' = exchanges /\ logged' \in StatusType /\ entered' \in BOOLEAN
  BY <1>1, RecordKept
<1>5. dir' \in Way
  <2>1. dir \in Way
    BY DEF WritersInv, RecordInv
  <2> QED BY <1>1, <2>1 DEF Change, PlainIn, CoveredIn, AnswersIn, PanicsIn, PlainOut, CoveredOut, Unwinds, Recovers,
       Expires, Extends, Inward, Way
<1> QED BY <1>3, <1>4, <1>5 DEF WritersInv, RecordInv

LEMMA AcceptWriters ==
  ASSUME RoutingInv, WritersInv, Accept
  PROVE  WritersInv'
<1>1. /\ chain' = Stages /\ at' = 1 /\ dir' = "in" /\ resp' = NewResponse(req'.method = "HEAD")
      /\ exchanges < MaxExchanges /\ exchanges' = exchanges + 1 /\ logged' = 0 /\ entered' = FALSE
      /\ meant' = Unsaid /\ store' = store
  <2>1. Arrive
    BY DEF Accept
  <2> QED BY <2>1, Zenon DEF Arrive
<1>2. StagesOK /\ Opened_(Stages) /\ \A j \in 1..Len(Stages) : Stages[j].is \notin {"compressing", "caching"}
  BY StagesIs, StagesOpen DEF RoutingInv, TableInv
<1>3. IsList(chain') /\ at' \in 0..Len(chain') /\ at' >= 1
  BY <1>1, <1>2 DEF StagesOK
<1>4. StagesInv'
  BY <1>1, <1>2, <1>3 DEF StagesInv, Opened_
<1> DEFINE head == req'.method = "HEAD"
<1>5. head \in BOOLEAN
  OBVIOUS
<1>6. resp' = NewResponse(head)
  BY <1>1
<1> HIDE DEF head
<1>7. ResponseOK(resp') /\ Silence(resp') /\ Len(resp'.layers) = 1 /\ resp'.head = head
  BY <1>5, <1>6, NewResponseIs
<1>8. StackedBy(chain', 0, resp')
  BY <1>7, CountNone DEF StackedBy
<1>9. StackedBy(chain', at' - 1, resp')
  BY <1>1, <1>8
<1>10. WayInv'
  BY <1>1, <1>7, <1>9 DEF WayInv, Hushed, head
<1>11. StoreInv'
  BY <1>1 DEF WritersInv, StoreInv
<1>12. RecordInv'
  <2>1. MaxExchanges \in Nat
    BY PipelineAssumption
  <2>2. 0 \in StatusType
    BY DEF StatusType
  <2>3. exchanges' \in 0..MaxExchanges
    BY <1>1, <2>1 DEF WritersInv, RecordInv
  <2>4. dir' \in Way /\ entered' \in BOOLEAN
    BY <1>1 DEF Way
  <2> QED BY <1>1, <2>2, <2>3, <2>4 DEF RecordInv
<1> QED BY <1>4, <1>7, <1>10, <1>11, <1>12 DEF WritersInv

LEMMA EndWriters ==
  ASSUME RoutingInv, WritersInv, Finish \/ Abandon
  PROVE  WritersInv'
<1> USE DEF WritersInv
<1>1. /\ chain' = chain /\ at' = at /\ dir' \in {"done", "gone"} /\ dir # "idle" /\ store' = store /\ exchanges' = exchanges
      /\ logged' = logged /\ entered' = entered /\ Kept
  BY DEF Finish, Abandon, ServeDone, ServeAborts, Quiet, Kept
<1>2. ResponseOK(resp') /\ resp'.head = resp.head
  <2>1. CASE Finish
    <3>1. Behaves(resp')
      BY <2>1 DEF Finish, ServeDone, Behaves, Rendering
    <3>2. ResponseOK(resp') /\ SameForm(resp, resp')
      BY <3>1, BehavesIs
    <3> QED BY <3>2 DEF SameForm
  <2>2. CASE Abandon
    BY <2>2 DEF Abandon, ServeAborts
  <2> QED BY <2>1, <2>2
<1>3. StagesInv'
  BY <1>1, ShareableSame DEF StagesInv
<1>4. WayInv'
  BY <1>1, <1>2 DEF WayInv, Kept
<1>5. StoreInv' /\ RecordInv'
  BY <1>1 DEF StoreInv, RecordInv, Way
<1> QED BY <1>2, <1>3, <1>4, <1>5

LEMMA WritersStep ==
  ASSUME RoutingInv, CallInv, WritersInv, [ApplicationNext]_applicationVars
  PROVE  WritersInv'
<1>1. CASE Elsewhere \/ Register
  <2>1. /\ req' = req /\ chain' = chain /\ at' = at /\ dir' = dir /\ resp' = resp /\ store' = store
        /\ exchanges' = exchanges /\ logged' = logged /\ entered' = entered /\ meant' = meant
    BY <1>1 DEF Elsewhere, Register, pipelineVars, pathVars, seenVars
  <2>2. Shareable' = Shareable
    BY <2>1 DEF Shareable, HasCredentials
  <2>3. StagesInv' /\ WayInv' /\ StoreInv' /\ RecordInv'
    BY <2>1, <2>2 DEF WritersInv, StagesInv, WayInv, StoreInv, RecordInv
  <2> QED BY <2>1, <2>3 DEF WritersInv
<1>2. Elsewhere \/ Register \/ Accept \/ (Finish \/ Abandon) \/ Serve
  BY StepIs
<1>3. CASE Accept
  BY <1>3, AcceptWriters
<1>4. CASE Finish \/ Abandon
  BY <1>4, EndWriters
<1>5. CASE Serve
  BY <1>5, ServeWriters
<1> QED BY <1>1, <1>2, <1>3, <1>4, <1>5

LEMMA WritersInit ==
  ASSUME ApplicationInit
  PROVE  WritersInv
<1>1. /\ chain = <<>> /\ at = 0 /\ dir = "idle" /\ resp = NewResponse(FALSE) /\ store = {}
      /\ exchanges = 0 /\ logged = 0 /\ entered = FALSE
  BY DEF ApplicationInit, PipelineInit
<1>2. ResponseOK(resp)
  BY <1>1, NewResponseIs
<1>3. IsList(chain) /\ Len(chain) = 0
  BY <1>1 DEF IsList
<1>4. StagesInv
  BY <1>1, <1>3 DEF StagesInv
<1>5. WayInv /\ StoreInv
  BY <1>1 DEF WayInv, StoreInv
<1>6. RecordInv
  <2>1. MaxExchanges \in Nat
    BY PipelineAssumption
  <2>2. 0 \in StatusType
    BY DEF StatusType
  <2>3. exchanges \in 0..MaxExchanges
    BY <1>1, <2>1
  <2>4. dir \in Way /\ entered \in BOOLEAN
    BY <1>1 DEF Way
  <2> QED BY <1>1, <2>2, <2>3, <2>4 DEF RecordInv
<1> QED BY <1>2, <1>4, <1>5, <1>6 DEF WritersInv

(* Routes are only left to register while the application is built.        *)
PendingInv == pending # <<>> => phase = "building"

LEMMA PendingStep ==
  ASSUME PendingInv, [ApplicationNext]_applicationVars
  PROVE  PendingInv'
<1> USE DEF Alone, PendingInv
<1>1. CASE UNCHANGED applicationVars
  BY <1>1 DEF applicationVars, startupVars, startVars
<1>2. CASE Alone(StartRoutes)
  BY <1>2 DEF StartRoutes
<1>3. CASE \/ Alone(Provide) \/ Alone(AddComponent) \/ Register \/ Alone(Visit) \/ Alone(Visited)
           \/ Alone(Construct) \/ Alone(CloseBuilt) \/ Alone(StartHook) \/ Alone(StopHook)
  BY <1>3 DEF Provide, AddComponent, Register, Report, Visit, Visited, Construct, CloseBuilt,
       StartHook, StopHook
<1>4. CASE Alone(BuildFor) \/ Accept \/ Inject \/ Finish \/ Alone(CloseScoped) \/ Abandon \/ Serve \/ Alone(Ended)
  BY <1>4 DEF BuildFor, Accept, RequestBegin, Inject, Dep, ResolveFor, Resolve, ResolveFails,
       Finish, RequestDone, CloseScoped, Abandon, RequestAborted, Serve, Ended, startVars, startupVars
<1>5. CASE \/ Alone(ValidateGraph) \/ Alone(SearchEnds) \/ Alone(ConstructFails) \/ Alone(Undone)
           \/ Alone(Freeze) \/ Alone(StartHookFails) \/ Alone(Started) \/ Alone(HooksStopped) \/ Alone(Stop)
  BY <1>5 DEF ValidateGraph, SearchEnds, ConstructFails, Undone, Freeze, InvokeAndFreeze,
       StartHookFails, Started, HooksStopped, Stop
<1> QED BY <1>1, <1>2, <1>3, <1>4, <1>5 DEF ApplicationNext

LEMMA PendingInit == ApplicationInit => PendingInv
BY DEF ApplicationInit, StartupInit, PendingInv

LEMMA PipelineTyped == WritersInv => PipelineTypeOK
<1> SUFFICES ASSUME WritersInv PROVE PipelineTypeOK
  OBVIOUS
<1> DEFINE n == Len(resp.layers)
<1>1. n \in Nat /\ n >= 1 /\ \A i \in 1..n : LayerOK(resp.layers[i]) /\ (resp.layers[i].kind = "own") = (i = 1)
  BY DEF WritersInv, ResponseOK, LayersOK
<1>2. \A i \in 1..n : resp.layers[i].kind \in {"own", "gzip", "record", "std"}
  BY <1>1 DEF LayerOK
<1> HIDE DEF n
<1>3. 1 \in 1..n /\ \A i \in 2..n : i \in 1..n /\ i # 1
  BY <1>1
<1>4. resp.layers[1].kind = "own"
  BY <1>1, <1>3
<1>5. \A i \in 2..n : resp.layers[i].kind \in {"gzip", "record", "std"}
  BY <1>1, <1>2, <1>3
<1>6. at \in 0..Len(chain)
  BY DEF WritersInv, StagesInv
<1>7. /\ dir \in {"idle", "in", "out", "panic", "abort", "done", "gone"} /\ exchanges \in 0..MaxExchanges
      /\ entered \in BOOLEAN
  BY DEF WritersInv, RecordInv, Way
<1>8. logged \in {0} \cup 200..599
  BY DEF WritersInv, RecordInv, StatusType
<1> QED BY <1>4, <1>5, <1>6, <1>7, <1>8 DEF PipelineTypeOK, n

LEMMA CacheSound == WritersInv => CacheHolds
<1> SUFFICES ASSUME WritersInv, NEW s \in store
             PROVE  /\ s.response.status = 200 /\ s.by.method = "GET"
                    /\ s.by.cred.bearer = Absent /\ s.by.cred.basic = Absent /\ ~s.by.cookie
                    /\ s.said.status = 200 /\ s.said.with = {}
                    /\ [i \in DOMAIN s.response.body |-> s.response.body[i].of] = s.said.body
  BY DEF CacheHolds
<1>1. Shared(s)
  BY DEF WritersInv, StoreInv
<1> QED BY <1>1 DEF Shared, NamesOf

(* At every moment of a request: its writers are those of the stages it    *)
(* is in, in their order, from the one of the server out to the last       *)
(* compressor, recorder or writer of standard middleware; none of them has *)
(* seen anything while the request is on its way in; and once something    *)
(* was said, each of them has passed it on, or holds it, in order and as a *)
(* whole (Context.swapWriter, ResponseWriter, gzipWriter, Recorder).       *)
THEOREM Writing == ApplicationSpec => [](RoutingInv /\ CallInv /\ WritersInv /\ PendingInv)
<1> DEFINE I == RoutingInv /\ CallInv /\ WritersInv /\ PendingInv
<1>1. ApplicationInit => I
  <2>1. ApplicationInit => CallInv
    BY DEF ApplicationInit, PipelineInit, CallInv
  <2> QED BY <2>1, RoutingInit, WritersInit, PendingInit
<1>2. I /\ [ApplicationNext]_applicationVars => I'
  BY RoutingStep, CallStep, WritersStep, PendingStep
<1> QED BY <1>1, <1>2, PTL DEF ApplicationSpec

(* Every state of an application has its type: what the container has, and *)
(* a request that is at a stage of its chain, under writers of which only  *)
(* the first is the server's (ServeHTTP, buildPipeline, App.addRoute).     *)
THEOREM ApplicationTyped == ApplicationSpec => []ApplicationTypeOK
<1>1. ApplicationSpec => []StartupTypeOK
  BY ApplicationIsStartup, StartupTyped, PTL
<1>2. RoutingInv /\ CallInv /\ WritersInv /\ PendingInv /\ StartupTypeOK => ApplicationTypeOK
  BY PipelineTyped DEF ApplicationTypeOK, PendingInv
<1> QED BY <1>1, <1>2, Writing, PTL

(* Whatever the stages, the routes and the requests: the response cache    *)
(* only keeps what may be shared: the whole 200 that a handler said, to a  *)
(* GET without credentials, neither setting a cookie nor marked no-store   *)
(* (cache.Response, Recorder, and the writers between them and a handler). *)
THEOREM CacheShares == ApplicationSpec => []CacheHolds
BY Writing, CacheSound, PTL
=============================================================================
