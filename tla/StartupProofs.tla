---------------------------- MODULE StartupProofs ----------------------------
(***************************************************************************)
(* Proofs about Startup: for every set of types, every plan of             *)
(* registrations and every list of components, the dependency container    *)
(* validates, builds, injects and closes as ContainerSound says.           *)
(*                                                                         *)
(* The operators on the graph are taken over an order given as a           *)
(* parameter, since only registration changes the order.                   *)
(***************************************************************************)
EXTENDS Startup, ListsProofs, SequenceTheorems

OneEach(ord) ==
  ord \in Seq(Provider) /\ \A i, j \in DOMAIN ord : ord[i].out = ord[j].out => i = j
Prov(ord, t) == ord[CHOOSE i \in DOMAIN ord : ord[i].out = t]
DepsOf(ord, t) == {d \in Type : \E p \in Range(ord) : p.out = t /\ d \in Range(p.params)}
ClosedIn(ord, S) == \A t \in S : DepsOf(ord, t) \subseteq S
BelowIn(ord, t) ==
  {d \in Type : \A S \in SUBSET Type : DepsOf(ord, t) \subseteq S /\ ClosedIn(ord, S) => d \in S}

(* What supply and register make of a provider, and what validate asks of  *)
(* the uses.                                                               *)
Okay(p) == p.supplied => p.params = <<>> /\ p.scope = "singleton"
Proper(ord, p, d) ==
  /\ d = RequestPtr => p.scope = "request"
  /\ d # RequestPtr => d \in Types(ord) /\ (p.scope = "singleton" => Prov(ord, d).scope = "singleton")
Clean(ord) == \A i \in DOMAIN ord : \A k \in DOMAIN ord[i].params : Proper(ord, ord[i], ord[i].params[k])

-----------------------------------------------------------------------------
(* The inductive invariant.                                                *)

Registered ==
  /\ \A i \in DOMAIN plan : Okay(plan[i])
  /\ \A i \in DOMAIN order : Okay(order[i])
  /\ \A i \in DOMAIN appHooks : appHooks[i].of \in ComponentName

(* What is still empty when.                                               *)
Untouched ==
  /\ phase \in {"building", "validate", "search"} => singletons = {} /\ hooks = <<>> /\ calls = <<>>
  /\ phase \in {"building", "validate"} => done = <<>> /\ cycle = <<>>
  /\ phase \in {"building", "validate", "search", "build", "undo"} => next = 1 /\ started = <<>>
  /\ phase \in {"building", "validate", "search", "build", "hook"} => released = <<>>
  /\ request # "none" => phase \in {"running", "stopping", "stopped"}
  /\ request \in {"active", "closing"} => phase = "running"
  /\ request \in {"none", "over", "aborted"} => scoped = {} /\ cleanups = <<>>
  /\ request = "closing" => cleanups # <<>>
  /\ stack # <<>> => phase \in {"search", "build"} \/ request = "active"

(* The calls on the stack: each is below those it is called in.            *)
CallsNested ==
  /\ \A i, j \in DOMAIN stack : i < j => stack[j] \in BelowIn(order, stack[i])
  /\ \A i, j \in DOMAIN stack : stack[i] = stack[j] => i = j

(* The search: what is done was done after what it depends on.             *)
CycleReal ==
  /\ Len(cycle) > 1 /\ cycle[1] = cycle[Len(cycle)]
  /\ \A i \in 1..(Len(cycle) - 1) : cycle[i + 1] \in DepsOf(order, cycle[i])
DoneInOrder ==
  /\ \A i, j \in DOMAIN done : done[i] = done[j] => i = j
  /\ \A i \in DOMAIN done : \A d \in DepsOf(order, done[i]) \cap Types(order) :
       \E j \in 1..(i - 1) : done[j] = d
SearchSound ==
  /\ DoneInOrder
  /\ cycle # <<>> => CycleReal
  /\ phase = "search" =>
       /\ \A i \in DOMAIN done, j \in DOMAIN stack : done[i] # stack[j]
       /\ \A i \in 1..(Len(stack) - 1) : stack[i + 1] \in DepsOf(order, stack[i])
       /\ diags = {} => Clean(order)

Accepted == Clean(order) /\ Types(order) \subseteq Range(done) /\ cycle = <<>>
GraphValidated ==
  phase \in {"build", "undo", "hook", "unstart", "running", "stopping", "stopped"} \/ calls # <<>>
    => Accepted

(* Construction.                                                           *)
SingletonsClosed ==
  \A s \in singletons :
    /\ Prov(order, s).scope = "singleton" /\ DepsOf(order, s) \subseteq singletons
    /\ Prov(order, s).supplied \/ \E j \in DOMAIN calls : calls[j] = s
InOrder(ord, list) ==
  \A i \in DOMAIN list : \A d \in DepsOf(ord, list[i]) :
    Prov(ord, d).supplied \/ \E j \in 1..(i - 1) : list[j] = d
CallsInOrder ==
  /\ InOrder(order, calls)
  /\ \A i, j \in DOMAIN calls : calls[i] \in singletons /\ calls[j] = calls[i] => j = i
Building ==
  /\ SingletonsClosed
  /\ CallsInOrder
  /\ phase = "build" =>
       /\ \A i \in DOMAIN calls : calls[i] \in singletons
       /\ \A i \in DOMAIN stack : /\ stack[i] \notin singletons
                                  /\ Prov(order, stack[i]).scope = "singleton"
AllBuilt == \A t \in Types(order) : Prov(order, t).scope = "singleton" => t \in singletons
BuiltBefore == phase \in {"hook", "unstart", "running", "stopping", "stopped"} => AllBuilt

(* The hooks: no hook is that of something below an earlier one.           *)
HooksSound ==
  /\ \A i \in DOMAIN hooks : hooks[i].of \in ComponentName \/ hooks[i].of \in singletons
  /\ phase \in {"build", "undo"} => \A i \in DOMAIN hooks : hooks[i].of \in singletons
  /\ \A i, j \in DOMAIN hooks : i < j => hooks[j].of \notin BelowIn(order, hooks[i].of)
  /\ Len(started) <= Len(hooks) /\ \A i \in DOMAIN started : started[i] = hooks[i]
  /\ phase = "hook" => Len(started) = next - 1
  /\ phase \in {"unstart", "failed"} => next - 1 <= Len(hooks)
  /\ phase = "running" => Len(started) = Len(hooks)
  /\ phase = "stopped" => started = <<>>

(* What is open, and who will close it.                                    *)
IsOf(list, o) == \E i \in DOMAIN list : list[i].of = o
OfRequest(o) == o \in Types(order) /\ Prov(order, o).scope = "request"
Cleaned(o) == \E i \in DOMAIN cleanups : cleanups[i] = o
Owned ==
  /\ phase \in {"building", "validate", "search", "build", "undo"} =>
       \A o \in open : \/ o \in ComponentName /\ IsOf(appHooks, o)
                       \/ \E i \in DOMAIN hooks : hooks[i].of = o /\ hooks[i].kind = "stopOnly"
  /\ phase = "hook" => \A o \in open : IsOf(hooks, o)
  /\ phase = "running" =>
       \A o \in open : IsOf(hooks, o) \/ (OfRequest(o) /\ (request = "aborted" \/ Cleaned(o)))
  /\ phase \in {"stopping", "stopped"} =>
       \A o \in open : IsOf(started, o) \/ (OfRequest(o) /\ request = "aborted")
Forsaken ==
  /\ phase = "unstart" =>
       \A i \in 1..(next - 1) : hooks[i].of \in open => IsOf(started, hooks[i].of)
  /\ phase = "failed" => \A i \in 1..(next - 1) : hooks[i].of \notin open
  /\ phase = "failed" /\ ~AllBuilt => open \subseteq ComponentName

(* The values of the request.                                              *)
Scoping ==
  /\ \A d \in scoped : /\ Prov(order, d).scope = "request"
                       /\ DepsOf(order, d) \subseteq singletons \cup scoped
                       /\ \E j \in DOMAIN calls : calls[j] = d
                       /\ request = "active" /\ Prov(order, d).kind = "closer" => d \in open
  /\ \A i \in DOMAIN cleanups :
       cleanups[i] \in scoped /\ Prov(order, cleanups[i]).kind = "closer"
  /\ \A i, j \in DOMAIN cleanups : i < j => cleanups[j] \notin BelowIn(order, cleanups[i])
  /\ request = "active" =>
       \A i \in DOMAIN stack : stack[i] \notin singletons \cup scoped
  /\ phase = "running" => \A i \in DOMAIN released :
       OfRequest(released[i]) /\ Prov(order, released[i]).kind = "closer"

(* ReleasedInOrder, over the order.                                        *)
ReleaseSound ==
  phase \notin {"unstart", "failed"} =>
    \A i \in DOMAIN released : \A t \in Types(order) \cap open :
      released[i] \in BelowIn(order, t) \ open => request = "aborted" /\ OfRequest(t)

StartupInv ==
  /\ StartupTypeOK /\ Registered /\ Untouched /\ CallsNested /\ SearchSound /\ GraphValidated
  /\ Building /\ BuiltBefore /\ HooksSound /\ Owned /\ Forsaken /\ Scoping /\ ReleaseSound

-----------------------------------------------------------------------------
(* The graph.                                                              *)

(* A provided type has one provider, whose parameters are what it depends  *)
(* on.                                                                     *)
LEMMA ProvOf ==
  ASSUME NEW ord, OneEach(ord), NEW t \in Types(ord)
  PROVE  /\ Prov(ord, t) \in Provider /\ Prov(ord, t).out = t /\ t \in Type
         /\ \E i \in DOMAIN ord : Prov(ord, t) = ord[i]
         /\ \A i \in DOMAIN ord : ord[i].out = t => ord[i] = Prov(ord, t)
         /\ DepsOf(ord, t) = Range(Prov(ord, t).params) \ {RequestPtr}
<1> DEFINE k == CHOOSE i \in DOMAIN ord : ord[i].out = t
<1>1. k \in DOMAIN ord /\ ord[k].out = t
  BY DEF Types
<1>2. ord[k] = Prov(ord, t)
  BY DEF Prov
<1>3. \A i \in DOMAIN ord : ord[i] \in Provider
  BY DEF OneEach
<1> HIDE DEF k
<1>4. \A i \in DOMAIN ord : ord[i].out = t => i = k
  BY <1>1 DEF OneEach
<1>5. Prov(ord, t) \in Provider /\ Prov(ord, t).out = t /\ t \in Type
  BY <1>1, <1>2, <1>3 DEF Provider
<1>6. DepsOf(ord, t) = {d \in Type : d \in Range(Prov(ord, t).params)}
  BY <1>1, <1>2, <1>4 DEF DepsOf, Range
<1>7. Range(Prov(ord, t).params) \subseteq Type \cup {RequestPtr}
  BY <1>5 DEF Range, Provider
<1> QED BY <1>1, <1>2, <1>4, <1>5, <1>6, <1>7, StartupAssumption

LEMMA NoDeps ==
  ASSUME NEW ord, NEW t, t \notin Types(ord)
  PROVE  DepsOf(ord, t) = {}
BY DEF DepsOf, Types, Range

LEMMA DepsTyped ==
  ASSUME NEW ord, NEW t
  PROVE  DepsOf(ord, t) \subseteq Type /\ BelowIn(ord, t) \subseteq Type
BY DEF DepsOf, BelowIn

(* What is below is the least closed set of types with the dependencies.   *)
LEMMA BelowLeast ==
  ASSUME NEW ord, NEW t, NEW S \in SUBSET Type,
         DepsOf(ord, t) \subseteq S, ClosedIn(ord, S)
  PROVE  BelowIn(ord, t) \subseteq S
BY DEF BelowIn

LEMMA BelowClosed ==
  ASSUME NEW ord, NEW t
  PROVE  /\ DepsOf(ord, t) \subseteq BelowIn(ord, t)
         /\ ClosedIn(ord, BelowIn(ord, t))
<1>1. DepsOf(ord, t) \subseteq BelowIn(ord, t)
  BY DepsTyped DEF BelowIn
<1>2. ASSUME NEW x \in BelowIn(ord, t), NEW d \in DepsOf(ord, x)
      PROVE  d \in BelowIn(ord, t)
  <2>1. ASSUME NEW S \in SUBSET Type, DepsOf(ord, t) \subseteq S, ClosedIn(ord, S)
        PROVE  d \in S
    <3>1. x \in S
      BY <2>1 DEF BelowIn
    <3> QED BY <2>1, <3>1 DEF ClosedIn
  <2>2. d \in Type
    BY DepsTyped
  <2> QED BY <2>1, <2>2 DEF BelowIn
<1> QED BY <1>1, <1>2 DEF ClosedIn

LEMMA BelowTransitive ==
  ASSUME NEW ord, NEW t, NEW x \in BelowIn(ord, t)
  PROVE  BelowIn(ord, x) \subseteq BelowIn(ord, t)
<1>1. BelowIn(ord, t) \in SUBSET Type
  BY DepsTyped
<1>2. ClosedIn(ord, BelowIn(ord, t)) /\ DepsOf(ord, x) \subseteq BelowIn(ord, t)
  BY BelowClosed DEF ClosedIn
<1> QED BY <1>1, <1>2, BelowLeast

LEMMA BelowOfClosed ==
  ASSUME NEW ord, NEW S \in SUBSET Type, ClosedIn(ord, S), NEW x \in S
  PROVE  BelowIn(ord, x) \subseteq S
BY BelowLeast DEF ClosedIn

(* Hooks of components are named by strings, below which is nothing.       *)
LEMMA NothingBelowNames ==
  ASSUME NEW ord, OneEach(ord), NEW s \in ComponentName
  PROVE  BelowIn(ord, s) = {} /\ s \notin Type
<1>1. s \notin Type
  BY StartupAssumption
<1>2. s \notin Types(ord)
  BY <1>1, ProvOf
<1>3. DepsOf(ord, s) = {}
  BY <1>2, NoDeps
<1>4. ClosedIn(ord, {})
  BY DEF ClosedIn
<1>5. BelowIn(ord, s) \subseteq {}
  BY <1>3, <1>4, BelowLeast
<1> QED BY <1>1, <1>5

(* A search that has done every type leaves none below itself.             *)
DoneOrder(ord, list) ==
  /\ \A i, j \in DOMAIN list : list[i] = list[j] => i = j
  /\ \A i \in DOMAIN list : \A d \in DepsOf(ord, list[i]) \cap Types(ord) :
       \E j \in 1..(i - 1) : list[j] = d

LEMMA Acyclic ==
  ASSUME NEW ord, OneEach(ord), NEW list \in Seq(Types(ord)), DoneOrder(ord, list),
         NEW i \in DOMAIN list
  PROVE  list[i] \notin BelowIn(ord, list[i])
<1> DEFINE S == {d \in Type : d \in Types(ord) => \E j \in 1..(i - 1) : list[j] = d}
<1>1. i \in Nat /\ DOMAIN list = 1..Len(list) /\ Len(list) \in Nat /\ list[i] \in Types(ord)
  OBVIOUS
<1>2. list[i] \notin S
  BY <1>1 DEF DoneOrder
<1>3. S \in SUBSET Type
  OBVIOUS
<1>4. \A k \in DOMAIN list : k <= i => DepsOf(ord, list[k]) \subseteq S
  <2> SUFFICES ASSUME NEW k \in DOMAIN list, k <= i, NEW d \in DepsOf(ord, list[k])
               PROVE  d \in S
    OBVIOUS
  <2>1. d \in Type
    BY DepsTyped
  <2>2. ASSUME d \in Types(ord) PROVE \E j \in 1..(i - 1) : list[j] = d
    <3>1. PICK j \in 1..(k - 1) : list[j] = d
      BY <2>2 DEF DoneOrder
    <3> QED BY <1>1, <3>1
  <2> QED BY <2>1, <2>2
<1>5. ClosedIn(ord, S)
  <2> SUFFICES ASSUME NEW x \in S PROVE DepsOf(ord, x) \subseteq S
    BY DEF ClosedIn
  <2>1. CASE x \notin Types(ord)
    BY <2>1, NoDeps
  <2>2. CASE x \in Types(ord)
    <3>1. PICK j \in 1..(i - 1) : list[j] = x
      BY <2>2
    <3> QED BY <1>1, <1>4, <3>1
  <2> QED BY <2>1, <2>2
<1> HIDE DEF S
<1>6. BelowIn(ord, list[i]) \subseteq S
  BY <1>1, <1>3, <1>4, <1>5, BelowLeast
<1> QED BY <1>2, <1>6

(* A clean graph is closed, and so are its singletons.                     *)
LEMMA CleanClosed ==
  ASSUME NEW ord, OneEach(ord), Clean(ord)
  PROVE  \A t \in Types(ord) :
           /\ DepsOf(ord, t) \subseteq Types(ord) /\ BelowIn(ord, t) \subseteq Types(ord)
           /\ \A k \in DOMAIN Prov(ord, t).params :
                Prov(ord, t).params[k] \in Types(ord) \cup {RequestPtr}
           /\ Prov(ord, t).scope = "singleton" =>
                \A d \in BelowIn(ord, t) : Prov(ord, d).scope = "singleton"
<1>1. ASSUME NEW t \in Types(ord), NEW d \in DepsOf(ord, t)
      PROVE  /\ d \in Types(ord)
             /\ Prov(ord, t).scope = "singleton" => Prov(ord, d).scope = "singleton"
  <2>1. PICK i \in DOMAIN ord : ord[i] = Prov(ord, t)
    BY ProvOf
  <2>2. d # RequestPtr /\ d \in Range(ord[i].params)
    BY <2>1, ProvOf
  <2>3. PICK k \in DOMAIN ord[i].params : ord[i].params[k] = d
    BY <2>2 DEF Range
  <2>4. Proper(ord, ord[i], d)
    BY <2>3 DEF Clean
  <2> QED BY <2>1, <2>2, <2>4 DEF Proper
<1> DEFINE S == {d \in Types(ord) : Prov(ord, d).scope = "singleton"}
<1>2. Types(ord) \in SUBSET Type /\ S \in SUBSET Type
  BY ProvOf
<1>3. ClosedIn(ord, Types(ord)) /\ ClosedIn(ord, S)
  BY <1>1 DEF ClosedIn
<1>4. ASSUME NEW t \in Types(ord)
      PROVE  /\ BelowIn(ord, t) \subseteq Types(ord)
             /\ t \in S => BelowIn(ord, t) \subseteq S
  <2> HIDE DEF S
  <2> QED BY <1>2, <1>3, BelowOfClosed
<1>5. ASSUME NEW t \in Types(ord), NEW k \in DOMAIN Prov(ord, t).params
      PROVE  Prov(ord, t).params[k] \in Types(ord) \cup {RequestPtr}
  <2>1. Prov(ord, t).params[k] \in DepsOf(ord, t) \cup {RequestPtr}
    BY ProvOf DEF Range
  <2> QED BY <1>1, <2>1
<1> QED BY <1>1, <1>4, <1>5

(* The operators of the model are these, over its order.                   *)
LEMMA InModel ==
  /\ \A t : ProviderOf(t) = Prov(order, t) /\ Deps(t) = DepsOf(order, t)
  /\ \A t : Below(t) = BelowIn(order, t)
BY DEF ProviderOf, At, Prov, Deps, DepsOf, Closed, ClosedIn, Below, BelowIn

-----------------------------------------------------------------------------
(* Sequences.                                                              *)

LEMMA FrontLast ==
  ASSUME NEW S, NEW s \in Seq(S), s # <<>>
  PROVE  /\ Len(s) \in Nat \ {0} /\ Last(s) \in S /\ Last(s) = s[Len(s)]
         /\ Front(s) \in Seq(S) /\ Len(Front(s)) = Len(s) - 1
         /\ \A i \in 1..(Len(s) - 1) : Front(s)[i] = s[i]
<1>1. Len(s) \in Nat \ {0} /\ Last(s) \in S /\ Last(s) = s[Len(s)]
  BY DEF Last
<1> DEFINE n == Len(s) - 1
<1>2. n \in Nat /\ 1 \in Int /\ n \in Int /\ Len(s) = n + 1 /\ \A i \in 1..n : s[i] \in S
  BY <1>1
<1> HIDE DEF n
<1>3. /\ SubSeq(s, 1, n) \in Seq(S)
      /\ Len(SubSeq(s, 1, n)) = IF 1 <= n THEN n - 1 + 1 ELSE 0
      /\ \A i \in 1..(n - 1 + 1) : SubSeq(s, 1, n)[i] = s[1 + i - 1]
  BY <1>2, SubSeqProperties
<1>4. Front(s) = SubSeq(s, 1, n)
  BY DEF Front, n
<1>5. /\ Front(s) \in Seq(S) /\ Len(Front(s)) = n
      /\ \A i \in 1..n : Front(s)[i] = s[i]
  BY <1>2, <1>3, <1>4
<1> QED BY <1>1, <1>2, <1>5

LEMMA Removed ==
  ASSUME NEW S, NEW s \in Seq(S), NEW k \in DOMAIN s
  PROVE  /\ RemoveAt(s, k) \in Seq(S) /\ Len(RemoveAt(s, k)) = Len(s) - 1
         /\ \A i \in 1..(Len(s) - 1) : RemoveAt(s, k)[i] = IF i < k THEN s[i] ELSE s[i + 1]
<1> DEFINE n == Len(s)
           a == k - 1
           b == k + 1
<1>1. n \in Nat /\ k \in 1..n /\ a \in Nat /\ b \in Nat /\ a = k - 1 /\ b = k + 1
      /\ \A i \in 1..n : s[i] \in S
  OBVIOUS
<1>2. 1 \in Int /\ a \in Int /\ b \in Int /\ n \in Int
  BY <1>1
<1>3. RemoveAt(s, k) = SubSeq(s, 1, a) \o SubSeq(s, b, n)
  BY DEF RemoveAt
<1> HIDE DEF n, a, b
<1>4. n = Len(s)
  BY DEF n
<1>5. \A i \in 1..a : s[i] \in S
  BY <1>1
<1>6. \A i \in b..n : s[i] \in S
  BY <1>1
<1>7. /\ SubSeq(s, 1, a) \in Seq(S)
      /\ Len(SubSeq(s, 1, a)) = IF 1 <= a THEN a - 1 + 1 ELSE 0
      /\ \A i \in 1..(a - 1 + 1) : SubSeq(s, 1, a)[i] = s[1 + i - 1]
  BY <1>2, <1>5, SubSeqProperties
<1>8. /\ SubSeq(s, b, n) \in Seq(S)
      /\ Len(SubSeq(s, b, n)) = IF b <= n THEN n - b + 1 ELSE 0
      /\ \A i \in 1..(n - b + 1) : SubSeq(s, b, n)[i] = s[b + i - 1]
  BY <1>2, <1>6, SubSeqProperties
<1>9. PICK f, g : f = SubSeq(s, 1, a) /\ g = SubSeq(s, b, n)
  OBVIOUS
<1>10. /\ f \in Seq(S) /\ g \in Seq(S) /\ Len(f) = a /\ Len(g) = n - k
       /\ \A i \in 1..a : f[i] = s[i]
       /\ \A i \in 1..(n - k) : g[i] = s[k + i]
  <2>1. Len(f) = a /\ \A i \in 1..a : f[i] = s[i]
    BY <1>1, <1>7, <1>9
  <2>2. Len(g) = n - k /\ \A i \in 1..(n - k) : g[i] = s[k + i]
    <3>1. n - b + 1 = n - k /\ n - k \in Nat /\ (b <= n \/ n - k = 0)
      BY <1>1
    <3>2. Len(g) = n - k
      BY <1>1, <1>8, <1>9, <3>1
    <3>3. \A i \in 1..(n - k) : g[i] = s[b + i - 1]
      BY <1>8, <1>9, <3>1
    <3>4. \A i \in 1..(n - k) : b + i - 1 = k + i
      BY <1>1
    <3> QED BY <3>2, <3>3, <3>4
  <2> QED BY <1>7, <1>8, <1>9, <2>1, <2>2
<1>11. /\ f \o g \in Seq(S) /\ Len(f \o g) = n - 1
       /\ \A i \in 1..(n - 1) : (f \o g)[i] = IF i <= a THEN f[i] ELSE g[i - a]
  <2>1. /\ f \o g \in Seq(S) /\ Len(f \o g) = Len(f) + Len(g)
        /\ \A i \in 1..(Len(f) + Len(g)) : (f \o g)[i] = IF i <= Len(f) THEN f[i] ELSE g[i - Len(f)]
    BY <1>10, ConcatProperties
  <2>2. Len(f) + Len(g) = n - 1
    BY <1>1, <1>10
  <2> QED BY <1>10, <2>1, <2>2
<1>12. \A i \in 1..(n - 1) : (f \o g)[i] = IF i < k THEN s[i] ELSE s[i + 1]
  <2> SUFFICES ASSUME NEW i \in 1..(n - 1)
               PROVE  (f \o g)[i] = IF i < k THEN s[i] ELSE s[i + 1]
    OBVIOUS
  <2>1. CASE i < k
    <3>1. i \in 1..a /\ i <= a
      BY <1>1, <2>1
    <3>2. f[i] = s[i]
      BY <1>10, <3>1
    <3> QED BY <1>11, <2>1, <3>1, <3>2
  <2>2. CASE ~(i < k)
    <3>1. n \in Nat /\ k \in Nat /\ i \in Nat /\ k <= i /\ i <= n - 1 /\ a = k - 1
      BY <1>1, <2>2
    <3>2. i - a \in 1..(n - k) /\ k + (i - a) = i + 1 /\ ~(i <= a)
      BY <3>1
    <3>3. PICK j \in 1..(n - k) : j = i - a /\ k + j = i + 1
      BY <3>2
    <3>4. g[j] = s[k + j]
      BY <1>10
    <3> QED BY <1>11, <2>2, <3>2, <3>3, <3>4
  <2> QED BY <2>1, <2>2
<1> QED BY <1>3, <1>4, <1>9, <1>11, <1>12

-----------------------------------------------------------------------------
(* The list a call goes through.                                           *)

LEMMA FirstOfLeft ==
  ASSUME StartupTypeOK, NEW settled, Left(settled) # {}
  PROVE  /\ FirstLeft(settled) \notin settled
         /\ \E i \in DOMAIN Listed : Listed[i] = FirstLeft(settled)
<1>1. DOMAIN Listed \subseteq Nat
  <2>1. CASE stack = <<>>
    BY <2>1 DEF Listed, StartupTypeOK
  <2>2. CASE stack # <<>>
    <3>1. OneEach(order)
      BY DEF OneEach, StartupTypeOK
    <3>2. Last(stack) \in Types(order)
      BY <2>2, FrontLast DEF StartupTypeOK
    <3>3. Listed = Prov(order, Last(stack)).params
      BY <2>2, InModel DEF Listed
    <3>4. Listed \in Seq(Type \cup {RequestPtr})
      BY <3>1, <3>2, <3>3, ProvOf DEF Provider
    <3> QED BY <3>4
  <2> QED BY <2>1, <2>2
<1>2. Left(settled) \in SUBSET Nat
  BY <1>1 DEF Left
<1>3. \E n \in Left(settled) : \A m \in Left(settled) : n <= m
  BY <1>2, LeastNatural
<1> DEFINE k == CHOOSE i \in Left(settled) : \A j \in Left(settled) : i <= j
<1>4. k \in Left(settled)
  BY <1>3
<1>5. FirstLeft(settled) = Listed[k]
  BY DEF FirstLeft
<1> HIDE DEF k
<1> QED BY <1>4, <1>5 DEF Left

LEMMA OneProvider == StartupTypeOK => OneEach(order)
BY DEF OneEach, StartupTypeOK

(* The outermost call goes through what is provided, the others through    *)
(* what their type depends on.                                             *)
LEMMA FirstOfOuter ==
  ASSUME StartupTypeOK, NEW settled, stack = <<>>
  PROVE  /\ Left(settled) # {} => FirstLeft(settled) \in Types(order) \ settled
         /\ Left(settled) = {} => Types(order) \subseteq settled
<1>1. Listed = [i \in DOMAIN order |-> order[i].out]
  BY DEF Listed
<1>2. \A i \in DOMAIN Listed : Listed[i] \in Types(order)
  BY <1>1 DEF Types
<1>3. \A t \in Types(order) : \E i \in DOMAIN Listed : Listed[i] = t
  BY <1>1 DEF Types
<1>4. Left(settled) = {} => Types(order) \subseteq settled
  BY <1>3 DEF Left
<1> QED BY <1>2, <1>4, FirstOfLeft

LEMMA FirstOfInner ==
  ASSUME StartupTypeOK, NEW settled, stack # <<>>,
         RequestPtr \in settled \/ \A i \in DOMAIN Listed : Listed[i] # RequestPtr
  PROVE  /\ Last(stack) \in Types(order) /\ Last(stack) = stack[Len(stack)]
         /\ Len(stack) \in DOMAIN stack
         /\ Listed = Prov(order, Last(stack)).params
         /\ Left(settled) # {} =>
              FirstLeft(settled) \in DepsOf(order, Last(stack)) \ settled
         /\ Left(settled) = {} => DepsOf(order, Last(stack)) \subseteq settled
<1>1. Last(stack) \in Types(order) /\ Last(stack) = stack[Len(stack)] /\ Len(stack) \in DOMAIN stack
  <2>1. stack \in Seq(Types(order))
    BY DEF StartupTypeOK
  <2>2. Last(stack) \in Types(order) /\ Last(stack) = stack[Len(stack)] /\ Len(stack) \in Nat \ {0}
    BY <2>1, FrontLast
  <2> QED BY <2>1, <2>2
<1>2. Listed = Prov(order, Last(stack)).params
  BY InModel DEF Listed
<1>3. DepsOf(order, Last(stack)) = Range(Listed) \ {RequestPtr}
  BY <1>1, <1>2, OneProvider, ProvOf
<1>4. \A i \in DOMAIN Listed : Listed[i] \in DepsOf(order, Last(stack)) \cup {RequestPtr}
  BY <1>3 DEF Range
<1>5. Left(settled) = {} => DepsOf(order, Last(stack)) \subseteq settled
  BY <1>3 DEF Left, Range
<1> QED BY <1>1, <1>2, <1>4, <1>5, FirstOfLeft

-----------------------------------------------------------------------------
(* Registration.                                                           *)

LEMMA AddedOne ==
  ASSUME OneEach(order), NEW p \in Provider
  PROVE  /\ OneEach(Added(p))
         /\ \A i \in DOMAIN Added(p) :
              Added(p)[i] = p \/ \E j \in DOMAIN order : Added(p)[i] = order[j]
<1>1. order \in Seq(Provider) /\ Len(order) \in Nat /\ DOMAIN order = 1..Len(order)
  BY DEF OneEach
<1>2. CASE Refused(p)
  <2>1. Added(p) = order
    BY <1>2 DEF Added, Refused
  <2> QED BY <2>1
<1>3. CASE ~Refused(p) /\ p.out \in Types(order)
  <2> DEFINE k == At(p.out)
             rest == RemoveAt(order, k)
  <2>1. k \in DOMAIN order /\ order[k].out = p.out
    BY <1>3 DEF At, Types
  <2>2. Added(p) = Append(rest, p)
    BY <1>3 DEF Added, Refused
  <2> HIDE DEF k
  <2>3. /\ rest \in Seq(Provider) /\ Len(rest) = Len(order) - 1
        /\ \A i \in 1..(Len(order) - 1) : rest[i] = IF i < k THEN order[i] ELSE order[i + 1]
    BY <1>1, <2>1, Removed
  <2> HIDE DEF rest
  <2>4. \A i \in DOMAIN rest :
          \E j \in DOMAIN order : rest[i] = order[j] /\ j # k /\ j = IF i < k THEN i ELSE i + 1
    <3> SUFFICES ASSUME NEW i \in DOMAIN rest
                 PROVE  \E j \in DOMAIN order :
                          rest[i] = order[j] /\ j # k /\ j = IF i < k THEN i ELSE i + 1
      OBVIOUS
    <3>1. i \in 1..(Len(order) - 1) /\ k \in 1..Len(order)
      BY <1>1, <2>1, <2>3
    <3>2. CASE i < k
      BY <1>1, <2>3, <3>1, <3>2
    <3>3. CASE ~(i < k)
      <4>1. i + 1 \in DOMAIN order /\ i + 1 # k
        BY <1>1, <3>1, <3>3
      <4> QED BY <2>3, <3>1, <3>3, <4>1
    <3> QED BY <3>2, <3>3
  <2>5. \A i, j \in DOMAIN rest : rest[i].out = rest[j].out => i = j
    <3> SUFFICES ASSUME NEW i \in DOMAIN rest, NEW j \in DOMAIN rest, rest[i].out = rest[j].out
                 PROVE  i = j
      OBVIOUS
    <3>1. PICK m \in DOMAIN order : rest[i] = order[m] /\ m = IF i < k THEN i ELSE i + 1
      BY <2>4
    <3>2. PICK n \in DOMAIN order : rest[j] = order[n] /\ n = IF j < k THEN j ELSE j + 1
      BY <2>4
    <3>3. m = n
      BY <3>1, <3>2 DEF OneEach
    <3>4. i \in Nat /\ j \in Nat /\ k \in Nat
      BY <1>1, <2>1, <2>3
    <3> QED BY <3>1, <3>2, <3>3, <3>4
  <2>6. \A i \in DOMAIN rest : rest[i].out # p.out
    BY <2>1, <2>4 DEF OneEach
  <2>7. /\ Append(rest, p) \in Seq(Provider)
        /\ \A i \in DOMAIN Append(rest, p) :
             (i \in DOMAIN rest /\ Append(rest, p)[i] = rest[i])
               \/ (i = Len(rest) + 1 /\ Append(rest, p)[i] = p)
    BY <2>3
  <2>8. OneEach(Append(rest, p))
    BY <2>5, <2>6, <2>7 DEF OneEach
  <2> QED BY <2>2, <2>4, <2>7, <2>8
<1>4. CASE p.out \notin Types(order)
  <2>1. Added(p) = Append(order, p)
    BY <1>4 DEF Added, Refused
  <2>2. \A i \in DOMAIN order : order[i].out # p.out
    BY <1>4 DEF Types
  <2>3. /\ Append(order, p) \in Seq(Provider)
        /\ \A i \in DOMAIN Append(order, p) :
             (i \in DOMAIN order /\ Append(order, p)[i] = order[i])
               \/ (i = Len(order) + 1 /\ Append(order, p)[i] = p)
    BY <1>1
  <2>4. OneEach(Append(order, p))
    BY <2>2, <2>3 DEF OneEach
  <2> QED BY <2>1, <2>3, <2>4
<1> QED BY <1>2, <1>3, <1>4

LEMMA NothingBuilt ==
  ASSUME StartupInv, phase \in {"building", "validate", "search"}
  PROVE  /\ singletons = {} /\ hooks = <<>> /\ calls = <<>> /\ next = 1 /\ started = <<>>
         /\ released = <<>> /\ request = "none" /\ scoped = {} /\ cleanups = <<>>
         /\ phase # "search" => stack = <<>> /\ done = <<>> /\ cycle = <<>>
BY DEF StartupInv, Untouched

(* While the application is built, the rest of the invariant says nothing. *)
LEMMA RegistrationKeeps ==
  ASSUME StartupInv, phase = "building", phase' = phase,
         UNCHANGED <<searchVars, singletons, hooks, next, started, calls, stack, useVars, released>>
  PROVE  /\ Untouched' /\ CallsNested' /\ SearchSound' /\ GraphValidated' /\ Building'
         /\ BuiltBefore' /\ HooksSound' /\ Forsaken' /\ Scoping' /\ ReleaseSound'
<1> USE NothingBuilt DEF searchVars, useVars
<1>1. Untouched' /\ CallsNested' /\ BuiltBefore' /\ GraphValidated'
  BY DEF StartupInv, Untouched, CallsNested, BuiltBefore, GraphValidated
<1>2. SearchSound' /\ Building'
  BY DEF SearchSound, DoneInOrder, Building, SingletonsClosed, CallsInOrder, InOrder
<1>3. HooksSound' /\ Forsaken'
  BY DEF HooksSound, Forsaken
<1>4. Scoping' /\ ReleaseSound'
  BY DEF Scoping, ReleaseSound
<1> QED BY <1>1, <1>2, <1>3, <1>4

LEMMA HeadTail ==
  ASSUME NEW S, NEW s \in Seq(S), s # <<>>
  PROVE  /\ Head(s) \in S /\ Head(s) = s[1] /\ 1 \in DOMAIN s /\ Tail(s) \in Seq(S)
         /\ \A i \in DOMAIN Tail(s) : i + 1 \in DOMAIN s /\ Tail(s)[i] = s[i + 1]
OBVIOUS

(* A type reads as typed in a larger order, where nothing was built yet.   *)
LEMMA ProvideKeeps ==
  ASSUME StartupInv, Provide
  PROVE  StartupInv'
<1>1. /\ plan \in Seq(Provider) /\ plan # <<>> /\ OneEach(order)
      /\ \A i \in DOMAIN plan : Okay(plan[i])
      /\ \A i \in DOMAIN order : Okay(order[i])
  BY OneProvider DEF StartupInv, StartupTypeOK, Registered, Provide
<1>2. /\ Head(plan) \in Provider /\ Okay(Head(plan)) /\ Tail(plan) \in Seq(Provider)
      /\ \A i \in DOMAIN Tail(plan) : Okay(Tail(plan)[i])
  BY <1>1, HeadTail
<1>3. /\ order' = Added(Head(plan)) /\ plan' = Tail(plan)
      /\ OneEach(order') /\ \A i \in DOMAIN order' : Okay(order'[i])
  BY <1>1, <1>2, AddedOne DEF Provide
<1>4. StartupTypeOK'
  <2>1. order' \in Seq(Provider) /\ \A i, j \in DOMAIN order' : order'[i].out = order'[j].out => i = j
    BY <1>3 DEF OneEach
  <2>2. {"DUPLICATE_DEPENDENCY"} \subseteq Code
    BY DEF Code
  <2> QED BY <1>2, <1>3, <2>1, <2>2, NothingBuilt
          DEF StartupInv, StartupTypeOK, Provide, searchVars, useVars, holdVars, Phase
<1>5. Registered'
  BY <1>2, <1>3 DEF StartupInv, Registered, Provide
<1>6. Owned'
  BY NothingBuilt DEF StartupInv, Owned, Provide, IsOf, holdVars
<1> QED BY <1>4, <1>5, <1>6, RegistrationKeeps
        DEF StartupInv, Provide, searchVars, useVars, holdVars

LEMMA AddComponentKeeps ==
  ASSUME StartupInv, AddComponent
  PROVE  StartupInv'
<1> DEFINE c == Head(infra)
           s == Supplied(c.gives)
           hook == [of |-> c.name, kind |-> HookKind(c)]
<1>1. /\ infra \in Seq(Component) /\ infra # <<>> /\ OneEach(order) /\ appHooks \in Seq(Hook)
      /\ \A i \in DOMAIN order : Okay(order[i])
      /\ \A i \in DOMAIN appHooks : appHooks[i].of \in ComponentName
  BY OneProvider DEF StartupInv, StartupTypeOK, Registered, AddComponent
<1>2. c \in Component /\ Tail(infra) \in Seq(Component)
  BY <1>1, HeadTail
<1>3. c.name \in ComponentName /\ c.gives \in Type
  BY <1>2 DEF Component
<1>4. s \in Provider /\ Okay(s)
  BY <1>3 DEF Supplied, Provider, Okay
<1>5. hook \in Hook /\ hook.of = c.name
  BY <1>3 DEF Hook, HookKind
<1>6. /\ OneEach(order') /\ \A i \in DOMAIN order' : Okay(order'[i])
  <2>1. order' \in {order, Added(s)}
    BY DEF AddComponent
  <2> HIDE DEF s
  <2>2. OneEach(Added(s)) /\ \A i \in DOMAIN Added(s) : Okay(Added(s)[i])
    BY <1>1, <1>4, AddedOne
  <2> QED BY <1>1, <2>1, <2>2
<1>7. appHooks' \in {appHooks, Append(appHooks, hook)}
  BY DEF AddComponent
<1>8. open' = open \/ (open' = open \cup {c.name} /\ appHooks' = Append(appHooks, hook))
  BY DEF AddComponent
<1>9. checks' \in {checks, checks \cup {c.name}}
  BY DEF AddComponent
<1>10. jobs' \in BOOLEAN
  BY DEF AddComponent
<1>11. \E F \in SUBSET Code : diags' = diags \cup F
  <2>1. {"DUPLICATE_NAME", "DUPLICATE_DEPENDENCY"} \in SUBSET Code
    BY DEF Code
  <2> QED BY <2>1 DEF AddComponent
<1> HIDE DEF c, s, hook
<1>12. /\ appHooks' \in Seq(Hook)
       /\ \A i \in DOMAIN appHooks' : appHooks'[i].of \in ComponentName
       /\ \A i \in DOMAIN appHooks : i \in DOMAIN appHooks' /\ appHooks'[i] = appHooks[i]
       /\ open' = open \/ (open' = open \cup {c.name} /\ IsOf(appHooks', c.name))
  <2>1. CASE appHooks' = appHooks
    BY <1>1, <1>5, <1>8, <2>1 DEF IsOf
  <2>2. CASE appHooks' = Append(appHooks, hook)
    <3>1. /\ appHooks' \in Seq(Hook)
          /\ \A i \in DOMAIN appHooks' : appHooks'[i] = hook \/ (i \in DOMAIN appHooks /\ appHooks'[i] = appHooks[i])
          /\ \A i \in DOMAIN appHooks : i \in DOMAIN appHooks' /\ appHooks'[i] = appHooks[i]
          /\ Len(appHooks) + 1 \in DOMAIN appHooks' /\ appHooks'[Len(appHooks) + 1] = hook
      BY <1>1, <1>5, <2>2
    <3>2. IsOf(appHooks', c.name)
      BY <1>5, <3>1 DEF IsOf
    <3> QED BY <1>1, <1>3, <1>5, <1>8, <3>1, <3>2
  <2> QED BY <1>7, <2>1, <2>2
<1>13. /\ phase = "building" /\ phase' = phase /\ infra' = Tail(infra)
       /\ UNCHANGED <<plan, searchVars, singletons, hooks, next, started, calls, stack,
                      useVars, released>>
  BY DEF AddComponent
<1>14. StartupTypeOK'
  <2>1. order' \in Seq(Provider) /\ \A i, j \in DOMAIN order' : order'[i].out = order'[j].out => i = j
    BY <1>6 DEF OneEach
  <2>2. diags' \subseteq Code /\ checks' \subseteq ComponentName
        /\ open' \subseteq Type \cup ComponentName
    BY <1>3, <1>9, <1>11, <1>12 DEF StartupInv, StartupTypeOK
  <2> QED BY <1>2, <1>10, <1>12, <1>13, <2>1, <2>2, NothingBuilt
          DEF StartupInv, StartupTypeOK, searchVars, useVars, Phase
<1>15. Registered'
  BY <1>6, <1>12, <1>13 DEF StartupInv, Registered
<1>16. Owned'
  BY <1>3, <1>12, <1>13, NothingBuilt DEF StartupInv, Owned, IsOf
<1> QED BY <1>13, <1>14, <1>15, <1>16, RegistrationKeeps DEF StartupInv

LEMMA ReportKeeps ==
  ASSUME StartupInv, NEW found \in SUBSET Code, Report(found)
  PROVE  StartupInv'
<1>1. StartupTypeOK'
  BY DEF StartupInv, StartupTypeOK, Report, regVars, searchVars, useVars, holdVars
<1>2. Registered' /\ Owned'
  BY DEF StartupInv, Registered, Owned, IsOf, OfRequest, Cleaned, Report, regVars, searchVars,
         useVars, holdVars
<1> QED BY <1>1, <1>2, RegistrationKeeps
        DEF StartupInv, Report, regVars, searchVars, useVars, holdVars

-----------------------------------------------------------------------------
(* The validation and the search.                                          *)

LEMMA BeginKeeps ==
  ASSUME StartupInv, NEW found \in SUBSET Code, Begin(found)
  PROVE  StartupInv'
<1> USE NothingBuilt DEF Begin, regVars, searchVars, useVars, holdVars
<1>1. StartupTypeOK' /\ Registered' /\ Untouched' /\ CallsNested'
  BY DEF StartupInv, StartupTypeOK, Phase, Registered, Untouched, CallsNested
<1>2. SearchSound' /\ GraphValidated' /\ Building' /\ BuiltBefore'
  BY DEF StartupInv, SearchSound, DoneInOrder, GraphValidated, Building, SingletonsClosed,
         CallsInOrder, InOrder, BuiltBefore
<1>3. HooksSound' /\ Scoping' /\ ReleaseSound'
  BY DEF HooksSound, Scoping, ReleaseSound
<1>4. open \subseteq ComponentName
  BY DEF StartupInv, Owned
<1>5. Owned' /\ Forsaken'
  BY <1>4 DEF StartupInv, Owned, IsOf, Forsaken
<1> QED BY <1>1, <1>2, <1>3, <1>5 DEF StartupInv

(* No diagnostic means that every use is a proper one.                     *)
LEMMA NoMistakes ==
  ASSUME StartupTypeOK, Misused = {}, Unprovided = {}
  PROVE  Clean(order)
<1> SUFFICES ASSUME NEW i \in DOMAIN order, NEW k \in DOMAIN order[i].params
             PROVE  Proper(order, order[i], order[i].params[k])
  BY DEF Clean
<1> DEFINE p == order[i]
           d == order[i].params[k]
<1>1. order[i] \in Provider
  BY DEF StartupTypeOK
<1>2. d \in Type \cup {RequestPtr} /\ p.scope \in {"singleton", "request"}
  BY <1>1 DEF Provider
<1>3. PICK u : u = <<p, d>>
  OBVIOUS
<1>4. u \in Uses /\ u[1] = p /\ u[2] = d
  BY <1>2, <1>3 DEF Uses, Range
<1>5. ~ScopeMistake(p, d) /\ (d = RequestPtr \/ d \in Types(order))
  BY <1>4 DEF Misused, Unprovided
<1>6. d # RequestPtr => Prov(order, d).scope \in {"singleton", "request"}
  BY <1>5, OneProvider, ProvOf DEF Provider
<1> QED BY <1>2, <1>5, <1>6, InModel DEF Proper, ScopeMistake

LEMMA ValidateGraphKeeps ==
  ASSUME StartupInv, ValidateGraph
  PROVE  StartupInv'
<1> USE NothingBuilt DEF ValidateGraph, regVars, searchVars, useVars, holdVars
<1>1. diags' \subseteq Code
  BY DEF Code
<1>2. diags' = {} => Misused = {} /\ Unprovided = {}
  <2>1. ASSUME NEW u \in Misused PROVE "INVALID_SCOPE" \in diags'
    OBVIOUS
  <2>2. ASSUME NEW u \in Unprovided PROVE "MISSING_DEPENDENCY" \in diags'
    OBVIOUS
  <2> QED BY <2>1, <2>2
<1>3. diags' = {} => Clean(order)
  BY <1>2, NoMistakes DEF StartupInv
<1>4. StartupTypeOK' /\ Registered' /\ Untouched' /\ CallsNested'
  BY <1>1 DEF StartupInv, StartupTypeOK, Phase, Registered, Untouched, CallsNested
<1>5. SearchSound' /\ GraphValidated' /\ Building' /\ BuiltBefore'
  BY <1>3 DEF StartupInv, SearchSound, DoneInOrder, GraphValidated, Building, SingletonsClosed,
         CallsInOrder, InOrder, BuiltBefore
<1>6. HooksSound' /\ Scoping' /\ ReleaseSound'
  BY DEF HooksSound, Scoping, ReleaseSound
<1>7. Owned' /\ Forsaken'
  BY DEF StartupInv, Owned, IsOf, Forsaken
<1> QED BY <1>4, <1>5, <1>6, <1>7 DEF StartupInv

(* While the search goes on, nothing but its own state changes.            *)
LEMMA SearchKeeps ==
  ASSUME StartupInv, phase = "search", phase' = phase, SearchRest
  PROVE  /\ Registered' /\ Untouched' /\ GraphValidated' /\ Building' /\ BuiltBefore'
         /\ HooksSound' /\ Owned' /\ Forsaken' /\ Scoping' /\ ReleaseSound'
<1> USE NothingBuilt DEF SearchRest, regVars, useVars, holdVars
<1>1. Registered' /\ Untouched' /\ GraphValidated' /\ Building' /\ BuiltBefore'
  BY DEF StartupInv, Registered, Untouched, GraphValidated, Building, SingletonsClosed,
         CallsInOrder, InOrder, BuiltBefore
<1>2. HooksSound' /\ Scoping' /\ ReleaseSound'
  BY DEF HooksSound, Scoping, ReleaseSound
<1>3. Owned' /\ Forsaken'
  BY DEF StartupInv, Owned, IsOf, Forsaken
<1> QED BY <1>1, <1>2, <1>3

LEMMA NextVisited ==
  ASSUME StartupInv, Searching, Left(Searched) # {}
  PROVE  /\ FirstLeft(Searched) \in Types(order)
         /\ FirstLeft(Searched) \notin Range(done)
         /\ stack # <<>> => FirstLeft(Searched) \in DepsOf(order, Last(stack))
<1>1. Searched = Range(done) \cup {RequestPtr} \cup (Type \ Types(order)) /\ RequestPtr \in Searched
  BY DEF Searched
<1>2. CASE stack = <<>>
  BY <1>1, <1>2, FirstOfOuter DEF StartupInv
<1>3. CASE stack # <<>>
  <2>1. FirstLeft(Searched) \in DepsOf(order, Last(stack)) \ Searched
    BY <1>1, <1>3, FirstOfInner DEF StartupInv
  <2> QED BY <1>1, <2>1, DepsTyped
<1> QED BY <1>2, <1>3

(* A call is entered for what the innermost one depends on.                *)
LEMMA EnterNested ==
  ASSUME StartupTypeOK, CallsNested, NEW t \in Types(order), t \notin Range(stack),
         stack # <<>> => t \in DepsOf(order, Last(stack)),
         Enter(t), order' = order
  PROVE  /\ CallsNested' /\ stack' \in Seq(Types(order)) /\ stack' = Append(stack, t)
         /\ \A i \in DOMAIN stack' : stack'[i] = IF i \in DOMAIN stack THEN stack[i] ELSE t
         /\ Len(stack') = Len(stack) + 1 /\ stack'[Len(stack) + 1] = t
<1>1. /\ stack \in Seq(Types(order)) /\ stack' = Append(stack, t) /\ Len(stack) \in Nat
      /\ stack' \in Seq(Types(order)) /\ Len(stack') = Len(stack) + 1
      /\ stack'[Len(stack) + 1] = t /\ \A i \in DOMAIN stack : stack'[i] = stack[i]
      /\ \A i \in DOMAIN stack' : stack'[i] = IF i \in DOMAIN stack THEN stack[i] ELSE t
  BY DEF StartupTypeOK, Enter
<1>2. \A i, j \in DOMAIN stack' : stack'[i] = stack'[j] => i = j
  BY <1>1 DEF CallsNested, Range
<1>3. ASSUME NEW i \in DOMAIN stack PROVE t \in BelowIn(order, stack[i])
  <2>1. /\ stack # <<>> /\ Last(stack) = stack[Len(stack)] /\ Len(stack) \in DOMAIN stack
        /\ i = Len(stack) \/ i < Len(stack)
    <3>1. stack \in Seq(Types(order)) /\ stack # <<>>
      BY <1>1
    <3>2. Last(stack) = stack[Len(stack)] /\ Len(stack) \in Nat \ {0}
      BY <3>1, FrontLast
    <3> QED BY <3>1, <3>2
  <2>2. t \in BelowIn(order, Last(stack))
    BY <2>1, BelowClosed
  <2>3. Last(stack) = stack[i] \/ Last(stack) \in BelowIn(order, stack[i])
    BY <2>1 DEF CallsNested
  <2> QED BY <2>2, <2>3, BelowTransitive
<1>4. \A i, j \in DOMAIN stack' : i < j => stack'[j] \in BelowIn(order, stack'[i])
  <2> SUFFICES ASSUME NEW i \in DOMAIN stack', NEW j \in DOMAIN stack', i < j
               PROVE  stack'[j] \in BelowIn(order, stack'[i])
    OBVIOUS
  <2>1. i \in DOMAIN stack /\ (j \in DOMAIN stack \/ stack'[j] = t)
    BY <1>1
  <2> QED BY <1>1, <1>3, <2>1 DEF CallsNested
<1> QED BY <1>1, <1>2, <1>4 DEF CallsNested

(* Leaving a call uncovers the one it was made in.                         *)
LEMMA LeaveNested ==
  ASSUME StartupTypeOK, CallsNested, stack # <<>>, Leave, order' = order
  PROVE  /\ CallsNested' /\ stack' \in Seq(Types(order)) /\ Last(stack) \in Types(order)
         /\ \A i \in DOMAIN stack' : i \in DOMAIN stack /\ stack'[i] = stack[i]
         /\ \A i \in DOMAIN stack' : stack'[i] # Last(stack)
         /\ Len(stack) \in DOMAIN stack /\ stack[Len(stack)] = Last(stack)
         /\ Len(stack') = Len(stack) - 1
<1>1. stack \in Seq(Types(order)) /\ stack # <<>> /\ stack' = Front(stack)
  BY DEF StartupTypeOK, Leave
<1>2. /\ Len(stack) \in Nat \ {0} /\ Last(stack) \in Types(order) /\ Last(stack) = stack[Len(stack)]
      /\ stack' \in Seq(Types(order)) /\ Len(stack') = Len(stack) - 1
      /\ \A i \in 1..(Len(stack) - 1) : stack'[i] = stack[i]
  BY <1>1, FrontLast
<1>3. \A i \in DOMAIN stack' : i \in DOMAIN stack /\ i < Len(stack) /\ stack'[i] = stack[i]
  BY <1>1, <1>2
<1>4. Len(stack) \in DOMAIN stack
  BY <1>1, <1>2
<1>5. \A i \in DOMAIN stack' : stack'[i] # Last(stack)
  BY <1>2, <1>3, <1>4 DEF CallsNested
<1>6. CallsNested'
  BY <1>3 DEF CallsNested
<1> QED BY <1>2, <1>3, <1>4, <1>5, <1>6

(* The cycle that visit reports runs along the stack.                      *)
LEMMA CycleFound ==
  ASSUME StartupTypeOK, NEW k \in DOMAIN stack,
         \A i \in 1..(Len(stack) - 1) : stack[i + 1] \in DepsOf(order, stack[i]),
         stack[k] \in DepsOf(order, Last(stack)),
         cycle' = Append(SubSeq(stack, k, Len(stack)), stack[k]), order' = order
  PROVE  CycleReal' /\ cycle' \in Seq(Types(order))
<1> DEFINE n == Len(stack)
           f == SubSeq(stack, k, Len(stack))
           T == Types(order)
<1>1. /\ stack \in Seq(T) /\ n \in Nat /\ k \in 1..n /\ n \in Int /\ k \in Int
      /\ \A i \in k..n : stack[i] \in T
  BY DEF StartupTypeOK
<1>2. Last(stack) = stack[n]
  BY DEF Last
<1> HIDE DEF n, T
<1>3. f = SubSeq(stack, k, n)
  BY DEF n
<1> HIDE DEF f
<1>4. /\ SubSeq(stack, k, n) \in Seq(T)
      /\ Len(SubSeq(stack, k, n)) = IF k <= n THEN n - k + 1 ELSE 0
      /\ \A i \in 1..(n - k + 1) : SubSeq(stack, k, n)[i] = stack[k + i - 1]
  BY <1>1, SubSeqProperties
<1>5. /\ f \in Seq(T) /\ Len(f) = n - k + 1 /\ n - k + 1 \in Nat \ {0}
      /\ \A i \in 1..(n - k + 1) : f[i] = stack[k + i - 1]
  BY <1>1, <1>3, <1>4
<1>6. PICK m \in Nat \ {0} : m = n - k + 1
  BY <1>5
<1>7. PICK x : x = stack[k] /\ x \in T
  BY <1>1
<1>8. cycle' = Append(f, x)
  BY <1>7 DEF f
<1>9. /\ cycle' \in Seq(T) /\ Len(cycle') = m + 1 /\ cycle'[m + 1] = x
      /\ \A i \in 1..m : cycle'[i] = f[i]
  BY <1>5, <1>6, <1>7, <1>8
<1>10. \A i \in 1..m : cycle'[i] = stack[k + i - 1]
  BY <1>5, <1>6, <1>9
<1>11. cycle'[1] = x
  <2>1. 1 \in 1..m /\ k + 1 - 1 = k
    BY <1>1
  <2> QED BY <1>7, <1>10, <2>1
<1>12. ASSUME NEW i \in 1..m PROVE cycle'[i + 1] \in DepsOf(order, cycle'[i])
  <2>1. CASE i = m
    <3>1. k + i - 1 = n
      BY <1>1, <1>6, <2>1
    <3>2. cycle'[i] = stack[n] /\ cycle'[i + 1] = x
      BY <1>9, <1>10, <2>1, <3>1
    <3> QED BY <1>2, <1>7, <3>2
  <2>2. CASE i # m
    <3> n \in Nat /\ k \in 1..n /\ i \in 1..m /\ m = n - k + 1 /\ i # m
      BY <1>1, <1>6, <2>2
    <3> k + i - 1 \in 1..(n - 1) /\ (k + i - 1) + 1 = k + (i + 1) - 1 /\ i + 1 \in 1..m
      OBVIOUS
    <3>1. PICK j \in 1..(n - 1) : j = k + i - 1 /\ j + 1 = k + (i + 1) - 1 /\ i + 1 \in 1..m
      OBVIOUS
    <3>2. cycle'[i] = stack[j] /\ cycle'[i + 1] = stack[j + 1]
      BY <1>10, <3>1
    <3>3. j \in 1..(Len(stack) - 1)
      BY <3>1 DEF n
    <3> QED BY <3>2, <3>3
  <2> QED BY <2>1, <2>2
<1>13. CycleReal'
  <2>1. Len(cycle') > 1 /\ cycle'[1] = cycle'[Len(cycle')] /\ Len(cycle') - 1 = m
    BY <1>9, <1>11
  <2> QED BY <1>12, <2>1 DEF CycleReal
<1> QED BY <1>9, <1>13 DEF T

LEMMA VisitKeeps ==
  ASSUME StartupInv, Visit
  PROVE  StartupInv'
<1> DEFINE t == FirstLeft(Searched)
<1>1. /\ StartupTypeOK /\ CallsNested /\ SearchSound /\ Searching /\ phase = "search" /\ cycle = <<>>
      /\ SearchRest /\ order' = order /\ Left(Searched) # {}
      /\ UNCHANGED <<diags, phase, done>>
  BY DEF StartupInv, Visit, Searching, SearchRest, regVars
<1>2. t \in Types(order) /\ t \notin Range(done) /\ (stack # <<>> => t \in DepsOf(order, Last(stack)))
  BY <1>1, NextVisited
<1>3. \/ t \in Range(stack) /\ stack' = stack
         /\ cycle' = Append(SubSeq(stack, CHOOSE i \in DOMAIN stack : stack[i] = t, Len(stack)), t)
      \/ t \notin Range(stack) /\ Enter(t) /\ cycle' = cycle
  BY DEF Visit
<1> HIDE DEF t
<1>4. CASE /\ t \in Range(stack) /\ stack' = stack
           /\ cycle' = Append(SubSeq(stack, CHOOSE i \in DOMAIN stack : stack[i] = t, Len(stack)), t)
  <2>1. PICK k \in DOMAIN stack : stack[k] = t /\ k = CHOOSE i \in DOMAIN stack : stack[i] = t
    BY <1>4 DEF Range
  <2>2. stack # <<>>
    BY <2>1
  <2>3. CycleReal' /\ cycle' \in Seq(Types(order))
    <3>1. /\ cycle' = Append(SubSeq(stack, k, Len(stack)), stack[k])
          /\ stack[k] \in DepsOf(order, Last(stack))
      BY <1>2, <1>4, <2>1, <2>2
    <3>2. \A i \in 1..(Len(stack) - 1) : stack[i + 1] \in DepsOf(order, stack[i])
      BY <1>1 DEF SearchSound
    <3> QED BY <1>1, <3>1, <3>2, CycleFound
  <2>4. StartupTypeOK'
    BY <1>1, <1>4, <2>3 DEF StartupTypeOK, Phase, SearchRest, regVars, useVars, holdVars
  <2>5. CallsNested'
    BY <1>1, <1>4 DEF CallsNested
  <2>6. SearchSound'
    BY <1>1, <1>4, <2>3 DEF SearchSound, DoneInOrder
  <2> QED BY <1>1, <2>4, <2>5, <2>6, SearchKeeps DEF StartupInv
<1>5. CASE t \notin Range(stack) /\ Enter(t) /\ cycle' = cycle
  <2>1. /\ CallsNested' /\ stack' \in Seq(Types(order)) /\ Len(stack') = Len(stack) + 1
        /\ stack'[Len(stack) + 1] = t
        /\ \A i \in DOMAIN stack' : stack'[i] = IF i \in DOMAIN stack THEN stack[i] ELSE t
    BY <1>1, <1>2, <1>5, EnterNested
  <2>2. StartupTypeOK'
    BY <1>1, <1>5, <2>1 DEF StartupTypeOK, Phase, SearchRest, regVars, useVars, holdVars
  <2>3. Len(stack) \in Nat /\ DOMAIN stack = 1..Len(stack)
    BY <1>1 DEF StartupTypeOK
  <2>4. \A i \in 1..(Len(stack') - 1) : stack'[i + 1] \in DepsOf(order, stack'[i])
    <3> SUFFICES ASSUME NEW i \in 1..(Len(stack') - 1)
                 PROVE  stack'[i + 1] \in DepsOf(order, stack'[i])
      OBVIOUS
    <3>1. i \in DOMAIN stack /\ stack'[i] = stack[i]
      BY <2>1, <2>3
    <3>2. CASE i = Len(stack)
      BY <1>2, <2>1, <2>3, <3>1, <3>2 DEF Last
    <3>3. CASE i # Len(stack)
      <4>1. i \in 1..(Len(stack) - 1) /\ i + 1 \in DOMAIN stack
        BY <2>3, <3>1, <3>3
      <4>2. i + 1 \in DOMAIN stack'
        BY <2>1, <2>3, <4>1
      <4>3. stack'[i + 1] = stack[i + 1]
        BY <2>1, <4>1, <4>2
      <4> QED BY <1>1, <3>1, <4>1, <4>3 DEF SearchSound
    <3> QED BY <3>2, <3>3
  <2>5. \A i \in DOMAIN done, j \in DOMAIN stack' : done[i] # stack'[j]
    BY <1>1, <1>2, <2>1 DEF SearchSound, Range
  <2>6. SearchSound'
    BY <1>1, <1>5, <2>4, <2>5 DEF SearchSound, DoneInOrder
  <2> QED BY <1>1, <2>1, <2>2, <2>6, SearchKeeps DEF StartupInv
<1> QED BY <1>3, <1>4, <1>5

LEMMA VisitedKeeps ==
  ASSUME StartupInv, Visited
  PROVE  StartupInv'
<1> DEFINE t == Last(stack)
<1>1. /\ StartupTypeOK /\ CallsNested /\ SearchSound /\ phase = "search" /\ cycle = <<>>
      /\ stack # <<>> /\ Leave /\ done' = Append(done, t)
      /\ SearchRest /\ order' = order /\ Left(Searched) = {}
      /\ UNCHANGED <<diags, phase, cycle>>
  BY DEF StartupInv, Visited, Searching, SearchRest, regVars
<1>2. /\ CallsNested' /\ stack' \in Seq(Types(order)) /\ t \in Types(order)
      /\ \A i \in DOMAIN stack' : i \in DOMAIN stack /\ stack'[i] = stack[i]
      /\ \A i \in DOMAIN stack' : stack'[i] # t
      /\ Len(stack) \in DOMAIN stack /\ stack[Len(stack)] = t
      /\ Len(stack') = Len(stack) - 1
  BY <1>1, LeaveNested
<1>3. DepsOf(order, t) \subseteq Searched
  <2>1. RequestPtr \in Searched
    BY DEF Searched
  <2> QED BY <1>1, <2>1, FirstOfInner
<1>4. \A d \in DepsOf(order, t) \cap Types(order) : \E j \in DOMAIN done : done[j] = d
  <2> SUFFICES ASSUME NEW d \in DepsOf(order, t), d \in Types(order) PROVE d \in Range(done)
    BY DEF Range
  <2>1. d # RequestPtr
    BY DepsTyped, StartupAssumption
  <2> QED BY <1>3, <2>1 DEF Searched
<1> HIDE DEF t
<1>5. \A i \in DOMAIN done : done[i] # t
  BY <1>1, <1>2 DEF SearchSound
<1>6. /\ done \in Seq(Types(order)) /\ Len(done) \in Nat /\ DOMAIN done = 1..Len(done)
      /\ done' \in Seq(Types(order)) /\ DOMAIN done' = 1..(Len(done) + 1)
      /\ done'[Len(done) + 1] = t /\ \A i \in DOMAIN done : done'[i] = done[i]
  BY <1>1, <1>2 DEF StartupTypeOK
<1>7. DoneInOrder'
  <2>1. \A i, j \in DOMAIN done' : done'[i] = done'[j] => i = j
    BY <1>1, <1>5, <1>6 DEF SearchSound, DoneInOrder
  <2>2. ASSUME NEW i \in DOMAIN done', NEW d \in DepsOf(order, done'[i]) \cap Types(order)
        PROVE  \E j \in 1..(i - 1) : done'[j] = d
    <3>1. CASE i \in DOMAIN done
      <4>1. PICK j \in 1..(i - 1) : done[j] = d
        BY <1>1, <1>6, <3>1 DEF SearchSound, DoneInOrder
      <4>2. j \in DOMAIN done
        BY <1>6, <3>1
      <4> QED BY <1>6, <4>1, <4>2
    <3>2. CASE i = Len(done) + 1
      <4>1. PICK j \in DOMAIN done : done[j] = d
        BY <1>4, <1>6, <3>2
      <4>2. j \in 1..(i - 1)
        BY <1>6, <3>2
      <4> QED BY <1>6, <4>1, <4>2
    <3> QED BY <1>6, <3>1, <3>2
  <2> QED BY <1>1, <2>1, <2>2 DEF DoneInOrder
<1>8. \A i \in DOMAIN done', j \in DOMAIN stack' : done'[i] # stack'[j]
  BY <1>1, <1>2, <1>6 DEF SearchSound
<1>9. \A i \in 1..(Len(stack') - 1) : stack'[i + 1] \in DepsOf(order, stack'[i])
  <2>1. Len(stack) \in Nat /\ DOMAIN stack' = 1..(Len(stack) - 1)
    BY <1>1, <1>2 DEF StartupTypeOK
  <2> SUFFICES ASSUME NEW i \in 1..(Len(stack') - 1)
               PROVE  stack'[i + 1] \in DepsOf(order, stack'[i])
    OBVIOUS
  <2>2. i \in DOMAIN stack' /\ i + 1 \in DOMAIN stack' /\ i \in 1..(Len(stack) - 1)
    BY <1>2, <2>1
  <2> QED BY <1>1, <1>2, <2>2 DEF SearchSound
<1>10. SearchSound'
  BY <1>1, <1>7, <1>8, <1>9 DEF SearchSound
<1>11. StartupTypeOK'
  BY <1>1, <1>2, <1>6 DEF StartupTypeOK, Phase, SearchRest, regVars, useVars, holdVars
<1> QED BY <1>1, <1>2, <1>10, <1>11, SearchKeeps DEF StartupInv

LEMMA SearchEndsKeeps ==
  ASSUME StartupInv, SearchEnds
  PROVE  StartupInv'
<1> USE NothingBuilt DEF SearchEnds, SearchRest, regVars, searchVars, useVars, holdVars
<1>1. diags' \subseteq Code
  BY DEF StartupInv, StartupTypeOK, Code
<1>2. phase' = "build" => Accepted
  <2> SUFFICES ASSUME phase' = "build" PROVE Accepted
    OBVIOUS
  <2>1. diags = {} /\ cycle = <<>>
    OBVIOUS
  <2>2. stack = <<>> /\ Left(Searched) = {}
    BY <2>1
  <2>3. Types(order) \subseteq Searched
    BY <2>2, FirstOfOuter DEF StartupInv
  <2>4. \A t \in Types(order) : t # RequestPtr
    BY OneProvider, ProvOf, StartupAssumption DEF StartupInv
  <2>5. Types(order) \subseteq Range(done)
    BY <2>3, <2>4 DEF Searched
  <2> QED BY <2>1, <2>5 DEF Accepted, StartupInv, SearchSound
<1>3. StartupTypeOK' /\ Registered' /\ Untouched' /\ CallsNested'
  BY <1>1 DEF StartupInv, StartupTypeOK, Phase, Registered, Untouched, CallsNested
<1>4. SearchSound' /\ BuiltBefore' /\ Building'
  BY DEF StartupInv, SearchSound, DoneInOrder, CycleReal, BuiltBefore, Building, SingletonsClosed,
         CallsInOrder, InOrder
<1>5. GraphValidated'
  BY <1>2 DEF GraphValidated, Accepted
<1>6. HooksSound' /\ Scoping' /\ ReleaseSound'
  BY DEF HooksSound, Scoping, ReleaseSound
<1>7. open \subseteq ComponentName
  BY DEF StartupInv, Owned
<1>8. Owned' /\ Forsaken'
  BY <1>7 DEF StartupInv, Owned, IsOf, Forsaken
<1> QED BY <1>3, <1>4, <1>5, <1>6, <1>8 DEF StartupInv

-----------------------------------------------------------------------------
(* Construction.                                                           *)

LEMMA AcceptedGraph ==
  ASSUME StartupInv, Accepted
  PROVE  /\ OneEach(order) /\ Clean(order) /\ Types(order) \subseteq Type
         /\ \A t \in Types(order) :
              /\ t \notin BelowIn(order, t)
              /\ DepsOf(order, t) \subseteq Types(order) /\ BelowIn(order, t) \subseteq Types(order)
              /\ Prov(order, t) \in Provider /\ Prov(order, t).out = t
              /\ Prov(order, t).scope \in {"singleton", "request"}
              /\ Prov(order, t).supplied => DepsOf(order, t) = {} /\ Prov(order, t).scope = "singleton"
<1>1. /\ OneEach(order) /\ Clean(order) /\ Types(order) \subseteq Range(done)
      /\ done \in Seq(Types(order)) /\ DoneOrder(order, done)
      /\ \A i \in DOMAIN order : Okay(order[i])
  BY OneProvider DEF StartupInv, StartupTypeOK, Accepted, SearchSound, DoneInOrder, DoneOrder, Registered
<1>2. ASSUME NEW t \in Types(order)
      PROVE  /\ t \notin BelowIn(order, t)
             /\ Prov(order, t) \in Provider /\ Prov(order, t).out = t /\ t \in Type
             /\ Prov(order, t).scope \in {"singleton", "request"}
             /\ Prov(order, t).supplied => DepsOf(order, t) = {} /\ Prov(order, t).scope = "singleton"
  <2>1. PICK i \in DOMAIN done : done[i] = t
    BY <1>1 DEF Range
  <2>2. done[i] \notin BelowIn(order, done[i])
    BY <1>1, Acyclic
  <2>3. /\ Prov(order, t) \in Provider /\ Prov(order, t).out = t /\ t \in Type
        /\ Okay(Prov(order, t)) /\ DepsOf(order, t) = Range(Prov(order, t).params) \ {RequestPtr}
    BY <1>1, ProvOf
  <2> QED BY <2>1, <2>2, <2>3 DEF Provider, Okay, Range
<1> QED BY <1>1, <1>2, CleanClosed

(* So nothing is called for again inside its own call.                     *)
LEMMA NotOnStack ==
  ASSUME StartupInv, Accepted, stack # <<>>, NEW t \in DepsOf(order, Last(stack))
  PROVE  t \in Types(order) /\ t \notin Range(stack)
<1>1. stack \in Seq(Types(order)) /\ CallsNested
  BY DEF StartupInv, StartupTypeOK
<1>2. Last(stack) \in Types(order) /\ Last(stack) = stack[Len(stack)] /\ Len(stack) \in Nat \ {0}
  BY <1>1, FrontLast
<1>3. t \in Types(order)
  BY <1>2, AcceptedGraph
<1>4. ASSUME NEW i \in DOMAIN stack PROVE stack[i] # t
  <2>1. Len(stack) \in DOMAIN stack /\ (i = Len(stack) \/ i < Len(stack))
    BY <1>1, <1>2
  <2>2. Last(stack) = stack[i] \/ Last(stack) \in BelowIn(order, stack[i])
    BY <1>1, <1>2, <2>1 DEF CallsNested
  <2>3. t \in BelowIn(order, stack[i])
    BY <2>2, BelowClosed, BelowTransitive
  <2>4. stack[i] \notin BelowIn(order, stack[i])
    BY <1>1, AcceptedGraph
  <2> QED BY <2>3, <2>4
<1> QED BY <1>3, <1>4 DEF Range

LEMMA BuildPhase ==
  ASSUME StartupInv, phase = "build"
  PROVE  /\ StartupTypeOK /\ CallsNested /\ Building /\ HooksSound /\ Owned /\ GraphValidated
         /\ Accepted /\ OneEach(order) /\ Clean(order)
         /\ next = 1 /\ started = <<>> /\ released = <<>> /\ request = "none"
         /\ scoped = {} /\ cleanups = <<>>
BY AcceptedGraph DEF StartupInv, GraphValidated, Untouched

(* A singleton's constructor takes no request.                             *)
LEMMA NextBuilt ==
  ASSUME StartupInv, phase = "build"
  PROVE  /\ Left(Built) # {} =>
              /\ FirstLeft(Built) \in Types(order) \ singletons
              /\ Prov(order, FirstLeft(Built)).scope = "singleton"
              /\ stack # <<>> => FirstLeft(Built) \in DepsOf(order, Last(stack))
              /\ FirstLeft(Built) \notin Range(stack)
         /\ Left(Built) = {} /\ stack # <<>> => DepsOf(order, Last(stack)) \subseteq singletons
         /\ Left(Built) = {} /\ stack = <<>> => AllBuilt
<1>1. CASE stack = <<>>
  <2>1. Built = singletons \cup OfRequests
    BY <1>1 DEF Built
  <2>2. \A t \in Types(order) : t \notin OfRequests => Prov(order, t).scope = "singleton"
    BY BuildPhase, AcceptedGraph, InModel DEF OfRequests
  <2>3. \A t \in OfRequests : Prov(order, t).scope = "request"
    BY InModel DEF OfRequests
  <2>4. Range(stack) = {}
    BY <1>1 DEF Range
  <2>5. Left(Built) = {} => Types(order) \subseteq singletons \cup OfRequests
    BY <1>1, <2>1, BuildPhase, FirstOfOuter
  <2>6. Left(Built) # {} => FirstLeft(Built) \in Types(order) \ Built
    BY <1>1, BuildPhase, FirstOfOuter
  <2> QED BY <1>1, <2>1, <2>2, <2>3, <2>4, <2>5, <2>6 DEF AllBuilt
<1>2. CASE stack # <<>>
  <2>1. Built = singletons
    BY <1>2 DEF Built
  <2>2. Last(stack) \in Types(order) /\ Prov(order, Last(stack)).scope = "singleton"
    <3>1. stack \in Seq(Types(order))
      BY BuildPhase DEF StartupTypeOK
    <3>2. Last(stack) \in Types(order) /\ Last(stack) = stack[Len(stack)] /\ Len(stack) \in Nat \ {0}
      BY <1>2, <3>1, FrontLast
    <3>3. Len(stack) \in DOMAIN stack
      BY <3>1, <3>2
    <3> QED BY <3>2, <3>3, BuildPhase DEF Building
  <2>3. PICK p : p = Prov(order, Last(stack))
    OBVIOUS
  <2>4. PICK i \in DOMAIN order : order[i] = p
    BY <2>2, <2>3, BuildPhase, ProvOf
  <2>5. \A k \in DOMAIN p.params : p.params[k] # RequestPtr
    BY <2>2, <2>3, <2>4, BuildPhase DEF Clean, Proper
  <2>6. \A k \in DOMAIN Listed : Listed[k] # RequestPtr
    BY <1>2, <2>3, <2>5, InModel DEF Listed
  <2>7. /\ Left(Built) # {} => FirstLeft(Built) \in DepsOf(order, Last(stack)) \ Built
        /\ Left(Built) = {} => DepsOf(order, Last(stack)) \subseteq Built
    BY <1>2, <2>6, BuildPhase, FirstOfInner
  <2>8. \A d \in DepsOf(order, Last(stack)) :
          d \in Types(order) /\ d \notin Range(stack) /\ Prov(order, d).scope = "singleton"
    BY <1>2, <2>2, NotOnStack, BelowClosed, BuildPhase, CleanClosed
  <2> QED BY <1>2, <2>1, <2>7, <2>8
<1> QED BY <1>1, <1>2

LEMMA BuildForKeeps ==
  ASSUME StartupInv, BuildFor
  PROVE  StartupInv'
<1> DEFINE t == FirstLeft(Built)
<1>1. /\ phase = "build" /\ Enter(t) /\ order' = order /\ Left(Built) # {}
      /\ UNCHANGED <<regVars, startVars, useVars, holdVars>>
  BY DEF BuildFor, regVars
<1>2. /\ t \in Types(order) /\ t \notin singletons /\ Prov(order, t).scope = "singleton"
      /\ (stack # <<>> => t \in DepsOf(order, Last(stack))) /\ t \notin Range(stack)
  BY <1>1, NextBuilt
<1> HIDE DEF t
<1>3. /\ CallsNested' /\ stack' \in Seq(Types(order))
      /\ \A i \in DOMAIN stack' : stack'[i] = IF i \in DOMAIN stack THEN stack[i] ELSE t
  BY <1>1, <1>2, BuildPhase, EnterNested
<1> USE <1>1, BuildPhase DEF regVars, startVars, searchVars, useVars, holdVars
<1>4. StartupTypeOK' /\ Registered' /\ Untouched'
  BY <1>3 DEF StartupInv, StartupTypeOK, Registered, Untouched, Phase
<1>5. Building'
  BY <1>2, <1>3 DEF Building, SingletonsClosed, CallsInOrder, InOrder
<1>6. SearchSound' /\ GraphValidated' /\ BuiltBefore'
  BY DEF StartupInv, SearchSound, DoneInOrder, CycleReal, GraphValidated, Accepted, BuiltBefore
<1>7. HooksSound' /\ Owned' /\ Forsaken'
  BY DEF StartupInv, HooksSound, Owned, IsOf, Forsaken
<1>8. Scoping' /\ ReleaseSound'
  BY DEF StartupInv, Scoping, ReleaseSound
<1> QED BY <1>3, <1>4, <1>5, <1>6, <1>7, <1>8 DEF StartupInv

(* A constructor is called after those of all its type depends on.         *)
LEMMA CallAppended ==
  ASSUME NEW ord, NEW list \in Seq(Types(ord)), NEW t \in Types(ord), InOrder(ord, list),
         \A d \in DepsOf(ord, t) : Prov(ord, d).supplied \/ \E j \in DOMAIN list : list[j] = d,
         NEW longer, longer = Append(list, t)
  PROVE  /\ InOrder(ord, longer) /\ longer \in Seq(Types(ord)) /\ Len(list) \in Nat
         /\ DOMAIN list = 1..Len(list) /\ DOMAIN longer = 1..(Len(list) + 1)
         /\ longer[Len(list) + 1] = t /\ \A i \in DOMAIN list : longer[i] = list[i]
<1>1. /\ longer \in Seq(Types(ord)) /\ Len(list) \in Nat
      /\ DOMAIN list = 1..Len(list) /\ DOMAIN longer = 1..(Len(list) + 1)
      /\ longer[Len(list) + 1] = t /\ \A i \in DOMAIN list : longer[i] = list[i]
  OBVIOUS
<1>2. ASSUME NEW i \in DOMAIN longer, NEW d \in DepsOf(ord, longer[i])
      PROVE  Prov(ord, d).supplied \/ \E j \in 1..(i - 1) : longer[j] = d
  <2>1. CASE i \in DOMAIN list
    <3>1. Prov(ord, d).supplied \/ \E j \in 1..(i - 1) : list[j] = d
      BY <1>1, <2>1 DEF InOrder
    <3>2. \A j \in 1..(i - 1) : j \in DOMAIN list
      BY <1>1, <2>1
    <3> QED BY <1>1, <3>1, <3>2
  <2>2. CASE i = Len(list) + 1
    <3>1. Prov(ord, d).supplied \/ \E j \in DOMAIN list : list[j] = d
      BY <1>1, <2>2
    <3>2. \A j \in DOMAIN list : j \in 1..(i - 1)
      BY <1>1, <2>2
    <3> QED BY <1>1, <3>1, <3>2
  <2> QED BY <1>1, <2>1, <2>2
<1> QED BY <1>1, <1>2 DEF InOrder

(* What singleton and manage make of the innermost call.                   *)
LEMMA Constructed ==
  ASSUME StartupInv, phase = "build", stack # <<>>, NEW t, t = Last(stack), Left(Built) = {}
  PROVE  /\ t \in Types(order) /\ t \notin singletons /\ ProviderOf(t) = Prov(order, t)
         /\ Prov(order, t).scope = "singleton" /\ Prov(order, t).out = t /\ t \in Type
         /\ DepsOf(order, t) \subseteq singletons
         /\ \A i \in DOMAIN calls : calls[i] # t
         /\ \A d \in DepsOf(order, t) :
              Prov(order, d).supplied \/ \E j \in DOMAIN calls : calls[j] = d
<1>1. /\ stack \in Seq(Types(order)) /\ Len(stack) \in DOMAIN stack
      /\ t \in Types(order) /\ t = stack[Len(stack)]
  <2>1. stack \in Seq(Types(order))
    BY BuildPhase DEF StartupTypeOK
  <2>2. t \in Types(order) /\ t = stack[Len(stack)] /\ Len(stack) \in Nat \ {0}
    BY <2>1, FrontLast
  <2> QED BY <2>1, <2>2
<1>2. t \notin singletons /\ Prov(order, t).scope = "singleton"
  BY <1>1, BuildPhase DEF Building
<1>3. DepsOf(order, t) \subseteq singletons
  BY NextBuilt
<1>4. Prov(order, t).out = t /\ ProviderOf(t) = Prov(order, t) /\ t \in Type
  BY <1>1, BuildPhase, AcceptedGraph, InModel
<1> QED BY <1>1, <1>2, <1>3, <1>4, BuildPhase DEF Building, SingletonsClosed

LEMMA SingletonsBelow ==
  ASSUME StartupInv, NEW s \in singletons
  PROVE  BelowIn(order, s) \subseteq singletons
<1>1. singletons \in SUBSET Type
  BY OneProvider, ProvOf DEF StartupInv, StartupTypeOK
<1>2. ClosedIn(order, singletons)
  BY DEF StartupInv, Building, SingletonsClosed, ClosedIn
<1> QED BY <1>1, <1>2, BelowOfClosed

LEMMA ConstructKeeps ==
  ASSUME StartupInv, Construct
  PROVE  StartupInv'
<1> DEFINE t == Last(stack)
           p == Prov(order, t)
<1>1. /\ phase = "build" /\ stack # <<>> /\ Left(Built) = {} /\ Leave /\ order' = order
      /\ UNCHANGED <<regVars, diags, phase, searchVars, next, started, useVars, released>>
  BY DEF Construct, regVars
<1>2. /\ t \in Types(order) /\ t \notin singletons /\ ProviderOf(t) = p
      /\ p.scope = "singleton" /\ p.out = t /\ t \in Type
      /\ DepsOf(order, t) \subseteq singletons
      /\ \A i \in DOMAIN calls : calls[i] # t
      /\ \A d \in DepsOf(order, t) :
           Prov(order, d).supplied \/ \E j \in DOMAIN calls : calls[j] = d
  BY <1>1, Constructed
<1>3. singletons' = singletons \cup {t}
  BY <1>2 DEF Construct
<1>4. \/ p.supplied /\ calls' = calls /\ hooks' = hooks /\ open' = open
      \/ /\ ~p.supplied /\ calls' = Append(calls, t) /\ hooks' = hooks \o Managed(p)
         /\ open' = open \cup Holds(p)
  BY <1>2 DEF Construct
<1>5. Building /\ HooksSound /\ Owned /\ StartupTypeOK /\ CallsNested
  BY <1>1, BuildPhase
<1>6. hooks \in Seq(Hook) /\ calls \in Seq(Types(order)) /\ open \subseteq Type \cup ComponentName
  BY <1>5 DEF StartupTypeOK
<1>7. \/ Managed(p) = <<>> /\ Holds(p) = {}
      \/ \E h \in Hook : /\ h.of = t /\ Managed(p) = <<h>>
                         /\ Holds(p) = {} \/ (Holds(p) = {t} /\ h.kind = "stopOnly")
  BY <1>2 DEF Managed, Holds, Hook
<1> HIDE DEF t, p
<1>8. \/ hooks' = hooks /\ open' = open
      \/ \E h \in Hook : /\ h.of = t /\ hooks' = Append(hooks, h)
                         /\ open' = open \/ (open' = open \cup {t} /\ h.kind = "stopOnly")
  <2>1. CASE p.supplied
    BY <1>4, <2>1
  <2>2. CASE ~p.supplied /\ Managed(p) = <<>> /\ Holds(p) = {}
    BY <1>4, <1>6, <2>2
  <2>3. ASSUME ~p.supplied, NEW h \in Hook, h.of = t, Managed(p) = <<h>>,
               Holds(p) = {} \/ (Holds(p) = {t} /\ h.kind = "stopOnly")
        PROVE  /\ hooks' = Append(hooks, h)
               /\ open' = open \/ (open' = open \cup {t} /\ h.kind = "stopOnly")
    <3>1. hooks \o <<h>> = Append(hooks, h)
      BY <1>6
    <3> QED BY <1>4, <2>3, <3>1
  <2> QED BY <1>7, <2>1, <2>2, <2>3
<1>9. /\ CallsNested' /\ stack' \in Seq(Types(order))
      /\ \A i \in DOMAIN stack' : i \in DOMAIN stack /\ stack'[i] = stack[i] /\ stack'[i] # t
  BY <1>1, <1>5, LeaveNested DEF t
<1>10. \/ p.supplied /\ calls' = calls
       \/ /\ ~p.supplied /\ calls' \in Seq(Types(order)) /\ Len(calls) \in Nat
          /\ DOMAIN calls = 1..Len(calls) /\ DOMAIN calls' = 1..(Len(calls) + 1)
          /\ calls'[Len(calls) + 1] = t /\ \A i \in DOMAIN calls : calls'[i] = calls[i]
  <2>1. CASE p.supplied
    BY <1>4, <2>1
  <2>2. CASE ~p.supplied
    <3>1. calls' = Append(calls, t) /\ calls \in Seq(Types(order)) /\ t \in Types(order)
      BY <1>2, <1>4, <1>6, <2>2
    <3> QED BY <2>2, <3>1
  <2> QED BY <2>1, <2>2
<1>11. StartupTypeOK'
  <2>1. hooks' \in Seq(Hook) /\ open' \subseteq Type \cup ComponentName
    BY <1>2, <1>6, <1>8
  <2>2. calls' \in Seq(Types(order)) /\ singletons' \subseteq Types(order)
    BY <1>2, <1>3, <1>5, <1>6, <1>10 DEF StartupTypeOK
  <2> QED BY <1>1, <1>5, <1>9, <2>1, <2>2
          DEF StartupTypeOK, regVars, searchVars, useVars, Phase
<1>12. Building'
  <2>1. SingletonsClosed'
    <3>1. \A s \in singletons' : Prov(order, s).scope = "singleton" /\ DepsOf(order, s) \subseteq singletons'
      BY <1>2, <1>3, <1>5 DEF Building, SingletonsClosed, p
    <3>2. \A s \in singletons' : Prov(order, s).supplied \/ \E j \in DOMAIN calls' : calls'[j] = s
      BY <1>2, <1>3, <1>5, <1>10 DEF Building, SingletonsClosed, p
    <3> QED BY <1>1, <3>1, <3>2 DEF SingletonsClosed
  <2>2. CallsInOrder'
    <3>1. InOrder(order, calls')
      <4>1. CASE p.supplied
        BY <1>5, <1>10, <4>1 DEF Building, CallsInOrder
      <4>2. CASE ~p.supplied
        <5>1. calls' = Append(calls, t) /\ InOrder(order, calls)
          BY <1>4, <1>5, <4>2 DEF Building, CallsInOrder
        <5> QED BY <1>2, <1>6, <5>1, CallAppended
      <4> QED BY <4>1, <4>2
    <3>2. \A i, j \in DOMAIN calls' : calls'[j] = calls'[i] /\ calls'[i] \in singletons' => j = i
      BY <1>2, <1>3, <1>5, <1>10 DEF Building, CallsInOrder
    <3> QED BY <1>1, <3>1, <3>2 DEF CallsInOrder
  <2>3. \A i \in DOMAIN calls' : calls'[i] \in singletons'
    BY <1>1, <1>3, <1>5, <1>10 DEF Building
  <2>4. \A i \in DOMAIN stack' : stack'[i] \notin singletons' /\ Prov(order, stack'[i]).scope = "singleton"
    BY <1>1, <1>3, <1>5, <1>9 DEF Building
  <2> QED BY <1>1, <2>1, <2>2, <2>3, <2>4 DEF Building
<1>13. HooksSound'
  <2>1. \A i \in DOMAIN hooks' : hooks'[i].of \in singletons'
    BY <1>1, <1>3, <1>5, <1>6, <1>8 DEF HooksSound
  <2>2. \A s \in singletons : t \notin BelowIn(order, s)
    BY <1>2, SingletonsBelow
  <2>3. \A i, j \in DOMAIN hooks' : i < j => hooks'[j].of \notin BelowIn(order, hooks'[i].of)
    <3>1. CASE hooks' = hooks
      BY <1>5, <3>1 DEF HooksSound
    <3>2. ASSUME NEW h \in Hook, h.of = t, hooks' = Append(hooks, h)
          PROVE  \A i, j \in DOMAIN hooks' : i < j =>
                   hooks'[j].of \notin BelowIn(order, hooks'[i].of)
      <4>1. /\ \A i \in DOMAIN hooks' : (i \in DOMAIN hooks /\ hooks'[i] = hooks[i])
                                        \/ (i = Len(hooks) + 1 /\ hooks'[i] = h)
            /\ Len(hooks) \in Nat /\ DOMAIN hooks = 1..Len(hooks)
        BY <1>6, <3>2
      <4> SUFFICES ASSUME NEW i \in DOMAIN hooks', NEW j \in DOMAIN hooks', i < j
                   PROVE  hooks'[j].of \notin BelowIn(order, hooks'[i].of)
        OBVIOUS
      <4>2. i \in DOMAIN hooks /\ hooks'[i] = hooks[i] /\ hooks[i].of \in singletons
        BY <1>1, <1>5, <4>1 DEF HooksSound
      <4> QED BY <1>5, <2>2, <3>2, <4>1, <4>2 DEF HooksSound
    <3> QED BY <1>8, <3>1, <3>2
  <2> QED BY <1>1, <1>6, <1>8, <2>1, <2>3, BuildPhase DEF HooksSound
<1>14. Owned'
  <2> SUFFICES ASSUME NEW o \in open'
               PROVE  \/ o \in ComponentName /\ IsOf(appHooks, o)
                      \/ \E i \in DOMAIN hooks' : hooks'[i].of = o /\ hooks'[i].kind = "stopOnly"
    BY <1>1 DEF Owned, IsOf, regVars
  <2>1. CASE o \in open
    BY <1>1, <1>5, <1>6, <1>8, <2>1 DEF Owned
  <2>2. CASE o \notin open
    BY <1>6, <1>8, <2>2
  <2> QED BY <2>1, <2>2
<1> USE <1>1, BuildPhase DEF regVars, searchVars, useVars
<1>15. Registered' /\ Untouched'
  BY DEF StartupInv, Registered, Untouched
<1>16. SearchSound' /\ GraphValidated' /\ BuiltBefore'
  BY DEF StartupInv, SearchSound, DoneInOrder, CycleReal, GraphValidated, Accepted, BuiltBefore
<1>17. Forsaken' /\ Scoping' /\ ReleaseSound'
  BY DEF StartupInv, Forsaken, Scoping, ReleaseSound
<1> QED BY <1>9, <1>11, <1>12, <1>13, <1>14, <1>15, <1>16, <1>17 DEF StartupInv

LEMMA ConstructFailsKeeps ==
  ASSUME StartupInv, ConstructFails
  PROVE  StartupInv'
<1> DEFINE t == Last(stack)
<1>1. /\ phase = "build" /\ stack # <<>> /\ Left(Built) = {} /\ stack' = <<>> /\ order' = order
      /\ calls' = Append(calls, t) /\ phase' = "undo" /\ diags' = {"START_HOOK_FAILED"}
      /\ UNCHANGED <<regVars, searchVars, singletons, hooks, next, started, useVars, holdVars>>
  BY DEF ConstructFails, regVars
<1>2. /\ t \in Types(order) /\ t \notin singletons
      /\ \A d \in DepsOf(order, t) :
           Prov(order, d).supplied \/ \E j \in DOMAIN calls : calls[j] = d
  BY <1>1, Constructed
<1> HIDE DEF t
<1>3. Building /\ StartupTypeOK /\ Accepted /\ HooksSound /\ Owned
  BY <1>1, BuildPhase
<1>4. /\ InOrder(order, calls') /\ calls' \in Seq(Types(order)) /\ Len(calls) \in Nat
      /\ DOMAIN calls = 1..Len(calls) /\ DOMAIN calls' = 1..(Len(calls) + 1)
      /\ calls'[Len(calls) + 1] = t /\ \A i \in DOMAIN calls : calls'[i] = calls[i]
  <2>1. calls \in Seq(Types(order)) /\ InOrder(order, calls)
    BY <1>3 DEF StartupTypeOK, Building, CallsInOrder
  <2>2. calls' = Append(calls, t)
    BY <1>1
  <2>3. InOrder(order, calls')
    BY <1>2, <2>1, <2>2, CallAppended
  <2> QED BY <1>2, <2>1, <2>2, <2>3
<1>5. Building'
  <2>1. CallsInOrder'
    BY <1>1, <1>2, <1>3, <1>4 DEF Building, CallsInOrder
  <2>2. SingletonsClosed'
    BY <1>1, <1>3, <1>4 DEF Building, SingletonsClosed
  <2> QED BY <1>1, <2>1, <2>2 DEF Building
<1> USE <1>1, BuildPhase DEF regVars, searchVars, useVars, holdVars
<1>6. StartupTypeOK'
  BY <1>3, <1>4 DEF StartupTypeOK, Phase, Code
<1>7. Registered' /\ Untouched' /\ CallsNested'
  BY DEF StartupInv, Registered, Untouched, CallsNested
<1>8. SearchSound' /\ GraphValidated' /\ BuiltBefore'
  BY DEF StartupInv, SearchSound, DoneInOrder, CycleReal, GraphValidated, Accepted, BuiltBefore
<1>9. HooksSound' /\ Owned'
  BY <1>3 DEF HooksSound, Owned, IsOf
<1>10. Forsaken' /\ Scoping' /\ ReleaseSound'
  BY DEF StartupInv, Forsaken, Scoping, ReleaseSound
<1> QED BY <1>5, <1>6, <1>7, <1>8, <1>9, <1>10 DEF StartupInv

(* closeBuilt closes from the end of the hooks, and what is above a value  *)
(* comes after it there.                                                   *)
LEMMA CloseBuiltKeeps ==
  ASSUME StartupInv, CloseBuilt
  PROVE  StartupInv'
<1> DEFINE h == Last(hooks)
<1>1. /\ phase = "undo" /\ hooks # <<>> /\ hooks' = Front(hooks) /\ order' = order
      /\ UNCHANGED <<regVars, diags, phase, searchVars, singletons, next, started, calls,
                     stack, useVars>>
  BY DEF CloseBuilt, regVars
<1>2. \/ h.kind = "stopOnly" /\ open' = open \ {h.of} /\ released' = Append(released, h.of)
      \/ h.kind # "stopOnly" /\ open' = open /\ released' = released
  BY DEF CloseBuilt, Stops, holdVars
<1>3. /\ hooks \in Seq(Hook) /\ open \subseteq Type \cup ComponentName
      /\ released \in Seq(Type \cup ComponentName) /\ singletons \subseteq Types(order)
      /\ StartupTypeOK /\ Accepted /\ Building /\ HooksSound /\ Owned /\ ReleaseSound
  BY <1>1 DEF StartupInv, StartupTypeOK, GraphValidated
<1>4. /\ Len(hooks) \in DOMAIN hooks /\ h \in Hook /\ h = hooks[Len(hooks)]
      /\ hooks' \in Seq(Hook) /\ Len(hooks') = Len(hooks) - 1
      /\ \A i \in DOMAIN hooks' : i \in DOMAIN hooks /\ i < Len(hooks) /\ hooks'[i] = hooks[i]
      /\ \A i \in DOMAIN hooks : i \in DOMAIN hooks' \/ i = Len(hooks)
  <2>1. /\ Len(hooks) \in Nat \ {0} /\ h \in Hook /\ h = hooks[Len(hooks)]
        /\ hooks' \in Seq(Hook) /\ Len(hooks') = Len(hooks) - 1
        /\ \A i \in 1..(Len(hooks) - 1) : hooks'[i] = hooks[i]
    BY <1>1, <1>3, FrontLast
  <2>2. DOMAIN hooks = 1..Len(hooks) /\ DOMAIN hooks' = 1..(Len(hooks) - 1)
    BY <1>3, <2>1
  <2> QED BY <2>1, <2>2
<1> HIDE DEF h
<1>5. h.of \in singletons /\ h.of \in Type \cup ComponentName
  BY <1>1, <1>3, <1>4 DEF HooksSound, Hook
<1>6. HooksSound'
  BY <1>1, <1>3, <1>4 DEF StartupInv, Untouched, HooksSound
<1>7. Owned'
  <2> SUFFICES ASSUME NEW o \in open'
               PROVE  \/ o \in ComponentName /\ IsOf(appHooks, o)
                      \/ \E i \in DOMAIN hooks' : hooks'[i].of = o /\ hooks'[i].kind = "stopOnly"
    BY <1>1 DEF Owned, IsOf, regVars
  <2>1. \/ o \in ComponentName /\ IsOf(appHooks, o)
        \/ \E i \in DOMAIN hooks : hooks[i].of = o /\ hooks[i].kind = "stopOnly"
    BY <1>1, <1>2, <1>3 DEF Owned
  <2>2. h.kind = "stopOnly" => o # h.of
    BY <1>2
  <2> QED BY <1>4, <2>1, <2>2
<1>8. ReleaseSound'
  <2> SUFFICES ASSUME NEW i \in DOMAIN released', NEW t \in Types(order), t \in open',
                      released'[i] \in BelowIn(order, t) \ open'
               PROVE  FALSE
    BY <1>1 DEF ReleaseSound
  <2>1. request = "none"
    BY <1>1 DEF StartupInv, Untouched
  <2>2. t \in open /\ t \notin ComponentName
    BY <1>2, <1>3, AcceptedGraph, NothingBelowNames
  <2>3. PICK k \in DOMAIN hooks' : hooks'[k].of = t
    BY <1>1, <1>7, <2>2 DEF Owned, regVars
  <2>4. h.of \notin BelowIn(order, t)
    BY <1>3, <1>4, <2>3 DEF HooksSound
  <2>5. CASE i \in DOMAIN released /\ released'[i] = released[i]
    <3>1. released[i] \in open
      BY <1>1, <1>3, <2>1, <2>2, <2>5 DEF ReleaseSound
    <3>2. released[i] = h.of
      BY <1>2, <2>5, <3>1
    <3> QED BY <2>4, <2>5, <3>2
  <2>6. CASE released'[i] = h.of
    BY <2>4, <2>6
  <2>7. (i \in DOMAIN released /\ released'[i] = released[i]) \/ released'[i] = h.of
    BY <1>2, <1>3
  <2> QED BY <2>5, <2>6, <2>7
<1>9. StartupTypeOK'
  <2>1. open' \subseteq Type \cup ComponentName /\ released' \in Seq(Type \cup ComponentName)
    BY <1>2, <1>3, <1>5
  <2> QED BY <1>1, <1>3, <1>4, <2>1 DEF StartupTypeOK, regVars, searchVars, useVars, Phase
<1> USE <1>1 DEF regVars, searchVars, useVars
<1>10. Registered' /\ Untouched' /\ CallsNested'
  BY DEF StartupInv, Registered, Untouched, CallsNested
<1>11. SearchSound' /\ GraphValidated' /\ Building' /\ BuiltBefore'
  BY DEF StartupInv, SearchSound, DoneInOrder, CycleReal, GraphValidated, Accepted, Building,
         SingletonsClosed, CallsInOrder, InOrder, BuiltBefore
<1>12. Forsaken' /\ Scoping'
  BY DEF StartupInv, Untouched, Forsaken, Scoping
<1> QED BY <1>6, <1>7, <1>8, <1>9, <1>10, <1>11, <1>12 DEF StartupInv

LEMMA UndoneKeeps ==
  ASSUME StartupInv, Undone
  PROVE  StartupInv'
<1> USE DEF Undone, regVars, searchVars, useVars, holdVars
<1>1. StartupTypeOK' /\ Registered' /\ Untouched' /\ CallsNested'
  BY DEF StartupInv, StartupTypeOK, Phase, Registered, Untouched, CallsNested
<1>2. SearchSound' /\ GraphValidated' /\ Building' /\ BuiltBefore'
  BY DEF StartupInv, SearchSound, DoneInOrder, CycleReal, GraphValidated, Accepted, Building,
         SingletonsClosed, CallsInOrder, InOrder, BuiltBefore
<1>3. HooksSound' /\ Scoping' /\ ReleaseSound'
  BY DEF StartupInv, Untouched, HooksSound, Scoping, ReleaseSound
<1>4. open \subseteq ComponentName /\ next = 1
  BY DEF StartupInv, Untouched, Owned
<1>5. Owned' /\ Forsaken'
  BY <1>4 DEF StartupInv, StartupTypeOK, Owned, IsOf, Forsaken
<1> QED BY <1>1, <1>2, <1>3, <1>5 DEF StartupInv

-----------------------------------------------------------------------------
(* The hooks.                                                              *)

(* The hooks of a Start: those of components, those of singletons, and     *)
(* that of the job manager.                                                *)
LEMMA AllHooks ==
  ASSUME StartupInv, phase = "build", NEW list,
         list = appHooks \o hooks
                  \o (IF jobs THEN <<[of |-> "jobs", kind |-> "both"]>> ELSE <<>>)
  PROVE  /\ list \in Seq(Hook)
         /\ \A i \in DOMAIN list : list[i].of \in ComponentName \/ list[i].of \in singletons
         /\ \A i, j \in DOMAIN list : i < j => list[j].of \notin BelowIn(order, list[i].of)
         /\ \A i \in DOMAIN appHooks : \E k \in DOMAIN list : list[k] = appHooks[i]
         /\ \A i \in DOMAIN hooks : \E k \in DOMAIN list : list[k] = hooks[i]
<1> DEFINE last == IF jobs THEN <<[of |-> "jobs", kind |-> "both"]>> ELSE <<>>
           a == Len(appHooks)
           b == Len(hooks)
           first == appHooks \o hooks
<1>1. /\ appHooks \in Seq(Hook) /\ hooks \in Seq(Hook)
      /\ \A i \in DOMAIN appHooks : appHooks[i].of \in ComponentName
      /\ \A i \in DOMAIN hooks : hooks[i].of \in singletons
      /\ \A i, j \in DOMAIN hooks : i < j => hooks[j].of \notin BelowIn(order, hooks[i].of)
  BY DEF StartupInv, StartupTypeOK, Registered, HooksSound
<1>2. /\ last \in Seq(Hook) /\ \A i \in DOMAIN last : last[i].of = "jobs"
  <2>1. [of |-> "jobs", kind |-> "both"] \in Hook
    BY StartupAssumption DEF Hook
  <2> QED BY <2>1
<1>3. a \in Nat /\ b \in Nat /\ DOMAIN appHooks = 1..a /\ DOMAIN hooks = 1..b
  BY <1>1
<1>4. /\ first \in Seq(Hook) /\ Len(first) = a + b
      /\ \A i \in 1..(a + b) : first[i] = IF i <= a THEN appHooks[i] ELSE hooks[i - a]
  BY <1>1, ConcatProperties
<1>5. list = first \o last
  OBVIOUS
<1> HIDE DEF first, last, a, b
<1>6. PICK n \in Nat : n = a + b
  BY <1>3
<1>7. /\ list \in Seq(Hook) /\ Len(list) \in Nat /\ DOMAIN list = 1..Len(list)
      /\ n <= Len(list) /\ \A i \in 1..n : i \in DOMAIN list /\ list[i] = first[i]
      /\ \A i \in DOMAIN list : i > n => list[i].of = "jobs"
  <2>1. /\ list \in Seq(Hook) /\ Len(list) = Len(first) + Len(last)
        /\ \A i \in 1..(Len(first) + Len(last)) :
             list[i] = IF i <= Len(first) THEN first[i] ELSE last[i - Len(first)]
    <3>1. /\ first \o last \in Seq(Hook) /\ Len(first \o last) = Len(first) + Len(last)
          /\ \A i \in 1..(Len(first) + Len(last)) :
               (first \o last)[i] = IF i <= Len(first) THEN first[i] ELSE last[i - Len(first)]
      <4>1. first \in Seq(Hook) /\ last \in Seq(Hook)
        BY <1>2, <1>4
      <4> QED BY <4>1, ConcatProperties
    <3> QED BY <1>5, <3>1
  <2>2. PICK m \in Nat : m = Len(last) /\ DOMAIN last = 1..m
    BY <1>2
  <2>3. /\ Len(list) = n + m /\ DOMAIN list = 1..(n + m)
        /\ \A i \in 1..(n + m) : list[i] = IF i <= n THEN first[i] ELSE last[i - n]
    BY <1>4, <1>6, <2>1, <2>2
  <2>4. ASSUME NEW i \in DOMAIN list, i > n PROVE list[i].of = "jobs"
    <3>1. i - n \in 1..m /\ ~(i <= n) /\ i \in 1..(n + m)
      BY <1>6, <2>2, <2>3, <2>4
    <3>2. list[i] = last[i - n]
      BY <2>3, <3>1
    <3> QED BY <1>2, <2>2, <3>1, <3>2
  <2>5. \A i \in 1..n : i \in DOMAIN list /\ list[i] = first[i]
    BY <1>6, <2>2, <2>3
  <2>6. Len(list) \in Nat /\ DOMAIN list = 1..Len(list) /\ n <= Len(list)
    BY <1>6, <2>2, <2>3
  <2> QED BY <2>1, <2>4, <2>5, <2>6
<1>8. \A i \in 1..a : i \in DOMAIN list /\ list[i] = appHooks[i]
  BY <1>3, <1>4, <1>6, <1>7
<1>9. \A i \in 1..b : i + a \in DOMAIN list /\ list[i + a] = hooks[i]
  <2> SUFFICES ASSUME NEW i \in 1..b PROVE i + a \in DOMAIN list /\ list[i + a] = hooks[i]
    OBVIOUS
  <2>1. PICK k \in 1..n : k = i + a /\ ~(k <= a) /\ k - a = i
    <3>1. i + a \in 1..n /\ ~(i + a <= a) /\ (i + a) - a = i
      BY <1>3, <1>6
    <3> QED BY <3>1
  <2> QED BY <1>4, <1>6, <1>7, <2>1
<1>10. \A i \in DOMAIN list :
         \/ i \in 1..a /\ list[i] = appHooks[i]
         \/ \E k \in 1..b : i = k + a /\ list[i] = hooks[k]
         \/ i > n /\ list[i].of = "jobs"
  <2> SUFFICES ASSUME NEW i \in DOMAIN list, i <= n, ~(i <= a)
               PROVE  \E k \in 1..b : i = k + a /\ list[i] = hooks[k]
    BY <1>3, <1>6, <1>7, <1>8
  <2>1. i - a \in 1..b /\ i = (i - a) + a
    BY <1>3, <1>6, <1>7
  <2> QED BY <1>9, <2>1
<1>11. \A i \in DOMAIN list : list[i].of \in ComponentName \/ list[i].of \in singletons
  BY <1>1, <1>3, <1>10, StartupAssumption
<1>12. ASSUME NEW i \in DOMAIN list, NEW j \in DOMAIN list, i < j
       PROVE  list[j].of \notin BelowIn(order, list[i].of)
  <2>1. OneEach(order)
    BY BuildPhase
  <2>2. CASE list[i].of \in ComponentName
    BY <2>1, <2>2, NothingBelowNames
  <2>3. CASE list[j].of \in ComponentName
    BY <2>1, <2>3, NothingBelowNames, DepsTyped
  <2>4. CASE list[i].of \notin ComponentName /\ list[j].of \notin ComponentName
    <3>1. PICK k \in 1..b : i = k + a /\ list[i] = hooks[k]
      BY <1>1, <1>3, <1>10, <2>4, StartupAssumption
    <3>2. PICK m \in 1..b : j = m + a /\ list[j] = hooks[m]
      BY <1>1, <1>3, <1>10, <2>4, StartupAssumption
    <3>3. k < m
      BY <1>3, <1>12, <3>1, <3>2
    <3> QED BY <1>1, <1>3, <3>1, <3>2, <3>3
  <2> QED BY <2>2, <2>3, <2>4
<1> QED BY <1>3, <1>7, <1>8, <1>9, <1>11, <1>12

LEMMA InvokeAndFreezeKeeps ==
  ASSUME StartupInv, InvokeAndFreeze
  PROVE  StartupInv'
<1>1. /\ phase = "build" /\ stack = <<>> /\ Left(Built) = {} /\ AllBuilt
      /\ UNCHANGED <<regVars, searchVars, singletons, next, started, calls, stack, useVars, holdVars>>
  BY NextBuilt DEF InvokeAndFreeze
<1>2. \/ /\ phase' = "hook" /\ diags' = diags
         /\ hooks' = appHooks \o hooks
                       \o (IF jobs THEN <<[of |-> "jobs", kind |-> "both"]>> ELSE <<>>)
      \/ phase' = "failed" /\ diags' = {"INVOKE_FAILED"} /\ hooks' = hooks
  BY DEF InvokeAndFreeze
<1>3. \/ phase' = "failed" /\ hooks' = hooks
      \/ /\ phase' = "hook" /\ hooks' \in Seq(Hook)
         /\ \A i \in DOMAIN hooks' : hooks'[i].of \in ComponentName \/ hooks'[i].of \in singletons
         /\ \A i, j \in DOMAIN hooks' : i < j => hooks'[j].of \notin BelowIn(order, hooks'[i].of)
         /\ \A i \in DOMAIN appHooks : \E k \in DOMAIN hooks' : hooks'[k] = appHooks[i]
         /\ \A i \in DOMAIN hooks : \E k \in DOMAIN hooks' : hooks'[k] = hooks[i]
  BY <1>1, <1>2, AllHooks
<1>4. diags' \subseteq Code /\ hooks' \in Seq(Hook) /\ phase' \in {"hook", "failed"}
  BY <1>2, <1>3 DEF StartupInv, StartupTypeOK, Code
<1>5. AllBuilt'
  BY <1>1 DEF AllBuilt, regVars
<1>6. \A o \in open : (o \in ComponentName /\ IsOf(appHooks, o)) \/ IsOf(hooks, o)
  BY <1>1 DEF StartupInv, Owned, IsOf
<1> USE <1>1, BuildPhase DEF regVars, searchVars, useVars, holdVars
<1>7. StartupTypeOK' /\ Registered' /\ Untouched' /\ CallsNested'
  BY <1>4 DEF StartupInv, StartupTypeOK, Phase, Registered, Untouched, CallsNested
<1>8. SearchSound' /\ GraphValidated' /\ Building' /\ BuiltBefore'
  BY <1>4, <1>5 DEF StartupInv, SearchSound, DoneInOrder, CycleReal, GraphValidated, Accepted, Building,
         SingletonsClosed, CallsInOrder, InOrder, BuiltBefore
<1>9. HooksSound'
  <2>1. /\ \A i \in DOMAIN hooks' : hooks'[i].of \in ComponentName \/ hooks'[i].of \in singletons
        /\ \A i, j \in DOMAIN hooks' : i < j => hooks'[j].of \notin BelowIn(order, hooks'[i].of)
    BY <1>3 DEF HooksSound
  <2>2. Len(hooks') \in Nat
    BY <1>4
  <2> QED BY <1>4, <2>1, <2>2 DEF HooksSound
<1>10. Owned'
  <2>1. phase' = "hook" => \A o \in open' : IsOf(hooks', o)
    BY <1>3, <1>6 DEF IsOf
  <2> QED BY <1>4, <2>1 DEF Owned
<1>11. Forsaken' /\ Scoping' /\ ReleaseSound'
  BY <1>4, <1>5 DEF StartupInv, Forsaken, Scoping, ReleaseSound
<1> QED BY <1>7, <1>8, <1>9, <1>10, <1>11 DEF StartupInv

LEMMA StartHookKeeps ==
  ASSUME StartupInv, StartHook
  PROVE  StartupInv'
<1>1. /\ phase = "hook" /\ next <= Len(hooks) /\ started' = Append(started, hooks[next])
      /\ open' = open \cup {hooks[next].of} /\ next' = next + 1
      /\ UNCHANGED <<regVars, diags, phase, searchVars, singletons, hooks, calls, stack,
                     useVars, released>>
  BY DEF StartHook
<1>2. /\ next \in Nat \ {0} /\ hooks \in Seq(Hook) /\ started \in Seq(Hook)
      /\ Len(started) = next - 1 /\ next \in DOMAIN hooks
      /\ open \subseteq Type \cup ComponentName /\ released = <<>>
      /\ \A i \in DOMAIN started : started[i] = hooks[i]
  BY <1>1 DEF StartupInv, StartupTypeOK, Untouched, HooksSound
<1>3. /\ started' \in Seq(Hook) /\ Len(started') = next
      /\ \A i \in DOMAIN started' : started'[i] = hooks[i]
  <2>1. hooks[next] \in Hook
    BY <1>2
  <2> QED BY <1>1, <1>2, <2>1
<1>4. hooks[next].of \in Type \cup ComponentName
  <2>1. hooks[next] \in Hook
    BY <1>2
  <2> QED BY <2>1 DEF Hook
<1> USE <1>1 DEF regVars, searchVars, useVars
<1>5. StartupTypeOK'
  BY <1>2, <1>3, <1>4 DEF StartupInv, StartupTypeOK, Phase
<1>6. Registered' /\ Untouched' /\ CallsNested'
  BY DEF StartupInv, Registered, Untouched, CallsNested
<1>7. SearchSound' /\ GraphValidated' /\ Building' /\ BuiltBefore'
  BY DEF StartupInv, SearchSound, DoneInOrder, CycleReal, GraphValidated, Accepted, Building,
         SingletonsClosed, CallsInOrder, InOrder, BuiltBefore, AllBuilt
<1>8. HooksSound'
  BY <1>2, <1>3 DEF StartupInv, HooksSound
<1>9. Owned' /\ Forsaken'
  BY <1>2 DEF StartupInv, Owned, IsOf, Forsaken
<1>10. Scoping' /\ ReleaseSound'
  BY <1>2 DEF StartupInv, Scoping, ReleaseSound
<1> QED BY <1>5, <1>6, <1>7, <1>8, <1>9, <1>10 DEF StartupInv

LEMMA StartHookFailsKeeps ==
  ASSUME StartupInv, StartHookFails
  PROVE  StartupInv'
<1>1. /\ phase = "hook" /\ next <= Len(hooks) /\ phase' = "unstart" /\ diags' = {"START_HOOK_FAILED"}
      /\ UNCHANGED <<regVars, searchVars, singletons, hooks, next, started, calls, stack,
                     useVars, holdVars>>
  BY DEF StartHookFails
<1>2. /\ next \in Nat \ {0} /\ hooks \in Seq(Hook) /\ started \in Seq(Hook)
      /\ Len(started) = next - 1 /\ DOMAIN started = 1..(next - 1)
      /\ \A i \in DOMAIN started : started[i] = hooks[i]
  BY <1>1 DEF StartupInv, StartupTypeOK, HooksSound
<1> USE <1>1 DEF regVars, searchVars, useVars, holdVars
<1>3. StartupTypeOK' /\ Registered' /\ Untouched' /\ CallsNested'
  BY DEF StartupInv, StartupTypeOK, Phase, Code, Registered, Untouched, CallsNested
<1>4. SearchSound' /\ GraphValidated' /\ Building' /\ BuiltBefore'
  BY DEF StartupInv, SearchSound, DoneInOrder, CycleReal, GraphValidated, Accepted, Building,
         SingletonsClosed, CallsInOrder, InOrder, BuiltBefore, AllBuilt
<1>5. HooksSound' /\ Owned' /\ Scoping' /\ ReleaseSound'
  BY <1>2 DEF StartupInv, HooksSound, Owned, Scoping, ReleaseSound
<1>6. \A i \in 1..(next - 1) : IsOf(started, hooks[i].of)
  BY <1>2 DEF IsOf
<1>7. Forsaken'
  BY <1>6 DEF Forsaken, IsOf
<1> QED BY <1>3, <1>4, <1>5, <1>7 DEF StartupInv

LEMMA StartedKeeps ==
  ASSUME StartupInv, Started
  PROVE  StartupInv'
<1>1. /\ phase = "hook" /\ ~(next <= Len(hooks)) /\ phase' = "running"
      /\ UNCHANGED <<regVars, diags, searchVars, singletons, hooks, next, started, calls, stack,
                     useVars, holdVars>>
  BY DEF Started, StartupInv, StartupTypeOK
<1>2. /\ next \in Nat \ {0} /\ Len(hooks) \in Nat /\ Len(started) = next - 1
      /\ Len(started) <= Len(hooks) /\ released = <<>>
  BY <1>1 DEF StartupInv, StartupTypeOK, HooksSound, Untouched
<1> USE <1>1 DEF regVars, searchVars, useVars, holdVars
<1>3. StartupTypeOK' /\ Registered' /\ Untouched' /\ CallsNested'
  BY DEF StartupInv, StartupTypeOK, Phase, Registered, Untouched, CallsNested
<1>4. SearchSound' /\ GraphValidated' /\ Building' /\ BuiltBefore'
  BY DEF StartupInv, SearchSound, DoneInOrder, CycleReal, GraphValidated, Accepted, Building,
         SingletonsClosed, CallsInOrder, InOrder, BuiltBefore, AllBuilt
<1>5. HooksSound' /\ Owned'
  BY <1>2 DEF StartupInv, HooksSound, Owned, IsOf
<1>6. Scoping' /\ ReleaseSound' /\ Forsaken'
  BY <1>2 DEF StartupInv, Scoping, ReleaseSound, Forsaken
<1> QED BY <1>3, <1>4, <1>5, <1>6 DEF StartupInv

(* runStopHooks stops from the end of the hooks that were started.         *)
LEMMA StopHookKeeps ==
  ASSUME StartupInv, StopHook
  PROVE  StartupInv'
<1> DEFINE h == Last(started)
<1>1. /\ phase \in {"unstart", "stopping"} /\ started # <<>> /\ started' = Front(started)
      /\ open' = open \ {h.of} /\ released' = Append(released, h.of) /\ order' = order
      /\ UNCHANGED <<regVars, diags, phase, searchVars, singletons, hooks, next, calls,
                     stack, useVars>>
  BY DEF StopHook, Stops, regVars
<1>2. /\ started \in Seq(Hook) /\ open \subseteq Type \cup ComponentName
      /\ released \in Seq(Type \cup ComponentName) /\ hooks \in Seq(Hook)
      /\ StartupTypeOK /\ Accepted /\ HooksSound /\ Owned /\ ReleaseSound /\ Forsaken
  BY <1>1 DEF StartupInv, StartupTypeOK, GraphValidated
<1>3. /\ Len(started) \in DOMAIN started /\ h \in Hook /\ h = started[Len(started)]
      /\ started' \in Seq(Hook) /\ Len(started') = Len(started) - 1 /\ Len(started) \in Nat
      /\ \A i \in DOMAIN started' : i \in DOMAIN started /\ i < Len(started) /\ started'[i] = started[i]
      /\ \A i \in DOMAIN started : i \in DOMAIN started' \/ i = Len(started)
  <2>1. /\ Len(started) \in Nat \ {0} /\ h \in Hook /\ h = started[Len(started)]
        /\ started' \in Seq(Hook) /\ Len(started') = Len(started) - 1
        /\ \A i \in 1..(Len(started) - 1) : started'[i] = started[i]
    BY <1>1, <1>2, FrontLast
  <2>2. DOMAIN started = 1..Len(started) /\ DOMAIN started' = 1..(Len(started) - 1)
    BY <1>2, <2>1
  <2> QED BY <2>1, <2>2
<1> HIDE DEF h
<1>4. \A o : IsOf(started, o) /\ o # h.of => IsOf(started', o)
  BY <1>3 DEF IsOf
<1>5. HooksSound'
  <2>1. Len(started) <= Len(hooks) /\ Len(hooks) \in Nat /\ \A i \in DOMAIN started : started[i] = hooks[i]
    BY <1>2 DEF HooksSound
  <2>2. Len(started') <= Len(hooks) /\ \A i \in DOMAIN started' : started'[i] = hooks[i]
    BY <1>3, <2>1
  <2> QED BY <1>1, <1>2, <2>2 DEF HooksSound
<1>6. Owned' /\ Forsaken'
  <2>1. Owned'
    <3> SUFFICES ASSUME NEW o \in open', phase = "stopping"
                 PROVE  IsOf(started', o) \/ (OfRequest(o) /\ request = "aborted")
      BY <1>1 DEF Owned, OfRequest, regVars, useVars
    <3> QED BY <1>1, <1>2, <1>4 DEF Owned
  <2>2. Forsaken'
    BY <1>1, <1>2, <1>4 DEF Forsaken
  <2> QED BY <2>1, <2>2
<1>7. ReleaseSound'
  <2> SUFFICES ASSUME phase = "stopping",
                      NEW i \in DOMAIN released', NEW t \in Types(order), t \in open',
                      released'[i] \in BelowIn(order, t) \ open',
                      ~(request = "aborted" /\ OfRequest(t))
               PROVE  FALSE
    BY <1>1 DEF ReleaseSound, OfRequest, useVars
  <2>1. IsOf(started', t)
    BY <1>1, <1>6 DEF Owned, OfRequest, regVars, useVars
  <2>2. PICK k \in DOMAIN started' : started'[k].of = t
    BY <2>1 DEF IsOf
  <2>3. h.of \notin BelowIn(order, t)
    <3>1. /\ k \in DOMAIN hooks /\ Len(started) \in DOMAIN hooks /\ k < Len(started)
          /\ hooks[k].of = t /\ hooks[Len(started)] = h
      <4>1. Len(started) <= Len(hooks) /\ Len(hooks) \in Nat /\ DOMAIN hooks = 1..Len(hooks)
        BY <1>2 DEF HooksSound
      <4>2. k \in DOMAIN started /\ k < Len(started) /\ started[k].of = t /\ DOMAIN started = 1..Len(started)
        BY <1>2, <1>3, <2>2
      <4>3. hooks[k].of = t /\ hooks[Len(started)] = h
        BY <1>2, <1>3, <4>2 DEF HooksSound
      <4> QED BY <1>3, <4>1, <4>2, <4>3
    <3> QED BY <1>2, <3>1 DEF HooksSound
  <2>4. CASE i \in DOMAIN released /\ released'[i] = released[i]
    <3>1. released[i] \in open
      BY <1>1, <1>2, <2>4 DEF ReleaseSound
    <3>2. released[i] = h.of
      BY <1>1, <2>4, <3>1
    <3> QED BY <2>3, <2>4, <3>2
  <2>5. CASE released'[i] = h.of
    BY <2>3, <2>5
  <2>6. (i \in DOMAIN released /\ released'[i] = released[i]) \/ released'[i] = h.of
    BY <1>1, <1>2
  <2> QED BY <2>4, <2>5, <2>6
<1>8. StartupTypeOK'
  <2>1. h.of \in Type \cup ComponentName
    BY <1>3 DEF Hook
  <2>2. open' \subseteq Type \cup ComponentName /\ released' \in Seq(Type \cup ComponentName)
    BY <1>1, <1>2, <2>1
  <2> QED BY <1>1, <1>2, <1>3, <2>2 DEF StartupTypeOK, regVars, searchVars, useVars, Phase
<1> USE <1>1 DEF regVars, searchVars, useVars
<1>9. Registered' /\ Untouched' /\ CallsNested'
  BY DEF StartupInv, Registered, Untouched, CallsNested
<1>10. SearchSound' /\ GraphValidated' /\ Building' /\ BuiltBefore'
  BY DEF StartupInv, SearchSound, DoneInOrder, CycleReal, GraphValidated, Accepted, Building,
         SingletonsClosed, CallsInOrder, InOrder, BuiltBefore, AllBuilt
<1>11. Scoping'
  BY DEF StartupInv, Untouched, Scoping
<1> QED BY <1>5, <1>6, <1>7, <1>8, <1>9, <1>10, <1>11 DEF StartupInv

LEMMA HooksStoppedKeeps ==
  ASSUME StartupInv, HooksStopped
  PROVE  StartupInv'
<1>1. /\ started = <<>>
      /\ \/ phase = "unstart" /\ phase' = "failed"
         \/ phase = "stopping" /\ phase' = "stopped"
      /\ UNCHANGED <<regVars, diags, searchVars, singletons, hooks, next, started, calls, stack,
                     useVars, holdVars>>
  BY DEF HooksStopped
<1> USE <1>1 DEF regVars, searchVars, useVars, holdVars
<1>2. StartupTypeOK' /\ Registered' /\ Untouched' /\ CallsNested'
  BY DEF StartupInv, StartupTypeOK, Phase, Registered, Untouched, CallsNested
<1>3. SearchSound' /\ GraphValidated' /\ Building' /\ BuiltBefore'
  BY DEF StartupInv, SearchSound, DoneInOrder, CycleReal, GraphValidated, Accepted, Building,
         SingletonsClosed, CallsInOrder, InOrder, BuiltBefore, AllBuilt
<1>4. HooksSound' /\ Owned' /\ Scoping' /\ ReleaseSound'
  BY DEF StartupInv, HooksSound, Owned, IsOf, OfRequest, Scoping, ReleaseSound
<1>5. phase = "unstart" => AllBuilt
  BY DEF StartupInv, BuiltBefore
<1>6. Forsaken'
  BY <1>5 DEF StartupInv, Forsaken, IsOf, AllBuilt
<1> QED BY <1>2, <1>3, <1>4, <1>6 DEF StartupInv

-----------------------------------------------------------------------------
(* A request.                                                              *)

LEMMA RequestBeginKeeps ==
  ASSUME StartupInv, RequestBegin
  PROVE  StartupInv'
<1> USE DEF RequestBegin, regVars, startVars, searchVars, useVars, holdVars
<1>1. StartupTypeOK' /\ Registered' /\ Untouched' /\ CallsNested'
  BY DEF StartupInv, StartupTypeOK, Phase, Registered, Untouched, CallsNested
<1>2. SearchSound' /\ GraphValidated' /\ Building' /\ BuiltBefore'
  BY DEF StartupInv, SearchSound, DoneInOrder, CycleReal, GraphValidated, Accepted, Building,
         SingletonsClosed, CallsInOrder, InOrder, BuiltBefore, AllBuilt
<1>3. HooksSound' /\ Forsaken' /\ ReleaseSound'
  BY DEF StartupInv, HooksSound, Forsaken, AllBuilt, ReleaseSound
<1>4. Owned'
  BY DEF StartupInv, Untouched, Owned, IsOf, OfRequest, Cleaned
<1>5. Scoping'
  BY DEF StartupInv, Untouched, Scoping, OfRequest
<1> QED BY <1>1, <1>2, <1>3, <1>4, <1>5 DEF StartupInv

LEMMA StopKeeps ==
  ASSUME StartupInv, Stop
  PROVE  StartupInv'
<1> USE DEF Stop, regVars, searchVars, useVars, holdVars
<1>1. StartupTypeOK' /\ Registered' /\ Untouched' /\ CallsNested'
  BY DEF StartupInv, StartupTypeOK, Phase, Registered, Untouched, CallsNested
<1>2. SearchSound' /\ GraphValidated' /\ Building' /\ BuiltBefore'
  BY DEF StartupInv, SearchSound, DoneInOrder, CycleReal, GraphValidated, Accepted, Building,
         SingletonsClosed, CallsInOrder, InOrder, BuiltBefore, AllBuilt
<1>3. HooksSound' /\ Forsaken' /\ ReleaseSound' /\ Scoping'
  <2>1. HooksSound' /\ Forsaken'
    BY DEF StartupInv, HooksSound, Forsaken, AllBuilt
  <2>2. ReleaseSound'
    BY DEF StartupInv, ReleaseSound, OfRequest
  <2>3. Scoping'
    BY DEF StartupInv, Scoping
  <2> QED BY <2>1, <2>2, <2>3
<1>4. \A o : IsOf(hooks, o) => IsOf(started, o)
  <2>1. Len(started) = Len(hooks) /\ started \in Seq(Hook) /\ hooks \in Seq(Hook)
        /\ \A i \in DOMAIN started : started[i] = hooks[i]
    BY DEF StartupInv, StartupTypeOK, HooksSound
  <2>2. DOMAIN started = DOMAIN hooks
    BY <2>1
  <2> QED BY <2>1, <2>2 DEF IsOf
<1>5. request \in {"none", "over", "aborted"} /\ cleanups = <<>>
  BY DEF StartupInv, StartupTypeOK, Untouched
<1>6. Owned'
  BY <1>4, <1>5 DEF StartupInv, Owned, IsOf, OfRequest, Cleaned
<1> QED BY <1>1, <1>2, <1>3, <1>6 DEF StartupInv

LEMMA ActivePhase ==
  ASSUME StartupInv, request \in {"active", "closing"}
  PROVE  /\ StartupTypeOK /\ CallsNested /\ Building /\ HooksSound /\ Owned /\ GraphValidated
         /\ Scoping /\ ReleaseSound /\ phase = "running" /\ Accepted /\ AllBuilt
         /\ OneEach(order) /\ Clean(order)
BY AcceptedGraph DEF StartupInv, GraphValidated, BuiltBefore, Untouched

(* What a request has is closed under dependencies.                        *)
LEMMA ScopedBelow ==
  ASSUME StartupInv, NEW x \in scoped
  PROVE  BelowIn(order, x) \subseteq singletons \cup scoped
<1> DEFINE S == singletons \cup scoped
<1>1. S \in SUBSET Type
  BY OneProvider, ProvOf DEF StartupInv, StartupTypeOK
<1>2. ClosedIn(order, S)
  BY DEF StartupInv, Building, SingletonsClosed, Scoping, ClosedIn
<1>3. x \in S
  OBVIOUS
<1> HIDE DEF S
<1>4. BelowIn(order, x) \subseteq S
  BY <1>1, <1>2, <1>3, BelowOfClosed
<1> QED BY <1>4 DEF S

LEMMA DepKeeps ==
  ASSUME StartupInv, NEW t \in Type, Dep(t)
  PROVE  StartupInv'
<1>1. /\ request = "active" /\ stack = <<>> /\ Enter(t) /\ order' = order
      /\ t \in Types(order) /\ t \notin singletons \cup scoped
      /\ UNCHANGED <<regVars, startVars, useVars, holdVars>>
  BY DEF Dep, Has, regVars
<1>2. /\ CallsNested' /\ stack' \in Seq(Types(order))
      /\ \A i \in DOMAIN stack' : stack'[i] = IF i \in DOMAIN stack THEN stack[i] ELSE t
  <2>1. t \notin Range(stack)
    BY <1>1 DEF Range
  <2> QED BY <1>1, <2>1, ActivePhase, EnterNested
<1> USE <1>1, ActivePhase DEF regVars, startVars, searchVars, useVars, holdVars
<1>3. StartupTypeOK' /\ Registered' /\ Untouched'
  BY <1>2 DEF StartupInv, StartupTypeOK, Registered, Untouched, Phase
<1>4. SearchSound' /\ GraphValidated' /\ BuiltBefore' /\ Building'
  BY DEF StartupInv, SearchSound, DoneInOrder, CycleReal, GraphValidated, Accepted, BuiltBefore,
         AllBuilt, Building, SingletonsClosed, CallsInOrder, InOrder
<1>5. HooksSound' /\ Owned' /\ Forsaken' /\ ReleaseSound'
  BY DEF StartupInv, HooksSound, Owned, IsOf, OfRequest, Cleaned, Forsaken, ReleaseSound
<1>6. Scoping'
  BY <1>2 DEF Scoping, OfRequest
<1> QED BY <1>2, <1>3, <1>4, <1>5, <1>6 DEF StartupInv

LEMMA ResolveForKeeps ==
  ASSUME StartupInv, ResolveFor
  PROVE  StartupInv'
<1> DEFINE t == FirstLeft(Has)
<1>1. /\ request = "active" /\ stack # <<>> /\ Left(Has) # {} /\ Enter(t) /\ order' = order
      /\ UNCHANGED <<regVars, startVars, useVars, holdVars>>
  BY DEF ResolveFor, regVars
<1>2. t \in DepsOf(order, Last(stack)) /\ t \notin Has
  <2>1. RequestPtr \in Has
    BY DEF Has
  <2> QED BY <1>1, <2>1, ActivePhase, FirstOfInner
<1>3. t \notin singletons \cup scoped /\ t \in Types(order) /\ t \notin Range(stack)
  BY <1>1, <1>2, ActivePhase, NotOnStack DEF Has
<1> HIDE DEF t
<1>4. /\ CallsNested' /\ stack' \in Seq(Types(order))
      /\ \A i \in DOMAIN stack' : stack'[i] = IF i \in DOMAIN stack THEN stack[i] ELSE t
  BY <1>1, <1>2, <1>3, ActivePhase, EnterNested
<1> USE <1>1, ActivePhase DEF regVars, startVars, searchVars, useVars, holdVars
<1>5. StartupTypeOK' /\ Registered' /\ Untouched'
  BY <1>4 DEF StartupInv, StartupTypeOK, Registered, Untouched, Phase
<1>6. SearchSound' /\ GraphValidated' /\ BuiltBefore' /\ Building'
  BY DEF StartupInv, SearchSound, DoneInOrder, CycleReal, GraphValidated, Accepted, BuiltBefore,
         AllBuilt, Building, SingletonsClosed, CallsInOrder, InOrder
<1>7. HooksSound' /\ Owned' /\ Forsaken' /\ ReleaseSound'
  BY DEF StartupInv, HooksSound, Owned, IsOf, OfRequest, Cleaned, Forsaken, ReleaseSound
<1>8. Scoping'
  BY <1>3, <1>4 DEF Scoping, OfRequest
<1> QED BY <1>4, <1>5, <1>6, <1>7, <1>8 DEF StartupInv

(* What resolve constructs is of the request, and after what it needs.     *)
LEMMA ResolvedType ==
  ASSUME StartupInv, request = "active", stack # <<>>, NEW t, t = Last(stack), Left(Has) = {}
  PROVE  /\ t \in Types(order) /\ t \in Type /\ t \notin singletons \cup scoped
         /\ ProviderOf(t) = Prov(order, t) /\ Prov(order, t).out = t
         /\ Prov(order, t).scope = "request" /\ OfRequest(t)
         /\ DepsOf(order, t) \subseteq singletons \cup scoped
         /\ \A d \in DepsOf(order, t) :
              Prov(order, d).supplied \/ \E j \in DOMAIN calls : calls[j] = d
<1>1. /\ t \in Types(order) /\ Len(stack) \in DOMAIN stack /\ t = stack[Len(stack)]
      /\ DepsOf(order, t) \subseteq Has
  <2>1. RequestPtr \in Has
    BY DEF Has
  <2> QED BY <2>1, ActivePhase, FirstOfInner
<1>2. t \notin singletons \cup scoped
  BY <1>1, ActivePhase DEF Scoping
<1>3. Prov(order, t).scope = "request" /\ Prov(order, t).out = t /\ t \in Type
  BY <1>1, <1>2, ActivePhase, AcceptedGraph DEF AllBuilt
<1>4. DepsOf(order, t) \subseteq singletons \cup scoped
  BY <1>1, DepsTyped, StartupAssumption DEF Has
<1>5. \A d \in DepsOf(order, t) :
        Prov(order, d).supplied \/ \E j \in DOMAIN calls : calls[j] = d
  BY <1>4, ActivePhase DEF Building, SingletonsClosed, Scoping
<1> QED BY <1>1, <1>2, <1>3, <1>4, <1>5, InModel DEF OfRequest

LEMMA ResolveKeeps ==
  ASSUME StartupInv, Resolve
  PROVE  StartupInv'
<1> DEFINE t == Last(stack)
           p == Prov(order, t)
<1>1. /\ request = "active" /\ stack # <<>> /\ Left(Has) = {} /\ Leave /\ order' = order
      /\ calls' = Append(calls, t) /\ Keep(t)
      /\ UNCHANGED <<regVars, diags, phase, searchVars, singletons, hooks, next, started,
                     request, released>>
  BY DEF Resolve, regVars
<1>2. /\ t \in Types(order) /\ t \in Type /\ t \notin singletons \cup scoped
      /\ ProviderOf(t) = p /\ p.out = t /\ p.scope = "request" /\ OfRequest(t)
      /\ DepsOf(order, t) \subseteq singletons \cup scoped
      /\ \A d \in DepsOf(order, t) :
           Prov(order, d).supplied \/ \E j \in DOMAIN calls : calls[j] = d
  BY <1>1, ResolvedType
<1>3. /\ scoped' = scoped \cup {t}
      /\ \/ p.kind = "closer" /\ open' = open \cup {t} /\ cleanups' = Append(cleanups, t)
         \/ p.kind # "closer" /\ open' = open /\ cleanups' = cleanups
  BY <1>1, <1>2 DEF Keep, Holds
<1>4. /\ CallsNested' /\ stack' \in Seq(Types(order))
      /\ \A i \in DOMAIN stack' : i \in DOMAIN stack /\ stack'[i] = stack[i] /\ stack'[i] # t
  BY <1>1, ActivePhase, LeaveNested
<1> HIDE DEF t
<1>5. /\ StartupTypeOK /\ Building /\ Owned /\ Scoping /\ HooksSound /\ phase = "running"
      /\ Accepted /\ AllBuilt
      /\ calls \in Seq(Types(order)) /\ cleanups \in Seq(Types(order)) /\ InOrder(order, calls)
  BY <1>1, ActivePhase DEF StartupTypeOK, Building, CallsInOrder
<1>6. InOrder(order, calls')
  BY <1>1, <1>2, <1>5, CallAppended
<1>7. /\ calls' \in Seq(Types(order)) /\ Len(calls) + 1 \in DOMAIN calls'
      /\ calls'[Len(calls) + 1] = t
      /\ \A i \in DOMAIN calls : i \in DOMAIN calls' /\ calls'[i] = calls[i]
      /\ \A i \in DOMAIN calls' : i \in DOMAIN calls \/ calls'[i] = t
  <2>1. calls' = Append(calls, t)
    BY <1>1
  <2> QED BY <1>2, <1>5, <2>1
<1>8. /\ cleanups' \in Seq(Types(order))
      /\ \A i \in DOMAIN cleanups : i \in DOMAIN cleanups' /\ cleanups'[i] = cleanups[i]
      /\ \/ cleanups' = cleanups
         \/ /\ p.kind = "closer" /\ Len(cleanups) + 1 \in DOMAIN cleanups'
            /\ cleanups'[Len(cleanups) + 1] = t
            /\ \A i \in DOMAIN cleanups' : i \in DOMAIN cleanups \/ (i = Len(cleanups) + 1 /\ cleanups'[i] = t)
  <2>1. CASE cleanups' = cleanups
    BY <1>5, <2>1
  <2>2. CASE p.kind = "closer" /\ cleanups' = Append(cleanups, t)
    BY <1>2, <1>5, <2>2
  <2> QED BY <1>3, <2>1, <2>2
<1>9. StartupTypeOK'
  <2>1. scoped' \subseteq Types(order) /\ open' \subseteq Type \cup ComponentName
    BY <1>2, <1>3, <1>5 DEF StartupTypeOK
  <2> QED BY <1>1, <1>4, <1>5, <1>7, <1>8, <2>1 DEF StartupTypeOK, Phase, regVars, searchVars
<1>10. Building'
  <2>1. SingletonsClosed'
    BY <1>1, <1>5, <1>7 DEF Building, SingletonsClosed
  <2>2. \A i, j \in DOMAIN calls' : calls'[i] \in singletons /\ calls'[j] = calls'[i] => j = i
    BY <1>2, <1>5, <1>7 DEF Building, CallsInOrder
  <2> QED BY <1>1, <1>5, <1>6, <2>1, <2>2 DEF Building, CallsInOrder
<1>11. Scoping'
  <2>1. \A d \in scoped' : /\ Prov(order, d).scope = "request"
                           /\ DepsOf(order, d) \subseteq singletons \cup scoped'
                           /\ \E j \in DOMAIN calls' : calls'[j] = d
                           /\ Prov(order, d).kind = "closer" => d \in open'
    <3> SUFFICES ASSUME NEW d \in scoped'
                 PROVE  /\ Prov(order, d).scope = "request"
                        /\ DepsOf(order, d) \subseteq singletons \cup scoped'
                        /\ \E j \in DOMAIN calls' : calls'[j] = d
                        /\ Prov(order, d).kind = "closer" => d \in open'
      OBVIOUS
    <3>1. CASE d = t
      BY <1>2, <1>3, <1>7, <3>1
    <3>2. CASE d \in scoped
      BY <1>1, <1>3, <1>5, <1>7, <3>2 DEF Scoping
    <3> QED BY <1>3, <3>1, <3>2
  <2>2. \A i \in DOMAIN cleanups' :
          cleanups'[i] \in scoped' /\ Prov(order, cleanups'[i]).kind = "closer"
    BY <1>3, <1>5, <1>8 DEF Scoping, p
  <2>3. \A i, j \in DOMAIN cleanups' : i < j => cleanups'[j] \notin BelowIn(order, cleanups'[i])
    <3>1. CASE cleanups' = cleanups
      BY <1>5, <3>1 DEF Scoping
    <3>2. CASE cleanups' # cleanups
      <4>1. \A i \in DOMAIN cleanups : t \notin BelowIn(order, cleanups[i])
        BY <1>2, <1>5, ScopedBelow DEF Scoping
      <4>2. Len(cleanups) \in Nat /\ DOMAIN cleanups = 1..Len(cleanups)
            /\ DOMAIN cleanups' = 1..(Len(cleanups) + 1)
        BY <1>2, <1>3, <1>5, <3>2
      <4> SUFFICES ASSUME NEW i \in DOMAIN cleanups', NEW j \in DOMAIN cleanups', i < j
                   PROVE  cleanups'[j] \notin BelowIn(order, cleanups'[i])
        OBVIOUS
      <4>3. i \in DOMAIN cleanups /\ cleanups'[i] = cleanups[i]
        BY <1>8, <4>2
      <4>4. CASE j \in DOMAIN cleanups
        BY <1>5, <1>8, <4>3, <4>4 DEF Scoping
      <4>5. CASE cleanups'[j] = t
        BY <4>1, <4>3, <4>5
      <4> QED BY <1>8, <3>2, <4>4, <4>5
    <3> QED BY <3>1, <3>2
  <2>4. \A i \in DOMAIN stack' : stack'[i] \notin singletons \cup scoped'
    BY <1>1, <1>3, <1>4, <1>5 DEF Scoping
  <2>5. \A i \in DOMAIN released :
          OfRequest(released[i]) /\ Prov(order, released[i]).kind = "closer"
    BY <1>5 DEF Scoping
  <2> QED BY <1>1, <1>5, <2>1, <2>2, <2>3, <2>4, <2>5 DEF Scoping, OfRequest
<1>12. Owned'
  <2> SUFFICES ASSUME NEW o \in open'
               PROVE  IsOf(hooks, o) \/ (OfRequest(o) /\ \E i \in DOMAIN cleanups' : cleanups'[i] = o)
    BY <1>1, <1>5 DEF Owned, IsOf, OfRequest, Cleaned
  <2>1. CASE o \in open
    BY <1>1, <1>5, <1>8, <2>1 DEF Owned, Cleaned
  <2>2. CASE o \notin open
    <3>1. o = t /\ cleanups' = Append(cleanups, t)
      BY <1>3, <2>2
    <3>2. \E i \in DOMAIN cleanups' : cleanups'[i] = t
      BY <1>2, <1>5, <3>1
    <3> QED BY <1>2, <3>1, <3>2
  <2> QED BY <2>1, <2>2
<1>13. ReleaseSound'
  <2> SUFFICES ASSUME NEW i \in DOMAIN released, NEW u \in Types(order), u \in open',
                      released[i] \in BelowIn(order, u) \ open'
               PROVE  FALSE
    BY <1>1 DEF ReleaseSound
  <2>1. /\ Prov(order, released[i]).scope = "request" /\ Prov(order, released[i]).kind = "closer"
    BY <1>5 DEF Scoping, OfRequest
  <2>2. released[i] \in singletons \/ released[i] \in scoped
    <3>1. CASE IsOf(hooks, u)
      <4>1. u \in Type /\ u \notin ComponentName
        BY <1>1, ActivePhase, AcceptedGraph, StartupAssumption
      <4>2. u \in singletons
        BY <1>5, <3>1, <4>1 DEF HooksSound, IsOf
      <4> QED BY <4>2, SingletonsBelow
    <3>2. CASE u \in scoped
      BY <3>2, ScopedBelow
    <3>3. CASE u = t
      <4>1. PICK S \in SUBSET Type : S = singletons \cup scoped
        BY <1>5, <1>1, ActivePhase, AcceptedGraph DEF StartupTypeOK
      <4>2. ClosedIn(order, S)
        BY <4>1, <1>5 DEF Building, SingletonsClosed, Scoping, ClosedIn
      <4>3. BelowIn(order, t) \subseteq S
        BY <1>2, <4>1, <4>2, BelowLeast
      <4> QED BY <3>3, <4>1, <4>3
    <3>4. \A k \in DOMAIN cleanups' : cleanups'[k] \in scoped \/ cleanups'[k] = t
      BY <1>5, <1>8 DEF Scoping
    <3> QED BY <1>1, <1>5, <1>12, <3>1, <3>2, <3>3, <3>4 DEF Owned, IsOf, Cleaned
  <2>3. released[i] \in scoped
    BY <1>5, <2>1, <2>2 DEF Building, SingletonsClosed
  <2>4. released[i] \in open
    BY <1>1, <1>5, <2>1, <2>3 DEF Scoping
  <2> QED BY <1>3, <2>4
<1> USE <1>1, <1>5 DEF regVars, searchVars
<1>14. Registered' /\ Untouched'
  BY DEF StartupInv, Registered, Untouched
<1>15. SearchSound' /\ GraphValidated' /\ BuiltBefore'
  BY DEF StartupInv, SearchSound, DoneInOrder, CycleReal, GraphValidated, Accepted, BuiltBefore, AllBuilt
<1>16. HooksSound' /\ Forsaken'
  BY DEF HooksSound, Forsaken
<1> QED BY <1>4, <1>9, <1>10, <1>11, <1>12, <1>13, <1>14, <1>15, <1>16 DEF StartupInv

LEMMA ResolveFailsKeeps ==
  ASSUME StartupInv, ResolveFails
  PROVE  StartupInv'
<1> DEFINE t == Last(stack)
<1>1. /\ request = "active" /\ stack # <<>> /\ Left(Has) = {} /\ stack' = <<>> /\ order' = order
      /\ calls' = Append(calls, t)
      /\ UNCHANGED <<regVars, diags, phase, searchVars, singletons, hooks, next, started,
                     useVars, holdVars>>
  BY DEF ResolveFails, regVars
<1>2. /\ t \in Types(order) /\ t \notin singletons \cup scoped
      /\ \A d \in DepsOf(order, t) :
           Prov(order, d).supplied \/ \E j \in DOMAIN calls : calls[j] = d
  BY <1>1, ResolvedType
<1> HIDE DEF t
<1>3. /\ StartupTypeOK /\ Building /\ Scoping /\ phase = "running" /\ Accepted
      /\ calls \in Seq(Types(order)) /\ InOrder(order, calls)
  BY <1>1, ActivePhase DEF StartupTypeOK, Building, CallsInOrder
<1>4. InOrder(order, calls')
  BY <1>1, <1>2, <1>3, CallAppended
<1>5. /\ calls' \in Seq(Types(order))
      /\ \A i \in DOMAIN calls : i \in DOMAIN calls' /\ calls'[i] = calls[i]
      /\ \A i \in DOMAIN calls' : i \in DOMAIN calls \/ calls'[i] = t
  <2>1. calls' = Append(calls, t)
    BY <1>1
  <2> QED BY <1>2, <1>3, <2>1
<1>6. Building'
  <2>1. SingletonsClosed'
    BY <1>1, <1>3, <1>5 DEF Building, SingletonsClosed
  <2>2. \A i, j \in DOMAIN calls' : calls'[i] \in singletons /\ calls'[j] = calls'[i] => j = i
    BY <1>2, <1>3, <1>5 DEF Building, CallsInOrder
  <2> QED BY <1>1, <1>3, <1>4, <2>1, <2>2 DEF Building, CallsInOrder
<1> USE <1>1, <1>3 DEF regVars, searchVars, useVars, holdVars
<1>7. StartupTypeOK'
  BY <1>5 DEF StartupTypeOK, Phase
<1>8. Scoping'
  BY <1>5 DEF Scoping, OfRequest
<1>9. Registered' /\ Untouched' /\ CallsNested'
  BY DEF StartupInv, Registered, Untouched, CallsNested
<1>10. SearchSound' /\ GraphValidated' /\ BuiltBefore'
  BY DEF StartupInv, SearchSound, DoneInOrder, CycleReal, GraphValidated, Accepted, BuiltBefore, AllBuilt
<1>11. HooksSound' /\ Owned' /\ Forsaken' /\ ReleaseSound'
  BY DEF StartupInv, HooksSound, Owned, IsOf, OfRequest, Cleaned, Forsaken, ReleaseSound
<1> QED BY <1>6, <1>7, <1>8, <1>9, <1>10, <1>11 DEF StartupInv

LEMMA RequestDoneKeeps ==
  ASSUME StartupInv, RequestDone
  PROVE  StartupInv'
<1>1. /\ request = "active" /\ stack = <<>> /\ cleanups' = cleanups
      /\ \/ cleanups = <<>> /\ request' = "over" /\ scoped' = {}
         \/ cleanups # <<>> /\ request' = "closing" /\ scoped' = scoped
      /\ UNCHANGED <<regVars, startVars, stack, holdVars>>
  BY DEF RequestDone, Finishes
<1> USE <1>1, ActivePhase DEF regVars, startVars, searchVars, holdVars
<1>2. StartupTypeOK' /\ Registered' /\ Untouched' /\ CallsNested'
  BY DEF StartupInv, StartupTypeOK, Phase, Registered, Untouched, CallsNested
<1>3. SearchSound' /\ GraphValidated' /\ Building' /\ BuiltBefore'
  BY DEF StartupInv, SearchSound, DoneInOrder, CycleReal, GraphValidated, Accepted, Building,
         SingletonsClosed, CallsInOrder, InOrder, BuiltBefore, AllBuilt
<1>4. HooksSound' /\ Owned' /\ Forsaken' /\ ReleaseSound'
  BY DEF StartupInv, HooksSound, Owned, IsOf, OfRequest, Cleaned, Forsaken, ReleaseSound
<1>5. Scoping'
  BY DEF Scoping, OfRequest
<1> QED BY <1>2, <1>3, <1>4, <1>5 DEF StartupInv

(* What is above a scoped value was resolved after it, and closed before.  *)
LEMMA CloseScopedKeeps ==
  ASSUME StartupInv, CloseScoped
  PROVE  StartupInv'
<1> DEFINE t == Last(cleanups)
<1>1. /\ request = "closing" /\ cleanups' = Front(cleanups) /\ order' = order
      /\ \/ cleanups' = <<>> /\ request' = "over" /\ scoped' = {}
         \/ cleanups' # <<>> /\ request' = "closing" /\ scoped' = scoped
      /\ open' = open \ {t} /\ released' = Append(released, t)
      /\ UNCHANGED <<regVars, startVars, stack>>
  BY DEF CloseScoped, Finishes, Stops, regVars
<1>2. /\ StartupTypeOK /\ Building /\ HooksSound /\ Owned /\ Scoping /\ ReleaseSound
      /\ phase = "running" /\ Accepted /\ AllBuilt
      /\ cleanups \in Seq(Types(order)) /\ cleanups # <<>> /\ open \subseteq Type \cup ComponentName
      /\ released \in Seq(Type \cup ComponentName)
  BY <1>1, ActivePhase DEF StartupTypeOK, StartupInv, Untouched
<1>3. /\ Len(cleanups) \in DOMAIN cleanups /\ t \in Types(order) /\ t = cleanups[Len(cleanups)]
      /\ cleanups' \in Seq(Types(order))
      /\ \A i \in DOMAIN cleanups' :
           i \in DOMAIN cleanups /\ i < Len(cleanups) /\ cleanups'[i] = cleanups[i]
      /\ \A i \in DOMAIN cleanups : i \in DOMAIN cleanups' \/ i = Len(cleanups)
  <2>1. /\ Len(cleanups) \in Nat \ {0} /\ t \in Types(order) /\ t = cleanups[Len(cleanups)]
        /\ cleanups' \in Seq(Types(order)) /\ Len(cleanups') = Len(cleanups) - 1
        /\ \A i \in 1..(Len(cleanups) - 1) : cleanups'[i] = cleanups[i]
    BY <1>1, <1>2, FrontLast
  <2>2. DOMAIN cleanups = 1..Len(cleanups) /\ DOMAIN cleanups' = 1..(Len(cleanups) - 1)
    BY <1>2, <2>1
  <2> QED BY <2>1, <2>2
<1> HIDE DEF t
<1>4. t \in Type /\ t \in scoped /\ OfRequest(t) /\ Prov(order, t).kind = "closer"
  BY <1>1, <1>2, <1>3, ActivePhase, AcceptedGraph DEF Scoping, OfRequest
<1>5. \A i \in DOMAIN released' : (i \in DOMAIN released /\ released'[i] = released[i]) \/ released'[i] = t
  BY <1>1, <1>2
<1>6. Owned'
  <2> SUFFICES ASSUME NEW o \in open'
               PROVE  IsOf(hooks, o) \/ (OfRequest(o) /\ \E i \in DOMAIN cleanups' : cleanups'[i] = o)
    BY <1>1, <1>2 DEF Owned, IsOf, OfRequest, Cleaned, startVars
  <2>1. o \in open /\ o # t
    BY <1>1
  <2> QED BY <1>1, <1>2, <1>3, <2>1 DEF Owned, Cleaned
<1>7. ReleaseSound'
  <2> SUFFICES ASSUME NEW i \in DOMAIN released', NEW u \in Types(order), u \in open',
                      released'[i] \in BelowIn(order, u) \ open'
               PROVE  FALSE
    BY <1>1 DEF ReleaseSound
  <2>1. t \notin BelowIn(order, u)
    <3>1. CASE IsOf(hooks, u)
      <4>1. u \in Type /\ u \notin ComponentName
        BY <1>1, ActivePhase, AcceptedGraph, StartupAssumption
      <4>2. u \in singletons
        BY <1>2, <3>1, <4>1 DEF HooksSound, IsOf
      <4>3. t \notin singletons
        BY <1>2, <1>4 DEF Building, SingletonsClosed, OfRequest
      <4> QED BY <4>2, <4>3, SingletonsBelow
    <3>2. ASSUME NEW k \in DOMAIN cleanups', cleanups'[k] = u
          PROVE  t \notin BelowIn(order, u)
      BY <1>2, <1>3, <3>2 DEF Scoping
    <3> QED BY <1>1, <1>2, <1>6, <3>1, <3>2 DEF Owned, IsOf, Cleaned, startVars
  <2>2. released'[i] # t
    BY <2>1
  <2>3. i \in DOMAIN released /\ released[i] = released'[i]
    BY <1>5, <2>2
  <2>4. released[i] \in open
    BY <1>1, <1>2, <2>3 DEF ReleaseSound
  <2> QED BY <1>1, <2>2, <2>3, <2>4
<1>8. StartupTypeOK'
  <2>1. open' \subseteq Type \cup ComponentName /\ released' \in Seq(Type \cup ComponentName)
    BY <1>1, <1>2, <1>4
  <2> QED BY <1>1, <1>2, <1>3, <2>1 DEF StartupTypeOK, Phase, regVars, startVars, searchVars
<1>9. Scoping'
  <2>1. \A i \in DOMAIN released' :
          OfRequest(released'[i]) /\ Prov(order, released'[i]).kind = "closer"
    BY <1>2, <1>4, <1>5 DEF Scoping
  <2>2. \A i \in DOMAIN cleanups' : Prov(order, cleanups'[i]).kind = "closer" /\ cleanups'[i] \in scoped
    BY <1>2, <1>3 DEF Scoping
  <2>3. \A i, j \in DOMAIN cleanups' : i < j => cleanups'[j] \notin BelowIn(order, cleanups'[i])
    BY <1>2, <1>3 DEF Scoping
  <2>4. cleanups' = <<>> => DOMAIN cleanups' = {}
    OBVIOUS
  <2>5. /\ request' # "active"
        /\ \A d \in scoped' : /\ Prov(order, d).scope = "request"
                              /\ DepsOf(order, d) \subseteq singletons \cup scoped'
                              /\ \E j \in DOMAIN calls : calls[j] = d
    BY <1>1, <1>2 DEF Scoping
  <2> QED BY <1>1, <1>2, <2>1, <2>2, <2>3, <2>4, <2>5 DEF Scoping, OfRequest, startVars
<1> USE <1>1, <1>2 DEF regVars, startVars, searchVars
<1>10. Registered' /\ Untouched' /\ CallsNested'
  BY DEF StartupInv, Registered, Untouched, CallsNested
<1>11. SearchSound' /\ GraphValidated' /\ Building' /\ BuiltBefore'
  BY DEF StartupInv, SearchSound, DoneInOrder, CycleReal, GraphValidated, Accepted, Building,
         SingletonsClosed, CallsInOrder, InOrder, BuiltBefore, AllBuilt
<1>12. HooksSound' /\ Forsaken'
  BY DEF StartupInv, HooksSound, Forsaken
<1> QED BY <1>6, <1>7, <1>8, <1>9, <1>10, <1>11, <1>12 DEF StartupInv

LEMMA RequestAbortedKeeps ==
  ASSUME StartupInv, RequestAborted
  PROVE  StartupInv'
<1> USE ActivePhase DEF RequestAborted, regVars, startVars, searchVars, holdVars
<1>1. StartupTypeOK' /\ Registered' /\ Untouched' /\ CallsNested'
  BY DEF StartupInv, StartupTypeOK, Phase, Registered, Untouched, CallsNested
<1>2. SearchSound' /\ GraphValidated' /\ Building' /\ BuiltBefore'
  BY DEF StartupInv, SearchSound, DoneInOrder, CycleReal, GraphValidated, Accepted, Building,
         SingletonsClosed, CallsInOrder, InOrder, BuiltBefore, AllBuilt
<1>3. HooksSound' /\ Owned' /\ Forsaken' /\ ReleaseSound'
  BY DEF StartupInv, HooksSound, Owned, IsOf, OfRequest, Cleaned, Forsaken, ReleaseSound
<1>4. Scoping'
  BY DEF Scoping, OfRequest
<1> QED BY <1>1, <1>2, <1>3, <1>4 DEF StartupInv

-----------------------------------------------------------------------------
(* The invariant, and what it gives.                                       *)

LEMMA StartupInitInv ==
  ASSUME StartupInit
  PROVE  StartupInv
<1>1. /\ plan \in Seq(Provider) /\ infra \in Seq(Component) /\ \A i \in DOMAIN plan : Okay(plan[i])
  BY StartupAssumption DEF StartupInit, Okay
<1> USE DEF StartupInit
<1>2. StartupTypeOK
  <2>1. order \in Seq(Provider) /\ \A i, j \in DOMAIN order : order[i].out = order[j].out => i = j
    OBVIOUS
  <2>2. appHooks \in Seq(Hook) /\ hooks \in Seq(Hook) /\ started \in Seq(Hook)
    OBVIOUS
  <2>3. /\ stack \in Seq(Types(order)) /\ done \in Seq(Types(order)) /\ cycle \in Seq(Types(order))
        /\ calls \in Seq(Types(order)) /\ cleanups \in Seq(Types(order))
        /\ released \in Seq(Type \cup ComponentName)
    OBVIOUS
  <2>4. /\ checks \subseteq ComponentName /\ diags \subseteq Code /\ jobs \in BOOLEAN
        /\ singletons \subseteq Types(order) /\ scoped \subseteq Types(order)
        /\ open \subseteq Type \cup ComponentName
    OBVIOUS
  <2>5. phase \in Phase /\ request \in {"none", "active", "closing", "over", "aborted"}
    BY DEF Phase
  <2>6. next \in Nat \ {0}
    OBVIOUS
  <2> QED BY ONLY <1>1, <2>1, <2>2, <2>3, <2>4, <2>5, <2>6 DEF StartupTypeOK
<1>3. Registered /\ Untouched /\ CallsNested
  BY <1>1 DEF Registered, Untouched, CallsNested
<1>4. SearchSound /\ GraphValidated /\ Building /\ BuiltBefore
  BY DEF SearchSound, DoneInOrder, GraphValidated, Building, SingletonsClosed, CallsInOrder, InOrder,
         BuiltBefore
<1>5. HooksSound /\ Owned /\ Forsaken
  BY DEF HooksSound, Owned, Forsaken
<1>6. Scoping /\ ReleaseSound
  BY DEF Scoping, ReleaseSound
<1> QED BY <1>2, <1>3, <1>4, <1>5, <1>6 DEF StartupInv

LEMMA StartupStutters ==
  ASSUME StartupInv, UNCHANGED startupVars
  PROVE  StartupInv'
<1> USE DEF startupVars, regVars, startVars, searchVars, useVars, holdVars
<1>1. StartupTypeOK' /\ Registered' /\ Untouched' /\ CallsNested'
  BY DEF StartupInv, StartupTypeOK, Registered, Untouched, CallsNested
<1>2. SearchSound' /\ GraphValidated' /\ Building' /\ BuiltBefore'
  BY DEF StartupInv, SearchSound, DoneInOrder, CycleReal, GraphValidated, Accepted, Building,
         SingletonsClosed, CallsInOrder, InOrder, BuiltBefore, AllBuilt
<1>3. HooksSound' /\ Owned' /\ Forsaken' /\ ReleaseSound'
  BY DEF StartupInv, HooksSound, Owned, IsOf, OfRequest, Cleaned, Forsaken, AllBuilt, ReleaseSound
<1>4. Scoping'
  BY DEF StartupInv, Scoping, OfRequest
<1> QED BY <1>1, <1>2, <1>3, <1>4 DEF StartupInv

LEMMA StartupStep ==
  ASSUME StartupInv, [StartupNext]_startupVars
  PROVE  StartupInv'
<1>1. CASE Provide \/ AddComponent \/ \E found \in SUBSET Code : Report(found) \/ Begin(found)
  BY <1>1, ProvideKeeps, AddComponentKeeps, ReportKeeps, BeginKeeps
<1>2. CASE ValidateGraph \/ Visit \/ Visited \/ SearchEnds
  BY <1>2, ValidateGraphKeeps, VisitKeeps, VisitedKeeps, SearchEndsKeeps
<1>3. CASE BuildFor \/ Construct \/ ConstructFails \/ CloseBuilt \/ Undone \/ InvokeAndFreeze
  BY <1>3, BuildForKeeps, ConstructKeeps, ConstructFailsKeeps, CloseBuiltKeeps, UndoneKeeps,
     InvokeAndFreezeKeeps
<1>4. CASE StartHook \/ StartHookFails \/ Started \/ StopHook \/ HooksStopped
  BY <1>4, StartHookKeeps, StartHookFailsKeeps, StartedKeeps, StopHookKeeps, HooksStoppedKeeps
<1>5. CASE RequestBegin \/ (\E t \in Type : Dep(t)) \/ ResolveFor \/ Resolve \/ ResolveFails
  BY <1>5, RequestBeginKeeps, DepKeeps, ResolveForKeeps, ResolveKeeps, ResolveFailsKeeps
<1>6. CASE RequestDone \/ CloseScoped \/ RequestAborted \/ Stop
  BY <1>6, RequestDoneKeeps, CloseScopedKeeps, RequestAbortedKeeps, StopKeeps
<1>7. CASE Ended \/ UNCHANGED startupVars
  BY <1>7, StartupStutters DEF Ended
<1> QED BY <1>1, <1>2, <1>3, <1>4, <1>5, <1>6, <1>7 DEF StartupNext

LEMMA StartupInvariant == StartupSpec => []StartupInv
<1>1. StartupInit => StartupInv
  BY StartupInitInv
<1>2. StartupInv /\ [StartupNext]_startupVars => StartupInv'
  BY StartupStep
<1> QED BY <1>1, <1>2, PTL DEF StartupSpec

LEMMA GraphIsSound ==
  ASSUME StartupInv
  PROVE  GraphSound
<1>1. cycle # <<>> =>
        /\ Len(cycle) > 1 /\ cycle[1] = cycle[Len(cycle)]
        /\ \A i \in 1..(Len(cycle) - 1) : cycle[i + 1] \in Deps(cycle[i])
  BY InModel DEF StartupInv, SearchSound, CycleReal
<1>2. ASSUME Types(order) \subseteq Range(done), NEW t \in Types(order)
      PROVE  t \notin Below(t)
  <2>1. OneEach(order) /\ done \in Seq(Types(order)) /\ DoneOrder(order, done)
    BY OneProvider DEF StartupInv, StartupTypeOK, SearchSound, DoneInOrder, DoneOrder
  <2>2. PICK i \in DOMAIN done : done[i] = t
    BY <1>2 DEF Range
  <2>3. done[i] \notin BelowIn(order, done[i])
    BY <2>1, Acyclic
  <2> QED BY <2>2, <2>3, InModel
<1>3. \A i, j \in DOMAIN stack : stack[i] = stack[j] => i = j
  BY DEF StartupInv, CallsNested
<1>4. ASSUME phase \notin {"building", "validate", "search", "failed"}, NEW t \in Types(order)
      PROVE  /\ Below(t) \subseteq Types(order) \ {t}
             /\ ProviderOf(t).scope = "singleton" =>
                  \A d \in Below(t) : ProviderOf(d).scope = "singleton"
  <2>1. Accepted
    BY <1>4 DEF StartupInv, StartupTypeOK, Phase, GraphValidated
  <2>2. OneEach(order) /\ Clean(order) /\ t \notin BelowIn(order, t)
        /\ BelowIn(order, t) \subseteq Types(order)
    BY <2>1, AcceptedGraph
  <2>3. Prov(order, t).scope = "singleton" =>
          \A d \in BelowIn(order, t) : Prov(order, d).scope = "singleton"
    BY <2>2, CleanClosed
  <2> QED BY <2>2, <2>3, InModel
<1> QED BY <1>1, <1>2, <1>3, <1>4 DEF GraphSound

(* Of what a call depends on, all that is below was called before too.     *)
LEMMA BuiltIsInOrder ==
  ASSUME StartupInv
  PROVE  BuiltInOrder
<1>1. ASSUME NEW i \in DOMAIN calls, NEW d \in Below(calls[i])
      PROVE  ProviderOf(d).supplied \/ \E j \in 1..(i - 1) : calls[j] = d
  <2> DEFINE S == {e \in Types(order) : Prov(order, e).supplied \/ \E j \in 1..(i - 1) : calls[j] = e}
  <2>1. /\ Accepted /\ calls \in Seq(Types(order)) /\ InOrder(order, calls)
        /\ calls[i] \in Types(order) /\ i \in Nat
    BY DEF StartupInv, StartupTypeOK, GraphValidated, Building, CallsInOrder
  <2>2. S \in SUBSET Type
    BY <2>1, AcceptedGraph
  <2>3. ASSUME NEW k \in DOMAIN calls, k <= i, NEW e \in DepsOf(order, calls[k])
        PROVE  e \in S
    <3>1. e \in Types(order)
      BY <2>1, AcceptedGraph
    <3>2. Prov(order, e).supplied \/ \E j \in 1..(k - 1) : calls[j] = e
      BY <2>1 DEF InOrder
    <3>3. \A j \in 1..(k - 1) : j \in 1..(i - 1)
      BY <2>1, <2>3
    <3> QED BY <3>1, <3>2, <3>3
  <2>4. ClosedIn(order, S)
    <3> SUFFICES ASSUME NEW x \in S, NEW e \in DepsOf(order, x) PROVE e \in S
      BY DEF ClosedIn
    <3>1. ~Prov(order, x).supplied
      BY <2>1, AcceptedGraph
    <3>2. PICK j \in 1..(i - 1) : calls[j] = x
      BY <3>1
    <3>3. j \in DOMAIN calls /\ j <= i
      BY <2>1
    <3> QED BY <2>3, <3>2, <3>3
  <2>5. DepsOf(order, calls[i]) \subseteq S
    BY <2>1, <2>3
  <2> HIDE DEF S
  <2>6. BelowIn(order, calls[i]) \subseteq S
    BY <2>2, <2>4, <2>5, BelowLeast
  <2>7. d \in S
    BY <2>6, InModel
  <2> QED BY <2>7, InModel DEF S
<1>2. \A i \in DOMAIN calls :
        calls[i] \in singletons => \A j \in DOMAIN calls : calls[j] = calls[i] => j = i
  BY DEF StartupInv, Building, CallsInOrder
<1> QED BY <1>1, <1>2 DEF BuiltInOrder

LEMMA ReleasedIsInOrder ==
  ASSUME StartupInv
  PROVE  ReleasedInOrder
BY InModel DEF StartupInv, ReleaseSound, ReleasedInOrder, OfRequest

LEMMA NothingIsLeftOpen ==
  ASSUME StartupInv
  PROVE  NothingLeftOpen
<1>1. Types(order) \subseteq Type
  BY OneProvider, ProvOf DEF StartupInv
<1>2. ASSUME phase = "failed",
             singletons # {t \in Types(order) : ProviderOf(t).scope = "singleton"}
      PROVE  open \cap Types(order) = {}
  <2>1. singletons \subseteq {t \in Types(order) : ProviderOf(t).scope = "singleton"}
    BY InModel DEF StartupInv, StartupTypeOK, Building, SingletonsClosed
  <2>2. ~AllBuilt
    BY <1>2, <2>1, InModel DEF AllBuilt
  <2> QED BY <1>1, <1>2, <2>2, StartupAssumption DEF StartupInv, Forsaken
<1>3. phase = "failed" => \A i \in 1..(next - 1) : hooks[i].of \notin open
  BY DEF StartupInv, Forsaken
<1>4. ASSUME request = "over", NEW t \in open \cap Types(order)
      PROVE  ProviderOf(t).scope # "request"
  <2>1. phase \in {"running", "stopping", "stopped"} /\ cleanups = <<>>
    BY <1>4 DEF StartupInv, Untouched
  <2>2. IsOf(hooks, t) \/ IsOf(started, t)
    BY <1>4, <2>1 DEF StartupInv, Owned, Cleaned
  <2>3. IsOf(hooks, t)
    <3>1. /\ Len(started) <= Len(hooks) /\ \A i \in DOMAIN started : started[i] = hooks[i]
          /\ started \in Seq(Hook) /\ hooks \in Seq(Hook)
      BY DEF StartupInv, StartupTypeOK, HooksSound
    <3>2. \A i \in DOMAIN started : i \in DOMAIN hooks
      BY <3>1
    <3> QED BY <2>2, <3>1, <3>2 DEF IsOf
  <2>4. t \notin ComponentName
    BY <1>1, StartupAssumption
  <2>5. t \in singletons
    BY <2>3, <2>4 DEF StartupInv, HooksSound, IsOf
  <2>6. Prov(order, t).scope = "singleton"
    BY <2>5 DEF StartupInv, Building, SingletonsClosed
  <2> QED BY <2>6, InModel
<1>5. ASSUME phase = "stopped", NEW o \in open
      PROVE  /\ request = "aborted"
             /\ o \in open \cap Types(order) /\ ProviderOf(o).scope = "request"
  <2>1. ~IsOf(started, o)
    BY <1>5 DEF StartupInv, HooksSound, IsOf
  <2>2. OfRequest(o) /\ request = "aborted"
    BY <1>5, <2>1 DEF StartupInv, Owned
  <2> QED BY <2>2, InModel DEF OfRequest
<1> QED BY <1>2, <1>3, <1>4, <1>5 DEF NothingLeftOpen

LEMMA ContainerIsSound ==
  ASSUME StartupInv
  PROVE  ContainerSound
BY GraphIsSound, BuiltIsInOrder, ReleasedIsInOrder, NothingIsLeftOpen DEF ContainerSound

-----------------------------------------------------------------------------
(* Every state of the container and of what Start puts up has its type:    *)
(* in particular there is one provider per type, and all that is searched, *)
(* built, called and kept is provided (register, App.start).               *)
THEOREM StartupTyped == StartupSpec => []StartupTypeOK
<1>1. StartupInv => StartupTypeOK
  BY DEF StartupInv
<1> QED BY <1>1, StartupInvariant, PTL

(* The container, for every graph (container.go, App.start, runStopHooks,  *)
(* Context.resolve and finish).  validate accepts the graphs that can be   *)
(* built, and reports real cycles; constructors run after all they need,   *)
(* those of singletons once.  What is released comes after all that is     *)
(* above it, but for a Start whose hook failed and the values of an        *)
(* aborted request.  When construction fails, every value constructed is   *)
(* closed; when a hook fails, the components started are stopped, no       *)
(* more; a request that is over leaves none of its values open; and a      *)
(* stopped application only those of an aborted request.                   *)
THEOREM ContainerSafety == StartupSpec => []ContainerSound
<1>1. StartupInv => ContainerSound
  BY ContainerIsSound
<1> QED BY <1>1, StartupInvariant, PTL

=============================================================================
