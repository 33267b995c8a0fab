------------------------------ MODULE Startup ------------------------------
(***************************************************************************)
(* What an application is built of and how Start puts it up: the           *)
(* dependency container (container.go), the components that App.Database,  *)
(* App.Cache, App.Service and App.Job register (infra.go), the start of    *)
(* their hooks (App.start, app.go), the health report (health.go), and the *)
(* request-scoped values of the requests, one after the other              *)
(* (Context.resolve).                                                      *)
(*                                                                         *)
(* A constructor is a provider record: the type it returns, its parameters *)
(* in order, its scope, whether the value was supplied ready-made, and     *)
(* what the container finds in the value: nothing to manage ("plain"), an  *)
(* io.Closer or a Lifecycle.  The other injectables (context, logger, Env) *)
(* always resolve and are left out of the parameters.                      *)
(*                                                                         *)
(* Start is one activity: its steps are the calls of the program's own     *)
(* code (constructors, Invoke functions, hooks), each of which may fail.   *)
(***************************************************************************)
EXTENDS Naturals, Sequences, SequencesExt, FiniteSets

CONSTANTS Type,        \* types of values
          RequestPtr,  \* *torge.Context as a parameter
          ComponentName, \* names of infrastructure components
          Plans,       \* the sequences of registrations to try
          Components,  \* the sequences of infrastructure components to try
          MaxCalls     \* bound on the constructor calls explored

Provider == [out : Type, params : Seq(Type \cup {RequestPtr}),
             scope : {"singleton", "request"}, supplied : BOOLEAN,
             kind : {"plain", "closer", "lifecycle"}, replace : BOOLEAN]
Component == [kind : {"database", "unpinged", "cache", "service", "jobs"},
              name : ComponentName, gives : Type]

(* Names are no types, and the job manager has one; a ready-made value has *)
(* no dependencies and is never of a request (App.supply).                 *)
ASSUME StartupAssumption ==
  /\ RequestPtr \notin Type
  /\ "jobs" \in ComponentName /\ Type \cap ComponentName = {}
  /\ MaxCalls \in Nat
  /\ \A plan \in Plans :
       /\ plan \in Seq(Provider)
       /\ \A i \in DOMAIN plan :
            plan[i].supplied => plan[i].params = <<>> /\ plan[i].scope = "singleton"
  /\ \A cs \in Components : cs \in Seq(Component)

(* What registration and Start diagnose, by its code.                      *)
Code == {"DUPLICATE_DEPENDENCY", "DUPLICATE_NAME", "DUPLICATE_ROUTE", "DUPLICATE_ROUTE_NAME",
         "INVALID_ROUTE", "INVALID_HANDLER", "INVALID_SCOPE", "MISSING_DEPENDENCY",
         "DEPENDENCY_CYCLE", "START_HOOK_FAILED", "INVOKE_FAILED"}

VARIABLES
  plan,       \* registrations still to come
  infra,      \* component registrations still to come
  order,      \* container.order; a type's provider is its entry here
  appHooks,   \* a.hooks
  checks,     \* names of the registered health checks
  jobs,       \* a.jobs is set
  diags,      \* codes of the diagnostics found
  phase,      \* where Start is, and the application after it
  stack,      \* the types that visit, singleton or resolve is called for, the
              \* innermost call last
  done,       \* findCycle: the types whose state is done, as they became it
  cycle,      \* what findCycle returns
  singletons, \* the keys of container.singletons
  hooks,      \* container.hooks; from phase "hook" the hooks Start goes through
  next,       \* the hook it is at
  started,    \* a.started
  request,    \* the last request: "none", "active", "closing", "over" or "aborted"
  scoped,     \* contextExtras.scoped
  cleanups,   \* contextExtras.cleanups that close a scoped value
  \* history:
  calls,      \* constructors called, in order
  open,       \* what holds something: databases and stores the application was
              \* given, closers it constructed, components it started
  released    \* what was stopped or closed, in order

regVars == <<plan, infra, order, appHooks, checks, jobs>>
searchVars == <<done, cycle>>
startVars == <<diags, phase, searchVars, singletons, hooks, next, started, calls>>
useVars == <<request, scoped, cleanups>>
holdVars == <<open, released>>
startupVars == <<regVars, startVars, stack, useVars, holdVars>>

Types(list) == {list[i].out : i \in DOMAIN list}
At(t) == CHOOSE i \in DOMAIN order : order[i].out = t
ProviderOf(t) == order[At(t)]

StartupInit ==
  /\ plan \in Plans /\ infra \in Components
  /\ order = <<>> /\ appHooks = <<>> /\ checks = {} /\ jobs = FALSE
  /\ diags = {} /\ phase = "building" /\ stack = <<>> /\ done = <<>> /\ cycle = <<>>
  /\ singletons = {} /\ hooks = <<>> /\ next = 1 /\ started = <<>>
  /\ request = "none" /\ scoped = {} /\ cleanups = <<>>
  /\ calls = <<>> /\ open = {} /\ released = <<>>

-----------------------------------------------------------------------------
(* Registration.                                                           *)

Refused(p) == p.out \in Types(order) /\ ~p.replace

(* (Slip: the replaced provider keeps its place in the order too.)         *)
AddedTwice(p) == IF Refused(p) THEN order ELSE Append(order, p)

(* One provider per type: a second one is refused, or takes its place at   *)
(* the end of the order.                                                   *)
Added(p) ==
  CASE Refused(p) -> order
    [] p.out \in Types(order) /\ p.replace -> Append(RemoveAt(order, At(p.out)), p)
    [] OTHER -> Append(order, p)

Provide ==
  /\ phase = "building" /\ plan # <<>>
  /\ order' = Added(Head(plan))
  /\ diags' = diags \cup (IF Refused(Head(plan)) THEN {"DUPLICATE_DEPENDENCY"} ELSE {})
  /\ plan' = Tail(plan)
  /\ UNCHANGED <<infra, appHooks, checks, jobs, phase, searchVars, singletons, hooks,
                 next, started, calls, stack, useVars, holdVars>>

Supplied(t) == [out |-> t, params |-> <<>>, scope |-> "singleton",
                supplied |-> TRUE, kind |-> "plain", replace |-> FALSE]

(* A database is pinged at start (or not), closed, and checked; a store is *)
(* closed and checked; a service is started, stopped and checked, unless   *)
(* its name is taken; the manager of jobs gets its hook in Start.  All but *)
(* services are supplied to the container, databases and managers only     *)
(* where nothing else provides the type.                                   *)
HookKind(c) == IF c.kind \in {"database", "service"} THEN "both" ELSE "stopOnly"

AddComponent ==
  /\ phase = "building" /\ plan = <<>> /\ infra # <<>>
  /\ LET c == Head(infra)
         taken == c.kind # "jobs" /\ c.name \in checks
         clash == c.kind = "cache" /\ Refused(Supplied(c.gives))
         gives == c.kind # "service" /\ ~Refused(Supplied(c.gives))
     IN /\ appHooks' = IF c.kind = "jobs" \/ (c.kind = "service" /\ taken) THEN appHooks
                       ELSE Append(appHooks, [of |-> c.name, kind |-> HookKind(c)])
        /\ open' = IF c.kind \in {"jobs", "service"} THEN open ELSE open \cup {c.name}
        /\ jobs' = (jobs \/ c.kind = "jobs")
        /\ order' = IF gives THEN Added(Supplied(c.gives)) ELSE order
        /\ diags' = diags \cup (IF taken THEN {"DUPLICATE_NAME"} ELSE {})
                          \cup (IF clash THEN {"DUPLICATE_DEPENDENCY"} ELSE {})
        /\ checks' = IF taken \/ c.kind = "jobs" THEN checks ELSE checks \cup {c.name}
  /\ infra' = Tail(infra)
  /\ UNCHANGED <<plan, phase, searchVars, singletons, hooks, next, started, calls,
                 stack, useVars, released>>

(* What else is found wrong while the application is built.                *)
Report(found) ==
  /\ phase = "building"
  /\ diags' = diags \cup found
  /\ UNCHANGED <<regVars, phase, searchVars, singletons, hooks, next, started, calls,
                 stack, useVars, holdVars>>

-----------------------------------------------------------------------------
(* The validation of the graph.                                            *)

(* What registration found ends Start before the container is looked at;   *)
(* without it, what the last static checks find does.                      *)
Begin(found) ==
  /\ phase = "building" /\ plan = <<>> /\ infra = <<>>
  /\ diags' = IF diags # {} THEN diags ELSE found
  /\ phase' = IF diags' # {} THEN "failed" ELSE "validate"
  /\ UNCHANGED <<regVars, searchVars, singletons, hooks, next, started, calls,
                 stack, useVars, holdVars>>

(* A singleton would keep the value of one request for ever.               *)
ScopeMistake(p, dep) ==
  /\ p.scope = "singleton"
  /\ \/ dep = RequestPtr
     \/ dep \in Types(order) /\ ProviderOf(dep).scope = "request"

Uses == {u \in Range(order) \X (Type \cup {RequestPtr}) : u[2] \in Range(u[1].params)}
Misused == {u \in Uses : ScopeMistake(u[1], u[2])}
Unprovided == {u \in Uses : u[2] # RequestPtr /\ u[2] \notin Types(order)}

ValidateGraph ==
  /\ phase = "validate"
  /\ diags' = {"INVALID_SCOPE" : u \in Misused} \cup {"MISSING_DEPENDENCY" : u \in Unprovided}
  /\ phase' = "search"
  /\ UNCHANGED <<regVars, searchVars, singletons, hooks, next, started, calls,
                 stack, useVars, holdVars>>

(* visit, singleton and resolve go through a list: the outermost call      *)
(* through the order of the container, the others through the parameters   *)
(* of what they are called for.  They pass over what is settled, and call  *)
(* themselves for the first entry that is not.                             *)
Listed == IF stack = <<>> THEN [i \in DOMAIN order |-> order[i].out]
          ELSE ProviderOf(Last(stack)).params
Left(settled) == {i \in DOMAIN Listed : Listed[i] \notin settled}
FirstLeft(settled) ==
  Listed[CHOOSE i \in Left(settled) : \A j \in Left(settled) : i <= j]
Enter(t) == stack' = Append(stack, t)
Leave == stack' = Front(stack)

(* The depth-first search of findCycle: a type is visiting while it is on  *)
(* the stack.                                                              *)
Searched == Range(done) \cup {RequestPtr} \cup (Type \ Types(order))
Searching == phase = "search" /\ cycle = <<>>
SearchRest == UNCHANGED <<regVars, singletons, hooks, next, started, calls, useVars, holdVars>>

Visit ==
  /\ Searching /\ Left(Searched) # {}
  /\ LET dep == FirstLeft(Searched)
     IN IF dep \in Range(stack)
          THEN /\ cycle' = Append(SubSeq(stack, CHOOSE i \in DOMAIN stack : stack[i] = dep,
                                         Len(stack)), dep)
               /\ UNCHANGED stack
          ELSE Enter(dep) /\ UNCHANGED cycle
  /\ UNCHANGED <<diags, phase, done>> /\ SearchRest

Visited ==
  /\ Searching /\ stack # <<>> /\ Left(Searched) = {}
  /\ done' = Append(done, Last(stack)) /\ Leave
  /\ UNCHANGED <<diags, phase, cycle>> /\ SearchRest

SearchEnds ==
  /\ phase = "search"
  /\ cycle # <<>> \/ (stack = <<>> /\ Left(Searched) = {})
  /\ diags' = diags \cup (IF cycle # <<>> THEN {"DEPENDENCY_CYCLE"} ELSE {})
  /\ phase' = IF diags' # {} THEN "failed" ELSE "build"
  /\ stack' = <<>>
  /\ UNCHANGED searchVars /\ SearchRest

-----------------------------------------------------------------------------
(* Construction.                                                           *)

(* build constructs the singletons in the order of the container, and      *)
(* singleton the dependencies of each first.                               *)
OfRequests == {t \in Types(order) : ProviderOf(t).scope = "request"}
Built == singletons \cup (IF stack = <<>> THEN OfRequests ELSE {})

BuildFor ==
  /\ phase = "build" /\ Left(Built) # {}
  /\ Enter(FirstLeft(Built))
  /\ UNCHANGED <<regVars, startVars, useVars, holdVars>>

(* manage: what the container stops or closes later.                       *)
Managed(p) ==
  CASE p.kind = "lifecycle" -> <<[of |-> p.out, kind |-> "both"]>>
    [] p.kind = "closer" -> <<[of |-> p.out, kind |-> "stopOnly"]>>
    [] OTHER -> <<>>

Holds(p) == IF p.kind = "closer" THEN {p.out} ELSE {}

Construct ==
  /\ phase = "build" /\ stack # <<>> /\ Left(Built) = {}
  /\ LET p == ProviderOf(Last(stack))
     IN /\ singletons' = singletons \cup {p.out}
        /\ IF p.supplied THEN UNCHANGED <<hooks, calls, open>>
           ELSE /\ calls' = Append(calls, p.out)
                /\ hooks' = hooks \o Managed(p)
                /\ open' = open \cup Holds(p)
  /\ Leave
  /\ UNCHANGED <<regVars, diags, phase, searchVars, next, started, useVars, released>>

ConstructFails ==
  /\ phase = "build" /\ stack # <<>> /\ Left(Built) = {}
  /\ ~ProviderOf(Last(stack)).supplied
  /\ calls' = Append(calls, Last(stack))
  /\ diags' = {"START_HOOK_FAILED"} /\ phase' = "undo" /\ stack' = <<>>
  /\ UNCHANGED <<regVars, searchVars, singletons, hooks, next, started, useVars, holdVars>>

(* closeBuilt: of what was built, the last first, closers are closed;      *)
(* Lifecycle values are dropped.                                           *)
Stops(h) == open' = open \ {h.of} /\ released' = Append(released, h.of)

CloseBuilt ==
  /\ phase = "undo" /\ hooks # <<>>
  /\ hooks' = Front(hooks)
  /\ IF Last(hooks).kind = "stopOnly" THEN Stops(Last(hooks)) ELSE UNCHANGED holdVars
  /\ UNCHANGED <<regVars, diags, phase, searchVars, singletons, next, started, calls,
                 stack, useVars>>

Undone ==
  /\ phase = "undo" /\ hooks = <<>>
  /\ phase' = "failed"
  /\ UNCHANGED <<regVars, diags, searchVars, singletons, hooks, next, started, calls,
                 stack, useVars, holdVars>>

(* The Invoke functions, the OpenAPI routes and the freezing of the route  *)
(* table: any of them may find a problem, and Start returns it.            *)
InvokeAndFreeze ==
  /\ phase = "build" /\ stack = <<>> /\ Left(Built) = {}
  /\ \/ /\ phase' = "hook"
        /\ hooks' = appHooks \o hooks
                      \o (IF jobs THEN <<[of |-> "jobs", kind |-> "both"]>> ELSE <<>>)
        /\ UNCHANGED diags
     \/ /\ phase' = "failed" /\ diags' = {"INVOKE_FAILED"}
        /\ UNCHANGED hooks
  /\ UNCHANGED <<regVars, searchVars, singletons, next, started, calls, stack,
                 useVars, holdVars>>

-----------------------------------------------------------------------------
(* The hooks.                                                              *)

StartHook ==
  /\ phase = "hook" /\ next <= Len(hooks)
  /\ started' = Append(started, hooks[next])
  /\ open' = open \cup {hooks[next].of}
  /\ next' = next + 1
  /\ UNCHANGED <<regVars, diags, phase, searchVars, singletons, hooks, calls, stack,
                 useVars, released>>

(* The hooks started before are stopped, the last first; the others never  *)
(* run.                                                                    *)
StartHookFails ==
  /\ phase = "hook" /\ next <= Len(hooks) /\ hooks[next].kind = "both"
  /\ diags' = {"START_HOOK_FAILED"} /\ phase' = "unstart"
  /\ UNCHANGED <<regVars, searchVars, singletons, hooks, next, started, calls, stack,
                 useVars, holdVars>>

Started ==
  /\ phase = "hook" /\ next > Len(hooks)
  /\ phase' = "running"
  /\ UNCHANGED <<regVars, diags, searchVars, singletons, hooks, next, started, calls,
                 stack, useVars, holdVars>>

(* runStopHooks, after a hook that failed or at shutdown.                  *)
StopHook ==
  /\ phase \in {"unstart", "stopping"} /\ started # <<>>
  /\ started' = Front(started)
  /\ Stops(Last(started))
  /\ UNCHANGED <<regVars, diags, phase, searchVars, singletons, hooks, next, calls,
                 stack, useVars>>

HooksStopped ==
  /\ phase \in {"unstart", "stopping"} /\ started = <<>>
  /\ phase' = IF phase = "unstart" THEN "failed" ELSE "stopped"
  /\ UNCHANGED <<regVars, diags, searchVars, singletons, hooks, next, started, calls,
                 stack, useVars, holdVars>>

-----------------------------------------------------------------------------
(* A request.                                                              *)

RequestBegin ==
  /\ phase = "running" /\ request \in {"none", "over"}
  /\ request' = "active"
  /\ UNCHANGED <<regVars, startVars, stack, scoped, cleanups, holdVars>>

(* Dep of a value that has to be constructed: singletons and what the      *)
(* request already has are simply returned.                                *)
Has == singletons \cup scoped \cup {RequestPtr}

Dep(t) ==
  /\ request = "active" /\ stack = <<>> /\ Len(calls) < MaxCalls
  /\ t \in Types(order) \ Has
  /\ Enter(t)
  /\ UNCHANGED <<regVars, startVars, useVars, holdVars>>

(* Context.resolve: the dependencies first, down to a constructor.         *)
ResolveFor ==
  /\ request = "active" /\ stack # <<>> /\ Left(Has) # {}
  /\ Enter(FirstLeft(Has))
  /\ UNCHANGED <<regVars, startVars, useVars, holdVars>>

(* (Slip: the value is kept, and nothing closes it.)                       *)
KeepUnclosed(t) ==
  /\ scoped' = scoped \cup {t}
  /\ open' = open \cup Holds(ProviderOf(t))
  /\ UNCHANGED cleanups

(* The value is kept for the rest of the request; a closer is closed when  *)
(* the request is done.                                                    *)
Keep(t) ==
  /\ scoped' = scoped \cup {t}
  /\ open' = open \cup Holds(ProviderOf(t))
  /\ cleanups' = IF ProviderOf(t).kind = "closer" THEN Append(cleanups, t) ELSE cleanups

Resolve ==
  /\ request = "active" /\ stack # <<>> /\ Left(Has) = {}
  /\ Keep(Last(stack))
  /\ calls' = Append(calls, Last(stack))
  /\ Leave
  /\ UNCHANGED <<regVars, diags, phase, searchVars, singletons, hooks, next, started,
                 request, released>>

(* A constructor returns an error: Dep does, and what was built for it     *)
(* stays with the request.                                                 *)
ResolveFails ==
  /\ request = "active" /\ stack # <<>> /\ Left(Has) = {}
  /\ calls' = Append(calls, Last(stack))
  /\ stack' = <<>>
  /\ UNCHANGED <<regVars, diags, phase, searchVars, singletons, hooks, next, started,
                 useVars, holdVars>>

(* Context.finish: the cleanups run, the last registered first.            *)
Finishes(left) ==
  /\ request' = IF left = <<>> THEN "over" ELSE "closing"
  /\ scoped' = IF left = <<>> THEN {} ELSE scoped
  /\ cleanups' = left

RequestDone ==
  /\ request = "active" /\ stack = <<>>
  /\ Finishes(cleanups)
  /\ UNCHANGED <<regVars, startVars, stack, holdVars>>

CloseScoped ==
  /\ request = "closing"
  /\ Finishes(Front(cleanups))
  /\ Stops([of |-> Last(cleanups)])
  /\ UNCHANGED <<regVars, startVars, stack>>

(* A panic with http.ErrAbortHandler, or any without the recovery stage,   *)
(* leaves ServeHTTP before finish.                                         *)
RequestAborted ==
  /\ request = "active"
  /\ request' = "aborted"
  /\ stack' = <<>> /\ scoped' = {} /\ cleanups' = <<>>
  /\ UNCHANGED <<regVars, startVars, holdVars>>

(* Shutdown once the requests are over (see AppLifecycle).                 *)
Stop ==
  /\ phase = "running" /\ request \notin {"active", "closing"}
  /\ phase' = "stopping"
  /\ UNCHANGED <<regVars, diags, searchVars, singletons, hooks, next, started, calls,
                 stack, useVars, holdVars>>

Ended == phase \in {"failed", "stopped"} /\ UNCHANGED startupVars

StartupNext ==
  \/ Provide \/ AddComponent
  \/ (\E found \in SUBSET Code : Report(found) \/ Begin(found))
  \/ ValidateGraph \/ Visit \/ Visited \/ SearchEnds
  \/ BuildFor \/ Construct \/ ConstructFails \/ CloseBuilt \/ Undone \/ InvokeAndFreeze
  \/ StartHook \/ StartHookFails \/ Started \/ StopHook \/ HooksStopped
  \/ RequestBegin \/ (\E t \in Type : Dep(t)) \/ ResolveFor \/ Resolve \/ ResolveFails
  \/ RequestDone \/ CloseScoped \/ RequestAborted \/ Stop \/ Ended

StartupSpec == StartupInit /\ [][StartupNext]_startupVars

-----------------------------------------------------------------------------
(* Properties.                                                             *)

Phase == {"building", "validate", "search", "build", "undo", "hook", "unstart",
          "running", "stopping", "stopped", "failed"}
Hook == [of : Type \cup ComponentName, kind : {"both", "stopOnly"}]

StartupTypeOK ==
  /\ plan \in Seq(Provider) /\ infra \in Seq(Component)
  /\ order \in Seq(Provider)
  /\ \A i, j \in DOMAIN order : order[i].out = order[j].out => i = j
  /\ appHooks \in Seq(Hook) /\ hooks \in Seq(Hook) /\ started \in Seq(Hook)
  /\ checks \subseteq ComponentName /\ diags \subseteq Code /\ jobs \in BOOLEAN
  /\ phase \in Phase /\ request \in {"none", "active", "closing", "over", "aborted"}
  /\ stack \in Seq(Types(order)) /\ done \in Seq(Types(order))
  /\ cycle \in Seq(Types(order)) /\ calls \in Seq(Types(order))
  /\ singletons \subseteq Types(order) /\ scoped \subseteq Types(order)
  /\ cleanups \in Seq(Types(order))
  /\ next \in Nat \ {0}
  /\ open \subseteq Type \cup ComponentName /\ released \in Seq(Type \cup ComponentName)

(* What a type depends on, and what that depends on, and so on: the least  *)
(* set that has the former and is closed.                                  *)
Deps(t) == {d \in Type : \E p \in Range(order) : p.out = t /\ d \in Range(p.params)}
Closed(S) == \A t \in S : Deps(t) \subseteq S
Below(t) == {d \in Type : \A S \in SUBSET Type : Deps(t) \subseteq S /\ Closed(S) => d \in S}

(* container.validate accepts exactly the graphs that can be built: a      *)
(* cycle it reports is one, and when the search is through without one no  *)
(* provided type is below itself; so the recursions of visit, singleton    *)
(* and resolve end, none being called again inside its own call.  In an    *)
(* accepted graph everything below a provided type is provided, and no     *)
(* value of a request is anywhere below a singleton.                       *)
GraphSound ==
  /\ cycle # <<>> =>
       /\ Len(cycle) > 1 /\ cycle[1] = cycle[Len(cycle)]
       /\ \A i \in 1..(Len(cycle) - 1) : cycle[i + 1] \in Deps(cycle[i])
  /\ Types(order) \subseteq Range(done) => \A t \in Types(order) : t \notin Below(t)
  /\ \A i, j \in DOMAIN stack : stack[i] = stack[j] => i = j
  /\ phase \notin {"building", "validate", "search", "failed"} =>
       \A t \in Types(order) :
         /\ Below(t) \subseteq Types(order) \ {t}
         /\ ProviderOf(t).scope = "singleton" =>
              \A d \in Below(t) : ProviderOf(d).scope = "singleton"

(* Constructors run after those of everything below them, and that of a    *)
(* singleton runs once.                                                    *)
BuiltInOrder ==
  \A i \in DOMAIN calls :
    /\ \A d \in Below(calls[i]) : ProviderOf(d).supplied \/ \E j \in 1..(i - 1) : calls[j] = d
    /\ calls[i] \in singletons => \A j \in DOMAIN calls : calls[j] = calls[i] => j = i

(* Whatever is stopped or closed, nothing above it still holds something:  *)
(* by a failed construction, a request and a shutdown alike.  Not by a     *)
(* Start whose hook failed, which leaves closers it had not reached open   *)
(* over what it stops; and the values of an aborted request stay open.     *)
ReleasedInOrder ==
  phase \notin {"unstart", "failed"} =>
    \A i \in DOMAIN released :
      \A t \in Types(order) \cap open :
        released[i] \in Below(t) \ open =>
          request = "aborted" /\ ProviderOf(t).scope = "request"

(* What is released in the end, and what is not.  A Start that fails while *)
(* it constructs closes every value it constructed; one that fails in a    *)
(* hook stops the components it started, and leaves open the closers and   *)
(* the given databases and stores whose hooks had not succeeded; one that  *)
(* fails earlier leaves those given, and after a failed Invoke or freeze   *)
(* everything is left.  A request that is over leaves no value of its own. *)
(* A stopped application holds nothing but the values of an aborted        *)
(* request, which nothing closes.                                          *)
NothingLeftOpen ==
  LET constructed == {t \in Types(order) : ProviderOf(t).kind # "plain"
                                            /\ \E i \in DOMAIN calls : calls[i] = t}
      scopedOpen == {t \in open \cap Types(order) : ProviderOf(t).scope = "request"}
  IN /\ phase = "failed" /\ singletons # {t \in Types(order) : ProviderOf(t).scope = "singleton"}
          => open \cap constructed = {}
     /\ phase = "failed" /\ next > 1 => \A i \in 1..(next - 1) : hooks[i].of \notin open
     /\ request = "over" => scopedOpen = {}
     /\ phase = "stopped" => open \subseteq IF request = "aborted" THEN scopedOpen ELSE {}

ContainerSound == GraphSound /\ BuiltInOrder /\ ReleasedInOrder /\ NothingLeftOpen

=============================================================================
