---------------------------- MODULE Application ----------------------------
(***************************************************************************)
(* An application from its registrations to its requests: the start-up of  *)
(* Startup.tla, with the registration of routes through groups and the     *)
(* checks of the route table that decide whether Start succeeds, and the   *)
(* requests of Pipeline.tla, which a running application serves.           *)
(*                                                                         *)
(* The two meet in three places.  Routes are registered while the          *)
(* application is built, and their problems fail Start.  A request has the *)
(* values of its scope from Dep, which only its handler calls.  And        *)
(* ServeHTTP ends with finish, which closes them, unless a panic leaves it *)
(* first.                                                                  *)
(***************************************************************************)
EXTENDS Startup, Pipeline

VARIABLE pending   \* srv.table: the registrations of routes still to come

applicationVars == <<pending, startupVars, pipelineVars>>

ApplicationInit ==
  /\ StartupInit /\ PipelineInit
  /\ pending = srv.table

-----------------------------------------------------------------------------
(* Routes.                                                                 *)

(* A registration is a route with the groups around it, the outermost      *)
(* first; each adds its prefix to the path and its middleware around the   *)
(* route's own.                                                            *)
Around(groups) ==
  LET within[i \in 0..Len(groups)] ==
        IF i = 0 THEN [pattern |-> <<>>, stages |-> <<>>]
        ELSE [pattern |-> JoinPaths(within[i - 1].pattern, groups[i].prefix),
              stages |-> within[i - 1].stages \o groups[i].stages]
  IN within[Len(groups)]
Resolved(entry) ==
  LET r == entry.route
      around == Around(entry.groups)
  IN [method |-> r.method, pattern |-> JoinPaths(around.pattern, r.pattern), name |-> r.name,
      stages |-> around.stages \o r.stages, does |-> r.does, input |-> r.input, rules |-> r.rules]

(* A route is not the absence of one.                                      *)
ASSUME ApplicationAssumption ==
  \A n \in DOMAIN Servers :
    \A i \in DOMAIN Servers[n].table : Resolved(Servers[n].table[i]) # NoRoute

(* A typed handler whose input cannot be bound is a problem; the route is  *)
(* inserted all the same.                                                  *)
Register ==
  /\ phase = "building" /\ plan = <<>> /\ infra = <<>> /\ pending # <<>>
  /\ LET r == Resolved(Head(pending))
     IN /\ routes' = WithRoute(routes, r)
        /\ Report(RouteProblem(routes, r)
                    \cup (IF r.method \in Methods /\ PlanFor(r.input).broken
                            THEN {"INVALID_HANDLER"} ELSE {}))
  /\ pending' = Tail(pending)
  /\ UNCHANGED <<server, req, pathVars, resp, ctx, store, exchanges, seenVars>>

RulesBroken == \E r \in Range(routes) : Broken(r.rules)

(* The static checks of Start are those of the registrations and of the    *)
(* names of the routes.                                                    *)
StartRoutes == pending = <<>> /\ Begin(NameProblem(routes))

(* freeze compiles the validation tags of every input.                     *)
Freeze ==
  /\ InvokeAndFreeze
  /\ RulesBroken => phase' = "failed"

-----------------------------------------------------------------------------
(* Requests.                                                               *)

Alone(step) == step /\ UNCHANGED <<pending, pipelineVars>>

Accept == Arrive /\ RequestBegin /\ UNCHANGED pending
Finish == ServeDone /\ RequestDone /\ UNCHANGED pending
Abandon == ServeAborts /\ RequestAborted /\ UNCHANGED pending

(* Dep is called by the handler, which then goes on.                       *)
AtHandler == Going("in", "handler") /\ entered = FALSE
Inject ==
  /\ AtHandler
  /\ (\E t \in Type : Dep(t)) \/ ResolveFor \/ Resolve \/ ResolveFails
  /\ UNCHANGED <<pending, pipelineVars>>

Serve == PipelineStep /\ stack = <<>> /\ UNCHANGED <<pending, startupVars>>

ApplicationNext ==
  \/ Alone(Provide) \/ Alone(AddComponent) \/ Register
  \/ Alone(StartRoutes) \/ Alone(ValidateGraph)
  \/ Alone(Visit) \/ Alone(Visited) \/ Alone(SearchEnds)
  \/ Alone(BuildFor) \/ Alone(Construct) \/ Alone(ConstructFails)
  \/ Alone(CloseBuilt) \/ Alone(Undone) \/ Alone(Freeze)
  \/ Alone(StartHook) \/ Alone(StartHookFails) \/ Alone(Started)
  \/ Alone(StopHook) \/ Alone(HooksStopped)
  \/ Accept \/ Inject \/ Serve \/ Finish \/ Alone(CloseScoped) \/ Abandon
  \/ Alone(Stop) \/ Alone(Ended)

ApplicationSpec == ApplicationInit /\ [][ApplicationNext]_applicationVars

-----------------------------------------------------------------------------
(* Properties.                                                             *)

ApplicationTypeOK ==
  /\ StartupTypeOK /\ PipelineTypeOK
  /\ pending # <<>> => phase = "building"
=============================================================================
