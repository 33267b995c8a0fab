---------------------------- MODULE AppLifecycle ----------------------------
(***************************************************************************)
(* The lifecycle of a torge application: App.Start, App.Serve and          *)
(* App.Shutdown (app.go), with the hooks they run and the requests that    *)
(* are in flight meanwhile.                                                *)
(*                                                                         *)
(* Concurrent activities: a Start call of the program's own; Serve calls   *)
(* (Listen ends in Serve), each with its goroutine running the HTTP        *)
(* server; Shutdown calls; requests.  Every access to shared state that    *)
(* another activity can come between is a step.  a.started is appended to  *)
(* without a.mu, so its read and its write are two steps.                  *)
(*                                                                         *)
(* net/http is external and modelled by what Serve and Shutdown rely on:   *)
(* Server.Shutdown makes Server.Serve return ErrServerClosed and waits for *)
(* the requests of that server until its context ends; Server.Close cuts   *)
(* them off.                                                               *)
(***************************************************************************)
EXTENDS Naturals, Sequences, SequencesExt

CONSTANTS NumHooks,    \* hooks in start order: App, container, then jobs
          StopOnly,    \* hooks without OnStart
          ServeCall,   \* calls of Serve
          Closer,      \* calls of Shutdown by the program
          Request,     \* requests that may arrive
          Stream,      \* those that are streams (beginStream)
          Program,     \* the program's own call of Start
          None

Hook == 1..NumHooks
Starter == ServeCall \cup {Program}
Caller == ServeCall \cup Closer

ASSUME LifecycleAssumption ==
  /\ NumHooks \in Nat
  /\ StopOnly \subseteq Hook
  /\ Stream \subseteq Request
  /\ Program \notin ServeCall
  /\ None \notin ServeCall \cup {Program} \cup Closer
  /\ ServeCall \cap Closer = {}

VARIABLES
  state,        \* a.state
  startPc,      \* where the one Start that won the compare-and-swap is
  starter,      \* who runs it
  next,         \* the hook it is at
  read,         \* the slice its append has read
  started,      \* a.started
  undo,         \* what its runStopHooks took and has still to stop
  servePc, srv, \* a Serve call and its http.Server
  server,       \* a.server
  shut,         \* where a Shutdown call is
  shutPc,       \* where the one inside stopOnce is
  target,       \* the server it read from a.server
  closing,      \* what its runStopHooks took and has still to stop
  once,         \* a.stopOnce
  stopRequest,  \* a.stopRequest is closed and a.stopping canceled
  done,         \* a.done is closed
  req, via,     \* a request and the server that accepted it
  \* history:
  up, stops,    \* the hooks started and not stopped; calls of each OnStop
  early,        \* Shutdown began while Start was running
  missed,       \* Serve calls whose server Shutdown did not see
  forced        \* the HTTP server was closed with requests in flight

startVars == <<startPc, starter, next, read, undo>>
serveVars == <<servePc, srv, server>>
shutVars == <<shut, shutPc, target, closing, once, stopRequest, done>>
reqVars == <<req, via>>
hookVars == <<up, stops>>
histVars == <<early, missed, forced>>
vars == <<state, startVars, started, serveVars, shutVars, reqVars, hookVars,
          histVars>>

State == {"building", "starting", "running", "stopping", "stopped", "failed"}
StartPc == {"none", "prepare", "hook", "append", "write", "undo", "undoing",
            "fail", "release", "run", "failed", "ok"}
ServePc == {"none", "start", "starting", "check", "publish", "select",
            "awaitDone", "shutdown", "await", "returned", "refused"}
ShutPc == {"none", "drain", "server", "http", "take", "hooks", "finish", "ended"}

TypeOK ==
  /\ state \in State
  /\ startPc \in StartPc
  /\ starter \in Starter \cup {None}
  /\ next \in 1..(NumHooks + 1)
  /\ read \in Seq(Hook) /\ started \in Seq(Hook)
  /\ undo \in Seq(Hook) /\ closing \in Seq(Hook)
  /\ servePc \in [ServeCall -> ServePc]
  /\ srv \in [ServeCall -> {"new", "serving", "shut", "failed"}]
  /\ server \in ServeCall \cup {None} /\ target \in ServeCall \cup {None}
  /\ shut \in [Caller -> {"none", "enter", "inside", "returned"}]
  /\ shutPc \in ShutPc
  /\ once \in {"free", "busy", "over"}
  /\ stopRequest \in BOOLEAN /\ done \in BOOLEAN
  /\ req \in [Request -> {"idle", "active", "over"}]
  /\ via \in [Request -> ServeCall \cup {None}]
  /\ up \subseteq Hook
  /\ stops \in [Hook -> Nat]
  /\ early \in BOOLEAN /\ forced \in BOOLEAN
  /\ missed \subseteq ServeCall

Init ==
  /\ state = "building"
  /\ startPc = "none" /\ starter = None /\ next = 1
  /\ read = <<>> /\ started = <<>> /\ undo = <<>> /\ closing = <<>>
  /\ servePc = [s \in ServeCall |-> "none"]
  /\ srv = [s \in ServeCall |-> "new"]
  /\ server = None /\ target = None
  /\ shut = [c \in Caller |-> "none"]
  /\ shutPc = "none" /\ once = "free"
  /\ stopRequest = FALSE /\ done = FALSE
  /\ req = [r \in Request |-> "idle"]
  /\ via = [r \in Request |-> None]
  /\ up = {} /\ stops = [h \in Hook |-> 0]
  /\ early = FALSE /\ missed = {} /\ forced = FALSE

-----------------------------------------------------------------------------
(* Start.                                                                  *)

(* (Slip: a plain store where the code has a compare-and-swap.)            *)
BeginAnyway(who) ==
  /\ state' = "starting"
  /\ startPc' = "prepare"
  /\ starter' = who
  /\ UNCHANGED <<next, read, undo>>

(* The compare-and-swap; a call that loses it returns a diagnostic.        *)
Begin(who) ==
  /\ state = "building"
  /\ state' = "starting"
  /\ startPc' = "prepare"
  /\ starter' = who
  /\ UNCHANGED <<next, read, undo>>

ProgramStart ==
  /\ Begin(Program)
  /\ UNCHANGED <<started, serveVars, shutVars, reqVars, hookVars, histVars>>

(* Diagnostics, container, invocations and the freezing of the routes, any *)
(* of which may fail, come before the first hook.                          *)
Prepare ==
  /\ startPc = "prepare"
  /\ startPc' \in {"hook", "fail"}
  /\ UNCHANGED <<state, starter, next, read, undo, started, serveVars,
                 shutVars, reqVars, hookVars, histVars>>

(* (Slip: one iteration too many.)                                         *)
StartHookPast ==
  /\ startPc = "hook" /\ next <= NumHooks + 1
  /\ startPc' = "append"
  /\ up' = up \cup {next}
  /\ UNCHANGED <<state, starter, next, read, undo, started, serveVars,
                 shutVars, reqVars, stops, histVars>>

(* (Slip: a start hook fails, and nothing is undone.)                      *)
StartHookNoUndo ==
  /\ startPc = "hook" /\ next <= NumHooks
  /\ \/ /\ startPc' = "append"
        /\ up' = up \cup {next}
     \/ /\ next \notin StopOnly
        /\ startPc' = "fail"
        /\ UNCHANGED up
  /\ UNCHANGED <<state, starter, next, read, undo, started, serveVars,
                 shutVars, reqVars, stops, histVars>>

StartHook ==
  /\ startPc = "hook" /\ next <= NumHooks
  /\ \/ /\ startPc' = "append"
        /\ up' = up \cup {next}
     \/ /\ next \notin StopOnly
        /\ startPc' = "undo"
        /\ UNCHANGED up
  /\ UNCHANGED <<state, starter, next, read, undo, started, serveVars,
                 shutVars, reqVars, stops, histVars>>

AppendRead ==
  /\ startPc = "append"
  /\ startPc' = "write"
  /\ read' = started
  /\ UNCHANGED <<state, starter, next, undo, started, serveVars,
                 shutVars, reqVars, hookVars, histVars>>

AppendWrite ==
  /\ startPc = "write"
  /\ startPc' = "hook"
  /\ started' = Append(read, next)
  /\ next' = next + 1
  /\ UNCHANGED <<state, starter, read, undo, serveVars,
                 shutVars, reqVars, hookVars, histVars>>

HooksStarted ==
  /\ startPc = "hook" /\ next = NumHooks + 1
  /\ startPc' = "run"
  /\ UNCHANGED <<state, starter, next, read, undo, started, serveVars,
                 shutVars, reqVars, hookVars, histVars>>

(* (Slip: the components are stopped in start order.)                      *)
CallStopFirst(list) ==
  /\ up' = up \ {Head(list)}
  /\ stops' = [stops EXCEPT ![Head(list)] = @ + 1]

(* The last hook of a list is the next to stop (slices.Backward).  An      *)
(* error of OnStop is collected and the next hook is stopped all the same. *)
CallStop(list) ==
  /\ up' = up \ {Last(list)}
  /\ stops' = [stops EXCEPT ![Last(list)] = @ + 1]

(* A start hook failed: runStopHooks.                                      *)
UndoTake ==
  /\ startPc = "undo"
  /\ startPc' = "undoing"
  /\ undo' = started
  /\ started' = <<>>
  /\ UNCHANGED <<state, starter, next, read, serveVars,
                 shutVars, reqVars, hookVars, histVars>>

UndoHook ==
  /\ startPc = "undoing" /\ undo # <<>>
  /\ CallStop(undo)
  /\ undo' = Front(undo)
  /\ UNCHANGED <<state, startPc, starter, next, read, started, serveVars,
                 shutVars, reqVars, histVars>>

UndoEnd ==
  /\ startPc = "undoing" /\ undo = <<>>
  /\ startPc' = "fail"
  /\ UNCHANGED <<state, starter, next, read, undo, started, serveVars,
                 shutVars, reqVars, hookVars, histVars>>

StoreFailed ==
  /\ startPc = "fail"
  /\ startPc' = "release"
  /\ state' = "failed"
  /\ UNCHANGED <<starter, next, read, undo, started, serveVars,
                 shutVars, reqVars, hookVars, histVars>>

(* stopOnce.Do(close(a.done)): waits for a Shutdown that is inside.        *)
FailRelease ==
  /\ startPc = "release"
  /\ once # "busy"
  /\ startPc' = "failed"
  /\ once' = "over"
  /\ done' = TRUE
  /\ UNCHANGED <<state, starter, next, read, undo, started, serveVars,
                 shut, shutPc, target, closing, stopRequest, reqVars, hookVars, histVars>>

StoreRunning ==
  /\ startPc = "run"
  /\ startPc' = "ok"
  /\ state' = "running"
  /\ UNCHANGED <<starter, next, read, undo, started, serveVars,
                 shutVars, reqVars, hookVars, histVars>>

Starting ==
  \/ Prepare \/ StartHook \/ AppendRead \/ AppendWrite \/ HooksStarted
  \/ UndoTake \/ UndoHook \/ UndoEnd \/ StoreFailed \/ FailRelease
  \/ StoreRunning

-----------------------------------------------------------------------------
(* Serve.                                                                  *)

ServeBegin(s) ==
  /\ servePc[s] = "none"
  /\ servePc' = [servePc EXCEPT ![s] = IF state = "building" THEN "start" ELSE "check"]
  /\ UNCHANGED <<state, startVars, started, srv, server, shutVars,
                 reqVars, hookVars, histVars>>

ServeStart(s) ==
  /\ servePc[s] = "start"
  /\ \/ /\ Begin(s)
        /\ servePc' = [servePc EXCEPT ![s] = "starting"]
     \/ /\ state # "building"
        /\ servePc' = [servePc EXCEPT ![s] = "refused"]
        /\ UNCHANGED <<state, startVars>>
  /\ UNCHANGED <<started, srv, server, shutVars, reqVars, hookVars, histVars>>

ServeStarted(s) ==
  /\ servePc[s] = "starting"
  /\ startPc \in {"ok", "failed"}
  /\ servePc' = [servePc EXCEPT ![s] = IF startPc = "ok" THEN "check" ELSE "refused"]
  /\ UNCHANGED <<state, startVars, started, srv, server, shutVars,
                 reqVars, hookVars, histVars>>

ServeCheck(s) ==
  /\ servePc[s] = "check"
  /\ servePc' = [servePc EXCEPT ![s] = IF state = "running" THEN "publish" ELSE "refused"]
  /\ UNCHANGED <<state, startVars, started, srv, server, shutVars,
                 reqVars, hookVars, histVars>>

ServePublish(s) ==
  /\ servePc[s] = "publish"
  /\ server' = s
  /\ servePc' = [servePc EXCEPT ![s] = "select"]
  /\ UNCHANGED <<state, startVars, started, srv, shutVars,
                 reqVars, hookVars, histVars>>

(* The goroutine of Serve: http.Server.Serve returns at once on a server   *)
(* that was shut down before.                                              *)
ServerRun(s) ==
  /\ servePc[s] \notin {"none", "start", "starting", "check", "publish", "refused"}
  /\ srv[s] = "new"
  /\ srv' = [srv EXCEPT ![s] = "serving"]
  /\ UNCHANGED <<state, startVars, started, servePc, server, shutVars,
                 reqVars, hookVars, histVars>>

ServerFails(s) ==
  /\ srv[s] = "serving"
  /\ srv' = [srv EXCEPT ![s] = "failed"]
  /\ UNCHANGED <<state, startVars, started, servePc, server, shutVars,
                 reqVars, hookVars, histVars>>

(* The select of Serve: ErrServerClosed; or a server error, a signal or    *)
(* stopRequest, which all go on to Shutdown.                               *)
ServeClosed(s) ==
  /\ servePc[s] = "select" /\ srv[s] = "shut"
  /\ servePc' = [servePc EXCEPT ![s] = "awaitDone"]
  /\ UNCHANGED <<state, startVars, started, srv, server, shutVars,
                 reqVars, hookVars, histVars>>

EnterShutdown(s) ==
  /\ servePc[s] = "select"
  /\ servePc' = [servePc EXCEPT ![s] = "shutdown"]
  /\ shut' = [shut EXCEPT ![s] = "enter"]
  /\ UNCHANGED <<state, startVars, started, srv, server, shutPc, target, closing,
                 once, stopRequest, done, reqVars, hookVars, histVars>>

ServeSignal(s) == EnterShutdown(s)
ServeStop(s) == (stopRequest \/ srv[s] = "failed") /\ EnterShutdown(s)

ServeAwait(s) ==
  /\ servePc[s] = "shutdown" /\ shut[s] = "returned"
  /\ servePc' = [servePc EXCEPT ![s] = "await"]
  /\ UNCHANGED <<state, startVars, started, srv, server, shutVars,
                 reqVars, hookVars, histVars>>

(* (Slip: ErrServerClosed ends Serve without waiting for the shutdown.)     *)
ServeReturnAtOnce(s) ==
  /\ \/ servePc[s] = "awaitDone"
     \/ servePc[s] = "await" /\ srv[s] \in {"shut", "failed"}
  /\ servePc' = [servePc EXCEPT ![s] = "returned"]
  /\ UNCHANGED <<state, startVars, started, srv, server, shutVars,
                 reqVars, hookVars, histVars>>

ServeReturn(s) ==
  /\ \/ servePc[s] = "awaitDone" /\ done
     \/ servePc[s] = "await" /\ srv[s] \in {"shut", "failed"}
  /\ servePc' = [servePc EXCEPT ![s] = "returned"]
  /\ UNCHANGED <<state, startVars, started, srv, server, shutVars,
                 reqVars, hookVars, histVars>>

Serving(s) ==
  \/ ServeStart(s) \/ ServeStarted(s) \/ ServeCheck(s) \/ ServePublish(s)
  \/ ServerRun(s) \/ ServeClosed(s) \/ ServeStop(s) \/ ServeAwait(s)
  \/ ServeReturn(s)

-----------------------------------------------------------------------------
(* Shutdown.                                                               *)

ShutdownCall(c) ==
  /\ c \in Closer /\ shut[c] = "none"
  /\ shut' = [shut EXCEPT ![c] = "enter"]
  /\ UNCHANGED <<state, startVars, started, serveVars, shutPc, target, closing,
                 once, stopRequest, done, reqVars, hookVars, histVars>>

StartRuns == startPc \notin {"none", "ok", "failed"}

(* (Slip: the streams are not told.)                                       *)
ShutdownBeginQuietly(c) ==
  /\ shut[c] = "enter" /\ once = "free"
  /\ once' = "busy"
  /\ shut' = [shut EXCEPT ![c] = "inside"]
  /\ shutPc' = "drain"
  /\ state' = "stopping"
  /\ early' = StartRuns
  /\ UNCHANGED <<startVars, started, serveVars, target, closing, stopRequest,
                 done, reqVars, hookVars, missed, forced>>

ShutdownBegin(c) ==
  /\ shut[c] = "enter" /\ once = "free"
  /\ once' = "busy"
  /\ shut' = [shut EXCEPT ![c] = "inside"]
  /\ shutPc' = "drain"
  /\ state' = "stopping"
  /\ stopRequest' = TRUE
  /\ early' = StartRuns
  /\ UNCHANGED <<startVars, started, serveVars, target, closing, done,
                 reqVars, hookVars, missed, forced>>

(* Later calls leave stopOnce.Do when the first has, and find done closed. *)
ShutdownLater(c) ==
  /\ shut[c] = "enter" /\ once = "over"
  /\ shut' = [shut EXCEPT ![c] = "returned"]
  /\ UNCHANGED <<state, startVars, started, serveVars, shutPc, target, closing,
                 once, stopRequest, done, reqVars, hookVars, histVars>>

Drain ==
  /\ shutPc = "drain"
  /\ shutPc' = "server"
  /\ UNCHANGED <<state, startVars, started, serveVars, shut, target, closing,
                 once, stopRequest, done, reqVars, hookVars, histVars>>

(* Reads a.server and calls http.Server.Shutdown on it.                    *)
ReadServer ==
  /\ shutPc = "server"
  /\ target' = server
  /\ missed' = {s \in ServeCall : servePc[s] \in {"publish", "select", "shutdown"}
                                   /\ s # server}
  /\ IF server = None
       THEN shutPc' = "take" /\ UNCHANGED srv
       ELSE /\ shutPc' = "http"
            /\ srv' = [srv EXCEPT ![server] = IF @ = "failed" THEN @ ELSE "shut"]
  /\ UNCHANGED <<state, startVars, started, servePc, server, shut, closing,
                 once, stopRequest, done, reqVars, hookVars, early, forced>>

ActiveOn(s) == {r \in Request : req[r] = "active" /\ via[r] = s}

(* (Slip: the server is told to stop, and not waited for.)                 *)
HttpNotAwaited ==
  /\ shutPc = "http"
  /\ shutPc' = "take"
  /\ UNCHANGED <<state, startVars, started, serveVars, shut, target, closing,
                 once, stopRequest, done, reqVars, hookVars, histVars>>

HttpDrained ==
  /\ shutPc = "http"
  /\ ActiveOn(target) = {}
  /\ shutPc' = "take"
  /\ UNCHANGED <<state, startVars, started, serveVars, shut, target, closing,
                 once, stopRequest, done, reqVars, hookVars, histVars>>

(* The context ends first: Server.Close drops the connections.  A handler  *)
(* may go on running, but its request is over for the client.              *)
HttpForced ==
  /\ shutPc = "http"
  /\ ActiveOn(target) # {}
  /\ shutPc' = "take"
  /\ forced' = TRUE
  /\ UNCHANGED <<state, startVars, started, serveVars, shut, target, closing,
                 once, stopRequest, done, reqVars, hookVars, early, missed>>

TakeHooks ==
  /\ shutPc = "take"
  /\ shutPc' = "hooks"
  /\ closing' = started
  /\ started' = <<>>
  /\ UNCHANGED <<state, startVars, serveVars, shut, target,
                 once, stopRequest, done, reqVars, hookVars, histVars>>

(* (Slip: a hook whose OnStop fails is tried again.)                       *)
StopHookAgain ==
  /\ shutPc = "hooks" /\ closing # <<>>
  /\ CallStop(closing)
  /\ closing' \in {closing, Front(closing)}
  /\ UNCHANGED <<state, startVars, started, serveVars, shut, shutPc, target,
                 once, stopRequest, done, reqVars, histVars>>

StopHook ==
  /\ shutPc = "hooks" /\ closing # <<>>
  /\ CallStop(closing)
  /\ closing' = Front(closing)
  /\ UNCHANGED <<state, startVars, started, serveVars, shut, shutPc, target,
                 once, stopRequest, done, reqVars, histVars>>

(* (Slip: a.done is left open.)                                            *)
FinishSilently ==
  /\ shutPc = "hooks" /\ closing = <<>>
  /\ shutPc' = "ended"
  /\ state' = "stopped"
  /\ once' = "over"
  /\ shut' = [c \in Caller |-> IF shut[c] = "inside" THEN "returned" ELSE shut[c]]
  /\ UNCHANGED <<startVars, started, serveVars, target, closing, stopRequest,
                 done, reqVars, hookVars, histVars>>

Finish ==
  /\ shutPc = "hooks" /\ closing = <<>>
  /\ shutPc' = "ended"
  /\ state' = "stopped"
  /\ done' = TRUE
  /\ once' = "over"
  /\ shut' = [c \in Caller |-> IF shut[c] = "inside" THEN "returned" ELSE shut[c]]
  /\ UNCHANGED <<startVars, started, serveVars, target, closing, stopRequest,
                 reqVars, hookVars, histVars>>

Shutdown(c) == ShutdownBegin(c) \/ ShutdownLater(c)
Stopping ==
  \/ Drain \/ ReadServer \/ HttpDrained \/ TakeHooks \/ StopHook \/ Finish

-----------------------------------------------------------------------------
(* Requests.                                                               *)

Arrive(r, s) ==
  /\ req[r] = "idle" /\ srv[s] = "serving"
  /\ req' = [req EXCEPT ![r] = "active"]
  /\ via' = [via EXCEPT ![r] = s]
  /\ UNCHANGED <<state, startVars, started, serveVars, shutVars, hookVars, histVars>>

Complete(r) ==
  /\ req[r] = "active"
  /\ req' = [req EXCEPT ![r] = "over"]
  /\ UNCHANGED <<state, startVars, started, serveVars, shutVars, via, hookVars, histVars>>

(* A stream ends when its context is canceled, an ordinary request by      *)
(* itself; clients may also go away at any time.                           *)
Ends(r) == (r \in Stream => stopRequest) /\ Complete(r)

Next ==
  \/ ProgramStart \/ Starting
  \/ \E s \in ServeCall :
       ServeBegin(s) \/ Serving(s) \/ ServerFails(s) \/ ServeSignal(s)
  \/ \E c \in Caller : ShutdownCall(c) \/ Shutdown(c)
  \/ Stopping \/ HttpForced
  \/ \E r \in Request : Complete(r) \/ \E s \in ServeCall : Arrive(r, s)

Spec == Init /\ [][Next]_vars

(* Goroutines that can run do, hooks and ordinary requests return.  Nobody *)
(* has to call anything, and no context has to expire.                     *)
Fairness ==
  /\ WF_vars(Starting) /\ WF_vars(Stopping)
  /\ \A s \in ServeCall : WF_vars(Serving(s))
  /\ \A c \in Caller : WF_vars(Shutdown(c))
  /\ \A r \in Request : WF_vars(Ends(r))

FairSpec == Spec /\ Fairness

-----------------------------------------------------------------------------
(* Shutdown may begin while Start is still running hooks (early), which    *)
(* the code does not guard against, or miss a server that Serve is about   *)
(* to run (missed): what each property then leaves out, it says.           *)

(* A component runs only while those started before it run: dependencies   *)
(* stop last (AddHook: "stop hooks run in reverse order of successful      *)
(* starts"; start, runStopHooks).  After a Shutdown that overlapped Start  *)
(* the later components may run without the earlier ones.                  *)
DependenciesUp == ~early => \A h \in up : 1..h \subseteq up

Undone == {"undoing", "fail", "release", "failed"}

(* OnStop is called at most once per component (runStopHooks).  One that   *)
(* Shutdown stopped is stopped once more only by the undo of a failed      *)
(* Start that it overlapped, whose append wrote the list back it had read  *)
(* before Shutdown took it; never a third time.                            *)
StoppedOnce ==
  \A h \in Hook : stops[h] <= 1 \/ (early /\ startPc \in Undone /\ stops[h] = 2)

(* When Done is closed nothing the application started is left running,    *)
(* after a clean shutdown and, Shutdown overlapping or not, after a failed *)
(* start (Start, Shutdown).  Only a Start that went on beside Shutdown and *)
(* has not failed may have components up.                                  *)
DoneLeavesNothing ==
  done => \/ up = {} /\ state \in {"stopped", "failed"}
          \/ early /\ startPc # "failed"

(* No component is stopped under a request that is being served, unless    *)
(* the shutdown deadline cut it off or the server was missed (Shutdown);   *)
(* a Start overlapped by Shutdown may end up serving without components.   *)
HooksOutliveRequests ==
  (~early /\ ~forced /\ missed = {}) =>
    ((\E r \in Request : req[r] = "active") => up = Hook)

(* Serve returns only when its requests are over and everything is stopped *)
(* ("a clean shutdown": Listen, Serve): but for components of an overlapped *)
(* Start, and requests of a server that failed, was missed or was forced.  *)
ServeReturnsClean ==
  \A s \in ServeCall : servePc[s] = "returned" /\ ~early =>
    up = {} /\ (forced \/ missed # {} \/ srv[s] = "failed" \/ ActiveOn(s) = {})

(* The state only moves forward (State; guide.md "Lifecycle states"), but  *)
(* that a Start which Shutdown overlaps may still store running or failed  *)
(* over what Shutdown stored, and Shutdown over failed.                    *)
Rank == [building |-> 0, starting |-> 1, running |-> 2, stopping |-> 3,
         stopped |-> 4, failed |-> 4]
StateForward ==
  [][\/ Rank[state] < Rank[state']
     \/ early' /\ (state' \in {"running", "failed"} \/ state = "failed")]_state

(* Shutdown returns, streams and later callers included (Shutdown: "later  *)
(* calls wait for the first"; beginStream).                                *)
ShutdownReturns ==
  \A c \in Caller : (shut[c] = "enter") ~> (shut[c] = "returned")

(* Serve returns after a Shutdown, whoever called it (Serve).              *)
ServeReturns ==
  \A s \in ServeCall : (servePc[s] = "select" /\ stopRequest) ~>
    (servePc[s] = "returned" \/ s \in missed \/ early)

(* The same as Listen documents it ("serves HTTP on addr until             *)
(* SIGINT/SIGTERM or Shutdown, then shuts down gracefully"): no exception  *)
(* for a Shutdown that runs between the state check of Serve and the       *)
(* publication of its server.                                              *)
ServeReturnsAlways ==
  \A s \in ServeCall : (servePc[s] = "select" /\ stopRequest) ~>
    (servePc[s] = "returned" \/ early)

(* "Done is closed once the application has fully stopped" (Done): then no  *)
(* component runs any more (Start, Shutdown).                              *)
DoneMeansStopped == done => state \in {"stopped", "failed"} /\ up = {}

=============================================================================
