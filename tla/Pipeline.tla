------------------------------ MODULE Pipeline ------------------------------
(***************************************************************************)
(* One request on its way through the stages of an application and back:   *)
(* App.ServeHTTP, buildPipeline, dispatch (app.go), the built-in stages    *)
(* (middleware.go, health.go), the middleware package, WrapMiddleware and  *)
(* typed handlers, with the error, the panic and the writers that travel   *)
(* through them.                                                           *)
(*                                                                         *)
(* chain is the sequence of stages the request passes; dir and at say      *)
(* where it is.  A stage that calls next moves the request in; one that    *)
(* returns moves it out with an error ("" for nil), which the stages       *)
(* below see in turn.  A panic unwinds them.  srv is the configuration of  *)
(* the application, req the request, ctx its Context, resp the response    *)
(* (see Writers).  A body is made of pieces named by who wrote them.       *)
(***************************************************************************)
EXTENDS Router, Writers, Negotiation, Auth, Binding, Validation

CONSTANTS Servers,      \* a sequence of configurations [stages, table, slash, log,
                        \* recovery, checks, healthPaths, requests, second]
          MaxExchanges  \* bound on the requests served one after the other

(* A configuration is made of lists, of middleware and of patterns: what   *)
(* Use, Group and the registrations of routes take.  Authenticators and    *)
(* policies are those of the program; a path has a segment; and no token   *)
(* stands for an empty principal.                                          *)
Middleware == {"cors", "csrf", "timeout", "version", "compress", "static", "std", "cache",
               "auth", "require", "sunset"}
StageSound(stage) ==
  /\ stage.is \in Middleware
  /\ stage.is = "auth" => IsList(stage.names)
  /\ stage.is = "require" => stage.need.op \in {"roles", "scopes"} \/ stage.need \in Policies
StagesSound(stages) == IsList(stages) /\ \A i \in DOMAIN stages : StageSound(stages[i])
IsPattern(pat) == IsList(pat) /\ \A i \in DOMAIN pat : pat[i] = [k |-> pat[i].k, n |-> pat[i].n]
EntrySound(entry) ==
  /\ IsList(entry.groups) /\ IsPattern(entry.route.pattern) /\ StagesSound(entry.route.stages)
  /\ \A i \in DOMAIN entry.groups :
       IsPattern(entry.groups[i].prefix) /\ StagesSound(entry.groups[i].stages)
RequestSound(r) ==
  /\ IsList(r.path) /\ r.path # <<>>
  /\ r.cred.bearer # Absent => Claimed(r.cred.bearer) # Absent

ASSUME PipelineAssumption ==
  /\ MaxExchanges \in Nat
  /\ \A n \in DOMAIN Servers :
       /\ StagesSound(Servers[n].stages)
       /\ IsList(Servers[n].table)
       /\ \A i \in DOMAIN Servers[n].table : EntrySound(Servers[n].table[i])
       /\ \A r \in Servers[n].requests \cup Servers[n].second : RequestSound(r)

VARIABLES server, routes, req, chain, at, dir, err, resp, ctx, store,
          \* history:
          exchanges, logged, entered, meant, lost

pathVars == <<chain, at, dir, err>>
seenVars == <<logged, entered, meant, lost>>
pipelineVars == <<server, routes, req, pathVars, resp, ctx, store, exchanges, seenVars>>

srv == Servers[server]

NewContext == [id |-> "", user |-> Absent, handled |-> FALSE, deadline |-> FALSE,
               dispatched |-> FALSE, route |-> NoRoute, vals |-> <<>>, status |-> 0,
               version |-> "", offer |-> 0, input |-> Absent]
Unsaid == [status |-> 0, body |-> <<>>, with |-> {}]
Piece(of, big) == [of |-> of, big |-> big, zip |-> FALSE]

Stage == chain[at]
Going(direction, kind) == dir = direction /\ at >= 1 /\ Stage.is = kind

Proceed == at' = at + 1 /\ UNCHANGED <<chain, dir, err>>
Return(e) == dir' = "out" /\ err' = e /\ at' = at - 1 /\ UNCHANGED chain
Quiet == UNCHANGED <<server, routes, req, store, exchanges, logged, entered, lost>>

-----------------------------------------------------------------------------
(* Errors.                                                                 *)

StatusOf(e) ==
  CASE e = "" -> 200
    [] e \in {"INVALID_HOST", "INVALID_JSON", "BAD_REQUEST", "UNENCODABLE"} -> 400
    [] e \in {"INVALID_CREDENTIALS", "AUTHENTICATION_REQUIRED"} -> 401
    [] e \in {"FORBIDDEN", "CSRF_REJECTED"} -> 403
    [] e \in {"ROUTE_NOT_FOUND", "NOT_FOUND"} -> 404
    [] e = "METHOD_NOT_ALLOWED" -> 405
    [] e = "NOT_ACCEPTABLE" -> 406
    [] e = "PAYLOAD_TOO_LARGE" -> 413
    [] e = "UNSUPPORTED_MEDIA_TYPE" -> 415
    [] e = "VALIDATION_FAILED" -> 422
    [] e = "CANCELED" -> 499
    [] e = "TIMEOUT" -> 504
    [] OTHER -> 500

(* HandleError renders an error once, and only where nothing is written;   *)
(* details that cannot be encoded leave nothing to be written.             *)
Silent(e, r) == e = "" \/ ctx.handled \/ Written(r) \/ e = "UNENCODABLE"
Rendered(e, r) ==
  IF Silent(e, r) THEN r
  ELSE Write(WriteHeader([r EXCEPT !.header = SetHeader(@, "Content-Type", "json")], StatusOf(e)),
             Piece("error", FALSE))
Said(status, pieces) ==
  IF meant.status = 0 THEN [status |-> status, body |-> pieces, with |-> {}]
  ELSE [meant EXCEPT !.body = @ \o pieces]
Handles(e, r) ==
  /\ ctx' = [ctx EXCEPT !.handled = @ \/ e # ""]
  /\ meant' = IF Silent(e, r) THEN meant ELSE Said(StatusOf(e), <<"error">>)

(* A stage answers by itself: its writes, and the error it returns.        *)
Answer(r, status, pieces, e) ==
  /\ resp' = r /\ meant' = Said(status, pieces) /\ Return(e)
Pass(r, c) == resp' = r /\ ctx' = c /\ Proceed /\ UNCHANGED meant
Refuse(e) == Return(e) /\ UNCHANGED <<resp, ctx, meant>>

-----------------------------------------------------------------------------
(* The life of a request.                                                  *)

PipelineInit ==
  /\ server \in DOMAIN Servers /\ routes = <<>> /\ req = Absent
  /\ chain = <<>> /\ at = 0 /\ dir = "idle" /\ err = ""
  /\ resp = NewResponse(FALSE) /\ ctx = NewContext /\ store = {}
  /\ exchanges = 0 /\ logged = 0 /\ entered = FALSE /\ meant = Unsaid /\ lost = {}

(* buildPipeline: the stages the options ask for around the global         *)
(* middleware, and the router inside.                                      *)
Stages ==
  LET on(has, names) == IF has THEN [i \in DOMAIN names |-> [is |-> names[i]]] ELSE <<>>
  IN on(TRUE, <<"request-id">>) \o on(srv.log, <<"access-log", "error-boundary">>)
       \o on(srv.recovery, <<"recovery">>) \o on(TRUE, <<"security", "health">>)
       \o srv.stages \o <<[is |-> "router"]>>

Arrive ==
  /\ dir \in {"idle", "done"} /\ exchanges < MaxExchanges
  /\ req' \in IF exchanges = 0 THEN srv.requests ELSE srv.second
  /\ chain' = Stages /\ at' = 1 /\ dir' = "in" /\ err' = ""
  /\ resp' = NewResponse(req'.method = "HEAD") /\ ctx' = NewContext
  /\ exchanges' = exchanges + 1
  /\ logged' = 0 /\ entered' = FALSE /\ meant' = Unsaid /\ lost' = {}
  /\ UNCHANGED <<server, routes, store>>

(* ServeHTTP renders what no boundary has; finish is the composition's.    *)
ServeDone ==
  /\ dir = "out" /\ at = 0
  /\ Handles(err, resp) /\ resp' = Rendered(err, resp)
  /\ dir' = "done" /\ UNCHANGED <<chain, at, err>> /\ Quiet

(* A panic nobody recovers ends in net/http.                               *)
ServeAborts ==
  /\ dir \in {"panic", "abort"} /\ at = 0
  /\ dir' = "gone"
  /\ UNCHANGED <<chain, at, err, resp, ctx, meant>> /\ Quiet

-----------------------------------------------------------------------------
(* The built-in stages.                                                    *)

(* An incoming ID is kept when it is well-formed and from a trusted proxy. *)
AssignID ==
  /\ Going("in", "request-id")
  /\ LET id == IF req.id = "valid" /\ req.proxy THEN "incoming" ELSE "generated"
     IN Pass([resp EXCEPT !.header = SetHeader(@, "X-Request-Id", id)],
             [ctx EXCEPT !.id = id])
  /\ Quiet

(* Logger: the status sent, or the one the error stands for; the requests  *)
(* of health probes are not logged.                                        *)
Log ==
  /\ Going("out", "access-log")
  /\ logged' = CASE req.path \in srv.healthPaths -> 0
                 [] req.path \notin srv.healthPaths /\ Written(resp) -> Status(resp)
                 [] OTHER -> StatusOf(err)
  /\ Return(err)
  /\ UNCHANGED <<server, routes, req, store, exchanges, entered, lost, resp, ctx, meant>>

ErrorBoundary ==
  /\ Going("out", "error-boundary")
  /\ Handles(err, resp) /\ resp' = Rendered(err, resp)
  /\ Return(err) /\ Quiet

(* Recovery makes an error of a panic; http.ErrAbortHandler goes on.       *)
Recover ==
  /\ Going("panic", "recovery")
  /\ Refuse("PANIC") /\ Quiet

SecurityHeaders ==
  /\ Going("in", "security")
  /\ IF req.host = "bad" THEN Refuse("INVALID_HOST")
     ELSE Pass([resp EXCEPT !.header = SetHeader(@, "X-Frame-Options", "DENY")], ctx)
  /\ Quiet

(* healthRegistry.evaluate: starting and stopping applications are unready *)
(* without asking their checks; an optional check never counts.  A check   *)
(* that panics or is late is down.                                         *)
Healthy(kind, stopping, results) ==
  LET asked == {i \in DOMAIN srv.checks : kind # "/live" \/ srv.checks[i].live}
  IN /\ kind = "/live" \/ ~stopping
     /\ \A i \in asked : srv.checks[i].optional \/ results[i] = "up"

ServeHealth ==
  /\ Going("in", "health")
  /\ IF req.method \notin {"GET", "HEAD"} \/ req.path \notin srv.healthPaths
       THEN Pass(resp, ctx)
     ELSE \E stopping \in BOOLEAN, results \in [DOMAIN srv.checks -> {"up", "down"}] :
            LET status == IF Healthy(Head(req.path), stopping, results) THEN 200 ELSE 503
            IN /\ Answer(WriteBody([resp EXCEPT !.header = SetHeader(@, "Cache-Control", "no-store")],
                                   status, "json", Piece("health", FALSE)),
                         status, <<"health">>, "")
               /\ UNCHANGED ctx
  /\ Quiet

-----------------------------------------------------------------------------
(* The middleware package.                                                 *)

CorsAllowed == Stage.any \/ req.origin \in Stage.origins

Cors ==
  /\ Going("in", "cors")
  /\ LET preflight == req.method = "OPTIONS" /\ req.preflight
         vary == IF Stage.any /\ ~Stage.credentials THEN resp.header
                 ELSE AddHeader(resp.header, "Vary", "Origin")
         granted == SetHeader(vary, "Access-Control-Allow-Origin",
                              IF Stage.any /\ ~Stage.credentials THEN "*" ELSE req.origin)
         header == IF req.origin # "" /\ CorsAllowed THEN granted ELSE vary
         r == [resp EXCEPT !.header = header]
     IN IF preflight THEN Answer(WriteHeader(r, 204), 204, <<>>, "") /\ UNCHANGED ctx
        ELSE Pass(r, ctx)
  /\ Quiet

(* http.CrossOriginProtection.                                             *)
CrossSite ==
  /\ req.method \notin {"GET", "HEAD", "OPTIONS"}
  /\ CASE req.site = "" -> req.origin \notin {"", "self"}
       [] OTHER -> req.site \notin {"same-origin", "none"}
Csrf ==
  /\ Going("in", "csrf")
  /\ IF CrossSite /\ req.origin \notin Stage.trusted THEN Refuse("CSRF_REJECTED")
     ELSE Pass(resp, ctx)
  /\ Quiet

Timeout ==
  /\ Going("in", "timeout")
  /\ Pass(resp, [ctx EXCEPT !.deadline = TRUE])
  /\ Quiet

(* No header means the oldest version.                                     *)
APIVersion ==
  /\ Going("in", "version")
  /\ LET v == IF req.version = "" THEN Stage.allowed[1] ELSE req.version
     IN IF v \notin Range(Stage.allowed) THEN Refuse("BAD_REQUEST")
        ELSE Pass([resp EXCEPT !.header = AddHeader(SetHeader(@, "API-Version", v),
                                                    "Vary", "Accept-Version")],
                  [ctx EXCEPT !.version = v])
  /\ Quiet

CompressIn ==
  /\ Going("in", "compress")
  /\ LET r == [resp EXCEPT !.header = AddHeader(@, "Vary", "Accept-Encoding")]
         on == req.method # "HEAD" /\ AcceptsGzip(req.codings)
     IN /\ resp' = IF on THEN Cover(r, "gzip") ELSE r
        /\ chain' = [chain EXCEPT ![at] = [is |-> IF on THEN "compressing" ELSE "compress"]]
  /\ at' = at + 1
  /\ UNCHANGED <<dir, err, ctx, meant>> /\ Quiet

(* An error is rendered through the compressor before that is closed.      *)
CompressOut ==
  /\ Going("out", "compressing")
  /\ IF err # "" /\ ~Written(resp)
       THEN Handles(err, resp) /\ resp' = CloseGzip(Rendered(err, resp))
       ELSE resp' = CloseGzip(resp) /\ UNCHANGED <<ctx, meant>>
  /\ Return(err) /\ Quiet

(* Static: a file that is there when looked for may be gone when opened.   *)
Static ==
  /\ Going("in", "static")
  /\ LET unknown == req.path \notin Stage.files
         spa == Stage.spa /\ unknown
     IN IF req.method \notin {"GET", "HEAD"} \/ (unknown /\ ~spa) THEN Pass(resp, ctx)
        ELSE \/ /\ Answer(Write(WriteHeader(resp, 200), Piece("file", TRUE)), 200, <<"file">>, "")
                /\ UNCHANGED ctx
             \/ /\ Handles("NOT_FOUND", resp) /\ resp' = Rendered("NOT_FOUND", resp)
                /\ Return("")
  /\ Quiet

(* Standard middleware around the rest, with a writer of its own.          *)
WrapIn ==
  /\ Going("in", "std")
  /\ Pass(Cover(resp, "std"), ctx)
  /\ Quiet
WrapOut ==
  /\ Going("out", "std")
  /\ IF err # "" /\ ~Written(resp)
       THEN Handles(err, resp) /\ resp' = Uncover(Rendered(err, resp))
       ELSE resp' = Uncover(resp) /\ UNCHANGED <<ctx, meant>>
  /\ Return(err) /\ Quiet

HasCredentials == req.cred.bearer # Absent \/ req.cred.basic # Absent \/ req.cookie

(* (Slip: whatever was recorded is kept.)                                  *)
WorthKeepingAny(recorded) == recorded # {}

(* What the response cache keeps: a complete 200 that may be shared.       *)
WorthKeeping(recorded) ==
  \E s \in recorded : /\ s.status = 200 /\ req.method # "HEAD"
                      /\ <<"Cache-Control", "no-store">> \notin s.header

CacheIn ==
  /\ Going("in", "cache")
  /\ LET plain == req.method \in {"GET", "HEAD"} /\ ~HasCredentials /\ ~req.noCache
         kept == {s \in store : s.key = req.path}
     IN CASE ~plain -> Pass(resp, ctx)
          [] plain /\ kept # {} ->
               LET s == CHOOSE k \in kept : TRUE
               IN /\ Answer(Replay(resp, s.response, {<<"X-Cache", "HIT">>}), s.response.status,
                            [i \in DOMAIN s.response.body |-> s.response.body[i].of], "")
                  /\ UNCHANGED ctx
          [] OTHER ->
               /\ resp' = Cover([resp EXCEPT !.header = SetHeader(@, "X-Cache", "MISS")], "record")
               /\ chain' = [chain EXCEPT ![at] = [is |-> "caching"]]
               /\ at' = at + 1 /\ UNCHANGED <<dir, err, ctx, meant>>
  /\ Quiet

CacheOut ==
  /\ Going("out", "caching")
  /\ LET recorded == Captured(resp)
     IN store' = IF err = "" /\ WorthKeeping(recorded)
                   THEN store \cup {[key |-> req.path, response |-> s, by |-> req, said |-> meant]
                                       : s \in recorded}
                   ELSE store
  /\ resp' = Uncover(resp)
  /\ Return(err)
  /\ UNCHANGED <<server, routes, req, exchanges, logged, entered, lost, ctx, meant>>

CacheExpires ==
  /\ dir = "done" /\ store # {}
  /\ store' = {}
  /\ UNCHANGED <<server, routes, req, pathVars, resp, ctx, exchanges, seenVars>>

(* auth.Required, auth.Optional; auth.Require and its shorthands.          *)
Authenticating ==
  /\ Going("in", "auth")
  /\ LET who == Identify(ctx.user, Stage.optional, Stage.names, req.cred, Stage.cfg)
     IN IF who.error # "" THEN Refuse(who.error)
        ELSE Pass(resp, [ctx EXCEPT !.user = who.user])
  /\ Quiet

ParamValue == IF ctx.vals = <<>> THEN "" ELSE ctx.vals[1][1]

Authorizing ==
  /\ Going("in", "require")
  /\ LET refused == Authorize(ctx.user, Stage.need, ParamValue)
     IN IF refused # "" THEN Refuse(refused) ELSE Pass(resp, ctx)
  /\ Quiet

(* Sunset: headers only.                                                   *)
Sunset ==
  /\ Going("in", "sunset")
  /\ Pass([resp EXCEPT !.header = SetHeader(@, "Deprecation", "true")], ctx)
  /\ Quiet

(* Stages that do nothing on a way are passed.                             *)
PassedIn == {"access-log", "error-boundary", "recovery"}
PassIn ==
  /\ dir = "in" /\ at >= 1 /\ Stage.is \in PassedIn
  /\ Pass(resp, ctx) /\ Quiet
ActiveOut == {"access-log", "error-boundary", "compressing", "std", "caching"}
PassOut ==
  /\ dir = "out" /\ at >= 1 /\ Stage.is \notin ActiveOut
  /\ Return(err) /\ UNCHANGED <<resp, ctx, meant>> /\ Quiet

(* A panic runs what stages deferred: only WrapMiddleware restores the     *)
(* writer that way, the one it found.  The recorder of a cache passes      *)
(* everything on, what a compressor holds is never sent.                   *)
Covering == {"compressing", "std", "caching"}
Beneath == 1 + Cardinality({j \in 1..(at - 1) : chain[j].is \in Covering})
Unwind ==
  /\ dir \in {"panic", "abort"} /\ at >= 1
  /\ ~(dir = "panic" /\ Stage.is = "recovery")
  /\ at' = at - 1
  /\ lost' = IF Stage.is = "compressing" THEN lost \cup {"compressed"} ELSE lost
  /\ resp' = IF Stage.is = "std" THEN [resp EXCEPT !.layers = SubSeq(@, 1, Beneath)] ELSE resp
  /\ UNCHANGED <<server, routes, req, store, exchanges, logged, entered, chain, dir, err, ctx, meant>>

-----------------------------------------------------------------------------
(* The router.                                                             *)

(* A body too long by its declared length is refused before the handler;   *)
(* one of unknown length fails while it is read.                           *)
Follow(d) ==
  LET c == [ctx EXCEPT !.dispatched = TRUE, !.route = d.route, !.vals = d.vals, !.status = d.status]
      allow == [resp EXCEPT !.header = SetHeader(@, "Allow", Allowed(routes, req.path))]
  IN CASE d.route # NoRoute /\ req.length = "over" ->
            Return("PAYLOAD_TOO_LARGE") /\ ctx' = c /\ UNCHANGED <<resp, meant>>
       [] d.route # NoRoute /\ req.length # "over" ->
            /\ ctx' = c /\ at' = at + 1
            /\ chain' = chain \o d.route.stages \o <<[is |-> "handler"]>>
            /\ UNCHANGED <<dir, err, resp, meant>>
       [] d.route = NoRoute /\ d.status \in {301, 308} ->
            /\ ctx' = c
            /\ Answer(WriteHeader([resp EXCEPT !.header =
                        SetHeader(@, "Location", Alternative(req.path))], d.status),
                      d.status, <<>>, "")
       [] d.route = NoRoute /\ d.status = 204 ->
            ctx' = c /\ Answer(WriteHeader(allow, 204), 204, <<>>, "")
       [] d.route = NoRoute /\ d.status = 405 ->
            ctx' = c /\ resp' = allow /\ Return("METHOD_NOT_ALLOWED") /\ UNCHANGED meant
       [] OTHER ->
            ctx' = c /\ Return("ROUTE_NOT_FOUND") /\ UNCHANGED <<resp, meant>>
Route ==
  /\ Going("in", "router")
  /\ Follow(Dispatch(routes, req.method, req.path, srv.slash))
  /\ Quiet

-----------------------------------------------------------------------------
(* Handlers: what a handler of the program does with the Context.          *)

Handling(kind) == Going("in", "handler") /\ kind \in ctx.route.does /\ entered' = TRUE
Handled == UNCHANGED <<server, routes, req, store, exchanges, logged, lost>>

(* JSON, String, HTML, Bytes, Send: with or without a cookie, a header,    *)
(* a hook before the header; then perhaps an error, or a panic.            *)
Body(big) == <<Piece("handler", big)>>
Sends ==
  /\ Handling("send")
  /\ \E big \in BOOLEAN, with \in {"", "Set-Cookie", "Cache-Control", "Before"}, then \in {"", "FAILED", "panic"} :
       /\ with # "" => ~big /\ then = ""
       /\ LET value == IF with = "Cache-Control" THEN "no-store" ELSE "handler"
              r == CASE with = "" -> resp
                     [] with = "Before" -> Before(resp, <<"Set-Cookie", "session">>)
                     [] OTHER -> [resp EXCEPT !.header = SetHeader(@, with, value)]
          IN /\ resp' = WriteBody(r, 200, "json", Piece("handler", big))
             /\ meant' = [Said(200, <<"handler">>) EXCEPT !.with =
                            CASE with = "" -> {} [] with = "Before" -> {"Set-Cookie"} [] OTHER -> {with}]
             /\ IF then = "panic" THEN dir' = "panic" /\ at' = at - 1 /\ UNCHANGED <<err, chain>>
                ELSE Return(then)
  /\ UNCHANGED ctx /\ Handled

(* Status, NoContent, Redirect; or a handler that writes nothing at all.   *)
Bare ==
  /\ Handling("bare")
  /\ \/ \E status \in {204, 302} : Answer(WriteHeader(resp, status), status, <<>>, "")
     \/ Refuse("")
  /\ UNCHANGED ctx /\ Handled

(* An error, a panic, or http.ErrAbortHandler before anything is written.  *)
Fails ==
  /\ Handling("fail")
  /\ \/ \E e \in {"NOT_FOUND", "FAILED", "UNENCODABLE", "TIMEOUT"} :
          (e = "TIMEOUT" => ctx.deadline) /\ Refuse(e)
     \/ \E how \in {"panic", "abort"} :
          dir' = how /\ at' = at - 1 /\ UNCHANGED <<chain, err, resp, ctx, meant>>
  /\ UNCHANGED ctx /\ Handled

(* Stream and SSE: the header, then a flush after every piece.             *)
Streams ==
  /\ Handling("stream")
  /\ \E e \in {"", "CANCELED"} :
       LET begun == WriteHeader(resp, 200)
           piece(r) == Flush(Write(r, Piece("handler", FALSE)))
       IN Answer(piece(piece(begun)), 200, <<"handler", "handler">>, e)
  /\ UNCHANGED ctx /\ Handled

(* Format with the offers json and html.                                   *)
Offers == <<<<"application", "json">>, <<"text", "html">>>>
Formats ==
  /\ Handling("format")
  /\ LET best == ChosenOffer(req.accept, Offers)
         r == [resp EXCEPT !.header = AddHeader(@, "Vary", "Accept")]
     IN /\ ctx' = [ctx EXCEPT !.offer = best]
        /\ IF best = 0 THEN resp' = r /\ Return("NOT_ACCEPTABLE") /\ UNCHANGED meant
           ELSE Answer(WriteBody(r, 200, Offers[best][2], Piece("handler", FALSE)), 200, <<"handler">>, "")
  /\ Handled

(* The parameters and the body of the request, as bind.go reads them.      *)
Given ==
  LET names == ParamNames(ctx.route.pattern)
  IN [path |-> [n \in Range(names) |-> <<ctx.vals[CHOOSE i \in DOMAIN names : names[i] = n]>>],
      query |-> req.query, header |-> req.headers, cookie |-> req.cookies, body |-> req.body]

(* The value the validator sees of what was bound, and of the field Body.  *)
Number(raw) == CASE raw = <<"1">> -> 1 [] raw = <<"2">> -> 2 [] raw = <<"3">> -> 3 [] OTHER -> 0
AsValue(plan, value) ==
  StructOf([i \in DOMAIN plan.fields |->
    LET f == plan.fields[i]
        v == value[f.name]
    IN IF f.name = "Body" THEN req.body.value
       ELSE IF f.multi THEN IF v = <<>> THEN Nil ELSE ListOf([j \in DOMAIN v |-> Scalar(Number(v[j]))])
       ELSE IF v = <<>> THEN Scalar(0) ELSE Scalar(Number(v[1]))])

(* Handle's wrapper of a typed handler: bind, validate, call, and write    *)
(* the output, 204 for none.                                               *)
InputError(plan, bound) ==
  CASE bound.error # "" -> bound.error
    [] bound.error = "" /\ Validate(AsValue(plan, bound.value), ctx.route.rules) # <<>> ->
         "VALIDATION_FAILED"
    [] OTHER -> ""
Perform(input, failed) ==
  IF failed # "" THEN Refuse(failed) /\ UNCHANGED entered
  ELSE /\ entered' = TRUE
       /\ ctx' = [ctx EXCEPT !.input = input]
       /\ \/ Answer(WriteBody(resp, 200, "json", Piece("handler", FALSE)), 200, <<"handler">>, "")
          \/ Answer(WriteHeader(resp, 204), 204, <<>>, "")
          \/ Return("FAILED") /\ UNCHANGED <<resp, meant>>
Typed ==
  /\ Going("in", "handler") /\ "typed" \in ctx.route.does
  /\ LET plan == PlanFor(ctx.route.input)
         bound == BindPlan(plan, Given)
     IN Perform(bound.value, InputError(plan, bound))
  /\ Handled

-----------------------------------------------------------------------------
PipelineStep ==
  \/ AssignID \/ Log \/ ErrorBoundary \/ Recover \/ SecurityHeaders \/ ServeHealth
  \/ Cors \/ Csrf \/ Timeout \/ APIVersion \/ CompressIn \/ CompressOut \/ Static
  \/ WrapIn \/ WrapOut \/ CacheIn \/ CacheOut \/ CacheExpires
  \/ Authenticating \/ Authorizing \/ Sunset \/ PassIn \/ PassOut \/ Unwind \/ Route
  \/ Sends \/ Bare \/ Fails \/ Streams \/ Formats \/ Typed

-----------------------------------------------------------------------------
(* Properties.                                                             *)

(* The request is at a stage of its chain, and its writers are those of    *)
(* stages that cover them.                                                 *)
PipelineTypeOK ==
  /\ dir \in {"idle", "in", "out", "panic", "abort", "done", "gone"}
  /\ at \in 0..Len(chain) /\ exchanges \in 0..MaxExchanges
  /\ resp.layers[1].kind = "own"
  /\ \A i \in 2..Len(resp.layers) : resp.layers[i].kind \in {"gzip", "record", "std"}
  /\ logged \in {0} \cup 200..599 /\ entered \in BOOLEAN

(* What the client got is what the program said: the status and the body   *)
(* that the first of handler, stage or error rendering produced, once, in  *)
(* order and complete, with the headers that belong to it, compressed only *)
(* where the header says so and the client allows it, in the format it     *)
(* prefers; where the method has no route, the header tells those that     *)
(* have; and the access log tells the status.  (WriteHeader, Write,        *)
(* gzipWriter, Recorder, the error boundary and ServeHTTP together.)       *)
Sent == IF resp.wire.status = 0 THEN 200 ELSE resp.wire.status
Delivered ==
  LET pieces == resp.wire.body
      bodiless == resp.head \/ meant.status \in {204, 304}
      zipped == <<"Content-Encoding", "gzip">> \in resp.wire.header
  IN /\ Sent = IF meant.status = 0 THEN 200 ELSE meant.status
     /\ [i \in DOMAIN pieces |-> pieces[i].of] = IF bodiless THEN <<>> ELSE meant.body
     /\ \A name \in meant.with : HasHeader(resp.wire.header, name)
     /\ \A i \in DOMAIN pieces : pieces[i].zip = zipped
     /\ zipped => meant.status \notin {204, 304}
     /\ zipped => \E c \in Range(req.codings) : c.name \in {"gzip", "*"} /\ c.q > 0
     /\ logged \in {0, Sent}
     /\ ctx.offer # 0 /\ req.accept # <<>> =>
          \A offer \in Range(Offers) :
            Preference(req.accept, offer) <= Preference(req.accept, Offers[ctx.offer])
     /\ err = "NOT_ACCEPTABLE" => \A offer \in Range(Offers) : Preference(req.accept, offer) <= 0
     /\ ctx.status \in {204, 405} => <<"Allow", Allowed(routes, req.path)>> \in resp.wire.header

(* Two exceptions, both of the code: after a panic below a compressor what *)
(* it holds is never sent (see RecoveryResponds), and an error whose       *)
(* details cannot be encoded is not rendered at all (errors.go).           *)
OutcomeDelivered ==
  dir = "done" /\ "compressed" \notin lost /\ err # "UNENCODABLE" => Delivered

(* Recovery "converts panics into 500 errors: [...] a controlled response  *)
(* is rendered" (middleware.go), whatever middleware the panic went        *)
(* through.                                                                *)
RecoveryResponds ==
  dir = "done" /\ err = "PANIC" /\ meant.body = <<"error">> => Sent = 500

(* A handler runs only for a caller the credentials of the request prove   *)
(* and the policies of its route entitle: the first authenticator whose    *)
(* credential is there decides and no later one is asked, a failing lookup *)
(* turns into access only where an Any drops it for a later denial         *)
(* (ForgetsFailure), and the group's, the route's and the global           *)
(* requirements all hold whichever way the route was found (the global     *)
(* ones of a request that has no parameters yet).                          *)
Present(name, cred) ==
  CASE name = "bearer" -> cred.bearer # Absent [] name = "apikey" -> cred.key # Absent
    [] name = "basic" -> cred.basic # Absent [] OTHER -> FALSE
There(stage, cred) == {i \in DOMAIN stage.names : Present(stage.names[i], cred)}
Proven(user, stage, cred) ==
  LET name == stage.names[Min(There(stage, cred))]
      t == cred.bearer
  IN CASE name = "bearer" ->
            /\ t.signed /\ t.alg \in stage.cfg.algorithms /\ t.exp \in {"ahead", "withinLeeway"}
            /\ stage.cfg.issuer \in {"", t.issuer}
            /\ user = [id |-> t.sub, roles |-> t.roles, scopes |-> t.scopes] /\ t.sub # ""
       [] name = "apikey" -> cred.key \in DOMAIN Keys /\ user = Keys[cred.key]
       [] OTHER -> cred.basic \in Users /\ user.id = cred.basic[1]

HandlerEntitled ==
  LET guards == Stages \o ctx.route.stages
      asking == {i \in DOMAIN guards : guards[i].is = "auth"}
      told == {i \in asking : There(guards[i], req.cred) # {}}
  IN entered =>
       /\ req.length # "over" /\ req.host # "bad"
       /\ IF told = {} THEN ctx.user = Absent ELSE Proven(ctx.user, guards[Min(told)], req.cred)
       /\ \A i \in asking : (\A j \in told : i < j) => guards[i].optional
       /\ \A i \in DOMAIN guards :
            guards[i].is = "require" =>
              Entitled(ctx.user, guards[i].need, IF i > Len(Stages) THEN ParamValue ELSE "")

(* The router, for all its backtracking, finds the one route that no other *)
(* matching route beats segment by segment, with the values of that        *)
(* pattern; HEAD falls back to GET; a request without a route is answered  *)
(* by a redirect to a path that has one, by the methods that do, or by a   *)
(* 404; and the URL built for the route's name, of the values it was found *)
(* with, leads back to it.                                                 *)
RoutesBest ==
  ctx.dispatched =>
    LET best(m) == BestRoute(routes, m, req.path)
        direct == IF best(req.method).route = NoRoute /\ req.method = "HEAD" THEN best("GET")
                  ELSE best(req.method)
        able == {m \in Methods : best(m).route # NoRoute}
        names == ParamNames(ctx.route.pattern)
        given == [n \in Range(names) |-> ctx.vals[CHOOSE i \in DOMAIN names : names[i] = n]]
    IN /\ ctx.route = direct.route /\ ctx.vals = direct.vals
       /\ ctx.route # NoRoute =>
            /\ BuildURL(ctx.route, given) = req.path
            /\ \A r \in Range(routes) : r.name = ctx.route.name => r = ctx.route \/ r.name = ""
       /\ ctx.status \in {301, 308} =>
            BestRoute(routes, ReadMethod(req.method), Alternative(req.path)).route # NoRoute
       /\ ctx.status = 404 => able = {}
       /\ ctx.status \in {204, 405} =>
            /\ able # {} /\ req.method \notin able
            /\ Allowed(routes, req.path) = able \cup {"OPTIONS"}
                                              \cup (IF "GET" \in able THEN {"HEAD"} ELSE {})

(* What a typed handler gets: every parameter field holds what the request *)
(* says under its name, decoded, or the default, or nothing, whatever the  *)
(* body names; a strict input has no query parameter it does not declare;  *)
(* and the value satisfies the rules of its tags.                          *)
InputBound ==
  ctx.input # Absent =>
    LET plan == PlanFor(ctx.route.input)
    IN /\ \A f \in Range(plan.params) : ctx.input[f.name] = Expected(f, Given)
       /\ plan.strict => \A n \in DOMAIN req.query :
            \E f \in Range(plan.params) : f.in = "query" /\ ParamName(f) = n
       /\ MeetsStruct(AsValue(plan, ctx.input), ctx.route.rules)

(* The response cache only keeps what may be shared: the complete 200 that *)
(* a handler said, without an error, to a GET without credentials, neither *)
(* setting a cookie nor marked no-store.                                   *)
CacheHolds ==
  \A s \in store :
    /\ s.response.status = 200 /\ s.by.method = "GET"
    /\ s.by.cred.bearer = Absent /\ s.by.cred.basic = Absent /\ ~s.by.cookie
    /\ s.said.status = 200 /\ s.said.with = {}
    /\ [i \in DOMAIN s.response.body |-> s.response.body[i].of] = s.said.body
=============================================================================
