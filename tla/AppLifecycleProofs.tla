------------------------- MODULE AppLifecycleProofs -------------------------
(***************************************************************************)
(* Proofs about AppLifecycle, for any number of hooks, Serve calls,        *)
(* Shutdown calls and requests: its type invariant, its safety properties  *)
(* and StateForward.  The inductive invariant LifecycleInv says, for each  *)
(* point Start and Shutdown can be at, which hooks are up and which the    *)
(* lists a.started, undo and closing still hold, and which servers may     *)
(* accept a request; most of it only until a Shutdown begins while Start   *)
(* is running (early).  OverlapInv is what holds of the lists, the hooks   *)
(* and the state even then.                                                *)
(***************************************************************************)
EXTENDS AppLifecycle, SequenceTheorems, TLAPS

(* The hooks a list of the first k holds, in start order.                  *)
FirstHooks(k) == [i \in 1..k |-> i]

Admitted == {"publish", "select", "awaitDone", "shutdown", "await", "returned"}
Published == Admitted \ {"publish"}

(* The parts of TypeOK, so that a step shows only those it touches.        *)

StartTyped ==
  /\ state \in State
  /\ startPc \in StartPc
  /\ starter \in Starter \cup {None}
  /\ next \in 1..(NumHooks + 1)
  /\ read \in Seq(Hook) /\ started \in Seq(Hook)
  /\ undo \in Seq(Hook)

ServeTyped ==
  /\ servePc \in [ServeCall -> ServePc]
  /\ srv \in [ServeCall -> {"new", "serving", "shut", "failed"}]
  /\ server \in ServeCall \cup {None} /\ target \in ServeCall \cup {None}

ShutTyped ==
  /\ shut \in [Caller -> {"none", "enter", "inside", "returned"}]
  /\ shutPc \in ShutPc
  /\ once \in {"free", "busy", "over"}
  /\ stopRequest \in BOOLEAN /\ done \in BOOLEAN

ReqTyped ==
  /\ req \in [Request -> {"idle", "active", "over"}]
  /\ via \in [Request -> ServeCall \cup {None}]

HookTyped ==
  /\ closing \in Seq(Hook)
  /\ up \subseteq Hook
  /\ stops \in [Hook -> Nat]

HistTyped ==
  /\ early \in BOOLEAN /\ forced \in BOOLEAN
  /\ missed \subseteq ServeCall

(* Nothing has begun while the state is building; the append of Start      *)
(* comes only after one of its hooks.                                      *)
NextFits ==
  /\ state = "building" => startPc = "none" /\ shutPc = "none"
  /\ startPc \in {"append", "write"} => next <= NumHooks

(* a.stopOnce: who is inside, and that done is closed when it is over.     *)
OnceFits ==
  /\ once = "busy" <=> shutPc \notin {"none", "ended"}
  /\ shutPc = "ended" => once = "over"
  /\ done <=> once = "over"
  /\ once = "over" => startPc = "failed" \/ shutPc = "ended"
  /\ startPc = "failed" => once = "over"
  /\ early => once # "free"
  /\ \A c \in Caller : shut[c] = "returned" => once = "over"

(* Serve calls, their servers and the requests those accepted.             *)
ServersFit ==
  /\ server # None => servePc[server] \in Published
  /\ \A s \in ServeCall :
       /\ srv[s] # "new" => servePc[s] \in Published
       /\ srv[s] = "shut" => shutPc \notin {"none", "drain", "server"}
       /\ servePc[s] = "awaitDone" => srv[s] = "shut"
       /\ servePc[s] \in {"await", "returned"} => once = "over"
  /\ \A r \in Request : req[r] = "active" =>
       via[r] \in ServeCall /\ srv[via[r]] # "new"

(* a.state follows Start, and then Shutdown, which does not overlap it.    *)
StateFits ==
  /\ shutPc # "none" => startPc \in {"none", "ok"}
  /\ shutPc \notin {"none", "ended"} => state = "stopping"
  /\ shutPc = "ended" => state = "stopped"
  /\ shutPc = "none" =>
       /\ startPc = "none" => state = "building"
       /\ startPc \in {"prepare", "hook", "append", "write", "undo", "undoing",
                       "fail", "run"} => state = "starting"
       /\ startPc \in {"release", "failed"} => state = "failed"
       /\ startPc = "ok" => state = "running"

(* Until Start's undo or Shutdown takes it, a.started holds the hooks that *)
(* have been appended; none of these has been stopped.                     *)
StartHooksFit ==
  /\ startPc \in {"none", "prepare"} => next = 1
  /\ startPc \in {"run", "ok"} => next = NumHooks + 1
  /\ startPc = "write" => read = started
  /\ startPc \in {"none", "prepare", "hook", "append", "write", "undo", "run", "ok"}
       /\ shutPc \notin {"hooks", "ended"} =>
       /\ started = FirstHooks(next - 1)
       /\ up = 1..(IF startPc \in {"append", "write"} THEN next ELSE next - 1)
       /\ \A h \in Hook : stops[h] = 0

(* The list that is being stopped holds exactly the hooks that are up.     *)
StopHooksFit ==
  /\ startPc = "undoing" => undo = FirstHooks(Len(undo)) /\ up = 1..Len(undo)
  /\ shutPc = "hooks" => closing = FirstHooks(Len(closing)) /\ up = 1..Len(closing)
  /\ startPc \in {"fail", "release", "failed"} \/ shutPc = "ended" => up = {}
  /\ \A h \in Hook : stops[h] <= 1 /\ (h \in up => stops[h] = 0)

(* Serve admits a server only to a running application, and one that       *)
(* Shutdown saw accepts nothing any more.                                  *)
DrainFits ==
  /\ \A s \in ServeCall : servePc[s] \in Admitted => startPc = "ok"
  /\ shutPc \in {"http", "take", "hooks", "ended"} /\ missed = {} =>
       /\ \A s \in ServeCall : servePc[s] \in Admitted =>
            s = target /\ s = server /\ srv[s] \in {"shut", "failed"}
       /\ shutPc # "http" /\ ~forced => \A r \in Request : req[r] # "active"

LifecycleInv ==
  /\ StartTyped /\ ServeTyped /\ ShutTyped /\ ReqTyped /\ HookTyped /\ HistTyped
  /\ NextFits /\ OnceFits /\ ServersFit
  /\ ~early => StateFits /\ StartHooksFit /\ StopHooksFit /\ DrainFits

LEMMA TypeParts ==
  LifecycleInv => TypeOK
BY DEF LifecycleInv, TypeOK, StartTyped, ServeTyped, ShutTyped, ReqTyped, HookTyped,
       HistTyped

(* The hook a list stops next, and the rest of it.                         *)
LEMMA FrontLast ==
  ASSUME NEW s \in Seq(Hook), s # <<>>
  PROVE  /\ Front(s) \in Seq(Hook) /\ Len(Front(s)) = Len(s) - 1
         /\ Last(s) \in Hook /\ Len(s) \in Nat \ {0}
         /\ s = FirstHooks(Len(s)) =>
              Last(s) = Len(s) /\ Front(s) = FirstHooks(Len(Front(s)))
<1>1. Len(s) \in Nat \ {0} /\ Last(s) \in Hook
  BY DEF Last
<1>2. /\ Front(s) \in Seq(Hook) /\ Len(Front(s)) = Len(s) - 1
      /\ \A i \in 1..(Len(s) - 1) : Front(s)[i] = s[i]
  <2> DEFINE n == Len(s) - 1
  <2>1. n \in Nat /\ Len(s) = n + 1 /\ \A i \in 1..n : s[i] \in Hook
    BY <1>1
  <2> HIDE DEF n
  <2>2. /\ SubSeq(s, 1, n) \in Seq(Hook)
        /\ Len(SubSeq(s, 1, n)) = IF 1 <= n THEN n - 1 + 1 ELSE 0
        /\ \A i \in 1..(n - 1 + 1) : SubSeq(s, 1, n)[i] = s[1 + i - 1]
    <3>1. 1 \in Int /\ n \in Int
      BY <2>1
    <3> QED BY <2>1, <3>1, SubSeqProperties
  <2>3. Front(s) = SubSeq(s, 1, n)
    BY DEF Front, n
  <2> QED BY <2>1, <2>2, <2>3
<1>3. ASSUME s = FirstHooks(Len(s))
      PROVE  Last(s) = Len(s) /\ Front(s) = FirstHooks(Len(Front(s)))
  <2>1. \A i \in 1..Len(s) : s[i] = i
    BY <1>3 DEF FirstHooks
  <2>2. Front(s) = [i \in 1..Len(Front(s)) |-> Front(s)[i]]
    BY <1>2
  <2>3. \A i \in 1..Len(Front(s)) : Front(s)[i] = i
    BY <1>1, <1>2, <2>1
  <2>4. [i \in 1..Len(Front(s)) |-> Front(s)[i]] = [i \in 1..Len(Front(s)) |-> i]
    BY <2>3
  <2> QED BY <1>1, <2>1, <2>2, <2>4 DEF Last, FirstHooks
<1> QED BY <1>1, <1>2, <1>3

(* runStopHooks stops the last hook of a list that holds those that are up.*)
LEMMA LastStopped ==
  ASSUME NEW list \in Seq(Hook), list # <<>>, HookTyped, CallStop(list)
  PROVE  /\ up' \subseteq Hook /\ stops' \in [Hook -> Nat]
         /\ (/\ list = FirstHooks(Len(list)) /\ up = 1..Len(list)
             /\ \A h \in Hook : stops[h] <= 1 /\ (h \in up => stops[h] = 0)) =>
              /\ Front(list) = FirstHooks(Len(Front(list)))
              /\ up' = 1..Len(Front(list))
              /\ \A h \in Hook : stops'[h] <= 1 /\ (h \in up' => stops'[h] = 0)
<1>1. /\ Front(list) \in Seq(Hook) /\ Len(Front(list)) = Len(list) - 1
      /\ Last(list) \in Hook /\ Len(list) \in Nat \ {0}
      /\ list = FirstHooks(Len(list)) =>
           Last(list) = Len(list) /\ Front(list) = FirstHooks(Len(Front(list)))
  BY FrontLast
<1>2. /\ up' = up \ {Last(list)}
      /\ stops' \in [Hook -> Nat]
      /\ \A h \in Hook : stops'[h] = IF h = Last(list) THEN stops[h] + 1 ELSE stops[h]
  BY <1>1 DEF CallStop, HookTyped
<1>3. ASSUME list = FirstHooks(Len(list)), up = 1..Len(list)
      PROVE  up' = 1..Len(Front(list)) /\ Last(list) \in up /\ Last(list) \notin up'
  BY <1>1, <1>2, <1>3
<1> QED BY <1>1, <1>2, <1>3 DEF HookTyped

LEMMA FirstHooksGrow ==
  ASSUME NEW k \in Nat
  PROVE  /\ Append(FirstHooks(k), k + 1) = FirstHooks(k + 1)
         /\ Len(FirstHooks(k)) = k
         /\ FirstHooks(0) = <<>>
BY DEF FirstHooks

-----------------------------------------------------------------------------
(* What the steps of one side leave alone on the others.                   *)

(* Nothing Start or the hooks depend on has moved.                         *)
LEMMA StartAlone ==
  ASSUME LifecycleInv,
         UNCHANGED <<state, startVars, started, shutPc, closing, hookVars, early>>
  PROVE  /\ StartTyped' /\ HookTyped' /\ NextFits'
         /\ ~early' => StateFits' /\ StartHooksFit' /\ StopHooksFit'
<1>1. StartTyped' /\ HookTyped' /\ NextFits'
  BY DEF LifecycleInv, StartTyped, HookTyped, NextFits, startVars, hookVars
<1>2. ~early' => StateFits' /\ StartHooksFit' /\ StopHooksFit'
  BY DEF LifecycleInv, StateFits, StartHooksFit, StopHooksFit, startVars, hookVars
<1> QED BY <1>1, <1>2

(* Nothing Serve or the requests depend on has moved.                      *)
LEMMA ServeAlone ==
  ASSUME LifecycleInv,
         UNCHANGED <<serveVars, reqVars, shutPc, target, histVars>>,
         once = "over" => once' = "over",
         startPc = "ok" => startPc' = "ok"
  PROVE  /\ ServeTyped' /\ ReqTyped' /\ HistTyped' /\ ServersFit'
         /\ ~early' => DrainFits'
<1>1. ServeTyped' /\ ReqTyped' /\ HistTyped'
  BY DEF LifecycleInv, ServeTyped, ReqTyped, HistTyped, serveVars, reqVars,
                   histVars
<1>2. ServersFit'
  BY DEF LifecycleInv, ServersFit, serveVars, reqVars
<1>3. ~early' => DrainFits'
  BY DEF LifecycleInv, DrainFits, serveVars, reqVars, histVars
<1> QED BY <1>1, <1>2, <1>3

(* Nothing a.stopOnce depends on has moved.                                *)
LEMMA OnceAlone ==
  ASSUME LifecycleInv,
         UNCHANGED <<shut, shutPc, once, stopRequest, done, early>>,
         startPc' = "failed" <=> startPc = "failed"
  PROVE  ShutTyped' /\ OnceFits'
BY DEF LifecycleInv, ShutTyped, OnceFits

-----------------------------------------------------------------------------
(* Start.                                                                  *)

(* The compare-and-swap that lets one Start through.                       *)
LEMMA BeginKeeps ==
  ASSUME LifecycleInv, NEW who \in Starter, Begin(who),
         UNCHANGED <<started, shutVars, hookVars, histVars>>
  PROVE  /\ StartTyped' /\ HookTyped' /\ NextFits' /\ ShutTyped' /\ OnceFits' /\ HistTyped'
         /\ ~early' => StateFits' /\ StartHooksFit' /\ StopHooksFit'
<1>1. /\ startPc = "none" /\ startPc' = "prepare" /\ state' = "starting"
      /\ shutPc = "none" /\ shutPc' = "none"
      /\ UNCHANGED <<next, started, early, up, stops, closing>>
  BY DEF LifecycleInv, NextFits, Begin, shutVars, hookVars, histVars
<1>2. StartTyped' /\ HookTyped' /\ HistTyped'
  BY DEF Begin, LifecycleInv, StartTyped, HookTyped, HistTyped, State, StartPc,
         shutVars, hookVars, histVars
<1>3. NextFits'
  BY <1>1 DEF NextFits
<1>4. ShutTyped' /\ OnceFits'
  BY <1>1 DEF LifecycleInv, ShutTyped, OnceFits, shutVars
<1>5. ~early' => StateFits'
  BY <1>1 DEF StateFits
<1>6. ~early' => StartHooksFit'
  BY <1>1 DEF LifecycleInv, StartHooksFit
<1>7. ~early' => StopHooksFit'
  BY <1>1 DEF LifecycleInv, StopHooksFit
<1> QED BY <1>2, <1>3, <1>4, <1>5, <1>6, <1>7

LEMMA ProgramStartKeeps ==
  ASSUME LifecycleInv, ProgramStart
  PROVE  LifecycleInv'
<1>1. /\ StartTyped' /\ HookTyped' /\ NextFits' /\ ShutTyped' /\ OnceFits' /\ HistTyped'
      /\ ~early' => StateFits' /\ StartHooksFit' /\ StopHooksFit'
  BY BeginKeeps DEF ProgramStart, Starter
<1>2. startPc = "none"
  BY DEF ProgramStart, Begin, LifecycleInv, NextFits
<1>3. /\ ServeTyped' /\ ReqTyped' /\ ServersFit'
      /\ ~early' => DrainFits'
  BY <1>2, ServeAlone DEF ProgramStart, shutVars
<1> QED BY <1>1, <1>3 DEF LifecycleInv

(* A Serve call on a new application calls Start, or has lost to another.  *)
LEMMA ServeStartKeeps ==
  ASSUME LifecycleInv, NEW s \in ServeCall, ServeStart(s)
  PROVE  LifecycleInv'
<1>1. /\ ServeTyped' /\ ReqTyped' /\ HistTyped'
      /\ ServersFit'
  BY DEF ServeStart, LifecycleInv, ServeTyped, ReqTyped, HistTyped, ServersFit,
         ServePc,
         Published, Admitted, shutVars, reqVars, histVars
<1>2. CASE Begin(s)
  <2>1. /\ StartTyped' /\ HookTyped' /\ NextFits' /\ ShutTyped' /\ OnceFits'
        /\ ~early' => StateFits' /\ StartHooksFit' /\ StopHooksFit'
    BY <1>2, BeginKeeps DEF ServeStart, Starter
  <2>2. startPc = "none" /\ shutPc' = "none" /\ UNCHANGED early
    BY <1>2 DEF Begin, ServeStart, LifecycleInv, NextFits, shutVars, histVars
  <2>3. \A t \in ServeCall : servePc'[t] \in {servePc[t], "starting", "refused"}
    BY DEF ServeStart, LifecycleInv, ServeTyped
  <2>4. ~early' => DrainFits'
    BY <2>2, <2>3 DEF LifecycleInv, DrainFits, Admitted
  <2> QED BY <1>1, <2>1, <2>4 DEF LifecycleInv
<1>3. CASE UNCHANGED <<state, startVars>>
  <2>1. /\ StartTyped' /\ HookTyped' /\ NextFits'
        /\ ~early' => StateFits' /\ StartHooksFit' /\ StopHooksFit'
    BY <1>3, StartAlone DEF ServeStart, shutVars, histVars
  <2>2. ShutTyped' /\ OnceFits'
    BY <1>3, OnceAlone DEF ServeStart, startVars, shutVars, histVars
  <2>3. \A t \in ServeCall : servePc'[t] \in {servePc[t], "starting", "refused"}
    BY DEF ServeStart, LifecycleInv, ServeTyped
  <2>4. UNCHANGED <<startPc, shutPc, early, missed, forced, target, server, srv, req>>
    BY <1>3 DEF ServeStart, startVars, shutVars, reqVars, histVars
  <2>5. ~early' => DrainFits'
    BY <2>3, <2>4 DEF LifecycleInv, DrainFits, Admitted
  <2> QED BY <1>1, <2>1, <2>2, <2>5 DEF LifecycleInv
<1> QED BY <1>2, <1>3 DEF ServeStart

LEMMA PrepareKeeps ==
  ASSUME LifecycleInv, Prepare
  PROVE  LifecycleInv'
<1>1. /\ ServeTyped' /\ ReqTyped' /\ HistTyped' /\ ServersFit'
      /\ ~early' => DrainFits'
  BY ServeAlone DEF Prepare, shutVars
<1>2. ShutTyped' /\ OnceFits'
  BY OnceAlone DEF Prepare, shutVars, histVars
<1>3. StartTyped' /\ HookTyped' /\ NextFits'
  BY LifecycleAssumption
  DEF Prepare, LifecycleInv, StartTyped, HookTyped, NextFits, StartPc, State, Hook,
      hookVars, shutVars
<1>4. ~early' => StateFits'
  BY DEF Prepare, LifecycleInv, StartTyped, OnceFits, StateFits, shutVars, histVars
<1>5. ~early' => StartHooksFit'
  BY LifecycleAssumption
  DEF Prepare, LifecycleInv, StartTyped, HookTyped, StateFits, StartHooksFit,
      NextFits, Hook, CallStop, hookVars, shutVars, histVars
<1>6. ~early' => StopHooksFit'
  BY LifecycleAssumption
  DEF Prepare, LifecycleInv, StartTyped, HookTyped, StateFits, StartHooksFit,
      StopHooksFit, NextFits, Hook, CallStop, hookVars, shutVars, histVars
<1> QED BY <1>1, <1>2, <1>3, <1>4, <1>5, <1>6 DEF LifecycleInv

LEMMA StartHookKeeps ==
  ASSUME LifecycleInv, StartHook
  PROVE  LifecycleInv'
<1>1. /\ ServeTyped' /\ ReqTyped' /\ HistTyped' /\ ServersFit'
      /\ ~early' => DrainFits'
  BY ServeAlone DEF StartHook, shutVars
<1>2. ShutTyped' /\ OnceFits'
  BY OnceAlone DEF StartHook, shutVars, histVars
<1>3. StartTyped' /\ HookTyped' /\ NextFits'
  <2>1. startPc = "hook" /\ next \in 1..(NumHooks + 1) /\ next <= NumHooks
    BY DEF LifecycleInv, StartTyped, StartHook
  <2>2. next \in Hook
    BY <2>1, LifecycleAssumption DEF Hook
  <2>3. HookTyped'
    BY <2>2 DEF LifecycleInv, HookTyped, StartHook, shutVars
  <2>4. StartTyped'
    BY DEF LifecycleInv, StartTyped, StartHook, StartPc
  <2> QED BY <2>1, <2>3, <2>4 DEF LifecycleInv, NextFits, StartHook, shutVars
<1>4. ~early' => StateFits'
  BY DEF StartHook, LifecycleInv, StartTyped, OnceFits, StateFits, shutVars, histVars
<1>5. ASSUME ~early' PROVE StartHooksFit'
  <2>1. /\ startPc = "hook" /\ shutPc = "none" /\ startPc' \in {"append", "undo"}
        /\ next \in Nat \ {0}
        /\ UNCHANGED <<next, started, stops>>
    BY <1>5, LifecycleAssumption
    DEF StartHook, LifecycleInv, StateFits, StartTyped, histVars
  <2>2. /\ started = FirstHooks(next - 1) /\ up = 1..(next - 1)
        /\ \A h \in Hook : stops[h] = 0
    BY <1>5, <2>1 DEF StartHook, LifecycleInv, StartHooksFit, histVars
  <2>3. /\ startPc' = "append" => up' = (1..(next - 1)) \cup {next}
        /\ startPc' = "undo" => up' = 1..(next - 1)
    BY <2>2 DEF StartHook
  <2>4. (1..(next - 1)) \cup {next} = 1..next
    BY <2>1
  <2> QED BY <2>1, <2>2, <2>3, <2>4 DEF StartHooksFit
<1>6. ~early' => StopHooksFit'
  BY LifecycleAssumption
  DEF StartHook, LifecycleInv, StartTyped, HookTyped, StateFits, StartHooksFit,
      StopHooksFit, NextFits, Hook, CallStop, hookVars, shutVars, histVars
<1> QED BY <1>1, <1>2, <1>3, <1>4, <1>5, <1>6 DEF LifecycleInv

LEMMA AppendReadKeeps ==
  ASSUME LifecycleInv, AppendRead
  PROVE  LifecycleInv'
<1>1. /\ ServeTyped' /\ ReqTyped' /\ HistTyped' /\ ServersFit'
      /\ ~early' => DrainFits'
  BY ServeAlone DEF AppendRead, shutVars
<1>2. ShutTyped' /\ OnceFits'
  BY OnceAlone DEF AppendRead, shutVars, histVars
<1>3. StartTyped' /\ HookTyped' /\ NextFits'
  BY LifecycleAssumption
  DEF AppendRead, LifecycleInv, StartTyped, HookTyped, NextFits, StartPc, State,
      Hook, hookVars, shutVars
<1>4. ~early' => StateFits'
  BY DEF AppendRead, LifecycleInv, StartTyped, OnceFits, StateFits, shutVars, histVars
<1>5. ~early' => StartHooksFit'
  BY LifecycleAssumption
  DEF AppendRead, LifecycleInv, StartTyped, HookTyped, StateFits, StartHooksFit,
      NextFits, Hook, CallStop, hookVars, shutVars, histVars
<1>6. ~early' => StopHooksFit'
  BY LifecycleAssumption
  DEF AppendRead, LifecycleInv, StartTyped, HookTyped, StateFits, StartHooksFit,
      StopHooksFit, NextFits, Hook, CallStop, hookVars, shutVars, histVars
<1> QED BY <1>1, <1>2, <1>3, <1>4, <1>5, <1>6 DEF LifecycleInv

LEMMA AppendWriteKeeps ==
  ASSUME LifecycleInv, AppendWrite
  PROVE  LifecycleInv'
<1>1. /\ ServeTyped' /\ ReqTyped' /\ HistTyped' /\ ServersFit'
      /\ ~early' => DrainFits'
  BY ServeAlone DEF AppendWrite, shutVars
<1>2. ShutTyped' /\ OnceFits'
  BY OnceAlone DEF AppendWrite, shutVars, histVars
<1>3. StartTyped' /\ HookTyped' /\ NextFits'
  <2>1. startPc = "write" /\ next \in 1..(NumHooks + 1) /\ next <= NumHooks
    BY DEF LifecycleInv, StartTyped, NextFits, AppendWrite
  <2>2. next \in Hook /\ next + 1 \in 1..(NumHooks + 1)
    BY <2>1, LifecycleAssumption DEF Hook
  <2>3. Append(read, next) \in Seq(Hook)
    BY <2>2 DEF LifecycleInv, StartTyped
  <2>4. StartTyped'
    BY <2>2, <2>3 DEF LifecycleInv, StartTyped, AppendWrite, StartPc
  <2> QED BY <2>4 DEF LifecycleInv, HookTyped, NextFits, AppendWrite, hookVars,
      shutVars
<1>4. ~early' => StateFits'
  BY DEF AppendWrite, LifecycleInv, StartTyped, OnceFits, StateFits, shutVars,
         histVars
<1>5. ASSUME ~early' PROVE StartHooksFit'
  <2>1. /\ startPc = "write" /\ shutPc = "none" /\ startPc' = "hook"
        /\ next \in Nat \ {0} /\ next' = next + 1
        /\ UNCHANGED <<up, stops>>
    BY <1>5, LifecycleAssumption
    DEF AppendWrite, LifecycleInv, StateFits, StartTyped, hookVars, histVars
  <2>2. /\ read = FirstHooks(next - 1) /\ up = 1..next
        /\ \A h \in Hook : stops[h] = 0
    BY <1>5, <2>1 DEF AppendWrite, LifecycleInv, StartHooksFit, histVars
  <2>3. next - 1 \in Nat /\ (next - 1) + 1 = next /\ next' - 1 = next
    BY <2>1
  <2>4. Append(FirstHooks(next - 1), (next - 1) + 1) = FirstHooks((next - 1) + 1)
    BY <2>3, FirstHooksGrow
  <2>5. started' = FirstHooks(next' - 1)
    BY <2>2, <2>3, <2>4 DEF AppendWrite
  <2> QED BY <2>1, <2>2, <2>3, <2>5 DEF StartHooksFit
<1>6. ~early' => StopHooksFit'
  BY LifecycleAssumption, FirstHooksGrow
  DEF AppendWrite, LifecycleInv, StartTyped, HookTyped, StateFits, StartHooksFit,
      StopHooksFit, NextFits, Hook, CallStop, hookVars, shutVars, histVars
<1> QED BY <1>1, <1>2, <1>3, <1>4, <1>5, <1>6 DEF LifecycleInv

LEMMA HooksStartedKeeps ==
  ASSUME LifecycleInv, HooksStarted
  PROVE  LifecycleInv'
<1>1. /\ ServeTyped' /\ ReqTyped' /\ HistTyped' /\ ServersFit'
      /\ ~early' => DrainFits'
  BY ServeAlone DEF HooksStarted, shutVars
<1>2. ShutTyped' /\ OnceFits'
  BY OnceAlone DEF HooksStarted, shutVars, histVars
<1>3. StartTyped' /\ HookTyped' /\ NextFits'
  BY LifecycleAssumption
  DEF HooksStarted, LifecycleInv, StartTyped, HookTyped, NextFits, StartPc, State,
      Hook, hookVars, shutVars
<1>4. ~early' => StateFits'
  BY DEF HooksStarted, LifecycleInv, StartTyped, OnceFits, StateFits, shutVars,
         histVars
<1>5. ~early' => StartHooksFit'
  BY LifecycleAssumption
  DEF HooksStarted, LifecycleInv, StartTyped, HookTyped, StateFits, StartHooksFit,
      NextFits, Hook, CallStop, hookVars, shutVars, histVars
<1>6. ~early' => StopHooksFit'
  BY LifecycleAssumption
  DEF HooksStarted, LifecycleInv, StartTyped, HookTyped, StateFits, StartHooksFit,
      StopHooksFit, NextFits, Hook, CallStop, hookVars, shutVars, histVars
<1> QED BY <1>1, <1>2, <1>3, <1>4, <1>5, <1>6 DEF LifecycleInv

LEMMA UndoTakeKeeps ==
  ASSUME LifecycleInv, UndoTake
  PROVE  LifecycleInv'
<1>1. /\ ServeTyped' /\ ReqTyped' /\ HistTyped' /\ ServersFit'
      /\ ~early' => DrainFits'
  BY ServeAlone DEF UndoTake, shutVars
<1>2. ShutTyped' /\ OnceFits'
  BY OnceAlone DEF UndoTake, shutVars, histVars
<1>3. StartTyped' /\ HookTyped' /\ NextFits'
  <2>1. <<>> \in Seq(Hook)
    OBVIOUS
  <2>2. StartTyped'
    BY <2>1 DEF UndoTake, LifecycleInv, StartTyped, StartPc
  <2> QED BY <2>2 DEF UndoTake, LifecycleInv, HookTyped, NextFits, hookVars, shutVars
<1>4. ~early' => StateFits'
  BY DEF UndoTake, LifecycleInv, StartTyped, OnceFits, StateFits, shutVars, histVars
<1>5. ~early' => StartHooksFit'
  BY LifecycleAssumption, FirstHooksGrow
  DEF UndoTake, LifecycleInv, StartTyped, HookTyped, StateFits, StartHooksFit,
      NextFits, Hook, CallStop, hookVars, shutVars, histVars
<1>6. ASSUME ~early' PROVE StopHooksFit'
  <2>1. /\ startPc = "undo" /\ shutPc = "none" /\ startPc' = "undoing" /\ shutPc' = "none"
        /\ next \in Nat \ {0} /\ undo' = started
        /\ UNCHANGED <<up, stops>>
    BY <1>6, LifecycleAssumption
    DEF UndoTake, LifecycleInv, StateFits, StartTyped, hookVars, shutVars, histVars
  <2>2. /\ started = FirstHooks(next - 1) /\ up = 1..(next - 1)
        /\ \A h \in Hook : stops[h] = 0
    BY <1>6, <2>1 DEF UndoTake, LifecycleInv, StartHooksFit, histVars
  <2>3. undo' = FirstHooks(Len(undo')) /\ Len(undo') = next - 1
    BY <2>1, <2>2, FirstHooksGrow, next - 1 \in Nat
  <2> QED BY <2>1, <2>2, <2>3 DEF StopHooksFit
<1> QED BY <1>1, <1>2, <1>3, <1>4, <1>5, <1>6 DEF LifecycleInv

LEMMA UndoHookKeeps ==
  ASSUME LifecycleInv, UndoHook
  PROVE  LifecycleInv'
<1>1. /\ ServeTyped' /\ ReqTyped' /\ HistTyped' /\ ServersFit'
      /\ ~early' => DrainFits'
  BY ServeAlone DEF UndoHook, shutVars
<1>2. ShutTyped' /\ OnceFits'
  BY OnceAlone DEF UndoHook, shutVars, histVars
<1>3. StartTyped' /\ HookTyped' /\ NextFits'
  <2>1. undo \in Seq(Hook) /\ undo # <<>>
    BY DEF LifecycleInv, StartTyped, UndoHook
  <2>2. StartTyped'
    BY <2>1, FrontLast DEF UndoHook, LifecycleInv, StartTyped
  <2>3. HookTyped'
    BY <2>1, LastStopped DEF UndoHook, LifecycleInv, HookTyped, shutVars
  <2> QED BY <2>2, <2>3 DEF UndoHook, LifecycleInv, NextFits
<1>4. ~early' => StateFits'
  BY DEF UndoHook, LifecycleInv, StartTyped, OnceFits, StateFits, shutVars, histVars
<1>5. ~early' => StartHooksFit'
  BY LifecycleAssumption, FrontLast
  DEF UndoHook, LifecycleInv, StartTyped, HookTyped, StateFits, StartHooksFit,
      NextFits, Hook, CallStop, hookVars, shutVars, histVars
<1>6. ASSUME ~early' PROVE StopHooksFit'
  <2>1. /\ undo \in Seq(Hook) /\ undo # <<>> /\ CallStop(undo) /\ undo' = Front(undo)
        /\ startPc = "undoing" /\ startPc' = "undoing"
        /\ shutPc = "none" /\ shutPc' = "none"
    BY <1>6 DEF LifecycleInv, StartTyped, StateFits, UndoHook, shutVars, histVars
  <2>2. /\ undo = FirstHooks(Len(undo)) /\ up = 1..Len(undo)
        /\ \A h \in Hook : stops[h] <= 1 /\ (h \in up => stops[h] = 0)
    BY <1>6, <2>1 DEF LifecycleInv, StopHooksFit, UndoHook, histVars
  <2>3. HookTyped
    BY DEF LifecycleInv
  <2> QED BY <2>1, <2>2, <2>3, LastStopped DEF StopHooksFit
<1> QED BY <1>1, <1>2, <1>3, <1>4, <1>5, <1>6 DEF LifecycleInv

LEMMA UndoEndKeeps ==
  ASSUME LifecycleInv, UndoEnd
  PROVE  LifecycleInv'
<1>1. /\ ServeTyped' /\ ReqTyped' /\ HistTyped' /\ ServersFit'
      /\ ~early' => DrainFits'
  BY ServeAlone DEF UndoEnd, shutVars
<1>2. ShutTyped' /\ OnceFits'
  BY OnceAlone DEF UndoEnd, shutVars, histVars
<1>3. StartTyped' /\ HookTyped' /\ NextFits'
  BY LifecycleAssumption
  DEF UndoEnd, LifecycleInv, StartTyped, HookTyped, NextFits, StartPc, State, Hook,
      hookVars, shutVars
<1>4. ~early' => StateFits'
  BY DEF UndoEnd, LifecycleInv, StartTyped, OnceFits, StateFits, shutVars, histVars
<1>5. ~early' => StartHooksFit'
  BY LifecycleAssumption
  DEF UndoEnd, LifecycleInv, StartTyped, HookTyped, StateFits, StartHooksFit,
      NextFits, Hook, CallStop, hookVars, shutVars, histVars
<1>6. ~early' => StopHooksFit'
  BY LifecycleAssumption
  DEF UndoEnd, LifecycleInv, StartTyped, HookTyped, StateFits, StartHooksFit,
      StopHooksFit, NextFits, Hook, CallStop, hookVars, shutVars, histVars
<1> QED BY <1>1, <1>2, <1>3, <1>4, <1>5, <1>6 DEF LifecycleInv

LEMMA StoreFailedKeeps ==
  ASSUME LifecycleInv, StoreFailed
  PROVE  LifecycleInv'
<1>1. /\ ServeTyped' /\ ReqTyped' /\ HistTyped' /\ ServersFit'
      /\ ~early' => DrainFits'
  BY ServeAlone DEF StoreFailed, shutVars
<1>2. ShutTyped' /\ OnceFits'
  BY OnceAlone DEF StoreFailed, shutVars, histVars
<1>3. StartTyped' /\ HookTyped' /\ NextFits'
  BY LifecycleAssumption
  DEF StoreFailed, LifecycleInv, StartTyped, HookTyped, NextFits, StartPc, State,
      Hook, hookVars, shutVars
<1>4. ~early' => StateFits'
  BY DEF StoreFailed, LifecycleInv, StartTyped, OnceFits, StateFits, shutVars,
         histVars
<1>5. ~early' => StartHooksFit'
  BY LifecycleAssumption
  DEF StoreFailed, LifecycleInv, StartTyped, HookTyped, StateFits, StartHooksFit,
      NextFits, Hook, CallStop, hookVars, shutVars, histVars
<1>6. ~early' => StopHooksFit'
  BY LifecycleAssumption
  DEF StoreFailed, LifecycleInv, StartTyped, HookTyped, StateFits, StartHooksFit,
      StopHooksFit, NextFits, Hook, CallStop, hookVars, shutVars, histVars
<1> QED BY <1>1, <1>2, <1>3, <1>4, <1>5, <1>6 DEF LifecycleInv

LEMMA FailReleaseKeeps ==
  ASSUME LifecycleInv, FailRelease
  PROVE  LifecycleInv'
<1>1. /\ ServeTyped' /\ ReqTyped' /\ HistTyped' /\ ServersFit'
      /\ ~early' => DrainFits'
  BY ServeAlone DEF FailRelease, shutVars
<1>2. ShutTyped' /\ OnceFits'
  BY DEF FailRelease, LifecycleInv, ShutTyped, OnceFits, histVars
<1>3. StartTyped' /\ HookTyped' /\ NextFits'
  BY LifecycleAssumption
  DEF FailRelease, LifecycleInv, StartTyped, HookTyped, NextFits, StartPc, State,
      Hook, hookVars, shutVars
<1>4. ~early' => StateFits'
  BY DEF FailRelease, LifecycleInv, StartTyped, OnceFits, StateFits, shutVars,
         histVars
<1>5. ~early' => StartHooksFit'
  BY LifecycleAssumption
  DEF FailRelease, LifecycleInv, StartTyped, HookTyped, StateFits, StartHooksFit,
      NextFits, Hook, CallStop, hookVars, shutVars, histVars
<1>6. ~early' => StopHooksFit'
  BY LifecycleAssumption
  DEF FailRelease, LifecycleInv, StartTyped, HookTyped, StateFits, StartHooksFit,
      StopHooksFit, NextFits, Hook, CallStop, hookVars, shutVars, histVars
<1> QED BY <1>1, <1>2, <1>3, <1>4, <1>5, <1>6 DEF LifecycleInv

LEMMA StoreRunningKeeps ==
  ASSUME LifecycleInv, StoreRunning
  PROVE  LifecycleInv'
<1>1. /\ ServeTyped' /\ ReqTyped' /\ HistTyped' /\ ServersFit'
      /\ ~early' => DrainFits'
  BY ServeAlone DEF StoreRunning, shutVars
<1>2. ShutTyped' /\ OnceFits'
  BY OnceAlone DEF StoreRunning, shutVars, histVars
<1>3. StartTyped' /\ HookTyped' /\ NextFits'
  BY LifecycleAssumption
  DEF StoreRunning, LifecycleInv, StartTyped, HookTyped, NextFits, StartPc, State,
      Hook, hookVars, shutVars
<1>4. ~early' => StateFits'
  BY DEF StoreRunning, LifecycleInv, StartTyped, OnceFits, StateFits, shutVars,
         histVars
<1>5. ~early' => StartHooksFit'
  BY LifecycleAssumption
  DEF StoreRunning, LifecycleInv, StartTyped, HookTyped, StateFits, StartHooksFit,
      NextFits, Hook, CallStop, hookVars, shutVars, histVars
<1>6. ~early' => StopHooksFit'
  BY LifecycleAssumption
  DEF StoreRunning, LifecycleInv, StartTyped, HookTyped, StateFits, StartHooksFit,
      StopHooksFit, NextFits, Hook, CallStop, hookVars, shutVars, histVars
<1> QED BY <1>1, <1>2, <1>3, <1>4, <1>5, <1>6 DEF LifecycleInv

-----------------------------------------------------------------------------
(* Serve.                                                                  *)

LEMMA ServeBeginKeeps ==
  ASSUME LifecycleInv, NEW s \in ServeCall, ServeBegin(s)
  PROVE  LifecycleInv'
<1>1. /\ StartTyped' /\ HookTyped' /\ NextFits'
      /\ ~early' => StateFits' /\ StartHooksFit' /\ StopHooksFit'
  BY StartAlone DEF ServeBegin, shutVars, histVars
<1>2. ShutTyped' /\ OnceFits'
  BY OnceAlone DEF ServeBegin, startVars, shutVars, histVars
<1>3. ServeTyped' /\ ReqTyped' /\ HistTyped'
  BY DEF ServeBegin, LifecycleInv, ServeTyped, ReqTyped, HistTyped, ServePc,
         shutVars, reqVars, histVars
<1>4. ServersFit'
  BY DEF ServeBegin, LifecycleInv, ServeTyped, ReqTyped, ServersFit, OnceFits,
         Published, Admitted, startVars, shutVars, reqVars
<1>5. ~early' => DrainFits'
  BY DEF ServeBegin, LifecycleInv, ServeTyped, DrainFits, ServersFit, OnceFits,
         StateFits, Published, Admitted, startVars, shutVars, reqVars, histVars
<1> QED BY <1>1, <1>2, <1>3, <1>4, <1>5 DEF LifecycleInv

LEMMA ServeStartedKeeps ==
  ASSUME LifecycleInv, NEW s \in ServeCall, ServeStarted(s)
  PROVE  LifecycleInv'
<1>1. /\ StartTyped' /\ HookTyped' /\ NextFits'
      /\ ~early' => StateFits' /\ StartHooksFit' /\ StopHooksFit'
  BY StartAlone DEF ServeStarted, shutVars, histVars
<1>2. ShutTyped' /\ OnceFits'
  BY OnceAlone DEF ServeStarted, startVars, shutVars, histVars
<1>3. ServeTyped' /\ ReqTyped' /\ HistTyped'
  BY DEF ServeStarted, LifecycleInv, ServeTyped, ReqTyped, HistTyped, ServePc,
         shutVars, reqVars, histVars
<1>4. ServersFit'
  BY DEF ServeStarted, LifecycleInv, ServeTyped, ReqTyped, ServersFit, OnceFits,
         Published, Admitted, startVars, shutVars, reqVars
<1>5. ~early' => DrainFits'
  BY DEF ServeStarted, LifecycleInv, ServeTyped, DrainFits, ServersFit, OnceFits,
         StateFits, Published, Admitted, startVars, shutVars, reqVars, histVars
<1> QED BY <1>1, <1>2, <1>3, <1>4, <1>5 DEF LifecycleInv

LEMMA ServeCheckKeeps ==
  ASSUME LifecycleInv, NEW s \in ServeCall, ServeCheck(s)
  PROVE  LifecycleInv'
<1>1. /\ StartTyped' /\ HookTyped' /\ NextFits'
      /\ ~early' => StateFits' /\ StartHooksFit' /\ StopHooksFit'
  BY StartAlone DEF ServeCheck, shutVars, histVars
<1>2. ShutTyped' /\ OnceFits'
  BY OnceAlone DEF ServeCheck, startVars, shutVars, histVars
<1>3. ServeTyped' /\ ReqTyped' /\ HistTyped'
  BY DEF ServeCheck, LifecycleInv, ServeTyped, ReqTyped, HistTyped, ServePc,
         shutVars, reqVars, histVars
<1>4. ServersFit'
  BY DEF ServeCheck, LifecycleInv, ServeTyped, ReqTyped, ServersFit, OnceFits,
         Published, Admitted, startVars, shutVars, reqVars
<1>5. ASSUME ~early' PROVE DrainFits'
  <2>1. /\ ~early /\ startPc' = startPc
        /\ UNCHANGED <<shutPc, missed, forced, target, server, srv, req>>
    BY <1>5 DEF ServeCheck, startVars, shutVars, reqVars, histVars
  <2>2. state = "running" => startPc = "ok" /\ shutPc = "none"
    BY <2>1 DEF LifecycleInv, StateFits, StartTyped, ShutTyped, StartPc, ShutPc
  <2>3. \A t \in ServeCall : servePc'[t] =
          IF t # s THEN servePc[t] ELSE IF state = "running" THEN "publish" ELSE "refused"
    BY DEF ServeCheck, LifecycleInv, ServeTyped
  <2> QED BY <2>1, <2>2, <2>3 DEF LifecycleInv, DrainFits, Admitted
<1> QED BY <1>1, <1>2, <1>3, <1>4, <1>5 DEF LifecycleInv

LEMMA ServePublishKeeps ==
  ASSUME LifecycleInv, NEW s \in ServeCall, ServePublish(s)
  PROVE  LifecycleInv'
<1>1. /\ StartTyped' /\ HookTyped' /\ NextFits'
      /\ ~early' => StateFits' /\ StartHooksFit' /\ StopHooksFit'
  BY StartAlone DEF ServePublish, shutVars, histVars
<1>2. ShutTyped' /\ OnceFits'
  BY OnceAlone DEF ServePublish, startVars, shutVars, histVars
<1>3. ServeTyped' /\ ReqTyped' /\ HistTyped'
  BY DEF ServePublish, LifecycleInv, ServeTyped, ReqTyped, HistTyped, ServePc,
         shutVars, reqVars, histVars
<1>4. ServersFit'
  BY DEF ServePublish, LifecycleInv, ServeTyped, ReqTyped, ServersFit, OnceFits,
         Published, Admitted, startVars, shutVars, reqVars
<1>5. ~early' => DrainFits'
  BY DEF ServePublish, LifecycleInv, ServeTyped, DrainFits, ServersFit, OnceFits,
         StateFits, Published, Admitted, startVars, shutVars, reqVars, histVars
<1> QED BY <1>1, <1>2, <1>3, <1>4, <1>5 DEF LifecycleInv

LEMMA ServerRunKeeps ==
  ASSUME LifecycleInv, NEW s \in ServeCall, ServerRun(s)
  PROVE  LifecycleInv'
<1>1. /\ StartTyped' /\ HookTyped' /\ NextFits'
      /\ ~early' => StateFits' /\ StartHooksFit' /\ StopHooksFit'
  BY StartAlone DEF ServerRun, shutVars, histVars
<1>2. ShutTyped' /\ OnceFits'
  BY OnceAlone DEF ServerRun, startVars, shutVars, histVars
<1>3. ServeTyped' /\ ReqTyped' /\ HistTyped'
  BY DEF ServerRun, LifecycleInv, ServeTyped, ReqTyped, HistTyped, ServePc,
         shutVars, reqVars, histVars
<1>4. ServersFit'
  <2>1. servePc[s] \in Published
    BY DEF ServerRun, LifecycleInv, ServeTyped, ServePc, Published, Admitted
  <2>2. \A t \in ServeCall : srv'[t] = IF t = s THEN "serving" ELSE srv[t]
    BY DEF ServerRun, LifecycleInv, ServeTyped
  <2>3. UNCHANGED <<servePc, server, shutPc, once, req, via>>
    BY DEF ServerRun, shutVars, reqVars
  <2>4. srv[s] = "new"
    BY DEF ServerRun
  <2> QED BY <2>1, <2>2, <2>3, <2>4 DEF LifecycleInv, ServersFit
<1>5. ~early' => DrainFits'
  BY DEF ServerRun, LifecycleInv, ServeTyped, DrainFits, ServersFit, OnceFits,
         StateFits, Published, Admitted, startVars, shutVars, reqVars, histVars
<1> QED BY <1>1, <1>2, <1>3, <1>4, <1>5 DEF LifecycleInv

LEMMA ServerFailsKeeps ==
  ASSUME LifecycleInv, NEW s \in ServeCall, ServerFails(s)
  PROVE  LifecycleInv'
<1>1. /\ StartTyped' /\ HookTyped' /\ NextFits'
      /\ ~early' => StateFits' /\ StartHooksFit' /\ StopHooksFit'
  BY StartAlone DEF ServerFails, shutVars, histVars
<1>2. ShutTyped' /\ OnceFits'
  BY OnceAlone DEF ServerFails, startVars, shutVars, histVars
<1>3. ServeTyped' /\ ReqTyped' /\ HistTyped'
  BY DEF ServerFails, LifecycleInv, ServeTyped, ReqTyped, HistTyped, ServePc,
         shutVars, reqVars, histVars
<1>4. ServersFit'
  BY DEF ServerFails, LifecycleInv, ServeTyped, ReqTyped, ServersFit, OnceFits,
         Published, Admitted, startVars, shutVars, reqVars
<1>5. ~early' => DrainFits'
  BY DEF ServerFails, LifecycleInv, ServeTyped, DrainFits, ServersFit, OnceFits,
         StateFits, Published, Admitted, startVars, shutVars, reqVars, histVars
<1> QED BY <1>1, <1>2, <1>3, <1>4, <1>5 DEF LifecycleInv

LEMMA ServeClosedKeeps ==
  ASSUME LifecycleInv, NEW s \in ServeCall, ServeClosed(s)
  PROVE  LifecycleInv'
<1>1. /\ StartTyped' /\ HookTyped' /\ NextFits'
      /\ ~early' => StateFits' /\ StartHooksFit' /\ StopHooksFit'
  BY StartAlone DEF ServeClosed, shutVars, histVars
<1>2. ShutTyped' /\ OnceFits'
  BY OnceAlone DEF ServeClosed, startVars, shutVars, histVars
<1>3. ServeTyped' /\ ReqTyped' /\ HistTyped'
  BY DEF ServeClosed, LifecycleInv, ServeTyped, ReqTyped, HistTyped, ServePc,
         shutVars, reqVars, histVars
<1>4. ServersFit'
  BY DEF ServeClosed, LifecycleInv, ServeTyped, ReqTyped, ServersFit, OnceFits,
         Published, Admitted, startVars, shutVars, reqVars
<1>5. ~early' => DrainFits'
  BY DEF ServeClosed, LifecycleInv, ServeTyped, DrainFits, ServersFit, OnceFits,
         StateFits, Published, Admitted, startVars, shutVars, reqVars, histVars
<1> QED BY <1>1, <1>2, <1>3, <1>4, <1>5 DEF LifecycleInv

LEMMA EnterShutdownKeeps ==
  ASSUME LifecycleInv, NEW s \in ServeCall, EnterShutdown(s)
  PROVE  LifecycleInv'
<1>1. /\ StartTyped' /\ HookTyped' /\ NextFits'
      /\ ~early' => StateFits' /\ StartHooksFit' /\ StopHooksFit'
  BY StartAlone DEF EnterShutdown, shutVars, histVars
<1>2. ShutTyped' /\ OnceFits'
  BY DEF EnterShutdown, LifecycleInv, ShutTyped, OnceFits, Caller, startVars, histVars
<1>3. ServeTyped' /\ ReqTyped' /\ HistTyped'
  BY DEF EnterShutdown, LifecycleInv, ServeTyped, ReqTyped, HistTyped, ServePc,
         shutVars, reqVars, histVars
<1>4. ServersFit'
  BY DEF EnterShutdown, LifecycleInv, ServeTyped, ReqTyped, ServersFit, OnceFits,
         Published, Admitted, startVars, shutVars, reqVars
<1>5. ~early' => DrainFits'
  BY DEF EnterShutdown, LifecycleInv, ServeTyped, DrainFits, ServersFit, OnceFits,
         StateFits, Published, Admitted, startVars, shutVars, reqVars, histVars
<1> QED BY <1>1, <1>2, <1>3, <1>4, <1>5 DEF LifecycleInv

LEMMA ServeAwaitKeeps ==
  ASSUME LifecycleInv, NEW s \in ServeCall, ServeAwait(s)
  PROVE  LifecycleInv'
<1>1. /\ StartTyped' /\ HookTyped' /\ NextFits'
      /\ ~early' => StateFits' /\ StartHooksFit' /\ StopHooksFit'
  BY StartAlone DEF ServeAwait, shutVars, histVars
<1>2. ShutTyped' /\ OnceFits'
  BY OnceAlone DEF ServeAwait, startVars, shutVars, histVars
<1>3. ServeTyped' /\ ReqTyped' /\ HistTyped'
  BY DEF ServeAwait, LifecycleInv, ServeTyped, ReqTyped, HistTyped, ServePc,
         shutVars, reqVars, histVars
<1>4. ServersFit'
  <2>1. once = "over"
    BY DEF ServeAwait, LifecycleInv, OnceFits, Caller
  <2>2. \A t \in ServeCall : servePc'[t] = IF t = s THEN "await" ELSE servePc[t]
    BY DEF ServeAwait, LifecycleInv, ServeTyped
  <2>3. UNCHANGED <<srv, server, shutPc, once, req, via>>
    BY DEF ServeAwait, shutVars, reqVars
  <2> QED BY <2>1, <2>2, <2>3
          DEF ServeAwait, LifecycleInv, ServeTyped, ServersFit, Published, Admitted
<1>5. ~early' => DrainFits'
  BY DEF ServeAwait, LifecycleInv, ServeTyped, DrainFits, ServersFit, OnceFits,
         StateFits, Published, Admitted, startVars, shutVars, reqVars, histVars
<1> QED BY <1>1, <1>2, <1>3, <1>4, <1>5 DEF LifecycleInv

LEMMA ServeReturnKeeps ==
  ASSUME LifecycleInv, NEW s \in ServeCall, ServeReturn(s)
  PROVE  LifecycleInv'
<1>1. /\ StartTyped' /\ HookTyped' /\ NextFits'
      /\ ~early' => StateFits' /\ StartHooksFit' /\ StopHooksFit'
  BY StartAlone DEF ServeReturn, shutVars, histVars
<1>2. ShutTyped' /\ OnceFits'
  BY OnceAlone DEF ServeReturn, startVars, shutVars, histVars
<1>3. ServeTyped' /\ ReqTyped' /\ HistTyped'
  BY DEF ServeReturn, LifecycleInv, ServeTyped, ReqTyped, HistTyped, ServePc,
         shutVars, reqVars, histVars
<1>4. ServersFit'
  BY DEF ServeReturn, LifecycleInv, ServeTyped, ReqTyped, ServersFit, OnceFits,
         Published, Admitted, startVars, shutVars, reqVars
<1>5. ~early' => DrainFits'
  BY DEF ServeReturn, LifecycleInv, ServeTyped, DrainFits, ServersFit, OnceFits,
         StateFits, Published, Admitted, startVars, shutVars, reqVars, histVars
<1> QED BY <1>1, <1>2, <1>3, <1>4, <1>5 DEF LifecycleInv

-----------------------------------------------------------------------------
(* Shutdown.                                                               *)

LEMMA ShutdownCallKeeps ==
  ASSUME LifecycleInv, NEW c \in Caller, ShutdownCall(c)
  PROVE  LifecycleInv'
<1>1. /\ StartTyped' /\ HookTyped' /\ NextFits'
      /\ ~early' => StateFits' /\ StartHooksFit' /\ StopHooksFit'
  BY StartAlone DEF ShutdownCall, shutVars, histVars
<1>2. /\ ServeTyped' /\ ReqTyped' /\ HistTyped' /\ ServersFit'
      /\ ~early' => DrainFits'
  BY ServeAlone DEF ShutdownCall, startVars
<1>3. ShutTyped' /\ OnceFits'
  BY DEF ShutdownCall, LifecycleInv, ShutTyped, OnceFits, startVars, histVars
<1> QED BY <1>1, <1>2, <1>3 DEF LifecycleInv

LEMMA ShutdownLaterKeeps ==
  ASSUME LifecycleInv, NEW c \in Caller, ShutdownLater(c)
  PROVE  LifecycleInv'
<1>1. /\ StartTyped' /\ HookTyped' /\ NextFits'
      /\ ~early' => StateFits' /\ StartHooksFit' /\ StopHooksFit'
  BY StartAlone DEF ShutdownLater, shutVars, histVars
<1>2. /\ ServeTyped' /\ ReqTyped' /\ HistTyped' /\ ServersFit'
      /\ ~early' => DrainFits'
  BY ServeAlone DEF ShutdownLater, startVars
<1>3. ShutTyped' /\ OnceFits'
  BY DEF ShutdownLater, LifecycleInv, ShutTyped, OnceFits, startVars, histVars
<1> QED BY <1>1, <1>2, <1>3 DEF LifecycleInv

LEMMA ShutdownBeginKeeps ==
  ASSUME LifecycleInv, NEW c \in Caller, ShutdownBegin(c)
  PROVE  LifecycleInv'
<1>1. StartTyped' /\ HookTyped' /\ NextFits'
  BY LifecycleAssumption
  DEF ShutdownBegin, LifecycleInv, StartTyped, HookTyped, NextFits, OnceFits, State,
      CallStop, startVars, hookVars
<1>2. ServeTyped' /\ ReqTyped' /\ HistTyped'
  BY DEF ShutdownBegin, LifecycleInv, ServeTyped, ReqTyped, HistTyped, StartRuns,
         serveVars, reqVars, histVars
<1>3. ServersFit'
  BY DEF ShutdownBegin, LifecycleInv, ServeTyped, ServersFit, OnceFits, Published,
         Admitted, serveVars, reqVars
<1>4. ShutTyped' /\ OnceFits'
  BY DEF ShutdownBegin, LifecycleInv, ShutTyped, OnceFits, ShutPc, StartRuns,
         startVars, histVars
<1>5. ~early' => ~early
  BY DEF ShutdownBegin, LifecycleInv, OnceFits, histVars
<1>6. ~early' => StateFits'
  BY <1>5
  DEF ShutdownBegin, LifecycleInv, StartTyped, OnceFits, StateFits, StartRuns,
      startVars
<1>7. ~early' => StartHooksFit'
  BY <1>5, LifecycleAssumption
  DEF ShutdownBegin, LifecycleInv, StartTyped, HookTyped, OnceFits, StateFits,
      StartHooksFit, Hook, CallStop, startVars, hookVars
<1>8. ~early' => StopHooksFit'
  BY <1>5, LifecycleAssumption
  DEF ShutdownBegin, LifecycleInv, StartTyped, HookTyped, OnceFits, StateFits,
      StartHooksFit, StopHooksFit, Hook, CallStop, startVars, hookVars
<1>9. ~early' => DrainFits'
  BY <1>5
  DEF ShutdownBegin, LifecycleInv, ServeTyped, ReqTyped, OnceFits, ServersFit,
      DrainFits, ActiveOn, Published, Admitted, startVars, serveVars, reqVars,
      histVars
<1> QED BY <1>1, <1>2, <1>3, <1>4, <1>5, <1>6, <1>7, <1>8, <1>9 DEF LifecycleInv

LEMMA DrainKeeps ==
  ASSUME LifecycleInv, Drain
  PROVE  LifecycleInv'
<1>1. StartTyped' /\ HookTyped' /\ NextFits'
  BY LifecycleAssumption
  DEF Drain, LifecycleInv, StartTyped, HookTyped, NextFits, OnceFits, State,
      CallStop, startVars, hookVars
<1>2. ServeTyped' /\ ReqTyped' /\ HistTyped'
  BY DEF Drain, LifecycleInv, ServeTyped, ReqTyped, HistTyped, StartRuns, serveVars,
         reqVars, histVars
<1>3. ServersFit'
  BY DEF Drain, LifecycleInv, ServeTyped, ServersFit, OnceFits, Published, Admitted,
         serveVars, reqVars
<1>4. ShutTyped' /\ OnceFits'
  BY DEF Drain, LifecycleInv, ShutTyped, OnceFits, ShutPc, StartRuns, startVars,
         histVars
<1>5. ~early' => ~early
  BY DEF Drain, LifecycleInv, OnceFits, histVars
<1>6. ~early' => StateFits'
  BY <1>5
  DEF Drain, LifecycleInv, StartTyped, OnceFits, StateFits, StartRuns, startVars
<1>7. ~early' => StartHooksFit'
  BY <1>5, LifecycleAssumption
  DEF Drain, LifecycleInv, StartTyped, HookTyped, OnceFits, StateFits,
      StartHooksFit, Hook, CallStop, startVars, hookVars
<1>8. ~early' => StopHooksFit'
  BY <1>5, LifecycleAssumption
  DEF Drain, LifecycleInv, StartTyped, HookTyped, OnceFits, StateFits,
      StartHooksFit, StopHooksFit, Hook, CallStop, startVars, hookVars
<1>9. ~early' => DrainFits'
  BY <1>5
  DEF Drain, LifecycleInv, ServeTyped, ReqTyped, OnceFits, ServersFit, DrainFits,
      ActiveOn, Published, Admitted, startVars, serveVars, reqVars, histVars
<1> QED BY <1>1, <1>2, <1>3, <1>4, <1>5, <1>6, <1>7, <1>8, <1>9 DEF LifecycleInv

LEMMA ReadServerKeeps ==
  ASSUME LifecycleInv, ReadServer
  PROVE  LifecycleInv'
<1>1. StartTyped' /\ HookTyped' /\ NextFits'
  BY LifecycleAssumption
  DEF ReadServer, LifecycleInv, StartTyped, HookTyped, NextFits, OnceFits, State,
      CallStop, startVars, hookVars
<1>2. ServeTyped' /\ ReqTyped' /\ HistTyped'
  BY DEF ReadServer, LifecycleInv, ServeTyped, ReqTyped, HistTyped, StartRuns,
         serveVars, reqVars, histVars
<1>3. ServersFit'
  BY DEF ReadServer, LifecycleInv, ServeTyped, ServersFit, OnceFits, Published,
         Admitted, serveVars, reqVars
<1>4. ShutTyped' /\ OnceFits'
  BY DEF ReadServer, LifecycleInv, ShutTyped, OnceFits, ShutPc, StartRuns,
         startVars, histVars
<1>5. ~early' => ~early
  BY DEF ReadServer, LifecycleInv, OnceFits, histVars
<1>6. ~early' => StateFits'
  BY <1>5
  DEF ReadServer, LifecycleInv, StartTyped, OnceFits, StateFits, StartRuns,
      startVars
<1>7. ~early' => StartHooksFit'
  BY <1>5, LifecycleAssumption
  DEF ReadServer, LifecycleInv, StartTyped, HookTyped, OnceFits, StateFits,
      StartHooksFit, Hook, CallStop, startVars, hookVars
<1>8. ~early' => StopHooksFit'
  BY <1>5, LifecycleAssumption
  DEF ReadServer, LifecycleInv, StartTyped, HookTyped, OnceFits, StateFits,
      StartHooksFit, StopHooksFit, Hook, CallStop, startVars, hookVars
<1>9. ASSUME ~early' PROVE DrainFits'
  <2>1. /\ shutPc = "server" /\ once = "busy"
        /\ target' = server
        /\ UNCHANGED <<startPc, servePc, server, req, via, forced>>
    BY DEF ReadServer, LifecycleInv, OnceFits, startVars, reqVars
  <2>2. ASSUME missed' = {}, NEW s \in ServeCall, servePc[s] \in Admitted PROVE s = server
    <3>1. servePc[s] \in {"publish", "select", "shutdown"}
      BY <2>1, <2>2 DEF LifecycleInv, ServersFit, Admitted
    <3> QED BY <2>2, <3>1 DEF ReadServer
  <2>3. server # None => server \in ServeCall /\ srv'[server] \in {"shut", "failed"}
    BY <2>1 DEF ReadServer, LifecycleInv, ServeTyped
  <2>4. server = None => \A s \in ServeCall : s # server
    BY LifecycleAssumption
  <2>5. shutPc' # "http" => server = None
    BY DEF ReadServer
  <2>6. ASSUME missed' = {}, server = None, NEW r \in Request PROVE req[r] # "active"
    <3>1. req[r] = "active" => via[r] \in ServeCall /\ servePc[via[r]] \in Admitted
      BY DEF LifecycleInv, ServersFit, Published
    <3> QED BY <2>2, <2>4, <2>6, <3>1
  <2>7. \A s \in ServeCall : servePc[s] \in Admitted => startPc = "ok"
    BY <1>5, <1>9 DEF LifecycleInv, DrainFits
  <2> QED BY <2>1, <2>2, <2>3, <2>4, <2>5, <2>6, <2>7 DEF DrainFits
<1> QED BY <1>1, <1>2, <1>3, <1>4, <1>5, <1>6, <1>7, <1>8, <1>9 DEF LifecycleInv

LEMMA HttpDrainedKeeps ==
  ASSUME LifecycleInv, HttpDrained
  PROVE  LifecycleInv'
<1>1. StartTyped' /\ HookTyped' /\ NextFits'
  BY LifecycleAssumption
  DEF HttpDrained, LifecycleInv, StartTyped, HookTyped, NextFits, OnceFits, State,
      CallStop, startVars, hookVars
<1>2. ServeTyped' /\ ReqTyped' /\ HistTyped'
  BY DEF HttpDrained, LifecycleInv, ServeTyped, ReqTyped, HistTyped, StartRuns,
         serveVars, reqVars, histVars
<1>3. ServersFit'
  BY DEF HttpDrained, LifecycleInv, ServeTyped, ServersFit, OnceFits, Published,
         Admitted, serveVars, reqVars
<1>4. ShutTyped' /\ OnceFits'
  BY DEF HttpDrained, LifecycleInv, ShutTyped, OnceFits, ShutPc, StartRuns,
         startVars, histVars
<1>5. ~early' => ~early
  BY DEF HttpDrained, LifecycleInv, OnceFits, histVars
<1>6. ~early' => StateFits'
  BY <1>5
  DEF HttpDrained, LifecycleInv, StartTyped, OnceFits, StateFits, StartRuns,
      startVars
<1>7. ~early' => StartHooksFit'
  BY <1>5, LifecycleAssumption
  DEF HttpDrained, LifecycleInv, StartTyped, HookTyped, OnceFits, StateFits,
      StartHooksFit, Hook, CallStop, startVars, hookVars
<1>8. ~early' => StopHooksFit'
  BY <1>5, LifecycleAssumption
  DEF HttpDrained, LifecycleInv, StartTyped, HookTyped, OnceFits, StateFits,
      StartHooksFit, StopHooksFit, Hook, CallStop, startVars, hookVars
<1>9. ~early' => DrainFits'
  BY <1>5
  DEF HttpDrained, LifecycleInv, ServeTyped, ReqTyped, OnceFits, ServersFit,
      DrainFits, ActiveOn, Published, Admitted, startVars, serveVars, reqVars,
      histVars
<1> QED BY <1>1, <1>2, <1>3, <1>4, <1>5, <1>6, <1>7, <1>8, <1>9 DEF LifecycleInv

LEMMA HttpForcedKeeps ==
  ASSUME LifecycleInv, HttpForced
  PROVE  LifecycleInv'
<1>1. StartTyped' /\ HookTyped' /\ NextFits'
  BY LifecycleAssumption
  DEF HttpForced, LifecycleInv, StartTyped, HookTyped, NextFits, OnceFits, State,
      CallStop, startVars, hookVars
<1>2. ServeTyped' /\ ReqTyped' /\ HistTyped'
  BY DEF HttpForced, LifecycleInv, ServeTyped, ReqTyped, HistTyped, StartRuns,
         serveVars, reqVars, histVars
<1>3. ServersFit'
  BY DEF HttpForced, LifecycleInv, ServeTyped, ServersFit, OnceFits, Published,
         Admitted, serveVars, reqVars
<1>4. ShutTyped' /\ OnceFits'
  BY DEF HttpForced, LifecycleInv, ShutTyped, OnceFits, ShutPc, StartRuns,
         startVars, histVars
<1>5. ~early' => ~early
  BY DEF HttpForced, LifecycleInv, OnceFits, histVars
<1>6. ~early' => StateFits'
  BY <1>5
  DEF HttpForced, LifecycleInv, StartTyped, OnceFits, StateFits, StartRuns,
      startVars
<1>7. ~early' => StartHooksFit'
  BY <1>5, LifecycleAssumption
  DEF HttpForced, LifecycleInv, StartTyped, HookTyped, OnceFits, StateFits,
      StartHooksFit, Hook, CallStop, startVars, hookVars
<1>8. ~early' => StopHooksFit'
  BY <1>5, LifecycleAssumption
  DEF HttpForced, LifecycleInv, StartTyped, HookTyped, OnceFits, StateFits,
      StartHooksFit, StopHooksFit, Hook, CallStop, startVars, hookVars
<1>9. ~early' => DrainFits'
  BY <1>5
  DEF HttpForced, LifecycleInv, ServeTyped, ReqTyped, OnceFits, ServersFit,
      DrainFits, ActiveOn, Published, Admitted, startVars, serveVars, reqVars,
      histVars
<1> QED BY <1>1, <1>2, <1>3, <1>4, <1>5, <1>6, <1>7, <1>8, <1>9 DEF LifecycleInv

LEMMA TakeHooksKeeps ==
  ASSUME LifecycleInv, TakeHooks
  PROVE  LifecycleInv'
<1>1. StartTyped' /\ HookTyped' /\ NextFits'
  <2>1. <<>> \in Seq(Hook)
    OBVIOUS
  <2>2. StartTyped'
    BY <2>1 DEF TakeHooks, LifecycleInv, StartTyped, startVars
  <2>3. HookTyped'
    BY DEF TakeHooks, LifecycleInv, StartTyped, HookTyped, hookVars
  <2> QED BY <2>2, <2>3 DEF TakeHooks, LifecycleInv, NextFits, startVars
<1>2. ServeTyped' /\ ReqTyped' /\ HistTyped'
  BY DEF TakeHooks, LifecycleInv, ServeTyped, ReqTyped, HistTyped, StartRuns,
         serveVars, reqVars, histVars
<1>3. ServersFit'
  BY DEF TakeHooks, LifecycleInv, ServeTyped, ServersFit, OnceFits, Published,
         Admitted, serveVars, reqVars
<1>4. ShutTyped' /\ OnceFits'
  BY DEF TakeHooks, LifecycleInv, ShutTyped, OnceFits, ShutPc, StartRuns, startVars,
         histVars
<1>5. ~early' => ~early
  BY DEF TakeHooks, LifecycleInv, OnceFits, histVars
<1>6. ~early' => StateFits'
  BY <1>5
  DEF TakeHooks, LifecycleInv, StartTyped, OnceFits, StateFits, StartRuns, startVars
<1>7. ~early' => StartHooksFit'
  BY <1>5, LifecycleAssumption, FirstHooksGrow
  DEF TakeHooks, LifecycleInv, StartTyped, HookTyped, OnceFits, StateFits,
      StartHooksFit, Hook, CallStop, startVars, hookVars
<1>8. ASSUME ~early' PROVE StopHooksFit'
  <2>1. /\ startPc \in {"none", "ok"} /\ startPc' = startPc
        /\ shutPc = "take" /\ shutPc' = "hooks"
        /\ next \in Nat \ {0} /\ closing' = started
        /\ UNCHANGED <<up, stops>>
    BY <1>5, <1>8, LifecycleAssumption
    DEF TakeHooks, LifecycleInv, StateFits, StartTyped, startVars, hookVars
  <2>2. /\ started = FirstHooks(next - 1) /\ up = 1..(next - 1)
        /\ \A h \in Hook : stops[h] = 0
    BY <1>5, <1>8, <2>1 DEF LifecycleInv, StartHooksFit
  <2>3. closing' = FirstHooks(Len(closing')) /\ Len(closing') = next - 1
    BY <2>1, <2>2, FirstHooksGrow, next - 1 \in Nat
  <2> QED BY <2>1, <2>2, <2>3 DEF StopHooksFit
<1>9. ~early' => DrainFits'
  BY <1>5
  DEF TakeHooks, LifecycleInv, ServeTyped, ReqTyped, OnceFits, ServersFit,
      DrainFits, ActiveOn, Published, Admitted, startVars, serveVars, reqVars,
      histVars
<1> QED BY <1>1, <1>2, <1>3, <1>4, <1>5, <1>6, <1>7, <1>8, <1>9 DEF LifecycleInv

LEMMA StopHookKeeps ==
  ASSUME LifecycleInv, StopHook
  PROVE  LifecycleInv'
<1>1. StartTyped' /\ HookTyped' /\ NextFits'
  <2>1. closing \in Seq(Hook) /\ closing # <<>>
    BY DEF LifecycleInv, HookTyped, StopHook
  <2>2. HookTyped'
    BY <2>1, FrontLast, LastStopped DEF StopHook, LifecycleInv, HookTyped
  <2> QED BY <2>2 DEF StopHook, LifecycleInv, StartTyped, NextFits, startVars
<1>2. ServeTyped' /\ ReqTyped' /\ HistTyped'
  BY DEF StopHook, LifecycleInv, ServeTyped, ReqTyped, HistTyped, StartRuns,
         serveVars, reqVars, histVars
<1>3. ServersFit'
  BY DEF StopHook, LifecycleInv, ServeTyped, ServersFit, OnceFits, Published,
         Admitted, serveVars, reqVars
<1>4. ShutTyped' /\ OnceFits'
  BY DEF StopHook, LifecycleInv, ShutTyped, OnceFits, ShutPc, StartRuns, startVars,
         histVars
<1>5. ~early' => ~early
  BY DEF StopHook, LifecycleInv, OnceFits, histVars
<1>6. ~early' => StateFits'
  BY <1>5
  DEF StopHook, LifecycleInv, StartTyped, OnceFits, StateFits, StartRuns, startVars
<1>7. ~early' => StartHooksFit'
  BY <1>5, LifecycleAssumption, FrontLast
  DEF StopHook, LifecycleInv, StartTyped, HookTyped, OnceFits, StateFits,
      StartHooksFit, Hook, CallStop, startVars, hookVars
<1>8. ASSUME ~early' PROVE StopHooksFit'
  <2>1. /\ closing \in Seq(Hook) /\ closing # <<>> /\ CallStop(closing)
        /\ closing' = Front(closing)
        /\ startPc \in {"none", "ok"} /\ startPc' = startPc
        /\ shutPc = "hooks" /\ shutPc' = "hooks"
    BY <1>5, <1>8 DEF LifecycleInv, HookTyped, StateFits, StopHook, startVars
  <2>2. /\ closing = FirstHooks(Len(closing)) /\ up = 1..Len(closing)
        /\ \A h \in Hook : stops[h] <= 1 /\ (h \in up => stops[h] = 0)
    BY <1>5, <1>8, <2>1 DEF LifecycleInv, StopHooksFit
  <2>3. HookTyped
    BY DEF LifecycleInv
  <2> QED BY <2>1, <2>2, <2>3, LastStopped DEF StopHooksFit
<1>9. ~early' => DrainFits'
  BY <1>5
  DEF StopHook, LifecycleInv, ServeTyped, ReqTyped, OnceFits, ServersFit, DrainFits,
      ActiveOn, Published, Admitted, startVars, serveVars, reqVars, histVars
<1> QED BY <1>1, <1>2, <1>3, <1>4, <1>5, <1>6, <1>7, <1>8, <1>9 DEF LifecycleInv

LEMMA FinishKeeps ==
  ASSUME LifecycleInv, Finish
  PROVE  LifecycleInv'
<1>1. StartTyped' /\ HookTyped' /\ NextFits'
  BY LifecycleAssumption, FirstHooksGrow
  DEF Finish, LifecycleInv, StartTyped, HookTyped, NextFits, OnceFits, State,
      CallStop, startVars, hookVars
<1>2. ServeTyped' /\ ReqTyped' /\ HistTyped'
  BY DEF Finish, LifecycleInv, ServeTyped, ReqTyped, HistTyped, StartRuns,
         serveVars, reqVars, histVars
<1>3. ServersFit'
  BY DEF Finish, LifecycleInv, ServeTyped, ServersFit, OnceFits, Published,
         Admitted, serveVars, reqVars
<1>4. ShutTyped' /\ OnceFits'
  BY DEF Finish, LifecycleInv, ShutTyped, OnceFits, ShutPc, StartRuns, startVars,
         histVars
<1>5. ~early' => ~early
  BY DEF Finish, LifecycleInv, OnceFits, histVars
<1>6. ~early' => StateFits'
  BY <1>5
  DEF Finish, LifecycleInv, StartTyped, OnceFits, StateFits, StartRuns, startVars
<1>7. ~early' => StartHooksFit'
  BY <1>5, LifecycleAssumption, FirstHooksGrow
  DEF Finish, LifecycleInv, StartTyped, HookTyped, OnceFits, StateFits,
      StartHooksFit, Hook, CallStop, startVars, hookVars
<1>8. ~early' => StopHooksFit'
  BY <1>5, LifecycleAssumption, FirstHooksGrow
  DEF Finish, LifecycleInv, StartTyped, HookTyped, OnceFits, StateFits,
      StartHooksFit, StopHooksFit, Hook, CallStop, startVars, hookVars
<1>9. ~early' => DrainFits'
  BY <1>5
  DEF Finish, LifecycleInv, ServeTyped, ReqTyped, OnceFits, ServersFit, DrainFits,
      ActiveOn, Published, Admitted, startVars, serveVars, reqVars, histVars
<1> QED BY <1>1, <1>2, <1>3, <1>4, <1>5, <1>6, <1>7, <1>8, <1>9 DEF LifecycleInv

-----------------------------------------------------------------------------
(* Requests.                                                               *)

LEMMA ArriveKeeps ==
  ASSUME LifecycleInv, NEW r \in Request, NEW s \in ServeCall, Arrive(r, s)
  PROVE  LifecycleInv'
<1>1. /\ StartTyped' /\ HookTyped' /\ NextFits'
      /\ ~early' => StateFits' /\ StartHooksFit' /\ StopHooksFit'
  BY StartAlone DEF Arrive, shutVars, histVars
<1>2. ShutTyped' /\ OnceFits'
  BY OnceAlone DEF Arrive, startVars, shutVars, histVars
<1>3. ServeTyped' /\ ReqTyped' /\ HistTyped'
  BY DEF Arrive, LifecycleInv, ServeTyped, ReqTyped, HistTyped, serveVars, shutVars,
         histVars
<1>4. ServersFit'
  BY DEF Arrive, LifecycleInv, ServeTyped, ReqTyped, ServersFit, serveVars, shutVars
<1>5. ~early' => DrainFits'
  BY DEF Arrive, LifecycleInv, ServeTyped, ReqTyped, ServersFit, DrainFits,
         Published, Admitted, startVars, serveVars, shutVars, histVars
<1> QED BY <1>1, <1>2, <1>3, <1>4, <1>5 DEF LifecycleInv

LEMMA CompleteKeeps ==
  ASSUME LifecycleInv, NEW r \in Request, Complete(r)
  PROVE  LifecycleInv'
<1>1. /\ StartTyped' /\ HookTyped' /\ NextFits'
      /\ ~early' => StateFits' /\ StartHooksFit' /\ StopHooksFit'
  BY StartAlone DEF Complete, shutVars, histVars
<1>2. ShutTyped' /\ OnceFits'
  BY OnceAlone DEF Complete, startVars, shutVars, histVars
<1>3. ServeTyped' /\ ReqTyped' /\ HistTyped'
  BY DEF Complete, LifecycleInv, ServeTyped, ReqTyped, HistTyped, serveVars,
         shutVars, histVars
<1>4. ServersFit'
  BY DEF Complete, LifecycleInv, ServeTyped, ReqTyped, ServersFit, serveVars, shutVars
<1>5. ~early' => DrainFits'
  BY DEF Complete, LifecycleInv, ServeTyped, ReqTyped, ServersFit, DrainFits,
         Published, Admitted, startVars, serveVars, shutVars, histVars
<1> QED BY <1>1, <1>2, <1>3, <1>4, <1>5 DEF LifecycleInv

-----------------------------------------------------------------------------
(* The invariant.                                                          *)

LEMMA LifecycleInit == Init => LifecycleInv
<1> SUFFICES ASSUME Init PROVE LifecycleInv
  OBVIOUS
<1>1. <<>> \in Seq(Hook) /\ FirstHooks(0) = <<>>
  BY FirstHooksGrow
<1>2. StartTyped /\ ServeTyped /\ ShutTyped /\ ReqTyped /\ HookTyped /\ HistTyped
  <2>1. StartTyped
    <3>1. 1 \in 1..(NumHooks + 1)
      BY LifecycleAssumption
    <3> QED BY <1>1, <3>1 DEF Init, StartTyped, State, StartPc
  <2>3. HookTyped /\ HistTyped
    BY <1>1 DEF Init, HookTyped, HistTyped
  <2>2. ServeTyped /\ ShutTyped /\ ReqTyped
    BY DEF Init, ServeTyped, ShutTyped, ReqTyped, ServePc, ShutPc
  <2> QED BY <2>1, <2>2, <2>3
<1>3. NextFits /\ OnceFits /\ ServersFit
  BY DEF Init, NextFits, OnceFits, ServersFit
<1>4. StateFits /\ StartHooksFit /\ StopHooksFit /\ DrainFits
  BY <1>1 DEF Init, StateFits, StartHooksFit, StopHooksFit, DrainFits, Admitted
<1> QED BY <1>2, <1>3, <1>4 DEF LifecycleInv

LEMMA LifecycleStutter == LifecycleInv /\ UNCHANGED vars => LifecycleInv'
<1> SUFFICES ASSUME LifecycleInv, UNCHANGED vars PROVE LifecycleInv'
  OBVIOUS
<1>1. /\ StartTyped' /\ HookTyped' /\ NextFits'
      /\ ~early' => StateFits' /\ StartHooksFit' /\ StopHooksFit'
  BY StartAlone DEF vars, shutVars, histVars
<1>2. /\ ServeTyped' /\ ReqTyped' /\ HistTyped' /\ ServersFit'
      /\ ~early' => DrainFits'
  BY ServeAlone DEF vars, startVars, shutVars
<1>3. ShutTyped' /\ OnceFits'
  BY OnceAlone DEF vars, startVars, shutVars, histVars
<1> QED BY <1>1, <1>2, <1>3 DEF LifecycleInv

LEMMA LifecycleStep == LifecycleInv /\ [Next]_vars => LifecycleInv'
<1> SUFFICES ASSUME LifecycleInv, [Next]_vars PROVE LifecycleInv'
  OBVIOUS
<1>1. CASE ProgramStart
  BY <1>1, ProgramStartKeeps
<1>2. CASE Starting
  BY <1>2, PrepareKeeps, StartHookKeeps, AppendReadKeeps, AppendWriteKeeps,
     HooksStartedKeeps, UndoTakeKeeps, UndoHookKeeps, UndoEndKeeps, StoreFailedKeeps,
     FailReleaseKeeps, StoreRunningKeeps
  DEF Starting
<1>3. ASSUME NEW s \in ServeCall,
             ServeBegin(s) \/ Serving(s) \/ ServerFails(s) \/ ServeSignal(s)
      PROVE  LifecycleInv'
  BY <1>3, ServeBeginKeeps, ServeStartKeeps, ServeStartedKeeps, ServeCheckKeeps,
     ServePublishKeeps, ServerRunKeeps, ServerFailsKeeps, ServeClosedKeeps,
     EnterShutdownKeeps, ServeAwaitKeeps, ServeReturnKeeps
  DEF Serving, ServeStop, ServeSignal
<1>4. ASSUME NEW c \in Caller, ShutdownCall(c) \/ Shutdown(c) PROVE LifecycleInv'
  BY <1>4, ShutdownCallKeeps, ShutdownBeginKeeps, ShutdownLaterKeeps DEF Shutdown
<1>5. CASE Stopping \/ HttpForced
  BY <1>5, DrainKeeps, ReadServerKeeps, HttpDrainedKeeps, HttpForcedKeeps,
     TakeHooksKeeps, StopHookKeeps, FinishKeeps
  DEF Stopping
<1>6. ASSUME NEW r \in Request, Complete(r) \/ \E s \in ServeCall : Arrive(r, s)
      PROVE  LifecycleInv'
  BY <1>6, CompleteKeeps, ArriveKeeps
<1>7. CASE UNCHANGED vars
  BY <1>7, LifecycleStutter
<1> QED BY <1>1, <1>2, <1>3, <1>4, <1>5, <1>6, <1>7 DEF Next

LEMMA LifecycleInvariance == Spec => []LifecycleInv
<1>1. Init => LifecycleInv
  BY LifecycleInit
<1>2. LifecycleInv /\ [Next]_vars => LifecycleInv'
  BY LifecycleStep
<1> QED BY <1>1, <1>2, PTL DEF Spec

-----------------------------------------------------------------------------
(* What holds even when Shutdown overlaps Start.                           *)

Distinct(list) == \A i, j \in DOMAIN list : list[i] = list[j] => i = j
Has(list, h) == \E i \in DOMAIN list : list[i] = h

(* A list holds no hook twice.  The append that Shutdown comes between     *)
(* writes back what it has read.                                           *)
ListsFit ==
  /\ Distinct(started) /\ Distinct(undo) /\ Distinct(closing)
  /\ \A h \in Hook : Has(started, h) => h < next
  /\ startPc = "write" =>
       /\ started \in {read, <<>>}
       /\ Distinct(read) /\ \A h \in Hook : Has(read, h) => h < next
  /\ startPc \in {"none", "prepare"} \cup Undone => started = <<>>

(* Whatever is up, one of the lists has it, or Start is about to add it.   *)
UpListed ==
  \A h \in up :
    \/ Has(started, h)
    \/ startPc = "undoing" /\ Has(undo, h)
    \/ shutPc = "hooks" /\ Has(closing, h)
    \/ startPc \in {"append", "write"} /\ h = next

(* Shutdown, and the undo of Start, stop each hook once.                   *)
ByShutdown(h) ==
  IF shutPc = "ended" \/ (shutPc = "hooks" /\ ~Has(closing, h)) THEN 1 ELSE 0
ByStart(h) ==
  IF startPc \in Undone /\ ~(startPc = "undoing" /\ Has(undo, h)) THEN 1 ELSE 0
StopsCounted == \A h \in Hook : stops[h] <= ByShutdown(h) + ByStart(h)

(* A failed Start stores failed, which only Shutdown overwrites.           *)
FailedStays ==
  startPc \in {"release", "failed"} /\ shutPc \in {"none", "ended"} =>
    state \in {"failed", "stopped"}

OverlapInv == ListsFit /\ UpListed /\ StopsCounted /\ FailedStays

overlapVars == <<state, startPc, next, read, started, undo, shutPc, closing, up, stops>>

LEMMA EmptyList == Distinct(<<>>) /\ \A h : ~Has(<<>>, h)
BY DEF Distinct, Has

LEMMA AppendList ==
  ASSUME NEW list \in Seq(Hook), NEW x \in Hook
  PROVE  /\ \A h : Has(Append(list, x), h) <=> Has(list, h) \/ h = x
         /\ Distinct(list) /\ ~Has(list, x) => Distinct(Append(list, x))
<1>1. /\ Len(list) \in Nat /\ DOMAIN list = 1..Len(list)
      /\ DOMAIN Append(list, x) = 1..(Len(list) + 1)
      /\ Append(list, x)[Len(list) + 1] = x
      /\ \A i \in 1..Len(list) : Append(list, x)[i] = list[i]
  OBVIOUS
<1> DEFINE app == Append(list, x)
           n == Len(list)
<1>2. /\ n \in Nat /\ DOMAIN list = 1..n /\ DOMAIN app = 1..(n + 1) /\ app[n + 1] = x
      /\ \A i \in 1..n : app[i] = list[i]
  BY <1>1
<1> HIDE DEF app, n
<1>3. \A h : Has(app, h) <=> Has(list, h) \/ h = x
  BY <1>2 DEF Has
<1>4. Distinct(list) /\ ~Has(list, x) => Distinct(app)
  <2> SUFFICES ASSUME Distinct(list), ~Has(list, x), NEW i \in 1..(n + 1),
                      NEW j \in 1..(n + 1), app[i] = app[j]
               PROVE  i = j
    BY <1>2 DEF Distinct
  <2>1. CASE i \in 1..n /\ j \in 1..n
    BY <1>2, <2>1 DEF Distinct
  <2>2. CASE i = n + 1 /\ j # n + 1
    BY <1>2, <2>2 DEF Has
  <2>3. CASE j = n + 1 /\ i # n + 1
    BY <1>2, <2>3 DEF Has
  <2> QED BY <1>2, <2>1, <2>2, <2>3
<1> QED BY <1>3, <1>4 DEF app

LEMMA FrontList ==
  ASSUME NEW list \in Seq(Hook), list # <<>>
  PROVE  /\ \A h : Has(list, h) <=> Has(Front(list), h) \/ h = Last(list)
         /\ Distinct(list) => Distinct(Front(list)) /\ ~Has(Front(list), Last(list))
<1> DEFINE front == Front(list)
           n == Len(list) - 1
<1>1. Len(list) \in Nat \ {0} /\ DOMAIN list = 1..Len(list)
  OBVIOUS
<1>2. Len(front) = n /\ front \in Seq(Hook)
  BY FrontLast
<1>3. front = SubSeq(list, 1, n)
  BY DEF Front
<1>4. n \in Nat /\ n + 1 = Len(list)
  BY <1>1
<1>5. Last(list) = list[n + 1]
  BY <1>4 DEF Last
<1> HIDE DEF front, n
<1>6. /\ 1 \in Int /\ n \in Int /\ \A i \in 1..n : list[i] \in Hook
      /\ DOMAIN front = 1..n
  BY <1>1, <1>2, <1>4
<1>7. \A i \in 1..(n - 1 + 1) : SubSeq(list, 1, n)[i] = list[1 + i - 1]
  BY <1>4, <1>6, SubSeqProperties
<1>8. \A i \in 1..n : front[i] = list[i]
  <2>1. \A i \in 1..n : i \in 1..(n - 1 + 1) /\ 1 + i - 1 = i
    BY <1>4
  <2> QED BY <1>3, <1>7, <2>1
<1>9. DOMAIN list = 1..(n + 1)
  BY <1>1, <1>4
<1>10. \A h : Has(list, h) <=> Has(front, h) \/ h = Last(list)
  BY <1>4, <1>5, <1>6, <1>8, <1>9 DEF Has
<1>11. Distinct(list) => Distinct(front) /\ ~Has(front, Last(list))
  BY <1>4, <1>5, <1>6, <1>8, <1>9 DEF Distinct, Has
<1> QED BY <1>10, <1>11 DEF front

LEMMA OverlapAlone ==
  OverlapInv /\ UNCHANGED overlapVars => OverlapInv'
BY DEF OverlapInv, overlapVars, ListsFit, UpListed, StopsCounted, ByShutdown, ByStart,
       FailedStays


LEMMA OverlapTypes ==
  LifecycleInv => \A h \in Hook : stops[h] \in Nat
BY DEF LifecycleInv, HookTyped

LEMMA OverlapInit == Init => OverlapInv
<1> SUFFICES ASSUME Init PROVE OverlapInv
  OBVIOUS
<1>1. ListsFit
  BY EmptyList DEF Init, ListsFit
<1>2. UpListed /\ StopsCounted /\ FailedStays
  BY DEF Init, UpListed, StopsCounted, ByShutdown, ByStart, FailedStays, Undone
<1> QED BY <1>1, <1>2 DEF OverlapInv

LEMMA OverlapBegin ==
  ASSUME LifecycleInv, OverlapInv, NEW who \in Starter, Begin(who),
         UNCHANGED <<started, undo, closing, shutPc, up, stops>>
  PROVE  OverlapInv'
<1> USE DEF OverlapInv, Begin
<1>1. startPc = "none"
  BY DEF LifecycleInv, NextFits
<1>2. ListsFit'
  BY <1>1 DEF ListsFit, Undone
<1>3. UpListed'
  BY <1>1 DEF UpListed
<1>4. StopsCounted'
  BY <1>1 DEF StopsCounted, ByShutdown, ByStart, Undone
<1>5. FailedStays'
  BY DEF FailedStays
<1> QED BY <1>2, <1>3, <1>4, <1>5

LEMMA OverlapPrepare ==
  ASSUME LifecycleInv, OverlapInv, Prepare
  PROVE  OverlapInv'
<1> USE DEF OverlapInv, Prepare, shutVars, hookVars
<1>1. ListsFit'
  BY DEF ListsFit, Undone
<1>2. UpListed'
  BY DEF UpListed
<1>3. StopsCounted'
  BY OverlapTypes DEF StopsCounted, ByShutdown, ByStart, Undone
<1>4. FailedStays'
  BY DEF FailedStays
<1> QED BY <1>1, <1>2, <1>3, <1>4

LEMMA OverlapStartHook ==
  ASSUME LifecycleInv, OverlapInv, StartHook
  PROVE  OverlapInv'
<1> USE DEF OverlapInv, StartHook, shutVars
<1>1. ListsFit'
  BY DEF ListsFit, Undone
<1>2. UpListed'
  BY DEF UpListed
<1>3. StopsCounted'
  BY DEF StopsCounted, ByShutdown, ByStart, Undone
<1>4. FailedStays'
  BY DEF FailedStays
<1> QED BY <1>1, <1>2, <1>3, <1>4

LEMMA OverlapAppendRead ==
  ASSUME LifecycleInv, OverlapInv, AppendRead
  PROVE  OverlapInv'
<1> USE DEF OverlapInv, AppendRead, shutVars, hookVars
<1>1. ListsFit'
  BY DEF ListsFit, Undone
<1>2. UpListed'
  BY DEF UpListed
<1>3. StopsCounted'
  BY DEF StopsCounted, ByShutdown, ByStart, Undone
<1>4. FailedStays'
  BY DEF FailedStays
<1> QED BY <1>1, <1>2, <1>3, <1>4

(* The append writes the list it has read, with one hook more.            *)
LEMMA OverlapAppendWrite ==
  ASSUME LifecycleInv, OverlapInv, AppendWrite
  PROVE  OverlapInv'
<1> USE DEF OverlapInv, AppendWrite, shutVars, hookVars
<1>1. /\ read \in Seq(Hook) /\ next \in Hook /\ next \in Nat
      /\ Hook \subseteq Nat
  BY LifecycleAssumption DEF LifecycleInv, StartTyped, NextFits, Hook
<1>2. /\ \A h : Has(started', h) <=> Has(read, h) \/ h = next
      /\ Distinct(read) /\ ~Has(read, next) => Distinct(started')
  BY <1>1, AppendList
<1>3. \A h : Has(started, h) => Has(read, h)
  BY EmptyList DEF ListsFit
<1>4. ListsFit'
  BY <1>1, <1>2 DEF ListsFit, Undone
<1>5. UpListed'
  BY <1>1, <1>2, <1>3 DEF UpListed
<1>6. StopsCounted'
  BY DEF StopsCounted, ByShutdown, ByStart, Undone
<1>7. FailedStays'
  BY DEF FailedStays
<1> QED BY <1>4, <1>5, <1>6, <1>7

LEMMA OverlapHooksStarted ==
  ASSUME LifecycleInv, OverlapInv, HooksStarted
  PROVE  OverlapInv'
<1> USE DEF OverlapInv, HooksStarted, shutVars, hookVars
<1>1. ListsFit'
  BY DEF ListsFit, Undone
<1>2. UpListed'
  BY DEF UpListed
<1>3. StopsCounted'
  BY DEF StopsCounted, ByShutdown, ByStart, Undone
<1>4. FailedStays'
  BY DEF FailedStays
<1> QED BY <1>1, <1>2, <1>3, <1>4

(* The undo takes the list, and what is up goes with it.                  *)
LEMMA OverlapUndoTake ==
  ASSUME LifecycleInv, OverlapInv, UndoTake
  PROVE  OverlapInv'
<1> USE DEF OverlapInv, UndoTake, shutVars, hookVars
<1>1. ListsFit'
  BY EmptyList DEF ListsFit, Undone
<1>2. UpListed'
  BY DEF UpListed
<1>3. StopsCounted'
  BY OverlapTypes DEF StopsCounted, ByShutdown, ByStart, Undone
<1>4. FailedStays'
  BY DEF FailedStays
<1> QED BY <1>1, <1>2, <1>3, <1>4

LEMMA OverlapUndoHook ==
  ASSUME LifecycleInv, OverlapInv, UndoHook
  PROVE  OverlapInv'
<1> USE DEF OverlapInv, UndoHook, shutVars
<1>1. /\ undo \in Seq(Hook) /\ Last(undo) \in Hook
      /\ up' = up \ {Last(undo)}
      /\ \A h \in Hook : stops'[h] = IF h = Last(undo) THEN stops[h] + 1 ELSE stops[h]
  BY FrontLast DEF LifecycleInv, StartTyped, HookTyped, CallStop
<1>2. /\ \A h : Has(undo, h) <=> Has(undo', h) \/ h = Last(undo)
      /\ Distinct(undo) => Distinct(undo') /\ ~Has(undo', Last(undo))
  BY <1>1, FrontList
<1>3. Has(undo, Last(undo)) /\ ~Has(undo', Last(undo))
  BY <1>2 DEF ListsFit
<1>4. ListsFit'
  BY <1>2 DEF ListsFit, Undone
<1>5. UpListed'
  BY <1>1, <1>2 DEF UpListed
<1>6. StopsCounted'
  BY <1>1, <1>2, <1>3, OverlapTypes DEF StopsCounted, ByShutdown, ByStart, Undone
<1>7. FailedStays'
  BY DEF FailedStays
<1> QED BY <1>4, <1>5, <1>6, <1>7

LEMMA OverlapUndoEnd ==
  ASSUME LifecycleInv, OverlapInv, UndoEnd
  PROVE  OverlapInv'
<1> USE DEF OverlapInv, UndoEnd, shutVars, hookVars
<1>1. ListsFit'
  BY EmptyList DEF ListsFit, Undone
<1>2. UpListed'
  BY EmptyList DEF UpListed
<1>3. StopsCounted'
  BY EmptyList DEF StopsCounted, ByShutdown, ByStart, Undone
<1>4. FailedStays'
  BY EmptyList DEF FailedStays
<1> QED BY <1>1, <1>2, <1>3, <1>4

LEMMA OverlapStoreFailed ==
  ASSUME LifecycleInv, OverlapInv, StoreFailed
  PROVE  OverlapInv'
<1> USE DEF OverlapInv, StoreFailed, shutVars, hookVars
<1>1. ListsFit'
  BY DEF ListsFit, Undone
<1>2. UpListed'
  BY DEF UpListed
<1>3. StopsCounted'
  BY DEF StopsCounted, ByShutdown, ByStart, Undone
<1>4. FailedStays'
  BY DEF FailedStays
<1> QED BY <1>1, <1>2, <1>3, <1>4

LEMMA OverlapFailRelease ==
  ASSUME LifecycleInv, OverlapInv, FailRelease
  PROVE  OverlapInv'
<1> USE DEF OverlapInv, FailRelease, hookVars
<1>1. ListsFit'
  BY DEF ListsFit, Undone
<1>2. UpListed'
  BY DEF UpListed
<1>3. StopsCounted'
  BY DEF StopsCounted, ByShutdown, ByStart, Undone
<1>4. FailedStays'
  BY DEF FailedStays
<1> QED BY <1>1, <1>2, <1>3, <1>4

LEMMA OverlapStoreRunning ==
  ASSUME LifecycleInv, OverlapInv, StoreRunning
  PROVE  OverlapInv'
<1> USE DEF OverlapInv, StoreRunning, shutVars, hookVars
<1>1. ListsFit'
  BY DEF ListsFit, Undone
<1>2. UpListed'
  BY DEF UpListed
<1>3. StopsCounted'
  BY DEF StopsCounted, ByShutdown, ByStart, Undone
<1>4. FailedStays'
  BY DEF FailedStays
<1> QED BY <1>1, <1>2, <1>3, <1>4

(* Shutdown takes the list whenever it gets there.                        *)
LEMMA OverlapShutdownBegin ==
  ASSUME LifecycleInv, OverlapInv, NEW c \in Caller, ShutdownBegin(c)
  PROVE  OverlapInv'
<1> USE DEF OverlapInv, ShutdownBegin, startVars, hookVars
<1>1. shutPc = "none"
  BY DEF LifecycleInv, OnceFits, ShutTyped
<1>2. ListsFit'
  BY DEF ListsFit, Undone
<1>3. UpListed'
  BY <1>1 DEF UpListed
<1>4. StopsCounted'
  BY <1>1 DEF StopsCounted, ByShutdown, ByStart, Undone
<1>5. FailedStays'
  BY DEF FailedStays
<1> QED BY <1>2, <1>3, <1>4, <1>5

LEMMA OverlapDraining ==
  ASSUME LifecycleInv, OverlapInv, Drain \/ ReadServer \/ HttpDrained \/ HttpForced
  PROVE  OverlapInv'
<1> USE DEF OverlapInv, Drain, ReadServer, HttpDrained, HttpForced, startVars, hookVars
<1>1. ListsFit'
  BY DEF ListsFit, Undone
<1>2. UpListed'
  BY DEF UpListed
<1>3. StopsCounted'
  BY DEF StopsCounted, ByShutdown, ByStart, Undone
<1>4. FailedStays'
  BY DEF FailedStays
<1> QED BY <1>1, <1>2, <1>3, <1>4

LEMMA OverlapTakeHooks ==
  ASSUME LifecycleInv, OverlapInv, TakeHooks
  PROVE  OverlapInv'
<1> USE DEF OverlapInv, TakeHooks, startVars, hookVars
<1>1. ListsFit'
  BY EmptyList DEF ListsFit, Undone
<1>2. UpListed'
  BY DEF UpListed
<1>3. StopsCounted'
  BY OverlapTypes DEF StopsCounted, ByShutdown, ByStart, Undone
<1>4. FailedStays'
  BY DEF FailedStays
<1> QED BY <1>1, <1>2, <1>3, <1>4

LEMMA OverlapStopHook ==
  ASSUME LifecycleInv, OverlapInv, StopHook
  PROVE  OverlapInv'
<1> USE DEF OverlapInv, StopHook, startVars
<1>1. /\ closing \in Seq(Hook) /\ Last(closing) \in Hook
      /\ up' = up \ {Last(closing)}
      /\ \A h \in Hook : stops'[h] = IF h = Last(closing) THEN stops[h] + 1 ELSE stops[h]
  BY FrontLast DEF LifecycleInv, StartTyped, HookTyped, CallStop
<1>2. /\ \A h : Has(closing, h) <=> Has(closing', h) \/ h = Last(closing)
      /\ Distinct(closing) => Distinct(closing') /\ ~Has(closing', Last(closing))
  BY <1>1, FrontList
<1>3. Has(closing, Last(closing)) /\ ~Has(closing', Last(closing))
  BY <1>2 DEF ListsFit
<1>4. ListsFit'
  BY <1>2 DEF ListsFit, Undone
<1>5. UpListed'
  BY <1>1, <1>2 DEF UpListed
<1>6. StopsCounted'
  BY <1>1, <1>2, <1>3, OverlapTypes DEF StopsCounted, ByShutdown, ByStart, Undone
<1>7. FailedStays'
  BY DEF FailedStays
<1> QED BY <1>4, <1>5, <1>6, <1>7

LEMMA OverlapFinish ==
  ASSUME LifecycleInv, OverlapInv, Finish
  PROVE  OverlapInv'
<1> USE DEF OverlapInv, Finish, startVars, hookVars
<1>1. ListsFit'
  BY EmptyList DEF ListsFit, Undone
<1>2. UpListed'
  BY EmptyList DEF UpListed
<1>3. StopsCounted'
  BY EmptyList DEF StopsCounted, ByShutdown, ByStart, Undone
<1>4. FailedStays'
  BY EmptyList DEF FailedStays
<1> QED BY <1>1, <1>2, <1>3, <1>4

LEMMA OverlapStep == LifecycleInv /\ OverlapInv /\ [Next]_vars => OverlapInv'
<1> SUFFICES ASSUME LifecycleInv, OverlapInv, [Next]_vars PROVE OverlapInv'
  OBVIOUS
<1>1. CASE ProgramStart
  BY <1>1, OverlapBegin DEF ProgramStart, Starter, Begin, shutVars, hookVars
<1>2. CASE Starting
  BY <1>2, OverlapPrepare, OverlapStartHook, OverlapAppendRead, OverlapAppendWrite,
     OverlapHooksStarted, OverlapUndoTake, OverlapUndoHook, OverlapUndoEnd,
     OverlapStoreFailed, OverlapFailRelease, OverlapStoreRunning
  DEF Starting
<1>3. ASSUME NEW s \in ServeCall, ServeStart(s) PROVE OverlapInv'
  <2>1. CASE Begin(s)
    BY <1>3, <2>1, OverlapBegin DEF ServeStart, Starter, Begin, shutVars, hookVars
  <2>2. CASE UNCHANGED <<state, startVars>>
    <3>1. UNCHANGED overlapVars
      BY <1>3, <2>2 DEF ServeStart, overlapVars, startVars, shutVars, hookVars
    <3> QED BY <3>1, OverlapAlone
  <2> QED BY <1>3, <2>1, <2>2 DEF ServeStart
<1>4. ASSUME NEW s \in ServeCall,
             ServeBegin(s) \/ Serving(s) \/ ServerFails(s) \/ ServeSignal(s),
             ~ServeStart(s)
      PROVE  OverlapInv'
  <2>1. UNCHANGED overlapVars
    BY <1>4 DEF ServeBegin, Serving, ServerFails, ServeSignal, ServeStop, EnterShutdown,
         ServeStarted, ServeCheck, ServePublish, ServerRun, ServeClosed, ServeAwait,
         ServeReturn, overlapVars, startVars, shutVars, hookVars
  <2> QED BY <2>1, OverlapAlone
<1>5. ASSUME NEW c \in Caller, ShutdownCall(c) \/ Shutdown(c) PROVE OverlapInv'
  <2>1. CASE ShutdownBegin(c)
    BY <2>1, OverlapShutdownBegin
  <2>2. CASE ShutdownCall(c) \/ ShutdownLater(c)
    <3>1. UNCHANGED overlapVars
      BY <2>2 DEF ShutdownCall, ShutdownLater, overlapVars, startVars, hookVars
    <3> QED BY <3>1, OverlapAlone
  <2> QED BY <1>5, <2>1, <2>2 DEF Shutdown
<1>6. CASE Stopping \/ HttpForced
  BY <1>6, OverlapDraining, OverlapTakeHooks, OverlapStopHook, OverlapFinish
  DEF Stopping
<1>7. ASSUME NEW r \in Request, Complete(r) \/ \E s \in ServeCall : Arrive(r, s)
      PROVE  OverlapInv'
  <2>1. UNCHANGED overlapVars
    BY <1>7 DEF Complete, Arrive, overlapVars, startVars, shutVars, hookVars
  <2> QED BY <2>1, OverlapAlone
<1>8. CASE UNCHANGED vars
  <2>1. UNCHANGED overlapVars
    BY <1>8 DEF vars, overlapVars, startVars, shutVars, hookVars
  <2> QED BY <2>1, OverlapAlone
<1> QED BY <1>1, <1>2, <1>3, <1>4, <1>5, <1>6, <1>7, <1>8 DEF Next

LEMMA OverlapInvariance == Spec => []OverlapInv
<1>1. Init => OverlapInv
  BY OverlapInit
<1>2. LifecycleInv /\ OverlapInv /\ [Next]_vars => OverlapInv'
  BY OverlapStep
<1> QED BY <1>1, <1>2, LifecycleInvariance, PTL DEF Spec

(* Every variable keeps its type, whatever Start, Serve, Shutdown and the  *)
(* requests do: an append never goes past the last hook.                   *)
THEOREM LifecycleTypeCorrect == Spec => []TypeOK
<1>1. LifecycleInv => TypeOK
  BY TypeParts
<1> QED BY <1>1, LifecycleInvariance, PTL

(* The hooks that are up are always the first ones, none or all.           *)
LEMMA FirstOnesUp ==
  ASSUME LifecycleInv, ~early
  PROVE  \E k \in Int : up = 1..k
<1>1. CASE startPc \in {"none", "prepare", "hook", "append", "write", "undo", "run", "ok"}
           /\ shutPc \notin {"hooks", "ended"}
  BY <1>1, LifecycleAssumption DEF LifecycleInv, StartTyped, StartHooksFit
<1>2. CASE startPc = "undoing" \/ shutPc = "hooks"
  <2>1. Len(undo) \in Int /\ Len(closing) \in Int
    BY DEF LifecycleInv, StartTyped, HookTyped
  <2> QED BY <1>2, <2>1 DEF LifecycleInv, StopHooksFit
<1>3. CASE startPc \in {"fail", "release", "failed"} \/ shutPc = "ended"
  <2>1. up = {} /\ {} = 1..0
    BY <1>3 DEF LifecycleInv, StopHooksFit
  <2> QED BY <2>1
<1> QED BY <1>1, <1>2, <1>3 DEF LifecycleInv, StartTyped, StartPc

(* A component runs only while those started before it run: Start undoes   *)
(* and Shutdown stops in reverse order, for any number of hooks, as long   *)
(* as no Shutdown has begun while Start was running.                       *)
THEOREM LifecycleDependenciesUp == Spec => []DependenciesUp
<1>1. LifecycleInv => DependenciesUp
  <2> SUFFICES ASSUME LifecycleInv, ~early PROVE \A h \in up : 1..h \subseteq up
    BY DEF DependenciesUp
  <2>1. PICK k \in Int : up = 1..k
    BY FirstOnesUp
  <2> QED BY <2>1
<1> QED BY <1>1, LifecycleInvariance, PTL

(* OnStop is called at most once per component, whatever Serve calls, a    *)
(* failing Start and Shutdown calls do: a list that is being stopped holds *)
(* no hook twice.  The one exception: the undo of a failed Start that      *)
(* Shutdown overlapped may stop a component once more, never a third time. *)
THEOREM LifecycleStoppedOnce == Spec => []StoppedOnce
<1>1. LifecycleInv /\ OverlapInv => StoppedOnce
  <2> SUFFICES ASSUME LifecycleInv, OverlapInv, NEW h \in Hook, ~(stops[h] <= 1)
               PROVE  early /\ startPc \in Undone /\ stops[h] = 2
    BY DEF StoppedOnce
  <2>1. early
    BY DEF LifecycleInv, StopHooksFit
  <2>2. stops[h] \in Nat
    BY OverlapTypes
  <2>3. stops[h] <= ByShutdown(h) + ByStart(h)
    BY DEF OverlapInv, StopsCounted
  <2> QED BY <2>1, <2>2, <2>3 DEF ByShutdown, ByStart
<1> QED BY <1>1, LifecycleInvariance, OverlapInvariance, PTL

(* Once Done is closed nothing is left up and the state is final, after    *)
(* every failed start, overlapped by Shutdown or not, and after every      *)
(* Shutdown that did not begin while Start was running.  Of one that did,  *)
(* it says nothing until that Start has failed: there DoneMeansStopped,    *)
(* which has no exception, is false.                                       *)
THEOREM LifecycleDoneClean == Spec => []DoneLeavesNothing
<1>1. LifecycleInv /\ OverlapInv => DoneLeavesNothing
  <2> SUFFICES ASSUME LifecycleInv, OverlapInv, done, ~early \/ startPc = "failed"
               PROVE  up = {} /\ state \in {"stopped", "failed"}
    BY DEF DoneLeavesNothing
  <2>1. startPc = "failed" \/ shutPc = "ended"
    BY DEF LifecycleInv, OnceFits
  <2>2. CASE ~early
    <3>1. up = {}
      BY <2>1, <2>2 DEF LifecycleInv, StopHooksFit
    <3>2. state \in {"stopped", "failed"}
      BY <2>1, <2>2 DEF LifecycleInv, StateFits, ShutTyped, ShutPc
    <3> QED BY <3>1, <3>2
  <2>3. CASE startPc = "failed"
    <3>1. started = <<>> /\ shutPc \in {"none", "ended"}
      BY <2>3 DEF LifecycleInv, OnceFits, OverlapInv, ListsFit, Undone
    <3>2. up = {}
      BY <2>3, <3>1, EmptyList DEF OverlapInv, UpListed
    <3>3. state \in {"stopped", "failed"}
      BY <2>3, <3>1 DEF OverlapInv, FailedStays
    <3> QED BY <3>2, <3>3
  <2> QED BY <2>2, <2>3
<1> QED BY <1>1, LifecycleInvariance, OverlapInvariance, PTL

(* A request that is active was accepted by a server of an admitted Serve. *)
LEMMA ActiveAdmitted ==
  ASSUME LifecycleInv, NEW r \in Request, req[r] = "active"
  PROVE  via[r] \in ServeCall /\ servePc[via[r]] \in Admitted
BY DEF LifecycleInv, ServersFit, Published

(* Requests are served only while every component is up: Shutdown takes    *)
(* the hooks after the server it saw has drained, and Serve publishes no   *)
(* other after that.  Three exceptions: a server that slipped in (missed), *)
(* a shutdown whose context ended first (forced), and a Shutdown that      *)
(* began while Start was running (early), after which Serve may accept     *)
(* requests with components stopped.                                       *)
THEOREM LifecycleHooksOutlive == Spec => []HooksOutliveRequests
<1>1. LifecycleInv => HooksOutliveRequests
  <2> SUFFICES ASSUME LifecycleInv, ~early, ~forced, missed = {},
                      NEW r \in Request, req[r] = "active"
               PROVE  up = Hook
    BY DEF HooksOutliveRequests
  <2>1. startPc = "ok"
    BY ActiveAdmitted DEF LifecycleInv, DrainFits
  <2>2. shutPc \notin {"take", "hooks", "ended"}
    <3> SUFFICES ASSUME shutPc \in {"take", "hooks", "ended"} PROVE FALSE
      OBVIOUS
    <3>1. DrainFits
      BY DEF LifecycleInv
    <3>2. \A q \in Request : req[q] # "active"
      BY <3>1 DEF DrainFits
    <3> QED BY <3>2
  <2> QED BY <2>1, <2>2, LifecycleAssumption DEF LifecycleInv, StartHooksFit, Hook
<1> QED BY <1>1, LifecycleInvariance, PTL

(* A Serve call that has returned leaves nothing up, unless a Shutdown     *)
(* began while Start was running; and then no request of its own either,   *)
(* unless its server failed, a server was missed or the shutdown forced.   *)
THEOREM LifecycleServeClean == Spec => []ServeReturnsClean
<1>1. LifecycleInv => ServeReturnsClean
  <2> SUFFICES ASSUME LifecycleInv, ~early, NEW s \in ServeCall, servePc[s] = "returned"
               PROVE  up = {} /\ (forced \/ missed # {} \/ ActiveOn(s) = {})
    BY DEF ServeReturnsClean
  <2>1. once = "over"
    BY DEF LifecycleInv, ServersFit
  <2>2. startPc = "ok"
    BY DEF LifecycleInv, DrainFits, Admitted
  <2>3. shutPc = "ended"
    BY <2>1, <2>2 DEF LifecycleInv, OnceFits
  <2>4. up = {}
    BY <2>3 DEF LifecycleInv, StopHooksFit
  <2>5. ~forced /\ missed = {} => \A r \in Request : req[r] # "active"
    BY <2>3 DEF LifecycleInv, DrainFits
  <2> QED BY <2>4, <2>5 DEF ActiveOn
<1> QED BY <1>1, LifecycleInvariance, PTL

-----------------------------------------------------------------------------
(* What a step may do to a.state.                                          *)

(* The steps that store to a.state.                                        *)
LEMMA StateStores ==
  ASSUME Next, state' # state
  PROVE  \/ \E who \in Starter : Begin(who) /\ UNCHANGED early
         \/ StoreFailed \/ StoreRunning \/ Finish
         \/ \E c \in Caller : ShutdownBegin(c)
<1>1. ProgramStart => Begin(Program) /\ Program \in Starter /\ UNCHANGED early
  BY DEF ProgramStart, Starter, histVars
<1>2. Starting => StoreFailed \/ StoreRunning
  BY DEF Starting, Prepare, StartHook, AppendRead, AppendWrite, HooksStarted,
         UndoTake,
         UndoHook, UndoEnd, FailRelease
<1>3. ASSUME NEW s \in ServeCall,
             ServeBegin(s) \/ Serving(s) \/ ServerFails(s) \/ ServeSignal(s)
      PROVE  \E who \in Starter : Begin(who) /\ UNCHANGED early
  BY <1>3 DEF ServeBegin, Serving, ServerFails, ServeSignal, ServeStop, EnterShutdown,
         ServeStart, ServeStarted, ServeCheck, ServePublish, ServerRun, ServeClosed,
         ServeAwait, ServeReturn, Starter, histVars
<1>4. ASSUME NEW c \in Caller, ShutdownCall(c) \/ Shutdown(c) PROVE ShutdownBegin(c)
  BY <1>4 DEF ShutdownCall, Shutdown, ShutdownLater
<1>5. Stopping \/ HttpForced => Finish
  BY DEF Stopping, HttpForced, Drain, ReadServer, HttpDrained, TakeHooks, StopHook
<1>6. ASSUME NEW r \in Request, Complete(r) \/ \E s \in ServeCall : Arrive(r, s)
      PROVE  FALSE
  BY <1>6 DEF Complete, Arrive
<1> QED BY <1>1, <1>2, <1>3, <1>4, <1>5, <1>6 DEF Next

(* Over which state a step stores another, Shutdown overlapping or not.    *)
LEMMA StepForward ==
  ASSUME LifecycleInv, Next, state' # state
  PROVE  \/ Rank[state] < Rank[state']
         \/ early' /\ (state' \in {"running", "failed"} \/ state = "failed")
<1> USE DEF Rank
<1>1. ASSUME NEW who \in Starter, Begin(who) PROVE Rank[state] < Rank[state']
  BY <1>1 DEF Begin
<1>2. CASE StoreFailed \/ StoreRunning
  <2>1. CASE early
    BY <1>2, <2>1 DEF StoreFailed, StoreRunning, histVars
  <2>2. CASE ~early
    <3>1. state = "starting"
      BY <1>2, <2>2 DEF StoreFailed, StoreRunning, LifecycleInv, StateFits
    <3> QED BY <1>2, <3>1 DEF StoreFailed, StoreRunning
  <2> QED BY <2>1, <2>2
<1>3. CASE Finish
  <2>1. CASE early
    <3>1. state \in State /\ state # "stopped" /\ state' = "stopped" /\ early'
      BY <1>3, <2>1 DEF Finish, histVars, LifecycleInv, StartTyped
    <3> QED BY <3>1 DEF State
  <2>2. CASE ~early
    BY <1>3, <2>2 DEF Finish, histVars, LifecycleInv, StateFits
  <2> QED BY <2>1, <2>2
<1>4. ASSUME NEW c \in Caller, ShutdownBegin(c)
      PROVE  \/ Rank[state] < Rank[state']
             \/ early' /\ state = "failed"
  <2>1. ~early /\ shutPc = "none" /\ startPc # "failed" /\ state' = "stopping"
    BY <1>4 DEF ShutdownBegin, LifecycleInv, OnceFits, ShutTyped
  <2>2. startPc = "release" => early' /\ state = "failed"
    BY <1>4, <2>1 DEF ShutdownBegin, StartRuns, LifecycleInv, StateFits
  <2>3. startPc # "release" => state \in {"building", "starting", "running"}
    BY <2>1 DEF LifecycleInv, StartTyped, StartPc, StateFits
  <2> QED BY <2>1, <2>2, <2>3
<1> QED BY <1>1, <1>2, <1>3, <1>4, StateStores

(* The state only moves forward: building, starting, running, stopping,    *)
(* stopped, or failed from starting.  When a Shutdown began while Start    *)
(* was running, that Start may still store running or failed over what     *)
(* Shutdown stored, and Shutdown may store over failed; nothing else.      *)
THEOREM LifecycleForward == Spec => StateForward
<1>1. LifecycleInv /\ LifecycleInv' /\ [Next]_vars
        => [\/ Rank[state] < Rank[state']
            \/ early' /\ (state' \in {"running", "failed"} \/ state = "failed")]_state
  BY StepForward DEF vars
<1> QED BY <1>1, LifecycleInvariance, PTL DEF Spec, StateForward

=============================================================================
