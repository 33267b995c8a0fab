------------------------------ MODULE Sessions ------------------------------
(***************************************************************************)
(* Sessions (session/session.go): a request loads its session when it      *)
(* enters the middleware and commits it before its header is written, in   *)
(* one operation on the store after the other, with no lock between        *)
(* requests of the same client.                                            *)
(***************************************************************************)
EXTENDS CacheStore

CONSTANTS Visit,      \* requests
          SessionTTL  \* session.Config.TTL

(* newID never makes an ID twice (32 random bytes): there are enough.      *)
ASSUME SessionAssumption ==
  /\ SessionTTL \in Nat \ {0}
  /\ IsFiniteSet(Visit)
  /\ IsFiniteSet(Key) => Cardinality(Visit) <= Cardinality(Key)

(* Session: id, oldID, expires, the values (only their writer is kept) and *)
(* its three flags.                                                        *)
Blank == [id |-> None, old |-> None, expires |-> 0,
          modified |-> FALSE, destroyed |-> FALSE]

VARIABLES visiting, \* a request's place
          session,  \* its Session
          cookie,   \* the cookie it came with, and what it went away with
          issued,   \* IDs newID has made
          came,     \* history: the session ID a request loaded
          gone,     \* history: IDs whose destruction or regeneration is committed
          undone    \* history: IDs whose removal another request could undo

sessionVars == <<visiting, session, cookie, issued, came, gone, undone>>

SessionInit ==
  /\ visiting = [v \in Visit |-> "none"]
  /\ session = [v \in Visit |-> Blank]
  /\ cookie = [v \in Visit |-> None]
  /\ issued = {}
  /\ came = [v \in Visit |-> None]
  /\ gone = {} /\ undone = {}

To(v, place) == visiting' = [visiting EXCEPT ![v] = place]

(* A request comes with no cookie or with one that was issued before.      *)
Enters(v) ==
  /\ visiting[v] = "none"
  /\ \E ck \in issued \cup {None} :
       /\ cookie' = [cookie EXCEPT ![v] = ck]
       /\ To(v, IF ck = None THEN "handler" ELSE "load")
  /\ UNCHANGED <<storeVars, session, issued, came, gone, undone>>

(* Manager.load: whatever goes wrong, the session is a blank one.          *)
Load(v, o) ==
  /\ visiting[v] = "load"
  /\ GetStep(cookie[v], o)
  /\ IF o = "ok" /\ Live(cookie[v])
       THEN /\ session' = [session EXCEPT ![v].id = cookie[v],
                                          ![v].expires = Value(cookie[v])]
            /\ came' = [came EXCEPT ![v] = cookie[v]]
       ELSE UNCHANGED <<session, came>>
  /\ To(v, "handler")
  /\ UNCHANGED <<cookie, issued, gone, undone>>

(* Session.Set and Delete, Regenerate and Destroy, at most two calls.      *)
Modified(s) == [s EXCEPT !.modified = TRUE]
(* (Slip: the ID the session had is forgotten.)                            *)
RegeneratedAfresh(s) == [s EXCEPT !.id = None, !.modified = TRUE]

Regenerated(s) ==
  [s EXCEPT !.old = IF s.id # None /\ s.old = None THEN s.id ELSE s.old,
            !.id = None, !.modified = TRUE]
Destroyed(s) == [s EXCEPT !.destroyed = TRUE]

Handled(s) ==
  {s, Modified(s), Regenerated(s), Destroyed(s),
   Destroyed(Regenerated(s)), Regenerated(Regenerated(s))}

(* The handler returns, and the header is written: commit begins.          *)
Touch(s) == s.id # None /\ 2 * (s.expires - now) < SessionTTL
Saves(s) == s.modified \/ Touch(s)

Leave(v) ==
  /\ visiting[v] = "handler"
  /\ \E s \in Handled(session[v]) :
       /\ session' = [session EXCEPT ![v] = s]
       /\ To(v, IF s.destroyed THEN "destroy" ELSE IF Saves(s) THEN "drop" ELSE "over")
  /\ UNCHANGED <<storeVars, cookie, issued, came, gone, undone>>

(* Other requests that have the session loaded and may still store it.     *)
Holders(id, v) == {w \in Visit \ {v} : session[w].id = id /\ visiting[w] \notin {"none", "over"}}

(* commit removes an ID; errors are ignored.  The removal cannot be relied *)
(* on when the store refused it, or when a request that has the session    *)
(* loaded may store it again.                                              *)
Removes(id, v, o) ==
  IF id = None
    THEN o = "ok" /\ UNCHANGED <<storeVars, undone>>
    ELSE /\ DeleteStep(id, o)
         /\ undone' = IF ~Ran(o) \/ Holders(id, v) # {} THEN undone \cup {id} ELSE undone

(* commit of a destroyed session: Delete of id, then of oldID.             *)
Destroying(v, o) ==
  /\ visiting[v] = "destroy"
  /\ Removes(session[v].id, v, o)
  /\ To(v, "destroy old")
  /\ UNCHANGED <<session, cookie, issued, came, gone>>

DestroyingOld(v, o) ==
  /\ visiting[v] = "destroy old"
  /\ Removes(session[v].old, v, o)
  /\ cookie' = [cookie EXCEPT ![v] = None]
  /\ gone' = gone \cup ({came[v]} \ {None})
  /\ To(v, "over")
  /\ UNCHANGED <<session, issued, came>>

(* commit of a session that is saved: Delete of oldID, then Set.           *)
DropOld(v, o) ==
  /\ visiting[v] = "drop"
  /\ Removes(session[v].old, v, o)
  /\ To(v, "save")
  /\ UNCHANGED <<session, cookie, issued, came, gone>>

newID == CHOOSE id \in Key \ issued : TRUE

(* A session without an ID gets a new one; the cookie is only set when the *)
(* store took the session.                                                 *)
Save(v, o) ==
  /\ visiting[v] = "save"
  /\ LET id == IF session[v].id = None THEN newID ELSE session[v].id IN
       /\ SetStep(id, now + SessionTTL, SessionTTL, o)
       /\ session' = [session EXCEPT ![v].id = id, ![v].expires = now + SessionTTL]
       /\ issued' = issued \cup {id}
       /\ cookie' = [cookie EXCEPT ![v] = IF o = "ok" THEN id ELSE @]
       /\ gone' = IF came[v] \in {None, id} THEN gone ELSE gone \cup {came[v]}
  /\ To(v, "over")
  /\ UNCHANGED <<came, undone>>

SessionNext ==
  \E v \in Visit :
    \/ Enters(v) \/ Leave(v)
    \/ \E o \in Outcome :
         Load(v, o) \/ Destroying(v, o) \/ DestroyingOld(v, o) \/ DropOld(v, o) \/ Save(v, o)

SessionDone == \A v \in Visit : visiting[v] = "over"

-----------------------------------------------------------------------------
(* The session a request came with and destroyed or regenerated is not     *)
(* accepted any more once that is committed, unless the store refused the  *)
(* removal or another request had the session loaded by then.              *)
SessionGone == \A id \in gone : Live(id) => id \in undone
=============================================================================
