------------------------------- MODULE Flights -------------------------------
(***************************************************************************)
(* Typed.GetOrLoad and its flightGroup (cache/typed.go): the calls of one  *)
(* process for a missing key share one load.                               *)
(*                                                                         *)
(* A value is the caller whose load made it.                               *)
(***************************************************************************)
EXTENDS CacheStore

CONSTANTS Caller,    \* calls of GetOrLoad
          LoadKey,   \* LoadKey[c]: the key the call is for
          LoadTTL

ASSUME FlightAssumption ==
  /\ LoadKey \in [Caller -> Key] /\ LoadTTL \in Nat
  /\ None \notin Caller

Result(value, err) == [value |-> value, err |-> err]
Unset == Result(None, "unset")

VARIABLES calling, \* a call's place in GetOrLoad
          leads,   \* flightGroup.calls: per key its leader, or None
          flight,  \* the result of the flight a caller leads
          joined,  \* the leader a caller waits for
          result,  \* what a call returned
          loads,   \* history: calls of load that returned a value, per key
          missed   \* history: store operations on the key that failed

flightVars == <<calling, leads, flight, joined, result, loads, missed>>

FlightInit ==
  /\ calling = [c \in Caller |-> "first"]
  /\ leads = [k \in Key |-> None]
  /\ flight = [c \in Caller |-> Unset]
  /\ joined = [c \in Caller |-> None]
  /\ result = [c \in Caller |-> Unset]
  /\ loads = [k \in Key |-> 0]
  /\ missed = [k \in Key |-> 0]

Moves(c, place) == calling' = [calling EXCEPT ![c] = place]
Misses(k, o) == missed' = IF o = "ok" THEN missed ELSE [missed EXCEPT ![k] = @ + 1]

(* Typed.Get before the flight: a value is returned, anything else loads.  *)
FirstGet(c, o) ==
  /\ calling[c] = "first"
  /\ GetStep(LoadKey[c], o) /\ Misses(LoadKey[c], o)
  /\ IF o = "ok" /\ Live(LoadKey[c])
       THEN /\ result' = [result EXCEPT ![c] = Result(Value(LoadKey[c]), "none")]
            /\ Moves(c, "over")
       ELSE Moves(c, "do") /\ UNCHANGED result
  /\ UNCHANGED <<leads, flight, joined, loads>>

(* flightGroup.do under its mutex: join the flight of the key, or lead one *)
(* whose result is errLoadPanicked until there is another.                 *)
Join(c) ==
  /\ calling[c] = "do" /\ leads[LoadKey[c]] # None
  /\ joined' = [joined EXCEPT ![c] = leads[LoadKey[c]]]
  /\ Moves(c, "wait")
  /\ UNCHANGED <<storeVars, leads, flight, result, loads, missed>>

Lead(c) ==
  /\ calling[c] = "do" /\ leads[LoadKey[c]] = None
  /\ leads' = [leads EXCEPT ![LoadKey[c]] = c]
  /\ flight' = [flight EXCEPT ![c] = Result(None, "panicked")]
  /\ Moves(c, "second")
  /\ UNCHANGED <<storeVars, joined, result, loads, missed>>

(* (Slip: the leader of a flight loads at once.)                           *)
SecondGetSkipped(c, o) ==
  /\ calling[c] = "second" /\ o = "ok"
  /\ Moves(c, "load")
  /\ UNCHANGED <<storeVars, leads, flight, joined, result, loads, missed>>

(* Typed.Get again: another flight may have landed meanwhile.              *)
SecondGet(c, o) ==
  /\ calling[c] = "second"
  /\ GetStep(LoadKey[c], o) /\ Misses(LoadKey[c], o)
  /\ IF o = "ok" /\ Live(LoadKey[c])
       THEN /\ flight' = [flight EXCEPT ![c] = Result(Value(LoadKey[c]), "none")]
            /\ Moves(c, "land")
       ELSE Moves(c, "load") /\ UNCHANGED flight
  /\ UNCHANGED <<leads, joined, result, loads>>

(* load returns a value or an error, or panics; with the leader's context. *)
LoadValue(c, how) ==
  /\ calling[c] = "load"
  /\ CASE how = "value" ->
            /\ flight' = [flight EXCEPT ![c] = Result(c, "none")]
            /\ loads' = [loads EXCEPT ![LoadKey[c]] = @ + 1]
            /\ Moves(c, "store")
       [] how = "error" ->
            /\ flight' = [flight EXCEPT ![c] = Result(None, "failed")]
            /\ Moves(c, "land") /\ UNCHANGED loads
       [] how = "panic" -> Moves(c, "land") /\ UNCHANGED <<flight, loads>>
  /\ UNCHANGED <<storeVars, leads, joined, result, missed>>

(* Typed.Set; its error is ignored.                                        *)
StoreLoaded(c, o) ==
  /\ calling[c] = "store"
  /\ SetStep(LoadKey[c], c, LoadTTL, o) /\ Misses(LoadKey[c], o)
  /\ Moves(c, "land")
  /\ UNCHANGED <<leads, flight, joined, result, loads>>

(* The deferred end of a flight: the key is free again.                    *)
Land(c) ==
  /\ calling[c] = "land"
  /\ leads' = [leads EXCEPT ![LoadKey[c]] = None]
  /\ result' = [result EXCEPT ![c] = flight[c]]
  /\ Moves(c, "over")
  /\ UNCHANGED <<storeVars, flight, joined, loads, missed>>

(* Its followers return what it holds.                                     *)
Landed(c) == calling[c] = "over"
Return(c) ==
  /\ calling[c] = "wait" /\ Landed(joined[c])
  /\ result' = [result EXCEPT ![c] = flight[joined[c]]]
  /\ Moves(c, "over")
  /\ UNCHANGED <<storeVars, leads, flight, joined, loads, missed>>

FlightNext ==
  \E c \in Caller :
    \/ Join(c) \/ Lead(c) \/ Land(c) \/ Return(c)
    \/ \E how \in {"value", "error", "panic"} : LoadValue(c, how)
    \/ \E o \in Outcome : FirstGet(c, o) \/ SecondGet(c, o) \/ StoreLoaded(c, o)

FlightDone == \A c \in Caller : calling[c] = "over"

-----------------------------------------------------------------------------
(* One load per key at a time, and one more value loaded only if the store *)
(* lost the last one or failed.  No call returns a value that was not      *)
(* loaded for its key, and none that a panic left unmade.                  *)
LoadShared ==
  /\ \A c, d \in Caller : c # d /\ calling[c] = "load" /\ calling[d] = "load" =>
       LoadKey[c] # LoadKey[d]
  /\ \A k \in Key : loads[k] <= 1 + lapses[k] + missed[k]
  /\ \A c \in Caller : calling[c] = "over" =>
       \/ result[c].err \in {"failed", "panicked"}
       \/ result[c].err = "none" /\ result[c].value \in Caller /\ LoadKey[result[c].value] = LoadKey[c]
=============================================================================
