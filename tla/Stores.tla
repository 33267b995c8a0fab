------------------------------- MODULE Stores -------------------------------
(***************************************************************************)
(* The services on top of a store and a clock, one of them in a behaviour: *)
(* idempotent calls, webhook deliveries, sessions, shared loads or rate    *)
(* limits.  They never share a key (cache.Namespace), so what another one  *)
(* does to the store is what Evict does.                                   *)
(***************************************************************************)
EXTENDS Idempotency, Webhook, Sessions, Flights, RateLimit

VARIABLE service

serviceVars == <<idemVars, hookVars, sessionVars, flightVars, limitVars>>
vars == <<storeVars, serviceVars, service>>

Service == {"idempotency", "webhook", "session", "load", "limit"}

Init ==
  /\ service \in Service
  /\ StoreInit /\ IdemInit /\ HookInit /\ SessionInit /\ FlightInit /\ LimitInit
  /\ service = "limit" \/ (limiter = "memory" /\ failClosed)
  /\ service = "idempotency" \/ calls = CHOOSE s \in Clients : TRUE

Serve ==
  \/ /\ service = "idempotency" /\ (ServeNext \/ CallNext) /\ UNCHANGED calls
     /\ UNCHANGED <<hookVars, sessionVars, flightVars, limitVars>>
  \/ /\ service = "webhook" /\ HookNext
     /\ UNCHANGED <<idemVars, sessionVars, flightVars, limitVars>>
  \/ /\ service = "session" /\ SessionNext
     /\ UNCHANGED <<idemVars, hookVars, flightVars, limitVars>>
  \/ /\ service = "load" /\ FlightNext
     /\ UNCHANGED <<idemVars, hookVars, sessionVars, limitVars>>
  \/ /\ service = "limit" /\ LimitNext
     /\ UNCHANGED <<idemVars, hookVars, sessionVars, flightVars>>

Done ==
  CASE service = "idempotency" -> IdemDone
    [] service = "webhook" -> HookDone
    [] service = "session" -> SessionDone
    [] service = "load" -> FlightDone
    [] service = "limit" -> LimitDone

Next ==
  \/ Serve /\ UNCHANGED service
  \/ ~Done /\ (IF service = "limit" THEN Tick ELSE StoreNext) /\ UNCHANGED <<serviceVars, service>>
  \/ Done /\ UNCHANGED vars

Spec == Init /\ [][Next]_vars

-----------------------------------------------------------------------------
(* What is done to a key is done once, as far as its record lasts: see     *)
(* Idempotency.EffectOnce and Webhook.EventOnce (the middlewares of        *)
(* idempotency.go and webhook.go, with the retries of httpclient.go).      *)
DoneOnce == EffectOnce /\ EventOnce
=============================================================================
