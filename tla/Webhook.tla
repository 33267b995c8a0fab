------------------------------- MODULE Webhook -------------------------------
(***************************************************************************)
(* Webhook deliveries (webhook/webhook.go): the verifiers, and the replay  *)
(* check against a cache.Store around the handler.                         *)
(*                                                                         *)
(* A delivery is [scheme, sigs, stamp, id]: sigs, the entries of its       *)
(* signature header in order, each [by, form, text], by the secret it was  *)
(* made with, over what the delivery says, form FALSE when it cannot be    *)
(* decoded or is of another version; stamp, its timestamp, None when it is *)
(* missing and Junk when it is no number; id, the event's ID or None.  A   *)
(* Stripe header with neither a timestamp nor a signature is left out.     *)
(***************************************************************************)
EXTENDS CacheStore, FiniteSetsExt

CONSTANTS Delivery,  \* the deliveries
          Content,   \* Content[d]: the record of delivery d
          Secrets,   \* the secrets of the verifier, in order
          Tolerance, \* accepted difference of timestamps
          ReplayTTL,
          Junk

VARIABLES delivering, \* a delivery's place in the middleware
          reply,      \* its answer
          handled,    \* history: deliveries the handler accepted
          crossed     \* history: per event, checks passed while another delivery was past its own

hookVars == <<delivering, reply, handled, crossed>>

HookInit ==
  /\ delivering = [d \in Delivery |-> "sent"]
  /\ reply = [d \in Delivery |-> "none"]
  /\ handled = {}
  /\ crossed = [k \in Key |-> 0]

-----------------------------------------------------------------------------
(* The verifiers.                                                          *)

Distance(a, b) == IF a > b THEN a - b ELSE b - a

(* checkTimestamp.                                                         *)
StampFails(stamp, t) == stamp \in {None, Junk} \/ Distance(t, stamp) > Tolerance

Signed(d) == {i \in DOMAIN d.sigs : d.sigs[i].form /\ d.sigs[i].by \in ToSet(Secrets)}

Judged(d) == IF Signed(d) # {} THEN "accepted" ELSE "invalid"

(* hmacVerifier: one signature; the timestamp is checked if it is signed.  *)
VerifyHMAC(d, stamped, t) ==
  IF d.sigs = <<>> THEN "missing"
  ELSE IF stamped /\ StampFails(d.stamp, t) THEN "timestamp"
  ELSE Judged(d)

(* stripeVerifier: the header is there, but may lack its t or v1 parts.    *)
VerifyStripe(d, t) ==
  IF d.sigs = <<>> /\ d.stamp = None THEN "missing"
  ELSE IF d.sigs = <<>> \/ d.stamp = None THEN "invalid"
  ELSE IF StampFails(d.stamp, t) THEN "timestamp"
  ELSE Judged(d)

(* standardVerifier: all three headers must be there.                      *)
VerifyStandard(d, t) ==
  IF d.id = None \/ d.stamp = None \/ d.sigs = <<>> THEN "missing"
  ELSE IF StampFails(d.stamp, t) THEN "timestamp"
  ELSE Judged(d)

Verify(d, t) ==
  CASE d.scheme = "github" -> VerifyHMAC(d, FALSE, t)
    [] d.scheme = "hmac" -> VerifyHMAC(d, TRUE, t)
    [] d.scheme = "stripe" -> VerifyStripe(d, t)
    [] d.scheme = "standard" -> VerifyStandard(d, t)

(* The signature that was accepted: that of the first secret that has one. *)
Accepted(d) ==
  LET made(n) == {i \in Signed(d) : d.sigs[i].by = Secrets[n]}
      first == Min({n \in DOMAIN Secrets : made(n) # {}})
  IN d.sigs[Min(made(first))]

(* The store key of the event a delivery is about (the code prefixes a     *)
(* signature with "sig:", so that it is no other event's ID).              *)
EventKey(d) == IF Content[d].id # None THEN Content[d].id ELSE Accepted(Content[d]).text

ASSUME WebhookAssumption ==
  /\ ReplayTTL \in Nat \ {0}
  /\ \A d \in Delivery :
       /\ Content[d].scheme \in {"github", "hmac", "stripe", "standard"}
       /\ Judged(Content[d]) = "accepted" => EventKey(d) \in Key

-----------------------------------------------------------------------------
(* The middleware.                                                         *)

Reply(d, status) ==
  /\ delivering' = [delivering EXCEPT ![d] = "over"]
  /\ reply' = [reply EXCEPT ![d] = status]

Arrive(d) ==
  /\ delivering[d] = "sent"
  /\ LET v == Verify(Content[d], now)
     IN IF v = "accepted"
          THEN delivering' = [delivering EXCEPT ![d] = "check"] /\ UNCHANGED reply
          ELSE Reply(d, v)
  /\ UNCHANGED <<storeVars, handled, crossed>>

Past(d) == delivering[d] \in {"handle", "record"}

(* The replay check: any error of the store lets the delivery pass.        *)
CheckReplay(d, o) ==
  /\ delivering[d] = "check"
  /\ GetStep(EventKey(d), o)
  /\ IF o = "ok" /\ Live(EventKey(d))
       THEN Reply(d, "duplicate") /\ UNCHANGED crossed
       ELSE /\ delivering' = [delivering EXCEPT ![d] = "handle"]
            /\ crossed' = IF o # "ok" \/ \E e \in Delivery : Past(e) /\ EventKey(e) = EventKey(d)
                            THEN [crossed EXCEPT ![EventKey(d)] = @ + 1] ELSE crossed
            /\ UNCHANGED reply
  /\ UNCHANGED handled

(* The handler accepts the event with a status below 300, or it fails.     *)
HandleEvent(d, ok) ==
  /\ delivering[d] = "handle"
  /\ IF ok
       THEN /\ delivering' = [delivering EXCEPT ![d] = "record"]
            /\ reply' = [reply EXCEPT ![d] = "handled"]
            /\ handled' = handled \cup {d}
       ELSE Reply(d, "failed") /\ UNCHANGED handled
  /\ UNCHANGED <<storeVars, crossed>>

(* The delivery is recorded; a failure to do so is only logged.            *)
RecordDelivery(d, o) ==
  /\ delivering[d] = "record"
  /\ SetStep(EventKey(d), "delivered", ReplayTTL, o)
  /\ delivering' = [delivering EXCEPT ![d] = "over"]
  /\ crossed' = IF Ran(o) THEN crossed ELSE [crossed EXCEPT ![EventKey(d)] = @ + 1]
  /\ UNCHANGED <<reply, handled>>

HookNext ==
  \E d \in Delivery :
    \/ Arrive(d)
    \/ \E ok \in BOOLEAN : HandleEvent(d, ok)
    \/ \E o \in Outcome : CheckReplay(d, o) \/ RecordDelivery(d, o)

HookDone == \A d \in Delivery : delivering[d] = "over"

-----------------------------------------------------------------------------
(* The handler accepts an event once, and once more for each time the      *)
(* store lost or could not tell that it did, and for each delivery checked *)
(* while another one was being handled.                                    *)
EventOnce ==
  \A k \in Key : Cardinality({d \in handled : EventKey(d) = k}) <= 1 + lapses[k] + crossed[k]
=============================================================================
