-------------------------------- MODULE Auth --------------------------------
(***************************************************************************)
(* Authentication and authorization of a request: the authenticators and   *)
(* middleware of auth/auth.go, the policies of auth/policy.go, and the     *)
(* token verifier of contrib/jwt.                                          *)
(*                                                                         *)
(* A request's credentials are [bearer, key, basic]: what a bearer header  *)
(* carries (Absent, or a token's claims as the JWT library sees them), the *)
(* API key, and the name and password of Basic (Absent for none).  A       *)
(* principal is [id, roles, scopes].  An authenticator returns [is, who]   *)
(* with is "none" (ErrNoCredentials), "invalid", "principal" or "nobody"   *)
(* (a nil principal without an error).                                     *)
(***************************************************************************)
EXTENDS Naturals, Sequences, FiniteSets, FiniteSetsExt

CONSTANTS Absent,   \* no credential, no principal
          Keys,     \* API keys: a function from keys to principals
          Users,    \* Basic credentials: the <<name, password>> pairs
          Nesting   \* the policies of the program with those they are made
                    \* of: a function to how deep each is nested

Composite == {"all", "any", "not"}
Policies == DOMAIN Nesting

(* A policy is made of policies that were there before it, and Not of one. *)
(* Authenticators return no empty principal.                               *)
ASSUME AuthAssumption ==
  /\ Nesting \in [Policies -> Nat]
  /\ \A p \in Policies :
       /\ p.op \in Composite =>
            /\ p.of \in Seq(Policies)
            /\ \A i \in DOMAIN p.of : Nesting[p.of[i]] < Nesting[p]
       /\ p.op = "not" => Len(p.of) = 1
  /\ \A k \in DOMAIN Keys : Keys[k] # Absent
  /\ \A u \in Users : [id |-> u[1], roles |-> {}, scopes |-> {}] # Absent

Anonymous == [is |-> "none", who |-> Absent]
Rejected == [is |-> "invalid", who |-> Absent]
Known(p) == [is |-> "principal", who |-> p]

(* A token: [alg, signed, exp, issuer, audience, sub, roles, scopes].  The *)
(* library takes the algorithms listed, a good signature, an expiry that   *)
(* is there and not past by more than the leeway, and the issuer and       *)
(* audience asked for.                                                     *)
TokenAccepted(t, cfg) ==
  /\ t.alg \in cfg.algorithms /\ t.signed
  /\ t.exp \in {"ahead", "withinLeeway"}
  /\ cfg.issuer = "" \/ t.issuer = cfg.issuer
  /\ cfg.audience = "" \/ t.audience = cfg.audience

(* DefaultPrincipal: a token has to name its subject.                      *)
Claimed(t) == [id |-> t.sub, roles |-> t.roles, scopes |-> t.scopes]
VerifyToken(t, cfg) ==
  IF TokenAccepted(t, cfg) /\ t.sub # "" THEN Known(Claimed(t)) ELSE Rejected

(* The authenticators by name.                                             *)
Authenticate(name, cred, cfg) ==
  CASE name = "bearer" ->
         IF cred.bearer = Absent THEN Anonymous ELSE VerifyToken(cred.bearer, cfg)
    [] name = "apikey" ->
         IF cred.key = Absent THEN Anonymous
         ELSE IF cred.key \in DOMAIN Keys THEN Known(Keys[cred.key]) ELSE Rejected
    [] name = "basic" ->
         IF cred.basic = Absent THEN Anonymous
         ELSE IF cred.basic \in Users
                THEN Known([id |-> cred.basic[1], roles |-> {}, scopes |-> {}]) ELSE Rejected
    [] OTHER -> [is |-> "nobody", who |-> Absent]

(* The first authenticator that does not pass the request on decides.      *)
Speaks(result) == result.is \in {"principal", "invalid"}

(* Required and Optional: who the request is from, and whether it goes on. *)
Identify(user, optional, names, cred, cfg) ==
  LET results == [i \in DOMAIN names |-> Authenticate(names[i], cred, cfg)]
      heard == {i \in DOMAIN names : Speaks(results[i])}
      first == results[Min(heard)]
  IN CASE user # Absent -> [user |-> user, error |-> ""]
       [] user = Absent /\ heard # {} /\ first.is = "principal" ->
            [user |-> first.who, error |-> ""]
       [] user = Absent /\ heard # {} /\ first.is = "invalid" ->
            [user |-> Absent, error |-> "INVALID_CREDENTIALS"]
       [] OTHER -> [user |-> Absent,
                    error |-> IF optional THEN "" ELSE "AUTHENTICATION_REQUIRED"]

-----------------------------------------------------------------------------
(* Policies: [op |-> "all" | "any" | "not", of |-> sequence of policies],  *)
(* [op |-> "nil"], or a leaf.  A policy allows, denies explicitly (a 403   *)
(* or a sentinel of the package), or fails (any other error).              *)

(* OwnerIs: a mismatch denies, a value that is missing fails.              *)
OwnerIs(subject, owner) ==
  CASE subject = "" \/ owner = "" -> "fail"
    [] subject # "" /\ owner # "" /\ subject # owner -> "deny"
    [] OTHER -> "allow"

Leaf(p, who, subject) ==
  CASE p.op = "owner" -> OwnerIs(subject, who.id)
    [] p.op = "banned" -> IF p.role \in who.roles THEN "deny" ELSE "allow"
    [] p.op = "lookup" -> "fail"
    [] OTHER -> "deny"

(* (Slip: every error is taken for a denial.)                              *)
InvertAnything(v) == IF v = "allow" THEN "deny" ELSE "allow"

Invert(v) == CASE v = "allow" -> "deny" [] v = "deny" -> "allow" [] OTHER -> "fail"

(* All returns its first error, Any its last; an empty Any denies, and so  *)
(* does Not of nothing.                                                    *)
Combine(p, verdicts) ==
  LET against == {i \in DOMAIN verdicts : verdicts[i] # "allow"}
  IN CASE p.op = "all" -> IF against = {} THEN "allow" ELSE verdicts[Min(against)]
       [] p.op = "any" -> CASE verdicts = <<>> -> "deny"
                            [] verdicts # <<>> /\ against # DOMAIN verdicts -> "allow"
                            [] OTHER -> verdicts[Len(verdicts)]
       [] OTHER -> IF p.of[1].op = "nil" THEN "deny" ELSE Invert(verdicts[1])

Verdicts(who, subject) ==
  LET judge[p \in Policies] ==
        IF p.op \in Composite THEN Combine(p, [i \in DOMAIN p.of |-> judge[p.of[i]]])
        ELSE Leaf(p, who, subject)
  IN judge
Judge(p, who, subject) == Verdicts(who, subject)[p]

(* Require, RequireRoles and RequireScopes.                                *)
Authorize(user, need, subject) ==
  CASE user = Absent -> "AUTHENTICATION_REQUIRED"
    [] user # Absent /\ need.op = "roles" ->
         IF need.names \cap user.roles # {} THEN "" ELSE "FORBIDDEN"
    [] user # Absent /\ need.op = "scopes" ->
         IF need.names \subseteq user.scopes THEN "" ELSE "FORBIDDEN"
    [] OTHER -> IF Judge(need, user, subject) = "allow" THEN "" ELSE "FORBIDDEN"

-----------------------------------------------------------------------------
(* The reference: policies in the three-valued logic in which a failure is *)
(* an unknown, and negation leaves it one.                                 *)
Meaning(p, verdicts) ==
  CASE p.op = "all" -> CASE "deny" \in verdicts -> "deny"
                         [] "deny" \notin verdicts /\ "fail" \in verdicts -> "fail"
                         [] OTHER -> "allow"
    [] p.op = "any" -> CASE "allow" \in verdicts -> "allow"
                         [] "allow" \notin verdicts /\ "fail" \in verdicts -> "fail"
                         [] OTHER -> "deny"
    [] OTHER -> CASE p.of[1].op = "nil" -> "deny"
                  [] p.of[1].op # "nil" /\ verdicts = {"allow"} -> "deny"
                  [] p.of[1].op # "nil" /\ verdicts = {"deny"} -> "allow"
                  [] OTHER -> "fail"

Meanings(who, subject) ==
  LET mean[p \in Policies] ==
        IF p.op \in Composite THEN Meaning(p, {mean[p.of[i]] : i \in DOMAIN p.of})
        ELSE Leaf(p, who, subject)
  IN mean
Holds3(p, who, subject) == Meanings(who, subject)[p]

(* Any forgets a failure when a later policy denies: under Not that turns  *)
(* into access, which its comment rules out (policy.go:90-97).             *)
Forgets(p, who, subject) ==
  p.op = "any" /\ \E i, j \in DOMAIN p.of :
    /\ i < j /\ Judge(p.of[i], who, subject) = "fail"
    /\ Judge(p.of[j], who, subject) = "deny"
Forgetful(who, subject) ==
  LET within[p \in Policies] ==
        \/ Forgets(p, who, subject)
        \/ p.op \in Composite /\ \E i \in DOMAIN p.of : within[p.of[i]]
  IN within
ForgetsFailure(p, who, subject) == Forgetful(who, subject)[p]

Entitled(user, need, subject) ==
  /\ user # Absent
  /\ CASE need.op = "roles" -> need.names \cap user.roles # {}
       [] need.op = "scopes" -> \A s \in need.names : s \in user.scopes
       [] OTHER -> Holds3(need, user, subject) = "allow" \/ ForgetsFailure(need, user, subject)
=============================================================================
