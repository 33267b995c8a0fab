----------------------------- MODULE Validation -----------------------------
(***************************************************************************)
(* The validator (validate/validate.go, validate/rules.go): the compiling  *)
(* of a type's tags into a plan, and the walk of a value along it.         *)
(*                                                                         *)
(* A type is [k, of, fields, custom]: k is "number", "string", "ptr",      *)
(* "list" or "struct"; of the element of a ptr or list; a field is         *)
(* [name, type, rules, skip]; custom tells whether the struct is           *)
(* Validatable.  A value is [n, of]: n the number, the length of a string  *)
(* or list, -1 for nil; of the elements, the fields, or what a pointer     *)
(* points to.  A rule is [name, param].  The rules of a field apply to it  *)
(* up to the first "dive", those after that to its elements, and so on: a  *)
(* plan has one step for each of these levels.                             *)
(***************************************************************************)
EXTENDS Integers, Sequences, SequencesExt, FiniteSets, TLC

CONSTANTS Validated,   \* the types in use, with those they are made of
          Data         \* the values of these types, with those in them

Nil == [n |-> -1, of |-> <<>>]
Scalar(n) == [n |-> n, of |-> <<>>]
ListOf(vs) == [n |-> Len(vs), of |-> vs]
StructOf(vs) == [n |-> 1, of |-> vs]
PtrTo(v) == [n |-> 1, of |-> <<v>>]

-----------------------------------------------------------------------------
(* Plans.                                                                  *)

Pointee(type) ==
  LET base[t \in Validated] == IF t.k = "ptr" THEN base[t.of] ELSE t
  IN base[type]

Compare == {"min", "max", "len", "gt", "lt", "eq", "ne"}
StringRules == {"email", "uuid"}

(* What keeps the rule from being compiled for a (dereferenced) type.      *)
RuleProblem(r, type) ==
  CASE r.name \in Compare -> type.k \notin {"number", "string", "list"}
    [] r.name = "oneof" -> r.param = {} \/ type.k \notin {"number", "string"}
    [] r.name \in StringRules -> type.k # "string"
    [] OTHER -> TRUE

CompileRules(rules, type) ==
  LET plan[i \in 1..(Len(rules) + 1), t \in Validated] ==
        LET dives == {j \in i..Len(rules) : rules[j].name = "dive"}
            cut == IF dives = {} THEN Len(rules) + 1
                   ELSE CHOOSE j \in dives : \A k \in dives : j <= k
            own == SubSeq(rules, i, cut - 1)
            has(name) == \E j \in DOMAIN own : own[j].name = name
            checks == SelectSeq(own, LAMBDA r : r.name \notin {"required", "omitempty"})
            base == Pointee(t)
        IN <<[required |-> has("required"), omitempty |-> has("omitempty"), checks |-> checks,
              broken |-> \/ \E c \in Range(checks) : RuleProblem(c, base)
                         \/ dives # {} /\ base.k # "list"]>>
             \o IF dives = {} \/ base.k # "list" THEN <<>> ELSE plan[cut + 1, base.of]
  IN plan[1, type]

Broken(type) ==
  LET broken[t \in Validated] ==
        CASE t.k \in {"ptr", "list"} -> broken[t.of]
          [] t.k = "struct" -> \E f \in Range(t.fields) :
               /\ ~f.skip
               /\ broken[f.type] \/ \E step \in Range(CompileRules(f.rules, f.type)) : step.broken
          [] OTHER -> FALSE
  IN broken[type]

-----------------------------------------------------------------------------
(* Checks.                                                                 *)

Deref(v, type) ==
  LET to[w \in Data, t \in Validated] == IF t.k = "ptr" /\ w # Nil THEN to[w.of[1], t.of] ELSE w
  IN to[v, type]

IsZero(v, type) ==
  LET zero[w \in Data, t \in Validated] ==
        CASE t.k = "struct" -> \A i \in DOMAIN w.of : zero[w.of[i], t.fields[i].type]
          [] t.k \in {"list", "ptr"} -> w = Nil
          [] OTHER -> w.n = 0
  IN zero[v, type]
IsEmpty(v, type) == IF type.k = "list" THEN v.n <= 0 ELSE IsZero(v, type)

Size(v) == IF v = Nil THEN 0 ELSE v.n

Satisfies(v, r) ==
  CASE r.name = "min" -> Size(v) >= r.param
    [] r.name = "max" -> Size(v) <= r.param
    [] r.name \in {"len", "eq"} -> Size(v) = r.param
    [] r.name = "ne" -> Size(v) # r.param
    [] r.name = "gt" -> Size(v) > r.param
    [] r.name = "lt" -> Size(v) < r.param
    [] r.name = "oneof" -> v.n \in r.param
    [] OTHER -> FALSE

(* What a rule does not look at: a pointer to nothing, and a zero value    *)
(* that may be omitted.                                                    *)
Absence(v, type, step) ==
  \/ type.k = "ptr" /\ Deref(v, type) = Nil
  \/ step.omitempty /\ IsZero(Deref(v, type), Pointee(type))

(* An error is where it is, from the value on, and the rule that failed.   *)
Failure(rule) == <<[at |-> <<>>, rule |-> rule]>>
Under(name, errors) == [i \in DOMAIN errors |-> [errors[i] EXCEPT !.at = <<name>> \o @]]
Each(vs, errors(_)) == FlattenSeq([i \in DOMAIN vs |-> Under(ToString(i - 1), errors(vs[i]))])

(* applyValuePlan: the first rule that fails is the one reported; elements *)
(* are looked at when all hold.  ok says whether to look into the value.   *)
Apply(v, type, plan) ==
  LET from[l \in DOMAIN plan, w \in Data, t \in Validated] ==
        LET step == plan[l]
            dv == Deref(w, t)
            failing == SelectSeq(step.checks, LAMBDA r : ~Satisfies(dv, r))
            element(e) == from[l + 1, e, Pointee(t).of].errors
            bad(rule) == [ok |-> FALSE, errors |-> Failure(rule)]
        IN CASE Absence(w, t, step) ->
                  IF step.required THEN bad("required") ELSE [ok |-> FALSE, errors |-> <<>>]
             [] ~Absence(w, t, step) /\ step.required /\ IsEmpty(dv, Pointee(t)) -> bad("required")
             [] OTHER ->
                  IF failing # <<>> THEN bad(Head(failing).name)
                  ELSE [ok |-> TRUE, errors |-> IF l = Len(plan) THEN <<>> ELSE Each(dv.of, element)]
  IN from[1, v, type]

(* validateStruct and validateNested: a field that is absent or fails is   *)
(* not looked into; Validate of a Validatable comes after its fields.      *)
Nested(v, type) ==
  LET inside[w \in Data, t \in Validated] ==
        LET base == Pointee(t)
            dv == Deref(w, t)
            field(f, x) ==
              LET own == Apply(x, f.type, CompileRules(f.rules, f.type))
              IN IF f.skip THEN <<>>
                 ELSE Under(f.name, own.errors \o (IF own.ok THEN inside[x, f.type] ELSE <<>>))
            custom == IF base.custom /\ \A i \in DOMAIN dv.of : dv.of[i].n <= 0
                        THEN Failure("custom") ELSE <<>>
            element(e) == inside[e, base.of]
        IN CASE dv # Nil /\ base.k = "struct" ->
                  FlattenSeq([i \in DOMAIN base.fields |-> field(base.fields[i], dv.of[i])]) \o custom
             [] dv # Nil /\ base.k = "list" -> Each(dv.of, element)
             [] OTHER -> <<>>
  IN inside[v, type]

(* Validator.Struct.                                                       *)
Validate(v, type) == Nested(v, type)

-----------------------------------------------------------------------------
(* The reference: what the tags ask of a value.                            *)
MeetsRules(v, type, plan) ==
  LET meets[l \in DOMAIN plan, w \in Data, t \in Validated] ==
        IF Absence(w, t, plan[l]) THEN ~plan[l].required
        ELSE /\ plan[l].required => ~IsEmpty(Deref(w, t), Pointee(t))
             /\ \A r \in Range(plan[l].checks) : Satisfies(Deref(w, t), r)
             /\ l < Len(plan) =>
                  \A e \in Range(Deref(w, t).of) : meets[l + 1, e, Pointee(t).of]
  IN meets[1, v, type]

MeetsStruct(v, type) ==
  LET meets[w \in Data, t \in Validated] ==
        LET base == Pointee(t)
            dv == Deref(w, t)
            field(f, x) == LET plan == CompileRules(f.rules, f.type)
                           IN /\ MeetsRules(x, f.type, plan)
                              /\ Absence(x, f.type, plan[1]) \/ meets[x, f.type]
        IN dv # Nil =>
             /\ base.k = "struct" =>
                  /\ \A i \in DOMAIN base.fields : base.fields[i].skip \/ field(base.fields[i], dv.of[i])
                  /\ base.custom => \E i \in DOMAIN dv.of : dv.of[i].n > 0
             /\ base.k = "list" => \A e \in Range(dv.of) : meets[e, base.of]
  IN meets[v, type]
=============================================================================
