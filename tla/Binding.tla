------------------------------- MODULE Binding -------------------------------
(***************************************************************************)
(* How the input of a typed handler is filled from a request: the plan of  *)
(* a struct type (internal/binding), the decoding of the body and the      *)
(* order of the two (bind.go).                                             *)
(*                                                                         *)
(* A struct type is a sequence of fields                                   *)
(*   [name, in, tag, kind, multi, opts, layout, default, json, of]:        *)
(* in is the location of a parameter or "", tag its name there ("" takes   *)
(* the field's), kind what it decodes to, multi a slice of that, opts the  *)
(* options of the tag, json whether a body may fill it, and of the fields  *)
(* of an embedded struct; kind "strict" is the marker torge.Strict.        *)
(* A raw value is the sequence of its comma-separated parts.               *)
(* A request gives [path, query, header, cookie], functions from names to  *)
(* the sequences of their raw values, and a body.                          *)
(***************************************************************************)
EXTENDS Naturals, Sequences, SequencesExt, FiniteSets

CONSTANTS Undecodable,
          Inputs    \* the struct types in use, with those embedded in them

Locations == {"path", "query", "header", "cookie"}

(* What a decoder makes of a raw value.                                    *)
Numerals == {"0", "1", "2", "3"}
Decode(kind, raw) ==
  CASE kind = "string" -> raw
    [] kind = "int" /\ Len(raw) = 1 /\ raw[1] \in Numerals -> raw
    [] kind = "bool" /\ raw \in {<<"0">>, <<"1">>, <<"true">>, <<"false">>} -> raw
    [] kind = "time" /\ raw = <<"day">> -> raw
    [] OTHER -> Undecodable

-----------------------------------------------------------------------------
(* The plan of a type.                                                     *)

(* The fields of a type with those of embedded structs in their place; top *)
(* says that a field is the type's own.                                    *)
Flat(type) ==
  LET flat[t \in Inputs] ==
        FlattenSeq([i \in DOMAIN t |->
          IF t[i].in = "" /\ t[i].kind = "struct"
            THEN [j \in DOMAIN flat[t[i].of] |-> [flat[t[i].of][j] EXCEPT !.top = FALSE]]
          ELSE <<[f |-> t[i], top |-> TRUE]>>])
  IN flat[type]

IsParam(f) == f.in \in Locations
ParamName(f) == IF f.tag = "" THEN f.name ELSE f.tag

(* What keeps a type from having a plan.                                   *)
FieldProblem(f) ==
  IsParam(f) /\
    \/ \E o \in f.opts : o # "comma" \/ ~f.multi
    \/ f.kind \notin {"string", "int", "bool", "time"}
    \/ f.layout /\ f.kind # "time"
    \/ f.default # <<>> /\ Decode(f.kind, f.default) = Undecodable

PlanFor(type) ==
  LET flat == Flat(type)
      fields == [i \in DOMAIN flat |-> flat[i].f]
      bodies == {i \in DOMAIN flat : /\ ~IsParam(fields[i]) /\ fields[i].kind # "strict"
                                     /\ fields[i].name = "Body" /\ flat[i].top}
      plain == {i \in DOMAIN flat : /\ ~IsParam(fields[i]) /\ fields[i].kind # "strict"
                                    /\ fields[i].json} \ bodies
  IN [broken |-> \E f \in Range(fields) : FieldProblem(f),
      params |-> SelectSeq(fields, IsParam),
      strict |-> \E f \in Range(fields) : f.kind = "strict",
      \* what the body decodes into
      body |-> IF bodies # {} THEN "Body" ELSE IF plain # {} THEN "whole" ELSE "none",
      fields |-> fields]

-----------------------------------------------------------------------------
(* The body: [is, ctype, fill].  is tells how its decoding ends; fill maps *)
(* the fields it names to values.  Only after the media type is it read.   *)

(* The value of a struct before anything is bound; f.name is its key.      *)
Zero(plan) == [n \in {f.name : f \in Range(plan.fields)} |-> <<>>]

ContentTypeMatches(ctype) == ctype \in {"", "application/json", "application/hal+json"}

BodyError(body, strict) ==
  CASE body.is = "absent" -> ""
    [] body.is # "absent" /\ ~ContentTypeMatches(body.ctype) -> "UNSUPPORTED_MEDIA_TYPE"
    [] body.is = "empty" /\ ContentTypeMatches(body.ctype) -> ""
    [] body.is = "tooLarge" /\ ContentTypeMatches(body.ctype) -> "PAYLOAD_TOO_LARGE"
    [] body.is = "wrongType" /\ ContentTypeMatches(body.ctype) -> "VALIDATION_FAILED"
    [] body.is \in {"syntax", "truncated", "trailing"} /\ ContentTypeMatches(body.ctype) -> "INVALID_JSON"
    [] body.is = "unknownField" /\ strict /\ ContentTypeMatches(body.ctype) -> "INVALID_JSON"
    [] OTHER -> ""

(* encoding/json fills every exported field the body names, those of       *)
(* parameters too.                                                         *)
Decoded(plan, body, value) ==
  IF plan.body # "whole" \/ body.is \in {"absent", "empty"} THEN value
  ELSE [n \in DOMAIN value |-> IF n \in DOMAIN body.fill THEN body.fill[n] ELSE value[n]]

-----------------------------------------------------------------------------
(* The parameters.                                                         *)

(* (Slip: a field whose parameter is absent keeps what the body gave it.)  *)
ResetNothing(value, name) == value

(* Every parameter field is cleared before it is bound.                    *)
Reset(value, name) == [value EXCEPT ![name] = <<>>]

Values(f, req) ==
  LET given == req[f.in]
      n == ParamName(f)
      raws == IF n \in DOMAIN given THEN given[n] ELSE <<>>
  IN IF raws = <<>> /\ f.default # <<>> THEN <<f.default>> ELSE raws

(* The parts a field is set from: the first value, all, or all their       *)
(* non-empty parts.                                                        *)
Parts(f, raws) ==
  CASE ~f.multi -> <<raws[1]>>
    [] f.multi /\ "comma" \in f.opts ->
         LET parts == SelectSeq(FlattenSeq(raws), LAMBDA p : p # "")
         IN [i \in DOMAIN parts |-> <<parts[i]>>]
    [] OTHER -> raws

BindParam(s, f, req) ==
  LET raws == Values(f, req)
      parts == [i \in DOMAIN Parts(f, raws) |-> Decode(f.kind, Parts(f, raws)[i])]
      cleared == Reset(s.value, f.name)
  IN CASE raws = <<>> -> [s EXCEPT !.value = cleared]
       [] raws # <<>> /\ Undecodable \in Range(parts) ->
            [s EXCEPT !.value = cleared, !.errors = @ \cup {<<f.in, ParamName(f)>>}]
       [] OTHER -> [s EXCEPT !.value = [cleared EXCEPT ![f.name] = parts]]

Undeclared(plan, req) ==
  {<<"query", n>> : n \in DOMAIN req.query \ {ParamName(f) : f \in
                           {g \in Range(plan.params) : g.in = "query"}}}

(* bindPlan: the body first, so that it cannot overwrite a parameter.      *)
(* The result is the struct, or the code of the error.                     *)
BindPlan(plan, req) ==
  LET bodyError == IF plan.body = "none" THEN "" ELSE BodyError(req.body, plan.strict)
      bound == FoldLeft(LAMBDA s, f : BindParam(s, f, req),
                        [value |-> Decoded(plan, req.body, Zero(plan)), errors |-> {}],
                        plan.params)
      errors == bound.errors \cup (IF plan.strict THEN Undeclared(plan, req) ELSE {})
  IN CASE bodyError # "" -> [error |-> bodyError, value |-> Zero(plan)]
       [] bodyError = "" /\ errors # {} -> [error |-> "VALIDATION_FAILED", value |-> bound.value]
       [] OTHER -> [error |-> "", value |-> bound.value]

-----------------------------------------------------------------------------
(* The reference: what a parameter's field must hold, whatever the body.   *)
Expected(f, req) ==
  LET given == IF ParamName(f) \in DOMAIN req[f.in] THEN req[f.in][ParamName(f)] ELSE <<>>
      used == IF given # <<>> THEN given ELSE IF f.default # <<>> THEN <<f.default>> ELSE <<>>
  IN IF used = <<>> THEN <<>>
     ELSE IF ~f.multi THEN <<used[1]>>
     ELSE IF "comma" \notin f.opts THEN used
     ELSE LET parts == SelectSeq(FlattenSeq(used), LAMBDA p : p # "")
          IN [i \in DOMAIN parts |-> <<parts[i]>>]
=============================================================================
