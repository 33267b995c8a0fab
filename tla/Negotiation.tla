---------------------------- MODULE Negotiation ----------------------------
(***************************************************************************)
(* Content negotiation: Context.Accepts and Format (negotiate.go), and the *)
(* compressor's reading of Accept-Encoding (middleware/compress.go).       *)
(*                                                                         *)
(* A media type is a pair <<typ, sub>>; a range of an Accept header is     *)
(* [typ, sub, q] with "*" as wildcard and q in thousandths (1000 when the  *)
(* client gives none).  Malformed parts of a header are already left out.  *)
(***************************************************************************)
EXTENDS Integers, Sequences, SequencesExt, FiniteSets

Specificity(r) ==
  CASE r.typ = "*" -> 0 [] r.typ # "*" /\ r.sub = "*" -> 1 [] OTHER -> 2

RangeMatches(r, type) == r.typ \in {"*", type[1]} /\ r.sub \in {"*", type[2]}

(* Among equally specific ranges the first one counts.                     *)
MoreSpecific(r, best) == Specificity(r) > best.spec

(* The q of the most specific range that matches, or -1.                   *)
MatchQuality(ranges, type) ==
  FoldLeft(LAMBDA best, r : IF RangeMatches(r, type) /\ MoreSpecific(r, best)
                              THEN [spec |-> Specificity(r), q |-> r.q] ELSE best,
           [spec |-> -1, q |-> -1], ranges).q

(* The index of the offer with the highest q above 0, or 0: ties prefer    *)
(* the earlier offer.                                                      *)
NegotiateContentType(ranges, offered) ==
  FoldLeft(LAMBDA best, i :
             LET q == MatchQuality(ranges, offered[i])
             IN IF q > best.q THEN [at |-> i, q |-> q] ELSE best,
           [at |-> 0, q |-> 0], [i \in DOMAIN offered |-> i]).at

(* Format and Accepts: without an Accept header the first offer.           *)
ChosenOffer(ranges, offered) ==
  CASE offered = <<>> -> 0
    [] offered # <<>> /\ ranges = <<>> -> 1
    [] OTHER -> NegotiateContentType(ranges, offered)

(* What a client that sends these ranges takes of a type, by RFC 9110: the *)
(* reference for the two operators above.                                  *)
Preference(ranges, type) ==
  LET fit == {i \in DOMAIN ranges : RangeMatches(ranges[i], type)}
      best == {i \in fit : \A j \in fit :
                 \/ Specificity(ranges[j]) < Specificity(ranges[i])
                 \/ Specificity(ranges[j]) = Specificity(ranges[i]) /\ i <= j}
  IN IF fit = {} THEN 0 ELSE ranges[CHOOSE i \in best : TRUE].q

-----------------------------------------------------------------------------
(* Accept-Encoding: codings are [name, q]; the first "gzip" or "*" counts, *)
(* although a later one may name gzip.                                     *)
AcceptsGzip(codings) ==
  LET hits == SelectSeq(codings, LAMBDA c : c.name \in {"gzip", "*"})
  IN hits # <<>> /\ Head(hits).q > 0

=============================================================================
