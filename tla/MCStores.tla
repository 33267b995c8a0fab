------------------------------ MODULE MCStores ------------------------------
(* Two calls with a key each and an unprotected one, four deliveries of    *)
(* two events, three visits, three loads of one key and one of another,    *)
(* and five hits.                                                          *)
EXTENDS Stores

MCKey == {"k1", "k2", "k3"}

MCCall == {"a", "b", "c", "d"}
MCFingerprint == [a |-> "p", b |-> "p", c |-> "q", d |-> "p"]
MCAttempts == [a |-> 2, b |-> 1, c |-> 1, d |-> 2]
MCKeyOf == [a |-> "k1", b |-> "k1", c |-> "k1", d |-> None]
MCClients == {{"a", "b"}, {"a", "c"}, {"d"}}

Sig(by, form, text) == [by |-> by, form |-> form, text |-> text]
MCContent ==
  [d1 |-> [scheme |-> "stripe", sigs |-> <<Sig("new", FALSE, "k2"), Sig("old", TRUE, "k1")>>, stamp |-> 0, id |-> None],
   d2 |-> [scheme |-> "hmac", sigs |-> <<Sig("old", TRUE, "k1")>>, stamp |-> 1, id |-> None],
   d3 |-> [scheme |-> "standard", sigs |-> <<Sig("other", TRUE, "k3"), Sig("new", TRUE, "k2")>>, stamp |-> 2, id |-> "k1"],
   d4 |-> [scheme |-> "github", sigs |-> <<Sig("old", TRUE, "k3")>>, stamp |-> None, id |-> "k2"]]
MCDelivery == DOMAIN MCContent
MCSecrets == <<"new", "old">>

MCCaller == {"x", "y", "z", "o"}
MCLoadKey == [x |-> "k1", y |-> "k1", z |-> "k1", o |-> "k2"]

MCHit == {"h1", "h2", "h3", "h4", "h5"}
MCHitKey == [h1 |-> "k1", h2 |-> "k1", h3 |-> "k1", h4 |-> "k1", h5 |-> "k2"]
=============================================================================
