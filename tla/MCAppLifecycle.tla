--------------------------- MODULE MCAppLifecycle ---------------------------
(* Small instances of AppLifecycle for TLC.                                *)
EXTENDS AppLifecycle

CONSTANTS s1, s2, c1, r1

=============================================================================
