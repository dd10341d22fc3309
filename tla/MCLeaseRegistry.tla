--------------------------- MODULE MCLeaseRegistry ----------------------------
(* Instances of LeaseRegistry for TLC.                                     *)
EXTENDS LeaseRegistry, TLC

CONSTANTS h1, h2

(* h2 is a wildcard name that covers h1; hop records may be keyed by host  *)
(* names too.                                                              *)
WildcardMatches == {<<h1, h1>>, <<h2, h2>>, <<h2, h1>>}
Hosts == {h1, h2}
NamedTokens == {h1}
Hashed == {h1}

===============================================================================
