------------------------------ MODULE MCHopRoutes ------------------------------
(* Listeners for HopRoutes: two paths that share the entry relay and the   *)
(* exit relay, one of which visits relays twice; a path that removals have *)
(* left with one relay; a direct lease.                                    *)
EXTENDS HopRoutes

CONSTANTS a, b, c

MCRelay == {a, b, c}

MCListener ==
  {[url |-> b, hops |-> <<a, b, a, b>>], [url |-> b, hops |-> <<a, c, b>>],
   [url |-> b, hops |-> <<b>>], [url |-> b, hops |-> <<>>]}
===============================================================================
