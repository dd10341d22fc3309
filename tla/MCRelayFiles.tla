----------------------------- MODULE MCRelayFiles -----------------------------
(* What admins ask for in the checked instance: enough to fill, search and *)
(* shrink a list of two, and one change of each other kind.                *)
EXTENDS RelayFiles

CONSTANTS x, y

MCAddress == {x, y}
MCCalls == {<<"banned", x>>, <<"banned", y>>, <<"unban", x>>, <<"approved", x>>,
            <<"mode", "manual">>, <<"flag", TRUE>>}
===============================================================================
