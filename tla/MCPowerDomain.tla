---------------------------- MODULE MCPowerDomain ----------------------------
(***************************************************************************)
(* Two cores, their cluster and the system, with the states and the masks  *)
(* of Juno's configuration (product/juno/scp_ramfw/config_power_domain.c). *)
(***************************************************************************)
EXTENDS PowerDomain

MCDomains == 0 .. 3
MCParent == (0 :> 2) @@ (1 :> 2) @@ (2 :> 3) @@ (3 :> None)
MCStates == {"ON", "SLEEP", "OFF"}
MCDepth == [ON |-> 0, SLEEP |-> 1, OFF |-> 2]

MCAllowed == [d \in 0 .. 2 |-> [ON |-> {"ON", "OFF"}, SLEEP |-> {"OFF"}, OFF |-> {"OFF"}]]

On == <<"ON", "ON", "ON">>
Off == <<"OFF", "OFF", "OFF">>
MCRequests == {<<0, On>>, <<0, Off>>, <<1, On>>, <<1, <<"OFF", "OFF">>>>,
               <<1, <<"OFF">>>>, <<2, <<"OFF">>>>}

MCBootStates == {[d \in MCDomains |-> IF d = 1 THEN "OFF" ELSE "ON"]}

\* Who is told: never before the transition of a domain and after one of its
\* neighbour's, in the first pair.
CoreBefore == [d \in MCDomains |-> IF d = 0 THEN 2 ELSE 0]
SystemAfter == [d \in MCDomains |-> IF d = 3 THEN 1 ELSE 0]
ClusterBefore == [d \in MCDomains |-> IF d = 2 THEN 1 ELSE 0]
CoreAfter == [d \in MCDomains |-> IF d = 0 THEN 1 ELSE 0]
Nobody == [d \in MCDomains |-> 0]
=============================================================================
