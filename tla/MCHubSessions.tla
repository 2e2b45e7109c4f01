--------------------------- MODULE MCHubSessions ---------------------------
(***************************************************************************)
(* Agent connections a1 and a2 are of the same device (a reconnection), a3 *)
(* is another device that uses its name.                                   *)
(***************************************************************************)
EXTENDS HubSessions, TLC

CONSTANTS c1, c2, a1, a2, a3

TwoClients == {c1, c2}
OneClient == {c1}
TwoAgents == {a1, a2}
ThreeAgents == {a1, a2, a3}
MCAgentName == [a \in Agents |-> "truck"]
MCKey == [a \in Agents |-> IF a = a3 THEN "other" ELSE "device"]

\* The connections of the device are interchangeable.
Reconnections == Permutations({a1, a2})
=============================================================================
