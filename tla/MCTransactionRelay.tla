------------------------- MODULE MCTransactionRelay -------------------------
EXTENDS TransactionRelay

CONSTANTS c1, c2, a1, a2

TwoClients == {c1, c2}
OneClient == {c1}
TwoAgents == {a1, a2}

\* a1 and a2 are connections of one device.
OneDevice == [a \in Agents |-> "truck"]
\* a1 and a2 are two devices.
TwoDevices == [a \in Agents |-> IF a = a1 THEN "truck" ELSE "bench"]
=============================================================================
