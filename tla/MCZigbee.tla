------------------------------ MODULE MCZigbee ------------------------------
(***************************************************************************)
(* ZigbeeGateway with one sensor that may announce itself twice and one    *)
(* that does so once.                                                      *)
(***************************************************************************)
EXTENDS ZigbeeGateway

CONSTANTS d1, d2

MCDevices     == {d1, d2}
MCMaxAnnounce == [d \in MCDevices |-> IF d = d1 THEN 2 ELSE 1]

============================================================================
