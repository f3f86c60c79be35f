------------------------- MODULE MCConnectorManager -------------------------
(***************************************************************************)
(* Two instances of one type, with one device that both can see.           *)
(***************************************************************************)
EXTENDS ConnectorManager

MCInstances == {"bridge1", "bridge2"}
MCTypes == {"hue"}
MCTypeOf == [i \in MCInstances |-> "hue"]
MCDevices == {"lamp", "strip"}
MCReach == [i \in MCInstances |-> IF i = "bridge1" THEN {"lamp", "strip"} ELSE {"lamp"}]
=============================================================================
