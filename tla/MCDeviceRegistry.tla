-------------------------- MODULE MCDeviceRegistry --------------------------
(***************************************************************************)
(* Two topics with the same slug, as "home/lamp" and "home-lamp" have, and *)
(* a connector that reports a device under that slug and one of its own.   *)
(***************************************************************************)
EXTENDS DeviceRegistry

MCTopics == {"home/lamp", "home-lamp"}
MCIds == {"slug", "hash1", "hash2", "bulb"}
MCLegacyId == [t \in MCTopics |-> "slug"]
MCHashedId == [t \in MCTopics |-> IF t = "home/lamp" THEN "hash1" ELSE "hash2"]
MCConnectorIds == {"slug", "bulb"}
=============================================================================
