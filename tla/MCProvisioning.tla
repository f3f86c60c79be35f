------------------------- MODULE MCProvisioning -------------------------
(***************************************************************************)
(* One request at a time, one device, a crash and a broker outage.         *)
(***************************************************************************)
EXTENDS Provisioning

MCCredentials == {Anonymous} \cup {Backend(v) : v \in Passwords}
                    \cup {Shared(v) : v \in Passwords} \cup {Device(d) : d \in Devices}
MCCallers == {"request1"}
MCDevices == {"sensor"}
MCAnonymous == <<"anonymous", 0>>
=============================================================================
