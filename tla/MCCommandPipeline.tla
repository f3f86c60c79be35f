-------------------------- MODULE MCCommandPipeline --------------------------
(***************************************************************************)
(* Two commands that may observe the same device.  The inputs cover each   *)
(* path of execute(): refused, not physical, dispatch tier, acknowledged   *)
(* tier, observed tier with and without acknowledgements, a lowered tier,  *)
(* and an observed device that is not registered.                          *)
(***************************************************************************)
EXTENDS CommandPipeline

MCDevices == {"lamp", "meter"}

Ask(physical, ack, confirm, requested, device) ==
    [accepted |-> TRUE, physical |-> physical, ack |-> ack, confirm |-> confirm,
     requested |-> requested, device |-> device, present |-> TRUE]

MCInputs ==
    { Ask(TRUE, FALSE, FALSE, "any", "lamp"),
      Ask(TRUE, TRUE, FALSE, "any", "lamp"),
      Ask(TRUE, TRUE, TRUE, "any", "meter"),
      Ask(TRUE, FALSE, TRUE, "any", "meter"),
      Ask(FALSE, FALSE, TRUE, "any", "meter"),
      Ask(TRUE, TRUE, TRUE, "acknowledged", "lamp"),
      [Ask(TRUE, FALSE, FALSE, "any", "lamp") EXCEPT !.accepted = FALSE],
      [Ask(TRUE, FALSE, TRUE, "any", "meter") EXCEPT !.present = FALSE] }

(* Every request there is, for one device.                                 *)
AllInputs == {i \in InputType : i.device = "lamp"}
=============================================================================
