---------------------------- MODULE MC_UsbHubs ----------------------------
(* A one-port USB2 hub and a one-port USB3 hub, one plug or unplug each:  *)
(* the hub tasks, init_hub and _attach_device of both hubs interleave on   *)
(* the shared configuration task; larger bounds take too long to check.   *)
EXTENDS UsbHubs

MCNumPorts2 == 1
MCMaxEvents2 == 1
MCNumPorts3 == 1
MCMaxEvents3 == 1
=============================================================================
