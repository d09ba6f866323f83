---------------------------- MODULE MC_UsbHub2 ----------------------------
(* A two-port hub and three plug or unplug events: enough for a device to  *)
(* leave and come back while the hub task sleeps on one port, with the     *)
(* other port's events interleaved, and for an attach at boot.             *)
EXTENDS UsbHub2

MCHub == "hub2"
MCNumPorts == 2
MCMaxEvents == 3
=============================================================================
