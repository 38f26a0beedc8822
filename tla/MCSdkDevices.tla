--------------------------- MODULE MCSdkDevices ---------------------------
(* One or two interfaces, two addresses.                                   *)
EXTENDS SdkDevices

CONSTANTS eth, wlan, a1, a2
=============================================================================
