---------------------------- MODULE MCDeviceLink ----------------------------
(* Values for model-checking DeviceLink.                                   *)
EXTENDS DeviceLink

CONSTANTS c1, c2, u1
=============================================================================
