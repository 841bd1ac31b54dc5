--------------------------- MODULE MCDevicePresence ---------------------------
(* A small instance of DevicePresence for TLC.                             *)
EXTENDS DevicePresence

CONSTANTS k1, k2, k3

TwoRegisters == {k1, k2, k3}
OneUnregister == {k3}
===============================================================================
