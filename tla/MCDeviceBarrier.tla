---------------------------- MODULE MCDeviceBarrier ----------------------------
(* A small instance of DeviceBarrier for TLC.                              *)
EXTENDS DeviceBarrier
===============================================================================
