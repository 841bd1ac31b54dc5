---------------------------- MODULE MCDeviceGate ----------------------------
(* Small instances of DeviceGate for TLC.                                  *)
EXTENDS DeviceGate

CONSTANTS play1, ptz1

OneDevice == {1}
TwoDevices == {1, 2}
OnePlay == {play1}
OnePtz == {ptz1}
NoPtz == {}
=============================================================================
