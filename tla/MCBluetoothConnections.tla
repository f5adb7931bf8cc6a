---------------------- MODULE MCBluetoothConnections ------------------------
(* Instances of BluetoothConnections for TLC: a bonded device, and one that  *)
(* only connects to the server.                                              *)
EXTENDS BluetoothConnections

CONSTANTS d1, d2
=============================================================================
