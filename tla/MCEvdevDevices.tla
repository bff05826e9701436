--------------------------- MODULE MCEvdevDevices ---------------------------
(* EvdevDevices with small sets: the gamepads are interchangeable. *)
EXTENDS EvdevDevices, TLC

PadSymmetry == Permutations(Devices)
=============================================================================
