------------------------------ MODULE MCHostInput ------------------------------
(* The devices of HostInput: gamepads and keyboards that differ in nothing  *)
(* but their names; one control key and two shift keys, with alt left out,  *)
(* which control stands for, and in a window for shift too; the gamepads of *)
(* MCGamepadMapping.                                                        *)
EXTENDS HostInput, TLC

\* Its gamepads do not depend on the constants.
Sample == INSTANCE MCGamepadMapping
            WITH phase <- mapPhase, Pads <- {}, Steps <- << >>, BTN_JOYSTICK <- 0, ABS_HAT0X <- 0

MCPads == Sample!MCPads
MCSteps == Sample!MCSteps
MCMoves == {-1, 0, 2}
MCBit == [ctrl |-> "control", lshift |-> "shift", rshift |-> "shift"]

Interchangeable == Permutations(Devices) \cup Permutations(Keyboards)
=============================================================================
