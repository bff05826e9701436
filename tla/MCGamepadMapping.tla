--------------------------- MODULE MCGamepadMapping ---------------------------
\* Gamepads with the controls of a part of the dialogue: the usual one, with a hat; one
\* with buttons for everything, of which one is below BTN_JOYSTICK; the same with axes
\* that run the other way and a trigger as its first button; one with a D-pad that is
\* an axis; one that lacks an axis in between.
EXTENDS GamepadMapping

Key(code) == [kind |-> "key", code |-> code, sign |-> 1]
HatWire(code, sign) == [kind |-> "hat", code |-> code, sign |-> sign]
Ax(code, sign) == [kind |-> "axis", code |-> code, sign |-> sign]

MCSteps == << <<"abs", "leftx">>, <<"abs", "lefty">>, <<"hatkey", "dpright">>, <<"hatkey", "dpleft">>,
              <<"hatkey", "dpup">>, <<"key", "a">>, <<"abskey", "lefttrigger">>, <<"abskey", "righttrigger">> >>

Parms == [min |-> -4, max |-> 4, flat |-> 1]
Pad(wire, axes, files) ==
  [wire |-> wire, axes |-> axes, parms |-> Parms, files |-> files,
   keys |-> {wire[c].code : c \in {k \in DOMAIN wire : wire[k].kind = "key"}}]

Usual ==
  [leftx |-> Ax(0, 1), lefty |-> Ax(1, -1), dpright |-> HatWire(16, 1), dpleft |-> HatWire(16, -1),
   dpup |-> HatWire(17, -1), a |-> Key(30), lefttrigger |-> Ax(2, 1), righttrigger |-> Key(31)]
Sdl == {Axis("leftx", 0, "", ""), Axis("lefty", 1, "", ""), Hat("dpright", 0, {"right"}),
        Hat("dpleft", 0, {"left"}), Hat("dpup", 0, {"up"}), Button("a", 0), Axis("lefttrigger", 2, "", ""),
        Button("righttrigger", 1)}

Old ==
  [leftx |-> Ax(0, 1), lefty |-> Ax(1, -1), dpright |-> Key(33), dpleft |-> Key(32), dpup |-> Key(31),
   a |-> Key(30), lefttrigger |-> Key(10), righttrigger |-> Key(11)]

Turned == [Old EXCEPT !.leftx = Ax(0, -1), !.lefty = Ax(1, 1), !.lefttrigger = Key(20)]

Other ==
  [leftx |-> Ax(0, -1), lefty |-> Ax(1, 1), dpright |-> Ax(3, 1), dpleft |-> Ax(3, -1), dpup |-> Key(31),
   a |-> Key(10), lefttrigger |-> Key(30)]
Halves == {Axis("leftx", 0, "", "~"), Axis("lefty", 1, "", "~"), Axis("dpright", 2, "+", ""),
           Axis("dpleft", 2, "-", ""), Button("dpup", 1), Button("a", 2), Button("lefttrigger", 0)}

Gap == [leftx |-> Ax(0, 1), lefty |-> Ax(3, -1), a |-> Key(30)]

\* The D-pad is of both kinds, one trigger is a button and the other an axis; the axes
\* are not symmetric and have no dead zone.
Mixed == [Usual EXCEPT !.dpright = Key(33), !.dpleft = Key(10)]

MCPads == {Pad(Usual, {0, 1, 2}, {Sdl}), Pad(Old, {0, 1}, {}), Pad(Turned, {0, 1}, {}),
           Pad(Other, {0, 1, 3}, {Halves}), Pad(Gap, {0, 3}, {}),
           [Pad(Mixed, {0, 1, 2}, {}) EXCEPT !.parms = [min |-> 0, max |-> 5, flat |-> 0]]}

UsualPad == {Pad(Usual, {0, 1, 2}, {Sdl})}
=============================================================================
