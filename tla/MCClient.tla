------------------------------ MODULE MCClient ------------------------------
(* Client for TLC: two applications of which one may be asked for, one     *)
(* that the host does not have, every action and every option; libCEC      *)
(* where it is started, on an embedded platform with input.                *)
EXTENDS Client

CONSTANTS a1, a2, unknown

Order(action, a, v, m) == [action |-> action, app |-> a, version |-> v, mode |-> m]

MCOrders ==
  {Order(action, NoApp, TRUE, TRUE) : action \in {"pair", "unpair", "list", "quit"}}
    \cup {Order("stream", a, TRUE, TRUE) : a \in {a1, unknown}}
    \cup {Order("stream", a1, FALSE, TRUE), Order("stream", a1, TRUE, FALSE)}

AllOptions == [embedded : BOOLEAN, viewOnly : BOOLEAN, quitAppAfter : BOOLEAN, triggers : BOOLEAN,
               cec : BOOLEAN]
MCOptions == {o \in AllOptions : o.cec => o.embedded /\ ~o.viewOnly}
=============================================================================
