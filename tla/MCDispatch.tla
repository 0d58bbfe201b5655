----------------------------- MODULE MCDispatch -----------------------------
(***************************************************************************)
(* A small instance of Dispatch for TLC: two services with a pre-route     *)
(* each, and four hooks over the three phases, two of them in one phase.   *)
(***************************************************************************)
EXTENDS Dispatch

Routes == {[id |-> 1, service |-> "a"], [id |-> 2, service |-> "b"]}

Hook(id, at, order, capability, failClosed, allow) ==
  [id |-> id, phase |-> at, order |-> order, capability |-> capability,
   failClosed |-> failClosed, allow |-> allow]

Hooks == {Hook(1, 1, 1, "patch",   TRUE,  {"password"}),
          Hook(2, 1, 2, "observe", FALSE, {}),
          Hook(3, 2, 1, "veto",    TRUE,  {}),
          Hook(4, 3, 1, "patch",   FALSE, {"factor", "password"})}
=============================================================================
