----------------------------- MODULE MCPositions -----------------------------
(* A small instance of the position manager: positions of two units, which *)
(* are filled in parts, and two coroutines at work at once.                *)
EXTENDS PositionManager

MCAmounts == {2}
MCTasks == {"t1", "t2"}
=============================================================================
