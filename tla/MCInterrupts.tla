---------------------------- MODULE MCInterrupts ----------------------------
(***************************************************************************)
(* Instances of Interrupts for TLC: the PIT, the keyboard and the drive,   *)
(* and enough tasks for a list with a first, a middle and a last one.      *)
(***************************************************************************)
EXTENDS Interrupts

TheLines == {0, 1, 14}
=============================================================================
