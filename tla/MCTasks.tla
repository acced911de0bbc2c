------------------------------ MODULE MCTasks ------------------------------
(***************************************************************************)
(* Instances of Tasks for TLC.  Every system call takes part in the main   *)
(* run; the runs that look for one disagreement leave out execl.           *)
(***************************************************************************)
EXTENDS Tasks

AllCalls     == {"fork", "exit", "wait", "waitpid", "execl"}
ProcessCalls == {"fork", "exit", "wait", "waitpid"}
=============================================================================
