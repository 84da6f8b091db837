------------------------------- MODULE Program -------------------------------
(***************************************************************************)
(* The run of one program or command of the CLI that is modelled as a      *)
(* single flow of control: where it is, and the code it exits with.  The   *)
(* modules that extend this one use labels of their own.                   *)
(***************************************************************************)
EXTENDS Integers, FiniteSets, Sequences

VARIABLES pc, exitCode

programVars == <<pc, exitCode>>

Goto(from, to) == pc = from /\ pc' = to /\ UNCHANGED exitCode

Exit(from, code) == pc = from /\ pc' = "done" /\ exitCode' = code
==============================================================================
