---------------------------- MODULE MCInterrupt ----------------------------
(* Two solvers and two threads that interrupt; no symmetry, because        *)
(* liveness is checked.                                                    *)
EXTENDS Interrupt
=============================================================================
