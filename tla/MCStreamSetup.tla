---------------------------- MODULE MCStreamSetup ----------------------------
(***************************************************************************)
(* A small instance of StreamSetup: a program that looks for existing      *)
(* streams and one that does not.                                          *)
(***************************************************************************)
EXTENDS StreamSetup

CONSTANTS p1, p2, poll, push

\* The programs want different deliveries, so that each other's stream is no
\* use to them.
MCMethodOf == [c \in Callers |-> IF c = p1 THEN poll ELSE push]
=============================================================================
