----------------------------- MODULE MCRunners -----------------------------
(* Two threads of the web server; requests are interchangeable. *)
EXTENDS Runners, TLC

CONSTANTS q1, q2

MCRequest == {q1, q2}
MCSymmetry == Permutations(MCRequest)
=============================================================================
