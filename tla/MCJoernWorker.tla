---------------------------- MODULE MCJoernWorker ----------------------------
(* Instances of JoernWorker for TLC: a few requests, and the ways the ids    *)
(* callers choose can be sanitised to work directories.                      *)
EXTENDS JoernWorker, TLC

CONSTANTS i1, i2, dA, dB, dC, dD

\* Every id has a directory of its own, per engine.
Distinct == [batch |-> (i1 :> dA) @@ (i2 :> dB), repo |-> (i1 :> dC) @@ (i2 :> dD)]

Distinct1 == [batch |-> i1 :> dA, repo |-> i1 :> dC]

\* i1 and i2 differ in a character that _SAFE replaces ("a/b", "a_b").
Colliding == [batch |-> (i1 :> dA) @@ (i2 :> dA), repo |-> (i1 :> dC) @@ (i2 :> dC)]

Symmetry == Permutations(Requests)

\* Under Colliding the ids are interchangeable too.
CollidingSymmetry == Symmetry \cup Permutations(JobIds)
=============================================================================
