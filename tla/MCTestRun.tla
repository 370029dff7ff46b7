------------------------------ MODULE MCTestRun ------------------------------
(* TLC instances of TestRun: one run and its cases, in a calm world with one       *)
(* replica that crashes twice and in a rough one with two.                        *)
EXTENDS TestRun, TLC
CONSTANTS r1, c1, c2, c3, p1, p2, q1, q2

World(ps, fs, cs, n) ==
    [replicas |-> ps, faults |-> fs, retries |-> cs, restarts |-> n]
CalmAndRough == {World({p1}, FALSE, {}, 2), World({p1}, TRUE, {c1}, 1),
                 World({p1, p2}, TRUE, {}, 1)}
Undisturbed == {World({p1}, FALSE, {}, 0)}
AllOfR1 == [c \in Cases |-> r1]
=============================================================================
