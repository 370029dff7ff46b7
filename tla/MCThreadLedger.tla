--------------------------- MODULE MCThreadLedger ---------------------------
EXTENDS ThreadLedger, TLC

CONSTANTS t1, t2, t3, q1, q2, o1, o2, f1

\* The first turn and the legacy questions recall o1; t2 recalls o2 and the
\* fact; t3 recalls nothing and can only look up.
MCRecallOds == [q \in Turns \cup Legacy |-> CASE q = t2 -> {o2} [] q = t3 -> {} [] OTHER -> {o1}]
MCRecallFacts == [q \in Turns \cup Legacy |-> IF q \in {t2, q1} THEN {f1} ELSE {}]
=============================================================================
