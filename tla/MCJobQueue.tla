----------------------------- MODULE MCJobQueue -----------------------------
(* TLC instances of JobQueue: two collector processes with one worker each, *)
(* or one process with one worker.                                          *)
EXTENDS JobQueue, TLC
CONSTANTS p1, p2, w1, w2

TwoProcs == w1 :> p1 @@ w2 :> p2
OneWorker == w1 :> p1

\* Swapping both processes with their workers (sound: safety only).
Swap == {p1 :> p2 @@ p2 :> p1 @@ w1 :> w2 @@ w2 :> w1}
=============================================================================
