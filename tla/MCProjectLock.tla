---------------------------- MODULE MCProjectLock ----------------------------
(* TLC instances of ProjectLock. *)
EXTENDS ProjectLock, TLC
CONSTANTS a, b, c, hb

\* a and b import into the same project, c into another one.
TwoProjects == a :> "p" @@ b :> "p" @@ c :> "q"
OwnKeys == "p" :> 1 @@ "q" :> 2
OneKey == "p" :> 1 @@ "q" :> 1
=============================================================================
