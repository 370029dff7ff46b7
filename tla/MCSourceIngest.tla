--------------------------- MODULE MCSourceIngest ---------------------------
(* TLC instances of SourceIngest: two sources of one project. *)
EXTENDS SourceIngest, TLC
CONSTANTS a, b

BothFile == a :> "file" @@ b :> "file"
FileAndPbi == a :> "file" @@ b :> "pbi"
SameContent == a :> "c1" @@ b :> "c1"
OtherContent == a :> "c1" @@ b :> "c2"
SameTable == a :> "sales" @@ b :> "sales"
OtherTable == a :> "sales" @@ b :> "stock"
=============================================================================
