------------------------------ MODULE MCBackend ------------------------------
(***************************************************************************)
(* The two stores of backend-api that several writers change, checked one   *)
(* at a time: the keyword table and the ontology tables.  The one that does *)
(* not run stays as it began.                                               *)
(***************************************************************************)
EXTENDS KeywordStore, Ontology

\* "x" and "X" differ in case, "x_" in an underscore.
MCWords == {"m", "x", "X", "x_"}
MCLower == [w \in MCWords |-> IF w = "X" THEN "x" ELSE w]
MCSquash == [w \in MCWords |-> IF w \in {"X", "x_"} THEN "x" ELSE w]
MCOwnerOf == [p \in {"p1"} |-> "o1"]
MCNameOf == [a \in {"o1", "o2", "p1", "m1"} |->
               CASE a = "p1" -> "X" [] a = "m1" -> "m" [] OTHER -> "x_"]

Binding(kind, to, value) == [kind |-> kind, to |-> to, value |-> value]
Column == Binding("column_alias", "p1", None)
Value == Binding("value_alias", "p1", None)
Trigger == Binding("intent_trigger", "m1", None)

MCPayloads == {<<>>, <<Binding("od_alias", "o1", None)>>, <<Column>>, <<Value>>,
               <<Binding("value_alias", "p1", "x")>>, <<Trigger>>, <<Column, Trigger>>}

MCOwner == [p \in {"c1", "c2", "c3"} |-> IF p = "c2" THEN "od2" ELSE "od1"]
MCEnds == [l \in {"l1"} |-> <<"od1", "od2">>]

ASSUME OntConstants == OntologyConstants

VARIABLE part
allVars == <<part, vars, ontVars>>

-----------------------------------------------------------------------------
\* One of KeywordStore's initial states, while the ontology tables are checked.
KeywordsIdle == objects["o1"] = "active"

MCInit == /\ part \in {"keywords", "ontology"}
          /\ Init /\ (part = "ontology" => KeywordsIdle)
          /\ OntInit

MCNext == \/ part = "keywords" /\ Next /\ UNCHANGED <<part, ontVars>>
          \/ part = "ontology" /\ OntNext /\ UNCHANGED <<part, vars>>

MCSpec == MCInit /\ [][MCNext]_allVars
=============================================================================
