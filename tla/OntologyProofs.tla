---------------------------- MODULE OntologyProofs ----------------------------
(***************************************************************************)
(* Proofs about Ontology for every set of objects, properties and links,   *)
(* and every number of requests, texts and requests between check and      *)
(* write.                                                                  *)
(***************************************************************************)
EXTENDS Ontology, FiniteSetTheorems, TLAPS

\* A request that passed its check is about a row that existed, and carries the
\* row as the check saw it.
OpenInv ==
    /\ IsFiniteSet(open)
    /\ \A x \in open :
        /\ x.op \in ObjectOps => x.id \in Ods /\ obj[x.id].st # "none" /\ Live(x.row.st)
        /\ x.op \notin ObjectOps => x.id \in Links
        /\ x.op = "activateLink" => x.row = "pending"

\* The foreign keys: a row of a property or of a link has its objects.
RowsInv ==
    /\ \A p \in Props : Live(prop[p]) => Live(obj[Owner[p]].st)
    /\ \A l \in Links : Live(link[l]) => Live(obj[Ends[l][1]].st) /\ Live(obj[Ends[l][2]].st)

\* A property is deleted with its object or from it.
DropInv == \A p \in Props :
    prop[p] = "gone" => obj[Owner[p]].st = "gone" \/ "drop_property" \in cause[Owner[p]]

\* Edges are between knowledge rows, and knowledge is written for properties
\* that have been inserted.
KnowInv ==
    /\ \A e \in edges : e[1] \in know /\ e[2] \in know
    /\ \A p \in know : prop[p] # "none"
    /\ \A c \in creating : prop[c[1]] # "none"

-----------------------------------------------------------------------------
(* Types and what never goes back *)

Shape ==
    /\ obj \in [Ods -> Object]
    /\ prop \in [Props -> States] /\ link \in [Links -> States]
    /\ know \subseteq Props /\ edges \subseteq Props \X Props
    /\ creating \subseteq Props \X {"read", "insert"} /\ deleting \subseteq Props
    /\ cause \in [Ods -> SUBSET Causes]
    /\ \A x \in open : /\ x.op \in Ops /\ x.id \in Subjects
                       /\ x.op \in ObjectOps => x.row \in Object

\* Rows of ont_object_type after an update of some of their columns.
LEMMA ObjectRows ==
    ASSUME obj \in [Ods -> Object], MaxTexts \in Nat \ {0}
    PROVE  /\ [st |-> "pending", origin |-> "builder", sql |-> 1, canon |-> 0, texts |-> 1] \in Object
           /\ \A o \in Ods, st \in States : [obj[o] EXCEPT !.st = st] \in Object
           /\ \A o \in Ods : /\ obj[o].sql \in 0..MaxTexts /\ obj[o].canon \in 0..MaxTexts
                             /\ obj[o].texts \in 0..MaxTexts /\ obj[o].st \in States
<1>1. [st |-> "pending", origin |-> "builder", sql |-> 1, canon |-> 0, texts |-> 1] \in Object
  BY DEF Object, States
<1>2. \A row \in Object, st \in States : [row EXCEPT !.st = st] \in Object
  BY DEF Object
<1>3. \A row \in Object : /\ row.sql \in 0..MaxTexts /\ row.canon \in 0..MaxTexts
                          /\ row.texts \in 0..MaxTexts /\ row.st \in States
  BY DEF Object
<1>4. \A o \in Ods : obj[o] \in Object
  OBVIOUS
<1> QED BY ONLY <1>1, <1>2, <1>3, <1>4

LEMMA RowTexts ==
    ASSUME NEW row \in Object, NEW sql \in 0..MaxTexts, NEW canon \in 0..MaxTexts, NEW texts \in 0..MaxTexts
    PROVE  /\ [row EXCEPT !.sql = sql, !.texts = texts, !.canon = canon] \in Object
           /\ [row EXCEPT !.sql = sql, !.texts = texts] \in Object
BY DEF Object

LEMMA ObjectTable ==
    ASSUME obj \in [Ods -> Object], NEW o \in Ods, NEW st \in States,
           NEW sql \in 0..MaxTexts, NEW canon \in 0..MaxTexts, NEW texts \in 0..MaxTexts
    PROVE  [obj EXCEPT ![o].st = st, ![o].sql = sql, ![o].canon = canon, ![o].texts = texts]
              \in [Ods -> Object]
<1> DEFINE row == [obj[o] EXCEPT !.st = st, !.sql = sql, !.canon = canon, !.texts = texts]
<1>1. row \in Object
  BY DEF Object
<1>2. [obj EXCEPT ![o].st = st, ![o].sql = sql, ![o].canon = canon, ![o].texts = texts] = [obj EXCEPT ![o] = row]
  OBVIOUS
<1> HIDE DEF row
<1> QED BY <1>1, <1>2

\* Blame only adds to the causes.
LEMMA BlameAdds ==
    ASSUME cause \in [Ods -> SUBSET Causes], NEW os, NEW why \in Causes, Blame(os, why)
    PROVE  /\ cause' \in [Ods -> SUBSET Causes]
           /\ \A o \in Ods : cause[o] \subseteq cause'[o] /\ (o \in os => why \in cause'[o])
BY DEF Blame

\* Every writer keeps the shapes of the rows.
LEMMA NextShape ==
    ASSUME OntologyConstants, Shape, OpenInv, [OntNext]_ontVars
    PROVE  Shape'
<1> USE DEF OntologyConstants, Shape, Causes, States, Live
<1>1. ASSUME NEW o \in Ods, NEW ps \in SUBSET Props, ProposeOd(o, ps) PROVE Shape'
  <2>1. obj' \in [Ods -> Object]
    BY <1>1, ObjectRows DEF ProposeOd
  <2>2. prop' \in [Props -> States]
    BY <1>1 DEF ProposeOd
  <2> QED BY <1>1, <2>1, <2>2 DEF ProposeOd
<1>2. ASSUME NEW os \in SUBSET Ods, InsertObjects(os) PROVE Shape'
  <2>1. obj' \in [Ods -> Object]
    BY <1>2, ObjectRows DEF InsertObjects
  <2> QED BY <1>2, <2>1 DEF InsertObjects
<1>3. ASSUME NEW o \in Ods, PutObject(o) PROVE Shape'
  <2>1. PICK text \in {0} \cup ({obj[o].texts + 1} \cap 0..MaxTexts) :
          obj' = [obj EXCEPT ![o].sql = text, ![o].texts = IF text > @ THEN text ELSE @]
    BY <1>3 DEF PutObject
  <2> DEFINE row == [obj[o] EXCEPT !.sql = text, !.texts = IF text > @ THEN text ELSE @]
  <2>2. row \in Object
    <3>1. obj[o] \in Object /\ text \in 0..MaxTexts /\ obj[o].texts \in 0..MaxTexts
      BY <2>1, ObjectRows
    <3>2. (IF text > obj[o].texts THEN text ELSE obj[o].texts) \in 0..MaxTexts
      BY <3>1
    <3> QED BY <3>1, <3>2, RowTexts
  <2>3. obj' = [obj EXCEPT ![o] = row]
    BY <2>1
  <2> HIDE DEF row
  <2>4. obj' \in [Ods -> Object]
    BY <2>2, <2>3
  <2>5. cause' \in [Ods -> SUBSET Causes]
    BY <1>3, BlameAdds DEF PutObject
  <2> QED BY <1>3, <2>4, <2>5 DEF PutObject
<1>4. ASSUME NEW os \in SUBSET Ods, RemoveObjects(os) PROVE Shape'
  <2>1. obj' \in [Ods -> Object]
    BY <1>4, ObjectRows DEF RemoveObjects
  <2>2. cause' \in [Ods -> SUBSET Causes]
    BY <1>4, BlameAdds DEF RemoveObjects
  <2>3. prop' \in [Props -> States]
    BY <1>4 DEF RemoveObjects
  <2>4. link' \in [Links -> States]
    BY <1>4 DEF RemoveObjects
  <2> QED BY <1>4, <2>1, <2>2, <2>3, <2>4 DEF RemoveObjects
<1>5. ASSUME NEW os \in SUBSET Ods, NEW b \in BOOLEAN, MarkObjects(os, b) PROVE Shape'
  <2>1. obj' \in [Ods -> Object]
    <3>1. Marked(b) \in States
      BY DEF Marked
    <3> QED BY <1>5, <3>1, ObjectRows DEF MarkObjects
  <2>2. cause' \in [Ods -> SUBSET Causes]
    BY <1>5, BlameAdds DEF MarkObjects
  <2> QED BY <1>5, <2>1, <2>2 DEF MarkObjects
<1>6. ASSUME NEW op \in Ops, NEW id \in Subjects, Begin(op, id) PROVE Shape'
  BY <1>6 DEF Begin
<1>7. ASSUME NEW p \in Props, SaveProperty(p) PROVE Shape'
  BY <1>7 DEF SaveProperty
<1>8. ASSUME NEW p \in Props, DeletePropertyBegin(p) PROVE Shape'
  BY <1>8 DEF DeletePropertyBegin, EdgesWithout
<1>9. ASSUME NEW p \in Props, ReanchorKnowledge(p) PROVE Shape'
  <2>1. cause' \in [Ods -> SUBSET Causes]
    BY <1>9, BlameAdds DEF ReanchorKnowledge
  <2> QED BY <1>9, <2>1 DEF ReanchorKnowledge, EdgesWithout
<1>10. ASSUME NEW p \in Props, NEW b \in BOOLEAN, MarkProperty(p, b) PROVE Shape'
  BY <1>10 DEF MarkProperty, Marked, Blame
<1>11. ASSUME NEW l \in Links, ProposeLink(l) PROVE Shape'
  BY <1>11 DEF ProposeLink
<1>12. ASSUME NEW l \in Links, NEW st \in States, PageLink(l, st) PROVE Shape'
  BY <1>12 DEF PageLink
<1>13. ASSUME InsertMissing PROVE Shape'
  BY <1>13 DEF InsertMissing
<1>14. ASSUME NEW e \in edges, DeleteCausality(e) PROVE Shape'
  BY <1>14 DEF DeleteCausality
<1>15. ASSUME NEW x \in open, Rollback(x) PROVE Shape'
  BY <1>15 DEF Rollback, Close
<1>16. ASSUME NEW x \in open, ActivateOd(x), ~Rollback(x) PROVE Shape'
  <2> DEFINE o == x.id
  <2>1. x.op = "activate" /\ o \in Ods
    BY <1>16 DEF ActivateOd, OpenInv, ObjectOps
  <2>2. PICK text \in {obj[o].sql} \cup ({obj[o].texts + 1} \cap 0..MaxTexts) :
          obj' = [obj EXCEPT ![o].st = "active", ![o].sql = text, ![o].canon = text,
                             ![o].texts = IF text > @ THEN text ELSE @]
    BY <1>16 DEF ActivateOd
  <2>3. text \in 0..MaxTexts /\ obj[o].texts \in 0..MaxTexts
    BY <2>1, <2>2, ObjectRows
  <2>4. (IF text > obj[o].texts THEN text ELSE obj[o].texts) \in 0..MaxTexts
    BY <2>3
  <2>5. obj' \in [Ods -> Object]
    BY <2>1, <2>2, <2>3, <2>4, ObjectTable
  <2>6. prop' \in [Props -> States]
    BY <1>16 DEF ActivateOd
  <2>7. know' \subseteq Props
    BY <1>16 DEF ActivateOd, KnowledgeOfOd, PropsOf
  <2> QED BY <1>16, <2>5, <2>6, <2>7 DEF ActivateOd, Close
<1>17. ASSUME NEW x \in open, UpdateOd(x), ~Rollback(x) PROVE Shape'
  <2> DEFINE o == x.id
  <2>1. x.op = "update" /\ o \in Ods /\ x.row.st \in States
    BY <1>17 DEF UpdateOd, OpenInv, ObjectOps
  <2>2. PICK changed \in BOOLEAN, adds \in SUBSET Props, dels \in SUBSET Props :
          /\ changed => obj[o].texts < MaxTexts
          /\ obj' = [obj EXCEPT ![o].sql = IF changed THEN obj[o].texts + 1 ELSE @,
                                ![o].texts = IF changed THEN @ + 1 ELSE @,
                                ![o].canon = InvalidatedCanonical(x, changed)]
          /\ prop' = [p \in Props |-> IF p \in adds THEN x.row.st
                                      ELSE IF p \in dels THEN "gone" ELSE prop[p]]
          /\ cause' = [cause EXCEPT ![o] = @ \cup (IF dels # {} THEN {"drop_property"} ELSE {})
                                             \cup (IF adds # {} /\ x.row.st = "active" THEN {"add_active"} ELSE {})
                                             \cup (IF x.row # obj[o] THEN {"overlap"} ELSE {})]
    BY ONLY UpdateOd(x), ~Rollback(x) DEF UpdateOd
  <2>3. /\ obj[o].sql \in 0..MaxTexts /\ obj[o].canon \in 0..MaxTexts /\ obj[o].texts \in 0..MaxTexts
    BY <2>1, ObjectRows
  <2> DEFINE sql == IF changed THEN obj[o].texts + 1 ELSE obj[o].sql
             texts == IF changed THEN obj[o].texts + 1 ELSE obj[o].texts
             canon == InvalidatedCanonical(x, changed)
             row == [obj[o] EXCEPT !.sql = sql, !.texts = texts, !.canon = canon]
  <2>4. sql \in 0..MaxTexts /\ texts \in 0..MaxTexts /\ canon \in 0..MaxTexts
    BY <2>2, <2>3 DEF InvalidatedCanonical
  <2>5. obj' = [obj EXCEPT ![o].sql = sql, ![o].texts = texts, ![o].canon = canon]
    BY <2>2
  <2> HIDE DEF sql, texts, canon
  <2>6. row \in Object
    <3>1. obj[o] \in Object
      BY <2>1
    <3> QED BY ONLY <2>4, <3>1, RowTexts
  <2>7. obj' = [obj EXCEPT ![o] = row]
    BY <2>1, <2>5
  <2> HIDE DEF row
  <2>8. obj' \in [Ods -> Object]
    BY <2>1, <2>6, <2>7
  <2>9. prop' \in [Props -> States]
    BY <2>1, <2>2
  <2>10. cause' \in [Ods -> SUBSET Causes]
    BY <2>1, <2>2
  <2> QED BY <1>17, <2>8, <2>9, <2>10 DEF UpdateOd, Close
<1>18. ASSUME NEW x \in open, x.op \in ObjectOps, StoreAligned(x) PROVE Shape'
  <2> DEFINE row == [obj[x.id] EXCEPT !.canon = x.row.sql]
  <2>1. x.id \in Ods /\ x.row \in Object
    BY <1>18 DEF OpenInv
  <2>2. row \in Object /\ obj' = [obj EXCEPT ![x.id] = row]
    BY <1>18, <2>1 DEF StoreAligned, Object
  <2> HIDE DEF row
  <2>3. obj' \in [Ods -> Object]
    BY <2>1, <2>2
  <2>4. cause' \in [Ods -> SUBSET Causes]
    BY <1>18, BlameAdds DEF StoreAligned
  <2> QED BY <1>18, <2>3, <2>4 DEF StoreAligned, Close
<1>19. ASSUME NEW x \in open, NEW c \in BOOLEAN, DeleteOd(x, c) PROVE Shape'
  <2>1. x.id \in Ods
    BY <1>19 DEF DeleteOd, OpenInv, ObjectOps
  <2>2. [obj[x.id] EXCEPT !.st = "gone"] \in Object /\ obj' = [obj EXCEPT ![x.id] = [obj[x.id] EXCEPT !.st = "gone"]]
    BY <1>19, <2>1, ObjectRows DEF DeleteOd
  <2>3. obj' \in [Ods -> Object]
    BY <2>1, <2>2
  <2>4. cause' \in [Ods -> SUBSET Causes]
    BY <1>19, BlameAdds DEF DeleteOd
  <2>5. prop' \in [Props -> States]
    BY <1>19 DEF DeleteOd, CascadeProps
  <2>6. link' \in [Links -> States]
    BY <1>19 DEF DeleteOd, CascadeLinks
  <2>7. edges' \subseteq Props \X Props
    BY <1>19 DEF DeleteOd
  <2> QED BY <1>19, <2>3, <2>4, <2>5, <2>6, <2>7 DEF DeleteOd, Close
<1>20. ASSUME NEW x \in open, ActivateLink(x), ~Rollback(x) PROVE Shape'
  <2>1. cause' \in [Ods -> SUBSET Causes]
    BY <1>20, BlameAdds DEF ActivateLink
  <2>2. know' \subseteq Props /\ edges' \subseteq Props \X Props
    BY <1>20 DEF ActivateLink
  <2>3. x.id \in Links /\ \E st \in {"active", link[x.id]} : link' = [link EXCEPT ![x.id] = st]
    BY <1>20 DEF ActivateLink, OpenInv, ObjectOps
  <2>4. link' \in [Links -> States]
    BY <2>3
  <2> QED BY <1>20, <2>1, <2>2, <2>4 DEF ActivateLink, Close
<1>21. ASSUME NEW x \in open, UpdateLink(x), ~Rollback(x) PROVE Shape'
  <2>1. PICK new \in SUBSET (PropsOf(Ends[x.id][1]) \X PropsOf(Ends[x.id][2])) :
          /\ edges' = (edges \ EdgesBetween(x.id)) \cup new
          /\ know' = know \cup UNION {{e[1], e[2]} : e \in new}
    BY <1>21 DEF UpdateLink
  <2>2. new \subseteq Props \X Props
    BY DEF PropsOf
  <2>3. know' \subseteq Props /\ edges' \subseteq Props \X Props
    BY <2>1, <2>2
  <2> QED BY <1>21, <2>3 DEF UpdateLink, Close
<1>22. ASSUME NEW x \in open, DeleteLink(x) PROVE Shape'
  BY <1>22 DEF DeleteLink, Close
<1>23. ASSUME NEW p \in Props, DeletePropertyEnd(p) PROVE Shape'
  BY <1>23 DEF DeletePropertyEnd, Blame
<1>24. ASSUME NEW p \in Props, CreatorReads(p) PROVE Shape'
  BY <1>24 DEF CreatorReads
<1>25. ASSUME NEW p \in Props, CreatorInserts(p) PROVE Shape'
  BY <1>25 DEF CreatorInserts
<1>26. CASE UNCHANGED ontVars
  BY <1>26 DEF ontVars
<1>27. CASE Arrives
  BY <1>27, <1>1, <1>2, <1>3, <1>4, <1>5, <1>6, <1>7, <1>8, <1>9, <1>10, <1>11, <1>12, <1>13,
      <1>14
      DEF Arrives, CreateObject, BulkCreateObjects, DeleteObject, BulkDeleteObjects, PatchObject,
          BulkUpdateObjects, SyncProperties, EnsurePropertyKnowledge
<1>28. CASE Commits
  <2> SUFFICES ASSUME NEW x \in open, ~Rollback(x),
                  \/ ActivateOd(x) \/ UpdateOd(x) \/ (x.op \in ObjectOps /\ StoreAligned(x))
                  \/ \E c \in BOOLEAN : DeleteOd(x, c)
                  \/ ActivateLink(x) \/ UpdateLink(x) \/ DeleteLink(x)
           PROVE  Shape'
    BY <1>28, <1>15 DEF Commits, SolidifySQL, TestCanonical, ObjectOps
  <2> QED BY <1>16, <1>17, <1>18, <1>19, <1>20, <1>21, <1>22
<1> QED BY <1>23, <1>24, <1>25, <1>26, <1>27, <1>28
      DEF OntNext

-----------------------------------------------------------------------------
(* What never goes back *)

\* What an activation that commits changes.
LEMMA ActivateEffect ==
    ASSUME Shape, OpenInv, NEW x \in open, ActivateOd(x), ~Rollback(x)
    PROVE  /\ x.id \in Ods /\ Live(obj[x.id].st)
           /\ obj'[x.id].st = "active" /\ obj'[x.id].canon = obj'[x.id].sql
           /\ \A o \in Ods : o # x.id => obj'[o] = obj[o]
           /\ \A p \in Props : prop'[p] = IF Owner[p] = x.id /\ Live(prop[p]) THEN "active" ELSE prop[p]
           /\ know' = know \cup PropsOf(x.id) /\ open' = open \ {x}
           /\ UNCHANGED <<link, edges, creating, deleting, cause>>
<1>1. x.id \in Ods
  BY DEF ActivateOd, OpenInv, ObjectOps
<1>2. PICK text \in {obj[x.id].sql} \cup ({obj[x.id].texts + 1} \cap 0..MaxTexts) :
        obj' = [obj EXCEPT ![x.id].st = "active", ![x.id].sql = text, ![x.id].canon = text,
                           ![x.id].texts = IF text > @ THEN text ELSE @]
  BY DEF ActivateOd
<1> DEFINE texts == IF text > obj[x.id].texts THEN text ELSE obj[x.id].texts
<1>3. obj' = [obj EXCEPT ![x.id] = [obj[x.id] EXCEPT !.st = "active", !.sql = text, !.canon = text,
                                                     !.texts = texts]]
  BY <1>2
<1>4. obj \in [Ods -> Object] /\ obj[x.id] \in Object
  BY <1>1 DEF Shape
<1> HIDE DEF texts
<1>5. /\ obj'[x.id] = [obj[x.id] EXCEPT !.st = "active", !.sql = text, !.canon = text, !.texts = texts]
      /\ \A o \in Ods : o # x.id => obj'[o] = obj[o]
  BY ONLY <1>1, <1>3, <1>4
<1>6. obj'[x.id].st = "active" /\ obj'[x.id].canon = text /\ obj'[x.id].sql = text
  BY ONLY <1>4, <1>5 DEF Object
<1>7. \A p \in Props : prop'[p] = IF Owner[p] = x.id /\ Live(prop[p]) THEN "active" ELSE prop[p]
  BY DEF ActivateOd, PropsOf
<1>8. /\ Live(obj[x.id].st) /\ know' = know \cup PropsOf(x.id) /\ open' = open \ {x}
      /\ UNCHANGED <<link, edges, creating, deleting, cause>>
  BY DEF ActivateOd, KnowledgeOfOd, Close
<1> QED BY ONLY <1>1, <1>5, <1>6, <1>7, <1>8

\* What an update_od that commits changes.
LEMMA UpdateEffect ==
    ASSUME Shape, OpenInv, NEW x \in open, UpdateOd(x), ~Rollback(x)
    PROVE  /\ x.id \in Ods /\ Live(obj[x.id].st) /\ Live(x.row.st)
           /\ obj'[x.id].st = obj[x.id].st
           /\ \/ obj'[x.id].canon = obj[x.id].canon /\ obj'[x.id].sql = obj[x.id].sql
              \/ obj'[x.id].canon = 0
              \/ obj'[x.id].canon = obj[x.id].canon /\ ~(x.row.st = "active" /\ x.row.canon # 0)
           /\ \A o \in Ods : o # x.id => obj'[o] = obj[o] /\ cause'[o] = cause[o]
           /\ cause[x.id] \subseteq cause'[x.id]
           /\ x.row # obj[x.id] => "overlap" \in cause'[x.id]
           /\ \A p \in Props :
                \/ prop'[p] = prop[p]
                \/ /\ Owner[p] = x.id /\ prop[p] = "none" /\ prop'[p] = x.row.st
                   /\ x.row.st = "active" => "add_active" \in cause'[x.id]
                \/ /\ Owner[p] = x.id /\ Live(prop[p]) /\ prop'[p] = "gone"
                   /\ "drop_property" \in cause'[x.id]
           /\ open' = open \ {x} /\ UNCHANGED <<link, know, edges, creating, deleting>>
<1>1. x.id \in Ods /\ Live(x.row.st)
  BY DEF UpdateOd, OpenInv, ObjectOps
<1>2. PICK changed \in BOOLEAN, adds \in SUBSET Props, dels \in SUBSET Props :
        /\ \A p \in adds : Owner[p] = x.id /\ prop[p] = "none"
        /\ dels \subseteq PropsOf(x.id)
        /\ obj' = [obj EXCEPT ![x.id].sql = IF changed THEN obj[x.id].texts + 1 ELSE @,
                              ![x.id].texts = IF changed THEN @ + 1 ELSE @,
                              ![x.id].canon = InvalidatedCanonical(x, changed)]
        /\ prop' = [p \in Props |-> IF p \in adds THEN x.row.st
                                    ELSE IF p \in dels THEN "gone" ELSE prop[p]]
        /\ cause' = [cause EXCEPT ![x.id] = @ \cup (IF dels # {} THEN {"drop_property"} ELSE {})
                                              \cup (IF adds # {} /\ x.row.st = "active" THEN {"add_active"} ELSE {})
                                              \cup (IF x.row # obj[x.id] THEN {"overlap"} ELSE {})]
  BY ONLY UpdateOd(x), ~Rollback(x) DEF UpdateOd
<1>3. Live(obj[x.id].st) /\ open' = open \ {x} /\ UNCHANGED <<link, know, edges, creating, deleting>>
  BY DEF UpdateOd, Close
<1> DEFINE sql == IF changed THEN obj[x.id].texts + 1 ELSE obj[x.id].sql
           texts == IF changed THEN obj[x.id].texts + 1 ELSE obj[x.id].texts
           canon == InvalidatedCanonical(x, changed)
           extra == (IF dels # {} THEN {"drop_property"} ELSE {})
                    \cup (IF adds # {} /\ x.row.st = "active" THEN {"add_active"} ELSE {})
                    \cup (IF x.row # obj[x.id] THEN {"overlap"} ELSE {})
<1>4. obj' = [obj EXCEPT ![x.id] = [obj[x.id] EXCEPT !.sql = sql, !.texts = texts, !.canon = canon]]
  BY <1>2
<1>5. cause' = [cause EXCEPT ![x.id] = cause[x.id] \cup extra]
  BY <1>2
<1>6. \/ canon = obj[x.id].canon /\ sql = obj[x.id].sql
      \/ canon = 0
      \/ canon = obj[x.id].canon /\ ~(x.row.st = "active" /\ x.row.canon # 0)
  BY DEF InvalidatedCanonical
<1>7. obj \in [Ods -> Object] /\ obj[x.id] \in Object /\ cause \in [Ods -> SUBSET Causes]
  BY <1>1 DEF Shape
<1>8. /\ dels # {} => "drop_property" \in extra
      /\ adds # {} /\ x.row.st = "active" => "add_active" \in extra
      /\ x.row # obj[x.id] => "overlap" \in extra
  OBVIOUS
<1> HIDE DEF sql, texts, canon, extra
<1>9. /\ obj'[x.id] = [obj[x.id] EXCEPT !.sql = sql, !.texts = texts, !.canon = canon]
      /\ \A o \in Ods : o # x.id => obj'[o] = obj[o]
  BY ONLY <1>1, <1>4, <1>7
<1>10. obj'[x.id].st = obj[x.id].st /\ obj'[x.id].canon = canon /\ obj'[x.id].sql = sql
  BY ONLY <1>7, <1>9 DEF Object
<1>11. cause'[x.id] = cause[x.id] \cup extra /\ \A o \in Ods : o # x.id => cause'[o] = cause[o]
  BY ONLY <1>1, <1>5, <1>7
<1>12. ASSUME NEW p \in Props
       PROVE  \/ prop'[p] = prop[p]
              \/ /\ Owner[p] = x.id /\ prop[p] = "none" /\ prop'[p] = x.row.st
                 /\ x.row.st = "active" => "add_active" \in cause'[x.id]
              \/ /\ Owner[p] = x.id /\ Live(prop[p]) /\ prop'[p] = "gone"
                 /\ "drop_property" \in cause'[x.id]
  <2>1. CASE p \in adds
    BY <2>1, <1>2, <1>8, <1>11
  <2>2. CASE p \in dels /\ p \notin adds
    BY <2>2, <1>2, <1>8, <1>11 DEF PropsOf
  <2>3. CASE p \notin dels /\ p \notin adds
    BY <2>3, <1>2
  <2> QED BY <2>1, <2>2, <2>3
<1> QED BY ONLY <1>1, <1>3, <1>6, <1>8, <1>9, <1>10, <1>11, <1>12

\* Rows are inserted once and deleted for good, and history only grows.
Forward ==
    /\ \A o \in Ods : /\ obj[o].st # "none" => obj'[o].st # "none"
                      /\ obj[o].st = "gone" => obj'[o].st = "gone"
                      /\ cause[o] \subseteq cause'[o]
    /\ \A p \in Props : /\ prop[p] # "none" => prop'[p] # "none"
                        /\ prop[p] = "gone" => prop'[p] = "gone"

LEMMA NextForward ==
    ASSUME OntologyConstants, Shape, OpenInv, [OntNext]_ontVars
    PROVE  Forward
<1> USE DEF OntologyConstants, Shape, States, Live, Forward
<1>1. ASSUME NEW o \in Ods, NEW ps \in SUBSET Props, ProposeOd(o, ps) PROVE Forward
  BY <1>1 DEF ProposeOd
<1>2. ASSUME NEW os \in SUBSET Ods, InsertObjects(os) PROVE Forward
  BY <1>2 DEF InsertObjects
<1>3. ASSUME NEW o \in Ods, PutObject(o) PROVE Forward
  BY <1>3 DEF PutObject, Blame
<1>4. ASSUME NEW os \in SUBSET Ods, RemoveObjects(os) PROVE Forward
  BY <1>4 DEF RemoveObjects, Blame
<1>5. ASSUME NEW os \in SUBSET Ods, NEW b \in BOOLEAN, MarkObjects(os, b) PROVE Forward
  BY <1>5 DEF MarkObjects, Marked, Blame
<1>6. ASSUME NEW op \in Ops, NEW id \in Subjects, Begin(op, id) PROVE Forward
  BY <1>6 DEF Begin
<1>7. ASSUME NEW p \in Props, SaveProperty(p) PROVE Forward
  BY <1>7 DEF SaveProperty
<1>8. ASSUME NEW p \in Props, DeletePropertyBegin(p) PROVE Forward
  BY <1>8 DEF DeletePropertyBegin
<1>9. ASSUME NEW p \in Props, ReanchorKnowledge(p) PROVE Forward
  BY <1>9 DEF ReanchorKnowledge, Blame
<1>10. ASSUME NEW p \in Props, NEW b \in BOOLEAN, MarkProperty(p, b) PROVE Forward
  BY <1>10 DEF MarkProperty, Marked, Blame
<1>11. ASSUME NEW l \in Links, ProposeLink(l) PROVE Forward
  BY <1>11 DEF ProposeLink
<1>12. ASSUME NEW l \in Links, NEW st \in States, PageLink(l, st) PROVE Forward
  BY <1>12 DEF PageLink
<1>13. ASSUME InsertMissing PROVE Forward
  BY <1>13 DEF InsertMissing
<1>14. ASSUME NEW e \in edges, DeleteCausality(e) PROVE Forward
  BY <1>14 DEF DeleteCausality
<1>15. ASSUME NEW x \in open, Rollback(x) PROVE Forward
  BY <1>15 DEF Rollback, Close
<1>16. ASSUME NEW x \in open, ActivateOd(x), ~Rollback(x) PROVE Forward
  BY <1>16, ActivateEffect
<1>17. ASSUME NEW x \in open, UpdateOd(x), ~Rollback(x) PROVE Forward
  BY <1>17, UpdateEffect
<1>18. ASSUME NEW x \in open, x.op \in ObjectOps, StoreAligned(x) PROVE Forward
  <2>1. x.id \in Ods
    BY <1>18 DEF OpenInv
  <2>2. \A o \in Ods : obj'[o].st = obj[o].st
    BY <1>18, <2>1 DEF StoreAligned
  <2> QED BY <1>18, <2>2 DEF StoreAligned, Blame
<1>19. ASSUME NEW x \in open, NEW c \in BOOLEAN, DeleteOd(x, c) PROVE Forward
  <2>1. x.id \in Ods
    BY <1>19 DEF DeleteOd, OpenInv, ObjectOps
  <2>2. \A o \in Ods : obj'[o].st \in {obj[o].st, "gone"}
    BY <1>19, <2>1 DEF DeleteOd
  <2>3. \A p \in Props : prop'[p] \in {prop[p], "gone"}
    BY <1>19 DEF DeleteOd, CascadeProps
  <2>4. \A o \in Ods : cause[o] \subseteq cause'[o]
    BY <1>19 DEF DeleteOd, Blame
  <2> QED BY <2>2, <2>3, <2>4
<1>20. ASSUME NEW x \in open, ActivateLink(x), ~Rollback(x) PROVE Forward
  <2>1. cause' = cause \/ Blame({Ends[x.id][1], Ends[x.id][2]}, "overlap")
    BY <1>20 DEF ActivateLink
  <2>2. \A o \in Ods : cause[o] \subseteq cause'[o]
    BY <2>1 DEF Blame
  <2> QED BY <1>20, <2>2 DEF ActivateLink
<1>21. ASSUME NEW x \in open, UpdateLink(x), ~Rollback(x) PROVE Forward
  BY <1>21 DEF UpdateLink, Close
<1>22. ASSUME NEW x \in open, DeleteLink(x) PROVE Forward
  BY <1>22 DEF DeleteLink, Close
<1>23. ASSUME NEW p \in Props, DeletePropertyEnd(p) PROVE Forward
  BY <1>23 DEF DeletePropertyEnd, Blame
<1>24. ASSUME NEW p \in Props, CreatorReads(p) PROVE Forward
  BY <1>24 DEF CreatorReads
<1>25. ASSUME NEW p \in Props, CreatorInserts(p) PROVE Forward
  BY <1>25 DEF CreatorInserts
<1>26. CASE UNCHANGED ontVars
  BY <1>26 DEF ontVars
<1>27. CASE Arrives
  BY <1>27, <1>1, <1>2, <1>3, <1>4, <1>5, <1>6, <1>7, <1>8, <1>9, <1>10, <1>11, <1>12, <1>13,
      <1>14
      DEF Arrives, CreateObject, BulkCreateObjects, DeleteObject, BulkDeleteObjects, PatchObject,
          BulkUpdateObjects, SyncProperties, EnsurePropertyKnowledge
<1>28. CASE Commits
  <2> SUFFICES ASSUME NEW x \in open, ~Rollback(x),
                  \/ ActivateOd(x) \/ UpdateOd(x) \/ (x.op \in ObjectOps /\ StoreAligned(x))
                  \/ \E c \in BOOLEAN : DeleteOd(x, c)
                  \/ ActivateLink(x) \/ UpdateLink(x) \/ DeleteLink(x)
           PROVE  Forward
    BY <1>28, <1>15 DEF Commits, SolidifySQL, TestCanonical, ObjectOps
  <2> QED BY <1>16, <1>17, <1>18, <1>19, <1>20, <1>21, <1>22
<1> QED BY <1>23, <1>24, <1>25, <1>26, <1>27, <1>28
      DEF OntNext

\* Requests carry what their check saw until they commit or roll back.
LEMMA NextOpen ==
    ASSUME OntologyConstants, Shape, OpenInv, [OntNext]_ontVars
    PROVE  OpenInv'
<1>f. Forward
  BY NextForward
<1>kept. ASSUME open' = open PROVE OpenInv'
  BY <1>f, <1>kept DEF OpenInv, Forward
<1>closed. ASSUME NEW x \in open, open' = open \ {x} PROVE OpenInv'
  <2>1. IsFiniteSet(open')
    BY <1>closed, FS_RemoveElement DEF OpenInv
  <2> QED BY <1>f, <1>closed, <2>1 DEF OpenInv, Forward
<1>1. ASSUME NEW o \in Ods, NEW ps \in SUBSET Props, ProposeOd(o, ps) PROVE OpenInv'
  BY <1>1, <1>kept DEF ProposeOd
<1>2. ASSUME NEW os \in SUBSET Ods, InsertObjects(os) PROVE OpenInv'
  BY <1>2, <1>kept DEF InsertObjects
<1>3. ASSUME NEW o \in Ods, PutObject(o) PROVE OpenInv'
  BY <1>3, <1>kept DEF PutObject
<1>4. ASSUME NEW os \in SUBSET Ods, RemoveObjects(os) PROVE OpenInv'
  BY <1>4, <1>kept DEF RemoveObjects
<1>5. ASSUME NEW os \in SUBSET Ods, NEW b \in BOOLEAN, MarkObjects(os, b) PROVE OpenInv'
  BY <1>5, <1>kept DEF MarkObjects
<1>6. ASSUME NEW op \in Ops, NEW id \in Subjects, Begin(op, id) PROVE OpenInv'
  <2> DEFINE new == [op |-> op, id |-> id, row |-> IF op \in ObjectOps THEN obj[id] ELSE link[id]]
  <2>1. open' = open \cup {new}
    BY <1>6 DEF Begin
  <2>2. IsFiniteSet(open')
    BY <2>1, FS_AddElement DEF OpenInv
  <2>3. new.op = op /\ new.id = id /\ new.row = IF op \in ObjectOps THEN obj[id] ELSE link[id]
    OBVIOUS
  <2>4. op \in ObjectOps => id \in Ods /\ Live(obj[id].st)
    BY <1>6 DEF Begin, Checks, Live, ObjectOps
  <2>5. op \notin ObjectOps => id \in Links
    BY <1>6 DEF Begin
  <2>6. op = "activateLink" => op \notin ObjectOps /\ link[id] = "pending"
    BY <1>6 DEF Begin, Checks, ObjectOps
  <2> HIDE DEF new
  <2>7. obj' = obj
    BY <1>6 DEF Begin
  <2> QED BY <2>1, <2>2, <2>3, <2>4, <2>5, <2>6, <2>7 DEF OpenInv, Live
<1>7. ASSUME NEW p \in Props, SaveProperty(p) PROVE OpenInv'
  BY <1>7, <1>kept DEF SaveProperty
<1>8. ASSUME NEW p \in Props, DeletePropertyBegin(p) PROVE OpenInv'
  BY <1>8, <1>kept DEF DeletePropertyBegin
<1>9. ASSUME NEW p \in Props, ReanchorKnowledge(p) PROVE OpenInv'
  BY <1>9, <1>kept DEF ReanchorKnowledge
<1>10. ASSUME NEW p \in Props, NEW b \in BOOLEAN, MarkProperty(p, b) PROVE OpenInv'
  BY <1>10, <1>kept DEF MarkProperty
<1>11. ASSUME NEW l \in Links, ProposeLink(l) PROVE OpenInv'
  BY <1>11, <1>kept DEF ProposeLink
<1>12. ASSUME NEW l \in Links, NEW st \in States, PageLink(l, st) PROVE OpenInv'
  BY <1>12, <1>kept DEF PageLink
<1>13. ASSUME InsertMissing PROVE OpenInv'
  BY <1>13, <1>kept DEF InsertMissing
<1>14. ASSUME NEW e \in edges, DeleteCausality(e) PROVE OpenInv'
  BY <1>14, <1>kept DEF DeleteCausality
<1>15. ASSUME NEW x \in open, Rollback(x) PROVE OpenInv'
  BY <1>15, <1>closed DEF Rollback, Close
<1>16. ASSUME NEW x \in open, ActivateOd(x), ~Rollback(x) PROVE OpenInv'
  BY <1>16, <1>closed DEF ActivateOd, Close
<1>17. ASSUME NEW x \in open, UpdateOd(x), ~Rollback(x) PROVE OpenInv'
  BY <1>17, <1>closed DEF UpdateOd, Close
<1>18. ASSUME NEW x \in open, x.op \in ObjectOps, StoreAligned(x) PROVE OpenInv'
  BY <1>18, <1>closed DEF StoreAligned, Close
<1>19. ASSUME NEW x \in open, NEW c \in BOOLEAN, DeleteOd(x, c) PROVE OpenInv'
  BY <1>19, <1>closed DEF DeleteOd, Close
<1>20. ASSUME NEW x \in open, ActivateLink(x), ~Rollback(x) PROVE OpenInv'
  BY <1>20, <1>closed DEF ActivateLink, Close
<1>21. ASSUME NEW x \in open, UpdateLink(x), ~Rollback(x) PROVE OpenInv'
  BY <1>21, <1>closed DEF UpdateLink, Close
<1>22. ASSUME NEW x \in open, DeleteLink(x) PROVE OpenInv'
  BY <1>22, <1>closed DEF DeleteLink, Close
<1>23. ASSUME NEW p \in Props, DeletePropertyEnd(p) PROVE OpenInv'
  BY <1>23, <1>kept DEF DeletePropertyEnd
<1>24. ASSUME NEW p \in Props, CreatorReads(p) PROVE OpenInv'
  BY <1>24, <1>kept DEF CreatorReads
<1>25. ASSUME NEW p \in Props, CreatorInserts(p) PROVE OpenInv'
  BY <1>25, <1>kept DEF CreatorInserts
<1>26. CASE UNCHANGED ontVars
  BY <1>26, <1>kept DEF ontVars
<1>27. CASE Arrives
  BY <1>27, <1>1, <1>2, <1>3, <1>4, <1>5, <1>6, <1>7, <1>8, <1>9, <1>10, <1>11, <1>12, <1>13,
      <1>14
      DEF Arrives, CreateObject, BulkCreateObjects, DeleteObject, BulkDeleteObjects, PatchObject,
          BulkUpdateObjects, SyncProperties, EnsurePropertyKnowledge
<1>28. CASE Commits
  <2> SUFFICES ASSUME NEW x \in open, ~Rollback(x),
                  \/ ActivateOd(x) \/ UpdateOd(x) \/ (x.op \in ObjectOps /\ StoreAligned(x))
                  \/ \E c \in BOOLEAN : DeleteOd(x, c)
                  \/ ActivateLink(x) \/ UpdateLink(x) \/ DeleteLink(x)
           PROVE  OpenInv'
    BY <1>28, <1>15 DEF Commits, SolidifySQL, TestCanonical, ObjectOps
  <2> QED BY <1>16, <1>17, <1>18, <1>19, <1>20, <1>21, <1>22
<1> QED BY <1>23, <1>24, <1>25, <1>26, <1>27, <1>28
      DEF OntNext

-----------------------------------------------------------------------------
(* States, knowledge and edges *)

\* ON DELETE CASCADE: a deletion of objects takes their properties and links along,
\* and nothing is inserted under an object that is not there.
LEMMA NextRows ==
    ASSUME OntologyConstants, Shape, OpenInv, RowsInv, [OntNext]_ontVars
    PROVE  RowsInv'
<1> USE DEF OntologyConstants, Shape, States, Live, RowsInv
<1>ends. \A l \in Links : Ends[l][1] \in Ods /\ Ends[l][2] \in Ods
  OBVIOUS
<1>frame. ASSUME \A o \in Ods : Live(obj[o].st) => Live(obj'[o].st),
                 \A p \in Props : Live(prop'[p]) => Live(prop[p]) \/ Live(obj'[Owner[p]].st),
                 \A l \in Links : Live(link'[l]) =>
                    Live(link[l]) \/ (Live(obj'[Ends[l][1]].st) /\ Live(obj'[Ends[l][2]].st))
          PROVE  RowsInv'
  BY <1>frame, <1>ends
<1>1. ASSUME NEW o \in Ods, NEW ps \in SUBSET Props, ProposeOd(o, ps) PROVE RowsInv'
  BY <1>1, <1>frame DEF ProposeOd
<1>2. ASSUME NEW os \in SUBSET Ods, InsertObjects(os) PROVE RowsInv'
  BY <1>2, <1>frame DEF InsertObjects
<1>3. ASSUME NEW o \in Ods, PutObject(o) PROVE RowsInv'
  BY <1>3, <1>frame DEF PutObject, Blame
<1>4. ASSUME NEW os \in SUBSET Ods, RemoveObjects(os) PROVE RowsInv'
  <2>1. \A o \in Ods : o \notin os => obj'[o] = obj[o]
    BY <1>4 DEF RemoveObjects
  <2>2. \A p \in Props : Live(prop'[p]) => Live(prop[p]) /\ Owner[p] \notin os
    BY <1>4 DEF RemoveObjects, PropsOf
  <2>3. \A l \in Links : Live(link'[l]) => Live(link[l]) /\ Ends[l][1] \notin os /\ Ends[l][2] \notin os
    BY <1>4 DEF RemoveObjects, LinksOf
  <2> QED BY <2>1, <2>2, <2>3, <1>ends
<1>5. ASSUME NEW os \in SUBSET Ods, NEW b \in BOOLEAN, MarkObjects(os, b) PROVE RowsInv'
  BY <1>5, <1>frame DEF MarkObjects, Marked, Blame
<1>6. ASSUME NEW op \in Ops, NEW id \in Subjects, Begin(op, id) PROVE RowsInv'
  BY <1>6, <1>frame DEF Begin
<1>7. ASSUME NEW p \in Props, SaveProperty(p) PROVE RowsInv'
  BY <1>7, <1>frame DEF SaveProperty
<1>8. ASSUME NEW p \in Props, DeletePropertyBegin(p) PROVE RowsInv'
  BY <1>8, <1>frame DEF DeletePropertyBegin
<1>9. ASSUME NEW p \in Props, ReanchorKnowledge(p) PROVE RowsInv'
  BY <1>9, <1>frame DEF ReanchorKnowledge, Blame
<1>10. ASSUME NEW p \in Props, NEW b \in BOOLEAN, MarkProperty(p, b) PROVE RowsInv'
  BY <1>10, <1>frame DEF MarkProperty, Marked, Blame
<1>11. ASSUME NEW l \in Links, ProposeLink(l) PROVE RowsInv'
  <2>1. Live(obj[Ends[l][1]].st) /\ Live(obj[Ends[l][2]].st)
    BY <1>11 DEF ProposeLink, PropsOf
  <2> QED BY <1>11, <2>1, <1>frame DEF ProposeLink
<1>12. ASSUME NEW l \in Links, NEW st \in States, PageLink(l, st) PROVE RowsInv'
  BY <1>12, <1>frame DEF PageLink
<1>13. ASSUME InsertMissing PROVE RowsInv'
  BY <1>13, <1>frame DEF InsertMissing
<1>14. ASSUME NEW e \in edges, DeleteCausality(e) PROVE RowsInv'
  BY <1>14, <1>frame DEF DeleteCausality
<1>15. ASSUME NEW x \in open, Rollback(x) PROVE RowsInv'
  BY <1>15, <1>frame DEF Rollback, Close
<1>16. ASSUME NEW x \in open, ActivateOd(x), ~Rollback(x) PROVE RowsInv'
  <2>1. /\ \A o \in Ods : Live(obj[o].st) => Live(obj'[o].st)
        /\ \A p \in Props : Live(prop'[p]) => Live(prop[p])
        /\ link' = link
    BY <1>16, ActivateEffect
  <2> QED BY <2>1, <1>frame
<1>17. ASSUME NEW x \in open, UpdateOd(x), ~Rollback(x) PROVE RowsInv'
  <2>1. /\ \A o \in Ods : Live(obj[o].st) => Live(obj'[o].st)
        /\ \A p \in Props : Live(prop'[p]) => Live(prop[p]) \/ Live(obj'[Owner[p]].st)
        /\ link' = link
    BY <1>17, UpdateEffect
  <2> QED BY <2>1, <1>frame
<1>18. ASSUME NEW x \in open, x.op \in ObjectOps, StoreAligned(x) PROVE RowsInv'
  <2>1. x.id \in Ods
    BY <1>18 DEF OpenInv
  <2>2. \A o \in Ods : obj'[o].st = obj[o].st
    BY <1>18, <2>1 DEF StoreAligned
  <2> QED BY <1>18, <2>2, <1>frame DEF StoreAligned
<1>19. ASSUME NEW x \in open, NEW c \in BOOLEAN, DeleteOd(x, c) PROVE RowsInv'
  <2>1. x.id \in Ods
    BY <1>19 DEF DeleteOd, OpenInv, ObjectOps
  <2>2. \A o \in Ods : o # x.id => obj'[o] = obj[o]
    BY <1>19, <2>1 DEF DeleteOd
  <2>3. \A p \in Props : Live(prop'[p]) => Live(prop[p]) /\ Owner[p] # x.id
    BY <1>19 DEF DeleteOd, CascadeProps, PropsOf
  <2>4. \A l \in Links : Live(link'[l]) => Live(link[l]) /\ x.id \notin {Ends[l][1], Ends[l][2]}
    BY <1>19 DEF DeleteOd, CascadeLinks, LinksOf
  <2> QED BY <2>2, <2>3, <2>4, <1>ends
<1>20. ASSUME NEW x \in open, ActivateLink(x), ~Rollback(x) PROVE RowsInv'
  <2>1. x.id \in Links /\ link' = [link EXCEPT ![x.id] = IF Live(@) THEN "active" ELSE @]
    BY <1>20 DEF ActivateLink, OpenInv, ObjectOps
  <2>2. \A l \in Links : Live(link'[l]) => Live(link[l])
    BY <2>1
  <2> QED BY <1>20, <2>2, <1>frame DEF ActivateLink
<1>21. ASSUME NEW x \in open, UpdateLink(x), ~Rollback(x) PROVE RowsInv'
  BY <1>21, <1>frame DEF UpdateLink, Close
<1>22. ASSUME NEW x \in open, DeleteLink(x) PROVE RowsInv'
  BY <1>22, <1>frame DEF DeleteLink, Close
<1>23. ASSUME NEW p \in Props, DeletePropertyEnd(p) PROVE RowsInv'
  BY <1>23, <1>frame DEF DeletePropertyEnd, Blame
<1>24. ASSUME NEW p \in Props, CreatorReads(p) PROVE RowsInv'
  BY <1>24, <1>frame DEF CreatorReads
<1>25. ASSUME NEW p \in Props, CreatorInserts(p) PROVE RowsInv'
  BY <1>25, <1>frame DEF CreatorInserts
<1>26. CASE UNCHANGED ontVars
  BY <1>26, <1>frame DEF ontVars
<1>27. CASE Arrives
  BY <1>27, <1>1, <1>2, <1>3, <1>4, <1>5, <1>6, <1>7, <1>8, <1>9, <1>10, <1>11, <1>12, <1>13,
      <1>14
      DEF Arrives, CreateObject, BulkCreateObjects, DeleteObject, BulkDeleteObjects, PatchObject,
          BulkUpdateObjects, SyncProperties, EnsurePropertyKnowledge
<1>28. CASE Commits
  <2> SUFFICES ASSUME NEW x \in open, ~Rollback(x),
                  \/ ActivateOd(x) \/ UpdateOd(x) \/ (x.op \in ObjectOps /\ StoreAligned(x))
                  \/ \E c \in BOOLEAN : DeleteOd(x, c)
                  \/ ActivateLink(x) \/ UpdateLink(x) \/ DeleteLink(x)
           PROVE  RowsInv'
    BY <1>28, <1>15 DEF Commits, SolidifySQL, TestCanonical, ObjectOps
  <2> QED BY <1>16, <1>17, <1>18, <1>19, <1>20, <1>21, <1>22
<1> QED BY <1>23, <1>24, <1>25, <1>26, <1>27, <1>28
      DEF OntNext

\* Whoever deletes a property leaves word of it, or deletes its object too.
LEMMA NextDrop ==
    ASSUME OntologyConstants, Shape, OpenInv, RowsInv, DropInv, [OntNext]_ontVars
    PROVE  DropInv'
<1> USE DEF OntologyConstants, Shape, States, Live
<1>frame. ASSUME \A p \in Props : prop'[p] = "gone" /\ prop[p] # "gone" =>
                    obj'[Owner[p]].st = "gone" \/ "drop_property" \in cause'[Owner[p]]
          PROVE  DropInv'
  <2>1. Forward
    BY NextForward DEF Live
  <2> QED BY <2>1, <1>frame DEF DropInv, Forward
<1>1. ASSUME NEW o \in Ods, NEW ps \in SUBSET Props, ProposeOd(o, ps) PROVE DropInv'
  BY <1>1, <1>frame DEF ProposeOd
<1>2. ASSUME NEW os \in SUBSET Ods, InsertObjects(os) PROVE DropInv'
  BY <1>2, <1>frame DEF InsertObjects
<1>3. ASSUME NEW o \in Ods, PutObject(o) PROVE DropInv'
  BY <1>3, <1>frame DEF PutObject, Blame
<1>4. ASSUME NEW os \in SUBSET Ods, RemoveObjects(os) PROVE DropInv'
  <2>1. \A o \in os : Live(obj[o].st) => obj'[o].st = "gone"
    BY <1>4 DEF RemoveObjects
  <2>2. \A p \in Props : prop'[p] = "gone" /\ prop[p] # "gone" => Owner[p] \in os /\ Live(obj[Owner[p]].st)
    BY <1>4 DEF RemoveObjects, PropsOf, RowsInv
  <2> QED BY <2>1, <2>2, <1>frame
<1>5. ASSUME NEW os \in SUBSET Ods, NEW b \in BOOLEAN, MarkObjects(os, b) PROVE DropInv'
  BY <1>5, <1>frame DEF MarkObjects, Marked, Blame
<1>6. ASSUME NEW op \in Ops, NEW id \in Subjects, Begin(op, id) PROVE DropInv'
  BY <1>6, <1>frame DEF Begin
<1>7. ASSUME NEW p \in Props, SaveProperty(p) PROVE DropInv'
  BY <1>7, <1>frame DEF SaveProperty
<1>8. ASSUME NEW p \in Props, DeletePropertyBegin(p) PROVE DropInv'
  BY <1>8, <1>frame DEF DeletePropertyBegin
<1>9. ASSUME NEW p \in Props, ReanchorKnowledge(p) PROVE DropInv'
  BY <1>9, <1>frame DEF ReanchorKnowledge, Blame
<1>10. ASSUME NEW p \in Props, NEW b \in BOOLEAN, MarkProperty(p, b) PROVE DropInv'
  BY <1>10, <1>frame DEF MarkProperty, Marked, Blame
<1>11. ASSUME NEW l \in Links, ProposeLink(l) PROVE DropInv'
  BY <1>11, <1>frame DEF ProposeLink
<1>12. ASSUME NEW l \in Links, NEW st \in States, PageLink(l, st) PROVE DropInv'
  BY <1>12, <1>frame DEF PageLink
<1>13. ASSUME InsertMissing PROVE DropInv'
  BY <1>13, <1>frame DEF InsertMissing
<1>14. ASSUME NEW e \in edges, DeleteCausality(e) PROVE DropInv'
  BY <1>14, <1>frame DEF DeleteCausality
<1>15. ASSUME NEW x \in open, Rollback(x) PROVE DropInv'
  BY <1>15, <1>frame DEF Rollback, Close
<1>16. ASSUME NEW x \in open, ActivateOd(x), ~Rollback(x) PROVE DropInv'
  <2>1. \A p \in Props : prop'[p] = "gone" => prop[p] = "gone"
    BY <1>16, ActivateEffect
  <2> QED BY <2>1, <1>frame
<1>17. ASSUME NEW x \in open, UpdateOd(x), ~Rollback(x) PROVE DropInv'
  BY <1>17, UpdateEffect, <1>frame
<1>18. ASSUME NEW x \in open, x.op \in ObjectOps, StoreAligned(x) PROVE DropInv'
  BY <1>18, <1>frame DEF StoreAligned, Close, Blame
<1>19. ASSUME NEW x \in open, NEW c \in BOOLEAN, DeleteOd(x, c) PROVE DropInv'
  <2>1. x.id \in Ods /\ obj'[x.id].st = "gone"
    BY <1>19 DEF DeleteOd, OpenInv, ObjectOps
  <2>2. \A p \in Props : prop'[p] = "gone" /\ prop[p] # "gone" => Owner[p] = x.id
    BY <1>19 DEF DeleteOd, CascadeProps, PropsOf
  <2> QED BY <2>1, <2>2, <1>frame
<1>20. ASSUME NEW x \in open, ActivateLink(x), ~Rollback(x) PROVE DropInv'
  BY <1>20, <1>frame DEF ActivateLink, Close, Blame
<1>21. ASSUME NEW x \in open, UpdateLink(x), ~Rollback(x) PROVE DropInv'
  BY <1>21, <1>frame DEF UpdateLink, Close
<1>22. ASSUME NEW x \in open, DeleteLink(x) PROVE DropInv'
  BY <1>22, <1>frame DEF DeleteLink, Close
<1>23. ASSUME NEW p \in Props, DeletePropertyEnd(p) PROVE DropInv'
  BY <1>23, <1>frame DEF DeletePropertyEnd, Blame
<1>24. ASSUME NEW p \in Props, CreatorReads(p) PROVE DropInv'
  BY <1>24, <1>frame DEF CreatorReads
<1>25. ASSUME NEW p \in Props, CreatorInserts(p) PROVE DropInv'
  BY <1>25, <1>frame DEF CreatorInserts
<1>26. CASE UNCHANGED ontVars
  BY <1>26, <1>frame DEF ontVars
<1>27. CASE Arrives
  BY <1>27, <1>1, <1>2, <1>3, <1>4, <1>5, <1>6, <1>7, <1>8, <1>9, <1>10, <1>11, <1>12, <1>13,
      <1>14
      DEF Arrives, CreateObject, BulkCreateObjects, DeleteObject, BulkDeleteObjects, PatchObject,
          BulkUpdateObjects, SyncProperties, EnsurePropertyKnowledge
<1>28. CASE Commits
  <2> SUFFICES ASSUME NEW x \in open, ~Rollback(x),
                  \/ ActivateOd(x) \/ UpdateOd(x) \/ (x.op \in ObjectOps /\ StoreAligned(x))
                  \/ \E c \in BOOLEAN : DeleteOd(x, c)
                  \/ ActivateLink(x) \/ UpdateLink(x) \/ DeleteLink(x)
           PROVE  DropInv'
    BY <1>28, <1>15 DEF Commits, SolidifySQL, TestCanonical, ObjectOps
  <2> QED BY <1>16, <1>17, <1>18, <1>19, <1>20, <1>21, <1>22
<1> QED BY <1>23, <1>24, <1>25, <1>26, <1>27, <1>28
      DEF OntNext

\* An edge lives as long as the knowledge rows it joins, and knowledge is written
\* for properties that were read.
LEMMA NextKnow ==
    ASSUME OntologyConstants, Shape, OpenInv, KnowInv, [OntNext]_ontVars
    PROVE  KnowInv'
<1> USE DEF OntologyConstants, Shape, States, Live
<1>frame. ASSUME \A e \in edges' : e[1] \in know' /\ e[2] \in know',
                 \A p \in know' : p \in Props /\ (p \in know \/ prop[p] # "none"),
                 \A c \in creating' : c[1] \in Props /\ (c \in creating \/ prop'[c[1]] # "none")
          PROVE  KnowInv'
  <2>1. Forward
    BY NextForward DEF Live
  <2> QED BY <2>1, <1>frame DEF KnowInv, Forward
<1>typed. /\ \A c \in creating : c[1] \in Props
          /\ \A e \in edges : e[1] \in Props /\ e[2] \in Props
  OBVIOUS
<1>1. ASSUME NEW o \in Ods, NEW ps \in SUBSET Props, ProposeOd(o, ps) PROVE KnowInv'
  BY <1>1, <1>frame, <1>typed DEF KnowInv, ProposeOd
<1>2. ASSUME NEW os \in SUBSET Ods, InsertObjects(os) PROVE KnowInv'
  BY <1>2, <1>frame, <1>typed DEF KnowInv, InsertObjects
<1>3. ASSUME NEW o \in Ods, PutObject(o) PROVE KnowInv'
  BY <1>3, <1>frame, <1>typed DEF KnowInv, PutObject
<1>4. ASSUME NEW os \in SUBSET Ods, RemoveObjects(os) PROVE KnowInv'
  BY <1>4, <1>frame, <1>typed DEF KnowInv, RemoveObjects
<1>5. ASSUME NEW os \in SUBSET Ods, NEW b \in BOOLEAN, MarkObjects(os, b) PROVE KnowInv'
  BY <1>5, <1>frame, <1>typed DEF KnowInv, MarkObjects
<1>6. ASSUME NEW op \in Ops, NEW id \in Subjects, Begin(op, id) PROVE KnowInv'
  BY <1>6, <1>frame, <1>typed DEF KnowInv, Begin
<1>7. ASSUME NEW p \in Props, SaveProperty(p) PROVE KnowInv'
  <2>1. creating' = creating \cup {<<p, "read">>} /\ prop'[p] # "none" /\ UNCHANGED <<know, edges>>
    BY <1>7 DEF SaveProperty
  <2> QED BY <2>1, <1>frame, <1>typed DEF KnowInv
<1>8. ASSUME NEW p \in Props, DeletePropertyBegin(p) PROVE KnowInv'
  BY <1>8, <1>frame, <1>typed DEF KnowInv, DeletePropertyBegin, EdgesWithout
<1>9. ASSUME NEW p \in Props, ReanchorKnowledge(p) PROVE KnowInv'
  BY <1>9, <1>frame, <1>typed DEF KnowInv, ReanchorKnowledge, EdgesWithout
<1>10. ASSUME NEW p \in Props, NEW b \in BOOLEAN, MarkProperty(p, b) PROVE KnowInv'
  BY <1>10, <1>frame, <1>typed DEF KnowInv, MarkProperty
<1>11. ASSUME NEW l \in Links, ProposeLink(l) PROVE KnowInv'
  BY <1>11, <1>frame, <1>typed DEF KnowInv, ProposeLink
<1>12. ASSUME NEW l \in Links, NEW st \in States, PageLink(l, st) PROVE KnowInv'
  BY <1>12, <1>frame, <1>typed DEF KnowInv, PageLink
<1>13. ASSUME InsertMissing PROVE KnowInv'
  <2>1. \A c \in creating' : c \in creating \/ (c[1] \in Props /\ Live(prop[c[1]]))
    BY <1>13 DEF InsertMissing
  <2>2. UNCHANGED <<prop, know, edges>>
    BY <1>13 DEF InsertMissing
  <2> QED BY <2>1, <2>2, <1>frame, <1>typed DEF KnowInv
<1>14. ASSUME NEW e \in edges, DeleteCausality(e) PROVE KnowInv'
  BY <1>14, <1>frame, <1>typed DEF KnowInv, DeleteCausality
<1>15. ASSUME NEW x \in open, Rollback(x) PROVE KnowInv'
  BY <1>15, <1>frame, <1>typed DEF KnowInv, Rollback
<1>16. ASSUME NEW x \in open, ActivateOd(x), ~Rollback(x) PROVE KnowInv'
  <2>1. know' = know \cup PropsOf(x.id) /\ UNCHANGED <<edges, creating>>
    BY <1>16, ActivateEffect
  <2> QED BY <2>1, <1>frame, <1>typed DEF KnowInv, PropsOf
<1>17. ASSUME NEW x \in open, UpdateOd(x), ~Rollback(x) PROVE KnowInv'
  <2>1. UNCHANGED <<know, edges, creating>>
    BY <1>17, UpdateEffect
  <2> QED BY <2>1, <1>frame, <1>typed DEF KnowInv
<1>18. ASSUME NEW x \in open, x.op \in ObjectOps, StoreAligned(x) PROVE KnowInv'
  BY <1>18, <1>frame, <1>typed DEF KnowInv, StoreAligned
<1>19. ASSUME NEW x \in open, NEW c \in BOOLEAN, DeleteOd(x, c) PROVE KnowInv'
  BY <1>19, <1>frame, <1>typed DEF KnowInv, DeleteOd
<1>20. ASSUME NEW x \in open, ActivateLink(x), ~Rollback(x) PROVE KnowInv'
  <2>1. PICK a \in Props, b \in Props : /\ CanEnsure(a) /\ CanEnsure(b)
                                        /\ know' = know \cup {a, b} /\ edges' = edges \cup {<<a, b>>}
    BY <1>20 DEF ActivateLink
  <2>2. prop[a] # "none" /\ prop[b] # "none"
    BY <2>1 DEF CanEnsure, KnowInv
  <2>3. creating' = creating
    BY <1>20 DEF ActivateLink
  <2>4. \A e \in edges' : e[1] \in know' /\ e[2] \in know'
    BY <2>1 DEF KnowInv
  <2> QED BY <2>1, <2>2, <2>3, <2>4, <1>frame, <1>typed DEF KnowInv
<1>21. ASSUME NEW x \in open, UpdateLink(x), ~Rollback(x) PROVE KnowInv'
  <2>1. PICK new \in SUBSET (PropsOf(Ends[x.id][1]) \X PropsOf(Ends[x.id][2])) :
          /\ edges' = (edges \ EdgesBetween(x.id)) \cup new
          /\ know' = know \cup UNION {{e[1], e[2]} : e \in new}
    BY <1>21 DEF UpdateLink
  <2>2. \A e \in new : e[1] \in Props /\ e[2] \in Props /\ prop[e[1]] # "none" /\ prop[e[2]] # "none"
    BY DEF PropsOf
  <2>3. \A e \in new : e[1] \in know' /\ e[2] \in know'
    BY <2>1
  <2>4. \A q \in know' : q \in know \/ \E e \in new : q \in {e[1], e[2]}
    BY <2>1
  <2>5. creating' = creating
    BY <1>21 DEF UpdateLink
  <2> QED BY <2>1, <2>2, <2>3, <2>4, <2>5, <1>frame, <1>typed DEF KnowInv
<1>22. ASSUME NEW x \in open, DeleteLink(x) PROVE KnowInv'
  BY <1>22, <1>frame, <1>typed DEF KnowInv, DeleteLink
<1>23. ASSUME NEW p \in Props, DeletePropertyEnd(p) PROVE KnowInv'
  BY <1>23, <1>frame, <1>typed DEF KnowInv, DeletePropertyEnd
<1>24. ASSUME NEW p \in Props, CreatorReads(p) PROVE KnowInv'
  <2>1. <<p, "read">> \in creating /\ UNCHANGED <<prop, know, edges>>
    BY <1>24 DEF CreatorReads
  <2>2. \A c \in creating' : c \in creating \/ c = <<p, "insert">>
    BY <1>24 DEF CreatorReads
  <2>3. prop[p] # "none"
    BY <2>1 DEF KnowInv
  <2> QED BY <2>1, <2>2, <2>3, <1>frame, <1>typed DEF KnowInv
<1>25. ASSUME NEW p \in Props, CreatorInserts(p) PROVE KnowInv'
  <2>1. <<p, "insert">> \in creating /\ know' = know \cup {p} /\ creating' \subseteq creating /\ UNCHANGED <<prop, edges>>
    BY <1>25 DEF CreatorInserts
  <2>2. prop[p] # "none"
    BY <2>1 DEF KnowInv
  <2> QED BY <2>1, <2>2, <1>frame, <1>typed DEF KnowInv
<1>26. CASE UNCHANGED ontVars
  BY <1>26, <1>frame, <1>typed DEF KnowInv, ontVars
<1>27. CASE Arrives
  BY <1>27, <1>1, <1>2, <1>3, <1>4, <1>5, <1>6, <1>7, <1>8, <1>9, <1>10, <1>11, <1>12, <1>13,
      <1>14
      DEF Arrives, CreateObject, BulkCreateObjects, DeleteObject, BulkDeleteObjects, PatchObject,
          BulkUpdateObjects, SyncProperties, EnsurePropertyKnowledge
<1>28. CASE Commits
  <2> SUFFICES ASSUME NEW x \in open, ~Rollback(x),
                  \/ ActivateOd(x) \/ UpdateOd(x) \/ (x.op \in ObjectOps /\ StoreAligned(x))
                  \/ \E c \in BOOLEAN : DeleteOd(x, c)
                  \/ ActivateLink(x) \/ UpdateLink(x) \/ DeleteLink(x)
           PROVE  KnowInv'
    BY <1>28, <1>15 DEF Commits, SolidifySQL, TestCanonical, ObjectOps
  <2> QED BY <1>16, <1>17, <1>18, <1>19, <1>20, <1>21, <1>22
<1> QED BY <1>23, <1>24, <1>25, <1>26, <1>27, <1>28
      DEF OntNext

-----------------------------------------------------------------------------
(* The properties *)

\* A query that is no longer that of the text has one of the named causes: the
\* activation builds it from the text it stores, the update clears it.
LEMMA NextStale ==
    ASSUME OntologyConstants, Shape, OpenInv, StaleCanonicalHasACause, [OntNext]_ontVars
    PROVE  StaleCanonicalHasACause'
<1> USE DEF OntologyConstants, Shape, States, Live
<1>frame. ASSUME \A o \in Ods :
                    \/ obj'[o].st # "active"
                    \/ obj'[o].st = obj[o].st /\ obj'[o].canon = obj[o].canon /\ obj'[o].sql = obj[o].sql
                    \/ obj'[o].canon \in {0, obj'[o].sql}
                    \/ cause'[o] \cap {"page_edit", "page_mark", "overlap"} # {}
          PROVE  StaleCanonicalHasACause'
  <2>1. Forward
    BY NextForward DEF Live
  <2> QED BY <2>1, <1>frame DEF StaleCanonicalHasACause, Forward
<1>1. ASSUME NEW o \in Ods, NEW ps \in SUBSET Props, ProposeOd(o, ps) PROVE StaleCanonicalHasACause'
  BY <1>1, <1>frame DEF ProposeOd
<1>2. ASSUME NEW os \in SUBSET Ods, InsertObjects(os) PROVE StaleCanonicalHasACause'
  BY <1>2, <1>frame DEF InsertObjects
<1>3. ASSUME NEW o \in Ods, PutObject(o) PROVE StaleCanonicalHasACause'
  <2>1. "page_edit" \in cause'[o]
    BY <1>3 DEF PutObject, Blame
  <2>2. \A o2 \in Ods : o2 # o => obj'[o2] = obj[o2]
    BY <1>3 DEF PutObject
  <2> QED BY <2>1, <2>2, <1>frame
<1>4. ASSUME NEW os \in SUBSET Ods, RemoveObjects(os) PROVE StaleCanonicalHasACause'
  BY <1>4, <1>frame DEF RemoveObjects, Blame
<1>5. ASSUME NEW os \in SUBSET Ods, NEW b \in BOOLEAN, MarkObjects(os, b) PROVE StaleCanonicalHasACause'
  <2>1. \A o \in Ods : (o \in os /\ "page_mark" \in cause'[o]) \/ (o \notin os /\ obj'[o] = obj[o])
    BY <1>5 DEF MarkObjects, Blame
  <2> QED BY <2>1, <1>frame
<1>6. ASSUME NEW op \in Ops, NEW id \in Subjects, Begin(op, id) PROVE StaleCanonicalHasACause'
  BY <1>6, <1>frame DEF Begin
<1>7. ASSUME NEW p \in Props, SaveProperty(p) PROVE StaleCanonicalHasACause'
  BY <1>7, <1>frame DEF SaveProperty
<1>8. ASSUME NEW p \in Props, DeletePropertyBegin(p) PROVE StaleCanonicalHasACause'
  BY <1>8, <1>frame DEF DeletePropertyBegin
<1>9. ASSUME NEW p \in Props, ReanchorKnowledge(p) PROVE StaleCanonicalHasACause'
  BY <1>9, <1>frame DEF ReanchorKnowledge, Blame
<1>10. ASSUME NEW p \in Props, NEW b \in BOOLEAN, MarkProperty(p, b) PROVE StaleCanonicalHasACause'
  BY <1>10, <1>frame DEF MarkProperty, Marked, Blame
<1>11. ASSUME NEW l \in Links, ProposeLink(l) PROVE StaleCanonicalHasACause'
  BY <1>11, <1>frame DEF ProposeLink
<1>12. ASSUME NEW l \in Links, NEW st \in States, PageLink(l, st) PROVE StaleCanonicalHasACause'
  BY <1>12, <1>frame DEF PageLink
<1>13. ASSUME InsertMissing PROVE StaleCanonicalHasACause'
  BY <1>13, <1>frame DEF InsertMissing
<1>14. ASSUME NEW e \in edges, DeleteCausality(e) PROVE StaleCanonicalHasACause'
  BY <1>14, <1>frame DEF DeleteCausality
<1>15. ASSUME NEW x \in open, Rollback(x) PROVE StaleCanonicalHasACause'
  BY <1>15, <1>frame DEF Rollback, Close
<1>16. ASSUME NEW x \in open, ActivateOd(x), ~Rollback(x) PROVE StaleCanonicalHasACause'
  <2>1. /\ x.id \in Ods /\ obj'[x.id].canon = obj'[x.id].sql
        /\ \A o \in Ods : o # x.id => obj'[o] = obj[o]
    BY <1>16, ActivateEffect
  <2> QED BY <2>1, <1>frame
<1>17. ASSUME NEW x \in open, UpdateOd(x), ~Rollback(x) PROVE StaleCanonicalHasACause'
  <2>1. /\ x.id \in Ods /\ obj'[x.id].st = obj[x.id].st
        /\ \/ obj'[x.id].canon = obj[x.id].canon /\ obj'[x.id].sql = obj[x.id].sql
           \/ obj'[x.id].canon = 0
           \/ obj'[x.id].canon = obj[x.id].canon /\ ~(x.row.st = "active" /\ x.row.canon # 0)
        /\ \A o \in Ods : o # x.id => obj'[o] = obj[o]
        /\ x.row # obj[x.id] => "overlap" \in cause'[x.id]
    BY <1>17, UpdateEffect
  <2>2. CASE x.row = obj[x.id]
    BY <2>1, <2>2, <1>frame
  <2>3. CASE x.row # obj[x.id]
    BY <2>1, <2>3, <1>frame
  <2> QED BY <2>2, <2>3
<1>18. ASSUME NEW x \in open, x.op \in ObjectOps, StoreAligned(x) PROVE StaleCanonicalHasACause'
  <2>1. x.id \in Ods /\ x.row \in Object
    BY <1>18 DEF OpenInv
  <2>2. /\ obj'[x.id].canon = x.row.sql /\ obj'[x.id].sql = obj[x.id].sql
        /\ \A o \in Ods : o # x.id => obj'[o] = obj[o]
    BY <1>18, <2>1 DEF StoreAligned, Object
  <2>3. x.row.sql = obj[x.id].sql \/ "overlap" \in cause'[x.id]
    BY <1>18, <2>1 DEF StoreAligned, Blame
  <2> QED BY <2>2, <2>3, <1>frame
<1>19. ASSUME NEW x \in open, NEW c \in BOOLEAN, DeleteOd(x, c) PROVE StaleCanonicalHasACause'
  <2>1. x.id \in Ods
    BY <1>19 DEF DeleteOd, OpenInv, ObjectOps
  <2>2. obj'[x.id].st = "gone" /\ \A o \in Ods : o # x.id => obj'[o] = obj[o]
    BY <1>19, <2>1 DEF DeleteOd
  <2> QED BY <2>2, <1>frame
<1>20. ASSUME NEW x \in open, ActivateLink(x), ~Rollback(x) PROVE StaleCanonicalHasACause'
  BY <1>20, <1>frame DEF ActivateLink, Close, Blame
<1>21. ASSUME NEW x \in open, UpdateLink(x), ~Rollback(x) PROVE StaleCanonicalHasACause'
  BY <1>21, <1>frame DEF UpdateLink, Close
<1>22. ASSUME NEW x \in open, DeleteLink(x) PROVE StaleCanonicalHasACause'
  BY <1>22, <1>frame DEF DeleteLink, Close
<1>23. ASSUME NEW p \in Props, DeletePropertyEnd(p) PROVE StaleCanonicalHasACause'
  BY <1>23, <1>frame DEF DeletePropertyEnd, Blame
<1>24. ASSUME NEW p \in Props, CreatorReads(p) PROVE StaleCanonicalHasACause'
  BY <1>24, <1>frame DEF CreatorReads
<1>25. ASSUME NEW p \in Props, CreatorInserts(p) PROVE StaleCanonicalHasACause'
  BY <1>25, <1>frame DEF CreatorInserts
<1>26. CASE UNCHANGED ontVars
  BY <1>26, <1>frame DEF ontVars
<1>27. CASE Arrives
  BY <1>27, <1>1, <1>2, <1>3, <1>4, <1>5, <1>6, <1>7, <1>8, <1>9, <1>10, <1>11, <1>12, <1>13,
      <1>14
      DEF Arrives, CreateObject, BulkCreateObjects, DeleteObject, BulkDeleteObjects, PatchObject,
          BulkUpdateObjects, SyncProperties, EnsurePropertyKnowledge
<1>28. CASE Commits
  <2> SUFFICES ASSUME NEW x \in open, ~Rollback(x),
                  \/ ActivateOd(x) \/ UpdateOd(x) \/ (x.op \in ObjectOps /\ StoreAligned(x))
                  \/ \E c \in BOOLEAN : DeleteOd(x, c)
                  \/ ActivateLink(x) \/ UpdateLink(x) \/ DeleteLink(x)
           PROVE  StaleCanonicalHasACause'
    BY <1>28, <1>15 DEF Commits, SolidifySQL, TestCanonical, ObjectOps
  <2> QED BY <1>16, <1>17, <1>18, <1>19, <1>20, <1>21, <1>22
<1> QED BY <1>23, <1>24, <1>25, <1>26, <1>27, <1>28
      DEF OntNext

\* An active property without knowledge has one of the named causes: activateOd
\* writes the knowledge of everything it marks.
LEMMA NextKnown ==
    ASSUME OntologyConstants, Shape, OpenInv, ActivePropertyIsKnown, [OntNext]_ontVars
    PROVE  ActivePropertyIsKnown'
<1> USE DEF OntologyConstants, Shape, States, Live
<1>frame. ASSUME \A p \in Props : prop'[p] = "active" /\ p \notin know' =>
                    \/ prop[p] = "active" /\ p \notin know /\ (p \in deleting => p \in deleting')
                    \/ p \in deleting'
                    \/ cause'[Owner[p]] \cap {"page_mark", "page_knowledge", "add_active"} # {}
          PROVE  ActivePropertyIsKnown'
  <2>1. Forward
    BY NextForward DEF Live
  <2> QED BY <2>1, <1>frame DEF ActivePropertyIsKnown, Forward
<1>1. ASSUME NEW o \in Ods, NEW ps \in SUBSET Props, ProposeOd(o, ps) PROVE ActivePropertyIsKnown'
  BY <1>1, <1>frame DEF ProposeOd
<1>2. ASSUME NEW os \in SUBSET Ods, InsertObjects(os) PROVE ActivePropertyIsKnown'
  BY <1>2, <1>frame DEF InsertObjects
<1>3. ASSUME NEW o \in Ods, PutObject(o) PROVE ActivePropertyIsKnown'
  BY <1>3, <1>frame DEF PutObject, Blame
<1>4. ASSUME NEW os \in SUBSET Ods, RemoveObjects(os) PROVE ActivePropertyIsKnown'
  <2>1. \A p \in Props : prop'[p] \in {prop[p], "gone"}
    BY <1>4 DEF RemoveObjects
  <2> QED BY <1>4, <2>1, <1>frame DEF RemoveObjects
<1>5. ASSUME NEW os \in SUBSET Ods, NEW b \in BOOLEAN, MarkObjects(os, b) PROVE ActivePropertyIsKnown'
  BY <1>5, <1>frame DEF MarkObjects, Marked, Blame
<1>6. ASSUME NEW op \in Ops, NEW id \in Subjects, Begin(op, id) PROVE ActivePropertyIsKnown'
  BY <1>6, <1>frame DEF Begin
<1>7. ASSUME NEW p \in Props, SaveProperty(p) PROVE ActivePropertyIsKnown'
  BY <1>7, <1>frame DEF SaveProperty
<1>8. ASSUME NEW p \in Props, DeletePropertyBegin(p) PROVE ActivePropertyIsKnown'
  BY <1>8, <1>frame DEF DeletePropertyBegin
<1>9. ASSUME NEW p \in Props, ReanchorKnowledge(p) PROVE ActivePropertyIsKnown'
  BY <1>9, <1>frame DEF ReanchorKnowledge, Blame
<1>10. ASSUME NEW p \in Props, NEW b \in BOOLEAN, MarkProperty(p, b) PROVE ActivePropertyIsKnown'
  BY <1>10, <1>frame DEF MarkProperty, Marked, Blame
<1>11. ASSUME NEW l \in Links, ProposeLink(l) PROVE ActivePropertyIsKnown'
  BY <1>11, <1>frame DEF ProposeLink
<1>12. ASSUME NEW l \in Links, NEW st \in States, PageLink(l, st) PROVE ActivePropertyIsKnown'
  BY <1>12, <1>frame DEF PageLink
<1>13. ASSUME InsertMissing PROVE ActivePropertyIsKnown'
  BY <1>13, <1>frame DEF InsertMissing
<1>14. ASSUME NEW e \in edges, DeleteCausality(e) PROVE ActivePropertyIsKnown'
  BY <1>14, <1>frame DEF DeleteCausality
<1>15. ASSUME NEW x \in open, Rollback(x) PROVE ActivePropertyIsKnown'
  BY <1>15, <1>frame DEF Rollback, Close
<1>16. ASSUME NEW x \in open, ActivateOd(x), ~Rollback(x) PROVE ActivePropertyIsKnown'
  <2>1. /\ \A p \in Props : prop'[p] = IF Owner[p] = x.id /\ Live(prop[p]) THEN "active" ELSE prop[p]
        /\ know' = know \cup PropsOf(x.id) /\ deleting' = deleting
    BY <1>16, ActivateEffect DEF Live
  <2> QED BY <2>1, <1>frame DEF PropsOf
<1>17. ASSUME NEW x \in open, UpdateOd(x), ~Rollback(x) PROVE ActivePropertyIsKnown'
  <2>1. /\ \A p \in Props :
              \/ prop'[p] = prop[p]
              \/ Owner[p] = x.id /\ prop'[p] = x.row.st /\ (x.row.st = "active" => "add_active" \in cause'[x.id])
              \/ prop'[p] = "gone"
        /\ UNCHANGED <<know, deleting>>
    BY <1>17, UpdateEffect DEF Live
  <2> QED BY <2>1, <1>frame
<1>18. ASSUME NEW x \in open, x.op \in ObjectOps, StoreAligned(x) PROVE ActivePropertyIsKnown'
  BY <1>18, <1>frame DEF StoreAligned, Close, Blame
<1>19. ASSUME NEW x \in open, NEW c \in BOOLEAN, DeleteOd(x, c) PROVE ActivePropertyIsKnown'
  <2>1. \A p \in Props : prop'[p] \in {prop[p], "gone"}
    BY <1>19 DEF DeleteOd, CascadeProps
  <2> QED BY <1>19, <2>1, <1>frame DEF DeleteOd
<1>20. ASSUME NEW x \in open, ActivateLink(x), ~Rollback(x) PROVE ActivePropertyIsKnown'
  BY <1>20, <1>frame DEF ActivateLink, Close, Blame
<1>21. ASSUME NEW x \in open, UpdateLink(x), ~Rollback(x) PROVE ActivePropertyIsKnown'
  <2>1. know \subseteq know' /\ UNCHANGED <<prop, deleting>>
    BY <1>21 DEF UpdateLink
  <2> QED BY <2>1, <1>frame
<1>22. ASSUME NEW x \in open, DeleteLink(x) PROVE ActivePropertyIsKnown'
  BY <1>22, <1>frame DEF DeleteLink, Close
<1>23. ASSUME NEW p \in Props, DeletePropertyEnd(p) PROVE ActivePropertyIsKnown'
  BY <1>23, <1>frame DEF DeletePropertyEnd, Blame
<1>24. ASSUME NEW p \in Props, CreatorReads(p) PROVE ActivePropertyIsKnown'
  BY <1>24, <1>frame DEF CreatorReads
<1>25. ASSUME NEW p \in Props, CreatorInserts(p) PROVE ActivePropertyIsKnown'
  BY <1>25, <1>frame DEF CreatorInserts
<1>26. CASE UNCHANGED ontVars
  BY <1>26, <1>frame DEF ontVars
<1>27. CASE Arrives
  BY <1>27, <1>1, <1>2, <1>3, <1>4, <1>5, <1>6, <1>7, <1>8, <1>9, <1>10, <1>11, <1>12, <1>13,
      <1>14
      DEF Arrives, CreateObject, BulkCreateObjects, DeleteObject, BulkDeleteObjects, PatchObject,
          BulkUpdateObjects, SyncProperties, EnsurePropertyKnowledge
<1>28. CASE Commits
  <2> SUFFICES ASSUME NEW x \in open, ~Rollback(x),
                  \/ ActivateOd(x) \/ UpdateOd(x) \/ (x.op \in ObjectOps /\ StoreAligned(x))
                  \/ \E c \in BOOLEAN : DeleteOd(x, c)
                  \/ ActivateLink(x) \/ UpdateLink(x) \/ DeleteLink(x)
           PROVE  ActivePropertyIsKnown'
    BY <1>28, <1>15 DEF Commits, SolidifySQL, TestCanonical, ObjectOps
  <2> QED BY <1>16, <1>17, <1>18, <1>19, <1>20, <1>21, <1>22
<1> QED BY <1>23, <1>24, <1>25, <1>26, <1>27, <1>28
      DEF OntNext

\* An edge at a deleted OD has one of the named causes: delete_od removes those at
\* the properties it has, and later ones need a link the deletion has removed.
LEMMA NextDeleted ==
    ASSUME OntologyConstants, Shape, OpenInv, RowsInv, DropInv, KnowInv,
           DeletedOdJoinsNothing, [OntNext]_ontVars
    PROVE  DeletedOdJoinsNothing'
<1> USE DEF OntologyConstants, Shape, States, Live
<1>typed. \A e \in edges : e[1] \in Props /\ e[2] \in Props
  OBVIOUS
<1>frame. ASSUME \A e \in edges', o \in Ods : obj'[o].st = "gone" /\ o \in {Owner[e[1]], Owner[e[2]]} =>
                    \/ e \in edges /\ obj[o].st = "gone"
                    \/ cause'[o] \cap {"page_delete", "drop_property", "overlap"} # {}
          PROVE  DeletedOdJoinsNothing'
  <2>1. Forward
    BY NextForward DEF Live
  <2> QED BY <2>1, <1>frame DEF DeletedOdJoinsNothing, Forward
<1>1. ASSUME NEW o \in Ods, NEW ps \in SUBSET Props, ProposeOd(o, ps) PROVE DeletedOdJoinsNothing'
  BY <1>1, <1>frame DEF ProposeOd
<1>2. ASSUME NEW os \in SUBSET Ods, InsertObjects(os) PROVE DeletedOdJoinsNothing'
  BY <1>2, <1>frame DEF InsertObjects
<1>3. ASSUME NEW o \in Ods, PutObject(o) PROVE DeletedOdJoinsNothing'
  BY <1>3, <1>frame DEF PutObject, Blame
<1>4. ASSUME NEW os \in SUBSET Ods, RemoveObjects(os) PROVE DeletedOdJoinsNothing'
  <2>1. edges' = edges /\ \A o \in Ods : obj'[o] = obj[o] \/ "page_delete" \in cause'[o]
    BY <1>4 DEF RemoveObjects, Blame
  <2> QED BY <2>1, <1>frame
<1>5. ASSUME NEW os \in SUBSET Ods, NEW b \in BOOLEAN, MarkObjects(os, b) PROVE DeletedOdJoinsNothing'
  BY <1>5, <1>frame DEF MarkObjects, Marked, Blame
<1>6. ASSUME NEW op \in Ops, NEW id \in Subjects, Begin(op, id) PROVE DeletedOdJoinsNothing'
  BY <1>6, <1>frame DEF Begin
<1>7. ASSUME NEW p \in Props, SaveProperty(p) PROVE DeletedOdJoinsNothing'
  BY <1>7, <1>frame DEF SaveProperty
<1>8. ASSUME NEW p \in Props, DeletePropertyBegin(p) PROVE DeletedOdJoinsNothing'
  BY <1>8, <1>frame DEF DeletePropertyBegin, EdgesWithout
<1>9. ASSUME NEW p \in Props, ReanchorKnowledge(p) PROVE DeletedOdJoinsNothing'
  BY <1>9, <1>frame DEF ReanchorKnowledge, EdgesWithout
<1>10. ASSUME NEW p \in Props, NEW b \in BOOLEAN, MarkProperty(p, b) PROVE DeletedOdJoinsNothing'
  BY <1>10, <1>frame DEF MarkProperty, Marked, Blame
<1>11. ASSUME NEW l \in Links, ProposeLink(l) PROVE DeletedOdJoinsNothing'
  BY <1>11, <1>frame DEF ProposeLink
<1>12. ASSUME NEW l \in Links, NEW st \in States, PageLink(l, st) PROVE DeletedOdJoinsNothing'
  BY <1>12, <1>frame DEF PageLink
<1>13. ASSUME InsertMissing PROVE DeletedOdJoinsNothing'
  BY <1>13, <1>frame DEF InsertMissing
<1>14. ASSUME NEW e \in edges, DeleteCausality(e) PROVE DeletedOdJoinsNothing'
  BY <1>14, <1>frame DEF DeleteCausality
<1>15. ASSUME NEW x \in open, Rollback(x) PROVE DeletedOdJoinsNothing'
  BY <1>15, <1>frame DEF Rollback, Close
<1>16. ASSUME NEW x \in open, ActivateOd(x), ~Rollback(x) PROVE DeletedOdJoinsNothing'
  <2>1. edges' = edges /\ \A o \in Ods : obj'[o].st = "gone" => obj[o].st = "gone"
    BY <1>16, ActivateEffect DEF Live
  <2> QED BY <2>1, <1>frame
<1>17. ASSUME NEW x \in open, UpdateOd(x), ~Rollback(x) PROVE DeletedOdJoinsNothing'
  <2>1. edges' = edges /\ \A o \in Ods : obj'[o].st = "gone" => obj[o].st = "gone"
    BY <1>17, UpdateEffect DEF Live
  <2> QED BY <2>1, <1>frame
<1>18. ASSUME NEW x \in open, x.op \in ObjectOps, StoreAligned(x) PROVE DeletedOdJoinsNothing'
  <2>1. x.id \in Ods
    BY <1>18 DEF OpenInv
  <2>2. edges' = edges /\ \A o \in Ods : obj'[o].st = obj[o].st
    BY <1>18, <2>1 DEF StoreAligned
  <2> QED BY <2>2, <1>frame
<1>19. ASSUME NEW x \in open, NEW c \in BOOLEAN, DeleteOd(x, c) PROVE DeletedOdJoinsNothing'
  <2> DEFINE o == x.id
  <2>1. o \in Ods /\ obj[o].st # "none"
    BY <1>19 DEF DeleteOd, OpenInv, ObjectOps
  <2>2. edges' \subseteq edges /\ \A o2 \in Ods : o2 # o => obj'[o2] = obj[o2]
    BY <1>19, <2>1 DEF DeleteOd
  <2>3. CASE obj[o].st = "gone"
    BY <2>2, <2>3, <1>frame
  <2>4. CASE ~c
    <3>1. "page_delete" \in cause'[o]
      BY <1>19, <2>1, <2>4 DEF DeleteOd, Blame
    <3> QED BY <2>2, <3>1, <1>frame
  <2>5. CASE c /\ obj[o].st # "gone"
    <3>1. edges' = edges \ EdgesOfOd(o) /\ cause' = cause
      BY <1>19, <2>5 DEF DeleteOd
    <3>2. \A e \in edges' : e \in EdgesWithout(PropsOf(o))
      BY <3>1 DEF EdgesOfOd, EdgesWithout
    <3>3. ASSUME NEW e \in edges', NEW p \in {e[1], e[2]}, Owner[p] = o PROVE "drop_property" \in cause[o]
      <4>1. e \in edges /\ p \in Props /\ p \in know
        BY <2>2, <1>typed DEF KnowInv
      <4>2. ~Live(prop[p]) /\ prop[p] # "none"
        BY <3>2, <3>3, <4>1 DEF EdgesWithout, PropsOf, KnowInv
      <4> QED BY <3>3, <4>1, <4>2, <2>5 DEF DropInv
    <3> QED BY <2>2, <3>1, <3>3, <1>frame
  <2> QED BY <2>3, <2>4, <2>5
<1>20. ASSUME NEW x \in open, ActivateLink(x), ~Rollback(x) PROVE DeletedOdJoinsNothing'
  <2> DEFINE l == x.id
  <2>1. l \in Links /\ x.row = "pending" /\ Ends[l][1] \in Ods /\ Ends[l][2] \in Ods
    BY <1>20 DEF ActivateLink, OpenInv, ObjectOps
  <2>2. PICK a \in Props, b \in Props :
          /\ Owner[a] = Ends[l][1] /\ Owner[b] = Ends[l][2] /\ edges' = edges \cup {<<a, b>>}
          /\ IF link[l] = x.row THEN cause' = cause ELSE Blame({Ends[l][1], Ends[l][2]}, "overlap")
    BY <1>20 DEF ActivateLink
  <2>3. obj' = obj
    BY <1>20 DEF ActivateLink
  <2>4. CASE link[l] = x.row
    <3>1. Live(obj[Ends[l][1]].st) /\ Live(obj[Ends[l][2]].st)
      BY <2>1, <2>4 DEF RowsInv
    <3> QED BY <2>2, <2>3, <3>1, <1>frame
  <2>5. CASE link[l] # x.row
    <3>1. "overlap" \in cause'[Ends[l][1]] /\ "overlap" \in cause'[Ends[l][2]]
      BY <2>1, <2>2, <2>5 DEF Blame
    <3> QED BY <2>2, <2>3, <3>1, <1>frame
  <2> QED BY <2>4, <2>5
<1>21. ASSUME NEW x \in open, UpdateLink(x), ~Rollback(x) PROVE DeletedOdJoinsNothing'
  <2>1. PICK new \in SUBSET (PropsOf(Ends[x.id][1]) \X PropsOf(Ends[x.id][2])) :
          edges' = (edges \ EdgesBetween(x.id)) \cup new
    BY <1>21 DEF UpdateLink
  <2>2. \A e \in new : Live(obj[Owner[e[1]]].st) /\ Live(obj[Owner[e[2]]].st)
    BY DEF PropsOf, RowsInv
  <2>3. obj' = obj
    BY <1>21 DEF UpdateLink
  <2> QED BY <2>1, <2>2, <2>3, <1>frame
<1>22. ASSUME NEW x \in open, DeleteLink(x) PROVE DeletedOdJoinsNothing'
  BY <1>22, <1>frame DEF DeleteLink, Close
<1>23. ASSUME NEW p \in Props, DeletePropertyEnd(p) PROVE DeletedOdJoinsNothing'
  BY <1>23, <1>frame DEF DeletePropertyEnd, Blame
<1>24. ASSUME NEW p \in Props, CreatorReads(p) PROVE DeletedOdJoinsNothing'
  BY <1>24, <1>frame DEF CreatorReads
<1>25. ASSUME NEW p \in Props, CreatorInserts(p) PROVE DeletedOdJoinsNothing'
  BY <1>25, <1>frame DEF CreatorInserts
<1>26. CASE UNCHANGED ontVars
  BY <1>26, <1>frame DEF ontVars
<1>27. CASE Arrives
  BY <1>27, <1>1, <1>2, <1>3, <1>4, <1>5, <1>6, <1>7, <1>8, <1>9, <1>10, <1>11, <1>12, <1>13,
      <1>14
      DEF Arrives, CreateObject, BulkCreateObjects, DeleteObject, BulkDeleteObjects, PatchObject,
          BulkUpdateObjects, SyncProperties, EnsurePropertyKnowledge
<1>28. CASE Commits
  <2> SUFFICES ASSUME NEW x \in open, ~Rollback(x),
                  \/ ActivateOd(x) \/ UpdateOd(x) \/ (x.op \in ObjectOps /\ StoreAligned(x))
                  \/ \E c \in BOOLEAN : DeleteOd(x, c)
                  \/ ActivateLink(x) \/ UpdateLink(x) \/ DeleteLink(x)
           PROVE  DeletedOdJoinsNothing'
    BY <1>28, <1>15 DEF Commits, SolidifySQL, TestCanonical, ObjectOps
  <2> QED BY <1>16, <1>17, <1>18, <1>19, <1>20, <1>21, <1>22
<1> QED BY <1>23, <1>24, <1>25, <1>26, <1>27, <1>28
      DEF OntNext

\* The bounds of the model: requests issued, and requests between check and write.
Bounds == issued \in 0..MaxIssued /\ Cardinality(open) <= MaxOpen

LEMMA NextBounds ==
    ASSUME OntologyConstants, OpenInv, Bounds, [OntNext]_ontVars
    PROVE  Bounds'
<1>1. issued' \in 0..MaxIssued
  <2>1. issued' = issued \/ (issued < MaxIssued /\ issued' = issued + 1)
    <3>1. CASE issued < MaxIssued /\ Issue
      BY <3>1 DEF Issue
    <3>2. ASSUME NEW p \in Props, DeletePropertyEnd(p) \/ CreatorReads(p) \/ CreatorInserts(p)
          PROVE  issued' = issued
      BY <3>2 DEF DeletePropertyEnd, CreatorReads, CreatorInserts
    <3>3. CASE UNCHANGED ontVars
      BY <3>3 DEF ontVars
    <3> QED BY <3>1, <3>2, <3>3 DEF OntNext
  <2> QED BY <2>1 DEF OntologyConstants, Bounds
<1>2. IsFiniteSet(open) /\ Cardinality(open) \in Nat /\ Cardinality(open) <= MaxOpen
  BY FS_CardinalityType DEF OpenInv, Bounds
<1> DEFINE Few == Cardinality(open') <= MaxOpen
<1>kept. ASSUME open' = open PROVE Few
  BY <1>kept, <1>2
<1>closed. ASSUME NEW x \in open, open' = open \ {x} PROVE Few
  <2>1. Cardinality(open \ {x}) = Cardinality(open) - 1
    BY <1>2, FS_RemoveElement
  <2> QED BY <1>closed, <1>2, <2>1 DEF OntologyConstants
<1> HIDE DEF Few
<1>steps. Few
  <2>1. ASSUME NEW o \in Ods, NEW ps \in SUBSET Props, ProposeOd(o, ps) PROVE Few
    BY <2>1, <1>kept DEF ProposeOd
  <2>2. ASSUME NEW os \in SUBSET Ods, InsertObjects(os) PROVE Few
    BY <2>2, <1>kept DEF InsertObjects
  <2>3. ASSUME NEW o \in Ods, PutObject(o) PROVE Few
    BY <2>3, <1>kept DEF PutObject
  <2>4. ASSUME NEW os \in SUBSET Ods, RemoveObjects(os) PROVE Few
    BY <2>4, <1>kept DEF RemoveObjects
  <2>5. ASSUME NEW os \in SUBSET Ods, NEW b \in BOOLEAN, MarkObjects(os, b) PROVE Few
    BY <2>5, <1>kept DEF MarkObjects
  <2>6. ASSUME NEW op \in Ops, NEW id \in Subjects, Begin(op, id) PROVE Few
    <3> DEFINE new == [op |-> op, id |-> id, row |-> IF op \in ObjectOps THEN obj[id] ELSE link[id]]
    <3>1. open' = open \cup {new} /\ Cardinality(open) < MaxOpen
      BY <2>6 DEF Begin
    <3> HIDE DEF new
    <3>2. Cardinality(open \cup {new}) <= Cardinality(open) + 1
      BY <1>2, FS_AddElement
    <3>3. Cardinality(open \cup {new}) \in Nat
      BY <1>2, FS_AddElement, FS_CardinalityType
    <3> QED BY <3>1, <3>2, <3>3, <1>2 DEF Few, OntologyConstants
  <2>7. ASSUME NEW p \in Props, SaveProperty(p) PROVE Few
    BY <2>7, <1>kept DEF SaveProperty
  <2>8. ASSUME NEW p \in Props, DeletePropertyBegin(p) PROVE Few
    BY <2>8, <1>kept DEF DeletePropertyBegin
  <2>9. ASSUME NEW p \in Props, ReanchorKnowledge(p) PROVE Few
    BY <2>9, <1>kept DEF ReanchorKnowledge
  <2>10. ASSUME NEW p \in Props, NEW b \in BOOLEAN, MarkProperty(p, b) PROVE Few
    BY <2>10, <1>kept DEF MarkProperty
  <2>11. ASSUME NEW l \in Links, ProposeLink(l) PROVE Few
    BY <2>11, <1>kept DEF ProposeLink
  <2>12. ASSUME NEW l \in Links, NEW st \in States, PageLink(l, st) PROVE Few
    BY <2>12, <1>kept DEF PageLink
  <2>13. ASSUME InsertMissing PROVE Few
    BY <2>13, <1>kept DEF InsertMissing
  <2>14. ASSUME NEW e \in edges, DeleteCausality(e) PROVE Few
    BY <2>14, <1>kept DEF DeleteCausality
  <2>15. ASSUME NEW x \in open, Rollback(x) PROVE Few
    BY <2>15, <1>closed DEF Rollback, Close
  <2>16. ASSUME NEW x \in open, ActivateOd(x), ~Rollback(x) PROVE Few
    BY <2>16, <1>closed DEF ActivateOd, Close
  <2>17. ASSUME NEW x \in open, UpdateOd(x), ~Rollback(x) PROVE Few
    BY <2>17, <1>closed DEF UpdateOd, Close
  <2>18. ASSUME NEW x \in open, x.op \in ObjectOps, StoreAligned(x) PROVE Few
    BY <2>18, <1>closed DEF StoreAligned, Close
  <2>19. ASSUME NEW x \in open, NEW c \in BOOLEAN, DeleteOd(x, c) PROVE Few
    BY <2>19, <1>closed DEF DeleteOd, Close
  <2>20. ASSUME NEW x \in open, ActivateLink(x), ~Rollback(x) PROVE Few
    BY <2>20, <1>closed DEF ActivateLink, Close
  <2>21. ASSUME NEW x \in open, UpdateLink(x), ~Rollback(x) PROVE Few
    BY <2>21, <1>closed DEF UpdateLink, Close
  <2>22. ASSUME NEW x \in open, DeleteLink(x) PROVE Few
    BY <2>22, <1>closed DEF DeleteLink, Close
  <2>23. ASSUME NEW p \in Props, DeletePropertyEnd(p) PROVE Few
    BY <2>23, <1>kept DEF DeletePropertyEnd
  <2>24. ASSUME NEW p \in Props, CreatorReads(p) PROVE Few
    BY <2>24, <1>kept DEF CreatorReads
  <2>25. ASSUME NEW p \in Props, CreatorInserts(p) PROVE Few
    BY <2>25, <1>kept DEF CreatorInserts
  <2>26. CASE UNCHANGED ontVars
    BY <2>26, <1>kept DEF ontVars
  <2>27. CASE Arrives
    BY <2>27, <2>1, <2>2, <2>3, <2>4, <2>5, <2>6, <2>7, <2>8, <2>9, <2>10, <2>11, <2>12, <2>13,
        <2>14
        DEF Arrives, CreateObject, BulkCreateObjects, DeleteObject, BulkDeleteObjects, PatchObject,
            BulkUpdateObjects, SyncProperties, EnsurePropertyKnowledge
  <2>28. CASE Commits
    <3> SUFFICES ASSUME NEW x \in open, ~Rollback(x),
                    \/ ActivateOd(x) \/ UpdateOd(x) \/ (x.op \in ObjectOps /\ StoreAligned(x))
                    \/ \E c \in BOOLEAN : DeleteOd(x, c)
                    \/ ActivateLink(x) \/ UpdateLink(x) \/ DeleteLink(x)
             PROVE  Few
      BY <2>28, <2>15 DEF Commits, SolidifySQL, TestCanonical, ObjectOps
    <3> QED BY <2>16, <2>17, <2>18, <2>19, <2>20, <2>21, <2>22
  <2> QED BY <2>23, <2>24, <2>25, <2>26, <2>27, <2>28
        DEF OntNext
<1> QED BY <1>1, <1>steps DEF Bounds, Few

-----------------------------------------------------------------------------
(* The theorems *)

OntInv == /\ Shape /\ OpenInv /\ RowsInv /\ DropInv /\ KnowInv /\ Bounds
          /\ StaleCanonicalHasACause /\ ActivePropertyIsKnown /\ DeletedOdJoinsNothing

LEMMA InitOntInv ==
    ASSUME OntologyConstants, OntInit
    PROVE  OntInv
<1> USE DEF OntologyConstants, OntInit
<1>1. [st |-> "none", origin |-> "manual", sql |-> 0, canon |-> 0, texts |-> 0] \in Object
  BY DEF Object, States
<1>2. Shape
  BY <1>1 DEF Shape, States
<1>3. IsFiniteSet({}) /\ Cardinality({}) = 0
  BY FS_EmptySet
<1>4. OpenInv /\ Bounds
  BY <1>3 DEF OpenInv, Bounds
<1>5. RowsInv /\ DropInv /\ KnowInv
  BY DEF RowsInv, DropInv, KnowInv, Live
<1>6. StaleCanonicalHasACause /\ ActivePropertyIsKnown /\ DeletedOdJoinsNothing
  BY DEF StaleCanonicalHasACause, ActivePropertyIsKnown, DeletedOdJoinsNothing
<1> QED BY <1>2, <1>4, <1>5, <1>6 DEF OntInv

LEMMA NextOntInv ==
    ASSUME OntologyConstants, OntInv, [OntNext]_ontVars
    PROVE  OntInv'
BY NextShape, NextOpen, NextRows, NextDrop, NextKnow, NextBounds, NextStale, NextKnown, NextDeleted
   DEF OntInv

\* builderToolUpdateOd, activateOd and the object page: the canonical_query of an
\* active OD is that of its present text, or a named kind of write came between,
\* however many requests overlap between their check and their write.
THEOREM CanonicalQueryIsCurrent ==
    ASSUME OntologyConstants
    PROVE  OntSpec => []StaleCanonicalHasACause
<1>1. OntInit => OntInv
  BY InitOntInv
<1>2. OntInv /\ [OntNext]_ontVars => OntInv'
  BY NextOntInv
<1>3. OntInv => StaleCanonicalHasACause
  BY DEF OntInv
<1> QED BY <1>1, <1>2, <1>3, PTL DEF OntSpec

\* activateOd, builderToolDeleteOd, the link tools and the pages: active properties
\* are known and deleted ODs join nothing, up to the named exceptions.
THEOREM JoinKnowledgeFollows ==
    ASSUME OntologyConstants
    PROVE  OntSpec => []JoinsFollowTheOds
<1>1. OntInit => OntInv
  BY InitOntInv
<1>2. OntInv /\ [OntNext]_ontVars => OntInv'
  BY NextOntInv
<1>3. OntInv => JoinsFollowTheOds
  BY DEF OntInv, Shape, Bounds, OntTypes, JoinsFollowTheOds
<1> QED BY <1>1, <1>2, <1>3, PTL DEF OntSpec
=============================================================================
