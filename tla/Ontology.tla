------------------------------- MODULE Ontology -------------------------------
(***************************************************************************)
(* The ontology tables of one project: object types (ODs), their           *)
(* properties, links, the knowledge anchored at properties and the         *)
(* join_key causality edges between knowledge, as the three writers change *)
(* them: the builder agent's tools (propose, update, delete), the          *)
(* activation cards a user clicks, and the object, property, link and      *)
(* knowledge pages.                                                        *)
(*                                                                         *)
(* A handler that checks a row and writes it later under READ COMMITTED is *)
(* two steps, Begin (the SELECT without FOR UPDATE) and a commit; whatever *)
(* commits in between is invisible to the check and visible to the writes. *)
(* Row ids are never reused: a deleted row is "gone".  A knowledge row is  *)
(* represented by the property it is anchored at and an edge by its two    *)
(* properties, so duplicates of either coincide.                           *)
(***************************************************************************)
EXTENDS Naturals, FiniteSets

CONSTANTS Ods, Props, Links,
          Owner,        \* Props -> Ods
          Ends,         \* Links -> <<from object, to object>>
          MaxTexts,     \* bound: texts of semantic_sql an object ever has
          MaxIssued,    \* bound: requests issued
          MaxOpen       \* bound: requests between check and commit

\* What the instances assume of the constants.
OntologyConstants ==
    /\ Owner \in [Props -> Ods]
    /\ Ends \in [Links -> Ods \X Ods]
    /\ MaxTexts \in Nat \ {0} /\ MaxIssued \in Nat /\ MaxOpen \in Nat

VARIABLES obj,        \* ont_object_type: mark, origin, semantic_sql, canonical_query
          prop, link, \* ont_property.mark, ont_link_type.mark
          know,       \* properties with an ont_knowledge row
          edges,      \* ont_causality rows of type join_key
          open,       \* requests that passed their check and have not written
          creating,   \* autoCreatePropertyKnowledge goroutines
          deleting,   \* property deletions between their two statements
          issued,     \* bound counter: how many requests were issued
          cause       \* history: what happened to an object outside activation

ontVars == <<obj, prop, link, know, edges, open, creating, deleting, issued, cause>>

States == {"none", "pending", "active", "gone"}
Causes == {"page_edit", "page_mark", "page_delete", "drop_property", "add_active",
           "overlap", "page_knowledge"}
ObjectOps == {"activate", "update", "delete", "solidify", "test"}
Ops == ObjectOps \cup {"activateLink", "updateLink", "deleteLink"}
Object == [st : States, origin : {"builder", "manual"}, sql : 0..MaxTexts,
           canon : 0..MaxTexts, texts : 0..MaxTexts]
Subjects == Ods \cup Links

OntTypes ==
    /\ obj \in [Ods -> Object]
    /\ prop \in [Props -> States] /\ link \in [Links -> States]
    /\ know \subseteq Props /\ edges \subseteq Props \X Props
    /\ \A x \in open : /\ x.op \in Ops /\ x.id \in Subjects
                       /\ x.op \in ObjectOps => x.row \in Object
    /\ Cardinality(open) <= MaxOpen
    /\ creating \subseteq Props \X {"read", "insert"} /\ deleting \subseteq Props
    /\ issued \in 0..MaxIssued
    /\ cause \in [Ods -> SUBSET Causes]

\* A project whose tables are empty (the import fills them through the same inserts).
OntInit ==
    /\ obj = [o \in Ods |-> [st |-> "none", origin |-> "manual", sql |-> 0, canon |-> 0, texts |-> 0]]
    /\ prop = [p \in Props |-> "none"] /\ link = [l \in Links |-> "none"]
    /\ know = {} /\ edges = {} /\ open = {} /\ creating = {} /\ deleting = {}
    /\ issued = 0 /\ cause = [o \in Ods |-> {}]

Live(st) == st \in {"pending", "active"}
PropsOf(o) == {p \in Props : Owner[p] = o /\ Live(prop[p])}
LinksOf(o) == {l \in Links : o \in {Ends[l][1], Ends[l][2]} /\ Live(link[l])}
Blame(os, why) == cause' = [o \in Ods |-> IF o \in os THEN cause[o] \cup {why} ELSE cause[o]]
Issue == issued' = issued + 1
Marked(b) == IF b THEN "active" ELSE "pending"
\* The edges left when the knowledge rows of ps are deleted (ON DELETE CASCADE).
EdgesWithout(ps) == {e \in edges : e[1] \notin ps /\ e[2] \notin ps}
\* Deleting objects takes their properties and links with them (ON DELETE CASCADE);
\* knowledge has no foreign key to the property it is anchored at.
CascadeProps(o) == [p \in Props |-> IF p \in PropsOf(o) THEN "gone" ELSE prop[p]]
CascadeLinks(o) == [l \in Links |-> IF l \in LinksOf(o) THEN "gone" ELSE link[l]]

-----------------------------------------------------------------------------
(* The builder agent's proposals: one transaction, nothing is active yet.   *)

ProposeOd(o, ps) ==
    /\ obj[o].st = "none" /\ ps # {}
    /\ \A p \in ps : Owner[p] = o /\ prop[p] = "none"
    /\ obj' = [obj EXCEPT ![o] = [st |-> "pending", origin |-> "builder", sql |-> 1, canon |-> 0, texts |-> 1]]
    /\ prop' = [p \in Props |-> IF p \in ps THEN "pending" ELSE prop[p]]
    /\ UNCHANGED <<link, know, edges, open, creating, deleting, cause>>

\* Both properties are looked up in their objects before the insert.
ProposeLink(l) ==
    /\ link[l] = "none"
    /\ PropsOf(Ends[l][1]) # {} /\ PropsOf(Ends[l][2]) # {}
    /\ link' = [link EXCEPT ![l] = "pending"]
    /\ UNCHANGED <<obj, prop, know, edges, open, creating, deleting, cause>>

-----------------------------------------------------------------------------
(* Checks: the SELECT each two-step handler starts with.                    *)

Checks(op, id) ==
    CASE op = "activate" -> obj[id].st = "pending" /\ obj[id].origin = "builder"
      [] op \in ObjectOps \ {"activate"} -> Live(obj[id].st)
      [] op = "activateLink" -> link[id] = "pending"
      [] OTHER -> Live(link[id])

Begin(op, id) ==
    /\ Cardinality(open) < MaxOpen
    /\ id \in (IF op \in ObjectOps THEN Ods ELSE Links)
    /\ Checks(op, id)
    /\ open' = open \cup {[op |-> op, id |-> id, row |-> IF op \in ObjectOps THEN obj[id] ELSE link[id]]}
    /\ UNCHANGED <<obj, prop, link, know, edges, creating, deleting, cause>>

Close(x) == open' = open \ {x}
\* Anything the transaction refuses rolls it back.
Rollback(x) == /\ Close(x)
               /\ UNCHANGED <<obj, prop, link, know, edges, creating, deleting, cause>>

-----------------------------------------------------------------------------
(* Object types                                                             *)

\* The properties an activation gives knowledge: all the OD has at that moment.
\* Mutant: the activation leaves knowledge to the goroutines of the property page.
LeftToThePage(o) == {}
KnowledgeOfOd(o) == PropsOf(o)

\* Mark the OD and all its properties, build canonical_query from the text the
\* transaction reads back, store it, trial-run it, give every property its
\* knowledge, commit.  A text that is empty, an OD deleted meanwhile or a failing
\* trial run roll everything back.
ActivateOd(x) ==
    LET o == x.id IN
    /\ x.op = "activate"
    /\ \/ Rollback(x)
       \/ /\ Live(obj[o].st)
          /\ \E text \in {obj[o].sql} \cup ({obj[o].texts + 1} \cap 0..MaxTexts) :
               /\ text # 0
               /\ obj' = [obj EXCEPT ![o].st = "active", ![o].sql = text, ![o].canon = text,
                                     ![o].texts = IF text > @ THEN text ELSE @]
          /\ prop' = [p \in Props |-> IF p \in PropsOf(o) THEN "active" ELSE prop[p]]
          /\ know' = know \cup KnowledgeOfOd(o)
          /\ Close(x)
          /\ UNCHANGED <<link, edges, creating, deleting, cause>>

\* Mutant: the text is replaced and the query built from the old one stays.
CanonicalKept(x, changed) == obj[x.id].canon

\* The canonical query UpdateOd leaves: cleared when an edit of the text hits an
\* OD that was active and solidified when it was checked.
InvalidatedCanonical(x, changed) ==
    IF changed /\ x.row.st = "active" /\ x.row.canon # 0 THEN 0 ELSE obj[x.id].canon

\* builderToolUpdateOd: new text, added and deleted properties.  Added properties
\* take the mark read by the check; deleted ones leave their knowledge behind.
UpdateOd(x) ==
    LET o == x.id IN
    /\ x.op = "update"
    /\ \/ Rollback(x)
       \/ /\ Live(obj[o].st)
          /\ \E changed \in BOOLEAN, adds, dels \in SUBSET Props :
               /\ changed => obj[o].texts < MaxTexts
               /\ Cardinality(adds) <= 1 /\ Cardinality(dels) <= 1
               /\ \A p \in adds : Owner[p] = o /\ prop[p] = "none"
               /\ dels \subseteq PropsOf(o)
               /\ obj' = [obj EXCEPT ![o].sql = IF changed THEN obj[o].texts + 1 ELSE @,
                                     ![o].texts = IF changed THEN @ + 1 ELSE @,
                                     ![o].canon = InvalidatedCanonical(x, changed)]
               /\ prop' = [p \in Props |-> IF p \in adds THEN x.row.st
                                           ELSE IF p \in dels THEN "gone" ELSE prop[p]]
               /\ cause' = [cause EXCEPT ![o] = @ \cup (IF dels # {} THEN {"drop_property"} ELSE {})
                                                  \cup (IF adds # {} /\ x.row.st = "active" THEN {"add_active"} ELSE {})
                                                  \cup (IF x.row # obj[o] THEN {"overlap"} ELSE {})]
          /\ Close(x)
          /\ UNCHANGED <<link, know, edges, creating, deleting>>

\* The edges builderToolDeleteOd removes: those at knowledge of the properties the
\* OD still has, after its links are gone.
EdgesOfOd(o) == edges \ EdgesWithout(PropsOf(o))

\* builderToolDeleteOd, with cascade (the default) or, when nothing depended on
\* the OD at the check, without.
DeleteOd(x, cascade) ==
    LET o == x.id IN
    /\ x.op = "delete"
    /\ cascade \/ LinksOf(o) = {}
    /\ edges' = IF cascade THEN edges \ EdgesOfOd(o) ELSE edges
    /\ obj' = [obj EXCEPT ![o].st = "gone"]
    /\ prop' = CascadeProps(o) /\ link' = CascadeLinks(o)
    /\ IF cascade THEN cause' = cause ELSE Blame({o}, "page_delete")
    /\ Close(x)
    /\ UNCHANGED <<know, creating, deleting>>

\* buildAlignedCanonical: the query is built from the text read at the check and
\* stored at the end.
StoreAligned(x) ==
    LET o == x.id IN
    /\ x.row.sql # 0 /\ Live(obj[o].st)
    /\ obj' = [obj EXCEPT ![o].canon = x.row.sql]
    /\ IF x.row.sql = obj[o].sql THEN cause' = cause ELSE Blame({o}, "overlap")
    /\ Close(x)
    /\ UNCHANGED <<prop, link, know, edges, creating, deleting>>

SolidifySQL(x) == x.op = "solidify" /\ (Rollback(x) \/ StoreAligned(x))
\* Testing a canonical query refreshes it too; a query that fails to run rolls back.
TestCanonical(x) == x.op = "test" /\ (Rollback(x) \/ StoreAligned(x))

-----------------------------------------------------------------------------
(* Links                                                                    *)

\* ensureKnowledge: a row anchored at the property, existing or created; creating
\* one needs the property itself.
CanEnsure(p) == p \in know \/ Live(prop[p])

\* The UPDATE of mark touches no row when the link was deleted meanwhile, and
\* nothing looks at that: the edge is inserted all the same.
ActivateLink(x) ==
    LET l == x.id IN
    /\ x.op = "activateLink"
    /\ \/ Rollback(x)
       \/ \E a, b \in Props :
            /\ Owner[a] = Ends[l][1] /\ Owner[b] = Ends[l][2]
            /\ CanEnsure(a) /\ CanEnsure(b)
            /\ link' = [link EXCEPT ![l] = IF Live(@) THEN "active" ELSE @]
            /\ know' = know \cup {a, b}
            /\ edges' = edges \cup {<<a, b>>}
            /\ IF link[l] = x.row THEN cause' = cause
                                  ELSE Blame({Ends[l][1], Ends[l][2]}, "overlap")
            /\ Close(x)
            /\ UNCHANGED <<obj, prop, creating, deleting>>

\* Edges between live properties of the two objects, whichever link made them.
EdgesBetween(l) ==
    {e \in edges : e[1] \in PropsOf(Ends[l][1]) /\ e[2] \in PropsOf(Ends[l][2])}

\* Rebinding the anchors of an active link replaces every edge between the two
\* objects; with one anchor given the edges are deleted and none is inserted.
UpdateLink(x) ==
    LET l == x.id IN
    /\ x.op = "updateLink"
    /\ \/ Rollback(x)
       \/ /\ x.row = "active"
          /\ \E new \in SUBSET (PropsOf(Ends[l][1]) \X PropsOf(Ends[l][2])) :
               /\ Cardinality(new) <= 1
               /\ edges' = (edges \ EdgesBetween(l)) \cup new
               /\ know' = know \cup UNION {{e[1], e[2]} : e \in new}
          /\ Close(x)
          /\ UNCHANGED <<obj, prop, link, creating, deleting, cause>>

DeleteLink(x) ==
    LET l == x.id IN
    /\ x.op = "deleteLink"
    /\ edges' = edges \ EdgesBetween(l)
    /\ link' = [link EXCEPT ![l] = "gone"]
    /\ Close(x)
    /\ UNCHANGED <<obj, prop, know, creating, deleting, cause>>

-----------------------------------------------------------------------------
(* The pages: single statements, no checks.                                 *)

\* The rows of the items whose insert succeeds.
InsertObjects(os) ==
    /\ \A o \in os : obj[o].st = "none"
    /\ obj' = [o \in Ods |-> IF o \in os THEN [obj[o] EXCEPT !.st = "pending"] ELSE obj[o]]
    /\ UNCHANGED <<prop, link, know, edges, open, creating, deleting, cause>>

CreateObject(o) == InsertObjects({o})
\* One insert per item; an item that fails is reported and the others stay.
BulkCreateObjects(os) == os # {} /\ InsertObjects(os)

\* PUT replaces semantic_sql (perhaps by the empty text) and leaves canonical_query.
PutObject(o) ==
    /\ Live(obj[o].st)
    /\ \E text \in {0} \cup ({obj[o].texts + 1} \cap 0..MaxTexts) :
         obj' = [obj EXCEPT ![o].sql = text, ![o].texts = IF text > @ THEN text ELSE @]
    /\ Blame({o}, "page_edit")
    /\ UNCHANGED <<prop, link, know, edges, open, creating, deleting>>

MarkObjects(os, b) ==
    /\ \E o \in os : Live(obj[o].st) /\ obj[o].st # Marked(b)
    /\ obj' = [o \in Ods |-> IF o \in os /\ Live(obj[o].st) THEN [obj[o] EXCEPT !.st = Marked(b)] ELSE obj[o]]
    /\ Blame(os, "page_mark")
    /\ UNCHANGED <<prop, link, know, edges, open, creating, deleting>>

PatchObject(o, b) == MarkObjects({o}, b)
BulkUpdateObjects(os, b) == MarkObjects(os, b)

RemoveObjects(os) ==
    /\ \E o \in os : Live(obj[o].st)
    /\ obj' = [o \in Ods |-> IF o \in os /\ Live(obj[o].st) THEN [obj[o] EXCEPT !.st = "gone"] ELSE obj[o]]
    /\ prop' = [p \in Props |-> IF p \in UNION {PropsOf(o) : o \in os} THEN "gone" ELSE prop[p]]
    /\ link' = [l \in Links |-> IF l \in UNION {LinksOf(o) : o \in os} THEN "gone" ELSE link[l]]
    /\ Blame(os, "page_delete")
    /\ UNCHANGED <<know, edges, open, creating, deleting>>

DeleteObject(o) == RemoveObjects({o})
BulkDeleteObjects(os) == RemoveObjects(os)

\* POST and PUT of a property start autoCreatePropertyKnowledge in a goroutine.
SaveProperty(p) ==
    /\ Live(obj[Owner[p]].st) /\ prop[p] # "gone"
    /\ prop' = [prop EXCEPT ![p] = IF @ = "none" THEN "pending" ELSE @]
    /\ creating' = creating \cup {<<p, "read">>}
    /\ UNCHANGED <<obj, link, know, edges, open, deleting, cause>>

MarkProperty(p, b) ==
    /\ Live(prop[p]) /\ prop[p] # Marked(b)
    /\ prop' = [prop EXCEPT ![p] = Marked(b)]
    /\ Blame({Owner[p]}, "page_mark")
    /\ UNCHANGED <<obj, link, know, edges, open, creating, deleting>>

\* Two statements without a transaction: the knowledge first.
DeletePropertyBegin(p) ==
    /\ Live(prop[p])
    /\ know' = know \ {p} /\ edges' = EdgesWithout({p})
    /\ deleting' = deleting \cup {p}
    /\ UNCHANGED <<obj, prop, link, open, creating, cause>>

DeletePropertyEnd(p) ==
    /\ p \in deleting
    /\ prop' = [prop EXCEPT ![p] = "gone"]
    /\ deleting' = deleting \ {p}
    /\ Blame({Owner[p]}, "drop_property")
    /\ UNCHANGED <<obj, link, know, edges, open, creating, issued>>

\* The goroutine gives up only if the object is gone; the insert checks nothing.
CreatorReads(p) ==
    /\ <<p, "read">> \in creating
    /\ creating' = (creating \ {<<p, "read">>})
                   \cup (IF Live(obj[Owner[p]].st) THEN {<<p, "insert">>} ELSE {})
    /\ UNCHANGED <<obj, prop, link, know, edges, open, deleting, issued, cause>>

CreatorInserts(p) ==
    /\ <<p, "insert">> \in creating
    /\ creating' = creating \ {<<p, "insert">>}
    /\ know' = know \cup {p}
    /\ UNCHANGED <<obj, prop, link, edges, open, deleting, issued, cause>>

\* The two synchronisations list the properties without knowledge, then insert
\* one row after the other.
InsertMissing ==
    LET missing == {p \in Props : Live(prop[p]) /\ p \notin know}
    IN /\ missing # {}
       /\ creating' = creating \cup (missing \X {"insert"})
       /\ UNCHANGED <<obj, prop, link, know, edges, open, deleting, cause>>

SyncProperties == InsertMissing
EnsurePropertyKnowledge == InsertMissing

\* The knowledge page: PUT may anchor the row elsewhere, and its edges go along;
\* DELETE refuses a row anchored at a property.
ReanchorKnowledge(p) ==
    /\ p \in know
    /\ know' = know \ {p} /\ edges' = EdgesWithout({p})
    /\ Blame({Owner[p]}, "page_knowledge")
    /\ UNCHANGED <<obj, prop, link, open, creating, deleting>>

\* POST creates active links; mark and DELETE leave the edges alone.
PageLink(l, st) ==
    /\ \/ link[l] = "none" /\ st = "active" /\ Live(obj[Ends[l][1]].st) /\ Live(obj[Ends[l][2]].st)
       \/ Live(link[l]) /\ st \in {"pending", "active", "gone"} \ {link[l]}
    /\ link' = [link EXCEPT ![l] = st]
    /\ UNCHANGED <<obj, prop, know, edges, open, creating, deleting, cause>>

\* DELETE (and an edit) of a causality row.
DeleteCausality(e) ==
    /\ e \in edges
    /\ edges' = edges \ {e}
    /\ UNCHANGED <<obj, prop, link, know, open, creating, deleting, cause>>

-----------------------------------------------------------------------------
Arrives ==
    \/ \E o \in Ods :
         \/ \E ps \in SUBSET Props : ProposeOd(o, ps)
         \/ CreateObject(o) \/ PutObject(o) \/ DeleteObject(o)
         \/ \E b \in BOOLEAN : PatchObject(o, b)
    \/ \E os \in SUBSET Ods :
         \/ BulkCreateObjects(os) \/ BulkDeleteObjects(os)
         \/ \E b \in BOOLEAN : BulkUpdateObjects(os, b)
    \/ \E op \in Ops, id \in Subjects : Begin(op, id)
    \/ \E p \in Props : SaveProperty(p) \/ DeletePropertyBegin(p) \/ ReanchorKnowledge(p)
    \/ \E p \in Props, b \in BOOLEAN : MarkProperty(p, b)
    \/ \E l \in Links : ProposeLink(l) \/ \E st \in States : PageLink(l, st)
    \/ SyncProperties \/ EnsurePropertyKnowledge
    \/ \E e \in edges : DeleteCausality(e)

Commits == \E x \in open :
    \/ ActivateOd(x) \/ UpdateOd(x) \/ SolidifySQL(x) \/ TestCanonical(x)
    \/ \E c \in BOOLEAN : DeleteOd(x, c)
    \/ ActivateLink(x) \/ UpdateLink(x) \/ DeleteLink(x)

OntNext ==
    \/ issued < MaxIssued /\ Issue /\ Arrives
    \/ Commits /\ UNCHANGED issued
    \/ \E p \in Props : DeletePropertyEnd(p) \/ CreatorReads(p) \/ CreatorInserts(p)

OntSpec == OntInit /\ [][OntNext]_ontVars

-----------------------------------------------------------------------------
\* What the agents query through an active OD is its canonical_query: it was built
\* from the text the OD has now, unless the object page replaced the text or
\* marked the OD by hand, or an update and another request overlapped between
\* the check and the write (src/services/agent-server/handler/tool_builder_crud.go:289).
StaleCanonicalHasACause == \A o \in Ods :
    obj[o].st = "active" /\ obj[o].canon \notin {0, obj[o].sql}
        => cause[o] \cap {"page_edit", "page_mark", "overlap"} # {}

\* Joins are found through the knowledge of properties: an active property has
\* one, unless it was marked by hand, its knowledge was anchored elsewhere on the
\* knowledge page, it was added to an active OD by update_od (which writes none),
\* or it is being deleted.
ActivePropertyIsKnown == \A p \in Props :
    prop[p] = "active" /\ p \notin know
        => \/ p \in deleting
           \/ cause[Owner[p]] \cap {"page_mark", "page_knowledge", "add_active"} # {}

\* delete_od leaves no join edge at a property of the deleted OD, unless the OD was
\* deleted on the page (or without cascade), a property of it had been dropped
\* before (its knowledge and edges outlive it), or a link of it was being activated.
DeletedOdJoinsNothing == \A e \in edges, o \in Ods :
    obj[o].st = "gone" /\ o \in {Owner[e[1]], Owner[e[2]]}
        => cause[o] \cap {"page_delete", "drop_property", "overlap"} # {}

\* The join knowledge follows the ODs it is about, in both directions.
JoinsFollowTheOds == OntTypes /\ ActivePropertyIsKnown /\ DeletedOdJoinsNothing
=============================================================================
