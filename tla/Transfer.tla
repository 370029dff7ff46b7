------------------------------- MODULE Transfer -------------------------------
(***************************************************************************)
(* backend-api: exporting a project's ontology as a bundle of names and    *)
(* importing one (handler_export_import.go), with the statements that fail *)
(* on the way: an import is not a transaction.                             *)
(*                                                                         *)
(* A project is a record of tables, each a function from the natural key   *)
(* that import looks rows up by:                                           *)
(*   objects  name -> [val, live]        props  <<object, name>> -> same   *)
(*   metrics  name -> [val, target, live]                                  *)
(*   links    <<from, to, label>> -> [val, live]                           *)
(*   aliases  text -> [val, kind, ref]   rules, methods  key -> [val]      *)
(*   intents  name -> [val, object]                                        *)
(*   keywords <<object, property, intent, word>> -> [val, intent, orphan]  *)
(*            (intent is "" in the key of a word that has a property)      *)
(*   lakehouseMetrics  name -> object    (not part of a bundle)            *)
(* val stands for the columns that are copied; live is deleted_at IS NULL; *)
(* "" and <<>> are NULL references.  A bundle has the same tables.  The     *)
(* statements that fail are those of the objects <<name>> and of the       *)
(* properties <<object, name>> in failing.                                 *)
(***************************************************************************)
EXTENDS Integers, Sequences, FiniteSets, Functions, SequencesExt, TLC

Tables == {"objects", "props", "metrics", "links", "aliases", "rules", "methods", "intents", "keywords"}
EmptyProject == [t \in Tables \cup {"lakehouseMetrics"} |-> <<>>]
Live(t) == Restrict(t, {k \in DOMAIN t : t[k].live})
Known(name, t) == IF name \in DOMAIN t THEN name ELSE ""

-----------------------------------------------------------------------------
(* Export *)

\* What an alias points at: <<name>> of an object or metric, <<object, name>> of a property,
\* <<>> for what is not there.
Target(a, objects, metrics, props) ==
    LET there == CASE a.kind = "object" -> {<<n>> : n \in DOMAIN objects}
                   [] a.kind = "metric" -> {<<n>> : n \in DOMAIN metrics}
                   [] a.kind = "property" -> DOMAIN props
                   [] OTHER -> {}
    IN  IF a.ref \in there THEN a.ref ELSE <<>>
ExportMetrics(db) ==
    LET t == Live(db.metrics) IN [k \in DOMAIN t |-> [t[k] EXCEPT !.target = Known(@, Live(db.objects))]]
\* Only an object needs to be live.
ExportAliases(db) ==
    LET ref(a) == Target(a, Live(db.objects), db.metrics, db.props)
    IN  [k \in DOMAIN db.aliases |-> [db.aliases[k] EXCEPT !.ref = ref(db.aliases[k])]]
ExportIntents(db) == [k \in DOMAIN db.intents |-> [db.intents[k] EXCEPT !.object = Known(@, Live(db.objects))]]
\* Links of a deleted object are exported with an empty end.
ExportLinks(db) == LET end(n) == Known(n, Live(db.objects))  t == Live(db.links)
                   IN  [k \in {<<end(l[1]), end(l[2]), l[3]>> : l \in DOMAIN t} |->
                          t[CHOOSE l \in DOMAIN t : k = <<end(l[1]), end(l[2]), l[3]>>]]
\* A word is exported with its object, whatever its property or intent.
ExportKeywords(db) == Restrict(db.keywords, {k \in DOMAIN db.keywords : k[1] \in DOMAIN Live(db.objects)})
buildExportBundle(db) ==
    [objects |-> Live(db.objects),
     props |-> LET t == Live(db.props) IN Restrict(t, {k \in DOMAIN t : k[1] \in DOMAIN Live(db.objects)}),
     metrics |-> ExportMetrics(db), links |-> ExportLinks(db), aliases |-> ExportAliases(db),
     rules |-> db.rules, methods |-> db.methods, intents |-> ExportIntents(db),
     keywords |-> ExportKeywords(db)]

-----------------------------------------------------------------------------
(* Import *)

\* Existing rows are updated (or, in mode "skip", left), others inserted.  An update does
\* not bring a deleted row back.
Upsert(t, mode, entries) ==
    [k \in DOMAIN t \cup DOMAIN entries |->
        IF k \notin DOMAIN t THEN entries[k]
        ELSE IF k \notin DOMAIN entries \/ mode = "skip" THEN t[k]
        ELSE IF "live" \in DOMAIN t[k] THEN [entries[k] EXCEPT !.live = t[k].live] ELSE entries[k]]
Without(t, keys) == Restrict(t, DOMAIN t \ keys)

\* mode "replace": every table is emptied; what hangs on the objects goes with them.
DeleteAll(db) == EmptyProject
\* The statement of an object may fail (failing): a new object is then missing.
ImportObjects(db, mode, b, failing) ==
    [db EXCEPT !.objects = Upsert(@, mode, Without(b.objects, {n \in DOMAIN b.objects : <<n>> \in failing}))]
\* Properties are only looked at for an object that was inserted or updated.
ImportProps(db, before, mode, b, failing) ==
    LET visited == {k \in DOMAIN b.props : /\ k[1] \in DOMAIN b.objects /\ {k, <<k[1]>>} \cap failing = {}
                                           /\ ~ (mode = "skip" /\ k[1] \in DOMAIN before.objects)}
    IN  [db EXCEPT !.props = Upsert(@, mode, Restrict(b.props, visited))]
ImportMetrics(db, mode, b) ==
    [db EXCEPT !.metrics = Upsert(@, mode, [k \in DOMAIN b.metrics |->
                                             [b.metrics[k] EXCEPT !.target = Known(@, db.objects)]])]
\* A link needs both its objects.
ImportLinks(db, mode, b) ==
    [db EXCEPT !.links = Upsert(@, mode, Restrict(b.links, {k \in DOMAIN b.links :
                                                              {k[1], k[2]} \subseteq DOMAIN db.objects}))]
\* An alias is stored without a target when its target is unknown.
AliasTarget(db, a) == Target(a, db.objects, db.metrics, db.props)
ImportAliases(db, mode, b) ==
    [db EXCEPT !.aliases = Upsert(@, mode, [k \in DOMAIN b.aliases |->
                                             [b.aliases[k] EXCEPT !.ref = AliasTarget(db, b.aliases[k])]])]
\* (A plausible bug: the update of an alias leaves its target alone.)
ImportAliasesOnce(db, mode, b) ==
    [db EXCEPT !.aliases = Upsert(Upsert(<<>>, mode, [k \in DOMAIN b.aliases |->
                                             [b.aliases[k] EXCEPT !.ref = AliasTarget(db, b.aliases[k])]]), mode, @)]
Aliases(db, mode, b) == ImportAliases(db, mode, b)
ImportRules(db, mode, b) == [db EXCEPT !.rules = Upsert(@, mode, b.rules)]
ImportMethods(db, mode, b) == [db EXCEPT !.methods = Upsert(@, mode, b.methods)]
\* An intent needs its object.
ImportIntents(db, mode, b) ==
    [db EXCEPT !.intents = Upsert(@, mode, Restrict(b.intents, {k \in DOMAIN b.intents :
                                                                  b.intents[k].object \in DOMAIN db.objects}))]
\* A word needs its object and its property or its intent, and is looked up under its
\* property if that is known.  A new word is never an orphan; an update changes neither that
\* nor the intent.
ImportKeyword(db, mode, k, row) ==
    LET prop == IF <<k[1], k[2]>> \in DOMAIN db.props THEN k[2] ELSE ""
        intent == Known(IF k[2] = "" THEN k[3] ELSE row.intent, db.intents)
        key == <<k[1], prop, IF prop = "" THEN intent ELSE "", k[4]>>
    IN  IF k[1] \notin DOMAIN db.objects \/ (prop = "" /\ intent = "") \/ (key \in DOMAIN db.keywords /\ mode = "skip")
        THEN db
        ELSE IF key \in DOMAIN db.keywords THEN [db EXCEPT !.keywords[key].val = row.val]
        ELSE [db EXCEPT !.keywords = @ @@ (key :> [val |-> row.val, intent |-> intent, orphan |-> FALSE])]
ImportKeywords(db, mode, b) ==
    FoldLeft(LAMBDA d, k : ImportKeyword(d, mode, k, b.keywords[k]), db, SetToSeq(DOMAIN b.keywords))

runImport(db, mode, b, failing) ==
    LET before == IF mode = "replace" THEN DeleteAll(db) ELSE db
        objects == ImportObjects(before, mode, b, failing)
        props == ImportProps(objects, before, mode, b, failing)
        named == ImportLinks(ImportMetrics(props, mode, b), mode, b)
        ruled == ImportMethods(ImportRules(Aliases(named, mode, b), mode, b), mode, b)
    IN  ImportKeywords(ImportIntents(ruled, mode, b), mode, b)
\* An unknown mode is "merge".
handleOntologyImport(db, mode, b, failing) ==
    runImport(db, IF mode \in {"replace", "skip"} THEN mode ELSE "merge", b, failing)

-----------------------------------------------------------------------------
(* Properties *)

\* What a bundle can restore: no link or intent without its object, no word without a
\* property or intent of the bundle, no alias to what is not in it, no orphan mark.
Portable(b) ==
    LET anchor(k) == [prop |-> IF <<k[1], k[2]>> \in DOMAIN b.props THEN k[2] ELSE "",
                      intent |-> IF k[2] = "" THEN k[3] ELSE b.keywords[k].intent]
        restored(n) == n \in DOMAIN b.intents /\ b.intents[n].object # ""
        target(a) == Target(a, b.objects, b.metrics, b.props)
    IN  [b EXCEPT !.links = Restrict(@, {k \in DOMAIN @ : "" \notin {k[1], k[2]}}),
                  !.intents = Restrict(@, {k \in DOMAIN @ : restored(k)}),
                  !.aliases = [k \in DOMAIN @ |-> [b.aliases[k] EXCEPT !.ref = target(b.aliases[k])]],
                  !.keywords = Restrict([k \in DOMAIN @ |-> [b.keywords[k] EXCEPT !.orphan = FALSE]],
                                        {k \in DOMAIN @ : anchor(k).prop # "" \/ restored(anchor(k).intent)})]
\* A word whose property is unknown is stored under its intent instead, and the property's
\* statement failing once makes two words of it.
TwoAnchors(b) == \E k \in DOMAIN b.keywords : k[2] # "" /\ b.keywords[k].intent # ""

(* Importing what was exported restores it: replacing a project by a bundle and exporting it
   again gives the bundle's portable part, whatever the project held.  And an import of
   which some statements failed is completed by importing the bundle again, because a
   reference that could not be resolved the first time is stored empty and updated. *)
ImportRestores(source, db, mode, failing) ==
    LET b == buildExportBundle(source) IN
    ~ TwoAnchors(b) =>
        /\ buildExportBundle(handleOntologyImport(db, "replace", b, {})) = Portable(b)
        /\ mode # "skip" => handleOntologyImport(handleOntologyImport(db, mode, b, failing), "merge", b, {})
                              = handleOntologyImport(db, mode, b, {})
=============================================================================
