----------------------------- MODULE KeywordStore -----------------------------
(***************************************************************************)
(* The keyword table of a project (lakehouse_keyword and its child          *)
(* lakehouse_keyword_alias_vector) and everything that writes it: triage    *)
(* (backend-api handler_triage.go), metric and intent triggers              *)
(* (pkg/ontology, handler_lakehouse_metric.go, handler_builder_activate.go),*)
(* the keyword pages of collector-server (pbit/routes.go,                   *)
(* routes_keyword_bulk.go), the embedding job (handle_keyword_vectors.go),  *)
(* the ontology import and the cascades of ontology deletes.  The reader is *)
(* the exact tier of recall-server (recall_lakehouse.go).                   *)
(*                                                                         *)
(* A word stands for a trimmed, non-empty text.  Two texts may agree up to  *)
(* letter case (Lower) or up to case, spaces and underscores (Squash).      *)
(* Machine-code columns, whose values are never embedded, are left out.     *)
(***************************************************************************)
EXTENDS Naturals, Sequences, FiniteSets, Functions

CONSTANTS
    Words,        \* texts of keywords, aliases, names and tokens
    Lower,        \* LOWER(text), a function on Words
    Squash,       \* regexp_replace(LOWER(text), '[ _]', '', 'g')
    Objects, Properties, Metrics, Intents,
    OwnerOf,      \* ont_property.object_type_id
    NameOf,       \* the natural name of an object, property or metric
    Payloads,     \* the binding lists a triage request may carry
    Ids,          \* row ids (bound: no more rows than these exist at once)
    MaxRequests   \* bound on the requests of a behaviour

None == "none"

ASSUME KeywordAssumption ==
    /\ Lower \in [Words -> Words] /\ Squash \in [Words -> Words]
    /\ \A v, w \in Words : Lower[v] = Lower[w] => Squash[v] = Squash[w]
    /\ OwnerOf \in [Properties -> Objects]
    /\ NameOf \in [Objects \cup Properties \cup Metrics -> Words]
    /\ Ids \subseteq Nat /\ MaxRequests \in Nat

\* Ids of different tables differ, and None is no id.
ASSUME AnchorAssumption ==
    /\ Objects \cap Properties = {} /\ Objects \cap Metrics = {} /\ Objects \cap Intents = {}
    /\ Properties \cap Metrics = {} /\ Properties \cap Intents = {} /\ Metrics \cap Intents = {}
    /\ None \notin Objects

VARIABLES
    objects,   \* ont_object_type: absent, draft (mark = false) or active
    props,     \* the properties that exist
    metrics,   \* lakehouse_metric: object_id (None: no row) and mark
    intents,   \* lakehouse_metric_intent: object_id (None: no row) and mark
    rows,      \* lakehouse_keyword, by id
    jobs,      \* vector jobs collected by the running embedding request
    last,      \* history: the triage request just served
    requests   \* history: requests served (bounded by MaxRequests)

vars == <<objects, props, metrics, intents, rows, jobs, last, requests>>

Anchors == Objects \cup Properties \cup Metrics \cup Intents
NoRequest == [op |-> "other", token |-> None, wants |-> {}]
Kinds == {"od_alias", "column_alias", "value_alias", "intent_trigger"}

\* A binding of a kind names an object, a property or a metric (insertTriageRow
\* takes the id from another field for each kind).
Targets(kind) ==
    CASE kind = "od_alias" -> Objects
      [] kind \in {"column_alias", "value_alias"} -> Properties
      [] kind = "intent_trigger" -> Metrics

ASSUME PayloadAssumption ==
    \A payload \in Payloads :
        /\ payload \in Seq([kind : Kinds, to : Anchors, value : Words \cup {None}])
        /\ \A k \in DOMAIN payload : payload[k].to \in Targets(payload[k].kind)

Rows == [w : Words, ot : Objects, a : SUBSET Anchors, col : BOOLEAN, stop : BOOLEAN,
         al : SUBSET Words, av : SUBSET Words, vec : BOOLEAN, alvec : SUBSET Words]

-----------------------------------------------------------------------------
\* The table: rows carry keyword w, object_type_id ot, the non-null anchor columns
\* a, is_column_name, is_stopword, aliases[] al, the alias_vector children av,
\* and which of the two kinds of vectors are filled in.

SameText(v, w) == Lower[v] = Lower[w]
Mentions(r, w) == \E v \in {r.w} \cup r.al : SameText(v, w)
Present(o) == objects[o] # "absent"

NewRow(w, ot, a, col) ==
    [w |-> w, ot |-> ot, a |-> a, col |-> col, stop |-> FALSE,
     al |-> {}, av |-> {}, vec |-> FALSE, alvec |-> {}]

Keep(t, P(_)) == [i \in {j \in DOMAIN t : P(t[j])} |-> t[i]]

\* UNIQUE (property_id, keyword): NULL property ids never conflict.
Conflicts(t, r) ==
    {i \in DOMAIN t : t[i].w = r.w /\ t[i].a \cap r.a \cap Properties # {}}

\* An id that no row has and no collected vector job still names.
FreshIds(t) == Ids \ (DOMAIN t \cup {j.id : j \in jobs})
Room(t, R) == ExistsInjection(R, FreshIds(t))

\* The rows of R inserted, under ids of their own.
InsertAll(t, R) ==
    LET at == CHOOSE f \in Injection(R, FreshIds(t)) : TRUE
    IN [i \in DOMAIN t \cup {at[r] : r \in R} |->
          IF i \in DOMAIN t THEN t[i] ELSE CHOOSE r \in R : at[r] = i]

Insert(t, r) == InsertAll(t, {r})

Newest(t, u) == CHOOSE i \in DOMAIN u : i \notin DOMAIN t

\* The two CHECK constraints of the table as last altered.
Anchored(r) == r.stop \/ r.a # {}

\* aliases := the other aliases plus w (any casing of w replaced), and the child row.
AddAlias(t, i, w) ==
    [t EXCEPT ![i].al = {v \in @ : ~SameText(v, w)} \cup {w}, ![i].av = @ \cup {w}]

\* Mutant: the child rows are left behind.
StripAliasesOnly(r, w) ==
    [r EXCEPT !.al = {v \in @ : ~SameText(v, w)}]

StripAlias(r, w) ==
    [r EXCEPT !.al = {v \in @ : ~SameText(v, w)},
              !.av = {v \in @ : ~SameText(v, w)},
              !.alvec = {v \in @ : ~SameText(v, w)}]

\* Mutant: only the exact spelling is stripped.
StripExactSpelling(t, w) ==
    [i \in DOMAIN t |-> [t[i] EXCEPT !.al = @ \ {w}, !.av = @ \ {w}, !.alvec = @ \ {w}]]

StripTokenFromAllAliases(t, w) == [i \in DOMAIN t |-> StripAlias(t[i], w)]

Respond(op, token, wants) ==
    /\ requests' = requests + 1
    /\ last' = [op |-> op, token |-> token, wants |-> wants]

Other == Respond("other", None, {})
OntologyUnchanged == UNCHANGED <<objects, props, metrics, intents>>
SetRows(t) == rows' = t /\ UNCHANGED jobs /\ OntologyUnchanged

-----------------------------------------------------------------------------
\* Triage: bind a token to anchors, or ignore it

\* The object a row for the anchor is filed under; the lookups fail (and the
\* transaction is rolled back) when the anchor is gone or the metric inactive.
HomeOf(a) ==
    CASE a \in Objects -> a
      [] a \in Properties -> OwnerOf[a]
      [] a \in Metrics -> metrics[a].ot
      [] OTHER -> intents[a].ot

Exists(a) ==
    \/ a \in Objects /\ Present(a)
    \/ a \in Properties /\ a \in props
    \/ a \in Metrics /\ metrics[a].ot # None
    \/ a \in Intents /\ intents[a].ot # None

Bindable(b) == Exists(b.to) /\ (b.to \in Metrics => metrics[b.to].mark)

\* The text the canonical row of a binding carries.
Canonical(b, token) ==
    IF b.kind # "value_alias" THEN NameOf[b.to]
    ELSE IF b.value = None THEN token ELSE b.value

\* The rows the lookup of the binding's kind accepts.
Candidates(t, b, canonical) ==
    LET live(i) == b.to \in t[i].a /\ ~t[i].stop
        named == {i \in DOMAIN t : live(i) /\ SameText(t[i].w, canonical)}
        column == {i \in DOMAIN t : live(i) /\ t[i].col}
        trigger == {i \in DOMAIN t : live(i)}
        nameFirst(S) == IF S \cap named = {} THEN S ELSE S \cap named
    IN CASE b.kind = "od_alias" -> {i \in named : t[i].a \cap (Properties \cup Metrics) = {}}
         [] b.kind = "column_alias" -> nameFirst(column)   \* then synced_at: any of them
         [] b.kind = "value_alias" -> {i \in named : ~t[i].col}
         [] b.kind = "intent_trigger" -> nameFirst(trigger)

\* recordAliasOnCanonical: the tables one binding may lead to; none when the
\* insert of the canonical row meets the unique constraint.
RecordAliasOnCanonical(t, b, token) ==
    LET canonical == Canonical(b, token)
        row == NewRow(canonical, HomeOf(b.to), {b.to}, b.kind = "column_alias")
        alias(u, i) == IF SameText(token, canonical) THEN u ELSE AddAlias(u, i, token)
    IN IF Candidates(t, b, canonical) # {}
       THEN {alias(t, i) : i \in Candidates(t, b, canonical)}
       ELSE IF Conflicts(t, row) # {} \/ FreshIds(t) = {} THEN {}
       ELSE {alias(Insert(t, row), Newest(t, Insert(t, row)))}

\* handleTriageAssign starts by wiping every mention of the token.
Wiped(token) ==
    StripTokenFromAllAliases(Keep(rows, LAMBDA r : ~SameText(r.w, token)), token)

\* The tables after each prefix of the payload.
InsertTriageRows(token, payload) ==
    LET tables[k \in 0..Len(payload)] ==
          IF k = 0 THEN {Wiped(token)}
          ELSE UNION {RecordAliasOnCanonical(t, payload[k], token) : t \in tables[k - 1]}
    IN tables[Len(payload)]

TriageAssign(token, payload) ==
    /\ \A i \in DOMAIN payload : Bindable(payload[i])
    /\ \E t \in InsertTriageRows(token, payload) : SetRows(t)
    /\ Respond("assign", token, {payload[i].to : i \in DOMAIN payload})

\* pickHolderOd: the oldest marked object (the order of created_at is left open).
TriageIgnore(token, holder) ==
    /\ objects[holder] = "active"
    /\ FreshIds(Wiped(token)) # {}
    /\ SetRows(Insert(Wiped(token), [NewRow(token, holder, {}, FALSE) EXCEPT !.stop = TRUE]))
    /\ Respond("ignore", token, {})

\* loadTriageBindings: what the triage page shows of a token.
TriageBindings(t, token) == {t[i] : i \in {j \in DOMAIN t : Mentions(t[j], token)}}

\* classifyTriageBadge over the counts of handleTriageQueue (which do not count
\* metric_intent_id among the anchors).
ClassifyTriageBadge(t, token) ==
    LET found == TriageBindings(t, token)
        counted(r) == ~r.stop /\ r.a \cap (Objects \cup Properties \cup Metrics) # {}
    IN IF \E r \in found : r.stop THEN "ignored"
       ELSE IF \E r \in found : counted(r) THEN "partial"
       ELSE IF found # {} THEN "floating" ELSE "orphan"

\* handleIntentTriggers, DELETE: one trigger row of a metric.
DeleteTrigger(m, i) ==
    /\ i \in DOMAIN rows /\ m \in rows[i].a
    /\ SetRows([j \in DOMAIN rows \ {i} |-> rows[j]])
    /\ Other

-----------------------------------------------------------------------------
\* Metrics, intents and their trigger keywords

\* insertTriggerKeywords / insertMetricTriggerKeywords: a row per trigger; without
\* a property id no constraint can be hit.
TriggerRows(a, ot, triggers) == {NewRow(w, ot, {a}, FALSE) : w \in triggers}

Without(a) == Keep(rows, LAMBDA r : a \notin r.a)

\* normaliseTriggers: an all-blank list is ErrNoTriggers and nothing is written.
TriggerSets == {T \in SUBSET Words : Cardinality(T) \in 1..2}

WriteMetricWithTriggers(m, o, mark, triggers) ==
    /\ metrics[m].ot = None /\ Present(o)
    /\ Room(rows, TriggerRows(m, o, triggers))
    /\ metrics' = [metrics EXCEPT ![m] = [ot |-> o, mark |-> mark]]
    /\ rows' = InsertAll(rows, TriggerRows(m, o, triggers))
    /\ UNCHANGED <<objects, props, intents, jobs>>
    /\ Other

\* The PUT rewrites the metric; only when the body carries triggerKeywords are the
\* rows replaced (and filed under the new object).
UpdateMetric(m, o, mark) ==
    /\ metrics[m].ot # None /\ Present(o)
    /\ metrics' = [metrics EXCEPT ![m] = [ot |-> o, mark |-> mark]]
    /\ UNCHANGED <<objects, props, intents, rows, jobs>>
    /\ Other

UpdateMetricTriggers(m, o, mark, triggers) ==
    /\ metrics[m].ot # None /\ Present(o)
    /\ Room(Without(m), TriggerRows(m, o, triggers))
    /\ metrics' = [metrics EXCEPT ![m] = [ot |-> o, mark |-> mark]]
    /\ rows' = InsertAll(Without(m), TriggerRows(m, o, triggers))
    /\ UNCHANGED <<objects, props, intents, jobs>>
    /\ Other

DeleteMetric(m) ==
    /\ metrics[m].ot # None
    /\ metrics' = [metrics EXCEPT ![m] = [ot |-> None, mark |-> FALSE]]
    /\ rows' = Without(m)
    /\ UNCHANGED <<objects, props, intents, jobs>>
    /\ Other

ProposeIntent(n, o) ==
    /\ intents[n].ot = None /\ objects[o] = "active"
    /\ intents' = [intents EXCEPT ![n] = [ot |-> o, mark |-> FALSE]]
    /\ UNCHANGED <<objects, props, metrics, rows, jobs>>
    /\ Other

\* handleBuilderActivateIntent: mark and triggers in one transaction.
ActivateIntent(n, triggers) ==
    /\ intents[n].ot # None /\ ~intents[n].mark
    /\ Room(rows, TriggerRows(n, intents[n].ot, triggers))
    /\ intents' = [intents EXCEPT ![n].mark = TRUE]
    /\ rows' = InsertAll(rows, TriggerRows(n, intents[n].ot, triggers))
    /\ UNCHANGED <<objects, props, metrics, jobs>>
    /\ Other

\* builderToolUpdateIntent: keywords of a pending intent are ignored; the rows of
\* the deleted spellings go.
UpdateIntent(n, adds, dels) ==
    LET new == TriggerRows(n, intents[n].ot, adds)
    IN /\ intents[n].ot # None /\ intents[n].mark
       /\ Room(rows, new)
       /\ SetRows(Keep(InsertAll(rows, new), LAMBDA r : ~(n \in r.a /\ r.w \in dels)))
       /\ Other

DeleteIntent(n) ==
    /\ intents[n].ot # None
    /\ intents' = [intents EXCEPT ![n] = [ot |-> None, mark |-> FALSE]]
    /\ rows' = Without(n)
    /\ UNCHANGED <<objects, props, metrics, jobs>>
    /\ Other

-----------------------------------------------------------------------------
\* The keyword pages of collector-server

\* handleSyncPropertyKeywords: the rows of the property are replaced by the
\* distinct values of its column and its name (texts equal up to case are one).
SyncPropertyKeywords(p, values) ==
    LET kept == Without(p)
        named == \E v \in values : SameText(v, NameOf[p])
        texts == values \cup (IF named THEN {} ELSE {NameOf[p]})
        new == {NewRow(v, OwnerOf[p], {p}, SameText(v, NameOf[p])) : v \in texts}
    IN /\ p \in props
       /\ \A v, w \in values : SameText(v, w) => v = w
       /\ Room(kept, new)
       /\ SetRows(InsertAll(kept, new))
       /\ Other

\* handleLakehouseKeywords, POST: under an existing (property, keyword) the flag and
\* the intent are overwritten.
CreateKeyword(w, a, col) ==
    LET home == IF a \cap Properties # {} THEN HomeOf(CHOOSE p \in a \cap Properties : TRUE)
                ELSE HomeOf(CHOOSE n \in a : TRUE)
        row == NewRow(w, home, a, col)
        clash == Conflicts(rows, row)
    IN /\ a # {} /\ \A x \in a : Exists(x)
       /\ \/ /\ clash # {}
             /\ SetRows([i \in DOMAIN rows |->
                          IF i \notin clash THEN rows[i]
                          ELSE [rows[i] EXCEPT !.col = col,
                                               !.a = (@ \ Intents) \cup (a \cap Intents)]])
          \/ clash = {} /\ FreshIds(rows) # {} /\ SetRows(Insert(rows, row))
       /\ Other

\* handleLakehouseKeywordsBulkCreate (one item; items are independent): aliases are
\* stored without child rows, and a clash is reported, not merged.
BulkCreateKeyword(w, a, col, aliases) ==
    LET home == IF a \cap Properties # {} THEN HomeOf(CHOOSE p \in a \cap Properties : TRUE)
                ELSE IF a \cap Objects # {} THEN CHOOSE o \in a \cap Objects : TRUE
                ELSE HomeOf(CHOOSE n \in a : TRUE)
        row == [NewRow(w, home, a, col) EXCEPT !.al = aliases]
    IN /\ a # {} /\ \A x \in a : Exists(x)
       /\ Conflicts(rows, row) = {} /\ FreshIds(rows) # {}
       /\ SetRows(Insert(rows, row))
       /\ Other

\* handleLakehouseKeywords DELETE and BulkDelete.
DeleteKeywords(S) ==
    /\ S # {} /\ S \subseteq DOMAIN rows
    /\ SetRows([i \in DOMAIN rows \ S |-> rows[i]])
    /\ Other

\* handleToggleColumnName and BulkUpdate; a row may not lose its last anchor.
UpdateKeyword(i, col, stop) ==
    /\ i \in DOMAIN rows
    /\ Anchored([rows[i] EXCEPT !.stop = stop])
    /\ SetRows([rows EXCEPT ![i].col = col, ![i].stop = stop])
    /\ Other

\* BulkReanchor: one anchor column set or cleared; the object_type_id is not touched.
Reanchor(i, column, to) ==
    LET row == [rows[i] EXCEPT !.a = (@ \ column) \cup to]
    IN /\ i \in DOMAIN rows
       /\ \A x \in to : Exists(x)
       /\ Anchored(row)
       /\ Conflicts([j \in DOMAIN rows \ {i} |-> rows[j]], row) = {}
       /\ SetRows([rows EXCEPT ![i] = row])
       /\ Other

\* handleLakehouseKeywordAliases: aliases replaced, children pruned and added.
SetAliases(i, aliases) ==
    /\ i \in DOMAIN rows
    /\ SetRows([rows EXCEPT ![i].al = aliases, ![i].av = aliases, ![i].alvec = @ \cap aliases])
    /\ Other

\* handleColumnAliasCanonical: POST shares the canonical lookup with triage.
AddColumnAlias(p, w) ==
    LET b == [kind |-> "column_alias", to |-> p, value |-> None]
    IN /\ p \in props
       /\ \E t \in RecordAliasOnCanonical(rows, b, w) : SetRows(t)
       /\ Other

RemoveColumnAlias(p, w) ==
    /\ p \in props
    /\ SetRows([i \in DOMAIN rows |->
                 IF p \in rows[i].a /\ rows[i].col THEN StripAlias(rows[i], w) ELSE rows[i]])
    /\ Other

-----------------------------------------------------------------------------
\* The embedding request: backfill the missing child rows, collect what has no
\* vector, then embed and write back in batches.  A batch touches only the rows
\* of its own jobs, so one job at a time; a failed batch is skipped.

VectorJobs(t) ==
    UNION {(IF t[i].vec THEN {} ELSE {[id |-> i, kind |-> "keyword", text |-> t[i].w]})
           \cup {[id |-> i, kind |-> "alias", text |-> v] : v \in t[i].av \ t[i].alvec}
             : i \in DOMAIN t}

BackfillAliasRows(t) == [i \in DOMAIN t |-> [t[i] EXCEPT !.av = @ \cup t[i].al]]

CollectVectorJobs ==
    /\ jobs = {}
    /\ rows' = BackfillAliasRows(rows)
    /\ jobs' = VectorJobs(BackfillAliasRows(rows))
    /\ OntologyUnchanged
    /\ Respond("embed", None, {})

WithVector(j) ==
    IF j.id \notin DOMAIN rows THEN rows
    ELSE IF j.kind = "keyword" THEN [rows EXCEPT ![j.id].vec = TRUE]
    ELSE [rows EXCEPT ![j.id].alvec = @ \cup ({j.text} \cap rows[j.id].av)]

WriteVectorsBack(j) ==
    /\ jobs' = jobs \ {j}
    /\ rows' = WithVector(j)
    /\ OntologyUnchanged /\ UNCHANGED <<last, requests>>

EmbedFails(j) ==
    /\ jobs' = jobs \ {j}
    /\ last' = NoRequest
    /\ OntologyUnchanged /\ UNCHANGED <<rows, requests>>

-----------------------------------------------------------------------------
\* Ontology import and deletes, as far as they reach the keyword table

\* activateAndSeedKeywords: every unmarked object and property of the project is
\* activated; an object without a keyword row of its own (no property, no intent,
\* no stopword; a metric trigger counts) and a property without any row get one.
Unseeded(o, t) ==
    ~\E i \in DOMAIN t : /\ t[i].ot = o /\ ~t[i].stop
                         /\ t[i].a \cap (Properties \cup Intents) = {}

Seeds(present, existing, t) ==
    {NewRow(Lower[NameOf[o]], o, {o}, FALSE) : o \in {x \in present : Unseeded(x, t)}}
    \cup {NewRow(Lower[NameOf[p]], OwnerOf[p], {p}, TRUE) :
            p \in {x \in existing : \A i \in DOMAIN t : x \notin t[i].a}}

\* PopulateOntology for the table behind object o, with all its columns.
PopulateOntology(o) ==
    LET present == {x \in Objects : Present(x)} \cup {o}
        existing == props \cup {p \in Properties : OwnerOf[p] = o}
        seeds == Seeds(present, existing, rows)
    IN /\ Room(rows, seeds)
       /\ objects' = [x \in Objects |-> IF x \in present THEN "active" ELSE "absent"]
       /\ props' = existing
       /\ rows' = InsertAll(rows, seeds)
       /\ UNCHANGED <<metrics, intents, jobs>>
       /\ Other

MarkObject(o, mark) ==
    /\ Present(o)
    /\ objects' = [objects EXCEPT ![o] = IF mark THEN "active" ELSE "draft"]
    /\ UNCHANGED <<props, metrics, intents, rows, jobs>>
    /\ Other

Dropped(r, gone) == r.ot \in gone \/ r.a \cap gone # {}
Surviving(gone) == Keep(rows, LAMBDA r : ~Dropped(r, gone))

\* ON DELETE CASCADE from ont_object_type to properties, metrics, intents, keywords.
DeleteObjects(S) ==
    LET gone == S \cup {p \in props : OwnerOf[p] \in S}
                  \cup {m \in Metrics : metrics[m].ot \in S}
                  \cup {n \in Intents : intents[n].ot \in S}
        cut(f) == [x \in DOMAIN f |-> IF x \in gone THEN [ot |-> None, mark |-> FALSE] ELSE f[x]]
    IN /\ S # {} /\ \A o \in S : Present(o)
       /\ objects' = [o \in Objects |-> IF o \in S THEN "absent" ELSE objects[o]]
       /\ props' = props \ gone
       /\ metrics' = cut(metrics) /\ intents' = cut(intents)
       /\ rows' = Surviving(gone)
       /\ UNCHANGED jobs
       /\ Other

DeleteProperty(p) ==
    /\ p \in props
    /\ props' = props \ {p}
    /\ rows' = Surviving({p})
    /\ UNCHANGED <<objects, metrics, intents, jobs>>
    /\ Other

-----------------------------------------------------------------------------
\* Recall of a token, exact tier: by property, by object, by metric

ExactText(r, token) ==
    SameText(r.w, token) \/ \E v \in r.al : Squash[v] = Squash[token]

RecalledProperties(token) ==
    {p \in props : objects[OwnerOf[p]] = "active"
                   /\ \E i \in DOMAIN rows : p \in rows[i].a /\ ~rows[i].stop
                                             /\ ExactText(rows[i], token)}

RecalledObjects(token) ==
    {o \in Objects : objects[o] = "active"
                     /\ \E i \in DOMAIN rows : /\ o \in rows[i].a /\ ~rows[i].stop
                                               /\ rows[i].a \cap Properties = {}
                                               /\ ExactText(rows[i], token)}

RecalledMetrics(token) ==
    {m \in Metrics : metrics[m].mark /\ objects[metrics[m].ot] = "active"
                     /\ \E i \in DOMAIN rows : /\ m \in rows[i].a /\ ~rows[i].stop
                                               /\ \E v \in {rows[i].w} \cup rows[i].al :
                                                     Squash[v] = Squash[token]}

Recalled(token) == RecalledProperties(token) \cup RecalledObjects(token) \cup RecalledMetrics(token)

-----------------------------------------------------------------------------
\* An imported object o1 with its columns; the other objects are still absent.
Init ==
    /\ jobs = {}
    /\ \E o \in Objects :
         LET existing == {p \in Properties : OwnerOf[p] = o}
         IN /\ objects = [x \in Objects |-> IF x = o THEN "active" ELSE "absent"]
            /\ props = existing
            /\ Room(<<>>, Seeds({o}, existing, <<>>))
            /\ rows = InsertAll(<<>>, Seeds({o}, existing, <<>>))
    /\ metrics = [m \in Metrics |-> [ot |-> None, mark |-> FALSE]]
    /\ intents = [n \in Intents |-> [ot |-> None, mark |-> FALSE]]
    /\ last = NoRequest
    /\ requests = 0

Triage ==
    \E token \in Words :
        \/ \E payload \in Payloads : TriageAssign(token, payload)
        \/ \E o \in Objects : TriageIgnore(token, o)

MetricRequest ==
    \E m \in Metrics :
        \/ \E i \in DOMAIN rows : DeleteTrigger(m, i)
        \/ DeleteMetric(m)
        \/ \E o \in Objects, mark \in BOOLEAN :
             \/ UpdateMetric(m, o, mark)
             \/ \E T \in TriggerSets : WriteMetricWithTriggers(m, o, mark, T)
                                       \/ UpdateMetricTriggers(m, o, mark, T)

IntentRequest ==
    \E n \in Intents :
        \/ \E o \in Objects : ProposeIntent(n, o)
        \/ DeleteIntent(n)
        \/ \E T \in TriggerSets : ActivateIntent(n, T)
        \/ \E add, del \in Words : UpdateIntent(n, {add}, {del})

KeywordRequest ==
    \/ \E p \in Properties, w \in Words : AddColumnAlias(p, w) \/ RemoveColumnAlias(p, w)
                                          \/ SyncPropertyKeywords(p, {w})
    \/ \E x \in Properties \cup Intents, w \in Words, col \in BOOLEAN :
         CreateKeyword(w, {x}, col) \/ \E v \in Words : BulkCreateKeyword(w, {x}, col, {v})
    \/ \E p \in Properties, n \in Intents, w \in Words : CreateKeyword(w, {p, n}, FALSE)
    \/ \E i \in DOMAIN rows :
         \/ \E col, stop \in BOOLEAN : UpdateKeyword(i, col, stop)
         \/ \E column \in {Objects, Properties, Intents} :
              Reanchor(i, column, {}) \/ \E x \in column : Reanchor(i, column, {x})
         \/ \E v, w \in Words : SetAliases(i, {v, w})
         \/ DeleteKeywords({i})
    \/ DeleteKeywords(DOMAIN rows)

EmbedJob == \E j \in jobs : WriteVectorsBack(j) \/ EmbedFails(j)

OntologyRequest ==
    \/ \E o \in Objects : PopulateOntology(o) \/ DeleteObjects({o})
                          \/ \E mark \in BOOLEAN : MarkObject(o, mark)
    \/ DeleteObjects({o \in Objects : Present(o)})
    \/ \E p \in Properties : DeleteProperty(p)

Request ==
    \/ Triage
    \/ MetricRequest
    \/ IntentRequest
    \/ KeywordRequest
    \/ CollectVectorJobs
    \/ OntologyRequest

Next == (requests < MaxRequests /\ Request) \/ EmbedJob

Spec == Init /\ [][Next]_vars

-----------------------------------------------------------------------------
\* Referential integrity of the table under every sequence of requests: anchors and
\* the home object of a row exist (the foreign keys cascade), no row loses its last
\* anchor without being a stopword, and (property, keyword) stays unique.
TypeOK ==
    /\ objects \in [Objects -> {"absent", "draft", "active"}]
    /\ DOMAIN rows \subseteq Ids
    /\ \A i \in DOMAIN rows :
         /\ rows[i] \in Rows
         /\ Present(rows[i].ot)
         /\ \A a \in rows[i].a : Exists(a)
         /\ Anchored(rows[i])
         /\ Conflicts(rows, rows[i]) \subseteq {i}

\* A token assigned to an active metric recalls that metric, except the metric's own
\* name, which recordAliasOnCanonical takes for recorded even when the row that carried
\* it was just wiped (src/services/backend-api/handler/handler_triage.go:666).
AssignedIsRecalled(m) ==
    objects[metrics[m].ot] = "active" /\ ~SameText(NameOf[m], last.token) => m \in Recalled(last.token)

\* Triage owns a token: right after an assignment every row that still mentions it
\* (as the triage page reads them) belongs to one of the requested anchors, a metric
\* so assigned is recalled, and after an ignore the stopword row is the only mention
\* (handleTriageAssign).
TriageReplaces ==
    /\ last.op = "assign" =>
         \A r \in TriageBindings(rows, last.token) : r.a \cap last.wants # {} /\ ~r.stop
    /\ last.op = "ignore" =>
         /\ \A r \in TriageBindings(rows, last.token) : r.stop
         /\ ClassifyTriageBadge(rows, last.token) = "ignored"
    /\ last.op = "assign" =>
         \A m \in last.wants \cap Metrics : AssignedIsRecalled(m)

\* An alias that was removed leaves no vector that recall's vector tier would still
\* match: every child row spells a current alias, up to case.
NoGhostAlias ==
    \A i \in DOMAIN rows : \A v \in rows[i].av : \E w \in rows[i].al : SameText(v, w)

\* An embedding request that met no failure and no other request leaves no keyword
\* and no alias without a vector, aliases stored without a child row included.
EmbeddingCovers ==
    (last.op = "embed" /\ jobs = {}) =>
        \A i \in DOMAIN rows : rows[i].vec /\ rows[i].al \subseteq rows[i].alvec

\* The table is sound after every request: integrity, and alias vectors that match
\* the aliases both ways.
KeywordTableIsSound == TypeOK /\ NoGhostAlias /\ EmbeddingCovers
=============================================================================
