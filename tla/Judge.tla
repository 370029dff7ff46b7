-------------------------------- MODULE Judge --------------------------------
(***************************************************************************)
(* agent-server: whether a question can be answered at all, decided from   *)
(* what the model says it needs and what recall found, before anything is  *)
(* queried (reachability_judge.go, pkg/mission/coverage.go), and the       *)
(* model's later claim that it cannot be (tool_declare_gap.go).            *)
(*                                                                         *)
(* A word is the set of its letters, as normForDomain leaves them; a word  *)
(* contains another when it is a superset.                                 *)
(*   metric  [name, tokens, params], a param [name, prop, shape]           *)
(*   rr      what recall found: [metrics: a sequence, details: token ->    *)
(*           hits [field, column], columns: [word, ref] of the properties  *)
(*           a column name matched]                                        *)
(*   hint    one thing the question needs, as the model puts it: [kind,    *)
(*           name, value, shape, covered, by]; {} is an empty word         *)
(*   metrics  the set of those the judge looks at, of the turn and the    *)
(*           thread                                                        *)
(*   db      [rows: [prop, word, code] of the values' keywords, fails]     *)
(***************************************************************************)
EXTENDS Integers, Sequences, FiniteSets, Functions

CONSTANTS DomainCap,        \* valueDomainCap: a property with more values is not enumerable
          HistoryTurns      \* judgeHistoryMaxTurns

\* What the instances assume of the caps.
CapsAssumption == DomainCap \in Nat /\ HistoryTurns \in Nat

Alike(a, b) == a \subseteq b \/ b \subseteq a

-----------------------------------------------------------------------------
(* What recall settled *)

\* The role of a token: a metric's word, else a value, else a column.  A hit without a field gives none.
TokenRole(rr, t) ==
    LET hits == IF t \in DOMAIN rr.details THEN Range(rr.details[t]) ELSE {}
        of(column) == {h \in hits : h.column = column /\ h.field # ""}
    IN  IF \E i \in DOMAIN rr.metrics : t \in rr.metrics[i].tokens THEN "metric"
        ELSE IF of(FALSE) # {} THEN "value"
        ELSE IF of(TRUE) # {} THEN "column" ELSE ""
Tokens(rr) == DOMAIN rr.details \cup UNION {rr.metrics[i].tokens : i \in DOMAIN rr.metrics}
summarizeRecallResolution(rr) == {t \in Tokens(rr) : TokenRole(rr, t) # ""}
recallResolves(h, resolved) == \E w \in {h.value, h.name} : Cardinality(w) >= 2 /\ \E r \in resolved : Alike(r, w)

\* The dimensions the question groups by, as columns.  Where several columns are alike, a map's
\* iteration order decides: the result is the set of what it may be.
requiredDimsFromRecall(hints, rr) ==
    LET like(w) == LET same == {c \in rr.columns : c.word = w}
                   IN  {c.ref : c \in IF same # {} THEN same ELSE {c \in rr.columns : w # {} /\ Alike(c.word, w)}}
        refs(h) == IF like(h.name) # {} THEN like(h.name) ELSE like(h.value)
        asked == {h \in Range(hints) : h.kind = "dimension" /\ refs(h) # {}}
    IN  {Range(pick) : pick \in {f \in [asked -> {c.ref : c \in rr.columns}] : \A h \in asked : f[h] \in refs(h)}}

ThreadsReplaceTurns(current, accumulated) == Range(IF accumulated = <<>> THEN current ELSE accumulated)
\* This turn's metrics and the thread's: the first of each name.  Their order is only shown.
unionMetricIntents(current, accumulated) ==
    LET all == current \o accumulated
        isFirst(i) == all[i].name # "" /\ \A j \in DOMAIN all : j < i => all[j].name # all[i].name
    IN  {all[i] : i \in {i \in DOMAIN all : isFirst(i)}}

-----------------------------------------------------------------------------
(* What the model says the question needs *)

normalizeReqItems(items) ==
    [i \in DOMAIN SelectSeq(items, LAMBDA it : it.name # {}) |->
        LET it == SelectSeq(items, LAMBDA x : x.name # {})[i]
        IN  [it EXCEPT !.kind = IF it.kind \in {"dimension", "filter"} THEN it.kind ELSE "metric"]]
cleanSubQuestions(subs) == Range(subs) \ {""}
\* reply: [form: "object", "array" or "junk", subs, items].  An object with nothing in it is an error.
parseDecompJSON(reply) ==
    CASE reply.form = "object" /\ (reply.items # <<>> \/ reply.subs # <<>>) ->
           {[subs |-> cleanSubQuestions(reply.subs), hints |-> normalizeReqItems(reply.items)]}
      [] reply.form = "array" -> {[subs |-> {}, hints |-> normalizeReqItems(reply.items)]}
      [] reply.form = "junk" \/ (reply.form = "object" /\ reply.items = <<>> /\ reply.subs = <<>>) -> {}
\* Without a model, or when its call fails, there is no verdict.
decomposeQuestion(configured, answers, reply) == IF configured /\ answers THEN parseDecompJSON(reply) ELSE {}
\* What of the thread the model is shown: [role, text], "" a blank text.
renderJudgeHistory(history) ==
    SelectSeq(SubSeq(history, IF Len(history) > HistoryTurns THEN Len(history) - HistoryTurns + 1 ELSE 1, Len(history)),
              LAMBDA h : h.text # "" /\ h.role \in {"user", "assistant"})

-----------------------------------------------------------------------------
(* Coverage *)

Covers(p, dim) == dim # {} /\ (p.name = dim \/ p.prop = dim)
CoveringIntents(dim, metrics) == {m.name : m \in {m \in metrics : \E p \in m.params : Covers(p, dim)}}
VerifyNoParamGap(dim, metrics) == dim # {} /\ CoveringIntents(dim, metrics) = {}
\* satisfies: shape -> the shapes it also serves.
anyCitedIntentServesShape(cited, shape, metrics, satisfies) ==
    /\ shape # ""
    /\ \E m \in metrics : \E p \in m.params :
          /\ m.name \in cited /\ p.shape # ""
          /\ (p.shape = shape \/ (p.shape \in DOMAIN satisfies /\ shape \in satisfies[p.shape]))

\* Where a value is known: the enumerable properties that have it, else anywhere at all.
resolveFilterValue(db, v) ==
    LET domain(p) == {r.word : r \in {r \in db.rows : r.prop = p /\ ~r.code}}
        low == {p \in {r.prop : r \in {r \in db.rows : r.word = v /\ ~r.code}} : Cardinality(domain(p)) <= DomainCap}
    IN  IF db.fails THEN [exists |-> TRUE, low |-> {}]
        ELSE [exists |-> low # {} \/ \E r \in db.rows : r.word = v, low |-> low]
\* A word of digits is a number or a date.
looksNumericOrDate(v) == v # {} /\ v \subseteq {"0", "1", "2"}

\* What one need comes to: "fine", "gap" or "clarify", and whether it is shown as covered.
JudgeHint(db, h, metrics, vocab, resolved) ==
    LET cited == h.by \cap {m.name : m \in metrics}
        fits == h.shape \in DOMAIN vocab => anyCitedIntentServesShape(cited, h.shape, metrics, vocab)
        shown == \/ h.covered /\ cited # {}
                 \/ h.covered /\ CoveringIntents(h.name, metrics) # {}
        checked == h.kind = "filter" /\ h.value # {} /\ ~looksNumericOrDate(h.value)
        known == resolveFilterValue(db, h.value)
    IN  IF h.kind \notin {"dimension", "filter"} \/ recallResolves(h, resolved)
        THEN [is |-> "fine", covered |-> TRUE]
        ELSE IF h.covered /\ cited # {} /\ ~fits THEN [is |-> "gap", covered |-> FALSE]
        ELSE IF checked /\ ~known.exists THEN [is |-> "gap", covered |-> FALSE]
        ELSE IF checked /\ Cardinality(known.low) >= 2 THEN [is |-> "clarify", covered |-> FALSE]
        ELSE [is |-> "fine", covered |-> shown]
\* Without any metric nothing can be measured.  A gap outweighs a need to ask back.
buildVerdictFromLLMHints(db, hints, metrics, vocab, resolved) ==
    LET judged == [i \in DOMAIN hints |-> JudgeHint(db, hints[i], metrics, vocab, resolved)]
        is == {judged[i].is : i \in DOMAIN judged} \cup (IF metrics = {} THEN {"gap"} ELSE {})
    IN  [feasible |-> is \subseteq {"fine"},
         kind |-> IF "gap" \in is THEN "gap" ELSE IF "clarify" \in is THEN "clarify" ELSE "",
         covered |-> [i \in DOMAIN hints |-> judged[i].covered]]
\* Named in a refusal.
AnswerableSubset(hints, verdict) ==
    {hints[i].name : i \in {i \in DOMAIN hints : hints[i].kind \in {"dimension", "filter"} /\ verdict.covered[i]}}

\* A follow-up question is judged and recorded, never refused.
reachabilityAnswer(verdict, followUp) == IF verdict.feasible \/ followUp THEN "" ELSE verdict.kind
\* The judge's hook in a turn: nothing is said when the model has no needs to judge.
runReachabilityJudge(db, rr, accumulated, vocab, hints, followUp) ==
    LET metrics == unionMetricIntents(rr.metrics, accumulated)
        verdict == buildVerdictFromLLMHints(db, hints, metrics, vocab, summarizeRecallResolution(rr))
    IN  [verdict |-> verdict, answer |-> IF hints = <<>> THEN "" ELSE reachabilityAnswer(verdict, followUp)]

-----------------------------------------------------------------------------
(* declare_capability_gap: the model gives up on a dimension *)

\* Only a claim that no parameter exists is checked, against this turn's metrics.
runDeclareCapabilityGap(rr, dim, kind) ==
    LET claimed == IF kind = "" THEN "no_param" ELSE kind
        accepted == dim # {} /\ (claimed = "no_param" => VerifyNoParamGap(dim, Range(rr.metrics)))
    IN  [terminal |-> accepted,
         kind |-> IF claimed \in {"shape_unsupported", "no_data"} THEN claimed ELSE "no_param"]

-----------------------------------------------------------------------------
(* Properties *)

\* The thread's metrics only help: a question that can be answered with this turn's metrics can be
\* answered with the thread's as well, and the same parts are shown as covered - unless a need names
\* a metric of the thread, whose shapes are then looked at.
ThreadMetricsHelp(db, rr, accumulated, vocab, hints) ==
    LET alone == runReachabilityJudge(db, rr, <<>>, vocab, hints, FALSE).verdict
        both == runReachabilityJudge(db, rr, accumulated, vocab, hints, FALSE).verdict
        names == {m.name : m \in Range(accumulated)} \ {m.name : m \in Range(rr.metrics)}
        cites(i) == hints[i].by \cap names # {}
    IN  /\ alone.feasible /\ ~both.feasible => \E i \in DOMAIN hints : cites(i)
        /\ \A i \in DOMAIN hints : alone.covered[i] => both.covered[i] \/ cites(i)

\* The two ways a turn can give up agree: what the judge counts among the answerable parts is not
\* accepted as a dimension without a parameter - unless it counts because recall settled it or the
\* model named a metric for it, or the metric that covers it is of an earlier turn.
AnswerableIsNoGap(db, rr, accumulated, vocab, hints) ==
    LET verdict == runReachabilityJudge(db, rr, accumulated, vocab, hints, FALSE).verdict
        given(h) == recallResolves(h, summarizeRecallResolution(rr)) \/ h.by # {}
        earlier == {m \in Range(accumulated) : m.name \notin {n.name : n \in Range(rr.metrics)}}
    IN  \A dim \in AnswerableSubset(hints, verdict) : runDeclareCapabilityGap(rr, dim, "").terminal =>
          \/ \E h \in Range(hints) : h.name = dim /\ given(h)
          \/ \E m \in earlier : \E p \in m.params : Covers(p, dim)

=============================================================================
