------------------------------- MODULE Answer -------------------------------
(***************************************************************************)
(* agent-server: what becomes of a query's result before it is answered.   *)
(* The synthesizer (synthesizer/synthesizer.go) has a model draft a text   *)
(* and checks it against the question, the query and its rows; reflection  *)
(* (tool_reflect.go) compares the shape of the result with the question    *)
(* and advises what to query next.                                         *)
(*                                                                         *)
(* A text is a set of words, a question a sequence of them; " " separates  *)
(* two of a question's words, which otherwise stand side by side.          *)
(*   in    what a draft is checked against: [question, groupBy, filters:   *)
(*         {[prop, op, value]}, intent, suffix, axis, template, columns,   *)
(*         totalLabel, rows: a sequence of [total, dims], summary:         *)
(*         [total, distinct]]; "" is an absent word                        *)
(*   resp  a query's result: [rows, columns, groupBy, filters, plan]       *)
(***************************************************************************)
EXTENDS Integers, Sequences, FiniteSets, Functions, SequencesExt, TLC

CONSTANTS
    Within,             \* Within[w]: the words that are part of w, w included
    Letters,            \* the words too short to be looked for (one rune, or a number under four digits)
    Indicators,         \* indicatorTerms: the words for a share
    AllPrefixes,        \* shareOfAllPrefixes
    ScopeMarkers,       \* the words that state a denominator
    Globe,              \* the word that claims there is no filter
    BreakdownPhrases,   \* per, by, each ...
    DimTriggers,        \* breakdownDimTriggers: the phrases a dimension may follow, in their order
    RankingPhrases,     \* top, highest ...
    DimWords,           \* dimWordsForExtract
    HintWords,          \* the candidates of extractDimensionHints
    Synonyms,           \* dimSynonyms: dimension word -> the column words for it
    Nouns,              \* the nouns of filterValuePatterns, in their order
    Locatives           \* and what may follow them

Says(text, w) == \E x \in text : w \in Within[x]
Asks(question, w) == Says(Range(question), w)

-----------------------------------------------------------------------------
(* What the draft is checked against *)

\* The words for a share the question uses; one that is only part of a longer one does not count.
ExtractIndicators(question) ==
    LET longest(x) == {t \in Within[x] \cap Indicators : \A u \in Within[x] \cap Indicators : t \in Within[u] => u = t}
    IN  UNION {longest(x) : x \in Range(question)}

\* The literal parts of a template, outside its (nested) holes.
extractTemplateLiterals(template) ==
    FoldLeft(LAMBDA s, x : CASE x = "{" -> [s EXCEPT !.depth = @ + 1]
                             [] x = "}" -> [s EXCEPT !.depth = IF @ > 0 THEN @ - 1 ELSE @]
                             [] OTHER   -> IF s.depth = 0 THEN [s EXCEPT !.out = @ \cup {x}] ELSE s,
             [depth |-> 0, out |-> {}], template).out

\* From the query's response; the pivot's settings are there when it was pivoted.
SynthInput(question, resp, pivot, rows, summary) ==
    [question |-> question, groupBy |-> resp.groupBy, filters |-> resp.filters, intent |-> resp.intent,
     suffix |-> pivot.suffix, axis |-> pivot.axis, template |-> pivot.template, columns |-> pivot.columns,
     totalLabel |-> pivot.totalLabel, rows |-> rows, summary |-> summary]

-----------------------------------------------------------------------------
(* The ten checks *)

checkUserTermsPreserved(draft, in) == \A t \in ExtractIndicators(in.question) : Says(draft, t)
\* Another word for a share than the user's.
checkBlacklistedTermsAbsent(draft, in) ==
    LET used == ExtractIndicators(in.question)
    IN  used = {} \/ \A t \in Indicators \ (Letters \cup used) : ~Says(draft, t)
checkFiltersEchoed(draft, in) ==
    \A f \in in.filters : f.value = "" \/ f.value \in Letters \/ Says(draft, f.value)
checkResponseTplFollowed(draft, in) ==
    \A lit \in extractTemplateLiterals(in.template) \ Letters : Says(draft, lit)
checkPivotSuffixUsed(draft, in) ==
    in.columns = {} \/ in.suffix = "" \/ \E c \in in.columns \cup {in.suffix} : Says(draft, c)
checkScopeStated(draft, in) == in.axis = "" \/ in.intent = "" \/ \E m \in ScopeMarkers : Says(draft, m)

\* A share of one slice is no share: a filter on the dimension that the question compares.
SuspectFilters(in) ==
    LET next(i, p) == IF i < Len(in.question) /\ in.question[i + 1] = " " THEN i + 2 ELSE i + 1
        allOf(p) == \E i \in DOMAIN in.question :
                       /\ in.question[i] \in AllPrefixes
                       /\ next(i, p) \in DOMAIN in.question /\ p \in Within[in.question[next(i, p)]]
    IN  {f \in in.filters : /\ f.op \in {"", "=", "in"}
                            /\ Asks(in.question, f.prop)
                            /\ f.prop \in in.groupBy \/ allOf(f.prop)}
checkShareHasDenominator(in) ==
    \/ ExtractIndicators(in.question) = {} \/ Len(in.rows) > 2 \/ in.filters = {}
    \/ SuspectFilters(in) = {}
\* What that check recommends instead: without the filters, by their dimensions.
SuggestedQuery(in) ==
    [in EXCEPT !.filters = @ \ SuspectFilters(in),
               !.groupBy = @ \cup {f.prop : f \in SuspectFilters(in)}]

checkDenomLabelPrecise(draft, in) ==
    \/ in.filters = {}
    \/ \E t \in ExtractIndicators(in.question) : Globe \in Within[t]
    \/ ~Says(draft, Globe)

ZeroRowsOfTheRest(draft, in) ==
    \/ in.totalLabel = ""
    \/ \A i \in DOMAIN in.rows : in.rows[i].total = 0 => \A v \in in.rows[i].dims \ Letters : ~Says(draft, v)
\* A row without data is not to be named, unless the user did.
checkZeroTotalRowsNotClaimed(draft, in) ==
    \/ in.totalLabel = ""
    \/ \A i \in DOMAIN in.rows :
          in.rows[i].total = 0 =>
            \A v \in in.rows[i].dims \ Letters : Asks(in.question, v) \/ ~Says(draft, v)
\* Nor counted.
checkRowCountUsesDistinct(draft, in) ==
    \/ in.summary.total = in.summary.distinct
    \/ Asks(in.question, in.summary.total)
    \/ ~Says(draft, in.summary.total) \/ Says(draft, in.summary.distinct)

runMechanicalChecks(draft, in) ==
    {gap \in {"term_drift", "blacklist_term", "filter_missing", "template_skipped", "scope_unstated",
              "data_insufficient", "denom_mislabeled", "phantom_zero_row", "total_rows_inflated"} :
        CASE gap = "term_drift"          -> ~checkUserTermsPreserved(draft, in)
          [] gap = "blacklist_term"      -> ~checkBlacklistedTermsAbsent(draft, in)
          [] gap = "filter_missing"      -> ~checkFiltersEchoed(draft, in)
          [] gap = "template_skipped"    -> ~(checkResponseTplFollowed(draft, in) /\ checkPivotSuffixUsed(draft, in))
          [] gap = "scope_unstated"      -> ~checkScopeStated(draft, in)
          [] gap = "data_insufficient"   -> ~checkShareHasDenominator(in)
          [] gap = "denom_mislabeled"    -> ~checkDenomLabelPrecise(draft, in)
          [] gap = "phantom_zero_row"    -> ~checkZeroTotalRowsNotClaimed(draft, in)
          [] gap = "total_rows_inflated" -> ~checkRowCountUsesDistinct(draft, in)}

\* The model's draft, which may be any text; none when no model is configured or its call fails.
composeWithLLM(configured, text) == IF configured THEN text ELSE {}
SynthRun(draft, in) ==
    LET gaps == IF draft = {} THEN {"compose_failed"} ELSE runMechanicalChecks(draft, in)
    IN  [passed |-> gaps = {}, gaps |-> gaps, answer |-> IF gaps = {} THEN draft ELSE {}]

-----------------------------------------------------------------------------
(* Reflection *)

\* The dimension word right after a phrase such as "each": the first phrase's, at its first place.
extractBreakdownDim(question) ==
    LET tail(i) == IF i < Len(question) /\ question[i + 1] = " " THEN i + 2 ELSE i + 1
        places == {p \in (DOMAIN DimTriggers) \X (DOMAIN question) :
                      /\ question[p[2]] = DimTriggers[p[1]]
                      /\ tail(p[2]) \in DOMAIN question /\ question[tail(p[2])] \in DimWords}
        first == CHOOSE p \in places : \A q \in places : p[1] < q[1] \/ (p[1] = q[1] /\ p[2] <= q[2])
    IN  IF places = {} THEN "" ELSE question[tail(first[2])]
extractDimensionHints(question) == {w \in HintWords : Asks(question, w)}

extractResultColumns(resp) == IF resp.rows = 0 THEN {} ELSE resp.columns
\* A query's own grouping is a list of strings here, which the type switch does not know.
summariseGroupBy(resp) == {}
unionColumns(resp) == (summariseGroupBy(resp) \cup extractResultColumns(resp)) \ {""}
dimMatchesAnyColumn(dim, columns) ==
    \E c \in columns : \E s \in {dim} \cup Synonyms[dim] : s \in Within[c]

\* What stands right before "category" in "... category below", back to a separator.  Not when all of
\* it is "each" or "all": the next noun's turn then.
detectFilterValueMention(question) ==
    LET end(i) == IF i > 1 /\ question[i - 1] = " " THEN i - 2 ELSE i - 1
        start(i) == CHOOSE s \in 1..(end(i) + 1) : /\ s = 1 \/ question[s - 1] = " "
                                                   /\ \A j \in s..end(i) : question[j] # " "
        places(n) == {i \in 2..(Len(question) - 1) : /\ question[i] = n /\ question[i + 1] \in Locatives
                                                     /\ start(i) <= end(i)}
        value(n) == LET i == CHOOSE i \in places(n) : \A j \in places(n) : i <= j
                    IN  IF places(n) = {} THEN <<>> ELSE SubSeq(question, start(i), end(i))
        found == SelectSeq([k \in DOMAIN Nouns |-> value(Nouns[k])], LAMBDA v : v \notin {<<>>, <<"each">>, <<"all">>})
    IN  IF found = <<>> THEN <<>> ELSE found[1]
resolveSpecFilters(resp) == resp.filters

\* asked: the question groups or ranks.
Breaks(question) == \E p \in BreakdownPhrases : Asks(question, p)
Ranks(question) == \E p \in RankingPhrases : Asks(question, p)

Verdict(verdict, rule, hints, mention) == [verdict |-> verdict, rule |-> rule, hints |-> hints, mention |-> mention]

DimMismatchHintsOnly(question, requested) ==
    Verdict("mismatch", "dim_mismatch", extractDimensionHints(question), <<>>)
\* The result has no column for the dimension the question asks for: that dimension and the others it names.
DimMismatch(question, requested) ==
    Verdict("mismatch", "dim_mismatch", {requested} \cup extractDimensionHints(question), <<>>)

\* The rules, the first that applies; "unsure" leaves it to the model.
ruleBasedVerdict(question, resp) ==
    LET hints == extractDimensionHints(question)
        requested == extractBreakdownDim(question)
        columns == unionColumns(resp)
        mention == detectFilterValueMention(question)
        grouped == Breaks(question) \/ Ranks(question)
    IN  IF grouped /\ resp.rows <= 1 THEN Verdict("mismatch", "breakdown_lowrows", hints, <<>>)
        ELSE IF requested # "" /\ columns # {} /\ ~dimMatchesAnyColumn(requested, columns) THEN DimMismatch(question, requested)
        ELSE IF mention # <<>> /\ resolveSpecFilters(resp) = {} THEN Verdict("mismatch", "filter_value_missing", hints, mention)
        ELSE IF ~grouped /\ resp.rows = 1 THEN Verdict("match", "aggregate_single_row", {}, <<>>)
        ELSE Verdict("unsure", "", {}, <<>>)
\* The model's verdict, when no rule is sure: any, and "uncertain" when its call fails.
llmReflect == {"match", "mismatch", "uncertain"}
evaluateShape(question, resp) ==
    LET rule == ruleBasedVerdict(question, resp)
    IN  IF rule.verdict # "unsure" THEN {rule}
        ELSE {Verdict(v, "", IF v = "match" THEN {} ELSE extractDimensionHints(question), <<>>) : v \in llmReflect}
\* A plan that ran needs no look at its shape.
runReflectTool(question, resp) ==
    IF question = <<>> THEN {Verdict("uncertain", "", {}, <<>>)}
    ELSE IF resp.plan THEN {Verdict("match", "", {}, <<>>)}
    ELSE evaluateShape(question, resp)

-----------------------------------------------------------------------------
(* Properties *)

\* What every draft has to say, and the choices it has: a column or the suffix of a pivot, a scope.
Must(in) == ExtractIndicators(in.question) \cup ({f.value : f \in in.filters} \ ({""} \cup Letters))
            \cup extractTemplateLiterals(in.template)
Pivots(in) == IF in.columns = {} \/ in.suffix = "" THEN {{}} ELSE {{c} : c \in in.columns \cup {in.suffix}}
Drafts(in) == {Range(in.question) \cup Must(in) \cup p \cup {m, in.summary.distinct} : p \in Pivots(in), m \in ScopeMarkers}
\* Two checks ask for opposite things: the question or a required word contains another word for a
\* share than the user's, or the word for "everywhere" under a filter, or names a row without data.
Contradictory(in) ==
    LET used == ExtractIndicators(in.question)
        said(p) == Range(in.question) \cup Must(in) \cup p
        foreign(p) == used # {} /\ \E t \in Indicators \ (Letters \cup used) : Says(said(p), t)
        global(p) == in.filters # {} /\ (\A t \in used : Globe \notin Within[t]) /\ Says(said(p), Globe)
        empty(p) == \E i \in DOMAIN in.rows : \E v \in in.rows[i].dims \ Letters :
                       in.rows[i].total = 0 /\ Says(Must(in) \cup p, v) /\ ~Asks(in.question, v)
    IN  \A p \in Pivots(in) : foreign(p) \/ global(p) \/ (in.totalLabel # "" /\ empty(p))

\* There is an answer to write: after at most the one query the denominator check recommends, some draft
\* passes all ten checks, and it may repeat the whole question - unless two checks contradict each
\* other in one of the ways above.
AnswerExists(in) ==
    LET final == IF checkShareHasDenominator(in) THEN in ELSE SuggestedQuery(in)
    IN  /\ checkShareHasDenominator(final)
        /\ Contradictory(final) \/ \E d \in Drafts(final) : SynthRun(composeWithLLM(TRUE, d), final).passed

\* The agent does as it is told: it queries by the dimensions and filters by the value it is given.
\* With no dimension to go by it gets the same result again.
Followed(resp, verdict) ==
    IF verdict.verdict # "mismatch" \/ (verdict.hints = {} /\ verdict.mention = <<>>) THEN resp
    ELSE [resp EXCEPT !.rows = 2,
                      !.columns = verdict.hints \cup (IF verdict.rule = "filter_value_missing" THEN @ ELSE {}),
                      !.filters = IF verdict.mention = <<>> THEN @ ELSE {verdict.mention}]
\* The two more rounds that the advice allows are enough: an agent that follows it twice is not told
\* again that the result has the wrong shape - unless the rule for too few rows does not know the word
\* for the dimension.  (By a rule: the model's own opinion may differ from call to call.)
ReflectSettles(question, resp) ==
    LET told(r) == {v \in runReflectTool(question, r) : v.verdict = "mismatch" /\ v.rule # ""}
        next(r) == IF told(r) = {} THEN r ELSE Followed(r, CHOOSE v \in told(r) : TRUE)
    IN  \/ told(next(next(resp))) = {}
        \/ \E first \in told(resp) :
              /\ first.rule = "breakdown_lowrows"
              /\ \/ first.hints = {}
                 \/ extractBreakdownDim(question) \notin HintWords \cup {""}
=============================================================================
