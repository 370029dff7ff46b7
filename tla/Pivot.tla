-------------------------------- MODULE Pivot --------------------------------
(***************************************************************************)
(* agent-server: what lakehouseToolSmartQuery makes of the engine's rows   *)
(* (handler_agent_lakehouse.go): the metric's pivot, which turns one row   *)
(* per dimensions and pivot value into one per dimensions with a column    *)
(* and a share per value, then the summary of the rows, the preview of     *)
(* a long result and the warnings that go with it.                         *)
(*                                                                         *)
(*   value    [word, case]: two values of one word differ in case only     *)
(*   fact     a row of the joined tables: [dim, value, kept, extra, m];    *)
(*            the metric's own filters keep it when kept, the question's   *)
(*            when extra                                                   *)
(*   metric   [name, objects, on, values, labels, percent, axis, scope,    *)
(*            priority, words, live]: the pivot's settings, the keywords   *)
(*   row      [dim, value, m] of the engine, [dim, cells, total] pivoted; m *)
(*            is the first column that is no dimension, as a map has it    *)
(***************************************************************************)
EXTENDS Integers, Sequences, FiniteSets, FiniteSetsExt, Functions, SequencesExt, TLC

CONSTANTS PreviewAt,        \* 200: a longer result is only previewed
          PreviewRows       \* 10

Fold(v) == v.word
Each(s, F(_)) == FoldLeft(LAMBDA t, x : Append(t, F(x)), <<>>, s)
Total(f) == FoldFunction(+, 0, f)
\* The elements in some fixed order.
Listed(S) == FoldSet(LAMBDA x, s : Append(s, x), <<>>, S)

-----------------------------------------------------------------------------
(* Which metric's settings apply *)

\* A keyword, [word, stop], is in the question.  The pivot's query forgets that stopwords are none.
KeywordMatch(metric, question, stopToo) == \E k \in metric.words : k.word \in question /\ (stopToo \/ ~k.stop)
Ahead(a, b, question, stopToo) ==
    LET match(x) == IF KeywordMatch(x, question, stopToo) THEN 1 ELSE 0
    IN  match(a) > match(b) \/ (match(a) = match(b) /\ a.priority >= b.priority)
FirstMetrics(candidates, question, stopToo) ==
    {c \in candidates : \A d \in candidates : Ahead(c, d, question, stopToo)}
\* Which of equals comes first is the database's choice: the set of what may be chosen.
PivotMetric(metrics, question, objects) ==
    FirstMetrics({c \in metrics : c.live /\ c.on # "" /\ c.objects \cap objects # {}}, question, TRUE)
\* The hint for a query without a metric; none when the first has no keyword in a question that was given.
lookupIntentHint(metrics, question, objects) ==
    LET first == FirstMetrics({c \in metrics : c.live /\ c.objects \cap objects # {}}, question, FALSE)
    IN  {c \in first : question = {} \/ KeywordMatch(c, question, FALSE)}

-----------------------------------------------------------------------------
(* The engine's rows, modelled from the query that is sent (external) *)

Sum(facts) == FoldSet(LAMBDA f, n : n + f.m, 0, facts)
\* Grouped by the dimension and the pivot value, one metric column "m"; dense: a row for every pair.
EngineRows(facts, dense) ==
    LET used == {f \in facts : f.kept /\ f.extra}
        at(d, v) == {f \in used : f.dim = d /\ f.value = v}
        keys == {<<f.dim, f.value>> : f \in IF dense THEN {f \in facts : f.kept} ELSE used}
        row(k) == [dim |-> k[1], value |-> k[2], m |-> Sum(at(k[1], k[2]))]
    IN  Listed({row(k) : k \in keys})
\* The denominators of all: grouped by the pivot value alone, the metric's own filters, no limit.
GlobalRows(facts) ==
    [v \in {f.value : f \in {f \in facts : f.kept}} |-> Sum({f \in facts : f.kept /\ f.value = v})]

-----------------------------------------------------------------------------
(* applyIntentPivot *)

\* The argument, then the metric's setting, then "row".
PercentAxis(argument, setting) ==
    IF argument \in {"row", "column"} THEN argument ELSE IF setting = "column" THEN "column" ELSE "row"

\* The number of a dimension and a pivot value, 0 without a row; a second row of the same two replaces the first.
Bucket(rows, d, v) ==
    LET i == SelectLastInSeq(rows, LAMBDA r : r.dim = d /\ r.value = v)
    IN  IF i = 0 THEN 0 ELSE rows[i].m
Observed(rows) == {rows[i].value : i \in DOMAIN rows}

\* The configured values, or else the observed ones in order (any fixed one).
Columns(metric, rows) == IF metric.values # <<>> THEN metric.values ELSE Listed(Observed(rows))
containsFold(cols, v) == \E i \in DOMAIN cols : Fold(cols[i]) = Fold(v)
\* A value's own label, "" for none: the value, as it is written, is its name then.
labelFor(metric, cols, v) ==
    LET is == {i \in DOMAIN cols \cap DOMAIN metric.labels : metric.labels[i] # "" /\ Fold(cols[i]) = Fold(v)}
    IN  IF is = {} THEN v ELSE [word |-> metric.labels[Min(is)], case |-> "label"]
WithoutExtras(metric, cols, rows) == cols
\* Values observed but not configured follow the configured ones.
WithExtras(metric, cols, rows) ==
    cols \o Listed({v \in Observed(rows) : metric.values # <<>> /\ ~containsFold(cols, v)})
\* Each label once, with the first value that has it: a sequence of [label, value].
OrderedLabels(metric, rows) ==
    LET cols == Columns(metric, rows)
    IN  FoldLeft(LAMBDA s, v : LET l == labelFor(metric, cols, v)
                               IN  IF \E i \in DOMAIN s : s[i].label = l THEN s ELSE Append(s, [label |-> l, value |-> v]),
                 <<>>, WithExtras(metric, cols, rows))

\* One wide row per dimension: its cells, in the labels' order, and their total.
WideRow(rows, d, labels) ==
    LET cells == Each(labels, LAMBDA l : Bucket(rows, d, l.value))
    IN  [dim |-> d, cells |-> cells, total |-> Total(cells)]
AllWide(rows, labels) == {WideRow(rows, d, labels) : d \in {rows[i].dim : i \in DOMAIN rows}}
\* Rows whose total is 0 are left out.
WideRows(rows, labels) == {w \in AllWide(rows, labels) : w.total # 0}
\* The totals of the columns, over all rows.
gtByLabel(rows, labels) ==
    LET wide == AllWide(rows, labels)
    IN  Each([i \in DOMAIN labels |-> i], LAMBDA i : FoldSet(LAMBDA w, n : n + w.cells[i], 0, wide))

\* The denominators of the columns' shares: those of all when the metric says so, the query runs and finds some.
pctDenomByLabel(metric, axis, rows, labels, global, runs) ==
    LET cols == Columns(metric, rows)
        of(l) == {v \in DOMAIN global : labelFor(metric, cols, v) = l}
    IN  IF metric.scope = "global" /\ axis = "column" /\ metric.percent /\ runs /\ DOMAIN global # {}
        THEN Each(labels, LAMBDA l : FoldSet(LAMBDA v, n : n + global[v], 0, of(l.label)))
        ELSE gtByLabel(rows, labels)
\* All of them together: the global ones count values that no column shows, too.
DenomTotal(metric, axis, rows, labels, global, runs) ==
    LET all == IF metric.scope = "global" /\ axis = "column" /\ metric.percent /\ runs /\ DOMAIN global # {}
               THEN Total(global) ELSE Total(gtByLabel(rows, labels))
    IN  IF metric.scope = "global" /\ all > 0 THEN all ELSE Total(gtByLabel(rows, labels))

\* A share in hundredths of a percent: f*100 + 0.5, cut off.
roundPct(n, d) ==
    LET num == n * 20000 + d
    IN  IF d <= 0 THEN 0 ELSE IF num >= 0 THEN num \div (2 * d) ELSE -((-num) \div (2 * d))
Shares(metric, axis, row, denoms) ==
    [i \in DOMAIN row.cells |-> IF axis = "column" THEN roundPct(row.cells[i], denoms[i]) ELSE roundPct(row.cells[i], row.total)]

\* The largest totals first, and no more than the limit of the question.
Limited(wide, limit) ==
    LET sorted == SortSeq(Listed(wide), LAMBDA a, b : a.total > b.total)
    IN  IF limit > 0 /\ Len(sorted) > limit THEN SubSeq(sorted, 1, limit) ELSE sorted

\* The summary's first line adds up the rows of the question, its second those of all.
Summary(metric, axis, rows, labels, global, runs) ==
    LET denoms == pctDenomByLabel(metric, axis, rows, labels, global, runs)
        line(t, cells) == [total |-> t, cells |-> cells]
    IN  IF ~metric.percent \/ WideRows(rows, labels) = {} THEN <<>>
        ELSE <<line(Total(gtByLabel(rows, labels)), gtByLabel(rows, labels))>>
             \o (IF metric.scope = "global" THEN <<line(DenomTotal(metric, axis, rows, labels, global, runs), denoms)>> ELSE <<>>)

\* Only a result that is grouped by the pivot's column and has rows is pivoted; none: no pivot.
applyIntentPivot(metric, groupBy, argument, rows, limit, global, runs) ==
    LET axis == PercentAxis(argument, metric.axis)
        labels == OrderedLabels(metric, rows)
        denoms == pctDenomByLabel(metric, axis, rows, labels, global, runs)
        wide == Limited(WideRows(rows, labels), limit)
        all == DenomTotal(metric, axis, rows, labels, global, runs)
    IN  IF metric.on \notin groupBy \/ rows = <<>> THEN <<>>
        ELSE <<[labels |-> labels, wide |-> wide,
                shares |-> IF metric.percent THEN Each(wide, LAMBDA w : Shares(metric, axis, w, denoms)) ELSE <<>>,
                ofAll |-> IF metric.percent THEN Each(wide, LAMBDA w : roundPct(w.total, all)) ELSE <<>>,
                summary |-> Summary(metric, axis, rows, labels, global, runs)]>>

-----------------------------------------------------------------------------
(* What is reported with the rows *)

\* Rows and items with data: a pivoted row with a total of 0 does not count.
computeRowSummary(rows, pivoted) ==
    LET data == SelectSeq(rows, LAMBDA r : ~pivoted \/ r.total # 0)
    IN  [total |-> Len(rows), zero |-> Len(rows) - Len(data), distinct |-> Cardinality({data[i].dim : i \in DOMAIN data})]
\* Several objects, and not a number in any row: a join that found nothing.
suspiciousAllZero(rows, objects) == rows # <<>> /\ Cardinality(objects) > 1 /\ \A i \in DOMAIN rows : rows[i].total = 0
\* Filters [op, fuzzy, number] that may be tried again as fuzzy ones when nothing was found.
EmptyResultHint(rows, filters) ==
    IF rows # <<>> THEN {} ELSE {f \in filters : ~f.fuzzy /\ ~f.number /\ f.op \in {"", "=", "in"}}
Respond(rows, pivoted, objects, filters) ==
    LET preview == Len(rows) > PreviewAt
        shown == IF preview THEN SubSeq(rows, 1, PreviewRows) ELSE rows
    IN  [rows |-> shown, total |-> Len(rows), preview |-> preview, summary |-> computeRowSummary(rows, pivoted),
         suspicious |-> suspiciousAllZero(shown, objects), retry |-> EmptyResultHint(rows, filters)]

-----------------------------------------------------------------------------
(* Properties *)

\* Where the wide rows cannot hold what the query found: two values under one label, a value that is
\* written otherwise than it was configured, a row whose values cancel out.
Ambiguous(metric, rows) ==
    LET shown == Observed(rows) \cup Range(metric.values)
        label(v) == labelFor(metric, Columns(metric, rows), v)
    IN  \/ \E v, w \in shown : v # w /\ label(v) = label(w)
        \/ \E v \in Observed(rows) \ Range(metric.values) : containsFold(metric.values, v)
        \/ \E w \in AllWide(rows, OrderedLabels(metric, rows)) : w.total = 0 /\ \E i \in DOMAIN w.cells : w.cells[i] # 0

\* The pivot loses nothing: before the limit, the wide rows' totals and each of their columns add up to
\* what the query found, and so does the summary - unless it is ambiguous as above.
PivotKeepsTheTotal(metric, facts, dense) ==
    LET rows == EngineRows(facts, dense)
        used == {f \in facts : f.kept /\ f.extra}
        out == applyIntentPivot(metric, {metric.on}, "", rows, 0, GlobalRows(facts), TRUE)[1]
        column(i) == Total([k \in DOMAIN out.wide |-> out.wide[k].cells[i]])
    IN  \/ rows = <<>> \/ Ambiguous(metric, rows)
        \/ /\ Total([k \in DOMAIN out.wide |-> out.wide[k].total]) = Sum(used)
           /\ \A i \in DOMAIN out.labels : column(i) = Sum({f \in used : f.value = out.labels[i].value})
           /\ out.summary # <<>> => out.summary[1].total = Sum(used)

\* No share is above 100 percent, and none of a column's or a row's shares add up to more than their
\* rounding: whatever the axis and the scope, and whether or not the query for all of it runs.
NoShareAboveAll(metric, facts, dense, argument, runs) ==
    LET rows == EngineRows(facts, dense)
        out == applyIntentPivot(metric, {metric.on}, argument, rows, 0, GlobalRows(facts), runs)
        wide == out[1].wide
        shares(i) == out[1].shares[i]
    IN  out # <<>> /\ metric.percent =>
          /\ \A i \in DOMAIN wide : out[1].ofAll[i] <= 10000
          /\ \A i \in DOMAIN wide : \A j \in DOMAIN shares(i) : shares(i)[j] <= 10000
          /\ \A j \in DOMAIN out[1].labels :
                PercentAxis(argument, metric.axis) = "column" =>
                  Total([i \in DOMAIN wide |-> shares(i)[j]]) <= 10000 + Len(wide)
          /\ \A i \in DOMAIN wide :
                PercentAxis(argument, metric.axis) = "row" => Total(shares(i)) <= 10000 + Len(out[1].labels)
=============================================================================
