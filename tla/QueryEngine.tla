----------------------------- MODULE QueryEngine -----------------------------
(***************************************************************************)
(* lakehouse-sql-server: how a query specification becomes SQL, given by   *)
(* the rows that SQL returns over a small database.  ResolveQuery turns    *)
(* names into properties, ResolveJoinPath finds how the objects join, and  *)
(* BuildLayerV2 writes either the dense form (every combination of the     *)
(* group values, LEFT JOINed to the fact rows) or the plain GROUP BY form. *)
(*                                                                         *)
(* Data: a table is a set of rows (each has a distinct id), a row a        *)
(* function from column names; Null is SQL's NULL.  An ontology o has      *)
(*   order    the ODs, shortest name first                                 *)
(*   props    the property names of each OD, in name order                 *)
(*   kind     "num", "text" or "date" of a property name                   *)
(*   canonical, columns   the ODs with a canonical query, its columns      *)
(*   edges    the join_key edges [from, fp, to, tp]                        *)
(*   metrics, words, machine, alike, contains   see the operators that     *)
(*            read them.                                                   *)
(* A query q has objects, metric (its comma-separated parts), groupBy,     *)
(* filters, orderBy, having, limit, share, derived and dense.              *)
(***************************************************************************)
EXTENDS Integers, Sequences, FiniteSets, SequencesExt, FiniteSetsExt, Functions, TLC

CONSTANT Null

NoProp == [od |-> "", name |-> ""]
Prop(od, name) == [od |-> od, name |-> name]
HeadOr(seq, default) == IF seq = <<>> THEN default ELSE seq[1]

-----------------------------------------------------------------------------
(* Names to properties (resolve.go) *)

\* The ODs that qualified filters, orders and groups name are added to the objects.
augmentObjectsFromRefs(q) ==
    FoldLeft(LAMBDA objs, r : IF r.od = "" \/ r.od \in ToSet(objs) THEN objs ELSE Append(objs, r.od),
             q.objects, q.filters \o q.orderBy \o q.groupBy)

\* Objects that do not exist are skipped.
loadLakehouseObjects(o, names) == SelectSeq(names, LAMBDA n : n \in ToSet(o.order))
PropsOf(o, objs) ==
    FlattenSeq([i \in DOMAIN objs |-> [j \in DOMAIN o.props[objs[i]] |-> Prop(objs[i], o.props[objs[i]][j])]])

\* alignCanonicalQuery: the properties without a column in the canonical query's output.
Unmatched(o, od) == ToSet(o.props[od]) \ o.columns[od]

InOd(o, r) == SelectSeq(PropsOf(o, o.order), LAMBDA p : p.od = r.od /\ p.name = r.name)
\* By name alone: an exact match among the objects, in the project, then a similar name.
ByName(o, objs, name) ==
    LET exact(s) == SelectSeq(s, LAMBDA p : p.name = name)
        similar(s) == SelectSeq(s, LAMBDA p : <<name, p.name>> \in o.alike)
        local == PropsOf(o, objs)  all == PropsOf(o, o.order)
    IN  exact(local) \o exact(all) \o similar(local) \o similar(all)
\* A qualified name is looked up in its OD first.
resolveProperty(o, objs, r) ==
    HeadOr((IF r.od = "" THEN <<>> ELSE InOd(o, r)) \o ByName(o, objs, r.name), NoProp)

\* A date suffix is stripped only after the whole token is no property, and then the
\* OD it was qualified with is not used.
GroupCol(o, objs, g) ==
    IF g.gran = "" THEN [prop |-> resolveProperty(o, objs, g), gran |-> ""]
    ELSE [prop |-> HeadOr(ByName(o, objs, g.name), NoProp), gran |-> g.gran]

\* One part of the metric: COUNT of rows, a stored metric (its expression, or its target
\* column), a property with a function, a numeric property, or a group column.
resolveMetric(o, objs, part) ==
    LET local == PropsOf(o, objs)
        searched == IF part.od = "" THEN objs ELSE <<part.od>>
        stored == SelectSeq(o.metrics, LAMBDA m : m.od \in ToSet(searched) /\ m.name = part.name)
        target(m) == SelectSeq(local, LAMBDA p : p.name = m.target /\ o.kind[p.name] = "num")
        named == SelectSeq(local, LAMBDA p : p.name = part.name)
        similar == SelectSeq(local, LAMBDA p : /\ <<part.name, p.name>> \in o.alike
                                               /\ part.fn # "" \/ o.kind[p.name] = "num")
        std(p, fn) == [kind |-> "std", prop |-> p, fn |-> fn]
    IN  CASE part.name = "*" -> [kind |-> "count", prop |-> NoProp, fn |-> "COUNT"]
          [] part.name # "*" /\ stored # <<>> /\ stored[1].expr ->
                [kind |-> "custom", prop |-> Prop(stored[1].od, stored[1].target), fn |-> stored[1].fn]
          [] part.name # "*" /\ stored # <<>> /\ ~ stored[1].expr /\ target(stored[1]) # <<>> ->
                std(target(stored[1])[1], stored[1].fn)
          [] OTHER ->
                IF named # <<>>
                THEN IF part.fn # "" THEN std(named[1], part.fn)
                     ELSE IF o.kind[named[1].name] = "num" THEN std(named[1], "SUM")
                     ELSE [kind |-> "groupby", prop |-> named[1], fn |-> ""]
                ELSE IF similar # <<>> THEN std(similar[1], IF part.fn = "" THEN "SUM" ELSE part.fn)
                ELSE [kind |-> "error", prop |-> NoProp, fn |-> ""]

ValidOps == {"=", "<>", ">=", "<", "contains", "between", "in", "not in", "is blank", "is not blank"}
isValidFilterOp(op) == op \in ValidOps \cup {"not like"}

\* A period of the calendar as the days [start, end): day d of month m of year y is
\* (12 * y + m - 1) * 31 + d - 1.
Day(y, m, d) == (12 * y + m - 1) * 31 + d - 1
monthRange(y, m) == <<Day(y, m, 1), Day(y, m + 1, 1)>>
quarterRange(y, k) == <<Day(y, 3 * (k - 1) + 1, 1), Day(y, 3 * k + 1, 1)>>
yearRange(y) == <<Day(y, 1, 1), Day(y + 1, 1, 1)>>
LastMonth(now) == IF now.m = 1 THEN monthRange(now.y - 1, 12) ELSE monthRange(now.y, now.m - 1)
expandPeriod(p, now) ==
    CASE p.form = "month" -> monthRange(p.y, p.n)      [] p.form = "quarter" -> quarterRange(p.y, p.n)
      [] p.form = "year" -> yearRange(p.y)             [] p.form = "this month" -> monthRange(now.y, now.m)
      [] p.form = "last month" -> LastMonth(now)       [] p.form = "last year" -> yearRange(now.y - 1)
      [] p.form = "day" -> <<Day(p.y, p.n, 1), Day(p.y, p.n, 2)>>

\* The corrector's tiers for an equality on a text column: a machine code is matched as a
\* substring; else the keyword of the column, a similar one, one of the project, a near one.
Correct(o, p, v) ==
    LET tier(how) == {w.means : w \in {w \in o.words : w.prop = p /\ w.said = v /\ w.how = how}}
        project == {w.means : w \in {w \in o.words : w.said = v /\ w.how = "exact"}}
        found == HeadOr(SelectSeq(<<tier("exact"), tier("fuzzy"), project, tier("vector")>>,
                                  LAMBDA t : t # {}), {v})
    IN  IF p \in o.machine THEN {[val |-> v, fuzzy |-> TRUE]} ELSE {[val |-> x, fuzzy |-> FALSE] : x \in found}

\* The conditions one filter becomes: a period on a date becomes two.
Conditions(o, p, f) ==
    LET cond(op, vals, fuzzy) == [prop |-> p, op |-> op, vals |-> vals, fuzzy |-> fuzzy]
        corrected == CHOOSE c \in Correct(o, p, f.vals[1]) : TRUE
    IN  IF o.kind[p.name] = "date" /\ f.op = "=" /\ f.period # Null
        THEN <<cond(">=", <<expandPeriod(f.period, o.now)[1]>>, FALSE),
               cond("<", <<expandPeriod(f.period, o.now)[2]>>, FALSE)>>
        ELSE IF o.kind[p.name] = "text" /\ f.op = "=" /\ ~ f.fuzzy
        THEN <<cond("=", <<corrected.val>>, corrected.fuzzy)>>
        ELSE <<cond(f.op, f.vals, f.fuzzy)>>

\* An order names the aggregate, a group column, another property, or (one aggregate)
\* anything; an unknown name is skipped otherwise.
resolveOrder(o, objs, aggs, groups, r) ==
    CASE r.name = "metric" \/ \E i \in DOMAIN aggs : aggs[i].prop.name = r.name -> "metric"
      [] OTHER -> IF \E i \in DOMAIN groups : groups[i].prop.name = r.name THEN "group"
                  ELSE IF ByName(o, objs, r.name) # <<>> THEN "property"
                  ELSE IF Len(aggs) = 1 THEN "metric" ELSE "skipped"

\* Every property used has a column (an aggregate over SQL text names none).
validateAllPropsMapped(o, objs, props) ==
    \A p \in props \ {NoProp} : p.od \in ToSet(objs) => p.name \notin Unmatched(o, p.od)

\* ResolveQuery: the resolved query, or why there is none.
ResolveQuery(o, q) ==
    LET objs == loadLakehouseObjects(o, augmentObjectsFromRefs(q))
        parts == [i \in DOMAIN q.metric |-> resolveMetric(o, objs, q.metric[i])]
        asked == SelectSeq(parts, LAMBDA a : a.kind \notin {"groupby", "error"})
        given == [i \in DOMAIN q.groupBy |-> GroupCol(o, objs, q.groupBy[i])]
        moved == SelectSeq(parts, LAMBDA a : /\ a.kind = "groupby"
                               /\ \A i \in DOMAIN q.groupBy : q.groupBy[i].name # a.prop.name)
        groups == [i \in DOMAIN moved |-> [prop |-> moved[i].prop, gran |-> ""]] \o given
        aggs == IF asked = <<>> /\ groups # <<>>
                THEN <<[kind |-> "count", prop |-> NoProp, fn |-> "COUNT"]>> ELSE asked
        fprops == [i \in DOMAIN q.filters |-> resolveProperty(o, objs, q.filters[i])]
        orders == [i \in DOMAIN q.orderBy |-> resolveOrder(o, objs, aggs, groups, q.orderBy[i])]
        used == {groups[i].prop : i \in DOMAIN groups} \cup ToSet(fprops)
                \cup {aggs[i].prop : i \in DOMAIN aggs}
        failed ==
            \/ objs = <<>> \/ ~ (ToSet(objs) \subseteq o.canonical)
            \/ q.metric = <<>> /\ q.groupBy = <<>>
            \/ \E i \in DOMAIN parts : parts[i].kind = "error"
            \/ \E i \in DOMAIN given : given[i].prop = NoProp
            \/ NoProp \in ToSet(fprops)
            \/ \E i \in DOMAIN q.filters : \/ ~ isValidFilterOp(q.filters[i].op)
                                           \/ q.filters[i].op = "between" /\ Len(q.filters[i].vals) # 2
            \/ ~ validateAllPropsMapped(o, objs, used \ {a.prop : a \in {a \in ToSet(aggs) : a.kind = "custom"}})
    IN  IF failed THEN [ok |-> FALSE]
        ELSE [ok |-> TRUE, objs |-> objs, aggs |-> aggs, groups |-> groups, used |-> used \ {NoProp},
              conds |-> FlattenSeq([i \in DOMAIN q.filters |-> Conditions(o, fprops[i], q.filters[i])]),
              orders |-> SelectSeq(orders, LAMBDA r : r # "skipped"),
              having |-> q.having, limit |-> q.limit, share |-> q.share,
              derived |-> q.derived, dense |-> q.dense]

-----------------------------------------------------------------------------
(* The join path (join_resolver.go) *)

Reversed(e) == [from |-> e.to, fp |-> e.tp, to |-> e.from, tp |-> e.fp]
Directed(E) == E \cup {Reversed(e) : e \in E}
Ends(E) == UNION {{e.from, e.to} : e \in E}

\* bfsPath: a shortest path; which one depends on the order of the edges.
bfsPath(E, src, dst) ==
    LET paths(n) == {p \in [1..n -> Directed(E)] :
                        /\ p[1].from = src /\ p[n].to = dst
                        /\ \A i \in 1..(n - 1) : p[i].to = p[i + 1].from}
        lengths == {n \in 1..(Cardinality(Ends(E)) - 1) : paths(n) # {}}
    IN  IF src = dst THEN {<<>>} ELSE IF lengths = {} THEN {} ELSE paths(Min(lengths))

\* One round of findSpanningPath's greedy loop: the shortest path from a connected object
\* to a remaining one, in an unspecified order of both maps.  A remaining object that is
\* connected already (a duplicate) has the path nil, which the code cannot tell from none:
\* the round then ends with whatever path came after it, or fails.
NearestPaths(E, s) ==
    LET candidates == UNION {UNION {{[target |-> t, path |-> p] : p \in bfsPath(E, n, t)} : n \in s.connected}
                             : t \in s.remaining}
        real == {c \in candidates : c.path # <<>>}
        least == Min({Len(c.path) : c \in real})
    IN  IF s.remaining \cap s.connected # {} THEN real \cup {[target |-> "", path |-> <<>>]}
        ELSE IF real = {} THEN {[target |-> "", path |-> <<>>]}
        ELSE {c \in real : Len(c.path) = least}
\* A plausible bug: the first path found is taken, whatever its length.
AnyPath(E, s) ==
    LET candidates == UNION {UNION {{[target |-> t, path |-> p] : p \in bfsPath(E, n, t)} : n \in s.connected}
                             : t \in s.remaining}
    IN  IF candidates = {} THEN {[target |-> "", path |-> <<>>]} ELSE candidates
NearestPath(E, s) == NearestPaths(E, s)

SpanOnce(E, s) ==
    IF s.failed \/ s.remaining = {} THEN {s}
    ELSE {IF c.path = <<>> THEN [s EXCEPT !.failed = TRUE]
          ELSE [s EXCEPT !.remaining = @ \ {c.target}, !.path = @ \o c.path,
                         !.connected = @ \cup Ends(ToSet(c.path))] : c \in NearestPath(E, s)}

deduplicateEdges(path) ==
    FoldLeft(LAMBDA kept, e : IF {e, Reversed(e)} \cap ToSet(kept) # {} THEN kept ELSE Append(kept, e),
             <<>>, path)

\* ResolveJoinPath: the possible results, each [failed, path].
ResolveJoinPath(E, objs) ==
    LET two == {[failed |-> FALSE, path |-> p] : p \in bfsPath(E, objs[1], objs[2])}
        start == {[connected |-> {objs[1]}, remaining |-> ToSet(Tail(objs)), path |-> <<>>, failed |-> FALSE]}
        ends == FoldLeft(LAMBDA S, i : UNION {SpanOnce(E, s) : s \in S}, start, [i \in 1..Len(objs) |-> i])
        none == {[failed |-> TRUE, path |-> <<>>]}
    IN  IF Len(objs) = 1 THEN {[failed |-> FALSE, path |-> <<>>]}
        ELSE IF E = {} THEN none
        ELSE IF Len(objs) = 2 THEN IF two = {} THEN none ELSE two
        ELSE {[failed |-> s.failed, path |-> IF s.failed THEN <<>> ELSE deduplicateEdges(s.path)] : s \in ends}

\* buildMultiOdV2 walks the path from the first object and skips an edge both or neither of
\* whose ends are joined: the joins that remain, oriented away from it.
JoinSteps(objs, path) ==
    FoldLeft(LAMBDA s, e : IF e.from \in s.joined /\ e.to \notin s.joined
                           THEN [joined |-> s.joined \cup {e.to}, steps |-> Append(s.steps, e)]
                           ELSE IF e.to \in s.joined /\ e.from \notin s.joined
                           THEN [joined |-> s.joined \cup {e.from}, steps |-> Append(s.steps, Reversed(e))]
                           ELSE s,
             [joined |-> {objs[1]}, steps |-> <<>>], path)

-----------------------------------------------------------------------------
(* What the SQL returns: conditions and aggregates *)

\* One condition on a value (filterCondExprV2; buildFilterCondition in the dense form): a
\* NULL satisfies only "is blank".
Holds(o, c, v) ==
    CASE c.op = "is blank" -> v = Null
      [] c.op = "is not blank" -> v # Null
      [] OTHER ->
           v # Null /\ CASE c.op = "=" -> v = c.vals[1] \/ (c.fuzzy /\ <<v, c.vals[1]>> \in o.contains)
                         [] c.op = "<>" -> v # c.vals[1]
                         [] c.op = ">=" -> v >= c.vals[1]
                         [] c.op = "<" -> v < c.vals[1]
                         [] c.op = "contains" -> v = c.vals[1] \/ <<v, c.vals[1]>> \in o.contains
                         [] c.op = "between" -> v >= c.vals[1] /\ v <= c.vals[2]
                         [] c.op = "in" -> v \in ToSet(c.vals)
                         [] c.op \in {"not in", "not like"} -> v \notin ToSet(c.vals)

\* groupFilters and filterGroupExprV2: several conditions on one property hold together,
\* unless all are equalities and the first is exact: then they are one IN list.
GroupHolds(o, conds, p, v) ==
    LET mine == SelectSeq(conds, LAMBDA c : c.prop = p)
        oneOf == Len(mine) > 1 /\ ~ mine[1].fuzzy /\ \A i \in DOMAIN mine : mine[i].op = "="
    IN  IF oneOf THEN v # Null /\ \E i \in DOMAIN mine : v = mine[i].vals[1]
        ELSE \A i \in DOMAIN mine : Holds(o, mine[i], v)
\* The conditions on the properties of one OD, of one of its rows.
RowHolds(o, conds, od, row) ==
    \A p \in {c.prop : c \in ToSet(conds)} : p.od = od => GroupHolds(o, conds, p, row[p.name])

\* A group value: dateGranularityExpr turns a date into its month or year.
GroupValue(g, row) ==
    LET v == row[g.prop.name] IN
    IF v = Null \/ g.gran = "" THEN v
    ELSE IF g.gran = "month" THEN v \div 31 ELSE v \div 372

\* An aggregate over the values of its column (a bag: one value per row id).
Aggregate(fn, values) ==
    LET some == {i \in DOMAIN values : values[i] # Null} IN
    CASE fn = "COUNT" -> Cardinality(some)
      [] fn = "DISTINCTCOUNT" -> Cardinality({values[i] : i \in some})
      [] fn = "MAX" -> IF some = {} THEN Null ELSE Max({values[i] : i \in some})
      [] OTHER -> IF some = {} THEN Null ELSE MapThenSumSet(LAMBDA i : values[i], some)

\* HAVING on the first aggregate: a NULL satisfies no comparison.
HavingHolds(having, v) ==
    having = Null \/ (v # Null /\ CASE having.op = ">=" -> v >= having.val
                                   [] having.op = "<" -> v < having.val
                                   [] having.op = "=" -> v = having.val)

\* ORDER BY and LIMIT: the possible sets of rows (NULLs sort first in descending order).
Above(a, b) == a.val = Null \/ (b.val # Null /\ a.val >= b.val)
Limited(rq, rows) ==
    IF Cardinality(rows) <= rq.limit THEN {rows}
    ELSE {S \in kSubset(rq.limit, rows) :
             rq.orders # <<>> /\ rq.orders[1] = "metric" => \A a \in S, b \in rows \ S : Above(a, b)}
\* wrapShareColumnV2: every row's share is of the total of the rows of the inner query.
WithShare(rq, rows, inner) ==
    LET total == MapThenSumSet(LAMBDA r : IF r.val = Null THEN 0 ELSE r.val, inner) IN
    {[key |-> r.key, val |-> r.val, of |-> IF rq.share THEN total ELSE 0] : r \in rows}

\* The answer of a statement: an error of the database, or its possible rows.
SqlError == [status |-> "sql_error", rows |-> {}]
Rows(S) == {[status |-> "rows", rows |-> r] : r \in S}

-----------------------------------------------------------------------------
(* The plain form (sql_builder_v2.go) *)

\* FROM and JOIN ... ON: the combinations of rows that agree along the path.
JoinRows(db, objs, steps) ==
    FoldLeft(LAMBDA T, e : {t @@ (e.to :> r) : t \in T, r \in db[e.to]} \cap
                           UNION {{t @@ (e.to :> r) : r \in {r \in db[e.to] :
                                    r[e.tp] # Null /\ r[e.tp] = t[e.from][e.fp]}} : t \in T},
             {(objs[1] :> r) : r \in db[objs[1]]}, steps)

PlainKey(rq, t) == [i \in DOMAIN rq.groups |-> GroupValue(rq.groups[i], t[rq.groups[i].prop.od])]
PlainValue(rq, T) ==
    LET a == rq.aggs[1] IN
    IF a.kind = "count" THEN Cardinality(T)
    ELSE Aggregate(a.fn, [t \in T |-> t[a.prop.od][a.prop.name]])

\* The labels of two group columns of the same name are qualified, so an order by that
\* name refers to nothing; an order by a property outside the groups is refused.
PlainRefused(rq, joined) ==
    LET same == \E i, j \in DOMAIN rq.groups : i # j /\ rq.groups[i].prop.name = rq.groups[j].prop.name
    IN  \/ \E p \in rq.used : p.od \notin joined
        \/ "property" \in ToSet(rq.orders)
        \/ same /\ "group" \in ToSet(rq.orders)

buildPlain(o, db, rq, path) ==
    LET js == JoinSteps(rq.objs, path)
        T == {t \in JoinRows(db, rq.objs, js.steps) :
                 \A od \in js.joined : RowHolds(o, rq.conds, od, t[od])}
        keys == {PlainKey(rq, t) : t \in T} \cup (IF rq.groups = <<>> THEN {<<>>} ELSE {})
        all == {[key |-> k, val |-> PlainValue(rq, {t \in T : PlainKey(rq, t) = k})] : k \in keys}
        kept == {r \in all : HavingHolds(rq.having, r.val)}
        \* the share wraps the limited query, except inside a derived metric's subquery
        shares(S) == WithShare(rq, S, IF rq.derived THEN kept ELSE S)
    IN  IF PlainRefused(rq, js.joined) THEN {SqlError}
        ELSE Rows({shares(S) : S \in Limited(rq, kept)})

-----------------------------------------------------------------------------
(* The dense form (dense_sql.go) *)

factOdName(rq) == HeadOr([i \in DOMAIN SelectSeq(rq.aggs, LAMBDA a : a.kind = "std") |->
                            SelectSeq(rq.aggs, LAMBDA a : a.kind = "std")[i].prop.od], rq.objs[1])
isDenseApplicable(rq) ==
    /\ rq.dense /\ rq.groups # <<>> /\ ~ rq.derived
    /\ \A i \in DOMAIN rq.aggs : rq.aggs[i].kind \in {"std", "count"}

DimOds(rq) == {rq.groups[i].prop.od : i \in DOMAIN rq.groups}
GroupsOf(rq, od) == {i \in DOMAIN rq.groups : rq.groups[i].prop.od = od}

\* splitDenseFilters: a condition limits the universe of a grouped OD, the fact rows, or
\* (a fact column that is not grouped while others are) both.
LimitsDims(rq, c) == c.prop.od \in DimOds(rq)
\* (A plausible bug: a fact condition only narrows the universe.)
LimitsOnlyDims(rq, c) == c.prop.od \notin DimOds(rq)
LimitsFacts(rq, c) ==
    \/ c.prop.od \notin DimOds(rq)
    \/ /\ c.prop.od = factOdName(rq)
       /\ \A i \in GroupsOf(rq, c.prop.od) : rq.groups[i].prop.name # c.prop.name

EdgeTo(path, od, fact) ==
    HeadOr(SelectSeq(path \o [i \in DOMAIN path |-> Reversed(path[i])],
                     LAMBDA e : e.from = od /\ e.to = fact), Null)

\* Not every resolved query has a dense form: a grouped or filtered OD must be loaded and
\* joined to the fact directly.
NoDenseForm(rq, path, loaded) ==
    LET fact == factOdName(rq)
        others == (DimOds(rq) \cup {c.prop.od : c \in ToSet(rq.conds)}) \ {fact}
    IN  \/ fact \notin loaded \/ ~ (others \subseteq loaded)
        \/ \E od \in others : EdgeTo(path, od, fact) = Null
\* dims has two columns of one label: the statement does not run.
DenseRefused(rq) ==
    \/ \E i, j \in DOMAIN rq.groups : i # j /\ rq.groups[i].prop.name = rq.groups[j].prop.name
    \/ "property" \in ToSet(rq.orders)

\* SELECT DISTINCT: the group values of an OD, with its join key if it is not the fact.
DimRows(o, db, rq, path, od) ==
    LET fact == factOdName(rq)
        key(row) == IF od = fact THEN 0 ELSE row[EdgeTo(path, od, fact).fp]
        conds == SelectSeq(rq.conds, LAMBDA c : LimitsDims(rq, c))
    IN  {[vals |-> [i \in GroupsOf(rq, od) |-> GroupValue(rq.groups[i], row)], key |-> key(row)] :
            row \in {row \in db[od] : RowHolds(o, conds, od, row)}}
\* CROSS JOIN of the grouped ODs.
Universe(o, db, rq, path) ==
    {u \in [DimOds(rq) -> UNION {DimRows(o, db, rq, path, od) : od \in DimOds(rq)}] :
        \A od \in DimOds(rq) : u[od] \in DimRows(o, db, rq, path, od)}
DenseKey(rq, u) == [i \in DOMAIN rq.groups |-> u[rq.groups[i].prop.od].vals[i]]

\* LEFT JOIN ... ON: the fact rows of one combination (NULL equals nothing).
FactsOf(o, db, rq, path, u) ==
    LET fact == factOdName(rq)
        conds == SelectSeq(rq.conds, LAMBDA c : LimitsFacts(rq, c))
        agree(row) == /\ \A i \in GroupsOf(rq, fact) :
                             LET v == GroupValue(rq.groups[i], row) IN v # Null /\ v = u[fact].vals[i]
                      /\ \A od \in DimOds(rq) \ {fact} :
                             LET v == row[EdgeTo(path, od, fact).tp] IN v # Null /\ v = u[od].key
    IN  {row \in db[fact] : agree(row) /\ RowHolds(o, conds, fact, row)}
NoFact == [id |-> 0]
\* The rows of one combination after the LEFT JOIN, and after the inner JOINs to the other
\* filtered ODs, which remove a row that no fact matched.
DenseRows(o, db, rq, path, u) ==
    LET fact == factOdName(rq)
        extra == {c.prop.od : c \in ToSet(rq.conds)} \ (DimOds(rq) \cup {fact})
        facts == FactsOf(o, db, rq, path, u)
        joins(row, od) == LET e == EdgeTo(path, od, fact) IN
            {r \in db[od] : r[e.fp] # Null /\ r[e.fp] = row[e.tp] /\ RowHolds(o, rq.conds, od, r)}
        tuples(row) == {f \in [extra -> UNION {db[od] : od \in extra}] : \A od \in extra : f[od] \in joins(row, od)}
    IN  IF extra = {} THEN {[u |-> u, row |-> r, x |-> <<>>] : r \in IF facts = {} THEN {NoFact} ELSE facts}
        ELSE UNION {{[u |-> u, row |-> r, x |-> x] : x \in tuples(r)} : r \in facts}

\* The aggregate shown: COUNT of the fact's first property, and 0 for no value.
DenseShown(o, rq, R) ==
    LET a == rq.aggs[1]
        col == IF a.kind = "count" THEN o.props[factOdName(rq)][1] ELSE a.prop.name
        v == Aggregate(a.fn, [r \in R |-> IF r.row = NoFact THEN Null ELSE r.row[col]])
    IN  IF v = Null /\ a.fn = "SUM" THEN 0 ELSE v
\* The aggregate HAVING compares: COUNT(*) counts the row that no fact matched.
DenseCompared(o, rq, R) ==
    LET a == rq.aggs[1] IN
    IF a.kind = "count" THEN Cardinality(R)
    ELSE Aggregate(a.fn, [r \in R |-> IF r.row = NoFact THEN Null ELSE r.row[a.prop.name]])

ShareOfAll(rq, kept, S) == WithShare(rq, S, kept)

buildDense(o, db, rq, path) ==
    LET R == UNION {DenseRows(o, db, rq, path, u) : u \in Universe(o, db, rq, path)}
        of(k) == {r \in R : DenseKey(rq, r.u) = k}
        kept == {[key |-> k, val |-> DenseShown(o, rq, of(k))] :
                   k \in {k \in {DenseKey(rq, r.u) : r \in R} : HavingHolds(rq.having, DenseCompared(o, rq, of(k)))}}
    IN  IF DenseRefused(rq) THEN {SqlError} ELSE Rows({ShareOfAll(rq, kept, S) : S \in Limited(rq, kept)})

-----------------------------------------------------------------------------
(* Execute: the possible answers to a query *)

Refused == {[status |-> "refused", rows |-> {}]}
\* An object between two others must have a canonical query, too (GenerateSQL only
\* requires it to exist).
Intermediate(rq, path) == Ends(ToSet(path)) \ ToSet(rq.objs)
BuildLayer(o, db, rq, path) ==
    LET loaded == ToSet(rq.objs) \cup Ends(ToSet(path)) IN
    IF isDenseApplicable(rq) /\ ~ NoDenseForm(rq, path, loaded)
    THEN buildDense(o, db, rq, path) ELSE buildPlain(o, db, rq, path)
Execute(o, db, q) ==
    LET rq == ResolveQuery(o, q) IN
    IF ~ rq.ok THEN Refused
    ELSE UNION {IF j.failed \/ ~ (Intermediate(rq, j.path) \subseteq o.canonical) THEN Refused
                ELSE BuildLayer(o, db, rq, j.path) : j \in ResolveJoinPath(o.edges, rq.objs)}
GenerateSQL(o, q) ==
    LET rq == ResolveQuery(o, q) IN
    rq.ok /\ \E j \in ResolveJoinPath(o.edges, rq.objs) : ~ j.failed

-----------------------------------------------------------------------------
(* Properties *)

\* No cycle and no parallel edge: every two objects are joined in one way.
IsForest(E) ==
    ~ \E C \in (SUBSET E) \ {{}} : \A od \in Ends(C) : Cardinality({e \in C : od \in {e.from, e.to}}) >= 2
Reaches(E, a, b) == bfsPath(E, a, b) # {}

(* In a join graph without cycles the joins of a query do not depend on the order in which
   Go walks its maps or the database returns the edges; they are found whenever every
   object is reachable, and buildMultiOdV2 joins every object along them.  (With a cycle
   the same query may be joined, and answered, in two ways: join_resolver.go:103.) *)
JoinPathIsUnique(E, objs) ==
    IsForest(E) /\ IsInjective(objs) =>
        LET results == ResolveJoinPath(E, objs)
            reachable == \A i \in DOMAIN objs : Reaches(E, objs[1], objs[i])
        IN  /\ \A r \in results : r.failed = (Len(objs) > 1 /\ ~ reachable)
            /\ Cardinality({{{e, Reversed(e)} : e \in ToSet(r.path)} : r \in results}) = 1
            /\ \A r \in results : ~ r.failed =>
                    /\ ToSet(objs) \subseteq JoinSteps(objs, r.path).joined
                    /\ Len(JoinSteps(objs, r.path).steps) = Len(r.path)

\* Where the dense form is known to differ: a fact row whose own group value is NULL, or
\* whose first property is, when rows are counted; an OD that is only listed, and so
\* joined by the plain form alone; a dimension whose key is not unique.
DenseDiffers(o, db, rq, path) ==
    LET fact == factOdName(rq) IN
    \/ \E i \in GroupsOf(rq, fact) : \E r \in db[fact] : r[rq.groups[i].prop.name] = Null
    \/ rq.aggs[1].kind = "count" /\ \E r \in db[fact] : r[o.props[fact][1]] = Null
    \/ ~ (ToSet(rq.objs) \subseteq {p.od : p \in rq.used} \cup {fact})
    \/ \E od \in (ToSet(rq.objs) \cup Ends(ToSet(path))) \ {fact} :
          LET e == EdgeTo(path, od, fact) IN
          e # Null /\ \E r, s \in db[od] : r # s /\ r[e.fp] = s[e.fp]

(* The dense form adds the empty groups and changes nothing else: every group of the plain
   GROUP BY has the same figure, every other group shows no value, and (no filter on a
   third object) every combination of the group values is there.  Shares are of the total
   of all groups, whatever the LIMIT. *)
DenseAgreesWithPlain(o, db, q) ==
    LET rq == ResolveQuery(o, q) IN
    rq.ok => \A j \in ResolveJoinPath(o.edges, rq.objs) :
        LET loaded == ToSet(rq.objs) \cup Ends(ToSet(j.path))
            free == [rq EXCEPT !.having = Null, !.limit = 100]
            comparable == /\ ~ j.failed /\ isDenseApplicable(rq) /\ ~ NoDenseForm(rq, j.path, loaded)
                          /\ ~ DenseRefused(rq) /\ ~ PlainRefused(rq, loaded)
                          /\ ~ DenseDiffers(o, db, rq, j.path)
            plain == CHOOSE a \in buildPlain(o, db, free, j.path) : TRUE
            dense == CHOOSE a \in buildDense(o, db, free, j.path) : TRUE
            none == IF rq.aggs[1].fn = "MAX" THEN Null ELSE 0
            shown(v) == IF v = Null THEN none ELSE v
            third == {c.prop.od : c \in ToSet(rq.conds)} \ (DimOds(rq) \cup {factOdName(rq)})
        IN  comparable =>
            /\ \A r \in plain.rows : \E s \in dense.rows : s.key = r.key /\ s.val = shown(r.val)
            /\ \A s \in dense.rows : s.val = none \/ \E r \in plain.rows : r.key = s.key
            /\ \A r, s \in dense.rows : r.key = s.key => r = s
            /\ third = {} => {DenseKey(rq, u) : u \in Universe(o, db, rq, j.path)} = {s.key : s \in dense.rows}
            /\ \A a \in buildDense(o, db, [rq EXCEPT !.having = Null], j.path) : \A s \in a.rows :
                   rq.share => s.of = MapThenSumSet(LAMBDA r : IF r.val = Null THEN 0 ELSE r.val, dense.rows)
=============================================================================
