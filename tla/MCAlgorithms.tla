---------------------------- MODULE MCAlgorithms ----------------------------
(***************************************************************************)
(* The pure algorithms on every input of a small set each: a behaviour      *)
(* chooses an algorithm ("alg") and part of its input, then the rest of it  *)
(* ("in"), and the property of that algorithm is evaluated on the whole.    *)
(***************************************************************************)
EXTENDS Integers, Sequences, FiniteSets, SequencesExt, FiniteSetsExt, TLC
CONSTANT Null

VARIABLES alg,   \* the algorithm, and whether the input is whole
          in     \* its input

Engine == INSTANCE QueryEngine
Pipeline == INSTANCE QuerySpec
Tr == INSTANCE Transfer
Rec == INSTANCE Recall WITH MaxHits <- 2, CollapseAt <- 1, MaxNames <- 2, MaxHops <- 3
Gate == INSTANCE Judge WITH DomainCap <- 1, HistoryTurns <- 3
Piv == INSTANCE Pivot WITH PreviewAt <- 1, PreviewRows <- 1
ASSUME RecallLimits == Rec!LimitsAssumption
ASSUME JudgeCaps == Gate!CapsAssumption

-----------------------------------------------------------------------------
(* QueryEngine: a fact table F, a dimension D joined by k and one X joined by x *)

Edge(a, p, b, r) == [from |-> a, fp |-> p, to |-> b, tp |-> r]
Prop(od, name) == [od |-> od, name |-> name]
StarSchema ==
    [order |-> <<"F", "D", "X">>,
     props |-> ("F" :> <<"c", "k", "t", "v", "x">> @@ "D" :> <<"k", "n">> @@ "X" :> <<"n", "x">>),
     kind |-> [n \in {"c", "k", "n", "t", "v", "x", "cc"} |->
                 IF n = "v" THEN "num" ELSE IF n = "t" THEN "date" ELSE "text"],
     canonical |-> {"F", "D", "X"},
     columns |-> ("F" :> {"c", "k", "t", "v", "x"} @@ "D" :> {"k", "n"} @@ "X" :> {"n", "x"}),
     edges |-> {Edge("F", "k", "D", "k"), Edge("X", "x", "F", "x")},
     metrics |-> <<[od |-> "F", name |-> "revenue", expr |-> FALSE, target |-> "v", fn |-> "SUM"],
                   [od |-> "F", name |-> "ratio", expr |-> TRUE, target |-> "v", fn |-> "SUM"]>>,
     words |-> {[prop |-> Prop("D", "n"), said |-> 7, means |-> 1, how |-> "exact"]},
     machine |-> {Prop("X", "n")}, alike |-> {<<"cc", "c">>}, contains |-> {<<2, 1>>},
     now |-> [y |-> 1, m |-> 1]]

\* Two fact rows with NULLs, keys without a dimension row, and a date in the year
\* before; dimension keys that repeat.
FactRow(id, k, c, v, t) == [id |-> id, k |-> k, c |-> c, v |-> v, t |-> t, x |-> 1]
FactTables == {{FactRow(1, a[1], a[2], a[3], 372), FactRow(2, b[1], b[2], b[3], 31 * 11)} :
                 a \in {1, 2} \X {1, Null} \X {1, Null}, b \in {1, 3, Null} \X {1, 2} \X {2}}
DimTables == {{[id |-> 1, k |-> 1, n |-> 1], [id |-> 2, k |-> 2, n |-> n]} : n \in {1, 2, Null}}
             \cup {{[id |-> 1, k |-> 1, n |-> 1], [id |-> 2, k |-> 1, n |-> 1]}}
Databases == {("F" :> f @@ "D" :> d @@ "X" :> {[id |-> 1, x |-> 1, n |-> x]}) :
                f \in FactTables, d \in DimTables, x \in {1, 2}}

By(od, name) == [od |-> od, name |-> name, gran |-> ""]
Where(od, name, op, vals, period) ==
    [od |-> od, name |-> name, op |-> op, vals |-> vals, fuzzy |-> FALSE, period |-> period]
Part(fn, name) == [fn |-> fn, od |-> "", name |-> name]
Query(objs, metric, groupBy, filters) ==
    [objects |-> objs, metric |-> metric, groupBy |-> groupBy, filters |-> filters, orderBy |-> <<>>,
     having |-> Null, limit |-> 1000, share |-> FALSE, derived |-> FALSE, dense |-> TRUE]
Queries ==
    {Query(<<"F">>, m, g, f) :
        m \in {<<Part("", "v")>>, <<Part("", "*")>>, <<Part("MAX", "v")>>, <<Part("", "revenue")>>,
               <<Part("", "c")>>, <<Part("", "ratio")>>},
        g \in {<<By("", "c")>>, <<By("D", "n")>>, <<By("", "c"), By("D", "n")>>,
               <<[od |-> "F", name |-> "t", gran |-> "year"]>>},
        f \in {<<>>, <<Where("D", "n", "=", <<7>>, Null)>>, <<Where("X", "n", "=", <<1>>, Null)>>,
               <<Where("", "c", "=", <<1>>, Null), Where("", "c", "=", <<2>>, Null)>>,
               <<Where("", "v", "is not blank", <<>>, Null)>>,
               <<Where("F", "t", "=", <<0>>, [form |-> "last month", y |-> 0, n |-> 0])>>}}
    \cup {Query(<<"F", "D">>, <<Part("", "v")>>, <<By("", "c")>>, <<>>)}
    \cup {[Query(<<"F">>, <<Part("", "v")>>, <<By("D", "n")>>, <<>>)
             EXCEPT !.limit = 1, !.share = TRUE, !.orderBy = <<By("", "metric")>>]}

\* Join graphs of up to four edges over four objects, cycles and parallel edges
\* among them; queries over one to four objects.
JoinEdges == {Edge("F", "k", "D", "k"), Edge("F", "x", "X", "x"), Edge("D", "x", "X", "x"),
              Edge("X", "y", "Y", "y"), Edge("Y", "y", "F", "y"), Edge("F", "k2", "D", "k2")}
JoinGraphs == {E \in SUBSET JoinEdges : Cardinality(E) <= 4}
JoinTargets == {objs \in UNION {[1..n -> {"F", "D", "X", "Y"}] : n \in 1..4} : objs[1] \in {"F", "Y"}}

-----------------------------------------------------------------------------
(* QuerySpec: an active dimension D, an inactive one Z, and names they share *)

Ref(od, name) == [od |-> od, name |-> name]
Cond(ref, op, vals) == [ref |-> ref, op |-> op, vals |-> vals]
SharedNames ==
    [ods |-> ("F" :> {"a", "b"} @@ "D" :> {"b", "c"} @@ "Z" :> {"c"}), active |-> {"F", "D"},
     domain |-> [r \in [od : {"F", "D", "Z"}, name : {"a", "b", "c"}] |->
                   IF r = Ref("F", "b") THEN {1} ELSE {}],
     alike |-> {<<"c", "b">>}, authorised |-> ("F" :> {"a"} @@ "D" :> {} @@ "Z" :> {}),
     candidates |-> [n \in {"a", "b", "c"} |-> IF n = "a" THEN {102} ELSE Null],
     pivotOn |-> "a", pure |-> TRUE]
Param(t, d, opt) == [name |-> "p", type |-> t, property |-> Ref("", "a"), op |-> "",
                     default |-> d, optional |-> opt, allowed |-> Null]
Hints == [metric : {"", "m"},
          filters : {<<>>, <<Cond(Ref("", "a"), "=", {3})>>, <<Cond(Ref("D", "b"), "regexp", {3})>>},
          auto : {<<>>, <<Ref("", "a")>>, <<Ref("D", "b"), Ref("", "a")>>}, replace : BOOLEAN,
          order : {""}, limit : {0, 10}, shareSafe : {FALSE}]
SavedIntents ==
    [object : {"F"}, hint : Hints, sql : {FALSE},
     params : {<<>>, <<Param("property_filter", Null, TRUE)>>, <<Param("int", 5, TRUE)>>,
               <<[Param("property_filter", 101, TRUE) EXCEPT !.op = "ilike"]>>,
               <<[Param("enum_ref", Null, FALSE) EXCEPT !.allowed = {102}]>>}]
Calls ==
    [od : {"F"}, orderBy : {<<>>}, params : {<<>>, ("p" :> 102)},
     groupBy : {<<>>, <<Ref("", "a")>>, <<Ref("D", "b")>>, <<Ref("D", "c"), Ref("", "b")>>},
     filters : {<<>>, <<Cond(Ref("", "a"), "=", {1}), Cond(Ref("D", "b"), "=", {1})>>}
               \cup {<<Cond(r, op, {1})>> : r \in {Ref("", "a"), Ref("", "b"), Ref("D", "b"), Ref("D", "c")},
                                            op \in {"", ">", "!="}}]
Required == {<<>>, <<Ref("", "b")>>, <<Ref("D", "c"), Ref("Z", "c")>>, <<Ref("Z", "c")>>}

-----------------------------------------------------------------------------
(* Transfer: a project with one row of most tables, references by name to rows that *)
(* are live or not, imported into an empty, an overlapping and a conflicting one     *)

Projects ==
    {[Tr!EmptyProject EXCEPT
        !.objects = [n \in {"F", "D"} |-> [val |-> 1, live |-> n = "F" \/ d]],
        !.props = [k \in {<<"F", "a">>, <<"D", "b">>} |-> [val |-> 1, live |-> k[1] = "D" \/ p]],
        !.metrics = ("m" :> [val |-> 1, target |-> t, live |-> l]),
        !.links = (<<"F", "D", "k">> :> [val |-> 1, live |-> TRUE]),
        !.aliases = ("x" :> a),
        !.rules = ("r" :> [val |-> 1]), !.methods = ("q" :> [val |-> 1]),
        !.intents = ("i" :> [val |-> 1, object |-> io]),
        !.keywords = (<<"F", kp, IF kp = "" THEN "i" ELSE "", "w">> :>
                        [val |-> 1, intent |-> IF kp = "" \/ both THEN "i" ELSE "", orphan |-> TRUE])] :
       d \in BOOLEAN, p \in BOOLEAN, t \in {"", "D"}, l \in BOOLEAN, both \in BOOLEAN,
       a \in {[val |-> 1, kind |-> "object", ref |-> <<"D">>], [val |-> 1, kind |-> "metric", ref |-> <<"m">>],
              [val |-> 1, kind |-> "property", ref |-> <<"F", "a">>], [val |-> 1, kind |-> "value", ref |-> <<>>]},
       io \in {"F", "D"}, kp \in {"", "a"}}
Targets ==
    {Tr!EmptyProject,
     [Tr!EmptyProject EXCEPT
        !.objects = ("F" :> [val |-> 2, live |-> TRUE]), !.props = (<<"F", "c">> :> [val |-> 2, live |-> TRUE]),
        !.aliases = ("x" :> [val |-> 2, kind |-> "value", ref |-> <<>>]),
        !.keywords = (<<"F", "c", "", "w">> :> [val |-> 2, intent |-> "", orphan |-> FALSE]),
        !.lakehouseMetrics = ("z" :> "F")],
     [Tr!EmptyProject EXCEPT !.objects = ("D" :> [val |-> 2, live |-> FALSE]), !.rules = ("r" :> [val |-> 3])]}

-----------------------------------------------------------------------------
(* Recall: three objects whose columns share names and values *)

Word(w, p, e, l) == [word |-> w, prop |-> p, od |-> "", metric |-> "", column |-> FALSE, stop |-> FALSE,
                     code |-> FALSE, long |-> FALSE, exact |-> e, like |-> l, near |-> <<>>]
WordPool ==
    {Word("v", <<"A", "x">>, {"t"}, {"t", "u"}), Word("v", <<"B", "x">>, {"t"}, {"t"}),
     Word("v2", <<"B", "x">>, {"t", "u"}, {"t", "u"}), Word("x", <<"C", "x">>, {"u"}, {"u", "t"}),
     Word("v3", <<"C", "x">>, {}, {"u"}), [Word("b", <<>>, {"u"}, {"u"}) EXCEPT !.od = "B"],
     [Word("m", <<>>, {"w"}, {"w", "u"}) EXCEPT !.metric = "m"],
     [Word("y", <<"A", "y">>, {}, {}) EXCEPT !.near = [tok \in {"w"} |-> 90]]}
Lineage == {<<<<"A", "x">>, <<"B", "x">>>>, <<<<"B", "y">>, <<"C", "y">>>>, <<<<"C", "x">>, <<"A", "x">>>>}
Vocabularies ==
    [active : {{"A", "B", "C"}, {"A", "B"}}, props : {{"A", "B", "C"} \X {"x", "y"}}, codes : {{}},
     keywords : {SetToSeq(s) : s \in UNION {kSubset(n, WordPool) : n \in 1..3}},
     joins : {<<>>} \cup {<<e>> : e \in Lineage} \cup {<<e, f>> : e \in Lineage, f \in Lineage},
     metrics : {"m" :> [od |-> "A", priority |-> 1, rank |-> 1, live |-> TRUE]},
     named : {[t \in {"u"} |-> <<<<"A", "y">>, <<"C", "y">>>>]},
     titled : {[t \in {"w"} |-> <<[od |-> "C", via |-> "name"], [od |-> "B", via |-> "alias"]>>]},
     known : {[t \in {"u", "w"} |-> <<[id |-> "k", kind |-> "analysis_pattern"], [id |-> "k2", kind |-> ""]>>]},
     facts : {[t \in {"t"} |-> [tagged |-> {}, like |-> {}, near |-> {"f"}]]}, vectors : {TRUE}]

-----------------------------------------------------------------------------
(* Judge: one need of the question, metrics of this turn (m) and of the thread (n) *)

JudgeParam(n, s) == [name |-> n, prop |-> {"z"}, shape |-> s]
Metric(n, t, ps) == [name |-> n, tokens |-> t, params |-> ps]
TurnMetrics == {<<>>, <<Metric("m", {{"a", "b"}}, {JudgeParam({"b", "c"}, "range")})>>, <<Metric("m", {}, {})>>,
                <<Metric("m", {}, {[JudgeParam({"c"}, "") EXCEPT !.prop = {"a", "b"}]})>>}
ThreadMetrics == {<<>>, <<Metric("n", {}, {JudgeParam({"a", "b"}, "point")})>>, <<Metric("n", {{"b", "c"}}, {})>>}
Needs == [kind : {"dimension", "filter"}, name : {{"a", "b"}, {"b", "c"}},
          value : {{}, {"a", "b"}, {"b", "c"}, {"1", "2"}}, shape : {"", "point"},
          covered : BOOLEAN, by : {{}, {"m"}, {"n"}}]
RecallResults ==
    [metrics : TurnMetrics, columns : {{}},
     details : {<<>>, ({"b", "c"} :> <<[field |-> "f", column |-> FALSE]>>),
                ({"a"} :> <<[field |-> "", column |-> FALSE]>>)}]
KeywordTables == [rows : SUBSET [prop : {"p", "q"}, word : {{"a", "b"}}, code : BOOLEAN], fails : {FALSE}]

-----------------------------------------------------------------------------
(* Answer: words that are parts of others, under a filter or none *)

Vocabulary == {"", " ", "{", "}", "share", "gshare", "of", "ratio", "globe", "PRC", "GEO", "real",
               "real share", "denominator", "62", "60", "each", "all", "top", "category", "company",
               "CompanyName", "CategoryID", "below", "Tea", "by", "sales"}
Ans == INSTANCE Answer WITH
    Within <- [w \in Vocabulary |->
        CASE w = "share" -> {"share", "of"} [] w = "gshare" -> {"gshare", "share", "of", "globe"}
          [] w = "real share" -> {"real share", "real", "share", "of"}
          [] w = "CompanyName" -> {"CompanyName", "companyname"} [] w = "CategoryID" -> {"CategoryID", "cat"}
          [] OTHER -> {w}],
    Letters <- {"of"}, Indicators <- {"share", "gshare", "ratio", "of"}, AllPrefixes <- {"all"},
    ScopeMarkers <- {"denominator"}, Globe <- "globe", BreakdownPhrases <- {"each"},
    DimTriggers <- <<"each", "by">>, RankingPhrases <- {"top"}, DimWords <- {"category", "company"},
    HintWords <- {"category"}, Synonyms <- ("category" :> {"cat"}) @@ ("company" :> {"companyname"}),
    Nouns <- <<"category">>, Locatives <- {"below"}

Questions == {<<"PRC", "share">>, <<"PRC", "gshare">>, <<"sales">>, <<"all", " ", "GEO", "share">>,
              <<"GEO", "real", "share">>, <<"globe", "share">>, <<"62", "share">>, <<"real", "of">>,
              <<"real share", "60">>, <<"all", "GEO", "ratio">>, <<>>}
OneFilter == [prop : {"GEO"}, op : {"=", ">"}, value : {"PRC", "globe"}]
             \cup {[prop |-> "D", op |-> "=", value |-> "real"]}
Executed == [groupBy : {{}, {"GEO"}}, intent : {"x"},
             filters : {{}} \cup {{f} : f \in OneFilter}
                       \cup {{[prop |-> "GEO", op |-> "=", value |-> "PRC"], [prop |-> "D", op |-> "=", value |-> "real"]}}]
PivotViews == [suffix : {"", "share"}, axis : {"", "row"}, totalLabel : {"", "all"},
               template : {<<>>, <<"real", "{", "62", "{", "}", "}", "60">>, <<"globe">>},
               columns : {{}, {"real"}, {"real share", "ratio"}}]
ResultRows == {<<>>, <<[total |-> 0, dims |-> {"PRC", "of"}]>>,
               <<[total |-> 0, dims |-> {"real"}], [total |-> 1, dims |-> {"PRC"}], [total |-> 1, dims |-> {"sales"}]>>}
Summaries == {[total |-> "62", distinct |-> "60"], [total |-> "60", distinct |-> "60"]}

Sentences == UNION {[1..n -> {"each", "all", " ", "category", "company", "below", "Tea", "by"}] : n \in 1..4}
Responses == [rows : 0..3, columns : {{"CategoryID"}, {"CompanyName"}, {"sales"}}, groupBy : {{"x"}},
              filters : {{}, {<<"x">>}}, plan : BOOLEAN]

-----------------------------------------------------------------------------
(* Pivot: facts with values that differ in case or share a label *)

aU == [word |-> "a", case |-> "U"]
aL == [word |-> "a", case |-> "l"]
bU == [word |-> "b", case |-> "U"]
PivotMetrics == [on : {"p"}, values : {<<>>, <<aU>>, <<bU, aU>>, <<aU, aL>>},
                 labels : {<<>>, <<"", "x">>, <<"x", "x">>}, percent : {TRUE}, axis : {"row"},
                 scope : {"filtered", "global"}]
Fact(ms) == [dim : {"d", "e"}, value : {aU, aL, bU}, kept : {TRUE}, extra : BOOLEAN, m : ms]
PivotFacts ==
    {{}} \cup {{f, g} : f, g \in Fact({1, -1, 2})} \cup {{f, g, h} : f, g, h \in Fact({1})}
    \cup {{[dim |-> "d", value |-> aU, kept |-> FALSE, extra |-> TRUE, m |-> 1],
           [dim |-> "d", value |-> aU, kept |-> TRUE, extra |-> TRUE, m |-> 2]}}

-----------------------------------------------------------------------------
Ask(name, partial) == alg = [name |-> name, whole |-> FALSE] /\ in \in partial
Complete(name, inputs) ==
    /\ alg = [name |-> name, whole |-> FALSE]
    /\ alg' = [name |-> name, whole |-> TRUE] /\ in' \in inputs

Init == \/ Ask("dense", Queries) \/ Ask("join", JoinGraphs) \/ Ask("spec", SavedIntents)
        \/ Ask("transfer", Projects) \/ Ask("recall", Vocabularies) \/ Ask("judge", Needs)
        \/ Ask("answer", Questions \X Executed) \/ Ask("reflect", Sentences)
        \/ Ask("pivot", PivotMetrics)

vars == <<alg, in>>

Next == \/ Complete("dense", {[q |-> in, db |-> db] : db \in Databases})
        \/ Complete("join", {[edges |-> in, objs |-> objs] : objs \in JoinTargets})
        \/ Complete("spec", {[intent |-> in, args |-> a, required |-> r] : a \in Calls, r \in Required})
        \/ Complete("transfer", [source : {in}, db : Targets, mode : {"merge", "replace", "skip"},
                                 failing : SUBSET {<<"F">>, <<"D">>, <<"F", "a">>}])
        \/ Complete("recall", [db : {in}, before : {<<"t", "u", "w">>, <<"t", "", "u">>},
                               after : {<<"t", "w">>, <<"u", "t">>, <<"w">>}])
        \/ Complete("judge", [need : {in}, db : KeywordTables, rr : RecallResults, thread : ThreadMetrics])
        \/ Complete("answer", {Ans!SynthInput(in[1], in[2], p, r, s) :
                                 p \in PivotViews, r \in ResultRows, s \in Summaries})
        \/ Complete("reflect", [question : {in}, resp : Responses])
        \/ Complete("pivot", [metric : {in}, facts : PivotFacts, dense : BOOLEAN])

-----------------------------------------------------------------------------
\* Every input is completed by a step, so what holds of the completing steps holds of
\* all inputs.
Completed(name) == alg' = [name |-> name, whole |-> TRUE]

\* The dense form of a grouped query adds the empty groups and changes no figure
\* (buildDenseMultiOdV2 against buildMultiOdV2): QueryEngine!DenseAgreesWithPlain.
DenseAgreesWithPlain == [][Completed("dense") => Engine!DenseAgreesWithPlain(StarSchema, in'.db, in'.q)]_vars

\* Without cycles in the join graph the joins of a query do not depend on the order of
\* maps and rows (ResolveJoinPath): QueryEngine!JoinPathIsUnique.
JoinPathIsUnique == [][Completed("join") => Engine!JoinPathIsUnique(in'.edges, in'.objs)]_vars

\* What the caller asks for reaches the pipeline: groups, filters and required
\* dimensions (lakehouseToolSmartQuery, ApplyIntentHint): QuerySpec!AskedIsKept.
AskedIsKept == [][Completed("spec") => Pipeline!AskedIsKept(SharedNames, in'.intent, in'.args, in'.required)]_vars

\* An intent that passed ValidateIntentDryRun is not refused when it is used:
\* QuerySpec!DryRunIsSound.
DryRunIsSound == [][Completed("spec") => Pipeline!DryRunIsSound(SharedNames, in'.intent, in'.args, in'.required)]_vars

\* An import restores what was exported, and completes an import of which statements
\* failed (handleOntologyImport, buildExportBundle): Transfer!ImportRestores.
ImportRestores == [][Completed("transfer") => Tr!ImportRestores(in'.source, in'.db, in'.mode, in'.failing)]_vars

\* The context of a question does not depend on which token's goroutine comes first
\* (BuildLakehouseContext): Recall!ArrivalIsIrrelevant.
ArrivalIsIrrelevant == [][Completed("recall") => Rec!ArrivalIsIrrelevant(in'.db, in'.before)]_vars

\* No token that was found loses its hit, in the turn or in the next one, which is
\* answered from the thread's cache (BuildLakehouseContextCached): Recall!RecallIsWhole.
RecallIsWhole == [][Completed("recall") => Rec!RecallIsWhole(in'.db, in'.before, in'.after)]_vars

\* The reachability judge agrees with itself across turns and with the tool that gives
\* up: the thread's metrics only help (runReachabilityJudge), and what it calls answerable
\* is not accepted as a capability gap (AnswerableSubset, runDeclareCapabilityGap):
\* Judge!ThreadMetricsHelp and Judge!AnswerableIsNoGap.
JudgeIsCoherent ==
    [][Completed("judge") =>
         LET vocab == ("point" :> {"range"})
         IN  /\ Gate!ThreadMetricsHelp(in'.db, in'.rr, in'.thread, vocab, <<in'.need>>)
             /\ Gate!AnswerableIsNoGap(in'.db, in'.rr, in'.thread, vocab, <<in'.need>>)]_vars

\* The ten checks of the synthesizer leave some answer to write, up to the named
\* contradictions (runAllChecks): Answer!AnswerExists.
AnswerExists == [][Completed("answer") => Ans!AnswerExists(in')]_vars

\* An agent that follows reflect's advice is not told for ever that the result has the
\* wrong shape (ruleBasedVerdict): Answer!ReflectSettles.
ReflectSettles == [][Completed("reflect") => Ans!ReflectSettles(in'.question, in'.resp)]_vars

\* A pivot loses nothing of the query's figures, and no share exceeds the whole
\* (applyIntentPivot): Pivot!PivotKeepsTheTotal and, where no figure is negative,
\* Pivot!NoShareAboveAll.
PivotIsTrue ==
    [][Completed("pivot") =>
        /\ Piv!PivotKeepsTheTotal(in'.metric, in'.facts, in'.dense)
        /\ (\A f \in in'.facts : f.m >= 0) =>
             \A axis \in {"", "column"}, runs \in BOOLEAN :
                 Piv!NoShareAboveAll(in'.metric, in'.facts, in'.dense, axis, runs)]_vars
=============================================================================
