------------------------------ MODULE QuerySpec ------------------------------
(***************************************************************************)
(* How a smartquery call of the agent becomes the query specification that *)
(* lakehouse-sql-server runs.  agent-server looks the metric (an "intent") *)
(* up, adds the caller's groups, filters and orders, binds the parameters, *)
(* groups by what is filtered and sends the specification; the other       *)
(* server's pipeline applies the intent's hint to it and validates it.     *)
(*                                                                         *)
(* A reference is [od, name], with od = "" when it is not qualified.  An   *)
(* ontology o has  ods (the properties of each OD), active (the ODs that   *)
(* are), domain (the known values of a property, {} when unknown), alike   *)
(* (pairs of names of which one contains the other), authorised (the       *)
(* columns some metric of an OD aggregates), candidates (the keywords of a *)
(* property name), pivotOn (the property the question's metric is pivoted  *)
(* on, or ""), pure (pure-metric mode).                                    *)
(***************************************************************************)
EXTENDS Integers, Sequences, FiniteSets, SequencesExt, FiniteSetsExt, TLC

CONSTANT Null

Ref(od, name) == [od |-> od, name |-> name]
\* CanonicalPropKey and bareDimKey: the OD and the date granularity do not count.
CanonicalPropKey(ref) == ref.name
Keys(refs) == {CanonicalPropKey(refs[i]) : i \in DOMAIN refs}
HasGroupBy(refs, ref) == ref.name # "" /\ CanonicalPropKey(ref) \in Keys(refs)
AppendGroupBy(refs, ref) == IF ref.name = "" \/ HasGroupBy(refs, ref) THEN refs ELSE Append(refs, ref)

Failed == [ok |-> FALSE]
\* Values: 0 is the empty text, 1..(Word - 1) are positive numbers, the rest is other text.
Word == 100
coerceInt(v) == IF v \in 1..(Word - 1) THEN v ELSE Null
Filter(ref, op, vals) == [ref |-> ref, op |-> op, vals |-> vals]

-----------------------------------------------------------------------------
(* Parameters (intent_params.go, the same in both servers) *)

Op(op) == IF op = "" THEN "=" ELSE op
\* One parameter with its value: a limit or one more filter.
applyOneParam(spec, p, v) ==
    LET filtered(x) == [spec EXCEPT !.filters = Append(@, Filter(p.property, Op(p.op), {x}))]
        hasProperty == p.property.name # ""
    IN  CASE p.type = "int" -> IF coerceInt(v) # Null THEN [spec EXCEPT !.limit = coerceInt(v)] ELSE Failed
          [] p.type = "string" -> IF hasProperty THEN filtered(v) ELSE spec
          [] p.type = "property_filter" -> IF hasProperty THEN filtered(v) ELSE Failed
          [] p.type = "enum_ref" ->
                IF hasProperty /\ (p.allowed = Null \/ v \in p.allowed) THEN filtered(v) ELSE Failed
          [] OTHER -> Failed
\* The value of each declared parameter: given, or its default.
ParamValue(p, given) == IF p.name \in DOMAIN given THEN given[p.name] ELSE p.default
BindIntentParams(spec, given, params) ==
    LET known == {params[i].name : i \in DOMAIN params}
        bind(s, p) == IF ~ s.ok \/ ParamValue(p, given) = Null THEN s ELSE applyOneParam(s, p, ParamValue(p, given))
        missing == \E i \in DOMAIN params : ParamValue(params[i], given) = Null /\ ~ params[i].optional
    IN  IF missing \/ ~ (DOMAIN given \subseteq known) THEN Failed ELSE FoldLeft(bind, spec, params)
\* The value a dry run gives a parameter.
DummyParamValue(p) ==
    IF p.default # Null THEN p.default ELSE IF p.type = "int" THEN 1
    ELSE IF p.type \in {"string", "property_filter"} THEN Word ELSE 0

-----------------------------------------------------------------------------
(* The pipeline of lakehouse-sql-server (pipeline.go, intent_hint.go) *)

isEqualityOp(op) == op \in {"", "=", "==", "ilike", "in"}
stripEqualityFiltersOn(filters, keys) ==
    SelectSeq(filters, LAMBDA f : ~ (CanonicalPropKey(f.ref) \in keys /\ isEqualityOp(f.op)))

\* A canonical filter is added unless its property is filtered already.
MergeFilters(filters, canonical) ==
    FoldLeft(LAMBDA fs, c : IF CanonicalPropKey(c.ref) \in {CanonicalPropKey(fs[i].ref) : i \in DOMAIN fs}
                            THEN fs ELSE Append(fs, c), filters, canonical)
\* replace_group_by: the intent's groups instead of the caller's, without their filters.
ReplaceGroups(spec, hint) ==
    [spec EXCEPT !.filters = stripEqualityFiltersOn(@, Keys(hint.auto)),
                 !.groupBy = FoldLeft(AppendGroupBy, <<>>, hint.auto)]
\* Otherwise the intent's missing groups come first; one that is filtered by equality is
\* moved: its filter goes.  A share column keeps out the others.
InjectGroups(spec, hint) ==
    LET missing == SelectSeq(hint.auto, LAMBDA g : ~ HasGroupBy(spec.groupBy, g))
        filtered == {CanonicalPropKey(f.ref) : f \in {f \in ToSet(spec.filters) : isEqualityOp(f.op)}}
        move == SelectSeq(missing, LAMBDA g : CanonicalPropKey(g) \in filtered)
        fresh == SelectSeq(missing, LAMBDA g : /\ CanonicalPropKey(g) \notin filtered
                                               /\ ~ spec.share \/ hint.shareSafe)
        injected == move \o fresh
    IN  [spec EXCEPT !.groupBy = injected \o SelectSeq(@, LAMBDA g : CanonicalPropKey(g) \notin Keys(injected)),
                     !.filters = stripEqualityFiltersOn(@, Keys(move))]
applyIntentHint(spec, hint) ==
    LET based == [spec EXCEPT !.metric = IF hint.metric = "" THEN @ ELSE hint.metric,
                              !.filters = MergeFilters(@, hint.filters),
                              !.orderBy = IF @ = <<>> /\ hint.order # "" THEN <<hint.order>> ELSE @,
                              !.limit = IF hint.limit > 0 /\ (@ <= 0 \/ @ >= 1000) THEN hint.limit ELSE @]
    IN  IF hint.auto = <<>> THEN based
        ELSE IF hint.replace THEN ReplaceGroups(based, hint) ELSE InjectGroups(based, hint)

PassGateMetricOrGroupBy(spec) == spec.metric # "" \/ spec.groupBy # <<>>
validOpSet == {"=", "<>", ">", ">=", "<", "<=", "contains", "like", "in", "not in", "between", "is blank"}
PassValidateSpec(spec) ==
    /\ spec.limit >= 0
    /\ \A i \in DOMAIN spec.groupBy : spec.groupBy[i].name # ""
    /\ \A i \in DOMAIN spec.orderBy : spec.orderBy[i] # ""
    /\ \A i \in DOMAIN spec.filters : spec.filters[i].ref.name # "" /\ spec.filters[i].op \in validOpSet
Run(spec, hint) ==
    LET hinted == applyIntentHint(spec, hint) IN
    IF spec.ok /\ PassGateMetricOrGroupBy(hinted) /\ PassValidateSpec(hinted) THEN hinted ELSE Failed

EmptySpec(objects) ==
    [ok |-> TRUE, objects |-> objects, metric |-> "", groupBy |-> <<>>, filters |-> <<>>,
     orderBy |-> <<>>, limit |-> 0, share |-> FALSE]
\* ValidateIntentDryRun: what saving a metric checks, with a made-up value for every parameter.
ValidateIntentDryRun(intent) ==
    LET given == [n \in {intent.params[i].name : i \in DOMAIN intent.params} |->
                    DummyParamValue(CHOOSE p \in ToSet(intent.params) : p.name = n)]
        bound == BindIntentParams(EmptySpec(<<intent.object>>), given, intent.params)
    IN  intent.object # "" /\ bound.ok /\ Run(bound, intent.hint).ok

-----------------------------------------------------------------------------
(* The agent's side (tool_compose_query.go, handler_agent_lakehouse.go) *)

\* A bare name is a property of the primary OD, a qualified one of an active OD.
resolveQualifiedProperty(o, primary, ref) ==
    LET od == IF ref.od = "" THEN primary ELSE ref.od
    IN  ref.name # "" /\ od \in o.active /\ ref.name \in o.ods[od]
newCompositionResolver(o, od) == od \in o.active /\ o.ods[od] # {}

AllowedOps == {"=", "!=", "<>", ">", "<", ">=", "<=", "in", "not_in", "like", "ilike", "between", "is_null", "is_not_null"}
\* A value outside a known small domain is refused.
lowCardValueDomain(o, primary, ref) == o.domain[[ref EXCEPT !.od = IF @ = "" THEN primary ELSE @]]
FilterAllowed(o, primary, f) ==
    LET domain == lowCardValueDomain(o, primary, f.ref)
    IN  /\ resolveQualifiedProperty(o, primary, f.ref)
        /\ Op(f.op) \in AllowedOps
        /\ Op(f.op) \in {"=", "!=", "in", "not_in"} /\ domain # {} => f.vals \subseteq domain
\* applyRuntimeComposition: the caller's groups, the required dimensions that resolve, the
\* caller's filters and orders, and the ODs they name.
applyRuntimeComposition(o, primary, args, required, spec) ==
    LET grouped == FoldLeft(LAMBDA gs, d : IF CanonicalPropKey(d) \in Keys(gs) \/ ~ resolveQualifiedProperty(o, primary, d)
                                           THEN gs ELSE Append(gs, d), args.groupBy, required)
        named == {r.od : r \in ToSet(grouped) \cup {f.ref : f \in ToSet(args.filters)}} \ {"", primary}
        refused == \/ \E i \in DOMAIN args.groupBy : ~ resolveQualifiedProperty(o, primary, args.groupBy[i])
                   \/ \E i \in DOMAIN args.filters : ~ FilterAllowed(o, primary, args.filters[i])
                   \/ \E i \in DOMAIN args.orderBy : args.orderBy[i] = ""
    IN  IF refused THEN Failed
        ELSE [spec EXCEPT !.groupBy = grouped,
                          !.filters = [i \in DOMAIN args.filters |-> [args.filters[i] EXCEPT !.op = Op(@)]],
                          !.orderBy = args.orderBy,
                          !.objects = @ \o SetToSeq(named \ ToSet(@))]

\* Every equality filter's property becomes a group, so that the result shows it.
Promoted == {"", "=", "==", "eq", "in"}
promoteFilterPropsToGroupBy(spec) ==
    [spec EXCEPT !.groupBy = FoldLeft(LAMBDA gs, f : IF f.op \in Promoted THEN AppendGroupBy(gs, f.ref) ELSE gs,
                                      @, spec.filters)]
\* A plausible bug: only the properties of "in" lists are promoted.
PromoteInLists(spec) ==
    [spec EXCEPT !.groupBy = FoldLeft(LAMBDA gs, f : IF f.op = "in" THEN AppendGroupBy(gs, f.ref) ELSE gs,
                                      @, spec.filters)]
Promote(spec) == promoteFilterPropsToGroupBy(spec)
\* An OD that owns an unqualified property none of the objects owns is added (the first
\* one the database returns).
ensureObjectsCoverReferencedProps(o, spec) ==
    LET bare == {r \in ToSet(spec.groupBy) \cup {f.ref : f \in ToSet(spec.filters)} : r.od = ""}
        owners(r) == {od \in DOMAIN o.ods : r.name \in o.ods[od]}
        cover(objs, r) == IF owners(r) = {} \/ owners(r) \cap ToSet(objs) # {} THEN objs
                          ELSE Append(objs, CHOOSE od \in owners(r) : TRUE)
    IN  [spec EXCEPT !.objects = FoldLeft(cover, @, SetToSeq(bare))]

\* The caller asks for a breakdown: some group is not pinned by an equality filter.
runtimeGroupByGiven(args) ==
    LET pinned == {CanonicalPropKey(f.ref) : f \in {f \in ToSet(args.filters) : f.op \in Promoted}}
    IN  \E i \in DOMAIN args.groupBy : args.groupBy[i].name # "" /\ CanonicalPropKey(args.groupBy[i]) \notin pinned
\* A plausible bug: the intent's groups are cleared for every call.
HintWithoutGroups(intent, given, required) == [intent.hint EXCEPT !.auto = <<>>, !.replace = FALSE]
\* The hint sent along: the caller's breakdown replaces the intent's; otherwise the required
\* dimensions join the intent's groups, and nothing is replaced.
HintFor(intent, given, required) ==
    LET hint == intent.hint
        missing == SelectSeq(required, LAMBDA d : d.name # "" /\ CanonicalPropKey(d) \notin Keys(hint.auto))
    IN  IF given THEN [hint EXCEPT !.auto = <<>>, !.replace = FALSE]
        ELSE IF required = <<>> THEN hint
        ELSE [hint EXCEPT !.auto = @ \o missing, !.replace = FALSE]
\* The objects of an intent: its own and those its filters and groups are qualified with.
lookupIntentByName(intent) ==
    LET named == {r.od : r \in ToSet(intent.hint.auto) \cup {f.ref : f \in ToSet(intent.hint.filters)}}
    IN  <<intent.object>> \o SetToSeq(named \ {"", intent.object})
\* The limit is put aside for a pivoted result and cut from it afterwards.
PivotLimit(o, spec) == IF spec.ok /\ spec.limit > 0 /\ \E i \in DOMAIN spec.groupBy : spec.groupBy[i].name = o.pivotOn
                       THEN spec.limit ELSE 0

\* The values an enum_ref may take are the property's keywords, unless they are too many
\* (Null); a qualified property has none.
resolveEnumRefCandidates(o, p) == IF p.property.od = "" THEN o.candidates[p.property.name] ELSE {}
applyEnumRefCandidates(o, params) ==
    [i \in DOMAIN params |-> IF params[i].type = "enum_ref" /\ resolveEnumRefCandidates(o, params[i]) # Null
                             THEN [params[i] EXCEPT !.allowed = resolveEnumRefCandidates(o, params[i])] ELSE params[i]]

\* The SQL of a metric written as SQL needs its required parameters and nothing else.
SqlMetric(intent, args) ==
    /\ intent.sql
    /\ \A p \in ToSet(intent.params) : p.optional \/ p.default # Null \/ ParamValue(p, args.params) \notin {Null, 0}

\* What the call sends, with its hint: the specification or a refusal.
lakehouseToolSmartQuery(o, intent, args, required) ==
    LET given == runtimeGroupByGiven(args)
        composed == applyRuntimeComposition(o, args.od, args, IF given THEN required ELSE <<>>,
                                            EmptySpec(lookupIntentByName(intent)))
        bound == IF composed.ok THEN BindIntentParams(composed, args.params, applyEnumRefCandidates(o, intent.params)) ELSE Failed
        limited == IF PivotLimit(o, bound) > 0 THEN [bound EXCEPT !.limit = 0] ELSE bound
    IN  IF args.od \notin ToSet(lookupIntentByName(intent)) \/ ~ newCompositionResolver(o, args.od) \/ ~ bound.ok
        THEN Failed
        ELSE ensureObjectsCoverReferencedProps(o, Promote(limited))
\* What lakehouse-sql-server then resolves.
Sent(o, intent, args, required) ==
    LET spec == lakehouseToolSmartQuery(o, intent, args, required)
    IN  IF spec.ok THEN Run(spec, HintFor(intent, runtimeGroupByGiven(args), required)) ELSE Failed

\* In pure-metric mode the column must be one that some metric of the OD aggregates.
metricColumnAuthorized(o, od, column) == o.pure => column \in o.authorised[od]
\* An aggregate the caller writes itself, over a property of the primary OD.
runComposeQueryTool(o, args, fn, column, required) ==
    LET spec == applyRuntimeComposition(o, args.od, args, required, EmptySpec(<<args.od>>))
        allowed == /\ fn \in {"sum", "avg", "min", "max", "count", "distinct_count"}
                   /\ newCompositionResolver(o, args.od) /\ column \in o.ods[args.od]
                   /\ metricColumnAuthorized(o, args.od, column)
    IN  IF allowed /\ spec.ok THEN [spec EXCEPT !.metric = column] ELSE Failed

\* The required dimensions reported missing: those no group the agent sent resembles (the
\* groups the hint added on the other server are not among them).
missingRequiredDims(o, spec, required) ==
    SelectSeq(required, LAMBDA d : ~ \E g \in ToSet(spec.groupBy) :
                                      g.name = d.name \/ <<g.name, d.name>> \in o.alike)

-----------------------------------------------------------------------------
(* Properties *)

\* The caller's groups and filters give way to an intent that replaces them.
Replaced(intent, args, required) ==
    intent.hint.replace /\ intent.hint.auto # <<>> /\ ~ runtimeGroupByGiven(args) /\ required = <<>>

(* Nothing the caller asked for is lost between the two servers.  The hint drops an equality
   filter on a property it groups by, so a filter survives only because the agent has made
   its property a group before; the caller's groups and the required dimensions that
   resolve are grouped by; a canonical filter applies unless the caller filters a property
   of that name or the intent groups by it; a dimension not reported missing, and resembled
   by no other, is there; and the same breakdown asked of compose_query is no finer.  (An intent that replaces the groups is the exception; and an
   "ilike" filter, which the hint counts as an equality and the agent does not.) *)
AskedIsKept(o, intent, args, required) ==
    LET agent == lakehouseToolSmartQuery(o, intent, args, required)
        sent == Sent(o, intent, args, required)
        composed == runComposeQueryTool(o, args, "sum", "a", required)
        given == runtimeGroupByGiven(args)
        filtered == {CanonicalPropKey(f.ref) : f \in ToSet(agent.filters)}
    IN  sent.ok =>
        /\ ~ Replaced(intent, args, required) =>
             /\ \A f \in ToSet(agent.filters) : f.op \in Promoted => f \in ToSet(sent.filters)
             /\ Keys(args.groupBy) \subseteq Keys(sent.groupBy)
             /\ \A d \in ToSet(required) :
                   ~ given \/ resolveQualifiedProperty(o, args.od, d) => CanonicalPropKey(d) \in Keys(sent.groupBy)
        /\ \A f \in ToSet(intent.hint.filters) :
              \/ f \in ToSet(sent.filters)
              \/ CanonicalPropKey(f.ref) \in filtered \cup Keys(intent.hint.auto)
              \/ \E g \in ToSet(intent.hint.filters) : g # f /\ CanonicalPropKey(g.ref) = CanonicalPropKey(f.ref)
              \/ (~ given /\ CanonicalPropKey(f.ref) \in Keys(required))
        /\ \A d \in ToSet(required) \ ToSet(missingRequiredDims(o, agent, required)) :
              \/ CanonicalPropKey(d) \in Keys(sent.groupBy) \/ Replaced(intent, args, required)
              \/ \E g \in ToSet(agent.groupBy) : <<g.name, d.name>> \in o.alike
        /\ given /\ composed.ok => Keys(composed.groupBy) \subseteq Keys(sent.groupBy)

(* A metric that passed the dry run when it was saved is not refused when it is used: with
   parameters that bind and groups and filters that resolve, the pipeline accepts what the
   agent sends.  (Operators the tool allows and the pipeline does not know, "!=" and
   "not_in", are the caller's.  An equality "==" or "ilike" on a property the intent groups
   by is dropped before the dry run could refuse it: intent_hint.go:194.) *)
Unseen(intent) == \E p \in ToSet(intent.params) \cup ToSet(intent.hint.filters) : p.op \in {"==", "ilike"}
DryRunIsSound(o, intent, args, required) ==
    LET agent == lakehouseToolSmartQuery(o, intent, args, required)
    IN  ValidateIntentDryRun(intent) /\ ~ Unseen(intent) /\ agent.ok /\ (\A f \in ToSet(args.filters) : Op(f.op) \in validOpSet)
        => Sent(o, intent, args, required).ok
=============================================================================
