-------------------------------- MODULE Recall --------------------------------
(***************************************************************************)
(* recall-server: from the tokens of a question to the objects, properties,*)
(* metrics and facts of the ontology it is about (recall_lakehouse.go,     *)
(* recall.go, lineage.go, recall_cached.go).                               *)
(*                                                                         *)
(* A project db is a record:                                               *)
(*   active    the objects whose mark is true                              *)
(*   props     the properties <<object, name>>; codes those with machine   *)
(*             codes                                                       *)
(*   keywords  the rows of lakehouse_keyword in the order a scan returns   *)
(*             them: [word, prop, od, metric, column, stop, code, long,    *)
(*             exact, like, near]; prop is <<>>, od and metric are "" for  *)
(*             NULL; exact and like are the tokens equal to and contained  *)
(*             in the word or an alias, near maps tokens to a similarity   *)
(*             in percent, long says the word is over three times as long  *)
(*             as a token                                                  *)
(*   joins     the join_key edges <<from property, to property>>, in scan  *)
(*             order                                                       *)
(*   metrics   name -> [od, priority, rank, live], rank the place of the   *)
(*             name in the alphabet, live: neither deleted nor unmarked    *)
(*   named     token -> properties whose name matches it; titled  token -> *)
(*             objects whose name, display name or alias does; both ranked *)
(*   known     token -> knowledge entries [id, kind]; facts  token ->      *)
(*             [tagged, like, near], confirmed facts by tier               *)
(*   vectors   the embedding service answers                               *)
(* A token "" stands for a blank one.                                      *)
(***************************************************************************)
EXTENDS Integers, Sequences, FiniteSets, Functions, SequencesExt, TLC

CONSTANTS MaxHits,          \* LIMIT of the keyword searches (10 in the code)
          CollapseAt,       \* fuzzyValueCollapseThreshold (4)
          MaxNames,         \* LIMIT of the name fallbacks (3)
          MaxHops           \* maxLineageHops (8)

\* What the instances assume of the limits.
LimitsAssumption == {MaxHits, CollapseAt, MaxNames, MaxHops} \subseteq Nat \ {0}

Take(n, s) == SubSeq(s, 1, IF Len(s) < n THEN Len(s) ELSE n)
Image(Op(_), s) == [i \in DOMAIN s |-> Op(s[i])]
AddNew(s, x) == IF Contains(s, x) THEN s ELSE Append(s, x)          \* appendUnique
Get(f, k) == IF k \in DOMAIN f THEN f[k] ELSE <<>>
OdOf(k) == IF k.prop # <<>> THEN k.prop[1] ELSE k.od
Spoken(tokens) == SelectSeq(tokens, LAMBDA t : t # "")

-----------------------------------------------------------------------------
(* The searches: an exact tier, a fuzzy one, a vector one; the first that finds something *)

KeywordHit(k, token, tier) ==
    [token |-> token, word |-> k.word, prop |-> k.prop, od |-> OdOf(k), tier |-> tier,
     column |-> k.column, count |-> 1]
Searched(db, k) == ~k.stop /\ OdOf(k) \in db.active
\* The keywords a search looks at, in scan order; codes take part in the exact tier only.
PropertyWords(db) == SelectSeq(db.keywords, LAMBDA k : k.prop # <<>> /\ Searched(db, k))
ObjectWords(db) == SelectSeq(db.keywords, LAMBDA k : k.prop = <<>> /\ k.od # "" /\ Searched(db, k))
IsCode(db, k) == k.code \/ k.prop \in db.codes

ExactTier(words, token) == Take(MaxHits, SelectSeq(words, LAMBDA k : token \in k.exact))
\* The long words are left out after the LIMIT.
FuzzyTier(db, words, token) ==
    SelectSeq(Take(MaxHits, SelectSeq(words, LAMBDA k : ~IsCode(db, k) /\ token \in k.like \ k.exact)),
              LAMBDA k : ~k.long)
VectorTier(db, words, token) ==
    LET near == {i \in DOMAIN words : /\ ~IsCode(db, words[i])
                                      /\ token \in DOMAIN words[i].near /\ words[i].near[token] >= 85}
        sim(i) == words[i].near[token]
        best == CHOOSE i \in near : \A j \in near : sim(j) < sim(i) \/ (sim(j) = sim(i) /\ i <= j)
    IN  IF ~db.vectors \/ near = {} THEN <<>> ELSE <<words[best]>>

\* Many values of one property that a token merely contains are one hit with a count.
collapseFuzzyValueHits(hits) ==
    LET values(p) == {i \in DOMAIN hits : hits[i].prop = p /\ ~hits[i].column}
        many == {p \in {hits[i].prop : i \in DOMAIN hits} \ {<<>>} : Cardinality(values(p)) > CollapseAt}
        first(p) == CHOOSE i \in values(p) : \A j \in values(p) : i <= j
        kept == {i \in DOMAIN hits : \A p \in many : i \in values(p) => i = first(p)}
        marked == [i \in DOMAIN hits |->
                     IF \E p \in many : i = first(p)
                     THEN [hits[i] EXCEPT !.tier = "FUZZY_LIKE", !.count = Cardinality(values(hits[i].prop))]
                     ELSE hits[i]]
    IN  IF Len(hits) <= CollapseAt THEN hits
        ELSE FoldLeft(LAMBDA s, i : IF i \in kept THEN Append(s, marked[i]) ELSE s,
                      <<>>, [i \in DOMAIN hits |-> i])

FirstTier(db, words, token) ==
    LET exact == ExactTier(words, token)
        fuzzy == FuzzyTier(db, words, token)
    IN  IF exact # <<>> THEN Image(LAMBDA k : KeywordHit(k, token, "EXACT"), exact)
        ELSE IF fuzzy # <<>> THEN Image(LAMBDA k : KeywordHit(k, token, "FUZZY"), fuzzy)
        ELSE Image(LAMBDA k : KeywordHit(k, token, "VEC"), VectorTier(db, words, token))
\* Exact and vector hits are never collapsed.
searchLakehouseKeywordFull(db, token) ==
    LET hits == FirstTier(db, PropertyWords(db), token)
    IN  IF hits # <<>> /\ hits[1].tier = "FUZZY" THEN collapseFuzzyValueHits(hits) ELSE hits
\* The fuzzy tier stops at five objects.
searchLakehouseOdAlias(db, token) ==
    LET hits == FirstTier(db, ObjectWords(db), token)
    IN  IF hits # <<>> /\ hits[1].tier = "FUZZY" THEN Take(5, hits) ELSE hits
SearchToken(db, token) == searchLakehouseKeywordFull(db, token) \o searchLakehouseOdAlias(db, token)

-----------------------------------------------------------------------------
(* Lineage: a value found in a copy of a column is reported at the column it is a copy of *)

\* The first edge into a property is its parent; ods maps an object to its parents, in scan order.
buildPropertyLineage(db) ==
    LET live == SelectSeq(db.joins, LAMBDA e : e[1][1] \in db.active /\ e[2][1] \in db.active)
        child(p) == SelectSeq(live, LAMBDA e : e[2] = p)
        above(od) == Image(LAMBDA e : e[1][1], SelectSeq(live, LAMBDA e : e[2][1] = od /\ e[1][1] # od))
    IN  [parent |-> [p \in {live[i][2] : i \in DOMAIN live} |-> child(p)[1][1]],
         ods |-> [od \in {live[i][2][1] : i \in DOMAIN live} |-> FoldLeft(AddNew, <<>>, above(od))],
         props |-> {p \in db.props : p[1] \in db.active}]
findSameNameParent(lineage, p, visited) ==
    SelectSeq(Image(LAMBDA od : <<od, p[2]>>, Get(lineage.ods, p[1])),
              LAMBDA q : q \in lineage.props \ visited)
walkUpstream(lineage, p) ==
    LET step(w, hop) ==
            LET up == IF w.at \in DOMAIN lineage.parent THEN <<lineage.parent[w.at]>>
                      ELSE findSameNameParent(lineage, w.at, w.seen)
            IN  IF w.done \/ up = <<>> \/ up[1] \in w.seen THEN [w EXCEPT !.done = TRUE]
                ELSE [at |-> up[1], seen |-> w.seen \cup {up[1]}, done |-> FALSE]
    IN  FoldLeft(step, [at |-> p, seen |-> {p}, done |-> FALSE], [i \in 1..MaxHops |-> i]).at

\* One hit per token, property, object and tier; without edges nothing is merged.
normalizeValueAliasHits(hits, lineage) ==
    LET raised(h) == IF h.prop = <<>> \/ h.column THEN h
                     ELSE LET up == walkUpstream(lineage, h.prop) IN [h EXCEPT !.prop = up, !.od = up[1]]
        key(h) == <<h.token, h.prop, h.od, h.tier>>
        add(s, h) == IF \E i \in DOMAIN s : key(s[i]) = key(h) THEN s ELSE Append(s, h)
    IN  IF DOMAIN lineage.parent = {} THEN hits ELSE FoldLeft(add, <<>>, Image(raised, hits))

-----------------------------------------------------------------------------
(* Disambiguation *)

\* The from side of some edge between the objects, marked or not; "" if there is none.
findJoinKeyOneSide(db, ods) ==
    LET edges == SelectSeq(db.joins, LAMBDA e : e[1][1] \in ods /\ e[2][1] \in ods)
    IN  IF Cardinality(ods) < 2 \/ edges = <<>> THEN "" ELSE edges[1][1][1]

PinnedByTheFirst(hits) == {hits[i].od : i \in {1} \cap DOMAIN hits}
\* The objects of the tokens that have one hit.
Pinned(hits) == {hits[i].od : i \in {i \in DOMAIN hits : \A j \in DOMAIN hits :
                                       hits[j].token = hits[i].token => j = i}}
\* What is kept of one token's hits.
KeepOfToken(db, mine, pinned) ==
    LET ods == {h.od : h \in mine}
        one == findJoinKeyOneSide(db, ods)
        in == {h \in mine : h.od \in pinned}
    IN  CASE \E h \in mine : h.tier # "EXACT" -> mine
          [] (\A h \in mine : h.tier = "EXACT") /\ in # {} /\ in # mine -> in
          [] (\A h \in mine : h.tier = "EXACT") /\ (in = {} \/ in = mine) ->
               IF one = "" THEN mine ELSE {h \in mine : h.od = one}
applyExactDisambiguation(db, hits) ==
    LET mine(t) == {hits[i] : i \in {i \in DOMAIN hits : hits[i].token = t}}
        single(t) == Cardinality({i \in DOMAIN hits : hits[i].token = t}) = 1
    IN  SelectSeq(hits, LAMBDA h : single(h.token) \/ h \in KeepOfToken(db, mine(h.token), Pinned(hits)))

-----------------------------------------------------------------------------
(* Metrics whose trigger words the tokens are *)

lookupIntentsForToken(db, token, exact) ==
    LET hit(k) == /\ k.metric # "" /\ ~k.stop
                  /\ db.metrics[k.metric].live /\ db.metrics[k.metric].od \in db.active
                  /\ IF exact THEN token \in k.exact ELSE token \in k.like \ k.exact /\ ~k.code
    IN  Take(MaxHits, FoldLeft(AddNew, <<>>, Image(LAMBDA k : k.metric, SelectSeq(db.keywords, hit))))
\* state: [found: metric -> [tier, tokens], matched: tokens]
AddIntents(state, token, names, tier) ==
    [found |-> [m \in DOMAIN state.found \cup Range(names) |->
                  IF m \notin DOMAIN state.found THEN [tier |-> tier, tokens |-> <<token>>]
                  ELSE IF ~Contains(names, m) THEN state.found[m]
                  ELSE [state.found[m] EXCEPT !.tokens = AddNew(@, token)]],
     matched |-> IF names = <<>> THEN state.matched ELSE state.matched \cup {token}]
\* Exact for every token, then fuzzy for the tokens nothing has matched so far.
recallMetricIntents(db, tokens, matched) ==
    LET exact(s, t) == AddIntents(s, t, lookupIntentsForToken(db, t, TRUE), "EXACT")
        fuzzy(s, t) == IF t \in s.matched THEN s
                       ELSE AddIntents(s, t, lookupIntentsForToken(db, t, FALSE), "FUZZY")
    IN  FoldLeft(fuzzy, FoldLeft(exact, [found |-> <<>>, matched |-> matched], Spoken(tokens)), Spoken(tokens))
\* The order they are offered in: priority, then name.
IntentOrder(db, names) ==
    SetToSortSeq(names, LAMBDA a, b : \/ db.metrics[a].priority > db.metrics[b].priority
                                      \/ /\ db.metrics[a].priority = db.metrics[b].priority
                                         /\ db.metrics[a].rank < db.metrics[b].rank)

-----------------------------------------------------------------------------
(* The blocks of the objects found *)

\* blocks: object -> [props: property -> hits, via].  An object that is not active has none.
AddHit(db, blocks, h) ==
    LET b == IF h.od \in DOMAIN blocks THEN blocks[h.od] ELSE [props |-> <<>>, via |-> {}]
        hits == IF h.prop \in DOMAIN b.props THEN b.props[h.prop] ELSE {}
        new == IF h.prop = <<>> THEN [b EXCEPT !.via = @ \cup {"od-alias-keyword"}]
               ELSE [props |-> (h.prop :> (hits \cup {h})) @@ b.props, via |-> b.via \cup {"property"}]
    IN  IF h.od \in db.active THEN (h.od :> new) @@ blocks ELSE blocks
resolveLakehouseOdLinks(db, ods) ==
    {<<db.joins[i][1][1], db.joins[i][2][1]>> :
        i \in {i \in DOMAIN db.joins : {db.joins[i][1][1], db.joins[i][2][1]} \subseteq ods \cap db.active}}
\* A value found in several objects that no edge relates.
detectLakehouseAmbiguities(db, blocks) ==
    LET words(od) == {h.word : h \in {h \in UNION Range(blocks[od].props) : ~h.column /\ h.word # h.prop[2]}}
        ods(w) == {od \in DOMAIN blocks : w \in words(od)}
    IN  {w \in UNION {words(od) : od \in DOMAIN blocks} :
           Cardinality(ods(w)) >= 2 /\ findJoinKeyOneSide(db, ods(w)) = ""}

-----------------------------------------------------------------------------
(* Fallbacks; r is the result so far *)

\* Objects whose name, display name or alias is like the token, for every token.
fallbackDirectOd(db, r, token) ==
    LET add(s, m) ==
            IF m.od \in DOMAIN s.blocks THEN [s EXCEPT !.blocks[m.od].via = @ \cup {m.via}]
            ELSE IF m.od \in DOMAIN s.direct THEN [s EXCEPT !.direct[m.od] = @ \cup {m.via}]
            ELSE [s EXCEPT !.direct = (m.od :> {m.via}) @@ @]
    IN  FoldLeft(add, r, SelectSeq(Take(9, Get(db.titled, token)), LAMBDA m : m.od \in db.active))
appendOkRows(r, token, rows) ==
    FoldLeft(LAMBDA s, id : [s EXCEPT !.ok = (id :> Append(Get(@, id), token)) @@ @], r, rows)
KnownOf(db, token, patterns) ==
    LET asked(e) == e.kind # "property" /\ (e.kind = "analysis_pattern") = patterns
    IN  Image(LAMBDA e : e.id, Take(MaxNames, SelectSeq(Get(db.known, token), asked)))
fallbackAnalysisPatterns(db, r, token) ==
    appendOkRows(r, token, KnownOf(db, token, TRUE))
fallbackOkEntries(db, r, token) ==
    appendOkRows(r, token, KnownOf(db, token, FALSE))
\* An object that was found by its name only keeps no property.
fallbackPropertyMatch(db, r, token) ==
    LET hit(p) == [token |-> token, word |-> p[2], prop |-> p, od |-> p[1], tier |-> "PROP_NAME",
                   column |-> TRUE, count |-> 1]
        add(s, p) == [s EXCEPT !.details = (token :> Append(Get(@, token), hit(p))) @@ @,
                               !.blocks = IF p[1] \in DOMAIN s.direct THEN @ ELSE AddHit(db, @, hit(p))]
    IN  FoldLeft(add, r, Take(MaxNames, SelectSeq(Get(db.named, token), LAMBDA p : p[1] \in db.active)))
\* Confirmed facts: by tag, else by part of a tag, else by vector.
recallOlFacts(db, tokens) ==
    LET found(t) == LET f == IF t \in DOMAIN db.facts THEN db.facts[t] ELSE [tagged |-> {}, like |-> {}, near |-> {}]
                    IN  IF f.tagged # {} THEN f.tagged
                        ELSE IF f.like # {} THEN f.like
                        ELSE IF db.vectors THEN f.near ELSE {}
    IN  UNION {found(t) : t \in Range(Spoken(tokens))}

-----------------------------------------------------------------------------
(* The whole recall; arrival is the order in which the tokens' goroutines deliver *)

Deliver(db, tokens, arrival) == FoldLeft(LAMBDA s, i : s \o SearchToken(db, tokens[i]), <<>>, arrival)
\* The hits that count, once all tokens are in.
RecallHits(db, tokens, arrival) ==
    applyExactDisambiguation(db, normalizeValueAliasHits(Deliver(db, tokens, arrival), buildPropertyLineage(db)))
Blocks(db, hits) == FoldLeft(LAMBDA s, h : AddHit(db, s, h), <<>>, hits)
\* Tokens with a hit, disambiguated or not, count as matched.
Fallbacks(db, tokens, matched, r) ==
    LET named(s, t) == LET u == fallbackAnalysisPatterns(db, fallbackDirectOd(db, s, t), t)
                       IN  IF t \in matched THEN u ELSE fallbackOkEntries(db, u, t)
        columns(s, t) == IF t \in matched \/ Get(s.details, t) # <<>> THEN s ELSE fallbackPropertyMatch(db, s, t)
    IN  FoldLeft(columns, FoldLeft(named, r, Spoken(tokens)), Spoken(tokens))
\* Every token has an entry; a metric's tokens have one more hit.
Details(tokens, hits) == [t \in Range(Spoken(tokens)) |-> SelectSeq(hits, LAMBDA h : h.token = t)]
MetricHit(m, t, tier) == [token |-> t, word |-> m, prop |-> <<>>, od |-> "", tier |-> tier, column |-> FALSE, count |-> 1]
WithIntents(db, details, found) ==
    [t \in DOMAIN details |->
        details[t] \o Image(LAMBDA m : MetricHit(m, t, found[m].tier),
                            SelectSeq(IntentOrder(db, DOMAIN found), LAMBDA m : Contains(found[m].tokens, t)))]
Has(r) == DOMAIN r.blocks # {} \/ DOMAIN r.ok # {} \/ DOMAIN r.direct # {} \/ r.facts # {} \/ DOMAIN r.metrics # {}

\* Links and ambiguities are those of the blocks the hits have: what the fallbacks add has none.
BuildLakehouseContext(db, tokens, arrival) ==
    LET hits == RecallHits(db, tokens, arrival)
        found == {tokens[i] : i \in {i \in DOMAIN tokens : tokens[i] # "" /\ SearchToken(db, tokens[i]) # <<>>}}
        intents == recallMetricIntents(db, tokens, found)
        blocks == Blocks(db, hits)
        r == Fallbacks(db, tokens, intents.matched,
                       [details |-> Details(tokens, hits), blocks |-> blocks, direct |-> <<>>, ok |-> <<>>])
        full == [details |-> WithIntents(db, r.details, intents.found), blocks |-> r.blocks, direct |-> r.direct,
                 ok |-> r.ok, facts |-> recallOlFacts(db, tokens), metrics |-> intents.found,
                 links |-> IF Cardinality(DOMAIN blocks) > 1
                           THEN resolveLakehouseOdLinks(db, DOMAIN blocks) ELSE {},
                 ambiguities |-> detectLakehouseAmbiguities(db, blocks)]
    IN  full @@ [has |-> Has(full)]

-----------------------------------------------------------------------------
(* Recall of a thread that has recalled some tokens before; cache: [tokens: token -> [strong, ods, *)
(* metrics], ods: object -> block, metrics, ok, facts] *)

partitionTokens(tokens, cache) ==
    LET cold(t) == t \in DOMAIN cache.tokens /\ cache.tokens[t].strong
    IN  [hot |-> SelectSeq(Spoken(tokens), LAMBDA t : ~cold(t)), cold |-> SelectSeq(Spoken(tokens), cold)]
PseudoHit(t) == MetricHit(t, t, "CACHED")
SpliceUnlessDirect(r, cold, cache) ==
    LET ods == UNION {cache.tokens[t].ods : t \in Range(cold)} \cap DOMAIN cache.ods
    IN  [r EXCEPT !.details = [t \in Range(cold) |-> <<PseudoHit(t)>>] @@ @,
                  !.blocks = @ @@ Restrict(cache.ods, ods \ DOMAIN r.direct),
                  !.metrics = @ @@ cache.metrics, !.ok = @ @@ cache.ok, !.facts = @ \cup cache.facts]
\* A block, metric or entry that is there already is not replaced by the cached one.
spliceColdTokens(r, cold, cache) ==
    LET ods == UNION {cache.tokens[t].ods : t \in Range(cold)} \cap DOMAIN cache.ods
        metrics == UNION {cache.tokens[t].metrics : t \in Range(cold)} \cap DOMAIN cache.metrics
    IN  [r EXCEPT !.details = [t \in Range(cold) |-> <<PseudoHit(t)>>] @@ @,
                  !.blocks = @ @@ Restrict(cache.ods, ods),
                  !.metrics = @ @@ Restrict(cache.metrics, metrics),
                  !.ok = @ @@ cache.ok, !.facts = @ \cup cache.facts]
EmptyResult == [details |-> <<>>, blocks |-> <<>>, direct |-> <<>>, ok |-> <<>>, facts |-> {},
                metrics |-> <<>>, links |-> {}, ambiguities |-> {}, has |-> FALSE]
InOrder(s) == [i \in DOMAIN s |-> i]
\* Without hot tokens nothing is searched; links and ambiguities are recomputed over all blocks.
BuildLakehouseContextCached(db, tokens, cache) ==
    LET part == partitionTokens(tokens, cache)
        hot == IF part.hot = <<>> THEN EmptyResult
               ELSE BuildLakehouseContext(db, part.hot, InOrder(part.hot))
        r == spliceColdTokens(hot, part.cold, cache)
        s == IF Cardinality(DOMAIN r.blocks) < 2 THEN r
             ELSE [r EXCEPT !.links = resolveLakehouseOdLinks(db, DOMAIN r.blocks),
                            !.ambiguities = detectLakehouseAmbiguities(db, r.blocks)]
    IN  IF DOMAIN cache.tokens = {} THEN BuildLakehouseContext(db, tokens, InOrder(tokens))
        ELSE [s EXCEPT !.has = Has(s)]

-----------------------------------------------------------------------------
(* The debug page: what the vector tier would have considered for the tokens without a hit *)

\* Whatever its object, its stop flag and its similarity.
LakehouseVectorTopN(db, token, n) ==
    LET near == {i \in DOMAIN db.keywords : LET k == db.keywords[i]
                                            IN  ~k.code /\ k.prop \notin db.codes /\ token \in DOMAIN k.near}
        sim(i) == db.keywords[i].near[token]
    IN  IF ~db.vectors THEN <<>>
        ELSE Take(n, SetToSortSeq(near, LAMBDA i, j : sim(i) > sim(j) \/ (sim(i) = sim(j) /\ i < j)))
HandleLakehouseDebug(db, tokens) ==
    LET r == BuildLakehouseContext(db, tokens, InOrder(tokens))
    IN  [result |-> r,
         candidates |-> [t \in {t \in DOMAIN r.details : r.details[t] = <<>>} |-> LakehouseVectorTopN(db, t, 5)]]

-----------------------------------------------------------------------------
(* A thread's ledger after one recall (agent-server, ledger/merge.go and view.go) *)

\* Tokens with an exact hit or a metric are strong, with the objects and metrics their hits named.
CachedAfter(r) ==
    LET exact(t) == \E i \in DOMAIN r.details[t] : r.details[t][i].tier = "EXACT"
        metrics(t) == {m \in DOMAIN r.metrics : Contains(r.metrics[m].tokens, t)}
        ods(t) == {r.details[t][i].od : i \in DOMAIN r.details[t]} \cap (DOMAIN r.blocks \cup DOMAIN r.direct)
        strong == {t \in DOMAIN r.details : exact(t) \/ metrics(t) # {}}
    IN  [tokens |-> [t \in strong |-> [strong |-> TRUE, ods |-> ods(t), metrics |-> metrics(t)]],
         ods |-> r.blocks @@ [od \in DOMAIN r.direct |-> [props |-> <<>>, via |-> r.direct[od]]],
         metrics |-> r.metrics, ok |-> r.ok, facts |-> r.facts]

-----------------------------------------------------------------------------
(* Properties *)

Arrivals(tokens) ==
    LET spoken == {i \in DOMAIN tokens : tokens[i] # ""}
    IN  {a \in [1..Cardinality(spoken) -> spoken] : IsInjective(a)}

\* What the tokens' goroutines find comes in any order: the context is the same for each.
ArrivalIsIrrelevant(db, tokens) ==
    LET orders == Arrivals(tokens)
        some == BuildLakehouseContext(db, tokens, CHOOSE a \in orders : TRUE)
    IN  \A a \in orders : BuildLakehouseContext(db, tokens, a) = some

\* Raising values to where they come from and choosing between objects never leave a token that was
\* found without a hit.
NoTokenIsLost(db, tokens) ==
    \A a \in Arrivals(tokens) : \A i \in Range(a) :
        SearchToken(db, tokens[i]) # <<>> =>
            \E h \in Range(RecallHits(db, tokens, a)) : h.token = tokens[i]

\* The next turn of a thread, which searches its new tokens only: the objects and metrics the old
\* ones were about are there, with every edge between the objects of both turns, and a token the
\* first turn found is answered.
CachedRecallIsWhole(db, before, after) ==
    LET first == BuildLakehouseContext(db, before, InOrder(before))
        cache == CachedAfter(first)
        next == BuildLakehouseContextCached(db, after, cache)
        cold == Range(partitionTokens(after, cache).cold)
    IN  /\ \A t \in cold : /\ cache.tokens[t].ods \subseteq DOMAIN next.blocks
                           /\ cache.tokens[t].metrics \subseteq DOMAIN next.metrics
                           /\ next.details[t] # <<>>
        /\ cold # {} =>
             \A i \in DOMAIN db.joins :
                 {db.joins[i][1][1], db.joins[i][2][1]} \subseteq DOMAIN next.blocks
                     => <<db.joins[i][1][1], db.joins[i][2][1]>> \in next.links

\* Nothing that was found is lost, in the first turn or in the next.
RecallIsWhole(db, before, after) == NoTokenIsLost(db, before) /\ CachedRecallIsWhole(db, before, after)
=============================================================================
