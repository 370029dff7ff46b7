------------------------- MODULE KeywordStoreProofs -------------------------
(***************************************************************************)
(* Proofs about KeywordStore for every set of words and their spellings,   *)
(* every ontology, every payload of a triage request and every sequence of *)
(* requests.                                                               *)
(***************************************************************************)
EXTENDS KeywordStore, FiniteSetTheorems, WellFoundedInduction, TLAPS

\* The rows a row may refer to.
OntologyOK ==
    /\ objects \in [Objects -> {"absent", "draft", "active"}]
    /\ props \subseteq Properties /\ \A p \in props : Present(OwnerOf[p])
    /\ metrics \in [Metrics -> [ot : Objects \cup {None}, mark : BOOLEAN]]
    /\ \A m \in Metrics : metrics[m].ot # None => Present(metrics[m].ot)
    /\ intents \in [Intents -> [ot : Objects \cup {None}, mark : BOOLEAN]]
    /\ \A n \in Intents : intents[n].ot # None => Present(intents[n].ot)

\* A row with its references, its constraint and its alias vectors.
RowOK(r) ==
    /\ r \in Rows /\ Anchored(r)
    /\ Present(r.ot) /\ \A a \in r.a : Exists(a)
    /\ \A v \in r.av : \E w \in r.al : SameText(v, w)

Apart(r, s) == r.w # s.w \/ r.a \cap s.a \cap Properties = {}

TableOK(t) ==
    /\ DOMAIN t \subseteq Ids
    /\ \A i \in DOMAIN t : RowOK(t[i])
    /\ \A i, j \in DOMAIN t : i # j => Apart(t[i], t[j])

\* What the embedding request has not embedded yet is among its jobs.
EmbedInv ==
    last.op = "embed" => \A i \in DOMAIN rows :
        /\ rows[i].vec \/ [id |-> i, kind |-> "keyword", text |-> rows[i].w] \in jobs
        /\ \A v \in rows[i].al :
             /\ v \in rows[i].av
             /\ v \in rows[i].alvec \/ [id |-> i, kind |-> "alias", text |-> v] \in jobs

\* A token bound to the anchors of done, and to nothing else.
Binds(t, token, done) ==
    /\ \A i \in DOMAIN t : Mentions(t[i], token) => t[i].a \cap done # {} /\ ~t[i].stop
    /\ \A m \in done \cap Metrics : ~SameText(NameOf[m], token) =>
         \E i \in DOMAIN t : m \in t[i].a /\ ~t[i].stop /\ Mentions(t[i], token)

Ignores(t, token) ==
    /\ \A i \in DOMAIN t : Mentions(t[i], token) => t[i].stop
    /\ \E i \in DOMAIN t : Mentions(t[i], token)

TriageInv ==
    /\ last.op = "assign" =>
         /\ last.token \in Words
         /\ Binds(rows, last.token, last.wants)
         /\ \A m \in last.wants \cap Metrics : metrics[m].mark
    /\ last.op = "ignore" => Ignores(rows, last.token)

KeywordInv == OntologyOK /\ TableOK(rows) /\ EmbedInv /\ TriageInv

-----------------------------------------------------------------------------
(* Rows and tables *)

\* What exists has an object to file its rows under.
LEMMA HomeExists ==
    ASSUME OntologyOK, NEW a \in Anchors, Exists(a)
    PROVE  HomeOf(a) \in Objects /\ Present(HomeOf(a))
BY KeywordAssumption, AnchorAssumption DEF OntologyOK, Exists, HomeOf, Anchors

LEMMA NewRowOK ==
    ASSUME NEW w \in Words, NEW o \in Objects, NEW a \in SUBSET Anchors, NEW col \in BOOLEAN,
           Present(o), a # {}, \A x \in a : Exists(x)
    PROVE  RowOK(NewRow(w, o, a, col))
BY DEF RowOK, NewRow, Rows, Anchored

\* A part of a table.
LEMMA PartOK ==
    ASSUME NEW t, TableOK(t), NEW S \in SUBSET DOMAIN t
    PROVE  TableOK([i \in S |-> t[i]])
BY DEF TableOK

\* A table whose rows were edited, their texts and properties apart.
LEMMA EditedOK ==
    ASSUME NEW t, TableOK(t), NEW u, DOMAIN u = DOMAIN t,
           \A i \in DOMAIN t : /\ RowOK(u[i]) /\ u[i].w = t[i].w
                               /\ u[i].a \cap Properties \subseteq t[i].a
    PROVE  TableOK(u)
BY DEF TableOK, Apart

\* Rows inserted under ids of their own.
LEMMA Inserted ==
    ASSUME NEW t, NEW R, Room(t, R)
    PROVE  LET u == InsertAll(t, R) IN
           /\ DOMAIN t \subseteq DOMAIN u /\ DOMAIN u \subseteq DOMAIN t \cup Ids
           /\ \A i \in DOMAIN t : u[i] = t[i]
           /\ \A i \in DOMAIN u \ DOMAIN t : u[i] \in R
           /\ \A i, j \in DOMAIN u \ DOMAIN t : u[i] = u[j] => i = j
           /\ \A r \in R : \E i \in DOMAIN u \ DOMAIN t : u[i] = r
<1> DEFINE at == CHOOSE f \in Injection(R, FreshIds(t)) : TRUE
           u == InsertAll(t, R)
           pick(i) == CHOOSE r \in R : at[r] = i
<1>1. at \in [R -> FreshIds(t)] /\ \A r, s \in R : at[r] = at[s] => r = s
  <2>1. at \in Injection(R, FreshIds(t))
    BY DEF Room, ExistsInjection
  <2> QED BY <2>1 DEF Injection, IsInjective
<1>2. u = [i \in DOMAIN t \cup {at[r] : r \in R} |-> IF i \in DOMAIN t THEN t[i] ELSE pick(i)]
  BY DEF InsertAll
<1>3. \A r \in R : at[r] \in Ids /\ at[r] \notin DOMAIN t
  BY <1>1 DEF FreshIds
<1>4. \A r \in R : pick(at[r]) = r
  BY <1>1
<1> HIDE DEF at, u, pick
<1>5. DOMAIN u = DOMAIN t \cup {at[r] : r \in R} /\ \A i \in DOMAIN t : u[i] = t[i]
  BY <1>2
<1>6. \A r \in R : at[r] \in DOMAIN u \ DOMAIN t /\ u[at[r]] = r
  BY <1>2, <1>3, <1>4, <1>5
<1>7. \A i \in DOMAIN u \ DOMAIN t : \E r \in R : i = at[r]
  BY <1>5
<1> QED
  <2>1. DOMAIN t \subseteq DOMAIN u /\ DOMAIN u \subseteq DOMAIN t \cup Ids
    BY <1>3, <1>5
  <2>2. \A i \in DOMAIN u \ DOMAIN t : u[i] \in R
    BY <1>6, <1>7
  <2>3. \A i, j \in DOMAIN u \ DOMAIN t : u[i] = u[j] => i = j
    BY <1>6, <1>7
  <2> QED BY <2>1, <2>2, <2>3, <1>5, <1>6 DEF u

LEMMA InsertedIn ==
    ASSUME NEW t, NEW R, NEW G, Room(t, R), DOMAIN t \subseteq Ids,
           \A i \in DOMAIN t : t[i] \in G,
           \A i, j \in DOMAIN t : i # j => Apart(t[i], t[j]),
           \A r \in R : r \in G /\ \A i \in DOMAIN t : Apart(t[i], r),
           \A r, s \in R : r # s => Apart(r, s)
    PROVE  LET u == InsertAll(t, R) IN
           /\ DOMAIN u \subseteq Ids
           /\ \A i \in DOMAIN u : u[i] \in G
           /\ \A i, j \in DOMAIN u : i # j => Apart(u[i], u[j])
<1> DEFINE u == InsertAll(t, R)
<1>1. /\ DOMAIN u \subseteq DOMAIN t \cup Ids /\ \A i \in DOMAIN t : u[i] = t[i]
      /\ \A i \in DOMAIN u \ DOMAIN t : u[i] \in R
      /\ \A i, j \in DOMAIN u \ DOMAIN t : u[i] = u[j] => i = j
  BY Inserted
<1> HIDE DEF u
<1>2. DOMAIN u \subseteq Ids /\ \A i \in DOMAIN u : u[i] \in G
  BY <1>1
<1>3. ASSUME NEW i \in DOMAIN u, NEW j \in DOMAIN u, i # j PROVE Apart(u[i], u[j])
  <2>1. CASE i \in DOMAIN t /\ j \in DOMAIN t
    BY <1>1, <1>3, <2>1
  <2>2. CASE i \in DOMAIN t /\ j \notin DOMAIN t
    BY <1>1, <2>2
  <2>3. CASE i \notin DOMAIN t /\ j \in DOMAIN t
    <3>1. Apart(u[j], u[i])
      BY <1>1, <2>3
    <3> QED BY <3>1 DEF Apart
  <2>4. CASE i \notin DOMAIN t /\ j \notin DOMAIN t
    BY <1>1, <1>3, <2>4
  <2> QED BY <2>1, <2>2, <2>3, <2>4
<1> QED BY <1>2, <1>3 DEF u

LEMMA InsertedOK ==
    ASSUME NEW t, TableOK(t), NEW R, Room(t, R),
           \A r \in R : RowOK(r) /\ \A i \in DOMAIN t : Apart(t[i], r),
           \A r, s \in R : r # s => Apart(r, s)
    PROVE  TableOK(InsertAll(t, R))
<1> DEFINE G == {r \in Rows : RowOK(r)}
           u == InsertAll(t, R)
<1>1. \A r : RowOK(r) => r \in G
  BY DEF RowOK
<1>2. \A i \in DOMAIN t : t[i] \in G
  BY <1>1 DEF TableOK
<1>3. DOMAIN t \subseteq Ids /\ \A i, j \in DOMAIN t : i # j => Apart(t[i], t[j])
  BY DEF TableOK
<1>4. \A r \in G : RowOK(r)
  OBVIOUS
<1> HIDE DEF G
<1>5. /\ DOMAIN u \subseteq Ids /\ \A i \in DOMAIN u : u[i] \in G
      /\ \A i, j \in DOMAIN u : i # j => Apart(u[i], u[j])
  BY <1>1, <1>2, <1>3, InsertedIn
<1> HIDE DEF u
<1> QED BY <1>4, <1>5 DEF TableOK, u

LEMMA RoomForOne ==
    ASSUME NEW t, NEW r, FreshIds(t) # {}
    PROVE  Room(t, {r})
<1>1. PICK n \in FreshIds(t) : TRUE
  OBVIOUS
<1>2. [s \in {r} |-> n] \in Injection({r}, FreshIds(t))
  BY DEF Injection, IsInjective
<1> QED BY <1>2 DEF Room, ExistsInjection

LEMMA OneInsertedOK ==
    ASSUME NEW t, TableOK(t), NEW r, RowOK(r), Conflicts(t, r) = {}, FreshIds(t) # {}
    PROVE  TableOK(Insert(t, r))
<1>1. \A i \in DOMAIN t : Apart(t[i], r)
  BY DEF Conflicts, Apart
<1> QED BY <1>1, RoomForOne, InsertedOK DEF Insert

LEMMA StripOK ==
    ASSUME NEW r, RowOK(r), NEW w
    PROVE  LET s == StripAlias(r, w) IN
           /\ RowOK(s) /\ s.w = r.w /\ s.a = r.a /\ s.stop = r.stop
           /\ s.al = {v \in r.al : ~SameText(v, w)}
BY DEF RowOK, StripAlias, Rows, Anchored, SameText

LEMMA AliasOK ==
    ASSUME NEW t, TableOK(t), NEW i \in DOMAIN t, NEW w \in Words
    PROVE  LET u == AddAlias(t, i, w) IN
           /\ TableOK(u) /\ DOMAIN u = DOMAIN t
           /\ \A j \in DOMAIN t : j # i => u[j] = t[j]
           /\ u[i].w = t[i].w /\ u[i].a = t[i].a /\ u[i].stop = t[i].stop
           /\ u[i].al = {v \in t[i].al : ~SameText(v, w)} \cup {w}
<1> DEFINE u == AddAlias(t, i, w)
<1>1. /\ DOMAIN u = DOMAIN t /\ \A j \in DOMAIN t : j # i => u[j] = t[j]
      /\ u[i] = [t[i] EXCEPT !.al = {v \in t[i].al : ~SameText(v, w)} \cup {w},
                             !.av = t[i].av \cup {w}]
  BY DEF AddAlias
<1>2. RowOK(t[i]) /\ t[i] \in Rows /\ t[i].al \in SUBSET Words /\ t[i].av \in SUBSET Words
  BY DEF TableOK, RowOK, Rows
<1> HIDE DEF u
<1>m. [t[i] EXCEPT !.al = {v \in t[i].al : ~SameText(v, w)} \cup {w}, !.av = t[i].av \cup {w}] \in Rows
  <2> DEFINE A == {v \in t[i].al : ~SameText(v, w)} \cup {w}
             V == t[i].av \cup {w}
  <2>1. A \in SUBSET Words /\ V \in SUBSET Words
    BY <1>2
  <2> HIDE DEF A, V
  <2>2. [t[i] EXCEPT !.al = A, !.av = V] \in Rows
    BY <1>2, <2>1 DEF Rows
  <2> QED BY <2>2 DEF A, V
<1>3. /\ u[i].w = t[i].w /\ u[i].a = t[i].a /\ u[i].stop = t[i].stop /\ u[i].ot = t[i].ot
      /\ u[i].al = {v \in t[i].al : ~SameText(v, w)} \cup {w} /\ u[i].av = t[i].av \cup {w}
      /\ u[i] \in Rows
  BY <1>1, <1>2, <1>m DEF Rows
<1>4. RowOK(u[i])
  BY <1>2, <1>3 DEF RowOK, Anchored, SameText
<1>5. TableOK(u)
  <2>1. \A j \in DOMAIN t : RowOK(t[j])
    BY DEF TableOK
  <2>2. \A j \in DOMAIN t : RowOK(u[j]) /\ u[j].w = t[j].w /\ u[j].a \cap Properties \subseteq t[j].a
    BY <1>1, <1>3, <1>4, <2>1
  <2> QED BY <1>1, <2>2, EditedOK
<1> QED BY <1>1, <1>3, <1>5 DEF u

-----------------------------------------------------------------------------
(* Triage *)

Bindings == {b \in [kind : Kinds, to : Anchors, value : Words \cup {None}] : b.to \in Targets(b.kind)}

LEMMA MetricsHaveTriggers ==
    \A b \in Bindings : b.to \in Metrics => b.kind # "value_alias"
<1> SUFFICES ASSUME NEW b \in Bindings, b.to \in Metrics, b.kind = "value_alias" PROVE FALSE
  OBVIOUS
<1>1. b.to \in Targets("value_alias")
  BY DEF Bindings
<1>2. b.to \in Properties
  BY <1>1 DEF Targets
<1> QED BY <1>2, AnchorAssumption

\* Where a binding may record its token: on a candidate of the table, or on a new
\* canonical row.
LEMMA Recorded ==
    ASSUME OntologyOK, NEW t, TableOK(t), NEW b \in Bindings, Bindable(b), NEW token \in Words,
           NEW u \in RecordAliasOnCanonical(t, b, token)
    PROVE  \E s, i : /\ TableOK(s) /\ i \in DOMAIN s
                     /\ DOMAIN t \subseteq DOMAIN s /\ \A j \in DOMAIN t : s[j] = t[j]
                     /\ \A j \in DOMAIN s \ DOMAIN t : s[j].w = Canonical(b, token) /\ s[j].al = {}
                                                       /\ b.to \in s[j].a /\ ~s[j].stop
                     /\ b.to \in s[i].a /\ ~s[i].stop
                     /\ u = IF SameText(token, Canonical(b, token)) THEN s ELSE AddAlias(s, i, token)
<1> DEFINE canonical == Canonical(b, token)
           row == NewRow(canonical, HomeOf(b.to), {b.to}, b.kind = "column_alias")
           alias(s, i) == IF SameText(token, canonical) THEN s ELSE AddAlias(s, i, token)
<1>1. CASE Candidates(t, b, canonical) # {}
  <2>1. PICK i \in Candidates(t, b, canonical) : u = alias(t, i)
    BY <1>1 DEF RecordAliasOnCanonical
  <2>2. i \in DOMAIN t /\ b.to \in t[i].a /\ ~t[i].stop
    BY DEF Candidates, Bindings, Kinds
  <2> QED BY <2>1, <2>2
<1>2. CASE Candidates(t, b, canonical) = {}
  <2> DEFINE s == Insert(t, row)
             i == Newest(t, s)
  <2>1. Conflicts(t, row) = {} /\ FreshIds(t) # {} /\ u = alias(s, i)
    BY <1>2 DEF RecordAliasOnCanonical
  <2>2. Room(t, {row})
    BY <2>1, RoomForOne
  <2>3. /\ DOMAIN t \subseteq DOMAIN s /\ \A j \in DOMAIN t : s[j] = t[j]
        /\ \A j \in DOMAIN s \ DOMAIN t : s[j] = row
        /\ i \in DOMAIN s \ DOMAIN t
    <3>1. /\ DOMAIN t \subseteq DOMAIN s /\ \A j \in DOMAIN t : s[j] = t[j]
          /\ \A j \in DOMAIN s \ DOMAIN t : s[j] \in {row}
          /\ \E j \in DOMAIN s \ DOMAIN t : s[j] = row
      BY <2>2, Inserted DEF Insert
    <3> HIDE DEF s
    <3> QED BY <3>1 DEF Newest
  <2>4. canonical \in Words
    BY KeywordAssumption, AnchorAssumption DEF Canonical, Bindings, Targets, Kinds, Anchors
  <2>5. RowOK(row)
    <3>1. b.to \in Anchors /\ Exists(b.to) /\ (b.kind = "column_alias") \in BOOLEAN
      BY DEF Bindings, Bindable
    <3> HIDE DEF canonical
    <3>2. HomeOf(b.to) \in Objects /\ Present(HomeOf(b.to))
      BY <3>1, HomeExists
    <3> QED BY <2>4, <3>1, <3>2, NewRowOK
  <2>7. TableOK(s)
    <3> HIDE DEF row
    <3> QED BY <2>1, <2>5, OneInsertedOK
  <2>8. row.w = canonical /\ row.al = {} /\ row.a = {b.to} /\ row.stop = FALSE
    BY DEF NewRow
  <2> HIDE DEF s, i, row
  <2> QED BY <2>1, <2>3, <2>7, <2>8
<1> QED BY <1>1, <1>2

\* One binding recorded: the token is bound to its anchor as well.
LEMMA RecordBinds ==
    ASSUME OntologyOK, NEW t, TableOK(t), NEW b \in Bindings, Bindable(b), NEW token \in Words,
           NEW u \in RecordAliasOnCanonical(t, b, token), NEW done, Binds(t, token, done)
    PROVE  TableOK(u) /\ Binds(u, token, done \cup {b.to})
<1> DEFINE canonical == Canonical(b, token)
<1>1. PICK s, i : /\ TableOK(s) /\ i \in DOMAIN s
                  /\ DOMAIN t \subseteq DOMAIN s /\ \A j \in DOMAIN t : s[j] = t[j]
                  /\ \A j \in DOMAIN s \ DOMAIN t : s[j].w = canonical /\ s[j].al = {}
                                                    /\ b.to \in s[j].a /\ ~s[j].stop
                  /\ b.to \in s[i].a /\ ~s[i].stop
                  /\ u = IF SameText(token, canonical) THEN s ELSE AddAlias(s, i, token)
  BY Recorded
<1>2. \A j \in DOMAIN s : Mentions(s[j], token) => s[j].a \cap (done \cup {b.to}) # {} /\ ~s[j].stop
  BY <1>1 DEF Binds
<1>3. \A m \in done \cap Metrics : ~SameText(NameOf[m], token) =>
         \E j \in DOMAIN s : m \in s[j].a /\ ~s[j].stop /\ Mentions(s[j], token)
  BY <1>1 DEF Binds
<1>4. b.to \in Metrics => canonical = NameOf[b.to]
  BY MetricsHaveTriggers DEF Canonical
<1>5. CASE SameText(token, canonical)
  BY <1>1, <1>2, <1>3, <1>4, <1>5 DEF Binds, SameText
<1>6. CASE ~SameText(token, canonical)
  <2>1. /\ TableOK(u) /\ DOMAIN u = DOMAIN s
        /\ \A j \in DOMAIN s : j # i => u[j] = s[j]
        /\ u[i].w = s[i].w /\ u[i].a = s[i].a /\ u[i].stop = s[i].stop
        /\ u[i].al = {v \in s[i].al : ~SameText(v, token)} \cup {token}
    BY <1>1, <1>6, AliasOK
  <2>2. Mentions(u[i], token)
    BY <2>1 DEF Mentions, SameText
  <2>3. \A j \in DOMAIN s : Mentions(u[j], token) => u[j].a \cap (done \cup {b.to}) # {} /\ ~u[j].stop
    BY <1>1, <1>2, <2>1
  <2>4. ASSUME NEW m \in (done \cup {b.to}) \cap Metrics, ~SameText(NameOf[m], token)
        PROVE  \E j \in DOMAIN u : m \in u[j].a /\ ~u[j].stop /\ Mentions(u[j], token)
    <3>1. CASE m = b.to
      BY <1>1, <2>1, <2>2, <3>1
    <3>2. CASE m \in done
      <4>1. PICK j \in DOMAIN s : m \in s[j].a /\ ~s[j].stop /\ Mentions(s[j], token)
        BY <1>3, <2>4, <3>2
      <4> QED BY <1>1, <2>1, <2>2, <4>1
    <3> QED BY <3>1, <3>2
  <2> QED BY <2>1, <2>3, <2>4 DEF Binds
<1> QED BY <1>5, <1>6

\* Wiping a token leaves no mention of it.
LEMMA WipedOK ==
    ASSUME TableOK(rows), NEW token \in Words
    PROVE  TableOK(Wiped(token)) /\ \A i \in DOMAIN Wiped(token) : ~Mentions(Wiped(token)[i], token)
<1> DEFINE S == {i \in DOMAIN rows : ~SameText(rows[i].w, token)}
           t == [i \in S |-> rows[i]]
<1>1. Wiped(token) = [i \in S |-> StripAlias(t[i], token)]
  BY DEF Wiped, StripTokenFromAllAliases, Keep
<1>2. TableOK(t) /\ DOMAIN t = S
  BY PartOK
<1>3. \A i \in S : RowOK(t[i])
  BY <1>2 DEF TableOK
<1>4. \A i \in S : ~SameText(t[i].w, token)
  OBVIOUS
<1> HIDE DEF t, S
<1>5. \A i \in S : LET s == StripAlias(t[i], token) IN
        /\ RowOK(s) /\ s.w = t[i].w /\ s.a = t[i].a
        /\ s.al = {v \in t[i].al : ~SameText(v, token)}
  BY <1>3, StripOK
<1>6. TableOK(Wiped(token))
  BY <1>1, <1>2, <1>5, EditedOK
<1>7. \A i \in S : ~Mentions(StripAlias(t[i], token), token)
  BY <1>4, <1>5 DEF Mentions
<1> QED BY <1>1, <1>6, <1>7

LEMMA NatHasMin ==
    ASSUME NEW T \in SUBSET Nat, T # {}
    PROVE  \E x \in T : \A y \in T : x <= y
<1> DEFINE R == OpToRel(<, Nat)
<1>1. IsWellFoundedOn(R, Nat)
  BY Zenon, NatLessThanWellFounded
<1>2. PICK x \in T : \A y \in T : ~ (<<y, x>> \in R)
  <2> HIDE DEF R
  <2> QED BY <1>1, WFMin
<1>3. R = {ss \in Nat \X Nat : ss[1] < ss[2]}
  BY Zenon DEF OpToRel
<1>4. ASSUME NEW y \in T PROVE ~ (y < x)
  <2> HIDE DEF R
  <2>1. <<y, x>> \in Nat \X Nat /\ <<y, x>>[1] = y /\ <<y, x>>[2] = x
    OBVIOUS
  <2> QED BY <2>1, <1>2, <1>3
<1> QED BY <1>4

\* A property of naturals that fails somewhere fails at 0 or right after a success.
LEMMA FirstFailure ==
    ASSUME NEW n \in Nat, NEW T \in SUBSET (0..n), 0 \notin T,
           \A k \in 1..n : k - 1 \notin T => k \notin T
    PROVE  T = {}
<1> SUFFICES ASSUME T # {} PROVE FALSE
  OBVIOUS
<1>1. PICK x \in T : \A y \in T : x <= y
  BY NatHasMin
<1>2. x \in 1..n /\ x - 1 \notin T
  BY <1>1
<1> QED BY <1>2

\* The tables after each prefix of a payload.
Prefixes(g, token, payload, n) ==
    g = [k \in 0..n |->
           IF k = 0 THEN {Wiped(token)}
           ELSE UNION {RecordAliasOnCanonical(t, payload[k], token) : t \in g[k - 1]}]

LEMMA PrefixesExist ==
    ASSUME NEW token, NEW payload, NEW n \in Nat
    PROVE  \E g : Prefixes(g, token, payload, n)
<1> DEFINE T == {k \in 0..n : ~\E g : Prefixes(g, token, payload, k)}
<1>1. 0 \notin T
  <2>1. Prefixes([k \in 0..0 |-> {Wiped(token)}], token, payload, 0)
    BY DEF Prefixes
  <2> QED BY <2>1
<1>2. ASSUME NEW k \in 1..n, k - 1 \notin T PROVE k \notin T
  <2> DEFINE step(j, S) == UNION {RecordAliasOnCanonical(t, payload[j], token) : t \in S}
  <2>1. PICK g : Prefixes(g, token, payload, k - 1)
    BY <1>2
  <2> DEFINE h == [j \in 0..k |-> IF j = k THEN step(k, g[k - 1]) ELSE g[j]]
  <2>2. g = [j \in 0..(k - 1) |-> IF j = 0 THEN {Wiped(token)} ELSE step(j, g[j - 1])]
    BY <2>1 DEF Prefixes
  <2> HIDE DEF step
  <2>3. h = [j \in 0..k |-> IF j = 0 THEN {Wiped(token)} ELSE step(j, h[j - 1])]
    <3>1. \A j \in 0..(k - 1) : h[j] = g[j] /\ g[j] = IF j = 0 THEN {Wiped(token)} ELSE step(j, g[j - 1])
      <4>1. \A j \in 0..(k - 1) : g[j] = IF j = 0 THEN {Wiped(token)} ELSE step(j, g[j - 1])
        BY <2>2
      <4>2. \A j \in 0..(k - 1) : j \in 0..k /\ j # k
        OBVIOUS
      <4>3. \A j \in 0..(k - 1) : h[j] = g[j]
        BY <4>2
      <4> QED BY <4>1, <4>3
    <3>2. \A j \in 0..k : j # k => j \in 0..(k - 1) /\ (j # 0 => j - 1 \in 0..(k - 1))
      OBVIOUS
    <3>3. k # 0 /\ k - 1 \in 0..(k - 1) /\ k \in 0..k
      OBVIOUS
    <3>4. h[k] = step(k, h[k - 1])
      BY <3>1, <3>3
    <3>5. \A j \in 0..k : h[j] = IF j = 0 THEN {Wiped(token)} ELSE step(j, h[j - 1])
      BY <3>1, <3>2, <3>3, <3>4
    <3> QED BY <3>5
  <2>4. Prefixes(h, token, payload, k)
    BY <2>3 DEF Prefixes, step
  <2> QED BY <2>4
<1>3. T = {}
  <2> HIDE DEF T
  <2> QED BY <1>1, <1>2, FirstFailure DEF T
<1> QED BY <1>3

LEMMA TriageBinds ==
    ASSUME OntologyOK, TableOK(rows), NEW token \in Words, NEW payload \in Payloads,
           \A k \in DOMAIN payload : Bindable(payload[k]),
           NEW u \in InsertTriageRows(token, payload)
    PROVE  TableOK(u) /\ Binds(u, token, {payload[k].to : k \in DOMAIN payload})
<1> DEFINE n == Len(payload)
           done(k) == {payload[j].to : j \in 1..k}
           tables == CHOOSE g : Prefixes(g, token, payload, n)
           good(k) == \A t \in tables[k] : TableOK(t) /\ Binds(t, token, done(k))
           T == {k \in 0..n : ~good(k)}
<1>1. n \in Nat /\ DOMAIN payload = 1..n /\ \A k \in 1..n : payload[k] \in Bindings
  <2>1. payload \in Seq([kind : Kinds, to : Anchors, value : Words \cup {None}])
        /\ \A k \in DOMAIN payload : payload[k].to \in Targets(payload[k].kind)
    BY PayloadAssumption
  <2>2. n \in Nat /\ DOMAIN payload = 1..n
        /\ \A k \in 1..n : payload[k] \in [kind : Kinds, to : Anchors, value : Words \cup {None}]
    <3> DEFINE S == [kind : Kinds, to : Anchors, value : Words \cup {None}]
    <3>1. payload \in Seq(S)
      BY <2>1
    <3> HIDE DEF S
    <3>2. n \in Nat /\ DOMAIN payload = 1..n /\ \A k \in 1..n : payload[k] \in S
      BY <3>1
    <3> QED BY <3>2 DEF S
  <2> HIDE DEF n
  <2> QED BY <2>1, <2>2 DEF Bindings
<1>2. InsertTriageRows(token, payload) = tables[n]
  BY DEF InsertTriageRows, Prefixes
<1>3. Prefixes(tables, token, payload, n)
  BY <1>1, PrefixesExist
<1> HIDE DEF n, tables
<1>4. good(0)
  <2>1. tables[0] = {Wiped(token)}
    BY <1>1, <1>3 DEF Prefixes
  <2>2. done(0) = {}
    OBVIOUS
  <2> QED BY <2>1, <2>2, WipedOK DEF Binds
<1>5. ASSUME NEW k \in 1..n, good(k - 1) PROVE good(k)
  <2> TAKE t \in tables[k]
  <2>1. tables[k] = UNION {RecordAliasOnCanonical(s, payload[k], token) : s \in tables[k - 1]}
    <3>1. k \in 0..n /\ k # 0
      BY <1>1
    <3> HIDE DEF done, good
    <3> QED BY <1>3, <3>1 DEF Prefixes
  <2>2. PICK s \in tables[k - 1] : t \in RecordAliasOnCanonical(s, payload[k], token)
    BY <2>1
  <2>3. TableOK(s) /\ Binds(s, token, done(k - 1))
    BY <1>5
  <2>4. payload[k] \in Bindings /\ Bindable(payload[k])
    BY <1>1
  <2>5. done(k) = done(k - 1) \cup {payload[k].to}
    BY <1>1
  <2> HIDE DEF done
  <2>6. TableOK(t) /\ Binds(t, token, done(k - 1) \cup {payload[k].to})
    BY <2>2, <2>3, <2>4, RecordBinds
  <2> QED BY <2>5, <2>6
<1>6. T = {}
  <2> HIDE DEF good
  <2>1. 0 \notin T /\ \A k \in 1..n : k - 1 \notin T => k \notin T
    BY <1>1, <1>4, <1>5
  <2>2. T \in SUBSET (0..n)
    OBVIOUS
  <2>3. n \in Nat
    BY <1>1
  <2> HIDE DEF T
  <2> QED BY <2>1, <2>2, <2>3, FirstFailure
<1>7. good(n)
  <2>1. n \in 0..n
    BY <1>1
  <2> HIDE DEF good
  <2> QED BY <1>6, <2>1
<1>8. done(n) = {payload[k].to : k \in DOMAIN payload}
  BY <1>1
<1> HIDE DEF done
<1>9. TableOK(u) /\ Binds(u, token, done(n))
  BY <1>2, <1>7
<1> QED BY <1>8, <1>9

-----------------------------------------------------------------------------
(* What a request leaves alone *)

LEMMA ExistsIs ==
    /\ \A a \in Objects : Exists(a) <=> Present(a)
    /\ \A a \in Properties : Exists(a) <=> a \in props
    /\ \A a \in Metrics : Exists(a) <=> metrics[a].ot # None
    /\ \A a \in Intents : Exists(a) <=> intents[a].ot # None
<1>1. ASSUME NEW a \in Objects PROVE Exists(a) <=> Present(a)
  BY AnchorAssumption DEF Exists
<1>2. ASSUME NEW a \in Properties PROVE Exists(a) <=> a \in props
  BY AnchorAssumption DEF Exists
<1>3. ASSUME NEW a \in Metrics PROVE Exists(a) <=> metrics[a].ot # None
  BY AnchorAssumption DEF Exists
<1>4. ASSUME NEW a \in Intents PROVE Exists(a) <=> intents[a].ot # None
  BY AnchorAssumption DEF Exists
<1> QED BY <1>1, <1>2, <1>3, <1>4

LEMMA ExistsLater ==
    /\ \A a \in Objects : Exists(a)' <=> Present(a)'
    /\ \A a \in Properties : Exists(a)' <=> a \in props'
    /\ \A a \in Metrics : Exists(a)' <=> metrics'[a].ot # None
    /\ \A a \in Intents : Exists(a)' <=> intents'[a].ot # None
<1>1. ASSUME NEW a \in Objects PROVE Exists(a)' <=> Present(a)'
  BY AnchorAssumption DEF Exists
<1>2. ASSUME NEW a \in Properties PROVE Exists(a)' <=> a \in props'
  BY AnchorAssumption DEF Exists
<1>3. ASSUME NEW a \in Metrics PROVE Exists(a)' <=> metrics'[a].ot # None
  BY AnchorAssumption DEF Exists
<1>4. ASSUME NEW a \in Intents PROVE Exists(a)' <=> intents'[a].ot # None
  BY AnchorAssumption DEF Exists
<1> QED BY <1>1, <1>2, <1>3, <1>4

LEMMA OtherKeeps ==
    ASSUME Other
    PROVE  EmbedInv' /\ TriageInv'
BY DEF Other, Respond, EmbedInv, TriageInv

\* Rows that still refer to what exists keep the table sound.
LEMMA TableLater ==
    ASSUME NEW t, TableOK(t), rows' = t,
           \A i \in DOMAIN t : Present(t[i].ot)' /\ \A a \in t[i].a : Exists(a)'
    PROVE  TableOK(rows)'
<1>1. \A i \in DOMAIN t : RowOK(t[i])'
  BY DEF TableOK, RowOK
<1> QED BY <1>1 DEF TableOK

LEMMA SetRowsKeeps ==
    ASSUME OntologyOK, NEW t, TableOK(t), SetRows(t)
    PROVE  OntologyOK' /\ TableOK(rows)'
<1>1. OntologyOK'
  BY DEF OntologyOK, SetRows, OntologyUnchanged, Present
<1>2. \A i \in DOMAIN t : Present(t[i].ot) /\ \A a \in t[i].a : a \in Anchors /\ Exists(a)
  BY DEF TableOK, RowOK, Rows
<1>3. \A o : Present(o)' <=> Present(o)
  BY DEF SetRows, OntologyUnchanged, Present
<1>4. \A a \in Anchors : Exists(a)' <=> Exists(a)
  BY <1>3, ExistsIs, ExistsLater DEF SetRows, OntologyUnchanged, Anchors
<1>5. rows' = t
  BY DEF SetRows
<1> QED BY <1>1, <1>2, <1>3, <1>4, <1>5, TableLater

\* A request that rewrites only the table, and is neither triage nor embedding.
LEMMA EditKeeps ==
    ASSUME KeywordInv, NEW t, TableOK(t), SetRows(t), Other
    PROVE  KeywordInv'
BY SetRowsKeeps, OtherKeeps DEF KeywordInv

-----------------------------------------------------------------------------
(* Triage requests *)

LEMMA TriageAssignKeeps ==
    ASSUME KeywordInv, NEW token \in Words, NEW payload \in Payloads, TriageAssign(token, payload)
    PROVE  KeywordInv'
<1> DEFINE wants == {payload[k].to : k \in DOMAIN payload}
<1>1. PICK t \in InsertTriageRows(token, payload) : SetRows(t)
  BY DEF TriageAssign
<1>2. \A k \in DOMAIN payload : Bindable(payload[k])
  BY DEF TriageAssign
<1>3. TableOK(t) /\ Binds(t, token, wants)
  BY <1>2, TriageBinds DEF KeywordInv
<1>4. OntologyOK' /\ TableOK(rows)'
  BY <1>1, <1>3, SetRowsKeeps DEF KeywordInv
<1>5. last' = [op |-> "assign", token |-> token, wants |-> wants] /\ rows' = t /\ metrics' = metrics
  BY <1>1 DEF TriageAssign, Respond, SetRows, OntologyUnchanged
<1>6. \A m \in wants \cap Metrics : metrics[m].mark
  BY <1>2 DEF Bindable
<1> HIDE DEF wants
<1>7. EmbedInv'
  BY <1>5 DEF EmbedInv
<1>8. TriageInv'
  BY <1>3, <1>5, <1>6 DEF TriageInv, Binds, Mentions
<1> QED BY <1>4, <1>7, <1>8 DEF KeywordInv

LEMMA TriageIgnoreKeeps ==
    ASSUME KeywordInv, NEW token \in Words, NEW holder \in Objects, TriageIgnore(token, holder)
    PROVE  KeywordInv'
<1> DEFINE row == [NewRow(token, holder, {}, FALSE) EXCEPT !.stop = TRUE]
           t == Insert(Wiped(token), row)
<1>1. TableOK(Wiped(token)) /\ \A i \in DOMAIN Wiped(token) : ~Mentions(Wiped(token)[i], token)
  BY WipedOK DEF KeywordInv
<1>2. RowOK(row) /\ row.a = {} /\ row.stop /\ Mentions(row, token)
  BY DEF RowOK, NewRow, Rows, Anchored, TriageIgnore, Present, Mentions, SameText
<1>3. FreshIds(Wiped(token)) # {} /\ SetRows(t)
  BY DEF TriageIgnore
<1>4. last' = [op |-> "ignore", token |-> token, wants |-> {}]
  BY DEF TriageIgnore, Respond
<1> HIDE DEF row
<1>5. TableOK(t)
  BY <1>1, <1>2, <1>3, OneInsertedOK DEF Conflicts
<1>6. Ignores(t, token)
  <2>1. Room(Wiped(token), {row})
    BY <1>3, RoomForOne
  <2>2. /\ \A i \in DOMAIN Wiped(token) : t[i] = Wiped(token)[i]
        /\ \A i \in DOMAIN t \ DOMAIN Wiped(token) : t[i] \in {row}
        /\ \E i \in DOMAIN t \ DOMAIN Wiped(token) : t[i] = row
    BY <2>1, Inserted DEF Insert
  <2> HIDE DEF t
  <2> QED BY <1>1, <1>2, <2>2 DEF Ignores
<1> HIDE DEF t
<1>7. OntologyOK' /\ TableOK(rows)' /\ rows' = t
  BY <1>3, <1>5, SetRowsKeeps DEF KeywordInv, SetRows
<1>8. EmbedInv' /\ TriageInv'
  BY <1>4, <1>6, <1>7 DEF EmbedInv, TriageInv, Ignores, Mentions
<1> QED BY <1>7, <1>8 DEF KeywordInv

-----------------------------------------------------------------------------
(* Metrics, intents and their triggers *)

LEMMA WithoutIs ==
    ASSUME NEW a, TableOK(rows)
    PROVE  /\ TableOK(Without(a))
           /\ \A i \in DOMAIN Without(a) : i \in DOMAIN rows /\ Without(a)[i] = rows[i] /\ a \notin rows[i].a
<1> DEFINE S == {i \in DOMAIN rows : a \notin rows[i].a}
<1>1. Without(a) = [i \in S |-> rows[i]]
  BY DEF Without, Keep
<1>2. S \in SUBSET DOMAIN rows /\ \A i \in S : a \notin rows[i].a
  OBVIOUS
<1> HIDE DEF S
<1>3. TableOK([i \in S |-> rows[i]])
  BY <1>2, PartOK
<1> QED BY <1>1, <1>2, <1>3

\* Rows inserted together with what they refer to.
LEMMA InsertedLater ==
    ASSUME NEW t, TableOK(t), NEW R, Room(t, R), rows' = InsertAll(t, R),
           \A i \in DOMAIN t : Present(t[i].ot)' /\ \A a \in t[i].a : Exists(a)',
           \A r \in R : RowOK(r)' /\ \A i \in DOMAIN t : Apart(t[i], r),
           \A r, s \in R : r # s => Apart(r, s)
    PROVE  TableOK(rows)'
<1> DEFINE G == {r \in Rows : RowOK(r)'}
           u == InsertAll(t, R)
<1>1. \A r : RowOK(r)' => r \in G
  BY DEF RowOK
<1>2. \A i \in DOMAIN t : RowOK(t[i])'
  BY DEF TableOK, RowOK
<1>3. DOMAIN t \subseteq Ids /\ \A i, j \in DOMAIN t : i # j => Apart(t[i], t[j])
  BY DEF TableOK
<1>4. \A r \in G : RowOK(r)'
  OBVIOUS
<1> HIDE DEF G
<1>5. /\ DOMAIN u \subseteq Ids /\ \A i \in DOMAIN u : u[i] \in G
      /\ \A i, j \in DOMAIN u : i # j => Apart(u[i], u[j])
  BY <1>1, <1>2, <1>3, InsertedIn
<1>6. rows' = u
  OBVIOUS
<1> HIDE DEF u
<1> QED BY <1>4, <1>5, <1>6 DEF TableOK

\* A trigger row is like any other and meets no constraint.
LEMMA TriggersOK ==
    ASSUME NEW a \in Metrics \cup Intents, NEW o \in Objects, NEW T \in SUBSET Words
    PROVE  /\ \A r \in TriggerRows(a, o, T) :
                /\ r \in Rows /\ Anchored(r) /\ r.av = {} /\ r.ot = o /\ r.a = {a}
                /\ \A s : Apart(s, r)
           /\ \A r, s \in TriggerRows(a, o, T) : r # s => Apart(r, s)
<1>1. a \notin Properties /\ a \in Anchors
  BY AnchorAssumption DEF Anchors
<1>2. \A w \in T : /\ NewRow(w, o, {a}, FALSE) \in Rows
                   /\ NewRow(w, o, {a}, FALSE).a = {a} /\ NewRow(w, o, {a}, FALSE).av = {}
                   /\ NewRow(w, o, {a}, FALSE).ot = o
  BY <1>1 DEF NewRow, Rows
<1>3. \A r \in TriggerRows(a, o, T) : r \in Rows /\ r.av = {} /\ r.ot = o /\ r.a = {a}
  BY <1>2 DEF TriggerRows
<1> QED BY <1>1, <1>3 DEF Apart, Anchored

\* The triggers of what exists are sound rows.
LEMMA TriggersRefer ==
    ASSUME NEW a \in Metrics \cup Intents, NEW o \in Objects, NEW T \in SUBSET Words
    PROVE  /\ Present(o) /\ Exists(a) => \A r \in TriggerRows(a, o, T) : RowOK(r)
           /\ Present(o)' /\ Exists(a)' => \A r \in TriggerRows(a, o, T) : RowOK(r)'
<1>1. \A r \in TriggerRows(a, o, T) : r \in Rows /\ Anchored(r) /\ r.av = {} /\ r.ot = o /\ r.a = {a}
  BY TriggersOK
<1> QED BY <1>1 DEF RowOK

\* What the rows refer to, and the object of every metric and intent.
LEMMA References ==
    ASSUME OntologyOK, TableOK(rows)
    PROVE  /\ \A i \in DOMAIN rows : /\ rows[i].ot \in Objects /\ Present(rows[i].ot)
                                     /\ \A a \in rows[i].a : a \in Anchors /\ Exists(a)
           /\ None \notin Objects
BY AnchorAssumption DEF TableOK, RowOK, Rows

\* A request about metric m that leaves the other metrics alone.
LEMMA MetricKeeps ==
    ASSUME OntologyOK, NEW m \in Metrics, NEW o \in Objects \cup {None}, NEW mark \in BOOLEAN,
           o = None \/ Present(o),
           metrics' = [metrics EXCEPT ![m] = [ot |-> o, mark |-> mark]],
           UNCHANGED <<objects, props, intents>>
    PROVE  /\ OntologyOK'
           /\ \A x : Present(x)' <=> Present(x)
           /\ \A a \in Anchors : a # m => (Exists(a)' <=> Exists(a))
           /\ o # None => Exists(m)'
<1>1. \A x : Present(x)' <=> Present(x)
  BY DEF Present
<1>2. \A x \in Metrics : metrics'[x] = IF x = m THEN [ot |-> o, mark |-> mark] ELSE metrics[x]
  BY DEF OntologyOK
<1>3. metrics' \in [Metrics -> [ot : Objects \cup {None}, mark : BOOLEAN]]
  <2>1. [ot |-> o, mark |-> mark] \in [ot : Objects \cup {None}, mark : BOOLEAN]
    OBVIOUS
  <2> QED BY <2>1 DEF OntologyOK
<1>4. \A x \in Metrics : metrics'[x].ot # None => objects'[metrics'[x].ot] # "absent"
  BY <1>2 DEF OntologyOK, Present
<1>5. OntologyOK'
  BY <1>3, <1>4 DEF OntologyOK, Present
<1>6. \A a \in Anchors : a # m => (Exists(a)' <=> Exists(a))
  BY <1>1, <1>2, ExistsIs, ExistsLater DEF Anchors
<1>7. o # None => Exists(m)'
  BY <1>2, ExistsLater
<1> QED BY <1>1, <1>5, <1>6, <1>7

\* The same for intent n.
LEMMA IntentKeeps ==
    ASSUME OntologyOK, NEW n \in Intents, NEW o \in Objects \cup {None}, NEW mark \in BOOLEAN,
           o = None \/ Present(o),
           intents' = [intents EXCEPT ![n] = [ot |-> o, mark |-> mark]],
           UNCHANGED <<objects, props, metrics>>
    PROVE  /\ OntologyOK'
           /\ \A x : Present(x)' <=> Present(x)
           /\ \A a \in Anchors : a # n => (Exists(a)' <=> Exists(a))
           /\ o # None => Exists(n)'
<1>1. \A x : Present(x)' <=> Present(x)
  BY DEF Present
<1>2. \A x \in Intents : intents'[x] = IF x = n THEN [ot |-> o, mark |-> mark] ELSE intents[x]
  BY DEF OntologyOK
<1>3. intents' \in [Intents -> [ot : Objects \cup {None}, mark : BOOLEAN]]
  <2>1. [ot |-> o, mark |-> mark] \in [ot : Objects \cup {None}, mark : BOOLEAN]
    OBVIOUS
  <2> QED BY <2>1 DEF OntologyOK
<1>4. \A x \in Intents : intents'[x].ot # None => objects'[intents'[x].ot] # "absent"
  BY <1>2 DEF OntologyOK, Present
<1>5. OntologyOK'
  BY <1>3, <1>4 DEF OntologyOK, Present
<1>6. \A a \in Anchors : a # n => (Exists(a)' <=> Exists(a))
  BY <1>1, <1>2, ExistsIs, ExistsLater DEF Anchors
<1>7. o # None => Exists(n)'
  BY <1>2, ExistsLater
<1> QED BY <1>1, <1>5, <1>6, <1>7

LEMMA DeleteTriggerKeeps ==
    ASSUME KeywordInv, NEW m \in Metrics, NEW i \in DOMAIN rows, DeleteTrigger(m, i)
    PROVE  KeywordInv'
<1>1. TableOK([j \in DOMAIN rows \ {i} |-> rows[j]])
  BY PartOK DEF KeywordInv
<1> QED BY <1>1, EditKeeps DEF DeleteTrigger

LEMMA WriteMetricKeeps ==
    ASSUME KeywordInv, NEW m \in Metrics, NEW o \in Objects, NEW mark \in BOOLEAN, NEW T \in SUBSET Words,
           WriteMetricWithTriggers(m, o, mark, T)
    PROVE  KeywordInv'
<1> DEFINE R == TriggerRows(m, o, T)
<1>1. OntologyOK /\ TableOK(rows) /\ Present(o) /\ o # None
      /\ metrics' = [metrics EXCEPT ![m] = [ot |-> o, mark |-> mark]]
      /\ UNCHANGED <<objects, props, intents>> /\ Other
  BY AnchorAssumption DEF KeywordInv, WriteMetricWithTriggers
<1>2. /\ OntologyOK' /\ Exists(m)' /\ \A x : Present(x)' <=> Present(x)
      /\ \A a \in Anchors : a # m => (Exists(a)' <=> Exists(a))
  <2>1. o \in Objects \cup {None} /\ (o = None \/ Present(o))
    BY <1>1
  <2> QED BY <1>1, <2>1, MetricKeeps, Zenon
<1>3. PICK t : t = rows
  OBVIOUS
<1>4. TableOK(t) /\ \A i \in DOMAIN t : Present(t[i].ot)' /\ \A a \in t[i].a : Exists(a)'
  BY <1>1, <1>2, <1>3, References
<1>5. Room(t, R) /\ rows' = InsertAll(t, R)
  BY <1>3 DEF WriteMetricWithTriggers
<1>6. \A r \in R : RowOK(r)' /\ \A i \in DOMAIN t : Apart(t[i], r)
  BY <1>1, <1>2, TriggersOK, TriggersRefer
<1>7. \A r, s \in R : r # s => Apart(r, s)
  BY TriggersOK
<1> HIDE DEF R
<1>8. TableOK(rows)'
  BY <1>4, <1>5, <1>6, <1>7, InsertedLater
<1> QED BY <1>1, <1>2, <1>8, OtherKeeps DEF KeywordInv

LEMMA UpdateMetricKeeps ==
    ASSUME KeywordInv, NEW m \in Metrics, NEW o \in Objects, NEW mark \in BOOLEAN,
           UpdateMetric(m, o, mark)
    PROVE  KeywordInv'
<1>1. OntologyOK /\ TableOK(rows) /\ Present(o) /\ o # None
  BY AnchorAssumption DEF KeywordInv, UpdateMetric
<1>2. /\ OntologyOK' /\ Exists(m)' /\ \A x : Present(x)' <=> Present(x)
      /\ \A a \in Anchors : a # m => (Exists(a)' <=> Exists(a))
  BY <1>1, MetricKeeps DEF UpdateMetric
<1>3. TableOK(rows)'
  BY <1>1, <1>2, References, TableLater DEF UpdateMetric
<1> QED BY <1>2, <1>3, OtherKeeps DEF KeywordInv, UpdateMetric

LEMMA UpdateMetricTriggersKeeps ==
    ASSUME KeywordInv, NEW m \in Metrics, NEW o \in Objects, NEW mark \in BOOLEAN, NEW T \in SUBSET Words,
           UpdateMetricTriggers(m, o, mark, T)
    PROVE  KeywordInv'
<1> DEFINE R == TriggerRows(m, o, T)
<1>1. OntologyOK /\ TableOK(rows) /\ Present(o) /\ o # None
      /\ metrics' = [metrics EXCEPT ![m] = [ot |-> o, mark |-> mark]]
      /\ UNCHANGED <<objects, props, intents>> /\ Other
  BY AnchorAssumption DEF KeywordInv, UpdateMetricTriggers
<1>2. /\ OntologyOK' /\ Exists(m)' /\ \A x : Present(x)' <=> Present(x)
      /\ \A a \in Anchors : a # m => (Exists(a)' <=> Exists(a))
  <2>1. o \in Objects \cup {None} /\ (o = None \/ Present(o))
    BY <1>1
  <2> QED BY <1>1, <2>1, MetricKeeps, Zenon
<1>3. PICK t : t = Without(m)
  OBVIOUS
<1>4. TableOK(t) /\ \A i \in DOMAIN t : Present(t[i].ot)' /\ \A a \in t[i].a : Exists(a)'
  BY <1>1, <1>2, <1>3, References, WithoutIs
<1>5. Room(t, R) /\ rows' = InsertAll(t, R)
  BY <1>3 DEF UpdateMetricTriggers
<1>6. \A r \in R : RowOK(r)' /\ \A i \in DOMAIN t : Apart(t[i], r)
  BY <1>1, <1>2, TriggersOK, TriggersRefer
<1>7. \A r, s \in R : r # s => Apart(r, s)
  BY TriggersOK
<1> HIDE DEF R
<1>8. TableOK(rows)'
  BY <1>4, <1>5, <1>6, <1>7, InsertedLater
<1> QED BY <1>1, <1>2, <1>8, OtherKeeps DEF KeywordInv

LEMMA DeleteMetricKeeps ==
    ASSUME KeywordInv, NEW m \in Metrics, DeleteMetric(m)
    PROVE  KeywordInv'
<1>1. OntologyOK /\ TableOK(rows)
      /\ metrics' = [metrics EXCEPT ![m] = [ot |-> None, mark |-> FALSE]]
      /\ UNCHANGED <<objects, props, intents>> /\ Other
  BY DEF KeywordInv, DeleteMetric
<1>2. /\ OntologyOK' /\ \A x : Present(x)' <=> Present(x)
      /\ \A a \in Anchors : a # m => (Exists(a)' <=> Exists(a))
  BY <1>1, MetricKeeps
<1>3. PICK t : t = Without(m)
  OBVIOUS
<1>4. TableOK(t) /\ \A i \in DOMAIN t : Present(t[i].ot)' /\ \A a \in t[i].a : Exists(a)'
  BY <1>1, <1>2, <1>3, References, WithoutIs
<1>5. TableOK(rows)'
  BY <1>3, <1>4, TableLater DEF DeleteMetric
<1> QED BY <1>1, <1>2, <1>5, OtherKeeps DEF KeywordInv

LEMMA MarkedIs ==
    ASSUME NEW S, NEW r \in [ot : S, mark : BOOLEAN]
    PROVE  [r EXCEPT !.mark = TRUE] = [ot |-> r.ot, mark |-> TRUE]
<1> DEFINE s == [r EXCEPT !.mark = TRUE]
<1>1. s \in [ot : S, mark : BOOLEAN] /\ s.ot = r.ot /\ s.mark = TRUE
  OBVIOUS
<1> HIDE DEF s
<1>2. s = [ot |-> s.ot, mark |-> s.mark]
  BY <1>1
<1> QED BY <1>1, <1>2 DEF s

\* Intents: as the metrics, but proposed and activated in two requests.
LEMMA ProposeIntentKeeps ==
    ASSUME KeywordInv, NEW n \in Intents, NEW o \in Objects, ProposeIntent(n, o)
    PROVE  KeywordInv'
<1>1. OntologyOK /\ TableOK(rows) /\ Present(o) /\ o # None
      /\ intents' = [intents EXCEPT ![n] = [ot |-> o, mark |-> FALSE]]
      /\ UNCHANGED <<objects, props, metrics, rows>> /\ Other
  BY AnchorAssumption DEF KeywordInv, ProposeIntent, Present
<1>2. /\ OntologyOK' /\ Exists(n)' /\ \A x : Present(x)' <=> Present(x)
      /\ \A a \in Anchors : a # n => (Exists(a)' <=> Exists(a))
  BY <1>1, IntentKeeps
<1>3. TableOK(rows)'
  BY <1>1, <1>2, References, TableLater
<1> QED BY <1>1, <1>2, <1>3, OtherKeeps DEF KeywordInv

LEMMA ActivateIntentKeeps ==
    ASSUME KeywordInv, NEW n \in Intents, NEW T \in SUBSET Words, ActivateIntent(n, T)
    PROVE  KeywordInv'
<1> DEFINE o == intents[n].ot
<1>1. OntologyOK /\ TableOK(rows) /\ o \in Objects /\ Present(o) /\ o # None
      /\ intents' = [intents EXCEPT ![n] = [ot |-> o, mark |-> TRUE]]
      /\ UNCHANGED <<objects, props, metrics>> /\ Other
  <2>1. OntologyOK /\ TableOK(rows) /\ o # None /\ intents' = [intents EXCEPT ![n].mark = TRUE]
        /\ UNCHANGED <<objects, props, metrics>> /\ Other
    BY DEF KeywordInv, ActivateIntent
  <2>2. intents[n] \in [ot : Objects \cup {None}, mark : BOOLEAN] /\ Present(o)
    BY <2>1 DEF OntologyOK
  <2>3. [intents[n] EXCEPT !.mark = TRUE] = [ot |-> o, mark |-> TRUE]
    BY <2>2, MarkedIs
  <2> QED BY <2>1, <2>2, <2>3
<1>3. PICK t, h : t = rows /\ h = o
  OBVIOUS
<1> DEFINE R == TriggerRows(n, h, T)
<1>2. /\ OntologyOK' /\ Exists(n)' /\ \A x : Present(x)' <=> Present(x)
      /\ \A a \in Anchors : a # n => (Exists(a)' <=> Exists(a))
  BY <1>1, <1>3, IntentKeeps
<1>4. TableOK(t) /\ \A i \in DOMAIN t : Present(t[i].ot)' /\ \A a \in t[i].a : Exists(a)'
  BY <1>1, <1>2, <1>3, References
<1>5. Room(t, R) /\ rows' = InsertAll(t, R)
  BY <1>3 DEF ActivateIntent
<1>6. \A r \in R : RowOK(r)' /\ \A i \in DOMAIN t : Apart(t[i], r)
  BY <1>1, <1>2, <1>3, TriggersOK, TriggersRefer
<1>7. \A r, s \in R : r # s => Apart(r, s)
  BY <1>1, <1>3, TriggersOK
<1> HIDE DEF R
<1>8. TableOK(rows)'
  BY <1>4, <1>5, <1>6, <1>7, InsertedLater
<1> QED BY <1>1, <1>2, <1>8, OtherKeeps DEF KeywordInv

LEMMA UpdateIntentKeeps ==
    ASSUME KeywordInv, NEW n \in Intents, NEW adds \in SUBSET Words, NEW dels \in SUBSET Words,
           UpdateIntent(n, adds, dels)
    PROVE  KeywordInv'
<1> DEFINE o == intents[n].ot
           R == TriggerRows(n, o, adds)
           u == InsertAll(rows, R)
           S == {i \in DOMAIN u : ~(n \in u[i].a /\ u[i].w \in dels)}
<1>1. OntologyOK /\ TableOK(rows) /\ o \in Objects /\ Present(o) /\ Exists(n)
  <2>1. OntologyOK /\ TableOK(rows) /\ o # None
    BY DEF KeywordInv, UpdateIntent
  <2> QED BY <2>1, ExistsIs DEF OntologyOK
<1>2. Room(rows, R) /\ SetRows([i \in S |-> u[i]]) /\ Other
  BY DEF UpdateIntent, Keep
<1>3. \A r \in R : RowOK(r) /\ \A i \in DOMAIN rows : Apart(rows[i], r)
  BY <1>1, TriggersOK, TriggersRefer
<1>4. \A r, s \in R : r # s => Apart(r, s)
  BY <1>1, TriggersOK
<1> HIDE DEF R
<1>5. TableOK(u)
  BY <1>1, <1>2, <1>3, <1>4, InsertedOK
<1>6. S \in SUBSET DOMAIN u
  OBVIOUS
<1> HIDE DEF u, S
<1> QED BY <1>2, <1>5, <1>6, PartOK, EditKeeps

LEMMA DeleteIntentKeeps ==
    ASSUME KeywordInv, NEW n \in Intents, DeleteIntent(n)
    PROVE  KeywordInv'
<1>1. OntologyOK /\ TableOK(rows)
      /\ intents' = [intents EXCEPT ![n] = [ot |-> None, mark |-> FALSE]]
      /\ UNCHANGED <<objects, props, metrics>> /\ Other
  BY DEF KeywordInv, DeleteIntent
<1>2. /\ OntologyOK' /\ \A x : Present(x)' <=> Present(x)
      /\ \A a \in Anchors : a # n => (Exists(a)' <=> Exists(a))
  BY <1>1, IntentKeeps
<1>3. PICK t : t = Without(n)
  OBVIOUS
<1>4. TableOK(t) /\ \A i \in DOMAIN t : Present(t[i].ot)' /\ \A a \in t[i].a : Exists(a)'
  BY <1>1, <1>2, <1>3, References, WithoutIs
<1>5. TableOK(rows)'
  BY <1>3, <1>4, TableLater DEF DeleteIntent
<1> QED BY <1>1, <1>2, <1>5, OtherKeeps DEF KeywordInv

-----------------------------------------------------------------------------
(* The keyword pages *)

LEMMA SyncPropertyKeywordsKeeps ==
    ASSUME KeywordInv, NEW p \in Properties, NEW values \in SUBSET Words,
           SyncPropertyKeywords(p, values)
    PROVE  KeywordInv'
<1> DEFINE kept == Without(p)
           named == \E v \in values : SameText(v, NameOf[p])
           texts == values \cup (IF named THEN {} ELSE {NameOf[p]})
           row(v) == NewRow(v, OwnerOf[p], {p}, SameText(v, NameOf[p]))
           R == {row(v) : v \in texts}
<1>1. Room(kept, R) /\ SetRows(InsertAll(kept, R)) /\ Other /\ p \in props
  BY DEF SyncPropertyKeywords
<1>2. TableOK(kept) /\ \A i \in DOMAIN kept : p \notin kept[i].a
  BY WithoutIs DEF KeywordInv
<1>3. /\ texts \in SUBSET Words /\ OwnerOf[p] \in Objects /\ Present(OwnerOf[p])
      /\ Exists(p) /\ p \in Anchors
  BY <1>1, KeywordAssumption, ExistsIs DEF KeywordInv, OntologyOK, Anchors
<1> HIDE DEF texts, kept
<1>4. \A v \in texts : RowOK(row(v)) /\ row(v).w = v /\ row(v).a = {p}
  <2> SUFFICES ASSUME NEW v \in texts PROVE RowOK(row(v)) /\ row(v).w = v /\ row(v).a = {p}
    OBVIOUS
  <2>1. SameText(v, NameOf[p]) \in BOOLEAN
    BY DEF SameText
  <2>2. RowOK(row(v))
    BY <1>3, <2>1, NewRowOK
  <2> QED BY <2>2 DEF NewRow
<1> HIDE DEF row
<1>5. \A r \in R : RowOK(r) /\ \A i \in DOMAIN kept : Apart(kept[i], r)
  BY <1>2, <1>4 DEF Apart
<1>6. \A r, s \in R : r # s => Apart(r, s)
  BY <1>4 DEF Apart
<1> HIDE DEF R
<1>7. TableOK(InsertAll(kept, R))
  BY <1>1, <1>2, <1>5, <1>6, InsertedOK
<1> QED BY <1>1, <1>7, EditKeeps

LEMMA CreateKeywordKeeps ==
    ASSUME KeywordInv, NEW w \in Words, NEW a \in SUBSET Anchors, NEW col \in BOOLEAN,
           CreateKeyword(w, a, col)
    PROVE  KeywordInv'
<1> DEFINE home == IF a \cap Properties # {} THEN HomeOf(CHOOSE p \in a \cap Properties : TRUE)
                   ELSE HomeOf(CHOOSE n \in a : TRUE)
           row == NewRow(w, home, a, col)
           clash == Conflicts(rows, row)
           t == [i \in DOMAIN rows |->
                   IF i \notin clash THEN rows[i]
                   ELSE [rows[i] EXCEPT !.col = col, !.a = (@ \ Intents) \cup (a \cap Intents)]]
<1>1. a # {} /\ (\A x \in a : Exists(x)) /\ OntologyOK /\ TableOK(rows) /\ Other
  BY DEF CreateKeyword, KeywordInv
<1>2. home \in Objects /\ Present(home)
  <2> DEFINE p == CHOOSE x \in a \cap Properties : TRUE
             n == CHOOSE x \in a : TRUE
  <2>1. n \in a /\ (a \cap Properties # {} => p \in a)
    BY <1>1
  <2>2. \A x \in a : HomeOf(x) \in Objects /\ Present(HomeOf(x))
    BY <1>1, HomeExists
  <2> QED BY <2>1, <2>2
<1>3. RowOK(row) /\ row.a = a /\ row.w = w
  <2> HIDE DEF home
  <2>1. row.a = a /\ row.w = w
    BY DEF NewRow
  <2> QED BY <1>1, <1>2, <2>1, NewRowOK
<1>4. CASE clash # {} /\ SetRows(t)
  <2>1. \A i \in clash : i \in DOMAIN rows /\ rows[i].a \cap Properties # {}
    BY DEF Conflicts
  <2>2. ASSUME NEW i \in DOMAIN rows
        PROVE  RowOK(t[i]) /\ t[i].w = rows[i].w /\ t[i].a \cap Properties \subseteq rows[i].a
    <3> DEFINE b == (rows[i].a \ Intents) \cup (a \cap Intents)
    <3>1. RowOK(rows[i])
      BY <1>1 DEF TableOK
    <3>2. CASE i \in clash
      <4>1. b \cap Properties = rows[i].a \cap Properties /\ b \in SUBSET Anchors /\ \A x \in b : Exists(x)
        BY <1>1, <3>1, AnchorAssumption DEF RowOK, Rows
      <4>2. t[i] = [rows[i] EXCEPT !.col = col, !.a = b]
        BY <3>2
      <4> HIDE DEF b, t
      <4>3. /\ t[i] \in Rows /\ t[i].w = rows[i].w /\ t[i].a = b /\ t[i].ot = rows[i].ot
            /\ t[i].al = rows[i].al /\ t[i].av = rows[i].av /\ t[i].stop = rows[i].stop
        BY <3>1, <4>1, <4>2 DEF RowOK, Rows
      <4>4. b # {}
        BY <2>1, <3>2, <4>1
      <4> QED BY <3>1, <4>1, <4>3, <4>4 DEF RowOK, Anchored
    <3>3. CASE i \notin clash
      BY <3>1, <3>3
    <3> QED BY <3>2, <3>3
  <2>3. DOMAIN t = DOMAIN rows
    OBVIOUS
  <2> HIDE DEF t
  <2>4. TableOK(t)
    BY <1>1, <2>2, <2>3, EditedOK
  <2> QED BY <1>1, <1>4, <2>4, EditKeeps
<1>5. CASE clash = {} /\ FreshIds(rows) # {} /\ SetRows(Insert(rows, row))
  <2> HIDE DEF row
  <2>1. TableOK(Insert(rows, row))
    BY <1>1, <1>3, <1>5, OneInsertedOK
  <2> QED BY <1>1, <1>5, <2>1, EditKeeps
<1> QED BY <1>4, <1>5 DEF CreateKeyword

LEMMA BulkCreateKeywordKeeps ==
    ASSUME KeywordInv, NEW w \in Words, NEW a \in SUBSET Anchors, NEW col \in BOOLEAN,
           NEW aliases \in SUBSET Words, BulkCreateKeyword(w, a, col, aliases)
    PROVE  KeywordInv'
<1> DEFINE home == IF a \cap Properties # {} THEN HomeOf(CHOOSE p \in a \cap Properties : TRUE)
                   ELSE IF a \cap Objects # {} THEN CHOOSE o \in a \cap Objects : TRUE
                   ELSE HomeOf(CHOOSE n \in a : TRUE)
           row == [NewRow(w, home, a, col) EXCEPT !.al = aliases]
<1>1. a # {} /\ (\A x \in a : Exists(x)) /\ OntologyOK /\ TableOK(rows) /\ Other
      /\ Conflicts(rows, row) = {} /\ FreshIds(rows) # {} /\ SetRows(Insert(rows, row))
  BY DEF BulkCreateKeyword, KeywordInv
<1>2. home \in Objects /\ Present(home)
  <2> DEFINE p == CHOOSE x \in a \cap Properties : TRUE
             o == CHOOSE x \in a \cap Objects : TRUE
             n == CHOOSE x \in a : TRUE
  <2>1. n \in a /\ (a \cap Properties # {} => p \in a) /\ (a \cap Objects # {} => o \in a \cap Objects)
    BY <1>1
  <2>2. \A x \in a : HomeOf(x) \in Objects /\ Present(HomeOf(x))
    BY <1>1, HomeExists
  <2>3. \A x \in a \cap Objects : Present(x)
    BY <1>1, ExistsIs
  <2> QED BY <2>1, <2>2, <2>3
<1>3. RowOK(row)
  <2> HIDE DEF home
  <2>1. NewRow(w, home, a, col) \in Rows
    BY <1>2 DEF NewRow, Rows
  <2>2. row \in Rows /\ row.ot = home /\ row.a = a /\ row.av = {}
    BY <2>1 DEF NewRow, Rows
  <2> HIDE DEF row
  <2> QED BY <1>1, <1>2, <2>2 DEF RowOK, Anchored
<1> HIDE DEF row
<1>4. TableOK(Insert(rows, row))
  BY <1>1, <1>3, OneInsertedOK
<1> QED BY <1>1, <1>4, EditKeeps

LEMMA DeleteKeywordsKeeps ==
    ASSUME KeywordInv, NEW S, DeleteKeywords(S)
    PROVE  KeywordInv'
<1>1. TableOK([i \in DOMAIN rows \ S |-> rows[i]])
  BY PartOK DEF KeywordInv
<1> QED BY <1>1, EditKeeps DEF DeleteKeywords

\* One row of the table rewritten in place.
LEMMA RowEdited ==
    ASSUME NEW t, TableOK(t), NEW i \in DOMAIN t, NEW r, RowOK(r),
           \A j \in DOMAIN t : j # i => Apart(t[j], r)
    PROVE  TableOK([t EXCEPT ![i] = r])
<1> DEFINE u == [t EXCEPT ![i] = r]
<1>1. DOMAIN u = DOMAIN t /\ \A j \in DOMAIN t : u[j] = IF j = i THEN r ELSE t[j]
  OBVIOUS
<1> HIDE DEF u
<1>2. \A j \in DOMAIN t : j # i => Apart(r, t[j])
  BY DEF Apart
<1> QED BY <1>1, <1>2 DEF TableOK, u

\* The text and the properties of a row keep it apart from the others.
LEMMA ApartAgain ==
    ASSUME NEW t, TableOK(t), NEW i \in DOMAIN t, NEW r, r.w = t[i].w, r.a \cap Properties \subseteq t[i].a
    PROVE  \A j \in DOMAIN t : j # i => Apart(t[j], r)
BY DEF TableOK, Apart

LEMMA UpdateKeywordKeeps ==
    ASSUME KeywordInv, NEW i \in DOMAIN rows, NEW col \in BOOLEAN, NEW stop \in BOOLEAN,
           UpdateKeyword(i, col, stop)
    PROVE  KeywordInv'
<1> DEFINE r == [rows[i] EXCEPT !.col = col, !.stop = stop]
           t == [rows EXCEPT ![i] = r]
<1>1. TableOK(rows) /\ RowOK(rows[i]) /\ rows[i] \in Rows /\ Other
  BY DEF KeywordInv, TableOK, RowOK, UpdateKeyword
<1>2. /\ r \in Rows /\ r.w = rows[i].w /\ r.a = rows[i].a /\ r.ot = rows[i].ot
      /\ r.al = rows[i].al /\ r.av = rows[i].av /\ r.stop = stop
  BY <1>1 DEF Rows
<1>3. Anchored(r)
  BY <1>1, <1>2 DEF UpdateKeyword, Anchored, Rows
<1>4. SetRows(t)
  <2>1. t = [rows EXCEPT ![i].col = col, ![i].stop = stop]
    BY <1>1
  <2> QED BY <2>1 DEF UpdateKeyword
<1> HIDE DEF r
<1>5. RowOK(r)
  BY <1>1, <1>2, <1>3 DEF RowOK
<1>6. TableOK(t)
  BY <1>1, <1>2, <1>5, ApartAgain, RowEdited
<1> HIDE DEF t
<1> QED BY <1>1, <1>4, <1>6, EditKeeps

LEMMA ReanchorKeeps ==
    ASSUME KeywordInv, NEW i \in DOMAIN rows, NEW column, NEW to \in SUBSET Anchors,
           Reanchor(i, column, to)
    PROVE  KeywordInv'
<1> DEFINE b == (rows[i].a \ column) \cup to
           r == [rows[i] EXCEPT !.a = (@ \ column) \cup to]
           others == [j \in DOMAIN rows \ {i} |-> rows[j]]
           t == [rows EXCEPT ![i] = r]
<1>1. TableOK(rows) /\ RowOK(rows[i]) /\ rows[i] \in Rows
  BY DEF KeywordInv, TableOK, RowOK
<1>2. (\A x \in to : Exists(x)) /\ Anchored(r) /\ Conflicts(others, r) = {} /\ SetRows(t) /\ Other
  BY DEF Reanchor
<1>3. b \in SUBSET Anchors /\ \A x \in b : Exists(x)
  BY <1>1, <1>2 DEF RowOK, Rows
<1>4. r = [rows[i] EXCEPT !.a = b]
  BY <1>1
<1> HIDE DEF b, r
<1>5. /\ r \in Rows /\ r.w = rows[i].w /\ r.a = b /\ r.ot = rows[i].ot
      /\ r.al = rows[i].al /\ r.av = rows[i].av
  BY <1>1, <1>3, <1>4 DEF Rows
<1>6. RowOK(r)
  BY <1>1, <1>2, <1>3, <1>5 DEF RowOK
<1>7. \A j \in DOMAIN rows : j # i => Apart(rows[j], r)
  BY <1>2 DEF Conflicts, Apart
<1>8. TableOK(t)
  BY <1>1, <1>6, <1>7, RowEdited
<1> HIDE DEF t
<1> QED BY <1>2, <1>8, EditKeeps

LEMMA SetAliasesKeeps ==
    ASSUME KeywordInv, NEW i \in DOMAIN rows, NEW aliases \in SUBSET Words, SetAliases(i, aliases)
    PROVE  KeywordInv'
<1> DEFINE r == [rows[i] EXCEPT !.al = aliases, !.av = aliases, !.alvec = rows[i].alvec \cap aliases]
           t == [rows EXCEPT ![i] = r]
<1>1. TableOK(rows) /\ RowOK(rows[i]) /\ rows[i] \in Rows /\ Other
  BY DEF KeywordInv, TableOK, RowOK, SetAliases
<1>2. /\ r \in Rows /\ r.w = rows[i].w /\ r.a = rows[i].a /\ r.ot = rows[i].ot
      /\ r.al = aliases /\ r.av = aliases /\ r.stop = rows[i].stop
  <2> DEFINE v == rows[i].alvec \cap aliases
  <2>1. v \in SUBSET Words
    OBVIOUS
  <2> HIDE DEF v
  <2>2. LET q == [rows[i] EXCEPT !.al = aliases, !.av = aliases, !.alvec = v]
        IN /\ q \in Rows /\ q.w = rows[i].w /\ q.a = rows[i].a /\ q.ot = rows[i].ot
           /\ q.al = aliases /\ q.av = aliases /\ q.stop = rows[i].stop
    BY <1>1, <2>1 DEF Rows
  <2> QED BY <2>2 DEF v
<1>3. SetRows(t)
  <2>1. t = [rows EXCEPT ![i].al = aliases, ![i].av = aliases, ![i].alvec = @ \cap aliases]
    BY <1>1
  <2> QED BY <2>1 DEF SetAliases
<1> HIDE DEF r
<1>4. RowOK(r)
  BY <1>1, <1>2 DEF RowOK, Anchored, SameText
<1>5. TableOK(t)
  BY <1>1, <1>2, <1>4, ApartAgain, RowEdited
<1> HIDE DEF t
<1> QED BY <1>1, <1>3, <1>5, EditKeeps

LEMMA AddColumnAliasKeeps ==
    ASSUME KeywordInv, NEW p \in Properties, NEW w \in Words, AddColumnAlias(p, w)
    PROVE  KeywordInv'
<1> DEFINE b == [kind |-> "column_alias", to |-> p, value |-> None]
<1>1. PICK u \in RecordAliasOnCanonical(rows, b, w) : SetRows(u)
  BY DEF AddColumnAlias
<1>2. b \in Bindings /\ b.to = p
  <2>1. p \in Anchors /\ p \in Targets("column_alias")
    BY DEF Anchors, Targets
  <2> QED BY <2>1 DEF Bindings, Kinds
<1>3. Bindable(b)
  <2>1. Exists(p) /\ p \notin Metrics
    BY AnchorAssumption, ExistsIs DEF AddColumnAlias
  <2> QED BY <1>2, <2>1 DEF Bindable
<1> HIDE DEF b
<1>4. PICK s, i : /\ TableOK(s) /\ i \in DOMAIN s
                  /\ u = IF SameText(w, Canonical(b, w)) THEN s ELSE AddAlias(s, i, w)
  BY <1>2, <1>3, Recorded DEF KeywordInv
<1>5. TableOK(u)
  BY <1>4, AliasOK
<1> QED BY <1>1, <1>5, EditKeeps DEF AddColumnAlias

LEMMA RemoveColumnAliasKeeps ==
    ASSUME KeywordInv, NEW p \in Properties, NEW w \in Words, RemoveColumnAlias(p, w)
    PROVE  KeywordInv'
<1> DEFINE t == [i \in DOMAIN rows |->
                   IF p \in rows[i].a /\ rows[i].col THEN StripAlias(rows[i], w) ELSE rows[i]]
<1>1. TableOK(rows) /\ \A i \in DOMAIN rows : RowOK(rows[i])
  BY DEF KeywordInv, TableOK
<1>2. \A i \in DOMAIN rows : LET s == StripAlias(rows[i], w) IN RowOK(s) /\ s.w = rows[i].w /\ s.a = rows[i].a
  BY <1>1, StripOK
<1>3. DOMAIN t = DOMAIN rows
      /\ \A i \in DOMAIN rows : RowOK(t[i]) /\ t[i].w = rows[i].w /\ t[i].a \cap Properties \subseteq rows[i].a
  BY <1>1, <1>2
<1> HIDE DEF t
<1>4. TableOK(t)
  BY <1>1, <1>3, EditedOK
<1> QED BY <1>4, EditKeeps DEF RemoveColumnAlias, t

-----------------------------------------------------------------------------
(* The embedding request *)

LEMMA CollectVectorJobsKeeps ==
    ASSUME KeywordInv, CollectVectorJobs
    PROVE  KeywordInv'
<1> DEFINE t == BackfillAliasRows(rows)
<1>1. OntologyOK /\ TableOK(rows) /\ \A i \in DOMAIN rows : RowOK(rows[i]) /\ rows[i] \in Rows
  BY DEF KeywordInv, TableOK, RowOK
<1>2. /\ rows' = t /\ jobs' = VectorJobs(t) /\ OntologyUnchanged
      /\ last' = [op |-> "embed", token |-> None, wants |-> {}]
  BY DEF CollectVectorJobs, Respond
<1>3. DOMAIN t = DOMAIN rows
      /\ \A i \in DOMAIN rows :
           /\ t[i] \in Rows /\ t[i].w = rows[i].w /\ t[i].a = rows[i].a /\ t[i].ot = rows[i].ot
           /\ t[i].al = rows[i].al /\ t[i].av = rows[i].av \cup rows[i].al /\ t[i].stop = rows[i].stop
  <2>1. t = [i \in DOMAIN rows |-> [rows[i] EXCEPT !.av = rows[i].av \cup rows[i].al]]
    BY DEF BackfillAliasRows
  <2> HIDE DEF t
  <2>2. ASSUME NEW i \in DOMAIN rows
        PROVE  /\ t[i] \in Rows /\ t[i].w = rows[i].w /\ t[i].a = rows[i].a /\ t[i].ot = rows[i].ot
               /\ t[i].al = rows[i].al /\ t[i].av = rows[i].av \cup rows[i].al /\ t[i].stop = rows[i].stop
    <3> DEFINE v == rows[i].av \cup rows[i].al
    <3>1. v \in SUBSET Words
      BY <1>1 DEF Rows
    <3>2. t[i] = [rows[i] EXCEPT !.av = v]
      BY <2>1
    <3> HIDE DEF v
    <3>3. /\ t[i] \in Rows /\ t[i].w = rows[i].w /\ t[i].a = rows[i].a /\ t[i].ot = rows[i].ot
          /\ t[i].al = rows[i].al /\ t[i].av = v /\ t[i].stop = rows[i].stop
      BY <1>1, <3>1, <3>2 DEF Rows
    <3> QED BY <3>3 DEF v
  <2> QED BY <2>1, <2>2
<1> HIDE DEF t
<1>4. TableOK(t)
  <2>1. \A i \in DOMAIN rows : RowOK(t[i])
    BY <1>1, <1>3 DEF RowOK, Anchored, SameText
  <2> QED BY <1>1, <1>3, <2>1, EditedOK
<1>5. OntologyOK' /\ TableOK(rows)'
  <2>1. \A x : Present(x)' <=> Present(x)
    BY <1>2 DEF OntologyUnchanged, Present
  <2>2. \A a \in Anchors : Exists(a)' <=> Exists(a)
    BY <1>2, <2>1, ExistsIs, ExistsLater DEF OntologyUnchanged, Anchors
  <2>3. OntologyOK'
    BY <1>1, <1>2 DEF OntologyOK, OntologyUnchanged, Present
  <2>4. PICK u : u = t
    OBVIOUS
  <2>5. \A i \in DOMAIN u : Present(u[i].ot) /\ \A a \in u[i].a : a \in Anchors /\ Exists(a)
    BY <1>4, <2>4 DEF TableOK, RowOK, Rows
  <2> QED BY <1>2, <1>4, <2>1, <2>2, <2>3, <2>4, <2>5, TableLater
<1>6. \A i \in DOMAIN t :
        /\ t[i].vec \/ [id |-> i, kind |-> "keyword", text |-> t[i].w] \in VectorJobs(t)
        /\ \A v \in t[i].al :
             /\ v \in t[i].av
             /\ v \in t[i].alvec \/ [id |-> i, kind |-> "alias", text |-> v] \in VectorJobs(t)
  <2> SUFFICES ASSUME NEW i \in DOMAIN t
               PROVE  /\ t[i].vec \/ [id |-> i, kind |-> "keyword", text |-> t[i].w] \in VectorJobs(t)
                      /\ \A v \in t[i].al :
                           /\ v \in t[i].av
                           /\ v \in t[i].alvec \/ [id |-> i, kind |-> "alias", text |-> v] \in VectorJobs(t)
    OBVIOUS
  <2> DEFINE J == (IF t[i].vec THEN {} ELSE {[id |-> i, kind |-> "keyword", text |-> t[i].w]})
                  \cup {[id |-> i, kind |-> "alias", text |-> v] : v \in t[i].av \ t[i].alvec}
  <2>1. J \subseteq VectorJobs(t)
    BY DEF VectorJobs
  <2>2. t[i].al \subseteq t[i].av
    BY <1>3
  <2> QED BY <2>1, <2>2
<1>7. EmbedInv' /\ TriageInv'
  BY <1>2, <1>6 DEF EmbedInv, TriageInv
<1> QED BY <1>5, <1>7 DEF KeywordInv

\* A vector written back changes nothing that triage or the constraints look at.
LEMMA WithVectorIs ==
    ASSUME TableOK(rows), NEW j
    PROVE  LET t == WithVector(j) IN
           /\ TableOK(t) /\ DOMAIN t = DOMAIN rows
           /\ \A i \in DOMAIN rows :
                /\ t[i].w = rows[i].w /\ t[i].a = rows[i].a /\ t[i].stop = rows[i].stop
                /\ t[i].al = rows[i].al /\ t[i].av = rows[i].av /\ t[i].ot = rows[i].ot
                /\ rows[i].vec \/ (j.id = i /\ j.kind = "keyword") => t[i].vec
                /\ rows[i].alvec \subseteq t[i].alvec
                /\ j.id = i /\ j.kind # "keyword" /\ j.text \in rows[i].av => j.text \in t[i].alvec
<1> DEFINE t == WithVector(j)
<1>1. \A i \in DOMAIN rows : RowOK(rows[i]) /\ rows[i] \in Rows
  BY DEF TableOK, RowOK
<1>2. DOMAIN t = DOMAIN rows
  BY DEF WithVector
<1>3. ASSUME NEW i \in DOMAIN rows
      PROVE  /\ t[i] \in Rows
             /\ t[i].w = rows[i].w /\ t[i].a = rows[i].a /\ t[i].stop = rows[i].stop
             /\ t[i].al = rows[i].al /\ t[i].av = rows[i].av /\ t[i].ot = rows[i].ot
             /\ rows[i].vec \/ (j.id = i /\ j.kind = "keyword") => t[i].vec
             /\ rows[i].alvec \subseteq t[i].alvec
             /\ j.id = i /\ j.kind # "keyword" /\ j.text \in rows[i].av => j.text \in t[i].alvec
  <2>1. CASE j.id # i
    <3>1. t[i] = rows[i]
      BY <2>1 DEF WithVector
    <3> HIDE DEF t
    <3> QED BY <1>1, <2>1, <3>1
  <2>2. CASE j.id = i /\ j.kind = "keyword"
    <3>1. t[i] = [rows[i] EXCEPT !.vec = TRUE]
      BY <2>2 DEF WithVector
    <3> HIDE DEF t
    <3> QED BY <1>1, <2>2, <3>1 DEF Rows
  <2>3. CASE j.id = i /\ j.kind # "keyword"
    <3> DEFINE v == rows[i].alvec \cup ({j.text} \cap rows[i].av)
    <3>1. t[i] = [rows[i] EXCEPT !.alvec = v]
      BY <2>3 DEF WithVector
    <3>2. v \in SUBSET Words
      BY <1>1 DEF Rows
    <3>3. rows[i].alvec \subseteq v /\ (j.text \in rows[i].av => j.text \in v)
      OBVIOUS
    <3> HIDE DEF t, v
    <3> QED BY <1>1, <2>3, <3>1, <3>2, <3>3 DEF Rows
  <2> QED BY <2>1, <2>2, <2>3
<1> HIDE DEF t
<1>4. \A i \in DOMAIN rows : RowOK(t[i])
  BY <1>1, <1>3 DEF RowOK, Anchored
<1>5. TableOK(t)
  BY <1>2, <1>3, <1>4, EditedOK
<1> QED BY <1>2, <1>3, <1>5 DEF t

LEMMA EmbedJobKeeps ==
    ASSUME KeywordInv, NEW j \in jobs, WriteVectorsBack(j) \/ EmbedFails(j)
    PROVE  KeywordInv'
<1>1. OntologyOK /\ TableOK(rows) /\ EmbedInv /\ TriageInv /\ OntologyUnchanged /\ jobs' = jobs \ {j}
  BY DEF KeywordInv, WriteVectorsBack, EmbedFails
<1>2. PICK t : t = WithVector(j)
  OBVIOUS
<1>3. /\ TableOK(t) /\ DOMAIN t = DOMAIN rows
      /\ \A i \in DOMAIN rows :
           /\ t[i].w = rows[i].w /\ t[i].a = rows[i].a /\ t[i].stop = rows[i].stop
           /\ t[i].al = rows[i].al /\ t[i].av = rows[i].av /\ t[i].ot = rows[i].ot
           /\ rows[i].vec \/ (j.id = i /\ j.kind = "keyword") => t[i].vec
           /\ rows[i].alvec \subseteq t[i].alvec
           /\ j.id = i /\ j.kind # "keyword" /\ j.text \in rows[i].av => j.text \in t[i].alvec
  BY <1>1, <1>2, WithVectorIs
<1>4. \A x : Present(x)' <=> Present(x)
  BY <1>1 DEF OntologyUnchanged, Present
<1>5. \A a \in Anchors : Exists(a)' <=> Exists(a)
  BY <1>1, <1>4, ExistsIs, ExistsLater DEF OntologyUnchanged, Anchors
<1>6. OntologyOK'
  BY <1>1 DEF OntologyOK, OntologyUnchanged, Present
<1>7. CASE WriteVectorsBack(j)
  <2>1. rows' = t /\ last' = last /\ metrics' = metrics
    BY <1>1, <1>2, <1>7 DEF WriteVectorsBack, OntologyUnchanged
  <2>2. TableOK(rows)'
    <3>1. \A i \in DOMAIN t : Present(t[i].ot) /\ \A a \in t[i].a : a \in Anchors /\ Exists(a)
      BY <1>3 DEF TableOK, RowOK, Rows
    <3> QED BY <1>3, <1>4, <1>5, <2>1, <3>1, TableLater
  <2>3. ASSUME last.op = "embed", NEW i \in DOMAIN t
        PROVE  /\ t[i].vec \/ [id |-> i, kind |-> "keyword", text |-> t[i].w] \in jobs'
               /\ \A v \in t[i].al :
                    /\ v \in t[i].av
                    /\ v \in t[i].alvec \/ [id |-> i, kind |-> "alias", text |-> v] \in jobs'
    <3>1. /\ rows[i].vec \/ [id |-> i, kind |-> "keyword", text |-> rows[i].w] \in jobs
          /\ \A v \in rows[i].al :
               /\ v \in rows[i].av
               /\ v \in rows[i].alvec \/ [id |-> i, kind |-> "alias", text |-> v] \in jobs
      BY <1>1, <1>3, <2>3 DEF EmbedInv
    <3>2. ASSUME j = [id |-> i, kind |-> "keyword", text |-> rows[i].w] PROVE t[i].vec
      BY <1>3, <3>2
    <3>3. ASSUME NEW v \in rows[i].al, j = [id |-> i, kind |-> "alias", text |-> v] PROVE v \in t[i].alvec
      <4>1. j.id = i /\ j.kind # "keyword" /\ j.text = v
        BY <3>3
      <4> QED BY <1>3, <3>1, <4>1
    <3> QED BY <1>1, <1>3, <3>1, <3>2, <3>3
  <2>4. EmbedInv'
    BY <2>1, <2>3 DEF EmbedInv
  <2>5. \A i \in DOMAIN rows : \A w : Mentions(t[i], w) <=> Mentions(rows[i], w)
    BY <1>3 DEF Mentions
  <2>6. TriageInv'
    <3>1. last.op = "assign" => Binds(t, last.token, last.wants)
      BY <1>1, <1>3, <2>5 DEF TriageInv, Binds
    <3>2. last.op = "ignore" => Ignores(t, last.token)
      BY <1>1, <1>3, <2>5 DEF TriageInv, Ignores
    <3> QED BY <1>1, <2>1, <3>1, <3>2 DEF TriageInv, Binds, Ignores, Mentions
  <2> QED BY <1>6, <2>2, <2>4, <2>6 DEF KeywordInv
<1>8. CASE EmbedFails(j)
  <2>1. rows' = rows /\ last' = NoRequest
    BY <1>8 DEF EmbedFails
  <2>2. EmbedInv' /\ TriageInv'
    BY <2>1 DEF EmbedInv, TriageInv, NoRequest
  <2> QED BY <1>1, <1>4, <1>5, <1>6, <2>1, <2>2, References, TableLater DEF KeywordInv
<1> QED BY <1>7, <1>8

-----------------------------------------------------------------------------
(* The ontology: imports, marks and cascades *)

\* The seeds of an import: what they refer to, and that they meet no constraint.
LEMMA SeedsOK ==
    ASSUME NEW present \in SUBSET Objects, NEW existing \in SUBSET Properties,
           \A p \in existing : OwnerOf[p] \in present, NEW t
    PROVE  /\ \A r \in Seeds(present, existing, t) :
                /\ r \in Rows /\ Anchored(r) /\ r.av = {} /\ r.ot \in present
                /\ r.a \subseteq present \cup existing
                /\ \A i \in DOMAIN t : Apart(t[i], r)
           /\ \A r, s \in Seeds(present, existing, t) : r # s => Apart(r, s)
<1> DEFINE O == {x \in present : Unseeded(x, t)}
           P == {x \in existing : \A i \in DOMAIN t : x \notin t[i].a}
           object(o) == NewRow(Lower[NameOf[o]], o, {o}, FALSE)
           property(p) == NewRow(Lower[NameOf[p]], OwnerOf[p], {p}, TRUE)
           R == Seeds(present, existing, t)
<1>1. R = {object(o) : o \in O} \cup {property(p) : p \in P}
  BY DEF Seeds
<1>2. O \subseteq present /\ P \subseteq existing /\ \A p \in P, i \in DOMAIN t : p \notin t[i].a
  OBVIOUS
<1> HIDE DEF O, P, R
<1>3. \A o \in O : /\ object(o) \in Rows /\ object(o).a = {o} /\ object(o).av = {}
                   /\ object(o).ot = o /\ o \notin Properties
  <2> SUFFICES ASSUME NEW o \in O
               PROVE  /\ object(o) \in Rows /\ object(o).a = {o} /\ object(o).av = {}
                      /\ object(o).ot = o /\ o \notin Properties
    OBVIOUS
  <2>1. o \in Objects /\ o \notin Properties /\ o \in Anchors /\ Lower[NameOf[o]] \in Words
    BY <1>2, KeywordAssumption, AnchorAssumption DEF Anchors
  <2> QED BY <2>1 DEF NewRow, Rows
<1>4. \A p \in P : /\ property(p) \in Rows /\ property(p).a = {p} /\ property(p).av = {}
                   /\ property(p).ot = OwnerOf[p]
  <2> SUFFICES ASSUME NEW p \in P
               PROVE  /\ property(p) \in Rows /\ property(p).a = {p} /\ property(p).av = {}
                      /\ property(p).ot = OwnerOf[p]
    OBVIOUS
  <2>1. OwnerOf[p] \in Objects /\ p \in Anchors /\ Lower[NameOf[p]] \in Words
    BY <1>2, KeywordAssumption DEF Anchors
  <2> QED BY <2>1 DEF NewRow, Rows
<1> HIDE DEF object, property
<1>5. ASSUME NEW r \in R
      PROVE  /\ r \in Rows /\ Anchored(r) /\ r.av = {} /\ r.ot \in present
             /\ r.a \subseteq present \cup existing
             /\ \A i \in DOMAIN t : Apart(t[i], r)
  <2>1. CASE \E o \in O : r = object(o)
    BY <1>2, <1>3, <2>1 DEF Anchored, Apart
  <2>2. CASE \E p \in P : r = property(p)
    BY <1>2, <1>4, <2>2 DEF Anchored, Apart
  <2> QED BY <1>1, <2>1, <2>2
<1>6. ASSUME NEW r \in R, NEW s \in R, r # s PROVE Apart(r, s)
  <2>1. CASE (\E o \in O : r = object(o)) \/ (\E o \in O : s = object(o))
    BY <1>3, <2>1 DEF Apart
  <2>2. CASE (\E p \in P : r = property(p)) /\ (\E p \in P : s = property(p))
    BY <1>4, <1>6, <2>2 DEF Apart
  <2> QED BY <1>1, <2>1, <2>2
<1> QED BY <1>5, <1>6 DEF R

LEMMA PopulateOntologyKeeps ==
    ASSUME KeywordInv, NEW o \in Objects, PopulateOntology(o)
    PROVE  KeywordInv'
<1> DEFINE present == {x \in Objects : Present(x)} \cup {o}
           existing == props \cup {p \in Properties : OwnerOf[p] = o}
<1>1. OntologyOK /\ TableOK(rows) /\ Other /\ UNCHANGED <<metrics, intents>>
      /\ objects' = [x \in Objects |-> IF x \in present THEN "active" ELSE "absent"]
      /\ props' = existing
      /\ Room(rows, Seeds(present, existing, rows))
      /\ rows' = InsertAll(rows, Seeds(present, existing, rows))
  BY DEF KeywordInv, PopulateOntology
<1>2. /\ present \in SUBSET Objects /\ existing \in SUBSET Properties
      /\ \A p \in existing : OwnerOf[p] \in present
      /\ \A x \in Objects : Present(x) => x \in present
      /\ props \subseteq existing
  BY <1>1, KeywordAssumption DEF OntologyOK
<1>3. PICK P, E, t : P = present /\ E = existing /\ t = rows
  OBVIOUS
<1> HIDE DEF present, existing
<1>4. \A x \in P : x \in Objects /\ Present(x)'
  BY <1>1, <1>2, <1>3 DEF Present
<1>5. \A x \in Objects : Present(x) => Present(x)'
  BY <1>2, <1>3, <1>4
<1>6. OntologyOK'
  <2>1. objects' \in [Objects -> {"absent", "draft", "active"}]
    BY <1>1
  <2>2. props' \subseteq Properties /\ \A p \in props' : Present(OwnerOf[p])'
    BY <1>1, <1>2, <1>3, <1>4
  <2>3. \A m \in Metrics : metrics[m].ot # None => objects'[metrics[m].ot] # "absent"
    <3>1. \A m \in Metrics : metrics[m].ot # None => metrics[m].ot \in present
      BY <1>1, <1>2 DEF OntologyOK
    <3> QED BY <1>1, <1>2, <3>1
  <2>4. \A n \in Intents : intents[n].ot # None => objects'[intents[n].ot] # "absent"
    <3>1. \A n \in Intents : intents[n].ot # None => intents[n].ot \in present
      BY <1>1, <1>2 DEF OntologyOK
    <3> QED BY <1>1, <1>2, <3>1
  <2> QED BY <1>1, <2>1, <2>2, <2>3, <2>4 DEF OntologyOK, Present
<1>7. \A a \in Anchors : Exists(a) => Exists(a)'
  BY <1>1, <1>2, <1>5, ExistsIs, ExistsLater DEF Anchors
<1>8. TableOK(t) /\ \A i \in DOMAIN t : Present(t[i].ot)' /\ \A a \in t[i].a : Exists(a)'
  BY <1>1, <1>3, <1>5, <1>7, References
<1> DEFINE R == Seeds(P, E, t)
<1>9. Room(t, R) /\ rows' = InsertAll(t, R)
  BY <1>1, <1>3
<1>10. /\ \A r \in R : /\ r \in Rows /\ Anchored(r) /\ r.av = {} /\ r.ot \in P
                       /\ r.a \subseteq P \cup E
                       /\ \A i \in DOMAIN t : Apart(t[i], r)
       /\ \A r, s \in R : r # s => Apart(r, s)
  BY <1>2, <1>3, SeedsOK
<1> HIDE DEF R
<1>11. \A a \in P \cup E : Exists(a)'
  BY <1>1, <1>2, <1>3, <1>4, ExistsLater
<1>12. \A r \in R : RowOK(r)'
  BY <1>4, <1>10, <1>11 DEF RowOK
<1>13. TableOK(rows)'
  BY <1>8, <1>9, <1>10, <1>12, InsertedLater
<1> QED BY <1>1, <1>6, <1>13, OtherKeeps DEF KeywordInv

LEMMA MarkObjectKeeps ==
    ASSUME KeywordInv, NEW o \in Objects, NEW mark \in BOOLEAN, MarkObject(o, mark)
    PROVE  KeywordInv'
<1>1. OntologyOK /\ TableOK(rows) /\ Other /\ UNCHANGED <<props, metrics, intents, rows>> /\ Present(o)
      /\ objects' = [objects EXCEPT ![o] = IF mark THEN "active" ELSE "draft"]
  BY DEF KeywordInv, MarkObject
<1>2. \A x \in Objects : Present(x)' <=> Present(x)
  BY <1>1 DEF OntologyOK, Present
<1>3. objects' \in [Objects -> {"absent", "draft", "active"}]
  BY <1>1 DEF OntologyOK
<1>4. OntologyOK'
  <2>1. \A p \in props : OwnerOf[p] \in Objects
    BY <1>1, KeywordAssumption DEF OntologyOK
  <2>2. /\ \A m \in Metrics : metrics[m].ot # None => metrics[m].ot \in Objects
        /\ \A n \in Intents : intents[n].ot # None => intents[n].ot \in Objects
    BY <1>1 DEF OntologyOK
  <2>3. \A x \in Objects : objects'[x] # "absent" <=> objects[x] # "absent"
    BY <1>2 DEF Present
  <2> QED BY <1>1, <1>3, <2>1, <2>2, <2>3 DEF OntologyOK, Present
<1>5. \A a \in Anchors : Exists(a)' <=> Exists(a)
  BY <1>1, <1>2, ExistsIs, ExistsLater DEF Anchors
<1>6. TableOK(rows)'
  BY <1>1, <1>2, <1>5, References, TableLater
<1> QED BY <1>1, <1>4, <1>6, OtherKeeps DEF KeywordInv

LEMMA DroppedIs ==
    ASSUME TableOK(rows), NEW gone
    PROVE  LET t == Surviving(gone) IN
           /\ TableOK(t)
           /\ \A i \in DOMAIN t : /\ i \in DOMAIN rows /\ t[i] = rows[i]
                                  /\ rows[i].ot \notin gone /\ rows[i].a \cap gone = {}
<1> DEFINE S == {i \in DOMAIN rows : ~Dropped(rows[i], gone)}
           t == Surviving(gone)
<1>1. t = [i \in S |-> rows[i]]
  BY DEF Surviving, Keep
<1>2. S \in SUBSET DOMAIN rows /\ \A i \in S : rows[i].ot \notin gone /\ rows[i].a \cap gone = {}
  BY DEF Dropped
<1> HIDE DEF S, t
<1>3. TableOK([i \in S |-> rows[i]])
  BY <1>2, PartOK
<1>4. /\ TableOK(t)
      /\ \A i \in DOMAIN t : /\ i \in DOMAIN rows /\ t[i] = rows[i]
                             /\ rows[i].ot \notin gone /\ rows[i].a \cap gone = {}
  BY <1>1, <1>2, <1>3
<1> QED BY <1>4 DEF t

LEMMA DeleteObjectsKeeps ==
    ASSUME KeywordInv, NEW S \in SUBSET Objects, DeleteObjects(S)
    PROVE  KeywordInv'
<1> DEFINE gone == S \cup {p \in props : OwnerOf[p] \in S}
                     \cup {m \in Metrics : metrics[m].ot \in S}
                     \cup {n \in Intents : intents[n].ot \in S}
           none == [ot |-> None, mark |-> FALSE]
           cut(f) == [x \in DOMAIN f |-> IF x \in gone THEN none ELSE f[x]]
           t == Surviving(gone)
<1>1. /\ OntologyOK /\ TableOK(rows) /\ Other
      /\ objects' = [o \in Objects |-> IF o \in S THEN "absent" ELSE objects[o]]
      /\ props' = props \ gone /\ metrics' = cut(metrics) /\ intents' = cut(intents) /\ rows' = t
  BY DEF KeywordInv, DeleteObjects
<1>2. /\ \A p \in Properties : p \in props /\ p \notin gone => OwnerOf[p] \notin S
      /\ \A m \in Metrics : m \notin gone => metrics[m].ot \notin S
      /\ \A n \in Intents : n \notin gone => intents[n].ot \notin S
      /\ S \subseteq gone
  OBVIOUS
<1>3. DOMAIN metrics = Metrics /\ DOMAIN intents = Intents
  BY <1>1 DEF OntologyOK
<1> HIDE DEF gone
<1>4. \A o \in Objects : o \notin S => (Present(o)' <=> Present(o))
  BY <1>1 DEF Present
<1>5. /\ \A m \in Metrics : metrics'[m] = IF m \in gone THEN none ELSE metrics[m]
      /\ \A n \in Intents : intents'[n] = IF n \in gone THEN none ELSE intents[n]
  BY <1>1, <1>3
<1>6. OntologyOK'
  <2>1. objects' \in [Objects -> {"absent", "draft", "active"}]
    BY <1>1 DEF OntologyOK
  <2>2. props' \subseteq Properties /\ \A p \in props' : objects'[OwnerOf[p]] # "absent"
    <3>1. \A p \in props' : p \in Properties /\ p \in props /\ OwnerOf[p] \notin S /\ OwnerOf[p] \in Objects
      BY <1>1, <1>2, KeywordAssumption DEF OntologyOK
    <3> QED BY <1>1, <3>1 DEF OntologyOK, Present
  <2>3. none \in [ot : Objects \cup {None}, mark : BOOLEAN]
    OBVIOUS
  <2> HIDE DEF none
  <2>4. metrics' \in [Metrics -> [ot : Objects \cup {None}, mark : BOOLEAN]]
    BY <1>1, <1>3, <2>3 DEF OntologyOK
  <2>5. intents' \in [Intents -> [ot : Objects \cup {None}, mark : BOOLEAN]]
    BY <1>1, <1>3, <2>3 DEF OntologyOK
  <2>6. none.ot = None
    BY DEF none
  <2>7. \A m \in Metrics : metrics'[m].ot # None => objects'[metrics'[m].ot] # "absent"
    <3>1. \A m \in Metrics : metrics'[m].ot # None =>
             /\ metrics'[m].ot = metrics[m].ot /\ metrics[m].ot \in Objects
             /\ metrics[m].ot \notin S /\ Present(metrics[m].ot)
      BY <1>1, <1>2, <1>5, <2>6 DEF OntologyOK
    <3> QED BY <1>1, <3>1 DEF Present
  <2>8. \A n \in Intents : intents'[n].ot # None => objects'[intents'[n].ot] # "absent"
    <3>1. \A n \in Intents : intents'[n].ot # None =>
             /\ intents'[n].ot = intents[n].ot /\ intents[n].ot \in Objects
             /\ intents[n].ot \notin S /\ Present(intents[n].ot)
      BY <1>1, <1>2, <1>5, <2>6 DEF OntologyOK
    <3> QED BY <1>1, <3>1 DEF Present
  <2> QED BY <2>1, <2>2, <2>4, <2>5, <2>7, <2>8 DEF OntologyOK, Present
<1>7. \A a \in Anchors : a \notin gone /\ Exists(a) => Exists(a)'
  BY <1>1, <1>2, <1>4, <1>5, ExistsIs, ExistsLater DEF Anchors
<1>8. PICK u : u = t
  OBVIOUS
<1>9. TableOK(u) /\ \A i \in DOMAIN u : /\ i \in DOMAIN rows /\ u[i] = rows[i]
                                        /\ rows[i].ot \notin gone /\ rows[i].a \cap gone = {}
  BY <1>1, <1>8, DroppedIs
<1>10. \A i \in DOMAIN u : Present(u[i].ot)' /\ \A a \in u[i].a : Exists(a)'
  BY <1>1, <1>2, <1>4, <1>7, <1>9, References
<1> HIDE DEF t
<1>11. TableOK(rows)'
  BY <1>1, <1>8, <1>9, <1>10, TableLater
<1> QED BY <1>1, <1>6, <1>11, OtherKeeps DEF KeywordInv

LEMMA DeletePropertyKeeps ==
    ASSUME KeywordInv, NEW p \in Properties, DeleteProperty(p)
    PROVE  KeywordInv'
<1> DEFINE t == Surviving({p})
<1>1. /\ OntologyOK /\ TableOK(rows) /\ Other /\ UNCHANGED <<objects, metrics, intents>>
      /\ props' = props \ {p} /\ rows' = t
  BY DEF KeywordInv, DeleteProperty
<1>2. \A x : Present(x)' <=> Present(x)
  BY <1>1 DEF Present
<1>3. OntologyOK'
  BY <1>1 DEF OntologyOK, Present
<1>4. \A a \in Anchors : a # p => (Exists(a)' <=> Exists(a))
  BY <1>1, <1>2, ExistsIs, ExistsLater DEF Anchors
<1>5. PICK u : u = t
  OBVIOUS
<1>6. TableOK(u) /\ \A i \in DOMAIN u : /\ i \in DOMAIN rows /\ u[i] = rows[i]
                                        /\ rows[i].a \cap {p} = {}
  BY <1>1, <1>5, DroppedIs
<1>7. \A i \in DOMAIN u : Present(u[i].ot)' /\ \A a \in u[i].a : Exists(a)'
  BY <1>1, <1>2, <1>4, <1>6, References
<1> HIDE DEF t
<1>8. TableOK(rows)'
  BY <1>1, <1>5, <1>6, <1>7, TableLater
<1> QED BY <1>1, <1>3, <1>8, OtherKeeps DEF KeywordInv

-----------------------------------------------------------------------------
(* The specification *)

LEMMA InitInv ==
    ASSUME Init PROVE KeywordInv
<1>1. PICK o \in Objects :
        LET existing == {p \in Properties : OwnerOf[p] = o}
        IN /\ objects = [x \in Objects |-> IF x = o THEN "active" ELSE "absent"]
           /\ props = existing
           /\ Room(<<>>, Seeds({o}, existing, <<>>))
           /\ rows = InsertAll(<<>>, Seeds({o}, existing, <<>>))
  BY DEF Init
<1>2. /\ metrics = [m \in Metrics |-> [ot |-> None, mark |-> FALSE]]
      /\ intents = [n \in Intents |-> [ot |-> None, mark |-> FALSE]]
      /\ last = NoRequest
  BY DEF Init
<1> DEFINE existing == {p \in Properties : OwnerOf[p] = o}
           R == Seeds({o}, existing, <<>>)
<1>3. objects \in [Objects -> {"absent", "draft", "active"}] /\ Present(o)
  BY <1>1 DEF Present
<1>4. OntologyOK
  BY <1>1, <1>2, <1>3 DEF OntologyOK
<1>5. /\ \A r \in R : r \in Rows /\ Anchored(r) /\ r.av = {} /\ r.ot \in {o} /\ r.a \subseteq {o} \cup existing
      /\ \A r, s \in R : r # s => Apart(r, s)
  <2>1. {o} \in SUBSET Objects /\ existing \in SUBSET Properties /\ \A p \in existing : OwnerOf[p] \in {o}
    OBVIOUS
  <2> HIDE DEF existing
  <2> QED BY <2>1, SeedsOK
<1>6. \A a \in {o} \cup existing : Exists(a)
  BY <1>1, <1>3, ExistsIs
<1> HIDE DEF R, existing
<1>7. \A r \in R : RowOK(r)
  BY <1>3, <1>5, <1>6 DEF RowOK
<1>8. DOMAIN <<>> = {} /\ TableOK(<<>>)
  BY DEF TableOK
<1>9. Room(<<>>, R) /\ rows = InsertAll(<<>>, R)
  BY <1>1 DEF R, existing
<1>10. TableOK(rows)
  BY <1>5, <1>7, <1>8, <1>9, InsertedOK
<1> QED BY <1>2, <1>4, <1>10 DEF KeywordInv, EmbedInv, TriageInv, NoRequest

LEMMA RequestKeeps ==
    ASSUME KeywordInv, Request PROVE KeywordInv'
<1>1. CASE Triage
  BY <1>1, TriageAssignKeeps, TriageIgnoreKeeps DEF Triage
<1>2. CASE MetricRequest
  <2>1. PICK m \in Metrics :
          \/ \E i \in DOMAIN rows : DeleteTrigger(m, i)
          \/ DeleteMetric(m)
          \/ \E o \in Objects, mark \in BOOLEAN :
               \/ UpdateMetric(m, o, mark)
               \/ \E T \in TriggerSets : WriteMetricWithTriggers(m, o, mark, T)
                                         \/ UpdateMetricTriggers(m, o, mark, T)
    BY <1>2 DEF MetricRequest
  <2>2. \A T \in TriggerSets : T \in SUBSET Words
    BY DEF TriggerSets
  <2> QED BY <2>1, <2>2, DeleteTriggerKeeps, DeleteMetricKeeps, UpdateMetricKeeps, WriteMetricKeeps,
             UpdateMetricTriggersKeeps
<1>3. CASE IntentRequest
  <2>1. PICK n \in Intents :
          \/ \E o \in Objects : ProposeIntent(n, o)
          \/ DeleteIntent(n)
          \/ \E T \in TriggerSets : ActivateIntent(n, T)
          \/ \E add, del \in Words : UpdateIntent(n, {add}, {del})
    BY <1>3 DEF IntentRequest
  <2>2. (\A T \in TriggerSets : T \in SUBSET Words) /\ \A w \in Words : {w} \in SUBSET Words
    BY DEF TriggerSets
  <2> QED BY <2>1, <2>2, ProposeIntentKeeps, DeleteIntentKeeps, ActivateIntentKeeps, UpdateIntentKeeps
<1>4. CASE KeywordRequest
  <2>1. /\ \A x \in Properties \cup Intents : {x} \in SUBSET Anchors
        /\ \A p \in Properties, n \in Intents : {p, n} \in SUBSET Anchors
        /\ \A v \in Words, w \in Words : {v} \in SUBSET Words /\ {v, w} \in SUBSET Words
        /\ FALSE \in BOOLEAN /\ {} \in SUBSET Anchors
    BY DEF Anchors
  <2>2. CASE \E p \in Properties, w \in Words : AddColumnAlias(p, w) \/ RemoveColumnAlias(p, w)
                                                \/ SyncPropertyKeywords(p, {w})
    BY <2>1, <2>2, AddColumnAliasKeeps, RemoveColumnAliasKeeps, SyncPropertyKeywordsKeeps
  <2>3. CASE \E x \in Properties \cup Intents, w \in Words, col \in BOOLEAN :
               CreateKeyword(w, {x}, col) \/ \E v \in Words : BulkCreateKeyword(w, {x}, col, {v})
    BY <2>1, <2>3, CreateKeywordKeeps, BulkCreateKeywordKeeps
  <2>4. CASE \E p \in Properties, n \in Intents, w \in Words : CreateKeyword(w, {p, n}, FALSE)
    BY <2>1, <2>4, CreateKeywordKeeps
  <2>5. CASE \E i \in DOMAIN rows :
               \/ \E col, stop \in BOOLEAN : UpdateKeyword(i, col, stop)
               \/ \E column \in {Objects, Properties, Intents} :
                    Reanchor(i, column, {}) \/ \E x \in column : Reanchor(i, column, {x})
               \/ \E v, w \in Words : SetAliases(i, {v, w})
               \/ DeleteKeywords({i})
    <3>1. PICK i \in DOMAIN rows :
            \/ \E col, stop \in BOOLEAN : UpdateKeyword(i, col, stop)
            \/ \E column \in {Objects, Properties, Intents} :
                 Reanchor(i, column, {}) \/ \E x \in column : Reanchor(i, column, {x})
            \/ \E v, w \in Words : SetAliases(i, {v, w})
            \/ DeleteKeywords({i})
      BY <2>5
    <3>2. \A column \in {Objects, Properties, Intents} : \A x \in column : {x} \in SUBSET Anchors
      BY DEF Anchors
    <3> QED BY <2>1, <3>1, <3>2, UpdateKeywordKeeps, ReanchorKeeps, SetAliasesKeeps, DeleteKeywordsKeeps
  <2>6. CASE DeleteKeywords(DOMAIN rows)
    BY <2>6, DeleteKeywordsKeeps
  <2> QED BY <1>4, <2>2, <2>3, <2>4, <2>5, <2>6 DEF KeywordRequest
<1>5. CASE CollectVectorJobs
  BY <1>5, CollectVectorJobsKeeps
<1>6. CASE OntologyRequest
  <2>1. (\A o \in Objects : {o} \in SUBSET Objects) /\ {o \in Objects : Present(o)} \in SUBSET Objects
    OBVIOUS
  <2> QED BY <1>6, <2>1, PopulateOntologyKeeps, DeleteObjectsKeeps, MarkObjectKeeps,
             DeletePropertyKeeps DEF OntologyRequest
<1> QED BY <1>1, <1>2, <1>3, <1>4, <1>5, <1>6 DEF Request

LEMMA StutterKeeps ==
    ASSUME KeywordInv, UNCHANGED vars PROVE KeywordInv'
<1>1. /\ objects' = objects /\ props' = props /\ metrics' = metrics /\ intents' = intents
      /\ rows' = rows /\ jobs' = jobs /\ last' = last
  BY DEF vars
<1>2. \A x : Present(x)' <=> Present(x)
  BY <1>1 DEF Present
<1>3. \A a \in Anchors : Exists(a)' <=> Exists(a)
  BY <1>1, <1>2, ExistsIs, ExistsLater DEF Anchors
<1>4. OntologyOK'
  BY <1>1 DEF KeywordInv, OntologyOK, Present
<1>5. TableOK(rows)'
  BY <1>1, <1>2, <1>3, References, TableLater DEF KeywordInv
<1>6. EmbedInv'
  BY <1>1 DEF KeywordInv, EmbedInv
<1>7. TriageInv'
  BY <1>1 DEF KeywordInv, TriageInv, Binds, Ignores, Mentions
<1> QED BY <1>4, <1>5, <1>6, <1>7 DEF KeywordInv

\* The invariant behind the properties holds in every reachable state.
LEMMA KeywordInvariant == Spec => []KeywordInv
<1>1. Init => KeywordInv
  BY InitInv
<1>2. KeywordInv /\ [Next]_vars => KeywordInv'
  BY RequestKeeps, EmbedJobKeeps, StutterKeeps DEF Next, EmbedJob
<1> QED BY <1>1, <1>2, PTL DEF Spec

\* Under every sequence of requests the table keeps its references and constraints, every
\* alias vector spells a current alias, and an undisturbed embedding request embeds all
\* (the foreign keys and CHECKs of lakehouse_keyword, handle_keyword_vectors.go).
THEOREM TableStaysSound == Spec => []KeywordTableIsSound
<1>1. KeywordInv => KeywordTableIsSound
  <2> SUFFICES ASSUME KeywordInv PROVE KeywordTableIsSound
    OBVIOUS
  <2>1. \A i \in DOMAIN rows : RowOK(rows[i])
    BY DEF KeywordInv, TableOK
  <2>2. \A i \in DOMAIN rows : Conflicts(rows, rows[i]) \subseteq {i}
    BY DEF KeywordInv, TableOK, Apart, Conflicts
  <2>3. TypeOK
    BY <2>1, <2>2 DEF KeywordInv, OntologyOK, TableOK, RowOK, TypeOK
  <2>4. NoGhostAlias
    BY <2>1 DEF RowOK, NoGhostAlias
  <2>5. EmbeddingCovers
    BY DEF KeywordInv, EmbedInv, EmbeddingCovers
  <2> QED BY <2>3, <2>4, <2>5 DEF KeywordTableIsSound
<1> QED BY <1>1, KeywordInvariant, PTL

\* Right after a triage assignment the token is mentioned only by rows of the requested
\* anchors and recalls every requested active metric; after an ignore only the stopword row
\* mentions it (handleTriageAssign, recordAliasOnCanonical).
THEOREM TriageOwnsTheToken == Spec => []TriageReplaces
<1>1. KeywordInv => TriageReplaces
  <2> SUFFICES ASSUME KeywordInv PROVE TriageReplaces
    OBVIOUS
  <2> DEFINE token == last.token
  <2>1. last.op = "assign" => \A r \in TriageBindings(rows, token) : r.a \cap last.wants # {} /\ ~r.stop
    BY DEF KeywordInv, TriageInv, Binds, TriageBindings
  <2>2. last.op = "ignore" => /\ \A r \in TriageBindings(rows, token) : r.stop
                              /\ ClassifyTriageBadge(rows, token) = "ignored"
    <3> SUFFICES ASSUME last.op = "ignore"
                 PROVE  /\ \A r \in TriageBindings(rows, token) : r.stop
                        /\ \E r \in TriageBindings(rows, token) : r.stop
      BY DEF ClassifyTriageBadge
    <3> QED BY DEF KeywordInv, TriageInv, Ignores, TriageBindings
  <2>3. ASSUME last.op = "assign", NEW m \in last.wants \cap Metrics PROVE AssignedIsRecalled(m)
    <3> SUFFICES ASSUME objects[metrics[m].ot] = "active", ~SameText(NameOf[m], token)
                 PROVE  m \in Recalled(token)
      BY DEF AssignedIsRecalled
    <3>1. token \in Words /\ metrics[m].mark
      BY <2>3 DEF KeywordInv, TriageInv
    <3>2. PICK i \in DOMAIN rows : m \in rows[i].a /\ ~rows[i].stop /\ Mentions(rows[i], token)
      BY <2>3 DEF KeywordInv, TriageInv, Binds
    <3>3. rows[i].w \in Words /\ rows[i].al \in SUBSET Words
      BY DEF KeywordInv, TableOK, RowOK, Rows
    <3>4. \E v \in {rows[i].w} \cup rows[i].al : Squash[v] = Squash[token]
      BY <3>1, <3>2, <3>3, KeywordAssumption DEF Mentions, SameText
    <3> QED BY <3>1, <3>2, <3>4 DEF Recalled, RecalledMetrics
  <2> QED BY <2>1, <2>2, <2>3 DEF TriageReplaces
<1> QED BY <1>1, KeywordInvariant, PTL
=============================================================================
