------------------------- MODULE ThreadLedgerProofs -------------------------
(***************************************************************************)
(* Proofs about ThreadLedger for every number of concurrent turns, every   *)
(* ontology and every retry bound: the optimistic save of a lakehouse      *)
(* thread loses no stored entry, and a turn whose save succeeded has its   *)
(* new Ods stored.                                                         *)
(***************************************************************************)
EXTENDS ThreadLedger, FiniteSetTheorems, TLAPS

Entry == [turn : Nat, method : Methods]

Shape ==
    /\ row \in [agent : {"lakehouse", "builder"}, version : Nat,
               schema : {"current", "old"}, ledger : LedgerType]
    /\ IsFiniteSet(steps)
    /\ \A s \in steps : s.question \in Turns \cup Legacy
    /\ pc \in [Turns -> {"idle", "recalled", "loop", "save", "reload",
                         "done", "failed", "dropped"}]
    /\ mem \in [Turns -> LedgerType] /\ next \in [Turns -> LedgerType]
    /\ old \in [Turns -> Nat]
    /\ found \in [Turns -> [ods : SUBSET Ods, facts : SUBSET Facts]]

\* A turn's version is never ahead of the row's, and at version 0 nothing is
\* stored; a ledger of another schema is only ever seen as version 0.
VersionInv ==
    /\ row.version = 0 => IsEmpty(row.ledger) /\ row.schema = "current"
    /\ row.schema = "old" => \A t \in Turns : old[t] = 0
    /\ \A t \in Turns : old[t] <= row.version

\* While the row is at the version a turn read, the copy the turn would write
\* holds everything the row holds.
CopyInv ==
    \A t \in Turns : old[t] = row.version =>
        /\ pc[t] \in {"idle", "recalled", "loop"} => Keeps(row.ledger, mem[t])
        /\ pc[t] = "save" => Keeps(row.ledger, next[t])

\* The Ods a turn loaded anew carry its turn number, are in what it writes and,
\* once it has written, in the row.
StampInv ==
    \A t \in Turns :
        /\ pc[t] # "idle" => mem[t].turn > 0
        /\ \A o \in found[t].ods : /\ mem[t].ods[o].turn = mem[t].turn
                                   /\ mem[t].turn > 0
        /\ pc[t] = "save" => found[t].ods \subseteq Known(next[t])
        /\ pc[t] = "done" => found[t].ods \subseteq Known(row.ledger)

LedgerInv == Shape /\ VersionInv /\ CopyInv /\ StampInv

-----------------------------------------------------------------------------

\* ods2 has the turns of ods, and turn n for what of S was absent from ods.
Stamped(ods, ods2, S, n) ==
    \A o \in Ods : ods2[o].turn = IF o \in S /\ ods[o].turn = 0 THEN n ELSE ods[o].turn

\* The load methods are ordered.
LEMMA StrengthType == \A m \in Methods : Strength(m) \in Nat
  BY DEF Methods, Strength

\* A ledger keeps all of itself.
LEMMA KeepsItself == ASSUME NEW l \in LedgerType PROVE Keeps(l, l)
<1>1. \A o \in Ods : l.ods[o].method \in Methods
  BY DEF LedgerType
<1> QED BY <1>1, StrengthType DEF Keeps, Known

\* Keeping is transitive, and what is kept is known.
LEMMA KeepsChain ==
    ASSUME NEW l \in LedgerType, NEW k \in LedgerType, NEW m \in LedgerType,
           Keeps(l, k), Keeps(k, m)
    PROVE  Keeps(l, m) /\ Known(l) \subseteq Known(k)
<1>1. \A o \in Ods : /\ l.ods[o].method \in Methods /\ k.ods[o].method \in Methods
                     /\ m.ods[o].method \in Methods
  BY DEF LedgerType
<1>2. ASSUME NEW o \in Known(l)
      PROVE  /\ o \in Known(k) /\ m.ods[o].turn = l.ods[o].turn
             /\ Strength(l.ods[o].method) <= Strength(m.ods[o].method)
  <2>1. o \in Ods /\ o \in Known(k) BY DEF Keeps, Known
  <2>2. /\ Strength(l.ods[o].method) \in Nat /\ Strength(k.ods[o].method) \in Nat
        /\ Strength(m.ods[o].method) \in Nat
    BY <2>1, <1>1, StrengthType
  <2> QED BY <2>1, <2>2 DEF Keeps
<1>3. l.facts \subseteq m.facts BY DEF Keeps
<1> QED BY <1>2, <1>3 DEF Keeps

\* mergeOd keeps the turn stamp of an entry that exists, stamps a new one, and
\* never weakens a load method.
LEMMA MergeOdsFacts ==
    ASSUME NEW ods \in [Ods -> Entry], NEW S \in SUBSET Ods,
           NEW method \in Methods, NEW turn \in Nat
    PROVE  /\ MergeOds(ods, S, method, turn) \in [Ods -> Entry]
           /\ Stamped(ods, MergeOds(ods, S, method, turn), S, turn)
           /\ \A o \in Ods : ods[o].turn > 0 =>
                 Strength(ods[o].method) <= Strength(MergeOds(ods, S, method, turn)[o].method)
<1>0. ASSUME NEW o \in Ods, ods[o].turn > 0
      PROVE  Strength(ods[o].method) <= Strength(MergeOds(ods, S, method, turn)[o].method)
  <2>1. ods[o] \in Entry /\ ods[o].turn # 0 BY <1>0 DEF Entry
  <2>2. Strength(ods[o].method) \in Nat /\ Strength(method) \in Nat
    BY <2>1, StrengthType DEF Entry
  <2>3. [ods[o] EXCEPT !.method = method].method = method BY <2>1 DEF Entry
  <2>4. \/ MergeOds(ods, S, method, turn)[o] = ods[o]
        \/ /\ Strength(method) > Strength(ods[o].method)
           /\ MergeOds(ods, S, method, turn)[o] = [ods[o] EXCEPT !.method = method]
    BY <2>1 DEF MergeOds
  <2>5. CASE MergeOds(ods, S, method, turn)[o] = ods[o]
    <3>1. Strength(ods[o].method) <= Strength(ods[o].method) BY <2>2
    <3> QED BY <3>1, <2>5
  <2>6. CASE /\ Strength(method) > Strength(ods[o].method)
             /\ MergeOds(ods, S, method, turn)[o] = [ods[o] EXCEPT !.method = method]
    <3>1. MergeOds(ods, S, method, turn)[o].method = method BY <2>3, <2>6
    <3>2. Strength(ods[o].method) <= Strength(method) BY <2>2, <2>6
    <3> QED BY <3>1, <3>2
  <2> QED BY <2>4, <2>5, <2>6
<1>1. ASSUME NEW o \in Ods
      PROVE  /\ MergeOds(ods, S, method, turn)[o] \in Entry
             /\ MergeOds(ods, S, method, turn)[o].turn =
                  IF o \in S /\ ods[o].turn = 0 THEN turn ELSE ods[o].turn
  <2>1. ods[o] \in Entry OBVIOUS
  <2>2. [turn |-> turn, method |-> method] \in Entry BY DEF Entry
  <2>3. /\ [ods[o] EXCEPT !.method = method] \in Entry
        /\ [ods[o] EXCEPT !.method = method].turn = ods[o].turn
    BY <2>1 DEF Entry
  <2> QED BY <2>1, <2>2, <2>3 DEF MergeOds
<1>2. MergeOds(ods, S, method, turn) = [o \in Ods |-> MergeOds(ods, S, method, turn)[o]]
  BY DEF MergeOds
<1> QED BY <1>0, <1>1, <1>2 DEF Stamped

\* Merging a recall result only adds, and stamps what it adds.
LEMMA MergeRecallFacts ==
    ASSUME NEW l \in LedgerType, NEW S \in SUBSET Ods, NEW F \in SUBSET Facts,
           NEW turn \in Nat \ {0}
    PROVE  LET k == MergeRecallResult(l, S, F, turn) IN
           /\ k \in LedgerType
           /\ k.turn = l.turn
           /\ Keeps(l, k)
           /\ Stamped(l.ods, k.ods, S, turn)
<1> DEFINE k == MergeRecallResult(l, S, F, turn)
<1>1. l.ods \in [Ods -> Entry] /\ "recall" \in Methods
  BY DEF LedgerType, Entry, Methods
<1>2. k = [l EXCEPT !.ods = MergeOds(l.ods, S, "recall", turn), !.facts = l.facts \cup F]
  BY DEF MergeRecallResult
<1>3. /\ MergeOds(l.ods, S, "recall", turn) \in [Ods -> Entry]
      /\ Stamped(l.ods, MergeOds(l.ods, S, "recall", turn), S, turn)
      /\ \A o \in Ods : l.ods[o].turn > 0 =>
            Strength(l.ods[o].method) <= Strength(MergeOds(l.ods, S, "recall", turn)[o].method)
  BY <1>1, MergeOdsFacts
<1>4. /\ k.ods = MergeOds(l.ods, S, "recall", turn) /\ k.facts = l.facts \cup F
      /\ k.turn = l.turn /\ k \in LedgerType
  BY <1>2, <1>3 DEF LedgerType, Entry
<1>5. \A o \in Ods : l.ods[o].turn \in Nat
  BY <1>1 DEF Entry
<1>6. Keeps(l, k)
  BY <1>3, <1>4, <1>5 DEF Keeps, Known, Stamped
<1> QED BY <1>3, <1>4, <1>6

\* A lookup only adds its Od.
LEMMA MergeLookupFacts ==
    ASSUME NEW l \in LedgerType, NEW S \in SUBSET Ods, NEW turn \in Nat \ {0}
    PROVE  LET k == MergeLookupOd(l, S, turn) IN
           /\ k \in LedgerType
           /\ k.turn = l.turn /\ k.facts = l.facts
           /\ Keeps(l, k)
           /\ Stamped(l.ods, k.ods, S, turn)
<1> DEFINE k == MergeLookupOd(l, S, turn)
<1>1. l.ods \in [Ods -> Entry] /\ "lookup" \in Methods
  BY DEF LedgerType, Entry, Methods
<1>2. k = [l EXCEPT !.ods = MergeOds(l.ods, S, "lookup", turn)]
  BY DEF MergeLookupOd
<1>3. /\ MergeOds(l.ods, S, "lookup", turn) \in [Ods -> Entry]
      /\ Stamped(l.ods, MergeOds(l.ods, S, "lookup", turn), S, turn)
      /\ \A o \in Ods : l.ods[o].turn > 0 =>
            Strength(l.ods[o].method) <= Strength(MergeOds(l.ods, S, "lookup", turn)[o].method)
  BY <1>1, MergeOdsFacts
<1>4. /\ k.ods = MergeOds(l.ods, S, "lookup", turn) /\ k.facts = l.facts
      /\ k.turn = l.turn /\ k \in LedgerType
  BY <1>2, <1>3 DEF LedgerType, Entry
<1>5. \A o \in Ods : l.ods[o].turn \in Nat
  BY <1>1 DEF Entry
<1>6. Keeps(l, k)
  BY <1>3, <1>4, <1>5 DEF Keeps, Known, Stamped
<1> QED BY <1>3, <1>4, <1>6

\* The reapply closure keeps all of the fresh ledger and adds every Od whose
\* stamp is the turn's number.
LEMMA ReapplyFacts ==
    ASSUME NEW l \in LedgerType, NEW fresh \in LedgerType
    PROVE  LET k == Reapply(l, fresh) IN
           /\ k \in LedgerType
           /\ Keeps(fresh, k)
           /\ \A o \in Known(l) : l.ods[o].turn = l.turn => o \in Known(k)
<1> DEFINE S == {o \in Known(l) : l.ods[o].turn = l.turn}
           m == MergeOds(fresh.ods, S, "lookup", l.turn)
           k == Reapply(l, fresh)
<1>1. /\ fresh.ods \in [Ods -> Entry] /\ l.ods \in [Ods -> Entry]
      /\ "lookup" \in Methods /\ l.turn \in Nat /\ S \in SUBSET Ods
  BY DEF LedgerType, Entry, Methods, Known
<1>2. /\ m \in [Ods -> Entry]
      /\ Stamped(fresh.ods, m, S, l.turn)
      /\ \A o \in Ods : fresh.ods[o].turn > 0 =>
            Strength(fresh.ods[o].method) <= Strength(m[o].method)
  <2> HIDE DEF S
  <2> QED BY <1>1, MergeOdsFacts
<1>3. k = [fresh EXCEPT !.ods = m, !.turn = fresh.turn + 1]
  BY DEF Reapply
<1>4. k.ods = m /\ k.facts = fresh.facts /\ k \in LedgerType
  <2> HIDE DEF m, k
  <2>1. fresh = [turn |-> fresh.turn, rebuilt |-> fresh.rebuilt,
                 ods |-> fresh.ods, facts |-> fresh.facts]
    BY DEF LedgerType
  <2>2. k = [turn |-> fresh.turn + 1, rebuilt |-> fresh.rebuilt,
             ods |-> m, facts |-> fresh.facts]
    BY <1>3, <2>1
  <2>3. /\ fresh.turn + 1 \in Nat /\ fresh.rebuilt \in BOOLEAN /\ fresh.facts \in SUBSET Facts
        /\ m \in [Ods -> [turn : Nat, method : Methods]]
    BY <1>2 DEF LedgerType, Entry
  <2> QED BY <2>2, <2>3 DEF LedgerType
<1>5. \A o \in Ods : fresh.ods[o].turn \in Nat /\ l.ods[o].turn \in Nat
  BY <1>1 DEF Entry
<1>6. Keeps(fresh, k)
  <2> HIDE DEF m, k
  <2>1. \A o \in Ods : fresh.ods[o].turn > 0 =>
           /\ k.ods[o].turn = fresh.ods[o].turn
           /\ Strength(fresh.ods[o].method) <= Strength(k.ods[o].method)
    BY <1>2, <1>4, <1>5 DEF Stamped
  <2> QED BY <2>1, <1>4 DEF Keeps, Known
<1>7. ASSUME NEW o \in Known(l), l.ods[o].turn = l.turn PROVE o \in Known(k)
  <2>1. o \in Ods /\ o \in S /\ l.turn > 0
    BY <1>7 DEF Known
  <2>2. m[o].turn > 0
    <3> HIDE DEF m, S
    <3> QED BY <1>2, <1>5, <2>1 DEF Stamped
  <2> QED BY <2>1, <2>2, <1>4 DEF Known
<1> QED BY <1>4, <1>6, <1>7

-----------------------------------------------------------------------------

\* The empty ledger of New() is well formed and knows nothing.
LEMMA NewType == New \in LedgerType /\ Known(New) = {} /\ New.facts = {}
  BY DEF New, Absent, LedgerType, Methods, Known

\* What a turn continues with after Load: well formed, and, if the row is at
\* the version it will compare, nothing the row holds is missing.
LEMMA LoadFacts ==
    ASSUME Shape, VersionInv, NEW ld \in Loads
    PROVE  /\ ld.ledger \in LedgerType /\ ld.version \in Nat
           /\ ld.version <= row.version
           /\ row.schema = "old" => ld.version = 0
           /\ ld.version = row.version => Keeps(row.ledger, ld.ledger)
<1>1. Load \in LedgerType /\ LoadVersion \in Nat /\ LoadVersion <= row.version
  <2>1. row.ledger \in LedgerType /\ row.ledger.turn \in Nat /\ row.version \in Nat
    BY DEF Shape, LedgerType
  <2>2. [New EXCEPT !.turn = row.ledger.turn] \in LedgerType
    BY <2>1, NewType DEF LedgerType
  <2> QED BY <2>1, <2>2 DEF Load, LoadVersion
<1>2. LoadVersion = row.version => Load = row.ledger
  BY DEF Load, LoadVersion, VersionInv, Shape
<1>3. row.version = 0 => Keeps(row.ledger, New)
  BY NewType DEF VersionInv, Keeps, IsEmpty
<1>4. Keeps(row.ledger, row.ledger)
  BY KeepsItself DEF Shape
<1>5. row.schema = "old" => LoadVersion = 0
  BY DEF LoadVersion
<1>6. CASE ld = [ledger |-> Load, version |-> LoadVersion]
  BY <1>1, <1>2, <1>4, <1>5, <1>6
<1>7. CASE ld = [ledger |-> New, version |-> 0]
  BY <1>3, <1>7, NewType DEF Shape
<1> QED BY <1>6, <1>7 DEF Loads

\* A rebuild is well formed and only happens to an empty ledger.
LEMMA RebuiltFacts ==
    ASSUME Shape, NEW k \in LedgerType, NEW l \in Rebuilt(k)
    PROVE  l \in LedgerType /\ Keeps(k, l)
<1>1. CASE l = k
  BY <1>1, KeepsItself
<1>2. CASE l # k
  <2>0. NeedsRebuild(k)
    BY <1>2 DEF Rebuilt
  <2>1. PICK f \in FirstSeen : l = Rebuild(k, f)
    BY <1>2 DEF Rebuilt
  <2>2. Cardinality(steps) \in Nat
    BY FS_CardinalityType DEF Shape
  <2>3. f \in [Ods -> Nat]
    <3>1. f \in [Ods -> 0..Cardinality(steps)] BY DEF FirstSeen
    <3> QED BY <3>1, <2>2
  <2>4. UNION {RecallFacts[s.question] : s \in steps} \subseteq Facts
    BY LedgerAssumption DEF Shape
  <2>5. [o \in Ods |-> IF f[o] = 0 THEN k.ods[o] ELSE [turn |-> f[o], method |-> "recall"]]
          \in [Ods -> [turn : Nat, method : Methods]]
    BY <2>3 DEF LedgerType, Methods
  <2>6. l \in LedgerType
    BY <2>1, <2>2, <2>4, <2>5 DEF Rebuild, LedgerType
  <2>7. Keeps(k, l)
    <3>1. Known(k) = {} /\ k.facts = {} BY <2>0 DEF NeedsRebuild, IsEmpty
    <3> QED BY <3>1 DEF Keeps
  <2> QED BY <2>6, <2>7
<1> QED BY <1>1, <1>2

-----------------------------------------------------------------------------

\* The invariant holds before the first turn, also on a legacy thread.
LEMMA InitLedgerInv == Init => LedgerInv
<1> SUFFICES ASSUME Init PROVE LedgerInv
  OBVIOUS
<1>1. Started(New) \in LedgerType
  BY NewType DEF Started, LedgerType
<1> USE NewType DEF Init
<1>2. IsFiniteSet(steps) /\ \A s \in steps : s.question \in Turns \cup Legacy
  <2>1. PICK n \in [Legacy -> 1..Cardinality(Legacy)] :
          steps = {[question |-> q, idx |-> n[q]] : q \in Legacy}
    OBVIOUS
  <2> DEFINE f == [q \in Legacy |-> [question |-> q, idx |-> n[q]]]
  <2>2. f \in Surjection(Legacy, steps)
    BY <2>1 DEF Surjection
  <2>3. IsFiniteSet(steps)
    BY <2>2, FS_Surjection, LedgerAssumption
  <2> QED BY <2>1, <2>3
<1>r. PICK a \in Agents, sc \in Schemas :
        row = IF sc = "old"
              THEN [agent |-> a, version |-> 1, schema |-> "old", ledger |-> Started(New)]
              ELSE [agent |-> a, version |-> 0, schema |-> "current", ledger |-> New]
  OBVIOUS
<1>3. row \in [agent : {"lakehouse", "builder"}, version : Nat,
               schema : {"current", "old"}, ledger : LedgerType]
  BY <1>1, <1>r, LedgerAssumption
<1>4. Shape
  BY <1>2, <1>3 DEF Shape
<1>5. VersionInv
  BY <1>r DEF VersionInv, IsEmpty
<1>6. CopyInv
  BY <1>r DEF CopyInv, Keeps
<1>7. StampInv
  BY DEF StampInv
<1> QED BY <1>4, <1>5, <1>6, <1>7 DEF LedgerInv

-----------------------------------------------------------------------------
\* The steps that change no ledger: only pc, the user rows or an index move.
LEMMA QuietStep ==
    ASSUME LedgerInv, UNCHANGED <<row, mem, next, old, found>>,
           NEW t \in Turns, NEW p \in {"loop", "failed", "reload", "dropped"},
           pc[t] # "idle", p = "loop" => pc[t] = "recalled",
           pc' = [pc EXCEPT ![t] = p],
           IsFiniteSet(steps'), \A s \in steps' : s.question \in Turns \cup Legacy
    PROVE  LedgerInv'
<1> USE DEF LedgerInv
<1>1. Shape' BY DEF Shape
<1>2. VersionInv' BY DEF VersionInv, IsEmpty, Known
<1>3. CopyInv' BY DEF CopyInv, Keeps, Known, Shape
<1>4. StampInv' BY DEF StampInv, Known, Shape
<1> QED BY <1>1, <1>2, <1>3, <1>4

\* A step that only enlarges one turn's private copy, stamping what is new.
LEMMA CopyGrows ==
    ASSUME LedgerInv, UNCHANGED <<row, steps, next, old, pc>>,
           NEW t \in Turns, NEW l \in LedgerType, pc[t] = "loop",
           Keeps(mem[t], l), l.turn = mem[t].turn, l.turn > 0,
           \A o \in Known(mem[t]) : l.ods[o].turn = mem[t].ods[o].turn,
           NEW fo \in SUBSET Ods, NEW ff \in SUBSET Facts,
           \A o \in fo : l.ods[o].turn = l.turn,
           mem' = [mem EXCEPT ![t] = l],
           found' = [found EXCEPT ![t] = [ods |-> fo, facts |-> ff]]
    PROVE  LedgerInv'
<1> USE DEF LedgerInv
<1>1. Shape' BY DEF Shape
<1>2. VersionInv' BY DEF VersionInv, IsEmpty, Known
<1>3. CopyInv'
  <2>1. ASSUME NEW u \in Turns, old[u] = row.version, pc[u] \in {"idle", "recalled", "loop"}
        PROVE  Keeps(row.ledger, mem'[u])
    <3>1. Keeps(row.ledger, mem[u]) BY <2>1 DEF CopyInv
    <3>2. row.ledger \in LedgerType /\ mem[t] \in LedgerType BY DEF Shape
    <3>3. u = t => Keeps(row.ledger, l) BY <3>1, <3>2, KeepsChain
    <3>4. mem'[u] = IF u = t THEN l ELSE mem[u] BY DEF Shape
    <3> QED BY <3>1, <3>3, <3>4
  <2> QED BY <2>1 DEF CopyInv, Keeps, Known
<1>4. StampInv'
  BY DEF StampInv, Known, Shape
<1> QED BY <1>1, <1>2, <1>3, <1>4

\* Load, rebuild, recall: the copy covers the row it was read from.
LEMMA BeginTurnInv ==
    ASSUME LedgerInv, NEW t \in Turns, BeginTurn(t)
    PROVE  LedgerInv'
<1> USE DEF LedgerInv
<1>0. PICK ld \in Loads :
        /\ \E l \in Rebuilt(ld.ledger) :
             /\ mem' = [mem EXCEPT ![t] =
                  MergeRecallResult(Started(l), RecallOds[t], RecallFacts[t], l.turn + 1)]
             /\ found' = [found EXCEPT ![t] = [ods   |-> RecallOds[t] \ Known(l),
                                              facts |-> RecallFacts[t] \ l.facts]]
        /\ old' = [old EXCEPT ![t] = ld.version]
  BY DEF BeginTurn
<1>1. PICK l \in Rebuilt(ld.ledger) :
        /\ mem' = [mem EXCEPT ![t] =
             MergeRecallResult(Started(l), RecallOds[t], RecallFacts[t], l.turn + 1)]
        /\ found' = [found EXCEPT ![t] = [ods   |-> RecallOds[t] \ Known(l),
                                         facts |-> RecallFacts[t] \ l.facts]]
        /\ old' = [old EXCEPT ![t] = ld.version]
  BY <1>0
<1> DEFINE k == MergeRecallResult(Started(l), RecallOds[t], RecallFacts[t], l.turn + 1)
<1>2. /\ ld.ledger \in LedgerType /\ ld.version \in Nat /\ ld.version <= row.version
      /\ row.schema = "old" => ld.version = 0
      /\ ld.version = row.version => Keeps(row.ledger, ld.ledger)
  BY LoadFacts
<1>3. l \in LedgerType /\ Keeps(ld.ledger, l)
  BY <1>2, RebuiltFacts
<1>4. /\ Started(l) \in LedgerType /\ Started(l).turn = l.turn + 1
      /\ Started(l).ods = l.ods /\ Started(l).facts = l.facts
      /\ l.turn + 1 \in Nat \ {0}
  BY <1>3 DEF Started, LedgerType
<1>5. /\ RecallOds[t] \in SUBSET Ods /\ RecallFacts[t] \in SUBSET Facts
  BY LedgerAssumption
<1>6. /\ k \in LedgerType /\ k.turn = l.turn + 1
      /\ Keeps(Started(l), k)
      /\ Stamped(l.ods, k.ods, RecallOds[t], l.turn + 1)
  <2> DEFINE s == Started(l)  n == l.turn + 1
             S == RecallOds[t]  F == RecallFacts[t]
             m == MergeRecallResult(s, S, F, n)
  <2>1. s \in LedgerType /\ n \in Nat \ {0} /\ S \in SUBSET Ods /\ F \in SUBSET Facts
    BY <1>4, <1>5
  <2> HIDE DEF s, n, S, F
  <2>2. /\ m \in LedgerType /\ m.turn = s.turn /\ Keeps(s, m)
        /\ Stamped(s.ods, m.ods, S, n)
    BY <2>1, MergeRecallFacts
  <2>3. k = m BY DEF s, n, S, F
  <2> HIDE DEF m, k
  <2> QED BY <1>4, <2>2, <2>3 DEF s, n, S
<1>7. Keeps(l, k)
  BY <1>4, <1>6 DEF Keeps, Known
<1>8. \A o \in RecallOds[t] \ Known(l) : k.ods[o].turn = k.turn
  <2>1. \A o \in Ods : l.ods[o].turn \in Nat BY <1>3 DEF LedgerType
  <2> QED BY <1>5, <1>6, <2>1 DEF Known, Stamped
<1> HIDE DEF k
<1>9. mem' = [mem EXCEPT ![t] = k] BY <1>1 DEF k
<1>10. /\ pc[t] = "idle" /\ pc' = [pc EXCEPT ![t] = "recalled"]
       /\ UNCHANGED <<row, steps, next>>
  BY DEF BeginTurn
<1>11. Shape' BY <1>1, <1>2, <1>5, <1>6, <1>9, <1>10 DEF Shape
<1>12. VersionInv' BY <1>1, <1>2, <1>10 DEF VersionInv, IsEmpty, Known, Shape
<1>13. CopyInv'
  <2>1. ld.version = row.version => Keeps(row.ledger, k)
    <3>1. row.ledger \in LedgerType BY DEF Shape
    <3>2. Keeps(ld.ledger, k) BY <1>2, <1>3, <1>6, <1>7, KeepsChain
    <3> QED BY <1>2, <1>6, <3>1, <3>2, KeepsChain
  <2> QED BY <2>1, <1>1, <1>9, <1>10 DEF CopyInv, Keeps, Known, Shape
<1>14. StampInv'
  <2>1. k.turn > 0 BY <1>4, <1>6
  <2> QED BY <2>1, <1>1, <1>6, <1>8, <1>9, <1>10 DEF StampInv, Known, Shape
<1> QED BY <1>11, <1>12, <1>13, <1>14

\* The lookup tool stamps the Od it adds with the turn.
LEMMA LookupInv ==
    ASSUME LedgerInv, NEW t \in Turns, NEW o \in Ods, LookupOd(t, o)
    PROVE  LedgerInv'
<1> DEFINE l == MergeLookupOd(mem[t], {o}, mem[t].turn)
           fo == found[t].ods \cup {o}
<1>1. mem[t] \in LedgerType /\ mem[t].turn \in Nat \ {0} /\ pc[t] = "loop"
  <2>1. pc[t] = "loop" BY DEF LookupOd
  <2>2. mem[t] \in LedgerType BY DEF LedgerInv, Shape
  <2>3. mem[t].turn > 0 BY <2>1 DEF LedgerInv, StampInv
  <2>4. mem[t].turn \in Nat BY <2>2 DEF LedgerType
  <2> QED BY <2>1, <2>2, <2>3, <2>4
<1>2. /\ l \in LedgerType /\ l.turn = mem[t].turn /\ Keeps(mem[t], l)
      /\ Stamped(mem[t].ods, l.ods, {o}, mem[t].turn)
  BY <1>1, MergeLookupFacts
<1>3. /\ \A u \in Ods : mem[t].ods[u].turn \in Nat
      /\ mem[t].ods[o].turn = 0
  BY <1>1 DEF LedgerType, LookupOd, Known
<1>4. \A u \in Known(mem[t]) : l.ods[u].turn = mem[t].ods[u].turn
  BY <1>2, <1>3 DEF Known, Stamped
<1>5. fo \in SUBSET Ods /\ found[t].facts \in SUBSET Facts
  BY DEF LedgerInv, Shape
<1>6. \A u \in fo : l.ods[u].turn = l.turn
  <2>1. \A u \in found[t].ods : mem[t].ods[u].turn = mem[t].turn
    BY DEF LedgerInv, StampInv
  <2> QED BY <1>1, <1>2, <1>3, <1>5, <2>1 DEF Stamped
<1> HIDE DEF l, fo
<1>7. mem' = [mem EXCEPT ![t] = l] BY DEF LookupOd, l
<1>8. found' = [found EXCEPT ![t] = [ods |-> fo, facts |-> found[t].facts]]
  <2>1. found' = [found EXCEPT ![t] = [found[t] EXCEPT !.ods = fo]]
    BY DEF LookupOd, fo
  <2>2. found[t] \in [ods : SUBSET Ods, facts : SUBSET Facts]
    BY DEF LedgerInv, Shape
  <2>3. [found[t] EXCEPT !.ods = fo] = [ods |-> fo, facts |-> found[t].facts]
    BY <2>2
  <2> QED BY <2>1, <2>3
<1>9. UNCHANGED <<row, steps, next, old, pc>> BY DEF LookupOd
<1>10. l.turn > 0 BY <1>1, <1>2
<1> QED BY <1>1, <1>2, <1>4, <1>5, <1>6, <1>7, <1>8, <1>9, <1>10, CopyGrows

\* So does a keyword lookup, for whatever Od its recall brings.
LEMMA KeywordLookupInv ==
    ASSUME LedgerInv, NEW t \in Turns, NEW f \in Facts, KeywordLookup(t, f)
    PROVE  LedgerInv'
<1>1. PICK S \in SUBSET Ods :
        /\ mem' = [mem EXCEPT ![t] = MergeRecallResult(mem[t], S, {f}, mem[t].turn)]
        /\ found' = [found EXCEPT ![t] = [ods   |-> found[t].ods \cup (S \ Known(mem[t])),
                                         facts |-> found[t].facts \cup {f}]]
  BY DEF KeywordLookup
<1> DEFINE l == MergeRecallResult(mem[t], S, {f}, mem[t].turn)
           fo == found[t].ods \cup (S \ Known(mem[t]))
           ff == found[t].facts \cup {f}
<1>2. mem[t] \in LedgerType /\ mem[t].turn \in Nat \ {0} /\ pc[t] = "loop"
  <2>1. pc[t] = "loop" BY DEF KeywordLookup
  <2>2. mem[t] \in LedgerType BY DEF LedgerInv, Shape
  <2>3. mem[t].turn > 0 BY <2>1 DEF LedgerInv, StampInv
  <2>4. mem[t].turn \in Nat BY <2>2 DEF LedgerType
  <2> QED BY <2>1, <2>2, <2>3, <2>4
<1>3. /\ l \in LedgerType /\ l.turn = mem[t].turn /\ Keeps(mem[t], l)
      /\ Stamped(mem[t].ods, l.ods, S, mem[t].turn)
  <2> DEFINE F == {f}  k == mem[t]  n == mem[t].turn
             m == MergeRecallResult(k, S, F, n)
  <2>1. k \in LedgerType /\ F \in SUBSET Facts /\ n \in Nat \ {0} /\ l = m
    BY <1>2
  <2> HIDE DEF F, k, n, l
  <2>2. /\ m \in LedgerType /\ m.turn = k.turn /\ Keeps(k, m)
        /\ Stamped(k.ods, m.ods, S, n)
    BY <2>1, MergeRecallFacts
  <2> HIDE DEF m
  <2> QED BY <2>1, <2>2 DEF k, n
<1>4. \A u \in Ods : mem[t].ods[u].turn \in Nat
  BY <1>2 DEF LedgerType
<1>5. \A u \in Known(mem[t]) : l.ods[u].turn = mem[t].ods[u].turn
  <2> HIDE DEF l
  <2> QED BY <1>3, <1>4 DEF Known, Stamped
<1>6. fo \in SUBSET Ods /\ ff \in SUBSET Facts
  BY DEF LedgerInv, Shape
<1>7. \A u \in fo : l.ods[u].turn = l.turn
  <2>1. \A u \in found[t].ods : mem[t].ods[u].turn = mem[t].turn
    BY DEF LedgerInv, StampInv
  <2>2. \A u \in S \ Known(mem[t]) : mem[t].ods[u].turn = 0
    BY <1>4 DEF Known
  <2> QED BY <1>2, <1>3, <1>6, <2>1, <2>2 DEF Stamped
<1> HIDE DEF l, fo, ff
<1>8. mem' = [mem EXCEPT ![t] = l] BY <1>1 DEF l
<1>9. found' = [found EXCEPT ![t] = [ods |-> fo, facts |-> ff]] BY <1>1 DEF fo, ff
<1>10. UNCHANGED <<row, steps, next, old, pc>> BY DEF KeywordLookup
<1>11. l.turn > 0 BY <1>2, <1>3
<1> QED BY <1>2, <1>3, <1>5, <1>6, <1>7, <1>8, <1>9, <1>10, <1>11, CopyGrows

\* What SaveWithRetry writes first is the turn's own copy.
LEMMA EndLoopInv ==
    ASSUME LedgerInv, NEW t \in Turns, EndLoop(t)
    PROVE  LedgerInv'
<1> USE DEF LedgerInv, EndLoop
<1>1. Shape' BY DEF Shape
<1>2. VersionInv' BY DEF VersionInv, IsEmpty, Known
<1>3. CopyInv' BY DEF CopyInv, Keeps, Known, Shape
<1>4. StampInv'
  <2>1. found[t].ods \subseteq Known(mem[t])
    BY DEF StampInv, Known, Shape
  <2> QED BY <2>1 DEF StampInv, Known, Shape
<1> QED BY <1>1, <1>2, <1>3, <1>4

\* A write at the version the turn read: the row only grows, every other
\* turn is now behind it.
LEMMA SaveOkInv ==
    ASSUME LedgerInv, NEW t \in Turns, SaveOk(t)
    PROVE  LedgerInv' /\ Keeps(row.ledger, row'.ledger)
<1> USE DEF LedgerInv
<1>1. /\ row.version = old[t] /\ pc[t] = "save"
      /\ row' = [agent |-> row.agent, version |-> row.version + 1,
                 schema |-> "current", ledger |-> next[t]]
      /\ pc' = [pc EXCEPT ![t] = "done"]
      /\ UNCHANGED <<steps, mem, next, old, found>>
  BY DEF SaveOk, VersionMatches
<1>2. Keeps(row.ledger, next[t])
  BY <1>1 DEF CopyInv
<1>3. Shape' BY <1>1 DEF Shape
<1>4. VersionInv' BY <1>1 DEF VersionInv, Shape
<1>5. CopyInv'
  <2>1. \A u \in Turns : old'[u] # row'.version
    BY <1>1 DEF VersionInv, Shape
  <2> QED BY <2>1 DEF CopyInv
<1>6. StampInv' BY <1>1, <1>2 DEF StampInv, Keeps, Known, Shape
<1> QED BY <1>1, <1>2, <1>3, <1>4, <1>5, <1>6

\* The reload keeps everything the fresh row holds.
LEMMA ReloadInv ==
    ASSUME LedgerInv, ~Builder, NEW t \in Turns, Reload(t)
    PROVE  LedgerInv'
<1> USE DEF LedgerInv
<1> DEFINE k == Reapply(mem[t], Load)
<1>1. [ledger |-> Load, version |-> LoadVersion] \in Loads
  BY DEF Loads
<1>2. /\ Load \in LedgerType /\ LoadVersion \in Nat /\ LoadVersion <= row.version
      /\ row.schema = "old" => LoadVersion = 0
      /\ LoadVersion = row.version => Keeps(row.ledger, Load)
  BY <1>1, LoadFacts
<1>3. mem[t] \in LedgerType BY DEF Shape
<1>4. /\ k \in LedgerType /\ Keeps(Load, k)
      /\ \A o \in Known(mem[t]) : mem[t].ods[o].turn = mem[t].turn => o \in Known(k)
  BY <1>2, <1>3, ReapplyFacts
<1>5. /\ pc[t] = "reload" /\ pc' = [pc EXCEPT ![t] = "save"]
      /\ next' = [next EXCEPT ![t] = k] /\ old' = [old EXCEPT ![t] = LoadVersion]
      /\ UNCHANGED <<row, steps, mem, found>>
  BY DEF Reload, Reapplied
<1> HIDE DEF k
<1>6. Shape' BY <1>2, <1>4, <1>5 DEF Shape
<1>7. VersionInv' BY <1>2, <1>5 DEF VersionInv, IsEmpty, Known, Shape
<1>8. CopyInv'
  <2>1. LoadVersion = row.version => Keeps(row.ledger, k)
    <3>1. row.ledger \in LedgerType BY DEF Shape
    <3> QED BY <1>2, <1>4, <3>1, KeepsChain
  <2> QED BY <2>1, <1>5 DEF CopyInv, Keeps, Known, Shape
<1>9. StampInv'
  <2>1. found[t].ods \subseteq Known(mem[t])
    BY <1>5 DEF StampInv, Known, Shape
  <2>2. found[t].ods \subseteq Known(k)
    BY <1>4, <2>1 DEF StampInv
  <2> QED BY <2>2, <1>5 DEF StampInv, Known, Shape
<1> QED BY <1>6, <1>7, <1>8, <1>9

\* Every step keeps the invariant, and no step shrinks the row.
LEMMA NextLedgerInv ==
    ASSUME LedgerInv, ~Builder, [Next]_vars
    PROVE  LedgerInv' /\ Keeps(row.ledger, row'.ledger)
<1> DEFINE Goal == LedgerInv' /\ Keeps(row.ledger, row'.ledger)
<1>0. ASSUME UNCHANGED row PROVE Keeps(row.ledger, row'.ledger)
  <2>1. row.ledger \in LedgerType BY DEF LedgerInv, Shape
  <2> QED BY <1>0, <2>1, KeepsItself
<1>1. ASSUME NEW t \in Turns, BeginTurn(t) PROVE Goal
  BY <1>0, <1>1, BeginTurnInv DEF BeginTurn
<1>2. ASSUME NEW t \in Turns, BeginBuilderTurn(t) PROVE Goal
  BY <1>2 DEF BeginBuilderTurn
<1>3. ASSUME NEW t \in Turns, SaveUserStep(t) PROVE Goal
  <2>1. IsFiniteSet(steps') /\ \A s \in steps' : s.question \in Turns \cup Legacy
    <3>1. \/ steps' = steps \cup {[question |-> t, idx |-> idx[t]]}
          \/ steps' = steps
      BY <1>3 DEF SaveUserStep
    <3>2. IsFiniteSet(steps) /\ \A s \in steps : s.question \in Turns \cup Legacy
      BY DEF LedgerInv, Shape
    <3>3. IsFiniteSet(steps') BY <3>1, <3>2, FS_AddElement
    <3> QED BY <3>1, <3>2, <3>3
  <2>2. LedgerInv'
    BY <1>3, <2>1, QuietStep DEF SaveUserStep
  <2> QED BY <1>0, <1>3, <2>2 DEF SaveUserStep
<1>4. ASSUME NEW t \in Turns, EndLoop(t) PROVE Goal
  BY <1>0, <1>4, EndLoopInv DEF EndLoop
<1>5. IsFiniteSet(steps) /\ \A s \in steps : s.question \in Turns \cup Legacy
  BY DEF LedgerInv, Shape
<1>6. ASSUME NEW t \in Turns, LLMFails(t) PROVE Goal
  <2>1. LedgerInv' BY <1>5, <1>6, QuietStep DEF LLMFails
  <2> QED BY <1>0, <1>6, <2>1 DEF LLMFails
<1>7. ASSUME NEW t \in Turns, SaveOk(t) PROVE Goal
  BY <1>7, SaveOkInv
<1>8. ASSUME NEW t \in Turns, SaveConflict(t) PROVE Goal
  <2> DEFINE p == IF tries[t] < MaxRetries THEN "reload" ELSE "dropped"
  <2>1. p \in {"loop", "failed", "reload", "dropped"} /\ p # "loop" OBVIOUS
  <2>2. pc' = [pc EXCEPT ![t] = p] /\ pc[t] # "idle" BY <1>8 DEF SaveConflict
  <2>3. UNCHANGED <<row, mem, next, old, found, steps>> BY <1>8 DEF SaveConflict
  <2> HIDE DEF p
  <2>4. LedgerInv' BY <1>5, <2>1, <2>2, <2>3, QuietStep
  <2> QED BY <1>0, <2>3, <2>4
<1>9. ASSUME NEW t \in Turns, Reload(t) PROVE Goal
  BY <1>0, <1>9, ReloadInv DEF Reload
<1>10. ASSUME NEW t \in Turns, SaveFails(t) PROVE Goal
  <2>1. LedgerInv' BY <1>5, <1>10, QuietStep DEF SaveFails
  <2> QED BY <1>0, <1>10, <2>1 DEF SaveFails
<1>11. ASSUME NEW t \in Turns, NEW o \in Ods, LookupOd(t, o) PROVE Goal
  BY <1>0, <1>11, LookupInv DEF LookupOd
<1>12. ASSUME NEW t \in Turns, NEW f \in Facts, KeywordLookup(t, f) PROVE Goal
  BY <1>0, <1>12, KeywordLookupInv DEF KeywordLookup
<1>13. ASSUME UNCHANGED vars PROVE Goal
  <2>1. LedgerInv'
    BY <1>13 DEF LedgerInv, Shape, VersionInv, CopyInv, StampInv, vars,
                 IsEmpty, Known, Keeps
  <2> QED BY <1>0, <1>13, <2>1 DEF vars
<1>14. ASSUME NEW t \in Turns, ReadStepIndex(t) PROVE Goal
  <2>1. UNCHANGED <<row, steps, pc, mem, next, old, found>>
    BY <1>14 DEF ReadStepIndex
  <2>2. LedgerInv'
    BY <2>1 DEF LedgerInv, Shape, VersionInv, CopyInv, StampInv, IsEmpty, Known, Keeps
  <2> QED BY <1>0, <2>1, <2>2
<1> QED
  BY <1>14, <1>1, <1>2, <1>3, <1>4, <1>6, <1>7, <1>8, <1>9, <1>10, <1>11, <1>12, <1>13
     DEF Next, TurnStep, Finished

\* A thread stays the thread of its agent.
LEMMA AgentKept == ASSUME [Next]_vars PROVE Builder' = Builder
<1>1. ASSUME UNCHANGED row PROVE Builder' = Builder
  BY <1>1 DEF Builder
<1>2. ASSUME NEW t \in Turns, SaveOk(t) PROVE Builder' = Builder
  BY <1>2 DEF SaveOk, Builder
<1>3. ASSUME NEW t \in Turns, TurnStep(t), ~SaveOk(t) PROVE UNCHANGED row
  BY <1>3 DEF TurnStep, ReadStepIndex, BeginTurn, BeginBuilderTurn, SaveUserStep, EndLoop,
              LLMFails, SaveConflict, Reload, SaveFails
<1>4. ASSUME NEW t \in Turns, NEW o \in Ods, LookupOd(t, o) PROVE UNCHANGED row
  BY <1>4 DEF LookupOd
<1>5. ASSUME NEW t \in Turns, NEW f \in Facts, KeywordLookup(t, f) PROVE UNCHANGED row
  BY <1>5 DEF KeywordLookup
<1> QED
  BY <1>1, <1>2, <1>3, <1>4, <1>5 DEF Next, Finished, vars

\* On a lakehouse thread the inductive invariant holds in every state.
LEMMA LedgerInvariant == Spec => [](Builder \/ LedgerInv)
<1>1. (Builder \/ LedgerInv) /\ [Next]_vars => (Builder \/ LedgerInv)'
  BY NextLedgerInv, AgentKept
<1> QED BY InitLedgerInv, <1>1, PTL DEF Spec

\* The optimistic save of ledger/save.go loses no stored entry of a lakehouse
\* thread, for any number of concurrent turns, failed loads and retries.
THEOREM NoStoredEntryIsLost == Spec => NothingForgotten
<1>1. (Builder \/ LedgerInv) /\ [Next]_vars =>
        [~Builder => Keeps(row.ledger, row'.ledger)]_vars
  BY NextLedgerInv
<1> QED BY LedgerInvariant, <1>1, PTL DEF Spec, NothingForgotten

\* A lakehouse turn whose SaveWithRetry returned without an error has every Od
\* it loaded anew in the stored ledger, now and for ever after.
THEOREM SavedOdsAreKept == Spec => []SavedTurnsKeepTheirOds
<1>1. Builder \/ LedgerInv => SavedTurnsKeepTheirOds
  BY DEF LedgerInv, StampInv, SavedTurnsKeepTheirOds
<1> QED BY LedgerInvariant, <1>1, PTL

-----------------------------------------------------------------------------
(* Types, of both agents' threads *)

\* The latest user row exists: handler's MAX(step_index) is a number.
LastStep == steps # {} => \E s \in steps : \A u \in steps : u.idx <= s.idx

\* Where a turn is within SaveWithRetry's loop.
RetryBound ==
    \A t \in Turns : /\ pc[t] = "reload" => tries[t] < MaxRetries
                     /\ pc[t] \in {"idle", "recalled", "loop"} => tries[t] = 0

TypeInv == TypeOK /\ IsFiniteSet(steps) /\ LastStep /\ RetryBound

LEMMA TypeInvHasShape == ASSUME TypeInv PROVE Shape
BY DEF TypeInv, TypeOK, Shape

\* The next index is past every row's.
LEMMA NextIndexType ==
    ASSUME TypeInv
    PROVE  NextIndex \in Nat /\ \A s \in steps : s.idx < NextIndex
<1>1. \A s \in steps : s.idx \in Nat
  BY DEF TypeInv, TypeOK
<1>2. CASE steps = {}
  BY <1>2 DEF NextIndex
<1>3. CASE steps # {}
  <2> DEFINE Last(n) == n \in {s.idx : s \in steps} /\ \A s \in steps : s.idx <= n
             n0 == CHOOSE n \in {s.idx : s \in steps} : \A s \in steps : s.idx <= n
  <2>1. \E n \in {s.idx : s \in steps} : \A s \in steps : s.idx <= n
    BY <1>3 DEF TypeInv, LastStep
  <2>2. n0 \in {s.idx : s \in steps} /\ \A s \in steps : s.idx <= n0
    BY <2>1
  <2>3. NextIndex = 1 + n0
    BY <1>3 DEF NextIndex
  <2> HIDE DEF n0
  <2>4. n0 \in Nat
    BY <2>2, <1>1
  <2> QED BY <1>1, <2>2, <2>3, <2>4
<1> QED BY <1>2, <1>3

\* The legacy rows are numbered 1, 2, ... in some order.
LEMMA LegacySteps ==
    ASSUME NEW n \in [Legacy -> 1..Cardinality(Legacy)],
           \A q, r \in Legacy : q # r => n[q] # n[r],
           steps = {[question |-> q, idx |-> n[q]] : q \in Legacy}
    PROVE  /\ steps \subseteq [question : Turns \cup Legacy, idx : Nat]
           /\ LastStep
<1> DEFINE c == Cardinality(Legacy)
<1>1. IsFiniteSet(Legacy) /\ c \in Nat
  BY LedgerAssumption, FS_CardinalityType
<1> HIDE DEF c
<1>2. \A q \in Legacy : n[q] \in 1..c /\ n[q] \in Nat /\ n[q] <= c
  BY <1>1 DEF c
<1>3. steps \subseteq [question : Turns \cup Legacy, idx : Nat]
  BY <1>2
<1>4. ASSUME steps # {} PROVE \E s \in steps : \A u \in steps : u.idx <= s.idx
  <2>1. Legacy # {}
    BY <1>4
  <2>2. c # 0
    BY <1>1, <2>1, FS_EmptySet DEF c
  <2>3. n \in Injection(Legacy, 1..c)
    BY DEF Injection, IsInjective, c
  <2>4. IsFiniteSet(1..c) /\ Cardinality(1..c) = c
    BY <1>1, <2>2, FS_Interval
  <2>5. n \in Surjection(Legacy, 1..c)
    BY <2>3, <2>4, FS_Injection DEF c
  <2>6. PICK q \in Legacy : n[q] = c
    BY <1>1, <2>2, <2>5 DEF Surjection
  <2> DEFINE s0 == [question |-> q, idx |-> n[q]]
  <2>7. s0 \in steps /\ s0.idx = c
    BY <2>6
  <2> QED BY <1>2, <2>7
<1> QED BY <1>3, <1>4 DEF LastStep

\* What Load gives is a ledger, whatever the row's schema.
LEMMA LoadTypes ==
    ASSUME TypeOK
    PROVE  /\ Load \in LedgerType /\ LoadVersion \in Nat
           /\ \A ld \in Loads : ld.ledger \in LedgerType /\ ld.version \in Nat
<1>1. row.ledger \in LedgerType /\ row.ledger.turn \in Nat /\ row.version \in Nat
  BY DEF TypeOK, LedgerType
<1>2. [New EXCEPT !.turn = row.ledger.turn] \in LedgerType
  BY <1>1, NewType DEF LedgerType
<1>3. Load \in LedgerType /\ LoadVersion \in Nat
  BY <1>1, <1>2 DEF Load, LoadVersion
<1> QED BY <1>3, NewType DEF Loads

\* Merging gives a ledger.
LEMMA MergeTypes ==
    ASSUME NEW l \in LedgerType, NEW S \in SUBSET Ods, NEW F \in SUBSET Facts, NEW turn \in Nat
    PROVE  /\ MergeRecallResult(l, S, F, turn) \in LedgerType
           /\ MergeRecallResult(l, S, F, turn).facts = l.facts \cup F
<1>1. l.ods \in [Ods -> Entry] /\ "recall" \in Methods
  BY DEF LedgerType, Entry, Methods
<1>2. MergeOds(l.ods, S, "recall", turn) \in [Ods -> Entry]
  BY <1>1, MergeOdsFacts
<1> QED BY <1>2 DEF MergeRecallResult, LedgerType, Entry

LEMMA LookupTypes ==
    ASSUME NEW l \in LedgerType, NEW S \in SUBSET Ods, NEW turn \in Nat
    PROVE  /\ MergeLookupOd(l, S, turn) \in LedgerType
           /\ MergeLookupOd(l, S, turn).facts = l.facts
<1>1. l.ods \in [Ods -> Entry] /\ "lookup" \in Methods
  BY DEF LedgerType, Entry, Methods
<1>2. MergeOds(l.ods, S, "lookup", turn) \in [Ods -> Entry]
  BY <1>1, MergeOdsFacts
<1> QED BY <1>2 DEF MergeLookupOd, LedgerType, Entry

LEMMA StartedType ==
    ASSUME NEW l \in LedgerType
    PROVE  Started(l) \in LedgerType /\ Started(l).facts = l.facts /\ Started(l).turn = l.turn + 1
BY DEF Started, LedgerType

LEMMA InitTypes == Init => TypeInv
<1> SUFFICES ASSUME Init PROVE TypeInv
  OBVIOUS
<1>1. PICK n \in [Legacy -> 1..Cardinality(Legacy)] :
         /\ \A q, r \in Legacy : q # r => n[q] # n[r]
         /\ steps = {[question |-> q, idx |-> n[q]] : q \in Legacy}
  BY DEF Init
<1>2. steps \subseteq [question : Turns \cup Legacy, idx : Nat] /\ LastStep
  BY <1>1, LegacySteps
<1>3. Shape
  BY InitLedgerInv DEF LedgerInv
<1>4. idx \in [Turns -> Nat] /\ tries \in [Turns -> 0..MaxRetries]
  BY LedgerAssumption DEF Init
<1>5. RetryBound
  BY DEF Init, RetryBound
<1> QED BY <1>2, <1>3, <1>4, <1>5 DEF TypeInv, TypeOK, Shape

\* A step that writes no ledger copy, no row and no user row.
LEMMA QuietTypes ==
    ASSUME TypeInv, NEW t \in Turns,
           NEW p \in {"idle", "loop", "failed", "reload", "dropped", "done"},
           NEW n \in Nat, UNCHANGED <<row, steps, mem, next, old, tries, found>>,
           pc' = [pc EXCEPT ![t] = p] /\ idx' = [idx EXCEPT ![t] = n],
           p = "reload" => tries[t] < MaxRetries,
           p \in {"idle", "loop"} => pc[t] \in {"idle", "recalled", "loop"}
    PROVE  TypeInv'
BY DEF TypeInv, TypeOK, LastStep, RetryBound

LEMMA ReadStepIndexTypes ==
    ASSUME TypeInv, NEW t \in Turns, ReadStepIndex(t) PROVE TypeInv'
<1>1. NextIndex \in Nat
  BY NextIndexType
<1>2. /\ idx' = [idx EXCEPT ![t] = NextIndex]
      /\ UNCHANGED <<row, steps, pc, mem, next, old, tries, found>>
  BY DEF ReadStepIndex
<1> QED BY <1>1, <1>2 DEF TypeInv, TypeOK, LastStep, RetryBound

\* Both agents begin with a loaded ledger, rebuilt or not.
LEMMA BeginTypes ==
    ASSUME TypeInv, NEW t \in Turns, BeginTurn(t) \/ BeginBuilderTurn(t) PROVE TypeInv'
<1>s. Shape
  BY TypeInvHasShape
<1>1. PICK l \in LedgerType, v \in Nat :
        /\ mem' = [mem EXCEPT ![t] = l]
        /\ old' = [old EXCEPT ![t] = v]
  <2>1. ASSUME BeginTurn(t)
        PROVE  \E l \in LedgerType, v \in Nat : /\ mem' = [mem EXCEPT ![t] = l]
                                                /\ old' = [old EXCEPT ![t] = v]
    <3>1. PICK ld \in Loads : \E l \in Rebuilt(ld.ledger) :
             /\ mem' = [mem EXCEPT ![t] =
                  MergeRecallResult(Started(l), RecallOds[t], RecallFacts[t], l.turn + 1)]
             /\ old' = [old EXCEPT ![t] = ld.version]
      BY <2>1 DEF BeginTurn
    <3>2. PICK l \in Rebuilt(ld.ledger) :
             /\ mem' = [mem EXCEPT ![t] =
                  MergeRecallResult(Started(l), RecallOds[t], RecallFacts[t], l.turn + 1)]
             /\ old' = [old EXCEPT ![t] = ld.version]
      BY <3>1
    <3>3. ld.ledger \in LedgerType /\ ld.version \in Nat
      BY LoadTypes DEF TypeInv
    <3>4. l \in LedgerType
      BY <1>s, <3>3, RebuiltFacts
    <3>5. Started(l) \in LedgerType /\ l.turn + 1 \in Nat
      BY <3>4, StartedType DEF LedgerType
    <3>6. RecallOds[t] \in SUBSET Ods /\ RecallFacts[t] \in SUBSET Facts
      BY LedgerAssumption
    <3>7. MergeRecallResult(Started(l), RecallOds[t], RecallFacts[t], l.turn + 1) \in LedgerType
      <4> DEFINE k == Started(l)  S == RecallOds[t]  F == RecallFacts[t]  n == l.turn + 1
      <4>1. k \in LedgerType /\ S \in SUBSET Ods /\ F \in SUBSET Facts /\ n \in Nat
        BY <3>5, <3>6
      <4> HIDE DEF k, S, F, n
      <4>2. MergeRecallResult(k, S, F, n) \in LedgerType
        BY <4>1, MergeTypes
      <4> QED BY <4>2 DEF k, S, F, n
    <3> QED BY <3>2, <3>3, <3>7
  <2>2. ASSUME BeginBuilderTurn(t)
        PROVE  \E l \in LedgerType, v \in Nat : /\ mem' = [mem EXCEPT ![t] = l]
                                                /\ old' = [old EXCEPT ![t] = v]
    <3>1. PICK ld \in Loads : /\ mem' = [mem EXCEPT ![t] = Started(ld.ledger)]
                              /\ old' = [old EXCEPT ![t] = ld.version]
      BY <2>2 DEF BeginBuilderTurn
    <3>2. Started(ld.ledger) \in LedgerType /\ ld.version \in Nat
      BY LoadTypes, StartedType DEF TypeInv
    <3> QED BY <3>1, <3>2
  <2> QED BY <2>1, <2>2
<1>2. PICK S \in SUBSET Ods, F \in SUBSET Facts :
        found' = [found EXCEPT ![t] = [ods |-> S, facts |-> F]]
  <2>1. ASSUME BeginTurn(t)
        PROVE  \E S \in SUBSET Ods, F \in SUBSET Facts :
                  found' = [found EXCEPT ![t] = [ods |-> S, facts |-> F]]
    <3>1. PICK ld \in Loads : \E k \in Rebuilt(ld.ledger) :
             found' = [found EXCEPT ![t] = [ods |-> RecallOds[t] \ Known(k),
                                            facts |-> RecallFacts[t] \ k.facts]]
      BY <2>1 DEF BeginTurn
    <3>2. PICK k \in Rebuilt(ld.ledger) :
             found' = [found EXCEPT ![t] = [ods |-> RecallOds[t] \ Known(k),
                                            facts |-> RecallFacts[t] \ k.facts]]
      BY <3>1
    <3>3. RecallOds[t] \ Known(k) \in SUBSET Ods /\ RecallFacts[t] \ k.facts \in SUBSET Facts
      BY LedgerAssumption
    <3> QED BY <3>2, <3>3
  <2>2. ASSUME BeginBuilderTurn(t)
        PROVE  \E S \in SUBSET Ods, F \in SUBSET Facts :
                  found' = [found EXCEPT ![t] = [ods |-> S, facts |-> F]]
    <3>1. found' = found
      BY <2>2 DEF BeginBuilderTurn
    <3>2. found = [found EXCEPT ![t] = found[t]] /\ found[t] \in [ods : SUBSET Ods, facts : SUBSET Facts]
      BY DEF TypeInv, TypeOK
    <3>3. found[t] = [ods |-> found[t].ods, facts |-> found[t].facts]
          /\ found[t].ods \in SUBSET Ods /\ found[t].facts \in SUBSET Facts
      BY <3>2
    <3> QED BY <3>1, <3>2, <3>3
  <2> QED BY <2>1, <2>2
<1>3. pc' = [pc EXCEPT ![t] = "recalled"] /\ pc[t] = "idle" /\ UNCHANGED <<row, steps, next, idx, tries>>
  BY DEF BeginTurn, BeginBuilderTurn
<1>4. TypeOK'
  BY <1>1, <1>2, <1>3 DEF TypeInv, TypeOK
<1>5. LastStep' /\ IsFiniteSet(steps')
  BY <1>3 DEF TypeInv, LastStep
<1>6. RetryBound'
  BY <1>3 DEF TypeInv, TypeOK, RetryBound
<1> QED BY <1>4, <1>5, <1>6 DEF TypeInv

LEMMA SaveUserStepTypes ==
    ASSUME TypeInv, NEW t \in Turns, SaveUserStep(t) PROVE TypeInv'
<1> DEFINE s0 == [question |-> t, idx |-> idx[t]]
<1>1. steps' = steps \cup {s0} \/ steps' = steps
  BY DEF SaveUserStep
<1>2. s0 \in [question : Turns \cup Legacy, idx : Nat] /\ s0.idx = idx[t] /\ idx[t] \in Nat
  BY DEF TypeInv, TypeOK
<1> HIDE DEF s0
<1>3. steps' \subseteq [question : Turns \cup Legacy, idx : Nat] /\ IsFiniteSet(steps')
  BY <1>1, <1>2, FS_AddElement DEF TypeInv, TypeOK
<1>4. LastStep'
  <2>1. CASE steps' = steps
    BY <2>1 DEF TypeInv, LastStep
  <2>2. CASE steps' = steps \cup {s0}
    <3>1. CASE \A u \in steps : u.idx <= s0.idx
      <4>1. s0.idx <= s0.idx
        BY <1>2
      <4> QED BY <2>2, <3>1, <4>1 DEF LastStep
    <3>2. CASE \E u \in steps : ~(u.idx <= s0.idx)
      <4>1. PICK u \in steps : ~(u.idx <= s0.idx)
        BY <3>2
      <4>2. PICK m \in steps : \A w \in steps : w.idx <= m.idx
        BY <4>1 DEF TypeInv, LastStep
      <4>3. u.idx \in Nat /\ m.idx \in Nat /\ s0.idx \in Nat
        BY <1>2 DEF TypeInv, TypeOK
      <4>4. s0.idx <= m.idx
        BY <4>1, <4>2, <4>3
      <4> QED BY <2>2, <4>2, <4>4 DEF LastStep
    <3> QED BY <3>1, <3>2
  <2> QED BY <1>1, <2>1, <2>2
<1>5. pc' = [pc EXCEPT ![t] = "loop"] /\ pc[t] = "recalled" /\ UNCHANGED <<row, mem, next, old, idx, tries, found>>
  BY DEF SaveUserStep
<1>6. TypeOK' /\ RetryBound'
  BY <1>3, <1>5 DEF TypeInv, TypeOK, RetryBound
<1> QED BY <1>3, <1>4, <1>6 DEF TypeInv

\* The tools change the turn's copy only.
LEMMA ToolTypes ==
    ASSUME TypeInv, NEW t \in Turns, NEW l \in LedgerType, NEW S \in SUBSET Ods, NEW F \in SUBSET Facts,
           mem' = [mem EXCEPT ![t] = l], found' = [found EXCEPT ![t] = [ods |-> S, facts |-> F]],
           UNCHANGED <<row, steps, pc, next, old, idx, tries>>
    PROVE  TypeInv'
BY DEF TypeInv, TypeOK, LastStep, RetryBound

\* What the two tools do to a turn: its copy gains f, what it found gains no
\* other fact.
LEMMA ToolEffect ==
    ASSUME TypeInv, NEW t \in Turns,
           \/ \E o \in Ods : LookupOd(t, o)
           \/ \E f \in Facts : KeywordLookup(t, f)
    PROVE  \E l \in LedgerType, S \in SUBSET Ods, F \in SUBSET Facts :
              /\ mem' = [mem EXCEPT ![t] = l] /\ found' = [found EXCEPT ![t] = [ods |-> S, facts |-> F]]
              /\ found[t].facts \subseteq mem[t].facts => F \subseteq l.facts
<1>1. mem[t] \in LedgerType /\ mem[t].turn \in Nat /\ mem[t].facts \in SUBSET Facts
  BY DEF TypeInv, TypeOK, LedgerType
<1>2. found[t] \in [ods : SUBSET Ods, facts : SUBSET Facts]
  BY DEF TypeInv, TypeOK
<1>3. ASSUME NEW o \in Ods, LookupOd(t, o)
      PROVE  \E l \in LedgerType, S \in SUBSET Ods, F \in SUBSET Facts :
              /\ mem' = [mem EXCEPT ![t] = l] /\ found' = [found EXCEPT ![t] = [ods |-> S, facts |-> F]]
              /\ found[t].facts \subseteq mem[t].facts => F \subseteq l.facts
  <2> DEFINE l == MergeLookupOd(mem[t], {o}, mem[t].turn)
             S == found[t].ods \cup {o}
  <2>1. mem' = [mem EXCEPT ![t] = l] /\ found' = [found EXCEPT ![t] = [found[t] EXCEPT !.ods = S]]
    BY <1>3 DEF LookupOd
  <2>2. [found[t] EXCEPT !.ods = S] = [ods |-> S, facts |-> found[t].facts]
    BY <1>2
  <2>3. S \in SUBSET Ods /\ found[t].facts \in SUBSET Facts
    BY <1>2
  <2>4. l \in LedgerType /\ l.facts = mem[t].facts
    <3> DEFINE O == {o}  k == mem[t]  n == mem[t].turn
    <3>1. k \in LedgerType /\ O \in SUBSET Ods /\ n \in Nat /\ k.facts = mem[t].facts
          /\ l = MergeLookupOd(k, O, n)
      BY <1>1
    <3> HIDE DEF O, k, n, l
    <3>2. MergeLookupOd(k, O, n) \in LedgerType /\ MergeLookupOd(k, O, n).facts = k.facts
      BY ONLY <3>1, LookupTypes
    <3> QED BY <3>1, <3>2
  <2> HIDE DEF l, S
  <2> QED BY <2>1, <2>2, <2>3, <2>4
<1>4. ASSUME NEW f \in Facts, KeywordLookup(t, f)
      PROVE  \E l \in LedgerType, S \in SUBSET Ods, F \in SUBSET Facts :
              /\ mem' = [mem EXCEPT ![t] = l] /\ found' = [found EXCEPT ![t] = [ods |-> S, facts |-> F]]
              /\ found[t].facts \subseteq mem[t].facts => F \subseteq l.facts
  <2>1. PICK R \in SUBSET Ods :
          /\ mem' = [mem EXCEPT ![t] = MergeRecallResult(mem[t], R, {f}, mem[t].turn)]
          /\ found' = [found EXCEPT ![t] = [ods   |-> found[t].ods \cup (R \ Known(mem[t])),
                                           facts |-> found[t].facts \cup {f}]]
    <3>1. PICK R \in (IF Builder THEN {{}} ELSE {{}} \cup {{o} : o \in Ods}) :
          /\ mem' = [mem EXCEPT ![t] = MergeRecallResult(mem[t], R, {f}, mem[t].turn)]
          /\ found' = [found EXCEPT ![t] = [ods   |-> found[t].ods \cup (R \ Known(mem[t])),
                                           facts |-> found[t].facts \cup {f}]]
      BY <1>4 DEF KeywordLookup
    <3>2. R \in SUBSET Ods
      OBVIOUS
    <3> QED BY <3>1, <3>2
  <2> DEFINE G == {f}
             l == MergeRecallResult(mem[t], R, G, mem[t].turn)
             S == found[t].ods \cup (R \ Known(mem[t]))
             F == found[t].facts \cup G
  <2>2. S \in SUBSET Ods /\ F \in SUBSET Facts /\ G \in SUBSET Facts
    BY <1>2
  <2>3. mem' = [mem EXCEPT ![t] = l] /\ found' = [found EXCEPT ![t] = [ods |-> S, facts |-> F]]
    BY <2>1
  <2> HIDE DEF S
  <2>4. l \in LedgerType /\ l.facts = mem[t].facts \cup G
    <3> DEFINE k == mem[t]  n == mem[t].turn
    <3>1. k \in LedgerType /\ n \in Nat /\ k.facts = mem[t].facts /\ l = MergeRecallResult(k, R, G, n)
      BY <1>1
    <3> HIDE DEF G, k, n, l
    <3> QED BY <2>2, <3>1, MergeTypes
  <2>5. found[t].facts \subseteq mem[t].facts => F \subseteq l.facts
    BY <2>4
  <2> HIDE DEF l, F
  <2> QED BY <2>2, <2>3, <2>4, <2>5
<1> QED BY <1>3, <1>4

LEMMA ReloadTypes ==
    ASSUME TypeInv, NEW t \in Turns, Reload(t) PROVE TypeInv'
<1>1. Reapplied(t) \in LedgerType /\ LoadVersion \in Nat
  <2>1. mem[t] \in LedgerType /\ Load \in LedgerType /\ LoadVersion \in Nat
    BY LoadTypes DEF TypeInv, TypeOK
  <2>2. Reapply(mem[t], Load) \in LedgerType
    BY <2>1, ReapplyFacts
  <2> QED BY <2>1, <2>2 DEF Reapplied
<1>2. /\ next' = [next EXCEPT ![t] = Reapplied(t)] /\ old' = [old EXCEPT ![t] = LoadVersion]
      /\ tries' = [tries EXCEPT ![t] = tries[t] + 1] /\ pc' = [pc EXCEPT ![t] = "save"]
      /\ pc[t] = "reload" /\ UNCHANGED <<row, steps, mem, idx, found>>
  BY DEF Reload
<1>3. tries[t] + 1 \in 0..MaxRetries
  BY <1>2, LedgerAssumption DEF TypeInv, TypeOK, RetryBound
<1>4. TypeOK'
  BY <1>1, <1>2, <1>3 DEF TypeInv, TypeOK
<1> QED BY <1>2, <1>4 DEF TypeInv, TypeOK, LastStep, RetryBound

LEMMA SaveOkTypes ==
    ASSUME TypeInv, NEW t \in Turns, SaveOk(t) PROVE TypeInv'
<1>1. /\ row' = [agent |-> row.agent, version |-> old[t] + 1, schema |-> "current", ledger |-> next[t]]
      /\ pc' = [pc EXCEPT ![t] = "done"] /\ UNCHANGED <<steps, mem, next, old, idx, tries, found>>
  BY DEF SaveOk
<1>2. row' \in [agent : {"lakehouse", "builder"}, version : Nat, schema : {"current", "old"}, ledger : LedgerType]
  BY <1>1 DEF TypeInv, TypeOK
<1> QED BY <1>1, <1>2 DEF TypeInv, TypeOK, LastStep, RetryBound

LEMMA TypeInvStep ==
    ASSUME TypeInv, [Next]_vars PROVE TypeInv'
<1>1. ASSUME NEW t \in Turns, ReadStepIndex(t) PROVE TypeInv'
  BY <1>1, ReadStepIndexTypes
<1>2. ASSUME NEW t \in Turns, BeginTurn(t) \/ BeginBuilderTurn(t) PROVE TypeInv'
  BY <1>2, BeginTypes
<1>3. ASSUME NEW t \in Turns, SaveUserStep(t) PROVE TypeInv'
  BY <1>3, SaveUserStepTypes
<1>4. ASSUME NEW t \in Turns, EndLoop(t) PROVE TypeInv'
  BY <1>4 DEF EndLoop, TypeInv, TypeOK, LastStep, RetryBound
<1>5. ASSUME NEW t \in Turns, LLMFails(t) PROVE TypeInv'
  BY <1>5 DEF LLMFails, TypeInv, TypeOK, LastStep, RetryBound
<1>6. ASSUME NEW t \in Turns, SaveOk(t) PROVE TypeInv'
  BY <1>6, SaveOkTypes
<1>7. ASSUME NEW t \in Turns, SaveConflict(t) PROVE TypeInv'
  BY <1>7 DEF SaveConflict, TypeInv, TypeOK, LastStep, RetryBound
<1>8. ASSUME NEW t \in Turns, Reload(t) PROVE TypeInv'
  BY <1>8, ReloadTypes
<1>9. ASSUME NEW t \in Turns, SaveFails(t) PROVE TypeInv'
  BY <1>9 DEF SaveFails, TypeInv, TypeOK, LastStep, RetryBound
<1>10. ASSUME NEW t \in Turns,
              \/ \E o \in Ods : LookupOd(t, o)
              \/ \E f \in Facts : KeywordLookup(t, f)
       PROVE  TypeInv'
  <2>1. UNCHANGED <<row, steps, pc, next, old, idx, tries>>
    BY <1>10 DEF LookupOd, KeywordLookup
  <2> QED BY <1>10, <2>1, ToolEffect, ToolTypes
<1>11. CASE UNCHANGED vars
  BY <1>11 DEF vars, TypeInv, TypeOK, LastStep, RetryBound
<1> QED BY <1>1, <1>2, <1>3, <1>4, <1>5, <1>6, <1>7, <1>8, <1>9, <1>10, <1>11 DEF Next, TurnStep, Finished

THEOREM LedgerTypes == Spec => []TypeInv
BY InitTypes, TypeInvStep, PTL DEF Spec

-----------------------------------------------------------------------------
(* SaveWithRetry's bound *)

SavedTurns == {t \in Turns : pc[t] = "done"}

\* The version of a current ledger counts the saves; a turn has read a version at
\* least as high as the number of its reloads, and reloads only behind the row.
SaveInv ==
    /\ row.schema = "old" => row.version > 0 /\ \A t \in Turns : old[t] = 0
    /\ row.schema = "current" =>
          /\ row.version = Cardinality(SavedTurns)
          /\ \A t \in Turns : /\ tries[t] <= old[t] /\ old[t] <= row.version
                              /\ pc[t] = "reload" => old[t] < row.version
                              /\ pc[t] # "dropped"

\* Steps that end no save: they keep the set of saved turns and the row.
LEMMA SaveInvQuiet ==
    ASSUME TypeInv, SaveInv, NEW t \in Turns,
           UNCHANGED <<row, tries>>,
           NEW v \in Nat, old' = [old EXCEPT ![t] = v],
           v = old[t] \/ (tries[t] = 0 /\ v \in {LoadVersion, 0}),
           NEW p \in {"idle", "recalled", "loop", "save", "failed"},
           pc' = [pc EXCEPT ![t] = p], pc[t] # "done"
    PROVE  SaveInv'
<1>1. SavedTurns' = SavedTurns
  BY DEF SavedTurns, TypeInv, TypeOK
<1>2. \A u \in Turns : /\ old[u] \in Nat /\ tries[u] \in Nat /\ row.version \in Nat
                       /\ old'[u] = (IF u = t THEN v ELSE old[u])
                       /\ pc'[u] = (IF u = t THEN p ELSE pc[u])
  BY LedgerAssumption DEF TypeInv, TypeOK
<1>3. row.schema = "old" => LoadVersion = 0
  BY DEF LoadVersion
<1>4. row.schema = "current" => LoadVersion = row.version
  BY DEF LoadVersion
<1>5. CASE row.schema = "old"
  BY <1>2, <1>3, <1>5 DEF SaveInv
<1>6. CASE row.schema = "current"
  <2>1. ASSUME NEW u \in Turns
        PROVE  /\ tries[u] <= old'[u] /\ old'[u] <= row.version
               /\ pc'[u] = "reload" => old'[u] < row.version
               /\ pc'[u] # "dropped"
    <3>1. CASE u = t
      BY <1>2, <1>4, <1>6, <3>1 DEF SaveInv
    <3>2. CASE u # t
      BY <1>2, <1>6, <3>2 DEF SaveInv
    <3> QED BY <3>1, <3>2
  <2> QED BY <1>1, <1>6, <2>1 DEF SaveInv
<1> QED BY <1>5, <1>6 DEF TypeInv, TypeOK

LEMMA SaveInvInit == Init => SaveInv
<1> SUFFICES ASSUME Init PROVE SaveInv
  OBVIOUS
<1>1. PICK a \in Agents, sc \in Schemas :
         row = IF sc = "old"
               THEN [agent |-> a, version |-> 1, schema |-> "old", ledger |-> Started(New)]
               ELSE [agent |-> a, version |-> 0, schema |-> "current", ledger |-> New]
  BY DEF Init
<1>2. SavedTurns = {}
  BY DEF Init, SavedTurns
<1>3. \A t \in Turns : old[t] = 0 /\ tries[t] = 0 /\ pc[t] = "idle"
  BY DEF Init
<1> QED BY <1>1, <1>2, <1>3, FS_EmptySet DEF SaveInv

\* The conflict of a turn that has used up its retries would need more saves than
\* there are other turns.
LEMMA ConflictIsRetried ==
    ASSUME TypeInv, SaveInv, IsFiniteSet(Turns), Cardinality(Turns) <= MaxRetries + 1,
           row.schema = "current", NEW t \in Turns, pc[t] = "save", ~VersionMatches(t)
    PROVE  tries[t] < MaxRetries /\ old[t] < row.version
<1>1. SavedTurns \subseteq Turns \ {t}
  BY DEF SavedTurns
<1>2. /\ IsFiniteSet(Turns \ {t}) /\ Cardinality(Turns \ {t}) = Cardinality(Turns) - 1
  BY FS_RemoveElement
<1>3. Cardinality(SavedTurns) <= Cardinality(Turns) - 1
  BY <1>1, <1>2, FS_Subset
<1>4. Cardinality(Turns) \in Nat /\ MaxRetries \in Nat /\ row.version \in Nat
      /\ tries[t] \in Nat /\ old[t] \in Nat
  BY FS_CardinalityType, LedgerAssumption DEF TypeInv, TypeOK
<1>5. tries[t] <= old[t] /\ old[t] <= row.version /\ row.version = Cardinality(SavedTurns)
  BY DEF SaveInv
<1>6. old[t] # row.version
  BY DEF VersionMatches
<1> QED BY <1>3, <1>4, <1>5, <1>6

LEMMA SaveInvStep ==
    ASSUME TypeInv, SaveInv, [Next]_vars,
           IsFiniteSet(Turns), Cardinality(Turns) <= MaxRetries + 1
    PROVE  SaveInv'
<1>t. ASSUME NEW t \in Turns
      PROVE  /\ old[t] \in Nat /\ old = [old EXCEPT ![t] = old[t]] /\ pc = [pc EXCEPT ![t] = pc[t]]
             /\ pc[t] \in {"idle", "recalled", "loop"} => tries[t] = 0
  BY DEF TypeInv, TypeOK, RetryBound
<1>1. ASSUME NEW t \in Turns, ReadStepIndex(t) PROVE SaveInv'
  BY <1>1 DEF ReadStepIndex, SaveInv, SavedTurns
<1>2. ASSUME NEW t \in Turns, BeginTurn(t) \/ BeginBuilderTurn(t) PROVE SaveInv'
  <2>1. PICK v \in {LoadVersion, 0} : old' = [old EXCEPT ![t] = v]
    <3>1. PICK ld \in Loads : old' = [old EXCEPT ![t] = ld.version]
      BY <1>2 DEF BeginTurn, BeginBuilderTurn
    <3>2. ld.version \in {LoadVersion, 0}
      BY DEF Loads
    <3> QED BY <3>1, <3>2
  <2>2. v \in Nat
    BY LoadTypes DEF TypeInv
  <2>3. /\ pc[t] = "idle" /\ pc' = [pc EXCEPT ![t] = "recalled"] /\ UNCHANGED <<row, tries>>
    BY <1>2 DEF BeginTurn, BeginBuilderTurn
  <2> QED BY <2>1, <2>2, <2>3, <1>t, SaveInvQuiet
<1>3. ASSUME NEW t \in Turns, SaveUserStep(t) \/ EndLoop(t) \/ LLMFails(t) \/ SaveFails(t) PROVE SaveInv'
  <2>1. /\ UNCHANGED <<row, tries, old>> /\ pc[t] # "done"
        /\ \E p \in {"idle", "recalled", "loop", "save", "failed"} : pc' = [pc EXCEPT ![t] = p]
    BY <1>3 DEF SaveUserStep, EndLoop, LLMFails, SaveFails
  <2> QED BY <2>1, <1>t, SaveInvQuiet
<1>4. ASSUME NEW t \in Turns, SaveOk(t) PROVE SaveInv'
  <2>1. /\ pc[t] = "save" /\ row.version = old[t]
        /\ row' = [agent |-> row.agent, version |-> old[t] + 1, schema |-> "current", ledger |-> next[t]]
        /\ pc' = [pc EXCEPT ![t] = "done"] /\ UNCHANGED <<old, tries>>
    BY <1>4 DEF SaveOk, VersionMatches
  <2>2. row'.version = old[t] + 1 /\ row'.schema = "current"
    BY <2>1
  <2>3. row.schema = "current"
    BY <2>1 DEF SaveInv, TypeInv, TypeOK
  <2>4. SavedTurns' = SavedTurns \cup {t} /\ t \notin SavedTurns
    BY <2>1 DEF SavedTurns, TypeInv, TypeOK
  <2>5. IsFiniteSet(SavedTurns)
    <3>1. SavedTurns \subseteq Turns
      BY DEF SavedTurns
    <3> QED BY <3>1, FS_Subset
  <2>6. Cardinality(SavedTurns') = Cardinality(SavedTurns) + 1
    BY <2>4, <2>5, FS_AddElement
  <2>7. \A u \in Turns : /\ tries[u] <= old[u] /\ old[u] <= row.version
                         /\ pc[u] = "reload" => old[u] < row.version
                         /\ pc[u] # "dropped" /\ old[u] \in Nat /\ row.version \in Nat
    BY <2>3 DEF SaveInv, TypeInv, TypeOK
  <2>8. \A u \in Turns : /\ tries'[u] <= old'[u] /\ old'[u] <= row'.version
                         /\ pc'[u] = "reload" => old'[u] < row'.version
                         /\ pc'[u] # "dropped"
    BY <2>1, <2>2, <2>7 DEF TypeInv, TypeOK
  <2>9. row'.version = Cardinality(SavedTurns')
    BY <2>1, <2>2, <2>3, <2>6 DEF SaveInv
  <2> QED BY <2>2, <2>8, <2>9 DEF SaveInv
<1>5. ASSUME NEW t \in Turns, SaveConflict(t) PROVE SaveInv'
  <2> DEFINE p == IF tries[t] < MaxRetries THEN "reload" ELSE "dropped"
  <2>1. /\ pc[t] = "save" /\ ~VersionMatches(t) /\ pc' = [pc EXCEPT ![t] = p] /\ UNCHANGED <<row, old, tries>>
    BY <1>5 DEF SaveConflict
  <2>2. row.schema = "current" => p = "reload" /\ old[t] < row.version
    BY <2>1, ConflictIsRetried
  <2>3. SavedTurns' = SavedTurns
    BY <2>1 DEF SavedTurns, TypeInv, TypeOK
  <2> HIDE DEF p
  <2> QED BY <2>1, <2>2, <2>3 DEF SaveInv, TypeInv, TypeOK
<1>6. ASSUME NEW t \in Turns, Reload(t) PROVE SaveInv'
  <2>1. /\ pc[t] = "reload" /\ old' = [old EXCEPT ![t] = LoadVersion]
        /\ tries' = [tries EXCEPT ![t] = tries[t] + 1] /\ pc' = [pc EXCEPT ![t] = "save"] /\ UNCHANGED row
    BY <1>6 DEF Reload
  <2>2. SavedTurns' = SavedTurns
    BY <2>1 DEF SavedTurns, TypeInv, TypeOK
  <2>3. \A u \in Turns : /\ old[u] \in Nat /\ tries[u] \in Nat /\ row.version \in Nat
                         /\ old'[u] = (IF u = t THEN LoadVersion ELSE old[u])
                         /\ tries'[u] = (IF u = t THEN tries[t] + 1 ELSE tries[u])
                         /\ pc'[u] = (IF u = t THEN "save" ELSE pc[u])
    BY <2>1, LedgerAssumption DEF TypeInv, TypeOK
  <2>4. CASE row.schema = "old"
    <3>1. LoadVersion = 0
      BY <2>4 DEF LoadVersion
    <3> QED BY <2>1, <2>3, <2>4, <3>1 DEF SaveInv
  <2>5. CASE row.schema = "current"
    <3>1. LoadVersion = row.version
      BY <2>5 DEF LoadVersion
    <3>2. ASSUME NEW u \in Turns
          PROVE  /\ tries'[u] <= old'[u] /\ old'[u] <= row.version
                 /\ pc'[u] = "reload" => old'[u] < row.version
                 /\ pc'[u] # "dropped"
      <4>1. CASE u = t
        BY <2>1, <2>3, <2>5, <3>1, <4>1 DEF SaveInv
      <4>2. CASE u # t
        BY <2>3, <2>5, <4>2 DEF SaveInv
      <4> QED BY <4>1, <4>2
    <3> QED BY <2>1, <2>2, <2>5, <3>2 DEF SaveInv
  <2> QED BY <2>4, <2>5 DEF TypeInv, TypeOK
<1>7. ASSUME NEW t \in Turns,
             \/ \E o \in Ods : LookupOd(t, o)
             \/ \E f \in Facts : KeywordLookup(t, f)
      PROVE  SaveInv'
  <2>1. UNCHANGED <<row, pc, old, tries>>
    BY <1>7 DEF LookupOd, KeywordLookup
  <2> QED BY <2>1 DEF SaveInv, SavedTurns
<1>8. CASE UNCHANGED vars
  BY <1>8 DEF vars, SaveInv, SavedTurns
<1> QED BY <1>1, <1>2, <1>3, <1>4, <1>5, <1>6, <1>7, <1>8 DEF Next, TurnStep, Finished

-----------------------------------------------------------------------------
(* What a turn found is what it saves *)

\* The facts a turn found are in its own copy and, if that copy is what it saved,
\* in the row for ever after.
FactInv ==
    \A t \in Turns :
        /\ found[t].facts \subseteq mem[t].facts
        /\ pc[t] = "done" /\ next[t] = mem[t] => found[t].facts \subseteq row.ledger.facts

\* A step that leaves the copies and the findings of the turns alone.
LEMMA FactInvQuiet ==
    ASSUME TypeInv, FactInv, UNCHANGED <<mem, found>>, row.ledger.facts \subseteq row'.ledger.facts,
           \A u \in Turns : pc'[u] = "done" => pc[u] = "done" /\ next'[u] = next[u]
    PROVE  FactInv'
BY DEF FactInv

LEMMA FactInvStep ==
    ASSUME TypeInv, LedgerInv, FactInv, ~Builder, [Next]_vars
    PROVE  FactInv'
<1>k. row.ledger.facts \subseteq row'.ledger.facts
  BY NextLedgerInv DEF Keeps
<1>1. ASSUME NEW t \in Turns, BeginTurn(t) PROVE FactInv'
  <2>1. PICK ld \in Loads : \E l \in Rebuilt(ld.ledger) :
             /\ mem' = [mem EXCEPT ![t] =
                  MergeRecallResult(Started(l), RecallOds[t], RecallFacts[t], l.turn + 1)]
             /\ found' = [found EXCEPT ![t] = [ods   |-> RecallOds[t] \ Known(l),
                                              facts |-> RecallFacts[t] \ l.facts]]
    BY <1>1 DEF BeginTurn
  <2>2. PICK l \in Rebuilt(ld.ledger) :
             /\ mem' = [mem EXCEPT ![t] =
                  MergeRecallResult(Started(l), RecallOds[t], RecallFacts[t], l.turn + 1)]
             /\ found' = [found EXCEPT ![t] = [ods   |-> RecallOds[t] \ Known(l),
                                              facts |-> RecallFacts[t] \ l.facts]]
    BY <2>1
  <2> DEFINE k == Started(l)  S == RecallOds[t]  F == RecallFacts[t]  n == l.turn + 1
             O == RecallOds[t] \ Known(l)  G == RecallFacts[t] \ l.facts
  <2>3. l \in LedgerType
    <3>1. ld.ledger \in LedgerType
      BY LoadTypes DEF TypeInv
    <3> QED BY <3>1, RebuiltFacts DEF LedgerInv
  <2>4. k \in LedgerType /\ S \in SUBSET Ods /\ F \in SUBSET Facts /\ n \in Nat /\ G \subseteq F
    BY <2>3, StartedType, LedgerAssumption DEF LedgerType
  <2>5. mem' = [mem EXCEPT ![t] = MergeRecallResult(k, S, F, n)]
        /\ found' = [found EXCEPT ![t] = [ods |-> O, facts |-> G]]
    BY <2>2
  <2> HIDE DEF k, S, F, n, O, G
  <2>6. MergeRecallResult(k, S, F, n).facts = k.facts \cup F
    BY <2>4, MergeTypes
  <2>7. found'[t].facts \subseteq mem'[t].facts
    BY <2>4, <2>5, <2>6 DEF TypeInv, TypeOK
  <2>8. \A u \in Turns : pc'[u] = "done" => u # t /\ pc[u] = "done" /\ next'[u] = next[u] /\ row' = row
    BY <1>1 DEF BeginTurn, TypeInv, TypeOK
  <2>9. \A u \in Turns \ {t} : mem'[u] = mem[u] /\ found'[u] = found[u]
    BY <2>5 DEF TypeInv, TypeOK
  <2>10. ASSUME NEW u \in Turns
         PROVE  /\ found'[u].facts \subseteq mem'[u].facts
                /\ pc'[u] = "done" /\ next'[u] = mem'[u] => found'[u].facts \subseteq row'.ledger.facts
    <3>1. CASE u = t
      BY <2>7, <2>8, <3>1
    <3>2. CASE u # t
      BY <2>8, <2>9, <3>2 DEF FactInv
    <3> QED BY <3>1, <3>2
  <2> QED BY <2>10 DEF FactInv
<1>2. ASSUME NEW t \in Turns, BeginBuilderTurn(t) PROVE FactInv'
  BY <1>2 DEF BeginBuilderTurn
<1>3. ASSUME NEW t \in Turns,
             SaveUserStep(t) \/ EndLoop(t) \/ LLMFails(t) \/ SaveFails(t) \/ SaveConflict(t)
                \/ Reload(t) \/ ReadStepIndex(t)
      PROVE  FactInv'
  <2>1. UNCHANGED <<mem, found>>
    BY <1>3 DEF SaveUserStep, EndLoop, LLMFails, SaveFails, SaveConflict, Reload, ReadStepIndex
  <2>2. ASSUME NEW u \in Turns, pc'[u] = "done" PROVE pc[u] = "done" /\ next'[u] = next[u]
    <3>1. pc[u] = "done"
      BY <1>3, <2>2 DEF SaveUserStep, EndLoop, LLMFails, SaveFails, SaveConflict, Reload, ReadStepIndex, TypeInv, TypeOK
    <3>2. next' = next \/ (u # t /\ \E l : next' = [next EXCEPT ![t] = l])
      BY <1>3, <3>1 DEF SaveUserStep, EndLoop, LLMFails, SaveFails, SaveConflict, Reload, ReadStepIndex
    <3> QED BY <3>1, <3>2 DEF TypeInv, TypeOK
  <2> QED BY <1>k, <2>1, <2>2, FactInvQuiet
<1>4. ASSUME NEW t \in Turns, SaveOk(t) PROVE FactInv'
  <2>1. row'.ledger = next[t] /\ pc' = [pc EXCEPT ![t] = "done"] /\ UNCHANGED <<mem, next, found>>
    BY <1>4 DEF SaveOk
  <2>2. ASSUME NEW u \in Turns
        PROVE  /\ found'[u].facts \subseteq mem'[u].facts
               /\ pc'[u] = "done" /\ next'[u] = mem'[u] => found'[u].facts \subseteq row'.ledger.facts
    <3>1. CASE u = t
      BY <2>1, <3>1 DEF FactInv
    <3>2. CASE u # t
      BY <2>1, <3>2, <1>k DEF FactInv, TypeInv, TypeOK
    <3> QED BY <3>1, <3>2
  <2> QED BY <2>2 DEF FactInv
<1>5. ASSUME NEW t \in Turns,
             \/ \E o \in Ods : LookupOd(t, o)
             \/ \E f \in Facts : KeywordLookup(t, f)
      PROVE  FactInv'
  <2>1. PICK l \in LedgerType, S \in SUBSET Ods, F \in SUBSET Facts :
              /\ mem' = [mem EXCEPT ![t] = l] /\ found' = [found EXCEPT ![t] = [ods |-> S, facts |-> F]]
              /\ found[t].facts \subseteq mem[t].facts => F \subseteq l.facts
    BY <1>5, ToolEffect
  <2>2. UNCHANGED <<row, pc, next>> /\ pc[t] = "loop"
    BY <1>5 DEF LookupOd, KeywordLookup
  <2>3. F \subseteq l.facts
    BY <2>1 DEF FactInv
  <2>4. ASSUME NEW u \in Turns
        PROVE  /\ found'[u].facts \subseteq mem'[u].facts
               /\ pc'[u] = "done" /\ next'[u] = mem'[u] => found'[u].facts \subseteq row'.ledger.facts
    <3>1. CASE u = t
      BY <2>1, <2>2, <2>3, <3>1 DEF TypeInv, TypeOK
    <3>2. CASE u # t
      BY <2>1, <2>2, <3>2 DEF FactInv, TypeInv, TypeOK
    <3> QED BY <3>1, <3>2
  <2> QED BY <2>4 DEF FactInv
<1>6. CASE UNCHANGED vars
  BY <1>6 DEF vars, FactInv
<1> QED BY <1>1, <1>2, <1>3, <1>4, <1>5, <1>6 DEF Next, TurnStep, Finished

\* A lakehouse turn that saved its own copy has every intent and token it found
\* stored, now and for ever after; a reload alone drops them
\* (handler_agent_lakehouse.go:1868-1882).
THEOREM SavedFactsAreKept == Spec => []SavedTurnsKeepTheirFacts
<1>1. Init => FactInv
  <2> SUFFICES ASSUME Init, NEW t \in Turns PROVE found[t].facts = {} /\ pc[t] = "idle"
    BY DEF FactInv
  <2> QED BY DEF Init
<1>2. TypeInv /\ (Builder \/ (LedgerInv /\ FactInv)) /\ [Next]_vars => (Builder \/ (LedgerInv /\ FactInv))'
  BY FactInvStep, NextLedgerInv, AgentKept
<1>3. Builder \/ (LedgerInv /\ FactInv) => SavedTurnsKeepTheirFacts
  BY DEF FactInv, SavedTurnsKeepTheirFacts
<1> QED BY <1>1, <1>2, <1>3, InitLedgerInv, LedgerTypes, PTL DEF Spec

\* SaveWithRetry's bound is enough (save.go:82-85, "2 is fine"): with no more turns
\* on the thread than it attempts saves, no turn's ledger is ever given up, whoever
\* saves in between; with SavedFactsAreKept, a turn's work is lost to a failure only.
THEOREM RetriesSuffice ==
    ASSUME IsFiniteSet(Turns), Cardinality(Turns) <= MaxRetries + 1
    PROVE  Spec => []NoTurnIsLost
<1>1. TypeInv /\ SaveInv /\ [Next]_vars => SaveInv'
  BY SaveInvStep
<1>2. Spec => []SaveInv
  BY <1>1, SaveInvInit, LedgerTypes, PTL DEF Spec
<1>3. TypeInv /\ SaveInv /\ SavedTurnsKeepTheirFacts => NoTurnIsLost
  BY DEF TypeInv, SaveInv, NoTurnIsLost, NoTurnDropped
<1> QED BY <1>2, <1>3, LedgerTypes, SavedFactsAreKept, PTL
=============================================================================
