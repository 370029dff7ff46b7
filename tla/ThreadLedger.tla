---------------------------- MODULE ThreadLedger ----------------------------
(***************************************************************************)
(* The Thread Memory Ledger of agent-server: everything recall and lookup   *)
(* have ever surfaced in one conversation thread, kept as one JSON value in *)
(* ont_agent_thread.thread_state and rewritten at the end of every turn     *)
(* under an optimistic version check (ledger/load.go, save.go, merge.go,    *)
(* rebuild.go and the turn handler of handler_agent_lakehouse.go).          *)
(*                                                                         *)
(* Turns are requests on the SAME thread (a double submit, two tabs): each  *)
(* works on a private copy between its Load and its Save.  With Builder     *)
(* the thread is a builder-agent thread and the ledger is builder_ledger,   *)
(* which has the same save protocol and another reapply.                    *)
(*                                                                         *)
(* An Od entry keeps the turn that loaded it (0: absent) and the strength   *)
(* of its load method.  "Facts" stands for the intents, Ok and Ol entries   *)
(* and tokens of the ledger, which are all merged as keyed unions.          *)
(***************************************************************************)
EXTENDS Thread, Naturals, FiniteSets

CONSTANTS
    Legacy,         \* questions asked before the thread had a ledger
    Ods, Facts,     \* what recall and lookup can surface
    RecallOds, RecallFacts, \* question -> what recall finds for it
    MaxRetries,     \* last argument of SaveWithRetry
    Agents,         \* whose thread it may be: lakehouse | builder
    Schemas,        \* the ledger's SchemaVersion it may start with: current | old
    DbMayFail,      \* may a statement fail?
    LLMMayFail      \* may the turn's LLM call fail?

ASSUME LedgerAssumption ==
    /\ RecallOds \in [Turns \cup Legacy -> SUBSET Ods]
    /\ RecallFacts \in [Turns \cup Legacy -> SUBSET Facts]
    /\ IsFiniteSet(Legacy)
    /\ MaxRetries \in Nat
    /\ Agents \subseteq {"lakehouse", "builder"} /\ Schemas \subseteq {"current", "old"}
    /\ {DbMayFail, LLMMayFail} \subseteq BOOLEAN

VARIABLES
    row,     \* the thread: its agent, and the ledger in thread_state with its
             \* version and schema
    steps,   \* the thread's user rows of ont_agent_step
    pc,      \* where each turn is
    mem,     \* threadLedger, the private copy of each turn
    next,    \* the ledger the next Save of the turn writes
    old,     \* the version that Save compares with
    idx,     \* stepIdx
    tries,   \* attempts of SaveWithRetry's loop so far
    found    \* history: what was new to the ledger in the turn (Delta)

vars == <<row, steps, pc, mem, next, old, idx, tries, found>>

-----------------------------------------------------------------------------
\* Ledgers and merging

Methods == {"none", "recall", "lookup"}
Strength(m) == CASE m = "none" -> 0 [] m = "recall" -> 1 [] m = "lookup" -> 2

Absent == [turn |-> 0, method |-> "none"]
New == [turn |-> 0, rebuilt |-> FALSE, ods |-> [o \in Ods |-> Absent], facts |-> {}]

Known(l) == {o \in Ods : l.ods[o].turn > 0}
IsEmpty(l) == Known(l) = {} /\ l.facts = {}

\* Mutant: the last merge decides the load method.
MergeOdsOverwrites(ods, S, method, turn) ==
    [o \in Ods |-> IF o \notin S THEN ods[o]
                   ELSE [turn |-> IF ods[o].turn = 0 THEN turn ELSE ods[o].turn,
                         method |-> method]]

\* mergeOd for every Od of S: the first merge stamps the turn, a later one
\* may only strengthen the load method.
MergeOds(ods, S, method, turn) ==
    [o \in Ods |->
        IF o \notin S THEN ods[o]
        ELSE IF ods[o].turn = 0 THEN [turn |-> turn, method |-> method]
        ELSE IF Strength(method) > Strength(ods[o].method)
             THEN [ods[o] EXCEPT !.method = method]
        ELSE ods[o]]

MergeRecallResult(l, S, F, turn) ==
    [l EXCEPT !.ods = MergeOds(@, S, "recall", turn), !.facts = @ \cup F]

MergeLookupOd(l, S, turn) == [l EXCEPT !.ods = MergeOds(@, S, "lookup", turn)]

-----------------------------------------------------------------------------
\* Loading

\* A builder-agent thread: its ledger is saved by builder_ledger.
Builder == row.agent = "builder"

\* Load of a readable row: a ledger of another schema is replaced by New()
\* with its turn count, at version 0.
Load == IF row.schema = "current" THEN row.ledger
        ELSE [New EXCEPT !.turn = row.ledger.turn]
LoadVersion == IF row.schema = "current" THEN row.version ELSE 0

\* What the handler continues with, and the version it will compare: a failed
\* Load gives the empty ledger.
Loads == {[ledger |-> Load, version |-> LoadVersion]}
         \cup (IF DbMayFail THEN {[ledger |-> New, version |-> 0]} ELSE {})

\* The orders in which ORDER BY step_index may return the user rows.
Ranks == {r \in [steps -> 1..Cardinality(steps)] :
            \A s, u \in steps : /\ s # u => r[s] # r[u]
                                /\ s.idx < u.idx => r[s] < r[u]}

\* The turn in which the replay first meets each Od; 0 if it never does.
IsFirst(n, S) == IF S = {} THEN n = 0 ELSE n \in S /\ \A k \in S : n <= k
FirstSeen == {f \in [Ods -> 0..Cardinality(steps)] : \E r \in Ranks : \A o \in Ods :
                IsFirst(f[o], {r[s] : s \in {u \in steps : o \in RecallOds[u.question]}})}

\* RebuildFromSteps on an empty ledger: replay the earlier questions through
\* recall, oldest first.
Rebuild(l, first) ==
    [turn    |-> IF l.turn < Cardinality(steps) THEN Cardinality(steps) ELSE l.turn,
     rebuilt |-> TRUE,
     ods     |-> [o \in Ods |-> IF first[o] = 0 THEN l.ods[o]
                                ELSE [turn |-> first[o], method |-> "recall"]],
     facts   |-> l.facts \cup UNION {RecallFacts[s.question] : s \in steps}]

\* The handler rebuilds an empty ledger when more than one user row exists.
NeedsRebuild(l) == IsEmpty(l) /\ ~l.rebuilt /\ Cardinality(steps) > 1

\* A failing count or replay is logged and leaves the ledger as loaded.
Rebuilt(l) == (IF NeedsRebuild(l) THEN {Rebuild(l, f) : f \in FirstSeen} ELSE {l})
              \cup (IF DbMayFail THEN {l} ELSE {})

NextIndex == 1 + (IF steps = {} THEN 0
                  ELSE CHOOSE n \in {s.idx : s \in steps} : \A s \in steps : s.idx <= n)

Started(l) == [l EXCEPT !.turn = @ + 1]

-----------------------------------------------------------------------------
\* The turn

Init ==
    /\ \E a \in Agents, sc \in Schemas :
         row = IF sc = "old"
               THEN [agent |-> a, version |-> 1, schema |-> "old", ledger |-> Started(New)]
               ELSE [agent |-> a, version |-> 0, schema |-> "current", ledger |-> New]
    /\ \E n \in [Legacy -> 1..Cardinality(Legacy)] :
         /\ \A q, r \in Legacy : q # r => n[q] # n[r]
         /\ steps = {[question |-> q, idx |-> n[q]] : q \in Legacy}
    /\ pc = [t \in Turns |-> "idle"]
    /\ mem = [t \in Turns |-> New]
    /\ next = [t \in Turns |-> New]
    /\ old = [t \in Turns |-> 0]
    /\ idx = [t \in Turns |-> 0]
    /\ tries = [t \in Turns |-> 0]
    /\ found = [t \in Turns |-> [ods |-> {}, facts |-> {}]]

\* stepIdx is computed first; the row that uses it is inserted last.
ReadStepIndex(t) ==
    /\ pc[t] = "idle" /\ idx[t] = 0
    /\ idx' = [idx EXCEPT ![t] = NextIndex]
    /\ UNCHANGED <<row, steps, pc, mem, next, old, tries, found>>

\* Load, lazy rebuild, turn count, recall and merge of a lakehouse turn.
BeginTurn(t) ==
    /\ pc[t] = "idle" /\ idx[t] > 0 /\ ~Builder
    /\ \E ld \in Loads :
        /\ \E l \in Rebuilt(ld.ledger) :
             /\ mem' = [mem EXCEPT ![t] =
                  MergeRecallResult(Started(l), RecallOds[t], RecallFacts[t], l.turn + 1)]
             /\ found' = [found EXCEPT ![t] = [ods   |-> RecallOds[t] \ Known(l),
                                              facts |-> RecallFacts[t] \ l.facts]]
        /\ old' = [old EXCEPT ![t] = ld.version]
    /\ pc' = [pc EXCEPT ![t] = "recalled"]
    /\ UNCHANGED <<row, steps, next, idx, tries>>

\* A builder turn only loads its ledger; its tools fill it.
BeginBuilderTurn(t) ==
    /\ pc[t] = "idle" /\ idx[t] > 0 /\ Builder
    /\ \E ld \in Loads : /\ mem' = [mem EXCEPT ![t] = Started(ld.ledger)]
                         /\ old' = [old EXCEPT ![t] = ld.version]
    /\ pc' = [pc EXCEPT ![t] = "recalled"]
    /\ UNCHANGED <<row, steps, next, idx, tries, found>>

\* The user row is inserted after the ledger work; an error is not looked at.
SaveUserStep(t) ==
    /\ pc[t] = "recalled"
    /\ \/ steps' = steps \cup {[question |-> t, idx |-> idx[t]]}
       \/ DbMayFail /\ UNCHANGED steps
    /\ pc' = [pc EXCEPT ![t] = "loop"]
    /\ UNCHANGED <<row, mem, next, old, idx, tries, found>>

\* The lookup tool: an Od already in the ledger is answered from it.
LookupOd(t, o) ==
    /\ pc[t] = "loop" /\ ~Builder
    /\ o \notin Known(mem[t])
    /\ mem' = [mem EXCEPT ![t] = MergeLookupOd(@, {o}, @.turn)]
    /\ found' = [found EXCEPT ![t].ods = @ \cup {o}]
    /\ UNCHANGED <<row, steps, pc, next, old, idx, tries>>

\* A keyword lookup of a hot token runs recall again; a builder tool merges
\* what it explored or proposed, which has no Od entry.
KeywordLookup(t, f) ==
    /\ pc[t] = "loop"
    /\ f \notin mem[t].facts
    /\ \E S \in IF Builder THEN {{}} ELSE {{}} \cup {{o} : o \in Ods} :
         /\ mem' = [mem EXCEPT ![t] = MergeRecallResult(@, S, {f}, @.turn)]
         /\ found' = [found EXCEPT ![t] = [ods   |-> @.ods \cup (S \ Known(mem[t])),
                                         facts |-> @.facts \cup {f}]]
    /\ UNCHANGED <<row, steps, pc, next, old, idx, tries>>

\* The round loop is over: SaveWithRetry starts with the turn's own ledger.
\* After an LLM error only a builder turn, whose save is deferred, gets here.
EndLoop(t) ==
    /\ pc[t] = "loop"
    /\ next' = [next EXCEPT ![t] = mem[t]]
    /\ pc' = [pc EXCEPT ![t] = "save"]
    /\ UNCHANGED <<row, steps, mem, old, idx, tries, found>>

LLMFails(t) ==
    /\ LLMMayFail /\ ~Builder
    /\ pc[t] = "loop"
    /\ pc' = [pc EXCEPT ![t] = "failed"]
    /\ UNCHANGED <<row, steps, mem, next, old, idx, tries, found>>

-----------------------------------------------------------------------------
\* Save and SaveWithRetry

VersionMatches(t) == row.version = old[t]

\* The conditional UPDATE matched one row.
SaveOk(t) ==
    /\ pc[t] = "save" /\ VersionMatches(t)
    /\ row' = [agent |-> row.agent, version |-> old[t] + 1, schema |-> "current",
               ledger |-> next[t]]
    /\ pc' = [pc EXCEPT ![t] = "done"]
    /\ UNCHANGED <<steps, mem, next, old, idx, tries, found>>

\* Mutant: the first Save is counted as one of the retries.
ConflictCountsFirstSave(t) ==
    /\ pc[t] = "save" /\ ~VersionMatches(t)
    /\ pc' = [pc EXCEPT ![t] = IF tries[t] + 1 < MaxRetries THEN "reload" ELSE "dropped"]
    /\ UNCHANGED <<row, steps, mem, next, old, idx, tries, found>>

\* It matched none: ErrVersionConflict, and the loop's bound.
SaveConflict(t) ==
    /\ pc[t] = "save" /\ ~VersionMatches(t)
    /\ pc' = [pc EXCEPT ![t] = IF tries[t] < MaxRetries THEN "reload" ELSE "dropped"]
    /\ UNCHANGED <<row, steps, mem, next, old, idx, tries, found>>

\* Mutant: the turn count is compared after the turn has been closed.
ReapplyNextTurn(l, fresh) ==
    [fresh EXCEPT
        !.ods = MergeOds(@, {o \in Known(l) : l.ods[o].turn = l.turn + 1}, "lookup", l.turn),
        !.turn = @ + 1]

\* The reapply closure of a lakehouse turn: the Ods this turn loaded, merged
\* as looked-up ones, and the turn count.
Reapply(l, fresh) ==
    [fresh EXCEPT
        !.ods = MergeOds(@, {o \in Known(l) : l.ods[o].turn = l.turn}, "lookup", l.turn),
        !.turn = @ + 1]

\* A builder turn's reapply ignores the fresh copy.
Reapplied(t) == IF Builder THEN mem[t] ELSE Reapply(mem[t], Load)

Reload(t) ==
    /\ pc[t] = "reload"
    /\ next' = [next EXCEPT ![t] = Reapplied(t)]
    /\ old' = [old EXCEPT ![t] = LoadVersion]
    /\ tries' = [tries EXCEPT ![t] = @ + 1]
    /\ pc' = [pc EXCEPT ![t] = "save"]
    /\ UNCHANGED <<row, steps, mem, idx, found>>

\* The UPDATE or the reload returned another error: logged, the turn goes on.
SaveFails(t) ==
    /\ DbMayFail
    /\ pc[t] \in {"save", "reload"}
    /\ pc' = [pc EXCEPT ![t] = "failed"]
    /\ UNCHANGED <<row, steps, mem, next, old, idx, tries, found>>

Ended(t) == pc[t] \in {"done", "failed", "dropped"}

\* All requests were answered.
Finished ==
    /\ \A t \in Turns : Ended(t)
    /\ UNCHANGED vars

TurnStep(t) ==
    \/ ReadStepIndex(t) \/ BeginTurn(t) \/ BeginBuilderTurn(t) \/ SaveUserStep(t)
    \/ EndLoop(t) \/ LLMFails(t)
    \/ SaveOk(t) \/ SaveConflict(t) \/ Reload(t) \/ SaveFails(t)

Next ==
    \/ \E t \in Turns : TurnStep(t)
    \/ \E t \in Turns, o \in Ods : LookupOd(t, o)
    \/ \E t \in Turns, f \in Facts : KeywordLookup(t, f)
    \/ Finished

Spec == Init /\ [][Next]_vars

\* A turn is one goroutine that runs to its end; lookups are the LLM's choice
\* and get no fairness (maxRounds bounds them).
FairSpec == Spec /\ \A t \in Turns : WF_vars(TurnStep(t))

-----------------------------------------------------------------------------
\* Properties

LedgerType ==
    [turn : Nat, rebuilt : BOOLEAN, ods : [Ods -> [turn : Nat, method : Methods]],
     facts : SUBSET Facts]

\* Type invariant: the stored ledger, the private copies, and retries that
\* never exceed SaveWithRetry's bound.
TypeOK ==
    /\ row \in [agent : {"lakehouse", "builder"}, version : Nat,
               schema : {"current", "old"}, ledger : LedgerType]
    /\ steps \subseteq [question : Turns \cup Legacy, idx : Nat]
    /\ pc \in [Turns -> {"idle", "recalled", "loop", "save", "reload",
                         "done", "failed", "dropped"}]
    /\ mem \in [Turns -> LedgerType] /\ next \in [Turns -> LedgerType]
    /\ old \in [Turns -> Nat] /\ idx \in [Turns -> Nat]
    /\ tries \in [Turns -> 0..MaxRetries]
    /\ found \in [Turns -> [ods : SUBSET Ods, facts : SUBSET Facts]]

\* Ledger k has all of l: the same turn for each Od, loaded by a method at
\* least as strong, and every fact.
Keeps(l, k) ==
    /\ \A o \in Known(l) : /\ k.ods[o].turn = l.ods[o].turn
                           /\ Strength(l.ods[o].method) <= Strength(k.ods[o].method)
    /\ l.facts \subseteq k.facts

\* On a lakehouse thread no write of any turn removes an Od or a fact that the
\* thread had already stored, restamps it or weakens its load method: the
\* version check and the reapply of SaveWithRetry lose no other turn's work,
\* not even after a failed Load (save.go:39-78, 90-119, merge.go:128-169).
NothingForgotten == [][~Builder => Keeps(row.ledger, row'.ledger)]_vars

\* Once a lakehouse turn's save has succeeded, every Od the turn loaded anew is
\* stored, however many other turns wrote in between and whether or not its own
\* save went through the conflict path (handler_agent_lakehouse.go:1867-1885).
SavedTurnsKeepTheirOds ==
    ~Builder => \A t \in Turns : pc[t] = "done" => found[t].ods \subseteq Known(row.ledger)

\* The intents and tokens of a lakehouse turn are stored as well if what it
\* saved is its own copy; only a reload drops them, because the reapply re-merges
\* Ods alone (handler_agent_lakehouse.go:1868-1882).
SavedTurnsKeepTheirFacts ==
    ~Builder => \A t \in Turns : pc[t] = "done" /\ next[t] = mem[t] =>
                    found[t].facts \subseteq row.ledger.facts

\* On a thread whose ledger is of the current schema, as many turns as
\* SaveWithRetry has attempts never exhaust them: a conflict needs another
\* turn's successful save (save.go:82-85, "2 is fine").
NoTurnDropped == row.schema = "current" => \A t \in Turns : pc[t] # "dropped"

\* The work of a turn is lost to a failure only: its save is not given up, and
\* saved without a reload it is stored whole.
NoTurnIsLost == TypeOK /\ NoTurnDropped /\ SavedTurnsKeepTheirFacts

\* Every turn whose round loop is over ends, whatever the other turns do and
\* even when every one of its saves conflicts.
TurnEnds == \A t \in Turns : pc[t] = "save" ~> Ended(t)

\* builder_ledger.SaveWithRetry is a "reload-remerge-retry loop" (save.go:59-60):
\* on a builder thread, too, a save keeps what other turns have stored.
BuilderForgetsNothing ==
    [][Builder => row.ledger.facts \subseteq row'.ledger.facts]_vars
=============================================================================
