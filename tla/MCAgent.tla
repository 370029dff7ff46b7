------------------------------- MODULE MCAgent -------------------------------
(***************************************************************************)
(* The two protocols of a turn on one thread, checked one at a time: the    *)
(* thread memory ledger ("ledger") and the rounds of the turn with its plan *)
(* and mission ("rounds").  The one that does not run stays where it began. *)
(***************************************************************************)
EXTENDS MCThreadLedger, AgentTurn
CONSTANTS g1, g2

MCFeatures == <<g1, g2>>

\* A long turn alone, long enough to exhaust a feature's retries and close the
\* plan; and two short overlapping turns.
MCLengths == {[t \in Turns |-> IF t = t1 THEN 5 ELSE 0], [t \in Turns |-> 1]}

ASSUME RoundsConstants == TurnAssumption

VARIABLE part
allVars == <<part, vars, turnVars>>

-----------------------------------------------------------------------------
\* One initial state of each protocol, kept while the other is checked.
RoundsIdle == /\ agent = "builder"
              /\ \A t \in Turns : at[t] = "idle" /\ ~ctl[t].followUp /\ ~ctl[t].card

LedgerIdle == /\ row.agent = "lakehouse" /\ row.schema = "current"
              /\ [question |-> q1, idx |-> 1] \in steps

MCInit == /\ part \in {"ledger", "rounds"}
          /\ Init /\ (part = "rounds" => LedgerIdle)
          /\ TurnsInit /\ (part = "ledger" => RoundsIdle)

OfLedger(A) == part = "ledger" /\ A /\ UNCHANGED <<part, turnVars>>
OfRounds(A) == part = "rounds" /\ A /\ UNCHANGED <<part, vars>>

MCNext == OfLedger(Next) \/ OfRounds(TurnsNext)

\* The fairness of FairSpec and of TurnsFairSpec.
MCFairness == \A t \in Turns : WF_allVars(OfLedger(TurnStep(t))) /\ WF_allVars(OfRounds(HandlerStep(t)))

MCSpec == MCInit /\ [][MCNext]_allVars /\ MCFairness

-----------------------------------------------------------------------------
\* A turn ends: SaveWithRetry's loop whatever the other turns save, and the rounds
\* on every way out (handleAgentStreamLakehouse).
EveryTurnEnds == TurnEnds /\ HandlerReturns
=============================================================================
