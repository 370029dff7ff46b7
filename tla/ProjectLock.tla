----------------------------- MODULE ProjectLock -----------------------------
(***************************************************************************)
(* WithProjectLock: an import takes a connection of the service's bounded  *)
(* pool, waits on it for the project's session-level advisory lock, and    *)
(* runs its statements on further connections of the same pool while the   *)
(* first one only keeps the lock. Ordinary statements (heartbeats, sweeps, *)
(* reads) share the pool.                                                  *)
(***************************************************************************)
EXTENDS Integers, FiniteSets

CONSTANTS
    Importers,        \* calls of WithProjectLock
    Project,          \* the project each one imports into
    Hash,             \* hashtext(project): may collide
    Others,           \* callers of single statements
    PoolSize,         \* poolMaxOpenConns
    Cancellable,      \* imports whose context may be cancelled (requests)
    Mortal,           \* imports whose lock session the server may end
    MaxStatements     \* bound on the statements of one import

ASSUME LockAssumption ==
    /\ IsFiniteSet(Importers) /\ IsFiniteSet(Others)
    /\ Importers \cap Others = {}
    /\ PoolSize \in Nat \ {0}
    /\ Cancellable \subseteq Importers
    /\ Mortal \subseteq Importers
    /\ MaxStatements \in Nat \ {0}

VARIABLES
    pc,       \* of an import: idle | conn | lock | want | stmt | done
    session,  \* advisory locks held in the server: [key, by]
    left,     \* statements an import still has to run
    other     \* of an ordinary caller: idle | conn | stmt

vars == <<pc, session, left, other>>

Key(i) == Hash[Project[i]]

\* Imports that hold their dedicated connection, and those whose fn runs.
Dedicated == {i \in Importers : pc[i] \in {"lock", "want", "stmt"}}
InFn == {i \in Importers : pc[i] \in {"want", "stmt"}}
InStatement == {i \in Importers : pc[i] = "stmt"}
OthersInStatement == {o \in Others : other[o] = "stmt"}

\* Open connections in use; database/sql makes a caller wait at the limit.
InUse == Cardinality(Dedicated) + Cardinality(InStatement) + Cardinality(OthersInStatement)

\* Mutant of ConnFree: the limit is off by one.
ConnFreeOneTooMany == InUse <= PoolSize

ConnFree == InUse < PoolSize

Init ==
    /\ pc = [i \in Importers |-> "idle"]
    /\ session = {}
    /\ left = [i \in Importers |-> MaxStatements]
    /\ other = [o \in Others |-> "idle"]

Begin(i) ==
    /\ pc[i] = "idle"
    /\ pc' = [pc EXCEPT ![i] = "conn"]
    /\ UNCHANGED <<session, left, other>>

\* db.Conn(ctx) returns a connection.
TakeConn(i) ==
    /\ pc[i] = "conn" /\ ConnFree
    /\ pc' = [pc EXCEPT ![i] = "lock"]
    /\ UNCHANGED <<session, left, other>>

\* Mutant of LockFree: every connection asks for a key of its own.
LockFreePerImport(i) == ~\E l \in session : l.by = i

LockFree(i) == ~\E l \in session : l.key = Key(i)

\* pg_advisory_lock returns: the server grants the key.
GrantLock(i) ==
    /\ pc[i] = "lock" /\ LockFree(i)
    /\ session' = session \cup {[key |-> Key(i), by |-> i]}
    /\ pc' = [pc EXCEPT ![i] = "want"]
    /\ UNCHANGED <<left, other>>

\* fn runs its next statement on a second connection of the pool, for which
\* it waits while it keeps the first one and the lock.
FnTakesConn(i) ==
    /\ pc[i] = "want" /\ left[i] > 0 /\ ConnFree
    /\ pc' = [pc EXCEPT ![i] = "stmt"]
    /\ UNCHANGED <<session, left, other>>

\* Mutant of FnStatementDone: the rows of a failed statement are not closed,
\* its connection never comes back.
FnStatementLeaks(i) ==
    /\ pc[i] = "stmt" /\ left[i] > 0
    /\ left' = [left EXCEPT ![i] = 0]
    /\ UNCHANGED <<pc, session, other>>

\* A statement that fails is fn's last one.
FnStatementDone(i) ==
    /\ pc[i] = "stmt"
    /\ \E rest \in {left[i] - 1, 0} : left' = [left EXCEPT ![i] = rest]
    /\ pc' = [pc EXCEPT ![i] = "want"]
    /\ UNCHANGED <<session, other>>

\* Mutant of Unlock: an error of fn skips pg_advisory_unlock and the
\* connection goes back to the pool with the lock.
UnlockMissed(i) ==
    /\ pc[i] = "want" /\ left[i] = 0
    /\ pc' = [pc EXCEPT ![i] = "done"]
    /\ UNCHANGED <<session, left, other>>

\* fn has returned; the deferred unlock runs on a fresh context and the
\* connection goes back to the pool.
Unlock(i) ==
    /\ pc[i] = "want" /\ left[i] = 0
    /\ session' = {l \in session : l.by # i}
    /\ pc' = [pc EXCEPT ![i] = "done"]
    /\ UNCHANGED <<left, other>>

\* The request is cancelled while it waits for a connection or for the lock:
\* WithProjectLock returns the context's error.
Cancelled(i) ==
    /\ i \in Cancellable /\ pc[i] \in {"conn", "lock"}
    /\ pc' = [pc EXCEPT ![i] = "done"]
    /\ UNCHANGED <<session, left, other>>

\* It is cancelled while fn waits for a connection: fn returns the error.
FnCancelled(i) ==
    /\ i \in Cancellable /\ pc[i] = "want" /\ left[i] > 0
    /\ left' = [left EXCEPT ![i] = 0]
    /\ UNCHANGED <<pc, session, other>>

\* The server ends the session of the dedicated connection; nothing uses that
\* connection while fn runs, so fn goes on.
SessionDies(i) ==
    /\ i \in Mortal /\ pc[i] \in {"want", "stmt"}
    /\ session' = {l \in session : l.by # i}
    /\ session' # session
    /\ UNCHANGED <<pc, left, other>>

\* An ordinary statement outside any import.
OtherCalls(o) ==
    /\ other[o] = "idle"
    /\ other' = [other EXCEPT ![o] = "conn"]
    /\ UNCHANGED <<pc, session, left>>

OtherTakesConn(o) ==
    /\ other[o] = "conn" /\ ConnFree
    /\ other' = [other EXCEPT ![o] = "stmt"]
    /\ UNCHANGED <<pc, session, left>>

OtherDone(o) ==
    /\ other[o] = "stmt"
    /\ other' = [other EXCEPT ![o] = "idle"]
    /\ UNCHANGED <<pc, session, left>>

Import(i) == \/ TakeConn(i) \/ GrantLock(i) \/ FnTakesConn(i)
             \/ FnStatementDone(i) \/ Unlock(i)

Next == \/ \E i \in Importers : \/ Begin(i) \/ Import(i) \/ Cancelled(i)
                                \/ FnCancelled(i) \/ SessionDies(i)
        \/ \E o \in Others : OtherCalls(o) \/ OtherTakesConn(o) \/ OtherDone(o)

Spec == Init /\ [][Next]_vars

\* database/sql serves waiters in order and the lock manager queues them: a
\* caller that waits while the resource becomes free again and again gets it.
Fairness ==
    /\ \A i \in Importers : SF_vars(Import(i))
    /\ \A o \in Others : SF_vars(OtherTakesConn(o)) /\ WF_vars(OtherDone(o))

FairSpec == Spec /\ Fairness

-----------------------------------------------------------------------------
(* Properties *)

\* Type invariant: at most poolMaxOpenConns connections are ever in use.
TypeOK ==
    /\ pc \in [Importers -> {"idle", "conn", "lock", "want", "stmt", "done"}]
    /\ session \subseteq [key : {Key(i) : i \in Importers}, by : Importers]
    /\ left \in [Importers -> 0..MaxStatements]
    /\ other \in [Others -> {"idle", "conn", "stmt"}]
    /\ InUse <= PoolSize

\* WithProjectLock: "two jobs never race on CREATE TABLE / COPY into the
\* shared proj_<hex> schema": the fn of two imports of one project never run
\* at once, as long as the server ends no lock session of that project's
\* imports.
MutualExclusion ==
    \A i, k \in InFn \ Mortal : Project[i] = Project[k] => i = k

\* A lock the server holds belongs to an import whose fn is running: nothing
\* leaks a lock into the pool with the connection it was taken on.
NoLeakedLock == \A l \in session : l.by \in InFn

\* Nothing of the pool is lost: connections stay within poolMaxOpenConns and no lock
\* outlives its import.
PoolIsKept == TypeOK /\ NoLeakedLock

\* Every import gets its connections and its lock, and ends.
ImportEnds == \A i \in Importers : pc[i] = "conn" ~> pc[i] = "done"

\* A heartbeat, a sweep or a read gets a connection in the end.
StatementServed == \A o \in Others : other[o] = "conn" ~> other[o] = "stmt"

\* WithProjectLock: "Different projects hash to different keys and never block
\* each other": an import that is alone in its project, and whose key is its
\* own, gets through.
ProjectsNeverBlockEachOther ==
    \A i \in Importers :
        (\A k \in Importers \ {i} : Key(k) # Key(i)) => (pc[i] = "conn" ~> pc[i] = "done")
=============================================================================
