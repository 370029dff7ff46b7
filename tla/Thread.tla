------------------------------- MODULE Thread -------------------------------
(***************************************************************************)
(* A conversation thread (ont_agent_thread) as agent-server sees it: the    *)
(* requests that run a turn on it.  ThreadLedger and AgentTurn model two    *)
(* sides of the same turns.                                                 *)
(***************************************************************************)
CONSTANT Turns  \* requests on the thread
=============================================================================
