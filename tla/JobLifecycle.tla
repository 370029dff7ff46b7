---------------------------- MODULE JobLifecycle ----------------------------
(***************************************************************************)
(* What the ingest_job queue promises about the status column of a row:    *)
(* queued -> running -> succeeded | failed | cancelled, a terminal status  *)
(* is never rewritten, and a row disappears only by deletion (a cascade    *)
(* from data_source, or the retention sweep).                              *)
(***************************************************************************)
CONSTANT Jobs
VARIABLE status

\* The terminal values of the ingest_job.status column.
Terminal == {"succeeded", "failed", "cancelled"}

\* "none": not inserted yet; "gone": the row was deleted.
Statuses == {"none", "queued", "running", "gone"} \cup Terminal

\* The edges a row may take in one step.
Edges == {<<"none", "queued">>, <<"queued", "running">>}
           \cup ({"running"} \X Terminal)
           \cup ((Statuses \ {"none", "gone"}) \X {"gone"})

Init == status = [j \in Jobs |-> "none"]

\* One statement may move several rows (the sweeps do), each along one edge.
Next == /\ status' \in [Jobs -> Statuses]
        /\ \A j \in Jobs : \/ status'[j] = status[j]
                           \/ <<status[j], status'[j]>> \in Edges

Spec == Init /\ [][Next]_status
=============================================================================
