------------------------- MODULE SourceIngestProofs -------------------------
(***************************************************************************)
(* Proofs about SourceIngest for every set of sources, whatever they        *)
(* contain, with and without failing statements and a crash.                *)
(***************************************************************************)
EXTENDS SourceIngest, TLAPS

SourceStep(s) ==
    \/ UploadStep(s) \/ JobStart(s) \/ ObserveCancel(s) \/ SweepJob(s)
    \/ HandlerStep(s) \/ ConfirmStep(s) \/ DeleteStep(s) \/ UserStep(s)

\* The project lock is held where the code is inside WithProjectLock.
LockInv ==
    \A s \in Sources :
        /\ upl[s] \in {"check", "insert", "enqueue"} => lock = Holder("upload", s)
        /\ h[s] \in {"load", "populate", "project"} => lock = Holder("job", s)
        /\ conf[s] \in {"list", "tx"} => lock = Holder("confirm", s)

\* A source has a job, and its handler runs, only after the upload enqueued it;
\* a running handler's job is not queued.
JobInv ==
    \A s \in Sources :
        /\ job[s] # "none" => upl[s] = "accepted"
        /\ h[s] # "off" => job[s] \notin {"none", "queued"}

\* The source is imported or staged, or will be once what is under way ends.
Alive(s) ==
    \/ ds[s] \in {"syncing", "ready"}
    \/ /\ RowExists(s)
       /\ \/ upl[s] = "enqueue" \/ job[s] = "queued"
          \/ h[s] \notin {"off", "ok", "err"}

\* A live source is one the dedup query sees; at most one of the same content is
\* alive, and none while an upload is between its check and its insert.
DedupInv ==
    /\ \A s \in Sources : Alive(s) => ds[s] # "failed"
    /\ \A s, t \in Sources : s # t /\ Content[s] = Content[t] =>
          ~(Alive(s) /\ Alive(t)) /\ ~(upl[s] = "insert" /\ Alive(t))

-----------------------------------------------------------------------------
(* Types, and which source a step is about *)

Touches(s) ==
    \A t \in Sources \ {s} :
        /\ ds'[t] = ds[t] /\ schemaCol'[t] = schemaCol[t] /\ roles'[t] = roles[t] /\ stg'[t] = stg[t]
        /\ upl'[t] = upl[t] /\ job'[t] = job[t] /\ cancelReq'[t] = cancelReq[t] /\ seen'[t] = seen[t]
        /\ h'[t] = h[t] /\ conf'[t] = conf[t] /\ nameMap'[t] = nameMap[t] /\ moved'[t] = moved[t]
        /\ del'[t] = del[t]

LEMMA NamesAreTableNames ==
    ASSUME NEW s \in Sources
    PROVE  Plain(s) \in TableNames /\ Suffixed(s) \in TableNames /\ CollisionFree(s) \in TableNames
BY DEF TableNames, CollisionFree

LEMMA FinalNameIsTableName ==
    ASSUME TypeOK, NEW s \in Sources
    PROVE  FinalName(s) \in TableNames
BY NamesAreTableNames DEF TypeOK, FinalName

\* A step of a source keeps the types and the entries of the other sources.
LEMMA StepTypes ==
    ASSUME TypeOK, NEW s \in Sources, SourceStep(s)
    PROVE  TypeOK' /\ Touches(s)
<1>h. \A k \in {"upload", "job", "confirm"} : Holder(k, s) \in {Holder(w, t) : w \in {"upload", "job", "confirm"}, t \in Sources}
  OBVIOUS
<1>n. CollisionFree(s) \in TableNames /\ FinalName(s) \in TableNames
  BY NamesAreTableNames, FinalNameIsTableName
<1>1. ASSUME UploadLock(s) PROVE TypeOK' /\ Touches(s)
  BY <1>1, <1>h, <1>n DEF UploadLock, TypeOK, Touches, dsVars, jobVars, confVars
<1>2. ASSUME UploadRejected(s) PROVE TypeOK' /\ Touches(s)
  BY <1>2, <1>h, <1>n DEF UploadRejected, TypeOK, Touches, dsVars, jobVars, confVars
<1>3. ASSUME UploadPasses(s) PROVE TypeOK' /\ Touches(s)
  BY <1>3, <1>h, <1>n DEF UploadPasses, TypeOK, Touches, dsVars, jobVars, confVars
<1>4. ASSUME UploadInsert(s) PROVE TypeOK' /\ Touches(s)
  BY <1>4, <1>h, <1>n DEF UploadInsert, TypeOK, Touches, dsVars, jobVars, confVars
<1>5. ASSUME UploadInsertFails(s) PROVE TypeOK' /\ Touches(s)
  BY <1>5, <1>h, <1>n DEF UploadInsertFails, TypeOK, Touches, dsVars, jobVars, confVars
<1>6. ASSUME UploadEnqueue(s) PROVE TypeOK' /\ Touches(s)
  BY <1>6, <1>h, <1>n DEF UploadEnqueue, TypeOK, Touches, dsVars, jobVars, confVars
<1>7. ASSUME UploadEnqueueFails(s) PROVE TypeOK' /\ Touches(s)
  BY <1>7, <1>h, <1>n DEF UploadEnqueueFails, TypeOK, Touches, dsVars, jobVars, confVars
<1>8. ASSUME JobStart(s) PROVE TypeOK' /\ Touches(s)
  BY <1>8, <1>h, <1>n DEF JobStart, TypeOK, Touches, dsVars, jobVars, confVars
<1>9. ASSUME ObserveCancel(s) PROVE TypeOK' /\ Touches(s)
  BY <1>9, <1>h, <1>n DEF ObserveCancel, TypeOK, Touches, dsVars, jobVars, confVars
<1>10. ASSUME SweepJob(s) PROVE TypeOK' /\ Touches(s)
  BY <1>10, <1>h, <1>n DEF SweepJob, TypeOK, Touches, dsVars, jobVars, confVars
<1>11. ASSUME Parsed(s) PROVE TypeOK' /\ Touches(s)
  BY <1>11, <1>h, <1>n DEF Parsed, HandlerAt, TypeOK, Touches, dsVars, jobVars, confVars
<1>12. ASSUME ParseFails(s) PROVE TypeOK' /\ Touches(s)
  BY <1>12, <1>h, <1>n DEF ParseFails, HandlerFails, FailSource, RowExists, TypeOK, Touches, dsVars, jobVars, confVars
<1>13. ASSUME CreateStaging(s) PROVE TypeOK' /\ Touches(s)
  BY <1>13, <1>h, <1>n DEF CreateStaging, HandlerAt, TypeOK, Touches, dsVars, jobVars, confVars
<1>14. ASSUME BeginCopy(s) PROVE TypeOK' /\ Touches(s)
  BY <1>14, <1>h, <1>n DEF BeginCopy, HandlerAt, TypeOK, Touches, dsVars, jobVars, confVars
<1>15. ASSUME CopyFails(s) PROVE TypeOK' /\ Touches(s)
  BY <1>15, <1>h, <1>n DEF CopyFails, HandlerFails, FailSource, RowExists, TypeOK, Touches, dsVars, jobVars, confVars
<1>16. ASSUME CopyCommit(s) PROVE TypeOK' /\ Touches(s)
  BY <1>16, <1>h, <1>n DEF CopyCommit, HandlerAt, TypeOK, Touches, dsVars, jobVars, confVars
<1>17. ASSUME MarkReady(s) PROVE TypeOK' /\ Touches(s)
  BY <1>17, <1>h, <1>n DEF MarkReady, HandlerAt, RowExists, TypeOK, Touches, dsVars, jobVars, confVars
<1>18. ASSUME MarkReadyFails(s) PROVE TypeOK' /\ Touches(s)
  BY <1>18, <1>h, <1>n DEF MarkReadyFails, HandlerAt, TypeOK, Touches, dsVars, jobVars, confVars
<1>19. ASSUME PbixLock(s) PROVE TypeOK' /\ Touches(s)
  BY <1>19, <1>h, <1>n DEF PbixLock, HandlerAt, TypeOK, Touches, dsVars, jobVars, confVars
<1>20. ASSUME PbixCancelled(s) PROVE TypeOK' /\ Touches(s)
  BY <1>20, <1>h, <1>n DEF PbixCancelled, HandlerAt, TypeOK, Touches, dsVars, jobVars, confVars
<1>21. ASSUME PbixLoad(s) PROVE TypeOK' /\ Touches(s)
  BY <1>21, <1>h, <1>n DEF PbixLoad, HandlerAt, TypeOK, Touches, dsVars, jobVars, confVars
<1>22. ASSUME PbixReady(s) PROVE TypeOK' /\ Touches(s)
  BY <1>22, <1>h, <1>n DEF PbixReady, HandlerAt, RowExists, TypeOK, Touches, dsVars, jobVars, confVars
<1>23. ASSUME PbixSetProject(s) PROVE TypeOK' /\ Touches(s)
  BY <1>23, <1>h, <1>n DEF PbixSetProject, HandlerAt, TypeOK, Touches, dsVars, jobVars, confVars
<1>24. ASSUME PbixFails(s) PROVE TypeOK' /\ Touches(s)
  BY <1>24, <1>h, <1>n DEF PbixFails, HandlerFails, FailSource, RowExists, TypeOK, Touches, dsVars, jobVars, confVars
<1>25. ASSUME JobEnds(s) PROVE TypeOK' /\ Touches(s)
  BY <1>25, <1>h, <1>n DEF JobEnds, TypeOK, Touches, dsVars, jobVars, confVars
<1>26. ASSUME ConfirmRead(s) PROVE TypeOK' /\ Touches(s)
  BY <1>26, <1>h, <1>n DEF ConfirmRead, ConfirmGoes, TypeOK, Touches, dsVars, jobVars, confVars
<1>27. ASSUME ConfirmResolve(s) PROVE TypeOK' /\ Touches(s)
  BY <1>27, <1>h, <1>n DEF ConfirmResolve, ConfirmGoes, TypeOK, Touches, dsVars, jobVars, confVars
<1>28. ASSUME ConfirmMoves(s) PROVE TypeOK' /\ Touches(s)
  BY <1>28, <1>h, <1>n DEF ConfirmMoves, ConfirmGoes, TypeOK, Touches, dsVars, jobVars, confVars
<1>29. ASSUME ConfirmMoveFails(s) PROVE TypeOK' /\ Touches(s)
  BY <1>29, <1>h, <1>n DEF ConfirmMoveFails, ConfirmFails, ConfirmGoes, TypeOK, Touches, dsVars, jobVars, confVars
<1>30. ASSUME ConfirmCommit(s) PROVE TypeOK' /\ Touches(s)
  BY <1>30, <1>h, <1>n DEF ConfirmCommit, ConfirmGoes, RowExists, TypeOK, Touches, dsVars, jobVars, confVars
<1>31. ASSUME ConfirmCommitFails(s) PROVE TypeOK' /\ Touches(s)
  BY <1>31, <1>h, <1>n DEF ConfirmCommitFails, ConfirmFails, ConfirmGoes, TypeOK, Touches, dsVars, jobVars, confVars
<1>32. ASSUME DeleteSchema(s) PROVE TypeOK' /\ Touches(s)
  BY <1>32, <1>h, <1>n DEF DeleteSchema, TypeOK, Touches, dsVars, jobVars, confVars
<1>33. ASSUME DeleteTables(s) PROVE TypeOK' /\ Touches(s)
  BY <1>33, <1>h, <1>n DEF DeleteTables, TypeOK, Touches, dsVars, jobVars, confVars
<1>34. ASSUME CancelJob(s) PROVE TypeOK' /\ Touches(s)
  BY <1>34, <1>h, <1>n DEF CancelJob, TypeOK, Touches, dsVars, jobVars, confVars
<1>35. ASSUME PostState(s) PROVE TypeOK' /\ Touches(s)
  BY <1>35, <1>h, <1>n DEF PostState, SaveState, TypeOK, Touches, dsVars, jobVars, confVars
<1>36. ASSUME ConfirmWithBody(s) PROVE TypeOK' /\ Touches(s)
  BY <1>36, <1>h, <1>n, IngestAssumption DEF ConfirmWithBody, SaveState, TypeOK, Touches, dsVars, jobVars, confVars
<1>37. ASSUME ConfirmBare(s) PROVE TypeOK' /\ Touches(s)
  BY <1>37, <1>h, <1>n, IngestAssumption DEF ConfirmBare, TypeOK, Touches, dsVars, jobVars, confVars
<1>38. ASSUME DeleteRow(s) PROVE TypeOK' /\ Touches(s)
  BY <1>38, <1>h, <1>n DEF DeleteRow, TypeOK, Touches, dsVars, jobVars, confVars
<1> QED BY <1>1, <1>2, <1>3, <1>4, <1>5, <1>6, <1>7, <1>8, <1>9, <1>10, <1>11, <1>12, <1>13,
      <1>14, <1>15, <1>16, <1>17, <1>18, <1>19, <1>20, <1>21, <1>22, <1>23, <1>24, <1>25,
      <1>26, <1>27, <1>28, <1>29, <1>30, <1>31, <1>32, <1>33, <1>34, <1>35, <1>36, <1>37, <1>38
      DEF SourceStep, UploadStep, HandlerStep, ConfirmStep, DeleteStep, UserStep

-----------------------------------------------------------------------------
(* The lock, the jobs and the dedup query *)

LEMMA HoldersDiffer ==
    /\ \A j, k \in {"upload", "job", "confirm"}, s, t \in Sources :
          Holder(j, s) = Holder(k, t) => j = k /\ s = t
    /\ \A j \in {"upload", "job", "confirm"}, s \in Sources : Holder(j, s) # Free
BY DEF Holder, Free

\* The locks and phases of one source.
LockedBy(s) ==
    /\ upl[s] \in {"check", "insert", "enqueue"} => lock = Holder("upload", s)
    /\ h[s] \in {"load", "populate", "project"} => lock = Holder("job", s)
    /\ conf[s] \in {"list", "tx"} => lock = Holder("confirm", s)

\* The lock changes hands only in the source's own step, which takes it free or
\* gives back its own.
LEMMA LockStep ==
    ASSUME TypeOK, LockInv, JobInv, NEW s \in Sources, SourceStep(s)
    PROVE  /\ LockedBy(s)'
           /\ lock = Free \/ lock.src = s \/ lock' = lock
<1>l. LockedBy(s)
  BY DEF LockInv, LockedBy
<1>f. Free # Holder("upload", s) /\ Free # Holder("job", s) /\ Free # Holder("confirm", s)
      /\ Holder("upload", s) # Holder("job", s) /\ Holder("upload", s) # Holder("confirm", s)
      /\ Holder("job", s) # Holder("confirm", s)
      /\ Holder("upload", s).src = s /\ Holder("job", s).src = s /\ Holder("confirm", s).src = s
  BY DEF Free, Holder
<1>1. ASSUME UploadLock(s) PROVE LockedBy(s)' /\ (lock = Free \/ lock.src = s \/ lock' = lock)
  BY <1>1, <1>l, <1>f DEF UploadLock, TypeOK, LockedBy, dsVars, jobVars, confVars
<1>2. ASSUME UploadRejected(s) PROVE LockedBy(s)' /\ (lock = Free \/ lock.src = s \/ lock' = lock)
  BY <1>2, <1>l, <1>f DEF UploadRejected, TypeOK, LockedBy, dsVars, jobVars, confVars
<1>3. ASSUME UploadPasses(s) PROVE LockedBy(s)' /\ (lock = Free \/ lock.src = s \/ lock' = lock)
  BY <1>3, <1>l, <1>f DEF UploadPasses, TypeOK, LockedBy, dsVars, jobVars, confVars
<1>4. ASSUME UploadInsert(s) PROVE LockedBy(s)' /\ (lock = Free \/ lock.src = s \/ lock' = lock)
  BY <1>4, <1>l, <1>f DEF UploadInsert, TypeOK, LockedBy, dsVars, jobVars, confVars
<1>5. ASSUME UploadInsertFails(s) PROVE LockedBy(s)' /\ (lock = Free \/ lock.src = s \/ lock' = lock)
  BY <1>5, <1>l, <1>f DEF UploadInsertFails, TypeOK, LockedBy, dsVars, jobVars, confVars
<1>6. ASSUME UploadEnqueue(s) PROVE LockedBy(s)' /\ (lock = Free \/ lock.src = s \/ lock' = lock)
  BY <1>6, <1>l, <1>f DEF UploadEnqueue, TypeOK, LockedBy, dsVars, jobVars, confVars
<1>7. ASSUME UploadEnqueueFails(s) PROVE LockedBy(s)' /\ (lock = Free \/ lock.src = s \/ lock' = lock)
  BY <1>7, <1>l, <1>f DEF UploadEnqueueFails, TypeOK, LockedBy, dsVars, jobVars, confVars
<1>8. ASSUME JobStart(s) PROVE LockedBy(s)' /\ (lock = Free \/ lock.src = s \/ lock' = lock)
  BY <1>8, <1>l, <1>f DEF JobStart, TypeOK, LockedBy, dsVars, jobVars, confVars
<1>9. ASSUME ObserveCancel(s) PROVE LockedBy(s)' /\ (lock = Free \/ lock.src = s \/ lock' = lock)
  BY <1>9, <1>l, <1>f DEF ObserveCancel, TypeOK, LockedBy, dsVars, jobVars, confVars
<1>10. ASSUME SweepJob(s) PROVE LockedBy(s)' /\ (lock = Free \/ lock.src = s \/ lock' = lock)
  BY <1>10, <1>l, <1>f DEF SweepJob, TypeOK, LockedBy, dsVars, jobVars, confVars
<1>11. ASSUME Parsed(s) PROVE LockedBy(s)' /\ (lock = Free \/ lock.src = s \/ lock' = lock)
  BY <1>11, <1>l, <1>f DEF Parsed, HandlerAt, TypeOK, LockedBy, dsVars, jobVars, confVars
<1>12. ASSUME ParseFails(s) PROVE LockedBy(s)' /\ (lock = Free \/ lock.src = s \/ lock' = lock)
  BY <1>12, <1>l, <1>f DEF ParseFails, HandlerFails, FailSource, RowExists, TypeOK, LockedBy, dsVars, jobVars, confVars
<1>13. ASSUME CreateStaging(s) PROVE LockedBy(s)' /\ (lock = Free \/ lock.src = s \/ lock' = lock)
  BY <1>13, <1>l, <1>f DEF CreateStaging, HandlerAt, TypeOK, LockedBy, dsVars, jobVars, confVars
<1>14. ASSUME BeginCopy(s) PROVE LockedBy(s)' /\ (lock = Free \/ lock.src = s \/ lock' = lock)
  BY <1>14, <1>l, <1>f DEF BeginCopy, HandlerAt, TypeOK, LockedBy, dsVars, jobVars, confVars
<1>15. ASSUME CopyFails(s) PROVE LockedBy(s)' /\ (lock = Free \/ lock.src = s \/ lock' = lock)
  BY <1>15, <1>l, <1>f DEF CopyFails, HandlerFails, FailSource, RowExists, TypeOK, LockedBy, dsVars, jobVars, confVars
<1>16. ASSUME CopyCommit(s) PROVE LockedBy(s)' /\ (lock = Free \/ lock.src = s \/ lock' = lock)
  BY <1>16, <1>l, <1>f DEF CopyCommit, HandlerAt, TypeOK, LockedBy, dsVars, jobVars, confVars
<1>17. ASSUME MarkReady(s) PROVE LockedBy(s)' /\ (lock = Free \/ lock.src = s \/ lock' = lock)
  BY <1>17, <1>l, <1>f DEF MarkReady, HandlerAt, RowExists, TypeOK, LockedBy, dsVars, jobVars, confVars
<1>18. ASSUME MarkReadyFails(s) PROVE LockedBy(s)' /\ (lock = Free \/ lock.src = s \/ lock' = lock)
  BY <1>18, <1>l, <1>f DEF MarkReadyFails, HandlerAt, TypeOK, LockedBy, dsVars, jobVars, confVars
<1>19. ASSUME PbixLock(s) PROVE LockedBy(s)' /\ (lock = Free \/ lock.src = s \/ lock' = lock)
  BY <1>19, <1>l, <1>f DEF PbixLock, HandlerAt, TypeOK, LockedBy, dsVars, jobVars, confVars
<1>20. ASSUME PbixCancelled(s) PROVE LockedBy(s)' /\ (lock = Free \/ lock.src = s \/ lock' = lock)
  BY <1>20, <1>l, <1>f DEF PbixCancelled, HandlerAt, TypeOK, LockedBy, dsVars, jobVars, confVars
<1>21. ASSUME PbixLoad(s) PROVE LockedBy(s)' /\ (lock = Free \/ lock.src = s \/ lock' = lock)
  BY <1>21, <1>l, <1>f DEF PbixLoad, HandlerAt, TypeOK, LockedBy, dsVars, jobVars, confVars
<1>22. ASSUME PbixReady(s) PROVE LockedBy(s)' /\ (lock = Free \/ lock.src = s \/ lock' = lock)
  BY <1>22, <1>l, <1>f DEF PbixReady, HandlerAt, RowExists, TypeOK, LockedBy, dsVars, jobVars, confVars
<1>23. ASSUME PbixSetProject(s) PROVE LockedBy(s)' /\ (lock = Free \/ lock.src = s \/ lock' = lock)
  BY <1>23, <1>l, <1>f DEF PbixSetProject, HandlerAt, TypeOK, LockedBy, dsVars, jobVars, confVars
<1>24. ASSUME PbixFails(s) PROVE LockedBy(s)' /\ (lock = Free \/ lock.src = s \/ lock' = lock)
  BY <1>24, <1>l, <1>f DEF PbixFails, HandlerFails, FailSource, RowExists, TypeOK, LockedBy, dsVars, jobVars, confVars
<1>25. ASSUME JobEnds(s) PROVE LockedBy(s)' /\ (lock = Free \/ lock.src = s \/ lock' = lock)
  BY <1>25, <1>l, <1>f DEF JobEnds, TypeOK, LockedBy, dsVars, jobVars, confVars
<1>26. ASSUME ConfirmRead(s) PROVE LockedBy(s)' /\ (lock = Free \/ lock.src = s \/ lock' = lock)
  BY <1>26, <1>l, <1>f DEF ConfirmRead, ConfirmGoes, TypeOK, LockedBy, dsVars, jobVars, confVars
<1>27. ASSUME ConfirmResolve(s) PROVE LockedBy(s)' /\ (lock = Free \/ lock.src = s \/ lock' = lock)
  BY <1>27, <1>l, <1>f DEF ConfirmResolve, ConfirmGoes, TypeOK, LockedBy, dsVars, jobVars, confVars
<1>28. ASSUME ConfirmMoves(s) PROVE LockedBy(s)' /\ (lock = Free \/ lock.src = s \/ lock' = lock)
  BY <1>28, <1>l, <1>f DEF ConfirmMoves, ConfirmGoes, TypeOK, LockedBy, dsVars, jobVars, confVars
<1>29. ASSUME ConfirmMoveFails(s) PROVE LockedBy(s)' /\ (lock = Free \/ lock.src = s \/ lock' = lock)
  BY <1>29, <1>l, <1>f DEF ConfirmMoveFails, ConfirmFails, ConfirmGoes, TypeOK, LockedBy, dsVars, jobVars, confVars
<1>30. ASSUME ConfirmCommit(s) PROVE LockedBy(s)' /\ (lock = Free \/ lock.src = s \/ lock' = lock)
  BY <1>30, <1>l, <1>f DEF ConfirmCommit, ConfirmGoes, RowExists, TypeOK, LockedBy, dsVars, jobVars, confVars
<1>31. ASSUME ConfirmCommitFails(s) PROVE LockedBy(s)' /\ (lock = Free \/ lock.src = s \/ lock' = lock)
  BY <1>31, <1>l, <1>f DEF ConfirmCommitFails, ConfirmFails, ConfirmGoes, TypeOK, LockedBy, dsVars, jobVars, confVars
<1>32. ASSUME DeleteSchema(s) PROVE LockedBy(s)' /\ (lock = Free \/ lock.src = s \/ lock' = lock)
  BY <1>32, <1>l, <1>f DEF DeleteSchema, TypeOK, LockedBy, dsVars, jobVars, confVars
<1>33. ASSUME DeleteTables(s) PROVE LockedBy(s)' /\ (lock = Free \/ lock.src = s \/ lock' = lock)
  BY <1>33, <1>l, <1>f DEF DeleteTables, TypeOK, LockedBy, dsVars, jobVars, confVars
<1>34. ASSUME CancelJob(s) PROVE LockedBy(s)' /\ (lock = Free \/ lock.src = s \/ lock' = lock)
  BY <1>34, <1>l, <1>f DEF CancelJob, TypeOK, LockedBy, dsVars, jobVars, confVars
<1>35. ASSUME PostState(s) PROVE LockedBy(s)' /\ (lock = Free \/ lock.src = s \/ lock' = lock)
  BY <1>35, <1>l, <1>f DEF PostState, SaveState, TypeOK, LockedBy, dsVars, jobVars, confVars
<1>36. ASSUME ConfirmWithBody(s) PROVE LockedBy(s)' /\ (lock = Free \/ lock.src = s \/ lock' = lock)
  BY <1>36, <1>l, <1>f DEF ConfirmWithBody, SaveState, TypeOK, LockedBy, dsVars, jobVars, confVars
<1>37. ASSUME ConfirmBare(s) PROVE LockedBy(s)' /\ (lock = Free \/ lock.src = s \/ lock' = lock)
  BY <1>37, <1>l, <1>f DEF ConfirmBare, TypeOK, LockedBy, dsVars, jobVars, confVars
<1>38. ASSUME DeleteRow(s) PROVE LockedBy(s)' /\ (lock = Free \/ lock.src = s \/ lock' = lock)
  BY <1>38, <1>l, <1>f DEF DeleteRow, TypeOK, LockedBy, dsVars, jobVars, confVars
<1> QED BY <1>1, <1>2, <1>3, <1>4, <1>5, <1>6, <1>7, <1>8, <1>9, <1>10, <1>11, <1>12, <1>13,
      <1>14, <1>15, <1>16, <1>17, <1>18, <1>19, <1>20, <1>21, <1>22, <1>23, <1>24, <1>25,
      <1>26, <1>27, <1>28, <1>29, <1>30, <1>31, <1>32, <1>33, <1>34, <1>35, <1>36, <1>37, <1>38
      DEF SourceStep, UploadStep, HandlerStep, ConfirmStep, DeleteStep, UserStep

\* What a step of a source does to its job and to what the dedup query sees of it.
LEMMA JobStep ==
    ASSUME TypeOK, JobInv, LockInv, DedupInv, NEW s \in Sources, SourceStep(s)
    PROVE  /\ job'[s] # "none" => upl'[s] = "accepted"
           /\ h'[s] # "off" => job'[s] \notin {"none", "queued"}
           /\ Alive(s)' => ds'[s] # "failed" /\ (Alive(s) \/ upl[s] = "insert")
           /\ upl'[s] = "insert" => (upl[s] = "insert" \/ (upl[s] = "check" /\ Duplicates(s) = {}))
<1>j. /\ job[s] # "none" => upl[s] = "accepted"
      /\ h[s] # "off" => job[s] \notin {"none", "queued"}
  BY DEF JobInv
<1>t. /\ DOMAIN ds = Sources /\ DOMAIN upl = Sources /\ DOMAIN job = Sources /\ DOMAIN h = Sources
      /\ ds = [t \in Sources |-> ds[t]] /\ upl = [t \in Sources |-> upl[t]]
      /\ job = [t \in Sources |-> job[t]] /\ h = [t \in Sources |-> h[t]]
  BY DEF TypeOK
<1>a. Alive(s) => ds[s] # "failed"
  BY DEF DedupInv
<1> DEFINE Goal == /\ job'[s] # "none" => upl'[s] = "accepted"
                   /\ h'[s] # "off" => job'[s] \notin {"none", "queued"}
                   /\ Alive(s)' => ds'[s] # "failed" /\ (Alive(s) \/ upl[s] = "insert")
                   /\ upl'[s] = "insert" => (upl[s] = "insert" \/ (upl[s] = "check" /\ Duplicates(s) = {}))
<1>1. ASSUME UploadLock(s) PROVE Goal
  BY <1>1, <1>t, <1>j, <1>a DEF UploadLock, Alive, RowExists, dsVars, jobVars, confVars
<1>2. ASSUME UploadRejected(s) PROVE Goal
  BY <1>2, <1>t, <1>j, <1>a DEF UploadRejected, Alive, RowExists, dsVars, jobVars, confVars
<1>3. ASSUME UploadPasses(s) PROVE Goal
  BY <1>3, <1>t, <1>j, <1>a DEF UploadPasses, Alive, RowExists, dsVars, jobVars, confVars
<1>4. ASSUME UploadInsert(s) PROVE Goal
  BY <1>4, <1>t, <1>j, <1>a DEF UploadInsert, Alive, RowExists, dsVars, jobVars, confVars
<1>5. ASSUME UploadInsertFails(s) PROVE Goal
  BY <1>5, <1>t, <1>j, <1>a DEF UploadInsertFails, Alive, RowExists, dsVars, jobVars, confVars
<1>6. ASSUME UploadEnqueue(s) PROVE Goal
  BY <1>6, <1>t, <1>j, <1>a DEF UploadEnqueue, Alive, RowExists, dsVars, jobVars, confVars
<1>7. ASSUME UploadEnqueueFails(s) PROVE Goal
  BY <1>7, <1>t, <1>j, <1>a DEF UploadEnqueueFails, Alive, RowExists, dsVars, jobVars, confVars
<1>8. ASSUME JobStart(s) PROVE Goal
  BY <1>8, <1>t, <1>j, <1>a DEF JobStart, Alive, RowExists, dsVars, jobVars, confVars
<1>9. ASSUME ObserveCancel(s) PROVE Goal
  BY <1>9, <1>t, <1>j, <1>a DEF ObserveCancel, Alive, RowExists, dsVars, jobVars, confVars
<1>10. ASSUME SweepJob(s) PROVE Goal
  BY <1>10, <1>t, <1>j, <1>a DEF SweepJob, Alive, RowExists, dsVars, jobVars, confVars
<1>11. ASSUME Parsed(s) PROVE Goal
  BY <1>11, <1>t, <1>j, <1>a DEF Parsed, HandlerAt, Alive, RowExists, dsVars, jobVars, confVars
<1>12. ASSUME ParseFails(s) PROVE Goal
  BY <1>12, <1>t, <1>j, <1>a DEF ParseFails, HandlerFails, FailSource, Alive, RowExists, dsVars, jobVars, confVars
<1>13. ASSUME CreateStaging(s) PROVE Goal
  BY <1>13, <1>t, <1>j, <1>a DEF CreateStaging, HandlerAt, Alive, RowExists, dsVars, jobVars, confVars
<1>14. ASSUME BeginCopy(s) PROVE Goal
  BY <1>14, <1>t, <1>j, <1>a DEF BeginCopy, HandlerAt, Alive, RowExists, dsVars, jobVars, confVars
<1>15. ASSUME CopyFails(s) PROVE Goal
  BY <1>15, <1>t, <1>j, <1>a DEF CopyFails, HandlerFails, FailSource, Alive, RowExists, dsVars, jobVars, confVars
<1>16. ASSUME CopyCommit(s) PROVE Goal
  BY <1>16, <1>t, <1>j, <1>a DEF CopyCommit, HandlerAt, Alive, RowExists, dsVars, jobVars, confVars
<1>17. ASSUME MarkReady(s) PROVE Goal
  BY <1>17, <1>t, <1>j, <1>a DEF MarkReady, HandlerAt, Alive, RowExists, dsVars, jobVars, confVars
<1>18. ASSUME MarkReadyFails(s) PROVE Goal
  BY <1>18, <1>t, <1>j, <1>a DEF MarkReadyFails, HandlerAt, Alive, RowExists, dsVars, jobVars, confVars
<1>19. ASSUME PbixLock(s) PROVE Goal
  BY <1>19, <1>t, <1>j, <1>a DEF PbixLock, HandlerAt, Alive, RowExists, dsVars, jobVars, confVars
<1>20. ASSUME PbixCancelled(s) PROVE Goal
  BY <1>20, <1>t, <1>j, <1>a DEF PbixCancelled, HandlerAt, Alive, RowExists, dsVars, jobVars, confVars
<1>21. ASSUME PbixLoad(s) PROVE Goal
  BY <1>21, <1>t, <1>j, <1>a DEF PbixLoad, HandlerAt, Alive, RowExists, dsVars, jobVars, confVars
<1>22. ASSUME PbixReady(s) PROVE Goal
  BY <1>22, <1>t, <1>j, <1>a DEF PbixReady, HandlerAt, Alive, RowExists, dsVars, jobVars, confVars
<1>23. ASSUME PbixSetProject(s) PROVE Goal
  BY <1>23, <1>t, <1>j, <1>a DEF PbixSetProject, HandlerAt, Alive, RowExists, dsVars, jobVars, confVars
<1>24. ASSUME PbixFails(s) PROVE Goal
  BY <1>24, <1>t, <1>j, <1>a DEF PbixFails, HandlerFails, FailSource, Alive, RowExists, dsVars, jobVars, confVars
<1>25. ASSUME JobEnds(s) PROVE Goal
  BY <1>25, <1>t, <1>j, <1>a DEF JobEnds, Alive, RowExists, dsVars, jobVars, confVars
<1>26. ASSUME ConfirmRead(s) PROVE Goal
  BY <1>26, <1>t, <1>j, <1>a DEF ConfirmRead, ConfirmGoes, Alive, RowExists, dsVars, jobVars, confVars
<1>27. ASSUME ConfirmResolve(s) PROVE Goal
  BY <1>27, <1>t, <1>j, <1>a DEF ConfirmResolve, ConfirmGoes, Alive, RowExists, dsVars, jobVars, confVars
<1>28. ASSUME ConfirmMoves(s) PROVE Goal
  BY <1>28, <1>t, <1>j, <1>a DEF ConfirmMoves, ConfirmGoes, Alive, RowExists, dsVars, jobVars, confVars
<1>29. ASSUME ConfirmMoveFails(s) PROVE Goal
  BY <1>29, <1>t, <1>j, <1>a DEF ConfirmMoveFails, ConfirmFails, ConfirmGoes, Alive, RowExists, dsVars, jobVars, confVars
<1>30. ASSUME ConfirmCommit(s) PROVE Goal
  BY <1>30, <1>t, <1>j, <1>a DEF ConfirmCommit, ConfirmGoes, Alive, RowExists, dsVars, jobVars, confVars
<1>31. ASSUME ConfirmCommitFails(s) PROVE Goal
  BY <1>31, <1>t, <1>j, <1>a DEF ConfirmCommitFails, ConfirmFails, ConfirmGoes, Alive, RowExists, dsVars, jobVars, confVars
<1>32. ASSUME DeleteSchema(s) PROVE Goal
  BY <1>32, <1>t, <1>j, <1>a DEF DeleteSchema, Alive, RowExists, dsVars, jobVars, confVars
<1>33. ASSUME DeleteTables(s) PROVE Goal
  BY <1>33, <1>t, <1>j, <1>a DEF DeleteTables, Alive, RowExists, dsVars, jobVars, confVars
<1>34. ASSUME CancelJob(s) PROVE Goal
  BY <1>34, <1>t, <1>j, <1>a DEF CancelJob, Alive, RowExists, dsVars, jobVars, confVars
<1>35. ASSUME PostState(s) PROVE Goal
  BY <1>35, <1>t, <1>j, <1>a DEF PostState, SaveState, ClientReady, Alive, RowExists, dsVars, jobVars, confVars
<1>36. ASSUME ConfirmWithBody(s) PROVE Goal
  BY <1>36, <1>t, <1>j, <1>a DEF ConfirmWithBody, SaveState, ClientReady, Alive, RowExists, dsVars, jobVars, confVars
<1>37. ASSUME ConfirmBare(s) PROVE Goal
  BY <1>37, <1>t, <1>j, <1>a DEF ConfirmBare, Alive, RowExists, dsVars, jobVars, confVars
<1>38. ASSUME DeleteRow(s) PROVE Goal
  BY <1>38, <1>t, <1>j, <1>a DEF DeleteRow, Alive, RowExists, dsVars, jobVars, confVars
<1> HIDE DEF Goal
<1>g. Goal
  BY <1>1, <1>2, <1>3, <1>4, <1>5, <1>6, <1>7, <1>8, <1>9, <1>10, <1>11, <1>12, <1>13,
      <1>14, <1>15, <1>16, <1>17, <1>18, <1>19, <1>20, <1>21, <1>22, <1>23, <1>24, <1>25,
      <1>26, <1>27, <1>28, <1>29, <1>30, <1>31, <1>32, <1>33, <1>34, <1>35, <1>36, <1>37, <1>38
      DEF SourceStep, UploadStep, HandlerStep, ConfirmStep, DeleteStep, UserStep
<1> QED BY <1>g DEF Goal

IngestInv == TypeOK /\ LockInv /\ JobInv /\ DedupInv

LEMMA IngestInit == Init => IngestInv
<1> SUFFICES ASSUME Init PROVE IngestInv
  OBVIOUS
<1>1. TypeOK
  <2>1. {} \subseteq [name : TableNames, owner : Sources] /\ 0 \in 0..MaxConfirms
    BY IngestAssumption
  <2>2. lake \subseteq [name : TableNames, owner : Sources] /\ lock \in {Free}
    BY <2>1 DEF Init
  <2>3. nameMap \in [Sources -> TableNames \cup {NoName}]
    BY DEF Init
  <2>4. confirms \in [Sources -> 0..MaxConfirms]
    BY <2>1 DEF Init
  <2>5. /\ roles \in [Sources -> BOOLEAN] /\ moved \in [Sources -> BOOLEAN]
        /\ cancelReq \in [Sources -> BOOLEAN] /\ seen \in [Sources -> BOOLEAN] /\ crashed \in BOOLEAN
    BY DEF Init
  <2>6. lock \in {Free} \cup {Holder(k, s) : k \in {"upload", "job", "confirm"}, s \in Sources}
    BY <2>2
  <2> QED BY <2>2, <2>3, <2>4, <2>5, <2>6 DEF Init, TypeOK
<1>2. LockInv /\ JobInv
  BY DEF Init, LockInv, JobInv
<1>3. DedupInv
  BY DEF Init, DedupInv, Alive, RowExists
<1> QED BY <1>1, <1>2, <1>3 DEF IngestInv

LEMMA CrashKeepsInv ==
    ASSUME IngestInv, Crash
    PROVE  IngestInv'
<1> PICK S \in SUBSET {s \in Sources : ds[s] = "wizard_in_progress"} :
    /\ lock' = Free
    /\ crashed' = TRUE
    /\ ds' = [s \in Sources |-> IF s \in S THEN "failed_resumable" ELSE ds[s]]
    /\ upl' = [s \in Sources |-> IF upl[s] \in {"check", "insert", "enqueue"} THEN "error" ELSE upl[s]]
    /\ h' = [s \in Sources |-> "off"]
    /\ conf' = [s \in Sources |-> IF conf[s] \in {"read", "lock", "list", "tx"} THEN "failed" ELSE conf[s]]
    /\ moved' = [s \in Sources |-> FALSE]
    /\ del' = [s \in Sources |-> IF del[s] \in {"schema", "tables"} THEN "lost" ELSE del[s]]
    /\ UNCHANGED <<schemaCol, roles, stg, lake, job, cancelReq, seen, nameMap, confirms>>
  BY DEF Crash
<1>1. TypeOK'
  BY DEF IngestInv, TypeOK
<1>2. LockInv' /\ JobInv'
  BY DEF IngestInv, TypeOK, LockInv, JobInv
<1>3. ASSUME NEW s \in Sources PROVE Alive(s)' => Alive(s) /\ ds'[s] # "failed" /\ upl'[s] # "insert"
  BY DEF IngestInv, TypeOK, JobInv, DedupInv, Alive, RowExists
<1>4. ASSUME NEW s \in Sources PROVE upl'[s] # "insert"
  BY DEF IngestInv, TypeOK
<1>5. DedupInv'
  BY <1>3, <1>4 DEF IngestInv, DedupInv
<1> QED BY <1>1, <1>2, <1>5 DEF IngestInv

LEMMA StepKeepsInv ==
    ASSUME IngestInv, NEW s \in Sources, SourceStep(s)
    PROVE  IngestInv'
<1> USE DEF IngestInv
<1>1. TypeOK' /\ Touches(s)
  BY StepTypes
<1>2. LockedBy(s)' /\ (lock = Free \/ lock.src = s \/ lock' = lock)
  BY LockStep
<1>3. LockInv'
  <2> SUFFICES ASSUME NEW t \in Sources \ {s} PROVE LockedBy(t)'
    BY <1>2 DEF LockInv, LockedBy
  <2>1. upl'[t] = upl[t] /\ h'[t] = h[t] /\ conf'[t] = conf[t]
    BY <1>1 DEF Touches
  <2>2. LockedBy(t)
    BY DEF LockInv, LockedBy
  <2>3. ASSUME NEW k \in {"upload", "job", "confirm"}, lock = Holder(k, t) PROVE lock' = lock
    BY <2>3, <1>2 DEF Holder, Free
  <2> QED BY <2>1, <2>2, <2>3 DEF LockedBy
<1>4. /\ job'[s] # "none" => upl'[s] = "accepted"
      /\ h'[s] # "off" => job'[s] \notin {"none", "queued"}
      /\ Alive(s)' => ds'[s] # "failed" /\ (Alive(s) \/ upl[s] = "insert")
      /\ upl'[s] = "insert" => (upl[s] = "insert" \/ (upl[s] = "check" /\ Duplicates(s) = {}))
  BY JobStep
<1>5. JobInv'
  BY <1>1, <1>4 DEF JobInv, Touches
<1>6. ASSUME NEW t \in Sources \ {s} PROVE (Alive(t)' <=> Alive(t)) /\ ds'[t] = ds[t] /\ upl'[t] = upl[t]
  BY <1>1 DEF Touches, Alive, RowExists
<1>7. ASSUME NEW t \in Sources \ {s}, Content[t] = Content[s]
      PROVE  ~(Alive(s)' /\ Alive(t)') /\ ~(upl'[s] = "insert" /\ Alive(t)') /\ ~(upl'[t] = "insert" /\ Alive(s)')
  <2>1. ~(Alive(s) /\ Alive(t)) /\ ~(upl[s] = "insert" /\ Alive(t)) /\ ~(upl[t] = "insert" /\ Alive(s))
    BY <1>7 DEF DedupInv
  <2>2. Duplicates(s) = {} => ~Alive(t)
    BY <1>7 DEF Duplicates, Alive, RowExists, DedupInv
  <2>3. ~(upl[s] = "insert" /\ upl[t] = "insert")
    BY HoldersDiffer DEF LockInv
  <2> QED BY <2>1, <2>2, <2>3, <1>4, <1>6, <1>7
<1>8. DedupInv'
  <2>1. ASSUME NEW t \in Sources, Alive(t)' PROVE ds'[t] # "failed"
    BY <2>1, <1>4, <1>6 DEF DedupInv
  <2>2. ASSUME NEW t \in Sources, NEW u \in Sources, t # u, Content[t] = Content[u]
        PROVE  ~(Alive(t)' /\ Alive(u)') /\ ~(upl'[t] = "insert" /\ Alive(u)')
    <3>1. CASE t = s
      BY <2>2, <3>1, <1>7
    <3>2. CASE u = s
      BY <2>2, <3>2, <1>7
    <3>3. CASE t # s /\ u # s
      BY <2>2, <3>3, <1>6 DEF DedupInv
    <3> QED BY <3>1, <3>2, <3>3
  <2> QED BY <2>1, <2>2 DEF DedupInv
<1> QED BY <1>1, <1>3, <1>5, <1>8

\* The inductive invariant of uploads and jobs, whatever fails and whoever acts.
THEOREM UploadsStayInStep == Spec => []IngestInv
<1>1. Init => IngestInv
  BY IngestInit
<1>2. IngestInv /\ [Next]_vars => IngestInv'
  <2> SUFFICES ASSUME IngestInv, [Next]_vars PROVE IngestInv'
    OBVIOUS
  <2>1. ASSUME NEW s \in Sources, SourceStep(s) PROVE IngestInv'
    BY <2>1, StepKeepsInv
  <2>2. CASE Crash
    BY <2>2, CrashKeepsInv
  <2>3. CASE UNCHANGED vars
    BY <2>3 DEF vars, dsVars, jobVars, confVars, IngestInv, TypeOK, LockInv, JobInv, DedupInv, Alive, RowExists
  <2> QED BY <2>1, <2>2, <2>3 DEF Next, SourceStep
<1> QED BY <1>1, <1>2, PTL DEF Spec

\* "two byte-identical concurrent uploads cannot both pass the check"
\* (upload.go): the dedup SELECT and the INSERT are two statements, and no two
\* sources of the same content are ever imported or staged at once, for any
\* number of uploads, impatient clients, failing statements, a crash included.
THEOREM DuplicatesAreNeverImported == Spec => []NoDuplicateContent
<1>1. IngestInv => NoDuplicateContent
  BY DEF IngestInv, DedupInv, Alive, NoDuplicateContent
<1> QED BY <1>1, UploadsStayInStep, PTL

-----------------------------------------------------------------------------
(* Patient clients: what the rows say is true of the data *)

\* The clients wait for the job, as the bundled UI does, and the sources users
\* delete are files whose table name no other source has. (What an impatient
\* client, the deletion of a pbix source, or of one that shares its table name
\* can do is described in the README; each breaks the properties below.)
Scenario ==
    /\ Patient
    /\ \A s \in Deletable : /\ Kind[s] = "file"
                            /\ \A t \in Sources \ {s} : Table[t] # Table[s]

\* Who acts on a source: its upload, then its job, then the wizard, then a
\* delete, one after the other.
TurnsOK(s) ==
    /\ h[s] # "off" => job[s] = "running"
    /\ roles[s] => upl[s] = "accepted" /\ ~JobActive(s)
    /\ conf[s] # "idle" => roles[s]
    /\ del[s] # "none" => /\ ds[s] = "gone" /\ ~JobActive(s) /\ s \in Deletable
                          /\ upl[s] \in {"accepted", "error"}
                          /\ conf[s] \notin {"read", "lock", "list", "tx"}

\* A file goes through staging, a pbix straight to the lakehouse.
KindOK(s) ==
    /\ Kind[s] = "file" => /\ h[s] \notin {"lock", "load", "populate", "project"}
                           /\ schemaCol[s] # "final"
                           /\ ds[s] # "none" => schemaCol[s] = "own"
    /\ Kind[s] = "pbi" => /\ h[s] \notin {"schema", "copy", "copying", "ready"}
                          /\ stg[s] = "absent"

\* The status of the row follows the upload and the handler.
RowOK(s) ==
    /\ upl[s] \in {"new", "check", "insert"} => ds[s] = "none"
    /\ upl[s] = "enqueue" \/ job[s] = "queued" => ds[s] = "syncing"
    /\ h[s] \in {"parse", "schema", "copy", "copying", "ready", "lock", "load", "populate"}
          => ds[s] = "syncing"
    /\ h[s] = "project" => ds[s] = "ready"
    /\ h[s] = "ok" => ds[s] = "ready" \/ seen[s]
    /\ job[s] = "succeeded" => ds[s] \notin {"syncing", "failed"}

\* Where the staged data of a source is.
StagingOK(s) ==
    /\ Kind[s] = "file" /\ (h[s] = "ready" \/ ds[s] = "ready") => stg[s] = "full"
    /\ del[s] \in {"tables", "done"} => stg[s] = "absent"
    /\ moved[s] => conf[s] = "tx" /\ stg[s] = "full"

\* A table of the lakehouse: its name tells its owner, a file's table has left
\* the staging schema, and a deleted source has none.
TableOK(x) ==
    /\ x.name \in {Plain(x.owner), Suffixed(x.owner)}
    /\ Kind[x.owner] = "file" => stg[x.owner] = "absent" /\ roles[x.owner]
    /\ x.owner \in Deletable => x.name = Plain(x.owner)
    /\ del[x.owner] # "done"

\* The name a confirm resolved is still free when its transaction commits.
NameOK(s) ==
    conf[s] \in {"list", "tx"} /\ stg[s] = "full" =>
        \/ nameMap[s] = Suffixed(s) /\ s \notin Deletable
        \/ nameMap[s] = Plain(s) /\ Plain(s) \notin Names

\* A pbix source that is ready has its table.
LoadedOK(s) ==
    h[s] \in {"populate", "project"} \/ (Kind[s] = "pbi" /\ ds[s] = "ready")
        => \E x \in lake : x.owner = s

SourceOK(s) == TurnsOK(s) /\ KindOK(s) /\ RowOK(s) /\ StagingOK(s)

PatientInv ==
    /\ \A s \in Sources : SourceOK(s) /\ NameOK(s) /\ LoadedOK(s)
    /\ \A x \in lake : TableOK(x)

\* A step of a source keeps its rows, its staged data and the turns in step.
LEMMA SourceStepOK ==
    ASSUME Scenario, TypeOK, JobInv, NEW s \in Sources, SourceOK(s), SourceStep(s)
    PROVE  SourceOK(s)'
<1>k. Kind[s] \in {"file", "pbi"} /\ (s \in Deletable => Kind[s] = "file") /\ Patient
  BY IngestAssumption DEF Scenario
<1>t. /\ DOMAIN ds = Sources /\ ds = [t \in Sources |-> ds[t]]
      /\ DOMAIN schemaCol = Sources /\ schemaCol = [t \in Sources |-> schemaCol[t]]
      /\ DOMAIN roles = Sources /\ roles = [t \in Sources |-> roles[t]] /\ roles[s] \in BOOLEAN
      /\ DOMAIN stg = Sources /\ stg = [t \in Sources |-> stg[t]]
      /\ DOMAIN upl = Sources /\ upl = [t \in Sources |-> upl[t]]
      /\ DOMAIN job = Sources /\ job = [t \in Sources |-> job[t]]
      /\ DOMAIN h = Sources /\ h = [t \in Sources |-> h[t]]
      /\ DOMAIN seen = Sources /\ seen = [t \in Sources |-> seen[t]] /\ seen[s] \in BOOLEAN
      /\ DOMAIN conf = Sources /\ conf = [t \in Sources |-> conf[t]]
      /\ DOMAIN moved = Sources /\ moved = [t \in Sources |-> moved[t]] /\ moved[s] \in BOOLEAN
      /\ DOMAIN del = Sources /\ del = [t \in Sources |-> del[t]]
  BY DEF TypeOK
<1>j. /\ job[s] # "none" => upl[s] = "accepted"
      /\ h[s] # "off" => job[s] \notin {"none", "queued"}
  BY DEF JobInv
<1>s. SourceOK(s)
  OBVIOUS
<1>1. ASSUME UploadLock(s) PROVE SourceOK(s)'
  BY <1>1, <1>k, <1>t, <1>j, <1>s DEF UploadLock, SourceOK, TurnsOK, KindOK, RowOK, StagingOK, JobActive, RowExists, dsVars, jobVars, confVars
<1>2. ASSUME UploadRejected(s) PROVE SourceOK(s)'
  BY <1>2, <1>k, <1>t, <1>j, <1>s DEF UploadRejected, SourceOK, TurnsOK, KindOK, RowOK, StagingOK, JobActive, RowExists, dsVars, jobVars, confVars
<1>3. ASSUME UploadPasses(s) PROVE SourceOK(s)'
  BY <1>3, <1>k, <1>t, <1>j, <1>s DEF UploadPasses, SourceOK, TurnsOK, KindOK, RowOK, StagingOK, JobActive, RowExists, dsVars, jobVars, confVars
<1>4. ASSUME UploadInsert(s) PROVE SourceOK(s)'
  BY <1>4, <1>k, <1>t, <1>j, <1>s DEF UploadInsert, SourceOK, TurnsOK, KindOK, RowOK, StagingOK, JobActive, RowExists, dsVars, jobVars, confVars
<1>5. ASSUME UploadInsertFails(s) PROVE SourceOK(s)'
  BY <1>5, <1>k, <1>t, <1>j, <1>s DEF UploadInsertFails, SourceOK, TurnsOK, KindOK, RowOK, StagingOK, JobActive, RowExists, dsVars, jobVars, confVars
<1>6. ASSUME UploadEnqueue(s) PROVE SourceOK(s)'
  BY <1>6, <1>k, <1>t, <1>j, <1>s DEF UploadEnqueue, SourceOK, TurnsOK, KindOK, RowOK, StagingOK, JobActive, RowExists, dsVars, jobVars, confVars
<1>7. ASSUME UploadEnqueueFails(s) PROVE SourceOK(s)'
  BY <1>7, <1>k, <1>t, <1>j, <1>s DEF UploadEnqueueFails, SourceOK, TurnsOK, KindOK, RowOK, StagingOK, JobActive, RowExists, dsVars, jobVars, confVars
<1>8. ASSUME JobStart(s) PROVE SourceOK(s)'
  BY <1>8, <1>k, <1>t, <1>j, <1>s DEF JobStart, SourceOK, TurnsOK, KindOK, RowOK, StagingOK, JobActive, RowExists, dsVars, jobVars, confVars
<1>9. ASSUME ObserveCancel(s) PROVE SourceOK(s)'
  BY <1>9, <1>k, <1>t, <1>j, <1>s DEF ObserveCancel, SourceOK, TurnsOK, KindOK, RowOK, StagingOK, JobActive, RowExists, dsVars, jobVars, confVars
<1>10. ASSUME SweepJob(s) PROVE SourceOK(s)'
  BY <1>10, <1>k, <1>t, <1>j, <1>s DEF SweepJob, SourceOK, TurnsOK, KindOK, RowOK, StagingOK, JobActive, RowExists, dsVars, jobVars, confVars
<1>11. ASSUME Parsed(s) PROVE SourceOK(s)'
  BY <1>11, <1>k, <1>t, <1>j, <1>s DEF Parsed, HandlerAt, SourceOK, TurnsOK, KindOK, RowOK, StagingOK, JobActive, RowExists, dsVars, jobVars, confVars
<1>12. ASSUME ParseFails(s) PROVE SourceOK(s)'
  BY <1>12, <1>k, <1>t, <1>j, <1>s DEF ParseFails, HandlerFails, FailSource, SourceOK, TurnsOK, KindOK, RowOK, StagingOK, JobActive, RowExists, dsVars, jobVars, confVars
<1>13. ASSUME CreateStaging(s) PROVE SourceOK(s)'
  BY <1>13, <1>k, <1>t, <1>j, <1>s DEF CreateStaging, HandlerAt, SourceOK, TurnsOK, KindOK, RowOK, StagingOK, JobActive, RowExists, dsVars, jobVars, confVars
<1>14. ASSUME BeginCopy(s) PROVE SourceOK(s)'
  BY <1>14, <1>k, <1>t, <1>j, <1>s DEF BeginCopy, HandlerAt, SourceOK, TurnsOK, KindOK, RowOK, StagingOK, JobActive, RowExists, dsVars, jobVars, confVars
<1>15. ASSUME CopyFails(s) PROVE SourceOK(s)'
  BY <1>15, <1>k, <1>t, <1>j, <1>s DEF CopyFails, HandlerFails, FailSource, SourceOK, TurnsOK, KindOK, RowOK, StagingOK, JobActive, RowExists, dsVars, jobVars, confVars
<1>16. ASSUME CopyCommit(s) PROVE SourceOK(s)'
  BY <1>16, <1>k, <1>t, <1>j, <1>s DEF CopyCommit, HandlerAt, SourceOK, TurnsOK, KindOK, RowOK, StagingOK, JobActive, RowExists, dsVars, jobVars, confVars
<1>17. ASSUME MarkReady(s) PROVE SourceOK(s)'
  BY <1>17, <1>k, <1>t, <1>j, <1>s DEF MarkReady, HandlerAt, SourceOK, TurnsOK, KindOK, RowOK, StagingOK, JobActive, RowExists, dsVars, jobVars, confVars
<1>18. ASSUME MarkReadyFails(s) PROVE SourceOK(s)'
  BY <1>18, <1>k, <1>t, <1>j, <1>s DEF MarkReadyFails, HandlerAt, SourceOK, TurnsOK, KindOK, RowOK, StagingOK, JobActive, RowExists, dsVars, jobVars, confVars
<1>19. ASSUME PbixLock(s) PROVE SourceOK(s)'
  BY <1>19, <1>k, <1>t, <1>j, <1>s DEF PbixLock, HandlerAt, SourceOK, TurnsOK, KindOK, RowOK, StagingOK, JobActive, RowExists, dsVars, jobVars, confVars
<1>20. ASSUME PbixCancelled(s) PROVE SourceOK(s)'
  BY <1>20, <1>k, <1>t, <1>j, <1>s DEF PbixCancelled, HandlerAt, SourceOK, TurnsOK, KindOK, RowOK, StagingOK, JobActive, RowExists, dsVars, jobVars, confVars
<1>21. ASSUME PbixLoad(s) PROVE SourceOK(s)'
  BY <1>21, <1>k, <1>t, <1>j, <1>s DEF PbixLoad, HandlerAt, SourceOK, TurnsOK, KindOK, RowOK, StagingOK, JobActive, RowExists, dsVars, jobVars, confVars
<1>22. ASSUME PbixReady(s) PROVE SourceOK(s)'
  BY <1>22, <1>k, <1>t, <1>j, <1>s DEF PbixReady, HandlerAt, SourceOK, TurnsOK, KindOK, RowOK, StagingOK, JobActive, RowExists, dsVars, jobVars, confVars
<1>23. ASSUME PbixSetProject(s) PROVE SourceOK(s)'
  BY <1>23, <1>k, <1>t, <1>j, <1>s DEF PbixSetProject, HandlerAt, SourceOK, TurnsOK, KindOK, RowOK, StagingOK, JobActive, RowExists, dsVars, jobVars, confVars
<1>24. ASSUME PbixFails(s) PROVE SourceOK(s)'
  BY <1>24, <1>k, <1>t, <1>j, <1>s DEF PbixFails, HandlerFails, FailSource, SourceOK, TurnsOK, KindOK, RowOK, StagingOK, JobActive, RowExists, dsVars, jobVars, confVars
<1>25. ASSUME JobEnds(s) PROVE SourceOK(s)'
  BY <1>25, <1>k, <1>t, <1>j, <1>s DEF JobEnds, SourceOK, TurnsOK, KindOK, RowOK, StagingOK, JobActive, RowExists, dsVars, jobVars, confVars
<1>26. ASSUME ConfirmRead(s) PROVE SourceOK(s)'
  BY <1>26, <1>k, <1>t, <1>j, <1>s DEF ConfirmRead, ConfirmGoes, SourceOK, TurnsOK, KindOK, RowOK, StagingOK, JobActive, RowExists, dsVars, jobVars, confVars
<1>27. ASSUME ConfirmResolve(s) PROVE SourceOK(s)'
  BY <1>27, <1>k, <1>t, <1>j, <1>s DEF ConfirmResolve, ConfirmGoes, SourceOK, TurnsOK, KindOK, RowOK, StagingOK, JobActive, RowExists, dsVars, jobVars, confVars
<1>28. ASSUME ConfirmMoves(s) PROVE SourceOK(s)'
  BY <1>28, <1>k, <1>t, <1>j, <1>s DEF ConfirmMoves, ConfirmGoes, MergeImpossible, SourceOK, TurnsOK, KindOK, RowOK, StagingOK, JobActive, RowExists, dsVars, jobVars, confVars
<1>29. ASSUME ConfirmMoveFails(s) PROVE SourceOK(s)'
  BY <1>29, <1>k, <1>t, <1>j, <1>s DEF ConfirmMoveFails, ConfirmFails, ConfirmGoes, SourceOK, TurnsOK, KindOK, RowOK, StagingOK, JobActive, RowExists, dsVars, jobVars, confVars
<1>30. ASSUME ConfirmCommit(s) PROVE SourceOK(s)'
  BY <1>30, <1>k, <1>t, <1>j, <1>s DEF ConfirmCommit, ConfirmGoes, SourceOK, TurnsOK, KindOK, RowOK, StagingOK, JobActive, RowExists, dsVars, jobVars, confVars
<1>31. ASSUME ConfirmCommitFails(s) PROVE SourceOK(s)'
  BY <1>31, <1>k, <1>t, <1>j, <1>s DEF ConfirmCommitFails, ConfirmFails, ConfirmGoes, SourceOK, TurnsOK, KindOK, RowOK, StagingOK, JobActive, RowExists, dsVars, jobVars, confVars
<1>32. ASSUME DeleteSchema(s) PROVE SourceOK(s)'
  BY <1>32, <1>k, <1>t, <1>j, <1>s DEF DeleteSchema, SourceOK, TurnsOK, KindOK, RowOK, StagingOK, JobActive, RowExists, dsVars, jobVars, confVars
<1>33. ASSUME DeleteTables(s) PROVE SourceOK(s)'
  BY <1>33, <1>k, <1>t, <1>j, <1>s DEF DeleteTables, SourceOK, TurnsOK, KindOK, RowOK, StagingOK, JobActive, RowExists, dsVars, jobVars, confVars
<1>34. ASSUME CancelJob(s) PROVE SourceOK(s)'
  BY <1>34, <1>k, <1>t, <1>j, <1>s DEF CancelJob, SourceOK, TurnsOK, KindOK, RowOK, StagingOK, JobActive, RowExists, dsVars, jobVars, confVars
<1>35. ASSUME PostState(s) PROVE SourceOK(s)'
  BY <1>35, <1>k, <1>t, <1>j, <1>s DEF PostState, SaveState, ClientReady, SourceOK, TurnsOK, KindOK, RowOK, StagingOK, JobActive, RowExists, dsVars, jobVars, confVars
<1>36. ASSUME ConfirmWithBody(s) PROVE SourceOK(s)'
  BY <1>36, <1>k, <1>t, <1>j, <1>s DEF ConfirmWithBody, SaveState, ClientReady, SourceOK, TurnsOK, KindOK, RowOK, StagingOK, JobActive, RowExists, dsVars, jobVars, confVars
<1>37. ASSUME ConfirmBare(s) PROVE SourceOK(s)'
  BY <1>37, <1>k, <1>t, <1>j, <1>s DEF ConfirmBare, ClientReady, SourceOK, TurnsOK, KindOK, RowOK, StagingOK, JobActive, RowExists, dsVars, jobVars, confVars
<1>38. ASSUME DeleteRow(s) PROVE SourceOK(s)'
  BY <1>38, <1>k, <1>t, <1>j, <1>s DEF DeleteRow, SourceOK, TurnsOK, KindOK, RowOK, StagingOK, JobActive, RowExists, dsVars, jobVars, confVars
<1> QED BY <1>1, <1>2, <1>3, <1>4, <1>5, <1>6, <1>7, <1>8, <1>9, <1>10, <1>11, <1>12, <1>13,
      <1>14, <1>15, <1>16, <1>17, <1>18, <1>19, <1>20, <1>21, <1>22, <1>23, <1>24, <1>25,
      <1>26, <1>27, <1>28, <1>29, <1>30, <1>31, <1>32, <1>33, <1>34, <1>35, <1>36, <1>37, <1>38
      DEF SourceStep, UploadStep, HandlerStep, ConfirmStep, DeleteStep, UserStep

-----------------------------------------------------------------------------
(* The lakehouse *)

\* What a step of s may do to the tables: those of the others stay, a new one is
\* its own and made under the project lock, and its own go only with a delete.
LakeMoves(s) ==
    /\ \A x \in lake : x.owner # s => x \in lake'
    /\ \A x \in lake' : x \in lake \/ (x.owner = s /\ lock \in {Holder("job", s), Holder("confirm", s)})
    /\ (\E x \in lake : x.owner = s) => (\E x \in lake' : x.owner = s) \/ del[s] # "none"

\* A name in use is the owner's: raw names may be shared, suffixed ones may not.
LEMMA NamesTellOwners ==
    ASSUME Scenario, NEW x, NEW s \in Sources, x.owner \in Sources, TableOK(x)
    PROVE  /\ x.name = Suffixed(s) => x.owner = s
           /\ x.name = Plain(s) /\ s \in Deletable => x.owner = s
<1>1. "none" \notin Sources
  BY IngestAssumption
<1>2. ASSUME x.name = Suffixed(s) PROVE x.owner = s
  BY <1>1, <1>2 DEF TableOK, Plain, Suffixed
<1>3. ASSUME x.name = Plain(s), s \in Deletable PROVE x.owner = s
  BY <1>1, <1>3 DEF TableOK, Plain, Suffixed, Scenario
<1> QED BY <1>2, <1>3

\* A load that replaces only a table of its own.
LEMMA OwnTableReplaced ==
    ASSUME NEW s \in Sources, NEW n, lock \in {Holder("job", s), Holder("confirm", s)},
           lake' = {t \in lake : t.name # n} \cup {[name |-> n, owner |-> s]},
           \A x \in lake : x.name = n => x.owner = s
    PROVE  LakeMoves(s)
<1> DEFINE y == [name |-> n, owner |-> s]
<1>1. y.owner = s
  OBVIOUS
<1> HIDE DEF y
<1>2. lake' = {t \in lake : t.name # n} \cup {y}
  BY DEF y
<1>3. \A x \in lake : x.owner # s => x \in lake'
  BY <1>2
<1>4. \A x \in lake' : x \in lake \/ x.owner = s
  BY <1>1, <1>2
<1>5. \E x \in lake' : x.owner = s
  BY <1>1, <1>2
<1> QED BY <1>3, <1>4, <1>5 DEF LakeMoves

LEMMA LakeStep ==
    ASSUME Scenario, IngestInv, PatientInv, NEW s \in Sources, SourceStep(s)
    PROVE  LakeMoves(s)
<1>o. ASSUME NEW x \in lake
      PROVE  /\ x.owner \in Sources /\ TableOK(x)
             /\ x.name = Suffixed(s) => x.owner = s
             /\ x.name = Plain(s) /\ s \in Deletable => x.owner = s
  <2>1. x.owner \in Sources /\ TableOK(x)
    BY DEF IngestInv, TypeOK, PatientInv
  <2> QED BY <2>1, NamesTellOwners
<1>s. SourceOK(s) /\ NameOK(s)
  BY DEF PatientInv
<1>k. s \in Deletable => Kind[s] = "file"
  BY DEF Scenario
<1>1. ASSUME UploadLock(s) PROVE LakeMoves(s)
  BY <1>1 DEF UploadLock, LakeMoves, dsVars, jobVars, confVars
<1>2. ASSUME UploadRejected(s) PROVE LakeMoves(s)
  BY <1>2 DEF UploadRejected, LakeMoves, dsVars, jobVars, confVars
<1>3. ASSUME UploadPasses(s) PROVE LakeMoves(s)
  BY <1>3 DEF UploadPasses, LakeMoves, dsVars, jobVars, confVars
<1>4. ASSUME UploadInsert(s) PROVE LakeMoves(s)
  BY <1>4 DEF UploadInsert, LakeMoves, dsVars, jobVars, confVars
<1>5. ASSUME UploadInsertFails(s) PROVE LakeMoves(s)
  BY <1>5 DEF UploadInsertFails, LakeMoves, dsVars, jobVars, confVars
<1>6. ASSUME UploadEnqueue(s) PROVE LakeMoves(s)
  BY <1>6 DEF UploadEnqueue, LakeMoves, dsVars, jobVars, confVars
<1>7. ASSUME UploadEnqueueFails(s) PROVE LakeMoves(s)
  BY <1>7 DEF UploadEnqueueFails, LakeMoves, dsVars, jobVars, confVars
<1>8. ASSUME JobStart(s) PROVE LakeMoves(s)
  BY <1>8 DEF JobStart, LakeMoves, dsVars, jobVars, confVars
<1>9. ASSUME ObserveCancel(s) PROVE LakeMoves(s)
  BY <1>9 DEF ObserveCancel, LakeMoves, dsVars, jobVars, confVars
<1>10. ASSUME SweepJob(s) PROVE LakeMoves(s)
  BY <1>10 DEF SweepJob, LakeMoves, dsVars, jobVars, confVars
<1>11. ASSUME Parsed(s) PROVE LakeMoves(s)
  BY <1>11 DEF Parsed, HandlerAt, LakeMoves, dsVars, jobVars, confVars
<1>12. ASSUME ParseFails(s) PROVE LakeMoves(s)
  BY <1>12 DEF ParseFails, HandlerFails, FailSource, RowExists, LakeMoves, dsVars, jobVars, confVars
<1>13. ASSUME CreateStaging(s) PROVE LakeMoves(s)
  BY <1>13 DEF CreateStaging, HandlerAt, LakeMoves, dsVars, jobVars, confVars
<1>14. ASSUME BeginCopy(s) PROVE LakeMoves(s)
  BY <1>14 DEF BeginCopy, HandlerAt, LakeMoves, dsVars, jobVars, confVars
<1>15. ASSUME CopyFails(s) PROVE LakeMoves(s)
  BY <1>15 DEF CopyFails, HandlerFails, FailSource, RowExists, LakeMoves, dsVars, jobVars, confVars
<1>16. ASSUME CopyCommit(s) PROVE LakeMoves(s)
  BY <1>16 DEF CopyCommit, HandlerAt, LakeMoves, dsVars, jobVars, confVars
<1>17. ASSUME MarkReady(s) PROVE LakeMoves(s)
  BY <1>17 DEF MarkReady, HandlerAt, RowExists, LakeMoves, dsVars, jobVars, confVars
<1>18. ASSUME MarkReadyFails(s) PROVE LakeMoves(s)
  BY <1>18 DEF MarkReadyFails, HandlerAt, LakeMoves, dsVars, jobVars, confVars
<1>19. ASSUME PbixLock(s) PROVE LakeMoves(s)
  BY <1>19 DEF PbixLock, HandlerAt, LakeMoves, dsVars, jobVars, confVars
<1>20. ASSUME PbixCancelled(s) PROVE LakeMoves(s)
  BY <1>20 DEF PbixCancelled, HandlerAt, LakeMoves, dsVars, jobVars, confVars
<1>21. ASSUME PbixLoad(s) PROVE LakeMoves(s)
  <2>1. h[s] = "load" /\ lake' = {t \in lake : t.name # CollisionFree(s)}
                                     \cup {[name |-> CollisionFree(s), owner |-> s]}
    BY <1>21 DEF PbixLoad, HandlerAt
  <2>2. lock = Holder("job", s)
    BY <2>1 DEF IngestInv, LockInv
  <2>3. ASSUME NEW x \in lake, x.name = CollisionFree(s) PROVE x.owner = s
    BY <2>3, <1>o DEF CollisionFree, Names
  <2>4. lock \in {Holder("job", s), Holder("confirm", s)} /\ \A x \in lake : x.name = CollisionFree(s) => x.owner = s
    BY <2>2, <2>3
  <2> QED BY ONLY <2>1, <2>4, s \in Sources, OwnTableReplaced
<1>22. ASSUME PbixReady(s) PROVE LakeMoves(s)
  BY <1>22 DEF PbixReady, HandlerAt, RowExists, LakeMoves, dsVars, jobVars, confVars
<1>23. ASSUME PbixSetProject(s) PROVE LakeMoves(s)
  BY <1>23 DEF PbixSetProject, HandlerAt, LakeMoves, dsVars, jobVars, confVars
<1>24. ASSUME PbixFails(s) PROVE LakeMoves(s)
  BY <1>24 DEF PbixFails, HandlerFails, FailSource, RowExists, LakeMoves, dsVars, jobVars, confVars
<1>25. ASSUME JobEnds(s) PROVE LakeMoves(s)
  BY <1>25 DEF JobEnds, LakeMoves, dsVars, jobVars, confVars
<1>26. ASSUME ConfirmRead(s) PROVE LakeMoves(s)
  BY <1>26 DEF ConfirmRead, ConfirmGoes, LakeMoves, dsVars, jobVars, confVars
<1>27. ASSUME ConfirmResolve(s) PROVE LakeMoves(s)
  BY <1>27 DEF ConfirmResolve, ConfirmGoes, LakeMoves, dsVars, jobVars, confVars
<1>28. ASSUME ConfirmMoves(s) PROVE LakeMoves(s)
  BY <1>28 DEF ConfirmMoves, ConfirmGoes, LakeMoves, dsVars, jobVars, confVars
<1>29. ASSUME ConfirmMoveFails(s) PROVE LakeMoves(s)
  BY <1>29 DEF ConfirmMoveFails, ConfirmFails, ConfirmGoes, LakeMoves, dsVars, jobVars, confVars
<1>30. ASSUME ConfirmCommit(s) PROVE LakeMoves(s)
  <2>1. conf[s] = "tx" /\ lake' = IF moved[s]
                                     THEN {t \in lake : t.name # FinalName(s)}
                                             \cup {[name |-> FinalName(s), owner |-> s]}
                                     ELSE lake
    BY <1>30 DEF ConfirmCommit
  <2>2. lock = Holder("confirm", s)
    BY <2>1 DEF IngestInv, LockInv
  <2>3. ASSUME NEW x \in lake, moved[s], x.name = FinalName(s) PROVE x.owner = s
    <3>1. (nameMap[s] = Suffixed(s)) \/ (nameMap[s] = Plain(s) /\ Plain(s) \notin Names)
      BY <2>1, <2>3, <1>s DEF SourceOK, StagingOK, NameOK
    <3>2. FinalName(s) = nameMap[s] \/ (FinalName(s) = Plain(s) /\ nameMap[s] = NoName)
      BY DEF FinalName
    <3>3. nameMap[s] = Suffixed(s) => nameMap[s] # NoName
      BY IngestAssumption DEF Suffixed, NoName
    <3> QED BY <3>1, <3>2, <3>3, <2>3, <1>o DEF Names
  <2>4. CASE moved[s]
    BY <2>1, <2>2, <2>3, <2>4, OwnTableReplaced
  <2>5. CASE ~moved[s]
    BY <2>1, <2>5 DEF LakeMoves
  <2> QED BY <2>4, <2>5
<1>31. ASSUME ConfirmCommitFails(s) PROVE LakeMoves(s)
  BY <1>31 DEF ConfirmCommitFails, ConfirmFails, ConfirmGoes, LakeMoves, dsVars, jobVars, confVars
<1>32. ASSUME DeleteSchema(s) PROVE LakeMoves(s)
  <2>1. del[s] = "schema" /\ schemaCol[s] # "final"
    BY <1>32, <1>s, <1>k DEF DeleteSchema, SourceOK, TurnsOK, KindOK
  <2> QED BY <1>32, <2>1 DEF DeleteSchema, LakeMoves
<1>33. ASSUME DeleteTables(s) PROVE LakeMoves(s)
  <2>1. del[s] = "tables" /\ s \in Deletable
    BY <1>33, <1>s DEF DeleteTables, SourceOK, TurnsOK
  <2> QED BY <1>33, <2>1, <1>o DEF DeleteTables, LakeMoves
<1>34. ASSUME CancelJob(s) PROVE LakeMoves(s)
  BY <1>34 DEF CancelJob, LakeMoves, dsVars, jobVars, confVars
<1>35. ASSUME PostState(s) PROVE LakeMoves(s)
  BY <1>35 DEF PostState, SaveState, LakeMoves, dsVars, jobVars, confVars
<1>36. ASSUME ConfirmWithBody(s) PROVE LakeMoves(s)
  BY <1>36 DEF ConfirmWithBody, SaveState, LakeMoves, dsVars, jobVars, confVars
<1>37. ASSUME ConfirmBare(s) PROVE LakeMoves(s)
  BY <1>37 DEF ConfirmBare, LakeMoves, dsVars, jobVars, confVars
<1>38. ASSUME DeleteRow(s) PROVE LakeMoves(s)
  BY <1>38 DEF DeleteRow, LakeMoves, dsVars, jobVars, confVars
<1> QED BY <1>1, <1>2, <1>3, <1>4, <1>5, <1>6, <1>7, <1>8, <1>9, <1>10, <1>11, <1>12, <1>13,
      <1>14, <1>15, <1>16, <1>17, <1>18, <1>19, <1>20, <1>21, <1>22, <1>23, <1>24, <1>25,
      <1>26, <1>27, <1>28, <1>29, <1>30, <1>31, <1>32, <1>33, <1>34, <1>35, <1>36, <1>37, <1>38
      DEF SourceStep, UploadStep, HandlerStep, ConfirmStep, DeleteStep, UserStep

Loading(s) == h[s] \in {"populate", "project"} \/ (Kind[s] = "pbi" /\ ds[s] = "ready")
Renaming(s) == conf[s] \in {"list", "tx"} /\ stg[s] = "full"

\* Which steps can matter to the tables of s.
Matters(s) ==
    /\ roles[s] /\ stg[s] = "absent" => roles'[s] /\ stg'[s] = "absent"
    /\ del'[s] = "done" => del[s] = "done" \/ DeleteTables(s)
    /\ Loading(s)' => Loading(s) \/ PbixLoad(s)
    /\ Renaming(s)' => ConfirmResolve(s) \/ (Renaming(s) /\ nameMap'[s] = nameMap[s] /\ lake' = lake)
    /\ \A x \in lake' : x \in lake \/ PbixLoad(s) \/ ConfirmCommit(s)

LEMMA WhatMatters ==
    ASSUME Scenario, TypeOK, JobInv, NEW s \in Sources, SourceOK(s), SourceStep(s)
    PROVE  Matters(s)
<1>k. Kind[s] \in {"file", "pbi"} /\ (s \in Deletable => Kind[s] = "file") /\ Patient
  BY IngestAssumption DEF Scenario
<1>t. /\ DOMAIN ds = Sources /\ ds = [t \in Sources |-> ds[t]]
      /\ DOMAIN roles = Sources /\ roles = [t \in Sources |-> roles[t]] /\ roles[s] \in BOOLEAN
      /\ DOMAIN stg = Sources /\ stg = [t \in Sources |-> stg[t]]
      /\ DOMAIN h = Sources /\ h = [t \in Sources |-> h[t]]
      /\ DOMAIN conf = Sources /\ conf = [t \in Sources |-> conf[t]]
      /\ DOMAIN nameMap = Sources /\ nameMap = [t \in Sources |-> nameMap[t]]
      /\ DOMAIN del = Sources /\ del = [t \in Sources |-> del[t]]
  BY DEF TypeOK
<1>s. SourceOK(s)
  OBVIOUS
<1>1. ASSUME UploadLock(s) PROVE Matters(s)
  BY <1>1, <1>k, <1>t, <1>s DEF UploadLock, Matters, Loading, Renaming, SourceOK, TurnsOK, KindOK, StagingOK, JobActive, RowExists, dsVars, jobVars, confVars
<1>2. ASSUME UploadRejected(s) PROVE Matters(s)
  BY <1>2, <1>k, <1>t, <1>s DEF UploadRejected, Matters, Loading, Renaming, SourceOK, TurnsOK, KindOK, StagingOK, JobActive, RowExists, dsVars, jobVars, confVars
<1>3. ASSUME UploadPasses(s) PROVE Matters(s)
  BY <1>3, <1>k, <1>t, <1>s DEF UploadPasses, Matters, Loading, Renaming, SourceOK, TurnsOK, KindOK, StagingOK, JobActive, RowExists, dsVars, jobVars, confVars
<1>4. ASSUME UploadInsert(s) PROVE Matters(s)
  BY <1>4, <1>k, <1>t, <1>s DEF UploadInsert, Matters, Loading, Renaming, SourceOK, TurnsOK, KindOK, StagingOK, JobActive, RowExists, dsVars, jobVars, confVars
<1>5. ASSUME UploadInsertFails(s) PROVE Matters(s)
  BY <1>5, <1>k, <1>t, <1>s DEF UploadInsertFails, Matters, Loading, Renaming, SourceOK, TurnsOK, KindOK, StagingOK, JobActive, RowExists, dsVars, jobVars, confVars
<1>6. ASSUME UploadEnqueue(s) PROVE Matters(s)
  BY <1>6, <1>k, <1>t, <1>s DEF UploadEnqueue, Matters, Loading, Renaming, SourceOK, TurnsOK, KindOK, StagingOK, JobActive, RowExists, dsVars, jobVars, confVars
<1>7. ASSUME UploadEnqueueFails(s) PROVE Matters(s)
  BY <1>7, <1>k, <1>t, <1>s DEF UploadEnqueueFails, Matters, Loading, Renaming, SourceOK, TurnsOK, KindOK, StagingOK, JobActive, RowExists, dsVars, jobVars, confVars
<1>8. ASSUME JobStart(s) PROVE Matters(s)
  BY <1>8, <1>k, <1>t, <1>s DEF JobStart, Matters, Loading, Renaming, SourceOK, TurnsOK, KindOK, StagingOK, JobActive, RowExists, dsVars, jobVars, confVars
<1>9. ASSUME ObserveCancel(s) PROVE Matters(s)
  BY <1>9, <1>k, <1>t, <1>s DEF ObserveCancel, Matters, Loading, Renaming, SourceOK, TurnsOK, KindOK, StagingOK, JobActive, RowExists, dsVars, jobVars, confVars
<1>10. ASSUME SweepJob(s) PROVE Matters(s)
  BY <1>10, <1>k, <1>t, <1>s DEF SweepJob, Matters, Loading, Renaming, SourceOK, TurnsOK, KindOK, StagingOK, JobActive, RowExists, dsVars, jobVars, confVars
<1>11. ASSUME Parsed(s) PROVE Matters(s)
  BY <1>11, <1>k, <1>t, <1>s DEF Parsed, HandlerAt, Matters, Loading, Renaming, SourceOK, TurnsOK, KindOK, StagingOK, JobActive, RowExists, dsVars, jobVars, confVars
<1>12. ASSUME ParseFails(s) PROVE Matters(s)
  BY <1>12, <1>k, <1>t, <1>s DEF ParseFails, HandlerFails, FailSource, Matters, Loading, Renaming, SourceOK, TurnsOK, KindOK, StagingOK, JobActive, RowExists, dsVars, jobVars, confVars
<1>13. ASSUME CreateStaging(s) PROVE Matters(s)
  BY <1>13, <1>k, <1>t, <1>s DEF CreateStaging, HandlerAt, Matters, Loading, Renaming, SourceOK, TurnsOK, KindOK, StagingOK, JobActive, RowExists, dsVars, jobVars, confVars
<1>14. ASSUME BeginCopy(s) PROVE Matters(s)
  BY <1>14, <1>k, <1>t, <1>s DEF BeginCopy, HandlerAt, Matters, Loading, Renaming, SourceOK, TurnsOK, KindOK, StagingOK, JobActive, RowExists, dsVars, jobVars, confVars
<1>15. ASSUME CopyFails(s) PROVE Matters(s)
  BY <1>15, <1>k, <1>t, <1>s DEF CopyFails, HandlerFails, FailSource, Matters, Loading, Renaming, SourceOK, TurnsOK, KindOK, StagingOK, JobActive, RowExists, dsVars, jobVars, confVars
<1>16. ASSUME CopyCommit(s) PROVE Matters(s)
  BY <1>16, <1>k, <1>t, <1>s DEF CopyCommit, HandlerAt, Matters, Loading, Renaming, SourceOK, TurnsOK, KindOK, StagingOK, JobActive, RowExists, dsVars, jobVars, confVars
<1>17. ASSUME MarkReady(s) PROVE Matters(s)
  BY <1>17, <1>k, <1>t, <1>s DEF MarkReady, HandlerAt, Matters, Loading, Renaming, SourceOK, TurnsOK, KindOK, StagingOK, JobActive, RowExists, dsVars, jobVars, confVars
<1>18. ASSUME MarkReadyFails(s) PROVE Matters(s)
  BY <1>18, <1>k, <1>t, <1>s DEF MarkReadyFails, HandlerAt, Matters, Loading, Renaming, SourceOK, TurnsOK, KindOK, StagingOK, JobActive, RowExists, dsVars, jobVars, confVars
<1>19. ASSUME PbixLock(s) PROVE Matters(s)
  BY <1>19, <1>k, <1>t, <1>s DEF PbixLock, HandlerAt, Matters, Loading, Renaming, SourceOK, TurnsOK, KindOK, StagingOK, JobActive, RowExists, dsVars, jobVars, confVars
<1>20. ASSUME PbixCancelled(s) PROVE Matters(s)
  BY <1>20, <1>k, <1>t, <1>s DEF PbixCancelled, HandlerAt, Matters, Loading, Renaming, SourceOK, TurnsOK, KindOK, StagingOK, JobActive, RowExists, dsVars, jobVars, confVars
<1>21. ASSUME PbixLoad(s) PROVE Matters(s)
  BY <1>21, <1>k, <1>t, <1>s, PbixLoad(s) DEF PbixLoad, HandlerAt, Matters, Loading, Renaming, SourceOK, TurnsOK, KindOK, StagingOK,
      JobActive, dsVars, jobVars, confVars
<1>22. ASSUME PbixReady(s) PROVE Matters(s)
  BY <1>22, <1>k, <1>t, <1>s DEF PbixReady, HandlerAt, Matters, Loading, Renaming, SourceOK, TurnsOK, KindOK, StagingOK, JobActive, RowExists, dsVars, jobVars, confVars
<1>23. ASSUME PbixSetProject(s) PROVE Matters(s)
  BY <1>23, <1>k, <1>t, <1>s DEF PbixSetProject, HandlerAt, Matters, Loading, Renaming, SourceOK, TurnsOK, KindOK, StagingOK, JobActive, RowExists, dsVars, jobVars, confVars
<1>24. ASSUME PbixFails(s) PROVE Matters(s)
  BY <1>24, <1>k, <1>t, <1>s DEF PbixFails, HandlerFails, FailSource, Matters, Loading, Renaming, SourceOK, TurnsOK, KindOK, StagingOK, JobActive, RowExists, dsVars, jobVars, confVars
<1>25. ASSUME JobEnds(s) PROVE Matters(s)
  BY <1>25, <1>k, <1>t, <1>s DEF JobEnds, Matters, Loading, Renaming, SourceOK, TurnsOK, KindOK, StagingOK, JobActive, RowExists, dsVars, jobVars, confVars
<1>26. ASSUME ConfirmRead(s) PROVE Matters(s)
  BY <1>26, <1>k, <1>t, <1>s DEF ConfirmRead, ConfirmGoes, Matters, Loading, Renaming, SourceOK, TurnsOK, KindOK, StagingOK, JobActive, RowExists, dsVars, jobVars, confVars
<1>27. ASSUME ConfirmResolve(s) PROVE Matters(s)
  BY <1>27, <1>k, <1>t, <1>s, ConfirmResolve(s) DEF ConfirmResolve, ConfirmGoes, Matters, Loading, Renaming, SourceOK, TurnsOK, KindOK, StagingOK,
      JobActive, dsVars, jobVars, confVars
<1>28. ASSUME ConfirmMoves(s) PROVE Matters(s)
  BY <1>28, <1>k, <1>t, <1>s DEF ConfirmMoves, ConfirmGoes, Matters, Loading, Renaming, SourceOK, TurnsOK, KindOK, StagingOK, JobActive, RowExists, dsVars, jobVars, confVars
<1>29. ASSUME ConfirmMoveFails(s) PROVE Matters(s)
  BY <1>29, <1>k, <1>t, <1>s DEF ConfirmMoveFails, ConfirmFails, ConfirmGoes, Matters, Loading, Renaming, SourceOK, TurnsOK, KindOK, StagingOK, JobActive, RowExists, dsVars, jobVars, confVars
<1>30. ASSUME ConfirmCommit(s) PROVE Matters(s)
  BY <1>30, <1>k, <1>t, <1>s, ConfirmCommit(s) DEF ConfirmCommit, ConfirmGoes, Matters, Loading, Renaming, SourceOK, TurnsOK, KindOK, StagingOK,
      JobActive, dsVars, jobVars, confVars
<1>31. ASSUME ConfirmCommitFails(s) PROVE Matters(s)
  BY <1>31, <1>k, <1>t, <1>s DEF ConfirmCommitFails, ConfirmFails, ConfirmGoes, Matters, Loading, Renaming, SourceOK, TurnsOK, KindOK, StagingOK, JobActive, RowExists, dsVars, jobVars, confVars
<1>32. ASSUME DeleteSchema(s) PROVE Matters(s)
  BY <1>32, <1>k, <1>t, <1>s DEF DeleteSchema, Matters, Loading, Renaming, SourceOK, TurnsOK, KindOK, StagingOK, JobActive, RowExists, dsVars, jobVars, confVars
<1>33. ASSUME DeleteTables(s) PROVE Matters(s)
  BY <1>33, <1>k, <1>t, <1>s, DeleteTables(s) DEF DeleteTables, Matters, Loading, Renaming, SourceOK, TurnsOK, KindOK, StagingOK,
      JobActive, dsVars, jobVars, confVars
<1>34. ASSUME CancelJob(s) PROVE Matters(s)
  BY <1>34, <1>k, <1>t, <1>s DEF CancelJob, Matters, Loading, Renaming, SourceOK, TurnsOK, KindOK, StagingOK, JobActive, RowExists, dsVars, jobVars, confVars
<1>35. ASSUME PostState(s) PROVE Matters(s)
  BY <1>35, <1>k, <1>t, <1>s DEF PostState, SaveState, Matters, Loading, Renaming, SourceOK, TurnsOK, KindOK, StagingOK, JobActive, RowExists, dsVars, jobVars, confVars
<1>36. ASSUME ConfirmWithBody(s) PROVE Matters(s)
  BY <1>36, <1>k, <1>t, <1>s DEF ConfirmWithBody, SaveState, Matters, Loading, Renaming, SourceOK, TurnsOK, KindOK, StagingOK, JobActive, RowExists, dsVars, jobVars, confVars
<1>37. ASSUME ConfirmBare(s) PROVE Matters(s)
  BY <1>37, <1>k, <1>t, <1>s DEF ConfirmBare, Matters, Loading, Renaming, SourceOK, TurnsOK, KindOK, StagingOK, JobActive, RowExists, dsVars, jobVars, confVars
<1>38. ASSUME DeleteRow(s) PROVE Matters(s)
  BY <1>38, <1>k, <1>t, <1>s DEF DeleteRow, Matters, Loading, Renaming, SourceOK, TurnsOK, KindOK, StagingOK, JobActive, RowExists, dsVars, jobVars, confVars
<1> QED BY <1>1, <1>2, <1>3, <1>4, <1>5, <1>6, <1>7, <1>8, <1>9, <1>10, <1>11, <1>12, <1>13,
      <1>14, <1>15, <1>16, <1>17, <1>18, <1>19, <1>20, <1>21, <1>22, <1>23, <1>24, <1>25,
      <1>26, <1>27, <1>28, <1>29, <1>30, <1>31, <1>32, <1>33, <1>34, <1>35, <1>36, <1>37, <1>38
      DEF SourceStep, UploadStep, HandlerStep, ConfirmStep, DeleteStep, UserStep

\* The tables a source owns, its resolved name and its loaded data, after its step.
LEMMA OwnLakeStep ==
    ASSUME Scenario, IngestInv, PatientInv, NEW s \in Sources, SourceStep(s)
    PROVE  /\ \A x \in lake' : x.owner = s => TableOK(x)'
           /\ NameOK(s)' /\ LoadedOK(s)'
<1>s. SourceOK(s) /\ NameOK(s) /\ LoadedOK(s) /\ SourceOK(s)'
  BY SourceStepOK DEF PatientInv, IngestInv
<1>m. Matters(s)
  BY <1>s, WhatMatters DEF IngestInv
<1>l. LakeMoves(s)
  BY LakeStep
<1>k. Kind[s] \in {"file", "pbi"} /\ (s \in Deletable => Kind[s] = "file")
  BY IngestAssumption DEF Scenario
<1>n. Suffixed(s) # NoName
  BY IngestAssumption DEF Suffixed, NoName
<1>1. ASSUME NEW x \in lake', x.owner = s PROVE TableOK(x)'
  <2>1. CASE x \in lake
    <3>1. TableOK(x)
      BY <2>1 DEF PatientInv
    <3>2. ~(del'[s] = "done" /\ DeleteTables(s))
      <4> SUFFICES ASSUME DeleteTables(s) PROVE FALSE
        OBVIOUS
      <4>1. del[s] = "tables" /\ lake' = IF roles[s] THEN {t \in lake : t.name # Plain(s)} ELSE lake
        BY DEF DeleteTables
      <4>2. s \in Deletable
        BY <4>1, <1>s DEF SourceOK, TurnsOK
      <4>3. x.name = Plain(s) /\ roles[s]
        BY <4>2, <3>1, <1>1, <1>k DEF TableOK
      <4> QED BY <4>1, <4>3
    <3>3. del'[s] # "done"
      BY <3>1, <3>2, <1>1, <1>m DEF TableOK, Matters
    <3>4. Kind[s] = "file" => stg'[s] = "absent" /\ roles'[s]
      BY <3>1, <1>1, <1>m DEF TableOK, Matters
    <3> QED BY <3>1, <3>3, <3>4, <1>1 DEF TableOK
  <2>2. CASE x \notin lake /\ PbixLoad(s)
    <3>1. x.name = CollisionFree(s) /\ x.owner = s
      BY <2>2, <1>1 DEF PbixLoad
    <3>2. x.name \in {Plain(s), Suffixed(s)}
      BY <3>1 DEF CollisionFree
    <3>3. h[s] = "load" /\ del' = del
      BY <2>2 DEF PbixLoad, HandlerAt
    <3>4. Kind[s] # "file" /\ s \notin Deletable /\ del[s] # "done"
      BY <3>3, <1>s, <1>k DEF SourceOK, KindOK, TurnsOK, JobActive
    <3> QED BY <3>1, <3>2, <3>3, <3>4 DEF TableOK
  <2>3. CASE x \notin lake /\ ConfirmCommit(s)
    <3>1. conf[s] = "tx" /\ moved[s] /\ x.name = FinalName(s) /\ del' = del /\ roles' = roles
      BY <2>3, <1>1 DEF ConfirmCommit
    <3>2. stg'[s] = "absent"
      BY <2>3 DEF ConfirmCommit, IngestInv, TypeOK
    <3>3. \/ FinalName(s) = Suffixed(s) /\ s \notin Deletable
          \/ FinalName(s) = Plain(s)
      BY <3>1, <1>s, <1>n DEF SourceOK, StagingOK, NameOK, FinalName
    <3>4. roles[s] /\ del[s] # "done"
      BY <3>1, <1>s DEF SourceOK, TurnsOK
    <3> QED BY <3>1, <3>2, <3>3, <3>4, <1>1 DEF TableOK
  <2> QED BY <2>1, <2>2, <2>3, <1>m DEF Matters
<1>2. NameOK(s)'
  <2> SUFFICES ASSUME Renaming(s)'
               PROVE  \/ nameMap'[s] = Suffixed(s) /\ s \notin Deletable
                      \/ nameMap'[s] = Plain(s) /\ Plain(s) \notin Names'
    BY DEF NameOK, Renaming
  <2>1. CASE ConfirmResolve(s)
    <3>1. stg[s] = "full" /\ lake' = lake
      BY <2>1 DEF ConfirmResolve, Renaming, IngestInv, TypeOK
    <3>2. nameMap'[s] = CollisionFree(s)
      BY <2>1, <3>1 DEF ConfirmResolve, IngestInv, TypeOK
    <3>3. Plain(s) \in Names => s \notin Deletable
      <4> SUFFICES ASSUME NEW x \in lake, x.name = Plain(s), s \in Deletable PROVE FALSE
        BY DEF Names
      <4>1. x.owner \in Sources /\ TableOK(x)
        BY DEF IngestInv, TypeOK, PatientInv
      <4>2. x.owner = s
        BY <4>1, NamesTellOwners
      <4> QED BY <4>1, <4>2, <3>1, <1>k DEF TableOK
    <3> QED BY <3>1, <3>2, <3>3 DEF CollisionFree, Names
  <2>2. CASE Renaming(s) /\ nameMap'[s] = nameMap[s] /\ lake' = lake
    BY <2>2, <1>s DEF Renaming, NameOK, Names
  <2> QED BY <2>1, <2>2, <1>m DEF Matters
<1>3. LoadedOK(s)'
  <2> SUFFICES ASSUME Loading(s)' PROVE \E x \in lake' : x.owner = s
    BY DEF LoadedOK, Loading
  <2>1. CASE PbixLoad(s)
    <3>1. [name |-> CollisionFree(s), owner |-> s] \in lake'
      BY <2>1 DEF PbixLoad
    <3> QED BY <3>1
  <2>2. CASE Loading(s)
    <3>1. \E x \in lake : x.owner = s
      BY <2>2, <1>s DEF LoadedOK, Loading
    <3>2. del[s] = "none"
      BY <2>2, <1>s, <1>k DEF Loading, SourceOK, TurnsOK, KindOK
    <3> QED BY <3>1, <3>2, <1>l DEF LakeMoves
  <2> QED BY <2>1, <2>2, <1>m DEF Matters
<1> QED BY <1>1, <1>2, <1>3

LEMMA StepKeepsPatientInv ==
    ASSUME Scenario, IngestInv, PatientInv, NEW s \in Sources, SourceStep(s)
    PROVE  PatientInv'
<1>t. Touches(s)
  BY StepTypes DEF IngestInv
<1>l. LakeMoves(s)
  BY LakeStep
<1>o. /\ \A x \in lake' : x.owner = s => TableOK(x)'
      /\ NameOK(s)' /\ LoadedOK(s)'
  BY OwnLakeStep
<1>1. SourceOK(s)'
  BY SourceStepOK DEF IngestInv, PatientInv
<1>2. ASSUME NEW t \in Sources \ {s} PROVE SourceOK(t)'
  BY <1>t DEF PatientInv, Touches, SourceOK, TurnsOK, KindOK, RowOK, StagingOK, JobActive
<1>3. ASSUME NEW t \in Sources \ {s} PROVE NameOK(t)'
  <2> SUFFICES ASSUME conf[t] \in {"list", "tx"}, stg[t] = "full"
               PROVE  \/ nameMap[t] = Suffixed(t) /\ t \notin Deletable
                      \/ nameMap[t] = Plain(t) /\ Plain(t) \notin Names'
    BY <1>t DEF NameOK, Touches
  <2>1. lock = Holder("confirm", t)
    BY DEF IngestInv, LockInv
  <2>2. lock \notin {Holder("job", s), Holder("confirm", s)}
    BY <2>1, HoldersDiffer
  <2>3. Names' \subseteq Names
    BY <2>2, <1>l DEF LakeMoves, Names
  <2> QED BY <2>3 DEF PatientInv, NameOK
<1>4. ASSUME NEW t \in Sources \ {s} PROVE LoadedOK(t)'
  BY <1>t, <1>l DEF Touches, LakeMoves, PatientInv, LoadedOK
<1>5. ASSUME NEW x \in lake', x.owner # s PROVE TableOK(x)'
  <2>1. x \in lake /\ x.owner \in Sources \ {s} /\ TableOK(x)
    BY <1>5, <1>l DEF LakeMoves, PatientInv, IngestInv, TypeOK
  <2> QED BY <2>1, <1>t DEF Touches, TableOK
<1> QED BY <1>o, <1>1, <1>2, <1>3, <1>4, <1>5 DEF PatientInv

\* Four steps write the lakehouse schema.
LEMMA LakeUntouched ==
    ASSUME NEW s \in Sources, SourceStep(s)
    PROVE  lake' = lake \/ h[s] = "load" \/ conf[s] = "tx" \/ DeleteSchema(s) \/ DeleteTables(s)
<1> DEFINE Goal == lake' = lake \/ h[s] = "load" \/ conf[s] = "tx" \/ DeleteSchema(s) \/ DeleteTables(s)
<1>1. ASSUME UploadLock(s) PROVE Goal
  BY <1>1 DEF UploadLock, dsVars, jobVars, confVars
<1>2. ASSUME UploadRejected(s) PROVE Goal
  BY <1>2 DEF UploadRejected, dsVars, jobVars, confVars
<1>3. ASSUME UploadPasses(s) PROVE Goal
  BY <1>3 DEF UploadPasses, dsVars, jobVars, confVars
<1>4. ASSUME UploadInsert(s) PROVE Goal
  BY <1>4 DEF UploadInsert, dsVars, jobVars, confVars
<1>5. ASSUME UploadInsertFails(s) PROVE Goal
  BY <1>5 DEF UploadInsertFails, dsVars, jobVars, confVars
<1>6. ASSUME UploadEnqueue(s) PROVE Goal
  BY <1>6 DEF UploadEnqueue, dsVars, jobVars, confVars
<1>7. ASSUME UploadEnqueueFails(s) PROVE Goal
  BY <1>7 DEF UploadEnqueueFails, dsVars, jobVars, confVars
<1>8. ASSUME JobStart(s) PROVE Goal
  BY <1>8 DEF JobStart, dsVars, jobVars, confVars
<1>9. ASSUME ObserveCancel(s) PROVE Goal
  BY <1>9 DEF ObserveCancel, dsVars, jobVars, confVars
<1>10. ASSUME SweepJob(s) PROVE Goal
  BY <1>10 DEF SweepJob, dsVars, jobVars, confVars
<1>11. ASSUME Parsed(s) PROVE Goal
  BY <1>11 DEF Parsed, HandlerAt, dsVars, jobVars, confVars
<1>12. ASSUME ParseFails(s) PROVE Goal
  BY <1>12 DEF ParseFails, HandlerFails, FailSource, RowExists, dsVars, jobVars, confVars
<1>13. ASSUME CreateStaging(s) PROVE Goal
  BY <1>13 DEF CreateStaging, HandlerAt, dsVars, jobVars, confVars
<1>14. ASSUME BeginCopy(s) PROVE Goal
  BY <1>14 DEF BeginCopy, HandlerAt, dsVars, jobVars, confVars
<1>15. ASSUME CopyFails(s) PROVE Goal
  BY <1>15 DEF CopyFails, HandlerFails, FailSource, RowExists, dsVars, jobVars, confVars
<1>16. ASSUME CopyCommit(s) PROVE Goal
  BY <1>16 DEF CopyCommit, HandlerAt, dsVars, jobVars, confVars
<1>17. ASSUME MarkReady(s) PROVE Goal
  BY <1>17 DEF MarkReady, HandlerAt, RowExists, dsVars, jobVars, confVars
<1>18. ASSUME MarkReadyFails(s) PROVE Goal
  BY <1>18 DEF MarkReadyFails, HandlerAt, dsVars, jobVars, confVars
<1>19. ASSUME PbixLock(s) PROVE Goal
  BY <1>19 DEF PbixLock, HandlerAt, dsVars, jobVars, confVars
<1>20. ASSUME PbixCancelled(s) PROVE Goal
  BY <1>20 DEF PbixCancelled, HandlerAt, dsVars, jobVars, confVars
<1>21. ASSUME PbixLoad(s) PROVE Goal
  BY <1>21 DEF PbixLoad, HandlerAt, dsVars, jobVars, confVars
<1>22. ASSUME PbixReady(s) PROVE Goal
  BY <1>22 DEF PbixReady, HandlerAt, RowExists, dsVars, jobVars, confVars
<1>23. ASSUME PbixSetProject(s) PROVE Goal
  BY <1>23 DEF PbixSetProject, HandlerAt, dsVars, jobVars, confVars
<1>24. ASSUME PbixFails(s) PROVE Goal
  BY <1>24 DEF PbixFails, HandlerFails, FailSource, RowExists, dsVars, jobVars, confVars
<1>25. ASSUME JobEnds(s) PROVE Goal
  BY <1>25 DEF JobEnds, dsVars, jobVars, confVars
<1>26. ASSUME ConfirmRead(s) PROVE Goal
  BY <1>26 DEF ConfirmRead, ConfirmGoes, dsVars, jobVars, confVars
<1>27. ASSUME ConfirmResolve(s) PROVE Goal
  BY <1>27 DEF ConfirmResolve, ConfirmGoes, dsVars, jobVars, confVars
<1>28. ASSUME ConfirmMoves(s) PROVE Goal
  BY <1>28 DEF ConfirmMoves, ConfirmGoes, dsVars, jobVars, confVars
<1>29. ASSUME ConfirmMoveFails(s) PROVE Goal
  BY <1>29 DEF ConfirmMoveFails, ConfirmFails, ConfirmGoes, dsVars, jobVars, confVars
<1>30. ASSUME ConfirmCommit(s) PROVE Goal
  BY <1>30 DEF ConfirmCommit, ConfirmGoes, RowExists, dsVars, jobVars, confVars
<1>31. ASSUME ConfirmCommitFails(s) PROVE Goal
  BY <1>31 DEF ConfirmCommitFails, ConfirmFails, ConfirmGoes, dsVars, jobVars, confVars
<1>32. ASSUME DeleteSchema(s) PROVE Goal
  BY <1>32
<1>33. ASSUME DeleteTables(s) PROVE Goal
  BY <1>33
<1>34. ASSUME CancelJob(s) PROVE Goal
  BY <1>34 DEF CancelJob, dsVars, jobVars, confVars
<1>35. ASSUME PostState(s) PROVE Goal
  BY <1>35 DEF PostState, SaveState, dsVars, jobVars, confVars
<1>36. ASSUME ConfirmWithBody(s) PROVE Goal
  BY <1>36 DEF ConfirmWithBody, SaveState, dsVars, jobVars, confVars
<1>37. ASSUME ConfirmBare(s) PROVE Goal
  BY <1>37 DEF ConfirmBare, dsVars, jobVars, confVars
<1>38. ASSUME DeleteRow(s) PROVE Goal
  BY <1>38 DEF DeleteRow, dsVars, jobVars, confVars
<1> HIDE DEF Goal
<1>g. Goal
  BY <1>1, <1>2, <1>3, <1>4, <1>5, <1>6, <1>7, <1>8, <1>9, <1>10, <1>11, <1>12, <1>13,
      <1>14, <1>15, <1>16, <1>17, <1>18, <1>19, <1>20, <1>21, <1>22, <1>23, <1>24, <1>25,
      <1>26, <1>27, <1>28, <1>29, <1>30, <1>31, <1>32, <1>33, <1>34, <1>35, <1>36, <1>37, <1>38
      DEF SourceStep, UploadStep, HandlerStep, ConfirmStep, DeleteStep, UserStep
<1> QED BY <1>g DEF Goal

LEMMA CrashKeepsPatientInv ==
    ASSUME Scenario, IngestInv, PatientInv, Crash
    PROVE  PatientInv'
<1> PICK S \in SUBSET {s \in Sources : ds[s] = "wizard_in_progress"} :
    /\ lock' = Free
    /\ crashed' = TRUE
    /\ ds' = [s \in Sources |-> IF s \in S THEN "failed_resumable" ELSE ds[s]]
    /\ upl' = [s \in Sources |-> IF upl[s] \in {"check", "insert", "enqueue"} THEN "error" ELSE upl[s]]
    /\ h' = [s \in Sources |-> "off"]
    /\ conf' = [s \in Sources |-> IF conf[s] \in {"read", "lock", "list", "tx"} THEN "failed" ELSE conf[s]]
    /\ moved' = [s \in Sources |-> FALSE]
    /\ del' = [s \in Sources |-> IF del[s] \in {"schema", "tables"} THEN "lost" ELSE del[s]]
    /\ UNCHANGED <<schemaCol, roles, stg, lake, job, cancelReq, seen, nameMap, confirms>>
  BY DEF Crash
<1>1. ASSUME NEW s \in Sources PROVE SourceOK(s)' /\ NameOK(s)' /\ LoadedOK(s)'
  <2>1. SourceOK(s) /\ NameOK(s) /\ LoadedOK(s)
    BY DEF PatientInv
  <2>2. /\ ds'[s] = ds[s] \/ (ds[s] = "wizard_in_progress" /\ ds'[s] = "failed_resumable")
        /\ upl'[s] = IF upl[s] \in {"check", "insert", "enqueue"} THEN "error" ELSE upl[s]
        /\ h'[s] = "off" /\ ~moved'[s]
        /\ conf'[s] = IF conf[s] \in {"read", "lock", "list", "tx"} THEN "failed" ELSE conf[s]
        /\ del'[s] = IF del[s] \in {"schema", "tables"} THEN "lost" ELSE del[s]
    OBVIOUS
  <2>3. TurnsOK(s)' /\ KindOK(s)'
    BY <2>1, <2>2 DEF SourceOK, TurnsOK, KindOK, JobActive
  <2>4. RowOK(s)' /\ StagingOK(s)'
    BY <2>1, <2>2 DEF SourceOK, TurnsOK, RowOK, StagingOK, JobActive
  <2>5. NameOK(s)' /\ LoadedOK(s)'
    BY <2>1, <2>2 DEF NameOK, LoadedOK
  <2> QED BY <2>3, <2>4, <2>5 DEF SourceOK
<1>2. ASSUME NEW x \in lake' PROVE TableOK(x)'
  <2>1. TableOK(x) /\ x.owner \in Sources
    BY DEF PatientInv, IngestInv, TypeOK
  <2> QED BY <2>1 DEF TableOK
<1> QED BY <1>1, <1>2 DEF PatientInv

LEMMA PatientInit == Init => PatientInv
<1> SUFFICES ASSUME Init PROVE PatientInv
  OBVIOUS
<1>1. ASSUME NEW s \in Sources PROVE SourceOK(s)
  BY DEF Init, SourceOK, TurnsOK, KindOK, RowOK, StagingOK
<1>2. ASSUME NEW s \in Sources PROVE NameOK(s) /\ LoadedOK(s)
  BY DEF Init, NameOK, LoadedOK
<1> QED BY <1>1, <1>2 DEF Init, PatientInv

\* The inductive invariant behind the two theorems below.
THEOREM PatientClientsStayInStep ==
    ASSUME Scenario PROVE Spec => [](IngestInv /\ PatientInv)
<1>1. Init => IngestInv /\ PatientInv
  BY IngestInit, PatientInit
<1>2. IngestInv /\ PatientInv /\ [Next]_vars => (IngestInv /\ PatientInv)'
  <2> SUFFICES ASSUME IngestInv, PatientInv, [Next]_vars PROVE IngestInv' /\ PatientInv'
    OBVIOUS
  <2>1. ASSUME NEW s \in Sources, SourceStep(s) PROVE IngestInv' /\ PatientInv'
    BY <2>1, StepKeepsInv, StepKeepsPatientInv
  <2>2. CASE Crash
    BY <2>2, CrashKeepsInv, CrashKeepsPatientInv
  <2>3. CASE UNCHANGED vars
    <3>1. IngestInv'
      BY <2>3 DEF vars, dsVars, jobVars, confVars, IngestInv, TypeOK, LockInv, JobInv, DedupInv, Alive, RowExists
    <3>2. \A s \in Sources : SourceOK(s)'
      BY <2>3 DEF vars, dsVars, jobVars, confVars, PatientInv, SourceOK, TurnsOK, KindOK, RowOK, StagingOK, JobActive
    <3>3. \A s \in Sources : NameOK(s)' /\ LoadedOK(s)'
      BY <2>3 DEF vars, dsVars, jobVars, confVars, PatientInv, NameOK, LoadedOK, Names
    <3>4. \A x \in lake' : TableOK(x)'
      BY <2>3 DEF vars, dsVars, jobVars, confVars, PatientInv, TableOK
    <3> QED BY <3>1, <3>2, <3>3, <3>4 DEF PatientInv
  <2> QED BY <2>1, <2>2, <2>3 DEF Next, SourceStep
<1> QED BY <1>1, <1>2, PTL DEF Spec

\* What data_source and ingest_job say of a source is true of its data: a ready
\* source is loaded, a succeeded job has imported, a finished DELETE has left
\* nothing, through failing statements and a crash, whatever the other sources do.
THEOREM RowsTellTheTruth ==
    ASSUME Scenario PROVE Spec => []StatusMatchesData
<1>1. IngestInv /\ PatientInv => StatusMatchesData
  <2> SUFFICES ASSUME IngestInv, PatientInv PROVE StatusMatchesData
    OBVIOUS
  <2>1. ReadyMeansLoaded
    BY IngestAssumption DEF PatientInv, SourceOK, StagingOK, LoadedOK, ReadyMeansLoaded
  <2>2. SucceededMeansImported
    BY DEF PatientInv, SourceOK, RowOK, SucceededMeansImported
  <2>3. DeletedLeavesNothing
    BY DEF PatientInv, SourceOK, StagingOK, TableOK, DeletedLeavesNothing
  <2> QED BY <2>1, <2>2, <2>3 DEF StatusMatchesData, IngestInv
<1> QED BY <1>1, PatientClientsStayInStep, PTL

\* No upload, pbix load, confirm or delete of one source removes or replaces a
\* lakehouse table of another one, however the names collide.
THEOREM OthersTablesStay ==
    ASSUME Scenario PROVE Spec => OthersTablesKept
<1> DEFINE Kept == \A t \in lake : t \in lake' \/ del[t.owner] # "none"
                                      \/ conf[t.owner] = "tx" \/ h[t.owner] = "load"
<1>1. IngestInv /\ PatientInv /\ [Next]_vars => [Kept]_vars
  <2> SUFFICES ASSUME IngestInv, PatientInv, Next PROVE Kept
    OBVIOUS
  <2>1. ASSUME NEW s \in Sources, SourceStep(s) PROVE Kept
    <3> SUFFICES ASSUME NEW t \in lake, t \notin lake', h[t.owner] # "load", conf[t.owner] # "tx"
                 PROVE  del[t.owner] # "none"
      OBVIOUS
    <3>1. LakeMoves(s) /\ t.owner = s
      BY <2>1, LakeStep DEF LakeMoves
    <3>2. CASE DeleteSchema(s) \/ DeleteTables(s)
      BY <3>1, <3>2 DEF DeleteSchema, DeleteTables
    <3>3. CASE ~(DeleteSchema(s) \/ DeleteTables(s))
      <4>1. lake' = lake \/ h[s] = "load" \/ conf[s] = "tx"
        BY <2>1, <3>3, LakeUntouched
      <4> QED BY <4>1, <3>1
    <3> QED BY <3>2, <3>3
  <2>2. CASE Crash
    BY <2>2 DEF Crash
  <2> QED BY <2>1, <2>2 DEF Next, SourceStep
<1> QED BY <1>1, PatientClientsStayInStep, PTL DEF Spec, OthersTablesKept

-----------------------------------------------------------------------------
(* The job of a source is a job of the queue *)

JobLife == INSTANCE JobLifecycle WITH Jobs <- Sources, status <- job

\* The steps that write the job's row; all others leave it alone.
LEMMA JobWriters ==
    ASSUME NEW s \in Sources, SourceStep(s)
    PROVE  job' = job \/ UploadEnqueue(s) \/ JobStart(s) \/ SweepJob(s) \/ JobEnds(s) \/ DeleteRow(s)
BY DEF SourceStep, UploadStep, UploadLock, UploadRejected, UploadPasses, UploadInsert, UploadInsertFails,
       UploadEnqueueFails, ObserveCancel, HandlerStep, Parsed, ParseFails, HandlerFails, CreateStaging, BeginCopy,
       CopyFails, CopyCommit, MarkReady, MarkReadyFails, PbixLock, PbixCancelled, PbixLoad, PbixReady,
       PbixSetProject, PbixFails, ConfirmStep, ConfirmRead, ConfirmResolve, ConfirmMoves, ConfirmMoveFails,
       ConfirmFails, ConfirmCommit, ConfirmCommitFails, DeleteStep, DeleteSchema, DeleteTables, UserStep,
       CancelJob, PostState, ConfirmWithBody, ConfirmBare, jobVars

\* Each writes the row of its source, along an edge of the documented lifecycle.
LEMMA JobEdge ==
    ASSUME IngestInv, NEW s \in Sources, SourceStep(s)
    PROVE  /\ job' \in [Sources -> JobLife!Statuses]
           /\ \A t \in Sources : job'[t] = job[t] \/ <<job[t], job'[t]>> \in JobLife!Edges
<1> USE DEF JobLife!Statuses, JobLife!Terminal, JobLife!Edges
<1>1. job \in [Sources -> JobLife!Statuses]
  BY DEF IngestInv, TypeOK
<1>2. job[s] # "none" => upl[s] = "accepted"
  BY DEF IngestInv, JobInv
<1>3. CASE job' = job
  BY <1>1, <1>3
<1>4. CASE UploadEnqueue(s)
  BY <1>1, <1>2, <1>4 DEF UploadEnqueue
<1>5. CASE JobStart(s)
  BY <1>1, <1>5 DEF JobStart
<1>6. CASE SweepJob(s)
  BY <1>1, <1>6 DEF SweepJob
<1>7. CASE JobEnds(s)
  BY <1>1, <1>7 DEF JobEnds
<1>8. CASE DeleteRow(s)
  BY <1>1, <1>8 DEF DeleteRow
<1> QED BY <1>3, <1>4, <1>5, <1>6, <1>7, <1>8, JobWriters

\* "queued -> running -> succeeded | failed | cancelled" (job/types.go): what uploads, handlers, the
\* wizard, deletes and a crash do to the job of a source are steps of the lifecycle that JobQueue is
\* shown to implement, also with impatient clients: no status is rewritten once it is terminal.
THEOREM JobsFollowTheLifecycle == Spec => JobLife!Spec
<1>1. Init => JobLife!Init
  BY DEF Init, JobLife!Init
<1>2. IngestInv /\ [Next]_vars => [JobLife!Next]_job
  <2> SUFFICES ASSUME IngestInv, [Next]_vars  PROVE [JobLife!Next]_job
    OBVIOUS
  <2>1. ASSUME NEW s \in Sources, SourceStep(s)  PROVE JobLife!Next
    BY <2>1, JobEdge DEF JobLife!Next
  <2>2. CASE Crash
    BY <2>2 DEF Crash
  <2>3. CASE UNCHANGED vars
    BY <2>3 DEF vars, jobVars
  <2> QED BY <2>1, <2>2, <2>3 DEF Next, SourceStep
<1> QED BY <1>1, <1>2, UploadsStayInStep, PTL DEF Spec, JobLife!Spec
=============================================================================
