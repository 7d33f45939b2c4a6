---------------------------- MODULE RecoveryJobs ----------------------------
(***************************************************************************)
(* The background jobs that draft recovery mails for abandoned carts: the  *)
(* table async_job_runs (services/async_jobs.py), the ARQ queue, the job   *)
(* wrapper, the sweep loop and the watchdog of the worker                  *)
(* (core/worker.py), and the recovery operations they work on              *)
(* (services/hunter_service.py, api/hunter.py).                            *)
(*                                                                         *)
(* A job is a row and then an entry of the queue.  The loop queues a sweep *)
(* when none is in flight; the sweep queues a draft for each cart that     *)
(* waits for one; the watchdog closes rows that are too old and sends      *)
(* their carts back to wait.  There is at most one sweep, so its row and   *)
(* its entry are in its pc; drafts have ids.                               *)
(***************************************************************************)
EXTENDS Integers

CONSTANTS
    Op,        \* recovery operations, one for each cart that stays a candidate
    Job,       \* ids of draft jobs; one is used again when its row is archived
    Slot,      \* drafts the ARQ worker runs at once
    None,
    MaxTries,  \* arq_max_tries
    MaxFaults  \* bound: restarts, failed or lost enqueues, watchdog errors

RowType == [op : Op, status : {"queued", "running", "succeeded", "failed"},
            age : {"new", "late", "begun", "overdue"}]
EntryType == [state : {"absent", "waiting", "taken", "succeeded", "failed"},
              tries : 0..MaxTries]

ASSUME JobsAssumption ==
    /\ None \notin Job /\ None \notin RowType
    /\ MaxTries \in Nat \ {0} /\ MaxFaults \in Nat

VARIABLES
    op,      \* hunter_recovery_ops: the status of each operation
    drafted, \* the operations that have a draft (ai_draft_body)
    row,     \* async_job_runs: the draft jobs, by id
    entry,   \* Redis: the queue entry, then the result, of each draft job
    slot,    \* what each slot is doing
    sweep,   \* the sweep loop and its job
    dog,     \* what the watchdog has in hand
    approving, \* operations staff have read as ready and are about to approve
    faults

vars == <<op, drafted, row, entry, slot, sweep, dog, approving, faults>>

Free == [pc |-> "free", job |-> None]
Asleep == [pc |-> "asleep", job |-> None]
NoSweep == [pc |-> "idle", job |-> None, todo |-> {}]
NoEntry == [state |-> "absent", tries |-> 0]

Init ==
    /\ op = [o \in Op |-> "absent"] /\ drafted = {}
    /\ row = [j \in Job |-> None] /\ entry = [j \in Job |-> NoEntry]
    /\ slot = [w \in Slot |-> Free] /\ sweep = NoSweep /\ dog = Asleep
    /\ approving = {} /\ faults = 0

InFlight(j) == row[j] # None /\ row[j].status \in {"queued", "running"}
Mark(j, status) == row' = [row EXCEPT ![j].status = status]
Goto(w, pc) == slot' = [slot EXCEPT ![w].pc = pc]
Target(w) == row[slot[w].job].op

(***************************************************************************)
(* The sweep loop and the sweep.                                           *)
(***************************************************************************)

\* _enqueue_hunter_queue_sweep_if_idle: the sweep's row is committed ...
SweepInsert ==
    /\ sweep.pc = "idle" /\ sweep' = [sweep EXCEPT !.pc = "inserted"]
    /\ UNCHANGED <<op, drafted, row, entry, slot, dog, approving, faults>>

\* ... and its entry put into Redis, or refused and the row marked failed.  When
\* Redis cannot be reached at all (create_arq_pool, before the try) it stays queued.
SweepEnqueue ==
    /\ sweep.pc = "inserted"
    /\ \/ sweep' = [sweep EXCEPT !.pc = "waiting"] /\ UNCHANGED faults
       \/ /\ sweep' \in {NoSweep, [sweep EXCEPT !.pc = "lost"]}
          /\ faults < MaxFaults /\ faults' = faults + 1
    /\ UNCHANGED <<op, drafted, row, entry, slot, dog, approving>>

Drafting(o) == \E j \in Job : InFlight(j) /\ row[j].op = o

\* _stage_recovery_ops: carts without an operation get one; those that wait are to
\* get a job ...
SweepStage ==
    /\ sweep.pc = "waiting"
    /\ op' = [o \in Op |-> IF op[o] = "absent" THEN "QUEUED" ELSE op[o]]
    /\ sweep' = [sweep EXCEPT !.pc = "staged", !.todo = {o \in Op : op'[o] = "QUEUED"}]
    /\ UNCHANGED <<drafted, row, entry, slot, dog, approving, faults>>

\* ... unless one is in flight by the time _inflight_recovery_job_ids looks.
SweepInflight ==
    /\ sweep.pc = "staged"
    /\ sweep' = [sweep EXCEPT !.pc = "queueing", !.todo = {o \in @ : ~Drafting(o)}]
    /\ UNCHANGED <<op, drafted, row, entry, slot, dog, approving, faults>>

\* An id nobody uses: a fresh one, or that of an archived row.
Unused(j) == /\ ~InFlight(j) /\ entry[j].state \notin {"waiting", "taken"}
             /\ dog.job # j /\ \A w \in Slot : slot[w].job # j

\* enqueue_async_job commits the row of a draft first.
DraftInsert(o) ==
    LET j == CHOOSE k \in Job : Unused(k)
    IN  /\ sweep.pc = "queueing" /\ o \in sweep.todo /\ \E k \in Job : Unused(k)
        /\ row' = [row EXCEPT ![j] = [op |-> o, status |-> "queued", age |-> "new"]]
        /\ entry' = [entry EXCEPT ![j] = NoEntry]
        /\ sweep' = [pc |-> "enqueue", job |-> j, todo |-> sweep.todo \ {o}]
        /\ UNCHANGED <<op, drafted, slot, dog, approving, faults>>

Put(j) == entry' = [entry EXCEPT ![j].state = "waiting"]

DraftEnqueue ==
    /\ sweep.pc = "enqueue" /\ Put(sweep.job)
    /\ sweep' = [sweep EXCEPT !.pc = "queueing", !.job = None]
    /\ UNCHANGED <<op, drafted, row, slot, dog, approving, faults>>

\* Redis refuses, or its answer or the commit after it is lost.
DraftEnqueueFails ==
    /\ sweep.pc = "enqueue" /\ faults < MaxFaults /\ faults' = faults + 1
    /\ Put(sweep.job) \/ UNCHANGED entry
    /\ sweep' = [sweep EXCEPT !.pc = "unqueued"]
    /\ UNCHANGED <<op, drafted, row, slot, dog, approving>>

\* No connection to Redis: the error ends the sweep, and the row stays queued.
DraftPoolFails ==
    /\ sweep.pc = "enqueue" /\ faults < MaxFaults /\ faults' = faults + 1
    /\ sweep' = NoSweep
    /\ UNCHANGED <<op, drafted, row, entry, slot, dog, approving>>

\* Its row is marked failed and the error ends the sweep.
DraftUnqueued ==
    /\ sweep.pc = "unqueued" /\ Mark(sweep.job, "failed") /\ sweep' = NoSweep
    /\ UNCHANGED <<op, drafted, entry, slot, dog, approving, faults>>

SweepDone ==
    /\ sweep.pc = "queueing" /\ sweep.todo = {} /\ sweep' = NoSweep
    /\ UNCHANGED <<op, drafted, row, entry, slot, dog, approving, faults>>

(***************************************************************************)
(* A slot runs a draft.                                                    *)
(***************************************************************************)

\* ARQ takes an entry and _with_job marks its row running, whatever it was;
\* started_at keeps its first value.
Take(w, j) ==
    /\ slot[w].pc = "free" /\ entry[j].state = "waiting" /\ entry[j].tries < MaxTries
    /\ entry' = [entry EXCEPT ![j] = [state |-> "taken", tries |-> @.tries + 1]]
    /\ row' = [row EXCEPT ![j] = [op |-> @.op, status |-> "running",
                                  age |-> IF @.age = "overdue" THEN "overdue" ELSE "begun"]]
    /\ slot' = [slot EXCEPT ![w] = [pc |-> "load", job |-> j]]
    /\ UNCHANGED <<op, drafted, sweep, dog, approving, faults>>

\* ARQ gives up an entry that was taken too often.
Exhausted(j) ==
    /\ entry[j].state = "waiting" /\ entry[j].tries = MaxTries
    /\ entry' = [entry EXCEPT ![j] = [state |-> "failed", tries |-> 0]]
    /\ UNCHANGED <<op, drafted, row, slot, sweep, dog, approving, faults>>

\* Mutant: an operation that executes already is left to whoever began it.
DraftLoadBusy(w) ==
    /\ slot[w].pc = "load"
    /\ Goto(w, CASE op[Target(w)] = "DISPATCHED" -> "retry"
                 [] op[Target(w)] = "EXECUTING" -> "succeed"
                 [] OTHER -> "execute")
    /\ UNCHANGED <<op, drafted, row, entry, sweep, dog, approving, faults>>

\* execute_hunter_recovery_draft refuses an operation that was dispatched; one that
\* executes already is left as it is.
DraftLoad(w) ==
    /\ slot[w].pc = "load"
    /\ Goto(w, CASE op[Target(w)] = "DISPATCHED" -> "retry"
                 [] op[Target(w)] = "EXECUTING" -> "draft"
                 [] OTHER -> "execute")
    /\ UNCHANGED <<op, drafted, row, entry, sweep, dog, approving, faults>>

DraftExecute(w) ==
    /\ slot[w].pc = "execute" /\ Goto(w, "draft")
    /\ op' = [op EXCEPT ![Target(w)] = "EXECUTING"]
    /\ UNCHANGED <<drafted, row, entry, sweep, dog, approving, faults>>

\* Mutant: an answer without a draft_body is taken for a draft.
DraftDoneEmpty(w) ==
    /\ slot[w].pc = "draft" /\ Goto(w, "succeed")
    /\ op' = [op EXCEPT ![Target(w)] = "DRAFT_READY"]
    /\ UNCHANGED <<drafted, row, entry, sweep, dog, approving, faults>>

\* Mutant: the draft is stored under the id of the job.
DraftDoneByJob(w) ==
    /\ slot[w].pc = "draft" /\ Goto(w, "succeed")
    /\ op' = [op EXCEPT ![Target(w)] = "DRAFT_READY"]
    /\ drafted' = drafted \cup {slot[w].job}
    /\ UNCHANGED <<row, entry, sweep, dog, approving, faults>>

\* The orchestrator answered with a draft; status and draft are committed.
DraftDone(w) ==
    /\ slot[w].pc = "draft" /\ Goto(w, "succeed")
    /\ op' = [op EXCEPT ![Target(w)] = "DRAFT_READY"]
    /\ drafted' = drafted \cup {Target(w)}
    /\ UNCHANGED <<row, entry, sweep, dog, approving, faults>>

\* No answer, or an answer without a draft.
DraftFails(w) ==
    /\ slot[w].pc = "draft" /\ Goto(w, "retry")
    /\ UNCHANGED <<op, drafted, row, entry, sweep, dog, approving, faults>>

\* Mutant: a failed draft leaves its operation in EXECUTING.
DraftRetryStuck(w) ==
    /\ slot[w].pc = "retry" /\ Goto(w, "fail")
    /\ UNCHANGED <<op, drafted, row, entry, sweep, dog, approving, faults>>

\* Whatever was raised, the refusal too, sends the operation back to QUEUED.
DraftRetry(w) ==
    /\ slot[w].pc = "retry" /\ Goto(w, "fail")
    /\ op' = [op EXCEPT ![Target(w)] = "QUEUED"]
    /\ UNCHANGED <<drafted, row, entry, sweep, dog, approving, faults>>

\* Mutant: the wrapper marks the row succeeded whatever the runner raised.
JobEndsWell(w, pc, status) ==
    /\ slot[w].pc = pc /\ Mark(slot[w].job, "succeeded") /\ Goto(w, status)
    /\ UNCHANGED <<op, drafted, entry, sweep, dog, approving, faults>>

\* mark_job_succeeded, mark_job_failed
JobEnds(w, pc, status) ==
    /\ slot[w].pc = pc /\ Mark(slot[w].job, status) /\ Goto(w, status)
    /\ UNCHANGED <<op, drafted, entry, sweep, dog, approving, faults>>

\* ARQ keeps the result and drops the entry.
Leave(w) ==
    /\ slot[w].pc \in {"succeeded", "failed"}
    /\ entry' = [entry EXCEPT ![slot[w].job] = [state |-> slot[w].pc, tries |-> 0]]
    /\ slot' = [slot EXCEPT ![w] = Free]
    /\ UNCHANGED <<op, drafted, row, sweep, dog, approving, faults>>

\* The worker process restarts.  Jobs that were running, the sweep too, run again
\* when their in-progress keys are gone; a sweep with a row and no entry is lost.
Restart ==
    /\ faults < MaxFaults /\ faults' = faults + 1
    /\ slot' = [w \in Slot |-> Free] /\ dog' = Asleep
    /\ sweep' = [NoSweep EXCEPT !.pc = CASE sweep.pc = "idle" -> "idle"
                                         [] sweep.pc \in {"inserted", "lost"} -> "lost"
                                         [] OTHER -> "waiting"]
    /\ entry' = [j \in Job |-> IF entry[j].state = "taken"
                               THEN [entry[j] EXCEPT !.state = "waiting"] ELSE entry[j]]
    /\ UNCHANGED <<op, drafted, row, approving>>

(***************************************************************************)
(* The watchdog and the staff.                                             *)
(***************************************************************************)

\* Three minutes after created_at, a quarter of an hour after started_at.
Limit(j) == IF row[j].status = "queued" THEN "late" ELSE "overdue"

GrowOld(j) ==
    /\ InFlight(j) /\ row[j].age # Limit(j)
    /\ row' = [row EXCEPT ![j].age = Limit(j)]
    /\ UNCHANGED <<op, drafted, entry, slot, sweep, dog, approving, faults>>

\* _load_stale_async_jobs
Stale(j) == InFlight(j) /\ row[j].age = Limit(j)

\* A stale row is read, and then its result asked for: it settles the row; after a
\* failure, or without a result, the operation is sent back.
WatchdogLoad(j) ==
    /\ dog.pc = "asleep" /\ Stale(j) /\ dog' = [pc |-> "ask", job |-> j]
    /\ UNCHANGED <<op, drafted, row, entry, slot, sweep, approving, faults>>

WatchdogAsk ==
    /\ dog.pc = "ask"
    /\ dog' = [dog EXCEPT !.pc = IF entry[dog.job].state = "succeeded" THEN "succeed"
                                 ELSE "requeue"]
    /\ UNCHANGED <<op, drafted, row, entry, slot, sweep, approving, faults>>

\* mark_hunter_recovery_op_retry, whatever the operation has become meanwhile.
WatchdogRequeue ==
    /\ dog.pc = "requeue" /\ dog' = [dog EXCEPT !.pc = "fail"]
    /\ op' = [op EXCEPT ![row[dog.job].op] = "QUEUED"]
    /\ UNCHANGED <<drafted, row, entry, slot, sweep, approving, faults>>

WatchdogMark ==
    /\ dog.pc \in {"succeed", "fail"} /\ dog' = Asleep
    /\ Mark(dog.job, IF dog.pc = "succeed" THEN "succeeded" ELSE "failed")
    /\ UNCHANGED <<op, drafted, entry, slot, sweep, approving, faults>>

\* An error ends the pass; one met while the operation is sent back is swallowed.
WatchdogFails ==
    /\ dog.pc # "asleep" /\ faults < MaxFaults /\ faults' = faults + 1
    /\ \/ dog' = Asleep
       \/ dog.pc = "requeue" /\ dog' = [dog EXCEPT !.pc = "fail"]
    /\ UNCHANGED <<op, drafted, row, entry, slot, sweep, approving>>

\* approve_hunter_recovery_op reads the operation without a lock ...
ApproveRead(o) ==
    /\ op[o] = "DRAFT_READY" /\ o \notin approving /\ approving' = approving \cup {o}
    /\ UNCHANGED <<op, drafted, row, entry, slot, sweep, dog, faults>>

\* ... and writes it by its id.
ApproveWrite(o) ==
    /\ o \in approving /\ approving' = approving \ {o}
    /\ op' = [op EXCEPT ![o] = "DISPATCHED"]
    /\ UNCHANGED <<drafted, row, entry, slot, sweep, dog, faults>>

SweepStep == \/ SweepInsert \/ SweepEnqueue \/ SweepStage \/ SweepInflight
             \/ \E o \in Op : DraftInsert(o)
             \/ DraftEnqueue \/ DraftEnqueueFails \/ DraftPoolFails
             \/ DraftUnqueued \/ SweepDone

SlotStep(w) == \/ DraftLoad(w) \/ DraftExecute(w) \/ DraftDone(w) \/ DraftFails(w)
               \/ DraftRetry(w) \/ JobEnds(w, "succeed", "succeeded")
               \/ JobEnds(w, "fail", "failed") \/ Leave(w)

Next ==
    \/ SweepStep \/ Restart
    \/ \E w \in Slot : SlotStep(w) \/ \E j \in Job : Take(w, j)
    \/ \E j \in Job : Exhausted(j) \/ GrowOld(j) \/ WatchdogLoad(j)
    \/ WatchdogAsk \/ WatchdogRequeue \/ WatchdogMark \/ WatchdogFails
    \/ \E o \in Op : ApproveRead(o) \/ ApproveWrite(o)

Spec == Init /\ [][Next]_vars

\* Loops and slots go on, time passes, ARQ takes entries in the order of their
\* scores, the watchdog takes the oldest rows first, and an orchestrator that is
\* asked again and again answers at last.  Staff need never approve.
Fairness ==
    /\ WF_vars(SweepStep)
    /\ \A w \in Slot : WF_vars(SlotStep(w)) /\ SF_vars(DraftDone(w))
    /\ SF_vars(\E j \in Job : Exhausted(j) \/ \E w \in Slot : Take(w, j))
    /\ \A j \in Job : WF_vars(GrowOld(j))
    /\ SF_vars(\E j \in Job : WatchdogLoad(j))
    /\ WF_vars(WatchdogAsk \/ WatchdogRequeue \/ WatchdogMark)

FairSpec == Spec /\ Fairness

(***************************************************************************)
(* Properties.                                                             *)
(***************************************************************************)

\* Every variable keeps its shape; a job is never taken more than MaxTries times.
TypeOK ==
    /\ op \in [Op -> {"absent", "QUEUED", "EXECUTING", "DRAFT_READY", "DISPATCHED"}]
    /\ drafted \in SUBSET Op
    /\ row \in [Job -> {None} \cup RowType]
    /\ entry \in [Job -> EntryType]
    /\ slot \in [Slot -> [pc : {"free", "load", "execute", "draft", "retry", "succeed",
                                "fail", "succeeded", "failed"},
                          job : Job \cup {None}]]
    /\ sweep \in [pc : {"idle", "inserted", "waiting", "staged", "queueing", "enqueue",
                        "unqueued", "lost"},
                  job : Job \cup {None}, todo : SUBSET Op]
    /\ dog \in [pc : {"asleep", "ask", "requeue", "succeed", "fail"}, job : Job \cup {None}]
    /\ approving \in SUBSET Op
    /\ faults \in 0..MaxFaults

\* A row that says succeeded is of a job that did its work: its operation has a
\* draft, though slots, watchdog and enqueuer write the status without a look at
\* it (async_jobs.py:113-147, worker.py:176-209).
SucceededMeansDrafted ==
    \A j \in Job : row[j] # None /\ row[j].status = "succeeded" => row[j].op \in drafted

\* What staff approved was a draft (api/hunter.py:803-810), however many jobs,
\* reruns and watchdog passes worked on the operation.
ApprovedWasDrafted ==
    \A o \in Op : op[o] \in {"DRAFT_READY", "DISPATCHED"} => o \in drafted

\* A slot works on the operation, or an entry for it will be taken again.
AtWork(w, o) == slot[w].pc \in {"load", "execute", "draft", "retry"} /\ Target(w) = o
StillToRun(o) == \/ \E j \in Job : entry[j].state = "waiting" /\ row[j].op = o
                 \/ \E w \in Slot : AtWork(w, o)

\* The sweep queues only carts in QUEUED (hunter_service.py:560), so one left in
\* EXECUTING would never be drafted again.  Restarts, the watchdog's hasty repairs
\* and second jobs for the same cart leave none there: while ARQ has tries left, an
\* operation in EXECUTING is being worked on or about to be.
NeverStranded ==
    \A o \in Op : op[o] = "EXECUTING" => StillToRun(o) \/ faults >= MaxTries

\* Every cart that waits gets its draft in spite of lost queue entries, failed drafts,
\* hasty repairs and fewer restarts than tries, unless a sweep's row was left without
\* an entry, which nothing repairs (worker.py:241-281, :1082-1120).
DraftsArrive ==
    \A o \in Op : op[o] \in {"QUEUED", "EXECUTING"}
                  ~> \/ op[o] \in {"DRAFT_READY", "DISPATCHED"}
                     \/ sweep.pc = "lost" \/ faults >= MaxTries
=============================================================================
