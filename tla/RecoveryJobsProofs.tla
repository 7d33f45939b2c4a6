------------------------- MODULE RecoveryJobsProofs -------------------------
(***************************************************************************)
(* Proofs about RecoveryJobs, for every number of operations, jobs, slots, *)
(* tries and faults: a row that says succeeded, and an operation that is   *)
(* ready or approved, has a draft; and a cart taken out of the waiting     *)
(* list is always somebody's work, unless as many faults as tries hit it;  *)
(* and only three causes undo a draft that is ready or approved.           *)
(***************************************************************************)
EXTENDS RecoveryJobs, TLAPS

\* What is in hand, anywhere, has a row.
InHand ==
    /\ \A w \in Slot : IF slot[w].pc = "free" THEN slot[w].job = None
                       ELSE slot[w].job \in Job /\ row[slot[w].job] # None
    /\ \A j \in Job : entry[j].state # "absent" => row[j] # None
    /\ sweep.pc \in {"enqueue", "unqueued"} => sweep.job \in Job /\ row[sweep.job] # None
    /\ IF dog.pc = "asleep" THEN dog.job = None
       ELSE dog.job \in Job /\ row[dog.job] # None

\* Wherever a success is about to be told, the draft is there already.
SuccessInHand ==
    /\ \A w \in Slot : slot[w].pc \in {"succeed", "succeeded"} => Target(w) \in drafted
    /\ \A j \in Job : entry[j].state = "succeeded" => row[j].op \in drafted
    /\ dog.pc = "succeed" => row[dog.job].op \in drafted
    /\ approving \subseteq drafted

Inv == /\ TypeOK /\ InHand /\ SuccessInHand
       /\ SucceededMeansDrafted /\ ApprovedWasDrafted

\* Rows stay, and stay of the same operation.
RowsKept == \A j \in Job : row[j] # None => row'[j] # None /\ row'[j].op = row[j].op

\* Setting the status of a row that exists changes nothing else.
LEMMA MarkKeepsRows ==
    ASSUME JobsAssumption, TypeOK, NEW j \in Job, row[j] # None,
           NEW s \in {"queued", "running", "succeeded", "failed"}, Mark(j, s)
    PROVE  /\ row' \in [Job -> {None} \cup RowType] /\ RowsKept
           /\ row'[j].status = s /\ \A k \in Job \ {j} : row'[k] = row[k]
<1>1. row \in [Job -> {None} \cup RowType] /\ row[j] \in RowType
  BY DEF TypeOK
<1>2. row' = [row EXCEPT ![j] = [row[j] EXCEPT !.status = s]]
  BY DEF Mark
<1>3. /\ [row[j] EXCEPT !.status = s] \in RowType
      /\ [row[j] EXCEPT !.status = s].op = row[j].op
      /\ [row[j] EXCEPT !.status = s].status = s
  BY <1>1 DEF RowType
<1>4. /\ row'[j] = [row[j] EXCEPT !.status = s]
      /\ \A k \in Job \ {j} : row'[k] = row[k]
      /\ row' \in [Job -> {None} \cup RowType]
  BY <1>1, <1>2, <1>3
<1>5. RowsKept
  BY <1>3, <1>4, JobsAssumption DEF RowsKept, JobsAssumption
<1> QED
  BY <1>3, <1>4, <1>5

\* Putting an entry into Redis disturbs no other entry.
LEMMA PutKeepsEntries ==
    ASSUME TypeOK, NEW j \in Job, Put(j)
    PROVE  /\ entry' \in [Job -> EntryType] /\ entry'[j].state = "waiting"
           /\ \A k \in Job \ {j} : entry'[k] = entry[k]
<1>1. /\ entry \in [Job -> EntryType]
      /\ entry' = [entry EXCEPT ![j] = [entry[j] EXCEPT !.state = "waiting"]]
  BY DEF TypeOK, Put
<1>2. [entry[j] EXCEPT !.state = "waiting"] \in EntryType
  BY <1>1 DEF EntryType
<1>3. [entry[j] EXCEPT !.state = "waiting"].state = "waiting"
  BY <1>1 DEF EntryType
<1> QED
  BY <1>1, <1>2, <1>3

\* Sending a slot on keeps its job and every other slot.
LEMMA GotoKeepsSlots ==
    ASSUME TypeOK, NEW w \in Slot, NEW pc, Goto(w, pc)
    PROVE  /\ slot'[w].pc = pc /\ slot'[w].job = slot[w].job
           /\ \A v \in Slot \ {w} : slot'[v] = slot[v]
           /\ pc \in {"load", "execute", "draft", "retry", "succeed", "fail", "succeeded",
                     "failed"} =>
              slot' \in [Slot -> [pc : {"free", "load", "execute", "draft", "retry",
                                      "succeed", "fail", "succeeded", "failed"},
                                job : Job \cup {None}]]
<1>1. slot' = [slot EXCEPT ![w] = [slot[w] EXCEPT !.pc = pc]]
  BY DEF Goto
<1> QED
  BY <1>1 DEF TypeOK

(***************************************************************************)
(* The sweep.                                                              *)
(***************************************************************************)

LEMMA SweepInsertKeeps ==
    ASSUME JobsAssumption, Inv, SweepInsert
    PROVE  Inv'
BY DEF Inv, TypeOK, InHand, SuccessInHand, SucceededMeansDrafted, ApprovedWasDrafted,
       Target, SweepInsert, NoSweep, EntryType, RowType, JobsAssumption

LEMMA SweepEnqueueKeeps ==
    ASSUME JobsAssumption, Inv, SweepEnqueue
    PROVE  Inv'
BY DEF Inv, TypeOK, InHand, SuccessInHand, SucceededMeansDrafted, ApprovedWasDrafted,
       Target, SweepEnqueue, NoSweep, EntryType, RowType, JobsAssumption

LEMMA SweepStageKeeps ==
    ASSUME JobsAssumption, Inv, SweepStage
    PROVE  Inv'
BY DEF Inv, TypeOK, InHand, SuccessInHand, SucceededMeansDrafted, ApprovedWasDrafted,
       Target, SweepStage, EntryType, RowType, JobsAssumption

LEMMA SweepInflightKeeps ==
    ASSUME JobsAssumption, Inv, SweepInflight
    PROVE  Inv'
BY DEF Inv, TypeOK, InHand, SuccessInHand, SucceededMeansDrafted, ApprovedWasDrafted,
       Target, SweepInflight, EntryType, RowType, JobsAssumption

LEMMA DraftInsertKeeps ==
    ASSUME JobsAssumption, Inv, NEW o \in Op, DraftInsert(o)
    PROVE  Inv'
<1> DEFINE j == CHOOSE k \in Job : Unused(k)
           new == [op |-> o, status |-> "queued", age |-> "new"]
<1>1. j \in Job /\ Unused(j)
  BY DEF DraftInsert
<1>2. /\ row' = [row EXCEPT ![j] = new] /\ entry' = [entry EXCEPT ![j] = NoEntry]
      /\ sweep' = [pc |-> "enqueue", job |-> j, todo |-> sweep.todo \ {o}]
      /\ UNCHANGED <<op, drafted, slot, dog, approving, faults>>
  BY DEF DraftInsert
<1>3. new \in RowType /\ NoEntry \in EntryType /\ new # None
  BY JobsAssumption DEF RowType, EntryType, NoEntry, JobsAssumption
<1> HIDE DEF j, new
<1>4. /\ row'[j] = new /\ \A k \in Job \ {j} : row'[k] = row[k]
      /\ entry'[j] = NoEntry /\ \A k \in Job \ {j} : entry'[k] = entry[k]
  BY <1>1, <1>2 DEF Inv, TypeOK
<1>5. TypeOK'
  BY <1>1, <1>2, <1>3 DEF Inv, TypeOK
<1>6. (\A w \in Slot : slot[w].job # j) /\ dog.job # j
  BY <1>1 DEF Unused
<1>7. InHand'
  BY <1>1, <1>2, <1>3, <1>4, <1>6 DEF Inv, InHand, NoEntry
<1>8. SuccessInHand'
  BY <1>1, <1>2, <1>4, <1>6 DEF Inv, TypeOK, InHand, SuccessInHand, Target, NoEntry
<1>9. SucceededMeansDrafted' /\ ApprovedWasDrafted'
  BY <1>1, <1>2, <1>4 DEF Inv, SucceededMeansDrafted, ApprovedWasDrafted, new
<1> QED
  BY <1>5, <1>7, <1>8, <1>9 DEF Inv

LEMMA DraftEnqueueKeeps ==
    ASSUME JobsAssumption, Inv, DraftEnqueue
    PROVE  Inv'
<1> DEFINE j == sweep.job
<1>1. j \in Job /\ row[j] # None /\ Put(j)
  BY DEF DraftEnqueue, Inv, InHand
<1>2. /\ sweep' = [sweep EXCEPT !.pc = "queueing", !.job = None]
      /\ UNCHANGED <<op, drafted, row, slot, dog, approving, faults>>
  BY DEF DraftEnqueue
<1>3. /\ entry' \in [Job -> EntryType] /\ entry'[j].state = "waiting"
      /\ \A k \in Job \ {j} : entry'[k] = entry[k]
  BY <1>1, PutKeepsEntries DEF Inv
<1> HIDE DEF j
<1> QED
  BY <1>1, <1>2, <1>3 DEF Inv, TypeOK, InHand, SuccessInHand, SucceededMeansDrafted,
         ApprovedWasDrafted, Target

LEMMA DraftEnqueueFailsKeeps ==
    ASSUME JobsAssumption, Inv, DraftEnqueueFails
    PROVE  Inv'
<1> DEFINE j == sweep.job
<1>1. j \in Job /\ row[j] # None
  BY DEF DraftEnqueueFails, Inv, InHand
<1>2. /\ sweep' = [sweep EXCEPT !.pc = "unqueued"] /\ sweep'.job = j
      /\ faults < MaxFaults /\ faults' = faults + 1
      /\ UNCHANGED <<op, drafted, row, slot, dog, approving>>
  BY DEF DraftEnqueueFails, Inv, TypeOK
<1>3. /\ entry' \in [Job -> EntryType]
      /\ \A k \in Job : (entry'[k].state = "waiting" /\ k = j) \/ entry'[k] = entry[k]
  BY <1>1, PutKeepsEntries DEF DraftEnqueueFails, Inv, TypeOK
<1> HIDE DEF j
<1> QED
  BY <1>1, <1>2, <1>3 DEF JobsAssumption, Inv, TypeOK, InHand, SuccessInHand,
         SucceededMeansDrafted, ApprovedWasDrafted, Target

LEMMA DraftPoolFailsKeeps ==
    ASSUME JobsAssumption, Inv, DraftPoolFails
    PROVE  Inv'
BY DEF Inv, TypeOK, InHand, SuccessInHand, SucceededMeansDrafted, ApprovedWasDrafted,
       Target, DraftPoolFails, NoSweep, EntryType, RowType, JobsAssumption

LEMMA DraftUnqueuedKeeps ==
    ASSUME JobsAssumption, Inv, DraftUnqueued
    PROVE  Inv'
<1> DEFINE j == sweep.job
<1>1. j \in Job /\ row[j] # None /\ Mark(j, "failed")
  BY DEF DraftUnqueued, Inv, InHand
<1>2. sweep' = NoSweep /\ UNCHANGED <<op, drafted, entry, slot, dog, approving, faults>>
  BY DEF DraftUnqueued
<1>3. /\ row' \in [Job -> {None} \cup RowType] /\ RowsKept
      /\ row'[j].status = "failed" /\ \A k \in Job \ {j} : row'[k] = row[k]
  BY <1>1, MarkKeepsRows DEF Inv
<1> HIDE DEF j
<1>4. TypeOK' /\ InHand'
  BY <1>1, <1>2, <1>3 DEF NoSweep, RowsKept, Inv, TypeOK, InHand
<1>5. SuccessInHand'
  BY <1>2, <1>3 DEF RowsKept, Inv, InHand, SuccessInHand, Target
<1>6. SucceededMeansDrafted' /\ ApprovedWasDrafted'
  BY <1>1, <1>2, <1>3 DEF RowsKept, Inv, SucceededMeansDrafted, ApprovedWasDrafted
<1> QED
  BY <1>4, <1>5, <1>6 DEF Inv

LEMMA SweepDoneKeeps ==
    ASSUME JobsAssumption, Inv, SweepDone
    PROVE  Inv'
BY DEF Inv, TypeOK, InHand, SuccessInHand, SucceededMeansDrafted, ApprovedWasDrafted,
       Target, SweepDone, NoSweep, EntryType, RowType, JobsAssumption

(***************************************************************************)
(* The slots.                                                              *)
(***************************************************************************)

LEMMA TakeKeeps ==
    ASSUME JobsAssumption, Inv, NEW w \in Slot, NEW j \in Job, Take(w, j)
    PROVE  Inv'
<1> DEFINE age == IF row[j].age = "overdue" THEN "overdue" ELSE "begun"
           taken == [op |-> row[j].op, status |-> "running", age |-> age]
<1>1. row[j] \in RowType /\ entry[j] \in EntryType /\ entry[j].state = "waiting"
  BY DEF Take, Inv, TypeOK, InHand
<1>2. /\ row' = [row EXCEPT ![j] = taken]
      /\ entry' = [entry EXCEPT ![j] = [state |-> "taken", tries |-> entry[j].tries + 1]]
      /\ slot' = [slot EXCEPT ![w] = [pc |-> "load", job |-> j]]
      /\ entry[j].tries < MaxTries
      /\ UNCHANGED <<op, drafted, sweep, dog, approving, faults>>
  BY DEF Take
<1>3. /\ taken \in RowType /\ taken # None
      /\ [state |-> "taken", tries |-> entry[j].tries + 1] \in EntryType
  BY <1>1, <1>2, JobsAssumption DEF RowType, EntryType, JobsAssumption
<1>4. taken.op = row[j].op /\ taken.status = "running"
  OBVIOUS
<1> HIDE DEF taken
<1>5. /\ row'[j] = taken /\ entry'[j].state = "taken"
      /\ \A k \in Job \ {j} : row'[k] = row[k] /\ entry'[k] = entry[k]
      /\ slot'[w] = [pc |-> "load", job |-> j]
      /\ \A v \in Slot \ {w} : slot'[v] = slot[v]
  BY <1>2 DEF Inv, TypeOK
<1>6. TypeOK'
  BY <1>2, <1>3 DEF Inv, TypeOK
<1>7. RowsKept
  BY <1>3, <1>4, <1>5 DEF RowsKept
<1>8. InHand'
  BY <1>2, <1>3, <1>5, <1>7 DEF Inv, InHand, RowsKept
<1>9. SuccessInHand'
  <2>1. \A v \in Slot : slot'[v].pc \in {"succeed", "succeeded"} => Target(v)' \in drafted'
    BY <1>2, <1>5, <1>7 DEF Inv, InHand, SuccessInHand, Target, RowsKept
  <2>2. \A k \in Job : entry'[k].state = "succeeded" => row'[k].op \in drafted'
    BY <1>2, <1>5 DEF Inv, SuccessInHand
  <2>3. dog'.pc = "succeed" => row'[dog'.job].op \in drafted'
    BY <1>2, <1>7 DEF Inv, InHand, SuccessInHand, RowsKept
  <2>4. approving' \subseteq drafted'
    BY <1>2 DEF Inv, SuccessInHand
  <2> QED
    BY <2>1, <2>2, <2>3, <2>4 DEF SuccessInHand
<1>10. SucceededMeansDrafted' /\ ApprovedWasDrafted'
  BY <1>2, <1>4, <1>5 DEF Inv, SucceededMeansDrafted, ApprovedWasDrafted
<1> QED
  BY <1>6, <1>8, <1>9, <1>10 DEF Inv

LEMMA ExhaustedKeeps ==
    ASSUME JobsAssumption, Inv, NEW j \in Job, Exhausted(j)
    PROVE  Inv'
BY DEF Inv, TypeOK, InHand, SuccessInHand, SucceededMeansDrafted, ApprovedWasDrafted,
       Target, Exhausted, EntryType, RowType, JobsAssumption

LEMMA DraftLoadKeeps ==
    ASSUME JobsAssumption, Inv, NEW w \in Slot, DraftLoad(w)
    PROVE  Inv'
<1>1. PICK pc \in {"retry", "draft", "execute"} : Goto(w, pc)
  BY DEF DraftLoad
<1>2. /\ UNCHANGED <<op, drafted, row, entry, sweep, dog, approving, faults>>
  BY DEF DraftLoad
<1>3. slot[w].pc # "free" /\ Target(w) \in Op
  BY DEF DraftLoad, Inv, TypeOK, InHand, Target, RowType
<1>4. /\ slot'[w].pc = pc /\ slot'[w].job = slot[w].job
      /\ \A v \in Slot \ {w} : slot'[v] = slot[v]
  BY <1>1, GotoKeepsSlots DEF Inv
<1>5. TypeOK'
  BY <1>1, <1>2, <1>3, GotoKeepsSlots DEF Inv, TypeOK
<1>6. InHand'
  BY <1>1, <1>2, <1>3, <1>4 DEF Inv, InHand
<1>7. SuccessInHand'
  BY <1>1, <1>2, <1>4 DEF Inv, SuccessInHand, Target
<1>8. SucceededMeansDrafted' /\ ApprovedWasDrafted'
  BY <1>2, <1>3 DEF Inv, TypeOK, SucceededMeansDrafted, ApprovedWasDrafted
<1> QED
  BY <1>5, <1>6, <1>7, <1>8 DEF Inv

LEMMA DraftExecuteKeeps ==
    ASSUME JobsAssumption, Inv, NEW w \in Slot, DraftExecute(w)
    PROVE  Inv'
<1>1. PICK pc \in {"draft"} : Goto(w, pc)
  BY DEF DraftExecute
<1>2. /\ UNCHANGED <<drafted, row, entry, sweep, dog, approving, faults>>
      /\ op' = [op EXCEPT ![Target(w)] = "EXECUTING"]
  BY DEF DraftExecute
<1>3. slot[w].pc # "free" /\ Target(w) \in Op
  BY DEF DraftExecute, Inv, TypeOK, InHand, Target, RowType
<1>4. /\ slot'[w].pc = pc /\ slot'[w].job = slot[w].job
      /\ \A v \in Slot \ {w} : slot'[v] = slot[v]
  BY <1>1, GotoKeepsSlots DEF Inv
<1>5. TypeOK'
  BY <1>1, <1>2, <1>3, GotoKeepsSlots DEF Inv, TypeOK
<1>6. InHand'
  BY <1>1, <1>2, <1>3, <1>4 DEF Inv, InHand
<1>7. SuccessInHand'
  BY <1>1, <1>2, <1>4 DEF Inv, SuccessInHand, Target
<1>8. SucceededMeansDrafted' /\ ApprovedWasDrafted'
  BY <1>2, <1>3 DEF Inv, TypeOK, SucceededMeansDrafted, ApprovedWasDrafted
<1> QED
  BY <1>5, <1>6, <1>7, <1>8 DEF Inv

LEMMA DraftDoneKeeps ==
    ASSUME JobsAssumption, Inv, NEW w \in Slot, DraftDone(w)
    PROVE  Inv'
<1>1. PICK pc \in {"succeed"} : Goto(w, pc)
  BY DEF DraftDone
<1>2. /\ UNCHANGED <<row, entry, sweep, dog, approving, faults>>
      /\ op' = [op EXCEPT ![Target(w)] = "DRAFT_READY"]
      /\ drafted' = drafted \cup {Target(w)}
  BY DEF DraftDone
<1>3. slot[w].pc # "free" /\ Target(w) \in Op
  BY DEF DraftDone, Inv, TypeOK, InHand, Target, RowType
<1>4. /\ slot'[w].pc = pc /\ slot'[w].job = slot[w].job
      /\ \A v \in Slot \ {w} : slot'[v] = slot[v]
  BY <1>1, GotoKeepsSlots DEF Inv
<1>5. TypeOK'
  BY <1>1, <1>2, <1>3, GotoKeepsSlots DEF Inv, TypeOK
<1>6. InHand'
  BY <1>1, <1>2, <1>3, <1>4 DEF Inv, InHand
<1>7. SuccessInHand'
  BY <1>1, <1>2, <1>4 DEF Inv, SuccessInHand, Target
<1>8. SucceededMeansDrafted' /\ ApprovedWasDrafted'
  BY <1>2, <1>3 DEF Inv, TypeOK, SucceededMeansDrafted, ApprovedWasDrafted
<1> QED
  BY <1>5, <1>6, <1>7, <1>8 DEF Inv

LEMMA DraftFailsKeeps ==
    ASSUME JobsAssumption, Inv, NEW w \in Slot, DraftFails(w)
    PROVE  Inv'
<1>1. PICK pc \in {"retry"} : Goto(w, pc)
  BY DEF DraftFails
<1>2. /\ UNCHANGED <<op, drafted, row, entry, sweep, dog, approving, faults>>
  BY DEF DraftFails
<1>3. slot[w].pc # "free" /\ Target(w) \in Op
  BY DEF DraftFails, Inv, TypeOK, InHand, Target, RowType
<1>4. /\ slot'[w].pc = pc /\ slot'[w].job = slot[w].job
      /\ \A v \in Slot \ {w} : slot'[v] = slot[v]
  BY <1>1, GotoKeepsSlots DEF Inv
<1>5. TypeOK'
  BY <1>1, <1>2, <1>3, GotoKeepsSlots DEF Inv, TypeOK
<1>6. InHand'
  BY <1>1, <1>2, <1>3, <1>4 DEF Inv, InHand
<1>7. SuccessInHand'
  BY <1>1, <1>2, <1>4 DEF Inv, SuccessInHand, Target
<1>8. SucceededMeansDrafted' /\ ApprovedWasDrafted'
  BY <1>2, <1>3 DEF Inv, TypeOK, SucceededMeansDrafted, ApprovedWasDrafted
<1> QED
  BY <1>5, <1>6, <1>7, <1>8 DEF Inv

LEMMA DraftRetryKeeps ==
    ASSUME JobsAssumption, Inv, NEW w \in Slot, DraftRetry(w)
    PROVE  Inv'
<1>1. PICK pc \in {"fail"} : Goto(w, pc)
  BY DEF DraftRetry
<1>2. /\ UNCHANGED <<drafted, row, entry, sweep, dog, approving, faults>>
      /\ op' = [op EXCEPT ![Target(w)] = "QUEUED"]
  BY DEF DraftRetry
<1>3. slot[w].pc # "free" /\ Target(w) \in Op
  BY DEF DraftRetry, Inv, TypeOK, InHand, Target, RowType
<1>4. /\ slot'[w].pc = pc /\ slot'[w].job = slot[w].job
      /\ \A v \in Slot \ {w} : slot'[v] = slot[v]
  BY <1>1, GotoKeepsSlots DEF Inv
<1>5. TypeOK'
  BY <1>1, <1>2, <1>3, GotoKeepsSlots DEF Inv, TypeOK
<1>6. InHand'
  BY <1>1, <1>2, <1>3, <1>4 DEF Inv, InHand
<1>7. SuccessInHand'
  BY <1>1, <1>2, <1>4 DEF Inv, SuccessInHand, Target
<1>8. SucceededMeansDrafted' /\ ApprovedWasDrafted'
  BY <1>2, <1>3 DEF Inv, TypeOK, SucceededMeansDrafted, ApprovedWasDrafted
<1> QED
  BY <1>5, <1>6, <1>7, <1>8 DEF Inv

LEMMA JobEndsKeeps ==
    ASSUME JobsAssumption, Inv, NEW w \in Slot, NEW pc, NEW status,
           <<pc, status>> \in {<<"succeed", "succeeded">>, <<"fail", "failed">>},
           JobEnds(w, pc, status)
    PROVE  Inv'
<1> DEFINE j == slot[w].job
<1>1. /\ \/ pc = "succeed" /\ status = "succeeded"
         \/ pc = "fail" /\ status = "failed"
      /\ slot[w].pc = pc /\ Mark(j, status) /\ Goto(w, status)
      /\ UNCHANGED <<op, drafted, entry, sweep, dog, approving, faults>>
  BY DEF JobEnds
<1>2. j \in Job /\ row[j] # None
  BY <1>1 DEF Inv, InHand
<1>3. /\ row' \in [Job -> {None} \cup RowType] /\ RowsKept
      /\ row'[j].status = status /\ \A k \in Job \ {j} : row'[k] = row[k]
  BY <1>1, <1>2, MarkKeepsRows DEF Inv
<1>4. /\ slot' = [slot EXCEPT ![w] = [slot[w] EXCEPT !.pc = status]]
      /\ slot'[w].pc = status /\ slot'[w].job = j
      /\ \A v \in Slot \ {w} : slot'[v] = slot[v]
  BY <1>1 DEF Goto, Inv, TypeOK
<1>5. pc = "succeed" => row[j].op \in drafted
  BY <1>1 DEF Inv, SuccessInHand, Target
<1> HIDE DEF j
<1>6. TypeOK'
  BY <1>1, <1>3, <1>4 DEF Inv, TypeOK
<1>7. InHand'
  BY <1>1, <1>2, <1>3, <1>4 DEF Inv, InHand, RowsKept
<1>8. SuccessInHand'
  <2>1. \A v \in Slot : slot'[v].pc \in {"succeed", "succeeded"} => Target(v)' \in drafted'
    BY <1>1, <1>2, <1>3, <1>4, <1>5 DEF Inv, InHand, SuccessInHand, Target, RowsKept
  <2>2. \A k \in Job : entry'[k].state = "succeeded" => row'[k].op \in drafted'
    BY <1>1, <1>3 DEF Inv, InHand, SuccessInHand, RowsKept
  <2>3. dog'.pc = "succeed" => row'[dog'.job].op \in drafted'
    BY <1>1, <1>3 DEF Inv, InHand, SuccessInHand, RowsKept
  <2>4. approving' \subseteq drafted'
    BY <1>1 DEF Inv, SuccessInHand
  <2> QED
    BY <2>1, <2>2, <2>3, <2>4 DEF SuccessInHand
<1>9. SucceededMeansDrafted' /\ ApprovedWasDrafted'
  BY <1>1, <1>2, <1>3, <1>5 DEF Inv, SucceededMeansDrafted, ApprovedWasDrafted, RowsKept
<1> QED
  BY <1>6, <1>7, <1>8, <1>9 DEF Inv

LEMMA LeaveKeeps ==
    ASSUME JobsAssumption, Inv, NEW w \in Slot, Leave(w)
    PROVE  Inv'
BY DEF Inv, TypeOK, InHand, SuccessInHand, SucceededMeansDrafted, ApprovedWasDrafted,
       Target, Leave, Free, EntryType, RowType, JobsAssumption

LEMMA RestartKeeps ==
    ASSUME JobsAssumption, Inv, Restart
    PROVE  Inv'
<1>1. /\ slot' = [w \in Slot |-> Free] /\ dog' = Asleep
      /\ UNCHANGED <<op, drafted, row, approving>>
      /\ faults < MaxFaults /\ faults' = faults + 1
  BY DEF Restart
<1>2. /\ entry' \in [Job -> EntryType]
      /\ \A j \in Job : \/ entry'[j] = entry[j]
                        \/ entry[j].state = "taken" /\ entry'[j].state = "waiting"
  <2>1. ASSUME NEW j \in Job
        PROVE  /\ [entry[j] EXCEPT !.state = "waiting"] \in EntryType
               /\ [entry[j] EXCEPT !.state = "waiting"].state = "waiting"
    <3>1. entry[j] \in EntryType
      BY DEF Inv, TypeOK
    <3> QED
      BY <3>1 DEF EntryType
  <2>2. entry' = [j \in Job |-> IF entry[j].state = "taken"
                                THEN [entry[j] EXCEPT !.state = "waiting"] ELSE entry[j]]
    BY DEF Restart
  <2> QED
    BY <2>1, <2>2 DEF Inv, TypeOK
<1>3. /\ sweep'.pc \in {"idle", "lost", "waiting"}
      /\ sweep' \in [pc : {"idle", "lost", "waiting"}, job : Job \cup {None}, todo : SUBSET Op]
  BY DEF Restart, NoSweep
<1>4. TypeOK'
  BY <1>1, <1>2, <1>3 DEF Inv, TypeOK, Free, Asleep, JobsAssumption
<1>5. InHand' /\ SuccessInHand'
  BY <1>1, <1>2, <1>3 DEF Inv, InHand, SuccessInHand, Free, Asleep
<1> QED
  BY <1>1, <1>4, <1>5 DEF Inv, SucceededMeansDrafted, ApprovedWasDrafted

(***************************************************************************)
(* The watchdog and the staff.                                             *)
(***************************************************************************)

LEMMA GrowOldKeeps ==
    ASSUME JobsAssumption, Inv, NEW j \in Job, GrowOld(j)
    PROVE  Inv'
BY DEF Inv, TypeOK, InHand, SuccessInHand, SucceededMeansDrafted, ApprovedWasDrafted,
       Target, GrowOld, InFlight, Limit, EntryType, RowType, JobsAssumption

LEMMA WatchdogLoadKeeps ==
    ASSUME JobsAssumption, Inv, NEW j \in Job, WatchdogLoad(j)
    PROVE  Inv'
BY DEF Inv, TypeOK, InHand, SuccessInHand, SucceededMeansDrafted, ApprovedWasDrafted,
       Target, WatchdogLoad, Stale, InFlight, EntryType, RowType, JobsAssumption

LEMMA WatchdogAskKeeps ==
    ASSUME JobsAssumption, Inv, WatchdogAsk
    PROVE  Inv'
BY DEF Inv, TypeOK, InHand, SuccessInHand, SucceededMeansDrafted, ApprovedWasDrafted,
       Target, WatchdogAsk, EntryType, RowType, JobsAssumption

LEMMA WatchdogFailsKeeps ==
    ASSUME JobsAssumption, Inv, WatchdogFails
    PROVE  Inv'
BY DEF Inv, TypeOK, InHand, SuccessInHand, SucceededMeansDrafted, ApprovedWasDrafted,
       Target, WatchdogFails, Asleep, EntryType, RowType, JobsAssumption

LEMMA WatchdogRequeueKeeps ==
    ASSUME JobsAssumption, Inv, WatchdogRequeue
    PROVE  Inv'
BY DEF Inv, TypeOK, InHand, SuccessInHand, SucceededMeansDrafted, ApprovedWasDrafted,
       Target, WatchdogRequeue, EntryType, RowType, JobsAssumption

LEMMA WatchdogMarkKeeps ==
    ASSUME JobsAssumption, Inv, WatchdogMark
    PROVE  Inv'
<1> DEFINE j == dog.job
           status == IF dog.pc = "succeed" THEN "succeeded" ELSE "failed"
<1>1. /\ dog.pc \in {"succeed", "fail"} /\ dog' = Asleep /\ Mark(j, status)
      /\ UNCHANGED <<op, drafted, entry, slot, sweep, approving, faults>>
  BY DEF WatchdogMark
<1>2. j \in Job /\ row[j] # None
  BY <1>1 DEF Inv, InHand
<1>3. /\ row' \in [Job -> {None} \cup RowType] /\ RowsKept
      /\ row'[j].status = status /\ \A k \in Job \ {j} : row'[k] = row[k]
  BY <1>1, <1>2, MarkKeepsRows DEF Inv
<1>4. dog.pc = "succeed" => row[j].op \in drafted
  BY DEF Inv, SuccessInHand
<1> HIDE DEF j
<1>5. TypeOK' /\ InHand' /\ SuccessInHand'
  BY <1>1, <1>3 DEF Inv, TypeOK, InHand, SuccessInHand, Target, Asleep, RowsKept
<1>6. SucceededMeansDrafted' /\ ApprovedWasDrafted'
  BY <1>1, <1>2, <1>3, <1>4 DEF Inv, SucceededMeansDrafted, ApprovedWasDrafted, RowsKept
<1> QED
  BY <1>5, <1>6 DEF Inv

LEMMA ApproveReadKeeps ==
    ASSUME JobsAssumption, Inv, NEW o \in Op, ApproveRead(o)
    PROVE  Inv'
BY DEF Inv, TypeOK, InHand, SuccessInHand, SucceededMeansDrafted, ApprovedWasDrafted,
       Target, ApproveRead, EntryType, RowType, JobsAssumption

LEMMA ApproveWriteKeeps ==
    ASSUME JobsAssumption, Inv, NEW o \in Op, ApproveWrite(o)
    PROVE  Inv'
BY DEF Inv, TypeOK, InHand, SuccessInHand, SucceededMeansDrafted, ApprovedWasDrafted,
       Target, ApproveWrite, EntryType, RowType, JobsAssumption

(***************************************************************************)
(* The invariant and what it gives.                                        *)
(***************************************************************************)

LEMMA InitHolds ==
    ASSUME JobsAssumption, Init
    PROVE  Inv
BY DEF Init, Inv, TypeOK, InHand, SuccessInHand, SucceededMeansDrafted,
       ApprovedWasDrafted,
       EntryType, NoEntry, NoSweep, Free, Asleep, JobsAssumption

LEMMA StepHolds ==
    ASSUME JobsAssumption, Inv, [Next]_vars
    PROVE  Inv'
<1>1. CASE SweepStep
  BY <1>1, SweepInsertKeeps, SweepEnqueueKeeps, SweepStageKeeps, SweepInflightKeeps,
     DraftInsertKeeps, DraftEnqueueKeeps, DraftEnqueueFailsKeeps, DraftPoolFailsKeeps,
     DraftUnqueuedKeeps, SweepDoneKeeps DEF SweepStep
<1>2. ASSUME NEW w \in Slot, SlotStep(w) PROVE Inv'
  <2>1. ASSUME JobEnds(w, "succeed", "succeeded") \/ JobEnds(w, "fail", "failed") PROVE Inv'
    BY <2>1, JobEndsKeeps
  <2> QED
    BY <1>2, <2>1, DraftLoadKeeps, DraftExecuteKeeps, DraftDoneKeeps, DraftFailsKeeps,
       DraftRetryKeeps, LeaveKeeps DEF SlotStep
<1>3. CASE Restart \/ \E w \in Slot, j \in Job : Take(w, j)
  BY <1>3, RestartKeeps, TakeKeeps
<1>4. CASE \E j \in Job : Exhausted(j) \/ GrowOld(j) \/ WatchdogLoad(j)
  BY <1>4, ExhaustedKeeps, GrowOldKeeps, WatchdogLoadKeeps
<1>5. CASE \/ WatchdogAsk \/ WatchdogRequeue \/ WatchdogMark \/ WatchdogFails
           \/ \E o \in Op : ApproveRead(o) \/ ApproveWrite(o)
  BY <1>5, WatchdogAskKeeps, WatchdogRequeueKeeps, WatchdogMarkKeeps, WatchdogFailsKeeps,
     ApproveReadKeeps, ApproveWriteKeeps
<1>6. CASE UNCHANGED vars
  BY <1>6 DEF vars, Inv, TypeOK, InHand, SuccessInHand, SucceededMeansDrafted,
              ApprovedWasDrafted, Target
<1> QED
  BY <1>1, <1>2, <1>3, <1>4, <1>5, <1>6 DEF Next

\* The inductive invariant: whoever is about to write a success, be it a slot, the
\* watchdog or ARQ's stored result, works on an operation that has its draft.
THEOREM JobsInvariant == ASSUME JobsAssumption PROVE Spec => []Inv
<1>1. Init => Inv
  BY InitHolds
<1>2. Inv /\ [Next]_vars => Inv'
  BY StepHolds
<1> QED
  BY <1>1, <1>2, PTL DEF Spec

\* Every variable keeps its shape, whatever the restarts and lost enqueues.
THEOREM TypeCorrect == ASSUME JobsAssumption PROVE Spec => []TypeOK
<1>1. Inv => TypeOK
  BY DEF Inv
<1> QED
  BY <1>1, JobsInvariant, PTL

\* A job's row says succeeded only when its operation has a draft.
THEOREM SuccessIsReal == ASSUME JobsAssumption PROVE Spec => []SucceededMeansDrafted
<1>1. Inv => SucceededMeansDrafted
  BY DEF Inv
<1> QED
  BY <1>1, JobsInvariant, PTL

\* What is ready for approval, or approved, has a draft.
THEOREM ApprovedIsDrafted == ASSUME JobsAssumption PROVE Spec => []ApprovedWasDrafted
<1>1. Inv => ApprovedWasDrafted
  BY DEF Inv
<1> QED
  BY <1>1, JobsInvariant, PTL

(***************************************************************************)
(* No operation is stranded in EXECUTING.                                  *)
(***************************************************************************)

Busy(w) == slot[w].pc # "free"

\* Only a restart makes ARQ try an entry again.
TriesAreFaults ==
    \A j \in Job : entry[j].tries <= IF entry[j].state = "taken" THEN faults + 1 ELSE faults

\* An entry is taken by one slot at most, and a new job is not in Redis yet.
OneSlotPerEntry ==
    /\ \A w \in Slot : Busy(w) => entry[slot[w].job].state = "taken"
    /\ \A w, v \in Slot : w # v /\ Busy(w) /\ Busy(v) => slot[w].job # slot[v].job
    /\ sweep.pc = "enqueue" => entry[sweep.job].state = "absent"

Running == TriesAreFaults /\ OneSlotPerEntry /\ NeverStranded

\* Steps that leave the entries alone, keep what the slots hold, and make nothing
\* EXECUTING that no slot works on.
LEMMA RunKept ==
    ASSUME JobsAssumption, Inv, Running, RowsKept, UNCHANGED entry,
           faults' \in Nat, faults <= faults',
           \A w \in Slot : slot'[w].job = slot[w].job /\ (Busy(w)' <=> Busy(w)),
           sweep'.pc = "enqueue" => sweep.pc = "enqueue" /\ sweep'.job = sweep.job,
           \A o \in Op : op'[o] = "EXECUTING" =>
               \/ op[o] = "EXECUTING" /\ \A w \in Slot : AtWork(w, o) => AtWork(w, o)'
               \/ \E w \in Slot : AtWork(w, o)'
    PROVE  Running'
<1>1. faults \in Nat /\ MaxTries \in Nat /\ \A j \in Job : entry[j].tries \in Int
  BY DEF Inv, TypeOK, EntryType, JobsAssumption
<1>2. TriesAreFaults'
  BY <1>1 DEF Running, TriesAreFaults
<1>3. OneSlotPerEntry'
  BY DEF Running, OneSlotPerEntry
<1>4. NeverStranded'
  <2> SUFFICES ASSUME NEW o \in Op, op'[o] = "EXECUTING", ~(faults' >= MaxTries)
               PROVE  StillToRun(o)'
    BY DEF NeverStranded
  <2>1. CASE \E w \in Slot : AtWork(w, o)'
    BY <2>1 DEF StillToRun
  <2>2. CASE op[o] = "EXECUTING" /\ \A w \in Slot : AtWork(w, o) => AtWork(w, o)'
    <3>1. StillToRun(o)
      BY <1>1, <2>2 DEF Running, NeverStranded
    <3>2. ASSUME NEW j \in Job, entry[j].state = "waiting", row[j].op = o
          PROVE  entry'[j].state = "waiting" /\ row'[j].op = o
      BY <3>2 DEF Inv, InHand, RowsKept
    <3> QED
      BY <2>2, <3>1, <3>2 DEF StillToRun
  <2> QED
    BY <2>1, <2>2
<1> QED
  BY <1>2, <1>3, <1>4 DEF Running

\* A slot at work stays at work on the same operation when rows are kept.
LEMMA WorkKept ==
    ASSUME Inv, RowsKept, NEW w \in Slot, NEW o, AtWork(w, o),
           slot'[w].job = slot[w].job,
           slot'[w].pc \in {"load", "execute", "draft", "retry"}
    PROVE  AtWork(w, o)'
<1>1. slot[w].job \in Job /\ row[slot[w].job] # None
  BY DEF AtWork, Inv, InHand
<1> QED
  BY <1>1 DEF AtWork, Target, RowsKept

\* Steps of the sweep, the watchdog and the staff.
LEMMA OthersKeepRunning ==
    ASSUME JobsAssumption, Inv, Running, RowsKept, UNCHANGED <<entry, slot>>,
           faults' \in Nat, faults <= faults',
           sweep'.pc = "enqueue" => sweep.pc = "enqueue" /\ sweep'.job = sweep.job,
           \A o \in Op : op'[o] = "EXECUTING" => op[o] = "EXECUTING"
    PROVE  Running'
<1>1. \A w \in Slot, o \in Op : AtWork(w, o) => AtWork(w, o)'
  BY WorkKept DEF AtWork
<1>2. \A w \in Slot : slot'[w].job = slot[w].job /\ (Busy(w)' <=> Busy(w))
  BY DEF Busy
<1> QED
  BY <1>1, <1>2, RunKept

\* A slot goes on.
LEMMA SlotsKeepRunning ==
    ASSUME JobsAssumption, Inv, Running, RowsKept, NEW w \in Slot, NEW pc, Goto(w, pc),
           Busy(w), pc # "free", UNCHANGED <<entry, sweep, faults>>,
           \A o \in Op : op'[o] = "EXECUTING" =>
               \/ op[o] = "EXECUTING" /\ ~AtWork(w, o)
               \/ pc \in {"execute", "draft", "retry"} /\ AtWork(w, o)
    PROVE  Running'
<1>1. /\ slot'[w].pc = pc /\ slot'[w].job = slot[w].job
      /\ \A v \in Slot \ {w} : slot'[v] = slot[v]
  BY GotoKeepsSlots DEF Inv
<1>2. \A v \in Slot : slot'[v].job = slot[v].job /\ (Busy(v)' <=> Busy(v))
  BY <1>1 DEF Busy
<1>3. \A v \in Slot \ {w}, o \in Op : AtWork(v, o) => AtWork(v, o)'
  BY <1>1, WorkKept DEF AtWork
<1>4. \A o \in Op : pc \in {"execute", "draft", "retry"} /\ AtWork(w, o) => AtWork(w, o)'
  BY <1>1, WorkKept
<1>5. faults \in Nat
  BY DEF Inv, TypeOK
<1> QED
  BY <1>2, <1>3, <1>4, <1>5, RunKept

\* A new job: nobody holds its id, and its entry is not in Redis.
LEMMA DraftInsertRunning ==
    ASSUME JobsAssumption, Inv, Running, NEW o \in Op, DraftInsert(o)
    PROVE  Running'
<1> DEFINE j == CHOOSE k \in Job : Unused(k)
           new == [op |-> o, status |-> "queued", age |-> "new"]
<1>1. j \in Job /\ Unused(j)
  BY DEF DraftInsert
<1>2. /\ row' = [row EXCEPT ![j] = new] /\ entry' = [entry EXCEPT ![j] = NoEntry]
      /\ sweep' = [pc |-> "enqueue", job |-> j, todo |-> sweep.todo \ {o}]
      /\ UNCHANGED <<op, drafted, slot, dog, faults>>
  BY DEF DraftInsert
<1> HIDE DEF j, new
<1>3. /\ \A k \in Job \ {j} : row'[k] = row[k] /\ entry'[k] = entry[k]
      /\ entry'[j].state = "absent" /\ entry'[j].tries = 0
      /\ sweep'.job = j
  BY <1>1, <1>2 DEF Inv, TypeOK, NoEntry
<1>4. entry[j].state # "waiting" /\ \A w \in Slot : slot[w].job # j
  BY <1>1 DEF Unused
<1>5. \A w \in Slot : Busy(w) => slot[w].job \in Job \ {j}
  BY <1>4 DEF Busy, Inv, InHand
<1>6. faults \in Nat
  BY DEF Inv, TypeOK
<1>7. TriesAreFaults'
  BY <1>2, <1>3, <1>6 DEF Running, TriesAreFaults
<1>8. OneSlotPerEntry'
  BY <1>2, <1>3, <1>5 DEF Running, OneSlotPerEntry, Busy
<1>9. ASSUME NEW x \in Op, StillToRun(x) PROVE StillToRun(x)'
  BY <1>2, <1>3, <1>4, <1>5, <1>9 DEF StillToRun, AtWork, Target, Busy
<1> QED
  BY <1>2, <1>7, <1>8, <1>9 DEF Running, NeverStranded

\* The enqueue puts the entry of a job that was not in Redis, or nothing.
LEMMA EnqueueRunning ==
    ASSUME JobsAssumption, Inv, Running, DraftEnqueue \/ DraftEnqueueFails
    PROVE  Running'
<1> DEFINE j == sweep.job
<1>1. /\ sweep.pc = "enqueue" /\ j \in Job /\ entry[j].state = "absent"
      /\ sweep'.pc # "enqueue"
      /\ Put(j) \/ UNCHANGED entry
      /\ UNCHANGED <<op, drafted, row, slot, dog>>
  BY DEF DraftEnqueue, DraftEnqueueFails, Inv, TypeOK, InHand, Running, OneSlotPerEntry
<1>2. /\ faults \in Nat /\ MaxTries \in Nat /\ \A k \in Job : entry[k].tries \in Int
      /\ faults' = faults \/ faults' = faults + 1
  BY DEF DraftEnqueue, DraftEnqueueFails, Inv, TypeOK, EntryType, JobsAssumption
<1> HIDE DEF j
<1>3. /\ \A k \in Job \ {j} : entry'[k] = entry[k]
      /\ entry'[j].state \in {"waiting", "absent"} /\ entry'[j].tries = entry[j].tries
  <2>1. CASE Put(j)
    BY <1>1, <2>1 DEF Put, Inv, TypeOK, EntryType
  <2> QED
    BY <1>1, <2>1
<1>4. TriesAreFaults'
  <2> SUFFICES ASSUME NEW k \in Job
               PROVE entry'[k].tries <= IF entry'[k].state = "taken" THEN faults' + 1 ELSE faults'
    BY DEF TriesAreFaults
  <2>1. entry[k].tries <= IF entry[k].state = "taken" THEN faults + 1 ELSE faults
    BY DEF Running, TriesAreFaults
  <2>2. entry'[k].tries = entry[k].tries /\ (entry'[k].state = "taken" <=> entry[k].state = "taken")
    BY <1>1, <1>3
  <2> QED
    BY <1>2, <2>1, <2>2
<1>5. OneSlotPerEntry'
  <2>1. \A w \in Slot : Busy(w) => slot[w].job \in Job \ {j}
    BY <1>1 DEF Busy, Inv, InHand, Running, OneSlotPerEntry
  <2> QED
    BY <1>1, <1>3, <2>1 DEF Running, OneSlotPerEntry, Busy
<1>6. ASSUME NEW o \in Op, StillToRun(o) PROVE StillToRun(o)'
  BY <1>1, <1>3, <1>6 DEF StillToRun, AtWork, Target
<1>7. NeverStranded'
  BY <1>1, <1>2, <1>6 DEF Running, NeverStranded
<1> QED
  BY <1>4, <1>5, <1>7 DEF Running

\* The slot that takes an entry works on its operation.
LEMMA TakeRunning ==
    ASSUME JobsAssumption, Inv, Running, NEW w \in Slot, NEW j \in Job, Take(w, j)
    PROVE  Running'
<1>1. /\ slot[w].pc = "free" /\ entry[j].state = "waiting" /\ row[j] # None
      /\ entry' = [entry EXCEPT ![j] = [state |-> "taken", tries |-> entry[j].tries + 1]]
      /\ slot' = [slot EXCEPT ![w] = [pc |-> "load", job |-> j]]
      /\ UNCHANGED <<op, drafted, sweep, dog, faults>>
  BY DEF Take, Inv, InHand
<1>2. /\ entry'[j].state = "taken" /\ entry'[j].tries = entry[j].tries + 1
      /\ \A k \in Job \ {j} : entry'[k] = entry[k]
      /\ slot'[w].pc = "load" /\ slot'[w].job = j
      /\ \A v \in Slot \ {w} : slot'[v] = slot[v]
  BY <1>1 DEF Inv, TypeOK
<1>3. \A k \in Job : row'[k].op = row[k].op
  BY DEF Take, Inv, TypeOK
<1>4. faults \in Nat /\ \A k \in Job : entry[k].tries \in Int
  BY DEF Inv, TypeOK, EntryType
<1>5. TriesAreFaults'
  BY <1>1, <1>2, <1>4 DEF Running, TriesAreFaults
<1>6. \A v \in Slot : Busy(v) => v # w /\ slot[v].job \in Job \ {j}
  BY <1>1 DEF Busy, Inv, InHand, Running, OneSlotPerEntry
<1>7. OneSlotPerEntry'
  <2>1. sweep.pc = "enqueue" => sweep.job \in Job \ {j}
    BY <1>1 DEF Inv, InHand, Running, OneSlotPerEntry
  <2> QED
    BY <1>1, <1>2, <1>6, <2>1 DEF Running, OneSlotPerEntry, Busy
<1>8. ASSUME NEW o \in Op, StillToRun(o) PROVE StillToRun(o)'
  <2>1. ASSUME NEW v \in Slot, AtWork(v, o) PROVE AtWork(v, o)'
    BY <1>2, <1>3, <1>6, <2>1 DEF AtWork, Target, Busy
  <2>2. row[j].op = o => AtWork(w, o)'
    BY <1>2, <1>3 DEF AtWork, Target
  <2>3. \A k \in Job \ {j} : entry[k].state = "waiting" /\ row[k].op = o
                             => entry'[k].state = "waiting" /\ row'[k].op = o
    BY <1>2, <1>3
  <2> QED
    BY <1>8, <2>1, <2>2, <2>3 DEF StillToRun
<1> QED
  BY <1>1, <1>5, <1>7, <1>8 DEF Running, NeverStranded

\* ARQ gives up only when there were as many restarts as tries.
LEMMA ExhaustedRunning ==
    ASSUME JobsAssumption, Inv, Running, NEW j \in Job, Exhausted(j)
    PROVE  Running'
<1>1. /\ entry[j].state = "waiting" /\ entry[j].tries = MaxTries
      /\ entry' = [entry EXCEPT ![j] = [state |-> "failed", tries |-> 0]]
      /\ UNCHANGED <<op, drafted, row, slot, sweep, dog, faults>>
  BY DEF Exhausted
<1>2. /\ entry'[j].state = "failed" /\ entry'[j].tries = 0
      /\ \A k \in Job \ {j} : entry'[k] = entry[k]
      /\ faults \in Nat
  BY <1>1 DEF Inv, TypeOK
<1>3. TriesAreFaults' /\ faults >= MaxTries
  BY <1>1, <1>2 DEF Running, TriesAreFaults
<1>4. OneSlotPerEntry'
  BY <1>1, <1>2 DEF Inv, InHand, Running, OneSlotPerEntry, Busy
<1> QED
  BY <1>1, <1>3, <1>4 DEF Running, NeverStranded

\* A slot leaves only when it has nothing left to do for its operation.
LEMMA LeaveRunning ==
    ASSUME JobsAssumption, Inv, Running, NEW w \in Slot, Leave(w)
    PROVE  Running'
<1> DEFINE j == slot[w].job
<1>1. /\ slot[w].pc \in {"succeeded", "failed"} /\ j \in Job
      /\ entry' = [entry EXCEPT ![j] = [state |-> slot[w].pc, tries |-> 0]]
      /\ slot' = [slot EXCEPT ![w] = Free]
      /\ UNCHANGED <<op, drafted, row, sweep, dog, faults>>
      /\ entry[j].state = "taken"
  BY DEF Leave, Inv, InHand, Running, OneSlotPerEntry, Busy
<1> HIDE DEF j
<1>2. /\ entry'[j].state \in {"succeeded", "failed"} /\ entry'[j].tries = 0
      /\ \A k \in Job \ {j} : entry'[k] = entry[k]
      /\ slot'[w].pc = "free"
      /\ \A v \in Slot \ {w} : slot'[v] = slot[v]
      /\ faults \in Nat
  BY <1>1 DEF Inv, TypeOK, Free
<1>3. TriesAreFaults'
  BY <1>1, <1>2 DEF Running, TriesAreFaults
<1>4. \A v \in Slot \ {w} : Busy(v) => slot[v].job \in Job \ {j}
  BY <1>1 DEF Busy, Inv, InHand, Running, OneSlotPerEntry, j
<1>5. OneSlotPerEntry'
  BY <1>1, <1>2, <1>4 DEF Running, OneSlotPerEntry, Busy, Inv, InHand
<1>6. ASSUME NEW o \in Op, StillToRun(o) PROVE StillToRun(o)'
  BY <1>1, <1>2, <1>6 DEF StillToRun, AtWork, Target
<1> QED
  BY <1>1, <1>3, <1>5, <1>6 DEF Running, NeverStranded

\* What a slot was doing is in the queue again after a restart.
LEMMA RestartRunning ==
    ASSUME JobsAssumption, Inv, Running, Restart
    PROVE  Running'
<1>1. /\ \A w \in Slot : slot'[w].pc = "free"
      /\ faults' = faults + 1 /\ faults \in Nat /\ MaxTries \in Nat
      /\ sweep'.pc # "enqueue"
      /\ UNCHANGED <<op, drafted, row>>
  BY DEF Restart, Free, NoSweep, Inv, TypeOK, JobsAssumption
<1>2. \A j \in Job : /\ entry'[j].state = IF entry[j].state = "taken" THEN "waiting"
                                          ELSE entry[j].state
                     /\ entry'[j].tries = entry[j].tries /\ entry[j].tries \in Int
  BY DEF Restart, Inv, TypeOK, EntryType
<1>3. TriesAreFaults'
  BY <1>1, <1>2 DEF Running, TriesAreFaults
<1>4. OneSlotPerEntry'
  BY <1>1 DEF OneSlotPerEntry, Busy
<1>5. ASSUME NEW o \in Op, StillToRun(o) PROVE StillToRun(o)'
  <2>1. ASSUME NEW w \in Slot, AtWork(w, o)
        PROVE  \E j \in Job : entry'[j].state = "waiting" /\ row'[j].op = o
    <3>1. Busy(w) /\ slot[w].job \in Job /\ row[slot[w].job].op = o
      BY <2>1 DEF AtWork, Target, Busy, Inv, InHand
    <3> QED
      BY <1>1, <1>2, <3>1 DEF Running, OneSlotPerEntry
  <2> QED
    BY <1>1, <1>2, <1>5, <2>1 DEF StillToRun
<1> QED
  BY <1>1, <1>3, <1>4, <1>5 DEF Running, NeverStranded

\* The sweep's own steps, the watchdog's and the staff's.
LEMMA SweepRunning ==
    ASSUME JobsAssumption, Inv, Running, SweepStep
    PROVE  Running'
<1>1. CASE \/ SweepInsert \/ SweepEnqueue \/ SweepStage \/ SweepInflight \/ SweepDone
           \/ DraftPoolFails
  <2>1. RowsKept /\ UNCHANGED <<entry, slot>>
    BY <1>1 DEF RowsKept, SweepInsert, SweepEnqueue, SweepStage, SweepInflight,
       SweepDone, DraftPoolFails
  <2>2. faults' \in Nat /\ faults <= faults' /\ sweep'.pc # "enqueue"
    <3>1. faults \in Nat
      BY DEF Inv, TypeOK
    <3>2. faults' = faults \/ faults' = faults + 1
      BY <1>1 DEF SweepInsert, SweepEnqueue, SweepStage, SweepInflight,
         SweepDone, DraftPoolFails
    <3>3. /\ DOMAIN sweep = {"pc", "job", "todo"}
          /\ NoSweep.pc = "idle"
      BY DEF Inv, TypeOK, NoSweep
    <3>4. sweep'.pc # "enqueue"
      BY <1>1, <3>3 DEF SweepInsert, SweepEnqueue, SweepStage, SweepInflight,
         SweepDone, DraftPoolFails
    <3> QED
      BY <3>1, <3>2, <3>4
  <2>3. \A o \in Op : op'[o] = "EXECUTING" => op[o] = "EXECUTING"
    BY <1>1 DEF SweepInsert, SweepEnqueue, SweepStage, SweepInflight,
       SweepDone, DraftPoolFails, Inv, TypeOK
  <2> QED
    BY <2>1, <2>2, <2>3, OthersKeepRunning
<1>2. CASE DraftUnqueued
  <2>1. sweep.job \in Job /\ row[sweep.job] # None /\ Mark(sweep.job, "failed")
    BY <1>2 DEF DraftUnqueued, Inv, InHand
  <2>2. RowsKept
    BY <2>1, MarkKeepsRows DEF Inv
  <2>3. /\ UNCHANGED <<op, entry, slot, faults>> /\ sweep'.pc # "enqueue" /\ faults \in Nat
    BY <1>2 DEF DraftUnqueued, NoSweep, Inv, TypeOK
  <2> QED
    BY <2>2, <2>3, OthersKeepRunning
<1> QED
  BY <1>1, <1>2, DraftInsertRunning, EnqueueRunning DEF SweepStep

LEMMA WatchdogRunning ==
    ASSUME JobsAssumption, Inv, Running,
           \/ \E j \in Job : GrowOld(j) \/ WatchdogLoad(j)
           \/ WatchdogAsk \/ WatchdogRequeue \/ WatchdogMark \/ WatchdogFails
           \/ \E o \in Op : ApproveRead(o) \/ ApproveWrite(o)
    PROVE  Running'
<1>0. UNCHANGED <<entry, slot, sweep>> /\ faults' \in Nat /\ faults <= faults'
  <2>1. faults \in Nat /\ (faults' = faults \/ faults' = faults + 1)
    BY DEF GrowOld, WatchdogLoad, WatchdogAsk, WatchdogRequeue, WatchdogMark, WatchdogFails,
           ApproveRead, ApproveWrite, Inv, TypeOK
  <2>2. UNCHANGED <<entry, slot, sweep>>
    BY DEF GrowOld, WatchdogLoad, WatchdogAsk, WatchdogRequeue, WatchdogMark, WatchdogFails,
           ApproveRead, ApproveWrite
  <2> QED
    BY <2>1, <2>2
<1>1. \A o \in Op : op'[o] = "EXECUTING" => op[o] = "EXECUTING"
  BY DEF GrowOld, WatchdogLoad, WatchdogAsk, WatchdogRequeue, WatchdogMark, WatchdogFails,
         ApproveRead, ApproveWrite, Inv, TypeOK
<1>2. RowsKept
  <2>1. ASSUME NEW j \in Job, GrowOld(j) PROVE RowsKept
    BY <2>1, JobsAssumption DEF GrowOld, InFlight, Limit, RowsKept, Inv, TypeOK, RowType,
                                JobsAssumption
  <2>2. CASE WatchdogMark
    <3>1. dog.job \in Job /\ row[dog.job] # None
      BY <2>2 DEF WatchdogMark, Inv, InHand
    <3>2. Mark(dog.job, IF dog.pc = "succeed" THEN "succeeded" ELSE "failed")
      BY <2>2 DEF WatchdogMark
    <3> QED
      BY <3>1, <3>2, MarkKeepsRows DEF Inv
  <2>3. CASE \/ \E j \in Job : WatchdogLoad(j)
             \/ WatchdogAsk \/ WatchdogRequeue \/ WatchdogFails
             \/ \E o \in Op : ApproveRead(o) \/ ApproveWrite(o)
    BY <2>3 DEF WatchdogLoad, WatchdogAsk, WatchdogRequeue, WatchdogFails, ApproveRead,
                ApproveWrite, RowsKept
  <2> QED
    BY <2>1, <2>2, <2>3
<1> QED
  BY <1>0, <1>1, <1>2, OthersKeepRunning

\* A slot is at EXECUTING only while it works: it leaves by DRAFT_READY or QUEUED.
LEMMA SlotRunning ==
    ASSUME JobsAssumption, Inv, Running, NEW w \in Slot, SlotStep(w)
    PROVE  Running'
<1>0. Busy(w) => Target(w) \in Op
  BY DEF Busy, Target, Inv, TypeOK, InHand, RowType
<1>1. CASE DraftLoad(w) \/ DraftFails(w)
  <2>1. PICK pc \in {"execute", "draft", "retry"} : Goto(w, pc)
    BY <1>1 DEF DraftLoad, DraftFails
  <2>2. /\ Busy(w) /\ RowsKept /\ UNCHANGED <<op, entry, sweep, faults>>
    BY <1>1 DEF DraftLoad, DraftFails, Busy, RowsKept
  <2> QED
    BY <2>1, <2>2, SlotsKeepRunning
<1>2. CASE DraftExecute(w)
  <2>1. /\ Goto(w, "draft") /\ Busy(w) /\ RowsKept /\ AtWork(w, Target(w))
        /\ op' = [op EXCEPT ![Target(w)] = "EXECUTING"]
        /\ UNCHANGED <<entry, sweep, faults>>
    BY <1>2 DEF DraftExecute, Busy, RowsKept, AtWork
  <2>2. \A o \in Op : op'[o] = "EXECUTING" =>
            \/ op[o] = "EXECUTING" /\ ~AtWork(w, o)
            \/ AtWork(w, o)
    BY <1>0, <2>1 DEF Inv, TypeOK, AtWork
  <2> QED
    BY <2>1, <2>2, SlotsKeepRunning
<1>3. CASE DraftDone(w) \/ DraftRetry(w)
  <2>1. PICK pc \in {"succeed", "fail"}, new \in {"DRAFT_READY", "QUEUED"} :
            Goto(w, pc) /\ op' = [op EXCEPT ![Target(w)] = new]
    BY <1>3 DEF DraftDone, DraftRetry
  <2>2. Busy(w) /\ RowsKept /\ UNCHANGED <<entry, sweep, faults>>
    BY <1>3 DEF DraftDone, DraftRetry, Busy, RowsKept
  <2>3. \A o \in Op : op'[o] = "EXECUTING" => op[o] = "EXECUTING" /\ ~AtWork(w, o)
    BY <1>0, <2>1, <2>2 DEF Inv, TypeOK, AtWork
  <2> QED
    BY <2>1, <2>2, <2>3, SlotsKeepRunning
<1>4. CASE JobEnds(w, "succeed", "succeeded") \/ JobEnds(w, "fail", "failed")
  <2>1. PICK status \in {"succeeded", "failed"} :
            Mark(slot[w].job, status) /\ Goto(w, status)
    BY <1>4 DEF JobEnds
  <2>2. /\ slot[w].pc \in {"succeed", "fail"} /\ UNCHANGED <<op, entry, sweep, faults>>
    BY <1>4 DEF JobEnds
  <2>3. slot[w].job \in Job /\ row[slot[w].job] # None
    BY <2>2 DEF Inv, InHand
  <2>4. RowsKept
    BY <2>1, <2>3, MarkKeepsRows DEF Inv
  <2>5. Busy(w) /\ \A o \in Op : ~AtWork(w, o)
    BY <2>2 DEF Busy, AtWork
  <2> QED
    BY <2>1, <2>2, <2>4, <2>5, SlotsKeepRunning
<1> QED
  BY <1>1, <1>2, <1>3, <1>4, LeaveRunning DEF SlotStep

LEMMA InitRunning ==
    ASSUME JobsAssumption, Init
    PROVE  Running
BY DEF Init, Running, TriesAreFaults, OneSlotPerEntry, NeverStranded, NoEntry, NoSweep,
       Free, Busy, JobsAssumption

LEMMA StepRunning ==
    ASSUME JobsAssumption, Inv, Running, [Next]_vars
    PROVE  Running'
<1>1. CASE UNCHANGED vars
  <2>1. UNCHANGED <<row, entry, slot, sweep, faults, op>>
    BY <1>1 DEF vars
  <2>2. RowsKept
    BY <2>1 DEF RowsKept
  <2>3. faults \in Nat
    BY DEF Inv, TypeOK
  <2> QED
    BY <2>1, <2>2, <2>3, OthersKeepRunning
<1> QED
  BY <1>1, SweepRunning, RestartRunning, SlotRunning, TakeRunning, ExhaustedRunning,
     WatchdogRunning DEF Next

\* While ARQ has tries left no operation is stranded in EXECUTING, where no sweep
\* would find it again, whatever the restarts, lost enqueues and watchdog passes.
THEOREM NobodyStranded == ASSUME JobsAssumption PROVE Spec => []NeverStranded
<1>1. Init => Inv /\ Running
  BY InitHolds, InitRunning
<1>2. Inv /\ Running /\ [Next]_vars => Inv' /\ Running'
  BY StepHolds, StepRunning
<1>3. Running => NeverStranded
  BY DEF Running
<1> QED
  BY <1>1, <1>2, <1>3, PTL DEF Spec

(***************************************************************************)
(* What can undo a draft.                                                  *)
(***************************************************************************)

\* A sweep asks which carts have a job in flight after it committed what it read of
\* them: a job that ended in between makes a cart that is drafted look as if it waited.
LateLook == SweepInflight /\ \E o \in sweep.todo : op[o] # "QUEUED" /\ ~Drafting(o)

\* No fault, no repair by the watchdog, no sweep that looks too late.
Undisturbed == UNCHANGED faults /\ ~WatchdogRequeue /\ ~LateLook

\* A draft that staff can approve, and their approval, stand: the operation is not
\* drafted anew and not sent back to wait (hunter_service.py:547-563, :722-729,
\* worker.py:241-281).
DraftsStand ==
    [][\A o \in Op : op[o] \in {"DRAFT_READY", "DISPATCHED"}
                        => op'[o] \in {op[o], "DISPATCHED"}]_vars

\* A slot has a job whose row is not closed yet.
Held(w) == slot[w].pc \in {"load", "execute", "draft", "retry", "succeed", "fail"}

\* A slot will take the job: it is in the queue or about to be put there.
Ahead(j) == entry[j].state = "waiting" \/ (sweep.pc = "enqueue" /\ sweep.job = j)

\* No two jobs in flight are for the same cart.
OneJobPerCart ==
    \A j, k \in Job : InFlight(j) /\ InFlight(k) /\ row[j].op = row[k].op => j = k

\* What a sweep has yet to queue still waits, and nobody drafts it.
TodoWaits ==
    sweep.pc \in {"queueing", "enqueue"} =>
        \A o \in sweep.todo : op[o] = "QUEUED" /\ ~Drafting(o)

\* A job ahead is in flight, and its cart waits.
AheadWaits == \A j \in Job : Ahead(j) => InFlight(j) /\ op[row[j].op] = "QUEUED"

\* A slot's row and operation are where the slot is.
InStep(w) ==
    /\ Held(w) => InFlight(slot[w].job)
    /\ slot[w].pc \in {"load", "execute"} => op[Target(w)] = "QUEUED"
    /\ slot[w].pc \in {"draft", "retry"} => op[Target(w)] = "EXECUTING"
    /\ slot[w].pc \in {"succeeded", "failed"} => ~InFlight(slot[w].job)

\* What the watchdog takes for a success is the result of a job that has ended.
DogLooks ==
    /\ dog.pc \in {"asleep", "ask", "requeue", "succeed"}
    /\ dog.pc = "succeed" => ~InFlight(dog.job)

\* What staff have read as ready is so still, or approved.
ReadStands == \A o \in approving : op[o] \in {"DRAFT_READY", "DISPATCHED"}

\* The inductive invariant of undisturbed behaviours.
Calm ==
    /\ OneJobPerCart /\ TodoWaits /\ AheadWaits
    /\ \A w \in Slot : InStep(w)
    /\ \A j \in Job : entry[j].state = "succeeded" => ~InFlight(j)
    /\ DogLooks /\ ReadStands /\ sweep.pc # "unqueued"

\* Operations that wait or are drafted stay as they are.
WorkStays == \A o \in Op : op[o] \in {"QUEUED", "EXECUTING"} => op'[o] = op[o]

\* One slot at most works for a cart, and nobody else has a job for it.
LEMMA OneSlotPerCart ==
    ASSUME Inv, Running, Calm, NEW w \in Slot, Held(w)
    PROVE  /\ slot[w].job \in Job /\ Target(w) \in Op
           /\ \A v \in Slot : Busy(v) /\ v # w => slot[v].job # slot[w].job
           /\ \A v \in Slot : Held(v) /\ v # w => Target(v) # Target(w)
           /\ \A j \in Job : Ahead(j) => row[j].op # Target(w) /\ j # slot[w].job
           /\ \A o \in Op : ~Drafting(o) => o # Target(w)
<1>1. /\ slot[w].job \in Job /\ InFlight(slot[w].job) /\ Busy(w)
      /\ row[slot[w].job] \in RowType
  BY DEF Held, Busy, Inv, TypeOK, InHand, Calm, InStep
<1>2. Target(w) \in Op
  BY <1>1 DEF Target, RowType
<1>3. entry[slot[w].job].state = "taken"
  BY <1>1 DEF Running, OneSlotPerEntry
<1>4. \A v \in Slot : Busy(v) /\ v # w => slot[v].job # slot[w].job
  BY <1>1 DEF Running, OneSlotPerEntry
<1>5. ASSUME NEW v \in Slot, Held(v), v # w PROVE Target(v) # Target(w)
  <2>1. slot[v].job \in Job /\ InFlight(slot[v].job) /\ Busy(v)
    BY <1>5 DEF Held, Busy, Inv, InHand, Calm, InStep
  <2> QED
    BY <1>1, <1>4, <1>5, <2>1 DEF Calm, OneJobPerCart, Target
<1>6. ASSUME NEW j \in Job, Ahead(j) PROVE row[j].op # Target(w) /\ j # slot[w].job
  <2>1. entry[j].state \in {"waiting", "absent"}
    BY <1>6 DEF Ahead, Running, OneSlotPerEntry
  <2>2. j # slot[w].job
    BY <1>3, <2>1
  <2> QED
    BY <1>1, <1>6, <2>2 DEF Calm, AheadWaits, OneJobPerCart, Target
<1>7. Drafting(Target(w))
  BY <1>1 DEF Drafting, Target
<1> QED
  BY <1>1, <1>2, <1>4, <1>5, <1>6, <1>7

\* A slot that does not move stays in step while its row and operation do not.
LEMMA OthersInStep ==
    ASSUME Inv, Calm, WorkStays, NEW v \in Slot, slot'[v] = slot[v],
           NEW J \in SUBSET Job, Busy(v) => slot[v].job \in J,
           \A k \in J : /\ InFlight(k)' <=> InFlight(k)
                        /\ InFlight(k) => row'[k].op = row[k].op
    PROVE  InStep(v)'
<1>1. InStep(v)
  BY DEF Calm
<1>2. CASE Held(v) \/ slot[v].pc \in {"succeeded", "failed"}
  <2>1. PICK k \in J : slot[v].job = k
    BY <1>2 DEF Held, Busy
  <2>2. /\ InFlight(k)' <=> InFlight(k)
        /\ InFlight(k) => row'[k].op = row[k].op
        /\ slot'[v].job = k
    BY <2>1
  <2>3. row[k] # None => row[k].op \in Op
    BY <2>1 DEF Inv, TypeOK, RowType
  <2> QED
    BY <1>1, <2>1, <2>2, <2>3 DEF InStep, Held, Target, InFlight, WorkStays
<1>3. CASE ~Held(v) /\ slot[v].pc \notin {"succeeded", "failed"}
  BY <1>3 DEF InStep, Held
<1> QED
  BY <1>2, <1>3

\* The watchdog's look stays right while no row it has in hand comes into flight.
LEMMA LooksKept ==
    ASSUME Inv, Calm, UNCHANGED dog,
           \A k \in Job : dog.job = k /\ InFlight(k)' => InFlight(k)
    PROVE  DogLooks'
<1>1. CASE dog.pc = "succeed"
  <2>1. PICK k \in Job : dog.job = k
    BY <1>1 DEF Inv, InHand
  <2>2. ~InFlight(k) /\ ~InFlight(k)'
    BY <1>1, <2>1 DEF Calm, DogLooks
  <2> QED
    BY <1>1, <2>1, <2>2 DEF DogLooks, InFlight
<1>2. CASE dog.pc # "succeed"
  BY <1>2 DEF Calm, DogLooks
<1> QED
  BY <1>1, <1>2

\* A slot takes its operation to s and goes on to pc.
LEMMA OnwardCalm ==
    ASSUME JobsAssumption, Inv, Running, Calm, NEW w \in Slot,
           slot[w].pc \in {"load", "execute", "draft", "retry"},
           NEW pc \in {"execute", "draft", "retry", "succeed", "fail"}, Goto(w, pc),
           NEW s, op' = [op EXCEPT ![Target(w)] = s],
           pc = "execute" => s = "QUEUED", pc \in {"draft", "retry"} => s = "EXECUTING",
           UNCHANGED <<row, entry, sweep, dog, approving>>
    PROVE  Calm'
<1>1. /\ slot'[w].pc = pc /\ slot'[w].job = slot[w].job
      /\ \A v \in Slot \ {w} : slot'[v] = slot[v]
  BY GotoKeepsSlots DEF Inv
<1>2. /\ slot[w].job \in Job /\ Target(w) \in Op
      /\ \A v \in Slot : Held(v) /\ v # w => Target(v) # Target(w)
      /\ \A j \in Job : Ahead(j) => row[j].op # Target(w) /\ j # slot[w].job
      /\ \A o \in Op : ~Drafting(o) => o # Target(w)
      /\ op[Target(w)] \in {"QUEUED", "EXECUTING"}
  BY OneSlotPerCart DEF Held, Calm, InStep
<1>3. op'[Target(w)] = s /\ \A o \in Op : o # Target(w) => op'[o] = op[o]
  BY <1>2 DEF Inv, TypeOK
<1>4. \A j \in Job : /\ InFlight(j)' <=> InFlight(j)
                     /\ Ahead(j)' <=> Ahead(j)
                     /\ InFlight(j) => row[j].op \in Op
  BY DEF InFlight, Ahead, Inv, TypeOK, RowType
<1>5. OneJobPerCart'
  BY <1>4 DEF Calm, OneJobPerCart
<1>6. \A o \in Op : Drafting(o)' <=> Drafting(o)
  BY <1>4 DEF Drafting
<1>7. TodoWaits'
  BY <1>2, <1>3, <1>6 DEF Calm, TodoWaits, Inv, TypeOK
<1>8. AheadWaits'
  BY <1>2, <1>3, <1>4 DEF Calm, AheadWaits
<1>9. InStep(w)'
  <2>1. Target(w)' = Target(w) /\ InFlight(slot[w].job)
    BY <1>1 DEF Target, Calm, InStep, Held
  <2> QED
    BY <1>1, <1>2, <1>3, <1>4, <2>1 DEF InStep, Held
<1>10. ASSUME NEW v \in Slot, v # w PROVE InStep(v)'
  <2>1. slot'[v] = slot[v] /\ Target(v)' = Target(v) /\ InStep(v)
    BY <1>1, <1>10 DEF Target, Calm
  <2>2. Busy(v) => slot[v].job \in Job
    BY DEF Busy, Inv, InHand
  <2>3. Held(v) => op'[Target(v)] = op[Target(v)]
    <3>1. ASSUME Held(v) PROVE Target(v) \in Op
      BY <3>1, OneSlotPerCart
    <3> QED
      BY <1>2, <1>3, <1>10, <3>1
  <2> QED
    BY <1>4, <2>1, <2>2, <2>3 DEF InStep, Held, Busy
<1>11. DogLooks'
  BY <1>4, LooksKept
<1>12. ReadStands'
  BY <1>2, <1>3 DEF Calm, ReadStands, Inv, TypeOK
<1> QED
  BY <1>4, <1>5, <1>7, <1>8, <1>9, <1>10, <1>11, <1>12 DEF Calm

\* A slot that loads, executes, or ends a draft, well or badly.
LEMMA DraftCalm ==
    ASSUME JobsAssumption, Inv, Running, Calm, NEW w \in Slot,
           DraftLoad(w) \/ DraftExecute(w) \/ DraftDone(w) \/ DraftFails(w) \/ DraftRetry(w)
    PROVE  Calm'
<1>1. /\ Held(w) /\ slot[w].pc \in {"load", "execute", "draft", "retry"}
      /\ UNCHANGED <<row, entry, sweep, dog, approving>>
  BY DEF Held, DraftLoad, DraftExecute, DraftDone, DraftFails, DraftRetry
<1>2. Target(w) \in Op /\ InStep(w)
  BY <1>1, OneSlotPerCart DEF Calm
<1>3. UNCHANGED op => op' = [op EXCEPT ![Target(w)] = op[Target(w)]]
  BY DEF Inv, TypeOK
<1>4. CASE DraftLoad(w)
  <2>1. Goto(w, "execute") /\ op[Target(w)] = "QUEUED" /\ UNCHANGED op
    BY <1>2, <1>4 DEF DraftLoad, InStep
  <2> QED
    BY <1>1, <1>3, <2>1, OnwardCalm
<1>5. CASE DraftExecute(w)
  BY <1>1, <1>5, OnwardCalm DEF DraftExecute
<1>6. CASE DraftDone(w)
  BY <1>1, <1>6, OnwardCalm DEF DraftDone
<1>7. CASE DraftFails(w)
  <2>1. Goto(w, "retry") /\ op[Target(w)] = "EXECUTING" /\ UNCHANGED op
    BY <1>2, <1>7 DEF DraftFails, InStep
  <2> QED
    BY <1>1, <1>3, <2>1, OnwardCalm
<1>8. CASE DraftRetry(w)
  BY <1>1, <1>8, OnwardCalm DEF DraftRetry
<1> QED
  BY <1>4, <1>5, <1>6, <1>7, <1>8

\* A slot marks its row, which was in flight, ended.
LEMMA JobEndsCalm ==
    ASSUME JobsAssumption, Inv, Running, Calm, NEW w \in Slot,
           JobEnds(w, "succeed", "succeeded") \/ JobEnds(w, "fail", "failed")
    PROVE  Calm'
<1>1. PICK status \in {"succeeded", "failed"} : Mark(slot[w].job, status) /\ Goto(w, status)
  BY DEF JobEnds
<1>2. Held(w) /\ UNCHANGED <<op, entry, sweep, dog, approving>>
  BY DEF JobEnds, Held
<1>3. PICK j \in Job : /\ slot[w].job = j /\ row[j] # None
                       /\ \A v \in Slot : Busy(v) /\ v # w => slot[v].job # j
                       /\ \A k \in Job : Ahead(k) => k # j
  BY <1>2, OneSlotPerCart DEF Held, Inv, InHand
<1>4. /\ RowsKept /\ row'[j].status = status /\ \A k \in Job \ {j} : row'[k] = row[k]
  BY <1>1, <1>3, MarkKeepsRows DEF Inv
<1>5. /\ slot'[w].pc = status /\ slot'[w].job = j
      /\ \A v \in Slot \ {w} : slot'[v] = slot[v]
  BY <1>1, <1>3, GotoKeepsSlots DEF Inv
<1>6. /\ ~InFlight(j)' /\ \A k \in Job \ {j} : InFlight(k)' <=> InFlight(k)
      /\ \A k \in Job : InFlight(k) => row'[k].op = row[k].op
      /\ \A k \in Job : Ahead(k)' <=> Ahead(k)
  BY <1>1, <1>2, <1>3, <1>4 DEF InFlight, Ahead, RowsKept
<1>7. OneJobPerCart'
  BY <1>4, <1>6 DEF Calm, OneJobPerCart
<1>8. \A o \in Op : ~Drafting(o) => ~Drafting(o)'
  BY <1>4, <1>6 DEF Drafting
<1>9. TodoWaits'
  BY <1>2, <1>8 DEF Calm, TodoWaits, Inv, TypeOK
<1>10. AheadWaits'
  BY <1>2, <1>3, <1>4, <1>6 DEF Calm, AheadWaits
<1>11. InStep(w)'
  BY <1>1, <1>5, <1>6 DEF InStep, Held
<1>12. ASSUME NEW v \in Slot, v # w PROVE InStep(v)'
  <2>1. slot'[v] = slot[v] /\ (Busy(v) => slot[v].job \in Job \ {j})
    BY <1>3, <1>5, <1>12 DEF Busy, Inv, InHand
  <2>2. \A k \in Job \ {j} : /\ InFlight(k)' <=> InFlight(k)
                             /\ InFlight(k) => row'[k].op = row[k].op
    BY <1>6
  <2> QED
    BY <1>2, <2>1, <2>2, OthersInStep DEF WorkStays
<1>13. DogLooks'
  BY <1>2, <1>6, LooksKept
<1>14. ReadStands'
  BY <1>2 DEF Calm, ReadStands
<1> QED
  BY <1>2, <1>6, <1>7, <1>9, <1>10, <1>11, <1>12, <1>13, <1>14 DEF Calm

\* A slot takes an entry whose job is in flight, and keeps it so.
LEMMA TakeCalm ==
    ASSUME JobsAssumption, Inv, Running, Calm, NEW w \in Slot, NEW j \in Job, Take(w, j)
    PROVE  Calm'
<1>1. /\ slot[w].pc = "free" /\ entry[j].state = "waiting" /\ row[j] # None
      /\ entry' = [entry EXCEPT ![j] = [state |-> "taken", tries |-> entry[j].tries + 1]]
      /\ slot' = [slot EXCEPT ![w] = [pc |-> "load", job |-> j]]
      /\ UNCHANGED <<op, drafted, sweep, dog, approving, faults>>
  BY DEF Take, Inv, InHand
<1>2. row'[j].op = row[j].op /\ row'[j].status = "running" /\ row'[j] # None
  <2> DEFINE r == [op |-> row[j].op, status |-> "running",
                   age |-> IF row[j].age = "overdue" THEN "overdue" ELSE "begun"]
  <2>1. row' = [row EXCEPT ![j] = r] /\ row \in [Job -> {None} \cup RowType]
    BY DEF Take, Inv, TypeOK
  <2>2. row'[j] = r
    BY <2>1
  <2>3. r \in RowType
    BY <1>1 DEF Inv, TypeOK, RowType
  <2> QED
    BY <2>2, <2>3, JobsAssumption DEF JobsAssumption
<1>3. /\ \A k \in Job \ {j} : row'[k] = row[k] /\ entry'[k] = entry[k]
      /\ entry'[j].state = "taken"
      /\ slot'[w].pc = "load" /\ slot'[w].job = j
      /\ \A v \in Slot \ {w} : slot'[v] = slot[v]
  BY <1>1 DEF Take, Inv, TypeOK
<1>4. Ahead(j) /\ InFlight(j) /\ op[row[j].op] = "QUEUED"
  BY <1>1 DEF Ahead, Calm, AheadWaits
<1>5. /\ \A k \in Job : InFlight(k)' <=> InFlight(k)
      /\ \A k \in Job : row[k] # None => row'[k] # None /\ row'[k].op = row[k].op
      /\ ~Ahead(j)' /\ \A k \in Job \ {j} : Ahead(k)' <=> Ahead(k)
  BY <1>1, <1>2, <1>3, <1>4 DEF InFlight, Ahead, Running, OneSlotPerEntry
<1>6. OneJobPerCart'
  BY <1>5 DEF Calm, OneJobPerCart, InFlight
<1>7. \A o \in Op : Drafting(o)' <=> Drafting(o)
  BY <1>5 DEF Drafting, InFlight
<1>8. TodoWaits'
  BY <1>1, <1>7 DEF Calm, TodoWaits, Inv, TypeOK
<1>9. AheadWaits'
  BY <1>1, <1>5 DEF Calm, AheadWaits, InFlight
<1>10. InStep(w)'
  BY <1>1, <1>2, <1>3, <1>4, <1>5 DEF InStep, Held, Target
<1>11. ASSUME NEW v \in Slot, v # w PROVE InStep(v)'
  <2>1. slot'[v] = slot[v] /\ (Busy(v) => slot[v].job \in Job)
    BY <1>3, <1>11 DEF Busy, Inv, InHand
  <2>2. \A k \in Job : /\ InFlight(k)' <=> InFlight(k)
                       /\ InFlight(k) => row'[k].op = row[k].op
    BY <1>5 DEF InFlight
  <2> QED
    BY <1>1, <2>1, <2>2, OthersInStep DEF WorkStays
<1>12. \A k \in Job : entry'[k].state = "succeeded" => ~InFlight(k)'
  BY <1>3, <1>5 DEF Calm
<1>13. DogLooks'
  BY <1>1, <1>5, LooksKept
<1>14. ReadStands'
  BY <1>1 DEF Calm, ReadStands
<1> QED
  BY <1>1, <1>6, <1>8, <1>9, <1>10, <1>11, <1>12, <1>13, <1>14 DEF Calm

\* A slot that leaves has closed its row.
LEMMA LeaveCalm ==
    ASSUME JobsAssumption, Inv, Running, Calm, NEW w \in Slot, Leave(w)
    PROVE  Calm'
<1>1. PICK j \in Job :
          /\ slot[w].job = j /\ slot[w].pc \in {"succeeded", "failed"}
          /\ entry' = [entry EXCEPT ![j] = [state |-> slot[w].pc, tries |-> 0]]
          /\ slot' = [slot EXCEPT ![w] = Free]
          /\ UNCHANGED <<op, drafted, row, sweep, dog, approving, faults>>
          /\ ~InFlight(j)
  BY DEF Leave, Inv, InHand, Calm, InStep
<1>2. /\ entry'[j].state \in {"succeeded", "failed"}
      /\ \A k \in Job \ {j} : entry'[k] = entry[k]
      /\ slot'[w].pc = "free"
      /\ \A v \in Slot \ {w} : slot'[v] = slot[v]
  BY <1>1 DEF Inv, TypeOK, Free
<1>3. \A k \in Job : /\ InFlight(k)' <=> InFlight(k)
                     /\ row'[k].op = row[k].op
                     /\ Ahead(k)' => Ahead(k)
  BY <1>1, <1>2 DEF InFlight, Ahead
<1>4. OneJobPerCart' /\ AheadWaits'
  BY <1>1, <1>3 DEF Calm, OneJobPerCart, AheadWaits
<1>5. TodoWaits'
  BY <1>1, <1>3 DEF Calm, TodoWaits, Drafting
<1>6. InStep(w)'
  BY <1>2 DEF InStep, Held
<1>7. ASSUME NEW v \in Slot, v # w PROVE InStep(v)'
  <2>1. slot'[v] = slot[v] /\ (Busy(v) => slot[v].job \in Job)
    BY <1>2, <1>7 DEF Busy, Inv, InHand
  <2> QED
    BY <1>1, <1>3, <2>1, OthersInStep DEF WorkStays
<1>8. \A k \in Job : entry'[k].state = "succeeded" => ~InFlight(k)'
  BY <1>1, <1>2, <1>3 DEF Calm
<1>9. DogLooks'
  BY <1>1, <1>3, LooksKept
<1>10. ReadStands'
  BY <1>1 DEF Calm, ReadStands
<1> QED
  BY <1>1, <1>4, <1>5, <1>6, <1>7, <1>8, <1>9, <1>10 DEF Calm

\* The row a sweep inserts is for a cart that waits and has no job in flight.
LEMMA DraftInsertCalm ==
    ASSUME JobsAssumption, Inv, Running, Calm, NEW o \in Op, DraftInsert(o)
    PROVE  Calm'
<1>1. PICK j \in Job :
          /\ Unused(j) /\ sweep.pc = "queueing" /\ o \in sweep.todo
          /\ row' = [row EXCEPT ![j] = [op |-> o, status |-> "queued", age |-> "new"]]
          /\ entry' = [entry EXCEPT ![j] = NoEntry]
          /\ sweep' = [pc |-> "enqueue", job |-> j, todo |-> sweep.todo \ {o}]
          /\ UNCHANGED <<op, drafted, slot, dog, approving, faults>>
  BY DEF DraftInsert
<1>2. [op |-> o, status |-> "queued", age |-> "new"] # None
  BY JobsAssumption DEF JobsAssumption, RowType
<1>3. /\ InFlight(j)' /\ row'[j].op = o /\ entry'[j].state = "absent"
      /\ \A k \in Job \ {j} : row'[k] = row[k] /\ entry'[k] = entry[k]
  BY <1>1, <1>2 DEF Inv, TypeOK, NoEntry, InFlight
<1>4. /\ \A k \in Job \ {j} : /\ InFlight(k)' <=> InFlight(k)
                              /\ Ahead(k)' => Ahead(k)
      /\ ~InFlight(j) /\ op[o] = "QUEUED" /\ ~Drafting(o)
      /\ sweep'.todo = sweep.todo \ {o} /\ sweep'.pc = "enqueue"
  BY <1>1, <1>3 DEF InFlight, Ahead, Unused, Calm, TodoWaits
<1>5. OneJobPerCart'
  <2>1. \A k \in Job \ {j} : InFlight(k)' => row'[k].op # o
    BY <1>3, <1>4 DEF Drafting
  <2> QED
    BY <1>3, <1>4, <2>1 DEF Calm, OneJobPerCart
<1>6. TodoWaits'
  <2>1. \A p \in Op : p # o /\ ~Drafting(p) => ~Drafting(p)'
    BY <1>3, <1>4 DEF Drafting
  <2>2. \A p \in sweep.todo : p \in Op /\ op[p] = "QUEUED" /\ ~Drafting(p)
    BY <1>1 DEF Calm, TodoWaits, Inv, TypeOK
  <2>3. op' = op /\ sweep'.todo = sweep.todo \ {o}
    BY <1>1, <1>4
  <2> QED
    BY <2>1, <2>2, <2>3 DEF TodoWaits
<1>7. AheadWaits'
  BY <1>1, <1>3, <1>4 DEF Calm, AheadWaits
<1>8. ASSUME NEW v \in Slot PROVE InStep(v)'
  <2>1. slot'[v] = slot[v] /\ (Busy(v) => slot[v].job \in Job \ {j})
    BY <1>1 DEF Unused, Busy, Inv, InHand
  <2>2. WorkStays
    BY <1>1 DEF WorkStays
  <2>3. \A k \in Job \ {j} : /\ InFlight(k)' <=> InFlight(k)
                             /\ InFlight(k) => row'[k].op = row[k].op
    BY <1>3, <1>4
  <2> QED
    BY <2>1, <2>2, <2>3, OthersInStep
<1>9. \A k \in Job : entry'[k].state = "succeeded" => ~InFlight(k)'
  BY <1>3, <1>4 DEF Calm
<1>10. DogLooks'
  <2>1. dog.job # j
    BY <1>1 DEF Unused
  <2> QED
    BY <1>1, <1>4, <2>1, LooksKept
<1>11. ReadStands'
  BY <1>1 DEF Calm, ReadStands
<1> QED
  BY <1>1, <1>4, <1>5, <1>6, <1>7, <1>8, <1>9, <1>10, <1>11 DEF Calm

\* Steps that leave the slots and what is in flight alone.
LEMMA OthersCalm ==
    ASSUME JobsAssumption, Inv, Running, Calm, WorkStays, UNCHANGED slot,
           \A k \in Job : /\ InFlight(k)' <=> InFlight(k)
                          /\ InFlight(k) => row'[k].op = row[k].op
                          /\ Ahead(k)' => Ahead(k)
                          /\ entry'[k].state = "succeeded" => entry[k].state = "succeeded",
           \/ sweep'.pc \notin {"queueing", "enqueue"}
           \/ \A o \in sweep'.todo : o \in Op /\ op[o] = "QUEUED" /\ ~Drafting(o),
           sweep'.pc # "unqueued", DogLooks', ReadStands'
    PROVE  Calm'
<1>1. OneJobPerCart'
  BY DEF Calm, OneJobPerCart
<1>2. \A o \in Op : Drafting(o)' <=> Drafting(o)
  BY DEF Drafting
<1>3. TodoWaits'
  BY <1>2 DEF TodoWaits, WorkStays
<1>4. \A k \in Job : InFlight(k) => row[k].op \in Op
  BY DEF InFlight, Inv, TypeOK, RowType
<1>5. AheadWaits'
  BY <1>4 DEF Calm, AheadWaits, WorkStays
<1>6. ASSUME NEW v \in Slot PROVE InStep(v)'
  <2>1. Busy(v) => slot[v].job \in Job
    BY DEF Busy, Inv, InHand
  <2> QED
    BY <2>1, OthersInStep
<1> QED
  BY <1>1, <1>3, <1>5, <1>6 DEF Calm

\* A sweep that looks in time, and nothing that is refused.
LEMMA SweepCalm ==
    ASSUME JobsAssumption, Inv, Running, Calm, SweepStep, Undisturbed
    PROVE  Calm'
<1>1. UNCHANGED faults /\ faults \in Nat /\ ~LateLook
  BY DEF Undisturbed, Inv, TypeOK
<1>2. CASE SweepInsert \/ SweepEnqueue \/ SweepStage \/ SweepDone
  <2>1. /\ UNCHANGED <<row, entry, slot, dog, approving>> /\ WorkStays
        /\ sweep'.pc \in {"inserted", "waiting", "staged", "idle"}
    <3>1. UNCHANGED <<row, entry, slot, dog, approving>>
      BY <1>2 DEF SweepInsert, SweepEnqueue, SweepStage, SweepDone
    <3>2. WorkStays
      BY <1>2 DEF SweepInsert, SweepEnqueue, SweepStage, SweepDone, WorkStays, Inv, TypeOK
    <3>3. DOMAIN sweep = {"pc", "job", "todo"} /\ NoSweep.pc = "idle"
      BY DEF Inv, TypeOK, NoSweep
    <3>4. faults' # faults + 1
      BY <1>1
    <3>5. sweep'.pc \in {"inserted", "waiting", "staged", "idle"}
      BY <1>2, <3>3, <3>4 DEF SweepInsert, SweepEnqueue, SweepStage, SweepDone
    <3> QED
      BY <3>1, <3>2, <3>5
  <2>2. \A k \in Job : /\ InFlight(k)' <=> InFlight(k)
                       /\ InFlight(k) => row'[k].op = row[k].op
                       /\ Ahead(k)' => Ahead(k)
                       /\ entry'[k].state = "succeeded" => entry[k].state = "succeeded"
    BY <2>1 DEF InFlight, Ahead
  <2>3. DogLooks'
    BY <2>1, <2>2, LooksKept
  <2>4. ReadStands'
    <3>1. \A o \in Op : op[o] # "absent" => op'[o] = op[o]
      BY <1>2 DEF SweepInsert, SweepEnqueue, SweepStage, SweepDone, Inv, TypeOK
    <3> QED
      BY <2>1, <3>1 DEF Calm, ReadStands, Inv, TypeOK
  <2> QED
    BY <2>1, <2>2, <2>3, <2>4, OthersCalm
<1>3. CASE SweepInflight
  <2>1. /\ UNCHANGED <<op, row, entry, slot, dog, approving>> /\ WorkStays
        /\ sweep'.pc = "queueing" /\ sweep'.todo = {o \in sweep.todo : ~Drafting(o)}
    BY <1>3 DEF SweepInflight, WorkStays, Inv, TypeOK
  <2>2. \A k \in Job : /\ InFlight(k)' <=> InFlight(k)
                       /\ InFlight(k) => row'[k].op = row[k].op
                       /\ Ahead(k)' => Ahead(k)
                       /\ entry'[k].state = "succeeded" => entry[k].state = "succeeded"
    BY <2>1 DEF InFlight, Ahead
  <2>3. \A o \in sweep'.todo : o \in Op /\ op[o] = "QUEUED" /\ ~Drafting(o)
    BY <1>1, <1>3, <2>1 DEF LateLook, Inv, TypeOK
  <2>4. DogLooks' /\ ReadStands'
    BY <2>1, <2>2, LooksKept DEF Calm, ReadStands
  <2> QED
    BY <2>1, <2>2, <2>3, <2>4, OthersCalm
<1>4. CASE DraftEnqueue
  <2>1. /\ sweep.pc = "enqueue" /\ sweep.job \in Job
        /\ UNCHANGED <<op, row, slot, dog, approving>> /\ WorkStays
        /\ sweep'.pc = "queueing" /\ sweep'.todo = sweep.todo
    BY <1>4 DEF DraftEnqueue, WorkStays, Inv, TypeOK, InHand
  <2>2. /\ entry'[sweep.job].state = "waiting"
        /\ \A k \in Job \ {sweep.job} : entry'[k] = entry[k]
    BY <1>4, <2>1, PutKeepsEntries DEF DraftEnqueue, Inv
  <2>3. \A k \in Job : /\ InFlight(k)' <=> InFlight(k)
                       /\ InFlight(k) => row'[k].op = row[k].op
                       /\ Ahead(k)' => Ahead(k)
                       /\ entry'[k].state = "succeeded" => entry[k].state = "succeeded"
    BY <2>1, <2>2 DEF InFlight, Ahead
  <2>4. \A o \in sweep'.todo : o \in Op /\ op[o] = "QUEUED" /\ ~Drafting(o)
    BY <2>1 DEF Calm, TodoWaits, Inv, TypeOK
  <2>5. DogLooks' /\ ReadStands'
    BY <2>1, <2>3, LooksKept DEF Calm, ReadStands
  <2> QED
    BY <2>1, <2>3, <2>4, <2>5, OthersCalm
<1>5. ~DraftEnqueueFails /\ ~DraftPoolFails /\ ~DraftUnqueued
  BY <1>1 DEF DraftEnqueueFails, DraftPoolFails, DraftUnqueued, Calm
<1> QED
  BY <1>2, <1>3, <1>4, <1>5, DraftInsertCalm DEF SweepStep

\* A result the watchdog finds is that of a job that has ended.
LEMMA AskLooks ==
    ASSUME Inv, Calm, WatchdogAsk
    PROVE  DogLooks'
<1>1. PICK k \in Job : dog.job = k
  BY DEF WatchdogAsk, Inv, InHand
<1>2. /\ dog'.job = k /\ dog'.pc \in {"succeed", "requeue"} /\ UNCHANGED row
      /\ dog'.pc = "succeed" => entry[k].state = "succeeded"
  BY <1>1 DEF WatchdogAsk, Inv, TypeOK
<1>3. dog'.pc = "succeed" => ~InFlight(k)
  BY <1>2 DEF Calm
<1> QED
  BY <1>2, <1>3 DEF DogLooks, InFlight

\* ARQ that gives up, time, staff, and a watchdog that only looks.
LEMMA AsideCalm ==
    ASSUME JobsAssumption, Inv, Running, Calm,
           \/ \E j \in Job : Exhausted(j) \/ GrowOld(j) \/ WatchdogLoad(j)
           \/ WatchdogAsk
           \/ \E o \in Op : ApproveRead(o) \/ ApproveWrite(o)
           \/ UNCHANGED vars
    PROVE  Calm'
<1>1. UNCHANGED <<slot, sweep>>
  BY DEF Exhausted, GrowOld, WatchdogLoad, WatchdogAsk, ApproveRead, ApproveWrite, vars
<1>2. WorkStays /\ ReadStands'
  <2>1. CASE \E o \in Op : ApproveWrite(o)
    <3>1. PICK o \in Op : ApproveWrite(o)
      BY <2>1
    <3>2. /\ op'[o] = "DISPATCHED" /\ \A p \in Op \ {o} : op'[p] = op[p]
          /\ op[o] \in {"DRAFT_READY", "DISPATCHED"} /\ approving' \subseteq approving
      BY <3>1 DEF ApproveWrite, Calm, ReadStands, Inv, TypeOK
    <3> QED
      BY <3>2 DEF WorkStays, Calm, ReadStands, Inv, TypeOK
  <2>2. CASE \E o \in Op : ApproveRead(o)
    BY <2>2 DEF ApproveRead, WorkStays, Calm, ReadStands
  <2>3. CASE UNCHANGED <<op, approving>>
    BY <2>3 DEF WorkStays, Calm, ReadStands
  <2> QED
    BY <2>1, <2>2, <2>3 DEF Exhausted, GrowOld, WatchdogLoad, WatchdogAsk, vars
<1>3. \A k \in Job : /\ InFlight(k)' <=> InFlight(k)
                     /\ InFlight(k) => row'[k].op = row[k].op
  <2>1. ASSUME NEW j \in Job, GrowOld(j), NEW k \in Job
        PROVE  row[k] # None => /\ row'[k] # None /\ row'[k].status = row[k].status
                                /\ row'[k].op = row[k].op
    BY <2>1, JobsAssumption DEF GrowOld, InFlight, Limit, Inv, TypeOK, RowType, JobsAssumption
  <2>2. ASSUME NEW j \in Job, GrowOld(j), NEW k \in Job, row[k] = None PROVE row'[k] = None
    BY <2>2 DEF GrowOld, InFlight, Inv, TypeOK
  <2>3. CASE UNCHANGED row
    BY <2>3 DEF InFlight
  <2> QED
    BY <2>1, <2>2, <2>3 DEF InFlight, Exhausted, WatchdogLoad, WatchdogAsk, ApproveRead,
                            ApproveWrite, vars
<1>4. \A k \in Job : entry'[k].state \in {entry[k].state, "failed"}
  BY DEF Exhausted, GrowOld, WatchdogLoad, WatchdogAsk, ApproveRead, ApproveWrite, Inv,
         TypeOK, vars
<1>5. \A k \in Job : Ahead(k)' => Ahead(k)
  BY <1>1, <1>4 DEF Ahead
<1>6. DogLooks'
  <2>1. CASE \E j \in Job : WatchdogLoad(j)
    BY <2>1 DEF WatchdogLoad, DogLooks
  <2>2. CASE UNCHANGED dog
    BY <1>3, <2>2, LooksKept
  <2> QED
    BY <2>1, <2>2, AskLooks DEF Exhausted, GrowOld, ApproveRead, ApproveWrite, vars
<1>7. \/ sweep'.pc \notin {"queueing", "enqueue"}
      \/ \A o \in sweep'.todo : o \in Op /\ op[o] = "QUEUED" /\ ~Drafting(o)
  BY <1>1 DEF Calm, TodoWaits, Inv, TypeOK
<1>8. sweep'.pc # "unqueued"
  BY <1>1 DEF Calm
<1> QED
  BY <1>1, <1>2, <1>3, <1>4, <1>5, <1>6, <1>7, <1>8, OthersCalm

\* The watchdog closes a row only when its job has ended, and so had its row.
LEMMA MarkCalm ==
    ASSUME JobsAssumption, Inv, Running, Calm, WatchdogMark
    PROVE  Calm'
<1>1. PICK j \in Job : dog.job = j /\ row[j] # None
  BY DEF WatchdogMark, Inv, InHand
<1>2. /\ dog.pc = "succeed" /\ ~InFlight(j) /\ dog' = Asleep
      /\ UNCHANGED <<op, entry, slot, sweep, approving>>
  BY <1>1 DEF WatchdogMark, Calm, DogLooks
<1>3. Mark(j, "succeeded")
  BY <1>1, <1>2 DEF WatchdogMark
<1>4. /\ row'[j].status = "succeeded" /\ \A k \in Job \ {j} : row'[k] = row[k]
      /\ RowsKept
  BY <1>1, <1>3, MarkKeepsRows DEF Inv
<1>5. \A k \in Job : /\ InFlight(k)' <=> InFlight(k)
                     /\ InFlight(k) => row'[k].op = row[k].op
                     /\ Ahead(k)' => Ahead(k)
  BY <1>2, <1>4 DEF InFlight, Ahead, RowsKept
<1>6. DogLooks' /\ ReadStands' /\ WorkStays
  BY <1>2 DEF DogLooks, Asleep, Calm, ReadStands, WorkStays
<1>7. \/ sweep'.pc \notin {"queueing", "enqueue"}
      \/ \A o \in sweep'.todo : o \in Op /\ op[o] = "QUEUED" /\ ~Drafting(o)
  BY <1>2 DEF Calm, TodoWaits, Inv, TypeOK
<1>8. sweep'.pc # "unqueued"
  BY <1>2 DEF Calm
<1> QED
  BY <1>2, <1>5, <1>6, <1>7, <1>8, OthersCalm

\* Nothing is in hand at the start.
LEMMA InitCalm ==
    ASSUME JobsAssumption, Init
    PROVE  Calm
BY DEF Init, Calm, OneJobPerCart, TodoWaits, AheadWaits, InStep, Held, Ahead, InFlight,
       DogLooks, ReadStands,
       NoEntry, NoSweep, Free, Asleep

\* Every undisturbed step keeps the calm.
LEMMA StepCalm ==
    ASSUME JobsAssumption, Inv, Running, Calm, [Next]_vars, [Undisturbed]_vars
    PROVE  Calm'
<1>1. CASE UNCHANGED vars
  BY <1>1, AsideCalm
<1>2. CASE Next /\ Undisturbed
  <2>1. UNCHANGED faults /\ faults \in Nat /\ ~WatchdogRequeue
    BY <1>2 DEF Undisturbed, Inv, TypeOK
  <2>2. ~Restart /\ ~WatchdogFails
    BY <2>1 DEF Restart, WatchdogFails
  <2> QED
    BY <1>2, <2>1, <2>2, SweepCalm, AsideCalm, MarkCalm, DraftCalm, JobEndsCalm, LeaveCalm,
       TakeCalm DEF Next, SlotStep
<1> QED
  BY <1>1, <1>2

\* Only three things undo a draft that is ready, or staff's approval of it: a fault (a
\* restart, a failed or lost enqueue), the watchdog's requeue, and a sweep that looks too
\* late.
THEOREM DraftsStandUndisturbed ==
    ASSUME JobsAssumption PROVE Spec /\ [][Undisturbed]_vars => DraftsStand
<1> DEFINE Stands == \A o \in Op : op[o] \in {"DRAFT_READY", "DISPATCHED"}
                                   => op'[o] \in {op[o], "DISPATCHED"}
<1>1. Init => Inv /\ Running /\ Calm
  BY InitHolds, InitRunning, InitCalm
<1>2. Inv /\ Running /\ Calm /\ [Next]_vars /\ [Undisturbed]_vars => Inv' /\ Running' /\ Calm'
  BY StepHolds, StepRunning, StepCalm
<1>3. ASSUME Inv, Running, Calm, [Next]_vars, [Undisturbed]_vars PROVE [Stands]_vars
  <2>1. CASE \E w \in Slot : DraftExecute(w) \/ DraftDone(w) \/ DraftRetry(w)
    <3>1. PICK w \in Slot : DraftExecute(w) \/ DraftDone(w) \/ DraftRetry(w)
      BY <2>1
    <3>2. /\ op[Target(w)] \in {"QUEUED", "EXECUTING"}
          /\ \A o \in Op : o # Target(w) => op'[o] = op[o]
      BY <1>3, <3>1 DEF DraftExecute, DraftDone, DraftRetry, Calm, InStep, Inv, TypeOK
    <3> QED
      BY <3>2
  <2>2. CASE UNCHANGED op
    BY <2>2
  <2>3. CASE SweepStage \/ \E o \in Op : ApproveWrite(o)
    BY <1>3, <2>3 DEF SweepStage, ApproveWrite, Inv, TypeOK
  <2>4. ~WatchdogRequeue \/ UNCHANGED vars
    BY <1>3 DEF Undisturbed
  <2> QED
    BY <1>3, <2>1, <2>2, <2>3, <2>4
    DEF Next, SweepStep, SlotStep, SweepInsert, SweepEnqueue, SweepInflight, DraftInsert,
        DraftEnqueue, DraftEnqueueFails, DraftPoolFails, DraftUnqueued, SweepDone, Take,
        Exhausted, DraftLoad, DraftFails, JobEnds, Leave, Restart, GrowOld, WatchdogLoad,
        WatchdogAsk, WatchdogMark, WatchdogFails, ApproveRead, vars
<1> QED
  BY <1>1, <1>2, <1>3, PTL DEF Spec, DraftsStand

=============================================================================
