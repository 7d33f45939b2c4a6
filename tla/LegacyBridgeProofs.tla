-------------------------- MODULE LegacyBridgeProofs --------------------------
(***************************************************************************)
(* Theorems about LegacyBridge for any reservations and deferred writes,   *)
(* any thresholds and limits, and any number of restarts: what the rows    *)
(* say is true, a circuit opens on a run of failures only, and the queue   *)
(* implements DeferredOutbox.                                              *)
(***************************************************************************)
EXTENDS LegacyBridge, TLAPS

-----------------------------------------------------------------------------
(* Types.                                                                  *)

BreakerType == [open: BOOLEAN, cooled: BOOLEAN, fails: 0..Threshold]

\* A count capped at a limit stays within it.
LEMMA UpToType ==
    ASSUME NEW limit \in Nat, NEW n \in 0..limit
    PROVE  UpTo(n + 1, limit) \in 0..limit
BY DEF UpTo

\* A breaker stays well typed through successes and failures.
LEMMA BreakerStepType ==
    ASSUME NEW b \in BreakerType
    PROVE  /\ OnSuccess(b) \in BreakerType
           /\ OnFailure(b) \in BreakerType
<1>1. Threshold \in Nat \ {0}
  BY BridgeAssumption
<1>2. UpTo(b.fails + 1, Threshold) \in 0..Threshold
  BY <1>1, UpToType DEF BreakerType
<1>3. OnSuccess(b) \in BreakerType
  BY <1>1 DEF BreakerType, OnSuccess
<1>4. OnFailure(b) \in BreakerType
  BY <1>1, <1>2 DEF BreakerType, OnFailure
<1> QED
  BY <1>3, <1>4

BreakersType ==
    /\ breaker \in [Proc -> BreakerType]
    /\ streak \in [Proc -> (-2)..Threshold]

\* The outcome of a call leaves breakers and streaks well typed.
LEMMA CallType ==
    ASSUME BreakersType, NEW p \in Proc, Succeeds(p) \/ Fails(p)
    PROVE  BreakersType'
<1>1. Threshold \in Nat \ {0}
  BY BridgeAssumption
<1>2. breaker' \in [Proc -> BreakerType]
  BY BreakerStepType DEF BreakersType, Succeeds, Fails
<1>3. streak' \in [Proc -> (-2)..Threshold]
  <2>1. CASE Succeeds(p)
    BY <2>1, <1>1 DEF BreakersType, Succeeds
  <2>2. CASE Fails(p)
    <3>1. (IF streak[p] < 0 THEN 1 ELSE UpTo(streak[p] + 1, Threshold))
            \in (-2)..Threshold
      BY <1>1 DEF BreakersType, UpTo
    <3> QED
      BY <2>2, <3>1 DEF BreakersType, Fails
  <2> QED
    BY <2>1, <2>2
<1> QED
  BY <1>2, <1>3 DEF BreakersType

\* The other variables, row by row.
TablesType ==
    /\ bridge \in [Res -> {"settled", "call", "queue", "sync", "done"}]
    /\ deferred \in [Row -> [status: RowStatus, res: Res \cup {None},
                             retries: 0..MaxRetries]]
    /\ sync \in [Res -> [status: SyncStatus, attempts: 0..MaxAttempts]]
    /\ janitor \in [pc: {"idle", "call", "abandon"}, row: Row \cup {None}]
    /\ hermes \in [pc: {"idle", "call", "fetch", "mark"}, res: Res \cup {None}]
    /\ applied \in SUBSET Res
    /\ sends \in [Row -> Nat]
    /\ crashes \in Nat

\* The type invariant in two halves.
LEMMA TypeHalves == TypeOK <=> BreakersType /\ TablesType
BY DEF TypeOK, BreakersType, TablesType, BreakerType

\* A queued write: a new pending row without retries, or nothing.
LEMMA EnqueueEffect ==
    ASSUME TablesType, NEW r \in Res, Enqueue(r)
    PROVE  /\ deferred' \in [Row -> [status: RowStatus, res: Res \cup {None},
                                     retries: 0..MaxRetries]]
           /\ \A d \in Row :
                 \/ deferred'[d] = deferred[d]
                 \/ /\ deferred[d].status = "none"
                    /\ deferred'[d] = [status |-> "pending", res |-> r,
                                       retries |-> 0]
BY BridgeAssumption DEF TablesType, Enqueue, RowStatus

-----------------------------------------------------------------------------
(* The parts of the invariant that do not speak of breakers.               *)

Tables == TablesType /\ InHand /\ RowsInOrder /\ ReplaysCounted
              /\ CompletedMeansApplied

tables == <<bridge, deferred, sync, janitor, hermes, applied, sends, crashes>>

\* The whole invariant is the breakers' types and the tables.
LEMMA InvariantHalves == BridgeInvariant <=> BreakersType /\ Tables
BY TypeHalves DEF BridgeInvariant, Tables

\* The invariant holds initially.
LEMMA InitInvariant == Init => BridgeInvariant
<1> SUFFICES ASSUME Init PROVE BridgeInvariant
  OBVIOUS
<1>1. /\ {Threshold, MaxRetries, MaxAttempts} \subseteq Nat \ {0}
      /\ None \notin Res \cup Row
  BY BridgeAssumption
<1>2. BreakersType
  BY <1>1 DEF Init, BreakersType, BreakerType, NewBreaker
<1>3. TablesType
  BY <1>1 DEF Init, TablesType, RowStatus, SyncStatus, JanitorIdle, HermesIdle
<1>4. InHand
  BY DEF Init, InHand, JanitorIdle, HermesIdle
<1>5. RowsInOrder
  BY <1>1 DEF Init, RowsInOrder
<1>6. ReplaysCounted
  BY DEF Init, ReplaysCounted, NotARetry, JanitorIdle
<1>7. CompletedMeansApplied
  BY DEF Init, CompletedMeansApplied
<1> QED
  BY <1>2, <1>3, <1>4, <1>5, <1>6, <1>7, InvariantHalves DEF Tables

-----------------------------------------------------------------------------
(* The webhook handler.                                                    *)

\* A queued write disturbs nothing but the row it fills.
LEMMA EnqueueKeepsTables ==
    ASSUME Tables, NEW r \in Res, Enqueue(r),
           UNCHANGED <<janitor, applied, sends, crashes>>
    PROVE  /\ janitor'.pc # "idle" =>
                 deferred'[janitor'.row] = deferred[janitor.row]
           /\ \A d \in Row : deferred'[d].status # "none" => deferred'[d].res \in Res
           /\ \A d \in Row : deferred'[d].status = "none" =>
                                deferred'[d].retries = 0
           /\ \A d \in Row : deferred'[d].status = "failed_final" =>
                                deferred'[d].retries = MaxRetries
           /\ \A d \in Row : deferred'[d].status = "completed" =>
                                deferred'[d].retries < MaxRetries
           /\ ReplaysCounted'
           /\ CompletedMeansApplied'
<1>1. /\ MaxRetries \in Nat \ {0}
      /\ None \notin Row
  BY BridgeAssumption
<1>2. \A d \in Row :
          \/ deferred'[d] = deferred[d]
          \/ /\ deferred[d].status = "none"
             /\ deferred'[d] = [status |-> "pending", res |-> r, retries |-> 0]
  BY EnqueueEffect DEF Tables
<1>3. janitor'.pc # "idle" => deferred'[janitor'.row] = deferred[janitor.row]
  BY <1>1, <1>2 DEF Tables, TablesType, InHand
<1>4. ReplaysCounted'
  <2> SUFFICES ASSUME NEW d \in Row
               PROVE  /\ deferred'[d].retries + NotARetry(d)' <= sends'[d]
                      /\ sends'[d] <= deferred'[d].retries + NotARetry(d)' + crashes'
    BY DEF ReplaysCounted
  <2>1. /\ deferred[d].retries + NotARetry(d) <= sends[d]
        /\ sends[d] <= deferred[d].retries + NotARetry(d) + crashes
    BY DEF Tables, ReplaysCounted
  <2>2. /\ deferred[d].retries \in Nat
        /\ sends[d] \in Nat
        /\ crashes \in Nat
    BY DEF Tables, TablesType
  <2>3. CASE deferred'[d] = deferred[d]
    BY <2>1, <2>3 DEF NotARetry
  <2>4. CASE /\ deferred[d].status = "none"
             /\ deferred'[d] = [status |-> "pending", res |-> r, retries |-> 0]
    <3>1. ~(janitor.pc = "call" /\ janitor.row = d)
      BY <2>4 DEF Tables, InHand
    <3>2. NotARetry(d) = 0 /\ NotARetry(d)' = 0
      BY <2>4, <3>1 DEF NotARetry
    <3>3. deferred'[d].retries = 0
      BY <2>4
    <3> QED
      BY <2>1, <2>2, <2>4, <3>2, <3>3 DEF Tables, RowsInOrder
  <2> QED
    BY <1>2, <2>3, <2>4
<1>5. CompletedMeansApplied'
  BY <1>2 DEF Tables, CompletedMeansApplied
<1>6. /\ \A d \in Row : deferred'[d].status # "none" => deferred'[d].res \in Res
      /\ \A d \in Row : deferred'[d].status = "none" => deferred'[d].retries = 0
      /\ \A d \in Row : deferred'[d].status = "failed_final" =>
                           deferred'[d].retries = MaxRetries
      /\ \A d \in Row : deferred'[d].status = "completed" =>
                           deferred'[d].retries < MaxRetries
  BY <1>2 DEF Tables, RowsInOrder
<1> QED
  BY <1>3, <1>4, <1>5, <1>6

\* The webhook handler's steps keep the tables in order.
LEMMA HandlerStep ==
    ASSUME Tables, NEW r \in Res, Handler(r)
    PROVE  Tables'
<1> USE BridgeAssumption
<1>1. CASE BridgeStart(r)
  <2>1. Enqueue(r)
    BY <1>1 DEF BridgeStart, Enqueue
  <2>2. UNCHANGED <<sync, janitor, hermes, applied, sends, crashes>>
    BY <1>1 DEF BridgeStart
  <2>3. bridge' \in [Res -> {"settled", "call", "queue", "sync", "done"}]
    BY <1>1 DEF BridgeStart, Continue, Tables, TablesType
  <2>4. TablesType'
    BY <2>1, <2>2, <2>3, EnqueueEffect DEF Tables, TablesType
  <2>5. \A q \in Res : bridge'[q] # "done" => sync'[q].status = "none"
    BY <1>1, <2>2 DEF BridgeStart, Continue, Tables, TablesType, RowsInOrder
  <2>6. InHand' /\ RowsInOrder'
    BY <2>1, <2>2, <2>5, EnqueueKeepsTables DEF Tables, InHand, RowsInOrder
  <2> QED
    BY <2>1, <2>2, <2>4, <2>6, EnqueueKeepsTables DEF Tables
<1>2. CASE BridgeReturn(r)
  <2>1. UNCHANGED <<deferred, sync, janitor, hermes, sends, crashes>>
    BY <1>2 DEF BridgeReturn
  <2>2. applied \subseteq applied' /\ applied' \in SUBSET Res
    BY <1>2 DEF BridgeReturn, MaybeApplied, Tables, TablesType
  <2>3. bridge' \in [Res -> {"settled", "call", "queue", "sync", "done"}]
    BY <1>2 DEF BridgeReturn, Continue, Tables, TablesType
  <2>4. TablesType'
    BY <2>1, <2>2, <2>3 DEF Tables, TablesType
  <2>5. \A q \in Res : bridge'[q] # "done" => sync'[q].status = "none"
    BY <1>2, <2>1 DEF BridgeReturn, Continue, Tables, TablesType, RowsInOrder
  <2>6. InHand' /\ RowsInOrder'
    BY <2>1, <2>5 DEF Tables, InHand, RowsInOrder
  <2>7. ReplaysCounted' /\ CompletedMeansApplied'
    BY <2>1, <2>2 DEF Tables, ReplaysCounted, NotARetry, CompletedMeansApplied
  <2> QED
    BY <2>4, <2>6, <2>7 DEF Tables
<1>3. CASE BridgeQueue(r)
  <2>1. Enqueue(r)
    BY <1>3 DEF BridgeQueue
  <2>2. UNCHANGED <<sync, janitor, hermes, applied, sends, crashes>>
    BY <1>3 DEF BridgeQueue
  <2>3. bridge' \in [Res -> {"settled", "call", "queue", "sync", "done"}]
    BY <1>3 DEF BridgeQueue, Continue, Tables, TablesType
  <2>4. TablesType'
    BY <2>1, <2>2, <2>3, EnqueueEffect DEF Tables, TablesType
  <2>5. \A q \in Res : bridge'[q] # "done" => sync'[q].status = "none"
    BY <1>3, <2>2 DEF BridgeQueue, Continue, Tables, TablesType, RowsInOrder
  <2>6. InHand' /\ RowsInOrder'
    BY <2>1, <2>2, <2>5, EnqueueKeepsTables DEF Tables, InHand, RowsInOrder
  <2> QED
    BY <2>1, <2>2, <2>4, <2>6, EnqueueKeepsTables DEF Tables
<1>4. CASE BridgeSync(r)
  <2>1. UNCHANGED <<deferred, janitor, hermes, applied, sends, crashes>>
    BY <1>4 DEF BridgeSync
  <2>2. /\ bridge[r] = "sync"
        /\ sync' = [sync EXCEPT ![r].status = "pending"]
        /\ bridge' = [bridge EXCEPT ![r] = "done"]
    BY <1>4 DEF BridgeSync, Continue
  <2>3. TablesType'
    BY <2>1, <2>2 DEF Tables, TablesType, SyncStatus
  <2>4. InHand'
    BY <2>1, <2>2 DEF Tables, TablesType, InHand
  <2>5. RowsInOrder'
    BY <2>1, <2>2 DEF Tables, TablesType, RowsInOrder
  <2>6. ReplaysCounted' /\ CompletedMeansApplied'
    BY <2>1 DEF Tables, ReplaysCounted, NotARetry, CompletedMeansApplied
  <2> QED
    BY <2>3, <2>4, <2>5, <2>6 DEF Tables
<1> QED
  BY <1>1, <1>2, <1>3, <1>4 DEF Handler

-----------------------------------------------------------------------------
(* The janitor.                                                            *)

\* Picking a row abandons it or starts one more replay.
LEMMA JanitorPickStep ==
    ASSUME Tables, NEW d \in Row, JanitorPick(d)
    PROVE  Tables'
<1> USE BridgeAssumption
<1>1. /\ janitor = JanitorIdle
      /\ deferred[d].status = "pending"
      /\ UNCHANGED <<bridge, sync, hermes, applied, crashes>>
  BY DEF JanitorPick
<1>2. /\ deferred[d].retries \in 0..MaxRetries
      /\ MaxRetries \in Nat
      /\ sends[d] \in Nat
      /\ crashes \in Nat
  BY DEF Tables, TablesType
<1>3. CASE /\ deferred[d].retries >= MaxRetries
           /\ deferred' = [deferred EXCEPT ![d].status = "failed_final"]
           /\ UNCHANGED <<janitor, sends>>
  <2>1. TablesType'
    BY <1>1, <1>3 DEF Tables, TablesType, RowStatus
  <2>2. InHand'
    BY <1>1, <1>3 DEF Tables, TablesType, InHand, JanitorIdle
  <2>3. RowsInOrder'
    <3>1. /\ deferred'[d].status = "failed_final"
          /\ deferred'[d].retries = MaxRetries
          /\ deferred'[d].res = deferred[d].res
          /\ \A e \in Row \ {d} : deferred'[e] = deferred[e]
      <4>1. deferred \in [Row -> [status: RowStatus, res: Res \cup {None},
                                     retries: 0..MaxRetries]]
        BY DEF Tables, TablesType
      <4>2. deferred[d].retries = MaxRetries
        BY <1>2, <1>3
      <4>3. deferred'[d] = [deferred[d] EXCEPT !.status = "failed_final"]
        BY <1>3, <4>1
      <4>4. \A e \in Row \ {d} : deferred'[e] = deferred[e]
        BY <1>3, <4>1
      <4> QED
        BY <4>1, <4>2, <4>3, <4>4
    <3> QED
      BY <1>1, <3>1 DEF Tables, RowsInOrder
  <2>4. ReplaysCounted' /\ CompletedMeansApplied'
    BY <1>1, <1>3 DEF Tables, TablesType, ReplaysCounted, NotARetry,
                      CompletedMeansApplied
  <2> QED
    BY <2>1, <2>2, <2>3, <2>4 DEF Tables
<1>4. CASE /\ deferred[d].retries < MaxRetries
           /\ janitor' = [pc |-> "call", row |-> d]
           /\ sends' = [sends EXCEPT ![d] = @ + 1]
           /\ UNCHANGED deferred
  <2>1. TablesType'
    BY <1>1, <1>4 DEF Tables, TablesType
  <2>2. InHand'
    BY <1>1, <1>4 DEF Tables, TablesType, InHand, JanitorIdle
  <2>3. RowsInOrder' /\ CompletedMeansApplied'
    BY <1>1, <1>4 DEF Tables, RowsInOrder, CompletedMeansApplied
  <2>4. ReplaysCounted'
    <3> SUFFICES ASSUME NEW e \in Row
                 PROVE  /\ deferred[e].retries + NotARetry(e)' <= sends'[e]
                        /\ sends'[e] <= deferred[e].retries + NotARetry(e)' + crashes
      BY <1>1, <1>4 DEF ReplaysCounted
    <3>1. /\ deferred[e].retries + NotARetry(e) <= sends[e]
          /\ sends[e] <= deferred[e].retries + NotARetry(e) + crashes
      BY DEF Tables, ReplaysCounted
    <3>2. CASE e = d
      <4>1. NotARetry(d) = 0 /\ NotARetry(d)' = 1
        BY <1>1, <1>4 DEF NotARetry, JanitorIdle
      <4>2. sends'[d] = sends[d] + 1
        BY <1>4 DEF Tables, TablesType
      <4> QED
        BY <1>2, <3>1, <3>2, <4>1, <4>2
    <3>3. CASE e # d
      <4>1. NotARetry(e)' = NotARetry(e)
        BY <1>1, <1>4, <3>3 DEF NotARetry, JanitorIdle
      <4>2. sends'[e] = sends[e]
        BY <1>4, <3>3 DEF Tables, TablesType
      <4> QED
        BY <3>1, <4>1, <4>2
    <3> QED
      BY <3>2, <3>3
  <2> QED
    BY <2>1, <2>2, <2>3, <2>4 DEF Tables
<1> QED
  BY <1>3, <1>4 DEF JanitorPick

\* The answer completes the row, or turns the replay into one more retry.
LEMMA JanitorReturnStep ==
    ASSUME Tables, JanitorReturn
    PROVE  Tables'
<1> USE BridgeAssumption
<1>0. PICK d : d = janitor.row
  OBVIOUS
<1>1. /\ janitor.pc = "call"
      /\ UNCHANGED <<bridge, sync, hermes, sends, crashes>>
  BY DEF JanitorReturn
<1>2. /\ d \in Row /\ d = janitor.row
      /\ deferred[d].status = "pending"
      /\ deferred[d].retries < MaxRetries
      /\ deferred[d].res \in Res
      /\ deferred[d].retries \in Nat
      /\ MaxRetries \in Nat
      /\ janitor \in [pc: {"idle", "call", "abandon"}, row: Row \cup {None}]
  BY <1>0, <1>1 DEF Tables, TablesType, InHand, RowsInOrder
<1>3. applied \subseteq applied' /\ applied' \in SUBSET Res
  BY <1>2 DEF JanitorReturn, MaybeApplied, Tables, TablesType
<1>4. CASE /\ applied' = applied \cup {deferred[d].res}
           /\ deferred' = [deferred EXCEPT ![d].status = "completed"]
           /\ janitor' = JanitorIdle
  <2>0. /\ deferred' \in [Row -> [status: RowStatus, res: Res \cup {None},
                                 retries: 0..MaxRetries]]
        /\ janitor' \in [pc: {"idle", "call", "abandon"}, row: Row \cup {None}]
    BY <1>2, <1>4 DEF Tables, TablesType, RowStatus, JanitorIdle
  <2>1. TablesType'
    BY <1>1, <1>3, <2>0 DEF Tables, TablesType
  <2>2. InHand'
    BY <1>1, <1>4 DEF Tables, InHand, JanitorIdle
  <2>3. RowsInOrder'
    BY <1>1, <1>2, <1>4 DEF Tables, TablesType, RowsInOrder
  <2>4. ReplaysCounted'
    <3>1. \A e \in Row : /\ deferred'[e].retries = deferred[e].retries
                         /\ NotARetry(e)' = NotARetry(e)
      BY <1>1, <1>2, <1>4 DEF Tables, TablesType, NotARetry, JanitorIdle
    <3> QED
      BY <1>1, <3>1 DEF Tables, ReplaysCounted
  <2>5. CompletedMeansApplied'
    BY <1>2, <1>4 DEF Tables, TablesType, CompletedMeansApplied
  <2> QED
    BY <2>1, <2>2, <2>3, <2>4, <2>5 DEF Tables
<1>5. CASE /\ deferred' = [deferred EXCEPT ![d].retries = @ + 1]
           /\ janitor' = IF deferred[d].retries + 1 >= MaxRetries
                         THEN [janitor EXCEPT !.pc = "abandon"]
                         ELSE JanitorIdle
  <2>1. deferred[d].retries + 1 \in 0..MaxRetries
    BY <1>2
  <2>2. janitor' \in [pc: {"idle", "call", "abandon"}, row: Row \cup {None}]
    BY <1>2, <1>5 DEF JanitorIdle
  <2>9. deferred' \in [Row -> [status: RowStatus, res: Res \cup {None},
                              retries: 0..MaxRetries]]
    BY <1>2, <1>5, <2>1 DEF Tables, TablesType
  <2>3. TablesType'
    BY <1>1, <1>3, <2>2, <2>9 DEF Tables, TablesType
  <2>4. /\ deferred'[d].status = "pending"
        /\ deferred'[d].retries = deferred[d].retries + 1
        /\ deferred'[d].res = deferred[d].res
        /\ \A e \in Row \ {d} : deferred'[e] = deferred[e]
    BY <1>2, <1>5 DEF Tables, TablesType
  <2>5. InHand'
    <3>1. CASE deferred[d].retries + 1 >= MaxRetries
      <4>1. janitor'.pc = "abandon" /\ janitor'.row = d
        BY <1>2, <1>5, <3>1
      <4>2. deferred'[d].retries = MaxRetries
        BY <1>2, <2>4, <3>1
      <4> QED
        BY <1>1, <1>2, <2>4, <4>1, <4>2 DEF Tables, InHand
    <3>2. CASE ~(deferred[d].retries + 1 >= MaxRetries)
      BY <1>1, <1>5, <3>2 DEF Tables, InHand, JanitorIdle
    <3> QED
      BY <3>1, <3>2
  <2>6. RowsInOrder'
    BY <1>1, <1>2, <2>4 DEF Tables, RowsInOrder
  <2>7. ReplaysCounted'
    <3> SUFFICES ASSUME NEW e \in Row
                 PROVE  /\ deferred'[e].retries + NotARetry(e)' <= sends[e]
                        /\ sends[e] <= deferred'[e].retries + NotARetry(e)' + crashes
      BY <1>1 DEF ReplaysCounted
    <3>1. /\ deferred[e].retries + NotARetry(e) <= sends[e]
          /\ sends[e] <= deferred[e].retries + NotARetry(e) + crashes
      BY DEF Tables, ReplaysCounted
    <3>2. janitor'.pc # "call"
      BY <1>2, <1>5 DEF JanitorIdle
    <3>3. CASE e = d
      <4>1. NotARetry(d) = 1 /\ NotARetry(d)' = 0
        BY <1>1, <1>2, <2>4, <3>2 DEF NotARetry
      <4> QED
        BY <1>2, <2>4, <3>1, <3>3, <4>1
    <3>4. CASE e # d
      <4>1. deferred'[e] = deferred[e]
        BY <2>4, <3>4
      <4>2. NotARetry(e)' = NotARetry(e)
        BY <1>2, <3>2, <3>4, <4>1 DEF NotARetry
      <4> QED
        BY <3>1, <4>1, <4>2
    <3> QED
      BY <3>3, <3>4
  <2>8. CompletedMeansApplied'
    BY <1>2, <1>3, <2>4 DEF Tables, CompletedMeansApplied
  <2> QED
    BY <2>3, <2>5, <2>6, <2>7, <2>8 DEF Tables
<1> QED
  BY <1>0, <1>4, <1>5 DEF JanitorReturn

\* The second commit of a row that is out of retries.
LEMMA JanitorAbandonStep ==
    ASSUME Tables, JanitorAbandon
    PROVE  Tables'
<1> USE BridgeAssumption
<1>0. PICK d : d = janitor.row
  OBVIOUS
<1>1. /\ janitor.pc = "abandon"
      /\ deferred' = [deferred EXCEPT ![d].status = "failed_final"]
      /\ janitor' = JanitorIdle
      /\ UNCHANGED <<bridge, sync, hermes, applied, sends, crashes>>
  BY <1>0 DEF JanitorAbandon
<1>2. /\ d \in Row /\ d = janitor.row
      /\ deferred[d].status = "pending"
      /\ deferred[d].retries = MaxRetries
  BY <1>0, <1>1 DEF Tables, TablesType, InHand
<1>3. TablesType'
  <2>1. deferred' \in [Row -> [status: RowStatus, res: Res \cup {None},
                              retries: 0..MaxRetries]]
    BY <1>1, <1>2 DEF Tables, TablesType, RowStatus
  <2>2. janitor' \in [pc: {"idle", "call", "abandon"}, row: Row \cup {None}]
    BY <1>1 DEF JanitorIdle
  <2> QED
    BY <1>1, <2>1, <2>2 DEF Tables, TablesType
<1>4. InHand'
  BY <1>1 DEF Tables, InHand, JanitorIdle
<1>5. RowsInOrder'
  BY <1>1, <1>2 DEF Tables, TablesType, RowsInOrder
<1>6. ReplaysCounted'
  <2>1. \A e \in Row : /\ deferred'[e].retries = deferred[e].retries
                       /\ NotARetry(e)' = NotARetry(e)
    BY <1>1, <1>2 DEF Tables, TablesType, NotARetry, JanitorIdle
  <2> QED
    BY <1>1, <2>1 DEF Tables, ReplaysCounted
<1>7. CompletedMeansApplied'
  BY <1>1 DEF Tables, TablesType, CompletedMeansApplied
<1> QED
  BY <1>3, <1>4, <1>5, <1>6, <1>7 DEF Tables

-----------------------------------------------------------------------------
(* Hermes.                                                                 *)

\* Hermes picks a row: a call, or another deferred write.
LEMMA HermesPickStep ==
    ASSUME Tables, NEW r \in Res, HermesPick(r)
    PROVE  Tables'
<1> USE BridgeAssumption
<1>1. /\ Enqueue(r)
      /\ sync[r].status = "pending"
      /\ \E pc \in {"call", "mark"} : hermes' = [pc |-> pc, res |-> r]
      /\ UNCHANGED <<bridge, sync, janitor, applied, sends, crashes>>
  BY DEF HermesPick, Enqueue
<1>2. TablesType'
  <2>1. deferred' \in [Row -> [status: RowStatus, res: Res \cup {None},
                              retries: 0..MaxRetries]]
    BY <1>1, EnqueueEffect DEF Tables
  <2>2. hermes' \in [pc: {"idle", "call", "fetch", "mark"}, res: Res \cup {None}]
    BY <1>1
  <2> QED
    BY <1>1, <2>1, <2>2 DEF Tables, TablesType
<1>3. InHand'
  BY <1>1, EnqueueKeepsTables DEF Tables, InHand
<1>4. RowsInOrder'
  BY <1>1, EnqueueKeepsTables DEF Tables, RowsInOrder
<1> QED
  BY <1>1, <1>2, <1>3, <1>4, EnqueueKeepsTables DEF Tables

\* The rest of Hermes touches only its own row and what Streamline knows.
LEMMA HermesRestStep ==
    ASSUME Tables, HermesStep
    PROVE  Tables'
<1> USE BridgeAssumption
<1> DEFINE r == hermes.res
<1>1. /\ hermes.pc # "idle"
      /\ UNCHANGED <<bridge, deferred, janitor, sends, crashes>>
  BY DEF HermesStep, HermesReturn, HermesFetch, HermesMark
<1>2. /\ r \in Res
      /\ sync[r].status = "pending"
      /\ sync[r].attempts \in Nat
      /\ sync[r].attempts < MaxAttempts
      /\ MaxAttempts \in Nat
      /\ bridge[r] = "done"
      /\ hermes \in [pc: {"idle", "call", "fetch", "mark"}, res: Res \cup {None}]
  BY <1>1 DEF Tables, TablesType, InHand, RowsInOrder
<1>3. applied \subseteq applied' /\ applied' \in SUBSET Res
  BY <1>2 DEF HermesStep, HermesReturn, HermesFetch, HermesMark, MaybeApplied,
              Tables, TablesType
<1>4. ReplaysCounted' /\ CompletedMeansApplied'
  BY <1>1, <1>3 DEF Tables, ReplaysCounted, NotARetry, CompletedMeansApplied
<1>5. CASE /\ UNCHANGED sync
           /\ \E pc \in {"fetch", "mark"} : hermes' = [hermes EXCEPT !.pc = pc]
  <2>1. hermes'.pc # "idle" /\ hermes'.res = r
    BY <1>2, <1>5
  <2>2. TablesType'
    BY <1>1, <1>3, <1>5 DEF Tables, TablesType
  <2>3. InHand'
    BY <1>1, <1>2, <1>5, <2>1 DEF Tables, InHand
  <2>4. RowsInOrder'
    BY <1>1, <1>5 DEF Tables, RowsInOrder
  <2> QED
    BY <1>4, <2>2, <2>3, <2>4 DEF Tables
<1>6. CASE /\ \/ sync' = [sync EXCEPT ![r] =
                            [status |-> IF @.attempts + 1 >= MaxAttempts
                                        THEN "failed" ELSE "pending",
                             attempts |-> @.attempts + 1]]
              \/ sync' = [sync EXCEPT ![r].status = "synced"]
           /\ hermes' = HermesIdle
  <2>1. sync' \in [Res -> [status: SyncStatus, attempts: 0..MaxAttempts]]
    BY <1>2, <1>6 DEF Tables, TablesType, SyncStatus
  <2>2. TablesType'
    BY <1>1, <1>3, <1>6, <2>1 DEF Tables, TablesType, HermesIdle
  <2>3. InHand'
    BY <1>1, <1>6 DEF Tables, InHand, HermesIdle
  <2>4. \A q \in Res : sync'[q].status \in {"none", "pending"} =>
                          sync'[q].attempts < MaxAttempts
    BY <1>2, <1>6 DEF Tables, TablesType, RowsInOrder
  <2>5. \A q \in Res : bridge'[q] # "done" => sync'[q].status = "none"
    BY <1>1, <1>2, <1>6 DEF Tables, TablesType, RowsInOrder
  <2>6. RowsInOrder'
    BY <1>1, <2>4, <2>5 DEF Tables, RowsInOrder
  <2> QED
    BY <1>4, <2>2, <2>3, <2>6 DEF Tables
<1>7. CASE HermesReturn
  BY <1>5, <1>6, <1>7 DEF HermesReturn
<1>8. CASE HermesFetch
  BY <1>5, <1>8 DEF HermesFetch
<1>9. CASE HermesMark
  BY <1>6, <1>9 DEF HermesMark
<1> QED
  BY <1>7, <1>8, <1>9 DEF HermesStep

-----------------------------------------------------------------------------
(* Restarts.                                                               *)

\* A restart of the API process loses its handlers, not the tables.
LEMMA CrashWebStep ==
    ASSUME Tables, CrashWeb
    PROVE  Tables'
<1> USE BridgeAssumption
<1>1. /\ UNCHANGED <<deferred, sync, janitor, hermes, sends>>
      /\ crashes' = crashes + 1
      /\ bridge' = [r \in Res |-> IF bridge[r] = "settled" THEN "settled" ELSE "done"]
  BY DEF CrashWeb
<1>2. applied \subseteq applied' /\ applied' \in SUBSET Res
  BY DEF CrashWeb, Tables, TablesType
<1>3. TablesType'
  BY <1>1, <1>2 DEF Tables, TablesType
<1>4. InHand'
  BY <1>1 DEF Tables, InHand
<1>5. RowsInOrder'
  BY <1>1 DEF Tables, TablesType, RowsInOrder
<1>6. CompletedMeansApplied'
  BY <1>1, <1>2 DEF Tables, CompletedMeansApplied
<1>7. ReplaysCounted'
  <2> SUFFICES ASSUME NEW d \in Row
               PROVE  /\ deferred[d].retries + NotARetry(d)' <= sends[d]
                      /\ sends[d] <= deferred[d].retries + NotARetry(d)' + crashes'
    BY <1>1 DEF ReplaysCounted
  <2>1. /\ deferred[d].retries + NotARetry(d) <= sends[d]
        /\ sends[d] <= deferred[d].retries + NotARetry(d) + crashes
        /\ deferred[d].retries \in Nat /\ sends[d] \in Nat /\ crashes \in Nat
    BY DEF Tables, TablesType, ReplaysCounted
  <2>2. NotARetry(d)' = NotARetry(d) /\ NotARetry(d) \in {0, 1}
    BY <1>1 DEF NotARetry
  <2> QED
    BY <1>1, <2>1, <2>2
<1> QED
  BY <1>3, <1>4, <1>5, <1>6, <1>7 DEF Tables

\* A restart of the worker forgets the replay in flight: it was started and
\* never counted as a retry, which is what the crash count pays for.
LEMMA CrashDaemonStep ==
    ASSUME Tables, CrashDaemon
    PROVE  Tables'
<1> USE BridgeAssumption
<1>1. /\ UNCHANGED <<bridge, deferred, sync, sends>>
      /\ crashes' = crashes + 1
      /\ janitor' = JanitorIdle
      /\ hermes' = HermesIdle
  BY DEF CrashDaemon
<1>2. applied \subseteq applied' /\ applied' \in SUBSET Res
  BY DEF CrashDaemon, Tables, TablesType
<1>3. TablesType'
  BY <1>1, <1>2 DEF Tables, TablesType, JanitorIdle, HermesIdle
<1>4. InHand'
  BY <1>1 DEF InHand, JanitorIdle, HermesIdle
<1>5. RowsInOrder'
  BY <1>1 DEF Tables, RowsInOrder
<1>6. CompletedMeansApplied'
  BY <1>1, <1>2 DEF Tables, CompletedMeansApplied
<1>7. ReplaysCounted'
  <2> SUFFICES ASSUME NEW d \in Row
               PROVE  /\ deferred[d].retries + NotARetry(d)' <= sends[d]
                      /\ sends[d] <= deferred[d].retries + NotARetry(d)' + crashes'
    BY <1>1 DEF ReplaysCounted
  <2>1. /\ deferred[d].retries + NotARetry(d) <= sends[d]
        /\ sends[d] <= deferred[d].retries + NotARetry(d) + crashes
        /\ deferred[d].retries \in Nat /\ sends[d] \in Nat /\ crashes \in Nat
    BY DEF Tables, TablesType, ReplaysCounted
  <2>2. CASE deferred[d].status = "completed"
    <3>1. NotARetry(d)' = 1 /\ NotARetry(d) = 1
      BY <1>1, <2>2 DEF NotARetry
    <3> QED
      BY <1>1, <2>1, <3>1
  <2>3. CASE deferred[d].status # "completed"
    <3>1. NotARetry(d)' = 0 /\ NotARetry(d) \in {0, 1}
      BY <1>1, <2>3 DEF NotARetry, JanitorIdle
    <3> QED
      BY <1>1, <2>1, <3>1
  <2> QED
    BY <2>2, <2>3
<1> QED
  BY <1>3, <1>4, <1>5, <1>6, <1>7 DEF Tables

-----------------------------------------------------------------------------
(* The theorems.                                                           *)

\* Steps that move no table.
LEMMA TablesUnchanged ==
    ASSUME Tables, UNCHANGED tables
    PROVE  Tables'
BY DEF Tables, tables, TablesType, InHand, RowsInOrder, ReplaysCounted,
       NotARetry, CompletedMeansApplied

\* Every step keeps the breakers well typed.
LEMMA BreakersStep ==
    ASSUME BreakersType, [Next]_vars
    PROVE  BreakersType'
<1>1. Web \in Proc /\ Daemon \in Proc
  BY DEF Proc
<1>2. CASE UNCHANGED <<breaker, streak>>
  BY <1>2 DEF BreakersType
<1>3. CASE \E p \in Proc : Succeeds(p) \/ Fails(p)
  BY <1>3, CallType
<1>4. CASE \E p \in Proc : CoolDown(p)
  BY <1>4 DEF CoolDown, BreakersType, BreakerType
<1>5. CASE CrashWeb \/ CrashDaemon
  <2>1. NewBreaker \in BreakerType /\ 0 \in (-2)..Threshold
    BY BridgeAssumption DEF NewBreaker, BreakerType
  <2> QED
    BY <1>5, <2>1 DEF CrashWeb, CrashDaemon, BreakersType
<1>6. ASSUME NEW r \in Res, Handler(r) \/ HermesPick(r)
      PROVE  BreakersType'
  BY <1>1, <1>2, <1>3, <1>6
     DEF Handler, BridgeStart, BridgeReturn, BridgeQueue, BridgeSync, HermesPick
<1>7. ASSUME NEW d \in Row, JanitorPick(d)
      PROVE  BreakersType'
  BY <1>2, <1>7 DEF JanitorPick
<1>8. CASE JanitorStep \/ HermesStep
  BY <1>1, <1>2, <1>3, <1>8
     DEF JanitorStep, JanitorReturn, JanitorAbandon, HermesStep, HermesReturn,
         HermesFetch, HermesMark
<1>9. ASSUME NEW p \in Proc, OtherCall(p)
      PROVE  BreakersType'
  BY <1>3, <1>9 DEF OtherCall
<1> QED
  BY <1>2, <1>4, <1>5, <1>6, <1>7, <1>8, <1>9 DEF Next, vars

\* Every step keeps the tables in order.
LEMMA TablesStep ==
    ASSUME Tables, [Next]_vars
    PROVE  Tables'
<1>1. ASSUME NEW r \in Res, Handler(r) \/ HermesPick(r)
      PROVE  Tables'
  BY <1>1, HandlerStep, HermesPickStep
<1>2. ASSUME NEW d \in Row, JanitorPick(d)
      PROVE  Tables'
  BY <1>2, JanitorPickStep
<1>3. CASE JanitorStep
  BY <1>3, JanitorReturnStep, JanitorAbandonStep DEF JanitorStep
<1>4. CASE HermesStep
  BY <1>4, HermesRestStep
<1>5. ASSUME NEW p \in Proc, CoolDown(p) \/ OtherCall(p)
      PROVE  Tables'
  <2>1. UNCHANGED tables
    BY <1>5 DEF CoolDown, OtherCall, tables
  <2> QED
    BY <2>1, TablesUnchanged
<1>6. CASE CrashWeb
  BY <1>6, CrashWebStep
<1>7. CASE CrashDaemon
  BY <1>7, CrashDaemonStep
<1>8. CASE UNCHANGED vars
  <2>1. UNCHANGED tables
    BY <1>8 DEF vars, tables
  <2> QED
    BY <2>1, TablesUnchanged
<1> QED
  BY <1>1, <1>2, <1>3, <1>4, <1>5, <1>6, <1>7, <1>8 DEF Next

\* The inductive invariant of the bridge: rows in hand are pending, counters
\* add up, completed rows have been applied.
THEOREM BridgeIsInvariant == Spec => []BridgeInvariant
<1>1. BridgeInvariant /\ [Next]_vars => BridgeInvariant'
  <2> SUFFICES ASSUME BridgeInvariant, [Next]_vars
               PROVE  BridgeInvariant'
    OBVIOUS
  <2>1. BreakersType' /\ Tables'
    BY InvariantHalves, BreakersStep, TablesStep
  <2>2. BridgeInvariant' <=> BreakersType' /\ Tables'
    BY InvariantHalves, PTL
  <2> QED
    BY <2>1, <2>2
<1> QED
  BY <1>1, InitInvariant, PTL DEF Spec

\* Every reachable state of the bridge is well typed: in particular no retry
\* or attempt counter passes its limit.
THEOREM BridgeTypeCorrect == Spec => []TypeOK
<1>1. BridgeInvariant => TypeOK
  BY DEF BridgeInvariant
<1> QED
  BY <1>1, BridgeIsInvariant, PTL

\* A deferred write marked completed has reached Streamline.
THEOREM CompletedReachedStreamline == Spec => []CompletedMeansApplied
<1>1. BridgeInvariant => CompletedMeansApplied
  BY DEF BridgeInvariant
<1> QED
  BY <1>1, BridgeIsInvariant, PTL

\* A write is given up after MaxRetries real replays, and each restart of the
\* worker costs at most one replay more.
THEOREM GivenUpTheorem == Spec => []GivenUpAfterRealReplays
<1>1. BridgeInvariant => GivenUpAfterRealReplays
  <2> SUFFICES ASSUME BridgeInvariant, NEW d \in Row
               PROVE  /\ deferred[d].status = "failed_final" => sends[d] >= MaxRetries
                      /\ sends[d] <= MaxRetries + crashes
    BY DEF GivenUpAfterRealReplays
  <2>1. /\ deferred[d].retries \in 0..MaxRetries
        /\ sends[d] \in Nat /\ crashes \in Nat /\ MaxRetries \in Nat
    BY BridgeAssumption DEF BridgeInvariant, TypeOK
  <2>2. /\ deferred[d].retries + NotARetry(d) <= sends[d]
        /\ sends[d] <= deferred[d].retries + NotARetry(d) + crashes
    BY DEF BridgeInvariant, ReplaysCounted
  <2>3. \/ NotARetry(d) = 0
        \/ NotARetry(d) = 1 /\ deferred[d].retries < MaxRetries
    BY DEF BridgeInvariant, NotARetry, InHand, RowsInOrder
  <2>4. deferred[d].status = "failed_final" => deferred[d].retries = MaxRetries
    BY DEF BridgeInvariant, RowsInOrder
  <2> QED
    BY <2>1, <2>2, <2>3, <2>4
<1> QED
  BY <1>1, BridgeIsInvariant, PTL

-----------------------------------------------------------------------------
(* When a circuit changes.                                                 *)

\* A circuit opens only on the last of Threshold failures in a row, and nothing but a
\* restart closes it: past that point its count no longer says when it refuses calls
\* (circuit_breaker.py:75-113).
CircuitChanges ==
    [][\A p \in Proc : breaker'[p].open # breaker[p].open =>
          IF breaker'[p].open THEN streak'[p] = Threshold ELSE crashes' = crashes + 1]_vars

\* While a circuit is closed its count is the length of the run of failures.
CountsRuns ==
    \A p \in Proc : ~breaker[p].open => /\ streak[p] <= 0 => breaker[p].fails = 0
                                        /\ streak[p] > 0 => breaker[p].fails = streak[p]

\* What a step does to a process's circuit.
LEMMA CircuitSteps ==
    ASSUME [Next]_vars
    PROVE  \/ UNCHANGED <<breaker, streak>>
           \/ \E p \in Proc : Succeeds(p) \/ Fails(p)
           \/ \E p \in Proc : CoolDown(p)
           \/ \E p \in Proc : /\ breaker' = [breaker EXCEPT ![p] = NewBreaker]
                              /\ streak' = [streak EXCEPT ![p] = 0]
                              /\ crashes' = crashes + 1
<1> DEFINE Goal == \/ UNCHANGED <<breaker, streak>>
                   \/ \E p \in Proc : Succeeds(p) \/ Fails(p)
                   \/ \E p \in Proc : CoolDown(p)
                   \/ \E p \in Proc : /\ breaker' = [breaker EXCEPT ![p] = NewBreaker]
                                      /\ streak' = [streak EXCEPT ![p] = 0]
                                      /\ crashes' = crashes + 1
<1>1. Web \in Proc /\ Daemon \in Proc
  BY DEF Proc
<1>2. CASE CrashWeb \/ CrashDaemon
  BY <1>1, <1>2 DEF CrashWeb, CrashDaemon
<1>3. ASSUME NEW r \in Res, Handler(r) \/ HermesPick(r) PROVE Goal
  BY <1>1, <1>3
     DEF Handler, BridgeStart, BridgeReturn, BridgeQueue, BridgeSync, HermesPick
<1>4. ASSUME NEW d \in Row, JanitorPick(d) PROVE Goal
  BY <1>4 DEF JanitorPick
<1>5. CASE JanitorStep \/ HermesStep
  BY <1>1, <1>5
     DEF JanitorStep, JanitorReturn, JanitorAbandon, HermesStep, HermesReturn,
         HermesFetch, HermesMark
<1>6. ASSUME NEW p \in Proc, CoolDown(p) \/ OtherCall(p) PROVE Goal
  BY <1>6 DEF OtherCall
<1> QED
  BY <1>2, <1>3, <1>4, <1>5, <1>6 DEF Next, vars

\* One failure more, of a breaker that counted the run so far.
LEMMA FailureCounted ==
    ASSUME BreakersType, CountsRuns, NEW p \in Proc, Fails(p)
    PROVE  /\ breaker[p].open => breaker'[p].open
           /\ ~breaker[p].open =>
                 /\ streak'[p] > 0 /\ breaker'[p].fails = streak'[p]
                 /\ breaker'[p].open <=> streak'[p] = Threshold
           /\ \A q \in Proc \ {p} : breaker'[q] = breaker[q] /\ streak'[q] = streak[q]
<1> DEFINE b == breaker[p]
           n == UpTo(b.fails + 1, Threshold)
<1>1. Threshold \in Nat \ {0} /\ b \in BreakerType /\ streak[p] \in (-2)..Threshold
  BY BridgeAssumption DEF BreakersType
<1>2. breaker' = [breaker EXCEPT ![p] = OnFailure(b)]
  BY DEF Fails
<1>3. breaker'[p] = OnFailure(b) /\ \A q \in Proc \ {p} : breaker'[q] = breaker[q]
  BY <1>2 DEF BreakersType
<1>4. /\ streak'[p] = IF streak[p] < 0 THEN 1 ELSE UpTo(streak[p] + 1, Threshold)
      /\ \A q \in Proc \ {p} : streak'[q] = streak[q]
  BY DEF Fails, BreakersType
<1>5. /\ breaker'[p].open <=> b.open \/ n = Threshold
      /\ breaker'[p].fails = n
  <2> DEFINE x == b.open \/ n = Threshold
  <2>1. breaker'[p] = [open |-> x, cooled |-> FALSE, fails |-> n]
    BY <1>3 DEF OnFailure
  <2> HIDE DEF x, n
  <2>2. breaker'[p].open = x /\ breaker'[p].fails = n
    BY <2>1
  <2> QED
    BY <2>2 DEF x
<1>6. ASSUME ~b.open
      PROVE  streak'[p] > 0 /\ n = streak'[p]
  <2>1. /\ streak[p] <= 0 => b.fails = 0
        /\ streak[p] > 0 => b.fails = streak[p]
    BY <1>6 DEF CountsRuns
  <2>2. b.fails \in 0..Threshold
    BY <1>1 DEF BreakerType
  <2> HIDE DEF b
  <2> QED
    BY <1>1, <1>4, <2>1, <2>2 DEF UpTo
<1> QED
  BY <1>3, <1>4, <1>5, <1>6

\* The count follows the run, and the circuit changes as it should.
LEMMA CircuitStep ==
    ASSUME BreakersType, CountsRuns, [Next]_vars
    PROVE  /\ CountsRuns'
           /\ \A p \in Proc : breaker'[p].open # breaker[p].open =>
                 IF breaker'[p].open THEN streak'[p] = Threshold ELSE crashes' = crashes + 1
<1> DEFINE Changes == \A p \in Proc : breaker'[p].open # breaker[p].open =>
                 IF breaker'[p].open THEN streak'[p] = Threshold ELSE crashes' = crashes + 1
<1>1. CASE UNCHANGED <<breaker, streak>>
  BY <1>1 DEF CountsRuns
<1>2. ASSUME NEW p \in Proc, Succeeds(p) PROVE CountsRuns' /\ Changes
  <2>1. /\ breaker'[p] = [breaker[p] EXCEPT !.fails = 0]
        /\ \A q \in Proc \ {p} : breaker'[q] = breaker[q] /\ streak'[q] = streak[q]
    BY <1>2 DEF Succeeds, OnSuccess, BreakersType
  <2>2. breaker'[p].fails = 0 /\ (breaker'[p].open <=> breaker[p].open)
    BY <2>1 DEF BreakersType, BreakerType
  <2>3. streak'[p] \in {-1, -2}
    BY <1>2 DEF Succeeds, BreakersType
  <2>4. ASSUME NEW q \in Proc, ~breaker'[q].open
        PROVE  /\ streak'[q] <= 0 => breaker'[q].fails = 0
               /\ streak'[q] > 0 => breaker'[q].fails = streak'[q]
    <3>1. CASE q = p
      <4>1. ~(streak'[p] > 0)
        BY <2>3
      <4> QED
        BY <2>2, <3>1, <4>1
    <3>2. CASE q # p
      BY <2>1, <2>4, <3>2 DEF CountsRuns
    <3> QED
      BY <3>1, <3>2
  <2>5. \A q \in Proc : breaker'[q].open <=> breaker[q].open
    BY <2>1, <2>2
  <2>6. \A q \in Proc : breaker'[q] \in BreakerType /\ breaker[q] \in BreakerType
    BY <1>2, CallType DEF BreakersType
  <2>7. \A q \in Proc : breaker'[q].open = breaker[q].open
    BY <2>5, <2>6 DEF BreakerType
  <2> QED
    BY <2>4, <2>7 DEF CountsRuns
<1>3. ASSUME NEW p \in Proc, Fails(p) PROVE CountsRuns' /\ Changes
  <2>1. \A q \in Proc : breaker'[q] \in BreakerType /\ breaker[q] \in BreakerType
    BY <1>3, CallType DEF BreakersType
  <2>2. \A q \in Proc : breaker'[q].open \in BOOLEAN /\ breaker[q].open \in BOOLEAN
    BY <2>1 DEF BreakerType
  <2>3. streak'[p] \in Int
    BY <1>3, CallType DEF BreakersType
  <2>4. ASSUME NEW q \in Proc, ~breaker'[q].open
        PROVE  /\ streak'[q] <= 0 => breaker'[q].fails = 0
               /\ streak'[q] > 0 => breaker'[q].fails = streak'[q]
    <3>1. CASE q = p
      <4>1. streak'[p] > 0 /\ breaker'[p].fails = streak'[p]
        BY <1>3, <2>4, <3>1, FailureCounted
      <4> QED
        BY <2>3, <3>1, <4>1
    <3>2. CASE q # p
      <4>1. breaker'[q] = breaker[q] /\ streak'[q] = streak[q]
        BY <1>3, <3>2, FailureCounted
      <4> QED
        BY <2>4, <4>1 DEF CountsRuns
    <3> QED
      BY <3>1, <3>2
  <2> QED
    BY <1>3, <2>2, <2>4, FailureCounted DEF CountsRuns
<1>4. ASSUME NEW p \in Proc, CoolDown(p) PROVE CountsRuns' /\ Changes
  <2>1. /\ breaker'[p] = [breaker[p] EXCEPT !.cooled = TRUE]
        /\ \A q \in Proc \ {p} : breaker'[q] = breaker[q]
        /\ streak' = streak
    BY <1>4 DEF CoolDown, BreakersType
  <2>2. breaker'[p].fails = breaker[p].fails /\ breaker'[p].open = breaker[p].open
    BY <2>1 DEF BreakersType, BreakerType
  <2> QED
    BY <2>1, <2>2 DEF CountsRuns
<1>5. ASSUME NEW p \in Proc, breaker' = [breaker EXCEPT ![p] = NewBreaker],
             streak' = [streak EXCEPT ![p] = 0], crashes' = crashes + 1
      PROVE  CountsRuns' /\ Changes
  <2>1. /\ breaker'[p] = NewBreaker /\ streak'[p] = 0
        /\ \A q \in Proc \ {p} : breaker'[q] = breaker[q] /\ streak'[q] = streak[q]
    BY <1>5 DEF BreakersType
  <2>2. ~breaker'[p].open /\ breaker'[p].fails = 0
    BY <2>1 DEF NewBreaker
  <2> QED
    BY <1>5, <2>1, <2>2 DEF CountsRuns
<1> QED
  BY <1>1, <1>2, <1>3, <1>4, <1>5, CircuitSteps

\* What the breaker does guarantee, where the documented claim fails: it first opens
\* after Threshold failures in a row.
THEOREM CircuitsOpenOnRuns == Spec => CircuitChanges
<1>1. Init => CountsRuns
  BY DEF Init, CountsRuns, NewBreaker
<1>2. BridgeInvariant => BreakersType
  BY InvariantHalves
<1>3. BridgeInvariant /\ CountsRuns /\ [Next]_vars
         => /\ CountsRuns'
            /\ [\A p \in Proc : breaker'[p].open # breaker[p].open =>
                   IF breaker'[p].open THEN streak'[p] = Threshold
                   ELSE crashes' = crashes + 1]_vars
  BY <1>2, CircuitStep
<1> QED
  BY <1>1, <1>3, BridgeIsInvariant, PTL DEF Spec, CircuitChanges

-----------------------------------------------------------------------------
(* The deferred writes as an outbox.                                       *)

Outbox == INSTANCE DeferredOutbox WITH outbox <- deferred, reached <- applied,
                                       Limit <- MaxRetries

\* Two processes, the janitor, Hermes and their crashes together treat each deferred
\* write as DeferredOutbox promises (reconciliation_janitor.py:98-231).
ImplementsOutbox == Outbox!Spec

\* A queued write is deferred, or is lost.
LEMMA EnqueueDefers ==
    ASSUME NEW r \in Res, Enqueue(r), applied' = applied
    PROVE  [Outbox!Next]_<<deferred, applied>>
<1>1. CASE UNCHANGED deferred
  BY <1>1
<1>2. ASSUME NEW d \in Row, deferred[d].status = "none",
             deferred' = [deferred EXCEPT ![d] =
                            [status |-> "pending", res |-> r, retries |-> 0]]
      PROVE  Outbox!Next
  <2>1. Outbox!Defer(d, r)
    BY <1>2 DEF Outbox!Defer, Outbox!Is
  <2> QED
    BY <2>1 DEF Outbox!Next
<1> QED
  BY <1>1, <1>2 DEF Enqueue

\* Steps that leave the queue alone may reach Streamline.
LEMMA ReachSteps ==
    ASSUME UNCHANGED deferred, NEW R \in SUBSET Res, applied' = applied \cup R
    PROVE  [Outbox!Next]_<<deferred, applied>>
<1>1. Outbox!Reach(R)
  BY DEF Outbox!Reach
<1> QED
  BY <1>1 DEF Outbox!Next

LEMMA OneReached ==
    ASSUME NEW r \in Res, UNCHANGED deferred,
           applied' \in {applied, applied \cup {r}}
    PROVE  [Outbox!Next]_<<deferred, applied>>
<1>1. {r} \in SUBSET Res
  OBVIOUS
<1> QED
  BY <1>1, ReachSteps

LEMMA JanitorOutbox ==
    ASSUME BridgeInvariant, JanitorStep \/ \E d \in Row : JanitorPick(d)
    PROVE  [Outbox!Next]_<<deferred, applied>>
<1>1. ASSUME NEW d \in Row, JanitorPick(d) PROVE [Outbox!Next]_<<deferred, applied>>
  <2>1. CASE UNCHANGED <<deferred, applied>>
    BY <2>1
  <2>2. CASE /\ deferred[d].retries >= MaxRetries
             /\ deferred' = [deferred EXCEPT ![d].status = "failed_final"]
    <3>1. deferred[d].retries = MaxRetries
      <4>1. deferred[d].retries \in 0..MaxRetries /\ MaxRetries \in Nat
        BY BridgeAssumption DEF BridgeInvariant, TypeOK
      <4> QED
        BY <2>2, <4>1
    <3>2. Outbox!GiveUp(d)
      BY <1>1, <2>2, <3>1 DEF JanitorPick, Outbox!GiveUp, Outbox!Is
    <3> QED
      BY <3>2 DEF Outbox!Next
  <2> QED
    BY <1>1, <2>1, <2>2 DEF JanitorPick
<1>2. ASSUME JanitorReturn PROVE Outbox!Next
  <2> DEFINE d == janitor.row
  <2>1. d \in Row /\ deferred[d].status = "pending" /\ deferred[d].retries < MaxRetries
    BY <1>2, BridgeAssumption DEF JanitorReturn, BridgeInvariant, TypeOK, InHand
  <2>2. \/ /\ applied' = applied \cup {deferred[d].res}
           /\ deferred' = [deferred EXCEPT ![d].status = "completed"]
        \/ /\ applied' \in {applied, applied \cup {deferred[d].res}}
           /\ deferred' = [deferred EXCEPT ![d].retries = @ + 1]
    BY <1>2 DEF JanitorReturn, MaybeApplied
  <2> HIDE DEF d
  <2>3. Outbox!Confirm(d) \/ Outbox!Retry(d)
    BY <2>1, <2>2 DEF Outbox!Confirm, Outbox!Retry, Outbox!Is
  <2> QED
    BY <2>1, <2>3 DEF Outbox!Next
<1>3. ASSUME JanitorAbandon PROVE Outbox!Next
  <2> DEFINE d == janitor.row
  <2>1. d \in Row /\ deferred[d].status = "pending" /\ deferred[d].retries = MaxRetries
    BY <1>3, BridgeAssumption DEF JanitorAbandon, BridgeInvariant, TypeOK, InHand
  <2>2. deferred' = [deferred EXCEPT ![d].status = "failed_final"] /\ applied' = applied
    BY <1>3 DEF JanitorAbandon
  <2> HIDE DEF d
  <2>3. Outbox!GiveUp(d)
    BY <2>1, <2>2 DEF Outbox!GiveUp, Outbox!Is
  <2> QED
    BY <2>1, <2>3 DEF Outbox!Next
<1> QED
  BY <1>1, <1>2, <1>3 DEF JanitorStep

LEMMA OutboxStep ==
    ASSUME BridgeInvariant, [Next]_vars
    PROVE  [Outbox!Next]_<<deferred, applied>>
<1>1. ASSUME NEW r \in Res, Handler(r) \/ HermesPick(r)
      PROVE  [Outbox!Next]_<<deferred, applied>>
  <2>1. CASE BridgeStart(r) \/ BridgeQueue(r) \/ BridgeSync(r) \/ HermesPick(r)
    BY <2>1, EnqueueDefers DEF BridgeStart, BridgeQueue, BridgeSync, HermesPick
  <2>2. CASE BridgeReturn(r)
    BY <2>2, OneReached DEF BridgeReturn, MaybeApplied
  <2> QED
    BY <1>1, <2>1, <2>2 DEF Handler
<1>2. CASE JanitorStep \/ \E d \in Row : JanitorPick(d)
  BY <1>2, JanitorOutbox
<1>3. CASE HermesStep
  <2>1. hermes.pc = "call" => hermes.res \in Res
    BY BridgeAssumption DEF BridgeInvariant, TypeOK, InHand
  <2> QED
    BY <1>3, <2>1, OneReached
       DEF HermesStep, HermesReturn, HermesFetch, HermesMark, MaybeApplied
<1>4. CASE CrashWeb \/ CrashDaemon
  BY <1>4, ReachSteps DEF CrashWeb, CrashDaemon
<1>5. CASE UNCHANGED vars \/ \E p \in Proc : CoolDown(p) \/ OtherCall(p)
  BY <1>5 DEF vars, CoolDown, OtherCall
<1> QED
  BY <1>1, <1>2, <1>3, <1>4, <1>5 DEF Next

\* Whatever the processes do, a deferred write lives the life DeferredOutbox promises:
\* a completed or abandoned one is final, and no retry is ever taken back.
THEOREM Refinement == Spec => ImplementsOutbox
<1>1. Init => Outbox!Init
  BY DEF Init, Outbox!Init
<1>2. BridgeInvariant /\ [Next]_vars => [Outbox!Next]_<<deferred, applied>>
  BY OutboxStep
<1> QED
  BY <1>1, <1>2, BridgeIsInvariant, PTL DEF Spec, ImplementsOutbox, Outbox!Spec

=============================================================================
