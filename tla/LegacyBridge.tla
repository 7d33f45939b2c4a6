---------------------------- MODULE LegacyBridge ----------------------------
(***************************************************************************)
(* Telling the legacy system (Streamline) about settled reservations: the  *)
(* Stripe webhook's bridge call in the web process, the queue of deferred  *)
(* writes, the reconciliation janitor and the Hermes retry loop in the     *)
(* worker process, and the circuit breaker each process keeps in memory.   *)
(*                                                                         *)
(* A remote call is two steps, so other coroutines of the process run and  *)
(* move the breaker between its state check and its outcome.  A call that  *)
(* fails may still have reached Streamline: _raw_call tries three times.   *)
(***************************************************************************)
EXTENDS Integers

CONSTANTS
    Res,            \* settled reservations
    Storefront,     \* those settled by the storefront webhook
    Row,            \* ids of deferred_api_writes rows
    Web, Daemon,    \* the API process and the ARQ worker process
    None,
    Threshold,      \* failure_threshold
    MaxRetries,     \* deferred_api_reconciliation_max_retries
    MaxAttempts,    \* MAX_ATTEMPTS of Hermes
    MaxCrash        \* bound on process restarts

ASSUME BridgeAssumption ==
    /\ Storefront \subseteq Res
    /\ Web # Daemon
    /\ None \notin Res \cup Row
    /\ {Threshold, MaxRetries, MaxAttempts} \subseteq Nat \ {0}
    /\ MaxCrash \in Nat

Proc == {Web, Daemon}

VARIABLES
    breaker,    \* the process's streamline_breaker
    bridge,     \* the webhook handler of each reservation
    deferred,   \* deferred_api_writes
    sync,       \* the pending_sync row of each reservation
    janitor,    \* the row the janitor is working on
    hermes,     \* the reservation Hermes is working on
    applied,    \* reservations Streamline has recorded
    sends,      \* replays started for each deferred row
    streak,     \* calls of each process in a row: failures > 0, successes < 0
    crashes

vars == <<breaker, bridge, deferred, sync, janitor, hermes, applied, sends,
          streak, crashes>>

-----------------------------------------------------------------------------
RowStatus  == {"none", "pending", "completed", "failed_final"}
SyncStatus == {"none", "pending", "synced", "failed"}

NewBreaker == [open |-> FALSE, cooled |-> FALSE, fails |-> 0]

JanitorIdle == [pc |-> "idle", row |-> None]
HermesIdle  == [pc |-> "idle", res |-> None]

TypeOK ==
    /\ breaker \in [Proc -> [open: BOOLEAN, cooled: BOOLEAN, fails: 0..Threshold]]
    /\ bridge \in [Res -> {"settled", "call", "queue", "sync", "done"}]
    /\ deferred \in [Row -> [status: RowStatus, res: Res \cup {None},
                             retries: 0..MaxRetries]]
    /\ sync \in [Res -> [status: SyncStatus, attempts: 0..MaxAttempts]]
    /\ janitor \in [pc: {"idle", "call", "abandon"}, row: Row \cup {None}]
    /\ hermes \in [pc: {"idle", "call", "fetch", "mark"}, res: Res \cup {None}]
    /\ applied \in SUBSET Res
    /\ sends \in [Row -> Nat]
    /\ streak \in [Proc -> (-2)..Threshold]
    /\ crashes \in Nat

Init ==
    /\ breaker = [p \in Proc |-> NewBreaker]
    /\ bridge = [r \in Res |-> "settled"]
    /\ deferred = [d \in Row |-> [status |-> "none", res |-> None, retries |-> 0]]
    /\ sync = [r \in Res |-> [status |-> "none", attempts |-> 0]]
    /\ janitor = JanitorIdle
    /\ hermes = HermesIdle
    /\ applied = {}
    /\ sends = [d \in Row |-> 0]
    /\ streak = [p \in Proc |-> 0]
    /\ crashes = 0

-----------------------------------------------------------------------------
(* The circuit breaker.                                                    *)

UpTo(n, limit) == IF n < limit THEN n ELSE limit

\* CircuitBreaker.call raises CircuitOpenError: OPEN and the recovery timeout
\* since the last failure is not over.
Refuses(p) == breaker[p].open /\ ~breaker[p].cooled

\* _on_success: _state is only ever CLOSED or OPEN (HALF_OPEN is computed by
\* the state property and never stored), so the count is all it resets.
OnSuccess(b) == [b EXCEPT !.fails = 0]

\* _on_failure: count, restart the recovery timeout, open at the threshold.
OnFailure(b) ==
    LET n == UpTo(b.fails + 1, Threshold)
    IN  [open |-> b.open \/ n = Threshold, cooled |-> FALSE, fails |-> n]

Succeeds(p) ==
    /\ breaker' = [breaker EXCEPT ![p] = OnSuccess(@)]
    /\ streak' = [streak EXCEPT ![p] = IF @ >= 0 THEN -1 ELSE -2]

Fails(p) ==
    /\ breaker' = [breaker EXCEPT ![p] = OnFailure(@)]
    /\ streak' = [streak EXCEPT ![p] = IF @ < 0 THEN 1 ELSE UpTo(@ + 1, Threshold)]

\* What a failed write may have left behind at Streamline.
MaybeApplied(r) == applied' \in {applied, applied \cup {r}}

\* The recovery timeout runs out.
CoolDown(p) ==
    /\ Refuses(p)
    /\ breaker' = [breaker EXCEPT ![p].cooled = TRUE]
    /\ UNCHANGED <<bridge, deferred, sync, janitor, hermes, applied, sends,
                   streak, crashes>>

\* Quotes, calendar and property syncs of the process share its breaker.
OtherCall(p) ==
    /\ Succeeds(p) \/ Fails(p)
    /\ UNCHANGED <<bridge, deferred, sync, janitor, hermes, applied, sends,
                   crashes>>

-----------------------------------------------------------------------------
(* queue_deferred_write: its own connection and commit; on any error it     *)
(* returns -1, which no caller treats as a failure.                         *)

Enqueue(r) ==
    \/ \E d \in Row :
          /\ deferred[d].status = "none"
          /\ deferred' = [deferred EXCEPT ![d] =
                            [status |-> "pending", res |-> r, retries |-> 0]]
    \/ UNCHANGED deferred

-----------------------------------------------------------------------------
(* The Stripe webhook, after the reservation has been committed.           *)

Continue(r, pc) == bridge' = [bridge EXCEPT ![r] = pc]

\* finalize_legacy_reservation: the call, or a deferred write when the circuit
\* is open.
BridgeStart(r) ==
    /\ bridge[r] = "settled"
    /\ \/ /\ ~Refuses(Web)
          /\ Continue(r, "call")
          /\ UNCHANGED deferred
       \/ /\ Refuses(Web)
          /\ Enqueue(r)
          /\ Continue(r, "done")
    /\ UNCHANGED <<breaker, sync, janitor, hermes, applied, sends, streak, crashes>>

\* The answer: accepted; a StreamlineVRSError, which dispatch turns into
\* ok=False and the handler only logs; or any other exception, which the
\* handler catches and queues.
BridgeReturn(r) ==
    /\ bridge[r] = "call"
    /\ \/ /\ Succeeds(Web)
          /\ applied' = applied \cup {r}
          /\ Continue(r, "done")
       \/ /\ Fails(Web)
          /\ MaybeApplied(r)
          /\ \E next \in {"done", "queue"} : Continue(r, next)
    /\ UNCHANGED <<deferred, sync, janitor, hermes, sends, crashes>>

\* queue_strike20_settlement_for_reconciliation
BridgeQueue(r) ==
    /\ bridge[r] = "queue"
    /\ Enqueue(r)
    /\ Continue(r, IF r \in Storefront THEN "sync" ELSE "done")
    /\ UNCHANGED <<breaker, sync, janitor, hermes, applied, sends, streak, crashes>>

\* The storefront also buffers the reservation for Hermes.
BridgeSync(r) ==
    /\ bridge[r] = "sync"
    /\ sync' = [sync EXCEPT ![r].status = "pending"]
    /\ Continue(r, "done")
    /\ UNCHANGED <<breaker, deferred, janitor, hermes, applied, sends, streak,
                   crashes>>

-----------------------------------------------------------------------------
(* ReconciliationJanitor: one sweep at a time, row after row.               *)

\* Mutant: a sweep that meets an open circuit counts as a retry.
JanitorPickCounting(d) ==
    /\ janitor = JanitorIdle
    /\ deferred[d].status = "pending"
    /\ \/ /\ deferred[d].retries >= MaxRetries
          /\ deferred' = [deferred EXCEPT ![d].status = "failed_final"]
          /\ UNCHANGED <<janitor, sends>>
       \/ /\ deferred[d].retries < MaxRetries
          /\ Refuses(Daemon)
          /\ deferred' = [deferred EXCEPT ![d].retries = @ + 1]
          /\ UNCHANGED <<janitor, sends>>
       \/ /\ deferred[d].retries < MaxRetries
          /\ ~Refuses(Daemon)
          /\ janitor' = [pc |-> "call", row |-> d]
          /\ sends' = [sends EXCEPT ![d] = @ + 1]
          /\ UNCHANGED deferred
    /\ UNCHANGED <<breaker, bridge, sync, hermes, applied, streak, crashes>>

\* Mutant: the retry limit is not looked at before a replay.
JanitorPickUncapped(d) ==
    /\ janitor = JanitorIdle
    /\ deferred[d].status = "pending"
    /\ ~Refuses(Daemon)
    /\ janitor' = [pc |-> "call", row |-> d]
    /\ sends' = [sends EXCEPT ![d] = @ + 1]
    /\ UNCHANGED <<breaker, bridge, deferred, sync, hermes, applied, streak,
                   crashes>>

\* Mutant: the sweep's query leaves out the rows that are out of retries.
JanitorPickSkipsExhausted(d) ==
    /\ deferred[d].retries < MaxRetries
    /\ JanitorPickUncapped(d)

\* A row out of retries is abandoned unsent; a row met while the circuit is
\* open is left for the next sweep, uncounted; any other is replayed.
JanitorPick(d) ==
    /\ janitor = JanitorIdle
    /\ deferred[d].status = "pending"
    /\ \/ /\ deferred[d].retries >= MaxRetries
          /\ deferred' = [deferred EXCEPT ![d].status = "failed_final"]
          /\ UNCHANGED <<janitor, sends>>
       \/ /\ deferred[d].retries < MaxRetries
          /\ ~Refuses(Daemon)
          /\ janitor' = [pc |-> "call", row |-> d]
          /\ sends' = [sends EXCEPT ![d] = @ + 1]
          /\ UNCHANGED deferred
    /\ UNCHANGED <<breaker, bridge, sync, hermes, applied, streak, crashes>>

\* Mutant: the row is completed whatever the replay returned.
JanitorReturnUnchecked ==
    LET d == janitor.row
    IN  /\ janitor.pc = "call"
        /\ \/ Succeeds(Daemon) /\ applied' = applied \cup {deferred[d].res}
           \/ Fails(Daemon) /\ MaybeApplied(deferred[d].res)
        /\ deferred' = [deferred EXCEPT ![d].status = "completed"]
        /\ janitor' = JanitorIdle
        /\ UNCHANGED <<bridge, sync, hermes, sends, crashes>>

\* The replay is answered: completed, or one more retry committed.
JanitorReturn ==
    LET d == janitor.row
    IN  /\ janitor.pc = "call"
        /\ \/ /\ Succeeds(Daemon)
              /\ applied' = applied \cup {deferred[d].res}
              /\ deferred' = [deferred EXCEPT ![d].status = "completed"]
              /\ janitor' = JanitorIdle
           \/ /\ Fails(Daemon)
              /\ MaybeApplied(deferred[d].res)
              /\ deferred' = [deferred EXCEPT ![d].retries = @ + 1]
              /\ janitor' = IF deferred[d].retries + 1 >= MaxRetries
                            THEN [janitor EXCEPT !.pc = "abandon"]
                            ELSE JanitorIdle
        /\ UNCHANGED <<bridge, sync, hermes, sends, crashes>>

\* _mark_abandoned, a commit of its own.
JanitorAbandon ==
    /\ janitor.pc = "abandon"
    /\ deferred' = [deferred EXCEPT ![janitor.row].status = "failed_final"]
    /\ janitor' = JanitorIdle
    /\ UNCHANGED <<breaker, bridge, sync, hermes, applied, sends, streak, crashes>>

-----------------------------------------------------------------------------
(* Hermes: every pending_sync row, one after the other, each minute.        *)

\* _reverse_push_to_streamline: the call, or a second deferred write when the
\* circuit is open, which counts as pushed.
HermesPick(r) ==
    /\ hermes = HermesIdle
    /\ sync[r].status = "pending"
    /\ \/ /\ ~Refuses(Daemon)
          /\ hermes' = [pc |-> "call", res |-> r]
          /\ UNCHANGED deferred
       \/ /\ Refuses(Daemon)
          /\ Enqueue(r)
          /\ hermes' = [pc |-> "mark", res |-> r]
    /\ UNCHANGED <<breaker, bridge, sync, janitor, applied, sends, streak, crashes>>

\* Mutant: the attempts are counted and never compared with the limit.
HermesReturnLateLimit ==
    LET r == hermes.res
    IN  /\ hermes.pc = "call"
        /\ \/ /\ Succeeds(Daemon)
              /\ applied' = applied \cup {r}
              /\ hermes' = [hermes EXCEPT !.pc = "mark"]
              /\ UNCHANGED sync
           \/ /\ Fails(Daemon)
              /\ MaybeApplied(r)
              /\ \/ hermes' = [hermes EXCEPT !.pc = "fetch"] /\ UNCHANGED sync
                 \/ /\ sync' = [sync EXCEPT ![r] =
                                  [status |-> "pending",
                                   attempts |-> UpTo(@.attempts + 1, MaxAttempts)]]
                    /\ hermes' = HermesIdle
        /\ UNCHANGED <<bridge, deferred, janitor, sends, crashes>>

\* The answer: pushed; a StreamlineVRSError (not pushed, but no exception); or
\* any other exception, the only outcome that is counted and retried.
HermesReturn ==
    LET r == hermes.res
        n == sync[r].attempts + 1
    IN  /\ hermes.pc = "call"
        /\ \/ /\ Succeeds(Daemon)
              /\ applied' = applied \cup {r}
              /\ hermes' = [hermes EXCEPT !.pc = "mark"]
              /\ UNCHANGED sync
           \/ /\ Fails(Daemon)
              /\ MaybeApplied(r)
              /\ \/ hermes' = [hermes EXCEPT !.pc = "fetch"] /\ UNCHANGED sync
                 \/ /\ sync' = [sync EXCEPT ![r] =
                                  [status |-> IF n >= MaxAttempts THEN "failed"
                                                                  ELSE "pending",
                                   attempts |-> n]]
                    /\ hermes' = HermesIdle
        /\ UNCHANGED <<bridge, deferred, janitor, sends, crashes>>

\* fetch_reservation_info never raises: found, stale, or empty, the row is
\* marked synced all the same.
HermesFetch ==
    /\ hermes.pc = "fetch"
    /\ \/ Refuses(Daemon) /\ UNCHANGED <<breaker, streak>>
       \/ ~Refuses(Daemon) /\ (Succeeds(Daemon) \/ Fails(Daemon))
    /\ hermes' = [hermes EXCEPT !.pc = "mark"]
    /\ UNCHANGED <<bridge, deferred, sync, janitor, applied, sends, crashes>>

HermesMark ==
    /\ hermes.pc = "mark"
    /\ sync' = [sync EXCEPT ![hermes.res].status = "synced"]
    /\ hermes' = HermesIdle
    /\ UNCHANGED <<breaker, bridge, deferred, janitor, applied, sends, streak,
                   crashes>>

-----------------------------------------------------------------------------
(* Restarts: the breaker and the calls in flight are gone; a call in flight *)
(* may have reached Streamline.                                             *)

CrashWeb ==
    LET InFlight == {r \in Res : bridge[r] = "call"}
    IN  /\ crashes < MaxCrash
        /\ crashes' = crashes + 1
        /\ breaker' = [breaker EXCEPT ![Web] = NewBreaker]
        /\ streak' = [streak EXCEPT ![Web] = 0]
        /\ bridge' = [r \in Res |-> IF bridge[r] = "settled" THEN "settled" ELSE "done"]
        /\ \E A \in SUBSET InFlight : applied' = applied \cup A
        /\ UNCHANGED <<deferred, sync, janitor, hermes, sends>>

CrashDaemon ==
    LET InFlight == {r \in Res :
                        \/ hermes.pc = "call" /\ hermes.res = r
                        \/ janitor.pc = "call" /\ deferred[janitor.row].res = r}
    IN  /\ crashes < MaxCrash
        /\ crashes' = crashes + 1
        /\ breaker' = [breaker EXCEPT ![Daemon] = NewBreaker]
        /\ streak' = [streak EXCEPT ![Daemon] = 0]
        /\ janitor' = JanitorIdle
        /\ hermes' = HermesIdle
        /\ \E A \in SUBSET InFlight : applied' = applied \cup A
        /\ UNCHANGED <<bridge, deferred, sync, sends>>

-----------------------------------------------------------------------------
Handler(r) == BridgeStart(r) \/ BridgeReturn(r) \/ BridgeQueue(r) \/ BridgeSync(r)

JanitorStep == JanitorReturn \/ JanitorAbandon

HermesStep == HermesReturn \/ HermesFetch \/ HermesMark

Next ==
    \/ \E r \in Res : Handler(r) \/ HermesPick(r)
    \/ \E d \in Row : JanitorPick(d)
    \/ JanitorStep
    \/ HermesStep
    \/ \E p \in Proc : CoolDown(p) \/ OtherCall(p)
    \/ CrashWeb
    \/ CrashDaemon

Spec == Init /\ [][Next]_vars

\* The worker's loops run for ever, every call ends (httpx timeouts), and a
\* sweep or a cycle visits the pending rows one after the other.
Fairness ==
    /\ WF_vars(JanitorStep)
    /\ WF_vars(HermesStep)
    /\ \A d \in Row : SF_vars(JanitorPick(d))
    /\ \A r \in Res : SF_vars(HermesPick(r))

FairSpec == Spec /\ Fairness

-----------------------------------------------------------------------------
(* Properties.                                                             *)

\* A deferred write reconciled as completed has reached Streamline, through
\* open circuits, crashes between replay and commit, and Hermes's own pushes.
CompletedMeansApplied ==
    \A d \in Row : deferred[d].status = "completed" => deferred[d].res \in applied

\* The janitor gives a write up only after MaxRetries replays were really
\* started, sweeps that met an open circuit not counted, and a crash costs at
\* most one replay more.
GivenUpAfterRealReplays ==
    \A d \in Row :
        /\ deferred[d].status = "failed_final" => sends[d] >= MaxRetries
        /\ sends[d] <= MaxRetries + crashes

\* Once the worker's circuit stays usable, every deferred write is replayed to
\* an end: completed or given up.
DeferredWritesDrain ==
    \A d \in Row :
        <>[](~Refuses(Daemon)) => (deferred[d].status = "pending"
                                      ~> deferred[d].status # "pending")

\* Hermes never keeps a row for ever: synced, or failed after MaxAttempts.
SyncRowsEnd ==
    \A r \in Res : sync[r].status = "pending" ~> sync[r].status # "pending"

\* "Consecutive failures before opening circuit": a process starts to refuse
\* calls only after Threshold failures in a row, unless it is still probing a
\* recovery that two successes in a row have not yet confirmed.
OpensAfterThreshold ==
    [][\A p \in Proc : ~Refuses(p) /\ Refuses(p)' =>
          streak'[p] >= Threshold \/ streak[p] > -2]_vars

-----------------------------------------------------------------------------
(* The inductive invariant behind them.                                    *)

\* What the janitor and Hermes have in hand is still pending.
InHand ==
    /\ janitor.pc = "idle" <=> janitor.row = None
    /\ janitor.pc # "idle" => deferred[janitor.row].status = "pending"
    /\ janitor.pc = "call" => deferred[janitor.row].retries < MaxRetries
    /\ janitor.pc = "abandon" => deferred[janitor.row].retries = MaxRetries
    /\ hermes.pc = "idle" <=> hermes.res = None
    /\ hermes.pc # "idle" => sync[hermes.res].status = "pending"

\* Rows name a reservation, and only unfinished ones have attempts left.
RowsInOrder ==
    /\ \A d \in Row : deferred[d].status # "none" => deferred[d].res \in Res
    /\ \A d \in Row : deferred[d].status = "none" => deferred[d].retries = 0
    /\ \A d \in Row : deferred[d].status = "failed_final" =>
                          deferred[d].retries = MaxRetries
    /\ \A d \in Row : deferred[d].status = "completed" =>
                          deferred[d].retries < MaxRetries
    /\ \A r \in Res : sync[r].status \in {"none", "pending"} =>
                          sync[r].attempts < MaxAttempts
    /\ \A r \in Res : bridge[r] # "done" => sync[r].status = "none"

\* A replay that is no retry: the one in flight, or the one that succeeded.
NotARetry(d) == IF deferred[d].status = "completed"
                   \/ (janitor.pc = "call" /\ janitor.row = d)
                THEN 1 ELSE 0

\* Replays started, retries counted and crashes suffered add up.
ReplaysCounted ==
    \A d \in Row : /\ deferred[d].retries + NotARetry(d) <= sends[d]
                    /\ sends[d] <= deferred[d].retries + NotARetry(d) + crashes

BridgeInvariant ==
    TypeOK /\ InHand /\ RowsInOrder /\ ReplaysCounted /\ CompletedMeansApplied

=============================================================================
