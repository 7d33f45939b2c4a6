--------------------------- MODULE DeferredOutbox ---------------------------
(***************************************************************************)
(* What the queue of deferred writes promises of each write: it belongs to *)
(* one reservation for good; it is confirmed in the step in which          *)
(* Streamline is known to have the reservation, or given up after Limit    *)
(* counted tries; either way it is never touched again, and no try is      *)
(* ever taken back.                                                        *)
(***************************************************************************)
EXTENDS Integers

CONSTANTS Res, Row, Limit, None
VARIABLES outbox,   \* the deferred writes
          reached   \* the reservations Streamline has

Init ==
    /\ outbox = [d \in Row |-> [status |-> "none", res |-> None, retries |-> 0]]
    /\ reached = {}

Is(d, status) == outbox[d].status = status

Defer(d, r) ==
    /\ Is(d, "none") /\ UNCHANGED reached
    /\ outbox' = [outbox EXCEPT ![d] = [status |-> "pending", res |-> r, retries |-> 0]]

Confirm(d) ==
    /\ Is(d, "pending") /\ outbox[d].retries < Limit
    /\ outbox' = [outbox EXCEPT ![d].status = "completed"]
    /\ reached' = reached \cup {outbox[d].res}

\* A try that failed, and may have reached Streamline all the same.
Retry(d) ==
    /\ Is(d, "pending") /\ outbox[d].retries < Limit
    /\ outbox' = [outbox EXCEPT ![d].retries = @ + 1]
    /\ reached' \in {reached, reached \cup {outbox[d].res}}

GiveUp(d) ==
    /\ Is(d, "pending") /\ outbox[d].retries = Limit /\ UNCHANGED reached
    /\ outbox' = [outbox EXCEPT ![d].status = "failed_final"]

\* Streamline hears of reservations in other ways.
Reach(R) == reached' = reached \cup R /\ UNCHANGED outbox

Next ==
    \/ \E d \in Row : Confirm(d) \/ Retry(d) \/ GiveUp(d) \/ \E r \in Res : Defer(d, r)
    \/ \E R \in SUBSET Res : Reach(R)

Spec == Init /\ [][Next]_<<outbox, reached>>
=============================================================================
