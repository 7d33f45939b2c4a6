--------------------------- MODULE TrustJournal ---------------------------
(***************************************************************************)
(* What the trust ledger promises: a journal that only grows, one entry to *)
(* an event, each signed over an entry that already stands in it (or over  *)
(* the beginning).  Approvals are resolved and cleared by entries alone,   *)
(* in the very step in which the entry appears.                            *)
(***************************************************************************)
CONSTANTS
    Plain,      \* events that touch no approval
    Resolving,  \* events that resolve one
    Clearing,   \* events that clear one
    Approval,
    Genesis     \* what the first entry is signed over
VARIABLES
    entries,    \* the journal
    approved,   \* the approvals that are resolved
    cleared     \* those whose invoice is paid

Init == entries = {} /\ approved = {} /\ cleared = {}

Events == {r.event : r \in entries}

Post(e, over) ==
    /\ e \notin Events /\ over \in Events \cup {Genesis}
    /\ entries' = entries \cup {[event |-> e, prev |-> over]}

Record(e, over) == Post(e, over) /\ UNCHANGED <<approved, cleared>>

Resolve(e, over, a) ==
    Post(e, over) /\ approved' = approved \cup {a} /\ UNCHANGED cleared

Clear(e, over, a) ==
    Post(e, over) /\ cleared' = cleared \cup {a} /\ UNCHANGED approved

Next == \E over \in Events \cup {Genesis} :
            \/ \E e \in Plain : Record(e, over)
            \/ \E e \in Resolving, a \in Approval : Resolve(e, over, a)
            \/ \E e \in Clearing, a \in Approval : Clear(e, over, a)

Spec == Init /\ [][Next]_<<entries, approved, cleared>>
=============================================================================
