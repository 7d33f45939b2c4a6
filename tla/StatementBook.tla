--------------------------- MODULE StatementBook ---------------------------
(***************************************************************************)
(* What the monthly statements promise the owner: figures are drawn up and *)
(* redrawn until the statement is closed, for good; only the figures of a  *)
(* closed statement are paid and mailed, and exactly those.                *)
(***************************************************************************)
EXTENDS Integers, Sequences

CONSTANT Period
VARIABLES book,     \* each month's statement
          paidOut,  \* the amounts transferred for it
          sent      \* the closing balances mailed

Init ==
    /\ book = [p \in Period |-> [stage |-> "none", opening |-> 0, closing |-> 0]]
    /\ paidOut = [p \in Period |-> <<>>] /\ sent = [p \in Period |-> {}]

Draw(p, opening, closing) ==
    /\ book[p].stage \in {"none", "open"} /\ UNCHANGED <<paidOut, sent>>
    /\ book' = [book EXCEPT ![p] = [stage |-> "open", opening |-> opening,
                                    closing |-> closing]]

Close(p) ==
    /\ book[p].stage = "open" /\ UNCHANGED <<paidOut, sent>>
    /\ book' = [book EXCEPT ![p].stage = "closed"]

Pay(p) ==
    /\ book[p].stage = "closed" /\ UNCHANGED <<book, sent>>
    /\ paidOut' = [paidOut EXCEPT ![p] = Append(@, book[p].closing - book[p].opening)]

Mail(p) ==
    /\ book[p].stage = "closed" /\ UNCHANGED <<book, paidOut>>
    /\ sent' = [sent EXCEPT ![p] = @ \cup {book[p].closing}]

Next == \E p \in Period : \/ Close(p) \/ Pay(p) \/ Mail(p)
                          \/ \E opening, closing \in Int : Draw(p, opening, closing)

Spec == Init /\ [][Next]_<<book, paidOut, sent>>
=============================================================================
