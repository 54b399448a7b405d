------------------------------- MODULE Payouts -------------------------------
(***************************************************************************)
(* What table transfers and PollTransfers promise together: whatever is    *)
(* owed is paid before it is forgotten, and nothing is paid twice.         *)
(* Settlement implements this through crashes and lost replies.            *)
(***************************************************************************)
VARIABLES
    owed,   \* records with an id that have to be paid
    paid    \* those that were

Init == owed = {} /\ paid = {}

Owe ==
    /\ owed \subseteq owed'
    /\ \A t \in owed' \ owed : \A u \in owed \cup paid : t.id # u.id
    /\ UNCHANGED paid

Pay ==
    \E t \in owed :
        /\ \A u \in paid : t.id # u.id
        /\ owed' = owed \ {t}
        /\ paid' = paid \cup {t}

Spec == Init /\ [][Owe \/ Pay]_<<owed, paid>>
=============================================================================
