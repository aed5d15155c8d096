-------------------------- MODULE InstallSelection --------------------------
(***************************************************************************)
(* What the installer of the distribution promises about the one thing the *)
(* user of a prefix sees, the selected version (active.json): it changes   *)
(* only inside of a transaction, and inside of one only between the        *)
(* version that was selected before and the version being installed.      *)
(* distribution/reference-node/activation-transaction.md states this as    *)
(* "Rollback changes only the active selection" and "preserves the         *)
(* previous usable installation".                                          *)
(***************************************************************************)
CONSTANTS Digests, None

VARIABLES
    selected,     \* the digest active.json names, or None
    transaction   \* None, or the two ends of the open transaction

Transactions == [old: Digests \cup {None}, new: Digests]

Init ==
    /\ selected = None
    /\ transaction = None

\* The journal becomes "activating".
Open(d) ==
    /\ transaction = None
    /\ d # selected
    /\ transaction' = [old |-> selected, new |-> d]
    /\ UNCHANGED selected

\* Activation and its reversal.
Select ==
    /\ transaction # None
    /\ selected' \in {transaction.old, transaction.new}
    /\ UNCHANGED transaction

\* The journal becomes "committed" or "rolled-back"; or a rollback that nobody
\* will record comes to its end with the old version selected again.
Close ==
    /\ transaction # None
    /\ transaction' = None
    /\ selected' \in {selected, transaction.old}

Next == (\E d \in Digests: Open(d)) \/ Select \/ Close

Spec == Init /\ [][Next]_<<selected, transaction>>
=============================================================================
