---------------------------- MODULE ConsentLedger ----------------------------
(***************************************************************************)
(* What the activity store promises of the public map, ride by ride.  A    *)
(* row shows a recording its owner has uploaded with consent, or nothing.  *)
(* Once it shows one it goes on showing the very same one until it is      *)
(* deleted, and a deleted row never comes back.  Whatever caches, syncs,   *)
(* upgrades and retries do meanwhile does not show; the rows two writers   *)
(* have fought over are the ones in dispute.  How is ActivityProvenance.   *)
(***************************************************************************)
CONSTANTS
    Rows,     \* ids of rows
    Copies,   \* recordings an owner may upload
    Traces,   \* whatever could be drawn, what came from Strava included
    Nothing   \* not drawn

VARIABLES
    agreed,   \* the recordings uploaded with consent
    ever,     \* ids ever used
    present,  \* ids of the rows that are there
    shown,    \* row -> what the public map draws of it
    disputed  \* rows about which nothing is promised any more

vars == <<agreed, ever, present, shown, disputed>>

Init ==
    /\ agreed = {} /\ ever = {} /\ present = {} /\ disputed = {}
    /\ shown = [i \in Rows |-> Nothing]

Agree(c) ==
    /\ agreed' = agreed \cup {c}
    /\ UNCHANGED <<ever, present, shown, disputed>>

\* A new row, public from the start or not.
Add(i) ==
    /\ i \notin ever
    /\ ever' = ever \cup {i} /\ present' = present \cup {i}
    /\ \E t \in agreed \cup {Nothing} : shown' = [shown EXCEPT ![i] = t]
    /\ UNCHANGED <<agreed, disputed>>

\* A row that was not public becomes so.
Publish(i) ==
    /\ i \in present \ disputed
    /\ shown[i] = Nothing
    /\ \E t \in agreed : shown' = [shown EXCEPT ![i] = t]
    /\ UNCHANGED <<agreed, ever, present, disputed>>

Withdraw(i) ==
    /\ i \in present
    /\ present' = present \ {i}
    /\ shown' = [shown EXCEPT ![i] = Nothing]
    /\ UNCHANGED <<agreed, ever, disputed>>

\* Writers overtake each other on some rows.  Those in dispute may show
\* anything, as long as they are there.
Dispute(fought) ==
    /\ fought \subseteq present
    /\ disputed' = disputed \cup fought
    /\ shown' \in [Rows -> Traces \cup {Nothing}]
    /\ \A i \in Rows \ disputed' : shown'[i] = shown[i]
    /\ \A i \in Rows \ present : shown'[i] = Nothing
    /\ UNCHANGED <<agreed, ever, present>>

Next ==
    \/ \E c \in Copies : Agree(c)
    \/ \E i \in Rows : Add(i) \/ Publish(i) \/ Withdraw(i)
    \/ \E fought \in SUBSET Rows : Dispute(fought)

Spec == Init /\ [][Next]_vars

-----------------------------------------------------------------------------
(* What follows: a row that is not in dispute shows what was agreed to, and  *)
(* one that is gone shows nothing at all.                                    *)
ShowsOnlyAgreed ==
    \A i \in Rows :
        /\ i \in disputed \/ shown[i] \in agreed \cup {Nothing}
        /\ i \in present \/ shown[i] = Nothing
=============================================================================
