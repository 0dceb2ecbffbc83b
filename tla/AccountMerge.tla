---------------------------- MODULE AccountMerge ----------------------------
(***************************************************************************)
(* The merge of a synthetic Strava account into the account of the same    *)
(* person: one transaction that pairs the rides both accounts have, drops  *)
(* one of each pair, hands the rest over and deletes the user, while other *)
(* sessions go on importing, deleting and confirming an address            *)
(* (backend/app/services/account_merge.py).                                *)
(*                                                                         *)
(* The transaction reads what is committed and keeps its own writes until  *)
(* the commit.  Start time and distance of a ride are one coordinate: two  *)
(* rides match when theirs are at most Window apart.  The other tables     *)
(* follow the user as the rides do and are left out.                       *)
(***************************************************************************)
EXTENDS Integers, FiniteSets

CONSTANTS
    Rides,   \* ids of activities
    Keys,    \* ids of rides at Strava
    NoKey,   \* a ride that did not come from Strava
    Window,  \* tolerance of the match
    Last     \* last coordinate

ASSUME KeysAssumption == NoKey \notin Keys
ASSUME WindowAssumption == Window \in Nat /\ Last \in Nat

VARIABLES
    rows,     \* the committed activities
    account,  \* the absorbed user: synthetic, claimed by a real address, gone
    merge,    \* the transaction under way
    before,   \* history: the activities the latest merge began with
    removed,  \* history: rides their owner deleted since then
    late,     \* history: rides imported since then, for either user
    missed    \* history: those of them that came after the hand-over had read

vars == <<rows, account, merge, before, removed, late, missed>>

-----------------------------------------------------------------------------

Undated == 0 - 1
Owners == {"survivor", "absorbed"}

\* A ride from Strava stays with its owner; a manual upload feeds the community
\* map when contribute_heatmap says so (and it has a trace), else it is withheld.
Uses == {"personal", "withheld", "shared"}
Row == [owner : Owners, key : Keys \cup {NoKey}, at : Undated..Last, use : Uses]
NoRow == [owner |-> "none", key |-> NoKey, at |-> Undated, use |-> "personal"]

\* is_community_source: the source alone.
Community(row) == row.use # "personal"
\* community_eligible_conditions: the source, the trace and the consent.
Feeds(row) == row.use = "shared"

NoMerge == [pc |-> "idle", pairs |-> {}, dropped |-> {}, consumed |-> {}, moved |-> {}]

Of(owner, rs) == {r \in Rides : rs[r].owner = owner}

SameKey(x, y) == x.key # NoKey /\ x.key = y.key
Near(x, y) ==
    /\ x.at # Undated /\ y.at # Undated
    /\ x.at - y.at <= Window /\ y.at - x.at <= Window
Matches(x, y) == SameKey(x, y) \/ Near(x, y)

\* What the ingest of one account leaves: no ride twice.
New(row, rs) == \A r \in Rides : rs[r].owner = row.owner => ~Matches(row, rs[r])

Init ==
    /\ rows \in [Rides -> Row \cup {NoRow}]
    /\ \A r, s \in Rides :
          r # s /\ rows[r].owner = rows[s].owner => ~Matches(rows[r], rows[s])
    /\ account = "synthetic"
    /\ merge = NoMerge
    /\ before = rows /\ removed = {} /\ late = {} /\ missed = {}

-----------------------------------------------------------------------------
(* The transaction *)

PairsNear ==                                                    \* seeded fault
    {p \in Of("absorbed", rows) \X Of("survivor", rows) : Near(rows[p[1]], rows[p[2]])}
Pairs ==
    {p \in Of("absorbed", rows) \X Of("survivor", rows) : Matches(rows[p[1]], rows[p[2]])}

\* Without a synthetic account the merge is refused or has nothing to do.  The
\* rows of the join come in no particular order.
Begin ==
    /\ merge.pc = "idle" /\ account = "synthetic"
    /\ merge' = [NoMerge EXCEPT !.pc = "matching", !.pairs = Pairs]
    /\ before' = rows /\ removed' = {} /\ late' = {} /\ missed' = {}
    /\ UNCHANGED <<rows, account>>

\* Of a pair the copy with a community source is kept, else the survivor's; the
\* pairs carry the sources the join has read, and not the consent.
LoserAbsorbed(p) == p[1]                                        \* seeded fault
Loser(p) ==
    IF Community(before[p[1]]) /\ ~Community(before[p[2]]) THEN p[2] ELSE p[1]

Skipped(p) ==
    \/ p[1] \in merge.dropped
    \/ p[2] \in merge.dropped \cup merge.consumed

Pair(p) ==
    /\ merge.pc = "matching" /\ p \in merge.pairs
    /\ merge' = IF Skipped(p)
                THEN [merge EXCEPT !.pairs = @ \ {p}]
                ELSE [merge EXCEPT !.pairs = @ \ {p},
                                   !.dropped = @ \cup {Loser(p)},
                                   !.consumed = @ \cup {p[2]}]
    /\ UNCHANGED <<rows, account, before, removed, late, missed>>

Handed == Of("absorbed", rows) \ merge.dropped

\* UNIQUE(user, provider, id) over what the survivor would own.
Clash ==
    \E a \in Handed, s \in Of("survivor", rows) \ merge.dropped : SameKey(rows[a], rows[s])

ReassignUnpaired ==                                             \* seeded fault
    /\ merge.pc = "matching" /\ merge.pairs = {}
    /\ merge' = IF Clash THEN [merge EXCEPT !.pc = "failed"]
                ELSE [merge EXCEPT !.pc = "reassigned",
                         !.moved = {r \in Handed : \A s \in Of("survivor", before) :
                                        ~Matches(before[r], before[s])}]
    /\ UNCHANGED <<rows, account, before, removed, late, missed>>
Reassign ==
    /\ merge.pc = "matching" /\ merge.pairs = {}
    /\ merge' = IF Clash
                THEN [merge EXCEPT !.pc = "failed"]
                ELSE [merge EXCEPT !.pc = "reassigned", !.moved = Handed]
    /\ UNCHANGED <<rows, account, before, removed, late, missed>>

\* The user goes with the same commit.
Commit ==
    /\ merge.pc = "reassigned"
    /\ rows' = [r \in Rides |->
                   IF r \in merge.dropped THEN NoRow
                   ELSE IF r \in merge.moved THEN [rows[r] EXCEPT !.owner = "survivor"]
                   ELSE rows[r]]
    /\ account' = "gone"
    /\ merge' = [merge EXCEPT !.pc = "done"]
    /\ UNCHANGED <<before, removed, late, missed>>

\* An error of the database, or the death of the process, undoes it all; the
\* person may connect again.
Rollback ==
    /\ merge.pc \in {"matching", "reassigned", "failed"} /\ merge' = NoMerge
    /\ UNCHANGED <<rows, account, before, removed, late, missed>>

-----------------------------------------------------------------------------
(* Other sessions *)

Locked(r) ==
    merge.pc \in {"matching", "reassigned"} /\ r \in merge.dropped \cup merge.moved

\* What the survivor is about to own counts for the constraint: an insert that
\* meets it waits for the commit.
Waits(row) ==
    row.owner = "survivor" /\ \E r \in merge.moved : SameKey(row, rows[r])

\* An import under way, of either user; the one of the absorbed user keeps the id
\* it was started with, and no foreign key stops it.
Import(r, row) ==
    /\ rows[r] = NoRow /\ ~Locked(r)
    /\ before[r] = NoRow /\ r \notin removed
    /\ New(row, rows) /\ ~Waits(row)
    /\ rows' = [rows EXCEPT ![r] = row]
    /\ late' = late \cup {r}
    /\ missed' = IF merge.pc \in {"reassigned", "done"} THEN missed \cup {r} ELSE missed
    /\ UNCHANGED <<account, merge, before, removed>>

\* The owner deletes a ride.
Remove(r) ==
    /\ rows[r] # NoRow /\ ~Locked(r)
    /\ rows' = [rows EXCEPT ![r] = NoRow]
    /\ removed' = removed \cup {r}
    /\ UNCHANGED <<account, merge, before, late, missed>>

\* confirm_email gives the synthetic user a real address.
Claim ==
    /\ account = "synthetic" /\ account' = "claimed"
    /\ UNCHANGED <<rows, merge, before, removed, late, missed>>

Next ==
    \/ Begin \/ Reassign \/ Commit \/ Rollback \/ Claim
    \/ \E p \in Rides \X Rides : Pair(p)
    \/ \E r \in Rides : Remove(r) \/ \E row \in Row : Import(r, row)

Spec == Init /\ [][Next]_vars

-----------------------------------------------------------------------------
(* Properties *)

\* Rows, account and transaction have their types; the transaction drops and
\* hands over different rides, and drops only rides it found.
TypeOK ==
    /\ rows \in [Rides -> Row \cup {NoRow}] /\ before \in [Rides -> Row \cup {NoRow}]
    /\ account \in {"synthetic", "claimed", "gone"}
    /\ merge \in [pc : {"idle", "matching", "reassigned", "failed", "done"},
                 pairs : SUBSET (Rides \X Rides), dropped : SUBSET Rides,
                 consumed : SUBSET Rides, moved : SUBSET Rides]
    /\ merge.pairs \subseteq Of("absorbed", before) \X Of("survivor", before)
    /\ merge.dropped \subseteq Of("absorbed", before) \cup Of("survivor", before)
    /\ merge.consumed \subseteq Of("survivor", before)
    /\ merge.moved \cap merge.dropped = {}
    /\ removed \subseteq Rides /\ late \subseteq Rides /\ missed \subseteq late

Merged == merge.pc = "done"

\* Rides that a chain of at most two matches ties to r.
Twins(r) == {t \in Rides : before[t] # NoRow /\ Matches(before[r], before[t])}
Chain(r) == Twins(r) \cup UNION {Twins(t) : t \in Twins(r)}

\* No merge loses a ride: what it drops is still there as a ride it matched, or
\* as one that ride matched in turn, unless a member deleted one of them; and for
\* a manual upload that is a manual upload, though maybe one withheld from the map.
EveryRideKeepsACopy ==
    Merged => \A r \in merge.dropped :
        \/ Chain(r) \cap removed # {}
        \/ \E t \in Chain(r) :
              /\ rows[t] # NoRow
              /\ Community(before[r]) => Community(rows[t])

\* What the deleted user still owns was imported for it when the UPDATE that hands
\* its rides over had read them already: before the commit or after it.
OrphansCameLate == account = "gone" => Of("absorbed", rows) \subseteq missed

\* The hand-over meets the UNIQUE constraint only for a ride imported meanwhile or
\* for one whose twin the loop had already paired with another ride.
RefusedOnlyForTwins ==
    [][merge.pc = "matching" /\ merge'.pc = "failed" =>
          \E a, s \in Rides \ merge.dropped :
             /\ rows[a].owner = "absorbed" /\ rows[s].owner = "survivor"
             /\ SameKey(rows[a], rows[s])
             /\ \/ {a, s} \cap late # {}
                \/ \E x \in merge.dropped : s \in Twins(x) \cap merge.consumed]_vars

\* "For each matched pair we keep the community-eligible copy and delete the
\* other" (_resolve_activity_dedup): a ride that is dropped has a ride it matched
\* that stays.
DroppedHasTwin ==
    Merged => \A r \in merge.dropped :
        \/ Twins(r) \cap removed # {}
        \/ \E t \in Twins(r) : rows[t] # NoRow

\* The same sentence, of eligibility as the map's query has it: a ride that fed the
\* map leaves one that does.  Not kept when the survivor's copy is a manual upload
\* that its owner withheld: two community sources tie.
EligibleCopyKept ==
    Merged => \A r \in merge.dropped :
        Feeds(before[r]) =>
            \/ Chain(r) \cap removed # {}
            \/ \E t \in Chain(r) : Feeds(rows[t])

\* "A real credentialed account is NEVER auto-absorbed": not kept when the address
\* is confirmed between the check and the commit.
NeverAbsorbsClaimed == [][account = "claimed" => account' # "gone"]_vars
=============================================================================
