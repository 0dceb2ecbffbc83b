-------------------------- MODULE TransactionProofs --------------------------
(***************************************************************************)
(* Theorems about the two components made of database transactions that    *)
(* run side by side: AccountMerge, whose one transaction meets single      *)
(* statements of others, and HeatEdge, whose sessions all interleave       *)
(* statement by statement.  They share no state.                           *)
(***************************************************************************)
EXTENDS AccountMerge, HeatEdge, FiniteSetTheorems, TLAPS

-----------------------------------------------------------------------------
(* AccountMerge *)

MergeType == [pc : {"idle", "matching", "reassigned", "failed", "done"},
              pairs : SUBSET (Rides \X Rides), dropped : SUBSET Rides,
              consumed : SUBSET Rides, moved : SUBSET Rides]

Twosome(a, s) ==
    /\ a \in Of("absorbed", before) /\ s \in Of("survivor", before)
    /\ Matches(before[a], before[s])

(* Until the commit the other sessions only delete and add. *)
RowsKept ==
    merge.pc # "done" => \A r \in Rides :
        /\ rows[r] \in {before[r], NoRow} \/ r \in late
        /\ before[r] # NoRow => rows[r] = before[r] \/ r \in removed

(* Why a ride was dropped: for the survivor's copy, which is then never dropped *)
(* itself, or because the absorbed copy is a manual upload and it is not.       *)
Justified ==
    \A r \in merge.dropped : \E x \in Rides :
        \/ /\ Twosome(r, x) /\ x \in merge.consumed \ merge.dropped
           /\ Community(before[r]) => Community(before[x])
        \/ Twosome(x, r) /\ r \in merge.consumed /\ ~Community(before[r])

(* Every match was worked off or passed over. *)
Processed ==
    \A a, s \in Rides :
        merge.pc = "matching" /\ Twosome(a, s) =>
            \/ <<a, s>> \in merge.pairs
            \/ a \in merge.dropped \/ s \in merge.dropped \cup merge.consumed

ConsumedFor ==
    \A s \in merge.consumed \ merge.dropped :
        \E x \in merge.dropped : Twosome(x, s)

PairsMatch == \A p \in merge.pairs : Twosome(p[1], p[2])

Moved ==
    merge.pc = "matching" => merge.moved = {}

(* The user goes with the commit, which hands over all but what came too late. *)
NothingLeft ==
    /\ account = "gone" => merge.pc = "done"
    /\ merge.pc = "reassigned" =>
          Of("absorbed", rows) \subseteq merge.moved \cup merge.dropped \cup missed

MergeInv == /\ TypeOK /\ RowsKept /\ Justified /\ Processed /\ ConsumedFor /\ PairsMatch
       /\ Moved /\ NothingLeft /\ OrphansCameLate /\ EveryRideKeepsACopy

LEMMA NoRowIsNone == NoRow.owner = "none" /\ \A row \in Row : row # NoRow /\ row.owner \in Owners
BY DEF NoRow, Row, Owners

LEMMA NoMergeType ==
    /\ NoMerge \in MergeType /\ NoMerge.pc = "idle" /\ NoMerge.pairs = {}
    /\ NoMerge.dropped = {} /\ NoMerge.consumed = {} /\ NoMerge.moved = {}
BY DEF NoMerge, MergeType

(* A match goes both ways. *)
LEMMA MatchesBothWays ==
    ASSUME NEW x \in Row, NEW y \in Row, Matches(x, y) PROVE Matches(y, x)
BY WindowAssumption DEF Matches, SameKey, Near, Row, Undated

(* A twosome is of two rides, each a twin of the other. *)
LEMMA TwosomeTwins ==
    ASSUME TypeOK, NEW a \in Rides, NEW s \in Rides, Twosome(a, s)
    PROVE  /\ before[a] # NoRow /\ before[s] # NoRow /\ a # s
           /\ s \in Twins(a) /\ a \in Twins(s)
           /\ before[a].owner = "absorbed" /\ before[s].owner = "survivor"
<1>1. /\ before[a].owner = "absorbed" /\ before[s].owner = "survivor"
      /\ Matches(before[a], before[s])
  BY DEF Twosome, Of
<1>2. before[a] \in Row /\ before[s] \in Row
  BY <1>1, NoRowIsNone DEF TypeOK
<1>3. Matches(before[s], before[a])
  BY <1>1, <1>2, MatchesBothWays
<1> QED
  BY <1>1, <1>2, <1>3, NoRowIsNone DEF Twins

LEMMA MergeInitInv == Init => MergeInv
<1> SUFFICES ASSUME Init PROVE MergeInv
  OBVIOUS
<1>1. TypeOK
  BY NoMergeType DEF Init, TypeOK, MergeType
<1> QED
  BY <1>1, NoMergeType DEF Init, MergeInv, RowsKept, Justified, Processed, ConsumedFor,
     PairsMatch, Moved, NothingLeft, OrphansCameLate, EveryRideKeepsACopy, Merged

LEMMA BeginKeeps == ASSUME MergeInv, Begin PROVE MergeInv'
<1>1. /\ merge'.pc = "matching" /\ merge'.pairs = Pairs /\ merge'.dropped = {}
      /\ merge'.consumed = {} /\ merge'.moved = {}
      /\ (Pairs \in SUBSET (Rides \X Rides)) => merge' \in MergeType
  <2>1. \A d \in MergeType : \A P :
           LET e == [d EXCEPT !.pc = "matching", !.pairs = P]
           IN  /\ e.pc = "matching" /\ e.pairs = P /\ e.dropped = d.dropped
               /\ e.consumed = d.consumed /\ e.moved = d.moved
               /\ P \in SUBSET (Rides \X Rides) => e \in MergeType
    BY Zenon DEF MergeType
  <2> QED
    BY <2>1, NoMergeType DEF Begin
<1>2. before' = rows /\ removed' = {} /\ late' = {} /\ missed' = {}
      /\ UNCHANGED <<rows, account>>
      /\ account = "synthetic"
  BY DEF Begin
<1>3. /\ Pairs \subseteq Of("absorbed", rows) \X Of("survivor", rows)
      /\ Pairs \in SUBSET (Rides \X Rides)
  BY DEF Pairs, Of
<1>4. TypeOK'
  BY <1>1, <1>2, <1>3 DEF MergeInv, TypeOK, MergeType, Of
<1>5. Processed' /\ PairsMatch'
  BY <1>1, <1>2 DEF Processed, PairsMatch, Twosome, Pairs, Of
<1> QED
  BY <1>1, <1>2, <1>4, <1>5 DEF MergeInv, RowsKept, Justified, ConsumedFor, Moved, NothingLeft,
     OrphansCameLate, EveryRideKeepsACopy, Merged

LEMMA PairKeeps == ASSUME MergeInv, NEW p \in Rides \X Rides, Pair(p) PROVE MergeInv'
<1> DEFINE a == p[1]
<1> DEFINE s == p[2]
<1>0. /\ a \in Rides /\ s \in Rides /\ p = <<a, s>> /\ p \in merge.pairs
      /\ merge.pc = "matching" /\ merge \in MergeType
      /\ UNCHANGED <<rows, account, before, removed, late, missed>>
  BY DEF Pair, MergeInv, TypeOK, MergeType
<1>1. Twosome(a, s)
  BY <1>0 DEF MergeInv, PairsMatch
<1>2. /\ before[a].owner = "absorbed" /\ before[s].owner = "survivor" /\ a # s
      /\ before[s] \in Row /\ before[a] \in Row
  BY <1>0, <1>1, TwosomeTwins DEF MergeInv, TypeOK
<1> HIDE DEF a, s
<1>3. CASE Skipped(p)
  <2>1. \A d \in MergeType :
           LET e == [d EXCEPT !.pairs = @ \ {p}]
           IN  /\ e \in MergeType /\ e.pairs = d.pairs \ {p} /\ e.pc = d.pc
               /\ e.dropped = d.dropped /\ e.consumed = d.consumed /\ e.moved = d.moved
    BY Zenon DEF MergeType
  <2>2. /\ merge' \in MergeType /\ merge'.pairs = merge.pairs \ {p} /\ merge'.pc = merge.pc
        /\ merge'.dropped = merge.dropped /\ merge'.consumed = merge.consumed
        /\ merge'.moved = merge.moved
    BY <1>0, <1>3, <2>1 DEF Pair
  <2>3. TypeOK'
    BY <1>0, <2>2 DEF MergeInv, TypeOK, MergeType, Of
  <2>4. a \in merge.dropped \/ s \in merge.dropped \cup merge.consumed
    BY <1>3 DEF Skipped, a, s
  <2>5. Processed'
    BY <1>0, <2>2, <2>4 DEF MergeInv, Processed, Twosome, Of
  <2>6. RowsKept' /\ Justified' /\ ConsumedFor' /\ PairsMatch'
    BY <1>0, <2>2 DEF MergeInv, RowsKept, Justified, ConsumedFor, PairsMatch, Twosome, Of
  <2> QED
    BY <1>0, <2>2, <2>3, <2>5, <2>6 DEF MergeInv, NothingLeft, OrphansCameLate, Of,
       EveryRideKeepsACopy, Merged, Moved
<1>4. CASE ~Skipped(p)
  <2> DEFINE l == Loser(p)
  <2>0. /\ l = IF Community(before[a]) /\ ~Community(before[s]) THEN s ELSE a
        /\ a \notin merge.dropped /\ s \notin merge.dropped /\ s \notin merge.consumed
    BY <1>4 DEF Loser, Skipped, a, s
  <2> HIDE DEF l
  <2>1. ASSUME NEW D \in SUBSET Rides, NEW C \in SUBSET Rides,
               merge' = [merge EXCEPT !.pairs = @ \ {p}, !.dropped = D, !.consumed = C]
        PROVE  /\ merge' \in MergeType /\ merge'.pairs = merge.pairs \ {p}
               /\ merge'.pc = merge.pc /\ merge'.dropped = D /\ merge'.consumed = C
               /\ merge'.moved = merge.moved
    BY <1>0, <2>1, Zenon DEF MergeType
  <2>2. merge' = [merge EXCEPT !.pairs = @ \ {p}, !.dropped = merge.dropped \cup {l},
                               !.consumed = merge.consumed \cup {s}]
    BY <1>0, <1>4 DEF Pair, l, s
  <2>3. merge.dropped \cup {l} \in SUBSET Rides /\ merge.consumed \cup {s} \in SUBSET Rides
    BY <1>0, <2>0 DEF MergeType
  <2>4. /\ merge' \in MergeType /\ merge'.pairs = merge.pairs \ {p} /\ merge'.pc = merge.pc
        /\ merge'.dropped = merge.dropped \cup {l} /\ merge'.consumed = merge.consumed \cup {s}
        /\ merge'.moved = merge.moved
    BY <2>1, <2>2, <2>3
  <2>5. merge.moved = {}
    BY <1>0 DEF MergeInv, Moved
  <2>6. TypeOK'
    BY <1>0, <1>1, <2>0, <2>4, <2>5 DEF MergeInv, TypeOK, MergeType, Of, Twosome
  <2>7. Processed'
    BY <1>0, <2>4 DEF MergeInv, Processed, Twosome, Of
  <2>8. ConsumedFor'
    <3> SUFFICES ASSUME NEW t \in (merge.consumed \cup {s}) \ (merge.dropped \cup {l})
        PROVE \E x \in merge.dropped \cup {l} : Twosome(x, t)
      BY <1>0, <2>4 DEF ConsumedFor, Twosome, Of
    <3>1. CASE t = s
      BY <1>1, <2>0, <3>1
    <3>2. CASE t \in merge.consumed
      BY <3>2 DEF MergeInv, ConsumedFor
    <3> QED
      BY <3>1, <3>2
  <2>9. Justified'
    <3> DEFINE Reason(r, x) ==
          \/ /\ Twosome(r, x) /\ x \in (merge.consumed \cup {s}) \ (merge.dropped \cup {l})
             /\ Community(before[r]) => Community(before[x])
          \/ Twosome(x, r) /\ r \in merge.consumed \cup {s} /\ ~Community(before[r])
    <3> SUFFICES ASSUME NEW r \in merge.dropped \cup {l}
        PROVE \E x \in Rides : Reason(r, x)
      BY <1>0, <2>4 DEF Justified, Twosome, Of
    <3>1. CASE r \in merge.dropped
      <4>1. PICK x \in Rides :
              \/ /\ Twosome(r, x) /\ x \in merge.consumed \ merge.dropped
                 /\ Community(before[r]) => Community(before[x])
              \/ Twosome(x, r) /\ r \in merge.consumed /\ ~Community(before[r])
        BY <3>1 DEF MergeInv, Justified
      <4>2. Twosome(r, x) => before[x].owner = "survivor"
        BY DEF Twosome, Of
      <4>3. Twosome(r, x) /\ x \in merge.consumed => x # l
        BY <1>2, <2>0, <4>2
      <4> QED
        BY <4>1, <4>3
    <3>2. CASE r = l /\ l = s /\ ~Community(before[s])
      BY <1>0, <1>1, <3>2
    <3>3. CASE r = l /\ l = a /\ (Community(before[a]) => Community(before[s]))
      <4>1. s \in (merge.consumed \cup {s}) \ (merge.dropped \cup {l})
        BY <1>2, <2>0, <3>3
      <4> QED
        BY <1>0, <1>1, <3>3, <4>1
    <3>4. Community(before[a]) \in BOOLEAN /\ Community(before[s]) \in BOOLEAN
      BY DEF Community
    <3> QED
      BY <2>0, <3>1, <3>2, <3>3, <3>4
  <2> QED
    BY <1>0, <2>4, <2>6, <2>7, <2>8, <2>9 DEF MergeInv, RowsKept, PairsMatch, Twosome, Of,
       NothingLeft, OrphansCameLate, EveryRideKeepsACopy, Merged, Moved
<1> QED
  BY <1>3, <1>4

LEMMA ReassignKeeps == ASSUME MergeInv, Reassign PROVE MergeInv'
<1>1. /\ UNCHANGED <<rows, account, before, removed, late, missed>>
      /\ merge'.pc \in {"reassigned", "failed"}
      /\ merge'.pairs = merge.pairs /\ merge'.dropped = merge.dropped
      /\ merge'.consumed = merge.consumed /\ merge' \in MergeType
      /\ merge'.moved \in {merge.moved, Handed}
      /\ merge'.pc = "reassigned" => merge'.moved = Handed
  <2>0. merge \in MergeType /\ Handed \in SUBSET Rides
    BY DEF MergeInv, TypeOK, MergeType, Handed, Of
  <2>1. CASE merge' = [merge EXCEPT !.pc = "failed"]
    BY <2>0, <2>1 DEF MergeType, Reassign
  <2>2. ASSUME NEW H \in SUBSET Rides,
               merge' = [merge EXCEPT !.pc = "reassigned", !.moved = H]
        PROVE  /\ merge' \in MergeType /\ merge'.pc = "reassigned" /\ merge'.moved = H
               /\ merge'.pairs = merge.pairs /\ merge'.dropped = merge.dropped
               /\ merge'.consumed = merge.consumed
    BY <2>0, <2>2, Zenon DEF MergeType
  <2>3. CASE merge' = [merge EXCEPT !.pc = "reassigned", !.moved = Handed]
    BY <2>0, <2>2, <2>3 DEF Reassign
  <2> QED
    BY <2>1, <2>3 DEF Reassign
<1>2. TypeOK'
  BY <1>1 DEF MergeInv, TypeOK, MergeType, Of, Handed
<1>3. NothingLeft'
  BY <1>1 DEF Reassign, MergeInv, NothingLeft, Handed, Of
<1>4. RowsKept' /\ Justified' /\ ConsumedFor' /\ PairsMatch' /\ Processed' /\ Moved'
  BY <1>1 DEF Reassign, MergeInv, RowsKept, Justified, ConsumedFor, PairsMatch, Twosome, Of,
     Processed, Moved
<1> QED
  BY <1>1, <1>2, <1>3, <1>4 DEF MergeInv, OrphansCameLate, EveryRideKeepsACopy, Merged, Of

(* What the commit leaves of a ride it does not drop. *)
LEMMA CommitRow ==
    ASSUME MergeInv, Commit, NEW t \in Rides, before[t] # NoRow, t \notin removed,
           t \notin merge.dropped
    PROVE  rows'[t] # NoRow /\ Community(rows'[t]) = Community(before[t])
<1>1. rows[t] = before[t] /\ before[t] \in Row
  BY DEF Commit, MergeInv, RowsKept, TypeOK
<1>2. rows'[t] = IF t \in merge.moved THEN [rows[t] EXCEPT !.owner = "survivor"] ELSE rows[t]
  BY DEF Commit
<1>3. [rows[t] EXCEPT !.owner = "survivor"].owner = "survivor"
      /\ [rows[t] EXCEPT !.owner = "survivor"].use = before[t].use
  BY <1>1 DEF Row
<1> QED
  BY <1>1, <1>2, <1>3, NoRowIsNone DEF Community

LEMMA CommitKeeps == ASSUME MergeInv, Commit PROVE MergeInv'
<1>1. /\ merge.pc = "reassigned" /\ merge \in MergeType /\ account' = "gone"
      /\ merge' \in MergeType /\ merge'.pc = "done"
      /\ merge'.pairs = merge.pairs /\ merge'.dropped = merge.dropped
      /\ merge'.consumed = merge.consumed /\ merge'.moved = merge.moved
      /\ UNCHANGED <<before, removed, late, missed>>
  BY DEF Commit, MergeInv, TypeOK, MergeType
<1>2. rows' \in [Rides -> Row \cup {NoRow}]
  <2>1. \A row \in Row : [row EXCEPT !.owner = "survivor"] \in Row
    BY DEF Row, Owners
  <2>2. [NoRow EXCEPT !.owner = "survivor"] \in Row
    <3>1. Undated \in Undated..Last
      BY WindowAssumption DEF Undated
    <3> QED
      BY <3>1 DEF NoRow, Row, Owners, Uses
  <2> QED
    BY <2>1, <2>2 DEF Commit, MergeInv, TypeOK
<1>3. TypeOK'
  BY <1>1, <1>2 DEF MergeInv, TypeOK, MergeType, Of
<1>4. OrphansCameLate'
  <2> SUFFICES ASSUME NEW r \in Rides, rows'[r].owner = "absorbed" PROVE r \in missed
    BY <1>1 DEF OrphansCameLate, Of
  <2>1. r \notin merge.dropped
    BY NoRowIsNone DEF Commit
  <2>2. r \notin merge.moved
    <3>1. ASSUME r \in merge.moved PROVE rows'[r].owner = "survivor"
      <4>1. rows[r] \in Row \cup {NoRow} /\ rows'[r] = [rows[r] EXCEPT !.owner = "survivor"]
        BY <2>1, <3>1 DEF Commit, MergeInv, TypeOK
      <4> QED
        BY <4>1 DEF Row, NoRow
    <3> QED
      BY <3>1
  <2>3. rows[r].owner = "absorbed"
    BY <2>1, <2>2 DEF Commit
  <2> QED
    BY <1>1, <2>1, <2>2, <2>3 DEF MergeInv, NothingLeft, Of
<1>5. EveryRideKeepsACopy'
  <2> DEFINE Copied(r, t) ==
        \/ t \in removed
        \/ (rows'[t] # NoRow /\ (Community(before[r]) => Community(rows'[t])))
  <2> SUFFICES ASSUME NEW r \in merge.dropped
      PROVE \E t \in Chain(r) : Copied(r, t)
    BY <1>1 DEF EveryRideKeepsACopy, Chain, Twins
  <2>0. r \in Rides
    BY <1>1 DEF MergeType
  <2>1. \A t \in Twins(r) : t \in Chain(r) /\ Twins(t) \subseteq Chain(r)
    BY DEF Chain
  <2>2. ASSUME NEW x \in Rides, Twosome(r, x), x \notin merge.dropped,
               Community(before[r]) => Community(before[x])
        PROVE  x \in Twins(r) /\ Copied(r, x)
    <3>1. x \in Twins(r) /\ before[x] # NoRow
      BY <2>0, <2>2, TwosomeTwins DEF MergeInv
    <3> QED
      BY <2>2, <3>1, CommitRow
  <2>3. ASSUME NEW x \in Rides, Twosome(x, r), ~Community(before[r])
        PROVE  \E t \in Chain(r) : Copied(r, t)
    <3>1. /\ x \in Twins(r) /\ before[x] # NoRow /\ before[x].owner = "absorbed"
      BY <2>0, <2>3, TwosomeTwins DEF MergeInv
    <3>2. CASE x \notin merge.dropped
      BY <2>1, <2>3, <3>1, <3>2, CommitRow
    <3>3. CASE x \in merge.dropped
      <4>1. PICK y \in Rides : \/ Twosome(x, y) /\ y \notin merge.dropped
                               \/ Twosome(y, x)
        BY <3>3 DEF MergeInv, Justified
      <4>2. ~Twosome(y, x)
        BY <3>1, <4>1 DEF Twosome, Of
      <4>3. y \in Twins(x) /\ before[y] # NoRow
        BY <4>1, <4>2, TwosomeTwins DEF MergeInv
      <4> QED
        BY <2>1, <2>3, <3>1, <4>1, <4>2, <4>3, CommitRow
    <3> QED
      BY <3>2, <3>3
  <2>4. PICK x \in Rides :
          \/ /\ Twosome(r, x) /\ x \notin merge.dropped
             /\ Community(before[r]) => Community(before[x])
          \/ Twosome(x, r) /\ ~Community(before[r])
    BY DEF MergeInv, Justified
  <2> QED
    BY <2>1, <2>2, <2>3, <2>4
<1>6. RowsKept' /\ Justified' /\ ConsumedFor' /\ PairsMatch' /\ Processed' /\ Moved'
      /\ NothingLeft'
  BY <1>1 DEF MergeInv, RowsKept, Justified, ConsumedFor, PairsMatch, Twosome, Of, Processed,
     Moved, NothingLeft
<1> QED
  BY <1>3, <1>4, <1>5, <1>6 DEF MergeInv

LEMMA RollbackKeeps == ASSUME MergeInv, Rollback PROVE MergeInv'
<1>1. /\ merge.pc # "done" /\ merge' = NoMerge
      /\ UNCHANGED <<rows, account, before, removed, late, missed>>
  BY DEF Rollback
<1>2. TypeOK'
  BY <1>1, NoMergeType DEF MergeInv, TypeOK, MergeType, Of
<1> QED
  BY <1>1, <1>2, NoMergeType DEF MergeInv, RowsKept, Justified, Processed, ConsumedFor,
     PairsMatch, Moved, NothingLeft, OrphansCameLate, EveryRideKeepsACopy, Merged, Of

(* Other sessions leave the merge and its beginning as they are. *)
LEMMA CopiesKept ==
    ASSUME before' = before, merge' = merge,
           Merged => \A q \in merge.dropped :
               \E t \in Chain(q) :
                  \/ t \in removed'
                  \/ (rows'[t] # NoRow /\ (Community(before[q]) => Community(rows'[t])))
    PROVE  EveryRideKeepsACopy'
<1> DEFINE Copied(q, t) ==
      \/ t \in removed'
      \/ (rows'[t] # NoRow /\ (Community(before[q]) => Community(rows'[t])))
<1>1. merge'.dropped = merge.dropped /\ merge'.pc = merge.pc
  OBVIOUS
<1> SUFFICES ASSUME Merged, NEW q \in merge.dropped
    PROVE \E t \in Chain(q) : Copied(q, t)
  BY <1>1 DEF EveryRideKeepsACopy, Merged, Chain, Twins
<1> QED
  OBVIOUS

LEMMA ImportKeeps ==
    ASSUME MergeInv, NEW r \in Rides, NEW row \in Row, Import(r, row) PROVE MergeInv'
<1>1. /\ before[r] = NoRow /\ rows' = [rows EXCEPT ![r] = row] /\ late' = late \cup {r}
      /\ rows[r] = NoRow
      /\ missed' = IF merge.pc \in {"reassigned", "done"} THEN missed \cup {r} ELSE missed
      /\ UNCHANGED <<account, merge, before, removed>>
  BY DEF Import
<1>2. TypeOK'
  BY <1>1 DEF MergeInv, TypeOK, MergeType, Of
<1>3. RowsKept'
  BY <1>1 DEF MergeInv, RowsKept, TypeOK
<1>4. OrphansCameLate' /\ NothingLeft'
  BY <1>1 DEF MergeInv, OrphansCameLate, NothingLeft, Of, TypeOK
<1>5. EveryRideKeepsACopy'
  <2>1. \A q \in Rides : Chain(q) \subseteq Rides \ {r}
    BY <1>1 DEF Chain, Twins
  <2>2. merge.dropped \subseteq Rides
    BY DEF MergeInv, TypeOK, MergeType
  <2>3. \A t \in Rides \ {r} : rows'[t] = rows[t]
    BY <1>1 DEF MergeInv, TypeOK
  <2> SUFFICES ASSUME Merged, NEW q \in merge.dropped
      PROVE \E t \in Chain(q) :
               \/ t \in removed
               \/ (rows'[t] # NoRow /\ (Community(before[q]) => Community(rows'[t])))
    BY <1>1, CopiesKept
  <2> QED
    BY <2>1, <2>2, <2>3 DEF MergeInv, EveryRideKeepsACopy
<1>6. Justified' /\ ConsumedFor' /\ PairsMatch' /\ Processed' /\ Moved'
  BY <1>1 DEF MergeInv, Justified, ConsumedFor, PairsMatch, Twosome, Of, Processed, Moved
<1> QED
  BY <1>2, <1>3, <1>4, <1>5, <1>6 DEF MergeInv

LEMMA RemoveKeeps == ASSUME MergeInv, NEW r \in Rides, Remove(r) PROVE MergeInv'
<1>1. /\ rows' = [rows EXCEPT ![r] = NoRow] /\ removed' = removed \cup {r}
      /\ UNCHANGED <<account, merge, before, late, missed>>
  BY DEF Remove
<1>2. TypeOK'
  BY <1>1 DEF MergeInv, TypeOK, MergeType, Of
<1>3. RowsKept'
  BY <1>1 DEF MergeInv, RowsKept, TypeOK
<1>4. OrphansCameLate' /\ NothingLeft'
  BY <1>1, NoRowIsNone DEF MergeInv, OrphansCameLate, NothingLeft, Of, TypeOK
<1>5. EveryRideKeepsACopy'
  <2>1. \A t \in Rides \ {r} : rows'[t] = rows[t]
    BY <1>1 DEF MergeInv, TypeOK
  <2>2. \A q \in Rides : Chain(q) \subseteq Rides
    BY DEF Chain, Twins
  <2>3. merge.dropped \subseteq Rides
    BY DEF MergeInv, TypeOK, MergeType
  <2> SUFFICES ASSUME Merged, NEW q \in merge.dropped
      PROVE \E t \in Chain(q) :
               \/ t \in removed \cup {r}
               \/ (rows'[t] # NoRow /\ (Community(before[q]) => Community(rows'[t])))
    BY <1>1, CopiesKept
  <2>4. CASE r \in Chain(q)
    BY <2>4
  <2>5. CASE r \notin Chain(q)
    BY <2>1, <2>2, <2>3, <2>5 DEF MergeInv, EveryRideKeepsACopy
  <2> QED
    BY <2>4, <2>5
<1>6. Justified' /\ ConsumedFor' /\ PairsMatch' /\ Processed' /\ Moved'
  BY <1>1 DEF MergeInv, Justified, ConsumedFor, PairsMatch, Twosome, Of, Processed, Moved
<1> QED
  BY <1>2, <1>3, <1>4, <1>5, <1>6 DEF MergeInv

LEMMA RestKeeps ==
    ASSUME MergeInv, UNCHANGED <<rows, merge, before, removed, late, missed>>,
           account' \in {account, "claimed"}
    PROVE  MergeInv'
<1>1. TypeOK' /\ RowsKept' /\ Justified' /\ Processed' /\ ConsumedFor' /\ PairsMatch'
  BY DEF MergeInv, TypeOK, MergeType, Of, RowsKept, Justified, Processed, ConsumedFor, PairsMatch,
     Twosome
<1>2. Moved' /\ NothingLeft' /\ OrphansCameLate' /\ EveryRideKeepsACopy'
  BY DEF MergeInv, Moved, NothingLeft, OrphansCameLate, EveryRideKeepsACopy, Merged, Of, Chain,
     Twins
<1> QED
  BY <1>1, <1>2 DEF MergeInv

(* In every reachable state each dropped ride has a kept twin, and the rows and *)
(* the steps of merge_synthetic_account agree.                                *)
THEOREM MergeInvHolds == Spec => []MergeInv
<1>1. MergeInv /\ [Next]_vars => MergeInv'
  <2>1. ASSUME MergeInv, Next PROVE MergeInv'
    <3>1. CASE Claim
      BY <2>1, <3>1, RestKeeps DEF Claim
    <3> QED
      BY <2>1, <3>1, BeginKeeps, PairKeeps, ReassignKeeps, CommitKeeps, RollbackKeeps,
         ImportKeeps, RemoveKeeps DEF Next
  <2>2. ASSUME MergeInv, UNCHANGED vars PROVE MergeInv'
    BY <2>2, RestKeeps DEF vars
  <2> QED
    BY <2>1, <2>2
<1> QED
  BY MergeInitInv, <1>1, PTL DEF Spec

(* The transaction and the rows have their types, for any accounts. *)
THEOREM MergeTypeCorrect == Spec => []TypeOK
<1>1. MergeInv => TypeOK
  BY DEF MergeInv
<1> QED
  BY MergeInvHolds, <1>1, PTL

(* No merge loses a ride, in whatever order the pairs come and whatever the    *)
(* other sessions do meanwhile: each dropped ride has a copy within two        *)
(* matches, a manual upload if the dropped one was one, or a member deleted    *)
(* one of these rides.                                                         *)
THEOREM RidesKept == Spec => []EveryRideKeepsACopy
<1>1. MergeInv => EveryRideKeepsACopy
  BY DEF MergeInv
<1> QED
  BY MergeInvHolds, <1>1, PTL

(* Only an import that the hand-over had no chance to read leaves a ride with  *)
(* the deleted user.                                                           *)
THEOREM OrphansLate == Spec => []OrphansCameLate
<1>1. MergeInv => OrphansCameLate
  BY DEF MergeInv
<1> QED
  BY MergeInvHolds, <1>1, PTL

(* The hand-over fails on the UNIQUE constraint only over a ride imported      *)
(* meanwhile, or over one whose twin had been paired with another ride before. *)
THEOREM RefusalsExplained == Spec => RefusedOnlyForTwins
<1> DEFINE Explained ==
      merge.pc = "matching" /\ merge'.pc = "failed" =>
          \E a, s \in Rides \ merge.dropped :
             /\ rows[a].owner = "absorbed" /\ rows[s].owner = "survivor"
             /\ SameKey(rows[a], rows[s])
             /\ \/ {a, s} \cap late # {}
                \/ \E x \in merge.dropped : s \in Twins(x) \cap merge.consumed
<1>1. MergeInv /\ [Next]_vars => [Explained]_vars
  <2> SUFFICES ASSUME MergeInv, [Next]_vars, merge.pc = "matching", merge'.pc = "failed"
      PROVE Explained
    OBVIOUS
  <2>1. Reassign
    BY NoMergeType DEF Next, vars, Begin, Pair, Commit, Rollback, Remove, Import, Claim,
       MergeInv, TypeOK
  <2>2. Clash /\ merge.pairs = {} /\ merge \in MergeType
    BY <2>1 DEF Reassign, MergeInv, TypeOK, MergeType
  <2>3. PICK a \in Handed, s \in Of("survivor", rows) \ merge.dropped :
          SameKey(rows[a], rows[s])
    BY <2>2 DEF Clash
  <2>4. /\ a \in Rides \ merge.dropped /\ s \in Rides \ merge.dropped
        /\ rows[a].owner = "absorbed" /\ rows[s].owner = "survivor"
    BY <2>3 DEF Handed, Of
  <2>5. CASE a \notin late /\ s \notin late
    <3>1. rows[a] = before[a] /\ rows[s] = before[s]
      BY <2>4, <2>5, NoRowIsNone DEF MergeInv, RowsKept
    <3>2. Twosome(a, s)
      BY <2>3, <2>4, <3>1 DEF Twosome, Of, Matches
    <3>3. s \in merge.consumed
      BY <2>2, <2>4, <3>2 DEF MergeInv, Processed
    <3>4. PICK x \in merge.dropped : Twosome(x, s)
      BY <2>4, <3>3 DEF MergeInv, ConsumedFor
    <3>5. s \in Twins(x)
      BY <2>2, <2>4, <3>4, TwosomeTwins DEF MergeInv, MergeType
    <3> QED
      BY <2>3, <2>4, <3>3, <3>4, <3>5
  <2>6. CASE a \in late \/ s \in late
    BY <2>3, <2>4, <2>6
  <2> QED
    BY <2>5, <2>6
<1>2. RefusedOnlyForTwins <=> [][Explained]_vars
  BY DEF RefusedOnlyForTwins
<1> QED
  BY MergeInvHolds, <1>1, <1>2, PTL DEF Spec

-----------------------------------------------------------------------------
(* HeatEdge: counts *)

Pcs == {"idle"} \cup Updating \cup Purging \cup Refreshing

(* Which rows a transaction has written at which statement. *)
Shape(d) ==
    /\ d.pc \in Updating \cup Purging => d.act \in Activities
    /\ d.pc \in Refreshing \cup {"idle", "matched"} => d.rows = {}
    /\ d.pc \in {"contributed", "upserted"} => d.rows = {d.act}
    /\ d.pc \in Purging => d.rows \subseteq contrib
    /\ d.pc \in Purging \ {"purged"} => d.act \in d.rows
    /\ "edge" \in d.held =>
          \/ d.pc = "upserted"
          \/ d.pc \in {"prune", "drop", "purged"} /\ d.rows # {} /\ d.ways
    /\ d.pc = "upserted" => "edge" \in d.held
    /\ "agg" \in d.held => d.pc \in {"select", "insert"}

(* What it has read is still so: nobody else can write the rows it holds. *)
Current(d) ==
    /\ d.pc = "contributed" => d.fresh = (d.act \notin contrib)
    /\ d.pc = "upserted" =>
          d.put = [edge EXCEPT !.pass = IF ~Exists(edge) THEN 1
                                        ELSE edge.pass + IF d.act \in contrib THEN 0 ELSE 1]
    /\ d.pc \in {"rewrite", "drop"} => d.seen
    /\ d.pc \in {"rewrite", "prune", "drop"} => d.ways

(* What it will write is a row that exists, or the deletion of one that nobody *)
(* else contributes to.                                                        *)
Putting(d) ==
    /\ d.pc = "rewrite" => Exists(d.put)
    /\ d.pc \in Purging /\ "edge" \in d.held =>
          Exists(d.put) \/ (d.put = Absent /\ contrib \subseteq d.rows)
    /\ d.pc = "insert" => Exists(d.put) \/ d.put = Absent

(* A purge that is alone will leave the counts of what it leaves. *)
Exact(d) ==
    d.pc \in Purging /\ d.rows # {} /\ d.alone =>
       /\ d.pc = "rewrite" => contrib \ d.rows # {} /\ d.put = Counted(contrib \ d.rows)
       /\ d.pc = "prune" =>
             IF contrib \ d.rows = {} THEN "edge" \notin d.held
             ELSE "edge" \in d.held /\ d.put = Counted(contrib \ d.rows)
       /\ d.pc = "drop" => contrib \ d.rows = {}
       /\ d.pc = "purged" => "edge" \in d.held /\ d.put = Counted(contrib \ d.rows)

Fine(d) == Shape(d) /\ Current(d) /\ Putting(d) /\ Exact(d)

Exclusive ==
    \A s, t \in Sessions : s # t =>
       tx[s].rows \cap tx[t].rows = {} /\ tx[s].held \cap tx[t].held = {}

WholeRows == (Exists(edge) \/ edge = Absent) /\ (Exists(agg) \/ agg = Absent)

EdgeInv ==
    /\ EdgeTypeOK /\ Exclusive /\ ContributorsHaveTheirEdge /\ WholeRows /\ CountsAreExact
    /\ \A s \in Sessions : Fine(tx[s])

LEMMA FiniteTypes ==
    /\ Cardinality(Riders) \in Nat /\ Absent \in Counts /\ ~Exists(Absent)
    /\ \A row \in Counts : row.pass \in Nat /\ row.riders \in 0..Cardinality(Riders)
<1>1. Cardinality(Riders) \in Nat
  BY FS_CardinalityType, FiniteAssumption
<1> QED
  BY <1>1 DEF Absent, Counts, Exists

(* The counts of some rides: they are counts, there is a pass if there is a   *)
(* ride, and another ride is another pass.                                    *)
LEMMA CountedType ==
    ASSUME NEW S \in SUBSET Activities
    PROVE  /\ IsFiniteSet(S) /\ Cardinality(S) \in Nat
           /\ Distinct(S) \in 0..Cardinality(Riders) /\ Counted(S) \in Counts
           /\ Exists(Counted(S)) <=> S # {}
<1>1. IsFiniteSet(S) /\ Cardinality(S) \in Nat
  BY FS_Subset, FS_CardinalityType, FiniteAssumption
<1>2. Distinct(S) \in 0..Cardinality(Riders)
  <2> DEFINE R == {Owner[a] : a \in S}
  <2>1. R \in SUBSET Riders
    BY OwnerAssumption
  <2>2. IsFiniteSet(R) /\ Cardinality(R) <= Cardinality(Riders)
    BY <2>1, FS_Subset, FiniteAssumption
  <2>3. Cardinality(R) \in Nat
    BY <2>2, FS_CardinalityType
  <2> HIDE DEF R
  <2>4. Cardinality(R) \in 0..Cardinality(Riders)
    BY <2>2, <2>3, FiniteTypes
  <2> QED
    BY <2>4 DEF Distinct, R
<1>3. Cardinality(S) > 0 <=> S # {}
  BY <1>1, FS_EmptySet
<1> QED
  BY <1>1, <1>2, <1>3 DEF Counted, Counts, Exists

LEMMA CountedNone == Counted({}) = Absent
<1>1. {Owner[a] : a \in {}} = {}
  OBVIOUS
<1>2. Cardinality({}) = 0
  BY FS_EmptySet
<1> QED
  BY <1>1, <1>2 DEF Counted, Absent, Distinct

LEMMA CountedOneMore ==
    ASSUME NEW S \in SUBSET Activities, NEW a \in Activities
    PROVE  /\ Cardinality(S \cup {a}) = Cardinality(S) + IF a \in S THEN 0 ELSE 1
           /\ S = {} => Cardinality(S \cup {a}) = 1
<1>1. IsFiniteSet(S) /\ Cardinality(S) \in Nat
  BY CountedType
<1>2. CASE a \in S
  <2>1. S \cup {a} = S
    BY <1>2
  <2> QED
    BY <1>1, <1>2, <2>1
<1>3. CASE a \notin S
  <2>1. Cardinality(S \cup {a}) = Cardinality(S) + 1
    BY <1>1, <1>3, FS_AddElement
  <2>2. S = {} => Cardinality(S) = 0
    BY FS_EmptySet
  <2> QED
    BY <1>1, <1>3, <2>1, <2>2
<1> QED
  BY <1>2, <1>3

LEMMA Fields ==
    ASSUME NEW d \in Transaction
    PROVE  /\ d.pc \in Pcs /\ d.act \in Activities \cup {Nothing}
           /\ d.why \in {"heat", "delete", "sport"}
           /\ d.fresh \in BOOLEAN /\ d.put \in Counts /\ d.rows \in SUBSET Activities
           /\ d.held \in SUBSET {"edge", "agg"}
           /\ d.seen \in BOOLEAN /\ d.alone \in BOOLEAN /\ d.passed \in BOOLEAN
           /\ d.ways \in BOOLEAN
BY DEF Transaction, Pcs

LEMMA NoTransactionType ==
    /\ NoTransaction \in Transaction
    /\ NoTransaction.pc = "idle" /\ NoTransaction.rows = {} /\ NoTransaction.held = {}
    /\ NoTransaction.ways = FALSE
<1>1. Absent \in Counts
  BY FiniteTypes
<1> HIDE DEF Absent, Counts
<1> QED
  BY <1>1 DEF NoTransaction, Transaction

-----------------------------------------------------------------------------

LEMMA EdgeInitInv == EdgeInit => EdgeInv
<1> SUFFICES ASSUME EdgeInit PROVE EdgeInv
  OBVIOUS
<1>1. \A s \in Sessions : tx[s] = NoTransaction
  BY DEF EdgeInit
<1>2. EdgeTypeOK
  <2>1. tx \in [Sessions -> Transaction]
    BY NoTransactionType DEF EdgeInit
  <2>2. ride \in [Activities -> {"here", "other", "gone"}]
    BY DEF EdgeInit
  <2>3. 0 \in 0..MaxChanges
    BY BoundAssumption
  <2> QED
    BY <2>1, <2>2, <2>3, FiniteTypes DEF EdgeInit, EdgeTypeOK
<1>3. Fine(NoTransaction)
  BY NoTransactionType DEF Fine, Shape, Current, Putting, Exact, Updating, Purging, Refreshing
<1>4. Exclusive
  BY <1>1, NoTransactionType DEF Exclusive
<1>5. ContributorsHaveTheirEdge /\ WholeRows
  BY DEF EdgeInit, ContributorsHaveTheirEdge, WholeRows
<1>6. CountsAreExact
  BY CountedNone DEF EdgeInit, CountsAreExact
<1> QED
  BY <1>1, <1>2, <1>3, <1>4, <1>5, <1>6 DEF EdgeInv

(* What holds of the tables goes on to hold while only transactions change. *)
Tables == <<ride, contrib, edge, agg, raced, belated, unpurged>>

LEMMA FineKept ==
    ASSUME NEW d, UNCHANGED <<contrib, edge>>
    PROVE  Fine(d)' <=> Fine(d)
BY DEF Fine, Shape, Current, Putting, Exact, Counted, Distinct, Absent, Exists,
   Updating, Purging, Refreshing

(* A session goes on alone: the others need only stay off its rows. *)
LEMMA SessionKeeps ==
    ASSUME EdgeInv, UNCHANGED Tables, changes' \in 0..MaxChanges,
           lapses' \subseteq {"failed", "overtaken"},
           NEW s \in Sessions, NEW d \in Transaction, tx' = [tx EXCEPT ![s] = d], Fine(d),
           \A t \in Sessions \ {s} : d.rows \cap tx[t].rows = {} /\ d.held \cap tx[t].held = {}
    PROVE  EdgeInv'
<1>1. /\ tx' \in [Sessions -> Transaction] /\ tx'[s] = d
      /\ \A t \in Sessions \ {s} : tx'[t] = tx[t]
  BY DEF EdgeInv, EdgeTypeOK
<1>2. EdgeTypeOK'
  BY <1>1 DEF EdgeInv, EdgeTypeOK, Tables, Counts, Transaction, Updating, Purging, Refreshing
<1>3. Exclusive'
  BY <1>1 DEF EdgeInv, Exclusive
<1>4. ContributorsHaveTheirEdge' /\ WholeRows' /\ CountsAreExact'
  BY DEF EdgeInv, ContributorsHaveTheirEdge, WholeRows, CountsAreExact, Exists, Absent, Counted, Distinct, Tables
<1>5. \A t \in Sessions : Fine(tx'[t])
  BY <1>1 DEF EdgeInv
<1>6. \A t \in Sessions : Fine(tx[t])'
  BY <1>5, FineKept DEF Tables
<1> QED
  BY <1>2, <1>3, <1>4, <1>6 DEF EdgeInv

LEMMA HeatTaskKeeps ==
    ASSUME EdgeInv, NEW s \in Sessions, NEW a \in Activities, HeatTask(s, a) PROVE EdgeInv'
<1> DEFINE d == [NoTransaction EXCEPT !.pc = "matched", !.act = a]
<1>1. /\ d \in Transaction /\ d.pc = "matched" /\ d.act = a /\ d.rows = {} /\ d.held = {}
  <2>1. \A e \in Transaction :
           LET f == [e EXCEPT !.pc = "matched", !.act = a]
           IN  f \in Transaction /\ f.pc = "matched" /\ f.act = a /\ f.rows = e.rows
               /\ f.held = e.held
    BY Zenon DEF Transaction, Updating
  <2> QED
    BY <2>1, NoTransactionType
<1>2. tx' = [tx EXCEPT ![s] = d] /\ UNCHANGED <<Tables, changes, lapses>>
  BY DEF HeatTask, Tables
<1> HIDE DEF d
<1>3. Fine(d)
  BY <1>1 DEF Fine, Shape, Current, Putting, Exact, Updating, Purging, Refreshing
<1>4. changes' \in 0..MaxChanges /\ lapses' \subseteq {"failed", "overtaken"}
  BY <1>2 DEF EdgeInv, EdgeTypeOK
<1> QED
  BY <1>1, <1>2, <1>3, <1>4, SessionKeeps

LEMMA ContributeKeeps == ASSUME EdgeInv, NEW s \in Sessions, Contribute(s) PROVE EdgeInv'
<1> DEFINE a == tx[s].act
<1> DEFINE d == [tx[s] EXCEPT !.pc = "contributed", !.rows = {a}, !.fresh = a \notin contrib]
<1>1. tx[s] \in Transaction /\ tx[s].pc = "matched" /\ a \in Activities /\ Fine(tx[s])
  BY DEF EdgeInv, EdgeTypeOK, Contribute, Fine, Shape, Updating
<1>2. /\ d \in Transaction /\ d.pc = "contributed" /\ d.act = a /\ d.rows = {a}
      /\ d.fresh = (a \notin contrib) /\ d.held = tx[s].held
  <2>1. \A e \in Transaction :
           LET g == [e EXCEPT !.pc = "contributed", !.rows = {a}, !.fresh = a \notin contrib]
           IN  g \in Transaction /\ g.pc = "contributed" /\ g.act = e.act /\ g.rows = {a}
               /\ g.fresh = (a \notin contrib) /\ g.held = e.held
    BY <1>1, Zenon DEF Transaction, Updating
  <2> QED
    BY <1>1, <2>1, Zenon
<1>3. tx' = [tx EXCEPT ![s] = d] /\ UNCHANGED <<Tables, changes, lapses>>
  BY DEF Contribute, Tables, EdgeInv, EdgeTypeOK
<1>4. \A t \in Sessions \ {s} : a \notin tx[t].rows
  BY DEF Contribute, Released
<1> HIDE DEF d
<1>5. tx[s].held = {}
  BY <1>1, Fields DEF Fine, Shape
<1>6. Fine(d)
  BY <1>1, <1>2, <1>5 DEF Fine, Shape, Current, Putting, Exact, Updating, Purging, Refreshing
<1>7. changes' \in 0..MaxChanges /\ lapses' \subseteq {"failed", "overtaken"}
  BY <1>3 DEF EdgeInv, EdgeTypeOK
<1>8. \A t \in Sessions \ {s} : d.rows \cap tx[t].rows = {} /\ d.held \cap tx[t].held = {}
  BY <1>2, <1>4, <1>5
<1> QED
  BY <1>2, <1>3, <1>6, <1>7, <1>8, SessionKeeps

LEMMA UpsertEdgeKeeps == ASSUME EdgeInv, NEW s \in Sessions, UpsertEdge(s) PROVE EdgeInv'
<1> DEFINE a == tx[s].act
<1> DEFINE row == [edge EXCEPT !.pass = Passes(s)]
<1> DEFINE d == [tx[s] EXCEPT !.pc = "upserted", !.held = @ \cup {"edge"}, !.fresh = FALSE,
                              !.put = row]
<1>1. /\ tx[s] \in Transaction /\ tx[s].pc = "contributed" /\ a \in Activities
      /\ tx[s].rows = {a} /\ tx[s].held = {} /\ tx[s].fresh = (a \notin contrib)
  <2>1. tx[s] \in Transaction /\ tx[s].pc = "contributed" /\ Shape(tx[s]) /\ Current(tx[s])
    BY DEF EdgeInv, EdgeTypeOK, UpsertEdge, Fine
  <2>2. tx[s].held \subseteq {"edge", "agg"}
    BY <2>1, Fields
  <2> QED
    BY <2>1, <2>2 DEF Shape, Current, Updating
<1>2. /\ row \in Counts
      /\ row = [edge EXCEPT !.pass = IF ~Exists(edge) THEN 1
                                     ELSE edge.pass + IF a \in contrib THEN 0 ELSE 1]
  <2>1. /\ edge \in Counts /\ edge.pass \in Nat
        /\ Passes(s) = IF ~Exists(edge) THEN 1 ELSE edge.pass + IF a \in contrib THEN 0 ELSE 1
    BY <1>1, FiniteTypes DEF EdgeInv, EdgeTypeOK, Passes
  <2>2. Passes(s) \in Nat
    BY <2>1
  <2>3. \A n \in Nat : [edge EXCEPT !.pass = n] \in Counts
    BY <2>1 DEF Counts
  <2> QED
    BY <2>1, <2>2, <2>3
<1> HIDE DEF row
<1>3. /\ d \in Transaction /\ d.pc = "upserted" /\ d.act = a /\ d.rows = tx[s].rows
      /\ d.held = tx[s].held \cup {"edge"} /\ d.put = row
  <2>1. \A e \in Transaction :
           LET g == [e EXCEPT !.pc = "upserted", !.held = @ \cup {"edge"}, !.fresh = FALSE,
                              !.put = row]
           IN  e.held \cup {"edge"} \in SUBSET {"edge", "agg"} =>
                  /\ g \in Transaction /\ g.pc = "upserted" /\ g.act = e.act
                  /\ g.rows = e.rows /\ g.held = e.held \cup {"edge"} /\ g.put = row
    BY <1>2, Zenon DEF Transaction, Updating
  <2>2. tx[s].held \cup {"edge"} \in SUBSET {"edge", "agg"}
    BY <1>1
  <2> QED
    BY <1>1, <2>1, <2>2, Zenon
<1>4. tx' = [tx EXCEPT ![s] = d] /\ UNCHANGED <<Tables, changes, lapses>>
  BY DEF UpsertEdge, Tables, EdgeInv, EdgeTypeOK, row
<1>5. \A t \in Sessions \ {s} : d.rows \cap tx[t].rows = {} /\ d.held \cap tx[t].held = {}
  BY <1>1, <1>3 DEF EdgeInv, Exclusive, UpsertEdge, Unlocked
<1> HIDE DEF d
<1>6. Fine(d)
  BY <1>1, <1>2, <1>3 DEF Fine, Shape, Current, Putting, Exact, Updating, Purging, Refreshing
<1>7. changes' \in 0..MaxChanges /\ lapses' \subseteq {"failed", "overtaken"}
  BY <1>4 DEF EdgeInv, EdgeTypeOK
<1> QED
  BY <1>3, <1>4, <1>5, <1>6, <1>7, SessionKeeps

(* A deletion and a change of sport begin alike. *)
LEMMA PurgeKeeps ==
    ASSUME EdgeInv, NEW s \in Sessions, NEW a \in Activities, NEW why \in {"delete", "sport"},
           Purge(s, a, why), UNCHANGED <<Tables, lapses>>, changes' \in 0..MaxChanges
    PROVE  EdgeInv'
<1> DEFINE pc == IF a \in contrib THEN "recount" ELSE "purged"
<1> DEFINE R == {a} \cap contrib
<1> DEFINE d == [NoTransaction EXCEPT !.act = a, !.why = why, !.pc = pc, !.rows = R]
<1>1. /\ d \in Transaction /\ d.pc = pc /\ d.act = a /\ d.rows = R /\ d.held = {}
  <2>1. pc \in Pcs /\ R \in SUBSET Activities
    BY DEF Pcs, Purging
  <2> HIDE DEF pc, R
  <2> QED
    BY <2>1, NoTransactionType, Zenon DEF Transaction, Pcs
<1>2. tx' = [tx EXCEPT ![s] = d]
  BY DEF Purge
<1> HIDE DEF d
<1>3. \A t \in Sessions \ {s} : d.rows \cap tx[t].rows = {} /\ d.held \cap tx[t].held = {}
  BY <1>1 DEF Purge, Released
<1>4. Fine(d)
  BY <1>1 DEF Fine, Shape, Current, Putting, Exact, Updating, Purging, Refreshing
<1>5. UNCHANGED Tables /\ lapses' \subseteq {"failed", "overtaken"}
  BY DEF EdgeInv, EdgeTypeOK
<1> QED
  BY <1>1, <1>2, <1>3, <1>4, <1>5, SessionKeeps

LEMMA BeginPurgeKeeps ==
    ASSUME EdgeInv, NEW s \in Sessions, NEW a \in Activities, Delete(s, a) \/ ChangeSport(s, a)
    PROVE  EdgeInv'
<1>1. UNCHANGED <<Tables, lapses>>
  BY DEF Delete, ChangeSport, Tables
<1>2. changes' \in 0..MaxChanges
  BY BoundAssumption DEF EdgeInv, EdgeTypeOK, Delete, ChangeSport
<1>3. Purge(s, a, "delete") \/ Purge(s, a, "sport")
  BY DEF Delete, ChangeSport
<1> QED
  BY <1>1, <1>2, <1>3, PurgeKeeps

LEMMA RecountKeeps == ASSUME EdgeInv, NEW s \in Sessions, Recount(s) PROVE EdgeInv'
<1> DEFINE rewrites == Left(s) # {} /\ Exists(edge)
<1> DEFINE pc == IF rewrites THEN "rewrite" ELSE "prune"
<1> DEFINE put == IF rewrites THEN Counted(Left(s)) ELSE tx[s].put
<1> DEFINE there == Exists(edge)
<1> DEFINE d == [tx[s] EXCEPT !.ways = there, !.pc = pc, !.put = put, !.seen = there]
<1>1. /\ tx[s] \in Transaction /\ tx[s].pc = "recount" /\ tx[s].act \in Activities
      /\ tx[s].rows \subseteq contrib /\ tx[s].act \in tx[s].rows /\ tx[s].held = {}
  <2>1. tx[s] \in Transaction /\ tx[s].pc = "recount" /\ Shape(tx[s])
    BY DEF EdgeInv, EdgeTypeOK, Recount, Fine
  <2>2. tx[s].held \subseteq {"edge", "agg"}
    BY <2>1, Fields
  <2> QED
    BY <2>1, <2>2 DEF Shape, Updating, Purging
<1>2. there
  BY <1>1 DEF EdgeInv, ContributorsHaveTheirEdge
<1>3. /\ Left(s) = contrib \ tx[s].rows /\ Left(s) \in SUBSET Activities
      /\ Counted(Left(s)) \in Counts /\ (Exists(Counted(Left(s))) <=> Left(s) # {})
  <2>1. Left(s) = contrib \ tx[s].rows /\ Left(s) \in SUBSET Activities
    BY DEF EdgeInv, EdgeTypeOK, Left
  <2> QED
    BY <2>1, CountedType
<1>4. pc \in {"rewrite", "prune"} /\ put \in Counts
  BY <1>1, <1>3, Fields
<1>5. /\ d \in Transaction /\ d.pc = pc /\ d.act = tx[s].act /\ d.rows = tx[s].rows
      /\ d.held = {} /\ d.put = put /\ d.seen = TRUE /\ d.ways = TRUE
  <2>1. there = TRUE /\ pc \in Pcs
    BY <1>2, <1>4, Zenon DEF Exists, Pcs, Purging
  <2> HIDE DEF pc, put, there
  <2>2. LET f == [tx[s] EXCEPT !.ways = TRUE, !.pc = pc, !.put = put, !.seen = TRUE]
        IN  /\ f \in Transaction /\ f.pc = pc /\ f.act = tx[s].act /\ f.rows = tx[s].rows
            /\ f.held = tx[s].held /\ f.put = put /\ f.seen = TRUE /\ f.ways = TRUE
    BY <1>1, <1>4, <2>1, Zenon DEF Transaction, Pcs
  <2> QED
    BY <1>1, <2>1, <2>2, Zenon
<1>6. tx' = [tx EXCEPT ![s] = d] /\ UNCHANGED <<Tables, changes, lapses>>
  BY DEF Recount, Tables, EdgeInv, EdgeTypeOK
<1> HIDE DEF d
<1>7. \A t \in Sessions \ {s} : d.rows \cap tx[t].rows = {} /\ d.held \cap tx[t].held = {}
  BY <1>5 DEF EdgeInv, Exclusive
<1>8. Fine(d)
  BY <1>1, <1>2, <1>3, <1>5 DEF Fine, Shape, Current, Putting, Exact, Updating, Purging,
     Refreshing
<1>9. changes' \in 0..MaxChanges /\ lapses' \subseteq {"failed", "overtaken"}
  BY <1>6 DEF EdgeInv, EdgeTypeOK
<1> QED
  BY <1>5, <1>6, <1>7, <1>8, <1>9, SessionKeeps

(* What a session in the middle of a purge is known to have. *)
LEMMA PurgingHas ==
    ASSUME EdgeInv, NEW s \in Sessions, tx[s].pc \in {"rewrite", "prune", "drop"}
    PROVE  /\ tx[s] \in Transaction /\ tx[s].act \in Activities
           /\ tx[s].rows \subseteq contrib /\ tx[s].act \in tx[s].rows
           /\ tx[s].held \in SUBSET {"edge"} /\ tx[s].ways
           /\ Left(s) = contrib \ tx[s].rows /\ Exists(edge) /\ Fine(tx[s])
<1>1. tx[s] \in Transaction /\ Shape(tx[s]) /\ Current(tx[s]) /\ Fine(tx[s])
  BY DEF EdgeInv, EdgeTypeOK, Fine
<1>2. tx[s].held \in SUBSET {"edge", "agg"}
  BY <1>1, Fields
<1> QED
  BY <1>1, <1>2 DEF EdgeInv, ContributorsHaveTheirEdge, Shape, Current, Updating, Purging, Left

LEMMA RewriteKeeps == ASSUME EdgeInv, NEW s \in Sessions, Rewrite(s) PROVE EdgeInv'
<1> DEFINE d == [tx[s] EXCEPT !.pc = "prune", !.held = @ \cup {"edge"}, !.seen = FALSE]
<1>1. /\ tx[s].pc = "rewrite" /\ tx[s] \in Transaction /\ tx[s].seen /\ Exists(tx[s].put)
      /\ tx[s].alone => contrib \ tx[s].rows # {}
                        /\ tx[s].put = Counted(contrib \ tx[s].rows)
  BY PurgingHas DEF Rewrite, Fine, Current, Putting, Exact, Purging
<1>2. /\ d \in Transaction /\ d.pc = "prune" /\ d.act = tx[s].act /\ d.rows = tx[s].rows
      /\ d.held = tx[s].held \cup {"edge"} /\ d.put = tx[s].put /\ d.ways = tx[s].ways
      /\ d.alone = tx[s].alone
  <2>1. tx[s].held \cup {"edge"} \in SUBSET {"edge", "agg"}
    BY <1>1, PurgingHas
  <2> QED
    BY <1>1, <2>1, Zenon DEF Transaction, Purging
<1>3. tx' = [tx EXCEPT ![s] = d] /\ UNCHANGED <<Tables, changes, lapses>>
  BY <1>1 DEF Rewrite, Tables, EdgeInv, EdgeTypeOK
<1> HIDE DEF d
<1>4. \A t \in Sessions \ {s} : d.rows \cap tx[t].rows = {} /\ d.held \cap tx[t].held = {}
  BY <1>1, <1>2 DEF EdgeInv, Exclusive, Rewrite, Unlocked
<1>5. Fine(d)
  BY <1>1, <1>2, PurgingHas DEF Fine, Shape, Current, Putting, Exact, Updating, Purging,
     Refreshing
<1>6. changes' \in 0..MaxChanges /\ lapses' \subseteq {"failed", "overtaken"}
  BY <1>3 DEF EdgeInv, EdgeTypeOK
<1> QED
  BY <1>2, <1>3, <1>4, <1>5, <1>6, SessionKeeps

LEMMA PruneKeeps == ASSUME EdgeInv, NEW s \in Sessions, Prune(s) PROVE EdgeInv'
<1> DEFINE d == IF Left(s) = {} THEN [tx[s] EXCEPT !.pc = "drop", !.seen = TRUE]
                ELSE [tx[s] EXCEPT !.pc = "purged"]
<1>1. /\ tx[s].pc = "prune" /\ tx[s] \in Transaction
      /\ "edge" \in tx[s].held =>
            Exists(tx[s].put) \/ (tx[s].put = Absent /\ contrib \subseteq tx[s].rows)
      /\ tx[s].alone => IF contrib \ tx[s].rows = {} THEN "edge" \notin tx[s].held
                        ELSE "edge" \in tx[s].held /\ tx[s].put = Counted(contrib \ tx[s].rows)
  BY PurgingHas DEF Prune, Fine, Putting, Exact, Purging
<1>2. /\ d \in Transaction /\ d.pc = IF Left(s) = {} THEN "drop" ELSE "purged"
      /\ Left(s) = {} => d.seen
      /\ d.act = tx[s].act /\ d.rows = tx[s].rows /\ d.held = tx[s].held
      /\ d.put = tx[s].put /\ d.ways = tx[s].ways /\ d.alone = tx[s].alone
  BY <1>1, Zenon DEF Transaction, Purging
<1>3. tx' = [tx EXCEPT ![s] = d] /\ UNCHANGED <<Tables, changes, lapses>>
  BY <1>1, PurgingHas DEF Prune, Goes, Tables, EdgeInv, EdgeTypeOK
<1> HIDE DEF d
<1>4. \A t \in Sessions \ {s} : d.rows \cap tx[t].rows = {} /\ d.held \cap tx[t].held = {}
  BY <1>2 DEF EdgeInv, Exclusive
<1>5. Fine(d)
  BY <1>1, <1>2, PurgingHas DEF Fine, Shape, Current, Putting, Exact, Updating, Purging,
     Refreshing
<1>6. changes' \in 0..MaxChanges /\ lapses' \subseteq {"failed", "overtaken"}
  BY <1>3 DEF EdgeInv, EdgeTypeOK
<1> QED
  BY <1>2, <1>3, <1>4, <1>5, <1>6, SessionKeeps

LEMMA DropKeeps == ASSUME EdgeInv, NEW s \in Sessions, Drop(s) PROVE EdgeInv'
<1> DEFINE d == [tx[s] EXCEPT !.pc = "purged", !.held = @ \cup {"edge"}, !.put = Absent,
                              !.rows = @ \cup contrib, !.seen = FALSE]
<1>1. tx[s].pc = "drop" /\ tx[s] \in Transaction /\ tx[s].seen
  BY PurgingHas DEF Drop, Fine, Current
<1>2. /\ d \in Transaction /\ d.pc = "purged" /\ d.act = tx[s].act /\ d.put = Absent
      /\ d.rows = tx[s].rows \cup contrib /\ d.held = tx[s].held \cup {"edge"}
      /\ d.ways = tx[s].ways /\ d.alone = tx[s].alone
  <2>1. /\ tx[s].held \cup {"edge"} \in SUBSET {"edge", "agg"}
        /\ tx[s].rows \cup contrib \in SUBSET Activities /\ Absent \in Counts
    BY <1>1, PurgingHas, FiniteTypes DEF EdgeInv, EdgeTypeOK
  <2> QED
    BY <1>1, <2>1, Zenon DEF Transaction, Purging
<1>3. tx' = [tx EXCEPT ![s] = d] /\ UNCHANGED <<Tables, changes, lapses>>
  BY <1>1 DEF Drop, Tables, EdgeInv, EdgeTypeOK
<1> HIDE DEF d
<1>4. \A t \in Sessions \ {s} : d.rows \cap tx[t].rows = {} /\ d.held \cap tx[t].held = {}
  BY <1>1, <1>2 DEF EdgeInv, Exclusive, Drop, Unlocked, Released
<1>5. d.rows = contrib /\ contrib \ d.rows = {}
  BY <1>1, <1>2, PurgingHas
<1>6. Fine(d)
  BY <1>1, <1>2, <1>5, PurgingHas, CountedNone DEF Fine, Shape, Current, Putting, Exact,
     Updating, Purging, Refreshing
<1>7. changes' \in 0..MaxChanges /\ lapses' \subseteq {"failed", "overtaken"}
  BY <1>3 DEF EdgeInv, EdgeTypeOK
<1> QED
  BY <1>2, <1>3, <1>4, <1>6, <1>7, SessionKeeps

(* A session without locks. *)
LEMMA FreshStart ==
    /\ Fine(NoTransaction)
    /\ \A p \in {"committed", "idle"} :
          LET d == [NoTransaction EXCEPT !.pc = p]
          IN  d \in Transaction /\ d.pc = p /\ d.rows = {} /\ d.held = {} /\ Fine(d)
<1>1. \A d \in Transaction :
         d.pc \in {"committed", "idle", "matched"} /\ d.rows = {} /\ d.held = {}
         /\ (d.pc = "matched" => d.act \in Activities) => Fine(d)
  BY DEF Fine, Shape, Current, Putting, Exact, Updating, Purging, Refreshing
<1>2. \A p \in Pcs :
          LET d == [NoTransaction EXCEPT !.pc = p]
          IN  d \in Transaction /\ d.pc = p /\ d.rows = {} /\ d.held = {}
  BY NoTransactionType, Zenon DEF Transaction, Pcs
<1>3. \A p \in {"committed", "idle"} : p \in Pcs
  BY DEF Pcs, Refreshing
<1> QED
  BY <1>1, <1>2, <1>3, NoTransactionType

LEMMA AbortKeeps == ASSUME EdgeInv, NEW s \in Sessions, Abort(s) PROVE EdgeInv'
<1> DEFINE d == IF tx[s].pc \in Updating /\ tx[s].ways
                THEN [NoTransaction EXCEPT !.pc = "committed"] ELSE NoTransaction
<1>1. d \in Transaction /\ d.rows = {} /\ d.held = {} /\ Fine(d)
  BY FreshStart, NoTransactionType
<1>2. tx' = [tx EXCEPT ![s] = d] /\ UNCHANGED <<Tables, changes, lapses>>
  BY DEF Abort, Tables
<1>3. changes' \in 0..MaxChanges /\ lapses' \subseteq {"failed", "overtaken"}
  BY <1>2 DEF EdgeInv, EdgeTypeOK
<1> HIDE DEF d
<1> QED
  BY <1>1, <1>2, <1>3, SessionKeeps

LEMMA RefreshKeeps ==
    ASSUME EdgeInv, NEW s \in Sessions, BeginRefresh(s) \/ ClearAgg(s) \/ SelectEdges(s)
    PROVE  EdgeInv'
<1>0. /\ tx[s] \in Transaction /\ tx[s].pc \in Refreshing /\ tx[s].rows = {}
      /\ tx[s].held \in SUBSET {"agg"} /\ edge \in Counts
      /\ tx[s].pc # "select" => tx[s].held = {} \/ tx[s].pc = "insert"
  <2>1. tx[s] \in Transaction /\ tx[s].pc \in Refreshing /\ Shape(tx[s]) /\ edge \in Counts
    BY DEF EdgeInv, EdgeTypeOK, BeginRefresh, ClearAgg, SelectEdges, Refreshing, Fine
  <2>2. tx[s].held \in SUBSET {"edge", "agg"}
    BY <2>1, Fields
  <2> QED
    BY <2>1, <2>2 DEF Shape, Refreshing
<1>1. ASSUME NEW d \in Transaction, tx' = [tx EXCEPT ![s] = d], d.rows = {},
             d.pc \in {"clear", "select", "insert"},
             d.held = tx[s].held \/ (d.held = {"agg"} /\ Unlocked(s, "agg")),
             d.held # {} => d.pc # "clear", d.pc = "insert" => d.put = edge
      PROVE  EdgeInv'
  <2>1. UNCHANGED <<Tables, changes, lapses>>
    BY DEF BeginRefresh, ClearAgg, SelectEdges, Tables
  <2>2. \A t \in Sessions \ {s} : d.rows \cap tx[t].rows = {} /\ d.held \cap tx[t].held = {}
    BY <1>1 DEF EdgeInv, Exclusive, Unlocked
  <2>3. Fine(d)
    BY <1>0, <1>1 DEF EdgeInv, WholeRows, Fine, Shape, Current, Putting, Exact, Updating,
       Purging, Refreshing
  <2>4. changes' \in 0..MaxChanges /\ lapses' \subseteq {"failed", "overtaken"}
    BY <2>1 DEF EdgeInv, EdgeTypeOK
  <2> QED
    BY <1>1, <2>1, <2>2, <2>3, <2>4, SessionKeeps
<1>2. CASE BeginRefresh(s)
  <2> DEFINE there == Exists(agg)
  <2> DEFINE d == [tx[s] EXCEPT !.pc = "clear", !.seen = there]
  <2>1. /\ d \in Transaction /\ d.pc = "clear" /\ d.rows = tx[s].rows /\ d.held = tx[s].held
    <3>1. there \in BOOLEAN
      BY DEF Exists
    <3> HIDE DEF there
    <3> QED
      BY <1>0, <3>1, Zenon DEF Transaction, Refreshing
  <2>2. tx' = [tx EXCEPT ![s] = d] /\ tx[s].pc = "committed"
    BY <1>2 DEF BeginRefresh, EdgeInv, EdgeTypeOK
  <2> HIDE DEF d
  <2> QED
    BY <1>0, <1>1, <2>1, <2>2
<1>3. CASE ClearAgg(s)
  <2>1. CASE tx[s].seen /\ Unlocked(s, "agg")
             /\ tx' = [tx EXCEPT ![s].pc = "select", ![s].held = {"agg"}, ![s].seen = FALSE]
    <3> DEFINE d == [tx[s] EXCEPT !.pc = "select", !.held = {"agg"}, !.seen = FALSE]
    <3>1. d \in Transaction /\ d.pc = "select" /\ d.rows = tx[s].rows /\ d.held = {"agg"}
      BY <1>0, Zenon DEF Transaction, Refreshing
    <3>2. tx' = [tx EXCEPT ![s] = d]
      BY <2>1 DEF EdgeInv, EdgeTypeOK
    <3> HIDE DEF d
    <3> QED
      BY <1>0, <1>1, <2>1, <3>1, <3>2
  <2>2. CASE Goes(s, "select")
    <3> DEFINE d == [tx[s] EXCEPT !.pc = "select"]
    <3>1. d \in Transaction /\ d.pc = "select" /\ d.rows = tx[s].rows /\ d.held = tx[s].held
      BY <1>0, Zenon DEF Transaction, Refreshing
    <3>2. tx' = [tx EXCEPT ![s] = d]
      BY <2>2 DEF EdgeInv, EdgeTypeOK, Goes
    <3> HIDE DEF d
    <3> QED
      BY <1>0, <1>1, <3>1, <3>2
  <2> QED
    BY <1>3, <2>1, <2>2 DEF ClearAgg
<1>4. CASE SelectEdges(s)
  <2> DEFINE d == [tx[s] EXCEPT !.pc = "insert", !.put = edge]
  <2>1. /\ d \in Transaction /\ d.pc = "insert" /\ d.rows = tx[s].rows /\ d.held = tx[s].held
        /\ d.put = edge
    BY <1>0, Zenon DEF Transaction, Refreshing
  <2>2. tx' = [tx EXCEPT ![s] = d]
    BY <1>4 DEF SelectEdges, EdgeInv, EdgeTypeOK
  <2> HIDE DEF d
  <2> QED
    BY <1>0, <1>1, <2>1, <2>2
<1> QED
  BY <1>2, <1>3, <1>4

-----------------------------------------------------------------------------

(* What a commit leaves of the others. *)
LEMMA AfterCommitLeaves ==
    ASSUME EdgeTypeOK, NEW s \in Sessions, NEW next \in Transaction,
           NEW dropped \in BOOLEAN, AfterCommit(s, next, dropped)
    PROVE  /\ tx' \in [Sessions -> Transaction] /\ tx'[s] = next
           /\ \A t \in Sessions \ {s} :
                 /\ tx'[t].pc = tx[t].pc /\ tx'[t].act = tx[t].act /\ tx'[t].why = tx[t].why
                 /\ tx'[t].fresh = tx[t].fresh /\ tx'[t].put = tx[t].put
                 /\ tx'[t].rows = tx[t].rows /\ tx'[t].held = tx[t].held
                 /\ tx'[t].passed = tx[t].passed /\ tx'[t].ways = tx[t].ways
                 /\ tx[t].pc \in Purging => ~tx'[t].alone
                 /\ ~dropped \/ tx[t].pc \notin Purging => (tx'[t].seen <=> tx[t].seen)
<1>1. ASSUME NEW t \in Sessions \ {s}
      PROVE  LET x == tx[t].alone /\ tx[t].pc \notin Purging
                 y == tx[t].seen /\ ~(dropped /\ tx[t].pc \in Purging)
             IN  /\ tx[t] \in Transaction /\ x \in BOOLEAN /\ y \in BOOLEAN
                 /\ tx'[t] = [tx[t] EXCEPT !.alone = x, !.seen = y]
  <2>1. tx[t] \in Transaction
    BY DEF EdgeTypeOK
  <2> QED
    BY <2>1, Fields DEF AfterCommit
<1>2. ASSUME NEW t \in Sessions \ {s}
      PROVE  /\ tx'[t] \in Transaction
             /\ tx'[t].pc = tx[t].pc /\ tx'[t].act = tx[t].act /\ tx'[t].why = tx[t].why
             /\ tx'[t].fresh = tx[t].fresh /\ tx'[t].put = tx[t].put
             /\ tx'[t].rows = tx[t].rows /\ tx'[t].held = tx[t].held
             /\ tx'[t].passed = tx[t].passed /\ tx'[t].ways = tx[t].ways
             /\ tx[t].pc \in Purging => ~tx'[t].alone
             /\ ~dropped \/ tx[t].pc \notin Purging => (tx'[t].seen <=> tx[t].seen)
  <2> DEFINE x == tx[t].alone /\ tx[t].pc \notin Purging
  <2> DEFINE y == tx[t].seen /\ ~(dropped /\ tx[t].pc \in Purging)
  <2>1. /\ tx[t] \in Transaction /\ x \in BOOLEAN /\ y \in BOOLEAN
        /\ tx'[t] = [tx[t] EXCEPT !.alone = x, !.seen = y]
    BY <1>1
  <2>2. /\ tx[t].pc \in Purging => ~x
        /\ ~dropped \/ tx[t].pc \notin Purging => (y <=> tx[t].seen)
    OBVIOUS
  <2> HIDE DEF x, y
  <2> DEFINE e == [tx[t] EXCEPT !.alone = x, !.seen = y]
  <2>3. /\ e \in Transaction
        /\ e.pc = tx[t].pc /\ e.act = tx[t].act /\ e.why = tx[t].why
        /\ e.fresh = tx[t].fresh /\ e.put = tx[t].put /\ e.rows = tx[t].rows
        /\ e.held = tx[t].held /\ e.passed = tx[t].passed /\ e.ways = tx[t].ways
        /\ e.alone = x /\ e.seen = y
    BY <2>1, Zenon DEF Transaction
  <2> HIDE DEF e
  <2>4. tx'[t] = e
    BY <2>1 DEF e
  <2>5. /\ tx[t].pc \in Purging => ~tx'[t].alone
        /\ ~dropped \/ tx[t].pc \notin Purging => (tx'[t].seen <=> tx[t].seen)
    BY <2>2, <2>3, <2>4, Zenon
  <2> QED
    BY <2>3, <2>4, <2>5
<1>3. tx'[s] = next /\ tx' = [t \in Sessions |-> tx'[t]]
  BY DEF AfterCommit
<1>4. tx' \in [Sessions -> Transaction]
  BY <1>2, <1>3
<1> QED
  BY <1>2, <1>3, <1>4

LEMMA CommitHeatKeeps == ASSUME EdgeInv, NEW s \in Sessions, CommitHeat(s) PROVE EdgeInv'
<1> DEFINE a == tx[s].act
<1> DEFINE counted == contrib \cup {a}
<1> DEFINE next == [NoTransaction EXCEPT !.pc = "committed"]
<1>1. /\ tx[s].pc = "upserted" /\ a \in Activities /\ tx[s].rows = {a}
      /\ "edge" \in tx[s].held
      /\ tx[s].put = [edge EXCEPT !.pass = IF ~Exists(edge) THEN 1
                                           ELSE edge.pass + IF a \in contrib THEN 0 ELSE 1]
  BY DEF CommitHeat, EdgeInv, Fine, Shape, Current, Updating
<1>2. /\ contrib' = counted /\ edge' = [tx[s].put EXCEPT !.riders = Distinct(counted)]
      /\ UNCHANGED <<ride, agg, changes, raced, unpurged, lapses>>
      /\ belated' \in {belated, belated \cup {a}} /\ AfterCommit(s, next, FALSE)
  BY DEF CommitHeat
<1>3. /\ counted \in SUBSET Activities /\ Distinct(counted) \in 0..Cardinality(Riders)
      /\ IsFiniteSet(counted)
  BY <1>1, CountedType DEF EdgeInv, EdgeTypeOK
<1>4. edge \in Counts /\ edge.pass \in Nat
  BY FiniteTypes DEF EdgeInv, EdgeTypeOK
<1>5. /\ edge' \in Counts /\ Exists(edge')
      /\ edge' = [pass |-> IF ~Exists(edge) THEN 1
                           ELSE edge.pass + IF a \in contrib THEN 0 ELSE 1,
                  riders |-> Distinct(counted)]
  <2> DEFINE n == IF ~Exists(edge) THEN 1 ELSE edge.pass + IF a \in contrib THEN 0 ELSE 1
  <2>1. n \in Nat /\ n > 0
    BY <1>4 DEF Exists
  <2>2. edge' = [pass |-> n, riders |-> Distinct(counted)]
    BY <1>1, <1>2, <1>4, <2>1 DEF Counts
  <2> HIDE DEF n
  <2>3. edge' \in Counts /\ Exists(edge')
    BY <1>3, <2>1, <2>2 DEF Counts, Exists
  <2> QED
    BY <2>2, <2>3 DEF n
<1> HIDE DEF counted
<1>6. next \in Transaction /\ next.pc = "committed" /\ next.rows = {} /\ next.held = {}
  BY FreshStart
<1> HIDE DEF next
<1>7. /\ tx' \in [Sessions -> Transaction] /\ tx'[s] = next
      /\ \A t \in Sessions \ {s} :
            /\ tx'[t].pc = tx[t].pc /\ tx'[t].act = tx[t].act
            /\ tx'[t].fresh = tx[t].fresh /\ tx'[t].put = tx[t].put
            /\ tx'[t].rows = tx[t].rows /\ tx'[t].held = tx[t].held
            /\ tx'[t].ways = tx[t].ways
            /\ tx[t].pc \in Purging => ~tx'[t].alone
            /\ tx'[t].seen <=> tx[t].seen
  BY <1>2, <1>6, AfterCommitLeaves DEF EdgeInv
<1>8. EdgeTypeOK'
  BY <1>1, <1>2, <1>3, <1>5, <1>7 DEF EdgeInv, EdgeTypeOK, Counts, Transaction, Updating,
     Purging, Refreshing
<1>9. Exclusive'
  BY <1>6, <1>7 DEF EdgeInv, Exclusive
<1>10. ContributorsHaveTheirEdge' /\ WholeRows'
  BY <1>2, <1>5 DEF EdgeInv, ContributorsHaveTheirEdge, WholeRows, Exists, Absent
<1>11. CountsAreExact'
  <2> SUFFICES ASSUME ~raced PROVE edge' = Counted(counted)
    BY <1>2 DEF CountsAreExact, Counted, Distinct
  <2>1. edge = Counted(contrib) /\ contrib \in SUBSET Activities
    BY DEF EdgeInv, CountsAreExact, EdgeTypeOK
  <2>2. Exists(edge) <=> contrib # {}
    BY <2>1, CountedType
  <2>3. edge.pass = Cardinality(contrib)
    BY <2>1 DEF Counted
  <2>4. Cardinality(counted) =
           IF ~Exists(edge) THEN 1 ELSE edge.pass + IF a \in contrib THEN 0 ELSE 1
    BY <1>1, <2>1, <2>2, <2>3, CountedOneMore DEF counted
  <2> QED
    BY <1>5, <2>4 DEF Counted
<1>12. ASSUME NEW t \in Sessions PROVE Fine(tx[t])'
  <2>1. CASE t = s
    BY <1>6, <1>7, <2>1 DEF Fine, Shape, Current, Putting, Exact, Updating, Purging,
       Refreshing
  <2>2. CASE t # s
    <3>1. Fine(tx[t]) /\ a \notin tx[t].rows /\ "edge" \notin tx[t].held
      BY <1>1, <2>2 DEF EdgeInv, Exclusive
    <3>2. Shape(tx[t])'
      BY <1>2, <1>7, <2>2, <3>1 DEF counted, Fine, Shape, Updating, Purging, Refreshing
    <3>3. Current(tx[t])'
      <4>1. tx[t].pc # "upserted"
        BY <3>1 DEF Fine, Shape
      <4>2. tx[t].pc = "contributed" => (tx[t].act \in contrib' <=> tx[t].act \in contrib)
        BY <1>2, <3>1 DEF counted, Fine, Shape
      <4> QED
        BY <1>7, <2>2, <3>1, <4>1, <4>2 DEF Fine, Current
    <3>4. Putting(tx[t])'
      BY <1>7, <2>2, <3>1 DEF Fine, Putting, Exists, Absent, Purging
    <3>5. Exact(tx[t])'
      BY <1>7, <2>2 DEF Exact, Purging
    <3> QED
      BY <3>2, <3>3, <3>4, <3>5 DEF Fine
  <2> QED
    BY <2>1, <2>2
<1> QED
  BY <1>8, <1>9, <1>10, <1>11, <1>12 DEF EdgeInv

(* Where a purge leads: to the trace under the new sport or to the refresh, if *)
(* it has looked the ways up.                                                  *)
LEMMA OnwardsLeads ==
    ASSUME EdgeInv, NEW s \in Sessions, tx[s].pc = "purged"
    PROVE  LET d == Onwards(s)
           IN  /\ d \in Transaction /\ d.pc \in {"idle", "committed", "matched"}
               /\ d.rows = {} /\ d.held = {}
               /\ d.pc = "matched" => d.act \in Activities
               /\ tx[s].ways => d.pc = "committed" \/ (d.pc = "matched" /\ d.ways)
<1>1. tx[s] \in Transaction /\ tx[s].act \in Activities /\ tx[s].ways \in BOOLEAN
  BY Fields DEF EdgeInv, EdgeTypeOK, Fine, Shape, Purging
<1>2. LET d == [NoTransaction EXCEPT !.pc = "matched", !.act = tx[s].act, !.ways = tx[s].ways]
      IN  /\ d \in Transaction /\ d.pc = "matched" /\ d.rows = {} /\ d.held = {}
          /\ d.act = tx[s].act /\ d.ways = tx[s].ways
  BY <1>1, NoTransactionType, Zenon DEF Transaction, Updating
<1> QED
  BY <1>1, <1>2, FreshStart, NoTransactionType DEF Onwards

LEMMA CommitPurgeKeeps == ASSUME EdgeInv, NEW s \in Sessions, CommitPurge(s) PROVE EdgeInv'
<1> DEFINE a == tx[s].act
<1> DEFINE wrote == "edge" \in tx[s].held
<1> DEFINE taken == tx[s].rows
<1> DEFINE next == Onwards(s)
<1>1. /\ tx[s].pc = "purged" /\ tx[s] \in Transaction /\ taken \subseteq contrib
      /\ a \in Activities /\ tx[s].put \in Counts
      /\ wrote => taken # {} /\ (Exists(tx[s].put) \/ (tx[s].put = Absent /\ contrib \subseteq taken))
      /\ taken # {} /\ tx[s].alone => wrote /\ tx[s].put = Counted(contrib \ taken)
  <2>1. tx[s].pc = "purged" /\ tx[s] \in Transaction /\ Fine(tx[s])
    BY DEF CommitPurge, EdgeInv, EdgeTypeOK
  <2> QED
    BY <2>1, Fields DEF Fine, Shape, Putting, Exact, Purging
<1>2. /\ contrib' = contrib \ taken /\ edge' = (IF wrote THEN tx[s].put ELSE edge)
      /\ raced' = IF taken = {} THEN raced ELSE IF tx[s].alone THEN raced /\ ~wrote ELSE TRUE
      /\ belated' \subseteq belated /\ unpurged' \subseteq unpurged
      /\ UNCHANGED <<agg, changes, lapses>>
  BY DEF CommitPurge, Left
<1>3. ride' \in [Activities -> {"here", "other", "gone"}]
  <2>1. \A x \in {"here", "other", "gone"} : OtherSport(x) \in {"here", "other", "gone"}
    BY DEF OtherSport
  <2> QED
    BY <1>1, <2>1 DEF CommitPurge, EdgeInv, EdgeTypeOK
<1>4. /\ next \in Transaction /\ next.pc \in {"idle", "committed", "matched"}
      /\ next.rows = {} /\ next.held = {}
      /\ next.pc = "matched" => next.act \in Activities
  BY <1>1, OnwardsLeads
<1> HIDE DEF next
<1>5. /\ tx' \in [Sessions -> Transaction] /\ tx'[s] = next
      /\ \A t \in Sessions \ {s} :
            /\ tx'[t].pc = tx[t].pc /\ tx'[t].act = tx[t].act
            /\ tx'[t].fresh = tx[t].fresh /\ tx'[t].put = tx[t].put
            /\ tx'[t].rows = tx[t].rows /\ tx'[t].held = tx[t].held
            /\ tx'[t].ways = tx[t].ways
            /\ tx[t].pc \in Purging /\ taken # {} => ~tx'[t].alone
            /\ taken = {} => tx'[t] = tx[t]
            /\ tx[t].pc \in {"rewrite", "drop"} => (tx'[t].seen <=> tx[t].seen)
  <2>1. CASE taken = {}
    BY <1>4, <2>1 DEF CommitPurge, EdgeInv, EdgeTypeOK, next
  <2>2. CASE taken # {}
    <3> DEFINE dropped == wrote /\ tx[s].put = Absent
    <3>1. AfterCommit(s, next, dropped) /\ dropped \in BOOLEAN
      BY <2>2 DEF CommitPurge, next
    <3>2. ASSUME NEW t \in Sessions \ {s}, tx[t].pc \in {"rewrite", "drop"} PROVE ~dropped
      <4>1. tx[t].act \in tx[t].rows /\ tx[t].rows \subseteq contrib
        BY <3>2, PurgingHas
      <4>2. tx[t].rows \cap taken = {}
        BY DEF EdgeInv, Exclusive
      <4> QED
        BY <1>1, <4>1, <4>2, FiniteTypes
    <3> HIDE DEF dropped
    <3> QED
      BY <1>4, <2>2, <3>1, <3>2, AfterCommitLeaves DEF EdgeInv
  <2> QED
    BY <2>1, <2>2
<1>6. edge' \in Counts /\ raced' \in BOOLEAN
  BY <1>1, <1>2 DEF EdgeInv, EdgeTypeOK
<1>7. EdgeTypeOK'
  BY <1>2, <1>3, <1>5, <1>6 DEF EdgeInv, EdgeTypeOK, Counts, Transaction, Updating, Purging,
     Refreshing
<1>8. Exclusive'
  BY <1>4, <1>5 DEF EdgeInv, Exclusive
<1>9. ContributorsHaveTheirEdge' /\ WholeRows'
  BY <1>1, <1>2 DEF EdgeInv, ContributorsHaveTheirEdge, WholeRows, Exists, Absent
<1>10. CountsAreExact'
  <2> SUFFICES ASSUME ~raced' PROVE edge' = Counted(contrib \ taken)
    BY <1>2 DEF CountsAreExact, Counted, Distinct
  <2>1. CASE taken = {}
    <3>1. contrib \ taken = contrib /\ ~wrote /\ ~raced
      BY <1>1, <1>2, <2>1
    <3> QED
      BY <1>2, <3>1 DEF EdgeInv, CountsAreExact
  <2>2. CASE taken # {}
    <3>1. tx[s].alone
      BY <1>2, <2>2
    <3> QED
      BY <1>1, <1>2, <2>2, <3>1
  <2> QED
    BY <2>1, <2>2
<1>11. ASSUME NEW t \in Sessions PROVE Fine(tx[t])'
  <2>1. CASE t = s
    BY <1>4, <1>5, <2>1 DEF Fine, Shape, Current, Putting, Exact, Updating, Purging,
       Refreshing
  <2>2. CASE t # s /\ taken = {}
    <3>1. UNCHANGED <<contrib, edge>> /\ tx'[t] = tx[t]
      BY <1>1, <1>2, <1>5, <2>2
    <3>2. Fine(tx[t])
      BY DEF EdgeInv
    <3> QED
      BY <3>1, <3>2, FineKept
  <2>3. CASE t # s /\ taken # {}
    <3>1. Fine(tx[t]) /\ taken \cap tx[t].rows = {} /\ (wrote => "edge" \notin tx[t].held)
      BY <2>3 DEF EdgeInv, Exclusive
    <3>2. Shape(tx[t])'
      BY <1>2, <1>5, <2>3, <3>1 DEF Fine, Shape, Updating, Purging, Refreshing
    <3>3. Current(tx[t])'
      <4>1. tx[t].pc \in {"contributed", "upserted"} =>
               tx[t].act \in tx[t].rows /\ (tx[t].act \in contrib' <=> tx[t].act \in contrib)
        BY <1>2, <3>1 DEF Fine, Shape
      <4>2. tx[t].pc = "upserted" => edge' = edge
        BY <1>2, <3>1 DEF Fine, Shape
      <4> QED
        BY <1>5, <2>3, <3>1, <4>1, <4>2 DEF Fine, Current, Exists
    <3>4. Putting(tx[t])'
      BY <1>2, <1>5, <2>3, <3>1 DEF Fine, Putting, Exists, Absent, Purging
    <3>5. Exact(tx[t])'
      BY <1>5, <2>3 DEF Exact, Purging
    <3> QED
      BY <3>2, <3>3, <3>4, <3>5 DEF Fine
  <2> QED
    BY <2>1, <2>2, <2>3
<1> QED
  BY <1>7, <1>8, <1>9, <1>10, <1>11 DEF EdgeInv

(* What a refresh leaves of the others. *)
LEMMA RefreshedLeaves ==
    ASSUME EdgeTypeOK, NEW s \in Sessions, Refreshed(s)
    PROVE  /\ tx' \in [Sessions -> Transaction] /\ tx'[s] = NoTransaction
           /\ \A t \in Sessions \ {s} :
                 /\ tx'[t].pc = tx[t].pc /\ tx'[t].act = tx[t].act /\ tx'[t].why = tx[t].why
                 /\ tx'[t].fresh = tx[t].fresh /\ tx'[t].put = tx[t].put
                 /\ tx'[t].rows = tx[t].rows /\ tx'[t].held = tx[t].held
                 /\ tx'[t].alone = tx[t].alone /\ tx'[t].ways = tx[t].ways
                 /\ tx[t].pc = "insert" => tx'[t].passed
                 /\ tx[t].pc # "clear" => (tx'[t].seen <=> tx[t].seen)
<1>1. ASSUME NEW t \in Sessions \ {s}
      PROVE  /\ tx'[t] \in Transaction
             /\ tx'[t].pc = tx[t].pc /\ tx'[t].act = tx[t].act /\ tx'[t].why = tx[t].why
             /\ tx'[t].fresh = tx[t].fresh /\ tx'[t].put = tx[t].put
             /\ tx'[t].rows = tx[t].rows /\ tx'[t].held = tx[t].held
             /\ tx'[t].alone = tx[t].alone /\ tx'[t].ways = tx[t].ways
             /\ tx[t].pc = "insert" => tx'[t].passed
             /\ tx[t].pc # "clear" => (tx'[t].seen <=> tx[t].seen)
  <2> DEFINE x == tx[t].seen /\ ~(tx[t].pc = "clear" /\ "agg" \in tx[s].held)
  <2> DEFINE y == tx[t].passed \/ tx[t].pc = "insert"
  <2>1. /\ tx[t] \in Transaction /\ x \in BOOLEAN /\ y \in BOOLEAN
        /\ tx'[t] = [tx[t] EXCEPT !.seen = x, !.passed = y]
    <3>1. tx[t] \in Transaction
      BY DEF EdgeTypeOK
    <3> QED
      BY <3>1, Fields DEF Refreshed
  <2>2. /\ tx[t].pc = "insert" => y
        /\ tx[t].pc # "clear" => (x <=> tx[t].seen)
    OBVIOUS
  <2> HIDE DEF x, y
  <2> DEFINE e == [tx[t] EXCEPT !.seen = x, !.passed = y]
  <2>3. /\ e \in Transaction
        /\ e.pc = tx[t].pc /\ e.act = tx[t].act /\ e.why = tx[t].why
        /\ e.fresh = tx[t].fresh /\ e.put = tx[t].put /\ e.rows = tx[t].rows
        /\ e.held = tx[t].held /\ e.alone = tx[t].alone /\ e.ways = tx[t].ways
        /\ e.seen = x /\ e.passed = y
    BY <2>1, Zenon DEF Transaction
  <2> HIDE DEF e
  <2>4. tx'[t] = e
    BY <2>1 DEF e
  <2>5. /\ tx[t].pc = "insert" => tx'[t].passed
        /\ tx[t].pc # "clear" => (tx'[t].seen <=> tx[t].seen)
    BY <2>2, <2>3, <2>4, Zenon
  <2> QED
    BY <2>3, <2>4, <2>5
<1>2. tx'[s] = NoTransaction /\ tx' = [t \in Sessions |-> tx'[t]]
  BY DEF Refreshed
<1>3. tx' \in [Sessions -> Transaction]
  BY <1>1, <1>2, NoTransactionType
<1> QED
  BY <1>1, <1>2, <1>3

LEMMA InsertAggKeeps == ASSUME EdgeInv, NEW s \in Sessions, InsertAgg(s) PROVE EdgeInv'
<1>1. /\ UNCHANGED <<ride, contrib, edge, changes, raced, belated, unpurged>>
      /\ agg' \in {tx[s].put, Absent, agg} /\ lapses' \in {{}, lapses, lapses \cup {"overtaken"}}
      /\ agg' = tx[s].put => Exists(agg') \/ agg' \in {Absent, agg}
      /\ tx[s] \in Transaction /\ tx[s].put \in Counts
  <2>1. tx[s] \in Transaction
    BY DEF EdgeInv, EdgeTypeOK
  <2> QED
    BY <2>1, Fields DEF InsertAgg
<1>2. /\ tx' \in [Sessions -> Transaction] /\ tx'[s] = NoTransaction
      /\ \A t \in Sessions \ {s} :
            /\ tx'[t].pc = tx[t].pc /\ tx'[t].act = tx[t].act
            /\ tx'[t].fresh = tx[t].fresh /\ tx'[t].put = tx[t].put
            /\ tx'[t].rows = tx[t].rows /\ tx'[t].held = tx[t].held
            /\ tx'[t].alone = tx[t].alone /\ tx'[t].ways = tx[t].ways
            /\ tx[t].pc # "clear" => (tx'[t].seen <=> tx[t].seen)
  BY RefreshedLeaves DEF InsertAgg, EdgeInv
<1>3. EdgeTypeOK'
  <2>1. agg' \in Counts /\ lapses' \subseteq {"failed", "overtaken"}
    BY <1>1, FiniteTypes DEF EdgeInv, EdgeTypeOK
  <2> QED
    BY <1>1, <1>2, <2>1 DEF EdgeInv, EdgeTypeOK, Counts, Transaction, Updating, Purging,
       Refreshing
<1>4. Exclusive'
  BY <1>2, NoTransactionType DEF EdgeInv, Exclusive
<1>5. ContributorsHaveTheirEdge' /\ WholeRows' /\ CountsAreExact'
  BY <1>1 DEF EdgeInv, ContributorsHaveTheirEdge, WholeRows, CountsAreExact, Exists, Absent, Counted, Distinct
<1>6. ASSUME NEW t \in Sessions PROVE Fine(tx[t])'
  <2>1. CASE t = s
    <3>1. Fine(NoTransaction)'
      BY <1>1, FreshStart, FineKept
    <3> QED
      BY <1>2, <2>1, <3>1
  <2>2. CASE t # s
    <3>1. Fine(tx[t])
      BY DEF EdgeInv
    <3> QED
      BY <1>1, <1>2, <2>2, <3>1 DEF Fine, Shape, Current, Putting, Exact, Counted, Distinct,
         Absent, Exists, Updating, Purging, Refreshing
  <2> QED
    BY <2>1, <2>2
<1> QED
  BY <1>3, <1>4, <1>5, <1>6 DEF EdgeInv

LEMMA RefreshFailsKeeps == ASSUME EdgeInv, NEW s \in Sessions, RefreshFails(s) PROVE EdgeInv'
<1>1. /\ tx' = [tx EXCEPT ![s] = NoTransaction] /\ UNCHANGED <<Tables, changes>>
      /\ lapses' = lapses \cup {"failed"}
  BY DEF RefreshFails, Tables
<1>2. changes' \in 0..MaxChanges /\ lapses' \subseteq {"failed", "overtaken"}
  BY <1>1 DEF EdgeInv, EdgeTypeOK
<1> QED
  BY <1>1, <1>2, FreshStart, NoTransactionType, SessionKeeps

(* No transaction takes part. *)
LEMMA OutsideKeeps ==
    ASSUME EdgeInv, UNCHANGED <<contrib, edge, tx, changes, raced, belated>>,
           agg' \in {agg, edge}, lapses' \in {lapses, {}}, unpurged' \subseteq Activities,
           ride' \in [Activities -> {"here", "other", "gone"}]
    PROVE  EdgeInv'
<1>1. EdgeTypeOK'
  BY DEF EdgeInv, EdgeTypeOK, Counts, Transaction, Updating, Purging, Refreshing
<1>2. Exclusive'
  BY DEF EdgeInv, Exclusive
<1>3. ContributorsHaveTheirEdge' /\ WholeRows' /\ CountsAreExact'
  BY DEF EdgeInv, ContributorsHaveTheirEdge, WholeRows, CountsAreExact, Exists, Absent, Counted, Distinct
<1>4. \A t \in Sessions : Fine(tx[t])'
  BY FineKept DEF EdgeInv
<1> QED
  BY <1>1, <1>2, <1>3, <1>4 DEF EdgeInv

(* Between any two statements, each session's counts are those its locks let   *)
(* nobody change, and what a purge that is alone will leave is exact.          *)
THEOREM EdgeInvHolds == EdgeSpec => []EdgeInv
<1>1. EdgeInv /\ [EdgeNext]_edgeVars => EdgeInv'
  <2> SUFFICES ASSUME EdgeInv, [EdgeNext]_edgeVars PROVE EdgeInv'
    OBVIOUS
  <2>1. CASE UNCHANGED edgeVars
    BY <2>1, OutsideKeeps DEF edgeVars, EdgeInv, EdgeTypeOK
  <2>2. CASE Backfill
    BY <2>2, OutsideKeeps DEF Backfill, EdgeInv, EdgeTypeOK
  <2>3. ASSUME NEW a \in Activities, DeleteByWebhook(a) PROVE EdgeInv'
    <3>1. /\ unpurged' \subseteq Activities
          /\ ride' \in [Activities -> {"here", "other", "gone"}]
      BY <2>3 DEF DeleteByWebhook, EdgeInv, EdgeTypeOK
    <3> QED
      BY <2>3, <3>1, OutsideKeeps DEF DeleteByWebhook
  <2> QED
    BY <2>1, <2>2, <2>3, HeatTaskKeeps, BeginPurgeKeeps, ContributeKeeps, UpsertEdgeKeeps,
       CommitHeatKeeps, RecountKeeps, RewriteKeeps, PruneKeeps, DropKeeps, CommitPurgeKeeps,
       AbortKeeps, RefreshKeeps, InsertAggKeeps, RefreshFailsKeeps DEF EdgeNext
<1> QED
  BY EdgeInitInv, <1>1, PTL DEF EdgeSpec

-----------------------------------------------------------------------------
(* The aggregate *)

(* A refresh with counts that are no longer those of the edge: if it can still *)
(* write them unnoticed, somebody is to refresh after it.                      *)
LeftBehind(s) ==
    /\ tx[s].pc = "insert" /\ tx[s].put # edge
    /\ ~tx[s].passed \/ ("agg" \in tx[s].held /\ ~Exists(tx[s].put))
    => lapses # {} \/ \E t \in Sessions \ {s} : ToRefresh(t)

AggInv == AggregateFollows /\ \A s \in Sessions : LeftBehind(s)

(* A step of s that leaves edge and aggregate alone and forgets no refresh. *)
LEMMA QuietStep ==
    ASSUME AggInv, UNCHANGED <<edge, agg, lapses>>, NEW s \in Sessions,
           \A t \in Sessions \ {s} :
              /\ tx'[t].pc = tx[t].pc /\ tx'[t].put = tx[t].put /\ tx'[t].ways = tx[t].ways
              /\ tx'[t].held = tx[t].held /\ tx'[t].passed = tx[t].passed,
           ToRefresh(s) => ToRefresh(s)', tx'[s].pc = "insert" => tx'[s].put = edge
    PROVE  AggInv'
<1>1. \A t \in Sessions : ToRefresh(t) => ToRefresh(t)'
  BY DEF ToRefresh, Updating
<1>2. AggregateFollows'
  BY <1>1 DEF AggInv, AggregateFollows
<1>3. \A t \in Sessions : LeftBehind(t)'
  BY <1>1 DEF AggInv, LeftBehind, Exists
<1> QED
  BY <1>2, <1>3 DEF AggInv

(* A step after which s is to refresh, and nobody else begins to insert. *)
LEMMA StepToRefresh ==
    ASSUME NEW s \in Sessions, ToRefresh(s)', tx'[s].pc # "insert" PROVE AggInv'
<1>1. AggregateFollows'
  BY DEF AggregateFollows
<1>2. \A t \in Sessions : LeftBehind(t)'
  BY DEF LeftBehind
<1> QED
  BY <1>1, <1>2 DEF AggInv

LEMMA UpdatingRefreshes ==
    ASSUME EdgeInv, AggInv, NEW s \in Sessions,
           \/ Contribute(s) \/ UpsertEdge(s) \/ Abort(s)
           \/ \E a \in Activities : HeatTask(s, a)
    PROVE  AggInv'
<1>1. UNCHANGED <<edge, agg, lapses>> /\ \A t \in Sessions \ {s} : tx'[t] = tx[t]
  BY DEF Contribute, UpsertEdge, Abort, HeatTask, EdgeInv, EdgeTypeOK
<1>2. tx[s] \in Transaction /\ tx \in [Sessions -> Transaction]
  BY DEF EdgeInv, EdgeTypeOK
<1>3. CASE Contribute(s)
  <2>1. tx[s].pc = "matched" /\ tx'[s].pc = "contributed" /\ tx'[s].ways = tx[s].ways
    BY <1>2, <1>3 DEF Contribute, Transaction
  <2> QED
    BY <1>1, <2>1, QuietStep DEF ToRefresh, Updating
<1>4. CASE UpsertEdge(s)
  <2>1. tx[s].pc = "contributed" /\ tx'[s].pc = "upserted" /\ tx'[s].ways = tx[s].ways
    BY <1>2, <1>4 DEF UpsertEdge, Transaction
  <2> QED
    BY <1>1, <2>1, QuietStep DEF ToRefresh, Updating
<1>5. CASE Abort(s)
  <2>1. /\ tx[s].pc \in Updating \cup Purging /\ tx'[s].pc \in {"idle", "committed"}
        /\ tx[s].pc \in Updating /\ tx[s].ways => tx'[s].pc = "committed"
    BY <1>2, <1>5, FreshStart, NoTransactionType DEF Abort
  <2> QED
    BY <1>1, <2>1, QuietStep DEF ToRefresh, Updating, Purging
<1>6. CASE \E a \in Activities : HeatTask(s, a)
  <2>1. tx[s].pc = "idle" /\ tx'[s].pc = "matched"
    BY <1>2, <1>6 DEF HeatTask, NoTransaction
  <2> QED
    BY <1>1, <2>1, QuietStep DEF ToRefresh, Updating
<1> QED
  BY <1>3, <1>4, <1>5, <1>6

LEMMA PurgingRefreshes ==
    ASSUME EdgeInv, AggInv, NEW s \in Sessions,
           \/ Recount(s) \/ Rewrite(s) \/ Prune(s) \/ Drop(s)
           \/ \E a \in Activities : Delete(s, a) \/ ChangeSport(s, a)
    PROVE  AggInv'
<1>1. UNCHANGED <<edge, agg, lapses>> /\ \A t \in Sessions \ {s} : tx'[t] = tx[t]
  BY DEF Recount, Rewrite, Prune, Drop, Delete, ChangeSport, Purge, Goes, EdgeInv, EdgeTypeOK
<1>2. tx[s] \in Transaction /\ tx \in [Sessions -> Transaction]
  BY DEF EdgeInv, EdgeTypeOK
<1>3. tx[s].pc \in Purging \cup {"idle"} /\ tx'[s].pc \in Purging
  <2>1. CASE Recount(s)
    BY <1>2, <2>1 DEF Recount, Transaction, Purging
  <2>2. CASE Rewrite(s)
    BY <1>2, <2>2 DEF Rewrite, Goes, Transaction, Purging
  <2>3. CASE Prune(s)
    BY <1>2, <2>3 DEF Prune, Goes, Transaction, Purging
  <2>4. CASE Drop(s)
    BY <1>2, <2>4 DEF Drop, Goes, Transaction, Purging
  <2>5. ASSUME NEW a \in Activities, NEW why, Purge(s, a, why)
        PROVE  tx[s].pc = "idle" /\ tx'[s].pc \in Purging
    BY <1>2, <2>5 DEF Purge, NoTransaction, Purging
  <2> QED
    BY <2>1, <2>2, <2>3, <2>4, <2>5 DEF Delete, ChangeSport
<1> QED
  BY <1>1, <1>3, QuietStep DEF ToRefresh, Updating, Purging

LEMMA RefreshingRefreshes ==
    ASSUME EdgeInv, AggInv, NEW s \in Sessions,
           BeginRefresh(s) \/ ClearAgg(s) \/ SelectEdges(s)
    PROVE  AggInv'
<1>1. UNCHANGED <<edge, agg, lapses>> /\ \A t \in Sessions \ {s} : tx'[t] = tx[t]
  BY DEF BeginRefresh, ClearAgg, SelectEdges, Goes, EdgeInv, EdgeTypeOK
<1>2. tx[s] \in Transaction /\ tx \in [Sessions -> Transaction]
  BY DEF EdgeInv, EdgeTypeOK
<1>3. tx'[s].pc \in {"clear", "select"} \/ (tx'[s].pc = "insert" /\ tx'[s].put = edge)
  BY <1>2 DEF BeginRefresh, ClearAgg, SelectEdges, Goes, Transaction
<1> QED
  BY <1>1, <1>3, QuietStep DEF ToRefresh

LEMMA CommitHeatRefreshes == ASSUME EdgeInv, NEW s \in Sessions, CommitHeat(s) PROVE AggInv'
<1>1. tx'[s].pc = "committed"
  BY FreshStart DEF CommitHeat, AfterCommit
<1> QED
  BY <1>1, StepToRefresh DEF ToRefresh

LEMMA CommitPurgeRefreshes ==
    ASSUME EdgeInv, AggInv, NEW s \in Sessions, CommitPurge(s) PROVE AggInv'
<1>1. tx[s].pc = "purged" /\ Shape(tx[s]) /\ UNCHANGED <<agg, lapses>>
  BY DEF CommitPurge, EdgeInv, Fine
<1>2. tx'[s] = Onwards(s)
  BY DEF CommitPurge, AfterCommit, EdgeInv, EdgeTypeOK
<1>3. CASE "edge" \in tx[s].held
  <2>1. tx[s].ways
    BY <1>1, <1>3 DEF Shape
  <2> QED
    BY <1>1, <1>2, <2>1, OnwardsLeads, StepToRefresh DEF ToRefresh, Updating
<1>4. CASE "edge" \notin tx[s].held
  <2>1. edge' = edge
    BY <1>4 DEF CommitPurge
  <2>2. \A t \in Sessions \ {s} :
           /\ tx'[t].pc = tx[t].pc /\ tx'[t].put = tx[t].put /\ tx'[t].ways = tx[t].ways
           /\ tx'[t].held = tx[t].held /\ tx'[t].passed = tx[t].passed
    <3>1. CASE tx[s].rows = {}
      BY <3>1 DEF CommitPurge, EdgeInv, EdgeTypeOK
    <3>2. CASE tx[s].rows # {}
      <4>1. AfterCommit(s, Onwards(s), FALSE) /\ Onwards(s) \in Transaction
        BY <1>1, <1>4, <3>2, OnwardsLeads DEF CommitPurge
      <4> QED
        BY <4>1, AfterCommitLeaves DEF EdgeInv
    <3> QED
      BY <3>1, <3>2
  <2>3. ~ToRefresh(s) /\ tx'[s].pc # "insert"
    BY <1>1, <1>2, OnwardsLeads DEF ToRefresh, Updating
  <2> QED
    BY <1>1, <2>1, <2>2, <2>3, QuietStep
<1> QED
  BY <1>3, <1>4

LEMMA InsertAggRefreshes ==
    ASSUME EdgeInv, AggInv, NEW s \in Sessions, InsertAgg(s) PROVE AggInv'
<1>1. /\ tx[s].pc = "insert" /\ edge' = edge /\ (Exists(tx[s].put) \/ tx[s].put = Absent)
      /\ WholeRows /\ ~Exists(Absent)
  BY FiniteTypes DEF InsertAgg, EdgeInv, Fine, Putting
<1>2. /\ tx'[s].pc = "idle"
      /\ \A t \in Sessions \ {s} :
            /\ tx'[t].pc = tx[t].pc /\ tx'[t].put = tx[t].put /\ tx'[t].ways = tx[t].ways
            /\ tx'[t].held = tx[t].held /\ (tx[t].pc = "insert" => tx'[t].passed)
  BY RefreshedLeaves, NoTransactionType DEF InsertAgg, EdgeInv
<1>3. \A t \in Sessions \ {s} : ToRefresh(t) => ToRefresh(t)'
  BY <1>1, <1>2 DEF ToRefresh, Updating
<1>4. ToRefresh(s) <=> tx[s].put = edge
  BY <1>1 DEF ToRefresh, Updating
<1>5. AggregateFollows'
  <2>1. CASE tx[s].put = edge
    BY <1>1, <2>1 DEF InsertAgg, AggregateFollows, WholeRows
  <2>2. CASE tx[s].put # edge
    <3>1. lapses # {} => lapses' # {}
      BY <1>1, <2>2 DEF InsertAgg
    <3>2. ASSUME lapses # {} \/ \E t \in Sessions \ {s} : ToRefresh(t)
          PROVE AggregateFollows'
      BY <1>3, <3>1, <3>2 DEF AggregateFollows
    <3>3. CASE Exists(tx[s].put) /\ tx[s].passed
      BY <2>2, <3>3 DEF InsertAgg, AggregateFollows
    <3>4. CASE \/ ~tx[s].passed
               \/ "agg" \in tx[s].held /\ ~Exists(tx[s].put)
      BY <1>1, <2>2, <3>2, <3>4 DEF AggInv, LeftBehind
    <3>5. CASE "agg" \notin tx[s].held /\ ~Exists(tx[s].put)
      <4>1. agg' = agg
        BY <3>5 DEF InsertAgg
      <4>2. CASE agg = edge
        BY <1>1, <4>1, <4>2 DEF AggregateFollows
      <4>3. CASE agg # edge
        BY <1>4, <2>2, <3>2, <4>3 DEF AggInv, AggregateFollows
      <4> QED
        BY <4>2, <4>3
    <3> QED
      BY <3>3, <3>4, <3>5
  <2> QED
    BY <2>1, <2>2
<1>6. ASSUME NEW t \in Sessions PROVE LeftBehind(t)'
  <2> SUFFICES ASSUME tx'[t].pc = "insert", tx'[t].put # edge,
                      ~tx'[t].passed \/ ("agg" \in tx'[t].held /\ ~Exists(tx'[t].put))
      PROVE lapses' # {} \/ \E u \in Sessions \ {t} : ToRefresh(u)'
    BY <1>1 DEF LeftBehind, Exists
  <2>1. /\ t # s /\ tx[t].pc = "insert" /\ "agg" \in tx[t].held /\ ~Exists(tx[t].put)
        /\ tx[t].put # edge
    BY <1>2
  <2>2. lapses # {} \/ \E u \in Sessions \ {t} : ToRefresh(u)
    BY <2>1 DEF AggInv, LeftBehind
  <2>3. tx[t].put = Absent
    BY <2>1 DEF EdgeInv, Fine, Putting
  <2>4. "agg" \notin tx[s].held /\ ~Unlocked(s, "agg")
    BY <2>1 DEF EdgeInv, Exclusive, Unlocked
  <2>5. tx[s].put = Absent /\ lapses' \in {lapses, lapses \cup {"overtaken"}}
    BY <1>1, <2>4 DEF InsertAgg
  <2>6. ~ToRefresh(s)
    BY <1>4, <2>1, <2>3, <2>5
  <2> QED
    BY <1>3, <2>2, <2>5, <2>6
<1> QED
  BY <1>5, <1>6 DEF AggInv

(* While no refresh has failed or was overtaken, an aggregate that lags has a  *)
(* session that will bring it up to date (_maintain_heat_agg).                 *)
THEOREM AggInvHolds == EdgeSpec => []AggInv
<1>1. EdgeInit => AggInv
  BY NoTransactionType DEF EdgeInit, AggInv, AggregateFollows, LeftBehind
<1>2. EdgeInv /\ AggInv /\ [EdgeNext]_edgeVars => AggInv'
  <2> SUFFICES ASSUME EdgeInv, AggInv, [EdgeNext]_edgeVars PROVE AggInv'
    OBVIOUS
  <2>1. CASE \/ UNCHANGED edgeVars
             \/ \E a \in Activities : DeleteByWebhook(a)
    <3>1. UNCHANGED <<edge, agg, lapses, tx>>
      BY <2>1 DEF edgeVars, DeleteByWebhook
    <3> QED
      BY <3>1 DEF AggInv, AggregateFollows, LeftBehind, ToRefresh, Updating, Exists
  <2>2. CASE Backfill
    BY <2>2 DEF Backfill, AggInv, AggregateFollows, LeftBehind
  <2>3. ASSUME NEW s \in Sessions, RefreshFails(s) PROVE AggInv'
    BY <2>3 DEF RefreshFails, AggInv, AggregateFollows, LeftBehind
  <2> QED
    BY <2>1, <2>2, <2>3, UpdatingRefreshes, PurgingRefreshes, RefreshingRefreshes,
       CommitHeatRefreshes, CommitPurgeRefreshes, InsertAggRefreshes DEF EdgeNext
<1> QED
  BY EdgeInvHolds, <1>1, <1>2, PTL DEF EdgeSpec

-----------------------------------------------------------------------------
(* The rides *)

(* A purge removes the contribution of its ride, or has found none: one that   *)
(* came since then is belated.                                                 *)
Looked(s) ==
    tx[s].pc \in Purging =>
        tx[s].act \in tx[s].rows \/ tx[s].act \notin contrib \/ tx[s].act \in belated

RideInv == NoHeatWithoutARide /\ \A s \in Sessions : Looked(s)

LEMMA RidesUntouched ==
    ASSUME RideInv, UNCHANGED <<ride, contrib, belated, unpurged>>, NEW s \in Sessions,
           \A t \in Sessions \ {s} :
              tx'[t].pc = tx[t].pc /\ tx'[t].act = tx[t].act /\ tx'[t].rows = tx[t].rows,
           Looked(s)'
    PROVE  RideInv'
<1>1. NoHeatWithoutARide'
  BY DEF RideInv, NoHeatWithoutARide
<1>2. \A t \in Sessions : Looked(t)'
  BY DEF RideInv, Looked, Purging
<1> QED
  BY <1>1, <1>2 DEF RideInv

LEMMA PurgingLooks ==
    ASSUME EdgeInv, RideInv, NEW s \in Sessions,
           \/ Recount(s) \/ Rewrite(s) \/ Prune(s) \/ Drop(s)
           \/ \E a \in Activities : Delete(s, a) \/ ChangeSport(s, a)
    PROVE  RideInv'
<1>1. /\ UNCHANGED <<ride, contrib, belated, unpurged>>
      /\ \A t \in Sessions \ {s} : tx'[t] = tx[t]
  BY DEF Recount, Rewrite, Prune, Drop, Delete, ChangeSport, Purge, Goes, EdgeInv, EdgeTypeOK
<1>2. tx[s] \in Transaction /\ tx \in [Sessions -> Transaction]
  BY DEF EdgeInv, EdgeTypeOK
<1>3. CASE Recount(s) \/ Rewrite(s) \/ Prune(s) \/ Drop(s)
  <2>1. tx[s].pc \in Purging \ {"purged"} /\ tx[s].act \in tx[s].rows
    BY <1>3 DEF Recount, Rewrite, Prune, Drop, Purging, EdgeInv, Fine, Shape
  <2>2. tx'[s].act = tx[s].act /\ tx[s].rows \subseteq tx'[s].rows
    <3>1. CASE Recount(s)
      BY <1>2, <3>1 DEF Recount, Transaction
    <3>2. CASE Rewrite(s)
      BY <1>2, <3>2 DEF Rewrite, Goes, Transaction
    <3>3. CASE Prune(s)
      BY <1>2, <3>3 DEF Prune, Goes, Transaction
    <3>4. CASE Drop(s)
      BY <1>2, <3>4 DEF Drop, Goes, Transaction
    <3> QED
      BY <1>3, <3>1, <3>2, <3>3, <3>4
  <2>3. Looked(s)'
    BY <2>1, <2>2 DEF Looked
  <2> QED
    BY <1>1, <2>3, RidesUntouched
<1>4. ASSUME NEW a \in Activities, NEW why, Purge(s, a, why) PROVE RideInv'
  <2>1. tx'[s].act = a /\ tx'[s].rows = {a} \cap contrib
    BY <1>2, <1>4 DEF Purge, NoTransaction
  <2>2. Looked(s)'
    BY <1>1, <2>1 DEF Looked
  <2> QED
    BY <1>1, <2>2, RidesUntouched
<1> QED
  BY <1>3, <1>4 DEF Delete, ChangeSport

LEMMA OtherStepsLook ==
    ASSUME EdgeInv, RideInv, NEW s \in Sessions,
           \/ Contribute(s) \/ UpsertEdge(s) \/ Abort(s)
           \/ BeginRefresh(s) \/ ClearAgg(s) \/ SelectEdges(s) \/ RefreshFails(s)
           \/ InsertAgg(s) \/ \E a \in Activities : HeatTask(s, a)
    PROVE  RideInv'
<1>1. UNCHANGED <<ride, contrib, belated, unpurged>>
  BY DEF Contribute, UpsertEdge, Abort, BeginRefresh, ClearAgg, SelectEdges, RefreshFails,
     InsertAgg, HeatTask
<1>2. tx[s] \in Transaction /\ tx \in [Sessions -> Transaction]
  BY DEF EdgeInv, EdgeTypeOK
<1>3. ASSUME ~InsertAgg(s) PROVE \A t \in Sessions \ {s} : tx'[t] = tx[t]
  BY <1>3 DEF Contribute, UpsertEdge, Abort, BeginRefresh, ClearAgg, SelectEdges, Goes,
     RefreshFails, HeatTask, EdgeInv, EdgeTypeOK
<1>4. CASE Contribute(s) \/ UpsertEdge(s)
  <2>1. tx'[s].pc \notin Purging
    BY <1>2, <1>4 DEF Contribute, UpsertEdge, Transaction, Purging
  <2>2. ~InsertAgg(s)
    BY <1>4 DEF Contribute, UpsertEdge, InsertAgg
  <2> QED
    BY <1>1, <1>3, <2>1, <2>2, RidesUntouched DEF Looked
<1>5. CASE BeginRefresh(s) \/ ClearAgg(s) \/ SelectEdges(s)
  <2>1. tx'[s].pc \notin Purging
    BY <1>2, <1>5 DEF BeginRefresh, ClearAgg, SelectEdges, Goes, Transaction, Purging
  <2>2. ~InsertAgg(s)
    BY <1>5 DEF BeginRefresh, ClearAgg, SelectEdges, InsertAgg
  <2> QED
    BY <1>1, <1>3, <2>1, <2>2, RidesUntouched DEF Looked
<1>6. CASE Abort(s) \/ RefreshFails(s)
  <2>1. tx'[s].pc \in {"idle", "committed"} /\ \A t \in Sessions \ {s} : tx'[t] = tx[t]
    BY <1>2, <1>6, FreshStart, NoTransactionType DEF Abort, RefreshFails
  <2> QED
    BY <1>1, <2>1, RidesUntouched DEF Looked, Purging
<1>7. CASE InsertAgg(s)
  <2>1. /\ tx'[s].pc = "idle"
        /\ \A t \in Sessions \ {s} :
              tx'[t].pc = tx[t].pc /\ tx'[t].act = tx[t].act /\ tx'[t].rows = tx[t].rows
    BY <1>7, RefreshedLeaves, NoTransactionType DEF InsertAgg, EdgeInv
  <2> QED
    BY <1>1, <2>1, RidesUntouched DEF Looked, Purging
<1>8. CASE \E a \in Activities : HeatTask(s, a)
  <2>1. tx'[s].pc = "matched"
    BY <1>2, <1>8 DEF HeatTask, NoTransaction
  <2>2. ~InsertAgg(s)
    BY <1>8 DEF HeatTask, InsertAgg
  <2> QED
    BY <1>1, <1>3, <2>1, <2>2, RidesUntouched DEF Looked, Purging
<1> QED
  BY <1>4, <1>5, <1>6, <1>7, <1>8

LEMMA CommitHeatLooks ==
    ASSUME EdgeInv, RideInv, NEW s \in Sessions, CommitHeat(s) PROVE RideInv'
<1> DEFINE a == tx[s].act
<1>1. /\ contrib' = contrib \cup {a} /\ UNCHANGED <<ride, unpurged>>
      /\ belated' = IF ride[a] # "here" \/ PurgeOpen(a) THEN belated \cup {a} ELSE belated
      /\ a \in tx[s].rows
  BY DEF CommitHeat, EdgeInv, Fine, Shape
<1>2. /\ tx'[s].pc = "committed"
      /\ \A t \in Sessions \ {s} :
            tx'[t].pc = tx[t].pc /\ tx'[t].act = tx[t].act /\ tx'[t].rows = tx[t].rows
  BY FreshStart, AfterCommitLeaves DEF CommitHeat, EdgeInv
<1> HIDE DEF a
<1>3. NoHeatWithoutARide'
  BY <1>1 DEF RideInv, NoHeatWithoutARide
<1>4. ASSUME NEW t \in Sessions, tx'[t].pc \in Purging PROVE Looked(t)'
  <2>1. t # s /\ tx[t].pc \in Purging
    BY <1>2, <1>4 DEF Purging
  <2>2. CASE tx[t].act = a
    <3>1. PurgeOpen(a)
      BY <2>1, <2>2 DEF PurgeOpen
    <3> QED
      BY <1>1, <1>2, <2>1, <2>2, <3>1 DEF Looked
  <2>3. CASE tx[t].act # a
    <3>1. Looked(t)
      BY DEF RideInv
    <3> QED
      BY <1>1, <1>2, <2>1, <2>3, <3>1 DEF Looked
  <2> QED
    BY <2>2, <2>3
<1> QED
  BY <1>3, <1>4 DEF RideInv, Looked, Purging

LEMMA CommitPurgeLooks ==
    ASSUME EdgeInv, RideInv, NEW s \in Sessions, CommitPurge(s) PROVE RideInv'
<1> DEFINE a == tx[s].act
<1> DEFINE taken == tx[s].rows
<1>1. /\ tx[s].pc = "purged" /\ contrib' = contrib \ taken /\ belated' = belated \ taken
      /\ unpurged' = unpurged \ taken
      /\ \A b \in Activities \ {a} : ride'[b] = ride[b]
  BY DEF CommitPurge, Left, EdgeInv, EdgeTypeOK
<1>2. /\ tx'[s].pc \notin Purging
      /\ \A t \in Sessions \ {s} :
            tx'[t].pc = tx[t].pc /\ tx'[t].act = tx[t].act /\ tx'[t].rows = tx[t].rows
  <2>1. /\ Onwards(s) \in Transaction
        /\ Onwards(s).pc \in {"idle", "committed", "matched"}
    BY <1>1, OnwardsLeads
  <2>2. CASE taken = {}
    BY <2>1, <2>2 DEF CommitPurge, EdgeInv, EdgeTypeOK, Purging
  <2>3. CASE taken # {}
    <3>1. PICK dropped \in BOOLEAN : AfterCommit(s, Onwards(s), dropped)
      BY <2>3 DEF CommitPurge
    <3> QED
      BY <2>1, <3>1, AfterCommitLeaves DEF EdgeInv, Purging
  <2> QED
    BY <2>2, <2>3
<1>3. NoHeatWithoutARide'
  <2> SUFFICES ASSUME NEW b \in contrib'
      PROVE ride'[b] = "here" \/ b \in belated' \cup unpurged'
    BY DEF NoHeatWithoutARide
  <2>1. b \in contrib /\ b \notin taken /\ b \in Activities
    BY <1>1 DEF EdgeInv, EdgeTypeOK
  <2>2. CASE b = a
    BY <1>1, <2>1, <2>2 DEF RideInv, Looked, Purging
  <2>3. CASE b # a
    BY <1>1, <2>1, <2>3 DEF RideInv, NoHeatWithoutARide
  <2> QED
    BY <2>2, <2>3
<1>4. ASSUME NEW t \in Sessions PROVE Looked(t)'
  <2>1. Looked(t)
    BY DEF RideInv
  <2> QED
    BY <1>1, <1>2, <2>1 DEF Looked, Purging
<1> QED
  BY <1>3, <1>4 DEF RideInv

(* Every contribution has its ride, is named as late or unpurged, or is among  *)
(* the rows an open purge has already deleted (purge_activity_heat).           *)
THEOREM RideInvHolds == EdgeSpec => []RideInv
<1>1. EdgeInit => RideInv
  BY NoTransactionType DEF EdgeInit, RideInv, NoHeatWithoutARide, Looked, Purging
<1>2. EdgeInv /\ RideInv /\ [EdgeNext]_edgeVars => RideInv'
  <2> SUFFICES ASSUME EdgeInv, RideInv, [EdgeNext]_edgeVars PROVE RideInv'
    OBVIOUS
  <2>1. CASE UNCHANGED edgeVars \/ Backfill
    <3>1. UNCHANGED <<ride, contrib, belated, unpurged, tx>>
      BY <2>1 DEF edgeVars, Backfill
    <3> QED
      BY <3>1 DEF RideInv, NoHeatWithoutARide, Looked, Purging
  <2>2. ASSUME NEW a \in Activities, DeleteByWebhook(a) PROVE RideInv'
    <3>1. /\ UNCHANGED <<contrib, belated, tx>> /\ unpurged' = unpurged \cup ({a} \cap contrib)
          /\ \A b \in Activities \ {a} : ride'[b] = ride[b]
      BY <2>2 DEF DeleteByWebhook, EdgeInv, EdgeTypeOK
    <3>2. contrib \subseteq Activities
      BY DEF EdgeInv, EdgeTypeOK
    <3> QED
      BY <3>1, <3>2 DEF RideInv, NoHeatWithoutARide, Looked, Purging
  <2> QED
    BY <2>1, <2>2, PurgingLooks, OtherStepsLook, CommitHeatLooks, CommitPurgeLooks DEF EdgeNext
<1> QED
  BY EdgeInvHolds, <1>1, <1>2, PTL DEF EdgeSpec

-----------------------------------------------------------------------------

(* Tables and transactions have their types, for any rides and sessions. *)
THEOREM EdgeTypeCorrect == EdgeSpec => []EdgeTypeOK
<1>1. EdgeInv => EdgeTypeOK
  BY DEF EdgeInv
<1> QED
  BY EdgeInvHolds, <1>1, PTL

(* pass_count and user_count are the contributors and their riders, however    *)
(* the sessions interleave, until a purge that was not alone has written them. *)
THEOREM CountsExact == EdgeSpec => []CountsAreExact
<1>1. EdgeInv => CountsAreExact
  BY DEF EdgeInv
<1> QED
  BY EdgeInvHolds, <1>1, PTL

(* No contributor outlives its edge: whoever deletes the edge takes the        *)
(* contributors that are there by then, and none can come while it holds it.   *)
THEOREM NoOrphanContributors == EdgeSpec => []ContributorsHaveTheirEdge
<1>1. EdgeInv => ContributorsHaveTheirEdge
  BY DEF EdgeInv
<1> QED
  BY EdgeInvHolds, <1>1, PTL

(* A purge that has found its edge still finds it when it writes, as it holds  *)
(* the row of a contributor, without which nobody can delete the edge: the     *)
(* UPDATE of _recompute_touched_heat_edges never misses its row, and the       *)
(* DELETE never finds it gone.                                                 *)
THEOREM PurgesFindTheirEdge ==
    EdgeSpec => [](\A s \in Sessions : tx[s].pc \in {"rewrite", "drop"} => tx[s].seen)
<1>1. EdgeInv => \A s \in Sessions : tx[s].pc \in {"rewrite", "drop"} => tx[s].seen
  BY DEF EdgeInv, Fine, Current
<1> QED
  BY EdgeInvHolds, <1>1, PTL

(* The aggregate shows the edge, or a session is still to refresh it, or a     *)
(* refresh has failed or was overtaken.                                        *)
THEOREM AggregateFollowsEdge == EdgeSpec => []AggregateFollows
<1>1. AggInv => AggregateFollows
  BY DEF AggInv
<1> QED
  BY AggInvHolds, <1>1, PTL

(* A contribution whose ride is gone, or has another sport, was written after  *)
(* the purge had looked, or was left by a delete event of Strava.              *)
THEOREM HeatHasItsRide == EdgeSpec => []NoHeatWithoutARide
<1>1. RideInv => NoHeatWithoutARide
  BY DEF RideInv
<1> QED
  BY RideInvHolds, <1>1, PTL
=============================================================================
