-------------------------- MODULE ArchiveLifecycle --------------------------
(***************************************************************************)
(* What the archive pipeline promises of the archives handed to it: each   *)
(* is worked on by one drain at a time, which announces it once and ends   *)
(* it; what was stored stays; an archive is done only when every member is *)
(* stored or reported; a drain that dies leaves the archive as it stands,  *)
(* for another to take or for nobody.  Only the owner and an admin may     *)
(* step in while it is held, and it is contested until the drains that     *)
(* held it have let it go.  How (leases by age, a reaper, a batch, one     *)
(* UPDATE at a time) is ArchivePipeline.                                   *)
(***************************************************************************)
EXTENDS Naturals

CONSTANTS Archives, Workers, Members

VARIABLES
    row,        \* what the owner is told of the archive
    holders,    \* the drains at work on it, or about to be
    contested,  \* somebody stepped in while it was held
    kept,       \* its members that are stored
    missed,     \* its members reported as failed
    told        \* announcements of its start

vars == <<row, holders, contested, kept, missed, told>>

Ended == {"done", "failed"}

Init ==
    /\ row = [a \in Archives |-> "none"]
    /\ holders = [a \in Archives |-> {}]
    /\ contested = [a \in Archives |-> FALSE]
    /\ kept = [a \in Archives |-> {}]
    /\ missed = [a \in Archives |-> {}]
    /\ told = [a \in Archives |-> 0]

-----------------------------------------------------------------------------

\* Nobody is at work on the archive who could rely on its row.
Unclaimed(a) == holders[a] = {} \/ contested[a]

Begin(a) ==
    /\ row[a] = "none"
    /\ row' = [row EXCEPT ![a] = "awaiting_upload"]
    /\ UNCHANGED <<holders, contested, kept, missed, told>>

\* The owner hands the archive in, or an admin does so again; an archive that
\* is too large is turned down.
StepIn(a) ==
    /\ row[a] # "none"
    /\ \E answer \in {row[a], "uploaded", "failed"} : row' = [row EXCEPT ![a] = answer]
    /\ contested' = [contested EXCEPT ![a] = @ \/ holders[a] # {}]
    /\ UNCHANGED <<holders, kept, missed, told>>

\* A drain takes a batch, and no second one while it has it.
Take(w, As) ==
    /\ \A a \in Archives : w \notin holders[a]
    /\ \A a \in As : row[a] \in {"uploaded", "processing"} /\ Unclaimed(a)
    /\ row' = [a \in Archives |-> IF a \in As THEN "processing" ELSE row[a]]
    /\ holders' = [a \in Archives |-> IF a \in As THEN holders[a] \cup {w} ELSE holders[a]]
    /\ UNCHANGED <<contested, kept, missed, told>>

Announce(w, a) ==
    /\ w \in holders[a]
    /\ told[a] = 0 /\ told' = [told EXCEPT ![a] = 1]
    /\ UNCHANGED <<row, holders, contested, kept, missed>>

Store(w, a) ==
    /\ w \in holders[a]
    /\ \E m \in Members : kept' = [kept EXCEPT ![a] = @ \cup {m}]
    /\ UNCHANGED <<row, holders, contested, missed, told>>

\* With the last drain goes the contest.
Leave(w, As) ==
    /\ \A a \in As : w \in holders[a]
    /\ holders' = [a \in Archives |-> IF a \in As THEN holders[a] \ {w} ELSE holders[a]]
    /\ contested' = [a \in Archives |->
                        contested[a] /\ (a \in As => holders[a] # {w})]

Settle(w, a) ==
    /\ Leave(w, {a})
    /\ \E outcome \in Ended, bad \in SUBSET Members :
          /\ outcome = "done" => kept[a] \cup bad = Members
          /\ row' = [row EXCEPT ![a] = outcome]
          /\ missed' = [missed EXCEPT ![a] = bad]
    /\ UNCHANGED <<kept, told>>

\* Through no fault of the archive: it waits for the next drain.
PutBack(w, a) ==
    /\ Leave(w, {a})
    /\ row' = [row EXCEPT ![a] = "uploaded"]
    /\ UNCHANGED <<kept, missed, told>>

\* A drain dies, or cannot write how it ended.
Drop(w, As) ==
    /\ Leave(w, As)
    /\ UNCHANGED <<row, kept, missed, told>>

\* Archives that never came, or that nobody gets through.
GiveUp(As) ==
    /\ \A a \in As : row[a] \in {"awaiting_upload", "processing"} /\ Unclaimed(a)
    /\ row' = [a \in Archives |-> IF a \in As THEN "failed" ELSE row[a]]
    /\ UNCHANGED <<holders, contested, kept, missed, told>>

Next ==
    \/ \E a \in Archives : Begin(a) \/ StepIn(a)
    \/ \E w \in Workers, a \in Archives :
          Announce(w, a) \/ Store(w, a) \/ Settle(w, a) \/ PutBack(w, a)
    \/ \E w \in Workers, As \in SUBSET Archives : Take(w, As) \/ Drop(w, As)
    \/ \E As \in SUBSET Archives : GiveUp(As)

Spec == Init /\ [][Next]_vars

-----------------------------------------------------------------------------
(* What follows for one archive: its drain has it for itself and finds its  *)
(* row as it left it, unless the archive is contested.                      *)
HeldByOne ==
    \A a \in Archives : ~contested[a] =>
        /\ \A v, w \in holders[a] : v = w
        /\ holders[a] # {} => row[a] = "processing"
=============================================================================
