---------------------------- MODULE CommunityMap ----------------------------
(***************************************************************************)
(* What the community map promises to whoever looks at it: at any moment   *)
(* its lines are one whole state of the corpus and its grades are counts   *)
(* of one whole state, both read by the same rebuild after it began, the   *)
(* counts first; and it is only ever replaced by a rebuild that began      *)
(* later.  The corpus may change between the two reads, and then the lines *)
(* and the grades are of different moments.  How the job reaches this (a   *)
(* pointer, a compare-and-set, snapshots, retries, deaths) is              *)
(* HeatmapPublish.                                                         *)
(***************************************************************************)
EXTENDS Naturals

CONSTANTS Traces, Rebuilds

VARIABLES
    corpus,    \* the consented traces in the database
    now,       \* rebuilds begun so far
    begun,     \* rebuild -> its place in the order of beginnings, 0 before it
    reads,     \* rebuild -> how often it has read the corpus
    counted,   \* rebuild -> the corpus of its first read
    drawn,     \* rebuild -> the corpus of its second read
    shown      \* the map: the place of its rebuild, and that rebuild's two reads

Init ==
    /\ corpus \in SUBSET Traces
    /\ now = 0
    /\ begun = [r \in Rebuilds |-> 0]
    /\ reads = [r \in Rebuilds |-> 0]
    /\ counted = [r \in Rebuilds |-> {}]
    /\ drawn = [r \in Rebuilds |-> {}]
    /\ \E traces \in {{}, corpus} :
          shown = [begun |-> 0, counted |-> traces, traces |-> traces]

Change(t) ==
    /\ corpus' = IF t \in corpus THEN corpus \ {t} ELSE corpus \cup {t}
    /\ UNCHANGED <<now, begun, reads, counted, drawn, shown>>

Begin(r) ==
    /\ begun[r] = 0
    /\ now' = now + 1
    /\ begun' = [begun EXCEPT ![r] = now + 1]
    /\ UNCHANGED <<corpus, reads, counted, drawn, shown>>

\* One query, all of the corpus.
Count(r) ==
    /\ begun[r] > 0 /\ reads[r] = 0
    /\ reads' = [reads EXCEPT ![r] = 1]
    /\ counted' = [counted EXCEPT ![r] = corpus]
    /\ UNCHANGED <<corpus, now, begun, drawn, shown>>

\* Another query, all of the corpus as it is by then.
Draw(r) ==
    /\ reads[r] = 1
    /\ reads' = [reads EXCEPT ![r] = 2]
    /\ drawn' = [drawn EXCEPT ![r] = corpus]
    /\ UNCHANGED <<corpus, now, begun, counted, shown>>

\* An empty drawing is never shown.
Show(r) ==
    /\ reads[r] = 2 /\ drawn[r] # {}
    /\ begun[r] > shown.begun
    /\ shown' = [begun |-> begun[r], counted |-> counted[r], traces |-> drawn[r]]
    /\ UNCHANGED <<corpus, now, begun, reads, counted, drawn>>

Next ==
    \/ \E t \in Traces : Change(t)
    \/ \E r \in Rebuilds : Begin(r) \/ Count(r) \/ Draw(r) \/ Show(r)

vars == <<corpus, now, begun, reads, counted, drawn, shown>>

Spec == Init /\ [][Next]_vars

=============================================================================
