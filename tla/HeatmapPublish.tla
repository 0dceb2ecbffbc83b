--------------------------- MODULE HeatmapPublish ---------------------------
(***************************************************************************)
(* How overlapping executions of the build-pmtiles job publish the         *)
(* community map to a storage bucket (backend/app/jobs/build_pmtiles.py).  *)
(*                                                                         *)
(* A build notes when it started and reads the traces twice, in two        *)
(* queries with commits of others between them: the first counts what      *)
(* passes where, the second draws, graded by these counts.  It uploads an  *)
(* immutable snapshot whose name is the hour and a hash of the bytes,      *)
(* moves the pointer the map reads by a compare-and-set on the pointer     *)
(* object's generation, rewrites the mutable copy and prunes older         *)
(* snapshots.  Nothing keeps two builds from running at once, and a build  *)
(* may die anywhere.                                                       *)
(*                                                                         *)
(* The clock counts build starts: an object or a change of the database    *)
(* carries the number of builds started by then, so "before the build      *)
(* started" is a comparison of numbers.  All machines read one clock.      *)
(***************************************************************************)
EXTENDS Integers, FiniteSets

CONSTANTS
    Builds,           \* executions of the job, each run once
    Traces,           \* consented activities that may be on the map
    Nobody,           \* nobody has written the mutable copy yet
    MaxHour,          \* bound on the hour that goes into snapshot names
    MaxChanges,       \* bound on changes of the database
    UnreadableReads   \* may a download of the pointer's body fail?

ASSUME NobodyAssumption == Nobody \notin Builds
ASSUME BoundsAssumption == MaxHour \in Nat \ {0} /\ MaxChanges \in Nat
ASSUME ReadsAssumption == UnreadableReads \in BOOLEAN

VARIABLES
    db,        \* traces the export query would return
    touched,   \* trace -> clock of its last change in the database
    changes,   \* number of changes so far
    clock,     \* number of builds started so far
    hour,      \* current hour
    objects,   \* snapshots in the bucket
    pointer,   \* heatmap-display.json; generation 0 when it does not exist
    mutable,   \* the build whose bytes heatmap-display.pmtiles holds
    tmps,      \* builds whose temporary upload of the mutable copy exists
    build      \* build -> its local state

vars == <<db, touched, changes, clock, hour, objects, pointer, mutable, tmps,
          build>>

database == <<db, touched, changes>>
bucket   == <<objects, pointer, mutable, tmps>>

-----------------------------------------------------------------------------
(* Objects *)

\* The bytes are those of the traces drawn and of the traces counted.
Version == [hour: 0 .. MaxHour, counted: SUBSET Traces, content: SUBSET Traces]
Snapshot == [name: Version, created: Nat]

\* What an earlier release left: a pointer without a timestamp.
Legacy(content) == [hour |-> 0, counted |-> content, content |-> content]

NoPointer == [gen |-> 0, started |-> 0, latest |-> Legacy({})]

-----------------------------------------------------------------------------
(* The local state of a build *)

Running == {"counting", "drawing", "uploading", "locating", "reading",
            "writing", "checking", "copying", "comparing", "replacing", "pruning",
            "listing", "deleting"}

\* The live pointer is, or has been, this build's.
Published == {"copying", "comparing", "replacing", "pruning", "listing",
              "deleting", "overtaken", "unpruned", "pruned"}

Ended == {"empty", "older", "lost", "overtaken", "unpruned", "pruned", "failed"}

Idle == [pc |-> "idle", started |-> 0, reads |-> 0, counted |-> {}, content |-> {},
         version |-> Legacy({}), attempt |-> 1, gen |-> 0,
         doomed |-> {}, missed |-> FALSE]

Become(b, local) == build' = [build EXCEPT ![b] = local]
Goto(b, label) == Become(b, [build[b] EXCEPT !.pc = label])

Init ==
    /\ db \in SUBSET Traces
    /\ touched = [t \in Traces |-> 0]
    /\ changes = 0
    /\ clock = 0
    /\ hour = 1
    /\ \/ pointer = NoPointer /\ objects = {}
       \/ /\ pointer = [gen |-> 1, started |-> 0, latest |-> Legacy(db)]
          /\ objects = {[name |-> Legacy(db), created |-> 0]}
    /\ mutable = Nobody
    /\ tmps = {}
    /\ build = [b \in Builds |-> Idle]

-----------------------------------------------------------------------------
(* The world around the builds *)

Touch(t) ==
    /\ changes < MaxChanges
    /\ changes' = changes + 1
    /\ touched' = [touched EXCEPT ![t] = clock]
    /\ UNCHANGED <<clock, hour, bucket, build>>

\* An upload with consent reaches the activities table.
Contribute(t) == t \notin db /\ db' = db \cup {t} /\ Touch(t)

\* An activity is deleted by its owner.
Erase(t) == t \in db /\ db' = db \ {t} /\ Touch(t)

NextHour ==
    /\ hour < MaxHour
    /\ hour' = hour + 1
    /\ UNCHANGED <<database, clock, bucket, build>>

-----------------------------------------------------------------------------
(* The build *)

\* The timestamp is taken before the export's queries.
Start(b) ==
    /\ build[b].pc = "idle"
    /\ clock' = clock + 1
    /\ Become(b, [build[b] EXCEPT !.pc = "counting", !.started = clock + 1])
    /\ UNCHANGED <<database, hour, bucket>>

\* The first query: one snapshot of the corpus, of which the build keeps counts.
Count(b) ==
    /\ build[b].pc = "counting"
    /\ Become(b, [build[b] EXCEPT !.pc = "drawing", !.reads = 1, !.counted = db])
    /\ UNCHANGED <<database, clock, hour, bucket>>

\* The second query: another snapshot.  When there is nothing to draw the build
\* publishes nothing and leaves the published tiles alone.
Draw(b) ==
    /\ build[b].pc = "drawing"
    /\ Become(b, [build[b] EXCEPT !.pc = IF db = {} THEN "empty" ELSE "uploading",
                                  !.reads = 2, !.content = db])
    /\ UNCHANGED <<database, clock, hour, bucket>>

Named(b) == [hour |-> hour, counted |-> build[b].counted, content |-> build[b].content]

UploadRequeried(b) ==                                           \* seeded fault
    LET v == [hour |-> hour, counted |-> build[b].counted, content |-> db] IN
    /\ build[b].pc = "uploading"
    /\ objects' = {o \in objects : o.name # v}
                    \cup {[name |-> v, created |-> clock]}
    /\ Become(b, [build[b] EXCEPT !.pc = "locating", !.version = v])
    /\ UNCHANGED <<database, clock, hour, pointer, mutable, tmps>>

UploadStamping(b) ==                                            \* seeded fault
    LET v == Named(b) IN
    /\ build[b].pc = "uploading"
    /\ clock' = clock + 1
    /\ objects' = {o \in objects : o.name # v}
                    \cup {[name |-> v, created |-> clock + 1]}
    /\ Become(b, [build[b] EXCEPT !.pc = "locating", !.version = v,
                                  !.started = clock + 1])
    /\ UNCHANGED <<database, hour, pointer, mutable, tmps>>

UploadCopyFirst(b) ==                                           \* seeded fault
    LET v == Named(b) IN
    /\ build[b].pc = "uploading"
    /\ objects' = {o \in objects : o.name # v}
                    \cup {[name |-> v, created |-> clock]}
    /\ mutable' = b
    /\ Become(b, [build[b] EXCEPT !.pc = "locating", !.version = v])
    /\ UNCHANGED <<database, clock, hour, pointer, tmps>>

\* Equal bytes in one hour share one name: the upload then replaces the object.
UploadSnapshot(b) ==
    LET v == Named(b) IN
    /\ build[b].pc = "uploading"
    /\ objects' = {o \in objects : o.name # v}
                    \cup {[name |-> v, created |-> clock]}
    /\ Become(b, [build[b] EXCEPT !.pc = "locating", !.version = v])
    /\ UNCHANGED <<database, clock, hour, pointer, mutable, tmps>>

(* The compare-and-set reads the pointer's generation, then its body. *)

Carries(b) ==
    /\ pointer.gen > 0
    /\ pointer.started = build[b].started
    /\ pointer.latest = build[b].version

NeverOlder(b) == pointer.gen < 0                                \* seeded fault
NotNewer(b) == pointer.started <= build[b].started              \* seeded fault
NotOlder(b) == pointer.started >= build[b].started

Locate(b) ==
    /\ build[b].pc = "locating"
    /\ Become(b, [build[b] EXCEPT
                    !.pc = IF pointer.gen = 0 THEN "writing" ELSE "reading",
                    !.gen = pointer.gen])
    /\ UNCHANGED <<database, clock, hour, bucket>>

\* A body that cannot be read counts as one without a timestamp: older.
ReadPointer(b) ==
    /\ build[b].pc = "reading"
    /\ \/ /\ pointer.gen = build[b].gen
          /\ Goto(b, IF Carries(b) THEN "copying"
                     ELSE IF NotOlder(b) THEN "older" ELSE "writing")
       \/ /\ pointer.gen # build[b].gen \/ UnreadableReads
          /\ Goto(b, "writing")
    /\ UNCHANGED <<database, clock, hour, bucket>>

\* PreconditionFailed: one retry with a fresh read, then a last look.
Retry(b) ==
    Become(b, [build[b] EXCEPT
                 !.pc = IF build[b].attempt = 1 THEN "locating" ELSE "checking",
                 !.attempt = 2])

\* A write that lands may lose its response; the client's own retry then
\* meets the generation it has just changed.
WritePointer(b) ==
    /\ build[b].pc = "writing"
    /\ IF pointer.gen = build[b].gen
       THEN /\ pointer' = [gen |-> pointer.gen + 1,
                           started |-> build[b].started,
                           latest |-> build[b].version]
            /\ Goto(b, "copying") \/ Retry(b)
       ELSE pointer' = pointer /\ Retry(b)
    /\ UNCHANGED <<database, clock, hour, objects, mutable, tmps>>

LastLook(b) ==
    /\ build[b].pc = "checking"
    /\ \/ Carries(b) /\ Goto(b, "copying")
       \/ (~Carries(b) \/ UnreadableReads) /\ Goto(b, "lost")
    /\ UNCHANGED <<database, clock, hour, bucket>>

(* The mutable copy goes through a temporary object of the build's own. *)

PointerIsOurs(b) == pointer.gen > 0 /\ pointer.started = build[b].started

UploadCopy(b) ==
    /\ build[b].pc = "copying"
    /\ tmps' = tmps \cup {b}
    /\ Goto(b, "comparing")
    /\ UNCHANGED <<database, clock, hour, objects, pointer, mutable>>

\* Deleting the temporary object is best effort.
DropCopy(b) == tmps' = tmps \ {b} \/ tmps' = tmps

Compare(b) ==
    /\ build[b].pc = "comparing"
    /\ \/ PointerIsOurs(b) /\ tmps' = tmps /\ Goto(b, "replacing")
       \/ (~PointerIsOurs(b) \/ UnreadableReads) /\ DropCopy(b) /\ Goto(b, "pruning")
    /\ UNCHANGED <<database, clock, hour, objects, pointer, mutable>>

ReplaceMutable(b) ==
    /\ build[b].pc = "replacing"
    /\ mutable' = b
    /\ DropCopy(b)
    /\ Goto(b, "pruning")
    /\ UNCHANGED <<database, clock, hour, objects, pointer>>

(* Pruning: the pointer is read again, then the bucket is listed. *)

RereadPointer(b) ==
    /\ build[b].pc = "pruning"
    /\ \/ PointerIsOurs(b) /\ Goto(b, "listing")
       \/ (~PointerIsOurs(b) \/ UnreadableReads) /\ Goto(b, "overtaken")
    /\ UNCHANGED <<database, clock, hour, bucket>>

PrunableAnyAge(b, o) == o.name # build[b].version                \* seeded fault
PrunableOtherHour(b, o) ==                                      \* seeded fault
    o.name.hour # build[b].version.hour /\ o.created < build[b].started

\* Kept: this build's snapshot, which the pointer just read references, and
\* whatever was uploaded after this build started.
Prunable(b, o) == o.name # build[b].version /\ o.created < build[b].started

ListOld(b) ==
    /\ build[b].pc = "listing"
    /\ Become(b, [build[b] EXCEPT !.pc = "deleting",
                                  !.doomed = {o \in objects : Prunable(b, o)}])
    /\ UNCHANGED <<database, clock, hour, bucket>>

\* The storage client deletes the generation it listed, not the name.
Without(listed) == objects \ {listed}

DeleteOld(b) ==
    /\ build[b].pc = "deleting"
    /\ \E o \in build[b].doomed :
         \/ /\ objects' = Without(o)
            /\ Become(b, [build[b] EXCEPT !.doomed = build[b].doomed \ {o}])
         \/ /\ objects' = objects
            /\ Become(b, [build[b] EXCEPT !.doomed = build[b].doomed \ {o},
                                          !.missed = TRUE])
    /\ UNCHANGED <<database, clock, hour, pointer, mutable, tmps>>

EndPrune(b) ==
    /\ build[b].pc = "deleting"
    /\ build[b].doomed = {}
    /\ Goto(b, IF build[b].missed THEN "unpruned" ELSE "pruned")
    /\ UNCHANGED <<database, clock, hour, bucket>>

\* An exception that ends the upload, or the death of the execution: of what it
\* knew only the history of its start and its reads is kept.
Abort(b) ==
    /\ build[b].pc \in Running
    /\ Become(b, [build[b] EXCEPT !.pc = "failed", !.version = Legacy({}), !.attempt = 1,
                                  !.gen = 0, !.doomed = {}, !.missed = FALSE])
    /\ UNCHANGED <<database, clock, hour, bucket>>

-----------------------------------------------------------------------------

BuildStep(b) ==
    \/ Start(b) \/ Count(b) \/ Draw(b) \/ UploadSnapshot(b)
    \/ Locate(b) \/ ReadPointer(b) \/ WritePointer(b) \/ LastLook(b)
    \/ UploadCopy(b) \/ Compare(b) \/ ReplaceMutable(b)
    \/ RereadPointer(b) \/ ListOld(b) \/ DeleteOld(b) \/ EndPrune(b)

Next ==
    \/ \E t \in Traces : Contribute(t) \/ Erase(t)
    \/ NextHour
    \/ \E b \in Builds : BuildStep(b) \/ Abort(b)

Spec == Init /\ [][Next]_vars

-----------------------------------------------------------------------------
(* Properties *)

LocalState ==
    [pc: {"idle"} \cup Running \cup Ended, started: Nat,
     reads: 0 .. 2, counted: SUBSET Traces, content: SUBSET Traces,
     version: Version, attempt: {1, 2}, gen: Nat,
     doomed: SUBSET Snapshot, missed: BOOLEAN]

\* The variables hold values of the bucket's and the builds' shapes.
TypeOK ==
    /\ db \in SUBSET Traces
    /\ touched \in [Traces -> Nat]
    /\ changes \in 0 .. MaxChanges
    /\ clock \in Nat
    /\ hour \in 1 .. MaxHour
    /\ objects \in SUBSET Snapshot
    /\ pointer \in [gen: Nat, started: Nat, latest: Version]
    /\ mutable \in Builds \cup {Nobody}
    /\ tmps \in SUBSET Builds
    /\ build \in [Builds -> LocalState]

\* "A build that started earlier and finishes later can never overwrite a
\* newer pointer": every write of heatmap-display.json is by a build that
\* started after the one before it, lost responses and retries included.
PointerNeverGoesBack == [][pointer'.started > pointer.started]_pointer

\* The map never gets a 404: the snapshot the pointer references is in the
\* bucket, whatever overlapping builds upload under the same name and prune.
PointedSnapshotExists ==
    pointer.gen > 0 => \E o \in objects : o.name = pointer.latest

\* What the map shows is at least as recent as the published timestamp: a
\* trace unchanged since that build started is drawn if and only if the
\* database has it, and so it is counted.  An erasure and a contribution are
\* covered alike, and what was drawn without being counted is a later change.
MapReflectsItsStart ==
    \A t \in Traces :
        touched[t] < pointer.started =>
            /\ t \in pointer.latest.content <=> t \in db
            /\ t \in pointer.latest.counted <=> t \in db

\* A build that ends without failing leaves a pointer at least as recent as
\* itself, be it its own or the one it gave way to.
FinishedIsCovered ==
    \A b \in Builds :
        build[b].pc \in Published \cup {"older"} => pointer.started >= build[b].started

\* A build that gave way wrote nothing but its snapshot: the mutable copy is
\* always the bytes of a build the pointer has referenced.
MutableWasPointed ==
    mutable # Nobody =>
        /\ build[mutable].started <= pointer.started
        /\ build[mutable].pc \notin {"older", "lost"}

Erased(t, b) == t \notin db /\ touched[t] < build[b].started

\* After a complete prune, a trace erased before that build started survives
\* only in snapshots uploaded since, by builds that overlapped it.
ErasedSurvivesOnlyByOverlap ==
    \A b \in Builds, t \in Traces, o \in objects :
        build[b].pc = "pruned" /\ Erased(t, b) /\ t \in o.name.content
            => o.created >= build[b].started

(* The map that a visitor sees, without the bucket: the pointer's snapshot, *)
(* and for every build when it began and what its two queries have read.    *)
Map == INSTANCE CommunityMap WITH
         Rebuilds <- Builds,
         corpus   <- db,
         now      <- clock,
         begun    <- [b \in Builds |-> build[b].started],
         reads    <- [b \in Builds |-> build[b].reads],
         counted  <- [b \in Builds |-> build[b].counted],
         drawn    <- [b \in Builds |-> build[b].content],
         shown    <- [begun |-> pointer.started, counted |-> pointer.latest.counted,
                      traces |-> pointer.latest.content]

\* The job implements the promise: overlapping builds, lost responses, retries
\* and deaths show a visitor nothing but the two whole reads of one build, both
\* made after it began, and then only those of a build that began later.  That
\* the two reads are of one state is not promised.
ShowsWholeReads == Map!Spec

(* What the documentation says and the code does not keep *)

\* "Pass-2 emission then lines up with the pass-1 lattice" (_stream_activities):
\* what the map draws has been counted.  A contribution between the two queries is
\* drawn and not counted; an erasure is counted and not drawn.
DrawnIsCounted == pointer.latest.content \subseteq pointer.latest.counted

\* The same promise, leaving alone a build that writes its own pointer twice:
\* "an older build never overwrites a newer pointer".
NewerPointerStays == [][pointer'.started >= pointer.started]_pointer

Quiet == \A b \in Builds : build[b].pc \notin Running

\* "The build also prunes the older pinned snapshots, so the deleted traces do
\* not survive in an old snapshot on our bucket": once a build started after
\* the erasure has pruned everything it found and no build runs, no snapshot
\* holds the trace.
ErasedLeavesSnapshots ==
    \A b \in Builds, t \in Traces :
        Quiet /\ build[b].pc = "pruned" /\ Erased(t, b)
            => \A o \in objects : t \notin o.name.content

\* The same of the temporary uploads, which hold the whole map and which the
\* prune's listing does not match.
ErasedLeavesTemporaries ==
    \A b \in Builds, t \in Traces :
        Quiet /\ build[b].pc = "pruned" /\ Erased(t, b)
            => \A c \in tmps : t \notin build[c].content

\* "The rendered map updates on the next regeneration": when a build started
\* after the erasure ends without failing, the map does not show the trace.
ErasedLeavesMap ==
    \A b \in Builds, t \in Traces :
        build[b].pc \in {"empty", "older", "unpruned", "pruned"} /\ Erased(t, b)
            => t \notin pointer.latest.content

=============================================================================
