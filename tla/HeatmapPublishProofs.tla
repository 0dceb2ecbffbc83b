------------------------ MODULE HeatmapPublishProofs ------------------------
(* Theorems of HeatmapPublish, for every value of its constants. *)
EXTENDS HeatmapPublish, TLAPS

LEMMA InitType == Init => TypeOK
BY NobodyAssumption, BoundsAssumption
   DEF Init, TypeOK, LocalState, Idle, NoPointer, Legacy, Version, Snapshot,
       Running, Ended

Labels == {"idle"} \cup Running \cup Ended

(* The updates of a build's record stay in its type. *)
LEMMA LocalUpdates ==
    ASSUME NEW l \in LocalState, NEW label \in Labels
    PROVE  /\ \A n \in Nat : [l EXCEPT !.pc = label, !.started = n] \in LocalState
           /\ \A n \in Nat : [l EXCEPT !.pc = label, !.gen = n] \in LocalState
           /\ \A n \in {1, 2} : [l EXCEPT !.pc = label, !.attempt = n] \in LocalState
           /\ \A c \in SUBSET Traces :
                /\ [l EXCEPT !.pc = label, !.reads = 1, !.counted = c] \in LocalState
                /\ [l EXCEPT !.pc = label, !.reads = 2, !.content = c] \in LocalState
           /\ \A v \in Version : [l EXCEPT !.pc = label, !.version = v] \in LocalState
           /\ \A d \in SUBSET Snapshot :
                /\ [l EXCEPT !.pc = label, !.doomed = d] \in LocalState
                /\ [l EXCEPT !.doomed = d] \in LocalState
                /\ [l EXCEPT !.doomed = d, !.missed = TRUE] \in LocalState
<1>1. 1 \in 0 .. 2 /\ 2 \in 0 .. 2
  OBVIOUS
<1> QED
  BY <1>1, Zenon DEF LocalState, Labels

(* What a build does to its own record, and to no other. *)
LEMMA BecomeEffect ==
    ASSUME TypeOK, NEW b \in Builds, NEW local, Become(b, local)
    PROVE  /\ build'[b] = local
           /\ \A c \in Builds : c # b => build'[c] = build[c]
           /\ local \in LocalState => build' \in [Builds -> LocalState]
BY DEF TypeOK, Become

LEMMA GotoEffect ==
    ASSUME TypeOK, NEW b \in Builds, NEW label, Goto(b, label)
    PROVE  /\ build'[b] = [build[b] EXCEPT !.pc = label]
           /\ \A c \in Builds : c # b => build'[c] = build[c]
           /\ label \in Labels
                => build' \in [Builds -> LocalState]
<1> DEFINE local == [build[b] EXCEPT !.pc = label]
<1>1. Become(b, local)
  BY DEF Goto
<1>2. label \in Labels => local \in LocalState
  BY DEF TypeOK, LocalState, Labels
<1> QED
  BY <1>1, <1>2, BecomeEffect

(* The start, the two reads and the end of a build, field by field.           *)
LEMMA StartEffect ==
    ASSUME TypeOK, NEW b \in Builds, Start(b)
    PROVE  /\ build[b].pc = "idle" /\ clock' = clock + 1
           /\ UNCHANGED <<database, hour, bucket>>
           /\ \A c \in Builds : c # b => build'[c] = build[c]
           /\ build'[b].pc = "counting" /\ build'[b].started = clock + 1
           /\ build'[b].gen = build[b].gen /\ build'[b].reads = build[b].reads
           /\ build'[b].counted = build[b].counted
           /\ build'[b].content = build[b].content
           /\ build'[b].version = build[b].version
           /\ build' \in [Builds -> LocalState]
<1>0. build[b] \in LocalState /\ clock + 1 \in Nat
  BY DEF TypeOK
<1>1. PICK m : m = [build[b] EXCEPT !.pc = "counting", !.started = clock + 1]
  OBVIOUS
<1>2. Become(b, m)
  BY <1>1, Zenon DEF Start
<1>3. /\ m.pc = "counting" /\ m.started = clock + 1 /\ m.gen = build[b].gen
      /\ m.reads = build[b].reads /\ m.counted = build[b].counted
      /\ m.content = build[b].content /\ m.version = build[b].version
  BY <1>0, <1>1 DEF LocalState
<1>4. m \in LocalState
  BY <1>0, <1>1, LocalUpdates DEF Labels, Running
<1> QED
  BY <1>2, <1>3, <1>4, BecomeEffect DEF Start

LEMMA CountEffect ==
    ASSUME TypeOK, NEW b \in Builds, Count(b)
    PROVE  /\ build[b].pc = "counting"
           /\ UNCHANGED <<database, clock, hour, bucket>>
           /\ \A c \in Builds : c # b => build'[c] = build[c]
           /\ build'[b].pc = "drawing" /\ build'[b].reads = 1
           /\ build'[b].counted = db /\ build'[b].content = build[b].content
           /\ build'[b].started = build[b].started
           /\ build'[b].gen = build[b].gen
           /\ build'[b].version = build[b].version
           /\ build' \in [Builds -> LocalState]
<1>0. build[b] \in LocalState
  BY DEF TypeOK
<1>1. PICK m : m = [build[b] EXCEPT !.pc = "drawing", !.reads = 1, !.counted = db]
  OBVIOUS
<1>2. Become(b, m)
  BY <1>1, Zenon DEF Count
<1>3. /\ m.pc = "drawing" /\ m.reads = 1 /\ m.counted = db
      /\ m.content = build[b].content /\ m.started = build[b].started
      /\ m.gen = build[b].gen /\ m.version = build[b].version
  BY <1>0, <1>1 DEF LocalState
<1>4. m \in LocalState
  BY <1>0, <1>1, LocalUpdates DEF TypeOK, Labels, Running
<1> QED
  BY <1>2, <1>3, <1>4, BecomeEffect DEF Count

LEMMA DrawEffect ==
    ASSUME TypeOK, NEW b \in Builds, Draw(b)
    PROVE  /\ build[b].pc = "drawing"
           /\ UNCHANGED <<database, clock, hour, bucket>>
           /\ \A c \in Builds : c # b => build'[c] = build[c]
           /\ build'[b].pc = (IF db = {} THEN "empty" ELSE "uploading")
           /\ build'[b].reads = 2
           /\ build'[b].content = db /\ build'[b].counted = build[b].counted
           /\ build'[b].started = build[b].started
           /\ build'[b].gen = build[b].gen
           /\ build'[b].version = build[b].version
           /\ build' \in [Builds -> LocalState]
<1>0. build[b] \in LocalState
  BY DEF TypeOK
<1>1. PICK m : m = [build[b] EXCEPT !.pc = IF db = {} THEN "empty" ELSE "uploading",
                                    !.reads = 2, !.content = db]
  OBVIOUS
<1>2. Become(b, m)
  BY <1>1, Zenon DEF Draw
<1>3. /\ m.pc = (IF db = {} THEN "empty" ELSE "uploading") /\ m.reads = 2
      /\ m.content = db /\ m.counted = build[b].counted
      /\ m.started = build[b].started /\ m.gen = build[b].gen
      /\ m.version = build[b].version
  BY <1>0, <1>1 DEF LocalState
<1>4. m \in LocalState
  BY <1>0, <1>1, LocalUpdates DEF TypeOK, Labels, Running, Ended
<1> QED
  BY <1>2, <1>3, <1>4, BecomeEffect DEF Draw

LEMMA AbortEffect ==
    ASSUME TypeOK, NEW b \in Builds, Abort(b)
    PROVE  /\ build[b].pc \in Running
           /\ UNCHANGED <<database, clock, hour, bucket>>
           /\ \A c \in Builds : c # b => build'[c] = build[c]
           /\ build'[b].pc = "failed" /\ build'[b].gen = 0
           /\ build'[b].started = build[b].started
           /\ build'[b].reads = build[b].reads
           /\ build'[b].counted = build[b].counted
           /\ build'[b].content = build[b].content
           /\ build' \in [Builds -> LocalState]
<1>0. build[b] \in LocalState
  BY DEF TypeOK
<1>1. PICK v, m : /\ v \in Version
                  /\ m = [build[b] EXCEPT !.pc = "failed", !.version = v, !.attempt = 1,
                                          !.gen = 0, !.doomed = {}, !.missed = FALSE]
                  /\ Become(b, m)
  <2>1. Legacy({}) \in Version
    BY BoundsAssumption DEF Legacy, Version
  <2> QED
    BY <2>1, Zenon DEF Abort
<1>2. /\ m.pc = "failed" /\ m.gen = 0 /\ m.started = build[b].started
      /\ m.reads = build[b].reads /\ m.counted = build[b].counted
      /\ m.content = build[b].content
  BY <1>0, <1>1 DEF LocalState
<1>3. m \in LocalState
  <2>1. 1 \in {1, 2} /\ 0 \in Nat /\ {} \in SUBSET Snapshot /\ FALSE \in BOOLEAN
    OBVIOUS
  <2>2. "failed" \in {"idle"} \cup Running \cup Ended
    BY DEF Ended
  <2> QED
    BY <1>0, <1>1, <2>1, <2>2, Zenon DEF LocalState
<1> QED
  BY <1>1, <1>2, <1>3, BecomeEffect DEF Abort

LEMMA TypeStep == TypeOK /\ [Next]_vars => TypeOK'
<1> SUFFICES ASSUME TypeOK, [Next]_vars PROVE TypeOK'
  OBVIOUS
<1>0. \A b \in Builds : build[b] \in LocalState
  BY DEF TypeOK
<1> USE NobodyAssumption, BoundsAssumption
<1> USE DEF vars, database, bucket
<1>1. ASSUME NEW t \in Traces, Contribute(t) \/ Erase(t)
      PROVE  TypeOK'
  BY <1>1 DEF Contribute, Erase, Touch, TypeOK
<1>2. CASE NextHour
  BY <1>2 DEF NextHour, TypeOK
<1>3. ASSUME NEW b \in Builds, Start(b)
      PROVE  TypeOK'
  <2>1. clock' \in Nat
    BY <1>3, StartEffect DEF TypeOK
  <2> QED
    BY <1>3, <2>1, StartEffect DEF TypeOK
<1>4. ASSUME NEW b \in Builds, Count(b) \/ Draw(b) \/ Abort(b)
      PROVE  TypeOK'
  <2>1. /\ build' \in [Builds -> LocalState]
        /\ UNCHANGED <<database, clock, hour, bucket>>
    BY <1>4, CountEffect, DrawEffect, AbortEffect
  <2> QED
    BY <2>1 DEF TypeOK
<1>5. ASSUME NEW b \in Builds, UploadSnapshot(b)
      PROVE  TypeOK'
  <2> DEFINE v == Named(b)
  <2>1. v \in Version
    BY DEF TypeOK, LocalState, Version, Named
  <2>2. [build[b] EXCEPT !.pc = "locating", !.version = v] \in LocalState
    BY <1>0, <2>1, LocalUpdates DEF Labels, Running
  <2>3. [name |-> v, created |-> clock] \in Snapshot
    BY <2>1 DEF TypeOK, Snapshot
  <2> QED
    BY <1>5, <2>2, <2>3 DEF Become, UploadSnapshot, TypeOK
<1>6. ASSUME NEW b \in Builds, Locate(b)
      PROVE  TypeOK'
  <2>1. [build[b] EXCEPT
           !.pc = IF pointer.gen = 0 THEN "writing" ELSE "reading",
           !.gen = pointer.gen] \in LocalState
    BY <1>0, LocalUpdates DEF TypeOK, Labels, Running
  <2> QED
    BY <1>6, <2>1, BecomeEffect DEF Locate, TypeOK
<1>7. ASSUME NEW b \in Builds, Retry(b)
      PROVE  build' \in [Builds -> LocalState]
  <2>1. [build[b] EXCEPT
           !.pc = IF build[b].attempt = 1 THEN "locating" ELSE "checking",
           !.attempt = 2] \in LocalState
    BY <1>0, LocalUpdates DEF TypeOK, Labels, Running
  <2> QED
    BY <1>7, <2>1 DEF Become, Retry, TypeOK
<1>8. ASSUME NEW b \in Builds, WritePointer(b)
      PROVE  TypeOK'
  <2>1. build' \in [Builds -> LocalState]
    BY <1>7, <1>8, GotoEffect DEF WritePointer, Labels, Running
  <2>2. pointer' \in [gen: Nat, started: Nat, latest: Version]
    BY <1>8 DEF WritePointer, TypeOK, LocalState
  <2> QED
    BY <1>8, <2>1, <2>2 DEF WritePointer, TypeOK
<1>9. ASSUME NEW b \in Builds,
             ReadPointer(b) \/ LastLook(b) \/ RereadPointer(b) \/ EndPrune(b)
      PROVE  TypeOK'
  <2>1. build' \in [Builds -> LocalState]
    BY <1>9, GotoEffect
       DEF ReadPointer, LastLook, RereadPointer, EndPrune, Labels, Running, Ended
  <2>2. UNCHANGED <<database, clock, hour, bucket>>
    BY <1>9 DEF ReadPointer, LastLook, RereadPointer, EndPrune
  <2> QED
    BY <2>1, <2>2 DEF TypeOK
<1>10. ASSUME NEW b \in Builds, UploadCopy(b) \/ Compare(b) \/ ReplaceMutable(b)
       PROVE  TypeOK'
  <2>1. build' \in [Builds -> LocalState]
    BY <1>10, GotoEffect DEF UploadCopy, Compare, ReplaceMutable, Labels, Running
  <2>2. tmps' \in SUBSET Builds /\ mutable' \in Builds \cup {Nobody}
    BY <1>10 DEF UploadCopy, Compare, ReplaceMutable, DropCopy, TypeOK
  <2>3. UNCHANGED <<database, clock, hour, objects, pointer>>
    BY <1>10 DEF UploadCopy, Compare, ReplaceMutable
  <2> QED
    BY <2>1, <2>2, <2>3 DEF TypeOK
<1>11. ASSUME NEW b \in Builds, ListOld(b)
       PROVE  TypeOK'
  <2>1. [build[b] EXCEPT !.pc = "deleting",
                         !.doomed = {o \in objects : Prunable(b, o)}] \in LocalState
    BY <1>0, LocalUpdates DEF TypeOK, Labels, Running
  <2> QED
    BY <1>11, <2>1 DEF Become, ListOld, TypeOK
<1>12. ASSUME NEW b \in Builds, DeleteOld(b)
       PROVE  TypeOK'
  <2>1. PICK o \in build[b].doomed :
          \/ /\ objects' = Without(o)
             /\ Become(b, [build[b] EXCEPT !.doomed = build[b].doomed \ {o}])
          \/ /\ objects' = objects
             /\ Become(b, [build[b] EXCEPT !.doomed = build[b].doomed \ {o},
                                           !.missed = TRUE])
    BY <1>12 DEF DeleteOld
  <2>0. "idle" \in Labels /\ build[b].doomed \ {o} \in SUBSET Snapshot
    BY <1>0 DEF Labels, LocalState
  <2>2. /\ [build[b] EXCEPT !.doomed = build[b].doomed \ {o}] \in LocalState
        /\ [build[b] EXCEPT !.doomed = build[b].doomed \ {o},
                            !.missed = TRUE] \in LocalState
    BY <1>0, <2>0, LocalUpdates
  <2>3. build' \in [Builds -> LocalState]
    BY <2>1, <2>2 DEF Become, TypeOK
  <2>4. objects' \in SUBSET Snapshot
    BY <2>1 DEF Without, TypeOK
  <2> QED
    BY <1>12, <2>3, <2>4 DEF DeleteOld, TypeOK
<1>13. CASE UNCHANGED vars
  BY <1>13 DEF TypeOK
<1> QED
  BY <1>1, <1>2, <1>3, <1>4, <1>5, <1>6, <1>8, <1>9, <1>10, <1>11, <1>12, <1>13
     DEF Next, BuildStep

(* The variables hold values of the bucket's and the builds' shapes, for any *)
(* builds, traces and bounds.                                                *)
THEOREM TypeCorrect == Spec => []TypeOK
BY InitType, TypeStep, PTL DEF Spec

-----------------------------------------------------------------------------
(* The inductive invariant of the publication, when a pointer that exists can *)
(* be read.  A build whose pointer write can still land holds its snapshot,   *)
(* unless a newer build has published and pruned it; whatever a prune is      *)
(* about to delete is older than the pruner, and the pointer is not.          *)

Publishing == {"locating", "reading", "writing"}

Held(name, since) == \E o \in objects : o.name = name /\ o.created >= since

Clocked ==
    /\ pointer.started <= clock
    /\ \A o \in objects : o.created <= clock
    /\ \A t \in Traces : touched[t] <= clock
    /\ \A b \in Builds : build[b].started <= clock

Generations ==
    /\ pointer.gen = 0 => pointer.started = 0
    /\ \A b \in Builds : build[b].gen <= pointer.gen
    /\ \A b \in Builds : build[b].pc # "idle" => build[b].started > 0

WritesForward ==
    \A b \in Builds :
        build[b].pc = "writing" /\ build[b].gen = pointer.gen
            => pointer.started < build[b].started

SnapshotsHeld ==
    /\ pointer.gen > 0 => Held(pointer.latest, pointer.started)
    /\ \A b \in Builds :
        build[b].pc \in Publishing
            => \/ pointer.started > build[b].started
               \/ Held(build[b].version, build[b].started)

DoomedAreOlder ==
    \A b \in Builds :
        build[b].pc = "deleting"
            => \A o \in build[b].doomed : o.created < build[b].started

ContentReflectsStart ==
    \A b \in Builds :
        /\ build[b].pc \in Publishing =>
             /\ build[b].version.counted = build[b].counted
             /\ build[b].version.content = build[b].content
        /\ \A t \in Traces :
             touched[t] < build[b].started =>
               /\ build[b].pc \in {"drawing", "uploading"} \cup Publishing
                    => (t \in build[b].counted <=> t \in db)
               /\ build[b].pc \in {"uploading"} \cup Publishing
                    => (t \in build[b].content <=> t \in db)

PublishInv ==
    /\ TypeOK
    /\ Clocked
    /\ Generations
    /\ WritesForward
    /\ FinishedIsCovered
    /\ SnapshotsHeld
    /\ DoomedAreOlder
    /\ ContentReflectsStart
    /\ MapReflectsItsStart

LEMMA PublishInit == Init => PublishInv
<1> SUFFICES ASSUME Init PROVE PublishInv
  OBVIOUS
<1>1. TypeOK
  BY InitType
<1>2. \A b \in Builds : build[b] = Idle
  BY DEF Init
<1>3. \A b \in Builds : build[b].pc = "idle" /\ build[b].started = 0 /\ build[b].gen = 0
  BY <1>2 DEF Idle
<1>4. /\ pointer.started = 0
      /\ pointer.gen \in {0, 1}
      /\ pointer.gen > 0 => objects = {[name |-> pointer.latest, created |-> 0]}
      /\ \A o \in objects : o.created = 0
  <2>1. CASE pointer = NoPointer /\ objects = {}
    BY <2>1 DEF NoPointer
  <2>2. CASE /\ pointer = [gen |-> 1, started |-> 0, latest |-> Legacy(db)]
             /\ objects = {[name |-> Legacy(db), created |-> 0]}
    BY <2>2
  <2> QED
    BY <2>1, <2>2 DEF Init
<1>5. pointer.gen > 0 => Held(pointer.latest, pointer.started)
  <2>1. HAVE pointer.gen > 0
  <2>2. PICK o \in objects : o = [name |-> pointer.latest, created |-> 0]
    BY <1>4, <2>1
  <2> QED
    BY <1>4, <2>2 DEF Held
<1>6. clock = 0 /\ \A t \in Traces : touched[t] = 0
  BY DEF Init
<1> QED
  BY <1>1, <1>3, <1>4, <1>5, <1>6
     DEF PublishInv, Clocked, Generations, WritesForward, FinishedIsCovered,
         SnapshotsHeld, DoomedAreOlder, ContentReflectsStart,
         MapReflectsItsStart, Publishing, Published

(* A step that only moves one build to a label it has earned. *)
LEMMA QuietStep ==
    ASSUME PublishInv, TypeOK', NEW b \in Builds,
           UNCHANGED <<db, touched, clock, objects, pointer>>,
           \A c \in Builds : c # b => build'[c] = build[c],
           build'[b].started = build[b].started,
           build'[b].counted = build[b].counted,
           build'[b].content = build[b].content,
           build'[b].version = build[b].version,
           build'[b].doomed \subseteq build[b].doomed,
           build'[b].gen = build[b].gen,
           build[b].pc # "idle",
           build'[b].pc \in {"locating", "writing"} =>
               build[b].pc \in {"reading", "writing"},
           build'[b].pc \notin {"idle", "counting", "drawing", "uploading", "reading"},
           build'[b].pc = "deleting" => build[b].pc = "deleting",
           build'[b].pc = "writing" /\ build[b].gen = pointer.gen =>
               pointer.started < build[b].started,
           build'[b].pc \in Published \cup {"older"} =>
               pointer.started >= build[b].started
    PROVE  PublishInv'
<1> USE DEF PublishInv
<1>1. Clocked' /\ Generations' /\ WritesForward'
  BY DEF Clocked, Generations, WritesForward
<1>2. FinishedIsCovered'
  BY DEF FinishedIsCovered, Published
<1>3. SnapshotsHeld'
  BY DEF SnapshotsHeld, Held, Publishing
<1>4. DoomedAreOlder'
  BY DEF DoomedAreOlder
<1>5. ContentReflectsStart' /\ MapReflectsItsStart'
  BY DEF ContentReflectsStart, MapReflectsItsStart, Publishing
<1> QED
  BY <1>1, <1>2, <1>3, <1>4, <1>5

LEMMA PublishStep == ~UnreadableReads /\ PublishInv /\ [Next]_vars => PublishInv'
<1> SUFFICES ASSUME ~UnreadableReads, PublishInv, [Next]_vars PROVE PublishInv'
  OBVIOUS
<1>0. TypeOK /\ TypeOK' /\ \A b \in Builds : build[b] \in LocalState
  BY TypeStep DEF PublishInv, TypeOK
<1> USE DEF vars, database, bucket
<1>1. ASSUME NEW t \in Traces, Contribute(t) \/ Erase(t)
      PROVE  PublishInv'
  <2>1. UNCHANGED <<clock, objects, pointer, build>>
    BY <1>1 DEF Contribute, Erase, Touch
  <2>2. /\ touched'[t] = clock
        /\ \A u \in Traces : u # t =>
             touched'[u] = touched[u] /\ (u \in db' <=> u \in db)
    BY <1>0, <1>1 DEF Contribute, Erase, Touch, TypeOK
  <2>3. Clocked'
    BY <1>0, <2>1, <2>2 DEF PublishInv, Clocked, TypeOK
  <2>4. ContentReflectsStart' /\ MapReflectsItsStart'
    BY <1>0, <2>1, <2>2
       DEF PublishInv, Clocked, ContentReflectsStart, MapReflectsItsStart,
           TypeOK, LocalState
  <2> QED
    BY <1>0, <2>1, <2>3, <2>4
       DEF PublishInv, Generations, WritesForward, FinishedIsCovered,
           SnapshotsHeld, Held, DoomedAreOlder
<1>2. CASE NextHour \/ UNCHANGED vars
  <2>1. UNCHANGED <<database, clock, objects, pointer, build>>
    BY <1>2 DEF NextHour
  <2> QED
    BY <1>0, <2>1
       DEF PublishInv, Clocked, Generations, WritesForward, FinishedIsCovered,
           SnapshotsHeld, Held, DoomedAreOlder, ContentReflectsStart,
           MapReflectsItsStart
<1>3. ASSUME NEW b \in Builds, Start(b)
      PROVE  PublishInv'
  <2>1. /\ build'[b].pc = "counting"
        /\ build'[b].started = clock + 1
        /\ build'[b].gen = build[b].gen
        /\ \A c \in Builds : c # b => build'[c] = build[c]
        /\ clock' = clock + 1 /\ UNCHANGED <<database, objects, pointer>>
    BY <1>0, <1>3, StartEffect
  <2>3. Clocked' /\ Generations'
    BY <1>0, <2>1
       DEF PublishInv, Clocked, Generations, TypeOK, LocalState, Snapshot
  <2>4. /\ WritesForward' /\ FinishedIsCovered' /\ SnapshotsHeld'
        /\ DoomedAreOlder' /\ ContentReflectsStart' /\ MapReflectsItsStart'
    BY <2>1
       DEF PublishInv, WritesForward, FinishedIsCovered, SnapshotsHeld, Held,
           DoomedAreOlder, ContentReflectsStart, MapReflectsItsStart,
           Publishing, Published
  <2> QED
    BY <1>0, <2>3, <2>4 DEF PublishInv
<1>4. ASSUME NEW b \in Builds, Count(b) \/ Draw(b) \/ Abort(b)
      PROVE  PublishInv'
  <2>1. /\ UNCHANGED <<database, clock, objects, pointer>>
        /\ build[b].pc # "idle"
        /\ build'[b].started = build[b].started
        /\ build'[b].gen \in {0, build[b].gen}
        /\ \A c \in Builds : c # b => build'[c] = build[c]
        /\ \/ build'[b].pc = "drawing" /\ build'[b].counted = db
           \/ /\ build[b].pc = "drawing" /\ build'[b].pc \in {"empty", "uploading"}
              /\ build'[b].content = db /\ build'[b].counted = build[b].counted
           \/ build'[b].pc = "failed"
    BY <1>0, <1>4, CountEffect, DrawEffect, AbortEffect DEF Running
  <2>3. Clocked' /\ Generations'
    BY <1>0, <2>1 DEF PublishInv, Clocked, Generations, TypeOK
  <2>4. /\ WritesForward' /\ FinishedIsCovered' /\ SnapshotsHeld'
        /\ DoomedAreOlder' /\ MapReflectsItsStart'
    BY <2>1
       DEF PublishInv, WritesForward, FinishedIsCovered, SnapshotsHeld, Held,
           DoomedAreOlder, MapReflectsItsStart, Publishing, Published
  <2>5. ContentReflectsStart'
    BY <2>1 DEF PublishInv, ContentReflectsStart, Publishing
  <2> QED
    BY <1>0, <2>3, <2>4, <2>5 DEF PublishInv
<1>5. ASSUME NEW b \in Builds, UploadSnapshot(b)
      PROVE  PublishInv'
  <2> DEFINE v == Named(b)
             new == [name |-> v, created |-> clock]
  <2>1. /\ build'[b].pc = "locating"
        /\ build'[b].version = v
        /\ build'[b].counted = build[b].counted
        /\ build'[b].content = build[b].content
        /\ build'[b].started = build[b].started
        /\ build'[b].gen = build[b].gen
        /\ \A c \in Builds : c # b => build'[c] = build[c]
    <3>1. PICK m : m = [build[b] EXCEPT !.pc = "locating", !.version = v]
      OBVIOUS
    <3>2. Become(b, m)
      BY <1>5, <3>1, Zenon DEF UploadSnapshot
    <3>3. build'[b] = m /\ \A c \in Builds : c # b => build'[c] = build[c]
      BY <1>0, <3>2, BecomeEffect
    <3>4. /\ m.pc = "locating" /\ m.version = v
          /\ m.counted = build[b].counted /\ m.content = build[b].content
          /\ m.started = build[b].started /\ m.gen = build[b].gen
      BY <1>0, <3>1 DEF LocalState
    <3> QED
      BY <3>3, <3>4
  <2>2. /\ build[b].pc = "uploading"
        /\ objects' = {o \in objects : o.name # v} \cup {new}
        /\ UNCHANGED <<database, clock, pointer>>
    BY <1>5 DEF UploadSnapshot
  <2>0. /\ new.name = v /\ new.created = clock /\ clock \in Nat
        /\ v.counted = build[b].counted /\ v.content = build[b].content
    BY <1>0 DEF TypeOK, Named
  <2> HIDE DEF v, new
  <2>3. Clocked' /\ Generations'
    BY <1>0, <2>0, <2>1, <2>2 DEF PublishInv, Clocked, Generations
  <2>4. ASSUME NEW o \in objects, NEW since \in Nat, since <= clock, o.created >= since
        PROVE  \E n \in objects' : n.name = o.name /\ n.created >= since
    BY <2>0, <2>2, <2>4
  <2>5. \E n \in objects' : n.name = v /\ n.created >= build[b].started
    BY <1>0, <2>0, <2>2 DEF PublishInv, Clocked
  <2>6. SnapshotsHeld'
    BY <1>0, <2>1, <2>2, <2>4, <2>5
       DEF SnapshotsHeld, Held, Publishing, PublishInv, Clocked, TypeOK, LocalState
  <2>7. /\ WritesForward' /\ FinishedIsCovered'
        /\ DoomedAreOlder' /\ ContentReflectsStart' /\ MapReflectsItsStart'
    BY <2>0, <2>1, <2>2
       DEF PublishInv, WritesForward, FinishedIsCovered,
           DoomedAreOlder, ContentReflectsStart, MapReflectsItsStart,
           Publishing, Published
  <2> QED
    BY <1>0, <2>3, <2>6, <2>7 DEF PublishInv
<1>6. ASSUME NEW b \in Builds, Locate(b)
      PROVE  PublishInv'
  <2>1. /\ build'[b].pc = IF pointer.gen = 0 THEN "writing" ELSE "reading"
        /\ build'[b].gen = pointer.gen
        /\ build'[b].version = build[b].version
        /\ build'[b].counted = build[b].counted
        /\ build'[b].content = build[b].content
        /\ build'[b].started = build[b].started
        /\ \A c \in Builds : c # b => build'[c] = build[c]
    <3>1. PICK m : m = [build[b] EXCEPT
                         !.pc = IF pointer.gen = 0 THEN "writing" ELSE "reading",
                         !.gen = pointer.gen]
      OBVIOUS
    <3>2. Become(b, m)
      BY <1>6, <3>1, Zenon DEF Locate
    <3>3. build'[b] = m /\ \A c \in Builds : c # b => build'[c] = build[c]
      BY <1>0, <3>2, BecomeEffect
    <3>4. /\ m.pc = IF pointer.gen = 0 THEN "writing" ELSE "reading"
          /\ m.gen = pointer.gen /\ m.version = build[b].version
          /\ m.counted = build[b].counted
          /\ m.content = build[b].content /\ m.started = build[b].started
      BY <1>0, <3>1 DEF LocalState
    <3> QED
      BY <3>3, <3>4
  <2>2. build[b].pc = "locating" /\ UNCHANGED <<database, clock, objects, pointer>>
    BY <1>6 DEF Locate
  <2>3. Clocked' /\ Generations'
    BY <1>0, <2>1, <2>2 DEF PublishInv, Clocked, Generations, TypeOK
  <2>4. WritesForward'
    BY <1>0, <2>1, <2>2
       DEF PublishInv, WritesForward, Generations, TypeOK, LocalState
  <2>5. /\ FinishedIsCovered' /\ SnapshotsHeld'
        /\ DoomedAreOlder' /\ ContentReflectsStart' /\ MapReflectsItsStart'
    BY <2>1, <2>2
       DEF PublishInv, FinishedIsCovered, SnapshotsHeld, Held,
           DoomedAreOlder, ContentReflectsStart, MapReflectsItsStart,
           Publishing, Published
  <2> QED
    BY <1>0, <2>3, <2>4, <2>5 DEF PublishInv
<1>7. ASSUME NEW b \in Builds, NEW label,
             Goto(b, label),
             UNCHANGED <<database, clock, objects, pointer>>,
             build[b].pc # "idle",
             label = "writing" => build[b].pc = "reading",
             label \notin {"idle", "counting", "drawing", "uploading", "locating",
                           "reading", "deleting"},
             label = "writing" /\ build[b].gen = pointer.gen =>
                 pointer.started < build[b].started,
             label \in Published \cup {"older"} =>
                 pointer.started >= build[b].started
      PROVE  PublishInv'
  <2>1. /\ build'[b].pc = label
        /\ build'[b].gen = build[b].gen
        /\ build'[b].version = build[b].version
        /\ build'[b].counted = build[b].counted
        /\ build'[b].content = build[b].content
        /\ build'[b].started = build[b].started
        /\ build'[b].doomed = build[b].doomed
        /\ \A c \in Builds : c # b => build'[c] = build[c]
    <3>1. PICK m : m = [build[b] EXCEPT !.pc = label]
      OBVIOUS
    <3>2. Become(b, m)
      BY <1>7, <3>1, Zenon DEF Goto
    <3>3. build'[b] = m /\ \A c \in Builds : c # b => build'[c] = build[c]
      BY <1>0, <3>2, BecomeEffect
    <3>4. /\ m.pc = label /\ m.gen = build[b].gen /\ m.version = build[b].version
          /\ m.counted = build[b].counted
          /\ m.content = build[b].content /\ m.started = build[b].started
          /\ m.doomed = build[b].doomed
      BY <1>0, <3>1 DEF LocalState
    <3> QED
      BY <3>3, <3>4
  <2> QED
    BY <1>0, <1>7, <2>1, QuietStep
<1>8. ASSUME NEW b \in Builds, ReadPointer(b)
      PROVE  PublishInv'
  <2>1. PICK label \in {"copying", "older", "writing"} : Goto(b, label)
    BY <1>8 DEF ReadPointer
  <2>2. /\ build[b].pc = "reading"
        /\ UNCHANGED <<database, clock, objects, pointer>>
        /\ pointer.gen = build[b].gen =>
             \/ Carries(b) /\ Goto(b, "copying")
             \/ NotOlder(b) /\ Goto(b, "older")
             \/ ~NotOlder(b) /\ Goto(b, "writing")
        /\ pointer.gen # build[b].gen => Goto(b, "writing")
    BY <1>8 DEF ReadPointer
  <2>3. \A l : Goto(b, l) => build'[b].pc = l
    <3>1. SUFFICES ASSUME NEW l, Goto(b, l) PROVE build'[b].pc = l
      OBVIOUS
    <3>2. build'[b] = [build[b] EXCEPT !.pc = l]
      BY <1>0, <3>1, GotoEffect
    <3> QED
      BY <1>0, <3>2 DEF LocalState
  <2>4. CASE pointer.gen = build[b].gen
    BY <1>0, <1>7, <2>1, <2>2, <2>3, <2>4
       DEF Carries, NotOlder, Published, TypeOK, LocalState
  <2>5. CASE pointer.gen # build[b].gen
    BY <1>7, <2>1, <2>2, <2>3, <2>5 DEF Published
  <2> QED
    BY <2>4, <2>5
<1>9. ASSUME NEW b \in Builds, LastLook(b)
      PROVE  PublishInv'
  <2>1. /\ build[b].pc = "checking"
        /\ UNCHANGED <<database, clock, objects, pointer>>
        /\ (Carries(b) /\ Goto(b, "copying")) \/ Goto(b, "lost")
    BY <1>9 DEF LastLook
  <2> QED
    BY <1>0, <1>7, <2>1 DEF Carries, Published, TypeOK
<1>10. ASSUME NEW b \in Builds,
              UploadCopy(b) \/ Compare(b) \/ ReplaceMutable(b) \/ RereadPointer(b)
              \/ EndPrune(b)
       PROVE  PublishInv'
  <2>1. /\ UNCHANGED <<database, clock, objects, pointer>>
        /\ build[b].pc \in Published
        /\ \E label \in {"comparing", "replacing", "pruning", "listing",
                          "overtaken", "unpruned", "pruned"} : Goto(b, label)
    BY <1>10 DEF UploadCopy, Compare, ReplaceMutable, RereadPointer, EndPrune, Published
  <2>2. pointer.started >= build[b].started
    BY <2>1 DEF PublishInv, FinishedIsCovered
  <2>3. ASSUME NEW label \in {"comparing", "replacing", "pruning", "listing",
                              "overtaken", "unpruned", "pruned"},
               Goto(b, label)
        PROVE  PublishInv'
    BY <1>7, <2>1, <2>2, <2>3 DEF Published
  <2> QED
    BY <2>1, <2>3
<1>11. ASSUME NEW b \in Builds, WritePointer(b)
       PROVE  PublishInv'
  <2>1. /\ build'[b].pc \in {"copying", "locating", "checking"}
        /\ build'[b].pc = "copying" => pointer.gen = build[b].gen
        /\ build'[b].gen = build[b].gen
        /\ build'[b].version = build[b].version
        /\ build'[b].counted = build[b].counted
        /\ build'[b].content = build[b].content
        /\ build'[b].started = build[b].started
        /\ build'[b].doomed = build[b].doomed
        /\ \A c \in Builds : c # b => build'[c] = build[c]
    <3>1. CASE pointer.gen = build[b].gen /\ Goto(b, "copying")
      <4>1. PICK m : m = [build[b] EXCEPT !.pc = "copying"]
        OBVIOUS
      <4>2. Become(b, m)
        BY <3>1, <4>1, Zenon DEF Goto
      <4>3. build'[b] = m /\ \A c \in Builds : c # b => build'[c] = build[c]
        BY <1>0, <4>2, BecomeEffect
      <4>4. /\ m.pc = "copying" /\ m.gen = build[b].gen
            /\ m.version = build[b].version /\ m.counted = build[b].counted
            /\ m.content = build[b].content /\ m.started = build[b].started
            /\ m.doomed = build[b].doomed
        BY <1>0, <4>1 DEF LocalState
      <4> QED
        BY <3>1, <4>3, <4>4
    <3>2. CASE Retry(b)
      <4>1. PICK m : m = [build[b] EXCEPT
                            !.pc = IF build[b].attempt = 1 THEN "locating"
                                                           ELSE "checking",
                            !.attempt = 2]
        OBVIOUS
      <4>2. Become(b, m)
        BY <3>2, <4>1, Zenon DEF Retry
      <4>3. build'[b] = m /\ \A c \in Builds : c # b => build'[c] = build[c]
        BY <1>0, <4>2, BecomeEffect
      <4>4. /\ m.pc \in {"locating", "checking"} /\ m.gen = build[b].gen
            /\ m.version = build[b].version /\ m.counted = build[b].counted
            /\ m.content = build[b].content /\ m.started = build[b].started
            /\ m.doomed = build[b].doomed
        BY <1>0, <4>1 DEF LocalState
      <4> QED
        BY <4>3, <4>4
    <3> QED
      BY <1>11, <3>1, <3>2 DEF WritePointer
  <2>2. build[b].pc = "writing" /\ UNCHANGED <<database, clock, objects>>
    BY <1>11 DEF WritePointer
  <2>3. CASE pointer' = pointer /\ pointer.gen # build[b].gen
    BY <1>0, <2>1, <2>2, <2>3, QuietStep DEF Published
  <2>4. CASE pointer.gen = build[b].gen
    <3>1. /\ pointer'.gen = pointer.gen + 1
          /\ pointer'.started = build[b].started
          /\ pointer'.latest = build[b].version
      BY <1>11, <2>4 DEF WritePointer
    <3>2. pointer.started < build[b].started
      BY <2>2, <2>4 DEF PublishInv, WritesForward
    <3>3. /\ pointer.gen \in Nat /\ pointer.started \in Nat
          /\ \A c \in Builds : build[c].started \in Nat /\ build[c].gen \in Nat
      BY <1>0 DEF TypeOK, LocalState
    <3>4. Clocked' /\ Generations' /\ WritesForward'
      BY <2>1, <2>2, <3>1, <3>2, <3>3
         DEF PublishInv, Clocked, Generations, WritesForward
    <3>5. FinishedIsCovered'
      BY <2>1, <2>2, <3>1, <3>2, <3>3
         DEF PublishInv, FinishedIsCovered, Published
    <3>6. Held(build[b].version, build[b].started)
      BY <2>2, <3>2, <3>3 DEF PublishInv, SnapshotsHeld, Publishing
    <3>7. SnapshotsHeld'
      BY <2>1, <2>2, <3>1, <3>2, <3>3, <3>6
         DEF PublishInv, SnapshotsHeld, Held, Publishing
    <3>8. DoomedAreOlder' /\ ContentReflectsStart'
      BY <2>1, <2>2
         DEF PublishInv, DoomedAreOlder, ContentReflectsStart, Publishing
    <3>9. MapReflectsItsStart'
      BY <2>2, <3>1
         DEF PublishInv, MapReflectsItsStart, ContentReflectsStart, Publishing
    <3> QED
      BY <1>0, <3>4, <3>5, <3>7, <3>8, <3>9 DEF PublishInv
  <2> QED
    BY <1>11, <2>3, <2>4 DEF WritePointer
<1>12. ASSUME NEW b \in Builds, ListOld(b)
       PROVE  PublishInv'
  <2>1. /\ build'[b].pc = "deleting"
        /\ build'[b].doomed = {o \in objects : Prunable(b, o)}
        /\ build'[b].gen = build[b].gen
        /\ build'[b].started = build[b].started
        /\ \A c \in Builds : c # b => build'[c] = build[c]
    <3>1. PICK m : m = [build[b] EXCEPT !.pc = "deleting",
                                        !.doomed = {o \in objects : Prunable(b, o)}]
      OBVIOUS
    <3>2. Become(b, m)
      BY <1>12, <3>1, Zenon DEF ListOld
    <3>3. build'[b] = m /\ \A c \in Builds : c # b => build'[c] = build[c]
      BY <1>0, <3>2, BecomeEffect
    <3>4. /\ m.pc = "deleting" /\ m.doomed = {o \in objects : Prunable(b, o)}
          /\ m.gen = build[b].gen /\ m.started = build[b].started
      BY <1>0, <3>1 DEF LocalState
    <3> QED
      BY <3>3, <3>4
  <2>2. build[b].pc = "listing" /\ UNCHANGED <<database, clock, objects, pointer>>
    BY <1>12 DEF ListOld
  <2>3. DoomedAreOlder'
    BY <2>1, <2>2 DEF PublishInv, DoomedAreOlder, Prunable
  <2>4. /\ Clocked' /\ Generations' /\ WritesForward' /\ FinishedIsCovered'
        /\ SnapshotsHeld' /\ ContentReflectsStart' /\ MapReflectsItsStart'
    BY <2>1, <2>2
       DEF PublishInv, Clocked, Generations, WritesForward, FinishedIsCovered,
           SnapshotsHeld, Held, ContentReflectsStart, MapReflectsItsStart,
           Publishing, Published
  <2> QED
    BY <1>0, <2>3, <2>4 DEF PublishInv
<1>13. ASSUME NEW b \in Builds, DeleteOld(b)
       PROVE  PublishInv'
  <2>1. PICK o, m :
          /\ o \in build[b].doomed
          /\ Become(b, m)
          /\ \/ /\ objects' = objects \ {o}
                /\ m = [build[b] EXCEPT !.doomed = build[b].doomed \ {o}]
             \/ /\ objects' = objects
                /\ m = [build[b] EXCEPT !.doomed = build[b].doomed \ {o},
                                        !.missed = TRUE]
    BY <1>13, Zenon DEF DeleteOld, Without
  <2>2. /\ m.pc = build[b].pc /\ m.gen = build[b].gen
        /\ m.version = build[b].version /\ m.counted = build[b].counted
        /\ m.content = build[b].content /\ m.started = build[b].started
        /\ m.doomed \subseteq build[b].doomed
    BY <1>0, <2>1 DEF LocalState
  <2>3. build'[b] = m /\ \A c \in Builds : c # b => build'[c] = build[c]
    BY <1>0, <2>1, BecomeEffect
  <2>4. build[b].pc = "deleting" /\ UNCHANGED <<database, clock, pointer>>
    BY <1>13 DEF DeleteOld
  <2>5. objects' \subseteq objects /\ \A n \in objects \ objects' : n = o
    BY <2>1
  <2>6. o.created < build[b].started /\ build[b].started <= pointer.started
    BY <2>1, <2>4 DEF PublishInv, DoomedAreOlder, FinishedIsCovered, Published
  <2>7. o.created \in Nat /\ pointer.started \in Nat /\ pointer.gen \in Nat
        /\ \A c \in Builds : build[c].started \in Nat
    BY <1>0, <2>1 DEF TypeOK, LocalState, Snapshot
  <2>8. ASSUME NEW name, NEW n \in objects, n.name = name,
               n.created >= pointer.started
        PROVE  n \in objects'
    BY <1>0, <2>5, <2>6, <2>7, <2>8
  <2>9. ASSUME NEW c \in Builds, NEW n \in objects,
               n.created >= build[c].started
        PROVE  pointer.started > build[c].started \/ n \in objects'
    BY <2>5, <2>6, <2>7, <2>9
  <2>10. SnapshotsHeld'
    BY <2>2, <2>3, <2>4, <2>5, <2>8, <2>9
       DEF PublishInv, SnapshotsHeld, Held, Publishing
  <2>11. /\ Clocked' /\ Generations' /\ WritesForward' /\ FinishedIsCovered'
         /\ DoomedAreOlder' /\ ContentReflectsStart' /\ MapReflectsItsStart'
    BY <2>2, <2>3, <2>4, <2>5
       DEF PublishInv, Clocked, Generations, WritesForward, FinishedIsCovered,
           DoomedAreOlder, ContentReflectsStart, MapReflectsItsStart,
           Publishing, Published
  <2> QED
    BY <1>0, <2>10, <2>11 DEF PublishInv
<1> QED
  BY <1>1, <1>2, <1>3, <1>4, <1>5, <1>6, <1>8, <1>9, <1>10, <1>11, <1>12, <1>13
     DEF Next, BuildStep

LEMMA PublishInvariant == ASSUME ~UnreadableReads PROVE Spec => []PublishInv
BY PublishInit, PublishStep, PTL DEF Spec

-----------------------------------------------------------------------------

(* Whatever overlapping builds upload under a shared name and prune, the      *)
(* snapshot the pointer references is in the bucket, for any number of builds. *)
THEOREM PointedExists == ASSUME ~UnreadableReads PROVE Spec => []PointedSnapshotExists
<1>1. PublishInv => PointedSnapshotExists
  BY DEF PublishInv, SnapshotsHeld, Held, PointedSnapshotExists
<1> QED
  BY <1>1, PublishInvariant, PTL

(* The map shows the database as of the pointer's timestamp at least: no      *)
(* trace that has not changed since is missing or left over.                  *)
THEOREM MapReflects == ASSUME ~UnreadableReads PROVE Spec => []MapReflectsItsStart
<1>1. PublishInv => MapReflectsItsStart
  BY DEF PublishInv
<1> QED
  BY <1>1, PublishInvariant, PTL

(* A build that published or gave way leaves a pointer no older than itself.  *)
THEOREM FinishedCovered == ASSUME ~UnreadableReads PROVE Spec => []FinishedIsCovered
<1>1. PublishInv => FinishedIsCovered
  BY DEF PublishInv
<1> QED
  BY <1>1, PublishInvariant, PTL

(* The pointer changes in WritePointer alone, and what WritesForward says of  *)
(* the generation it compares makes the change an advance.                    *)
LEMMA PointerStep ==
    PublishInv /\ [Next]_vars => [pointer'.started > pointer.started]_pointer
<1> SUFFICES ASSUME PublishInv, [Next]_vars, pointer' # pointer
             PROVE  pointer'.started > pointer.started
  OBVIOUS
<1>1. PICK b \in Builds : WritePointer(b)
  BY DEF Next, BuildStep, vars, database, bucket, Contribute, Erase, Touch,
         NextHour, Start, Count, Draw, UploadSnapshot, Locate, ReadPointer, LastLook,
         UploadCopy, Compare, ReplaceMutable, RereadPointer, ListOld, DeleteOld,
         EndPrune, Abort
<1>2. /\ build[b].pc = "writing" /\ pointer.gen = build[b].gen
      /\ pointer'.started = build[b].started
  BY <1>1 DEF WritePointer
<1>3. pointer.started < build[b].started
  BY <1>2 DEF PublishInv, WritesForward
<1>4. pointer.started \in Nat /\ build[b].started \in Nat
  BY DEF PublishInv, TypeOK, LocalState
<1> QED
  BY <1>2, <1>3, <1>4

(* An older build never overwrites a newer pointer, nor does any build write  *)
(* its own twice, lost responses and retries included.                        *)
THEOREM PointerMonotone == ASSUME ~UnreadableReads PROVE Spec => PointerNeverGoesBack
BY PublishInvariant, PointerStep, PTL DEF Spec, PointerNeverGoesBack

-----------------------------------------------------------------------------
(* The job implements CommunityMap *)

(* A build's place in the order of its start and its two reads, and that it   *)
(* has drawn something once it uploads.                                       *)
CaptureInv ==
    \A b \in Builds :
        /\ build[b].pc = "idle" => build[b].started = 0
        /\ build[b].pc \in {"idle", "counting"} => build[b].reads = 0
        /\ build[b].pc = "drawing" => build[b].reads = 1
        /\ build[b].pc \in {"uploading"} \cup Publishing
             => build[b].reads = 2 /\ build[b].content # {}

SameReads(m, l) ==
    m.reads = l.reads /\ m.counted = l.counted /\ m.content = l.content

(* What a build's step does to the part of its record a visitor can tell.     *)
LEMMA VisibleStep ==
    ASSUME TypeOK, NEW b \in Builds, BuildStep(b) \/ Abort(b)
    PROVE  /\ \A c \in Builds : c # b => build'[c] = build[c]
           /\ build[b].pc = "idle" => Start(b)
           /\ build[b].pc # "idle" => build'[b].started = build[b].started
           /\ Count(b) \/ Draw(b) \/ SameReads(build'[b], build[b])
           /\ build'[b].pc \in {"idle", "counting"} => Start(b)
           /\ build'[b].pc = "drawing" => Count(b)
           /\ build'[b].pc = "uploading" => Draw(b)
           /\ build'[b].pc \in Publishing
                => build[b].pc \in {"uploading"} \cup Publishing
<1> USE DEF Publishing
<1>0. build[b] \in LocalState
  BY DEF TypeOK
<1>1. CASE Start(b)
  BY <1>1, StartEffect DEF SameReads
<1>2. CASE Count(b) \/ Draw(b)
  BY <1>2, CountEffect, DrawEffect
<1>3. CASE UploadSnapshot(b)
  <2>1. PICK v, m : m = [build[b] EXCEPT !.pc = "locating", !.version = v] /\ Become(b, m)
    BY <1>3, Zenon DEF UploadSnapshot
  <2>2. /\ m.pc = "locating" /\ m.started = build[b].started
        /\ SameReads(m, build[b])
    BY <1>0, <2>1 DEF LocalState, SameReads
  <2> QED
    BY <1>3, <2>1, <2>2, BecomeEffect DEF UploadSnapshot
<1>4. CASE Locate(b)
  <2>1. PICK m : m = [build[b] EXCEPT
                       !.pc = IF pointer.gen = 0 THEN "writing" ELSE "reading",
                       !.gen = pointer.gen]
    OBVIOUS
  <2>2. Become(b, m)
    BY <1>4, <2>1, Zenon DEF Locate
  <2>3. /\ m.pc \in {"writing", "reading"} /\ m.started = build[b].started
        /\ SameReads(m, build[b])
    BY <1>0, <2>1 DEF LocalState, SameReads
  <2> QED
    BY <1>4, <2>2, <2>3, BecomeEffect DEF Locate
<1>5. CASE Retry(b) /\ build[b].pc = "writing"
  <2>1. PICK m : m = [build[b] EXCEPT
                       !.pc = IF build[b].attempt = 1 THEN "locating" ELSE "checking",
                       !.attempt = 2]
    OBVIOUS
  <2>2. Become(b, m)
    BY <1>5, <2>1, Zenon DEF Retry
  <2>3. /\ m.pc \in {"locating", "checking"} /\ m.started = build[b].started
        /\ SameReads(m, build[b])
    BY <1>0, <2>1 DEF LocalState, SameReads
  <2> QED
    BY <1>5, <2>2, <2>3, BecomeEffect
<1>6. CASE ListOld(b)
  <2>1. PICK d, m : m = [build[b] EXCEPT !.pc = "deleting", !.doomed = d] /\ Become(b, m)
    BY <1>6, Zenon DEF ListOld
  <2>2. /\ m.pc = "deleting" /\ m.started = build[b].started
        /\ SameReads(m, build[b])
    BY <1>0, <2>1 DEF LocalState, SameReads
  <2> QED
    BY <1>6, <2>1, <2>2, BecomeEffect DEF ListOld
<1>7. CASE DeleteOld(b)
  <2>1. PICK d, m : /\ Become(b, m)
                    /\ \/ m = [build[b] EXCEPT !.doomed = d]
                       \/ m = [build[b] EXCEPT !.doomed = d, !.missed = TRUE]
    BY <1>7, Zenon DEF DeleteOld
  <2>2. /\ m.pc = build[b].pc /\ m.started = build[b].started
        /\ SameReads(m, build[b])
    BY <1>0, <2>1 DEF LocalState, SameReads
  <2> QED
    BY <1>7, <2>1, <2>2, BecomeEffect DEF DeleteOld
<1>8. ASSUME NEW label, Goto(b, label), build[b].pc # "idle",
             label \notin {"idle", "counting", "drawing", "uploading"},
             label \in Publishing => build[b].pc \in Publishing
      PROVE  /\ \A c \in Builds : c # b => build'[c] = build[c]
             /\ build'[b].started = build[b].started
             /\ SameReads(build'[b], build[b])
             /\ build'[b].pc = label
  <2>1. build'[b] = [build[b] EXCEPT !.pc = label]
    BY <1>8, GotoEffect
  <2> QED
    BY <1>0, <1>8, <2>1, GotoEffect DEF LocalState, SameReads
<1>9. CASE ReadPointer(b)
  <2>1. /\ build[b].pc = "reading"
        /\ Goto(b, "copying") \/ Goto(b, "older") \/ Goto(b, "writing")
    BY <1>9 DEF ReadPointer
  <2> QED
    BY <1>8, <2>1
<1>10. CASE WritePointer(b)
  <2>1. build[b].pc = "writing" /\ (Goto(b, "copying") \/ Retry(b))
    BY <1>10 DEF WritePointer
  <2> QED
    BY <1>5, <1>8, <2>1
<1>11. CASE LastLook(b) \/ UploadCopy(b) \/ Compare(b) \/ ReplaceMutable(b)
            \/ RereadPointer(b) \/ EndPrune(b)
  <2>1. /\ build[b].pc \notin {"idle", "counting", "drawing"} \cup Publishing
        /\ \E label \in {"copying", "lost", "comparing", "replacing", "pruning",
                         "listing", "overtaken", "unpruned", "pruned"} :
             Goto(b, label)
    BY <1>11 DEF LastLook, UploadCopy, Compare, ReplaceMutable, RereadPointer, EndPrune
  <2> QED
    BY <1>8, <2>1
<1>12. CASE Abort(b)
  BY <1>12, AbortEffect DEF Running, SameReads
<1> QED
  BY <1>1, <1>2, <1>3, <1>4, <1>6, <1>7, <1>9, <1>10, <1>11, <1>12 DEF BuildStep

LEMMA CaptureStep == TypeOK /\ CaptureInv /\ [Next]_vars => CaptureInv'
<1> SUFFICES ASSUME TypeOK, CaptureInv, [Next]_vars PROVE CaptureInv'
  OBVIOUS
<1>1. ASSUME NEW b \in Builds, BuildStep(b) \/ Abort(b)
      PROVE  CaptureInv'
  <2>1. CASE Start(b)
    BY <1>1, <2>1, StartEffect DEF CaptureInv, Publishing
  <2>2. CASE Count(b)
    BY <1>1, <2>2, CountEffect DEF CaptureInv, Publishing
  <2>3. CASE Draw(b)
    BY <1>1, <2>3, DrawEffect DEF CaptureInv, Publishing
  <2>4. CASE ~Start(b) /\ ~Count(b) /\ ~Draw(b)
    BY <1>1, <2>4, VisibleStep DEF CaptureInv, SameReads
  <2> QED
    BY <2>1, <2>2, <2>3, <2>4
<1>2. CASE \E t \in Traces : Contribute(t) \/ Erase(t)
  BY <1>2 DEF Contribute, Erase, Touch, CaptureInv
<1>3. CASE NextHour \/ UNCHANGED vars
  BY <1>3 DEF NextHour, vars, CaptureInv
<1> QED
  BY <1>1, <1>2, <1>3 DEF Next

(* Every step of the job is one of the promise's, or none.                    *)
LEMMA MapStep ==
    ASSUME ~UnreadableReads, PublishInv, CaptureInv, [Next]_vars
    PROVE  [Map!Next]_Map!vars
<1> DEFINE begun == [b \in Builds |-> build[b].started]
           reads == [b \in Builds |-> build[b].reads]
           counted == [b \in Builds |-> build[b].counted]
           drawn == [b \in Builds |-> build[b].content]
           shown == [begun |-> pointer.started, counted |-> pointer.latest.counted,
                     traces |-> pointer.latest.content]
<1> USE DEF vars, database, bucket
<1>0. TypeOK /\ \A b \in Builds : build[b] \in LocalState
  BY DEF PublishInv, TypeOK
<1>1. ASSUME NEW t \in Traces, Contribute(t) \/ Erase(t)
      PROVE  Map!Next
  <2>1. /\ db' = IF t \in db THEN db \ {t} ELSE db \cup {t}
        /\ UNCHANGED <<clock, build, pointer>>
    BY <1>0, <1>1 DEF Contribute, Erase, Touch, TypeOK
  <2>2. Map!Change(t)
    BY <2>1 DEF Map!Change
  <2> QED
    BY <2>2 DEF Map!Next
<1>2. CASE NextHour \/ UNCHANGED vars
  BY <1>2 DEF NextHour, Map!vars
<1>3. ASSUME NEW b \in Builds, Start(b)
      PROVE  Map!Next
  <2>1. /\ build[b].pc = "idle" /\ clock' = clock + 1 /\ UNCHANGED <<db, pointer>>
        /\ build'[b].started = clock + 1 /\ SameReads(build'[b], build[b])
        /\ \A c \in Builds : c # b => build'[c] = build[c]
    BY <1>0, <1>3, StartEffect DEF SameReads
  <2>2. begun[b] = 0
    BY <2>1 DEF CaptureInv
  <2>3. /\ begun' = [begun EXCEPT ![b] = clock + 1]
        /\ reads' = reads /\ counted' = counted /\ drawn' = drawn /\ shown' = shown
    BY <2>1 DEF SameReads
  <2>4. Map!Begin(b)
    BY <2>1, <2>2, <2>3 DEF Map!Begin
  <2> QED
    BY <2>4 DEF Map!Next
<1>4. ASSUME NEW b \in Builds, Count(b)
      PROVE  Map!Next
  <2>1. /\ build[b].pc = "counting" /\ UNCHANGED <<db, clock, pointer>>
        /\ build'[b].started = build[b].started /\ build'[b].reads = 1
        /\ build'[b].counted = db /\ build'[b].content = build[b].content
        /\ \A c \in Builds : c # b => build'[c] = build[c]
    BY <1>0, <1>4, CountEffect
  <2>2. begun[b] > 0 /\ reads[b] = 0
    BY <2>1 DEF PublishInv, Generations, CaptureInv
  <2>3. /\ begun' = begun /\ reads' = [reads EXCEPT ![b] = 1]
        /\ counted' = [counted EXCEPT ![b] = db]
        /\ drawn' = drawn /\ shown' = shown
    BY <2>1
  <2>4. Map!Count(b)
    BY <2>1, <2>2, <2>3 DEF Map!Count
  <2> QED
    BY <2>4 DEF Map!Next
<1>5. ASSUME NEW b \in Builds, Draw(b)
      PROVE  Map!Next
  <2>1. /\ build[b].pc = "drawing" /\ UNCHANGED <<db, clock, pointer>>
        /\ build'[b].started = build[b].started /\ build'[b].reads = 2
        /\ build'[b].counted = build[b].counted /\ build'[b].content = db
        /\ \A c \in Builds : c # b => build'[c] = build[c]
    BY <1>0, <1>5, DrawEffect
  <2>2. reads[b] = 1
    BY <2>1 DEF CaptureInv
  <2>3. /\ begun' = begun /\ reads' = [reads EXCEPT ![b] = 2]
        /\ counted' = counted
        /\ drawn' = [drawn EXCEPT ![b] = db] /\ shown' = shown
    BY <2>1
  <2>4. Map!Draw(b)
    BY <2>1, <2>2, <2>3 DEF Map!Draw
  <2> QED
    BY <2>4 DEF Map!Next
<1>6. ASSUME NEW b \in Builds, BuildStep(b) \/ Abort(b),
             ~Start(b), ~Count(b), ~Draw(b)
      PROVE  [Map!Next]_Map!vars
  <2>1. begun' = begun /\ reads' = reads /\ counted' = counted /\ drawn' = drawn
    BY <1>0, <1>6, VisibleStep DEF SameReads
  <2>2. UNCHANGED <<db, clock>>
    BY <1>6 DEF BuildStep, Abort, UploadSnapshot, Locate, ReadPointer, WritePointer,
                LastLook, UploadCopy, Compare, ReplaceMutable, RereadPointer,
                ListOld, DeleteOld, EndPrune
  <2>3. CASE pointer' = pointer
    BY <2>1, <2>2, <2>3 DEF Map!vars
  <2>4. CASE pointer' # pointer
    <3>1. WritePointer(b)
      BY <1>6, <2>4 DEF BuildStep, Abort, UploadSnapshot, Locate, ReadPointer,
                LastLook, UploadCopy, Compare, ReplaceMutable, RereadPointer,
                ListOld, DeleteOld, EndPrune
    <3>2. /\ build[b].pc = "writing" /\ pointer.gen = build[b].gen
          /\ pointer'.started = build[b].started
          /\ pointer'.latest = build[b].version
      BY <2>4, <3>1 DEF WritePointer
    <3>3. pointer.started < build[b].started
      BY <3>2 DEF PublishInv, WritesForward
    <3>4. /\ build[b].version.counted = build[b].counted
          /\ build[b].version.content = build[b].content
          /\ build[b].reads = 2 /\ build[b].content # {}
      BY <3>2 DEF PublishInv, ContentReflectsStart, CaptureInv, Publishing
    <3>5. shown' = [begun |-> begun[b], counted |-> counted[b], traces |-> drawn[b]]
      BY <3>2, <3>4
    <3>6. begun[b] > shown.begun /\ reads[b] = 2 /\ drawn[b] # {}
      BY <1>0, <3>3, <3>4 DEF TypeOK, LocalState
    <3>7. Map!Show(b)
      BY <2>1, <2>2, <3>5, <3>6 DEF Map!Show
    <3> QED
      BY <3>7 DEF Map!Next
  <2> QED
    BY <2>3, <2>4
<1> QED
  BY <1>1, <1>2, <1>3, <1>4, <1>5, <1>6 DEF Next

LEMMA MapInit == Init => CaptureInv /\ Map!Init
<1> SUFFICES ASSUME Init PROVE CaptureInv /\ Map!Init
  OBVIOUS
<1>1. \A b \in Builds :
        /\ build[b].pc = "idle" /\ build[b].started = 0 /\ build[b].reads = 0
        /\ build[b].counted = {} /\ build[b].content = {}
  BY DEF Init, Idle
<1>2. CaptureInv
  BY <1>1 DEF CaptureInv, Publishing
<1>3. /\ pointer.started = 0 /\ pointer.latest.content \in {{}, db}
      /\ pointer.latest.counted = pointer.latest.content
  <2>1. CASE pointer = NoPointer
    BY <2>1 DEF NoPointer, Legacy
  <2>2. CASE pointer = [gen |-> 1, started |-> 0, latest |-> Legacy(db)]
    BY <2>2 DEF Legacy
  <2> QED
    BY <2>1, <2>2 DEF Init
<1>4. Map!Init
  BY <1>1, <1>3 DEF Init, Map!Init
<1> QED
  BY <1>2, <1>4

(* Overlapping builds, lost responses, retries and deaths show a visitor      *)
(* nothing but the two whole reads that one build made after it began, the    *)
(* counts first, and the map never goes back to a build that began earlier.   *)
(* Nothing is said of the two reads being of one state.                       *)
THEOREM Implements == ASSUME ~UnreadableReads PROVE Spec => ShowsWholeReads
<1>1. PublishInv => TypeOK
  BY DEF PublishInv
<1>2. PublishInv /\ CaptureInv /\ [Next]_vars => [Map!Next]_Map!vars
  BY MapStep
<1>3. Spec => []PublishInv
  BY PublishInvariant
<1> QED
  BY <1>1, <1>2, <1>3, MapInit, CaptureStep, PTL DEF Spec, ShowsWholeReads, Map!Spec

-----------------------------------------------------------------------------
(* The mutable copy and the prune *)

HasName == {"checking"} \cup Publishing \cup Published

(* The name of a build's snapshot tells the corpus at its start, apart from   *)
(* what has changed since; the mutable copy is the work of a build that has   *)
(* published; and what a prune that missed nothing leaves of the older        *)
(* snapshots is its own or still to be deleted.                               *)
NamesReflectStart ==
    \A b \in Builds, t \in Traces :
        build[b].pc \in HasName /\ touched[t] < build[b].started
            => (t \in build[b].version.content <=> t \in db)

MutableByPublished ==
    mutable # Nobody => build[mutable].pc \in Published \cup {"failed"}

PruneCovers ==
    \A b \in Builds, o \in objects :
        /\ o.created < build[b].started
        /\ o.name # build[b].version
        => /\ build[b].pc # "pruned"
           /\ build[b].pc = "deleting" => build[b].missed \/ o \in build[b].doomed

PruneInv ==
    /\ NamesReflectStart /\ MutableByPublished /\ MutableWasPointed /\ PruneCovers

(* The rest of what a step does to the record of its build.                   *)
LEMMA RecordStep ==
    ASSUME TypeOK, NEW b \in Builds, BuildStep(b) \/ Abort(b)
    PROVE  /\ UploadSnapshot(b) \/ Abort(b) \/ build'[b].version = build[b].version
           /\ build'[b].pc = "pruned"
                => EndPrune(b) /\ ~build[b].missed /\ build[b].doomed = {}
           /\ build'[b].pc = "deleting" => ListOld(b) \/ DeleteOld(b)
           /\ build[b].pc \in Published => build'[b].pc \in Published \cup {"failed"}
           /\ build[b].pc # "failed"
           /\ build'[b].pc \in HasName => build[b].pc \in {"uploading"} \cup HasName
           /\ build'[b].pc \in HasName /\ build[b].pc = "uploading" => UploadSnapshot(b)
<1> USE DEF HasName, Publishing, Published
<1>0. build[b] \in LocalState
  BY DEF TypeOK
<1>1. CASE Start(b)
  BY <1>1, StartEffect
<1>2. CASE Count(b) \/ Draw(b)
  BY <1>2, CountEffect, DrawEffect
<1>3. CASE UploadSnapshot(b)
  <2>1. PICK v, m : m = [build[b] EXCEPT !.pc = "locating", !.version = v] /\ Become(b, m)
    BY <1>3, Zenon DEF UploadSnapshot
  <2>2. m.pc = "locating"
    BY <1>0, <2>1 DEF LocalState
  <2> QED
    BY <1>3, <2>1, <2>2, BecomeEffect DEF UploadSnapshot
<1>4. CASE Locate(b)
  <2>1. PICK m : m = [build[b] EXCEPT
                       !.pc = IF pointer.gen = 0 THEN "writing" ELSE "reading",
                       !.gen = pointer.gen]
    OBVIOUS
  <2>2. Become(b, m)
    BY <1>4, <2>1, Zenon DEF Locate
  <2>3. m.pc \in {"writing", "reading"} /\ m.version = build[b].version
    BY <1>0, <2>1 DEF LocalState
  <2> QED
    BY <1>4, <2>2, <2>3, BecomeEffect DEF Locate
<1>5. CASE Retry(b) /\ build[b].pc = "writing"
  <2>1. PICK m : m = [build[b] EXCEPT
                       !.pc = IF build[b].attempt = 1 THEN "locating" ELSE "checking",
                       !.attempt = 2]
    OBVIOUS
  <2>2. Become(b, m)
    BY <1>5, <2>1, Zenon DEF Retry
  <2>3. m.pc \in {"locating", "checking"} /\ m.version = build[b].version
    BY <1>0, <2>1 DEF LocalState
  <2> QED
    BY <1>5, <2>2, <2>3, BecomeEffect
<1>6. CASE ListOld(b)
  <2>1. PICK d, m : m = [build[b] EXCEPT !.pc = "deleting", !.doomed = d] /\ Become(b, m)
    BY <1>6, Zenon DEF ListOld
  <2>2. m.pc = "deleting" /\ m.version = build[b].version
    BY <1>0, <2>1 DEF LocalState
  <2> QED
    BY <1>6, <2>1, <2>2, BecomeEffect DEF ListOld
<1>7. CASE DeleteOld(b)
  <2>1. PICK d, m : /\ Become(b, m)
                    /\ \/ m = [build[b] EXCEPT !.doomed = d]
                       \/ m = [build[b] EXCEPT !.doomed = d, !.missed = TRUE]
    BY <1>7, Zenon DEF DeleteOld
  <2>2. m.pc = build[b].pc /\ m.version = build[b].version
    BY <1>0, <2>1 DEF LocalState
  <2> QED
    BY <1>7, <2>1, <2>2, BecomeEffect DEF DeleteOld
<1>8. ASSUME NEW label, Goto(b, label)
      PROVE  build'[b].version = build[b].version /\ build'[b].pc = label
  <2>1. build'[b] = [build[b] EXCEPT !.pc = label]
    BY <1>8, GotoEffect
  <2> QED
    BY <1>0, <2>1 DEF LocalState
<1>9. CASE ReadPointer(b)
  <2>1. /\ build[b].pc = "reading"
        /\ Goto(b, "copying") \/ Goto(b, "older") \/ Goto(b, "writing")
    BY <1>9 DEF ReadPointer
  <2> QED
    BY <1>8, <2>1
<1>10. CASE WritePointer(b)
  <2>1. build[b].pc = "writing" /\ (Goto(b, "copying") \/ Retry(b))
    BY <1>10 DEF WritePointer
  <2> QED
    BY <1>5, <1>8, <2>1
<1>11. CASE LastLook(b)
  <2>1. build[b].pc = "checking" /\ (Goto(b, "copying") \/ Goto(b, "lost"))
    BY <1>11 DEF LastLook
  <2> QED
    BY <1>8, <2>1
<1>12. CASE UploadCopy(b) \/ Compare(b) \/ ReplaceMutable(b) \/ RereadPointer(b)
  <2>1. /\ build[b].pc \in {"copying", "comparing", "replacing", "pruning"}
        /\ \E label \in {"comparing", "replacing", "pruning", "listing", "overtaken"} :
             Goto(b, label)
    BY <1>12 DEF UploadCopy, Compare, ReplaceMutable, RereadPointer
  <2> QED
    BY <1>8, <2>1
<1>13. CASE EndPrune(b)
  <2>1. /\ build[b].pc = "deleting" /\ build[b].doomed = {}
        /\ \/ ~build[b].missed /\ Goto(b, "pruned")
           \/ Goto(b, "unpruned")
    BY <1>0, <1>13 DEF EndPrune
  <2> QED
    BY <1>8, <1>13, <2>1
<1>14. CASE Abort(b)
  BY <1>14, AbortEffect DEF Running
<1> QED
  BY <1>1, <1>2, <1>3, <1>4, <1>6, <1>7, <1>9, <1>10, <1>11, <1>12, <1>13, <1>14
     DEF BuildStep

LEMMA PruneStep ==
    ASSUME ~UnreadableReads, PublishInv, PublishInv', PruneInv, [Next]_vars
    PROVE  PruneInv'
<1> USE DEF vars, database, bucket
<1>0. /\ TypeOK /\ TypeOK' /\ \A b \in Builds : build[b] \in LocalState
      /\ \A b \in Builds : build[b].started \in Nat
      /\ clock \in Nat /\ pointer.started \in Nat /\ pointer'.started \in Nat
      /\ \A t \in Traces : touched[t] \in Nat
      /\ \A o \in objects : o.created \in Nat
  BY DEF PublishInv, TypeOK, LocalState, Snapshot
<1>1. ASSUME NEW t \in Traces, Contribute(t) \/ Erase(t)
      PROVE  PruneInv'
  <2>1. UNCHANGED <<clock, objects, pointer, mutable, build>>
    BY <1>1 DEF Contribute, Erase, Touch
  <2>2. /\ touched'[t] = clock
        /\ \A u \in Traces : u # t => touched'[u] = touched[u] /\ (u \in db' <=> u \in db)
    BY <1>0, <1>1 DEF Contribute, Erase, Touch, TypeOK
  <2>3. \A b \in Builds : build[b].started <= clock
    BY DEF PublishInv, Clocked
  <2>4. NamesReflectStart'
    BY <1>0, <2>1, <2>2, <2>3 DEF PruneInv, NamesReflectStart
  <2> QED
    BY <2>1, <2>4 DEF PruneInv, MutableByPublished, MutableWasPointed, PruneCovers
<1>2. CASE NextHour \/ UNCHANGED vars
  BY <1>2 DEF NextHour, PruneInv, NamesReflectStart, MutableByPublished,
              MutableWasPointed, PruneCovers
<1>3. ASSUME NEW b \in Builds, BuildStep(b) \/ Abort(b)
      PROVE  PruneInv'
  <2>1. UNCHANGED <<db, touched>> /\ \A c \in Builds : c # b => build'[c] = build[c]
    BY <1>0, <1>3, VisibleStep
       DEF BuildStep, Abort, Start, Count, Draw, UploadSnapshot, Locate, ReadPointer,
           WritePointer, LastLook, UploadCopy, Compare, ReplaceMutable,
           RereadPointer, ListOld, DeleteOld, EndPrune
  <2>2. pointer.started <= pointer'.started
    BY <1>0, <1>3, PointerStep DEF Next
  <2>3. /\ UploadSnapshot(b) \/ Abort(b) \/ build'[b].version = build[b].version
        /\ Abort(b) => build'[b].pc = "failed"
        /\ build[b].pc # "idle" => build'[b].started = build[b].started
        /\ build[b].pc # "idle" \/ build'[b].pc \in {"idle", "counting"} \/ Start(b)
    BY <1>0, <1>3, VisibleStep, RecordStep, AbortEffect
  <2>4. NamesReflectStart'
    <3>1. SUFFICES ASSUME NEW t \in Traces, build'[b].pc \in HasName,
                          touched[t] < build'[b].started
                   PROVE  t \in build'[b].version.content <=> t \in db
      BY <2>1 DEF PruneInv, NamesReflectStart
    <3>2. build[b].pc \in {"uploading"} \cup HasName
      BY <1>0, <1>3, <3>1, RecordStep
    <3>3. build'[b].started = build[b].started
      BY <2>3, <3>2 DEF HasName, Publishing, Published
    <3>4. CASE UploadSnapshot(b)
      <4>1. /\ build[b].pc = "uploading"
            /\ build'[b].version.content = build[b].content
        <5>1. PICK m : m = [build[b] EXCEPT !.pc = "locating",
                              !.version = Named(b)]
          OBVIOUS
        <5>2. Become(b, m)
          BY <3>4, <5>1, Zenon DEF UploadSnapshot
        <5>3. m.version.content = build[b].content
          BY <1>0, <5>1 DEF LocalState, Named
        <5> QED
          BY <1>0, <3>4, <5>2, <5>3, BecomeEffect DEF UploadSnapshot
      <4> QED
        BY <3>1, <3>3, <4>1 DEF PublishInv, ContentReflectsStart
    <3>5. CASE ~UploadSnapshot(b)
      <4>1. build[b].pc \in HasName
        BY <1>0, <1>3, <3>1, <3>2, <3>5, RecordStep
      <4>2. build'[b].version = build[b].version
        BY <2>3, <3>1, <3>5 DEF HasName, Publishing, Published
      <4> QED
        BY <3>1, <3>3, <4>1, <4>2 DEF PruneInv, NamesReflectStart
    <3> QED
      BY <3>4, <3>5
  <2>5. MutableByPublished' /\ MutableWasPointed'
    <3>1. mutable' = mutable \/ (ReplaceMutable(b) /\ mutable' = b)
      BY <1>3 DEF BuildStep, Abort, Start, Count, Draw, UploadSnapshot, Locate,
           ReadPointer, WritePointer, LastLook, UploadCopy, Compare, ReplaceMutable,
           RereadPointer, ListOld, DeleteOld, EndPrune
    <3>2. CASE mutable' = b /\ build[b].pc \in Published
      <4>1. build'[b].pc \in Published \cup {"failed"}
        BY <1>0, <1>3, <3>2, RecordStep
      <4>2. build[b].started <= pointer.started /\ build'[b].started = build[b].started
        BY <2>3, <3>2 DEF PublishInv, FinishedIsCovered, Published
      <4> QED
        BY <1>0, <2>2, <3>2, <4>1, <4>2
           DEF MutableByPublished, MutableWasPointed, Published
    <3>3. CASE mutable' = mutable /\ mutable # b
      <4>1. mutable # Nobody => mutable \in Builds /\ build'[mutable] = build[mutable]
        BY <1>0, <2>1, <3>3 DEF TypeOK
      <4>2. mutable # Nobody => build[mutable].started \in Nat
        BY <1>0, <4>1
      <4> QED
        BY <1>0, <2>2, <3>3, <4>1, <4>2
           DEF PruneInv, MutableByPublished, MutableWasPointed
    <3>4. CASE mutable' = b /\ mutable = b
      <4>1. build[b].pc \in Published
        BY <1>0, <1>3, <3>4, RecordStep, NobodyAssumption
           DEF PruneInv, MutableByPublished
      <4> QED
        BY <3>2, <3>4, <4>1
    <3>5. ReplaceMutable(b) => build[b].pc \in Published
      BY DEF ReplaceMutable, Published
    <3> QED
      BY <3>1, <3>2, <3>3, <3>4, <3>5
  <2>6. PruneCovers'
    <3>1. SUFFICES ASSUME NEW c \in Builds, NEW o \in objects',
                          o.created < build'[c].started,
                          o.name # build'[c].version
                   PROVE  /\ build'[c].pc # "pruned"
                          /\ build'[c].pc = "deleting"
                               => build'[c].missed \/ o \in build'[c].doomed
      BY DEF PruneCovers
    <3>2. CASE o \notin objects
      <4>4. UploadSnapshot(b) => o.created = clock
        BY <3>1, <3>2 DEF UploadSnapshot
      <4>5. DeleteOld(b) => objects' \subseteq objects
        BY DEF DeleteOld, Without
      <4>1. UploadSnapshot(b) /\ o.created = clock
        BY <1>3, <3>1, <3>2, <4>4, <4>5
           DEF BuildStep, Abort, Start, Count, Draw, Locate, ReadPointer,
               WritePointer, LastLook, UploadCopy, Compare, ReplaceMutable,
               RereadPointer, ListOld, EndPrune
      <4>2. build'[c].started <= clock
        BY <4>1 DEF PublishInv, Clocked, UploadSnapshot
      <4>3. build'[c].started \in Nat
        BY <1>0 DEF TypeOK, LocalState
      <4> QED
        BY <1>0, <3>1, <4>1, <4>2, <4>3
    <3>3. CASE o \in objects /\ c # b
      BY <2>1, <3>1, <3>3 DEF PruneInv, PruneCovers
    <3>4. CASE o \in objects /\ c = b
      <4>1. ASSUME build'[b].pc = "pruned" PROVE FALSE
        <5>1. EndPrune(b) /\ ~build[b].missed /\ build[b].doomed = {}
          BY <1>0, <1>3, <4>1, RecordStep
        <5>2. build[b].pc = "deleting" /\ build'[b].started = build[b].started
              /\ build'[b].version = build[b].version
          BY <2>3, <4>1, <5>1 DEF EndPrune, UploadSnapshot
        <5> QED
          BY <3>1, <3>4, <5>1, <5>2 DEF PruneInv, PruneCovers
      <4>2. ASSUME ListOld(b), build'[b].pc = "deleting"
            PROVE  o \in build'[b].doomed
        <5>1. PICK m : m = [build[b] EXCEPT !.pc = "deleting",
                                    !.doomed = {n \in objects : Prunable(b, n)}]
          OBVIOUS
        <5>2. Become(b, m)
          BY <4>2, <5>1, Zenon DEF ListOld
        <5>3. m.doomed = {n \in objects : Prunable(b, n)}
          BY <1>0, <5>1 DEF LocalState
        <5>4. build'[b].doomed = {n \in objects : Prunable(b, n)}
          BY <1>0, <5>2, <5>3, BecomeEffect
        <5>5. build'[b].started = build[b].started /\ build'[b].version = build[b].version
          BY <2>3, <4>2 DEF ListOld, UploadSnapshot
        <5> QED
          BY <3>1, <3>4, <5>4, <5>5 DEF Prunable
      <4>3. ASSUME DeleteOld(b), build'[b].pc = "deleting"
            PROVE  build'[b].missed \/ o \in build'[b].doomed
        <5>1. PICK d, m :
                /\ Become(b, m) /\ d \in build[b].doomed
                /\ \/ /\ objects' = objects \ {d}
                      /\ m = [build[b] EXCEPT !.doomed = build[b].doomed \ {d}]
                   \/ m = [build[b] EXCEPT !.doomed = build[b].doomed \ {d},
                                           !.missed = TRUE]
          BY <4>3, Zenon DEF DeleteOld, Without
        <5>2. build'[b] = m
          BY <1>0, <5>1, BecomeEffect
        <5>3. \/ objects' = objects \ {d} /\ m.doomed = build[b].doomed \ {d}
                 /\ m.missed = build[b].missed
              \/ m.missed = TRUE
          BY <1>0, <5>1 DEF LocalState
        <5>4. /\ build[b].pc = "deleting" /\ build'[b].started = build[b].started
              /\ build'[b].version = build[b].version
          BY <2>3, <4>3 DEF DeleteOld, UploadSnapshot
        <5>5. build[b].missed \/ o \in build[b].doomed
          BY <3>1, <3>4, <5>4 DEF PruneInv, PruneCovers
        <5> QED
          BY <3>1, <5>2, <5>3, <5>5
      <4>4. build'[b].pc = "deleting" => ListOld(b) \/ DeleteOld(b)
        BY <1>0, <1>3, RecordStep
      <4> QED
        BY <3>4, <4>1, <4>2, <4>3, <4>4
    <3> QED
      BY <3>2, <3>3, <3>4
  <2> QED
    BY <2>4, <2>5, <2>6 DEF PruneInv
<1> QED
  BY <1>1, <1>2, <1>3 DEF Next

LEMMA PruneInvariant == ASSUME ~UnreadableReads PROVE Spec => []PruneInv
<1>1. Init => PruneInv
  BY DEF Init, Idle, PruneInv, NamesReflectStart, MutableByPublished,
         MutableWasPointed, PruneCovers, HasName, Publishing, Published
<1>2. PublishInv /\ PublishInv' /\ PruneInv /\ [Next]_vars => PruneInv'
  BY PruneStep
<1> QED
  BY <1>1, <1>2, PublishInvariant, PTL DEF Spec

(* The mutable copy is always the bytes of a build the pointer has referenced. *)
THEOREM MutableFollows == ASSUME ~UnreadableReads PROVE Spec => []MutableWasPointed
<1>1. PruneInv => MutableWasPointed
  BY DEF PruneInv
<1> QED
  BY <1>1, PruneInvariant, PTL

(* After a complete prune an erased trace survives only in the snapshots of   *)
(* builds that overlapped it.                                                 *)
THEOREM ErasedOnlyByOverlap ==
    ASSUME ~UnreadableReads PROVE Spec => []ErasedSurvivesOnlyByOverlap
<1>1. PublishInv /\ PruneInv => ErasedSurvivesOnlyByOverlap
  <2>1. SUFFICES ASSUME PublishInv, PruneInv,
                        NEW b \in Builds, NEW t \in Traces, NEW o \in objects,
                        build[b].pc = "pruned", Erased(t, b), t \in o.name.content
                 PROVE  o.created >= build[b].started
    BY DEF ErasedSurvivesOnlyByOverlap
  <2>2. t \notin build[b].version.content
    BY <2>1 DEF PruneInv, NamesReflectStart, Erased, HasName, Published
  <2>3. ~(o.created < build[b].started)
    BY <2>1, <2>2 DEF PruneInv, PruneCovers
  <2>4. o.created \in Nat /\ build[b].started \in Nat
    BY <2>1 DEF PublishInv, TypeOK, LocalState, Snapshot
  <2> QED
    BY <2>3, <2>4
<1> QED
  BY <1>1, PublishInvariant, PruneInvariant, PTL
=============================================================================
