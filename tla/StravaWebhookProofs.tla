------------------------ MODULE StravaWebhookProofs ------------------------
(* Theorems of StravaWebhook, for every value of its constants. *)
EXTENDS StravaWebhook, FiniteSetTheorems, WellFoundedInduction, TLAPS

-----------------------------------------------------------------------------
(* The list of the resync *)

UpTo(L, r) == {s \in L : s <= r}
Rank(L, r) == Cardinality(UpTo(L, r))
Below(L, k) == {s \in L : Rank(L, s) <= k}

LEMMA LeastNatural ==
    ASSUME NEW T \in SUBSET Nat, T # {}
    PROVE  \E m \in T : \A n \in T : m <= n
<1>1. PICK m \in T : \A n \in T : <<n, m>> \notin OpToRel(<, Nat)
  BY NatLessThanWellFounded, WFMin
<1>2. \A n \in T : ~(n < m)
  BY <1>1 DEF OpToRel
<1> QED
  BY <1>2

LEMMA RankMonotone ==
    ASSUME NEW L \in SUBSET Nat, IsFiniteSet(L), NEW r \in L, NEW s \in L, r <= s
    PROVE  /\ Rank(L, r) \in Nat /\ Rank(L, s) \in Nat /\ Rank(L, r) <= Rank(L, s)
           /\ IsFiniteSet(UpTo(L, r))
<1>1. UpTo(L, r) \in SUBSET UpTo(L, s) /\ UpTo(L, s) \in SUBSET L
  <2>1. \A x \in L : x <= r => x <= s
    OBVIOUS
  <2> QED
    BY <2>1 DEF UpTo
<1>2. IsFiniteSet(UpTo(L, s))
  BY <1>1, FS_Subset
<1>3. IsFiniteSet(UpTo(L, r)) /\ Cardinality(UpTo(L, r)) <= Cardinality(UpTo(L, s))
  BY <1>1, <1>2, FS_Subset
<1>4. Cardinality(UpTo(L, r)) \in Nat /\ Cardinality(UpTo(L, s)) \in Nat
  BY <1>2, <1>3, FS_CardinalityType
<1> QED
  BY <1>3, <1>4 DEF Rank

(* When some element has a rank above k, k elements have one up to k: the least *)
(* element above k comes right after them, and the greatest of them has the     *)
(* rank of their number.                                                        *)
LEMMA RanksHaveNoGap ==
    ASSUME NEW L \in SUBSET Nat, IsFiniteSet(L), NEW k \in Nat,
           NEW q \in L, Rank(L, q) > k
    PROVE  Cardinality(Below(L, k)) = k
<1> DEFINE B == Below(L, k)
           Above == {s \in L : Rank(L, s) > k}
<1>1. IsFiniteSet(B) /\ Cardinality(B) \in Nat
  <2>1. B \in SUBSET L
    BY DEF Below
  <2> QED
    BY <2>1, FS_Subset, FS_CardinalityType
<1>2. PICK m \in Above : \A n \in Above : m <= n
  <2>1. Above \in SUBSET Nat /\ Above # {}
    OBVIOUS
  <2> HIDE DEF Above
  <2> QED
    BY <2>1, LeastNatural
<1>3. m \in L /\ Rank(L, m) > k /\ m \in Nat
  BY <1>2
<1>4. UpTo(L, m) = B \cup {m}
  <2>1. ASSUME NEW s \in L, s <= m, s # m PROVE s \in B
    <3>1. s \notin Above
      BY <1>2, <1>3, <2>1
    <3>2. Rank(L, s) \in Nat
      BY RankMonotone
    <3> QED
      BY <3>1, <3>2 DEF Below
  <2>2. ASSUME NEW s \in B PROVE s \in L /\ s <= m
    <3>1. s \in L /\ Rank(L, s) <= k
      BY DEF Below
    <3>2. CASE m <= s
      <4>1. Rank(L, m) <= Rank(L, s) /\ Rank(L, m) \in Nat /\ Rank(L, s) \in Nat
        BY <1>3, <3>1, <3>2, RankMonotone
      <4> QED
        BY <1>3, <3>1, <4>1
    <3>3. CASE ~(m <= s)
      BY <1>3, <3>1, <3>3
    <3> QED
      BY <3>2, <3>3
  <2>3. \A s : s \in UpTo(L, m) <=> s \in L /\ s <= m
    BY DEF UpTo
  <2>4. m \in L /\ m <= m
    BY <1>3
  <2> HIDE DEF B
  <2>5. \A s : s \in UpTo(L, m) <=> s \in B \/ s = m
    BY <2>1, <2>2, <2>3, <2>4
  <2> QED
    BY <2>5
<1>5. m \notin B
  <2>1. Rank(L, m) \in Nat
    BY <1>3, RankMonotone
  <2> QED
    BY <1>3, <2>1 DEF Below
<1>6. Rank(L, m) = Cardinality(B) + 1
  <2> HIDE DEF B
  <2>1. Cardinality(B \cup {m}) = Cardinality(B) + 1
    BY <1>1, <1>5, FS_AddElement
  <2> QED
    BY <1>4, <2>1 DEF Rank
<1>7. k <= Cardinality(B)
  BY <1>1, <1>3, <1>6
<1>8. Cardinality(B) <= k
  <2>1. CASE B = {}
    BY <2>1, FS_EmptySet
  <2>2. CASE B # {}
    <3> DEFINE Bounds == {n \in Nat : \A s \in B : s <= n}
    <3>1. PICK t \in Bounds : \A n \in Bounds : t <= n
      <4>1. m \in Bounds
        <5>1. \A s \in B : s <= m
          BY <1>4 DEF UpTo
        <5> QED
          BY <1>3, <5>1
      <4>2. Bounds \in SUBSET Nat /\ Bounds # {}
        BY <4>1
      <4> HIDE DEF Bounds
      <4> QED
        BY <4>2, LeastNatural
    <3>2. t \in Nat /\ \A s \in B : s <= t
      BY <3>1
    <3>3. B \subseteq Nat
      BY DEF Below
    <3>4. t \in B
      <4> SUFFICES ASSUME t \notin B PROVE FALSE
        OBVIOUS
      <4>1. PICK s \in B : TRUE
        BY <2>2
      <4>2. t - 1 \in Nat
        <5> HIDE DEF B
        <5>1. s \in Nat /\ s <= t /\ s # t
          BY <3>2, <3>3, <4>1
        <5> QED
          BY <3>2, <5>1
      <4>3. \A x \in B : x <= t - 1
        <5> HIDE DEF B
        <5>1. \A x \in B : x \in Nat /\ x <= t /\ x # t
          BY <3>2, <3>3
        <5> QED
          BY <3>2, <5>1
      <4>4. t - 1 \in Bounds
        <5> HIDE DEF B
        <5> QED
          BY <4>2, <4>3
      <4>5. t <= t - 1
        BY <3>1, <4>4
      <4> QED
        BY <3>2, <4>5
    <3>5. t \in L /\ Rank(L, t) <= k
      BY <3>4 DEF Below
    <3>6. B \in SUBSET UpTo(L, t)
      BY <3>2 DEF UpTo, Below
    <3>7. IsFiniteSet(UpTo(L, t)) /\ Rank(L, t) \in Nat
      BY <3>5, RankMonotone
    <3>8. Cardinality(B) <= Rank(L, t)
      <4> HIDE DEF B
      <4> QED
        BY <3>6, <3>7, FS_Subset DEF Rank
    <3> QED
      BY <1>1, <3>5, <3>7, <3>8
  <2> QED
    BY <2>1, <2>2
<1> QED
  BY <1>1, <1>7, <1>8

(* A page that is not full is the last: no ride is ranked after it. *)
LEMMA ShortPageIsLast ==
    ASSUME NEW L \in SUBSET Nat, IsFiniteSet(L), NEW n \in Nat \ {0}, NEW q \in L,
           Rank(L, q) > n * PageSize
    PROVE  Cardinality({r \in L : (n - 1) * PageSize < Rank(L, r)
                                  /\ Rank(L, r) <= n * PageSize}) = PageSize
<1> DEFINE hi == n * PageSize
           lo == (n - 1) * PageSize
<1>1. PageSize \in Nat /\ hi \in Nat /\ lo \in Nat /\ hi = lo + PageSize
  <2>1. n - 1 \in Nat /\ PageSize \in Nat
    BY PagesAssumption
  <2>2. n * PageSize = (n - 1) * PageSize + PageSize
    BY <2>1
  <2> QED
    BY <2>1, <2>2
<1>2. Rank(L, q) \in Nat /\ Rank(L, q) > hi
  BY RankMonotone
<1>3. Cardinality(Below(L, hi)) = hi
  <2> HIDE DEF hi
  <2> QED
    BY <1>1, <1>2, RanksHaveNoGap
<1>4. Cardinality(Below(L, lo)) = lo
  <2> HIDE DEF hi, lo
  <2>1. Rank(L, q) > lo
    BY <1>1, <1>2
  <2> QED
    BY <1>1, <2>1, RanksHaveNoGap
<1>5. \A r \in L : Rank(L, r) \in Nat
  BY RankMonotone
<1>6. {r \in L : lo < Rank(L, r) /\ Rank(L, r) <= hi} = Below(L, hi) \ Below(L, lo)
  <2> HIDE DEF hi, lo
  <2>1. \A r \in L : ~(Rank(L, r) <= lo) <=> lo < Rank(L, r)
    BY <1>1, <1>5
  <2>2. \A k, r : r \in Below(L, k) <=> r \in L /\ Rank(L, r) <= k
    BY DEF Below
  <2> QED
    BY <2>1, <2>2
<1>7. Below(L, hi) \cap Below(L, lo) = Below(L, lo)
  <2> HIDE DEF hi, lo
  <2>1. \A r \in L : Rank(L, r) <= lo => Rank(L, r) <= hi
    BY <1>1, <1>5
  <2>2. \A k, r : r \in Below(L, k) <=> r \in L /\ Rank(L, r) <= k
    BY DEF Below
  <2> QED
    BY <2>1, <2>2
<1>8. IsFiniteSet(Below(L, hi))
  <2>1. Below(L, hi) \in SUBSET L
    BY DEF Below
  <2> QED
    BY <2>1, FS_Subset
<1>9. Cardinality(Below(L, hi) \ Below(L, lo)) = hi - lo
  <2> HIDE DEF hi, lo
  <2>1. Cardinality(Below(L, hi) \ Below(L, lo))
        = Cardinality(Below(L, hi)) - Cardinality(Below(L, hi) \cap Below(L, lo))
    BY <1>8, FS_Difference
  <2> QED
    BY <1>3, <1>4, <1>7, <2>1
<1>10. hi - lo = PageSize
  <2> HIDE DEF hi, lo
  <2> QED
    BY <1>1
<1> QED
  BY <1>6, <1>9, <1>10

-----------------------------------------------------------------------------
(* The invariant *)

WorkType   == [pc : {"idle", "received", "fetched"}, task : Events \cup {NoEvent}]
ResyncType == [pc : {"idle", "paging", "ingesting"}, page : 0..MaxPages,
               got : SUBSET Rides, owed : SUBSET Rides]

(* Rides are created in order, and only what was created ages. *)
CreatedInOrder ==
    /\ \A r, s \in Rides : ride[r] = "none" /\ r < s => ride[s] = "none"
    /\ \A r \in old : ride[r] # "none"

(* No event is from the future, so that the next one has a name of its own. *)
EventsArePast == \A e \in sent \cup named \cup tasks : e.time <= time

(* A delete event, wherever it is, is of a ride that is gone. *)
DeletesAreTrue ==
    /\ \A e \in sent \cup tasks : e.aspect = "delete" => ride[e.ride] = "deleted"
    /\ \A w \in Workers : work[w].task.aspect = "delete"
                             => ride[work[w].task.ride] = "deleted"

(* What is held to be stored came from a create or an update, and has been public. *)
HeldWasPublic ==
    /\ \A r \in Rides : ride[r] = "public" => r \in BeenPublic
    /\ \A w \in Workers : work[w].pc = "fetched"
          => work[w].task.aspect # "delete" /\ work[w].task.ride \in BeenPublic
    /\ resync.got \subseteq BeenPublic

(* A deleted ride that is here, or about to be, still has its delete event ahead: *)
(* queued, or with Strava under a name Cloud Tasks has not had.                   *)
Ahead(r, ss, nn, tt) ==
    \E e \in ss \cup tt : /\ e.ride = r /\ e.aspect = "delete"
                          /\ e \in tt \/ e \notin nn
DeleteFollows ==
    \A r \in Rides : ride[r] = "deleted" /\ r \in stored \cup Held =>
        \/ r \in raced \/ Lost(r, "delete")
        \/ Ahead(r, sent, named, tasks)

(* What the resync owes it has, or has on a page still to be read. *)
OwedIsAhead ==
    /\ \A r \in resync.owed : ride[r] = "public" /\ r \notin old
    /\ resync.pc = "paging" =>
          /\ resync.page # 0
          /\ \A r \in resync.owed :
                r \in resync.got \/ Rank(Listed, r) > (resync.page - 1) * PageSize

Inv == /\ TypeOK /\ CreatedInOrder /\ EventsArePast /\ DeletesAreTrue /\ HeldWasPublic
       /\ DeleteFollows /\ OwedIsAhead /\ NothingSlipsThrough /\ PrivateStaysOut

LEMMA Facts ==
    ASSUME TypeOK
    PROVE  /\ PageSize \in Nat \ {0} /\ MaxPages \in Nat \ {0} /\ MaxEvents \in Nat
           /\ Rides \in SUBSET Nat /\ Listed \in SUBSET Rides
           /\ Listed \in SUBSET Nat /\ IsFiniteSet(Listed)
           /\ work \in [Workers -> WorkType] /\ resync \in ResyncType
           /\ \A w \in Workers : /\ work[w] \in WorkType
                                 /\ work[w].pc # "idle" => work[w].task \in Events
           /\ \A e \in Events : e.ride \in Rides /\ e.time \in 1..MaxEvents
           /\ \A e \in sent \cup tasks \cup named : e \in Events
<1>1. Listed \in SUBSET Rides
  BY DEF Listed, OnStrava
<1>2. IsFiniteSet(Listed)
  BY <1>1, RidesAssumption, FS_Subset
<1>3. work \in [Workers -> WorkType] /\ resync \in ResyncType
  BY DEF TypeOK, WorkType, ResyncType
<1>4. \A w \in Workers : work[w] \in WorkType
                         /\ (work[w].pc # "idle" => work[w].task \in Events)
  <2> TAKE w \in Workers
  <2>1. work[w] \in WorkType
    BY <1>3
  <2>2. work[w].task \in Events \cup {NoEvent}
    BY <2>1 DEF WorkType
  <2> QED
    BY <2>1, <2>2 DEF TypeOK
<1>5. \A e \in Events : e.ride \in Rides /\ e.time \in 1..MaxEvents
  BY DEF Events
<1>6. \A e \in sent \cup tasks \cup named : e \in Events
  BY DEF TypeOK, Name
<1>7. Rides \in SUBSET Nat
  BY RidesAssumption
<1>8. Listed \in SUBSET Nat
  BY <1>1, <1>7
<1> QED
  BY <1>1, <1>2, <1>3, <1>4, <1>5, <1>6, <1>7, <1>8, PagesAssumption, EventsAssumption

LEMMA HeldIs ==
    /\ \A r : r \in Held <=>
          \/ \E w \in Workers : work[w].pc = "fetched" /\ work[w].task.ride = r
          \/ r \in resync.got
    /\ \A r : r \in Held' <=>
          \/ \E w \in Workers : work'[w].pc = "fetched" /\ work'[w].task.ride = r
          \/ r \in resync'.got
BY DEF Held

LEMMA InitInv == Init => Inv
<1> SUFFICES ASSUME Init PROVE Inv
  OBVIOUS
<1>1. NoRun \in ResyncType /\ NoRun.pc = "idle" /\ NoRun.got = {} /\ NoRun.owed = {}
  BY PagesAssumption DEF NoRun, ResyncType
<1>2. NoWork \in WorkType /\ NoWork.pc = "idle" /\ NoWork.task = NoEvent
      /\ NoEvent.aspect = "none"
  BY DEF NoWork, WorkType, NoEvent
<1>3. TypeOK
  <2>1. work \in [Workers -> WorkType]
        /\ \A w \in Workers : work[w].pc = "idle" <=> work[w].task = NoEvent
    BY <1>2 DEF Init
  <2>2. ride \in [Rides -> {"none", "public", "private", "deleted"}] /\ resync \in ResyncType
    BY <1>1 DEF Init
  <2>3. time \in 0..MaxEvents
    BY EventsAssumption DEF Init
  <2>5. connected \in BOOLEAN
    BY DEF Init
  <2>4. /\ old = {} /\ stored = {} /\ raced = {} /\ sent = {} /\ since \in [Rides -> 0..MaxEvents]
        /\ tasks = {} /\ forgotten = {} /\ named = {}
    BY EventsAssumption DEF Init
  <2> QED
    BY <2>1, <2>2, <2>3, <2>4, <2>5 DEF TypeOK, ResyncType, WorkType
<1>4. CreatedInOrder /\ EventsArePast /\ PrivateStaysOut
  BY DEF BeenPublic, Init, CreatedInOrder, EventsArePast, PrivateStaysOut
<1>5. DeletesAreTrue /\ HeldWasPublic
  BY <1>1, <1>2 DEF BeenPublic, Init, DeletesAreTrue, HeldWasPublic
<1>6. DeleteFollows
  BY DEF Lost, Init, DeleteFollows
<1>7. OwedIsAhead /\ NothingSlipsThrough
  BY <1>1 DEF Init, OwedIsAhead, NothingSlipsThrough
<1> QED
  BY <1>3, <1>4, <1>5, <1>6, <1>7 DEF Inv

-----------------------------------------------------------------------------
(* The worker *)

LEMMA FollowsByWorker ==
    ASSUME Inv, UNCHANGED <<ride, sent, named>>, tasks' \subseteq tasks,
           forgotten \subseteq forgotten', raced \subseteq raced',
           \A r \in Rides : r \in stored' \cup Held' =>
                               r \in stored \cup Held \/ ride[r] # "deleted",
           \A e \in tasks \ tasks' : e.aspect = "delete" =>
               \/ e.ride \notin stored' \cup Held' \/ e.ride \in raced'
               \/ e \in forgotten'
    PROVE  DeleteFollows'
<1> SUFFICES ASSUME NEW r \in Rides, ride[r] = "deleted", r \in stored' \cup Held',
                    r \notin raced', ~Lost(r, "delete")'
             PROVE  Ahead(r, sent, named, tasks')
  BY DEF Lost, DeleteFollows
<1>1. PICK e \in sent \cup tasks : /\ e.ride = r /\ e.aspect = "delete"
                                   /\ e \in tasks \/ e \notin named
  BY DEF Lost, Inv, DeleteFollows, Ahead
<1>2. CASE e \in tasks
  <2>1. e \in tasks'
    BY <1>1, <1>2 DEF Lost
  <2> QED
    BY <1>1, <2>1 DEF Ahead
<1>3. CASE e \notin tasks
  BY <1>1, <1>3 DEF Ahead
<1> QED
  BY <1>2, <1>3

LEMMA OfWorker ==
    ASSUME Inv, NEW w \in Workers, NEW rec \in WorkType,
           rec.pc = "idle" <=> rec.task = NoEvent,
           rec.task \in {NoEvent, work[w].task} \cup tasks,
           rec.pc = "fetched" => /\ rec.task.aspect # "delete"
                                 /\ ride[rec.task.ride] = "public",
           work' = [work EXCEPT ![w] = rec],
           UNCHANGED <<ride, old, time, connected, sent, named, resync, since>>,
           tasks' \subseteq tasks,
           forgotten \subseteq forgotten', forgotten' \subseteq Events,
           raced \subseteq raced', raced' \subseteq Rides,
           stored' \subseteq stored \cup Held, stored' \subseteq Rides,
           \A r \in stored : r \notin stored' => ride[r] = "deleted",
           \A e \in tasks \ tasks' : e.aspect = "delete" =>
               \/ e.ride \notin stored' \cup Held' \/ e.ride \in raced'
               \/ e \in forgotten'
    PROVE  Inv'
<1>1. /\ work' \in [Workers -> WorkType] /\ work'[w] = rec
      /\ \A v \in Workers : v # w => work'[v] = work[v]
  BY Facts DEF Inv
<1>2. TypeOK'
  <2>1. \A v \in Workers : work'[v].pc = "idle" <=> work'[v].task = NoEvent
    BY <1>1 DEF Inv, TypeOK
  <2>2. sent' \subseteq Events /\ tasks' \subseteq Events
        /\ named' \subseteq {Name(e) : e \in Events}
    BY DEF Inv, TypeOK
  <2>3. /\ ride' \in [Rides -> {"none", "public", "private", "deleted"}]
        /\ old' \subseteq Rides /\ since' \in [Rides -> 0..MaxEvents]
        /\ time' \in 0..MaxEvents /\ connected' \in BOOLEAN
        /\ resync' \in [pc : {"idle", "paging", "ingesting"}, page : 0..MaxPages,
                        got : SUBSET Rides, owed : SUBSET Rides]
    BY DEF Inv, TypeOK
  <2> QED
    BY <1>1, <2>1, <2>2, <2>3 DEF TypeOK, WorkType
<1>3. CreatedInOrder' /\ EventsArePast'
  BY DEF Inv, CreatedInOrder, EventsArePast
<1>4. DeletesAreTrue'
  <2>1. rec.task.aspect = "delete" => ride[rec.task.ride] = "deleted"
    BY DEF Inv, DeletesAreTrue, NoEvent
  <2> QED
    BY <1>1, <2>1 DEF Inv, DeletesAreTrue
<1>5. rec.pc = "fetched" => rec.task.ride \in Rides /\ rec.task.ride \in BeenPublic
  <2>1. rec.task \in Events \/ rec.task = NoEvent
    BY DEF WorkType
  <2> QED
    BY <2>1, Facts DEF BeenPublic, Inv, HeldWasPublic
<1>6. HeldWasPublic'
  BY <1>1, <1>5 DEF BeenPublic, Inv, HeldWasPublic
<1>7. \A r : r \in Held' => r \in Held \/ (rec.pc = "fetched" /\ r = rec.task.ride)
  BY <1>1, HeldIs
<1>8. DeleteFollows'
  <2>1. \A r \in Rides : r \in stored' \cup Held' =>
                            r \in stored \cup Held \/ ride[r] # "deleted"
    BY <1>7
  <2> QED
    BY <2>1, FollowsByWorker
<1>9. OwedIsAhead'
  BY DEF Inv, OwedIsAhead, Listed, OnStrava
<1>10. NothingSlipsThrough'
  BY DEF Inv, OwedIsAhead, NothingSlipsThrough
<1>11. PrivateStaysOut'
  <2>1. Held \subseteq BeenPublic
    BY HeldIs DEF BeenPublic, Inv, HeldWasPublic
  <2> QED
    BY <2>1 DEF BeenPublic, Inv, PrivateStaysOut
<1> QED
  BY <1>2, <1>3, <1>4, <1>6, <1>8, <1>9, <1>10, <1>11 DEF Inv

(* The task is answered: the worker is free, and what it held it may have stored. *)
LEMMA AnsweredKeeps ==
    ASSUME Inv, NEW w \in Workers, Answer200(w), work[w].pc # "idle",
           UNCHANGED <<ride, old, time, connected, sent, named, resync, since>>,
           forgotten \subseteq forgotten', forgotten' \subseteq Events,
           raced \subseteq raced', raced' \subseteq Rides,
           stored' \subseteq stored \cup Held, stored' \subseteq Rides,
           \A r \in stored : r \notin stored' => ride[r] = "deleted",
           work[w].task.aspect = "delete" =>
               \/ work[w].task.ride \notin stored' \cup Held' \/ work[w].task.ride \in raced'
               \/ work[w].task \in forgotten'
    PROVE  Inv'
<1>1. NoWork \in WorkType /\ NoWork.pc = "idle" /\ NoWork.task = NoEvent
  BY DEF NoWork, WorkType
<1>2. work' = [work EXCEPT ![w] = NoWork] /\ tasks' = tasks \ {work[w].task}
  BY DEF Answer200
<1>3. \A e \in tasks \ tasks' : e = work[w].task
  BY <1>2
<1> QED
  BY <1>1, <1>2, <1>3, OfWorker

LEMMA ReceiveKeeps == ASSUME Inv, NEW w \in Workers, NEW e \in tasks, Receive(w, e) PROVE Inv'
<1> DEFINE rec == [pc |-> "received", task |-> e]
<1>1. e \in Events /\ e # NoEvent
  BY Facts DEF Inv, Events, NoEvent
<1>2. rec \in WorkType /\ rec.pc = "received" /\ rec.task = e
  BY <1>1 DEF WorkType
<1>3. /\ work' = [work EXCEPT ![w] = rec]
      /\ UNCHANGED <<ride, old, time, connected, sent, named, tasks, resync, since,
                     stored, forgotten, raced>>
  BY DEF Receive, cloud
<1> HIDE DEF rec
<1>4. forgotten \subseteq Events /\ raced \subseteq Rides
      /\ stored \subseteq Rides
  BY DEF Inv, TypeOK
<1> QED
  BY <1>1, <1>2, <1>3, <1>4, OfWorker

LEMMA DeleteActivityKeeps == ASSUME Inv, NEW w \in Workers, DeleteActivity(w) PROVE Inv'
<1> DEFINE e == work[w].task
<1>1. /\ work[w].pc = "received" /\ e.aspect = "delete" /\ Answer200(w)
      /\ stored' = IF connected THEN stored \ {e.ride} ELSE stored
      /\ forgotten' = IF connected THEN forgotten ELSE forgotten \cup {e}
      /\ raced' = IF e.ride \in Held THEN raced \cup {e.ride} ELSE raced
      /\ UNCHANGED <<ride, old, time, connected, sent, named, resync, since>>
  BY DEF DeleteActivity
<1>2. e.ride \in Rides /\ ride[e.ride] = "deleted"
  BY <1>1, Facts DEF Inv, DeletesAreTrue
<1>3. e \in Events
  BY <1>1, Facts DEF Inv
<1>4. forgotten \subseteq Events /\ raced \subseteq Rides
      /\ stored \subseteq Rides
  BY DEF Inv, TypeOK
<1>5. forgotten \subseteq forgotten' /\ forgotten' \subseteq Events
      /\ raced \subseteq raced' /\ raced' \subseteq Rides
      /\ stored' \subseteq stored /\ stored' \subseteq Rides
  BY <1>1, <1>2, <1>3, <1>4
<1>6. \A r : r \in Held' => r \in Held
  <2>1. work' = [work EXCEPT ![w] = NoWork] /\ NoWork.pc = "idle" /\ resync' = resync
    BY <1>1 DEF Answer200, NoWork
  <2>2. \A v \in Workers : work'[v] = work[v] \/ work'[v].pc = "idle"
    BY <2>1, Facts DEF Inv
  <2> QED
    BY <2>1, <2>2, HeldIs
<1>7. \/ e.ride \notin stored' \cup Held' \/ e.ride \in raced'
      \/ e \in forgotten'
  BY <1>1, <1>6
<1>8. \A r \in stored : r \notin stored' => ride[r] = "deleted"
  BY <1>1, <1>2
<1> QED
  BY <1>1, <1>5, <1>7, <1>8, AnsweredKeeps

LEMMA FetchKeeps == ASSUME Inv, NEW w \in Workers, Fetch(w) PROVE Inv'
<1> DEFINE e == work[w].task
<1>1. /\ work[w].pc = "received" /\ e.aspect # "delete" /\ e \in Events
      /\ UNCHANGED <<ride, old, time, connected, sent, named, resync, stored, raced, since>>
  BY Facts DEF Fetch, Inv
<1>2. forgotten \subseteq Events /\ raced \subseteq Rides
      /\ stored \subseteq Rides
  BY DEF Inv, TypeOK
<1>3. CASE ride[e.ride] = "public" /\ work' = [work EXCEPT ![w].pc = "fetched"]
           /\ UNCHANGED <<tasks, forgotten>>
  <2> DEFINE rec == [work[w] EXCEPT !.pc = "fetched"]
  <2>1. rec \in WorkType /\ rec.pc = "fetched" /\ rec.task = e
    BY Facts DEF Inv, WorkType
  <2>2. work' = [work EXCEPT ![w] = rec]
    BY <1>3
  <2>3. rec.task # NoEvent
    BY <1>1, <2>1 DEF Events, NoEvent
  <2> HIDE DEF rec
  <2> QED
    BY <1>1, <1>2, <1>3, <2>1, <2>2, <2>3, OfWorker
<1>4. CASE Answer200(w) /\ (UNCHANGED forgotten \/ forgotten' = forgotten \cup {e})
  <2>1. forgotten \subseteq forgotten' /\ forgotten' \subseteq Events
    BY <1>1, <1>2, <1>4
  <2> QED
    BY <1>1, <1>2, <1>4, <2>1, AnsweredKeeps
<1> QED
  BY <1>3, <1>4 DEF Fetch

LEMMA IngestKeeps == ASSUME Inv, NEW w \in Workers, Ingest(w) PROVE Inv'
<1>1. /\ work[w].pc = "fetched" /\ Answer200(w)
      /\ stored' = stored \cup {work[w].task.ride}
      /\ UNCHANGED <<ride, old, time, connected, sent, named, resync, forgotten, raced, since>>
  BY DEF Ingest
<1>2. work[w].task.ride \in Held
  BY <1>1, HeldIs
<1>3. work[w].task.ride \in Rides /\ work[w].task.aspect # "delete"
  BY <1>1, Facts DEF BeenPublic, Inv, HeldWasPublic
<1>4. forgotten \subseteq Events /\ raced \subseteq Rides
      /\ stored \subseteq Rides
  BY DEF Inv, TypeOK
<1> QED
  BY <1>1, <1>2, <1>3, <1>4, AnsweredKeeps

LEMMA RetryKeeps == ASSUME Inv, NEW w \in Workers, Retry(w) PROVE Inv'
<1>1. NoWork \in WorkType /\ NoWork.pc = "idle" /\ NoWork.task = NoEvent
  BY DEF NoWork, WorkType
<1>2. /\ work' = [work EXCEPT ![w] = NoWork]
      /\ UNCHANGED <<ride, old, time, connected, sent, named, tasks, resync, since,
                     stored, forgotten, raced>>
  BY DEF Retry, cloud
<1>3. forgotten \subseteq Events /\ raced \subseteq Rides
      /\ stored \subseteq Rides
  BY DEF Inv, TypeOK
<1> QED
  BY <1>1, <1>2, <1>3, OfWorker

-----------------------------------------------------------------------------
(* The resync *)

LEMMA OfResync ==
    ASSUME Inv, resync' \in ResyncType,
           UNCHANGED <<ride, old, time, connected, cloud, work, forgotten, raced, since>>,
           resync'.got \subseteq resync.got \cup {r \in Rides : ride[r] = "public"},
           stored' \subseteq stored \cup resync.got,
           OwedIsAhead', NothingSlipsThrough'
    PROVE  Inv'
<1>1. resync.got \subseteq Rides
  BY Facts DEF Inv, ResyncType
<1>2. TypeOK'
  <2>1. stored' \subseteq Rides
    BY <1>1 DEF Inv, TypeOK
  <2> QED
    BY <2>1 DEF Inv, TypeOK, cloud, ResyncType
<1>3. CreatedInOrder' /\ EventsArePast' /\ DeletesAreTrue'
  BY DEF Inv, CreatedInOrder, EventsArePast, DeletesAreTrue, cloud
<1>4. HeldWasPublic' /\ PrivateStaysOut'
  BY DEF BeenPublic, Inv, HeldWasPublic, PrivateStaysOut
<1>5. \A r \in Rides : ride[r] = "deleted" /\ r \in stored' \cup Held' => r \in stored \cup Held
  BY HeldIs
<1>6. DeleteFollows'
  BY <1>5 DEF Lost, Inv, DeleteFollows, Ahead, cloud
<1> QED
  BY <1>2, <1>3, <1>4, <1>6 DEF Inv

LEMMA ResyncBeginKeeps == ASSUME Inv, ResyncBegin PROVE Inv'
<1> DEFINE owes == {r \in Rides \ old : ride[r] = "public"}
<1>1. /\ resync' = [pc |-> "paging", page |-> 1, got |-> {}, owed |-> owes]
      /\ UNCHANGED <<ride, old, time, connected, cloud, work, stored, forgotten, raced, since>>
  BY DEF ResyncBegin
<1>2. resync' \in ResyncType /\ resync'.pc = "paging" /\ resync'.page = 1
      /\ resync'.got = {} /\ resync'.owed = owes
  BY <1>1, Facts DEF Inv, ResyncType
<1>3. \A r \in owes : Rank(Listed, r) > 0
  <2> TAKE r \in owes
  <2>1. r \in Listed
    BY DEF Listed, OnStrava
  <2>2. IsFiniteSet(UpTo(Listed, r)) /\ Rank(Listed, r) \in Nat
    BY <2>1, Facts, RankMonotone DEF Inv
  <2>3. r \in UpTo(Listed, r)
    BY <2>1, Facts DEF Inv, UpTo
  <2>4. Rank(Listed, r) # 0
    BY <2>2, <2>3, FS_EmptySet DEF Rank
  <2> QED
    BY <2>2, <2>4
<1>4. (1 - 1) * PageSize = 0
  BY Facts DEF Inv
<1>5. Listed' = Listed
  BY <1>1 DEF Listed, OnStrava
<1>6. OwedIsAhead'
  BY <1>1, <1>2, <1>3, <1>4, <1>5 DEF OwedIsAhead
<1>7. NothingSlipsThrough'
  BY <1>2 DEF NothingSlipsThrough
<1> QED
  BY <1>1, <1>2, <1>6, <1>7, OfResync

LEMMA ResyncPageKeeps == ASSUME Inv, ResyncPage PROVE Inv'
<1> DEFINE n == resync.page
           page == Page(n)
           full == Cardinality(page) = PageSize
<1>1. /\ resync.pc = "paging"
      /\ resync' = [resync EXCEPT
             !.got = @ \cup {r \in page : ride[r] = "public"},
             !.page = IF full /\ @ < MaxPages THEN @ + 1 ELSE 0,
             !.pc = IF full /\ n < MaxPages THEN @ ELSE "ingesting",
             !.owed = IF full /\ n = MaxPages THEN {} ELSE @]
      /\ UNCHANGED <<ride, old, time, connected, cloud, work, stored, forgotten, raced, since>>
  BY DEF ResyncPage
<1>2. page = {r \in Listed : (n - 1) * PageSize < Rank(Listed, r)
                             /\ Rank(Listed, r) <= n * PageSize}
  BY DEF Page, Rank, UpTo
<1>3. page \subseteq Listed
  BY <1>2
<1>4. n \in 0..MaxPages /\ n # 0 /\ resync \in ResyncType
      /\ resync.got \subseteq Rides /\ resync.owed \subseteq Rides
  BY <1>1, Facts DEF Inv, OwedIsAhead, ResyncType
<1> DEFINE got == resync.got \cup {r \in page : ride[r] = "public"}
<1>5. got \subseteq Rides
  BY <1>3, <1>4, Facts DEF Inv
<1>6. /\ resync'.got = got
      /\ resync'.page = IF full /\ n < MaxPages THEN n + 1 ELSE 0
      /\ resync'.pc = IF full /\ n < MaxPages THEN "paging" ELSE "ingesting"
      /\ resync'.owed = IF full /\ n = MaxPages THEN {} ELSE resync.owed
  <2> HIDE DEF full, page
  <2> QED
    BY <1>1, <1>4 DEF ResyncType
<1>7. resync' \in ResyncType
  <2> HIDE DEF full, page, got
  <2>1. (IF full /\ n < MaxPages THEN n + 1 ELSE 0) \in 0..MaxPages
    BY <1>4, Facts DEF Inv
  <2>2. (IF full /\ n = MaxPages THEN {} ELSE resync.owed) \in SUBSET Rides
    BY <1>4
  <2>3. resync' = [pc |-> resync'.pc, page |-> resync'.page, got |-> resync'.got,
                   owed |-> resync'.owed]
    BY <1>1, <1>4 DEF ResyncType
  <2>4. /\ resync'.pc \in {"idle", "paging", "ingesting"} /\ resync'.page \in 0..MaxPages
        /\ resync'.got \in SUBSET Rides /\ resync'.owed \in SUBSET Rides
    BY <1>5, <1>6, <2>1, <2>2
  <2> QED
    BY <2>3, <2>4 DEF ResyncType
<1>8. \A r \in resync.owed : /\ ride[r] = "public" /\ r \in Listed
                             /\ Rank(Listed, r) \in Nat
                             /\ r \in resync.got \/ Rank(Listed, r) > (n - 1) * PageSize
  <2> TAKE r \in resync.owed
  <2>1. ride[r] = "public" /\ r \notin old
        /\ (r \in resync.got \/ Rank(Listed, r) > (n - 1) * PageSize)
    BY <1>1 DEF Inv, OwedIsAhead
  <2>2. r \in Listed
    BY <1>4, <2>1 DEF Listed, OnStrava
  <2>3. Rank(Listed, r) \in Nat
    BY <2>2, Facts, RankMonotone DEF Inv
  <2> QED
    BY <2>1, <2>2, <2>3
<1>9. n * PageSize \in Nat /\ (n - 1) * PageSize \in Nat /\ (n + 1) - 1 = n
  <2>1. n \in Nat /\ n - 1 \in Nat /\ PageSize \in Nat
    BY <1>4, Facts DEF Inv
  <2> QED
    BY <2>1
<1>10. \A r \in resync.owed : r \in got \/ Rank(Listed, r) > n * PageSize
  <2> TAKE r \in resync.owed
  <2>1. CASE r \in resync.got
    BY <2>1
  <2>2. CASE Rank(Listed, r) > (n - 1) * PageSize
    <3> DEFINE hi == n * PageSize
               lo == (n - 1) * PageSize
               k == Rank(Listed, r)
    <3>1. k > lo /\ k \in Nat /\ hi \in Nat /\ lo \in Nat
      BY <1>8, <1>9, <2>2
    <3>2. (lo < k /\ k <= hi) \/ k > hi
      <4> HIDE DEF hi, lo, k
      <4> QED
        BY <3>1
    <3>3. lo < k /\ k <= hi => r \in page
      BY <1>2, <1>8
    <3> QED
      BY <1>8, <3>2, <3>3
  <2> QED
    BY <1>8, <2>1, <2>2
<1>11. full \/ \A r \in resync.owed : r \in got
  <2> SUFFICES ASSUME NEW r \in resync.owed, r \notin got PROVE full
    OBVIOUS
  <2>1. r \in Listed /\ Rank(Listed, r) > n * PageSize
    BY <1>8, <1>10
  <2>2. Listed \in SUBSET Nat /\ IsFiniteSet(Listed) /\ n \in Nat \ {0}
    BY <1>4, Facts DEF Inv
  <2>3. Cardinality({s \in Listed : (n - 1) * PageSize < Rank(Listed, s)
                                    /\ Rank(Listed, s) <= n * PageSize}) = PageSize
    BY <2>1, <2>2, ShortPageIsLast
  <2> QED
    BY <1>2, <2>3
<1>12. Listed' = Listed
  BY <1>1 DEF Listed, OnStrava
<1> HIDE DEF full, page, got
<1>13. \A r \in resync'.owed : r \in resync.owed
  BY <1>6
<1>14. OwedIsAhead'
  <2>1. \A r \in resync'.owed : ride'[r] = "public" /\ r \notin old'
    BY <1>1, <1>13 DEF Inv, OwedIsAhead
  <2>2. ASSUME resync'.pc = "paging" PROVE resync'.page = n + 1 /\ resync'.page # 0
    BY <1>4, <1>6, <2>2
  <2>3. ASSUME resync'.pc = "paging", NEW r \in resync'.owed
        PROVE  r \in resync'.got \/ Rank(Listed', r) > (resync'.page - 1) * PageSize
    BY <1>6, <1>9, <1>10, <1>12, <1>13, <2>2, <2>3
  <2> QED
    BY <2>1, <2>2, <2>3 DEF OwedIsAhead
<1>15. NothingSlipsThrough'
  BY <1>4, <1>6, <1>11, Facts DEF NothingSlipsThrough, Inv
<1>16. resync'.got \subseteq resync.got \cup {r \in Rides : ride[r] = "public"}
  BY <1>3, <1>6, Facts DEF got, Inv
<1> QED
  BY <1>1, <1>7, <1>14, <1>15, <1>16, OfResync

(* What the other steps of the resync do to the record. *)
LEMMA ResyncEndsKeeps ==
    ASSUME Inv, resync' = NoRun, stored' = stored,
           UNCHANGED <<ride, old, time, connected, cloud, work, forgotten, raced, since>>
    PROVE  Inv'
<1>1. /\ NoRun \in ResyncType /\ NoRun.pc = "idle" /\ NoRun.got = {} /\ NoRun.owed = {}
  BY PagesAssumption DEF NoRun, ResyncType
<1>2. OwedIsAhead' /\ NothingSlipsThrough'
  BY <1>1 DEF OwedIsAhead, NothingSlipsThrough
<1> QED
  BY <1>1, <1>2, OfResync

LEMMA ResyncBreakKeeps == ASSUME Inv, ResyncBreak PROVE Inv'
<1>1. /\ resync' = [resync EXCEPT !.pc = "ingesting", !.page = 0, !.owed = {}]
      /\ UNCHANGED <<ride, old, time, connected, cloud, work, stored, forgotten, raced, since>>
  BY DEF ResyncBreak
<1>2. /\ resync' \in ResyncType /\ resync'.pc = "ingesting" /\ resync'.owed = {}
      /\ resync'.got = resync.got
  <2>1. resync \in ResyncType /\ 0 \in 0..MaxPages /\ {} \in SUBSET Rides
    BY Facts DEF Inv
  <2> QED
    BY <1>1, <2>1 DEF ResyncType
<1>3. OwedIsAhead' /\ NothingSlipsThrough'
  BY <1>2 DEF OwedIsAhead, NothingSlipsThrough
<1> QED
  BY <1>1, <1>2, <1>3, OfResync

LEMMA ResyncIngestKeeps == ASSUME Inv, NEW r \in Rides, ResyncIngest(r) PROVE Inv'
<1>1. /\ resync.pc = "ingesting" /\ r \in resync.got /\ stored' = stored \cup {r}
      /\ resync' = [resync EXCEPT !.got = @ \ {r}]
      /\ UNCHANGED <<ride, old, time, connected, cloud, work, forgotten, raced, since>>
  BY DEF ResyncIngest
<1>2. /\ resync' \in ResyncType /\ resync'.pc = "ingesting" /\ resync'.owed = resync.owed
      /\ resync'.got = resync.got \ {r}
  BY <1>1, Facts DEF Inv, ResyncType
<1>3. OwedIsAhead' /\ NothingSlipsThrough'
  BY <1>1, <1>2 DEF Inv, OwedIsAhead, NothingSlipsThrough
<1> QED
  BY <1>1, <1>2, <1>3, OfResync

LEMMA ResyncFailKeeps == ASSUME Inv, NEW r \in Rides, ResyncFail(r) PROVE Inv'
<1>1. /\ resync.pc = "ingesting"
      /\ resync' = [resync EXCEPT !.got = @ \ {r}, !.owed = @ \ {r}]
      /\ UNCHANGED <<ride, old, time, connected, cloud, work, stored, forgotten, raced, since>>
  BY DEF ResyncFail
<1>2. /\ resync' \in ResyncType /\ resync'.pc = "ingesting"
      /\ resync'.owed = resync.owed \ {r} /\ resync'.got = resync.got \ {r}
  BY <1>1, Facts DEF Inv, ResyncType
<1>3. OwedIsAhead' /\ NothingSlipsThrough'
  BY <1>1, <1>2 DEF Inv, OwedIsAhead, NothingSlipsThrough
<1> QED
  BY <1>1, <1>2, <1>3, OfResync

-----------------------------------------------------------------------------
(* Strava, the public handler and the member *)

(* What leaves a resync only takes from what it owes. *)
LEMMA LeavesKeeps ==
    ASSUME Inv, NEW r \in Rides, NEW shrinks \in BOOLEAN, Leaves(r, shrinks)
    PROVE  /\ resync' \in ResyncType /\ resync'.pc = resync.pc
           /\ resync'.page = resync.page /\ resync'.got = resync.got
           /\ resync'.owed \subseteq resync.owed \ {r}
           /\ shrinks /\ resync.pc = "paging" => resync'.owed = {}
           /\ resync.pc # "paging" \/ ~shrinks => resync'.owed = resync.owed \ {r}
<1> DEFINE owes == IF shrinks /\ resync.pc = "paging" THEN {} ELSE resync.owed \ {r}
<1>1. resync' = [resync EXCEPT !.owed = owes]
  BY DEF Leaves
<1>2. resync \in ResyncType /\ resync.owed \subseteq Rides
  BY Facts DEF Inv, ResyncType
<1>3. owes \in SUBSET Rides /\ owes \subseteq resync.owed \ {r}
  BY <1>2
<1>4. /\ resync' \in ResyncType /\ resync'.owed = owes /\ resync'.pc = resync.pc
      /\ resync'.page = resync.page /\ resync'.got = resync.got
  <2> HIDE DEF owes
  <2> QED
    BY <1>1, <1>2, <1>3 DEF ResyncType
<1> QED
  BY <1>3, <1>4

(* The list may grow at its end: the ranks on it stay. *)
LEMMA RanksStay ==
    ASSUME Inv, Listed \subseteq Listed', Listed' \subseteq Rides,
           \A r \in Listed, s \in Listed' \ Listed : ~(s < r) /\ s # r
    PROVE  \A r \in Listed : Rank(Listed', r) = Rank(Listed, r)
<1> SUFFICES ASSUME NEW r \in Listed PROVE UpTo(Listed', r) = UpTo(Listed, r)
  BY DEF Rank
<1>1. \A s \in Listed' : s \in Nat
  BY Facts DEF Inv
<1>2. \A s \in Listed' \ Listed : ~(s <= r)
  BY <1>1, Facts DEF Inv
<1> QED
  BY <1>2 DEF UpTo

(* A step that leaves the resync where it is, and only takes from what it owes. *)
LEMMA OwedKeeps ==
    ASSUME Inv, resync'.pc = resync.pc, resync'.page = resync.page,
           resync'.got = resync.got, resync'.owed \subseteq resync.owed,
           \A r \in resync'.owed : ride'[r] = "public" /\ r \notin old',
           \/ resync'.owed = {}
           \/ resync.pc # "paging"
           \/ \A r \in Listed : Rank(Listed', r) = Rank(Listed, r),
           \A r \in stored : r \in stored' \/ r \notin resync'.owed
    PROVE  OwedIsAhead' /\ NothingSlipsThrough'
<1>1. \A r \in resync'.owed : r \in Listed
  <2>1. resync.owed \subseteq Rides
    BY Facts DEF Inv, ResyncType
  <2> QED
    BY <2>1 DEF Inv, OwedIsAhead, Listed, OnStrava
<1>2. resync.pc = "paging" =>
         \A r \in resync'.owed :
            r \in resync'.got \/ Rank(Listed', r) > (resync'.page - 1) * PageSize
  BY <1>1 DEF Inv, OwedIsAhead
<1>3. OwedIsAhead'
  BY <1>2 DEF Inv, OwedIsAhead
<1>4. NothingSlipsThrough'
  BY DEF Inv, NothingSlipsThrough
<1> QED
  BY <1>3, <1>4

LEMMA HappensKeeps ==
    ASSUME Inv, NEW r \in Rides, NEW aspect \in {"create", "update", "delete"},
           NEW what \in {"public", "private", "deleted"}, Happens(r, aspect, what),
           aspect = "delete" <=> what = "deleted", ride[r] # "deleted",
           resync' \in ResyncType, resync'.got = resync.got,
           CreatedInOrder', OwedIsAhead', NothingSlipsThrough'
    PROVE  Inv'
<1> DEFINE e == [ride |-> r, aspect |-> aspect, time |-> time + 1]
<1>1. /\ time < MaxEvents /\ time' = time + 1 /\ ride' = [ride EXCEPT ![r] = what]
      /\ sent' = sent \cup {e}
      /\ since' = IF what = "public" THEN [since EXCEPT ![r] = time + 1] ELSE since
      /\ UNCHANGED <<old, connected, named, tasks, work, stored, forgotten, raced>>
  BY DEF Happens
<1>2. time \in Nat /\ time' \in 1..MaxEvents
  BY <1>1, Facts DEF Inv, TypeOK
<1>3. e \in Events /\ e.ride = r /\ e.aspect = aspect /\ e.time = time + 1
  BY <1>1, <1>2 DEF Events
<1>4. /\ ride' \in [Rides -> {"none", "public", "private", "deleted"}]
      /\ ride'[r] = what /\ \A s \in Rides : s # r => ride'[s] = ride[s]
  BY <1>1 DEF Inv, TypeOK
<1> HIDE DEF e
<1>5. TypeOK'
  <2>1. sent' \subseteq Events /\ since' \in [Rides -> 0..MaxEvents]
    BY <1>1, <1>2, <1>3 DEF Inv, TypeOK
  <2>2. time' \in 0..MaxEvents
    BY <1>2
  <2>3. /\ old' \subseteq Rides /\ stored' \subseteq Rides /\ raced' \subseteq Rides
        /\ tasks' \subseteq Events /\ forgotten' \subseteq Events
        /\ named' \subseteq {Name(x) : x \in Events}
    BY <1>1 DEF Inv, TypeOK
  <2>4. work' \in [Workers -> WorkType]
        /\ \A w \in Workers : work'[w].pc = "idle" <=> work'[w].task = NoEvent
    BY <1>1 DEF Inv, TypeOK, WorkType
  <2>5. connected' \in BOOLEAN
    BY <1>1 DEF Inv, TypeOK
  <2> QED
    BY <1>4, <2>1, <2>2, <2>3, <2>4, <2>5 DEF TypeOK, WorkType, ResyncType
<1>6. EventsArePast'
  <2>1. \A x \in sent \cup named \cup tasks : x.time \in Nat /\ x.time <= time
    BY Facts DEF Inv, EventsArePast
  <2> QED
    BY <1>1, <1>2, <1>3, <2>1 DEF EventsArePast
<1>7. DeletesAreTrue'
  <2>1. ASSUME NEW x \in sent' \cup tasks', x.aspect = "delete"
        PROVE  ride'[x.ride] = "deleted"
    <3>1. CASE x = e
      BY <1>3, <1>4, <2>1, <3>1
    <3>2. CASE x \in sent \cup tasks
      BY <1>4, <2>1, <3>2, Facts DEF Inv, DeletesAreTrue
    <3> QED
      BY <1>1, <3>1, <3>2
  <2>2. ASSUME NEW w \in Workers, work[w].task.aspect = "delete"
        PROVE  ride'[work[w].task.ride] = "deleted"
    <3>1. work[w].task \in Events
      BY <2>2, Facts DEF Inv, WorkType, NoEvent
    <3>2. work[w].task.ride \in Rides /\ ride[work[w].task.ride] = "deleted"
      BY <2>2, <3>1, Facts DEF Inv, DeletesAreTrue
    <3> QED
      BY <1>4, <3>2
  <2> QED
    BY <1>1, <2>1, <2>2 DEF DeletesAreTrue
<1>8. BeenPublic \subseteq BeenPublic' /\ (what = "public" => r \in BeenPublic')
  <2>1. time + 1 > 0 /\ since \in [Rides -> 0..MaxEvents]
    BY <1>2 DEF Inv, TypeOK
  <2>2. \A s \in Rides : since'[s] = since[s] \/ since'[s] > 0
    BY <1>1, <2>1
  <2>3. what = "public" => since'[r] > 0
    BY <1>1, <2>1
  <2> QED
    BY <2>1, <2>2, <2>3 DEF BeenPublic
<1>11. HeldWasPublic'
  BY <1>1, <1>4, <1>8 DEF Inv, HeldWasPublic
<1>9. DeleteFollows'
  <2> SUFFICES ASSUME NEW x \in Rides, ride'[x] = "deleted", x \in stored \cup Held,
                      x \notin raced, ~Lost(x, "delete")
               PROVE  Ahead(x, sent', named, tasks)
    <3>1. \A x : x \in Held' <=> x \in Held
      BY <1>1, HeldIs
    <3> QED
      BY <1>1, <3>1 DEF Lost, DeleteFollows
  <2>1. CASE x = r
    <3>1. e.ride = x /\ e.aspect = "delete" /\ e \in sent'
      BY <1>1, <1>3, <1>4, <2>1
    <3>2. e \notin named
      BY <1>2, <1>3 DEF Inv, EventsArePast
    <3> QED
      BY <3>1, <3>2 DEF Ahead
  <2>2. CASE x # r
    BY <1>1, <1>4, <2>2 DEF Lost, Inv, DeleteFollows, Ahead
  <2> QED
    BY <2>1, <2>2
<1>10. PrivateStaysOut'
  BY <1>1, <1>8 DEF Inv, PrivateStaysOut
<1> QED
  BY <1>5, <1>6, <1>7, <1>9, <1>10, <1>11 DEF Inv

LEMMA CreateKeeps ==
    ASSUME Inv, NEW r \in Rides, NEW what \in {"public", "private"}, Create(r, what)
    PROVE  Inv'
<1>1. /\ ride[r] = "none" /\ \A s \in Rides : s < r => ride[s] # "none"
      /\ Happens(r, "create", what) /\ resync' = resync
      /\ ride' = [ride EXCEPT ![r] = what] /\ old' = old /\ stored' = stored
  BY DEF Create, Happens
<1>2. ride'[r] = what /\ \A s \in Rides : s # r => ride'[s] = ride[s]
  BY <1>1 DEF Inv, TypeOK
<1>3. r \notin old /\ \A s \in Rides : r < s => ride[s] = "none"
  BY <1>1 DEF Inv, CreatedInOrder
<1>4. CreatedInOrder'
  <2>1. \A x, y \in Rides : ride'[x] = "none" /\ x < y => ride'[y] = "none"
    <3> SUFFICES ASSUME NEW x \in Rides, NEW y \in Rides, ride'[x] = "none", x < y
                 PROVE  ride'[y] = "none"
      OBVIOUS
    <3>1. x # r /\ ride[x] = "none" /\ ride[y] = "none"
      BY <1>2 DEF Inv, CreatedInOrder
    <3>2. y # r
      BY <1>1, <3>1
    <3> QED
      BY <1>2, <3>1, <3>2
  <2>2. \A x \in old' : ride'[x] # "none"
    BY <1>1, <1>2 DEF Inv, TypeOK, CreatedInOrder
  <2> QED
    BY <2>1, <2>2 DEF CreatedInOrder
<1>5. Listed' = Listed \cup {r} /\ r \notin Listed
  BY <1>1, <1>2, <1>3 DEF Listed, OnStrava
<1>6. \A x \in Listed : Rank(Listed', x) = Rank(Listed, x)
  <2>1. \A x \in Listed : x \in Nat /\ x # r /\ ~(r < x)
    BY <1>3, <1>5, Facts DEF Inv, Listed, OnStrava
  <2>2. Listed \subseteq Listed' /\ Listed' \subseteq Rides /\ Listed' \ Listed = {r}
    BY <1>5, Facts DEF Inv
  <2> QED
    BY <2>1, <2>2, RanksStay
<1>7. \A x \in resync.owed : ride'[x] = "public" /\ x \notin old'
  <2>1. resync.owed \subseteq Rides
    BY Facts DEF Inv, ResyncType
  <2> QED
    BY <1>1, <1>2, <2>1 DEF Inv, OwedIsAhead
<1>8. OwedIsAhead' /\ NothingSlipsThrough'
  BY <1>1, <1>6, <1>7, OwedKeeps
<1> QED
  BY <1>1, <1>4, <1>8, Facts, HappensKeeps DEF Inv

(* A step that changes what a ride is on Strava, once it is created. *)
LEMMA ChangesKeeps ==
    ASSUME Inv, NEW r \in Rides, NEW aspect \in {"update", "delete"},
           NEW what \in {"public", "private", "deleted"}, Happens(r, aspect, what),
           aspect = "delete" <=> what = "deleted", r \in OnStrava,
           NEW shrinks \in BOOLEAN, shrinks <=> what = "deleted",
           (resync' = resync /\ what = "public") \/ Leaves(r, shrinks)
    PROVE  Inv'
<1>1. /\ ride' = [ride EXCEPT ![r] = what] /\ old' = old /\ stored' = stored
      /\ ride[r] \in {"public", "private"}
  BY DEF Happens, OnStrava
<1>2. ride'[r] = what /\ \A s \in Rides : s # r => ride'[s] = ride[s]
  BY <1>1 DEF Inv, TypeOK
<1>3. CreatedInOrder'
  <2>1. \A s \in Rides : ride'[s] = "none" <=> ride[s] = "none"
    BY <1>1, <1>2
  <2>2. old \subseteq Rides
    BY DEF Inv, TypeOK
  <2> QED
    BY <1>1, <2>1, <2>2 DEF Inv, CreatedInOrder
<1>4. /\ resync' \in ResyncType /\ resync'.pc = resync.pc /\ resync'.page = resync.page
      /\ resync'.got = resync.got /\ resync'.owed \subseteq resync.owed
      /\ what = "public" \/ r \notin resync'.owed
      /\ shrinks /\ resync.pc = "paging" => resync'.owed = {}
  <2>1. CASE resync' = resync /\ what = "public"
    BY <2>1, Facts DEF Inv
  <2>2. CASE Leaves(r, shrinks)
    BY <2>2, LeavesKeeps
  <2> QED
    BY <2>1, <2>2
<1>5. \A x \in resync'.owed : ride'[x] = "public" /\ x \notin old'
  <2>1. resync.owed \subseteq Rides
    BY Facts DEF Inv, ResyncType
  <2> QED
    BY <1>1, <1>2, <1>4, <2>1 DEF Inv, OwedIsAhead
<1>6. ~shrinks => Listed' = Listed
  BY <1>1, <1>2 DEF Listed, OnStrava
<1>7. OwedIsAhead' /\ NothingSlipsThrough'
  BY <1>1, <1>4, <1>5, <1>6, OwedKeeps
<1> QED
  BY <1>1, <1>3, <1>4, <1>7, HappensKeeps

LEMMA PublishKeeps == ASSUME Inv, NEW r \in Rides, Publish(r) PROVE Inv'
BY ChangesKeeps DEF Publish, OnStrava

LEMMA HideKeeps == ASSUME Inv, NEW r \in Rides, Hide(r) PROVE Inv'
BY ChangesKeeps DEF Hide, OnStrava

LEMMA RemoveKeeps == ASSUME Inv, NEW r \in Rides, Remove(r) PROVE Inv'
BY ChangesKeeps DEF Remove

LEMMA AgeKeeps == ASSUME Inv, NEW r \in Rides, Age(r) PROVE Inv'
<1>1. /\ ride[r] # "none" /\ old' = old \cup {r} /\ Leaves(r, TRUE)
      /\ UNCHANGED <<ride, time, connected, cloud, work, stored, forgotten, raced, since>>
  BY DEF Age
<1>2. /\ resync' \in ResyncType /\ resync'.pc = resync.pc /\ resync'.page = resync.page
      /\ resync'.got = resync.got /\ resync'.owed \subseteq resync.owed \ {r}
      /\ resync.pc = "paging" => resync'.owed = {}
  BY <1>1, LeavesKeeps
<1>3. TypeOK'
  BY <1>1, <1>2 DEF Inv, TypeOK, cloud, ResyncType
<1>4. CreatedInOrder' /\ EventsArePast' /\ DeletesAreTrue' /\ HeldWasPublic'
  BY <1>1, <1>2 DEF BeenPublic, Inv, CreatedInOrder, EventsArePast, DeletesAreTrue, HeldWasPublic, cloud
<1>5. \A x : x \in Held' <=> x \in Held
  BY <1>1, <1>2, HeldIs
<1>6. DeleteFollows' /\ PrivateStaysOut'
  BY <1>1, <1>5 DEF BeenPublic, Lost, Inv, DeleteFollows, PrivateStaysOut, Ahead, cloud
<1>7. \A x \in resync'.owed : ride'[x] = "public" /\ x \notin old'
  BY <1>1, <1>2 DEF Inv, OwedIsAhead
<1>8. OwedIsAhead' /\ NothingSlipsThrough'
  BY <1>1, <1>2, <1>7, OwedKeeps
<1> QED
  BY <1>3, <1>4, <1>6, <1>8 DEF Inv

LEMMA DeleteByMemberKeeps == ASSUME Inv, NEW r \in Rides, DeleteByMember(r) PROVE Inv'
<1>1. /\ stored' = stored \ {r} /\ Leaves(r, FALSE)
      /\ UNCHANGED <<ride, old, time, connected, cloud, work, forgotten, raced, since>>
  BY DEF DeleteByMember
<1>2. /\ resync' \in ResyncType /\ resync'.pc = resync.pc /\ resync'.page = resync.page
      /\ resync'.got = resync.got /\ resync'.owed \subseteq resync.owed \ {r}
  BY <1>1, LeavesKeeps
<1>3. \A x \in resync'.owed : ride'[x] = "public" /\ x \notin old'
  BY <1>1, <1>2 DEF Inv, OwedIsAhead
<1>4. Listed' = Listed
  BY <1>1 DEF Listed, OnStrava
<1>5. OwedIsAhead' /\ NothingSlipsThrough'
  BY <1>1, <1>2, <1>3, <1>4, OwedKeeps
<1> QED
  BY <1>1, <1>2, <1>5, OfResync

(* The events move on, and one that is lost is remembered. *)
LEMMA OfEvents ==
    ASSUME Inv, NEW e \in sent, sent' \in {sent, sent \ {e}},
           named \subseteq named', named' \subseteq named \cup {e},
           tasks \subseteq tasks', tasks' \subseteq tasks \cup {e},
           forgotten' \in {forgotten, forgotten \cup {e}},
           UNCHANGED <<ride, old, time, connected, work, resync, stored, raced, since>>,
           \/ e \in forgotten' /\ named' = named
           \/ e \in tasks' \/ (e \in named /\ named' = named)
    PROVE  Inv'
<1>1. e \in Events /\ e.ride \in Rides
  BY Facts DEF Inv
<1>2. forgotten \subseteq forgotten' /\ forgotten' \subseteq Events
  BY <1>1 DEF Inv, TypeOK
<1>3. TypeOK'
  <2>1. sent' \subseteq Events /\ tasks' \subseteq Events
        /\ named' \subseteq {Name(x) : x \in Events}
    BY <1>1 DEF Inv, TypeOK, Name
  <2> QED
    BY <1>2, <2>1 DEF Inv, TypeOK
<1>4. CreatedInOrder' /\ EventsArePast' /\ DeletesAreTrue' /\ HeldWasPublic'
  BY DEF BeenPublic, Inv, CreatedInOrder, EventsArePast, DeletesAreTrue, HeldWasPublic
<1>5. \A x : x \in Held' <=> x \in Held
  BY HeldIs
<1>6. DeleteFollows'
  <2> SUFFICES ASSUME NEW r \in Rides, ride[r] = "deleted", r \in stored \cup Held,
                      r \notin raced, ~Lost(r, "delete")'
               PROVE  Ahead(r, sent', named', tasks')
    BY <1>5 DEF Lost, DeleteFollows
  <2>1. PICK x \in sent \cup tasks : /\ x.ride = r /\ x.aspect = "delete"
                                     /\ x \in tasks \/ x \notin named
    BY <1>2 DEF Lost, Inv, DeleteFollows, Ahead
  <2>2. CASE x \in tasks \/ x # e
    BY <2>1, <2>2 DEF Ahead
  <2>3. CASE x = e /\ x \notin tasks
    <3>1. e \notin forgotten'
      BY <2>1, <2>3 DEF Lost
    <3>2. e \in tasks'
      BY <2>1, <2>3, <3>1
    <3> QED
      BY <2>1, <2>3, <3>2 DEF Ahead
  <2> QED
    BY <2>2, <2>3
<1>7. OwedIsAhead' /\ NothingSlipsThrough' /\ PrivateStaysOut'
  BY DEF BeenPublic, Inv, OwedIsAhead, NothingSlipsThrough, PrivateStaysOut, Listed, OnStrava
<1> QED
  BY <1>3, <1>4, <1>6, <1>7 DEF Inv

LEMMA GiveUpKeeps == ASSUME Inv, NEW e \in sent, GiveUp(e) PROVE Inv'
BY OfEvents DEF GiveUp, Forget, Name

LEMMA DeliverKeeps == ASSUME Inv, NEW e \in sent, Deliver(e) PROVE Inv'
<1>1. CASE Queue(e) /\ sent' \in {sent, sent \ {e}} /\ UNCHANGED forgotten
  <2>1. /\ named' = named \cup {e}
        /\ tasks' = IF e \in named THEN tasks ELSE tasks \cup {e}
    BY <1>1 DEF Queue, Name
  <2>2. UNCHANGED <<ride, old, time, connected, work, resync, stored, raced, since>>
    BY DEF Deliver
  <2> QED
    BY <1>1, <2>1, <2>2, OfEvents
<1>2. CASE Forget(e)
  BY <1>2, OfEvents DEF Deliver, Forget, Name
<1> QED
  BY <1>1, <1>2 DEF Deliver

LEMMA ConnectKeeps == ASSUME Inv, Connect PROVE Inv'
<1>1. /\ connected' \in BOOLEAN
      /\ UNCHANGED <<ride, old, time, cloud, work, resync, stored, forgotten, raced, since>>
  BY DEF Connect, Inv, TypeOK
<1>2. TypeOK'
  BY <1>1 DEF Inv, TypeOK, cloud
<1>3. Held' = Held /\ Listed' = Listed
  BY <1>1 DEF Held, Listed, OnStrava
<1> QED
  BY <1>1, <1>2, <1>3 DEF BeenPublic, Inv, CreatedInOrder, EventsArePast, DeletesAreTrue, HeldWasPublic,
     DeleteFollows, OwedIsAhead, NothingSlipsThrough, PrivateStaysOut, cloud, Lost

-----------------------------------------------------------------------------

THEOREM InvHolds == Spec => []Inv
<1>1. Inv /\ [Next]_vars => Inv'
  <2>1. ASSUME Inv, NEW r \in Rides, OnRide(r) PROVE Inv'
    BY <2>1, CreateKeeps, PublishKeeps, HideKeeps, RemoveKeeps, AgeKeeps,
       DeleteByMemberKeeps DEF OnRide
  <2>2. ASSUME Inv, NEW e \in sent, GiveUp(e) \/ Deliver(e) PROVE Inv'
    BY <2>2, GiveUpKeeps, DeliverKeeps
  <2>3. ASSUME Inv, NEW w \in Workers, Worker(w) PROVE Inv'
    BY <2>3, ReceiveKeeps, DeleteActivityKeeps, FetchKeeps, IngestKeeps, RetryKeeps DEF Worker
  <2>4. ASSUME Inv, Resync PROVE Inv'
    <3>1. ResyncEnd \/ ResyncDie => resync' = NoRun /\ stored' = stored /\ UNCHANGED
            <<ride, old, time, connected, cloud, work, forgotten, raced, since>>
      BY DEF ResyncEnd, ResyncDie
    <3> QED
      BY <2>4, <3>1, ResyncBeginKeeps, ResyncPageKeeps, ResyncBreakKeeps, ResyncEndsKeeps,
         ResyncIngestKeeps, ResyncFailKeeps DEF Resync
  <2>5. ASSUME Inv, UNCHANGED vars PROVE Inv'
    <3>1. Held' = Held /\ Listed' = Listed
      BY <2>5 DEF vars, cloud, Held, Listed, OnStrava
    <3> QED
      BY <2>5, <3>1 DEF vars, cloud, Inv, TypeOK, CreatedInOrder, EventsArePast, DeletesAreTrue,
         HeldWasPublic, DeleteFollows, OwedIsAhead, NothingSlipsThrough, PrivateStaysOut,
         Lost, BeenPublic
  <2> QED
    BY <2>1, <2>2, <2>3, <2>4, <2>5, ConnectKeeps DEF Next
<1> QED
  BY InitInv, <1>1, PTL DEF Spec

(* The rides, the events, the workers and the resync keep their types.        *)
THEOREM TypeCorrect == Spec => []TypeOK
<1>1. Inv => TypeOK
  BY DEF Inv
<1> QED
  BY InvHolds, <1>1, PTL

(* A resync that has read its list to the end holds or finds stored every     *)
(* ride that was public all along, for any page size and any number of pages: *)
(* rides that are created, published or hidden meanwhile move none past it.   *)
THEOREM NothingSlips == Spec => []NothingSlipsThrough
<1>1. Inv => NothingSlipsThrough
  BY DEF Inv
<1> QED
  BY InvHolds, <1>1, PTL

(* A ride deleted on Strava leaves the database once its events have been     *)
(* worked off, in whatever order and however often, unless one was lost or an *)
(* ingest held the ride: its delete event is ahead as long as the ride is     *)
(* here, and a name is only refused to an event that has been queued.         *)
THEOREM DeletedIsGone == Spec => []DeletedOnStravaIsGone
<1>1. Inv => DeletedOnStravaIsGone
  BY DEF Lost, Inv, DeleteFollows, Ahead, DeletedOnStravaIsGone, Underway
<1> QED
  BY InvHolds, <1>1, PTL

(* No ride that was never public is stored, by the worker or the resync.      *)
THEOREM PrivateOut == Spec => []PrivateStaysOut
<1>1. Inv => PrivateStaysOut
  BY DEF Inv
<1> QED
  BY InvHolds, <1>1, PTL
=============================================================================
