--------------------------- MODULE StravaWebhook ---------------------------
(***************************************************************************)
(* How the rides of one athlete reach the database: the events Strava      *)
(* sends, the public handler that hands each to Cloud Tasks, the worker    *)
(* that fetches the ride and stores it, and the resync, which makes up for *)
(* events that got lost when somebody starts it                            *)
(* (backend/app/api/integrations_strava_webhook.py,                        *)
(* api/internal_strava_webhook.py, services/cloud_tasks.py,                *)
(* jobs/resync_strava.py).                                                 *)
(*                                                                         *)
(* Strava and Cloud Tasks are external.  Strava repeats an event it has no *)
(* answer for and gives up after some attempts; Cloud Tasks runs a task    *)
(* until it gets a 200, perhaps twice at the same time, and refuses a name *)
(* it has had.  Rides are numbered as they are created, which is the order *)
(* in which Strava lists them.  No schedule starts the resync: the one     *)
(* there was is deleted (scripts/deploy-prod.sh:133, 623), and an admin    *)
(* starts it by hand.  The content of a ride, the sports that are left out *)
(* and the notifications are abstracted.                                   *)
(***************************************************************************)
EXTENDS Integers, FiniteSets

CONSTANTS
    Rides,       \* numbers, in the order of creation
    Workers,     \* executions of the worker that may overlap
    PageSize,    \* rides on one page of Strava's list
    MaxPages,    \* MAX_PAGES_PER_USER
    MaxEvents    \* bound on what happens on Strava

ASSUME RidesAssumption == Rides \subseteq Nat \ {0} /\ IsFiniteSet(Rides)
ASSUME PagesAssumption == PageSize \in Nat \ {0} /\ MaxPages \in Nat \ {0}
ASSUME EventsAssumption == MaxEvents \in Nat

VARIABLES
    ride,       \* ride -> what it is on Strava
    old,        \* rides that have left the window of the resync
    time,       \* events so far, which is the time of the last one
    connected,  \* the athlete has an integration_accounts row
    sent,       \* events Strava has still to deliver
    named,      \* names Cloud Tasks has had
    tasks,      \* tasks that have not been answered 200
    work,       \* worker -> its task and how far it is
    resync,     \* the resync
    stored,     \* rides in the activities table
    forgotten,  \* history: events that were lost on their way
    raced,      \* history: rides deleted here while an ingest held them
    since       \* history: ride -> time of the event that last made it public

cloud == <<sent, named, tasks>>
vars == <<ride, old, time, connected, cloud, work, resync, stored, forgotten, raced, since>>

-----------------------------------------------------------------------------

Events  == [ride : Rides, aspect : {"create", "update", "delete"}, time : 1..MaxEvents]
NoEvent == [ride |-> 0, aspect |-> "none", time |-> 0]
NoWork  == [pc |-> "idle", task |-> NoEvent]
NoRun   == [pc |-> "idle", page |-> 0, got |-> {}, owed |-> {}]

OnStrava == {r \in Rides : ride[r] \in {"public", "private"}}

\* Rides an ingest will store from what it has fetched.
Held == {work[w].task.ride : w \in {w \in Workers : work[w].pc = "fetched"}}
            \cup resync.got

\* Something about the ride is still to be delivered or worked on.
Underway(r) ==
    \/ \E e \in sent \cup tasks : e.ride = r
    \/ \E w \in Workers : work[w].pc # "idle" /\ work[w].task.ride = r

Init ==
    /\ ride = [r \in Rides |-> "none"] /\ old = {} /\ time = 0
    /\ connected = FALSE
    /\ sent = {} /\ named = {} /\ tasks = {}
    /\ work = [w \in Workers |-> NoWork]
    /\ resync = NoRun /\ stored = {}
    /\ forgotten = {} /\ raced = {} /\ since = [r \in Rides |-> 0]

\* The name of the task for an event.
NameOfRide(e) == [NoEvent EXCEPT !.ride = e.ride]               \* seeded fault
Name(e) == e

-----------------------------------------------------------------------------
(* Strava *)

\* A resync owes the rides that are public from its start to its end, if it
\* can read its whole list; a list that shrinks between two pages moves rides
\* to pages already read.
Leaves(r, shrinks) ==
    resync' = [resync EXCEPT
      !.owed = IF shrinks /\ resync.pc = "paging" THEN {} ELSE @ \ {r}]

Happens(r, aspect, what) ==
    /\ time < MaxEvents /\ time' = time + 1
    /\ ride' = [ride EXCEPT ![r] = what]
    /\ sent' = sent \cup {[ride |-> r, aspect |-> aspect, time |-> time + 1]}
    /\ since' = IF what = "public" THEN [since EXCEPT ![r] = time + 1] ELSE since
    /\ UNCHANGED <<old, connected, named, tasks, work, stored, forgotten, raced>>

Create(r, what) ==
    /\ ride[r] = "none" /\ \A s \in Rides : s < r => ride[s] # "none"
    /\ Happens(r, "create", what) /\ UNCHANGED resync

Publish(r) ==
    ride[r] = "private" /\ Happens(r, "update", "public") /\ UNCHANGED resync

Hide(r) ==
    ride[r] = "public" /\ Happens(r, "update", "private") /\ Leaves(r, FALSE)

Remove(r) ==
    r \in OnStrava /\ Happens(r, "delete", "deleted") /\ Leaves(r, TRUE)

\* The window of the resync moves on; what has left it is not listed.
Age(r) ==
    /\ ride[r] # "none" /\ r \notin old /\ \A s \in Rides : s < r => s \in old
    /\ old' = old \cup {r} /\ Leaves(r, TRUE)
    /\ UNCHANGED <<ride, time, connected, cloud, work, stored, forgotten, raced, since>>

\* Strava does not send the event again.  It is lost unless Cloud Tasks has it.
Forget(e) ==
    /\ sent' = sent \ {e}
    /\ forgotten' = IF Name(e) \in named THEN forgotten ELSE forgotten \cup {e}
    /\ UNCHANGED <<named, tasks>>

\* Strava has tried three times.
GiveUp(e) ==
    /\ e \in sent /\ Forget(e)
    /\ UNCHANGED <<ride, old, time, connected, work, resync, stored, raced, since>>

-----------------------------------------------------------------------------
(* The public handler *)

\* create_task; a name Cloud Tasks has had is taken for this event.
Queue(e) ==
    /\ named' = named \cup {Name(e)}
    /\ tasks' = IF Name(e) \in named THEN tasks ELSE tasks \cup {e}

\* An event of a connected athlete is queued and answered 200, and is sent
\* again if the answer gets lost.  That of an unknown athlete is answered 200,
\* and so is one that could not be queued: "failed" is a value, not an error.
Deliver(e) ==
    /\ e \in sent
    /\ \/ connected /\ Queue(e) /\ sent' \in {sent, sent \ {e}} /\ UNCHANGED forgotten
       \/ connected /\ Forget(e)
       \/ ~connected /\ Forget(e)
    /\ UNCHANGED <<ride, old, time, connected, work, resync, stored, raced, since>>

-----------------------------------------------------------------------------
(* The worker *)

Answer200(w) ==
    work' = [work EXCEPT ![w] = NoWork] /\ tasks' = tasks \ {work[w].task}

Receive(w, e) ==
    /\ work[w].pc = "idle" /\ e \in tasks
    /\ work' = [work EXCEPT ![w] = [pc |-> "received", task |-> e]]
    /\ UNCHANGED <<ride, old, time, connected, cloud, resync, stored, forgotten, raced, since>>

\* A delete event removes the row, if the athlete is known.
DeleteActivity(w) ==
    /\ work[w].pc = "received" /\ work[w].task.aspect = "delete"
    /\ LET r == work[w].task.ride IN
         /\ stored' = IF connected THEN stored \ {r} ELSE stored
         /\ forgotten' = IF connected THEN forgotten ELSE forgotten \cup {work[w].task}
         /\ raced' = IF r \in Held THEN raced \cup {r} ELSE raced
    /\ Answer200(w)
    /\ UNCHANGED <<ride, old, time, connected, sent, named, resync, since>>

\* A create or an update fetches the ride as it is now.  One that is gone or
\* private is dropped, and so is every one when there is no account or no token.
FetchPrivateToo(w) ==                                           \* seeded fault
    /\ work[w].pc = "received" /\ work[w].task.aspect # "delete" /\ connected
    /\ ride[work[w].task.ride] # "deleted"
    /\ work' = [work EXCEPT ![w].pc = "fetched"]
    /\ UNCHANGED <<ride, old, time, connected, cloud, resync, stored, forgotten, raced, since>>
Fetch(w) ==
    /\ work[w].pc = "received" /\ work[w].task.aspect # "delete"
    /\ \/ /\ connected /\ ride[work[w].task.ride] = "public"
          /\ work' = [work EXCEPT ![w].pc = "fetched"]
          /\ UNCHANGED <<tasks, forgotten>>
       \/ /\ connected /\ ride[work[w].task.ride] # "public"
          /\ Answer200(w) /\ UNCHANGED forgotten
       \/ Answer200(w) /\ forgotten' = forgotten \cup {work[w].task}
    /\ UNCHANGED <<ride, old, time, connected, sent, named, resync, stored, raced, since>>

\* A ride that is there already stays as it is.
Ingest(w) ==
    /\ work[w].pc = "fetched"
    /\ stored' = stored \cup {work[w].task.ride}
    /\ Answer200(w)
    /\ UNCHANGED <<ride, old, time, connected, sent, named, resync, forgotten, raced, since>>

\* A 5xx of Strava or of the worker, or its death: the task runs again.
RetrySwallows(w) ==                                             \* seeded fault
    /\ work[w].pc # "idle" /\ work[w].task.aspect # "delete" /\ Answer200(w)
    /\ UNCHANGED <<ride, old, time, connected, sent, named, resync, stored, forgotten, raced, since>>
Retry(w) ==
    /\ work[w].pc # "idle" /\ work' = [work EXCEPT ![w] = NoWork]
    /\ UNCHANGED <<ride, old, time, connected, cloud, resync, stored, forgotten, raced, since>>

-----------------------------------------------------------------------------
(* The resync *)

\* The window is fixed, not counted from the last success.
AfterCursor == {r \in OnStrava \ old : \A s \in stored : s < r} \* seeded fault
Listed == OnStrava \ old

Page(n) ==
    LET Rank(r) == Cardinality({s \in Listed : s <= r})
    IN  {r \in Listed : (n - 1) * PageSize < Rank(r) /\ Rank(r) <= n * PageSize}

\* admin.py: POST /resync.
ResyncBegin ==
    /\ resync.pc = "idle" /\ connected
    /\ resync' = [pc |-> "paging", page |-> 1, got |-> {},
                  owed |-> {r \in Rides \ old : ride[r] = "public"}]
    /\ UNCHANGED <<ride, old, time, connected, cloud, work, stored, forgotten, raced, since>>

\* Private rides are dropped from what was fetched.
ResyncPage ==
    /\ resync.pc = "paging"
    /\ LET page == Page(resync.page)
           full == Cardinality(page) = PageSize
       IN  resync' = [resync EXCEPT
             !.got = @ \cup {r \in page : ride[r] = "public"},
             !.page = IF full /\ @ < MaxPages THEN @ + 1 ELSE 0,
             !.pc = IF full /\ resync.page < MaxPages THEN @ ELSE "ingesting",
             !.owed = IF full /\ resync.page = MaxPages THEN {} ELSE @]
    /\ UNCHANGED <<ride, old, time, connected, cloud, work, stored, forgotten, raced, since>>

\* A page that is refused ends the list; what was fetched is ingested, and the
\* job is COMPLETED all the same.
ResyncBreak ==
    /\ resync.pc = "paging"
    /\ resync' = [resync EXCEPT !.pc = "ingesting", !.page = 0, !.owed = {}]
    /\ UNCHANGED <<ride, old, time, connected, cloud, work, stored, forgotten, raced, since>>

ResyncIngest(r) ==
    /\ resync.pc = "ingesting" /\ r \in resync.got
    /\ stored' = stored \cup {r}
    /\ resync' = [resync EXCEPT !.got = @ \ {r}]
    /\ UNCHANGED <<ride, old, time, connected, cloud, work, forgotten, raced, since>>

\* One ride that fails is counted and the next one tried.
ResyncFail(r) ==
    /\ resync.pc = "ingesting" /\ r \in resync.got
    /\ resync' = [resync EXCEPT !.got = @ \ {r}, !.owed = @ \ {r}]
    /\ UNCHANGED <<ride, old, time, connected, cloud, work, stored, forgotten, raced, since>>

ResyncEnd ==
    /\ resync.pc = "ingesting" /\ resync.got = {}
    /\ resync' = NoRun
    /\ UNCHANGED <<ride, old, time, connected, cloud, work, stored, forgotten, raced, since>>

ResyncDie ==
    /\ resync.pc \in {"paging", "ingesting"} /\ resync' = NoRun
    /\ UNCHANGED <<ride, old, time, connected, cloud, work, stored, forgotten, raced, since>>

-----------------------------------------------------------------------------
(* The member *)

\* Connects Strava, or disconnects, or is disconnected by Strava.
Connect ==
    /\ connected' = ~connected
    /\ UNCHANGED <<ride, old, time, cloud, work, resync, stored, forgotten, raced, since>>

DeleteByMember(r) ==
    /\ r \in stored /\ stored' = stored \ {r} /\ Leaves(r, FALSE)
    /\ UNCHANGED <<ride, old, time, connected, cloud, work, forgotten, raced, since>>

OnRide(r) ==
    \/ \E what \in {"public", "private"} : Create(r, what)
    \/ Publish(r) \/ Hide(r) \/ Remove(r) \/ Age(r) \/ DeleteByMember(r)

Worker(w) ==
    \/ \E e \in tasks : Receive(w, e)
    \/ DeleteActivity(w) \/ Fetch(w) \/ Ingest(w) \/ Retry(w)

Resync ==
    \/ ResyncBegin \/ ResyncPage \/ ResyncBreak \/ ResyncEnd \/ ResyncDie
    \/ \E r \in Rides : ResyncIngest(r) \/ ResyncFail(r)

Next ==
    \/ \E r \in Rides : OnRide(r)
    \/ \E e \in sent : GiveUp(e) \/ Deliver(e)
    \/ \E w \in Workers : Worker(w)
    \/ Resync \/ Connect

Spec == Init /\ [][Next]_vars

WorksOn(w, r) == work[w].task.ride = r

\* Strava gets its answer or gives up; an attempt of a task ends, if only with
\* its timeout; Cloud Tasks runs again what was not answered 200, and not every
\* attempt at the tasks of a ride fails.  Nothing is assumed of the resync.
FairSpec ==
    /\ Spec
    /\ WF_vars(\E e \in sent : Deliver(e) \/ GiveUp(e))
    /\ \A w \in Workers : WF_vars(DeleteActivity(w) \/ Fetch(w) \/ Ingest(w) \/ Retry(w))
    /\ \A r \in Rides :
         /\ SF_vars(\E w \in Workers, e \in tasks : e.ride = r /\ Receive(w, e))
         /\ SF_vars(\E w \in Workers : WorksOn(w, r) /\ Fetch(w))
         /\ SF_vars(\E w \in Workers : WorksOn(w, r) /\ Ingest(w))

-----------------------------------------------------------------------------
(* Properties *)

\* The state has its types; a worker is on an event of an existing ride.
TypeOK ==
    /\ ride \in [Rides -> {"none", "public", "private", "deleted"}]
    /\ old \subseteq Rides /\ stored \subseteq Rides
    /\ raced \subseteq Rides /\ since \in [Rides -> 0..MaxEvents]
    /\ time \in 0..MaxEvents /\ connected \in BOOLEAN
    /\ sent \subseteq Events /\ tasks \subseteq Events
    /\ forgotten \subseteq Events
    /\ named \subseteq {Name(e) : e \in Events}
    /\ work \in [Workers -> [pc : {"idle", "received", "fetched"},
                             task : Events \cup {NoEvent}]]
    /\ \A w \in Workers : work[w].pc = "idle" <=> work[w].task = NoEvent
    /\ resync \in [pc : {"idle", "paging", "ingesting"}, page : 0..MaxPages,
                   got : SUBSET Rides, owed : SUBSET Rides]

\* The resync makes up for every lost event: when it has read its whole list,
\* every ride that was public all along is stored or about to be, so that only
\* a failure of its own ingest leaves it out when the resync ends.
NothingSlipsThrough ==
    resync.pc = "ingesting" => resync.owed \subseteq stored \cup resync.got

\* An event of this aspect of the ride was lost on its way.
Lost(r, aspect) == \E e \in forgotten : e.ride = r /\ e.aspect = aspect

\* A ride deleted on Strava is not in the database once its events have been
\* worked off, in whatever order and however often they came, unless one of
\* them was forgotten or an ingest held the ride while the delete ran.
DeletedOnStravaIsGone ==
    \A r \in Rides :
        /\ ride[r] = "deleted" /\ r \in stored /\ ~Underway(r) /\ r \notin Held
        => r \in raced \/ Lost(r, "delete")

\* A ride that was never public is never stored, by the worker or the resync.
BeenPublic == {r \in Rides : since[r] > 0}
PrivateStaysOut == stored \subseteq BeenPublic

\* The events of a ride bring it into the database when the athlete stays
\* connected and the ride public, however often they are repeated, in whatever
\* order they are worked off and however often that fails - unless one was lost
\* that was sent when the ride had become public for good: then only a resync
\* that somebody starts can bring the ride in.
RidesArrive ==
    \A r \in Rides :
        <>[](connected /\ ride[r] = "public")
          => <>(\/ r \in stored
                \/ \E e \in forgotten : e.ride = r /\ e.time >= since[r])

\* internal_strava_webhook.py says that an update honours a new privacy flag:
\* when the events of a hidden ride are worked off, the ride is gone.
HiddenIsGone ==
    \A r \in Rides :
        /\ ride[r] = "private" /\ r \in stored /\ ~Underway(r) /\ r \notin Held
        => r \in raced \/ Lost(r, "update")
=============================================================================
