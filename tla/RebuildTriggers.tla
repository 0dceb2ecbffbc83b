-------------------------- MODULE RebuildTriggers --------------------------
(***************************************************************************)
(* Who asks for a build of the community map and when: web requests, with  *)
(* a debounce window per web process, an archive drain, with a window of   *)
(* its own and pings it defers, and the weekly schedule; and what becomes  *)
(* of a change nobody asked a build for                                    *)
(* (backend/app/services/run_jobs.py, services/activity_deletion.py,       *)
(* services/activity_sport.py, services/account_merge.py, api/imports.py,  *)
(* jobs/ingest_pending_archives.py).                                       *)
(*                                                                         *)
(* Changes of the public traces are numbered as they are committed, and a  *)
(* build shows every change committed before its export: what a build does *)
(* between its export and the map is HeatmapPublish's.  Time is counted in *)
(* ticks; each process keeps the ticks since it last asked for a build, up *)
(* to the length of its window.                                            *)
(***************************************************************************)
EXTENDS Integers, FiniteSets

CONSTANTS
    Instances,   \* web processes, one request at a time in each
    Archives,    \* archives of one drain batch that contribute to the map
    Debounce,    \* BUILD_PMTILES_DEBOUNCE_S
    Reping,      \* DRAIN_PMTILES_REPING_S
    RetryAfter,  \* _PING_RETRY_S
    MaxChanges,  \* bound on the changes
    MaxRequests  \* bound on the builds waiting for their export

ASSUME DelaysAssumption ==
    Debounce \in Nat /\ Reping \in Nat /\ RetryAfter \in Nat
ASSUME BoundsAssumption == MaxChanges \in Nat /\ MaxRequests \in Nat \ {0}

VARIABLES
    changes,   \* changes committed so far
    web,       \* web process -> its request and its window
    drain,     \* the drain execution and its pinger
    mailed,    \* archives whose owner has been told they are on the map
    requested, \* builds accepted whose export is still to come
    running,   \* builds under way, each by the last change it has exported
    shown,     \* last change of the published map
    asked,     \* history: last change at the latest accepted request
    told,      \* history: last change of an archive whose owner was told
    excused    \* history: changes whose build was not asked for or died

vars == <<changes, web, drain, mailed, requested, running, shown, asked, told,
          excused>>

-----------------------------------------------------------------------------

UpTo(n, bound) == IF n < bound THEN n + 1 ELSE n
Larger(m, n) == IF m > n THEN m ELSE n

\* "since" is the length of the window when no build was asked for yet.
\* "imported" is the last change of the open archive, 0 without any.
NoDrain == [pc |-> "idle", todo |-> {}, archive |-> {}, imported |-> 0,
            deferred |-> FALSE, since |-> Reping, retry |-> 0]

Init ==
    /\ changes = 0
    /\ web = [i \in Instances |-> [pc |-> "idle", change |-> 0, since |-> Debounce]]
    /\ drain = NoDrain /\ mailed = {}
    /\ requested = 0 /\ running = {} /\ shown = 0 /\ asked = 0 /\ told = 0
    /\ excused = {}

Commit == changes < MaxChanges /\ changes' = changes + 1

Excuse(numbers) == excused' = excused \cup numbers

\* _trigger_job: a 2xx of jobs:run, and the build will start.
Accepted ==
    requested < MaxRequests /\ requested' = requested + 1 /\ asked' = changes
Refused == UNCHANGED <<requested, asked>>

-----------------------------------------------------------------------------
(* Web requests *)

\* A file is ingested.  Only the request for the last file of a batch says so;
\* the browser may never send it.
UploadFile(i, last) ==
    /\ web[i].pc = "idle" /\ Commit
    /\ IF last
       THEN /\ web' = [web EXCEPT ![i].pc = "debounced", ![i].change = changes + 1]
            /\ UNCHANGED excused
       ELSE UNCHANGED web /\ Excuse({changes + 1})
    /\ UNCHANGED <<drain, mailed, requested, running, shown, asked, told>>

\* The sport of a public ride is changed.
ChangeSport(i) ==
    /\ web[i].pc = "idle" /\ Commit
    /\ web' = [web EXCEPT ![i].pc = "debounced", ![i].change = changes + 1]
    /\ UNCHANGED <<drain, mailed, requested, running, shown, asked, excused, told>>

\* A ride is deleted by its member, or two accounts are merged.
RemoveOrMerge(i) ==
    /\ web[i].pc = "idle" /\ Commit
    /\ web' = [web EXCEPT ![i].pc = "direct", ![i].change = changes + 1]
    /\ UNCHANGED <<drain, mailed, requested, running, shown, asked, excused, told>>

\* A delete event of Strava removes a row, also one a file of the member has
\* made public, and asks for nothing.
RemoveByWebhook ==
    /\ Commit /\ Excuse({changes + 1})
    /\ UNCHANGED <<web, drain, mailed, requested, running, shown, asked, told>>

Answer(i, since) ==
    web' = [web EXCEPT ![i] = [pc |-> "idle", change |-> 0, since |-> since]]

\* build_pmtiles_debounce_ok opens the window before the trigger is tried.
TriggerDebounced(i) ==
    /\ web[i].pc = "debounced"
    /\ \/ /\ web[i].since < Debounce
          /\ Answer(i, web[i].since)
          /\ Refused /\ Excuse({web[i].change})
       \/ /\ web[i].since >= Debounce
          /\ Answer(i, 0)
          /\ \/ Accepted /\ UNCHANGED excused
             \/ Refused /\ Excuse({web[i].change})
    /\ UNCHANGED <<changes, drain, mailed, running, shown, told>>

TriggerDirectDebounced(i) ==                                    \* seeded fault
    /\ web[i].pc = "direct"
    /\ IF web[i].since < Debounce
       THEN Answer(i, web[i].since) /\ Refused
       ELSE Answer(i, 0) /\ Accepted
    /\ UNCHANGED <<changes, drain, mailed, running, shown, excused, told>>
TriggerDirect(i) ==
    /\ web[i].pc = "direct" /\ Answer(i, web[i].since)
    /\ \/ Accepted /\ UNCHANGED excused
       \/ Refused /\ Excuse({web[i].change})
    /\ UNCHANGED <<changes, drain, mailed, running, shown, told>>

\* The process is killed; the next one has no window open.
Restart(i) ==
    /\ Answer(i, Debounce)
    /\ IF web[i].pc = "idle" THEN UNCHANGED excused ELSE Excuse({web[i].change})
    /\ UNCHANGED <<changes, drain, mailed, requested, running, shown, asked, told>>

-----------------------------------------------------------------------------
(* The drain and its _ArchiveRebuildPinger *)

WindowOpen == drain.since >= Reping

BatchBegin ==
    /\ drain.pc = "idle" /\ mailed # Archives
    /\ drain' = [NoDrain EXCEPT !.pc = "next", !.todo = Archives \ mailed]
    /\ UNCHANGED <<changes, web, mailed, requested, running, shown, asked, excused, told>>

\* The archive is opened; a storage that is not configured puts the row back.
Open(a) ==
    /\ drain.pc = "next" /\ a \in drain.todo
    /\ \/ drain' = [drain EXCEPT !.pc = "members", !.todo = @ \ {a}, !.archive = {a}]
       \/ drain' = [drain EXCEPT !.todo = @ \ {a}]
    /\ UNCHANGED <<changes, web, mailed, requested, running, shown, asked, excused, told>>

\* _ping: only a build that was really asked for opens the window; otherwise
\* what was deferred stays so and is tried again after a while.
Ping(label) ==
    \/ /\ Accepted
       /\ drain' = [drain EXCEPT !.pc = label, !.deferred = FALSE, !.since = 0]
       /\ UNCHANGED excused
    \/ /\ Refused
       /\ drain' = [drain EXCEPT !.pc = label, !.deferred = TRUE, !.retry = RetryAfter]
       /\ UNCHANGED excused

\* tick, before each member: a deferred ping goes out once the window has
\* passed.
TickMember ==
    /\ drain.pc = "members"
    /\ IF drain.deferred /\ WindowOpen /\ drain.retry = 0
       THEN Ping("member")
       ELSE /\ drain' = [drain EXCEPT !.pc = "member"]
            /\ UNCHANGED <<requested, asked, excused>>
    /\ UNCHANGED <<changes, web, mailed, running, shown, told>>

\* The member is ingested, or skipped, as a duplicate for one, or fails.
Member ==
    /\ drain.pc = "member"
    /\ \/ /\ Commit
          /\ drain' = [drain EXCEPT !.pc = "members", !.imported = changes + 1]
       \/ /\ drain' = [drain EXCEPT !.pc = "members"] /\ UNCHANGED changes
    /\ UNCHANGED <<web, mailed, requested, running, shown, asked, excused, told>>

\* archive_finished: nothing imported, nothing to show; outside the window a
\* ping, inside it a deferred one.
ArchiveFinishedLater ==                                         \* seeded fault
    /\ drain.pc = "members"
    /\ drain' = [drain EXCEPT !.pc = "mailing"]
    /\ UNCHANGED <<changes, web, mailed, requested, running, shown, asked, excused, told>>
ArchiveFinishedDropping ==                                      \* seeded fault
    /\ drain.pc = "members"
    /\ IF drain.imported > 0 /\ WindowOpen
       THEN Ping("mailing")
       ELSE /\ drain' = [drain EXCEPT !.pc = "mailing"]
            /\ UNCHANGED <<requested, asked, excused>>
    /\ UNCHANGED <<changes, web, mailed, running, shown, told>>
ArchiveFinished ==
    /\ drain.pc = "members"
    /\ IF drain.imported > 0 /\ WindowOpen
       THEN Ping("mailing")
       ELSE /\ drain' = [drain EXCEPT !.pc = "mailing", !.deferred = @ \/ drain.imported > 0]
            /\ UNCHANGED <<requested, asked, excused>>
    /\ UNCHANGED <<changes, web, mailed, running, shown, told>>

\* Its terminal status and e-mail come after; also those of an archive that
\* failed half-way.
MailArchive ==
    /\ drain.pc = "mailing"
    /\ mailed' = mailed \cup drain.archive
    /\ told' = Larger(told, drain.imported)
    /\ drain' = [drain EXCEPT !.pc = "next", !.archive = {}, !.imported = 0]
    /\ UNCHANGED <<changes, web, requested, running, shown, asked, excused>>

\* Changes that no accepted request covers and no pinger still holds.
Forgotten == asked + 1..changes

\* batch_finished: whatever is deferred goes out, window or not.
BatchEnd ==
    /\ drain.pc = "next" /\ drain.todo = {} /\ drain' = NoDrain
    /\ \/ ~drain.deferred /\ Refused /\ UNCHANGED excused
       \/ drain.deferred /\ Accepted /\ UNCHANGED excused
       \/ drain.deferred /\ Refused /\ Excuse(Forgotten)
    /\ UNCHANGED <<changes, web, mailed, running, shown, told>>

\* A killed drain takes what it had deferred with it.
Kill ==
    /\ drain.pc # "idle" /\ drain' = NoDrain
    /\ Excuse(IF drain.deferred \/ drain.imported > 0 THEN Forgotten ELSE {})
    /\ UNCHANGED <<changes, web, mailed, requested, running, shown, asked, told>>

-----------------------------------------------------------------------------
(* The builds and the schedule *)

Export ==
    /\ requested > 0 /\ requested' = requested - 1
    /\ running' = running \cup {changes}
    /\ UNCHANGED <<changes, web, drain, mailed, shown, asked, excused, told>>

PublishLast(n) ==                                               \* seeded fault
    /\ n \in running /\ running' = running \ {n} /\ shown' = n
    /\ UNCHANGED <<changes, web, drain, mailed, requested, asked, excused, told>>
\* The pointer only moves forward.
Publish(n) ==
    /\ n \in running /\ running' = running \ {n} /\ shown' = Larger(shown, n)
    /\ UNCHANGED <<changes, web, drain, mailed, requested, asked, excused, told>>

BuildDies(n) ==
    /\ n \in running /\ running' = running \ {n} /\ Excuse(1..n)
    /\ UNCHANGED <<changes, web, drain, mailed, requested, shown, asked, told>>

\* Cloud Scheduler, once a week.  A build of a map that is not behind changes
\* nothing here and is left out.
WeeklyWhenForgotten ==                                          \* seeded fault
    /\ asked < changes /\ requested = 0 /\ Accepted
    /\ UNCHANGED <<changes, web, drain, mailed, running, shown, excused, told>>
Weekly ==
    /\ shown < changes /\ requested = 0 /\ Accepted
    /\ UNCHANGED <<changes, web, drain, mailed, running, shown, excused, told>>

Tick ==
    /\ web' = [i \in Instances |-> [web[i] EXCEPT !.since = UpTo(@, Debounce)]]
    /\ drain' = [drain EXCEPT !.since = UpTo(@, Reping),
                              !.retry = IF @ = 0 THEN 0 ELSE @ - 1]
    /\ UNCHANGED <<changes, mailed, requested, running, shown, asked, excused, told>>

Web(i) ==
    \/ \E last \in BOOLEAN : UploadFile(i, last)
    \/ ChangeSport(i) \/ RemoveOrMerge(i)
    \/ TriggerDebounced(i) \/ TriggerDirect(i) \/ Restart(i)

Drain ==
    \/ BatchBegin \/ Member \/ TickMember \/ ArchiveFinished \/ MailArchive
    \/ BatchEnd \/ Kill
    \/ \E a \in Archives : Open(a)

Build == Export \/ \E n \in running : Publish(n) \/ BuildDies(n)

Next ==
    \/ \E i \in Instances : Web(i)
    \/ RemoveByWebhook \/ Drain \/ Build \/ Weekly \/ Tick

Spec == Init /\ [][Next]_vars

\* The schedule comes round, and a build that is asked for starts.  It may die,
\* but not every build dies.
FairSpec ==
    /\ Spec
    /\ WF_vars(Weekly) /\ WF_vars(Export)
    /\ \A n \in 0..MaxChanges : SF_vars(Publish(n))

-----------------------------------------------------------------------------
(* Properties *)

\* The state has its types; nothing is shown or asked for that is not there.
TypeOK ==
    /\ changes \in 0..MaxChanges
    /\ shown \in 0..changes /\ asked \in 0..changes /\ told \in 0..changes
    /\ web \in [Instances -> [pc : {"idle", "debounced", "direct"},
                              change : 0..MaxChanges, since : 0..Debounce]]
    /\ drain \in [pc : {"idle", "next", "members", "member", "mailing"},
                 todo : SUBSET Archives, archive : SUBSET Archives,
                 imported : 0..MaxChanges, deferred : BOOLEAN,
                 since : 0..Reping, retry : 0..RetryAfter]
    /\ drain.imported <= changes
    /\ mailed \subseteq Archives
    /\ requested \in 0..MaxRequests /\ running \subseteq 0..changes
    /\ excused \subseteq 1..changes

\* The map is behind only for a reason that was written down: with no request,
\* no drain and no build under way, a change that is not shown was suppressed
\* by the debounce, or its trigger was refused, or the process that was to ask
\* was killed, or it came from a source that never asks, or a build that had
\* exported it died: that excuses all the changes of this build, and a killed
\* drain all that no accepted request covers.  No deferred ping and no deletion
\* gets lost between the windows of the different processes.
StaleMapHasReason ==
    /\ \A i \in Instances : web[i].pc = "idle"
    /\ drain.pc = "idle" /\ requested = 0 /\ running = {}
    => shown + 1..changes \subseteq excused

\* A build that was accepted is worth its answer: whatever was committed before
\* is on the map, or on its way there in a build that waits for its export or has
\* exported it, unless that build died.  Builds that overlap and end in another
\* order, and changes committed between, take nothing back.
RequestsCarry ==
    \A n \in 1..asked :
        \/ n <= shown \/ n \in excused \/ requested > 0
        \/ \E m \in running : n <= m

\* The owner of an archive is told that it will be on the map only when a build
\* that shows it has been asked for, or its ping is deferred in a drain that is
\* still there to send it; unless the trigger was refused at the end of the batch
\* or the drain was killed.
TellsOnlyWhatIsAsked ==
    \/ told <= asked
    \/ drain.pc # "idle" /\ drain.deferred
    \/ told \in excused

\* Every change reaches the map in the end, whatever was suppressed, refused,
\* forgotten or killed.
EveryChangeIsShown == \A n \in 1..MaxChanges : changes >= n ~> shown >= n
=============================================================================
