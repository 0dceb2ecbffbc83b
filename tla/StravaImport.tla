---------------------------- MODULE StravaImport ----------------------------
(***************************************************************************)
(* One member's Strava imports: the import_jobs rows, the executions that  *)
(* work on them, and the rules by which an execution decides, from the     *)
(* rows alone, whether another one is still at work                        *)
(* (backend/app/jobs/import_strava.py, jobs/resync_strava.py,              *)
(* api/integrations_strava.py, api/internal_strava_health.py).             *)
(*                                                                         *)
(* A row is RUNNING from its insert on.  It is worked on by an execution   *)
(* of the Cloud Run job, by a background task of the web process when the  *)
(* job could not be started, or by both when the start was accepted and    *)
(* the answer lost; the resync job, started by hand, inserts and works on  *)
(* rows of its own.  Only the Cloud Run job queues.  An execution may die  *)
(* anywhere.                                                               *)
(*                                                                         *)
(* Time is counted in ticks.  A row carries the ticks since its creation   *)
(* and since its updated_at, which raw SQL leaves alone, each counted up   *)
(* to one more than the longest delay it is compared with.  The progress   *)
(* cursor, the counts and the notifications are left out.                  *)
(***************************************************************************)
EXTENDS Integers, FiniteSets

CONSTANTS
    Jobs,        \* import_jobs rows of one member
    LostStarts,  \* rows whose start may be accepted and its answer lost
    ZombieAge,   \* without an update for longer, a RUNNING row is ignored
    StaleAge,    \* older than this, a RUNNING row no longer blocks /import_all
    SweepAge,    \* without an update for longer, the daily check fails a row
    QueueWait,   \* how long an execution waits in the queue
    MaxPages     \* bound on the pages, and on the batches, of one import

ASSUME DelaysAssumption ==
    /\ ZombieAge \in Nat /\ StaleAge \in Nat /\ SweepAge \in Nat
    /\ QueueWait \in Nat \ {0}
ASSUME LostAssumption == LostStarts \subseteq Jobs
ASSUME PagesAssumption == MaxPages \in Nat

VARIABLES
    job,        \* job -> its row
    exec,       \* job, path -> the execution working on it
    misjudged   \* history: rows taken for dead, or worked on twice

vars == <<job, exec, misjudged>>

-----------------------------------------------------------------------------

Paths == {"cloud", "process", "resync"}
Executions == Jobs \X Paths
Cloud(j) == <<j, "cloud">>

\* "requested" is no row yet: /import_all has looked and found nothing RUNNING.
NoRow   == {"none", "requested"}
Settled == {"COMPLETED", "FAILED"}

Queueing  == {"starting", "queueing", "waiting"}
Importing == {"claiming", "claimed", "discovering", "ingesting"}
Live      == Queueing \cup Importing \cup {"polishing"}

Absent == [pc |-> "none", seen |-> "none", waited |-> 0, page |-> 0]

Running == {j \in Jobs : job[j].status = "RUNNING"}

UpTo(n, bound) == IF n < bound THEN n + 1 ELSE n

\* Enter forgets what the earlier part of the execution kept.
Goto(x, label) == exec' = [exec EXCEPT ![x].pc = label]
Enter(x, label) == exec' = [exec EXCEPT ![x] = [Absent EXCEPT !.pc = label]]

\* An ORM write stamps updated_at; raw SQL does not.
Touch(j) == job' = [job EXCEPT ![j].idle = 0]
Settle(j, status) == job' = [job EXCEPT ![j].status = status, ![j].idle = 0]
SettleRaw(j, status) == job' = [job EXCEPT ![j].status = status]

FailAll(rows) ==
    job' = [j \in Jobs |->
              IF j \in rows THEN [job[j] EXCEPT !.status = "FAILED", !.idle = 0]
                            ELSE job[j]]

Init ==
    /\ job = [j \in Jobs |-> [status |-> "none", age |-> 0, idle |-> 0]]
    /\ exec = [x \in Executions |-> Absent]
    /\ misjudged = {}

-----------------------------------------------------------------------------
(* The requests *)

\* /import_all returns the RUNNING import it finds, or gives up on an old one.
Check(j) ==
    /\ job[j].status = "none"
    /\ \/ /\ Running = {}
          /\ job' = [job EXCEPT ![j].status = "requested"]
          /\ UNCHANGED misjudged
       \/ \E k \in Running :
            /\ job[k].age > StaleAge
            /\ job' = [job EXCEPT ![j].status = "requested",
                                  ![k].status = "FAILED", ![k].idle = 0]
            /\ misjudged' = misjudged \cup {k}
    /\ UNCHANGED exec

\* A start whose answer was lost is tried again in the web process.
Dispatch(j) ==
    \E paths \in {{"cloud"}, {"process"}, {"cloud", "process"}} :
        /\ Cardinality(paths) = 2 => j \in LostStarts
        /\ exec' = [x \in Executions |->
                      IF x[1] = j /\ x[2] \in paths
                      THEN [Absent EXCEPT !.pc = "starting"] ELSE exec[x]]
        /\ misjudged' = IF paths = {"cloud", "process"}
                        THEN misjudged \cup {j} ELSE misjudged

Insert(j) ==
    job' = [job EXCEPT ![j] = [status |-> "RUNNING", age |-> 0, idle |-> 0]]

ImportAll(j) == job[j].status = "requested" /\ Insert(j) /\ Dispatch(j)

\* /resync asks for nothing before it inserts.
Resync(j) == job[j].status = "none" /\ Insert(j) /\ Dispatch(j)

\* One resync job at a time, under an advisory lock its death releases.
ResyncJob(j) ==
    /\ job[j].status = "none"
    /\ \A k \in Jobs : exec[<<k, "resync">>].pc \notin Live
    /\ Insert(j)
    /\ exec' = [exec EXCEPT ![<<j, "resync">>] = [Absent EXCEPT !.pc = "discovering"]]
    /\ UNCHANGED misjudged

-----------------------------------------------------------------------------
(* The queue of the Cloud Run job *)

OthersRunning(j) == Running \ {j}

Zombies(rows) == {k \in rows : job[k].idle > ZombieAge}

CloudStart(j) ==
    LET zombies == Zombies(OthersRunning(j)) IN
    /\ exec[Cloud(j)].pc = "starting"
    /\ FailAll(zombies)
    /\ exec' = [exec EXCEPT ![Cloud(j)].pc = "queueing",
                            ![Cloud(j)].seen = job[j].status]
    /\ misjudged' = misjudged \cup zombies

NeverBlocked(j) == Jobs = {}                                      \* seeded fault
Blocked(j) == OthersRunning(j) \ Zombies(OthersRunning(j)) # {}

QueueHidden(j) ==                                                 \* seeded fault
    /\ exec[Cloud(j)].pc = "queueing"
    /\ Blocked(j)
    /\ job' = [job EXCEPT ![j].status = "requested"]
    /\ exec' = [exec EXCEPT ![Cloud(j)].pc = "waiting",
                            ![Cloud(j)].seen = "none"]
    /\ UNCHANGED misjudged

\* The first look that finds the queue busy writes "queued"; no later one does.
Queue(j) ==
    /\ exec[Cloud(j)].pc = "queueing"
    /\ Blocked(j)
    /\ Touch(j)
    /\ exec' = [exec EXCEPT ![Cloud(j)].pc = "waiting",
                            ![Cloud(j)].seen = "none"]
    /\ UNCHANGED misjudged

\* A look after a wait loads the row anew.
Pass(j) ==
    /\ exec[Cloud(j)].pc \in {"queueing", "waiting"}
    /\ exec[Cloud(j)].waited < QueueWait
    /\ ~Blocked(j)
    /\ exec' = [exec EXCEPT ![Cloud(j)].pc = "claiming",
                            ![Cloud(j)].seen = IF exec[Cloud(j)].pc = "waiting"
                                               THEN job[j].status ELSE @]
    /\ misjudged' = misjudged \cup Zombies(OthersRunning(j))
    /\ UNCHANGED job

QueueTimeoutGoesOn(j) ==                                          \* seeded fault
    /\ exec[Cloud(j)].pc = "waiting"
    /\ exec[Cloud(j)].waited >= QueueWait
    /\ Settle(j, "FAILED")
    /\ Goto(Cloud(j), "claiming")
    /\ UNCHANGED misjudged
QueueTimeout(j) ==
    /\ exec[Cloud(j)].pc = "waiting"
    /\ exec[Cloud(j)].waited >= QueueWait
    /\ Settle(j, "FAILED")
    /\ Enter(Cloud(j), "ended")
    /\ UNCHANGED misjudged

\* Writing the value the session has loaded issues no UPDATE.
Claim(j) ==
    /\ exec[Cloud(j)].pc = "claiming"
    /\ IF exec[Cloud(j)].seen = "RUNNING" THEN job' = job ELSE Settle(j, "RUNNING")
    /\ Enter(Cloud(j), "claimed")
    /\ UNCHANGED misjudged

\* No account, or no token: the import fails.
Authorize(j) ==
    /\ exec[Cloud(j)].pc = "claimed"
    /\ \/ Touch(j) /\ Goto(Cloud(j), "discovering")
       \/ Settle(j, "FAILED") /\ Enter(Cloud(j), "ended")
    /\ UNCHANGED misjudged

\* The background task of the web process neither cleans up nor queues.
ProcessStart(j) ==
    /\ exec[<<j, "process">>].pc = "starting"
    /\ Touch(j)
    /\ Goto(<<j, "process">>, "discovering")
    /\ UNCHANGED misjudged

-----------------------------------------------------------------------------
(* The import, on any path.  A rate limit is a pause: nothing is written. *)

Page(x) ==
    /\ exec[x].pc = "discovering"
    /\ exec[x].page < MaxPages
    /\ Touch(x[1])
    /\ exec' = [exec EXCEPT ![x].page = @ + 1]
    /\ UNCHANGED misjudged

UnauthorizedSilent(x) ==                                          \* seeded fault
    /\ exec[x].pc = "discovering"
    /\ Enter(x, "ended")
    /\ UNCHANGED <<job, misjudged>>

Unauthorized(x) ==
    /\ exec[x].pc = "discovering"
    /\ Settle(x[1], "FAILED")
    /\ Enter(x, "ended")
    /\ UNCHANGED misjudged

\* The last page, an empty one, or any other error ends the discovery.
LastPage(x) ==
    /\ exec[x].pc = "discovering"
    /\ IF x[2] = "resync" THEN job' = job ELSE Touch(x[1])
    /\ Enter(x, "ingesting")
    /\ UNCHANGED misjudged

Ingested(x) ==
    /\ exec[x].pc = "ingesting"
    /\ IF x[2] = "cloud" THEN SettleRaw(x[1], "COMPLETED") ELSE Settle(x[1], "COMPLETED")
    /\ Enter(x, IF x[2] = "resync" THEN "ended" ELSE "polishing")
    /\ UNCHANGED misjudged

\* The GPS upgrade and the photos: phase markers and batch counters.
Polish(x) ==
    /\ exec[x].pc = "polishing"
    /\ exec[x].page < MaxPages
    /\ Touch(x[1])
    /\ exec' = [exec EXCEPT ![x].page = @ + 1]
    /\ UNCHANGED misjudged

Finish(x) ==
    /\ exec[x].pc = "polishing"
    /\ IF x[2] = "cloud" THEN SettleRaw(x[1], "COMPLETED") ELSE Touch(x[1])
    /\ Enter(x, "ended")
    /\ UNCHANGED misjudged

\* The outer handler: whatever was reported before, the import has failed.
Fail(x) ==
    /\ exec[x].pc \in {"discovering", "ingesting", "polishing"}
    /\ Settle(x[1], "FAILED")
    /\ Enter(x, "ended")
    /\ UNCHANGED misjudged

Die(x) ==
    /\ exec[x].pc \in Live
    /\ Enter(x, "dead")
    /\ UNCHANGED <<job, misjudged>>

-----------------------------------------------------------------------------
(* The daily check, and time *)

OverdueOfNobody ==                                                \* seeded fault
    {j \in Running : job[j].idle > SweepAge /\ \A p \in Paths : exec[<<j, p>>].pc \notin Live}
Overdue == {j \in Running : job[j].idle > SweepAge}

Sweep ==
    /\ Overdue # {}
    /\ FailAll(Overdue)
    /\ misjudged' = misjudged \cup Overdue
    /\ UNCHANGED exec

Tick ==
    /\ job' = [j \in Jobs |->
                 IF job[j].status \in NoRow THEN job[j]
                 ELSE [job[j] EXCEPT !.age = UpTo(@, StaleAge + 1),
                                     !.idle = UpTo(@, SweepAge + 1)]]
    /\ exec' = [x \in Executions |->
                  IF exec[x].pc = "waiting"
                  THEN [exec[x] EXCEPT !.waited = UpTo(@, QueueWait)] ELSE exec[x]]
    /\ UNCHANGED misjudged

-----------------------------------------------------------------------------

Request(j) == Check(j) \/ ImportAll(j) \/ Resync(j) \/ ResyncJob(j)

QueueStep(j) ==
    \/ CloudStart(j) \/ Queue(j) \/ Pass(j) \/ QueueTimeout(j)
    \/ Claim(j) \/ Authorize(j) \/ ProcessStart(j)

Work(x) ==
    \/ Page(x) \/ Unauthorized(x) \/ LastPage(x) \/ Ingested(x)
    \/ Polish(x) \/ Finish(x) \/ Fail(x)

Next ==
    \/ \E j \in Jobs : Request(j) \/ QueueStep(j)
    \/ \E x \in Executions : Work(x) \/ Die(x)
    \/ Sweep
    \/ Tick

Spec == Init /\ [][Next]_vars

\* The clock and the scheduler run.  Nothing is asked of an execution: it may
\* hang on Strava's rate limit, or wait in the queue, as long as it likes.
Fairness == WF_vars(Tick) /\ WF_vars(Sweep)

FairSpec == Spec /\ Fairness

-----------------------------------------------------------------------------
(* Properties *)

\* Rows and executions have the shapes the code gives them.
TypeOK ==
    /\ job \in [Jobs -> [status: NoRow \cup {"RUNNING"} \cup Settled,
                         age: 0 .. StaleAge + 1, idle: 0 .. SweepAge + 1]]
    /\ exec \in [Executions -> [pc: Live \cup {"none", "ended", "dead"},
                                seen: NoRow \cup {"RUNNING"} \cup Settled,
                                waited: 0 .. QueueWait, page: 0 .. MaxPages]]
    /\ misjudged \in SUBSET Jobs

\* The queue serialises: two Cloud Run executions are past it and not yet
\* done with their import only if one of the rows had been taken for dead
\* (no update for too long, too old) or had a second execution.
SerialUnlessMisjudged ==
    \A j, k \in Jobs :
        /\ j # k
        /\ exec[Cloud(j)].pc \in Importing
        /\ exec[Cloud(k)].pc \in Importing
        => j \in misjudged \/ k \in misjudged

\* No import is left hanging by an execution that ended of its own accord:
\* a RUNNING row has an execution at work, or one that died.  Two executions
\* of one row, of which one claims it after the other has settled it, included.
RunningHasExecution ==
    \A j \in Running : \E p \in Paths : exec[<<j, p>>].pc \in Live \cup {"dead"}

\* A row nobody took for dead speaks for its execution: as long as the only
\* execution queues or imports, the row is RUNNING for the others to see.
RowSpeaksForExecution ==
    \A j \in Jobs :
        /\ j \notin misjudged
        /\ exec[Cloud(j)].pc \in Queueing \cup Importing
        => job[j].status = "RUNNING"

\* What the member is told stands: an import nobody took for dead is settled
\* once.  It does not run again, one reported FAILED is not reported COMPLETED
\* afterwards, and a COMPLETED one is taken back only by its own execution, when
\* the GPS upgrade or the photos fail.
ReportStands ==
    [][\A j \in Jobs \ misjudged :
         job[j].status \in Settled /\ job'[j].status # job[j].status
           => /\ job'[j].status = "FAILED"
              /\ \E p \in Paths : exec[<<j, p>>].pc = "polishing"]_vars

\* No import is RUNNING for ever, whatever dies or hangs.
EveryImportSettles == \A j \in Jobs : job[j].status = "RUNNING" ~> job[j].status # "RUNNING"

\* What the code says of its queue and does not keep: "serialize imports
\* per-user".
OneImportAtATime ==
    \A j, k \in Jobs :
        /\ exec[Cloud(j)].pc \in Importing
        /\ exec[Cloud(k)].pc \in Importing
        => j = k

=============================================================================
