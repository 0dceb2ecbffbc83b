--------------------------- MODULE ArchivePipeline ---------------------------
(***************************************************************************)
(* The life of a whole Strava/Garmin archive: the pending_archives table,  *)
(* the HTTP handlers that open and reopen its rows (api/imports.py,        *)
(* api/admin.py) and the Cloud Run drain job that claims, ingests,         *)
(* finishes and reaps them (jobs/ingest_pending_archives.py).              *)
(*                                                                         *)
(* Handlers read a row, talk to the object store and write the row back in *)
(* separate steps; drain executions run concurrently and may be killed     *)
(* between any two steps.  Time is measured in ticks since a row's         *)
(* updated_at (age) and since the start of an execution (run).             *)
(***************************************************************************)
EXTENDS Naturals, FiniteSets

CONSTANTS
    Archives,          \* row ids, in created_at order: 1 .. n
    Workers,           \* drain executions that may be alive together
    Requests,          \* HTTP requests that may be in flight together
    Members,           \* ingestible members of an archive
    Contents,          \* what a PUT may leave in storage
    Faults,            \* what may go wrong: a subset of FaultKinds
    ClaimLimit,        \* --archive-limit
    MaxDrainAttempts,  \* _MAX_DRAIN_ATTEMPTS
    StuckAfter,        \* _STUCK_PROCESSING_HOURS, in ticks
    AwaitingTTL,       \* _AWAITING_UPLOAD_TTL_HOURS, in ticks
    KillAfter,         \* --task-timeout of the job, in ticks
    MaxActs            \* bound: client and admin interventions in a behaviour

ASSUME ArchivesAssumption == Archives \subseteq Nat
ASSUME LimitsAssumption ==
    /\ MaxDrainAttempts \in Nat \ {0}
    /\ ClaimLimit \in Nat \ {0}
    /\ MaxActs \in Nat
ASSUME TimesAssumption ==
    /\ StuckAfter \in Nat /\ AwaitingTTL \in Nat /\ KillAfter \in Nat
    /\ KillAfter <= StuckAfter
ASSUME ContentsAssumption == Contents \subseteq {"good", "bomb", "oversize"}

(* "kill": timeout, OOM or eviction of an execution; "db": an UPDATE of the *)
(* job fails; "web": a web instance dies in a request; "config": the job's  *)
(* environment loses UPLOADS_BUCKET.                                        *)
FaultKinds == {"kill", "db", "web", "config"}
ASSUME FaultsAssumption == Faults \subseteq FaultKinds

VARIABLES
    (* the pending_archives table *)
    status, attempts, age, lost,
    (* the bucket and the activities table *)
    object, stored,
    (* the environment: is UPLOADS_BUCKET set, interventions so far *)
    storageOk, acts,
    (* requests in flight *)
    request,
    (* drain executions *)
    pc, run, batch, first, todo, bad, zip, free, moved,
    (* history *)
    startMails, blamed, disturbed, rejected

rowVars     == <<status, attempts, age, lost>>
dataVars    == <<object, stored>>
envVars     == <<storageOk, acts>>
memberVars  == <<todo, bad, zip>>
workerVars  == <<pc, run, batch, first, todo, bad, zip, free, moved>>
historyVars == <<startMails, blamed, disturbed, rejected>>
vars == <<rowVars, dataVars, envVars, request, workerVars, historyVars>>

-----------------------------------------------------------------------------
(* Types *)

Open     == {"awaiting_upload", "uploaded", "processing"}
Terminal == {"done", "failed"}
Status   == {"none"} \cup Open \cup Terminal
Aging    == {"awaiting_upload", "processing"}   \* statuses whose age a guard reads

AgeCap == StuckAfter + AwaitingTTL + 1
Object == {"none", "good", "bomb", "oversize"}

Idle == [op |-> "idle"]
Call == [op: {"accept", "reject", "requeue"}, arch: Archives, seen: Status]
        \cup [op: {"delete"}, arch: Archives]

Phase == {"idle", "sweep", "free", "open", "members", "mail"}

TypeOK ==
    /\ status \in [Archives -> Status]
    /\ attempts \in [Archives -> 0..MaxDrainAttempts]
    /\ age \in [Archives -> 0..AgeCap]
    /\ lost \in [Archives -> SUBSET Members]
    /\ object \in [Archives -> Object]
    /\ stored \in [Archives -> SUBSET Members]
    /\ storageOk \in BOOLEAN
    /\ acts \in 0..MaxActs
    /\ request \in [Requests -> Call \cup {Idle}]
    /\ pc \in [Workers -> Phase]
    /\ run \in [Workers -> 0..KillAfter]
    /\ batch \in [Workers -> SUBSET Archives]
    /\ first \in [Workers -> SUBSET Archives]
    /\ todo \in [Workers -> SUBSET Members]
    /\ bad \in [Workers -> SUBSET Members]
    /\ zip \in [Workers -> Object]
    /\ free \in [Workers -> SUBSET Archives]
    /\ moved \in [Workers -> BOOLEAN]
    /\ startMails \in [Archives -> 0..2]
    /\ blamed \in [Archives -> BOOLEAN]
    /\ disturbed \in [Archives -> BOOLEAN]
    /\ rejected \in [Archives -> BOOLEAN]

Init ==
    /\ status = [a \in Archives |-> "none"]
    /\ attempts = [a \in Archives |-> 0]
    /\ age = [a \in Archives |-> 0]
    /\ lost = [a \in Archives |-> {}]
    /\ object = [a \in Archives |-> "none"]
    /\ stored = [a \in Archives |-> {}]
    /\ storageOk = TRUE
    /\ acts = 0
    /\ request = [r \in Requests |-> Idle]
    /\ pc = [w \in Workers |-> "idle"]
    /\ run = [w \in Workers |-> 0]
    /\ batch = [w \in Workers |-> {}]
    /\ first = [w \in Workers |-> {}]
    /\ todo = [w \in Workers |-> {}]
    /\ bad = [w \in Workers |-> {}]
    /\ zip = [w \in Workers |-> "none"]
    /\ free = [w \in Workers |-> {}]
    /\ moved = [w \in Workers |-> FALSE]
    /\ startMails = [a \in Archives |-> 0]
    /\ blamed = [a \in Archives |-> FALSE]
    /\ disturbed = [a \in Archives |-> FALSE]
    /\ rejected = [a \in Archives |-> FALSE]

-----------------------------------------------------------------------------
(* State functions *)

(* The drain w still has archive a to work on: claimed by it, no terminal  *)
(* transition made by it yet.                                              *)
Holds(w, a) == a \in batch[w]
Held(a) == \E w \in Workers : Holds(w, a)

(* A 'processing' row untouched for more than StuckAfter: its job is taken *)
(* to be dead.                                                             *)
Stale(a) == status[a] = "processing" /\ age[a] > StuckAfter

DrainableAtAnyAge(a) ==                                             \* seeded fault
    \/ status[a] = "uploaded"
    \/ status[a] = "processing" /\ attempts[a] < MaxDrainAttempts

Drainable(a) ==
    \/ status[a] = "uploaded"
    \/ Stale(a) /\ attempts[a] < MaxDrainAttempts

ExhaustedAtAnyAge(a) ==                                             \* seeded fault
    status[a] = "processing" /\ attempts[a] >= MaxDrainAttempts

ExhaustedOffByOne(a) == Stale(a) /\ attempts[a] > MaxDrainAttempts     \* seeded fault

Exhausted(a) == Stale(a) /\ attempts[a] >= MaxDrainAttempts

Abandoned(a) == status[a] = "awaiting_upload" /\ age[a] > AwaitingTTL

(* Archives are drained oldest first. *)
Current(w, a) == a \in batch[w] /\ \A b \in batch[w] : a <= b

(* UPDATE pending_archives SET status = s, updated_at = now() WHERE id = a *)
SetStatus(a, s) ==
    /\ status' = [status EXCEPT ![a] = s]
    /\ age' = [age EXCEPT ![a] = 0]

(* A handler rewrote the row while a drain was holding the archive. *)
NoteDisturbance(a) ==
    disturbed' = [disturbed EXCEPT ![a] = @ \/ Held(a)]

(* Drain w lets the archives As go: with no holder left, nothing is disturbed. *)
LetGo(w, As) ==
    disturbed' = [a \in Archives |-> disturbed[a]
                     /\ (a \in As => \E v \in Workers \ {w} : Holds(v, a))]

Act == acts < MaxActs /\ acts' = acts + 1

-----------------------------------------------------------------------------
(* The browser and the object store *)

(* POST /imports/strava-archive/init: the row appears in 'awaiting_upload'. *)
(* Admission (quotas) is not modelled.                                      *)
NewArchive(a) ==
    /\ status[a] = "none"
    /\ \A b \in Archives : b < a => status[b] # "none"
    /\ SetStatus(a, "awaiting_upload")
    /\ UNCHANGED <<attempts, lost, dataVars, envVars, request, workerVars,
                   historyVars>>

(* init with reuse_archive_id: same row, fresh lease against the reaper. *)
ReuseArchive(a) ==
    /\ status[a] = "awaiting_upload"
    /\ Act
    /\ age' = [age EXCEPT ![a] = 0]
    /\ UNCHANGED <<status, attempts, lost, dataVars, storageOk, request,
                   workerVars, historyVars>>

(* A PUT through the signed URL lands; the URL binds the key, not the bytes. *)
Upload(a, content) ==
    /\ status[a] # "none"
    /\ Act
    /\ object' = [object EXCEPT ![a] = content]
    /\ UNCHANGED <<rowVars, stored, storageOk, request, workerVars,
                   historyVars>>

-----------------------------------------------------------------------------
(* POST /imports/strava-archive/complete: read the row, look at the object, *)
(* write the row.  The status read is never compared with anything.         *)

CompleteRead(r, a) ==
    /\ request[r] = Idle
    /\ status[a] # "none"
    /\ object[a] # "none"
    /\ Act
    /\ request' = [request EXCEPT ![r] =
           [op   |-> IF object[a] = "oversize" THEN "reject" ELSE "accept",
            arch |-> a, seen |-> status[a]]]
    /\ UNCHANGED <<rowVars, dataVars, storageOk, workerVars, historyVars>>

(* row.status = "uploaded": the ORM emits an UPDATE only when the value     *)
(* differs from the one this session loaded.                                *)
CompleteCommit(r) ==
    /\ request[r].op = "accept"
    /\ LET a == request[r].arch IN
         IF request[r].seen = "uploaded"
         THEN UNCHANGED <<status, age, disturbed>>
         ELSE SetStatus(a, "uploaded") /\ NoteDisturbance(a)
    /\ request' = [request EXCEPT ![r] = Idle]
    /\ UNCHANGED <<attempts, lost, dataVars, envVars, workerVars,
                   startMails, blamed, rejected>>

(* Oversize: fail the row, commit, and only then free the object. *)
RejectCommit(r) ==
    /\ request[r].op = "reject"
    /\ LET a == request[r].arch IN
         /\ status' = [status EXCEPT ![a] =
                          IF request[r].seen = "failed" THEN @ ELSE "failed"]
         /\ age' = [age EXCEPT ![a] = 0]
         /\ NoteDisturbance(a)
         /\ request' = [request EXCEPT ![r] = [op |-> "delete", arch |-> a]]
    /\ UNCHANGED <<attempts, lost, dataVars, envVars, workerVars,
                   startMails, blamed, rejected>>

RejectDelete(r) ==
    /\ request[r].op = "delete"
    /\ object' = [object EXCEPT ![request[r].arch] = "none"]
    /\ request' = [request EXCEPT ![r] = Idle]
    /\ UNCHANGED <<rowVars, stored, envVars, workerVars, historyVars>>

-----------------------------------------------------------------------------
(* POST /admin/archives/{id}/requeue: only a failed or stranded row.        *)

RequeueRead(r, a) ==
    /\ request[r] = Idle
    /\ status[a] = "failed" \/ Stale(a)
    /\ Act
    /\ request' = [request EXCEPT ![r] =
                      [op |-> "requeue", arch |-> a, seen |-> status[a]]]
    /\ UNCHANGED <<rowVars, dataVars, storageOk, workerVars, historyVars>>

RequeueCommit(r) ==
    /\ request[r].op = "requeue"
    /\ LET a == request[r].arch IN
         /\ SetStatus(a, "uploaded")
         /\ NoteDisturbance(a)
         /\ rejected' = [rejected EXCEPT ![a] = FALSE]
    /\ request' = [request EXCEPT ![r] = Idle]
    /\ UNCHANGED <<attempts, lost, dataVars, envVars, workerVars,
                   startMails, blamed>>

(* The web instance dies: the request's session is rolled back. *)
RequestLost(r) ==
    /\ "web" \in Faults
    /\ request[r] # Idle
    /\ request' = [request EXCEPT ![r] = Idle]
    /\ UNCHANGED <<rowVars, dataVars, envVars, workerVars, historyVars>>

-----------------------------------------------------------------------------
(* The drain job: reap, sweep, free, claim *)

(* First half of _reap_stuck_archives: one UPDATE over the table. *)
ReapStuck(w) ==
    /\ pc[w] = "idle"
    /\ pc' = [pc EXCEPT ![w] = "sweep"]
    /\ status' = [a \in Archives |-> IF Exhausted(a) THEN "failed" ELSE status[a]]
    /\ age' = [a \in Archives |-> IF Exhausted(a) THEN 0 ELSE age[a]]
    /\ UNCHANGED <<attempts, lost, dataVars, envVars, request, run, batch,
                   first, memberVars, free, moved, historyVars>>

(* Second half: fail the abandoned rows, remember their objects. *)
SweepAbandoned(w) ==
    /\ pc[w] = "sweep"
    /\ pc' = [pc EXCEPT ![w] = "free"]
    /\ status' = [a \in Archives |-> IF Abandoned(a) THEN "failed" ELSE status[a]]
    /\ age' = [a \in Archives |-> IF Abandoned(a) THEN 0 ELSE age[a]]
    /\ free' = [free EXCEPT ![w] = {a \in Archives : Abandoned(a)}]
    /\ UNCHANGED <<attempts, lost, dataVars, envVars, request, run, batch,
                   first, memberVars, moved, historyVars>>

(* ... and delete them one by one, after the commit. *)
FreeObject(w, a) ==
    /\ pc[w] = "free"
    /\ a \in free[w]
    /\ object' = [object EXCEPT ![a] = "none"]
    /\ free' = [free EXCEPT ![w] = @ \ {a}]
    /\ UNCHANGED <<rowVars, stored, envVars, request, pc, run, batch, first,
                   memberVars, moved, historyVars>>

(* The UPDATEs of _reap_stuck_archives may fail: it never blocks the drain. *)
ReapFails(w) ==
    /\ "db" \in Faults
    /\ pc[w] \in {"idle", "sweep"}
    /\ pc' = [pc EXCEPT ![w] = IF pc[w] = "idle" THEN "sweep" ELSE "free"]
    /\ UNCHANGED <<rowVars, dataVars, envVars, request, run, batch, first,
                   memberVars, free, moved, historyVars>>

(* _claim_archives: the oldest drainable rows, all marked in one go. *)
Claim(w) ==
    /\ pc[w] = "free" /\ free[w] = {}
    /\ \E B \in SUBSET {a \in Archives : Drainable(a)} :
         /\ Cardinality(B) <= ClaimLimit
         /\ Cardinality(B) < ClaimLimit => \A a \in Archives : Drainable(a) => a \in B
         /\ \A a \in B, b \in Archives : Drainable(b) /\ b < a => b \in B
         /\ status' = [a \in Archives |-> IF a \in B THEN "processing" ELSE status[a]]
         /\ attempts' = [a \in Archives |->
                IF a \in B /\ attempts[a] < MaxDrainAttempts
                THEN attempts[a] + 1 ELSE attempts[a]]
         /\ age' = [a \in Archives |-> IF a \in B THEN 0 ELSE age[a]]
         /\ batch' = [batch EXCEPT ![w] = B]
         /\ first' = [first EXCEPT ![w] = {a \in B : attempts[a] = 0}]
         /\ pc' = [pc EXCEPT ![w] = IF B = {} THEN "idle" ELSE "open"]
         /\ run' = [run EXCEPT ![w] = IF B = {} THEN 0 ELSE @]
    /\ UNCHANGED <<lost, dataVars, envVars, request, memberVars, free, moved,
                   historyVars>>

-----------------------------------------------------------------------------
(* The drain job: one archive after the other *)

(* After archive a, the next of the batch; after the last, the job ends. *)
Advance(w, a) ==
    /\ batch' = [batch EXCEPT ![w] = @ \ {a}]
    /\ first' = [first EXCEPT ![w] = @ \ {a}]
    /\ pc' = [pc EXCEPT ![w] = IF batch[w] = {a} THEN "idle" ELSE "open"]
    /\ run' = [run EXCEPT ![w] = IF batch[w] = {a} THEN 0 ELSE @]
    /\ todo' = [todo EXCEPT ![w] = {}]
    /\ bad' = [bad EXCEPT ![w] = {}]
    /\ zip' = [zip EXCEPT ![w] = "none"]
    /\ LetGo(w, {a})

StartMailAtEveryOpen(w, a) ==                                       \* seeded fault
    startMails' = [startMails EXCEPT ![a] = IF @ < 2 THEN @ + 1 ELSE @]

(* if newly_started: _notify_archive_started; the claim decided that. *)
StartMail(w, a) ==
    startMails' = [startMails EXCEPT ![a] =
                      IF a \in first[w] /\ @ < 2 THEN @ + 1 ELSE @]

(* Size guard, download, start e-mail on the first claim. *)
OpenArchive(w, a) ==
    /\ pc[w] = "open" /\ Current(w, a)
    /\ storageOk
    /\ object[a] \in {"good", "bomb"}
    /\ pc' = [pc EXCEPT ![w] = "members"]
    /\ zip' = [zip EXCEPT ![w] = object[a]]
    /\ todo' = [todo EXCEPT ![w] = Members]
    /\ bad' = [bad EXCEPT ![w] = {}]
    /\ first' = [first EXCEPT ![w] = @ \ {a}]
    /\ StartMail(w, a)
    /\ UNCHANGED <<rowVars, dataVars, envVars, request, run, batch, free,
                   moved, blamed, disturbed, rejected>>

(* StorageConfigError: the row goes back to 'uploaded', its attempt spent. *)
ConfigReset(w, a) ==
    /\ pc[w] = "open" /\ Current(w, a)
    /\ ~storageOk
    /\ SetStatus(a, "uploaded")
    /\ Advance(w, a)
    /\ UNCHANGED <<attempts, lost, dataVars, envVars, request, free, moved,
                   startMails, blamed, rejected>>

(* One member: ingested (or already there: file_hash dedup) or failed. *)
IngestMember(w, a, m) ==
    /\ pc[w] = "members" /\ Current(w, a)
    /\ m \in todo[w]
    /\ todo' = [todo EXCEPT ![w] = @ \ {m}]
    /\ \/ stored' = [stored EXCEPT ![a] = @ \cup {m}] /\ UNCHANGED bad
       \/ bad' = [bad EXCEPT ![w] = @ \cup {m}] /\ UNCHANGED stored
    /\ UNCHANGED <<rowVars, object, envVars, request, pc, run, batch, first,
                   zip, free, moved, historyVars>>

(* _finish_archive: an unconditional UPDATE by id, then the e-mail. *)
Finish(w, a, outcome) ==
    /\ SetStatus(a, outcome)
    /\ lost' = [lost EXCEPT ![a] = bad[w]]
    /\ moved' = [moved EXCEPT ![w] = status[a] \notin Terminal]
    /\ batch' = [batch EXCEPT ![w] = @ \ {a}]
    /\ first' = [first EXCEPT ![w] = @ \ {a}]
    /\ pc' = [pc EXCEPT ![w] = "mail"]
    /\ todo' = [todo EXCEPT ![w] = {}]
    /\ bad' = [bad EXCEPT ![w] = {}]
    /\ zip' = [zip EXCEPT ![w] = "none"]
    /\ LetGo(w, {a})

FinishDoneEarly(w, a) ==                                            \* seeded fault
    /\ pc[w] = "members" /\ Current(w, a)
    /\ zip[w] = "good"
    /\ Finish(w, a, "done")
    /\ UNCHANGED <<attempts, dataVars, envVars, request, run, free,
                   startMails, blamed, rejected>>

FinishDone(w, a) ==
    /\ pc[w] = "members" /\ Current(w, a)
    /\ todo[w] = {} /\ zip[w] = "good"
    /\ Finish(w, a, "done")
    /\ UNCHANGED <<attempts, dataVars, envVars, request, run, free,
                   startMails, blamed, rejected>>

(* Any exception of the archive: missing or oversize object, corrupt zip,   *)
(* zip bomb, database or storage error at any point of the loop.            *)
FinishFailed(w, a) ==
    /\ pc[w] \in {"open", "members"} /\ Current(w, a)
    /\ pc[w] = "open" => storageOk
    /\ Finish(w, a, "failed")
    /\ rejected' = [rejected EXCEPT ![a] = @ \/ zip[w] = "bomb"]
    /\ UNCHANGED <<attempts, dataVars, envVars, request, run, free,
                   startMails, blamed>>

(* The terminal UPDATE (or the reset) itself fails: logged, the row keeps   *)
(* its status, the drain goes on with the next archive.                     *)
FinishLost(w, a) ==
    /\ "db" \in Faults
    /\ pc[w] \in {"open", "members"} /\ Current(w, a)
    /\ Advance(w, a)
    /\ UNCHANGED <<rowVars, dataVars, envVars, request, free, moved,
                   startMails, blamed, rejected>>

MailTerminal(w) ==
    /\ pc[w] = "mail"
    /\ pc' = [pc EXCEPT ![w] = IF batch[w] = {} THEN "idle" ELSE "open"]
    /\ run' = [run EXCEPT ![w] = IF batch[w] = {} THEN 0 ELSE @]
    /\ moved' = [moved EXCEPT ![w] = FALSE]
    /\ UNCHANGED <<rowVars, dataVars, envVars, request, batch, first,
                   memberVars, free, historyVars>>

-----------------------------------------------------------------------------
(* The environment *)

(* Task timeout, OOM, eviction: no handler runs, the rows stay as they are. *)
Kill(w) ==
    /\ "kill" \in Faults \/ run[w] = KillAfter
    /\ pc[w] # "idle"
    /\ pc' = [pc EXCEPT ![w] = "idle"]
    /\ run' = [run EXCEPT ![w] = 0]
    /\ batch' = [batch EXCEPT ![w] = {}]
    /\ first' = [first EXCEPT ![w] = {}]
    /\ todo' = [todo EXCEPT ![w] = {}]
    /\ bad' = [bad EXCEPT ![w] = {}]
    /\ zip' = [zip EXCEPT ![w] = "none"]
    /\ free' = [free EXCEPT ![w] = {}]
    /\ moved' = [moved EXCEPT ![w] = FALSE]
    /\ blamed' = [a \in Archives |-> blamed[a] \/ (Current(w, a) /\ pc[w] # "mail")]
    /\ LetGo(w, batch[w])
    /\ UNCHANGED <<rowVars, dataVars, envVars, request, startMails, rejected>>

(* Time passes.  Cloud Run kills an execution that has used its timeout    *)
(* before it can use more, and a request ends within the tick it began in. *)
Tick ==
    /\ \A r \in Requests : request[r] = Idle
    /\ \A w \in Workers : pc[w] # "idle" => run[w] < KillAfter
    /\ run' = [w \in Workers |-> IF pc[w] = "idle" THEN 0 ELSE run[w] + 1]
    /\ age' = [a \in Archives |->
                  IF status[a] \in Aging /\ age[a] < AgeCap
                  THEN age[a] + 1 ELSE age[a]]
    /\ UNCHANGED <<status, attempts, lost, dataVars, envVars, request, pc,
                   batch, first, memberVars, free, moved, historyVars>>

(* A deploy wipes UPLOADS_BUCKET from the job's environment; ops fix it. *)
ConfigBreak ==
    /\ "config" \in Faults
    /\ storageOk /\ Act
    /\ storageOk' = FALSE
    /\ UNCHANGED <<rowVars, dataVars, request, workerVars, historyVars>>

ConfigFix ==
    /\ ~storageOk
    /\ storageOk' = TRUE
    /\ UNCHANGED <<rowVars, dataVars, acts, request, workerVars, historyVars>>

-----------------------------------------------------------------------------

Browser(a) ==
    \/ NewArchive(a)
    \/ ReuseArchive(a)
    \/ \E c \in Contents : Upload(a, c)

Handler(r) ==
    \/ \E a \in Archives : CompleteRead(r, a) \/ RequeueRead(r, a)
    \/ CompleteCommit(r)
    \/ RejectCommit(r)
    \/ RejectDelete(r)
    \/ RequeueCommit(r)
    \/ RequestLost(r)

DrainArchive(w, a) ==
    \/ OpenArchive(w, a)
    \/ ConfigReset(w, a)
    \/ \E m \in Members : IngestMember(w, a, m)
    \/ FinishDone(w, a)
    \/ FinishFailed(w, a)
    \/ FinishLost(w, a)

Drain(w) ==
    \/ ReapStuck(w)
    \/ SweepAbandoned(w)
    \/ ReapFails(w)
    \/ Claim(w)
    \/ MailTerminal(w)
    \/ \E a \in Archives : FreeObject(w, a) \/ DrainArchive(w, a)

Environment ==
    \/ Tick
    \/ ConfigBreak
    \/ ConfigFix
    \/ \E w \in Workers : Kill(w)

Next ==
    \/ \E a \in Archives : Browser(a)
    \/ \E r \in Requests : Handler(r)
    \/ \E w \in Workers : Drain(w)
    \/ Environment

Spec == Init /\ [][Next]_vars

(* Drain steps and time are fair: the scheduler starts the job every day,  *)
(* Cloud Run runs it, ops mend the configuration, a request ends.  Kills    *)
(* are not: but an execution is not killed every time before it claims, and *)
(* a drain that is not killed gets its archive open and its members through *)
(* (strong fairness), whether or not an UPDATE sometimes fails.             *)
Fairness ==
    /\ WF_vars(Tick)
    /\ WF_vars(ConfigFix)
    /\ \A r \in Requests :
         WF_vars(CompleteCommit(r) \/ RejectCommit(r) \/ RejectDelete(r)
                 \/ RequeueCommit(r))
    /\ \A w \in Workers :
         /\ SF_vars(ReapStuck(w))
         /\ SF_vars(SweepAbandoned(w))
         /\ WF_vars(\E a \in Archives : FreeObject(w, a))
         /\ SF_vars(Claim(w))
         /\ WF_vars(\E a \in Archives : DrainArchive(w, a))
         /\ WF_vars(MailTerminal(w))

FairSpec == Spec /\ Fairness

-----------------------------------------------------------------------------
(* Safety *)

(* The docstring of drain_pending_archives calls the job concurrency-safe.  *)
(* Two live executions never drain the same archive, however kills, the     *)
(* 3 h reclaim, the reaper and config resets interleave, as long as no HTTP *)
(* handler rewrote the row under one of them.                               *)
DrainExclusion ==
    \A a \in Archives : \A v, w \in Workers :
        Holds(v, a) /\ Holds(w, a) /\ v # w => disturbed[a]

(* The reason: no drain refreshes updated_at while it works (there is no    *)
(* heartbeat), yet every archive of a live drain's batch, the ones still    *)
(* waiting their turn included, is 'processing' and not yet stale, so       *)
(* neither the reclaim nor the reaper can take it.                          *)
LeaseHeld ==
    \A a \in Archives : \A w \in Workers :
        Holds(w, a) /\ ~disturbed[a] =>
            status[a] = "processing" /\ age[a] <= StuckAfter

(* _notify_archive_started: sent once per archive, only on the first claim. *)
(* No interleaving of kills, re-claims, requeues and concurrent drains      *)
(* sends the start e-mail twice.                                            *)
StartMailOnce == \A a \in Archives : startMails[a] <= 1

(* A row reads 'done' only if every member of the archive is in activities  *)
(* or was counted as failed in the pass that wrote the row, though earlier  *)
(* passes may have been killed anywhere and another pass may still run.     *)
DoneMeansCovered ==
    \A a \in Archives : status[a] = "done" => stored[a] \cup lost[a] = Members

(* Every archive handed to the drain reaches a terminal row (done or        *)
(* failed), and an abandoned upload does not stay open: the owner's         *)
(* open-archive slot is released, killed drains, crash loops and storage    *)
(* misconfiguration included.                                               *)
EveryArchiveSettles ==
    \A a \in Archives :
        /\ status[a] = "uploaded" ~> status[a] \in Terminal
        /\ status[a] = "awaiting_upload" ~> status[a] # "awaiting_upload"

(* The pipeline keeps what ArchiveLifecycle promises of an archive: rows,    *)
(* leases, retries and kills only take it through the steps of one holder at *)
(* a time, and the reaper gives up no archive that a live drain relies on.   *)
Lifecycle == INSTANCE ArchiveLifecycle WITH
    row       <- status,
    holders   <- [a \in Archives |-> {w \in Workers : Holds(w, a)}],
    contested <- disturbed,
    kept      <- stored,
    missed    <- lost,
    told      <- startMails

KeepsItsPromise == Lifecycle!Spec

-----------------------------------------------------------------------------
(* Statements of the sources that the code does not keep *)

(* _notify_archive_terminal: "One email per terminal TRANSITION".  The drain *)
(* is about to mail: was its UPDATE a transition into a terminal status?     *)
OneMailPerTransition == \A w \in Workers : pc[w] = "mail" => moved[w]

(* _reap_stuck_archives fails a row with "the archive is likely too large": *)
(* some execution must at least have been killed while working on it.       *)
ReapedWasBlamed ==
    [][\A a \in Archives : Exhausted(a) /\ status'[a] = "failed" => blamed[a]]_vars

(* The sweep frees the object of an upload "without /complete ever being    *)
(* called", the 413 path that of a row it failed: an object is only ever    *)
(* deleted under a failed row, never under one answered 202 "uploaded".     *)
FreedOnlyWhenFailed ==
    [][\A a \in Archives :
          object[a] # "none" /\ object'[a] = "none" => status[a] = "failed"]_vars

(* The ZipBombError branch marks the row failed "so it never re-drains".    *)
RejectedNeverRedrained ==
    [][\A a \in Archives, w \in Workers :
          a \notin batch[w] /\ a \in batch'[w] => ~rejected[a]]_vars
=============================================================================
