---------------------------- MODULE StravaToken ----------------------------
(***************************************************************************)
(* One member's Strava tokens: the integration_accounts row, the refresh   *)
(* under a per-member advisory lock, the OAuth callback, the disconnect    *)
(* and the deauthorize event that write the same row without that lock,    *)
(* and the count of rejections that leads to one reconnect notice          *)
(* (backend/app/api/integrations_strava.py, jobs/resync_strava.py,         *)
(* api/internal_strava_webhook.py).                                        *)
(*                                                                         *)
(* A caller is a webhook worker or an import, which use the row the same   *)
(* way, or the resync job, which an admin starts by hand.  Strava is       *)
(* external: every call of its token endpoint makes a new refresh token    *)
(* and kills the one before; a revoke kills all of them.  Tokens are       *)
(* numbered in the order Strava makes them, and an access token has the    *)
(* number of the refresh token it came with.                               *)
(***************************************************************************)
EXTENDS Integers, FiniteSets

CONSTANTS
    Callers,        \* webhook workers, imports, and resync jobs
    Resyncs,        \* those that are resync jobs
    NoCaller,       \* holder of the free lock
    Threshold,      \* STRAVA_RECONNECT_THRESHOLD
    MaxTokens,      \* bound on the tokens Strava makes
    MaxRejections   \* bound on the rejections of one row before another call

ASSUME CallersAssumption == Resyncs \subseteq Callers /\ NoCaller \notin Callers
ASSUME BoundsAssumption ==
    /\ Threshold \in Nat \ {0} /\ MaxTokens \in Nat /\ MaxRejections \in Nat

VARIABLES
    acct,      \* the row; id 0 when there is none
    rows,      \* rows inserted so far
    strava,    \* the current token, and the first one since the last revoke
    lock,      \* holder of pg_try_advisory_xact_lock
    call,      \* caller -> where it is and what it has loaded
    callback,  \* token the OAuth callback got and has not stored; 0 if none
    deauth,    \* a deauthorize event is on its way
    rejected,  \* history: definitive rejections of the present row
    notices,   \* history: reconnect notices since the count was last zero
    slips      \* history: why the stored token may be dead

vars == <<acct, rows, strava, lock, call, callback, deauth, rejected, notices,
          slips>>

-----------------------------------------------------------------------------

Tokens == 1..MaxTokens
NoRow  == [id |-> 0, refresh |-> 0, fresh |-> FALSE, failures |-> 0]
Idle   == [pc |-> "idle", row |-> 0, token |-> 0, failures |-> 0, tries |-> 0]

\* The athlete authorises the application.
Granted == strava.current >= strava.since
Accepts(token) == Granted /\ token = strava.current
Valid(access)  == access >= strava.since

\* Callers between the read of the refresh token and the write of the next.
Refreshing == {c \in Callers : call[c].pc \in {"posting", "saving"}}

Free(c) == lock' = IF lock = c THEN NoCaller ELSE lock

\* The session closes, and the transaction and the lock end with it.
End(c) == call' = [call EXCEPT ![c] = Idle] /\ Free(c)

\* A call that fails ends the caller's session - but the resync goes on with
\* other members in the same transaction, and keeps the lock until it commits.
Quit(c) ==
    IF c \in Resyncs
    THEN call' = [call EXCEPT ![c] = [Idle EXCEPT !.pc = "leaving"]] /\ lock' = c
    ELSE End(c)

\* db.refresh(acct), or the reload of an instance a commit has expired.
Loaded(c, label) ==
    call' = [call EXCEPT ![c].pc = label, ![c].row = acct.id,
                         ![c].token = acct.refresh, ![c].failures = acct.failures]

Init ==
    /\ acct = NoRow /\ rows = 0
    /\ strava = [current |-> 0, since |-> 1]
    /\ lock = NoCaller
    /\ call = [c \in Callers |-> Idle]
    /\ callback = 0 /\ deauth = FALSE
    /\ rejected = 0 /\ notices = 0 /\ slips = {}

-----------------------------------------------------------------------------
(* refresh_strava_token *)

\* The resync leaves out the accounts that need a reconnect; a token with
\* five minutes left is used as it is.
Enter(c) ==
    /\ call[c].pc = "idle" /\ acct.id # 0
    /\ c \in Resyncs => acct.failures < Threshold
    /\ rejected < MaxRejections
    /\ Loaded(c, IF acct.fresh THEN "using" ELSE "locking")
    /\ UNCHANGED <<acct, rows, strava, lock, callback, deauth, rejected, notices, slips>>

\* The lock is taken and the row read again under it.  A row that is gone
\* raises.  A row another caller has made fresh is used, and the lock stays
\* with the transaction.
LockTrusting(c) ==                                              \* seeded fault
    /\ call[c].pc = "locking" /\ lock = NoCaller /\ acct.id = call[c].row
    /\ lock' = c /\ call' = [call EXCEPT ![c].pc = "posting"]
    /\ UNCHANGED <<acct, rows, strava, callback, deauth, rejected, notices, slips>>
Lock(c) ==
    /\ call[c].pc = "locking" /\ lock = NoCaller
    /\ IF acct.id # call[c].row
       THEN Quit(c) /\ UNCHANGED slips
       ELSE /\ lock' = c
            /\ Loaded(c, IF acct.fresh THEN "using" ELSE "posting")
            /\ slips' = IF ~acct.fresh /\ callback # 0
                        THEN slips \cup {"overlap"} ELSE slips
    /\ UNCHANGED <<acct, rows, strava, callback, deauth, rejected, notices>>

\* Someone else holds it: wait, read again, try once more, then give up.
BusyForever(c) ==                                               \* seeded fault
    /\ call[c].pc = "locking" /\ lock # NoCaller /\ lock' = lock
    /\ call' = [call EXCEPT ![c].tries = 1 - @]
    /\ UNCHANGED <<acct, rows, strava, callback, deauth, rejected, notices, slips>>
Busy(c) ==
    /\ call[c].pc = "locking" /\ lock # NoCaller
    /\ IF acct.id # call[c].row \/ (~acct.fresh /\ call[c].tries = 1)
       THEN End(c)
       ELSE /\ lock' = lock
            /\ call' = [call EXCEPT
                 ![c].pc = IF acct.fresh THEN "using" ELSE "locking",
                 ![c].token = acct.refresh, ![c].failures = acct.failures,
                 ![c].tries = 1]
    /\ UNCHANGED <<acct, rows, strava, callback, deauth, rejected, notices, slips>>

\* Strava makes the next token; the answer may not arrive.
PostAccepted(c) ==
    /\ call[c].pc = "posting" /\ Accepts(call[c].token)
    /\ strava.current < MaxTokens
    /\ strava' = [strava EXCEPT !.current = @ + 1]
    /\ \/ /\ call' = [call EXCEPT ![c].pc = "saving", ![c].token = strava.current + 1]
          /\ UNCHANGED <<lock, slips>>
       \/ Quit(c) /\ slips' = slips \cup {"lost"}
    /\ UNCHANGED <<acct, rows, callback, deauth, rejected, notices>>

\* 400 or 401: the token is dead, and that is definitive.
PostRejected(c) ==
    /\ call[c].pc = "posting" /\ ~Accepts(call[c].token)
    /\ rejected' = IF call[c].row = acct.id THEN rejected + 1 ELSE rejected
    /\ call' = [call EXCEPT ![c].pc = "rejecting"]
    /\ UNCHANGED <<acct, rows, strava, lock, callback, deauth, notices, slips>>

\* 429, 5xx or no connection: nothing is counted.
PostCounting(c) ==                                              \* seeded fault
    /\ call[c].pc = "posting" /\ call' = [call EXCEPT ![c].pc = "rejecting"]
    /\ UNCHANGED <<acct, rows, strava, lock, callback, deauth, rejected, notices, slips>>
PostTransient(c) ==
    /\ call[c].pc = "posting" /\ Quit(c)
    /\ UNCHANGED <<acct, rows, strava, callback, deauth, rejected, notices, slips>>

\* The resync commits for the next member, or has done with all of them.
Leave(c) ==
    /\ call[c].pc = "leaving" /\ End(c)
    /\ UNCHANGED <<acct, rows, strava, callback, deauth, rejected, notices, slips>>

\* The write of the new tokens ends the transaction; a row that is gone raises.
SaveAccessOnly(c) ==                                            \* seeded fault
    /\ call[c].pc = "saving"
    /\ acct' = IF acct.id = call[c].row THEN [acct EXCEPT !.fresh = TRUE] ELSE acct
    /\ call' = [call EXCEPT ![c].pc = "using"] /\ Free(c)
    /\ UNCHANGED <<rows, strava, callback, deauth, rejected, notices, slips>>
Save(c) ==
    /\ call[c].pc = "saving"
    /\ IF acct.id # call[c].row
       THEN End(c) /\ UNCHANGED acct
       ELSE /\ acct' = [acct EXCEPT !.refresh = call[c].token, !.fresh = TRUE]
            /\ call' = [call EXCEPT ![c].pc = "using"] /\ Free(c)
    /\ UNCHANGED <<rows, strava, callback, deauth, rejected, notices, slips>>

\* record_refresh_failure adds one to the count its session has loaded.
Record(c) ==
    /\ call[c].pc = "rejecting" /\ Free(c)
    /\ IF acct.id # call[c].row
       THEN call' = [call EXCEPT ![c] = Idle] /\ UNCHANGED acct
       ELSE /\ acct' = [acct EXCEPT !.failures = call[c].failures + 1]
            /\ call' = IF call[c].failures + 1 = Threshold
                       THEN [call EXCEPT ![c].pc = "telling"]
                       ELSE [call EXCEPT ![c] = Idle]
    /\ UNCHANGED <<rows, strava, callback, deauth, rejected, notices, slips>>

Tell(c) ==
    /\ call[c].pc = "telling" /\ End(c)
    /\ notices' = IF acct.id = call[c].row THEN notices + 1 ELSE notices
    /\ UNCHANGED <<acct, rows, strava, callback, deauth, rejected, slips>>

-----------------------------------------------------------------------------
(* The use of the access token *)

\* _mark_account_synced, in a session of its own, whichever row there is.
Synced(zero) ==
    /\ acct' = IF zero THEN [acct EXCEPT !.failures = 0] ELSE acct
    /\ notices' = IF zero THEN 0 ELSE notices

\* A webhook worker or an import syncs, or drops what it was to fetch.
Use(c) ==
    /\ call[c].pc = "using" /\ c \notin Resyncs /\ End(c)
    /\ IF Valid(call[c].token) THEN Synced(TRUE) ELSE UNCHANGED <<acct, notices>>
    /\ UNCHANGED <<rows, strava, callback, deauth, rejected, slips>>

\* The resync inserts its job, which ends the transaction, and fetches.  A
\* rejection here is counted as well, without the lock.
Fetch(c) ==
    /\ call[c].pc = "using" /\ c \in Resyncs /\ Free(c)
    /\ IF acct.id # call[c].row
       THEN call' = [call EXCEPT ![c] = Idle] /\ UNCHANGED rejected
       ELSE /\ call' = [call EXCEPT ![c].failures = acct.failures,
                 ![c].pc = IF Valid(call[c].token) THEN "ingesting" ELSE "rejecting"]
            /\ rejected' = IF Valid(call[c].token) THEN rejected ELSE rejected + 1
    /\ UNCHANGED <<acct, rows, strava, callback, deauth, notices, slips>>

\* An ORM write sends the columns that differ from what was loaded.
Finish(c) ==
    /\ call[c].pc = "ingesting" /\ End(c)
    /\ Synced(acct.id = call[c].row /\ call[c].failures # 0)
    /\ UNCHANGED <<rows, strava, callback, deauth, rejected, slips>>

\* A killed process; its transaction and its lock go with it.
Die(c) ==
    /\ call[c].pc # "idle" /\ End(c)
    /\ slips' = IF call[c].pc = "saving" THEN slips \cup {"lost"} ELSE slips
    /\ UNCHANGED <<acct, rows, strava, callback, deauth, rejected, notices>>

-----------------------------------------------------------------------------
(* The writers that take no lock *)

\* The callback exchanges its code for tokens.
Exchange ==
    /\ callback = 0 /\ strava.current < MaxTokens
    /\ strava' = [strava EXCEPT !.current = @ + 1]
    /\ callback' = strava.current + 1
    /\ slips' = IF Refreshing = {} THEN slips ELSE slips \cup {"overlap"}
    /\ UNCHANGED <<acct, rows, lock, call, deauth, rejected, notices>>

\* It stores them: over the row there is, its count of failures as it was, or
\* in a new one.  A store no refresh overlaps mends whatever slipped before.
Store ==
    /\ callback # 0
    /\ acct' = [id |-> IF acct.id = 0 THEN rows + 1 ELSE acct.id,
                refresh |-> callback, fresh |-> TRUE, failures |-> acct.failures]
    /\ rows' = IF acct.id = 0 THEN rows + 1 ELSE rows
    /\ rejected' = IF acct.id = 0 THEN 0 ELSE rejected
    /\ notices' = IF acct.id = 0 THEN 0 ELSE notices
    /\ slips' = IF Refreshing = {} /\ callback = strava.current THEN {} ELSE slips
    /\ callback' = 0
    /\ UNCHANGED <<strava, lock, call, deauth>>

\* It may also die in between, with the new tokens.
DropCallback ==
    /\ callback # 0 /\ callback' = 0
    /\ slips' = slips \cup {"lost"}
    /\ UNCHANGED <<acct, rows, strava, lock, call, deauth, rejected, notices>>

Disconnect ==
    /\ acct.id # 0 /\ acct' = NoRow
    /\ UNCHANGED <<rows, strava, lock, call, callback, deauth, rejected, notices, slips>>

\* The athlete revokes the application on Strava, which says so.
Revoke ==
    /\ Granted
    /\ strava' = [strava EXCEPT !.since = strava.current + 1]
    /\ deauth' = TRUE
    /\ UNCHANGED <<acct, rows, lock, call, callback, rejected, notices, slips>>

\* The deauthorize event removes whatever row the athlete has by then.
Deauthorize ==
    /\ deauth /\ deauth' = FALSE /\ acct' = NoRow
    /\ UNCHANGED <<rows, strava, lock, call, callback, rejected, notices, slips>>

\* Six hours pass, less five minutes.
Expire ==
    /\ acct.fresh /\ acct' = [acct EXCEPT !.fresh = FALSE]
    /\ UNCHANGED <<rows, strava, lock, call, callback, deauth, rejected, notices, slips>>

Step(c) ==
    \/ Enter(c) \/ Lock(c) \/ Busy(c)
    \/ PostAccepted(c) \/ PostRejected(c) \/ PostTransient(c) \/ Leave(c)
    \/ Save(c) \/ Record(c) \/ Tell(c)
    \/ Use(c) \/ Fetch(c) \/ Finish(c) \/ Die(c)

Next ==
    \/ \E c \in Callers : Step(c)
    \/ Exchange \/ Store \/ DropCallback
    \/ Disconnect \/ Revoke \/ Deauthorize \/ Expire

Spec == Init /\ [][Next]_vars

\* Cloud Run runs a process on until it ends or is killed; Strava answers, or
\* the request times out.
Advance(c) ==
    \/ Lock(c) \/ Busy(c)
    \/ PostAccepted(c) \/ PostRejected(c) \/ PostTransient(c) \/ Leave(c)
    \/ Save(c) \/ Record(c) \/ Tell(c)
    \/ Use(c) \/ Fetch(c) \/ Finish(c)
FairSpec == Spec /\ \A c \in Callers : WF_vars(Advance(c))

-----------------------------------------------------------------------------
(* Properties *)

PCs == {"idle", "locking", "posting", "saving", "rejecting", "telling",
        "using", "ingesting", "leaving"}

\* The row, the callers and Strava have their types, and the lock is held by
\* a caller that is in a transaction of refresh_strava_token or just after it.
TypeOK ==
    /\ rows \in Nat /\ acct.id \in 0..rows
    /\ acct \in [id : Nat, refresh : 0..MaxTokens, fresh : BOOLEAN, failures : Nat]
    /\ strava \in [current : 0..MaxTokens, since : 1..MaxTokens + 1]
    /\ call \in [Callers -> [pc : PCs, row : Nat, token : 0..MaxTokens,
                             failures : Nat, tries : 0..1]]
    /\ lock = NoCaller \/ lock \in {c \in Callers : call[c].pc \in
                             {"posting", "saving", "rejecting", "using", "leaving"}}
    /\ callback \in 0..MaxTokens /\ deauth \in BOOLEAN
    /\ rejected \in Nat /\ notices \in Nat
    /\ slips \subseteq {"lost", "overlap"}

\* While the athlete authorises the application, the stored refresh token is
\* the one Strava will accept, unless an answer of Strava was lost or the
\* callback overlapped a refresh since the last clean authorisation: the
\* refreshes of different callers never undo each other.
StoredTokenLives ==
    acct.id # 0 /\ Granted /\ slips = {} /\ Refreshing = {} /\ callback = 0
        => acct.refresh = strava.current

\* Under the same conditions no caller posts a token that Strava has already
\* replaced: it would be rejected, and the rejection counted against a member
\* whose authorisation is fine.
PostedTokenLives ==
    \A c \in Callers :
        call[c].pc = "posting" /\ call[c].row = acct.id /\ Granted /\ slips = {}
            => Accepts(call[c].token)

\* The count of failures, which stops the resync and shows the banner,
\* and the notice, never get ahead of the definitive rejections, whatever
\* counts the callers have loaded.
FailuresAreRejections ==
    /\ acct.failures <= rejected
    /\ acct.id # 0 /\ notices > 0 => rejected >= Threshold

\* Every call ends: nobody waits for the lock for ever, however often the
\* others take it.
EveryCallEnds ==
    \A c \in Callers : call[c].pc # "idle" ~> call[c].pc = "idle"

\* The lock would be enough if the callback took it too: then only a lost
\* answer could leave a dead token in the row.
OnlyLossKillsToken ==
    acct.id # 0 /\ Granted /\ "lost" \notin slips /\ Refreshing = {} /\ callback = 0
        => acct.refresh = strava.current

\* The member is told at most once to reconnect, until a sync succeeds.
ToldOnce == notices <= 1
=============================================================================
