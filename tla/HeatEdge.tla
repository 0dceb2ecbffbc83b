------------------------------ MODULE HeatEdge ------------------------------
(***************************************************************************)
(* One edge of the matched heat map under concurrent sessions: the rows of *)
(* heat_edge_contributors that name it, its counts in heat_edges, and its  *)
(* way in heat_edges_agg (services/ingest.py, services/activity_deletion.py,*)
(* services/activity_sport.py, jobs/rebuild_heat_agg.py,                   *)
(* api/internal_ingest.py).                                                *)
(*                                                                         *)
(* Sessions run in READ COMMITTED: each statement sees what was committed  *)
(* when it began, waits for the rows other transactions have written, and  *)
(* then writes what it had computed.  A statement whose snapshot and write *)
(* can come apart is two actions.  An activity runs along the edge while   *)
(* its sport is the edge's: the key of an edge names the sport.  The way   *)
(* has this one edge; directions, dates and geometry are left out.         *)
(***************************************************************************)
EXTENDS Naturals, FiniteSets

CONSTANTS
    Activities, \* community rides along the edge, whatever their sport
    Riders,     \* users
    Owner,      \* Activities -> Riders
    Sessions,   \* database sessions that may be at work together
    Nothing,    \* no activity
    MaxChanges  \* bound on the changes of sport

ASSUME OwnerAssumption == Owner \in [Activities -> Riders]
ASSUME NothingAssumption == Nothing \notin Activities
ASSUME FiniteAssumption == IsFiniteSet(Activities) /\ IsFiniteSet(Riders)
ASSUME BoundAssumption == MaxChanges \in Nat

VARIABLES
    (* tables, as committed *)
    ride,     \* activities: "here" (on the edge), "other" (other sport), "gone"
    contrib,  \* heat_edge_contributors: the activities with a row for the edge
    edge,     \* heat_edges: the counts of the edge
    agg,      \* heat_edges_agg: the counts of its way
    (* open transactions *)
    tx,
    changes,  \* changes of sport so far
    (* history *)
    raced,    \* the counts were last rewritten by a purge that was not alone
    belated,  \* contributions written when their purge had begun or ended
    unpurged, \* contributions of rides a delete event of Strava removed
    lapses    \* why the aggregate may differ from the edge

edgeVars == <<ride, contrib, edge, agg, tx, changes, raced, belated, unpurged, lapses>>

-----------------------------------------------------------------------------

\* A row that does not exist counts nothing; one that exists has a pass.
Absent == [pass |-> 0, riders |-> 0]
Exists(row) == row.pass > 0

Distinct(as) == Cardinality({Owner[a] : a \in as})
Counted(as) == [pass |-> Cardinality(as), riders |-> Distinct(as)]

Counts == [pass : Nat, riders : 0..Cardinality(Riders)]
Updating == {"matched", "contributed", "upserted"}
Purging == {"recount", "rewrite", "prune", "drop", "purged"}
Refreshing == {"committed", "clear", "select", "insert"}

(* why: what the purge is for.  put: the counts the transaction has computed *)
(* or written.  rows, held: the contributor rows, and the rows of edge and   *)
(* aggregate, it has written.  seen: the row its statement is after is still *)
(* the one of its snapshot.  alone: nobody committed to the edge meanwhile.  *)
(* passed: somebody refreshed the aggregate after this one had computed it.  *)
Transaction ==
    [pc     : {"idle"} \cup Updating \cup Purging \cup Refreshing,
     act    : Activities \cup {Nothing},
     why    : {"heat", "delete", "sport"},
     fresh  : BOOLEAN, put : Counts, rows : SUBSET Activities,
     held   : SUBSET {"edge", "agg"},
     seen   : BOOLEAN, alone : BOOLEAN, passed : BOOLEAN, ways : BOOLEAN]

NoTransaction ==
    [pc |-> "idle", act |-> Nothing, why |-> "heat", fresh |-> FALSE,
     put |-> Absent, rows |-> {}, held |-> {}, seen |-> FALSE,
     alone |-> TRUE, passed |-> FALSE, ways |-> FALSE]

EdgeTypeOK ==
    /\ ride \in [Activities -> {"here", "other", "gone"}]
    /\ contrib \subseteq Activities
    /\ edge \in Counts /\ agg \in Counts
    /\ tx \in [Sessions -> Transaction]
    /\ changes \in 0..MaxChanges
    /\ raced \in BOOLEAN
    /\ belated \subseteq Activities /\ unpurged \subseteq Activities
    /\ lapses \subseteq {"failed", "overtaken"}

EdgeInit ==
    /\ ride \in [Activities -> {"here", "other"}]
    /\ contrib = {} /\ edge = Absent /\ agg = Absent
    /\ tx = [s \in Sessions |-> NoTransaction]
    /\ changes = 0
    /\ raced = FALSE /\ belated = {} /\ unpurged = {} /\ lapses = {}

-----------------------------------------------------------------------------
(* Row locks *)

Unlocked(s, row) == \A t \in Sessions \ {s} : row \notin tx[t].held
Released(s, a) == \A t \in Sessions \ {s} : a \notin tx[t].rows

PurgeOpen(a) == \E t \in Sessions : tx[t].pc \in Purging /\ tx[t].act = a

\* Session s goes on as `next`; to the others, the edge has a new version,
\* or, when it was deleted, is no longer the row they saw.
AfterCommit(s, next, dropped) ==
    tx' = [t \in Sessions |->
              IF t = s THEN next
              ELSE [tx[t] EXCEPT !.alone = @ /\ tx[t].pc \notin Purging,
                                 !.seen  = @ /\ ~(dropped /\ tx[t].pc \in Purging)]]

Goes(s, pc) == tx' = [tx EXCEPT ![s].pc = pc]

-----------------------------------------------------------------------------
(* process_heat_compute, _update_heat_edges *)

\* The activity is read, the session closed, and the trace matched to roads.
\* Cloud Tasks may run a task again at any time, also twice at once.
HeatTask(s, a) ==
    /\ tx[s].pc = "idle" /\ ride[a] = "here"
    /\ tx' = [tx EXCEPT ![s] = [NoTransaction EXCEPT !.pc = "matched", !.act = a]]
    /\ UNCHANGED <<ride, contrib, edge, agg, changes, raced, belated, unpurged, lapses>>

\* INSERT ... ON CONFLICT ... RETURNING (xmax = 0): waits for whoever has
\* written the row, and tells a new row from one that was there.
Contribute(s) ==
    LET a == tx[s].act IN
    /\ tx[s].pc = "matched" /\ Released(s, a)
    /\ tx' = [tx EXCEPT ![s].pc = "contributed", ![s].rows = {a},
                        ![s].fresh = a \notin contrib]
    /\ UNCHANGED <<ride, contrib, edge, agg, changes, raced, belated, unpurged, lapses>>

\* Seeded fault: a task that is run again counts again.
PassesUngated(s) == IF Exists(edge) THEN edge.pass + 1 ELSE 1

\* Only a new contributor adds a pass to an edge that exists.
Passes(s) ==
    IF Exists(edge) THEN edge.pass + (IF tx[s].fresh THEN 1 ELSE 0) ELSE 1

UpsertEdge(s) ==
    /\ tx[s].pc = "contributed" /\ Unlocked(s, "edge")
    /\ tx' = [tx EXCEPT ![s].pc = "upserted", ![s].held = @ \cup {"edge"},
                        ![s].fresh = FALSE,
                        ![s].put = [edge EXCEPT !.pass = Passes(s)]]
    /\ UNCHANGED <<ride, contrib, edge, agg, changes, raced, belated, unpurged, lapses>>

\* user_count is counted again under the lock of the edge, without which
\* nobody commits a contributor of it; then the transaction commits.
CommitHeat(s) ==
    LET a == tx[s].act
        counted == contrib \cup {a}
    IN
    /\ tx[s].pc = "upserted"
    /\ contrib' = counted
    /\ edge' = [tx[s].put EXCEPT !.riders = Distinct(counted)]
    /\ belated' = IF ride[a] # "here" \/ PurgeOpen(a) THEN belated \cup {a} ELSE belated
    /\ AfterCommit(s, [NoTransaction EXCEPT !.pc = "committed"], FALSE)
    /\ UNCHANGED <<ride, agg, changes, raced, unpurged, lapses>>

-----------------------------------------------------------------------------
(* purge_activity_heat: the contributor row, the counts, the empty edge *)

\* DELETE FROM heat_edge_contributors WHERE activity_id = a: a row that
\* another transaction has not committed yet is not seen.
Purge(s, a, why) ==
    /\ tx[s].pc = "idle"
    /\ a \in contrib => Released(s, a)
    /\ tx' = [tx EXCEPT ![s] = [NoTransaction EXCEPT
                  !.act = a, !.why = why,
                  !.pc = IF a \in contrib THEN "recount" ELSE "purged",
                  !.rows = {a} \cap contrib]]

SportChanging(a) ==
    \E t \in Sessions : tx[t].pc \in Purging /\ tx[t].why = "sport" /\ tx[t].act = a

\* delete_user_activity
Delete(s, a) ==
    /\ ride[a] # "gone" /\ Purge(s, a, "delete")
    /\ UNCHANGED <<ride, contrib, edge, agg, changes, raced, belated, unpurged, lapses>>

\* Seeded fault: the purge looks for the edges of the sport just set.
ChangeSportFirst(s, a) ==
    /\ ride[a] # "gone" /\ ~SportChanging(a) /\ tx[s].pc = "idle"
    /\ tx' = [tx EXCEPT ![s] = [NoTransaction EXCEPT
                  !.act = a, !.why = "sport", !.pc = "purged"]]
    /\ changes < MaxChanges /\ changes' = changes + 1
    /\ UNCHANGED <<ride, contrib, edge, agg, raced, belated, unpurged, lapses>>

\* change_activities_sport: the row is updated, then purged.
ChangeSport(s, a) ==
    /\ ride[a] # "gone" /\ ~SportChanging(a) /\ Purge(s, a, "sport")
    /\ changes < MaxChanges /\ changes' = changes + 1
    /\ UNCHANGED <<ride, contrib, edge, agg, raced, belated, unpurged, lapses>>

Left(s) == contrib \ tx[s].rows

\* The snapshot of the UPDATE: what the remaining rows count.
Recount(s) ==
    /\ tx[s].pc = "recount"
    /\ tx' = [tx EXCEPT ![s].ways = Exists(edge),
           ![s].pc  = IF Left(s) # {} /\ Exists(edge) THEN "rewrite" ELSE "prune",
           ![s].put = IF Left(s) # {} /\ Exists(edge) THEN Counted(Left(s)) ELSE @,
           ![s].seen = Exists(edge)]
    /\ UNCHANGED <<ride, contrib, edge, agg, changes, raced, belated, unpurged, lapses>>

\* Its write: of the row of that snapshot, in whatever version it now is.
Rewrite(s) ==
    /\ tx[s].pc = "rewrite"
    /\ \/ tx[s].seen /\ Unlocked(s, "edge")
          /\ tx' = [tx EXCEPT ![s].pc = "prune", ![s].held = @ \cup {"edge"},
                              ![s].seen = FALSE]
       \/ ~tx[s].seen /\ Goes(s, "prune")
    /\ UNCHANGED <<ride, contrib, edge, agg, changes, raced, belated, unpurged, lapses>>

\* The snapshot of the DELETE: an edge without contributors.
Prune(s) ==
    /\ tx[s].pc = "prune"
    /\ IF Left(s) = {} /\ Exists(edge)
       THEN tx' = [tx EXCEPT ![s].pc = "drop", ![s].seen = TRUE]
       ELSE Goes(s, "purged")
    /\ UNCHANGED <<ride, contrib, edge, agg, changes, raced, belated, unpurged, lapses>>

\* Seeded fault: without the trigger.
DropUntriggered(s) ==
    /\ tx[s].pc = "drop"
    /\ \/ /\ tx[s].seen /\ Unlocked(s, "edge")
          /\ tx' = [tx EXCEPT ![s].pc = "purged", ![s].held = @ \cup {"edge"},
                              ![s].put = Absent, ![s].seen = FALSE]
       \/ ~tx[s].seen /\ Goes(s, "purged")
    /\ UNCHANGED <<ride, contrib, edge, agg, changes, raced, belated, unpurged, lapses>>

\* Its write.  A trigger deletes the contributors that are there by now.
Drop(s) ==
    /\ tx[s].pc = "drop"
    /\ \/ /\ tx[s].seen /\ Unlocked(s, "edge")
          /\ \A a \in contrib : Released(s, a)
          /\ tx' = [tx EXCEPT ![s].pc = "purged", ![s].held = @ \cup {"edge"},
                              ![s].put = Absent, ![s].rows = @ \cup contrib,
                              ![s].seen = FALSE]
       \/ ~tx[s].seen /\ Goes(s, "purged")
    /\ UNCHANGED <<ride, contrib, edge, agg, changes, raced, belated, unpurged, lapses>>

\* Seeded fault: the ways are looked up after the empty edges are deleted.
OnwardsWaysLast(s) ==
    IF tx[s].why = "sport" /\ ride[tx[s].act] = "other"
    THEN [NoTransaction EXCEPT !.pc = "matched", !.act = tx[s].act, !.ways = tx[s].ways]
    ELSE IF tx[s].ways /\ Exists(tx[s].put)
         THEN [NoTransaction EXCEPT !.pc = "committed"]
    ELSE NoTransaction

\* After its commit, a deletion refreshes the ways it touched; a change of
\* sport first writes the trace under the new one, without another look.
Onwards(s) ==
    IF tx[s].why = "sport" /\ ride[tx[s].act] = "other"
    THEN [NoTransaction EXCEPT !.pc = "matched", !.act = tx[s].act, !.ways = tx[s].ways]
    ELSE IF tx[s].ways THEN [NoTransaction EXCEPT !.pc = "committed"]
    ELSE NoTransaction

OtherSport(sport) == IF sport = "here" THEN "other" ELSE "here"

CommitPurge(s) ==
    LET a == tx[s].act
        wrote == "edge" \in tx[s].held
    IN
    /\ tx[s].pc = "purged"
    /\ tx[s].why = "delete" => ~SportChanging(a)
    /\ ride' = [ride EXCEPT ![a] = IF tx[s].why = "delete" THEN "gone"
                                   ELSE OtherSport(@)]
    /\ contrib' = Left(s)
    /\ edge' = IF wrote THEN tx[s].put ELSE edge
    /\ raced' = IF tx[s].rows = {} THEN raced
                ELSE IF tx[s].alone THEN raced /\ ~wrote ELSE TRUE
    /\ belated' = belated \ tx[s].rows /\ unpurged' = unpurged \ tx[s].rows
    /\ IF tx[s].rows = {}
       THEN tx' = [tx EXCEPT ![s] = Onwards(s)]
       ELSE AfterCommit(s, Onwards(s), wrote /\ tx[s].put = Absent)
    /\ UNCHANGED <<agg, changes, lapses>>

\* _delete_activity_for_strava: the row only, also of a promoted ride.
DeleteByWebhook(a) ==
    /\ ride[a] # "gone" /\ ~SportChanging(a)
    /\ ride' = [ride EXCEPT ![a] = "gone"]
    /\ unpurged' = unpurged \cup ({a} \cap contrib)
    /\ UNCHANGED <<contrib, edge, agg, tx, changes, raced, belated, lapses>>

\* A deadlock, a lost connection: the transaction is undone.  A change of
\* sport that cannot write the trace again still refreshes what it purged.
Abort(s) ==
    /\ tx[s].pc \in Updating \cup Purging
    /\ tx' = [tx EXCEPT ![s] = IF tx[s].pc \in Updating /\ tx[s].ways
                               THEN [NoTransaction EXCEPT !.pc = "committed"]
                               ELSE NoTransaction]
    /\ UNCHANGED <<ride, contrib, edge, agg, changes, raced, belated, unpurged, lapses>>

-----------------------------------------------------------------------------
(* _maintain_heat_agg, recompute_heat_agg_for_ways: DELETE, then INSERT ... *)
(* SELECT ... ON CONFLICT DO UPDATE, in a transaction of their own          *)

BeginRefresh(s) ==
    /\ tx[s].pc = "committed"
    /\ tx' = [tx EXCEPT ![s].pc = "clear", ![s].seen = Exists(agg)]
    /\ UNCHANGED <<ride, contrib, edge, agg, changes, raced, belated, unpurged, lapses>>

ClearAgg(s) ==
    /\ tx[s].pc = "clear"
    /\ \/ /\ tx[s].seen /\ Unlocked(s, "agg")
          /\ tx' = [tx EXCEPT ![s].pc = "select", ![s].held = {"agg"},
                              ![s].seen = FALSE]
       \/ ~tx[s].seen /\ Goes(s, "select")
    /\ UNCHANGED <<ride, contrib, edge, agg, changes, raced, belated, unpurged, lapses>>

SelectEdges(s) ==
    /\ tx[s].pc = "select"
    /\ tx' = [tx EXCEPT ![s].pc = "insert", ![s].put = edge]
    /\ UNCHANGED <<ride, contrib, edge, agg, changes, raced, belated, unpurged, lapses>>

\* A row that was deleted and inserted again is not the one others saw, and
\* a session that has its counts and no lock will write them over newer ones.
Refreshed(s) ==
    tx' = [t \in Sessions |->
              IF t = s THEN NoTransaction
              ELSE [tx[t] EXCEPT !.seen   = @ /\ ~(tx[t].pc = "clear" /\ "agg" \in tx[s].held),
                                 !.passed = @ \/ tx[t].pc = "insert"]]

InsertAgg(s) ==
    /\ tx[s].pc = "insert"
    /\ \/ /\ Exists(tx[s].put) /\ Unlocked(s, "agg")
          /\ agg' = tx[s].put
          /\ lapses' = IF tx[s].put = edge THEN {}
                       ELSE IF tx[s].passed THEN lapses \cup {"overtaken"} ELSE lapses
       \/ /\ ~Exists(tx[s].put) /\ "agg" \in tx[s].held
          /\ agg' = Absent
          /\ lapses' = IF edge = Absent THEN {} ELSE lapses
       \/ /\ ~Exists(tx[s].put) /\ "agg" \notin tx[s].held
          /\ lapses' = IF edge = Absent /\ Exists(agg) THEN lapses \cup {"overtaken"}
                       ELSE lapses
          /\ UNCHANGED agg
    /\ Refreshed(s)
    /\ UNCHANGED <<ride, contrib, edge, changes, raced, belated, unpurged>>

\* Best effort: the edge is committed whatever becomes of the aggregate.
RefreshFails(s) ==
    /\ tx[s].pc \in Refreshing
    /\ tx' = [tx EXCEPT ![s] = NoTransaction]
    /\ lapses' = lapses \cup {"failed"}
    /\ UNCHANGED <<ride, contrib, edge, agg, changes, raced, belated, unpurged>>

\* backfill_heat_agg: TRUNCATE waits for every session that has touched the
\* table and keeps the others out until the commit.
Backfill ==
    /\ \A s \in Sessions : tx[s].pc \notin {"clear", "select", "insert"}
    /\ agg' = edge /\ lapses' = {}
    /\ UNCHANGED <<ride, contrib, edge, tx, changes, raced, belated, unpurged>>

-----------------------------------------------------------------------------

EdgeNext ==
    \/ \E s \in Sessions, a \in Activities :
          HeatTask(s, a) \/ Delete(s, a) \/ ChangeSport(s, a)
    \/ \E s \in Sessions :
          \/ Contribute(s) \/ UpsertEdge(s) \/ CommitHeat(s)
          \/ Recount(s) \/ Rewrite(s) \/ Prune(s) \/ Drop(s) \/ CommitPurge(s)
          \/ Abort(s)
          \/ BeginRefresh(s) \/ ClearAgg(s) \/ SelectEdges(s) \/ InsertAgg(s)
          \/ RefreshFails(s)
    \/ \E a \in Activities : DeleteByWebhook(a)
    \/ Backfill

EdgeSpec == EdgeInit /\ [][EdgeNext]_edgeVars

-----------------------------------------------------------------------------
(* Properties *)

(* However tasks are repeated, retried and interleaved, the edge counts each *)
(* activity once and each rider once, unless a purge has rewritten or left   *)
(* its counts while somebody else committed to it; the next purge that is    *)
(* alone puts them right.                                                    *)
CountsAreExact == ~raced => edge = Counted(contrib)

(* Orphan contributors would be counted by the next edge of that key; no      *)
(* foreign key forbids them, only the trigger on heat_edges, which sees what  *)
(* is there when the edge is deleted (alembic 0046).                          *)
ContributorsHaveTheirEdge == contrib # {} => Exists(edge)

(* The aggregate shows the edge, or a session that has committed to the edge *)
(* is still to refresh it, or a refresh has failed, or one that found no     *)
(* aggregate row to lock was overtaken: it has written older counts over     *)
(* newer ones, or left a row inserted since it had looked.                   *)
ToRefresh(s) ==
    \/ tx[s].pc \in Updating /\ tx[s].ways
    \/ tx[s].pc \in {"committed", "clear", "select"}
    \/ tx[s].pc = "insert" /\ tx[s].put = edge
AggregateFollows ==
    agg = edge \/ lapses # {} \/ \E s \in Sessions : ToRefresh(s)

(* A contribution outlives its activity, or the sport it was ridden in, only *)
(* if it was written after the purge had looked, or if the activity was      *)
(* removed by an event of Strava, which purges nothing.                      *)
NoHeatWithoutARide ==
    \A a \in contrib : ride[a] = "here" \/ a \in belated \cup unpurged

(* "pass_count == contributor-row count by construction since 0052"          *)
(* (services/activity_deletion.py).                                          *)
PassCountIsContributorCount == edge.pass = Cardinality(contrib)

(* The refresh is "idempotent, concurrency-safe, and self-healing"           *)
(* (jobs/rebuild_heat_agg.py): when all is quiet and none has failed, the    *)
(* aggregate shows the edge.                                                 *)
RefreshIsConcurrencySafe ==
    (\A s \in Sessions : tx[s].pc = "idle") /\ "failed" \notin lapses => agg = edge

(* "Cascade to heat_edge_contributors via PR #318 trigger"                   *)
(* (api/internal_strava_webhook.py, of the delete event).                    *)
WebhookDeleteCascades == unpurged = {}
=============================================================================
