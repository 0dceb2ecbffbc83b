-------------------------- MODULE ActivityProvenance --------------------------
(***************************************************************************)
(* Where the rows of the activities table come from, and which of them may *)
(* be drawn on the public map (services/provenance.py).                    *)
(*                                                                         *)
(* One user and one physical ride, which arrives many times: as files the  *)
(* user uploads (ingest_activity: single GPX, zip member, archive drain),  *)
(* and through the Strava API (ingest_activities_bulk: import, webhook,    *)
(* resync), whose rows a GPS upgrade (api/integrations_strava.py) rewrites *)
(* later.  Every path reads the table in one statement and writes it in a  *)
(* later one.                                                              *)
(***************************************************************************)
EXTENDS Naturals, FiniteSets

CONSTANTS
    Rows,        \* supply of activity ids, in order of creation
    Copies,      \* distinct files that record the ride
    Dated,       \* the copies with a start time and a distance
    NoHash,      \* file_hash IS NULL
    Uploads,     \* ingest_activity calls that may be in flight together
    Syncs,       \* ingest_activities_bulk calls that may be in flight together
    Upgrades,    \* GPS upgrade loops that may run together
    OldRide,     \* the ride is older than the 5 years the bulk path preloads
    SameClock,   \* Strava's start_date_local, read as UTC, is the ride's start
    MaxVersion   \* bound: changes of the display-coords parameters

ASSUME RowsAssumption == Rows \subseteq Nat
ASSUME CopiesAssumption ==
    /\ Dated \subseteq Copies
    /\ NoHash \notin Copies
    /\ Copies \cap {"polyline", "stream", "none"} = {}
ASSUME VersionAssumption == MaxVersion \in Nat
ASSUME RideAssumption == OldRide \in BOOLEAN /\ SameClock \in BOOLEAN

VARIABLES
    rows, used,      \* ids present in activities; ids ever handed out
    act,             \* their columns
    pend,            \* what each upload decided to write
    fetched,         \* a sync's preload found nothing to skip
    batch,           \* rows a GPS upgrade is fetching streams for
    fill,            \* the row the display-coords backfill is rewriting
    version,         \* current display_coords_fingerprint()
    (* history *)
    agreed,          \* copies uploaded with a recorded consent
    refused,         \* consented copies dropped with no eligible row for the ride
    overtaken,       \* rows whose uploaded geometry a GPS upgrade overwrote
    contested,       \* rows promoted again after they were promoted
    saw              \* the ids the writer of a row had read

tableVars   == <<rows, used, act>>
jobVars     == <<fetched, batch, fill, version>>
historyVars == <<agreed, refused, overtaken, contested, saw>>
vars == <<tableVars, pend, jobVars, historyVars>>

-----------------------------------------------------------------------------
Geometry == Copies \cup {"polyline", "stream"}

(* dated: the stored start time and distance are those of the ride.         *)
Activity ==
    [provider: {"strava", "file"}, source: {"strava_api", "manual_upload"},
     contribute: BOOLEAN, geom: Geometry, kind: {"polyline", "stream"},
     dated: BOOLEAN, hash: Copies \cup {NoHash},
     cache: Geometry \cup {"none"}, stamp: 0..MaxVersion]

(* What a row synced from the Strava API looks like: its activity_date is    *)
(* start_date_local, a wall-clock time that the code takes for UTC.          *)
Synced(pref) ==
    [provider |-> "strava", source |-> "strava_api", contribute |-> pref,
     geom |-> "polyline", kind |-> "polyline", dated |-> SameClock,
     hash |-> NoHash, cache |-> "none", stamp |-> 0]

Idle   == [op |-> "idle"]
NoFill == [row |-> "none"]

Pending ==
    {Idle}
    \cup [op: {"insert"}, copy: Copies, consent: BOOLEAN, saw: SUBSET Rows]
    \cup [op: {"promote"}, copy: Copies, consent: BOOLEAN, saw: SUBSET Rows,
          row: Rows, loaded: BOOLEAN]

TypeOK ==
    /\ rows \subseteq used /\ used \subseteq Rows
    /\ act \in [Rows -> Activity]
    /\ pend \in [Uploads -> Pending]
    /\ fetched \in [Syncs -> BOOLEAN]
    /\ batch \in [Upgrades -> SUBSET Rows]
    /\ fill \in {NoFill} \cup [row: Rows, geom: Geometry, stamp: 0..MaxVersion]
    /\ version \in 0..MaxVersion
    /\ agreed \subseteq Copies
    /\ refused \subseteq Copies
    /\ overtaken \subseteq Rows
    /\ contested \subseteq Rows
    /\ saw \in [Rows -> SUBSET Rows]

Init ==
    /\ rows = {} /\ used = {}
    /\ act = [i \in Rows |-> Synced(FALSE)]
    /\ pend = [u \in Uploads |-> Idle]
    /\ fetched = [s \in Syncs |-> FALSE]
    /\ batch = [g \in Upgrades |-> {}]
    /\ fill = NoFill
    /\ version = 0
    /\ agreed = {} /\ refused = {} /\ overtaken = {} /\ contested = {}
    /\ saw = [i \in Rows |-> {}]

-----------------------------------------------------------------------------
Community(i) == act[i].source = "manual_upload"

(* community_eligible_conditions; every row has a geometry (husk guard). *)
Eligible(i) == i \in rows /\ Community(i) /\ act[i].contribute

(* _stream_activities: the blob if its stamp is current, else the geometry. *)
Drawn(i) ==
    IF act[i].cache # "none" /\ act[i].stamp = version
    THEN act[i].cache ELSE act[i].geom

SameFile(c) == {i \in rows : act[i].hash = c}

SameRideNotCommunity(c) ==                                          \* seeded fault
    {i \in rows : c \in Dated /\ act[i].dated /\ ~Community(i)}

(* Same user, start within 5 minutes, distance within 5 %. *)
SameRide(c) == {i \in rows : c \in Dated /\ act[i].dated}

Fresh(i) == i \in Rows \ used /\ \A j \in Rows \ used : i <= j

-----------------------------------------------------------------------------
(* ingest_activity with source = 'manual_upload': the duplicate checks and  *)
(* the load of the row to promote come first ...                            *)

(* By hash, or because the duplicate query, which prefers a community row,  *)
(* returns one that should_promote_to_community leaves alone.               *)
AlreadyThere(c) ==
    SameFile(c) # {} \/ \E i \in SameRide(c) : Community(i)

UploadExists(u, c, consent) ==
    /\ pend[u] = Idle
    /\ AlreadyThere(c)
    /\ agreed' = IF consent THEN agreed \cup {c} ELSE agreed
    /\ refused' = IF consent /\ ~\E i \in rows : Eligible(i)
                  THEN refused \cup {c} ELSE refused
    /\ UNCHANGED <<tableVars, pend, jobVars, overtaken, contested, saw>>

UploadCheck(u, c, consent) ==
    /\ pend[u] = Idle
    /\ ~AlreadyThere(c)
    /\ \/ /\ SameRide(c) = {}
          /\ pend' = [pend EXCEPT ![u] =
                [op |-> "insert", copy |-> c, consent |-> consent, saw |-> rows]]
       \/ \E i \in SameRide(c) :
             pend' = [pend EXCEPT ![u] =
                [op |-> "promote", copy |-> c, consent |-> consent, saw |-> rows,
                 row |-> i, loaded |-> act[i].contribute]]
    /\ agreed' = IF consent THEN agreed \cup {c} ELSE agreed
    /\ UNCHANGED <<tableVars, jobVars, refused, overtaken, contested, saw>>

(* ... the write, in the same session, later.  Nothing in the table is      *)
(* unique about file_hash or about a ride.                                  *)
UploadInsert(u) ==
    /\ pend[u].op = "insert"
    /\ LET p == pend[u] IN
       \E i \in Rows : \E cached \in BOOLEAN : \E kind \in {"polyline", "stream"} :
         /\ Fresh(i)
         /\ rows' = rows \cup {i} /\ used' = used \cup {i}
         /\ act' = [act EXCEPT ![i] =
               [provider |-> "file", source |-> "manual_upload",
                contribute |-> p.consent, geom |-> p.copy, kind |-> kind,
                dated |-> p.copy \in Dated, hash |-> p.copy,
                cache |-> IF p.consent /\ cached THEN p.copy ELSE "none",
                stamp |-> version]]
         /\ saw' = [saw EXCEPT ![i] = p.saw]
    /\ pend' = [pend EXCEPT ![u] = Idle]
    /\ UNCHANGED <<jobVars, agreed, refused, overtaken, contested>>

PromotedKeepingIntent(i, p, cached) ==                              \* seeded fault
    [provider |-> act[i].provider, source |-> "manual_upload",
     contribute |-> act[i].contribute,
     geom |-> p.copy, kind |-> "stream", dated |-> act[i].dated, hash |-> p.copy,
     cache |-> IF cached THEN p.copy ELSE act[i].cache,
     stamp |-> IF cached THEN version ELSE act[i].stamp]

PromotedKeepingKind(i, p, cached) ==                                \* seeded fault
    [provider |-> act[i].provider, source |-> "manual_upload",
     contribute |-> p.consent,
     geom |-> p.copy, kind |-> act[i].kind, dated |-> act[i].dated, hash |-> p.copy,
     cache |-> IF cached THEN p.copy ELSE act[i].cache,
     stamp |-> IF cached THEN version ELSE act[i].stamp]

(* _promote_activity_to_community.  The ORM writes the columns whose value  *)
(* differs from the one it loaded: an equal contribute_heatmap, or a NULL   *)
(* cache over a NULL one, is not part of the UPDATE (no row that is still   *)
(* to be promoted has a cache).                                             *)
Promoted(i, p, cached) ==
    [provider |-> act[i].provider, source |-> "manual_upload",
     contribute |-> IF p.consent = p.loaded THEN act[i].contribute ELSE p.consent,
     geom |-> p.copy, kind |-> "stream", dated |-> act[i].dated, hash |-> p.copy,
     cache |-> IF cached THEN p.copy ELSE act[i].cache,
     stamp |-> IF cached THEN version ELSE act[i].stamp]

UploadPromoteOrAdd(u) ==                                            \* seeded fault
    /\ pend[u].op = "promote"
    /\ LET p == pend[u] IN
         /\ rows' = rows \cup {p.row}
         /\ \E cached \in BOOLEAN :
              /\ cached => p.consent
              /\ act' = [act EXCEPT ![p.row] = Promoted(p.row, p, cached)]
         /\ contested' = IF Community(p.row) THEN contested \cup {p.row} ELSE contested
         /\ saw' = [saw EXCEPT ![p.row] = p.saw]
    /\ pend' = [pend EXCEPT ![u] = Idle]
    /\ UNCHANGED <<used, jobVars, agreed, refused, overtaken>>

UploadPromote(u) ==
    /\ pend[u].op = "promote"
    /\ LET p == pend[u] IN
         /\ p.row \in rows
         /\ \E cached \in BOOLEAN :
              /\ cached => p.consent
              /\ act' = [act EXCEPT ![p.row] = Promoted(p.row, p, cached)]
         /\ contested' = IF Community(p.row) THEN contested \cup {p.row} ELSE contested
         /\ saw' = [saw EXCEPT ![p.row] = p.saw]
    /\ pend' = [pend EXCEPT ![u] = Idle]
    /\ UNCHANGED <<rows, used, jobVars, agreed, refused, overtaken>>

(* The call raises or its process dies; an UPDATE of a row deleted in the   *)
(* meantime matches nothing, and the ORM raises.                            *)
UploadFails(u) ==
    /\ pend[u] # Idle
    /\ pend' = [pend EXCEPT ![u] = Idle]
    /\ UNCHANGED <<tableVars, jobVars, historyVars>>

-----------------------------------------------------------------------------
(* ingest_activities_bulk with source = 'strava_api'.  The per-user lock is *)
(* given up after 15 s, and the other writers do not take it.               *)

SyncPreload(s) ==
    /\ ~fetched[s]
    /\ \A i \in rows : act[i].provider # "strava"
    /\ OldRide \/ ~SameClock \/ \A i \in rows : ~act[i].dated
    /\ fetched' = [fetched EXCEPT ![s] = TRUE]
    /\ UNCHANGED <<tableVars, pend, batch, fill, version, historyVars>>

(* UniqueConstraint(user_id, provider, provider_activity_id): a Strava row   *)
(* inserted since the preload makes this one a duplicate, skipped.           *)
SyncFlush(s) ==
    /\ fetched[s]
    /\ fetched' = [fetched EXCEPT ![s] = FALSE]
    /\ IF \E i \in rows : act[i].provider = "strava"
       THEN UNCHANGED <<tableVars, saw>>
       ELSE \E i \in Rows : \E pref \in BOOLEAN :
              /\ Fresh(i)
              /\ rows' = rows \cup {i} /\ used' = used \cup {i}
              /\ act' = [act EXCEPT ![i] = Synced(pref)]
              /\ UNCHANGED saw
    /\ UNCHANGED <<pend, batch, fill, version, agreed, refused, overtaken, contested>>

-----------------------------------------------------------------------------
(* _run_gps_upgrade: read a batch of polyline rows, fetch their streams from *)
(* the Strava API, write the streams by id.                                  *)

UpgradeFetch(g) ==
    /\ batch[g] = {}
    /\ batch' = [batch EXCEPT ![g] =
           {i \in rows : act[i].provider = "strava" /\ act[i].kind = "polyline"}]
    /\ UNCHANGED <<tableVars, pend, fetched, fill, version, historyVars>>

(* A stream for some rows, "mark as stream" for those whose fetch failed,    *)
(* nothing for the rate-limited ones and those after an expired token.       *)
Upgraded(i, got, marked) ==
    IF i \in got THEN [act[i] EXCEPT !.geom = "stream", !.kind = "stream"]
    ELSE IF i \in marked THEN [act[i] EXCEPT !.kind = "stream"]
    ELSE act[i]

UpgradeApply(g) ==
    /\ batch[g] # {}
    /\ \E got \in SUBSET batch[g] : \E marked \in SUBSET (batch[g] \ got) :
         /\ act' = [i \in Rows |->
               IF i \in rows THEN Upgraded(i, got, marked) ELSE act[i]]
         /\ overtaken' = overtaken \cup {i \in rows \cap got : Community(i)}
    /\ batch' = [batch EXCEPT ![g] = {}]
    /\ UNCHANGED <<rows, used, pend, fetched, fill, version, agreed, refused, contested, saw>>

-----------------------------------------------------------------------------
(* backfill_display_coords: a streaming read, and an UPDATE by id later.     *)

BackfillRead(i) ==
    /\ fill = NoFill
    /\ Eligible(i)
    /\ act[i].cache = "none" \/ act[i].stamp # version
    /\ fill' = [row |-> i, geom |-> act[i].geom, stamp |-> version]
    /\ UNCHANGED <<tableVars, pend, fetched, batch, version, historyVars>>

BackfillWrite ==
    /\ fill # NoFill
    /\ act' = IF fill.row \in rows
              THEN [act EXCEPT ![fill.row] =
                      [@ EXCEPT !.cache = fill.geom, !.stamp = fill.stamp]]
              ELSE act
    /\ fill' = NoFill
    /\ UNCHANGED <<rows, used, pend, fetched, batch, version, historyVars>>

(* A deploy changes the clipping box or the span of display_coords. *)
NewParameters ==
    /\ version < MaxVersion
    /\ version' = version + 1
    /\ UNCHANGED <<tableVars, pend, fetched, batch, fill, historyVars>>

(* The user deletes the activity, or Strava reports it deleted. *)
Delete(i) ==
    /\ i \in rows
    /\ rows' = rows \ {i}
    /\ act' = [act EXCEPT ![i] = Synced(FALSE)]
    /\ saw' = [saw EXCEPT ![i] = {}]
    /\ UNCHANGED <<used, pend, jobVars, agreed, refused, overtaken, contested>>

-----------------------------------------------------------------------------
Upload(u) ==
    \/ \E c \in Copies, consent \in BOOLEAN :
          UploadExists(u, c, consent) \/ UploadCheck(u, c, consent)
    \/ UploadInsert(u)
    \/ UploadPromote(u)
    \/ UploadFails(u)

Next ==
    \/ \E u \in Uploads : Upload(u)
    \/ \E s \in Syncs : SyncPreload(s) \/ SyncFlush(s)
    \/ \E g \in Upgrades : UpgradeFetch(g) \/ UpgradeApply(g)
    \/ \E i \in Rows : BackfillRead(i) \/ Delete(i)
    \/ BackfillWrite
    \/ NewParameters

Spec == Init /\ [][Next]_vars

-----------------------------------------------------------------------------
(* Safety *)

(* What the public map draws of an eligible row was uploaded by its owner    *)
(* with a recorded consent: never a Strava-API trace, never a file uploaded  *)
(* as personal, and never an outdated blob of one.  Excepted are the two     *)
(* races below: a row overtaken by a GPS upgrade, a row promoted twice.      *)
PublishedUnderConsent ==
    \A i \in Rows :
        Eligible(i) /\ i \notin overtaken \cup contested => Drawn(i) \in agreed

(* Two eligible rows of one ride are two counts in the community layer.      *)
(* They come about only when neither writer could see the other's row.       *)
DuplicatesWereConcurrent ==
    \A i, j \in Rows :
        /\ Eligible(i) /\ Eligible(j) /\ i # j
        /\ (act[i].dated /\ act[j].dated) \/ act[i].hash = act[j].hash
        => i \notin saw[j]

(* The GPS upgrade keeps off community rows: none is in polyline state under *)
(* a Strava id, the promoted ones included.                                  *)
UpgradeSparesCommunity ==
    [][\A g \in Upgrades : \A i \in batch'[g] \ batch[g] : ~Community(i)]_vars

(* The store keeps what ConsentLedger promises: a public row shows one       *)
(* recording, agreed to, from the step that published it until its deletion, *)
(* through blobs that are refreshed or go stale, and no write that was       *)
(* decided before a deletion brings the row back.                            *)
Ledger == INSTANCE ConsentLedger WITH
    Traces   <- Geometry,
    Nothing  <- "none",
    ever     <- used,
    present  <- rows,
    shown    <- [i \in Rows |-> IF Eligible(i) THEN Drawn(i) ELSE "none"],
    disputed <- overtaken \cup contested

KeepsTheLedger == Ledger!Spec

-----------------------------------------------------------------------------
(* Statements of the sources that the code does not keep *)

(* _promote_activity_to_community: the stored geometry of a promoted row is  *)
(* the uploaded one, "NOT Strava-API data, so a future rebuild_heatmap reads *)
(* compliant geometry".                                                      *)
CommunityGeometryIsUploaded ==
    \A i \in rows : Community(i) => act[i].geom \in Copies

(* drain_pending_archives: a re-run of a partially processed archive         *)
(* "re-ingests members without creating duplicates".                         *)
NoDuplicateFile ==
    \A i, j \in rows :
        i # j /\ act[i].hash # NoHash => act[i].hash # act[j].hash

(* _ingest_activities_bulk_impl: the preload "catches the GPX -> Strava trap: *)
(* user uploads morning_ride.gpx manually, then connects Strava".            *)
PreloadFindsUpload ==
    [][\A s \in Syncs : SyncPreload(s) => \A i \in rows : act[i].hash \notin Dated]_vars

(* should_promote_to_community: when the community-eligible copy arrives and *)
(* the twin is not community-eligible, "we must not simply drop the upload". *)
ConsentedUploadServed == refused = {}

(* _promote_activity_to_community adopts "the INCOMING upload's              *)
(* contribute_heatmap intent".                                               *)
PromotionAdoptsIntent ==
    [][\A u \in Uploads : UploadPromote(u) =>
          act'[pend[u].row].contribute = pend[u].consent]_vars
=============================================================================
