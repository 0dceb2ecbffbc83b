---------------------- MODULE ActivityProvenanceProofs ----------------------
(***************************************************************************)
(* Proofs about ActivityProvenance, for any number of rows, files, uploads, *)
(* syncs and upgrade loops: type correctness; what the public map draws was *)
(* uploaded with consent; the GPS upgrade keeps off community rows;         *)
(* duplicates of a ride come from concurrent writers only; and the store    *)
(* implements ConsentLedger.                                                *)
(***************************************************************************)
EXTENDS ActivityProvenance, TLAPS

(* A row is unflagged as long as neither race has touched it. *)
Unflagged(i) == i \notin overtaken \cup contested

(* What an upload in flight has decided still agrees with the table. *)
PendingFaithful ==
    \A u \in Uploads :
        /\ pend[u].op # "idle" =>
              /\ pend[u].consent => pend[u].copy \in agreed
              /\ pend[u].saw \subseteq used
        /\ pend[u].op = "promote" =>
              /\ pend[u].row \in used
              /\ pend[u].copy \in Dated
              /\ pend[u].row \in rows =>
                    /\ act[pend[u].row].dated
                    /\ act[pend[u].row].provider = "strava"
                    /\ ~Community(pend[u].row) =>
                          act[pend[u].row].contribute = pend[u].loaded

(* The row the backfill holds was eligible when it was read. *)
FillFaithful ==
    fill # NoFill =>
        /\ fill.row \in used
        /\ fill.row \in rows => Community(fill.row)
        /\ Unflagged(fill.row) => fill.geom \in agreed

(* Neither the geometry nor the blob of an unflagged community row was       *)
(* stored without consent.                                                   *)
StoredUnderConsent ==
    \A i \in rows :
        /\ Community(i) /\ Unflagged(i) =>
              /\ act[i].contribute => act[i].geom \in agreed
              /\ act[i].cache # "none" => act[i].cache \in agreed
        /\ ~Community(i) => act[i].cache = "none"

(* A row with a Strava id that is a community row was promoted. *)
PromotedIsStream ==
    \A i \in rows :
        Community(i) /\ act[i].provider = "strava" => act[i].kind = "stream"

(* There is one Strava row, and only it is not a community row.              *)
OneStravaRow ==
    /\ \A i, j \in rows :
          act[i].provider = "strava" /\ act[j].provider = "strava" => i = j
    /\ \A i \in rows :
          /\ ~Community(i) => act[i].provider = "strava"
          /\ ~act[i].dated => act[i].hash \notin Dated

(* The rows an upload saw do not match its file, except the one it promotes. *)
PendingSawNoTwin ==
    \A u \in Uploads : pend[u].op # "idle" =>
        \A i \in pend[u].saw \cap rows :
            \/ pend[u].op = "promote" /\ i = pend[u].row
            \/ /\ pend[u].copy \in Dated => ~act[i].dated
               /\ act[i].hash # pend[u].copy

(* Nor do the rows the writer of a community row saw. *)
WriterSawNoTwin ==
    \A j \in rows : Community(j) =>
        /\ saw[j] \subseteq used
        /\ act[j].hash # NoHash
        /\ \A i \in saw[j] \cap rows : i # j =>
              /\ ~(act[i].dated /\ act[j].dated)
              /\ act[i].hash # act[j].hash

(* The inductive invariant. *)
Inv ==
    /\ TypeOK
    /\ OneStravaRow
    /\ PendingFaithful
    /\ FillFaithful
    /\ StoredUnderConsent
    /\ PromotedIsStream
    /\ PendingSawNoTwin
    /\ WriterSawNoTwin

-----------------------------------------------------------------------------
LEMMA CopiesAreGeometry ==
    /\ Copies \subseteq Geometry
    /\ \A c \in Copies : c # "none" /\ c # NoHash
BY CopiesAssumption DEF Geometry

LEMMA PendingCases ==
    ASSUME NEW p \in Pending
    PROVE  /\ p.op \in {"idle", "insert", "promote"}
           /\ p.op # "idle" => /\ p.copy \in Copies
                               /\ p.consent \in BOOLEAN
                               /\ p.saw \in SUBSET Rows
           /\ p.op = "promote" => p.row \in Rows /\ p.loaded \in BOOLEAN
BY DEF Pending, Idle

LEMMA PromotedEffect ==
    ASSUME TypeOK, NEW u \in Uploads, pend[u].op = "promote", NEW cached \in BOOLEAN
    PROVE  Promoted(pend[u].row, pend[u], cached) \in Activity
<1> DEFINE p == pend[u]
<1>1. p \in Pending BY DEF TypeOK
<1>2. p.row \in Rows /\ p.copy \in Copies /\ p.consent \in BOOLEAN /\ p.loaded \in BOOLEAN
  BY <1>1, PendingCases
<1>3. act[p.row] \in Activity BY <1>2 DEF TypeOK
<1>4. QED
  BY <1>2, <1>3, CopiesAreGeometry DEF Promoted, Activity, TypeOK

LEMMA UpgradedEffect ==
    ASSUME TypeOK, NEW i \in Rows, NEW got, NEW marked
    PROVE  /\ Upgraded(i, got, marked) \in Activity
           /\ Upgraded(i, got, marked).provider = act[i].provider
           /\ Upgraded(i, got, marked).source = act[i].source
           /\ Upgraded(i, got, marked).contribute = act[i].contribute
           /\ Upgraded(i, got, marked).dated = act[i].dated
           /\ Upgraded(i, got, marked).hash = act[i].hash
           /\ Upgraded(i, got, marked).cache = act[i].cache
           /\ i \notin got => Upgraded(i, got, marked).geom = act[i].geom
           /\ act[i].kind = "stream" => Upgraded(i, got, marked).kind = "stream"
<1>1. act[i] \in Activity BY DEF TypeOK
<1>2. CASE i \in got
  <2>1. Upgraded(i, got, marked) = [act[i] EXCEPT !.geom = "stream", !.kind = "stream"]
    BY <1>2 DEF Upgraded
  <2>2. QED BY <1>1, <1>2, <2>1 DEF Activity, Geometry
<1>3. CASE i \notin got /\ i \in marked
  <2>1. Upgraded(i, got, marked) = [act[i] EXCEPT !.kind = "stream"]
    BY <1>3 DEF Upgraded
  <2>2. QED BY <1>1, <1>3, <2>1 DEF Activity, Geometry
<1>4. CASE i \notin got /\ i \notin marked
  <2>1. Upgraded(i, got, marked) = act[i]
    BY <1>4 DEF Upgraded
  <2>2. QED BY <1>1, <1>4, <2>1
<1>5. QED BY <1>2, <1>3, <1>4

LEMMA SyncedEffect ==
    ASSUME NEW pref \in BOOLEAN
    PROVE  Synced(pref) \in Activity
BY VersionAssumption, RideAssumption, CopiesAssumption DEF Synced, Activity, Geometry

-----------------------------------------------------------------------------
LEMMA TypeInit == Init => TypeOK
<1> SUFFICES ASSUME Init PROVE TypeOK
  OBVIOUS
<1>1. act \in [Rows -> Activity]
  BY SyncedEffect DEF Init
<1>2. pend \in [Uploads -> Pending]
  BY DEF Init, Pending
<1>3. version \in 0..MaxVersion
  BY VersionAssumption DEF Init
<1>4. QED
  BY <1>1, <1>2, <1>3 DEF Init, TypeOK

LEMMA TypeStep == TypeOK /\ [Next]_vars => TypeOK'
<1> SUFFICES ASSUME TypeOK, [Next]_vars PROVE TypeOK'
  OBVIOUS
<1> USE VersionAssumption
<1>1. ASSUME NEW u \in Uploads, NEW c \in Copies, NEW consent \in BOOLEAN,
             UploadExists(u, c, consent)
      PROVE  TypeOK'
  BY <1>1 DEF TypeOK, UploadExists, tableVars, jobVars
<1>2. ASSUME NEW u \in Uploads, NEW c \in Copies, NEW consent \in BOOLEAN,
             UploadCheck(u, c, consent)
      PROVE  TypeOK'
  <2>1. pend' \in [Uploads -> Pending]
    <3>1. CASE pend' = [pend EXCEPT ![u] =
                [op |-> "insert", copy |-> c, consent |-> consent, saw |-> rows]]
      BY <3>1 DEF TypeOK, Pending
    <3>2. ASSUME NEW i \in SameRide(c),
                 pend' = [pend EXCEPT ![u] =
                [op |-> "promote", copy |-> c, consent |-> consent, saw |-> rows,
                 row |-> i, loaded |-> act[i].contribute]]
          PROVE  pend' \in [Uploads -> Pending]
      <4>1. i \in Rows BY DEF SameRide, TypeOK
      <4>2. act[i].contribute \in BOOLEAN BY <4>1 DEF TypeOK, Activity
      <4>3. QED BY <3>2, <4>1, <4>2 DEF TypeOK, Pending
    <3>3. QED BY <1>2, <3>1, <3>2 DEF UploadCheck
  <2>2. QED BY <1>2, <2>1 DEF TypeOK, UploadCheck, tableVars, jobVars
<1>3. ASSUME NEW u \in Uploads, UploadInsert(u)
      PROVE  TypeOK'
  <2>1. pend[u] \in Pending /\ pend[u].op # "idle" BY <1>3 DEF TypeOK, UploadInsert
  <2>2. pend[u].copy \in Copies /\ pend[u].consent \in BOOLEAN /\ pend[u].saw \in SUBSET Rows
    BY <2>1, PendingCases
  <2>3. PICK i \in Rows, cached \in BOOLEAN, kind \in {"polyline", "stream"} :
         /\ Fresh(i)
         /\ rows' = rows \cup {i} /\ used' = used \cup {i}
         /\ act' = [act EXCEPT ![i] =
               [provider |-> "file", source |-> "manual_upload",
                contribute |-> pend[u].consent, geom |-> pend[u].copy, kind |-> kind,
                dated |-> pend[u].copy \in Dated, hash |-> pend[u].copy,
                cache |-> IF pend[u].consent /\ cached THEN pend[u].copy ELSE "none",
                stamp |-> version]]
         /\ saw' = [saw EXCEPT ![i] = pend[u].saw]
    BY <1>3 DEF UploadInsert
  <2>4. act' \in [Rows -> Activity]
    BY <2>2, <2>3, CopiesAreGeometry DEF TypeOK, Activity
  <2>5. pend' \in [Uploads -> Pending]
    BY <1>3 DEF TypeOK, UploadInsert, Pending
  <2>6. saw' \in [Rows -> SUBSET Rows]
    BY <2>2, <2>3 DEF TypeOK
  <2>7. QED BY <1>3, <2>3, <2>4, <2>5, <2>6 DEF TypeOK, UploadInsert, jobVars
<1>4. ASSUME NEW u \in Uploads, UploadPromote(u)
      PROVE  TypeOK'
  <2>1. pend[u] \in Pending /\ pend[u].op = "promote" BY <1>4 DEF TypeOK, UploadPromote
  <2>2. pend[u].row \in Rows /\ pend[u].saw \in SUBSET Rows
    BY <2>1, PendingCases
  <2>3. PICK cached \in BOOLEAN :
             act' = [act EXCEPT ![pend[u].row] = Promoted(pend[u].row, pend[u], cached)]
    BY <1>4 DEF UploadPromote
  <2>4. act' \in [Rows -> Activity]
    BY <2>1, <2>2, <2>3, PromotedEffect DEF TypeOK
  <2>5. pend' \in [Uploads -> Pending]
    BY <1>4 DEF TypeOK, UploadPromote, Pending
  <2>6. saw' \in [Rows -> SUBSET Rows]
    BY <1>4, <2>2 DEF TypeOK, UploadPromote
  <2>7. contested' \subseteq Rows
    BY <1>4, <2>2 DEF TypeOK, UploadPromote
  <2>8. QED BY <1>4, <2>4, <2>5, <2>6, <2>7 DEF TypeOK, UploadPromote, jobVars
<1>5. ASSUME NEW u \in Uploads, UploadFails(u)
      PROVE  TypeOK'
  BY <1>5 DEF TypeOK, UploadFails, tableVars, jobVars, historyVars, Pending
<1>6. ASSUME NEW s \in Syncs, SyncPreload(s)
      PROVE  TypeOK'
  BY <1>6 DEF TypeOK, SyncPreload, tableVars, historyVars
<1>7. ASSUME NEW s \in Syncs, SyncFlush(s)
      PROVE  TypeOK'
  <2>1. CASE UNCHANGED <<tableVars, saw>>
    BY <1>7, <2>1 DEF TypeOK, SyncFlush, tableVars
  <2>2. ASSUME NEW i \in Rows, NEW pref \in BOOLEAN,
               rows' = rows \cup {i}, used' = used \cup {i},
               act' = [act EXCEPT ![i] = Synced(pref)], UNCHANGED saw
        PROVE  TypeOK'
    BY <1>7, <2>2, SyncedEffect DEF TypeOK, SyncFlush
  <2>3. QED BY <1>7, <2>1, <2>2 DEF SyncFlush
<1>8. ASSUME NEW g \in Upgrades, UpgradeFetch(g)
      PROVE  TypeOK'
  BY <1>8 DEF TypeOK, UpgradeFetch, tableVars, historyVars
<1>9. ASSUME NEW g \in Upgrades, UpgradeApply(g)
      PROVE  TypeOK'
  <2>1. PICK got \in SUBSET batch[g], marked \in SUBSET batch[g] :
          /\ act' = [i \in Rows |-> IF i \in rows THEN Upgraded(i, got, marked) ELSE act[i]]
          /\ overtaken' = overtaken \cup {i \in rows \cap got : Community(i)}
    BY <1>9 DEF UpgradeApply
  <2>2. act' \in [Rows -> Activity]
    BY <2>1, UpgradedEffect DEF TypeOK
  <2>3. overtaken' \subseteq Rows
    BY <2>1 DEF TypeOK
  <2>4. batch' \in [Upgrades -> SUBSET Rows]
    BY <1>9 DEF TypeOK, UpgradeApply
  <2>5. QED BY <1>9, <2>2, <2>3, <2>4 DEF TypeOK, UpgradeApply
<1>10. ASSUME NEW i \in Rows, BackfillRead(i)
       PROVE  TypeOK'
  <2>1. act[i].geom \in Geometry BY DEF TypeOK, Activity
  <2>2. QED BY <1>10, <2>1 DEF TypeOK, BackfillRead, tableVars, historyVars
<1>11. ASSUME NEW i \in Rows, Delete(i)
       PROVE  TypeOK'
  BY <1>11, SyncedEffect DEF TypeOK, Delete, jobVars
<1>12. ASSUME BackfillWrite PROVE TypeOK'
  <2>1. fill.row \in Rows /\ fill.geom \in Geometry /\ fill.stamp \in 0..MaxVersion
    BY <1>12 DEF TypeOK, BackfillWrite
  <2>2. act[fill.row] \in Activity BY <2>1 DEF TypeOK
  <2>3. [act[fill.row] EXCEPT !.cache = fill.geom, !.stamp = fill.stamp] \in Activity
    BY <2>1, <2>2 DEF Activity
  <2>4. act' \in [Rows -> Activity]
    BY <1>12, <2>1, <2>3 DEF TypeOK, BackfillWrite
  <2>5. QED BY <1>12, <2>4 DEF TypeOK, BackfillWrite, historyVars
<1>13. ASSUME NewParameters PROVE TypeOK'
  <2>1. version' \in 0..MaxVersion BY <1>13 DEF TypeOK, NewParameters
  <2>2. fill' = fill /\ UNCHANGED <<tableVars, pend, fetched, batch, historyVars>>
    BY <1>13 DEF NewParameters
  <2>3. QED BY <2>1, <2>2 DEF TypeOK, tableVars, historyVars
<1>14. CASE UNCHANGED vars
  BY <1>14 DEF TypeOK, vars, tableVars, jobVars, historyVars
<1>15. QED
  BY <1>1, <1>2, <1>3, <1>4, <1>5, <1>6, <1>7, <1>8, <1>9, <1>10, <1>11, <1>12, <1>13, <1>14
  DEF Next, Upload

(* Every reachable state is well typed (activities, uploads in flight, sync,  *)
(* upgrade and backfill state).                                              *)
THEOREM TypeCorrect == Spec => []TypeOK
<1>1. QED BY TypeInit, TypeStep, PTL DEF Spec

-----------------------------------------------------------------------------
LEMMA InvInit == Init => Inv
<1> SUFFICES ASSUME Init PROVE Inv
  OBVIOUS
<1>1. \A u \in Uploads : pend[u].op = "idle"
  BY DEF Init, Idle
<1>2. QED
  BY <1>1, TypeInit DEF Init, Inv, OneStravaRow, PendingFaithful, FillFaithful,
     StoredUnderConsent, PromotedIsStream, PendingSawNoTwin, WriterSawNoTwin

(* A step that touches no row, no upload in flight and no flag. *)
LEMMA FrameStep ==
    ASSUME Inv, TypeOK', agreed \subseteq agreed',
           UNCHANGED <<rows, used, act, pend, fill, overtaken, contested, saw>>
    PROVE  Inv'
<1>1. OneStravaRow' BY DEF Inv, OneStravaRow, Community
<1>2. PendingFaithful' BY DEF Inv, PendingFaithful, Community
<1>3. FillFaithful' BY DEF Inv, FillFaithful, Community, Unflagged
<1>4. StoredUnderConsent' BY DEF Inv, StoredUnderConsent, Community, Unflagged
<1>5. PromotedIsStream' BY DEF Inv, PromotedIsStream, Community
<1>6. PendingSawNoTwin' BY DEF Inv, PendingSawNoTwin
<1>7. WriterSawNoTwin' BY DEF Inv, WriterSawNoTwin, Community
<1>8. QED BY <1>1, <1>2, <1>3, <1>4, <1>5, <1>6, <1>7 DEF Inv

LEMMA CheckStep ==
    ASSUME Inv, TypeOK', NEW u \in Uploads, NEW c \in Copies, NEW consent \in BOOLEAN,
           UploadCheck(u, c, consent)
    PROVE  Inv'
<1>1. /\ UNCHANGED <<rows, used, act, fill, overtaken, contested, saw>>
      /\ agreed \subseteq agreed'
      /\ consent => c \in agreed'
      /\ rows \subseteq used
      /\ pend \in [Uploads -> Pending]
  BY DEF UploadCheck, tableVars, jobVars, Inv, TypeOK
<1>2. /\ \A i \in rows : act[i].hash # c
      /\ \A i \in SameRide(c) : ~Community(i)
  BY DEF UploadCheck, AlreadyThere, SameFile
<1>3. \/ /\ SameRide(c) = {}
         /\ pend' = [pend EXCEPT ![u] =
                [op |-> "insert", copy |-> c, consent |-> consent, saw |-> rows]]
      \/ \E i \in SameRide(c) :
            pend' = [pend EXCEPT ![u] =
                [op |-> "promote", copy |-> c, consent |-> consent, saw |-> rows,
                 row |-> i, loaded |-> act[i].contribute]]
  BY DEF UploadCheck
<1>4. PendingFaithful'
  <2>1. CASE pend' = [pend EXCEPT ![u] =
                [op |-> "insert", copy |-> c, consent |-> consent, saw |-> rows]]
    BY <1>1, <2>1 DEF Inv, PendingFaithful, Community
  <2>2. ASSUME NEW i \in SameRide(c),
               pend' = [pend EXCEPT ![u] =
                [op |-> "promote", copy |-> c, consent |-> consent, saw |-> rows,
                 row |-> i, loaded |-> act[i].contribute]]
        PROVE  PendingFaithful'
    <3>1. i \in rows /\ c \in Dated /\ act[i].dated BY DEF SameRide
    <3>2. act[i].provider = "strava" BY <1>2, <3>1 DEF Inv, OneStravaRow
    <3>3. QED BY <1>1, <2>2, <3>1, <3>2 DEF Inv, PendingFaithful, Community
  <2>3. QED BY <1>3, <2>1, <2>2
<1>5. PendingSawNoTwin'
  <2>1. CASE /\ SameRide(c) = {}
             /\ pend' = [pend EXCEPT ![u] =
                [op |-> "insert", copy |-> c, consent |-> consent, saw |-> rows]]
    <3>1. \A i \in rows : c \in Dated => ~act[i].dated BY <2>1 DEF SameRide
    <3>2. QED BY <1>1, <1>2, <2>1, <3>1 DEF Inv, PendingSawNoTwin
  <2>2. ASSUME NEW i \in SameRide(c),
               pend' = [pend EXCEPT ![u] =
                [op |-> "promote", copy |-> c, consent |-> consent, saw |-> rows,
                 row |-> i, loaded |-> act[i].contribute]]
        PROVE  PendingSawNoTwin'
    <3>1. i \in rows /\ c \in Dated BY DEF SameRide
    <3>2. \A j \in rows : j # i => ~act[j].dated
      BY <1>2, <3>1 DEF Inv, OneStravaRow, SameRide
    <3>3. QED BY <1>1, <1>2, <2>2, <3>1, <3>2 DEF Inv, PendingSawNoTwin
  <2>3. QED BY <1>3, <2>1, <2>2
<1>6. OneStravaRow' BY <1>1 DEF Inv, OneStravaRow, Community
<1>7. FillFaithful' BY <1>1 DEF Inv, FillFaithful, Community, Unflagged
<1>8. StoredUnderConsent' BY <1>1 DEF Inv, StoredUnderConsent, Community, Unflagged
<1>9. PromotedIsStream' BY <1>1 DEF Inv, PromotedIsStream, Community
<1>10. WriterSawNoTwin' BY <1>1 DEF Inv, WriterSawNoTwin, Community
<1>11. QED BY <1>4, <1>5, <1>6, <1>7, <1>8, <1>9, <1>10 DEF Inv

LEMMA FailsStep ==
    ASSUME Inv, TypeOK', NEW u \in Uploads, UploadFails(u)
    PROVE  Inv'
<1>1. /\ UNCHANGED <<rows, used, act, fill, agreed, overtaken, contested, saw>>
      /\ pend \in [Uploads -> Pending]
      /\ pend' = [pend EXCEPT ![u] = Idle]
  BY DEF UploadFails, tableVars, jobVars, historyVars, Inv, TypeOK
<1>2. OneStravaRow' BY <1>1 DEF Inv, OneStravaRow, Community
<1>3. PendingFaithful' BY <1>1 DEF Inv, PendingFaithful, Community, Idle
<1>4. FillFaithful' BY <1>1 DEF Inv, FillFaithful, Community, Unflagged
<1>5. StoredUnderConsent' BY <1>1 DEF Inv, StoredUnderConsent, Community, Unflagged
<1>6. PromotedIsStream' BY <1>1 DEF Inv, PromotedIsStream, Community
<1>7. PendingSawNoTwin' BY <1>1 DEF Inv, PendingSawNoTwin, Idle
<1>8. WriterSawNoTwin' BY <1>1 DEF Inv, WriterSawNoTwin, Community
<1>9. QED BY <1>2, <1>3, <1>4, <1>5, <1>6, <1>7, <1>8 DEF Inv

(* A row inserted as a community row: the columns of the others stay. *)
LEMMA InsertStep ==
    ASSUME Inv, TypeOK', NEW u \in Uploads, UploadInsert(u)
    PROVE  Inv'
<1> DEFINE p == pend[u]
<1>1. p \in Pending /\ p.op = "insert" BY DEF UploadInsert, Inv, TypeOK
<1>2. p.copy \in Copies /\ p.consent \in BOOLEAN /\ p.saw \in SUBSET Rows
  BY <1>1, PendingCases
<1>3. PICK i \in Rows :
         /\ i \notin used
         /\ rows' = rows \cup {i} /\ used' = used \cup {i}
         /\ \A j \in Rows : j # i => act'[j] = act[j] /\ saw'[j] = saw[j]
         /\ saw'[i] = p.saw
         /\ act'[i].provider = "file" /\ act'[i].source = "manual_upload"
         /\ act'[i].contribute = p.consent /\ act'[i].geom = p.copy
         /\ act'[i].dated = (p.copy \in Dated) /\ act'[i].hash = p.copy
         /\ act'[i].cache = IF p.consent THEN act'[i].cache ELSE "none"
         /\ act'[i].cache \in {p.copy, "none"}
  BY DEF UploadInsert, Fresh, Inv, TypeOK
<1>4. /\ rows \subseteq used /\ used \subseteq Rows
      /\ pend \in [Uploads -> Pending]
      /\ pend' = [pend EXCEPT ![u] = Idle]
      /\ UNCHANGED <<fill, agreed, overtaken, contested>>
  BY DEF UploadInsert, jobVars, Inv, TypeOK
<1>5. OneStravaRow'
  <2>1. act'[i].provider # "strava" /\ Community(i)' BY <1>3 DEF Community
  <2>2. ~act'[i].dated => act'[i].hash \notin Dated BY <1>3
  <2>3. \A j \in rows' : j # i => j \in rows /\ act'[j] = act[j]
    BY <1>3, <1>4
  <2>4. \A j, k \in rows' :
           act'[j].provider = "strava" /\ act'[k].provider = "strava" => j = k
    BY <2>1, <2>3 DEF Inv, OneStravaRow
  <2>5. \A j \in rows' :
           /\ ~Community(j)' => act'[j].provider = "strava"
           /\ ~act'[j].dated => act'[j].hash \notin Dated
    BY <2>1, <2>2, <2>3 DEF Inv, OneStravaRow, Community
  <2>6. QED BY <2>4, <2>5 DEF OneStravaRow
<1>6. PendingFaithful' BY <1>3, <1>4 DEF Inv, PendingFaithful, Community, Idle
<1>7. FillFaithful' BY <1>3, <1>4 DEF Inv, FillFaithful, Community, Unflagged
<1>8. StoredUnderConsent'
  <2>1. p.consent => p.copy \in agreed BY <1>1 DEF Inv, PendingFaithful
  <2>2. QED BY <1>2, <1>3, <1>4, <2>1 DEF Inv, StoredUnderConsent, Community, Unflagged
<1>9. PromotedIsStream' BY <1>3, <1>4 DEF Inv, PromotedIsStream, Community
<1>10. PendingSawNoTwin'
  <2>1. \A v \in Uploads : pend[v].op # "idle" => pend[v].saw \subseteq used
    BY DEF Inv, PendingFaithful
  <2>2. QED BY <1>3, <1>4, <2>1 DEF Inv, PendingSawNoTwin, Idle
<1>11. WriterSawNoTwin'
  <2>1. /\ p.saw \subseteq used
        /\ \A j \in p.saw \cap rows :
              /\ p.copy \in Dated => ~act[j].dated
              /\ act[j].hash # p.copy
    BY <1>1 DEF Inv, PendingFaithful, PendingSawNoTwin
  <2>2. p.copy # NoHash BY <1>2, CopiesAreGeometry
  <2>3. SUFFICES ASSUME NEW j \in rows', Community(j)'
                 PROVE  /\ saw'[j] \subseteq used'
                        /\ act'[j].hash # NoHash
                        /\ \A k \in saw'[j] \cap rows' : k # j =>
                              /\ ~(act'[k].dated /\ act'[j].dated)
                              /\ act'[k].hash # act'[j].hash
    BY DEF WriterSawNoTwin
  <2>4. CASE j = i
    <3>1. \A k \in saw'[i] \cap rows' : k # i => k \in p.saw \cap rows /\ act'[k] = act[k]
      BY <1>3, <1>4
    <3>2. QED BY <1>3, <2>1, <2>2, <2>4, <3>1
  <2>5. CASE j # i
    <3>1. j \in rows /\ act'[j] = act[j] /\ saw'[j] = saw[j] /\ Community(j)
      BY <1>3, <1>4, <2>3, <2>5 DEF Community
    <3>2. saw[j] \subseteq used BY <3>1 DEF Inv, WriterSawNoTwin
    <3>3. \A k \in saw'[j] \cap rows' : k \in saw[j] \cap rows /\ act'[k] = act[k]
      BY <1>3, <1>4, <3>1, <3>2
    <3>4. QED BY <1>3, <3>1, <3>2, <3>3 DEF Inv, WriterSawNoTwin
  <2>6. QED BY <2>4, <2>5
<1>12. QED BY <1>5, <1>6, <1>7, <1>8, <1>9, <1>10, <1>11 DEF Inv

LEMMA PromoteStep ==
    ASSUME Inv, TypeOK', NEW u \in Uploads, UploadPromote(u)
    PROVE  Inv'
<1> DEFINE p == pend[u]
<1>0. PICK r : r = p.row
  OBVIOUS
<1>1. p \in Pending /\ p.op = "promote" /\ r \in rows
  BY <1>0 DEF UploadPromote, Inv, TypeOK
<1>2. /\ p.copy \in Copies /\ p.consent \in BOOLEAN /\ p.saw \in SUBSET Rows
      /\ r \in Rows /\ p.loaded \in BOOLEAN
  BY <1>0, <1>1, PendingCases
<1>3. /\ p.consent => p.copy \in agreed
      /\ p.saw \subseteq used
      /\ p.copy \in Dated
      /\ act[r].dated /\ act[r].provider = "strava"
      /\ ~Community(r) => act[r].contribute = p.loaded
  BY <1>0, <1>1 DEF Inv, PendingFaithful
<1>4. PICK cached \in BOOLEAN :
         /\ cached => p.consent
         /\ act' = [act EXCEPT ![r] = Promoted(r, p, cached)]
  BY <1>0 DEF UploadPromote
<1>5. /\ \A j \in Rows : j # r => act'[j] = act[j] /\ saw'[j] = saw[j]
      /\ saw'[r] = p.saw
      /\ act'[r].provider = "strava" /\ act'[r].source = "manual_upload"
      /\ act'[r].contribute = IF p.consent = p.loaded THEN act[r].contribute ELSE p.consent
      /\ act'[r].geom = p.copy /\ act'[r].kind = "stream"
      /\ act'[r].dated /\ act'[r].hash = p.copy
      /\ act'[r].cache = IF cached THEN p.copy ELSE act[r].cache
  BY <1>0, <1>2, <1>3, <1>4 DEF UploadPromote, Promoted, Inv, TypeOK
<1>6. /\ rows \subseteq used /\ used \subseteq Rows
      /\ pend \in [Uploads -> Pending]
      /\ pend' = [pend EXCEPT ![u] = Idle]
      /\ contested' = IF Community(r) THEN contested \cup {r} ELSE contested
      /\ UNCHANGED <<rows, used, fill, agreed, overtaken>>
  BY <1>0 DEF UploadPromote, jobVars, Inv, TypeOK
<1>7. Community(r)' /\ \A j \in Rows : j # r => (Community(j)' <=> Community(j))
  <2>1. Community(r)' BY <1>5 DEF Community
  <2>2. ASSUME NEW j \in Rows, j # r PROVE Community(j)' <=> Community(j)
    <3>1. act'[j] = act[j] BY <1>5, <2>2
    <3>2. QED BY <3>1 DEF Community
  <2>3. QED BY <2>1, <2>2
<1>8. ASSUME NEW j, Unflagged(j)' PROVE Unflagged(j)
  BY <1>6, <1>8 DEF Unflagged
<1>9. OneStravaRow'
  BY <1>3, <1>5, <1>6, <1>7 DEF Inv, OneStravaRow
<1>10. PendingFaithful'
  <2>1. SUFFICES ASSUME NEW v \in Uploads, v # u, pend[v].op # "idle"
                 PROVE  /\ /\ pend[v].consent => pend[v].copy \in agreed
                           /\ pend[v].saw \subseteq used
                        /\ pend[v].op = "promote" =>
                              /\ pend[v].row \in used
                              /\ pend[v].copy \in Dated
                              /\ pend[v].row \in rows =>
                                    /\ act'[pend[v].row].dated
                                    /\ act'[pend[v].row].provider = "strava"
                                    /\ act'[pend[v].row].source # "manual_upload" =>
                                          act'[pend[v].row].contribute = pend[v].loaded
    BY <1>6 DEF PendingFaithful, Idle, Community
  <2>2. CASE pend[v].op = "promote" /\ pend[v].row # r
    BY <1>5, <1>6, <2>1, <2>2 DEF Inv, PendingFaithful, Community
  <2>3. CASE pend[v].op = "promote" /\ pend[v].row = r
    BY <1>1, <1>3, <1>5, <1>6, <2>1, <2>3 DEF Inv, PendingFaithful
  <2>4. CASE pend[v].op # "promote"
    BY <2>1, <2>4 DEF Inv, PendingFaithful
  <2>5. QED BY <2>2, <2>3, <2>4
<1>11. FillFaithful'
  <2>1. SUFFICES ASSUME fill # NoFill
                 PROVE  /\ fill.row \in used
                        /\ fill.row \in rows => act'[fill.row].source = "manual_upload"
                        /\ fill.row \notin overtaken' \cup contested' => fill.geom \in agreed
    BY <1>6 DEF FillFaithful, Community, Unflagged
  <2>2. /\ fill.row \in used
        /\ fill.row \in rows => Community(fill.row)
        /\ Unflagged(fill.row) => fill.geom \in agreed
    BY <2>1 DEF Inv, FillFaithful
  <2>3. fill.row \in rows => act'[fill.row].source = "manual_upload"
    BY <1>5, <1>6, <2>2 DEF Community
  <2>4. QED BY <1>6, <2>2, <2>3 DEF Unflagged
<1>12. StoredUnderConsent'
  <2>1. SUFFICES ASSUME NEW j \in rows
                 PROVE  /\ Community(j)' /\ Unflagged(j)' =>
                              /\ act'[j].contribute => act'[j].geom \in agreed
                              /\ act'[j].cache # "none" => act'[j].cache \in agreed
                        /\ ~Community(j)' => act'[j].cache = "none"
    BY <1>6 DEF StoredUnderConsent, Community, Unflagged
  <2>2. CASE j # r
    <3>1. /\ act'[j] = act[j]
          /\ Community(j)' <=> Community(j)
          /\ Unflagged(j)' => Unflagged(j)
      BY <1>5, <1>6, <1>7, <1>8, <2>1, <2>2
    <3>2. QED BY <2>1, <3>1 DEF Inv, StoredUnderConsent
  <2>3. CASE j = r /\ Community(r)
    BY <1>6, <1>7, <2>3 DEF Unflagged
  <2>4. CASE j = r /\ ~Community(r)
    <3>1. act[r].cache = "none" BY <1>1, <2>4 DEF Inv, StoredUnderConsent
    <3>2. act'[r].contribute = p.consent BY <1>2, <1>3, <1>5, <2>4
    <3>3. QED BY <1>3, <1>4, <1>5, <1>7, <2>4, <3>1, <3>2
  <2>5. QED BY <2>2, <2>3, <2>4
<1>13. PromotedIsStream'
  BY <1>5, <1>6, <1>7 DEF Inv, PromotedIsStream, Community
<1>14. PendingSawNoTwin'
  <2>1. SUFFICES ASSUME NEW v \in Uploads, v # u, pend[v].op # "idle",
                        NEW j \in pend[v].saw \cap rows,
                        ~(pend[v].op = "promote" /\ j = pend[v].row)
                 PROVE  /\ pend[v].copy \in Dated => ~act'[j].dated
                        /\ act'[j].hash # pend[v].copy
    BY <1>6 DEF PendingSawNoTwin, Idle
  <2>2. /\ pend[v].copy \in Dated => ~act[j].dated
        /\ act[j].hash # pend[v].copy
    BY <2>1 DEF Inv, PendingSawNoTwin
  <2>3. CASE j = r
    BY <1>3, <1>5, <2>2, <2>3
  <2>4. CASE j # r
    BY <1>5, <1>6, <2>2, <2>4
  <2>5. QED BY <2>3, <2>4
<1>15. WriterSawNoTwin'
  <2>1. SUFFICES ASSUME NEW j \in rows, Community(j)'
                 PROVE  /\ saw'[j] \subseteq used
                        /\ act'[j].hash # NoHash
                        /\ \A k \in saw'[j] \cap rows : k # j =>
                              /\ ~(act'[k].dated /\ act'[j].dated)
                              /\ act'[k].hash # act'[j].hash
    BY <1>6 DEF WriterSawNoTwin, Community
  <2>2. CASE j = r
    <3>1. \A k \in p.saw \cap rows : k # r => ~act[k].dated /\ act[k].hash # p.copy
      BY <1>0, <1>1, <1>3 DEF Inv, PendingSawNoTwin
    <3>2. p.copy # NoHash BY <1>2, CopiesAreGeometry
    <3>3. QED BY <1>3, <1>5, <1>6, <2>2, <3>1, <3>2
  <2>3. CASE j # r
    <3>1. j \in Rows BY <1>6, <2>1
    <3>2. Community(j) /\ act'[j] = act[j] /\ saw'[j] = saw[j]
      BY <1>5, <1>7, <2>1, <2>3, <3>1
    <3>3. /\ saw[j] \subseteq used /\ act[j].hash # NoHash
          /\ \A k \in saw[j] \cap rows : k # j =>
                ~(act[k].dated /\ act[j].dated) /\ act[k].hash # act[j].hash
      BY <2>1, <3>2 DEF Inv, WriterSawNoTwin
    <3>4. ~act[j].dated => act[j].hash \notin Dated
      BY <2>1 DEF Inv, OneStravaRow
    <3>5. ASSUME NEW k \in saw[j] \cap rows, k # j
          PROVE  ~(act'[k].dated /\ act'[j].dated) /\ act'[k].hash # act'[j].hash
      <4>1. CASE k = r
        BY <1>3, <1>5, <3>2, <3>3, <3>4, <3>5, <4>1
      <4>2. CASE k # r
        BY <1>5, <1>6, <3>2, <3>3, <3>5, <4>2
      <4>3. QED BY <4>1, <4>2
    <3>6. QED BY <3>2, <3>3, <3>5
  <2>4. QED BY <2>2, <2>3
<1>16. QED BY <1>9, <1>10, <1>11, <1>12, <1>13, <1>14, <1>15 DEF Inv

(* A step after which the rows that are left have the columns they had, but   *)
(* for a geometry, a geometry source or a blob; used by the three steps that   *)
(* rewrite or remove rows.                                                     *)
LEMMA RewriteStep ==
    ASSUME Inv, rows' \subseteq rows, UNCHANGED <<used, pend>>,
           \A i \in rows' : /\ act'[i].provider = act[i].provider
                            /\ act'[i].source = act[i].source
                            /\ act'[i].contribute = act[i].contribute
                            /\ act'[i].dated = act[i].dated
                            /\ act'[i].hash = act[i].hash
                            /\ saw'[i] = saw[i],
           agreed' = agreed
    PROVE  OneStravaRow' /\ PendingFaithful' /\ PendingSawNoTwin' /\ WriterSawNoTwin'
<1>1. OneStravaRow' BY DEF Inv, OneStravaRow, Community
<1>2. PendingFaithful' BY DEF Inv, PendingFaithful, Community
<1>3. PendingSawNoTwin'
  <2>1. SUFFICES ASSUME NEW v \in Uploads, pend[v].op # "idle",
                        NEW j \in pend[v].saw \cap rows',
                        ~(pend[v].op = "promote" /\ j = pend[v].row)
                 PROVE  /\ pend[v].copy \in Dated => ~act'[j].dated
                        /\ act'[j].hash # pend[v].copy
    BY DEF PendingSawNoTwin
  <2>2. QED BY <2>1 DEF Inv, PendingSawNoTwin
<1>4. WriterSawNoTwin'
  <2>1. SUFFICES ASSUME NEW j \in rows', Community(j)'
                 PROVE  /\ saw'[j] \subseteq used
                        /\ act'[j].hash # NoHash
                        /\ \A k \in saw'[j] \cap rows' : k # j =>
                              /\ ~(act'[k].dated /\ act'[j].dated)
                              /\ act'[k].hash # act'[j].hash
    BY DEF WriterSawNoTwin, Community
  <2>2. j \in rows /\ Community(j) BY <2>1 DEF Community
  <2>3. /\ saw[j] \subseteq used /\ act[j].hash # NoHash
        /\ \A k \in saw[j] \cap rows : k # j =>
              ~(act[k].dated /\ act[j].dated) /\ act[k].hash # act[j].hash
    BY <2>2 DEF Inv, WriterSawNoTwin
  <2>4. QED BY <2>1, <2>3
<1>5. QED BY <1>1, <1>2, <1>3, <1>4

LEMMA FlushStep ==
    ASSUME Inv, TypeOK', NEW s \in Syncs, SyncFlush(s)
    PROVE  Inv'
<1>1. /\ rows \subseteq used /\ used \subseteq Rows
      /\ UNCHANGED <<pend, fill, agreed, overtaken, contested>>
  BY DEF SyncFlush, Inv, TypeOK
<1>2. CASE UNCHANGED <<tableVars, saw>>
  BY <1>1, <1>2, FrameStep DEF tableVars
<1>3. CASE \A i \in rows : act[i].provider # "strava"
  <2>1. CASE ~UNCHANGED <<tableVars, saw>>
    <3>1. PICK i \in Rows, pref \in BOOLEAN :
             /\ Fresh(i)
             /\ rows' = rows \cup {i} /\ used' = used \cup {i}
             /\ act' = [act EXCEPT ![i] = Synced(pref)]
             /\ UNCHANGED saw
      BY <1>3, <2>1 DEF SyncFlush
    <3>2. /\ i \notin used
          /\ \A j \in rows : j # i /\ act'[j] = act[j]
          /\ \A j \in used : j # i
          /\ act'[i].provider = "strava" /\ act'[i].source = "strava_api"
          /\ act'[i].hash = NoHash /\ act'[i].cache = "none"
      BY <1>1, <3>1 DEF Fresh, Synced, Inv, TypeOK
    <3>3. ~Community(i)' /\ \A j \in rows : Community(j)' <=> Community(j)
      BY <3>2 DEF Community
    <3>4. OneStravaRow' BY <1>3, <3>1, <3>2, <3>3, CopiesAssumption DEF Inv, OneStravaRow
    <3>5. PendingFaithful'
      <4>1. SUFFICES ASSUME NEW v \in Uploads, pend[v].op # "idle"
                     PROVE  /\ /\ pend[v].consent => pend[v].copy \in agreed
                               /\ pend[v].saw \subseteq used'
                            /\ pend[v].op = "promote" =>
                                  /\ pend[v].row \in used'
                                  /\ pend[v].copy \in Dated
                                  /\ pend[v].row \in rows' =>
                                        /\ act'[pend[v].row].dated
                                        /\ act'[pend[v].row].provider = "strava"
                                        /\ act'[pend[v].row].source # "manual_upload" =>
                                              act'[pend[v].row].contribute = pend[v].loaded
        BY <1>1 DEF PendingFaithful, Community
      <4>2. QED BY <3>1, <3>2, <4>1 DEF Inv, PendingFaithful, Community
    <3>6. FillFaithful' BY <1>1, <3>1, <3>2 DEF Inv, FillFaithful, Community, Unflagged
    <3>7. StoredUnderConsent'
      BY <1>1, <3>1, <3>2, <3>3 DEF Inv, StoredUnderConsent, Unflagged
    <3>8. PromotedIsStream' BY <3>1, <3>2, <3>3 DEF Inv, PromotedIsStream
    <3>9. PendingSawNoTwin'
      <4>1. \A v \in Uploads : pend[v].op # "idle" => pend[v].saw \subseteq used
        BY DEF Inv, PendingFaithful
      <4>2. QED BY <1>1, <3>1, <3>2, <4>1 DEF Inv, PendingSawNoTwin
    <3>10. WriterSawNoTwin'
      BY <1>1, <3>1, <3>2, <3>3 DEF Inv, WriterSawNoTwin
    <3>11. QED BY <3>4, <3>5, <3>6, <3>7, <3>8, <3>9, <3>10 DEF Inv
  <2>2. QED BY <1>2, <2>1
<1>4. QED BY <1>2, <1>3 DEF SyncFlush

LEMMA ApplyStep ==
    ASSUME Inv, TypeOK', NEW g \in Upgrades, UpgradeApply(g)
    PROVE  Inv'
<1>1. PICK got \in SUBSET batch[g], marked \in SUBSET batch[g] :
          /\ act' = [i \in Rows |-> IF i \in rows THEN Upgraded(i, got, marked) ELSE act[i]]
          /\ overtaken' = overtaken \cup {i \in rows \cap got : Community(i)}
  BY DEF UpgradeApply
<1>2. /\ rows \subseteq Rows
      /\ UNCHANGED <<rows, used, pend, fill, agreed, contested, saw>>
  BY DEF UpgradeApply, Inv, TypeOK
<1>3. \A i \in rows : act'[i] = Upgraded(i, got, marked)
  BY <1>1, <1>2
<1>4. \A i \in rows : /\ act'[i].provider = act[i].provider
                      /\ act'[i].source = act[i].source
                      /\ act'[i].contribute = act[i].contribute
                      /\ act'[i].dated = act[i].dated
                      /\ act'[i].hash = act[i].hash
                      /\ act'[i].cache = act[i].cache
                      /\ i \notin got => act'[i].geom = act[i].geom
                      /\ act[i].kind = "stream" => act'[i].kind = "stream"
  BY <1>2, <1>3, UpgradedEffect DEF Inv
<1>5. OneStravaRow' /\ PendingFaithful' /\ PendingSawNoTwin' /\ WriterSawNoTwin'
  BY <1>2, <1>4, RewriteStep
<1>6. FillFaithful' BY <1>1, <1>2, <1>4 DEF Inv, FillFaithful, Community, Unflagged
<1>7. StoredUnderConsent'
  BY <1>1, <1>2, <1>4 DEF Inv, StoredUnderConsent, Community, Unflagged
<1>8. PromotedIsStream' BY <1>2, <1>4 DEF Inv, PromotedIsStream, Community
<1>9. QED BY <1>5, <1>6, <1>7, <1>8 DEF Inv

LEMMA BackfillReadStep ==
    ASSUME Inv, TypeOK', NEW i \in Rows, BackfillRead(i)
    PROVE  Inv'
<1>1. /\ UNCHANGED <<rows, used, act, pend, agreed, overtaken, contested, saw>>
      /\ fill' = [row |-> i, geom |-> act[i].geom, stamp |-> version]
      /\ rows \subseteq used
  BY DEF BackfillRead, tableVars, historyVars, Inv, TypeOK
<1>2. /\ i \in rows /\ Community(i)
      /\ Unflagged(i) => act[i].geom \in agreed
  BY DEF BackfillRead, Eligible, Inv, StoredUnderConsent
<1>3. FillFaithful' BY <1>1, <1>2 DEF FillFaithful, Community, Unflagged
<1>4. OneStravaRow' /\ PendingFaithful' /\ PendingSawNoTwin' /\ WriterSawNoTwin'
  BY <1>1, RewriteStep
<1>5. StoredUnderConsent' BY <1>1 DEF Inv, StoredUnderConsent, Community, Unflagged
<1>6. PromotedIsStream' BY <1>1 DEF Inv, PromotedIsStream, Community
<1>7. QED BY <1>3, <1>4, <1>5, <1>6 DEF Inv

LEMMA BackfillWriteStep ==
    ASSUME Inv, TypeOK', BackfillWrite
    PROVE  Inv'
<1>1. PICK r : r = fill.row
  OBVIOUS
<1>2. /\ rows \subseteq Rows /\ act \in [Rows -> Activity]
      /\ fill # NoFill /\ r \in Rows
      /\ UNCHANGED <<rows, used, pend, agreed, overtaken, contested, saw>>
      /\ fill' = NoFill
  BY <1>1 DEF BackfillWrite, historyVars, Inv, TypeOK
<1>3. CASE r \in rows
  <2>1. act' = [act EXCEPT ![r] = [act[r] EXCEPT !.cache = fill.geom, !.stamp = fill.stamp]]
    BY <1>1, <1>3 DEF BackfillWrite
  <2>2. /\ act[r] \in Activity
        /\ act'[r] = [act[r] EXCEPT !.cache = fill.geom, !.stamp = fill.stamp]
        /\ \A i \in rows : i # r => act'[i] = act[i]
    BY <1>2, <2>1
  <2>3. \A i \in rows : /\ act'[i].provider = act[i].provider
                        /\ act'[i].source = act[i].source
                        /\ act'[i].contribute = act[i].contribute
                        /\ act'[i].dated = act[i].dated
                        /\ act'[i].hash = act[i].hash
                        /\ act'[i].geom = act[i].geom
                        /\ act'[i].kind = act[i].kind
    BY <2>2 DEF Activity
  <2>4. act'[r].cache = fill.geom BY <2>2 DEF Activity
  <2>5. OneStravaRow' /\ PendingFaithful' /\ PendingSawNoTwin' /\ WriterSawNoTwin'
    BY <1>2, <2>3, RewriteStep
  <2>6. FillFaithful' BY <1>2 DEF FillFaithful
  <2>7. StoredUnderConsent'
    <3>1. Community(r) /\ (Unflagged(r) => fill.geom \in agreed)
      BY <1>1, <1>2, <1>3 DEF Inv, FillFaithful
    <3>2. SUFFICES ASSUME NEW j \in rows
                   PROVE  /\ Community(j)' /\ Unflagged(j)' =>
                                /\ act'[j].contribute => act'[j].geom \in agreed
                                /\ act'[j].cache # "none" => act'[j].cache \in agreed
                          /\ ~Community(j)' => act'[j].cache = "none"
      BY <1>2 DEF StoredUnderConsent
    <3>3. (Community(j)' <=> Community(j)) /\ (Unflagged(j)' <=> Unflagged(j))
      BY <1>2, <2>3 DEF Community, Unflagged
    <3>4. CASE j = r BY <2>3, <2>4, <3>1, <3>3, <3>4 DEF Inv, StoredUnderConsent
    <3>5. CASE j # r BY <2>2, <3>3, <3>5 DEF Inv, StoredUnderConsent
    <3>6. QED BY <3>4, <3>5
  <2>8. PromotedIsStream' BY <1>2, <2>3 DEF Inv, PromotedIsStream, Community
  <2>9. QED BY <2>5, <2>6, <2>7, <2>8 DEF Inv
<1>4. CASE r \notin rows
  <2>1. act' = act BY <1>1, <1>4 DEF BackfillWrite
  <2>2. OneStravaRow' /\ PendingFaithful' /\ PendingSawNoTwin' /\ WriterSawNoTwin'
    BY <1>2, <2>1, RewriteStep
  <2>3. FillFaithful' BY <1>2 DEF FillFaithful
  <2>4. StoredUnderConsent' BY <1>2, <2>1 DEF Inv, StoredUnderConsent, Community, Unflagged
  <2>5. PromotedIsStream' BY <1>2, <2>1 DEF Inv, PromotedIsStream, Community
  <2>6. QED BY <2>2, <2>3, <2>4, <2>5 DEF Inv
<1>5. QED BY <1>3, <1>4

LEMMA DeleteStep ==
    ASSUME Inv, TypeOK', NEW i \in Rows, Delete(i)
    PROVE  Inv'
<1>1. /\ UNCHANGED <<used, pend, fill, agreed, overtaken, contested>>
      /\ rows' = rows \ {i} /\ rows \subseteq Rows
      /\ \A j \in rows' : act'[j] = act[j] /\ saw'[j] = saw[j]
  BY DEF Delete, jobVars, Inv, TypeOK
<1>2. OneStravaRow' /\ PendingFaithful' /\ PendingSawNoTwin' /\ WriterSawNoTwin'
  BY <1>1, RewriteStep
<1>3. FillFaithful' BY <1>1 DEF Inv, FillFaithful, Community, Unflagged
<1>4. StoredUnderConsent' BY <1>1 DEF Inv, StoredUnderConsent, Community, Unflagged
<1>5. PromotedIsStream' BY <1>1 DEF Inv, PromotedIsStream, Community
<1>6. QED BY <1>2, <1>3, <1>4, <1>5 DEF Inv

LEMMA InvStep == Inv /\ [Next]_vars => Inv'
<1> SUFFICES ASSUME Inv, [Next]_vars PROVE Inv'
  OBVIOUS
<1>1. TypeOK' BY TypeStep DEF Inv
<1>2. ASSUME NEW u \in Uploads, NEW c \in Copies, NEW consent \in BOOLEAN,
             UploadExists(u, c, consent)
      PROVE  Inv'
  BY <1>1, <1>2, FrameStep DEF UploadExists, tableVars, jobVars
<1>3. ASSUME NEW u \in Uploads, NEW c \in Copies, NEW consent \in BOOLEAN,
             UploadCheck(u, c, consent)
      PROVE  Inv'
  BY <1>1, <1>3, CheckStep
<1>4. ASSUME NEW u \in Uploads, UploadInsert(u) PROVE Inv'
  BY <1>1, <1>4, InsertStep
<1>5. ASSUME NEW u \in Uploads, UploadPromote(u) PROVE Inv'
  BY <1>1, <1>5, PromoteStep
<1>6. ASSUME NEW u \in Uploads, UploadFails(u) PROVE Inv'
  BY <1>1, <1>6, FailsStep
<1>7. ASSUME NEW s \in Syncs, SyncPreload(s) PROVE Inv'
  BY <1>1, <1>7, FrameStep DEF SyncPreload, tableVars, historyVars
<1>8. ASSUME NEW s \in Syncs, SyncFlush(s) PROVE Inv'
  BY <1>1, <1>8, FlushStep
<1>9. ASSUME NEW g \in Upgrades, UpgradeFetch(g) PROVE Inv'
  BY <1>1, <1>9, FrameStep DEF UpgradeFetch, tableVars, historyVars
<1>10. ASSUME NEW g \in Upgrades, UpgradeApply(g) PROVE Inv'
  BY <1>1, <1>10, ApplyStep
<1>11. ASSUME NEW i \in Rows, BackfillRead(i) PROVE Inv'
  BY <1>1, <1>11, BackfillReadStep
<1>12. ASSUME NEW i \in Rows, Delete(i) PROVE Inv'
  BY <1>1, <1>12, DeleteStep
<1>13. ASSUME BackfillWrite PROVE Inv'
  BY <1>1, <1>13, BackfillWriteStep
<1>14. ASSUME NewParameters PROVE Inv'
  BY <1>1, <1>14, FrameStep DEF NewParameters, tableVars, historyVars
<1>15. CASE UNCHANGED vars
  BY <1>1, <1>15, FrameStep DEF vars, tableVars, jobVars, historyVars
<1>16. QED
  BY <1>2, <1>3, <1>4, <1>5, <1>6, <1>7, <1>8, <1>9, <1>10, <1>11, <1>12, <1>13,
     <1>14, <1>15
  DEF Next, Upload

THEOREM InvHolds == Spec => []Inv
<1>1. QED BY InvInit, InvStep, PTL DEF Spec

-----------------------------------------------------------------------------
(* What the public map draws of an eligible row that neither race touched was  *)
(* uploaded by its owner with a recorded consent (build_pmtiles reads the rows *)
(* that community_eligible_conditions selects, blob first).                    *)
THEOREM PublicationIsConsented == Spec => []PublishedUnderConsent
<1>1. Inv => PublishedUnderConsent
  BY DEF Inv, StoredUnderConsent, PublishedUnderConsent, Eligible, Drawn, Unflagged
<1>2. QED BY <1>1, InvHolds, PTL

(* Of two eligible rows for one ride or one file, neither writer had read the  *)
(* other's row: without concurrency the duplicate checks are complete.         *)
THEOREM TwinsWereConcurrent == Spec => []DuplicatesWereConcurrent
<1>1. Inv => DuplicatesWereConcurrent
  <2>1. SUFFICES ASSUME Inv, NEW i \in Rows, NEW j \in Rows,
                        Eligible(i), Eligible(j), i # j,
                        (act[i].dated /\ act[j].dated) \/ act[i].hash = act[j].hash,
                        i \in saw[j]
                 PROVE  FALSE
    BY DEF DuplicatesWereConcurrent
  <2>2. QED BY <2>1 DEF Inv, WriterSawNoTwin, Eligible
<1>2. QED BY <1>1, InvHolds, PTL

(* No GPS upgrade ever selects a community row, promoted ones included,        *)
(* because a promotion also settles geometry_source.                           *)
THEOREM UpgradeKeepsOff == Spec => UpgradeSparesCommunity
<1> DEFINE Spared == \A g \in Upgrades : \A i \in batch'[g] \ batch[g] : ~Community(i)
<1>1. Inv /\ [Next]_vars => [Spared]_vars
  <2>1. SUFFICES ASSUME Inv, Next PROVE Spared
    OBVIOUS
  <2>2. batch \in [Upgrades -> SUBSET Rows] BY <2>1 DEF Inv, TypeOK
  <2>3. ASSUME NEW h \in Upgrades, UpgradeFetch(h) PROVE Spared
    <3>1. \A i \in rows : act[i].provider = "strava" /\ act[i].kind = "polyline"
             => ~Community(i)
      BY <2>1 DEF Inv, PromotedIsStream
    <3>2. QED BY <2>2, <2>3, <3>1 DEF UpgradeFetch
  <2>4. ASSUME NEW h \in Upgrades, UpgradeApply(h) PROVE Spared
    BY <2>2, <2>4 DEF UpgradeApply
  <2>5. CASE batch' = batch
    BY <2>5
  <2>6. QED
    BY <2>1, <2>3, <2>4, <2>5
    DEF Next, Upload, UploadExists, UploadCheck, UploadInsert, UploadPromote, UploadFails,
        SyncPreload, SyncFlush, BackfillRead, BackfillWrite, NewParameters, Delete, jobVars
<1>2. QED BY <1>1, InvHolds, PTL DEF Spec, UpgradeSparesCommunity

-----------------------------------------------------------------------------
(* The blob of an unflagged community row is its geometry, at whatever stamp, *)
(* and so is the blob the backfill is about to write.                         *)
BlobIsGeometry ==
    /\ \A i \in rows : Community(i) /\ Unflagged(i) =>
          act[i].cache \in {"none", act[i].geom}
    /\ fill # NoFill /\ fill.row \in rows /\ Unflagged(fill.row) =>
          fill.geom = act[fill.row].geom

LedgerInv == Inv /\ BlobIsGeometry

(* What the public map draws, row by row; "none" is not drawn. *)
Show == [i \in Rows |-> IF Eligible(i) THEN Drawn(i) ELSE "none"]

(* Blobs and their stamps do not show, except on a flagged row. *)
ShowsStored ==
    /\ Show \in [Rows -> Geometry \cup {"none"}]
    /\ \A i \in Rows : ~Eligible(i) => Show[i] = "none"
    /\ \A i \in Rows : Eligible(i) /\ Unflagged(i) => Show[i] = act[i].geom

LEMMA ShowsGeometry == LedgerInv => ShowsStored
<1> SUFFICES ASSUME LedgerInv, NEW i \in Rows
             PROVE  /\ Show[i] \in Geometry \cup {"none"}
                    /\ ~Eligible(i) => Show[i] = "none"
                    /\ Eligible(i) /\ Unflagged(i) => Show[i] = act[i].geom
  BY DEF Show, ShowsStored
<1>1. Show[i] = IF Eligible(i) THEN Drawn(i) ELSE "none"
  BY DEF Show
<1>2. act[i].geom \in Geometry /\ act[i].cache \in Geometry \cup {"none"}
  BY DEF LedgerInv, Inv, TypeOK, Activity
<1>3. Eligible(i) /\ Unflagged(i) => act[i].cache \in {"none", act[i].geom}
  BY DEF LedgerInv, BlobIsGeometry, Eligible
<1>4. QED
  BY <1>1, <1>2, <1>3 DEF Drawn

(* A step that changes nothing about the rows and the flags. *)
LEMMA BlobFrame ==
    ASSUME BlobIsGeometry, UNCHANGED <<rows, act, fill, overtaken, contested>>
    PROVE  BlobIsGeometry'
BY DEF BlobIsGeometry, Community, Unflagged

LEMMA BlobPromote ==
    ASSUME LedgerInv, NEW u \in Uploads, UploadPromote(u)
    PROVE  BlobIsGeometry'
<1> DEFINE p == pend[u]
<1>0. PICK r : r = p.row
  OBVIOUS
<1>1. r \in rows /\ rows \subseteq Rows
  BY <1>0 DEF UploadPromote, LedgerInv, Inv, TypeOK
<1>2. PICK cached \in BOOLEAN : act' = [act EXCEPT ![r] = Promoted(r, p, cached)]
  BY <1>0 DEF UploadPromote
<1>3. /\ \A j \in Rows : j # r => act'[j] = act[j]
      /\ act'[r].geom = p.copy
      /\ act'[r].cache = IF cached THEN p.copy ELSE act[r].cache
  BY <1>1, <1>2 DEF Promoted, LedgerInv, Inv, TypeOK
<1>4. /\ contested' = IF Community(r) THEN contested \cup {r} ELSE contested
      /\ UNCHANGED <<rows, fill, overtaken>>
  BY <1>0 DEF UploadPromote, jobVars
<1>5. ASSUME NEW j, Unflagged(j)' PROVE Unflagged(j) /\ (j = r => ~Community(r))
  BY <1>4, <1>5 DEF Unflagged
<1>6. ASSUME NEW j \in rows, Community(j)', Unflagged(j)'
      PROVE  act'[j].cache \in {"none", act'[j].geom}
  <2>1. CASE j = r
    <3>1. act[r].cache = "none"
      BY <1>1, <1>5, <1>6, <2>1 DEF LedgerInv, Inv, StoredUnderConsent
    <3>2. QED BY <1>3, <2>1, <3>1
  <2>2. CASE j # r
    <3>1. act'[j] = act[j] /\ Community(j)
      BY <1>1, <1>3, <1>6, <2>2 DEF Community
    <3>2. QED BY <1>5, <1>6, <3>1 DEF LedgerInv, BlobIsGeometry
  <2>3. QED BY <2>1, <2>2
<1>7. ASSUME fill # NoFill, fill.row \in rows, fill.row \notin overtaken' \cup contested'
      PROVE  fill.geom = act'[fill.row].geom
  <2>1. Community(fill.row) BY <1>7 DEF LedgerInv, Inv, FillFaithful
  <2>2. Unflagged(fill.row) /\ fill.row # r BY <1>4, <1>7, <2>1 DEF Unflagged
  <2>3. QED BY <1>1, <1>3, <1>7, <2>2 DEF LedgerInv, BlobIsGeometry
<1>8. QED BY <1>4, <1>6, <1>7 DEF BlobIsGeometry, Community, Unflagged

(* A row is added; the others stay as they were, and so do the flags. *)
LEMMA BlobAdd ==
    ASSUME LedgerInv, NEW i \in Rows, i \notin used, rows' = rows \cup {i},
           \A j \in Rows : j # i => act'[j] = act[j],
           act'[i].cache \in {"none", act'[i].geom},
           UNCHANGED <<fill, overtaken, contested>>
    PROVE  BlobIsGeometry'
<1>1. rows \subseteq used /\ rows \subseteq Rows BY DEF LedgerInv, Inv, TypeOK
<1>2. fill # NoFill => fill.row # i BY DEF LedgerInv, Inv, FillFaithful
<1>3. \A j \in rows' : Community(j)' /\ Unflagged(j)' => act'[j].cache \in {"none", act'[j].geom}
  BY <1>1 DEF LedgerInv, BlobIsGeometry, Community, Unflagged
<1>4. fill # NoFill /\ fill.row \in rows' /\ Unflagged(fill.row) => fill.geom = act'[fill.row].geom
  BY <1>1, <1>2 DEF LedgerInv, BlobIsGeometry
<1>5. QED BY <1>3, <1>4 DEF BlobIsGeometry, Unflagged

LEMMA InsertedRow ==
    ASSUME Inv, NEW u \in Uploads, UploadInsert(u)
    PROVE  \E i \in Rows :
             /\ i \notin used /\ rows' = rows \cup {i} /\ used' = used \cup {i}
             /\ \A j \in Rows : j # i => act'[j] = act[j]
             /\ act'[i].geom = pend[u].copy
             /\ act'[i].cache \in {"none", act'[i].geom}
             /\ act'[i].contribute = pend[u].consent
BY DEF UploadInsert, Fresh, Inv, TypeOK

LEMMA FlushedRow ==
    ASSUME Inv, NEW s \in Syncs, SyncFlush(s)
    PROVE  \/ UNCHANGED <<rows, used, act>>
           \/ \E i \in Rows :
                /\ i \notin used /\ rows' = rows \cup {i} /\ used' = used \cup {i}
                /\ \A j \in Rows : j # i => act'[j] = act[j]
                /\ act'[i].cache = "none"
                /\ act'[i].source = "strava_api"
<1>1. CASE UNCHANGED <<tableVars, saw>>
  BY <1>1 DEF tableVars
<1>2. ASSUME NEW i \in Rows, NEW pref \in BOOLEAN, Fresh(i),
             rows' = rows \cup {i}, used' = used \cup {i},
             act' = [act EXCEPT ![i] = Synced(pref)]
      PROVE  /\ i \notin used
             /\ \A j \in Rows : j # i => act'[j] = act[j]
             /\ act'[i].cache = "none" /\ act'[i].source = "strava_api"
  BY <1>2 DEF Fresh, Synced, Inv, TypeOK
<1>3. QED BY <1>1, <1>2 DEF SyncFlush

LEMMA BlobStep == LedgerInv /\ [Next]_vars => BlobIsGeometry'
<1> SUFFICES ASSUME LedgerInv, [Next]_vars PROVE BlobIsGeometry'
  OBVIOUS
<1>0. Inv /\ BlobIsGeometry BY DEF LedgerInv
<1>1. ASSUME NEW u \in Uploads, Upload(u) PROVE BlobIsGeometry'
  <2>1. ASSUME NEW c \in Copies, NEW consent \in BOOLEAN,
               UploadExists(u, c, consent) \/ UploadCheck(u, c, consent)
        PROVE  BlobIsGeometry'
    BY <1>0, <2>1, BlobFrame DEF UploadExists, UploadCheck, tableVars, jobVars
  <2>2. CASE UploadInsert(u)
    <3>1. UNCHANGED <<fill, overtaken, contested>> BY <2>2 DEF UploadInsert, jobVars
    <3>2. QED BY <1>0, <2>2, <3>1, InsertedRow, BlobAdd
  <2>3. CASE UploadPromote(u)
    BY <2>3, BlobPromote
  <2>4. CASE UploadFails(u)
    BY <1>0, <2>4, BlobFrame DEF UploadFails, tableVars, jobVars, historyVars
  <2>5. QED BY <1>1, <2>1, <2>2, <2>3, <2>4 DEF Upload
<1>2. ASSUME NEW s \in Syncs, SyncPreload(s) PROVE BlobIsGeometry'
  BY <1>0, <1>2, BlobFrame DEF SyncPreload, tableVars, historyVars
<1>3. ASSUME NEW s \in Syncs, SyncFlush(s) PROVE BlobIsGeometry'
  <2>1. UNCHANGED <<fill, overtaken, contested>> BY <1>3 DEF SyncFlush
  <2>2. CASE UNCHANGED <<rows, used, act>>
    BY <1>0, <2>1, <2>2, BlobFrame
  <2>3. ASSUME NEW i \in Rows, i \notin used, rows' = rows \cup {i},
               \A j \in Rows : j # i => act'[j] = act[j], act'[i].cache = "none"
        PROVE  BlobIsGeometry'
    BY <2>1, <2>3, BlobAdd
  <2>4. QED BY <1>0, <1>3, <2>2, <2>3, FlushedRow
<1>4. ASSUME NEW g \in Upgrades, UpgradeFetch(g) PROVE BlobIsGeometry'
  BY <1>0, <1>4, BlobFrame DEF UpgradeFetch, tableVars, historyVars
<1>5. ASSUME NEW g \in Upgrades, UpgradeApply(g) PROVE BlobIsGeometry'
  <2>1. PICK got \in SUBSET batch[g], marked \in SUBSET batch[g] :
          /\ act' = [i \in Rows |-> IF i \in rows THEN Upgraded(i, got, marked) ELSE act[i]]
          /\ overtaken' = overtaken \cup {i \in rows \cap got : Community(i)}
    BY <1>5 DEF UpgradeApply
  <2>2. rows \subseteq Rows /\ UNCHANGED <<rows, fill, contested>>
    BY <1>0, <1>5 DEF UpgradeApply, Inv, TypeOK
  <2>3. \A i \in rows : /\ act'[i].source = act[i].source
                        /\ act'[i].cache = act[i].cache
                        /\ i \notin got => act'[i].geom = act[i].geom
    BY <1>0, <2>1, <2>2, UpgradedEffect DEF Inv
  <2>4. ASSUME NEW i \in rows, Community(i), i \notin overtaken' \cup contested
        PROVE  i \notin got /\ Unflagged(i)
    BY <2>1, <2>4 DEF Unflagged
  <2>5. ASSUME NEW i \in rows, Community(i)', i \notin overtaken' \cup contested
        PROVE  act'[i].cache \in {"none", act'[i].geom}
    <3>1. Community(i) BY <2>3, <2>5 DEF Community
    <3>2. QED BY <1>0, <2>3, <2>4, <2>5, <3>1 DEF BlobIsGeometry
  <2>6. ASSUME fill # NoFill, fill.row \in rows, fill.row \notin overtaken' \cup contested
        PROVE  fill.geom = act'[fill.row].geom
    <3>1. Community(fill.row) BY <1>0, <2>6 DEF Inv, FillFaithful
    <3>2. QED BY <1>0, <2>3, <2>4, <2>6, <3>1 DEF BlobIsGeometry
  <2>7. QED BY <2>2, <2>5, <2>6 DEF BlobIsGeometry, Community, Unflagged
<1>6. ASSUME NEW i \in Rows, BackfillRead(i) PROVE BlobIsGeometry'
  BY <1>0, <1>6 DEF BackfillRead, tableVars, historyVars, BlobIsGeometry, Community, Unflagged
<1>7. ASSUME BackfillWrite PROVE BlobIsGeometry'
  <2>0. PICK r : r = fill.row
    OBVIOUS
  <2>1. /\ fill # NoFill /\ fill' = NoFill /\ rows \subseteq Rows /\ act \in [Rows -> Activity]
        /\ UNCHANGED <<rows, overtaken, contested>>
    BY <1>0, <1>7 DEF BackfillWrite, historyVars, Inv, TypeOK
  <2>2. CASE r \notin rows
    <3>1. act' = act BY <1>7, <2>0, <2>2 DEF BackfillWrite
    <3>2. QED BY <1>0, <2>1, <3>1 DEF BlobIsGeometry, Community, Unflagged
  <2>3. CASE r \in rows
    <3>1. act' = [act EXCEPT ![r] = [act[r] EXCEPT !.cache = fill.geom, !.stamp = fill.stamp]]
      BY <1>7, <2>0, <2>3 DEF BackfillWrite
    <3>2. /\ act[r] \in Activity
          /\ act'[r] = [act[r] EXCEPT !.cache = fill.geom, !.stamp = fill.stamp]
          /\ \A j \in rows : j # r => act'[j] = act[j]
      BY <2>1, <2>3, <3>1
    <3>3. act'[r].cache = fill.geom /\ act'[r].geom = act[r].geom
      BY <3>2 DEF Activity
    <3>4. ASSUME NEW j \in rows, Community(j)', Unflagged(j)
          PROVE  act'[j].cache \in {"none", act'[j].geom}
      <4>1. CASE j = r
        BY <1>0, <2>0, <2>1, <2>3, <3>3, <3>4, <4>1 DEF BlobIsGeometry
      <4>2. CASE j # r
        <5>1. act'[j] = act[j] /\ Community(j) BY <3>2, <3>4, <4>2 DEF Community
        <5>2. QED BY <1>0, <3>4, <5>1 DEF BlobIsGeometry
      <4>3. QED BY <4>1, <4>2
    <3>5. QED BY <2>1, <3>4 DEF BlobIsGeometry, Unflagged
  <2>4. QED BY <2>2, <2>3
<1>8. ASSUME NewParameters PROVE BlobIsGeometry'
  BY <1>0, <1>8, BlobFrame DEF NewParameters, tableVars, historyVars
<1>9. ASSUME NEW i \in Rows, Delete(i) PROVE BlobIsGeometry'
  <2>1. /\ UNCHANGED <<fill, overtaken, contested>>
        /\ rows' = rows \ {i} /\ rows \subseteq Rows
        /\ \A j \in rows' : act'[j] = act[j]
    BY <1>0, <1>9 DEF Delete, jobVars, Inv, TypeOK
  <2>2. QED BY <1>0, <2>1 DEF BlobIsGeometry, Community, Unflagged
<1>10. CASE UNCHANGED vars
  BY <1>0, <1>10, BlobFrame DEF vars, tableVars, jobVars, historyVars
<1>11. QED
  BY <1>1, <1>2, <1>3, <1>4, <1>5, <1>6, <1>7, <1>8, <1>9, <1>10 DEF Next

-----------------------------------------------------------------------------
(* Each step of the store, seen from the public map. *)

(* Nothing is agreed to, added or removed, and a row about which there is no  *)
(* dispute is as eligible as it was and has the geometry it had.              *)
LEMMA IsDispute ==
    ASSUME LedgerInv, LedgerInv', NEW fought \in SUBSET rows,
           UNCHANGED <<rows, used, agreed>>,
           overtaken' \cup contested' = (overtaken \cup contested) \cup fought,
           \A i \in rows : i \notin overtaken' \cup contested' =>
              /\ Eligible(i)' <=> Eligible(i)
              /\ Eligible(i) => act'[i].geom = act[i].geom
    PROVE  Ledger!Next
<1>1. rows \subseteq Rows BY DEF LedgerInv, Inv, TypeOK
<1>2. /\ Show \in [Rows -> Geometry \cup {"none"}]
      /\ \A i \in Rows : ~Eligible(i) => Show[i] = "none"
      /\ \A i \in Rows : Eligible(i) /\ Unflagged(i) => Show[i] = act[i].geom
  BY ShowsGeometry DEF ShowsStored
<1>3. /\ Show' \in [Rows -> Geometry \cup {"none"}]
      /\ \A i \in Rows : ~Eligible(i)' => Show'[i] = "none"
      /\ \A i \in Rows : Eligible(i)' /\ Unflagged(i)' => Show'[i] = act'[i].geom
  <2>1. ShowsStored' BY ShowsGeometry, PTL
  <2>2. QED BY <2>1 DEF ShowsStored
<1>4. \A i \in Rows \ rows : ~Eligible(i) /\ ~Eligible(i)'
  BY DEF Eligible
<1>5. ASSUME NEW i \in Rows \ (overtaken' \cup contested')
      PROVE  Show'[i] = Show[i]
  <2>1. Unflagged(i) /\ Unflagged(i)' BY <1>5 DEF Unflagged
  <2>2. Eligible(i)' <=> Eligible(i) BY <1>4, <1>5
  <2>3. CASE Eligible(i)
    <3>1. i \in rows BY <2>3 DEF Eligible
    <3>2. QED BY <1>2, <1>3, <1>5, <2>1, <2>2, <2>3, <3>1
  <2>4. CASE ~Eligible(i) BY <1>2, <1>3, <1>5, <2>2, <2>4
  <2>5. QED BY <2>3, <2>4
<1>6. \A i \in Rows \ rows : Show'[i] = "none"
  BY <1>3, <1>4
<1>7. Ledger!Dispute(fought)
  BY <1>3, <1>5, <1>6 DEF Ledger!Dispute, Show
<1>8. QED BY <1>1, <1>7 DEF Ledger!Next

LEMMA IsUndisputed ==
    ASSUME LedgerInv, LedgerInv',
           UNCHANGED <<rows, used, agreed>>,
           overtaken' \cup contested' = overtaken \cup contested,
           \A i \in rows : i \notin overtaken' \cup contested' =>
              /\ Eligible(i)' <=> Eligible(i)
              /\ Eligible(i) => act'[i].geom = act[i].geom
    PROVE  Ledger!Next
<1>1. PICK fought \in SUBSET rows : fought = {}
  OBVIOUS
<1>2. overtaken' \cup contested' = (overtaken \cup contested) \cup fought
  BY <1>1
<1>3. QED BY <1>2, IsDispute

(* A step that leaves the rows, the flags and what was agreed to alone. *)
LEMMA IsQuiet ==
    ASSUME LedgerInv, LedgerInv',
           UNCHANGED <<rows, used, act, agreed, overtaken, contested>>
    PROVE  Ledger!Next
<1>1. \A i \in rows : (Eligible(i)' <=> Eligible(i)) /\ act'[i].geom = act[i].geom
  BY DEF Eligible, Community
<1>2. QED BY <1>1, IsUndisputed

LEMMA IsAgreement ==
    ASSUME LedgerInv, LedgerInv', NEW c \in Copies, agreed' \in {agreed, agreed \cup {c}},
           UNCHANGED <<rows, used, act, version, overtaken, contested>>
    PROVE  Ledger!Next
<1>1. CASE agreed' = agreed
  BY <1>1, IsQuiet
<1>2. CASE agreed' = agreed \cup {c}
  <2>1. Show' = Show BY DEF Show, Eligible, Community, Drawn
  <2>2. Ledger!Agree(c) BY <1>2, <2>1 DEF Ledger!Agree, Show
  <2>3. QED BY <2>2 DEF Ledger!Next
<1>3. QED BY <1>1, <1>2

(* A row is added, which shows nothing or a recording agreed to. *)
LEMMA IsAddition ==
    ASSUME LedgerInv, LedgerInv', NEW i \in Rows, i \notin used,
           rows' = rows \cup {i}, used' = used \cup {i},
           \A j \in Rows : j # i => act'[j] = act[j],
           Eligible(i)' => act'[i].geom \in agreed /\ act'[i].cache \in {"none", act'[i].geom},
           UNCHANGED <<agreed, overtaken, contested, version>>
    PROVE  Ledger!Next
<1>1. Show \in [Rows -> Geometry \cup {"none"}]
  BY ShowsGeometry DEF ShowsStored
<1>2. Show' \in [Rows -> Geometry \cup {"none"}] /\ (~Eligible(i)' => Show'[i] = "none")
  <2>1. ShowsStored' BY ShowsGeometry, PTL
  <2>2. QED BY <2>1 DEF ShowsStored
<1>3. Show'[i] \in agreed \cup {"none"}
  <2>1. CASE Eligible(i)'
    BY <2>1 DEF Show, Drawn
  <2>2. QED BY <1>2, <2>1
<1>4. \A j \in Rows : j # i => Show'[j] = Show[j]
  BY DEF Show, Eligible, Community, Drawn
<1>5. Show' = [Show EXCEPT ![i] = Show'[i]]
  BY <1>1, <1>2, <1>4
<1>6. Ledger!Add(i)
  BY <1>3, <1>5 DEF Ledger!Add, Show
<1>7. QED BY <1>6 DEF Ledger!Next

LEMMA IsWithdrawal ==
    ASSUME LedgerInv, LedgerInv', NEW i \in Rows, Delete(i)
    PROVE  Ledger!Next
<1>1. /\ UNCHANGED <<used, version, agreed, overtaken, contested>>
      /\ i \in rows /\ rows' = rows \ {i}
      /\ \A j \in Rows : j # i => act'[j] = act[j]
  BY DEF Delete, jobVars, LedgerInv, Inv, TypeOK
<1>2. Show \in [Rows -> Geometry \cup {"none"}]
  BY ShowsGeometry DEF ShowsStored
<1>3. Show' \in [Rows -> Geometry \cup {"none"}] /\ (~Eligible(i)' => Show'[i] = "none")
  <2>1. ShowsStored' BY ShowsGeometry, PTL
  <2>2. QED BY <2>1 DEF ShowsStored
<1>4. Show'[i] = "none" BY <1>1, <1>3 DEF Eligible
<1>5. \A j \in Rows : j # i => Show'[j] = Show[j]
  BY <1>1 DEF Show, Eligible, Community, Drawn
<1>6. Show' = [Show EXCEPT ![i] = "none"]
  BY <1>2, <1>3, <1>4, <1>5
<1>7. Ledger!Withdraw(i)
  BY <1>1, <1>6 DEF Ledger!Withdraw, Show
<1>8. QED BY <1>7 DEF Ledger!Next

(* A promotion publishes the row, leaves it private, or is the second one. *)
LEMMA IsPublication ==
    ASSUME LedgerInv, LedgerInv', NEW u \in Uploads, UploadPromote(u)
    PROVE  Ledger!Next
<1> DEFINE p == pend[u]
<1>0. PICK r : r = p.row
  OBVIOUS
<1>1. /\ r \in rows /\ rows \subseteq Rows /\ rows' = rows
      /\ p \in Pending /\ p.op = "promote"
      /\ UNCHANGED <<used, agreed, version, overtaken>>
      /\ contested' = IF Community(r) THEN contested \cup {r} ELSE contested
  BY <1>0 DEF UploadPromote, jobVars, LedgerInv, Inv, TypeOK
<1>2. PICK cached \in BOOLEAN :
         /\ cached => p.consent
         /\ act' = [act EXCEPT ![r] = Promoted(r, p, cached)]
  BY <1>0 DEF UploadPromote
<1>3. /\ \A j \in Rows : j # r => act'[j] = act[j]
      /\ act'[r].source = "manual_upload"
      /\ act'[r].contribute = IF p.consent = p.loaded THEN act[r].contribute ELSE p.consent
      /\ act'[r].geom = p.copy
      /\ act'[r].cache = IF cached THEN p.copy ELSE act[r].cache
  BY <1>1, <1>2 DEF Promoted, LedgerInv, Inv, TypeOK
<1>4. \A j \in rows : j # r => (Eligible(j)' <=> Eligible(j)) /\ act'[j].geom = act[j].geom
  BY <1>1, <1>3 DEF Eligible, Community
<1>5. CASE Community(r)
  <2>1. overtaken' \cup contested' = (overtaken \cup contested) \cup {r}
    BY <1>1, <1>5
  <2>2. QED BY <1>1, <1>4, <2>1, IsDispute
<1>6. CASE ~Community(r) /\ ~Unflagged(r)
  <2>1. overtaken' \cup contested' = overtaken \cup contested
    BY <1>1, <1>6
  <2>2. r \in overtaken' \cup contested' BY <1>6, <2>1 DEF Unflagged
  <2>3. QED BY <1>1, <1>4, <2>1, <2>2, IsUndisputed
<1>7. CASE ~Community(r) /\ Unflagged(r)
  <2>1. /\ p.consent => p.copy \in agreed
        /\ act[r].contribute = p.loaded
    BY <1>0, <1>1, <1>7 DEF LedgerInv, Inv, PendingFaithful
  <2>2. ~Eligible(r) /\ act[r].cache = "none"
    BY <1>1, <1>7 DEF Eligible, LedgerInv, Inv, StoredUnderConsent
  <2>3. p.consent \in BOOLEAN /\ p.loaded \in BOOLEAN
    BY <1>1, PendingCases
  <2>4. act'[r].contribute = p.consent BY <1>3, <2>1, <2>3
  <2>5. overtaken' \cup contested' = overtaken \cup contested
    BY <1>1, <1>7
  <2>6. CASE ~p.consent
    <3>1. ~Eligible(r)' BY <2>4, <2>6 DEF Eligible
    <3>2. QED BY <1>1, <1>4, <2>2, <2>5, <3>1, IsUndisputed
  <2>7. CASE p.consent
    <3>1. Show \in [Rows -> Geometry \cup {"none"}] /\ Show[r] = "none"
      BY <1>1, <2>2, ShowsGeometry DEF ShowsStored
    <3>2. Show' \in [Rows -> Geometry \cup {"none"}]
      <4>1. ShowsStored' BY ShowsGeometry, PTL
      <4>2. QED BY <4>1 DEF ShowsStored
    <3>3. Eligible(r)' BY <1>1, <1>3, <2>4, <2>7 DEF Eligible, Community
    <3>4. Show'[r] = p.copy
      BY <1>1, <1>3, <2>2, <3>3 DEF Show, Drawn
    <3>5. \A j \in Rows : j # r => Show'[j] = Show[j]
      BY <1>1, <1>3 DEF Show, Eligible, Community, Drawn
    <3>6. Show' = [Show EXCEPT ![r] = p.copy]
      BY <3>1, <3>2, <3>4, <3>5
    <3>7. r \in rows \ (overtaken \cup contested) BY <1>1, <1>7 DEF Unflagged
    <3>8. Ledger!Publish(r)
      BY <1>1, <2>1, <2>5, <2>7, <3>1, <3>6, <3>7 DEF Ledger!Publish, Show
    <3>9. QED BY <1>1, <3>8 DEF Ledger!Next
  <2>8. QED BY <2>3, <2>6, <2>7
<1>8. QED BY <1>5, <1>6, <1>7

LEMMA IsUpgrade ==
    ASSUME LedgerInv, LedgerInv', NEW g \in Upgrades, UpgradeApply(g)
    PROVE  Ledger!Next
<1>1. PICK got \in SUBSET batch[g], marked \in SUBSET batch[g] :
        /\ act' = [i \in Rows |-> IF i \in rows THEN Upgraded(i, got, marked) ELSE act[i]]
        /\ overtaken' = overtaken \cup {i \in rows \cap got : Community(i)}
  BY DEF UpgradeApply
<1>2. /\ rows \subseteq Rows /\ UNCHANGED <<rows, used, agreed, contested>>
  BY DEF UpgradeApply, LedgerInv, Inv, TypeOK
<1>3. \A i \in rows : /\ act'[i].source = act[i].source
                      /\ act'[i].contribute = act[i].contribute
                      /\ i \notin got => act'[i].geom = act[i].geom
  BY <1>1, <1>2, UpgradedEffect DEF LedgerInv, Inv
<1>4. \A i \in rows : Eligible(i)' <=> Eligible(i)
  BY <1>2, <1>3 DEF Eligible, Community
<1>5. \A i \in rows : i \notin overtaken' /\ Eligible(i) => act'[i].geom = act[i].geom
  BY <1>1, <1>3 DEF Eligible
<1>6. PICK fought : fought = {i \in rows \cap got : Community(i)}
  OBVIOUS
<1>7. /\ fought \in SUBSET rows
      /\ overtaken' \cup contested' = (overtaken \cup contested) \cup fought
  BY <1>1, <1>2, <1>6
<1>8. QED BY <1>2, <1>4, <1>5, <1>7, IsDispute

LEMMA IsRefresh ==
    ASSUME LedgerInv, LedgerInv', BackfillWrite
    PROVE  Ledger!Next
<1>1. /\ rows \subseteq Rows /\ act \in [Rows -> Activity]
      /\ UNCHANGED <<rows, used, agreed, overtaken, contested>>
  BY DEF BackfillWrite, historyVars, LedgerInv, Inv, TypeOK
<1>2. PICK r : r = fill.row
  OBVIOUS
<1>3. CASE r \notin rows
  BY <1>1, <1>2, <1>3, IsQuiet DEF BackfillWrite
<1>4. CASE r \in rows
  <2>1. act' = [act EXCEPT ![r] = [act[r] EXCEPT !.cache = fill.geom, !.stamp = fill.stamp]]
    BY <1>2, <1>4 DEF BackfillWrite
  <2>2. /\ act[r] \in Activity
        /\ act'[r] = [act[r] EXCEPT !.cache = fill.geom, !.stamp = fill.stamp]
        /\ \A i \in rows : i # r => act'[i] = act[i]
    BY <1>1, <1>4, <2>1
  <2>3. \A i \in rows : /\ act'[i].source = act[i].source
                        /\ act'[i].contribute = act[i].contribute
                        /\ act'[i].geom = act[i].geom
    BY <2>2 DEF Activity
  <2>4. \A i \in rows : (Eligible(i)' <=> Eligible(i)) /\ act'[i].geom = act[i].geom
    BY <1>1, <2>3 DEF Eligible, Community
  <2>5. overtaken' \cup contested' = overtaken \cup contested
    BY <1>1
  <2>6. QED BY <1>1, <2>4, <2>5, IsUndisputed
<1>5. QED BY <1>3, <1>4

LEMMA LedgerStep == LedgerInv /\ LedgerInv' /\ Next => Ledger!Next
<1> SUFFICES ASSUME LedgerInv, LedgerInv', Next PROVE Ledger!Next
  OBVIOUS
<1>0. Inv BY DEF LedgerInv
<1>1. ASSUME NEW u \in Uploads, Upload(u) PROVE Ledger!Next
  <2>1. ASSUME NEW c \in Copies, NEW consent \in BOOLEAN,
               UploadExists(u, c, consent) \/ UploadCheck(u, c, consent)
        PROVE  Ledger!Next
    <3>1. /\ agreed' \in {agreed, agreed \cup {c}}
          /\ UNCHANGED <<rows, used, act, version, overtaken, contested>>
      BY <2>1 DEF UploadExists, UploadCheck, tableVars, jobVars
    <3>2. QED BY <3>1, IsAgreement
  <2>2. CASE UploadInsert(u)
    <3>1. UNCHANGED <<agreed, overtaken, contested, version>>
      BY <2>2 DEF UploadInsert, jobVars
    <3>2. PICK i \in Rows :
             /\ i \notin used /\ rows' = rows \cup {i} /\ used' = used \cup {i}
             /\ \A j \in Rows : j # i => act'[j] = act[j]
             /\ act'[i].geom = pend[u].copy
             /\ act'[i].cache \in {"none", act'[i].geom}
             /\ act'[i].contribute = pend[u].consent
      BY <1>0, <2>2, InsertedRow
    <3>3. pend[u].consent => pend[u].copy \in agreed
      BY <1>0, <2>2 DEF UploadInsert, Inv, PendingFaithful
    <3>4. Eligible(i)' => act'[i].geom \in agreed
      BY <3>2, <3>3 DEF Eligible
    <3>5. QED BY <3>1, <3>2, <3>4, IsAddition
  <2>3. CASE UploadPromote(u)
    BY <2>3, IsPublication
  <2>4. CASE UploadFails(u)
    BY <2>4, IsQuiet DEF UploadFails, tableVars, historyVars
  <2>5. QED BY <1>1, <2>1, <2>2, <2>3, <2>4 DEF Upload
<1>2. ASSUME NEW s \in Syncs, SyncPreload(s) PROVE Ledger!Next
  BY <1>2, IsQuiet DEF SyncPreload, tableVars, historyVars
<1>3. ASSUME NEW s \in Syncs, SyncFlush(s) PROVE Ledger!Next
  <2>1. UNCHANGED <<agreed, overtaken, contested, version>> BY <1>3 DEF SyncFlush
  <2>2. CASE UNCHANGED <<rows, used, act>>
    BY <2>1, <2>2, IsQuiet
  <2>3. ASSUME NEW i \in Rows, i \notin used, rows' = rows \cup {i}, used' = used \cup {i},
               \A j \in Rows : j # i => act'[j] = act[j], act'[i].source = "strava_api"
        PROVE  Ledger!Next
    <3>1. ~Eligible(i)' BY <2>3 DEF Eligible, Community
    <3>2. QED BY <2>1, <2>3, <3>1, IsAddition
  <2>4. QED BY <1>0, <1>3, <2>2, <2>3, FlushedRow
<1>4. ASSUME NEW g \in Upgrades, UpgradeFetch(g) PROVE Ledger!Next
  BY <1>4, IsQuiet DEF UpgradeFetch, tableVars, historyVars
<1>5. ASSUME NEW g \in Upgrades, UpgradeApply(g) PROVE Ledger!Next
  BY <1>5, IsUpgrade
<1>6. ASSUME NEW i \in Rows, BackfillRead(i) PROVE Ledger!Next
  BY <1>6, IsQuiet DEF BackfillRead, tableVars, historyVars
<1>7. ASSUME BackfillWrite PROVE Ledger!Next
  BY <1>7, IsRefresh
<1>8. ASSUME NewParameters PROVE Ledger!Next
  BY <1>8, IsQuiet DEF NewParameters, tableVars, historyVars
<1>9. ASSUME NEW i \in Rows, Delete(i) PROVE Ledger!Next
  BY <1>9, IsWithdrawal
<1>10. QED
  BY <1>1, <1>2, <1>3, <1>4, <1>5, <1>6, <1>7, <1>8, <1>9 DEF Next

(* The store keeps what ConsentLedger promises, for any rows, files, uploads,  *)
(* syncs, upgrade loops and parameter changes: what a public row shows stays   *)
(* the recording that was agreed to, through blobs refreshed from geometries   *)
(* read earlier, blobs of old parameters, syncs and marks of failed fetches,   *)
(* until the row is deleted, and no deleted row comes back.                    *)
THEOREM Implements == Spec => KeepsTheLedger
<1>1. Init => Ledger!Init /\ LedgerInv
  <2> SUFFICES ASSUME Init PROVE Ledger!Init /\ LedgerInv
    OBVIOUS
  <2>1. LedgerInv BY InvInit DEF Init, LedgerInv, BlobIsGeometry
  <2>2. Show = [i \in Rows |-> "none"] BY DEF Init, Show, Eligible
  <2>3. Ledger!Init BY <2>2 DEF Init, Ledger!Init, Show
  <2>4. QED BY <2>1, <2>3
<1>2. LedgerInv /\ [Next]_vars => LedgerInv'
  BY InvStep, BlobStep DEF LedgerInv
<1>3. LedgerInv /\ LedgerInv' /\ [Next]_vars => [Ledger!Next]_Ledger!vars
  <2>1. CASE UNCHANGED vars
    <3>1. Show' = Show
      BY <2>1 DEF vars, tableVars, jobVars, historyVars, Show, Eligible, Community, Drawn
    <3>2. UNCHANGED Ledger!vars
      BY <2>1, <3>1 DEF vars, tableVars, historyVars, Ledger!vars, Show
    <3>3. QED BY <3>2
  <2>2. QED BY <2>1, LedgerStep
<1>4. QED BY <1>1, <1>2, <1>3, PTL DEF Spec, KeepsTheLedger, Ledger!Spec

(* What the ledger comes to, from the actions of ConsentLedger alone: outside  *)
(* dispute a row shows a recording agreed to or nothing, and a row that is     *)
(* gone shows nothing.                                                         *)
THEOREM LedgerMeansAgreed == KeepsTheLedger => []Ledger!ShowsOnlyAgreed
<1>1. Ledger!Init => Ledger!ShowsOnlyAgreed
  BY DEF Ledger!Init, Ledger!ShowsOnlyAgreed
<1>2. Ledger!ShowsOnlyAgreed /\ [Ledger!Next]_Ledger!vars => Ledger!ShowsOnlyAgreed'
  BY DEF Ledger!ShowsOnlyAgreed, Ledger!Next, Ledger!vars, Ledger!Agree, Ledger!Add,
         Ledger!Publish, Ledger!Withdraw, Ledger!Dispute
<1>3. QED BY <1>1, <1>2, PTL DEF KeepsTheLedger, Ledger!Spec

=============================================================================
