------------------------ MODULE ArchivePipelineProofs ------------------------
(* Theorems of ArchivePipeline, for every value of its constants. *)
EXTENDS ArchivePipeline, TLAPS

LEMMA InitType == Init => TypeOK
BY LimitsAssumption, TimesAssumption
   DEF Init, TypeOK, Status, Open, Terminal, Object, Phase, Idle, AgeCap

(* What /complete does to the row: nothing the ORM would emit, or 'uploaded'. *)
LEMMA CompleteCommitCases ==
    ASSUME TypeOK, NEW r \in Requests, CompleteCommit(r)
    PROVE  \/ UNCHANGED <<status, age, disturbed>>
           \/ \E a \in Archives : SetStatus(a, "uploaded") /\ NoteDisturbance(a)
<1>1. request[r] \in Call
  BY DEF CompleteCommit, TypeOK, Idle
<1>2. request[r].arch \in Archives
  BY <1>1 DEF Call
<1>3. CASE request[r].seen = "uploaded"
  BY <1>3 DEF CompleteCommit
<1>4. CASE request[r].seen # "uploaded"
  BY <1>2, <1>4 DEF CompleteCommit
<1> QED
  BY <1>3, <1>4

(* What letting archives go does to disturbed. *)
LEMMA LetGoEffect ==
    ASSUME TypeOK, NEW w \in Workers, NEW As, LetGo(w, As)
    PROVE  /\ disturbed' \in [Archives -> BOOLEAN]
           /\ \A a \in Archives : a \notin As => disturbed'[a] = disturbed[a]
           /\ \A a \in Archives, v \in Workers :
                v # w /\ a \in batch[v] => disturbed'[a] = disturbed[a]
<1>1. \A a \in Archives : disturbed[a] \in BOOLEAN
  BY DEF TypeOK
<1>2. disturbed' \in [Archives -> BOOLEAN]
  BY Zenon DEF LetGo
<1>3. \A a \in Archives : a \notin As => disturbed'[a] = disturbed[a]
  BY <1>1, Zenon DEF LetGo
<1>4. \A a \in Archives, v \in Workers :
        v # w /\ a \in batch[v] => disturbed'[a] = disturbed[a]
  BY <1>1, Zenon DEF LetGo, Holds
<1> QED
  BY <1>2, <1>3, <1>4

LEMMA TypeStep == TypeOK /\ [Next]_vars => TypeOK'
<1> SUFFICES ASSUME TypeOK, [Next]_vars PROVE TypeOK'
  OBVIOUS
<1> USE LimitsAssumption, TimesAssumption, ContentsAssumption
<1> USE DEF TypeOK, Status, Open, Terminal, Object, Phase, Idle, AgeCap, Call,
            rowVars, dataVars, envVars, memberVars, workerVars, historyVars
<1>1. ASSUME NEW a \in Archives, NewArchive(a)
      PROVE  TypeOK'
  BY <1>1 DEF NewArchive, SetStatus
<1>2. ASSUME NEW a \in Archives, ReuseArchive(a)
      PROVE  TypeOK'
  BY <1>2 DEF ReuseArchive, Act
<1>3. ASSUME NEW a \in Archives, NEW c \in Contents, Upload(a, c)
      PROVE  TypeOK'
  BY <1>3 DEF Upload, Act
<1>4. ASSUME NEW r \in Requests, NEW a \in Archives, CompleteRead(r, a)
      PROVE  TypeOK'
  BY <1>4 DEF CompleteRead, Act
<1>5. ASSUME NEW r \in Requests, NEW a \in Archives, RequeueRead(r, a)
      PROVE  TypeOK'
  BY <1>5 DEF RequeueRead, Act, Stale
<1>6. ASSUME NEW r \in Requests, CompleteCommit(r)
      PROVE  TypeOK'
  <2>1. CASE UNCHANGED <<status, age, disturbed>>
    BY <1>6, <2>1 DEF CompleteCommit
  <2>2. ASSUME NEW a \in Archives, SetStatus(a, "uploaded"), NoteDisturbance(a)
        PROVE  TypeOK'
    <3>1. status' \in [Archives -> Status] /\ age' \in [Archives -> 0..AgeCap]
      BY <2>2 DEF SetStatus
    <3>2. disturbed' \in [Archives -> BOOLEAN]
      BY <2>2, Zenon DEF NoteDisturbance
    <3> QED
      BY <1>6, <3>1, <3>2 DEF CompleteCommit
  <2> QED
    BY <1>6, <2>1, <2>2, CompleteCommitCases
<1>7. ASSUME NEW r \in Requests, RejectCommit(r)
      PROVE  TypeOK'
  BY <1>7 DEF RejectCommit, NoteDisturbance
<1>8. ASSUME NEW r \in Requests, RejectDelete(r)
      PROVE  TypeOK'
  BY <1>8 DEF RejectDelete
<1>9. ASSUME NEW r \in Requests, RequeueCommit(r)
      PROVE  TypeOK'
  BY <1>9 DEF RequeueCommit, SetStatus, NoteDisturbance
<1>10. ASSUME NEW r \in Requests, RequestLost(r)
      PROVE  TypeOK'
  BY <1>10 DEF RequestLost
<1>11. ASSUME NEW w \in Workers, ReapStuck(w)
      PROVE  TypeOK'
  BY <1>11 DEF ReapStuck
<1>12. ASSUME NEW w \in Workers, SweepAbandoned(w)
      PROVE  TypeOK'
  BY <1>12 DEF SweepAbandoned
<1>13. ASSUME NEW w \in Workers, ReapFails(w)
      PROVE  TypeOK'
  BY <1>13 DEF ReapFails
<1>14. ASSUME NEW w \in Workers, Claim(w)
      PROVE  TypeOK'
  BY <1>14 DEF Claim
<1>15. ASSUME NEW w \in Workers, MailTerminal(w)
      PROVE  TypeOK'
  BY <1>15 DEF MailTerminal
<1>16. ASSUME NEW w \in Workers, NEW a \in Archives, FreeObject(w, a)
      PROVE  TypeOK'
  BY <1>16 DEF FreeObject
<1>17. ASSUME NEW w \in Workers, NEW a \in Archives, OpenArchive(w, a)
      PROVE  TypeOK'
  BY <1>17 DEF OpenArchive, StartMail, Current
<1>18. ASSUME NEW w \in Workers, NEW a \in Archives, ConfigReset(w, a)
      PROVE  TypeOK'
  <2>1. LetGo(w, {a})
    BY <1>18 DEF ConfigReset, Advance
  <2> QED
    BY <1>18, <2>1, LetGoEffect DEF ConfigReset, Advance, Current, SetStatus
<1>19. ASSUME NEW w \in Workers, NEW a \in Archives, NEW m \in Members, IngestMember(w, a, m)
      PROVE  TypeOK'
  <2>1. todo' \in [Workers -> SUBSET Members]
    BY <1>19 DEF IngestMember
  <2>2. stored' \in [Archives -> SUBSET Members] /\ bad' \in [Workers -> SUBSET Members]
    BY <1>19 DEF IngestMember
  <2> QED
    BY <1>19, <2>1, <2>2 DEF IngestMember
<1>20. ASSUME NEW w \in Workers, NEW a \in Archives, FinishDone(w, a)
      PROVE  TypeOK'
  <2>1. LetGo(w, {a})
    BY <1>20 DEF FinishDone, Finish
  <2> QED
    BY <1>20, <2>1, LetGoEffect DEF FinishDone, Finish, Current, SetStatus
<1>21. ASSUME NEW w \in Workers, NEW a \in Archives, FinishFailed(w, a)
      PROVE  TypeOK'
  <2>1. LetGo(w, {a})
    BY <1>21 DEF FinishFailed, Finish
  <2> QED
    BY <1>21, <2>1, LetGoEffect DEF FinishFailed, Finish, Current, SetStatus
<1>22. ASSUME NEW w \in Workers, NEW a \in Archives, FinishLost(w, a)
      PROVE  TypeOK'
  <2>1. LetGo(w, {a})
    BY <1>22 DEF FinishLost, Advance
  <2> QED
    BY <1>22, <2>1, LetGoEffect DEF FinishLost, Advance, Current
<1>23. ASSUME NEW w \in Workers, Kill(w)
      PROVE  TypeOK'
  <2>1. LetGo(w, batch[w])
    BY <1>23 DEF Kill
  <2> QED
    BY <1>23, <2>1, LetGoEffect DEF Kill
<1>24. CASE Tick
  <2>1. run' \in [Workers -> 0..KillAfter]
    BY <1>24 DEF Tick
  <2>2. age' \in [Archives -> 0..AgeCap]
    BY <1>24 DEF Tick
  <2> QED
    BY <1>24, <2>1, <2>2 DEF Tick
<1>25. CASE ConfigBreak
  <2>1. acts' \in 0..MaxActs
    BY <1>25 DEF ConfigBreak, Act
  <2> QED
    BY <1>25, <2>1 DEF ConfigBreak
<1>26. CASE ConfigFix
  BY <1>26 DEF ConfigFix
<1>27. CASE UNCHANGED vars
  BY <1>27 DEF vars
<1> QED
  BY <1>1, <1>2, <1>3, <1>4, <1>5, <1>6, <1>7, <1>8, <1>9, <1>10, <1>11, <1>12, <1>13, <1>14, <1>15, <1>16, <1>17, <1>18, <1>19, <1>20, <1>21, <1>22, <1>23, <1>24, <1>25, <1>26, <1>27
     DEF Next, Browser, Handler, Drain, DrainArchive, Environment

THEOREM TypeCorrect == Spec => []TypeOK
BY InitType, TypeStep, PTL DEF Spec

-----------------------------------------------------------------------------
(* Mutual exclusion of drains.  DrainExclusion is not inductive: a second    *)
(* drain is kept out by the age of the row, and the age of the row is bound  *)
(* by the time its drain has been running, since updated_at is set when the  *)
(* drain claims and an execution cannot outlive KillAfter <= StuckAfter.     *)
Lease ==
    /\ \A w \in Workers : pc[w] \in {"idle", "sweep", "free"} => batch[w] = {}
    /\ \A w \in Workers : \A a \in batch[w] :
         ~disturbed[a] => status[a] = "processing" /\ age[a] <= run[w]
    /\ \A v, w \in Workers : \A a \in batch[v] \cap batch[w] :
         v # w => disturbed[a]

LEMMA LeaseInit == Init => Lease
BY DEF Init, Lease

LEMMA LeaseStep == TypeOK /\ Lease /\ [Next]_vars => Lease'
<1> SUFFICES ASSUME TypeOK, Lease, [Next]_vars PROVE Lease'
  OBVIOUS
<1> USE LimitsAssumption, TimesAssumption
<1> USE DEF TypeOK, Lease, Status, Open, Terminal, Phase, Call, Idle, AgeCap, Holds,
            rowVars, dataVars, envVars, memberVars, workerVars, historyVars
<1>1. ASSUME NEW a \in Archives, NewArchive(a)
      PROVE  Lease'
  BY <1>1 DEF NewArchive, SetStatus
<1>2. ASSUME NEW a \in Archives, ReuseArchive(a)
      PROVE  Lease'
  BY <1>2 DEF ReuseArchive
<1>3. ASSUME NEW a \in Archives, NEW c \in Contents, Upload(a, c)
      PROVE  Lease'
  BY <1>3 DEF Upload
<1>4. ASSUME NEW r \in Requests, NEW a \in Archives, CompleteRead(r, a)
      PROVE  Lease'
  BY <1>4 DEF CompleteRead
<1>5. ASSUME NEW r \in Requests, NEW a \in Archives, RequeueRead(r, a)
      PROVE  Lease'
  BY <1>5 DEF RequeueRead
<1>6. ASSUME NEW r \in Requests, CompleteCommit(r)
      PROVE  Lease'
  <2>1. CASE UNCHANGED <<status, age, disturbed>>
    BY <1>6, <2>1 DEF CompleteCommit
  <2>2. ASSUME NEW a \in Archives, SetStatus(a, "uploaded"), NoteDisturbance(a)
        PROVE  Lease'
    <3>1. UNCHANGED <<batch, pc, run>>
      BY <1>6 DEF CompleteCommit
    <3>2. /\ \A b \in Archives : b # a =>
               status'[b] = status[b] /\ age'[b] = age[b] /\ disturbed'[b] = disturbed[b]
          /\ disturbed'[a] = (disturbed[a] \/ \E w \in Workers : a \in batch[w])
      BY <2>2 DEF SetStatus, NoteDisturbance, Held
    <3>3. \A b \in Archives, w \in Workers : b \in batch[w] /\ ~disturbed'[b] =>
             b # a /\ ~disturbed[b]
      <4> SUFFICES ASSUME NEW b \in Archives, NEW w \in Workers, b \in batch[w], ~disturbed'[b]
                   PROVE  b # a /\ ~disturbed[b]
        OBVIOUS
      <4>1. b # a
        BY <3>2
      <4> QED
        BY <4>1, <3>2
    <3>4. \A w \in Workers : \A b \in batch'[w] :
             ~disturbed'[b] => status'[b] = "processing" /\ age'[b] <= run'[w]
      BY <3>1, <3>2, <3>3
    <3>5. \A v, w \in Workers : \A b \in batch'[v] \cap batch'[w] : v # w => disturbed'[b]
      BY <3>1, <3>2, <3>3
    <3> QED
      BY <3>1, <3>4, <3>5
  <2> QED
    BY <1>6, <2>1, <2>2, CompleteCommitCases
<1>7. ASSUME NEW r \in Requests, RejectCommit(r)
      PROVE  Lease'
  BY <1>7 DEF RejectCommit, NoteDisturbance, Held
<1>8. ASSUME NEW r \in Requests, RejectDelete(r)
      PROVE  Lease'
  BY <1>8 DEF RejectDelete
<1>9. ASSUME NEW r \in Requests, RequeueCommit(r)
      PROVE  Lease'
  BY <1>9 DEF RequeueCommit, SetStatus, NoteDisturbance, Held
<1>10. ASSUME NEW r \in Requests, RequestLost(r)
      PROVE  Lease'
  BY <1>10 DEF RequestLost
<1>11. ASSUME NEW w \in Workers, ReapStuck(w)
      PROVE  Lease'
  BY <1>11 DEF ReapStuck, Exhausted, Stale
<1>12. ASSUME NEW w \in Workers, SweepAbandoned(w)
      PROVE  Lease'
  BY <1>12 DEF SweepAbandoned, Abandoned
<1>13. ASSUME NEW w \in Workers, ReapFails(w)
      PROVE  Lease'
  BY <1>13 DEF ReapFails
<1>14. ASSUME NEW w \in Workers, Claim(w)
      PROVE  Lease'
  BY <1>14 DEF Claim, Drainable, Stale
<1>15. ASSUME NEW w \in Workers, MailTerminal(w)
      PROVE  Lease'
  BY <1>15 DEF MailTerminal
<1>16. ASSUME NEW w \in Workers, NEW a \in Archives, FreeObject(w, a)
      PROVE  Lease'
  BY <1>16 DEF FreeObject
<1>17. ASSUME NEW w \in Workers, NEW a \in Archives, OpenArchive(w, a)
      PROVE  Lease'
  BY <1>17 DEF OpenArchive, StartMail
<1>18. ASSUME NEW w \in Workers, NEW a \in Archives, ConfigReset(w, a)
      PROVE  Lease'
  <2>1. LetGo(w, {a})
    BY <1>18 DEF ConfigReset, Advance
  <2> QED
    BY <1>18, <2>1, LetGoEffect DEF ConfigReset, Advance, Current, SetStatus
<1>19. ASSUME NEW w \in Workers, NEW a \in Archives, NEW m \in Members, IngestMember(w, a, m)
      PROVE  Lease'
  BY <1>19 DEF IngestMember
<1>20. ASSUME NEW w \in Workers, NEW a \in Archives, FinishDone(w, a)
      PROVE  Lease'
  <2>1. LetGo(w, {a})
    BY <1>20 DEF FinishDone, Finish
  <2> QED
    BY <1>20, <2>1, LetGoEffect DEF FinishDone, Finish, Current, SetStatus
<1>21. ASSUME NEW w \in Workers, NEW a \in Archives, FinishFailed(w, a)
      PROVE  Lease'
  <2>1. LetGo(w, {a})
    BY <1>21 DEF FinishFailed, Finish
  <2> QED
    BY <1>21, <2>1, LetGoEffect DEF FinishFailed, Finish, Current, SetStatus
<1>22. ASSUME NEW w \in Workers, NEW a \in Archives, FinishLost(w, a)
      PROVE  Lease'
  <2>1. LetGo(w, {a})
    BY <1>22 DEF FinishLost, Advance
  <2> QED
    BY <1>22, <2>1, LetGoEffect DEF FinishLost, Advance, Current
<1>23. ASSUME NEW w \in Workers, Kill(w)
      PROVE  Lease'
  <2>1. LetGo(w, batch[w])
    BY <1>23 DEF Kill
  <2> QED
    BY <1>23, <2>1, LetGoEffect DEF Kill
<1>24. CASE Tick
  BY <1>24 DEF Tick
<1>25. CASE ConfigBreak
  BY <1>25 DEF ConfigBreak
<1>26. CASE ConfigFix
  BY <1>26 DEF ConfigFix
<1>27. CASE UNCHANGED vars
  BY <1>27 DEF vars
<1> QED
  BY <1>1, <1>2, <1>3, <1>4, <1>5, <1>6, <1>7, <1>8, <1>9, <1>10, <1>11, <1>12, <1>13, <1>14,
     <1>15, <1>16, <1>17, <1>18, <1>19, <1>20, <1>21, <1>22, <1>23, <1>24, <1>25, <1>26, <1>27
     DEF Next, Browser, Handler, Drain, DrainArchive, Environment

(* No two live executions drain the same archive, unless an HTTP handler     *)
(* rewrote the row under a live drain.                                       *)
THEOREM DrainsExclude == Spec => []DrainExclusion
<1>1. Lease => DrainExclusion
  BY DEF Lease, DrainExclusion, Holds
<1> QED
  BY <1>1, LeaseInit, LeaseStep, TypeCorrect, PTL DEF Spec

(* Nor can the stale reclaim or the reaper touch a live drain's archives,    *)
(* though nothing refreshes updated_at while the drain works.                *)
THEOREM LeasesHold == Spec => []LeaseHeld
<1>1. TypeOK /\ Lease => LeaseHeld
  BY TimesAssumption DEF TypeOK, AgeCap, Lease, LeaseHeld, Holds
<1> QED
  BY <1>1, LeaseInit, LeaseStep, TypeCorrect, PTL DEF Spec

-----------------------------------------------------------------------------
(* The start e-mail.  The right to send it is the membership of first, given *)
(* by the one claim that found attempts = 0 and consumed by the opening.     *)
FirstClaim ==
    \A a \in Archives :
        /\ attempts[a] = 0 => startMails[a] = 0 /\ \A w \in Workers : a \notin first[w]
        /\ \A w \in Workers : a \in first[w] => startMails[a] = 0
        /\ \A v, w \in Workers : a \in first[v] /\ a \in first[w] => v = w
        /\ startMails[a] <= 1

LEMMA FirstClaimInit == Init => FirstClaim
BY DEF Init, FirstClaim

LEMMA FirstClaimStep == TypeOK /\ FirstClaim /\ [Next]_vars => FirstClaim'
<1> SUFFICES ASSUME TypeOK, FirstClaim, [Next]_vars PROVE FirstClaim'
  OBVIOUS
<1> USE LimitsAssumption
<1> USE DEF TypeOK, FirstClaim,
            rowVars, dataVars, envVars, memberVars, workerVars, historyVars
<1>1. ASSUME NEW a \in Archives, NewArchive(a)
      PROVE  FirstClaim'
  BY <1>1 DEF NewArchive
<1>2. ASSUME NEW a \in Archives, ReuseArchive(a)
      PROVE  FirstClaim'
  BY <1>2 DEF ReuseArchive
<1>3. ASSUME NEW a \in Archives, NEW c \in Contents, Upload(a, c)
      PROVE  FirstClaim'
  BY <1>3 DEF Upload
<1>4. ASSUME NEW r \in Requests, NEW a \in Archives, CompleteRead(r, a)
      PROVE  FirstClaim'
  BY <1>4 DEF CompleteRead
<1>5. ASSUME NEW r \in Requests, NEW a \in Archives, RequeueRead(r, a)
      PROVE  FirstClaim'
  BY <1>5 DEF RequeueRead
<1>6. ASSUME NEW r \in Requests, CompleteCommit(r)
      PROVE  FirstClaim'
  BY <1>6 DEF CompleteCommit
<1>7. ASSUME NEW r \in Requests, RejectCommit(r)
      PROVE  FirstClaim'
  BY <1>7 DEF RejectCommit
<1>8. ASSUME NEW r \in Requests, RejectDelete(r)
      PROVE  FirstClaim'
  BY <1>8 DEF RejectDelete
<1>9. ASSUME NEW r \in Requests, RequeueCommit(r)
      PROVE  FirstClaim'
  BY <1>9 DEF RequeueCommit
<1>10. ASSUME NEW r \in Requests, RequestLost(r)
      PROVE  FirstClaim'
  BY <1>10 DEF RequestLost
<1>11. ASSUME NEW w \in Workers, ReapStuck(w)
      PROVE  FirstClaim'
  BY <1>11 DEF ReapStuck
<1>12. ASSUME NEW w \in Workers, SweepAbandoned(w)
      PROVE  FirstClaim'
  BY <1>12 DEF SweepAbandoned
<1>13. ASSUME NEW w \in Workers, ReapFails(w)
      PROVE  FirstClaim'
  BY <1>13 DEF ReapFails
<1>14. ASSUME NEW w \in Workers, Claim(w)
      PROVE  FirstClaim'
  BY <1>14 DEF Claim
<1>15. ASSUME NEW w \in Workers, MailTerminal(w)
      PROVE  FirstClaim'
  BY <1>15 DEF MailTerminal
<1>16. ASSUME NEW w \in Workers, NEW a \in Archives, FreeObject(w, a)
      PROVE  FirstClaim'
  BY <1>16 DEF FreeObject
<1>17. ASSUME NEW w \in Workers, NEW a \in Archives, OpenArchive(w, a)
      PROVE  FirstClaim'
  BY <1>17 DEF OpenArchive, StartMail
<1>18. ASSUME NEW w \in Workers, NEW a \in Archives, ConfigReset(w, a)
      PROVE  FirstClaim'
  BY <1>18 DEF ConfigReset, Advance
<1>19. ASSUME NEW w \in Workers, NEW a \in Archives, NEW m \in Members, IngestMember(w, a, m)
      PROVE  FirstClaim'
  BY <1>19 DEF IngestMember
<1>20. ASSUME NEW w \in Workers, NEW a \in Archives, FinishDone(w, a)
      PROVE  FirstClaim'
  BY <1>20 DEF FinishDone, Finish
<1>21. ASSUME NEW w \in Workers, NEW a \in Archives, FinishFailed(w, a)
      PROVE  FirstClaim'
  BY <1>21 DEF FinishFailed, Finish
<1>22. ASSUME NEW w \in Workers, NEW a \in Archives, FinishLost(w, a)
      PROVE  FirstClaim'
  BY <1>22 DEF FinishLost, Advance
<1>23. ASSUME NEW w \in Workers, Kill(w)
      PROVE  FirstClaim'
  BY <1>23 DEF Kill
<1>24. CASE Tick
  BY <1>24 DEF Tick
<1>25. CASE ConfigBreak
  BY <1>25 DEF ConfigBreak
<1>26. CASE ConfigFix
  BY <1>26 DEF ConfigFix
<1>27. CASE UNCHANGED vars
  BY <1>27 DEF vars
<1> QED
  BY <1>1, <1>2, <1>3, <1>4, <1>5, <1>6, <1>7, <1>8, <1>9, <1>10, <1>11, <1>12, <1>13, <1>14,
     <1>15, <1>16, <1>17, <1>18, <1>19, <1>20, <1>21, <1>22, <1>23, <1>24, <1>25, <1>26, <1>27
     DEF Next, Browser, Handler, Drain, DrainArchive, Environment

(* The start e-mail of an archive is sent at most once, whatever is killed,  *)
(* re-claimed, requeued or drained twice.                                    *)
THEOREM StartMailsOnce == Spec => []StartMailOnce
<1>1. FirstClaim => StartMailOnce
  BY DEF FirstClaim, StartMailOnce
<1> QED
  BY <1>1, FirstClaimInit, FirstClaimStep, TypeCorrect, PTL DEF Spec

-----------------------------------------------------------------------------
(* What 'done' means.  During the member loop every member is still to do,   *)
(* counted as failed, or in activities.                                      *)
Covered ==
    /\ \A w \in Workers, a \in Archives : pc[w] = "members" /\ Current(w, a) =>
         Members \subseteq todo[w] \cup bad[w] \cup stored[a]
    /\ DoneMeansCovered

LEMMA CoveredInit == Init => Covered
BY DEF Init, Covered, DoneMeansCovered

LEMMA CoveredStep == TypeOK /\ Covered /\ [Next]_vars => Covered'
<1> SUFFICES ASSUME TypeOK, Covered, [Next]_vars PROVE Covered'
  OBVIOUS
<1> USE ArchivesAssumption
<1> USE DEF TypeOK, Covered, DoneMeansCovered, Current, Status, Open, Terminal,
            Phase, Call, Idle,
            rowVars, dataVars, envVars, memberVars, workerVars, historyVars
<1>1. ASSUME NEW a \in Archives, NewArchive(a)
      PROVE  Covered'
  BY <1>1 DEF NewArchive, SetStatus
<1>2. ASSUME NEW a \in Archives, ReuseArchive(a)
      PROVE  Covered'
  BY <1>2 DEF ReuseArchive
<1>3. ASSUME NEW a \in Archives, NEW c \in Contents, Upload(a, c)
      PROVE  Covered'
  BY <1>3 DEF Upload
<1>4. ASSUME NEW r \in Requests, NEW a \in Archives, CompleteRead(r, a)
      PROVE  Covered'
  BY <1>4 DEF CompleteRead
<1>5. ASSUME NEW r \in Requests, NEW a \in Archives, RequeueRead(r, a)
      PROVE  Covered'
  BY <1>5 DEF RequeueRead
<1>6. ASSUME NEW r \in Requests, CompleteCommit(r)
      PROVE  Covered'
  <2>1. CASE UNCHANGED <<status, age, disturbed>>
    BY <1>6, <2>1 DEF CompleteCommit
  <2>2. ASSUME NEW a \in Archives, SetStatus(a, "uploaded"), NoteDisturbance(a)
        PROVE  Covered'
    BY <1>6, <2>2 DEF CompleteCommit, SetStatus
  <2> QED
    BY <1>6, <2>1, <2>2, CompleteCommitCases
<1>7. ASSUME NEW r \in Requests, RejectCommit(r)
      PROVE  Covered'
  BY <1>7 DEF RejectCommit
<1>8. ASSUME NEW r \in Requests, RejectDelete(r)
      PROVE  Covered'
  BY <1>8 DEF RejectDelete
<1>9. ASSUME NEW r \in Requests, RequeueCommit(r)
      PROVE  Covered'
  BY <1>9 DEF RequeueCommit, SetStatus
<1>10. ASSUME NEW r \in Requests, RequestLost(r)
      PROVE  Covered'
  BY <1>10 DEF RequestLost
<1>11. ASSUME NEW w \in Workers, ReapStuck(w)
      PROVE  Covered'
  BY <1>11 DEF ReapStuck
<1>12. ASSUME NEW w \in Workers, SweepAbandoned(w)
      PROVE  Covered'
  BY <1>12 DEF SweepAbandoned
<1>13. ASSUME NEW w \in Workers, ReapFails(w)
      PROVE  Covered'
  BY <1>13 DEF ReapFails
<1>14. ASSUME NEW w \in Workers, Claim(w)
      PROVE  Covered'
  BY <1>14 DEF Claim
<1>15. ASSUME NEW w \in Workers, MailTerminal(w)
      PROVE  Covered'
  BY <1>15 DEF MailTerminal
<1>16. ASSUME NEW w \in Workers, NEW a \in Archives, FreeObject(w, a)
      PROVE  Covered'
  BY <1>16 DEF FreeObject
<1>17. ASSUME NEW w \in Workers, NEW a \in Archives, OpenArchive(w, a)
      PROVE  Covered'
  BY <1>17 DEF OpenArchive, StartMail
<1>18. ASSUME NEW w \in Workers, NEW a \in Archives, ConfigReset(w, a)
      PROVE  Covered'
  BY <1>18 DEF ConfigReset, Advance, SetStatus
<1>19. ASSUME NEW w \in Workers, NEW a \in Archives, NEW m \in Members, IngestMember(w, a, m)
      PROVE  Covered'
  <2>1. CASE stored' = [stored EXCEPT ![a] = @ \cup {m}] /\ UNCHANGED bad
    BY <1>19, <2>1 DEF IngestMember
  <2>2. CASE bad' = [bad EXCEPT ![w] = @ \cup {m}] /\ UNCHANGED stored
    <3>1. \A v \in Workers, b \in Archives : pc'[v] = "members" /\ Current(v, b)' =>
              Members \subseteq todo'[v] \cup bad'[v] \cup stored'[b]
      BY <1>19, <2>2 DEF IngestMember
    <3> QED
      BY <1>19, <2>2, <3>1 DEF IngestMember
  <2> QED
    BY <1>19, <2>1, <2>2 DEF IngestMember
<1>20. ASSUME NEW w \in Workers, NEW a \in Archives, FinishDone(w, a)
      PROVE  Covered'
  BY <1>20 DEF FinishDone, Finish, SetStatus
<1>21. ASSUME NEW w \in Workers, NEW a \in Archives, FinishFailed(w, a)
      PROVE  Covered'
  BY <1>21 DEF FinishFailed, Finish, SetStatus
<1>22. ASSUME NEW w \in Workers, NEW a \in Archives, FinishLost(w, a)
      PROVE  Covered'
  BY <1>22 DEF FinishLost, Advance
<1>23. ASSUME NEW w \in Workers, Kill(w)
      PROVE  Covered'
  BY <1>23 DEF Kill
<1>24. CASE Tick
  BY <1>24 DEF Tick
<1>25. CASE ConfigBreak
  BY <1>25 DEF ConfigBreak
<1>26. CASE ConfigFix
  BY <1>26 DEF ConfigFix
<1>27. CASE UNCHANGED vars
  BY <1>27 DEF vars
<1> QED
  BY <1>1, <1>2, <1>3, <1>4, <1>5, <1>6, <1>7, <1>8, <1>9, <1>10, <1>11, <1>12, <1>13, <1>14,
     <1>15, <1>16, <1>17, <1>18, <1>19, <1>20, <1>21, <1>22, <1>23, <1>24, <1>25, <1>26, <1>27
     DEF Next, Browser, Handler, Drain, DrainArchive, Environment

(* A row reads 'done' only when every member of the archive is stored or was *)
(* counted as failed by the pass that wrote the row.                         *)
THEOREM DoneIsCovered == Spec => []DoneMeansCovered
<1>1. Covered => DoneMeansCovered
  BY DEF Covered
<1> QED
  BY <1>1, CoveredInit, CoveredStep, TypeCorrect, PTL DEF Spec
-----------------------------------------------------------------------------
(* The refinement of ArchiveLifecycle.  A held archive is only ever touched   *)
(* through its row, so what has to be shown of a step is that the archives it *)
(* takes or gives up are held by nobody who relies on them (Lease), that it   *)
(* announces and ends them rightly (FirstClaim, Covered), and that a handler  *)
(* writes no row that is not there (Called).                                  *)
Called == \A r \in Requests : request[r] # Idle => status[request[r].arch] # "none"

Lessees == [a \in Archives |-> {w \in Workers : Holds(w, a)}]

RefineInv == TypeOK /\ Lease /\ FirstClaim /\ Covered /\ Called

LEMMA LesseesAre ==
    /\ \A a \in Archives, w \in Workers : w \in Lessees[a] <=> a \in batch[w]
    /\ \A a \in Archives : Lessees[a] = {w \in Workers : Holds(w, a)}
    /\ \A a \in Archives : Lessees[a] # {} <=> Held(a)
BY DEF Lessees, Holds, Held

(* The request in flight, by the kind of its handler. *)
LEMMA CallIsFor ==
    ASSUME TypeOK, NEW r \in Requests, request[r] # Idle
    PROVE  request[r] \in Call /\ request[r].arch \in Archives
BY DEF TypeOK, Call

LEMMA CalledStep == TypeOK /\ Called /\ [Next]_vars => Called'
<1> SUFFICES ASSUME TypeOK, Called, [Next]_vars PROVE Called'
  OBVIOUS
<1> USE DEF rowVars, dataVars, envVars, memberVars, workerVars, historyVars
<1>1. \A a \in Archives : status[a] # "none" => status'[a] # "none"
  <2>1. ASSUME NEW a \in Archives, Browser(a)
        PROVE  \A b \in Archives : status[b] # "none" => status'[b] # "none"
    BY <2>1 DEF Browser, NewArchive, ReuseArchive, Upload, SetStatus, TypeOK
  <2>2. ASSUME NEW r \in Requests, Handler(r)
        PROVE  \A b \in Archives : status[b] # "none" => status'[b] # "none"
    BY <2>2, CompleteCommitCases
       DEF Handler, CompleteRead, RequeueRead, RejectCommit, RejectDelete,
           RequeueCommit, RequestLost, SetStatus, TypeOK
  <2>3. ASSUME NEW w \in Workers, Drain(w)
        PROVE  \A b \in Archives : status[b] # "none" => status'[b] # "none"
    <3>1. ASSUME ReapStuck(w) \/ SweepAbandoned(w) \/ ReapFails(w) \/ Claim(w) \/ MailTerminal(w)
          PROVE  \A b \in Archives : status[b] # "none" => status'[b] # "none"
      BY <3>1 DEF ReapStuck, SweepAbandoned, ReapFails, Claim, MailTerminal
    <3>2. ASSUME NEW a \in Archives, FreeObject(w, a) \/ OpenArchive(w, a) \/ FinishLost(w, a)
          PROVE  \A b \in Archives : status[b] # "none" => status'[b] # "none"
      BY <3>2 DEF FreeObject, OpenArchive, FinishLost
    <3>3. ASSUME NEW a \in Archives, NEW m \in Members, IngestMember(w, a, m)
          PROVE  \A b \in Archives : status[b] # "none" => status'[b] # "none"
      BY <3>3 DEF IngestMember
    <3>4. ASSUME NEW a \in Archives, ConfigReset(w, a) \/ FinishDone(w, a) \/ FinishFailed(w, a)
          PROVE  \A b \in Archives : status[b] # "none" => status'[b] # "none"
      BY <3>4 DEF ConfigReset, FinishDone, FinishFailed, Finish, SetStatus, TypeOK
    <3> QED
      BY <2>3, <3>1, <3>2, <3>3, <3>4 DEF Drain, DrainArchive
  <2>4. CASE Environment
    BY <2>4 DEF Environment, Tick, ConfigBreak, ConfigFix, Kill
  <2>5. CASE UNCHANGED vars
    BY <2>5 DEF vars
  <2> QED
    BY <2>1, <2>2, <2>3, <2>4, <2>5 DEF Next
<1>2. ASSUME NEW r \in Requests, request'[r] # Idle
      PROVE  \/ request[r] # Idle /\ request'[r].arch = request[r].arch
             \/ request'[r].arch \in Archives /\ status[request'[r].arch] # "none"
  <2>1. ASSUME NEW q \in Requests, NEW a \in Archives, CompleteRead(q, a)
        PROVE  \/ request'[r] = request[r]
               \/ request'[r].arch = a /\ status[a] # "none"
    BY <2>1 DEF CompleteRead, TypeOK
  <2>2. ASSUME NEW q \in Requests, NEW a \in Archives, RequeueRead(q, a)
        PROVE  \/ request'[r] = request[r]
               \/ request'[r].arch = a /\ status[a] # "none"
    BY <2>2 DEF RequeueRead, TypeOK, Stale
  <2>3. ASSUME NEW q \in Requests,
               CompleteCommit(q) \/ RejectDelete(q) \/ RequeueCommit(q) \/ RequestLost(q)
        PROVE  request'[r] = request[r]
    BY <1>2, <2>3 DEF CompleteCommit, RejectDelete, RequeueCommit, RequestLost, TypeOK
  <2>4. ASSUME NEW q \in Requests, RejectCommit(q)
        PROVE  \/ request'[r] = request[r]
               \/ request[r] # Idle /\ request'[r].arch = request[r].arch
    BY <2>4 DEF RejectCommit, TypeOK, Idle
  <2>5. ASSUME NEW a \in Archives, Browser(a)
        PROVE  request'[r] = request[r]
    BY <2>5 DEF Browser, NewArchive, ReuseArchive, Upload
  <2>6. ASSUME NEW w \in Workers, Drain(w)
        PROVE  request'[r] = request[r]
    BY <2>6 DEF Drain, DrainArchive, ReapStuck, SweepAbandoned, ReapFails, Claim,
           MailTerminal, FreeObject, OpenArchive, ConfigReset, IngestMember,
           FinishDone, FinishFailed, FinishLost
  <2>7. CASE Environment
    BY <1>2, <2>7 DEF Environment, Tick, ConfigBreak, ConfigFix, Kill
  <2>8. CASE UNCHANGED vars
    BY <1>2, <2>8 DEF vars
  <2> QED
    BY <1>2, <2>1, <2>2, <2>3, <2>4, <2>5, <2>6, <2>7, <2>8 DEF Next, Handler
<1> QED
  BY <1>1, <1>2, CallIsFor DEF Called

(* A drain that lets archives of its batch go. *)
LEMMA LeaveIsLeave ==
    ASSUME TypeOK, NEW w \in Workers, NEW As \in SUBSET Archives, As \subseteq batch[w],
           batch' = [batch EXCEPT ![w] = @ \ As], LetGo(w, As)
    PROVE  Lifecycle!Leave(w, As)
<1>1. \A a \in As : w \in Lessees[a]
  BY LesseesAre
<1>2. Lessees' = [a \in Archives |-> IF a \in As THEN Lessees[a] \ {w} ELSE Lessees[a]]
  <2>1. ASSUME NEW a \in Archives
        PROVE  {v \in Workers : Holds(v, a)}'
                  = IF a \in As THEN {v \in Workers : Holds(v, a)} \ {w}
                    ELSE {v \in Workers : Holds(v, a)}
    BY DEF Holds, TypeOK
  <2> QED
    BY <2>1 DEF Lessees
<1>3. \A a \in As : (\E v \in Workers \ {w} : Holds(v, a)) <=> Lessees[a] # {w}
  BY <1>1 DEF Lessees, Holds
<1>4. disturbed' = [a \in Archives |-> disturbed[a] /\ (a \in As => Lessees[a] # {w})]
  BY <1>3, Zenon DEF LetGo
<1> QED
  BY <1>1, <1>2, <1>4 DEF Lifecycle!Leave, Lessees

(* Nobody relies on a row that is not 'processing', or is stale. *)
LEMMA FreeToTake ==
    ASSUME TypeOK, Lease, NEW a \in Archives, status[a] # "processing" \/ Stale(a)
    PROVE  Lifecycle!Unclaimed(a)
<1>1. SUFFICES ASSUME ~disturbed[a], NEW w \in Lessees[a]
               PROVE  FALSE
  BY DEF Lifecycle!Unclaimed, Lessees
<1>2. w \in Workers /\ a \in batch[w]
  BY LesseesAre, <1>1 DEF Lessees
<1>3. status[a] = "processing" /\ age[a] <= run[w]
  BY <1>1, <1>2 DEF Lease
<1> QED
  BY <1>2, <1>3, TimesAssumption DEF Stale, TypeOK, AgeCap
(* Every step of the pipeline is a step of its promise, or changes nothing    *)
(* the promise speaks of.                                                     *)
LEMMA PromiseStep ==
    ASSUME RefineInv, [Next]_vars
    PROVE  [Lifecycle!Next]_Lifecycle!vars
<1> USE DEF rowVars, dataVars, envVars, memberVars, workerVars, historyVars
<1>0. TypeOK /\ Lease /\ FirstClaim /\ Covered /\ Called
  BY DEF RefineInv
<1>1. ASSUME UNCHANGED <<status, batch, disturbed, stored, lost, startMails>>
      PROVE  UNCHANGED Lifecycle!vars
  <2>1. Lessees' = Lessees
    BY <1>1 DEF Lessees, Holds
  <2> QED
    BY <1>1, <2>1 DEF Lifecycle!vars, Lessees
<1>2. ASSUME NEW a \in Archives, NewArchive(a)
      PROVE  Lifecycle!Next
  <2>1. Lessees' = Lessees
    BY <1>2 DEF NewArchive, Lessees, Holds
  <2>2. Lifecycle!Begin(a)
    BY <1>2, <2>1 DEF NewArchive, SetStatus, Lifecycle!Begin, Lessees
  <2> QED
    BY <2>2 DEF Lifecycle!Next
<1>3. ASSUME NEW a \in Archives, status[a] # "none", NoteDisturbance(a),
             NEW answer \in {status[a], "uploaded", "failed"},
             status' = [status EXCEPT ![a] = answer],
             UNCHANGED <<batch, stored, lost, startMails>>
      PROVE  Lifecycle!Next
  <2>1. Lessees' = Lessees
    BY <1>3 DEF Lessees, Holds
  <2>2. disturbed' = [disturbed EXCEPT ![a] = @ \/ Lessees[a] # {}]
    BY <1>3, LesseesAre, Zenon DEF NoteDisturbance
  <2>3. Lifecycle!StepIn(a)
    BY <1>3, <2>1, <2>2 DEF Lifecycle!StepIn, Lessees
  <2> QED
    BY <2>3 DEF Lifecycle!Next
<1>4. ASSUME NEW r \in Requests, CompleteCommit(r)
      PROVE  [Lifecycle!Next]_Lifecycle!vars
  <2>1. request[r].arch \in Archives /\ status[request[r].arch] # "none"
    BY <1>0, <1>4, CallIsFor DEF CompleteCommit, Called, Idle
  <2>2. CASE request[r].seen = "uploaded"
    BY <1>1, <1>4, <2>2 DEF CompleteCommit
  <2>3. CASE request[r].seen # "uploaded"
    BY <1>3, <1>4, <2>1, <2>3 DEF CompleteCommit, SetStatus
  <2> QED
    BY <2>2, <2>3
<1>5. ASSUME NEW r \in Requests, RejectCommit(r)
      PROVE  Lifecycle!Next
  <2>1. request[r].arch \in Archives /\ status[request[r].arch] # "none"
    BY <1>0, <1>5, CallIsFor DEF RejectCommit, Called, Idle
  <2> QED
    BY <1>3, <1>5, <2>1 DEF RejectCommit
<1>6. ASSUME NEW r \in Requests, RequeueCommit(r)
      PROVE  Lifecycle!Next
  <2>1. request[r].arch \in Archives /\ status[request[r].arch] # "none"
    BY <1>0, <1>6, CallIsFor DEF RequeueCommit, Called, Idle
  <2> QED
    BY <1>3, <1>6, <2>1 DEF RequeueCommit, SetStatus
<1>7. ASSUME NEW w \in Workers, ReapStuck(w) \/ SweepAbandoned(w)
      PROVE  Lifecycle!Next
  <2>1. PICK As \in SUBSET Archives :
           /\ status' = [a \in Archives |-> IF a \in As THEN "failed" ELSE status[a]]
           /\ \A a \in As : Exhausted(a) \/ Abandoned(a)
    <3>1. ASSUME ReapStuck(w)
          PROVE  \E As \in SUBSET Archives :
           /\ status' = [a \in Archives |-> IF a \in As THEN "failed" ELSE status[a]]
           /\ \A a \in As : Exhausted(a) \/ Abandoned(a)
      <4> WITNESS {a \in Archives : Exhausted(a)} \in SUBSET Archives
      <4> QED
        BY <3>1, Zenon DEF ReapStuck
    <3>2. ASSUME SweepAbandoned(w)
          PROVE  \E As \in SUBSET Archives :
           /\ status' = [a \in Archives |-> IF a \in As THEN "failed" ELSE status[a]]
           /\ \A a \in As : Exhausted(a) \/ Abandoned(a)
      <4> WITNESS {a \in Archives : Abandoned(a)} \in SUBSET Archives
      <4> QED
        BY <3>2, Zenon DEF SweepAbandoned
    <3> QED
      BY <1>7, <3>1, <3>2
  <2>2. \A a \in As : status[a] \in {"awaiting_upload", "processing"} /\ Lifecycle!Unclaimed(a)
    BY <1>0, <2>1, FreeToTake DEF Exhausted, Abandoned, Stale
  <2>3. UNCHANGED <<batch, disturbed, stored, lost, startMails>>
    BY <1>7 DEF ReapStuck, SweepAbandoned
  <2>4. Lessees' = Lessees
    BY <2>3 DEF Lessees, Holds
  <2>5. Lifecycle!GiveUp(As)
    BY <2>1, <2>2, <2>3, <2>4 DEF Lifecycle!GiveUp, Lessees
  <2> QED
    BY <2>5 DEF Lifecycle!Next
<1>8. ASSUME NEW w \in Workers, Claim(w)
      PROVE  Lifecycle!Next
  <2>1. PICK As \in SUBSET Archives :
           /\ \A a \in As : Drainable(a)
           /\ status' = [a \in Archives |-> IF a \in As THEN "processing" ELSE status[a]]
           /\ batch' = [batch EXCEPT ![w] = As]
    BY <1>8, Zenon DEF Claim
  <2>2. batch[w] = {}
    BY <1>0, <1>8 DEF Claim, Lease
  <2>3. \A a \in Archives : w \notin Lessees[a]
    BY <2>2, LesseesAre
  <2>4. \A a \in As : status[a] \in {"uploaded", "processing"} /\ Lifecycle!Unclaimed(a)
    BY <1>0, <2>1, FreeToTake DEF Drainable, Stale
  <2>5. Lessees' = [a \in Archives |-> IF a \in As THEN Lessees[a] \cup {w} ELSE Lessees[a]]
    <3>1. ASSUME NEW a \in Archives
          PROVE  {v \in Workers : Holds(v, a)}'
                    = IF a \in As THEN {v \in Workers : Holds(v, a)} \cup {w}
                      ELSE {v \in Workers : Holds(v, a)}
      BY <1>0, <2>1, <2>2 DEF Holds, TypeOK
    <3> QED
      BY <3>1 DEF Lessees
  <2>6. UNCHANGED <<disturbed, stored, lost, startMails>>
    BY <1>8 DEF Claim
  <2>7. Lifecycle!Take(w, As)
    BY <2>1, <2>3, <2>4, <2>5, <2>6 DEF Lifecycle!Take, Lessees
  <2> QED
    BY <2>7 DEF Lifecycle!Next
<1>9. ASSUME NEW w \in Workers, NEW a \in Archives, OpenArchive(w, a)
      PROVE  [Lifecycle!Next]_Lifecycle!vars
  <2>1. UNCHANGED <<status, batch, disturbed, stored, lost>>
    BY <1>9 DEF OpenArchive
  <2>2. w \in Lessees[a] /\ Lessees' = Lessees
    BY <1>9, <2>1, LesseesAre DEF OpenArchive, Current, Lessees, Holds
  <2>3. CASE a \in first[w]
    <3>0. startMails[a] = 0
      BY <1>0, <2>3 DEF FirstClaim
    <3>1. startMails' = [startMails EXCEPT ![a] = 1]
      BY <1>9, <2>3, <3>0 DEF OpenArchive, StartMail
    <3>2. Lifecycle!Announce(w, a)
      BY <2>1, <2>2, <3>0, <3>1 DEF Lifecycle!Announce, Lessees
    <3> QED
      BY <3>2 DEF Lifecycle!Next
  <2>4. CASE a \notin first[w]
    <3>1. startMails' = startMails
      BY <1>0, <1>9, <2>4 DEF OpenArchive, StartMail, TypeOK
    <3> QED
      BY <1>1, <2>1, <3>1
  <2> QED
    BY <2>3, <2>4
<1>10. ASSUME NEW w \in Workers, NEW a \in Archives, NEW m \in Members, IngestMember(w, a, m)
       PROVE  [Lifecycle!Next]_Lifecycle!vars
  <2>1. UNCHANGED <<status, batch, disturbed, lost, startMails>>
    BY <1>10 DEF IngestMember
  <2>2. w \in Lessees[a] /\ Lessees' = Lessees
    BY <1>10, <2>1, LesseesAre DEF IngestMember, Current, Lessees, Holds
  <2>3. CASE UNCHANGED stored
    BY <1>1, <2>1, <2>3
  <2>4. CASE stored' = [stored EXCEPT ![a] = @ \cup {m}]
    <3>1. Lifecycle!Store(w, a)
      BY <2>1, <2>2, <2>4 DEF Lifecycle!Store, Lessees
    <3> QED
      BY <3>1 DEF Lifecycle!Next
  <2> QED
    BY <1>10, <2>3, <2>4 DEF IngestMember
<1>11. ASSUME NEW w \in Workers, NEW a \in Archives, ConfigReset(w, a)
       PROVE  Lifecycle!Next
  <2>1. Lifecycle!Leave(w, {a})
    BY <1>0, <1>11, LeaveIsLeave DEF ConfigReset, Advance, Current
  <2>2. Lifecycle!PutBack(w, a)
    BY <1>11, <2>1 DEF ConfigReset, Advance, SetStatus, Lifecycle!PutBack
  <2> QED
    BY <2>2 DEF Lifecycle!Next
<1>12. ASSUME NEW w \in Workers, NEW a \in Archives, FinishLost(w, a)
       PROVE  Lifecycle!Next
  <2>1. Lifecycle!Leave(w, {a})
    BY <1>0, <1>12, LeaveIsLeave DEF FinishLost, Advance, Current
  <2>2. Lifecycle!Drop(w, {a})
    BY <1>12, <2>1 DEF FinishLost, Advance, Lifecycle!Drop
  <2> QED
    BY <2>2 DEF Lifecycle!Next
<1>13. ASSUME NEW w \in Workers, Kill(w)
       PROVE  Lifecycle!Next
  <2>1. batch[w] \in SUBSET Archives /\ batch' = [batch EXCEPT ![w] = @ \ batch[w]]
    BY <1>0, <1>13 DEF Kill, TypeOK
  <2>2. Lifecycle!Leave(w, batch[w])
    BY <1>0, <1>13, <2>1, LeaveIsLeave DEF Kill
  <2>3. Lifecycle!Drop(w, batch[w])
    BY <1>13, <2>2 DEF Kill, Lifecycle!Drop
  <2> QED
    BY <2>1, <2>3 DEF Lifecycle!Next
<1>14. ASSUME NEW w \in Workers, NEW a \in Archives, NEW outcome \in Terminal,
              a \in batch[w], Finish(w, a, outcome), UNCHANGED <<stored, startMails>>,
              outcome = "done" => stored[a] \cup bad[w] = Members
       PROVE  Lifecycle!Next
  <2>1. Lifecycle!Leave(w, {a})
    BY <1>0, <1>14, LeaveIsLeave DEF Finish
  <2>2. bad[w] \in SUBSET Members /\ outcome \in Lifecycle!Ended
    BY <1>0, <1>14 DEF TypeOK, Terminal, Lifecycle!Ended
  <2>3. Lifecycle!Settle(w, a)
    BY <1>14, <2>1, <2>2 DEF Finish, SetStatus, Lifecycle!Settle
  <2> QED
    BY <2>3 DEF Lifecycle!Next
<1>15. ASSUME NEW w \in Workers, NEW a \in Archives, FinishDone(w, a)
       PROVE  Lifecycle!Next
  <2>1. stored[a] \cup bad[w] = Members
    BY <1>0, <1>15 DEF FinishDone, Covered, TypeOK
  <2> QED
    BY <1>14, <1>15, <2>1 DEF FinishDone, Current, Terminal
<1>16. ASSUME NEW w \in Workers, NEW a \in Archives, FinishFailed(w, a)
       PROVE  Lifecycle!Next
  BY <1>14, <1>16 DEF FinishFailed, Current, Terminal
<1>17. ASSUME NEW a \in Archives, ReuseArchive(a) \/ \E c \in Contents : Upload(a, c)
       PROVE  UNCHANGED Lifecycle!vars
  BY <1>1, <1>17 DEF ReuseArchive, Upload
<1>18. ASSUME NEW r \in Requests,
              \/ \E a \in Archives : CompleteRead(r, a) \/ RequeueRead(r, a)
              \/ RejectDelete(r) \/ RequestLost(r)
       PROVE  UNCHANGED Lifecycle!vars
  BY <1>1, <1>18 DEF CompleteRead, RequeueRead, RejectDelete, RequestLost
<1>19. ASSUME NEW w \in Workers,
              ReapFails(w) \/ MailTerminal(w) \/ \E a \in Archives : FreeObject(w, a)
       PROVE  UNCHANGED Lifecycle!vars
  BY <1>1, <1>19 DEF ReapFails, MailTerminal, FreeObject
<1>20. CASE Tick \/ ConfigBreak \/ ConfigFix
  BY <1>1, <1>20 DEF Tick, ConfigBreak, ConfigFix
<1>21. CASE UNCHANGED vars
  BY <1>1, <1>21 DEF vars
<1>22. CASE \E a \in Archives : Browser(a)
  BY <1>2, <1>17, <1>22 DEF Browser
<1>23. CASE \E r \in Requests : Handler(r)
  BY <1>4, <1>5, <1>6, <1>18, <1>23 DEF Handler
<1>24. CASE \E w \in Workers : Drain(w)
  BY <1>7, <1>8, <1>9, <1>10, <1>11, <1>12, <1>15, <1>16, <1>19, <1>24 DEF Drain, DrainArchive
<1>25. CASE Environment
  BY <1>13, <1>20, <1>25 DEF Environment
<1> QED
  BY <1>21, <1>22, <1>23, <1>24, <1>25 DEF Next

(* The pipeline implements ArchiveLifecycle: whatever is killed, reclaimed,   *)
(* reaped, put back or called twice, the archives only take the steps that    *)
(* their owners are promised.                                                 *)
THEOREM Implements == Spec => KeepsItsPromise
<1>1. Init => Lifecycle!Init /\ RefineInv
  <2> SUFFICES ASSUME Init PROVE Lifecycle!Init /\ RefineInv
    OBVIOUS
  <2>1. Called
    BY DEF Init, Called
  <2>2. [a \in Archives |-> {w \in Workers : Holds(w, a)}] = [a \in Archives |-> {}]
    BY DEF Init, Holds
  <2>3. Lifecycle!Init
    BY <2>2 DEF Init, Lifecycle!Init
  <2> QED
    BY <2>1, <2>3, InitType, LeaseInit, FirstClaimInit, CoveredInit DEF RefineInv
<1>2. RefineInv /\ [Next]_vars => RefineInv'
  BY TypeStep, LeaseStep, FirstClaimStep, CoveredStep, CalledStep DEF RefineInv
<1>3. RefineInv /\ [Next]_vars => [Lifecycle!Next]_Lifecycle!vars
  BY PromiseStep
<1> QED
  BY <1>1, <1>2, <1>3, PTL DEF Spec, KeepsItsPromise, Lifecycle!Spec

(* What the promise comes to: a drain has its archive for itself, and finds   *)
(* its row as it left it, unless somebody stepped in.  This rests on the      *)
(* actions of ArchiveLifecycle alone.                                         *)
THEOREM PromiseMeansOneHolder == KeepsItsPromise => []Lifecycle!HeldByOne
<1> DEFINE IInv == disturbed \in [Archives -> BOOLEAN] /\ Lifecycle!HeldByOne
<1>1. Lifecycle!Init => IInv
  BY DEF Lifecycle!Init, Lifecycle!HeldByOne
<1>2. IInv /\ [Lifecycle!Next]_Lifecycle!vars => IInv'
  <2> DEFINE Relied(a) == ~disturbed[a] =>
                /\ \A v, w \in Lessees[a] : v = w
                /\ Lessees[a] # {} => status[a] = "processing"
             Kept == disturbed' \in [Archives -> BOOLEAN] /\ \A a \in Archives : Relied(a)'
  <2>0. SUFFICES ASSUME disturbed \in [Archives -> BOOLEAN], \A a \in Archives : Relied(a),
                        [Lifecycle!Next]_Lifecycle!vars
                 PROVE  Kept
    BY DEF Lifecycle!HeldByOne, Lessees
  <2>1. CASE UNCHANGED <<status, Lessees, disturbed>>
    BY <2>0, <2>1
  <2>2. ASSUME NEW a \in Archives, Lifecycle!Begin(a)
        PROVE  Kept
    <3>1. Lessees' = Lessees /\ disturbed' = disturbed /\ status[a] = "none"
          /\ \A b \in Archives : b # a => status'[b] = status[b]
      BY <2>2 DEF Lifecycle!Begin, Lessees
    <3> QED
      BY <2>0, <3>1
  <2>3. ASSUME NEW a \in Archives, Lifecycle!StepIn(a)
        PROVE  Kept
    <3>1. Lessees' = Lessees
          /\ \A b \in Archives : b # a => status'[b] = status[b]
      BY <2>3 DEF Lifecycle!StepIn, Lessees
    <3>2. disturbed' = [disturbed EXCEPT ![a] = @ \/ Lessees[a] # {}]
      BY <2>3, Zenon DEF Lifecycle!StepIn, Lessees
    <3>3. disturbed' \in [Archives -> BOOLEAN]
      BY <2>0, <3>2
    <3>4. \A b \in Archives : b # a => disturbed'[b] = disturbed[b]
      BY <2>0, <3>2
    <3>5. ~disturbed'[a] => Lessees[a] = {}
      BY <2>0, <3>2
    <3> QED
      BY <2>0, <3>1, <3>3, <3>4, <3>5
  <2>4. ASSUME NEW w \in Workers, NEW As \in SUBSET Archives, Lifecycle!Take(w, As)
        PROVE  Kept
    <3>1. /\ \A a \in As : Lessees[a] = {} \/ disturbed[a]
          /\ disturbed' = disturbed
          /\ Lessees' = [a \in Archives |-> IF a \in As THEN Lessees[a] \cup {w} ELSE Lessees[a]]
          /\ status' = [a \in Archives |-> IF a \in As THEN "processing" ELSE status[a]]
      BY <2>4 DEF Lifecycle!Take, Lifecycle!Unclaimed, Lessees
    <3> QED
      BY <2>0, <3>1
  <2>5. ASSUME NEW w \in Workers, NEW As \in SUBSET Archives, Lifecycle!Leave(w, As),
               \A a \in Archives \ As : status'[a] = status[a]
        PROVE  Kept
    <3>1. /\ \A a \in As : w \in Lessees[a]
          /\ Lessees' = [a \in Archives |-> IF a \in As THEN Lessees[a] \ {w} ELSE Lessees[a]]
      BY <2>5 DEF Lifecycle!Leave, Lessees
    <3>2. disturbed' = [a \in Archives |-> disturbed[a] /\ (a \in As => Lessees[a] # {w})]
      BY <2>5, Zenon DEF Lifecycle!Leave, Lessees
    <3>3. disturbed' \in [Archives -> BOOLEAN]
      BY <3>2, Zenon
    <3>4. \A a \in Archives : a \notin As => (~disturbed'[a] => ~disturbed[a])
      BY <3>2, Zenon
    <3>5. \A a \in As : ~disturbed'[a] => ~disturbed[a] \/ Lessees[a] = {w}
      BY <3>2, Zenon
    <3>6. ASSUME NEW a \in As, ~disturbed'[a]
          PROVE  Lessees'[a] = {}
      BY <2>0, <3>1, <3>5, <3>6
    <3> QED
      BY <2>0, <2>5, <3>1, <3>3, <3>4, <3>6
  <2>6. ASSUME NEW As \in SUBSET Archives, Lifecycle!GiveUp(As)
        PROVE  Kept
    <3>1. /\ \A a \in As : Lessees[a] = {} \/ disturbed[a]
          /\ disturbed' = disturbed /\ Lessees' = Lessees
          /\ status' = [a \in Archives |-> IF a \in As THEN "failed" ELSE status[a]]
      BY <2>6 DEF Lifecycle!GiveUp, Lifecycle!Unclaimed, Lessees
    <3> QED
      BY <2>0, <3>1
  <2>7. ASSUME NEW w \in Workers, NEW a \in Archives,
               Lifecycle!Announce(w, a) \/ Lifecycle!Store(w, a)
        PROVE  Kept
    BY <2>1, <2>7 DEF Lifecycle!Announce, Lifecycle!Store, Lessees
  <2>8. ASSUME NEW w \in Workers, NEW a \in Archives,
               Lifecycle!Settle(w, a) \/ Lifecycle!PutBack(w, a)
        PROVE  Kept
    <3>1. Lifecycle!Leave(w, {a})
      BY <2>8, Zenon DEF Lifecycle!Settle, Lifecycle!PutBack
    <3>2. \E s : status' = [status EXCEPT ![a] = s]
      BY <2>8, Zenon DEF Lifecycle!Settle, Lifecycle!PutBack
    <3>3. \A b \in Archives \ {a} : status'[b] = status[b]
      BY <3>2
    <3> QED
      BY <2>5, <3>1, <3>3
  <2>9. ASSUME NEW w \in Workers, NEW As \in SUBSET Archives, Lifecycle!Drop(w, As)
        PROVE  Kept
    BY <2>5, <2>9 DEF Lifecycle!Drop
  <2>10. CASE UNCHANGED Lifecycle!vars
    BY <2>1, <2>10 DEF Lifecycle!vars, Lessees
  <2> QED
    BY <2>0, <2>2, <2>3, <2>4, <2>6, <2>7, <2>8, <2>9, <2>10 DEF Lifecycle!Next
<1>3. IInv => Lifecycle!HeldByOne
  OBVIOUS
<1> QED
  BY <1>1, <1>2, <1>3, PTL DEF KeepsItsPromise, Lifecycle!Spec
=============================================================================
