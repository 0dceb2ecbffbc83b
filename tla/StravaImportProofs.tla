------------------------- MODULE StravaImportProofs -------------------------
(* Theorems of StravaImport, for every value of its constants. *)
EXTENDS StravaImport, TLAPS

Statuses == NoRow \cup {"RUNNING"} \cup Settled
Labels == Live \cup {"none", "ended", "dead"}
RowType == [status: Statuses, age: 0 .. StaleAge + 1, idle: 0 .. SweepAge + 1]
ExecType == [pc: Labels, seen: Statuses, waited: 0 .. QueueWait, page: 0 .. MaxPages]

(* The two ways an execution's record changes keep its type. *)
LEMMA ExecChange ==
    ASSUME TypeOK, NEW x \in Executions, NEW label \in Labels, Goto(x, label) \/ Enter(x, label)
    PROVE  /\ exec' \in [Executions -> ExecType]
           /\ exec'[x].pc = label
           /\ \A y \in Executions : y # x => exec'[y] = exec[y]
<1> USE DelaysAssumption, PagesAssumption
<1>1. Absent \in ExecType
  BY DEF Absent, ExecType, Statuses, NoRow, Labels
<1>2. \A e \in ExecType : /\ [e EXCEPT !.pc = label] \in ExecType
                          /\ [e EXCEPT !.pc = label].pc = label
  BY DEF ExecType
<1>3. exec \in [Executions -> ExecType]
  BY DEF TypeOK, ExecType, Labels, Statuses
<1>4. CASE Goto(x, label)
  BY <1>2, <1>3, <1>4 DEF Goto
<1>5. CASE Enter(x, label)
  BY <1>1, <1>2, <1>3, <1>5 DEF Enter
<1> QED
  BY <1>4, <1>5

LEMMA PassChange ==
    ASSUME TypeOK, NEW j \in Jobs, Pass(j), Cloud(j) \in Executions
    PROVE  /\ exec' \in [Executions -> ExecType]
           /\ exec'[Cloud(j)].pc = "claiming"
           /\ \A y \in Executions : y # Cloud(j) => exec'[y] = exec[y]
<1>1. \A e \in ExecType, s \in Statuses :
         /\ [e EXCEPT !.pc = "claiming", !.seen = s] \in ExecType
         /\ [e EXCEPT !.pc = "claiming", !.seen = s].pc = "claiming"
  BY DEF ExecType, Labels, Live, Importing
<1>2. exec \in [Executions -> ExecType] /\ job[j].status \in Statuses
  BY DEF TypeOK, ExecType, Labels, Statuses
<1>3. PICK s \in Statuses :
         exec' = [exec EXCEPT ![Cloud(j)] = [@ EXCEPT !.pc = "claiming", !.seen = s]]
  <2>1. exec[Cloud(j)].seen \in Statuses
    BY <1>2 DEF ExecType
  <2>2. exec' = [exec EXCEPT ![Cloud(j)] =
                   [@ EXCEPT !.pc = "claiming",
                             !.seen = IF exec[Cloud(j)].pc = "waiting"
                                      THEN job[j].status ELSE exec[Cloud(j)].seen]]
    BY DEF Pass
  <2>3. CASE exec[Cloud(j)].pc = "waiting"
    BY <1>2, <2>2, <2>3
  <2>4. CASE exec[Cloud(j)].pc # "waiting"
    BY <2>1, <2>2, <2>4
  <2> QED
    BY <2>3, <2>4
<1> QED
  BY <1>1, <1>2, <1>3

(* So do the ways a row changes. *)
LEMMA RowChange ==
    ASSUME TypeOK, NEW j \in Jobs, NEW status \in Statuses,
           \/ job' = job \/ Touch(j) \/ Settle(j, status) \/ SettleRaw(j, status)
    PROVE  /\ job' \in [Jobs -> RowType]
           /\ \A k \in Jobs : k # j => job'[k] = job[k]
           /\ Settle(j, status) \/ SettleRaw(j, status) => job'[j].status = status
           /\ job' = job \/ Touch(j) => job'[j].status = job[j].status
BY DelaysAssumption DEF TypeOK, RowType, Statuses, Touch, Settle, SettleRaw

LEMMA FailAllChange ==
    ASSUME TypeOK, NEW rows \in SUBSET Jobs, FailAll(rows)
    PROVE  /\ job' \in [Jobs -> RowType]
           /\ \A k \in rows : job'[k].status = "FAILED"
           /\ \A k \in Jobs : k \notin rows => job'[k] = job[k]
<1>0. "FAILED" \in Statuses /\ 0 \in 0 .. SweepAge + 1
  BY DelaysAssumption DEF Statuses, Settled
<1>1. \A r \in RowType : /\ [r EXCEPT !.status = "FAILED", !.idle = 0] \in RowType
                         /\ [r EXCEPT !.status = "FAILED", !.idle = 0].status = "FAILED"
  BY <1>0, Zenon DEF RowType
<1>2. job \in [Jobs -> RowType]
  BY DEF TypeOK, RowType, Statuses
<1> QED
  BY <1>1, <1>2 DEF FailAll

(* A new row is RUNNING and its executions are about to start. *)
LEMMA InsertChange ==
    ASSUME TypeOK, NEW j \in Jobs, Insert(j)
    PROVE  /\ job' \in [Jobs -> RowType]
           /\ job'[j].status = "RUNNING"
           /\ \A k \in Jobs : k # j => job'[k] = job[k]
<1>1. [status |-> "RUNNING", age |-> 0, idle |-> 0] \in RowType
  BY DelaysAssumption DEF RowType, Statuses
<1> QED
  BY <1>1 DEF TypeOK, RowType, Statuses, Insert

LEMMA DispatchChange ==
    ASSUME TypeOK, NEW j \in Jobs, Dispatch(j)
    PROVE  /\ exec' \in [Executions -> ExecType]
           /\ \A x \in Executions : x[1] # j => exec'[x] = exec[x]
           /\ \A x \in Executions : exec'[x] = exec[x] \/ exec'[x].pc = "starting"
           /\ \E p \in Paths : exec'[<<j, p>>].pc = "starting"
           /\ misjudged \subseteq misjudged' /\ misjudged' \in SUBSET Jobs
           /\ \/ j \in misjudged'
              \/ \E p \in Paths : \A q \in Paths \ {p} : exec'[<<j, q>>] = exec[<<j, q>>]
<1> DEFINE Begun == [Absent EXCEPT !.pc = "starting"]
<1>1. Begun \in ExecType /\ Begun.pc = "starting"
  BY DelaysAssumption, PagesAssumption
     DEF Absent, ExecType, Statuses, NoRow, Labels, Live, Queueing
<1> HIDE DEF Begun
<1>2. PICK paths \in {{"cloud"}, {"process"}, {"cloud", "process"}} :
        /\ exec' = [x \in Executions |->
                      IF x[1] = j /\ x[2] \in paths THEN Begun ELSE exec[x]]
        /\ misjudged' = IF paths = {"cloud", "process"}
                        THEN misjudged \cup {j} ELSE misjudged
  BY DEF Dispatch, Begun
<1>3. exec \in [Executions -> ExecType]
  BY DEF TypeOK, ExecType, Labels, Statuses
<1>4. PICK p \in paths : TRUE
  BY <1>2
<1>5. p \in Paths /\ <<j, p>> \in Executions
  BY <1>2, <1>4 DEF Paths, Executions
<1>6. exec'[<<j, p>>] = Begun
  BY <1>2, <1>4, <1>5
<1>7. exec' \in [Executions -> ExecType]
  BY <1>1, <1>2, <1>3
<1>8. \A x \in Executions : exec'[x] = exec[x] \/ exec'[x].pc = "starting"
  BY <1>1, <1>2
<1>9. \A x \in Executions : x[1] # j => exec'[x] = exec[x]
  BY <1>2
<1>10. misjudged \subseteq misjudged' /\ misjudged' \in SUBSET Jobs
  BY <1>2 DEF TypeOK
<1>11. \A q \in Paths : <<j, q>> \in Executions /\ <<j, q>>[1] = j /\ <<j, q>>[2] = q
  BY DEF Executions
<1>12. \/ j \in misjudged'
       \/ \E q \in Paths : \A r \in Paths \ {q} : exec'[<<j, r>>] = exec[<<j, r>>]
  <2>1. CASE paths = {"cloud", "process"}
    BY <1>2, <2>1
  <2>2. ASSUME NEW q \in Paths, paths = {q}
        PROVE  \A r \in Paths \ {q} : exec'[<<j, r>>] = exec[<<j, r>>]
    BY <1>2, <1>11, <2>2
  <2> QED
    BY <1>2, <2>1, <2>2 DEF Paths
<1> QED
  BY <1>1, <1>5, <1>6, <1>7, <1>8, <1>9, <1>10, <1>12

-----------------------------------------------------------------------------
(* Types *)

LEMMA InitType == Init => TypeOK
<1> SUFFICES ASSUME Init PROVE TypeOK
  OBVIOUS
<1> USE DelaysAssumption, PagesAssumption
<1>1. Absent \in ExecType
  BY DEF Absent, ExecType, Statuses, NoRow, Labels
<1>2. [status |-> "none", age |-> 0, idle |-> 0] \in RowType
  BY DEF RowType, Statuses, NoRow
<1> QED
  BY <1>1, <1>2 DEF Init, TypeOK, RowType, ExecType, Labels, Statuses

(* The type invariant, folded. *)
LEMMA TypeFolded ==
    TypeOK <=> /\ job \in [Jobs -> RowType]
               /\ exec \in [Executions -> ExecType]
               /\ misjudged \in SUBSET Jobs
BY DEF TypeOK, RowType, ExecType, Labels, Statuses

LEMMA Paths3 ==
    ASSUME NEW j \in Jobs
    PROVE  /\ Cloud(j) \in Executions /\ <<j, "process">> \in Executions
           /\ <<j, "resync">> \in Executions
           /\ \A p \in Paths : <<j, p>> \in Executions
BY DEF Cloud, Executions, Paths

LEMMA ExecutionParts ==
    ASSUME NEW x \in Executions
    PROVE  x[1] \in Jobs /\ x[2] \in Paths /\ x = <<x[1], x[2]>>
BY DEF Executions

LEMMA TypeStep == TypeOK /\ [Next]_vars => TypeOK'
<1> SUFFICES ASSUME TypeOK, [Next]_vars PROVE TypeOK'
  OBVIOUS
<1> USE DelaysAssumption, PagesAssumption
<1>0. /\ "FAILED" \in Statuses /\ "RUNNING" \in Statuses /\ "COMPLETED" \in Statuses
      /\ Live \subseteq Labels /\ "ended" \in Labels /\ "dead" \in Labels
  BY DEF Statuses, Settled, Labels
<1>1. SUFFICES /\ job' \in [Jobs -> RowType]
               /\ exec' \in [Executions -> ExecType]
               /\ misjudged' \in SUBSET Jobs
  BY DEF TypeOK, RowType, ExecType, Labels, Statuses
<1>2. /\ job \in [Jobs -> RowType] /\ exec \in [Executions -> ExecType]
      /\ misjudged \in SUBSET Jobs
  BY TypeFolded
<1>3. ASSUME NEW j \in Jobs, Check(j)
      PROVE  job' \in [Jobs -> RowType] /\ misjudged' \in SUBSET Jobs /\ exec' = exec
  <2>1. CASE Running = {}
    BY <1>2, <1>3, <2>1 DEF Check, RowType, Statuses, NoRow
  <2>2. CASE \E k \in Running :
               /\ job' = [job EXCEPT ![j].status = "requested",
                                     ![k].status = "FAILED", ![k].idle = 0]
               /\ misjudged' = misjudged \cup {k}
    <3>1. PICK k \in Running :
               /\ job' = [job EXCEPT ![j].status = "requested",
                                     ![k].status = "FAILED", ![k].idle = 0]
               /\ misjudged' = misjudged \cup {k}
      BY <2>2
    <3>2. k \in Jobs
      BY DEF Running
    <3> QED
      BY <1>2, <1>3, <3>1, <3>2 DEF Check, RowType, Statuses, NoRow, Settled
  <2> QED
    BY <1>3, <2>1, <2>2 DEF Check
<1>4. ASSUME NEW j \in Jobs, ImportAll(j) \/ Resync(j)
      PROVE  /\ job' \in [Jobs -> RowType] /\ exec' \in [Executions -> ExecType]
             /\ misjudged' \in SUBSET Jobs
  BY <1>4, InsertChange, DispatchChange DEF ImportAll, Resync
<1>5. ASSUME NEW j \in Jobs, ResyncJob(j)
      PROVE  /\ job' \in [Jobs -> RowType] /\ exec' \in [Executions -> ExecType]
             /\ misjudged' = misjudged
  <2>1. [Absent EXCEPT !.pc = "discovering"] \in ExecType
    BY DEF Absent, ExecType, Statuses, NoRow, Labels, Live, Importing
  <2> QED
    BY <1>2, <1>5, <2>1, InsertChange, Paths3 DEF ResyncJob
<1>6. ASSUME NEW j \in Jobs, CloudStart(j)
      PROVE  /\ job' \in [Jobs -> RowType] /\ exec' \in [Executions -> ExecType]
             /\ misjudged' \in SUBSET Jobs
  <2>1. Zombies(OthersRunning(j)) \in SUBSET Jobs
    BY DEF Zombies, OthersRunning, Running
  <2>2. job[j].status \in Statuses /\ "queueing" \in Labels
    BY <1>2 DEF RowType, Labels, Live, Queueing
  <2>3. exec' \in [Executions -> ExecType]
    BY <1>2, <1>6, <2>2, Paths3 DEF CloudStart, ExecType
  <2> QED
    BY <1>2, <1>6, <2>1, <2>3, FailAllChange DEF CloudStart
<1>7. ASSUME NEW j \in Jobs, Queue(j)
      PROVE  /\ job' \in [Jobs -> RowType] /\ exec' \in [Executions -> ExecType]
             /\ misjudged' = misjudged
  <2>1. "none" \in Statuses /\ "waiting" \in Labels
    BY DEF Statuses, NoRow, Labels, Live, Queueing
  <2>2. exec' \in [Executions -> ExecType]
    BY <1>2, <1>7, <2>1, Paths3 DEF Queue, ExecType
  <2> QED
    BY <1>0, <1>7, <2>2, RowChange DEF Queue
<1>8. ASSUME NEW j \in Jobs, Pass(j)
      PROVE  /\ job' = job /\ exec' \in [Executions -> ExecType]
             /\ misjudged' \in SUBSET Jobs
  <2>1. Zombies(OthersRunning(j)) \in SUBSET Jobs
    BY DEF Zombies, OthersRunning, Running
  <2>2. exec' \in [Executions -> ExecType]
    BY <1>2, <1>8, PassChange, Paths3
  <2> QED
    BY <1>2, <1>8, <2>1, <2>2 DEF Pass, TypeOK, RowType, Statuses
<1>9. ASSUME NEW j \in Jobs,
             QueueTimeout(j) \/ Claim(j) \/ Authorize(j) \/ ProcessStart(j)
      PROVE  /\ job' \in [Jobs -> RowType] /\ exec' \in [Executions -> ExecType]
             /\ misjudged' = misjudged
  <2>1. {"ended", "claimed", "discovering"} \subseteq Labels
    BY DEF Labels, Live, Importing
  <2>2. exec' \in [Executions -> ExecType]
    BY <1>9, <2>1, ExecChange, Paths3 DEF QueueTimeout, Claim, Authorize, ProcessStart
  <2>3. job' \in [Jobs -> RowType]
    BY <1>0, <1>9, RowChange DEF QueueTimeout, Claim, Authorize, ProcessStart
  <2> QED
    BY <1>9, <2>2, <2>3 DEF QueueTimeout, Claim, Authorize, ProcessStart
<1>10. ASSUME NEW x \in Executions, Page(x) \/ Polish(x)
       PROVE  /\ job' \in [Jobs -> RowType] /\ exec' \in [Executions -> ExecType]
              /\ misjudged' = misjudged
  <2>1. exec[x].page + 1 \in 0 .. MaxPages
    BY <1>2, <1>10 DEF Page, Polish, ExecType
  <2>2. exec' \in [Executions -> ExecType]
    BY <1>2, <1>10, <2>1 DEF Page, Polish, ExecType
  <2> QED
    BY <1>0, <1>10, <2>2, RowChange, ExecutionParts DEF Page, Polish
<1>11. ASSUME NEW x \in Executions,
              Unauthorized(x) \/ LastPage(x) \/ Ingested(x) \/ Finish(x) \/ Fail(x) \/ Die(x)
       PROVE  /\ job' \in [Jobs -> RowType] /\ exec' \in [Executions -> ExecType]
              /\ misjudged' = misjudged
  <2>1. {"ended", "dead", "ingesting", "polishing"} \subseteq Labels
    BY DEF Labels, Live, Importing
  <2>2. exec' \in [Executions -> ExecType]
    BY <1>11, <2>1, ExecChange DEF Unauthorized, LastPage, Ingested, Finish, Fail, Die
  <2>3. job' \in [Jobs -> RowType]
    BY <1>0, <1>2, <1>11, RowChange, ExecutionParts
       DEF Unauthorized, LastPage, Ingested, Finish, Fail, Die
  <2> QED
    BY <1>11, <2>2, <2>3 DEF Unauthorized, LastPage, Ingested, Finish, Fail, Die
<1>12. CASE Sweep
  <2>1. Overdue \in SUBSET Jobs
    BY DEF Overdue, Running
  <2> QED
    BY <1>2, <1>12, <2>1, FailAllChange DEF Sweep
<1>13. CASE Tick
  <2>1. \A r \in RowType : [r EXCEPT !.age = UpTo(@, StaleAge + 1),
                                     !.idle = UpTo(@, SweepAge + 1)] \in RowType
    <3>1. \A n \in 0 .. StaleAge + 1 : UpTo(n, StaleAge + 1) \in 0 .. StaleAge + 1
      BY DEF UpTo
    <3>2. \A n \in 0 .. SweepAge + 1 : UpTo(n, SweepAge + 1) \in 0 .. SweepAge + 1
      BY DEF UpTo
    <3> QED
      BY <3>1, <3>2, Zenon DEF RowType
  <2>2. \A e \in ExecType : [e EXCEPT !.waited = UpTo(@, QueueWait)] \in ExecType
    BY DEF ExecType, UpTo
  <2> QED
    BY <1>2, <1>13, <2>1, <2>2 DEF Tick
<1>14. CASE UNCHANGED vars
  BY <1>2, <1>14 DEF vars
<1> QED
  BY <1>2, <1>3, <1>4, <1>5, <1>6, <1>7, <1>8, <1>9, <1>10, <1>11, <1>12, <1>13, <1>14
     DEF Next, Request, QueueStep, Work

\* Rows and executions keep their types, for any rows, delays and bounds.
THEOREM TypeCorrect == Spec => []TypeOK
BY InitType, TypeStep, PTL DEF Spec

-----------------------------------------------------------------------------
(* Who works on a row *)

(* A step of an execution past its start: it changes nothing of the others,
   and of its row the status only to settle it. *)
LEMMA WorkChange ==
    ASSUME TypeOK, NEW x \in Executions,
           \/ Work(x) \/ Die(x)
           \/ ProcessStart(x[1]) /\ x[2] = "process"
    PROVE  /\ misjudged' = misjudged
           /\ \A i \in Jobs : i # x[1] => job'[i] = job[i]
           /\ \A y \in Executions : y # x => exec'[y] = exec[y]
           /\ exec[x].pc \in Live /\ exec'[x].pc # "none"
           /\ job'[x[1]].status \in {job[x[1]].status, "FAILED", "COMPLETED"}
           /\ x[2] = "cloud" /\ exec'[x].pc \in Queueing \cup Importing
                => /\ job'[x[1]].status = job[x[1]].status
                   /\ exec[x].pc \in Queueing \cup Importing
                   /\ exec'[x].pc \in Importing => exec[x].pc \in Importing
<1> USE DEF Live, Queueing, Importing
<1>0. /\ job \in [Jobs -> RowType] /\ exec \in [Executions -> ExecType]
      /\ x[1] \in Jobs /\ x[2] \in Paths /\ x = <<x[1], x[2]>>
  BY TypeFolded, ExecutionParts
<1>1. /\ {"ended", "dead", "ingesting", "polishing", "discovering"} \subseteq Labels
      /\ {"FAILED", "COMPLETED"} \subseteq Statuses
  BY DEF Labels, Statuses, Settled
<1>2. CASE Page(x) \/ Polish(x)
  <2>1. /\ exec'[x].pc = exec[x].pc
        /\ \A y \in Executions : y # x => exec'[y] = exec[y]
    BY <1>0, <1>2 DEF Page, Polish, ExecType
  <2>2. /\ \A i \in Jobs : i # x[1] => job'[i] = job[i]
        /\ job'[x[1]].status = job[x[1]].status
    BY <1>0, <1>1, <1>2, RowChange DEF Page, Polish
  <2> QED
    BY <1>2, <2>1, <2>2 DEF Page, Polish
<1>3. CASE Unauthorized(x) \/ Fail(x)
  BY <1>0, <1>1, <1>3, RowChange, ExecChange DEF Unauthorized, Fail
<1>4. CASE LastPage(x)
  BY <1>0, <1>1, <1>4, RowChange, ExecChange DEF LastPage
<1>5. CASE Ingested(x)
  BY <1>0, <1>1, <1>5, RowChange, ExecChange DEF Ingested
<1>6. CASE Finish(x)
  BY <1>0, <1>1, <1>6, RowChange, ExecChange DEF Finish
<1>7. CASE Die(x)
  BY <1>0, <1>1, <1>7, ExecChange DEF Die
<1>8. CASE ProcessStart(x[1]) /\ x[2] = "process"
  BY <1>0, <1>1, <1>8, RowChange, ExecChange DEF ProcessStart
<1> QED
  BY <1>2, <1>3, <1>4, <1>5, <1>6, <1>7, <1>8 DEF Work

(* Time moves no status and no execution. *)
LEMMA TickChange ==
    ASSUME TypeOK, Tick
    PROVE  /\ misjudged' = misjudged
           /\ \A i \in Jobs : job'[i].status = job[i].status
           /\ \A x \in Executions : exec'[x].pc = exec[x].pc
<1>1. \A r \in RowType : [r EXCEPT !.age = UpTo(@, StaleAge + 1),
                                   !.idle = UpTo(@, SweepAge + 1)].status = r.status
  BY Zenon DEF RowType
<1>2. \A e \in ExecType : [e EXCEPT !.waited = UpTo(@, QueueWait)].pc = e.pc
  BY Zenon DEF ExecType
<1>3. job \in [Jobs -> RowType] /\ exec \in [Executions -> ExecType]
  BY TypeFolded
<1> QED
  BY <1>1, <1>2, <1>3 DEF Tick

\* A row's execution works alone unless its start was doubled, and before
\* there is a row there is no execution.
SoleInv ==
    /\ \A j \in Jobs \ misjudged : \A p, q \in Paths :
           p # q => exec[<<j, p>>].pc = "none" \/ exec[<<j, q>>].pc = "none"
    /\ \A j \in Jobs : job[j].status \in NoRow
                       => \A p \in Paths : exec[<<j, p>>].pc = "none"

(* A step that starts no execution and takes no row away keeps it. *)
LEMMA SoleFrame ==
    ASSUME SoleInv, misjudged \subseteq misjudged',
           \A x \in Executions : exec'[x].pc = "none" <=> exec[x].pc = "none",
           \A j \in Jobs : job'[j].status \in NoRow => job[j].status \in NoRow
    PROVE  SoleInv'
BY Paths3 DEF SoleInv, Cloud

LEMMA SoleStep == TypeOK /\ SoleInv /\ [Next]_vars => SoleInv'
<1> SUFFICES ASSUME TypeOK, SoleInv, [Next]_vars PROVE SoleInv'
  OBVIOUS
<1>1. /\ job \in [Jobs -> RowType] /\ exec \in [Executions -> ExecType]
      /\ misjudged \in SUBSET Jobs
  BY TypeFolded
<1>2. /\ {"RUNNING", "FAILED", "COMPLETED"} \cap NoRow = {} /\ "none" \notin Live
      /\ {"RUNNING", "FAILED", "COMPLETED"} \subseteq Statuses
      /\ {"claiming", "claimed", "discovering", "ended"} \subseteq Labels \ {"none"}
  BY DEF NoRow, Live, Queueing, Importing, Statuses, Settled, Labels
<1>3. ASSUME NEW j \in Jobs, Check(j)
      PROVE  SoleInv'
  <2>1. /\ misjudged \subseteq misjudged' /\ exec' = exec /\ job[j].status \in NoRow
    BY <1>3 DEF Check, NoRow
  <2>2. CASE \E k \in Running :
               job' = [job EXCEPT ![j].status = "requested",
                                  ![k].status = "FAILED", ![k].idle = 0]
    <3>1. PICK k \in Running :
               job' = [job EXCEPT ![j].status = "requested",
                                  ![k].status = "FAILED", ![k].idle = 0]
      BY <2>2
    <3>2. \A i \in Jobs : i # j => job'[i].status \in {job[i].status, "FAILED"}
      BY <1>1, <3>1 DEF Running, RowType
    <3> QED
      BY <1>2, <2>1, <3>2, SoleFrame
  <2>3. CASE job' = [job EXCEPT ![j].status = "requested"]
    <3>1. \A i \in Jobs : i # j => job'[i] = job[i]
      BY <1>1, <2>3
    <3> QED
      BY <2>1, <3>1, SoleFrame
  <2> QED
    BY <1>3, <2>2, <2>3 DEF Check
<1>4. ASSUME NEW j \in Jobs, ImportAll(j) \/ Resync(j)
      PROVE  SoleInv'
  <2>1. Insert(j) /\ Dispatch(j) /\ job[j].status \in NoRow
    BY <1>4 DEF ImportAll, Resync, NoRow
  <2>2. /\ misjudged \subseteq misjudged'
        /\ \A x \in Executions : x[1] # j => exec'[x] = exec[x]
        /\ \/ j \in misjudged'
           \/ \E p \in Paths : \A q \in Paths \ {p} : exec'[<<j, q>>] = exec[<<j, q>>]
        /\ job'[j].status = "RUNNING" /\ \A k \in Jobs : k # j => job'[k] = job[k]
    BY <2>1, InsertChange, DispatchChange
  <2>3. \A p \in Paths : exec[<<j, p>>].pc = "none"
    BY <2>1 DEF SoleInv
  <2>4. \A i \in Jobs : i # j => \A p \in Paths : exec'[<<i, p>>] = exec[<<i, p>>]
    BY <2>2, Paths3
  <2> QED
    BY <1>2, <2>2, <2>3, <2>4 DEF SoleInv
<1>5. ASSUME NEW j \in Jobs, ResyncJob(j)
      PROVE  SoleInv'
  <2>1. /\ misjudged' = misjudged /\ job'[j].status = "RUNNING"
        /\ \A k \in Jobs : k # j => job'[k] = job[k]
    BY <1>5, InsertChange DEF ResyncJob
  <2>2. \A y \in Executions : y # <<j, "resync">> => exec'[y] = exec[y]
    BY <1>1, <1>5 DEF ResyncJob
  <2>3. \A p \in Paths : exec[<<j, p>>].pc = "none"
    BY <1>5 DEF SoleInv, ResyncJob, NoRow
  <2>4. \A i \in Jobs, p \in Paths :
           i # j \/ p # "resync" => exec'[<<i, p>>] = exec[<<i, p>>]
    BY <2>2, Paths3
  <2> QED
    BY <1>2, <2>1, <2>3, <2>4 DEF SoleInv
<1>6. ASSUME NEW j \in Jobs, CloudStart(j)
      PROVE  SoleInv'
  <2> DEFINE zombies == Zombies(OthersRunning(j))
  <2>1. zombies \in SUBSET Jobs /\ FailAll(zombies) /\ misjudged' = misjudged \cup zombies
    BY <1>6 DEF CloudStart, Zombies, OthersRunning, Running
  <2>2. \A x \in Executions : exec'[x].pc = "none" <=> exec[x].pc = "none"
    BY <1>1, <1>6 DEF CloudStart, ExecType
  <2> QED
    BY <1>2, <2>1, <2>2, FailAllChange, SoleFrame
<1>7. ASSUME NEW j \in Jobs, Queue(j)
      PROVE  SoleInv'
  <2>1. \A x \in Executions : exec'[x].pc = "none" <=> exec[x].pc = "none"
    BY <1>1, <1>7 DEF Queue, ExecType
  <2>2. misjudged' = misjudged /\ \A i \in Jobs : job'[i].status = job[i].status
    BY <1>1, <1>7 DEF Queue, Touch, RowType
  <2> QED
    BY <2>1, <2>2, SoleFrame
<1>8. ASSUME NEW j \in Jobs, Pass(j) \/ QueueTimeout(j) \/ Claim(j) \/ Authorize(j)
      PROVE  SoleInv'
  <2>1. /\ exec[Cloud(j)].pc # "none" /\ exec'[Cloud(j)].pc # "none"
        /\ \A y \in Executions : y # Cloud(j) => exec'[y] = exec[y]
    <3>1. CASE Pass(j)
      BY <1>2, <3>1, Paths3, PassChange DEF Pass
    <3>2. CASE QueueTimeout(j) \/ Claim(j) \/ Authorize(j)
      BY <1>2, <3>2, Paths3, ExecChange DEF QueueTimeout, Claim, Authorize
    <3> QED
      BY <1>8, <3>1, <3>2
  <2>2. \A i \in Jobs : job'[i].status \in NoRow => job[i].status \in NoRow
    BY <1>2, <1>8, RowChange DEF Pass, QueueTimeout, Claim, Authorize
  <2>3. misjudged \subseteq misjudged'
    BY <1>8 DEF Pass, QueueTimeout, Claim, Authorize
  <2> QED
    BY <2>1, <2>2, <2>3, SoleFrame
<1>9. ASSUME NEW x \in Executions,
             \/ Work(x) \/ Die(x)
             \/ ProcessStart(x[1]) /\ x[2] = "process"
      PROVE  SoleInv'
  BY <1>2, <1>9, WorkChange, ExecutionParts, SoleFrame
<1>10. CASE Sweep
  <2>1. Overdue \in SUBSET Jobs /\ exec' = exec /\ misjudged' = misjudged \cup Overdue
    BY <1>10 DEF Sweep, Overdue, Running
  <2> QED
    BY <1>2, <1>10, <2>1, FailAllChange, SoleFrame DEF Sweep
<1>11. CASE Tick
  BY <1>11, TickChange, SoleFrame
<1>12. CASE UNCHANGED vars
  BY <1>12, SoleFrame DEF vars
<1> QED
  BY <1>3, <1>4, <1>5, <1>6, <1>7, <1>8, <1>9, <1>10, <1>11, <1>12, Paths3
     DEF Next, Request, QueueStep

-----------------------------------------------------------------------------
(* Serialisation *)

\* The row of a Cloud Run execution that queues or imports is RUNNING, and two
\* such executions are past the queue only if a row was misjudged.
SerialInv == RowSpeaksForExecution /\ SerialUnlessMisjudged

Unsettled == Queueing \cup Importing

(* Rows that stay RUNNING, and executions that enter nothing, keep it.  What
   remains for an action to show is the row of the execution it moves. *)
LEMMA SerialFrame ==
    ASSUME TypeOK, SerialInv, misjudged \subseteq misjudged',
           \A j \in Jobs : /\ j \notin misjudged'
                          /\ exec'[Cloud(j)].pc \in Unsettled
                          => job'[j].status = "RUNNING",
           \A j \in Jobs : exec'[Cloud(j)].pc \in Importing
                            => exec[Cloud(j)].pc \in Importing
    PROVE  SerialInv'
BY DEF SerialInv, RowSpeaksForExecution, SerialUnlessMisjudged, Unsettled, Cloud

LEMMA SerialStep == TypeOK /\ SoleInv /\ SerialInv /\ [Next]_vars => SerialInv'
<1> SUFFICES ASSUME TypeOK, SoleInv, SerialInv, [Next]_vars PROVE SerialInv'
  OBVIOUS
<1>1. /\ job \in [Jobs -> RowType] /\ exec \in [Executions -> ExecType]
      /\ misjudged \in SUBSET Jobs
  BY TypeFolded
<1>2. \A j \in Jobs : /\ j \notin misjudged
                      /\ exec[Cloud(j)].pc \in Unsettled
                      => job[j].status = "RUNNING"
  BY DEF SerialInv, RowSpeaksForExecution, Unsettled
<1>3. \A j, k \in Jobs : /\ Cloud(j) \in Executions
                         /\ Cloud(j)[1] = j /\ Cloud(j)[2] = "cloud"
                         /\ (Cloud(j) = Cloud(k) => j = k)
  BY DEF Cloud, Executions, Paths
<1>4. /\ "starting" \notin Importing /\ "queueing" \notin Importing
      /\ "waiting" \notin Importing /\ Importing \subseteq Unsettled
      /\ {"starting", "queueing", "waiting"} \subseteq Unsettled
      /\ {"polishing", "ended", "dead", "none"} \cap Unsettled = {}
      /\ {"claiming", "claimed", "discovering", "ingesting"} \subseteq Importing
  BY DEF Importing, Unsettled, Queueing
<1>5. ASSUME NEW j \in Jobs, Check(j)
      PROVE  SerialInv'
  <2>1. misjudged \subseteq misjudged' /\ exec' = exec
    BY <1>5 DEF Check
  <2>2. ASSUME NEW i \in Jobs, i \notin misjudged', exec'[Cloud(i)].pc \in Unsettled
        PROVE  job'[i].status = "RUNNING"
    <3>1. job[i].status = "RUNNING"
      BY <1>2, <2>1, <2>2
    <3>2. i # j
      BY <1>5, <3>1 DEF Check
    <3> QED
      BY <1>1, <1>5, <2>2, <3>1, <3>2 DEF Check, Running, RowType
  <2> QED
    BY <2>1, <2>2, SerialFrame
<1>6. ASSUME NEW j \in Jobs, ImportAll(j) \/ Resync(j)
      PROVE  SerialInv'
  <2>1. Insert(j) /\ Dispatch(j)
    BY <1>6 DEF ImportAll, Resync
  <2>2. /\ misjudged \subseteq misjudged'
        /\ \A i \in Jobs : i # j => exec'[Cloud(i)] = exec[Cloud(i)] /\ job'[i] = job[i]
        /\ \A i \in Jobs : exec'[Cloud(i)] = exec[Cloud(i)] \/ exec'[Cloud(i)].pc = "starting"
        /\ job'[j].status = "RUNNING"
    BY <1>3, <2>1, InsertChange, DispatchChange
  <2> QED
    BY <1>2, <1>4, <2>2, SerialFrame
<1>7. ASSUME NEW j \in Jobs, ResyncJob(j)
      PROVE  SerialInv'
  <2>1. <<j, "resync">> \in Executions /\ \A i \in Jobs : Cloud(i) # <<j, "resync">>
    BY Paths3 DEF Cloud
  <2>2. \A i \in Jobs : exec'[Cloud(i)] = exec[Cloud(i)]
    BY <1>1, <1>3, <1>7, <2>1 DEF ResyncJob
  <2>3. /\ misjudged' = misjudged /\ job'[j].status = "RUNNING"
        /\ \A i \in Jobs : i # j => job'[i] = job[i]
    BY <1>7, InsertChange DEF ResyncJob
  <2> QED
    BY <1>2, <2>2, <2>3, SerialFrame
<1>8. ASSUME NEW j \in Jobs, CloudStart(j)
      PROVE  SerialInv'
  <2> DEFINE zombies == Zombies(OthersRunning(j))
  <2>1. zombies \in SUBSET Jobs /\ FailAll(zombies) /\ misjudged' = misjudged \cup zombies
    BY <1>8 DEF CloudStart, Zombies, OthersRunning, Running
  <2>2. /\ \A i \in Jobs : i # j => exec'[Cloud(i)] = exec[Cloud(i)]
        /\ exec[Cloud(j)].pc = "starting" /\ exec'[Cloud(j)].pc = "queueing"
    BY <1>1, <1>3, <1>8 DEF CloudStart, ExecType
  <2>3. \A i \in Jobs : i \notin misjudged' => job'[i] = job[i]
    BY <2>1, FailAllChange
  <2> QED
    BY <1>2, <1>4, <2>1, <2>2, <2>3, SerialFrame
<1>9. ASSUME NEW j \in Jobs, Queue(j)
      PROVE  SerialInv'
  <2>1. /\ \A i \in Jobs : i # j => exec'[Cloud(i)] = exec[Cloud(i)]
        /\ exec[Cloud(j)].pc = "queueing" /\ exec'[Cloud(j)].pc = "waiting"
    BY <1>1, <1>3, <1>9 DEF Queue, ExecType
  <2>2. misjudged' = misjudged /\ \A i \in Jobs : job'[i].status = job[i].status
    BY <1>1, <1>9 DEF Queue, Touch, RowType
  <2> QED
    BY <1>2, <1>4, <2>1, <2>2, SerialFrame
<1>10. ASSUME NEW j \in Jobs, Pass(j)
       PROVE  SerialInv'
  <2> DEFINE zombies == Zombies(OthersRunning(j))
  <2>1. /\ job' = job /\ misjudged' = misjudged \cup zombies
        /\ exec[Cloud(j)].pc \in {"queueing", "waiting"} /\ OthersRunning(j) \ zombies = {}
    BY <1>10 DEF Pass, Blocked
  <2>2. /\ \A i \in Jobs : i # j => exec'[Cloud(i)] = exec[Cloud(i)]
        /\ exec'[Cloud(j)].pc = "claiming"
    BY <1>3, <1>10, PassChange DEF Pass
  <2>3. \A i \in Jobs : /\ i \notin misjudged'
                        /\ exec'[Cloud(i)].pc \in Unsettled
                        => job'[i].status = "RUNNING"
    <3> SUFFICES ASSUME NEW i \in Jobs, i \notin misjudged',
                        exec'[Cloud(i)].pc \in Unsettled
                 PROVE  job'[i].status = "RUNNING"
      OBVIOUS
    <3>1. exec[Cloud(i)].pc \in Unsettled
      BY <1>4, <2>1, <2>2
    <3> QED
      BY <1>2, <2>1, <3>1
  <2>4. \A i \in Jobs : /\ i # j /\ i \notin misjudged'
                        => exec'[Cloud(i)].pc \notin Importing
    <3> SUFFICES ASSUME NEW i \in Jobs, i # j, i \notin misjudged',
                        exec'[Cloud(i)].pc \in Importing
                 PROVE  FALSE
      OBVIOUS
    <3>1. job[i].status = "RUNNING"
      BY <1>4, <2>1, <2>3
    <3>2. i \in OthersRunning(j)
      BY <3>1 DEF OthersRunning, Running
    <3> QED
      BY <2>1, <3>2
  <2> QED
    BY <2>1, <2>2, <2>3, <2>4
       DEF SerialInv, RowSpeaksForExecution, SerialUnlessMisjudged, Unsettled
<1>11. ASSUME NEW j \in Jobs, QueueTimeout(j) \/ Claim(j) \/ Authorize(j)
       PROVE  SerialInv'
  <2>1. {"ended", "claimed", "discovering"} \subseteq Labels
    BY DEF Labels, Live, Importing
  <2>2. \A i \in Jobs : i # j => exec'[Cloud(i)] = exec[Cloud(i)] /\ job'[i] = job[i]
    <3>1. \A y \in Executions : y # Cloud(j) => exec'[y] = exec[y]
      BY <1>3, <1>11, <2>1, ExecChange DEF QueueTimeout, Claim, Authorize
    <3>2. \A i \in Jobs : i # j => job'[i] = job[i]
      BY <1>1, <1>11 DEF QueueTimeout, Claim, Authorize, Settle, Touch
    <3> QED
      BY <1>3, <3>1, <3>2
  <2>3. misjudged' = misjudged
    BY <1>11 DEF QueueTimeout, Claim, Authorize
  <2>4. CASE QueueTimeout(j)
    <3>1. exec'[Cloud(j)].pc = "ended"
      BY <1>3, <2>1, <2>4, ExecChange DEF QueueTimeout
    <3> QED
      BY <1>2, <1>4, <2>2, <2>3, <3>1, SerialFrame
  <2>5. CASE Claim(j)
    <3>1. exec[Cloud(j)].pc = "claiming" /\ exec'[Cloud(j)].pc = "claimed"
      BY <1>3, <2>1, <2>5, ExecChange DEF Claim
    <3>2. job'[j].status = job[j].status \/ job'[j].status = "RUNNING"
      BY <1>1, <2>5 DEF Claim, Settle, RowType
    <3> QED
      BY <1>2, <1>4, <2>2, <2>3, <3>1, <3>2, SerialFrame
  <2>6. CASE Authorize(j)
    <3>1. /\ exec[Cloud(j)].pc = "claimed"
          /\ \/ exec'[Cloud(j)].pc = "discovering" /\ job'[j].status = job[j].status
             \/ exec'[Cloud(j)].pc = "ended"
      BY <1>1, <1>3, <2>1, <2>6, ExecChange DEF Authorize, Touch, RowType
    <3> QED
      BY <1>2, <1>4, <2>2, <2>3, <3>1, SerialFrame
  <2> QED
    BY <1>11, <2>4, <2>5, <2>6
<1>12. ASSUME NEW x \in Executions,
              \/ Work(x) \/ Die(x)
              \/ ProcessStart(x[1]) /\ x[2] = "process"
       PROVE  SerialInv'
  <2>1. x[1] \in Jobs /\ x[2] \in Paths /\ x = <<x[1], x[2]>>
    BY ExecutionParts
  <2>2. /\ misjudged' = misjudged
        /\ \A i \in Jobs : i # x[1] => job'[i] = job[i]
        /\ \A y \in Executions : y # x => exec'[y] = exec[y]
        /\ exec[x].pc # "none"
    BY <1>12, WorkChange DEF Live, Queueing, Importing
  <2>3. CASE x[2] = "cloud"
    <3>1. x = Cloud(x[1])
      BY <2>1, <2>3 DEF Cloud
    <3>2. exec'[x].pc \in Unsettled
            => /\ job'[x[1]].status = job[x[1]].status
               /\ exec[x].pc \in Unsettled
               /\ exec'[x].pc \in Importing => exec[x].pc \in Importing
      BY <1>12, <2>3, WorkChange DEF Unsettled
    <3> QED
      BY <1>2, <1>3, <1>4, <2>1, <2>2, <3>1, <3>2, SerialFrame
  <2>4. CASE x[2] # "cloud"
    <3>1. \A i \in Jobs : exec'[Cloud(i)] = exec[Cloud(i)]
      BY <1>3, <2>2, <2>4
    <3>2. x[1] \notin misjudged => exec[Cloud(x[1])].pc = "none"
      <4>1. "cloud" \in Paths
        BY DEF Paths
      <4> QED
        BY <2>1, <2>2, <2>4, <4>1 DEF SoleInv, Cloud
    <3> QED
      BY <1>2, <1>4, <2>1, <2>2, <3>1, <3>2, SerialFrame
  <2> QED
    BY <2>3, <2>4
<1>13. CASE Sweep
  <2>1. Overdue \in SUBSET Jobs /\ exec' = exec /\ misjudged' = misjudged \cup Overdue
    BY <1>13 DEF Sweep, Overdue, Running
  <2>2. \A i \in Jobs : i \notin misjudged' => job'[i] = job[i]
    BY <1>13, <2>1, FailAllChange DEF Sweep
  <2> QED
    BY <1>2, <2>1, <2>2, SerialFrame
<1>14. CASE Tick
  BY <1>2, <1>3, <1>14, TickChange, SerialFrame
<1>15. CASE UNCHANGED vars
  BY <1>2, <1>15, SerialFrame DEF vars
<1> QED
  BY <1>5, <1>6, <1>7, <1>8, <1>9, <1>10, <1>11, <1>12, <1>13, <1>14, <1>15, Paths3
     DEF Next, Request, QueueStep

\* Nothing is misjudged, no row exists and nothing runs.
LEMMA InitSerial == Init => SoleInv /\ SerialInv
<1> SUFFICES ASSUME Init PROVE SoleInv /\ SerialInv
  OBVIOUS
<1>1. \A x \in Executions : exec[x].pc = "none"
  BY DEF Init, Absent
<1> QED
  BY <1>1, Paths3
     DEF SoleInv, SerialInv, RowSpeaksForExecution, SerialUnlessMisjudged,
         Queueing, Importing

\* A row nobody took for dead is RUNNING while its execution queues or imports.
THEOREM RowSpeaks == Spec => []RowSpeaksForExecution
<1>1. SerialInv => RowSpeaksForExecution
  BY DEF SerialInv
<1> QED
  BY <1>1, InitType, InitSerial, TypeStep, SoleStep, SerialStep, PTL DEF Spec

\* Two Cloud Run imports overlap only if a row was taken for dead or started
\* twice, for any number of rows and any delays.
THEOREM Serialised == Spec => []SerialUnlessMisjudged
<1>1. SerialInv => SerialUnlessMisjudged
  BY DEF SerialInv
<1> QED
  BY <1>1, InitType, InitSerial, TypeStep, SoleStep, SerialStep, PTL DEF Spec

-----------------------------------------------------------------------------
(* What the member is told *)

\* Whoever still works on a settled row nobody misjudged polishes what it has
\* completed.
ReportInv ==
    \A j \in Jobs \ misjudged : job[j].status \in Settled =>
        \A p \in Paths : exec[<<j, p>>].pc \in Live
                        => exec[<<j, p>>].pc = "polishing" /\ job[j].status = "COMPLETED"

\* The step of ReportStands.
Kept ==
    \A j \in Jobs \ misjudged :
        job[j].status \in Settled /\ job'[j].status # job[j].status
          => /\ job'[j].status = "FAILED"
             /\ \E p \in Paths : exec[<<j, p>>].pc = "polishing"

(* A step that settles only what it misjudges, and wakes no execution of a
   settled row, keeps both. *)
LEMMA ReportFrame ==
    ASSUME ReportInv, misjudged \subseteq misjudged',
           \A j \in Jobs : job[j].status \in Settled => job'[j].status = job[j].status,
           \A j \in Jobs \ misjudged' : job'[j].status \in Settled =>
               /\ job'[j].status = job[j].status
               /\ \A p \in Paths : exec'[<<j, p>>].pc \in Live
                                   => exec'[<<j, p>>].pc = exec[<<j, p>>].pc
    PROVE  ReportInv' /\ Kept
BY DEF ReportInv, Kept

LEMMA PairParts ==
    \A j \in Jobs, p \in Paths :
        <<j, p>> \in Executions /\ <<j, p>>[1] = j /\ <<j, p>>[2] = p
BY DEF Executions

(* The execution that moves is the only one of its row. *)
LEMMA SoleMove ==
    ASSUME SoleInv, NEW x \in Executions, exec[x].pc # "none",
           \A y \in Executions : y # x => exec'[y] = exec[y],
           x[1] \notin misjudged
    PROVE  \A p \in Paths : p # x[2] => exec'[<<x[1], p>>].pc = "none"
<1>1. x[1] \in Jobs /\ x[2] \in Paths /\ x = <<x[1], x[2]>>
  BY ExecutionParts
<1>2. \A p \in Paths : p # x[2] => exec[<<x[1], p>>].pc = "none"
  BY <1>1 DEF SoleInv
<1>3. \A p \in Paths : p # x[2] => <<x[1], p>> \in Executions /\ <<x[1], p>> # x
  BY <1>1, PairParts
<1> QED
  BY <1>2, <1>3

(* A step of one execution: what it may find, and what it may leave. *)
LEMMA ReportMove ==
    ASSUME SoleInv, ReportInv, NEW x \in Executions,
           misjudged' = misjudged,
           \A i \in Jobs : i # x[1] => job'[i] = job[i],
           \A y \in Executions : y # x => exec'[y] = exec[y],
           exec[x].pc \in Live,
           exec[x].pc = "polishing"
             => job'[x[1]].status \in {job[x[1]].status, "FAILED", "COMPLETED"},
           x[1] \notin misjudged /\ job'[x[1]].status \in Settled /\ exec'[x].pc \in Live
             => exec'[x].pc = "polishing" /\ job'[x[1]].status = "COMPLETED"
    PROVE  ReportInv' /\ Kept
<1>1. x[1] \in Jobs /\ x[2] \in Paths /\ x = <<x[1], x[2]>> /\ "none" \notin Live
  BY ExecutionParts DEF Live, Queueing, Importing
<1>2. x[1] \notin misjudged /\ job[x[1]].status \in Settled
        => exec[x].pc = "polishing" /\ job[x[1]].status = "COMPLETED"
  BY <1>1 DEF ReportInv
<1>3. Kept
  BY <1>1, <1>2 DEF Kept
<1>4. x[1] \notin misjudged
        => \A p \in Paths : p # x[2] => exec'[<<x[1], p>>].pc = "none"
  BY <1>1, SoleMove
<1>5. \A i \in Jobs, p \in Paths : i # x[1] => exec'[<<i, p>>] = exec[<<i, p>>]
  BY PairParts
<1>6. ASSUME NEW j \in Jobs \ misjudged', job'[j].status \in Settled,
             NEW p \in Paths, exec'[<<j, p>>].pc \in Live
      PROVE  exec'[<<j, p>>].pc = "polishing" /\ job'[j].status = "COMPLETED"
  <2>1. CASE j # x[1]
    BY <1>5, <1>6, <2>1 DEF ReportInv
  <2>2. CASE j = x[1]
    BY <1>1, <1>4, <1>6, <2>2
  <2> QED
    BY <2>1, <2>2
<1>7. ReportInv'
  BY <1>6 DEF ReportInv
<1> QED
  BY <1>3, <1>7

(* A row that is not settled, or COMPLETED and being polished. *)
StillDue(x) ==
    job[x[1]].status \in Settled
      => exec[x].pc = "polishing" /\ job[x[1]].status = "COMPLETED"

LEMMA WorkReports ==
    ASSUME TypeOK, NEW x \in Executions, StillDue(x),
           \/ Work(x) \/ Die(x)
           \/ ProcessStart(x[1]) /\ x[2] = "process"
    PROVE  exec'[x].pc \in Live => StillDue(x)'
<1> USE DEF Live, Queueing, Importing
<1>0. /\ job \in [Jobs -> RowType] /\ exec \in [Executions -> ExecType]
      /\ x[1] \in Jobs /\ x[2] \in Paths /\ x = <<x[1], x[2]>>
  BY TypeFolded, ExecutionParts
<1>1. /\ {"ended", "dead", "ingesting", "polishing", "discovering"} \subseteq Labels
      /\ {"FAILED", "COMPLETED"} \subseteq Statuses
  BY DEF Labels, Statuses, Settled
<1>2. CASE Page(x) \/ Polish(x)
  <2>1. exec'[x].pc = exec[x].pc
    BY <1>0, <1>2 DEF Page, Polish, ExecType
  <2>2. job'[x[1]].status = job[x[1]].status
    BY <1>0, <1>1, <1>2, RowChange DEF Page, Polish
  <2> QED
    BY <1>2, <2>1, <2>2 DEF Page, Polish, StillDue
<1>3. CASE Unauthorized(x) \/ Finish(x) \/ Fail(x) \/ Die(x)
  <2>1. exec'[x].pc \in {"ended", "dead"}
    BY <1>1, <1>3, ExecChange DEF Unauthorized, Finish, Fail, Die
  <2> QED
    BY <2>1
<1>4. CASE LastPage(x)
  <2>1. job'[x[1]].status = job[x[1]].status
    BY <1>0, <1>1, <1>4, RowChange DEF LastPage
  <2> QED
    BY <1>4, <2>1 DEF LastPage, StillDue
<1>5. CASE Ingested(x)
  <2>1. job'[x[1]].status = "COMPLETED"
    BY <1>0, <1>1, <1>5, RowChange DEF Ingested
  <2>2. exec'[x].pc \in {"ended", "polishing"}
    BY <1>1, <1>5, ExecChange DEF Ingested
  <2> QED
    BY <2>1, <2>2 DEF StillDue
<1>6. CASE ProcessStart(x[1]) /\ x[2] = "process"
  <2>1. job'[x[1]].status = job[x[1]].status
    BY <1>0, <1>1, <1>6, RowChange DEF ProcessStart
  <2> QED
    BY <1>0, <1>6, <2>1 DEF ProcessStart, StillDue
<1> QED
  BY <1>2, <1>3, <1>4, <1>5, <1>6 DEF Work

LEMMA ReportStep ==
    TypeOK /\ SoleInv /\ ReportInv /\ [Next]_vars => ReportInv' /\ (Kept \/ UNCHANGED vars)
<1> SUFFICES ASSUME TypeOK, SoleInv, ReportInv, [Next]_vars
             PROVE  ReportInv' /\ (Kept \/ UNCHANGED vars)
  OBVIOUS
<1>1. /\ job \in [Jobs -> RowType] /\ exec \in [Executions -> ExecType]
      /\ misjudged \in SUBSET Jobs
  BY TypeFolded
<1>2. /\ {"claiming", "claimed", "discovering", "ended"} \subseteq Labels \ {"none"}
      /\ {"starting", "queueing", "waiting", "claiming", "claimed", "discovering"}
            \subseteq Live \ {"polishing"}
      /\ "ended" \notin Live /\ "none" \notin Live
      /\ {"RUNNING", "FAILED"} \subseteq Statuses
      /\ "RUNNING" \notin Settled /\ NoRow \cap Settled = {} /\ "requested" \in NoRow
  BY DEF Labels, Live, Queueing, Importing, Statuses, Settled, NoRow
<1>3. ASSUME NEW j \in Jobs, Check(j)
      PROVE  ReportInv' /\ Kept
  <2>1. /\ misjudged \subseteq misjudged' /\ exec' = exec /\ job[j].status \notin Settled
    BY <1>2, <1>3 DEF Check, NoRow
  <2>2. CASE Running = {} /\ job' = [job EXCEPT ![j].status = "requested"]
    <3>1. /\ job'[j].status = "requested"
          /\ \A i \in Jobs : i # j => job'[i] = job[i]
      BY <1>1, <2>2 DEF RowType
    <3> QED
      BY <1>2, <2>1, <3>1, ReportFrame
  <2>3. ASSUME NEW k \in Running,
               job' = [job EXCEPT ![j].status = "requested",
                                  ![k].status = "FAILED", ![k].idle = 0],
               misjudged' = misjudged \cup {k}
        PROVE  ReportInv' /\ Kept
    <3>1. k \in Jobs /\ job[k].status \notin Settled /\ k # j
      BY <1>2, <1>3 DEF Running, Check
    <3>2. /\ job'[j].status = "requested"
          /\ \A i \in Jobs : i # j /\ i # k => job'[i] = job[i]
      BY <1>1, <2>3, <3>1 DEF RowType
    <3> QED
      BY <1>2, <2>1, <2>3, <3>1, <3>2, ReportFrame
  <2> QED
    BY <1>3, <2>2, <2>3 DEF Check
<1>4. ASSUME NEW j \in Jobs, ImportAll(j) \/ Resync(j) \/ ResyncJob(j)
      PROVE  ReportInv' /\ Kept
  <2>1. Insert(j) /\ job[j].status \in NoRow
    BY <1>4 DEF ImportAll, Resync, ResyncJob, NoRow
  <2>2. /\ job'[j].status = "RUNNING"
        /\ \A k \in Jobs : k # j => job'[k] = job[k]
    BY <2>1, InsertChange
  <2>3. /\ misjudged \subseteq misjudged'
        /\ \A x \in Executions : x[1] # j => exec'[x] = exec[x]
    <3>1. CASE Dispatch(j)
      BY <3>1, DispatchChange
    <3>2. CASE ResyncJob(j)
      BY <1>1, <3>2, PairParts DEF ResyncJob, Paths
    <3> QED
      BY <1>4, <3>1, <3>2 DEF ImportAll, Resync
  <2>4. \A i \in Jobs, p \in Paths : i # j => exec'[<<i, p>>] = exec[<<i, p>>]
    BY <2>3, PairParts
  <2> QED
    BY <1>2, <2>1, <2>2, <2>3, <2>4, ReportFrame
<1>5. ASSUME NEW j \in Jobs, CloudStart(j)
      PROVE  ReportInv' /\ Kept
  <2> DEFINE zombies == Zombies(OthersRunning(j))
  <2>1. /\ zombies \in SUBSET Jobs /\ FailAll(zombies) /\ misjudged' = misjudged \cup zombies
        /\ \A i \in zombies : job[i].status \notin Settled
    BY <1>2, <1>5 DEF CloudStart, Zombies, OthersRunning, Running
  <2>2. /\ \A y \in Executions : y # Cloud(j) => exec'[y] = exec[y]
        /\ exec[Cloud(j)].pc = "starting" /\ exec'[Cloud(j)].pc = "queueing"
    BY <1>1, <1>5, Paths3 DEF CloudStart, ExecType
  <2>3. j \notin misjudged => job[j].status \notin Settled
    BY <1>2, <2>2 DEF ReportInv, Cloud, Paths
  <2>4. \A i \in Jobs \ zombies : job'[i] = job[i]
    BY <2>1, FailAllChange
  <2>5. \A i \in Jobs, p \in Paths : i # j => exec'[<<i, p>>] = exec[<<i, p>>]
    BY <2>2, PairParts DEF Cloud
  <2> QED
    BY <2>1, <2>3, <2>4, <2>5, ReportFrame
<1>6. ASSUME NEW j \in Jobs,
             Queue(j) \/ Pass(j) \/ QueueTimeout(j) \/ Claim(j) \/ Authorize(j)
      PROVE  ReportInv' /\ Kept
  <2>1. /\ exec[Cloud(j)].pc \in Live \ {"polishing"}
        /\ \A y \in Executions : y # Cloud(j) => exec'[y] = exec[y]
        /\ \A i \in Jobs : i # j => job'[i] = job[i]
        /\ misjudged \subseteq misjudged'
    <3>1. exec[Cloud(j)].pc \in {"queueing", "waiting", "claiming", "claimed"}
      BY <1>6 DEF Queue, Pass, QueueTimeout, Claim, Authorize
    <3>2. \A y \in Executions : y # Cloud(j) => exec'[y] = exec[y]
      BY <1>1, <1>6 DEF Queue, Pass, QueueTimeout, Claim, Authorize, Goto, Enter
    <3>3. \A i \in Jobs : i # j => job'[i] = job[i]
      BY <1>1, <1>6 DEF Queue, Pass, QueueTimeout, Claim, Authorize, Touch, Settle
    <3> QED
      BY <1>2, <1>6, <3>1, <3>2, <3>3 DEF Queue, Pass, QueueTimeout, Claim, Authorize
  <2>2. j \notin misjudged => job[j].status \notin Settled
    BY <2>1 DEF ReportInv, Cloud, Paths
  <2>3. job'[j].status \in Settled => \/ job[j].status = job'[j].status
                                     \/ exec'[Cloud(j)].pc = "ended"
    <3>1. CASE Queue(j) \/ Pass(j)
      BY <1>1, <3>1 DEF Queue, Pass, Touch, RowType
    <3>2. CASE QueueTimeout(j)
      BY <1>2, <3>2, Paths3, ExecChange DEF QueueTimeout
    <3>3. CASE Claim(j)
      BY <1>2, <3>3, RowChange DEF Claim
    <3>4. CASE Authorize(j)
      BY <1>2, <3>4, Paths3, ExecChange, RowChange DEF Authorize
    <3> QED
      BY <1>6, <3>1, <3>2, <3>3, <3>4
  <2>4. j \notin misjudged
          => \A p \in Paths : p # "cloud" => exec'[<<j, p>>].pc = "none"
    <3>1. Cloud(j) \in Executions /\ Cloud(j)[1] = j /\ Cloud(j)[2] = "cloud"
      BY DEF Cloud, Executions, Paths
    <3>2. exec[Cloud(j)].pc # "none"
      BY <1>2, <2>1
    <3> QED
      BY <2>1, <3>1, <3>2, SoleMove
  <2>5. \A i \in Jobs, p \in Paths : i # j => exec'[<<i, p>>] = exec[<<i, p>>]
    BY <2>1, PairParts DEF Cloud
  <2>6. Kept
    BY <2>1, <2>2 DEF Kept
  <2>7. ASSUME NEW i \in Jobs \ misjudged', job'[i].status \in Settled,
               NEW p \in Paths, exec'[<<i, p>>].pc \in Live
        PROVE  exec'[<<i, p>>].pc = "polishing" /\ job'[i].status = "COMPLETED"
    <3>1. CASE i # j
      BY <2>1, <2>5, <2>7, <3>1 DEF ReportInv
    <3>2. CASE i = j
      BY <1>2, <2>1, <2>2, <2>3, <2>4, <2>7, <3>2 DEF Cloud
    <3> QED
      BY <3>1, <3>2
  <2>8. ReportInv'
    BY <2>7 DEF ReportInv
  <2> QED
    BY <2>6, <2>8
<1>7. ASSUME NEW x \in Executions,
             \/ Work(x) \/ Die(x)
             \/ ProcessStart(x[1]) /\ x[2] = "process"
      PROVE  ReportInv' /\ Kept
  <2>1. x[1] \in Jobs /\ x[2] \in Paths /\ x = <<x[1], x[2]>>
    BY ExecutionParts
  <2>2. /\ misjudged' = misjudged
        /\ \A i \in Jobs : i # x[1] => job'[i] = job[i]
        /\ \A y \in Executions : y # x => exec'[y] = exec[y]
        /\ exec[x].pc \in Live
        /\ job'[x[1]].status \in {job[x[1]].status, "FAILED", "COMPLETED"}
    BY <1>7, WorkChange
  <2>3. x[1] \notin misjudged => StillDue(x)
    BY <2>1, <2>2 DEF ReportInv, StillDue
  <2>4. x[1] \notin misjudged /\ exec'[x].pc \in Live => StillDue(x)'
    BY <1>7, <2>3, WorkReports
  <2> QED
    BY <2>2, <2>4, ReportMove DEF StillDue
<1>8. CASE Sweep
  <2>1. /\ Overdue \in SUBSET Jobs /\ exec' = exec /\ misjudged' = misjudged \cup Overdue
        /\ \A i \in Overdue : job[i].status \notin Settled
    BY <1>2, <1>8 DEF Sweep, Overdue, Running
  <2>2. \A i \in Jobs \ Overdue : job'[i] = job[i]
    BY <1>8, <2>1, FailAllChange DEF Sweep
  <2> QED
    BY <2>1, <2>2, ReportFrame
<1>9. CASE Tick
  <2>1. /\ misjudged' = misjudged
        /\ \A i \in Jobs : job'[i].status = job[i].status
        /\ \A i \in Jobs, p \in Paths : exec'[<<i, p>>].pc = exec[<<i, p>>].pc
    BY <1>9, TickChange, PairParts
  <2> QED
    BY <2>1 DEF ReportInv, Kept
<1>10. CASE UNCHANGED vars
  BY <1>10, ReportFrame DEF vars
<1> QED
  BY <1>3, <1>4, <1>5, <1>6, <1>7, <1>8, <1>9, <1>10, Paths3
     DEF Next, Request, QueueStep

\* An import nobody took for dead is settled once; its own polishing execution
\* alone takes a COMPLETED back.  Whatever the other rows, the clean-ups and the
\* deaths do.
THEOREM Reported == Spec => ReportStands
<1>1. Init => ReportInv
  BY DEF Init, ReportInv, Settled
<1>2. TypeOK /\ SoleInv /\ ReportInv /\ [Next]_vars => ReportInv' /\ [Kept]_vars
  BY ReportStep
<1>3. ReportStands <=> [][Kept]_vars
  BY DEF ReportStands, Kept
<1> QED
  BY <1>1, <1>2, <1>3, InitType, InitSerial, TypeStep, SoleStep, PTL DEF Spec

-----------------------------------------------------------------------------
(* No row is left behind *)

\* What still answers for a RUNNING row.  The web process's background task
\* does not once it polishes: its end then leaves the status as it finds it.
Answers(j, p) ==
    /\ exec[<<j, p>>].pc \in Live \cup {"dead"}
    /\ p # "cloud" => exec[<<j, p>>].pc # "polishing"

AnsweredInv ==
    \A j \in Jobs : job[j].status = "RUNNING" => \E p \in Paths : Answers(j, p)

(* Executions that keep answering and rows that turn RUNNING with one. *)
LEMMA AnsweredFrame ==
    ASSUME AnsweredInv,
           \A j \in Jobs : job'[j].status = "RUNNING"
              => \/ /\ job[j].status = "RUNNING"
                    /\ \A p \in Paths : Answers(j, p) => Answers(j, p)'
                 \/ \E p \in Paths : Answers(j, p)'
    PROVE  AnsweredInv'
BY DEF AnsweredInv

LEMMA WorkAnswers ==
    ASSUME TypeOK, NEW x \in Executions,
           \/ Work(x) \/ Die(x)
           \/ ProcessStart(x[1]) /\ x[2] = "process"
    PROVE  job'[x[1]].status = "RUNNING"
             => /\ job[x[1]].status = "RUNNING"
                /\ Answers(x[1], x[2]) => Answers(x[1], x[2])'
<1> USE DEF Live, Queueing, Importing
<1>0. /\ job \in [Jobs -> RowType] /\ exec \in [Executions -> ExecType]
      /\ x[1] \in Jobs /\ x[2] \in Paths /\ x = <<x[1], x[2]>>
  BY TypeFolded, ExecutionParts
<1>1. /\ {"ended", "dead", "ingesting", "polishing", "discovering"} \subseteq Labels
      /\ {"FAILED", "COMPLETED"} \subseteq Statuses
  BY DEF Labels, Statuses, Settled
<1>2. job'[x[1]].status \in {job[x[1]].status, "FAILED", "COMPLETED"}
  BY WorkChange
<1>3. CASE Page(x) \/ Polish(x)
  <2>1. exec'[x].pc = exec[x].pc
    BY <1>0, <1>3 DEF Page, Polish, ExecType
  <2> QED
    BY <1>0, <1>2, <2>1 DEF Answers
<1>4. CASE Unauthorized(x) \/ Fail(x) \/ Ingested(x)
  BY <1>0, <1>1, <1>4, RowChange DEF Unauthorized, Fail, Ingested
<1>5. CASE LastPage(x)
  <2>1. exec'[x].pc = "ingesting"
    BY <1>1, <1>5, ExecChange DEF LastPage
  <2> QED
    BY <1>0, <1>2, <2>1 DEF Answers
<1>6. CASE Finish(x)
  <2>1. CASE x[2] = "cloud"
    BY <1>0, <1>1, <1>6, <2>1, RowChange DEF Finish
  <2>2. CASE x[2] # "cloud"
    BY <1>0, <1>2, <1>6, <2>2 DEF Finish, Answers
  <2> QED
    BY <2>1, <2>2
<1>7. CASE Die(x)
  <2>1. exec'[x].pc = "dead"
    BY <1>1, <1>7, ExecChange DEF Die
  <2> QED
    BY <1>0, <1>2, <2>1 DEF Answers
<1>8. CASE ProcessStart(x[1]) /\ x[2] = "process"
  <2>1. exec'[x].pc = "discovering"
    BY <1>0, <1>1, <1>8, ExecChange DEF ProcessStart
  <2> QED
    BY <1>0, <1>2, <2>1 DEF Answers
<1> QED
  BY <1>3, <1>4, <1>5, <1>6, <1>7, <1>8 DEF Work

LEMMA AnsweredStep == TypeOK /\ AnsweredInv /\ [Next]_vars => AnsweredInv'
<1> SUFFICES ASSUME TypeOK, AnsweredInv, [Next]_vars PROVE AnsweredInv'
  OBVIOUS
<1>1. /\ job \in [Jobs -> RowType] /\ exec \in [Executions -> ExecType]
      /\ misjudged \in SUBSET Jobs
  BY TypeFolded
<1>2. /\ {"claiming", "claimed", "discovering", "starting", "queueing", "waiting"}
            \subseteq Live \ {"polishing"}
      /\ {"claiming", "claimed", "discovering", "ended"} \subseteq Labels
      /\ {"RUNNING", "FAILED"} \subseteq Statuses
      /\ "cloud" \in Paths
      /\ \A j \in Jobs : /\ Cloud(j) = <<j, "cloud">> /\ Cloud(j) \in Executions
                         /\ \A p \in Paths : <<j, p>> \in Executions
  BY DEF Live, Queueing, Importing, Labels, Paths, Cloud, Executions, Statuses, Settled
<1>3. ASSUME NEW j \in Jobs, Check(j)
      PROVE  AnsweredInv'
  <2>1. exec' = exec
    BY <1>3 DEF Check
  <2>2. \A i \in Jobs : job'[i].status = "RUNNING" => job[i].status = "RUNNING"
    <3>1. CASE \E k \in Running :
                 job' = [job EXCEPT ![j].status = "requested",
                                    ![k].status = "FAILED", ![k].idle = 0]
      <4>1. PICK k \in Running :
                 job' = [job EXCEPT ![j].status = "requested",
                                    ![k].status = "FAILED", ![k].idle = 0]
        BY <3>1
      <4> QED
        BY <1>1, <4>1 DEF Running, RowType
    <3>2. CASE job' = [job EXCEPT ![j].status = "requested"]
      BY <1>1, <3>2 DEF RowType
    <3> QED
      BY <1>3, <3>1, <3>2 DEF Check
  <2> QED
    BY <2>1, <2>2, AnsweredFrame DEF Answers
<1>4. ASSUME NEW j \in Jobs, ImportAll(j) \/ Resync(j)
      PROVE  AnsweredInv'
  <2>1. Insert(j) /\ Dispatch(j)
    BY <1>4 DEF ImportAll, Resync
  <2>2. /\ \A x \in Executions : x[1] # j => exec'[x] = exec[x]
        /\ \A k \in Jobs : k # j => job'[k] = job[k]
        /\ \E p \in Paths : exec'[<<j, p>>].pc = "starting"
    BY <2>1, InsertChange, DispatchChange
  <2>3. \A i \in Jobs : i # j => \A p \in Paths : exec'[<<i, p>>] = exec[<<i, p>>]
    BY <2>2, Paths3
  <2> QED
    BY <1>2, <2>2, <2>3, AnsweredFrame DEF Answers
<1>5. ASSUME NEW j \in Jobs, ResyncJob(j)
      PROVE  AnsweredInv'
  <2>1. \A k \in Jobs : k # j => job'[k] = job[k]
    BY <1>5, InsertChange DEF ResyncJob
  <2>2. /\ exec'[<<j, "resync">>] = [Absent EXCEPT !.pc = "discovering"]
        /\ \A y \in Executions : y # <<j, "resync">> => exec'[y] = exec[y]
    BY <1>1, <1>5, Paths3 DEF ResyncJob
  <2>3. exec'[<<j, "resync">>].pc = "discovering" /\ "resync" \in Paths
    BY <2>2 DEF Absent, Paths
  <2>4. \A i \in Jobs : i # j => \A p \in Paths : exec'[<<i, p>>] = exec[<<i, p>>]
    BY <2>2, Paths3
  <2> QED
    BY <1>2, <2>1, <2>3, <2>4, AnsweredFrame DEF Answers
<1>6. ASSUME NEW j \in Jobs, CloudStart(j) \/ Queue(j) \/ Pass(j)
      PROVE  AnsweredInv'
  <2>1. /\ exec'[Cloud(j)].pc \in {"queueing", "waiting", "claiming"}
        /\ \A y \in Executions : y # Cloud(j) => exec'[y] = exec[y]
    BY <1>1, <1>2, <1>6 DEF CloudStart, Queue, Pass, Goto, ExecType
  <2>2. \A i \in Jobs : job'[i].status = "RUNNING" => job[i].status = "RUNNING"
    <3>1. CASE CloudStart(j)
      <4>1. Zombies(OthersRunning(j)) \in SUBSET Jobs /\ FailAll(Zombies(OthersRunning(j)))
        BY <3>1 DEF CloudStart, Zombies, OthersRunning, Running
      <4> QED
        BY <4>1, FailAllChange
    <3>2. CASE Queue(j) \/ Pass(j)
      BY <1>1, <3>2 DEF Queue, Pass, Touch, RowType
    <3> QED
      BY <1>6, <3>1, <3>2
  <2> QED
    BY <1>2, <2>1, <2>2, AnsweredFrame DEF Answers
<1>7. ASSUME NEW j \in Jobs, QueueTimeout(j) \/ Claim(j) \/ Authorize(j)
      PROVE  AnsweredInv'
  <2>1. \A y \in Executions : y # Cloud(j) => exec'[y] = exec[y]
    BY <1>2, <1>7, ExecChange DEF QueueTimeout, Claim, Authorize
  <2>2. \A k \in Jobs : k # j => job'[k] = job[k]
    BY <1>1, <1>7 DEF QueueTimeout, Claim, Authorize, Settle, Touch
  <2>3. \/ job'[j].status = "FAILED"
        \/ exec'[Cloud(j)].pc \in {"claimed", "discovering"}
    <3>1. CASE QueueTimeout(j)
      BY <1>2, <3>1, RowChange DEF QueueTimeout
    <3>2. CASE Claim(j)
      BY <1>2, <3>2, ExecChange DEF Claim
    <3>3. CASE Authorize(j)
      BY <1>2, <3>3, ExecChange, RowChange DEF Authorize
    <3> QED
      BY <1>7, <3>1, <3>2, <3>3
  <2> QED
    BY <1>2, <2>1, <2>2, <2>3, AnsweredFrame DEF Answers
<1>8. ASSUME NEW x \in Executions,
             \/ Work(x) \/ Die(x)
             \/ ProcessStart(x[1]) /\ x[2] = "process"
      PROVE  AnsweredInv'
  <2>1. /\ \A i \in Jobs : i # x[1] => job'[i] = job[i]
        /\ \A y \in Executions : y # x => exec'[y] = exec[y]
    BY <1>8, WorkChange
  <2>2. job'[x[1]].status = "RUNNING"
          => /\ job[x[1]].status = "RUNNING"
             /\ Answers(x[1], x[2]) => Answers(x[1], x[2])'
    BY <1>8, WorkAnswers
  <2>3. \A i \in Jobs, p \in Paths :
           i # x[1] \/ p # x[2] => exec'[<<i, p>>] = exec[<<i, p>>]
    BY <1>2, <2>1, ExecutionParts
  <2> QED
    BY <2>1, <2>2, <2>3, ExecutionParts, AnsweredFrame DEF Answers
<1>9. CASE Sweep
  <2>1. Overdue \in SUBSET Jobs /\ exec' = exec
    BY <1>9 DEF Sweep, Overdue, Running
  <2>2. \A i \in Jobs : job'[i].status = "RUNNING" => job[i].status = "RUNNING"
    BY <1>9, <2>1, FailAllChange DEF Sweep
  <2> QED
    BY <2>1, <2>2, AnsweredFrame DEF Answers
<1>10. CASE Tick
  BY <1>2, <1>10, TickChange, AnsweredFrame DEF Answers
<1>11. CASE UNCHANGED vars
  BY <1>11, AnsweredFrame DEF Answers, vars
<1> QED
  BY <1>3, <1>4, <1>5, <1>6, <1>7, <1>8, <1>9, <1>10, <1>11, Paths3
     DEF Next, Request, QueueStep

\* A RUNNING row has an execution at work, or one that died, whatever the
\* order in which two executions of one row settle and claim it.
THEOREM NoneLeftBehind == Spec => []RunningHasExecution
<1>1. Init => AnsweredInv
  BY DEF Init, AnsweredInv
<1>2. AnsweredInv => RunningHasExecution
  BY DEF AnsweredInv, Answers, RunningHasExecution, Running
<1> QED
  BY <1>1, <1>2, InitType, TypeStep, AnsweredStep, PTL DEF Spec

=============================================================================
