----------------------- MODULE RebuildTriggersProofs -----------------------
(* Theorems of RebuildTriggers, for every value of its constants. *)
EXTENDS RebuildTriggers, TLAPS

WebType == [pc : {"idle", "debounced", "direct"}, change : 0..MaxChanges,
            since : 0..Debounce]

(* A change no request covers is in somebody's hands: a web request that has *)
(* still to trigger, the open archive, or the pinger. *)
SomebodyHolds ==
    \A n \in asked + 1..changes :
        \/ n \in excused
        \/ \E i \in Instances : web[i].pc # "idle" /\ web[i].change = n
        \/ drain.deferred \/ n <= drain.imported

WebHolds == \A i \in Instances : web[i].pc # "idle" => web[i].change \in 1..changes

(* What the drain holds at each of its steps. *)
PingerHolds ==
    /\ drain.pc \in {"idle", "next"} => drain.imported = 0
    /\ drain.pc = "idle" => ~drain.deferred
    /\ drain.pc = "mailing" /\ drain.imported > 0
       => drain.deferred \/ drain.imported <= asked

Inv == /\ TypeOK /\ RequestsCarry /\ SomebodyHolds /\ WebHolds /\ PingerHolds
       /\ TellsOnlyWhatIsAsked

LEMMA AnswerType ==
    ASSUME TypeOK, NEW i \in Instances, NEW d \in 0..Debounce, Answer(i, d)
    PROVE  /\ web' \in [Instances -> WebType]
           /\ web'[i].pc = "idle"
           /\ \A j \in Instances : j # i => web'[j] = web[j]
BY BoundsAssumption, DelaysAssumption DEF TypeOK, WebType, Answer

LEMMA RequestType ==
    ASSUME TypeOK, Accepted \/ Refused
    PROVE  /\ requested' \in 0..MaxRequests /\ asked' \in 0..changes
           /\ Accepted => requested' > 0 /\ asked' = changes
           /\ Refused => requested' = requested /\ asked' = asked
BY BoundsAssumption DEF TypeOK, Accepted, Refused

LEMMA InitInv == Init => Inv
<1> SUFFICES ASSUME Init PROVE Inv
  OBVIOUS
<1> USE BoundsAssumption, DelaysAssumption
<1>1. NoDrain \in [pc : {"idle", "next", "members", "member", "mailing"},
                 todo : SUBSET Archives, archive : SUBSET Archives,
                 imported : 0..MaxChanges, deferred : BOOLEAN,
                 since : 0..Reping, retry : 0..RetryAfter]
  BY DEF NoDrain
<1>0. NoDrain.imported = 0
  BY DEF NoDrain
<1>2. TypeOK
  BY <1>1, <1>0 DEF Init, TypeOK
<1>3. PingerHolds /\ WebHolds
  BY DEF Init, PingerHolds, NoDrain, WebHolds
<1>4. RequestsCarry /\ SomebodyHolds /\ TellsOnlyWhatIsAsked
  BY DEF Init, RequestsCarry, SomebodyHolds, TellsOnlyWhatIsAsked
<1> QED
  BY <1>2, <1>3, <1>4 DEF Inv

LEMMA UploadKeeps ==
    ASSUME Inv, NEW i \in Instances, NEW last \in BOOLEAN,
           UploadFile(i, last) \/ ChangeSport(i) \/ RemoveOrMerge(i)
    PROVE  Inv'
<1> USE BoundsAssumption, DelaysAssumption
<1>a. PICK label \in {"debounced", "direct"} :
        \/ web' = [web EXCEPT ![i].pc = label, ![i].change = changes + 1]
           /\ UNCHANGED excused
        \/ web' = web /\ excused' = excused \cup {changes + 1}
  BY DEF UploadFile, ChangeSport, RemoveOrMerge, Excuse
<1>b. /\ web[i].pc = "idle" /\ changes < MaxChanges /\ changes' = changes + 1
      /\ UNCHANGED <<drain, mailed, requested, running, shown, asked, told>>
  BY DEF UploadFile, ChangeSport, RemoveOrMerge, Commit
<1>c. /\ web' \in [Instances -> WebType]
      /\ \A j \in Instances : j # i => web'[j] = web[j]
      /\ \/ web'[i].pc = label /\ web'[i].change = changes + 1 /\ excused' = excused
         \/ web' = web /\ excused' = excused \cup {changes + 1}
  <2>1. web \in [Instances -> WebType] /\ changes + 1 \in 0..MaxChanges
    BY <1>b DEF Inv, TypeOK, WebType
  <2>2. \A w \in WebType, n \in 0..MaxChanges :
            /\ [w EXCEPT !.pc = label, !.change = n] \in WebType
            /\ [w EXCEPT !.pc = label, !.change = n].pc = label
            /\ [w EXCEPT !.pc = label, !.change = n].change = n
    BY Zenon DEF WebType
  <2>3. CASE web' = [web EXCEPT ![i].pc = label, ![i].change = changes + 1]
    <3>1. web'[i] = [web[i] EXCEPT !.pc = label, !.change = changes + 1]
      BY <2>1, <2>3
    <3> QED
      BY <1>a, <2>1, <2>2, <2>3, <3>1
  <2>4. CASE web' = web /\ excused' = excused \cup {changes + 1}
    BY <2>1, <2>4
  <2> QED
    BY <1>a, <2>3, <2>4, Zenon
<1>1. TypeOK'
  <2>1. /\ 0..changes \subseteq 0..changes' /\ 1..changes \subseteq 1..changes'
        /\ changes + 1 \in 1..changes'
    BY <1>b DEF Inv, TypeOK
  <2>2. running' \subseteq 0..changes' /\ excused' \subseteq 1..changes'
    <3>1. running \subseteq 0..changes /\ excused \subseteq 1..changes
      BY DEF Inv, TypeOK
    <3>2. running' = running /\ excused' \subseteq excused \cup {changes + 1}
      BY <1>b, <1>c
    <3> QED
      BY <2>1, <3>1, <3>2, Zenon
  <2>3. changes' \in 0..MaxChanges /\ drain'.imported <= changes'
        /\ shown' \in 0..changes' /\ asked' \in 0..changes' /\ told' \in 0..changes'
    BY <1>b DEF Inv, TypeOK
  <2> QED
    BY <1>b, <1>c, <2>2, <2>3 DEF Inv, TypeOK, WebType
<1>2. WebHolds'
  BY <1>b, <1>c DEF Inv, TypeOK, WebHolds
<1>3. RequestsCarry'
  BY <1>b, <1>c DEF Inv, TypeOK, RequestsCarry
<1>4. SomebodyHolds'
  <2> SUFFICES ASSUME NEW n \in asked' + 1..changes'
      PROVE \/ n \in excused'
            \/ \E j \in Instances : web'[j].pc # "idle" /\ web'[j].change = n
            \/ drain'.deferred \/ n <= drain'.imported
    BY DEF SomebodyHolds
  <2>1. CASE n = changes + 1
    <3>1. CASE excused' = excused \cup {changes + 1}
      BY <2>1, <3>1
    <3>2. CASE web'[i].pc = label /\ web'[i].change = changes + 1
      BY <2>1, <3>2
    <3> QED
      BY <1>c, <3>1, <3>2
  <2>2. CASE n # changes + 1
    <3>1. n \in asked + 1..changes
      BY <1>b, <2>2 DEF Inv, TypeOK
    <3>2. CASE \E j \in Instances : web[j].pc # "idle" /\ web[j].change = n
      <4>1. PICK j \in Instances : web[j].pc # "idle" /\ web[j].change = n
        BY <3>2
      <4>2. j # i
        BY <1>b, <4>1
      <4> QED
        BY <1>c, <4>1, <4>2
    <3>3. CASE n \in excused \/ drain.deferred \/ n <= drain.imported
      BY <1>b, <1>c, <3>3
    <3> QED
      BY <3>1, <3>2, <3>3 DEF Inv, SomebodyHolds
  <2> QED
    BY <2>1, <2>2
<1>5. PingerHolds' /\ TellsOnlyWhatIsAsked'
  BY <1>b, <1>c DEF Inv, TypeOK, PingerHolds, TellsOnlyWhatIsAsked
<1> QED
  BY <1>1, <1>2, <1>3, <1>4, <1>5 DEF Inv

(* A request ends: the build is asked for, or the change it held is excused. *)
LEMMA AnswerKeeps ==
    ASSUME Inv, NEW i \in Instances, NEW d \in 0..Debounce, Answer(i, d),
           UNCHANGED <<changes, drain, mailed, running, shown, told>>,
           \/ Accepted /\ UNCHANGED excused
           \/ Refused /\ Excuse({web[i].change}) /\ web[i].pc # "idle"
           \/ Refused /\ UNCHANGED excused /\ web[i].pc = "idle"
    PROVE  Inv'
<1> USE BoundsAssumption, DelaysAssumption
<1>a. /\ web' \in [Instances -> WebType] /\ web'[i].pc = "idle"
      /\ \A j \in Instances : j # i => web'[j] = web[j]
  BY AnswerType DEF Inv
<1>b. /\ requested' \in 0..MaxRequests /\ asked' \in 0..changes
      /\ Accepted => requested' > 0 /\ asked' = changes
      /\ Refused => requested' = requested /\ asked' = asked
  BY RequestType DEF Inv
<1>c. excused \subseteq excused' /\ excused' \subseteq 1..changes
  BY DEF Inv, TypeOK, WebHolds, Excuse
<1>d. \/ asked' = changes /\ requested' > 0
      \/ /\ asked' = asked /\ requested' = requested
         /\ web[i].pc # "idle" => web[i].change \in excused'
  BY <1>b DEF Excuse
<1>1. TypeOK'
  BY <1>a, <1>b, <1>c DEF Inv, TypeOK, WebType
<1>2. WebHolds'
  BY <1>a DEF Inv, WebHolds
<1>3. RequestsCarry'
  BY <1>c, <1>d DEF Inv, TypeOK, RequestsCarry
<1>4. SomebodyHolds'
  <2> SUFFICES ASSUME NEW n \in asked' + 1..changes
      PROVE \/ n \in excused'
            \/ \E j \in Instances : web'[j].pc # "idle" /\ web'[j].change = n
            \/ drain.deferred \/ n <= drain.imported
    BY DEF SomebodyHolds
  <2>1. CASE asked' = changes
    BY <2>1 DEF Inv, TypeOK
  <2>2. CASE asked' = asked /\ (web[i].pc # "idle" => web[i].change \in excused')
    <3>1. CASE \E j \in Instances : web[j].pc # "idle" /\ web[j].change = n
      <4>1. PICK j \in Instances : web[j].pc # "idle" /\ web[j].change = n
        BY <3>1
      <4> QED
        BY <1>a, <2>2, <4>1
    <3>2. CASE n \in excused \/ drain.deferred \/ n <= drain.imported
      BY <1>c, <3>2
    <3> QED
      BY <2>2, <3>1, <3>2 DEF Inv, SomebodyHolds
  <2> QED
    BY <1>d, <2>1, <2>2
<1>5. PingerHolds'
  BY <1>b, <1>d DEF Inv, TypeOK, PingerHolds
<1>6. TellsOnlyWhatIsAsked'
  BY <1>b, <1>c, <1>d DEF Inv, TypeOK, TellsOnlyWhatIsAsked
<1> QED
  BY <1>1, <1>2, <1>3, <1>4, <1>5, <1>6 DEF Inv

LEMMA WebKeeps == ASSUME Inv, NEW i \in Instances, Web(i) PROVE Inv'
<1> USE BoundsAssumption, DelaysAssumption
<1>0. web[i].since \in 0..Debounce /\ 0 \in 0..Debounce /\ Debounce \in 0..Debounce
  BY DEF Inv, TypeOK
<1>1. ASSUME NEW last \in BOOLEAN, UploadFile(i, last) PROVE Inv'
  BY <1>1, UploadKeeps
<1>2. CASE ChangeSport(i)
  BY <1>2, UploadKeeps
<1>3. CASE RemoveOrMerge(i)
  BY <1>3, UploadKeeps
<1>4. CASE TriggerDebounced(i)
  <2>1. CASE Answer(i, web[i].since) /\ Refused /\ Excuse({web[i].change})
    BY <1>0, <1>4, <2>1, AnswerKeeps DEF TriggerDebounced
  <2>2. CASE Answer(i, 0) /\ Accepted /\ UNCHANGED excused
    BY <1>0, <1>4, <2>2, AnswerKeeps DEF TriggerDebounced
  <2>3. CASE Answer(i, 0) /\ Refused /\ Excuse({web[i].change})
    BY <1>0, <1>4, <2>3, AnswerKeeps DEF TriggerDebounced
  <2> QED
    BY <1>4, <2>1, <2>2, <2>3 DEF TriggerDebounced
<1>5. CASE TriggerDirect(i)
  <2>1. CASE Accepted /\ UNCHANGED excused
    BY <1>0, <1>5, <2>1, AnswerKeeps DEF TriggerDirect
  <2>2. CASE Refused /\ Excuse({web[i].change})
    BY <1>0, <1>5, <2>2, AnswerKeeps DEF TriggerDirect
  <2> QED
    BY <1>5, <2>1, <2>2 DEF TriggerDirect
<1>6. CASE Restart(i)
  <2>1. Refused /\ Answer(i, Debounce)
        /\ UNCHANGED <<changes, drain, mailed, running, shown, told>>
    BY <1>6 DEF Restart, Refused
  <2>2. CASE web[i].pc = "idle" /\ UNCHANGED excused
    BY <1>0, <2>1, <2>2, AnswerKeeps
  <2>3. CASE web[i].pc # "idle" /\ Excuse({web[i].change})
    BY <1>0, <2>1, <2>3, AnswerKeeps
  <2> QED
    BY <1>6, <2>2, <2>3 DEF Restart
<1> QED
  BY <1>1, <1>2, <1>3, <1>4, <1>5, <1>6 DEF Web

LEMMA WebhookKeeps == ASSUME Inv, RemoveByWebhook PROVE Inv'
<1> USE BoundsAssumption, DelaysAssumption
<1>a. /\ changes < MaxChanges /\ changes' = changes + 1
      /\ excused' = excused \cup {changes + 1}
      /\ UNCHANGED <<web, drain, mailed, requested, running, shown, asked, told>>
  BY DEF RemoveByWebhook, Commit, Excuse
<1>1. TypeOK'
  <2>1. running' \subseteq 0..changes' /\ excused' \subseteq 1..changes'
    BY <1>a DEF Inv, TypeOK
  <2> QED
    BY <1>a, <2>1 DEF Inv, TypeOK
<1>2. RequestsCarry' /\ WebHolds' /\ PingerHolds' /\ TellsOnlyWhatIsAsked'
  BY <1>a DEF Inv, TypeOK, RequestsCarry, WebHolds, PingerHolds, TellsOnlyWhatIsAsked
<1>3. SomebodyHolds'
  BY <1>a DEF Inv, TypeOK, SomebodyHolds
<1> QED
  BY <1>1, <1>2, <1>3 DEF Inv

DrainType == [pc : {"idle", "next", "members", "member", "mailing"},
              todo : SUBSET Archives, archive : SUBSET Archives,
              imported : 0..MaxChanges, deferred : BOOLEAN,
              since : 0..Reping, retry : 0..RetryAfter]

(* The step of a drain that commits nothing and excuses nothing. *)
LEMMA DrainKeeps ==
    ASSUME Inv, drain' \in DrainType,
           UNCHANGED <<changes, web, running, shown, excused>>,
           mailed' \subseteq Archives, told' \in 0..changes,
           requested' \in 0..MaxRequests,
           \/ requested' = requested /\ asked' = asked
           \/ requested' > 0 /\ asked' = changes,
           drain'.imported <= changes, PingerHolds', TellsOnlyWhatIsAsked',
           \/ asked' = changes \/ drain'.deferred
           \/ drain.imported <= drain'.imported /\ ~drain.deferred
           \/ drain.imported <= asked' /\ ~drain.deferred
    PROVE  Inv'
<1> USE BoundsAssumption, DelaysAssumption
<1>1. TypeOK'
  BY DEF Inv, TypeOK, DrainType
<1>2. RequestsCarry'
  BY DEF Inv, TypeOK, RequestsCarry
<1>3. WebHolds'
  BY DEF Inv, WebHolds
<1>4. SomebodyHolds'
  <2> SUFFICES ASSUME NEW n \in asked' + 1..changes
      PROVE \/ n \in excused
            \/ \E j \in Instances : web[j].pc # "idle" /\ web[j].change = n
            \/ drain'.deferred \/ n <= drain'.imported
    BY DEF SomebodyHolds
  <2>1. asked' = asked /\ asked' # changes
    BY DEF Inv, TypeOK
  <2>2. /\ n \in Int /\ drain.imported \in Int /\ drain'.imported \in Int
        /\ asked \in Int /\ asked < n
    BY <2>1 DEF Inv, TypeOK, DrainType
  <2>3. CASE n <= drain.imported /\ ~drain.deferred
    BY <2>1, <2>2, <2>3
  <2>4. CASE drain.deferred
    BY <2>1, <2>4
  <2> QED
    BY <2>1, <2>3, <2>4 DEF Inv, SomebodyHolds
<1> QED
  BY <1>1, <1>2, <1>3, <1>4 DEF Inv

LEMMA NoDrainType ==
    /\ NoDrain \in DrainType /\ NoDrain.pc = "idle" /\ NoDrain.imported = 0
    /\ NoDrain.deferred = FALSE
BY DelaysAssumption, BoundsAssumption DEF NoDrain, DrainType

LEMMA BatchBeginKeeps == ASSUME Inv, BatchBegin PROVE Inv'
<1>1. \A d \in DrainType :
         LET e == [d EXCEPT !.pc = "next", !.todo = Archives \ mailed]
         IN  /\ e \in DrainType /\ e.pc = "next"
             /\ e.imported = d.imported /\ e.deferred = d.deferred
  BY Zenon DEF DrainType
<1>2. /\ drain' \in DrainType /\ drain'.pc = "next" /\ drain'.imported = 0
      /\ drain'.deferred = FALSE
  BY <1>1, NoDrainType DEF BatchBegin
<1>3. UNCHANGED <<changes, web, mailed, requested, running, shown, asked, excused, told>>
      /\ drain.pc = "idle"
  BY DEF BatchBegin
<1>4. drain.imported = 0 /\ ~drain.deferred
  BY <1>3 DEF Inv, PingerHolds
<1>5. PingerHolds' /\ TellsOnlyWhatIsAsked'
  BY <1>2, <1>3, <1>4 DEF Inv, TypeOK, PingerHolds, TellsOnlyWhatIsAsked
<1> QED
  BY <1>2, <1>3, <1>4, <1>5, DrainKeeps, BoundsAssumption DEF Inv, TypeOK

LEMMA OpenKeeps == ASSUME Inv, NEW a \in Archives, Open(a) PROVE Inv'
<1>1. \A d \in DrainType :
         LET e == [d EXCEPT !.pc = "members", !.todo = @ \ {a}, !.archive = {a}]
         IN  /\ e \in DrainType /\ e.pc = "members"
             /\ e.imported = d.imported /\ e.deferred = d.deferred
  BY Zenon DEF DrainType
<1>2. \A d \in DrainType :
         LET e == [d EXCEPT !.todo = @ \ {a}]
         IN  /\ e \in DrainType /\ e.pc = d.pc
             /\ e.imported = d.imported /\ e.deferred = d.deferred
  BY Zenon DEF DrainType
<1>3. /\ drain' \in DrainType /\ drain'.pc \in {"members", "next"}
      /\ drain'.imported = drain.imported /\ drain'.deferred = drain.deferred
  <2>1. drain \in DrainType /\ drain.pc = "next"
    BY DEF Open, Inv, TypeOK, DrainType
  <2> QED
    BY <1>1, <1>2, <2>1 DEF Open
<1>4. UNCHANGED <<changes, web, mailed, requested, running, shown, asked, excused, told>>
      /\ drain.pc = "next"
  BY DEF Open
<1>5. PingerHolds' /\ TellsOnlyWhatIsAsked'
  BY <1>3, <1>4 DEF Inv, TypeOK, PingerHolds, TellsOnlyWhatIsAsked
<1>6. drain.imported = 0
  BY <1>4 DEF Inv, PingerHolds
<1> QED
  BY <1>3, <1>4, <1>5, <1>6, DrainKeeps, BoundsAssumption DEF Inv, TypeOK

(* _ping, while an archive is open, which it was already or has just been. *)
LEMMA PingKeeps ==
    ASSUME Inv, NEW label \in {"member", "mailing"}, Ping(label),
           UNCHANGED <<changes, web, mailed, running, shown, told>>
    PROVE  Inv'
<1>1. \A d \in DrainType :
         /\ LET e == [d EXCEPT !.pc = label, !.deferred = FALSE, !.since = 0]
            IN  /\ e.pc = label /\ e.imported = d.imported /\ e.deferred = FALSE
                /\ 0 \in 0..Reping => e \in DrainType
         /\ LET e == [d EXCEPT !.pc = label, !.deferred = TRUE, !.retry = RetryAfter]
            IN  /\ e.pc = label /\ e.imported = d.imported /\ e.deferred = TRUE
                /\ RetryAfter \in 0..RetryAfter => e \in DrainType
  BY Zenon DEF DrainType
<1>2. 0 \in 0..Reping /\ RetryAfter \in 0..RetryAfter
  BY DelaysAssumption
<1>3. drain \in DrainType
  BY DEF Inv, TypeOK, DrainType
<1>4. /\ drain' \in DrainType /\ drain'.pc = label /\ drain'.imported = drain.imported
      /\ (Accepted /\ ~drain'.deferred) \/ (Refused /\ drain'.deferred)
      /\ UNCHANGED excused
  BY <1>1, <1>2, <1>3 DEF Ping
<1>5. /\ requested' \in 0..MaxRequests /\ asked' \in 0..changes
      /\ Accepted => requested' > 0 /\ asked' = changes
      /\ Refused => requested' = requested /\ asked' = asked
  BY <1>4, RequestType DEF Inv
<1>6. PingerHolds' /\ TellsOnlyWhatIsAsked'
  BY <1>3, <1>4, <1>5 DEF Inv, TypeOK, PingerHolds, TellsOnlyWhatIsAsked
<1> QED
  BY <1>4, <1>5, <1>6, DrainKeeps DEF Inv, TypeOK

LEMMA TickMemberKeeps == ASSUME Inv, TickMember PROVE Inv'
<1>1. CASE Ping("member")
  BY <1>1, PingKeeps DEF TickMember
<1>2. CASE /\ drain' = [drain EXCEPT !.pc = "member"]
           /\ UNCHANGED <<requested, asked, excused>>
  <2>1. /\ drain' \in DrainType /\ drain'.pc = "member"
        /\ drain'.imported = drain.imported /\ drain'.deferred = drain.deferred
    BY <1>2 DEF Inv, TypeOK, DrainType
  <2>2. drain.pc = "members"
        /\ UNCHANGED <<changes, web, mailed, requested, running, shown, asked, excused, told>>
    BY <1>2 DEF TickMember
  <2>3. PingerHolds' /\ TellsOnlyWhatIsAsked'
    BY <2>1, <2>2 DEF Inv, TypeOK, PingerHolds, TellsOnlyWhatIsAsked
  <2> QED
    BY <2>1, <2>2, <2>3, DrainKeeps DEF Inv, TypeOK
<1> QED
  BY <1>1, <1>2 DEF TickMember

LEMMA ArchiveFinishedKeeps == ASSUME Inv, ArchiveFinished PROVE Inv'
<1>1. CASE Ping("mailing")
  BY <1>1, PingKeeps DEF ArchiveFinished
<1>2. CASE /\ drain' = [drain EXCEPT !.pc = "mailing", !.deferred = @ \/ drain.imported > 0]
           /\ UNCHANGED <<requested, asked, excused>>
  <2>1. \A d \in DrainType : \A b \in BOOLEAN :
           LET e == [d EXCEPT !.pc = "mailing", !.deferred = @ \/ b]
           IN  /\ e \in DrainType /\ e.pc = "mailing" /\ e.imported = d.imported
               /\ e.deferred = (d.deferred \/ b)
    BY Zenon DEF DrainType
  <2>2. drain \in DrainType /\ (drain.imported > 0) \in BOOLEAN
    BY DEF Inv, TypeOK, DrainType
  <2>3. /\ drain' \in DrainType /\ drain'.pc = "mailing" /\ drain'.imported = drain.imported
        /\ drain'.deferred = (drain.deferred \/ drain.imported > 0)
    BY <1>2, <2>1, <2>2
  <2>4. drain.pc = "members"
        /\ UNCHANGED <<changes, web, mailed, requested, running, shown, asked, excused, told>>
    BY <1>2 DEF ArchiveFinished
  <2>5. PingerHolds' /\ TellsOnlyWhatIsAsked'
    BY <2>2, <2>3, <2>4 DEF Inv, TypeOK, PingerHolds, TellsOnlyWhatIsAsked, DrainType
  <2>6. drain.deferred \in BOOLEAN
    BY <2>2 DEF DrainType
  <2> QED
    BY <2>3, <2>4, <2>5, <2>6, DrainKeeps DEF Inv, TypeOK
<1> QED
  BY <1>1, <1>2 DEF ArchiveFinished

LEMMA MemberKeeps == ASSUME Inv, Member PROVE Inv'
<1> USE BoundsAssumption
<1>0. /\ drain \in DrainType /\ drain.pc = "member"
      /\ UNCHANGED <<web, mailed, requested, running, shown, asked, excused, told>>
  BY DEF Inv, TypeOK, DrainType, Member
<1>1. CASE drain' = [drain EXCEPT !.pc = "members"] /\ UNCHANGED changes
  <2>1. /\ drain' \in DrainType /\ drain'.pc = "members"
        /\ drain'.imported = drain.imported /\ drain'.deferred = drain.deferred
    BY <1>0, <1>1 DEF DrainType
  <2>2. PingerHolds' /\ TellsOnlyWhatIsAsked'
    BY <1>0, <1>1, <2>1 DEF Inv, TypeOK, PingerHolds, TellsOnlyWhatIsAsked
  <2> QED
    BY <1>0, <1>1, <2>1, <2>2, DrainKeeps DEF Inv, TypeOK
<1>2. CASE Commit /\ drain' = [drain EXCEPT !.pc = "members", !.imported = changes + 1]
  <2>1. \A d \in DrainType, n \in 0..MaxChanges :
           LET e == [d EXCEPT !.pc = "members", !.imported = n]
           IN  /\ e \in DrainType /\ e.pc = "members" /\ e.imported = n
               /\ e.deferred = d.deferred
    BY Zenon DEF DrainType
  <2>2. changes < MaxChanges /\ changes' = changes + 1 /\ changes + 1 \in 0..MaxChanges
    BY <1>2 DEF Commit, Inv, TypeOK
  <2>3. /\ drain' \in DrainType /\ drain'.pc = "members"
        /\ drain'.imported = changes + 1 /\ drain'.deferred = drain.deferred
    BY <1>0, <1>2, <2>1, <2>2
  <2>4. TypeOK'
    <3>1. running' \subseteq 0..changes' /\ excused' \subseteq 1..changes'
      BY <1>0, <2>2 DEF Inv, TypeOK
    <3> QED
      BY <1>0, <2>2, <2>3, <3>1 DEF Inv, TypeOK, DrainType
  <2>5. RequestsCarry' /\ WebHolds' /\ PingerHolds' /\ TellsOnlyWhatIsAsked'
    BY <1>0, <2>2, <2>3 DEF Inv, TypeOK, RequestsCarry, WebHolds, PingerHolds,
       TellsOnlyWhatIsAsked
  <2>6. SomebodyHolds'
    BY <1>0, <2>2, <2>3 DEF Inv, TypeOK, SomebodyHolds, DrainType
  <2> QED
    BY <2>4, <2>5, <2>6 DEF Inv
<1> QED
  BY <1>1, <1>2 DEF Member

LEMMA MailArchiveKeeps == ASSUME Inv, MailArchive PROVE Inv'
<1>1. \A d \in DrainType :
         LET e == [d EXCEPT !.pc = "next", !.archive = {}, !.imported = 0]
         IN  /\ e.pc = "next" /\ e.imported = 0 /\ e.deferred = d.deferred
             /\ 0 \in 0..MaxChanges => e \in DrainType
  BY Zenon DEF DrainType
<1>2. drain \in DrainType /\ 0 \in 0..MaxChanges
  BY BoundsAssumption DEF Inv, TypeOK, DrainType
<1>3. /\ drain' \in DrainType /\ drain'.pc = "next" /\ drain'.imported = 0
      /\ drain'.deferred = drain.deferred
  BY <1>1, <1>2 DEF MailArchive
<1>4. /\ UNCHANGED <<changes, web, requested, running, shown, asked, excused>>
      /\ drain.pc = "mailing" /\ told' = Larger(told, drain.imported)
      /\ mailed' \subseteq Archives
  BY <1>2 DEF MailArchive, Inv, TypeOK, DrainType
<1>5. drain.imported > 0 => drain.deferred \/ drain.imported <= asked
  BY <1>4 DEF Inv, PingerHolds
<1>6. told' \in 0..changes
  BY <1>2, <1>4 DEF Larger, Inv, TypeOK, DrainType
<1>7. PingerHolds' /\ TellsOnlyWhatIsAsked'
  BY <1>2, <1>3, <1>4, <1>5 DEF Larger, Inv, TypeOK, PingerHolds, TellsOnlyWhatIsAsked,
     DrainType
<1>8. drain.deferred \/ drain.imported <= asked
  BY <1>2, <1>5 DEF Inv, TypeOK, DrainType
<1> QED
  BY <1>2, <1>3, <1>4, <1>6, <1>7, <1>8, DrainKeeps, BoundsAssumption
     DEF Inv, TypeOK, DrainType

(* The drain ends, by its last ping or by a kill: what it held has been asked  *)
(* for or is excused.                                                          *)
LEMMA DrainGoneKeeps ==
    ASSUME Inv, drain' = NoDrain,
           UNCHANGED <<changes, web, mailed, running, shown, told>>,
           \/ Accepted /\ UNCHANGED excused
           \/ Refused /\ Excuse(Forgotten)
           \/ Refused /\ UNCHANGED excused /\ ~drain.deferred /\ drain.imported = 0
    PROVE  Inv'
<1> USE BoundsAssumption, DelaysAssumption
<1>1. /\ requested' \in 0..MaxRequests /\ asked' \in 0..changes
      /\ Accepted => requested' > 0 /\ asked' = changes
      /\ Refused => requested' = requested /\ asked' = asked
  BY RequestType DEF Inv
<1>2. excused \subseteq excused' /\ excused' \subseteq 1..changes
  <2>1. excused \subseteq 1..changes /\ asked + 1..changes \subseteq 1..changes
    BY DEF Inv, TypeOK
  <2>2. excused' = excused \/ excused' = excused \cup (asked + 1..changes)
    BY DEF Excuse, Forgotten
  <2> QED
    BY <2>1, <2>2
<1>3. \/ asked' = changes /\ requested' > 0
      \/ /\ asked' = asked /\ requested' = requested
         /\ \/ asked + 1..changes \subseteq excused'
            \/ ~drain.deferred /\ drain.imported = 0
  BY <1>1 DEF Excuse, Forgotten
<1>4. TypeOK'
  BY <1>1, <1>2, NoDrainType DEF Inv, TypeOK, DrainType
<1>5. RequestsCarry' /\ WebHolds' /\ PingerHolds'
  BY <1>2, <1>3, NoDrainType DEF Inv, TypeOK, RequestsCarry, WebHolds, PingerHolds
<1>6. SomebodyHolds'
  <2>1. CASE asked' = changes
    BY <2>1 DEF Inv, TypeOK, SomebodyHolds
  <2>2. CASE asked' = asked /\ asked + 1..changes \subseteq excused'
    BY <2>2 DEF SomebodyHolds
  <2>3. CASE asked' = asked /\ ~drain.deferred /\ drain.imported = 0
    BY <1>2, <2>3, NoDrainType DEF Inv, TypeOK, SomebodyHolds
  <2> QED
    BY <1>3, <2>1, <2>2, <2>3
<1>7. TellsOnlyWhatIsAsked'
  BY <1>2, <1>3, NoDrainType DEF Inv, TypeOK, TellsOnlyWhatIsAsked
<1> QED
  BY <1>4, <1>5, <1>6, <1>7 DEF Inv

LEMMA BatchEndKeeps == ASSUME Inv, BatchEnd PROVE Inv'
<1>1. drain.imported = 0
  BY DEF BatchEnd, Inv, PingerHolds
<1> QED
  BY <1>1, DrainGoneKeeps DEF BatchEnd

LEMMA KillKeeps == ASSUME Inv, Kill PROVE Inv'
<1>1. Refused /\ drain' = NoDrain
      /\ UNCHANGED <<changes, web, mailed, running, shown, told>>
  BY DEF Kill, Refused
<1>2. CASE Excuse(Forgotten)
  BY <1>1, <1>2, DrainGoneKeeps
<1>3. CASE ~drain.deferred /\ ~(drain.imported > 0) /\ Excuse({})
  <2>1. excused' = excused /\ drain.imported = 0
    BY <1>3 DEF Excuse, Inv, TypeOK
  <2> QED
    BY <1>1, <1>3, <2>1, DrainGoneKeeps
<1> QED
  BY <1>2, <1>3 DEF Kill

LEMMA DrainInv == ASSUME Inv, Drain PROVE Inv'
BY BatchBeginKeeps, OpenKeeps, TickMemberKeeps, MemberKeeps, ArchiveFinishedKeeps,
   MailArchiveKeeps, BatchEndKeeps, KillKeeps DEF Drain

LEMMA BuildKeeps == ASSUME Inv, Build PROVE Inv'
<1> USE BoundsAssumption
<1>1. UNCHANGED <<changes, web, drain, mailed, asked, told>>
  BY DEF Build, Export, Publish, BuildDies
<1> DEFINE Grown ==
         /\ requested' \in 0..MaxRequests /\ running' \subseteq 0..changes
         /\ shown' \in 0..changes /\ excused' \subseteq 1..changes
         /\ shown <= shown' /\ excused \subseteq excused'
<1>2. Grown
  <2>1. CASE Export
    BY <2>1 DEF Export, Inv, TypeOK
  <2>2. ASSUME NEW n \in running, Publish(n) PROVE Grown
    BY <2>2 DEF Publish, Larger, Inv, TypeOK
  <2>3. ASSUME NEW n \in running, BuildDies(n) PROVE Grown
    <3>1. n \in 0..changes /\ changes \in Nat
      BY DEF Inv, TypeOK
    <3>2. 1..n \subseteq 1..changes
      BY <3>1
    <3> QED
      BY <2>3, <3>2 DEF BuildDies, Excuse, Inv, TypeOK
  <2> QED
    BY <2>1, <2>2, <2>3 DEF Build
<1>3. TypeOK'
  BY <1>1, <1>2 DEF Inv, TypeOK
<1>4. RequestsCarry'
  <2> DEFINE Carried(n) == \/ n <= shown' \/ n \in excused' \/ requested' > 0
                           \/ \E m \in running' : n <= m
  <2> SUFFICES ASSUME NEW n \in 1..asked PROVE Carried(n)
    BY <1>1 DEF RequestsCarry
  <2>0. n \in 1..changes /\ shown \in Nat /\ shown' \in Nat /\ running \subseteq Nat
    BY <1>2 DEF Inv, TypeOK
  <2>1. CASE Export
    BY <2>0, <2>1 DEF Export, Inv, RequestsCarry, TypeOK
  <2>2. ASSUME NEW k \in running, Publish(k) PROVE Carried(n)
    BY <2>0, <2>2 DEF Publish, Larger, Inv, RequestsCarry
  <2>3. ASSUME NEW k \in running, BuildDies(k) PROVE Carried(n)
    BY <2>0, <2>3 DEF BuildDies, Excuse, Inv, RequestsCarry
  <2> QED
    BY <2>1, <2>2, <2>3 DEF Build
<1>5. SomebodyHolds' /\ WebHolds' /\ PingerHolds' /\ TellsOnlyWhatIsAsked'
  BY <1>1, <1>2 DEF Inv, SomebodyHolds, WebHolds, PingerHolds, TellsOnlyWhatIsAsked
<1> QED
  BY <1>3, <1>4, <1>5 DEF Inv

LEMMA WeeklyKeeps == ASSUME Inv, Weekly PROVE Inv'
<1>1. /\ requested' \in 0..MaxRequests /\ requested' > 0 /\ asked' = changes
      /\ UNCHANGED <<changes, web, drain, mailed, running, shown, excused, told>>
  BY RequestType DEF Inv, Weekly
<1> QED
  BY <1>1 DEF Inv, TypeOK, RequestsCarry, SomebodyHolds, WebHolds, PingerHolds,
     TellsOnlyWhatIsAsked

LEMMA TickKeeps == ASSUME Inv, Tick PROVE Inv'
<1> USE BoundsAssumption, DelaysAssumption
<1>1. \A b \in Nat : \A n \in 0..b : UpTo(n, b) \in 0..b
  BY DEF UpTo
<1>2. /\ web' \in [Instances -> WebType]
      /\ \A i \in Instances : web'[i].pc = web[i].pc /\ web'[i].change = web[i].change
  BY <1>1 DEF Tick, Inv, TypeOK, WebType
<1>3. /\ drain' \in DrainType /\ drain'.pc = drain.pc
      /\ drain'.imported = drain.imported /\ drain'.deferred = drain.deferred
  <2>1. \A d \in DrainType, s \in 0..Reping, n \in 0..RetryAfter :
           LET e == [d EXCEPT !.since = s, !.retry = n]
           IN  /\ e \in DrainType /\ e.pc = d.pc
               /\ e.imported = d.imported /\ e.deferred = d.deferred
    BY Zenon DEF DrainType
  <2>2. drain \in DrainType
    BY DEF Inv, TypeOK, DrainType
  <2>3. UpTo(drain.since, Reping) \in 0..Reping
    BY <1>1, <2>2 DEF DrainType
  <2>4. (IF drain.retry = 0 THEN 0 ELSE drain.retry - 1) \in 0..RetryAfter
    BY <2>2 DEF DrainType
  <2>5. drain' = [drain EXCEPT !.since = UpTo(drain.since, Reping),
                               !.retry = IF drain.retry = 0 THEN 0 ELSE drain.retry - 1]
    BY DEF Tick
  <2> QED
    BY <2>1, <2>2, <2>3, <2>4, <2>5
<1>4. UNCHANGED <<changes, mailed, requested, running, shown, asked, excused, told>>
  BY DEF Tick
<1>5. TypeOK'
  BY <1>2, <1>3, <1>4 DEF Inv, TypeOK, WebType, DrainType
<1>6. RequestsCarry' /\ SomebodyHolds' /\ WebHolds' /\ PingerHolds' /\ TellsOnlyWhatIsAsked'
  BY <1>2, <1>3, <1>4 DEF Inv, RequestsCarry, SomebodyHolds, WebHolds, PingerHolds,
     TellsOnlyWhatIsAsked
<1> QED
  BY <1>5, <1>6 DEF Inv

THEOREM InvHolds == Spec => []Inv
<1>1. Inv /\ [Next]_vars => Inv'
  <2>1. ASSUME Inv, Next PROVE Inv'
    BY <2>1, WebKeeps, WebhookKeeps, DrainInv, BuildKeeps, WeeklyKeeps, TickKeeps DEF Next
  <2>2. ASSUME Inv, UNCHANGED vars PROVE Inv'
    BY <2>2 DEF vars, Inv, TypeOK, RequestsCarry, SomebodyHolds, WebHolds, PingerHolds,
       TellsOnlyWhatIsAsked
  <2> QED
    BY <2>1, <2>2
<1> QED
  BY InitInv, <1>1, PTL DEF Spec

(* The state has its types, for any number of web processes and archives and  *)
(* all windows.                                                               *)
THEOREM TypeCorrect == Spec => []TypeOK
<1>1. Inv => TypeOK
  BY DEF Inv
<1> QED
  BY InvHolds, <1>1, PTL

(* When nobody is at work, every change the map does not show is one whose    *)
(* trigger was suppressed, refused, killed or never meant to be sent: between *)
(* the debounce of the web processes, the pinger's window and the builds, no  *)
(* change is forgotten for any other reason.                                  *)
THEOREM StaleForAReason == Spec => []StaleMapHasReason
<1>1. Inv => StaleMapHasReason
  <2> SUFFICES ASSUME Inv, \A i \in Instances : web[i].pc = "idle",
                      drain.pc = "idle", requested = 0, running = {},
                      NEW n \in shown + 1..changes
      PROVE n \in excused
    BY DEF StaleMapHasReason
  <2>1. n \in Nat /\ shown < n /\ 0 < n /\ n <= changes /\ asked \in Nat /\ ~(n <= shown)
    BY DEF Inv, TypeOK
  <2>2. CASE n <= asked
    BY <2>1, <2>2 DEF Inv, RequestsCarry
  <2>3. CASE ~(n <= asked)
    <3>1. n \in asked + 1..changes
      BY <2>1, <2>3 DEF Inv, TypeOK
    <3>2. ~drain.deferred /\ ~(n <= drain.imported)
      BY <2>1 DEF Inv, PingerHolds
    <3> QED
      BY <3>1, <3>2 DEF Inv, SomebodyHolds
  <2> QED
    BY <2>2, <2>3
<1> QED
  BY InvHolds, <1>1, PTL

(* What a request was accepted for reaches the map or is under way, unless   *)
(* the build died, for any number of builds that overlap.                    *)
THEOREM AcceptedIsCarried == Spec => []RequestsCarry
<1>1. Inv => RequestsCarry
  BY DEF Inv
<1> QED
  BY InvHolds, <1>1, PTL

(* No owner is told that an archive will be on the map unless the build has   *)
(* been asked for, the pinger still holds the ping, or the ping was refused   *)
(* at the end of the batch or lost with the drain.                            *)
THEOREM OwnersToldTruth == Spec => []TellsOnlyWhatIsAsked
<1>1. Inv => TellsOnlyWhatIsAsked
  BY DEF Inv
<1> QED
  BY InvHolds, <1>1, PTL
=============================================================================
