------------------------- MODULE StravaTokenProofs -------------------------
(* Theorems of StravaToken, for every value of its constants. *)
EXTENDS StravaToken, TLAPS

CallType == [pc : PCs, row : Nat, token : 0..MaxTokens, failures : Nat, tries : 0..1]
AcctType == [id : Nat, refresh : 0..MaxTokens, fresh : BOOLEAN, failures : Nat]

(* A refresh holds the lock from its read of the row to its write. *)
Locked == \A c \in Callers : call[c].pc \in {"posting", "saving"} => lock = c

(* A caller that has no row loaded. *)
Away == {"idle", "leaving"}

(* Rows are numbered; one that was deleted never comes back. *)
Numbered ==
    /\ \A c \in Callers : call[c].row <= rows /\ (call[c].pc \notin Away => call[c].row # 0)
    /\ acct.id = 0 => acct.failures = 0

(* What a caller has loaded of the failures is behind the rejections, by one more *)
(* when its own rejection is not yet written.                                     *)
Counted ==
    \A c \in Callers : call[c].pc \notin Away /\ call[c].row = acct.id =>
        /\ call[c].failures <= rejected
        /\ call[c].pc = "rejecting" => call[c].failures + 1 <= rejected
        /\ call[c].pc = "telling" => rejected >= Threshold

(* While nothing has slipped: the callback meets no refresh, and the refresh   *)
(* under way has read, or has got from Strava, the token that is current.      *)
CallbackAlone ==
    slips = {} /\ callback # 0 =>
        /\ callback = strava.current
        /\ \A c \in Callers : call[c].pc \notin {"posting", "saving"}
RefreshCurrent ==
    \A c \in Callers : slips = {} /\ acct.id # 0 /\ call[c].pc \in {"posting", "saving"} =>
        /\ call[c].row = acct.id
        /\ Granted => call[c].token = strava.current
        /\ Granted /\ call[c].pc = "posting" => acct.refresh = strava.current

Inv == /\ TypeOK /\ Locked /\ Numbered /\ Counted /\ CallbackAlone /\ RefreshCurrent
       /\ StoredTokenLives /\ FailuresAreRejections

-----------------------------------------------------------------------------
(* The two ways to rewrite the whole record of a caller *)

LEMMA IdleType == Idle \in CallType /\ Idle.pc = "idle" /\ Idle.row = 0
BY BoundsAssumption DEF Idle, CallType, PCs

LEMMA EndCall ==
    ASSUME TypeOK, NEW c \in Callers, call' = [call EXCEPT ![c] = Idle]
    PROVE  /\ call' \in [Callers -> CallType] /\ call'[c].pc = "idle" /\ call'[c].row = 0
           /\ \A d \in Callers : d # c => call'[d] = call[d]
BY IdleType DEF TypeOK, CallType

LEMMA QuitCall ==
    ASSUME TypeOK, NEW c \in Callers, End(c) \/ Quit(c)
    PROVE  /\ call' \in [Callers -> CallType] /\ call'[c].pc \in Away /\ call'[c].row = 0
           /\ \A d \in Callers : d # c => call'[d] = call[d]
           /\ \/ call'[c].pc = "idle" /\ Free(c)
              \/ call'[c].pc = "leaving" /\ lock' = c
<1> DEFINE rec == [Idle EXCEPT !.pc = "leaving"]
<1>1. rec \in CallType /\ rec.pc = "leaving" /\ rec.row = 0
  BY BoundsAssumption DEF Idle, CallType, PCs
<1> HIDE DEF rec
<1>2. CASE End(c)
  <2>1. call' = [call EXCEPT ![c] = Idle] /\ Free(c)
    BY <1>2 DEF End
  <2> QED
    BY <2>1, EndCall DEF Away
<1>3. CASE call' = [call EXCEPT ![c] = rec] /\ lock' = c
  <2>1. call \in [Callers -> CallType]
    BY DEF TypeOK, CallType
  <2> QED
    BY <1>1, <1>3, <2>1 DEF Away
<1> QED
  BY <1>2, <1>3 DEF Quit, rec

LEMMA LoadedCall ==
    ASSUME TypeOK, NEW c \in Callers, NEW label \in PCs, Loaded(c, label)
    PROVE  /\ call' \in [Callers -> CallType] /\ call'[c].pc = label
           /\ call'[c].row = acct.id /\ call'[c].token = acct.refresh
           /\ call'[c].failures = acct.failures
           /\ \A d \in Callers : d # c => call'[d] = call[d]
<1>1. call \in [Callers -> CallType] /\ acct.id \in Nat /\ acct.refresh \in 0..MaxTokens
      /\ acct.failures \in Nat
  BY DEF TypeOK, CallType, AcctType
<1>2. call[c] \in CallType
  BY <1>1
<1>3. call'[c] = [call[c] EXCEPT !.pc = label, !.row = acct.id, !.token = acct.refresh,
                                 !.failures = acct.failures]
      /\ \A d \in Callers : d # c => call'[d] = call[d]
  BY <1>1 DEF Loaded
<1>4. call' = [call EXCEPT ![c] = call'[c]]
  BY <1>1, <1>3 DEF Loaded
<1>5. /\ call'[c] \in CallType /\ call'[c].pc = label /\ call'[c].row = acct.id
      /\ call'[c].token = acct.refresh /\ call'[c].failures = acct.failures
  BY <1>1, <1>2, <1>3, Zenon DEF CallType
<1> QED
  BY <1>1, <1>3, <1>4, <1>5

LEMMA MovedCall ==
    ASSUME TypeOK, NEW c \in Callers, NEW label \in PCs,
           call' = [call EXCEPT ![c].pc = label]
    PROVE  /\ call' \in [Callers -> CallType] /\ call'[c].pc = label
           /\ call'[c].row = call[c].row /\ call'[c].token = call[c].token
           /\ call'[c].failures = call[c].failures
           /\ \A d \in Callers : d # c => call'[d] = call[d]
BY DEF TypeOK, CallType

LEMMA InitInv == Init => Inv
<1> SUFFICES ASSUME Init PROVE Inv
  OBVIOUS
<1>1. TypeOK
  <2>1. NoRow \in AcctType /\ NoRow.id = 0
    BY BoundsAssumption DEF NoRow, AcctType
  <2>2. strava \in [current : 0..MaxTokens, since : 1..MaxTokens + 1]
    BY BoundsAssumption DEF Init
  <2>3. call \in [Callers -> CallType]
    BY IdleType DEF Init
  <2>4. acct \in AcctType /\ acct.id \in 0..rows /\ rows \in Nat /\ callback \in 0..MaxTokens
    BY <2>1, BoundsAssumption DEF Init
  <2>5. lock = NoCaller /\ deauth \in BOOLEAN /\ rejected \in Nat /\ notices \in Nat /\ slips = {}
    BY DEF Init
  <2> QED
    BY <2>2, <2>3, <2>4, <2>5, BoundsAssumption DEF TypeOK, CallType, AcctType
<1>2. Locked /\ Numbered /\ Counted /\ CallbackAlone /\ RefreshCurrent
  BY IdleType DEF Away, Init, Locked, Numbered, Counted, CallbackAlone, RefreshCurrent, NoRow
<1>3. StoredTokenLives /\ FailuresAreRejections
  BY DEF Init, StoredTokenLives, FailuresAreRejections, NoRow
<1> QED
  BY <1>1, <1>2, <1>3 DEF Inv

-----------------------------------------------------------------------------

(* The types, the row numbers and the counts under a step of one caller. *)
LEMMA CallerFrame ==
    ASSUME Inv, NEW c \in Callers,
           UNCHANGED <<rows, callback, deauth>>,
           strava' \in [current : 0..MaxTokens, since : 1..MaxTokens + 1],
           slips' \subseteq {"lost", "overlap"},
           call' \in [Callers -> CallType],
           \A d \in Callers : d # c => call'[d] = call[d],
           lock' = lock \/ (lock' = NoCaller /\ lock = c)
              \/ (lock = NoCaller /\ lock' = c),
           lock' = c => call'[c].pc \in {"posting", "saving", "rejecting", "using", "leaving"},
           call'[c].row \in {call[c].row, acct.id, 0},
           call'[c].pc \notin Away => call'[c].row # 0,
           acct' \in AcctType, acct'.id = acct.id,
           acct'.id = 0 => acct'.failures = 0,
           rejected' \in Nat, rejected' >= rejected, notices' \in Nat,
           call'[c].pc \notin Away /\ call'[c].row = acct.id =>
               /\ call'[c].failures <= rejected'
               /\ call'[c].pc = "rejecting" => call'[c].failures + 1 <= rejected'
               /\ call'[c].pc = "telling" => rejected' >= Threshold
    PROVE  TypeOK' /\ Numbered' /\ Counted'
<1> USE CallersAssumption
<1>1. TypeOK'
  BY DEF Inv, TypeOK, CallType, AcctType
<1>2. Numbered'
  <2>1. call'[c].row <= rows
    BY DEF Away, Inv, Numbered, TypeOK
  <2> QED
    BY <2>1 DEF Away, Inv, Numbered
<1>3. Counted'
  <2> SUFFICES ASSUME NEW d \in Callers, call'[d].pc \notin Away, call'[d].row = acct'.id
      PROVE /\ call'[d].failures <= rejected'
            /\ call'[d].pc = "rejecting" => call'[d].failures + 1 <= rejected'
            /\ call'[d].pc = "telling" => rejected' >= Threshold
    BY DEF Away, Counted
  <2>1. CASE d = c
    BY <2>1
  <2>2. CASE d # c
    <3>1. call'[d] = call[d] /\ call[d].failures \in Nat /\ rejected \in Nat
          /\ Threshold \in Nat
      BY <2>2, BoundsAssumption DEF Inv, TypeOK, CallType
    <3>2. /\ call[d].failures <= rejected
          /\ call[d].pc = "rejecting" => call[d].failures + 1 <= rejected
          /\ call[d].pc = "telling" => rejected >= Threshold
      BY <3>1 DEF Away, Inv, Counted
    <3> QED
      BY <3>1, <3>2
  <2> QED
    BY <2>1, <2>2
<1> QED
  BY <1>1, <1>2, <1>3

(* A step of a caller outside the critical section, before and after. *)
LEMMA OutsideKeeps ==
    ASSUME Inv, NEW c \in Callers,
           UNCHANGED <<rows, strava, callback, deauth>>, slips' = slips,
           call' \in [Callers -> CallType],
           \A d \in Callers : d # c => call'[d] = call[d],
           call[c].pc \notin {"posting", "saving"},
           call'[c].pc \notin {"posting", "saving"},
           lock' = lock \/ (lock' = NoCaller /\ lock = c)
              \/ (lock = NoCaller /\ lock' = c),
           lock' = c => call'[c].pc \in {"rejecting", "using", "leaving"},
           call'[c].row \in {call[c].row, acct.id, 0},
           call'[c].pc \notin Away => call'[c].row # 0,
           acct' \in AcctType, acct'.id = acct.id, acct'.refresh = acct.refresh,
           acct'.id = 0 => acct'.failures = 0,
           rejected' \in Nat, rejected' >= rejected, notices' \in Nat,
           call'[c].pc \notin Away /\ call'[c].row = acct.id =>
               /\ call'[c].failures <= rejected'
               /\ call'[c].pc = "rejecting" => call'[c].failures + 1 <= rejected'
               /\ call'[c].pc = "telling" => rejected' >= Threshold,
           FailuresAreRejections'
    PROVE  Inv'
<1>1. TypeOK' /\ Numbered' /\ Counted'
  <2>1. /\ strava' \in [current : 0..MaxTokens, since : 1..MaxTokens + 1]
        /\ slips' \subseteq {"lost", "overlap"}
    BY DEF Inv, TypeOK
  <2> QED
    BY <2>1, CallerFrame
<1>2. Locked'
  BY CallersAssumption DEF Inv, Locked
<1>3. CallbackAlone'
  BY DEF Inv, CallbackAlone
<1>4. RefreshCurrent'
  BY DEF Inv, RefreshCurrent, Granted
<1>5. StoredTokenLives'
  <2>1. Refreshing' = {} => Refreshing = {}
    BY DEF Refreshing
  <2> QED
    BY <2>1 DEF Inv, StoredTokenLives, Granted
<1> QED
  BY <1>1, <1>2, <1>3, <1>4, <1>5 DEF Inv

LEMMA Facts ==
    ASSUME Inv
    PROVE  /\ acct \in AcctType /\ acct.id \in Nat /\ acct.failures \in Nat /\ rejected \in Nat
           /\ notices \in Nat /\ acct.failures <= rejected
           /\ acct.id = 0 => acct.failures = 0
           /\ acct.id # 0 /\ notices > 0 => rejected >= Threshold
           /\ \A c \in Callers : call[c] \in CallType /\ call[c].row \in Nat
                                 /\ call[c].failures \in Nat
           /\ \A c \in Callers : lock = c =>
                 call[c].pc \in {"posting", "saving", "rejecting", "using", "leaving"}
           /\ Threshold \in Nat \ {0}
BY CallersAssumption, BoundsAssumption
   DEF Away, Inv, TypeOK, AcctType, CallType, Numbered, FailuresAreRejections

LEMMA EnterKeeps == ASSUME Inv, NEW c \in Callers, Enter(c) PROVE Inv'
<1>1. \A label \in {"using", "locking"} : label \in PCs
  BY DEF PCs
<1>2. PICK label \in {"using", "locking"} : Loaded(c, label)
  BY DEF Enter
<1>3. /\ call' \in [Callers -> CallType] /\ call'[c].pc = label
      /\ call'[c].row = acct.id /\ call'[c].failures = acct.failures
      /\ \A d \in Callers : d # c => call'[d] = call[d]
  BY <1>1, <1>2, LoadedCall DEF Inv
<1>4. /\ UNCHANGED <<acct, rows, strava, lock, callback, deauth, rejected, notices, slips>>
      /\ call[c].pc = "idle" /\ acct.id # 0 /\ lock # c
  BY Facts DEF Enter
<1>5. FailuresAreRejections'
  BY <1>4 DEF Inv, FailuresAreRejections
<1> QED
  BY <1>3, <1>4, <1>5, Facts, OutsideKeeps

LEMMA BusyKeeps == ASSUME Inv, NEW c \in Callers, Busy(c) PROVE Inv'
<1>1. /\ UNCHANGED <<acct, rows, strava, callback, deauth, rejected, notices, slips>>
      /\ call[c].pc = "locking" /\ lock # c
  BY Facts DEF Busy
<1>2. FailuresAreRejections'
  BY <1>1 DEF Inv, FailuresAreRejections
<1>3. CASE End(c)
  <2>1. lock' = lock
    BY <1>1, <1>3 DEF End, Free
  <2>2. /\ call' \in [Callers -> CallType] /\ call'[c].pc = "idle" /\ call'[c].row = 0
        /\ \A d \in Callers : d # c => call'[d] = call[d]
    BY <1>3, EndCall DEF End, Inv
  <2> QED
    BY <1>1, <1>2, <2>1, <2>2, Facts, OutsideKeeps DEF Away
<1>4. CASE ~End(c)
  <2> DEFINE label == IF acct.fresh THEN "using" ELSE "locking"
  <2>1. /\ acct.id = call[c].row /\ lock' = lock
        /\ call' = [call EXCEPT ![c].pc = label, ![c].token = acct.refresh,
                                ![c].failures = acct.failures, ![c].tries = 1]
    BY <1>4 DEF Busy
  <2>2. /\ acct.refresh \in 0..MaxTokens /\ acct.failures \in Nat /\ label \in PCs
        /\ label \in {"using", "locking"} /\ 1 \in 0..1
        /\ call \in [Callers -> CallType] /\ call[c] \in CallType
    BY Facts DEF AcctType, PCs, Inv, TypeOK, CallType
  <2> HIDE DEF label
  <2>3. /\ call'[c] = [call[c] EXCEPT !.pc = label, !.token = acct.refresh,
                                      !.failures = acct.failures, !.tries = 1]
        /\ call' = [call EXCEPT ![c] = call'[c]]
    BY <2>1, <2>2
  <2>4. /\ call'[c] \in CallType /\ call'[c].pc = label /\ call'[c].row = call[c].row
        /\ call'[c].failures = acct.failures
    BY <2>2, <2>3, Zenon DEF CallType
  <2>5. /\ call' \in [Callers -> CallType]
        /\ \A d \in Callers : d # c => call'[d] = call[d]
    BY <2>2, <2>3, <2>4
  <2>6. call[c].row # 0
    BY <1>1 DEF Away, Inv, Numbered
  <2> QED
    BY <1>1, <1>2, <2>1, <2>2, <2>4, <2>5, <2>6, Facts, OutsideKeeps
<1> QED
  BY <1>3, <1>4

LEMMA RecordKeeps == ASSUME Inv, NEW c \in Callers, Record(c) PROVE Inv'
<1>1. /\ UNCHANGED <<rows, strava, callback, deauth, rejected, notices, slips>>
      /\ call[c].pc = "rejecting" /\ Free(c)
  BY DEF Record
<1>2. lock' \in {lock, NoCaller} /\ lock' # c /\ (lock' # lock => lock = c)
  BY <1>1, CallersAssumption DEF Free
<1>3. CASE acct.id # call[c].row
  <2>1. call' = [call EXCEPT ![c] = Idle] /\ acct' = acct
    BY <1>3 DEF Record
  <2>2. /\ call' \in [Callers -> CallType] /\ call'[c].pc = "idle" /\ call'[c].row = 0
        /\ \A d \in Callers : d # c => call'[d] = call[d]
    BY <2>1, EndCall DEF Inv
  <2>3. FailuresAreRejections'
    BY <1>1, <2>1 DEF Inv, FailuresAreRejections
  <2> QED
    BY <1>1, <1>2, <2>1, <2>2, <2>3, Facts, OutsideKeeps DEF Away
<1>4. CASE acct.id = call[c].row
  <2>1. /\ acct' = [acct EXCEPT !.failures = call[c].failures + 1]
        /\ \/ call' = [call EXCEPT ![c].pc = "telling"] /\ call[c].failures + 1 = Threshold
           \/ call' = [call EXCEPT ![c] = Idle]
    BY <1>4 DEF Record
  <2>2. call[c].failures + 1 <= rejected /\ acct.id # 0
    BY <1>1, <1>4 DEF Away, Inv, Counted, Numbered
  <2>3. /\ acct' \in AcctType /\ acct'.id = acct.id /\ acct'.refresh = acct.refresh
        /\ acct'.failures = call[c].failures + 1
    BY <2>1, Facts DEF AcctType
  <2>4. "telling" \in PCs
    BY DEF PCs
  <2>5. /\ call' \in [Callers -> CallType] /\ call'[c].pc \in {"idle", "telling"}
        /\ call'[c].pc = "telling" => call'[c].row = call[c].row
              /\ call'[c].failures = call[c].failures /\ rejected >= Threshold
        /\ call'[c].pc = "idle" => call'[c].row = 0
        /\ \A d \in Callers : d # c => call'[d] = call[d]
    <3>1. CASE call' = [call EXCEPT ![c].pc = "telling"] /\ call[c].failures + 1 = Threshold
      BY <2>2, <2>4, <3>1, MovedCall, Facts DEF Inv
    <3>2. CASE call' = [call EXCEPT ![c] = Idle]
      BY <3>2, EndCall DEF Inv
    <3> QED
      BY <2>1, <3>1, <3>2
  <2>6. FailuresAreRejections'
    BY <1>1, <2>2, <2>3 DEF Inv, FailuresAreRejections
  <2> QED
    BY <1>1, <1>2, <1>4, <2>2, <2>3, <2>5, <2>6, Facts, OutsideKeeps DEF Away
<1> QED
  BY <1>3, <1>4

(* A caller whose session ends outside the critical section. *)
LEMMA EndOutsideKeeps ==
    ASSUME Inv, NEW c \in Callers, End(c), call[c].pc \notin {"posting", "saving"},
           UNCHANGED <<rows, strava, callback, deauth, rejected>>, slips' = slips,
           acct' \in {acct, [acct EXCEPT !.failures = 0]}, notices' \in Nat,
           FailuresAreRejections'
    PROVE  Inv'
<1>1. lock' \in {lock, NoCaller} /\ lock' # c /\ (lock' # lock => lock = c)
  <2>1. call[c].pc = "idle" => lock # c
    BY Facts
  <2> QED
    BY CallersAssumption DEF End, Free
<1>2. /\ call' \in [Callers -> CallType] /\ call'[c].pc = "idle" /\ call'[c].row = 0
      /\ \A d \in Callers : d # c => call'[d] = call[d]
  BY EndCall DEF End, Inv
<1>3. /\ acct' \in AcctType /\ acct'.id = acct.id /\ acct'.refresh = acct.refresh
      /\ acct'.id = 0 => acct'.failures = 0
  BY Facts DEF AcctType
<1> QED
  BY <1>1, <1>2, <1>3, Facts, OutsideKeeps DEF Away

LEMMA TellKeeps == ASSUME Inv, NEW c \in Callers, Tell(c) PROVE Inv'
<1>1. /\ UNCHANGED <<acct, rows, strava, callback, deauth, rejected, slips>>
      /\ call[c].pc = "telling" /\ End(c)
      /\ notices' = IF acct.id = call[c].row THEN notices + 1 ELSE notices
  BY DEF Tell
<1>2. acct.id = call[c].row => rejected >= Threshold
  BY <1>1 DEF Away, Inv, Counted
<1>3. FailuresAreRejections'
  BY <1>1, <1>2, Facts DEF FailuresAreRejections
<1> QED
  BY <1>1, <1>3, Facts, EndOutsideKeeps

(* _mark_account_synced takes counts back, never forward. *)
LEMMA SyncedCounts ==
    ASSUME Inv, NEW zero \in BOOLEAN, Synced(zero), rejected' = rejected
    PROVE  /\ acct' \in {acct, [acct EXCEPT !.failures = 0]} /\ notices' \in Nat
           /\ FailuresAreRejections'
<1>1. /\ acct' \in {acct, [acct EXCEPT !.failures = 0]} /\ notices' \in {notices, 0}
      /\ acct'.id = acct.id /\ acct'.failures \in {acct.failures, 0}
  BY Facts DEF Synced, AcctType
<1> QED
  BY <1>1, Facts DEF FailuresAreRejections

LEMMA UseKeeps == ASSUME Inv, NEW c \in Callers, Use(c) PROVE Inv'
<1>2. /\ UNCHANGED <<rows, strava, callback, deauth, rejected, slips>>
      /\ call[c].pc = "using" /\ End(c) /\ (Synced(TRUE) \/ UNCHANGED <<acct, notices>>)
  BY DEF Use
<1>3. CASE Synced(TRUE)
  BY <1>2, <1>3, SyncedCounts, EndOutsideKeeps
<1>4. CASE UNCHANGED <<acct, notices>>
  <2>1. FailuresAreRejections'
    BY <1>2, <1>4 DEF Inv, FailuresAreRejections
  <2> QED
    BY <1>2, <1>4, <2>1, Facts, EndOutsideKeeps
<1> QED
  BY <1>2, <1>3, <1>4

LEMMA FinishKeeps == ASSUME Inv, NEW c \in Callers, Finish(c) PROVE Inv'
<1>1. /\ UNCHANGED <<rows, strava, callback, deauth, rejected, slips>>
      /\ call[c].pc = "ingesting" /\ End(c)
      /\ Synced(acct.id = call[c].row /\ call[c].failures # 0)
  BY DEF Finish
<1> QED
  BY <1>1, SyncedCounts, EndOutsideKeeps

LEMMA FetchKeeps == ASSUME Inv, NEW c \in Callers, Fetch(c) PROVE Inv'
<1>1. /\ UNCHANGED <<acct, rows, strava, callback, deauth, notices, slips>>
      /\ call[c].pc = "using" /\ Free(c)
  BY DEF Fetch
<1>2. lock' \in {lock, NoCaller} /\ lock' # c /\ (lock' # lock => lock = c)
  BY <1>1, CallersAssumption DEF Free
<1>3. CASE acct.id # call[c].row
  <2>1. call' = [call EXCEPT ![c] = Idle] /\ rejected' = rejected
    BY <1>3 DEF Fetch
  <2>2. /\ call' \in [Callers -> CallType] /\ call'[c].pc = "idle" /\ call'[c].row = 0
        /\ \A d \in Callers : d # c => call'[d] = call[d]
    BY <2>1, EndCall DEF Inv
  <2>3. FailuresAreRejections'
    BY <1>1, <2>1 DEF Inv, FailuresAreRejections
  <2> QED
    BY <1>1, <1>2, <2>1, <2>2, <2>3, Facts, OutsideKeeps DEF Away
<1>4. CASE acct.id = call[c].row
  <2> DEFINE label == IF Valid(call[c].token) THEN "ingesting" ELSE "rejecting"
  <2>1. /\ call' = [call EXCEPT ![c].failures = acct.failures, ![c].pc = label]
        /\ rejected' = IF Valid(call[c].token) THEN rejected ELSE rejected + 1
    BY <1>4 DEF Fetch
  <2>2. /\ label \in PCs /\ label \in {"ingesting", "rejecting"}
        /\ label = "rejecting" => rejected' = rejected + 1
        /\ rejected' \in {rejected, rejected + 1}
    BY <2>1 DEF PCs
  <2> HIDE DEF label
  <2>3. call \in [Callers -> CallType] /\ call[c] \in CallType
    BY Facts DEF Inv, TypeOK, CallType
  <2>4. /\ call'[c] = [call[c] EXCEPT !.failures = acct.failures, !.pc = label]
        /\ call' = [call EXCEPT ![c] = call'[c]]
    BY <2>1, <2>3
  <2>5. acct.failures \in Nat
    BY Facts
  <2>6. /\ call'[c] \in CallType /\ call'[c].pc = label /\ call'[c].row = call[c].row
        /\ call'[c].failures = acct.failures
    BY <2>2, <2>3, <2>4, <2>5, Zenon DEF CallType
  <2>7. /\ call' \in [Callers -> CallType]
        /\ \A d \in Callers : d # c => call'[d] = call[d]
    BY <2>3, <2>4, <2>6
  <2>8. call[c].row # 0
    BY <1>1 DEF Away, Inv, Numbered
  <2>9. FailuresAreRejections'
    BY <1>1, <2>2, Facts DEF FailuresAreRejections
  <2> QED
    BY <1>1, <1>2, <2>2, <2>6, <2>7, <2>8, <2>9, Facts, OutsideKeeps
<1> QED
  BY <1>3, <1>4

-----------------------------------------------------------------------------
(* The critical section *)

(* Its holder is alone in it. *)
LEMMA OneRefresh ==
    ASSUME Inv, NEW c \in Callers, call[c].pc \in {"posting", "saving"} \/ lock = NoCaller
    PROVE  \A d \in Callers : d # c => call[d].pc \notin {"posting", "saving"}
BY CallersAssumption DEF Inv, Locked

(* What is left to show of a step that begins or ends in the section. *)
LEMMA InsideKeeps ==
    ASSUME Inv, NEW c \in Callers, TypeOK', Numbered', Counted', FailuresAreRejections',
           UNCHANGED callback, acct'.id = acct.id,
           \A d \in Callers : d # c => /\ call'[d] = call[d]
                                     /\ call[d].pc \notin {"posting", "saving"},
           call'[c].pc \in {"posting", "saving"} =>
               /\ lock' = c
               /\ slips' = {} => callback = 0
               /\ slips' = {} /\ acct.id # 0 =>
                     /\ call'[c].row = acct.id
                     /\ Granted' => call'[c].token = strava'.current
                     /\ Granted' /\ call'[c].pc = "posting" => acct'.refresh = strava'.current,
           slips' = {} => slips = {},
           slips' = {} /\ callback # 0 => strava' = strava,
           slips' = {} /\ callback = 0 /\ acct.id # 0 /\ Granted'
              /\ call'[c].pc \notin {"posting", "saving"} => acct'.refresh = strava'.current
    PROVE  Inv'
<1>1. Locked' /\ CallbackAlone' /\ RefreshCurrent'
  BY DEF Inv, Locked, CallbackAlone, RefreshCurrent
<1>2. StoredTokenLives'
  BY DEF StoredTokenLives, Refreshing
<1> QED
  BY <1>1, <1>2 DEF Inv

(* What holds while the section is free or its holder posts. *)
LEMMA RefreshLives ==
    ASSUME Inv, NEW c \in Callers, slips = {}, callback = 0, acct.id # 0, Granted,
           lock = NoCaller \/ call[c].pc = "posting"
    PROVE  acct.refresh = strava.current
<1>1. CASE call[c].pc = "posting"
  BY <1>1 DEF Inv, RefreshCurrent
<1>2. CASE lock = NoCaller
  <2>1. Refreshing = {}
    BY <1>2, CallersAssumption DEF Refreshing, Inv, Locked
  <2> QED
    BY <2>1 DEF Inv, StoredTokenLives
<1> QED
  BY <1>1, <1>2

LEMMA LockKeeps == ASSUME Inv, NEW c \in Callers, Lock(c) PROVE Inv'
<1>1. /\ UNCHANGED <<acct, rows, strava, callback, deauth, rejected, notices>>
      /\ call[c].pc = "locking" /\ lock = NoCaller /\ c # NoCaller
  BY CallersAssumption DEF Lock
<1>2. FailuresAreRejections'
  BY <1>1 DEF Inv, FailuresAreRejections
<1>3. \A label \in {"using", "posting"} : label \in PCs
  BY DEF PCs
<1>4. CASE acct.id # call[c].row
  <2>1. Quit(c) /\ slips' = slips
    BY <1>4 DEF Lock
  <2>2. /\ call' \in [Callers -> CallType] /\ call'[c].pc \in Away /\ call'[c].row = 0
        /\ \A d \in Callers : d # c => call'[d] = call[d]
        /\ \/ call'[c].pc = "idle" /\ lock' = lock
           \/ call'[c].pc = "leaving" /\ lock' = c
    BY <1>1, <2>1, QuitCall DEF Inv, Free
  <2> QED
    BY <1>1, <1>2, <2>1, <2>2, Facts, OutsideKeeps DEF Away
<1>5. CASE acct.id = call[c].row /\ acct.fresh
  <2>1. lock' = c /\ Loaded(c, "using") /\ slips' = slips
    BY <1>5 DEF Lock
  <2>2. /\ call' \in [Callers -> CallType] /\ call'[c].pc = "using"
        /\ call'[c].row = acct.id /\ call'[c].failures = acct.failures
        /\ \A d \in Callers : d # c => call'[d] = call[d]
    BY <1>3, <2>1, LoadedCall DEF Inv
  <2>3. acct.id # 0
    BY <1>1, <1>5 DEF Away, Inv, Numbered
  <2> QED
    BY <1>1, <1>2, <2>1, <2>2, <2>3, Facts, OutsideKeeps
<1>6. CASE acct.id = call[c].row /\ ~acct.fresh
  <2>1. /\ lock' = c /\ Loaded(c, "posting")
        /\ slips' = IF callback # 0 THEN slips \cup {"overlap"} ELSE slips
    BY <1>6 DEF Lock
  <2>2. /\ call' \in [Callers -> CallType] /\ call'[c].pc = "posting"
        /\ call'[c].row = acct.id /\ call'[c].failures = acct.failures
        /\ call'[c].token = acct.refresh
        /\ \A d \in Callers : d # c => call'[d] = call[d]
    BY <1>3, <2>1, LoadedCall DEF Inv
  <2>3. acct.id # 0
    BY <1>1, <1>6 DEF Away, Inv, Numbered
  <2>4. slips' = {} => slips = {} /\ callback = 0
    BY <2>1
  <2>5. TypeOK' /\ Numbered' /\ Counted'
    <3>1. /\ strava' \in [current : 0..MaxTokens, since : 1..MaxTokens + 1]
          /\ slips' \subseteq {"lost", "overlap"}
      BY <1>1, <2>1 DEF Inv, TypeOK
    <3> QED
      BY <1>1, <2>1, <2>2, <2>3, <3>1, Facts, CallerFrame
  <2>6. slips' = {} /\ Granted => acct.refresh = strava.current
    BY <1>1, <2>3, <2>4, RefreshLives
  <2>7. Granted' = Granted
    BY <1>1 DEF Granted
  <2> QED
    BY <1>1, <1>2, <2>1, <2>2, <2>3, <2>4, <2>5, <2>6, <2>7, OneRefresh, InsideKeeps
<1> QED
  BY <1>4, <1>5, <1>6

(* A caller that leaves the section by the end of its call. *)
LEMMA EndInsideFrame ==
    ASSUME Inv, NEW c \in Callers, End(c) \/ Quit(c), call[c].pc \in {"posting", "saving"},
           UNCHANGED <<acct, rows, callback, deauth, rejected, notices>>,
           strava' \in [current : 0..MaxTokens, since : 1..MaxTokens + 1],
           slips' \subseteq {"lost", "overlap"}
    PROVE  /\ TypeOK' /\ Numbered' /\ Counted' /\ FailuresAreRejections'
           /\ call'[c].pc \in Away /\ call'[c].pc \notin {"posting", "saving"}
           /\ \A d \in Callers : d # c => /\ call'[d] = call[d]
                                        /\ call[d].pc \notin {"posting", "saving"}
<1>1. lock = c /\ c # NoCaller
  BY CallersAssumption DEF Inv, Locked
<1>2. /\ call' \in [Callers -> CallType] /\ call'[c].pc \in Away /\ call'[c].row = 0
      /\ \A d \in Callers : d # c => call'[d] = call[d]
      /\ \/ call'[c].pc = "idle" /\ lock' = NoCaller
         \/ call'[c].pc = "leaving" /\ lock' = c
  BY <1>1, QuitCall DEF Free, Inv
<1>3. FailuresAreRejections'
  BY DEF Inv, FailuresAreRejections
<1>4. TypeOK' /\ Numbered' /\ Counted'
  BY <1>1, <1>2, Facts, CallerFrame
<1> QED
  BY <1>2, <1>3, <1>4, OneRefresh DEF Away

LEMMA PostTransientKeeps == ASSUME Inv, NEW c \in Callers, PostTransient(c) PROVE Inv'
<1>1. /\ UNCHANGED <<acct, rows, strava, callback, deauth, rejected, notices, slips>>
      /\ call[c].pc = "posting" /\ Quit(c)
  BY DEF PostTransient
<1>2. /\ strava' \in [current : 0..MaxTokens, since : 1..MaxTokens + 1]
      /\ slips' \subseteq {"lost", "overlap"} /\ Granted' = Granted
  BY <1>1 DEF Inv, TypeOK, Granted
<1>3. slips = {} /\ callback = 0 /\ acct.id # 0 /\ Granted => acct.refresh = strava.current
  BY <1>1, RefreshLives
<1> QED
  BY <1>1, <1>2, <1>3, EndInsideFrame, InsideKeeps

LEMMA LeaveKeeps == ASSUME Inv, NEW c \in Callers, Leave(c) PROVE Inv'
<1>1. /\ UNCHANGED <<acct, rows, strava, callback, deauth, rejected, notices, slips>>
      /\ call[c].pc = "leaving" /\ End(c)
  BY DEF Leave
<1>2. FailuresAreRejections'
  BY <1>1 DEF Inv, FailuresAreRejections
<1> QED
  BY <1>1, <1>2, Facts, EndOutsideKeeps

LEMMA DieKeeps == ASSUME Inv, NEW c \in Callers, Die(c) PROVE Inv'
<1>1. /\ UNCHANGED <<acct, rows, strava, callback, deauth, rejected, notices>>
      /\ End(c) /\ slips' = IF call[c].pc = "saving" THEN slips \cup {"lost"} ELSE slips
  BY DEF Die
<1>2. /\ strava' \in [current : 0..MaxTokens, since : 1..MaxTokens + 1]
      /\ slips' \subseteq {"lost", "overlap"} /\ Granted' = Granted
  BY <1>1 DEF Inv, TypeOK, Granted
<1>3. CASE call[c].pc \notin {"posting", "saving"}
  <2>1. FailuresAreRejections' /\ slips' = slips
    BY <1>1, <1>3 DEF Inv, FailuresAreRejections
  <2> QED
    BY <1>1, <1>3, <2>1, Facts, EndOutsideKeeps
<1>4. CASE call[c].pc = "posting"
  <2>1. slips = {} /\ callback = 0 /\ acct.id # 0 /\ Granted => acct.refresh = strava.current
    BY <1>4, RefreshLives
  <2> QED
    BY <1>1, <1>2, <1>4, <2>1, EndInsideFrame, InsideKeeps
<1>5. CASE call[c].pc = "saving"
  <2>1. slips' # {}
    BY <1>1, <1>5
  <2> QED
    BY <1>1, <1>2, <1>5, <2>1, EndInsideFrame, InsideKeeps
<1> QED
  BY <1>3, <1>4, <1>5

LEMMA PostAcceptedKeeps == ASSUME Inv, NEW c \in Callers, PostAccepted(c) PROVE Inv'
<1>1. /\ UNCHANGED <<acct, rows, callback, deauth, rejected, notices>>
      /\ call[c].pc = "posting" /\ strava.current < MaxTokens /\ Granted
      /\ strava' = [strava EXCEPT !.current = @ + 1]
  BY DEF PostAccepted, Accepts
<1>2. /\ strava' \in [current : 0..MaxTokens, since : 1..MaxTokens + 1]
      /\ strava'.current = strava.current + 1 /\ strava.current + 1 \in 0..MaxTokens
  BY <1>1, BoundsAssumption DEF Inv, TypeOK
<1>3. CASE Quit(c) /\ slips' = slips \cup {"lost"}
  <2>1. slips' \subseteq {"lost", "overlap"} /\ slips' # {}
    BY <1>3 DEF Inv, TypeOK
  <2> QED
    BY <1>1, <1>2, <1>3, <2>1, EndInsideFrame, InsideKeeps
<1>4. CASE /\ call' = [call EXCEPT ![c].pc = "saving", ![c].token = strava.current + 1]
           /\ UNCHANGED <<lock, slips>>
  <2>1. call \in [Callers -> CallType] /\ call[c] \in CallType /\ "saving" \in PCs
    BY Facts DEF Inv, TypeOK, CallType, PCs
  <2>2. /\ call'[c] = [call[c] EXCEPT !.pc = "saving", !.token = strava.current + 1]
        /\ call' = [call EXCEPT ![c] = call'[c]]
    BY <1>4, <2>1
  <2>3. /\ call'[c] \in CallType /\ call'[c].pc = "saving" /\ call'[c].row = call[c].row
        /\ call'[c].failures = call[c].failures /\ call'[c].token = strava.current + 1
    BY <1>2, <2>1, <2>2, Zenon DEF CallType
  <2>4. /\ call' \in [Callers -> CallType]
        /\ \A d \in Callers : d # c => call'[d] = call[d]
    BY <2>1, <2>2, <2>3
  <2>5. /\ call[c].row # 0 /\ lock = c
        /\ call[c].row = acct.id => call[c].failures <= rejected
    BY <1>1 DEF Away, Inv, Numbered, Locked, Counted
  <2>6. slips' \subseteq {"lost", "overlap"} /\ slips' = slips /\ lock' = c
    BY <1>4, <2>5 DEF Inv, TypeOK
  <2>7. TypeOK' /\ Numbered' /\ Counted'
    BY <1>1, <1>2, <1>4, <2>3, <2>4, <2>5, <2>6, Facts, CallerFrame
  <2>8. FailuresAreRejections'
    BY <1>1 DEF Inv, FailuresAreRejections
  <2>9. /\ slips = {} => callback = 0
        /\ slips = {} /\ acct.id # 0 => call[c].row = acct.id
    BY <1>1 DEF Inv, CallbackAlone, RefreshCurrent
  <2> QED
    BY <1>1, <1>2, <2>3, <2>4, <2>5, <2>6, <2>7, <2>8, <2>9, OneRefresh, InsideKeeps
<1> QED
  BY <1>3, <1>4 DEF PostAccepted

LEMMA PostRejectedKeeps == ASSUME Inv, NEW c \in Callers, PostRejected(c) PROVE Inv'
<1>1. /\ UNCHANGED <<acct, rows, strava, lock, callback, deauth, notices, slips>>
      /\ call[c].pc = "posting" /\ ~Accepts(call[c].token)
      /\ call' = [call EXCEPT ![c].pc = "rejecting"]
      /\ rejected' = IF call[c].row = acct.id THEN rejected + 1 ELSE rejected
  BY DEF PostRejected
<1>2. "rejecting" \in PCs
  BY DEF PCs
<1>3. /\ call' \in [Callers -> CallType] /\ call'[c].pc = "rejecting"
      /\ call'[c].row = call[c].row /\ call'[c].failures = call[c].failures
      /\ \A d \in Callers : d # c => call'[d] = call[d]
  BY <1>1, <1>2, MovedCall DEF Inv
<1>4. /\ call[c].row # 0 /\ lock = c
      /\ call[c].row = acct.id => call[c].failures <= rejected
  BY <1>1 DEF Away, Inv, Numbered, Locked, Counted
<1>5. /\ rejected' \in Nat /\ rejected' >= rejected
      /\ call[c].row = acct.id => call[c].failures + 1 <= rejected'
  BY <1>1, <1>4, Facts
<1>6. /\ strava' \in [current : 0..MaxTokens, since : 1..MaxTokens + 1]
      /\ slips' \subseteq {"lost", "overlap"} /\ Granted' = Granted
  BY <1>1 DEF Inv, TypeOK, Granted
<1>7. TypeOK' /\ Numbered' /\ Counted'
  BY <1>1, <1>3, <1>4, <1>5, <1>6, Facts, CallerFrame
<1>8. FailuresAreRejections'
  BY <1>1, <1>5, Facts DEF FailuresAreRejections
<1>9. ~(slips = {} /\ acct.id # 0 /\ Granted)
  BY <1>1 DEF Inv, RefreshCurrent, Accepts
<1> QED
  BY <1>1, <1>3, <1>6, <1>7, <1>8, <1>9, OneRefresh, InsideKeeps

LEMMA SaveKeeps == ASSUME Inv, NEW c \in Callers, Save(c) PROVE Inv'
<1>1. /\ UNCHANGED <<rows, strava, callback, deauth, rejected, notices, slips>>
      /\ call[c].pc = "saving" /\ lock = c /\ c # NoCaller
  BY CallersAssumption DEF Save, Inv, Locked
<1>2. /\ strava' \in [current : 0..MaxTokens, since : 1..MaxTokens + 1]
      /\ slips' \subseteq {"lost", "overlap"} /\ Granted' = Granted
  BY <1>1 DEF Inv, TypeOK, Granted
<1>3. slips = {} /\ acct.id # 0 =>
        call[c].row = acct.id /\ (Granted => call[c].token = strava.current)
  BY <1>1 DEF Inv, RefreshCurrent
<1>4. CASE acct.id # call[c].row
  <2>1. End(c) /\ UNCHANGED acct
    BY <1>4 DEF Save
  <2> QED
    BY <1>1, <1>2, <1>3, <1>4, <2>1, EndInsideFrame, InsideKeeps
<1>5. CASE acct.id = call[c].row
  <2>1. /\ acct' = [acct EXCEPT !.refresh = call[c].token, !.fresh = TRUE]
        /\ call' = [call EXCEPT ![c].pc = "using"] /\ lock' = NoCaller
    BY <1>1, <1>5 DEF Save, Free
  <2>2. acct \in AcctType /\ call[c].token \in 0..MaxTokens
    BY Facts DEF CallType
  <2>3. /\ acct' \in AcctType /\ acct'.id = acct.id /\ acct'.refresh = call[c].token
        /\ acct'.failures = acct.failures
    BY <2>1, <2>2, Zenon DEF AcctType
  <2>4. "using" \in PCs
    BY DEF PCs
  <2>5. /\ call' \in [Callers -> CallType] /\ call'[c].pc = "using"
        /\ call'[c].row = call[c].row /\ call'[c].failures = call[c].failures
        /\ \A d \in Callers : d # c => call'[d] = call[d]
    BY <2>1, <2>4, MovedCall DEF Inv
  <2>6. call[c].row # 0 /\ call[c].failures <= rejected
    BY <1>1, <1>5 DEF Away, Inv, Numbered, Counted
  <2>7. TypeOK' /\ Numbered' /\ Counted'
    BY <1>1, <1>2, <1>5, <2>1, <2>3, <2>5, <2>6, Facts, CallerFrame
  <2>8. FailuresAreRejections'
    BY <1>1, <2>3 DEF Inv, FailuresAreRejections
  <2> QED
    BY <1>1, <1>2, <1>3, <2>3, <2>5, <2>7, <2>8, OneRefresh, InsideKeeps
<1> QED
  BY <1>4, <1>5

-----------------------------------------------------------------------------
(* The writers without the lock *)

LEMMA ExchangeKeeps == ASSUME Inv, Exchange PROVE Inv'
<1>1. /\ UNCHANGED <<acct, rows, lock, call, deauth, rejected, notices>>
      /\ callback = 0 /\ strava.current < MaxTokens
      /\ strava' = [strava EXCEPT !.current = @ + 1] /\ callback' = strava.current + 1
      /\ slips' = IF Refreshing = {} THEN slips ELSE slips \cup {"overlap"}
  BY DEF Exchange
<1>2. /\ strava' \in [current : 0..MaxTokens, since : 1..MaxTokens + 1]
      /\ strava'.current = strava.current + 1 /\ strava.current + 1 \in 1..MaxTokens
  BY <1>1, BoundsAssumption DEF Inv, TypeOK
<1>3. TypeOK'
  BY <1>1, <1>2 DEF Inv, TypeOK
<1>4. slips' = {} => \A c \in Callers : call[c].pc \notin {"posting", "saving"}
  BY <1>1 DEF Refreshing
<1>5. CallbackAlone' /\ RefreshCurrent' /\ StoredTokenLives'
  BY <1>1, <1>2, <1>4 DEF CallbackAlone, RefreshCurrent, StoredTokenLives
<1> QED
  BY <1>1, <1>3, <1>5 DEF Away, Inv, Locked, Numbered, Counted, FailuresAreRejections

LEMMA StoreKeeps == ASSUME Inv, Store PROVE Inv'
<1>1. /\ UNCHANGED <<strava, lock, call, deauth>> /\ callback # 0 /\ callback' = 0
      /\ acct' = [id |-> IF acct.id = 0 THEN rows + 1 ELSE acct.id,
                  refresh |-> callback, fresh |-> TRUE, failures |-> acct.failures]
      /\ rows' = IF acct.id = 0 THEN rows + 1 ELSE rows
      /\ rejected' = IF acct.id = 0 THEN 0 ELSE rejected
      /\ notices' = IF acct.id = 0 THEN 0 ELSE notices
      /\ slips' = IF Refreshing = {} /\ callback = strava.current THEN {} ELSE slips
  BY DEF Store
<1>2. /\ rows \in Nat /\ acct.id \in 0..rows /\ callback \in 0..MaxTokens
      /\ acct.failures \in Nat
  BY Facts DEF Inv, TypeOK
<1>3. /\ acct' \in AcctType /\ acct'.refresh = callback /\ acct'.failures = acct.failures
      /\ acct'.id # 0 /\ acct'.id \in 0..rows' /\ rows' \in Nat /\ rows <= rows'
      /\ acct'.id = IF acct.id = 0 THEN rows + 1 ELSE acct.id
  <2>1. (IF acct.id = 0 THEN rows + 1 ELSE acct.id) \in Nat
    BY <1>2
  <2>2. acct' \in AcctType
    BY <1>1, <1>2, <2>1 DEF AcctType
  <2> QED
    BY <1>1, <1>2, <2>2
<1>4. TypeOK'
  <2>1. acct' \in [id : Nat, refresh : 0..MaxTokens, fresh : BOOLEAN, failures : Nat]
    BY <1>3 DEF AcctType
  <2>2. callback' \in 0..MaxTokens
    BY <1>1, BoundsAssumption
  <2>3. rejected' \in Nat /\ notices' \in Nat
    BY <1>1 DEF Inv, TypeOK
  <2>4. slips' \subseteq {"lost", "overlap"}
    BY <1>1 DEF Inv, TypeOK
  <2>5. lock' = NoCaller \/ lock' \in {c \in Callers : call'[c].pc \in
                                   {"posting", "saving", "rejecting", "using", "leaving"}}
    BY <1>1 DEF Inv, TypeOK
  <2>6. /\ strava' \in [current : 0..MaxTokens, since : 1..MaxTokens + 1]
        /\ call' \in [Callers -> [pc : PCs, row : Nat, token : 0..MaxTokens,
                                  failures : Nat, tries : 0..1]]
        /\ deauth' \in BOOLEAN
    BY <1>1 DEF Inv, TypeOK
  <2> QED
    BY <1>3, <2>1, <2>2, <2>3, <2>4, <2>5, <2>6 DEF TypeOK
<1>5. Numbered'
  BY <1>1, <1>2, <1>3, Facts DEF Away, Inv, Numbered
<1>6. acct.id = 0 => \A c \in Callers : call[c].row # acct'.id
  BY <1>2, <1>3, Facts DEF Away, Inv, Numbered
<1>7. Counted'
  BY <1>1, <1>3, <1>6, Facts DEF Away, Inv, Counted
<1>8. FailuresAreRejections'
  BY <1>1, <1>3, Facts DEF FailuresAreRejections
<1>9. slips' = {} => callback = strava.current
                     /\ \A c \in Callers : call[c].pc \notin {"posting", "saving"}
  BY <1>1 DEF Refreshing, Inv, CallbackAlone
<1>10. CallbackAlone' /\ RefreshCurrent' /\ StoredTokenLives'
  BY <1>1, <1>3, <1>9 DEF CallbackAlone, RefreshCurrent, StoredTokenLives
<1> QED
  BY <1>1, <1>4, <1>5, <1>7, <1>8, <1>10 DEF Inv, Locked

LEMMA DropCallbackKeeps == ASSUME Inv, DropCallback PROVE Inv'
<1>1. /\ UNCHANGED <<acct, rows, strava, lock, call, deauth, rejected, notices>>
      /\ callback' = 0 /\ slips' = slips \cup {"lost"} /\ slips' # {}
  BY DEF DropCallback
<1>2. TypeOK'
  BY <1>1, BoundsAssumption DEF Inv, TypeOK
<1> QED
  BY <1>1, <1>2 DEF Away, Inv, Locked, Numbered, Counted, FailuresAreRejections, CallbackAlone,
     RefreshCurrent, StoredTokenLives

(* The row goes, at a disconnect or a deauthorize event. *)
LEMMA RowGoneKeeps ==
    ASSUME Inv, acct' = NoRow, deauth' \in BOOLEAN,
           UNCHANGED <<rows, strava, lock, call, callback, rejected, notices, slips>>
    PROVE  Inv'
<1>1. acct' \in AcctType /\ acct'.id = 0 /\ acct'.failures = 0
  BY BoundsAssumption DEF NoRow, AcctType
<1>2. TypeOK'
  BY <1>1 DEF Inv, TypeOK, AcctType
<1>3. Numbered' /\ Counted'
  BY <1>1 DEF Away, Inv, Numbered, Counted
<1>4. FailuresAreRejections'
  BY <1>1, Facts DEF FailuresAreRejections
<1> QED
  BY <1>1, <1>2, <1>3, <1>4 DEF Inv, Locked, CallbackAlone, RefreshCurrent, StoredTokenLives

LEMMA RevokeKeeps == ASSUME Inv, Revoke PROVE Inv'
<1>1. /\ UNCHANGED <<acct, rows, lock, call, callback, rejected, notices, slips>>
      /\ strava' = [strava EXCEPT !.since = strava.current + 1] /\ deauth' = TRUE
  BY DEF Revoke
<1>2. /\ strava' \in [current : 0..MaxTokens, since : 1..MaxTokens + 1]
      /\ strava'.current = strava.current /\ ~Granted'
  <2>1. /\ strava \in [current : 0..MaxTokens, since : 1..MaxTokens + 1]
        /\ strava.current \in 0..MaxTokens
    BY DEF Inv, TypeOK
  <2>2. strava.current + 1 \in 1..MaxTokens + 1 /\ ~(strava.current >= strava.current + 1)
    BY <2>1, BoundsAssumption
  <2>3. strava'.current = strava.current /\ strava'.since = strava.current + 1
    BY <1>1, <2>1
  <2>4. strava' \in [current : 0..MaxTokens, since : 1..MaxTokens + 1]
    BY <1>1, <2>1, <2>2
  <2> QED
    BY <2>2, <2>3, <2>4 DEF Granted
<1>3. TypeOK'
  BY <1>1, <1>2 DEF Inv, TypeOK
<1> QED
  BY <1>1, <1>2, <1>3 DEF Away, Inv, Locked, Numbered, Counted, FailuresAreRejections,
     CallbackAlone, RefreshCurrent, StoredTokenLives

LEMMA ExpireKeeps == ASSUME Inv, Expire PROVE Inv'
<1>1. /\ UNCHANGED <<rows, strava, lock, call, callback, deauth, rejected, notices, slips>>
      /\ acct' \in AcctType /\ acct'.id = acct.id /\ acct'.refresh = acct.refresh
      /\ acct'.failures = acct.failures
  BY Facts DEF Expire, AcctType
<1>2. TypeOK'
  BY <1>1 DEF Inv, TypeOK, AcctType
<1>3. RefreshCurrent' /\ StoredTokenLives' /\ CallbackAlone'
  BY <1>1 DEF Inv, RefreshCurrent, StoredTokenLives, CallbackAlone, Granted, Refreshing
<1> QED
  BY <1>1, <1>2, <1>3 DEF Away, Inv, Locked, Numbered, Counted, FailuresAreRejections

-----------------------------------------------------------------------------

THEOREM InvHolds == Spec => []Inv
<1>1. Inv /\ [Next]_vars => Inv'
  <2>1. ASSUME Inv, NEW c \in Callers, Step(c) PROVE Inv'
    BY <2>1, EnterKeeps, LockKeeps, BusyKeeps, PostAcceptedKeeps, PostRejectedKeeps,
       PostTransientKeeps, LeaveKeeps, SaveKeeps, RecordKeeps, TellKeeps, UseKeeps, FetchKeeps,
       FinishKeeps, DieKeeps DEF Step
  <2>2. ASSUME Inv, Disconnect \/ Deauthorize PROVE Inv'
    <3>1. deauth' \in BOOLEAN
      BY <2>2 DEF Disconnect, Deauthorize, Inv, TypeOK
    <3> QED
      BY <2>2, <3>1, RowGoneKeeps DEF Disconnect, Deauthorize
  <2>3. ASSUME Inv, UNCHANGED vars PROVE Inv'
    BY <2>3 DEF Away, vars, Inv, TypeOK, Locked, Numbered, Counted, FailuresAreRejections,
       CallbackAlone, RefreshCurrent, StoredTokenLives, Granted, Refreshing
  <2> QED
    BY <2>1, <2>2, <2>3, ExchangeKeeps, StoreKeeps, DropCallbackKeeps, RevokeKeeps,
       ExpireKeeps DEF Next
<1> QED
  BY InitInv, <1>1, PTL DEF Spec

(* The row, the callers and the lock have their types, for any number of callers. *)
THEOREM TypeCorrect == Spec => []TypeOK
<1>1. Inv => TypeOK
  BY DEF Inv
<1> QED
  BY InvHolds, <1>1, PTL

(* However many callers refresh one row, and whoever dies, the stored token is  *)
(* the one Strava accepts unless an answer was lost or the callback overlapped  *)
(* a refresh since the last clean authorisation.                                *)
THEOREM StoredLives == Spec => []StoredTokenLives
<1>1. Inv => StoredTokenLives
  BY DEF Inv
<1> QED
  BY InvHolds, <1>1, PTL

(* Under the same conditions no caller posts a token Strava has replaced. *)
THEOREM PostedLives == Spec => []PostedTokenLives
<1>1. Inv => PostedTokenLives
  <2> SUFFICES ASSUME Inv, NEW c \in Callers, call[c].pc = "posting",
                      call[c].row = acct.id, Granted, slips = {}
      PROVE Accepts(call[c].token)
    BY DEF PostedTokenLives
  <2>1. acct.id # 0
    BY DEF Away, Inv, Numbered
  <2> QED
    BY <2>1 DEF Inv, RefreshCurrent, Accepts
<1> QED
  BY InvHolds, <1>1, PTL

(* The count that stops the resync, and the notice, never run ahead of         *)
(* Strava's definitive rejections of the present row.                          *)
THEOREM CountsAreEarned == Spec => []FailuresAreRejections
<1>1. Inv => FailuresAreRejections
  BY DEF Inv
<1> QED
  BY InvHolds, <1>1, PTL
=============================================================================
