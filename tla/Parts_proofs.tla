----------------------------- MODULE Parts_proofs -----------------------------
(***************************************************************************)
(* Proofs about the components that share nothing with each other and do   *)
(* work, the terminal among them: of each its inductive invariant and what *)
(* follows from it, for every value of the constants.  Stores_proofs has   *)
(* the components that keep things, Channels_proofs those that compute     *)
(* plans and texts.                                                        *)
(***************************************************************************)
EXTENDS Browser, Daemon, Delegation, Executor, Heartbeat, Mcp, Orchestrator,
        Quota, Recovery, Remote, RunQueue, Shell, Tui,
        FiniteSetTheorems, SequenceTheorems, WellFoundedInduction, TLAPS

-----------------------------------------------------------------------------
(* Proofs, for any number of planners and any limit.                       *)

(* What the count stands for: the numbers given out are the first ones,    *)
(* and what it says beyond them is about to be taken back, which happens   *)
(* only when all numbers are given out.                                    *)
Numbered == spawned - Cardinality(undoing)
CountMeansGiven ==
  /\ Numbered \in 0 .. MaxAgents
  /\ Allocator!InUse = 1 .. Numbered
  /\ undoing # {} => Numbered = MaxAgents
DelegationInv == DelegationTypeOK /\ CountMeansGiven

USE DelegationAssumption DEF Slots

LEMMA DelegationStarts == DelegationInit => DelegationInv
<1> SUFFICES ASSUME DelegationInit PROVE DelegationInv
  OBVIOUS
<1>1. DelegationTypeOK
  BY DEF DelegationInit, DelegationTypeOK
<1>2. Allocator!InUse = {}
  BY DEF DelegationInit, Allocator!InUse
<1>3. Numbered = 0
  BY FS_EmptySet DEF DelegationInit, Numbered
<1>. QED
  BY <1>1, <1>2, <1>3 DEF DelegationInit, DelegationInv, CountMeansGiven

(* A reservation in the making, and one taken back, change the count and   *)
(* the planners that have to take back by the same amount.                 *)
LEMMA UndoingCounted ==
  ASSUME DelegationInv
  PROVE  /\ Cardinality(undoing) \in Nat
         /\ undoing = {} <=> Cardinality(undoing) = 0
         /\ \A p \in Planners :
              /\ p \notin undoing => Cardinality(undoing \cup {p}) = Cardinality(undoing) + 1
              /\ p \in undoing => Cardinality(undoing \ {p}) = Cardinality(undoing) - 1
<1>1. IsFiniteSet(undoing)
  BY FS_Subset DEF DelegationInv, DelegationTypeOK
<1>2. Cardinality(undoing) \in Nat
  BY <1>1, FS_CardinalityType
<1>3. undoing = {} <=> Cardinality(undoing) = 0
  BY <1>1, FS_EmptySet
<1>4. ASSUME NEW p \in Planners, p \notin undoing
      PROVE  Cardinality(undoing \cup {p}) = Cardinality(undoing) + 1
  BY <1>1, <1>4, FS_AddElement
<1>5. ASSUME NEW p \in Planners, p \in undoing
      PROVE  Cardinality(undoing \ {p}) = Cardinality(undoing) - 1
  BY <1>1, <1>5, FS_RemoveElement
<1>. QED
  BY <1>2, <1>3, <1>4, <1>5

(* The numbers are out exactly when the count has reached the limit.       *)
LEMMA FullIsCounted ==
  ASSUME DelegationInv
  PROVE  /\ spawned < MaxAgents => undoing = {} /\ Numbered = spawned
         /\ spawned >= MaxAgents => Numbered = MaxAgents
<1>1. Cardinality(undoing) \in Nat /\ (undoing = {} => Cardinality(undoing) = 0)
  BY UndoingCounted
<1>2. spawned \in Nat /\ Numbered = spawned - Cardinality(undoing)
  BY DEF DelegationInv, DelegationTypeOK, Numbered
<1>. QED
  BY <1>1, <1>2 DEF DelegationInv, CountMeansGiven

LEMMA DelegationSteps ==
  ASSUME DelegationInv, [DelegationNext]_delegationVars
  PROVE  /\ DelegationInv'
         /\ [Allocator!AllocNext]_<<slots, refusals>>
<1> USE DEF DelegationInv
<1> DEFINE Maps == [Allocator!AllocNext]_<<slots, refusals>>
<1>0. spawned \in Nat /\ Cardinality(undoing) \in Nat
  BY UndoingCounted DEF DelegationTypeOK
<1>1. ASSUME UNCHANGED <<spawned, undoing, slots>> PROVE CountMeansGiven'
  BY <1>1 DEF CountMeansGiven, Numbered, Allocator!InUse
<1>2. ASSUME NEW p \in Planners, Plan(p) PROVE DelegationInv' /\ Maps
  <2>1. \A parts \in 1 .. MaxParts : Least2(parts, MaxAgents - spawned) \in Nat
    BY <1>0, <1>2 DEF Plan, Least2
  <2>2. DelegationTypeOK'
    BY <1>2, <2>1 DEF Plan, DelegationTypeOK
  <2>. QED
    BY <1>1, <1>2, <2>2 DEF Plan
<1>3. ASSUME NEW p \in Planners, PlanRefused(p) PROVE DelegationInv' /\ Maps
  <2>1. DelegationTypeOK'
    BY <1>3 DEF PlanRefused, DelegationTypeOK
  <2>2. Allocator!InUse = Slots
    BY <1>3, FullIsCounted DEF PlanRefused, CountMeansGiven
  <2>3. Allocator!Refuse(p)
    BY <1>3, <2>2 DEF PlanRefused, Allocator!Refuse
  <2>. QED
    BY <1>1, <1>3, <2>1, <2>3 DEF PlanRefused, Allocator!AllocNext
<1>4. ASSUME NEW p \in Planners, Register(p) PROVE DelegationInv' /\ Maps
  <2>1. CASE spawned >= MaxAgents
    <3>1. DelegationTypeOK'
      BY <1>4, <2>1 DEF Register, DelegationTypeOK
    <3>2. Numbered' = Numbered /\ Numbered = MaxAgents
      BY <1>0, <1>4, <2>1, UndoingCounted, FullIsCounted DEF Register, Numbered
    <3>4. CountMeansGiven'
      BY <1>4, <2>1, <3>2 DEF Register, CountMeansGiven, Allocator!InUse
    <3>. QED
      BY <1>4, <2>1, <3>1, <3>4 DEF Register
  <2>2. CASE spawned < MaxAgents
    <3>1. undoing = {} /\ Numbered = spawned /\ Cardinality(undoing) = 0
      BY <2>2, FullIsCounted, UndoingCounted
    <3>2. spawned + 1 \in Slots
      BY <1>0, <2>2
    <3>3. /\ slots' = [slots EXCEPT ![p] = @ \cup {spawned + 1}]
          /\ agents' = [agents EXCEPT ![spawned + 1] = "pending"]
          /\ toSpawn' = [toSpawn EXCEPT ![p] = @ - 1] /\ toSpawn[p] > 0
          /\ spawned' = spawned + 1 /\ UNCHANGED <<undoing, refusals>>
      BY <1>0, <1>4, <2>2 DEF Register
    <3>4. DelegationTypeOK'
      <4>1. toSpawn' \in [Planners -> Nat]
        BY <3>3 DEF DelegationTypeOK
      <4>2. slots' \in [Planners -> SUBSET Slots]
        BY <3>2, <3>3 DEF DelegationTypeOK
      <4>. QED
        BY <1>0, <3>2, <3>3, <4>1, <4>2 DEF DelegationTypeOK
    <3>5. Numbered' = spawned + 1
      BY <1>0, <3>1, <3>3 DEF Numbered
    <3>6. Allocator!InUse' = Allocator!InUse \cup {spawned + 1}
      BY <3>3 DEF DelegationTypeOK, Allocator!InUse
    <3>7. Allocator!InUse = 1 .. spawned
      BY <3>1 DEF CountMeansGiven
    <3>8. 1 .. (spawned + 1) = (1 .. spawned) \cup {spawned + 1}
      BY <1>0
    <3>9. CountMeansGiven'
      BY <1>0, <2>2, <3>1, <3>3, <3>5, <3>6, <3>7, <3>8 DEF CountMeansGiven
    <3>10. Allocator!Grant(p, spawned + 1)
      BY <1>0, <3>3, <3>7 DEF Allocator!Grant
    <3>. QED
      BY <3>2, <3>4, <3>9, <3>10 DEF Allocator!AllocNext
  <2>. QED
    BY <1>0, <2>1, <2>2
<1>5. ASSUME NEW p \in Planners, Undo(p) PROVE DelegationInv' /\ Maps
  <2>1. undoing # {} /\ Numbered = MaxAgents /\ spawned > 0
    BY <1>0, <1>5, UndoingCounted DEF Undo, CountMeansGiven, Numbered
  <2>2. DelegationTypeOK'
    BY <1>5, <2>1 DEF Undo, DelegationTypeOK
  <2>3. Numbered' = Numbered
    BY <1>0, <1>5, UndoingCounted DEF Undo, Numbered
  <2>4. CountMeansGiven'
    BY <1>5, <2>1, <2>3 DEF Undo, CountMeansGiven, Allocator!InUse
  <2>5. Allocator!Refuse(p)
    BY <1>5, <2>1 DEF Undo, CountMeansGiven, Allocator!Refuse
  <2>. QED
    BY <2>2, <2>4, <2>5 DEF Allocator!AllocNext
<1>6. ASSUME NEW s \in Slots, StartAgent(s) \/ EndAgent(s) PROVE DelegationInv' /\ Maps
  <2>1. DelegationTypeOK'
    BY <1>6 DEF StartAgent, EndAgent, DelegationTypeOK
  <2>2. UNCHANGED <<spawned, undoing, slots, refusals>>
    BY <1>6 DEF StartAgent, EndAgent
  <2>. QED
    BY <1>1, <2>1, <2>2
<1>7. CASE UNCHANGED delegationVars
  <2>1. DelegationTypeOK'
    BY <1>7 DEF delegationVars, DelegationTypeOK
  <2>. QED
    BY <1>1, <1>7, <2>1 DEF delegationVars
<1>. QED
  BY <1>2, <1>3, <1>4, <1>5, <1>6, <1>7 DEF DelegationNext

(* Whatever additions and corrections of the count of sub-agents overlap,  *)
(* the manager is an allocator of numbered places: one owner per number,   *)
(* and nobody is refused while a number is left.                           *)
THEOREM DelegationImplements == DelegationSpec => DelegationAllocates
<1>1. DelegationInit => Allocator!AllocInit
  BY DEF DelegationInit, Allocator!AllocInit
<1>. QED
  BY <1>1, DelegationStarts, DelegationSteps, PTL
     DEF DelegationSpec, DelegationAllocates, Allocator!AllocatorSpec

HIDE DelegationAssumption DEF Slots

-----------------------------------------------------------------------------
(* Proofs, for any number of calls, any limit and any number of days.      *)

(* What the counter of the day it was last set for stands for: no more     *)
(* calls than were let through on that day, and all of them but those      *)
(* counted before a call of an earlier day turned it back.  A day before   *)
(* it may have used up its limit since, one after it has not begun since.  *)
Allowance(d) == CASE d < dayEpoch -> DailyLimit
                  [] d = dayEpoch -> callCount
                  [] OTHER        -> 0
CounterTells ==
  /\ callCount <= DailyLimit
  /\ dayEpoch \in Days => callCount <= granted[dayEpoch]
  /\ \A d \in Days : granted[d] <= DailyLimit * turnedBack + Allowance(d)
QuotaInv == QuotaTypeOK /\ CounterTells /\ RefusedRightly

USE QuotaAssumption DEF Days

LEMMA QuotaStarts == QuotaInit => QuotaInv
<1> SUFFICES ASSUME QuotaInit PROVE QuotaInv
  OBVIOUS
<1>1. QuotaTypeOK /\ RefusedRightly
  BY DEF QuotaInit, QuotaTypeOK, RefusedRightly
<1>2. DailyLimit * turnedBack = 0
  BY DEF QuotaInit
<1>3. \A d \in Days : granted[d] = 0 /\ Allowance(d) = 0
  BY DEF QuotaInit, Allowance
<1>4. callCount = 0 /\ dayEpoch = 0
  BY DEF QuotaInit
<1>. QED
  BY <1>1, <1>2, <1>3, <1>4 DEF QuotaInv, CounterTells

LEMMA OneMoreOn ==
  \A f \in [Days -> Nat], d \in Days : [f EXCEPT ![d] = @ + 1] \in [Days -> Nat]
  OBVIOUS

LEMMA QuotaStep == QuotaInv /\ [QuotaNext]_quotaVars => QuotaInv'
<1> SUFFICES ASSUME QuotaInv, [QuotaNext]_quotaVars PROVE QuotaInv'
  OBVIOUS
<1> USE DEF QuotaInv
<1>1. ASSUME UNCHANGED <<callCount, dayEpoch, granted, refused, turnedBack>>
      PROVE  CounterTells' /\ RefusedRightly'
  BY <1>1 DEF CounterTells, Allowance, RefusedRightly
<1>2. ASSUME NEW r \in QuotaCalls, ReadDay(r) PROVE QuotaInv'
  <2>1. QuotaTypeOK'
    BY <1>2 DEF ReadDay, QuotaTypeOK
  <2>. QED
    BY <1>1, <1>2, <2>1 DEF ReadDay
<1>3. ASSUME NEW r \in QuotaCalls, CountCall(r) PROVE QuotaInv'
  <2> DEFINE today == readDay[r]
             count == CountOf(today)
             base == DailyLimit * turnedBack
             newBase == DailyLimit * turnedBack'
             share(d) == IF d < today THEN DailyLimit ELSE IF d = today THEN count ELSE 0
  <2>1. /\ today \in Days /\ dayEpoch \in 0 .. MaxDays /\ callCount \in Nat
        /\ turnedBack \in Nat /\ granted \in [Days -> Nat] /\ refused \in [Days -> Nat]
    <3>1. today \in 0 .. MaxDays
      BY DEF QuotaTypeOK
    <3>2. today # 0
      BY <1>3 DEF CountCall
    <3>3. today \in Days
      BY <3>1, <3>2
    <3>. QED
      BY <3>3 DEF QuotaTypeOK
  <2>2. /\ count \in Nat /\ count <= DailyLimit /\ base \in Nat
        /\ count = IF today = dayEpoch THEN callCount ELSE 0
    BY <2>1 DEF CountOf, CounterTells
  <2>3. /\ dayEpoch' = today /\ day' = day /\ readDay' = [readDay EXCEPT ![r] = 0]
        /\ turnedBack' = IF today < dayEpoch THEN turnedBack + 1 ELSE turnedBack
    BY <1>3 DEF CountCall
  <2>4. \A d \in Days : granted[d] <= base + Allowance(d)
    BY DEF CounterTells
  <2>5. newBase = IF today < dayEpoch THEN base + DailyLimit ELSE base
    BY <2>1, <2>3
  <2> HIDE DEF base, newBase, today, count
  <2>6. ASSUME NEW d \in Days PROVE granted[d] <= newBase + share(d)
    <3>1. granted[d] \in Nat /\ granted[d] <= base + Allowance(d)
      BY <2>1, <2>4
    <3>2. Allowance(d) = IF d < dayEpoch THEN DailyLimit
                         ELSE IF d = dayEpoch THEN callCount ELSE 0
      BY <2>1 DEF Allowance
    <3>3. /\ callCount <= DailyLimit /\ {callCount, DailyLimit, count, base} \subseteq Nat
          /\ {d, today, dayEpoch} \subseteq Nat
      BY <2>1, <2>2 DEF CounterTells
    <3>4. CASE today < dayEpoch
      <4>1. newBase = base + DailyLimit /\ share(d) \in Nat
        BY <2>5, <3>3, <3>4
      <4>2. Allowance(d) <= DailyLimit /\ Allowance(d) \in Nat
        BY <3>2, <3>3
      <4>. QED
        BY <3>1, <3>3, <4>1, <4>2
    <3>5. CASE today >= dayEpoch
      <4>1. newBase = base
        BY <2>5, <3>3, <3>5
      <4>2. Allowance(d) <= share(d) /\ Allowance(d) \in Nat /\ share(d) \in Nat
        BY <2>2, <3>2, <3>3, <3>5
      <4>. QED
        BY <3>1, <3>3, <4>1, <4>2
    <3>. QED
      BY <3>3, <3>4, <3>5
  <2>7. granted[today] >= count
    BY <2>1, <2>2 DEF CounterTells
  <2>8. /\ day' \in Days /\ dayEpoch' \in 0 .. MaxDays
         /\ readDay' \in [QuotaCalls -> 0 .. MaxDays] /\ turnedBack' \in Nat
    BY <2>1, <2>3 DEF QuotaTypeOK
  <2>9. CASE count < DailyLimit
    <3>1. /\ callCount' = count + 1 /\ refused' = refused
          /\ granted' = [granted EXCEPT ![today] = @ + 1]
      BY <1>3, <2>9 DEF CountCall, WithinQuota, today, count
    <3>2. QuotaTypeOK'
      <4>1. granted' \in [Days -> Nat] /\ refused' \in [Days -> Nat]
        BY <2>1, <3>1, OneMoreOn
      <4>2. callCount' \in Nat
        BY <2>2, <3>1
      <4>. QED
        BY <2>8, <4>1, <4>2 DEF QuotaTypeOK
    <3>3. CounterTells'
      <4>1. callCount' <= DailyLimit /\ callCount' <= granted'[dayEpoch']
        BY <2>1, <2>2, <2>3, <2>7, <2>9, <3>1
      <4>2. ASSUME NEW d \in Days PROVE granted'[d] <= newBase + Allowance(d)'
        <5>1. Allowance(d)' = IF d = today THEN count + 1 ELSE share(d)
          BY <2>1, <2>3, <3>1 DEF Allowance
        <5>2. granted'[d] = IF d = today THEN granted[d] + 1 ELSE granted[d]
          BY <2>1, <3>1
        <5>3. granted[d] \in Nat /\ newBase \in Nat /\ share(d) \in Nat
              /\ (d = today => share(d) = count)
          BY <2>1, <2>2, <2>5
        <5>4. granted[d] <= newBase + share(d)
          BY <2>6
        <5> HIDE DEF share
        <5>. QED
          BY <2>2, <5>1, <5>2, <5>3, <5>4
      <4>. QED
        BY <4>1, <4>2 DEF CounterTells, newBase
    <3>4. RefusedRightly'
      BY <2>1, <3>1 DEF RefusedRightly
    <3>. QED
      BY <3>2, <3>3, <3>4
  <2>10. CASE count >= DailyLimit
    <3>1. /\ callCount' = count /\ granted' = granted
          /\ refused' = [refused EXCEPT ![today] = @ + 1]
      BY <1>3, <2>2, <2>10 DEF CountCall, WithinQuota, today, count
    <3>2. QuotaTypeOK'
      <4>1. granted' \in [Days -> Nat] /\ refused' \in [Days -> Nat]
        BY <2>1, <3>1, OneMoreOn
      <4>2. callCount' \in Nat
        BY <2>2, <3>1
      <4>. QED
        BY <2>8, <4>1, <4>2 DEF QuotaTypeOK
    <3>3. CounterTells'
      <4>1. callCount' <= DailyLimit /\ callCount' <= granted'[dayEpoch']
        BY <2>1, <2>2, <2>3, <2>7, <3>1
      <4>2. ASSUME NEW d \in Days PROVE granted'[d] <= newBase + Allowance(d)'
        <5>1. Allowance(d)' = share(d)
          BY <2>1, <2>3, <3>1 DEF Allowance
        <5>. QED
          BY <2>6, <3>1, <5>1
      <4>. QED
        BY <4>1, <4>2 DEF CounterTells, newBase
    <3>4. RefusedRightly'
      BY <2>1, <2>2, <2>7, <2>10, <3>1 DEF RefusedRightly
    <3>. QED
      BY <3>2, <3>3, <3>4
  <2>. QED
    BY <2>2, <2>9, <2>10
<1>4. CASE Midnight
  <2>1. QuotaTypeOK'
    BY <1>4 DEF Midnight, QuotaTypeOK
  <2>. QED
    BY <1>1, <1>4, <2>1 DEF Midnight
<1>5. CASE UNCHANGED quotaVars
  <2>1. QuotaTypeOK'
    BY <1>5 DEF quotaVars, QuotaTypeOK
  <2>. QED
    BY <1>1, <1>5, <2>1 DEF quotaVars
<1>. QED
  BY <1>2, <1>3, <1>4, <1>5 DEF QuotaNext

(* However calls of different days overtake each other at the lock, a day  *)
(* gets at most its limit, and that much again for each time the counter   *)
(* was turned back; and no call is refused while its day has room.         *)
THEOREM QuotaHolds == QuotaSpec => []QuotaSound
<1>1. QuotaInv => QuotaSound
  <2> SUFFICES ASSUME QuotaInv, NEW d \in Days PROVE granted[d] <= DailyLimit * (1 + turnedBack)
    BY DEF QuotaInv, QuotaSound, LimitKept
  <2>1. granted[d] \in Nat /\ turnedBack \in Nat /\ callCount \in Nat /\ dayEpoch \in Nat
    BY DEF QuotaInv, QuotaTypeOK
  <2>2. Allowance(d) <= DailyLimit /\ Allowance(d) \in Nat
    BY <2>1 DEF QuotaInv, CounterTells, Allowance
  <2>3. granted[d] <= DailyLimit * turnedBack + Allowance(d)
    BY DEF QuotaInv, CounterTells
  <2>4. DailyLimit * (1 + turnedBack) = DailyLimit * turnedBack + DailyLimit
    BY <2>1
  <2>5. DailyLimit * turnedBack \in Nat
    BY <2>1
  <2>. QED
    BY <2>1, <2>2, <2>3, <2>4, <2>5
<1>. QED
  BY <1>1, QuotaStarts, QuotaStep, PTL DEF QuotaSpec

HIDE QuotaAssumption DEF Days

-----------------------------------------------------------------------------
(* One request on its way to a worker node, for any number of attempts.    *)

(* The notifier in in_flight_requests is of the handler that executes or   *)
(* has just executed; once there is an answer it stays, and who is to      *)
(* claim then had looked before.  Until then there is one execution, and   *)
(* its notifier is in place.                                               *)
Owning == {"run", "cache", "release"}
OwnerNamed == \A h \in Tries : handler[h] \in Owning => inFlight = h
AnswerKept == \A h \in Tries : handler[h] \in {"release", "wake", "awake"} => completed # 0
ClaimsMissed == completed # 0 => \A h \in Tries : handler[h] = "claim" => h \in missed
FirstRun == completed = 0 => runs = (IF inFlight = 0 THEN {} ELSE {inFlight})
SentOnly == \A h \in Tries : h > tries => handler[h] = "none" /\ h \notin runs
RemoteInv == /\ RemoteTypeOK /\ OwnerNamed /\ AnswerKept /\ ClaimsMissed /\ FirstRun
             /\ SentOnly /\ RemoteNoConflict /\ RemoteNoRerun

LEMMA RemoteStarts == RemoteInit => RemoteInv
<1> USE RemoteAssumption
<1> SUFFICES ASSUME RemoteInit PROVE RemoteInv
  OBVIOUS
<1>1. RemoteTypeOK
  BY DEF RemoteInit, RemoteTypeOK, Tries, HandlerPlaces, Conflict
<1>2. OwnerNamed /\ AnswerKept /\ ClaimsMissed /\ FirstRun /\ SentOnly /\ RemoteNoConflict
  BY DEF RemoteInit, OwnerNamed, Owning, AnswerKept, ClaimsMissed, FirstRun, SentOnly,
     RemoteNoConflict, Conflict
<1>3. RemoteNoRerun
  <2>1. 1 \in Tries
    BY DEF Tries
  <2> QED BY <2>1 DEF RemoteInit, RemoteNoRerun
<1> QED BY <1>1, <1>2, <1>3 DEF RemoteInv

LEMMA RemoteStep == RemoteInv /\ [RemoteNext]_remoteVars => RemoteInv'
<1> USE RemoteAssumption
<1> SUFFICES ASSUME RemoteInv, [RemoteNext]_remoteVars PROVE RemoteInv'
  OBVIOUS
<1> USE DEF RemoteInv, RemoteTypeOK, OwnerNamed, Owning, AnswerKept, ClaimsMissed, FirstRun,
            SentOnly, RemoteNoConflict, Tries, HandlerPlaces, Conflict, At, Move
<1>0. ASSUME UNCHANGED <<runs, missed>> PROVE RemoteNoRerun'
  BY <1>0 DEF RemoteNoRerun
<1>1. CASE Post
  BY <1>0, <1>1 DEF Post
<1>2. CASE Unanswered
  BY <1>0, <1>2 DEF Unanswered
<1>3. CASE RunLocally
  BY <1>0, <1>3 DEF RunLocally
<1>4. ASSUME NEW h \in Tries, h <= tries, NEW what \in 1 .. MaxTries, Replied(h, what)
      PROVE  RemoteInv'
  <2>1. /\ handler' = [handler EXCEPT ![h] = "gone"]
        /\ UNCHANGED <<tries, mine, inFlight, completed, runs, missed>>
        /\ caller' \in {caller, "answered"} /\ answer' \in {answer, what}
    BY <1>4 DEF Replied
  <2>2. RemoteTypeOK' /\ RemoteNoConflict'
    BY <1>4, <2>1
  <2>3. OwnerNamed' /\ AnswerKept' /\ RemoteNoRerun'
    BY <1>0, <2>1
  <2>4. ClaimsMissed' /\ FirstRun'
    BY <2>1
  <2>5. SentOnly'
    BY <1>4, <2>1
  <2> QED BY <2>1, <2>2, <2>3, <2>4, <2>5
<1>5. ASSUME NEW h \in Tries, LookDone(h) \/ Awake(h) \/ Reply(h) PROVE RemoteInv'
  <2>0. h <= tries
    BY <1>5 DEF LookDone, Awake, Reply
  <2>1. CASE LookDone(h)
    <3>1. completed \in 1 .. MaxTries /\ Replied(h, completed)
      BY <2>1 DEF LookDone
    <3> QED BY ONLY <1>4, <2>0, <3>1
  <2>2. CASE Awake(h)
    <3>1. completed \in 1 .. MaxTries /\ Replied(h, completed)
      BY <2>2 DEF Awake
    <3> QED BY ONLY <1>4, <2>0, <3>1
  <2>3. CASE Reply(h)
    <3>1. h \in 1 .. MaxTries /\ Replied(h, h)
      BY <2>3 DEF Reply
    <3> QED BY ONLY <1>4, <2>0, <3>1
  <2> QED BY <1>5, <2>1, <2>2, <2>3
<1>6. ASSUME NEW h \in Tries, LookMiss(h) PROVE RemoteInv'
  BY <1>0, <1>6 DEF LookMiss
<1>7. ASSUME NEW h \in Tries, Claim(h) PROVE RemoteInv'
  <2>1. h <= tries /\ handler[h] = "claim"
    BY <1>7 DEF Claim
  <2>2. CASE inFlight = 0
    <3>1. /\ inFlight' = h /\ mine' = [mine EXCEPT ![h] = h] /\ runs' = runs \cup {h}
          /\ handler' = [handler EXCEPT ![h] = "run"]
          /\ UNCHANGED <<tries, caller, completed, missed, answer>>
      BY <1>7, <2>2 DEF Claim
    <3>2. RemoteTypeOK' /\ RemoteNoConflict'
      BY <3>1
    <3>3. OwnerNamed' /\ AnswerKept'
      BY <2>2, <3>1
    <3>6. completed = 0 => runs = {}
      BY <2>2
    <3>7. h # 0
      OBVIOUS
    <3>4. ClaimsMissed' /\ FirstRun' /\ SentOnly'
      <4>1. ClaimsMissed'
        BY <3>1
      <4>2. FirstRun'
        <5>1. completed' = 0 => runs' = {h}
          BY ONLY <3>1, <3>6
        <5> QED BY ONLY <3>1, <3>7, <5>1 DEF FirstRun
      <4>3. SentOnly'
        BY <2>1, <3>1
      <4> QED BY <4>1, <4>2, <4>3
    \* Before there is an answer it is the first; after, it is one that missed it.
    <3>5. RemoteNoRerun'
      <4>1. CASE completed = 0
        BY ONLY <3>1, <3>6, <4>1 DEF RemoteNoRerun
      <4>2. CASE completed # 0
        <5>1. h \in missed
          BY <2>1, <4>2
        <5>2. runs' \ missed' = runs \ missed
          BY ONLY <3>1, <5>1
        <5> QED BY ONLY <5>2, RemoteInv DEF RemoteInv, RemoteNoRerun, Tries
      <4> QED BY <4>1, <4>2
    <3> QED BY <3>2, <3>3, <3>4, <3>5
  <2>3. CASE inFlight # 0
    <3>1. /\ mine' = [mine EXCEPT ![h] = inFlight]
          /\ handler' = [handler EXCEPT ![h] = "listen"]
          /\ UNCHANGED <<tries, caller, inFlight, completed, runs, missed, answer>>
      BY <1>7, <2>3 DEF Claim
    <3>2. RemoteTypeOK' /\ RemoteNoConflict'
      BY <3>1
    <3>3. OwnerNamed' /\ AnswerKept' /\ RemoteNoRerun'
      BY <1>0, <3>1
    <3>4. ClaimsMissed' /\ FirstRun' /\ SentOnly'
      BY <2>1, <3>1
    <3> QED BY <3>2, <3>3, <3>4
  <2> QED BY <2>2, <2>3
<1>8. ASSUME NEW h \in Tries, Listen(h) PROVE RemoteInv'
  BY <1>0, <1>8 DEF Listen
<1>9. ASSUME NEW h \in Tries, RunEnds(h) PROVE RemoteInv'
  BY <1>0, <1>9 DEF RunEnds
<1>10. ASSUME NEW h \in Tries, Cache(h) PROVE RemoteInv'
  <2>1. /\ handler[h] = "cache" /\ completed' = h /\ handler' = [handler EXCEPT ![h] = "release"]
        /\ missed' = missed \cup {g \in Tries : handler[g] = "claim"}
        /\ UNCHANGED <<tries, caller, mine, inFlight, runs, answer>>
    BY <1>10 DEF Cache
  <2>2. RemoteTypeOK' /\ OwnerNamed' /\ AnswerKept' /\ SentOnly' /\ RemoteNoConflict'
    <3>1. RemoteTypeOK' /\ RemoteNoConflict'
      BY <2>1
    <3>2. OwnerNamed'
      BY <2>1
    <3>3. AnswerKept'
      BY <2>1
    <3>4. SentOnly'
      BY <2>1
    <3> QED BY <3>1, <3>2, <3>3, <3>4
  <2>3. ClaimsMissed'
    <3>1. ASSUME NEW g \in Tries, handler'[g] = "claim" PROVE g \in missed'
      BY <2>1, <3>1
    <3> QED BY ONLY <3>1 DEF ClaimsMissed, Tries
  <2>4. FirstRun'
    <3>1. completed' # 0
      BY <2>1
    <3> QED BY ONLY <3>1 DEF FirstRun
  <2>5. RemoteNoRerun'
    BY ONLY <2>1, RemoteInv DEF RemoteInv, RemoteNoRerun
  <2> QED BY <2>2, <2>3, <2>4, <2>5
<1>11. ASSUME NEW h \in Tries, Release(h) PROVE RemoteInv'
  BY <1>0, <1>11 DEF Release
<1>12. ASSUME NEW h \in Tries, WakeAll(h) PROVE RemoteInv'
  BY <1>0, <1>12 DEF WakeAll
<1>13. ASSUME NEW h \in Tries, Dropped(h) PROVE RemoteInv'
  BY <1>0, <1>13 DEF Dropped
<1>14. CASE UNCHANGED remoteVars
  BY <1>0, <1>14 DEF remoteVars
<1> QED BY <1>1, <1>2, <1>3, <1>5, <1>6, <1>7, <1>8, <1>9, <1>10, <1>11, <1>12, <1>13, <1>14
        DEF RemoteNext

(* However attempts are lost and repeated, and wherever a handler is       *)
(* dropped, the node does not execute a request twice at a time; a second  *)
(* execution is that of an attempt that had looked for the answer before   *)
(* it was cached and claimed after; and nobody is told that the request    *)
(* finished without an answer.                                             *)
THEOREM RemoteRunsOnceHolds == RemoteSpec => []RemoteRunsOnce
<1>1. RemoteInv => RemoteRunsOnce
  BY DEF RemoteInv, OwnerNamed, Owning, RemoteRunsOnce, RemoteOneAtATime, At
<1> QED BY <1>1, RemoteStarts, RemoteStep, PTL DEF RemoteSpec

-----------------------------------------------------------------------------
(* Recovery, for any number of tasks and rounds.                           *)

(* A row that was written once stays, and its checkpoint lags behind by    *)
(* one round unless it could not be written; what a scan reads of it keeps *)
(* telling what had run when it was read.                                  *)
RowsKnow ==
  \A t \in Tasks : /\ saved[t] <= rounds[t]
                   /\ row[t] # "none" => t \in unsaved \/ rounds[t] <= saved[t] + 1
Knows(f) == /\ f \in Found /\ f.saved <= f.executed /\ row[f.task] # "none"
            /\ f.unsaved \/ f.executed <= f.saved + 1
ScansKnow == /\ \A s \in Scanners : \A f \in found[s] : Knows(f)
             /\ \A p \in plans : Knows(p.of) /\ (p.late => p.action = "abandon")
RecoveryInv == RecoveryTypeOK /\ RowsKnow /\ ScansKnow

\* What a plan rests on stays true as long as no row is forgotten.
LEMMA KnowsStays ==
  ASSUME RecoveryInv, NEW f, Knows(f), \A t \in Tasks : row[t] # "none" => row'[t] # "none"
  PROVE  Knows(f)'
  BY DEF Knows, Found

LEMMA RecoveryTasks ==
  ASSUME RecoveryInv, NEW t \in Tasks,
         CreateTask(t) \/ RunRound(t) \/ Checkpoint(t) \/ EndTask(t) \/ GetOld(t)
  PROVE  RecoveryInv'
<1> USE RecoveryAssumption DEF RecoveryInv
<1>1. UNCHANGED scanVars /\ \A u \in Tasks : row[u] # "none" => row'[u] # "none"
  <2>1. row \in [Tasks -> Statuses]
    BY DEF RecoveryTypeOK
  <2> QED BY <2>1 DEF CreateTask, RunRound, Checkpoint, EndTask, GetOld
<1>2. ScansKnow'
  BY <1>1, KnowsStays DEF ScansKnow, scanVars
<1>3. RecoveryTypeOK'
  <2>1. /\ found' = found /\ looked' = looked /\ recoveredIds' = recoveredIds
        /\ plans' = plans /\ planned' = planned
    BY <1>1 DEF scanVars
  <2>2. /\ row' \in [Tasks -> Statuses]
        /\ saved' \in [Tasks -> 0 .. MaxRounds] /\ rounds' \in [Tasks -> 0 .. MaxRounds]
    <3>1. CASE CreateTask(t)
      BY <3>1 DEF CreateTask, RecoveryTypeOK, Statuses
    <3>2. CASE RunRound(t)
      BY <3>2 DEF RunRound, RecoveryTypeOK
    <3>3. CASE Checkpoint(t)
      BY <3>3 DEF Checkpoint, RecoveryTypeOK
    <3>4. CASE EndTask(t)
      BY <3>4 DEF EndTask, RecoveryTypeOK, Statuses
    <3>5. CASE GetOld(t)
      BY <3>5 DEF GetOld, RecoveryTypeOK
    <3> QED BY <3>1, <3>2, <3>3, <3>4, <3>5
  <2>3. working' \subseteq Tasks /\ unsaved' \subseteq Tasks /\ old' \subseteq Tasks
    BY DEF CreateTask, RunRound, Checkpoint, EndTask, GetOld, RecoveryTypeOK
  <2> QED BY <2>1, <2>2, <2>3 DEF RecoveryTypeOK
<1>4. RowsKnow'
  <2> USE DEF RecoveryTypeOK, RowsKnow
  <2>1. CASE CreateTask(t)
    BY <2>1 DEF CreateTask
  <2>2. CASE RunRound(t)
    BY <2>2 DEF RunRound
  <2>3. CASE Checkpoint(t)
    BY <2>3 DEF Checkpoint
  <2>4. CASE EndTask(t)
    BY <2>4 DEF EndTask
  <2>5. CASE GetOld(t)
    BY <2>5 DEF GetOld
  <2> QED BY <2>1, <2>2, <2>3, <2>4, <2>5
<1> QED BY <1>2, <1>3, <1>4

\* What is too old is abandoned.
LEMMA ClassifyOld ==
  ASSUME NEW f, NEW q, q = [of |-> f, late |-> f.task \in old, action |-> Classify(f)]
  PROVE  /\ q.of = f /\ q.late \in BOOLEAN /\ q.action \in {"resume", "restart", "abandon"}
         /\ q.late => q.action = "abandon"
<1>1. CASE f.task \in old
  <2>1. Classify(f) = "abandon" /\ (f.task \in old) = TRUE
    BY <1>1 DEF Classify
  <2> QED BY <2>1
<1>2. CASE f.task \notin old
  <2>1. Classify(f) \in {"resume", "restart"} /\ (f.task \in old) = FALSE
    BY <1>2 DEF Classify
  <2> QED BY <2>1
<1> QED BY <1>1, <1>2

LEMMA RecoveryScans ==
  ASSUME RecoveryInv, NEW s \in Scanners, LoadIncomplete(s) \/ LookUp(s) \/ PlanTask(s)
  PROVE  RecoveryInv'
<1> USE RecoveryAssumption DEF RecoveryInv
<1>1. UNCHANGED rowVars
  BY DEF LoadIncomplete, LookUp, PlanTask
<1>2. RowsKnow' /\ \A f : Knows(f)' <=> Knows(f)
  BY <1>1 DEF rowVars, RowsKnow, Knows
<1>3. CASE LoadIncomplete(s)
  <2>1. /\ found' = [found EXCEPT ![s] = Rows(Incomplete)]
        /\ UNCHANGED <<looked, recoveredIds, plans, planned>>
    BY <1>3 DEF LoadIncomplete
  <2>2. ASSUME NEW t \in Incomplete
        PROVE  Knows([task |-> t, saved |-> saved[t], executed |-> rounds[t],
                      unsaved |-> t \in unsaved])
    <3> DEFINE q == [task |-> t, saved |-> saved[t], executed |-> rounds[t],
                     unsaved |-> t \in unsaved]
    <3>1. t \in Tasks /\ row[t] # "none" /\ saved[t] \in 0 .. MaxRounds /\ rounds[t] \in 0 .. MaxRounds
      BY DEF Incomplete, RecoveryTypeOK
    <3>2. saved[t] <= rounds[t] /\ (t \in unsaved \/ rounds[t] <= saved[t] + 1)
      BY <3>1 DEF RowsKnow
    <3>3. q \in Found
      BY <3>1 DEF Found
    <3>4. /\ q.task = t /\ q.saved = saved[t] /\ q.executed = rounds[t]
          /\ q.unsaved <=> t \in unsaved
      OBVIOUS
    <3> HIDE DEF q
    <3>5. Knows(q)
      BY <3>1, <3>2, <3>3, <3>4 DEF Knows
    <3> QED BY <3>5 DEF q
  <2>3. \A f \in Rows(Incomplete) : Knows(f)
    BY <2>2 DEF Rows
  <2>4. \A r \in Scanners : \A f \in found'[r] : f \in found[r] \/ f \in Rows(Incomplete)
    BY <2>1
  <2>5. \A r \in Scanners : \A f \in found'[r] : Knows(f)
    BY <2>3, <2>4 DEF ScansKnow
  <2>6. found' \in [Scanners -> SUBSET Found]
    BY <2>1, <2>3 DEF Knows, RecoveryTypeOK
  <2> QED BY <1>1, <1>2, <2>1, <2>5, <2>6 DEF ScansKnow, RecoveryTypeOK, rowVars
<1>4. CASE LookUp(s)
  <2>1. /\ UNCHANGED <<recoveredIds, plans, planned>>
        /\ \A r \in Scanners : found'[r] \subseteq found[r]
        /\ found' \in [Scanners -> SUBSET Found]
        /\ looked' \in [Scanners -> Tasks \cup {NoTask}]
    <3>1. PICK f \in found[s] :
            \/ found' = [found EXCEPT ![s] = @ \ {f}] /\ UNCHANGED looked
            \/ looked' = [looked EXCEPT ![s] = f.task] /\ UNCHANGED found
      BY <1>4 DEF LookUp
    <3>2. f.task \in Tasks /\ looked \in [Scanners -> Tasks \cup {NoTask}]
      BY DEF ScansKnow, Knows, Found, RecoveryTypeOK
    <3>3. UNCHANGED <<recoveredIds, plans, planned>>
      BY <1>4 DEF LookUp
    <3>4. \A r \in Scanners : found'[r] \subseteq found[r]
      BY <3>1 DEF RecoveryTypeOK
    <3>6. found' \in [Scanners -> SUBSET Found]
      BY <3>1 DEF RecoveryTypeOK
    <3>5. looked' \in [Scanners -> Tasks \cup {NoTask}]
      BY <3>1, <3>2
    <3> QED BY <3>3, <3>4, <3>5, <3>6
  <2> QED BY <1>1, <1>2, <2>1 DEF ScansKnow, RecoveryTypeOK, rowVars
<1>5. CASE PlanTask(s)
  <2>1. PICK f \in found[s] :
          /\ f.task = looked[s]
          /\ plans' = plans \cup {[of |-> f, late |-> f.task \in old, action |-> Classify(f)]}
          /\ found' = [found EXCEPT ![s] = @ \ {f}]
          /\ planned' = [planned EXCEPT ![f.task] = IF @ < 2 THEN @ + 1 ELSE @]
    BY <1>5 DEF PlanTask
  <2>2. /\ recoveredIds' = recoveredIds \cup {looked[s]}
        /\ looked' = [looked EXCEPT ![s] = NoTask]
    BY <1>5 DEF PlanTask
  <2>3. Knows(f) /\ f.task \in Tasks
    BY DEF ScansKnow, Knows, Found
  <2> DEFINE q == [of |-> f, late |-> f.task \in old, action |-> Classify(f)]
  <2>4. /\ q.of = f /\ q.late \in BOOLEAN /\ q.action \in {"resume", "restart", "abandon"}
        /\ q.late => q.action = "abandon"
    BY ClassifyOld
  <2> HIDE DEF q
  <2>5. \A p \in plans' : p \in plans \/ p = q
    <3>1. plans' = plans \cup {q}
      BY <2>1 DEF q
    <3> QED BY <3>1
  <2>6. /\ \A r \in Scanners : found'[r] \subseteq found[r]
        /\ found' \in [Scanners -> SUBSET Found]
    BY <2>1 DEF RecoveryTypeOK
  <2>7. ScansKnow'
    BY <1>2, <2>3, <2>4, <2>5, <2>6 DEF ScansKnow
  <2>8. planned' \in [Tasks -> 0 .. 2] /\ looked' \in [Scanners -> Tasks \cup {NoTask}]
    BY <2>1, <2>2, <2>3 DEF RecoveryTypeOK
  <2>9. recoveredIds' \subseteq Tasks
    BY <2>1, <2>2, <2>3 DEF RecoveryTypeOK
  <2>10. \A p \in plans' :
           p.of \in Found /\ p.late \in BOOLEAN /\ p.action \in {"resume", "restart", "abandon"}
    BY <2>3, <2>4, <2>5 DEF RecoveryTypeOK, Knows
  <2> QED BY <1>1, <1>2, <2>6, <2>7, <2>8, <2>9, <2>10 DEF RecoveryTypeOK, rowVars
<1> QED BY <1>3, <1>4, <1>5

LEMMA RecoveryStep == RecoveryInv /\ [RecoveryNext]_recoveryVars => RecoveryInv'
<1> USE RecoveryAssumption
<1> SUFFICES ASSUME RecoveryInv, [RecoveryNext]_recoveryVars PROVE RecoveryInv'
  OBVIOUS
<1> USE DEF RecoveryInv
<1>1. CASE CrashAndStart
  <2>1. /\ UNCHANGED <<row, saved, rounds, unsaved, old>> /\ working' = {} /\ plans' = {}
        /\ found' = [s \in Scanners |-> {}] /\ looked' = [s \in Scanners |-> NoTask]
        /\ recoveredIds' = {} /\ planned' = [t \in Tasks |-> 0]
    BY <1>1 DEF CrashAndStart
  <2>2. RowsKnow' /\ ScansKnow'
    BY <2>1 DEF RowsKnow, ScansKnow
  <2> QED BY <2>1, <2>2 DEF RecoveryTypeOK
<1>2. ASSUME NEW p \in plans, ApplyAbandonment(p) PROVE RecoveryInv'
  <2>1. /\ row' = [row EXCEPT ![p.of.task] = "failed"]
        /\ UNCHANGED <<saved, rounds, working, unsaved, old, scanVars>>
    BY <1>2 DEF ApplyAbandonment
  <2>2. p.of.task \in Tasks /\ row[p.of.task] # "none"
    BY DEF ScansKnow, Knows, Found
  <2>3. /\ \A t \in Tasks : row[t] # "none" <=> row'[t] # "none"
        /\ row' \in [Tasks -> Statuses]
    BY <2>1, <2>2 DEF RecoveryTypeOK, Statuses
  <2>4. ScansKnow'
    BY <2>1, <2>3, KnowsStays DEF ScansKnow, scanVars
  <2>5. RowsKnow'
    BY <2>1, <2>3 DEF RowsKnow
  <2> QED BY <2>1, <2>3, <2>4, <2>5 DEF RecoveryTypeOK, scanVars
<1>3. CASE UNCHANGED recoveryVars
  BY <1>3 DEF recoveryVars, RecoveryTypeOK, RowsKnow, ScansKnow, Knows
<1> QED BY <1>1, <1>2, <1>3, RecoveryTasks, RecoveryScans DEF RecoveryNext

LEMMA RecoveryStarts == RecoveryInit => RecoveryInv
<1> USE RecoveryAssumption
<1> SUFFICES ASSUME RecoveryInit PROVE RecoveryInv
  OBVIOUS
<1>1. RecoveryTypeOK
  BY DEF RecoveryInit, RecoveryTypeOK, Statuses
<1>2. RowsKnow /\ ScansKnow
  BY DEF RecoveryInit, RowsKnow, ScansKnow
<1> QED BY <1>1, <1>2 DEF RecoveryInv

(* Where scans do not overlap, what a scanner has found unmarked is not    *)
(* marked before it marks it itself.                                       *)
OneScanner == \A r, s \in Scanners : r = s
PlannedMarked ==
  /\ \A t \in Tasks : planned[t] <= 1 /\ (planned[t] = 1 => t \in recoveredIds)
  /\ \A s \in Scanners : looked[s] # NoTask => looked[s] \notin recoveredIds

LEMMA PlannedStep ==
  ASSUME OneScanner, RecoveryInv, PlannedMarked, [RecoveryNext]_recoveryVars
  PROVE  PlannedMarked'
<1> USE DEF RecoveryInv, RecoveryTypeOK
<1>1. ASSUME NEW s \in Scanners, PlanTask(s) PROVE PlannedMarked'
  <2>1. PICK f \in found[s] :
          /\ f.task = looked[s]
          /\ planned' = [planned EXCEPT ![f.task] = IF @ < 2 THEN @ + 1 ELSE @]
    BY <1>1 DEF PlanTask
  <2>2. /\ recoveredIds' = recoveredIds \cup {looked[s]} /\ looked[s] # NoTask
        /\ looked' = [looked EXCEPT ![s] = NoTask]
    BY <1>1 DEF PlanTask
  <2>3. looked[s] \in Tasks /\ planned[looked[s]] = 0
    BY <2>1, <2>2 DEF PlannedMarked
  <2>4. planned' = [planned EXCEPT ![looked[s]] = 1]
    BY <2>1, <2>3
  <2>5. \A r \in Scanners : looked'[r] = NoTask
    BY <2>2 DEF OneScanner
  <2> QED BY <2>2, <2>3, <2>4, <2>5 DEF PlannedMarked
<1>2. ASSUME NEW s \in Scanners, LookUp(s) PROVE PlannedMarked'
  BY <1>2 DEF LookUp, PlannedMarked
<1>3. ASSUME NEW s \in Scanners, LoadIncomplete(s) PROVE PlannedMarked'
  BY <1>3 DEF LoadIncomplete, PlannedMarked
<1>4. CASE CrashAndStart
  BY <1>4 DEF CrashAndStart, PlannedMarked
<1>5. CASE UNCHANGED scanVars
  BY <1>5 DEF scanVars, PlannedMarked
<1>6. CASE \E t \in Tasks : CreateTask(t) \/ RunRound(t) \/ Checkpoint(t) \/ EndTask(t) \/ GetOld(t)
  BY <1>5, <1>6 DEF CreateTask, RunRound, Checkpoint, EndTask, GetOld
<1>7. CASE \E p \in plans : ApplyAbandonment(p)
  BY <1>5, <1>7 DEF ApplyAbandonment
<1>8. CASE UNCHANGED recoveryVars
  BY <1>5, <1>8 DEF recoveryVars, scanVars
<1> QED BY <1>1, <1>2, <1>3, <1>4, <1>6, <1>7, <1>8 DEF RecoveryNext

(* Whatever writes fail and wherever the process ends, a plan tells of no  *)
(* round that did not run and misses at most the last one unless its       *)
(* checkpoint could not be written, and nothing too old is executed again. *)
THEOREM PlanKnowsWhatRanHolds == RecoverySpec => []PlanKnowsWhatRan
<1>1. RecoveryInv => PlanKnowsWhatRan
  BY DEF RecoveryInv, ScansKnow, Knows, PlanKnowsWhatRan
<1> QED BY <1>1, RecoveryStarts, RecoveryStep, PTL DEF RecoverySpec

(* And one process plans a task once, however often it scans, as long as   *)
(* one scan ends before the next: the look at recovered_ids and the mark   *)
(* in it are under two locks.                                              *)
THEOREM RecoverySoundHolds == ASSUME OneScanner PROVE RecoverySpec => []RecoverySound
<1>1. RecoveryInit => PlannedMarked
  BY DEF RecoveryInit, PlannedMarked
<1>2. RecoveryInv /\ PlannedMarked /\ [RecoveryNext]_recoveryVars => PlannedMarked'
  BY PlannedStep
<1>3. PlannedMarked => RecoveredOnce
  BY DEF PlannedMarked, RecoveredOnce
<1>4. RecoverySpec => []RecoveredOnce
  BY <1>1, <1>2, <1>3, RecoveryStarts, RecoveryStep, PTL DEF RecoverySpec
<1> QED BY <1>4, PlanKnowsWhatRanHolds, PTL DEF RecoverySound

-----------------------------------------------------------------------------
(* The browser, for any number of calls and launches.                      *)

(* Whoever launches or prepares holds the locks and found the slot empty;  *)
(* with nothing in the slot what still runs was given up, or is being      *)
(* prepared.                                                               *)
Preparing == {"launch", "prepare"}
LockHeld == /\ \A c \in BrowserCalls : callStep[c] \in Preparing => locker = c /\ slot = 0
            /\ \A c \in BrowserCalls : TabAt(c, "prepare") => launches # 0
Prepares(n) == n = launches /\ \E c \in BrowserCalls : TabAt(c, "prepare")
ChromesReached == \A n \in chromes : n = slot \/ Prepares(n)
ChildrenReached == slot = 0 => \A n \in children : n \in failed \/ (n = pid /\ Prepares(n))
BrowserInv == /\ BrowserTypeOK /\ LockHeld /\ ChromesReached /\ ChildrenReached
              /\ PageOfSlot /\ ChildrenKnown /\ OnTheClock

LEMMA BrowserStarts == BrowserInit => BrowserInv
<1> USE BrowserAssumption
<1> SUFFICES ASSUME BrowserInit PROVE BrowserInv
  OBVIOUS
<1>1. BrowserTypeOK
  BY DEF BrowserInit, BrowserTypeOK
<1>2. LockHeld /\ ChromesReached /\ ChildrenReached /\ PageOfSlot /\ ChildrenKnown /\ OnTheClock
  BY DEF BrowserInit, LockHeld, Preparing, TabAt, ChromesReached, ChildrenReached, PageOfSlot,
     ChildrenKnown, OnTheClock
<1> QED BY <1>1, <1>2 DEF BrowserInv

\* A call that goes on without touching what the slots hold.
LEMMA BrowserCallGoesOn ==
  ASSUME BrowserInv, NEW c \in BrowserCalls,
         \/ FindsPage(c) \/ FindsNothing(c) \/ LaunchFails(c) \/ NoteUse(c) \/ Return(c)
         \/ Capture(c) \/ Captured(c)
  PROVE  BrowserInv'
<1> USE BrowserAssumption
<1> USE DEF BrowserInv
<1>1. /\ UNCHANGED <<slot, shown, pid, launches, chromes, children, watchdog, failed>>
      /\ ~TabAt(c, "prepare")
      /\ \E step \in {"launch", "idle", "got", "use", "capture", "close"} : TabTo(c, step)
      /\ lastUsed' \in {lastUsed, "recent"}
      /\ pageLock' \in {pageLock, NoCall, c}
      /\ \/ locker' = locker /\ callStep'[c] \notin Preparing
         \/ locker' = c /\ locker = NoCall /\ slot = 0
         \/ locker' = NoCall /\ callStep[c] \in Preparing /\ callStep'[c] \notin Preparing
  BY DEF FindsPage, FindsNothing, LaunchFails, NoteUse, Return, Capture, Captured, TabAt, TabTo,
     LocksFree, Preparing, BrowserTypeOK, PageOfSlot
<1>2. \A d \in BrowserCalls : d # c => callStep'[d] = callStep[d]
  BY <1>1 DEF TabTo, BrowserTypeOK
<1>3. BrowserTypeOK'
  BY <1>1 DEF BrowserTypeOK, TabTo
<1>4. LockHeld'
  <2>1. callStep'[c] # "prepare"
    BY <1>1 DEF TabTo, BrowserTypeOK
  <2>2. \A d \in BrowserCalls : TabAt(d, "prepare")' => launches' # 0
    BY <1>1, <1>2, <2>1 DEF LockHeld, TabAt
  <2>3. \A d \in BrowserCalls : callStep'[d] \in Preparing => locker' = d /\ slot' = 0
    BY <1>1, <1>2 DEF LockHeld, Preparing
  <2> QED BY <2>2, <2>3 DEF LockHeld
<1>5. \A n : Prepares(n) => Prepares(n)'
  BY <1>1, <1>2 DEF Prepares, TabAt
<1> QED BY <1>1, <1>3, <1>4, <1>5 DEF ChromesReached, ChildrenReached, PageOfSlot, ChildrenKnown,
        OnTheClock

\* A call that finds its page gone, launches, and puts the browser in its slot.
LEMMA BrowserCallLaunches ==
  ASSUME BrowserInv, NEW c \in BrowserCalls,
         Launch(c) \/ PrepareFails(c) \/ BrowserReady(c)
  PROVE  BrowserInv'
<1> USE BrowserAssumption
<1> USE DEF BrowserInv
<1>1. /\ locker = c /\ slot = 0 /\ UNCHANGED <<pageLock, watchdog>>
      /\ \A d \in BrowserCalls : d # c => callStep[d] \notin Preparing
      /\ \E step \in {"prepare", "idle", "got"} : TabTo(c, step)
  BY DEF Launch, PrepareFails, BrowserReady, TabAt, LockHeld, Preparing
<1>2. \A d \in BrowserCalls : d # c => callStep'[d] = callStep[d]
  BY <1>1 DEF TabTo, BrowserTypeOK
<1>3. CASE Launch(c)
  <2>1. /\ TabAt(c, "launch") /\ launches' = launches + 1 /\ chromes' = chromes \cup {launches'}
        /\ callStep'[c] = "prepare" /\ launches < MaxLaunches
        /\ \/ pid' = launches' /\ children' = children \cup {launches'}
           \/ pid' = pid /\ children' = children
        /\ UNCHANGED <<slot, shown, locker, lastUsed, failed>>
    BY <1>3 DEF Launch, TabTo, BrowserTypeOK
  <2>2. \A n : ~Prepares(n) /\ Prepares(launches)'
    BY <1>1, <2>1 DEF Prepares, TabAt, Preparing
  <2>3. BrowserTypeOK'
    BY <1>1, <2>1 DEF BrowserTypeOK, TabTo
  <2>4. LockHeld'
    BY <1>1, <1>2, <2>1 DEF LockHeld, TabAt, BrowserTypeOK
  <2>5. ChromesReached'
    BY <1>1, <2>1, <2>2 DEF ChromesReached, BrowserTypeOK
  <2>6. ChildrenReached'
    BY <1>1, <2>1, <2>2 DEF ChildrenReached
  <2>7. ChildrenKnown'
    BY <1>1, <2>1, <2>2 DEF ChildrenReached, ChildrenKnown
  <2> QED BY <2>1, <2>3, <2>4, <2>5, <2>6, <2>7 DEF PageOfSlot, OnTheClock
<1>4. CASE PrepareFails(c)
  <2>1. /\ chromes' = chromes \ {launches} /\ failed' = failed \cup {launches}
        /\ callStep'[c] = "idle" /\ locker' = NoCall /\ TabAt(c, "prepare")
        /\ UNCHANGED <<slot, shown, pid, launches, children, lastUsed>>
    BY <1>4 DEF PrepareFails, TabTo, BrowserTypeOK
  <2>2. \A n : Prepares(n) => n = launches
    BY DEF Prepares
  <2>3. BrowserTypeOK'
    <3>1. launches \in 1 .. MaxLaunches
      BY <2>1 DEF LockHeld, BrowserTypeOK
    <3> QED BY <1>1, <2>1, <3>1 DEF BrowserTypeOK, TabTo
  <2>4. LockHeld'
    BY <1>1, <1>2, <2>1 DEF LockHeld, Preparing, TabAt
  <2>5. ChromesReached' /\ ChildrenReached' /\ ChildrenKnown'
    BY <2>1, <2>2 DEF ChromesReached, ChildrenReached, ChildrenKnown
  <2> QED BY <2>1, <2>3, <2>4, <2>5 DEF PageOfSlot, OnTheClock
<1>5. CASE BrowserReady(c)
  <2>1. /\ slot' = launches /\ shown' = launches /\ lastUsed' = "recent"
        /\ callStep'[c] = "got" /\ locker' = NoCall
        /\ UNCHANGED <<pid, launches, chromes, children, failed>>
    BY <1>5 DEF BrowserReady, TabTo, BrowserTypeOK
  <2>2. \A n : Prepares(n) => n = launches
    BY DEF Prepares
  <2>3. BrowserTypeOK'
    BY <1>1, <2>1 DEF BrowserTypeOK, TabTo
  <2>4. LockHeld'
    BY <1>1, <1>2, <2>1 DEF LockHeld, Preparing, TabAt
  <2>5. \A n \in chromes \cup children : n # 0
    BY DEF BrowserTypeOK
  <2>6. ChromesReached'
    BY <1>1, <2>1, <2>2, <2>5 DEF ChromesReached
  <2>7. ChildrenReached'
    BY <1>1, <2>1, <2>2, <2>5 DEF ChildrenReached
  <2>8. ChildrenKnown'
    BY <2>1 DEF ChildrenKnown
  <2> QED BY <2>1, <2>3, <2>4, <2>6, <2>7, <2>8 DEF PageOfSlot, OnTheClock
<1> QED BY <1>3, <1>4, <1>5

\* The browser is dropped while nobody holds the locks.
LEMMA BrowserDropped ==
  ASSUME BrowserInv, \A c \in BrowserCalls : callStep[c] \notin Preparing,
         DropBrowser, UNCHANGED <<launches, failed>>, lastUsed' \in {lastUsed, "never"},
         watchdog' \in {"asleep", "closing", "off"}, locker' \in BrowserCalls \cup {NoCall},
         pageLock' = pageLock,
         callStep' \in [BrowserCalls -> {"idle", "launch", "prepare", "got", "use", "capture",
                                         "close"}],
         \A c \in BrowserCalls : callStep'[c] # "prepare" /\ (callStep'[c] = "launch" => locker' = c)
  PROVE  BrowserInv'
<1> USE BrowserAssumption
<1> USE DEF BrowserInv
<1>1. /\ slot' = 0 /\ shown' = 0 /\ pid' = 0
      /\ chromes' = chromes \ {slot} /\ children' = children \ {pid}
  BY DEF DropBrowser
<1>2. \A n : ~Prepares(n)
  BY DEF Prepares, Preparing, TabAt
<1>3. chromes' = {} /\ children' \subseteq failed
  BY <1>1, <1>2 DEF ChromesReached, ChildrenKnown
<1>4. BrowserTypeOK'
  BY <1>1 DEF BrowserTypeOK
<1>5. LockHeld'
  BY <1>1 DEF LockHeld, Preparing, TabAt
<1> QED BY <1>1, <1>3, <1>4, <1>5 DEF ChromesReached, ChildrenReached, PageOfSlot, ChildrenKnown,
        OnTheClock

LEMMA BrowserCloses ==
  ASSUME BrowserInv,
         \/ \E c \in BrowserCalls : PageGone(c) \/ CloseBrowser(c)
         \/ IdleClose \/ DropTool
  PROVE  BrowserInv'
<1> USE BrowserAssumption
<1>1. LockHeld /\ BrowserTypeOK
  BY DEF BrowserInv
<1>2. \A c \in BrowserCalls : callStep[c] \notin Preparing
  BY <1>1 DEF PageGone, CloseBrowser, IdleClose, DropTool, LocksFree, LockHeld, TabAt, Preparing
<1>3. ASSUME NEW c \in BrowserCalls, PageGone(c) PROVE BrowserInv'
  <2>1. /\ DropBrowser /\ locker' = c /\ callStep' = [callStep EXCEPT ![c] = "launch"]
        /\ UNCHANGED <<launches, pageLock, lastUsed, watchdog, failed>>
    BY <1>3 DEF PageGone, TabTo
  <2>2. \A d \in BrowserCalls : callStep'[d] # "prepare" /\ (callStep'[d] = "launch" => d = c)
    BY <1>1, <1>2, <2>1 DEF BrowserTypeOK, Preparing
  <2> QED BY <1>1, <1>2, <2>1, <2>2, BrowserDropped DEF BrowserTypeOK
<1>4. ASSUME NEW c \in BrowserCalls, CloseBrowser(c) PROVE BrowserInv'
  <2>1. /\ callStep' = [callStep EXCEPT ![c] = "idle"]
        /\ UNCHANGED <<launches, locker, pageLock, watchdog, failed>>
    BY <1>4 DEF CloseBrowser, TabTo
  <2>2. \A d \in BrowserCalls : callStep'[d] \notin Preparing
    BY <1>1, <1>2, <2>1 DEF Preparing, BrowserTypeOK
  <2>3. CASE slot # 0
    <3>1. DropBrowser /\ lastUsed' = "never"
      BY <1>4, <2>3 DEF CloseBrowser
    <3> QED BY <1>1, <1>2, <2>1, <2>2, <3>1, BrowserDropped DEF BrowserTypeOK, Preparing
  <2>4. CASE slot = 0
    <3>1. UNCHANGED <<slot, shown, pid, chromes, children, lastUsed>>
      BY <1>4, <2>4 DEF CloseBrowser
    <3>2. \A n : ~Prepares(n)
      BY <1>2 DEF Prepares, Preparing, TabAt
    <3>3. BrowserTypeOK'
      BY <1>1, <2>1, <3>1 DEF BrowserTypeOK
    <3>4. LockHeld'
      BY <2>2 DEF LockHeld, Preparing, TabAt
    <3> QED BY <2>1, <3>1, <3>2, <3>3, <3>4 DEF BrowserInv, ChromesReached,
            ChildrenReached, PageOfSlot, ChildrenKnown, OnTheClock
  <2> QED BY <2>3, <2>4
<1>5. CASE IdleClose
  <2>1. UNCHANGED <<launches, locker, pageLock, callStep, failed>> /\ watchdog' = "asleep"
    BY <1>5 DEF IdleClose
  <2>3. CASE slot # 0
    <3>1. DropBrowser /\ lastUsed' = "never"
      BY <1>5, <2>3 DEF IdleClose
    <3> QED BY <1>1, <1>2, <2>1, <3>1, BrowserDropped DEF BrowserTypeOK, Preparing
  <2>4. CASE slot = 0
    <3>1. UNCHANGED <<slot, shown, pid, chromes, children, lastUsed>>
      BY <1>5, <2>4 DEF IdleClose
    <3>3. BrowserTypeOK'
      BY <1>1, <2>1, <3>1 DEF BrowserTypeOK
    <3> QED BY <2>1, <3>1, <3>3 DEF BrowserInv, LockHeld, ChromesReached, Prepares, TabAt,
            ChildrenReached, PageOfSlot, ChildrenKnown, OnTheClock
  <2> QED BY <2>3, <2>4
<1>6. CASE DropTool
  <2>1. /\ DropBrowser /\ watchdog' = "off"
        /\ UNCHANGED <<launches, locker, pageLock, callStep, lastUsed, failed>>
    BY <1>6 DEF DropTool
  <2> QED BY <1>1, <1>2, <2>1, BrowserDropped DEF BrowserTypeOK, Preparing
<1> QED BY <1>3, <1>4, <1>5, <1>6

LEMMA BrowserStep == BrowserInv /\ [BrowserNext]_browserVars => BrowserInv'
<1> USE BrowserAssumption
<1> SUFFICES ASSUME BrowserInv, [BrowserNext]_browserVars PROVE BrowserInv'
  OBVIOUS
<1>1. CASE FindIdle \/ TimePasses \/ UNCHANGED browserVars
  <2>1. /\ UNCHANGED <<slot, shown, pid, launches, chromes, children, locker, pageLock, callStep,
                       failed>>
        /\ (lastUsed' = lastUsed \/ lastUsed' = "old")
        /\ watchdog' \in {watchdog, "closing"}
    BY <1>1 DEF FindIdle, TimePasses, browserVars
  <2> QED BY <2>1 DEF BrowserInv, BrowserTypeOK, LockHeld, ChromesReached, Prepares, TabAt,
          ChildrenReached, PageOfSlot, ChildrenKnown, OnTheClock
<1>2. CASE ChromeDies
  <2>1. /\ UNCHANGED <<slot, shown, pid, launches, children, locker, pageLock, callStep, lastUsed,
                       watchdog, failed>>
        /\ chromes' \subseteq chromes
    BY <1>2 DEF ChromeDies
  <2> QED BY <2>1 DEF BrowserInv, BrowserTypeOK, LockHeld, ChromesReached, Prepares, TabAt,
          ChildrenReached, PageOfSlot, ChildrenKnown, OnTheClock
<1> QED BY <1>1, <1>2, BrowserCallGoesOn, BrowserCallLaunches, BrowserCloses DEF BrowserNext

(* Whoever calls, closes, fails or idles: at most one Chrome runs, and in  *)
(* reach; the page is of the browser in the slot; children that run are    *)
(* known by the pid or were given up; a browser is on the clock.           *)
THEOREM BrowserSoundHolds == BrowserSpec => []BrowserSound
<1>1. BrowserInv => BrowserSound
  BY DEF BrowserInv, BrowserSound, ChromesReached, Prepares, NoStrayChrome
<1> QED BY <1>1, BrowserStarts, BrowserStep, PTL DEF BrowserSpec

-----------------------------------------------------------------------------
(* The pool of contexts, for any number of workers and slots.              *)

(* The bitset, what the workers use and what is lost are apart, and the    *)
(* context of an available slot remembers nobody.                          *)
Using == {"using", "dispose", "giveBack"}
PageLoaded == \A w \in PoolWorkers : Browsing(w, "exchange") => loaded[w] # {}
UsesSlot == \A w \in PoolWorkers : slotOf[w] # 0 <=> browsing[w] \in Using
Apart ==
  /\ \A w \in PoolWorkers : slotOf[w] \notin available \cup lostSlots
  /\ available \cap lostSlots = {}
Fresh == /\ \A s \in available : visitedBy[s] = {}
         /\ \A w \in PoolWorkers : Browsing(w, "giveBack") => visitedBy[slotOf[w]] = {}
PoolInv == PoolTypeOK /\ PageLoaded /\ UsesSlot /\ Apart /\ Fresh /\ PoolExclusive /\ PoolClean

\* Of the slots of a bitset one is the lowest.
LEMMA LowestIsOfThem == ASSUME NEW S \in SUBSET PoolSlots, S # {} PROVE Lowest(S) \in S
<1>1. S \subseteq Nat
  BY PoolAssumption DEF PoolSlots
<1>2. PICK x \in S : \A y \in S : ~(<<y, x>> \in OpToRel(<, Nat))
  BY <1>1, NatLessThanWellFounded, WFMin
<1>3. \A y \in S : ~(y < x)
  <2>1. ASSUME NEW y \in S, y < x PROVE <<y, x>> \in OpToRel(<, Nat)
    BY <1>1, <2>1 DEF OpToRel
  <2> QED BY <1>2, <2>1
<1>4. \A y \in S : x <= y
  BY <1>1, <1>3
<1> QED BY <1>4 DEF Lowest

LEMMA PoolStarts == PoolInit => PoolInv
<1> USE PoolAssumption
<1> SUFFICES ASSUME PoolInit PROVE PoolInv
  OBVIOUS
<1>1. PoolTypeOK
  BY DEF PoolInit, PoolTypeOK, PoolSlots
<1>2. PageLoaded /\ UsesSlot /\ Apart /\ Fresh /\ PoolExclusive /\ PoolClean
  BY DEF PoolInit, PageLoaded, UsesSlot, Using, Apart, Fresh, PoolExclusive, PoolClean, Browsing, PoolSlots
<1> QED BY <1>1, <1>2 DEF PoolInv

LEMMA PoolStep == PoolInv /\ [PoolNext]_poolVars => PoolInv'
<1> USE PoolAssumption
<1> SUFFICES ASSUME PoolInv, [PoolNext]_poolVars PROVE PoolInv'
  OBVIOUS
<1> USE DEF PoolInv, PoolTypeOK, Browsing, BrowseTo
<1>1. ASSUME NEW w \in PoolWorkers, LoadBitset(w) PROVE PoolInv'
  BY <1>1 DEF LoadBitset, PageLoaded, UsesSlot, Using, Apart, Fresh, PoolExclusive, PoolClean
<1>2. ASSUME NEW w \in PoolWorkers, Exchange(w) PROVE PoolInv'
  <2>1. UNCHANGED <<loaded, pageOn, visitedBy, lostSlots>> /\ Browsing(w, "exchange")
    BY <1>2 DEF Exchange
  <2>2. CASE available = loaded[w]
    <3>1. PICK s \in available : /\ available' = available \ {s} /\ slotOf' = [slotOf EXCEPT ![w] = s]
                                 /\ browsing' = [browsing EXCEPT ![w] = "using"]
      BY <1>2, <2>1, <2>2, LowestIsOfThem DEF Exchange, PageLoaded
    <3>2. s \in PoolSlots /\ s # 0
      BY DEF PoolSlots
    <3>3. PoolTypeOK' /\ PageLoaded' /\ UsesSlot'
      BY <2>1, <3>1, <3>2 DEF PageLoaded, UsesSlot, Using
    <3>4. Apart' /\ Fresh'
      BY <2>1, <3>1, <3>2 DEF Apart, Fresh
    <3>5. PoolExclusive' /\ PoolClean'
      BY <2>1, <3>1, <3>2 DEF PoolExclusive, PoolClean, Apart, Fresh
    <3> QED BY <3>3, <3>4, <3>5
  <2>3. CASE available # loaded[w]
    BY <1>2, <2>1, <2>3 DEF Exchange, PageLoaded, UsesSlot, Using, Apart, Fresh, PoolExclusive, PoolClean
  <2> QED BY <2>2, <2>3
<1>3. ASSUME NEW w \in PoolWorkers, UsePage(w) PROVE PoolInv'
  <2>1. slotOf[w] \in PoolSlots
    BY <1>3 DEF UsePage, UsesSlot, Using
  <2>2. /\ UNCHANGED <<available, browsing, loaded, slotOf, lostSlots>>
        /\ pageOn' = pageOn \cup {slotOf[w]} /\ Browsing(w, "using")
        /\ visitedBy' = [visitedBy EXCEPT ![slotOf[w]] = @ \cup {w}]
    BY <1>3 DEF UsePage
  <2>3. PoolTypeOK' /\ PageLoaded' /\ UsesSlot' /\ Apart' /\ PoolExclusive'
    BY <2>1, <2>2 DEF PageLoaded, UsesSlot, Apart, PoolExclusive
  <2>4. \A v \in PoolWorkers : v # w => slotOf[v] # slotOf[w]
    BY <2>1, PoolAssumption DEF PoolExclusive, PoolSlots
  <2>5. Fresh'
    BY <2>1, <2>2, <2>4 DEF Fresh, Apart, UsesSlot, Using
  <2>6. PoolClean'
    BY <2>1, <2>2, <2>4 DEF PoolClean
  <2> QED BY <2>3, <2>5, <2>6
<1>4. ASSUME NEW w \in PoolWorkers, ClosePage(w) PROVE PoolInv'
  BY <1>4 DEF ClosePage, PageLoaded, UsesSlot, Using, Apart, Fresh, PoolExclusive, PoolClean
<1>5. ASSUME NEW w \in PoolWorkers, ReturnSlot(w) PROVE PoolInv'
  <2>1. slotOf[w] \in PoolSlots /\ visitedBy[slotOf[w]] = {}
    BY <1>5 DEF ReturnSlot, UsesSlot, Using, Fresh
  <2>2. /\ UNCHANGED <<loaded, pageOn, visitedBy, lostSlots>>
        /\ browsing' = [browsing EXCEPT ![w] = "idle"] /\ slotOf' = [slotOf EXCEPT ![w] = 0]
        /\ available' = available \cup {slotOf[w]}
    BY <1>5 DEF ReturnSlot
  <2>3. \A v \in PoolWorkers : v # w => slotOf[v] # slotOf[w]
    BY <2>1 DEF PoolExclusive, PoolSlots
  <2>4. 0 \notin PoolSlots
    BY DEF PoolSlots
  <2>5. PoolTypeOK' /\ PageLoaded' /\ UsesSlot'
    BY <2>1, <2>2 DEF PageLoaded, UsesSlot, Using
  <2>6. Apart'
    BY <2>1, <2>2, <2>3, <2>4 DEF Apart
  <2>7. Fresh' /\ PoolExclusive' /\ PoolClean'
    BY <2>1, <2>2, <2>3 DEF Fresh, PoolExclusive, PoolClean
  <2> QED BY <2>5, <2>6, <2>7
<1>6. ASSUME NEW w \in PoolWorkers, ReplaceContext(w) \/ DropWorker(w) PROVE PoolInv'
  <2>1. slotOf[w] \in PoolSlots
    BY <1>6 DEF ReplaceContext, DropWorker, UsesSlot, Using
  <2>2. \A v \in PoolWorkers : v # w => slotOf[v] # slotOf[w]
    BY <2>1 DEF PoolExclusive, PoolSlots
  <2>3. 0 \notin PoolSlots
    BY DEF PoolSlots
  <2>4. UNCHANGED <<available, loaded, pageOn>> /\ slotOf[w] \notin available
    BY <1>6 DEF ReplaceContext, DropWorker, Apart
  <2>5. CASE /\ visitedBy' = [visitedBy EXCEPT ![slotOf[w]] = {}]
             /\ browsing' = [browsing EXCEPT ![w] = "giveBack"] /\ UNCHANGED <<slotOf, lostSlots>>
             /\ browsing[w] \in Using
    <3>1. PoolTypeOK' /\ PageLoaded' /\ UsesSlot' /\ Apart' /\ PoolExclusive'
      BY <2>1, <2>4, <2>5 DEF PageLoaded, UsesSlot, Using, Apart, PoolExclusive
    <3>2. Fresh' /\ PoolClean'
      BY <2>1, <2>2, <2>4, <2>5 DEF Fresh, PoolClean
    <3> QED BY <3>1, <3>2
  <2>6. CASE /\ lostSlots' = lostSlots \cup {slotOf[w]} /\ browsing' = [browsing EXCEPT ![w] = "idle"]
             /\ slotOf' = [slotOf EXCEPT ![w] = 0] /\ UNCHANGED visitedBy
    <3>1. PoolTypeOK' /\ PageLoaded' /\ UsesSlot'
      BY <2>1, <2>4, <2>6 DEF PageLoaded, UsesSlot, Using
    <3>2. Apart'
      BY <2>1, <2>2, <2>3, <2>4, <2>6 DEF Apart
    <3>3. Fresh' /\ PoolClean' /\ PoolExclusive'
      BY <2>1, <2>2, <2>4, <2>6 DEF Fresh, PoolClean, PoolExclusive
    <3> QED BY <3>1, <3>2, <3>3
  <2> QED BY <1>6, <2>5, <2>6 DEF ReplaceContext, DropWorker, Using
<1>7. CASE UNCHANGED poolVars
  BY <1>7 DEF poolVars, PageLoaded, UsesSlot, Apart, Fresh, PoolExclusive, PoolClean
<1> QED BY <1>1, <1>2, <1>3, <1>4, <1>5, <1>6, <1>7 DEF PoolNext

(* A slot belongs to one worker at a time, and its context remembers       *)
(* nobody else's pages, however loads, exchanges, releases and dropped     *)
(* workers overlap.                                                        *)
THEOREM PoolSoundHolds == PoolSpec => []PoolSound
<1>1. PoolInv => PoolSound
  BY DEF PoolInv, PoolSound
<1> QED BY <1>1, PoolStarts, PoolStep, PTL DEF PoolSpec

-----------------------------------------------------------------------------
(* A batch of tool calls, for any number of calls, files and permits.      *)

(* The groups are those of the calls, a call starts after what comes       *)
(* before it in its group, and what was joined is answered.                *)
Grouped == \/ groupOf = Grouping
           \/ \A i \in Batch : groupOf[i] = {} /\ place[i] = "waiting"
InGroupOrder == \A j \in Batch : \A i \in groupOf[j] :
                  i < j /\ place[j] # "waiting" => place[i] = "ended"
JoinedAnswered == \A i \in joined : results[i] # "none"
ExecutorInv == ExecutorTypeOK /\ Grouped /\ InGroupOrder /\ JoinedAnswered

\* Calls that depend on each other are in one group, and each is in its own.
LEMMA DependentTogether ==
  ASSUME NEW i \in Batch, NEW j \in Batch, Dependent(calls[i], calls[j])
  PROVE  i \in Grouping[j]
<1> DEFINE pairs == {p \in Batch \X Batch : Dependent(calls[p[1]], calls[p[2]])}
<1>1. <<i, j>> \in pairs
  OBVIOUS
<1> HIDE DEF pairs
<1>2. \A C \in SUBSET Batch : j \in C /\ (\A p \in pairs : p[1] \in C <=> p[2] \in C) => i \in C
  BY <1>1
<1>3. Classes(pairs)[j] = {k \in Batch : \A C \in SUBSET Batch :
        j \in C /\ (\A p \in pairs : p[1] \in C <=> p[2] \in C) => k \in C}
  BY DEF Classes
<1>4. Grouping = Classes(pairs)
  BY DEF Grouping, pairs
<1> QED BY <1>2, <1>3, <1>4

LEMMA GroupingTyped == Grouping \in [Batch -> SUBSET Batch]
  BY DEF Grouping, Classes

LEMMA ExecutorStarts == ExecutorInit => ExecutorInv
<1> SUFFICES ASSUME ExecutorInit PROVE ExecutorInv
  OBVIOUS
<1> QED BY DEF ExecutorInit, ExecutorInv, ExecutorTypeOK, Grouped, InGroupOrder, JoinedAnswered

LEMMA ExecutorStep == ExecutorInv /\ [ExecutorNext]_executorVars => ExecutorInv'
<1> SUFFICES ASSUME ExecutorInv, [ExecutorNext]_executorVars PROVE ExecutorInv'
  OBVIOUS
<1> USE DEF ExecutorInv
<1>1. ASSUME UNCHANGED calls PROVE Grouping' = Grouping
  BY <1>1 DEF Grouping, Classes, Dependent, WritePaths
<1>2. CASE Spawn
  <2>1. groupOf' = Grouping /\ UNCHANGED <<calls, place, joined, results>>
    BY <1>2 DEF Spawn
  <2>2. Grouped' /\ ExecutorTypeOK'
    BY <1>1, <2>1, GroupingTyped DEF Grouped, ExecutorTypeOK
  <2>3. \A i \in Batch : place[i] = "waiting"
    <3>1. \A i \in Batch : i \in Grouping[i]
      BY DEF Grouping, Classes
    <3> QED BY <1>2, <3>1 DEF Spawn, Grouped
  <2>4. InGroupOrder' /\ JoinedAnswered'
    BY <2>1, <2>3 DEF InGroupOrder, JoinedAnswered
  <2> QED BY <2>2, <2>4
<1>3. ASSUME NEW i \in Batch, StartCall(i) \/ EndCall(i) PROVE ExecutorInv'
  <2>1. /\ UNCHANGED <<calls, groupOf, joined, results>>
        /\ \/ place[i] = "waiting" /\ place' = [place EXCEPT ![i] = "running"]
              /\ groupOf[i] # {} /\ \A j \in groupOf[i] : j < i => place[j] = "ended"
           \/ place[i] = "running"
              /\ \E end \in {"ended", "panicked"} : place' = [place EXCEPT ![i] = end]
    BY <1>3 DEF StartCall, EndCall
  <2>2. ExecutorTypeOK'
    BY <2>1 DEF ExecutorTypeOK
  <2>3. Grouped'
    BY <1>1, <2>1 DEF Grouped, ExecutorTypeOK
  <2>4. InGroupOrder'
    BY <2>1 DEF InGroupOrder, ExecutorTypeOK
  <2> QED BY <2>1, <2>2, <2>3, <2>4 DEF JoinedAnswered
<1>4. ASSUME NEW i \in Batch, Join(i) PROVE ExecutorInv'
  <2>1. PICK given \in {"panicked", "own"} :
          results' = [j \in Batch |-> IF j \in groupOf[i] THEN given ELSE results[j]]
    BY <1>4 DEF Join
  <2>2. joined' = joined \cup groupOf[i] /\ UNCHANGED <<calls, groupOf, place>>
    BY <1>4 DEF Join
  <2>3. ExecutorTypeOK' /\ JoinedAnswered'
    BY <2>1, <2>2 DEF ExecutorTypeOK, JoinedAnswered
  <2> QED BY <1>1, <2>2, <2>3 DEF Grouped, InGroupOrder
<1>5. CASE UNCHANGED executorVars
  BY <1>1, <1>5 DEF executorVars, ExecutorTypeOK, Grouped, InGroupOrder, JoinedAnswered
<1> QED BY <1>2, <1>3, <1>4, <1>5 DEF ExecutorNext

(* Calls that name a file one of them writes are made in the order the     *)
(* model asked for, whatever else is made at the same time; and each call  *)
(* has an answer in the end, even after a panic.                           *)
THEOREM BatchInOrderHolds == ExecutorSpec => []BatchInOrder
<1>1. ExecutorInv => ConflictsInOrder
  <2> SUFFICES ASSUME ExecutorInv, NEW i \in Batch, NEW j \in Batch, i < j,
                      calls[i].paths \cap calls[j].paths # {},
                      calls[i].tool = "file_write" \/ calls[j].tool = "file_write",
                      place[j] # "waiting"
               PROVE  place[i] = "ended"
    BY DEF ConflictsInOrder
  <2>1. Dependent(calls[i], calls[j])
    BY DEF Dependent, WritePaths
  <2>2. groupOf = Grouping
    BY DEF ExecutorInv, Grouped
  <2> QED BY <2>1, <2>2, DependentTogether DEF ExecutorInv, InGroupOrder
<1>2. ExecutorInv => EveryCallAnswered
  BY DEF ExecutorInv, JoinedAnswered, EveryCallAnswered
<1>3. ExecutorInv => BatchInOrder
  BY <1>1, <1>2 DEF BatchInOrder
<1> QED BY <1>3, ExecutorStarts, ExecutorStep, PTL DEF ExecutorSpec

-----------------------------------------------------------------------------
(* The run queue, for any number of chats and messages.                    *)

RunQueueInv == queue \in Seq(Msgs) /\ inHand \in Msgs \cup {NoMsg}

\* What stands behind the message that is taken comes to the front.
LEMMA RotatedNearer ==
  ASSUME queue \in Seq(Msgs), NEW f \in DOMAIN queue, NEW i \in DOMAIN queue, f < i
  PROVE  i - f \in DOMAIN RotatedPast(f) /\ RotatedPast(f)[i - f] = queue[i]
<1> DEFINE back == SubSeq(queue, f + 1, Len(queue))
           front == SubSeq(queue, 1, f - 1)
<1>1. f \in 1 .. Len(queue) /\ i \in 1 .. Len(queue) /\ Len(queue) \in Nat
  OBVIOUS
<1>2. /\ back \in Seq(Msgs) /\ Len(back) = Len(queue) - f
      /\ \A k \in 1 .. (Len(queue) - f) : back[k] = queue[f + k]
  BY <1>1
<1>3. front \in Seq(Msgs) /\ Len(front) = f - 1
  BY <1>1
<1> HIDE DEF back, front
<1>4. i - f \in 1 .. Len(back) /\ back[i - f] = queue[i]
  BY <1>1, <1>2
<1>5. Len(back \o front) = Len(queue) - 1 /\ back \o front \in Seq(Msgs)
  BY <1>1, <1>2, <1>3
<1>6. DOMAIN (back \o front) = 1 .. (Len(queue) - 1) /\ (back \o front)[i - f] = back[i - f]
  <2>1. (back \o front)[i - f] = back[i - f]
    BY <1>2, <1>3, <1>4
  <2> QED BY <1>5, <2>1
<1>7. i - f \in 1 .. (Len(queue) - 1)
  BY <1>1
<1> QED BY <1>4, <1>6, <1>7 DEF RotatedPast, back, front

LEMMA RunQueueSteps == RunQueueInv /\ [RunQueueNext]_runQueueVars => RunQueueInv'
<1> SUFFICES ASSUME RunQueueInv, [RunQueueNext]_runQueueVars PROVE RunQueueInv'
  OBVIOUS
<1> USE DEF RunQueueInv
<1>1. ASSUME NEW m \in Msgs, HandOut(m) PROVE RunQueueInv'
  <2>1. PICK i \in DOMAIN queue : queue' = RotatedPast(i)
    BY <1>1 DEF HandOut, TakeNext
  <2>2. SubSeq(queue, i + 1, Len(queue)) \in Seq(Msgs) /\ SubSeq(queue, 1, i - 1) \in Seq(Msgs)
    BY <2>1
  <2> QED BY <1>1, <2>1, <2>2 DEF RotatedPast, HandOut
<1>2. ASSUME NEW m \in Msgs, Push(m) PROVE queue' \in Seq(Msgs)
  BY <1>2 DEF Push
<1>3. ASSUME NEW m \in Msgs, Submit(m) PROVE RunQueueInv'
  BY <1>2, <1>3 DEF Submit
<1>4. CASE PutBack
  <2>1. inHand \in Msgs /\ inHand' = NoMsg
    BY <1>4 DEF PutBack
  <2>2. Push(inHand) \/ UNCHANGED queue
    BY <1>4 DEF PutBack, schedVars
  <2> QED BY <1>2, <2>1, <2>2
<1>5. CASE CountSent
  BY <1>5 DEF CountSent, MarkDispatched
<1>6. CASE \E c \in Chats : ClearOne(c)
  BY <1>6 DEF ClearOne, MarkComplete
<1>7. CASE UNCHANGED runQueueVars
  BY <1>7 DEF runQueueVars
<1> QED BY <1>1, <1>3, <1>4, <1>5, <1>6, <1>7 DEF RunQueueNext

\* A step brings every message whose chat has a free place nearer, if it hands
\* one out.
LEMMA WaitShrinksStep ==
  ASSUME RunQueueInv, NEW n \in Msgs, NEW i \in DOMAIN queue, HandOut(n), queue[i] # n,
         active[ChatOf[queue[i]]] < MaxActive
  PROVE  \E k \in DOMAIN queue' : k < i /\ queue'[k] = queue[i]
<1>1. PICK f \in DOMAIN queue : IsFirstReady(f) /\ n = queue[f] /\ queue' = RotatedPast(f)
  BY DEF HandOut, TakeNext
<1>2. f <= i /\ f # i /\ f \in Nat /\ i \in Nat /\ f >= 1
  <2>1. i \in Ready
    BY DEF Ready
  <2>2. DOMAIN queue = 1 .. Len(queue) /\ Len(queue) \in Nat
    BY DEF RunQueueInv
  <2> QED BY <1>1, <2>1, <2>2 DEF IsFirstReady
<1>3. i - f \in DOMAIN queue' /\ queue'[i - f] = queue[i]
  BY <1>1, <1>2, RotatedNearer DEF RunQueueInv
<1> QED BY <1>2, <1>3

(* next never puts a message whose chat has a free place behind another:   *)
(* whenever one is handed out it comes nearer to the front.                *)
THEOREM WaitShrinksHolds == RunQueueSpec => WaitShrinks
<1>1. RunQueueInit => RunQueueInv
  BY DEF RunQueueInit, RunQueueInv, SchedulerInit
<1>2. RunQueueInv /\ [RunQueueNext]_runQueueVars =>
        [\A n \in Msgs, i \in DOMAIN queue :
           HandOut(n) /\ queue[i] # n /\ active[ChatOf[queue[i]]] < MaxActive
             => \E k \in DOMAIN queue' : k < i /\ queue'[k] = queue[i]]_runQueueVars
  BY WaitShrinksStep
<1> QED BY <1>1, <1>2, RunQueueSteps, PTL DEF RunQueueSpec, WaitShrinks

-----------------------------------------------------------------------------
(* The manager of tool servers, for any number of servers, users and health *)
(* checks.                                                                  *)

(* A connection has one handle, and once a health check has chosen to       *)
(* restart it that handle says connected no more.                           *)
Handles == [conn : Nat, restarts : Nat, status : {"none", "connected", "disconnected", "failed"}]
ConnsNumbered == /\ conns \in Nat /\ servers \in [ServerNames -> Handles]
                 /\ \A n \in Present : servers[n].conn \in 1 .. conns
OneHandle == \A n, m \in Present : servers[n].conn = servers[m].conn => n = m
RestartedIsMarked ==
  \A p \in restarted : /\ p \in Checkers \X (1 .. conns)
                       /\ \A n \in Present : servers[n].conn = p[2] => servers[n].status # "connected"
McpInv == ConnsNumbered /\ OneHandle /\ RestartedIsMarked /\ RestartedOnce

\* What a health check makes of a handle.
LEMMA MarkedDead ==
  ASSUME NEW h \in Handles, NEW k, k = [h EXCEPT !.status = "failed"]
  PROVE  k \in Handles /\ k.conn = h.conn /\ k.status = "failed"
  BY DEF Handles
\* Handles are taken out, others stay.
LEMMA HandlesTaken ==
  ASSUME McpInv, UNCHANGED <<conns, restarted>>, NEW n,
         servers' = [servers EXCEPT ![n] = Absent]
  PROVE  McpInv'
<1>1. Absent \in Handles
  BY DEF Absent, Handles
<1>2. servers' \in [ServerNames -> Handles]
  BY <1>1 DEF McpInv, ConnsNumbered
<1>3. ASSUME NEW m \in Present' PROVE m \in Present /\ servers'[m] = servers[m]
  BY <1>2, <1>3 DEF Present, McpInv, ConnsNumbered
<1>4. ConnsNumbered'
  BY <1>2, <1>3 DEF McpInv, ConnsNumbered
<1>5. OneHandle'
  BY <1>3 DEF McpInv, OneHandle
<1>6. RestartedIsMarked'
  BY <1>3 DEF McpInv, RestartedIsMarked
<1> QED BY <1>4, <1>5, <1>6 DEF McpInv, RestartedOnce

LEMMA McpStarts == McpInit => McpInv
<1> SUFFICES ASSUME McpInit PROVE McpInv
  OBVIOUS
<1>1. Absent \in Handles
  BY DEF Absent, Handles
<1>2. Present = {}
  BY DEF McpInit, Present
<1> QED BY <1>1, <1>2 DEF McpInit, McpInv, ConnsNumbered, OneHandle, RestartedIsMarked, RestartedOnce

LEMMA McpStep == McpInv /\ [McpNext]_mcpVars => McpInv'
<1> SUFFICES ASSUME McpInv, [McpNext]_mcpVars PROVE McpInv'
  OBVIOUS
<1>1. ASSUME UNCHANGED <<servers, conns, restarted>> PROVE McpInv'
  BY <1>1 DEF McpInv, ConnsNumbered, OneHandle, RestartedIsMarked, RestartedOnce, Present
<1>2. ASSUME NEW a, GiveUp(a) PROVE McpInv'
  BY <1>1, <1>2 DEF GiveUp
<1>3. ASSUME NEW u \in McpUsers, NEW n \in ServerNames,
             AddServer(u, n) \/ RemoveServer(u, n) \/ RestartServer(u, n)
      PROVE  McpInv'
  BY <1>1, <1>3, HandlesTaken DEF AddServer, RemoveServer, RestartServer
<1>4. ASSUME NEW c \in Checkers, Scan(c) PROVE McpInv'
  <2> DEFINE dead == {n \in Present : servers[n].status = "connected" /\ servers[n].conn \in deadConns}
             again == {n \in dead : servers[n].restarts < MaxRestarts}
  <2>1. /\ restarted' = restarted \cup {<<c, servers[n].conn>> : n \in again} /\ conns' = conns
        /\ servers' = [n \in ServerNames |->
             IF n \in again THEN [conn |-> servers[n].conn, status |-> "disconnected",
                                  restarts |-> servers[n].restarts + 1]
             ELSE IF n \in dead THEN [servers[n] EXCEPT !.status = "failed"]
             ELSE servers[n]]
    BY <1>4, Zenon DEF Scan
  <2>2. ASSUME NEW n \in ServerNames
        PROVE  servers'[n] = IF n \in again
                               THEN [conn |-> servers[n].conn, status |-> "disconnected",
                                  restarts |-> servers[n].restarts + 1]
                             ELSE IF n \in dead THEN [servers[n] EXCEPT !.status = "failed"]
                             ELSE servers[n]
    BY <2>1, Zenon
  <2>3. again \subseteq dead /\ dead \subseteq Present
    OBVIOUS
  <2>4. \A n \in dead : servers[n].status = "connected" /\ n \in ServerNames /\ servers[n] # Absent
    BY DEF Present
  <2>5. \A n \in ServerNames : servers[n] \in Handles
    BY DEF McpInv, ConnsNumbered
  <2> HIDE DEF again, dead
  <2>6. ASSUME NEW n \in dead
        PROVE  /\ servers'[n] \in Handles /\ servers'[n].conn = servers[n].conn
               /\ servers'[n].status # "connected" /\ servers'[n] # Absent
    <3>1. n \in ServerNames /\ servers[n] \in Handles
      BY <2>4, <2>5
    <3>2. CASE n \in again
      <4>1. servers'[n] = [conn |-> servers[n].conn, status |-> "disconnected",
                                  restarts |-> servers[n].restarts + 1]
        BY <2>2, <3>1, <3>2, Zenon
      <4>2. /\ servers'[n] \in Handles /\ servers'[n].conn = servers[n].conn
            /\ servers'[n].status = "disconnected"
        BY <3>1, <4>1 DEF Handles
      <4> QED BY <4>2 DEF Absent
    <3>3. CASE n \notin again
      <4>1. servers'[n] = [servers[n] EXCEPT !.status = "failed"]
        BY <2>2, <3>1, <3>3, Zenon
      <4> QED BY <3>1, <4>1, MarkedDead DEF Absent
    <3> QED BY <3>2, <3>3
  <2>7. \A n \in ServerNames : n \notin dead => servers'[n] = servers[n]
    BY <2>2, <2>3
  <2>8. Present' = Present
    BY <2>4, <2>6, <2>7 DEF Present
  <2>9. \A n \in Present : servers'[n].conn = servers[n].conn
    BY <2>6, <2>7 DEF Present
  <2>10. ConnsNumbered'
    <3>1. servers' \in [ServerNames -> Handles]
      <4>1. \A n \in ServerNames : servers'[n] \in Handles
        BY <2>5, <2>6, <2>7
      <4>2. DOMAIN servers' = ServerNames
        BY <2>1, Zenon
      <4>3. servers' = [n \in ServerNames |-> servers'[n]]
        BY <2>1, Zenon
      <4> QED BY <4>1, <4>3
    <3> QED BY <2>1, <2>8, <2>9, <3>1 DEF McpInv, ConnsNumbered
  <2>11. OneHandle'
    BY <2>8, <2>9 DEF McpInv, OneHandle
  <2>12. \A p \in restarted' : p \in restarted \/ \E n \in again : p = <<c, servers[n].conn>>
    BY <2>1
  <2>13. RestartedIsMarked'
    <3> SUFFICES ASSUME NEW p \in restarted'
                 PROVE  /\ p \in Checkers \X (1 .. conns)
                        /\ \A n \in Present : servers'[n].conn = p[2] => servers'[n].status # "connected"
      BY <2>1, <2>8 DEF RestartedIsMarked
    <3>1. CASE p \in restarted
      BY <2>6, <2>7, <2>9, <3>1 DEF McpInv, RestartedIsMarked, Present
    <3>2. CASE p \notin restarted
      <4>1. PICK m \in again : p = <<c, servers[m].conn>>
        BY <2>12, <3>2
      <4>2. m \in Present /\ m \in dead /\ servers[m].conn \in 1 .. conns
        BY <2>3 DEF McpInv, ConnsNumbered
      <4>3. \A n \in Present : servers[n].conn = servers[m].conn => n = m
        BY <4>2 DEF McpInv, OneHandle
      <4> QED BY <2>6, <2>9, <4>1, <4>2, <4>3
    <3> QED BY <3>1, <3>2
  <2>14. RestartedOnce'
    <3>1. \A p \in restarted : \A n \in again : p[2] # servers[n].conn
      BY <2>3, <2>4 DEF McpInv, RestartedIsMarked
    <3>2. \A n, m \in again : servers[n].conn = servers[m].conn => n = m
      BY <2>3 DEF McpInv, OneHandle
    <3> QED BY <2>12, <3>1, <3>2 DEF McpInv, RestartedOnce
  <2> QED BY <2>10, <2>11, <2>13, <2>14 DEF McpInv
<1>5. ASSUME NEW c \in Checkers, ScanEnds(c) \/ \E n \in ServerNames : RestartNext(c, n)
      PROVE  McpInv'
  BY <1>1, <1>5 DEF ScanEnds, RestartNext
<1>6. ASSUME NEW a \in Actors, Take(a) PROVE McpInv'
  BY <1>6, HandlesTaken DEF Take
<1>7. ASSUME NEW a \in Actors, Limit(a) \/ Load(a) \/ Save(a) PROVE McpInv'
  BY <1>1, <1>2, <1>7 DEF Limit, Load, Save
<1>8. ASSUME NEW a \in Actors, Connect(a) PROVE McpInv'
  <2> DEFINE new == [conn |-> conns + 1, status |-> "connected", restarts |-> 0]
  <2>1. CASE GiveUp(a)
    BY <1>2, <2>1
  <2>2. CASE ~GiveUp(a)
    <3>1. /\ conns' = conns + 1 /\ restarted' = restarted
          /\ servers' = [servers EXCEPT ![mcpStep[a].name] = new]
      BY <1>8, <2>2 DEF Connect
    <3>2. conns \in Nat /\ new \in Handles /\ new.conn = conns + 1
      BY DEF McpInv, ConnsNumbered, Handles
    <3> HIDE DEF new
    <3>3. servers' \in [ServerNames -> Handles]
      BY <3>1, <3>2 DEF McpInv, ConnsNumbered
    <3>4. ASSUME NEW n \in Present'
          PROVE  \/ n = mcpStep[a].name /\ servers'[n] = new
                 \/ n \in Present /\ servers'[n] = servers[n] /\ n # mcpStep[a].name
      BY <3>1, <3>3 DEF Present, McpInv, ConnsNumbered
    <3>5. \A n \in Present : servers[n].conn \in 1 .. conns
      BY DEF McpInv, ConnsNumbered
    <3>6. ConnsNumbered'
      BY <3>1, <3>2, <3>3, <3>4, <3>5 DEF ConnsNumbered
    <3>7. OneHandle'
      <4> SUFFICES ASSUME NEW n \in Present', NEW m \in Present', servers'[n].conn = servers'[m].conn
                   PROVE  n = m
        BY DEF OneHandle
      <4> QED BY <3>2, <3>4, <3>5 DEF McpInv, OneHandle
    <3>8. RestartedIsMarked'
      <4> SUFFICES ASSUME NEW p \in restarted
                   PROVE  /\ p \in Checkers \X (1 .. conns')
                          /\ \A n \in Present' : servers'[n].conn = p[2] => servers'[n].status # "connected"
        BY <3>1 DEF RestartedIsMarked
      <4>1. p \in Checkers \X (1 .. conns) /\ p[2] # conns + 1
        BY <3>2 DEF McpInv, RestartedIsMarked
      <4> QED BY <3>1, <3>2, <3>4, <4>1 DEF McpInv, RestartedIsMarked
    <3> QED BY <3>1, <3>6, <3>7, <3>8 DEF McpInv, RestartedOnce
  <2> QED BY <2>1, <2>2
<1>9. ASSUME NEW n \in ServerNames, ServerDies(n) PROVE McpInv'
  BY <1>1, <1>9 DEF ServerDies
<1>10. CASE UNCHANGED mcpVars
  BY <1>1, <1>10 DEF mcpVars
<1> QED BY <1>3, <1>4, <1>5, <1>6, <1>7, <1>8, <1>9, <1>10 DEF McpNext

(* One death of a server is answered by one automatic restart, however the *)
(* health checks overlap: what one has chosen to restart is marked under   *)
(* the lock under which it was found dead.                                 *)
THEOREM RestartedOnceHolds == McpSpec => []RestartedOnce
<1>1. McpInv => RestartedOnce
  BY DEF McpInv
<1> QED BY <1>1, McpStarts, McpStep, PTL DEF McpSpec

-----------------------------------------------------------------------------
(* Calls of a tool server, for any number of them.                         *)

(* A call is between its place in the map and its end as long as nobody    *)
(* has used its sender; and when the end of the output was noticed, only   *)
(* calls that had passed the flag before still come into the map.          *)
InMap == {"lock", "write", "wait"}
SendersOfCalls ==
  \A c \in CallIds :
    /\ c \in pending => call[c] \notin {"none", "insert"} /\ told[c] = "nothing"
    /\ told[c] # "nothing" => call[c] \notin {"none", "insert"}
    /\ call[c] \in InMap /\ told[c] = "nothing" => c \in pending
AfterTheEnd ==
  /\ reader \in {"drain", "ended"} => ~alive /\ \A c \in CallIds : CallAt(c, "insert") => c \in racing
  /\ reader = "ended" =>
       \A c \in CallIds : call[c] \in InMap /\ told[c] = "nothing" => c \in racing
RpcInv == RpcTypeOK /\ SendersOfCalls /\ RpcNoStaleSender /\ AfterTheEnd

LEMMA RpcStarts == RpcInit => RpcInv
  BY DEF RpcInit, RpcInv, RpcTypeOK, SendersOfCalls, RpcNoStaleSender, AfterTheEnd, InMap, CallAt

\* A call goes on, and no sender is used.
LEMMA CallGoesOn ==
  ASSUME RpcInv, NEW c \in CallIds, NEW spot \in Under \cup Ended, CallTo(c, spot),
         UNCHANGED <<reader, told, racing>>, alive' \in BOOLEAN, alive' => alive,
         process' = process, stdin' \in {0} \cup CallIds, requests' \subseteq CallIds, answers' = answers,
         pending' \subseteq CallIds, dropped' \subseteq CallIds, dropped \subseteq dropped',
         pending' \ {c} = pending \ {c},
         c \in pending' => spot # "insert" /\ told[c] = "nothing" /\ (spot \in Under \/ c \in dropped'),
         told[c] # "nothing" => spot # "insert",
         spot \in InMap /\ told[c] = "nothing" => c \in pending',
         reader \in {"drain", "ended"} /\ spot = "insert" => c \in racing,
         reader = "ended" /\ spot \in InMap /\ told[c] = "nothing" => c \in racing
  PROVE  RpcInv'
<1>1. call' = [call EXCEPT ![c] = spot] /\ call' \in [CallIds -> {"none"} \cup Under \cup Ended]
  BY DEF CallTo, RpcInv, RpcTypeOK
<1>2. spot # "none"
  BY DEF Under, Ended
<1>3. RpcTypeOK'
  BY <1>1 DEF RpcInv, RpcTypeOK
<1>4. \A d \in CallIds : d # c => call'[d] = call[d] /\ (d \in pending' <=> d \in pending)
  BY <1>1 DEF RpcInv, RpcTypeOK
<1>5. call'[c] = spot
  BY <1>1 DEF RpcInv, RpcTypeOK
<1>6. SendersOfCalls'
  BY <1>2, <1>4, <1>5 DEF RpcInv, SendersOfCalls
<1>7. RpcNoStaleSender'
  BY <1>3, <1>4, <1>5 DEF RpcInv, RpcTypeOK, RpcNoStaleSender
<1>8. AfterTheEnd'
  BY <1>4, <1>5 DEF RpcInv, RpcTypeOK, AfterTheEnd, CallAt
<1> QED BY <1>3, <1>6, <1>7, <1>8 DEF RpcInv

LEMMA RpcCallStep ==
  ASSUME RpcInv, NEW c \in CallIds,
         \/ Send(c) \/ InsertSender(c) \/ LockStdin(c) \/ WriteRequest(c) \/ ForgetFailed(c)
         \/ Receive(c) \/ TimeOut(c) \/ ForgetTimedOut(c) \/ CancelCall(c)
  PROVE  RpcInv'
<1> USE DEF RpcInv, RpcTypeOK, CallAt
<1>1. CASE Send(c)
  <2>1. c \notin pending /\ told[c] = "nothing"
    BY <1>1 DEF Send, SendersOfCalls
  <2>2. CASE alive
    <3>1. CallTo(c, "insert") /\ reader \notin {"drain", "ended"}
      BY <1>1, <2>2 DEF Send, AfterTheEnd
    <3> QED BY <1>1, <2>1, <3>1, CallGoesOn DEF Send, Under, InMap
  <2>3. CASE ~alive
    <3>1. CallTo(c, "notRunning")
      BY <1>1, <2>3 DEF Send
    <3> QED BY <1>1, <2>1, <3>1, CallGoesOn DEF Send, Ended, InMap
  <2> QED BY <2>2, <2>3
<1>2. CASE InsertSender(c)
  <2>1. told[c] = "nothing" /\ (reader \in {"drain", "ended"} => c \in racing)
    BY <1>2 DEF InsertSender, SendersOfCalls, AfterTheEnd
  <2> QED BY <1>2, <2>1, CallGoesOn DEF InsertSender, Under, InMap
<1>3. CASE LockStdin(c)
  <2>1. /\ told[c] = "nothing" => c \in pending /\ (reader = "ended" => c \in racing)
        /\ c \in pending => told[c] = "nothing"
    BY <1>3 DEF LockStdin, SendersOfCalls, AfterTheEnd, InMap
  <2> QED BY <1>3, <2>1, CallGoesOn DEF LockStdin, Under
<1>4. CASE WriteRequest(c)
  <2>1. /\ told[c] = "nothing" => c \in pending /\ (reader = "ended" => c \in racing)
        /\ c \in pending => told[c] = "nothing"
    BY <1>4 DEF WriteRequest, SendersOfCalls, AfterTheEnd, InMap
  <2>2. CASE process = "exited"
    BY <1>4, <2>1, <2>2, CallGoesOn DEF WriteRequest, Under, InMap
  <2>3. CASE process # "exited"
    BY <1>4, <2>1, <2>3, CallGoesOn DEF WriteRequest, Under
  <2> QED BY <2>2, <2>3
<1>5. CASE ForgetFailed(c)
  BY <1>5, CallGoesOn DEF ForgetFailed, Ended, InMap
<1>6. CASE Receive(c)
  <2>1. c \notin pending /\ told[c] \in {"answered", "exited", "droppedSender"}
    BY <1>6 DEF Receive, SendersOfCalls
  <2> QED BY <1>6, <2>1, CallGoesOn DEF Receive, Ended, InMap
<1>7. CASE TimeOut(c)
  BY <1>7, CallGoesOn DEF TimeOut, Under, InMap
<1>8. CASE ForgetTimedOut(c)
  BY <1>8, CallGoesOn DEF ForgetTimedOut, Ended, InMap
<1>9. CASE CancelCall(c)
  <2>1. c \in pending => told[c] = "nothing"
    BY DEF SendersOfCalls
  <2> QED BY <1>9, <2>1, CallGoesOn DEF CancelCall, Ended, InMap
<1> QED BY <1>1, <1>2, <1>3, <1>4, <1>5, <1>6, <1>7, <1>8, <1>9

\* Senders are used, calls stay where they are.
LEMMA SendersUsed ==
  ASSUME RpcInv, NEW used \in SUBSET pending, NEW word \in {"answered", "exited", "droppedSender"},
         UNCHANGED <<alive, call, stdin, process, racing, dropped>>, requests' = requests,
         answers' \subseteq CallIds, pending' = pending \ used,
         told' = [c \in CallIds |-> IF c \in used THEN word ELSE told[c]],
         \/ reader' = reader
         \/ reader = "drain" /\ reader' = "ended" /\ used = pending
  PROVE  RpcInv'
<1>1. told' \in [CallIds -> {"nothing", "answered", "exited", "droppedSender"}]
  BY DEF RpcInv, RpcTypeOK
<1>2. RpcTypeOK'
  BY <1>1 DEF RpcInv, RpcTypeOK
<1>3. \A c \in CallIds : told'[c] = "nothing" <=> c \notin used /\ told[c] = "nothing"
  OBVIOUS
<1>4. SendersOfCalls'
  BY <1>3 DEF RpcInv, SendersOfCalls
<1>5. RpcNoStaleSender'
  BY DEF RpcInv, RpcNoStaleSender
<1>6. AfterTheEnd'
  BY <1>3 DEF RpcInv, AfterTheEnd, SendersOfCalls, CallAt
<1> QED BY <1>2, <1>4, <1>5, <1>6 DEF RpcInv

LEMMA RpcStep == RpcInv /\ [RpcNext]_rpcVars => RpcInv'
<1> SUFFICES ASSUME RpcInv, [RpcNext]_rpcVars PROVE RpcInv'
  OBVIOUS
<1>1. ASSUME UNCHANGED <<call, stdin, pending, told, racing, dropped>>,
             requests' \subseteq CallIds, answers' \subseteq CallIds,
             process' \in {"up", "exited", "silent", "unreadable"}, alive' \in BOOLEAN, alive' => alive,
             \/ reader' = reader
             \/ reader' = "gaveUp"
      PROVE  RpcInv'
  BY <1>1 DEF RpcInv, RpcTypeOK, SendersOfCalls, RpcNoStaleSender, AfterTheEnd, CallAt
<1>2. ASSUME NEW c \in CallIds, ReadAnswer(c) PROVE RpcInv'
  <2>1. CASE c \in pending
    <3>1. told' = [d \in CallIds |-> IF d \in {c} THEN "answered" ELSE told[d]]
      BY <1>2, <2>1 DEF ReadAnswer, RpcInv, RpcTypeOK
    <3>2. {c} \subseteq pending /\ answers' \subseteq CallIds /\ pending' = pending \ {c}
      BY <1>2, <2>1 DEF ReadAnswer, RpcInv, RpcTypeOK
    <3> QED BY <1>2, <3>1, <3>2, SendersUsed DEF ReadAnswer
  <2>2. CASE c \notin pending
    BY <1>1, <1>2, <2>2 DEF ReadAnswer, RpcInv, RpcTypeOK
  <2> QED BY <2>1, <2>2
<1>3. ASSUME NEW c \in CallIds, ServerAnswers(c) PROVE RpcInv'
  BY <1>1, <1>3 DEF ServerAnswers, RpcInv, RpcTypeOK
<1>4. ASSUME UNCHANGED <<call, stdin, pending, told, requests, answers, racing, dropped>>,
             process' \in {process, "exited", "silent", "unreadable"},
             alive' = alive \/ alive' = FALSE, reader' = reader \/ reader' = "gaveUp"
      PROVE  RpcInv'
  <2>1. alive' \in BOOLEAN /\ (alive' => alive)
    <3>1. alive \in BOOLEAN
      BY DEF RpcInv, RpcTypeOK
    <3>2. CASE alive' = alive
      BY <3>1, <3>2, Zenon
    <3>3. CASE alive' = FALSE
      BY <3>3, Zenon
    <3> QED BY <1>4, <3>2, <3>3, Zenon
  <2>2. process' \in {"up", "exited", "silent", "unreadable"}
    BY <1>4 DEF RpcInv, RpcTypeOK
  <2>3. requests' \subseteq CallIds /\ answers' \subseteq CallIds
    BY <1>4 DEF RpcInv, RpcTypeOK
  <2> QED BY <1>1, <1>4, <2>1, <2>2, <2>3
<1>5. CASE ServerEnds
  BY <1>4, <1>5 DEF ServerEnds
<1>6. CASE ReadError
  BY <1>4, <1>6 DEF ReadError
<1>7. CASE CloseFlag
  BY <1>4, <1>7 DEF CloseFlag
<1>8. CASE UNCHANGED rpcVars
  BY <1>4, <1>8 DEF rpcVars
<1>9. CASE NoticeExit
  <2>1. /\ alive' = FALSE /\ reader' = "drain" /\ racing' = {c \in CallIds : CallAt(c, "insert")}
        /\ UNCHANGED <<process, call, stdin, pending, told, requests, answers, dropped>>
    BY <1>9 DEF NoticeExit
  <2> QED BY <2>1 DEF RpcInv, RpcTypeOK, SendersOfCalls, RpcNoStaleSender, AfterTheEnd, CallAt
<1>10. CASE Drain
  <2>1. alive' = alive
    BY <1>10 DEF Drain, RpcInv, AfterTheEnd, RpcTypeOK
  <2>2. pending' = pending \ pending /\ answers' \subseteq CallIds
    BY <1>10 DEF Drain, RpcInv, RpcTypeOK
  <2> QED BY <1>10, <2>1, <2>2, SendersUsed DEF Drain
<1>11. CASE CloseClear
  <2>1. pending' = pending \ pending /\ answers' \subseteq CallIds
    BY <1>11 DEF CloseClear, RpcInv, RpcTypeOK
  <2> QED BY <1>11, <2>1, SendersUsed DEF CloseClear
<1> QED BY <1>2, <1>3, <1>5, <1>6, <1>7, <1>8, <1>9, <1>10, <1>11, RpcCallStep DEF RpcNext

(* No call outlives its time limit or the server in the map of senders,    *)
(* whichever of answer, exit, failed write and time limit comes first.     *)
THEOREM CallsEndHolds == RpcSpec => []CallsEnd
<1>1. RpcInv => CallsEnd
  BY DEF RpcInv, AfterTheEnd, CallsEnd, RpcExitHeard, CallAt, InMap
<1> QED BY <1>1, RpcStarts, RpcStep, PTL DEF RpcSpec

-----------------------------------------------------------------------------
(* The heartbeat, for any number of ticks and messages.                    *)

(* What was there when the tick was taken is there until it is looked for; *)
(* each HEARTBEAT_OK was written or kept; each tick is counted.            *)
Tallied == /\ tally \in [Skips \cup {"runs", "sent"} -> Nat] /\ {okWrites, okKept} \subseteq Nat
           /\ okFile \in BOOLEAN
OkStays == /\ hbStep \in {"hours", "ok"} /\ okAtTick => okFile
           /\ hbStep \in {"list", "send"} => ~okAtTick
           /\ hbStep = "remove" => okFile
OkFound == tally["ok"] + (IF okFile THEN 1 ELSE 0) = okWrites + okKept
TicksTold == tally["runs"] = tally["sent"] + tally["hours"] + tally["ok"] + tally["empty"]
                             + tally["full"] + (IF hbStep = "timer" THEN 0 ELSE 1)
HeartbeatSpec == HeartbeatInit /\ [][HeartbeatNext]_heartbeatVars
HeartbeatInv == Tallied /\ OkStays /\ OkFound /\ TicksTold

\* One count more, and the others as they were.
LEMMA CountedOnce ==
  ASSUME Tallied, NEW k \in Skips \cup {"runs", "sent"}, Counted(k)
  PROVE  /\ tally' \in [Skips \cup {"runs", "sent"} -> Nat] /\ tally'[k] = tally[k] + 1
         /\ \A j \in (Skips \cup {"runs", "sent"}) \ {k} : tally'[j] = tally[j]
  BY DEF Tallied, Counted

LEMMA HeartbeatStarts == HeartbeatInit => HeartbeatInv
<1> SUFFICES ASSUME HeartbeatInit PROVE HeartbeatInv
  OBVIOUS
<1>1. /\ tally \in [Skips \cup {"runs", "sent"} -> Nat]
      /\ \A k \in Skips \cup {"runs", "sent"} : tally[k] = 0
  BY DEF HeartbeatInit
<1>2. Tallied /\ OkStays
  BY <1>1 DEF HeartbeatInit, Tallied, OkStays
<1>3. OkFound /\ TicksTold
  BY <1>1 DEF HeartbeatInit, OkFound, TicksTold, Skips
<1> QED BY <1>2, <1>3 DEF HeartbeatInv

\* A tick ends, for one reason.
LEMMA TickEnds ==
  ASSUME HeartbeatInv, hbStep # "timer", NEW k \in Skips \cup {"sent"}, Counted(k), hbStep' = "timer",
         UNCHANGED okWrites, okFile' \in BOOLEAN, okKept' \in Nat,
         k # "ok" => UNCHANGED <<okFile, okKept>>,
         k = "ok" => okFile /\ ((okFile' = FALSE /\ okKept' = okKept) \/ (okFile' = okFile /\ okKept' = okKept + 1))
  PROVE  HeartbeatInv'
<1>1. /\ tally' \in [Skips \cup {"runs", "sent"} -> Nat] /\ tally'[k] = tally[k] + 1
      /\ \A j \in (Skips \cup {"runs", "sent"}) \ {k} : tally'[j] = tally[j]
  BY CountedOnce DEF HeartbeatInv
<1>2. \A j \in Skips \cup {"runs", "sent"} : tally[j] \in Nat
  BY DEF HeartbeatInv, Tallied
<1>3. Tallied'
  BY <1>1 DEF HeartbeatInv, Tallied
<1>4. OkStays'
  BY DEF OkStays
<1>5. OkFound'
  <2>1. CASE k = "ok"
    <3>1. tally'["ok"] = tally["ok"] + 1 /\ tally["ok"] \in Nat /\ {okWrites, okKept} \subseteq Nat
      BY <1>1, <1>2, <2>1 DEF HeartbeatInv, Tallied, Skips
    <3>2. tally["ok"] + 1 = okWrites + okKept
      BY <2>1 DEF HeartbeatInv, OkFound
    <3>3. CASE okFile' = FALSE /\ okKept' = okKept
      BY <3>1, <3>2, <3>3 DEF OkFound
    <3>4. CASE okFile' = okFile /\ okKept' = okKept + 1
      <4>1. okFile'
        BY <2>1, <3>4
      <4> QED BY <3>1, <3>2, <3>4, <4>1 DEF OkFound
    <3> QED BY <2>1, <3>3, <3>4
  <2>2. CASE k # "ok"
    BY <1>1, <1>2, <2>2 DEF HeartbeatInv, OkFound, Tallied, Skips
  <2> QED BY <2>1, <2>2
<1>6. TicksTold'
  BY <1>1, <1>2 DEF HeartbeatInv, TicksTold, Skips
<1> QED BY <1>3, <1>4, <1>5, <1>6 DEF HeartbeatInv

\* A step within a tick, or of the others.
LEMMA TickGoesOn ==
  ASSUME HeartbeatInv, UNCHANGED <<tally, okKept>>, okWrites' \in Nat, okFile' \in BOOLEAN,
         okWrites' + (IF okFile THEN 1 ELSE 0) = okWrites + (IF okFile' THEN 1 ELSE 0),
         OkStays', hbStep' = "timer" <=> hbStep = "timer"
  PROVE  HeartbeatInv'
<1>1. Tallied'
  BY DEF HeartbeatInv, Tallied
<1>2. OkFound'
  BY DEF HeartbeatInv, OkFound, Tallied, Skips
<1>3. TicksTold'
  BY DEF HeartbeatInv, TicksTold
<1> QED BY <1>1, <1>2, <1>3 DEF HeartbeatInv

LEMMA HeartbeatStep == HeartbeatInv /\ [HeartbeatNext]_heartbeatVars => HeartbeatInv'
<1> SUFFICES ASSUME HeartbeatInv, [HeartbeatNext]_heartbeatVars PROVE HeartbeatInv'
  OBVIOUS
<1> USE DEF Reads
<1>1. okFile \in BOOLEAN /\ {okWrites, okKept} \subseteq Nat /\ OkStays
  BY DEF HeartbeatInv, Tallied
<1>2. ASSUME UNCHANGED <<tally, okKept, okWrites, okFile, hbStep, okAtTick>> PROVE HeartbeatInv'
  BY <1>2 DEF HeartbeatInv, Tallied, OkStays, OkFound, TicksTold
<1>3. CASE TickElapses \/ ChannelSends \/ AgentTakes \/ ChecklistChanges \/ AgentEnds
           \/ UNCHANGED heartbeatVars
  BY <1>2, <1>3 DEF TickElapses, ChannelSends, AgentTakes, ChecklistChanges, AgentEnds,
                    heartbeatVars, loopVars
<1>4. CASE TakeTick
  <2>1. /\ tally' \in [Skips \cup {"runs", "sent"} -> Nat] /\ tally'["runs"] = tally["runs"] + 1
        /\ \A j \in (Skips \cup {"runs", "sent"}) \ {"runs"} : tally'[j] = tally[j]
    BY <1>4, CountedOnce DEF TakeTick, HeartbeatInv
  <2>2. \A j \in Skips \cup {"runs", "sent"} : tally[j] \in Nat
    BY DEF HeartbeatInv, Tallied
  <2>3. Tallied' /\ OkStays'
    BY <1>4, <2>1 DEF TakeTick, HeartbeatInv, Tallied, OkStays
  <2>4. OkFound'
    BY <1>4, <2>1 DEF TakeTick, HeartbeatInv, OkFound, Skips
  <2>5. TicksTold'
    BY <1>4, <2>1, <2>2 DEF TakeTick, HeartbeatInv, TicksTold, Skips
  <2> QED BY <2>3, <2>4, <2>5 DEF HeartbeatInv
<1>5. CASE CheckHours
  <2>1. CASE Skip("hours")
    BY <1>1, <1>5, <2>1, TickEnds DEF CheckHours, Skip, Skips
  <2>2. CASE ~Skip("hours")
    <3>1. OkStays'
      BY <1>1, <1>5, <2>2 DEF CheckHours, OkStays
    <3> QED BY <1>1, <1>5, <2>2, <3>1, TickGoesOn DEF CheckHours
  <2> QED BY <2>1, <2>2
<1>6. CASE FindOk
  <2>1. OkStays'
    BY <1>1, <1>6 DEF FindOk, OkStays
  <2> QED BY <1>1, <1>6, <2>1, TickGoesOn DEF FindOk
<1>7. CASE HeedOk
  <2>1. okFile /\ Counted("ok") /\ hbStep' = "timer"
    BY <1>1, <1>7 DEF HeedOk, FoundOk, Skip, OkStays
  <2>2. CASE okFile' = FALSE /\ okKept' = okKept
    <3>1. okFile' \in BOOLEAN /\ okKept' \in Nat
      BY <1>1, <2>2
    <3>2. "ok" \in Skips \cup {"sent"} /\ hbStep # "timer" /\ okWrites' = okWrites
      BY <1>7 DEF HeedOk, Skips
    <3>3. okFile /\ ((okFile' = FALSE /\ okKept' = okKept) \/ (okFile' = okFile /\ okKept' = okKept + 1))
      BY <2>1, <2>2
    <3> QED BY <2>1, <3>1, <3>2, <3>3, TickEnds
  <2>3. CASE okFile' = okFile /\ okKept' = okKept + 1
    <3>1. okFile' \in BOOLEAN /\ okKept' \in Nat
      BY <1>1, <2>3
    <3> QED BY <1>7, <2>1, <2>3, <3>1, TickEnds DEF HeedOk, Skips
  <2> QED BY <1>7, <2>2, <2>3 DEF HeedOk, RemoveOk
<1>8. CASE ReadChecklist
  <2>1. CASE checklist
    <3>1. OkStays'
      BY <1>1, <1>8, <2>1 DEF ReadChecklist, OkStays
    <3> QED BY <1>1, <1>8, <2>1, <3>1, TickGoesOn DEF ReadChecklist
  <2>2. CASE ~checklist
    BY <1>1, <1>8, <2>2, TickEnds DEF ReadChecklist, Skip, Skips
  <2> QED BY <2>1, <2>2
<1>9. CASE SendBeat
  <2>1. \E k \in {"sent", "full"} : Counted(k) /\ hbStep' = "timer"
    BY <1>9 DEF SendBeat, Skip
  <2> QED BY <1>1, <1>9, <2>1, TickEnds DEF SendBeat, Skips
<1>10. CASE ClosedBreaks
  <2>1. OkStays'
    BY <1>1, <1>10 DEF ClosedBreaks, OkStays
  <2> QED BY <1>1, <1>10, <2>1, TickGoesOn DEF ClosedBreaks
<1>11. CASE AgentWritesOk
  <2>1. OkStays' /\ okFile' /\ ~okFile
    BY <1>1, <1>11 DEF AgentWritesOk, OkStays, loopVars
  <2> QED BY <1>1, <1>11, <2>1, TickGoesOn DEF AgentWritesOk, loopVars
<1> QED BY <1>3, <1>4, <1>5, <1>6, <1>7, <1>8, <1>9, <1>10, <1>11 DEF HeartbeatNext

(* A HEARTBEAT_OK that is there when a tick is taken keeps that cycle, and *)
(* only one, from sending, and every tick is counted as what became of it. *)
THEOREM HeartbeatSoundHolds == HeartbeatSpec => []HeartbeatSound
<1>1. HeartbeatInv => HeartbeatSound
  BY DEF HeartbeatInv, HeartbeatSound, OkStays, OkFound, TicksTold, Tallied, Skips
<1> QED BY <1>1, HeartbeatStarts, HeartbeatStep, PTL DEF HeartbeatSpec

-----------------------------------------------------------------------------
(* The PID file, for any number of shells and processes.                   *)

(* While commands follow each other, one is under way at a time, and it    *)
(* knows the only process that is on its way to the port or at it and has  *)
(* not taken its name off the file; which has it there once it binds.      *)
Named == {"binding", "serving", "closing"}
Young(p) == life[p] = "born" \/ life[p] \in Named
Calm == ~crossed /\ ~rivals
OneAtATime ==
  /\ \A s, t \in Shells : command[s] # "idle" /\ command[t] # "idle" => s = t
  /\ \A p, q \in Pids : Young(p) /\ Young(q) => p = q
  /\ \A p \in Pids : life[p] \in Named => pidFile = p
KnowsTheServer ==
  \A s \in Shells : \A p \in Pids :
    /\ command[s] \in {"start", "stop", "reset", "kill"} => life[p] \notin {"born", "binding"}
    /\ command[s] \in {"spawn", "unlink", "confirm"} => ~Young(p)
    /\ command[s] \in {"kill", "note"} /\ Young(p) => p = aim[s]
DaemonInv == DaemonTypeOK /\ (Calm => OneAtATime /\ KnowsTheServer)

LEMMA DaemonTypes == DaemonTypeOK /\ [DaemonNext]_daemonVars => DaemonTypeOK'
<1> SUFFICES ASSUME DaemonTypeOK, [DaemonNext]_daemonVars PROVE DaemonTypeOK'
  OBVIOUS
<1> USE DEF DaemonTypeOK
<1>1. ASSUME NEW s \in Shells, NEW what \in {"idle", "start", "spawn", "note", "stop", "kill", "unlink",
                                            "reset", "confirm"},
             NEW p \in Pids \cup {NoPid}, Goes(s, what, p)
      PROVE  /\ command' \in [Shells -> {"idle", "start", "spawn", "note", "stop", "kill", "unlink",
                                         "reset", "confirm"}]
             /\ aim' \in [Shells -> Pids \cup {NoPid}]
  BY <1>1 DEF Goes
<1>2. ASSUME NEW s \in Shells, ShellStep(s) PROVE DaemonTypeOK'
  <2> USE <1>1 DEF Ends
  <2>1. ASSUME NEW what \in {"start", "stop", "reset"}, Begins(s, what) PROVE DaemonTypeOK'
    <3>1. crossed' \in BOOLEAN
      BY <2>1 DEF Begins, Busy
    <3> QED BY <2>1, <3>1 DEF Begins
  <2>2. CASE StartCheck(s)
    BY <2>2 DEF StartCheck
  <2>3. CASE SpawnFails(s) \/ NoteChild(s)
    BY <2>3 DEF SpawnFails, NoteChild
  <2>4. ASSUME NEW p \in Pids, SpawnChild(s, p) PROVE DaemonTypeOK'
    BY <2>4 DEF SpawnChild, Born
  <2>5. CASE StopCheck(s)
    BY <2>5 DEF StopCheck
  <2>6. CASE StopKill(s)
    BY <2>6 DEF StopKill
  <2>7. CASE StopUnlink(s)
    BY <2>7 DEF StopUnlink
  <2>8. CASE ResetCheck(s)
    BY <2>8 DEF ResetCheck
  <2>9. CASE ResetAborts(s) \/ ResetWipes(s)
    BY <2>9 DEF ResetAborts, ResetWipes
  <2> QED BY <1>2, <2>1, <2>2, <2>3, <2>4, <2>5, <2>6, <2>7, <2>8, <2>9 DEF ShellStep
<1>3. ASSUME NEW p \in Pids, ServerStep(p) PROVE DaemonTypeOK'
  <2>1. CASE StartHere(p)
    <3>1. crossed' \in BOOLEAN /\ rivals' \in BOOLEAN
      BY <2>1 DEF StartHere, Busy
    <3> QED BY <2>1, <3>1 DEF StartHere, Born
  <2>2. CASE WritePid(p) \/ Close(p) \/ RemovePid(p)
    BY <2>2 DEF WritePid, Close, RemovePid
  <2>3. CASE BindPort(p) \/ Exit(p) \/ Crash(p)
    BY <2>3 DEF BindPort, Exit, Crash
  <2> QED BY <1>3, <2>1, <2>2, <2>3 DEF ServerStep
<1>4. CASE SaveKey \/ UNCHANGED daemonVars
  BY <1>4 DEF SaveKey, daemonVars
<1> QED BY <1>2, <1>3, <1>4 DEF DaemonNext

\* Processes go on and end, and the file keeps or loses no name of one that has it.
LEMMA ServersGoOn ==
  ASSUME DaemonInv, Calm, UNCHANGED <<command, aim>>, DaemonTypeOK',
         \A p \in Pids : /\ Young(p)' => Young(p)
                         /\ life'[p] \in {"born", "binding"} => life[p] \in {"born", "binding"}
                         /\ life'[p] \in Named => pidFile' = p
  PROVE  OneAtATime' /\ KnowsTheServer'
<1>1. OneAtATime'
  BY DEF DaemonInv, OneAtATime
<1>2. KnowsTheServer'
  BY DEF DaemonInv, KnowsTheServer
<1> QED BY <1>1, <1>2

\* A command goes on, and no process does.
LEMMA CommandGoesOn ==
  ASSUME DaemonInv, Calm, NEW s \in Shells, NEW what, NEW p, Goes(s, what, p),
         UNCHANGED <<crossed, rivals>>, life' = life, command[s] # "idle",
         \A q \in Pids : /\ life[q] \in Named => pidFile' = q
                         /\ what \in {"start", "stop", "reset", "kill"} => life[q] \notin {"born", "binding"}
                         /\ what \in {"spawn", "unlink", "confirm"} => ~Young(q)
                         /\ what \in {"kill", "note"} /\ Young(q) => q = p
  PROVE  OneAtATime' /\ KnowsTheServer'
<1>1. /\ command'[s] = what /\ aim'[s] = p
      /\ \A t \in Shells : t # s => command'[t] = command[t] /\ aim'[t] = aim[t]
  BY DEF Goes, DaemonInv, DaemonTypeOK
<1>2. \A t \in Shells : t # s => command[t] = "idle"
  BY DEF DaemonInv, OneAtATime
<1>3. \A q \in Pids : Young(q)' <=> Young(q)
  BY DEF Young
<1>4. OneAtATime'
  BY <1>1, <1>2, <1>3 DEF DaemonInv, OneAtATime
<1>5. KnowsTheServer'
  BY <1>1, <1>2, <1>3 DEF DaemonInv, KnowsTheServer
<1> QED BY <1>4, <1>5

LEMMA DaemonShellStep ==
  ASSUME DaemonInv, NEW s \in Shells, ShellStep(s), Calm', DaemonTypeOK'
  PROVE  OneAtATime' /\ KnowsTheServer'
<1>1. ASSUME NEW what \in {"start", "stop", "reset"}, Begins(s, what)
      PROVE  OneAtATime' /\ KnowsTheServer'
  <2>1. Calm /\ ~Busy /\ UNCHANGED <<pidFile, life>> /\ Goes(s, what, NoPid)
    BY <1>1 DEF Begins, Calm
  <2>2. /\ command'[s] = what
        /\ \A t \in Shells : t # s => command'[t] = "idle"
    BY <2>1 DEF Goes, Busy, DaemonInv, DaemonTypeOK
  <2>3. \A q \in Pids : life'[q] \notin {"born", "binding"} /\ (Young(q)' <=> Young(q))
    BY <2>1 DEF Busy, Young
  <2>4. OneAtATime'
    BY <2>1, <2>2, <2>3 DEF DaemonInv, OneAtATime
  <2>5. KnowsTheServer'
    BY <2>2, <2>3 DEF KnowsTheServer
  <2> QED BY <2>4, <2>5
<1>2. ASSUME NEW p \in Pids, SpawnChild(s, p) PROVE OneAtATime' /\ KnowsTheServer'
  <2>1. /\ Calm /\ pidFile' = pidFile /\ command[s] = "spawn" /\ life' = [life EXCEPT ![p] = "born"]
        /\ Goes(s, "note", p) /\ life \in [Pids -> {"unborn", "born", "binding", "serving", "closing", "exiting", "gone"}]
    BY <1>2 DEF SpawnChild, Born, Calm, DaemonInv, DaemonTypeOK
  <2>2. \A q \in Pids : ~Young(q)
    BY <2>1 DEF DaemonInv, KnowsTheServer
  <2>3. \A q \in Pids : (Young(q)' => q = p) /\ life'[q] \notin Named
    BY <2>1, <2>2 DEF Young, Named
  <2>4. /\ command'[s] = "note" /\ aim'[s] = p
        /\ \A t \in Shells : t # s => command'[t] = "idle"
    BY <2>1 DEF Goes, DaemonInv, DaemonTypeOK, OneAtATime
  <2>5. OneAtATime'
    BY <2>3, <2>4 DEF OneAtATime
  <2>6. KnowsTheServer'
    BY <2>3, <2>4 DEF KnowsTheServer
  <2> QED BY <2>5, <2>6
<1>3. ASSUME ~Alive(pidFile), Calm, NEW p \in Pids PROVE life[p] \notin Named
  BY <1>3, DaemonAssumption DEF Alive, Named, DaemonInv, DaemonTypeOK, OneAtATime
<1>4. CASE StartCheck(s)
  <2>1. Calm /\ command[s] = "start" /\ life' = life /\ \A p \in Pids : life[p] \notin {"born", "binding"}
    BY <1>4 DEF StartCheck, Calm, DaemonInv, KnowsTheServer
  <2>2. CASE Ends(s) /\ UNCHANGED pidFile
    BY <1>4, <2>1, <2>2, CommandGoesOn DEF StartCheck, Ends, DaemonInv, OneAtATime
  <2>3. CASE ~Alive(pidFile) /\ Goes(s, "spawn", NoPid)
    <3>1. \A p \in Pids : ~Young(p)
      BY <1>3, <2>1, <2>3 DEF Young
    <3> QED BY <1>4, <2>1, <2>3, <3>1, CommandGoesOn DEF StartCheck, Young
  <2> QED BY <1>4, <2>2, <2>3 DEF StartCheck, RunsAlready
<1>5. CASE SpawnFails(s) \/ ResetAborts(s)
  <2>1. Ends(s) /\ command[s] \in {"spawn", "confirm"} /\ UNCHANGED <<pidFile, life, crossed, rivals>>
    <3>1. CASE SpawnFails(s)
      BY <3>1 DEF SpawnFails
    <3>2. CASE ResetAborts(s)
      BY <3>2 DEF ResetAborts
    <3> QED BY <1>5, <3>1, <3>2
  <2>2. Calm /\ \A p \in Pids : life[p] \in Named => pidFile = p
    BY <2>1 DEF Calm, DaemonInv, OneAtATime
  <2> QED BY <2>1, <2>2, CommandGoesOn DEF Ends
<1>6. CASE NoteChild(s)
  <2>1. Calm /\ command[s] = "note" /\ life' = life /\ pidFile' = aim[s]
    BY <1>6 DEF NoteChild, Calm
  <2>2. \A p \in Pids : life[p] \in Named => p = aim[s]
    BY <2>1 DEF DaemonInv, KnowsTheServer, Young
  <2> QED BY <1>6, <2>1, <2>2, CommandGoesOn DEF NoteChild, Ends
<1>7. CASE StopCheck(s)
  <2>1. Calm /\ command[s] = "stop" /\ life' = life /\ \A p \in Pids : life[p] \notin {"born", "binding"}
    BY <1>7 DEF StopCheck, Calm, DaemonInv, KnowsTheServer
  <2>2. CASE Alive(pidFile)
    <3>1. \A p \in Pids : Young(p) => p = pidFile
      BY <2>1 DEF Young, Named, DaemonInv, OneAtATime
    <3> QED BY <1>7, <2>1, <2>2, <3>1, CommandGoesOn DEF StopCheck, DaemonInv, OneAtATime
  <2>3. CASE ~Alive(pidFile)
    BY <1>3, <1>7, <2>1, <2>3, CommandGoesOn DEF StopCheck, Ends
  <2> QED BY <2>2, <2>3
<1>8. CASE StopKill(s)
  <2>1. Calm /\ command[s] = "kill" /\ pidFile' = pidFile
    BY <1>8 DEF StopKill, Calm
  <2>2. \A p \in Pids : /\ Young(p) => p = aim[s]
                        /\ life[p] \notin {"born", "binding"} /\ (life[p] \in Named => pidFile = p)
    BY <2>1 DEF DaemonInv, KnowsTheServer, OneAtATime
  <2>3. CASE Alive(aim[s])
    <3>1. life' = [life EXCEPT ![aim[s]] = "gone"] /\ Goes(s, "unlink", NoPid)
      BY <1>8, <2>3 DEF StopKill
    <3>2. \A p \in Pids : ~Young(p)' /\ life'[p] \notin Named
      BY <2>2, <3>1 DEF Young, Named, DaemonInv, DaemonTypeOK
    <3>3. \A t \in Shells : t # s => command'[t] = "idle"
      BY <2>1, <3>1 DEF Goes, DaemonInv, DaemonTypeOK, OneAtATime
    <3>4. command'[s] = "unlink"
      BY <3>1 DEF Goes, DaemonInv, DaemonTypeOK
    <3>5. OneAtATime'
      BY <3>2, <3>3 DEF OneAtATime
    <3>6. KnowsTheServer'
      BY <3>2, <3>3, <3>4 DEF KnowsTheServer
    <3> QED BY <3>5, <3>6
  <2>4. CASE ~Alive(aim[s])
    BY <1>8, <2>1, <2>2, <2>4, CommandGoesOn DEF StopKill, Ends
  <2> QED BY <2>3, <2>4
<1>9. CASE StopUnlink(s) \/ ResetWipes(s)
  <2>1. /\ Calm /\ command[s] \in {"unlink", "confirm"} /\ life' = life /\ pidFile' = NoPid
        /\ Ends(s) /\ UNCHANGED <<crossed, rivals>>
    BY <1>9 DEF StopUnlink, ResetWipes, Calm
  <2>2. \A p \in Pids : life[p] \notin Named
    BY <2>1 DEF DaemonInv, KnowsTheServer, Young
  <2> QED BY <2>1, <2>2, CommandGoesOn DEF Ends
<1>10. CASE ResetCheck(s)
  <2>1. Calm /\ command[s] = "reset" /\ life' = life /\ \A p \in Pids : life[p] \notin {"born", "binding"}
    BY <1>10 DEF ResetCheck, Calm, DaemonInv, KnowsTheServer
  <2>2. CASE Alive(pidFile)
    BY <1>10, <2>1, <2>2, CommandGoesOn DEF ResetCheck, Ends, DaemonInv, OneAtATime
  <2>3. CASE ~Alive(pidFile)
    <3>1. \A p \in Pids : ~Young(p)
      BY <1>3, <2>1, <2>3 DEF Young
    <3> QED BY <1>10, <2>1, <2>3, <3>1, CommandGoesOn DEF ResetCheck, Young
  <2> QED BY <2>2, <2>3
<1> QED BY <1>1, <1>2, <1>4, <1>5, <1>6, <1>7, <1>8, <1>9, <1>10 DEF ShellStep

LEMMA DaemonServerStep ==
  ASSUME DaemonInv, NEW p \in Pids, ServerStep(p), Calm', DaemonTypeOK'
  PROVE  OneAtATime' /\ KnowsTheServer'
<1>1. CASE StartHere(p)
  <2>1. /\ Calm /\ ~Busy /\ (\A q \in Pids : ~Alive(q)) /\ UNCHANGED <<pidFile, command, aim>>
        /\ life' = [life EXCEPT ![p] = "born"]
    BY <1>1 DEF StartHere, Born, Calm
  <2>2. \A q \in Pids : life'[q] \notin Named /\ (Young(q)' => q = p)
    BY <2>1, DaemonAssumption DEF Alive, Young, Named, DaemonInv, DaemonTypeOK
  <2>3. \A s \in Shells : command'[s] = "idle"
    BY <2>1 DEF Busy
  <2> QED BY <2>2, <2>3 DEF OneAtATime, KnowsTheServer
<1>2. CASE ~StartHere(p)
  <2>1. Calm /\ UNCHANGED <<command, aim>>
    BY <1>2 DEF ServerStep, WritePid, BindPort, Close, RemovePid, Exit, Crash, Calm
  <2>2. \A q \in Pids : Young(q) /\ Young(p) => q = p
    BY <2>1 DEF DaemonInv, OneAtATime
  <2>3. \A q \in Pids : life[q] \in Named => pidFile = q
    BY <2>1 DEF DaemonInv, OneAtATime
  <2>4. ASSUME NEW status, life' = [life EXCEPT ![p] = status]
        PROVE  life'[p] = status /\ \A q \in Pids : q # p => life'[q] = life[q]
    BY <2>4 DEF DaemonInv, DaemonTypeOK
  <2>5. CASE WritePid(p)
    <3>1. /\ life'[p] = "binding" /\ (\A q \in Pids : q # p => life'[q] = life[q])
          /\ pidFile' = p /\ life[p] = "born"
      BY <2>4, <2>5 DEF WritePid
    <3> QED BY <2>1, <2>2, <3>1, ServersGoOn DEF Young, Named
  <2>6. CASE BindPort(p)
    <3>1. /\ life'[p] \in {"serving", "gone"} /\ (\A q \in Pids : q # p => life'[q] = life[q])
          /\ pidFile' = pidFile /\ life[p] = "binding"
      BY <2>4, <2>6 DEF BindPort
    <3> QED BY <2>1, <2>3, <3>1, ServersGoOn DEF Young, Named
  <2>7. CASE Close(p)
    <3>1. /\ life'[p] = "closing" /\ (\A q \in Pids : q # p => life'[q] = life[q])
          /\ pidFile' = pidFile /\ life[p] = "serving"
      BY <2>4, <2>7 DEF Close
    <3> QED BY <2>1, <2>3, <3>1, ServersGoOn DEF Young, Named
  <2>8. CASE RemovePid(p)
    <3>1. /\ life'[p] = "exiting" /\ (\A q \in Pids : q # p => life'[q] = life[q])
          /\ life[p] = "closing"
      BY <2>4, <2>8 DEF RemovePid, UnlinkNow
    <3> QED BY <2>1, <2>2, <3>1, ServersGoOn DEF Young, Named
  <2>9. CASE Exit(p) \/ Crash(p)
    <3>1. /\ life'[p] = "gone" /\ (\A q \in Pids : q # p => life'[q] = life[q])
          /\ pidFile' = pidFile
      BY <2>4, <2>9 DEF Exit, Crash
    <3> QED BY <2>1, <2>3, <3>1, ServersGoOn DEF Young, Named
  <2> QED BY <1>2, <2>5, <2>6, <2>7, <2>8, <2>9 DEF ServerStep
<1> QED BY <1>1, <1>2

(* Where commands follow each other and none is started in the foreground  *)
(* beside a living one, the PID file names the server that serves, however *)
(* servers crash, close and are stopped.                                   *)
THEOREM ServerNamedHolds == DaemonSpec => []ServerNamed
<1>1. DaemonInit => DaemonInv
  BY DEF DaemonInit, DaemonInv, DaemonTypeOK, OneAtATime, KnowsTheServer, Young, Named
<1>2. DaemonInv /\ [DaemonNext]_daemonVars => DaemonInv'
  <2> SUFFICES ASSUME DaemonInv, [DaemonNext]_daemonVars PROVE DaemonInv'
    OBVIOUS
  <2>1. DaemonTypeOK'
    BY DaemonTypes DEF DaemonInv
  <2>2. ASSUME Calm', SaveKey \/ UNCHANGED daemonVars PROVE OneAtATime' /\ KnowsTheServer'
    <3>1. UNCHANGED <<pidFile, life, command, aim, crossed, rivals>>
      BY <2>2 DEF SaveKey, daemonVars
    <3> QED BY <2>2, <3>1 DEF DaemonInv, Calm, OneAtATime, KnowsTheServer, Young
  <2> QED BY <2>1, <2>2, DaemonShellStep, DaemonServerStep DEF DaemonNext, DaemonInv
<1>3. DaemonInv => ServerNamed
  BY DEF DaemonInv, ServerNamed, Calm, OneAtATime, Named
<1> QED BY <1>1, <1>2, <1>3, PTL DEF DaemonSpec

-----------------------------------------------------------------------------
(* A command, for any limits and any room in the pipes.                    *)

(* What was written is in the answer or in the pipe, until a chunk or a    *)
(* block is left out because the answer is full; and once the pipes of a   *)
(* command on the host are read the command is over.                       *)
ShellSpec == ShellInit /\ [][ShellNext]_shellVars
Blocks == {pipe, wrote, got} \subseteq [ShellStreams -> Nat]
Conserved(s) == got[s] + pipe[s] = wrote[s]
BeforeReading ==
  runStep \in {"idle", "feed", "wait"} =>
    /\ outcome = "whole" /\ Conserved("out") /\ Conserved("err")
    /\ runner = "host" => got["out"] = 0 /\ got["err"] = 0
ReadingOut ==
  runStep = "out" =>
    /\ runner = "host" /\ child # "running" /\ outcome \in {"whole", "timeout"}
    /\ Conserved("out") /\ Conserved("err") /\ got["err"] = 0 /\ got["out"] <= MaxOutput
ReadingErr ==
  runStep = "err" =>
    /\ runner = "host" /\ child # "running" /\ outcome \in {"whole", "timeout", "truncated"}
    /\ Conserved("err") /\ got["out"] + got["err"] <= MaxOutput
    /\ outcome = "whole" => got["out"] = wrote["out"] /\ ~helper
    /\ outcome = "truncated" => /\ wrote["out"] + wrote["err"] > MaxOutput
                                /\ got["out"] + got["err"] + OutChunk > MaxOutput
ShellInv == Blocks /\ BeforeReading /\ ReadingOut /\ ReadingErr /\ ShellSound

LEMMA ShellConstants ==
  PipeRoom \in Nat /\ MaxOutput \in Nat /\ OutChunk \in Nat /\ OutChunk >= 1
  BY ShellAssumption

LEMMA BlocksAre ==
  ASSUME Blocks, NEW s \in ShellStreams
  PROVE  pipe[s] \in Nat /\ wrote[s] \in Nat /\ got[s] \in Nat
  BY DEF Blocks

LEMMA ShellStarts == ShellInit => ShellInv
<1> SUFFICES ASSUME ShellInit PROVE ShellInv
  OBVIOUS
<1>1. Nothing \in [ShellStreams -> Nat] /\ Nothing["out"] = 0 /\ Nothing["err"] = 0
  BY DEF Nothing, ShellStreams
<1> QED BY <1>1 DEF ShellInit, ShellInv, Blocks, BeforeReading, Conserved, ReadingOut, ReadingErr, ShellSound

\* A step that reads and writes nothing.
LEMMA ShellGoesOn ==
  ASSUME ShellInv, UNCHANGED <<runner, pipe, wrote, got, outcome>>,
         \/ runStep' \in {"feed", "wait"} /\ runStep \in {"idle", "feed", "wait"}
         \/ runStep' = "out" /\ runStep = "wait" /\ runner = "host" /\ child' # "running"
         \/ runStep' = "dropped"
         \/ runStep' = runStep,
         \/ child' # "running" \/ child' = child \/ runStep = "idle",
         helper' => helper \/ child = "running"
  PROVE  ShellInv'
<1> USE DEF ShellInv
<1>1. Blocks' /\ BeforeReading'
  BY DEF Blocks, BeforeReading, Conserved
<1>2. ReadingOut'
  BY ShellConstants, BlocksAre DEF ReadingOut, BeforeReading, Conserved, ShellStreams
<1>3. ReadingErr'
  BY DEF ReadingErr, Conserved
<1>4. ShellSound'
  BY DEF ShellSound
<1> QED BY <1>1, <1>2, <1>3, <1>4

LEMMA ShellKeeps == ShellInv /\ [ShellNext]_shellVars => ShellInv'
<1> SUFFICES ASSUME ShellInv, [ShellNext]_shellVars PROVE ShellInv'
  OBVIOUS
<1> USE DEF ShellInv
<1>1. CASE StartCommand
  BY <1>1, ShellGoesOn DEF StartCommand
<1>2. CASE Feed
  BY <1>2, ShellGoesOn DEF Feed
<1>3. CASE Fed
  BY <1>3, ShellGoesOn DEF Fed
<1>4. CASE TimeElapses
  BY <1>4, ShellGoesOn DEF TimeElapses
<1>5. CASE DropCommand
  BY <1>5, ShellGoesOn DEF DropCommand
<1>6. CASE Waited
  BY <1>6, ShellGoesOn DEF Waited
<1>7. CASE CommandReads
  BY <1>7, ShellGoesOn DEF CommandReads
<1>8. CASE CommandForks
  BY <1>8, ShellGoesOn DEF CommandForks
<1>9. CASE CommandEnds
  BY <1>9, ShellGoesOn DEF CommandEnds
<1>10. CASE HelperEnds
  BY <1>10, ShellGoesOn DEF HelperEnds
<1>11. CASE CommandFails \/ WaitFails
  <2>1. runStep' = "done" /\ outcome' = "failed" /\ UNCHANGED <<pipe, wrote, got>>
    BY <1>11 DEF CommandFails, WaitFails
  <2> QED BY <2>1 DEF Blocks, BeforeReading, ReadingOut, ReadingErr, ShellSound
<1>12. CASE TimesOut
  <2>1. /\ runStep = "wait" /\ runner = "host" /\ child' = "killed" /\ outcome' = "timeout"
        /\ runStep' = "out" /\ UNCHANGED <<runner, helper, pipe, wrote, got>>
    BY <1>12 DEF TimesOut, KillChild
  <2>2. Blocks' /\ BeforeReading' /\ ReadingErr' /\ ShellSound'
    BY <2>1 DEF Blocks, BeforeReading, ReadingErr, ShellSound
  <2>3. ReadingOut'
    BY <2>1, ShellConstants DEF ReadingOut, BeforeReading, Conserved
  <2> QED BY <2>2, <2>3
<1>13. CASE ReadOut
  <2> DEFINE n == Lesser(OutChunk, pipe["out"])
  <2>1. /\ runStep = "out" /\ pipe["out"] > 0 /\ pipe' = [pipe EXCEPT !["out"] = @ - n]
        /\ UNCHANGED <<runner, child, helper, wrote>>
    BY <1>13 DEF ReadOut
  <2>2. /\ pipe["out"] \in Nat /\ wrote["out"] \in Nat /\ got["out"] \in Nat
        /\ pipe["err"] \in Nat /\ wrote["err"] \in Nat /\ got["err"] \in Nat
    BY BlocksAre DEF ShellStreams
  <2>3. n \in Nat /\ n <= pipe["out"] /\ n <= OutChunk
    BY <2>1, <2>2, ShellConstants DEF Lesser
  <2>4. /\ runner = "host" /\ child # "running" /\ outcome \in {"whole", "timeout"}
        /\ Conserved("out") /\ Conserved("err") /\ got["err"] = 0 /\ got["out"] <= MaxOutput
    BY <2>1 DEF ReadingOut
  <2>5. /\ pipe' \in [ShellStreams -> Nat] /\ pipe'["out"] = pipe["out"] - n
        /\ pipe'["err"] = pipe["err"]
    BY <2>1, <2>2, <2>3 DEF Blocks, ShellStreams
  <2>6. \/ /\ got["out"] + n <= MaxOutput /\ got' = [got EXCEPT !["out"] = @ + n]
           /\ UNCHANGED <<runStep, outcome>>
        \/ /\ got["out"] + n > MaxOutput /\ runStep' = "err" /\ got' = got
           /\ outcome' = IF outcome = "whole" THEN "truncated" ELSE outcome
    BY <1>13 DEF ReadOut
  <2> HIDE DEF n
  <2>7. CASE got["out"] + n <= MaxOutput
    <3>1. /\ got' = [got EXCEPT !["out"] = @ + n] /\ UNCHANGED <<runStep, outcome>>
      BY <2>2, <2>3, <2>6, <2>7, ShellConstants
    <3>2. got' \in [ShellStreams -> Nat] /\ got'["out"] = got["out"] + n /\ got'["err"] = got["err"]
      BY <2>2, <2>3, <3>1 DEF Blocks, ShellStreams
    <3>3. Blocks'
      BY <2>1, <2>5, <3>2 DEF Blocks
    <3>4. ReadingOut'
      BY <2>1, <2>2, <2>3, <2>4, <2>5, <2>7, <3>1, <3>2, ShellConstants DEF ReadingOut, Conserved
    <3> QED BY <2>1, <3>1, <3>3, <3>4 DEF BeforeReading, ReadingErr, ShellSound
  <2>8. CASE got["out"] + n > MaxOutput
    <3>1. /\ runStep' = "err" /\ got' = got
          /\ outcome' = IF outcome = "whole" THEN "truncated" ELSE outcome
      BY <2>2, <2>3, <2>6, <2>8, ShellConstants
    <3>2. Blocks'
      BY <2>1, <2>5, <3>1 DEF Blocks
    <3>3. wrote["out"] + wrote["err"] > MaxOutput /\ got["out"] + got["err"] + OutChunk > MaxOutput
      BY <2>2, <2>3, <2>4, <2>8, ShellConstants DEF Conserved
    <3>4. ReadingErr'
      BY <2>1, <2>2, <2>4, <2>5, <3>1, <3>3, ShellConstants DEF ReadingErr, Conserved
    <3> QED BY <3>1, <3>2, <3>4 DEF BeforeReading, ReadingOut, ShellSound
  <2> QED BY <2>2, <2>3, <2>7, <2>8, ShellConstants
<1>14. CASE OutEnds
  <2>1. /\ runStep = "out" /\ runStep' = "err" /\ pipe["out"] = 0 /\ ~helper
        /\ UNCHANGED <<runner, child, helper, pipe, wrote, got, outcome>>
    BY <1>14 DEF OutEnds, EndOf
  <2>2. Blocks' /\ BeforeReading' /\ ReadingOut' /\ ShellSound'
    BY <2>1 DEF Blocks, BeforeReading, ReadingOut, ShellSound
  <2>3. got["out"] \in Nat /\ wrote["out"] \in Nat
    BY BlocksAre DEF ShellStreams
  <2>4. ReadingErr'
    BY <2>1, <2>3, ShellConstants DEF ReadingErr, ReadingOut, Conserved
  <2> QED BY <2>2, <2>4
<1>15. CASE ReadErr
  <2>1. /\ runStep = "err" /\ pipe["err"] > 0 /\ pipe' = [pipe EXCEPT !["err"] = @ - 1]
        /\ IF got["err"] + 1 <= MaxOutput - got["out"]
           THEN got' = [got EXCEPT !["err"] = @ + 1] /\ runStep' = runStep
           ELSE runStep' = "done" /\ got' = got
        /\ UNCHANGED <<runner, child, helper, wrote, outcome>>
    BY <1>15 DEF ReadErr, ErrLimit
  <2>2. /\ pipe["out"] \in Nat /\ wrote["out"] \in Nat /\ got["out"] \in Nat
        /\ pipe["err"] \in Nat /\ wrote["err"] \in Nat /\ got["err"] \in Nat
    BY BlocksAre DEF ShellStreams
  <2>3. pipe' \in [ShellStreams -> Nat] /\ pipe'["err"] = pipe["err"] - 1
    BY <2>1, <2>2 DEF Blocks, ShellStreams
  <2>4. CASE got["err"] + 1 <= MaxOutput - got["out"]
    <3>1. got' \in [ShellStreams -> Nat] /\ got'["err"] = got["err"] + 1 /\ got'["out"] = got["out"]
      BY <2>1, <2>2, <2>4 DEF Blocks, ShellStreams
    <3>2. Blocks'
      BY <2>1, <2>3, <3>1 DEF Blocks
    <3>3. ReadingErr'
      BY <2>1, <2>2, <2>3, <2>4, <3>1, ShellConstants DEF ReadingErr, Conserved
    <3> QED BY <2>1, <2>4, <3>2, <3>3 DEF BeforeReading, ReadingOut, ShellSound
  <2>5. CASE ~(got["err"] + 1 <= MaxOutput - got["out"])
    <3>1. Blocks'
      BY <2>1, <2>3, <2>5 DEF Blocks
    <3>2. got["out"] + got["err"] = MaxOutput
      BY <2>1, <2>2, <2>5, ShellConstants DEF ReadingErr
    <3>3. ShellSound'
      BY <2>1, <2>2, <2>5, <3>2, ShellConstants DEF ReadingErr, ShellSound
    <3> QED BY <2>1, <2>5, <3>1, <3>3 DEF BeforeReading, ReadingOut, ReadingErr
  <2> QED BY <2>4, <2>5
<1>16. CASE ErrEnds
  <2>1. /\ runStep = "err" /\ runStep' = "done" /\ pipe["err"] = 0
        /\ UNCHANGED <<runner, child, helper, pipe, wrote, got, outcome>>
    BY <1>16 DEF ErrEnds, EndOf
  <2>2. got["err"] \in Nat /\ wrote["err"] \in Nat
    BY BlocksAre DEF ShellStreams
  <2>3. ShellSound'
    BY <2>1, <2>2 DEF ShellSound, ReadingErr, Conserved
  <2> QED BY <2>1, <2>3 DEF Blocks, BeforeReading, ReadingOut, ReadingErr
<1>17. ASSUME NEW s \in ShellStreams, Collect(s) PROVE ShellInv'
  <2>1. /\ runStep = "wait" /\ runner = "container" /\ pipe[s] > 0
        /\ pipe' = [pipe EXCEPT ![s] = @ - 1] /\ got' = [got EXCEPT ![s] = @ + 1]
        /\ UNCHANGED <<runner, runStep, wrote, outcome>>
    BY <1>17 DEF Collect
  <2>2. /\ pipe' \in [ShellStreams -> Nat] /\ got' \in [ShellStreams -> Nat]
        /\ pipe'[s] = pipe[s] - 1 /\ got'[s] = got[s] + 1 /\ pipe[s] \in Nat /\ got[s] \in Nat
        /\ \A t \in ShellStreams : t # s => pipe'[t] = pipe[t] /\ got'[t] = got[t]
    BY <2>1 DEF Blocks
  <2>3. Blocks'
    BY <2>1, <2>2 DEF Blocks
  <2>4. BeforeReading'
    BY <2>1, <2>2 DEF BeforeReading, Conserved, ShellStreams
  <2> QED BY <2>1, <2>3, <2>4 DEF ReadingOut, ReadingErr, ShellSound
<1>18. CASE Collected
  <2> DEFINE out == Lesser(got["out"], MaxOutput)
             err == Lesser(got["err"], MaxOutput - out)
  <2>1. /\ runStep = "wait" /\ runner = "container" /\ runStep' = "done"
        /\ got' = [s \in ShellStreams |-> IF s = "out" THEN out ELSE err]
        /\ outcome' = IF got["out"] + got["err"] > MaxOutput THEN "truncated" ELSE "whole"
        /\ UNCHANGED <<runner, child, helper, pipe, wrote>>
    BY <1>18 DEF Collected
  <2>2. \A s \in ShellStreams : pipe[s] = 0 /\ child # "running" /\ ~helper
    BY <1>18 DEF Collected, EndOf
  <2>3. /\ got["out"] \in Nat /\ got["err"] \in Nat
        /\ got["out"] = wrote["out"] /\ got["err"] = wrote["err"]
    BY <2>1, <2>2, BlocksAre DEF BeforeReading, Conserved, ShellStreams
  <2>4. /\ out \in Nat /\ err \in Nat /\ out + err <= MaxOutput
        /\ got["out"] + got["err"] <= MaxOutput => out = got["out"] /\ err = got["err"]
        /\ got["out"] + got["err"] > MaxOutput => out + err = MaxOutput
    BY <2>3, ShellConstants DEF Lesser
  <2> HIDE DEF out, err
  <2>5. got' \in [ShellStreams -> Nat] /\ got'["out"] = out /\ got'["err"] = err
    BY <2>1, <2>4 DEF ShellStreams
  <2>6. Blocks'
    BY <2>1, <2>5 DEF Blocks
  <2>7. child # "running" /\ ~helper
    BY <2>2 DEF ShellStreams
  <2>8. ShellSound'
    BY <2>1, <2>3, <2>4, <2>5, <2>7, ShellConstants DEF ShellSound
  <2> QED BY <2>1, <2>6, <2>8 DEF BeforeReading, ReadingOut, ReadingErr
<1>19. CASE ClientTimesOut
  <2>1. /\ runner' = "container" /\ runStep' = "done" /\ got' = Nothing /\ outcome' = "timeout"
        /\ UNCHANGED <<pipe, wrote>>
    BY <1>19 DEF ClientTimesOut
  <2>2. Nothing \in [ShellStreams -> Nat] /\ Nothing["out"] = 0 /\ Nothing["err"] = 0
    BY DEF Nothing, ShellStreams
  <2>3. Blocks'
    BY <2>1, <2>2 DEF Blocks
  <2> QED BY <2>1, <2>2, <2>3, ShellConstants DEF BeforeReading, ReadingOut, ReadingErr, ShellSound
<1>20. ASSUME NEW s \in ShellStreams, CommandWrites(s) PROVE ShellInv'
  <2>1. /\ runStep \in OnTheWay /\ (child = "running" \/ helper) /\ ~(runStep = "err" /\ s = "out")
        /\ pipe' = [pipe EXCEPT ![s] = @ + 1] /\ wrote' = [wrote EXCEPT ![s] = @ + 1]
        /\ UNCHANGED <<runner, runStep, child, helper, got, outcome>>
    BY <1>20 DEF CommandWrites
  <2>2. /\ pipe' \in [ShellStreams -> Nat] /\ wrote' \in [ShellStreams -> Nat]
        /\ pipe'[s] = pipe[s] + 1 /\ wrote'[s] = wrote[s] + 1
        /\ \A t \in ShellStreams : t # s => pipe'[t] = pipe[t] /\ wrote'[t] = wrote[t]
    BY <2>1 DEF Blocks
  <2>3. Blocks'
    BY <2>1, <2>2 DEF Blocks
  <2>4. \A t \in ShellStreams : pipe[t] \in Nat /\ wrote[t] \in Nat /\ got[t] \in Nat
    BY BlocksAre
  <2>5. \A t \in ShellStreams : Conserved(t) => Conserved(t)'
    BY <2>1, <2>2, <2>4 DEF Conserved
  <2>6. BeforeReading' /\ ReadingOut'
    BY <2>1, <2>5 DEF BeforeReading, ReadingOut, ShellStreams
  <2>7. ReadingErr'
    <3>1. wrote'["out"] + wrote'["err"] >= wrote["out"] + wrote["err"]
      BY <2>2, <2>4 DEF ShellStreams
    <3> QED BY <2>1, <2>2, <2>3, <2>4, <2>5, <3>1, ShellConstants DEF ReadingErr, ShellStreams, Blocks
  <2>8. ShellSound'
    BY <2>1 DEF ShellSound, OnTheWay
  <2> QED BY <2>3, <2>6, <2>7, <2>8
<1>21. CASE UNCHANGED shellVars
  BY <1>21 DEF shellVars, Blocks, BeforeReading, ReadingOut, ReadingErr, ShellSound, Conserved
<1> QED BY <1>1, <1>2, <1>3, <1>4, <1>5, <1>6, <1>7, <1>8, <1>9, <1>10, <1>11, <1>12, <1>13, <1>14,
           <1>15, <1>16, <1>17, <1>18, <1>19, <1>20, <1>21 DEF ShellNext

(* An answer stays within the limit, is whole unless it says that it is    *)
(* not, and on the host the command is over when it is there; whatever the *)
(* command and its helper write, when, and for how long.                   *)
THEOREM ShellSoundHolds == ShellSpec => []ShellSound
<1>1. ShellInv => ShellSound
  BY DEF ShellInv
<1> QED BY <1>1, ShellStarts, ShellKeeps, PTL DEF ShellSpec

-----------------------------------------------------------------------------
(* Containers, for any managers, names and limits.                         *)

\* At least one manager, and finitely many: the tasks of one process.
SomeManagers == IsFiniteSet(Managers) /\ Managers # {}

AtDocker == {"stop", "remove", "untrack"}
Hands == {m \in Managers : opStep[m] \in {"start", "insert"}}
InHand(i) == \E m \in Hands : opId[m] = i
IsGiven(i) == i \in Ids /\ i \notin leftOver /\ ~InHand(i)
Scaling(m) == opBase[m] # NoScale

OrchTypes ==
  /\ \E n \in Nat : Ids = 1 .. n
  /\ containers \subseteq Ids /\ leftOver \subseteq Ids
  /\ opStep \in [Managers -> {"idle", "create", "start", "insert", "next"} \cup AtDocker]
  /\ opId \in [Managers -> Nat] /\ victims \in [Managers -> SUBSET Nat]
  /\ toRemove \in [Managers -> Nat] /\ alone \in [Managers -> BOOLEAN]
  /\ opBase \in [Managers -> {NoScale} \cup [id : Nat, name : Names, replicas : Nat \ {0}]]
  /\ nameOf \in [Ids -> Names]
  /\ \A m \in Managers : Scaling(m) => opStep[m] \in {"next"} \cup AtDocker
  /\ \A m \in Managers : Scaling(m) /\ opStep[m] \in AtDocker => toRemove[m] # 0
\* What is in the table, or is to be stopped, is in nobody's hands any more.
GivenInv ==
  /\ \A i \in tracked : IsGiven(i)
  /\ \A m \in Managers : /\ \A i \in victims[m] : IsGiven(i)
                         /\ opStep[m] \in AtDocker => IsGiven(opId[m])
                         /\ Scaling(m) => IsGiven(opBase[m].id)
HandInv ==
  \A m \in Hands : /\ opId[m] \in containers /\ opId[m] \notin leftOver
                   /\ \A k \in Hands : opId[k] = opId[m] => k = m
GoneInv == \A m \in Managers : opStep[m] = "untrack" => opId[m] \notin containers
StrayInv == \A i \in containers : i \in tracked \/ i \in leftOver \/ InHand(i)
GhostInv ==
  \A i \in tracked : i \in containers \/ \E m \in Managers : opStep[m] = "untrack" /\ opId[m] = i

LEMMA NoScaleIs == NoScale.replicas = 0
  BY DEF NoScale

\* What the steps do to who holds what: containers in hand, given, tracked.
LEMMA OrchStarts == OrchestratorInit => OrchTypes /\ GivenInv /\ HandInv /\ GoneInv /\ StrayInv /\ GhostInv
<1> SUFFICES ASSUME OrchestratorInit
             PROVE  OrchTypes /\ GivenInv /\ HandInv /\ GoneInv /\ StrayInv /\ GhostInv
  OBVIOUS
<1>1. /\ tracked = {} /\ Ids = {} /\ containers = {} /\ leftOver = {}
      /\ opStep = [m \in Managers |-> "idle"] /\ opId = [m \in Managers |-> 0]
      /\ victims = [m \in Managers |-> {}] /\ toRemove = [m \in Managers |-> 0]
      /\ opBase = [m \in Managers |-> NoScale] /\ alone = [m \in Managers |-> TRUE]
  BY DEF OrchestratorInit, Ids
<1> HIDE DEF NoScale
<1>2. Ids = 1 .. 0
  BY <1>1
<1>3. OrchTypes
  <2>1. nameOf = <<>> /\ <<>> \in [{} -> Names]
    BY DEF OrchestratorInit
  <2> QED BY <1>1, <1>2, <2>1 DEF OrchTypes, Scaling
<1>4. Hands = {}
  BY <1>1 DEF Hands
<1>5. \A m \in Managers : ~Scaling(m) /\ opStep[m] \notin AtDocker /\ victims[m] = {}
  BY <1>1 DEF Scaling, AtDocker
<1> QED BY <1>1, <1>3, <1>4, <1>5 DEF GivenInv, HandInv, GoneInv, StrayInv, GhostInv, AtDocker

OrchInv == OrchTypes /\ GivenInv /\ HandInv /\ GoneInv /\ StrayInv /\ GhostInv

LEMMA BeginProvisionStep ==
  ASSUME OrchInv, NEW m \in Managers, BeginProvision(m)
  PROVE  OrchInv'
<1> USE NoScaleIs DEF OrchInv, OpAt, OpTo, Disturb, BeginProvision
<1>1. OrchTypes'
  BY DEF OrchTypes, AtDocker, Scaling, Ids
<1>2. HandInv'
  BY DEF OrchTypes, HandInv, Hands, AtDocker, Ids
<1>3. GoneInv'
  BY DEF OrchTypes, GoneInv, AtDocker, Ids
<1>4. StrayInv'
  BY DEF OrchTypes, StrayInv, InHand, Hands, AtDocker, Ids
<1>5. GhostInv'
  BY DEF OrchTypes, GhostInv, HandInv, Hands, AtDocker, Ids
<1>6. GivenInv'
  BY DEF OrchTypes, GivenInv, HandInv, IsGiven, InHand, Hands, AtDocker, Scaling, Ids
<1> QED BY <1>1, <1>2, <1>3, <1>4, <1>5, <1>6

LEMMA StartContainerStep ==
  ASSUME OrchInv, NEW m \in Managers, StartContainer(m)
  PROVE  OrchInv'
<1> USE NoScaleIs DEF OrchInv, OpAt, OpTo, Disturb, StartContainer
<1>1. OrchTypes'
  BY DEF OrchTypes, AtDocker, Scaling, Ids
<1>2. HandInv'
  BY DEF OrchTypes, HandInv, Hands, AtDocker, Ids
<1>3. GoneInv'
  BY DEF OrchTypes, GoneInv, AtDocker, Ids
<1>4. StrayInv'
  BY DEF OrchTypes, StrayInv, InHand, Hands, AtDocker, Ids
<1>5. GhostInv'
  BY DEF OrchTypes, GhostInv, HandInv, Hands, AtDocker, Ids
<1>6. GivenInv'
  BY DEF OrchTypes, GivenInv, HandInv, IsGiven, InHand, Hands, AtDocker, Scaling, Ids
<1> QED BY <1>1, <1>2, <1>3, <1>4, <1>5, <1>6

LEMMA StartRefusedStep ==
  ASSUME OrchInv, NEW m \in Managers, StartRefused(m)
  PROVE  OrchInv'
<1> USE NoScaleIs DEF OrchInv, OpAt, OpTo, Disturb, StartRefused
<1>1. OrchTypes'
  BY DEF OrchTypes, HandInv, Hands, AtDocker, Scaling, Ids
<1>2. HandInv'
  BY DEF OrchTypes, HandInv, Hands, AtDocker, Ids
<1>3. GoneInv'
  BY DEF OrchTypes, GoneInv, AtDocker, Ids
<1>4. StrayInv'
  BY DEF OrchTypes, StrayInv, InHand, Hands, AtDocker, Ids
<1>5. GhostInv'
  BY DEF OrchTypes, GhostInv, HandInv, Hands, AtDocker, Ids
<1>6. GivenInv'
  BY DEF OrchTypes, GivenInv, HandInv, IsGiven, InHand, Hands, AtDocker, Scaling, Ids
<1> QED BY <1>1, <1>2, <1>3, <1>4, <1>5, <1>6

LEMMA InsertStep ==
  ASSUME OrchInv, NEW m \in Managers, Insert(m)
  PROVE  OrchInv'
<1> USE NoScaleIs DEF OrchInv, OpAt, OpTo, Disturb, Insert
<1>1. OrchTypes'
  BY DEF OrchTypes, AtDocker, Scaling, Ids
<1>2. HandInv'
  BY DEF OrchTypes, HandInv, Hands, AtDocker, Ids
<1>3. GoneInv'
  BY DEF OrchTypes, GoneInv, AtDocker, Ids
<1>4. StrayInv'
  BY DEF OrchTypes, StrayInv, InHand, Hands, AtDocker, Ids
<1>5. GhostInv'
  BY DEF OrchTypes, GhostInv, HandInv, Hands, AtDocker, Ids
<1>6. GivenInv'
  BY DEF OrchTypes, GivenInv, HandInv, IsGiven, InHand, Hands, AtDocker, Scaling, Ids
<1> QED BY <1>1, <1>2, <1>3, <1>4, <1>5, <1>6

LEMMA NextVictimStep ==
  ASSUME OrchInv, NEW m \in Managers, NextVictim(m)
  PROVE  OrchInv'
<1> USE NoScaleIs DEF OrchInv, OpAt, OpTo, Disturb, NextVictim
<1>1. OrchTypes'
  BY DEF OrchTypes, AtDocker, Scaling, Ids
<1>2. HandInv'
  BY DEF OrchTypes, HandInv, Hands, AtDocker, Ids
<1>3. GoneInv'
  BY DEF OrchTypes, GoneInv, AtDocker, Ids
<1>4. StrayInv'
  BY DEF OrchTypes, StrayInv, InHand, Hands, AtDocker, Ids
<1>5. GhostInv'
  BY DEF OrchTypes, GhostInv, HandInv, Hands, AtDocker, Ids
<1>6. GivenInv'
  BY DEF OrchTypes, GivenInv, HandInv, IsGiven, InHand, Hands, AtDocker, Scaling, Ids
<1> QED BY <1>1, <1>2, <1>3, <1>4, <1>5, <1>6

LEMMA EndScaleStep ==
  ASSUME OrchInv, NEW m \in Managers, EndScale(m)
  PROVE  OrchInv'
<1> USE NoScaleIs DEF OrchInv, OpAt, OpTo, Disturb, EndScale
<1>1. OrchTypes'
  BY DEF OrchTypes, AtDocker, Scaling, Ids
<1>2. HandInv'
  BY DEF OrchTypes, HandInv, Hands, AtDocker, Ids
<1>3. GoneInv'
  BY DEF OrchTypes, GoneInv, AtDocker, Ids
<1>4. StrayInv'
  BY DEF OrchTypes, StrayInv, InHand, Hands, AtDocker, Ids
<1>5. GhostInv'
  BY DEF OrchTypes, GhostInv, HandInv, Hands, AtDocker, Ids
<1>6. GivenInv'
  BY DEF OrchTypes, GivenInv, HandInv, IsGiven, InHand, Hands, AtDocker, Scaling, Ids
<1> QED BY <1>1, <1>2, <1>3, <1>4, <1>5, <1>6

LEMMA StopContainerStep ==
  ASSUME OrchInv, NEW m \in Managers, StopContainer(m)
  PROVE  OrchInv'
<1> USE NoScaleIs DEF OrchInv, OpAt, OpTo, Disturb, StopContainer
<1>1. OrchTypes'
  BY DEF OrchTypes, AtDocker, Scaling, Ids
<1>2. HandInv'
  BY DEF OrchTypes, HandInv, Hands, AtDocker, Ids
<1>3. GoneInv'
  BY DEF OrchTypes, GoneInv, AtDocker, Ids
<1>4. StrayInv'
  BY DEF OrchTypes, StrayInv, InHand, Hands, AtDocker, Ids
<1>5. GhostInv'
  BY DEF OrchTypes, GhostInv, HandInv, Hands, AtDocker, Ids
<1>6. GivenInv'
  BY DEF OrchTypes, GivenInv, HandInv, IsGiven, InHand, Hands, AtDocker, Scaling, Ids
<1> QED BY <1>1, <1>2, <1>3, <1>4, <1>5, <1>6

LEMMA RemoveContainerStep ==
  ASSUME OrchInv, NEW m \in Managers, RemoveContainer(m)
  PROVE  OrchInv'
<1> USE NoScaleIs DEF OrchInv, OpAt, OpTo, Disturb, RemoveContainer
<1>1. OrchTypes'
  BY DEF OrchTypes, AtDocker, Scaling, Ids
<1>2. HandInv'
  BY DEF OrchTypes, HandInv, GivenInv, IsGiven, InHand, Hands, AtDocker, Ids
<1>3. GoneInv'
  BY DEF OrchTypes, GoneInv, AtDocker, Ids
<1>4. StrayInv'
  BY DEF OrchTypes, StrayInv, InHand, Hands, AtDocker, Ids
<1>5. GhostInv'
  BY DEF OrchTypes, GhostInv, HandInv, Hands, AtDocker, Ids
<1>6. GivenInv'
  BY DEF OrchTypes, GivenInv, HandInv, IsGiven, InHand, Hands, AtDocker, Scaling, Ids
<1> QED BY <1>1, <1>2, <1>3, <1>4, <1>5, <1>6

LEMMA UntrackStep ==
  ASSUME OrchInv, NEW m \in Managers, Untrack(m)
  PROVE  OrchInv'
<1> USE NoScaleIs DEF OrchInv
<1>1. /\ opStep[m] = "untrack" /\ tracked' = tracked \ {opId[m]} /\ opId' = [opId EXCEPT ![m] = 0]
      /\ alone' = [k \in Managers |-> k = m /\ alone[k]]
      /\ UNCHANGED <<nameOf, containers, victims, opBase, leftOver>>
  BY DEF Untrack, OpAt, Disturb
<1>2. \/ /\ ~Scaling(m) /\ opStep' = [opStep EXCEPT ![m] = "idle"] /\ toRemove' = toRemove
      \/ /\ Scaling(m) /\ opStep' = [opStep EXCEPT ![m] = "next"]
         /\ toRemove' = [toRemove EXCEPT ![m] = @ - 1]
  BY DEF Untrack, OpTo, Scaling
<1>3. opStep[m] \in AtDocker /\ toRemove[m] \in Nat /\ (Scaling(m) => toRemove[m] - 1 \in Nat)
  BY <1>1 DEF OrchTypes, AtDocker
<1>4. toRemove' \in [Managers -> Nat] /\ \A k \in Managers : k # m => toRemove'[k] = toRemove[k]
  BY <1>2, <1>3 DEF OrchTypes
<1>5. PICK s \in {"idle", "next"} : /\ opStep' = [opStep EXCEPT ![m] = s]
                                    /\ Scaling(m) => s = "next"
  BY <1>2
<1>6. OrchTypes'
  BY <1>1, <1>3, <1>4, <1>5 DEF OrchTypes, AtDocker, Scaling, Ids
<1>7. HandInv'
  BY <1>1, <1>5 DEF OrchTypes, HandInv, Hands
<1>8. GoneInv'
  BY <1>1, <1>5 DEF OrchTypes, GoneInv
<1>9. StrayInv'
  BY <1>1, <1>5 DEF OrchTypes, StrayInv, GoneInv, InHand, Hands
<1>10. GhostInv'
  BY <1>1, <1>5 DEF OrchTypes, GhostInv
<1>11. \A i : IsGiven(i) => IsGiven(i)'
  BY <1>1, <1>5 DEF OrchTypes, IsGiven, InHand, Hands, Ids
<1>12. GivenInv'
  BY <1>1, <1>5, <1>11 DEF OrchTypes, GivenInv, AtDocker, Scaling
<1> QED BY <1>6, <1>7, <1>8, <1>9, <1>10, <1>12

LEMMA DockerFailsStep ==
  ASSUME OrchInv, NEW m \in Managers, DockerFails(m)
  PROVE  OrchInv'
<1> USE NoScaleIs DEF OrchInv, OpAt, OpTo, Disturb, DockerFails
<1>1. OrchTypes'
  BY DEF OrchTypes, AtDocker, Scaling, Ids
<1>2. HandInv'
  BY DEF OrchTypes, HandInv, Hands, AtDocker, Ids
<1>3. GoneInv'
  BY DEF OrchTypes, GoneInv, AtDocker, Ids
<1>4. StrayInv'
  BY DEF OrchTypes, StrayInv, InHand, Hands, AtDocker, Ids
<1>5. GhostInv'
  BY DEF OrchTypes, GhostInv, HandInv, Hands, AtDocker, Ids
<1>6. GivenInv'
  BY DEF OrchTypes, GivenInv, HandInv, IsGiven, InHand, Hands, AtDocker, Scaling, Ids
<1> QED BY <1>1, <1>2, <1>3, <1>4, <1>5, <1>6

LEMMA CreateContainerStep ==
  ASSUME OrchInv, NEW m \in Managers, NEW name \in Names, CreateContainer(m, name)
  PROVE  OrchInv'
<1> DEFINE id == Cardinality(Ids) + 1
<1>1. PICK n \in Nat : Ids = 1 .. n
  BY DEF OrchInv, OrchTypes
<1>2. IsFiniteSet(Ids) /\ Cardinality(Ids) = n
  BY <1>1, FS_Interval
<1>3. /\ opStep[m] = "create" /\ opStep' = [opStep EXCEPT ![m] = "start"]
      /\ nameOf' = [i \in Ids \cup {id} |-> IF i = id THEN name ELSE nameOf[i]]
      /\ containers' = containers \cup {id} /\ opId' = [opId EXCEPT ![m] = id]
      /\ UNCHANGED <<tracked, victims, toRemove, opBase, alone, leftOver>>
  BY DEF CreateContainer, OpAt, OpTo
<1>4. /\ id = n + 1 /\ id \in Nat /\ Ids' = 1 .. (n + 1) /\ Ids' = Ids \cup {id} /\ id \notin Ids
  BY <1>1, <1>2, <1>3 DEF Ids
<1> HIDE DEF id
<1> USE <1>3, <1>4, NoScaleIs DEF OrchInv
<1>5. OrchTypes'
  <2>1. nameOf' \in [Ids' -> Names]
    BY DEF OrchTypes
  <2> QED BY <2>1 DEF OrchTypes, AtDocker, Scaling
<1>6. HandInv'
  BY DEF OrchTypes, HandInv, Hands
<1>7. GoneInv'
  BY DEF OrchTypes, GoneInv, GivenInv, IsGiven, AtDocker
<1>8. StrayInv'
  BY DEF OrchTypes, StrayInv, InHand, Hands
<1>9. GhostInv'
  BY DEF OrchTypes, GhostInv
<1>10. \A i : IsGiven(i) => IsGiven(i)'
  BY DEF OrchTypes, IsGiven, InHand, Hands
<1>11. GivenInv'
  BY <1>10 DEF OrchTypes, GivenInv, AtDocker, Scaling
<1> QED BY <1>5, <1>6, <1>7, <1>8, <1>9, <1>11

LEMMA BeginDestroyStep ==
  ASSUME OrchInv, NEW m \in Managers, NEW id \in Given, BeginDestroy(m, id)
  PROVE  OrchInv'
<1>1. IsGiven(id) /\ id \in Nat
  BY DEF Given, IsGiven, InHand, Hands, OrchInv, OrchTypes
<1>2. /\ opStep[m] = "idle" /\ opStep' = [opStep EXCEPT ![m] = "stop"]
      /\ opId' = [opId EXCEPT ![m] = id]
      /\ UNCHANGED <<tracked, nameOf, containers, victims, toRemove, opBase, alone, leftOver>>
  BY DEF BeginDestroy, OpAt, OpTo
<1> USE <1>1, <1>2, NoScaleIs DEF OrchInv
<1>3. OrchTypes'
  BY DEF OrchTypes, AtDocker, Scaling, Ids
<1>4. HandInv'
  BY DEF OrchTypes, HandInv, Hands, AtDocker, Ids
<1>5. GoneInv'
  BY DEF OrchTypes, GoneInv, AtDocker, Ids
<1>6. StrayInv'
  BY DEF OrchTypes, StrayInv, InHand, Hands, AtDocker, Ids
<1>7. GhostInv'
  BY DEF OrchTypes, GhostInv, HandInv, Hands, AtDocker, Ids
<1>8. GivenInv'
  BY DEF OrchTypes, GivenInv, HandInv, IsGiven, InHand, Hands, AtDocker, Scaling, Ids
<1> QED BY <1>3, <1>4, <1>5, <1>6, <1>7, <1>8

LEMMA BeginScaleStep ==
  ASSUME OrchInv, NEW m \in Managers, NEW id \in Given, NEW r \in 1 .. MaxInstances, BeginScale(m, id, r)
  PROVE  OrchInv'
<1>1. IsGiven(id) /\ id \in Nat /\ id \in Ids
  BY DEF Given, IsGiven, InHand, Hands, OrchInv, OrchTypes
<1> DEFINE v == Replicas(nameOf[id]) \ {id}
           c == Cardinality(Replicas(nameOf[id])) - r
           b == [id |-> id, name |-> nameOf[id], replicas |-> r]
<1>2. /\ opStep[m] = "idle" /\ opStep' = [opStep EXCEPT ![m] = "next"]
      /\ victims' = [victims EXCEPT ![m] = v] /\ toRemove' = [toRemove EXCEPT ![m] = c]
      /\ opBase' = [opBase EXCEPT ![m] = b] /\ alone' = [alone EXCEPT ![m] = TRUE]
      /\ UNCHANGED <<tracked, nameOf, containers, opId, leftOver>>
  BY DEF BeginScale, OpAt, OpTo
<1>3. v \subseteq tracked /\ v \in SUBSET Nat
  BY DEF Replicas, OrchInv, GivenInv, IsGiven, OrchTypes
<1>4. r \in Nat \ {0} /\ c \in Nat
  <2>1. IsFiniteSet(Replicas(nameOf[id]))
    <3>1. PICK n \in Nat : Ids = 1 .. n
      BY DEF OrchInv, OrchTypes
    <3>2. Replicas(nameOf[id]) \subseteq Ids
      BY DEF Replicas, OrchInv, GivenInv, IsGiven
    <3> QED BY <3>1, <3>2, FS_Interval, FS_Subset
  <2>2. Cardinality(Replicas(nameOf[id])) \in Nat
    BY <2>1, FS_CardinalityType
  <2> QED BY <2>2, OrchestratorAssumption DEF BeginScale
<1>5. b \in [id : Nat, name : Names, replicas : Nat \ {0}] /\ b.id = id /\ b # NoScale
  BY <1>1, <1>4, NoScaleIs DEF OrchInv, OrchTypes
<1> HIDE DEF v, c, b
<1> USE <1>1, <1>2, <1>3, <1>4, <1>5, NoScaleIs DEF OrchInv
<1>6. OrchTypes'
  BY DEF OrchTypes, AtDocker, Scaling, Ids
<1>7. HandInv'
  BY DEF OrchTypes, HandInv, Hands, AtDocker, Ids
<1>8. GoneInv'
  BY DEF OrchTypes, GoneInv, AtDocker, Ids
<1>9. StrayInv'
  BY DEF OrchTypes, StrayInv, InHand, Hands, AtDocker, Ids
<1>10. GhostInv'
  BY DEF OrchTypes, GhostInv, HandInv, Hands, AtDocker, Ids
<1>11. GivenInv'
  BY DEF OrchTypes, GivenInv, HandInv, IsGiven, InHand, Hands, AtDocker, Scaling, Ids
<1> QED BY <1>6, <1>7, <1>8, <1>9, <1>10, <1>11

Pending == {m \in Managers : opStep[m] \in {"create", "start", "insert"}}
\* A manager that is to insert a container has found room for it.
RoomInv == Cardinality(tracked) + Cardinality(Pending) < MaxInstances + Cardinality(Managers)
\* A scale that nobody disturbed: what it is to remove is still there.
Counts(m) ==
  LET R == Replicas(opBase[m].name)
  IN  /\ Cardinality(R) = opBase[m].replicas + toRemove[m]
      /\ victims[m] \subseteq R
      /\ opStep[m] = "next" => toRemove[m] <= Cardinality(victims[m])
      /\ opStep[m] \in AtDocker => /\ opId[m] \in R /\ opId[m] \notin victims[m]
                                   /\ toRemove[m] <= Cardinality(victims[m]) + 1
ScaleInv == \A m \in Managers : Scaling(m) /\ alone[m] => Counts(m)

LEMMA CountWithout ==
  ASSUME NEW S, IsFiniteSet(S), NEW x
  PROVE  /\ Cardinality(S) \in Nat /\ Cardinality(S \ {x}) \in Nat
         /\ Cardinality(S \ {x}) >= Cardinality(S) - 1
         /\ x \in S => Cardinality(S \ {x}) = Cardinality(S) - 1
<1>1. Cardinality(S) \in Nat /\ IsFiniteSet(S \ {x})
  BY FS_RemoveElement, FS_CardinalityType
<1>2. Cardinality(S \ {x}) = IF x \in S THEN Cardinality(S) - 1 ELSE Cardinality(S)
  BY FS_RemoveElement
<1>3. Cardinality(S \ {x}) \in Nat
  BY <1>1, FS_CardinalityType
<1> QED BY <1>1, <1>2, <1>3

LEMMA CountWith ==
  ASSUME NEW S, IsFiniteSet(S), NEW x
  PROVE  Cardinality(S \cup {x}) \in Nat /\ Cardinality(S \cup {x}) <= Cardinality(S) + 1
<1>1. Cardinality(S) \in Nat /\ IsFiniteSet(S \cup {x})
  BY FS_AddElement, FS_CardinalityType
<1>2. Cardinality(S \cup {x}) = IF x \in S THEN Cardinality(S) ELSE Cardinality(S) + 1
  BY FS_AddElement
<1> QED BY <1>1, <1>2, FS_CardinalityType

LEMMA IdsFinite ==
  ASSUME OrchInv
  PROVE  IsFiniteSet(Ids) /\ Cardinality(Ids) + 1 \notin Ids
<1>1. PICK n \in Nat : Ids = 1 .. n
  BY DEF OrchInv, OrchTypes
<1>2. IsFiniteSet(Ids) /\ Cardinality(Ids) = n
  BY <1>1, FS_Interval
<1> QED BY <1>1, <1>2

LEMMA TrackedFinite ==
  ASSUME OrchInv PROVE IsFiniteSet(tracked) /\ Cardinality(tracked) \in Nat
<1>1. tracked \subseteq Ids
  BY DEF OrchInv, GivenInv, IsGiven
<1>2. IsFiniteSet(tracked)
  BY <1>1, IdsFinite, FS_Subset
<1> QED BY <1>2, FS_CardinalityType

LEMMA PendingFinite ==
  ASSUME SomeManagers
  PROVE  /\ IsFiniteSet(Pending) /\ Cardinality(Pending) \in Nat
         /\ Cardinality(Pending) <= Cardinality(Managers) /\ Cardinality(Managers) \in Nat
         /\ Cardinality(Managers) > 0
<1>1. Pending \subseteq Managers
  BY DEF Pending
<1> QED BY <1>1, FS_Subset, FS_CardinalityType, FS_EmptySet DEF SomeManagers

LEMMA RoomGoesOn ==
  ASSUME SomeManagers, OrchInv, RoomInv,
         NEW T, T \subseteq tracked, NEW P, P \subseteq Pending
  PROVE  Cardinality(T) + Cardinality(P) < MaxInstances + Cardinality(Managers)
<1>1. Cardinality(T) \in Nat /\ Cardinality(T) <= Cardinality(tracked)
  BY TrackedFinite, FS_Subset, FS_CardinalityType
<1>2. Cardinality(P) \in Nat /\ Cardinality(P) <= Cardinality(Pending)
  BY PendingFinite, FS_Subset, FS_CardinalityType
<1> QED BY <1>1, <1>2, TrackedFinite, PendingFinite, OrchestratorAssumption DEF RoomInv

\* One step of a manager.
ManagerStep(m) ==
  \/ BeginProvision(m) \/ (\E n \in Names : CreateContainer(m, n)) \/ StartContainer(m) \/ StartRefused(m)
  \/ Insert(m) \/ NextVictim(m) \/ EndScale(m) \/ StopContainer(m) \/ RemoveContainer(m) \/ Untrack(m)
  \/ DockerFails(m)
  \/ \E id \in Given : BeginDestroy(m, id) \/ \E r \in 1 .. MaxInstances : BeginScale(m, id, r)

LEMMA OrchStep == ASSUME OrchInv, NEW m \in Managers, ManagerStep(m) PROVE OrchInv'
  BY BeginProvisionStep, CreateContainerStep, StartContainerStep, StartRefusedStep, InsertStep,
     NextVictimStep, EndScaleStep, StopContainerStep, RemoveContainerStep, UntrackStep,
     DockerFailsStep, BeginDestroyStep, BeginScaleStep DEF ManagerStep

LEMMA RoomStep ==
  ASSUME SomeManagers, OrchInv, OrchInv', RoomInv, NEW m \in Managers, ManagerStep(m)
  PROVE  RoomInv'
<1> USE DEF OrchInv, OrchTypes, OpAt, OpTo
<1>1. CASE BeginProvision(m)
  <2>1. tracked' = tracked /\ Cardinality(tracked) < MaxInstances
    BY <1>1 DEF BeginProvision
  <2>2. Pending' \subseteq Managers
    BY DEF Pending
  <2> HIDE DEF OrchInv, OrchTypes, OpAt, OpTo
  <2>3. Cardinality(Pending') \in Nat /\ Cardinality(Pending') <= Cardinality(Managers)
    BY <2>2, FS_Subset, FS_CardinalityType DEF SomeManagers
  <2> QED BY <2>1, <2>3, TrackedFinite, PendingFinite, OrchestratorAssumption DEF RoomInv
<1>2. CASE Insert(m)
  <2>1. tracked' = tracked \cup {opId[m]} /\ Pending' = Pending \ {m} /\ m \in Pending
    BY <1>2 DEF Insert, Pending
  <2> HIDE DEF OrchInv, OrchTypes, OpAt, OpTo
  <2>2. Cardinality(Pending') = Cardinality(Pending) - 1
    BY <2>1, PendingFinite, CountWithout
  <2>3. Cardinality(tracked') \in Nat /\ Cardinality(tracked') <= Cardinality(tracked) + 1
    BY <2>1, TrackedFinite, CountWith
  <2> QED BY <2>2, <2>3, TrackedFinite, PendingFinite, OrchestratorAssumption DEF RoomInv
<1>3. ASSUME NEW n \in Names, CreateContainer(m, n) PROVE RoomInv'
  <2>1. tracked' = tracked /\ Pending' \subseteq Pending
    BY <1>3 DEF CreateContainer, Pending
  <2> QED BY <2>1, RoomGoesOn DEF RoomInv
<1>4. CASE StartContainer(m) \/ StartRefused(m)
  <2>1. tracked' = tracked /\ Pending' \subseteq Pending
    BY <1>4 DEF StartContainer, StartRefused, Pending
  <2> QED BY <2>1, RoomGoesOn DEF RoomInv
<1>5. CASE NextVictim(m) \/ EndScale(m) \/ DockerFails(m) \/ StopContainer(m) \/ RemoveContainer(m)
  <2>1. tracked' = tracked /\ Pending' \subseteq Pending
    BY <1>5 DEF NextVictim, EndScale, DockerFails, StopContainer, RemoveContainer, Pending
  <2> QED BY <2>1, RoomGoesOn DEF RoomInv
<1>6. CASE Untrack(m)
  <2>1. tracked' \subseteq tracked /\ Pending' \subseteq Pending
    BY <1>6 DEF Untrack, Pending
  <2> QED BY <2>1, RoomGoesOn DEF RoomInv
<1>7. ASSUME NEW id \in Given, BeginDestroy(m, id) PROVE RoomInv'
  <2>1. tracked' = tracked /\ Pending' \subseteq Pending
    BY <1>7 DEF BeginDestroy, Pending
  <2> QED BY <2>1, RoomGoesOn DEF RoomInv
<1>8. ASSUME NEW id \in Given, NEW r \in 1 .. MaxInstances, BeginScale(m, id, r) PROVE RoomInv'
  <2>1. tracked' = tracked /\ Pending' \subseteq Pending
    BY <1>8 DEF BeginScale, Pending
  <2> QED BY <2>1, RoomGoesOn DEF RoomInv
<1> HIDE DEF OrchInv, OrchTypes, OpAt, OpTo
<1> QED BY <1>1, <1>2, <1>3, <1>4, <1>5, <1>6, <1>7, <1>8 DEF ManagerStep

\* The replicas of a name, while the table and the names in it are the same.
LEMMA SameReplicas ==
  ASSUME tracked' = tracked, \A i \in tracked : nameOf'[i] = nameOf[i], NEW base
  PROVE  Replicas(base)' = Replicas(base)
  BY DEF Replicas

LEMMA CountsKept ==
  ASSUME ScaleInv, NEW k \in Managers,
         Scaling(k)' /\ alone'[k] =>
           /\ alone[k] /\ tracked' = tracked /\ \A i \in tracked : nameOf'[i] = nameOf[i]
           /\ opBase'[k] = opBase[k] /\ toRemove'[k] = toRemove[k] /\ victims'[k] = victims[k]
           /\ opId'[k] = opId[k]
           /\ opStep'[k] = opStep[k] \/ (opStep[k] \in AtDocker /\ opStep'[k] \in AtDocker)
  PROVE  Scaling(k)' /\ alone'[k] => Counts(k)'
<1> SUFFICES ASSUME Scaling(k)', alone'[k] PROVE Counts(k)'
  OBVIOUS
<1>1. Counts(k)
  BY DEF ScaleInv, Scaling
<1>2. Replicas(opBase[k].name)' = Replicas(opBase[k].name)
  BY SameReplicas
<1> QED BY <1>1, <1>2 DEF Counts, AtDocker

LEMMA ReplicasFinite ==
  ASSUME OrchInv, NEW base
  PROVE  IsFiniteSet(Replicas(base)) /\ Cardinality(Replicas(base)) \in Nat
<1>1. Replicas(base) \subseteq tracked
  BY DEF Replicas
<1> QED BY <1>1, TrackedFinite, FS_Subset, FS_CardinalityType

LEMMA ScaleStep ==
  ASSUME OrchInv, OrchInv', ScaleInv, NEW m \in Managers, ManagerStep(m)
  PROVE  ScaleInv'
<1> SUFFICES ASSUME NEW k \in Managers PROVE Scaling(k)' /\ alone'[k] => Counts(k)'
  BY DEF ScaleInv
<1> USE DEF OrchInv, OrchTypes, OpAt, OpTo, Disturb
<1>1. CASE BeginProvision(m) \/ StartContainer(m) \/ StartRefused(m)
  BY <1>1, CountsKept DEF BeginProvision, StartContainer, StartRefused, Scaling, AtDocker
<1>2. CASE Insert(m)
  BY <1>2, CountsKept DEF Insert, Scaling, AtDocker
<1>3. ASSUME NEW n \in Names, CreateContainer(m, n) PROVE Scaling(k)' /\ alone'[k] => Counts(k)'
  <2>1. \A i \in tracked : nameOf'[i] = nameOf[i]
    <3>1. Cardinality(Ids) + 1 \notin Ids
      BY IdsFinite
    <3> QED BY <1>3, <3>1 DEF CreateContainer, GivenInv, IsGiven
  <2> QED BY <1>3, <2>1, CountsKept DEF CreateContainer, Scaling, AtDocker
<1>4. CASE StopContainer(m) \/ RemoveContainer(m)
  BY <1>4, CountsKept DEF StopContainer, RemoveContainer, AtDocker
<1>5. CASE EndScale(m) \/ DockerFails(m)
  BY <1>5, CountsKept DEF EndScale, DockerFails, Scaling
<1>6. ASSUME NEW id \in Given, BeginDestroy(m, id) PROVE Scaling(k)' /\ alone'[k] => Counts(k)'
  BY <1>6, CountsKept DEF BeginDestroy, Scaling, AtDocker
<1>7. CASE NextVictim(m)
  <2>1. CASE k # m
    BY <1>7, <2>1, CountsKept DEF NextVictim
  <2>2. CASE k = m
    <3> SUFFICES ASSUME Scaling(m)', alone'[m] PROVE Counts(m)'
      BY <2>2
    <3>1. PICK v \in victims[m] : /\ victims' = [victims EXCEPT ![m] = @ \ {v}]
                                  /\ opId' = [opId EXCEPT ![m] = v]
      BY <1>7 DEF NextVictim
    <3>2. /\ opStep[m] = "next" /\ opStep'[m] = "stop" /\ UNCHANGED <<tracked, nameOf, toRemove, opBase, alone>>
      BY <1>7 DEF NextVictim
    <3>3. Counts(m)
      BY <3>2 DEF ScaleInv, Scaling
    <3>4. victims'[m] = victims[m] \ {v} /\ opId'[m] = v
      BY <3>1
    <3>5. Replicas(opBase[m].name)' = Replicas(opBase[m].name)
      BY <3>2, SameReplicas
    <3>6. IsFiniteSet(victims[m]) /\ Cardinality(victims[m]) \in Nat
      BY <3>3, ReplicasFinite, FS_Subset, FS_CardinalityType DEF Counts
    <3>7. Cardinality(victims[m] \ {v}) = Cardinality(victims[m]) - 1
      BY <3>1, <3>6, CountWithout
    <3>8. toRemove[m] \in Nat
      OBVIOUS
    <3> HIDE DEF OrchInv, OrchTypes, OpAt, OpTo, Disturb
    <3>9. Cardinality(victims'[m]) = Cardinality(victims[m]) - 1
      BY <3>4, <3>7
    <3>10. /\ victims'[m] \subseteq Replicas(opBase[m].name) /\ opId'[m] \in Replicas(opBase[m].name)
           /\ opId'[m] \notin victims'[m] /\ toRemove[m] <= Cardinality(victims'[m]) + 1
      BY <3>1, <3>2, <3>3, <3>4, <3>6, <3>8, <3>9 DEF Counts
    <3> QED BY <3>2, <3>3, <3>5, <3>10 DEF Counts, AtDocker
  <2> QED BY <2>1, <2>2
<1>8. CASE Untrack(m)
  <2>1. CASE k # m
    BY <1>8, <2>1, CountsKept DEF Untrack
  <2>2. CASE k = m
    <3> SUFFICES ASSUME Scaling(m)', alone'[m] PROVE Counts(m)'
      BY <2>2
    <3>1. /\ opStep[m] = "untrack" /\ opStep'[m] = "next" /\ tracked' = tracked \ {opId[m]}
          /\ toRemove'[m] = toRemove[m] - 1 /\ alone[m] /\ UNCHANGED <<nameOf, victims, opBase>>
      BY <1>8 DEF Untrack, Scaling
    <3>2. Counts(m)
      BY <3>1 DEF ScaleInv, Scaling
    <3> DEFINE R == Replicas(opBase[m].name)
    <3>3. /\ Cardinality(R) = opBase[m].replicas + toRemove[m] /\ victims[m] \subseteq R
          /\ opId[m] \in R /\ opId[m] \notin victims[m] /\ toRemove[m] <= Cardinality(victims[m]) + 1
      BY <3>1, <3>2 DEF Counts, AtDocker
    <3>4. Replicas(opBase[m].name)' = R \ {opId[m]}
      BY <3>1 DEF Replicas
    <3>5. IsFiniteSet(R) /\ Cardinality(R) \in Nat
      BY ReplicasFinite
    <3> HIDE DEF R
    <3>6. Cardinality(R \ {opId[m]}) = Cardinality(R) - 1
      BY <3>3, <3>5, CountWithout
    <3>7. Cardinality(victims[m]) \in Nat
      BY <3>3, <3>5, FS_Subset, FS_CardinalityType
    <3>8. toRemove[m] \in Nat /\ opBase[m].replicas \in Nat
      BY <3>1 DEF Scaling
    <3> HIDE DEF OrchInv, OrchTypes, OpAt, OpTo, Disturb
    <3> QED BY <3>1, <3>3, <3>4, <3>6, <3>7, <3>8 DEF Counts, AtDocker
  <2> QED BY <2>1, <2>2
<1>9. ASSUME NEW id \in Given, NEW r \in 1 .. MaxInstances, BeginScale(m, id, r)
      PROVE  Scaling(k)' /\ alone'[k] => Counts(k)'
  <2>1. CASE k # m
    BY <1>9, <2>1, CountsKept DEF BeginScale
  <2>2. CASE k = m
    <3> DEFINE R == Replicas(nameOf[id])
    <3>1. /\ opStep'[m] = "next" /\ victims'[m] = R \ {id} /\ toRemove'[m] = Cardinality(R) - r
          /\ opBase'[m] = [id |-> id, name |-> nameOf[id], replicas |-> r]
          /\ r < Cardinality(R) /\ UNCHANGED <<tracked, nameOf>>
      BY <1>9 DEF BeginScale
    <3> HIDE DEF OrchInv, OrchTypes, OpAt, OpTo, Disturb
    <3>2. IsFiniteSet(R) /\ Cardinality(R) \in Nat /\ r \in Nat /\ r > 0
      <4>1. IsFiniteSet(R) /\ Cardinality(R) \in Nat
        BY ReplicasFinite
      <4> QED BY <4>1, OrchestratorAssumption
    <3>3. Replicas(nameOf[id])' = R
      BY <3>1, SameReplicas
    <3>4. Replicas(opBase[m].name)' = R
      BY <3>1 DEF Replicas
    <3> HIDE DEF R
    <3>5. Cardinality(R \ {id}) \in Nat /\ Cardinality(R \ {id}) >= Cardinality(R) - 1
      BY <3>2, CountWithout
    <3>6. victims'[m] \subseteq R
      BY <3>1
    <3>7. Cardinality(victims'[m]) = Cardinality(R \ {id})
      BY <3>1
    <3>8. opBase'[m].replicas = r
      BY <3>1
    <3>9. Cardinality(R) = opBase'[m].replicas + toRemove'[m] /\ toRemove'[m] <= Cardinality(victims'[m])
      BY <3>1, <3>2, <3>5, <3>7, <3>8
    <3> QED BY <2>2, <3>1, <3>4, <3>6, <3>9 DEF Counts, AtDocker
  <2> QED BY <2>1, <2>2
<1> HIDE DEF OrchInv, OrchTypes, OpAt, OpTo, Disturb
<1> QED BY <1>1, <1>2, <1>3, <1>4, <1>5, <1>6, <1>7, <1>8, <1>9 DEF ManagerStep

\* Only the end of a scale says that it ended as it should.
LEMMA EndsRight ==
  ASSUME OrchInv, ScaleInv, ScaledRight, NEW m \in Managers, ManagerStep(m)
  PROVE  ScaledRight'
<1>1. CASE EndScale(m)
  <2> SUFFICES ASSUME scaled' # NoScale
               PROVE  /\ Cardinality(Replicas(scaled.name))' = scaled'.replicas
                      /\ scaled'.id \in containers' => scaled'.id \in tracked'
    BY DEF ScaledRight
  <2>1. /\ opStep[m] = "next" /\ (toRemove[m] = 0 \/ victims[m] = {})
        /\ alone[m] /\ scaled' = opBase[m] /\ Scaling(m) /\ UNCHANGED <<tracked, nameOf, containers>>
    BY <1>1 DEF EndScale, OpAt, Scaling
  <2>2. Counts(m)
    BY <2>1 DEF ScaleInv
  <2>3. toRemove[m] \in Nat /\ opBase[m].replicas \in Nat
    BY <2>1 DEF OrchInv, OrchTypes, Scaling
  <2>4. toRemove[m] = 0
    BY <2>1, <2>2, <2>3, FS_EmptySet DEF Counts
  <2>5. Cardinality(Replicas(opBase[m].name)) = opBase[m].replicas
    BY <2>2, <2>3, <2>4 DEF Counts
  <2>6. Replicas(scaled.name)' = Replicas(opBase[m].name)
    BY <2>1 DEF Replicas
  <2>7. opBase[m].id \in containers => opBase[m].id \in tracked
    BY <2>1 DEF OrchInv, StrayInv, GivenInv, IsGiven
  <2> QED BY <2>1, <2>5, <2>6, <2>7
<1>2. CASE ~EndScale(m)
  <2>1. scaled' = NoScale
    BY <1>2 DEF ManagerStep, BeginProvision, CreateContainer, StartContainer, StartRefused, Insert,
       NextVictim, StopContainer, RemoveContainer, Untrack, DockerFails, BeginDestroy, BeginScale
  <2> QED BY <2>1 DEF ScaledRight
<1> QED BY <1>1, <1>2

OrchestratorInv == OrchInv /\ RoomInv /\ ScaleInv /\ ScaledRight

LEMMA OrchestratorStarts ==
  ASSUME SomeManagers PROVE OrchestratorInit => OrchestratorInv
<1> SUFFICES ASSUME OrchestratorInit PROVE OrchestratorInv
  OBVIOUS
<1>1. OrchInv
  BY OrchStarts DEF OrchInv
<1>2. /\ tracked = {} /\ Pending = {} /\ scaled = NoScale
      /\ \A m \in Managers : ~Scaling(m)
  BY DEF OrchestratorInit, Pending, Scaling
<1>3. RoomInv
  BY <1>2, PendingFinite, FS_EmptySet, OrchestratorAssumption DEF RoomInv
<1> QED BY <1>1, <1>2, <1>3 DEF OrchestratorInv, ScaleInv, ScaledRight

LEMMA OrchestratorStep ==
  ASSUME SomeManagers PROVE OrchestratorInv /\ [OrchestratorNext]_orchestratorVars => OrchestratorInv'
<1> SUFFICES ASSUME OrchestratorInv, [OrchestratorNext]_orchestratorVars PROVE OrchestratorInv'
  OBVIOUS
<1>1. ASSUME NEW m \in Managers, ManagerStep(m) PROVE OrchestratorInv'
  BY <1>1, OrchStep, RoomStep, ScaleStep, EndsRight DEF OrchestratorInv
<1>2. CASE UNCHANGED orchestratorVars
  <2>1. OrchInv'
    BY <1>2 DEF OrchestratorInv, orchestratorVars, OrchInv, OrchTypes, GivenInv, HandInv, GoneInv, StrayInv,
       GhostInv, IsGiven, InHand, Hands, Scaling, Ids
  <2>2. RoomInv' /\ ScaleInv' /\ ScaledRight'
    BY <1>2 DEF OrchestratorInv, orchestratorVars, RoomInv, Pending, ScaleInv, Scaling, Counts, Replicas,
       ScaledRight
  <2> QED BY <2>1, <2>2 DEF OrchestratorInv
<1>3. OrchestratorNext => \E m \in Managers : ManagerStep(m)
  BY DEF OrchestratorNext, ManagerStep
<1> QED BY <1>1, <1>2, <1>3

LEMMA OrchestratorHolds == ASSUME SomeManagers PROVE OrchestratorInv => OrchestratorSound
<1> SUFFICES ASSUME OrchestratorInv PROVE OrchestratorSound
  OBVIOUS
<1>1. WithinLimit
  BY TrackedFinite, PendingFinite, OrchestratorAssumption DEF OrchestratorInv, RoomInv, WithinLimit
<1>2. NoStrayContainer
  BY DEF OrchestratorInv, OrchInv, StrayInv, InHand, Hands, NoStrayContainer
<1>3. NoGhost
  BY DEF OrchestratorInv, OrchInv, GhostInv, NoGhost, OpAt
<1> QED BY <1>1, <1>2, <1>3 DEF OrchestratorInv, OrchestratorSound

(* The table outgrows its limit by no more than the other managers, no     *)
(* container that runs is forgotten and none that is gone is kept, and a   *)
(* scale that nobody disturbed leaves what was asked for; whatever the     *)
(* managers do at the same time, and whichever call to Docker fails.       *)
THEOREM OrchestratorSoundHolds == ASSUME SomeManagers PROVE OrchestratorSpec => []OrchestratorSound
<1> QED BY OrchestratorStarts, OrchestratorStep, OrchestratorHolds, PTL DEF OrchestratorSpec

-----------------------------------------------------------------------------
(* The terminal.  From the step Model on there is a provider, and with the *)
(* key that was accepted for it; the model chosen is one of its list.      *)
WizardInv ==
  /\ screen = "chat" => agentUp
  /\ stage \in {"welcome", "mode", "provider", "key", "model", "confirm", "done"}
  /\ askedFor = NoProvider => stage \in {"welcome", "mode", "provider"}
  /\ stage \in {"model", "confirm"} => current # NoProvider /\ keyFor = current
  /\ stage = "confirm" => modelOf = current
  /\ savedAs # <<>> => \E p : savedAs = <<p, p, p>>
(* What is on its way to the agent is a message.                           *)
MessagesTyped ==
  /\ typed \in Nat /\ toSend \in Nat /\ agentWorking \in BOOLEAN
  /\ tuiInbound \in Seq(Nat \ {0}) /\ tuiQueue \in Seq(Nat \ {0}) /\ carried \in Nat
TuiInv == WizardInv /\ MessagesTyped /\ ClosedForCause

LEMMA WizardKept == TuiInv /\ Wizard => TuiInv'
<1> SUFFICES ASSUME TuiInv, Wizard PROVE TuiInv'
  OBVIOUS
<1>1. UNCHANGED <<chatVars, bridgeVars>> /\ screen = "onboarding"
  BY DEF Wizard, EnterWelcome, EnterMode, EnterModel, PressEsc, EnterProvider, EnterKey,
         EnterConfirm, Asking
<1>2. MessagesTyped' /\ ClosedForCause'
  BY <1>1 DEF TuiInv, MessagesTyped, ClosedForCause, chatVars, bridgeVars
<1>3. ASSUME EnterWelcome \/ EnterMode \/ EnterModel \/ PressEsc PROVE WizardInv'
  BY <1>1, <1>3 DEF EnterWelcome, EnterMode, EnterModel, PressEsc, Asking, Back, TuiInv, WizardInv
<1>4. ASSUME NEW p \in Providers, EnterProvider(p) PROVE WizardInv'
  <2>1. /\ stage = "provider" /\ stage' = "key" /\ askedFor' = p /\ p # NoProvider
        /\ UNCHANGED <<screen, keyFor, current, modelOf, savedAs, agentUp>>
    BY <1>4, TuiAssumption DEF EnterProvider, Asking
  <2> QED BY <2>1 DEF TuiInv, WizardInv
<1>5. ASSUME NEW ok \in BOOLEAN, EnterKey(ok) PROVE WizardInv'
  BY <1>1, <1>5 DEF EnterKey, Accepted, Asking, TuiInv, WizardInv
<1>6. ASSUME NEW ok \in BOOLEAN, EnterConfirm(ok) PROVE WizardInv'
  <2>1. /\ stage = "confirm" /\ screen = "onboarding"
        /\ current # NoProvider /\ keyFor = current /\ modelOf = current
    BY <1>1, <1>6 DEF EnterConfirm, Asking, TuiInv, WizardInv
  <2>2. /\ stage' = (IF ok THEN "done" ELSE "key") /\ screen' = (IF ok THEN "chat" ELSE screen)
        /\ agentUp' = ok /\ askedFor' = current /\ savedAs' = <<current, current, current>>
        /\ UNCHANGED <<current, modelOf>>
    BY <1>6, <2>1 DEF EnterConfirm, AfterFailure
  <2> QED BY <2>1, <2>2 DEF WizardInv
<1> QED BY <1>2, <1>3, <1>4, <1>5, <1>6 DEF TuiInv, Wizard

LEMMA UserKept == TuiInv /\ User => TuiInv'
<1> SUFFICES ASSUME TuiInv, User PROVE TuiInv'
  OBVIOUS
<1>1. UNCHANGED <<wizardVars, bridgeVars>>
  BY DEF User, OpenOverlay, CloseOverlay, PressInterrupt, Quit, SubmitText, Typing
<1>2. WizardInv'
  BY <1>1 DEF TuiInv, WizardInv, wizardVars
<1>3. ASSUME UNCHANGED <<toSend, typed>>, agentWorking' \in {agentWorking, FALSE}
      PROVE  MessagesTyped' /\ ClosedForCause'
  <2>1. MessagesTyped'
    BY <1>1, <1>3 DEF TuiInv, MessagesTyped, bridgeVars
  <2>2. ClosedForCause'
    BY <1>1, <1>3 DEF TuiInv, MessagesTyped, ClosedForCause, bridgeVars
  <2> QED BY <2>1, <2>2
<1>4. ASSUME NEW path \in BOOLEAN, SubmitText(path)
      PROVE  MessagesTyped' /\ ClosedForCause'
  <2>1. typed' = typed + 1 /\ toSend' = typed + 1 /\ agentWorking' = TRUE
    BY <1>4 DEF SubmitText
  <2>2. typed' \in Nat /\ toSend' \in Nat \ {0}
    BY <2>1 DEF TuiInv, MessagesTyped
  <2>3. MessagesTyped'
    BY <1>1, <2>1, <2>2 DEF TuiInv, MessagesTyped, bridgeVars
  <2> QED BY <2>2, <2>3 DEF ClosedForCause
<1>5. ASSUME OpenOverlay \/ CloseOverlay \/ PressInterrupt \/ Quit
      PROVE  UNCHANGED <<toSend, typed>> /\ agentWorking' \in {agentWorking, FALSE}
  BY <1>5 DEF OpenOverlay, CloseOverlay, PressInterrupt, Quit
<1> QED BY <1>2, <1>3, <1>4, <1>5 DEF TuiInv, User

LEMMA SendUnsentKept == TuiInv /\ SendUnsent => TuiInv'
<1> SUFFICES ASSUME TuiInv, SendUnsent PROVE TuiInv'
  OBVIOUS
<1>1. /\ screen = "chat" /\ toSend # 0 /\ toSend' = 0 /\ agentUp
      /\ tuiInbound' = Append(tuiInbound, toSend)
      /\ UNCHANGED <<wizardVars, typed, agentWorking, tuiQueue, carried>>
  BY DEF SendUnsent, TuiInv, WizardInv
<1>2. WizardInv'
  BY <1>1 DEF TuiInv, WizardInv, wizardVars
<1>3. toSend \in Nat \ {0} /\ tuiInbound \in Seq(Nat \ {0})
  BY <1>1 DEF TuiInv, MessagesTyped
<1>4. tuiInbound' \in Seq(Nat \ {0}) /\ tuiInbound' # <<>>
  BY <1>1, <1>3, AppendProperties
<1>5. MessagesTyped'
  BY <1>1, <1>4 DEF TuiInv, MessagesTyped
<1>6. ClosedForCause'
  BY <1>4 DEF ClosedForCause
<1> QED BY <1>2, <1>5, <1>6 DEF TuiInv

LEMMA ReadStatusKept == TuiInv /\ ReadStatus => TuiInv'
<1> SUFFICES ASSUME TuiInv, ReadStatus PROVE TuiInv'
  OBVIOUS
<1>1. /\ agentWorking' = (agentWorking /\ phase # "done")
      /\ UNCHANGED <<wizardVars, toSend, typed, tuiInbound, tuiQueue, carried, turn, quiet>>
  BY DEF ReadStatus, Frees
<1>2. WizardInv'
  BY <1>1 DEF TuiInv, WizardInv, wizardVars
<1>3. MessagesTyped'
  BY <1>1 DEF TuiInv, MessagesTyped
<1>4. ClosedForCause'
  BY <1>1 DEF TuiInv, ClosedForCause
<1> QED BY <1>2, <1>3, <1>4 DEF TuiInv

LEMMA BehindKept == TuiInv /\ (Adapter \/ TuiWorker) => TuiInv'
<1> SUFFICES ASSUME TuiInv, Adapter \/ TuiWorker PROVE TuiInv'
  OBVIOUS
<1>1. UNCHANGED <<wizardVars, chatVars>>
  BY DEF Adapter, AdapterTakes, AdapterQueues, TuiWorker, WorkerTakes, TurnEnds, Behind
<1>2. WizardInv'
  BY <1>1 DEF TuiInv, WizardInv, wizardVars
<1>3. ASSUME AdapterTakes PROVE MessagesTyped' /\ ClosedForCause'
  <2>1. /\ tuiInbound # <<>> /\ carried' = Head(tuiInbound) /\ tuiInbound' = Tail(tuiInbound)
        /\ tuiQueue' = tuiQueue
    BY <1>3 DEF AdapterTakes
  <2>2. tuiInbound \in Seq(Nat \ {0})
    BY DEF TuiInv, MessagesTyped
  <2>3. carried' \in Nat \ {0} /\ tuiInbound' \in Seq(Nat \ {0})
    BY <2>1, <2>2, HeadTailProperties
  <2> QED BY <1>1, <2>1, <2>3 DEF TuiInv, MessagesTyped, ClosedForCause, chatVars
<1>4. ASSUME AdapterQueues PROVE MessagesTyped' /\ ClosedForCause'
  <2>1. /\ carried # 0 /\ carried' = 0 /\ tuiQueue' = Append(tuiQueue, carried)
        /\ tuiInbound' = tuiInbound
    BY <1>4 DEF AdapterQueues
  <2>2. carried \in Nat \ {0} /\ tuiQueue \in Seq(Nat \ {0})
    BY <2>1 DEF TuiInv, MessagesTyped
  <2>3. tuiQueue' \in Seq(Nat \ {0}) /\ tuiQueue' # <<>>
    BY <2>1, <2>2, AppendProperties
  <2> QED BY <1>1, <2>1, <2>3 DEF TuiInv, MessagesTyped, ClosedForCause, chatVars
<1>5. ASSUME WorkerTakes PROVE MessagesTyped' /\ ClosedForCause'
  <2>1. /\ tuiQueue # <<>> /\ turn' = Head(tuiQueue) /\ tuiQueue' = Tail(tuiQueue)
        /\ UNCHANGED <<tuiInbound, carried>>
    BY <1>5 DEF WorkerTakes
  <2>2. tuiQueue \in Seq(Nat \ {0})
    BY DEF TuiInv, MessagesTyped
  <2>3. turn' \in Nat \ {0} /\ tuiQueue' \in Seq(Nat \ {0})
    BY <2>1, <2>2, HeadTailProperties
  <2> QED BY <1>1, <2>1, <2>3 DEF TuiInv, MessagesTyped, ClosedForCause, chatVars
<1>6. ASSUME NEW how \in {"done", "early", "error"}, TurnEnds(how)
      PROVE  MessagesTyped' /\ ClosedForCause'
  <2>1. UNCHANGED <<tuiInbound, tuiQueue, carried>>
    BY <1>6 DEF TurnEnds
  <2>2. (unread' /\ phase' = "done") \/ quiet'
    BY <1>6 DEF TurnEnds, Says
  <2> QED BY <1>1, <2>1, <2>2 DEF TuiInv, MessagesTyped, ClosedForCause, chatVars
<1> QED BY <1>2, <1>3, <1>4, <1>5, <1>6 DEF TuiInv, Adapter, TuiWorker

(* The wizard saves what was typed and chosen for one provider and never   *)
(* ends in the step no key leaves, and the input line of the chat is       *)
(* closed only for a turn on its way, its unread end, or a silent end.     *)
THEOREM TuiSoundHolds == TuiInit /\ [][TuiNext]_tuiVars => []TuiSound
<1>1. TuiInit => TuiInv
  <2> SUFFICES ASSUME TuiInit PROVE TuiInv
    OBVIOUS
  <2>1. WizardInv
    BY DEF TuiInit, WizardInv
  <2>2. MessagesTyped
    <3>1. <<>> \in Seq(Nat \ {0}) /\ 0 \in Nat
      OBVIOUS
    <3> QED BY <3>1, Zenon DEF TuiInit, MessagesTyped
  <2>3. ClosedForCause
    BY DEF TuiInit, ClosedForCause
  <2> QED BY <2>1, <2>2, <2>3 DEF TuiInv
<1>2. TuiInv /\ [TuiNext]_tuiVars => TuiInv'
  <2> SUFFICES ASSUME TuiInv, [TuiNext]_tuiVars PROVE TuiInv'
    OBVIOUS
  <2>1. CASE UNCHANGED tuiVars
    BY <2>1 DEF tuiVars, wizardVars, chatVars, bridgeVars, TuiInv, WizardInv, MessagesTyped,
                ClosedForCause
  <2> QED BY <2>1, WizardKept, UserKept, SendUnsentKept, ReadStatusKept, BehindKept DEF TuiNext
<1>3. TuiInv => TuiSound
  BY DEF TuiInv, WizardInv, TuiSound, WizardSound
<1> QED BY <1>1, <1>2, <1>3, PTL

-----------------------------------------------------------------------------
(* The types of the variables.  Where an inductive invariant has them it   *)
(* is cited; elsewhere the types are inductive by themselves, with the     *)
(* places of queues and the fields of records made explicit.               *)

LEMMA RemoteTyped == RemoteSpec => []RemoteTypeOK
<1>1. RemoteInv => RemoteTypeOK
  BY DEF RemoteInv
<1> QED BY <1>1, RemoteStarts, RemoteStep, PTL DEF RemoteSpec

LEMMA DelegationTyped == DelegationSpec => []DelegationTypeOK
<1>1. DelegationInv => DelegationTypeOK
  BY DEF DelegationInv
<1>2. DelegationInv /\ [DelegationNext]_delegationVars => DelegationInv'
  BY DelegationSteps
<1> QED BY <1>1, <1>2, DelegationStarts, PTL DEF DelegationSpec

LEMMA ExecutorTyped == ExecutorSpec => []ExecutorTypeOK
<1>1. ExecutorInv => ExecutorTypeOK
  BY DEF ExecutorInv
<1> QED BY <1>1, ExecutorStarts, ExecutorStep, PTL DEF ExecutorSpec

LEMMA RpcTyped == RpcSpec => []RpcTypeOK
<1>1. RpcInv => RpcTypeOK
  BY DEF RpcInv
<1> QED BY <1>1, RpcStarts, RpcStep, PTL DEF RpcSpec

LEMMA PoolTyped == PoolSpec => []PoolTypeOK
<1>1. PoolInv => PoolTypeOK
  BY DEF PoolInv
<1> QED BY <1>1, PoolStarts, PoolStep, PTL DEF PoolSpec

LEMMA RecoveryTyped == RecoverySpec => []RecoveryTypeOK
<1>1. RecoveryInv => RecoveryTypeOK
  BY DEF RecoveryInv
<1> QED BY <1>1, RecoveryStarts, RecoveryStep, PTL DEF RecoverySpec

LEMMA BrowserTyped == BrowserSpec => []BrowserTypeOK
<1>1. BrowserInv => BrowserTypeOK
  BY DEF BrowserInv
<1> QED BY <1>1, BrowserStarts, BrowserStep, PTL DEF BrowserSpec

LEMMA QuotaTyped == QuotaSpec => []QuotaTypeOK
<1>1. QuotaInv => QuotaTypeOK
  BY DEF QuotaInv
<1> QED BY <1>1, QuotaStarts, QuotaStep, PTL DEF QuotaSpec

LEMMA DaemonTyped == DaemonSpec => []DaemonTypeOK
<1>1. DaemonInit => DaemonTypeOK
  BY DEF DaemonInit, DaemonTypeOK
<1> QED BY <1>1, DaemonTypes, PTL DEF DaemonSpec

LEMMA RunQueueTypes == RunQueueTypeOK /\ [RunQueueNext]_runQueueVars => RunQueueTypeOK'
<1> SUFFICES ASSUME RunQueueTypeOK, [RunQueueNext]_runQueueVars PROVE RunQueueTypeOK'
  OBVIOUS
<1>1. /\ queue \in Seq(Msgs) /\ active \in [Chats -> Nat] /\ Len(queue) <= MaxQueue /\ Len(queue) \in Nat
      /\ unsent \subseteq Msgs /\ inHand \in Msgs \cup {NoMsg} /\ MaxQueue \in Nat
  BY SchedulerAssumption DEF RunQueueTypeOK, SchedulerTypeOK
<1>2. ASSUME NEW m \in Msgs, Push(m)
      PROVE  queue' \in Seq(Msgs) /\ Len(queue') <= MaxQueue /\ active' = active
  BY <1>1, <1>2 DEF Push, Overloaded
<1>3. ASSUME NEW m \in Msgs, Submit(m) PROVE RunQueueTypeOK'
  BY <1>1, <1>2, <1>3 DEF Submit, RunQueueTypeOK, SchedulerTypeOK
<1>4. ASSUME NEW m \in Msgs, HandOut(m) PROVE RunQueueTypeOK'
  <2>1. PICK i \in DOMAIN queue : queue' = RotatedPast(i)
    BY <1>4 DEF HandOut, TakeNext
  <2>2. i \in 1 .. Len(queue)
    BY <1>1, <2>1
  <2>3. /\ SubSeq(queue, i + 1, Len(queue)) \in Seq(Msgs) /\ SubSeq(queue, 1, i - 1) \in Seq(Msgs)
        /\ Len(SubSeq(queue, i + 1, Len(queue))) = Len(queue) - i
        /\ Len(SubSeq(queue, 1, i - 1)) = i - 1
    BY <1>1, <2>2
  <2>4. RotatedPast(i) \in Seq(Msgs) /\ Len(RotatedPast(i)) = (Len(queue) - i) + (i - 1)
    BY <2>3 DEF RotatedPast
  <2>5. Len(queue') <= MaxQueue
    BY <1>1, <2>1, <2>2, <2>4
  <2> QED BY <1>1, <1>4, <2>1, <2>4, <2>5 DEF HandOut, TakeNext, RunQueueTypeOK, SchedulerTypeOK
<1>5. CASE CountSent
  <2>1. /\ inHand \in Msgs /\ active' = [active EXCEPT ![ChatOf[inHand]] = @ + 1] /\ queue' = queue
        /\ inHand' = NoMsg /\ unsent' = unsent
    BY <1>1, <1>5 DEF CountSent, MarkDispatched
  <2>2. active' \in [Chats -> Nat]
    <3>1. PICK c : c = ChatOf[inHand]
      OBVIOUS
    <3>2. c \in Chats
      BY <2>1, <3>1, SchedulerAssumption
    <3>3. active' = [active EXCEPT ![c] = @ + 1]
      BY <2>1, <3>1
    <3> QED BY <1>1, <3>2, <3>3
  <2> QED BY <1>1, <2>1, <2>2 DEF RunQueueTypeOK, SchedulerTypeOK
<1>6. CASE PutBack
  <2>1. inHand \in Msgs \/ queue' = queue
    BY <1>1, <1>6 DEF PutBack, Push, schedVars
  <2>2. queue' \in Seq(Msgs) /\ Len(queue') <= MaxQueue /\ active' = active
    BY <1>1, <1>6, <2>1 DEF PutBack, Push, Overloaded, schedVars
  <2> QED BY <1>1, <1>6, <2>2 DEF PutBack, RunQueueTypeOK, SchedulerTypeOK
<1>7. ASSUME NEW c \in Chats, ClearOne(c) PROVE RunQueueTypeOK'
  BY <1>1, <1>7 DEF ClearOne, MarkComplete, RunQueueTypeOK, SchedulerTypeOK
<1>8. CASE UNCHANGED runQueueVars
  BY <1>1, <1>8 DEF runQueueVars, RunQueueTypeOK, SchedulerTypeOK
<1> QED BY <1>3, <1>4, <1>5, <1>6, <1>7, <1>8 DEF RunQueueNext

LEMMA RunQueueTyped == RunQueueSpec => []RunQueueTypeOK
<1>1. RunQueueInit => RunQueueTypeOK
  BY SchedulerAssumption DEF RunQueueInit, SchedulerInit, RunQueueTypeOK, SchedulerTypeOK
<1> QED BY <1>1, RunQueueTypes, PTL DEF RunQueueSpec

(* A name stands in the table with a connection, or not at all; an actor   *)
(* has a name and a copy of the file in its hands.                         *)
McpPlaces == {"idle", "limit", "load", "take", "health", "connect", "save"}
McpTypes ==
  /\ McpTypeOK /\ (\A n \in ServerNames : servers[n] # Absent => servers[n].conn # 0)
  /\ mcpStep \in [Actors -> [at : McpPlaces, kind : {"none", "add", "remove", "restart", "check"},
                             name : ServerNames, file : SUBSET ServerNames]]

LEMMA McpTypesKept == ASSUME ServerNames # {}
                      PROVE  McpTypes /\ [McpNext]_mcpVars => McpTypes'
<1> SUFFICES ASSUME McpTypes, [McpNext]_mcpVars PROVE McpTypes'
  OBVIOUS
<1> DEFINE InHands == [at : McpPlaces, kind : {"none", "add", "remove", "restart", "check"},
                     name : ServerNames, file : SUBSET ServerNames]
           Handle == [conn : 0 .. MaxConns, restarts : 0 .. MaxRestarts,
                      status : {"none", "connected", "disconnected", "failed"}]
           Table == /\ servers \in [ServerNames -> Handle]
                    /\ \A n \in ServerNames : servers[n] # Absent => servers[n].conn # 0
           Rest == /\ deadConns \subseteq 1 .. MaxConns /\ mcpFile \subseteq ServerNames
                   /\ conns \in 0 .. MaxConns /\ toRestart \in [Checkers -> SUBSET ServerNames]
<1>1. /\ MaxConns \in Nat /\ MaxRestarts \in Nat
      /\ Checkers \subseteq Actors /\ McpUsers \subseteq Actors
  BY McpAssumption DEF Actors
<1>2. Table /\ Rest /\ mcpStep \in [Actors -> InHands]
  BY DEF McpTypes, McpTypeOK
<1>3. Absent \in Handle /\ Resting \in InHands
  BY <1>1 DEF Absent, Resting, McpPlaces
<1>4. ASSUME Table', Rest', mcpStep' \in [Actors -> InHands] PROVE McpTypes'
  BY <1>4 DEF McpTypes, McpTypeOK
<1> HIDE DEF Table, Rest
<1>5. ASSUME NEW n, UNCHANGED <<deadConns, mcpFile, conns, toRestart>>,
             servers' = [servers EXCEPT ![n] = Absent]
      PROVE  Table' /\ Rest'
  BY <1>2, <1>3, <1>5 DEF Table, Rest
<1>6. ASSUME UNCHANGED <<servers, deadConns, mcpFile, conns, toRestart>> PROVE Table' /\ Rest'
  BY <1>2, <1>6 DEF Table, Rest
<1>7. ASSUME NEW a, NEW spot \in McpPlaces, GoOn(a, spot) PROVE mcpStep' \in [Actors -> InHands]
  BY <1>2, <1>7 DEF GoOn
<1>8. ASSUME NEW a, Finish(a) PROVE mcpStep' \in [Actors -> InHands]
  BY <1>2, <1>3, <1>8 DEF Finish
<1>9. ASSUME NEW a, NEW kind \in {"add", "remove", "restart", "check"}, NEW n \in ServerNames,
             NEW spot \in McpPlaces, Start(a, kind, n, spot)
      PROVE  mcpStep' \in [Actors -> InHands]
  <2>1. [at |-> spot, kind |-> kind, name |-> n, file |-> {}] \in InHands
    OBVIOUS
  <2> QED BY <1>2, <1>9, <2>1 DEF Start
<1>10. ASSUME NEW u, NEW n \in ServerNames, AddServer(u, n) \/ RestartServer(u, n) PROVE McpTypes'
  <2>1. mcpStep' \in [Actors -> InHands]
    BY <1>9, <1>10 DEF AddServer, RestartServer, McpPlaces
  <2> QED BY <1>4, <1>6, <1>10, <2>1 DEF AddServer, RestartServer
<1>11. ASSUME NEW u, NEW n \in ServerNames, RemoveServer(u, n) PROVE McpTypes'
  <2>1. mcpStep' \in [Actors -> InHands]
    BY <1>9, <1>11 DEF RemoveServer, McpPlaces
  <2> QED BY <1>4, <1>5, <1>11, <2>1 DEF RemoveServer
<1>12. ASSUME NEW c \in Checkers, Scan(c) PROVE McpTypes'
  <2>1. PICK dead, again :
          /\ again \subseteq dead /\ dead \subseteq ServerNames
          /\ \A n \in again : servers[n].restarts < MaxRestarts
          /\ \A n \in dead : servers[n] # Absent
          /\ servers' = [n \in ServerNames |->
               IF n \in again THEN [conn |-> servers[n].conn, status |-> "disconnected",
                                    restarts |-> servers[n].restarts + 1]
               ELSE IF n \in dead THEN [servers[n] EXCEPT !.status = "failed"]
               ELSE servers[n]]
          /\ toRestart' = [toRestart EXCEPT ![c] = again]
    <3>1. PICK D : D = {n \in Present : servers[n].status = "connected" /\ servers[n].conn \in deadConns}
      OBVIOUS
    <3>2. PICK A : A = {n \in D : servers[n].restarts < MaxRestarts}
      OBVIOUS
    <3>3. D \subseteq ServerNames /\ A \subseteq D /\ (\A n \in D : servers[n] # Absent)
          /\ \A n \in A : servers[n].restarts < MaxRestarts
      BY <3>1, <3>2 DEF Present
    <3>4. /\ servers' = [n \in ServerNames |->
               IF n \in A THEN [conn |-> servers[n].conn, status |-> "disconnected",
                                restarts |-> servers[n].restarts + 1]
               ELSE IF n \in D THEN [servers[n] EXCEPT !.status = "failed"]
               ELSE servers[n]]
          /\ toRestart' = [toRestart EXCEPT ![c] = A]
      BY <1>12, <3>1, <3>2, Zenon DEF Scan
    <3> QED BY <3>3, <3>4, Zenon
  <2>2. ASSUME NEW n \in ServerNames PROVE servers'[n] \in Handle /\ (servers'[n] # Absent => servers'[n].conn # 0)
    <3>1. servers[n] \in Handle /\ (servers[n] # Absent => servers[n].conn # 0)
      BY <1>2 DEF Table
    <3>2. CASE n \in again
      <4>1. servers[n].restarts + 1 \in 0 .. MaxRestarts /\ servers[n].conn \in 0 .. MaxConns
            /\ servers[n].conn # 0
        BY <1>1, <2>1, <3>1, <3>2
      <4>2. servers'[n] = [conn |-> servers[n].conn, status |-> "disconnected",
                           restarts |-> servers[n].restarts + 1]
        BY <2>1, <3>2, Zenon
      <4> QED BY <4>1, <4>2
    <3>3. CASE n \in dead /\ n \notin again
      <4>1. servers'[n] = [servers[n] EXCEPT !.status = "failed"]
        BY <2>1, <3>3, Zenon
      <4> QED BY <2>1, <3>1, <3>3, <4>1
    <3>4. CASE n \notin dead
      <4>1. servers'[n] = servers[n]
        BY <2>1, <3>4, Zenon
      <4> QED BY <3>1, <4>1
    <3> QED BY <3>2, <3>3, <3>4
  <2>3. Table'
    <3>1. servers' = [n \in ServerNames |-> servers'[n]]
      BY <2>1
    <3> QED BY <2>2, <3>1, Zenon DEF Table
  <2>4. Rest'
    BY <1>2, <1>12, <2>1 DEF Scan, Rest
  <2>5. mcpStep' \in [Actors -> InHands]
    BY <1>7, <1>12 DEF Scan, McpPlaces
  <2> QED BY <1>4, <2>3, <2>4, <2>5
<1>13. ASSUME NEW c \in Checkers, NEW n \in ServerNames, RestartNext(c, n) PROVE McpTypes'
  <2>1. mcpStep' \in [Actors -> InHands]
    BY <1>2, <1>9, <1>13 DEF RestartNext, McpPlaces
  <2>2. Table' /\ Rest'
    BY <1>2, <1>13 DEF RestartNext, Table, Rest
  <2> QED BY <1>4, <2>1, <2>2
<1>14. ASSUME NEW c \in Checkers, ScanEnds(c) PROVE McpTypes'
  <2>1. mcpStep' \in [Actors -> InHands]
    BY <1>8, <1>14 DEF ScanEnds
  <2> QED BY <1>4, <1>6, <1>14, <2>1 DEF ScanEnds
<1>15. ASSUME NEW a \in Actors, Take(a) PROVE McpTypes'
  <2>1. mcpStep' \in [Actors -> InHands]
    BY <1>7, <1>15 DEF Take, McpPlaces
  <2> QED BY <1>4, <1>5, <1>15, <2>1 DEF Take
<1>16. ASSUME NEW a \in Actors, GiveUp(a) PROVE McpTypes'
  <2>1. mcpStep' \in [Actors -> InHands]
    BY <1>7, <1>8, <1>16 DEF GiveUp, McpPlaces
  <2> QED BY <1>4, <1>6, <1>16, <2>1 DEF GiveUp
<1>17. ASSUME NEW a \in Actors, Limit(a), ~GiveUp(a) PROVE McpTypes'
  <2>1. mcpStep' \in [Actors -> InHands]
    BY <1>7, <1>17 DEF Limit, McpPlaces
  <2> QED BY <1>4, <1>6, <1>17, <2>1 DEF Limit
<1>18. ASSUME NEW a \in Actors, Connect(a), ~GiveUp(a) PROVE McpTypes'
  <2>1. /\ conns < MaxConns /\ conns' = conns + 1
        /\ servers' = [servers EXCEPT ![mcpStep[a].name] =
                         [conn |-> conns + 1, status |-> "connected", restarts |-> 0]]
        /\ GoOn(a, "load") \/ GoOn(a, "health") \/ Finish(a)
        /\ UNCHANGED <<deadConns, mcpFile, toRestart>>
    BY <1>18 DEF Connect
  <2>2. mcpStep' \in [Actors -> InHands]
    BY <1>7, <1>8, <2>1 DEF McpPlaces
  <2>3. /\ conns + 1 \in 0 .. MaxConns /\ conns + 1 # 0
        /\ [conn |-> conns + 1, status |-> "connected", restarts |-> 0] \in Handle
    BY <1>1, <1>2, <2>1 DEF Rest
  <2>4. Table' /\ Rest'
    BY <1>2, <2>1, <2>3 DEF Table, Rest
  <2> QED BY <1>4, <2>2, <2>4
<1>19. ASSUME NEW a \in Actors, Load(a) PROVE McpTypes'
  <2>1. mcpFile \in SUBSET ServerNames
    BY <1>2 DEF Rest
  <2>2. mcpStep' \in [Actors -> InHands]
    BY <1>2, <1>19, <2>1 DEF Load, McpPlaces
  <2> QED BY <1>4, <1>6, <1>19, <2>2 DEF Load
<1>20. ASSUME NEW a \in Actors, Save(a) PROVE McpTypes'
  <2>1. mcpStep' \in [Actors -> InHands]
    BY <1>8, <1>20 DEF Save
  <2>2. mcpFile' \subseteq ServerNames
    <3>1. mcpStep[a].file \subseteq ServerNames /\ mcpStep[a].name \in ServerNames /\ mcpFile \subseteq ServerNames
      BY <1>2 DEF Rest
    <3> QED BY <1>20, <3>1 DEF Save
  <2>3. Table' /\ Rest'
    BY <1>2, <1>20, <2>2 DEF Save, Table, Rest
  <2> QED BY <1>4, <2>1, <2>3
<1>21. ASSUME NEW n \in ServerNames, ServerDies(n) PROVE McpTypes'
  <2>1. servers[n].conn \in 1 .. MaxConns
    BY <1>1, <1>2, <1>21 DEF ServerDies, Present, Table
  <2>2. Table' /\ Rest'
    BY <1>2, <1>21, <2>1 DEF ServerDies, Table, Rest
  <2> QED BY <1>2, <1>4, <1>21, <2>2 DEF ServerDies
<1>22. CASE UNCHANGED mcpVars
  BY <1>2, <1>4, <1>6, <1>22 DEF mcpVars
<1> QED BY <1>10, <1>11, <1>12, <1>13, <1>14, <1>15, <1>16, <1>17, <1>18, <1>19, <1>20, <1>21, <1>22
        DEF McpNext

LEMMA McpTyped == ASSUME ServerNames # {} PROVE McpSpec => []McpTypeOK
<1>1. McpInit => McpTypes
  <2> SUFFICES ASSUME McpInit PROVE McpTypes
    OBVIOUS
  <2>1. MaxConns \in Nat /\ MaxRestarts \in Nat
    BY McpAssumption
  <2>2. Resting \in [at : McpPlaces, kind : {"none", "add", "remove", "restart", "check"},
                     name : ServerNames, file : SUBSET ServerNames]
    BY DEF Resting, McpPlaces
  <2> QED BY <2>1, <2>2 DEF McpInit, Absent, McpTypes, McpTypeOK
<1>2. McpTypes => McpTypeOK
  BY DEF McpTypes
<1> QED BY <1>1, <1>2, McpTypesKept, PTL DEF McpSpec

HeartbeatTypes == HeartbeatTypeOK /\ tally \in [Skips \cup {"runs", "sent"} -> Nat]

LEMMA HeartbeatTypesKept == HeartbeatTypes /\ [HeartbeatNext]_heartbeatVars => HeartbeatTypes'
<1> SUFFICES ASSUME HeartbeatTypes, [HeartbeatNext]_heartbeatVars PROVE HeartbeatTypes'
  OBVIOUS
<1> DEFINE Tallies == [Skips \cup {"runs", "sent"} -> Nat]
           HbSteps == {"timer", "hours", "ok", "remove", "list", "send", "stopped"}
           FilesT == /\ okFile \in BOOLEAN /\ checklist \in BOOLEAN
                    /\ okWrites \in Nat /\ executing \in {"nothing", "beat", "other"}
           Loop1 == /\ hbStep \in HbSteps /\ tally \in Tallies /\ okAtTick \in BOOLEAN /\ okKept \in Nat
           Ticks == ticks \in 0 .. MaxTicks /\ others \in 0 .. MaxOthers
           Waiting == hbQueue \in Seq({"beat", "other"}) /\ Len(hbQueue) <= HbCap
<1>1. HbCap \in Nat /\ MaxTicks \in Nat /\ MaxOthers \in Nat
  BY HeartbeatAssumption
<1>2. FilesT /\ Loop1 /\ Ticks /\ Waiting
  BY DEF HeartbeatTypes, HeartbeatTypeOK
<1>3. ASSUME FilesT', Loop1', Ticks', Waiting' PROVE HeartbeatTypes'
  BY <1>3 DEF HeartbeatTypes, HeartbeatTypeOK
<1>4. ASSUME NEW k \in Skips \cup {"runs", "sent"}, Counted(k) PROVE tally' \in Tallies
  BY <1>2, <1>4 DEF Counted
<1>5. \A k \in {"hours", "ok", "empty", "full", "runs", "sent"} : k \in Skips \cup {"runs", "sent"}
  BY DEF Skips
<1> HIDE DEF Tallies
<1>6. ASSUME NEW w \in {"beat", "other"}, Len(hbQueue) < HbCap, hbQueue' = Append(hbQueue, w) PROVE Waiting'
  BY <1>1, <1>2, <1>6
<1>7. CASE TickElapses
  <2>1. Ticks'
    BY <1>1, <1>2, <1>7 DEF TickElapses
  <2> QED BY <1>2, <1>3, <1>7, <2>1 DEF TickElapses, loopVars
<1>8. CASE TakeTick
  <2>1. Loop1'
    BY <1>2, <1>4, <1>5, <1>8 DEF TakeTick
  <2> QED BY <1>2, <1>3, <1>8, <2>1 DEF TakeTick, Reads
<1>9. CASE CheckHours
  <2>1. Loop1'
    BY <1>2, <1>4, <1>5, <1>9 DEF CheckHours, Skip
  <2> QED BY <1>2, <1>3, <1>9, <2>1 DEF CheckHours, Reads
<1>10. CASE FindOk
  <2>1. Loop1'
    BY <1>2, <1>10 DEF FindOk
  <2> QED BY <1>2, <1>3, <1>10, <2>1 DEF FindOk, Reads
<1>11. CASE HeedOk
  <2>1. /\ Counted("ok") /\ hbStep' = "timer" /\ okAtTick' = okAtTick /\ UNCHANGED <<checklist, okWrites, executing>>
        /\ (okFile' = FALSE /\ okKept' = okKept) \/ (okKept' = okKept + 1 /\ okFile' = okFile)
    BY <1>11 DEF HeedOk, FoundOk, Skip, RemoveOk
  <2>2. tally' \in Tallies
    BY <1>4, <1>5, <2>1
  <2>3. okKept' \in Nat /\ okFile' \in BOOLEAN
    <3>1. okKept' = okKept \/ okKept' = okKept + 1
      BY <2>1
    <3>2. okKept \in Nat /\ okFile \in BOOLEAN
      BY <1>2
    <3>3. okFile' = FALSE \/ okFile' = okFile
      BY <2>1, Zenon
    <3>4. okFile' \in BOOLEAN
      BY <3>2, <3>3, Zenon
    <3> QED BY <3>1, <3>2, <3>4
  <2>4. FilesT'
    BY <1>2, <2>1, <2>3
  <2>5. hbStep' \in HbSteps /\ okAtTick' \in BOOLEAN
    BY <1>2, <2>1
  <2>6. Loop1'
    BY <2>2, <2>3, <2>5
  <2> QED BY <1>2, <1>3, <1>11, <2>4, <2>6 DEF HeedOk
<1>12. CASE ReadChecklist
  <2>1. Loop1'
    BY <1>2, <1>4, <1>5, <1>12 DEF ReadChecklist, Skip
  <2> QED BY <1>2, <1>3, <1>12, <2>1 DEF ReadChecklist, Reads
<1>13. CASE SendBeat
  <2>1. Loop1'
    BY <1>2, <1>4, <1>5, <1>13 DEF SendBeat, Skip
  <2>2. Waiting'
    BY <1>2, <1>6, <1>13 DEF SendBeat
  <2> QED BY <1>2, <1>3, <1>13, <2>1, <2>2 DEF SendBeat
<1>14. CASE ClosedBreaks
  <2>1. Loop1'
    BY <1>2, <1>14 DEF ClosedBreaks
  <2> QED BY <1>2, <1>3, <1>14, <2>1 DEF ClosedBreaks, Reads
<1>15. CASE ChannelSends
  <2>1. Ticks'
    BY <1>1, <1>2, <1>15 DEF ChannelSends
  <2>2. Waiting'
    BY <1>6, <1>15 DEF ChannelSends
  <2> QED BY <1>2, <1>3, <1>15, <2>1, <2>2 DEF ChannelSends, loopVars
<1>16. CASE AgentTakes
  <2>1. hbQueue # <<>> /\ executing' = Head(hbQueue) /\ hbQueue' = Tail(hbQueue)
    BY <1>16 DEF AgentTakes
  <2>2. Waiting' /\ executing' \in {"beat", "other"}
    BY <1>1, <1>2, <2>1
  <2> QED BY <1>2, <1>3, <1>16, <2>2 DEF AgentTakes, loopVars
<1>17. CASE AgentWritesOk
  <2>1. FilesT'
    BY <1>2, <1>17 DEF AgentWritesOk
  <2> QED BY <1>2, <1>3, <1>17, <2>1 DEF AgentWritesOk, loopVars
<1>18. CASE ChecklistChanges \/ AgentEnds
  BY <1>2, <1>3, <1>18 DEF ChecklistChanges, AgentEnds, loopVars
<1>19. CASE UNCHANGED heartbeatVars
  BY <1>2, <1>3, <1>19 DEF heartbeatVars, loopVars
<1> QED BY <1>7, <1>8, <1>9, <1>10, <1>11, <1>12, <1>13, <1>14, <1>15, <1>16, <1>17, <1>18, <1>19
        DEF HeartbeatNext

LEMMA HeartbeatTyped == HeartbeatSpec => []HeartbeatTypeOK
<1>1. HeartbeatInit => HeartbeatTypes
  <2> SUFFICES ASSUME HeartbeatInit PROVE HeartbeatTypes
    OBVIOUS
  <2>1. tally \in [Skips \cup {"runs", "sent"} -> Nat] /\ \A k \in DOMAIN tally : tally[k] \in Nat
    BY DEF HeartbeatInit
  <2>2. HbCap \in Nat /\ MaxTicks \in Nat /\ MaxOthers \in Nat
    BY HeartbeatAssumption
  <2>3. hbQueue \in Seq({"beat", "other"}) /\ Len(hbQueue) <= HbCap
    BY <2>2 DEF HeartbeatInit
  <2>4. ticks \in 0 .. MaxTicks /\ others \in 0 .. MaxOthers /\ {okWrites, okKept} \subseteq Nat
    BY <2>2 DEF HeartbeatInit
  <2>5. /\ hbStep = "timer" /\ {okFile, checklist, okAtTick} \subseteq BOOLEAN /\ executing = "nothing"
    BY DEF HeartbeatInit
  <2> QED BY <2>1, <2>3, <2>4, <2>5 DEF HeartbeatTypes, HeartbeatTypeOK
<1>2. HeartbeatTypes => HeartbeatTypeOK
  BY DEF HeartbeatTypes
<1> QED BY <1>1, <1>2, HeartbeatTypesKept, PTL DEF HeartbeatSpec

(* No block is read, or in a pipe, that was not written.                   *)
ShellTypes == ShellTypeOK /\ \A s \in ShellStreams : got[s] + pipe[s] <= wrote[s]

LEMMA ShellTypesKept == ShellTypes /\ [ShellNext]_shellVars => ShellTypes'
<1> SUFFICES ASSUME ShellTypes, [ShellNext]_shellVars PROVE ShellTypes'
  OBVIOUS
<1> DEFINE Rooms == [ShellStreams -> 0 .. PipeRoom]
           Amounts == [ShellStreams -> 0 .. MaxWritten]
           Inputs == [left : 0 .. InputBlocks, inPipe : 0 .. PipeRoom]
           Places == /\ runner \in {"host", "container"} /\ child \in {"none", "running", "ended", "killed"}
                     /\ runStep \in OnTheWay \cup {"idle", "done", "dropped"}
                     /\ helper \in BOOLEAN /\ timeUp \in BOOLEAN
                     /\ outcome \in {"whole", "truncated", "timeout", "failed"}
           Flow == /\ pipe \in Rooms /\ wrote \in Amounts /\ got \in Amounts
                   /\ \A s \in ShellStreams : got[s] + pipe[s] <= wrote[s]
<1>1. /\ PipeRoom \in Nat /\ MaxWritten \in Nat /\ InputBlocks \in Nat /\ MaxOutput \in Nat
      /\ OutChunk \in Nat /\ OutChunk >= 1
  BY ShellAssumption
<1>2. Places /\ Flow /\ input \in Inputs
  BY DEF ShellTypes, ShellTypeOK
<1>3. ASSUME Places', Flow', input' \in Inputs PROVE ShellTypes'
  BY <1>3 DEF ShellTypes, ShellTypeOK
<1>4. ASSUME NEW s \in ShellStreams
      PROVE  /\ pipe[s] \in Nat /\ wrote[s] \in Nat /\ got[s] \in Nat
             /\ pipe[s] <= PipeRoom /\ wrote[s] <= MaxWritten /\ got[s] <= MaxWritten
             /\ got[s] + pipe[s] <= wrote[s]
  BY <1>1, <1>2, <1>4
<1>5. ASSUME UNCHANGED <<pipe, wrote, got>> PROVE Flow'
  BY <1>2, <1>5
<1>6. ASSUME NEW s \in ShellStreams, NEW n \in Nat, n <= pipe[s],
             pipe' = [pipe EXCEPT ![s] = @ - n], wrote' = wrote,
             got' = got \/ got' = [got EXCEPT ![s] = @ + n]
      PROVE  Flow'
  <2>1. pipe' \in Rooms /\ got' \in Amounts
    <3>1. pipe[s] - n \in 0 .. PipeRoom /\ got[s] + n \in 0 .. MaxWritten
      BY <1>1, <1>4, <1>6
    <3> QED BY <1>2, <1>6, <3>1
  <2>2. ASSUME NEW r \in ShellStreams PROVE got'[r] + pipe'[r] <= wrote'[r]
    <3>1. CASE r = s
      <4>1. pipe'[r] = pipe[s] - n /\ (got'[r] = got[s] \/ got'[r] = got[s] + n) /\ wrote'[r] = wrote[s]
        BY <1>2, <1>6, <3>1
      <4> QED BY <1>4, <1>6, <4>1
    <3>2. CASE r # s
      BY <1>2, <1>4, <1>6, <3>2
    <3> QED BY <3>1, <3>2
  <2> QED BY <1>2, <1>6, <2>1, <2>2
<1> HIDE DEF Flow, Rooms, Amounts
<1>7. CASE Feed \/ CommandReads
  <2>1. input.left \in 0 .. InputBlocks /\ input.inPipe \in 0 .. PipeRoom
    BY <1>2
  <2>2. input' \in Inputs
    <3>1. CASE Feed
      BY <1>1, <2>1, <3>1 DEF Feed
    <3>2. CASE CommandReads
      BY <1>1, <1>2, <2>1, <3>2 DEF CommandReads
    <3> QED BY <1>7, <3>1, <3>2
  <2> QED BY <1>2, <1>3, <1>5, <1>7, <2>2 DEF Feed, CommandReads
<1>8. CASE \/ StartCommand \/ CommandFails \/ Fed \/ TimeElapses \/ DropCommand \/ Waited \/ WaitFails
           \/ TimesOut \/ OutEnds \/ ErrEnds \/ CommandForks \/ CommandEnds \/ HelperEnds
  <2>1. UNCHANGED <<pipe, wrote, got, input>>
    BY <1>8 DEF StartCommand, CommandFails, Fed, TimeElapses, DropCommand, Waited, WaitFails, TimesOut,
       OutEnds, ErrEnds, CommandForks, CommandEnds, HelperEnds
  <2>2. Places'
    BY <1>2, <1>8 DEF StartCommand, CommandFails, Fed, TimeElapses, DropCommand, Waited, WaitFails, TimesOut,
       OutEnds, ErrEnds, CommandForks, CommandEnds, HelperEnds, KillChild, OnTheWay
  <2> QED BY <1>2, <1>3, <1>5, <2>1, <2>2
<1>9. CASE ReadOut
  <2>1. PICK n : n = Lesser(OutChunk, pipe["out"])
    OBVIOUS
  <2>2. n \in Nat /\ n <= pipe["out"]
    BY <1>1, <1>4, <2>1 DEF Lesser, ShellStreams
  <2>3. /\ pipe' = [pipe EXCEPT !["out"] = @ - n]
        /\ got' = got \/ got' = [got EXCEPT !["out"] = @ + n]
        /\ UNCHANGED <<runner, child, helper, input, wrote, timeUp>>
        /\ runStep' \in {runStep, "err"} /\ outcome' \in {outcome, "truncated"}
    BY <1>9, <2>1 DEF ReadOut
  <2>4. Flow'
    BY <1>6, <2>2, <2>3 DEF ShellStreams
  <2> QED BY <1>2, <1>3, <2>3, <2>4 DEF OnTheWay
<1>10. CASE ReadErr
  <2>1. /\ pipe["err"] > 0 /\ pipe' = [pipe EXCEPT !["err"] = @ - 1]
        /\ got' = got \/ got' = [got EXCEPT !["err"] = @ + 1]
        /\ UNCHANGED <<runner, child, helper, input, wrote, timeUp, outcome>>
        /\ runStep' \in {runStep, "done"}
    BY <1>10 DEF ReadErr
  <2>2. 1 <= pipe["err"]
    BY <1>4, <2>1 DEF ShellStreams
  <2>3. Flow'
    BY <1>6, <2>1, <2>2 DEF ShellStreams
  <2> QED BY <1>2, <1>3, <2>1, <2>3
<1>11. ASSUME NEW s \in ShellStreams, Collect(s) PROVE ShellTypes'
  <2>1. 1 <= pipe[s]
    BY <1>4, <1>11 DEF Collect
  <2>2. Flow'
    BY <1>6, <1>11, <2>1 DEF Collect
  <2> QED BY <1>2, <1>3, <1>11, <2>2 DEF Collect
<1>12. CASE Collected
  <2>1. PICK out, err : out = Lesser(got["out"], MaxOutput) /\ err = Lesser(got["err"], MaxOutput - out)
    OBVIOUS
  <2>2. /\ out \in Nat /\ out <= got["out"] /\ err \in Nat /\ err <= got["err"]
    BY <1>1, <1>4, <2>1 DEF Lesser, ShellStreams
  <2>3. got' = [s \in ShellStreams |-> IF s = "out" THEN out ELSE err] /\ pipe' = pipe /\ wrote' = wrote
    BY <1>12, <2>1 DEF Collected
  <2>4. ASSUME NEW s \in ShellStreams
        PROVE  got'[s] \in Nat /\ got'[s] <= got[s]
    BY <2>2, <2>3 DEF ShellStreams
  <2>5. got' \in Amounts
    <3>1. \A s \in ShellStreams : got'[s] \in 0 .. MaxWritten
      BY <1>1, <1>4, <2>4
    <3> QED BY <2>3, <3>1 DEF Amounts
  <2>6. Flow'
    <3>1. \A s \in ShellStreams : got'[s] + pipe[s] <= wrote[s]
      BY <1>4, <2>4
    <3> QED BY <1>2, <2>3, <2>5, <3>1 DEF Flow
  <2> QED BY <1>2, <1>3, <1>12, <2>6 DEF Collected
<1>13. CASE ClientTimesOut
  <2>1. Flow'
    BY <1>1, <1>2, <1>4, <1>13 DEF ClientTimesOut, Nothing, Flow, Amounts
  <2> QED BY <1>2, <1>3, <1>13, <2>1 DEF ClientTimesOut
<1>14. ASSUME NEW s \in ShellStreams, CommandWrites(s) PROVE ShellTypes'
  <2>1. /\ pipe[s] < PipeRoom /\ wrote[s] < MaxWritten /\ got' = got
        /\ pipe' = [pipe EXCEPT ![s] = @ + 1] /\ wrote' = [wrote EXCEPT ![s] = @ + 1]
    BY <1>14 DEF CommandWrites
  <2>2. pipe[s] + 1 \in 0 .. PipeRoom /\ wrote[s] + 1 \in 0 .. MaxWritten
    BY <1>1, <1>4, <2>1
  <2>3. pipe' \in Rooms /\ wrote' \in Amounts /\ got' \in Amounts
    BY <1>2, <2>1, <2>2 DEF Flow, Rooms, Amounts
  <2>4. ASSUME NEW r \in ShellStreams PROVE got'[r] + pipe'[r] <= wrote'[r]
    <3>1. CASE r = s
      <4>1. pipe'[r] = pipe[s] + 1 /\ got'[r] = got[s] /\ wrote'[r] = wrote[s] + 1
        BY <1>2, <2>1, <3>1 DEF Flow, Rooms, Amounts
      <4> QED BY <1>4, <4>1
    <3>2. CASE r # s
      <4>1. pipe'[r] = pipe[r] /\ got'[r] = got[r] /\ wrote'[r] = wrote[r]
        BY <1>2, <2>1, <3>2 DEF Flow, Rooms, Amounts
      <4> QED BY <1>4, <4>1
    <3> QED BY <3>1, <3>2
  <2>5. Flow'
    BY <2>3, <2>4 DEF Flow
  <2> QED BY <1>2, <1>3, <1>14, <2>5 DEF CommandWrites
<1>15. CASE UNCHANGED shellVars
  BY <1>2, <1>3, <1>5, <1>15 DEF shellVars
<1> QED BY <1>7, <1>8, <1>9, <1>10, <1>11, <1>12, <1>13, <1>14, <1>15 DEF ShellNext

LEMMA ShellTyped == ShellSpec => []ShellTypeOK
<1>1. ShellInit => ShellTypes
  <2> SUFFICES ASSUME ShellInit PROVE ShellTypes
    OBVIOUS
  <2>1. /\ PipeRoom \in Nat /\ MaxWritten \in Nat /\ InputBlocks \in Nat
    BY ShellAssumption
  <2>2. Nothing \in [ShellStreams -> 0 .. PipeRoom] /\ Nothing \in [ShellStreams -> 0 .. MaxWritten]
        /\ \A s \in ShellStreams : Nothing[s] = 0
    BY <2>1 DEF Nothing
  <2>3. input \in [left : 0 .. InputBlocks, inPipe : 0 .. PipeRoom]
    BY <2>1 DEF ShellInit
  <2>4. pipe = Nothing /\ wrote = Nothing /\ got = Nothing
    BY DEF ShellInit
  <2>5. /\ pipe \in [ShellStreams -> 0 .. PipeRoom] /\ {wrote, got} \subseteq [ShellStreams -> 0 .. MaxWritten]
        /\ \A s \in ShellStreams : got[s] + pipe[s] <= wrote[s]
    <3>1. \A s \in ShellStreams : Nothing[s] + Nothing[s] <= Nothing[s]
      BY <2>2
    <3> QED BY <2>2, <2>4, <3>1, Zenon
  <2>6. /\ runner \in {"host", "container"} /\ child = "none" /\ runStep = "idle" /\ helper = FALSE
        /\ timeUp = FALSE /\ outcome = "whole"
    BY DEF ShellInit
  <2> QED BY <2>3, <2>5, <2>6 DEF ShellTypes, ShellTypeOK
<1>2. ShellTypes => ShellTypeOK
  BY DEF ShellTypes
<1> QED BY <1>1, <1>2, ShellTypesKept, PTL DEF ShellSpec

(* What a manager has in hand or is to look at is a container there is;    *)
(* how many are still to go is less than there may be in the table.        *)
RoomFor == MaxInstances + Cardinality(Managers)
OrchBounds ==
  /\ Cardinality(Ids) <= MaxContainers
  /\ \A m \in Managers : /\ opId[m] \in {0} \cup Ids /\ victims[m] \subseteq Ids
                         /\ toRemove[m] <= RoomFor

LEMMA OrchBoundsStep ==
  ASSUME SomeManagers, OrchestratorInv, OrchBounds, NEW m \in Managers, ManagerStep(m)
  PROVE  OrchBounds'
<1>1. /\ opStep \in [Managers -> {"idle", "create", "start", "insert", "next"} \cup AtDocker]
      /\ opId \in [Managers -> Nat] /\ victims \in [Managers -> SUBSET Nat]
      /\ toRemove \in [Managers -> Nat] /\ tracked \subseteq Ids
  BY DEF OrchestratorInv, OrchInv, OrchTypes, GivenInv, IsGiven
<1>2. RoomFor \in Nat /\ MaxContainers \in Nat /\ Cardinality(tracked) \in Nat /\ Cardinality(tracked) <= RoomFor
      /\ IsFiniteSet(tracked)
  <2>1. Cardinality(Managers) \in Nat /\ MaxInstances \in Nat /\ MaxContainers \in Nat
    BY OrchestratorAssumption, FS_CardinalityType DEF SomeManagers
  <2>2. IsFiniteSet(tracked) /\ Cardinality(tracked) \in Nat
    BY TrackedFinite, FS_CardinalityType DEF OrchestratorInv
  <2>3. Cardinality(tracked) < RoomFor
    BY OrchestratorHolds DEF OrchestratorInv, OrchestratorSound, WithinLimit, RoomFor
  <2> QED BY <2>1, <2>2, <2>3 DEF RoomFor
<1> DEFINE Bounded(k) == /\ opId[k] \in {0} \cup Ids /\ victims[k] \subseteq Ids
                         /\ toRemove[k] <= RoomFor
<1>3. \A k \in Managers : Bounded(k)
  BY DEF OrchBounds
<1>4. Cardinality(Ids) <= MaxContainers
  BY DEF OrchBounds
<1>5. RoomFor' = RoomFor
  BY DEF RoomFor
<1>6. ASSUME NEW n \in Names, CreateContainer(m, n) PROVE OrchBounds'
  <2>1. PICK id : id = Cardinality(Ids) + 1
    OBVIOUS
  <2>2. /\ Cardinality(Ids) < MaxContainers
        /\ nameOf' = [i \in Ids \cup {id} |-> IF i = id THEN n ELSE nameOf[i]]
        /\ opId' = [opId EXCEPT ![m] = id] /\ UNCHANGED <<victims, toRemove>>
    BY <1>6, <2>1, Zenon DEF CreateContainer
  <2>3. PICK c \in Nat : Ids = 1 .. c
    BY DEF OrchestratorInv, OrchInv, OrchTypes
  <2>4. Cardinality(Ids) = c
    BY <2>3, FS_Interval
  <2>5. Ids' = Ids \cup {id}
    BY <2>2 DEF Ids
  <2>6. Ids' = 1 .. c + 1
    BY <2>1, <2>3, <2>4, <2>5
  <2>7. Cardinality(Ids') = c + 1
    BY <2>6, FS_Interval
  <2>8. Cardinality(Ids)' <= MaxContainers
    BY <1>2, <2>2, <2>4, <2>7
  <2>9. ASSUME NEW k \in Managers PROVE Bounded(k)'
    <3>1. opId'[k] \in {0} \cup Ids'
      BY <1>1, <1>3, <2>2, <2>5
    <3> QED BY <1>3, <1>5, <2>2, <2>5, <3>1
  <2> QED BY <2>8, <2>9 DEF OrchBounds
<1>7. ASSUME nameOf' = nameOf, \A k \in Managers : Bounded(k)' PROVE OrchBounds'
  BY <1>4, <1>7 DEF OrchBounds, Ids
<1>8. ASSUME nameOf' = nameOf PROVE Ids' = Ids
  BY <1>8 DEF Ids
<1>9. ASSUME NEW i \in {0} \cup Ids, opId' \in {opId, [opId EXCEPT ![m] = i]}, nameOf' = nameOf,
             UNCHANGED <<victims, toRemove>>
      PROVE  OrchBounds'
  <2>1. ASSUME NEW k \in Managers PROVE Bounded(k)'
    BY <1>1, <1>3, <1>5, <1>8, <1>9
  <2> QED BY <1>7, <1>9, <2>1
<1>10. CASE BeginProvision(m) \/ StartContainer(m) \/ StartRefused(m) \/ Insert(m) \/ StopContainer(m)
            \/ RemoveContainer(m)
  <2>1. /\ nameOf' = nameOf /\ UNCHANGED <<victims, toRemove>>
        /\ opId' = opId \/ opId' = [opId EXCEPT ![m] = 0]
    BY <1>10 DEF BeginProvision, StartContainer, StartRefused, Insert, StopContainer, RemoveContainer
  <2> QED BY <1>9, <2>1
<1>11. ASSUME NEW id \in Given, BeginDestroy(m, id) PROVE OrchBounds'
  BY <1>9, <1>11 DEF BeginDestroy, Given
<1>12. ASSUME NEW id \in Given, NEW r \in 1 .. MaxInstances, BeginScale(m, id, r) PROVE OrchBounds'
  <2>1. PICK R : R = Replicas(nameOf[id])
    OBVIOUS
  <2>2. R \subseteq tracked
    BY <2>1 DEF Replicas
  <2>3. Cardinality(R) \in Nat /\ Cardinality(R) <= Cardinality(tracked)
    BY <1>2, <2>2, FS_Subset, FS_CardinalityType
  <2>4. /\ r \in Nat /\ r > 0 /\ r < Cardinality(R)
        /\ victims' = [victims EXCEPT ![m] = R \ {id}]
        /\ toRemove' = [toRemove EXCEPT ![m] = Cardinality(R) - r]
        /\ nameOf' = nameOf /\ opId' = opId
    BY <1>12, <2>1 DEF BeginScale
  <2>5. Cardinality(R) - r <= RoomFor
    BY <1>2, <2>3, <2>4
  <2>6. ASSUME NEW k \in Managers PROVE Bounded(k)'
    BY <1>1, <1>3, <1>5, <1>8, <2>2, <2>4, <2>5
  <2> QED BY <1>7, <2>4, <2>6
<1>13. CASE NextVictim(m)
  <2>1. PICK v \in victims[m] : /\ victims' = [victims EXCEPT ![m] = @ \ {v}]
                                /\ opId' = [opId EXCEPT ![m] = v]
    BY <1>13 DEF NextVictim
  <2>2. nameOf' = nameOf /\ toRemove' = toRemove
    BY <1>13 DEF NextVictim
  <2>3. ASSUME NEW k \in Managers PROVE Bounded(k)'
    BY <1>1, <1>3, <1>5, <1>8, <2>1, <2>2
  <2> QED BY <1>7, <2>2, <2>3
<1>14. CASE EndScale(m) \/ DockerFails(m)
  <2>1. /\ nameOf' = nameOf /\ victims' = [victims EXCEPT ![m] = {}]
        /\ toRemove' = [toRemove EXCEPT ![m] = 0]
        /\ opId' = opId \/ opId' = [opId EXCEPT ![m] = 0]
    BY <1>14 DEF EndScale, DockerFails
  <2>2. ASSUME NEW k \in Managers PROVE Bounded(k)'
    BY <1>1, <1>2, <1>3, <1>5, <1>8, <2>1
  <2> QED BY <1>7, <2>1, <2>2
<1>15. CASE Untrack(m)
  <2>1. /\ nameOf' = nameOf /\ victims' = victims /\ opId' = [opId EXCEPT ![m] = 0]
        /\ toRemove' = toRemove \/ toRemove' = [toRemove EXCEPT ![m] = @ - 1]
    BY <1>15 DEF Untrack
  <2>2. ASSUME NEW k \in Managers PROVE Bounded(k)'
    <3>1. toRemove[k] \in Nat /\ toRemove[k] <= RoomFor
      BY <1>1, <1>3
    <3>2. toRemove'[k] = toRemove[k] \/ toRemove'[k] = toRemove[k] - 1
      BY <1>1, <2>1
    <3>3. toRemove'[k] <= RoomFor
      BY <1>2, <3>1, <3>2
    <3> QED BY <1>1, <1>3, <1>5, <1>8, <2>1, <3>3
  <2> QED BY <1>7, <2>1, <2>2
<1> QED BY <1>6, <1>10, <1>11, <1>12, <1>13, <1>14, <1>15 DEF ManagerStep

LEMMA OrchestratorTyped == ASSUME SomeManagers PROVE OrchestratorSpec => []OrchestratorTypeOK
<1>1. OrchestratorInit => OrchBounds
  <2> SUFFICES ASSUME OrchestratorInit PROVE OrchBounds
    OBVIOUS
  <2>1. Ids = {} /\ Cardinality({}) = 0
    BY FS_EmptySet DEF OrchestratorInit, Ids
  <2>2. Cardinality(Managers) \in Nat /\ MaxInstances \in Nat /\ MaxContainers \in Nat
    BY OrchestratorAssumption, FS_CardinalityType DEF SomeManagers
  <2> QED BY <2>1, <2>2 DEF OrchestratorInit, OrchBounds, RoomFor
<1>2. OrchestratorInv /\ OrchBounds /\ [OrchestratorNext]_orchestratorVars => OrchBounds'
  <2>1. OrchestratorNext => \E m \in Managers : ManagerStep(m)
    BY DEF OrchestratorNext, ManagerStep
  <2>2. ASSUME OrchBounds, UNCHANGED orchestratorVars PROVE OrchBounds'
    BY <2>2 DEF orchestratorVars, OrchBounds, Ids, RoomFor
  <2> QED BY <2>1, <2>2, OrchBoundsStep
<1>3. OrchestratorInv /\ OrchBounds => OrchestratorTypeOK
  <2> SUFFICES ASSUME OrchestratorInv, OrchBounds PROVE OrchestratorTypeOK
    OBVIOUS
  <2>1. PICK c \in Nat : Ids = 1 .. c
    BY DEF OrchestratorInv, OrchInv, OrchTypes
  <2>2. Cardinality(Ids) = c
    BY <2>1, FS_Interval
  <2>3. /\ nameOf \in [Ids -> Names] /\ containers \subseteq Ids /\ leftOver \subseteq Ids /\ tracked \subseteq Ids
        /\ opStep \in [Managers -> {"idle", "create", "start", "insert", "next"} \cup AtDocker]
        /\ opId \in [Managers -> Nat] /\ victims \in [Managers -> SUBSET Nat]
        /\ toRemove \in [Managers -> Nat]
    BY DEF OrchestratorInv, OrchInv, OrchTypes, GivenInv, IsGiven
  <2>4. RoomFor \in Nat
    BY OrchestratorAssumption, FS_CardinalityType DEF SomeManagers, RoomFor
  <2>5. opStep \in [Managers -> {"idle", "create", "start", "insert", "next", "stop", "remove", "untrack"}]
    BY <2>3 DEF AtDocker
  <2>6. opId \in [Managers -> {0} \cup Ids] /\ victims \in [Managers -> SUBSET Ids]
    BY <2>3 DEF OrchBounds
  <2>7. toRemove \in [Managers -> 0 .. RoomFor]
    BY <2>3, <2>4 DEF OrchBounds
  <2>8. Ids = 1 .. Cardinality(Ids) /\ Cardinality(Ids) <= MaxContainers
    BY <2>1, <2>2 DEF OrchBounds
  <2> QED BY <2>3, <2>5, <2>6, <2>7, <2>8 DEF OrchestratorTypeOK, RoomFor
<1> QED BY <1>1, <1>2, <1>3, OrchestratorStarts, OrchestratorStep, PTL DEF OrchestratorSpec

TuiTypes ==
  /\ TuiTypeOK /\ tuiInbound \in Seq(Typed) /\ tuiQueue \in Seq(Typed)
  /\ (savedAs = <<>> \/ savedAs \in [1 .. 3 -> Providers \cup {NoProvider}])

LEMMA TuiTypesKept == TuiTypes /\ [TuiNext]_tuiVars => TuiTypes'
<1> SUFFICES ASSUME TuiTypes, [TuiNext]_tuiVars PROVE TuiTypes'
  OBVIOUS
<1> DEFINE Chosen == Providers \cup {NoProvider}
           Flags == BOOLEAN
           WizardT == /\ screen \in {"onboarding", "chat"} /\ stage \in Steps
                      /\ askedFor \in Chosen /\ keyFor \in Chosen /\ current \in Chosen /\ modelOf \in Chosen
                      /\ (savedAs = <<>> \/ savedAs \in [1 .. 3 -> Chosen]) /\ agentUp \in BOOLEAN
           ChatT == /\ overlay \in BOOLEAN /\ agentWorking \in BOOLEAN /\ leaving \in BOOLEAN
                    /\ toSend \in Typed \cup {0} /\ typed \in Typed \cup {0}
           QueueT(q) == q \in Seq(Typed) /\ Len(q) <= TuiCap
           BridgeT == /\ QueueT(tuiInbound) /\ QueueT(tuiQueue)
                      /\ carried \in Typed \cup {0} /\ turn \in Typed \cup {0}
                      /\ phase \in {"idle", "calling", "preparing", "done"} /\ unread \in BOOLEAN
                      /\ quiet \in BOOLEAN /\ replied \subseteq Typed /\ onScreen \subseteq replied
<1>1. TuiCap \in Nat /\ MaxTyped \in Nat
  BY TuiAssumption
<1>2. WizardT /\ ChatT /\ BridgeT
  BY DEF TuiTypes, TuiTypeOK
<1>3. ASSUME WizardT', ChatT', BridgeT' PROVE TuiTypes'
  <2>1. \A i \in DOMAIN savedAs' : savedAs'[i] \in Chosen
    BY <1>3
  <2>2. \A q \in {tuiInbound', tuiQueue'} : Len(q) <= TuiCap /\ \A i \in DOMAIN q : q[i] \in Typed
    <3>1. ASSUME NEW q \in Seq(Typed) PROVE \A i \in DOMAIN q : q[i] \in Typed
      OBVIOUS
    <3> QED BY <1>3, <3>1
  <2> QED BY <1>3, <2>1, <2>2 DEF TuiTypes, TuiTypeOK
<1>4. ASSUME UNCHANGED wizardVars PROVE WizardT'
  BY <1>2, <1>4 DEF wizardVars
<1>5. ASSUME UNCHANGED chatVars PROVE ChatT'
  BY <1>2, <1>5 DEF chatVars
<1>6. ASSUME UNCHANGED bridgeVars PROVE BridgeT'
  BY <1>2, <1>6 DEF bridgeVars
<1>7. ASSUME NEW q \in Seq(Typed), q # <<>>, Len(q) <= TuiCap PROVE Head(q) \in Typed /\ QueueT(Tail(q))
  BY <1>1, <1>7
<1>8. ASSUME NEW q \in Seq(Typed), Len(q) < TuiCap, NEW x \in Typed PROVE QueueT(Append(q, x))
  BY <1>1, <1>8
<1> HIDE DEF QueueT
<1>9. CASE Wizard
  <2>1. UNCHANGED chatVars /\ UNCHANGED bridgeVars
    BY <1>9 DEF Wizard, EnterWelcome, EnterMode, EnterModel, PressEsc, EnterProvider, EnterKey,
       EnterConfirm, Asking
  <2>2. ASSUME EnterWelcome \/ EnterMode \/ EnterModel \/ (\E p \in Providers : EnterProvider(p)) PROVE WizardT'
    BY <1>2, <2>2 DEF EnterWelcome, EnterMode, EnterModel, EnterProvider, Steps
  <2>3. ASSUME NEW ok \in BOOLEAN, EnterKey(ok) PROVE WizardT'
    BY <1>2, <2>3 DEF EnterKey, Accepted, Steps
  <2>4. ASSUME NEW ok \in BOOLEAN, EnterConfirm(ok) PROVE WizardT'
    <3>1. NoProvider \in Chosen
      OBVIOUS
    <3>2. CASE NoProvider \in {current, keyFor}
      BY <1>2, <2>4, <3>2 DEF EnterConfirm, Steps
    <3>3. CASE NoProvider \notin {current, keyFor}
      <4>1. /\ stage' = (IF ok THEN "done" ELSE "key") /\ screen' = (IF ok THEN "chat" ELSE screen)
            /\ agentUp' = ok /\ askedFor' = current /\ keyFor' = NoProvider
            /\ savedAs' = <<current, keyFor, modelOf>> /\ current' = current /\ modelOf' = modelOf
        BY <2>4, <3>3 DEF EnterConfirm, AfterFailure
      <4>2. savedAs' \in [1 .. 3 -> Chosen]
        BY <1>2, <4>1
      <4> QED BY <1>2, <4>1, <4>2 DEF Steps
    <3> QED BY <3>2, <3>3
  <2>5. ASSUME PressEsc PROVE WizardT'
    BY <1>2, <2>5 DEF PressEsc, Back, Steps
  <2> QED BY <1>3, <1>5, <1>6, <1>9, <2>1, <2>2, <2>3, <2>4, <2>5 DEF Wizard
<1>10. CASE User
  <2>1. UNCHANGED wizardVars /\ UNCHANGED bridgeVars
    BY <1>10 DEF User, OpenOverlay, CloseOverlay, PressInterrupt, Quit, SubmitText, Typing
  <2>2. ASSUME NEW path \in BOOLEAN, SubmitText(path) PROVE ChatT'
    <3>1. typed \in Nat /\ typed < MaxTyped
      BY <1>1, <1>2, <2>2 DEF SubmitText, Typed
    <3>2. typed + 1 \in Typed
      BY <1>1, <3>1 DEF Typed
    <3> QED BY <1>2, <2>2, <3>2 DEF SubmitText
  <2>3. ASSUME OpenOverlay \/ CloseOverlay \/ PressInterrupt \/ Quit PROVE ChatT'
    BY <1>2, <2>3 DEF OpenOverlay, CloseOverlay, PressInterrupt, Quit
  <2> QED BY <1>3, <1>4, <1>6, <1>10, <2>1, <2>2, <2>3 DEF User
<1>11. CASE SendUnsent
  <2>1. toSend \in Typed /\ toSend' = 0
    BY <1>2, <1>11 DEF SendUnsent
  <2>2. QueueT(tuiInbound)'
    <3>1. tuiInbound' = tuiInbound \/ (Len(tuiInbound) < TuiCap /\ tuiInbound' = Append(tuiInbound, toSend))
      BY <1>11 DEF SendUnsent
    <3>2. tuiInbound \in Seq(Typed)
      BY <1>2 DEF QueueT
    <3> QED BY <1>2, <1>8, <2>1, <3>1, <3>2
  <2>3. ChatT'
    BY <1>2, <1>11, <2>1 DEF SendUnsent
  <2>4. BridgeT'
    BY <1>2, <1>11, <2>2 DEF SendUnsent
  <2> QED BY <1>3, <1>4, <1>11, <2>3, <2>4 DEF SendUnsent
<1>12. CASE ReadStatus
  <2>1. ChatT' /\ BridgeT'
    BY <1>2, <1>12 DEF ReadStatus, Frees
  <2> QED BY <1>3, <1>4, <1>12, <2>1 DEF ReadStatus
<1>13. CASE Adapter
  <2>1. UNCHANGED wizardVars /\ UNCHANGED chatVars
    BY <1>13 DEF Adapter, AdapterTakes, AdapterQueues, Behind
  <2>2. tuiInbound \in Seq(Typed) /\ Len(tuiInbound) <= TuiCap /\ tuiQueue \in Seq(Typed)
    BY <1>2 DEF QueueT
  <2>3. ASSUME AdapterTakes PROVE BridgeT'
    <3>1. tuiInbound # <<>> /\ carried' = Head(tuiInbound) /\ tuiInbound' = Tail(tuiInbound)
      BY <2>3 DEF AdapterTakes
    <3>2. carried' \in Typed /\ QueueT(tuiInbound)'
      BY <1>7, <2>2, <3>1
    <3> QED BY <1>2, <2>3, <3>2 DEF AdapterTakes, Says
  <2>4. ASSUME AdapterQueues PROVE BridgeT'
    <3>1. carried \in Typed /\ Len(tuiQueue) < TuiCap /\ tuiQueue' = Append(tuiQueue, carried)
      BY <1>2, <2>4 DEF AdapterQueues
    <3>2. QueueT(tuiQueue)'
      BY <1>8, <2>2, <3>1
    <3> QED BY <1>2, <2>4, <3>2 DEF AdapterQueues
  <2> QED BY <1>3, <1>4, <1>5, <1>13, <2>1, <2>3, <2>4 DEF Adapter
<1>14. CASE TuiWorker
  <2>1. UNCHANGED wizardVars /\ UNCHANGED chatVars
    BY <1>14 DEF TuiWorker, WorkerTakes, TurnEnds, Behind
  <2>2. tuiQueue \in Seq(Typed) /\ Len(tuiQueue) <= TuiCap
    BY <1>2 DEF QueueT
  <2>3. ASSUME WorkerTakes PROVE BridgeT'
    <3>1. tuiQueue # <<>> /\ turn' = Head(tuiQueue) /\ tuiQueue' = Tail(tuiQueue)
      BY <2>3 DEF WorkerTakes
    <3>2. turn' \in Typed /\ QueueT(tuiQueue)'
      BY <1>7, <2>2, <3>1
    <3> QED BY <1>2, <2>3, <3>2 DEF WorkerTakes, Says
  <2>4. ASSUME NEW how \in {"done", "early", "error"}, TurnEnds(how) PROVE BridgeT'
    <3>1. turn \in Typed
      BY <1>2, <2>4 DEF TurnEnds
    <3>2. replied' \subseteq Typed /\ onScreen' \subseteq replied'
      BY <1>2, <2>4, <3>1 DEF TurnEnds, Emitted
    <3>3. phase' \in {"idle", "calling", "preparing", "done"} /\ unread' \in BOOLEAN /\ quiet' \in BOOLEAN
      BY <1>2, <2>4 DEF TurnEnds, Says
    <3> QED BY <1>2, <2>4, <3>2, <3>3 DEF TurnEnds
  <2> QED BY <1>3, <1>4, <1>5, <1>14, <2>1, <2>3, <2>4 DEF TuiWorker
<1>15. CASE UNCHANGED tuiVars
  BY <1>3, <1>4, <1>5, <1>6, <1>15 DEF tuiVars
<1> QED BY <1>9, <1>10, <1>11, <1>12, <1>13, <1>14, <1>15 DEF TuiNext

LEMMA TuiTyped == TuiInit /\ [][TuiNext]_tuiVars => []TuiTypeOK
<1>1. TuiInit => TuiTypes
  <2> SUFFICES ASSUME TuiInit PROVE TuiTypes
    OBVIOUS
  <2>1. <<>> \in Seq(Typed) /\ Len(<<>>) = 0 /\ TuiCap \in Nat
    BY TuiAssumption
  <2>2. current \in Providers \cup {NoProvider}
    BY DEF TuiInit
  <2>3. \A q \in {tuiInbound, tuiQueue} : q = <<>>
    BY DEF TuiInit
  <2>4. /\ tuiInbound \in Seq(Typed) /\ tuiQueue \in Seq(Typed)
        /\ \A q \in {tuiInbound, tuiQueue} : Len(q) <= TuiCap /\ \A i \in DOMAIN q : q[i] \in Typed
    BY <2>1, <2>3
  <2>5. savedAs = <<>> /\ \A i \in DOMAIN savedAs : savedAs[i] \in Providers \cup {NoProvider}
    BY DEF TuiInit
  <2>6. /\ screen \in {"onboarding", "chat"} /\ stage \in Steps
        /\ {askedFor, keyFor, current, modelOf} \subseteq Providers \cup {NoProvider}
        /\ {agentUp, overlay, agentWorking, leaving, unread, quiet} \subseteq BOOLEAN
    BY <2>2 DEF TuiInit, Steps
  <2>7. /\ {toSend, carried, turn, typed} \subseteq Typed \cup {0} /\ phase = "idle"
        /\ replied \subseteq Typed /\ onScreen \subseteq replied
    BY DEF TuiInit
  <2> QED BY <2>4, <2>5, <2>6, <2>7 DEF TuiTypes, TuiTypeOK
<1>2. TuiTypes => TuiTypeOK
  BY DEF TuiTypes
<1> QED BY <1>1, <1>2, TuiTypesKept, PTL

=============================================================================
