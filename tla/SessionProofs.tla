---------------------------- MODULE SessionProofs ----------------------------
(***************************************************************************)
(* The invariants of Session hold for every budget, interval, duration and *)
(* bound that satisfies SessionAssumption.                                 *)
(***************************************************************************)
EXTENDS Session, TLAPS

(* A charge is a number per field, at most the largest one a call can make. *)
LEMMA ChargeBound ==
    ASSUME NEW fn \in AllFunctions, NEW n \in 0..MaxBatch, NEW e \in 0..MaxExec
    PROVE  /\ Charge(fn, n, e) \in [Fields -> Nat]
           /\ \A f \in Fields : Charge(fn, n, e)[f] <= LargestCharge[f]
           /\ fn # "case_gen_eval" =>
                 \A f \in Fields : Charge(fn, n, e)[f] # 0 => f \in CheckFields(fn)
           /\ Charge(fn, n, e)["num_call_private_eval"] = (IF fn = "private_eval" THEN 1 ELSE 0)
           /\ Charge(fn, n, e)["num_call_public_eval"] = (IF fn = "public_eval" THEN 1 ELSE 0)
BY SessionAssumption DEF Charge, Fields, AllFunctions, LargestCharge, CheckFields

LEMMA PlusField ==
    ASSUME NEW u \in [Fields -> Nat], NEW v \in [Fields -> Nat]
    PROVE  /\ Plus(u, v) \in [Fields -> Nat]
           /\ \A f \in Fields : Plus(u, v)[f] = u[f] + v[f]
BY DEF Plus

LEMMA FieldNames ==
    /\ "num_case_gen" \in Fields
    /\ "num_case_eval" \in Fields
    /\ "num_call_public_eval" \in Fields
    /\ "num_call_private_eval" \in Fields
    /\ "execution_time_case_eval" \in Fields
BY DEF Fields

LEMMA CheckFieldsAreFields ==
    ASSUME NEW fn \in AllFunctions
    PROVE  CheckFields(fn) \subseteq Fields
BY DEF CheckFields, Fields, AllFunctions

LEMMA OneMoreInterval ==
    ASSUME NEW u \in Nat
    PROVE  (u + 1) * Interval = u * Interval + Interval
BY SessionAssumption

LEMMA CallTypes ==
    ASSUME TypeOK, call.stage \in Stages
    PROVE  /\ call \in [op : AllFunctions, n : 0..MaxBatch, stage : Stages, composite : BOOLEAN]
           /\ call.op \in AllFunctions
           /\ call.n \in 0..MaxBatch
BY DEF TypeOK, Calls, Idle, Saving, Stages

(* The initial state satisfies the inductive invariant. *)
LEMMA InitInv == Init => SessionInv
<1>. SUFFICES ASSUME Init PROVE SessionInv
  OBVIOUS
<1>1. Idle \in Calls /\ NoFile.kind = "absent"
  BY DEF Calls, NoFile
<1>2. ZeroUsage \in [Fields -> Nat] /\ \A f \in Fields : ZeroUsage[f] = 0
  BY DEF ZeroUsage
<1>3. TypeOK
  BY <1>1, <1>2, SessionAssumption DEF Init, TypeOK, Epoch
<1>4. Ledger(usage, logged, lastLogged)
  BY <1>2, SessionAssumption, FieldNames DEF Init, Ledger
<1>5. Spaced(usage, startedAt, lastPublic)
  BY <1>2, FieldNames DEF Init, Spaced
<1>. QED
  BY <1>1, <1>3, <1>4, <1>5, SessionAssumption
  DEF Init, SessionInv, DownIsBlank, LiveStamps, Stamps, AdmittedHasRoom, PublicIsDue,
      SavedIsSound, Idle, Epoch

-----------------------------------------------------------------------------
(* A step that neither charges, stamps nor moves the clock keeps every part *)
(* of the invariant that does not look at the call.                         *)
LEMMA MemoryKept ==
    ASSUME SessionInv, UNCHANGED <<now, alive, memory>>
    PROVE  /\ Boot <= now'
           /\ (alive => Stamps(startedAt, lastPublic, now))'
           /\ Ledger(usage, logged, lastLogged)'
           /\ Spaced(usage, startedAt, lastPublic)'
BY DEF SessionInv, LiveStamps, Stamps, Ledger, Spaced, memory

LEMMA SavedKept ==
    ASSUME SessionInv, UNCHANGED saved, now' \in Nat, now <= now'
    PROVE  SavedIsSound'
<1>. SUFFICES ASSUME saved.kind = "session"
              PROVE  SavedIsSound'
  BY DEF SavedIsSound
<1>1. saved \in Snapshot
  BY DEF SessionInv, TypeOK, NoFile, Torn
<1>2. saved.pausedAt <= now'
  BY <1>1 DEF SessionInv, SavedIsSound, TypeOK, Snapshot
<1>. QED
  BY <1>2 DEF SessionInv, SavedIsSound, Stamps, Ledger, Spaced

(* A step of the call alone keeps the invariant if the new call is idle,   *)
(* saving or only entered.                                                 *)
LEMMA CallStepInv ==
    ASSUME SessionInv, UNCHANGED <<now, alive, memory, saved>>, alive,
           call' \in Calls, call'.stage \notin {"admitted", "running"}
    PROVE  SessionInv'
<1>1. TypeOK'
  BY DEF SessionInv, TypeOK, memory
<1>2. SavedIsSound'
  BY SavedKept DEF SessionInv, TypeOK
<1>. QED
  BY <1>1, <1>2, MemoryKept
  DEF SessionInv, DownIsBlank, LiveStamps, AdmittedHasRoom, PublicIsDue

(* A process that is down has no call in progress. *)
LEMMA CallIsLive ==
    ASSUME SessionInv, call # Idle
    PROVE  alive
BY DEF SessionInv, DownIsBlank

LEMMA EnterInv ==
    ASSUME SessionInv, NEW fn \in Functions, NEW n \in Batch(fn), Enter(fn, n)
    PROVE  SessionInv'
<1>1. n \in 0..MaxBatch /\ fn \in AllFunctions
  BY SessionAssumption DEF Batch
<1>2. call' \in Calls /\ call'.stage = "entered"
  BY <1>1 DEF Enter, Calls, Stages
<1>. QED
  BY <1>2, CallStepInv DEF Enter

LEMMA AdmitInv ==
    ASSUME SessionInv, Admit
    PROVE  SessionInv'
<1>. USE DEF Admit
<1>1. /\ call \in [op : AllFunctions, n : 0..MaxBatch, stage : Stages, composite : BOOLEAN]
      /\ call.op \in AllFunctions
      /\ alive
  BY CallTypes, CallIsLive DEF SessionInv, Stages, Idle
<1>2. CASE call.op = "case_gen_eval"
  <2>1. call' \in Calls /\ call'.stage = "entered"
    BY <1>1, <1>2 DEF Calls, AllFunctions
  <2>. QED
    BY <1>1, <2>1, CallStepInv
<1>3. CASE call.op # "case_gen_eval"
  <2>1. call' \in Calls /\ call'.op = call.op /\ call'.stage = "admitted"
    BY <1>1, <1>3 DEF Calls, Stages
  <2>2. TypeOK'
    BY <2>1 DEF SessionInv, TypeOK, memory
  <2>3. SavedIsSound'
    BY SavedKept DEF SessionInv, TypeOK
  <2>4. CheckBefore("private_eval") /\ CheckBefore(call.op)
    BY DEF SessionFinished
  <2>5. usage["num_call_private_eval"] < 1
    BY <2>4, SessionAssumption DEF CheckBefore, CheckFields
  <2>6. AdmittedHasRoom'
    BY <1>3, <2>1, <2>4, <2>5 DEF AdmittedHasRoom, CheckBefore, memory, CheckFields
  <2>7. PublicIsDue'
    <3>. SUFFICES ASSUME UseSameTimeScale, call.op = "public_eval"
                  PROVE  /\ usage["num_call_public_eval"] * Interval <= now - startedAt
                         /\ lastPublic # Epoch => lastPublic + Interval <= now
      BY <2>1 DEF PublicIsDue, memory
    <3>1. lastPublic + Interval <= now
      BY <2>4, SessionAssumption DEF CheckBefore, NextPublicEvalTime, SessionInv, TypeOK
    <3>2. Stamps(startedAt, lastPublic, now) /\ Spaced(usage, startedAt, lastPublic)
      BY <1>1 DEF SessionInv, LiveStamps
    <3>. DEFINE u == usage["num_call_public_eval"]
    <3>3. u \in Nat
      BY FieldNames DEF SessionInv, TypeOK
    <3>4. CASE u = 0
      <4>1. u * Interval = 0
        BY <3>4, SessionAssumption
      <4>. QED
        BY <3>1, <3>2, <4>1 DEF Stamps, SessionInv, TypeOK
    <3>5. CASE u > 0
      <4>1. u * Interval = (u - 1) * Interval + Interval
        BY <3>3, <3>5, OneMoreInterval
      <4>2. (u - 1) * Interval <= lastPublic - startedAt
        BY <3>2, <3>5 DEF Spaced
      <4>3. (u - 1) * Interval \in Int
        BY <3>3, SessionAssumption
      <4>. QED
        BY <3>1, <4>1, <4>2, <4>3, SessionAssumption DEF SessionInv, TypeOK
    <3>. QED
      BY <3>3, <3>4, <3>5
  <2>. QED
    BY <1>1, <2>1, <2>2, <2>3, <2>6, <2>7, MemoryKept
    DEF SessionInv, DownIsBlank, LiveStamps
<1>. QED
  BY <1>2, <1>3

LEMMA RefuseInv ==
    ASSUME SessionInv, Refuse
    PROVE  SessionInv'
BY CallStepInv, CallIsLive DEF Refuse, Idle, Calls

LEMMA RunRaisesInv ==
    ASSUME SessionInv, RunRaises
    PROVE  SessionInv'
BY CallStepInv, CallIsLive DEF RunRaises, Idle, Calls

LEMMA LaunchInv ==
    ASSUME SessionInv, Launch
    PROVE  SessionInv'
<1>. USE DEF Launch
<1>1. /\ call \in [op : AllFunctions, n : 0..MaxBatch, stage : Stages, composite : BOOLEAN]
      /\ alive
  BY CallTypes, CallIsLive DEF SessionInv, Stages, Idle
<1>2. call' \in Calls /\ call'.op = call.op /\ call'.stage = "running"
  BY <1>1 DEF Calls, Stages
<1>3. TypeOK'
  BY <1>2 DEF SessionInv, TypeOK
<1>4. SavedIsSound'
  BY SavedKept DEF SessionInv, TypeOK
<1>5. Stamps(startedAt, lastPublic, now)' /\ startedAt <= now
  BY <1>1 DEF SessionInv, TypeOK, LiveStamps, Stamps
<1>6. call.op = "public_eval" => startedAt' <= lastPublic'
  BY <1>5
<1>7. Ledger(usage, logged, lastLogged)' /\ AdmittedHasRoom'
  BY <1>2 DEF SessionInv, Ledger, AdmittedHasRoom
<1>8. usage["num_call_public_eval"] \in Nat
  BY FieldNames DEF SessionInv, TypeOK
<1>9. Spaced(usage, startedAt, lastPublic)'
  <2>1. CASE call.op # "public_eval"
    BY <2>1 DEF SessionInv, Spaced
  <2>2. CASE call.op = "public_eval"
    <3>. SUFFICES ASSUME UseSameTimeScale, usage["num_call_public_eval"] > 0
                  PROVE  /\ startedAt <= now
                         /\ (usage["num_call_public_eval"] - 1) * Interval <= now - startedAt
      BY <2>2 DEF Spaced
    <3>1. (usage["num_call_public_eval"] - 1) * Interval <= lastPublic - startedAt
      BY DEF SessionInv, Spaced
    <3>2. lastPublic <= now
      BY <1>1 DEF SessionInv, LiveStamps, Stamps
    <3>3. (usage["num_call_public_eval"] - 1) * Interval \in Int
      BY <1>8, SessionAssumption
    <3>. QED
      BY <1>5, <3>1, <3>2, <3>3 DEF SessionInv, TypeOK
  <2>. QED
    BY <2>1, <2>2
<1>10. PublicIsDue'
  BY <1>2 DEF SessionInv, PublicIsDue
<1>. QED
  BY <1>1, <1>2, <1>3, <1>4, <1>5, <1>6, <1>7, <1>9, <1>10
  DEF SessionInv, DownIsBlank, LiveStamps

(* A charge of a call that had room keeps the ledger, whether or not it     *)
(* overruns.                                                                *)
LEMMA ChargeKeepsLedger ==
    ASSUME SessionInv, call.stage = "running", NEW e \in 0..MaxExec, RunReturns(e)
    PROVE  /\ usage' \in [Fields -> Nat]
           /\ logged' \in [Fields -> Nat]
           /\ Ledger(usage, logged, lastLogged)'
           /\ usage'["num_call_public_eval"] = usage["num_call_public_eval"]
                 + (IF call.op = "public_eval" THEN 1 ELSE 0)
<1>. DEFINE charge == Charge(call.op, call.n, e)
            within == CheckAfter(call.op, Plus(usage, charge))
<1>1. call.op \in AllFunctions /\ call.n \in 0..MaxBatch
  BY CallTypes DEF SessionInv, Stages
<1>2. /\ call.op # "case_gen_eval"
      /\ usage["num_call_private_eval"] < 1
      /\ \A f \in CheckFields(call.op) : usage[f] < Maximum[f]
  BY DEF SessionInv, AdmittedHasRoom
<1>3. /\ charge \in [Fields -> Nat]
      /\ \A f \in Fields : charge[f] <= LargestCharge[f]
      /\ \A f \in Fields : charge[f] # 0 => f \in CheckFields(call.op)
      /\ charge["num_call_private_eval"] = (IF call.op = "private_eval" THEN 1 ELSE 0)
      /\ charge["num_call_public_eval"] = (IF call.op = "public_eval" THEN 1 ELSE 0)
  BY <1>1, <1>2, ChargeBound
<1>4. usage \in [Fields -> Nat] /\ logged \in [Fields -> Nat]
  BY DEF SessionInv, TypeOK
<1>5. LargestCharge \in [Fields -> Nat] /\ Maximum \in [Fields -> Nat]
  BY SessionAssumption DEF LargestCharge, Fields
<1>. HIDE DEF charge
<1>6. /\ Plus(usage, charge) \in [Fields -> Nat]
      /\ \A f \in Fields : Plus(usage, charge)[f] = usage[f] + charge[f]
      /\ Plus(logged, charge) \in [Fields -> Nat]
      /\ \A f \in Fields : Plus(logged, charge)[f] = logged[f] + charge[f]
  BY <1>3, <1>4, PlusField
<1>7. /\ usage' = Plus(usage, charge)
      /\ logged' = IF within THEN Plus(logged, charge) ELSE logged
      /\ lastLogged' = IF within THEN call.op ELSE lastLogged
  BY DEF RunReturns, charge
<1>8. /\ \A f \in Fields : logged[f] <= usage[f] /\ logged[f] <= Maximum[f]
      /\ \A f \in Fields : usage[f] <= Maximum[f] \/ usage[f] < Maximum[f] + LargestCharge[f]
      /\ lastLogged # "private_eval"
  BY <1>2 DEF SessionInv, Ledger
<1>9. ASSUME NEW f \in Fields
      PROVE  /\ logged'[f] <= usage'[f]
             /\ logged'[f] <= Maximum[f]
             /\ usage'[f] <= Maximum[f] \/ usage'[f] < Maximum[f] + LargestCharge[f]
  <2>1. /\ usage[f] \in Nat /\ logged[f] \in Nat /\ charge[f] \in Nat
        /\ Maximum[f] \in Nat /\ LargestCharge[f] \in Nat
    BY <1>3, <1>4, <1>5
  <2>2. CASE f \in CheckFields(call.op)
    <3>1. usage[f] < Maximum[f] /\ charge[f] <= LargestCharge[f]
      BY <1>2, <1>3, <2>2
    <3>2. within => usage[f] + charge[f] <= Maximum[f]
      BY <1>6, <2>2 DEF CheckAfter
    <3>. HIDE DEF within
    <3>. QED
      BY <1>6, <1>7, <1>8, <2>1, <3>1, <3>2
  <2>3. CASE f \notin CheckFields(call.op)
    <3>1. charge[f] = 0
      BY <1>3, <2>3
    <3>. HIDE DEF within
    <3>. QED
      BY <1>6, <1>7, <1>8, <2>1, <3>1
  <2>. QED
    BY <2>2, <2>3
<1>10. /\ usage'["num_call_private_eval"] <= 1
       /\ usage'["num_call_private_eval"] = 1 <=> lastLogged' = "private_eval"
  <2>1. usage["num_call_private_eval"] = 0
    BY <1>2, <1>4, FieldNames
  <2>2. usage'["num_call_private_eval"] = (IF call.op = "private_eval" THEN 1 ELSE 0)
    BY <1>3, <1>6, <1>7, <2>1, FieldNames
  <2>3. call.op = "private_eval" => within
    BY <1>3, <1>6, <2>1, SessionAssumption, FieldNames DEF CheckAfter, CheckFields
  <2>. HIDE DEF within
  <2>. QED
    BY <1>7, <1>8, <2>2, <2>3
<1>11. usage' \in [Fields -> Nat] /\ logged' \in [Fields -> Nat]
  <2>. HIDE DEF within
  <2>. QED
    BY <1>4, <1>6, <1>7
<1>. QED
  BY <1>3, <1>6, <1>7, <1>9, <1>10, <1>11, FieldNames, SessionAssumption DEF Ledger

LEMMA RunReturnsInv ==
    ASSUME SessionInv, NEW e \in 0..MaxExec, RunReturns(e)
    PROVE  SessionInv'
<1>1. /\ call.stage = "running" /\ alive
      /\ call \in [op : AllFunctions, n : 0..MaxBatch, stage : Stages, composite : BOOLEAN]
      /\ call.op \in AllFunctions
  BY CallTypes, CallIsLive DEF RunReturns, SessionInv, Stages, Idle
<1>2. /\ usage' \in [Fields -> Nat]
      /\ logged' \in [Fields -> Nat]
      /\ Ledger(usage, logged, lastLogged)'
      /\ usage'["num_call_public_eval"] = usage["num_call_public_eval"]
            + (IF call.op = "public_eval" THEN 1 ELSE 0)
  BY <1>1, ChargeKeepsLedger
<1>3. /\ call' \in Calls
      /\ call'.stage \notin {"admitted", "running"}
      /\ UNCHANGED <<now, alive, startedAt, lastPublic, lastPrivate, saved>>
      /\ lastLogged' \in {call.op, lastLogged}
  BY <1>1 DEF RunReturns, Calls, Idle, Stages, AllFunctions
<1>4. TypeOK'
  BY <1>1, <1>2, <1>3 DEF SessionInv, TypeOK
<1>5. SavedIsSound'
  BY <1>3, SavedKept DEF SessionInv, TypeOK
<1>6. Spaced(usage, startedAt, lastPublic)'
  <2>1. CASE call.op # "public_eval"
    BY <1>2, <1>3, <2>1, FieldNames DEF SessionInv, TypeOK, Spaced
  <2>2. CASE call.op = "public_eval"
    <3>. SUFFICES ASSUME UseSameTimeScale
                  PROVE  /\ startedAt <= lastPublic
                         /\ (usage'["num_call_public_eval"] - 1) * Interval
                                <= lastPublic - startedAt
      BY <1>3 DEF Spaced
    <3>1. usage["num_call_public_eval"] * Interval <= lastPublic - startedAt
      BY <1>1, <2>2 DEF SessionInv, PublicIsDue
    <3>2. usage'["num_call_public_eval"] - 1 = usage["num_call_public_eval"]
      BY <1>2, <2>2, FieldNames DEF SessionInv, TypeOK
    <3>. QED
      BY <1>1, <2>2, <3>1, <3>2 DEF SessionInv, LiveStamps
  <2>. QED
    BY <2>1, <2>2
<1>. QED
  BY <1>1, <1>2, <1>3, <1>4, <1>5, <1>6
  DEF SessionInv, DownIsBlank, LiveStamps, Stamps, AdmittedHasRoom, PublicIsDue

LEMMA SaveOpenInv ==
    ASSUME SessionInv, SaveOpen
    PROVE  SessionInv'
<1>. USE DEF SaveOpen
<1>1. call' \in Calls /\ call'.stage = "saving" /\ saved'.kind = "torn"
  BY DEF Calls, Saving, Torn
<1>2. TypeOK'
  BY <1>1 DEF SessionInv, TypeOK, memory
<1>. QED
  BY <1>1, <1>2, MemoryKept
  DEF SessionInv, DownIsBlank, LiveStamps, AdmittedHasRoom, PublicIsDue, SavedIsSound

LEMMA SaveDumpInv ==
    ASSUME SessionInv, SaveDump
    PROVE  SessionInv'
<1>. USE DEF SaveDump
<1>1. call' \in Calls /\ call'.stage = "idle" /\ alive
  BY CallIsLive DEF Calls, Idle, Saving
<1>2. /\ saved' \in Snapshot
      /\ saved'.usage = usage /\ saved'.logged = logged /\ saved'.lastLogged = lastLogged
      /\ saved'.startedAt = startedAt /\ saved'.pausedAt = now
      /\ saved'.lastPublic = lastPublic
  BY DEF SessionInv, TypeOK, Snapshot
<1>3. TypeOK'
  BY <1>1, <1>2 DEF SessionInv, TypeOK, memory
<1>4. SavedIsSound'
  BY <1>1, <1>2
  DEF SessionInv, SavedIsSound, LiveStamps, Stamps, Ledger, Spaced, memory, TypeOK
<1>. QED
  BY <1>1, <1>3, <1>4, MemoryKept
  DEF SessionInv, DownIsBlank, LiveStamps, AdmittedHasRoom, PublicIsDue

(* Memory that was lost, or belongs to a new session, has an empty ledger. *)
LEMMA BlankLedger ==
    /\ ZeroUsage \in [Fields -> Nat]
    /\ Ledger(ZeroUsage, ZeroUsage, "none")
    /\ ZeroUsage["num_call_public_eval"] = 0
<1>1. ZeroUsage \in [Fields -> Nat] /\ \A f \in Fields : ZeroUsage[f] = 0
  BY DEF ZeroUsage
<1>. QED
  BY <1>1, SessionAssumption, FieldNames DEF Ledger

LEMMA CrashInv ==
    ASSUME SessionInv, Crash
    PROVE  SessionInv'
<1>. USE DEF Crash
<1>1. call' \in Calls /\ call'.stage = "idle"
  BY DEF Calls, Idle
<1>2. TypeOK'
  BY <1>1, BlankLedger DEF SessionInv, TypeOK, Epoch
<1>3. SavedIsSound'
  BY SavedKept DEF SessionInv, TypeOK
<1>4. Ledger(usage, logged, lastLogged)'
  BY BlankLedger DEF Ledger
<1>5. Spaced(usage, startedAt, lastPublic)'
  BY BlankLedger DEF Spaced
<1>. QED
  BY <1>1, <1>2, <1>3, <1>4, <1>5
  DEF SessionInv, DownIsBlank, LiveStamps, AdmittedHasRoom, PublicIsDue

LEMMA StartInv ==
    ASSUME SessionInv, Start
    PROVE  SessionInv'
<1>. USE DEF Start
<1>1. /\ call' = Idle /\ call'.stage = "idle"
      /\ usage' = ZeroUsage /\ logged' = ZeroUsage /\ lastLogged' = "none"
      /\ lastPublic' = Epoch
  BY DEF SessionInv, DownIsBlank, Idle
<1>2. TypeOK'
  BY DEF SessionInv, TypeOK
<1>3. SavedIsSound'
  BY SavedKept DEF SessionInv, TypeOK
<1>4. Ledger(usage, logged, lastLogged)'
  BY <1>1, BlankLedger DEF Ledger
<1>5. Spaced(usage, startedAt, lastPublic)'
  BY <1>1, BlankLedger DEF Spaced
<1>6. Stamps(startedAt, lastPublic, now)'
  BY <1>1 DEF Stamps, SessionInv, TypeOK, Epoch
<1>. QED
  BY <1>1, <1>2, <1>3, <1>4, <1>5, <1>6
  DEF SessionInv, DownIsBlank, LiveStamps, AdmittedHasRoom, PublicIsDue

(* The saved session moved to the present keeps its stamps and its spacing. *)
LEMMA RestartInv ==
    ASSUME SessionInv, Restart
    PROVE  SessionInv'
<1>. USE DEF Restart
<1>. DEFINE used == saved.pausedAt - saved.startedAt
<1>1. saved \in Snapshot
  BY DEF SessionInv, TypeOK, NoFile, Torn
<1>2. /\ saved.startedAt \in Nat /\ saved.pausedAt \in Nat
      /\ saved.lastPublic \in Nat /\ saved.lastPrivate \in Nat /\ now \in Nat
      /\ saved.usage \in [Fields -> Nat] /\ saved.logged \in [Fields -> Nat]
      /\ saved.lastLogged \in AllFunctions \cup {"none"}
  BY <1>1 DEF Snapshot, SessionInv, TypeOK
<1>3. /\ Stamps(saved.startedAt, saved.lastPublic, saved.pausedAt)
      /\ saved.pausedAt <= now
      /\ Ledger(saved.usage, saved.logged, saved.lastLogged)
      /\ Spaced(saved.usage, saved.startedAt, saved.lastPublic)
  BY DEF SessionInv, SavedIsSound
<1>4. call' = Idle /\ call'.stage = "idle"
  BY DEF SessionInv, DownIsBlank, Idle
<1>5. /\ startedAt' = now - used
      /\ lastPublic' = Shifted(saved.lastPublic)
      /\ lastPrivate' = Shifted(saved.lastPrivate)
  OBVIOUS
<1>6. startedAt' \in Nat /\ Boot <= startedAt' /\ startedAt' <= now
  BY <1>2, <1>3, <1>5, SessionAssumption DEF Stamps
<1>7. lastPublic' \in Nat /\ lastPrivate' \in Nat
  BY <1>2, <1>3, <1>5, <1>6 DEF Shifted, Epoch, Stamps
<1>8. TypeOK'
  BY <1>2, <1>6, <1>7 DEF SessionInv, TypeOK
<1>9. saved.lastPublic >= saved.startedAt =>
          lastPublic' - startedAt' = saved.lastPublic - saved.startedAt
  BY <1>2, <1>5 DEF Shifted
<1>10. Stamps(startedAt, lastPublic, now)'
  BY <1>2, <1>3, <1>5, <1>6 DEF Stamps, Shifted, Epoch
<1>11. Ledger(usage, logged, lastLogged)'
  BY <1>3 DEF Ledger
<1>12. Spaced(usage, startedAt, lastPublic)'
  <2>. SUFFICES ASSUME UseSameTimeScale, saved.usage["num_call_public_eval"] > 0
                PROVE  /\ startedAt' <= lastPublic'
                       /\ (saved.usage["num_call_public_eval"] - 1) * Interval
                              <= lastPublic' - startedAt'
    BY DEF Spaced
  <2>1. /\ saved.startedAt <= saved.lastPublic
        /\ (saved.usage["num_call_public_eval"] - 1) * Interval
               <= saved.lastPublic - saved.startedAt
    BY <1>3 DEF Spaced
  <2>. QED
    BY <1>2, <1>6, <1>7, <1>9, <2>1
<1>13. SavedIsSound'
  BY SavedKept DEF SessionInv, TypeOK
<1>. QED
  BY <1>4, <1>8, <1>10, <1>11, <1>12, <1>13
  DEF SessionInv, DownIsBlank, LiveStamps, AdmittedHasRoom, PublicIsDue

LEMMA TickInv ==
    ASSUME SessionInv, Tick
    PROVE  SessionInv'
<1>. USE DEF Tick
<1>1. now' = now + 1 /\ now \in Nat
  BY DEF SessionInv, TypeOK
<1>2. TypeOK'
  BY <1>1 DEF SessionInv, TypeOK, memory
<1>3. SavedIsSound'
  BY <1>1, SavedKept
<1>4. (alive => Stamps(startedAt, lastPublic, now))' /\ Boot <= now'
  BY <1>1, SessionAssumption DEF SessionInv, LiveStamps, Stamps, memory, TypeOK
<1>5. Ledger(usage, logged, lastLogged)' /\ Spaced(usage, startedAt, lastPublic)'
  BY DEF SessionInv, Ledger, Spaced, memory
<1>6. PublicIsDue'
  <2>1. usage["num_call_public_eval"] * Interval \in Int
    BY FieldNames, SessionAssumption DEF SessionInv, TypeOK
  <2>. QED
    BY <1>1, <2>1, SessionAssumption DEF SessionInv, PublicIsDue, memory, TypeOK
<1>. QED
  BY <1>2, <1>3, <1>4, <1>5, <1>6
  DEF SessionInv, DownIsBlank, LiveStamps, AdmittedHasRoom, memory

LEMMA StutterInv ==
    ASSUME SessionInv, UNCHANGED vars
    PROVE  SessionInv'
BY DEF SessionInv, vars, TypeOK, DownIsBlank, LiveStamps, Stamps, Ledger, Spaced,
       AdmittedHasRoom, PublicIsDue, SavedIsSound

(* The invariant is inductive: it holds in every state the program reaches. *)
THEOREM SessionInvariant == Spec => []SessionInv
<1>1. SessionInv /\ [Next]_vars => SessionInv'
  BY EnterInv, AdmitInv, RefuseInv, LaunchInv, RunRaisesInv, RunReturnsInv, SaveOpenInv,
     SaveDumpInv, CrashInv, StartInv, RestartInv, TickInv, StutterInv DEF Next
<1>. QED
  BY <1>1, InitInv, PTL DEF Spec

(* Type correctness of Session. *)
THEOREM SessionTypeOK == Spec => []TypeOK
<1>1. SessionInv => TypeOK
  BY DEF SessionInv
<1>. QED
  BY <1>1, SessionInvariant, PTL

(* What the action log records was charged and lies within the maximum. *)
THEOREM SessionLogWithinBudget == Spec => []LogWithinBudget
<1>1. SessionInv => LogWithinBudget
  BY DEF SessionInv, Ledger, LogWithinBudget
<1>. QED
  BY <1>1, SessionInvariant, PTL

(* The private evaluation is taken at most once and ends the session. *)
THEOREM SessionPrivateEndsSession == Spec => []PrivateEndsSession
<1>1. SessionInv => PrivateEndsSession
  BY DEF SessionInv, Ledger, AdmittedHasRoom, PrivateEndsSession
<1>. QED
  BY <1>1, SessionInvariant, PTL

(* No field exceeds its maximum by as much as the largest single charge. *)
THEOREM SessionOverrunByOneCall == Spec => []OverrunByOneCall
<1>1. SessionInv => OverrunByOneCall
  BY DEF SessionInv, Ledger, OverrunByOneCall
<1>. QED
  BY <1>1, SessionInvariant, PTL

(* Public evaluations keep the submission interval in session time, through *)
(* any number of saves, crashes and restarts.                               *)
THEOREM SessionPublicRate == Spec => []PublicRate
<1>1. SessionInv => PublicRate
  <2>. SUFFICES ASSUME SessionInv, UseSameTimeScale, alive,
                       usage["num_call_public_eval"] > 0
                PROVE  (usage["num_call_public_eval"] - 1) * Interval <= now - startedAt
    BY DEF PublicRate
  <2>1. (usage["num_call_public_eval"] - 1) * Interval <= lastPublic - startedAt
    BY DEF SessionInv, Spaced
  <2>2. lastPublic <= now
    BY DEF SessionInv, LiveStamps, Stamps
  <2>3. (usage["num_call_public_eval"] - 1) * Interval \in Int
    BY FieldNames, SessionAssumption DEF SessionInv, TypeOK
  <2>. QED
    BY <2>1, <2>2, <2>3 DEF SessionInv, TypeOK
<1>. QED
  BY <1>1, SessionInvariant, PTL

-----------------------------------------------------------------------------
(* Session implements SessionBudget: every step of the session is a step of *)
(* its contract or leaves the contract's state alone.                       *)

LEMMA InitBudget == Init => Budget!Init
<1>. SUFFICES ASSUME Init PROVE Budget!Init
  OBVIOUS
<1>1. alive /\ saved.kind = "absent" /\ call.op = "none"
  BY DEF Init, NoFile, Idle
<1>2. SessionOffset(lastPublic) = -1 /\ now - startedAt = 0
  BY SessionAssumption DEF Init, SessionOffset, Epoch
<1>3. usage = Budget!Zero /\ logged = Budget!Zero
  BY DEF Init, ZeroUsage, Budget!Zero
<1>. QED
  BY <1>1, <1>2, <1>3 DEF Budget!Init

(* A step of the call alone is invisible, unless it ends a public evaluation. *)
LEMMA CallStepBudget ==
    ASSUME SessionInv, UNCHANGED <<now, alive, memory, saved>>,
           call'.op # "public_eval" \/ call'.stage # "running"
    PROVE  Budget!Abandon \/ UNCHANGED Budget!vars
BY DEF Budget!Abandon, Budget!vars, memory, SessionOffset

LEMMA EnterBudget ==
    ASSUME SessionInv, NEW fn \in Functions, NEW n \in Batch(fn), Enter(fn, n)
    PROVE  Budget!Abandon \/ UNCHANGED Budget!vars
BY CallStepBudget DEF Enter

LEMMA AdmitBudget ==
    ASSUME SessionInv, Admit
    PROVE  Budget!Abandon \/ UNCHANGED Budget!vars
<1>1. call \in [op : AllFunctions, n : 0..MaxBatch, stage : Stages, composite : BOOLEAN]
  BY CallTypes DEF SessionInv, Stages, Admit
<1>2. call'.stage # "running"
  BY <1>1 DEF Admit
<1>. QED
  BY <1>2, CallStepBudget DEF Admit

LEMMA LaunchBudget ==
    ASSUME SessionInv, Launch
    PROVE  Budget!BeginPublic \/ UNCHANGED Budget!vars
<1>. USE DEF Launch
<1>1. /\ call \in [op : AllFunctions, n : 0..MaxBatch, stage : Stages, composite : BOOLEAN]
      /\ alive
  BY CallTypes, CallIsLive DEF SessionInv, Stages, Idle
<1>2. call'.op = call.op /\ call'.stage = "running"
  BY <1>1
<1>3. CASE call.op # "public_eval"
  BY <1>1, <1>2, <1>3 DEF Budget!vars, SessionOffset
<1>4. CASE call.op = "public_eval"
  <2>1. /\ usage["num_call_private_eval"] < Maximum["num_call_private_eval"]
        /\ usage["num_call_public_eval"] < Maximum["num_call_public_eval"]
    BY <1>4, SessionAssumption DEF SessionInv, AdmittedHasRoom, CheckFields
  <2>2. startedAt <= now /\ startedAt \in Nat /\ lastPublic \in Nat /\ now \in Nat
    BY <1>1 DEF SessionInv, TypeOK, LiveStamps, Stamps
  <2>3. UseSameTimeScale /\ SessionOffset(lastPublic) # -1
           => now - startedAt >= SessionOffset(lastPublic) + Interval
    BY <1>4, <2>2, SessionAssumption
    DEF SessionInv, PublicIsDue, SessionOffset, LiveStamps, Stamps, Epoch
  <2>4. SessionOffset(lastPublic)' = now - startedAt
    BY <1>4, <2>2 DEF SessionOffset
  <2>. QED
    BY <1>1, <1>2, <1>4, <2>1, <2>3, <2>4 DEF Budget!BeginPublic
<1>. QED
  BY <1>3, <1>4

LEMMA RunReturnsBudget ==
    ASSUME SessionInv, NEW e \in 0..MaxExec, RunReturns(e)
    PROVE  Budget!Settle
<1>. DEFINE charge == Charge(call.op, call.n, e)
            within == CheckAfter(call.op, Plus(usage, charge))
            grown == {f \in Fields : usage'[f] # usage[f]}
<1>1. /\ call.stage = "running" /\ alive
      /\ call.op \in AllFunctions /\ call.n \in 0..MaxBatch
  BY CallTypes, CallIsLive DEF RunReturns, SessionInv, Stages, Idle
<1>2. /\ call.op # "case_gen_eval"
      /\ usage["num_call_private_eval"] < Maximum["num_call_private_eval"]
      /\ \A f \in CheckFields(call.op) : usage[f] < Maximum[f]
  BY <1>1, SessionAssumption DEF SessionInv, AdmittedHasRoom
<1>3. /\ charge \in [Fields -> Nat]
      /\ \A f \in Fields : charge[f] # 0 => f \in CheckFields(call.op)
      /\ charge["num_call_public_eval"] = (IF call.op = "public_eval" THEN 1 ELSE 0)
  BY <1>1, <1>2, ChargeBound
<1>4. usage \in [Fields -> Nat] /\ logged \in [Fields -> Nat] /\ Maximum \in [Fields -> Nat]
  BY SessionAssumption DEF SessionInv, TypeOK
<1>. HIDE DEF charge
<1>5. /\ usage' = Plus(usage, charge)
      /\ logged' = IF within THEN Plus(logged, charge) ELSE logged
      /\ UNCHANGED <<now, alive, startedAt, lastPublic, saved>>
      /\ call'.stage # "running"
  BY DEF RunReturns, charge, Idle
<1>6. /\ usage' \in [Fields -> Nat]
      /\ \A f \in Fields : usage'[f] = usage[f] + charge[f]
  BY <1>3, <1>4, <1>5, PlusField
<1>7. \A f \in grown : usage[f] < Maximum[f] /\ usage[f] < usage'[f] /\ f \in CheckFields(call.op)
  BY <1>2, <1>3, <1>4, <1>6
<1>8. within <=> \A f \in grown : usage'[f] <= Maximum[f]
  <2>1. within => \A f \in grown : usage'[f] <= Maximum[f]
    BY <1>5, <1>7 DEF CheckAfter
  <2>2. ASSUME \A f \in grown : usage'[f] <= Maximum[f], NEW f \in CheckFields(call.op)
        PROVE  usage'[f] <= Maximum[f]
    <3>1. f \in Fields
      BY <1>1, CheckFieldsAreFields
    <3>2. CASE f \in grown
      BY <2>2, <3>2
    <3>3. CASE f \notin grown
      BY <1>2, <1>4, <3>1, <3>3
    <3>. QED
      BY <3>2, <3>3
  <2>. QED
    BY <1>5, <2>1, <2>2 DEF CheckAfter
<1>9. Plus(logged, charge) = [f \in Fields |-> logged[f] + (usage'[f] - usage[f])]
  <2>1. \A f \in Fields : usage'[f] - usage[f] = charge[f]
    BY <1>3, <1>4, <1>6
  <2>. QED
    BY <2>1 DEF Plus
<1>10. "num_call_public_eval" \in grown =>
           /\ call.op = "public_eval"
           /\ usage'["num_call_public_eval"] = usage["num_call_public_eval"] + 1
  BY <1>3, <1>4, <1>6, FieldNames
<1>. HIDE DEF within
<1>11. logged' = IF \A f \in grown : usage'[f] <= Maximum[f]
                 THEN [f \in Fields |-> logged[f] + (usage'[f] - usage[f])]
                 ELSE logged
  BY <1>5, <1>8, <1>9
<1>. QED
  BY <1>1, <1>2, <1>5, <1>6, <1>7, <1>10, <1>11 DEF Budget!Settle, SessionOffset

LEMMA SaveOpenBudget ==
    ASSUME SessionInv, SaveOpen
    PROVE  Budget!Forget
BY DEF SaveOpen, Budget!Forget, Torn, Saving, Idle, memory, SessionOffset

LEMMA SaveDumpBudget ==
    ASSUME SessionInv, SaveDump
    PROVE  Budget!Take
<1>. USE DEF SaveDump
<1>1. /\ alive /\ call.op = "save" /\ call'.op = "none"
      /\ UNCHANGED <<now, alive, memory>>
  BY CallIsLive DEF Idle, Saving
<1>2. /\ saved'.kind = "session"
      /\ saved'.usage = usage /\ saved'.logged = logged
      /\ saved'.startedAt = startedAt /\ saved'.pausedAt = now
      /\ saved'.lastPublic = lastPublic
  OBVIOUS
<1>3. SessionOffset(lastPublic) =
          IF saved'.lastPublic >= saved'.startedAt
          THEN saved'.lastPublic - saved'.startedAt ELSE -1
  BY <1>2 DEF SessionOffset
<1>. QED
  BY <1>1, <1>2, <1>3 DEF Budget!Take, Budget!Image, memory, SessionOffset

LEMMA CrashBudget ==
    ASSUME SessionInv, Crash
    PROVE  Budget!Lose
BY DEF Crash, Budget!Lose, Budget!Zero, ZeroUsage, Idle

LEMMA StartBudget ==
    ASSUME SessionInv, Start
    PROVE  UNCHANGED Budget!vars
<1>. USE DEF Start
<1>1. lastPublic' = 0 /\ 0 < startedAt' /\ startedAt' = now' /\ now \in Nat /\ call.op = "none"
  BY SessionAssumption DEF SessionInv, TypeOK, DownIsBlank, Epoch, Idle
<1>2. SessionOffset(lastPublic)' = -1
  BY <1>1 DEF SessionOffset
<1>. QED
  BY <1>1, <1>2 DEF Budget!vars

LEMMA RestartBudget ==
    ASSUME SessionInv, Restart
    PROVE  Budget!Resume
<1>. USE DEF Restart
<1>1. saved \in Snapshot /\ call' = Idle /\ call'.op = "none"
  BY DEF SessionInv, TypeOK, NoFile, Torn, DownIsBlank, Idle
<1>2. /\ saved.startedAt \in Nat /\ saved.pausedAt \in Nat /\ saved.lastPublic \in Nat
      /\ now \in Nat
  BY <1>1 DEF Snapshot, SessionInv, TypeOK
<1>3. /\ Stamps(saved.startedAt, saved.lastPublic, saved.pausedAt)
      /\ saved.pausedAt <= now
  BY DEF SessionInv, SavedIsSound
<1>4. now' - startedAt' = saved.pausedAt - saved.startedAt
  BY <1>2
<1>5. SessionOffset(lastPublic)' =
          IF saved.lastPublic >= saved.startedAt
          THEN saved.lastPublic - saved.startedAt ELSE -1
  BY <1>2, <1>3, SessionAssumption DEF SessionOffset, Shifted, Stamps, Epoch
<1>. QED
  BY <1>1, <1>4, <1>5 DEF Budget!Resume, Budget!Image

LEMMA TickBudget ==
    ASSUME SessionInv, Tick
    PROVE  Budget!TimePasses \/ UNCHANGED Budget!vars
<1>1. now \in Nat /\ startedAt \in Nat
  BY DEF SessionInv, TypeOK
<1>. QED
  BY <1>1 DEF Tick, Budget!TimePasses, Budget!vars, memory, SessionOffset

LEMMA StutterBudget ==
    ASSUME UNCHANGED vars
    PROVE  UNCHANGED Budget!vars
BY DEF vars, Budget!vars, SessionOffset

LEMMA RefuseBudget ==
    ASSUME SessionInv, Refuse \/ RunRaises
    PROVE  Budget!Abandon \/ UNCHANGED Budget!vars
BY CallStepBudget DEF Refuse, RunRaises, Idle

(* A session, saved, killed and restarted in any order, is indistinguishable *)
(* from one that spends a single budget in its own time.                     *)
THEOREM SessionImplementsBudget == Spec => ImplementsBudget
<1>1. SessionInv /\ [Next]_vars => [Budget!Next]_Budget!vars
  BY EnterBudget, AdmitBudget, LaunchBudget, RunReturnsBudget, SaveOpenBudget,
     SaveDumpBudget, CrashBudget, StartBudget, RestartBudget, TickBudget, StutterBudget,
     RefuseBudget DEF Next, Budget!Next
<1>. QED
  BY <1>1, InitBudget, SessionInvariant, PTL DEF Spec, Budget!Spec, ImplementsBudget

=============================================================================
