------------------------------- MODULE Session -------------------------------
(***************************************************************************)
(* One ale_bench Session: the metered functions a caller invokes on it,    *)
(* the resource usage they are charged, the clock that ends the session,   *)
(* and save / restart (session.py, start.py, result.py).                   *)
(*                                                                         *)
(* A session has one caller, so at most one call is in progress; the clock *)
(* advances between any two steps of it.  What a call computes is          *)
(* abstracted: a run either raises or returns, and what counts is how many *)
(* cases it was given and how much execution time it reports.  The action  *)
(* log is kept as the total charge of its entries and its last entry.      *)
(***************************************************************************)
EXTENDS Integers

CONSTANTS
    Functions,          \* the metered functions the caller uses
    UsesSave,           \* whether the caller saves the session
    Maximum,            \* maximum_resource_usage, a number per field
    UseSameTimeScale,   \* use_same_time_scale
    Interval,           \* submission_interval_seconds
    Duration,           \* session_duration
    Boot,               \* the clock when the first session starts
    MaxNow,             \* bound: the last instant of the clock
    MaxBatch,           \* bound: the most seeds or inputs one call is given
    MaxExec             \* bound: the most execution time one run reports

Fields == {"num_case_gen", "num_case_eval", "num_call_public_eval",
           "num_call_private_eval", "execution_time_case_eval"}

AllFunctions == {"code_run", "case_gen", "case_eval", "case_gen_eval",
                 "public_eval", "private_eval", "local_visualization"}

\* start() fixes the private budget at one call; the epoch 1970 that stands for
\* "never evaluated" lies further back than any submission interval.
ASSUME SessionAssumption ==
    /\ Functions \subseteq AllFunctions
    /\ UsesSave \in BOOLEAN
    /\ Maximum \in [Fields -> Nat]
    /\ Maximum["num_call_private_eval"] = 1
    /\ UseSameTimeScale \in BOOLEAN
    /\ Interval \in Nat \ {0}
    /\ Duration \in Nat
    /\ Boot \in Nat
    /\ Boot > Interval
    /\ MaxNow \in Nat
    /\ MaxNow >= Boot
    /\ MaxBatch \in Nat \ {0}
    /\ MaxExec \in Nat

VARIABLES
    now,            \* the wall clock
    alive,          \* a process holds the session object
    usage,          \* _current_resource_usage
    logged,         \* _action_log: the total charge of its entries
    lastLogged,     \* _action_log: the function of its last entry
    startedAt,      \* _session_started_at
    lastPublic,     \* _last_public_eval_time
    lastPrivate,    \* _last_private_eval_time
    call,           \* the call in progress
    saved           \* the file session.json

memory == <<usage, logged, lastLogged, startedAt, lastPublic, lastPrivate>>
vars == <<now, alive, usage, logged, lastLogged, startedAt, lastPublic,
          lastPrivate, call, saved>>

Epoch == 0
ZeroUsage == [f \in Fields |-> 0]

Stages == {"entered", "admitted", "running"}
Idle == [op |-> "none", n |-> 0, stage |-> "idle", composite |-> FALSE]
Saving == [op |-> "save", n |-> 0, stage |-> "saving", composite |-> FALSE]
Calls == {Idle, Saving} \cup
         [op : AllFunctions, n : 0..MaxBatch, stage : Stages, composite : BOOLEAN]

NoFile == [kind |-> "absent"]
Torn == [kind |-> "torn"]
Snapshot == [kind : {"session"}, usage : [Fields -> Nat], logged : [Fields -> Nat],
             lastLogged : AllFunctions \cup {"none"}, startedAt : Nat,
             pausedAt : Nat, lastPublic : Nat, lastPrivate : Nat]

TypeOK ==
    /\ now \in Nat
    /\ alive \in BOOLEAN
    /\ usage \in [Fields -> Nat]
    /\ logged \in [Fields -> Nat]
    /\ lastLogged \in AllFunctions \cup {"none"}
    /\ startedAt \in Nat
    /\ lastPublic \in Nat
    /\ lastPrivate \in Nat
    /\ call \in Calls
    /\ saved \in {NoFile, Torn} \cup Snapshot

-----------------------------------------------------------------------------
(* The checks that bracket every metered function.                         *)

CheckFields(fn) ==
    [code_run |-> {"execution_time_case_eval"},
     case_gen |-> {"num_case_gen"},
     case_eval |-> {"num_case_eval", "execution_time_case_eval"},
     case_gen_eval |-> {"num_case_gen", "num_case_eval", "execution_time_case_eval"},
     public_eval |-> {"num_call_public_eval"},
     private_eval |-> {"num_call_private_eval"},
     local_visualization |-> {}][fn]

NextPublicEvalTime == IF UseSameTimeScale THEN lastPublic + Interval ELSE lastPublic

RemainingTime == startedAt + Duration - now

\* Mutant of CheckBefore: a field that is used up still admits a call.
CheckBefore_Inclusive(fn) ==
    /\ RemainingTime > 0
    /\ \A f \in CheckFields(fn) : usage[f] <= Maximum[f]
    /\ UseSameTimeScale /\ fn = "public_eval" => now >= NextPublicEvalTime

CheckBefore(fn) ==
    /\ RemainingTime > 0
    /\ \A f \in CheckFields(fn) : usage[f] < Maximum[f]
    /\ UseSameTimeScale /\ fn = "public_eval" => now >= NextPublicEvalTime

\* Mutant of CheckAfter: an overrun is not noticed.
CheckAfter_Skipped(fn, used) == TRUE

CheckAfter(fn, used) == \A f \in CheckFields(fn) : used[f] <= Maximum[f]

\* Mutant of SessionFinished: the deadline alone ends the session.
SessionFinished_DeadlineOnly == IF RemainingTime > 0 THEN "False" ELSE "raises"

\* The property session_finished: it has no way to return TRUE.
SessionFinished == IF CheckBefore("private_eval") THEN "False" ELSE "raises"

\* What a returning run of fn on n cases with execution time e is charged.
Charge(fn, n, e) ==
    [num_case_gen |-> IF fn = "case_gen" THEN n ELSE 0,
     num_case_eval |-> IF fn = "case_eval" THEN n ELSE 0,
     num_call_public_eval |-> IF fn = "public_eval" THEN 1 ELSE 0,
     num_call_private_eval |-> IF fn = "private_eval" THEN 1 ELSE 0,
     execution_time_case_eval |-> IF fn \in {"code_run", "case_eval"} THEN e ELSE 0]

Plus(u, v) == [f \in Fields |-> u[f] + v[f]]

-----------------------------------------------------------------------------
(* A call, from the entry of the method to its return or its exception.    *)

Enter(fn, n) ==
    /\ alive
    /\ call = Idle
    /\ call' = [op |-> fn, n |-> n, stage |-> "entered", composite |-> FALSE]
    /\ UNCHANGED <<now, alive, memory, saved>>

\* _check_session_finished, the check of the function, the argument checks.
\* case_gen_eval then calls case_gen, which checks again by itself.
Admit ==
    /\ call.stage = "entered"
    /\ SessionFinished = "False"
    /\ CheckBefore(call.op)
    /\ call' = IF call.op = "case_gen_eval"
               THEN [op |-> "case_gen", n |-> call.n, stage |-> "entered", composite |-> TRUE]
               ELSE [call EXCEPT !.stage = "admitted"]
    /\ UNCHANGED <<now, alive, memory, saved>>

\* A check raises.  The arguments a composite call passes on are valid already.
Refuse ==
    /\ call.stage = "entered"
    /\ call.composite => ~(SessionFinished = "False" /\ CheckBefore(call.op))
    /\ call' = Idle
    /\ UNCHANGED <<now, alive, memory, saved>>

\* The evaluations stamp their time before they run, and keep it if they raise.
Launch ==
    /\ call.stage = "admitted"
    /\ call' = [call EXCEPT !.stage = "running"]
    /\ lastPublic' = IF call.op = "public_eval" THEN now ELSE lastPublic
    /\ lastPrivate' = IF call.op = "private_eval" THEN now ELSE lastPrivate
    /\ UNCHANGED <<now, alive, usage, logged, lastLogged, startedAt, saved>>

RunRaises ==
    /\ call.stage = "running"
    /\ call' = Idle
    /\ UNCHANGED <<now, alive, memory, saved>>

\* The charge stands whatever follows; an overrun raises, so that nothing is
\* logged or returned.  The second half of case_gen_eval follows the first.
RunReturns(e) ==
    LET charge == Charge(call.op, call.n, e)
        within == CheckAfter(call.op, Plus(usage, charge))
    IN  /\ call.stage = "running"
        /\ call.op = "case_gen" => call.n > 0
        /\ call.n = 0 => e = 0
        /\ usage' = Plus(usage, charge)
        /\ logged' = IF within THEN Plus(logged, charge) ELSE logged
        /\ lastLogged' = IF within THEN call.op ELSE lastLogged
        /\ call' = IF within /\ call.composite /\ call.op = "case_gen"
                   THEN [op |-> "case_eval", n |-> call.n, stage |-> "entered", composite |-> TRUE]
                   ELSE Idle
        /\ UNCHANGED <<now, alive, startedAt, lastPublic, lastPrivate, saved>>

-----------------------------------------------------------------------------
(* save opens the file for writing, which empties it, then dumps the state. *)

SaveOpen ==
    /\ UsesSave
    /\ alive
    /\ call = Idle
    /\ call' = Saving
    /\ saved' = Torn
    /\ UNCHANGED <<now, alive, memory>>

SaveDump ==
    /\ call = Saving
    /\ call' = Idle
    /\ saved' = [kind |-> "session", usage |-> usage, logged |-> logged,
                 lastLogged |-> lastLogged, startedAt |-> startedAt,
                 pausedAt |-> now, lastPublic |-> lastPublic, lastPrivate |-> lastPrivate]
    /\ UNCHANGED <<now, alive, memory>>

\* The process ends or is killed: its memory is gone, the file stays.
Crash ==
    /\ alive
    /\ alive' = FALSE
    /\ call' = Idle
    /\ usage' = ZeroUsage
    /\ logged' = ZeroUsage
    /\ lastLogged' = "none"
    /\ startedAt' = Epoch
    /\ lastPublic' = Epoch
    /\ lastPrivate' = Epoch
    /\ UNCHANGED <<now, saved>>

\* start(): a new session of its own.
Start ==
    /\ ~alive
    /\ alive' = TRUE
    /\ startedAt' = now
    /\ UNCHANGED <<now, usage, logged, lastLogged, lastPublic, lastPrivate, call, saved>>

\* Mutants of Shifted: the times are not carried over; they are carried over
\* unmoved.
Shifted_Dropped(last) == Epoch
Shifted_Unmoved(last) == last
Shifted(last) ==
    IF last >= saved.startedAt
    THEN (now - (saved.pausedAt - saved.startedAt)) + (last - saved.startedAt)
    ELSE Epoch

\* restart(): the time the session had used up moves its start back, and the
\* times of its last evaluations with it.
Restart ==
    /\ ~alive
    /\ saved.kind = "session"
    /\ alive' = TRUE
    /\ usage' = saved.usage
    /\ logged' = saved.logged
    /\ lastLogged' = saved.lastLogged
    /\ startedAt' = now - (saved.pausedAt - saved.startedAt)
    /\ lastPublic' = Shifted(saved.lastPublic)
    /\ lastPrivate' = Shifted(saved.lastPrivate)
    /\ UNCHANGED <<now, call, saved>>

Tick ==
    /\ now < MaxNow
    /\ now' = now + 1
    /\ UNCHANGED <<alive, memory, call, saved>>

-----------------------------------------------------------------------------

Init ==
    /\ now = Boot
    /\ alive = TRUE
    /\ usage = ZeroUsage
    /\ logged = ZeroUsage
    /\ lastLogged = "none"
    /\ startedAt = Boot
    /\ lastPublic = Epoch
    /\ lastPrivate = Epoch
    /\ call = Idle
    /\ saved = NoFile

\* code_run takes one input and the evaluations their own seeds; the other
\* functions take as many seeds or inputs as the caller passes.
Batch(fn) == IF fn \in {"case_gen", "case_eval", "case_gen_eval"} THEN 0..MaxBatch ELSE {1}

Next ==
    \/ \E fn \in Functions : \E n \in Batch(fn) : Enter(fn, n)
    \/ Admit
    \/ Refuse
    \/ Launch
    \/ RunRaises
    \/ \E e \in 0..MaxExec : RunReturns(e)
    \/ SaveOpen
    \/ SaveDump
    \/ Crash
    \/ Start
    \/ Restart
    \/ Tick

Spec == Init /\ [][Next]_vars

-----------------------------------------------------------------------------
(* Properties.                                                             *)

\* What the action log records was paid for and stays within the budget, field
\* by field, whatever calls raised or overran before.
LogWithinBudget ==
    \A f \in Fields : logged[f] <= usage[f] /\ logged[f] <= Maximum[f]

\* The private evaluation is taken at most once and is the last result of its
\* session, restarts included: nothing is logged or charged behind it.
PrivateEndsSession ==
    /\ usage["num_call_private_eval"] <= 1
    /\ usage["num_call_private_eval"] = 1 <=> lastLogged = "private_eval"
    /\ usage["num_call_private_eval"] = 1 => call.stage \notin {"admitted", "running"}

\* A budget is overrun by one last call at most: no field ever exceeds its
\* maximum by as much as the largest charge one call can make.
LargestCharge ==
    [num_case_gen |-> MaxBatch, num_case_eval |-> MaxBatch,
     num_call_public_eval |-> 1, num_call_private_eval |-> 1,
     execution_time_case_eval |-> MaxExec]

OverrunByOneCall ==
    \A f \in Fields :
        \/ usage[f] <= Maximum[f]
        \/ usage[f] < Maximum[f] + LargestCharge[f]

\* With the contest's time scale, the public evaluations charged so far and the
\* one running are spaced by the submission interval in session time, so that
\* their number is bounded by the time used; saving and restarting the session
\* gains nothing.
PublicRate ==
    UseSameTimeScale /\ alive /\ usage["num_call_public_eval"] > 0 =>
        (usage["num_call_public_eval"] - 1) * Interval <= now - startedAt

\* The reading of session_finished that docs/session_object.md gives: TRUE once
\* the session is over, by time or by resources.
ConcludedReadsTrue ==
    alive /\ (RemainingTime <= 0 \/ usage["num_call_private_eval"] = 1)
        => SessionFinished = "True"

\* The session as SessionBudget sees it.  While no process holds it, it looks
\* like a session that has not begun.
SessionOffset(t) == IF t >= startedAt THEN t - startedAt ELSE -1

Budget == INSTANCE SessionBudget WITH
    Rated <- UseSameTimeScale,
    Private <- "num_call_private_eval",
    Public <- "num_call_public_eval",
    Never <- -1,
    elapsed <- IF alive THEN now - startedAt ELSE 0,
    spent <- usage,
    credited <- logged,
    lastBegun <- IF alive THEN SessionOffset(lastPublic) ELSE -1,
    pending <- call.op = "public_eval" /\ call.stage = "running",
    snapshot <- IF saved.kind = "session"
                THEN {[elapsed |-> saved.pausedAt - saved.startedAt,
                      spent |-> saved.usage,
                      credited |-> saved.logged,
                      lastBegun |-> IF saved.lastPublic >= saved.startedAt
                                    THEN saved.lastPublic - saved.startedAt ELSE -1]}
                ELSE {}

\* The session keeps the promises of SessionBudget: each of its steps is a
\* step of that specification or leaves its state alone.
ImplementsBudget == Budget!Spec

-----------------------------------------------------------------------------
(* The inductive invariant behind the properties.  Each part is stated for *)
(* the session in memory and, in the same words, for the saved one.        *)

Ledger(used, log, last) ==
    /\ \A f \in Fields : log[f] <= used[f] /\ log[f] <= Maximum[f]
    /\ \A f \in Fields : used[f] <= Maximum[f] \/ used[f] < Maximum[f] + LargestCharge[f]
    /\ used["num_call_private_eval"] <= 1
    /\ used["num_call_private_eval"] = 1 <=> last = "private_eval"

Stamps(start, public, until) ==
    /\ Boot <= start
    /\ start <= until
    /\ public = Epoch \/ start <= public
    /\ public <= until

Spaced(used, start, public) ==
    UseSameTimeScale /\ used["num_call_public_eval"] > 0 =>
        /\ start <= public
        /\ (used["num_call_public_eval"] - 1) * Interval <= public - start

\* A call that passed its checks still has room in every field it is checked on.
AdmittedHasRoom ==
    call.stage \in {"admitted", "running"} =>
        /\ call.op # "case_gen_eval"
        /\ usage["num_call_private_eval"] < 1
        /\ \A f \in CheckFields(call.op) : usage[f] < Maximum[f]

\* An admitted public evaluation is due, and so is a running one when it began.
PublicIsDue ==
    UseSameTimeScale /\ call.op = "public_eval" =>
        /\ call.stage = "admitted" =>
              /\ usage["num_call_public_eval"] * Interval <= now - startedAt
              /\ lastPublic # Epoch => lastPublic + Interval <= now
        /\ call.stage = "running" =>
              usage["num_call_public_eval"] * Interval <= lastPublic - startedAt

DownIsBlank ==
    ~alive =>
        /\ call = Idle
        /\ usage = ZeroUsage
        /\ logged = ZeroUsage
        /\ lastLogged = "none"
        /\ lastPublic = Epoch

LiveStamps ==
    /\ alive => Stamps(startedAt, lastPublic, now)
    /\ call.op = "public_eval" /\ call.stage = "running" => startedAt <= lastPublic

SavedIsSound ==
    saved.kind = "session" =>
        /\ Stamps(saved.startedAt, saved.lastPublic, saved.pausedAt)
        /\ saved.pausedAt <= now
        /\ Ledger(saved.usage, saved.logged, saved.lastLogged)
        /\ Spaced(saved.usage, saved.startedAt, saved.lastPublic)

SessionInv ==
    /\ TypeOK
    /\ Boot <= now
    /\ DownIsBlank
    /\ LiveStamps
    /\ Ledger(usage, logged, lastLogged)
    /\ Spaced(usage, startedAt, lastPublic)
    /\ AdmittedHasRoom
    /\ PublicIsDue
    /\ SavedIsSound

=============================================================================
