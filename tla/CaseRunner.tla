----------------------------- MODULE CaseRunner ------------------------------
(***************************************************************************)
(* The calls that run commands in Docker containers.  run_cases compiles,  *)
(* then takes every input through the containers that run and judge it, on *)
(* a thread pool or one after the other, with reusable containers or one   *)
(* container per command (tool_wrappers/case_runner.py,                    *)
(* reusable_container_pool.py).  run_code, generate_inputs and             *)
(* local_visualization are the same machine with fewer parts               *)
(* (code_runner.py, input_generation.py, local_visualization.py).          *)
(*                                                                         *)
(* What a command computes is abstracted to the outcome of each visit a    *)
(* case pays to a container.  Docker is external: it may refuse to create  *)
(* or to remove a container, and a container may die under its case.       *)
(***************************************************************************)
EXTENDS Naturals, Sequences, FiniteSets, SequencesExt

CONSTANT
    Settings        \* the calls there are: see setting

VisitKinds == {"run", "judge", "reactive", "vis", "gen"}
Wrappers == {"run_cases", "code_run", "generate_inputs", "local_visualization"}

ASSUME CaseRunnerAssumption ==
    \A s \in Settings :
          /\ s.wrapper \in Wrappers
          /\ {s.cases, s.workers} \subseteq Nat \ {0}
          /\ s.wrapper \in {"code_run", "generate_inputs"} => s.cases = 1
          /\ s.reuse => s.wrapper = "run_cases"
          /\ s.visits \in Seq(VisitKinds) \ {<<>>}
          /\ {s.reuse, s.createMayFail, s.removeMayFail} \subseteq BOOLEAN

VARIABLES
    setting,    \* the arguments of the call, and what Docker may refuse during it
    phase,      \* where the call stands
    raising,    \* an exception is on its way out of the call
    job,        \* the future of each case
    results,    \* case_results
    queue,      \* _available_containers of each pool
    owned,      \* _containers of each pool
    created,    \* how many containers were ever created; their names are 1..created
    docker,     \* the containers that exist
    unremoved,  \* those among them whose removal was refused
    unstarted   \* those whose start was refused: created, and nobody's

vars == <<setting, phase, raising, job, results,
          queue, owned, created, docker, unremoved, unstarted>>
poolVars == <<queue, owned, created, docker, unremoved, unstarted>>

\* The calls of each wrapper.  Its container may not be created (c) or removed (r).
RunCases(cases, workers, visits, reuse, c, r) ==
    [wrapper |-> "run_cases", cases |-> cases, workers |-> workers, visits |-> visits,
     reuse |-> reuse, createMayFail |-> c, removeMayFail |-> r]
CodeRun(c, r) == [RunCases(1, 1, <<"run">>, FALSE, c, r) EXCEPT !.wrapper = "code_run"]
GenerateInputs(c, r) ==
    [RunCases(1, 1, <<"gen">>, FALSE, c, r) EXCEPT !.wrapper = "generate_inputs"]
LocalVisualization(cases, workers, c, r) ==
    [RunCases(cases, workers, <<"vis">>, FALSE, c, r) EXCEPT !.wrapper = "local_visualization"]

NumCases == setting.cases
NumWorkers == setting.workers
Visits == setting.visits    \* the commands a case runs: run, judge, vis, or some of them
Reuse == setting.reuse
CreateMayFail == setting.createMayFail
RemoveMayFail == setting.removeMayFail

Cases == 1..NumCases
Pools == <<"submission", "tool">>
PoolOf(kind) == IF kind \in {"run", "reactive"} THEN "submission" ELSE "tool"
UsesPool(p) == Reuse /\ \E i \in DOMAIN Visits : PoolOf(Visits[i]) = p
PoolSize == IF NumCases < NumWorkers THEN NumCases ELSE NumWorkers
Sequential == NumCases = 1 \/ NumWorkers = 1

Nothing == [case |-> 0, verdict |-> "none"]
Verdicts == {"AC", "rejected", "CE", "IE"}
Outcomes == {"none", "ok", "rejected", "internal", "error", "broken"}
Phases == {"compile", "compiling", "enter_submission", "enter_tool", "cases",
           "exit_tool", "exit_submission", "returned", "raised"}

QueuedJob == [pc |-> "queued", visit |-> 1, con |-> 0, outcome |-> "none"]

TypeOK ==
    /\ setting \in Settings
    /\ phase \in Phases
    /\ raising \in BOOLEAN
    /\ job \in [Cases -> [pc : {"queued", "ready", "exec", "release", "recreate",
                                "finished", "collected"},
                          visit : 1..Len(Visits),
                          con : 0..created,
                          outcome : Outcomes]]
    /\ results \in [Cases -> [case : Cases \cup {0}, verdict : Verdicts \cup {"none"}]]
    /\ queue \in [ToSet(Pools) -> Seq(1..created)]
    /\ owned \in [ToSet(Pools) -> SUBSET (1..created)]
    /\ created \in Nat
    /\ unremoved \subseteq docker
    /\ unstarted \subseteq docker
    /\ docker \subseteq 1..created

Init ==
    /\ setting \in Settings
    /\ phase = "compile"
    /\ raising = FALSE
    /\ job = [c \in Cases |-> QueuedJob]
    /\ results = [c \in Cases |-> Nothing]
    /\ queue = [p \in ToSet(Pools) |-> <<>>]
    /\ owned = [p \in ToSet(Pools) |-> {}]
    /\ created = 0
    /\ docker = {}
    /\ unremoved = {}
    /\ unstarted = {}

-----------------------------------------------------------------------------
(* Docker.                                                                 *)

NewContainer == created + 1

\* containers.run creates a container and then starts it.
Create ==
    /\ created' = NewContainer
    /\ docker' = docker \cup {NewContainer}

\* It raises on either: the caller gets no container, but one that was created and
\* not started stays, and no pool and no finally clause knows it.
CreateRaises ==
    /\ CreateMayFail
    /\ \/ UNCHANGED <<created, docker, unstarted>>
       \/ Create /\ unstarted' = unstarted \cup {NewContainer}
    /\ UNCHANGED <<queue, owned, unremoved>>

\* _create_container, for pool p.
CreateFor(p) ==
    /\ Create
    /\ owned' = [owned EXCEPT ![p] = @ \cup {NewContainer}]
    /\ queue' = [queue EXCEPT ![p] = Append(@, NewContainer)]
    /\ UNCHANGED <<unremoved, unstarted>>

\* Removing the containers S: the refused ones stay.
RemoveContainers(S) ==
    \E refused \in IF RemoveMayFail THEN SUBSET S ELSE {{}} :
        /\ docker' = docker \ (S \ refused)
        /\ unremoved' = unremoved \cup refused
        /\ UNCHANGED unstarted

-----------------------------------------------------------------------------
(* The call, up to the first case.                                         *)

Compiles == setting.wrapper \in {"run_cases", "code_run"}

NoCompile ==
    /\ phase = "compile"
    /\ ~Compiles
    /\ phase' = "enter_submission"
    /\ UNCHANGED <<setting, raising, job, results, poolVars>>

CompileStarts ==
    /\ phase = "compile"
    /\ Compiles
    /\ phase' = "compiling"
    /\ Create
    /\ UNCHANGED <<setting, raising, job, results, queue, owned, unremoved, unstarted>>

CompileNotStarted ==
    /\ phase = "compile"
    /\ Compiles
    /\ CreateRaises
    /\ phase' = "raised"
    /\ raising' = TRUE
    /\ UNCHANGED <<setting, job, results>>

\* A compiler that fails, or whose wait raises, is a compile error; only its logs
\* may raise out of the call.
CompileOutcomes == {"ok", "rejected", "error"}

\* The container is removed whatever the compiler did; an exception of its own
\* or of the removal leaves the call.  The one compile error is every case's
\* result, and no other container is started.
CompileEnds(outcome) ==
    /\ phase = "compiling"
    /\ RemoveContainers({created})
    /\ LET end == IF unremoved' = unremoved THEN outcome ELSE "error"
       IN  /\ phase' = CASE end = "ok" -> "enter_submission"
                         [] end = "rejected" -> "returned"
                         [] end = "error" -> "raised"
           /\ raising' = (end = "error")
           /\ results' = IF end = "rejected"
                         THEN [c \in Cases |-> [case |-> c, verdict |-> "CE"]]
                         ELSE results
    /\ UNCHANGED <<setting, job, queue, owned, created>>

EnterPhase(p) == IF p = "submission" THEN "enter_submission" ELSE "enter_tool"

\* __enter__ creates the containers one by one.
EnterCreates(p) ==
    /\ phase = EnterPhase(p)
    /\ UsesPool(p)
    /\ Cardinality(owned[p]) < PoolSize
    /\ CreateFor(p)
    /\ UNCHANGED <<setting, phase, raising, job, results>>

EnterDone(p) ==
    /\ phase = EnterPhase(p)
    /\ UsesPool(p) => Cardinality(owned[p]) = PoolSize
    /\ phase' = IF p = "submission" THEN "enter_tool" ELSE "cases"
    /\ UNCHANGED <<setting, raising, job, results, poolVars>>

\* The with statement does not call __exit__ on the pool whose __enter__ raises:
\* its containers stay.  A pool entered before it is exited.
EnterFails(p) ==
    /\ phase = EnterPhase(p)
    /\ UsesPool(p)
    /\ Cardinality(owned[p]) < PoolSize
    /\ CreateRaises
    /\ raising' = TRUE
    /\ phase' = IF p = "submission" THEN "raised" ELSE "exit_submission"
    /\ UNCHANGED <<setting, job, results>>

-----------------------------------------------------------------------------
(* case_iter_func, on a thread of the executor or on the caller's.         *)

Active == {c \in Cases : job[c].pc \notin {"queued", "finished", "collected"}}
Settled(c) == job[c].pc \in {"finished", "collected"}

\* The executor hands the cases out in order, one per thread; without it the
\* next case waits for the result of the one before.
StartCase(c) ==
    /\ phase = "cases"
    /\ ~raising
    /\ job[c].pc = "queued"
    /\ \A d \in 1..(c - 1) : job[d].pc # "queued"
    /\ IF Sequential
       THEN \A d \in 1..(c - 1) : job[d].pc = "collected"
       ELSE Cardinality(Active) < NumWorkers
    /\ job' = [job EXCEPT ![c].pc = "ready"]
    /\ UNCHANGED <<setting, phase, raising, results, poolVars>>

Pool(c) == PoolOf(Visits[job[c].visit])

\* Mutant: looks at the first available container instead of taking it out.
Take_Peeks(c) ==
    /\ Reuse
    /\ job[c].pc = "ready"
    /\ queue[Pool(c)] # <<>>
    /\ job' = [job EXCEPT ![c] = [@ EXCEPT !.pc = "exec", !.con = Head(queue[Pool(c)])]]
    /\ UNCHANGED <<setting, phase, raising, results, poolVars>>

\* Queue.get: blocks, without a timeout, while no container is available.
Take(c) ==
    /\ Reuse
    /\ job[c].pc = "ready"
    /\ queue[Pool(c)] # <<>>
    /\ job' = [job EXCEPT ![c] = [@ EXCEPT !.pc = "exec", !.con = Head(queue[Pool(c)])]]
    /\ queue' = [queue EXCEPT ![Pool(c)] = Tail(@)]
    /\ UNCHANGED <<setting, phase, raising, results, owned, created, docker, unremoved, unstarted>>

\* Without reuse every command has a container of its own.
RunOwn(c) ==
    /\ ~Reuse
    /\ job[c].pc = "ready"
    /\ Create
    /\ job' = [job EXCEPT ![c] = [@ EXCEPT !.pc = "exec", !.con = NewContainer]]
    /\ UNCHANGED <<setting, phase, raising, results, queue, owned, unremoved, unstarted>>

\* The try whose finally clause removes the container begins behind its start.
RunOwnFails(c) ==
    /\ ~Reuse
    /\ job[c].pc = "ready"
    /\ CreateRaises
    /\ job' = [job EXCEPT ![c] = [@ EXCEPT !.pc = "finished", !.outcome = "error"]]
    /\ UNCHANGED <<setting, phase, raising, results>>

\* What a command can come to: what the next step needs ("ok"), a value that
\* ends the case ("rejected"), a value the code raises on ("error"), an exception
\* of Docker itself ("broken"), and the internal error that only run_cases makes
\* of a profile with impossible values.
JudgedOutcomes(kind) ==
    {"ok", "rejected", "error", "broken"}
      \cup {o \in {"internal"} : kind \in {"run", "reactive"}}
CodeRunOutcomes == {"ok", "rejected", "error", "broken"}
GenOutcomes == {"ok", "error", "broken"}

\* An empty picture is an error for run_cases, and no image for the other.
VisOutcomes ==
    {"ok", "error", "broken"}
      \cup {o \in {"rejected"} : setting.wrapper = "local_visualization"}

OutcomesOf(kind) ==
    CASE kind = "vis" -> VisOutcomes
      [] kind = "gen" -> GenOutcomes
      [] kind = "run" /\ setting.wrapper = "code_run" -> CodeRunOutcomes
      [] OTHER -> JudgedOutcomes(kind)

ExecEnds(c) ==
    /\ job[c].pc = "exec"
    /\ \E outcome \in OutcomesOf(Visits[job[c].visit]) :
          job' = [job EXCEPT ![c] = [@ EXCEPT !.pc = "release", !.outcome = outcome]]
    /\ UNCHANGED <<setting, phase, raising, results, poolVars>>

\* What the case does once its container is back.
NextVisit(j) ==
    IF j.outcome = "ok" /\ j.visit < Len(Visits)
    THEN [pc |-> "ready", visit |-> j.visit + 1, con |-> 0, outcome |-> "none"]
    ELSE [j EXCEPT !.pc = "finished", !.con = 0]

\* Mutant: a container is put back only after a success.
GiveBack_OnSuccessOnly(c) ==
    /\ Reuse
    /\ job[c].pc = "release"
    /\ job[c].outcome # "broken"
    /\ queue' = IF job[c].outcome = "ok"
                THEN [queue EXCEPT ![Pool(c)] = Append(@, job[c].con)]
                ELSE queue
    /\ job' = [job EXCEPT ![c] = NextVisit(@)]
    /\ UNCHANGED <<setting, phase, raising, results, owned, created, docker, unremoved, unstarted>>

\* A container that is in order goes back to the queue.
GiveBack(c) ==
    /\ Reuse
    /\ job[c].pc = "release"
    /\ job[c].outcome # "broken"
    /\ queue' = [queue EXCEPT ![Pool(c)] = Append(@, job[c].con)]
    /\ job' = [job EXCEPT ![c] = NextVisit(@)]
    /\ UNCHANGED <<setting, phase, raising, results, owned, created, docker, unremoved, unstarted>>

\* One that Docker failed on, or that no longer runs, is removed and dropped.
Discard(c) ==
    /\ Reuse
    /\ job[c].pc = "release"
    /\ RemoveContainers({job[c].con})
    /\ owned' = [owned EXCEPT ![Pool(c)] = @ \ {job[c].con}]
    /\ job' = [job EXCEPT ![c] = [@ EXCEPT !.pc = "recreate", !.con = 0]]
    /\ UNCHANGED <<setting, phase, raising, results, queue, created>>

Replace(c) ==
    /\ job[c].pc = "recreate"
    /\ CreateFor(Pool(c))
    /\ job' = [job EXCEPT ![c] = NextVisit(@)]
    /\ UNCHANGED <<setting, phase, raising, results>>

\* No replacement: the pool is smaller from now on, and the exception takes the
\* place of the result the case already had.
ReplaceFails(c) ==
    /\ job[c].pc = "recreate"
    /\ CreateRaises
    /\ job' = [job EXCEPT ![c] = [@ EXCEPT !.pc = "finished", !.outcome = "error"]]
    /\ UNCHANGED <<setting, phase, raising, results>>

\* The finally clause of the single-use container.  Its removal is not guarded.
RemoveOwn(c) ==
    /\ ~Reuse
    /\ job[c].pc = "release"
    /\ RemoveContainers({job[c].con})
    /\ job' = [job EXCEPT ![c] =
                  IF unremoved' = unremoved
                  THEN NextVisit(@)
                  ELSE [@ EXCEPT !.pc = "finished", !.con = 0, !.outcome = "error"]]
    /\ UNCHANGED <<setting, phase, raising, results, queue, owned, created>>

-----------------------------------------------------------------------------
(* The call, from the first result on.                                     *)

Verdict(outcome) ==
    CASE outcome = "ok" -> "AC"
      [] outcome # "ok" /\ setting.wrapper = "local_visualization" -> "none"
      [] outcome = "rejected" -> "rejected"
      [] outcome \in {"internal", "error", "broken"} -> "IE"

\* Mutant: results are appended as they come.
Collect_InCompletionOrder(c) ==
    /\ phase = "cases"
    /\ job[c].pc = "finished"
    /\ job' = [job EXCEPT ![c].pc = "collected"]
    /\ results' = [results EXCEPT
                      ![1 + Cardinality({d \in Cases : job[d].pc = "collected"})] =
                          [case |-> c, verdict |-> Verdict(job[c].outcome)]]
    /\ UNCHANGED <<setting, phase, raising, poolVars>>

\* Mutant: the exception of a case is raised again on the thread pool too.
Collect_Raises(c) ==
    /\ phase = "cases"
    /\ job[c].pc = "finished"
    /\ job' = [job EXCEPT ![c].pc = "collected"]
    /\ IF job[c].outcome \in {"error", "broken"}
       THEN raising' = TRUE /\ phase' = "exit_tool" /\ UNCHANGED results
       ELSE /\ results' = [results EXCEPT ![c] = [case |-> c, verdict |-> Verdict(job[c].outcome)]]
            /\ UNCHANGED <<raising, phase>>
    /\ UNCHANGED <<setting, poolVars>>

\* Mutant: an exception leaves run_cases past the exit of the pools.
Collect_PastTheExits(c) ==
    /\ phase = "cases"
    /\ job[c].pc = "finished"
    /\ job' = [job EXCEPT ![c].pc = "collected"]
    /\ IF Sequential /\ job[c].outcome \in {"error", "broken"}
       THEN raising' = TRUE /\ phase' = "raised" /\ UNCHANGED results
       ELSE /\ results' = [results EXCEPT ![c] = [case |-> c, verdict |-> Verdict(job[c].outcome)]]
            /\ UNCHANGED <<raising, phase>>
    /\ UNCHANGED <<setting, poolVars>>

\* as_completed, in any order, or the loop over the inputs; there an exception
\* ends run_cases instead of becoming the result of its case.
Collect(c) ==
    /\ phase = "cases"
    /\ job[c].pc = "finished"
    /\ job' = [job EXCEPT ![c].pc = "collected"]
    /\ IF Sequential /\ job[c].outcome \in {"error", "broken"}
       THEN /\ raising' = TRUE
            /\ phase' = "exit_tool"
            /\ UNCHANGED results
       ELSE /\ results' = [results EXCEPT ![c] = [case |-> c, verdict |-> Verdict(job[c].outcome)]]
            /\ UNCHANGED <<raising, phase>>
    /\ UNCHANGED <<setting, poolVars>>

CasesDone ==
    /\ phase = "cases"
    /\ \A c \in Cases : job[c].pc = "collected"
    /\ phase' = "exit_tool"
    /\ UNCHANGED <<setting, raising, job, results, poolVars>>

\* __exit__, the tool pool first; the pool and its queue are dropped.
Exit(p) ==
    /\ phase = IF p = "tool" THEN "exit_tool" ELSE "exit_submission"
    /\ RemoveContainers(owned[p])
    /\ owned' = [owned EXCEPT ![p] = {}]
    /\ queue' = [queue EXCEPT ![p] = <<>>]
    /\ phase' = CASE p = "tool" -> "exit_submission"
                  [] p = "submission" /\ raising -> "raised"
                  [] OTHER -> "returned"
    /\ UNCHANGED <<setting, raising, job, results, created>>

Ended == phase \in {"returned", "raised"}

\* The next call is a new one; this one is over.
Over == Ended /\ UNCHANGED vars

Next ==
    \/ NoCompile
    \/ CompileStarts
    \/ CompileNotStarted
    \/ \E outcome \in CompileOutcomes : CompileEnds(outcome)
    \/ \E p \in ToSet(Pools) :
          \/ EnterCreates(p)
          \/ EnterDone(p)
          \/ EnterFails(p)
          \/ Exit(p)
    \/ \E c \in Cases :
          \/ StartCase(c)
          \/ Take(c)
          \/ RunOwn(c)
          \/ RunOwnFails(c)
          \/ ExecEnds(c)
          \/ GiveBack(c)
          \/ Discard(c)
          \/ Replace(c)
          \/ ReplaceFails(c)
          \/ RemoveOwn(c)
          \/ Collect(c)
    \/ CasesDone
    \/ Over

\* Every thread keeps running and every command ends: the compiler, gen and vis
\* under the timeout of their wait, the submission under that of its command
\* line, the judge by itself.
Fairness ==
    /\ WF_vars(NoCompile \/ CompileStarts)
    /\ WF_vars(\E outcome \in CompileOutcomes : CompileEnds(outcome))
    /\ \A p \in ToSet(Pools) : WF_vars(EnterCreates(p) \/ EnterDone(p)) /\ WF_vars(Exit(p))
    /\ \A c \in UNION {1..s.cases : s \in Settings} :
          /\ WF_vars(c \in Cases /\ StartCase(c))
          /\ WF_vars(c \in Cases /\ Take(c))
          /\ WF_vars(c \in Cases /\ RunOwn(c))
          /\ WF_vars(c \in Cases /\ ExecEnds(c))
          /\ WF_vars(c \in Cases /\ (GiveBack(c) \/ Discard(c) \/ RemoveOwn(c)))
          /\ WF_vars(c \in Cases /\ (Replace(c) \/ ReplaceFails(c)))
          /\ WF_vars(c \in Cases /\ Collect(c))
    /\ WF_vars(CasesDone)

Spec == Init /\ [][Next]_vars
FairSpec == Spec /\ Fairness

-----------------------------------------------------------------------------
(* Properties.                                                             *)

Held(p) == {job[c].con : c \in {d \in Cases : job[d].con # 0 /\ Pool(d) = p}}

\* A reusable container serves one case at a time: it is in the queue once or
\* held by one case, and the pool owns exactly those.  A case that shared its
\* container would read the files and the processes of another.
ContainersExclusive ==
    /\ \A c, d \in Cases : c # d /\ job[c].con # 0 => job[c].con # job[d].con
    /\ \A p \in ToSet(Pools) :
          /\ IsInjective(queue[p])
          /\ ToSet(queue[p]) \cap Held(p) = {}
          /\ Reuse => owned[p] = ToSet(queue[p]) \cup Held(p)

AllQueued == \A c \in Cases : job[c].pc = "queued"

\* When the call is over, no container is left but those Docker refused to remove
\* or to start, whatever the compiler and the cases ended in; only a pool whose
\* __enter__ raised halfway, before any case, leaves the containers it had, and only
\* that one pool.  A container that was not started is never left silently: a case
\* ended in the exception, or the call did.
NoStraysLeft ==
    Ended =>
        /\ \/ docker = unremoved \cup unstarted
           \/ /\ raising /\ Reuse /\ AllQueued
              /\ \E p \in ToSet(Pools) : docker = unremoved \cup unstarted \cup owned[p]
        /\ unstarted # {} => raising \/ \E c \in Cases : job[c].outcome = "error"

\* A returned list has one verdict per input, at the index of that input, and
\* nothing but what the case itself ended in.
ResultsMatchCases ==
    phase = "returned" =>
        \A c \in Cases :
            /\ results[c].case = c
            /\ results[c].verdict = IF Settled(c) THEN Verdict(job[c].outcome) ELSE "CE"

Recreating(p) == {c \in Cases : job[c].pc = "recreate" /\ Pool(c) = p}
Failed == {c \in Cases : Settled(c) /\ job[c].outcome = "error"}

ExceptionsStay == ~Sequential /\ raising => AllQueued
LosesOnePerFailure ==
    phase = "cases" =>
        \A p \in ToSet(Pools) : UsesPool(p) =>
            PoolSize <= Cardinality(owned[p]) + Cardinality(Recreating(p)) + Cardinality(Failed)

\* Where several threads run, the exception of one case is that case's result: once a
\* case has started, no exception leaves the call.  What it may cost the others is a
\* container, and each case at most one: a pool still has, or is about to have, all
\* but as many as there are cases that ended in an error.  So the cases still to come
\* find a container as long as fewer have failed than the pool has workers (one that
\* lost them all hangs: see EndsUnlessDrained).
OneCaseNeverFailsTheOthers == ExceptionsStay /\ LosesOnePerFailure

\* The pool keeps its size while cases run: what the docstrings of the two pool
\* classes call a fixed-size pool.
FixedSize ==
    phase = "cases" =>
        \A p \in ToSet(Pools) : UsesPool(p) =>
            Cardinality(owned[p]) + Cardinality(Recreating(p)) = PoolSize

\* Every call ends, or a pool has lost every container: then the cases still to
\* come wait for one forever.  Without threads, without pools, or with a Docker
\* that grants every replacement it always ends.
Drained(p) ==
    /\ Reuse /\ ~Sequential /\ CreateMayFail
    /\ owned[p] = {}
    /\ Recreating(p) = {}
    /\ \E c \in Cases : job[c].pc = "ready" /\ Pool(c) = p
EndsUnlessDrained == <>(Ended \/ \E p \in ToSet(Pools) : Drained(p))

-----------------------------------------------------------------------------
(* The inductive invariant behind the safety properties.                   *)

BeforeCases == {"compile", "compiling", "enter_submission", "enter_tool"}

\* What the place of a case in its visits says of it.
JobsStand ==
    \A c \in Cases :
        /\ job[c].con # 0 <=> job[c].pc \in {"exec", "release"}
        /\ job[c].pc \in {"release", "recreate", "finished", "collected"} => job[c].outcome # "none"
        /\ job[c].pc = "recreate" => Reuse
        /\ phase \in BeforeCases => job[c].pc = "queued"
        /\ phase # "cases" => job[c].pc \in {"queued", "collected"}
        /\ Sequential /\ job[c].pc # "queued" => \A d \in 1..(c - 1) : job[d].pc = "collected"

\* How the call came to stand where it does.
CallStands ==
    /\ raising => phase \in {"exit_tool", "exit_submission", "raised"}
    /\ phase = "raised" => raising
    /\ phase \in {"exit_tool", "exit_submission"} /\ ~raising => \A c \in Cases : job[c].pc = "collected"
    /\ phase \in {"cases", "exit_tool", "exit_submission"} /\ ~raising =>
          \A c \in Cases : job[c].pc = "collected" =>
              results[c] = [case |-> c, verdict |-> Verdict(job[c].outcome)]

\* Whose containers there are: those of the pools, those of the cases and the
\* compiler's; those that could not be removed or started are nobody's.
Nobodys == unremoved \cup unstarted
Serving == {job[c].con : c \in {d \in Cases : job[d].con # 0}}
Compiler == {x \in {created} : phase = "compiling"}
InUse == owned["submission"] \cup owned["tool"] \cup Serving \cup Compiler
Accounted ==
    /\ docker = Nobodys \cup InUse
    /\ Nobodys \cap InUse = {}
    /\ phase \in {"compile", "compiling"} => Nobodys = {}
    /\ owned["submission"] \cap owned["tool"] = {}
    /\ \A p \in ToSet(Pools) :
          /\ phase \in {"compile", "compiling"} \/ ~Reuse => queue[p] = <<>> /\ owned[p] = {}
          /\ owned[p] # {} => Reuse
    /\ phase \in {"exit_submission", "returned", "raised"} =>
          owned["tool"] = {} \/ (raising /\ AllQueued)
    /\ phase \in {"returned", "raised"} => owned["submission"] = {} \/ (raising /\ AllQueued)

CasesInv ==
    /\ TypeOK
    /\ JobsStand
    /\ CallStands
    /\ ContainersExclusive
    /\ Accounted
    /\ ResultsMatchCases
    /\ ExceptionsStay

\* The pools are entered one after the other, each to its full size, and what is left
\* of them is one pool's.
PoolsEntered ==
    /\ phase = "enter_submission" => owned["tool"] = {}
    /\ phase = "enter_tool" /\ UsesPool("submission") =>
          Cardinality(owned["submission"]) = PoolSize
    /\ Ended => \E p \in ToSet(Pools) : owned[p] = {}

NeverSilently == unstarted # {} => raising \/ Failed # {}

CaseRunnerInv ==
    /\ CasesInv
    /\ PoolsEntered
    /\ NeverSilently
    /\ LosesOnePerFailure

=============================================================================
