# ALE-Bench in TLA+

A verification development for the Python packages of this repository:
`ale_bench` (sessions, judging, standings), `ale_bench_mcp` (the MCP server) and
`ale_bench_eval` (the evaluation of language models). TLC checks the modules on
small instances; TLAPS checks proofs for every value of their constants.

Paths below are relative to `src/src/`; line numbers are in `PROJECT.json`,
which maps every definition to the code it models.

## 1. The system and its parts

| component | state | operations | talks to |
|---|---|---|---|
| **Session** `ale_bench/session.py`, `start.py`, `result.py` | resource usage, action log, start and last-evaluation times, `tool_dir`, the visualization server | `code_run`, `case_gen`, `case_eval`, `case_gen_eval`, `public_eval`, `private_eval`, `local_visualization`, `session_finished`, `save`, `close`; `start`, `restart` | case runner, other wrappers, the file `session.json` |
| **Case runner** `ale_bench/tool_wrappers/case_runner.py`, `reusable_container_pool.py` | a future per case, two pools of containers (a queue and an owned list each) | `run_cases`; pool `__enter__`, `run`, release, replace, `__exit__` | Docker, `ThreadPoolExecutor` |
| **Other wrappers** `code_runner.py`, `input_generation.py`, `local_visualization.py` | none of their own | one container or one thread pool per call | Docker |
| **MCP store** `ale_bench_mcp/store.py` | records in order of access, reasons of the forgotten ones, files on disk | `begin`, `finish`, `discard`, `get`, `describe`, `prune`, `add_image` | files |
| **MCP service** `ale_bench_mcp/service.py`, `server.py`, `config.py`, `schemas.py` | the open sessions | start, list, close, generate, evaluate, run code, visualize, read; `app_lifespan` | Session, store |
| **Repeated sampling** `ale_bench_eval/scaffolds.py` | a summary, a public result and a conversation per sample | `run_repeated_sampling` | model calls (threads), Session, files |
| **Self refinement** `ale_bench_eval/scaffolds.py` | a summary, a public result per iteration, the last conversation | `run_self_refinement` | the same, and the selected sample |
| **Selection** `ale_bench_eval/selection.py` | none | best, median, best of the first n | the two summaries |
| **Private evaluation** `ale_bench_eval/evaluate.py` | a cached private result per solution name | `run_private_evaluation` | Session, files |
| **Entry point** `ale_bench_eval/__main__.py` | settings file, results file, final results | `main`, `evaluate_contest`, problems in parallel | everything above |
| **Shared loop** `ale_bench_eval/shared_async_loop.py` | one event loop, one thread | `shared_async_loop`, `run`, `shutdown` | model clients, `atexit` |
| **Standings** `ale_bench/data.py` | frozen tables | rank, performance, rating | Session (`private_eval`) |
| **Reports, prompts, languages, images** | none | tables, templates, lookups | - |

How they interact. A caller (an agent, the MCP service, or `evaluate_contest`)
owns a *session* and calls its metered functions one after the other; each one
checks the budget, runs a wrapper, charges, checks again and logs. The wrappers
start containers; `run_cases` does so on a thread pool with two shared container
pools. The *MCP service* keeps what its sessions return in the bounded *store*.
`evaluate_contest` is a pipeline over files: repeated sampling, selection, self
refinement, selection again, private evaluation. A run may be killed anywhere,
and the next one starts from the files.

What is hard, and what makes each part correct:

* *Session*: a run that overruns its budget is charged but not returned; one call
  is made of two; time stamps are set before a run and kept when it raises; a
  save may be cut short and `restart` moves all times. Correct: budgets and the
  submission interval hold in every order of calls and whatever is saved and
  restarted, and the private evaluation is the last.
* *Case runner*: threads share containers that break and are replaced; creation,
  start and removal fail; a pool has no timeout. Correct: exclusive containers, each
  verdict in its place, nothing left behind but what Docker refused to remove or to
  start, and an end as long as there is a container.
* *Store*: a quota over files and summaries with two kinds of eviction, writes that
  fail halfway, lifetimes. Correct: never over the quota, whole results or none,
  nothing evicted out of order or without need.
* *Repeated sampling, self refinement, private evaluation*: several files that are
  written one after the other, and a later run with other settings that reads
  them. Correct: what the summary names is there and of one answer, and what was
  once recorded is never lost, replaced or taken for something else.
* *Standings*: a new result changes everybody's relative scores; ties are half ranks;
  the performance is searched and interpolated in a table. Correct: a better
  result is never placed worse, and always between its neighbours in the table; where
  the table has no answer, an exception and no wrong one.
* *Service and the life of a session*: a session owns a directory and a container;
  its start, its close and each operation on it may fail halfway, and artifacts outlive
  it. Correct: nothing it holds gets out of reach, nothing is run without it, and
  nothing of the private cases is kept.
* *Entry point and shared loop*: problems on threads, their model calls on more threads
  under one semaphore and one event loop, files rewritten in place, kills and restarts.
  Correct: one set of settings, no success without its results, no permit lost, one
  loop, and an end with nothing in use.

`PROJECT.json` lists every hazard at its line with the properties that watch it.

## 2. Modules

| module | models | role |
|---|---|---|
| `Session` | session, start, save and restart | detailed specification |
| `SessionBudget` | what a session promises, in session time | abstract specification |
| `MCSession` | values for TLC | |
| `SessionProofs` | theorems about `Session` | |
| `CaseRunner` | `run_cases` and both pools, `run_code`, `generate_inputs`, `local_visualization` | detailed specification |
| `MCCaseRunner` | values for TLC | |
| `CaseRunnerProofs` | theorems about it | |
| `ArtifactStore` | the MCP store under the calls of the service | detailed specification |
| `MCArtifactStore` | values for TLC | |
| `SessionRegistry` | the sessions of a process and what they hold: start, close, the end of the process | detailed specification |
| `McpService` | the operations of the MCP server; extends `SessionRegistry` and `ArtifactStore` | composition |
| `MCMcpService` | values for TLC | |
| `McpServiceProofs` | theorems about `SessionRegistry`, `ArtifactStore` and `McpService` | |
| `RepeatedSampling` | `run_repeated_sampling` over several runs | detailed specification |
| `RepeatedSamplingProofs` | theorems about it | |
| `SelfRefine` | `run_self_refinement` over several runs | detailed specification |
| `RefinementLog` | the chain that it promises | abstract specification |
| `SelfRefineProofs` | theorems about it | |
| `PrivateEval` | selection from the chain, `run_private_evaluation`, over several runs | detailed specification |
| `PrivateEvalProofs` | theorems about it | |
| `Experiment` | `main`: settings, problems in parallel, model calls, results, restarts | detailed specification |
| `MCExperiment` | values for TLC | |
| `ExperimentProofs` | theorems about it | |
| `Standings` | rank and performance of a private result | detailed specification |
| `MCStandings` | contests for TLC | |
| `StandingsProofs` | theorems about it | |

### Session

State: the fields of the object (`usage`, `startedAt`, `lastPublic`,
`lastPrivate`; the action log as its total charge and its last entry), the call
in progress, the clock, and `session.json`. A metered function is `Enter` (it is
called), `Admit` or `Refuse` (the checks at its start and of its arguments),
`Launch` (the stamp of an evaluation), then `RunRaises` or `RunReturns` (charge,
check behind it, log). `case_gen_eval` is admitted on its own and then calls its
two halves, as in the code. `save` is `SaveOpen` (the file is truncated) and
`SaveDump`. The clock ticks between any two steps, the process may crash between
any two, and `Start` and `Restart` make the next one. What a run computes is
abstracted to the number of cases it was given and the execution time it reports.

`SessionBudget` states what this amounts to in *session time*, which stands still
while no process holds the session: charges only where there was room, credit
only for what fits, an interval between public evaluations, nothing behind the
private one, and a snapshot that continues where it was taken. The refinement
mapping subtracts the start from the clock.

### Case runner

The arguments of the call, and what Docker may refuse during it, are `setting`.
Each case has a future that is queued, ready (for its next command), running in a
container, giving it back, replacing it, finished or collected. `Take` is
`Queue.get`, `GiveBack` its counterpart, `Discard` and `Replace` what a pool does
with a container that broke; `RunOwn` and `RemoveOwn` are the single-use path;
`EnterCreates`/`EnterFails`/`Exit` are the two `with` blocks. Every container comes of
`containers.run`, which is docker-py's and external: it creates a container and then
starts it (`Create`), and where Docker refuses either it raises (`CreateRaises`). A
container that was created and not started stays: its caller has no handle of it, so it
is in no pool's list and behind no `finally` (`unstarted`). This holds of the compiler's
(`CompileNotStarted`), of one in `__enter__` (`EnterFails`), of a replacement
(`ReplaceFails`) and of a case's own (`RunOwnFails`). `StartCase` respects
the number of threads and the sequential loop. What the submission does is the
outcome of each command; `Verdict` maps it to the case's result.

`run_code`, `generate_inputs` and `local_visualization` are the same machine with other
arguments: one case and one command, with or without a compilation before it, a
container per command, and, for `local_visualization`, its own thread pool, or its loop
when there is one input or one worker. `setting.wrapper` tells them apart where they
differ: whether they compile, which outcome they raise for, and who catches it.

### Artifact store

The records are a sequence in order of access, each with the sizes of its files
and the reason its details are gone. The server handles one call at a time, so an
operation is in progress (`work`) while time passes: `Begin` reserves, `Finish`
completes it and then stores file by file (`StoreFile`, `StorageLimit`,
`FileIOError`), `Fails` discards it. `Read` prunes, then moves the record it finds to the end.
`Draw`, `DrawFails` and `AddImage` are the service's `visualize` over
`add_image`.

### The MCP service and the life of a session

`SessionRegistry` is what a session holds outside of its own state: the directory of
its tools (`dirs`) and the container of its visualization server (`servers`, and `held`,
the ids that sessions know). `StartFails` leaves what the exceptions of `start` and
`Session.__init__` leave: maybe the directory, and a container that was created but
not started when its port was taken between `find_free_port` and `docker run`. `Close`
is `Session.close` in its order, the directory first, its errors ignored, and then the
container, where any error but "not found" keeps its id for a retry; `CloseSession` is
`Service.close` around it. `Shutdown`, `CloseNext`, `AtExit` and `Exits` are the end of
the process: `app_lifespan` closes every open session, then `atexit` every session
whose `__init__` had ended. `misses` counts, for each session, how often the removal of
one of the two failed.

`McpService` runs the operations of `service.py` over it and over `ArtifactStore`,
both of which it extends: an operation needs an open session, then goes through the
store's `Begin`, `Finish` and the storing of files, and `jobs` keeps what the artifact
is of: session, kind, target, and the names of its files. The handlers never await, so
one operation is under way at a time, and the sessions change only between two.

### Repeated sampling, self refinement, private evaluation

The three modules are the phases of `evaluate_contest`, and model all runs there
ever are over one directory: `Run`/`Load` starts a run from the files, `Crash`
ends it anywhere and forgets its memory. Every file is a variable, every write an
action of its own, so that a kill falls between any two. An answer of the model
is a number or an entry that records which answer it followed.

* `RepeatedSampling`: `Ask`, `Answer`, `AskFails` are the futures on their threads
  (or the loop, with one worker); `Collect`, `Judge`, `SaveConversation`,
  `SaveSummary`, `StepFails` the caller, one sample at a time, in any order of
  completion. `End` is also the check in `evaluate_contest` that all samples are there.
* `SelfRefine`: one iteration is `Answer` or `Overflow`, `Judge`,
  `SaveConversation`, `SaveSummary`, `DeletePrevious`. A run may ask for more or
  fewer iterations than the one before. `RefinementLog` is the chain it promises.
* `PrivateEval`: the chain of `SelfRefine` seen as codes and scores, the selection
  of the first n for each power of two, and each solution loaded from the cache,
  copied from the one before, or evaluated; an evaluation may raise before or
  after its charge, or fail to be saved.

`Experiment` is what is around them: `main`, from the settings it checks and rewrites,
over the executor's problems, the threads of their samples and the semaphore and the
event loop that all of them share, to the results file and `atexit`; then the next
start of the process, in the same directory. `Start`, `WriteSettings` and
`SkipInference` are the settings; `Collect`, `WriteResults`, `ReportFails`,
`Collected`, `WriteSummary`, `Unwound` and `Exit` the rest of `main`; `Open` to
`EvaluationFails` one problem; `Acquire`, `Lock`, `Submit`, `Answer`, `Refused` one
model call. A problem is reduced to its samples, one refinement and its final results,
whose details are the three modules'. A kill is a `Crash` between any two steps. The
shutdown of the loop is part of `Exit`, one step, because `CleanEnd` shows that no call
is under way by then: the coroutine that is submitted while the loop drains does not
arise.

The phases compose through their files: the summary of `RepeatedSampling`, which
never changes once complete (`KeepsSamples`), is why `SelfRefine` may take its
initial entry as a constant; the chain of `SelfRefine`, which only grows
(`ImplementsLog`), is the `chain` of `PrivateEval`.
`main` in `__main__.py` refuses a later run over the same directory whose model,
samples, cases, languages or selection differ, and lets `n_self_refine` and the
degrees of concurrency change, hence the fixed number of samples and the
variable lengths; that the check works over kills and restarts is `SettingsNeverMixed`.

### Standings

`Session.estimate_rank_and_performance`, called with one private result after the
other (`Submit`, `Again`) over the frozen tables of a `contest`. `Recalculate` is one
round of the loop over the cases in `recalculate_relative_score`, `RankRelative`,
`RankAbsolute` and `RankLowest` the ends of `get_new_rank`; `LookUp`, or
`BeginSearch`, `Narrow` and `Interpolate`, are `get_performance`. Ranks for the
performance are kept doubled; both kinds of rounding, half up and half to even, are
as in the code, but exact where it uses floats. `before` is a history variable: the
result placed before, for `BetterNeverPlacedWorse`. A case whose verdict is a
compilation or an internal error (`Uncounted`) makes an absolute score 0; a relative
one leaves out that case only, which is what `get_new_rank` does.

A `contest` is whatever the validators let through (`ValidStandings`, `ValidRawData`,
`ValidCases`) and no more. `load_problem` pairs the tables as it finds them, in the lite
version, the default of the evaluation, the standings and relative results of the
fewer cases with the performances of the whole contest; nothing compares their rows,
their ranks or their participants. So the standings and the table of performances are
independent here, and what a property needs of them beyond the validators it states:

* `Consistent`, of the standings and relative results alone: those of one rank have one score (one score may
  have several ranks, which the code provides for); and the rank of score 0 is below all
  participants with a case accepted. Without it a better result can be placed worse.
* `SameRanks`, of both tables: the same rows of ranks, as in the full version. Only then
  is there anything to say of the performances of the participants with the same score
  (`AmongPeers`, the last part of `PlacedBetweenNeighbours`); in the map itself the
  performance is always that of the rank (`InTable`).
* Where the tables do not fit, the search may raise: `RaisesOnlyWhereUndefined` says for
  which of them.

## 3. Runs

| run | instance | what it shows |
|---|---|---|
| `session_budget` | all functions but `public_eval`, budgets of 1 or 2, batches to 2 | `LogWithinBudget`, `PrivateEndsSession`, `OverrunByOneCall` |
| `session_restart` | `case_gen_eval` with its two halves and both evaluations on the contest's time scale, interval 2, duration 3, saves, crashes, restarts | `PublicRate`, `ImplementsBudget` |
| `session_finished` | one finished session | **violation**: it never reads `True`, see 6 |
| `cases` | ten calls: `run_cases` with up to 3 cases of up to 3 commands, two threads or one worker, pools or a container per command, a Docker that grants everything, or refuses to create, to start and to remove; the three other wrappers | `ContainersExclusive`, `NoStraysLeft`, `ResultsMatchCases`, `OneCaseNeverFailsTheOthers`, `EndsUnlessDrained` |
| `cases_fixed_size` | 2 cases, one pool | **violation**: a pool shrinks, see 6 |
| `store` | 5 operations of up to 2 files against a quota of four summaries and an index of 3, with time, reads and images | `WithinQuota`, `WholeOrNoDetails`, `EvictsOldestFirst`, `EvictsOnlyWhenNeeded`, `ForgetsOnlyWhenNeeded`, `LifetimeFromCompletion` |
| `mcp_service` | 2 sessions on 2 problems with visualization servers, 2 faults, 2 operations, an index of 2 | `NoServerOutOfReach`, `TwoChances`, `PrivateNeverKept`, `WorksWithTools`, the types of both parts |
| `repeated_sampling` | 3 samples, 2 threads, 5 answers over all runs | `FilesAgree`, `KeepsSamples`, `RunEnds` |
| `self_refine` | lengths 1, 2 and 4, 6 answers over all runs | `FilesAgree`, `ImplementsLog` |
| `private_eval` | 2 codes, 2 scores, lengths 1, 3 and 4, 4 evaluations over all runs | `CacheNeverStale`, `AbortsOnlyAfterFailure`, `EverySolutionAdmitted`, `KeepsResults` |
| `experiment` | 2 problems of 2 samples, 2 permits, 2 settings, 3 starts of the process | `SettingsNeverMixed`, `SuccessIsOnDisk`, `PermitsBalance`, `OneLoop`, `CleanEnd`, `RunEnds` |
| `standings` | 41 contests of up to 8 participants, absolute and of the four relative kinds, with ties and scores of 0, and with tables that do not belong together or know one rank only; every pair of results over two cases | `BetterNeverPlacedWorse`, `PlacedBetweenNeighbours`, `RecalculationKeepsOrder`, `RaisesOnlyWhereUndefined` |

The inductive invariants of section 4 (`SessionInv`, `CaseRunnerInv`, `StoreInv`,
`RegistryInv`, `ServiceInv`, `RefineInv`, `SamplingInv`, `PrivateEvalInv`, `StandingsInv`,
`ExperimentInv`) and the other `TypeOK`s were checked with TLC on these instances before
they were proved, and are not listed with the runs. `PlacedInv` of `StandingsProofs` is
only proved: it says that partial sums exist, as functions on the natural numbers, which
TLC cannot enumerate.

Every property of a passing run has a mutant in `PROJECT.json`: a definition of
the module changed as a plausible mistake would change it, under which TLC finds
the property violated. The mutants are the `Name_Variant` operators.

### Bounds

Bounds are constants marked *bound*; all others are parameters of the code.

* `MaxNow`, `MaxBatch`, `MaxExec` (`Session`): the clock covers a whole session, a
  pause and a restart; a batch of 2 against a budget of 2 or 1 reaches, uses up
  and overruns every budget.
* Two threads and three cases (`CaseRunner`): one thread is reused, one container
  is contended for, and a replacement races a return. There is no counter to cap:
  a case pays at most three visits.
* `MaxFiles`, `MaxIds`, `MaxNow` (`ArtifactStore`): more operations than the quota and
  the index have room for, so that details are evicted and summaries forgotten; files
  that fit nowhere, and ones that fit only after eviction. The index of `store` has room
  for 3 of its 5 operations, fewer than the quota has summaries, so that an operation
  that finds it full forgets a summary for that alone. A summary is forgotten for want
  of bytes only where the index has more room than the quota (as with `MaxRecords` 5,
  which passes too and is not listed, being the same questions again); the two exclude
  each other under given constants, and `StoreForgetsOnlyWhenNeeded` proves both.
* `MaxStarts`, `MaxFaults` (`SessionRegistry`): two faults are what it takes to leave
  something behind a session (`TwoChances`); two sessions, one to fail while the other
  must still be closed, and a second start of a problem once it is free again.
* `MaxRuns` (`Experiment`): a run, a resumed run and a run with other settings, each
  killed or not; the last one allowed is not killed, so that `RunEnds` has something
  to say. Two problems with two samples are five calls for two permits.
* `MaxAnswers`, `MaxEvals`: answers or evaluations over *all* runs, more than a
  complete result needs, so that several runs can die and be resumed. When they
  are used up a run can still fail or be killed.

* `AbsoluteCases`, and the contests of `MCStandings`: two cases are enough for one to
  improve while the other does not, and for a rejected one beside an accepted one;
  the tables have a tie at the top, in the middle, one score with several ranks, and
  enough keys for several rounds of the search.

### Fairness and deadlock

`CaseRunner`, `RepeatedSampling` and `Experiment` have liveness properties. They assume
weak fairness of the threads and of the caller, and of the environment only that what
was started ends, in success or failure: the compiler, the generator and the visualizer
run under the timeout of the wait for them and the submission under that of its command
line, the judge has no timeout and is taken to end by itself, and every model call has
a `timeout`. How each one ends the formula leaves open. Threads of the pool keep
running. Where Docker refuses a
replacement, a pool can be drained and `Queue.get` waits forever, which is what
`EndsUnlessDrained` says and why `cases` and `cases_fixed_size` run with
`CHECK_DEADLOCK FALSE`: there the program really stops. In `Experiment` the fairness
is of *some* thread that can move, not of each: every step of a call or a problem
brings it closer to its end, so that is enough, and it is less to assume of the
semaphore and the lock, which are not fair. `experiment` and `mcp_service` end when the
process is gone and the bound on its starts is used up, without deadlock checking.
Nothing is assumed of starts, crashes and restarts.

## 4. Proofs

All proofs hold for every value of the constants that satisfies the assumption of
the module (`SessionAssumption`, `CaseRunnerAssumption`, `SessionRegistryAssumption`,
`ArtifactStoreAssumption`, `McpServiceAssumption`, `RepeatedSamplingAssumption`,
`SelfRefineAssumption`, `PrivateEvalAssumption`, `StandingsAssumption`,
`ExperimentAssumption`); these only
say that numbers are numbers, that lengths are within the largest, what `start` fixes
(one private evaluation, an epoch further back than any interval), that the store has a
quota of at least four summaries, which its configuration demands, that the bound on the
files of one artifact leaves room for the three an operation may return, which wrapper
calls the case runner in which way, and that a contest
passed its validators. Each module of proofs has a
lemma per action, then the invariant, then its consequences.

The library's induction theorems take an operator, which the provers cannot instantiate.
Where a sum or a filter must be followed along a list, the proofs put the lengths for which
a fact holds into a set, and show that the set has 0 and the successor of each of its
members below the length (`UpTo`); the function that the definition builds up is
shown to exist the same way.

* `SessionProofs`: `SessionInvariant` proves `SessionInv`. The properties are not
  inductive: that public evaluations keep their rate needs to know that an
  admitted one is due (`PublicIsDue`) and that the stamp of a running one lies
  past the ones charged; that nothing overruns by more than one call needs that
  an admitted call had room (`AdmittedHasRoom`); and all of it must hold of the
  file as well (`SavedIsSound`), since a restart brings it back. From it follow
  `LogWithinBudget`, `PrivateEndsSession`, `OverrunByOneCall`, `PublicRate` and
  `SessionImplementsBudget`, the refinement step by step.
* `RepeatedSamplingProofs`: `SamplingInv` says that what is asked for or worked on
  is missing in the summary, and that the run's copy of the summary is true
  (`MemoryMirrorsDisk`). Then a write of a result or a conversation never touches
  a sample the summary has (`SamplingFilesAgree`), and neither does the summary
  itself (`SamplingKeepsSamples`).
* `SelfRefineProofs`: `RefineInv` ties the history and the feedback in memory to the
  last entry on disk, at each place where a run may stand. `SelfRefineFilesAgree`
  and the refinement `SelfRefineImplementsLog` follow.
* `PrivateEvalProofs`: what makes the cache safe, though it is keyed by a name
  alone, is that a name is only evaluated once its prefix of the chain cannot
  change any more (`SettledName`): the chain is as long as the name says, or ends
  in an overflow. The proof needs that the selection has a best element at all,
  by well-foundedness of the numbers. `PrivateEvalCacheNeverStale`,
  `PrivateEvalKeepsResults` and `PrivateEvalAbortsOnlyAfterFailure` follow.
* `CaseRunnerProofs`: `CaseRunnerInv` says where each case may stand in each phase of the
  call (`JobsStand`, `CallStands`), that a container of a pool is in its queue once or with
  one case (`ContainersExclusive`), and whose every container there is must be: a pool's, a
  case's, the compiler's, or nobody's, which only those are that Docker refused to remove
  or to start (`Accounted`, `Nobodys`). It has two layers. `CasesInv` is the first: with it
  `NoStraysLeft` is inductive but for what a pool that was not entered leaves, since at the
  end no case holds anything and the pools have been emptied. The second counts: the pools
  are entered one after the other and to their full size (`PoolsEntered`), each container
  a pool has lost for good is that of a case that ended in an error (`LosesOnePerFailure`),
  and one that was not started made somebody raise (`NeverSilently`). `OneCasePerContainer`,
  `CallLeavesNoStrays`, `EachCaseItsVerdict` and `CasesFailAlone` follow, for every number
  of cases, workers and commands, and whatever Docker refuses. That the other cases are
  judged at all is a liveness property, and false of a drained pool: `CasesFailAlone` bounds
  what they lose, `EndsUnlessDrained` (TLC) says when the call ends.
* `McpServiceProofs` has three parts.
  * The sessions: `RegistryInv` says what each phase of the process owes to each
    session (`Owed`): whoever still has its container is known, and whatever is left was
    tried as often as the phase had the chance to. It is proved of `McpService` itself,
    any step of which is a step of the registry or leaves it alone. `ServersInReach` and
    `ReleasedOrTriedTwice` follow, for any number of sessions and faults.
  * The store: `StoreInv` adds to the types, the quota and the whole details that an
    artifact is in the store once, does not come back once it is forgotten, and lives from
    its completion (`Indexed`), and that what is stored and still to be stored of the
    artifact in progress is all its operation produced (`Working`). The quota needs that
    eviction, pruning and forgetting never add bytes, and that the loop of `_make_room`
    stops at the first number of records that gives room (`StoreSafe`, `StoreWithinQuota`,
    `StoreWholeOrNoDetails`). The four action properties are proved by the kinds of step
    there are (`ThreeKinds`): a new operation, which sheds details, then whole records; a
    file or an image, which sheds details in place; and all others, which evict nothing
    (`StoreEvictsOldestFirst`, `StoreEvictsOnlyWhenNeeded`, `StoreForgetsOnlyWhenNeeded`,
    `StoreLifetimeFromCompletion`).
  * The service: `ServiceInv` joins both, and adds that the files of an artifact have names,
    those of a private evaluation only that of its scores (`Named`), that work is done for
    sessions of the registry and nothing is drawn of a private case (`ForSessions`), and
    that tools are missing only where a close missed them (`ToolsOrMiss`). `ServiceTypes`,
    `PrivateCasesNeverKept` and `WorkHasTools` follow.
* `StandingsProofs`: the tables are any that the validators let through, paired in any
  way. `StandingsInv` says that the search keeps the rank between its two bounds and off
  the keys (`Bracketed`), and that in consistent standings the rank is not below that of
  score 0 (`AboveTheLast`). At the end of the search the upper bound is then a key, unless
  the rank is below the last one; so, with at least two keys,
  `StandingsRaisesOnlyWhereUndefined`: the errors the code may raise are those for scores
  of 0, that of a map of one rank, and that of standings which end on a lower rank than
  the map. The ranks need that two disjoint sets of participants count no more than all
  who have a case accepted (`Earned`); the types of the relative scores that the best
  score divided by is not 0.

  The order of the results goes in four steps. Within one case a better score counts at
  least as much, since no more are ahead of it and the rounding is monotone
  (`StandingsRecalculationKeepsOrder`). Between two submissions, one no worse in
  a case counts there at least as much, and all others at most as much (`OwnImproves`,
  `OthersLose`); the sums over the cases follow by `UpTo`. So no more participants are above the better
  sum, and its rank is no worse; for absolute scores the rank
  is that of the groups of equal scores. And what the table gives a rank (`Given`) only
  falls as the rank grows, and lies between the two entries around it. That each placement
  is that of its own verdicts (`PlacedInv`, `StandingsPlacements`) ties these facts about two contests to
  the two results placed one after the other: `StandingsBetterNeverPlacedWorse` and
  `StandingsPlacedBetweenNeighbours`. Both hold for any table of performances; they ask of
  the standings what `Consistent` says, and only the last part of the second, which reads
  the performances of the participants with the same score, asks for `SameRanks`.
* `ExperimentProofs`: `ExperimentInv` has four parts: while a process runs its settings
  are the directory's (`SameSettings`), a success is noted only behind its final results
  (`SavedFirst`), a call is made only for an evaluation that waits for it
  (`CallsOfTasks`), and who holds the lock decides by what it saw (`LoopInUse`). From
  it follow `ExperimentSettingsNeverMixed`, `ExperimentSuccessIsOnDisk`,
  `ExperimentOneLoop` and `ExperimentCleanEnd`. `ExperimentPermitsBalance` counts the
  holders as a finite set, step by step, and with it `ExperimentTypeOK`: the semaphore
  is never negative.

Every invariant and every action property of the passing runs, and both refinements, are
stated by a theorem. Only model-checked: the liveness properties (`EndsUnlessDrained` of
`CaseRunner`, `RunEnds` of `RepeatedSampling` and of `Experiment`), which are out of the
prover's reach. The rounding of `Standings` is proved and checked as exact arithmetic, not as floats.

## 5. What is not modelled

* `Session`: several threads on one session (the class has no lock and promises
  nothing), its setters and its read-only properties.
* `ArtifactStore`: an `unlink`, `mkdir` or `rmtree` that fails, a summary larger than its
  reserve.
* `SessionRegistry`: a kill of the server process, which leaves everything it holds to
  nobody, and the port of a visualization server beyond whether it could be had.
* `McpService`: the paging of the readers and the listings, which change nothing but the
  order of access (`ReadResource`). A page is taken of the records as they are then, and
  reading one moves it to the end: a client that reads while it pages may miss some.
* `Experiment`: the parsing of arguments, the aggregated report, and a second process
  started in the same directory, which nothing in the code guards against.
* Repeated sampling and self refinement: the retries inside one judge call or one
  write, which end in the same file or in the failure of the step; the scores,
  except where `PrivateEval` selects by them.
* Which verdict a submission earns (`parse_profiles`: its outcomes are `Outcomes` of
  `CaseRunner`, all of them possible for each command), the selection among the repeated
  samples (`SelfRefine` takes any complete one), `overall_relative_score`, the rating and
  the ranking by rating: pure functions. Rounding errors of floats.
* Prompts, languages, cost tables, reports, images, deployment: no state.

## 6. Disagreements with the documentation

* `session_finished`: `docs/session_object.md` says that it returns `True` when the
  session has concluded. The code returns the negation of a check that returns
  `True` or raises; it is `False` or an exception, never `True`.
* The pools are documented as fixed-size. A broken container is removed before its
  replacement is created; when Docker refuses the replacement the pool stays
  smaller, and at zero every later case waits forever.

Five more that no run states, since they are of one line of code each:

* `__exit__` of the pools is documented as "Remove all worker containers". It removes
  those in the pool's list, which a container that was created but not started never
  enters (`CreateRaises`, `NoStraysLeft`).
* `get_performance` says "Something went wrong" where its search runs off the table. In
  the lite version the standings and the table of performances are of different sets of
  cases and nothing compares them: standings that end on a lower rank than the table
  reach it (`RaisesOnlyWhereUndefined`).
* `docs/evaluation.md` calls the root path one "to save results and resume from".
  `experiment_settings.json` is emptied when a run starts and written behind that
  (`Start`, `WriteSettings`): after a kill in between, every later run fails to parse it,
  until it is removed by hand. In `Experiment` no run starts from such a file.
* `local_visualization` says that the entry of a case that fails will be `None`. With
  one input or one worker the exception of the case leaves the function
  (`LocalVisualization` in its loop, in `cases`); on the threads the entry is `None`.
* A session whose `close` failed halfway stays in the registry without its tools, and
  the service accepts operations for it. `WorksWithTools` states that this is the only
  way to that.

## 7. Plan

What is left, in this order:

1. Pure algorithms against reference definitions: the searches of `RankingCalculator`
   (where a rating of 0 meets the row appended for it), the selection of repeated samples,
   `parse_profiles`, and `overall_relative_score` against the rank when a case is an
   internal error.
2. The lemmas about lists, sums and filters that two modules of proofs have in common, in
   one place.
