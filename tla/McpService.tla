----------------------------- MODULE McpService ------------------------------
(***************************************************************************)
(* The operations of the MCP server (ale_bench_mcp/service.py) over the    *)
(* two parts that keep its state: the sessions of the process and what     *)
(* they hold (SessionRegistry) and the artifacts of its operations         *)
(* (ArtifactStore).                                                        *)
(*                                                                         *)
(* The handlers of server.py never await, so one operation is under way at *)
(* a time and nothing happens to the sessions meanwhile.  An artifact has  *)
(* the files of one case.                                                  *)
(***************************************************************************)
EXTENDS SessionRegistry, ArtifactStore

CONSTANT Targets    \* the targets of evaluate that clients use

\* The longest list of files an operation returns fits the bound.
ASSUME McpServiceAssumption ==
    /\ Targets \subseteq {"cases", "generated", "public", "private"}
    /\ MaxFiles >= 3

VARIABLE jobs       \* what the artifacts are: their session, kind, target and files' names

vars == <<registryVars, storeVars, jobs>>

Names == {"input", "output", "json", "stdin", "stdout", "stderr", "visualization"}
Job == [session : Started, kind : {"evaluations"}, target : Targets, names : Seq(Names)]
    \cup [session : Started, kind : {"case_sets", "runs"}, target : {"none"}, names : Seq(Names)]

TypeOK ==
    /\ RegistryTypeOK
    /\ StoreTypeOK
    /\ jobs \in Seq(Job)
    /\ Len(jobs) = begun

Init ==
    /\ RegistryInit
    /\ StoreInit
    /\ jobs = <<>>

\* The files of an artifact that are in the store, by their names.
Kept(id) == SubSeq(jobs[id].names, 1, Len(TheRecord(id).files))
Has(id, name) == \E i \in DOMAIN Kept(id) : Kept(id)[i] = name

-----------------------------------------------------------------------------
(* An operation: a live session, begin, the session's own work, finish.    *)

Operation(s, kind, target) ==
    /\ s \in sessions
    /\ Begin
    /\ jobs' = Append(jobs, [session |-> s, kind |-> kind, target |-> target, names |-> <<>>])

Generate(s) == Operation(s, "case_sets", "none")
Evaluate(s, target) == Operation(s, "evaluations", target)
RunCode(s) == Operation(s, "runs", "none")

\* The session's work raises: discard.
OperationFails ==
    /\ Fails
    /\ UNCHANGED jobs

\* Mutant: every evaluation keeps the texts of its cases.
Contents_OfPrivateToo(job) ==
    IF job.kind = "case_sets" THEN {<<"input">>}
    ELSE IF job.kind = "runs" THEN {<<"stdin", "stdout", "stderr">>}
    ELSE {<<"input", "json">>, <<"input", "output", "json">>}

\* _evaluation_files and its like: the output of a case may be None, and a private
\* evaluation keeps no text of its cases.
Contents(job) ==
    IF job.kind = "case_sets" THEN {<<"input">>}
    ELSE IF job.kind = "runs" THEN {<<"stdin", "stdout", "stderr">>}
    ELSE IF job.target = "private" THEN {<<"json">>}
    ELSE {<<"input", "json">>, <<"input", "output", "json">>}

OperationReturns ==
    /\ work.op = "run"
    /\ \E names \in Contents(jobs[work.id]) :
          /\ \E files \in [DOMAIN names -> Sizes] : Finish(files) \/ SummaryIOError(files)
          /\ jobs' = [jobs EXCEPT ![work.id].names = names]

Storing ==
    /\ StoreFile \/ StorageLimit \/ FileIOError \/ Finished
    /\ UNCHANGED jobs

-----------------------------------------------------------------------------
(* What a client does with the artifacts.                                  *)

\* Resources are read without their session: all that is asked is its identifier.
\* Reading a case set for evaluate, or an image already drawn, is one of these.
ReadResource(id, own) ==
    /\ Read(id, own)
    /\ UNCHANGED jobs

\* Mutant: draws for a session that was closed.
Visualize_WithoutSession(id) ==
    /\ jobs[id].kind = "evaluations"
    /\ jobs[id].target # "private"
    /\ Found(id)
    /\ ~Has(id, "visualization")
    /\ Has(id, "input")
    /\ Has(id, "output")
    /\ Draw(id)
    /\ UNCHANGED jobs

\* visualize, up to the call of the session's local_visualization.
Visualize(id) ==
    /\ jobs[id].kind = "evaluations"
    /\ jobs[id].target # "private"
    /\ Found(id)
    /\ ~Has(id, "visualization")
    /\ jobs[id].session \in sessions
    /\ Has(id, "input")
    /\ Has(id, "output")
    /\ Draw(id)
    /\ UNCHANGED jobs

NoImage ==
    /\ DrawFails
    /\ UNCHANGED jobs

Image ==
    /\ \E size \in Sizes : AddImage(size)
    /\ LET grown == \E i \in DOMAIN records' :
                        /\ records'[i].id = work.id
                        /\ Len(records'[i].files) > Len(TheRecord(work.id).files)
       IN  jobs' = IF grown THEN [jobs EXCEPT ![work.id].names = Append(@, "visualization")] ELSE jobs

-----------------------------------------------------------------------------
Serve ==
    \/ \E s \in Started :
          Generate(s) \/ RunCode(s) \/ \E target \in Targets : Evaluate(s, target)
    \/ OperationFails
    \/ OperationReturns
    \/ Storing
    \/ \E id \in 1..begun : Visualize(id) \/ \E own \in BOOLEAN : ReadResource(id, own)
    \/ NoImage
    \/ Image
    \/ Tick /\ UNCHANGED jobs

\* The directory of the store is removed once app_lifespan has closed the sessions.
Sessions ==
    /\ work = Idle
    /\ RegistryNext
    /\ records' = IF phase' \in {"serving", "lifespan"} THEN records ELSE <<>>
    /\ removed' = IF phase' \in {"serving", "lifespan"} THEN removed ELSE <<>>
    /\ UNCHANGED <<now, begun, work, jobs>>

Next ==
    \/ Sessions
    \/ /\ phase = "serving"
       /\ Serve
       /\ UNCHANGED registryVars

Spec == Init /\ [][Next]_vars

-----------------------------------------------------------------------------
(* Properties.                                                             *)

\* No text and no image of a private evaluation's cases is ever in the store, by
\* whatever way the operations put files there: there is nothing to read, draw from
\* or evict but the scores.
PrivateNeverKept ==
    \A id \in 1..begun : jobs[id].target = "private" /\ Live(id) =>
        \A name \in Names \ {"json"} : ~Has(id, name)

\* A session that works is in the registry and has its tools, unless a close of it
\* failed halfway: artifacts outlive their session, but nothing is run for them then.
WorksWithTools ==
    work.op \in {"run", "draw"} =>
        LET s == jobs[work.id].session
        IN  /\ s \in sessions
            /\ s \notin dirs => misses[s].server > 0

-----------------------------------------------------------------------------
(* What makes the invariants above inductive.                              *)

\* A session in the registry has its tools, unless a close of it failed halfway.
ToolsOrMiss ==
    phase = "serving" => \A s \in sessions : s \notin dirs => misses[s].server > 0

\* The files an operation produced have a name each, and that of a private case is its scores'.
Named ==
    /\ \A i \in DOMAIN records :
          Len(records[i].given) <= Len(jobs[records[i].id].names)
    /\ \A id \in 1..begun : jobs[id].target = "private" => jobs[id].names \in {<<>>, <<"json">>}

\* Work is done for a session of the registry, and nothing is drawn of a private case.
ForSessions ==
    /\ work.op # "none" => phase = "serving"
    /\ work.op \in {"run", "draw"} => jobs[work.id].session \in sessions
    /\ work.op = "draw" => jobs[work.id].target # "private"

ServiceInv ==
    /\ RegistryInv
    /\ StoreInv
    /\ TypeOK
    /\ ToolsOrMiss
    /\ Named
    /\ ForSessions

=============================================================================
