--------------------------- MODULE SessionRegistry ---------------------------
(***************************************************************************)
(* The sessions of one server process and what each of them holds outside  *)
(* of it: Service.start and Service.close (ale_bench_mcp/service.py),      *)
(* ale_bench.start and Session.__init__, which make the directory of the   *)
(* tools and the container of the visualization server, Session.close,     *)
(* which removes them, and the end of the process, which closes every      *)
(* session once more: app_lifespan (ale_bench_mcp/server.py), then atexit. *)
(*                                                                         *)
(* Calls are serial, so a start or a close is one step with the outcomes   *)
(* its failures leave; the process is not killed.  The order in which the  *)
(* end of the process closes the sessions is left open.                    *)
(***************************************************************************)
EXTENDS Naturals, Sequences, FiniteSets, FiniteSetsExt

CONSTANTS
    Problems,       \* the problem identifiers
    MaxSessions,    \* max_sessions
    RunServer,      \* run_visualization_server
    MaxStarts,      \* bound: sessions started
    MaxFaults       \* bound: failures of Docker and of the file system

ASSUME SessionRegistryAssumption ==
    /\ MaxSessions \in Nat \ {0}
    /\ RunServer \in BOOLEAN
    /\ {MaxStarts, MaxFaults} \subseteq Nat

VARIABLES
    sessions,   \* Service.sessions
    problem,    \* the problem of each session ever started; they are 1..Len(problem)
    failed,     \* those whose start raised
    dirs,       \* those whose tool_dir is on the disk
    servers,    \* the state of each one's container at Docker
    held,       \* those that know their container's id
    phase,      \* what the process is doing
    todo,       \* the sessions it has still to close
    misses      \* history: how often a session's directory, or container, was not removed

registryVars == <<sessions, problem, failed, dirs, servers, held, phase, todo, misses>>

Started == DOMAIN problem
Counts == [dir : Nat, server : Nat]
NoMiss == [dir |-> 0, server |-> 0]

RegistryTypeOK ==
    /\ problem \in Seq(Problems)
    /\ sessions \subseteq Started
    /\ failed \subseteq Started
    /\ dirs \subseteq Started
    /\ servers \in [Started -> {"none", "created", "running", "stopped"}]
    /\ held \subseteq Started
    /\ phase \in {"serving", "lifespan", "atexit", "gone"}
    /\ todo \subseteq Started
    /\ misses \in [Started -> Counts]

RegistryInit ==
    /\ sessions = {}
    /\ problem = <<>>
    /\ failed = {}
    /\ dirs = {}
    /\ servers = <<>>
    /\ held = {}
    /\ phase = "serving"
    /\ todo = {}
    /\ misses = <<>>

\* The faults so far: starts that raised and things that were not removed.
Faults == Cardinality(failed) + MapThenSumSet(LAMBDA s : misses[s].dir + misses[s].server, Started)
MayFail == Faults < MaxFaults

-----------------------------------------------------------------------------
(* start                                                                   *)

MayStart(p) ==
    /\ phase = "serving"
    /\ Len(problem) < MaxStarts
    /\ \A s \in sessions : problem[s] # p
    /\ Cardinality(sessions) < MaxSessions

New == Len(problem) + 1

Start(p) ==
    /\ MayStart(p)
    /\ problem' = Append(problem, p)
    /\ sessions' = sessions \cup {New}
    /\ dirs' = dirs \cup {New}
    /\ servers' = Append(servers, IF RunServer THEN "running" ELSE "none")
    /\ held' = IF RunServer THEN held \cup {New} ELSE held
    /\ misses' = Append(misses, NoMiss)
    /\ UNCHANGED <<failed, phase, todo>>

\* The download, load_problem, build_rust_tools or generate_inputs raise: the directory,
\* if it was made, nobody removes.  docker run creates the container before it starts
\* it, and a port taken since find_free_port looked at it leaves it created.
StartFails(p, server) ==
    /\ MayStart(p)
    /\ MayFail
    /\ server = "created" => RunServer
    /\ problem' = Append(problem, p)
    /\ failed' = failed \cup {New}
    /\ dirs' \in {dirs \cup {New}} \cup (IF server = "none" THEN {dirs} ELSE {})
    /\ servers' = Append(servers, server)
    /\ misses' = Append(misses, NoMiss)
    /\ UNCHANGED <<sessions, held, phase, todo>>

-----------------------------------------------------------------------------
(* Session.close                                                           *)

\* The container after each way of removing it, and whether close returned.
Gone == [server |-> "none", returns |-> TRUE]
Removals(s) ==
    {Gone} \cup
    (IF s \in held /\ MayFail /\ servers[s] # "none"
     THEN {[server |-> servers[s], returns |-> FALSE], [server |-> "stopped", returns |-> FALSE]}
     ELSE {})

\* rmtree first, its errors ignored; then get, stop and remove, where a container
\* that is not found is one removed and any other error leaves its id for a retry.
Close(s, kept, removal) ==
    /\ dirs' = IF kept THEN dirs ELSE dirs \ {s}
    /\ servers' = IF s \in held THEN [servers EXCEPT ![s] = removal.server] ELSE servers
    /\ held' = IF removal.returns THEN held \ {s} ELSE held
    /\ misses' = [misses EXCEPT ![s] = [dir |-> @.dir + (IF kept THEN 1 ELSE 0),
                                        server |-> @.server + (IF removal.returns THEN 0 ELSE 1)]]

Keepable(s) == IF s \in dirs /\ MayFail THEN BOOLEAN ELSE {FALSE}

\* Mutant: the session is forgotten before it is closed.
CloseSession_DeletesFirst(s) ==
    /\ phase = "serving"
    /\ s \in sessions
    /\ \E kept \in Keepable(s), removal \in Removals(s) :
          /\ Close(s, kept, removal)
          /\ sessions' = sessions \ {s}
    /\ UNCHANGED <<problem, failed, phase, todo>>

\* Service.close: if the session cannot be closed it stays where it was.
CloseSession(s) ==
    /\ phase = "serving"
    /\ s \in sessions
    /\ \E kept \in Keepable(s), removal \in Removals(s) :
          /\ Close(s, kept, removal)
          /\ sessions' = IF removal.returns THEN sessions \ {s} ELSE sessions
    /\ UNCHANGED <<problem, failed, phase, todo>>

\* Somebody else removes the container.
Vanishes(s) ==
    /\ phase = "serving"
    /\ servers[s] = "running"
    /\ servers' = [servers EXCEPT ![s] = "none"]
    /\ UNCHANGED <<sessions, problem, failed, dirs, held, phase, todo, misses>>

-----------------------------------------------------------------------------
(* The end of the process                                                  *)

\* The server stops, between two calls.
Shutdown ==
    /\ phase = "serving"
    /\ phase' = "lifespan"
    /\ todo' = sessions
    /\ UNCHANGED <<sessions, problem, failed, dirs, servers, held, misses>>

\* Mutant: the first failure ends the loop of app_lifespan.
CloseNext_StopsAtAFailure(s) ==
    /\ phase \in {"lifespan", "atexit"}
    /\ s \in todo
    /\ \E kept \in Keepable(s), removal \in Removals(s) :
          /\ Close(s, kept, removal)
          /\ todo' = IF phase = "lifespan" /\ ~removal.returns THEN {} ELSE todo \ {s}
    /\ UNCHANGED <<sessions, problem, failed, phase>>

\* app_lifespan collects the failures, atexit prints them: the next one is closed
\* all the same.
CloseNext(s) ==
    /\ phase \in {"lifespan", "atexit"}
    /\ s \in todo
    /\ \E kept \in Keepable(s), removal \in Removals(s) :
          /\ Close(s, kept, removal)
          /\ todo' = todo \ {s}
    /\ UNCHANGED <<sessions, problem, failed, phase>>

\* Every session whose __init__ ended is registered, the closed ones included.
AtExit ==
    /\ phase = "lifespan"
    /\ todo = {}
    /\ phase' = "atexit"
    /\ todo' = Started \ failed
    /\ UNCHANGED <<sessions, problem, failed, dirs, servers, held, misses>>

Exits ==
    /\ phase = "atexit"
    /\ todo = {}
    /\ phase' = "gone"
    /\ UNCHANGED <<sessions, problem, failed, dirs, servers, held, todo, misses>>

RegistryNext ==
    \/ \E p \in Problems :
          Start(p) \/ \E server \in {"none", "created"} : StartFails(p, server)
    \/ \E s \in Started : CloseSession(s) \/ Vanishes(s) \/ CloseNext(s)
    \/ Shutdown
    \/ AtExit
    \/ Exits

RegistrySpec == RegistryInit /\ [][RegistryNext]_registryVars

-----------------------------------------------------------------------------
(* Properties.                                                             *)

\* No visualization server outlives its session unnoticed: one that a session
\* started and that Docker still has is known to that session, and while the
\* process serves the session is in the registry, where close can be called on it
\* again (Session.close gives the id up last, Service.close the session).
NoServerOutOfReach ==
    \A s \in Started \ failed : servers[s] # "none" =>
        /\ s \in held
        /\ phase = "serving" => s \in sessions

\* What close did not release when it was first called is tried again by the end of
\* the process: a directory or a container that a started session leaves behind was
\* given two chances, and Docker or the file system failed on both.
TwoChances ==
    phase = "gone" => \A s \in Started \ failed :
        /\ s \in dirs => misses[s].dir >= 2
        /\ servers[s] # "none" => misses[s].server >= 2

-----------------------------------------------------------------------------
(* The inductive invariant behind the two: what each phase owes a session. *)

\* Whatever is left of s, its removal failed at least n times.
Tried(s, n) ==
    /\ s \in dirs => misses[s].dir >= n
    /\ servers[s] # "none" => misses[s].server >= n

Owed(s) ==
    /\ servers[s] # "none" => s \in held
    /\ phase = "serving" /\ s \notin sessions => servers[s] = "none" /\ Tried(s, 1)
    /\ phase = "lifespan" /\ s \notin todo => Tried(s, 1)
    /\ phase = "atexit" => Tried(s, 1) /\ (s \notin todo => Tried(s, 2))
    /\ phase = "gone" => Tried(s, 2)

RegistryInv ==
    /\ RegistryTypeOK
    /\ \A s \in Started \ failed : Owed(s)

=============================================================================
