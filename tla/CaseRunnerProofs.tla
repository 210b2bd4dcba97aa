-------------------------- MODULE CaseRunnerProofs --------------------------
(***************************************************************************)
(* For every call, whatever its number of cases, threads and commands: a   *)
(* reusable container serves one case at a time, no container is left when *)
(* the call is over, and each case has its own verdict.                    *)
(***************************************************************************)
EXTENDS CaseRunner, FiniteSetTheorems, TLAPS

-----------------------------------------------------------------------------
(* Settings, pools and queues.                                             *)

(* What every call's arguments are. *)
LEMMA SettingFacts ==
    ASSUME setting \in Settings
    PROVE  /\ NumCases \in Nat \ {0}
           /\ NumWorkers \in Nat \ {0}
           /\ Visits \in Seq(VisitKinds)
           /\ Len(Visits) \in Nat \ {0}
           /\ Reuse \in BOOLEAN
           /\ Reuse => setting.wrapper = "run_cases"
           /\ setting.wrapper \in Wrappers
<1>1. /\ Visits \in Seq(VisitKinds) \ {<<>>}
      /\ NumCases \in Nat \ {0}
      /\ NumWorkers \in Nat \ {0}
      /\ Reuse \in BOOLEAN
      /\ Reuse => setting.wrapper = "run_cases"
      /\ setting.wrapper \in Wrappers
  BY CaseRunnerAssumption DEF Visits, NumCases, NumWorkers, Reuse
<1>2. Len(Visits) # 0
  BY <1>1
<1>. QED
  BY <1>1, <1>2

LEMMA ArgumentsKept ==
    ASSUME UNCHANGED setting
    PROVE  /\ Cases' = Cases /\ Visits' = Visits /\ Reuse' = Reuse /\ Sequential' = Sequential
           /\ \A o : Verdict(o)' = Verdict(o)
BY DEF Cases, NumCases, NumWorkers, Visits, Reuse, Sequential, Verdict

LEMMA PoolNames == ToSet(Pools) = {"submission", "tool"}
BY DEF ToSet, Pools

(* A case's container comes from one of the two pools. *)
LEMMA PoolIsPool == \A c : Pool(c) \in {"submission", "tool"}
BY DEF Pool, PoolOf

(* Queue.get: the container leaves the queue, where it was once. *)
LEMMA TailFacts ==
    ASSUME NEW S, NEW s \in Seq(S), s # <<>>, IsInjective(s)
    PROVE  /\ Tail(s) \in Seq(S)
           /\ IsInjective(Tail(s))
           /\ Head(s) \in ToSet(s)
           /\ ToSet(Tail(s)) = ToSet(s) \ {Head(s)}
<1>1. /\ Tail(s) \in Seq(S)
      /\ Len(s) \in Nat \ {0}
      /\ Len(Tail(s)) = Len(s) - 1
      /\ DOMAIN s = 1..Len(s)
      /\ DOMAIN Tail(s) = 1..(Len(s) - 1)
      /\ Head(s) = s[1]
      /\ \A i \in 1..(Len(s) - 1) : Tail(s)[i] = s[i + 1]
  OBVIOUS
<1>2. IsInjective(Tail(s))
  BY <1>1 DEF IsInjective
<1>3. Head(s) \in ToSet(s)
  BY <1>1 DEF ToSet
<1>4. ASSUME NEW x \in ToSet(Tail(s)) PROVE x \in ToSet(s) \ {Head(s)}
  <2>1. PICK i \in 1..(Len(s) - 1) : x = s[i + 1]
    BY <1>1, <1>4 DEF ToSet
  <2>2. i + 1 \in DOMAIN s /\ i + 1 # 1 /\ 1 \in DOMAIN s
    BY <1>1
  <2>. QED
    BY <1>1, <2>1, <2>2 DEF ToSet, IsInjective
<1>5. ASSUME NEW x \in ToSet(s) \ {Head(s)} PROVE x \in ToSet(Tail(s))
  <2>1. PICK i \in 1..Len(s) : x = s[i]
    BY <1>1, <1>5 DEF ToSet
  <2>2. i - 1 \in 1..(Len(s) - 1) /\ (i - 1) + 1 = i
    BY <1>1, <1>5, <2>1
  <2>. QED
    BY <1>1, <2>1, <2>2 DEF ToSet
<1>. QED
  BY <1>1, <1>2, <1>3, <1>4, <1>5

(* Queue.put of a container that is not in the queue. *)
LEMMA AppendFacts ==
    ASSUME NEW S, NEW s \in Seq(S), NEW x \in S, x \notin ToSet(s), IsInjective(s)
    PROVE  /\ Append(s, x) \in Seq(S)
           /\ IsInjective(Append(s, x))
           /\ ToSet(Append(s, x)) = ToSet(s) \cup {x}
<1>1. /\ Append(s, x) \in Seq(S)
      /\ Len(s) \in Nat
      /\ DOMAIN s = 1..Len(s)
      /\ DOMAIN Append(s, x) = 1..(Len(s) + 1)
      /\ Append(s, x)[Len(s) + 1] = x
      /\ \A i \in 1..Len(s) : Append(s, x)[i] = s[i]
  OBVIOUS
<1>2. ASSUME NEW i \in 1..(Len(s) + 1)
      PROVE  i \in 1..Len(s) \/ i = Len(s) + 1
  BY <1>1
<1>3. \A i \in 1..Len(s) : s[i] # x
  BY <1>1 DEF ToSet
<1>4. IsInjective(Append(s, x))
  BY <1>1, <1>2, <1>3 DEF IsInjective
<1>5. ToSet(Append(s, x)) \subseteq ToSet(s) \cup {x}
  BY <1>1, <1>2 DEF ToSet
<1>6. ToSet(s) \cup {x} \subseteq ToSet(Append(s, x))
  <2>1. \A i \in 1..Len(s) : i \in 1..(Len(s) + 1)
    BY <1>1
  <2>2. Len(s) + 1 \in 1..(Len(s) + 1)
    BY <1>1
  <2>. QED
    BY <1>1, <2>1, <2>2 DEF ToSet
<1>. QED
  BY <1>1, <1>4, <1>5, <1>6

LEMMA QueueFacts ==
    ASSUME NEW S, NEW s \in Seq(S)
    PROVE  ToSet(s) \subseteq S
BY DEF ToSet

LEMMA EmptyQueue == ToSet(<<>>) = {} /\ IsInjective(<<>>)
BY DEF ToSet, IsInjective

LEMMA QueuesGrow ==
    ASSUME NEW m \in Nat, NEW n \in Nat, m <= n, NEW s \in Seq(1..m)
    PROVE  s \in Seq(1..n)
<1>1. 1..m \subseteq 1..n
  OBVIOUS
<1>. QED
  BY <1>1

-----------------------------------------------------------------------------
(* The jobs.                                                               *)

JobPcs == {"queued", "ready", "exec", "release", "recreate", "finished", "collected"}
JobType == [pc : JobPcs, visit : 1..Len(Visits), con : 0..created, outcome : Outcomes]

LEMMA JobTypes ==
    ASSUME TypeOK
    PROVE  job \in [Cases -> JobType]
BY DEF TypeOK, JobType, JobPcs

(* What the type and the place of a job say of it. *)
LEMMA JobFacts ==
    ASSUME CasesInv, NEW c \in Cases
    PROVE  /\ job[c] \in JobType
           /\ job[c].pc \in JobPcs
           /\ job[c].visit \in 1..Len(Visits)
           /\ job[c].con \in 0..created
           /\ job[c].outcome \in Outcomes
           /\ job[c].con # 0 <=> job[c].pc \in {"exec", "release"}
           /\ job[c].pc \notin {"queued", "collected"} => phase = "cases" /\ ~raising
<1>1. job[c] \in JobType
  BY JobTypes DEF CasesInv
<1>2. /\ job[c].pc \in JobPcs
      /\ job[c].visit \in 1..Len(Visits)
      /\ job[c].con \in 0..created
      /\ job[c].outcome \in Outcomes
  BY <1>1 DEF JobType
<1>3. /\ job[c].con # 0 <=> job[c].pc \in {"exec", "release"}
      /\ phase # "cases" => job[c].pc \in {"queued", "collected"}
      /\ raising => phase # "cases"
  BY DEF CasesInv, JobsStand, CallStands
<1>. QED
  BY <1>1, <1>2, <1>3

(* The containers of the pools and of the cases were created. *)
LEMMA Containers ==
    ASSUME CasesInv
    PROVE  /\ created \in Nat
           /\ NewContainer \in Nat
           /\ \A p \in {"submission", "tool"} :
                 /\ queue[p] \in Seq(1..created)
                 /\ owned[p] \subseteq 1..created
                 /\ IsInjective(queue[p])
                 /\ ToSet(queue[p]) \subseteq 1..created
           /\ DOMAIN queue = {"submission", "tool"}
           /\ DOMAIN owned = {"submission", "tool"}
           /\ docker \subseteq 1..created
           /\ Nobodys \subseteq docker
           /\ Serving \subseteq 1..created
<1>1. /\ created \in Nat
      /\ queue \in [{"submission", "tool"} -> Seq(1..created)]
      /\ owned \in [{"submission", "tool"} -> SUBSET (1..created)]
      /\ Nobodys \subseteq docker
      /\ docker \subseteq 1..created
  BY PoolNames DEF CasesInv, TypeOK, Nobodys
<1>2. \A p \in {"submission", "tool"} : IsInjective(queue[p])
  BY PoolNames DEF CasesInv, ContainersExclusive
<1>3. \A p \in {"submission", "tool"} : ToSet(queue[p]) \subseteq 1..created
  BY <1>1, QueueFacts
<1>4. Serving \subseteq 1..created
  <2>1. \A c \in Cases : job[c].con \in 0..created
    BY JobFacts
  <2>. QED
    BY <1>1, <2>1 DEF Serving
<1>. QED
  BY <1>1, <1>2, <1>3, <1>4 DEF NewContainer

-----------------------------------------------------------------------------
(* The initial state.                                                      *)

LEMMA InitInv == Init => CasesInv
<1>. SUFFICES ASSUME Init PROVE CasesInv
  OBVIOUS
<1>1. /\ setting \in Settings /\ phase = "compile" /\ raising = FALSE
      /\ created = 0 /\ docker = {} /\ unremoved = {} /\ unstarted = {}
      /\ job = [c \in Cases |-> QueuedJob]
      /\ results = [c \in Cases |-> Nothing]
      /\ queue = [p \in {"submission", "tool"} |-> <<>>]
      /\ owned = [p \in {"submission", "tool"} |-> {}]
  BY PoolNames DEF Init
<1>2. \A c \in Cases : job[c].pc = "queued" /\ job[c].con = 0
  BY <1>1 DEF QueuedJob
<1>3. TypeOK
  <2>1. QueuedJob \in JobType
    BY <1>1, SettingFacts DEF QueuedJob, JobType, JobPcs, Outcomes
  <2>2. Nothing \in [case : Cases \cup {0}, verdict : Verdicts \cup {"none"}]
    BY DEF Nothing
  <2>3. <<>> \in Seq(1..created)
    OBVIOUS
  <2>4. job \in [Cases -> JobType]
    BY <1>1, <2>1
  <2>5. results \in [Cases -> [case : Cases \cup {0}, verdict : Verdicts \cup {"none"}]]
    BY <1>1, <2>2
  <2>6. queue \in [{"submission", "tool"} -> Seq(1..created)]
    BY <1>1, <2>3
  <2>7. owned \in [{"submission", "tool"} -> SUBSET (1..created)]
    BY <1>1
  <2>. QED
    BY <1>1, <2>4, <2>5, <2>6, <2>7, PoolNames DEF TypeOK, JobType, JobPcs, Phases
<1>4. JobsStand
  BY <1>1, <1>2 DEF JobsStand, BeforeCases
<1>5. CallStands
  BY <1>1 DEF CallStands
<1>6. ContainersExclusive
  BY <1>1, <1>2, PoolNames, EmptyQueue DEF ContainersExclusive, Held
<1>7. Accounted
  BY <1>1, <1>2, PoolNames DEF Accounted, InUse, Serving, Compiler, Nobodys
<1>8. ResultsMatchCases /\ ExceptionsStay
  BY <1>1 DEF ResultsMatchCases, ExceptionsStay, AllQueued
<1>. QED
  BY <1>3, <1>4, <1>5, <1>6, <1>7, <1>8 DEF CasesInv

-----------------------------------------------------------------------------
(* The containers there will have been.                                    *)

(* Containers are only ever added to the names. *)
LEMMA TypesGrow ==
    ASSUME CasesInv, UNCHANGED <<setting, results>>,
           phase' \in Phases, raising' \in BOOLEAN,
           created' \in Nat, created <= created',
           job' \in [Cases -> JobType'],
           queue' \in [{"submission", "tool"} -> Seq(1..created')],
           owned' \in [{"submission", "tool"} -> SUBSET (1..created')],
           Nobodys' \subseteq docker', docker' \subseteq 1..created'
    PROVE  TypeOK'
<1>1. Cases' = Cases /\ Visits' = Visits
  BY ArgumentsKept
<1>. QED
  BY <1>1, PoolNames DEF CasesInv, TypeOK, JobType, JobPcs, Nobodys

LEMMA PhaseTypes ==
    ASSUME CasesInv
    PROVE  phase \in Phases /\ raising \in BOOLEAN
BY DEF CasesInv, TypeOK

LEMMA JobsGrow ==
    ASSUME CasesInv, UNCHANGED setting, created' \in Nat, created <= created'
    PROVE  JobType \subseteq JobType'
<1>1. Visits' = Visits
  BY ArgumentsKept
<1>2. 0..created \subseteq 0..created'
  BY Containers
<1>. QED
  BY <1>1, <1>2 DEF JobType

(* A refused containers.run leaves at most a container of nobody's.         *)
LEMMA Refusal ==
    ASSUME CasesInv, CreateRaises
    PROVE  /\ UNCHANGED <<queue, owned, unremoved>>
           /\ created \in Nat /\ created' \in Nat /\ created <= created'
           /\ queue' \in [{"submission", "tool"} -> Seq(1..created')]
           /\ owned' \in [{"submission", "tool"} -> SUBSET (1..created')]
           /\ docker' \subseteq 1..created' /\ Nobodys' \subseteq docker'
           /\ docker' = Nobodys' \cup InUse /\ Nobodys' \cap InUse = {}
<1>1. /\ created \in Nat
      /\ queue \in [{"submission", "tool"} -> Seq(1..created)]
      /\ owned \in [{"submission", "tool"} -> SUBSET (1..created)]
      /\ Nobodys \subseteq docker /\ docker \subseteq 1..created
      /\ docker = Nobodys \cup InUse /\ Nobodys \cap InUse = {}
  BY Containers, PoolNames DEF CasesInv, TypeOK, Accounted
<1>2. UNCHANGED <<queue, owned, unremoved>>
  BY DEF CreateRaises
<1>3. CASE UNCHANGED <<created, docker, unstarted>>
  BY <1>1, <1>2, <1>3 DEF Nobodys
<1>4. CASE Create /\ unstarted' = unstarted \cup {NewContainer}
  <2>. DEFINE n == created + 1
  <2>1. created' = n /\ docker' = docker \cup {n} /\ Nobodys' = Nobodys \cup {n}
    BY <1>2, <1>4 DEF Create, NewContainer, Nobodys
  <2>2. /\ n \in Nat /\ created <= n /\ n \notin 1..created
        /\ n \in 1..n /\ 1..created \subseteq 1..n
    BY <1>1
  <2>. HIDE DEF n
  <2>3. \A q \in {"submission", "tool"} : queue[q] \in Seq(1..n)
    BY <1>1, <2>2, QueuesGrow
  <2>4. /\ queue' \in [{"submission", "tool"} -> Seq(1..n)]
        /\ owned' \in [{"submission", "tool"} -> SUBSET (1..n)]
    BY <1>1, <1>2, <2>2, <2>3
  <2>5. /\ docker' \subseteq 1..n /\ Nobodys' \subseteq docker'
        /\ docker' = Nobodys' \cup InUse /\ Nobodys' \cap InUse = {}
    BY <1>1, <2>1, <2>2
  <2>. QED
    BY <1>1, <1>2, <2>1, <2>2, <2>4, <2>5
<1>. QED
  BY <1>3, <1>4 DEF CreateRaises

-----------------------------------------------------------------------------
(* Steps that give or take no container.                                   *)

(* The pools, and which case holds which of their containers, stay. *)
LEMMA HoldingsKept ==
    ASSUME CasesInv, UNCHANGED <<setting, queue, owned>>,
           \A c \in Cases : /\ job'[c].con = job[c].con
                            /\ job[c].con # 0 => job'[c].visit = job[c].visit,
           Compiler' = Compiler
    PROVE  ContainersExclusive' /\ InUse' = InUse
<1>1. Cases' = Cases /\ Visits' = Visits /\ Reuse' = Reuse
  BY DEF Cases, NumCases, Visits, Reuse
<1>2. \A c \in Cases : job[c].con # 0 => Pool(c)' = Pool(c)
  BY <1>1 DEF Pool
<1>3. \A p : Held(p)' = Held(p)
  BY <1>1, <1>2 DEF Held
<1>4. Serving' = Serving
  BY <1>1 DEF Serving
<1>5. ContainersExclusive'
  BY <1>1, <1>3 DEF CasesInv, ContainersExclusive
<1>6. InUse' = InUse
  BY <1>4 DEF InUse
<1>. QED
  BY <1>5, <1>6

(* Only the phase and whether an exception is on its way change. *)
LEMMA TypesKept ==
    ASSUME CasesInv, UNCHANGED <<setting, job, results, poolVars>>,
           phase' \in Phases, raising' \in BOOLEAN
    PROVE  TypeOK'
BY DEF CasesInv, TypeOK, poolVars, Cases, NumCases, Visits

LEMMA NoCompileStep == ASSUME CasesInv, NoCompile PROVE CasesInv'
<1>. USE DEF NoCompile
<1>1. Cases' = Cases /\ Reuse' = Reuse /\ Sequential' = Sequential
  BY ArgumentsKept
<1>2. TypeOK'
  BY TypesKept DEF Phases, CasesInv, TypeOK
<1>3. JobsStand'
  BY <1>1 DEF CasesInv, JobsStand, BeforeCases
<1>4. CallStands'
  BY <1>1 DEF CasesInv, CallStands
<1>5. Compiler' = Compiler
  BY DEF Compiler, poolVars
<1>6. ContainersExclusive' /\ InUse' = InUse
  BY <1>5, HoldingsKept DEF poolVars
<1>7. Accounted'
  BY <1>1, <1>6, PoolNames DEF CasesInv, Accounted, poolVars, Nobodys
<1>8. ResultsMatchCases' /\ ExceptionsStay'
  BY <1>1 DEF CasesInv, ResultsMatchCases, ExceptionsStay, AllQueued, Sequential, CallStands
<1>. QED
  BY <1>2, <1>3, <1>4, <1>6, <1>7, <1>8 DEF CasesInv

LEMMA CompileNotStartedStep == ASSUME CasesInv, CompileNotStarted PROVE CasesInv'
<1>. USE DEF CompileNotStarted
<1>1. Cases' = Cases /\ Reuse' = Reuse /\ Sequential' = Sequential
  BY ArgumentsKept
<1>2. TypeOK'
  <2>1. job' \in [Cases -> JobType']
    BY Refusal, JobsGrow, JobTypes DEF CasesInv
  <2>. QED
    BY <2>1, Refusal, TypesGrow DEF Phases
<1>3. JobsStand'
  BY <1>1 DEF CasesInv, JobsStand, BeforeCases
<1>4. CallStands'
  BY <1>1 DEF CasesInv, CallStands
<1>5. Compiler' = Compiler
  BY DEF Compiler
<1>6. ContainersExclusive' /\ InUse' = InUse
  BY <1>5, HoldingsKept, Refusal
<1>7. Accounted'
  BY <1>1, <1>6, Refusal, PoolNames DEF CasesInv, Accounted
<1>8. ResultsMatchCases' /\ ExceptionsStay'
  BY <1>1 DEF CasesInv, ResultsMatchCases, ExceptionsStay, AllQueued, JobsStand, BeforeCases
<1>. QED
  BY <1>2, <1>3, <1>4, <1>6, <1>7, <1>8 DEF CasesInv

LEMMA EnterDoneStep ==
    ASSUME CasesInv, NEW p \in {"submission", "tool"}, EnterDone(p) PROVE CasesInv'
<1>. USE DEF EnterDone, EnterPhase
<1>1. Cases' = Cases /\ Reuse' = Reuse /\ Sequential' = Sequential
  BY ArgumentsKept
<1>2. TypeOK'
  BY TypesKept DEF Phases, CasesInv, TypeOK
<1>3. JobsStand'
  BY <1>1 DEF CasesInv, JobsStand, BeforeCases
<1>4. CallStands'
  BY <1>1 DEF CasesInv, CallStands, JobsStand, BeforeCases
<1>5. Compiler' = Compiler
  BY DEF Compiler, poolVars
<1>6. ContainersExclusive' /\ InUse' = InUse
  BY <1>5, HoldingsKept DEF poolVars
<1>7. Accounted'
  BY <1>1, <1>6, PoolNames DEF CasesInv, Accounted, poolVars, Nobodys
<1>8. ResultsMatchCases' /\ ExceptionsStay'
  BY <1>1 DEF CasesInv, ResultsMatchCases, ExceptionsStay, AllQueued, CallStands
<1>. QED
  BY <1>2, <1>3, <1>4, <1>6, <1>7, <1>8 DEF CasesInv

LEMMA EnterFailsStep ==
    ASSUME CasesInv, NEW p \in {"submission", "tool"}, EnterFails(p) PROVE CasesInv'
<1>. USE DEF EnterFails, EnterPhase
<1>1. Cases' = Cases /\ Reuse' = Reuse /\ Sequential' = Sequential
  BY ArgumentsKept
<1>2. TypeOK'
  <2>1. job' \in [Cases -> JobType']
    BY Refusal, JobsGrow, JobTypes DEF CasesInv
  <2>. QED
    BY <2>1, Refusal, TypesGrow DEF Phases
<1>3. JobsStand'
  BY <1>1 DEF CasesInv, JobsStand, BeforeCases
<1>4. CallStands'
  BY <1>1 DEF CasesInv, CallStands
<1>5. Compiler' = Compiler
  BY DEF Compiler
<1>6. ContainersExclusive' /\ InUse' = InUse
  BY <1>5, HoldingsKept, Refusal
<1>7. AllQueued'
  BY <1>1 DEF CasesInv, JobsStand, BeforeCases, AllQueued
<1>8. Accounted'
  BY <1>1, <1>6, <1>7, Refusal, PoolNames DEF CasesInv, Accounted
<1>9. ResultsMatchCases' /\ ExceptionsStay'
  BY <1>1, <1>7 DEF CasesInv, ResultsMatchCases, ExceptionsStay, AllQueued
<1>. QED
  BY <1>2, <1>3, <1>4, <1>6, <1>8, <1>9 DEF CasesInv

LEMMA CasesDoneStep == ASSUME CasesInv, CasesDone PROVE CasesInv'
<1>. USE DEF CasesDone
<1>1. Cases' = Cases /\ Reuse' = Reuse /\ Sequential' = Sequential
  BY ArgumentsKept
<1>2. TypeOK'
  BY TypesKept DEF Phases, CasesInv, TypeOK
<1>3. JobsStand'
  BY <1>1 DEF CasesInv, JobsStand, BeforeCases
<1>4. CallStands'
  <2>1. \A o : Verdict(o)' = Verdict(o)
    BY ArgumentsKept
  <2>. QED
    BY <1>1, <2>1 DEF CasesInv, CallStands
<1>5. Compiler' = Compiler
  BY DEF Compiler, poolVars
<1>6. ContainersExclusive' /\ InUse' = InUse
  BY <1>5, HoldingsKept DEF poolVars
<1>7. Accounted'
  BY <1>1, <1>6, PoolNames DEF CasesInv, Accounted, poolVars, Nobodys
<1>8. ResultsMatchCases' /\ ExceptionsStay'
  BY <1>1 DEF CasesInv, ResultsMatchCases, ExceptionsStay, AllQueued, CallStands
<1>. QED
  BY <1>2, <1>3, <1>4, <1>6, <1>7, <1>8 DEF CasesInv

LEMMA OverStep == ASSUME CasesInv, UNCHANGED vars PROVE CasesInv'
<1>. USE DEF vars
<1>1. /\ Cases' = Cases /\ Visits' = Visits /\ Reuse' = Reuse /\ Sequential' = Sequential
      /\ \A o : Verdict(o)' = Verdict(o)
  BY ArgumentsKept
<1>2. TypeOK'
  BY TypesKept DEF CasesInv, TypeOK, poolVars
<1>3. JobsStand' /\ CallStands'
  BY <1>1 DEF CasesInv, JobsStand, CallStands
<1>4. Compiler' = Compiler
  BY DEF Compiler
<1>5. ContainersExclusive' /\ InUse' = InUse
  BY <1>4, HoldingsKept DEF poolVars
<1>6. Accounted'
  BY <1>1, <1>5, PoolNames DEF CasesInv, Accounted, AllQueued, Nobodys
<1>7. ResultsMatchCases' /\ ExceptionsStay'
  BY <1>1 DEF CasesInv, ResultsMatchCases, ExceptionsStay, AllQueued, Settled
<1>. QED
  BY <1>2, <1>3, <1>5, <1>6, <1>7 DEF CasesInv

(* One case moves on; the others stay where they are. *)
LEMMA JobMoves ==
    ASSUME CasesInv, NEW c \in Cases, NEW j \in JobType,
           job' = [job EXCEPT ![c] = j]
    PROVE  /\ job' \in [Cases -> JobType]
           /\ job'[c] = j
           /\ \A d \in Cases \ {c} : job'[d] = job[d]
<1>1. job \in [Cases -> JobType]
  BY JobTypes DEF CasesInv
<1>. QED
  BY <1>1

(* A case moves on during the call's loop: nothing is collected, nothing raised. *)
LEMMA MovesOn ==
    ASSUME CasesInv, NEW c \in Cases, NEW j,
           job' = [job EXCEPT ![c] = j],
           UNCHANGED <<setting, phase, raising, results>>,
           phase = "cases", ~raising,
           j.con # 0 <=> j.pc \in {"exec", "release"},
           j.pc \in {"release", "recreate", "finished"} => j.outcome # "none",
           j.pc = "recreate" => Reuse,
           j.pc # "collected", job[c].pc # "collected",
           Sequential => \A d \in 1..(c - 1) : job[d].pc = "collected"
    PROVE  /\ JobsStand' /\ CallStands' /\ ResultsMatchCases' /\ ExceptionsStay'
           /\ job'[c] = j
           /\ \A d \in Cases \ {c} : job'[d] = job[d]
<1>1. /\ Cases' = Cases /\ Visits' = Visits /\ Reuse' = Reuse /\ Sequential' = Sequential
      /\ \A o : Verdict(o)' = Verdict(o)
  BY ArgumentsKept
<1>2. job'[c] = j /\ \A d \in Cases \ {c} : job'[d] = job[d]
  BY JobTypes DEF CasesInv
<1>3. NumCases \in Nat /\ Cases = 1..NumCases
  BY SettingFacts DEF CasesInv, TypeOK, Cases
<1>4. JobsStand'
  <2>1. ASSUME NEW d \in Cases, Sequential, job'[d].pc # "queued", NEW e \in 1..(d - 1)
        PROVE  job'[e].pc = "collected"
    <3>1. e \in Cases
      BY <1>3
    <3>2. CASE d = c
      BY <1>2, <2>1, <3>1, <3>2
    <3>3. CASE d # c
      <4>1. job[d].pc # "queued"
        BY <1>2, <2>1, <3>3
      <4>2. \A f \in 1..(d - 1) : job[f].pc = "collected"
        BY <2>1, <4>1 DEF CasesInv, JobsStand
      <4>3. e # c
        BY <4>2
      <4>. QED
        BY <1>2, <3>1, <4>2, <4>3
    <3>. QED
      BY <3>2, <3>3
  <2>2. ASSUME NEW d \in Cases
        PROVE  /\ job'[d].con # 0 <=> job'[d].pc \in {"exec", "release"}
               /\ job'[d].pc \in {"release", "recreate", "finished", "collected"} =>
                      job'[d].outcome # "none"
               /\ job'[d].pc = "recreate" => Reuse
    BY <1>2 DEF CasesInv, JobsStand
  <2>. QED
    BY <1>1, <2>1, <2>2 DEF JobsStand, BeforeCases
<1>5. CallStands'
  BY <1>1, <1>2 DEF CasesInv, CallStands
<1>6. ResultsMatchCases' /\ ExceptionsStay'
  BY DEF ResultsMatchCases, ExceptionsStay, AllQueued
<1>. QED
  BY <1>2, <1>4, <1>5, <1>6

(* A case moves on and no container changes hands. *)
LEMMA MovesInPlace ==
    ASSUME CasesInv, NEW c \in Cases, NEW j \in JobType,
           job' = [job EXCEPT ![c] = j],
           UNCHANGED <<setting, phase, raising, results, poolVars>>,
           phase = "cases", ~raising,
           j.con = job[c].con,
           j.con # 0 => j.visit = job[c].visit,
           j.con # 0 <=> j.pc \in {"exec", "release"},
           j.pc \in {"release", "recreate", "finished"} => j.outcome # "none",
           j.pc = "recreate" => Reuse,
           j.pc # "collected", job[c].pc # "collected",
           Sequential => \A d \in 1..(c - 1) : job[d].pc = "collected"
    PROVE  CasesInv'
<1>1. /\ Cases' = Cases /\ Visits' = Visits /\ Reuse' = Reuse
  BY ArgumentsKept
<1>2. /\ JobsStand' /\ CallStands' /\ ResultsMatchCases' /\ ExceptionsStay'
      /\ job'[c] = j
      /\ \A d \in Cases \ {c} : job'[d] = job[d]
  BY MovesOn
<1>3. TypeOK'
  <2>1. JobType' = JobType
    BY <1>1 DEF JobType, poolVars
  <2>2. job' \in [Cases' -> JobType']
    BY <1>1, <2>1, JobMoves
  <2>. QED
    BY <1>1, <2>2 DEF CasesInv, TypeOK, JobType, JobPcs, poolVars
<1>4. Compiler' = Compiler
  BY DEF Compiler, poolVars
<1>5. ContainersExclusive' /\ InUse' = InUse
  <2>1. \A d \in Cases : /\ job'[d].con = job[d].con
                         /\ job[d].con # 0 => job'[d].visit = job[d].visit
    BY <1>2
  <2>. QED
    BY <1>4, <2>1, HoldingsKept DEF poolVars
<1>6. Accounted'
  BY <1>1, <1>5, PoolNames DEF CasesInv, Accounted, poolVars, Nobodys
<1>. QED
  BY <1>2, <1>3, <1>5, <1>6 DEF CasesInv

(* The cases before one that has started are collected where there is one thread. *)
LEMMA StartedInOrder ==
    ASSUME CasesInv, NEW c \in Cases, job[c].pc # "queued"
    PROVE  Sequential => \A d \in 1..(c - 1) : job[d].pc = "collected"
BY DEF CasesInv, JobsStand

LEMMA StartCaseStep ==
    ASSUME CasesInv, NEW c \in Cases, StartCase(c) PROVE CasesInv'
<1>. DEFINE j == [job[c] EXCEPT !.pc = "ready"]
<1>1. job[c] \in JobType /\ job[c].con = 0
  BY JobFacts DEF StartCase
<1>2. /\ j \in JobType /\ j.con = job[c].con /\ j.visit = job[c].visit
      /\ j.pc = "ready"
  BY <1>1 DEF JobType, JobPcs
<1>3. job' = [job EXCEPT ![c] = j]
  BY DEF StartCase
<1>4. /\ UNCHANGED <<setting, phase, raising, results, poolVars>>
      /\ phase = "cases" /\ ~raising /\ job[c].pc = "queued"
      /\ Sequential => \A d \in 1..(c - 1) : job[d].pc = "collected"
  BY DEF StartCase
<1>. HIDE DEF j
<1>. QED
  BY <1>1, <1>2, <1>3, <1>4, MovesInPlace

(* The case whose container was refused ends in the exception. *)
LEMMA RefusedCase ==
    ASSUME CasesInv, NEW c \in Cases, job[c].pc \in {"ready", "recreate"}, CreateRaises,
           job' = [job EXCEPT ![c] = [@ EXCEPT !.pc = "finished", !.outcome = "error"]],
           UNCHANGED <<setting, phase, raising, results>>
    PROVE  CasesInv'
<1>. DEFINE j == [job[c] EXCEPT !.pc = "finished", !.outcome = "error"]
<1>1. job[c] \in JobType /\ job[c].con = 0 /\ phase = "cases" /\ ~raising
  BY JobFacts
<1>2. /\ j \in JobType /\ j.con = 0 /\ j.pc = "finished" /\ j.outcome = "error"
  BY <1>1 DEF JobType, JobPcs, Outcomes
<1>3. job' = [job EXCEPT ![c] = j]
  OBVIOUS
<1>. HIDE DEF j
<1>4. /\ JobsStand' /\ CallStands' /\ ResultsMatchCases' /\ ExceptionsStay'
      /\ job'[c] = j
      /\ \A d \in Cases \ {c} : job'[d] = job[d]
  BY <1>1, <1>2, <1>3, MovesOn, StartedInOrder
<1>5. TypeOK'
  <2>1. JobType \subseteq JobType'
    BY Refusal, JobsGrow
  <2>2. job' \in [Cases -> JobType']
    BY <1>2, <1>3, <2>1, JobMoves
  <2>. QED
    BY <2>2, Refusal, TypesGrow, PhaseTypes
<1>6. ContainersExclusive' /\ InUse' = InUse
  <2>1. Compiler' = Compiler
    BY <1>1 DEF Compiler
  <2>2. \A d \in Cases : /\ job'[d].con = job[d].con
                         /\ job[d].con # 0 => job'[d].visit = job[d].visit
    BY <1>1, <1>2, <1>4
  <2>. QED
    BY <2>1, <2>2, Refusal, HoldingsKept
<1>7. Accounted'
  <2>1. Reuse' = Reuse
    BY ArgumentsKept
  <2>. QED
    BY <1>1, <1>6, <2>1, Refusal, PoolNames DEF CasesInv, Accounted
<1>. QED
  BY <1>4, <1>5, <1>6, <1>7 DEF CasesInv

LEMMA RunOwnFailsStep ==
    ASSUME CasesInv, NEW c \in Cases, RunOwnFails(c) PROVE CasesInv'
BY RefusedCase DEF RunOwnFails

LEMMA ExecEndsStep ==
    ASSUME CasesInv, NEW c \in Cases, ExecEnds(c) PROVE CasesInv'
<1>1. PICK o \in OutcomesOf(Visits[job[c].visit]) :
          job' = [job EXCEPT ![c] = [@ EXCEPT !.pc = "release", !.outcome = o]]
  BY DEF ExecEnds
<1>. DEFINE j == [job[c] EXCEPT !.pc = "release", !.outcome = o]
<1>2. job[c] \in JobType /\ job[c].con # 0 /\ phase = "cases" /\ ~raising
  BY JobFacts DEF ExecEnds
<1>3. o \in Outcomes \ {"none"}
  BY DEF OutcomesOf, VisOutcomes, GenOutcomes, CodeRunOutcomes, JudgedOutcomes, Outcomes
<1>4. /\ j \in JobType /\ j.con = job[c].con /\ j.visit = job[c].visit
      /\ j.pc = "release" /\ j.outcome # "none"
  BY <1>2, <1>3 DEF JobType, JobPcs
<1>5. job' = [job EXCEPT ![c] = j]
  BY <1>1
<1>6. /\ UNCHANGED <<setting, phase, raising, results, poolVars>>
      /\ job[c].pc = "exec"
  BY DEF ExecEnds
<1>. HIDE DEF j
<1>. QED
  BY <1>2, <1>4, <1>5, <1>6, MovesInPlace, StartedInOrder

LEMMA ReplaceFailsStep ==
    ASSUME CasesInv, NEW c \in Cases, ReplaceFails(c) PROVE CasesInv'
BY RefusedCase DEF ReplaceFails

(* The call takes the result of a case, or its exception.                  *)
LEMMA CollectStep ==
    ASSUME CasesInv, NEW c \in Cases, Collect(c) PROVE CasesInv'
<1>. DEFINE j == [job[c] EXCEPT !.pc = "collected"]
            r == [case |-> c, verdict |-> Verdict(job[c].outcome)]
<1>1. job[c] \in JobType /\ job[c].con = 0 /\ phase = "cases" /\ ~raising /\ job[c].pc = "finished"
  BY JobFacts DEF Collect
<1>2. /\ j \in JobType /\ j.con = job[c].con /\ j.visit = job[c].visit
      /\ j.pc = "collected" /\ j.outcome = job[c].outcome
  BY <1>1 DEF JobType, JobPcs
<1>3. job' = [job EXCEPT ![c] = j] /\ UNCHANGED <<setting, poolVars>>
  BY DEF Collect
<1>. HIDE DEF j
<1>4. /\ job' \in [Cases -> JobType]
      /\ job'[c] = j
      /\ \A d \in Cases \ {c} : job'[d] = job[d]
  BY <1>2, <1>3, JobMoves
<1>5. /\ Cases' = Cases /\ Visits' = Visits /\ Reuse' = Reuse /\ Sequential' = Sequential
      /\ \A o : Verdict(o)' = Verdict(o)
  BY <1>3, ArgumentsKept
<1>6. NumCases \in Nat /\ Cases = 1..NumCases
  BY SettingFacts DEF CasesInv, TypeOK, Cases
<1>7. \/ /\ Sequential
         /\ raising' = TRUE /\ phase' = "exit_tool" /\ results' = results
      \/ /\ results' = [results EXCEPT ![c] = r]
         /\ raising' = raising /\ phase' = phase
  BY DEF Collect
<1>8. job[c].outcome \in Outcomes \ {"none"}
  BY <1>1, JobFacts DEF CasesInv, JobsStand
<1>9. r \in [case : Cases \cup {0}, verdict : Verdicts \cup {"none"}]
  BY <1>8 DEF Verdict, Verdicts, Outcomes
<1>. HIDE DEF r
<1>10. results' \in [Cases -> [case : Cases \cup {0}, verdict : Verdicts \cup {"none"}]]
  BY <1>7, <1>9 DEF CasesInv, TypeOK
<1>11. TypeOK'
  <2>1. JobType' = JobType
    BY <1>3, <1>5 DEF JobType, poolVars
  <2>2. job' \in [Cases' -> JobType']
    BY <1>4, <1>5, <2>1
  <2>. QED
    BY <1>3, <1>5, <1>7, <1>10, <2>2 DEF CasesInv, TypeOK, JobType, JobPcs, poolVars, Phases
<1>12. ASSUME Sequential, NEW d \in Cases \ {c} PROVE job[d].pc \in {"queued", "collected"}
  <2>1. CASE d < c
    <3>1. d \in 1..(c - 1)
      BY <1>6, <2>1
    <3>. QED
      BY <1>1, <1>12, <3>1, StartedInOrder
  <2>2. CASE d > c /\ job[d].pc # "queued"
    <3>1. c \in 1..(d - 1)
      BY <1>6, <2>2
    <3>. QED
      BY <1>1, <1>12, <2>2, <3>1, StartedInOrder
  <2>. QED
    BY <1>6, <2>1, <2>2
<1>13. JobsStand'
  <2>1. ASSUME NEW d \in Cases, Sequential, job'[d].pc # "queued", NEW e \in 1..(d - 1)
        PROVE  job'[e].pc = "collected"
    <3>1. e \in Cases
      BY <1>6
    <3>2. job[d].pc # "queued"
      BY <1>1, <1>4, <2>1
    <3>3. job[e].pc = "collected"
      BY <2>1, <3>2, StartedInOrder
    <3>. QED
      BY <1>2, <1>4, <3>1, <3>3
  <2>2. ASSUME NEW d \in Cases
        PROVE  /\ job'[d].con # 0 <=> job'[d].pc \in {"exec", "release"}
               /\ job'[d].pc \in {"release", "recreate", "finished", "collected"} =>
                      job'[d].outcome # "none"
               /\ job'[d].pc = "recreate" => Reuse
    BY <1>1, <1>2, <1>4, <1>8 DEF CasesInv, JobsStand
  <2>3. phase' # "cases" => \A d \in Cases : job'[d].pc \in {"queued", "collected"}
    BY <1>1, <1>2, <1>4, <1>7, <1>12
  <2>4. phase' \notin BeforeCases
    BY <1>1, <1>7 DEF BeforeCases
  <2>. QED
    BY <1>5, <2>1, <2>2, <2>3, <2>4 DEF JobsStand
<1>14. CallStands'
  <2>1. CASE raising'
    BY <1>1, <1>7, <2>1 DEF CallStands
  <2>2. CASE ~raising'
    <3>1. results' = [results EXCEPT ![c] = r] /\ phase' = "cases"
      BY <1>1, <1>7, <2>2
    <3>2. \A d \in Cases : job'[d].pc = "collected" =>
              results'[d] = [case |-> d, verdict |-> Verdict(job'[d].outcome)]
      <4>1. results'[c] = [case |-> c, verdict |-> Verdict(job'[c].outcome)]
        BY <1>2, <1>4, <3>1 DEF r, CasesInv, TypeOK
      <4>2. \A d \in Cases \ {c} : results'[d] = results[d]
        BY <3>1 DEF CasesInv, TypeOK
      <4>. QED
        BY <1>1, <1>4, <4>1, <4>2 DEF CasesInv, CallStands
    <3>. QED
      BY <1>5, <2>2, <3>1, <3>2 DEF CallStands
  <2>. QED
    BY <2>1, <2>2
<1>15. Compiler' = Compiler
  BY <1>1, <1>3, <1>7 DEF Compiler, poolVars
<1>16. ContainersExclusive' /\ InUse' = InUse
  <2>1. \A d \in Cases : /\ job'[d].con = job[d].con
                         /\ job[d].con # 0 => job'[d].visit = job[d].visit
    BY <1>2, <1>4
  <2>. QED
    BY <1>3, <1>15, <2>1, HoldingsKept DEF poolVars
<1>17. Accounted'
  BY <1>1, <1>3, <1>5, <1>7, <1>16, PoolNames DEF CasesInv, Accounted, poolVars, Nobodys
<1>18. ResultsMatchCases' /\ ExceptionsStay'
  BY <1>1, <1>5, <1>7 DEF ResultsMatchCases, ExceptionsStay, AllQueued
<1>. QED
  BY <1>11, <1>13, <1>14, <1>16, <1>17, <1>18 DEF CasesInv

-----------------------------------------------------------------------------
(* The compiler's container.                                               *)

(* Before the first pool is entered there is no container but the compiler's. *)
LEMMA WhileCompiling ==
    ASSUME CasesInv, phase \in {"compile", "compiling"}
    PROVE  /\ \A c \in Cases : job[c].pc = "queued" /\ job[c].con = 0
           /\ \A p \in {"submission", "tool"} : queue[p] = <<>> /\ owned[p] = {}
           /\ Serving = {}
           /\ Nobodys = {} /\ docker = Compiler
           /\ ~raising
<1>1. \A c \in Cases : job[c].pc = "queued" /\ job[c].con = 0
  BY DEF CasesInv, JobsStand, BeforeCases
<1>2. /\ \A p \in {"submission", "tool"} : queue[p] = <<>> /\ owned[p] = {}
      /\ Nobodys = {} /\ docker = Nobodys \cup InUse
  BY PoolNames DEF CasesInv, Accounted
<1>3. Serving = {}
  BY <1>1 DEF Serving
<1>4. ~raising
  BY DEF CasesInv, CallStands
<1>. QED
  BY <1>1, <1>2, <1>3, <1>4 DEF InUse

(* No pool, no queue and no case has a container. *)
LEMMA NobodyHolds ==
    ASSUME CasesInv, UNCHANGED <<setting, job, queue, owned>>,
           phase \in {"compile", "compiling"}
    PROVE  /\ ContainersExclusive'
           /\ InUse' = Compiler'
           /\ AllQueued'
<1>1. /\ \A c \in Cases : job[c].pc = "queued" /\ job[c].con = 0
      /\ \A p \in {"submission", "tool"} : queue[p] = <<>> /\ owned[p] = {}
  BY WhileCompiling
<1>2. /\ Cases' = Cases /\ Visits' = Visits /\ Reuse' = Reuse /\ Sequential' = Sequential
  BY ArgumentsKept
<1>3. Serving' = {} /\ \A p : Held(p)' = {}
  BY <1>1, <1>2 DEF Serving, Held
<1>4. ContainersExclusive'
  BY <1>1, <1>2, <1>3, PoolNames, EmptyQueue DEF ContainersExclusive
<1>5. InUse' = Compiler'
  BY <1>1, <1>3 DEF InUse
<1>. QED
  BY <1>1, <1>2, <1>4, <1>5 DEF AllQueued

LEMMA CompileStartsStep == ASSUME CasesInv, CompileStarts PROVE CasesInv'
<1>. USE DEF CompileStarts
<1>1. /\ Cases' = Cases /\ Visits' = Visits /\ Reuse' = Reuse /\ Sequential' = Sequential
      /\ \A o : Verdict(o)' = Verdict(o)
  BY ArgumentsKept
<1>2. /\ \A c \in Cases : job[c].pc = "queued" /\ job[c].con = 0
      /\ \A p \in {"submission", "tool"} : queue[p] = <<>> /\ owned[p] = {}
      /\ Nobodys = {} /\ docker = {} /\ ~raising
  BY WhileCompiling DEF Compiler
<1>3. ContainersExclusive' /\ InUse' = Compiler' /\ AllQueued'
  BY NobodyHolds
<1>4. created \in Nat /\ created' = created + 1 /\ docker' = {created'} /\ Nobodys' = {}
  BY <1>2, Containers DEF Create, NewContainer, Nobodys
<1>5. TypeOK'
  <2>1. job' \in [Cases' -> JobType']
    <3>1. \A c \in Cases : job[c] \in JobType /\ job[c] \in JobType'
      <4>1. \A c \in Cases : job[c] \in JobType
        BY JobFacts
      <4>2. 0..created \subseteq 0..created'
        BY <1>4
      <4>. QED
        BY <1>1, <4>1, <4>2 DEF JobType
    <3>. QED
      BY <1>1, <3>1, JobTypes DEF CasesInv
  <2>2. /\ queue' \in [{"submission", "tool"} -> Seq(1..created')]
        /\ owned' \in [{"submission", "tool"} -> SUBSET (1..created')]
    BY <1>2, PoolNames DEF CasesInv, TypeOK
  <2>3. docker' \subseteq 1..created' /\ Nobodys' \subseteq docker' /\ created' \in Nat
    BY <1>2, <1>4
  <2>. QED
    BY <1>1, <1>4, <2>1, <2>2, <2>3, TypesGrow, PhaseTypes DEF Phases
<1>6. JobsStand'
  BY <1>1, <1>2 DEF JobsStand
<1>7. CallStands'
  BY <1>2 DEF CallStands
<1>8. Accounted'
  BY <1>2, <1>3, <1>4, PoolNames DEF Accounted, Compiler
<1>9. ResultsMatchCases' /\ ExceptionsStay'
  BY <1>2 DEF ResultsMatchCases, ExceptionsStay, AllQueued
<1>. QED
  BY <1>3, <1>5, <1>6, <1>7, <1>8, <1>9 DEF CasesInv

LEMMA CompileEndsStep ==
    ASSUME CasesInv, NEW outcome \in CompileOutcomes, CompileEnds(outcome)
    PROVE  CasesInv'
<1>1. /\ phase = "compiling" /\ RemoveContainers({created})
      /\ UNCHANGED <<setting, job, queue, owned, created>>
  BY DEF CompileEnds
<1>2. /\ Cases' = Cases /\ Visits' = Visits /\ Reuse' = Reuse /\ Sequential' = Sequential
      /\ \A o : Verdict(o)' = Verdict(o)
  BY <1>1, ArgumentsKept
<1>3. /\ \A c \in Cases : job[c].pc = "queued" /\ job[c].con = 0
      /\ \A p \in {"submission", "tool"} : queue[p] = <<>> /\ owned[p] = {}
      /\ Nobodys = {} /\ docker = {created} /\ ~raising
  BY <1>1, WhileCompiling DEF Compiler
<1>4. docker' = Nobodys' /\ Nobodys' \subseteq {created}
  <2>1. PICK refused \in SUBSET {created} :
            /\ docker' = docker \ ({created} \ refused)
            /\ unremoved' = unremoved \cup refused
            /\ unstarted' = unstarted
    BY <1>1 DEF RemoveContainers
  <2>. QED
    BY <1>3, <2>1 DEF Nobodys
<1>5. \/ /\ phase' = "enter_submission" /\ raising' = FALSE /\ results' = results
      \/ /\ phase' = "returned" /\ raising' = FALSE
         /\ results' = [c \in Cases |-> [case |-> c, verdict |-> "CE"]]
      \/ /\ phase' = "raised" /\ raising' = TRUE /\ results' = results
  BY DEF CompileEnds, CompileOutcomes
<1>6. ContainersExclusive' /\ InUse' = {} /\ AllQueued'
  BY <1>1, <1>5, NobodyHolds DEF Compiler
<1>7. TypeOK'
  <2>1. results' \in [Cases -> [case : Cases \cup {0}, verdict : Verdicts \cup {"none"}]]
    <3>1. \A c \in Cases : [case |-> c, verdict |-> "CE"] \in
              [case : Cases \cup {0}, verdict : Verdicts \cup {"none"}]
      BY DEF Verdicts
    <3>. QED
      BY <1>5, <3>1 DEF CasesInv, TypeOK
  <2>. QED
    BY <1>1, <1>2, <1>3, <1>4, <1>5, <2>1 DEF CasesInv, TypeOK, Phases, Nobodys
<1>8. JobsStand'
  BY <1>1, <1>2, <1>3 DEF JobsStand
<1>9. CallStands'
  BY <1>5 DEF CallStands
<1>10. Accounted'
  BY <1>1, <1>3, <1>4, <1>5, <1>6, PoolNames DEF Accounted
<1>11. ResultsMatchCases'
  BY <1>1, <1>2, <1>3, <1>5 DEF ResultsMatchCases, Settled
<1>12. ExceptionsStay'
  BY <1>1, <1>2, <1>3 DEF ExceptionsStay, AllQueued
<1>. QED
  BY <1>6, <1>7, <1>8, <1>9, <1>10, <1>11, <1>12 DEF CasesInv

-----------------------------------------------------------------------------
(* The containers of the pools.                                            *)

(* The containers of the pools and of the cases, one by one: a container   *)
(* of a pool is in its queue or with one of its cases, those of the cases  *)
(* are no two the same.                                                    *)
EachApart ==
    /\ \A c, d \in Cases : c # d /\ job[c].con # 0 => job[c].con # job[d].con
    /\ \A p \in {"submission", "tool"} :
          /\ IsInjective(queue[p])
          /\ \A c \in Cases : job[c].con # 0 /\ Pool(c) = p => job[c].con \notin ToSet(queue[p])
          /\ Reuse => \A x : x \in owned[p] <=>
                 \/ x \in ToSet(queue[p])
                 \/ \E c \in Cases : job[c].con # 0 /\ Pool(c) = p /\ x = job[c].con

(* Every container that exists has one owner, or none any more. *)
LEMMA Holdings ==
    ASSUME CasesInv
    PROVE  /\ EachApart
           /\ ~Reuse => \A p \in {"submission", "tool"} : queue[p] = <<>> /\ owned[p] = {}
           /\ owned["submission"] \cap owned["tool"] = {}
           /\ \A x : x \in docker <=> \/ x \in Nobodys
                                      \/ x \in owned["submission"] \cup owned["tool"]
                                      \/ \E c \in Cases : job[c].con # 0 /\ x = job[c].con
                                      \/ x \in Compiler
           /\ \A x \in Nobodys : x \notin owned["submission"] \cup owned["tool"] \cup Compiler
           /\ \A c \in Cases : job[c].con # 0 => job[c].con \notin Nobodys
<1>1. /\ \A c, d \in Cases : c # d /\ job[c].con # 0 => job[c].con # job[d].con
      /\ \A p \in {"submission", "tool"} :
            /\ IsInjective(queue[p])
            /\ ToSet(queue[p]) \cap Held(p) = {}
            /\ Reuse => owned[p] = ToSet(queue[p]) \cup Held(p)
  BY PoolNames DEF CasesInv, ContainersExclusive
<1>2. /\ \A p \in {"submission", "tool"} : ~Reuse => queue[p] = <<>> /\ owned[p] = {}
      /\ owned["submission"] \cap owned["tool"] = {}
      /\ docker = Nobodys \cup InUse
      /\ Nobodys \cap InUse = {}
      /\ Reuse \in BOOLEAN
  BY PoolNames, SettingFacts DEF CasesInv, Accounted, TypeOK
<1>3. \A p, x : x \in Held(p) <=> \E c \in Cases : job[c].con # 0 /\ Pool(c) = p /\ x = job[c].con
  BY DEF Held
<1>4. \A x : x \in Serving <=> \E c \in Cases : job[c].con # 0 /\ x = job[c].con
  BY DEF Serving
<1>5. EachApart
  BY <1>1, <1>3 DEF EachApart
<1>. QED
  BY <1>2, <1>4, <1>5 DEF InUse

(* The converse, for the state a step leads to. *)
LEMMA ApartExclusive == ASSUME EachApart' PROVE ContainersExclusive'
<1>1. \A p, x : x \in Held(p)' <=>
          \E c \in Cases' : job'[c].con # 0 /\ Pool(c)' = p /\ x = job'[c].con
  BY DEF Held
<1>2. ASSUME NEW p \in {"submission", "tool"}
      PROVE  /\ ToSet(queue'[p]) \cap Held(p)' = {}
             /\ Reuse' => owned'[p] = ToSet(queue'[p]) \cup Held(p)'
  BY <1>1 DEF EachApart
<1>. QED
  BY <1>2, PoolNames DEF ContainersExclusive, EachApart

LEMMA InUseNext ==
    \A x : x \in InUse' <=> \/ x \in owned'["submission"] \cup owned'["tool"]
                            \/ \E c \in Cases' : job'[c].con # 0 /\ x = job'[c].con
                            \/ x \in Compiler'
BY DEF InUse, Serving

(* Outside the phases that open and close the call, these are what is accounted for. *)
LEMMA AccountedOnTheWay ==
    ASSUME phase' \in {"enter_submission", "enter_tool", "cases", "exit_tool"},
           \A x : x \in docker' <=> x \in Nobodys' \/ x \in InUse',
           \A x \in Nobodys' : x \notin InUse',
           owned'["submission"] \cap owned'["tool"] = {},
           ~Reuse' => \A p \in {"submission", "tool"} : queue'[p] = <<>> /\ owned'[p] = {}
    PROVE  Accounted'
BY PoolNames DEF Accounted

(* A new container is added to pool p and to the end of its queue.         *)
LEMMA Creation ==
    ASSUME CasesInv, NEW p \in {"submission", "tool"}, CreateFor(p)
    PROVE  /\ created' = created + 1 /\ created \in Nat /\ created' \in Nat
           /\ queue' \in [{"submission", "tool"} -> Seq(1..created')]
           /\ owned' \in [{"submission", "tool"} -> SUBSET (1..created')]
           /\ docker' = docker \cup {created'} /\ docker' \subseteq 1..created'
           /\ Nobodys' = Nobodys /\ Nobodys' \subseteq docker'
           /\ \A q \in {"submission", "tool"} : IsInjective(queue'[q])
           /\ ToSet(queue'[p]) = ToSet(queue[p]) \cup {created'}
           /\ owned'[p] = owned[p] \cup {created'}
           /\ \A q \in {"submission", "tool"} \ {p} : queue'[q] = queue[q] /\ owned'[q] = owned[q]
<1>. DEFINE n == created + 1
<1>1. /\ created' = n
      /\ docker' = docker \cup {n}
      /\ owned' = [owned EXCEPT ![p] = @ \cup {n}]
      /\ queue' = [queue EXCEPT ![p] = Append(@, n)]
      /\ Nobodys' = Nobodys
  BY DEF CreateFor, Create, NewContainer, Nobodys
<1>2. /\ created \in Nat /\ n \in Nat /\ created <= n
      /\ n \notin 1..created /\ n \in 1..n /\ 1..created \subseteq 1..n
  BY Containers
<1>3. /\ queue \in [{"submission", "tool"} -> Seq(1..created)]
      /\ owned \in [{"submission", "tool"} -> SUBSET (1..created)]
      /\ Nobodys \subseteq docker /\ docker \subseteq 1..created
  BY PoolNames DEF CasesInv, TypeOK, Nobodys
<1>4. \A q \in {"submission", "tool"} :
          /\ queue[q] \in Seq(1..n) /\ IsInjective(queue[q]) /\ n \notin ToSet(queue[q])
  <2>. TAKE q \in {"submission", "tool"}
  <2>1. queue[q] \in Seq(1..created) /\ IsInjective(queue[q]) /\ ToSet(queue[q]) \subseteq 1..created
    BY Containers
  <2>. QED
    BY <1>2, <2>1, QueuesGrow
<1>. HIDE DEF n
<1>5. /\ Append(queue[p], n) \in Seq(1..n)
      /\ IsInjective(Append(queue[p], n))
      /\ ToSet(Append(queue[p], n)) = ToSet(queue[p]) \cup {n}
  BY <1>2, <1>4, AppendFacts
<1>6. /\ queue'[p] = Append(queue[p], n)
      /\ owned'[p] = owned[p] \cup {n}
      /\ \A q \in {"submission", "tool"} \ {p} : queue'[q] = queue[q] /\ owned'[q] = owned[q]
  BY <1>1, <1>3
<1>7. queue' \in [{"submission", "tool"} -> Seq(1..n)]
  BY <1>1, <1>3, <1>4, <1>5
<1>8. owned' \in [{"submission", "tool"} -> SUBSET (1..n)]
  BY <1>1, <1>2, <1>3
<1>9. created' = created + 1
  BY <1>1 DEF n
<1>10. \A q \in {"submission", "tool"} : IsInjective(queue'[q])
  BY <1>4, <1>5, <1>6
<1>11. docker' \subseteq 1..n /\ Nobodys' \subseteq docker'
  BY <1>1, <1>2, <1>3
<1>. QED
  BY <1>1, <1>2, <1>5, <1>6, <1>7, <1>8, <1>9, <1>10, <1>11

LEMMA EnterCreatesStep ==
    ASSUME CasesInv, NEW p \in {"submission", "tool"}, EnterCreates(p) PROVE CasesInv'
<1>1. /\ phase \in {"enter_submission", "enter_tool"}
      /\ Reuse /\ CreateFor(p)
      /\ UNCHANGED <<setting, phase, raising, job, results>>
  BY DEF EnterCreates, EnterPhase, UsesPool
<1>2. /\ Cases' = Cases /\ Visits' = Visits /\ Reuse' = Reuse /\ Sequential' = Sequential
      /\ \A o : Verdict(o)' = Verdict(o)
  BY <1>1, ArgumentsKept
<1>3. \A c \in Cases : job[c].pc = "queued" /\ job[c].con = 0
  BY <1>1 DEF CasesInv, JobsStand, BeforeCases
<1>4. TypeOK'
  <2>1. job' \in [Cases -> JobType']
    BY <1>1, Creation, JobsGrow, JobTypes DEF CasesInv
  <2>. QED
    BY <1>1, <2>1, Creation, TypesGrow, PhaseTypes
<1>5. JobsStand' /\ CallStands'
  BY <1>1, <1>2 DEF CasesInv, JobsStand, CallStands
<1>6. ResultsMatchCases' /\ ExceptionsStay'
  BY <1>1, <1>2 DEF CasesInv, ResultsMatchCases, ExceptionsStay, AllQueued, CallStands
<1>7. ContainersExclusive'
  <2>1. \A q \in {"submission", "tool"} : \A x : x \in owned[q] <=> x \in ToSet(queue[q])
    BY <1>1, <1>3, Holdings DEF EachApart
  <2>2. \A q \in {"submission", "tool"} :
            IsInjective(queue'[q]) /\ \A x : x \in owned'[q] <=> x \in ToSet(queue'[q])
    BY <1>1, <2>1, Creation
  <2>3. EachApart'
    BY <1>1, <1>2, <1>3, <2>2 DEF EachApart
  <2>. QED
    BY <2>3, ApartExclusive
<1>8. Accounted'
  <2>1. Compiler' = {} /\ Compiler = {}
    BY <1>1 DEF Compiler
  <2>2. \A x : x \in InUse' <=> x \in owned'["submission"] \cup owned'["tool"]
    BY <1>1, <1>2, <1>3, <2>1, InUseNext
  <2>3. \A x : x \in docker <=> x \in Nobodys \/ x \in owned["submission"] \cup owned["tool"]
    BY <1>3, <2>1, Holdings
  <2>4. created' \notin docker
    BY <1>1, Creation, Containers
  <2>5. owned'["submission"] \cup owned'["tool"] = owned["submission"] \cup owned["tool"] \cup {created'}
    BY <1>1, Creation
  <2>6. /\ \A x : x \in docker' <=> x \in Nobodys' \/ x \in InUse'
        /\ \A x \in Nobodys' : x \notin InUse'
    <3>1. docker' = docker \cup {created'} /\ Nobodys' = Nobodys
      BY <1>1, Creation
    <3>2. \A x \in Nobodys : x \notin owned["submission"] \cup owned["tool"]
      BY Holdings
    <3>. QED
      BY <2>2, <2>3, <2>4, <2>5, <3>1, <3>2
  <2>7. owned'["submission"] \cap owned'["tool"] = {}
    BY <1>1, <2>3, <2>4, Creation, Holdings
  <2>. QED
    BY <1>1, <1>2, <2>6, <2>7, AccountedOnTheWay
<1>. QED
  BY <1>4, <1>5, <1>6, <1>7, <1>8 DEF CasesInv

(* While the cases run on the pools, the pools own every container in use. *)
LEMMA PoolsOwnAll ==
    ASSUME CasesInv, Reuse, phase = "cases"
    PROVE  /\ \A c \in Cases : job[c].con # 0 => job[c].con \in owned[Pool(c)]
           /\ \A x : x \in docker <=> x \in Nobodys \/ x \in owned["submission"] \cup owned["tool"]
           /\ \A x \in Nobodys : x \notin owned["submission"] \cup owned["tool"]
<1>1. \A c \in Cases : job[c].con # 0 => job[c].con \in owned[Pool(c)]
  BY Holdings, PoolIsPool DEF EachApart
<1>2. \A c \in Cases : job[c].con # 0 => job[c].con \in owned["submission"] \cup owned["tool"]
  BY <1>1, PoolIsPool
<1>3. Compiler = {}
  BY DEF Compiler
<1>. QED
  BY <1>1, <1>2, <1>3, Holdings

LEMMA PoolsAccounted ==
    ASSUME EachApart', Reuse', phase' = "cases",
           \A x : x \in docker' <=> x \in Nobodys' \/ x \in owned'["submission"] \cup owned'["tool"],
           \A x \in Nobodys' : x \notin owned'["submission"] \cup owned'["tool"],
           owned'["submission"] \cap owned'["tool"] = {}
    PROVE  Accounted'
<1>1. \A c \in Cases' : job'[c].con # 0 => job'[c].con \in owned'[Pool(c)']
  <2>1. \A c : Pool(c)' \in {"submission", "tool"}
    BY DEF Pool, PoolOf
  <2>. QED
    BY <2>1 DEF EachApart
<1>2. \A c \in Cases' : job'[c].con # 0 => job'[c].con \in owned'["submission"] \cup owned'["tool"]
  <2>1. \A c : Pool(c)' \in {"submission", "tool"}
    BY DEF Pool, PoolOf
  <2>. QED
    BY <1>1, <2>1
<1>3. Compiler' = {}
  BY DEF Compiler
<1>4. \A x : x \in InUse' <=> x \in owned'["submission"] \cup owned'["tool"]
  BY <1>2, <1>3, InUseNext
<1>. QED
  BY <1>4, AccountedOnTheWay

(* A case that holds no container, or moves on with the same command, leaves *)
(* the pools of the other cases as they are.                                *)
LEMMA PoolKept ==
    ASSUME UNCHANGED setting, NEW d, job'[d].visit = job[d].visit
    PROVE  Pool(d)' = Pool(d)
BY ArgumentsKept DEF Pool

LEMMA TakeStep ==
    ASSUME CasesInv, NEW c \in Cases, Take(c) PROVE CasesInv'
<1>. DEFINE P == Pool(c)
            x == Head(queue[P])
            j == [job[c] EXCEPT !.pc = "exec", !.con = x]
<1>1. /\ Reuse /\ job[c].pc = "ready" /\ queue[P] # <<>>
      /\ job' = [job EXCEPT ![c] = j]
      /\ queue' = [queue EXCEPT ![P] = Tail(@)]
      /\ UNCHANGED <<setting, phase, raising, results, owned, created, docker>>
      /\ Nobodys' = Nobodys
  BY DEF Take, Nobodys
<1>2. P \in {"submission", "tool"}
  BY PoolIsPool
<1>3. /\ job[c] \in JobType /\ job[c].con = 0 /\ phase = "cases" /\ ~raising
  BY <1>1, JobFacts
<1>4. /\ x \in ToSet(queue[P]) /\ x \in 1..created /\ x \in owned[P]
      /\ Tail(queue[P]) \in Seq(1..created)
      /\ IsInjective(Tail(queue[P]))
      /\ ToSet(Tail(queue[P])) = ToSet(queue[P]) \ {x}
  <2>1. queue[P] \in Seq(1..created) /\ IsInjective(queue[P]) /\ ToSet(queue[P]) \subseteq 1..created
    BY <1>2, Containers
  <2>2. \A y \in ToSet(queue[P]) : y \in owned[P]
    BY <1>1, <1>2, Holdings DEF EachApart
  <2>. QED
    BY <1>1, <2>1, <2>2, TailFacts
<1>. HIDE DEF P, x
<1>5. /\ j \in JobType /\ j.con = x /\ j.visit = job[c].visit /\ j.pc = "exec" /\ x # 0
  <2>1. x \in 0..created /\ x # 0
    BY <1>4, Containers
  <2>. QED
    BY <1>3, <2>1 DEF JobType, JobPcs
<1>. HIDE DEF j
<1>6. /\ JobsStand' /\ CallStands' /\ ResultsMatchCases' /\ ExceptionsStay'
      /\ job'[c] = j
      /\ \A d \in Cases \ {c} : job'[d] = job[d]
  BY <1>1, <1>3, <1>5, MovesOn, StartedInOrder
<1>7. /\ Cases' = Cases /\ Reuse' = Reuse
      /\ \A d \in Cases : Pool(d)' = Pool(d)
  BY <1>1, <1>5, <1>6, ArgumentsKept, PoolKept
<1>8. /\ queue'[P] = Tail(queue[P])
      /\ \A q \in {"submission", "tool"} \ {P} : queue'[q] = queue[q]
      /\ queue' \in [{"submission", "tool"} -> Seq(1..created)]
  BY <1>1, <1>2, <1>4, PoolNames DEF CasesInv, TypeOK
<1>9. TypeOK'
  <2>1. JobType' = JobType
    BY <1>1, ArgumentsKept DEF JobType
  <2>2. job' \in [Cases -> JobType']
    BY <1>1, <1>5, <2>1, JobMoves
  <2>3. /\ owned \in [{"submission", "tool"} -> SUBSET (1..created)]
        /\ Nobodys \subseteq docker /\ docker \subseteq 1..created /\ created \in Nat
    BY PoolNames DEF CasesInv, TypeOK, Nobodys
  <2>. QED
    BY <1>1, <1>8, <2>2, <2>3, TypesGrow, PhaseTypes
<1>10. EachApart'
  <2>1. ASSUME NEW d \in Cases \ {c}, job[d].con # 0 PROVE job[d].con # x
    <3>1. CASE Pool(d) = P
      BY <1>2, <1>4, <2>1, <3>1, Holdings DEF EachApart
    <3>2. CASE Pool(d) # P
      <4>1. job[d].con \in owned[Pool(d)]
        BY <1>1, <1>3, <2>1, PoolsOwnAll
      <4>. QED
        BY <1>2, <1>4, <3>2, <4>1, Holdings, PoolIsPool
    <3>. QED
      BY <3>1, <3>2
  <2>2. ASSUME NEW a \in Cases, NEW b \in Cases, a # b, job'[a].con # 0
        PROVE  job'[a].con # job'[b].con
    BY <1>5, <1>6, <2>1, <2>2, Holdings DEF EachApart
  <2>3. ASSUME NEW q \in {"submission", "tool"}, NEW a \in Cases,
               job'[a].con # 0, Pool(a) = q
        PROVE  job'[a].con \notin ToSet(queue'[q])
    <3>1. CASE a = c
      BY <1>4, <1>5, <1>6, <1>8, <2>3, <3>1 DEF P
    <3>2. CASE a # c
      BY <1>4, <1>6, <1>8, <2>3, <3>2, Holdings DEF EachApart
    <3>. QED
      BY <3>1, <3>2
  <2>4. ASSUME NEW q \in {"submission", "tool"}, NEW y
        PROVE  y \in owned'[q] <=> \/ y \in ToSet(queue'[q])
                                   \/ \E a \in Cases : job'[a].con # 0 /\ Pool(a) = q /\ y = job'[a].con
    <3>1. y \in owned[q] <=> \/ y \in ToSet(queue[q])
                             \/ \E a \in Cases : job[a].con # 0 /\ Pool(a) = q /\ y = job[a].con
      BY <1>1, Holdings DEF EachApart
    <3>2. (\E a \in Cases : job'[a].con # 0 /\ Pool(a) = q /\ y = job'[a].con) <=>
              \/ \E a \in Cases : job[a].con # 0 /\ Pool(a) = q /\ y = job[a].con
              \/ q = P /\ y = x
      BY <1>3, <1>5, <1>6 DEF P
    <3>3. y \in ToSet(queue'[q]) <=> y \in ToSet(queue[q]) /\ ~(q = P /\ y = x)
      <4>1. CASE q = P
        BY <1>4, <1>8, <4>1
      <4>2. CASE q # P
        BY <1>8, <4>2
      <4>. QED
        BY <4>1, <4>2
    <3>4. q = P /\ y = x => y \in ToSet(queue[q])
      BY <1>4
    <3>. QED
      BY <1>1, <3>1, <3>2, <3>3, <3>4
  <2>5. ASSUME NEW q \in {"submission", "tool"} PROVE IsInjective(queue'[q])
    BY <1>4, <1>8, Holdings DEF EachApart
  <2>. QED
    BY <1>7, <2>2, <2>3, <2>4, <2>5 DEF EachApart
<1>11. Accounted'
  BY <1>1, <1>3, <1>7, <1>10, PoolsOwnAll, PoolsAccounted, Holdings
<1>. QED
  BY <1>6, <1>9, <1>10, <1>11, ApartExclusive DEF CasesInv

(* The job of a case whose container is back. *)
LEMMA NextVisitFacts ==
    ASSUME TypeOK, NEW j \in JobType, j.pc \in {"release", "recreate"}, j.outcome # "none"
    PROVE  /\ NextVisit(j) \in JobType
           /\ NextVisit(j).con = 0
           /\ NextVisit(j).pc \in {"ready", "finished"}
           /\ NextVisit(j).pc = "finished" => NextVisit(j).outcome # "none"
<1>1. created \in Nat /\ Len(Visits) \in Nat
  BY SettingFacts DEF TypeOK
<1>2. CASE j.outcome = "ok" /\ j.visit < Len(Visits)
  <2>1. j.visit + 1 \in 1..Len(Visits)
    BY <1>1, <1>2 DEF JobType
  <2>2. NextVisit(j) = [pc |-> "ready", visit |-> j.visit + 1, con |-> 0, outcome |-> "none"]
    BY <1>2 DEF NextVisit
  <2>3. 0 \in 0..created
    BY <1>1
  <2>. QED
    BY <2>1, <2>2, <2>3 DEF JobType, JobPcs, Outcomes
<1>3. CASE ~(j.outcome = "ok" /\ j.visit < Len(Visits))
  <2>1. NextVisit(j) = [j EXCEPT !.pc = "finished", !.con = 0]
    BY <1>3 DEF NextVisit
  <2>2. 0 \in 0..created
    BY <1>1
  <2>. QED
    BY <2>1, <2>2 DEF JobType, JobPcs
<1>. QED
  BY <1>2, <1>3

LEMMA GiveBackStep ==
    ASSUME CasesInv, NEW c \in Cases, GiveBack(c) PROVE CasesInv'
<1>. DEFINE P == Pool(c)
            x == job[c].con
            j == NextVisit(job[c])
<1>1. /\ Reuse /\ job[c].pc = "release"
      /\ job' = [job EXCEPT ![c] = j]
      /\ queue' = [queue EXCEPT ![P] = Append(@, x)]
      /\ UNCHANGED <<setting, phase, raising, results, owned, created, docker>>
      /\ Nobodys' = Nobodys
  BY DEF GiveBack, Nobodys
<1>2. P \in {"submission", "tool"}
  BY PoolIsPool
<1>3. /\ job[c] \in JobType /\ x # 0 /\ phase = "cases" /\ ~raising /\ job[c].outcome # "none"
  BY <1>1, JobFacts DEF CasesInv, JobsStand
<1>4. /\ x \notin ToSet(queue[P]) /\ x \in owned[P]
      /\ Append(queue[P], x) \in Seq(1..created)
      /\ IsInjective(Append(queue[P], x))
      /\ ToSet(Append(queue[P], x)) = ToSet(queue[P]) \cup {x}
  <2>1. x \notin ToSet(queue[P]) /\ x \in owned[P]
    BY <1>1, <1>2, <1>3, Holdings, PoolsOwnAll DEF EachApart
  <2>2. queue[P] \in Seq(1..created) /\ IsInjective(queue[P]) /\ x \in 1..created
    BY <1>2, <2>1, Containers
  <2>. DEFINE S == 1..created
              s == queue[P]
  <2>. HIDE DEF P, x, S, s
  <2>3. s \in Seq(S) /\ x \in S /\ x \notin ToSet(s) /\ IsInjective(s)
    BY <2>1, <2>2 DEF S, s
  <2>4. /\ Append(s, x) \in Seq(S)
        /\ IsInjective(Append(s, x))
        /\ ToSet(Append(s, x)) = ToSet(s) \cup {x}
    BY <2>3, AppendFacts
  <2>. QED
    BY <2>1, <2>4 DEF S, s
<1>5. /\ j \in JobType /\ j.con = 0 /\ j.pc \in {"ready", "finished"}
      /\ j.pc = "finished" => j.outcome # "none"
  BY <1>1, <1>3, NextVisitFacts DEF CasesInv
<1>. HIDE DEF j
<1>6. /\ JobsStand' /\ CallStands' /\ ResultsMatchCases' /\ ExceptionsStay'
      /\ job'[c] = j
      /\ \A d \in Cases \ {c} : job'[d] = job[d]
  BY <1>1, <1>3, <1>5, MovesOn, StartedInOrder
<1>7. /\ Cases' = Cases /\ Reuse' = Reuse
      /\ \A d \in Cases \ {c} : Pool(d)' = Pool(d)
  BY <1>1, <1>6, ArgumentsKept, PoolKept
<1>. HIDE DEF P, x
<1>8. /\ queue'[P] = Append(queue[P], x)
      /\ \A q \in {"submission", "tool"} \ {P} : queue'[q] = queue[q]
      /\ queue' \in [{"submission", "tool"} -> Seq(1..created)]
  BY <1>1, <1>2, <1>4, PoolNames DEF CasesInv, TypeOK
<1>9. TypeOK'
  <2>1. JobType' = JobType
    BY <1>1, ArgumentsKept DEF JobType
  <2>2. job' \in [Cases -> JobType']
    BY <1>1, <1>5, <2>1, JobMoves
  <2>3. /\ owned \in [{"submission", "tool"} -> SUBSET (1..created)]
        /\ Nobodys \subseteq docker /\ docker \subseteq 1..created /\ created \in Nat
    BY PoolNames DEF CasesInv, TypeOK, Nobodys
  <2>. QED
    BY <1>1, <1>8, <2>2, <2>3, TypesGrow, PhaseTypes
<1>10. EachApart'
  <2>1. \A d \in Cases \ {c} : job[d].con # 0 => job[d].con # x
    BY <1>3, Holdings DEF EachApart, x
  <2>2. ASSUME NEW a \in Cases, NEW b \in Cases, a # b, job'[a].con # 0
        PROVE  job'[a].con # job'[b].con
    BY <1>5, <1>6, <2>2, Holdings DEF EachApart
  <2>3. ASSUME NEW q \in {"submission", "tool"}, NEW a \in Cases,
               job'[a].con # 0, Pool(a)' = q
        PROVE  job'[a].con \notin ToSet(queue'[q])
    <3>1. a # c /\ job[a].con # 0 /\ job[a].con # x /\ Pool(a) = q /\ job'[a] = job[a]
      BY <1>5, <1>6, <1>7, <2>1, <2>3
    <3>2. job[a].con \notin ToSet(queue[q])
      BY <3>1, Holdings DEF EachApart
    <3>. QED
      BY <1>4, <1>8, <3>1, <3>2
  <2>4. ASSUME NEW q \in {"submission", "tool"}, NEW y
        PROVE  y \in owned'[q] <=> \/ y \in ToSet(queue'[q])
                                   \/ \E a \in Cases : job'[a].con # 0 /\ Pool(a)' = q /\ y = job'[a].con
    <3>1. y \in owned[q] <=> \/ y \in ToSet(queue[q])
                             \/ \E a \in Cases : job[a].con # 0 /\ Pool(a) = q /\ y = job[a].con
      BY <1>1, Holdings DEF EachApart
    <3>2. (\E a \in Cases : job[a].con # 0 /\ Pool(a) = q /\ y = job[a].con) <=>
              \/ \E a \in Cases : job'[a].con # 0 /\ Pool(a)' = q /\ y = job'[a].con
              \/ q = P /\ y = x
      BY <1>3, <1>5, <1>6, <1>7 DEF P, x
    <3>3. y \in ToSet(queue'[q]) <=> y \in ToSet(queue[q]) \/ (q = P /\ y = x)
      <4>1. CASE q = P
        BY <1>4, <1>8, <4>1
      <4>2. CASE q # P
        BY <1>8, <4>2
      <4>. QED
        BY <4>1, <4>2
    <3>. QED
      BY <1>1, <3>1, <3>2, <3>3
  <2>5. ASSUME NEW q \in {"submission", "tool"} PROVE IsInjective(queue'[q])
    BY <1>4, <1>8, Holdings DEF EachApart
  <2>. QED
    BY <1>7, <2>2, <2>3, <2>4, <2>5 DEF EachApart
<1>11. Accounted'
  BY <1>1, <1>3, <1>7, <1>10, PoolsOwnAll, PoolsAccounted, Holdings
<1>. QED
  BY <1>6, <1>9, <1>10, <1>11, ApartExclusive DEF CasesInv

LEMMA DiscardStep ==
    ASSUME CasesInv, NEW c \in Cases, Discard(c) PROVE CasesInv'
<1>. DEFINE P == Pool(c)
            x == job[c].con
            j == [job[c] EXCEPT !.pc = "recreate", !.con = 0]
<1>1. /\ Reuse /\ job[c].pc = "release"
      /\ job' = [job EXCEPT ![c] = j]
      /\ owned' = [owned EXCEPT ![P] = @ \ {x}]
      /\ RemoveContainers({x})
      /\ UNCHANGED <<setting, phase, raising, results, queue, created>>
  BY DEF Discard
<1>2. P \in {"submission", "tool"}
  BY PoolIsPool
<1>3. /\ job[c] \in JobType /\ x # 0 /\ phase = "cases" /\ ~raising /\ job[c].outcome # "none"
  BY <1>1, JobFacts DEF CasesInv, JobsStand
<1>4. x \notin ToSet(queue[P]) /\ x \in owned[P] /\ created \in Nat
  <2>1. x \notin ToSet(queue[P])
    BY <1>1, <1>2, <1>3, Holdings DEF EachApart
  <2>2. x \in owned[P]
    BY <1>1, <1>3, PoolsOwnAll
  <2>. QED
    BY <2>1, <2>2, Containers
<1>5. /\ j \in JobType /\ j.con = 0 /\ j.pc = "recreate" /\ j.outcome # "none"
  <2>1. 0 \in 0..created
    BY <1>4
  <2>. QED
    BY <1>3, <2>1 DEF JobType, JobPcs
<1>. HIDE DEF j
<1>6. /\ JobsStand' /\ CallStands' /\ ResultsMatchCases' /\ ExceptionsStay'
      /\ job'[c] = j
      /\ \A d \in Cases \ {c} : job'[d] = job[d]
  BY <1>1, <1>3, <1>5, MovesOn, StartedInOrder
<1>7. /\ Cases' = Cases /\ Reuse' = Reuse
      /\ \A d \in Cases \ {c} : Pool(d)' = Pool(d)
  BY <1>1, <1>6, ArgumentsKept, PoolKept
<1>. HIDE DEF P, x
<1>8. /\ owned'[P] = owned[P] \ {x}
      /\ \A q \in {"submission", "tool"} \ {P} : owned'[q] = owned[q]
      /\ owned' \in [{"submission", "tool"} -> SUBSET (1..created)]
  BY <1>1, <1>2, PoolNames DEF CasesInv, TypeOK
<1>9. PICK refused \in SUBSET {x} : /\ docker' = docker \ ({x} \ refused)
                                    /\ Nobodys' = Nobodys \cup refused
  BY <1>1 DEF RemoveContainers, Nobodys
<1>10. /\ \A y : y \in docker <=> y \in Nobodys \/ y \in owned["submission"] \cup owned["tool"]
       /\ \A y \in Nobodys : y \notin owned["submission"] \cup owned["tool"]
       /\ owned["submission"] \cap owned["tool"] = {}
  BY <1>1, <1>3, PoolsOwnAll, Holdings
<1>11. owned'["submission"] \cup owned'["tool"] = (owned["submission"] \cup owned["tool"]) \ {x}
  BY <1>2, <1>4, <1>8, <1>10
<1>12. x \in docker /\ x \notin Nobodys
  BY <1>2, <1>4, <1>10
<1>13. TypeOK'
  <2>1. JobType' = JobType
    BY <1>1, ArgumentsKept DEF JobType
  <2>2. job' \in [Cases -> JobType']
    BY <1>1, <1>5, <2>1, JobMoves
  <2>3. /\ queue \in [{"submission", "tool"} -> Seq(1..created)]
        /\ Nobodys \subseteq docker /\ docker \subseteq 1..created /\ created \in Nat
    BY PoolNames DEF CasesInv, TypeOK, Nobodys
  <2>4. Nobodys' \subseteq docker' /\ docker' \subseteq 1..created
    BY <1>9, <1>12, <2>3
  <2>. QED
    BY <1>1, <1>8, <2>2, <2>3, <2>4, TypesGrow, PhaseTypes
<1>14. EachApart'
  <2>1. \A d \in Cases \ {c} : job[d].con # 0 => job[d].con # x
    BY <1>3, Holdings DEF EachApart, x
  <2>2. ASSUME NEW a \in Cases, NEW b \in Cases, a # b, job'[a].con # 0
        PROVE  job'[a].con # job'[b].con
    BY <1>5, <1>6, <2>2, Holdings DEF EachApart
  <2>3. ASSUME NEW q \in {"submission", "tool"}, NEW a \in Cases,
               job'[a].con # 0, Pool(a)' = q
        PROVE  job'[a].con \notin ToSet(queue'[q])
    <3>1. a # c /\ job[a].con # 0 /\ Pool(a) = q /\ job'[a] = job[a]
      BY <1>5, <1>6, <1>7, <2>3
    <3>. QED
      BY <1>1, <3>1, Holdings DEF EachApart
  <2>4. ASSUME NEW q \in {"submission", "tool"}, NEW y
        PROVE  y \in owned'[q] <=> \/ y \in ToSet(queue'[q])
                                   \/ \E a \in Cases : job'[a].con # 0 /\ Pool(a)' = q /\ y = job'[a].con
    <3>1. y \in owned[q] <=> \/ y \in ToSet(queue[q])
                             \/ \E a \in Cases : job[a].con # 0 /\ Pool(a) = q /\ y = job[a].con
      BY <1>1, Holdings DEF EachApart
    <3>2. (\E a \in Cases : job[a].con # 0 /\ Pool(a) = q /\ y = job[a].con) <=>
              \/ \E a \in Cases : job'[a].con # 0 /\ Pool(a)' = q /\ y = job'[a].con
              \/ q = P /\ y = x
      BY <1>3, <1>5, <1>6, <1>7 DEF P, x
    <3>3. (\E a \in Cases : job'[a].con # 0 /\ Pool(a)' = q /\ y = job'[a].con) => y # x
      BY <1>5, <1>6, <2>1
    <3>4. CASE q = P
      BY <1>1, <1>4, <1>8, <3>1, <3>2, <3>3, <3>4
    <3>5. CASE q # P
      BY <1>1, <1>8, <3>1, <3>2, <3>5
    <3>. QED
      BY <3>4, <3>5
  <2>5. ASSUME NEW q \in {"submission", "tool"} PROVE IsInjective(queue'[q])
    BY <1>1, Holdings DEF EachApart
  <2>. QED
    BY <1>7, <2>2, <2>3, <2>4, <2>5 DEF EachApart
<1>15. Accounted'
  <2>1. /\ \A y : y \in docker' <=> y \in Nobodys' \/ y \in owned'["submission"] \cup owned'["tool"]
        /\ \A y \in Nobodys' : y \notin owned'["submission"] \cup owned'["tool"]
    BY <1>9, <1>10, <1>11, <1>12
  <2>2. owned'["submission"] \cap owned'["tool"] = {}
    BY <1>2, <1>8, <1>10
  <2>. QED
    BY <1>1, <1>3, <1>7, <1>14, <2>1, <2>2, PoolsAccounted
<1>. QED
  BY <1>6, <1>13, <1>14, <1>15, ApartExclusive DEF CasesInv

LEMMA ReplaceStep ==
    ASSUME CasesInv, NEW c \in Cases, Replace(c) PROVE CasesInv'
<1>. DEFINE P == Pool(c)
            j == NextVisit(job[c])
<1>1. /\ job[c].pc = "recreate" /\ CreateFor(P)
      /\ job' = [job EXCEPT ![c] = j]
      /\ UNCHANGED <<setting, phase, raising, results>>
  BY DEF Replace
<1>2. P \in {"submission", "tool"}
  BY PoolIsPool
<1>3. /\ job[c] \in JobType /\ job[c].con = 0 /\ phase = "cases" /\ ~raising
      /\ job[c].outcome # "none" /\ Reuse
  BY <1>1, JobFacts DEF CasesInv, JobsStand
<1>4. /\ j \in JobType /\ j.con = 0 /\ j.pc \in {"ready", "finished"}
      /\ j.pc = "finished" => j.outcome # "none"
  BY <1>1, <1>3, NextVisitFacts DEF CasesInv
<1>. HIDE DEF j, P
<1>5. /\ JobsStand' /\ CallStands' /\ ResultsMatchCases' /\ ExceptionsStay'
      /\ job'[c] = j
      /\ \A d \in Cases \ {c} : job'[d] = job[d]
  BY <1>1, <1>3, <1>4, MovesOn, StartedInOrder
<1>6. /\ Cases' = Cases /\ Reuse' = Reuse
      /\ \A d \in Cases \ {c} : Pool(d)' = Pool(d)
  BY <1>1, <1>5, ArgumentsKept, PoolKept
<1>7. /\ created' = created + 1 /\ created \in Nat /\ created' \in Nat
      /\ queue' \in [{"submission", "tool"} -> Seq(1..created')]
      /\ owned' \in [{"submission", "tool"} -> SUBSET (1..created')]
      /\ docker' = docker \cup {created'} /\ docker' \subseteq 1..created'
      /\ Nobodys' = Nobodys /\ Nobodys' \subseteq docker'
      /\ \A q \in {"submission", "tool"} : IsInjective(queue'[q])
      /\ ToSet(queue'[P]) = ToSet(queue[P]) \cup {created'}
      /\ owned'[P] = owned[P] \cup {created'}
      /\ \A q \in {"submission", "tool"} \ {P} : queue'[q] = queue[q] /\ owned'[q] = owned[q]
  BY <1>1, <1>2, Creation
<1>8. TypeOK'
  <2>1. JobType \subseteq JobType'
    BY <1>1, <1>7, JobsGrow
  <2>2. job' \in [Cases -> JobType']
    BY <1>1, <1>4, <2>1, JobMoves
  <2>. QED
    BY <1>1, <1>7, <2>2, TypesGrow, PhaseTypes
<1>9. /\ created' \notin docker /\ \A d \in Cases : job[d].con # created'
  BY <1>7, Containers, JobFacts
<1>10. EachApart'
  <2>1. ASSUME NEW a \in Cases, NEW b \in Cases, a # b, job'[a].con # 0
        PROVE  job'[a].con # job'[b].con
    BY <1>4, <1>5, <2>1, Holdings DEF EachApart
  <2>2. ASSUME NEW q \in {"submission", "tool"}, NEW a \in Cases,
               job'[a].con # 0, Pool(a)' = q
        PROVE  job'[a].con \notin ToSet(queue'[q])
    <3>1. a # c /\ job[a].con # 0 /\ Pool(a) = q /\ job'[a] = job[a]
      BY <1>4, <1>5, <1>6, <2>2
    <3>2. job[a].con \notin ToSet(queue[q]) /\ job[a].con # created'
      BY <1>9, <3>1, Holdings DEF EachApart
    <3>. QED
      BY <1>7, <3>1, <3>2
  <2>3. ASSUME NEW q \in {"submission", "tool"}, NEW y
        PROVE  y \in owned'[q] <=> \/ y \in ToSet(queue'[q])
                                   \/ \E a \in Cases : job'[a].con # 0 /\ Pool(a)' = q /\ y = job'[a].con
    <3>1. y \in owned[q] <=> \/ y \in ToSet(queue[q])
                             \/ \E a \in Cases : job[a].con # 0 /\ Pool(a) = q /\ y = job[a].con
      BY <1>3, Holdings DEF EachApart
    <3>2. (\E a \in Cases : job[a].con # 0 /\ Pool(a) = q /\ y = job[a].con) <=>
              \E a \in Cases : job'[a].con # 0 /\ Pool(a)' = q /\ y = job'[a].con
      BY <1>3, <1>4, <1>5, <1>6
    <3>3. CASE q = P
      BY <1>7, <3>1, <3>2, <3>3
    <3>4. CASE q # P
      BY <1>7, <3>1, <3>2, <3>4
    <3>. QED
      BY <3>3, <3>4
  <2>. QED
    BY <1>6, <1>7, <2>1, <2>2, <2>3 DEF EachApart
<1>11. Accounted'
  <2>1. /\ \A y : y \in docker <=> y \in Nobodys \/ y \in owned["submission"] \cup owned["tool"]
        /\ \A y \in Nobodys : y \notin owned["submission"] \cup owned["tool"]
        /\ owned["submission"] \cap owned["tool"] = {}
    BY <1>3, PoolsOwnAll, Holdings
  <2>2. owned'["submission"] \cup owned'["tool"] = owned["submission"] \cup owned["tool"] \cup {created'}
    BY <1>2, <1>7
  <2>3. /\ \A y : y \in docker' <=> y \in Nobodys' \/ y \in owned'["submission"] \cup owned'["tool"]
        /\ \A y \in Nobodys' : y \notin owned'["submission"] \cup owned'["tool"]
    BY <1>7, <1>9, <2>1, <2>2
  <2>4. owned'["submission"] \cap owned'["tool"] = {}
    BY <1>2, <1>7, <1>9, <2>1
  <2>. QED
    BY <1>1, <1>3, <1>6, <1>10, <2>3, <2>4, PoolsAccounted
<1>. QED
  BY <1>5, <1>8, <1>10, <1>11, ApartExclusive DEF CasesInv

-----------------------------------------------------------------------------
(* A container per command.                                                *)

LEMMA OwnAccounted ==
    ASSUME ~Reuse', phase' = "cases",
           \A p \in {"submission", "tool"} : queue'[p] = <<>> /\ owned'[p] = {},
           \A c, d \in Cases' : c # d /\ job'[c].con # 0 => job'[c].con # job'[d].con,
           \A x : x \in docker' <=>
               x \in Nobodys' \/ \E c \in Cases' : job'[c].con # 0 /\ x = job'[c].con,
           \A c \in Cases' : job'[c].con # 0 => job'[c].con \notin Nobodys'
    PROVE  ContainersExclusive' /\ Accounted'
<1>1. EachApart'
  BY EmptyQueue DEF EachApart
<1>2. Compiler' = {}
  BY DEF Compiler
<1>3. \A x : x \in InUse' <=> \E c \in Cases' : job'[c].con # 0 /\ x = job'[c].con
  BY <1>2, InUseNext
<1>4. Accounted'
  BY <1>3, AccountedOnTheWay
<1>. QED
  BY <1>1, <1>4, ApartExclusive

LEMMA OwnContainers ==
    ASSUME CasesInv, ~Reuse, phase = "cases"
    PROVE  /\ \A p \in {"submission", "tool"} : queue[p] = <<>> /\ owned[p] = {}
           /\ \A c, d \in Cases : c # d /\ job[c].con # 0 => job[c].con # job[d].con
           /\ \A x : x \in docker <=>
                  x \in Nobodys \/ \E c \in Cases : job[c].con # 0 /\ x = job[c].con
           /\ \A c \in Cases : job[c].con # 0 => job[c].con \notin Nobodys
<1>1. Compiler = {}
  BY DEF Compiler
<1>. QED
  BY <1>1, Holdings DEF EachApart

LEMMA RunOwnStep ==
    ASSUME CasesInv, NEW c \in Cases, RunOwn(c) PROVE CasesInv'
<1>. DEFINE x == created + 1
            j == [job[c] EXCEPT !.pc = "exec", !.con = x]
<1>1. /\ ~Reuse /\ job[c].pc = "ready"
      /\ created' = x /\ docker' = docker \cup {x}
      /\ job' = [job EXCEPT ![c] = j]
      /\ UNCHANGED <<setting, phase, raising, results, queue, owned>>
      /\ Nobodys' = Nobodys
  BY DEF RunOwn, Create, NewContainer, Nobodys
<1>2. /\ job[c] \in JobType /\ job[c].con = 0 /\ phase = "cases" /\ ~raising
  BY <1>1, JobFacts
<1>3. /\ x \in Nat /\ x # 0 /\ created \in Nat /\ created <= x /\ x \in 0..x /\ x \in 1..x
      /\ x \notin 1..created /\ 1..created \subseteq 1..x
      /\ docker \subseteq 1..created /\ x \notin Nobodys /\ x \notin docker
      /\ \A d \in Cases : job[d].con # x
  <2>1. created \in Nat
    BY Containers
  <2>2. \A d \in Cases : job[d].con \in 0..created
    BY JobFacts
  <2>. QED
    BY <2>1, <2>2, Containers
<1>. HIDE DEF x
<1>4. /\ j \in JobType' /\ j.con = x /\ j.pc = "exec"
  <2>1. job[c] \in JobType'
    BY <1>1, <1>2, <1>3, JobsGrow
  <2>. QED
    BY <1>1, <1>3, <2>1 DEF JobType, JobPcs
<1>. HIDE DEF j
<1>5. /\ JobsStand' /\ CallStands' /\ ResultsMatchCases' /\ ExceptionsStay'
      /\ job'[c] = j
      /\ \A d \in Cases \ {c} : job'[d] = job[d]
  BY <1>1, <1>2, <1>3, <1>4, MovesOn, StartedInOrder
<1>6. Cases' = Cases /\ Reuse' = Reuse
  BY <1>1, ArgumentsKept
<1>7. /\ \A p \in {"submission", "tool"} : queue[p] = <<>> /\ owned[p] = {}
      /\ \A a, b \in Cases : a # b /\ job[a].con # 0 => job[a].con # job[b].con
      /\ \A y : y \in docker <=>
             y \in Nobodys \/ \E a \in Cases : job[a].con # 0 /\ y = job[a].con
      /\ \A a \in Cases : job[a].con # 0 => job[a].con \notin Nobodys
  BY <1>1, <1>2, OwnContainers
<1>8. TypeOK'
  <2>1. JobType \subseteq JobType'
    BY <1>1, <1>3, JobsGrow
  <2>2. job' \in [Cases -> JobType']
    BY <1>1, <1>4, <2>1, JobTypes DEF CasesInv
  <2>3. /\ queue' \in [{"submission", "tool"} -> Seq(1..x)]
        /\ owned' \in [{"submission", "tool"} -> SUBSET (1..x)]
    BY <1>1, <1>7, PoolNames DEF CasesInv, TypeOK
  <2>4. Nobodys' \subseteq docker' /\ docker' \subseteq 1..x
    BY <1>1, <1>3, Containers
  <2>. QED
    BY <1>1, <1>3, <2>2, <2>3, <2>4, TypesGrow, PhaseTypes
<1>9. ContainersExclusive' /\ Accounted'
  <2>1. \A a, b \in Cases : a # b /\ job'[a].con # 0 => job'[a].con # job'[b].con
    BY <1>3, <1>4, <1>5, <1>7
  <2>2. ASSUME NEW y
        PROVE  y \in docker' <=> y \in Nobodys' \/ \E a \in Cases : job'[a].con # 0 /\ y = job'[a].con
    <3>1. (\E a \in Cases : job'[a].con # 0 /\ y = job'[a].con) <=>
              (\E a \in Cases : job[a].con # 0 /\ y = job[a].con) \/ y = x
      BY <1>2, <1>3, <1>4, <1>5
    <3>. QED
      BY <1>1, <1>7, <3>1
  <2>3. \A a \in Cases : job'[a].con # 0 => job'[a].con \notin Nobodys'
    BY <1>1, <1>3, <1>4, <1>5, <1>7
  <2>. QED
    BY <1>1, <1>2, <1>6, <1>7, <2>1, <2>2, <2>3, OwnAccounted
<1>. QED
  BY <1>5, <1>8, <1>9 DEF CasesInv

LEMMA RemoveOwnStep ==
    ASSUME CasesInv, NEW c \in Cases, RemoveOwn(c) PROVE CasesInv'
<1>. DEFINE x == job[c].con
            j == IF unremoved' = unremoved
                 THEN NextVisit(job[c])
                 ELSE [job[c] EXCEPT !.pc = "finished", !.con = 0, !.outcome = "error"]
<1>1. /\ ~Reuse /\ job[c].pc = "release"
      /\ RemoveContainers({x})
      /\ job' = [job EXCEPT ![c] = j]
      /\ UNCHANGED <<setting, phase, raising, results, queue, owned, created>>
  BY DEF RemoveOwn
<1>2. /\ job[c] \in JobType /\ x # 0 /\ phase = "cases" /\ ~raising /\ job[c].outcome # "none"
  BY <1>1, JobFacts DEF CasesInv, JobsStand
<1>3. PICK refused \in SUBSET {x} : /\ docker' = docker \ ({x} \ refused)
                                    /\ Nobodys' = Nobodys \cup refused
  BY <1>1 DEF RemoveContainers, Nobodys
<1>4. /\ j \in JobType /\ j.con = 0 /\ j.pc \in {"ready", "finished"}
      /\ j.pc = "finished" => j.outcome # "none"
  <2>1. CASE unremoved' = unremoved
    BY <1>1, <1>2, <2>1, NextVisitFacts DEF CasesInv
  <2>2. CASE unremoved' # unremoved
    <3>1. 0 \in 0..created
      BY Containers
    <3>2. j = [job[c] EXCEPT !.pc = "finished", !.con = 0, !.outcome = "error"]
      BY <2>2
    <3>. HIDE DEF j
    <3>. QED
      BY <1>2, <3>1, <3>2 DEF JobType, JobPcs, Outcomes
  <2>. QED
    BY <2>1, <2>2
<1>. HIDE DEF j
<1>5. /\ JobsStand' /\ CallStands' /\ ResultsMatchCases' /\ ExceptionsStay'
      /\ job'[c] = j
      /\ \A d \in Cases \ {c} : job'[d] = job[d]
  BY <1>1, <1>2, <1>4, MovesOn, StartedInOrder
<1>6. Cases' = Cases /\ Reuse' = Reuse
  BY <1>1, ArgumentsKept
<1>7. /\ \A p \in {"submission", "tool"} : queue[p] = <<>> /\ owned[p] = {}
      /\ \A a, b \in Cases : a # b /\ job[a].con # 0 => job[a].con # job[b].con
      /\ \A y : y \in docker <=>
             y \in Nobodys \/ \E a \in Cases : job[a].con # 0 /\ y = job[a].con
      /\ \A a \in Cases : job[a].con # 0 => job[a].con \notin Nobodys
  BY <1>1, <1>2, OwnContainers
<1>8. /\ x \in docker /\ x \notin Nobodys
      /\ \A d \in Cases \ {c} : job[d].con # 0 => job[d].con # x
  BY <1>2, <1>7
<1>9. TypeOK'
  <2>1. JobType' = JobType
    BY <1>1, ArgumentsKept DEF JobType
  <2>2. job' \in [Cases -> JobType']
    BY <1>1, <1>4, <2>1, JobMoves
  <2>3. /\ queue \in [{"submission", "tool"} -> Seq(1..created)]
        /\ owned \in [{"submission", "tool"} -> SUBSET (1..created)]
        /\ Nobodys \subseteq docker /\ docker \subseteq 1..created /\ created \in Nat
    BY PoolNames DEF CasesInv, TypeOK, Nobodys
  <2>4. Nobodys' \subseteq docker' /\ docker' \subseteq 1..created
    BY <1>3, <1>8, <2>3
  <2>. QED
    BY <1>1, <2>2, <2>3, <2>4, TypesGrow, PhaseTypes
<1>. HIDE DEF x
<1>10. ContainersExclusive' /\ Accounted'
  <2>1. \A a, b \in Cases : a # b /\ job'[a].con # 0 => job'[a].con # job'[b].con
    BY <1>4, <1>5, <1>7
  <2>2. ASSUME NEW y
        PROVE  y \in docker' <=> y \in Nobodys' \/ \E a \in Cases : job'[a].con # 0 /\ y = job'[a].con
    <3>1. (\E a \in Cases : job'[a].con # 0 /\ y = job'[a].con) <=>
              (\E a \in Cases : job[a].con # 0 /\ y = job[a].con) /\ y # x
      BY <1>2, <1>4, <1>5, <1>8 DEF x
    <3>. QED
      BY <1>3, <1>7, <1>8, <3>1
  <2>3. \A a \in Cases : job'[a].con # 0 => job'[a].con \notin Nobodys'
    BY <1>3, <1>4, <1>5, <1>7, <1>8
  <2>. QED
    BY <1>1, <1>2, <1>6, <1>7, <2>1, <2>2, <2>3, OwnAccounted
<1>. QED
  BY <1>5, <1>9, <1>10 DEF CasesInv

-----------------------------------------------------------------------------
(* The exits.                                                              *)

LEMMA ExitStep ==
    ASSUME CasesInv, NEW p \in {"submission", "tool"}, Exit(p) PROVE CasesInv'
<1>1. /\ phase = IF p = "tool" THEN "exit_tool" ELSE "exit_submission"
      /\ RemoveContainers(owned[p])
      /\ owned' = [owned EXCEPT ![p] = {}]
      /\ queue' = [queue EXCEPT ![p] = <<>>]
      /\ phase' = IF p = "tool" THEN "exit_submission" ELSE IF raising THEN "raised" ELSE "returned"
      /\ UNCHANGED <<setting, raising, job, results, created>>
  BY DEF Exit
<1>2. /\ Cases' = Cases /\ Visits' = Visits /\ Reuse' = Reuse /\ Sequential' = Sequential
      /\ \A o : Verdict(o)' = Verdict(o)
  BY <1>1, ArgumentsKept
<1>3. \A c \in Cases : job[c].pc \in {"queued", "collected"} /\ job[c].con = 0
  BY <1>1 DEF CasesInv, JobsStand
<1>4. Compiler = {} /\ Compiler' = {}
  BY <1>1 DEF Compiler
<1>5. /\ queue \in [{"submission", "tool"} -> Seq(1..created)]
      /\ owned \in [{"submission", "tool"} -> SUBSET (1..created)]
      /\ Nobodys \subseteq docker /\ docker \subseteq 1..created
  BY PoolNames DEF CasesInv, TypeOK, Nobodys
<1>6. /\ queue'[p] = <<>> /\ owned'[p] = {}
      /\ \A q \in {"submission", "tool"} \ {p} : queue'[q] = queue[q] /\ owned'[q] = owned[q]
  BY <1>1, <1>5
<1>7. PICK refused \in SUBSET owned[p] : /\ docker' = docker \ (owned[p] \ refused)
                                         /\ Nobodys' = Nobodys \cup refused
  BY <1>1 DEF RemoveContainers, Nobodys
<1>8. /\ \A x : x \in docker <=> x \in Nobodys \/ x \in owned["submission"] \cup owned["tool"]
      /\ \A x \in Nobodys : x \notin owned["submission"] \cup owned["tool"]
      /\ owned["submission"] \cap owned["tool"] = {}
  BY <1>3, <1>4, Holdings
<1>9. TypeOK'
  <2>1. /\ queue' \in [{"submission", "tool"} -> Seq(1..created)]
        /\ owned' \in [{"submission", "tool"} -> SUBSET (1..created)]
    BY <1>1, <1>5
  <2>2. Nobodys' \subseteq docker' /\ docker' \subseteq 1..created
    BY <1>5, <1>7, <1>8
  <2>. QED
    BY <1>1, <1>2, <2>1, <2>2, PoolNames DEF CasesInv, TypeOK, Phases, Nobodys
<1>10. JobsStand'
  BY <1>1, <1>2, <1>3 DEF CasesInv, JobsStand, BeforeCases
<1>11. CallStands'
  BY <1>1, <1>2 DEF CasesInv, CallStands
<1>12. ContainersExclusive'
  <2>1. \A q \in {"submission", "tool"} : Reuse => \A x : x \in owned[q] <=> x \in ToSet(queue[q])
    BY <1>3, Holdings DEF EachApart
  <2>2. \A q \in {"submission", "tool"} :
            /\ IsInjective(queue'[q])
            /\ Reuse => \A x : x \in owned'[q] <=> x \in ToSet(queue'[q])
    BY <1>6, <2>1, EmptyQueue, Containers
  <2>3. EachApart'
    BY <1>1, <1>2, <1>3, <2>2 DEF EachApart
  <2>. QED
    BY <2>3, ApartExclusive
<1>13. Accounted'
  <2>1. \A x : x \in InUse' <=> x \in owned'["submission"] \cup owned'["tool"]
    BY <1>1, <1>2, <1>3, <1>4, InUseNext
  <2>2. owned'["submission"] \cup owned'["tool"] = (owned["submission"] \cup owned["tool"]) \ owned[p]
    BY <1>6, <1>8
  <2>3. docker' = Nobodys' \cup InUse' /\ Nobodys' \cap InUse' = {}
    <3>1. \A x : x \in docker' <=> x \in Nobodys' \/ x \in InUse'
      BY <1>7, <1>8, <2>1, <2>2
    <3>2. \A x \in Nobodys' : x \notin InUse'
      BY <1>7, <1>8, <2>1, <2>2
    <3>. QED
      BY <3>1, <3>2
  <2>4. owned'["submission"] \cap owned'["tool"] = {}
    BY <1>6, <1>8
  <2>5. \A q \in {"submission", "tool"} :
            /\ ~Reuse' => queue'[q] = <<>> /\ owned'[q] = {}
            /\ owned'[q] # {} => Reuse'
    BY <1>2, <1>6, PoolNames DEF CasesInv, Accounted
  <2>6. owned'["tool"] = {} \/ (raising' /\ AllQueued')
    <3>1. CASE p = "tool"
      BY <1>6, <3>1
    <3>2. CASE p = "submission"
      BY <1>1, <1>2, <1>6, <3>2 DEF CasesInv, Accounted, AllQueued
    <3>. QED
      BY <3>1, <3>2
  <2>7. phase' \in {"returned", "raised"} => owned'["submission"] = {}
    BY <1>1, <1>6
  <2>8. phase' \notin {"compile", "compiling"}
    BY <1>1
  <2>. QED
    BY <2>3, <2>4, <2>5, <2>6, <2>7, <2>8, PoolNames DEF Accounted
<1>14. ResultsMatchCases'
  <2>1. ASSUME phase' = "returned", NEW c \in Cases
        PROVE  /\ job[c].pc = "collected"
               /\ results[c] = [case |-> c, verdict |-> Verdict(job[c].outcome)]
    <3>1. phase \in {"exit_tool", "exit_submission"} /\ ~raising
      BY <1>1, <2>1
    <3>. QED
      BY <2>1, <3>1 DEF CasesInv, CallStands
  <2>2. ASSUME phase' = "returned", NEW c \in Cases
        PROVE  /\ job'[c].pc = "collected"
               /\ results'[c].case = c /\ results'[c].verdict = Verdict(job'[c].outcome)
    <3>. DEFINE v == Verdict(job[c].outcome)
    <3>1. job[c].pc = "collected" /\ results[c] = [case |-> c, verdict |-> v]
      BY <2>1, <2>2
    <3>. HIDE DEF v
    <3>2. results[c].case = c /\ results[c].verdict = v
      BY <3>1
    <3>3. job' = job /\ results' = results
      BY <1>1
    <3>4. Verdict(job'[c].outcome) = v
      BY <3>3 DEF v
    <3>. QED
      BY <3>1, <3>2, <3>3, <3>4
  <2>. QED
    BY <1>1, <1>2, <2>2 DEF ResultsMatchCases, Settled, Verdict
<1>15. ExceptionsStay'
  BY <1>1, <1>2 DEF CasesInv, ExceptionsStay, AllQueued
<1>. QED
  BY <1>9, <1>10, <1>11, <1>12, <1>13, <1>14, <1>15 DEF CasesInv

-----------------------------------------------------------------------------
(* The first layer.                                                        *)

(* Every step keeps what is accounted for. *)
LEMMA CasesStep == CasesInv /\ [Next]_vars => CasesInv'
<1>. SUFFICES ASSUME CasesInv, [Next]_vars PROVE CasesInv'
  OBVIOUS
<1>1. CASE NoCompile
  BY <1>1, NoCompileStep
<1>2. CASE CompileStarts
  BY <1>2, CompileStartsStep
<1>3. CASE CompileNotStarted
  BY <1>3, CompileNotStartedStep
<1>4. ASSUME NEW outcome \in CompileOutcomes, CompileEnds(outcome) PROVE CasesInv'
  BY <1>4, CompileEndsStep
<1>5. ASSUME NEW p \in {"submission", "tool"},
             EnterCreates(p) \/ EnterDone(p) \/ EnterFails(p) \/ Exit(p)
      PROVE  CasesInv'
  BY <1>5, EnterCreatesStep, EnterDoneStep, EnterFailsStep, ExitStep
<1>6. ASSUME NEW c \in Cases, StartCase(c) \/ ExecEnds(c) \/ Collect(c)
      PROVE  CasesInv'
  BY <1>6, StartCaseStep, ExecEndsStep, CollectStep
<1>7. ASSUME NEW c \in Cases,
             Take(c) \/ GiveBack(c) \/ Discard(c) \/ Replace(c) \/ ReplaceFails(c)
      PROVE  CasesInv'
  BY <1>7, TakeStep, GiveBackStep, DiscardStep, ReplaceStep, ReplaceFailsStep
<1>8. ASSUME NEW c \in Cases, RunOwn(c) \/ RunOwnFails(c) \/ RemoveOwn(c)
      PROVE  CasesInv'
  BY <1>8, RunOwnStep, RunOwnFailsStep, RemoveOwnStep
<1>9. CASE CasesDone
  BY <1>9, CasesDoneStep
<1>10. CASE UNCHANGED vars
  BY <1>10, OverStep
<1>. QED
  BY <1>1, <1>2, <1>3, <1>4, <1>5, <1>6, <1>7, <1>8, <1>9, <1>10, PoolNames DEF Next, Over

-----------------------------------------------------------------------------
(* The second layer: what the failures cost.                               *)

LEMMA SetsFinite ==
    ASSUME CasesInv
    PROVE  /\ PoolSize \in Nat
           /\ IsFiniteSet(Failed) /\ Cardinality(Failed) \in Nat
           /\ \A p \in {"submission", "tool"} :
                 /\ IsFiniteSet(owned[p]) /\ Cardinality(owned[p]) \in Nat
                 /\ IsFiniteSet(Recreating(p)) /\ Cardinality(Recreating(p)) \in Nat
<1>1. PoolSize \in Nat /\ NumCases \in Int /\ created \in Int
  BY SettingFacts, Containers DEF CasesInv, TypeOK, PoolSize
<1>2. IsFiniteSet(1..NumCases) /\ IsFiniteSet(1..created)
  BY <1>1, FS_Interval
<1>3. Failed \in SUBSET (1..NumCases)
  BY DEF Failed, Cases
<1>4. ASSUME NEW p \in {"submission", "tool"}
      PROVE  owned[p] \in SUBSET (1..created) /\ Recreating(p) \in SUBSET (1..NumCases)
  BY Containers DEF Recreating, Cases
<1>5. IsFiniteSet(Failed)
  BY <1>2, <1>3, FS_Subset
<1>6. \A p \in {"submission", "tool"} : IsFiniteSet(owned[p]) /\ IsFiniteSet(Recreating(p))
  BY <1>2, <1>4, FS_Subset
<1>. QED
  BY <1>1, <1>5, <1>6, FS_CardinalityType

MovesCase(c) ==
    \/ StartCase(c) \/ Take(c) \/ RunOwn(c) \/ RunOwnFails(c) \/ ExecEnds(c)
    \/ GiveBack(c) \/ Discard(c) \/ Replace(c) \/ ReplaceFails(c) \/ RemoveOwn(c) \/ Collect(c)

(* A step moves one case or none; an error that a case ended in stays.      *)
LEMMA OthersStay ==
    ASSUME CasesInv, NEW c \in Cases, MovesCase(c)
    PROVE  /\ UNCHANGED setting
           /\ \A d \in Cases \ {c} : job'[d] = job[d]
           /\ c \in Failed => Settled(c)' /\ job'[c].outcome = "error"
<1>1. job \in [Cases -> JobType]
  BY JobTypes DEF CasesInv
<1>2. CASE Collect(c)
  <2>1. job' = [job EXCEPT ![c].pc = "collected"] /\ UNCHANGED setting
    BY <1>2 DEF Collect
  <2>. QED
    BY <1>1, <2>1 DEF Failed, Settled, JobType
<1>3. CASE ~Collect(c)
  <2>1. UNCHANGED setting /\ \A d \in Cases \ {c} : job'[d] = job[d]
    BY <1>1, <1>3 DEF MovesCase, StartCase, Take, RunOwn, RunOwnFails, ExecEnds, GiveBack,
                      Discard, Replace, ReplaceFails, RemoveOwn
  <2>2. ~Settled(c)
    BY <1>3 DEF Settled, MovesCase, StartCase, Take, RunOwn, RunOwnFails, ExecEnds, GiveBack,
                Discard, Replace, ReplaceFails, RemoveOwn
  <2>. QED
    BY <2>1, <2>2 DEF Failed
<1>. QED
  BY <1>2, <1>3

LEMMA FailuresStay ==
    ASSUME CasesInv, [Next]_vars
    PROVE  UNCHANGED setting /\ Failed \subseteq Failed'
<1>1. CASE \E c \in Cases : MovesCase(c)
  <2>1. PICK c \in Cases : MovesCase(c)
    BY <1>1
  <2>2. /\ UNCHANGED setting
        /\ \A d \in Cases \ {c} : job'[d] = job[d]
        /\ c \in Failed => Settled(c)' /\ job'[c].outcome = "error"
    BY <2>1, OthersStay
  <2>3. Cases' = Cases
    BY <2>2, ArgumentsKept
  <2>. QED
    BY <2>2, <2>3 DEF Failed, Settled
<1>2. CASE UNCHANGED <<setting, job>>
  BY <1>2, ArgumentsKept DEF Failed, Settled
<1>. QED
  BY <1>1, <1>2 DEF Next, MovesCase, NoCompile, CompileStarts, CompileNotStarted, CompileEnds,
                    EnterCreates, EnterDone, EnterFails, Exit, CasesDone, Over, vars

(* Whatever was created and not started, somebody has seen the exception.   *)
LEMMA NeverSilentlyStep ==
    ASSUME CasesInv, NeverSilently, [Next]_vars
    PROVE  NeverSilently'
<1>1. Failed \subseteq Failed'
  BY FailuresStay
<1>2. CASE CompileNotStarted
  BY <1>2 DEF CompileNotStarted, NeverSilently
<1>3. ASSUME NEW outcome \in CompileOutcomes, CompileEnds(outcome) PROVE NeverSilently'
  <2>1. unstarted = {}
    BY <1>3, WhileCompiling DEF CompileEnds, Nobodys
  <2>. QED
    BY <1>3, <2>1 DEF CompileEnds, RemoveContainers, NeverSilently
<1>4. ASSUME NEW p \in ToSet(Pools), EnterFails(p) PROVE NeverSilently'
  BY <1>4 DEF EnterFails, NeverSilently
<1>5. ASSUME NEW c \in Cases, RunOwnFails(c) \/ ReplaceFails(c) PROVE NeverSilently'
  <2>1. UNCHANGED setting /\ job' = [job EXCEPT ![c] = [@ EXCEPT !.pc = "finished", !.outcome = "error"]]
    BY <1>5 DEF RunOwnFails, ReplaceFails
  <2>2. job[c] \in JobType /\ Cases' = Cases /\ job \in [Cases -> JobType]
    BY <2>1, JobFacts, JobTypes, ArgumentsKept DEF CasesInv
  <2>3. job'[c].pc = "finished" /\ job'[c].outcome = "error"
    BY <2>1, <2>2 DEF JobType
  <2>4. c \in Failed'
    BY <2>2, <2>3 DEF Failed, Settled
  <2>. QED
    BY <2>4 DEF NeverSilently
<1>6. CASE UNCHANGED unstarted /\ (raising => raising')
  BY <1>1, <1>6 DEF NeverSilently
<1>7. CASE NoCompile \/ CompileStarts \/ CasesDone \/ UNCHANGED vars
  BY <1>6, <1>7 DEF NoCompile, CompileStarts, CasesDone, vars, poolVars
<1>8. ASSUME NEW p \in ToSet(Pools), EnterCreates(p) \/ EnterDone(p) \/ Exit(p)
      PROVE  NeverSilently'
  BY <1>6, <1>8 DEF EnterCreates, EnterDone, Exit, CreateFor, RemoveContainers, poolVars
<1>9. ASSUME NEW c \in Cases, MovesCase(c), ~RunOwnFails(c), ~ReplaceFails(c)
      PROVE  NeverSilently'
  <2>1. CASE Collect(c)
    BY <1>6, <2>1 DEF Collect, poolVars
  <2>2. CASE StartCase(c) \/ Take(c) \/ RunOwn(c) \/ ExecEnds(c) \/ GiveBack(c)
    BY <1>6, <2>2 DEF StartCase, Take, RunOwn, ExecEnds, GiveBack, poolVars
  <2>3. CASE Discard(c) \/ Replace(c)
    BY <1>6, <2>3 DEF Discard, Replace, CreateFor, RemoveContainers
  <2>4. CASE RemoveOwn(c)
    <3>1. UNCHANGED <<unstarted, raising>>
      BY <2>4 DEF RemoveOwn, RemoveContainers
    <3>. QED
      BY <1>6, <3>1
  <2>. QED
    BY <1>9, <2>1, <2>2, <2>3, <2>4 DEF MovesCase
<1>. QED
  BY <1>2, <1>3, <1>4, <1>5, <1>7, <1>8, <1>9 DEF Next, MovesCase, Over

(* The pools are entered one after the other.                               *)
LEMMA PoolsEnteredStep ==
    ASSUME CasesInv, PoolsEntered, [Next]_vars
    PROVE  PoolsEntered'
<1>1. UNCHANGED setting
  BY FailuresStay
<1>2. UsesPool("submission")' = UsesPool("submission") /\ PoolSize' = PoolSize
  BY <1>1 DEF UsesPool, PoolSize, Reuse, Visits, NumCases, NumWorkers, PoolOf
<1>3. owned \in [{"submission", "tool"} -> SUBSET (1..created)]
  BY PoolNames DEF CasesInv, TypeOK
<1>4. ASSUME phase \in {"compile", "compiling"}, UNCHANGED owned, phase' # "enter_tool"
      PROVE  PoolsEntered'
  <2>1. owned["tool"] = {} /\ owned["submission"] = {}
    BY <1>4, WhileCompiling
  <2>. QED
    BY <1>4, <2>1, PoolNames DEF PoolsEntered
<1>5. CASE NoCompile \/ CompileStarts \/ CompileNotStarted
  BY <1>4, <1>5 DEF NoCompile, CompileStarts, CompileNotStarted, CreateRaises, poolVars
<1>6. ASSUME NEW outcome \in CompileOutcomes, CompileEnds(outcome) PROVE PoolsEntered'
  <2>1. phase' \in {"enter_submission", "returned", "raised"}
    BY <1>6 DEF CompileEnds, CompileOutcomes
  <2>. QED
    BY <1>4, <1>6, <2>1 DEF CompileEnds
<1>7. CASE EnterCreates("submission") \/ EnterCreates("tool")
  <2>1. CASE EnterCreates("submission")
    <3>1. phase' = "enter_submission" /\ phase = phase' /\ owned'["tool"] = owned["tool"]
      BY <1>3, <2>1 DEF EnterCreates, EnterPhase, CreateFor
    <3>. QED
      BY <3>1 DEF PoolsEntered, Ended
  <2>2. CASE EnterCreates("tool")
    <3>1. phase' = "enter_tool" /\ phase = phase' /\ owned'["submission"] = owned["submission"]
      BY <1>3, <2>2 DEF EnterCreates, EnterPhase, CreateFor
    <3>. QED
      BY <1>2, <3>1 DEF PoolsEntered, Ended
  <2>. QED
    BY <1>7, <2>1, <2>2
<1>8. CASE EnterDone("submission") \/ EnterDone("tool")
  BY <1>2, <1>8 DEF EnterDone, EnterPhase, PoolsEntered, Ended, poolVars
<1>9. CASE EnterFails("submission") \/ EnterFails("tool")
  BY <1>9, PoolNames DEF EnterFails, EnterPhase, CreateRaises, PoolsEntered, Ended
<1>10. CASE Exit("submission") \/ Exit("tool")
  <2>1. CASE Exit("tool")
    <3>1. phase' = "exit_submission"
      BY <2>1 DEF Exit
    <3>. QED
      BY <3>1 DEF PoolsEntered, Ended
  <2>2. CASE Exit("submission")
    <3>1. phase' \in {"returned", "raised"} /\ owned'["submission"] = {}
      BY <1>3, <2>2 DEF Exit
    <3>. QED
      BY <3>1, PoolNames DEF PoolsEntered
  <2>. QED
    BY <1>10, <2>1, <2>2
<1>11. ASSUME NEW c \in Cases, MovesCase(c) PROVE PoolsEntered'
  <2>1. phase = "cases"
    <3>1. CASE job[c].pc \in {"queued", "collected"}
      BY <1>11, <3>1 DEF MovesCase, StartCase, Take, RunOwn, RunOwnFails, ExecEnds, GiveBack,
                         Discard, Replace, ReplaceFails, RemoveOwn, Collect
    <3>2. CASE job[c].pc \notin {"queued", "collected"}
      BY <3>2, JobFacts
    <3>. QED
      BY <3>1, <3>2
  <2>2. phase' \in {"cases", "exit_tool"}
    BY <1>11, <2>1 DEF MovesCase, StartCase, Take, RunOwn, RunOwnFails, ExecEnds, GiveBack,
                       Discard, Replace, ReplaceFails, RemoveOwn, Collect
  <2>. QED
    BY <2>2 DEF PoolsEntered, Ended
<1>12. CASE CasesDone
  BY <1>12 DEF CasesDone, PoolsEntered, Ended
<1>13. CASE UNCHANGED vars
  BY <1>2, <1>13 DEF PoolsEntered, Ended, vars
<1>. QED
  BY <1>5, <1>6, <1>7, <1>8, <1>9, <1>10, <1>11, <1>12, <1>13, PoolNames DEF Next, Over, MovesCase

(* A step in which no pool loses more than the cases that fail.             *)
LEMMA Balanced ==
    ASSUME CasesInv, LosesOnePerFailure, phase = "cases", UNCHANGED setting, CasesInv',
           \A p \in {"submission", "tool"} :
               Cardinality(owned[p]) + Cardinality(Recreating(p)) + Cardinality(Failed)
                 <= Cardinality(owned'[p]) + Cardinality(Recreating(p)') + Cardinality(Failed')
    PROVE  LosesOnePerFailure'
<1>1. \A p : UsesPool(p)' = UsesPool(p)
  BY DEF UsesPool, Reuse, Visits, PoolOf
<1>2. PoolSize' = PoolSize
  BY DEF PoolSize, NumCases, NumWorkers
<1>3. ASSUME NEW p \in {"submission", "tool"}, UsesPool(p)
      PROVE  PoolSize <= Cardinality(owned'[p]) + Cardinality(Recreating(p)') + Cardinality(Failed')
  <2>1. /\ PoolSize \in Nat
        /\ Cardinality(owned[p]) \in Nat
        /\ Cardinality(Recreating(p)) \in Nat
        /\ Cardinality(Failed) \in Nat
    BY SetsFinite
  <2>2. /\ Cardinality(owned'[p]) \in Nat
        /\ Cardinality(Recreating(p)') \in Nat
        /\ Cardinality(Failed') \in Nat
    <3>1. Cases' = Cases /\ NumCases \in Int
      BY SettingFacts, ArgumentsKept DEF CasesInv, TypeOK
    <3>2. created' \in Int /\ owned'[p] \in SUBSET (1..created')
      BY PoolNames DEF CasesInv, TypeOK
    <3>3. IsFiniteSet(1..NumCases) /\ IsFiniteSet(1..created')
      BY <3>1, <3>2, FS_Interval
    <3>4. Recreating(p)' \in SUBSET (1..NumCases) /\ Failed' \in SUBSET (1..NumCases)
      BY <3>1 DEF Recreating, Failed, Cases
    <3>5. IsFiniteSet(owned'[p]) /\ IsFiniteSet(Recreating(p)') /\ IsFiniteSet(Failed')
      BY <3>2, <3>3, <3>4, FS_Subset
    <3>. QED
      BY <3>5, FS_CardinalityType
  <2>3. PoolSize <= Cardinality(owned[p]) + Cardinality(Recreating(p)) + Cardinality(Failed)
    BY <1>3, PoolNames DEF LosesOnePerFailure
  <2>. QED
    BY <2>1, <2>2, <2>3
<1>. QED
  BY <1>1, <1>2, <1>3, PoolNames DEF LosesOnePerFailure

(* Where a pool is entered, it has its full size.                           *)
LEMMA FullSize ==
    ASSUME CasesInv, PoolsEntered, CasesInv', NEW p \in {"submission", "tool"}, EnterDone(p)
    PROVE  LosesOnePerFailure'
<1>1. UNCHANGED <<setting, job, owned>> /\ phase = EnterPhase(p)
  BY DEF EnterDone, poolVars
<1>2. /\ \A q : UsesPool(q)' = UsesPool(q)
      /\ PoolSize' = PoolSize
      /\ \A q : Recreating(q)' = Recreating(q)
      /\ Failed' = Failed
  BY <1>1, ArgumentsKept DEF UsesPool, Reuse, Visits, PoolOf, PoolSize, NumCases, NumWorkers,
                             Recreating, Failed, Settled, Pool
<1>3. ASSUME phase' = "cases", NEW q \in {"submission", "tool"}, UsesPool(q)
      PROVE  PoolSize <= Cardinality(owned[q]) + Cardinality(Recreating(q)) + Cardinality(Failed)
  <2>1. p = "tool" /\ phase = "enter_tool"
    BY <1>1, <1>3 DEF EnterDone, EnterPhase
  <2>2. Cardinality(owned[q]) = PoolSize
    BY <1>3, <2>1 DEF EnterDone, PoolsEntered
  <2>3. Cardinality(Recreating(q)) \in Nat /\ Cardinality(Failed) \in Nat /\ PoolSize \in Nat
    BY SetsFinite
  <2>. QED
    BY <2>2, <2>3
<1>. QED
  BY <1>1, <1>2, <1>3, PoolNames DEF LosesOnePerFailure

(* What a case that moves does to the two sets that count.                  *)
LEMMA CaseCounts ==
    ASSUME CasesInv, NEW c \in Cases, MovesCase(c)
    PROVE  /\ Cases' = Cases
           /\ \A d \in Cases \ {c} : job'[d] = job[d] /\ Pool(d)' = Pool(d)
           /\ \A p : Recreating(p)' =
                  (Recreating(p) \ {c}) \cup {d \in {c} : job'[d].pc = "recreate" /\ Pool(d)' = p}
           /\ Failed' = (Failed \ {c}) \cup {d \in {c} : Settled(d)' /\ job'[d].outcome = "error"}
<1>1. UNCHANGED setting /\ \A d \in Cases \ {c} : job'[d] = job[d]
  BY OthersStay
<1>2. Cases' = Cases /\ \A d \in Cases \ {c} : Pool(d)' = Pool(d)
  BY <1>1, ArgumentsKept, PoolKept
<1>3. ASSUME NEW p
      PROVE  Recreating(p)' =
                 (Recreating(p) \ {c}) \cup {d \in {c} : job'[d].pc = "recreate" /\ Pool(d)' = p}
  BY <1>1, <1>2 DEF Recreating
<1>4. Failed' = (Failed \ {c}) \cup {d \in {c} : Settled(d)' /\ job'[d].outcome = "error"}
  BY <1>1, <1>2 DEF Failed, Settled
<1>. QED
  BY <1>1, <1>2, <1>3, <1>4

(* A case that neither takes part in a replacement nor gets the exception   *)
(* of one costs nothing.                                                    *)
LEMMA NoReplacement ==
    ASSUME CasesInv, LosesOnePerFailure, CasesInv', NEW c \in Cases, MovesCase(c),
           phase = "cases", UNCHANGED owned,
           job[c].pc # "recreate", job'[c].pc # "recreate"
    PROVE  LosesOnePerFailure'
<1>1. UNCHANGED setting /\ Failed \subseteq Failed'
  BY OthersStay, CaseCounts DEF Failed, Settled
<1>2. \A p : Recreating(p)' = Recreating(p)
  <2>. TAKE p
  <2>1. Recreating(p)' =
            (Recreating(p) \ {c}) \cup {d \in {c} : job'[d].pc = "recreate" /\ Pool(d)' = p}
    BY CaseCounts
  <2>2. c \notin Recreating(p)
    BY DEF Recreating
  <2>. QED
    BY <2>1, <2>2
<1>3. IsFiniteSet(Failed')
  <2>1. Cases' = Cases /\ NumCases \in Int
    BY <1>1, SettingFacts, ArgumentsKept DEF CasesInv, TypeOK
  <2>2. IsFiniteSet(1..NumCases)
    BY <2>1, FS_Interval
  <2>3. Failed' \in SUBSET (1..NumCases)
    BY <2>1 DEF Failed, Cases
  <2>. QED
    BY <2>2, <2>3, FS_Subset
<1>4. Cardinality(Failed) <= Cardinality(Failed') /\ Cardinality(Failed') \in Nat
  BY <1>1, <1>3, FS_Subset, FS_CardinalityType
<1>5. \A p \in {"submission", "tool"} :
          Cardinality(owned[p]) + Cardinality(Recreating(p)) + Cardinality(Failed)
            <= Cardinality(owned'[p]) + Cardinality(Recreating(p)') + Cardinality(Failed')
  <2>. TAKE p \in {"submission", "tool"}
  <2>1. /\ Cardinality(owned[p]) \in Nat /\ Cardinality(Recreating(p)) \in Nat
        /\ Cardinality(Failed) \in Nat
    BY SetsFinite
  <2>2. Cardinality(owned'[p]) = Cardinality(owned[p])
        /\ Cardinality(Recreating(p)') = Cardinality(Recreating(p))
    BY <1>2
  <2>. QED
    BY <1>4, <2>1, <2>2
<1>. QED
  BY <1>1, <1>5, Balanced

(* A discarded container is one the case is about to replace.               *)
LEMMA DiscardBalanced ==
    ASSUME CasesInv, LosesOnePerFailure, CasesInv', NEW c \in Cases, Discard(c)
    PROVE  LosesOnePerFailure'
<1>1. MovesCase(c) /\ Reuse /\ job[c].pc = "release" /\ UNCHANGED setting
  BY DEF MovesCase, Discard
<1>2. job[c] \in JobType /\ job[c].con # 0 /\ phase = "cases"
  BY <1>1, JobFacts
<1>3. PICK P \in {"submission", "tool"} : P = Pool(c)
  BY PoolIsPool
<1>. DEFINE x == job[c].con
<1>4. x \in owned[P]
  BY <1>1, <1>2, <1>3, PoolsOwnAll
<1>5. /\ job' = [job EXCEPT ![c] = [@ EXCEPT !.pc = "recreate", !.con = 0]]
      /\ owned' = [owned EXCEPT ![P] = @ \ {x}]
  BY <1>3 DEF Discard
<1>6. job'[c] = [job[c] EXCEPT !.pc = "recreate", !.con = 0]
  BY <1>5, JobTypes DEF CasesInv
<1>7. job'[c].pc = "recreate" /\ job'[c].visit = job[c].visit
  BY <1>2, <1>6 DEF JobType
<1>8. Pool(c)' = P
  BY <1>1, <1>3, <1>7, PoolKept
<1>. HIDE DEF x
<1>9. /\ owned'[P] = owned[P] \ {x}
      /\ \A q \in {"submission", "tool"} \ {P} : owned'[q] = owned[q]
  BY <1>5, Containers, PoolNames DEF CasesInv, TypeOK
<1>10. /\ Recreating(P)' = Recreating(P) \cup {c} /\ c \notin Recreating(P)
       /\ \A q \in {"submission", "tool"} \ {P} : Recreating(q)' = Recreating(q)
  <2>1. \A q : c \notin Recreating(q)
    BY <1>1 DEF Recreating
  <2>2. \A q : Recreating(q)' =
            (Recreating(q) \ {c}) \cup {d \in {c} : job'[d].pc = "recreate" /\ Pool(d)' = q}
    BY <1>1, CaseCounts
  <2>. QED
    BY <1>7, <1>8, <2>1, <2>2
<1>11. Failed' = Failed
  <2>1. c \notin Failed /\ ~Settled(c)'
    BY <1>1, <1>7 DEF Failed, Settled
  <2>2. Failed' = (Failed \ {c}) \cup {d \in {c} : Settled(d)' /\ job'[d].outcome = "error"}
    BY <1>1, CaseCounts
  <2>. QED
    BY <2>1, <2>2
<1>12. ASSUME NEW p \in {"submission", "tool"}
       PROVE  Cardinality(owned[p]) + Cardinality(Recreating(p)) + Cardinality(Failed)
                <= Cardinality(owned'[p]) + Cardinality(Recreating(p)') + Cardinality(Failed')
  <2>1. /\ IsFiniteSet(owned[p]) /\ Cardinality(owned[p]) \in Nat
        /\ IsFiniteSet(Recreating(p)) /\ Cardinality(Recreating(p)) \in Nat
        /\ Cardinality(Failed) \in Nat
    BY SetsFinite
  <2>2. CASE p = P
    <3>1. Cardinality(owned'[p]) = Cardinality(owned[p]) - 1
      BY <1>4, <1>9, <2>1, <2>2, FS_RemoveElement
    <3>2. Cardinality(Recreating(p)') = Cardinality(Recreating(p)) + 1
      BY <1>10, <2>1, <2>2, FS_AddElement
    <3>. QED
      BY <1>11, <2>1, <3>1, <3>2
  <2>3. CASE p # P
    <3>1. owned'[p] = owned[p] /\ Recreating(p)' = Recreating(p)
      BY <1>9, <1>10, <2>3
    <3>. QED
      BY <1>11, <2>1, <3>1
  <2>. QED
    BY <2>2, <2>3
<1>. QED
  BY <1>1, <1>2, <1>12, Balanced

(* A replacement is a container more and a case that replaces less.         *)
LEMMA ReplaceBalanced ==
    ASSUME CasesInv, LosesOnePerFailure, CasesInv', NEW c \in Cases, Replace(c)
    PROVE  LosesOnePerFailure'
<1>1. MovesCase(c) /\ job[c].pc = "recreate" /\ CreateFor(Pool(c)) /\ UNCHANGED setting
  BY DEF MovesCase, Replace
<1>2. job[c] \in JobType /\ phase = "cases" /\ job[c].outcome # "none"
  BY <1>1, JobFacts DEF CasesInv, JobsStand
<1>3. PICK P \in {"submission", "tool"} : P = Pool(c)
  BY PoolIsPool
<1>4. job'[c].pc \in {"ready", "finished"} /\ \A d \in Cases \ {c} : job'[d] = job[d]
  <2>1. job'[c] = NextVisit(job[c])
    BY JobTypes DEF Replace, CasesInv
  <2>2. NextVisit(job[c]).pc \in {"ready", "finished"}
    BY <1>1, <1>2, NextVisitFacts DEF CasesInv
  <2>. QED
    BY <1>1, <2>1, <2>2, OthersStay
<1>5. /\ owned'[P] = owned[P] \cup {created'} /\ created' \notin owned[P]
      /\ \A q \in {"submission", "tool"} \ {P} : owned'[q] = owned[q]
  <2>1. CreateFor(P)
    BY <1>1, <1>3
  <2>. QED
    BY <1>3, <2>1, Creation, Containers
<1>6. /\ Recreating(P)' = Recreating(P) \ {c} /\ c \in Recreating(P)
      /\ \A q \in {"submission", "tool"} \ {P} : Recreating(q)' = Recreating(q)
  <2>1. c \in Recreating(P) /\ \A q \in {"submission", "tool"} \ {P} : c \notin Recreating(q)
    BY <1>1, <1>3 DEF Recreating
  <2>2. \A q : Recreating(q)' =
            (Recreating(q) \ {c}) \cup {d \in {c} : job'[d].pc = "recreate" /\ Pool(d)' = q}
    BY <1>1, CaseCounts
  <2>. QED
    BY <1>4, <2>1, <2>2
<1>7. Failed \subseteq Failed' /\ Cardinality(Failed) <= Cardinality(Failed')
      /\ Cardinality(Failed') \in Nat
  <2>1. c \notin Failed
    BY <1>1 DEF Failed, Settled
  <2>2. Failed' = (Failed \ {c}) \cup {d \in {c} : Settled(d)' /\ job'[d].outcome = "error"}
    BY <1>1, CaseCounts
  <2>3. Failed \subseteq Failed' /\ (Failed' = Failed \/ Failed' = Failed \cup {c})
    BY <2>1, <2>2
  <2>4. IsFiniteSet(Failed)
    BY SetsFinite
  <2>5. IsFiniteSet(Failed')
    BY <2>3, <2>4, FS_AddElement
  <2>. QED
    BY <2>3, <2>5, FS_Subset, FS_CardinalityType
<1>8. ASSUME NEW p \in {"submission", "tool"}
      PROVE  Cardinality(owned[p]) + Cardinality(Recreating(p)) + Cardinality(Failed)
               <= Cardinality(owned'[p]) + Cardinality(Recreating(p)') + Cardinality(Failed')
  <2>1. /\ IsFiniteSet(owned[p]) /\ Cardinality(owned[p]) \in Nat
        /\ IsFiniteSet(Recreating(p)) /\ Cardinality(Recreating(p)) \in Nat
        /\ Cardinality(Failed) \in Nat
    BY SetsFinite
  <2>2. CASE p = P
    <3>1. Cardinality(owned'[p]) = Cardinality(owned[p]) + 1
      BY <1>5, <2>1, <2>2, FS_AddElement
    <3>2. Cardinality(Recreating(p)') = Cardinality(Recreating(p)) - 1
      BY <1>6, <2>1, <2>2, FS_RemoveElement
    <3>. QED
      BY <1>7, <2>1, <3>1, <3>2
  <2>3. CASE p # P
    <3>1. owned'[p] = owned[p] /\ Recreating(p)' = Recreating(p)
      BY <1>5, <1>6, <2>3
    <3>. QED
      BY <1>7, <2>1, <3>1
  <2>. QED
    BY <2>2, <2>3
<1>. QED
  BY <1>1, <1>2, <1>8, Balanced

(* A refused replacement is a case that replaces less and an error more.    *)
LEMMA ReplaceFailsBalanced ==
    ASSUME CasesInv, LosesOnePerFailure, CasesInv', NEW c \in Cases, ReplaceFails(c)
    PROVE  LosesOnePerFailure'
<1>1. /\ MovesCase(c) /\ job[c].pc = "recreate" /\ UNCHANGED <<setting, owned>>
      /\ job' = [job EXCEPT ![c] = [@ EXCEPT !.pc = "finished", !.outcome = "error"]]
  BY DEF MovesCase, ReplaceFails, CreateRaises
<1>2. job[c] \in JobType /\ phase = "cases"
  BY <1>1, JobFacts
<1>3. PICK P \in {"submission", "tool"} : P = Pool(c)
  BY PoolIsPool
<1>4. job'[c].pc = "finished" /\ job'[c].outcome = "error"
  <2>1. job'[c] = [job[c] EXCEPT !.pc = "finished", !.outcome = "error"]
    BY <1>1, JobTypes DEF CasesInv
  <2>. QED
    BY <1>2, <2>1 DEF JobType
<1>5. /\ Recreating(P)' = Recreating(P) \ {c} /\ c \in Recreating(P)
      /\ \A q \in {"submission", "tool"} \ {P} : Recreating(q)' = Recreating(q)
  <2>1. c \in Recreating(P) /\ \A q \in {"submission", "tool"} \ {P} : c \notin Recreating(q)
    BY <1>1, <1>3 DEF Recreating
  <2>2. \A q : Recreating(q)' =
            (Recreating(q) \ {c}) \cup {d \in {c} : job'[d].pc = "recreate" /\ Pool(d)' = q}
    BY <1>1, CaseCounts
  <2>. QED
    BY <1>4, <2>1, <2>2
<1>6. Failed' = Failed \cup {c} /\ c \notin Failed
  <2>1. c \notin Failed /\ Settled(c)'
    BY <1>1, <1>4 DEF Failed, Settled
  <2>2. Failed' = (Failed \ {c}) \cup {d \in {c} : Settled(d)' /\ job'[d].outcome = "error"}
    BY <1>1, CaseCounts
  <2>. QED
    BY <1>4, <2>1, <2>2
<1>7. ASSUME NEW p \in {"submission", "tool"}
      PROVE  Cardinality(owned[p]) + Cardinality(Recreating(p)) + Cardinality(Failed)
               <= Cardinality(owned'[p]) + Cardinality(Recreating(p)') + Cardinality(Failed')
  <2>1. /\ Cardinality(owned[p]) \in Nat
        /\ IsFiniteSet(Recreating(p)) /\ Cardinality(Recreating(p)) \in Nat
        /\ IsFiniteSet(Failed) /\ Cardinality(Failed) \in Nat
    BY SetsFinite
  <2>2. Cardinality(Failed') = Cardinality(Failed) + 1 /\ owned'[p] = owned[p]
    BY <1>1, <1>6, <2>1, FS_AddElement
  <2>3. CASE p = P
    <3>1. Cardinality(Recreating(p)') = Cardinality(Recreating(p)) - 1
      BY <1>5, <2>1, <2>3, FS_RemoveElement
    <3>. QED
      BY <2>1, <2>2, <3>1
  <2>4. CASE p # P
    <3>1. Recreating(p)' = Recreating(p)
      BY <1>5, <2>4
    <3>. QED
      BY <2>1, <2>2, <3>1
  <2>. QED
    BY <2>3, <2>4
<1>. QED
  BY <1>1, <1>2, <1>7, Balanced

LEMMA LosesOnePerFailureStep ==
    ASSUME CasesInv, PoolsEntered, LosesOnePerFailure, CasesInv', [Next]_vars
    PROVE  LosesOnePerFailure'
<1>1. ASSUME phase' # "cases" PROVE LosesOnePerFailure'
  BY <1>1 DEF LosesOnePerFailure
<1>2. CASE NoCompile \/ CompileStarts \/ CompileNotStarted \/ CasesDone
  BY <1>1, <1>2 DEF NoCompile, CompileStarts, CompileNotStarted, CasesDone
<1>3. ASSUME NEW outcome \in CompileOutcomes, CompileEnds(outcome) PROVE LosesOnePerFailure'
  BY <1>1, <1>3 DEF CompileEnds, CompileOutcomes
<1>4. ASSUME NEW p \in {"submission", "tool"}, EnterCreates(p) \/ EnterFails(p) \/ Exit(p)
      PROVE  LosesOnePerFailure'
  BY <1>1, <1>4 DEF EnterCreates, EnterFails, EnterPhase, Exit
<1>5. ASSUME NEW p \in {"submission", "tool"}, EnterDone(p) PROVE LosesOnePerFailure'
  BY <1>5, FullSize
<1>6. ASSUME NEW c \in Cases, MovesCase(c), phase' = "cases" PROVE LosesOnePerFailure'
  <2>1. phase = "cases"
    <3>1. CASE StartCase(c) \/ Collect(c)
      BY <3>1 DEF StartCase, Collect
    <3>2. CASE ~(StartCase(c) \/ Collect(c))
      BY <1>6, <3>2 DEF MovesCase, Take, RunOwn, RunOwnFails, ExecEnds, GiveBack,
                        Discard, Replace, ReplaceFails, RemoveOwn
    <3>. QED
      BY <3>1, <3>2
  <2>2. job \in [Cases -> JobType]
    BY JobTypes DEF CasesInv
  <2>3. CASE Discard(c)
    BY <2>3, DiscardBalanced
  <2>4. CASE Replace(c)
    BY <2>4, ReplaceBalanced
  <2>5. CASE ReplaceFails(c)
    BY <2>5, ReplaceFailsBalanced
  <2>6. CASE StartCase(c) \/ Take(c) \/ RunOwn(c) \/ RunOwnFails(c) \/ ExecEnds(c) \/ Collect(c)
    <3>1. UNCHANGED owned /\ job[c].pc # "recreate"
      BY <2>6 DEF StartCase, Take, RunOwn, RunOwnFails, CreateRaises, ExecEnds, Collect, poolVars
    <3>2. job'[c].pc # "recreate"
      BY <2>2, <2>6 DEF StartCase, Take, RunOwn, RunOwnFails, ExecEnds, Collect, JobType
    <3>. QED
      BY <1>6, <2>1, <3>1, <3>2, NoReplacement
  <2>7. CASE GiveBack(c)
    <3>1. UNCHANGED owned /\ job[c].pc = "release" /\ job' = [job EXCEPT ![c] = NextVisit(job[c])]
      BY <2>7 DEF GiveBack
    <3>2. job[c] \in JobType /\ job[c].outcome # "none"
      BY <3>1, JobFacts DEF CasesInv, JobsStand
    <3>3. NextVisit(job[c]).pc # "recreate"
      BY <3>1, <3>2, NextVisitFacts DEF CasesInv
    <3>. QED
      BY <1>6, <2>1, <2>2, <3>1, <3>3, NoReplacement
  <2>8. CASE RemoveOwn(c)
    <3>1. /\ UNCHANGED owned /\ job[c].pc = "release"
          /\ job' = [job EXCEPT ![c] =
                 IF unremoved' = unremoved
                 THEN NextVisit(job[c])
                 ELSE [job[c] EXCEPT !.pc = "finished", !.con = 0, !.outcome = "error"]]
      BY <2>8 DEF RemoveOwn
    <3>2. job[c] \in JobType /\ job[c].outcome # "none"
      BY <3>1, JobFacts DEF CasesInv, JobsStand
    <3>3. NextVisit(job[c]).pc # "recreate"
      BY <3>1, <3>2, NextVisitFacts DEF CasesInv
    <3>4. [job[c] EXCEPT !.pc = "finished", !.con = 0, !.outcome = "error"].pc = "finished"
      BY <3>2 DEF JobType
    <3>5. job'[c].pc # "recreate"
      BY <2>2, <3>1, <3>3, <3>4
    <3>. QED
      BY <1>6, <2>1, <3>1, <3>5, NoReplacement
  <2>. QED
    BY <1>6, <2>3, <2>4, <2>5, <2>6, <2>7, <2>8 DEF MovesCase
<1>7. CASE UNCHANGED vars
  <2>1. UNCHANGED <<setting, phase, job, owned>>
    BY <1>7 DEF vars
  <2>. QED
    BY <2>1, ArgumentsKept DEF LosesOnePerFailure, UsesPool, Reuse, Visits, PoolOf, PoolSize, NumCases,
                               NumWorkers, Recreating, Failed, Settled, Pool
<1>. QED
  BY <1>1, <1>2, <1>3, <1>4, <1>5, <1>6, <1>7, PoolNames DEF Next, Over, MovesCase

LEMMA InitCosts == Init => PoolsEntered /\ NeverSilently /\ LosesOnePerFailure
BY PoolNames DEF Init, PoolsEntered, NeverSilently, LosesOnePerFailure, Ended

-----------------------------------------------------------------------------
(* The theorems.                                                           *)

(* Every step keeps the inductive invariant. *)
LEMMA NextInv == CaseRunnerInv /\ [Next]_vars => CaseRunnerInv'
<1>. SUFFICES ASSUME CaseRunnerInv, [Next]_vars PROVE CaseRunnerInv'
  OBVIOUS
<1>1. CasesInv /\ PoolsEntered /\ NeverSilently /\ LosesOnePerFailure
  BY DEF CaseRunnerInv
<1>2. CasesInv'
  BY <1>1, CasesStep
<1>3. PoolsEntered' /\ NeverSilently' /\ LosesOnePerFailure'
  BY <1>1, <1>2, PoolsEnteredStep, NeverSilentlyStep, LosesOnePerFailureStep
<1>. QED
  BY <1>2, <1>3 DEF CaseRunnerInv

THEOREM CaseRunnerInvariant == Spec => []CaseRunnerInv
<1>1. Init => CaseRunnerInv
  BY InitInv, InitCosts DEF CaseRunnerInv
<1>. QED
  BY <1>1, NextInv, PTL DEF Spec

(* Nothing but what is declared is ever stored. *)
THEOREM CaseRunnerTypes == Spec => []TypeOK
<1>1. CaseRunnerInv => TypeOK
  BY DEF CaseRunnerInv, CasesInv
<1>. QED
  BY <1>1, CaseRunnerInvariant, PTL

(* A reusable container is in its queue once or with one case, and two cases *)
(* never share a container, whatever fails and however the threads interleave. *)
THEOREM OneCasePerContainer == Spec => []ContainersExclusive
<1>1. CaseRunnerInv => ContainersExclusive
  BY DEF CaseRunnerInv, CasesInv
<1>. QED
  BY <1>1, CaseRunnerInvariant, PTL

(* When the call is over, the only containers left are those Docker refused to *)
(* remove or to start, and, where __enter__ raised before any case started, those *)
(* of the one pool it was entering; and where one was not started, a case ended in *)
(* that exception or the call did. *)
THEOREM CallLeavesNoStrays == Spec => []NoStraysLeft
<1>1. CaseRunnerInv => NoStraysLeft
  <2>. SUFFICES ASSUME CaseRunnerInv, Ended PROVE NoStraysLeft
    BY DEF NoStraysLeft
  <2>1. phase \in {"returned", "raised"} /\ CasesInv
    BY DEF Ended, CaseRunnerInv
  <2>2. \A c \in Cases : job[c].con = 0
    BY <2>1 DEF CasesInv, JobsStand
  <2>3. Serving = {} /\ Compiler = {}
    BY <2>1, <2>2 DEF Serving, Compiler
  <2>4. docker = unremoved \cup unstarted \cup owned["submission"] \cup owned["tool"]
    BY <2>1, <2>3 DEF CasesInv, Accounted, InUse, Nobodys
  <2>5. PICK p \in {"submission", "tool"} : owned[p] = {}
    BY PoolNames DEF CaseRunnerInv, PoolsEntered
  <2>6. /\ owned["submission"] = {} \/ (raising /\ AllQueued /\ Reuse)
        /\ owned["tool"] = {} \/ (raising /\ AllQueued /\ Reuse)
    BY <2>1, PoolNames DEF CasesInv, Accounted
  <2>7. \/ docker = unremoved \cup unstarted
        \/ /\ raising /\ Reuse /\ AllQueued
           /\ \E q \in ToSet(Pools) : docker = unremoved \cup unstarted \cup owned[q]
    BY <2>4, <2>5, <2>6, PoolNames
  <2>8. unstarted # {} => raising \/ \E c \in Cases : job[c].outcome = "error"
    BY DEF CaseRunnerInv, NeverSilently, Failed
  <2>. QED
    BY <2>7, <2>8 DEF NoStraysLeft
<1>. QED
  BY <1>1, CaseRunnerInvariant, PTL

(* The list a call returns has each case's own verdict at its own index. *)
THEOREM EachCaseItsVerdict == Spec => []ResultsMatchCases
<1>1. CaseRunnerInv => ResultsMatchCases
  BY DEF CaseRunnerInv, CasesInv
<1>. QED
  BY <1>1, CaseRunnerInvariant, PTL

(* On the thread pool no exception of a case leaves the call, and the cases that *)
(* ended in an error have cost each pool at most one container each. *)
THEOREM CasesFailAlone == Spec => []OneCaseNeverFailsTheOthers
<1>1. CaseRunnerInv => OneCaseNeverFailsTheOthers
  BY DEF CaseRunnerInv, CasesInv, OneCaseNeverFailsTheOthers
<1>. QED
  BY <1>1, CaseRunnerInvariant, PTL

=============================================================================
