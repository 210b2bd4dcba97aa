-------------------------- MODULE McpServiceProofs ---------------------------
(***************************************************************************)
(* However many sessions a server process starts and whatever fails, what  *)
(* the sessions hold outside of it stays in reach and is released, or was  *)
(* tried twice; the operations of the service change nothing of this.  The *)
(* store of its artifacts keeps its bounds and its promises for every      *)
(* quota, number and lifetime, and the two together keep a private         *)
(* evaluation's cases out of the store.                                    *)
(*                                                                         *)
(* The store adds up, filters and shortens lists.  What holds of the sum   *)
(* or of the filtered list is shown by induction on its length, written    *)
(* with the set of the lengths it holds of (UpTo).                         *)
(***************************************************************************)
EXTENDS McpService, WellFoundedInduction, TLAPS

-----------------------------------------------------------------------------
(* The sessions.                                                            *)

States == {"none", "created", "running", "stopped"}

(* One more session: the functions on the sessions grow by one value. *)
LEMMA Grow ==
    ASSUME NEW P, NEW q \in Seq(P), NEW p \in P, NEW T, NEW f \in [DOMAIN q -> T], NEW e \in T
    PROVE  LET k == Len(q) + 1
           IN  /\ Append(q, p) \in Seq(P)
               /\ DOMAIN Append(q, p) = DOMAIN q \cup {k}
               /\ k \notin DOMAIN q
               /\ Append(f, e) \in [DOMAIN q \cup {k} -> T]
               /\ Append(f, e)[k] = e
               /\ \A s \in DOMAIN q : Append(f, e)[s] = f[s]
<1>. DEFINE k == Len(q) + 1
<1>1. /\ Len(q) \in Nat
      /\ DOMAIN q = 1..Len(q)
      /\ DOMAIN q \cup {k} = 1..k
      /\ k \notin DOMAIN q
  OBVIOUS
<1>2. f \in Seq(T) /\ Len(f) = Len(q)
  BY <1>1
<1>3. /\ Append(q, p) \in Seq(P)
      /\ Len(Append(q, p)) = k
  OBVIOUS
<1>4. /\ Append(f, e) \in Seq(T)
      /\ Len(Append(f, e)) = k
      /\ Append(f, e)[k] = e
      /\ \A s \in 1..Len(q) : Append(f, e)[s] = f[s]
  BY <1>1, <1>2
<1>5. DOMAIN Append(q, p) = 1..k
  BY <1>3
<1>6. Append(f, e) \in [1..k -> T]
  <2>. DEFINE g == Append(f, e)
  <2>1. g \in Seq(T) /\ Len(g) = k
    BY <1>4
  <2>. HIDE DEF g, k
  <2>2. g \in [1..k -> T]
    BY <2>1
  <2>. QED
    BY <2>2 DEF g, k
<1>. QED
  BY <1>1, <1>3, <1>4, <1>5, <1>6

LEMMA InitInv == RegistryInit => RegistryInv
<1>. SUFFICES ASSUME RegistryInit PROVE RegistryInv
  OBVIOUS
<1>1. Started = {} /\ problem \in Seq(Problems)
  BY DEF RegistryInit, Started
<1>. QED
  BY <1>1 DEF RegistryInit, RegistryInv, RegistryTypeOK

LEMMA StartInv ==
    ASSUME RegistryInv, NEW p \in Problems, Start(p)
    PROVE  RegistryInv'
<1>1. NoMiss \in Counts
  BY DEF NoMiss, Counts
<1>2. problem \in Seq(Problems) /\ servers \in [Started -> States] /\ misses \in [Started -> Counts]
  BY DEF RegistryInv, RegistryTypeOK, States, Counts
<1>3. /\ problem' \in Seq(Problems)
      /\ Started' = Started \cup {New}
      /\ New \notin Started
      /\ misses' \in [Started' -> Counts]
      /\ misses'[New] = NoMiss
      /\ \A s \in Started : misses'[s] = misses[s]
  BY <1>1, <1>2, Grow DEF Start, Started, New
<1>4. /\ servers' \in [Started' -> States]
      /\ \A s \in Started : servers'[s] = servers[s]
      /\ servers'[New] # "none" => RunServer
  <2>. DEFINE e == IF RunServer THEN "running" ELSE "none"
  <2>1. e \in States /\ servers' = Append(servers, e)
    BY DEF Start, States
  <2>. HIDE DEF e
  <2>2. /\ Append(servers, e) \in [Started \cup {New} -> States]
        /\ \A s \in Started : Append(servers, e)[s] = servers[s]
        /\ Append(servers, e)[New] = e
    <3>1. /\ Append(servers, e) \in [DOMAIN problem \cup {New} -> States]
          /\ \A s \in DOMAIN problem : Append(servers, e)[s] = servers[s]
          /\ Append(servers, e)[New] = e
      <4>1. servers \in [DOMAIN problem -> States]
        BY <1>2 DEF Started
      <4>. QED
        BY <1>2, <2>1, <4>1, Grow DEF New
    <3>. QED
      BY <3>1 DEF Started
  <2>. QED
    BY <1>3, <2>1, <2>2 DEF e
<1>5. RegistryTypeOK'
  BY <1>3, <1>4 DEF RegistryInv, RegistryTypeOK, Start, States, Counts
<1>6. ASSUME NEW s \in (Started \ failed)' PROVE Owed(s)'
  <2>1. phase = "serving" /\ phase' = "serving" /\ failed' = failed
    BY DEF Start, MayStart
  <2>2. CASE s = New
    BY <1>4, <2>1, <2>2 DEF Start, Owed
  <2>3. CASE s \in Started \ failed
    <3>1. Owed(s)
      BY <2>3 DEF RegistryInv
    <3>2. /\ servers'[s] = servers[s]
          /\ misses'[s] = misses[s]
          /\ s \in dirs' <=> s \in dirs
          /\ s \in held => s \in held'
          /\ s \in sessions => s \in sessions'
      BY <1>3, <1>4, <2>3 DEF Start
    <3>. QED
      BY <2>1, <3>1, <3>2 DEF Owed, Tried
  <2>. QED
    BY <1>3, <2>1, <2>2, <2>3
<1>. QED
  BY <1>5, <1>6 DEF RegistryInv

LEMMA StartFailsInv ==
    ASSUME RegistryInv, NEW p \in Problems, NEW server \in {"none", "created"}, StartFails(p, server)
    PROVE  RegistryInv'
<1>1. NoMiss \in Counts /\ server \in States
  BY DEF NoMiss, Counts, States
<1>2. problem \in Seq(Problems) /\ servers \in [Started -> States] /\ misses \in [Started -> Counts]
  BY DEF RegistryInv, RegistryTypeOK, States, Counts
<1>3. /\ problem' \in Seq(Problems)
      /\ Started' = Started \cup {New}
      /\ New \notin Started
      /\ misses' \in [Started' -> Counts]
      /\ \A s \in Started : misses'[s] = misses[s]
  <2>1. /\ problem' = Append(problem, p)
        /\ misses' = Append(misses, NoMiss)
        /\ misses \in [DOMAIN problem -> Counts]
    BY <1>2 DEF StartFails, Started
  <2>2. /\ Append(problem, p) \in Seq(Problems)
        /\ DOMAIN Append(problem, p) = DOMAIN problem \cup {New}
        /\ New \notin DOMAIN problem
        /\ Append(misses, NoMiss) \in [DOMAIN problem \cup {New} -> Counts]
        /\ \A s \in DOMAIN problem : Append(misses, NoMiss)[s] = misses[s]
    BY <1>1, <1>2, <2>1, Grow DEF New
  <2>. QED
    BY <2>1, <2>2 DEF Started
<1>4. /\ servers' \in [Started' -> States]
      /\ \A s \in Started : servers'[s] = servers[s]
  <2>1. servers' = Append(servers, server)
    BY DEF StartFails
  <2>2. /\ Append(servers, server) \in [Started \cup {New} -> States]
        /\ \A s \in Started : Append(servers, server)[s] = servers[s]
    <3>1. servers \in [DOMAIN problem -> States]
      BY <1>2 DEF Started
    <3>2. /\ Append(servers, server) \in [DOMAIN problem \cup {New} -> States]
          /\ \A s \in DOMAIN problem : Append(servers, server)[s] = servers[s]
      <4>1. server \in States
        BY <1>1
      <4>. HIDE DEF States
      <4>. QED
        BY <1>2, <3>1, <4>1, Grow DEF New
    <3>. QED
      BY <3>2 DEF Started
  <2>. QED
    BY <1>3, <2>1, <2>2
<1>5. RegistryTypeOK'
  BY <1>3, <1>4 DEF RegistryInv, RegistryTypeOK, StartFails, States, Counts
<1>6. ASSUME NEW s \in (Started \ failed)' PROVE Owed(s)'
  <2>1. s \in Started \ failed
    BY <1>3 DEF StartFails
  <2>2. Owed(s)
    BY <2>1 DEF RegistryInv
  <2>3. /\ servers'[s] = servers[s]
        /\ misses'[s] = misses[s]
        /\ s \in dirs' <=> s \in dirs
    BY <1>3, <1>4, <2>1 DEF StartFails
  <2>. QED
    BY <2>2, <2>3 DEF Owed, Tried, StartFails
<1>. QED
  BY <1>5, <1>6 DEF RegistryInv

(* What a close does to its own session, and to none of the others. *)
LEMMA CloseFacts ==
    ASSUME RegistryInv, NEW s \in Started, NEW kept \in Keepable(s), NEW removal \in Removals(s),
           Close(s, kept, removal)
    PROVE  /\ dirs' \subseteq Started
           /\ held' \subseteq Started
           /\ servers' \in [Started -> States]
           /\ misses' \in [Started -> Counts]
           /\ s \in dirs' => misses'[s].dir = misses[s].dir + 1
           /\ misses'[s].dir >= misses[s].dir
           /\ misses'[s].server = misses[s].server + (IF removal.returns THEN 0 ELSE 1)
           /\ s \in dirs' => s \in dirs
           /\ removal.returns /\ s \in held => servers'[s] = "none"
           /\ servers'[s] # "none" => servers[s] # "none"
           /\ ~removal.returns => (s \in held' <=> s \in held)
           /\ s \notin held => servers'[s] = servers[s]
           /\ \A t \in Started \ {s} :
                 /\ servers'[t] = servers[t]
                 /\ misses'[t] = misses[t]
                 /\ t \in dirs' <=> t \in dirs
                 /\ t \in held' <=> t \in held
<1>1. /\ servers \in [Started -> States]
      /\ misses \in [Started -> Counts]
      /\ dirs \subseteq Started
      /\ held \subseteq Started
  BY DEF RegistryInv, RegistryTypeOK, States, Counts
<1>2. /\ kept \in BOOLEAN
      /\ removal.server \in States
      /\ removal.returns \in BOOLEAN
      /\ removal.returns => removal.server = "none"
      /\ ~removal.returns => s \in held /\ servers[s] # "none"
  <2>1. kept \in BOOLEAN
    BY DEF Keepable
  <2>2. servers[s] \in States
    BY <1>1
  <2>3. CASE removal = Gone
    BY <2>1, <2>3 DEF Gone, States
  <2>4. CASE removal # Gone
    <3>1. /\ s \in held
          /\ servers[s] # "none"
          /\ removal \in {[server |-> servers[s], returns |-> FALSE], [server |-> "stopped", returns |-> FALSE]}
      BY <2>4, Zenon DEF Removals
    <3>2. CASE removal = [server |-> servers[s], returns |-> FALSE]
      BY <2>1, <2>2, <3>1, <3>2
    <3>3. CASE removal = [server |-> "stopped", returns |-> FALSE]
      BY <2>1, <3>1, <3>3 DEF States
    <3>. QED
      BY <3>1, <3>2, <3>3
  <2>. QED
    BY <2>3, <2>4
<1>3. misses[s] \in Counts /\ misses[s].dir \in Nat /\ misses[s].server \in Nat
  BY <1>1 DEF Counts
<1>4. DEFINE d == IF kept THEN 1 ELSE 0
             v == IF removal.returns THEN 0 ELSE 1
             n == [dir |-> misses[s].dir + d, server |-> misses[s].server + v]
<1>5. d \in Nat /\ v \in Nat
  OBVIOUS
<1>. HIDE DEF d, v
<1>6. n \in Counts /\ n.dir = misses[s].dir + d /\ n.server = misses[s].server + v
  BY <1>3, <1>5 DEF Counts
<1>7. misses' = [misses EXCEPT ![s] = n]
  BY DEF Close, d, v
<1>8. misses' \in [Started -> Counts] /\ misses'[s] = n /\ \A t \in Started \ {s} : misses'[t] = misses[t]
  BY <1>1, <1>6, <1>7
<1>9. /\ servers' \in [Started -> States]
      /\ s \in held => servers'[s] = removal.server
      /\ s \notin held => servers'[s] = servers[s]
      /\ \A t \in Started \ {s} : servers'[t] = servers[t]
  BY <1>1, <1>2 DEF Close
<1>10. /\ dirs' = IF kept THEN dirs ELSE dirs \ {s}
       /\ held' = IF removal.returns THEN held \ {s} ELSE held
  BY DEF Close
<1>11. /\ misses'[s].dir = misses[s].dir + d
       /\ misses'[s].server = misses[s].server + v
       /\ misses'[s].dir >= misses[s].dir
  BY <1>3, <1>5, <1>6, <1>8
<1>. QED
  BY <1>1, <1>2, <1>3, <1>8, <1>9, <1>10, <1>11 DEF d, v

LEMMA CloseSessionInv ==
    ASSUME RegistryInv, NEW s \in Started, CloseSession(s)
    PROVE  RegistryInv'
<1>1. PICK kept \in Keepable(s), removal \in Removals(s) :
         /\ Close(s, kept, removal)
         /\ sessions' = IF removal.returns THEN sessions \ {s} ELSE sessions
  BY DEF CloseSession
<1>2. /\ phase = "serving"
      /\ s \in sessions
      /\ problem' = problem /\ failed' = failed /\ phase' = phase /\ todo' = todo
      /\ Started' = Started
  BY DEF CloseSession, Started
<1>3. RegistryTypeOK'
  BY <1>1, <1>2, CloseFacts DEF RegistryInv, RegistryTypeOK, States, Counts
<1>4. ASSUME NEW t \in Started \ failed PROVE Owed(t)'
  <2>1. Owed(t)
    BY DEF RegistryInv
  <2>2. CASE t # s
    BY <1>1, <1>2, <2>1, <2>2, CloseFacts DEF Owed, Tried
  <2>3. CASE t = s
    <3>1. misses[s] \in Counts /\ misses[s].dir \in Nat
      BY DEF RegistryInv, RegistryTypeOK, Counts
    <3>2. CASE removal.returns
      <4>1. servers'[s] = "none"
        BY <1>1, <2>1, <2>3, <3>2, CloseFacts DEF Owed
      <4>2. s \in dirs' => misses'[s].dir >= 1
        BY <1>1, <3>1, CloseFacts
      <4>. QED
        BY <1>2, <2>3, <4>1, <4>2 DEF Owed, Tried
    <3>3. CASE ~removal.returns
      BY <1>1, <1>2, <2>1, <2>3, <3>3, CloseFacts DEF Owed
    <3>. QED
      BY <3>2, <3>3
  <2>. QED
    BY <2>2, <2>3
<1>. QED
  BY <1>2, <1>3, <1>4 DEF RegistryInv

LEMMA CloseNextInv ==
    ASSUME RegistryInv, NEW s \in Started, CloseNext(s)
    PROVE  RegistryInv'
<1>1. PICK kept \in Keepable(s), removal \in Removals(s) :
         Close(s, kept, removal) /\ todo' = todo \ {s}
  BY DEF CloseNext
<1>2. /\ phase \in {"lifespan", "atexit"}
      /\ s \in todo
      /\ problem' = problem /\ failed' = failed /\ phase' = phase /\ sessions' = sessions
      /\ Started' = Started
  BY DEF CloseNext, Started
<1>3. RegistryTypeOK'
  BY <1>1, <1>2, CloseFacts DEF RegistryInv, RegistryTypeOK, States, Counts
<1>4. ASSUME NEW t \in Started \ failed PROVE Owed(t)'
  <2>1. Owed(t)
    BY DEF RegistryInv
  <2>2. CASE t # s
    BY <1>1, <1>2, <2>1, <2>2, CloseFacts DEF Owed, Tried
  <2>3. CASE t = s
    <3>1. misses[s].dir \in Nat /\ misses[s].server \in Nat
      BY DEF RegistryInv, RegistryTypeOK, Counts
    <3>2. servers'[s] # "none" =>
             /\ ~removal.returns
             /\ servers[s] # "none"
             /\ s \in held'
             /\ misses'[s].server = misses[s].server + 1
      BY <1>1, <2>1, <2>3, CloseFacts DEF Owed
    <3>3. s \in dirs' => s \in dirs /\ misses'[s].dir = misses[s].dir + 1
      BY <1>1, CloseFacts
    <3>4. CASE phase = "lifespan"
      BY <1>2, <2>3, <3>1, <3>2, <3>3, <3>4 DEF Owed, Tried
    <3>5. CASE phase = "atexit"
      <4>1. Tried(s, 1)
        BY <2>1, <2>3, <3>5 DEF Owed
      <4>2. Tried(s, 1)' /\ Tried(s, 2)'
        BY <3>1, <3>2, <3>3, <4>1 DEF Tried
      <4>. QED
        BY <1>2, <2>3, <3>2, <3>5, <4>2 DEF Owed
    <3>. QED
      BY <1>2, <3>4, <3>5
  <2>. QED
    BY <2>2, <2>3
<1>. QED
  BY <1>2, <1>3, <1>4 DEF RegistryInv

LEMMA VanishesInv ==
    ASSUME RegistryInv, NEW s \in Started, Vanishes(s)
    PROVE  RegistryInv'
<1>1. /\ servers' \in [Started -> States]
      /\ servers'[s] = "none"
      /\ \A t \in Started \ {s} : servers'[t] = servers[t]
  BY DEF Vanishes, RegistryInv, RegistryTypeOK, States
<1>2. Started' = Started
  BY DEF Vanishes, Started
<1>3. RegistryTypeOK'
  BY <1>1, <1>2 DEF Vanishes, RegistryInv, RegistryTypeOK, States
<1>4. ASSUME NEW t \in Started \ failed PROVE Owed(t)'
  <2>1. Owed(t)
    BY DEF RegistryInv
  <2>. QED
    BY <1>1, <2>1 DEF Vanishes, Owed, Tried
<1>. QED
  BY <1>2, <1>3, <1>4 DEF Vanishes, RegistryInv

(* The end of the process, step by step. *)
LEMMA EndInv ==
    ASSUME RegistryInv, Shutdown \/ AtExit \/ Exits
    PROVE  RegistryInv'
<1>1. Started' = Started /\ failed' = failed
  BY DEF Shutdown, AtExit, Exits, Started
<1>2. RegistryTypeOK'
  BY <1>1 DEF Shutdown, AtExit, Exits, RegistryInv, RegistryTypeOK
<1>3. ASSUME NEW s \in Started \ failed PROVE Owed(s)'
  <2>1. Owed(s)
    BY DEF RegistryInv
  <2>2. CASE Shutdown
    BY <2>1, <2>2 DEF Shutdown, Owed, Tried
  <2>3. CASE AtExit
    BY <2>1, <2>3 DEF AtExit, Owed, Tried
  <2>4. CASE Exits
    BY <2>1, <2>4 DEF Exits, Owed, Tried
  <2>. QED
    BY <2>2, <2>3, <2>4
<1>. QED
  BY <1>1, <1>2, <1>3 DEF RegistryInv

LEMMA StutterInv ==
    ASSUME RegistryInv, UNCHANGED registryVars
    PROVE  RegistryInv'
BY DEF registryVars, RegistryInv, RegistryTypeOK, Started, Owed, Tried

LEMMA NextInv ==
    ASSUME RegistryInv, [Next]_vars
    PROVE  RegistryInv'
<1>1. RegistryNext \/ UNCHANGED registryVars
  BY DEF Next, Sessions, vars
<1>2. CASE UNCHANGED registryVars
  BY <1>2, StutterInv
<1>3. ASSUME NEW p \in Problems, Start(p) PROVE RegistryInv'
  BY <1>3, StartInv
<1>4. ASSUME NEW p \in Problems, NEW server \in {"none", "created"}, StartFails(p, server)
      PROVE  RegistryInv'
  BY <1>4, StartFailsInv
<1>5. ASSUME NEW s \in Started, CloseSession(s) PROVE RegistryInv'
  BY <1>5, CloseSessionInv
<1>6. ASSUME NEW s \in Started, Vanishes(s) PROVE RegistryInv'
  BY <1>6, VanishesInv
<1>7. ASSUME NEW s \in Started, CloseNext(s) PROVE RegistryInv'
  BY <1>7, CloseNextInv
<1>8. CASE Shutdown \/ AtExit \/ Exits
  BY <1>8, EndInv
<1>. QED
  BY <1>1, <1>2, <1>3, <1>4, <1>5, <1>6, <1>7, <1>8 DEF RegistryNext

\* The invariant of the sessions, under everything the service does.
THEOREM RegistrySafe == Spec => []RegistryInv
<1>1. Init => RegistryInv
  BY InitInv DEF Init
<1>2. RegistryInv /\ [Next]_vars => RegistryInv'
  BY NextInv
<1>. QED
  BY <1>1, <1>2, PTL DEF Spec

\* A visualization server a session started is never out of reach of a close.
THEOREM ServersInReach == Spec => []NoServerOutOfReach
<1>1. RegistryInv => NoServerOutOfReach
  BY DEF RegistryInv, Owed, NoServerOutOfReach
<1>. QED
  BY <1>1, RegistrySafe, PTL

\* What a started session leaves behind when the process has ended could not be
\* removed on two occasions.
THEOREM ReleasedOrTriedTwice == Spec => []TwoChances
<1>1. RegistryInv => TwoChances
  BY DEF RegistryInv, Owed, Tried, TwoChances
<1>. QED
  BY <1>1, RegistrySafe, PTL

-----------------------------------------------------------------------------
(* Numbers and lists.                                                       *)

(* A nonempty set of naturals has a least element. *)
LEMMA LeastNumber ==
    ASSUME NEW S \in SUBSET Nat, S # {}
    PROVE  \E x \in S : \A y \in S : x <= y
<1>. DEFINE R == {p \in Nat \X Nat : p[1] < p[2]}
<1>1. IsWellFoundedOn(R, Nat)
  BY NatLessThanWellFounded DEF OpToRel
<1>2. \E x \in S : \A y \in S : ~ (<<y, x>> \in R)
  <2>. HIDE DEF R
  <2>. QED
    BY <1>1, WFMin
<1>3. PICK x \in S : \A y \in S : ~ (<<y, x>> \in R)
  BY <1>2
<1>4. ASSUME NEW y \in S
      PROVE  x <= y
  <2>1. <<y, x>> \in R <=> y < x
    OBVIOUS
  <2>. QED
    BY <1>3, <2>1
<1>. QED
  BY <1>4

(* What holds of 0 and of each successor holds of the numbers up to N: the form *)
(* of induction the lemmas below use, over the set of the numbers it holds of. *)
LEMMA UpTo ==
    ASSUME NEW N \in Nat, NEW T, 0 \in T,
           \A n \in 1..N : n - 1 \in T => n \in T
    PROVE  \A n \in 0..N : n \in T
<1>. SUFFICES ASSUME NEW n \in 0..N, n \notin T PROVE FALSE
  OBVIOUS
<1>. DEFINE S == {m \in 0..N : m \notin T}
<1>1. S \in SUBSET Nat /\ S # {}
  OBVIOUS
<1>2. PICK x \in S : \A y \in S : x <= y
  <2>. HIDE DEF S
  <2>. QED
    BY <1>1, LeastNumber
<1>3. x # 0 /\ x \in 1..N
  OBVIOUS
<1>4. x - 1 \in 0..N /\ x - 1 \notin S
  BY <1>2, <1>3
<1>. QED
  BY <1>3, <1>4

(* A function on 0..N is defined by its first value and the step to the next. *)
Iterates(N, X, x, g, f) ==
    f \in [0..N -> X] /\ f[0] = x /\ \A n \in 1..N : f[n] = g[n][f[n - 1]]

LEMMA Recursion ==
    ASSUME NEW N \in Nat, NEW X, NEW x \in X, NEW g \in [1..N -> [X -> X]]
    PROVE  \E f : Iterates(N, X, x, g, f)
<1>. DEFINE Upto(f, k) == f \in [0..k -> X] /\ f[0] = x /\ \A n \in 1..k : f[n] = g[n][f[n - 1]]
            T == {k \in 0..N : \E f : Upto(f, k)}
<1>1. 0 \in T
  <2>1. Upto([m \in 0..0 |-> x], 0) /\ 0 \in 0..N
    OBVIOUS
  <2>. HIDE DEF Upto
  <2>. QED
    BY <2>1
<1>2. ASSUME NEW n \in 1..N, n - 1 \in T PROVE n \in T
  <2>1. PICK f : Upto(f, n - 1)
    BY <1>2
  <2>. DEFINE h == [m \in 0..n |-> IF m = n THEN g[n][f[n - 1]] ELSE f[m]]
  <2>2. /\ f \in [0..(n - 1) -> X] /\ f[0] = x
        /\ \A m \in 1..(n - 1) : f[m] = g[m][f[m - 1]]
    BY <2>1
  <2>3. g[n][f[n - 1]] \in X /\ n \in Nat /\ n # 0 /\ n - 1 \in 0..(n - 1) /\ n \in 0..N
    BY <2>2
  <2>4. h \in [0..n -> X]
    BY <2>2, <2>3
  <2>5. h[0] = x
    BY <2>2, <2>3
  <2>6. ASSUME NEW m \in 1..n PROVE h[m] = g[m][h[m - 1]]
    <3>1. CASE m = n
      BY <2>3, <3>1
    <3>2. CASE m # n
      <4>1. m \in 1..(n - 1) /\ m - 1 \in 0..n /\ m - 1 # n /\ m \in 0..n
        BY <2>3, <3>2
      <4>. QED
        BY <2>2, <3>2, <4>1
    <3>. QED
      BY <3>1, <3>2
  <2>. HIDE DEF h
  <2>7. Upto(h, n)
    BY <2>4, <2>5, <2>6
  <2>. QED
    BY <2>3, <2>7
<1>3. \A n \in 0..N : n \in T
  <2>. HIDE DEF T
  <2>. QED
    BY <1>1, <1>2, UpTo
<1>4. \E f : Upto(f, N)
  <2>1. N \in 0..N
    OBVIOUS
  <2>. QED
    BY <1>3, <2>1
<1>. QED
  BY <1>4 DEF Iterates

(* The partial sums of a sequence of numbers, up to the one Total returns. *)
SumsOf(a, f) ==
    /\ f \in [0..Len(a) -> Nat]
    /\ f[0] = 0
    /\ \A n \in 1..Len(a) : f[n] = f[n - 1] + a[n]
    /\ f[Len(a)] = Total(a)

LEMMA Sums ==
    ASSUME NEW a \in Seq(Nat)
    PROVE  \E f : SumsOf(a, f)
<1>. DEFINE N == Len(a)
            Body(s) == [n \in 0..N |-> IF n = 0 THEN 0 ELSE s[n - 1] + a[n]]
            F == CHOOSE s : s = Body(s)
            g == [n \in 1..N |-> [y \in Nat |-> y + a[n]]]
<1>1. N \in Nat
  OBVIOUS
<1>2. PICK f \in [0..N -> Nat] : f[0] = 0 /\ \A n \in 1..N : f[n] = f[n - 1] + a[n]
  <2>1. g \in [1..N -> [Nat -> Nat]]
    OBVIOUS
  <2>2. \A n \in 1..N, y \in Nat : g[n][y] = y + a[n]
    OBVIOUS
  <2>3. PICK f \in [0..N -> Nat] : f[0] = 0 /\ \A n \in 1..N : f[n] = g[n][f[n - 1]]
    <3>. DEFINE X == Nat
                x == 0
    <3>1. x \in X /\ g \in [1..N -> [X -> X]]
      BY <2>1
    <3>2. N \in Nat
      BY <1>1
    <3>. HIDE DEF g, N, X, x
    <3>3. PICK f : Iterates(N, X, x, g, f)
      BY <3>1, <3>2, Recursion
    <3>. QED
      BY <3>3 DEF Iterates, X, x
  <2>. HIDE DEF g, N
  <2>4. \A n \in 1..N : f[n - 1] \in Nat
    BY <1>1
  <2>. QED
    BY <2>2, <2>3, <2>4
<1>3. f = Body(f)
  <2>1. \A n \in 0..N : f[n] = IF n = 0 THEN 0 ELSE f[n - 1] + a[n]
    BY <1>1, <1>2
  <2>2. f = [n \in 0..N |-> f[n]]
    OBVIOUS
  <2>3. [n \in 0..N |-> f[n]] = Body(f)
    <3>. HIDE DEF N
    <3>. QED
      BY <2>1
  <2>. QED
    BY <2>2, <2>3
<1>4. F = Body(F)
  <2>. HIDE DEF Body
  <2>. QED
    BY <1>3
<1>5. Total(a) = F[N]
  BY DEF Total
<1>6. DOMAIN F = 0..N /\ \A n \in 0..N : F[n] = IF n = 0 THEN 0 ELSE F[n - 1] + a[n]
  <2>. HIDE DEF F
  <2>. QED
    BY <1>4
<1>. HIDE DEF F
<1>7. F[0] = 0 /\ \A n \in 1..N : F[n] = F[n - 1] + a[n]
  BY <1>1, <1>6
<1>8. \A n \in 0..N : F[n] \in Nat
  <2>. DEFINE U == {n \in 0..N : F[n] \in Nat}
  <2>1. 0 \in U
    BY <1>1, <1>7
  <2>2. ASSUME NEW n \in 1..N, n - 1 \in U PROVE n \in U
    <3>1. F[n - 1] \in Nat /\ a[n] \in Nat
      BY <2>2
    <3>. QED
      BY <1>7, <3>1
  <2>3. \A n \in 0..N : n \in U
    <3>. HIDE DEF U, N
    <3>. QED
      BY <1>1, <2>1, <2>2, UpTo
  <2>. QED
    BY <2>3
<1>9. F \in [0..N -> Nat]
  <2>1. F = [n \in 0..N |-> F[n]]
    BY <1>4, <1>6
  <2>. QED
    BY <1>8, <2>1
<1>10. SumsOf(a, F)
  BY <1>5, <1>7, <1>9 DEF SumsOf
<1>. QED
  BY <1>10

LEMMA TotalNat ==
    ASSUME NEW a \in Seq(Nat)
    PROVE  Total(a) \in Nat
<1>1. PICK f : SumsOf(a, f)
  BY Sums
<1>. QED
  BY <1>1 DEF SumsOf

LEMMA TotalEmpty == Total(<<>>) = 0
<1>1. <<>> \in Seq(Nat) /\ Len(<<>>) = 0
  OBVIOUS
<1>2. PICK f : SumsOf(<<>>, f)
  BY <1>1, Sums
<1>. QED
  BY <1>1, <1>2 DEF SumsOf

(* A sum grows with its parts. *)
LEMMA TotalAtMost ==
    ASSUME NEW a \in Seq(Nat), NEW b \in Seq(Nat), Len(a) = Len(b),
           \A i \in 1..Len(a) : a[i] <= b[i]
    PROVE  Total(a) <= Total(b)
<1>. DEFINE N == Len(a)
<1>1. PICK f : SumsOf(a, f)
  BY Sums
<1>2. PICK g : SumsOf(b, g)
  BY Sums
<1>. DEFINE T == {n \in 0..N : f[n] <= g[n]}
<1>3. N \in Nat /\ N \in 0..N
  OBVIOUS
<1>7. f \in [0..N -> Nat] /\ g \in [0..N -> Nat]
  BY <1>1, <1>2 DEF SumsOf
<1>4. 0 \in T
  BY <1>1, <1>2, <1>3 DEF SumsOf
<1>5. ASSUME NEW n \in 1..N, n - 1 \in T PROVE n \in T
  <2>1. /\ f[n] = f[n - 1] + a[n] /\ g[n] = g[n - 1] + b[n] /\ f[n - 1] <= g[n - 1]
        /\ a[n] <= b[n]
    BY <1>1, <1>2, <1>5 DEF SumsOf
  <2>2. n - 1 \in 0..N
    BY <1>3
  <2>3. f[n - 1] \in Nat /\ g[n - 1] \in Nat
    BY <1>7, <2>2
  <2>4. a[n] \in Nat /\ b[n] \in Nat
    OBVIOUS
  <2>. QED
    BY <1>3, <2>1, <2>3, <2>4
<1>6. \A n \in 0..N : n \in T
  <2>. HIDE DEF T, N
  <2>. QED
    BY <1>3, <1>4, <1>5, UpTo
<1>. QED
  BY <1>1, <1>2, <1>3, <1>6 DEF SumsOf

LEMMA Exchange ==
    ASSUME NEW p \in Nat, NEW q \in Nat, NEW u \in Nat, NEW v \in Nat, NEW z \in Nat
    PROVE  /\ p + u = q + v => (p + z) + u = (q + z) + v
           /\ (p + u) + v = (p + v) + u
OBVIOUS

(* A sum changes with one of its parts by as much as the part. *)
LEMMA TotalExcept ==
    ASSUME NEW a \in Seq(Nat), NEW b \in Seq(Nat), Len(a) = Len(b), NEW i \in 1..Len(a),
           \A j \in 1..Len(a) : j # i => a[j] = b[j]
    PROVE  Total(a) + b[i] = Total(b) + a[i]
<1>. DEFINE N == Len(a)
<1>1. PICK f : SumsOf(a, f)
  BY Sums
<1>2. PICK g : SumsOf(b, g)
  BY Sums
<1>. DEFINE T == {n \in 0..N : IF n < i THEN f[n] = g[n] ELSE f[n] + b[i] = g[n] + a[i]}
<1>3. N \in Nat /\ N \in 0..N /\ ~(N < i)
  OBVIOUS
<1>7. f \in [0..N -> Nat] /\ g \in [0..N -> Nat]
  BY <1>1, <1>2 DEF SumsOf
<1>4. 0 \in T
  BY <1>1, <1>2, <1>3 DEF SumsOf
<1>5. ASSUME NEW n \in 1..N, n - 1 \in T PROVE n \in T
  <2>1. /\ f[n] = f[n - 1] + a[n] /\ g[n] = g[n - 1] + b[n]
    BY <1>1, <1>2 DEF SumsOf
  <2>2. n - 1 \in 0..N
    BY <1>3
  <2>5. f[n - 1] \in Nat /\ g[n - 1] \in Nat
    BY <1>7, <2>2
  <2>6. /\ a[n] \in Nat /\ b[n] \in Nat /\ a[i] \in Nat /\ b[i] \in Nat
        /\ n \in Int /\ i \in Int
        /\ n # i => a[n] = b[n]
    OBVIOUS
  <2>7. IF n - 1 < i THEN f[n - 1] = g[n - 1] ELSE f[n - 1] + b[i] = g[n - 1] + a[i]
    BY <1>5
  <2>. DEFINE fp == f[n - 1]
              gp == g[n - 1]
              an == a[n]
              bn == b[n]
              ai == a[i]
              bi == b[i]
  <2>3. /\ fp \in Nat /\ gp \in Nat /\ an \in Nat /\ bn \in Nat /\ ai \in Nat /\ bi \in Nat
        /\ n \in Int /\ i \in Int
        /\ IF n - 1 < i THEN fp = gp ELSE fp + bi = gp + ai
        /\ n # i => an = bn
        /\ n = i => an = ai /\ bn = bi
        /\ f[n] = fp + an /\ g[n] = gp + bn
    BY <2>1, <2>5, <2>6, <2>7
  <2>. HIDE DEF fp, gp, an, bn, ai, bi
  <2>4. IF n < i THEN f[n] = g[n] ELSE f[n] + b[i] = g[n] + a[i]
    <3>1. CASE n < i
      BY <2>3, <3>1
    <3>2. CASE n = i
      <4>1. fp = gp
        BY <2>3, <3>2
      <4>2. (fp + an) + bn = (fp + bn) + an
        BY <2>3, Exchange
      <4>3. f[n] = fp + an /\ g[n] = fp + bn /\ b[i] = bn /\ a[i] = an
        BY <2>3, <3>2, <4>1 DEF an, bn
      <4>. QED
        BY <3>2, <4>2, <4>3
    <3>3. CASE n > i
      <4>1. fp + bi = gp + ai /\ an = bn
        BY <2>3, <3>3
      <4>2. (fp + an) + bi = (gp + an) + ai
        BY <2>3, <4>1, Exchange
      <4>3. f[n] = fp + an /\ g[n] = gp + an /\ b[i] = bi /\ a[i] = ai
        BY <2>3, <4>1 DEF ai, bi
      <4>4. ~(n < i)
        BY <2>3, <3>3
      <4>. QED
        BY <4>2, <4>3, <4>4
    <3>. QED
      BY <2>3, <3>1, <3>2, <3>3
  <2>. QED
    BY <1>3, <2>4
<1>6. \A n \in 0..N : n \in T
  <2>. HIDE DEF T, N
  <2>. QED
    BY <1>3, <1>4, <1>5, UpTo
<1>. QED
  BY <1>1, <1>2, <1>3, <1>6 DEF SumsOf

LEMMA TotalAppend ==
    ASSUME NEW a \in Seq(Nat), NEW x \in Nat
    PROVE  Total(Append(a, x)) = Total(a) + x
<1>. DEFINE N == Len(a)
            b == Append(a, x)
<1>1. /\ N \in Nat /\ N \in 0..N /\ N + 1 \in 1..(N + 1)
      /\ b \in Seq(Nat) /\ Len(b) = N + 1 /\ b[N + 1] = x
      /\ \A j \in 1..N : b[j] = a[j]
  OBVIOUS
<1>. HIDE DEF b
<1>2. PICK f : SumsOf(a, f)
  BY Sums
<1>3. PICK g : SumsOf(b, g)
  BY <1>1, Sums
<1>. DEFINE T == {n \in 0..N : f[n] = g[n]}
<1>4. 0 \in T
  BY <1>1, <1>2, <1>3 DEF SumsOf
<1>5. ASSUME NEW n \in 1..N, n - 1 \in T PROVE n \in T
  <2>1. n \in 1..(N + 1)
    BY <1>1
  <2>2. f[n] = f[n - 1] + a[n] /\ g[n] = g[n - 1] + b[n] /\ a[n] = b[n]
    BY <1>1, <1>2, <1>3, <2>1 DEF SumsOf
  <2>. QED
    BY <1>5, <2>2
<1>6. \A n \in 0..N : n \in T
  <2>. HIDE DEF T, N
  <2>. QED
    BY <1>1, <1>4, <1>5, UpTo
<1>7. g[N + 1] = g[N] + x /\ f[N] = g[N]
  BY <1>1, <1>3, <1>6 DEF SumsOf
<1>. QED
  BY <1>1, <1>2, <1>3, <1>7 DEF SumsOf, b

LEMMA SumsGrow ==
    ASSUME NEW a \in Seq(Nat), NEW f, SumsOf(a, f), NEW m \in 0..Len(a), NEW n \in m..Len(a)
    PROVE  f[m] <= f[n]
<1>. DEFINE N == Len(a)
            T == {k \in 0..N : m <= k => f[m] <= f[k]}
<1>1. N \in Nat /\ m \in 0..N /\ m \in Int /\ n \in 0..N /\ m <= n
  OBVIOUS
<1>2. f \in [0..N -> Nat] /\ \A k \in 1..N : f[k] = f[k - 1] + a[k]
  BY DEF SumsOf
<1>3. f[m] \in Nat /\ f[0] \in Nat
  BY <1>1, <1>2
<1>4. 0 \in T
  BY <1>1, <1>3
<1>5. ASSUME NEW k \in 1..N, k - 1 \in T PROVE k \in T
  <2>1. k \in Int /\ k - 1 \in 0..N /\ k \in 0..N
    BY <1>1
  <2>2. a[k] \in Nat
    OBVIOUS
  <2>3. f[k - 1] \in Nat /\ f[k] = f[k - 1] + a[k]
    BY <1>2, <2>1
  <2>4. CASE m = k
    BY <1>3, <2>1, <2>4
  <2>5. CASE m < k
    <3>1. f[m] <= f[k - 1]
      BY <1>1, <1>5, <2>1, <2>5
    <3>. DEFINE p == f[k - 1]
                q == a[k]
                u == f[m]
    <3>2. p \in Nat /\ q \in Nat /\ u \in Nat /\ u <= p /\ f[k] = p + q
      BY <1>3, <2>2, <2>3, <3>1
    <3>. HIDE DEF p, q, u
    <3>3. u <= f[k]
      BY <3>2
    <3>. QED
      BY <2>1, <3>3 DEF u
  <2>6. CASE m > k
    BY <1>1, <2>1, <2>6
  <2>. QED
    BY <1>1, <2>1, <2>4, <2>5, <2>6
<1>6. \A k \in 0..N : k \in T
  <2>. HIDE DEF T, N
  <2>. QED
    BY <1>1, <1>4, <1>5, UpTo
<1>. QED
  BY <1>1, <1>6

(* The places e of a shorter sequence's elements in a longer one, in their order. *)
Increasing(e, n, N) ==
    /\ e \in [1..n -> 1..N]
    /\ \A k, l \in 1..n : k < l => e[k] < e[l]

(* The sum of some of the parts, each at most what it was, is at most the whole. *)
LEMMA TotalEmbedded ==
    ASSUME NEW a \in Seq(Nat), NEW b \in Seq(Nat), NEW e, Increasing(e, Len(a), Len(b)),
           \A k \in 1..Len(a) : a[k] <= b[e[k]]
    PROVE  Total(a) <= Total(b)
<1>. DEFINE N == Len(a)
            M == Len(b)
            at(n) == IF n = 0 THEN 0 ELSE e[n]
<1>1. PICK f : SumsOf(a, f)
  BY Sums
<1>2. PICK g : SumsOf(b, g)
  BY Sums
<1>3. N \in Nat /\ M \in Nat /\ N \in 0..N /\ M \in 0..M
  OBVIOUS
<1>4. f \in [0..N -> Nat] /\ g \in [0..M -> Nat]
  BY <1>1, <1>2 DEF SumsOf
<1>5. /\ \A n \in 0..N : at(n) \in 0..M
      /\ \A n \in 1..N : at(n) \in 1..M /\ at(n - 1) < at(n)
  <2>1. \A n \in 1..N : e[n] \in 1..M
    BY DEF Increasing
  <2>2. ASSUME NEW n \in 1..N, n # 1 PROVE e[n - 1] < e[n]
    <3>1. n - 1 \in 1..N /\ n - 1 < n
      BY <2>2
    <3>. QED
      BY <3>1 DEF Increasing
  <2>. QED
    BY <1>3, <2>1, <2>2
<1>. DEFINE T == {n \in 0..N : f[n] <= g[at(n)]}
<1>6. 0 \in T
  BY <1>1, <1>2, <1>3 DEF SumsOf
<1>7. ASSUME NEW n \in 1..N, n - 1 \in T PROVE n \in T
  <2>. DEFINE p == at(n - 1)
              q == at(n)
  <2>1. /\ p \in 0..M /\ q \in 1..M /\ p < q /\ n - 1 \in 0..N /\ n \in 0..N
        /\ q - 1 \in 0..M /\ q - 1 \in p..M /\ q = e[n]
    BY <1>3, <1>5
  <2>2. f[n] = f[n - 1] + a[n] /\ f[n - 1] <= g[p] /\ f[n - 1] \in Nat
    BY <1>1, <1>4, <1>7, <2>1 DEF SumsOf
  <2>. HIDE DEF p, q
  <2>3. g[q] = g[q - 1] + b[q] /\ g[q - 1] \in Nat /\ g[p] \in Nat
    BY <1>2, <1>4, <2>1 DEF SumsOf
  <2>4. g[p] <= g[q - 1]
    BY <1>2, <2>1, SumsGrow
  <2>7. q \in 1..Len(b) /\ e[n] = q
    BY <2>1
  <2>8. a[n] <= b[q]
    BY <2>7
  <2>5. a[n] \in Nat /\ b[q] \in Nat /\ a[n] <= b[q]
    BY <2>7, <2>8
  <2>6. f[n] <= g[q]
    <3>. DEFINE u == f[n - 1]
                v == g[q - 1]
                x == a[n]
                y == b[q]
    <3>1. u \in Nat /\ v \in Nat /\ x \in Nat /\ y \in Nat /\ u <= v /\ x <= y
      BY <2>2, <2>3, <2>4, <2>5
    <3>2. f[n] = u + x /\ g[q] = v + y
      BY <2>2, <2>3
    <3>. HIDE DEF u, v, x, y
    <3>3. u + x <= v + y
      BY <3>1
    <3>. QED
      BY <3>2, <3>3
  <2>. QED
    BY <2>1, <2>6 DEF q
<1>8. \A n \in 0..N : n \in T
  <2>. HIDE DEF T, N
  <2>. QED
    BY <1>3, <1>6, <1>7, UpTo
<1>9. f[N] <= g[at(N)] /\ at(N) \in 0..M
  BY <1>3, <1>5, <1>8
<1>10. g[at(N)] <= g[M]
  <2>. DEFINE m == at(N)
  <2>1. m \in 0..M /\ M \in m..M
    BY <1>3, <1>9
  <2>. HIDE DEF m
  <2>2. g[m] <= g[M]
    BY <1>2, <2>1, SumsGrow
  <2>. QED
    BY <2>2 DEF m
<1>11. f[N] \in Nat /\ g[M] \in Nat /\ g[at(N)] \in Nat /\ f[N] = Total(a) /\ g[M] = Total(b)
  BY <1>1, <1>2, <1>3, <1>4, <1>9 DEF SumsOf
<1>. QED
  BY <1>9, <1>10, <1>11

(* The elements of rs, up to the n-th, that are in S, and their places. *)
Filters(rs, n, S, ks, e) ==
    /\ Increasing(e, Len(ks), n)
    /\ \A k \in 1..Len(ks) : ks[k] = rs[e[k]] /\ ks[k] \in S
    /\ \A i \in 1..n : rs[i] \in S => \E k \in 1..Len(ks) : e[k] = i

(* What Those keeps of each prefix of rs, up to what it returns. *)
Keeps(T, rs, S, f) ==
    /\ f \in [0..Len(rs) -> Seq(T)]
    /\ f[0] = <<>>
    /\ \A n \in 1..Len(rs) : f[n] = IF rs[n] \in S THEN Append(f[n - 1], rs[n]) ELSE f[n - 1]
    /\ f[Len(rs)] = Those(rs, S)

LEMMA KeepsExists ==
    ASSUME NEW T, NEW rs \in Seq(T), NEW S
    PROVE  \E f : Keeps(T, rs, S, f)
<1>. DEFINE N == Len(rs)
            X == Seq(T)
            x == <<>>
            Body(s) == [n \in 0..N |-> IF n = 0 THEN <<>>
                                       ELSE IF rs[n] \in S THEN Append(s[n - 1], rs[n]) ELSE s[n - 1]]
            F == CHOOSE s : s = Body(s)
            g == [n \in 1..N |-> [y \in X |-> IF rs[n] \in S THEN Append(y, rs[n]) ELSE y]]
<1>1. N \in Nat /\ x \in X
  OBVIOUS
<1>2. ASSUME NEW n \in 1..N PROVE rs[n] \in T
  OBVIOUS
<1>3. ASSUME NEW n \in 1..N, NEW y \in X
      PROVE  (IF rs[n] \in S THEN Append(y, rs[n]) ELSE y) \in X
  BY <1>2
<1>4. g \in [1..N -> [X -> X]]
  <2>. HIDE DEF X, N
  <2>. QED
    BY <1>3
<1>5. \A n \in 1..N, y \in X : g[n][y] = IF rs[n] \in S THEN Append(y, rs[n]) ELSE y
  <2>. HIDE DEF X, N
  <2>. QED
    OBVIOUS
<1>6. PICK f : Iterates(N, X, x, g, f)
  <2>. HIDE DEF g, N, X, x
  <2>. QED
    BY <1>1, <1>4, Recursion
<1>7. /\ f \in [0..N -> X] /\ f[0] = <<>>
      /\ \A n \in 1..N : f[n] = IF rs[n] \in S THEN Append(f[n - 1], rs[n]) ELSE f[n - 1]
  <2>1. f \in [0..N -> X] /\ f[0] = <<>> /\ \A n \in 1..N : f[n] = g[n][f[n - 1]]
    <3>. HIDE DEF g, N, X
    <3>. QED
      BY <1>6 DEF Iterates
  <2>2. \A n \in 1..N : f[n - 1] \in X
    <3>1. \A n \in 1..N : n - 1 \in 0..N
      BY <1>1
    <3>. HIDE DEF X, N, g
    <3>. QED
      BY <2>1, <3>1
  <2>. HIDE DEF X, N, g
  <2>. QED
    BY <1>5, <2>1, <2>2
<1>8. f = Body(f)
  <2>1. ASSUME NEW n \in 0..N PROVE f[n] = Body(f)[n]
    <3>1. Body(f)[n] = IF n = 0 THEN <<>>
                       ELSE IF rs[n] \in S THEN Append(f[n - 1], rs[n]) ELSE f[n - 1]
      <4>. HIDE DEF X
      <4>. QED
        OBVIOUS
    <3>2. n = 0 \/ n \in 1..N
      BY <1>1
    <3>3. CASE n = 0
      BY <1>7, <3>1, <3>3
    <3>4. CASE n \in 1..N
      <4>1. n # 0
        BY <3>4
      <4>. HIDE DEF X, Body, N
      <4>. QED
        BY <1>7, <3>1, <3>4, <4>1
    <3>. QED
      BY <3>2, <3>3, <3>4
  <2>2. f = [n \in 0..N |-> f[n]] /\ Body(f) = [n \in 0..N |-> Body(f)[n]]
    BY <1>7
  <2>. HIDE DEF Body
  <2>3. [n \in 0..N |-> f[n]] = [n \in 0..N |-> Body(f)[n]]
    BY <2>1
  <2>. QED
    BY <2>2, <2>3
<1>9. F = Body(F)
  <2>. HIDE DEF Body
  <2>. QED
    BY <1>8
<1>10. Those(rs, S) = F[N]
  BY DEF Those
<1>11. F = [n \in 0..N |-> F[n]] /\ \A n \in 0..N : F[n] = Body(F)[n]
  <2>. HIDE DEF F
  <2>. QED
    BY <1>9
<1>. HIDE DEF F
<1>12. /\ F[0] = <<>>
       /\ \A n \in 1..N : F[n] = IF rs[n] \in S THEN Append(F[n - 1], rs[n]) ELSE F[n - 1]
  BY <1>1, <1>11
<1>13. \A n \in 0..N : F[n] \in X
  <2>. DEFINE U == {n \in 0..N : F[n] \in X}
  <2>1. 0 \in U
    <3>1. 0 \in 0..N /\ F[0] = x
      BY <1>1, <1>12
    <3>. HIDE DEF X, N, x
    <3>. QED
      BY <1>1, <3>1
  <2>2. ASSUME NEW n \in 1..N, n - 1 \in U PROVE n \in U
    <3>1. F[n - 1] \in X /\ n \in 0..N
      BY <2>2
    <3>. HIDE DEF X, N
    <3>. QED
      BY <1>3, <1>12, <3>1
  <2>3. \A n \in 0..N : n \in U
    <3>. HIDE DEF U, N
    <3>. QED
      BY <1>1, <2>1, <2>2, UpTo
  <2>. QED
    BY <2>3
<1>14. F \in [0..N -> X]
  <2>. HIDE DEF X, N
  <2>. QED
    BY <1>11, <1>13
<1>15. Keeps(T, rs, S, F)
  BY <1>10, <1>12, <1>14 DEF Keeps
<1>. QED
  BY <1>15

LEMMA FiltersStep ==
    ASSUME NEW T, NEW rs \in Seq(T), NEW S, NEW n \in 1..Len(rs), NEW ks \in Seq(T), NEW e,
           Filters(rs, n - 1, S, ks, e)
    PROVE  \E d : Filters(rs, n, S, IF rs[n] \in S THEN Append(ks, rs[n]) ELSE ks, d)
<1>. DEFINE L == Len(ks)
<1>1. /\ L \in Nat /\ n \in Nat /\ n \in 1..n /\ L + 1 \in 1..(L + 1) /\ 1..(n - 1) \subseteq 1..n
      /\ rs[n] \in T
  OBVIOUS
<1>2. /\ e \in [1..L -> 1..(n - 1)]
      /\ \A k, l \in 1..L : k < l => e[k] < e[l]
      /\ \A k \in 1..L : ks[k] = rs[e[k]] /\ ks[k] \in S
      /\ \A i \in 1..(n - 1) : rs[i] \in S => \E k \in 1..L : e[k] = i
  BY DEF Filters, Increasing
<1>3. \A i \in 1..n : i = n \/ i \in 1..(n - 1)
  OBVIOUS
<1>4. CASE rs[n] \notin S
  <2>1. Filters(rs, n, S, ks, e)
    <3>1. e \in [1..L -> 1..n]
      BY <1>1, <1>2
    <3>. QED
      BY <1>2, <1>3, <1>4, <3>1 DEF Filters, Increasing
  <2>. QED
    BY <1>4, <2>1
<1>5. CASE rs[n] \in S
  <2>. DEFINE d == [k \in 1..(L + 1) |-> IF k = L + 1 THEN n ELSE e[k]]
              ls == Append(ks, rs[n])
  <2>1. /\ Len(ls) = L + 1 /\ ls[L + 1] = rs[n]
        /\ \A k \in 1..L : ls[k] = ks[k]
    BY <1>1
  <2>2. \A k \in 1..(L + 1) : k = L + 1 \/ (k \in 1..L /\ k # L + 1)
    BY <1>1
  <2>3. /\ d[L + 1] = n
        /\ \A k \in 1..L : d[k] = e[k]
    <3>1. \A k \in 1..L : k \in 1..(L + 1) /\ k # L + 1
      BY <1>1
    <3>. HIDE DEF L
    <3>. QED
      BY <1>1, <3>1
  <2>4. \A k \in 1..L : e[k] \in 1..(n - 1) /\ e[k] \in 1..n /\ e[k] < n
    BY <1>1, <1>2
  <2>5. d \in [1..(L + 1) -> 1..n]
    <3>. HIDE DEF L
    <3>. QED
      BY <1>1, <2>2, <2>4
  <2>. HIDE DEF d, ls
  <2>6. ASSUME NEW k \in 1..(L + 1), NEW l \in 1..(L + 1), k < l
        PROVE  d[k] < d[l]
    <3>1. k \in 1..L
      BY <1>1, <2>6
    <3>2. CASE l = L + 1
      BY <2>3, <2>4, <3>1, <3>2
    <3>3. CASE l \in 1..L
      BY <1>2, <2>3, <2>6, <3>1, <3>3
    <3>. QED
      BY <2>2, <3>2, <3>3
  <2>7. ASSUME NEW k \in 1..(L + 1) PROVE ls[k] = rs[d[k]] /\ ls[k] \in S
    <3>1. CASE k = L + 1
      BY <1>5, <2>1, <2>3, <3>1
    <3>2. CASE k \in 1..L
      BY <1>2, <2>1, <2>3, <3>2
    <3>. QED
      BY <2>2, <3>1, <3>2
  <2>8. ASSUME NEW i \in 1..n, rs[i] \in S PROVE \E k \in 1..(L + 1) : d[k] = i
    <3>1. CASE i = n
      BY <1>1, <2>3, <3>1
    <3>2. CASE i \in 1..(n - 1)
      <4>1. PICK k \in 1..L : e[k] = i
        BY <1>2, <2>8, <3>2
      <4>2. k \in 1..(L + 1) /\ d[k] = i
        BY <1>1, <2>3, <4>1
      <4>. QED
        BY <4>2
    <3>. QED
      BY <1>3, <3>1, <3>2
  <2>9. Filters(rs, n, S, ls, d)
    BY <2>1, <2>5, <2>6, <2>7, <2>8 DEF Filters, Increasing
  <2>. QED
    BY <1>5, <2>9 DEF ls
<1>. QED
  BY <1>4, <1>5

(* Those returns the elements that are in S, each in its place. *)
LEMMA ThoseFilters ==
    ASSUME NEW T, NEW rs \in Seq(T), NEW S
    PROVE  /\ Those(rs, S) \in Seq(T)
           /\ \E e : Filters(rs, Len(rs), S, Those(rs, S), e)
<1>. DEFINE N == Len(rs)
            X == Seq(T)
<1>1. PICK f : Keeps(T, rs, S, f)
  BY KeepsExists
<1>. DEFINE U == {n \in 0..N : \E e : Filters(rs, n, S, f[n], e)}
<1>2. N \in Nat /\ N \in 0..N /\ 0 \in 0..N
  OBVIOUS
<1>3. /\ f \in [0..N -> X] /\ f[0] = <<>> /\ f[N] = Those(rs, S)
      /\ \A n \in 1..N : f[n] = IF rs[n] \in S THEN Append(f[n - 1], rs[n]) ELSE f[n - 1]
  BY <1>1 DEF Keeps
<1>4. 0 \in U
  <2>1. Filters(rs, 0, S, <<>>, <<>>)
    <3>1. Len(<<>>) = 0 /\ 1..0 = {} /\ <<>> \in [{} -> {}]
      OBVIOUS
    <3>. QED
      BY <3>1 DEF Filters, Increasing
  <2>. QED
    BY <1>2, <1>3, <2>1
<1>5. ASSUME NEW n \in 1..N, n - 1 \in U PROVE n \in U
  <2>1. PICK e : Filters(rs, n - 1, S, f[n - 1], e)
    BY <1>5
  <2>2. n - 1 \in 0..N /\ n \in 0..N
    BY <1>2
  <2>3. f[n - 1] \in Seq(T)
    <3>. HIDE DEF N
    <3>. QED
      BY <1>3, <2>2
  <2>4. \E d : Filters(rs, n, S, f[n], d)
    <3>. DEFINE ks == f[n - 1]
    <3>1. ks \in Seq(T) /\ Filters(rs, n - 1, S, ks, e)
      BY <2>1, <2>3
    <3>2. f[n] = IF rs[n] \in S THEN Append(ks, rs[n]) ELSE ks
      BY <1>3
    <3>. HIDE DEF ks
    <3>3. \E d : Filters(rs, n, S, IF rs[n] \in S THEN Append(ks, rs[n]) ELSE ks, d)
      BY <3>1, FiltersStep
    <3>. QED
      BY <3>2, <3>3
  <2>. QED
    BY <2>2, <2>4
<1>6. \A n \in 0..N : n \in U
  <2>. HIDE DEF U, N
  <2>. QED
    BY <1>2, <1>4, <1>5, UpTo
<1>7. f[N] \in Seq(T)
  <2>. HIDE DEF N
  <2>. QED
    BY <1>2, <1>3
<1>. QED
  BY <1>2, <1>3, <1>6, <1>7

-----------------------------------------------------------------------------
(* The operations of the store on its records.                              *)

LEMMA MinOf ==
    ASSUME NEW S \in SUBSET Nat, S # {}
    PROVE  Min(S) \in S /\ \A y \in S : Min(S) <= y
<1>1. \E x \in S : \A y \in S : x <= y
  BY LeastNumber
<1>. QED
  BY <1>1 DEF Min

LEMMA StoreConstants ==
    /\ MaxBytes \in Nat /\ MaxRecords \in Nat \ {0} /\ Retention \in Nat \ {0}
    /\ SummaryBytes \in Nat \ {0} /\ EntryBytes \in Nat \ {0} /\ MaxFiles \in Nat
    /\ MaxIds \in Nat /\ MaxNow \in Nat
    /\ \A x \in Sizes : x \in Nat
    /\ SummaryBytes <= MaxBytes
<1>1. /\ {MaxRecords, Retention, SummaryBytes, EntryBytes, MaxFiles, MaxIds} \subseteq Nat \ {0}
      /\ {MaxBytes, MaxNow} \cup Sizes \subseteq Nat
      /\ MaxBytes >= 4 * SummaryBytes
  BY ArtifactStoreAssumption
<1>. QED
  BY <1>1

LEMMA FileList ==
    ASSUME NEW q
    PROVE  q \in FileLists <=> q \in Seq(Sizes) /\ Len(q) <= MaxFiles
<1>1. MaxFiles \in Nat
  BY StoreConstants
<1>2. ASSUME q \in FileLists PROVE q \in Seq(Sizes) /\ Len(q) <= MaxFiles
  <2>1. PICK m \in 0..MaxFiles : q \in [1..m -> Sizes]
    BY <1>2 DEF FileLists, SeqOf
  <2>2. m \in Nat /\ m <= MaxFiles
    BY <1>1, <2>1
  <2>. QED
    BY <2>1, <2>2
<1>3. ASSUME q \in Seq(Sizes), Len(q) <= MaxFiles PROVE q \in FileLists
  <2>1. Len(q) \in 0..MaxFiles /\ q \in [1..Len(q) -> Sizes]
    BY <1>1, <1>3
  <2>. QED
    BY <2>1 DEF FileLists, SeqOf
<1>. QED
  BY <1>2, <1>3

(* Artifact for the identifiers up to b and the times up to n. *)
Artifacts(b, n) ==
    [id : 1..b, created : 0..n, files : FileLists, reason : Reasons,
     given : FileLists, done : 0..n]

LEMMA EmptyList == <<>> \in FileLists
<1>. DEFINE q == <<>>
<1>1. q \in Seq(Sizes) /\ Len(q) <= MaxFiles
  BY StoreConstants
<1>. HIDE DEF q
<1>2. q \in FileLists
  BY <1>1, FileList
<1>. QED
  BY <1>2 DEF q

LEMMA ListSum ==
    ASSUME NEW q \in FileLists
    PROVE  [i \in DOMAIN q |-> q[i] + EntryBytes] \in Seq(Nat)
<1>1. q \in Seq(Sizes)
  BY FileList
<1>2. ASSUME NEW i \in DOMAIN q PROVE q[i] + EntryBytes \in Nat
  <2>1. q[i] \in Sizes
    BY <1>1
  <2>. QED
    BY <2>1, StoreConstants
<1>3. Len(q) \in Nat /\ DOMAIN q = 1..Len(q)
  BY <1>1
<1>. QED
  BY <1>2, <1>3

LEMMA SizeNat ==
    ASSUME NEW b, NEW n, NEW r \in Artifacts(b, n)
    PROVE  Size(r) \in Nat /\ SummaryBytes <= Size(r)
<1>. DEFINE q == [i \in DOMAIN r.files |-> r.files[i] + EntryBytes]
<1>1. q \in Seq(Nat)
  <2>1. r.files \in FileLists
    BY DEF Artifacts
  <2>. QED
    BY <2>1, ListSum
<1>2. Total(q) \in Nat
  <2>. HIDE DEF q
  <2>. QED
    BY <1>1, TotalNat
<1>. QED
  BY <1>2, StoreConstants DEF Size

LEMMA SizeBare ==
    ASSUME NEW r, r.files = <<>>
    PROVE  Size(r) = SummaryBytes
<1>1. [i \in DOMAIN r.files |-> r.files[i] + EntryBytes] = <<>>
  OBVIOUS
<1>. QED
  BY <1>1, TotalEmpty, StoreConstants DEF Size

LEMMA SizeGrown ==
    ASSUME NEW r, r.files \in FileLists, NEW x \in Sizes, NEW s, s.files = Append(r.files, x)
    PROVE  Size(s) = Size(r) + (x + EntryBytes)
<1>. DEFINE f == r.files
            g == s.files
            p == [i \in DOMAIN f |-> f[i] + EntryBytes]
            q == [i \in DOMAIN g |-> g[i] + EntryBytes]
            y == x + EntryBytes
<1>1. f \in Seq(Sizes) /\ g \in Seq(Sizes) /\ g = Append(f, x)
  BY FileList
<1>2. p \in Seq(Nat) /\ y \in Nat
  BY ListSum, StoreConstants
<1>3. q = Append(p, y)
  <2>. DEFINE L == Len(f)
  <2>1. /\ L \in Nat /\ DOMAIN f = 1..L /\ DOMAIN g = 1..(L + 1)
        /\ Len(p) = L
    <3>1. L \in Nat /\ DOMAIN f = 1..L /\ Len(g) = L + 1 /\ DOMAIN g = 1..Len(g)
      BY <1>1
    <3>. QED
      BY <3>1
  <2>2. g[L + 1] = x /\ \A i \in 1..L : g[i] = f[i]
    BY <1>1
  <2>3. /\ Append(p, y) \in Seq(Nat) /\ Len(Append(p, y)) = L + 1
        /\ Append(p, y)[L + 1] = y
        /\ \A i \in 1..L : Append(p, y)[i] = p[i]
    <3>. HIDE DEF p, y
    <3>. QED
      BY <1>2, <2>1
  <2>4. \A i \in 1..(L + 1) : Append(p, y)[i] = g[i] + EntryBytes
    <3>1. \A i \in 1..L : p[i] = f[i] + EntryBytes
      BY <2>1
    <3>2. \A i \in 1..(L + 1) : i = L + 1 \/ i \in 1..L
      BY <2>1
    <3>. HIDE DEF p, L, f, g
    <3>. QED
      BY <2>2, <2>3, <3>1, <3>2
  <2>5. Append(p, y) = [i \in 1..(L + 1) |-> Append(p, y)[i]]
    <3>. DEFINE a == Append(p, y)
    <3>1. a \in Seq(Nat) /\ Len(a) = L + 1
      BY <2>3
    <3>. HIDE DEF a
    <3>2. a = [i \in 1..(L + 1) |-> a[i]]
      <4>1. a \in [1..Len(a) -> Nat]
        BY <3>1
      <4>. QED
        BY <3>1, <4>1
    <3>. QED
      BY <3>2 DEF a
  <2>6. q = [i \in 1..(L + 1) |-> g[i] + EntryBytes]
    <3>. HIDE DEF L, g
    <3>. QED
      BY <2>1
  <2>. HIDE DEF q, p, y, L, g
  <2>. QED
    BY <2>4, <2>5, <2>6
<1>4. Total(q) = Total(p) + y
  <2>. HIDE DEF p, q, y
  <2>. QED
    BY <1>2, <1>3, TotalAppend
<1>5. Total(p) \in Nat
  <2>. HIDE DEF p
  <2>. QED
    BY <1>2, TotalNat
<1>6. Size(s) = SummaryBytes + Total(q) /\ Size(r) = SummaryBytes + Total(p)
  BY DEF Size
<1>. HIDE DEF p, q
<1>. QED
  BY <1>2, <1>4, <1>5, <1>6, StoreConstants

LEMMA ArtifactsGrow ==
    ASSUME NEW b \in Nat, NEW n \in Nat, NEW c \in Nat, NEW m \in Nat, b <= c, n <= m,
           NEW r \in Artifacts(b, n)
    PROVE  r \in Artifacts(c, m)
<1>1. 1..b \subseteq 1..c /\ 0..n \subseteq 0..m
  OBVIOUS
<1>. QED
  BY <1>1 DEF Artifacts

LEMMA Dropped ==
    ASSUME NEW b, NEW n, NEW r \in Artifacts(b, n), NEW reason \in Reasons
    PROVE  LET d == Drop(r, reason)
           IN  /\ d \in Artifacts(b, n)
               /\ d.id = r.id /\ d.created = r.created /\ d.done = r.done /\ d.given = r.given
               /\ d.files = <<>> /\ d.reason = reason
               /\ Size(d) = SummaryBytes
<1>. DEFINE d == Drop(r, reason)
<1>1. /\ d \in Artifacts(b, n)
      /\ d.id = r.id /\ d.created = r.created /\ d.done = r.done /\ d.given = r.given
      /\ d.files = <<>> /\ d.reason = reason
  BY EmptyList DEF Artifacts, Drop
<1>. HIDE DEF d
<1>2. Size(d) = SummaryBytes
  BY <1>1, SizeBare
<1>. QED
  BY <1>1, <1>2 DEF d

SizesOf(rs) == [i \in DOMAIN rs |-> Size(rs[i])]

LEMMA SizesFacts ==
    ASSUME NEW b, NEW n, NEW rs \in Seq(Artifacts(b, n))
    PROVE  /\ SizesOf(rs) \in Seq(Nat)
           /\ Len(SizesOf(rs)) = Len(rs)
           /\ \A i \in 1..Len(rs) : SizesOf(rs)[i] = Size(rs[i])
           /\ \A i \in 1..Len(rs) : Size(rs[i]) \in Nat
           /\ Used(rs) = Total(SizesOf(rs))
<1>. DEFINE T == Artifacts(b, n)
            L == Len(rs)
<1>1. L \in Nat /\ DOMAIN rs = 1..L
  OBVIOUS
<1>2. ASSUME NEW i \in 1..L PROVE Size(rs[i]) \in Nat
  <2>1. rs[i] \in Artifacts(b, n)
    OBVIOUS
  <2>. QED
    BY <2>1, SizeNat
<1>3. SizesOf(rs) = [i \in 1..L |-> Size(rs[i])]
  <2>. HIDE DEF L
  <2>. QED
    BY <1>1 DEF SizesOf
<1>4. SizesOf(rs) \in Seq(Nat) /\ Len(SizesOf(rs)) = L
  <2>. HIDE DEF L
  <2>1. SizesOf(rs) \in [1..L -> Nat]
    BY <1>2, <1>3
  <2>. QED
    BY <1>1, <2>1
<1>5. Used(rs) = Total(SizesOf(rs))
  BY DEF Used, SizesOf
<1>. QED
  BY <1>2, <1>3, <1>4, <1>5

LEMMA UsedNat ==
    ASSUME NEW b, NEW n, NEW rs \in Seq(Artifacts(b, n))
    PROVE  Used(rs) \in Nat
BY SizesFacts, TotalNat

LEMMA UsedEmpty == Used(<<>>) = 0
<1>1. [i \in DOMAIN <<>> |-> Size(<<>>[i])] = <<>>
  OBVIOUS
<1>. QED
  BY <1>1, TotalEmpty DEF Used

LEMMA UsedEmbedded ==
    ASSUME NEW b, NEW n, NEW rs \in Seq(Artifacts(b, n)), NEW out \in Seq(Artifacts(b, n)),
           NEW e, Increasing(e, Len(out), Len(rs)),
           \A k \in 1..Len(out) : Size(out[k]) <= Size(rs[e[k]])
    PROVE  Used(out) <= Used(rs)
<1>. DEFINE p == SizesOf(out)
            q == SizesOf(rs)
<1>1. /\ p \in Seq(Nat) /\ Len(p) = Len(out) /\ \A k \in 1..Len(out) : p[k] = Size(out[k])
      /\ q \in Seq(Nat) /\ Len(q) = Len(rs) /\ \A i \in 1..Len(rs) : q[i] = Size(rs[i])
      /\ Used(out) = Total(p) /\ Used(rs) = Total(q)
  BY SizesFacts
<1>2. \A k \in 1..Len(out) : e[k] \in 1..Len(rs)
  BY DEF Increasing
<1>. HIDE DEF p, q
<1>3. \A k \in 1..Len(p) : p[k] <= q[e[k]]
  BY <1>1, <1>2
<1>4. Increasing(e, Len(p), Len(q))
  BY <1>1
<1>. QED
  BY <1>1, <1>3, <1>4, TotalEmbedded

LEMMA UsedExcept ==
    ASSUME NEW b, NEW n, NEW rs \in Seq(Artifacts(b, n)), NEW out \in Seq(Artifacts(b, n)),
           Len(out) = Len(rs), NEW i \in 1..Len(rs),
           \A j \in 1..Len(rs) : j # i => out[j] = rs[j]
    PROVE  Used(out) + Size(rs[i]) = Used(rs) + Size(out[i])
<1>. DEFINE p == SizesOf(out)
            q == SizesOf(rs)
<1>1. /\ p \in Seq(Nat) /\ Len(p) = Len(out) /\ \A k \in 1..Len(out) : p[k] = Size(out[k])
      /\ q \in Seq(Nat) /\ Len(q) = Len(rs) /\ \A k \in 1..Len(rs) : q[k] = Size(rs[k])
      /\ Used(out) = Total(p) /\ Used(rs) = Total(q)
  BY SizesFacts
<1>. HIDE DEF p, q
<1>2. Len(p) = Len(q) /\ i \in 1..Len(p) /\ \A j \in 1..Len(p) : j # i => p[j] = q[j]
  BY <1>1
<1>3. Total(p) + q[i] = Total(q) + p[i]
  BY <1>1, <1>2, TotalExcept
<1>. QED
  BY <1>1, <1>2, <1>3

LEMMA UsedAppend ==
    ASSUME NEW b, NEW n, NEW rs \in Seq(Artifacts(b, n)), NEW r \in Artifacts(b, n)
    PROVE  Used(Append(rs, r)) = Used(rs) + Size(r)
<1>. DEFINE T == Artifacts(b, n)
            out == Append(rs, r)
            L == Len(rs)
            x == Size(r)
            p == SizesOf(rs)
            q == SizesOf(out)
<1>1. /\ L \in Nat /\ out \in Seq(T) /\ Len(out) = L + 1 /\ out[L + 1] = r
      /\ \A i \in 1..L : out[i] = rs[i]
  <2>. HIDE DEF T
  <2>. QED
    BY DEF T
<1>2. x \in Nat
  BY SizeNat
<1>3. /\ p \in Seq(Nat) /\ Len(p) = L /\ \A i \in 1..L : p[i] = Size(rs[i])
      /\ Used(rs) = Total(p)
  BY SizesFacts
<1>. HIDE DEF out
<1>4. /\ q \in Seq(Nat) /\ Len(q) = L + 1 /\ \A i \in 1..(L + 1) : q[i] = Size(out[i])
      /\ Used(out) = Total(q)
  BY <1>1, SizesFacts
<1>. HIDE DEF p, q, x, L
<1>5. q = Append(p, x)
  <2>. DEFINE a == Append(p, x)
  <2>1. /\ a \in Seq(Nat) /\ Len(a) = L + 1 /\ a[L + 1] = x /\ \A i \in 1..L : a[i] = p[i]
    BY <1>2, <1>3
  <2>2. \A i \in 1..(L + 1) : i = L + 1 \/ i \in 1..L
    BY <1>1
  <2>. HIDE DEF a
  <2>3. \A i \in 1..(L + 1) : q[i] = a[i]
    BY <1>1, <1>3, <1>4, <2>1, <2>2 DEF x
  <2>4. q \in [1..Len(q) -> Nat] /\ a \in [1..Len(a) -> Nat]
    BY <1>4, <2>1
  <2>5. q = a
    BY <1>4, <2>1, <2>3, <2>4
  <2>. QED
    BY <2>5 DEF a
<1>. QED
  BY <1>2, <1>3, <1>4, <1>5, TotalAppend DEF x, out

LEMMA Evicted ==
    ASSUME NEW b, NEW n, NEW rs \in Seq(Artifacts(b, n)), NEW k \in Nat, NEW exclude
    PROVE  LET out == EvictFirst(rs, k, exclude)
           IN  /\ out \in Seq(Artifacts(b, n))
               /\ Len(out) = Len(rs)
               /\ \A i \in 1..Len(rs) :
                     out[i] = IF i <= k /\ rs[i].id # exclude /\ rs[i].files # <<>>
                              THEN Drop(rs[i], "evicted") ELSE rs[i]
<1>. DEFINE T == Artifacts(b, n)
            L == Len(rs)
            new(i) == IF i <= k /\ rs[i].id # exclude /\ rs[i].files # <<>>
                      THEN Drop(rs[i], "evicted") ELSE rs[i]
            out == EvictFirst(rs, k, exclude)
<1>1. L \in Nat /\ DOMAIN rs = 1..L
  OBVIOUS
<1>2. ASSUME NEW i \in 1..L PROVE new(i) \in T
  <2>1. rs[i] \in Artifacts(b, n) /\ "evicted" \in Reasons
    BY DEF Reasons
  <2>2. Drop(rs[i], "evicted") \in Artifacts(b, n)
    BY <2>1, Dropped
  <2>. QED
    BY <2>1, <2>2
<1>3. out = [i \in 1..L |-> new(i)]
  <2>. HIDE DEF L
  <2>. QED
    BY <1>1 DEF EvictFirst
<1>. HIDE DEF L, T, new, out
<1>4. out \in [1..L -> T]
  BY <1>2, <1>3
<1>5. out \in Seq(T) /\ Len(out) = L /\ \A i \in 1..L : out[i] = new(i)
  BY <1>1, <1>3, <1>4
<1>. QED
  BY <1>5 DEF L, T, new, out

(* MakeRoom evicts from the first k for the least k that gives the room, if any does. *)
LEMMA RoomMade ==
    ASSUME NEW b, NEW n, NEW rs \in Seq(Artifacts(b, n)), NEW size, NEW exclude
    PROVE  \E k \in 0..Len(rs) :
              /\ MakeRoom(rs, size, exclude) = EvictFirst(rs, k, exclude)
              /\ \A j \in 0..Len(rs) : j < k => ~Room(EvictFirst(rs, j, exclude), size)
              /\ \/ Room(EvictFirst(rs, k, exclude), size)
                 \/ k = Len(rs)
<1>. DEFINE L == Len(rs)
            enough == {k \in 0..L : Room(EvictFirst(rs, k, exclude), size)}
            k == Min(enough \cup {L})
<1>1. L \in Nat
  OBVIOUS
<1>. HIDE DEF L
<1>2. k \in enough \cup {L} /\ \A j \in enough \cup {L} : k <= j
  <2>. DEFINE S == enough \cup {L}
  <2>1. S \in SUBSET Nat /\ S # {}
    BY <1>1
  <2>. HIDE DEF S
  <2>2. Min(S) \in S /\ \A j \in S : Min(S) <= j
    BY <2>1, MinOf
  <2>. QED
    BY <2>2 DEF S
<1>3. MakeRoom(rs, size, exclude) = EvictFirst(rs, k, exclude)
  BY DEF MakeRoom, L
<1>. HIDE DEF k
<1>4. k \in 0..L /\ k \in Nat
  BY <1>1, <1>2
<1>5. ASSUME NEW j \in 0..L, j < k, Room(EvictFirst(rs, j, exclude), size) PROVE FALSE
  <2>1. j \in enough
    BY <1>5
  <2>2. k <= j
    BY <1>2, <2>1
  <2>. QED
    BY <1>1, <1>4, <1>5, <2>2
<1>6. Room(EvictFirst(rs, k, exclude), size) \/ k = L
  BY <1>2
<1>. QED
  BY <1>3, <1>4, <1>5, <1>6 DEF L

LEMMA Replaced ==
    ASSUME NEW b, NEW n, NEW rs \in Seq(Artifacts(b, n)), NEW r \in Artifacts(b, n)
    PROVE  LET out == With(rs, r)
           IN  /\ out \in Seq(Artifacts(b, n))
               /\ Len(out) = Len(rs)
               /\ \A i \in 1..Len(rs) : out[i] = IF rs[i].id = r.id THEN r ELSE rs[i]
<1>. DEFINE T == Artifacts(b, n)
            L == Len(rs)
            new(i) == IF rs[i].id = r.id THEN r ELSE rs[i]
            out == With(rs, r)
<1>1. L \in Nat /\ DOMAIN rs = 1..L
  OBVIOUS
<1>2. ASSUME NEW i \in 1..L PROVE new(i) \in T
  OBVIOUS
<1>3. out = [i \in 1..L |-> new(i)]
  <2>. HIDE DEF L
  <2>. QED
    BY <1>1 DEF With
<1>. HIDE DEF L, T, new, out
<1>4. out \in [1..L -> T]
  BY <1>2, <1>3
<1>5. out \in Seq(T) /\ Len(out) = L /\ \A i \in 1..L : out[i] = new(i)
  BY <1>1, <1>3, <1>4
<1>. QED
  BY <1>5 DEF L, T, new, out

LEMMA Suffix ==
    ASSUME NEW T, NEW rs \in Seq(T), NEW m \in 0..Len(rs)
    PROVE  LET s == SubSeq(rs, m + 1, Len(rs))
           IN  /\ s \in Seq(T)
               /\ Len(s) = Len(rs) - m
               /\ \A i \in 1..(Len(rs) - m) : s[i] = rs[m + i] /\ m + i \in 1..Len(rs)
<1>. DEFINE L == Len(rs)
            s == SubSeq(rs, m + 1, L)
<1>1. L \in Nat /\ m \in Nat /\ m <= L /\ (m + 1)..L \subseteq 1..L
  OBVIOUS
<1>2. s = [i \in 1..(L - m) |-> rs[m + i]]
  <2>1. /\ DOMAIN s = 1..Len(s) /\ Len(s) = L - m
        /\ \A i \in 1..(L - m) : s[i] = rs[m + i]
    BY <1>1
  <2>2. s = [i \in DOMAIN s |-> s[i]]
    BY <1>1
  <2>. HIDE DEF s
  <2>. QED
    BY <2>1, <2>2
<1>3. \A i \in 1..(L - m) : m + i \in 1..L /\ rs[m + i] \in T
  BY <1>1
<1>. HIDE DEF s, L
<1>4. s \in [1..(L - m) -> T] /\ L - m \in Nat
  <2>1. L - m \in Nat
    BY <1>1
  <2>2. s \in [1..(L - m) -> T]
    <3>. DEFINE K == L - m
    <3>. HIDE DEF K
    <3>. QED
      BY <1>2, <1>3 DEF K
  <2>. QED
    BY <2>1, <2>2
<1>5. s \in Seq(T) /\ Len(s) = L - m
  BY <1>4
<1>. QED
  BY <1>2, <1>3, <1>5 DEF s, L

(* What Reserve leaves: the records after the first m, of which the first k have no
   details left, and why the others went. *)
LEMMA Reserved ==
    ASSUME NEW b, NEW n, NEW rs \in Seq(Artifacts(b, n))
    PROVE  \E m \in 0..Len(rs), k \in 0..Len(rs) :
              /\ Reserve(rs) = EvictFirst(SubSeq(rs, m + 1, Len(rs)), k, 0)
              /\ Len(rs) - m < MaxRecords
              /\ Room(Reserve(rs), SummaryBytes)
              /\ m = 0 => \A j \in 0..Len(rs) :
                             j < k => ~Room(EvictFirst(rs, j, 0), SummaryBytes)
              /\ m > 0 => \/ Len(rs) - m = MaxRecords - 1
                          \/ /\ k = Len(rs)
                             /\ ~Room(EvictFirst(SubSeq(rs, m, Len(rs)), Len(rs), 0), SummaryBytes)
<1>. DEFINE L == Len(rs)
            T == Artifacts(b, n)
            full == IF L >= MaxRecords THEN L - MaxRecords + 1 ELSE 0
            After(m) == SubSeq(rs, m + 1, L)
            Bare(m) == EvictFirst(After(m), L, 0)
            S == {m \in full..L : Room(Bare(m), SummaryBytes)}
            m == Min(S)
<1>1. L \in Nat /\ full \in 0..L /\ L - full < MaxRecords /\ (full > 0 => L - full = MaxRecords - 1)
  BY StoreConstants
<1>2. \A i \in 0..L : After(i) \in Seq(T) /\ Len(After(i)) = L - i
  <2>. HIDE DEF T
  <2>. QED
    BY Suffix DEF T
<1>3. L \in S
  <2>1. After(L) = <<>>
    <3>1. L \in 0..L /\ L - L = 0
      BY <1>1
    <3>2. After(L) \in Seq(T) /\ Len(After(L)) = 0
      BY <1>2, <3>1
    <3>. DEFINE a == After(L)
    <3>. HIDE DEF a, T
    <3>. QED
      BY <3>2 DEF a
  <2>2. Bare(L) = <<>>
    <3>1. [i \in DOMAIN <<>> |-> IF i <= L /\ <<>>[i].id # 0 /\ <<>>[i].files # <<>>
                                 THEN Drop(<<>>[i], "evicted") ELSE <<>>[i]] = <<>>
      OBVIOUS
    <3>. QED
      BY <2>1, <3>1 DEF EvictFirst
  <2>3. Room(Bare(L), SummaryBytes)
    BY <2>2, UsedEmpty, StoreConstants DEF Room
  <2>. HIDE DEF Bare, full, L
  <2>. QED
    BY <1>1, <2>3
<1>4. m \in S /\ \A i \in S : m <= i
  <2>1. S \in SUBSET Nat /\ S # {}
    <3>. HIDE DEF Bare, full, L
    <3>. QED
      BY <1>1, <1>3
  <2>. HIDE DEF S
  <2>. QED
    BY <2>1, MinOf
<1>5. Reserve(rs) = IF m = full THEN MakeRoom(After(m), SummaryBytes, 0) ELSE Bare(m)
  BY DEF Reserve
<1>. HIDE DEF m
<1>6. m \in full..L /\ m \in 0..L /\ Room(Bare(m), SummaryBytes)
  <2>. HIDE DEF Bare, full, L
  <2>. QED
    BY <1>1, <1>4
<1>7. L - m < MaxRecords
  BY <1>1, <1>6, StoreConstants
<1>. DEFINE a == After(m)
<1>8. a \in Seq(Artifacts(b, n)) /\ Len(a) = L - m /\ Len(a) \in 0..L
  BY <1>1, <1>2, <1>6
<1>9. Bare(m) = EvictFirst(a, L, 0)
  OBVIOUS
<1>10. CASE m = full
  <2>1. Reserve(rs) = MakeRoom(a, SummaryBytes, 0)
    BY <1>5, <1>10
  <2>. HIDE DEF a, full, Bare
  <2>2. PICK k \in 0..Len(a) :
              /\ MakeRoom(a, SummaryBytes, 0) = EvictFirst(a, k, 0)
              /\ \A j \in 0..Len(a) : j < k => ~Room(EvictFirst(a, j, 0), SummaryBytes)
              /\ \/ Room(EvictFirst(a, k, 0), SummaryBytes)
                 \/ k = Len(a)
    BY <1>8, RoomMade
  <2>3. EvictFirst(a, Len(a), 0) = EvictFirst(a, L, 0)
    <3>1. DOMAIN a = 1..Len(a)
      BY <1>8
    <3>2. \A i \in DOMAIN a : i <= Len(a) /\ i <= L
      BY <1>1, <1>8, <3>1
    <3>. QED
      BY <3>2 DEF EvictFirst
  <2>4. Room(EvictFirst(a, k, 0), SummaryBytes)
    BY <1>6, <1>9, <2>2, <2>3
  <2>5. k \in 0..L
    BY <1>1, <1>8, <2>2
  <2>6. m = 0 => a = rs
    <3>1. ASSUME m = 0 PROVE a = rs
      <4>1. /\ a \in Seq(T) /\ Len(a) = L - m
            /\ \A i \in 1..(L - m) : a[i] = rs[m + i]
        <5>. HIDE DEF T
        <5>. QED
          BY <1>6, Suffix DEF a, T
      <4>2. L - m = L /\ \A i \in 1..L : m + i = i
        BY <1>1, <3>1
      <4>. HIDE DEF T
      <4>3. Len(a) = Len(rs) /\ \A i \in 1..Len(a) : a[i] = rs[i]
        BY <4>1, <4>2
      <4>4. a \in [1..Len(a) -> T] /\ rs \in [1..Len(rs) -> T]
        BY <4>1 DEF T
      <4>. QED
        BY <4>3, <4>4
    <3>. QED
      BY <3>1
  <2>7. m = 0 => \A j \in 0..L : j < k => ~Room(EvictFirst(rs, j, 0), SummaryBytes)
    <3>1. \A j \in 0..L : j < k => j \in 0..Len(a)
      BY <1>1, <1>8, <2>2
    <3>. QED
      BY <2>2, <2>6, <3>1
  <2>8. m > 0 => L - m = MaxRecords - 1
    BY <1>1, <1>10
  <2>. QED
    BY <1>6, <1>7, <2>1, <2>2, <2>4, <2>5, <2>7, <2>8 DEF a
<1>11. CASE m # full
  <2>. HIDE DEF a, full, Bare
  <2>1. Reserve(rs) = EvictFirst(a, L, 0)
    BY <1>5, <1>9, <1>11
  <2>2. m \in Nat /\ m > 0 /\ m - 1 \in full..L /\ m - 1 < m /\ m - 1 + 1 = m
    BY <1>1, <1>6, <1>11
  <2>3. ~Room(Bare(m - 1), SummaryBytes)
    <3>1. m - 1 \notin S
      BY <1>4, <2>2
    <3>. QED
      BY <2>2, <3>1
  <2>4. Bare(m - 1) = EvictFirst(SubSeq(rs, m, L), L, 0)
    BY <2>2 DEF Bare
  <2>5. L \in 0..L
    BY <1>1
  <2>. QED
    BY <1>6, <1>7, <1>9, <2>1, <2>2, <2>3, <2>4, <2>5 DEF a
<1>. QED
  BY <1>10, <1>11

-----------------------------------------------------------------------------
(* Fewer records, in their order.                                           *)

LEMMA IncreasingLen ==
    ASSUME NEW n \in Nat, NEW N \in Nat, NEW e, Increasing(e, n, N)
    PROVE  n <= N
<1>. DEFINE T == {k \in 0..n : k = 0 \/ k <= e[k]}
<1>1. 0 \in T
  OBVIOUS
<1>2. \A k \in 1..n : e[k] \in 1..N
  BY DEF Increasing
<1>3. ASSUME NEW k \in 1..n, k - 1 \in T PROVE k \in T
  <2>1. CASE k = 1
    <3>1. e[k] \in 1..N
      BY <1>2
    <3>. QED
      BY <2>1, <3>1
  <2>2. CASE k # 1
    <3>1. k - 1 \in 1..n /\ k - 1 < k /\ k \in Int
      BY <2>2
    <3>2. e[k - 1] < e[k]
      BY <3>1 DEF Increasing
    <3>3. e[k - 1] \in Int /\ e[k] \in Int
      BY <1>2, <3>1
    <3>4. k - 1 <= e[k - 1]
      BY <1>3, <3>1
    <3>. DEFINE p == e[k - 1]
                q == e[k]
    <3>5. p \in Int /\ q \in Int /\ p < q /\ k - 1 <= p
      BY <3>2, <3>3, <3>4
    <3>. HIDE DEF p, q
    <3>6. k <= q
      BY <3>1, <3>5
    <3>. QED
      BY <3>6 DEF q
  <2>. QED
    BY <2>1, <2>2
<1>4. \A k \in 0..n : k \in T
  <2>. HIDE DEF T
  <2>. QED
    BY <1>1, <1>3, UpTo
<1>5. n = 0 \/ (n <= e[n] /\ e[n] \in 1..N)
  BY <1>2, <1>4
<1>. QED
  BY <1>5

LEMMA IncreasingMissing ==
    ASSUME NEW n \in Nat, NEW N \in Nat, NEW e, Increasing(e, n, N), NEW j \in 1..N,
           \A k \in 1..n : e[k] # j
    PROVE  n < N
<1>. DEFINE d == [k \in 1..n |-> IF e[k] > j THEN e[k] - 1 ELSE e[k]]
<1>1. \A k \in 1..n : e[k] \in 1..N
  BY DEF Increasing
<1>2. d \in [1..n -> 1..(N - 1)]
  <2>1. ASSUME NEW k \in 1..n PROVE (IF e[k] > j THEN e[k] - 1 ELSE e[k]) \in 1..(N - 1)
    <3>1. e[k] \in 1..N /\ e[k] # j
      BY <1>1
    <3>. QED
      BY <3>1
  <2>. QED
    BY <2>1
<1>3. ASSUME NEW k \in 1..n, NEW l \in 1..n, k < l PROVE d[k] < d[l]
  <2>1. e[k] < e[l] /\ e[k] \in Int /\ e[l] \in Int /\ e[k] # j /\ e[l] # j
    BY <1>1, <1>3 DEF Increasing
  <2>. QED
    BY <2>1
<1>4. Increasing(d, n, N - 1) /\ N - 1 \in Nat
  BY <1>2, <1>3 DEF Increasing
<1>. HIDE DEF d
<1>5. n <= N - 1
  BY <1>4, IncreasingLen
<1>. QED
  BY <1>5

(* A part that is left out is not in the sum of the others. *)
LEMMA TotalMissing ==
    ASSUME NEW a \in Seq(Nat), NEW b \in Seq(Nat), NEW e, Increasing(e, Len(a), Len(b)),
           NEW j \in 1..Len(b), \A k \in 1..Len(a) : e[k] # j /\ a[k] <= b[e[k]]
    PROVE  Total(a) + b[j] <= Total(b)
<1>. DEFINE c == [i \in 1..Len(b) |-> IF i = j THEN 0 ELSE b[i]]
<1>1. c \in Seq(Nat) /\ Len(c) = Len(b)
  <2>1. \A i \in 1..Len(b) : b[i] \in Nat
    OBVIOUS
  <2>. QED
    BY <2>1
<1>2. c[j] = 0 /\ \A i \in 1..Len(b) : i # j => c[i] = b[i]
  OBVIOUS
<1>. HIDE DEF c
<1>3. Total(c) + b[j] = Total(b) + 0
  <2>1. j \in 1..Len(c) /\ \A i \in 1..Len(c) : i # j => c[i] = b[i]
    BY <1>1, <1>2
  <2>2. Total(c) + b[j] = Total(b) + c[j]
    BY <1>1, <2>1, TotalExcept
  <2>. QED
    BY <1>2, <2>2
<1>4. \A k \in 1..Len(a) : a[k] <= c[e[k]]
  <2>1. ASSUME NEW k \in 1..Len(a) PROVE a[k] <= c[e[k]]
    <3>1. e[k] \in 1..Len(b) /\ e[k] # j /\ a[k] <= b[e[k]]
      BY DEF Increasing
    <3>2. c[e[k]] = b[e[k]]
      BY <1>2, <3>1
    <3>. QED
      BY <3>1, <3>2
  <2>. QED
    BY <2>1
<1>5. Increasing(e, Len(a), Len(c))
  BY <1>1
<1>6. Total(a) <= Total(c)
  BY <1>1, <1>4, <1>5, TotalEmbedded
<1>7. Total(a) \in Nat /\ Total(b) \in Nat /\ Total(c) \in Nat /\ b[j] \in Nat
  BY <1>1, TotalNat
<1>. QED
  BY <1>3, <1>6, <1>7

LEMMA UsedMissing ==
    ASSUME NEW b, NEW n, NEW rs \in Seq(Artifacts(b, n)), NEW out \in Seq(Artifacts(b, n)),
           NEW e, Increasing(e, Len(out), Len(rs)), NEW j \in 1..Len(rs),
           \A k \in 1..Len(out) : e[k] # j /\ out[k] = rs[e[k]]
    PROVE  Used(out) + Size(rs[j]) <= Used(rs)
<1>. DEFINE p == SizesOf(out)
            q == SizesOf(rs)
<1>1. /\ p \in Seq(Nat) /\ Len(p) = Len(out) /\ \A k \in 1..Len(out) : p[k] = Size(out[k])
      /\ q \in Seq(Nat) /\ Len(q) = Len(rs) /\ \A i \in 1..Len(rs) : q[i] = Size(rs[i])
      /\ \A i \in 1..Len(rs) : Size(rs[i]) \in Nat
      /\ Used(out) = Total(p) /\ Used(rs) = Total(q)
  BY SizesFacts
<1>2. \A k \in 1..Len(out) : e[k] \in 1..Len(rs)
  BY DEF Increasing
<1>. HIDE DEF p, q
<1>3. \A k \in 1..Len(p) : e[k] # j /\ p[k] <= q[e[k]]
  <2>1. ASSUME NEW k \in 1..Len(p) PROVE e[k] # j /\ p[k] <= q[e[k]]
    <3>1. k \in 1..Len(out) /\ e[k] \in 1..Len(rs) /\ out[k] = rs[e[k]] /\ e[k] # j
      BY <1>1, <1>2
    <3>2. p[k] = q[e[k]] /\ q[e[k]] \in Nat
      BY <1>1, <3>1
    <3>. QED
      BY <3>1, <3>2
  <2>. QED
    BY <2>1
<1>4. Increasing(e, Len(p), Len(q)) /\ j \in 1..Len(q)
  BY <1>1
<1>5. Total(p) + q[j] <= Total(q)
  BY <1>1, <1>3, <1>4, TotalMissing
<1>. QED
  BY <1>1, <1>5

-----------------------------------------------------------------------------
(* The reasons that are kept of what was forgotten.                         *)

In(x, q) == \E i \in 1..Len(q) : q[i] = x

LEMMA InAppend ==
    ASSUME NEW T, NEW q \in Seq(T), NEW y \in T, NEW x, In(x, Append(q, y))
    PROVE  In(x, q) \/ x = y
<1>1. Len(q) \in Nat /\ Len(Append(q, y)) = Len(q) + 1
  OBVIOUS
<1>2. PICK i \in 1..(Len(q) + 1) : Append(q, y)[i] = x
  BY <1>1 DEF In
<1>3. i = Len(q) + 1 \/ i \in 1..Len(q)
  BY <1>1
<1>. QED
  BY <1>2, <1>3 DEF In

LEMMA InConcat ==
    ASSUME NEW T, NEW p \in Seq(T), NEW q \in Seq(T), NEW x, In(x, p \o q)
    PROVE  In(x, p) \/ In(x, q)
<1>1. Len(p) \in Nat /\ Len(q) \in Nat /\ Len(p \o q) = Len(p) + Len(q)
  OBVIOUS
<1>2. PICK i \in 1..(Len(p) + Len(q)) : (p \o q)[i] = x
  BY <1>1 DEF In
<1>3. CASE i <= Len(p)
  <2>1. i \in 1..Len(p) /\ (p \o q)[i] = p[i]
    BY <1>1, <1>3
  <2>. QED
    BY <1>2, <2>1 DEF In
<1>4. CASE i > Len(p)
  <2>1. i - Len(p) \in 1..Len(q) /\ (p \o q)[i] = q[i - Len(p)]
    BY <1>1, <1>4
  <2>. QED
    BY <1>2, <2>1 DEF In
<1>. QED
  BY <1>1, <1>3, <1>4

LEMMA LatestFacts ==
    ASSUME NEW T, NEW q \in Seq(T)
    PROVE  /\ Latest(q) \in Seq(T)
           /\ Len(Latest(q)) <= MaxRecords
           /\ \A x : In(x, Latest(q)) => In(x, q)
<1>. DEFINE m == IF Len(q) > MaxRecords THEN Len(q) - MaxRecords ELSE 0
            s == SubSeq(q, m + 1, Len(q))
<1>1. Len(q) \in Nat /\ MaxRecords \in Nat
  BY StoreConstants
<1>2. m \in 0..Len(q) /\ Len(q) - m <= MaxRecords /\ 1 + m = m + 1
  BY <1>1
<1>3. Latest(q) = s
  <2>1. Latest(q) = SubSeq(q, 1 + m, Len(q))
    BY DEF Latest
  <2>. HIDE DEF m
  <2>. QED
    BY <1>2, <2>1
<1>. HIDE DEF m
<1>4. /\ s \in Seq(T) /\ Len(s) = Len(q) - m
      /\ \A i \in 1..(Len(q) - m) : s[i] = q[m + i] /\ m + i \in 1..Len(q)
  BY <1>2, Suffix
<1>. HIDE DEF s
<1>. QED
  BY <1>2, <1>3, <1>4 DEF In

Forgotten(b) == [id : 1..b, cause : Causes]

LEMMA ReasonsFacts ==
    ASSUME NEW b, NEW n, NEW rs \in Seq(Artifacts(b, n)), NEW cause \in Causes
    PROVE  /\ ReasonsOf(rs, cause) \in Seq(Forgotten(b))
           /\ \A x : In(x, ReasonsOf(rs, cause)) =>
                 \E i \in 1..Len(rs) : x = [id |-> rs[i].id, cause |-> cause]
<1>. DEFINE L == Len(rs)
            q == ReasonsOf(rs, cause)
<1>1. L \in Nat /\ DOMAIN rs = 1..L
  OBVIOUS
<1>2. ASSUME NEW i \in 1..L PROVE [id |-> rs[i].id, cause |-> cause] \in Forgotten(b)
  <2>1. rs[i] \in Artifacts(b, n)
    OBVIOUS
  <2>. QED
    BY <2>1 DEF Artifacts, Forgotten
<1>3. q = [i \in 1..L |-> [id |-> rs[i].id, cause |-> cause]]
  <2>. HIDE DEF L
  <2>. QED
    BY <1>1 DEF ReasonsOf
<1>. HIDE DEF L, q
<1>4. q \in [1..L -> Forgotten(b)]
  BY <1>2, <1>3
<1>5. q \in Seq(Forgotten(b)) /\ Len(q) = L
  BY <1>1, <1>4
<1>6. \A i \in 1..L : q[i] = [id |-> rs[i].id, cause |-> cause]
  BY <1>3
<1>. QED
  BY <1>5, <1>6 DEF L, q, In

-----------------------------------------------------------------------------
(* The invariant of the store, record by record.                            *)

GoodRecord(r, w) ==
    /\ r.created = r.done
    /\ r.reason # "none" => r.files = <<>>
    /\ r.reason = "none" /\ r.id # w.id => r.files = r.given
    /\ r.id = w.id =>
          /\ w.op = "run" => r.files = <<>> /\ r.given = <<>> /\ r.reason = "none"
          /\ w.op = "store" /\ r.reason = "none" => r.given = r.files \o w.pending
          /\ w.op = "store" /\ r.reason # "none" => w.pending = <<>>
          /\ w.op = "draw" => r.reason = "none" /\ r.files = r.given /\ Len(r.files) < MaxFiles

Works(b) == [op : {"none", "run", "store", "draw"}, id : 0..b, pending : FileLists]

LEMMA StoreFacts ==
    ASSUME StoreInv
    PROVE  /\ now \in Nat /\ now <= MaxNow /\ begun \in Nat /\ begun <= MaxIds
           /\ records \in Seq(Artifacts(begun, now))
           /\ removed \in Seq(Forgotten(begun))
           /\ work \in Works(begun)
           /\ Used(records) <= MaxBytes /\ Len(records) <= MaxRecords
           /\ Len(removed) <= MaxRecords
           /\ Len(records) \in Nat /\ DOMAIN records = 1..Len(records)
           /\ \A i \in 1..Len(records) : records[i] \in Artifacts(begun, now)
           /\ \A i, j \in 1..Len(records) : records[i].id = records[j].id => i = j
           /\ \A x : In(x, removed) => \A j \in 1..Len(records) : x.id # records[j].id
           /\ \A i \in 1..Len(records) : GoodRecord(records[i], work)
           /\ work.op = "none" => work = Idle
           /\ work.op # "none" => \E i \in 1..Len(records) : records[i].id = work.id
<1>1. /\ StoreTypeOK /\ WithinQuota /\ WholeOrNoDetails /\ Indexed /\ Working
  BY DEF StoreInv
<1>2. /\ now \in Nat /\ now <= MaxNow /\ begun \in Nat /\ begun <= MaxIds
      /\ records \in Seq(Artifacts(begun, now))
      /\ removed \in Seq(Forgotten(begun))
      /\ work \in Works(begun)
  BY <1>1, StoreConstants DEF StoreTypeOK, Artifact, Artifacts, Forgotten, Works
<1>3. /\ Len(records) \in Nat /\ DOMAIN records = 1..Len(records)
      /\ \A i \in 1..Len(records) : records[i] \in Artifacts(begun, now)
      /\ DOMAIN removed = 1..Len(removed)
  BY <1>2
<1>4. /\ \A i, j \in 1..Len(records) : records[i].id = records[j].id => i = j
      /\ \A i \in 1..Len(records) : records[i].created = records[i].done
      /\ \A x : In(x, removed) => \A j \in 1..Len(records) : x.id # records[j].id
  BY <1>1, <1>3 DEF Indexed, In
<1>5. /\ work.op = "none" => work = Idle
      /\ work.op # "none" => \E i \in 1..Len(records) : records[i].id = work.id
  BY <1>1, <1>3 DEF Working, Live
<1>6. ASSUME NEW i \in 1..Len(records) PROVE GoodRecord(records[i], work)
  <2>1. CASE work.op = "none"
    <3>1. work.id = 0 /\ work.op = "none"
      BY <1>5, <2>1 DEF Idle
    <3>2. records[i].id # 0
      BY <1>2, <1>3 DEF Artifacts
    <3>. QED
      BY <1>1, <1>3, <1>4, <3>1, <3>2 DEF WholeOrNoDetails, GoodRecord
  <2>2. CASE work.op # "none"
    <3>1. records[i].id = work.id => InProgress(records[i])
      BY <1>1, <1>3, <2>2 DEF Working
    <3>. QED
      BY <1>1, <1>3, <1>4, <3>1 DEF WholeOrNoDetails, GoodRecord, InProgress
  <2>. QED
    BY <2>1, <2>2
<1>. QED
  BY <1>1, <1>2, <1>3, <1>4, <1>5, <1>6 DEF WithinQuota

LEMMA StoreInvNext ==
    ASSUME now' \in 0..MaxNow, begun' \in 0..MaxIds,
           records' \in Seq(Artifacts(begun', now')), removed' \in Seq(Forgotten(begun')),
           work' \in Works(begun'),
           Used(records') <= MaxBytes, Len(records') <= MaxRecords, Len(removed') <= MaxRecords,
           \A i, j \in 1..Len(records') : records'[i].id = records'[j].id => i = j,
           \A x : In(x, removed') => \A j \in 1..Len(records') : x.id # records'[j].id,
           \A i \in 1..Len(records') : GoodRecord(records'[i], work'),
           work'.op = "none" => work' = Idle,
           work'.op # "none" => \E i \in 1..Len(records') : records'[i].id = work'.id
    PROVE  StoreInv'
<1>1. DOMAIN records' = 1..Len(records') /\ DOMAIN removed' = 1..Len(removed')
  OBVIOUS
<1>2. StoreTypeOK'
  BY DEF StoreTypeOK, Artifact, Artifacts, Forgotten, Works
<1>3. WithinQuota'
  BY DEF WithinQuota
<1>4. WholeOrNoDetails'
  BY <1>1 DEF WholeOrNoDetails, GoodRecord
<1>5. Indexed'
  <2>1. \A i \in 1..Len(removed') : In(removed'[i], removed')
    BY DEF In
  <2>. QED
    BY <1>1, <2>1 DEF Indexed, GoodRecord
<1>6. Working'
  BY <1>1 DEF Working, Live, InProgress, GoodRecord
<1>. QED
  BY <1>2, <1>3, <1>4, <1>5, <1>6 DEF StoreInv

(* A call that leaves the order and the identifiers as they are. *)
LEMMA SameRecords ==
    ASSUME StoreInv, UNCHANGED <<now, removed, begun>>,
           records' \in Seq(Artifacts(begun, now)), Len(records') = Len(records),
           \A i \in 1..Len(records) : records'[i].id = records[i].id,
           \A i \in 1..Len(records) : GoodRecord(records'[i], work'),
           Used(records') <= MaxBytes,
           work' \in Works(begun),
           work'.op = "none" => work' = Idle,
           work'.op # "none" => work'.id = work.id /\ work.op # "none"
    PROVE  StoreInv'
<1>1. /\ now' \in 0..MaxNow /\ begun' \in 0..MaxIds
      /\ removed' \in Seq(Forgotten(begun')) /\ work' \in Works(begun')
      /\ records' \in Seq(Artifacts(begun', now'))
      /\ Len(records') <= MaxRecords /\ Len(removed') <= MaxRecords
  BY StoreFacts, StoreConstants
<1>2. \A i, j \in 1..Len(records') : records'[i].id = records'[j].id => i = j
  BY StoreFacts
<1>3. \A x : In(x, removed') => \A j \in 1..Len(records') : x.id # records'[j].id
  <2>1. removed' = removed
    OBVIOUS
  <2>2. \A x : In(x, removed) => \A j \in 1..Len(records) : x.id # records[j].id
    BY StoreFacts
  <2>. QED
    BY <2>1, <2>2
<1>4. work'.op # "none" => \E i \in 1..Len(records') : records'[i].id = work'.id
  BY StoreFacts
<1>. QED
  BY <1>1, <1>2, <1>3, <1>4, StoreInvNext

LEMMA TheOne ==
    ASSUME StoreInv, NEW i \in 1..Len(records)
    PROVE  TheRecord(records[i].id) = records[i]
<1>1. /\ DOMAIN records = 1..Len(records)
      /\ \A j \in 1..Len(records) : records[i].id = records[j].id => i = j
  BY StoreFacts
<1>2. \A j \in DOMAIN records : records[j].id = records[i].id => j = i
  BY <1>1
<1>3. (CHOOSE j \in DOMAIN records : records[j].id = records[i].id) = i
  BY <1>1, <1>2
<1>. QED
  BY <1>3 DEF TheRecord

LEMMA WorkRecord ==
    ASSUME StoreInv, work.op # "none"
    PROVE  \E i \in 1..Len(records) :
              /\ records[i].id = work.id
              /\ TheRecord(work.id) = records[i]
              /\ \A j \in 1..Len(records) : records[j].id = work.id => j = i
<1>1. PICK i \in 1..Len(records) : records[i].id = work.id
  BY StoreFacts
<1>2. TheRecord(work.id) = records[i]
  BY <1>1, TheOne
<1>. QED
  BY <1>1, <1>2, StoreFacts

LEMMA OtherGood ==
    ASSUME NEW r, NEW v, NEW w, GoodRecord(r, v), r.id # v.id, r.id # w.id
    PROVE  GoodRecord(r, w)
BY DEF GoodRecord

LEMMA EvictedGood ==
    ASSUME NEW b, NEW n, NEW r \in Artifacts(b, n), NEW w, GoodRecord(r, w), r.id # w.id
    PROVE  GoodRecord(Drop(r, "evicted"), w)
<1>. DEFINE d == Drop(r, "evicted")
<1>1. d.id = r.id /\ d.created = r.created /\ d.done = r.done /\ d.files = <<>> /\ d.reason = "evicted"
  BY Dropped DEF Reasons
<1>. HIDE DEF d
<1>2. GoodRecord(d, w)
  BY <1>1 DEF GoodRecord
<1>. QED
  BY <1>2 DEF d

(* One record changed in place. *)
LEMMA Swapped ==
    ASSUME NEW b, NEW n, NEW rs \in Seq(Artifacts(b, n)), NEW i \in 1..Len(rs),
           NEW r \in Artifacts(b, n), r.id = rs[i].id,
           \A j \in 1..Len(rs) : rs[j].id = rs[i].id => j = i
    PROVE  LET out == With(rs, r)
           IN  /\ out \in Seq(Artifacts(b, n))
               /\ Len(out) = Len(rs)
               /\ out[i] = r
               /\ \A j \in 1..Len(rs) : j # i => out[j] = rs[j]
               /\ Used(out) + Size(rs[i]) = Used(rs) + Size(r)
               /\ Used(out) \in Nat /\ Used(rs) \in Nat
               /\ Size(r) \in Nat /\ Size(rs[i]) \in Nat
<1>. DEFINE out == With(rs, r)
<1>1. /\ out \in Seq(Artifacts(b, n)) /\ Len(out) = Len(rs)
      /\ \A j \in 1..Len(rs) : out[j] = IF rs[j].id = r.id THEN r ELSE rs[j]
  BY Replaced
<1>. HIDE DEF out
<1>2. out[i] = r /\ \A j \in 1..Len(rs) : j # i => out[j] = rs[j]
  BY <1>1
<1>3. Used(out) + Size(rs[i]) = Used(rs) + Size(out[i])
  BY <1>1, <1>2, UsedExcept
<1>4. Used(out) \in Nat /\ Used(rs) \in Nat
  BY <1>1, UsedNat
<1>5. rs[i] \in Artifacts(b, n)
  OBVIOUS
<1>6. Size(r) \in Nat /\ Size(rs[i]) \in Nat
  BY <1>5, SizeNat
<1>. QED
  BY <1>1, <1>2, <1>3, <1>4, <1>6 DEF out

(* Making room touches no identifier and not the artifact it makes room for. *)
LEMMA MadeFacts ==
    ASSUME StoreInv, work.op # "none", NEW size
    PROVE  LET made == MakeRoom(records, size, work.id)
           IN  /\ made \in Seq(Artifacts(begun, now))
               /\ Len(made) = Len(records)
               /\ \A j \in 1..Len(records) :
                     /\ made[j].id = records[j].id /\ made[j].given = records[j].given
                     /\ records[j].id = work.id => made[j] = records[j]
                     /\ GoodRecord(made[j], work)
               /\ Used(made) <= Used(records)
<1>. DEFINE T == Artifacts(begun, now)
            made == MakeRoom(records, size, work.id)
            L == Len(records)
<1>1. /\ records \in Seq(T) /\ L \in Nat
      /\ \A j \in 1..L : records[j] \in T /\ GoodRecord(records[j], work)
  BY StoreFacts
<1>2. PICK k \in 0..L : made = EvictFirst(records, k, work.id)
  BY <1>1, RoomMade
<1>3. /\ made \in Seq(T) /\ Len(made) = L
      /\ \A j \in 1..L :
            made[j] = IF j <= k /\ records[j].id # work.id /\ records[j].files # <<>>
                      THEN Drop(records[j], "evicted") ELSE records[j]
  <2>1. k \in Nat
    BY <1>1, <1>2
  <2>2. LET out == EvictFirst(records, k, work.id)
        IN  /\ out \in Seq(T) /\ Len(out) = L
            /\ \A j \in 1..L :
                  out[j] = IF j <= k /\ records[j].id # work.id /\ records[j].files # <<>>
                           THEN Drop(records[j], "evicted") ELSE records[j]
    BY <1>1, <2>1, Evicted
  <2>. HIDE DEF made, L, T
  <2>. QED
    BY <1>2, <2>2
<1>. HIDE DEF made
<1>4. ASSUME NEW j \in 1..L
      PROVE  /\ made[j].id = records[j].id /\ made[j].given = records[j].given
             /\ records[j].id = work.id => made[j] = records[j]
             /\ GoodRecord(made[j], work)
             /\ Size(made[j]) <= Size(records[j])
  <2>1. /\ records[j] \in Artifacts(begun, now) /\ GoodRecord(records[j], work)
        /\ Size(records[j]) \in Nat /\ SummaryBytes <= Size(records[j])
    BY <1>1, SizeNat
  <2>2. CASE made[j] = records[j]
    BY <2>1, <2>2
  <2>3. CASE made[j] = Drop(records[j], "evicted") /\ records[j].id # work.id
    <3>1. Drop(records[j], "evicted").id = records[j].id
          /\ Drop(records[j], "evicted").given = records[j].given
          /\ Size(Drop(records[j], "evicted")) = SummaryBytes
      BY <2>1, Dropped DEF Reasons
    <3>2. GoodRecord(Drop(records[j], "evicted"), work)
      BY <2>1, <2>3, EvictedGood
    <3>. QED
      BY <2>1, <2>3, <3>1, <3>2
  <2>. QED
    BY <1>3, <2>2, <2>3
<1>5. Used(made) <= Used(records)
  <2>. DEFINE e == [j \in 1..L |-> j]
  <2>1. Increasing(e, Len(made), L)
    BY <1>1, <1>3 DEF Increasing
  <2>2. \A j \in 1..Len(made) : Size(made[j]) <= Size(records[e[j]])
    BY <1>3, <1>4
  <2>. HIDE DEF e
  <2>. QED
    BY <1>1, <1>3, <2>1, <2>2, UsedEmbedded
<1>. QED
  BY <1>3, <1>4, <1>5 DEF made

LEMMA FinishInv ==
    ASSUME StoreInv, NEW files \in FileLists,
           Finish(files) \/ SummaryIOError(files)
    PROVE  StoreInv'
<1>1. work.op = "run" /\ UNCHANGED <<now, removed, begun>>
  BY DEF Finish, SummaryIOError
<1>2. PICK i \in 1..Len(records) :
         /\ records[i].id = work.id
         /\ TheRecord(work.id) = records[i]
         /\ \A j \in 1..Len(records) : records[j].id = work.id => j = i
  BY <1>1, WorkRecord
<1>. DEFINE T == Artifacts(begun, now)
            r == records[i]
            c == Completed(files)
            d == Drop(c, "storage_io_error")
<1>3. /\ records \in Seq(Artifacts(begun, now)) /\ r \in T /\ GoodRecord(r, work) /\ work \in Works(begun)
      /\ now \in Nat
  BY StoreFacts
<1>4. /\ c \in T /\ c.id = work.id /\ c.created = c.done /\ c.files = r.files /\ c.reason = r.reason
      /\ c.given = files
  <2>1. c = [r EXCEPT !.created = now, !.done = now, !.given = files]
    BY <1>2 DEF Completed
  <2>2. now \in 0..now
    BY <1>3
  <2>. QED
    BY <1>2, <1>3, <2>1, <2>2 DEF Artifacts
<1>. HIDE DEF c
<1>5. r.files = <<>> /\ r.reason = "none"
  BY <1>1, <1>2, <1>3 DEF GoodRecord
<1>6. Size(r) = SummaryBytes /\ Size(c) = SummaryBytes
  BY <1>4, <1>5, SizeBare
<1>7. /\ d \in T /\ d.id = work.id /\ d.created = d.done /\ d.files = <<>>
      /\ d.reason = "storage_io_error" /\ Size(d) = SummaryBytes
  BY <1>4, Dropped DEF Reasons
<1>. HIDE DEF d
<1>8. \A j \in 1..Len(records) : records[j].id # 0
  BY StoreFacts DEF Artifacts
<1>9. ASSUME NEW s \in T, s.id = work.id, Size(s) = SummaryBytes,
             records' = With(records, s), GoodRecord(s, work'),
             work' \in Works(begun),
             work'.op = "none" => work' = Idle,
             work'.op # "none" => work'.id = work.id
      PROVE  StoreInv'
  <2>1. /\ records' \in Seq(Artifacts(begun, now))
        /\ Len(records') = Len(records)
        /\ records'[i] = s
        /\ \A j \in 1..Len(records) : j # i => records'[j] = records[j]
        /\ Used(records') + Size(records[i]) = Used(records) + Size(s)
        /\ Used(records') \in Nat /\ Used(records) \in Nat
    BY <1>2, <1>3, <1>9, Swapped
  <2>2. Used(records') <= MaxBytes
    <3>1. Used(records) <= MaxBytes
      BY StoreFacts
    <3>. QED
      BY <1>6, <1>9, <2>1, <3>1, StoreConstants
  <2>3. \A j \in 1..Len(records) : records'[j].id = records[j].id
    BY <1>2, <1>9, <2>1
  <2>4. ASSUME NEW j \in 1..Len(records) PROVE GoodRecord(records'[j], work')
    <3>1. CASE j = i
      BY <1>9, <2>1, <3>1
    <3>2. CASE j # i
      <4>1. GoodRecord(records[j], work) /\ records[j].id # work.id /\ records[j].id # 0
        BY <1>2, <1>8, <3>2, StoreFacts
      <4>2. records[j].id # work'.id
        BY <1>9, <4>1 DEF Idle
      <4>3. GoodRecord(records[j], work')
        BY <4>1, <4>2, OtherGood
      <4>. QED
        BY <2>1, <3>2, <4>3
    <3>. QED
      BY <3>1, <3>2
  <2>. QED
    BY <1>1, <1>9, <2>1, <2>2, <2>3, <2>4, SameRecords
<1>10. CASE Finish(files)
  <2>1. records' = With(records, c) /\ work' = [work EXCEPT !.op = "store", !.pending = files]
    BY <1>10 DEF Finish, c
  <2>2. work' \in Works(begun) /\ work'.op = "store" /\ work'.pending = files /\ work'.id = work.id
    BY <1>3, <2>1 DEF Works
  <2>3. <<>> \o files = files
    <3>1. files \in Seq(Sizes)
      BY FileList
    <3>. QED
      BY <3>1
  <2>4. GoodRecord(c, work')
    BY <1>4, <1>5, <2>2, <2>3 DEF GoodRecord
  <2>. QED
    BY <1>4, <1>6, <1>9, <2>1, <2>2, <2>4
<1>11. CASE SummaryIOError(files)
  <2>1. records' = With(records, d) /\ work' = Idle
    BY <1>11 DEF SummaryIOError, c, d
  <2>2. work' \in Works(begun) /\ work'.op = "none" /\ work'.id = 0
    <3>1. 0 \in 0..begun
      BY StoreFacts
    <3>. QED
      BY <2>1, <3>1, EmptyList DEF Works, Idle
  <2>3. work.id # 0
    BY <1>2, <1>8
  <2>4. GoodRecord(d, work')
    BY <1>7, <2>2, <2>3 DEF GoodRecord
  <2>. QED
    BY <1>7, <1>9, <2>1, <2>2, <2>4
<1>. QED
  BY <1>10, <1>11

(* The call's own artifact changes after room was made for a part of it. *)
LEMMA MadeSwapInv ==
    ASSUME StoreInv, work.op # "none", UNCHANGED <<now, removed, begun>>,
           NEW i \in 1..Len(records), records[i].id = work.id,
           NEW size, NEW s \in Artifacts(begun, now), s.id = work.id,
           records' = With(MakeRoom(records, size, work.id), s),
           \/ Size(s) = SummaryBytes
           \/ /\ Room(MakeRoom(records, size, work.id), size)
              /\ size \in Nat
              /\ Size(s) = Size(records[i]) + size,
           GoodRecord(s, work'),
           work' \in Works(begun),
           work'.op = "none" => work' = Idle,
           work'.op # "none" => work'.id = work.id
    PROVE  StoreInv'
<1>. DEFINE T == Artifacts(begun, now)
            made == MakeRoom(records, size, work.id)
            L == Len(records)
<1>1. /\ made \in Seq(T) /\ Len(made) = L
      /\ \A j \in 1..L :
            /\ made[j].id = records[j].id
            /\ records[j].id = work.id => made[j] = records[j]
            /\ GoodRecord(made[j], work)
      /\ Used(made) <= Used(records)
  BY MadeFacts
<1>2. records' = With(made, s) /\ (Size(s) = SummaryBytes
         \/ (Room(made, size) /\ size \in Nat /\ Size(s) = Size(records[i]) + size))
  OBVIOUS
<1>. HIDE DEF made
<1>3. /\ records \in Seq(Artifacts(begun, now)) /\ records[i] \in T
      /\ Used(records) <= MaxBytes
      /\ \A j \in 1..L : records[j] \in T
      /\ \A j \in 1..L : records[j].id = records[i].id => j = i
  BY StoreFacts
<1>4. made[i] = records[i] /\ i \in 1..Len(made) /\ s.id = made[i].id
      /\ \A j \in 1..Len(made) : made[j].id = made[i].id => j = i
  BY <1>1, <1>3
<1>5. /\ records' \in Seq(T) /\ Len(records') = Len(made)
      /\ records'[i] = s
      /\ \A j \in 1..Len(made) : j # i => records'[j] = made[j]
      /\ Used(records') + Size(made[i]) = Used(made) + Size(s)
      /\ Used(records') \in Nat /\ Used(made) \in Nat
      /\ Size(s) \in Nat /\ Size(made[i]) \in Nat
  BY <1>1, <1>2, <1>4, Swapped
<1>6. Used(records') <= MaxBytes
  <2>1. CASE Size(s) = SummaryBytes
    <3>1. SummaryBytes <= Size(made[i])
      BY <1>3, <1>4, SizeNat
    <3>2. Used(records) \in Nat
      BY <1>3, UsedNat
    <3>. QED
      BY <1>1, <1>3, <1>5, <2>1, <3>1, <3>2, StoreConstants
  <2>2. CASE Room(made, size) /\ size \in Nat /\ Size(s) = Size(records[i]) + size
    <3>1. Used(made) + size <= MaxBytes
      BY <2>2 DEF Room
    <3>. DEFINE u == Used(records')
                v == Used(made)
                x == Size(records[i])
                y == Size(s)
    <3>3. u \in Nat /\ v \in Nat /\ x \in Nat /\ y = x + size /\ u + x = v + y /\ size \in Nat
      BY <1>4, <1>5, <2>2
    <3>. HIDE DEF u, v, x, y
    <3>4. u = v + size
      BY <3>3
    <3>2. Used(records') = Used(made) + size
      BY <3>4 DEF u, v
    <3>. QED
      BY <3>1, <3>2
  <2>. QED
    BY <1>2, <2>1, <2>2
<1>7. \A j \in 1..L : records'[j].id = records[j].id
  BY <1>1, <1>4, <1>5
<1>8. ASSUME NEW j \in 1..L PROVE GoodRecord(records'[j], work')
  <2>1. CASE j = i
    BY <1>5, <2>1
  <2>2. CASE j # i
    <3>1. GoodRecord(made[j], work) /\ made[j].id = records[j].id /\ records'[j] = made[j]
      BY <1>1, <1>5, <2>2
    <3>2. records[j].id # work.id /\ records[j].id # 0
      BY <1>3, <2>2 DEF Artifacts
    <3>3. made[j].id # work'.id
      BY <3>1, <3>2 DEF Idle
    <3>4. GoodRecord(made[j], work')
      BY <3>1, <3>2, <3>3, OtherGood
    <3>. QED
      BY <3>1, <3>4
  <2>. QED
    BY <2>1, <2>2
<1>. QED
  BY <1>1, <1>5, <1>6, <1>7, <1>8, SameRecords

LEMMA PendingFile ==
    ASSUME NEW p \in FileLists, p # <<>>
    PROVE  /\ Head(p) \in Sizes
           /\ Tail(p) \in FileLists
           /\ \A f \in FileLists :
                 f \o p \in FileLists =>
                    /\ Append(f, Head(p)) \in FileLists
                    /\ f \o p = Append(f, Head(p)) \o Tail(p)
<1>1. p \in Seq(Sizes) /\ Len(p) <= MaxFiles
  BY FileList
<1>2. Head(p) \in Sizes /\ Tail(p) \in Seq(Sizes) /\ Len(p) \in Nat /\ Len(Tail(p)) = Len(p) - 1 /\ Len(p) > 0
  BY <1>1
<1>3. Tail(p) \in FileLists
  <2>. DEFINE t == Tail(p)
  <2>1. t \in Seq(Sizes) /\ Len(t) <= MaxFiles
    BY <1>1, <1>2, StoreConstants
  <2>. HIDE DEF t
  <2>2. t \in FileLists
    BY <2>1, FileList
  <2>. QED
    BY <2>2 DEF t
<1>4. ASSUME NEW f \in FileLists, f \o p \in FileLists
      PROVE  Append(f, Head(p)) \in FileLists /\ f \o p = Append(f, Head(p)) \o Tail(p)
  <2>. DEFINE h == Head(p)
              t == Tail(p)
              g == Append(f, h)
  <2>1. f \in Seq(Sizes) /\ Len(f \o p) <= MaxFiles /\ Len(f \o p) = Len(f) + Len(p) /\ Len(f) \in Nat
    <3>1. f \in Seq(Sizes)
      BY FileList
    <3>2. Len(f \o p) <= MaxFiles
      <4>. DEFINE x == f \o p
      <4>1. x \in FileLists
        BY <1>4
      <4>. HIDE DEF x
      <4>2. Len(x) <= MaxFiles
        BY <4>1, FileList
      <4>. QED
        BY <4>2 DEF x
    <3>. QED
      BY <1>1, <3>1, <3>2
  <2>2. g \in Seq(Sizes) /\ Len(g) = Len(f) + 1 /\ g[Len(f) + 1] = h /\ \A i \in 1..Len(f) : g[i] = f[i]
    BY <1>2, <2>1
  <2>3. g \in FileLists
    <3>1. Len(g) <= MaxFiles
      BY <1>2, <2>1, <2>2, StoreConstants
    <3>. HIDE DEF g
    <3>. QED
      BY <2>2, <3>1, FileList
  <2>4. h = p[1] /\ \A i \in 1..(Len(p) - 1) : t[i] = p[i + 1]
    BY <1>1, <1>2
  <2>. HIDE DEF h, t, g
  <2>5. /\ f \o p \in Seq(Sizes) /\ g \o t \in Seq(Sizes)
        /\ Len(f \o p) = Len(f) + Len(p) /\ Len(g \o t) = Len(f) + Len(p)
    <3>1. t \in Seq(Sizes) /\ Len(t) = Len(p) - 1
      BY <1>2 DEF t
    <3>. QED
      BY <1>1, <1>2, <2>1, <2>2, <3>1
  <2>6. ASSUME NEW i \in 1..(Len(f) + Len(p)) PROVE (f \o p)[i] = (g \o t)[i]
    <3>1. t \in Seq(Sizes) /\ Len(t) = Len(p) - 1
      BY <1>2 DEF t
    <3>2. CASE i <= Len(f)
      <4>1. (f \o p)[i] = f[i]
        BY <1>1, <2>1, <3>2
      <4>2. (g \o t)[i] = g[i]
        BY <1>2, <2>1, <2>2, <3>1, <3>2
      <4>3. i \in 1..Len(f)
        BY <2>1, <3>2
      <4>. QED
        BY <2>2, <4>1, <4>2, <4>3
    <3>3. CASE i = Len(f) + 1
      <4>1. (f \o p)[i] = p[1]
        BY <1>1, <1>2, <2>1, <3>3
      <4>2. (g \o t)[i] = g[i]
        BY <1>2, <2>1, <2>2, <3>1, <3>3
      <4>. QED
        BY <2>2, <2>4, <3>3, <4>1, <4>2
    <3>4. CASE i > Len(f) + 1
      <4>. DEFINE k == i - (Len(f) + 1)
      <4>1. k \in 1..(Len(p) - 1) /\ k + 1 = i - Len(f) /\ i \in Int
        BY <1>2, <2>1, <3>4
      <4>2. (f \o p)[i] = p[k + 1]
        <5>1. (f \o p)[i] = p[i - Len(f)]
          BY <1>1, <1>2, <2>1, <3>4
        <5>. QED
          BY <4>1, <5>1
      <4>3. (g \o t)[i] = t[k]
        BY <1>2, <2>1, <2>2, <3>1, <3>4
      <4>. QED
        BY <2>4, <4>1, <4>2, <4>3
    <3>5. i \in Int /\ Len(f) \in Int
      BY <1>2, <2>1
    <3>6. i <= Len(f) \/ i = Len(f) + 1 \/ i > Len(f) + 1
      BY <3>5
    <3>. QED
      BY <3>2, <3>3, <3>4, <3>6, Zenon
  <2>7. f \o p = g \o t
    <3>. DEFINE x == f \o p
                y == g \o t
    <3>1. x \in Seq(Sizes) /\ y \in Seq(Sizes) /\ Len(x) = Len(y) /\ \A i \in 1..Len(x) : x[i] = y[i]
      BY <2>5, <2>6
    <3>. HIDE DEF x, y
    <3>2. x \in [1..Len(x) -> Sizes] /\ y \in [1..Len(y) -> Sizes]
      BY <3>1
    <3>3. x = y
      BY <3>1, <3>2
    <3>. QED
      BY <3>3 DEF x, y
  <2>. QED
    BY <2>3, <2>7 DEF g, h, t
<1>. QED
  BY <1>2, <1>3, <1>4

LEMMA IdleWork ==
    ASSUME StoreInv
    PROVE  Idle \in Works(begun) /\ Idle.op = "none" /\ Idle.id = 0
<1>1. 0 \in 0..begun
  BY StoreFacts
<1>. QED
  BY <1>1, EmptyList DEF Works, Idle

(* The next file is stored. *)
LEMMA StoreFileInv ==
    ASSUME StoreInv, StoreFile
    PROVE  StoreInv'
<1>1. /\ work.op = "store" /\ work.pending # <<>> /\ UNCHANGED <<now, removed, begun>>
      /\ Room(MakeRoom(records, Needed, work.id), Needed)
      /\ work' = [work EXCEPT !.pending = Tail(@)]
  BY DEF StoreFile, Made
<1>2. PICK i \in 1..Len(records) :
         /\ records[i].id = work.id
         /\ TheRecord(work.id) = records[i]
         /\ \A j \in 1..Len(records) : records[j].id = work.id => j = i
  BY <1>1, WorkRecord
<1>. DEFINE r == records[i]
            x == Head(work.pending)
            s == [r EXCEPT !.files = Append(@, x)]
<1>3. /\ r \in Artifacts(begun, now) /\ GoodRecord(r, work) /\ work \in Works(begun)
  BY StoreFacts
<1>4. /\ work.pending \in FileLists /\ r.files \in FileLists /\ r.given \in FileLists
  BY <1>3 DEF Works, Artifacts
<1>5. r.reason = "none" /\ r.given = r.files \o work.pending /\ r.created = r.done
  BY <1>1, <1>2, <1>3 DEF GoodRecord
<1>6. /\ x \in Sizes /\ Tail(work.pending) \in FileLists
      /\ Append(r.files, x) \in FileLists
      /\ r.given = Append(r.files, x) \o Tail(work.pending)
  BY <1>1, <1>4, <1>5, PendingFile
<1>7. /\ s \in Artifacts(begun, now) /\ s.id = work.id /\ s.files = Append(r.files, x)
      /\ s.created = s.done /\ s.reason = "none" /\ s.given = r.given
  BY <1>2, <1>3, <1>5, <1>6 DEF Artifacts
<1>8. /\ work' \in Works(begun) /\ work'.op = "store" /\ work'.pending = Tail(work.pending)
      /\ work'.id = work.id
  BY <1>1, <1>3, <1>6 DEF Works
<1>9. records' = With(MakeRoom(records, Needed, work.id), s)
  BY <1>2 DEF StoreFile, Made
<1>. HIDE DEF s, x
<1>10. Size(s) = Size(r) + Needed /\ Needed \in Nat
  <2>1. Needed = x + EntryBytes
    BY DEF Needed, x
  <2>. QED
    BY <1>4, <1>6, <1>7, <2>1, SizeGrown, StoreConstants
<1>11. GoodRecord(s, work')
  BY <1>6, <1>7, <1>8 DEF GoodRecord
<1>. QED
  BY <1>1, <1>2, <1>7, <1>8, <1>9, <1>10, <1>11, MadeSwapInv

(* The result does not fit, or a file cannot be written: it loses its details. *)
LEMMA StoreNoneInv ==
    ASSUME StoreInv, StorageLimit \/ FileIOError
    PROVE  StoreInv'
<1>1. /\ work.op = "store" /\ UNCHANGED <<now, removed, begun>>
      /\ work' = [work EXCEPT !.pending = <<>>]
      /\ \E reason \in {"storage_limit", "storage_io_error"} :
            records' = With(MakeRoom(records, Needed, work.id),
                                  Drop(TheRecord(work.id), reason))
  BY DEF StorageLimit, FileIOError, Made
<1>2. PICK i \in 1..Len(records) :
         /\ records[i].id = work.id
         /\ TheRecord(work.id) = records[i]
         /\ \A j \in 1..Len(records) : records[j].id = work.id => j = i
  BY <1>1, WorkRecord
<1>3. PICK reason \in {"storage_limit", "storage_io_error"} :
            records' = With(MakeRoom(records, Needed, work.id),
                                  Drop(records[i], reason))
  BY <1>1, <1>2
<1>. DEFINE s == Drop(records[i], reason)
<1>4. /\ records[i] \in Artifacts(begun, now) /\ GoodRecord(records[i], work) /\ work \in Works(begun)
  BY StoreFacts
<1>5. /\ s \in Artifacts(begun, now) /\ s.id = work.id /\ s.files = <<>>
      /\ s.created = s.done /\ s.reason # "none" /\ Size(s) = SummaryBytes
  BY <1>2, <1>4, Dropped DEF Reasons, GoodRecord
<1>. HIDE DEF s
<1>6. /\ work' \in Works(begun) /\ work'.op = "store" /\ work'.pending = <<>> /\ work'.id = work.id
  BY <1>1, <1>4, EmptyList DEF Works
<1>7. GoodRecord(s, work')
  BY <1>5, <1>6 DEF GoodRecord
<1>8. records' = With(MakeRoom(records, Needed, work.id), s)
  BY <1>3 DEF s
<1>. QED
  BY <1>1, <1>2, <1>5, <1>6, <1>7, <1>8, MadeSwapInv

LEMMA EndOfWorkInv ==
    ASSUME StoreInv, Finished \/ DrawFails
    PROVE  StoreInv'
<1>1. /\ UNCHANGED <<now, records, removed, begun>> /\ work' = Idle
      /\ work.op \in {"store", "draw"} /\ (work.op = "store" => work.pending = <<>>)
  BY DEF Finished, DrawFails
<1>2. work' \in Works(begun) /\ work'.op = "none" /\ work'.id = 0
  BY <1>1, IdleWork
<1>3. ASSUME NEW j \in 1..Len(records) PROVE GoodRecord(records[j], work')
  <2>1. GoodRecord(records[j], work) /\ records[j] \in Artifacts(begun, now)
    BY StoreFacts
  <2>2. records[j].id # 0 /\ records[j].files \in FileLists
    BY <2>1, StoreFacts DEF Artifacts
  <2>3. records[j].files \o <<>> = records[j].files
    <3>1. records[j].files \in Seq(Sizes)
      BY <2>2, FileList
    <3>. QED
      BY <3>1
  <2>4. records[j].id = work.id /\ records[j].reason = "none" => records[j].files = records[j].given
    BY <1>1, <2>1, <2>3 DEF GoodRecord
  <2>. QED
    BY <1>2, <2>1, <2>2, <2>4 DEF GoodRecord
<1>4. records \in Seq(Artifacts(begun, now)) /\ Used(records) <= MaxBytes
  BY StoreFacts
<1>. QED
  BY <1>1, <1>2, <1>3, <1>4, SameRecords

LEMMA AddImageInv ==
    ASSUME StoreInv, NEW size \in Sizes, AddImage(size)
    PROVE  StoreInv'
<1>. DEFINE need == size + EntryBytes
            made == MakeRoom(records, need, work.id)
<1>1. /\ work.op = "draw" /\ work' = Idle /\ UNCHANGED <<now, removed, begun>>
  BY DEF AddImage
<1>2. PICK i \in 1..Len(records) :
         /\ records[i].id = work.id
         /\ TheRecord(work.id) = records[i]
         /\ \A j \in 1..Len(records) : records[j].id = work.id => j = i
  BY <1>1, WorkRecord
<1>3. work' \in Works(begun) /\ work'.op = "none" /\ work'.id = 0
  BY <1>1, IdleWork
<1>. DEFINE r == records[i]
            s == [r EXCEPT !.files = Append(@, size), !.given = Append(@, size)]
<1>4. /\ r \in Artifacts(begun, now) /\ GoodRecord(r, work)
      /\ Used(records) <= MaxBytes /\ Used(records) \in Nat
      /\ \A j \in 1..Len(records) : records[j].id # 0
  <2>1. /\ records \in Seq(Artifacts(begun, now)) /\ GoodRecord(r, work)
        /\ Used(records) <= MaxBytes
        /\ \A j \in 1..Len(records) : records[j] \in Artifacts(begun, now)
    BY StoreFacts
  <2>2. Used(records) \in Nat
    BY <2>1, UsedNat
  <2>3. \A j \in 1..Len(records) : records[j].id # 0
    BY <2>1 DEF Artifacts
  <2>. QED
    BY <2>1, <2>2, <2>3
<1>5. r.created = r.done /\ r.reason = "none" /\ r.files = r.given /\ Len(r.files) < MaxFiles
  BY <1>1, <1>2, <1>4 DEF GoodRecord
<1>6. r.files \in FileLists /\ Append(r.files, size) \in FileLists
  <2>1. r.files \in FileLists
    BY <1>4 DEF Artifacts
  <2>2. r.files \in Seq(Sizes)
    BY <2>1, FileList
  <2>. DEFINE a == Append(r.files, size)
  <2>3. a \in Seq(Sizes) /\ Len(a) <= MaxFiles
    BY <1>5, <2>2, StoreConstants
  <2>. HIDE DEF a
  <2>4. a \in FileLists
    BY <2>3, FileList
  <2>. QED
    BY <2>1, <2>4 DEF a
<1>7. /\ s \in Artifacts(begun, now) /\ s.id = work.id /\ s.files = Append(r.files, size)
      /\ s.created = s.done /\ s.reason = "none" /\ s.files = s.given
  BY <1>2, <1>4, <1>5, <1>6 DEF Artifacts
<1>8. need \in Nat
  BY StoreConstants
<1>9. CASE records' = made
  <2>1. /\ made \in Seq(Artifacts(begun, now))
        /\ Len(made) = Len(records)
        /\ \A j \in 1..Len(records) : made[j].id = records[j].id /\ GoodRecord(made[j], work)
        /\ \A j \in 1..Len(records) : records[j].id = work.id => made[j] = records[j]
        /\ Used(made) <= Used(records)
    BY <1>1, MadeFacts
  <2>. HIDE DEF made
  <2>2. Used(made) \in Nat
    BY <2>1, UsedNat
  <2>3. ASSUME NEW j \in 1..Len(records) PROVE GoodRecord(made[j], work')
    <3>1. made[j].id # work'.id /\ GoodRecord(made[j], work)
      BY <1>3, <1>4, <2>1
    <3>2. CASE made[j].id # work.id
      BY <3>1, <3>2, OtherGood
    <3>3. CASE made[j].id = work.id
      <4>1. j = i /\ made[j] = r
        BY <1>2, <2>1, <3>3
      <4>. QED
        BY <1>5, <3>1, <4>1 DEF GoodRecord
    <3>. QED
      BY <3>2, <3>3
  <2>4. Used(records') <= MaxBytes
    BY <1>4, <1>9, <2>1, <2>2, StoreConstants
  <2>. QED
    BY <1>1, <1>3, <1>9, <2>1, <2>3, <2>4, SameRecords
<1>10. CASE Room(made, need) /\ records' = With(made, s)
  <2>. HIDE DEF s, need
  <2>1. Size(s) = Size(r) + need
    BY <1>6, <1>7, SizeGrown DEF need
  <2>2. GoodRecord(s, work')
    BY <1>2, <1>3, <1>4, <1>7 DEF GoodRecord
  <2>. QED
    BY <1>1, <1>2, <1>3, <1>7, <1>8, <1>10, <2>1, <2>2, MadeSwapInv
<1>. QED
  BY <1>2, <1>9, <1>10 DEF AddImage

LEMMA TickInv ==
    ASSUME StoreInv, Tick
    PROVE  StoreInv'
<1>1. now < MaxNow /\ now' = now + 1 /\ UNCHANGED <<records, removed, begun, work>>
  BY DEF Tick
<1>2. /\ now \in Nat /\ begun \in Nat /\ begun <= MaxIds
      /\ records \in Seq(Artifacts(begun, now))
      /\ \A i \in 1..Len(records) : records[i] \in Artifacts(begun, now)
      /\ Len(records) \in Nat
  BY StoreFacts
<1>3. now' \in 0..MaxNow /\ now' \in Nat /\ now <= now' /\ begun' \in 0..MaxIds
  BY <1>1, <1>2, StoreConstants
<1>4. records' \in Seq(Artifacts(begun', now'))
  <2>. DEFINE U == Artifacts(begun', now')
  <2>1. \A i \in 1..Len(records) : records[i] \in U
    BY <1>1, <1>2, <1>3, ArtifactsGrow
  <2>. HIDE DEF U
  <2>2. records \in Seq(U)
    BY <1>2, <2>1
  <2>. QED
    BY <1>1, <2>2 DEF U
<1>5. removed' \in Seq(Forgotten(begun')) /\ work' \in Works(begun')
  BY <1>1, StoreFacts
<1>. QED
  BY <1>1, <1>3, <1>4, <1>5, StoreFacts, StoreInvNext

-----------------------------------------------------------------------------
(* The calls that forget artifacts or reorder them.                         *)

LEMMA PrunedFacts ==
    ASSUME StoreInv
    PROVE  LET p == Prune(records)
           IN  /\ p \in Seq(Artifacts(begun, now))
               /\ \E e : /\ Increasing(e, Len(p), Len(records))
                         /\ \A k \in 1..Len(p) : p[k] = records[e[k]] /\ ~Expired(p[k])
                         /\ \A i \in 1..Len(records) : ~Expired(records[i]) =>
                               \E k \in 1..Len(p) : e[k] = i
<1>. DEFINE S == {r \in ToSet(records) : ~Expired(r)}
            p == Prune(records)
<1>1. records \in Seq(Artifacts(begun, now)) /\ DOMAIN records = 1..Len(records)
  BY StoreFacts
<1>2. p = Those(records, S)
  BY DEF Prune
<1>3. /\ \A r \in S : ~Expired(r)
      /\ \A i \in 1..Len(records) : ~Expired(records[i]) => records[i] \in S
  BY <1>1 DEF ToSet
<1>. HIDE DEF S, p
<1>4. p \in Seq(Artifacts(begun, now)) /\ \E e : Filters(records, Len(records), S, p, e)
  BY <1>1, <1>2, ThoseFilters
<1>5. PICK e : Filters(records, Len(records), S, p, e)
  BY <1>4
<1>6. /\ Increasing(e, Len(p), Len(records))
      /\ \A k \in 1..Len(p) : p[k] = records[e[k]] /\ ~Expired(p[k])
      /\ \A i \in 1..Len(records) : ~Expired(records[i]) =>
            \E k \in 1..Len(p) : e[k] = i
  BY <1>3, <1>5 DEF Filters
<1>. QED
  BY <1>4, <1>6 DEF p

LEMMA WithoutFacts ==
    ASSUME NEW b, NEW n, NEW rs \in Seq(Artifacts(b, n)), NEW id
    PROVE  LET q == Without(rs, id)
           IN  /\ q \in Seq(Artifacts(b, n))
               /\ \E e : /\ Increasing(e, Len(q), Len(rs))
                         /\ \A k \in 1..Len(q) : q[k] = rs[e[k]] /\ q[k].id # id
                         /\ \A i \in 1..Len(rs) : rs[i].id # id => \E k \in 1..Len(q) : e[k] = i
<1>. DEFINE S == {r \in ToSet(rs) : r.id # id}
            q == Without(rs, id)
<1>1. DOMAIN rs = 1..Len(rs)
  OBVIOUS
<1>2. q = Those(rs, S)
  BY DEF Without
<1>3. /\ \A r \in S : r.id # id
      /\ \A i \in 1..Len(rs) : rs[i].id # id => rs[i] \in S
  BY <1>1 DEF ToSet
<1>. HIDE DEF S, q
<1>4. q \in Seq(Artifacts(b, n)) /\ \E e : Filters(rs, Len(rs), S, q, e)
  BY <1>2, ThoseFilters
<1>5. PICK e : Filters(rs, Len(rs), S, q, e)
  BY <1>4
<1>6. /\ Increasing(e, Len(q), Len(rs))
      /\ \A k \in 1..Len(q) : q[k] = rs[e[k]] /\ q[k].id # id
      /\ \A i \in 1..Len(rs) : rs[i].id # id => \E k \in 1..Len(q) : e[k] = i
  BY <1>3, <1>5 DEF Filters
<1>. QED
  BY <1>4, <1>6 DEF q

LEMMA PruneReasonsFacts ==
    ASSUME StoreInv
    PROVE  /\ PruneReasons(records) \in Seq(Forgotten(begun))
           /\ \A x : In(x, PruneReasons(records)) =>
                 \E i \in 1..Len(records) :
                    Expired(records[i]) /\ x = [id |-> records[i].id, cause |-> "expired"]
<1>. DEFINE S == {r \in ToSet(records) : Expired(r)}
            q == Those(records, S)
<1>1. records \in Seq(Artifacts(begun, now)) /\ DOMAIN records = 1..Len(records)
  BY StoreFacts
<1>2. \A r \in S : Expired(r)
  OBVIOUS
<1>. HIDE DEF S
<1>3. q \in Seq(Artifacts(begun, now)) /\ \E e : Filters(records, Len(records), S, q, e)
  BY <1>1, ThoseFilters
<1>4. PICK e : Filters(records, Len(records), S, q, e)
  BY <1>3
<1>5. \A k \in 1..Len(q) : \E i \in 1..Len(records) : q[k] = records[i] /\ Expired(records[i])
  BY <1>2, <1>4 DEF Filters, Increasing
<1>6. PruneReasons(records) = ReasonsOf(q, "expired")
  BY DEF PruneReasons, S
<1>. HIDE DEF q
<1>7. /\ ReasonsOf(q, "expired") \in Seq(Forgotten(begun))
      /\ \A x : In(x, ReasonsOf(q, "expired")) =>
            \E k \in 1..Len(q) : x = [id |-> q[k].id, cause |-> "expired"]
  <2>1. "expired" \in Causes
    BY DEF Causes
  <2>. QED
    BY <1>3, <2>1, ReasonsFacts
<1>. QED
  BY <1>5, <1>6, <1>7

(* The places in the store that the artifacts of q had. *)
Picks(q, d) ==
    /\ d \in [1..Len(q) -> 1..Len(records)]
    /\ \A k, l \in 1..Len(q) : d[k] = d[l] => k = l
    /\ \A k \in 1..Len(q) : q[k] = records[d[k]]

LEMMA IncreasingInjective ==
    ASSUME NEW n \in Nat, NEW N \in Nat, NEW e, Increasing(e, n, N),
           NEW k \in 1..n, NEW l \in 1..n, e[k] = e[l]
    PROVE  k = l
<1>1. /\ e[k] \in Int /\ e[l] \in Int /\ k \in Int /\ l \in Int
      /\ k < l => e[k] < e[l]
      /\ l < k => e[l] < e[k]
  BY DEF Increasing
<1>. QED
  BY <1>1

LEMMA AccessedFacts ==
    ASSUME StoreInv, NEW id, NEW own \in BOOLEAN
    PROVE  LET q == Accessed(id, own)
           IN  /\ q \in Seq(Artifacts(begun, now))
               /\ Used(q) <= Used(records)
               /\ Len(q) <= Len(records)
               /\ \E d : /\ Picks(q, d)
                         /\ \A k \in 1..Len(q) : ~Expired(q[k])
                         /\ \A i \in 1..Len(records) : ~Expired(records[i]) =>
                               \E k \in 1..Len(q) : d[k] = i
<1>. DEFINE T == Artifacts(begun, now)
            p == Prune(records)
            L == Len(records)
<1>1. /\ records \in Seq(T) /\ L \in Nat /\ DOMAIN records = 1..L
      /\ \A i \in 1..L : records[i] \in T
  BY StoreFacts
<1>2. p \in Seq(T)
  BY PrunedFacts
<1>3. PICK e : /\ Increasing(e, Len(p), L)
               /\ \A k \in 1..Len(p) : p[k] = records[e[k]] /\ ~Expired(p[k])
               /\ \A i \in 1..L : ~Expired(records[i]) => \E k \in 1..Len(p) : e[k] = i
  BY PrunedFacts
<1>. HIDE DEF p
<1>4. Len(p) \in Nat /\ Len(p) <= L
  BY <1>1, <1>2, <1>3, IncreasingLen
<1>5. Used(p) <= Used(records) /\ Used(p) \in Nat /\ Used(records) \in Nat
  <2>1. \A k \in 1..Len(p) : Size(p[k]) <= Size(records[e[k]])
    <3>1. ASSUME NEW k \in 1..Len(p) PROVE Size(p[k]) <= Size(records[e[k]])
      <4>1. p[k] \in Artifacts(begun, now)
        BY <1>2
      <4>2. Size(p[k]) \in Nat
        BY <4>1, SizeNat
      <4>. QED
        BY <1>3, <4>2
    <3>. QED
      BY <3>1
  <2>. QED
    BY <1>1, <1>2, <1>3, <2>1, UsedEmbedded, UsedNat
<1>6. \A k \in 1..Len(p) : e[k] \in 1..L
  BY <1>3 DEF Increasing
<1>7. Picks(p, e)
  BY <1>1, <1>3, <1>4, IncreasingInjective DEF Picks, Increasing
<1>8. CASE ~(own /\ Found(id))
  <2>1. Accessed(id, own) = p
    BY <1>8 DEF Accessed, p
  <2>. QED
    BY <1>2, <1>3, <1>4, <1>5, <1>7, <2>1
<1>9. CASE own /\ Found(id)
  <2>1. PICK i \in 1..L : records[i].id = id
    BY <1>1, <1>9 DEF Found, Live
  <2>2. TheRecord(id) = records[i] /\ ~Expired(records[i])
    BY <1>9, <2>1, TheOne DEF Found
  <2>3. PICK c \in 1..Len(p) : e[c] = i
    BY <1>3, <2>2
  <2>. DEFINE w == Without(p, id)
              r == records[i]
              q == Append(w, r)
  <2>4. Accessed(id, own) = q
    BY <1>9, <2>2 DEF Accessed, p
  <2>5. w \in Seq(T)
    BY <1>2, WithoutFacts
  <2>6. PICK f : /\ Increasing(f, Len(w), Len(p))
                 /\ \A k \in 1..Len(w) : w[k] = p[f[k]] /\ w[k].id # id
                 /\ \A j \in 1..Len(p) : p[j].id # id => \E k \in 1..Len(w) : f[k] = j
    BY <1>2, WithoutFacts
  <2>. HIDE DEF w
  <2>7. p[c] = r /\ r.id = id
    BY <1>3, <2>1, <2>3
  <2>8. \A k \in 1..Len(w) : f[k] \in 1..Len(p) /\ f[k] # c
    BY <2>6, <2>7 DEF Increasing
  <2>9. /\ Len(w) \in Nat /\ q \in Seq(T) /\ Len(q) = Len(w) + 1 /\ q[Len(w) + 1] = r
        /\ \A k \in 1..Len(w) : q[k] = w[k]
        /\ r \in Artifacts(begun, now)
    <3>1. Len(w) \in Nat /\ r \in T
      BY <1>1, <2>5
    <3>. HIDE DEF r, T
    <3>2. /\ q \in Seq(T) /\ Len(q) = Len(w) + 1 /\ q[Len(w) + 1] = r
          /\ \A k \in 1..Len(w) : q[k] = w[k]
      BY <2>5, <3>1
    <3>. QED
      BY <3>1, <3>2 DEF T
  <2>10. Len(w) < Len(p)
    BY <1>4, <2>6, <2>8, <2>9, IncreasingMissing
  <2>11. Used(w) + Size(p[c]) <= Used(p)
    BY <1>2, <2>5, <2>6, <2>8, UsedMissing
  <2>12. Used(q) = Used(w) + Size(r)
    BY <2>5, <2>9, UsedAppend
  <2>13. Used(q) <= Used(records)
    <3>1. Used(w) \in Nat /\ Size(r) \in Nat
      BY <2>5, <2>9, UsedNat, SizeNat
    <3>. QED
      BY <1>5, <2>7, <2>11, <2>12, <3>1
  <2>14. Len(q) <= L
    BY <1>1, <1>4, <2>9, <2>10
  <2>. DEFINE K == Len(w)
              d == [k \in 1..(K + 1) |-> IF k = K + 1 THEN i ELSE e[f[k]]]
  <2>15. /\ K \in Nat /\ Len(q) = K + 1 /\ K + 1 \in 1..(K + 1)
         /\ \A k \in 1..(K + 1) : k = K + 1 \/ k \in 1..K
         /\ \A k \in 1..K : k # K + 1 /\ k \in 1..(K + 1)
    BY <2>9
  <2>. HIDE DEF q, K
  <2>16. \A k \in 1..K : e[f[k]] \in 1..L /\ e[f[k]] # i
    <3>1. ASSUME NEW k \in 1..K, e[f[k]] = i PROVE FALSE
      <4>1. f[k] \in 1..Len(p) /\ f[k] # c
        BY <2>8 DEF K
      <4>2. f[k] = c
        BY <1>7, <2>3, <3>1, <4>1 DEF Picks
      <4>. QED
        BY <4>1, <4>2
    <3>. QED
      BY <1>6, <2>8, <3>1 DEF K
  <2>17. d \in [1..(K + 1) -> 1..L] /\ d[K + 1] = i /\ \A k \in 1..K : d[k] = e[f[k]]
    BY <2>15, <2>16
  <2>. HIDE DEF d
  <2>18. ASSUME NEW k \in 1..(K + 1), NEW l \in 1..(K + 1), d[k] = d[l] PROVE k = l
    <3>1. CASE k \in 1..K /\ l \in 1..K
      <4>1. f[k] \in 1..Len(p) /\ f[l] \in 1..Len(p) /\ e[f[k]] = e[f[l]]
        BY <2>8, <2>17, <2>18, <3>1 DEF K
      <4>2. f[k] = f[l]
        BY <1>7, <4>1 DEF Picks
      <4>. QED
        BY <1>4, <2>6, <2>9, <3>1, <4>2, IncreasingInjective DEF K
    <3>2. CASE k = K + 1 \/ l = K + 1
      BY <2>15, <2>16, <2>17, <2>18, <3>2
    <3>. QED
      BY <2>15, <3>1, <3>2
  <2>19. ASSUME NEW k \in 1..(K + 1) PROVE q[k] = records[d[k]] /\ ~Expired(q[k])
    <3>1. CASE k = K + 1
      BY <2>2, <2>9, <2>17, <3>1 DEF K, q
    <3>2. CASE k \in 1..K
      <4>1. q[k] = p[f[k]] /\ f[k] \in 1..Len(p)
        BY <2>6, <2>8, <2>9, <3>2 DEF K, q
      <4>. QED
        BY <1>3, <2>17, <3>2, <4>1
    <3>. QED
      BY <2>15, <3>1, <3>2
  <2>20. ASSUME NEW j \in 1..L, ~Expired(records[j]) PROVE \E k \in 1..(K + 1) : d[k] = j
    <3>1. CASE j = i
      BY <2>15, <2>17, <3>1
    <3>2. CASE j # i
      <4>1. PICK g \in 1..Len(p) : e[g] = j
        BY <1>3, <2>20
      <4>2. p[g] = records[j] /\ records[j].id # id
        BY <1>3, <2>1, <3>2, <4>1, StoreFacts
      <4>3. PICK k \in 1..K : f[k] = g
        BY <2>6, <4>2 DEF K
      <4>. QED
        BY <2>15, <2>17, <4>1, <4>3
    <3>. QED
      BY <3>1, <3>2
  <2>21. Picks(q, d)
    BY <2>15, <2>17, <2>18, <2>19 DEF Picks
  <2>22. q \in Seq(T)
    BY <2>9 DEF q
  <2>. QED
    BY <2>4, <2>13, <2>14, <2>15, <2>19, <2>20, <2>21, <2>22
<1>. QED
  BY <1>8, <1>9

(* Nothing forgotten is among the artifacts an access leaves. *)
LEMMA AccessForgets ==
    ASSUME StoreInv, NEW q, NEW d, Picks(q, d),
           \A k \in 1..Len(q) : ~Expired(q[k]),
           NEW x, In(x, removed) \/ In(x, PruneReasons(records)), NEW j \in 1..Len(q)
    PROVE  x.id # q[j].id
<1>1. d[j] \in 1..Len(records) /\ q[j] = records[d[j]]
  BY DEF Picks
<1>2. CASE In(x, removed)
  BY <1>1, <1>2, StoreFacts
<1>3. CASE In(x, PruneReasons(records))
  <2>1. PICK i \in 1..Len(records) :
           Expired(records[i]) /\ x = [id |-> records[i].id, cause |-> "expired"]
    BY <1>3, PruneReasonsFacts
  <2>2. ASSUME records[i].id = records[d[j]].id PROVE FALSE
    <3>1. i = d[j]
      BY <1>1, <2>2, StoreFacts
    <3>. QED
      BY <1>1, <2>1, <3>1
  <2>. QED
    BY <1>1, <2>1, <2>2
<1>. QED
  BY <1>2, <1>3

LEMMA AccessInv ==
    ASSUME StoreInv, work = Idle, NEW id, NEW own \in BOOLEAN,
           records' = Accessed(id, own),
           removed' = Latest(removed \o PruneReasons(records)),
           UNCHANGED <<now, begun>>,
           work' \in Works(begun),
           \/ work' = Idle
           \/ /\ work'.op = "draw" /\ work'.id = id
              /\ Found(id)
              /\ TheRecord(id).reason = "none"
              /\ Len(TheRecord(id).files) < MaxFiles
    PROVE  StoreInv'
<1>. DEFINE T == Artifacts(begun, now)
            q == Accessed(id, own)
            L == Len(records)
            p == PruneReasons(records)
<1>1. q \in Seq(T) /\ Used(q) <= Used(records) /\ Len(q) <= L
  BY AccessedFacts
<1>2. PICK d : /\ Picks(q, d)
               /\ \A k \in 1..Len(q) : ~Expired(q[k])
               /\ \A i \in 1..L : ~Expired(records[i]) => \E k \in 1..Len(q) : d[k] = i
  BY AccessedFacts
<1>3. records' = q
  OBVIOUS
<1>. HIDE DEF q
<1>4. /\ records \in Seq(T) /\ Used(records) <= MaxBytes /\ L <= MaxRecords /\ L \in Nat
      /\ now \in 0..MaxNow /\ begun \in 0..MaxIds /\ removed \in Seq(Forgotten(begun))
      /\ \A i \in 1..L : records[i] \in T /\ GoodRecord(records[i], work)
      /\ DOMAIN records = 1..L
  BY StoreFacts, StoreConstants
<1>5. Used(records') <= MaxBytes /\ Len(records') <= MaxRecords
  <2>1. Used(records) \in Nat /\ Used(q) \in Nat /\ Len(q) \in Nat
    BY <1>1, <1>4, UsedNat
  <2>. QED
    BY <1>1, <1>3, <1>4, <2>1, StoreConstants
<1>6. p \in Seq(Forgotten(begun))
  BY PruneReasonsFacts
<1>. HIDE DEF p
<1>7. removed \o p \in Seq(Forgotten(begun))
  BY <1>4, <1>6
<1>8. removed' = Latest(removed \o p)
  BY DEF p
<1>9. /\ removed' \in Seq(Forgotten(begun)) /\ Len(removed') <= MaxRecords
      /\ \A x : In(x, removed') => In(x, removed \o p)
  BY <1>7, <1>8, LatestFacts
<1>10. \A x : In(x, removed') => In(x, removed) \/ In(x, p)
  BY <1>4, <1>6, <1>9, InConcat
<1>11. ASSUME NEW x, In(x, removed'), NEW j \in 1..Len(records') PROVE x.id # records'[j].id
  <2>1. In(x, removed) \/ In(x, PruneReasons(records))
    BY <1>10, <1>11 DEF p
  <2>2. j \in 1..Len(q)
    BY <1>3
  <2>3. x.id # q[j].id
    BY <1>2, <2>1, <2>2, AccessForgets
  <2>. QED
    BY <1>3, <2>3
<1>12. \A j \in 1..Len(q) : d[j] \in 1..L /\ q[j] = records[d[j]]
  BY <1>2 DEF Picks
<1>13. ASSUME NEW i \in 1..Len(records'), NEW j \in 1..Len(records'), records'[i].id = records'[j].id
       PROVE  i = j
  <2>1. /\ i \in 1..Len(q) /\ j \in 1..Len(q) /\ d[i] \in 1..L /\ d[j] \in 1..L
        /\ records[d[i]].id = records[d[j]].id
    BY <1>3, <1>12, <1>13
  <2>2. d[i] = d[j]
    BY <2>1, StoreFacts
  <2>. QED
    BY <1>2, <2>1, <2>2 DEF Picks
<1>14. Idle.id = 0 /\ Idle.op = "none"
  BY IdleWork
<1>15. ASSUME NEW j \in 1..Len(records') PROVE GoodRecord(records'[j], work')
  <2>. DEFINE r == records[d[j]]
  <2>1. j \in 1..Len(q) /\ d[j] \in 1..L /\ records'[j] = r
    BY <1>3, <1>12
  <2>2. r \in Artifacts(begun, now) /\ GoodRecord(r, Idle)
    BY <1>4, <2>1
  <2>3. r.id # 0 /\ r.id # Idle.id
    BY <1>4, <1>14, <2>2 DEF Artifacts
  <2>4. CASE work' = Idle
    BY <2>1, <2>2, <2>4
  <2>5. CASE work'.op = "draw" /\ r.id # work'.id
    <3>1. GoodRecord(r, work')
      BY <2>2, <2>3, <2>5, OtherGood
    <3>. QED
      BY <2>1, <3>1
  <2>6. CASE work'.op = "draw" /\ r.id = work'.id /\ work'.id = id /\ TheRecord(id).reason = "none"
             /\ Len(TheRecord(id).files) < MaxFiles
    <3>1. TheRecord(id) = r
      BY <2>1, <2>6, TheOne
    <3>2. r.reason = "none" /\ Len(r.files) < MaxFiles
      BY <2>6, <3>1
    <3>3. r.files = r.given /\ r.created = r.done
      BY <2>2, <2>3, <3>2 DEF GoodRecord
    <3>4. GoodRecord(r, work')
      BY <2>6, <3>2, <3>3 DEF GoodRecord
    <3>. QED
      BY <2>1, <3>4
  <2>. QED
    BY <1>14, <2>4, <2>5, <2>6
<1>16. work'.op # "none" => \E i \in 1..Len(records') : records'[i].id = work'.id
  <2>1. ASSUME work'.op # "none" PROVE \E i \in 1..Len(records') : records'[i].id = work'.id
    <3>1. work'.id = id /\ Found(id)
      BY <1>14, <2>1
    <3>2. PICK i \in 1..L : records[i].id = id
      BY <1>4, <3>1 DEF Found, Live
    <3>3. ~Expired(records[i])
      BY <3>1, <3>2, TheOne DEF Found
    <3>4. PICK k \in 1..Len(q) : d[k] = i
      BY <1>2, <3>3
    <3>. QED
      BY <1>3, <1>12, <3>1, <3>2, <3>4
  <2>. QED
    BY <2>1
<1>17. work'.op = "none" => work' = Idle
  OBVIOUS
<1>. QED
  BY <1>1, <1>3, <1>4, <1>5, <1>9, <1>11, <1>13, <1>15, <1>16, <1>17, StoreInvNext

LEMMA ReadInv ==
    ASSUME StoreInv, NEW id, NEW own \in BOOLEAN, Read(id, own)
    PROVE  StoreInv'
<1>1. /\ work = Idle /\ records' = Accessed(id, own)
      /\ removed' = Latest(removed \o PruneReasons(records))
      /\ UNCHANGED <<now, begun>> /\ work' = Idle
  BY DEF Read
<1>2. work' \in Works(begun)
  BY <1>1, IdleWork
<1>. QED
  BY <1>1, <1>2, AccessInv

LEMMA VisualizeInv ==
    ASSUME StoreInv, NEW id \in 1..begun, Draw(id)
    PROVE  StoreInv'
<1>1. /\ work = Idle /\ records' = Accessed(id, TRUE)
      /\ removed' = Latest(removed \o PruneReasons(records))
      /\ UNCHANGED <<now, begun>>
      /\ work' = [op |-> "draw", id |-> id, pending |-> <<>>]
      /\ Found(id)
      /\ TheRecord(id).reason = "none"
      /\ Len(TheRecord(id).files) < MaxFiles
  BY DEF Draw
<1>2. work' \in Works(begun) /\ work'.op = "draw" /\ work'.id = id
  <2>1. id \in 0..begun
    BY StoreFacts
  <2>. QED
    BY <1>1, <2>1, EmptyList DEF Works
<1>. QED
  BY <1>1, <1>2, AccessInv

LEMMA FailsInv ==
    ASSUME StoreInv, Fails
    PROVE  StoreInv'
<1>. DEFINE T == Artifacts(begun, now)
            q == Without(records, work.id)
            L == Len(records)
            y == [id |-> work.id, cause |-> "failed"]
<1>1. /\ work.op = "run" /\ records' = q /\ removed' = Latest(Append(removed, y))
      /\ work' = Idle /\ UNCHANGED <<now, begun>>
  BY DEF Fails
<1>2. /\ records \in Seq(T) /\ Used(records) <= MaxBytes /\ L <= MaxRecords /\ L \in Nat
      /\ now \in 0..MaxNow /\ begun \in 0..MaxIds /\ removed \in Seq(Forgotten(begun))
      /\ \A i \in 1..L : records[i] \in T /\ GoodRecord(records[i], work)
      /\ work \in Works(begun)
  BY StoreFacts, StoreConstants
<1>3. q \in Seq(T)
  BY <1>2, WithoutFacts
<1>4. PICK e : /\ Increasing(e, Len(q), L)
               /\ \A k \in 1..Len(q) : q[k] = records[e[k]] /\ q[k].id # work.id
               /\ \A i \in 1..L : records[i].id # work.id => \E k \in 1..Len(q) : e[k] = i
  BY <1>2, WithoutFacts
<1>. HIDE DEF q
<1>5. \A k \in 1..Len(q) : e[k] \in 1..L
  BY <1>4 DEF Increasing
<1>6. Used(q) <= Used(records)
  <2>1. ASSUME NEW k \in 1..Len(q) PROVE Size(q[k]) <= Size(records[e[k]])
    <3>1. q[k] \in Artifacts(begun, now)
      BY <1>3
    <3>2. Size(q[k]) \in Nat
      BY <3>1, SizeNat
    <3>. QED
      BY <1>4, <3>2
  <2>. QED
    BY <1>2, <1>3, <1>4, <2>1, UsedEmbedded
<1>7. Used(records') <= MaxBytes /\ Len(records') <= MaxRecords /\ Len(q) \in Nat
  <2>1. Used(records) \in Nat /\ Used(q) \in Nat /\ Len(q) \in Nat
    BY <1>2, <1>3, UsedNat
  <2>2. Len(q) <= L
    BY <1>2, <1>4, <2>1, IncreasingLen
  <2>. QED
    BY <1>1, <1>2, <1>6, <2>1, <2>2, StoreConstants
<1>8. PICK c \in 1..L : records[c].id = work.id
  BY <1>1, WorkRecord
<1>9. y \in Forgotten(begun)
  BY <1>2, <1>8 DEF Forgotten, Artifacts, Causes
<1>. HIDE DEF y
<1>10. Append(removed, y) \in Seq(Forgotten(begun))
  BY <1>2, <1>9
<1>11. /\ removed' \in Seq(Forgotten(begun)) /\ Len(removed') <= MaxRecords
       /\ \A x : In(x, removed') => In(x, Append(removed, y))
  BY <1>1, <1>10, LatestFacts
<1>12. \A x : In(x, removed') => In(x, removed) \/ x = y
  BY <1>2, <1>9, <1>11, InAppend
<1>13. ASSUME NEW x, In(x, removed'), NEW j \in 1..Len(records') PROVE x.id # records'[j].id
  <2>1. j \in 1..Len(q) /\ records'[j] = q[j] /\ e[j] \in 1..L /\ q[j] = records[e[j]] /\ q[j].id # work.id
    BY <1>1, <1>4, <1>5
  <2>2. CASE In(x, removed)
    BY <2>1, <2>2, StoreFacts
  <2>3. CASE x = y
    BY <2>1, <2>3 DEF y
  <2>. QED
    BY <1>12, <1>13, <2>2, <2>3
<1>14. ASSUME NEW i \in 1..Len(records'), NEW j \in 1..Len(records'), records'[i].id = records'[j].id
       PROVE  i = j
  <2>1. /\ i \in 1..Len(q) /\ j \in 1..Len(q) /\ e[i] \in 1..L /\ e[j] \in 1..L
        /\ records[e[i]].id = records[e[j]].id
    BY <1>1, <1>4, <1>5, <1>14
  <2>2. e[i] = e[j]
    BY <2>1, StoreFacts
  <2>. QED
    BY <1>2, <1>4, <1>7, <2>1, <2>2, IncreasingInjective
<1>15. ASSUME NEW j \in 1..Len(records') PROVE GoodRecord(records'[j], work')
  <2>1. j \in 1..Len(q) /\ records'[j] = q[j] /\ e[j] \in 1..L /\ q[j] = records[e[j]] /\ q[j].id # work.id
    BY <1>1, <1>4, <1>5
  <2>2. GoodRecord(q[j], work) /\ q[j].id # work'.id
    <3>1. q[j] \in Artifacts(begun, now) /\ GoodRecord(q[j], work)
      BY <1>2, <2>1
    <3>2. work'.id = 0
      BY <1>1, IdleWork
    <3>3. q[j].id \in 1..begun /\ 0 \notin 1..begun
      BY <3>1 DEF Artifacts
    <3>. QED
      BY <3>1, <3>2, <3>3
  <2>3. GoodRecord(q[j], work')
    BY <2>1, <2>2, OtherGood
  <2>. QED
    BY <2>1, <2>3
<1>16. work' \in Works(begun) /\ work'.op = "none"
  BY <1>1, IdleWork
<1>. QED
  BY <1>1, <1>2, <1>3, <1>7, <1>11, <1>13, <1>14, <1>15, <1>16, StoreInvNext

LEMMA Prefix ==
    ASSUME NEW T, NEW rs \in Seq(T), NEW m \in 0..Len(rs)
    PROVE  LET s == SubSeq(rs, 1, m)
           IN  /\ s \in Seq(T)
               /\ Len(s) = m
               /\ \A i \in 1..m : s[i] = rs[i] /\ i \in 1..Len(rs)
<1>. DEFINE L == Len(rs)
            s == SubSeq(rs, 1, m)
<1>1. L \in Nat /\ m \in Nat /\ m <= L /\ 1..m \subseteq 1..L
  OBVIOUS
<1>2. /\ DOMAIN s = 1..Len(s) /\ Len(s) = m
      /\ \A i \in 1..m : s[i] = rs[i]
  BY <1>1
<1>3. s \in Seq(T)
  BY <1>1
<1>. QED
  BY <1>1, <1>2, <1>3

NewArtifact(id) ==
    [id |-> id, created |-> now, done |-> now, files |-> <<>>, given |-> <<>>, reason |-> "none"]

(* The artifacts a new one leaves: those of the places d, each of them as it was
   or without its details. *)
Leaves(room, d) ==
    /\ Increasing(d, Len(room), Len(records))
    /\ \A k \in 1..Len(room) :
          /\ ~Expired(records[d[k]])
          /\ \/ room[k] = records[d[k]]
             \/ room[k] = Drop(records[d[k]], "evicted")

(* How begin makes room: of the unexpired artifacts, at the places e, the first m go,
   and of the others the first k lose their details; and why no fewer. *)
MakesWay(e, m, k) ==
    LET kept == Prune(records)
        N == Len(kept)
        room == Reserve(kept)
    IN  /\ Increasing(e, N, Len(records))
        /\ \A i \in 1..N : kept[i] = records[e[i]] /\ ~Expired(kept[i])
        /\ \A j \in 1..Len(records) : ~Expired(records[j]) => \E i \in 1..N : e[i] = j
        /\ room \in Seq(Artifacts(begun, now)) /\ Len(room) = N - m /\ N - m < MaxRecords
        /\ Room(room, SummaryBytes)
        /\ \A i \in 1..(N - m) :
              /\ m + i \in 1..N
              /\ room[i] = IF i <= k /\ kept[m + i].files # <<>>
                           THEN Drop(kept[m + i], "evicted") ELSE kept[m + i]
        /\ m = 0 => \A j \in 0..N :
                       j < k => ~Room(EvictFirst(kept, j, 0), SummaryBytes)
        /\ m > 0 => \/ N - m = MaxRecords - 1
                    \/ /\ k = N
                       /\ ~Room(EvictFirst(SubSeq(kept, m, N), N, 0), SummaryBytes)

LEMMA BeginMakesWay ==
    ASSUME StoreInv
    PROVE  \E e : \E m, k \in 0..Len(Prune(records)) : MakesWay(e, m, k)
<1>. DEFINE T == Artifacts(begun, now)
            L == Len(records)
            kept == Prune(records)
            N == Len(kept)
            room == Reserve(kept)
<1>1. records \in Seq(T) /\ L \in Nat
  BY StoreFacts
<1>2. kept \in Seq(T)
  BY PrunedFacts
<1>3. PICK e : /\ Increasing(e, N, L)
               /\ \A i \in 1..N : kept[i] = records[e[i]] /\ ~Expired(kept[i])
               /\ \A j \in 1..L : ~Expired(records[j]) => \E i \in 1..N : e[i] = j
  BY PrunedFacts
<1>4. N \in Nat /\ \A i \in 1..N : kept[i] \in Artifacts(begun, now)
  BY <1>2
<1>. HIDE DEF kept
<1>5. PICK m \in 0..N, k \in 0..N :
              /\ room = EvictFirst(SubSeq(kept, m + 1, N), k, 0)
              /\ N - m < MaxRecords
              /\ Room(room, SummaryBytes)
              /\ m = 0 => \A j \in 0..N :
                             j < k => ~Room(EvictFirst(kept, j, 0), SummaryBytes)
              /\ m > 0 => \/ N - m = MaxRecords - 1
                          \/ /\ k = N
                             /\ ~Room(EvictFirst(SubSeq(kept, m, N), N, 0), SummaryBytes)
  BY <1>2, Reserved
<1>. DEFINE a == SubSeq(kept, m + 1, N)
<1>6. /\ a \in Seq(T) /\ Len(a) = N - m
      /\ \A i \in 1..(N - m) : a[i] = kept[m + i] /\ m + i \in 1..N
  <2>. HIDE DEF T
  <2>. QED
    BY <1>2, Suffix
<1>7. room = EvictFirst(a, k, 0)
  BY <1>5
<1>. HIDE DEF a, room
<1>8. /\ room \in Seq(T) /\ Len(room) = N - m
      /\ \A i \in 1..(N - m) :
            room[i] = IF i <= k /\ a[i].id # 0 /\ a[i].files # <<>>
                      THEN Drop(a[i], "evicted") ELSE a[i]
  <2>1. k \in Nat
    BY <1>4, <1>5
  <2>2. LET out == EvictFirst(a, k, 0)
        IN  /\ out \in Seq(T) /\ Len(out) = Len(a)
            /\ \A i \in 1..Len(a) : out[i] = IF i <= k /\ a[i].id # 0 /\ a[i].files # <<>>
                                             THEN Drop(a[i], "evicted") ELSE a[i]
    BY <1>6, <2>1, Evicted
  <2>. QED
    BY <1>6, <1>7, <2>2
<1>9. ASSUME NEW i \in 1..(N - m)
      PROVE  /\ m + i \in 1..N
             /\ room[i] = IF i <= k /\ kept[m + i].files # <<>>
                          THEN Drop(kept[m + i], "evicted") ELSE kept[m + i]
  <2>1. a[i] = kept[m + i] /\ m + i \in 1..N
    BY <1>6
  <2>2. kept[m + i].id # 0
    BY <1>4, <2>1 DEF Artifacts
  <2>. QED
    BY <1>8, <2>1, <2>2
<1>10. MakesWay(e, m, k)
  BY <1>3, <1>5, <1>8, <1>9 DEF MakesWay, kept, room
<1>. QED
  BY <1>5, <1>10 DEF kept

(* begin, up to the new artifact: what is left has room for it, and what was
   forgotten is not among it. *)
LEMMA BegunFacts ==
    ASSUME StoreInv
    PROVE  LET kept == Prune(records)
               room == Reserve(kept)
               oldest == SubSeq(kept, 1, Len(kept) - Len(room))
               reasons == removed \o PruneReasons(records) \o ReasonsOf(oldest, "capacity")
           IN  /\ room \in Seq(Artifacts(begun, now))
               /\ Used(room) + SummaryBytes <= MaxBytes
               /\ Len(room) < MaxRecords
               /\ \E d : Leaves(room, d)
               /\ reasons \in Seq(Forgotten(begun))
               /\ \A x : In(x, reasons) => \A k \in 1..Len(room) : x.id # room[k].id
               /\ \A x : In(x, reasons) =>
                     \/ In(x, removed)
                     \/ In(x, PruneReasons(records))
                     \/ x.cause = "capacity"
<1>. DEFINE T == Artifacts(begun, now)
            L == Len(records)
            kept == Prune(records)
            N == Len(kept)
            room == Reserve(kept)
            oldest == SubSeq(kept, 1, N - Len(room))
            p == PruneReasons(records)
            c == ReasonsOf(oldest, "capacity")
            reasons == removed \o p \o c
<1>1. /\ records \in Seq(T) /\ L \in Nat /\ removed \in Seq(Forgotten(begun))
      /\ \A i \in 1..L : records[i] \in T
  BY StoreFacts
<1>2. kept \in Seq(T)
  BY PrunedFacts
<1>3. PICK e : \E m, k \in 0..N : MakesWay(e, m, k)
  BY BeginMakesWay
<1>4. PICK m \in 0..N, k \in 0..N : MakesWay(e, m, k)
  BY <1>3
<1>5. /\ Increasing(e, N, L)
      /\ \A i \in 1..N : kept[i] = records[e[i]] /\ ~Expired(kept[i])
      /\ room \in Seq(T) /\ Len(room) = N - m /\ N - m < MaxRecords
      /\ Room(room, SummaryBytes)
      /\ \A i \in 1..(N - m) :
            /\ m + i \in 1..N
            /\ room[i] = IF i <= k /\ kept[m + i].files # <<>>
                         THEN Drop(kept[m + i], "evicted") ELSE kept[m + i]
  BY <1>4 DEF MakesWay
<1>6. N \in Nat /\ m \in Nat /\ \A i \in 1..N : e[i] \in 1..L
  BY <1>2, <1>5 DEF Increasing
<1>. HIDE DEF kept, room
<1>8. Len(room) \in Nat
  BY <1>4, <1>5, <1>6
<1>9. Used(room) + SummaryBytes <= MaxBytes /\ Len(room) < MaxRecords
  BY <1>5 DEF Room
<1>. DEFINE d == [i \in 1..(N - m) |-> e[m + i]]
<1>10. d \in [1..(N - m) -> 1..L]
  BY <1>5, <1>6
<1>11. \A i \in 1..(N - m) : d[i] = e[m + i] /\ m + i \in 1..N /\ kept[m + i] = records[d[i]]
                             /\ ~Expired(records[d[i]])
  BY <1>5
<1>. HIDE DEF d
<1>12. Leaves(room, d)
  <2>1. ASSUME NEW i \in 1..(N - m), NEW j \in 1..(N - m), i < j PROVE d[i] < d[j]
    <3>1. m + i < m + j
      BY <1>6, <2>1
    <3>. DEFINE u == m + i
                v == m + j
    <3>2. u \in 1..N /\ v \in 1..N /\ u < v
      BY <1>11, <3>1
    <3>. HIDE DEF u, v
    <3>3. e[u] < e[v]
      BY <1>5, <3>2 DEF Increasing
    <3>. QED
      BY <1>11, <3>3 DEF u, v
  <2>2. Increasing(d, Len(room), L)
    BY <1>5, <1>10, <2>1 DEF Increasing
  <2>. QED
    BY <1>5, <1>11, <2>2 DEF Leaves
<1>13. /\ oldest \in Seq(T) /\ Len(oldest) = m
       /\ \A i \in 1..m : oldest[i] = kept[i] /\ i \in 1..N
  <2>1. N - Len(room) = m
    <3>1. \A u, v \in Int : u - (u - v) = v
      OBVIOUS
    <3>2. N \in Int /\ m \in Int
      BY <1>6
    <3>3. N - (N - m) = m
      BY <3>1, <3>2
    <3>. QED
      BY <1>5, <3>3
  <2>2. oldest = SubSeq(kept, 1, m)
    BY <2>1
  <2>. HIDE DEF T
  <2>. QED
    BY <1>2, <1>4, <2>2, Prefix
<1>. HIDE DEF oldest
<1>14. p \in Seq(Forgotten(begun))
  BY PruneReasonsFacts
<1>15. /\ c \in Seq(Forgotten(begun))
       /\ \A x : In(x, c) => \E i \in 1..Len(oldest) : x = [id |-> oldest[i].id, cause |-> "capacity"]
  <2>1. "capacity" \in Causes
    BY DEF Causes
  <2>. QED
    BY <1>13, <2>1, ReasonsFacts
<1>. HIDE DEF p, c
<1>. DEFINE rp == removed \o p
<1>16. rp \in Seq(Forgotten(begun))
  BY <1>1, <1>14
<1>17. reasons = rp \o c
  OBVIOUS
<1>18. \A x : In(x, rp) => In(x, removed) \/ In(x, p)
  BY <1>1, <1>14, InConcat
<1>. HIDE DEF rp, reasons
<1>19. reasons \in Seq(Forgotten(begun)) /\ \A x : In(x, reasons) => In(x, rp) \/ In(x, c)
  BY <1>15, <1>16, <1>17, InConcat
<1>20. ASSUME NEW i \in 1..Len(room)
       PROVE  room[i].id = records[d[i]].id /\ d[i] \in 1..L
  <2>1. d[i] \in 1..L /\ (room[i] = records[d[i]] \/ room[i] = Drop(records[d[i]], "evicted"))
    BY <1>5, <1>10, <1>12 DEF Leaves
  <2>2. records[d[i]] \in Artifacts(begun, now)
    BY <1>1, <2>1
  <2>3. Drop(records[d[i]], "evicted").id = records[d[i]].id
    BY <2>2, Dropped DEF Reasons
  <2>. QED
    BY <2>1, <2>3
<1>21. ASSUME NEW x, In(x, reasons), NEW i \in 1..Len(room) PROVE x.id # room[i].id
  <2>1. CASE In(x, removed)
    BY <1>20, <2>1, StoreFacts
  <2>2. CASE In(x, p)
    <3>1. PICK j \in 1..L : Expired(records[j]) /\ x = [id |-> records[j].id, cause |-> "expired"]
      BY <2>2, PruneReasonsFacts DEF p
    <3>2. ASSUME records[j].id = records[d[i]].id PROVE FALSE
      <4>1. j = d[i]
        BY <1>20, <3>2, StoreFacts
      <4>. QED
        BY <1>5, <1>11, <3>1, <4>1
    <3>. QED
      BY <1>20, <3>1, <3>2
  <2>3. CASE In(x, c)
    <3>1. PICK j \in 1..m : x = [id |-> oldest[j].id, cause |-> "capacity"]
      BY <1>13, <1>15, <2>3
    <3>2. oldest[j] = records[e[j]] /\ j \in 1..N /\ e[j] \in 1..L
      BY <1>5, <1>6, <1>13
    <3>3. ASSUME records[e[j]].id = records[d[i]].id PROVE FALSE
      <4>1. e[j] = d[i]
        BY <1>20, <3>2, <3>3, StoreFacts
      <4>2. d[i] = e[m + i] /\ m + i \in 1..N
        BY <1>5, <1>11
      <4>3. j = m + i
        BY <1>1, <1>5, <1>6, <3>2, <4>1, <4>2, IncreasingInjective
      <4>. QED
        BY <1>6, <4>3
    <3>. QED
      BY <1>20, <3>1, <3>2, <3>3
  <2>. QED
    BY <1>18, <1>19, <1>21, <2>1, <2>2, <2>3
<1>22. ASSUME NEW x, In(x, reasons) PROVE In(x, removed) \/ In(x, p) \/ x.cause = "capacity"
  BY <1>15, <1>18, <1>19, <1>22
<1>23. /\ room \in Seq(Artifacts(begun, now))
       /\ Used(room) + SummaryBytes <= MaxBytes
       /\ Len(room) < MaxRecords
       /\ \E f : Leaves(room, f)
       /\ reasons \in Seq(Forgotten(begun))
       /\ \A x : In(x, reasons) => \A i \in 1..Len(room) : x.id # room[i].id
       /\ \A x : In(x, reasons) => In(x, removed) \/ In(x, p) \/ x.cause = "capacity"
  BY <1>5, <1>9, <1>12, <1>19, <1>21, <1>22
<1>. QED
  BY <1>23 DEF reasons, rp, c, p, oldest, room, kept

LEMMA BeginInv ==
    ASSUME StoreInv, Begin
    PROVE  StoreInv'
<1>. DEFINE T == Artifacts(begun, now)
            b == begun + 1
            U == Artifacts(b, now)
            L == Len(records)
            kept == Prune(records)
            room == Reserve(kept)
            oldest == SubSeq(kept, 1, Len(kept) - Len(room))
            reasons == removed \o PruneReasons(records) \o ReasonsOf(oldest, "capacity")
            a == NewArtifact(b)
            w == [op |-> "run", id |-> b, pending |-> <<>>]
<1>1. /\ work = Idle /\ begun < MaxIds /\ begun' = b /\ now' = now
      /\ records' = Append(room, a)
      /\ removed' = Latest(reasons)
      /\ work' = w
  BY DEF Begin, NewArtifact
<1>2. /\ room \in Seq(T)
      /\ Used(room) + SummaryBytes <= MaxBytes
      /\ Len(room) < MaxRecords
      /\ \E d : Leaves(room, d)
      /\ reasons \in Seq(Forgotten(begun))
      /\ \A x : In(x, reasons) => \A k \in 1..Len(room) : x.id # room[k].id
  BY BegunFacts
<1>. HIDE DEF room, reasons
<1>3. PICK d : Leaves(room, d)
  BY <1>2
<1>4. /\ begun \in Nat /\ now \in 0..MaxNow /\ now \in Nat /\ begun <= MaxIds /\ L \in Nat
      /\ \A i \in 1..L : records[i] \in T /\ GoodRecord(records[i], Idle)
  BY <1>1, StoreFacts, StoreConstants
<1>5. /\ b \in 0..MaxIds /\ b \in 1..b /\ b \in Nat /\ now \in 0..now /\ begun <= b /\ now <= now
      /\ 1..begun \subseteq 1..b /\ b \notin 1..begun
  BY <1>1, <1>4, StoreConstants
<1>. HIDE DEF b
<1>6. a \in U
  BY <1>5, EmptyList DEF NewArtifact, Artifacts, Reasons
<1>7. /\ a.id = b /\ a.files = <<>> /\ a.given = <<>> /\ a.reason = "none" /\ a.created = a.done
  BY DEF NewArtifact
<1>. HIDE DEF a
<1>8. w \in Works(b) /\ w.op = "run" /\ w.id = b
  <2>1. b \in 0..b
    BY <1>5
  <2>. QED
    BY <2>1, EmptyList DEF Works
<1>. HIDE DEF w
<1>9. \A k \in 1..Len(room) : room[k] \in T /\ room[k] \in U
  BY <1>2, <1>4, <1>5, ArtifactsGrow
<1>10. room \in Seq(U)
  <2>1. Len(room) \in Nat /\ room \in [1..Len(room) -> T]
    BY <1>2
  <2>. HIDE DEF T, U
  <2>. QED
    BY <1>9, <2>1
<1>11. /\ records' \in Seq(U) /\ Len(records') = Len(room) + 1
       /\ records'[Len(room) + 1] = a
       /\ \A k \in 1..Len(room) : records'[k] = room[k]
       /\ Len(room) \in Nat
       /\ \A k \in 1..(Len(room) + 1) : k = Len(room) + 1 \/ k \in 1..Len(room)
  <2>1. Len(room) \in Nat
    BY <1>2
  <2>. HIDE DEF U
  <2>. QED
    BY <1>1, <1>6, <1>10, <2>1
<1>12. Used(records') <= MaxBytes /\ Len(records') <= MaxRecords
  <2>1. Used(records') = Used(room) + SummaryBytes
    <3>1. Size(a) = SummaryBytes
      BY <1>7, SizeBare
    <3>. QED
      BY <1>1, <1>6, <1>10, <3>1, UsedAppend
  <2>. QED
    BY <1>2, <1>11, <2>1, StoreConstants
<1>13. /\ removed' \in Seq(Forgotten(begun)) /\ Len(removed') <= MaxRecords
       /\ \A x : In(x, removed') => In(x, reasons)
  BY <1>1, <1>2, LatestFacts
<1>14. /\ removed' \in Seq(Forgotten(b))
       /\ \A x : In(x, removed') => x.id \in 1..begun
  <2>1. \A x \in Forgotten(begun) : x \in Forgotten(b) /\ x.id \in 1..begun
    BY <1>5 DEF Forgotten
  <2>2. Len(removed') \in Nat /\ removed' \in [1..Len(removed') -> Forgotten(begun)]
    BY <1>13
  <2>3. \A i \in 1..Len(removed') : removed'[i] \in Forgotten(begun)
    BY <2>2
  <2>. DEFINE F == Forgotten(b)
              G == Forgotten(begun)
  <2>4. removed' \in Seq(F)
    <3>. HIDE DEF F
    <3>1. \A i \in 1..Len(removed') : removed'[i] \in F
      BY <2>1, <2>3 DEF F
    <3>. QED
      BY <2>2, <3>1
  <2>. QED
    BY <2>1, <2>3, <2>4 DEF In
<1>15. ASSUME NEW k \in 1..Len(room)
       PROVE  /\ d[k] \in 1..L
              /\ room[k].id = records[d[k]].id
              /\ room[k].id \in 1..begun
              /\ GoodRecord(room[k], w)
  <2>1. d[k] \in 1..L /\ (room[k] = records[d[k]] \/ room[k] = Drop(records[d[k]], "evicted"))
    BY <1>3 DEF Leaves, Increasing
  <2>. DEFINE r == records[d[k]]
  <2>2. r \in Artifacts(begun, now) /\ GoodRecord(r, Idle)
    BY <1>4, <2>1
  <2>3. r.id \in 1..begun /\ r.id # Idle.id /\ r.id # w.id
    <3>1. r.id \in 1..begun
      BY <2>2 DEF Artifacts
    <3>2. Idle.id = 0
      BY IdleWork
    <3>. HIDE DEF r
    <3>. QED
      BY <1>4, <1>5, <1>8, <3>1, <3>2
  <2>4. GoodRecord(r, w)
    BY <2>2, <2>3, OtherGood
  <2>5. Drop(r, "evicted").id = r.id /\ GoodRecord(Drop(r, "evicted"), w)
    BY <2>2, <2>3, <2>4, Dropped, EvictedGood DEF Reasons
  <2>. QED
    BY <2>1, <2>3, <2>4, <2>5
<1>16. GoodRecord(a, w)
  BY <1>7, <1>8 DEF GoodRecord
<1>17. \A j \in 1..Len(records') : GoodRecord(records'[j], work')
  BY <1>1, <1>11, <1>15, <1>16
<1>18. ASSUME NEW x, In(x, removed'), NEW j \in 1..Len(records') PROVE x.id # records'[j].id
  <2>1. CASE j = Len(room) + 1
    BY <1>5, <1>7, <1>11, <1>14, <1>18, <2>1
  <2>2. CASE j \in 1..Len(room)
    BY <1>2, <1>11, <1>13, <1>18, <2>2
  <2>. QED
    BY <1>11, <2>1, <2>2
<1>19. ASSUME NEW i \in 1..Len(records'), NEW j \in 1..Len(records'), records'[i].id = records'[j].id
       PROVE  i = j
  <2>1. CASE i \in 1..Len(room) /\ j \in 1..Len(room)
    <3>1. d[i] \in 1..L /\ d[j] \in 1..L /\ records[d[i]].id = records[d[j]].id
      BY <1>11, <1>15, <1>19, <2>1
    <3>2. d[i] = d[j]
      BY <3>1, StoreFacts
    <3>. QED
      BY <1>3, <1>4, <1>11, <2>1, <3>2, IncreasingInjective DEF Leaves
  <2>2. CASE i = Len(room) + 1 \/ j = Len(room) + 1
    BY <1>5, <1>7, <1>11, <1>15, <1>19, <2>2
  <2>. QED
    BY <1>11, <2>1, <2>2
<1>20. \E i \in 1..Len(records') : records'[i].id = work'.id
  <2>1. Len(room) + 1 \in 1..Len(records')
    BY <1>11
  <2>. QED
    BY <1>1, <1>7, <1>8, <1>11, <2>1
<1>21. /\ now' \in 0..MaxNow /\ begun' \in 0..MaxIds
       /\ records' \in Seq(Artifacts(begun', now')) /\ removed' \in Seq(Forgotten(begun'))
       /\ work' \in Works(begun') /\ work'.op = "run"
  BY <1>1, <1>4, <1>5, <1>8, <1>11, <1>14
<1>. QED
  BY <1>12, <1>13, <1>17, <1>18, <1>19, <1>20, <1>21, StoreInvNext

LEMMA StoreInitInv ==
    ASSUME StoreInit
    PROVE  StoreInv
<1>1. /\ now = 0 /\ records = <<>> /\ removed = <<>> /\ begun = 0 /\ work = Idle
  BY DEF StoreInit
<1>2. Used(records) <= MaxBytes
  BY <1>1, UsedEmpty, StoreConstants
<1>3. /\ 0 \in 0..MaxNow /\ 0 \in 0..MaxIds /\ 0 \in 0..begun
  BY <1>1, StoreConstants
<1>4. StoreTypeOK
  <2>1. work \in [op : {"none", "run", "store", "draw"}, id : 0..begun, pending : FileLists]
    BY <1>1, <1>3, EmptyList DEF Idle
  <2>2. records \in Seq(Artifact) /\ removed \in Seq([id : 1..begun, cause : Causes])
    BY <1>1
  <2>. QED
    BY <1>1, <1>3, <2>1, <2>2 DEF StoreTypeOK
<1>5. WithinQuota
  BY <1>1, <1>2, StoreConstants DEF WithinQuota
<1>6. WholeOrNoDetails /\ Indexed
  BY <1>1 DEF WholeOrNoDetails, Indexed
<1>7. Working
  BY <1>1 DEF Working, Idle
<1>. QED
  BY <1>4, <1>5, <1>6, <1>7 DEF StoreInv

LEMMA StoreNextInv ==
    ASSUME StoreInv, StoreNext
    PROVE  StoreInv'
<1>1. ASSUME NEW id \in 1..begun, Draw(id) \/ \E own \in BOOLEAN : Read(id, own)
      PROVE  StoreInv'
  BY <1>1, VisualizeInv, ReadInv
<1>2. ASSUME NEW files \in FileLists, Finish(files) \/ SummaryIOError(files)
      PROVE  StoreInv'
  BY <1>2, FinishInv
<1>3. ASSUME NEW size \in Sizes, AddImage(size) PROVE StoreInv'
  BY <1>3, AddImageInv
<1>4. CASE Begin
  BY <1>4, BeginInv
<1>5. CASE Fails
  BY <1>5, FailsInv
<1>6. CASE StoreFile
  BY <1>6, StoreFileInv
<1>7. CASE StorageLimit \/ FileIOError
  BY <1>7, StoreNoneInv
<1>8. CASE Finished \/ DrawFails
  BY <1>8, EndOfWorkInv
<1>9. CASE Tick
  BY <1>9, TickInv
<1>. QED
  BY <1>1, <1>2, <1>3, <1>4, <1>5, <1>6, <1>7, <1>8, <1>9 DEF StoreNext

LEMMA StoreStutter ==
    ASSUME StoreInv, UNCHANGED storeVars
    PROVE  StoreInv'
BY DEF storeVars, StoreInv, StoreTypeOK, Artifact, WithinQuota,
       WholeOrNoDetails, Indexed, Working, Live, InProgress

\* The invariant of the store, whatever the calls of it and the time that passes.
THEOREM StoreSafe == StoreSpec => []StoreInv
<1>1. StoreInit => StoreInv
  BY StoreInitInv
<1>2. StoreInv /\ [StoreNext]_storeVars => StoreInv'
  BY StoreNextInv, StoreStutter
<1>. QED
  BY <1>1, <1>2, PTL DEF StoreSpec

\* The accounted bytes never exceed the quota, nor the artifacts and the reasons their
\* number.
THEOREM StoreWithinQuota == StoreSpec => []WithinQuota
<1>1. StoreInv => WithinQuota
  BY DEF StoreInv
<1>. QED
  BY <1>1, StoreSafe, PTL

\* No failure halfway leaves a part of an artifact's details.
THEOREM StoreWholeOrNoDetails == StoreSpec => []WholeOrNoDetails
<1>1. StoreInv => WholeOrNoDetails
  BY DEF StoreInv
<1>. QED
  BY <1>1, StoreSafe, PTL

-----------------------------------------------------------------------------
(* What the steps of the store forget and evict.                           *)

(* Room is made for size at the cost of the details of the first c records, in  *)
(* their place; then the call's own artifact may change.                        *)
ShedsInPlace(size, c) ==
    LET made == EvictFirst(records, c, work.id)
    IN  /\ c \in 0..Len(records)
        /\ \A j \in 0..Len(records) :
              j < c => ~Room(EvictFirst(records, j, work.id), size)
        /\ Len(records') = Len(records)
        /\ \A i \in 1..Len(records) :
              /\ records'[i].id = records[i].id
              /\ records[i].id # work.id => records'[i] = made[i]
              /\ records[i].id = work.id => records'[i].reason # "evicted"
        /\ \/ Used(records') = Used(made) + size
           \/ \A i \in 1..Len(records) :
                 records[i].id = work.id => Len(records'[i].files) <= Len(records[i].files)

(* Nothing is evicted, and nothing forgotten but the call's own artifact and the expired. *)
NothingShed ==
    /\ \A k \in 1..Len(records') :
          records'[k].reason # "evicted" \/ \E j \in 1..Len(records) : records'[k] = records[j]
    /\ \A i \in 1..Len(records) :
          \/ \E k \in 1..Len(records') : records'[k].id = records[i].id
          \/ records[i].id = work.id
          \/ Expired(records[i])

LEMMA SwapSheds ==
    ASSUME StoreInv, work.op # "none",
           NEW i \in 1..Len(records), records[i].id = work.id,
           NEW size \in Nat, NEW s \in Artifacts(begun, now), s.id = work.id, s.reason # "evicted",
           records' = With(MakeRoom(records, size, work.id), s),
           \/ Size(s) = Size(records[i]) + size
           \/ Len(s.files) <= Len(records[i].files)
    PROVE  \E c \in Nat : ShedsInPlace(size, c)
<1>. DEFINE T == Artifacts(begun, now)
            made == MakeRoom(records, size, work.id)
            L == Len(records)
<1>1. /\ records \in Seq(T) /\ L \in Nat
      /\ \A j \in 1..L : records[j].id = records[i].id => j = i
  BY StoreFacts
<1>2. PICK c \in 0..L :
         /\ made = EvictFirst(records, c, work.id)
         /\ \A j \in 0..L : j < c => ~Room(EvictFirst(records, j, work.id), size)
  BY <1>1, RoomMade
<1>3. /\ made \in Seq(T) /\ Len(made) = L
      /\ \A j \in 1..L : made[j].id = records[j].id
      /\ made[i] = records[i]
  BY MadeFacts
<1>4. records' = With(made, s)
  OBVIOUS
<1>. HIDE DEF made
<1>5. /\ i \in 1..Len(made) /\ s.id = made[i].id
      /\ \A j \in 1..Len(made) : made[j].id = made[i].id => j = i
  BY <1>1, <1>3
<1>6. /\ Len(records') = L
      /\ records'[i] = s
      /\ \A j \in 1..L : j # i => records'[j] = made[j]
      /\ Used(records') + Size(made[i]) = Used(made) + Size(s)
      /\ Used(records') \in Nat /\ Used(made) \in Nat
      /\ Size(s) \in Nat /\ Size(made[i]) \in Nat
  <2>. DEFINE out == With(made, s)
  <2>1. /\ Len(out) = Len(made)
        /\ out[i] = s
        /\ \A j \in 1..Len(made) : j # i => out[j] = made[j]
        /\ Used(out) + Size(made[i]) = Used(made) + Size(s)
        /\ Used(out) \in Nat /\ Used(made) \in Nat
        /\ Size(s) \in Nat /\ Size(made[i]) \in Nat
    BY <1>3, <1>5, Swapped
  <2>2. records' = out
    BY <1>4
  <2>. HIDE DEF out
  <2>. QED
    BY <1>3, <2>1, <2>2
<1>7. ASSUME Size(s) = Size(records[i]) + size
      PROVE  Used(records') = Used(made) + size
  <2>. DEFINE u == Used(records')
              v == Used(made)
              x == Size(records[i])
              y == Size(s)
  <2>1. u \in Nat /\ v \in Nat /\ x \in Nat /\ y = x + size /\ u + x = v + y /\ size \in Nat
    BY <1>3, <1>6, <1>7
  <2>. HIDE DEF u, v, x, y
  <2>2. u = v + size
    BY <2>1
  <2>. QED
    BY <2>2 DEF u, v
<1>8. \A j \in 1..L :
         /\ records'[j].id = records[j].id
         /\ records[j].id # work.id => records'[j] = made[j]
         /\ records[j].id = work.id => records'[j] = s
  BY <1>1, <1>3, <1>5, <1>6
<1>9. \/ Used(records') = Used(made) + size
      \/ \A j \in 1..L : records[j].id = work.id => Len(records'[j].files) <= Len(records[j].files)
  BY <1>1, <1>7, <1>8
<1>10. /\ \A j \in 1..L :
             /\ records'[j].id = records[j].id
             /\ records[j].id # work.id => records'[j] = EvictFirst(records, c, work.id)[j]
             /\ records[j].id = work.id => records'[j].reason # "evicted"
       /\ \/ Used(records') = Used(EvictFirst(records, c, work.id)) + size
          \/ \A j \in 1..L : records[j].id = work.id => Len(records'[j].files) <= Len(records[j].files)
  BY <1>2, <1>8, <1>9
<1>11. ShedsInPlace(size, c)
  BY <1>2, <1>6, <1>10 DEF ShedsInPlace
<1>. QED
  BY <1>1, <1>2, <1>11

LEMMA StoringSheds ==
    ASSUME StoreInv, StoreFile \/ StorageLimit \/ FileIOError
    PROVE  \E size, c \in Nat : ShedsInPlace(size, c)
<1>1. /\ work.op = "store" /\ work.pending # <<>>
      /\ \/ records' = With(Made,
                          [TheRecord(work.id) EXCEPT !.files = Append(@, Head(work.pending))])
         \/ \E reason \in {"storage_limit", "storage_io_error"} :
               records' = With(Made, Drop(TheRecord(work.id), reason))
  BY DEF StoreFile, StorageLimit, FileIOError
<1>2. PICK i \in 1..Len(records) :
         records[i].id = work.id /\ TheRecord(work.id) = records[i]
  BY <1>1, WorkRecord
<1>. DEFINE r == records[i]
            x == Head(work.pending)
            f == [r EXCEPT !.files = Append(@, x)]
<1>3. r \in Artifacts(begun, now) /\ GoodRecord(r, work) /\ work \in Works(begun)
  BY StoreFacts
<1>4. r.files \in FileLists /\ r.given \in FileLists /\ work.pending \in FileLists
  BY <1>3 DEF Artifacts, Works
<1>5. r.reason = "none" /\ r.given = r.files \o work.pending
  BY <1>1, <1>2, <1>3 DEF GoodRecord
<1>6. x \in Sizes /\ Append(r.files, x) \in FileLists
  BY <1>1, <1>4, <1>5, PendingFile
<1>7. Needed = x + EntryBytes /\ Needed \in Nat
  BY <1>6, StoreConstants DEF Needed
<1>8. CASE records' = With(Made, f)
  <2>1. /\ f \in Artifacts(begun, now) /\ f.id = work.id /\ f.reason = "none"
        /\ f.files = Append(r.files, x)
    BY <1>2, <1>3, <1>5, <1>6 DEF Artifacts
  <2>. HIDE DEF f
  <2>2. Size(f) = Size(r) + Needed
    BY <1>4, <1>6, <1>7, <2>1, SizeGrown
  <2>3. \E c \in Nat : ShedsInPlace(Needed, c)
    BY <1>1, <1>2, <1>7, <1>8, <2>1, <2>2, SwapSheds DEF Made
  <2>. QED
    BY <1>7, <2>3
<1>9. ASSUME NEW reason \in {"storage_limit", "storage_io_error"},
             records' = With(Made, Drop(r, reason))
      PROVE  \E size, c \in Nat : ShedsInPlace(size, c)
  <2>. DEFINE g == Drop(r, reason)
  <2>1. g \in Artifacts(begun, now) /\ g.id = work.id /\ g.reason = reason /\ g.files = <<>>
    BY <1>2, <1>3, Dropped DEF Reasons
  <2>2. records' = With(Made, g)
    BY <1>9
  <2>. HIDE DEF g
  <2>3. Len(g.files) <= Len(r.files)
    <3>1. r.files \in Seq(Sizes)
      BY <1>4, FileList
    <3>. QED
      BY <2>1, <3>1
  <2>4. \E c \in Nat : ShedsInPlace(Needed, c)
    BY <1>1, <1>2, <1>7, <2>1, <2>2, <2>3, SwapSheds DEF Made
  <2>. QED
    BY <1>7, <2>4
<1>. QED
  BY <1>1, <1>2, <1>8, <1>9

LEMMA ImageSheds ==
    ASSUME StoreInv, NEW size \in Sizes, AddImage(size)
    PROVE  \E need, c \in Nat : ShedsInPlace(need, c)
<1>. DEFINE need == size + EntryBytes
            made == MakeRoom(records, need, work.id)
            L == Len(records)
<1>1. work.op = "draw"
  BY DEF AddImage
<1>2. PICK i \in 1..L :
         /\ records[i].id = work.id /\ TheRecord(work.id) = records[i]
         /\ \A j \in 1..L : records[j].id = work.id => j = i
  BY <1>1, WorkRecord
<1>. DEFINE r == records[i]
            s == [r EXCEPT !.files = Append(@, size), !.given = Append(@, size)]
<1>3. /\ records \in Seq(Artifacts(begun, now)) /\ L \in Nat
      /\ r \in Artifacts(begun, now) /\ GoodRecord(r, work)
  BY StoreFacts
<1>4. r.reason = "none" /\ r.files = r.given /\ Len(r.files) < MaxFiles /\ r.files \in FileLists
  BY <1>1, <1>2, <1>3 DEF GoodRecord, Artifacts
<1>5. Append(r.files, size) \in FileLists
  <2>1. r.files \in Seq(Sizes)
    BY <1>4, FileList
  <2>. DEFINE a == Append(r.files, size)
  <2>2. a \in Seq(Sizes) /\ Len(a) <= MaxFiles
    BY <1>4, <2>1, StoreConstants
  <2>. HIDE DEF a
  <2>3. a \in FileLists
    BY <2>2, FileList
  <2>. QED
    BY <2>3 DEF a
<1>6. need \in Nat
  BY StoreConstants
<1>7. CASE records' = made
  <2>1. PICK c \in 0..L :
           /\ made = EvictFirst(records, c, work.id)
           /\ \A j \in 0..L : j < c => ~Room(EvictFirst(records, j, work.id), need)
    BY <1>3, RoomMade
  <2>2. /\ Len(made) = L
        /\ \A j \in 1..L : /\ made[j].id = records[j].id
                           /\ records[j].id = work.id => made[j] = records[j]
    BY <1>1, MadeFacts
  <2>. HIDE DEF made, need
  <2>3. \A j \in 1..L : records[j].id = work.id =>
           records'[j].reason # "evicted" /\ Len(records'[j].files) <= Len(records[j].files)
    <3>1. r.files \in Seq(Sizes)
      BY <1>4, FileList
    <3>2. Len(r.files) <= Len(r.files)
      BY <3>1
    <3>. QED
      BY <1>2, <1>4, <1>7, <2>2, <3>2
  <2>4. ShedsInPlace(need, c)
    BY <1>7, <2>1, <2>2, <2>3 DEF ShedsInPlace
  <2>. QED
    BY <1>3, <1>6, <2>1, <2>4
<1>8. CASE records' = With(made, s)
  <2>1. /\ s \in Artifacts(begun, now) /\ s.id = work.id /\ s.reason = "none"
        /\ s.files = Append(r.files, size)
    BY <1>2, <1>3, <1>4, <1>5 DEF Artifacts
  <2>. HIDE DEF s
  <2>2. Size(s) = Size(r) + need
    BY <1>4, <2>1, SizeGrown
  <2>. HIDE DEF need
  <2>3. \E c \in Nat : ShedsInPlace(need, c)
    BY <1>1, <1>2, <1>6, <1>8, <2>1, <2>2, SwapSheds
  <2>. QED
    BY <1>6, <2>3
<1>. QED
  BY <1>2, <1>7, <1>8 DEF AddImage

LEMMA UnshedAccess ==
    ASSUME StoreInv, NEW id, NEW own \in BOOLEAN, records' = Accessed(id, own)
    PROVE  NothingShed
<1>. DEFINE q == Accessed(id, own)
<1>1. \E d : /\ Picks(q, d)
             /\ \A i \in 1..Len(records) : ~Expired(records[i]) =>
                   \E k \in 1..Len(q) : d[k] = i
  BY AccessedFacts
<1>2. records' = q
  OBVIOUS
<1>. HIDE DEF q
<1>3. PICK d : /\ Picks(q, d)
               /\ \A i \in 1..Len(records) : ~Expired(records[i]) =>
                     \E k \in 1..Len(q) : d[k] = i
  BY <1>1
<1>4. \A k \in 1..Len(records') : \E j \in 1..Len(records) : records'[k] = records[j]
  BY <1>2, <1>3 DEF Picks
<1>5. ASSUME NEW i \in 1..Len(records), ~Expired(records[i])
      PROVE  \E k \in 1..Len(records') : records'[k].id = records[i].id
  BY <1>2, <1>3, <1>5 DEF Picks
<1>. QED
  BY <1>4, <1>5 DEF NothingShed

LEMMA UnshedFails ==
    ASSUME StoreInv, Fails
    PROVE  NothingShed
<1>. DEFINE q == Without(records, work.id)
<1>1. records \in Seq(Artifacts(begun, now))
  BY StoreFacts
<1>2. \E e : /\ Increasing(e, Len(q), Len(records))
             /\ \A k \in 1..Len(q) : q[k] = records[e[k]]
             /\ \A i \in 1..Len(records) : records[i].id # work.id => \E k \in 1..Len(q) : e[k] = i
  BY <1>1, WithoutFacts
<1>. HIDE DEF q
<1>3. records' = q
  BY DEF Fails, q
<1>. QED
  BY <1>2, <1>3 DEF Increasing, NothingShed

LEMMA UnshedFinish ==
    ASSUME StoreInv, NEW files \in FileLists,
           Finish(files) \/ SummaryIOError(files)
    PROVE  NothingShed
<1>1. work.op = "run"
  BY DEF Finish, SummaryIOError
<1>2. PICK i \in 1..Len(records) :
         /\ records[i].id = work.id
         /\ TheRecord(work.id) = records[i]
         /\ \A j \in 1..Len(records) : records[j].id = work.id => j = i
  BY <1>1, WorkRecord
<1>. DEFINE T == Artifacts(begun, now)
            c == Completed(files)
            d == Drop(c, "storage_io_error")
<1>3. records \in Seq(T) /\ records[i] \in T /\ GoodRecord(records[i], work) /\ now \in Nat
  BY StoreFacts
<1>4. c \in T /\ c.id = work.id /\ c.reason = "none"
  <2>1. c = [records[i] EXCEPT !.created = now, !.done = now, !.given = files]
    BY <1>2 DEF Completed
  <2>2. now \in 0..now
    BY <1>3
  <2>3. records[i].reason = "none"
    BY <1>1, <1>2, <1>3 DEF GoodRecord
  <2>. QED
    BY <1>2, <1>3, <2>1, <2>2, <2>3 DEF Artifacts
<1>. HIDE DEF c
<1>5. d \in T /\ d.id = work.id /\ d.reason = "storage_io_error"
  BY <1>4, Dropped DEF Reasons
<1>6. records' = With(records, c) \/ records' = With(records, d)
  BY DEF Finish, SummaryIOError, c, d
<1>. HIDE DEF d
<1>7. ASSUME NEW s \in T, s.id = work.id, s.reason # "evicted", records' = With(records, s)
      PROVE  NothingShed
  <2>1. /\ Len(records') = Len(records)
        /\ \A j \in 1..Len(records) :
              /\ records[j].id = s.id => records'[j] = s
              /\ records[j].id # s.id => records'[j] = records[j]
    <3>. DEFINE out == With(records, s)
    <3>1. /\ Len(out) = Len(records)
          /\ \A j \in 1..Len(records) : out[j] = IF records[j].id = s.id THEN s ELSE records[j]
      BY <1>3, Replaced
    <3>2. records' = out
      BY <1>7
    <3>. HIDE DEF out
    <3>. QED
      BY <3>1, <3>2
  <2>2. \A j \in 1..Len(records) :
           (records'[j].reason # "evicted" \/ records'[j] = records[j]) /\ records'[j].id = records[j].id
    BY <1>7, <2>1
  <2>. QED
    BY <2>1, <2>2 DEF NothingShed
<1>. QED
  BY <1>4, <1>5, <1>6, <1>7

(* Every step of the store is one of three kinds. *)
LEMMA ThreeKinds ==
    ASSUME StoreInv, [StoreNext]_storeVars
    PROVE  \/ Begin
           \/ NothingShed
           \/ \E size, c \in Nat : ShedsInPlace(size, c)
<1>1. ASSUME records' = records PROVE NothingShed
  BY <1>1 DEF NothingShed
<1>2. CASE Finished \/ DrawFails \/ Tick \/ UNCHANGED storeVars
  BY <1>1, <1>2 DEF Finished, DrawFails, Tick, storeVars
<1>3. ASSUME NEW id \in 1..begun, Draw(id) \/ \E own \in BOOLEAN : Read(id, own)
      PROVE  NothingShed
  BY <1>3, UnshedAccess DEF Draw, Read
<1>4. ASSUME NEW files \in FileLists, Finish(files) \/ SummaryIOError(files)
      PROVE  NothingShed
  BY <1>4, UnshedFinish
<1>5. ASSUME NEW size \in Sizes, AddImage(size)
      PROVE  \E need, c \in Nat : ShedsInPlace(need, c)
  BY <1>5, ImageSheds
<1>6. CASE Fails
  BY <1>6, UnshedFails
<1>7. CASE StoreFile \/ StorageLimit \/ FileIOError
  BY <1>7, StoringSheds
<1>. QED
  BY <1>2, <1>3, <1>4, <1>5, <1>6, <1>7 DEF StoreNext

(* What was forgotten and why. *)
LEMMA ForgottenWhy ==
    ASSUME StoreInv, [StoreNext]_storeVars, NEW x, In(x, removed')
    PROVE  In(x, removed) \/ In(x, PruneReasons(records)) \/ x.cause \in {"capacity", "failed"}
<1>. DEFINE F == Forgotten(begun)
            p == PruneReasons(records)
<1>1. removed \in Seq(F) /\ p \in Seq(F)
  BY StoreFacts, PruneReasonsFacts
<1>2. CASE removed' = removed
  BY <1>2
<1>3. CASE Begin
  <2>. DEFINE kept == Prune(records)
              room == Reserve(kept)
              oldest == SubSeq(kept, 1, Len(kept) - Len(room))
              reasons == removed \o p \o ReasonsOf(oldest, "capacity")
  <2>1. removed' = Latest(reasons)
    BY <1>3 DEF Begin
  <2>2. /\ reasons \in Seq(F)
        /\ \A y : In(y, reasons) => In(y, removed) \/ In(y, p) \/ y.cause = "capacity"
    BY BegunFacts
  <2>. HIDE DEF reasons, p, F
  <2>3. In(x, reasons)
    BY <2>1, <2>2, LatestFacts
  <2>. QED
    BY <2>2, <2>3 DEF p
<1>4. CASE Fails
  <2>. DEFINE y == [id |-> work.id, cause |-> "failed"]
              reasons == Append(removed, y)
  <2>1. removed' = Latest(reasons) /\ work.op = "run"
    BY <1>4 DEF Fails
  <2>2. y \in F
    <3>1. PICK i \in 1..Len(records) : records[i].id = work.id
      BY <2>1, StoreFacts
    <3>2. work.id \in 1..begun
      BY <3>1, StoreFacts DEF Artifacts
    <3>. QED
      BY <3>2 DEF Forgotten, Causes
  <2>3. y.cause = "failed"
    OBVIOUS
  <2>. HIDE DEF y, F
  <2>4. reasons \in Seq(F)
    BY <1>1, <2>2
  <2>. HIDE DEF reasons
  <2>5. In(x, reasons)
    BY <2>1, <2>4, LatestFacts
  <2>6. In(x, removed) \/ x = y
    BY <1>1, <2>2, <2>5, InAppend DEF reasons
  <2>. QED
    BY <2>3, <2>6
<1>5. CASE removed' = Latest(removed \o p)
  <2>. DEFINE reasons == removed \o p
  <2>. HIDE DEF p, F
  <2>1. reasons \in Seq(F)
    BY <1>1
  <2>. HIDE DEF reasons
  <2>2. In(x, reasons)
    BY <1>5, <2>1, LatestFacts DEF reasons
  <2>3. In(x, removed) \/ In(x, p)
    BY <1>1, <2>2, InConcat DEF reasons
  <2>. QED
    BY <2>3 DEF p
<1>6. \/ removed' = removed \/ Begin \/ Fails \/ removed' = Latest(removed \o p)
  BY DEF StoreNext, storeVars, Draw, Read, Finish, SummaryIOError, StoreFile, StorageLimit,
         FileIOError, Finished, DrawFails, AddImage, Tick
<1>. QED
  BY <1>2, <1>3, <1>4, <1>5, <1>6

LEMMA RemovedNext ==
    ASSUME StoreInv'
    PROVE  DOMAIN removed' = 1..Len(removed') /\ DOMAIN records' = 1..Len(records')
<1>1. removed' \in Seq([id : 1..begun', cause : Causes]) /\ records' \in Seq(Artifact')
  BY DEF StoreInv, StoreTypeOK
<1>. HIDE DEF Artifact
<1>. QED
  BY <1>1

LEMMA StepExpires ==
    ASSUME StoreInv, [StoreNext]_storeVars, NEW i \in DOMAIN removed',
           removed'[i].cause = "expired", removed'[i].id \in Ids(records)
    PROVE  now - TheRecord(removed'[i].id).done >= Retention
<1>. DEFINE x == removed'[i]
<1>1. StoreInv'
  BY StoreNextInv, StoreStutter
<1>2. In(x, removed')
  BY <1>1, RemovedNext DEF In
<1>3. PICK j \in 1..Len(records) : x.id = records[j].id
  BY StoreFacts DEF Ids
<1>. HIDE DEF x
<1>4. ~In(x, removed)
  BY <1>3, StoreFacts
<1>5. x.cause = "expired"
  BY DEF x
<1>6. In(x, PruneReasons(records))
  BY <1>2, <1>4, <1>5, ForgottenWhy
<1>7. PICK k \in 1..Len(records) :
         Expired(records[k]) /\ x = [id |-> records[k].id, cause |-> "expired"]
  BY <1>6, PruneReasonsFacts
<1>8. x.id = records[k].id
  BY <1>7
<1>9. TheRecord(x.id) = records[k] /\ records[k].created = records[k].done
  BY <1>8, TheOne, StoreFacts DEF GoodRecord
<1>10. now - records[k].created >= Retention
  BY <1>7 DEF Expired
<1>. QED
  BY <1>9, <1>10 DEF x

(* A record that has not expired is younger than the retention. *)
LEMMA Young ==
    ASSUME StoreInv, NEW j \in 1..Len(records), ~Expired(records[j])
    PROVE  now - records[j].done < Retention
<1>1. /\ records[j] \in Artifacts(begun, now) /\ GoodRecord(records[j], work) /\ now \in Nat
  BY StoreFacts
<1>2. records[j].created = records[j].done /\ records[j].created \in 0..now
  BY <1>1 DEF GoodRecord, Artifacts
<1>3. ~(now - records[j].created >= Retention)
  BY DEF Expired
<1>. QED
  BY <1>1, <1>2, <1>3, StoreConstants

LEMMA StepFindsYoung ==
    ASSUME StoreInv, [StoreNext]_storeVars,
           Begin \/ (\E id \in 1..begun, own \in BOOLEAN : Read(id, own)),
           NEW k \in DOMAIN records'
    PROVE  now - records'[k].done < Retention
<1>1. StoreInv'
  BY StoreNextInv, StoreStutter
<1>2. k \in 1..Len(records')
  BY <1>1, RemovedNext
<1>3. ASSUME NEW id \in 1..begun, NEW own \in BOOLEAN, Read(id, own)
      PROVE  now - records'[k].done < Retention
  <2>. DEFINE q == Accessed(id, own)
  <2>1. \E d : Picks(q, d) /\ \A l \in 1..Len(q) : ~Expired(q[l])
    BY AccessedFacts
  <2>2. records' = q
    BY <1>3 DEF Read
  <2>. HIDE DEF q
  <2>3. PICK d : Picks(q, d) /\ \A l \in 1..Len(q) : ~Expired(q[l])
    BY <2>1
  <2>4. d[k] \in 1..Len(records) /\ records'[k] = records[d[k]] /\ ~Expired(records[d[k]])
    BY <1>2, <2>2, <2>3 DEF Picks
  <2>. QED
    BY <2>4, Young
<1>4. CASE Begin
  <2>. DEFINE room == Reserve(Prune(records))
  <2>1. records' = Append(room, NewArtifact(begun + 1))
    BY <1>4 DEF Begin, NewArtifact
  <2>2. room \in Seq(Artifacts(begun, now)) /\ \E d : Leaves(room, d)
    BY BegunFacts
  <2>. HIDE DEF room
  <2>3. PICK d : Leaves(room, d)
    BY <2>2
  <2>4. CASE k \in 1..Len(room)
    <3>1. /\ records'[k] = room[k] /\ d[k] \in 1..Len(records) /\ ~Expired(records[d[k]])
          /\ \/ room[k] = records[d[k]]
             \/ room[k] = Drop(records[d[k]], "evicted")
      <4>1. records'[k] = room[k]
        BY <2>1, <2>2, <2>4
      <4>2. /\ d[k] \in 1..Len(records) /\ ~Expired(records[d[k]])
            /\ \/ room[k] = records[d[k]]
               \/ room[k] = Drop(records[d[k]], "evicted")
        BY <2>3, <2>4 DEF Leaves, Increasing
      <4>. QED
        BY <4>1, <4>2
    <3>2. records[d[k]] \in Artifacts(begun, now)
      BY <3>1, StoreFacts
    <3>3. Drop(records[d[k]], "evicted").done = records[d[k]].done
      BY <3>2, Dropped DEF Reasons
    <3>4. records'[k].done = records[d[k]].done
      BY <3>1, <3>3
    <3>. QED
      BY <3>1, <3>4, Young
  <2>5. CASE k = Len(room) + 1
    <3>1. records'[k].done = now
      BY <2>1, <2>2, <2>5 DEF NewArtifact
    <3>. QED
      BY <3>1, StoreFacts, StoreConstants
  <2>6. Len(records') = Len(room) + 1 /\ Len(room) \in Nat
    BY <2>1, <2>2
  <2>. QED
    BY <1>2, <2>4, <2>5, <2>6
<1>. QED
  BY <1>3, <1>4

\* However long an operation took and however often its artifact was read, the artifact
\* lives for the retention from its completion, and no longer.
THEOREM StoreLifetimeFromCompletion == StoreSpec => LifetimeFromCompletion
<1>1. StoreInv /\ [StoreNext]_storeVars =>
        [/\ \A i \in DOMAIN removed' :
               removed'[i].cause = "expired" /\ removed'[i].id \in Ids(records) =>
                   now - TheRecord(removed'[i].id).done >= Retention
         /\ Begin \/ (\E id \in 1..begun, own \in BOOLEAN : Read(id, own)) =>
               \A k \in DOMAIN records' : now - records'[k].done < Retention]_storeVars
  BY StepExpires, StepFindsYoung
<1>. QED
  BY <1>1, StoreSafe, PTL DEF StoreSpec, LifetimeFromCompletion

-----------------------------------------------------------------------------
(* What a step of the store evicts and forgets, and what for.              *)

(* An artifact that is there before and after a step and loses its details. *)
LEMMA Loses ==
    ASSUME StoreInv, StoreInv', NEW j \in 1..Len(records), LosesDetails(records[j])
    PROVE  /\ records[j].files # <<>> /\ records[j].reason = "none"
           /\ \E k \in 1..Len(records') :
                 records'[k].id = records[j].id /\ records'[k].reason = "evicted"
<1>1. /\ records[j].files # <<>>
      /\ \E k \in 1..Len(records') :
            records'[k].id = records[j].id /\ records'[k].reason = "evicted"
  BY RemovedNext DEF LosesDetails
<1>2. GoodRecord(records[j], work)
  BY StoreFacts
<1>. QED
  BY <1>1, <1>2 DEF GoodRecord

LEMMA UnshedLoses ==
    ASSUME StoreInv, StoreInv', NothingShed, NEW j \in 1..Len(records)
    PROVE  ~LosesDetails(records[j])
<1>. SUFFICES ASSUME LosesDetails(records[j]) PROVE FALSE
  OBVIOUS
<1>1. PICK k \in 1..Len(records') :
         records'[k].id = records[j].id /\ records'[k].reason = "evicted"
  BY Loses
<1>2. PICK l \in 1..Len(records) : records'[k] = records[l]
  BY <1>1 DEF NothingShed
<1>3. l = j
  BY <1>1, <1>2, StoreFacts
<1>. QED
  BY <1>1, <1>2, <1>3, Loses

(* What became of the artifacts where room was made in their places. *)
LEMMA Shed ==
    ASSUME StoreInv, StoreInv', NEW size, NEW c, ShedsInPlace(size, c), NEW i \in 1..Len(records)
    PROVE  /\ i \in 1..Len(records') /\ Len(records') = Len(records)
           /\ records'[i].id = records[i].id
           /\ \A k \in 1..Len(records') : records'[k].id = records[i].id => k = i
           /\ records[i].id # work.id =>
                 /\ i <= c /\ records[i].files # <<>> => records'[i] = Drop(records[i], "evicted")
                 /\ ~(i <= c /\ records[i].files # <<>>) => records'[i] = records[i]
           /\ LosesDetails(records[i]) => i <= c /\ records[i].id # work.id
<1>. DEFINE made == EvictFirst(records, c, work.id)
            L == Len(records)
<1>1. /\ records \in Seq(Artifacts(begun, now)) /\ L \in Nat
      /\ \A j \in 1..L : records[j].id = records[i].id => j = i
  BY StoreFacts
<1>2. /\ c \in 0..L /\ Len(records') = L
      /\ \A j \in 1..L :
            /\ records'[j].id = records[j].id
            /\ records[j].id # work.id => records'[j] = made[j]
            /\ records[j].id = work.id => records'[j].reason # "evicted"
  BY DEF ShedsInPlace
<1>3. made[i] = IF i <= c /\ records[i].id # work.id /\ records[i].files # <<>>
                THEN Drop(records[i], "evicted") ELSE records[i]
  <2>1. c \in Nat
    BY <1>1, <1>2
  <2>. QED
    BY <1>1, <2>1, Evicted
<1>. HIDE DEF made
<1>4. records[i].id # work.id =>
         /\ i <= c /\ records[i].files # <<>> => records'[i] = Drop(records[i], "evicted")
         /\ ~(i <= c /\ records[i].files # <<>>) => records'[i] = records[i]
  BY <1>2, <1>3
<1>5. \A k \in 1..Len(records') : records'[k].id = records[i].id => k = i
  BY <1>1, <1>2
<1>6. ASSUME LosesDetails(records[i]) PROVE i <= c /\ records[i].id # work.id
  <2>1. records'[i].reason = "evicted" /\ records[i].files # <<>> /\ records[i].reason = "none"
    BY <1>5, <1>6, Loses
  <2>2. records[i].id # work.id
    BY <1>2, <2>1
  <2>. QED
    BY <1>4, <2>1, <2>2
<1>. QED
  BY <1>2, <1>4, <1>5, <1>6

(* What became of them where begin made its way. *)
Begun(e, m, k) ==
    LET kept == Prune(records)
        n == Len(kept) - m
    IN  /\ n \in Nat /\ Len(records') = n + 1
        /\ records'[n + 1] = NewArtifact(begun + 1)
        /\ Used(records') = Used(Reserve(kept)) + SummaryBytes
        /\ \A q \in 1..n :
              /\ m + q \in 1..Len(kept) /\ e[m + q] \in 1..Len(records)
              /\ kept[m + q] = records[e[m + q]]
              /\ records'[q].id = records[e[m + q]].id
              /\ records'[q] = Reserve(kept)[q]
              /\ q <= k /\ kept[m + q].files # <<>> => records'[q] = Drop(kept[m + q], "evicted")
              /\ ~(q <= k /\ kept[m + q].files # <<>>) => records'[q] = kept[m + q]
        /\ \A p \in 1..Len(records'), j \in 1..Len(records) : records'[p].id = records[j].id =>
              p \in 1..n /\ e[m + p] = j

LEMMA BegunAs ==
    ASSUME StoreInv, StoreInv', Begin,
           NEW e, NEW m \in 0..Len(Prune(records)), NEW k \in 0..Len(Prune(records)), MakesWay(e, m, k)
    PROVE  Begun(e, m, k)
<1>. DEFINE T == Artifacts(begun, now)
            kept == Prune(records)
            N == Len(kept)
            room == Reserve(kept)
            a == NewArtifact(begun + 1)
            L == Len(records)
<1>1. /\ Increasing(e, N, L)
      /\ \A i \in 1..N : kept[i] = records[e[i]]
      /\ room \in Seq(T) /\ Len(room) = N - m
      /\ \A i \in 1..(N - m) :
            /\ m + i \in 1..N
            /\ room[i] = IF i <= k /\ kept[m + i].files # <<>>
                         THEN Drop(kept[m + i], "evicted") ELSE kept[m + i]
  BY DEF MakesWay
<1>2. kept \in Seq(T)
  BY PrunedFacts
<1>3. records' = Append(room, a)
  BY DEF Begin, NewArtifact
<1>4. /\ now \in Nat /\ begun \in Nat
      /\ \A j \in 1..L : records[j] \in T /\ records[j].id \in 1..begun
      /\ \A i, j \in 1..L : records[i].id = records[j].id => i = j
  BY StoreFacts DEF Artifacts
<1>5. a.id = begun + 1 /\ a.files = <<>>
  BY DEF NewArtifact
<1>. DEFINE n == N - m
<1>6. N \in Nat /\ n \in Nat
  BY <1>2
<1>7. Len(records') = n + 1 /\ records'[n + 1] = a /\ \A q \in 1..n : records'[q] = room[q]
  BY <1>1, <1>3, <1>6
<1>8. Used(records') = Used(room) + SummaryBytes
  <2>1. room \in Seq(Artifacts(begun + 1, now)) /\ a \in Artifacts(begun + 1, now)
    <3>1. \A r \in T : r \in Artifacts(begun + 1, now)
      BY <1>4, ArtifactsGrow
    <3>2. a \in Artifacts(begun + 1, now)
      <4>1. now \in 0..now /\ begun + 1 \in 1..(begun + 1)
        BY <1>4
      <4>. QED
        BY <4>1, EmptyList DEF NewArtifact, Artifacts, Reasons
    <3>3. \A q \in 1..Len(room) : room[q] \in Artifacts(begun + 1, now)
      BY <1>1, <3>1
    <3>. HIDE DEF room, T, a
    <3>4. room \in Seq(Artifacts(begun + 1, now))
      BY <1>1, <3>3
    <3>. QED
      BY <3>2, <3>4
  <2>2. Size(a) = SummaryBytes
    BY <1>5, SizeBare
  <2>. HIDE DEF room, a
  <2>. QED
    BY <1>3, <2>1, <2>2, UsedAppend
<1>. HIDE DEF kept, room, a
<1>9. ASSUME NEW q \in 1..n
      PROVE  /\ m + q \in 1..N /\ e[m + q] \in 1..L
             /\ kept[m + q] = records[e[m + q]]
             /\ records'[q] = room[q]
             /\ q <= k /\ kept[m + q].files # <<>> => records'[q] = Drop(kept[m + q], "evicted")
             /\ ~(q <= k /\ kept[m + q].files # <<>>) => records'[q] = kept[m + q]
  <2>1. m + q \in 1..N /\ records'[q] = room[q]
    BY <1>1, <1>7
  <2>2. e[m + q] \in 1..L /\ kept[m + q] = records[e[m + q]]
    BY <1>1, <2>1 DEF Increasing
  <2>. QED
    BY <1>1, <2>1, <2>2
<1>10. ASSUME NEW q \in 1..n
       PROVE  records'[q].id = records[e[m + q]].id
  <2>. DEFINE r == records[e[m + q]]
  <2>1. r \in T
    BY <1>4, <1>9
  <2>2. Drop(r, "evicted").id = r.id
    BY <2>1, Dropped DEF Reasons
  <2>3. records'[q] = r \/ records'[q] = Drop(r, "evicted")
    BY <1>9
  <2>. HIDE DEF r
  <2>4. records'[q].id = r.id
    BY <2>2, <2>3
  <2>. QED
    BY <2>4 DEF r
<1>11. ASSUME NEW p \in 1..Len(records'), NEW j \in 1..L, records'[p].id = records[j].id
       PROVE  p \in 1..n /\ e[m + p] = j
  <2>1. p # n + 1
    BY <1>4, <1>5, <1>7, <1>11
  <2>2. p \in 1..n
    <3>. HIDE DEF n
    <3>. QED
      BY <1>6, <1>7, <2>1
  <2>3. e[m + p] \in 1..L /\ records[e[m + p]].id = records[j].id
    BY <1>9, <1>10, <1>11, <2>2
  <2>. QED
    BY <1>4, <2>2, <2>3
<1>. QED
  BY <1>6, <1>7, <1>8, <1>9, <1>10, <1>11 DEF kept, room, a, Begun

(* Those that lost their details there are among the first that were kept. *)
AmongFirst(e, m, k, j) ==
    \E q \in 1..(Len(Prune(records)) - m) : q <= k /\ e[m + q] = j

LEMMA BegunLoses ==
    ASSUME StoreInv, StoreInv', Begin,
           NEW e, NEW m \in 0..Len(Prune(records)), NEW k \in 0..Len(Prune(records)), MakesWay(e, m, k),
           NEW j \in 1..Len(records), LosesDetails(records[j])
    PROVE  AmongFirst(e, m, k, j)
<1>. DEFINE kept == Prune(records)
            n == Len(kept) - m
<1>1. Begun(e, m, k)
  BY BegunAs
<1>2. PICK p \in 1..Len(records') :
         records'[p].id = records[j].id /\ records'[p].reason = "evicted"
  BY Loses
<1>3. p \in 1..n /\ e[m + p] = j
  BY <1>1, <1>2 DEF Begun
<1>4. records[j].reason = "none"
  BY Loses
<1>5. /\ kept[m + p] = records[j]
      /\ ~(p <= k /\ kept[m + p].files # <<>>) => records'[p] = kept[m + p]
  BY <1>1, <1>3 DEF Begun
<1>6. p <= k
  BY <1>2, <1>4, <1>5
<1>. QED
  BY <1>3, <1>6 DEF AmongFirst

(* Artifacts lose their details in the order of their access. *)
LEMMA StepEvictsOldest ==
    ASSUME StoreInv, StoreInv', [StoreNext]_storeVars,
           NEW j \in 1..Len(records), LosesDetails(records[j]),
           NEW i \in 1..(j - 1), records[i].id # work.id,
           NEW k \in 1..Len(records'), records'[k].id = records[i].id
    PROVE  records'[k].files = <<>>
<1>1. /\ Len(records) \in Nat /\ i \in 1..Len(records) /\ i < j
      /\ records[i] \in Artifacts(begun, now)
  BY StoreFacts
<1>2. Drop(records[i], "evicted").files = <<>>
  BY <1>1, Dropped DEF Reasons
<1>3. ASSUME NEW size, NEW c, ShedsInPlace(size, c)
      PROVE  records'[k].files = <<>>
  <2>1. c \in Nat /\ j <= c
    <3>1. \A x \in 1..Len(records) : LosesDetails(records[x]) => x <= c
      BY <1>3, Shed
    <3>2. c \in 0..Len(records)
      BY <1>3 DEF ShedsInPlace
    <3>. QED
      BY <1>1, <3>1, <3>2
  <2>2. /\ k = i
        /\ i <= c /\ records[i].files # <<>> => records'[i] = Drop(records[i], "evicted")
        /\ ~(i <= c /\ records[i].files # <<>>) => records'[i] = records[i]
    BY <1>1, <1>3, Shed
  <2>3. i <= c
    BY <1>1, <2>1
  <2>. QED
    BY <1>2, <2>2, <2>3
<1>4. ASSUME Begin
      PROVE  records'[k].files = <<>>
  <2>1. PICK e : \E m, c \in 0..Len(Prune(records)) : MakesWay(e, m, c)
    BY BeginMakesWay
  <2>2. PICK m \in 0..Len(Prune(records)), c \in 0..Len(Prune(records)) : MakesWay(e, m, c)
    BY <2>1
  <2>. DEFINE kept == Prune(records)
              N == Len(kept)
              n == N - m
  <2>3. Increasing(e, N, Len(records)) /\ N \in Nat /\ m \in Nat /\ c \in Nat
    BY <2>2, PrunedFacts DEF MakesWay
  <2>4. Begun(e, m, c)
    BY <1>4, <2>2, BegunAs
  <2>5. ASSUME NEW p \in 1..Len(records'), NEW x \in 1..Len(records),
                records'[p].id = records[x].id
         PROVE  p \in 1..n /\ e[m + p] = x
    BY <2>4, <2>5 DEF Begun
  <2>6. \E q \in 1..n : q <= c /\ e[m + q] = j
    <3>1. AmongFirst(e, m, c, j)
      BY <1>4, <2>2, BegunLoses
    <3>. QED
      BY <3>1 DEF AmongFirst
  <2>7. \A q \in 1..n :
           /\ m + q \in 1..N
           /\ kept[m + q] = records[e[m + q]]
           /\ q <= c /\ kept[m + q].files # <<>> => records'[q] = Drop(kept[m + q], "evicted")
           /\ ~(q <= c /\ kept[m + q].files # <<>>) => records'[q] = kept[m + q]
    BY <2>4 DEF Begun
  <2>. HIDE DEF kept
  <2>8. k \in 1..n /\ e[m + k] = i
    BY <1>1, <2>5
  <2>9. PICK q \in 1..n : q <= c /\ e[m + q] = j
    BY <2>6
  <2>10. /\ m + k \in 1..N /\ m + q \in 1..N
         /\ k <= c /\ records[i].files # <<>> => records'[k] = Drop(records[i], "evicted")
         /\ ~(k <= c /\ records[i].files # <<>>) => records'[k] = records[i]
    BY <2>7, <2>8
  <2>. HIDE DEF N
  <2>11. k < q
    <3>1. ~(m + q < m + k)
      BY <1>1, <2>3, <2>8, <2>9, <2>10 DEF Increasing
    <3>2. k # q
      BY <1>1, <2>8, <2>9
    <3>. QED
      BY <2>3, <2>8, <2>9, <3>1, <3>2
  <2>12. k <= c
    BY <2>3, <2>8, <2>9, <2>11
  <2>. QED
    <3>1. CASE records[i].files # <<>>
      <4>1. records'[k] = Drop(records[i], "evicted")
        BY <2>10, <2>12, <3>1
      <4>. QED
        BY <1>2, <4>1
    <3>2. CASE records[i].files = <<>>
      <4>1. records'[k] = records[i]
        BY <2>10, <3>2
      <4>. QED
        BY <3>2, <4>1
    <3>. QED
      BY <3>1, <3>2
<1>. QED
  BY <1>3, <1>4, ThreeKinds, UnshedLoses

(* The bytes of two lists of artifacts without details. *)
LEMMA UsedBare ==
    ASSUME NEW b, NEW n, NEW rs \in Seq(Artifacts(b, n)), NEW out \in Seq(Artifacts(b, n)),
           Len(out) = Len(rs), \A i \in 1..Len(rs) : Size(out[i]) <= Size(rs[i])
    PROVE  Used(out) <= Used(rs)
<1>. DEFINE e == [i \in 1..Len(rs) |-> i]
<1>1. Increasing(e, Len(out), Len(rs))
  BY DEF Increasing
<1>2. \A k \in 1..Len(out) : Size(out[k]) <= Size(rs[e[k]])
  OBVIOUS
<1>. HIDE DEF e
<1>. QED
  BY <1>1, <1>2, UsedEmbedded

(* An artifact whose lifetime is not over is forgotten for want of room only. *)
LEMMA BeginForgets ==
    ASSUME StoreInv, StoreInv', Begin,
           NEW i \in 1..Len(records), ~Expired(records[i]),
           \A k \in 1..Len(records') : records'[k].id # records[i].id
    PROVE  \/ Len(records') = MaxRecords
           \/ /\ Used(records') + SummaryBytes > MaxBytes
              /\ \A k \in 1..Len(records') : records'[k].files = <<>>
<1>1. PICK e : \E m, c \in 0..Len(Prune(records)) : MakesWay(e, m, c)
  BY BeginMakesWay
<1>2. PICK m \in 0..Len(Prune(records)), c \in 0..Len(Prune(records)) : MakesWay(e, m, c)
  BY <1>1
<1>. DEFINE kept == Prune(records)
            N == Len(kept)
            n == N - m
            wide == SubSeq(kept, m, N)
            bare == EvictFirst(wide, N, 0)
<1>3. /\ Increasing(e, N, Len(records)) /\ N \in Nat /\ m \in 0..N
      /\ kept \in Seq(Artifacts(begun, now))
      /\ \A j \in 1..Len(records) : ~Expired(records[j]) => \E x \in 1..N : e[x] = j
      /\ m > 0 => N - m = MaxRecords - 1 \/ (c = N /\ ~Room(bare, SummaryBytes))
  BY <1>2, PrunedFacts DEF MakesWay
<1>4. Begun(e, m, c)
  BY <1>2, BegunAs
<1>5. /\ n \in Nat /\ Len(records') = n + 1
      /\ records'[n + 1] = NewArtifact(begun + 1)
  BY <1>4 DEF Begun
<1>6. \A q \in 1..n :
         /\ m + q \in 1..N
         /\ records'[q].id = records[e[m + q]].id
         /\ q <= c /\ kept[m + q].files # <<>> => records'[q] = Drop(kept[m + q], "evicted")
         /\ ~(q <= c /\ kept[m + q].files # <<>>) => records'[q] = kept[m + q]
  BY <1>4 DEF Begun
<1>. HIDE DEF kept, bare
<1>7. m > 0
  <2>1. PICK x \in 1..N : e[x] = i
    BY <1>3
  <2>2. ~(x > m)
    <3>. SUFFICES ASSUME x > m PROVE FALSE
      OBVIOUS
    <3>1. x - m \in 1..n /\ m + (x - m) = x
      BY <1>3
    <3>2. records'[x - m].id = records[i].id
      BY <1>6, <2>1, <3>1
    <3>3. x - m \in 1..Len(records')
      <4>. HIDE DEF n
      <4>. QED
        BY <1>5, <3>1
    <3>. QED
      BY <3>2, <3>3
  <2>. QED
    BY <1>3, <2>2
<1>8. MaxRecords \in Nat
  BY ArtifactStoreAssumption
<1>9. ASSUME c = N, ~Room(bare, SummaryBytes)
      PROVE  /\ Used(records') + SummaryBytes > MaxBytes
             /\ \A k \in 1..Len(records') : records'[k].files = <<>>
  <2>1. \A r \in Artifacts(begun, now) :
           /\ r.files = <<>> => Size(r) = SummaryBytes
           /\ Drop(r, "evicted").files = <<>> /\ Size(Drop(r, "evicted")) = SummaryBytes
    BY Dropped, SizeBare DEF Reasons
  <2>2. ASSUME NEW k \in 1..Len(records') PROVE records'[k].files = <<>>
    <3>1. CASE k = n + 1
      BY <1>5, <3>1 DEF NewArtifact
    <3>2. CASE k # n + 1
      <4>1. k \in 1..n
        <5>. HIDE DEF n
        <5>. QED
          BY <1>5, <3>2
      <4>2. k <= c /\ m + k \in 1..N /\ kept[m + k] \in Artifacts(begun, now)
        BY <1>3, <1>6, <1>9, <4>1
      <4>. QED
        BY <1>6, <2>1, <4>1, <4>2
    <3>. QED
      BY <3>1, <3>2
  <2>3. /\ wide \in Seq(Artifacts(begun, now)) /\ Len(wide) = n + 1
    <3>1. m \in 1..N
      BY <1>3, <1>7
    <3>. QED
      BY <1>3, <3>1
  <2>. HIDE DEF wide
  <2>4. bare \in Seq(Artifacts(begun, now)) /\ Len(bare) = n + 1
    <3>1. bare \in Seq(Artifacts(begun, now)) /\ Len(bare) = Len(wide)
      <4>1. N \in Nat /\ wide \in Seq(Artifacts(begun, now))
        BY <1>3, <2>3
      <4>. HIDE DEF N
      <4>. QED
        BY <4>1, Evicted DEF bare
    <3>. QED
      BY <2>3, <3>1
  <2>5. ASSUME NEW x \in 1..(n + 1) PROVE Size(bare[x]) = SummaryBytes
    <3>1. wide[x] \in Artifacts(begun, now) /\ wide[x].id # 0 /\ x <= N
      <4>1. wide[x] \in Artifacts(begun, now)
        BY <2>3
      <4>2. wide[x].id # 0
        <5>1. begun \in Nat
          BY StoreFacts
        <5>. HIDE DEF wide
        <5>2. wide[x].id \in 1..begun
          BY <4>1 DEF Artifacts
        <5>. QED
          BY <5>1, <5>2
      <4>3. x <= N
        BY <1>3, <1>7
      <4>. QED
        BY <4>1, <4>2, <4>3
    <3>2. bare[x] = IF x <= N /\ wide[x].id # 0 /\ wide[x].files # <<>>
                    THEN Drop(wide[x], "evicted") ELSE wide[x]
      BY <1>3, <2>3, Evicted DEF bare
    <3>. QED
      BY <2>1, <3>1, <3>2
  <2>6. /\ begun' \in Nat /\ now' \in Nat /\ begun \in Nat /\ now \in Nat
        /\ begun <= begun' /\ now <= now'
        /\ records' \in Seq(Artifacts(begun', now'))
        /\ SummaryBytes \in Nat /\ MaxBytes \in Nat
    <3>1. begun' = begun + 1 /\ now' = now
      BY DEF Begin
    <3>2. records' \in Seq(Artifacts(begun', now'))
      BY DEF StoreInv, StoreTypeOK, Artifact, Artifacts
    <3>. QED
      BY <3>1, <3>2, StoreFacts, ArtifactStoreAssumption
  <2>7. bare \in Seq(Artifacts(begun', now'))
    <3>1. \A r \in Artifacts(begun, now) : r \in Artifacts(begun', now')
      BY <2>6, ArtifactsGrow
    <3>2. \A x \in 1..Len(bare) : bare[x] \in Artifacts(begun', now')
      BY <2>4, <3>1
    <3>. QED
      BY <2>4, <3>2
  <2>8. Used(bare) <= Used(records')
    <3>1. \A x \in 1..Len(records') : Size(bare[x]) <= Size(records'[x])
      <4>1. ASSUME NEW x \in 1..Len(records') PROVE Size(bare[x]) = Size(records'[x])
        BY <1>5, <2>2, <2>5, SizeBare
      <4>2. \A x \in 1..Len(records') : Size(records'[x]) = SummaryBytes
        BY <2>2, SizeBare
      <4>. QED
        BY <2>6, <4>1, <4>2
    <3>. QED
      BY <1>5, <2>4, <2>6, <2>7, <3>1, UsedBare
  <2>9. Used(bare) \in Nat /\ Used(records') \in Nat
    BY <2>6, <2>7, UsedNat
  <2>10. Used(bare) + SummaryBytes > MaxBytes
    BY <1>9, <2>6, <2>9 DEF Room
  <2>. QED
    BY <2>2, <2>6, <2>8, <2>9, <2>10
<1>. QED
  BY <1>3, <1>5, <1>7, <1>8, <1>9

LEMMA StepForgets ==
    ASSUME StoreInv, StoreInv', [StoreNext]_storeVars,
           NEW i \in 1..Len(records), ~Expired(records[i]), records[i].id # work.id,
           \A k \in 1..Len(records') : records'[k].id # records[i].id
    PROVE  \/ Len(records') = MaxRecords
           \/ /\ Used(records') + SummaryBytes > MaxBytes
              /\ \A k \in 1..Len(records') : records'[k].files = <<>>
<1>1. ~NothingShed
  BY DEF NothingShed
<1>2. ASSUME NEW size, NEW c, ShedsInPlace(size, c) PROVE FALSE
  <2>1. i \in 1..Len(records') /\ records'[i].id = records[i].id
    BY <1>2, Shed
  <2>. QED
    BY <2>1
<1>. QED
  BY <1>1, <1>2, ThreeKinds, BeginForgets

(* The store over its quota but for the last artifact to lose its details. *)
LEMMA NeededLast ==
    ASSUME NEW b, NEW n, NEW rs \in Seq(Artifacts(b, n)), NEW c \in 1..Len(rs), NEW k \in Nat,
           NEW exclude, NEW size \in Nat, c <= k, rs[c].id # exclude, rs[c].files # <<>>,
           \A i \in 1..Len(rs) : c < i /\ i <= k => rs[i].id = exclude \/ rs[i].files = <<>>,
           ~Room(EvictFirst(rs, c - 1, exclude), size)
    PROVE  Used(EvictFirst(rs, k, exclude)) + size + Size(rs[c]) - SummaryBytes > MaxBytes
<1>. DEFINE before == EvictFirst(rs, c - 1, exclude)
            after == EvictFirst(rs, k, exclude)
<1>1. c \in Nat /\ c - 1 \in Nat
  OBVIOUS
<1>2. /\ before \in Seq(Artifacts(b, n)) /\ Len(before) = Len(rs)
      /\ \A i \in 1..Len(rs) :
            before[i] = IF i <= c - 1 /\ rs[i].id # exclude /\ rs[i].files # <<>>
                        THEN Drop(rs[i], "evicted") ELSE rs[i]
  BY <1>1, Evicted
<1>3. /\ after \in Seq(Artifacts(b, n)) /\ Len(after) = Len(rs)
      /\ \A i \in 1..Len(rs) :
            after[i] = IF i <= k /\ rs[i].id # exclude /\ rs[i].files # <<>>
                       THEN Drop(rs[i], "evicted") ELSE rs[i]
  BY Evicted
<1>4. ~Room(before, size)
  OBVIOUS
<1>. HIDE DEF before, after
<1>5. ASSUME NEW i \in 1..Len(rs), i # c PROVE after[i] = before[i]
  <2>1. CASE i < c
    BY <1>1, <1>2, <1>3, <2>1
  <2>2. CASE c < i
    BY <1>1, <1>2, <1>3, <2>2
  <2>. QED
    BY <1>1, <1>5, <2>1, <2>2
<1>6. before[c] = rs[c] /\ after[c] = Drop(rs[c], "evicted")
  BY <1>1, <1>2, <1>3
<1>7. Size(after[c]) = SummaryBytes
  BY <1>6, Dropped DEF Reasons
<1>8. Used(after) + Size(before[c]) = Used(before) + Size(after[c])
  BY <1>2, <1>3, <1>5, UsedExcept
<1>9. /\ Used(before) \in Nat /\ Used(after) \in Nat /\ SummaryBytes \in Nat /\ MaxBytes \in Nat
      /\ Size(rs[c]) \in Nat
  <2>1. Size(rs[c]) \in Nat
    BY SizeNat
  <2>. QED
    BY <1>2, <1>3, <2>1, UsedNat, ArtifactStoreAssumption
<1>10. Used(before) + size > MaxBytes
  BY <1>4, <1>9 DEF Room
<1>. QED
  BY <1>6, <1>7, <1>8, <1>9, <1>10 DEF after

LEMMA SameList ==
    ASSUME NEW T, NEW s \in Seq(T), NEW t \in Seq(T), Len(s) = Len(t),
           \A i \in 1..Len(s) : s[i] = t[i]
    PROVE  s = t
OBVIOUS

(* No more is evicted than it takes. *)
LEMMA BeginNeeds ==
    ASSUME StoreInv, StoreInv', Begin,
           \A i \in 1..Len(records) : \E p \in 1..Len(records') : records'[p].id = records[i].id,
           NEW j \in 1..Len(records), LosesDetails(records[j]),
           \A i \in 1..Len(records) : j < i => ~LosesDetails(records[i])
    PROVE  Used(records') + Size(records[j]) - SummaryBytes > MaxBytes
<1>1. PICK e : \E m, k \in 0..Len(Prune(records)) : MakesWay(e, m, k)
  BY BeginMakesWay
<1>2. PICK m \in 0..Len(Prune(records)), k \in 0..Len(Prune(records)) : MakesWay(e, m, k)
  BY <1>1
<1>. DEFINE kept == Prune(records)
            N == Len(kept)
            n == N - m
            room == Reserve(kept)
            made == EvictFirst(kept, k, 0)
<1>3. /\ Increasing(e, N, Len(records)) /\ N \in Nat /\ m \in 0..N /\ k \in 0..N
      /\ kept \in Seq(Artifacts(begun, now))
      /\ m = 0 => \A x \in 0..N : x < k => ~Room(EvictFirst(kept, x, 0), SummaryBytes)
  BY <1>2, PrunedFacts DEF MakesWay
<1>4. /\ room \in Seq(Artifacts(begun, now)) /\ Len(room) = n
      /\ \A q \in 1..n : room[q] = IF q <= k /\ kept[m + q].files # <<>>
                                   THEN Drop(kept[m + q], "evicted") ELSE kept[m + q]
  BY <1>2 DEF MakesWay
<1>5. Begun(e, m, k)
  BY <1>2, BegunAs
<1>6. Used(records') = Used(room) + SummaryBytes
  BY <1>5 DEF Begun
<1>7. \A q \in 1..n :
         /\ m + q \in 1..N /\ e[m + q] \in 1..Len(records)
         /\ kept[m + q] = records[e[m + q]]
         /\ records'[q].id = records[e[m + q]].id
         /\ records'[q] = room[q]
  BY <1>5 DEF Begun
<1>8. ASSUME NEW p \in 1..Len(records'), NEW x \in 1..Len(records), records'[p].id = records[x].id
      PROVE  p \in 1..n /\ e[m + p] = x
  BY <1>5, <1>8 DEF Begun
<1>9. AmongFirst(e, m, k, j)
  BY <1>2, BegunLoses
<1>10. PICK c \in 1..n : c <= k /\ e[m + c] = j
  BY <1>9 DEF AmongFirst
<1>11. n + 1 = Len(records')
  BY <1>5 DEF Begun
<1>. HIDE DEF kept, room
<1>12. m = 0
  <2>. SUFFICES ASSUME m # 0 PROVE FALSE
    OBVIOUS
  <2>1. m \in 1..N /\ 1 \in 1..N /\ 1 < m + c /\ m + c \in 1..N
    BY <1>3, <1>7, <1>10
  <2>2. e[1] \in 1..Len(records) /\ e[1] < e[m + c]
    BY <1>3, <2>1 DEF Increasing
  <2>3. PICK p \in 1..Len(records') : records'[p].id = records[e[1]].id
    BY <2>2
  <2>4. p \in 1..n /\ e[m + p] = e[1]
    BY <1>8, <2>2, <2>3
  <2>5. 1 < m + p /\ m + p \in 1..N
    BY <1>3, <1>7, <2>1, <2>4
  <2>6. e[1] < e[m + p]
    BY <1>3, <2>1, <2>5 DEF Increasing
  <2>. QED
    BY <2>2, <2>4, <2>6
<1>13. n = N /\ \A q \in 1..N : m + q = q
  BY <1>3, <1>12
<1>14. \A r \in Artifacts(begun, now) :
          /\ r.id # 0 /\ Drop(r, "evicted").id = r.id /\ Drop(r, "evicted").reason = "evicted"
  <2>. SUFFICES ASSUME NEW r \in Artifacts(begun, now)
                PROVE  r.id # 0 /\ Drop(r, "evicted").id = r.id /\ Drop(r, "evicted").reason = "evicted"
    OBVIOUS
  <2>1. Drop(r, "evicted").id = r.id /\ Drop(r, "evicted").reason = "evicted"
    BY Dropped DEF Reasons
  <2>2. r.id \in 1..begun
    BY DEF Artifacts
  <2>3. begun \in Nat
    BY StoreFacts
  <2>. QED
    BY <2>1, <2>2, <2>3
<1>15. \A q \in 1..N : kept[q] \in Artifacts(begun, now)
  BY <1>3
<1>16. /\ made \in Seq(Artifacts(begun, now)) /\ Len(made) = N
       /\ \A q \in 1..N : made[q] = IF q <= k /\ kept[q].id # 0 /\ kept[q].files # <<>>
                                    THEN Drop(kept[q], "evicted") ELSE kept[q]
  BY <1>3, Evicted
<1>. HIDE DEF made, N
<1>17. room = made
  <2>1. ASSUME NEW q \in 1..N PROVE room[q] = made[q]
    <3>1. q \in 1..n /\ m + q = q /\ kept[q].id # 0
      BY <1>13, <1>14, <1>15
    <3>. HIDE DEF n
    <3>. QED
      BY <1>4, <1>16, <3>1
  <2>2. Len(room) = N
    BY <1>4, <1>13
  <2>. QED
    BY <1>4, <1>16, <2>1, <2>2, SameList
<1>18. c \in 1..N /\ kept[c] = records[j] /\ c <= k /\ e[c] = j
  BY <1>7, <1>10, <1>13
<1>19. kept[c].files # <<>> /\ kept[c].id # 0
  <2>1. kept[c].files # <<>>
    BY <1>18, Loses
  <2>. QED
    BY <1>14, <1>15, <1>18, <2>1
<1>20. ASSUME NEW q \in 1..N, c < q, q <= k PROVE kept[q].files = <<>>
  <2>. SUFFICES ASSUME kept[q].files # <<>> PROVE FALSE
    OBVIOUS
  <2>1. e[q] \in 1..Len(records) /\ kept[q] = records[e[q]] /\ records'[q] = made[q]
    BY <1>7, <1>13, <1>17
  <2>2. j < e[q]
    BY <1>3, <1>18, <1>20 DEF Increasing
  <2>3. q \in 1..Len(records')
    <3>1. Len(records') = N + 1
      BY <1>11, <1>13
    <3>. QED
      BY <1>3, <3>1
  <2>4. records'[q].id = records[e[q]].id /\ records'[q].reason = "evicted"
    BY <1>14, <1>15, <1>16, <1>20, <2>1
  <2>5. DOMAIN records' = 1..Len(records')
    BY DEF StoreInv, StoreTypeOK
  <2>6. LosesDetails(records[e[q]])
    BY <2>1, <2>3, <2>4, <2>5 DEF LosesDetails
  <2>. QED
    BY <2>1, <2>2, <2>6
<1>21. ~Room(EvictFirst(kept, c - 1, 0), SummaryBytes)
  <2>1. c - 1 \in 0..N /\ c - 1 < k
    BY <1>3, <1>18
  <2>. QED
    BY <1>3, <1>12, <2>1
<1>22. SummaryBytes \in Nat /\ k \in Nat
  BY <1>3, ArtifactStoreAssumption
<1>23. Used(made) + SummaryBytes + Size(kept[c]) - SummaryBytes > MaxBytes
  BY <1>3, <1>18, <1>19, <1>20, <1>21, <1>22, NeededLast DEF made, N
<1>. QED
  BY <1>6, <1>17, <1>18, <1>23

LEMMA ShedsNeeds ==
    ASSUME StoreInv, StoreInv', NEW size \in Nat, NEW c \in Nat, ShedsInPlace(size, c),
           NEW p \in 1..Len(records'), NewOrGrown(records'[p]),
           NEW j \in 1..Len(records), LosesDetails(records[j]),
           \A i \in 1..Len(records) : j < i => ~LosesDetails(records[i])
    PROVE  Used(records') + Size(records[j]) - SummaryBytes > MaxBytes
<1>. DEFINE made == EvictFirst(records, c, work.id)
            L == Len(records)
<1>1. /\ c \in 0..L
      /\ \A i \in 0..L : i < c => ~Room(EvictFirst(records, i, work.id), size)
      /\ Len(records') = L
      /\ \A i \in 1..L : records'[i].id = records[i].id
      /\ \/ Used(records') = Used(made) + size
         \/ \A i \in 1..L :
               records[i].id = work.id => Len(records'[i].files) <= Len(records[i].files)
  BY DEF ShedsInPlace
<1>2. /\ L \in Nat /\ DOMAIN records = 1..L
      /\ \A i \in 1..L : records[i] \in Artifacts(begun, now)
      /\ records \in Seq(Artifacts(begun, now))
  BY StoreFacts
<1>3. DOMAIN records' = 1..Len(records')
  BY DEF StoreInv, StoreTypeOK
<1>4. ASSUME NEW i \in 1..L
      PROVE  /\ records[i].id # work.id =>
                   /\ i <= c /\ records[i].files # <<>> => records'[i] = Drop(records[i], "evicted")
                   /\ ~(i <= c /\ records[i].files # <<>>) => records'[i] = records[i]
             /\ LosesDetails(records[i]) => i <= c /\ records[i].id # work.id
  BY Shed
<1>5. ASSUME NEW i \in 1..L
      PROVE  /\ Drop(records[i], "evicted").id = records[i].id
             /\ Drop(records[i], "evicted").files = <<>>
             /\ Drop(records[i], "evicted").reason = "evicted"
  BY <1>2, Dropped DEF Reasons
<1>6. Used(records') = Used(made) + size
  <2>1. Len(records[p].files) < Len(records'[p].files)
    BY <1>1, <1>2 DEF NewOrGrown
  <2>2. Len(records[p].files) \in Nat
    <3>1. records[p].files \in FileLists
      BY <1>1, <1>2 DEF Artifacts
    <3>. QED
      BY <3>1, FileList
  <2>3. p \in 1..L
    BY <1>1
  <2>4. records[p].id = work.id
    <3>. SUFFICES ASSUME records[p].id # work.id PROVE FALSE
      OBVIOUS
    <3>1. CASE p <= c /\ records[p].files # <<>>
      <4>1. records'[p].files = <<>>
        BY <1>4, <1>5, <2>3, <3>1
      <4>. QED
        BY <2>1, <2>2, <4>1
    <3>2. CASE ~(p <= c /\ records[p].files # <<>>)
      <4>1. records'[p] = records[p]
        BY <1>4, <2>3, <3>2
      <4>. QED
        BY <2>1, <2>2, <4>1
    <3>. QED
      BY <3>1, <3>2
  <2>5. ~(Len(records'[p].files) <= Len(records[p].files))
    <3>1. Len(records'[p].files) \in Nat
      <4>1. records' \in Seq(Artifacts(begun', now'))
        BY DEF StoreInv, StoreTypeOK, Artifact, Artifacts
      <4>2. records'[p].files \in FileLists
        <5>1. records'[p] \in Artifacts(begun', now')
          BY <4>1
        <5>. QED
          BY <5>1 DEF Artifacts
      <4>. QED
        BY <4>2, FileList
    <3>. QED
      BY <2>1, <2>2, <3>1
  <2>. QED
    BY <1>1, <2>3, <2>4, <2>5
<1>7. j \in 1..L /\ j <= c /\ records[j].id # work.id /\ records[j].files # <<>>
  BY <1>4, Loses
<1>8. ASSUME NEW i \in 1..L, j < i, i <= c
      PROVE  records[i].id = work.id \/ records[i].files = <<>>
  <2>. SUFFICES ASSUME records[i].id # work.id, records[i].files # <<>> PROVE FALSE
    OBVIOUS
  <2>1. i \in DOMAIN records' /\ records'[i].id = records[i].id /\ records'[i].reason = "evicted"
    BY <1>1, <1>3, <1>4, <1>5, <1>8
  <2>2. LosesDetails(records[i])
    BY <2>1 DEF LosesDetails
  <2>. QED
    BY <1>8, <2>2
<1>9. ~Room(EvictFirst(records, j - 1, work.id), size)
  <2>1. j - 1 \in 0..L /\ j - 1 < c
    BY <1>1, <1>2, <1>7
  <2>. QED
    BY <1>1, <2>1
<1>. HIDE DEF made
<1>10. Used(made) + size + Size(records[j]) - SummaryBytes > MaxBytes
  BY <1>2, <1>7, <1>8, <1>9, NeededLast DEF made
<1>. QED
  BY <1>6, <1>10

LEMMA StepNeeds ==
    ASSUME StoreInv, StoreInv', [StoreNext]_storeVars,
           Ids(records) \subseteq Ids(records'),
           NEW p \in 1..Len(records'), NewOrGrown(records'[p]),
           NEW j \in 1..Len(records), LosesDetails(records[j]),
           \A i \in 1..Len(records) : j < i => ~LosesDetails(records[i])
    PROVE  Used(records') + Size(records[j]) - SummaryBytes > MaxBytes
<1>1. DOMAIN records = 1..Len(records) /\ DOMAIN records' = 1..Len(records')
  BY DEF StoreInv, StoreTypeOK
<1>2. \A i \in 1..Len(records) : \E q \in 1..Len(records') : records'[q].id = records[i].id
  BY <1>1 DEF Ids
<1>3. ~NothingShed
  BY UnshedLoses
<1>. QED
  BY <1>2, <1>3, ThreeKinds, BeginNeeds, ShedsNeeds

\* A step takes the details of an artifact only if every artifact accessed before it,
\* but the one the room is made for, has none left.
THEOREM StoreEvictsOldestFirst == StoreSpec => EvictsOldestFirst
<1>1. StoreInv /\ StoreInv' /\ [StoreNext]_storeVars =>
         [\A j \in DOMAIN records : LosesDetails(records[j]) =>
             \A i \in 1..(j - 1) : records[i].id # work.id =>
                 \A k \in DOMAIN records' : records'[k].id = records[i].id =>
                     records'[k].files = <<>>]_storeVars
  <2>. SUFFICES ASSUME StoreInv, StoreInv', [StoreNext]_storeVars,
                       NEW j \in DOMAIN records, LosesDetails(records[j]),
                       NEW i \in 1..(j - 1), records[i].id # work.id,
                       NEW k \in DOMAIN records', records'[k].id = records[i].id
                PROVE  records'[k].files = <<>>
    OBVIOUS
  <2>1. DOMAIN records = 1..Len(records) /\ DOMAIN records' = 1..Len(records')
    BY DEF StoreInv, StoreTypeOK
  <2>. QED
    BY <2>1, StepEvictsOldest
<1>. QED
  BY <1>1, StoreSafe, PTL DEF StoreSpec, EvictsOldestFirst

\* The details taken for a new artifact or a new file were needed, to the last of them.
THEOREM StoreEvictsOnlyWhenNeeded == StoreSpec => EvictsOnlyWhenNeeded
<1>1. StoreInv /\ StoreInv' /\ [StoreNext]_storeVars =>
         [/\ Ids(records) \subseteq Ids(records')
          /\ \E i \in DOMAIN records' : NewOrGrown(records'[i])
          => \A j \in DOMAIN records :
                 LosesDetails(records[j])
                   /\ (\A k \in DOMAIN records : k > j => ~LosesDetails(records[k]))
                 => Used(records') + Size(records[j]) - SummaryBytes > MaxBytes]_storeVars
  <2>. SUFFICES ASSUME StoreInv, StoreInv', [StoreNext]_storeVars,
                       Ids(records) \subseteq Ids(records'),
                       NEW i \in DOMAIN records', NewOrGrown(records'[i]),
                       NEW j \in DOMAIN records, LosesDetails(records[j]),
                       \A k \in DOMAIN records : k > j => ~LosesDetails(records[k])
                PROVE  Used(records') + Size(records[j]) - SummaryBytes > MaxBytes
    OBVIOUS
  <2>1. DOMAIN records = 1..Len(records) /\ DOMAIN records' = 1..Len(records')
    BY DEF StoreInv, StoreTypeOK
  <2>2. \A k \in 1..Len(records) : j < k => ~LosesDetails(records[k])
    BY <2>1
  <2>. QED
    BY <2>1, <2>2, StepNeeds
<1>. QED
  BY <1>1, StoreSafe, PTL DEF StoreSpec, EvictsOnlyWhenNeeded

\* An artifact whose lifetime is not over is forgotten only with the failure of its
\* operation or for want of room for another.
THEOREM StoreForgetsOnlyWhenNeeded == StoreSpec => ForgetsOnlyWhenNeeded
<1>1. StoreInv /\ StoreInv' /\ [StoreNext]_storeVars =>
         [\A i \in DOMAIN records :
             \/ records[i].id \in Ids(records')
             \/ records[i].id = work.id
             \/ Expired(records[i])
             \/ Len(records') = MaxRecords
             \/ /\ Used(records') + SummaryBytes > MaxBytes
                /\ \A k \in DOMAIN records' : records'[k].files = <<>>]_storeVars
  <2>. SUFFICES ASSUME StoreInv, StoreInv', [StoreNext]_storeVars,
                       NEW i \in DOMAIN records, records[i].id \notin Ids(records'),
                       records[i].id # work.id, ~Expired(records[i])
                PROVE  \/ Len(records') = MaxRecords
                       \/ /\ Used(records') + SummaryBytes > MaxBytes
                          /\ \A k \in DOMAIN records' : records'[k].files = <<>>
    OBVIOUS
  <2>1. DOMAIN records = 1..Len(records) /\ DOMAIN records' = 1..Len(records')
    BY DEF StoreInv, StoreTypeOK
  <2>2. \A k \in 1..Len(records') : records'[k].id # records[i].id
    BY <2>1 DEF Ids
  <2>. QED
    BY <2>1, <2>2, StepForgets
<1>. QED
  BY <1>1, StoreSafe, PTL DEF StoreSpec, ForgetsOnlyWhenNeeded

-----------------------------------------------------------------------------
(* The service.                                                            *)

(* But for the artifact id, the store's artifacts and what was given of them were there before. *)
Inherited(id) ==
    \A k \in 1..Len(records') : records'[k].id # id =>
        \E j \in 1..Len(records) :
            records'[k].id = records[j].id /\ records'[k].given = records[j].given

LEMMA PickedInherited ==
    ASSUME NEW q, NEW d, Picks(q, d), records' = q
    PROVE  Inherited(0)
BY DEF Picks, Inherited

LEMMA SameInherited ==
    ASSUME StoreInv, records' = records
    PROVE  Inherited(0)
BY DEF Inherited

LEMMA AccessInherited ==
    ASSUME StoreInv, NEW id, NEW own \in BOOLEAN, records' = Accessed(id, own)
    PROVE  Inherited(0)
<1>. DEFINE q == Accessed(id, own)
<1>1. \E d : Picks(q, d)
  BY AccessedFacts
<1>. HIDE DEF q
<1>2. records' = q
  BY DEF q
<1>. QED
  BY <1>1, <1>2, PickedInherited

LEMMA FailsInherited ==
    ASSUME StoreInv, Fails
    PROVE  Inherited(0)
<1>. DEFINE q == Without(records, work.id)
<1>1. records \in Seq(Artifacts(begun, now))
  BY StoreFacts
<1>2. \E e : Increasing(e, Len(q), Len(records)) /\ \A k \in 1..Len(q) : q[k] = records[e[k]]
  BY <1>1, WithoutFacts
<1>. HIDE DEF q
<1>3. records' = q
  BY DEF Fails, q
<1>. QED
  BY <1>2, <1>3 DEF Increasing, Inherited

(* One artifact s in the place of the call's, after room was made. *)
LEMMA SwapInherited ==
    ASSUME StoreInv, work.op # "none", NEW size, NEW s \in Artifacts(begun, now),
           s.id = work.id,
           records' = With(MakeRoom(records, size, work.id), s)
    PROVE  /\ Inherited(work.id)
           /\ Len(records') = Len(records)
           /\ \A k \in 1..Len(records') : records'[k].id = work.id => records'[k] = s
<1>. DEFINE T == Artifacts(begun, now)
            made == MakeRoom(records, size, work.id)
<1>1. /\ made \in Seq(T) /\ Len(made) = Len(records)
      /\ \A j \in 1..Len(records) :
            made[j].id = records[j].id /\ made[j].given = records[j].given
  BY MadeFacts
<1>. HIDE DEF made
<1>2. records' = With(made, s)
  BY DEF made
<1>3. /\ Len(records') = Len(made)
      /\ \A i \in 1..Len(made) :
            /\ made[i].id = s.id => records'[i] = s
            /\ made[i].id # s.id => records'[i] = made[i]
  <2>. DEFINE out == With(made, s)
  <2>1. Len(out) = Len(made) /\ \A i \in 1..Len(made) : out[i] = IF made[i].id = s.id THEN s ELSE made[i]
    BY <1>1, Replaced
  <2>2. records' = out
    BY <1>2
  <2>. HIDE DEF out
  <2>. QED
    BY <2>1, <2>2
<1>4. Inherited(work.id)
  <2>1. ASSUME NEW k \in 1..Len(records'), records'[k].id # work.id
        PROVE  k \in 1..Len(records) /\ records'[k].id = records[k].id /\ records'[k].given = records[k].given
    BY <1>1, <1>3, <2>1
  <2>. QED
    BY <2>1 DEF Inherited
<1>5. \A k \in 1..Len(records') : records'[k].id = work.id => records'[k] = s
  BY <1>1, <1>3
<1>. QED
  BY <1>1, <1>3, <1>4, <1>5

LEMMA MadeInherited ==
    ASSUME StoreInv, work.op # "none", NEW size,
           records' = MakeRoom(records, size, work.id)
    PROVE  /\ Inherited(0)
           /\ Len(records') = Len(records)
           /\ \A k \in 1..Len(records) :
                 /\ records'[k].id = records[k].id
                 /\ records[k].id = work.id => records'[k] = records[k]
<1>. DEFINE made == MakeRoom(records, size, work.id)
<1>1. /\ Len(made) = Len(records)
      /\ \A j \in 1..Len(records) :
            /\ made[j].id = records[j].id /\ made[j].given = records[j].given
            /\ records[j].id = work.id => made[j] = records[j]
  BY MadeFacts
<1>. HIDE DEF made
<1>2. records' = made
  BY DEF made
<1>. QED
  BY <1>1, <1>2 DEF Inherited

LEMMA WorkInherited ==
    ASSUME StoreInv, Inherited(work.id), work.op # "none",
           \A k \in 1..Len(records') : records'[k].id = work.id =>
               records'[k].given = TheRecord(work.id).given
    PROVE  Inherited(0)
<1>1. PICK i \in 1..Len(records) :
         records[i].id = work.id /\ TheRecord(work.id) = records[i]
  BY WorkRecord
<1>. QED
  BY <1>1 DEF Inherited

LEMMA StoringInherited ==
    ASSUME StoreInv,
           \/ StoreFile \/ StorageLimit \/ FileIOError
           \/ Finished \/ DrawFails \/ Tick
    PROVE  Inherited(0)
<1>1. CASE Finished \/ DrawFails \/ Tick
  <2>1. records' = records
    BY <1>1 DEF Finished, DrawFails, Tick
  <2>. QED
    BY <2>1, SameInherited
<1>2. CASE StoreFile \/ StorageLimit \/ FileIOError
  <2>1. /\ work.op = "store" /\ work.pending # <<>>
        /\ \/ records' = With(Made,
                            [TheRecord(work.id) EXCEPT !.files = Append(@, Head(work.pending))])
           \/ \E reason \in {"storage_limit", "storage_io_error"} :
                 records' = With(Made, Drop(TheRecord(work.id), reason))
    BY <1>2 DEF StoreFile, StorageLimit, FileIOError
  <2>2. PICK i \in 1..Len(records) :
           records[i].id = work.id /\ TheRecord(work.id) = records[i]
    BY <2>1, WorkRecord
  <2>. DEFINE r == records[i]
              f == [r EXCEPT !.files = Append(@, Head(work.pending))]
  <2>3. r \in Artifacts(begun, now) /\ GoodRecord(r, work) /\ work \in Works(begun)
    BY StoreFacts
  <2>4. CASE records' = With(Made, f)
    <3>1. r.files \in FileLists /\ r.given \in FileLists /\ work.pending \in FileLists
      BY <2>3 DEF Artifacts, Works
    <3>2. r.reason = "none" \/ work.pending = <<>>
      BY <2>1, <2>2, <2>3 DEF GoodRecord
    <3>3. r.given = r.files \o work.pending
      BY <2>1, <2>2, <2>3, <3>2 DEF GoodRecord
    <3>4. Append(r.files, Head(work.pending)) \in FileLists
      BY <2>1, <3>1, <3>3, PendingFile
    <3>5. f \in Artifacts(begun, now) /\ f.id = work.id /\ f.given = r.given
      BY <2>2, <2>3, <3>4 DEF Artifacts
    <3>. HIDE DEF f
    <3>6. /\ Inherited(work.id)
          /\ \A k \in 1..Len(records') : records'[k].id = work.id => records'[k] = f
      BY <2>1, <2>4, <3>5, SwapInherited DEF Made
    <3>. QED
      BY <2>1, <2>2, <3>5, <3>6, WorkInherited
  <2>5. ASSUME NEW reason \in {"storage_limit", "storage_io_error"},
               records' = With(Made, Drop(r, reason))
        PROVE  Inherited(0)
    <3>. DEFINE g == Drop(r, reason)
    <3>1. g \in Artifacts(begun, now) /\ g.id = work.id /\ g.given = r.given
      BY <2>2, <2>3, Dropped DEF Reasons
    <3>2. records' = With(Made, g)
      BY <2>5
    <3>. HIDE DEF g
    <3>6. /\ Inherited(work.id)
          /\ \A k \in 1..Len(records') : records'[k].id = work.id => records'[k] = g
      BY <2>1, <3>1, <3>2, SwapInherited DEF Made
    <3>. QED
      BY <2>1, <2>2, <3>1, <3>6, WorkInherited
  <2>. QED
    BY <2>1, <2>2, <2>4, <2>5
<1>. QED
  BY <1>1, <1>2

LEMMA FinishGiven ==
    ASSUME StoreInv, NEW files \in FileLists,
           Finish(files) \/ SummaryIOError(files)
    PROVE  /\ Inherited(work.id)
           /\ \A k \in 1..Len(records') : records'[k].id = work.id => records'[k].given = files
<1>1. work.op = "run"
  BY DEF Finish, SummaryIOError
<1>2. PICK i \in 1..Len(records) :
         records[i].id = work.id /\ TheRecord(work.id) = records[i]
  BY <1>1, WorkRecord
<1>. DEFINE T == Artifacts(begun, now)
            c == Completed(files)
            d == Drop(c, "storage_io_error")
<1>3. records \in Seq(T) /\ records[i] \in T /\ now \in Nat
  BY StoreFacts
<1>4. c \in T /\ c.id = work.id /\ c.given = files
  <2>1. c = [records[i] EXCEPT !.created = now, !.done = now, !.given = files]
    BY <1>2 DEF Completed
  <2>2. now \in 0..now
    BY <1>3
  <2>. QED
    BY <1>2, <1>3, <2>1, <2>2 DEF Artifacts
<1>. HIDE DEF c
<1>5. d \in T /\ d.id = work.id /\ d.given = files
  BY <1>4, Dropped DEF Reasons
<1>6. records' = With(records, c) \/ records' = With(records, d)
  BY DEF Finish, SummaryIOError, c, d
<1>. HIDE DEF d
<1>7. ASSUME NEW s \in T, s.id = work.id, s.given = files, records' = With(records, s)
      PROVE  /\ Inherited(work.id)
             /\ \A k \in 1..Len(records') : records'[k].id = work.id => records'[k].given = files
  <2>1. /\ Len(records') = Len(records)
        /\ \A j \in 1..Len(records) :
              /\ records[j].id = s.id => records'[j] = s
              /\ records[j].id # s.id => records'[j] = records[j]
    <3>. DEFINE out == With(records, s)
    <3>1. /\ Len(out) = Len(records)
          /\ \A j \in 1..Len(records) : out[j] = IF records[j].id = s.id THEN s ELSE records[j]
      BY <1>3, Replaced
    <3>2. records' = out
      BY <1>7
    <3>. HIDE DEF out
    <3>. QED
      BY <3>1, <3>2
  <2>2. ASSUME NEW k \in 1..Len(records')
        PROVE  /\ records'[k].id = work.id => records'[k].given = files
               /\ records'[k].id # work.id => records'[k] = records[k]
    BY <1>7, <2>1
  <2>. QED
    BY <2>1, <2>2 DEF Inherited
<1>. QED
  BY <1>4, <1>5, <1>6, <1>7

LEMMA ServiceFacts ==
    ASSUME ServiceInv
    PROVE  /\ RegistryInv /\ StoreInv
           /\ jobs \in Seq(Job) /\ Len(jobs) = begun /\ DOMAIN jobs = 1..begun
           /\ \A id \in 1..begun : jobs[id] \in Job
           /\ DOMAIN records = 1..Len(records)
           /\ \A i \in 1..Len(records) :
                 /\ records[i] \in Artifacts(begun, now)
                 /\ records[i].id \in 1..begun
                 /\ Len(records[i].given) <= Len(jobs[records[i].id].names)
           /\ \A id \in 1..begun : jobs[id].target = "private" => jobs[id].names \in {<<>>, <<"json">>}
           /\ work.op # "none" => work.id \in 1..begun
<1>1. /\ RegistryInv /\ StoreInv /\ jobs \in Seq(Job) /\ Len(jobs) = begun
  BY DEF ServiceInv, TypeOK
<1>2. DOMAIN jobs = 1..begun /\ \A id \in 1..begun : jobs[id] \in Job
  BY <1>1
<1>3. /\ DOMAIN records = 1..Len(records)
      /\ \A i \in 1..Len(records) : records[i] \in Artifacts(begun, now)
      /\ work.op # "none" => \E i \in 1..Len(records) : records[i].id = work.id
  BY <1>1, StoreFacts
<1>4. \A i \in 1..Len(records) : records[i].id \in 1..begun
  BY <1>3 DEF Artifacts
<1>. QED
  BY <1>1, <1>2, <1>3, <1>4 DEF ServiceInv, Named

LEMMA RecordsNext ==
    ASSUME StoreInv'
    PROVE  /\ DOMAIN records' = 1..Len(records')
           /\ \A k \in 1..Len(records') : records'[k] \in Artifacts(begun', now') /\ records'[k].id \in 1..begun'
<1>1. records' \in Seq(Artifacts(begun', now'))
  BY DEF StoreInv, StoreTypeOK, Artifact, Artifacts
<1>2. /\ DOMAIN records' = 1..Len(records')
      /\ \A k \in 1..Len(records') : records'[k] \in Artifacts(begun', now')
  BY <1>1
<1>. QED
  BY <1>2 DEF Artifacts

(* The names stay with the files when no artifact gets others. *)
LEMMA NamedKept ==
    ASSUME ServiceInv, StoreInv', Inherited(0), begun' = begun, jobs' = jobs
    PROVE  Named'
<1>1. ASSUME NEW k \in 1..Len(records')
      PROVE  Len(records'[k].given) <= Len(jobs'[records'[k].id].names)
  <2>1. records'[k].id # 0
    BY RecordsNext
  <2>2. PICK j \in 1..Len(records) :
           records'[k].id = records[j].id /\ records'[k].given = records[j].given
    BY <2>1 DEF Inherited
  <2>. QED
    BY <2>2, ServiceFacts
<1>2. \A id \in 1..begun' : jobs'[id].target = "private" => jobs'[id].names \in {<<>>, <<"json">>}
  BY ServiceFacts
<1>. QED
  BY <1>1, <1>2, RecordsNext DEF Named

(* A call of the store by an operation. *)
LEMMA ServedInv ==
    ASSUME ServiceInv, phase = "serving", UNCHANGED registryVars, StoreInv',
           jobs' \in Seq(Job), Len(jobs') = begun', Named',
           work'.op \in {"run", "draw"} => jobs'[work'.id].session \in sessions,
           work'.op = "draw" => jobs'[work'.id].target # "private"
    PROVE  ServiceInv'
<1>1. RegistryInv'
  BY ServiceFacts, StutterInv
<1>2. TypeOK'
  <2>1. Job' = Job
    BY DEF Job, Started, registryVars
  <2>2. RegistryTypeOK' /\ StoreTypeOK'
    BY <1>1 DEF RegistryInv, StoreInv
  <2>. QED
    BY <2>1, <2>2 DEF TypeOK
<1>3. ToolsOrMiss'
  BY DEF ServiceInv, ToolsOrMiss, registryVars
<1>4. ForSessions'
  BY DEF ForSessions, registryVars
<1>. QED
  BY <1>1, <1>2, <1>3, <1>4 DEF ServiceInv

LEMMA OperationInv ==
    ASSUME ServiceInv, phase = "serving", UNCHANGED registryVars,
           NEW s \in Started, NEW kind, NEW target, Operation(s, kind, target),
           \/ kind = "evaluations" /\ target \in Targets
           \/ kind \in {"case_sets", "runs"} /\ target = "none"
    PROVE  ServiceInv'
<1>. DEFINE new == [session |-> s, kind |-> kind, target |-> target, names |-> <<>>]
<1>1. Begin /\ s \in sessions /\ jobs' = Append(jobs, new)
  BY DEF Operation
<1>2. StoreInv'
  BY <1>1, ServiceFacts, BeginInv
<1>3. new \in Job /\ new.session = s /\ new.target = target /\ new.names = <<>>
  <2>1. <<>> \in Seq(Names)
    OBVIOUS
  <2>2. target \in {"cases", "generated", "public", "private", "none"}
    BY McpServiceAssumption
  <2>. QED
    BY <2>1, <2>2, McpServiceAssumption DEF Job
<1>. HIDE DEF new
<1>4. /\ begun' = begun + 1 /\ begun \in Nat
      /\ work' = [op |-> "run", id |-> begun + 1, pending |-> <<>>]
  BY <1>1, ServiceFacts, StoreFacts DEF Begin
<1>5. /\ jobs' \in Seq(Job) /\ Len(jobs') = begun'
      /\ \A id \in 1..begun : jobs'[id] = jobs[id]
      /\ jobs'[begun + 1] = new
  BY <1>1, <1>3, <1>4, ServiceFacts
<1>6. ASSUME NEW k \in 1..Len(records')
      PROVE  Len(records'[k].given) <= Len(jobs'[records'[k].id].names)
  <2>. DEFINE room == Reserve(Prune(records))
  <2>1. records' = Append(room, NewArtifact(begun + 1))
    BY <1>1 DEF Begin, NewArtifact
  <2>2. room \in Seq(Artifacts(begun, now)) /\ \E d : Leaves(room, d)
    BY ServiceFacts, BegunFacts
  <2>. HIDE DEF room
  <2>3. PICK d : Leaves(room, d)
    BY <2>2
  <2>4. CASE k \in 1..Len(room)
    <3>1. /\ records'[k] = room[k] /\ d[k] \in 1..Len(records)
          /\ \/ room[k] = records[d[k]]
             \/ room[k] = Drop(records[d[k]], "evicted")
      <4>1. records'[k] = room[k]
        BY <2>1, <2>2, <2>4
      <4>2. /\ d[k] \in 1..Len(records)
            /\ \/ room[k] = records[d[k]]
               \/ room[k] = Drop(records[d[k]], "evicted")
        BY <2>3, <2>4 DEF Leaves, Increasing
      <4>. QED
        BY <4>1, <4>2
    <3>. DEFINE r == records[d[k]]
    <3>2. r \in Artifacts(begun, now) /\ r.id \in 1..begun /\ Len(r.given) <= Len(jobs[r.id].names)
      BY <3>1, ServiceFacts
    <3>3. Drop(r, "evicted").id = r.id /\ Drop(r, "evicted").given = r.given
      BY <3>2, Dropped DEF Reasons
    <3>4. records'[k].id = r.id /\ records'[k].given = r.given
      BY <3>1, <3>3
    <3>. HIDE DEF r
    <3>. QED
      BY <1>5, <3>2, <3>4
  <2>5. CASE k = Len(room) + 1
    <3>1. records'[k].id = begun + 1 /\ records'[k].given = <<>>
      BY <2>1, <2>2, <2>5 DEF NewArtifact
    <3>. QED
      BY <1>3, <1>5, <3>1
  <2>6. Len(records') = Len(room) + 1 /\ Len(room) \in Nat
    BY <2>1, <2>2
  <2>. QED
    BY <2>4, <2>5, <2>6
<1>7. \A id \in 1..begun' : jobs'[id].target = "private" => jobs'[id].names \in {<<>>, <<"json">>}
  <2>1. ASSUME NEW id \in 1..begun', jobs'[id].target = "private"
        PROVE  jobs'[id].names \in {<<>>, <<"json">>}
    <3>1. id \in 1..begun \/ id = begun + 1
      BY <1>4
    <3>. QED
      BY <1>3, <1>5, <2>1, <3>1, ServiceFacts
  <2>. QED
    BY <2>1
<1>8. Named'
  BY <1>2, <1>6, <1>7, RecordsNext DEF Named
<1>9. work'.op = "run" /\ work'.id = begun + 1
  BY <1>4
<1>. QED
  BY <1>1, <1>2, <1>3, <1>5, <1>8, <1>9, ServedInv

LEMMA ReturnsInv ==
    ASSUME ServiceInv, phase = "serving", UNCHANGED registryVars, OperationReturns
    PROVE  ServiceInv'
<1>1. PICK names \in Contents(jobs[work.id]) :
         /\ \E files \in [DOMAIN names -> Sizes] : Finish(files) \/ SummaryIOError(files)
         /\ jobs' = [jobs EXCEPT ![work.id].names = names]
  BY DEF OperationReturns
<1>2. PICK files \in [DOMAIN names -> Sizes] : Finish(files) \/ SummaryIOError(files)
  BY <1>1
<1>3. work.op = "run" /\ work.id \in 1..begun
  BY ServiceFacts DEF OperationReturns
<1>. DEFINE job == jobs[work.id]
<1>4. job \in Job
  BY <1>3, ServiceFacts
<1>5. names \in Seq(Names) /\ Len(names) <= 3
  <2>1. names \in {<<"input">>, <<"stdin", "stdout", "stderr">>, <<"json">>, <<"input", "json">>,
                   <<"input", "output", "json">>}
    BY DEF Contents
  <2>2. ASSUME NEW a \in Names PROVE <<a>> \in Seq(Names) /\ Len(<<a>>) <= 3
    OBVIOUS
  <2>3. ASSUME NEW a \in Names, NEW b \in Names
        PROVE  <<a, b>> \in Seq(Names) /\ Len(<<a, b>>) <= 3
    OBVIOUS
  <2>4. ASSUME NEW a \in Names, NEW b \in Names, NEW c \in Names
        PROVE  <<a, b, c>> \in Seq(Names) /\ Len(<<a, b, c>>) <= 3
    OBVIOUS
  <2>5. /\ "input" \in Names /\ "output" \in Names /\ "json" \in Names
        /\ "stdin" \in Names /\ "stdout" \in Names /\ "stderr" \in Names
    BY DEF Names
  <2>6. CASE names = <<"input">> \/ names = <<"json">>
    BY <2>2, <2>5, <2>6
  <2>7. CASE names = <<"input", "json">>
    BY <2>3, <2>5, <2>7
  <2>8. CASE names = <<"stdin", "stdout", "stderr">>
    BY <2>4, <2>5, <2>8
  <2>9. CASE names = <<"input", "output", "json">>
    BY <2>4, <2>5, <2>9
  <2>. QED
    BY <2>1, <2>6, <2>7, <2>8, <2>9
<1>6. files \in FileLists /\ Len(files) = Len(names)
  <2>1. files \in [1..Len(names) -> Sizes] /\ Len(names) \in Nat
    BY <1>5
  <2>. HIDE DEF Names
  <2>2. files \in Seq(Sizes) /\ Len(files) = Len(names)
    BY <2>1
  <2>3. Len(files) <= MaxFiles
    BY <1>5, <2>1, <2>2, McpServiceAssumption, StoreConstants
  <2>. QED
    BY <2>2, <2>3, FileList
<1>7. StoreInv'
  BY <1>2, <1>6, ServiceFacts, FinishInv
<1>8. /\ Inherited(work.id)
      /\ \A k \in 1..Len(records') : records'[k].id = work.id => records'[k].given = files
  BY <1>2, <1>6, ServiceFacts, FinishGiven
<1>9. /\ begun' = begun
      /\ work'.op \in {"none", "store"}
  <2>1. work \in Works(begun)
    BY ServiceFacts, StoreFacts
  <2>2. \/ work' = [work EXCEPT !.op = "store", !.pending = files]
        \/ work' = Idle
    BY <1>2 DEF Finish, SummaryIOError
  <2>3. work'.op \in {"none", "store"}
    <3>1. CASE work' = [work EXCEPT !.op = "store", !.pending = files]
      BY <2>1, <3>1 DEF Works
    <3>2. CASE work' = Idle
      BY <3>2, IdleWork, ServiceFacts
    <3>. QED
      BY <2>2, <3>1, <3>2
  <2>. QED
    BY <1>2, <2>3 DEF Finish, SummaryIOError
<1>10. /\ jobs' \in Seq(Job) /\ Len(jobs') = begun'
       /\ \A id \in 1..begun : id # work.id => jobs'[id] = jobs[id]
       /\ jobs'[work.id].names = names /\ jobs'[work.id].target = job.target
  <2>. DEFINE new == [job EXCEPT !.names = names]
  <2>1. new \in Job /\ new.names = names /\ new.target = job.target
    BY <1>4, <1>5 DEF Job
  <2>2. jobs' = [jobs EXCEPT ![work.id] = new]
    BY <1>1
  <2>. HIDE DEF new
  <2>. QED
    BY <1>3, <1>9, <2>1, <2>2, ServiceFacts
<1>11. ASSUME NEW k \in 1..Len(records')
       PROVE  Len(records'[k].given) <= Len(jobs'[records'[k].id].names)
  <2>1. CASE records'[k].id = work.id
    <3>1. records'[k].given = files
      BY <1>8, <2>1
    <3>. QED
      BY <1>5, <1>6, <1>10, <2>1, <3>1
  <2>2. CASE records'[k].id # work.id
    <3>1. PICK j \in 1..Len(records) :
             records'[k].id = records[j].id /\ records'[k].given = records[j].given
      BY <1>8, <2>2 DEF Inherited
    <3>. QED
      BY <1>10, <2>2, <3>1, ServiceFacts
  <2>. QED
    BY <2>1, <2>2
<1>12. ASSUME NEW id \in 1..begun', jobs'[id].target = "private"
       PROVE  jobs'[id].names \in {<<>>, <<"json">>}
  <2>1. CASE id = work.id
    <3>1. job.target = "private"
      BY <1>10, <1>12, <2>1
    <3>2. job.kind = "evaluations"
      BY <1>4, <3>1 DEF Job
    <3>3. names = <<"json">>
      BY <3>1, <3>2 DEF Contents
    <3>. QED
      BY <1>10, <2>1, <3>3
  <2>2. CASE id # work.id
    BY <1>9, <1>10, <1>12, <2>2, ServiceFacts
  <2>. QED
    BY <2>1, <2>2
<1>13. Named'
  BY <1>7, <1>11, <1>12, RecordsNext DEF Named
<1>. QED
  BY <1>7, <1>9, <1>10, <1>13, ServedInv

LEMMA ImageInv ==
    ASSUME ServiceInv, phase = "serving", UNCHANGED registryVars, Image
    PROVE  ServiceInv'
<1>1. PICK size \in Sizes : AddImage(size)
  BY DEF Image
<1>. DEFINE grown == \E i \in DOMAIN records' :
                         /\ records'[i].id = work.id
                         /\ Len(records'[i].files) > Len(TheRecord(work.id).files)
            need == size + EntryBytes
            made == MakeRoom(records, need, work.id)
            job == jobs[work.id]
<1>2. jobs' = IF grown THEN [jobs EXCEPT ![work.id].names = Append(@, "visualization")] ELSE jobs
  BY DEF Image
<1>3. StoreInv /\ StoreInv'
  BY <1>1, ServiceFacts, AddImageInv
<1>4. work.op = "draw" /\ work' = Idle /\ UNCHANGED <<now, removed, begun>>
  BY <1>1 DEF AddImage
<1>5. work.id \in 1..begun /\ job \in Job /\ job.target # "private"
  BY <1>4, ServiceFacts DEF ServiceInv, ForSessions
<1>6. PICK i \in 1..Len(records) :
         /\ records[i].id = work.id
         /\ TheRecord(work.id) = records[i]
         /\ \A j \in 1..Len(records) : records[j].id = work.id => j = i
  BY <1>3, <1>4, WorkRecord
<1>. DEFINE r == records[i]
            s == [r EXCEPT !.files = Append(@, size), !.given = Append(@, size)]
<1>7. r \in Artifacts(begun, now) /\ GoodRecord(r, work)
  BY <1>3, StoreFacts
<1>8. r.files = r.given /\ Len(r.files) < MaxFiles /\ r.files \in FileLists
  BY <1>4, <1>6, <1>7 DEF GoodRecord, Artifacts
<1>9. /\ r.files \in Seq(Sizes)
      /\ Append(r.files, size) \in FileLists
      /\ Len(Append(r.files, size)) = Len(r.files) + 1
      /\ Len(r.files) \in Nat
  <2>1. r.files \in Seq(Sizes)
    BY <1>8, FileList
  <2>. DEFINE a == Append(r.files, size)
  <2>2. a \in Seq(Sizes) /\ Len(a) = Len(r.files) + 1 /\ Len(r.files) \in Nat
    BY <2>1
  <2>3. Len(a) <= MaxFiles
    BY <1>8, <2>2, StoreConstants
  <2>. HIDE DEF a
  <2>4. a \in FileLists
    BY <2>2, <2>3, FileList
  <2>. QED
    BY <2>1, <2>2, <2>4 DEF a
<1>10. /\ s \in Artifacts(begun, now) /\ s.id = work.id
       /\ s.files = Append(r.files, size) /\ s.given = Append(r.files, size)
  BY <1>6, <1>7, <1>8, <1>9 DEF Artifacts
<1>11. /\ jobs' \in Seq(Job) /\ Len(jobs') = begun'
       /\ \A id \in 1..begun : id # work.id => jobs'[id] = jobs[id]
       /\ jobs'[work.id].target = job.target
       /\ Len(jobs'[work.id].names) = IF grown THEN Len(job.names) + 1 ELSE Len(job.names)
  <2>1. CASE grown
    <3>. DEFINE q == Append(job.names, "visualization")
                new == [job EXCEPT !.names = q]
    <3>1. job.names \in Seq(Names)
      BY <1>5 DEF Job
    <3>2. "visualization" \in Names
      BY DEF Names
    <3>3. q \in Seq(Names) /\ Len(q) = Len(job.names) + 1
      BY <3>1, <3>2
    <3>. HIDE DEF q
    <3>4. new \in Job /\ new.target = job.target /\ new.names = q
      BY <1>5, <3>3 DEF Job
    <3>5. jobs' = [jobs EXCEPT ![work.id] = new]
      BY <1>2, <2>1 DEF q
    <3>. HIDE DEF new, grown
    <3>6. /\ jobs' \in Seq(Job) /\ Len(jobs') = begun
          /\ \A id \in 1..begun : id # work.id => jobs'[id] = jobs[id]
          /\ jobs'[work.id] = new
      BY <1>5, <3>4, <3>5, ServiceFacts
    <3>. QED
      BY <1>4, <2>1, <3>3, <3>4, <3>6
  <2>2. CASE ~grown
    <3>1. jobs' = jobs
      BY <1>2, <2>2
    <3>. HIDE DEF grown
    <3>. QED
      BY <1>4, <2>2, <3>1, ServiceFacts
  <2>. QED
    BY <2>1, <2>2
<1>12. /\ Inherited(work.id)
       /\ \A k \in 1..Len(records') : records'[k].id = work.id =>
             Len(records'[k].given) <= IF grown THEN Len(r.given) + 1 ELSE Len(r.given)
  <2>1. CASE records' = made
    <3>1. /\ Inherited(0)
          /\ Len(records') = Len(records)
          /\ \A k \in 1..Len(records) :
                /\ records'[k].id = records[k].id
                /\ records[k].id = work.id => records'[k] = records[k]
      BY <1>3, <1>4, <2>1, MadeInherited
    <3>2. Inherited(work.id)
      <4>1. \A k \in 1..Len(records') : records'[k].id # 0
        BY <1>3, RecordsNext
      <4>. QED
        BY <3>1, <4>1 DEF Inherited
    <3>3. ASSUME NEW k \in 1..Len(records'), records'[k].id = work.id
          PROVE  records'[k].given = r.given
      BY <1>6, <3>1, <3>3
    <3>. HIDE DEF grown
    <3>. QED
      BY <1>8, <1>9, <3>2, <3>3
  <2>2. CASE records' = With(made, s)
    <3>. HIDE DEF s
    <3>1. /\ Inherited(work.id)
          /\ Len(records') = Len(records)
          /\ \A k \in 1..Len(records') : records'[k].id = work.id => records'[k] = s
      BY <1>3, <1>4, <1>10, <2>2, SwapInherited
    <3>2. ASSUME NEW k \in 1..Len(records'), records'[k].id = work.id
          PROVE  grown /\ Len(records'[k].given) = Len(r.given) + 1
      <4>1. records'[k].files = Append(r.files, size) /\ records'[k].given = Append(r.files, size)
        BY <1>10, <3>1, <3>2
      <4>2. Len(records'[k].files) > Len(r.files)
        BY <1>9, <4>1
      <4>3. k \in DOMAIN records'
        BY <1>3, <3>2, RecordsNext
      <4>4. grown
        BY <1>6, <3>2, <4>2, <4>3
      <4>. QED
        BY <1>8, <1>9, <4>1, <4>4
    <3>. QED
      <4>. HIDE DEF grown
      <4>. QED
        BY <1>8, <1>9, <3>1, <3>2
  <2>3. records' = made \/ records' = With(made, s)
    BY <1>1, <1>6 DEF AddImage
  <2>. QED
    BY <2>1, <2>2, <2>3
<1>. HIDE DEF grown
<1>13. ASSUME NEW k \in 1..Len(records')
       PROVE  Len(records'[k].given) <= Len(jobs'[records'[k].id].names)
  <2>1. CASE records'[k].id = work.id
    <3>1. Len(r.given) <= Len(job.names)
      BY <1>6, ServiceFacts
    <3>2. Len(r.given) \in Nat /\ Len(records'[k].given) \in Nat /\ Len(job.names) \in Nat
      <4>1. records'[k].given \in FileLists
        BY <1>3, RecordsNext DEF Artifacts
      <4>2. records'[k].given \in Seq(Sizes)
        BY <4>1, FileList
      <4>3. job.names \in Seq(Names)
        BY <1>5 DEF Job
      <4>. QED
        BY <1>8, <1>9, <4>2, <4>3
    <3>. DEFINE x == Len(records'[k].given)
                y == Len(r.given)
                u == Len(job.names)
                v == Len(jobs'[work.id].names)
    <3>3. x <= IF grown THEN y + 1 ELSE y
      BY <1>12, <2>1
    <3>4. v = IF grown THEN u + 1 ELSE u
      BY <1>11
    <3>6. x \in Nat /\ y \in Nat /\ u \in Nat /\ y <= u
      BY <3>1, <3>2
    <3>. HIDE DEF x, y, u, v
    <3>7. ASSUME grown PROVE x <= v
      BY <3>3, <3>4, <3>6, <3>7
    <3>8. ASSUME ~grown PROVE x <= v
      BY <3>3, <3>4, <3>6, <3>8
    <3>5. x <= v
      BY <3>7, <3>8
    <3>. QED
      BY <2>1, <3>5 DEF x, v
  <2>2. CASE records'[k].id # work.id
    <3>1. PICK j \in 1..Len(records) :
             records'[k].id = records[j].id /\ records'[k].given = records[j].given
      BY <1>12, <2>2 DEF Inherited
    <3>. QED
      BY <1>11, <2>2, <3>1, ServiceFacts
  <2>. QED
    BY <2>1, <2>2
<1>14. ASSUME NEW id \in 1..begun', jobs'[id].target = "private"
       PROVE  jobs'[id].names \in {<<>>, <<"json">>}
  <2>1. id # work.id
    BY <1>5, <1>11, <1>14
  <2>. QED
    BY <1>4, <1>11, <1>14, <2>1, ServiceFacts
<1>15. Named'
  BY <1>3, <1>13, <1>14, RecordsNext DEF Named
<1>16. work'.op = "none"
  BY <1>3, <1>4, IdleWork
<1>. QED
  BY <1>3, <1>11, <1>15, <1>16, ServedInv

(* The calls that leave what the artifacts are. *)
LEMMA SameJobsInv ==
    ASSUME ServiceInv, phase = "serving", UNCHANGED <<registryVars, jobs, begun>>,
           StoreInv', Inherited(0),
           \/ work'.op \in {"none", "store"}
           \/ UNCHANGED work
           \/ /\ jobs[work'.id].session \in sessions
              /\ jobs[work'.id].target # "private"
    PROVE  ServiceInv'
<1>1. Named'
  BY NamedKept
<1>2. jobs' \in Seq(Job) /\ Len(jobs') = begun'
  BY ServiceFacts
<1>3. /\ work'.op \in {"run", "draw"} => jobs'[work'.id].session \in sessions
      /\ work'.op = "draw" => jobs'[work'.id].target # "private"
  BY DEF ServiceInv, ForSessions
<1>. QED
  BY <1>1, <1>2, <1>3, ServedInv

LEMMA OtherCallsInv ==
    ASSUME ServiceInv, phase = "serving", UNCHANGED registryVars,
           \/ OperationFails \/ Storing \/ NoImage
           \/ Tick /\ UNCHANGED jobs
           \/ \E id \in 1..begun : Visualize(id) \/ \E own \in BOOLEAN : ReadResource(id, own)
    PROVE  ServiceInv'
<1>1. StoreInv
  BY ServiceFacts
<1>2. CASE OperationFails
  <2>1. Fails /\ UNCHANGED jobs
    BY <1>2 DEF OperationFails
  <2>2. begun' = begun /\ work' = Idle
    BY <2>1 DEF Fails
  <2>3. work'.op = "none"
    BY <1>1, <2>2, IdleWork
  <2>. QED
    BY <1>1, <2>1, <2>2, <2>3, FailsInv, FailsInherited, SameJobsInv
<1>3. CASE Storing
  <2>1. /\ StoreFile \/ StorageLimit \/ FileIOError \/ Finished
        /\ UNCHANGED jobs
    BY <1>3 DEF Storing
  <2>2. work \in Works(begun)
    BY <1>1, StoreFacts
  <2>3. /\ begun' = begun
        /\ \/ \E p : work.op = "store" /\ work' = [work EXCEPT !.pending = p]
           \/ work' = Idle
    BY <2>1 DEF StoreFile, StorageLimit, FileIOError, Finished
  <2>4. work'.op \in {"none", "store"}
    <3>1. ASSUME NEW p, work.op = "store", work' = [work EXCEPT !.pending = p]
          PROVE  work'.op = "store"
      BY <2>2, <3>1 DEF Works
    <3>2. CASE work' = Idle
      BY <1>1, <3>2, IdleWork
    <3>. QED
      BY <2>3, <3>1, <3>2
  <2>5. StoreInv'
    BY <1>1, <2>1, StoreFileInv, StoreNoneInv, EndOfWorkInv
  <2>. QED
    BY <1>1, <2>1, <2>3, <2>4, <2>5, StoringInherited, SameJobsInv
<1>4. CASE NoImage
  <2>1. DrawFails /\ UNCHANGED jobs
    BY <1>4 DEF NoImage
  <2>2. begun' = begun /\ work' = Idle
    BY <2>1 DEF DrawFails
  <2>3. work'.op = "none"
    BY <1>1, <2>2, IdleWork
  <2>. QED
    BY <1>1, <2>1, <2>2, <2>3, EndOfWorkInv, StoringInherited, SameJobsInv
<1>5. CASE Tick /\ UNCHANGED jobs
  <2>1. UNCHANGED <<begun, work>>
    BY <1>5 DEF Tick
  <2>. QED
    BY <1>1, <1>5, <2>1, TickInv, StoringInherited, SameJobsInv
<1>6. ASSUME NEW id \in 1..begun, Visualize(id)
      PROVE  ServiceInv'
  <2>1. /\ Draw(id) /\ UNCHANGED jobs
        /\ jobs[id].session \in sessions /\ jobs[id].target # "private"
    BY <1>6 DEF Visualize
  <2>2. /\ records' = Accessed(id, TRUE) /\ begun' = begun
        /\ work' = [op |-> "draw", id |-> id, pending |-> <<>>]
    BY <2>1 DEF Draw
  <2>3. work'.id = id
    BY <2>2
  <2>. QED
    BY <1>1, <2>1, <2>2, <2>3, VisualizeInv, AccessInherited, SameJobsInv
<1>7. ASSUME NEW id \in 1..begun, NEW own \in BOOLEAN, ReadResource(id, own)
      PROVE  ServiceInv'
  <2>1. Read(id, own) /\ UNCHANGED jobs
    BY <1>7 DEF ReadResource
  <2>2. records' = Accessed(id, own) /\ UNCHANGED <<begun, work>>
    BY <2>1 DEF Read
  <2>. QED
    BY <1>1, <2>1, <2>2, ReadInv, AccessInherited, SameJobsInv
<1>. QED
  BY <1>2, <1>3, <1>4, <1>5, <1>6, <1>7

(* The sessions change while no operation is under way. *)
LEMMA SessionsStore ==
    ASSUME ServiceInv, Sessions
    PROVE  StoreInv'
<1>1. StoreInv /\ work = Idle /\ UNCHANGED <<now, begun, work>>
  BY ServiceFacts DEF Sessions
<1>2. CASE phase' \in {"serving", "lifespan"}
  <2>1. UNCHANGED storeVars
    BY <1>1, <1>2 DEF Sessions, storeVars
  <2>. QED
    BY <1>1, <2>1, StoreStutter
<1>3. CASE phase' \notin {"serving", "lifespan"}
  <2>1. records' = <<>> /\ removed' = <<>>
    BY <1>3 DEF Sessions
  <2>2. /\ now' \in 0..MaxNow /\ begun' \in 0..MaxIds /\ work' \in Works(begun')
        /\ work' = Idle /\ work'.op = "none"
    BY <1>1, StoreFacts, StoreConstants, IdleWork
  <2>3. /\ records' \in Seq(Artifacts(begun', now')) /\ removed' \in Seq(Forgotten(begun'))
        /\ Len(records') = 0 /\ Len(removed') = 0
    BY <2>1
  <2>4. Used(records') <= MaxBytes /\ Len(records') <= MaxRecords /\ Len(removed') <= MaxRecords
    BY <2>1, <2>3, UsedEmpty, StoreConstants
  <2>5. /\ \A i, j \in 1..Len(records') : records'[i].id = records'[j].id => i = j
        /\ \A i \in 1..Len(records') : GoodRecord(records'[i], work')
        /\ \A x : In(x, removed') => \A j \in 1..Len(records') : x.id # records'[j].id
    BY <2>3
  <2>. QED
    BY <2>2, <2>3, <2>4, <2>5, StoreInvNext
<1>. QED
  BY <1>2, <1>3

LEMMA SessionsTools ==
    ASSUME ServiceInv, RegistryNext
    PROVE  ToolsOrMiss'
<1>1. /\ RegistryTypeOK /\ ToolsOrMiss
      /\ problem \in Seq(Problems) /\ misses \in [Started -> Counts] /\ sessions \subseteq Started
  BY DEF ServiceInv, RegistryInv, RegistryTypeOK
<1>2. SUFFICES ASSUME phase' = "serving", NEW s \in sessions', s \notin dirs' PROVE misses'[s].server > 0
  BY DEF ToolsOrMiss
<1>3. ASSUME NEW p \in Problems, Start(p) PROVE misses'[s].server > 0
  <2>1. NoMiss \in Counts
    BY DEF NoMiss, Counts
  <2>2. misses \in [DOMAIN problem -> Counts]
    BY <1>1 DEF Started
  <2>3. \A t \in DOMAIN problem : Append(misses, NoMiss)[t] = misses[t]
    BY <1>1, <2>1, <2>2, Grow
  <2>4. s \in sessions /\ s \notin dirs /\ phase = "serving" /\ misses' = Append(misses, NoMiss)
    BY <1>2, <1>3 DEF Start, MayStart
  <2>. QED
    BY <1>1, <2>3, <2>4 DEF ToolsOrMiss, Started
<1>4. ASSUME NEW p \in Problems, NEW server \in {"none", "created"}, StartFails(p, server)
      PROVE  misses'[s].server > 0
  <2>1. NoMiss \in Counts
    BY DEF NoMiss, Counts
  <2>2. misses \in [DOMAIN problem -> Counts]
    BY <1>1 DEF Started
  <2>3. \A t \in DOMAIN problem : Append(misses, NoMiss)[t] = misses[t]
    BY <1>1, <2>1, <2>2, Grow
  <2>4. s \in sessions /\ s \notin dirs /\ phase = "serving" /\ misses' = Append(misses, NoMiss)
    BY <1>2, <1>4 DEF StartFails, MayStart
  <2>. QED
    BY <1>1, <2>3, <2>4 DEF ToolsOrMiss, Started
<1>5. ASSUME NEW t \in Started, CloseSession(t) PROVE misses'[s].server > 0
  <2>1. PICK kept \in Keepable(t), removal \in Removals(t) :
           /\ Close(t, kept, removal)
           /\ sessions' = IF removal.returns THEN sessions \ {t} ELSE sessions
    BY <1>5 DEF CloseSession
  <2>2. phase = "serving" /\ s \in sessions /\ s \in Started
    BY <1>1, <1>2, <1>5, <2>1 DEF CloseSession
  <2>3. misses[s] \in Counts /\ misses[s].dir \in Nat /\ misses[s].server \in Nat
    BY <1>1, <2>2 DEF Counts
  <2>4. /\ misses'[t].server = misses[t].server + (IF removal.returns THEN 0 ELSE 1)
        /\ s # t => misses'[s] = misses[s] /\ (s \in dirs' <=> s \in dirs)
    BY <2>1, <2>2, CloseFacts DEF ServiceInv
  <2>5. CASE s = t
    <3>1. ~removal.returns
      BY <1>2, <2>1, <2>5
    <3>2. misses'[s].server = misses[s].server + 1
      BY <2>4, <2>5, <3>1
    <3>. QED
      BY <2>3, <3>2
  <2>6. CASE s # t
    BY <1>1, <1>2, <2>2, <2>4, <2>6 DEF ToolsOrMiss
  <2>. QED
    BY <2>5, <2>6
<1>6. ASSUME NEW t \in Started, Vanishes(t) PROVE misses'[s].server > 0
  BY <1>1, <1>2, <1>6 DEF Vanishes, ToolsOrMiss
<1>7. ASSUME NEW t \in Started, CloseNext(t) PROVE misses'[s].server > 0
  BY <1>2, <1>7 DEF CloseNext
<1>8. CASE Shutdown \/ AtExit \/ Exits
  BY <1>2, <1>8 DEF Shutdown, AtExit, Exits
<1>. QED
  BY <1>3, <1>4, <1>5, <1>6, <1>7, <1>8 DEF RegistryNext

(* The sessions that were started are there afterwards. *)
LEMMA StartedGrows ==
    ASSUME RegistryInv, RegistryNext
    PROVE  Started \subseteq Started'
<1>1. problem \in Seq(Problems)
  BY DEF RegistryInv, RegistryTypeOK
<1>2. ASSUME NEW p \in Problems, problem' = Append(problem, p) PROVE Started \subseteq Started'
  BY <1>1, <1>2 DEF Started
<1>3. CASE problem' = problem
  BY <1>3 DEF Started
<1>. QED
  BY <1>2, <1>3 DEF RegistryNext, Start, StartFails, CloseSession, Vanishes, CloseNext,
                    Shutdown, AtExit, Exits

LEMMA SessionsInv ==
    ASSUME ServiceInv, Sessions
    PROVE  ServiceInv'
<1>1. RegistryInv /\ RegistryNext /\ Next /\ work = Idle /\ UNCHANGED <<now, begun, work, jobs>>
  BY ServiceFacts DEF Sessions, Next
<1>2. RegistryInv' /\ StoreInv' /\ ToolsOrMiss'
  BY <1>1, NextInv, SessionsStore, SessionsTools
<1>3. jobs' \in Seq(Job')
  <2>1. Job \subseteq Job'
    BY <1>1, StartedGrows DEF Job
  <2>2. jobs \in Seq(Job)
    BY ServiceFacts
  <2>. HIDE DEF Job
  <2>3. jobs \in Seq(Job')
    BY <2>1, <2>2
  <2>. QED
    BY <1>1, <2>3
<1>4. TypeOK'
  BY <1>1, <1>2, <1>3, ServiceFacts DEF TypeOK, RegistryInv, StoreInv
<1>5. work'.op = "none"
  BY <1>1, ServiceFacts, IdleWork
<1>6. Named'
  <2>1. records' = records \/ records' = <<>>
    BY DEF Sessions
  <2>. QED
    BY <1>1, <2>1, ServiceFacts DEF Named
<1>7. ForSessions'
  BY <1>5 DEF ForSessions
<1>. QED
  BY <1>2, <1>4, <1>6, <1>7 DEF ServiceInv

LEMMA ServiceNext ==
    ASSUME ServiceInv, [Next]_vars
    PROVE  ServiceInv'
<1>1. CASE Sessions
  BY <1>1, SessionsInv
<1>2. CASE phase = "serving" /\ Serve /\ UNCHANGED registryVars
  <2>1. ASSUME NEW s \in Started,
               Generate(s) \/ RunCode(s) \/ \E target \in Targets : Evaluate(s, target)
        PROVE  ServiceInv'
    BY <1>2, <2>1, OperationInv DEF Generate, RunCode, Evaluate
  <2>2. CASE OperationReturns
    BY <1>2, <2>2, ReturnsInv
  <2>3. CASE Image
    BY <1>2, <2>3, ImageInv
  <2>4. CASE \/ OperationFails \/ Storing \/ NoImage
             \/ Tick /\ UNCHANGED jobs
             \/ \E id \in 1..begun : Visualize(id) \/ \E own \in BOOLEAN : ReadResource(id, own)
    BY <1>2, <2>4, OtherCallsInv
  <2>. QED
    BY <1>2, <2>1, <2>2, <2>3, <2>4 DEF Serve
<1>3. CASE UNCHANGED vars
  <2>1. /\ UNCHANGED storeVars /\ UNCHANGED registryVars /\ UNCHANGED <<jobs, work, records, begun>>
    BY <1>3 DEF vars, storeVars, storeVars
  <2>2. StoreInv' /\ RegistryInv'
    BY <2>1, ServiceFacts, StoreStutter, StutterInv
  <2>3. TypeOK'
    <3>1. Job' = Job
      BY <2>1 DEF Job, Started, registryVars
    <3>. QED
      BY <2>1, <2>2, <3>1, ServiceFacts DEF TypeOK, RegistryInv, StoreInv
  <2>4. ToolsOrMiss' /\ Named' /\ ForSessions'
    BY <2>1 DEF ServiceInv, ToolsOrMiss, Named, ForSessions, registryVars
  <2>. QED
    BY <2>2, <2>3, <2>4 DEF ServiceInv
<1>. QED
  BY <1>1, <1>2, <1>3 DEF Next

LEMMA ServiceInit ==
    ASSUME Init
    PROVE  ServiceInv
<1>1. RegistryInv /\ StoreInv
  BY InitInv, StoreInitInv DEF Init
<1>2. /\ jobs = <<>> /\ begun = 0 /\ records = <<>> /\ work = Idle /\ sessions = {}
  BY DEF Init, StoreInit, RegistryInit
<1>3. TypeOK
  <2>1. jobs \in Seq(Job) /\ Len(jobs) = begun
    BY <1>2
  <2>. QED
    BY <1>1, <2>1 DEF TypeOK, RegistryInv, StoreInv
<1>4. work.op = "none"
  BY <1>1, <1>2, IdleWork
<1>5. ToolsOrMiss /\ Named /\ ForSessions
  BY <1>2, <1>4 DEF ToolsOrMiss, Named, ForSessions
<1>. QED
  BY <1>1, <1>3, <1>5 DEF ServiceInv

\* The invariant of the sessions and the artifacts together, whatever the clients call
\* and whatever fails.
THEOREM ServiceSafe == Spec => []ServiceInv
<1>1. Init => ServiceInv
  BY ServiceInit
<1>2. ServiceInv /\ [Next]_vars => ServiceInv'
  BY ServiceNext
<1>. QED
  BY <1>1, <1>2, PTL DEF Spec

\* The sessions, the artifacts and what is known of each keep their types.
THEOREM ServiceTypes == Spec => []TypeOK
<1>1. ServiceInv => TypeOK
  BY DEF ServiceInv
<1>. QED
  BY <1>1, ServiceSafe, PTL

(* A record has no more files in the store than its operation produced. *)
LEMMA FewerFiles ==
    ASSUME StoreInv, NEW i \in 1..Len(records)
    PROVE  Len(records[i].files) <= Len(records[i].given)
<1>. DEFINE r == records[i]
<1>1. /\ r \in Artifacts(begun, now) /\ GoodRecord(r, work) /\ work \in Works(begun)
      /\ work.op = "none" => work = Idle
  BY StoreFacts
<1>2. /\ r.files \in Seq(Sizes) /\ r.given \in Seq(Sizes) /\ work.pending \in Seq(Sizes)
      /\ work.op \in {"none", "run", "store", "draw"} /\ r.id # 0
  BY <1>1, FileList DEF Artifacts, Works
<1>3. r.files = <<>> \/ r.files = r.given \/ r.given = r.files \o work.pending
  <2>1. work.op = "none" => r.id # work.id
    BY <1>1, <1>2, IdleWork
  <2>. HIDE DEF r
  <2>. QED
    BY <1>1, <1>2, <2>1 DEF GoodRecord
<1>. DEFINE f == r.files
            g == r.given
            p == work.pending
<1>4. f \in Seq(Sizes) /\ g \in Seq(Sizes) /\ p \in Seq(Sizes)
  BY <1>2
<1>6. f = <<>> \/ f = g \/ g = f \o p
  BY <1>3
<1>. HIDE DEF f, g, p
<1>5. Len(f) <= Len(g)
  BY <1>4, <1>6
<1>. QED
  BY <1>5 DEF f, g

\* Nothing of a private evaluation's cases but their scores is ever in the store.
THEOREM PrivateCasesNeverKept == Spec => []PrivateNeverKept
<1>1. ServiceInv => PrivateNeverKept
  <2>. SUFFICES ASSUME ServiceInv, NEW id \in 1..begun, jobs[id].target = "private", Live(id),
                       NEW name \in Names \ {"json"}, Has(id, name)
                PROVE  FALSE
    BY DEF PrivateNeverKept
  <2>1. StoreInv /\ jobs[id].names \in {<<>>, <<"json">>}
    BY ServiceFacts
  <2>2. PICK i \in 1..Len(records) : records[i].id = id
    BY ServiceFacts DEF Live
  <2>3. TheRecord(id) = records[i]
    BY <2>1, <2>2, TheOne
  <2>. DEFINE n == Len(records[i].files)
              names == jobs[id].names
  <2>4. Len(records[i].files) <= Len(records[i].given) /\ Len(records[i].given) <= Len(names)
    BY <2>1, <2>2, FewerFiles, ServiceFacts
  <2>5. n \in Nat /\ Len(records[i].given) \in Nat
    <3>1. records[i].files \in FileLists /\ records[i].given \in FileLists
      BY <2>2, ServiceFacts DEF Artifacts
    <3>. QED
      BY <3>1, FileList
  <2>6. names \in Seq({"json"})
    <3>1. <<>> \in Seq({"json"}) /\ <<"json">> \in Seq({"json"})
      OBVIOUS
    <3>. QED
      BY <2>1, <3>1
  <2>7. n <= Len(names) /\ Len(names) \in Nat
    BY <2>4, <2>5, <2>6
  <2>8. PICK k \in DOMAIN SubSeq(names, 1, n) : SubSeq(names, 1, n)[k] = name
    BY <2>3 DEF Has, Kept
  <2>. HIDE DEF n, names
  <2>9. SubSeq(names, 1, n) \in Seq({"json"})
    BY <2>5, <2>6, <2>7
  <2>10. name \in {"json"}
    BY <2>8, <2>9
  <2>. QED
    BY <2>10
<1>. QED
  BY <1>1, ServiceSafe, PTL

\* Nothing is run or drawn for a session that is not in the registry or whose tools are
\* gone, unless a close of it failed halfway.
THEOREM WorkHasTools == Spec => []WorksWithTools
<1>1. ServiceInv => WorksWithTools
  <2>. SUFFICES ASSUME ServiceInv, work.op \in {"run", "draw"}
                PROVE  LET s == jobs[work.id].session
                       IN  s \in sessions /\ (s \notin dirs => misses[s].server > 0)
    BY DEF WorksWithTools
  <2>. QED
    BY DEF ServiceInv, ForSessions, ToolsOrMiss
<1>. QED
  BY <1>1, ServiceSafe, PTL

=============================================================================
