---------------------------- MODULE SessionBudget ----------------------------
(***************************************************************************)
(* What a Session promises, in session time: time that stands still while  *)
(* no process holds the session.  Every charge is of a field that still    *)
(* had room, results are credited only when they fit, nothing follows the  *)
(* private evaluation, public evaluations keep their interval, and a       *)
(* restart continues exactly where the last complete save left off.        *)
(***************************************************************************)
EXTENDS Integers

CONSTANTS Fields, Maximum, Rated, Interval, Private, Public, Never

VARIABLES
    elapsed,    \* session time used up
    spent,      \* what each field was charged
    credited,   \* what the results handed out and recorded were charged
    lastBegun,  \* session time of the last public evaluation, or Never
    pending,    \* a public evaluation is running
    snapshot    \* the saved state: no element or one

vars == <<elapsed, spent, credited, lastBegun, pending, snapshot>>

Zero == [f \in Fields |-> 0]
Image == [elapsed |-> elapsed, spent |-> spent, credited |-> credited,
          lastBegun |-> lastBegun]

Init ==
    /\ elapsed = 0
    /\ spent = Zero
    /\ credited = Zero
    /\ lastBegun = Never
    /\ ~pending
    /\ snapshot = {}

TimePasses ==
    /\ elapsed' = elapsed + 1
    /\ UNCHANGED <<spent, credited, lastBegun, pending, snapshot>>

BeginPublic ==
    /\ ~pending
    /\ spent[Private] < Maximum[Private]
    /\ spent[Public] < Maximum[Public]
    /\ Rated /\ lastBegun # Never => elapsed >= lastBegun + Interval
    /\ lastBegun' = elapsed
    /\ pending' = TRUE
    /\ UNCHANGED <<elapsed, spent, credited, snapshot>>

Abandon ==
    /\ pending
    /\ pending' = FALSE
    /\ UNCHANGED <<elapsed, spent, credited, lastBegun, snapshot>>

Settle ==
    LET grown == {f \in Fields : spent'[f] # spent[f]}
        fits == \A f \in grown : spent'[f] <= Maximum[f]
    IN  /\ spent[Private] < Maximum[Private]
        /\ spent' \in [Fields -> Nat]
        /\ \A f \in grown : spent[f] < Maximum[f] /\ spent[f] < spent'[f]
        /\ Public \in grown => pending /\ spent'[Public] = spent[Public] + 1
        /\ credited' = IF fits
                       THEN [f \in Fields |-> credited[f] + (spent'[f] - spent[f])]
                       ELSE credited
        /\ pending' = FALSE
        /\ UNCHANGED <<elapsed, lastBegun, snapshot>>

\* A save in progress has destroyed the previous snapshot.
Forget ==
    /\ snapshot' = {}
    /\ UNCHANGED <<elapsed, spent, credited, lastBegun, pending>>

Take ==
    /\ ~pending
    /\ snapshot' = {Image}
    /\ UNCHANGED <<elapsed, spent, credited, lastBegun, pending>>

\* The session is lost; what can follow is a new one or the saved one.
Lose ==
    /\ elapsed' = 0
    /\ spent' = Zero
    /\ credited' = Zero
    /\ lastBegun' = Never
    /\ pending' = FALSE
    /\ UNCHANGED snapshot

Resume ==
    /\ Image' \in snapshot
    /\ pending' = FALSE
    /\ UNCHANGED snapshot

Next ==
    \/ TimePasses
    \/ BeginPublic
    \/ Abandon
    \/ Settle
    \/ Forget
    \/ Take
    \/ Lose
    \/ Resume

Spec == Init /\ [][Next]_vars

=============================================================================
