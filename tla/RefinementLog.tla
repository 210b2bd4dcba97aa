---------------------------- MODULE RefinementLog ----------------------------
(***************************************************************************)
(* What self-refinement promises of its record: a chain that only grows,   *)
(* each link generated from the messages and the feedback of the one       *)
(* before, until the model's context is full.                              *)
(***************************************************************************)
EXTENDS Integers, Sequences

CONSTANTS Initial, NoGen

VARIABLE log

Last == log[Len(log)]
FeedbackOf(e) == IF e.empty THEN NoGen ELSE e.gen

Init == log = <<Initial>>

\* A link is a new answer, or the overflow that ends the chain.
Extend ==
    /\ ~Last.overflow
    /\ Len(log') = Len(log) + 1
    /\ SubSeq(log', 1, Len(log)) = log
    /\ log'[Len(log')].history = Last.gen
    /\ log'[Len(log')].feedback = FeedbackOf(Last)

Next == Extend

Spec == Init /\ [][Next]_log
=============================================================================
