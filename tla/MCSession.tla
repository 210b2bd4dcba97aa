------------------------------ MODULE MCSession ------------------------------
(* Values of Session's constants for TLC.                                  *)
EXTENDS Session

MCMaximum == [f \in Fields |-> CASE f = "num_case_gen" -> 2
                                 [] f = "num_case_eval" -> 2
                                 [] f = "num_call_public_eval" -> 2
                                 [] f = "num_call_private_eval" -> 1
                                 [] f = "execution_time_case_eval" -> 1]

MCRestartMaximum == [MCMaximum EXCEPT !["num_case_gen"] = 1]
=============================================================================
