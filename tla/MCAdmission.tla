---------------------------- MODULE MCAdmission ----------------------------
(***************************************************************************)
(* Small caps for model-checking Admission.  The submits run the same      *)
(* code, so permuting them changes no safety property.                     *)
(***************************************************************************)
EXTENDS Admission, TLC

CONSTANTS r1, r2, write

OnePurpose == [r \in Requests |-> write]

Window(duration, input, output) == [duration |-> duration, input |-> input, output |-> output]

\* One caller, which always sends the same caps.
OneCaller == {[concurrency |-> 2, windows |-> {Window(1, 2, None), Window(3, None, 2)}]}

\* Callers that cap nothing, the concurrency alone, or a window alone.
ManyCallers == {[concurrency |-> None, windows |-> {}],
                [concurrency |-> 1, windows |-> {}],
                [concurrency |-> None, windows |-> {Window(1, 0, 1)}]}

OneAnswer == {[input |-> 2, output |-> 1]}

SubmitSymmetry == Permutations(Submits)

=============================================================================
