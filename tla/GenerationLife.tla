--------------------------- MODULE GenerationLife ---------------------------
(***************************************************************************)
(* What the owner of a generation is promised, whatever processes race     *)
(* over it and whatever lands late: its request reaches the provider once  *)
(* at most, the generation settles once, and how it ended says what became *)
(* of the call.  There are no processes, no reads and no clock here.       *)
(*                                                                         *)
(* The classes of failure are those a caller decides on whether to resend  *)
(* its request: a resend after anything but outcome_unknown finds nothing  *)
(* of the first call still running, nor able to run later.                 *)
(***************************************************************************)
CONSTANT None

VARIABLES
    status,   \* what a poll reads, "absent" before the submit committed
    failure,  \* the class of its failure
    asked,    \* whether the owner asked to cancel
    work,     \* the call: "unsent", "sent", "refused", or how it ended
    metered,  \* whether the call ended with usage to count
    answer,   \* the answer kept: how the call ended, or its rejection
    counted   \* whether its usage is counted

vars == <<status, failure, asked, work, metered, answer, counted>>

Over == {"succeeded", "failed", "cancelled"}

\* An earlier release may have left the generation pending, with nothing to send.
Init ==
    /\ status \in {"absent", "pending"}
    /\ asked \in BOOLEAN
    /\ asked => status = "pending"
    /\ failure = None
    /\ work = "unsent"
    /\ metered = FALSE
    /\ answer = None
    /\ counted = FALSE

Record ==
    /\ status = "absent"
    /\ status' = "pending"
    /\ UNCHANGED <<failure, asked, work, metered, answer, counted>>

Ask ==
    /\ status \in {"pending", "running"}
    /\ asked' = TRUE
    /\ UNCHANGED <<status, failure, work, metered, answer, counted>>

-----------------------------------------------------------------------------
(***************************************************************************)
(* The call.                                                               *)
(***************************************************************************)
\* Once, and never after its owner was told that nothing runs.
Send ==
    /\ work = "unsent"
    /\ status = "pending" \/ failure = "outcome_unknown"
    /\ work' = "sent"
    /\ UNCHANGED <<status, failure, asked, metered, answer, counted>>

Finish ==
    /\ work = "sent"
    /\ work' \in Over \cup {"refused"}
    /\ metered' \in BOOLEAN
    /\ metered' => work' \in Over
    /\ UNCHANGED <<status, failure, asked, answer, counted>>

\* The generation carries its call, which the provider accepted.
Follow ==
    /\ status = "pending"
    /\ work \in Over \cup {"sent"}
    /\ status' = "running"
    /\ UNCHANGED <<failure, asked, work, metered, answer, counted>>

\* Usage is counted though its generation may carry no call, or be settled.
Count ==
    /\ metered
    /\ counted' = TRUE
    /\ UNCHANGED <<status, failure, asked, work, metered, answer>>

-----------------------------------------------------------------------------
(***************************************************************************)
(* The end.                                                                *)
(***************************************************************************)
Settle(end, class) ==
    /\ status \in {"pending", "running"}
    /\ status' = end
    /\ failure' = class
    /\ UNCHANGED <<work, metered>>

\* The call's answer is kept, and its usage counted with it.
Answered ==
    /\ status = "running"
    /\ \/ work = "succeeded" /\ Settle("succeeded", None)
       \/ work = "cancelled" /\ asked /\ Settle("cancelled", None)
       \/ work \in {"failed", "cancelled"} /\ Settle("failed", "provider_failed")
    /\ answer' = work
    /\ counted' = (counted \/ metered)
    /\ UNCHANGED asked

\* The call is over, and its answer lost.
Lost ==
    /\ status = "running"
    /\ work \in Over
    /\ Settle("failed", "provider_failed")
    /\ UNCHANGED <<asked, answer, counted>>

\* The provider never ran the call, nor will.
NotRun ==
    /\ status = "pending"
    /\ work \in {"unsent", "refused"}
    /\ Settle("failed", "not_started")
    /\ UNCHANGED <<asked, answer, counted>>

Rejected ==
    /\ status = "pending"
    /\ work = "refused"
    /\ Settle("failed", "rejected")
    /\ answer' \in {None, "rejection"}
    /\ UNCHANGED <<asked, counted>>

\* The owner cancelled what was never sent.
Withdrawn ==
    /\ status = "pending"
    /\ work = "unsent"
    /\ Settle("cancelled", None)
    /\ asked' = TRUE
    /\ UNCHANGED <<answer, counted>>

\* Nothing is known of the call: it may never have been sent, may run, or may be sent yet.
Unknown ==
    /\ Settle("failed", "outcome_unknown")
    /\ UNCHANGED <<asked, answer, counted>>

Next ==
    \/ Record \/ Ask
    \/ Send \/ Finish \/ Follow \/ Count
    \/ Answered \/ Lost \/ NotRun \/ Rejected \/ Withdrawn \/ Unknown

Spec == Init /\ [][Next]_vars

=============================================================================
