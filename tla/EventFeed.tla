------------------------------ MODULE EventFeed ------------------------------
(***************************************************************************)
(* What a caller of GenerationStream is promised, whatever drops between   *)
(* it and the provider: the events come in the provider's order, none is   *)
(* missing and none comes twice, and the caller finishes with the last     *)
(* one, or reads the result instead.                                       *)
(***************************************************************************)
EXTENDS Integers, Sequences

VARIABLES
    produced,   \* how many events the provider produced
    ended,      \* whether it produced its terminal one
    delivered,  \* the sequence numbers the caller received
    outcome     \* how the caller finished: "streamed" or "polled", "" before

vars == <<produced, ended, delivered, outcome>>

Init ==
    /\ produced = 0
    /\ ended = FALSE
    /\ delivered = <<>>
    /\ outcome = ""

Produce ==
    /\ ~ended
    /\ produced' = produced + 1
    /\ ended' \in BOOLEAN
    /\ UNCHANGED <<delivered, outcome>>

\* The next event, whose sequence number is the count of those before it.
Deliver ==
    /\ outcome = ""
    /\ Len(delivered) < produced
    /\ delivered' = Append(delivered, Len(delivered))
    /\ outcome' \in {"", "streamed"}
    /\ outcome' = "streamed" => ended /\ Len(delivered') = produced
    /\ UNCHANGED <<produced, ended>>

GiveUp ==
    /\ outcome = ""
    /\ outcome' = "polled"
    /\ UNCHANGED <<produced, ended, delivered>>

Next == Produce \/ Deliver \/ GiveUp

Spec == Init /\ [][Next]_vars

=============================================================================
