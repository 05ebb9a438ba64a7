----------------------------- MODULE EventStream -----------------------------
(***************************************************************************)
(* The stream of one generation's events: GenerationStream, its handler    *)
(* and the connector's Stream, between a provider that produces the events *)
(* of one call and a caller that resumes after the last event it received. *)
(*                                                                         *)
(* A stream is a chain of three hops, and any of them may break between    *)
(* two steps: the provider's connection, the handler, the caller's call.   *)
(* The events the handler sent are on the wire: the ones the caller did    *)
(* not read yet are lost with the call.  Nothing here writes the row, so a *)
(* handler its caller left needs no state of its own.                      *)
(*                                                                         *)
(* An event is its kind; its sequence number is its place, from zero.      *)
(***************************************************************************)
EXTENDS Integers, Sequences

CONSTANTS
    MaxEvents,  \* bound: events of the call
    WireSize,   \* bound: events sent and not yet received
    MaxBreaks   \* bound: how often a connection breaks

ASSUME StreamAssumption ==
    /\ MaxEvents \in Nat \ {0}
    /\ WireSize \in Nat \ {0}
    /\ MaxBreaks \in Nat

VARIABLES
    row,       \* what the stream and the polls read of the generation
    call,      \* the provider's call: running, finished or cancelled
    open,      \* whether the provider still streams the call
    events,    \* the kinds of the events produced so far
    stream,    \* the handler of the caller's call
    wire,      \* sequence numbers sent and not yet received
    caller,    \* the caller: what it does, and what its last call ended with
    received,  \* the sequence numbers it received, in order
    breaks     \* how many more times a connection may break

vars == <<row, call, open, events, stream, wire, caller, received, breaks>>

\* A delta is any event the connector can read and that does not end the stream.
Kinds == {"delta", "large", "garbled", "terminal"}

\* terminalEvents: a cancelled call has none.
Terminal(kind) == kind = "terminal"

Codes == {"OK", "NOT_FOUND", "FAILED_PRECONDITION", "UNIMPLEMENTED", "UNAVAILABLE", "INTERNAL"}

\* What the registry holds for the provider: a connector that streams, one that does not, or none.
Connectors == {"streaming", "async", "none"}

Streams == [pc : {"idle", "called", "connect", "read", "returned"},
            after : Nat \cup {-1}, next : Nat, code : Codes]

NoStream == [pc |-> "idle", after |-> -1, next |-> 0, code |-> "OK"]

\* -1 stands for the unset cursor. The last event received is the cursor of the next call.
Cursor == IF received = <<>> THEN -1 ELSE received[Len(received)]

Init ==
    /\ row \in [found : BOOLEAN, streamed : BOOLEAN, connector : Connectors,
                named : {FALSE}, settled : {FALSE}]
    /\ call = "running"
    /\ open = TRUE
    /\ events = <<>>
    /\ stream = NoStream
    /\ wire = <<>>
    /\ caller = [pc |-> "ready", code |-> "OK"]
    /\ received = <<>>
    /\ breaks = MaxBreaks

-----------------------------------------------------------------------------
(***************************************************************************)
(* The handler, the service and the connector.                             *)
(***************************************************************************)
\* The handler returns: its status follows the events on the wire.
Return(code) == stream' = [stream EXCEPT !.pc = "returned", !.code = code]

\* streamStatus: how an error reads to the caller, which acts on it.
StreamStatus(error) ==
    CASE error = "ErrGenerationNotFound"    -> "NOT_FOUND"
      [] error = "ErrGenerationNotStreamed" -> "FAILED_PRECONDITION"
      [] error = "ErrStreamUnavailable"     -> "FAILED_PRECONDITION"
      [] error = "ErrModeUnsupported"       -> "UNIMPLEMENTED"
      [] error = "ErrRetryable"             -> "UNAVAILABLE"
      [] OTHER                              -> "INTERNAL"

\* modeOf
Streaming(connector) ==
    CASE connector = "streaming" -> "" [] connector = "async" -> "ErrModeUnsupported"
      [] connector = "none" -> "ErrProviderUnknown"

\* GenerationStream.Exec: the first thing that refuses the stream, or none.
Refusal ==
    IF ~row.found THEN "ErrGenerationNotFound"
    ELSE IF ~row.streamed THEN "ErrGenerationNotStreamed"
    ELSE IF ~row.named THEN "ErrStreamUnavailable"
    ELSE Streaming(row.connector)

Exec ==
    /\ stream.pc = "called"
    /\ IF Refusal = "" THEN stream' = [stream EXCEPT !.pc = "connect"]
                       ELSE Return(StreamStatus(Refusal))
    /\ UNCHANGED <<row, call, open, events, wire, caller, received, breaks>>

Breaks == breaks > 0 /\ breaks' = breaks - 1

\* Mutant: the cursor of the first event is taken for an unset one.
FirstAfterZero(after) == IF after =< 0 THEN 0 ELSE after + 1

\* streamOptions: the first event to send, one past the cursor when there is one.
FirstAfter(after) == IF after = -1 THEN 0 ELSE after + 1

\* classifyOpenAIStreamError: a GET that got no answer, or none to judge the call by, is worth another.
StreamError(answer) ==
    CASE answer = "gone"                       -> "ErrStreamUnavailable"
      [] answer \in {"unanswered", "overloaded"} -> "ErrRetryable"
      [] OTHER                                 -> "refused"

\* OpenAI.Stream: the provider answers the GET, or refuses a call it no longer streams.
Connect ==
    /\ stream.pc = "connect"
    /\ IF open THEN stream' = [stream EXCEPT !.pc = "read", !.next = FirstAfter(stream.after)]
               ELSE Return(StreamStatus(StreamError("gone")))
    /\ UNCHANGED <<row, call, open, events, wire, caller, received, breaks>>

\* The read of the generation fails, or the GET: on the way, or the provider is overloaded or refuses
\* the service itself.
ConnectFails ==
    /\ Breaks
    /\ \/ stream.pc = "called" /\ Return(StreamStatus("statement"))
       \/ /\ stream.pc = "connect"
          /\ \E answer \in {"unanswered", "overloaded", "refused"} :
                Return(StreamStatus(StreamError(answer)))
    /\ UNCHANGED <<row, call, open, events, wire, caller, received>>

\* Mutant: an event too large to read cuts the stream as a dropped connection does.
ReadErrorRetried(kind) == CASE kind = "large" -> "ErrRetryable" [] kind = "garbled" -> "decode"

\* An event too large would cut every stream resumed before it; one that does not decode is a fault.
ReadError(kind) == CASE kind = "large" -> "ErrStreamUnavailable" [] kind = "garbled" -> "decode"

\* Mutant: an event that cannot be read is left out.
ForwardSkips ==
    /\ stream.pc = "read"
    /\ stream.next < Len(events)
    /\ LET kind == events[stream.next + 1]
       IN  IF kind \in {"large", "garbled"}
             THEN /\ stream' = [stream EXCEPT !.next = @ + 1]
                  /\ UNCHANGED wire
             ELSE /\ Len(wire) < WireSize
                  /\ wire' = Append(wire, stream.next)
                  /\ IF Terminal(kind) THEN Return("OK")
                     ELSE stream' = [stream EXCEPT !.next = @ + 1]
    /\ UNCHANGED <<row, call, open, events, caller, received, breaks>>

\* yieldEvents and forwardEvents: one event read, yielded and sent. The terminal one ends the stream.
Forward ==
    /\ stream.pc = "read"
    /\ stream.next < Len(events)
    /\ LET kind == events[stream.next + 1]
       IN  IF kind \in {"large", "garbled"}
             THEN /\ Return(StreamStatus(ReadError(kind)))
                  /\ UNCHANGED wire
             ELSE /\ Len(wire) < WireSize
                  /\ wire' = Append(wire, stream.next)
                  /\ IF Terminal(kind) THEN Return("OK")
                     ELSE stream' = [stream EXCEPT !.next = @ + 1]
    /\ UNCHANGED <<row, call, open, events, caller, received, breaks>>

\* The provider closes the stream of a cancelled call once its events are out: no error, no event.
Drained ==
    /\ stream.pc = "read"
    /\ call = "cancelled"
    /\ stream.next >= Len(events)
    /\ Return("OK")
    /\ UNCHANGED <<row, call, open, events, wire, caller, received, breaks>>

\* Mutant: the decoder's error is not looked at.
CutUnseen ==
    /\ Breaks
    /\ stream.pc = "read"
    /\ Return("OK")
    /\ UNCHANGED <<row, call, open, events, wire, caller, received>>

\* The provider's connection drops under the decoder.
Cut ==
    /\ Breaks
    /\ stream.pc = "read"
    /\ Return(StreamStatus("ErrRetryable"))
    /\ UNCHANGED <<row, call, open, events, wire, caller, received>>

\* The caller's call breaks, with what is on the wire: Send or the context fails, and the handler's
\* status goes nowhere. A replica that stops ends its streams the same way.
Disconnect ==
    /\ Breaks
    /\ caller.pc = "streaming"
    /\ stream' = NoStream
    /\ wire' = <<>>
    /\ caller' = [pc |-> "ready", code |-> "UNAVAILABLE"]
    /\ UNCHANGED <<row, call, open, events, received>>

-----------------------------------------------------------------------------
(***************************************************************************)
(* The caller, as the contract of GenerationStream tells it to act.        *)
(***************************************************************************)
OpenStream ==
    /\ caller.pc = "ready"
    /\ stream' = [NoStream EXCEPT !.pc = "called", !.after = Cursor]
    /\ caller' = [caller EXCEPT !.pc = "streaming"]
    /\ UNCHANGED <<row, call, open, events, wire, received, breaks>>

Receive ==
    /\ caller.pc = "streaming"
    /\ wire # <<>>
    /\ received' = Append(received, Head(wire))
    /\ wire' = Tail(wire)
    /\ caller' = IF Terminal(events[Head(wire) + 1])
                   THEN [pc |-> "streamed", code |-> "OK"] ELSE caller
    /\ UNCHANGED <<row, call, open, events, stream, breaks>>

\* A dropped stream is resumed; anything else, an OK without the terminal event included, is polled.
ReadStatus ==
    /\ caller.pc = "streaming"
    /\ wire = <<>>
    /\ stream.pc = "returned"
    /\ caller' = [pc |-> IF stream.code = "UNAVAILABLE" THEN "ready" ELSE "polling",
                  code |-> stream.code]
    /\ stream' = NoStream
    /\ UNCHANGED <<row, call, open, events, wire, received, breaks>>

\* A poll ends the wait of its caller with the settled generation, or with none.
Poll ==
    /\ caller.pc = "polling"
    /\ row.settled \/ ~row.found
    /\ caller' = [caller EXCEPT !.pc = "polled"]
    /\ UNCHANGED <<row, call, open, events, stream, wire, received, breaks>>

\* A poll may find the generation begun since, and the caller stream it after all.
StreamAgain ==
    /\ caller.pc = "polling"
    /\ row.found /\ ~row.settled
    /\ caller' = [caller EXCEPT !.pc = "ready"]
    /\ UNCHANGED <<row, call, open, events, stream, wire, received, breaks>>

-----------------------------------------------------------------------------
(***************************************************************************)
(* The provider and the checks.                                            *)
(***************************************************************************)
\* A start records its call once the provider named it.
Name ==
    /\ ~row.named
    /\ ~row.settled
    /\ row' = [row EXCEPT !.named = TRUE]
    /\ UNCHANGED <<call, open, events, stream, wire, caller, received, breaks>>

Produce ==
    /\ call = "running"
    /\ Len(events) < MaxEvents
    /\ \E kind \in Kinds :
          /\ Len(events) = MaxEvents - 1 => Terminal(kind)
          /\ events' = Append(events, kind)
          /\ call' = IF Terminal(kind) THEN "finished" ELSE "running"
    /\ UNCHANGED <<row, open, stream, wire, caller, received, breaks>>

Cancel ==
    /\ call = "running"
    /\ call' = "cancelled"
    /\ UNCHANGED <<row, open, events, stream, wire, caller, received, breaks>>

\* The provider stops serving new streams of the call.
CloseWindow ==
    /\ open
    /\ open' = FALSE
    /\ UNCHANGED <<row, call, events, stream, wire, caller, received, breaks>>

\* A check settles the generation once its call ended.
Settle ==
    /\ ~row.settled
    /\ call # "running"
    /\ row' = [row EXCEPT !.settled = TRUE]
    /\ UNCHANGED <<call, open, events, stream, wire, caller, received, breaks>>

Serve == Exec \/ Connect \/ Forward \/ Drained

Break == ConnectFails \/ Cut \/ Disconnect

Call == OpenStream \/ Receive \/ ReadStatus \/ Poll

Next ==
    \/ Serve
    \/ Break
    \/ Call
    \/ StreamAgain
    \/ Name \/ Produce \/ Cancel \/ CloseWindow \/ Settle

Spec == Init /\ [][Next]_vars

-----------------------------------------------------------------------------
\* Every variable has its type.
TypeOK ==
    /\ row \in [found : BOOLEAN, streamed : BOOLEAN, connector : Connectors,
                named : BOOLEAN, settled : BOOLEAN]
    /\ call \in {"running", "finished", "cancelled"}
    /\ open \in BOOLEAN
    /\ events \in Seq(Kinds)
    /\ stream \in Streams
    /\ wire \in Seq(Nat)
    /\ caller \in [pc : {"ready", "streaming", "polling", "streamed", "polled"}, code : Codes]
    /\ received \in Seq(Nat)
    /\ breaks \in Nat

\* What is received, on the wire and next to be read are consecutive, whatever broke before: a call
\* opened after the cursor reads the event that follows it.
Seamless ==
    /\ \A i \in 1..Len(received) : received[i] = i - 1
    /\ \A i \in 1..Len(wire) : wire[i] = Len(received) + i - 1
    /\ stream.pc = "read" => stream.next = Len(received) + Len(wire)

\* The end of a stream reads as the end of the call only when it is: an OK follows the terminal event
\* or a cancelled call, never a cut.
OkMeansEnded ==
    stream.pc = "returned" /\ stream.code = "OK" =>
        \/ call = "cancelled"
        \/ caller.pc = "streamed"
        \/ wire # <<>> /\ Terminal(events[wire[Len(wire)] + 1])

\* The stream implements the feed its callers are promised, across every reconnection: nothing lost,
\* nothing repeated, and finished only with the terminal event or the polled result.
Feed == INSTANCE EventFeed WITH
    produced  <- Len(events),
    ended     <- call = "finished",
    delivered <- received,
    outcome   <- IF caller.pc \in {"streamed", "polled"} THEN caller.pc ELSE ""

ImplementsFeed == Feed!Spec

-----------------------------------------------------------------------------
(***************************************************************************)
(* Liveness: the handler is scheduled, the caller acts on what it reads,   *)
(* the provider ends its call and a check settles its generation.  Nothing *)
(* is assumed of the stream window, which may stay open for good.          *)
(***************************************************************************)
Fairness ==
    /\ WF_vars(Serve)
    /\ WF_vars(Call)
    /\ WF_vars(Produce)
    /\ WF_vars(Settle)

FairSpec == Spec /\ Fairness

\* Once connections hold, every caller ends, with the terminal event or the polled result: no event
\* makes it resume for ever at the same place.
CallerEnds == <>(caller.pc \in {"streamed", "polled"})

=============================================================================
