-------------------------- MODULE EventStreamProofs --------------------------
(***************************************************************************)
(* Proofs about EventStream: whatever the number of events, of events in   *)
(* flight and of broken connections, a stream loses and repeats nothing    *)
(* and implements the feed its callers are promised.                       *)
(***************************************************************************)
EXTENDS EventStream, TLAPS

\* The terminal event is the last one, and the call finished with it.
TerminalLast ==
    \A i \in 1..Len(events) :
        events[i] = "terminal" => i = Len(events) /\ call = "finished"

\* What was sent was produced.
SentWasProduced == Len(received) + Len(wire) =< Len(events)

\* A call opened and not yet answered asks for what follows the last event received, and nothing of
\* an earlier call is left on the wire.
CursorFresh ==
    /\ stream.pc \in {"called", "connect"} => stream.after = Len(received) - 1 /\ wire = <<>>
    /\ caller.pc # "streaming" => wire = <<>>
    /\ caller.pc \in {"ready", "polling", "polled"} <=> stream.pc = "idle"
    /\ caller.pc = "streamed" => stream.pc = "returned"

\* A caller that waits has not received the terminal event, and a handler that reads has not sent it.
Unfinished ==
    /\ caller.pc # "streamed" => \A i \in 1..Len(received) : events[i] # "terminal"
    /\ stream.pc \in {"called", "connect", "read"} =>
          \A i \in 1..(Len(received) + Len(wire)) : events[i] # "terminal"

\* The inductive invariant of the stream.
StreamInv ==
    /\ TypeOK /\ Seamless /\ OkMeansEnded
    /\ TerminalLast /\ SentWasProduced /\ CursorFresh /\ Unfinished

-----------------------------------------------------------------------------
\* Every status a handler returns is one its caller knows.
LEMMA StatusIsCode == ASSUME NEW error PROVE StreamStatus(error) \in Codes
BY DEF StreamStatus, Codes

\* A status built from an error is never OK.
LEMMA ErrorIsNotOk == ASSUME NEW error PROVE StreamStatus(error) # "OK"
BY DEF StreamStatus

\* A handler that fails tells its caller so.
LEMMA ErrorReturned ==
    ASSUME stream \in Streams, NEW error, Return(StreamStatus(error))
    PROVE  stream'.code # "OK"
<1>1. stream'.code = StreamStatus(error)
  BY DEF Return, Streams
<1>2. QED
  BY <1>1, ErrorIsNotOk

\* A handler that returns keeps its record.
LEMMA ReturnType ==
    ASSUME stream \in Streams, NEW code \in Codes, Return(code)
    PROVE  stream' \in Streams
BY DEF Return, Streams

\* A handler that moves to the next event keeps it too.
LEMMA AdvanceType ==
    ASSUME stream \in Streams, stream' = [stream EXCEPT !.next = @ + 1]
    PROVE  stream' \in Streams
<1>1. stream.next + 1 \in Nat
  BY DEF Streams
<1>2. QED
  BY <1>1 DEF Streams

\* An idle handler is one.
LEMMA NoStreamType == NoStream \in Streams
BY DEF NoStream, Streams, Codes

\* Before the first connection, every part holds.
LEMMA InitStream == Init => StreamInv
<1> SUFFICES ASSUME Init PROVE StreamInv
  OBVIOUS
<1>1. row \in [found : BOOLEAN, streamed : BOOLEAN, connector : Connectors,
               named : BOOLEAN, settled : BOOLEAN]
  BY DEF Init
<1>2. TypeOK
  BY <1>1, NoStreamType, StreamAssumption DEF Init, TypeOK, Codes
<1>3. Seamless /\ TerminalLast /\ SentWasProduced /\ CursorFresh /\ Unfinished /\ OkMeansEnded
  BY DEF Init, Seamless, TerminalLast, SentWasProduced, CursorFresh, Unfinished, OkMeansEnded, NoStream
<1>4. QED
  BY <1>2, <1>3 DEF StreamInv

\* Every step keeps every variable's type.
LEMMA TypeStep == ASSUME TypeOK, [Next]_vars PROVE TypeOK'
<1> USE DEF TypeOK
<1>1. CASE Exec
  <2>1. stream' \in Streams
    <3>1. CASE Refusal = ""
      BY <1>1, <3>1 DEF Exec, Streams
    <3>2. CASE Refusal # ""
      <4>1. Return(StreamStatus(Refusal)) /\ StreamStatus(Refusal) \in Codes
        BY <1>1, <3>2, StatusIsCode DEF Exec
      <4>2. QED
        BY <4>1, ReturnType
    <3>3. QED
      BY <3>1, <3>2
  <2>2. QED
    BY <1>1, <2>1 DEF Exec
<1>2. CASE Connect
  <2>1. CASE open
    <3>1. FirstAfter(stream.after) \in Nat
      BY DEF FirstAfter, Streams
    <3>2. stream' \in Streams
      BY <1>2, <2>1, <3>1 DEF Connect, Streams
    <3>3. QED
      BY <1>2, <3>2 DEF Connect
  <2>2. CASE ~open
    <3>1. stream' \in Streams
      BY <1>2, <2>2, StatusIsCode, ReturnType DEF Connect
    <3>2. QED
      BY <1>2, <3>1 DEF Connect
  <2>3. QED
    BY <2>1, <2>2
<1>3. CASE Forward
  <2> DEFINE kind == events[stream.next + 1]
  <2>1. wire' \in Seq(Nat)
    <3>1. wire' = wire \/ wire' = Append(wire, stream.next)
      BY <1>3 DEF Forward
    <3>2. wire \in Seq(Nat) /\ stream.next \in Nat
      BY DEF Streams
    <3>3. Append(wire, stream.next) \in Seq(Nat)
      BY <3>2
    <3>4. QED
      BY <3>1, <3>2, <3>3
  <2>2. stream' \in Streams
    <3>1. CASE kind \in {"large", "garbled"}
      <4>1. Return(StreamStatus(ReadError(kind)))
        BY <1>3, <3>1 DEF Forward
      <4>2. StreamStatus(ReadError(kind)) \in Codes
        BY StatusIsCode
      <4>3. QED
        BY <4>1, <4>2, ReturnType
    <3>2. CASE kind \notin {"large", "garbled"} /\ Terminal(kind)
      <4>1. "OK" \in Codes
        BY DEF Codes
      <4>2. QED
        BY <1>3, <3>2, <4>1, ReturnType DEF Forward
    <3>3. CASE kind \notin {"large", "garbled"} /\ ~Terminal(kind)
      <4>1. stream' = [stream EXCEPT !.next = @ + 1]
        BY <1>3, <3>3 DEF Forward
      <4>2. QED
        BY <4>1, AdvanceType
    <3>4. QED
      BY <3>1, <3>2, <3>3
  <2>3. QED
    BY <1>3, <2>1, <2>2 DEF Forward
<1>4. CASE Drained
  BY <1>4, ReturnType DEF Drained, Codes
<1>5. CASE ConnectFails
  <2>1. \E error : Return(StreamStatus(error))
    <3>1. CASE Return(StreamStatus("statement"))
      BY <3>1
    <3>2. CASE \E answer \in {"unanswered", "overloaded", "refused"} :
                  Return(StreamStatus(StreamError(answer)))
      BY <3>2
    <3>3. QED
      BY <1>5, <3>1, <3>2 DEF ConnectFails
  <2>2. stream' \in Streams
    BY <2>1, StatusIsCode, ReturnType
  <2>3. breaks' \in Nat
    BY <1>5 DEF ConnectFails, Breaks
  <2>4. QED
    BY <1>5, <2>2, <2>3 DEF ConnectFails
<1>6. CASE Cut
  <2>1. stream' \in Streams
    BY <1>6, StatusIsCode, ReturnType DEF Cut
  <2>2. breaks' \in Nat
    BY <1>6 DEF Cut, Breaks
  <2>3. QED
    BY <1>6, <2>1, <2>2 DEF Cut
<1>7. CASE Disconnect
  BY <1>7, NoStreamType DEF Disconnect, Breaks, Codes
<1>8. CASE OpenStream
  <2>1. Cursor \in Nat \cup {-1}
    BY DEF Cursor
  <2>2. stream' \in Streams
    BY <1>8, <2>1, NoStreamType DEF OpenStream, Streams
  <2>3. QED
    BY <1>8, <2>2 DEF OpenStream
<1>9. CASE Receive
  BY <1>9 DEF Receive, Codes
<1>10. CASE ReadStatus
  BY <1>10, NoStreamType DEF ReadStatus, Streams
<1>11. CASE Poll
  BY <1>11 DEF Poll
<1>12. CASE StreamAgain
  BY <1>12 DEF StreamAgain
<1>13. CASE Name
  BY <1>13 DEF Name
<1>14. CASE Produce
  BY <1>14 DEF Produce
<1>15. CASE Cancel
  BY <1>15 DEF Cancel
<1>16. CASE CloseWindow
  BY <1>16 DEF CloseWindow
<1>17. CASE Settle
  BY <1>17 DEF Settle
<1>18. CASE UNCHANGED vars
  BY <1>18 DEF vars
<1>19. QED
  BY <1>1, <1>2, <1>3, <1>4, <1>5, <1>6, <1>7, <1>8, <1>9, <1>10, <1>11, <1>12, <1>13, <1>14, <1>15,
     <1>16, <1>17, <1>18 DEF Next, Serve, Break, Call

-----------------------------------------------------------------------------
\* A step that leaves the stream, the wire and the caller alone keeps what relates them.
LEMMA SeamKept ==
    ASSUME StreamInv, UNCHANGED <<stream, wire, caller, received>>, Len(events') >= Len(events),
           Len(events') \in Nat
    PROVE  Seamless' /\ SentWasProduced' /\ CursorFresh'
BY DEF StreamInv, TypeOK, Seamless, SentWasProduced, CursorFresh

\* A handler that returns sends nothing more.
LEMMA SeamReturned ==
    ASSUME StreamInv, NEW code, Return(code), caller.pc = "streaming",
           UNCHANGED <<wire, caller, received, events>>
    PROVE  Seamless' /\ SentWasProduced' /\ CursorFresh'
BY DEF StreamInv, TypeOK, Streams, Seamless, SentWasProduced, CursorFresh, Return

\* Every step keeps the caller, the wire and the cursor consecutive.
LEMMA SeamStep ==
    ASSUME StreamInv, [Next]_vars
    PROVE  Seamless' /\ SentWasProduced' /\ CursorFresh'
<1> USE DEF StreamInv
<1>0. stream.pc \in {"called", "connect", "read"} => caller.pc = "streaming"
  BY DEF TypeOK, Streams, CursorFresh
<1>1. CASE Exec
  <2>1. CASE Refusal = ""
    BY <1>1, <2>1 DEF Exec, TypeOK, Streams, Seamless, SentWasProduced, CursorFresh
  <2>2. CASE Refusal # ""
    BY <1>0, <1>1, <2>2, SeamReturned DEF Exec
  <2>3. QED
    BY <2>1, <2>2
<1>2. CASE Connect
  <2>1. CASE open
    <3>1. stream.after = Len(received) - 1 /\ wire = <<>> /\ Len(received) \in Nat /\ stream.pc = "connect"
      BY <1>2 DEF Connect, CursorFresh, TypeOK
    <3>2. FirstAfter(stream.after) = Len(received)
      BY <3>1 DEF FirstAfter
    <3>3. stream'.pc = "read" /\ stream'.next = Len(received)
      BY <1>2, <2>1, <3>2 DEF Connect, TypeOK, Streams
    <3>4. UNCHANGED <<events, wire, caller, received>>
      BY <1>2 DEF Connect
    <3>5. QED
      BY <1>0, <3>1, <3>3, <3>4 DEF Seamless, SentWasProduced, CursorFresh
  <2>2. CASE ~open
    BY <1>0, <1>2, <2>2, SeamReturned DEF Connect
  <2>3. QED
    BY <2>1, <2>2
<1>3. CASE Forward
  <2> DEFINE kind == events[stream.next + 1]
  <2>1. CASE kind \in {"large", "garbled"}
    BY <1>0, <1>3, <2>1, SeamReturned DEF Forward
  <2>2. CASE kind \notin {"large", "garbled"}
    <3>1. wire' = Append(wire, stream.next) /\ UNCHANGED <<caller, received, events>>
      BY <1>3, <2>2 DEF Forward
    <3>2. stream.next = Len(received) + Len(wire) /\ stream.next < Len(events)
      BY <1>3 DEF Forward, Seamless
    <3>3. stream'.pc \in {"read", "returned"}
          /\ (stream'.pc = "read" => stream'.next = stream.next + 1)
      BY <1>3, <2>2 DEF Forward, Return, TypeOK, Streams
    <3>4. Seamless' /\ SentWasProduced'
      BY <3>1, <3>2, <3>3 DEF TypeOK, Streams, Seamless, SentWasProduced
    <3>5. CursorFresh'
      BY <1>0, <1>3, <3>1, <3>3 DEF Forward, CursorFresh
    <3>6. QED
      BY <3>4, <3>5
  <2>3. QED
    BY <2>1, <2>2
<1>4. CASE Drained
  BY <1>0, <1>4, SeamReturned DEF Drained
<1>5. CASE ConnectFails
  BY <1>0, <1>5, SeamReturned DEF ConnectFails
<1>6. CASE Cut
  BY <1>0, <1>6, SeamReturned DEF Cut
<1>7. CASE Disconnect
  BY <1>7 DEF Disconnect, NoStream, TypeOK, Seamless, SentWasProduced, CursorFresh
<1>8. CASE OpenStream
  <2>1. Cursor = Len(received) - 1
    BY DEF Cursor, TypeOK, Seamless
  <2>2. QED
    BY <1>8, <2>1 DEF OpenStream, NoStream, TypeOK, Seamless, SentWasProduced, CursorFresh
<1>9. CASE Receive
  <2>1. /\ received' = Append(received, wire[1])
        /\ wire' = Tail(wire)
        /\ wire # <<>>
        /\ UNCHANGED <<stream, events>>
    BY <1>9 DEF Receive, TypeOK
  <2>2. /\ wire[1] = Len(received)
        /\ Len(wire) \in Nat \ {0} /\ Len(received) \in Nat
        /\ Len(wire') = Len(wire) - 1
        /\ Len(received') = Len(received) + 1
        /\ \A i \in 1..Len(wire') : wire'[i] = wire[i + 1]
        /\ \A i \in 1..Len(received') :
              received'[i] = IF i = Len(received) + 1 THEN wire[1] ELSE received[i]
    <3>1. wire \in Seq(Nat) /\ received \in Seq(Nat)
      BY DEF TypeOK
    <3>2. Len(wire) \in Nat \ {0} /\ Len(received) \in Nat
      BY <2>1, <3>1
    <3>3. wire[1] = Len(received) + 1 - 1
      BY <3>2 DEF Seamless
    <3>4. /\ Len(wire') = Len(wire) - 1
          /\ \A i \in 1..Len(wire') : wire'[i] = wire[i + 1]
      BY <2>1, <3>1
    <3>5. wire[1] \in Nat
      BY <3>2, <3>3
    <3>6. /\ Len(received') = Len(received) + 1
          /\ \A i \in 1..Len(received') :
                received'[i] = IF i = Len(received) + 1 THEN wire[1] ELSE received[i]
      BY <2>1, <3>1, <3>5
    <3>7. QED
      BY <3>2, <3>3, <3>4, <3>6
  <2>3. Seamless'
    <3>1. \A i \in 1..Len(received') : received'[i] = i - 1
      <4>1. TAKE i \in 1..Len(received')
      <4>2. CASE i = Len(received) + 1
        BY <2>2, <4>2
      <4>3. CASE i # Len(received) + 1
        <5>1. i \in 1..Len(received) /\ received'[i] = received[i]
          BY <2>2, <4>3
        <5>2. QED
          BY <5>1 DEF Seamless
      <4>4. QED
        BY <4>2, <4>3
    <3>2. \A i \in 1..Len(wire') : wire'[i] = Len(received') + i - 1
      BY <2>2 DEF Seamless
    <3>3. stream'.pc = "read" => stream'.next = Len(received') + Len(wire')
      BY <2>1, <2>2 DEF Seamless
    <3>4. QED
      BY <3>1, <3>2, <3>3 DEF Seamless
  <2>4. SentWasProduced'
    BY <2>1, <2>2 DEF TypeOK, SentWasProduced
  <2>5. CursorFresh'
    <3>1. stream.pc \notin {"called", "connect"}
      BY <2>1 DEF CursorFresh
    <3>2. CASE caller' = caller
      BY <1>9, <2>1, <3>1, <3>2 DEF Receive, CursorFresh
    <3>3. CASE caller'.pc = "streamed"
      <4>1. events[wire[1] + 1] = "terminal"
        BY <1>9, <3>3 DEF Receive, Terminal, TypeOK
      <4>2. wire[1] + 1 = Len(events)
        BY <2>2, <4>1 DEF TerminalLast, SentWasProduced, TypeOK
      <4>3. wire' = <<>>
        BY <2>1, <2>2, <4>2 DEF SentWasProduced, TypeOK
      <4>4. stream.pc \in {"read", "returned"}
        BY <1>9, <3>1 DEF Receive, CursorFresh, TypeOK, Streams
      <4>5. stream.pc # "read"
        <5>1. wire[1] + 1 \in 1..(Len(received) + Len(wire))
          BY <2>2
        <5>2. QED
          BY <4>1, <5>1 DEF Unfinished
      <4>6. QED
        BY <2>1, <3>3, <4>3, <4>4, <4>5 DEF CursorFresh
    <3>4. QED
      BY <1>9, <3>2, <3>3 DEF Receive
  <2>6. QED
    BY <2>3, <2>4, <2>5
<1>10. CASE ReadStatus
  BY <1>10 DEF ReadStatus, NoStream, TypeOK, Seamless, SentWasProduced, CursorFresh
<1>11. CASE Poll
  BY <1>11 DEF Poll, TypeOK, Seamless, SentWasProduced, CursorFresh
<1>12. CASE StreamAgain
  BY <1>12 DEF StreamAgain, TypeOK, Seamless, SentWasProduced, CursorFresh
<1>13. CASE Name
  BY <1>13, SeamKept DEF Name, TypeOK
<1>14. CASE Produce
  BY <1>14, SeamKept DEF Produce, TypeOK
<1>15. CASE Cancel
  BY <1>15, SeamKept DEF Cancel, TypeOK
<1>16. CASE CloseWindow
  BY <1>16, SeamKept DEF CloseWindow, TypeOK
<1>17. CASE Settle
  BY <1>17, SeamKept DEF Settle, TypeOK
<1>18. CASE UNCHANGED vars
  BY <1>18, SeamKept DEF vars, TypeOK
<1>19. QED
  BY <1>1, <1>2, <1>3, <1>4, <1>5, <1>6, <1>7, <1>8, <1>9, <1>10, <1>11, <1>12, <1>13, <1>14, <1>15,
     <1>16, <1>17, <1>18 DEF Next, Serve, Break, Call

-----------------------------------------------------------------------------
\* The terminal event stays the last one: the call that produced it produces nothing more.
LEMMA TerminalStep == ASSUME StreamInv, [Next]_vars PROVE TerminalLast'
<1> USE DEF StreamInv
<1>1. CASE Produce
  <2>1. PICK kind \in Kinds : /\ events' = Append(events, kind)
                             /\ call' = IF Terminal(kind) THEN "finished" ELSE "running"
    BY <1>1 DEF Produce
  <2>2. \A i \in 1..Len(events) : events[i] # "terminal"
    BY <1>1 DEF Produce, TerminalLast
  <2>3. /\ Len(events') = Len(events) + 1 /\ Len(events) \in Nat
        /\ \A i \in 1..Len(events) : events'[i] = events[i]
        /\ events'[Len(events) + 1] = kind
    BY <2>1 DEF TypeOK
  <2>4. ASSUME NEW i \in 1..Len(events'), events'[i] = "terminal"
        PROVE  i = Len(events') /\ call' = "finished"
    <3>1. i = Len(events) + 1
      BY <2>2, <2>3, <2>4
    <3>2. QED
      BY <2>1, <2>3, <2>4, <3>1 DEF Terminal
  <2>5. QED
    BY <2>4 DEF TerminalLast
<1>2. CASE Cancel
  BY <1>2 DEF Cancel, TerminalLast
<1>3. CASE UNCHANGED <<events, call>>
  BY <1>3 DEF TerminalLast
<1>4. QED
  BY <1>1, <1>2, <1>3 DEF Next, Serve, Break, Call, Exec, Connect, Forward, Drained, ConnectFails, Cut,
     Disconnect, OpenStream, Receive, ReadStatus, Poll, StreamAgain, Name, CloseWindow, Settle, vars

\* A produced event keeps its kind.
LEMMA EventsKept ==
    ASSUME StreamInv, [Next]_vars
    PROVE  \A i \in 1..Len(events) : events'[i] = events[i]
<1>1. CASE Produce
  <2>1. PICK kind \in Kinds : events' = Append(events, kind)
    BY <1>1 DEF Produce
  <2>2. QED
    BY <2>1 DEF StreamInv, TypeOK
<1>2. CASE UNCHANGED events
  BY <1>2
<1>3. QED
  BY <1>1, <1>2 DEF Next, Serve, Break, Call, Exec, Connect, Forward, Drained, ConnectFails, Cut, Cancel,
     Disconnect, OpenStream, Receive, ReadStatus, Poll, StreamAgain, Name, CloseWindow, Settle, vars

\* No step leaves the terminal event behind a caller that waits, or a handler that reads.
LEMMA UnfinishedStep == ASSUME StreamInv, [Next]_vars PROVE Unfinished'
<1> USE DEF StreamInv
<1>1. /\ Len(received) \in Nat /\ Len(wire) \in Nat /\ Len(events) \in Nat
      /\ Len(received) + Len(wire) =< Len(events)
  BY DEF TypeOK, SentWasProduced
<1>2. CASE /\ UNCHANGED received
           /\ caller'.pc # "streamed" => caller.pc # "streamed"
           /\ stream'.pc \in {"called", "connect", "read"} =>
                /\ stream.pc \in {"called", "connect", "read"}
                /\ UNCHANGED wire
  <2>1. caller'.pc # "streamed" => \A i \in 1..Len(received') : events'[i] # "terminal"
    BY <1>1, <1>2, EventsKept DEF Unfinished
  <2>2. stream'.pc \in {"called", "connect", "read"} =>
           \A i \in 1..(Len(received') + Len(wire')) : events'[i] # "terminal"
    BY <1>1, <1>2, EventsKept DEF Unfinished
  <2>3. QED
    BY <2>1, <2>2 DEF Unfinished
<1>3. CASE Forward
  <2> DEFINE kind == events[stream.next + 1]
  <2>1. UNCHANGED <<received, caller, events>>
    BY <1>3 DEF Forward
  <2>2. stream'.pc = "returned" \/ (kind # "terminal" /\ wire' = Append(wire, stream.next))
    BY <1>3 DEF Forward, Return, Terminal, TypeOK, Streams
  <2>3. stream.next = Len(received) + Len(wire) /\ stream.pc = "read"
    BY <1>3 DEF Forward, Seamless
  <2>4. CASE stream'.pc = "returned"
    BY <2>1, <2>4 DEF Unfinished
  <2>5. CASE kind # "terminal" /\ wire' = Append(wire, stream.next)
    <3>1. Len(wire') = Len(wire) + 1
      BY <1>1, <2>3, <2>5 DEF TypeOK
    <3>2. \A i \in 1..(Len(received') + Len(wire')) : events'[i] # "terminal"
      <4>1. TAKE i \in 1..(Len(received') + Len(wire'))
      <4>2. CASE i = stream.next + 1
        BY <2>1, <2>5, <4>2
      <4>3. CASE i # stream.next + 1
        <5>1. i \in 1..(Len(received) + Len(wire))
          BY <1>1, <2>1, <2>3, <3>1, <4>3
        <5>2. QED
          BY <2>1, <2>3, <5>1 DEF Unfinished
      <4>4. QED
        BY <4>2, <4>3
    <3>3. QED
      BY <2>1, <3>2 DEF Unfinished
  <2>6. QED
    BY <2>2, <2>4, <2>5
<1>4. CASE OpenStream
  <2>1. wire = <<>> /\ UNCHANGED <<wire, received, events>>
    BY <1>4 DEF OpenStream, CursorFresh
  <2>2. \A i \in 1..Len(received) : events[i] # "terminal"
    BY <1>4 DEF OpenStream, Unfinished
  <2>3. QED
    BY <1>1, <2>1, <2>2 DEF Unfinished
<1>5. CASE Receive
  <2>1. /\ received' = Append(received, Head(wire)) /\ wire' = Tail(wire) /\ wire # <<>>
        /\ UNCHANGED <<stream, events>> /\ caller.pc = "streaming"
    BY <1>5 DEF Receive
  <2>2. /\ Len(received') = Len(received) + 1 /\ Len(wire') = Len(wire) - 1
        /\ Head(wire) = Len(received)
    <3>1. wire \in Seq(Nat) /\ received \in Seq(Nat)
      BY DEF TypeOK
    <3>2. Len(wire) \in Nat \ {0} /\ Head(wire) = wire[1]
      BY <2>1, <3>1
    <3>3. wire[1] = Len(received)
      BY <1>1, <3>2 DEF Seamless
    <3>4. QED
      BY <1>1, <2>1, <3>1, <3>2, <3>3
  <2>3. caller'.pc # "streamed" => events[Len(received) + 1] # "terminal"
    BY <1>5, <2>2 DEF Receive, Terminal
  <2>4. caller'.pc # "streamed" => \A i \in 1..Len(received') : events'[i] # "terminal"
    BY <1>1, <2>1, <2>2, <2>3 DEF Unfinished
  <2>5. Len(received') + Len(wire') = Len(received) + Len(wire)
    BY <1>1, <2>2
  <2>6. QED
    BY <2>1, <2>4, <2>5 DEF Unfinished
<1>6. CASE Exec
  BY <1>2, <1>6 DEF Exec, Return, TypeOK, Streams
<1>7. CASE Connect
  BY <1>2, <1>7 DEF Connect, Return, TypeOK, Streams
<1>8. CASE Drained \/ Cut
  BY <1>2, <1>8 DEF Drained, Cut, Return, TypeOK, Streams
<1>9. CASE ConnectFails
  BY <1>2, <1>9 DEF ConnectFails, Return, TypeOK, Streams
<1>10. CASE Disconnect \/ ReadStatus
  BY <1>2, <1>10 DEF Disconnect, ReadStatus, NoStream
<1>11. CASE Poll \/ StreamAgain
  BY <1>2, <1>11 DEF Poll, StreamAgain, TypeOK
<1>12. CASE Name \/ Produce \/ Cancel \/ CloseWindow \/ Settle \/ UNCHANGED vars
  BY <1>2, <1>12 DEF Name, Produce, Cancel, CloseWindow, Settle, vars
<1>13. QED
  BY <1>3, <1>4, <1>5, <1>6, <1>7, <1>8, <1>9, <1>10, <1>11, <1>12 DEF Next, Serve, Break, Call

\* An OK still means the end after every step.
LEMMA OkStep == ASSUME StreamInv, [Next]_vars PROVE OkMeansEnded'
<1> USE DEF StreamInv
<1>1. CASE stream' = stream /\ caller' = caller /\ wire' = wire /\ (call = "cancelled" => call' = "cancelled")
  <2>1. wire # <<>> => wire[Len(wire)] + 1 \in 1..Len(events)
    <3>1. wire \in Seq(Nat) /\ Len(received) \in Nat /\ Len(events) \in Nat
      BY DEF TypeOK
    <3>2. wire # <<>> => Len(wire) \in 1..Len(wire)
      BY <3>1
    <3>3. wire # <<>> => wire[Len(wire)] = Len(received) + Len(wire) - 1
      BY <3>2 DEF Seamless
    <3>4. QED
      BY <3>1, <3>2, <3>3 DEF SentWasProduced
  <2>2. QED
    BY <1>1, <2>1, EventsKept DEF OkMeansEnded, Terminal
<1>2. CASE stream'.pc # "returned" \/ stream'.code # "OK"
  BY <1>2 DEF OkMeansEnded
<1>3. stream \in Streams
  BY DEF TypeOK
<1>4. ASSUME NEW error, Return(StreamStatus(error)) PROVE OkMeansEnded'
  <2>1. stream'.code # "OK"
    BY <1>3, <1>4, ErrorReturned
  <2>2. QED
    BY <1>2, <2>1
<1>5. CASE Exec
  <2>1. Return(StreamStatus(Refusal)) \/ stream'.pc = "connect"
    BY <1>5, <1>3 DEF Exec, Streams
  <2>2. QED
    BY <1>2, <1>4, <2>1, Zenon
<1>6. CASE Connect
  <2>1. Return(StreamStatus(StreamError("gone"))) \/ stream'.pc = "read"
    BY <1>6, <1>3 DEF Connect, Streams
  <2>2. QED
    BY <1>2, <1>4, <2>1, Zenon
<1>7. CASE Forward
  <2> DEFINE kind == events[stream.next + 1]
  <2>1. CASE kind \in {"large", "garbled"}
    <3>1. Return(StreamStatus(ReadError(kind)))
      BY <1>7, <2>1 DEF Forward
    <3>2. QED
      BY <1>4, <3>1, Zenon
  <2>2. CASE kind \notin {"large", "garbled"} /\ ~Terminal(kind)
    BY <1>2, <1>7, <2>2 DEF Forward, TypeOK, Streams
  <2>3. CASE kind \notin {"large", "garbled"} /\ Terminal(kind)
    <3>1. wire' = Append(wire, stream.next) /\ UNCHANGED events
      BY <1>7, <2>3 DEF Forward
    <3>2. wire \in Seq(Nat) /\ stream.next \in Nat
      BY DEF TypeOK, Streams
    <3>3. wire' # <<>> /\ wire'[Len(wire')] = stream.next
      BY <3>1, <3>2
    <3>4. QED
      BY <2>3, <3>1, <3>3 DEF OkMeansEnded
  <2>4. QED
    BY <2>1, <2>2, <2>3
<1>8. CASE Drained
  BY <1>8 DEF Drained, OkMeansEnded
<1>9. CASE ConnectFails
  <2>1. \E error : Return(StreamStatus(error))
    <3>1. CASE Return(StreamStatus("statement"))
      BY <3>1
    <3>2. CASE \E answer \in {"unanswered", "overloaded", "refused"} :
                  Return(StreamStatus(StreamError(answer)))
      BY <3>2
    <3>3. QED
      BY <1>9, <3>1, <3>2 DEF ConnectFails
  <2>2. QED
    BY <1>4, <2>1
<1>10. CASE Cut
  <2>1. Return(StreamStatus("ErrRetryable"))
    BY <1>10 DEF Cut
  <2>2. QED
    BY <1>4, <2>1, Zenon
<1>11. CASE Disconnect \/ OpenStream \/ ReadStatus
  <2>1. stream' = NoStream \/ stream' = [NoStream EXCEPT !.pc = "called", !.after = Cursor]
    BY <1>11 DEF Disconnect, OpenStream, ReadStatus
  <2>2. stream'.pc \in {"idle", "called"}
    <3>1. CASE stream' = NoStream
      BY <3>1 DEF NoStream
    <3>2. CASE stream' = [NoStream EXCEPT !.pc = "called", !.after = Cursor]
      BY <3>2 DEF NoStream
    <3>3. QED
      BY <2>1, <3>1, <3>2
  <2>3. QED
    BY <1>2, <2>2
<1>12. CASE Receive
  <2>1. /\ wire' = Tail(wire) /\ wire # <<>> /\ UNCHANGED <<stream, events, call>>
        /\ caller.pc = "streaming"
        /\ caller' = IF Terminal(events[Head(wire) + 1]) THEN [pc |-> "streamed", code |-> "OK"] ELSE caller
    BY <1>12 DEF Receive
  <2>2. CASE caller'.pc = "streamed"
    BY <2>2 DEF OkMeansEnded
  <2>3. CASE caller'.pc # "streamed"
    <3>1. ~Terminal(events[Head(wire) + 1])
      BY <2>1, <2>3
    <3>2. wire \in Seq(Nat)
      BY DEF TypeOK
    <3>3. CASE Len(wire) = 1
      <4>1. wire[Len(wire)] = Head(wire)
        BY <2>1, <3>2, <3>3
      <4>2. QED
        BY <2>1, <3>1, <4>1 DEF OkMeansEnded
    <3>4. CASE Len(wire) # 1
      <4>1. wire' # <<>> /\ wire'[Len(wire')] = wire[Len(wire)]
        <5>1. Len(wire) \in Nat /\ Len(wire) > 1
          <6>1. Len(wire) \in Nat /\ Len(wire) # 1
            BY <3>2, <3>4
          <6>2. wire # <<>>
            BY <2>1
          <6>3. Len(wire) # 0
            BY <3>2, <6>2
          <6>4. \A n \in Nat : n # 0 /\ n # 1 => n > 1
            OBVIOUS
          <6>5. QED
            BY <6>1, <6>3, <6>4, Zenon
        <5>2. Len(wire') = Len(wire) - 1 /\ \A i \in 1..Len(wire') : wire'[i] = wire[i + 1]
          BY <2>1, <3>2
        <5>3. QED
          BY <5>1, <5>2
      <4>2. QED
        BY <2>1, <4>1 DEF OkMeansEnded
    <3>5. QED
      BY <3>3, <3>4
  <2>4. QED
    BY <2>2, <2>3
<1>13. CASE Poll \/ StreamAgain
  <2>1. stream.pc = "idle"
    BY <1>13 DEF Poll, StreamAgain, CursorFresh
  <2>2. QED
    BY <1>2, <1>13, <2>1 DEF Poll, StreamAgain
<1>14. CASE Name \/ Produce \/ Cancel \/ CloseWindow \/ Settle \/ UNCHANGED vars
  BY <1>1, <1>14 DEF Name, Produce, Cancel, CloseWindow, Settle, vars
<1>15. QED
  BY <1>5, <1>6, <1>7, <1>8, <1>9, <1>10, <1>11, <1>12, <1>13, <1>14 DEF Next, Serve, Break, Call

-----------------------------------------------------------------------------
\* The inductive invariant holds in every state of the stream.
THEOREM StreamInvariant == Spec => []StreamInv
<1>1. ASSUME StreamInv, [Next]_vars PROVE StreamInv'
  BY <1>1, TypeStep, SeamStep, TerminalStep, UnfinishedStep, OkStep DEF StreamInv
<1>2. QED
  BY <1>1, InitStream, PTL DEF Spec

\* Every variable of the stream keeps its type, the cursor of a resumed stream included.
THEOREM StreamTypes == Spec => []TypeOK
BY StreamInvariant, PTL DEF StreamInv

\* Whatever breaks and however often, what a caller received, what is on its wire and what its handler
\* reads next are consecutive events of the call: no resumed stream loses or repeats one.
THEOREM StreamIsSeamless == Spec => []Seamless
BY StreamInvariant, PTL DEF StreamInv

\* A stream that ends with OK ended with the terminal event or a cancelled call, never with a cut.
THEOREM OkIsTheEnd == Spec => []OkMeansEnded
BY StreamInvariant, PTL DEF StreamInv

-----------------------------------------------------------------------------
\* A received event is the one the feed delivers next, and a caller done with the terminal event has
\* them all.
LEMMA ReceiveDelivers == ASSUME StreamInv, Receive PROVE Feed!Deliver
<1> USE DEF StreamInv
<1>1. /\ received' = Append(received, Head(wire)) /\ wire # <<>>
      /\ UNCHANGED <<call, events>> /\ caller.pc = "streaming"
      /\ caller' = IF Terminal(events[Head(wire) + 1]) THEN [pc |-> "streamed", code |-> "OK"] ELSE caller
  BY DEF Receive
<1>2. wire \in Seq(Nat) /\ received \in Seq(Nat) /\ Len(events) \in Nat
  BY DEF TypeOK
<1>3. Len(wire) \in Nat \ {0} /\ Head(wire) = wire[1] /\ Len(received) \in Nat
  BY <1>1, <1>2
<1>4. Head(wire) = Len(received)
  BY <1>3 DEF Seamless
<1>5. Len(received) < Len(events)
  BY <1>2, <1>3 DEF SentWasProduced
<1>6. Len(received') = Len(received) + 1
  BY <1>1, <1>2, <1>3, <1>4
<1>7. caller'.pc = "streamed" => call = "finished" /\ Len(received') = Len(events)
  <2>1. SUFFICES ASSUME caller'.pc = "streamed"
                 PROVE  call = "finished" /\ Len(received') = Len(events)
    OBVIOUS
  <2>2. events[Len(received) + 1] = "terminal"
    BY <1>1, <1>4, <2>1 DEF Terminal
  <2>3. Len(received) + 1 \in 1..Len(events)
    BY <1>2, <1>3, <1>5
  <2>4. QED
    BY <1>6, <2>2, <2>3 DEF TerminalLast
<1>8. caller'.pc \in {"streaming", "streamed"}
  BY <1>1
<1>9. QED
  BY <1>1, <1>4, <1>5, <1>7, <1>8 DEF Feed!Deliver

\* The stream implements the feed: every step of the handler, the connections, the caller or the
\* provider is an event produced, the next one delivered, a result read instead, or nothing.
THEOREM StreamImplementsFeed == Spec => ImplementsFeed
<1>1. Init => Feed!Init
  BY DEF Init, Feed!Init
<1>2. ASSUME StreamInv, [Next]_vars PROVE [Feed!Next]_Feed!vars
  <2> USE DEF StreamInv
  <2>1. CASE Receive
    BY <1>2, <2>1, ReceiveDelivers DEF Feed!Next
  <2>2. CASE Produce
    <3>1. PICK kind \in Kinds : /\ events' = Append(events, kind)
                               /\ call' = IF Terminal(kind) THEN "finished" ELSE "running"
      BY <2>2 DEF Produce
    <3>2. Len(events') = Len(events) + 1
      BY <1>2, <3>1 DEF TypeOK
    <3>3. UNCHANGED <<received, caller>> /\ call = "running"
      BY <2>2 DEF Produce
    <3>4. Feed!Produce
      BY <3>1, <3>2, <3>3 DEF Feed!Produce
    <3>5. QED
      BY <3>4 DEF Feed!Next
  <2>3. CASE Poll
    <3>1. Feed!GiveUp
      BY <1>2, <2>3 DEF Poll, Feed!GiveUp, TypeOK
    <3>2. QED
      BY <3>1 DEF Feed!Next
  <2>4. CASE /\ UNCHANGED <<events, received>>
             /\ (call' = "finished") = (call = "finished")
             /\ UNCHANGED caller \/ {caller.pc, caller'.pc} \subseteq {"ready", "streaming", "polling"}
    BY <2>4 DEF Feed!vars
  <2>5. CASE Exec \/ Connect \/ Forward \/ Drained \/ ConnectFails \/ Cut
    BY <2>4, <2>5 DEF Exec, Connect, Forward, Drained, ConnectFails, Cut
  <2>6. CASE Disconnect \/ OpenStream \/ ReadStatus \/ StreamAgain
    <3>1. UNCHANGED <<events, received, call>>
      BY <2>6 DEF Disconnect, OpenStream, ReadStatus, StreamAgain
    <3>2. caller.pc \in {"ready", "streaming", "polling"}
      BY <2>6 DEF Disconnect, OpenStream, ReadStatus, StreamAgain
    <3>3. caller'.pc \in {"ready", "streaming", "polling"}
      BY <1>2, <2>6 DEF Disconnect, OpenStream, ReadStatus, StreamAgain, TypeOK
    <3>4. QED
      BY <2>4, <3>1, <3>2, <3>3
  <2>7. CASE Name \/ Cancel \/ CloseWindow \/ Settle \/ UNCHANGED vars
    BY <2>4, <2>7 DEF Name, Cancel, CloseWindow, Settle, vars
  <2>8. QED
    BY <1>2, <2>1, <2>2, <2>3, <2>5, <2>6, <2>7 DEF Next, Serve, Break, Call
<1>3. QED
  BY <1>1, <1>2, StreamInvariant, PTL DEF Spec, ImplementsFeed, Feed!Spec

=============================================================================
