----------------------------- MODULE RequestKey -----------------------------
(***************************************************************************)
(* How a submit identifies its request: the validation of its envelope and *)
(* the key of internal/core/generationSubmit.go, against the body that the *)
(* connector sends for it.                                                 *)
(*                                                                         *)
(* Two callers that mean the same request format it differently, and the   *)
(* key must find them equal; two that mean different requests must never   *)
(* share a key, or one of them is answered with the other's result.        *)
(*                                                                         *)
(* A text is a sequence of symbols, each a number.  A payload is the       *)
(* members of a JSON object in the order its caller wrote them, a value    *)
(* either a number's literal or an object's names in order, written with   *)
(* or without white space.  The payload's size is left out.                *)
(* The digest is the identity: SHA-256 is taken not to collide.            *)
(***************************************************************************)
EXTENDS Integers, SequencesExt

CONSTANTS
    Declared,   \* the purposes of the configuration, as texts
    Registered, \* the providers with a connector, as texts
    Streamable, \* the ones whose connector also streams
    Names       \* member names, ordered, besides the two the connector owns

\* The fields of the Async mode, which sort before the caller's own.
background == 0
stream     == 1

\* The literals 1 and 1.0, and the objects {a, b} and {b, a}.
Texts == {<<1>>, <<1, 0>>, <<10, 11>>, <<11, 10>>}

Boolean(b) == IF b THEN <<21>> ELSE <<20>>

Members == [name : Names \cup {stream}, text : Texts, spaced : BOOLEAN]

Payloads == {<<>>} \cup {<<m>> : m \in Members} \cup {<<m, n>> : m, n \in Members}

\* GenerationSubmitRequest, of any length, its payload the members of a JSON object.
ObjectMembers == [name : Nat, text : Seq(Nat), spaced : BOOLEAN]

Requests ==
    [owner : Nat, purpose : Seq(Nat), provider : Seq(Nat), stream : BOOLEAN,
     payload : Seq(ObjectMembers), variant : Nat]

-----------------------------------------------------------------------------
\* I-JSON: no name twice.
ValidPayload(payload) == \A i, j \in DOMAIN payload : payload[i].name = payload[j].name => i = j

\* The requests a key can be made of.
ValidRequests == {request \in Requests : ValidPayload(request.payload)}

\* validateRequest, after the struct tags: what the caller is told to fix, or none.
Refused(request) ==
    IF request.purpose \notin Declared THEN "ErrInvalidRequest"
    ELSE IF ~ValidPayload(request.payload) THEN "ErrInvalidRequest"
    ELSE IF request.provider \notin Registered THEN "ErrInvalidRequest"
    ELSE IF request.stream /\ request.provider \notin Streamable THEN "ErrModeUnsupported"
    ELSE ""

\* A member as JSON writes it, which says where its value ends.
Written(member) == <<member.name, Len(member.text)>> \o member.text

\* Mutant: the members keep the order their caller wrote them in.
CanonicalPayloadAsSent(payload) ==
    FlattenSeq([i \in DOMAIN payload |-> Written(payload[i])])

\* The members by name.
Sorted(payload) ==
    CHOOSE members \in [DOMAIN payload -> Range(payload)] :
        /\ Range(members) = Range(payload)
        /\ \A i, j \in DOMAIN members : i < j => members[i].name < members[j].name

\* canonicalPayload: top-level members sorted, nested ones as written, white space gone, numbers as
\* their literals.
CanonicalPayload(payload) ==
    FlattenSeq([i \in DOMAIN payload |-> Written(Sorted(payload)[i])])

\* "async" begins "async-streamed".
Mode(request) == IF request.stream THEN <<30, 31>> ELSE <<30>>

Fields(request) ==
    <<<<request.owner>>, request.purpose, request.provider, Mode(request),
      CanonicalPayload(request.payload), <<request.variant>>>>

\* Mutant: the fields one after the other.
KeyUnprefixed(request) == FlattenSeq(Fields(request))

\* requestKey: each field behind its length.
Key(request) ==
    LET fields == Fields(request)
    IN  FlattenSeq([i \in DOMAIN fields |-> <<Len(fields[i])>> \o fields[i]])

-----------------------------------------------------------------------------
\* asyncEnvelope: the members as sent, under the fields the mode owns.
Sent(request) ==
    LET own == {m \in Range(request.payload) : m.name \notin {background, stream}}
    IN  {<<m.name, m.text>> : m \in own}
          \cup {<<background, Boolean(TRUE)>>, <<stream, Boolean(request.stream)>>}

\* What a caller asks for, its formatting apart.
Content(request) ==
    [request EXCEPT !.payload = {<<m.name, m.text>> : m \in Range(request.payload)}]

\* A request's key, what it asks for and the body it sends.
Entry(request) == [key |-> Key(request), content |-> Content(request), sent |-> Sent(request)]

=============================================================================
