-------------------------- MODULE MCGenerationApi --------------------------
(***************************************************************************)
(* Small requests for model-checking GenerationApi and RequestKey.  The    *)
(* names of purposes and providers are such that one's end could be read   *)
(* as the other's beginning.                                               *)
(***************************************************************************)
EXTENDS GenerationApi, TLC

Texts1 == {<<1>>, <<1, 1>>}

OneStreams == {<<1>>}

Member(name, text, spaced) == [name |-> name, text |-> text, spaced |-> spaced]

Request(purpose, service, streamed, payload, variant) ==
    [owner |-> 1, purpose |-> purpose, provider |-> service, stream |-> streamed,
     payload |-> payload, variant |-> variant]

Plain       == Request(<<1>>, <<1, 1>>, FALSE, <<Member(2, <<1>>, FALSE), Member(3, <<10, 11>>, FALSE)>>, 0)
Reformatted == Request(<<1>>, <<1, 1>>, FALSE, <<Member(3, <<10, 11>>, TRUE), Member(2, <<1>>, TRUE)>>, 0)
Shifted     == [Plain EXCEPT !.purpose = <<1, 1>>, !.provider = <<1>>]
Unstreamed  == [Plain EXCEPT !.stream = TRUE]
Undeclared  == [Plain EXCEPT !.purpose = <<2>>]

FewRequests == {Plain, Reformatted, Shifted, Unstreamed, Undeclared}

\* The payloads of at most two members, in every order and spacing.
ManyRequests ==
    {Request(purpose, service, streamed, payload, variant) :
        purpose \in Texts1, service \in Texts1, streamed \in BOOLEAN,
        payload \in {p \in Payloads : ValidPayload(p)}, variant \in {0, 1}}

CallSymmetry == Permutations(Calls)

=============================================================================
