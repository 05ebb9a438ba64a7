----------------------------- MODULE MCServers -----------------------------
(***************************************************************************)
(* Configurations for model-checking Servers: the defaults of              *)
(* internal/config/env, small pools, and ones that startup refuses.        *)
(***************************************************************************)
EXTENDS Servers

Default ==
    [retention |-> 360, interval |-> 1, batchSize |-> 50, pool |-> 20, ticker |-> FALSE,
     issuer |-> TRUE, issuerOptional |-> FALSE]

Small ==
    {[Default EXCEPT !.pool = pool, !.ticker = ticker] : pool \in {0, 1, 2, 3, 20}, ticker \in BOOLEAN}

Refusable ==
    {[Default EXCEPT !.retention = 14], [Default EXCEPT !.interval = 6],
     [Default EXCEPT !.batchSize = 101], [Default EXCEPT !.issuer = FALSE],
     [Default EXCEPT !.issuer = FALSE, !.issuerOptional = TRUE]}

SomeConfigs == Small \cup Refusable

=============================================================================
