-------------------------------- MODULE MCPool --------------------------------
(* Model-checking instances of ProviderPool.                                *)
EXTENDS ProviderPool

\* The first vendor is disabled, the second fits every replay, the third none
\* that is strict, and the last none.
Vendors == <<"off", "as_of", "hybrid", "latest">>
NoUse == [live |-> {}, replay |-> {"latest"}, strict |-> {"hybrid", "latest"}]

Call(m, n, l) == [mode |-> m, workers |-> n, late |-> l]

\* Two strict replays with different numbers of workers; one that shares a single
\* worker with a replay, or with a run; a request that is too late beside a run.
SomeConfigs == {<<Call("strict", 2, FALSE), Call("strict", 1, FALSE)>>,
                <<Call("strict", 1, FALSE), Call("replay", 1, FALSE)>>,
                <<Call("strict", 1, FALSE), Call("live", 1, FALSE)>>,
                <<Call("replay", 2, TRUE), Call("live", 1, TRUE)>>}
=============================================================================
