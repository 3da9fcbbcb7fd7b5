--------------------------------- MODULE MCTurn ---------------------------------
(* Instances of Turn: a turn whose model calls tools beside one that asks and    *)
(* is answered, with the detector's thresholds scaled down.                      *)
EXTENDS Turn

BatchesOf == [t \in Turns |-> CASE t = 1 -> {<<"exec", "exec">>, <<"exec", "read">>, <<"message">>,
                                              <<"message", "complete_bootstrap">>}
                                 [] t = 2 -> {<<"spawn">>}
                                 [] OTHER -> {}]
FaultsOf == [t \in Turns |-> CASE t = 1 -> 2 [] t = 2 -> 1 [] t = 3 -> 4]
Together == {{1}, {2, 3}}
Alone == {Turns}
CouncilOf(enabled, primary, fallback) ==
    [enabled |-> enabled, primary |-> primary, fallback |-> fallback]
SomeCouncils == {CouncilOf(TRUE, "codex", "http"), CouncilOf(FALSE, "vertex", "vertex")}
=============================================================================
