---------------------------- MODULE MCProbePool ----------------------------
(* A PUT with a path parameter, a login form and a JSON POST, probed by    *)
(* two threads.                                                            *)
EXTENDS ProbePool

CONSTANTS w1, w2, item, order, login

MCWorkers == {w1, w2}
MCTargetSeq == <<item, login, order>>

Form == [method |-> "POST", params |-> <<"q">>, json |-> FALSE, path |-> {},
         token |-> FALSE, shut |-> FALSE]
MCFacts ==
    item :> [Form EXCEPT !.method = "PUT", !.params = <<"id">>,
                         !.path = {"id"}]
    @@ order :> [Form EXCEPT !.json = TRUE]
    @@ login :> [Form EXCEPT !.shut = TRUE]

MCClasses == <<"sqli">>
=============================================================================
