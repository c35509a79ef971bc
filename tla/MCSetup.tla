------------------------------- MODULE MCSetup -------------------------------
(* An instance of Setup for TLC: a crate, two nested modules of it and      *)
(* another crate, with the default level, a high one and Off.               *)
EXTENDS Setup

FourPaths == {<<"app">>, <<"app", "net">>, <<"app", "net", "tls">>, <<"lib">>}
ThreeLevels == {2, 4, Off}

Pair(target, level) == [form |-> "pair", target |-> target, level |-> level]

(* A filter for one crate, and one with a default level and a bad part.     *)
TwoSpecs == {<<Pair(<<"app">>, 4)>>,
             <<[form |-> "bad"], [form |-> "level", level |-> 4], Pair(<<"app", "net">>, 2)>>}
ThreeEnvironments ==
    {[state |-> "unset", parts |-> <<>>], [state |-> "blank", parts |-> <<>>],
     [state |-> "text", parts |-> <<Pair(<<"app">>, Off),
                                    [form |-> "target", target |-> <<"lib">>]>>]}
==============================================================================
