---------------------------- MODULE MCAlgorithms ----------------------------
(* Names for model checking AlgorithmsCheck: two tools of their own, one    *)
(* member name in two namespaces, one that shares the name of a tool, and a *)
(* call that repeats its namespace.                                         *)
EXTENDS AlgorithmsCheck

MCDeclared == {[ns |-> "", name |-> <<"x">>], [ns |-> "", name |-> <<"y">>],
               [ns |-> "n", name |-> <<"x">>], [ns |-> "m", name |-> <<"x">>],
               [ns |-> "n", name |-> <<"z">>]}

MCCalled == {<<"x">>, <<"y">>, <<"z">>, <<"n", "x">>, <<"k", "x">>,
             <<"n", "n", "x">>}
=============================================================================
