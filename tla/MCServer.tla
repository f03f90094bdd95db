------------------------------ MODULE MCServer ------------------------------
(* Small instances of Server for TLC: the server lists and the tools. *)
EXTENDS Server, TLC

Http(p) == [prefix |-> p, transport |-> "http"]

\* Prefixes of their own; none; one that starts the other; another transport.
SomeConfigs == {
    <<Http(<<"x">>), Http(<<"y">>)>>,
    <<Http(<<>>), Http(<<"x">>)>>,
    <<Http(<<"x">>), Http(<<"x", "b">>)>>,
    <<[prefix |-> <<"x">>, transport |-> "stdio"]>>}

SomeToolLists == {{}, {<<"c">>, <<"b", "c">>}}
SomeBuiltins == {<<"c">>, <<"d">>}
=============================================================================
