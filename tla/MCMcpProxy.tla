----------------------------- MODULE MCMcpProxy -----------------------------
(* Command lines with one unlabelled upstream, with two whose labels       *)
(* overlap, with the same label twice, with a hidden file beside a label,  *)
(* and with none; two lines of the agent.  Names are sequences of          *)
(* segments, so `bank__eu__pay` may belong to label `bank` or to label     *)
(* `bank__eu`.                                                             *)
EXTENDS McpProxy

MCSegments == {"", "bank", "eu", "pay", "npx"}
Labelled(label) == [label |-> {label}, program |-> <<"npx">>]
Plain(program) == [label |-> {}, program |-> program]
MCSetups ==
    {<<>>, <<Plain(<<"bank">>)>>, <<Plain(<<"bank">>), Labelled(<<"bank", "eu">>)>>,
     <<Labelled(<<"bank">>), Plain(<<"bank">>)>>, <<Plain(<<"">>), Labelled(<<"bank">>)>>}
MCTools == {<<"pay">>, <<"eu", "pay">>}
Call(name, args, token) == [what |-> "call", name |-> name, args |-> args, token |-> token]
Other(what) == [what |-> what, name |-> <<>>, args |-> "null", token |-> FALSE]
MCLines ==
    {Call(<<"bank">>, "object", FALSE),
     Call(<<"eu", "pay">>, "object", TRUE),
     Call(<<"bank", "pay">>, "null", FALSE),
     Call(<<"bank", "eu", "pay">>, "object", TRUE),
     Call(<<"bank", "eu", "pay">>, "list", FALSE)}
        \cup {Other(what) : what \in {"blank", "notification", "garbage", "known"}}
MCSecrets == {<<"bank">>, <<"bank", "eu">>}
MCToolKinds == [name \in {<<"eu", "pay">>, <<"bank", "eu", "pay">>} |-> "read"]
MCVerdict == [read |-> "allow", other |-> "ask"]
=============================================================================
