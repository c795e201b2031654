------------------------------ MODULE MCProxy ------------------------------
(***************************************************************************)
(* Proxy with two requests in flight: "bank" is trusted and brokered, with *)
(* caveats, on its default port; "evil" is neither, and so is any other    *)
(* port of "bank", named in the Host header or in the URI.                 *)
(***************************************************************************)
EXTENDS Proxy

MCHosts == {"bank", "evil"}
Bank == [name |-> "bank", port |-> "none"]
MCTrusted == {Bank}
MCBrokered == {Bank}
\* The deadline falls while a request may be waiting for its human.
MCCaveats == [key \in {Bank} |->
                 [not_after_ms |-> {1}, allowed_hosts |-> {Bank}, require_fresh |-> TRUE]]

Connect(host, port) ==
    [connect |-> TRUE, host |-> host, form |-> "absolute", port |-> port,
     framing |-> "unbounded", secret |-> FALSE]
Post(host, form, port, framing, secret) ==
    [connect |-> FALSE, host |-> host, form |-> form, port |-> port,
     framing |-> framing, secret |-> secret]

MCShapes ==
    {Connect("bank", "default"),
     Post("bank", "origin", "none", "text", TRUE),
     Post("bank", "origin", "default", "text", FALSE),
     Post("bank", "origin", "other", "text", TRUE),
     Post("bank", "absolute", "other", "text", TRUE),
     Post("evil", "origin", "none", "text", TRUE),
     Post("evil", "origin", "none", "unbounded", TRUE),
     Post("evil", "origin", "none", "binary", TRUE),
     Post("evil", "origin", "none", "broken", TRUE)}
=============================================================================
