------------------------------- MODULE MCRouting -------------------------------
(* Ingresses with and without paths, nested, on two hosts and with two         *)
(* schemes, and segments of which one begins another.                          *)
EXTENDS Routing

URL(scheme, host, path) == [scheme |-> scheme, host |-> host, path |-> path]

SomeConfigs ==
    {c \in SUBSET ({URL("https", h, p) : h \in {"h1", "h2"},
                       p \in {<<>>, <<"o">>, <<"app">>, <<"app", "sub">>}}
                   \cup {URL("http", "h1", <<"app">>), URL("https", None, <<>>)}) :
        Cardinality(c) \in 1 .. 3}

SomePages ==
    {[host |-> h, path |-> p] : h \in {"h1", "h2"},
        p \in {<<"start">>, <<"app", "x">>, <<"app", "sub">>, <<"orders">>, <<"o", "x">>}}

SomeExtends == {<<"o", "orders">>, <<"o", "oauth2">>}
=============================================================================
