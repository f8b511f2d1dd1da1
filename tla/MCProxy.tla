------------------------------ MODULE MCProxy ------------------------------
(***************************************************************************)
(* A small internet: the host a, its subdomain x.a, the host xa that only  *)
(* ends like it, and b, whose artifacts are known.  The host a is bypassed.*)
(***************************************************************************)
EXTENDS Proxy, TLC

A == <<"a">>
SubA == <<"x", ".", "a">>
LikeA == <<"x", "a">>
B == <<"b">>

BypassA == {A}
Loopback == {<<"::1">>}
KnownArtifacts == {[host |-> B, path |-> "/-/"]}

Url(scheme, host, port, path, query, fragment) ==
    [scheme |-> scheme, host |-> host, port |-> port, path |-> path, query |-> query,
     fragment |-> fragment]
Get(form, url) == [form |-> form, method |-> "GET", url |-> url, credentials |-> {}]
Tarball == <<"/-/", "p">>
Index == <<"p">>

To(host, port) ==
    [Get("connect", Url("https", host, port, <<>>, {}, FALSE)) EXCEPT !.method = "CONNECT"]

SmallInternet ==
    {To(B, 443), To(B, 8443), To(B, 22), To(SubA, 443),
     \* in a tunnel, or in plain HTTP
     Get("absolute", Url("http", B, 80, Tarball, {}, FALSE)),
     Get("absolute", Url("http", LikeA, 80, Index, {}, TRUE)),
     Get("absolute", Url("http", SubA, 80, Index, {}, FALSE)),
     Get("absolute", Url("http", <<"[", "::1", "]">>, 80, Index, {}, FALSE)),
     Get("absolute", Url("http", LikeA, 80, Index, {"v", "sig"}, FALSE)),
     [Get("absolute", Url("http", LikeA, 80, Index, {}, FALSE))
        EXCEPT !.credentials = {"cookie"}],
     [Get("absolute", Url("http", LikeA, 80, Index, {}, FALSE)) EXCEPT !.method = "POST"],
     \* the host is that of the tunnel
     Get("origin", Url("https", B, 443, Tarball, {}, FALSE))}

Says(flags, age) == <<[flags |-> flags, age |-> age]>>
Response(status, directives, declared, len) ==
    [status |-> status, cache_control |-> directives, declared |-> declared, len |-> len,
     headers |-> {"hop", "text", "binary"}]

SomeResponses ==
    {Response(200, <<>>, 2, 2),
     Response(200, Says({"immutable"}, NoAge), 0, 2),
     Response(200, Says({}, 10) \o Says({"no-store"}, NoAge), 2, 2),
     Response(200, Says({"immutable", "private"}, 10), 2, 2),
     Response(200, Says({"immutable"}, NoAge), 0, 1),
     Response(200, Says({"immutable"}, NoAge), 0, 4),
     Response(200, Says({"immutable"}, NoAge), 4, 4),
     Response(404, Says({"immutable"}, NoAge), 2, 2)}

ConnSymmetry == Permutations(Conns)
=============================================================================
