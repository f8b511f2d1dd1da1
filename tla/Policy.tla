------------------------------- MODULE Policy -------------------------------
(***************************************************************************)
(* What may be cached and under which key: src/policy.rs, a set of pure    *)
(* functions over URLs and headers.                                        *)
(*                                                                         *)
(* Host names and paths are sequences of tokens; a dot is a token of its   *)
(* own, and so are the brackets around an IPv6 address.  A URL is a record *)
(* of scheme, host, port, path, query (the names of its parameters) and    *)
(* fragment (whether it has one).                                          *)
(***************************************************************************)
EXTENDS Integers, Sequences, SequencesExt

CONSTANTS
    AlwaysBypass,      \* ALWAYS_BYPASS, as hosts
    ExtraBypass,       \* Policy.extra_bypass
    Artifacts,         \* IMMUTABLE, as records of a host and a path
    MinSize, MaxSize, MinMaxAge,
    CacheAll, CacheAuthorized

ASSUME PolicyAssumption ==
    /\ MinSize \in Nat /\ MaxSize \in Nat /\ MinMaxAge \in Nat
    /\ CacheAll \in BOOLEAN /\ CacheAuthorized \in BOOLEAN
    /\ AlwaysBypass \subseteq Seq(STRING) /\ ExtraBypass \subseteq Seq(STRING)
    /\ Artifacts \subseteq [host : Seq(STRING), path : STRING]

\* Url of the url crate; the port is the default one where none is written.
Urls == [scheme : {"http", "https"}, host : Seq(STRING), port : Nat,
         path : Seq(STRING), query : SUBSET STRING, fragment : BOOLEAN]

\* Url::host_str: a domain or an IPv4 address, or an IPv6 address in brackets.
WellFormedHost(host) ==
    \/ \A i \in DOMAIN host : host[i] \notin {"[", "]"}
    \/ Len(host) = 3 /\ host[1] = "[" /\ host[3] = "]"

SignatureParams ==
    {"x-amz-signature", "x-goog-signature", "signature", "sig", "token", "se", "sp"}

\* Mutant of HostMatches: the character before the suffix is not looked at.
HostMatchesSuffix(host, pattern) == IsSuffix(pattern, host)

\* The pattern itself or a subdomain of it.
HostMatches(host, pattern) ==
    \/ host = pattern
    \/ /\ Len(host) > Len(pattern)
       /\ IsSuffix(pattern, host)
       /\ host[Len(host) - Len(pattern)] = "."

\* An IPv6 address is bracketed in a URL and not in the list.
Unbracketed(host) ==
    IF Len(host) = 3 /\ host[1] = "[" /\ host[3] = "]" THEN <<host[2]>> ELSE host

IsBypassed(host) ==
    \E pattern \in AlwaysBypass \cup ExtraBypass : HostMatches(Unbracketed(host), pattern)

IsSignedUrl(url) == url.query \cap SignatureParams # {}

\* Whether the cache is consulted at all.
RequestEligible(method, url, credentials) ==
    /\ method = "GET"
    /\ ~IsBypassed(url.host)
    /\ CacheAuthorized \/ credentials \cap {"authorization", "cookie"} = {}
    /\ ~IsSignedUrl(url)

\* An empty pattern stands for every path of its host.
IsImmutableArtifact(url) ==
    \E a \in Artifacts :
        /\ HostMatches(url.host, a.host)
        /\ a.path = "" \/ \E i \in DOMAIN url.path : url.path[i] = a.path

\* max_age() finds nothing, or nothing that parses.
NoAge == -1
NoDirectives == [flags |-> {}, age |-> NoAge]

\* HeaderMap::get: the first Cache-Control header counts, if there are several.  One
\* that is not text says nothing to the code, and is in the model one without
\* flags and age.
CacheControl(response) ==
    IF response.cache_control = <<>> THEN NoDirectives ELSE response.cache_control[1]

\* Whether the response to an eligible request is stored.
ResponseStorable(url, response) ==
    LET cc == CacheControl(response) IN
    /\ response.status = 200
    /\ cc.flags \cap {"no-store", "no-cache", "private"} = {}
    /\ response.len >= MinSize
    /\ response.len <= MaxSize
    /\ \/ CacheAll
       \/ "immutable" \in cc.flags
       \/ cc.age >= MinMaxAge
       \/ IsImmutableArtifact(url)

DefaultPort(scheme) == IF scheme = "https" THEN 443 ELSE 80

\* Url::port of a URL that has the default port of its scheme.
NoPort == -1

\* Mutant of Key: the port is not part of it.
KeyAnyPort(url) == <<url.scheme, url.host, NoPort, url.path, url.query>>

\* key(), a digest of normalize(): default port and fragment are dropped.
Key(url) ==
    <<url.scheme, url.host,
      IF url.port = DefaultPort(url.scheme) THEN NoPort ELSE url.port,
      url.path, url.query>>
=============================================================================
