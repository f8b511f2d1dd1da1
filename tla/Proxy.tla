------------------------------- MODULE Proxy -------------------------------
(***************************************************************************)
(* The forward proxy, src/proxy.rs, with the policy of src/policy.rs and   *)
(* the entries of src/entry.rs.                                            *)
(*                                                                         *)
(* Each client connection is a task; a step of the model runs from one     *)
(* await to the next.  Two things are reduced to what they promise here:   *)
(* the store, in which what was put first under a key may be found again   *)
(* (module Store), and Stats::record, taken for one step (module Stats).   *)
(* Answers that touch no state, the control endpoints and the replies to   *)
(* malformed requests, are left out; a shutdown is module Lifecycle.       *)
(***************************************************************************)
EXTENDS Policy, FiniteSets

CONSTANTS
    Conns,         \* client connections
    MitmPorts,     \* ports whose tunnels are decrypted
    Requests,      \* the requests clients send
    Responses,     \* the responses origins give
    None,
    MaxRequests    \* bound on the requests taken, CONNECTs aside

Credentials == {"authorization", "cookie"}
Directives == [flags : SUBSET STRING, age : Nat \cup {NoAge}]

ASSUME ProxyAssumption ==
    /\ MaxRequests \in Nat /\ IsFiniteSet(Conns)
    /\ Requests \subseteq [form : {"connect", "absolute", "origin"}, method : STRING,
                           url : Urls, credentials : SUBSET Credentials]
    /\ \A r \in Requests : WellFormedHost(r.url.host)
    /\ Responses \subseteq [status : Nat, cache_control : Seq(Directives),
                            declared : Nat, len : Nat, headers : SUBSET STRING]

VARIABLES
    at,            \* where the connection's task is
    tunnel,        \* the authority of the decrypted tunnel it is in, if any
    request,       \* the request at hand, with its absolute URL
    answer,        \* the response made for it
    cache,         \* the store: the entry of each key
    counts,        \* the counters of Stats
    handled,       \* history: requests answered and tunnels opened
    taken          \* requests taken so far, CONNECTs aside

vars == <<at, tunnel, request, answer, cache, counts, handled, taken>>

Counters == {"requests", "hits", "misses", "stored", "passthrough", "errors"}
Zero == [x \in Counters |-> 0]

Init ==
    /\ at = [c \in Conns |-> "open"]
    /\ tunnel = [c \in Conns |-> None]
    /\ request = [c \in Conns |-> None] /\ answer = [c \in Conns |-> None]
    /\ cache = <<>>
    /\ counts = Zero
    /\ handled = 0 /\ taken = 0

-----------------------------------------------------------------------------
(***************************************************************************)
(* Messages.  A body is represented by where it comes from: the resource   *)
(* that was asked for and the response it was part of.  Headers fall into  *)
(* classes: hop-by-hop, Host, Content-Length, and end-to-end ones whose    *)
(* value is text or is not.                                                *)
(***************************************************************************)

Resource(url) == [url EXCEPT !.fragment = FALSE]

Body(url, response) == [resource |-> Resource(url), response |-> response]

Sanitize(headers) == headers \ {"hop", "host"}

\* Entry::new keeps the headers whose value it can write as JSON text.
Entry(url, response) ==
    [status |-> response.status,
     headers |-> Sanitize(response.headers) \ {"hop", "binary"},
     body |-> Body(url, response)]

\* build() states the length of the body it has.
Build(outcome, status, headers, body) ==
    [outcome |-> outcome, status |-> status, headers |-> headers \cup {"length"},
     body |-> body]

Replay(entry) == Build("hit", entry.status, entry.headers, entry.body)

\* A response that is streamed through.
Relay(outcome, url, response) ==
    [outcome |-> outcome, status |-> response.status,
     headers |-> Sanitize(response.headers), body |-> Body(url, response)]

\* A response that was read whole.
Buffered(outcome, url, response) ==
    Build(outcome, response.status, Sanitize(response.headers), Body(url, response))

BadGateway == [outcome |-> "error", status |-> 502, headers |-> {}, body |-> None]
Tunnelled == [outcome |-> "tunnel", status |-> 200, headers |-> {}, body |-> None]

-----------------------------------------------------------------------------
(***************************************************************************)
(* Stats::record: the request is counted, and its outcome.                 *)
(***************************************************************************)

Bumps(outcome) ==
    CASE outcome = "hit" -> {"requests", "hits"}
      [] outcome = "stored" -> {"requests", "misses", "stored"}
      [] outcome = "miss" -> {"requests", "misses"}
      [] outcome \in {"pass", "tunnel"} -> {"requests", "passthrough"}
      [] outcome = "error" -> {"requests", "errors"}

Goto(c, l) == at' = [at EXCEPT ![c] = l]

\* The outcome is recorded and the response goes to the client.
Record(c, a) ==
    /\ Goto(c, "record")
    /\ answer' = [answer EXCEPT ![c] = a]
    /\ counts' = [x \in Counters |-> IF x \in Bumps(a.outcome) THEN counts[x] + 1
                                     ELSE counts[x]]

\* The connection is kept alive, or copied blindly from now on.
Respond(c) ==
    /\ at[c] = "record"
    /\ Goto(c, IF answer[c].outcome = "tunnel" THEN "blind" ELSE "open")
    /\ request' = [request EXCEPT ![c] = None]
    /\ answer' = [answer EXCEPT ![c] = None]
    /\ handled' = handled + 1
    /\ UNCHANGED <<tunnel, cache, counts, taken>>

-----------------------------------------------------------------------------
(***************************************************************************)
(* dispatch, connect and intercept.                                        *)
(***************************************************************************)

\* absolute_url: inside a tunnel the authority is the tunnel's, whatever the
\* request says.
AbsoluteUrl(c, r) ==
    IF tunnel[c] = None THEN r.url
    ELSE [r.url EXCEPT !.scheme = "https", !.host = tunnel[c].host,
                       !.port = tunnel[c].port]

Take(c, r) ==
    /\ at[c] = "open"
    /\ request' = [request EXCEPT ![c] = [r EXCEPT !.url = AbsoluteUrl(c, r)]]

\* A CONNECT is answered at once; the tunnel is set up by a task of its own.
Connect(c, r) ==
    /\ r.form = "connect" /\ tunnel[c] = None
    /\ Take(c, r)
    /\ Goto(c, "upgrade")
    /\ UNCHANGED <<tunnel, answer, cache, counts, handled, taken>>

\* Only the port decides whether the tunnel is decrypted.
Upgrade(c) ==
    /\ at[c] = "upgrade"
    /\ \/ Goto(c, "closed") /\ UNCHANGED <<answer, counts>>
       \/ request[c].url.port \in MitmPorts /\ Goto(c, "tls") /\ UNCHANGED <<answer, counts>>
       \/ request[c].url.port \notin MitmPorts /\ Record(c, Tunnelled)
    /\ UNCHANGED <<tunnel, request, cache, handled, taken>>

\* The leaf certificate may fail to be minted, and the TLS handshake fails with
\* clients that do not trust it.
Intercept(c) ==
    LET url == request[c].url IN
    /\ at[c] = "tls"
    /\ \/ Goto(c, "closed") /\ UNCHANGED tunnel
       \/ /\ tunnel' = [tunnel EXCEPT ![c] = [host |-> url.host, port |-> url.port]]
          /\ Goto(c, "open")
    /\ request' = [request EXCEPT ![c] = None]
    /\ UNCHANGED <<answer, cache, counts, handled, taken>>

\* dispatch and the beginning of handle: the request's body is read, and the
\* policy decides whether the cache is asked.
Handle(c, r) ==
    /\ r.form = "absolute" \/ (tunnel[c] # None /\ r.form = "origin")
    /\ taken < MaxRequests
    /\ taken' = taken + 1
    /\ Take(c, r)
    /\ \/ Record(c, BadGateway)
       \/ /\ Goto(c, IF RequestEligible(r.method, AbsoluteUrl(c, r), r.credentials)
                     THEN "lookup" ELSE "forward")
          /\ UNCHANGED <<answer, counts>>
    /\ UNCHANGED <<tunnel, cache, handled>>

-----------------------------------------------------------------------------
(***************************************************************************)
(* forward, handle and fetch_and_store.                                    *)
(***************************************************************************)

\* Mutant of Forward: the request is counted before it is sent.
ForwardCountsFirst(c) ==
    /\ at[c] = "forward"
    /\ \/ /\ Goto(c, "record")
          /\ answer' = [answer EXCEPT ![c] = BadGateway]
          /\ counts' = [counts EXCEPT !["requests"] = @ + 2, !["passthrough"] = @ + 1,
                                       !["errors"] = @ + 1]
       \/ \E response \in Responses : Record(c, Relay("pass", request[c].url, response))
    /\ UNCHANGED <<tunnel, request, cache, handled, taken>>

Forward(c) ==
    /\ at[c] = "forward"
    /\ \/ Record(c, BadGateway)
       \/ \E response \in Responses : Record(c, Relay("pass", request[c].url, response))
    /\ UNCHANGED <<tunnel, request, cache, handled, taken>>

\* store.get and Entry::decode: the entry, or nothing that can be used.
Lookup(c) ==
    LET key == Key(request[c].url) IN
    /\ at[c] = "lookup"
    /\ \/ key \in DOMAIN cache /\ Record(c, Replay(cache[key]))
       \/ Goto(c, "fetch") /\ UNCHANGED <<answer, counts>>
    /\ UNCHANGED <<tunnel, request, cache, handled, taken>>

\* The fetch fails, before or after the headers; the response says it is too
\* large and is streamed; or it is read whole and the policy decides on it.
\* Encoding an entry, a record of texts and numbers, does not fail.
Fetch(c) ==
    LET url == request[c].url IN
    /\ at[c] = "fetch"
    /\ \/ Record(c, BadGateway)
       \/ \E response \in Responses :
              \/ /\ response.declared > MaxSize
                 /\ Record(c, Relay("miss", url, response))
              \/ /\ response.declared <= MaxSize
                 /\ ~ResponseStorable(url, response)
                 /\ Record(c, Buffered("miss", url, response))
              \/ /\ response.declared <= MaxSize
                 /\ ResponseStorable(url, response)
                 /\ answer' = [answer EXCEPT ![c] = Buffered("stored", url, response)]
                 /\ Goto(c, "put")
                 /\ UNCHANGED counts
    /\ UNCHANGED <<tunnel, request, cache, handled, taken>>

\* store.put: the first entry of a key wins.
Put(c) ==
    LET key == Key(request[c].url) IN
    /\ at[c] = "put"
    /\ cache' = IF key \in DOMAIN cache THEN cache
                ELSE [k \in DOMAIN cache \cup {key} |->
                         IF k \in DOMAIN cache THEN cache[k]
                         ELSE Entry(request[c].url, answer[c].body.response)]
    /\ Goto(c, "stored")
    /\ UNCHANGED <<tunnel, request, answer, counts, handled, taken>>

Stored(c) ==
    /\ at[c] = "stored"
    /\ Record(c, answer[c])
    /\ UNCHANGED <<tunnel, request, cache, handled, taken>>

\* The client goes away; hyper drops the handler where it awaits.
Disconnect(c) ==
    /\ at[c] \in {"open", "forward", "lookup", "fetch", "put", "stored"}
    /\ Goto(c, "closed")
    /\ request' = [request EXCEPT ![c] = None]
    /\ answer' = [answer EXCEPT ![c] = None]
    /\ UNCHANGED <<tunnel, cache, counts, handled, taken>>

Finished ==
    /\ \A c \in Conns : at[c] \in {"closed", "blind"}
    /\ UNCHANGED vars

Conn(c) ==
    \/ \E r \in Requests : Connect(c, r) \/ Handle(c, r)
    \/ Upgrade(c) \/ Intercept(c) \/ Forward(c) \/ Lookup(c) \/ Fetch(c) \/ Put(c)
    \/ Stored(c) \/ Respond(c) \/ Disconnect(c)

Next == (\E c \in Conns : Conn(c)) \/ Finished

Spec == Init /\ [][Next]_vars

-----------------------------------------------------------------------------
(***************************************************************************)
(* Properties.                                                             *)
(***************************************************************************)

\* Connections whose request is answered and recorded.
Recording == {c \in Conns : at[c] = "record"}

\* A response served from the cache is a response to the very URL that was
\* asked for, host, port and scheme included, even when the request came through
\* another tunnel than the one that stored it; it has the status and those
\* end-to-end headers it was received with that are text, the others being dropped
\* by Entry::new, and no hop-by-hop header (Policy::key, Entry::new and replay).
ReplayedAsReceived ==
    \A c \in Recording :
        LET body == answer[c].body IN
        answer[c].outcome = "hit" =>
            /\ body.resource = Resource(request[c].url)
            /\ answer[c].status = body.response.status
            /\ "text" \in answer[c].headers <=> "text" \in body.response.headers
            /\ "hop" \notin answer[c].headers

\* The table of README.md:66-73, row by row.  A pattern covers a host that ends
\* in it, if it starts the host or follows a dot.
Covers(pattern, host) ==
    \E i \in 1 .. Len(host) + 1 :
        /\ SubSeq(host, i, Len(host)) = pattern
        /\ i = 1 \/ host[i - 1] = "."

\* An IPv6 address, without what a URL puts around it.
Address(host) ==
    IF host # <<>> /\ Head(host) = "[" THEN SubSeq(host, 2, Len(host) - 1) ELSE host

RequestRows(r) ==
    /\ r.method = "GET"
    /\ \A p \in AlwaysBypass \cup ExtraBypass : ~Covers(p, Address(r.url.host))
    /\ CacheAuthorized \/ r.credentials = {}
    /\ \A p \in r.url.query : p \notin SignatureParams

ResponseRows(url, response) ==
    LET directives == Range(response.cache_control)
        said == UNION {d.flags : d \in directives}
    IN /\ response.status = 200
       /\ "no-store" \notin said /\ "no-cache" \notin said /\ "private" \notin said
       /\ MinSize <= response.len /\ response.len <= MaxSize
       /\ \/ CacheAll \/ "immutable" \in said \/ \E d \in directives : d.age >= MinMaxAge
          \/ \E a \in Artifacts :
                 Covers(a.host, url.host) /\ (a.path = "" \/ a.path \in Range(url.path))

\* A response whose directives are all in one Cache-Control header, or that has none.
OneHeader(response) == Len(response.cache_control) <= 1

\* Whatever connection, tunnel and history a request has: the cache is consulted
\* for it exactly when it meets the table's rows on requests.  As long as a
\* response has one Cache-Control header at most, it is stored exactly when it
\* meets the rows on responses, and so does what the cache holds
\* (request_eligible, response_storable and their callers).
FollowsTableOneHeader ==
    /\ \A c \in Recording :
           LET outcome == answer[c].outcome
               body == answer[c].body
           IN /\ outcome \in {"hit", "stored", "miss"} => RequestRows(request[c])
              /\ outcome = "pass" => ~RequestRows(request[c])
              /\ outcome = "stored" /\ OneHeader(body.response) =>
                     ResponseRows(body.resource, body.response)
              /\ outcome = "miss" /\ OneHeader(body.response) =>
                     \/ body.response.declared > MaxSize
                     \/ ~ResponseRows(body.resource, body.response)
              /\ outcome = "tunnel" => request[c].url.port \notin MitmPorts
    /\ \A k \in DOMAIN cache :
           LET body == cache[k].body IN
           OneHeader(body.response) => ResponseRows(body.resource, body.response)

\* Every request answered is counted once, and under one outcome, although the
\* handler records on six paths, may fail at any of its awaits and is recorded as
\* an error by its caller when it does (dispatch and its callees).
CountedOnce ==
    LET answered == handled + Cardinality(Recording) IN
    /\ counts["requests"] = answered
    /\ counts["hits"] + counts["misses"] + counts["passthrough"] + counts["errors"] = answered

-----------------------------------------------------------------------------
(***************************************************************************)
(* A claim that the code does not keep.                                    *)
(***************************************************************************)

\* README.md: "A response is stored only if all of the following hold", among them
\* "No `no-store` / `no-cache` / `private`", however many Cache-Control headers it
\* says that in.
StoredOnlyIfTable ==
    \A k \in DOMAIN cache :
        LET body == cache[k].body IN ResponseRows(body.resource, body.response)
=============================================================================
