---------------------------- MODULE ProxyProofs ----------------------------
(***************************************************************************)
(* Theorems about module Proxy, for any lists of hosts and artifacts, any  *)
(* limits and switches, any requests and responses and any number of       *)
(* connections.                                                            *)
(***************************************************************************)
EXTENDS Proxy, FiniteSetTheorems, TLAPS

-----------------------------------------------------------------------------
(***************************************************************************)
(* The policy decides what the table says.                                 *)
(***************************************************************************)

\* A suffix, element by element.
LEMMA SuffixElements ==
    ASSUME NEW s \in Seq(STRING), NEW t \in Seq(STRING)
    PROVE  IsSuffix(s, t) <=>
               /\ Len(s) <= Len(t)
               /\ \A j \in 1 .. Len(s) : s[j] = t[Len(t) - Len(s) + j]
  <1>1. /\ Reverse(s) \in Seq(STRING) /\ Len(Reverse(s)) = Len(s)
        /\ \A j \in 1 .. Len(s) : Reverse(s)[j] = s[Len(s) - j + 1]
    BY DEF Reverse
  <1>2. /\ Reverse(t) \in Seq(STRING) /\ Len(Reverse(t)) = Len(t)
        /\ \A j \in 1 .. Len(t) : Reverse(t)[j] = t[Len(t) - j + 1]
    BY DEF Reverse
  <1>3. ASSUME Len(s) <= Len(t)
        PROVE  SubSeq(Reverse(s), 1, Len(s)) = SubSeq(Reverse(t), 1, Len(s)) <=>
                   \A j \in 1 .. Len(s) : Reverse(s)[j] = Reverse(t)[j]
    BY <1>1, <1>2, <1>3
  <1>4. ASSUME Len(s) <= Len(t)
        PROVE  (\A j \in 1 .. Len(s) : Reverse(s)[j] = Reverse(t)[j]) <=>
                   \A j \in 1 .. Len(s) : s[j] = t[Len(t) - Len(s) + j]
    <2>1. ASSUME \A j \in 1 .. Len(s) : Reverse(s)[j] = Reverse(t)[j],
                 NEW j \in 1 .. Len(s)
          PROVE  s[j] = t[Len(t) - Len(s) + j]
      <3>1. Len(s) - j + 1 \in 1 .. Len(s)
        OBVIOUS
      <3>2. Reverse(s)[Len(s) - j + 1] = Reverse(t)[Len(s) - j + 1]
        BY <2>1, <3>1
      <3>3. Reverse(s)[Len(s) - j + 1] = s[Len(s) - (Len(s) - j + 1) + 1]
        BY <1>1, <3>1
      <3>4. Reverse(t)[Len(s) - j + 1] = t[Len(t) - (Len(s) - j + 1) + 1]
        BY <1>2, <1>4, <3>1
      <3>5. /\ Len(s) - (Len(s) - j + 1) + 1 = j
            /\ Len(t) - (Len(s) - j + 1) + 1 = Len(t) - Len(s) + j
        OBVIOUS
      <3> QED
        BY <3>2, <3>3, <3>4, <3>5
    <2>2. ASSUME \A j \in 1 .. Len(s) : s[j] = t[Len(t) - Len(s) + j],
                 NEW j \in 1 .. Len(s)
          PROVE  Reverse(s)[j] = Reverse(t)[j]
      <3>1. Len(s) - j + 1 \in 1 .. Len(s)
        OBVIOUS
      <3>2. s[Len(s) - j + 1] = t[Len(t) - Len(s) + (Len(s) - j + 1)]
        BY <2>2, <3>1
      <3>3. Len(t) - Len(s) + (Len(s) - j + 1) = Len(t) - j + 1
        OBVIOUS
      <3>4. Reverse(s)[j] = s[Len(s) - j + 1]
        BY <1>1
      <3>5. j \in 1 .. Len(t)
        BY <1>4
      <3>6. Reverse(t)[j] = t[Len(t) - j + 1]
        BY <1>2, <3>5
      <3> QED
        BY <3>2, <3>3, <3>4, <3>6
    <2> QED
      BY <2>1, <2>2
  <1> QED
    BY <1>1, <1>2, <1>3, <1>4 DEF IsSuffix, IsPrefix

\* host_matches: a pattern matches the hosts it covers.
LEMMA MatchesCovered ==
    ASSUME NEW host \in Seq(STRING), NEW pattern \in Seq(STRING)
    PROVE  HostMatches(host, pattern) <=> Covers(pattern, host)
  <1>1. ASSUME HostMatches(host, pattern) PROVE Covers(pattern, host)
    <2>1. CASE host = pattern
      <3>1. SubSeq(host, 1, Len(host)) = pattern
        BY <2>1
      <3> QED
        BY <3>1 DEF Covers
    <2>2. CASE host # pattern
      <3> DEFINE i == Len(host) - Len(pattern) + 1
      <3>1. /\ Len(host) > Len(pattern)
            /\ \A j \in 1 .. Len(pattern) : pattern[j] = host[Len(host) - Len(pattern) + j]
            /\ host[i - 1] = "."
        BY <1>1, <2>2, SuffixElements DEF HostMatches
      <3>2. i \in 1 .. Len(host) + 1
        BY <3>1
      <3>3. SubSeq(host, i, Len(host)) = pattern
        BY <3>1, <3>2
      <3> QED
        BY <3>1, <3>2, <3>3 DEF Covers
    <2> QED
      BY <2>1, <2>2
  <1>2. ASSUME Covers(pattern, host) PROVE HostMatches(host, pattern)
    <2>1. PICK i \in 1 .. Len(host) + 1 :
              SubSeq(host, i, Len(host)) = pattern /\ (i = 1 \/ host[i - 1] = ".")
      BY <1>2 DEF Covers
    <2>2. CASE i = 1
      <3>1. host = pattern
        BY <2>1, <2>2
      <3> QED
        BY <3>1 DEF HostMatches
    <2>3. CASE i # 1
      <3>1. Len(pattern) = Len(host) - i + 1
        BY <2>1
      <3>2. \A j \in 1 .. Len(pattern) : pattern[j] = host[Len(host) - Len(pattern) + j]
        <4> SUFFICES ASSUME NEW j \in 1 .. Len(pattern)
                     PROVE  pattern[j] = host[Len(host) - Len(pattern) + j]
          OBVIOUS
        <4>1. SubSeq(host, i, Len(host))[j] = host[i + j - 1]
          BY <3>1
        <4>2. i + j - 1 = Len(host) - Len(pattern) + j
          BY <3>1
        <4> QED
          BY <2>1, <4>1, <4>2
      <3>3. IsSuffix(pattern, host)
        <4>1. Len(pattern) <= Len(host)
          BY <3>1
        <4> QED
          BY <3>2, <4>1, SuffixElements
      <3>4. Len(host) > Len(pattern) /\ host[Len(host) - Len(pattern)] = "."
        BY <2>1, <2>3, <3>1
      <3> QED
        BY <3>3, <3>4 DEF HostMatches
    <2> QED
      BY <2>2, <2>3
  <1> QED
    BY <1>1, <1>2

Request == [form : {"connect", "absolute", "origin"}, method : STRING,
            url : Urls, credentials : SUBSET Credentials]

\* request_eligible: the cache is consulted for what meets the table's rows.
LEMMA EligibleRows ==
    ASSUME NEW r \in Request, WellFormedHost(r.url.host)
    PROVE  RequestEligible(r.method, r.url, r.credentials) <=> RequestRows(r)
  <1>1. r.url \in Urls /\ r.url.host \in Seq(STRING)
    BY DEF Request, Urls
  <1>2. Unbracketed(r.url.host) = Address(r.url.host)
    <2> DEFINE host == r.url.host
    <2>1. CASE \A i \in DOMAIN host : host[i] \notin {"[", "]"}
      <3>1. Unbracketed(host) = host
        BY <1>1, <2>1 DEF Unbracketed
      <3>2. Address(host) = host
        BY <1>1, <2>1 DEF Address
      <3> QED
        BY <3>1, <3>2
    <2>2. CASE Len(host) = 3 /\ host[1] = "[" /\ host[3] = "]"
      <3>1. Unbracketed(host) = <<host[2]>>
        BY <2>2 DEF Unbracketed
      <3>2. Address(host) = SubSeq(host, 2, 2)
        BY <1>1, <2>2 DEF Address
      <3>3. SubSeq(host, 2, 2) = <<host[2]>>
        <4>1. SubSeq(host, 2, 2) \in Seq(STRING)
          BY <1>1, <2>2
        <4>2. Len(SubSeq(host, 2, 2)) = 1 /\ SubSeq(host, 2, 2)[1] = host[2]
          BY <1>1, <2>2
        <4>3. \A q \in Seq(STRING) : Len(q) = 1 => q = <<q[1]>>
          OBVIOUS
        <4> QED
          BY <4>1, <4>2, <4>3
      <3> QED
        BY <3>1, <3>2, <3>3
    <2> QED
      BY <2>1, <2>2 DEF WellFormedHost
  <1>3. Unbracketed(r.url.host) \in Seq(STRING)
    BY <1>1 DEF Unbracketed
  <1>4. \A p \in AlwaysBypass \cup ExtraBypass :
            HostMatches(Unbracketed(r.url.host), p) <=> Covers(p, Address(r.url.host))
    BY <1>2, <1>3, MatchesCovered, PolicyAssumption
  <1>5. IsBypassed(r.url.host) <=>
            ~ \A p \in AlwaysBypass \cup ExtraBypass : ~Covers(p, Address(r.url.host))
    BY <1>4 DEF IsBypassed
  <1>6. r.credentials \cap {"authorization", "cookie"} = {} <=> r.credentials = {}
    BY DEF Request, Credentials
  <1>7. IsSignedUrl(r.url) <=> ~ \A p \in r.url.query : p \notin SignatureParams
    BY DEF IsSignedUrl
  <1> QED
    BY <1>5, <1>6, <1>7 DEF RequestEligible, RequestRows

\* is_immutable_artifact: the URLs of known artifacts.
LEMMA ArtifactRows ==
    ASSUME NEW url \in Urls
    PROVE  IsImmutableArtifact(url) <=>
               \E a \in Artifacts :
                   Covers(a.host, url.host) /\ (a.path = "" \/ a.path \in Range(url.path))
  <1>1. url.host \in Seq(STRING)
    BY DEF Urls
  <1>2. \A a \in Artifacts : HostMatches(url.host, a.host) <=> Covers(a.host, url.host)
    <2> SUFFICES ASSUME NEW a \in Artifacts
                 PROVE  HostMatches(url.host, a.host) <=> Covers(a.host, url.host)
      OBVIOUS
    <2>1. a.host \in Seq(STRING)
      BY PolicyAssumption
    <2> QED
      BY <1>1, <2>1, MatchesCovered
  <1>3. \A a \in Artifacts : (\E i \in DOMAIN url.path : url.path[i] = a.path)
                                 <=> a.path \in Range(url.path)
    BY DEF Range
  <1> QED
    BY <1>2, <1>3 DEF IsImmutableArtifact

\* The elements of a sequence that has one at most.
LEMMA AtMostOne ==
    ASSUME NEW S, NEW s \in Seq(S), Len(s) <= 1
    PROVE  (s = <<>> => Range(s) = {}) /\ (s # <<>> => Range(s) = {s[1]})
  <1>1. Len(s) \in Nat /\ DOMAIN s = 1 .. Len(s)
    OBVIOUS
  <1>2. CASE Len(s) = 0
    <2>1. s = <<>>
      BY <1>2
    <2>2. DOMAIN s = {}
      BY <1>1, <1>2
    <2>3. Range(s) = {}
      BY <2>2 DEF Range
    <2> QED
      BY <2>1, <2>3
  <1>3. CASE Len(s) = 1
    <2>1. s # <<>>
      BY <1>3
    <2>2. DOMAIN s = {1}
      BY <1>1, <1>3
    <2> QED
      BY <2>1, <2>2 DEF Range
  <1>4. Len(s) = 0 \/ Len(s) = 1
    BY <1>1
  <1> QED
    BY <1>2, <1>3, <1>4

\* response_storable: what meets the table's rows is stored, if it says what it has
\* to say in one header.
LEMMA StorableRows ==
    ASSUME NEW url \in Urls, NEW response \in Responses, OneHeader(response)
    PROVE  ResponseStorable(url, response) <=> ResponseRows(url, response)
  <1> DEFINE cc == CacheControl(response)
             directives == Range(response.cache_control)
             said == UNION {d.flags : d \in directives}
  <1>1. response.cache_control \in Seq(Directives) /\ response.len \in Nat
    BY ProxyAssumption
  <1>2. /\ response.cache_control = <<>> => directives = {}
        /\ response.cache_control # <<>> => directives = {response.cache_control[1]}
    BY <1>1, AtMostOne DEF OneHeader
  <1> HIDE DEF directives
  <1>3. cc.flags = said
    <2>1. CASE response.cache_control = <<>>
      BY <1>2, <2>1 DEF CacheControl, NoDirectives
    <2>2. CASE response.cache_control # <<>>
      BY <1>2, <2>2 DEF CacheControl
    <2> QED
      BY <2>1, <2>2
  <1>4. cc.age >= MinMaxAge <=> \E d \in directives : d.age >= MinMaxAge
    <2>1. CASE response.cache_control = <<>>
      BY <1>2, <2>1, PolicyAssumption DEF CacheControl, NoDirectives, NoAge
    <2>2. CASE response.cache_control # <<>>
      BY <1>2, <2>2 DEF CacheControl
    <2> QED
      BY <2>1, <2>2
  <1>5. cc.flags \cap {"no-store", "no-cache", "private"} = {} <=>
            "no-store" \notin said /\ "no-cache" \notin said /\ "private" \notin said
    BY <1>3
  <1>6. response.len >= MinSize <=> MinSize <= response.len
    BY <1>1, PolicyAssumption
  <1> QED
    BY <1>3, <1>4, <1>5, <1>6, ArtifactRows DEF ResponseStorable, ResponseRows, directives

\* The fragment is no part of a resource, nor of what the table looks at.
LEMMA ResourceOf ==
    ASSUME NEW url \in Urls
    PROVE  /\ Resource(url) \in Urls
           /\ Key(Resource(url)) = Key(url)
           /\ \A response : ResponseRows(Resource(url), response)
                                <=> ResponseRows(url, response)
           /\ \A response : ResponseStorable(Resource(url), response)
                                <=> ResponseStorable(url, response)
  <1>1. /\ Resource(url) \in Urls
        /\ Resource(url).scheme = url.scheme /\ Resource(url).host = url.host
        /\ Resource(url).port = url.port /\ Resource(url).path = url.path
        /\ Resource(url).query = url.query
    BY DEF Resource, Urls
  <1>2. Key(Resource(url)) = Key(url)
    BY <1>1 DEF Key
  <1>3. \A response : ResponseRows(Resource(url), response) <=> ResponseRows(url, response)
    BY <1>1 DEF ResponseRows
  <1>4. \A response : ResponseStorable(Resource(url), response)
                          <=> ResponseStorable(url, response)
    BY <1>1 DEF ResponseStorable, IsImmutableArtifact
  <1> QED
    BY <1>1, <1>2, <1>3, <1>4

\* Policy::key tells resources apart.
LEMMA KeyDetermines ==
    ASSUME NEW u \in Urls, NEW v \in Urls, Key(u) = Key(v)
    PROVE  Resource(u) = Resource(v)
  <1>1. u.scheme = v.scheme /\ u.host = v.host /\ u.path = v.path /\ u.query = v.query
    BY DEF Key
  <1>2. u.port = v.port
    BY <1>1 DEF Key, Urls, NoPort
  <1> QED
    BY <1>1, <1>2 DEF Resource, Urls

-----------------------------------------------------------------------------
(***************************************************************************)
(* The inductive invariant.  What a connection holds depends on where its  *)
(* task is; `l`, `t`, `r` and `a` stand for at[c], tunnel[c], request[c]   *)
(* and answer[c].                                                          *)
(***************************************************************************)

Where == {"open", "upgrade", "tls", "forward", "lookup", "fetch", "put", "stored",
          "record", "closed", "blind"}

\* The tasks that have found their request eligible.
Consulting == {"lookup", "fetch", "put", "stored"}

WithRequest == Consulting \cup {"upgrade", "tls", "forward", "record"}

Authority == [host : Seq(STRING), port : Nat]

Outcomes == {"hit", "stored", "miss", "pass", "tunnel", "error"}

\* An entry is what a storable response to the URL of its key makes.
SoundEntry(k, e) ==
    LET url == e.body.resource
        response == e.body.response
    IN /\ url \in Urls /\ response \in Responses
       /\ k = Key(url)
       /\ e = Entry(url, response)
       /\ ResponseStorable(url, response)

\* The response made for a request whose response is about to be stored.
ToBeStored(r, a) ==
    LET response == a.body.response IN
    /\ response \in Responses
    /\ a = Buffered("stored", r.url, response)
    /\ ResponseStorable(r.url, response)

\* The answers a request may get, by outcome.
RightAnswer(r, a) ==
    LET response == a.body.response IN
    \/ a = BadGateway
    \/ a = Tunnelled /\ r.url.port \notin MitmPorts
    \/ /\ RequestRows(r)
       /\ \/ /\ a = Replay(Entry(a.body.resource, response))
             /\ SoundEntry(Key(r.url), Entry(a.body.resource, response))
          \/ ToBeStored(r, a)
          \/ /\ response \in Responses
             /\ a = Relay("miss", r.url, response) /\ response.declared > MaxSize
          \/ /\ response \in Responses
             /\ a = Buffered("miss", r.url, response) /\ ~ResponseStorable(r.url, response)
    \/ /\ ~RequestRows(r)
       /\ response \in Responses
       /\ a = Relay("pass", r.url, response)

Local(l, t, r, a) ==
    /\ l \in Where
    /\ t = None \/ (t \in Authority /\ WellFormedHost(t.host))
    /\ l \in WithRequest => r \in Request /\ WellFormedHost(r.url.host)
    /\ l \in Consulting => RequestRows(r)
    /\ l = "forward" => ~RequestRows(r)
    /\ l \in {"put", "stored"} => ToBeStored(r, a)
    /\ l = "record" => RightAnswer(r, a)

Shape ==
    /\ DOMAIN at = Conns /\ DOMAIN tunnel = Conns
    /\ DOMAIN request = Conns /\ DOMAIN answer = Conns

Conversations == \A c \in Conns : Local(at[c], tunnel[c], request[c], answer[c])

Entries == \A k \in DOMAIN cache : SoundEntry(k, cache[k])

Counting == counts \in [Counters -> Nat] /\ handled \in Nat /\ CountedOnce

Inv == Shape /\ Conversations /\ Entries /\ Counting

-----------------------------------------------------------------------------
(***************************************************************************)
(* What the steps of one connection have in common.                        *)
(***************************************************************************)

\* Only the connection c moves, to the place l.
Moves(c, l) ==
    /\ Shape'
    /\ at' = [at EXCEPT ![c] = l]
    /\ \A d \in Conns \ {c} : /\ tunnel'[d] = tunnel[d]
                              /\ request'[d] = request[d]
                              /\ answer'[d] = answer[d]

LEMMA OthersKeep ==
    ASSUME Shape, Conversations, NEW c \in Conns, NEW l, Moves(c, l),
           Local(l, tunnel'[c], request'[c], answer'[c])
    PROVE  Conversations'
  <1> SUFFICES ASSUME NEW d \in Conns
               PROVE  Local(at'[d], tunnel'[d], request'[d], answer'[d])
    BY DEF Conversations
  <1>1. CASE d = c
    <2>1. at'[c] = l
      BY DEF Moves, Shape
    <2> QED
      BY <1>1, <2>1
  <1>2. CASE d # c
    <2>1. at'[d] = at[d] /\ tunnel'[d] = tunnel[d] /\ request'[d] = request[d]
          /\ answer'[d] = answer[d]
      BY <1>2 DEF Moves, Shape
    <2> QED
      BY <2>1 DEF Conversations
  <1> QED
    BY <1>1, <1>2

LEMMA RecordingFinite ==
    IsFiniteSet(Recording) /\ Cardinality(Recording) \in Nat
  <1>1. Recording \subseteq Conns
    BY DEF Recording
  <1> QED
    BY <1>1, ProxyAssumption, FS_Subset, FS_CardinalityType

\* Nothing is recorded on the way.
LEMMA QuietCounting ==
    ASSUME Shape, Counting, NEW c \in Conns, NEW l, at' = [at EXCEPT ![c] = l],
           at[c] # "record", l # "record", UNCHANGED <<counts, handled>>
    PROVE  Counting'
  <1>1. Recording' = Recording
    BY DEF Recording, Shape
  <1> QED
    BY <1>1 DEF Counting, CountedOnce

\* Stats::record on one answer.
LEMMA RecordCounting ==
    ASSUME Shape, Counting, NEW c \in Conns, at[c] # "record", NEW a,
           a.outcome \in Outcomes, Record(c, a), UNCHANGED handled
    PROVE  Counting'
  <1>1. Recording' = Recording \cup {c} /\ c \notin Recording
    BY DEF Recording, Shape, Record, Goto
  <1>2. Cardinality(Recording') = Cardinality(Recording) + 1
    BY <1>1, RecordingFinite, FS_AddElement
  <1>3. counts' = [x \in Counters |-> IF x \in Bumps(a.outcome) THEN counts[x] + 1
                                      ELSE counts[x]]
    BY DEF Record
  <1>4. counts' \in [Counters -> Nat]
    BY <1>3 DEF Counting
  <1>5. {"requests", "hits", "misses", "passthrough", "errors"} \subseteq Counters
    BY DEF Counters
  <1>6. /\ counts'["requests"] = counts["requests"] + 1
        /\ counts'["hits"] + counts'["misses"] + counts'["passthrough"] + counts'["errors"]
             = counts["hits"] + counts["misses"] + counts["passthrough"] + counts["errors"] + 1
    <2> USE DEF Counting
    <2>1. CASE a.outcome = "hit"
      BY <1>3, <1>5, <2>1 DEF Bumps
    <2>2. CASE a.outcome = "stored"
      BY <1>3, <1>5, <2>2 DEF Bumps
    <2>3. CASE a.outcome = "miss"
      BY <1>3, <1>5, <2>3 DEF Bumps
    <2>4. CASE a.outcome \in {"pass", "tunnel"}
      BY <1>3, <1>5, <2>4 DEF Bumps
    <2>5. CASE a.outcome = "error"
      BY <1>3, <1>5, <2>5 DEF Bumps
    <2> QED
      BY <2>1, <2>2, <2>3, <2>4, <2>5 DEF Outcomes
  <1> QED
    BY <1>2, <1>4, <1>5, <1>6, RecordingFinite DEF Counting, CountedOnce

\* The fields of the messages made.
LEMMA Fields ==
    /\ BadGateway.outcome = "error" /\ Tunnelled.outcome = "tunnel"
    /\ \A o, url, response :
           /\ Relay(o, url, response).outcome = o
           /\ Relay(o, url, response).body = Body(url, response)
           /\ Buffered(o, url, response).outcome = o
           /\ Buffered(o, url, response).body = Body(url, response)
           /\ Body(url, response).resource = Resource(url)
           /\ Body(url, response).response = response
           /\ Entry(url, response).body = Body(url, response)
    /\ \A e : Replay(e).outcome = "hit" /\ Replay(e).body = e.body
  BY DEF BadGateway, Tunnelled, Relay, Buffered, Build, Body, Entry, Replay

\* An entry remembers the resource, not the fragment it was asked for with.
LEMMA EntryOfResource ==
    ASSUME NEW url \in Urls, NEW response
    PROVE  Entry(Resource(url), response) = Entry(url, response)
  <1>1. Resource(Resource(url)) = Resource(url)
    BY DEF Resource, Urls
  <1> QED
    BY <1>1 DEF Entry, Body

\* The answer and the entry made of one response agree.
LEMMA StoredIsSound ==
    ASSUME NEW r \in Request, NEW a, ToBeStored(r, a)
    PROVE  SoundEntry(Key(r.url), Entry(r.url, a.body.response))
  <1>1. r.url \in Urls
    BY DEF Request
  <1> DEFINE e == Entry(r.url, a.body.response)
  <1>2. e.body.resource = Resource(r.url) /\ e.body.response = a.body.response
    BY Fields
  <1>3. e = Entry(Resource(r.url), a.body.response)
    BY <1>1, EntryOfResource
  <1> QED
    BY <1>1, <1>2, <1>3, ResourceOf DEF SoundEntry, ToBeStored

LEMMA RightOutcome ==
    ASSUME NEW r, NEW a, RightAnswer(r, a)
    PROVE  a.outcome \in Outcomes
  BY Fields DEF RightAnswer, ToBeStored, Outcomes

\* A step that records a right answer to the request at hand.
LEMMA RecordInv ==
    ASSUME Inv, NEW c \in Conns, at[c] \in WithRequest \ {"record"}, NEW a,
           Record(c, a), RightAnswer(request[c], a),
           UNCHANGED <<tunnel, request, cache, handled>>
    PROVE  Inv'
  <1>1. Shape /\ Conversations /\ Entries /\ Counting
    BY DEF Inv
  <1>2. Local(at[c], tunnel[c], request[c], answer[c])
    BY <1>1 DEF Conversations
  <1>3. Moves(c, "record") /\ answer'[c] = a
    BY <1>1 DEF Moves, Shape, Record, Goto
  <1>4. Local("record", tunnel'[c], request'[c], answer'[c])
    BY <1>2, <1>3 DEF Local, Where, Consulting, WithRequest
  <1>5. Conversations'
    BY <1>1, <1>3, <1>4, OthersKeep
  <1>6. Counting'
    BY <1>1, RightOutcome, RecordCounting
  <1> QED
    BY <1>1, <1>3, <1>5, <1>6 DEF Inv, Moves, Entries

\* A step to another place that records nothing and leaves the cache alone.
LEMMA QuietInv ==
    ASSUME Inv, NEW c \in Conns, NEW l, Moves(c, l), at[c] # "record", l # "record",
           Local(l, tunnel'[c], request'[c], answer'[c]),
           UNCHANGED <<cache, counts, handled>>
    PROVE  Inv'
  <1>1. Conversations'
    BY OthersKeep DEF Inv
  <1>2. Counting'
    BY QuietCounting DEF Inv, Moves
  <1> QED
    BY <1>1, <1>2 DEF Inv, Moves, Entries

-----------------------------------------------------------------------------
(***************************************************************************)
(* The actions.                                                            *)
(***************************************************************************)

\* The absolute URL of a request is a URL, with a host that is one.
LEMMA AbsoluteUrlType ==
    ASSUME Inv, NEW c \in Conns, NEW r \in Requests
    PROVE  /\ [r EXCEPT !.url = AbsoluteUrl(c, r)] \in Request
           /\ [r EXCEPT !.url = AbsoluteUrl(c, r)].url = AbsoluteUrl(c, r)
           /\ [r EXCEPT !.url = AbsoluteUrl(c, r)].method = r.method
           /\ [r EXCEPT !.url = AbsoluteUrl(c, r)].credentials = r.credentials
           /\ WellFormedHost(AbsoluteUrl(c, r).host)
  <1>1. r \in Request /\ WellFormedHost(r.url.host) /\ r.url \in Urls
    BY ProxyAssumption DEF Request
  <1>2. tunnel[c] = None \/ (tunnel[c] \in Authority /\ WellFormedHost(tunnel[c].host))
    BY DEF Inv, Conversations, Local
  <1>3. AbsoluteUrl(c, r) \in Urls /\ WellFormedHost(AbsoluteUrl(c, r).host)
    <2>1. CASE tunnel[c] = None
      BY <1>1, <2>1 DEF AbsoluteUrl
    <2>2. CASE tunnel[c] # None
      <3>1. tunnel[c].host \in Seq(STRING) /\ tunnel[c].port \in Nat
        BY <1>2, <2>2 DEF Authority
      <3>2. AbsoluteUrl(c, r) =
                [r.url EXCEPT !.scheme = "https", !.host = tunnel[c].host,
                              !.port = tunnel[c].port]
        BY <2>2 DEF AbsoluteUrl
      <3>3. AbsoluteUrl(c, r) \in Urls /\ AbsoluteUrl(c, r).host = tunnel[c].host
        BY <1>1, <3>1, <3>2 DEF Urls
      <3> QED
        BY <1>2, <2>2, <3>3
    <2> QED
      BY <2>1, <2>2
  <1> QED
    BY <1>1, <1>3 DEF Request

LEMMA ConnectInv ==
    ASSUME Inv, NEW c \in Conns, NEW r \in Requests, Connect(c, r)
    PROVE  Inv'
  <1>1. Moves(c, "upgrade") /\ request'[c] = [r EXCEPT !.url = AbsoluteUrl(c, r)]
    BY DEF Inv, Shape, Moves, Connect, Take, Goto
  <1>2. Local("upgrade", tunnel'[c], request'[c], answer'[c])
    <2>1. Local(at[c], tunnel[c], request[c], answer[c])
      BY DEF Inv, Conversations
    <2> QED
      BY <1>1, <2>1, AbsoluteUrlType DEF Connect, Local, Where, Consulting, WithRequest
  <1> QED
    BY <1>1, <1>2, QuietInv DEF Connect, Take

LEMMA UpgradeInv ==
    ASSUME Inv, NEW c \in Conns, Upgrade(c)
    PROVE  Inv'
  <1>1. Local(at[c], tunnel[c], request[c], answer[c])
    BY DEF Inv, Conversations
  <1>2. CASE Goto(c, "closed") /\ UNCHANGED <<answer, counts>>
    <2>1. Moves(c, "closed")
      BY <1>2 DEF Inv, Shape, Moves, Upgrade, Goto
    <2>2. Local("closed", tunnel'[c], request'[c], answer'[c])
      BY <1>1 DEF Upgrade, Local, Where, Consulting, WithRequest
    <2> QED
      BY <1>2, <2>1, <2>2, QuietInv DEF Upgrade
  <1>3. CASE Goto(c, "tls") /\ UNCHANGED <<answer, counts>>
    <2>1. Moves(c, "tls")
      BY <1>3 DEF Inv, Shape, Moves, Upgrade, Goto
    <2>2. Local("tls", tunnel'[c], request'[c], answer'[c])
      BY <1>1 DEF Upgrade, Local, Where, Consulting, WithRequest
    <2> QED
      BY <1>3, <2>1, <2>2, QuietInv DEF Upgrade
  <1>4. CASE request[c].url.port \notin MitmPorts /\ Record(c, Tunnelled)
    <2>1. RightAnswer(request[c], Tunnelled)
      BY <1>4 DEF RightAnswer
    <2> QED
      BY <1>4, <2>1, RecordInv DEF Upgrade, WithRequest
  <1> QED
    BY <1>2, <1>3, <1>4 DEF Upgrade

LEMMA InterceptInv ==
    ASSUME Inv, NEW c \in Conns, Intercept(c)
    PROVE  Inv'
  <1>1. Local(at[c], tunnel[c], request[c], answer[c])
    BY DEF Inv, Conversations
  <1>2. request[c].url \in Urls /\ WellFormedHost(request[c].url.host)
    BY <1>1 DEF Intercept, Local, WithRequest, Request
  <1>3. CASE Goto(c, "closed") /\ UNCHANGED tunnel
    <2>1. Moves(c, "closed")
      BY <1>3 DEF Inv, Shape, Moves, Intercept, Goto
    <2>2. Local("closed", tunnel'[c], request'[c], answer'[c])
      BY <1>1, <1>3 DEF Local, Where, Consulting, WithRequest
    <2> QED
      BY <2>1, <2>2, QuietInv DEF Intercept
  <1>4. CASE /\ tunnel' = [tunnel EXCEPT ![c] = [host |-> request[c].url.host,
                                                 port |-> request[c].url.port]]
             /\ Goto(c, "open")
    <2>1. Moves(c, "open")
      BY <1>4 DEF Inv, Shape, Moves, Intercept, Goto
    <2>2. tunnel'[c] = [host |-> request[c].url.host, port |-> request[c].url.port]
      BY <1>4 DEF Inv, Shape
    <2>3. tunnel'[c] \in Authority /\ tunnel'[c].host = request[c].url.host
      BY <1>2, <2>2 DEF Authority, Urls
    <2>4. Local("open", tunnel'[c], request'[c], answer'[c])
      BY <1>2, <2>3 DEF Local, Where, Consulting, WithRequest
    <2> QED
      BY <2>1, <2>4, QuietInv DEF Intercept
  <1> QED
    BY <1>3, <1>4 DEF Intercept

LEMMA HandleInv ==
    ASSUME Inv, NEW c \in Conns, NEW r \in Requests, Handle(c, r)
    PROVE  Inv'
  <1> DEFINE q == [r EXCEPT !.url = AbsoluteUrl(c, r)]
  <1>1. Local(at[c], tunnel[c], request[c], answer[c])
    BY DEF Inv, Conversations
  <1>2. request'[c] = q /\ at[c] = "open"
    BY DEF Inv, Shape, Handle, Take
  <1>3. q \in Request /\ WellFormedHost(q.url.host)
    BY AbsoluteUrlType
  <1>4. CASE Record(c, BadGateway)
    <2>1. Moves(c, "record") /\ answer'[c] = BadGateway
      BY <1>4 DEF Inv, Shape, Moves, Handle, Take, Record, Goto
    <2>2. Local("record", tunnel'[c], request'[c], answer'[c])
      BY <1>1, <1>2, <1>3, <2>1
      DEF Handle, Local, Where, Consulting, WithRequest, RightAnswer
    <2>3. Conversations'
      BY <2>1, <2>2, OthersKeep DEF Inv
    <2>4. Counting'
      BY <1>2, <1>4, Fields, RecordCounting DEF Inv, Handle, Outcomes
    <2> QED
      BY <2>1, <2>3, <2>4 DEF Inv, Moves, Entries, Handle
  <1>5. CASE /\ Goto(c, IF RequestEligible(r.method, AbsoluteUrl(c, r), r.credentials)
                        THEN "lookup" ELSE "forward")
             /\ UNCHANGED <<answer, counts>>
    <2>1. RequestEligible(r.method, AbsoluteUrl(c, r), r.credentials) <=> RequestRows(q)
      BY <1>3, AbsoluteUrlType, EligibleRows
    <2>2. CASE RequestRows(q)
      <3>1. Moves(c, "lookup")
        BY <1>5, <2>1, <2>2 DEF Inv, Shape, Moves, Handle, Take, Goto
      <3>2. Local("lookup", tunnel'[c], request'[c], answer'[c])
        BY <1>1, <1>2, <1>3, <2>2 DEF Handle, Local, Where, Consulting, WithRequest
      <3> QED
        BY <1>2, <1>5, <3>1, <3>2, QuietInv DEF Handle
    <2>3. CASE ~RequestRows(q)
      <3>1. Moves(c, "forward")
        BY <1>5, <2>1, <2>3 DEF Inv, Shape, Moves, Handle, Take, Goto
      <3>2. Local("forward", tunnel'[c], request'[c], answer'[c])
        BY <1>1, <1>2, <1>3, <2>3 DEF Handle, Local, Where, Consulting, WithRequest
      <3> QED
        BY <1>2, <1>5, <3>1, <3>2, QuietInv DEF Handle
    <2> QED
      BY <2>2, <2>3
  <1> QED
    BY <1>4, <1>5 DEF Handle

LEMMA ForwardInv ==
    ASSUME Inv, NEW c \in Conns, Forward(c)
    PROVE  Inv'
  <1>1. Local(at[c], tunnel[c], request[c], answer[c]) /\ ~RequestRows(request[c])
    BY DEF Inv, Conversations, Local, Forward
  <1>2. CASE Record(c, BadGateway)
    BY <1>2, RecordInv DEF Forward, WithRequest, RightAnswer
  <1>3. ASSUME NEW response \in Responses, Record(c, Relay("pass", request[c].url, response))
        PROVE  Inv'
    <2>1. RightAnswer(request[c], Relay("pass", request[c].url, response))
      BY <1>1, Fields DEF RightAnswer
    <2> QED
      BY <1>3, <2>1, RecordInv DEF Forward, WithRequest
  <1> QED
    BY <1>2, <1>3 DEF Forward

LEMMA LookupInv ==
    ASSUME Inv, NEW c \in Conns, Lookup(c)
    PROVE  Inv'
  <1> DEFINE key == Key(request[c].url)
  <1>1. Local(at[c], tunnel[c], request[c], answer[c]) /\ RequestRows(request[c])
    BY DEF Inv, Conversations, Local, Lookup, Consulting
  <1>2. CASE key \in DOMAIN cache /\ Record(c, Replay(cache[key]))
    <2>1. SoundEntry(key, cache[key])
      BY <1>2 DEF Inv, Entries
    <2>2. cache[key] = Entry(cache[key].body.resource, cache[key].body.response)
      BY <2>1 DEF SoundEntry
    <2>3. Replay(cache[key]).body = cache[key].body
      BY Fields
    <2>4. RightAnswer(request[c], Replay(cache[key]))
      BY <1>1, <2>1, <2>2, <2>3 DEF RightAnswer
    <2> QED
      BY <1>2, <2>4, RecordInv DEF Lookup, WithRequest, Consulting
  <1>3. CASE Goto(c, "fetch") /\ UNCHANGED <<answer, counts>>
    <2>1. Moves(c, "fetch")
      BY <1>3 DEF Inv, Shape, Moves, Lookup, Goto
    <2>2. Local("fetch", tunnel'[c], request'[c], answer'[c])
      BY <1>1 DEF Lookup, Local, Where, Consulting, WithRequest
    <2> QED
      BY <1>3, <2>1, <2>2, QuietInv DEF Lookup
  <1> QED
    BY <1>2, <1>3 DEF Lookup

LEMMA FetchInv ==
    ASSUME Inv, NEW c \in Conns, Fetch(c)
    PROVE  Inv'
  <1> DEFINE url == request[c].url
  <1>1. Local(at[c], tunnel[c], request[c], answer[c]) /\ RequestRows(request[c])
    BY DEF Inv, Conversations, Local, Fetch, Consulting
  <1>2. url \in Urls
    BY <1>1 DEF Fetch, Local, WithRequest, Consulting, Request
  <1>3. CASE Record(c, BadGateway)
    BY <1>3, RecordInv DEF Fetch, WithRequest, Consulting, RightAnswer
  <1>4. ASSUME NEW response \in Responses, response.declared > MaxSize,
               Record(c, Relay("miss", url, response))
        PROVE  Inv'
    <2>1. RightAnswer(request[c], Relay("miss", url, response))
      BY <1>1, <1>4, Fields DEF RightAnswer
    <2> QED
      BY <1>4, <2>1, RecordInv DEF Fetch, WithRequest, Consulting
  <1>5. ASSUME NEW response \in Responses, ~ResponseStorable(url, response),
               Record(c, Buffered("miss", url, response))
        PROVE  Inv'
    <2>1. RightAnswer(request[c], Buffered("miss", url, response))
      BY <1>1, <1>5, Fields DEF RightAnswer
    <2> QED
      BY <1>5, <2>1, RecordInv DEF Fetch, WithRequest, Consulting
  <1>6. ASSUME NEW response \in Responses, ResponseStorable(url, response),
               answer' = [answer EXCEPT ![c] = Buffered("stored", url, response)],
               Goto(c, "put"), UNCHANGED counts
        PROVE  Inv'
    <2>1. Moves(c, "put") /\ answer'[c] = Buffered("stored", url, response)
      BY <1>6 DEF Inv, Shape, Moves, Fetch, Goto
    <2>2. ToBeStored(request[c], answer'[c])
      BY <1>2, <1>6, <2>1, Fields DEF ToBeStored
    <2>3. Local("put", tunnel'[c], request'[c], answer'[c])
      BY <1>1, <2>2 DEF Fetch, Local, Where, Consulting, WithRequest
    <2> QED
      BY <1>6, <2>1, <2>3, QuietInv DEF Fetch
  <1> QED
    BY <1>3, <1>4, <1>5, <1>6 DEF Fetch

LEMMA PutInv ==
    ASSUME Inv, NEW c \in Conns, Put(c)
    PROVE  Inv'
  <1> DEFINE key == Key(request[c].url)
             e == Entry(request[c].url, answer[c].body.response)
  <1>1. Local(at[c], tunnel[c], request[c], answer[c])
    BY DEF Inv, Conversations
  <1>2. request[c] \in Request /\ ToBeStored(request[c], answer[c])
    BY <1>1 DEF Put, Local, WithRequest, Consulting
  <1>3. SoundEntry(key, e)
    BY <1>2, StoredIsSound
  <1>4. Entries'
    <2>1. CASE key \in DOMAIN cache
      BY <2>1 DEF Put, Inv, Entries
    <2>2. CASE key \notin DOMAIN cache
      <3>1. cache' = [k \in DOMAIN cache \cup {key} |->
                          IF k \in DOMAIN cache THEN cache[k] ELSE e]
        BY <2>2 DEF Put
      <3> QED
        BY <1>3, <3>1 DEF Inv, Entries
    <2> QED
      BY <2>1, <2>2
  <1>5. Moves(c, "stored")
    BY DEF Inv, Shape, Moves, Put, Goto
  <1>6. Local("stored", tunnel'[c], request'[c], answer'[c])
    BY <1>1 DEF Put, Local, Where, Consulting, WithRequest
  <1>7. Conversations'
    BY <1>5, <1>6, OthersKeep DEF Inv
  <1>8. Counting'
    BY <1>5, QuietCounting DEF Inv, Moves, Put
  <1> QED
    BY <1>4, <1>5, <1>7, <1>8 DEF Inv, Moves

LEMMA StoredInv ==
    ASSUME Inv, NEW c \in Conns, Stored(c)
    PROVE  Inv'
  <1>1. RequestRows(request[c]) /\ ToBeStored(request[c], answer[c])
    BY DEF Inv, Conversations, Local, Stored, Consulting
  <1>2. RightAnswer(request[c], answer[c])
    BY <1>1 DEF RightAnswer
  <1> QED
    BY <1>2, RecordInv DEF Stored, WithRequest, Consulting

\* A request that was recorded is answered: it moves from one summand of
\* CountedOnce to the other.
LEMMA RespondInv ==
    ASSUME Inv, NEW c \in Conns, Respond(c)
    PROVE  Inv'
  <1>1. PICK l \in {"blind", "open"} : at' = [at EXCEPT ![c] = l]
    BY Zenon DEF Respond, Goto
  <1>2. Moves(c, l)
    BY <1>1 DEF Inv, Shape, Moves, Respond
  <1>3. Local(l, tunnel'[c], request'[c], answer'[c])
    <2>1. Local(at[c], tunnel[c], request[c], answer[c])
      BY DEF Inv, Conversations
    <2> QED
      BY <2>1 DEF Respond, Local, Where, Consulting, WithRequest
  <1>4. Conversations'
    BY <1>2, <1>3, OthersKeep DEF Inv
  <1>5. Recording' = Recording \ {c} /\ c \in Recording
    BY <1>1 DEF Inv, Shape, Recording, Respond
  <1>6. Cardinality(Recording') = Cardinality(Recording) - 1
    BY <1>5, RecordingFinite, FS_RemoveElement
  <1>7. handled + Cardinality(Recording) = handled' + Cardinality(Recording')
    BY <1>6, RecordingFinite DEF Inv, Counting, Respond
  <1>8. Counting'
    BY <1>7 DEF Inv, Counting, CountedOnce, Respond
  <1> QED
    BY <1>2, <1>4, <1>8 DEF Inv, Moves, Entries, Respond

LEMMA DisconnectInv ==
    ASSUME Inv, NEW c \in Conns, Disconnect(c)
    PROVE  Inv'
  <1>1. Moves(c, "closed")
    BY DEF Inv, Shape, Moves, Disconnect, Goto
  <1>2. Local("closed", tunnel'[c], request'[c], answer'[c])
    <2>1. Local(at[c], tunnel[c], request[c], answer[c])
      BY DEF Inv, Conversations
    <2> QED
      BY <2>1 DEF Disconnect, Local, Where, Consulting, WithRequest
  <1> QED
    BY <1>1, <1>2, QuietInv DEF Disconnect

-----------------------------------------------------------------------------
(***************************************************************************)
(* Theorems.                                                               *)
(***************************************************************************)

LEMMA InitInv == Init => Inv
  <1> SUFFICES ASSUME Init PROVE Inv
    OBVIOUS
  <1>1. Shape
    BY DEF Init, Shape
  <1>2. Conversations
    BY DEF Init, Conversations, Local, Where, Consulting, WithRequest
  <1>3. Entries
    BY DEF Init, Entries
  <1>4. Recording = {} /\ Cardinality({}) = 0
    BY FS_EmptySet DEF Init, Recording
  <1>5. Counting
    BY <1>4 DEF Init, Counting, CountedOnce, Zero, Counters
  <1> QED
    BY <1>1, <1>2, <1>3, <1>5 DEF Inv

LEMMA StepInv == Inv /\ [Next]_vars => Inv'
  <1> SUFFICES ASSUME Inv, [Next]_vars PROVE Inv'
    OBVIOUS
  <1>1. ASSUME NEW c \in Conns, Conn(c) PROVE Inv'
    BY <1>1, ConnectInv, HandleInv, UpgradeInv, InterceptInv, ForwardInv, LookupInv,
       FetchInv, PutInv, StoredInv, RespondInv, DisconnectInv DEF Conn
  <1>2. CASE UNCHANGED vars
    BY <1>2 DEF vars, Inv, Shape, Conversations, Entries, Counting, CountedOnce, Recording
  <1> QED
    BY <1>1, <1>2 DEF Next, Finished

LEMMA Invariance == Spec => []Inv
  BY InitInv, StepInv, PTL DEF Spec

\* For any number of connections: every request answered is counted once and
\* under one outcome, on every path of dispatch and its callees.
THEOREM EveryRequestCountedOnce == Spec => []CountedOnce
  <1>1. Inv => CountedOnce
    BY DEF Inv, Counting
  <1> QED
    BY <1>1, Invariance, PTL

\* For any requests, tunnels and responses: what is served from the cache was
\* received for the very URL asked for and is passed on with its status and its
\* end-to-end headers (Policy::key, Entry::new and replay).
THEOREM ReplaySafe == Spec => []ReplayedAsReceived
  <1>1. Inv => ReplayedAsReceived
    <2> SUFFICES ASSUME Inv, NEW c \in Recording, answer[c].outcome = "hit"
                 PROVE  LET body == answer[c].body IN
                        /\ body.resource = Resource(request[c].url)
                        /\ answer[c].status = body.response.status
                        /\ "text" \in answer[c].headers <=> "text" \in body.response.headers
                        /\ "hop" \notin answer[c].headers
      BY DEF ReplayedAsReceived
    <2> DEFINE a == answer[c]
               response == a.body.response
               url == a.body.resource
               e == Entry(url, response)
    <2>1. request[c] \in Request /\ RightAnswer(request[c], a)
      BY DEF Inv, Conversations, Local, Recording, WithRequest
    <2>2. a = Replay(e) /\ SoundEntry(Key(request[c].url), e)
      BY <2>1, Fields DEF RightAnswer, ToBeStored
    <2>3. e.body = a.body
      BY <2>2, Fields
    <2>4. url \in Urls /\ Key(url) = Key(request[c].url)
      BY <2>2, <2>3 DEF SoundEntry
    <2>5. url = Resource(url)
      BY <2>3, Fields
    <2>6. url = Resource(request[c].url)
      BY <2>1, <2>4, <2>5, KeyDetermines DEF Request
    <2>7. /\ a.status = response.status
          /\ "text" \in a.headers <=> "text" \in response.headers
          /\ "hop" \notin a.headers
      <3>1. a.status = e.status /\ a.headers = e.headers \cup {"length"}
        BY <2>2 DEF Replay, Build
      <3>2. /\ e.status = response.status
            /\ e.headers = Sanitize(response.headers) \ {"hop", "binary"}
        BY DEF Entry
      <3> QED
        BY <3>1, <3>2 DEF Sanitize
    <2> QED
      BY <2>6, <2>7
  <1> QED
    BY <1>1, Invariance, PTL

\* For any bypass lists, artifacts, limits and switches: the cache is consulted
\* and bypassed exactly as the README's table says, and filled so with responses
\* that have no second Cache-Control header, whatever the tunnels and the
\* interleaving (request_eligible, response_storable and their callers).
THEOREM TableSafe == Spec => []FollowsTableOneHeader
  <1>1. Inv => FollowsTableOneHeader
    <2> SUFFICES ASSUME Inv PROVE FollowsTableOneHeader
      OBVIOUS
    <2>1. ASSUME NEW c \in Recording
          PROVE  LET outcome == answer[c].outcome
                     body == answer[c].body
                 IN /\ outcome \in {"hit", "stored", "miss"} => RequestRows(request[c])
                    /\ outcome = "pass" => ~RequestRows(request[c])
                    /\ outcome = "stored" /\ OneHeader(body.response) =>
                           ResponseRows(body.resource, body.response)
                    /\ outcome = "miss" /\ OneHeader(body.response) =>
                           \/ body.response.declared > MaxSize
                           \/ ~ResponseRows(body.resource, body.response)
                    /\ outcome = "tunnel" => request[c].url.port \notin MitmPorts
      <3> DEFINE a == answer[c]
                 r == request[c]
                 response == a.body.response
      <3>1. r \in Request /\ r.url \in Urls /\ RightAnswer(r, a)
        BY <2>1 DEF Inv, Conversations, Local, Recording, WithRequest, Request
      <3>2. ResponseRows(Resource(r.url), response) <=> ResponseRows(r.url, response)
        BY <3>1, ResourceOf
      <3>3. CASE a = BadGateway
        BY <3>3, Fields
      <3>4. CASE a = Tunnelled /\ r.url.port \notin MitmPorts
        BY <3>4, Fields
      <3>5. CASE RequestRows(r) /\ a = Replay(Entry(a.body.resource, response))
        BY <3>5, Fields
      <3>6. CASE RequestRows(r) /\ ToBeStored(r, a)
        <4>1. /\ a = Buffered("stored", r.url, response)
              /\ OneHeader(response) => ResponseRows(r.url, response)
          BY <3>1, <3>6, StorableRows DEF ToBeStored
        <4>2. a.outcome = "stored" /\ a.body.resource = Resource(r.url)
          BY <4>1, Fields
        <4> QED
          BY <3>2, <3>6, <4>1, <4>2
      <3>7. CASE RequestRows(r) /\ a = Relay("miss", r.url, response)
                 /\ response.declared > MaxSize
        BY <3>7, Fields
      <3>8. CASE RequestRows(r) /\ a = Buffered("miss", r.url, response)
                 /\ response \in Responses /\ ~ResponseStorable(r.url, response)
        <4>1. a.outcome = "miss" /\ a.body.resource = Resource(r.url)
          BY <3>8, Fields
        <4>2. OneHeader(response) => ~ResponseRows(r.url, response)
          BY <3>1, <3>8, StorableRows
        <4> QED
          BY <3>2, <3>8, <4>1, <4>2
      <3>9. CASE ~RequestRows(r) /\ a = Relay("pass", r.url, response)
        BY <3>9, Fields
      <3> QED
        BY <3>1, <3>3, <3>4, <3>5, <3>6, <3>7, <3>8, <3>9 DEF RightAnswer
    <2>2. \A k \in DOMAIN cache :
              LET body == cache[k].body IN
              OneHeader(body.response) => ResponseRows(body.resource, body.response)
      BY StorableRows DEF Inv, Entries, SoundEntry
    <2> QED
      BY <2>1, <2>2 DEF FollowsTableOneHeader
  <1> QED
    BY <1>1, Invariance, PTL
=============================================================================
