---------------------------- MODULE DNSResolver ----------------------------
(***************************************************************************)
(* The asynchronous resolver of src/src/dns.cpp: the in-flight table      *)
(* requests[] (id -> DNSRequest pointer), the consumer table Classes[] (id ->     *)
(* Resolver pointer), the one-shot RequestTimeout timers that each DNSRequest     *)
(* schedules, the reply cache, and the UDP socket to the nameserver.      *)
(*                                                                         *)
(* A DNSRequest object is identified by the address the allocator gave    *)
(* it (a member of Addrs): RequestTimeout keeps that raw pointer and       *)
(* compares it with requests[id] when it fires, so the model keeps the    *)
(* address, and the allocator may hand a freed address out again.         *)
(*                                                                         *)
(* The wire format is abstracted: a query is [id, type, name]; a reply    *)
(* carries the id and the question it answers, and whether ResultIsReady  *)
(* finds a usable answer record in it.  The answer data a nameserver      *)
(* gives for (name, type) is the record Answer(name, type).               *)
(***************************************************************************)
EXTENDS Naturals, Sequences, FiniteSets

CONSTANTS
    MaxId,      \* DNS::MAX_REQUEST_ID, ids are PRNG() & MaxId
    Addrs,      \* addresses the allocator may give a DNSRequest
    Consumers,  \* Resolver objects created by modules
    Names,      \* query strings (Resolver::input, DNSRequest::orig)
    QTypes,     \* query types
    Modules,    \* modules that create Resolvers (Resolver::Creator)
    NULL

ASSUME MaxId \in Nat
ASSUME NULL \notin Addrs \cup Consumers

Ids == 0..MaxId

VARIABLES
    fdOpen,     \* DNS::GetFd() != -1
    requests,   \* DNS::requests[id]: address of the DNSRequest, or NULL
    heap,       \* live DNSRequest objects: address -> [id, type, orig, owner]
    Classes,    \* DNS::Classes[id]: the Resolver waiting on id, or NULL
    timers,     \* pending RequestTimeout timers: [id, watch, owner]
    cache,      \* DNS::cache: name -> [data, live] (CachedQuery), or NULL
    queries,    \* queries sent on the current socket, not yet answered
    net,        \* replies the nameserver sent to the current socket
    lookup,     \* Resolver fields: consumer -> [name, type, creator] or NULL
    calls,      \* history: the callbacks each Resolver received
    unloaded    \* modules that have been unloaded

vars == <<fdOpen, requests, heap, Classes, timers, cache, queries, net,
          lookup, calls, unloaded>>

\* The ghost field "owner" of a request and a timer names the Resolver the
\* request was made for; the code does not keep it.
Answer(n, t) == [name |-> n, type |-> t]
Answers   == [name : Names, type : QTypes]
Request   == [id : Ids, type : QTypes, orig : Names, owner : Consumers]
Timer     == [id : Ids, watch : Addrs, owner : Consumers]
CacheItem == [data : Answers, live : BOOLEAN]
Query     == [id : Ids, type : QTypes, name : Names]
Reply     == [id : Ids, type : QTypes, name : Names, ok : BOOLEAN]
Lookup    == [name : Names, type : QTypes, creator : Modules]
Kinds     == {"complete", "nxdomain", "timeout", "nsdown", "forceunload"}
\* timer: the Resolver for which the firing RequestTimeout was created
Callback  == [kind : Kinds, data : Answers \cup {NULL}, cached : BOOLEAN,
              timer : Consumers \cup {NULL}]

CB(kind, data, cached, timer) ==
    [kind |-> kind, data |-> data, cached |-> cached, timer |-> timer]

TypeOK ==
    /\ fdOpen \in BOOLEAN
    /\ requests \in [Ids -> Addrs \cup {NULL}]
    /\ heap \in [Addrs -> Request \cup {NULL}]
    /\ Classes \in [Ids -> Consumers \cup {NULL}]
    /\ timers \subseteq Timer
    /\ cache \in [Names -> CacheItem \cup {NULL}]
    /\ queries \subseteq Query
    /\ net \subseteq Reply
    /\ lookup \in [Consumers -> Lookup \cup {NULL}]
    /\ calls \in [Consumers -> Seq(Callback)]
    /\ unloaded \subseteq Modules

-----------------------------------------------------------------------------
(* Helpers translated from the code.                                      *)

\* Mutant: an off-by-one in the id mask, ids up to MAX_REQUEST_ID + 1.
FreeIdsMaskOffByOne ==
    {i \in 0..(MaxId + 1) : i \notin DOMAIN requests \/ requests[i] = NULL}

\* Ids AddQuery may settle on: it redraws PRNG() & MAX_REQUEST_ID while
\* requests[id] is occupied.
FreeIds == {i \in Ids : requests[i] = NULL}

\* Addresses operator new may return for a DNSRequest.
FreeAddrs == {a \in Addrs : heap[a] = NULL}

\* CachedQuery::CalcTTLRemaining() != 0: the entry has not expired.
Fresh(n) == cache[n] # NULL /\ cache[n].live

\* Resolver::OnLookupComplete / OnError on consumer c, and its deletion.
Notify(c, cb) == calls' = [calls EXCEPT ![c] = Append(@, cb)]

\* Mutant: the callback is made but Classes[i] is not reset.
DeliverKeepSlot(i, cb) ==
    /\ Notify(Classes[i], cb)
    /\ UNCHANGED Classes

\* Delivery through Classes[i]: the callback, then delete Classes[i] and
\* Classes[i] = NULL.
Deliver(i, cb) ==
    /\ Notify(Classes[i], cb)
    /\ Classes' = [Classes EXCEPT ![i] = NULL]

\* Mutant: the DNSRequest constructor does not schedule its RequestTimeout.
NewRequestNoTimer(i, a, t, n, c) ==
    /\ requests' = [requests EXCEPT ![i] = a]
    /\ heap' = [heap EXCEPT ![a] = [id |-> i, type |-> t, orig |-> n, owner |-> c]]
    /\ UNCHANGED timers

\* The DNSRequest at address a, made for consumer c, enters requests[i];
\* its constructor schedules a RequestTimeout watching (a, i).
NewRequest(i, a, t, n, c) ==
    /\ requests' = [requests EXCEPT ![i] = a]
    /\ heap' = [heap EXCEPT ![a] = [id |-> i, type |-> t, orig |-> n, owner |-> c]]
    /\ timers' = timers \cup {[id |-> i, watch |-> a, owner |-> c]}

\* Mutant: requests[i] is cleared but the DNSRequest is never deleted.
FreeRequestNoDelete(i) ==
    /\ requests' = [requests EXCEPT ![i] = NULL]
    /\ UNCHANGED heap

\* requests[i] = NULL and delete of the DNSRequest it held.
FreeRequest(i) ==
    /\ requests' = [requests EXCEPT ![i] = NULL]
    /\ heap' = [heap EXCEPT ![requests[i]] = NULL]

\* DNSRequest::SendRequests: the datagram goes to the server (when sendto
\* fails the caller takes the other branch).
SendRequests(i, t, n) ==
    queries' = queries \cup {[id |-> i, type |-> t, name |-> n]}

\* DNS::AddResolverClass: store the Resolver under its id unless the slot
\* is taken (then it returns false and the Resolver is left unregistered).
AddResolverClass(i, c) ==
    Classes' = [Classes EXCEPT ![i] = IF @ = NULL THEN c ELSE @]

\* DNSRequest::ResultIsReady succeeds: the reply passes the QR, OPCODE,
\* RCODE and ANCOUNT checks and holds an answer record of the request's
\* type and class.  The question section is skipped, never compared.
ResultIsReady(r, req) == r.ok /\ r.type = req.type

\* DNS::GetResult for a reply whose id is in flight: the answer data the
\* reply carries (formatted per type), or NULL for an error result.
Result(r) ==
    IF ResultIsReady(r, heap[requests[r.id]]) THEN Answer(r.name, r.type) ELSE NULL

\* The insert in HandleEvent when GetCache finds no entry, expired or not.
CacheInsert(n, data) ==
    cache' = IF cache[n] = NULL
             THEN [cache EXCEPT ![n] = [data |-> data, live |-> TRUE]]
             ELSE cache

\* DNS::PruneCache: rebuild the cache from the unexpired entries.
PruneCache == [n \in Names |-> IF Fresh(n) THEN cache[n] ELSE NULL]

-----------------------------------------------------------------------------
(* Actions.                                                                *)

\* DNS::DNS: empty tables; Rehash creates the empty cache and tries to
\* open, bind and register the socket.
Init ==
    /\ fdOpen \in BOOLEAN
    /\ requests = [i \in Ids |-> NULL]
    /\ heap = [a \in Addrs |-> NULL]
    /\ Classes = [i \in Ids |-> NULL]
    /\ timers = {}
    /\ cache = [n \in Names |-> NULL]
    /\ queries = {}
    /\ net = {}
    /\ lookup = [c \in Consumers |-> NULL]
    /\ calls = [c \in Consumers |-> <<>>]
    /\ unloaded = {}

\* Mutant: the constructor lacks the return after a cache hit, so it
\* reports the cached result and also sends a query and registers.
ResolveCachedNoReturn(c, n, t, m) ==
    /\ Fresh(n)
    /\ fdOpen
    /\ lookup' = [lookup EXCEPT ![c] = [name |-> n, type |-> t, creator |-> m]]
    /\ Notify(c, CB("complete", cache[n].data, TRUE, NULL))
    /\ \E i \in FreeIds, a \in FreeAddrs :
          /\ NewRequest(i, a, t, n, c)
          /\ queries' = queries \cup {[id |-> i, type |-> t, name |-> n]}
          /\ Classes' = [Classes EXCEPT ![i] = c]
    /\ UNCHANGED <<fdOpen, cache, net, unloaded>>

\* new Resolver(source, qt, cached) followed by ServerInstance->AddResolver:
\* a fresh cache entry is delivered at once through TriggerCachedResult.
ResolveCached(c, n, t, m) ==
    /\ Fresh(n)
    /\ lookup' = [lookup EXCEPT ![c] = [name |-> n, type |-> t, creator |-> m]]
    /\ Notify(c, CB("complete", cache[n].data, TRUE, NULL))
    /\ UNCHANGED <<fdOpen, requests, heap, Classes, timers, cache, queries,
                   net, unloaded>>

\* The same constructor when no fresh entry exists: an expired entry is
\* removed (DelCache), then GetIP/GetIP6/GetCName/GetNameForce.  With no
\* socket AddQuery returns NULL, myid is -1 and the constructor calls
\* OnError(RESOLVER_NSDOWN) before throwing; the caller deletes it.
ResolveNoSocket(c, n, t, m) ==
    /\ ~Fresh(n)
    /\ ~fdOpen
    /\ lookup' = [lookup EXCEPT ![c] = [name |-> n, type |-> t, creator |-> m]]
    /\ cache' = [cache EXCEPT ![n] = NULL]
    /\ Notify(c, CB("nsdown", NULL, FALSE, NULL))
    /\ UNCHANGED <<fdOpen, requests, heap, Classes, timers, queries, net,
                   unloaded>>

\* AddQuery takes a free id and a new DNSRequest (with its timer), then
\* SendRequests.  If sendto fails, myid is -1: NSDOWN as above, but the
\* request stays in requests[] until its timer fires.  Otherwise
\* AddResolverClass stores the Resolver in Classes[id] if that slot is
\* free.
ResolveQuery(c, n, t, m) ==
    /\ ~Fresh(n)
    /\ fdOpen
    /\ lookup' = [lookup EXCEPT ![c] = [name |-> n, type |-> t, creator |-> m]]
    /\ cache' = [cache EXCEPT ![n] = NULL]
    /\ \E i \in FreeIds, a \in FreeAddrs :
          /\ NewRequest(i, a, t, n, c)
          /\ \/ /\ SendRequests(i, t, n)
                /\ AddResolverClass(i, c)
                /\ UNCHANGED calls
             \/ /\ Notify(c, CB("nsdown", NULL, FALSE, NULL))
                /\ UNCHANGED <<queries, Classes>>
    /\ UNCHANGED <<fdOpen, net, unloaded>>

Resolve ==
    \E c \in Consumers, n \in Names, t \in QTypes, m \in Modules \ unloaded :
       /\ lookup[c] = NULL
       /\ \/ ResolveCached(c, n, t, m)
          \/ ResolveNoSocket(c, n, t, m)
          \/ ResolveQuery(c, n, t, m)

\* The nameserver answers a query, with a usable answer or without one
\* (NXDOMAIN, no records).  Not code: the environment.
NameserverReply ==
    \E q \in queries, ok \in BOOLEAN :
       /\ queries' = queries \ {q}
       /\ net' = net \cup {[id |-> q.id, type |-> q.type, name |-> q.name, ok |-> ok]}
       /\ UNCHANGED <<fdOpen, requests, heap, Classes, timers, cache, lookup,
                      calls, unloaded>>

\* DNS::HandleEvent on a reply from the nameserver: GetResult removes the
\* request, then an error goes to OnError(RESOLVER_NXDOMAIN) and a result
\* is cached under the request's orig and goes to OnLookupComplete, both
\* only if Classes[id] is set.  A datagram stays in net: UDP may deliver
\* it again later, or never.
Receive ==
    \E r \in net :
       /\ fdOpen
       /\ \/ /\ requests[r.id] = NULL
             /\ UNCHANGED vars
          \/ /\ requests[r.id] # NULL
             /\ FreeRequest(r.id)
             /\ IF Classes[r.id] = NULL
                THEN UNCHANGED <<Classes, calls, cache>>
                ELSE IF Result(r) = NULL
                THEN /\ Deliver(r.id, CB("nxdomain", NULL, FALSE, NULL))
                     /\ UNCHANGED cache
                ELSE /\ CacheInsert(heap[requests[r.id]].orig, Result(r))
                     /\ Deliver(r.id, CB("complete", Result(r), FALSE, NULL))
             /\ UNCHANGED <<fdOpen, timers, queries, net, lookup, unloaded>>

\* DNS::GetResult drops a datagram shorter than a header, or one whose
\* source is not the configured server on port 53.
ReceiveJunk ==
    /\ fdOpen
    /\ UNCHANGED vars

\* RequestTimeout::Tick: if requests[watchid] still holds the pointer it
\* was created with, time the request out.
TimerFire ==
    \E tm \in timers :
       /\ timers' = timers \ {tm}
       /\ IF requests[tm.id] = tm.watch
          THEN /\ FreeRequest(tm.id)
               /\ IF Classes[tm.id] # NULL
                  THEN Deliver(tm.id, CB("timeout", NULL, FALSE, tm.owner))
                  ELSE UNCHANGED <<Classes, calls>>
          ELSE UNCHANGED <<requests, heap, Classes, calls>>
       /\ UNCHANGED <<fdOpen, cache, queries, net, lookup, unloaded>>

\* DNS::CleanResolvers(module), on module unload: FORCEUNLOAD to every
\* Resolver of the module in Classes[i] for 0 <= i < MAX_REQUEST_ID.
CleanResolvers ==
    \E m \in Modules \ unloaded :
       LET doomed == {i \in 0..(MaxId - 1) :
                        Classes[i] # NULL /\ lookup[Classes[i]].creator = m}
       IN  /\ Classes' = [i \in Ids |-> IF i \in doomed THEN NULL ELSE Classes[i]]
           /\ calls' = [c \in Consumers |->
                          IF \E i \in doomed : Classes[i] = c
                          THEN Append(calls[c], CB("forceunload", NULL, FALSE, NULL))
                          ELSE calls[c]]
           /\ unloaded' = unloaded \cup {m}
           /\ UNCHANGED <<fdOpen, requests, heap, timers, cache, queries, net,
                          lookup>>

\* Time passes: a cache entry's TTL runs out.
Expire ==
    \E n \in Names :
       /\ Fresh(n)
       /\ cache' = [cache EXCEPT ![n].live = FALSE]
       /\ UNCHANGED <<fdOpen, requests, heap, Classes, timers, queries, net,
                      lookup, calls, unloaded>>

\* CacheTimer::Tick, hourly.
PruneTick ==
    /\ cache' = PruneCache
    /\ UNCHANGED <<fdOpen, requests, heap, Classes, timers, queries, net,
                   lookup, calls, unloaded>>

\* DNS::ClearCache.
ClearCache ==
    /\ cache' = [n \in Names |-> NULL]
    /\ UNCHANGED <<fdOpen, requests, heap, Classes, timers, queries, net,
                   lookup, calls, unloaded>>

\* DNS::Rehash: close the socket if open and prune the cache, or, if no
\* socket was open, replace the cache by an empty one; then open, bind and
\* register a new socket, any step of which may fail.  Replies in flight
\* to the old socket are lost; the requests stay until their timers fire.
Rehash ==
    /\ cache' = IF fdOpen THEN PruneCache ELSE [n \in Names |-> NULL]
    /\ fdOpen' \in BOOLEAN
    /\ queries' = {}
    /\ net' = {}
    /\ UNCHANGED <<requests, heap, Classes, timers, lookup, calls, unloaded>>

Next ==
    \/ Resolve
    \/ NameserverReply
    \/ Receive
    \/ ReceiveJunk
    \/ TimerFire
    \/ CleanResolvers
    \/ Expire
    \/ PruneTick
    \/ ClearCache
    \/ Rehash

\* TimerManager ticks every timer that is due on each pass of the main
\* loop, so a scheduled RequestTimeout eventually fires.  Replies, junk,
\* rehashes and unloads are the environment's and get no fairness.
Spec == Init /\ [][Next]_vars /\ WF_vars(TimerFire)

-----------------------------------------------------------------------------
(* Properties.                                                             *)

Pending(c) == lookup[c] # NULL /\ calls[c] = <<>>

\* A Resolver in Classes[i] belongs to the request in requests[i]: reply,
\* timeout and unload each clear Classes[i] together with or after
\* requests[i], so a consumer is never left in a slot nothing will fire.
SlotsConsistent ==
    \A i \in Ids :
       Classes[i] # NULL =>
          /\ requests[i] # NULL
          /\ heap[requests[i]].owner = Classes[i]

\* Every live DNSRequest is reachable from requests[] under its own id, and
\* requests[] points only at live objects: no leak and no dangling pointer
\* after GetResult, Tick and Rehash.
RequestTableIsHeap ==
    /\ \A i \in Ids : requests[i] # NULL =>
          heap[requests[i]] # NULL /\ heap[requests[i]].id = i
    /\ \A a \in Addrs : heap[a] # NULL => requests[heap[a].id] = a

\* A Resolver receives at most one terminal callback (OnLookupComplete or
\* OnError) over its lifetime.
AtMostOneCallback == \A c \in Consumers : Len(calls[c]) <= 1

\* Every Resolver that has started a lookup eventually gets its callback,
\* whether the reply is lost, the socket is rehashed or the module unloads.
EveryLookupAnswered == \A c \in Consumers : Pending(c) ~> ~Pending(c)

\* A RequestTimeout error reaches a Resolver only from the timer created
\* for that Resolver's own request (the spec: the timer fires "if the
\* request still occupies its slot").
TimeoutIsOwn ==
    \A c \in Consumers : \A k \in 1..Len(calls[c]) :
       calls[c][k].kind = "timeout" => calls[c][k].timer = c

\* OnLookupComplete delivers the answer to the question the Resolver asked:
\* the data names the Resolver's own query string and query type.
AnswerMatchesQuery ==
    \A c \in Consumers : \A k \in 1..Len(calls[c]) :
       calls[c][k].kind = "complete" =>
          calls[c][k].data = Answer(lookup[c].name, lookup[c].type)

\* After a module is unloaded no Resolver it created remains in Classes[]:
\* CleanResolvers must reach every slot, or a later reply or timeout calls
\* into the unloaded module.
UnloadReleasesResolvers ==
    \A i \in Ids : Classes[i] # NULL => lookup[Classes[i]].creator \notin unloaded

=============================================================================
