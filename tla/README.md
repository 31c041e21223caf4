# TLA+ models of the InspIRCd core

This directory holds TLA+ models of the parts of the repository under `src/`,
the TLC configurations that check them, and `PROJECT.json`, which lists the
components, the runs, the mutants that show each checked property can fail,
the map from every model definition to the source lines it translates, the
findings and the hazards.

## 1. Inventory

The repository's `src/` holds seven files. The spec (`spec.md`) describes a
larger core; the parts whose code is present are:

| Component | Source | State it keeps | Operations |
|---|---|---|---|
| DNS resolver | `src/src/dns.cpp` | `requests[id]` (in-flight `DNSRequest*`), `Classes[id]` (waiting `Resolver*`), the cache (name -> `CachedQuery`), the UDP socket fd, `currid`, the prune timer, a `RequestTimeout` timer per request | `Resolver::Resolver` (cache lookup, `GetIP`/`GetIP6`/`GetCName`/`GetNameForce`), `AddQuery`, `SendRequests`, `AddResolverClass`, `HandleEvent` -> `GetResult` -> `ResultIsReady`, `RequestTimeout::Tick`, `CleanResolvers`, `PruneCache`, `ClearCache`, `DelCache`, `Rehash`, `MakePayload`, `MakeIP6Int`, `PRNG` |
| Epoll socket engine | `src/src/socketengines/socketengine_epoll.cpp` | `ref[fd]` (handler table), the kernel's interest list, each handler's event mask, counters | `AddFd`, `DelFd`, `OnSetEvent` (via `mask_to_epoll`), `DispatchEvents` |
| Ports socket engine | `src/include/socketengines/socketengine_ports.h` | declaration only | none in the repository |
| Extension registry | `src/include/extension.h` | per-extensible map item -> value | `SimpleExtItem::Set`/`SetFwd`/`Unset`/`Get`, `FromNetwork`/`ToNetwork`, `Delete` |
| Numeric helpers | `src/include/numerichelper.h` | none (pure constructors) | `CannotSendTo`, `ChannelPrivilegesNeeded`, `InvalidModeParameter`, `NoSuchChannel`, `NoSuchNick` |
| m_opermodes | `src/src/modules/m_opermodes.cpp` | its `ConfigReader` | `OnPostOper`, `OnRehash` |
| m_userip | `src/src/modules/m_userip.cpp` | none | `cmd_userip::Handle` |

The timer manager, the command dispatcher and the user/channel state are
named by the spec but their code is not in `src/`.

**Interaction.** Everything runs on one thread. The socket engine's
`DispatchEvents` calls `HandleEvent` of each ready handler; the DNS object is
one such handler (registered with `FD_WANT_POLL_READ`). A module creates a
`Resolver`; its constructor either answers from the cache at once or calls
`AddQuery`, which draws a free id, allocates a `DNSRequest` whose constructor
schedules a `RequestTimeout`, and sends the query; `AddResolverClass` then
parks the `Resolver` in `Classes[id]`. A reply read by `HandleEvent`, the
timeout, or the module's unload (`CleanResolvers`) delivers exactly one
callback and deletes the `Resolver`. The timers are driven by the timer
manager from the main loop; the cache prune timer runs hourly.

**What is hard.** Nothing is concurrent in the thread sense, but the
resolver is a set of independent events whose order nobody controls: a reply
can be lost, duplicated or arrive after the timeout; timers are never
cancelled and hold raw pointers; ids are 16-bit and reused; the socket can be
replaced by a rehash with requests in flight; a module can unload with
lookups pending. In the socket engine a callback can remove itself or another
handler in the middle of a dispatch pass, and fds are recycled. The wire
parser trusts lengths and pointers in the reply.

**Properties that make each part correct.**
- Resolver: the two tables agree with the live request objects; each
  `Resolver` gets exactly one callback (at most one always, at least one
  eventually); a timeout reaches only the request it was made for; an answer
  delivered is the answer to the consumer's own question; an unloaded module
  keeps no `Resolver` in the table.
- Wire format: encoding a name and decoding it gives the name back; a
  reverse lookup asks for the RFC 1035 / RFC 3596 reverse name of the
  address; the decoder terminates and stays within its buffers.
- Socket engine: a handler is registered at most once and `ref[fd]` names it;
  no event is delivered to a removed handler; the kernel interest set agrees
  with the wanted events of every registered handler.
- Extensions: a value is deleted exactly once; `Get` after `Set` returns the
  value until the next `Set` or `Unset` (the pointer registry refines a
  plain value store); values are only set on extensibles of the item's type.
- m_opermodes: the mode parameters passed on are exactly the configured ones.

`PROJECT.json` "hazards" lists each hazard at its line and the property that
covers it, or why none does yet.

## 2. Plan

In order of importance:

1. **`DNSResolver`** (done, this sitting): the request and consumer tables,
   request objects by address, timers, cache, socket, module unload.
2. **`EPollEngine`** (done, this sitting): `ref[]`, `AddFd`/`DelFd`/
   `OnSetEvent`/`mask_to_epoll`, the kernel's epoll set, and
   `DispatchEvents` as a loop over the ready list, one step per event, with
   handler callbacks that may remove themselves or others and add new
   handlers on recycled fds. Still to do: an abstract `SocketEngine` spec (a
   set of registered handlers and their masks; add, delete, set-mask) with the
   table part of `EPollEngine` shown to refine it.
3. **DNS wire format** (done): `DNSQuery` (`MakePayload` as RECURSIVE
   operators, checked against an RFC 1035 question parser) and `DNSReply`
   (`FillHeader`, `ResultIsReady` one loop iteration per step, `GetResult`'s
   formatting, checked against an RFC 1035 reply decoder), composed in
   `MCDNSWire`.
4. **`Extension`** (done): `SimpleExtItem` operations on extensibles of two
   types with an explicit heap and deleter count, and the broadcast of a
   synced item to a peer server that applies it with `FromNetwork`; shown to
   refine the pointer-free value store `ExtensionStore` of spec 4.E.
5. **`OperModes`** (done): `OnPostOper` and `OnRehash`, with a run that
   shows the `send_mode` event losing a word. `UserIP` and `Numerics` are
   not modelled (section 4).
6. Compose `DNSResolver` with `EPollEngine` (the DNS socket as one handler,
   `Rehash` as `DelFd`/`AddFd`) if the state space allows.

## 3. Modules

### DNSResolver (`DNSResolver.tla`, instance `MCDNSResolver.tla`)

State, and the code it stands for:

| Variable | Code |
|---|---|
| `fdOpen` | `DNS::GetFd() != -1` |
| `requests` | `DNS::requests[]`, holding the address of a `DNSRequest` |
| `heap` | the live `DNSRequest` objects by address: id, type, `orig`, and a ghost `owner` |
| `Classes` | `DNS::Classes[]` |
| `timers` | the pending `RequestTimeout` objects: `watchid`, `watch`, ghost `owner` |
| `cache` | `DNS::cache`; `live` is `CalcTTLRemaining() != 0` |
| `queries`, `net` | datagrams on the current socket (environment) |
| `lookup` | `Resolver::input`, `querytype`, `Creator` |
| `calls` | history of the callbacks each `Resolver` received |
| `unloaded` | modules that have been unloaded |

Actions: `Resolve` (the `Resolver` constructor with `AddResolver` and
`AddResolverClass`, split into the cached, no-socket and query cases),
`Receive` (`HandleEvent` with `GetResult`), `ReceiveJunk` (datagrams
`GetResult` rejects), `TimerFire` (`RequestTimeout::Tick`), `CleanResolvers`,
`PruneTick`, `ClearCache`, `Rehash`; the environment's `NameserverReply`
and `Expire` (a TTL running out).

Abstractions. A `DNSRequest` is identified by its address from the small set
`Addrs`, and `new` may return any free address, so freed addresses are
reused, as glibc's allocator does for same-sized objects. The wire format is
abstracted: a reply carries its id, the question it answers and whether
`ResultIsReady` finds a usable record; the answer for (name, type) is the
record `Answer(name, type)`. Replies stay in `net` once sent: UDP may deliver
a datagram any number of times, late, or never. `PRNG()` is a
nondeterministic choice of a free id. Time appears only as the order of
events: a timer may fire at any point after its request is made, and an entry
may expire at any point.

Fairness: weak fairness of `TimerFire` only. The main loop ticks the timer
manager every second, so a scheduled timer eventually fires; nothing
guarantees that the nameserver answers, that UDP delivers, or that an
operator rehashes.

### Runs

| Run | Config | Result | What it shows |
|---|---|---|---|
| `dns_resolver` | `DNSResolver_all.cfg` | pass | `TypeOK`, `SlotsConsistent`, `RequestTableIsHeap`, `AtMostOneCallback` hold over every interleaving of lookups, replies (lost, duplicated, late), timeouts, rehashes, cache expiry and an unload; `EveryLookupAnswered`: under fair timers every started lookup gets its callback |
| `dns_timeout_aba` | `DNSResolver_timeout_aba.cfg` | violation | `TimeoutIsOwn`: a stale `RequestTimeout` times out a newer request on the same id and address |
| `dns_stale_reply` | `DNSResolver_stale_reply.cfg` | violation | `AnswerMatchesQuery`: a late or duplicated reply answers a newer query with the same id |
| `dns_unload` | `DNSResolver_unload.cfg` | violation | `UnloadReleasesResolvers`: `CleanResolvers` skips id `MAX_REQUEST_ID` |

Bounds. `MaxId = 1` (two ids) with two addresses: enough for an id and an
address to be reused while an older timer or reply is still around, which is
what every hazard above needs; the violation runs use the smallest set in
which only one of the bugs can occur (one id for the timer case, one type for
the stale reply, one name for the cache). Two `Resolver`s, two names, two
types and one module: every action and every branch fires (TLC coverage), in
205 thousand distinct states (the run has no symmetry reduction, so that
the liveness property is checked in the same run; with symmetry the safety
part alone is 29 thousand).
Three `Resolver`s with two modules grew past 17 million states without
finishing.

Each passing property has a mutant in `PROJECT.json`: a definition of the
model replaced by a plausible bug (an off-by-one id mask, a slot not reset
after the callback, a request not deleted, a missing `return` after a cache
hit, a request whose timer is never scheduled), and TLC finds the property
violated.

### EPollEngine (`EPollEngine.tla`, instance `MCEPollEngine.tla`)

The engine and the kernel's epoll instance it drives, with abstract event
handlers around them.

| Variable | Code |
|---|---|
| `ref`, `size` | `EPollEngine::ref[]`, `CurrentSetSize` |
| `fdOf`, `hstate`, `mask` | each handler's `GetFd()` (NULL once it has closed, fd = -1), whether it is registered, and its `event_mask` |
| `interest` | the kernel: the `epoll_event.events` given for each fd by `EPOLL_CTL_ADD`/`MOD`, NULL when not in the set |
| `ready`, `pending` | the kernel: each socket's readiness, and (for `EPOLLET`) the edges not yet reported |
| `events`, `j`, `pc`, `cur` | `DispatchEvents`' `events[]` snapshot, loop index, position in the loop body, and its local `eh` |
| `running` | the callback in progress: handler, kind, where the loop continues, and a ghost `src`, the handler that owned the fd when `epoll_wait` reported it |

An event mask is a function from direction to strategy (`no`, `poll`,
`fast`, `edge`): the `FD_WANT_*` bits of one direction exclude one another.
`mask_to_epoll`, `AddFd`, `OnSetEvent` and `DelFd` translate the code;
`ChangeEventMask` (the base class, not under `src/`) follows the spec's
`set_mask`. `DispatchEvents` is `EpollWait` (a snapshot of at most
`GetMaxFds() - 1` reportable descriptors in any order), `DispatchNext`
(`eh = ref[fd]`, skip if NULL, error callback and `continue`, or the read
callback), `DispatchWrite` (the write callback to the same `eh`) and
`DispatchEnd`. A callback is a call step, any number of steps of the handler
(`CallbackIO`, `CallbackOperation`: close any handler, open a socket, change
any handler's mask), and `CallbackReturn`; an error callback closes its
handler by the time it returns. The same operations run between passes
(`MainLoopOperation`), and the network makes sockets readable, writable or
hung up (`SocketReady`). The kernel gives a new socket the lowest free
descriptor, reports `EPOLLHUP` always, current readiness in level mode, and
in edge mode the unreported edges that are still ready, and re-arms a
descriptor on `ADD`/`MOD`.

Abstractions: the handlers' own code is not in the repository, so what a
callback does is a free choice among the operations above; a handler that is
no longer registered has closed its fd and does nothing when called. Network
readiness changes only between passes: the loop reads only its snapshot.
`EPOLLERR` takes the same path as `EPOLLHUP` and is folded into it. The
statistics counters and the `*_WILL_BLOCK` bits that `DispatchEvents` clears
are left out (`mask_to_epoll` ignores them).

Fairness: strong fairness of `EpollWait` (every main-loop iteration calls
`DispatchEvents` after bounded timer work, which can change masks and so
disable a report for a moment) and weak fairness of the loop steps and of
`CallbackReturn` (callbacks never block). Nothing is assumed of the network.

| Run | Config | Result | What it shows |
|---|---|---|---|
| `epoll_safety` | `EPollEngine_safety.cfg` | pass | `TableConsistent`, `KernelMatchesMask`: with callbacks closing, opening and re-masking handlers on recycled descriptors, `ref[]`, `CurrentSetSize` and the kernel set agree, and the kernel watches the translation of the current mask |
| `epoll_liveness` | `EPollEngine_live.cfg` | pass | `ReadsDelivered`: with the masks handlers use, unreported data on a socket that wants reads always reaches its read callback; `TableConsistent` again, now with two events in one pass, so a callback can close the handler of a later event, whose event `DispatchNext` must then drop |
| `epoll_write_after_removal` | `EPollEngine_removed.cfg` | violation | `NoCallbackToRemoved` (an action property: no step starts a callback on a handler that is not registered; a callback may still remove its own handler): after an event with `EPOLLIN` and `EPOLLOUT` whose read callback closes the socket, `DispatchWrite` starts the write callback on the removed handler |

Bounds. Safety: three handlers (each used for one socket) on two
descriptors, so a descriptor is recycled while a stale event can still be
around; `maxevents` is then 1, and a pass sees one event (316 thousand
states, with handler symmetry). The recycled-descriptor case (section 5)
needs two events in one pass, so it needs three descriptors. Liveness: two
handlers on three descriptors, so `epoll_wait` never truncates its report
(the kernel round-robins its ready list, which the model does not keep), and
one pass can report both handlers, so `TableConsistent` is checked there too
for a callback that closes the handler of an event later in the pass
(209 thousand states). The
masks are those of a listening or DNS socket (`POLL_READ`), a client
(`FAST_READ|EDGE_WRITE`) and a client with queued output (`FAST_READ|
FAST_WRITE`); `MCMasksEdgePoll` adds `EDGE_READ|POLL_WRITE` (section 5). Three
descriptors with three handlers grew past 2 million states in a minute.

### DNS wire format (`DNSQuery.tla`, `DNSReply.tla`; instances `MCDNSReply.tla`, `MCDNSWire.tla`)

`DNSResolver` abstracts a reply to its outcome; these modules check the
bytes. A payload is a sequence of byte values; payload index k is message
offset k + 12, as in `header.payload`.

`DNSQuery` has no state: `MakePayload(n, rr, rr_class)` translates
`DNS::MakePayload` loop for loop (`DottedLabels` is the `while` over the
pieces before each '.', `LastLabel` the piece after the last one,
`Label` one length byte and `memcpy`, `Short` the `htons` bytes, `Fail` the
`return -1`). A name is the C string passed in, as its byte values; the
model sets build names from runs of 'a' joined by '.' (`Spell(<<2, 1, 0>>)`
is "aa.a."). `QueryAsksFor(n, t)` parses the result with an RFC 1035
question parser (`QName`, `Question`) and compares its labels with the
pieces of the name split independently from the right (`Pieces`,
`NameLabels`), and its type and class with those asked. `Lookup` is the
`MakePayload` call of `GetIP`, `GetIP6` and `GetCName` (their `AddQuery`
and `SendRequests` are `DNSResolver`'s `Resolve`).

`GetNameForce` is modelled from the bytes `inet_aton`/`inet_pton` produce:
`ReverseName4` is the `sprintf("%d.%d.%d.%d.in-addr.arpa", c[3], c[2], c[1],
c[0])` (with `Decimal` for `%d`), `MakeIP6Int` the loop over `index = 31..0`
picking the low nibble on odd and the high nibble on even indexes through
`HexTable`, and `PtrQuery` the `MakePayload(query, DNS_QUERY_PTR, 1)`.
`PtrAsksFor(a)` compares the question with `ReverseLabels(a)`, written from
RFC 1035 3.5 and RFC 3596 2.5 (octets reversed as decimal labels; nibbles
reversed, one hex digit each, computed arithmetically), and checks that the
name fits `query[128]`.

The datagram itself: `QueryHeader(id)` is the header `AddQuery` fills for
the id it drew (`id >> 8`, `id & 0xFF`, `FLAGS_MASK_RD`, one question),
`EmptyHeader` its serialisation into unsigned-char bytes, `Datagram` what
`SendRequests` sends (`length + 12` bytes), and `ReplyId` how `GetResult`
rebuilds the id of a reply from its first two bytes. `DatagramFor(id, r)`
compares the datagram with an RFC 1035 4.1.1 header layout (`HeaderOf`)
and checks that the echoed id bytes lead back to `requests[id]`.

`DNSReply` is a state machine over one reply and one request type:

| Variable | Code |
|---|---|
| `reply` | the datagram: `flags1`, `flags2`, `qdcount`, `ancount` and the payload bytes received |
| `qtype` | `this->type` (the class is always 1, `SendRequests`) |
| `pc` | the loop `ResultIsReady` is in, or how it ended: `done`, `error`, or one of the faults `smashed` (FillHeader wrote past `payload[512]`), `oob` (a read outside the received bytes), `overflow` (a write past `res[511]`) |
| `i`, `q`, `cur` | the locals `i`, `q`, `curanswer` |
| `rr` | the local `ResourceRecord`, TTL as eight bytes (64-bit `unsigned long`) |
| `res` | `res[0..o-1]`, the bytes written to the 512-byte result buffer |
| `result` | what `GetResult` hands on: ok, TTL, and the 4 or 16 address bytes or the name |

Actions: `Receive` (`FillHeader` and the flag and `ancount` checks),
`QuestionStep`/`QuestionEnd` (the question loop), `AnswerNext`,
`AnsNameStep` and `ReadRecord` (the answer loop: owner name, `length - i <
10`, `FillResourceRecord`, type/class mismatch skips), `Found` (the size
checks, `this->ttl`, the A/AAAA `memcpy`), `NameStep`/`NameEnd` (the
CNAME/PTR name loop: pointer, root, label). Undefined behaviour (an
out-of-bounds read or write) ends the behaviour in a fault state; a byte of
`res` that was never written reads as `Undef` (256), which equals no byte.
The TTL is sign-extended when its first byte is 128 or more, as the `int`
shifts of `FillResourceRecord` do on an LP64 build.

The reference (`RefNameEnd`, `RefName`, `RefQuestions`, `RefAnswer`,
`Reference`) decodes the same reply as RFC 1035 says: labels 1..63, pointers
(top bits 11) only backwards, names ending inside their record, A RDATA of 4
bytes, AAAA of 16, a 32-bit TTL.

Fairness: `WF_vars(Next)`: `ResultIsReady` runs on the thread that called
it and nothing else happens until it returns. `CHECK_DEADLOCK FALSE`: a
decode ends (a self-pointer aside, see section 5).

| Run | Config | Result | What it shows |
|---|---|---|---|
| `dns_wire` | `DNSWire_valid.cfg` | pass | `QueryAsksForName`, `PtrQueryAsksForName`, `DatagramCarriesId`, for all valid names, the boundary addresses and ids, and each query type; the run also drives `DNSReply` over every reply of `ValidReplies`, but checks no decoder property (see below) |
| `dns_query_fqdn` | `DNSQuery_fqdn.cfg` | violation | `QueryAsksForName`: "a." is sent without its root label |
| `dns_reply_pointer_grow` | `DNSReply_grow.cfg` | violation | `ResInBounds`: a label with a pointer back to it overflows `res` |

The decoder's properties (`PayloadFits`, `ReadsWithinReply`, `ResInBounds`,
`ResultMatchesReference`, `Terminates`) are not checked by a passing run.
Each holds on the replies name servers write, but each fails on the reply
that exercises its hazard: a datagram over 524 bytes, a reserved label type,
a pointer back to a label, an A record shorter than 4 bytes, a TTL byte of
0x80 or more, a self-pointer. A passing run over replies that avoid all of
these would show nothing about the code, so only `ResInBounds` is kept, as
the violation `dns_reply_pointer_grow`; the others are in section 5.

Bounds. Names: one to three labels of 1, 2 or 63 bytes, and the two sides of
the 507-byte limit (42 names). Addresses: 192.0.2.5, 0.0.0.0,
255.255.255.255 and 10.0.0.1; ::, 2001:db8::1, all ones, and an address whose
bytes all have distinct high and low nibbles (which tells a nibble swap from
the right order, as the symmetric addresses cannot). Ids: 0, 1, 255, 256
and 65535, the edges of each id byte. Replies: each of the four query types, with
the owner name compressed or spelled out, no record, a CNAME or a
class-CH record ahead of the answer, and for CNAME/PTR a name spelled out,
partly compressed or only a pointer; plus an error code, no answers, fewer
records than `ancount`, RDATA longer than the datagram, a second question
compressed against the first, and a 512-byte payload (the largest that
fits). Every action and every branch of the three byte tests fires. 2,846
states.

### Extension (`Extension.tla`, instance `MCExtension.tla`)

The registry as `SimpleExtItem<std::string>` (`StringExtItem`) uses it,
on two servers: modules on `home` call `Set`, `SetFwd` and `Unset`; a synced
item's change is broadcast and the `peer` applies it through `FromNetwork`.

| Variable | Code |
|---|---|
| `ext[s][<<c, i>>]` | the `void*` the internal map of container `c` holds for item `i` on server `s` (`SetRaw`/`UnsetRaw`), or `NullPtr` |
| `heap[p]`, `obj[p]` | the allocator: whether address `p` is unused, live or freed, and the string there |
| `deletes[p]` | how often an item's deleter (`SimpleExtItem::Delete`) ran on `p` |
| `registered[s]` | the items registered on server `s` |
| `link` | the metadata `Sync` sent to the peer and not yet applied, in order (one TCP link) |
| `unsynced` | bookkeeping, not code: the slots whose last change on home the caller did not ask to broadcast |

Actions: `Set` (both overloads: a value the caller got from `new T`, or
`new T(value)`; the extype guard, `SetRaw`, `Delete` of the old value,
`Sync` when `sync && synced`), `SetFwd` (`new T(args...)`, never synced),
`Unset`, `Receive` (the peer's `FromNetwork`: ignored unless synced and
registered, then `FromInternal`, which unsets on an empty string and
otherwise sets a copy without syncing), `Unload` and `Load` of an item on
either server (unregistering deletes the item's value on every extensible
and tells no other server). `SetRaw`, `UnsetRaw`, `Sync`, registration and
`StringExtItem`'s (de)serialisers are defined outside the repository and are
modelled from spec 4.E; the rest translates `extension.h` lines 131-213.

`CallerPtrs` is the set of pointers a caller may hand `Set`: fresh ones, and
with `ReSetLive = TRUE` also the one `Get` returned.

Refinement. `ExtensionStore.tla` is the abstract registry of spec 4.E and
section 6, with no pointers: `val[s][<<c, i>>]` is what `Get` returns on
server `s`; `Write` is a `Set` or `Unset` on home (the extype guard, and a
broadcast of the new value when `sync` and the item is synced), `Apply` the
peer taking the oldest broadcast (dropped for an item it does not have),
`Unregister`/`Register` the unload and load of an item. `Extension` maps
onto it with `val <- [s |-> [k |-> Get(s, k)]]`, where `Get` dereferences
the stored pointer and a freed one reads as `Dangling`, a value no string
equals (reading freed memory is undefined); `link` and `registered` map to
themselves. `ImplementsStore == Store!Spec` is checked as a property.

| Run | Config | Result | What it shows |
|---|---|---|---|
| `extension_safety` | `Extension_safety.cfg` | pass | `DeleterOnce`: every live value is in exactly one slot and never deleted, every freed one in none and deleted once; `ReplicaAgrees`: for each broadcast slot of a synced item registered on both servers, the peer holds, or will once the link drains, home's value; `ImplementsStore`: every step of the pointer-based registry is a step of `ExtensionStore` or leaves every `Get` unchanged |

Bounds: a user and a channel; a synced and an unsynced user item and a
synced channel item (so the extype guard refuses half the slots); two
strings, so a stale replica differs from a fresh one; three heap addresses,
never reused (a freed address stays freed, so a use after free stays
visible); at most two messages in flight, so a Set and an Unset can be
queued behind each other. Symmetry over the addresses (sound for
`ImplementsStore` too: `Get` does not depend on which address holds a
value). 302,976 states.
No fairness: the run checks safety only. Deadlock is checked: an `Unset`
without sync is always possible on a registered item, and `Load` on an
unloaded one.

### OperModes (`OperModes.tla`, instance `MCOperModes.tla`)

The spec puts this module out of its scope; it is modelled because what it
tells the network is wrong. A string is a sequence of one-character strings.

| Variable | Code |
|---|---|
| `conf` | the `<type>` tags the module's `ConfigReader` read: name and `modes` |
| `oper` | `user->oper` of each user |
| `sent` | the `modes[]` array of the last `SendMode` call (the nick, then each word) |
| `event` | the deque `n` of the last `send_mode` event |

`Init` is the constructor (a `ConfigReader`), `Rehash` is `OnRehash` (a new
one), `PostOper(u, t)` is the core setting `user->oper` followed by
`OnPostOper`: the first tag named `t`; `Signed`, the '+' put in front of a
string that starts with neither sign (an empty string's first character is
its NUL); `Words`, the `while (ss >> buf)` split; `ModeArgs`, the array.

| Run | Config | Result | What it shows |
|---|---|---|---|
| `opermodes_event` | `OperModes_event.cfg` | violation | `EventMatchesMode`: the event lacks the last word SendMode applied (`m_opermodes.cpp:101`) |

One user; two configurations, one with "+s +c" (a mode and a snomask
parameter) and "w" (no sign), one with an empty string. Every one of them
shows the bug: a one-word string reaches the event as the nick alone.
The module has no passing run: apart from the event, `OnPostOper` passes on
exactly the words of the configured string, which the model only restates.

## 4. Not modelled, and why

- `m_userip`: the spec (section 1) treats USERIP as feature logic outside
  the core, and `cmd_userip::Handle` keeps no state; it builds one reply
  line from `FindNick` results, formatting no property is about.
- `numerichelper.h`: constructors that push a target name and a formatted
  message; wording and layout only, with no state or control beyond
  choosing `"*"` for an empty or unregistered name.
- A mode string in a `<type>` tag that starts with spaces: the '+' becomes a
  word of its own, but whether `ConfigReader` (not in the repository) can
  return such a value is unknown, so no run claims what it should mean.
- `BoolExtItem`, `IntExtItem`, `ToHuman` and `FromInternal`/`ToInternal`
  of other item types: declarations only, or formatting.
- Repair of a peer's replica after an item is unloaded or reloaded on
  either server, or after the peer dropped metadata for an item it had not
  registered: nothing in the code re-broadcasts, so `ReplicaAgrees` makes
  no claim about such a slot until home changes it again with `sync`.
- Metadata sent by the peer to home: each slot has one writer (the
  extensible's own server) in the model.
- The textual compression of AAAA results in `GetResult`: string
  formatting that no property is about.
- `inet_aton`/`inet_pton` (libc parsing of the address text): `GetNameForce`
  is modelled from the address bytes they produce; a text they reject
  returns -1 before any state changes.
- The `default:` case of the `switch` in `ResultIsReady`: `rr.type` equals
  `this->type`, which is always one of A, AAAA, CNAME, PTR.
- `DelFd(eh, true)` on a handler that has already closed its fd: the spec
  pairs it with the close in one teardown, where no other socket can take the
  fd in between, so `DelFd` is modelled on registered handlers only.
- `PRNG()`'s arithmetic: only the fact that it yields some id matters to the
  tables; predictability of ids is a security property outside TLC's reach.
- Statistics counters and logging: no property is about them.
- The hang of `AddQuery` when all ids are in use: the model's `Resolve` is
  just disabled then.
- `socketengine_ports.h` has no implementation in the repository.

## 5. Further disagreements

The project keeps one run per question; these disagreements were found
with the same properties and different constants, and are recorded here
rather than as runs of their own:

- `AnswerMatchesQuery` with `DNSResolver_stale_reply.cfg`'s constants but two
  query types and one name: after an A lookup, an AAAA lookup of the same
  name is answered from the cache with the A result (`dns.cpp:912`, the
  cache is keyed by the name only).
- `EventFromOwnSocket` with `EPollEngine_safety.cfg`'s constants and
  `MaxFd = 2`: a hang-up reported for a socket closed earlier in the pass is
  delivered to the handler that got its descriptor
  (`socketengine_epoll.cpp:167`).
- `ReadsDelivered` with `Masks <- MCMasksEdgePoll`: `EDGE_READ|POLL_WRITE`
  is registered for `EPOLLOUT` only and reads are never reported
  (`socketengine_epoll.cpp:64`).
- `QueryAsksForName` with `Names <- BadLabelNames` (a 64-byte or an empty
  piece): the length byte is written unchecked (`dns.cpp:433`).
- `PayloadFits` with `Replies <- BigReplies`: a 540-byte datagram makes
  `FillHeader` copy 528 bytes into `payload[512]` (`dns.cpp:190`).
- `ReadsWithinReply` with `Replies <- ReservedReplies`: a 0x40 label type is
  taken as a pointer to a negative index (`dns.cpp:839`).
- `ResultMatchesReference` with `Replies <- ShortAReplies`: an A record of
  two bytes is formatted from unwritten bytes of `res` (`dns.cpp:865`); with
  `Replies <- LongTTLReplies`: a TTL of 2^31 or more becomes
  0xFFFFFFFF8xxxxxxx (`dns.cpp:175`).
- `Terminates` with `MCDNSReply`, `Replies <- LoopReplies` and
  `QTypes <- MCQTypeCNAME`: a CNAME whose RDATA is a pointer to itself makes
  the name loop spin forever (`dns.cpp:836`), the same unbounded pointer
  chase `dns_reply_pointer_grow` shows writing past `res`.
- `DeleterOnce` with `Extension_safety.cfg`'s constants and
  `ReSetLive = TRUE`: a caller that passes `Set` the pointer `Get` returned
  has it deleted while it stays stored (`extension.h:170-171`); the next
  `Get` returns freed memory and the next `Set` or `Unset` frees it again.
  With the same constants `ImplementsStore` fails at that `Set`: the slot's
  `Get` becomes `Dangling`, which no step of `ExtensionStore` produces.
