# LightSocks-cxx in TLA+

LightSocks is a pair of proxies. A browser speaks SOCKS5 to `LightSocks-client`
on the local machine; the client substitutes every byte by a table (the
*password*) and sends it to `LightSocks-server`, which substitutes back,
answers the SOCKS5 handshake, resolves the name that was asked for, connects to
it and relays. This directory holds TLA+ modules translated from that code, the
TLC configurations that check them and TLAPS proofs. Paths are those of the
repository; `server.cpp:43` is line 43 of `src/server.cpp`.

## 1. Inventory

Both programs are one thread each: a libevent loop that calls back into static
functions. There are no locks and no threads; what is hard is the order of
callbacks, who frees what, and what a peer or the resolver does in between.

| Component | State | Operations | Hard behaviour |
|---|---|---|---|
| **Server connections** `server.cpp`, `server.h` | per connection two bufferevents and one heap object `Socks5ctx {self, partner, request_port, request_ip}` whose raw address all callbacks carry | `listen_cb`, `local_read_cb`, `local_event_cb`, `dns_cb`, `remote_event_cb`, `remote_read_cb`; `run` starts the loop | the context is deleted by whoever ends first while evdns or another bufferevent may still hold its address; deferred callbacks run in a batch; timers |
| **SOCKS5 handshake** `socks5.cpp` | which read callback the local bufferevent has | `handle_first`, `handle_second`, `handle_last` | data before the reply, unsupported requests, lookups that fail, segmentation of messages |
| **Cipher** `cipher.cpp` | `password`, 256 bytes | `encrypt`, `decrypt` (streams), `encrypt_byte`, `decrypt_bytes` (handshake) | chunk borders, a table that is no permutation, the 32-byte scratch array |
| **Client** `client.cpp` | two bufferevents that point to each other, `password` | `listen_cb`, the read and event callbacks, `close_on_finished_write_cb` | flush-then-close, callbacks that are *not* deferred, a null partner |
| **Password generation** `util.cpp` | the drawn bytes | `genPassword` | it ends only if chance draws every byte |
| **Configuration** `main_*.cpp`, `util.cpp`, `setConfig` | two JSON files, ports, password | `readJsonConfig`, generating the file, `setConfig` | a start that dies while it writes; a password that is not 256 bytes long |
| **Base64** `lib/base64` (vendored) | none | encode, decode | the password goes through it; groups that are not full |
| **ArduinoJson** `lib/json` (vendored) | a document: one block of memory, strings from the left, slots from the right | `deserializeJson`, `clear` | a pool that is full; errors nobody looks at |
| **libevent** (headers only) | bufferevents, timers, the resolver | callbacks | deferred or not, in which order |
| spdlog (vendored) | | | |

How they interact: the mains read the configuration and call `setConfig`, which
fills the password table; `listen_cb` makes the context and installs
`local_read_cb`; `handle_first` and `handle_second` advance the handshake by
installing the next read callback and, for a domain, hand the context to evdns;
`dns_cb` makes the target's bufferevent and stores it in the context; from then on
`handle_last` and `remote_read_cb` move data between the two bufferevents through
`Cipher`, and the two event callbacks release everything. Client and server only
meet through TCP and the shared table.

What makes each of them correct:

* Server: no callback uses a context that was deleted; nothing is freed twice; both
  bufferevents and the context go together; everything is released once the client
  leaves or the target is silent; data reaches the right peer, complete and in order;
  a reply says what happened.
* Handshake: each request is answered once, with the truth; no message is misread.
* Cipher: one direction of the tunnel is the identity on byte streams.
* Client: what one side sent before it closed is flushed to the other; each
  bufferevent is freed once.
* Configuration and password: the table both sides end up with is a permutation, and the same one.

`PROJECT.json` lists the components with their status and, under *hazards*, each
place in the code where this is at stake, with the property that would catch it.

## 2. Modules

| Module | Models |
|---|---|
| `Bufferevent` | what the callers rely on of a libevent socket bufferevent (external) |
| `Message` | what travels: a message with its kind, connection, number and how often it was substituted |
| `Server` | every callback of `server.cpp` and `socks5.cpp`, the event loop, the heap, clients, targets and the resolver |
| `ServerProps`, `ServerInvariant`, `ServerStreams` | its properties, the inductive invariant behind the lifetimes, and what it takes for the streams |
| `ServerProofs` | the proofs of the lifetimes, and of the streams and the reply |
| `Client` | every callback of `client.cpp`, applications and the server |
| `ProxiedConnection` | the abstract specification: two pipes per connection and how they end |
| `ClientProps`, `ClientProofs` | the client's properties, its inductive invariant and the refinement mapping; the proofs, also that it implements `ProxiedConnection` |
| `Tunnel`, `TunnelProofs` | an application, `Client`, TCP, `Server` and a target, composed by INSTANCE; the proofs, from those of the two parts |
| `SocksHandshake`, `SocksHandshakeProofs` | `handle_first`, `handle_second`, `handle_last` on bytes and reads; the proofs |
| `Cipher`, `CipherProofs` | one direction of a tunnel: substitute in chunks, TCP, inverse table, substitute back; the proofs |
| `Config`, `ConfigProofs` | start, first start, stop and crash of both programs, `genPassword`, `setConfig`; the proofs |
| `Base64`, `Base64Proofs` | `base64_encode` and `base64_decode`, group by group; the proofs |
| `JsonDocument`, `JsonDocumentProofs` | `deserializeJson` of a flat object into the pool of a document; the proofs |
| `MC...` | instances for TLC |

Definitions called `X_something` directly above a definition `X` and commented
*Mutant* are not part of the model. Each is `X` with a plausible bug; putting it in
place of `X` breaks the property `PROJECT.json` pairs it with.

### Server

State. `self[c]` and `remote[c]` are the two bufferevents of the connection `c`
(records of `Bufferevent`: socket state, callback argument, read callback, enabled
events, both buffers, scheduled callbacks). `heap` maps addresses to `Socks5ctx`
cells; `dns[c]` is the address evdns holds while a lookup is pending.
`request_port` and `request_ip` decide nothing in the program and are left out.
The lookup's answer is kept only as success or failure; `dns_cb`'s `exit(0)`
(`server.cpp:252`) is left out because `evutil_inet_ntop` cannot fail for the
AF_INET answers that were asked for into 128 bytes.

*Deferred callbacks.* Both bufferevents are `BEV_OPT_DEFER_CALLBACKS`. An event on a
socket only adds to `pending`; later one run of the loop calls CONNECTED, then the
read callback, then all other events as one bit set. `running` names the bufferevent
whose callbacks are under way; the network, timers, evdns and other bufferevents
wait. So CONNECTED, data and EOF can arrive together and run back to back.
`bufferevent_free` drops what was pending.

*Undefined behaviour.* A deleted `Socks5ctx` stays in `heap`, not live, with the two
members `nullptr` that the code stores before `delete`, until `listen_cb` is given
the address again. A callback that carries such an address does one of what a build
may do: crash (`proc = "down"`), act on the stale members, or, if the address was reused,
act on the other connection's context. `ub` records that it happened.

Such a callback may also delete the context again (`server.cpp:94`, `:106`): a double free. It
can go undetected, because the stores before the delete (lines 93 and 105) and that of the partner
(line 281) overwrite the place where an allocator keeps its mark. So `free` counts how often the allocator
may still hand an address out, and every delete adds one; `new` (line 150) may then give one
address to two connections. From there the local callbacks, too, run with a context of
somebody else, or with one that is gone: they read and free `context->self`, whoever that is, or
dereference a null one. Memory of a context that an object of another type is given is covered
only by the crash.

Properties that can only hold before a misuse say `~ub =>`. Those that do not (`PartnerOpen`, and the conjuncts
of `IInv` without it) hold after one, and after an address was handed out twice.

*Handshake.* A read callback gets one message per read (`Took` empties the buffer).
How TCP cuts and merges handshake messages, and what is then parsed, is in
`SocksHandshake`. A message carries its kind, connection, number and how many
substitutions were applied to it, so plain text on the wire, double encryption and data of
another connection are all told apart.

*Environment.* A client greets, asks when the greeting is answered, and sends data
when the request is answered, or at once if it is in `Optimistic`. It may leave by
EOF or reset at any moment, a write may fail, a connect may succeed, be refused, or
fail at once; a read timer may fire whenever it is armed, also while connecting and on
a bufferevent that never got a socket.

### Cipher

`encrypt`, `EncryptChunk` are `Cipher::encrypt` and the loop of the client's
`local_read_cb`; `decrypt`, `InvertByte`, `DecryptChunk` are `Cipher::decrypt` and the
loop of the client's `remote_read_cb`. `EncChunk` and `DecChunk` are the lengths of a
read (2047 on the server, 1023 on the client, so each direction mixes both). While a
loop runs nothing arrives in its process. `Deliver` cuts the stream anywhere. The client
collects its output in a second evbuffer and appends that once, and rebuilds the
inverse table for each chunk; the model appends per chunk and builds the table once
per call, as the server does, which gives the other side more interleavings and no
fewer. The password is any table, as `setConfig` does not check it.

### Client

State. `local[c]` and `remote[c]` are the two bufferevents of a connection; the callback
argument of each, `arg`, is the connection while the other one exists and `NULL` once it is
gone (the code passes the other bufferevent, or `nullptr`). There is no context
object. These bufferevents are made without `BEV_OPT_DEFER_CALLBACKS`, so the event
and its callback are one action: `LocalReads`, `LocalEnds`, `LocalWrites` and the same for the remote side,
`RemoteConnects`, `RemoteRefused`, `RemoteTimesOut`. `local_read_cb` and
`remote_read_cb` are operators, because `local_event_cb` and `remote_event_cb` call them too, for what is
unread when a side ends. A callback that would dereference a null partner takes the process
down; `NeverDown` says none does. `bufferevent_socket_connect` may fail at once, which leaves a
bufferevent without socket. `typed`, `shown`, `uploaded`, `downloaded` record what each peer
has sent and been given, and `gone` why a side ended; the code has no such variables and no guard reads them.

`ProxiedConnection` is what that amounts to for the two peers, in words that do not
mention buffers, callbacks or substitution: what one side sends the other is given, in order; a side
that leaves keeps the other one attached exactly as long as that one is owed something; only
the read timer of the far side may cut both off. The mapping takes the streams, decrypted, as
what was sent and received, and open bufferevents as attached sides. The server does *not* implement
`ProxiedConnection`: `remote_event_cb` frees the client's bufferevent at once when
the target ends (`server.cpp:88`), with what is still to be written.

### Tunnel

`Client` and `Server` by INSTANCE, with the network between `Client!remote[c]` and `Server!self[c]`:
what the client's kernel has taken and the server has not read is in flight, and the same the other way.
Each end learns of a close or a failure by itself, at any moment, and what is in flight is lost with it.
The application follows SOCKS5: it waits for each answer. Messages are substituted by the
client, by the server, and back; a message of the wrong layer would be told apart.

### SocksHandshake

Here the input buffer holds the bytes TCP has delivered, and one read takes at most 63 of them,
whatever messages they belong to. A client may wait for the answers or not
(`eager`). The bytes are substituted by the client and go through `decrypt_bytes` with its
array of 32 bytes; the array `ip2` is filled with all but six bytes of the request. Writing or reading behind
the end of an array takes the process down, does no harm, or spoils the copy (`Survives`, `Decrypted`). Nothing reads `ip2`.

### Config, Base64, JsonDocument

`Config` has both programs' starts as steps between which they may be stopped or die:
a file exists from the moment it is opened and has its contents only when it is closed. A password is the
sequence of bytes its text decodes to, so `Config` speaks of what a table gets, `Base64` of
the text and `JsonDocument` of the file. A byte that `genPassword` draws and
does not keep changes nothing and is no step. Nobody looks whether a file could be opened or written: without one the
server runs on with the password it drew and the client ends, and a file that was cut by a failing write is taken as empty.
The user copies the password into
`config.json`, with the name of the port either from the template or from the README.

`JsonDocument` reads a sequence of tokens; a string's characters are only counted. The pool is two
borders: strings move the left one up, slots the right one down, a string
that is not completed has taken all in between (`StringLost`). Escapes, nesting, and
white space do not occur in the files of these programs and are left out. A file that is not an object
takes room in the pool but gives the document no members (`TopValue`).
`ServerFile` and `ClientFile` are the programs' own files, token by token.

## 3. Runs

| Run | Instance | What it shows |
|---|---|---|
| `server_safety` | 3 connections, 2 addresses, greeting and domain request, no data; symmetric | type, the inductive invariant of lifetimes and of the handshake, all lifetime properties and the reply, with every misuse and what follows from a context deleted twice |
| `server_optimistic` | 1 connection that does not wait for the reply, every greeting and request, 3 messages up, 2 down | an impatient client loses only the beginning of its stream; the inductive invariant again |
| `server_liveness` | 2 connections taking turns on 1 address | hang-up and timeout release everything |
| `client` | 2 connections, 2 messages each way | the two bufferevents of a connection point to each other or not at all; no null partner is used; streams whole; nothing cut off by the other side's leaving; every step of the client is a step of `ProxiedConnection` or none; both bufferevents are freed in the end, but for one case |
| `tunnel` | 1 connection, 2 messages each way, domain, IPv4 and IPv6 | conservation through both proxies; nobody reads anything but the start of what was meant for it; the server, which has no timer for its clients, is rid of them behind the client |
| `socks_handshake` | names of 1 to 27 bytes and two addresses in messages of one piece; names of 1, 3, 24 and 25 bytes and two addresses cut and merged everywhere, eager clients too; all 256 byte values | what is looked up, in one piece and cut, that it is looked up, and when an array may be left |
| `config` | 4 byte values, tables of 4 entries; files that cannot be opened or written | the tables are permutations and match; passwords stay; generation ends |
| `base64` | all sequences of up to 4 bytes out of 5 values, one table of 256 | decoding restores, and gives as much as there are characters for of a text that was cut |
| `json_document` | the programs' files and three more, cut, left open or spoilt at each token, and files that are no object; 9 pool sizes | strings and slots stay apart; the document is what was read before the error; 1024 bytes hold the programs' own files |
| `cipher` | every table over 3 byte values, 3 bytes, reads of 2 and 3 | table inverted exactly if it is a permutation; stream restored; everything is delivered |
| `server_gone_local` | 2 connections taking turns on 1 address | *violated*, see below |
| `server_reply_means_connected` | 1 connection, domain and IPv4 requests | *violated*, see below |

Bounds. Two connections are needed for a stale address to hit another connection's
context; a third for a double free to matter, one whose late callback deletes again and
two that are given the same address. Two addresses, so that both a reused and an unused one occur. One address forces reuse
in the liveness run, where symmetry cannot be used. With three connections there is room for the handshake
only. The other requests, and data on either side of CONNECTED, EOF and timeout and its order within a stream, are in
`server_optimistic`, with the same invariant; data passes two proxies in `tunnel`, and for several connections
with data `StreamInv` is proved, not run. In the cipher, three bytes and reads of two and three give full, short and
empty reads on both sides, and three byte values give tables that are
permutations and tables that are not. The other direction only swaps which read is longer; `RoundTrip`
is proved for all lengths.

Connections of the client share nothing but `proc`; two are there to show it. Two
messages each way give a buffer with something delivered and something not when a side ends. In the tunnel one connection is enough as each proxy was
checked with two. In `SocksHandshake`, 25 bytes are the longest name whose request
fits 32 bytes and 24 the longest with one to spare, and both are there with the next longer ones; a name's bytes are larger than any
number that has a meaning in the protocol, and the two addresses
include one that does have such bytes. In `Config` four byte values and a template of two make a
table that is full and one that is not; nothing there depends on 256. The five
values of `Base64` are 0, all ones, alternating bits both ways and the two lowest bits, so that every mask and
shift shows. The pool sizes of `JsonDocument` are those at which a string or a slot of the programs' files just
fits and just does not.

`CHECK_DEADLOCK FALSE` throughout: the server stops when its process is down, and every
instance stops when its bounded traffic or its file is used up.

### What the properties say

* `LocalContextLive`, `PartnerOpen`, `RemoteContextLive`: the raw pointers. A local callback is
  never the first to see a deleted or reused context, and reads its own bufferevent in it;
  `context->partner` is never dangling, even after an address was handed out twice; the two sides of a connection and
  the context go together as long as nothing was misused.
* `FirstMisuse`: an action property that names exactly how a deleted context can
  first be used: `dns_cb` for a client that left during its lookup, or the timeout
  of a bufferevent whose connect failed at once (`server.cpp:282` does not store it,
  so nothing frees it with its client). No other callback can be first.
* `UpstreamComplete`, `DownstreamInOrder`, `DomainReplyMeansConnected`: the streams and
  the reply, through buffers of both bufferevents, per connection, encrypted exactly once.
* `HangupReleases`, `RemoteReleased`: release. `HangupReleases` excludes a local
  bufferevent whose context the IPv4 branch took away: that one is never released,
  which may be the leak "原因不明" (of unknown cause) of `README.md:108-109`.
* `TableInverts`, `RoundTrip`, `AllDelivered`: the cipher.
* `NeverDown`, `FlushedBeforeFreed`: the client re-installs the partner's callbacks with a null
  context when a side ends. That no read callback and no timeout meets it is not
  visible in any one function: the callbacks that check for null (`client.cpp:60-64`) go on to dereference it.
* `StreamsWhole`, `ImplementsConnection`: what the event callbacks pass on comes after what the read
  callbacks did, once, through the same conversion; and a bufferevent without partner exists
  exactly while it owes its peer something.
* `PairReleased`: the exception, `Stuck`, is a remote bufferevent that never got a socket and whose
  application left with data unsent: its timer was disabled with `EV_READ` and nothing can end it.
* `UpConserved`, `AppReadsOnlyItsOwn`, `TargetReadsOnlyItsOwn`: the same across both processes, until
  the server misuses a context (`~ub`). A tail may be lost, in flight or with the server's bufferevent; never more.
* `TunnelReleased`: excludes a context the IPv4 branch took away, and a server that has misused one.
* `AskedRight`, `Served`, `OnlyLongOrEager`: the handshake takes what one read returns for a
  message. If messages come whole, the lookup happens and is for the right name and port. If
  TCP cuts them, what is looked up is still the beginning of the name, with any two bytes for a port. An
  array is left only by requests that are too long, by eager clients, and by requests for an address that were cut.
* `Restores`: Base64, with the number of bytes that a text cut anywhere gives.
* `TablesMatch`: a running server's table is a permutation, which is the
  hypothesis under which `RoundTrip` restores a stream, and a client's is the same or the template's.
* `PoolHolds`, `DocumentIsPrefix`, `OwnFilesRead`: `readJsonConfig` ignores the parser's error, so what
  the document holds after one matters.

### Fairness

`Server`: the loop runs scheduled callbacks (`event_base_dispatch` never returns while the
listener exists), evdns answers or gives up after its retries, a read timer that stays
armed fires. Data re-arms the timer in libevent; targets send at most `MaxDown` messages,
so a target that keeps sending for ever, which would keep its bufferevent, is not covered. Nothing is assumed of clients and targets: they may be silent for ever.
`Cipher`: each loop goes on and TCP delivers.

`Client`: the kernel takes what a connected socket has to write, a connect has an
outcome, and the read timer of the remote side fires while it is armed; data re-arms it, and the server sends at most
`MaxDown` messages. Applications and the server may be silent for ever. Without the first of these a peer that never reads
keeps the bufferevent that is flushed to it, as the code has no write timeout.
`Tunnel`: that of both, and the server's kernel reports that the client's end was closed.
`SocksHandshake`: the loop runs what is scheduled and TCP delivers.
`Config`: every byte is drawn again and again while it would be kept (`GenerationEnds` holds for a generator that
does not avoid a value for ever), and a program that writes its file goes on or dies.

### Disagreements between the code and what the repository says

Two runs expect a violation; each checks one sentence of a comment or of
`socks5协议说明.md` (the protocol notes).

* `server_gone_local`: `server.cpp:71-75` knows that the local side may be gone when
  CONNECTED comes and tests `context->self`, but the context itself is deleted then;
  memory that was reused shows another connection's `self`.
* `server_reply_means_connected`: an IPv4 request is told "succeeded" and nothing is ever connected.

Others are visible in what a passing property has to exclude:

* `client.cpp:23-25` says the other side is closed when it is flushed; one whose connect failed at once
  never is (`Stuck` in `PairReleased`).
* The notes put DST.PORT behind DST.ADDR and give the name no fixed length (lines 51-52): a request that TCP cuts is
  looked up with another port (`AskedRight`), and one with a name of more than 25 bytes is longer than the
  array of `decrypt_bytes` (`OnlyLongOrEager`).
* `server.cpp:145` speaks of a timeout of 15 s for the client; `{0, 0}` is none, which is why
  `TunnelReleased` needs LightSocks-client in front.
* A server that dies between opening and closing `config_server.json`, or cannot write it, leaves an empty file
  (`NoMembers` in `PasswordKept`), which later starts neither regenerate nor survive, where
  `README.md:77-78` says the file is generated if it is missing.
* The `config.json` that `README.md:59-66` shows has comments; the parser, built without them, stops at
  the first (`DocumentIsPrefix`). It also calls the client's port `listen_port`, where
  `main_client.cpp:37` reads `local_port`.

Smaller ones, outside the models: the notes say that a request is answered and that a greeting
lists methods to choose from; a failed lookup, IPv6 and BIND are not answered, nor is a greeting other than `05 01 00`; `client.cpp:167` and `:181` say 10 s where the
code sets none and 15 s; `evutil_freeaddrinfo` (`server.cpp:285`) stands after a `return`
and the answer is never freed on success either.

## 4. Proofs

TLAPS proves the following for every value of the constants (any number of
connections, addresses and messages; any number of byte values and any read
lengths; any file and pool). The only assumptions are these:

| Assumption | Says |
|---|---|
| `ServerAssumption` | `NULL` is neither a connection nor an address, the sets of greetings and requests are sets of known ones, bounds are naturals |
| `ClientAssumption` | `NULL` is neither a connection nor the name of a callback |
| `TunnelAssumption` | that of the server and that of the client |
| `CipherAssumption` | at least one byte value, reads of at least one byte |
| `HandshakeAssumption` | the table is a permutation (which is what `TablesAlwaysMatch` proves), the scratch array is smaller than a read, an IPv4 address has four bytes, and the bytes of names are none of the numbers that mean something in the protocol |
| `ConfigAssumption` | 0 is a byte, the template is shorter than a table |
| `JsonAssumption` | files are sequences of tokens, and keys and values of string tokens are not `NULL` |
| `InputsAssumption` | what Base64 is given are sequences of bytes |

One theorem, `OwnFilesStayRead`, also assumes that a slot has at most 157 bytes; `sizeof(VariantSlot)` is 32 at most.

**Server.** `LocalContextLive` alone is not inductive: that a local callback's context
is live depends on nobody else deleting it, so on who else holds its address.
`ServerInvariant` says that: a live cell belongs to an open local bufferevent
that carries its address (`HeapOwned`, `OneContext`, `SelfValid`), a partner points back
(`PartnerBack`), the allocator has an address to give out exactly when nothing lives there (`FreedOnce`), a connection has at most one of a pending lookup and a target, and neither before its
request (`Stages`), all three carry the same address as long as the local side is open
(`SameContext`), a bufferevent without socket can only time out (`OnlyTimeout`), and
until a misuse the remote side is as well off as the local one (`RemoteValid`). `FreedOnce`, `SelfValid` and
`RemoteValid` begin with `~ub`: a misuse can delete a context twice, and an address that is given to a second connection leaves the first
with a context that is not its own. The rest is kept by that as well: a cell always describes
the connection that got it last, and `dns_cb` on an address that was reused overwrites its *partner* with a bufferevent
that carries the address.

The proof first shows types (`NextType`), then that most actions are *quiet*: they move data
or schedule callbacks and keep everything the invariant speaks of
(`QuietKeepsHolders`). What is left is one lemma for each action that changes who holds an address:
accepting, a lookup's answer, serving a request, and the two event callbacks.
Theorems: `Inductive`, `TypeCorrect`, `LocalContextsLive`, `PartnersOpen`,
`RemoteContextsLive`, and `FirstMisuseIsLate` for the action property.

**Server streams.** `UpstreamComplete` and `DownstreamInOrder` say where messages are, not why
nothing else can come between them. `ServerStreams` says that every connection is in one phase of its handshake,
told by the read callback of its local bufferevent: greeting, requesting, stranded (the IPv4 branch),
relaying before or after the reply, or not there. The phase fixes how much was written to
the client, what is unread, and that `fetched`, the target's output buffer and the client's input buffer
together are the end of the data the client sent. This needs the lifetimes: a callback writes to its own
connection because its context is its own. `StreamInv` is both, and holds until `ub`, which never
becomes false again (`MisuseStays`). A clean step has one of 17 effects, on its own connection and on no
other (`NextEffect`); one lemma per effect shows that it keeps `Intact`. The proof found the first
version not inductive: a target without a socket must also have fetched nothing and have nothing to write
(`NoTarget`), or a failed connect could drain what it does not have. Theorems: `StreamsInductive`,
`UpstreamStaysComplete`, `DownstreamStaysInOrder`, `DomainRepliesMeanConnected`.

**Cipher.** Lemmas: substitution commutes with concatenation (`SubstituteConcat`), a
read splits a buffer (`ReadSplits`), the mathematical inverse undoes the substitution
(`OriginalOfSubstitute`), and the table the loop builds agrees with it (`InverseIsOriginal`,
from the loop invariant `PartlyInverted`). The loop invariant has to be stated as "leads to a byte that codes
the same", as the loop overwrites entries when two bytes share a value. With these, each action only moves
a border between the parts of `out \o coded \o wire \o plain`. Theorems: `Inductive`, `TypeCorrect`,
`TableIsInverse`, `StreamRestored`.

**Client.** `NeverDown` and `FlushedBeforeFreed` speak of one callback each and say nothing of who
installed it. `IInv` does: the two bufferevents of a connection carry each other or nothing (`Paired`),
one that has its partner relays and is not closed by a write (`Relays`), one that lost it
only flushes, with something to write, no read callback and no timer (`OnlyFlushes`), both come together and a null argument
is the trace of a freed partner (`Twins`), and nothing stays in an input buffer. The proof
summarises each action in what it does to the two bufferevents and the four streams of one
connection: joined, accepted, read from one side, ended on one side, silenced, given to one side. One
lemma per form shows that `IInv`, `Whole` and `Delivered` are kept, and one per action that it has such a form.
What a read brings may be any message, so that the same lemmas serve `Tunnel`, where SOCKS5 messages come by.
Theorems: `Inductive`, `TypeCorrect`, `NeverDereferencesNull`, `StreamsStayWhole`, `NothingCutOff`.

The second half of `ClientProofs` proves `Spec => ImplementsConnection` over the same forms: joining is `Begin`, reading is `Send`,
being written is `Deliver` (which also lets go of a side that is alone once it has all), ending is `Leave`, the timer is `TimeOut`, and
a connect is a stutter. What each step needs of the invariant is that a side is owed exactly what is in
its output buffer (`StreamsWhole`) and that a lone side is owed something (`OnlyFlushes`). Theorem: `Implements`.

**Tunnel.** The module instantiates `ServerProofs` and `ClientProofs` and cites their lemmas.
Every step of `Tunnel` is a step of one of the two and leaves the other's state alone
(`Moves`, `ServerForms`, `ClientForms`), so both invariants hold here as well. A read of the server is a step of `Server` only if what arrives is what `Server` lets a
client send next; that is not assumed but follows from what the connection
carries. So `TunnelInv` adds, for each connection: what an end has read is the beginning of what the
other has written (`Carried`); the application has typed its greeting, its request once that was answered, and data once that was
(`Polite`); and what the target has fetched is what the server read after the request (`FetchedOwn`). The
three properties follow, `UpConserved` by counting what lies between two known beginnings. TLC
agreed with the new part on `Tunnel.cfg` (57,583 states) before it was proved. Theorems:
`TunnelInductive`, `UpStaysConserved`, `AppReadsItsOwn`, `TargetReadsItsOwn`.

**SocksHandshake.** What a read is taken for depends on where in the stream it begins, and that is not bounded by the
code: a message that is cut is dropped in part, and the next read begins behind it. The invariant, for clients that wait
for their answers: before the greeting is answered no more than 3 bytes have come (`AtGreeting`), and before
the request is answered no more than the request, read from the last byte of the greeting on at the earliest (`AtRequest`). The key
lemma is `OnlyAtRequest`: of all places where a read of seven bytes or more may begin, only the first byte of the request has `01` as
its second one; the length and the port may be `01` as well, but fewer than seven bytes are left where they would come second. With it, `HostRead` finds the end of the
name that `hostname.c_str()` gives, and `ReadDecoded` that a read that fits comes through `decrypt_bytes` as
it was sent. Theorems: `ArraysHold` (`OnlyLongOrEager`), `AskedAsRequested` (`AskedRight`).

**Config.** `TablesMatch` needs that the bytes drawn so far differ, that a file that exists holds a
complete draw, or is the empty file, and that a file of the client holds that draw, the template, or
nothing, and that a server configured without a file has the draw as its table: that is the invariant. Theorems: `TypeCorrect`, `TablesAlwaysMatch`, `PasswordStays`. The first conclusion is the
hypothesis of `StreamRestored`.

**JsonDocument.** `PoolHolds` is inductive with the types. Each action leaves the pool as it was, adds a string
that was asked room for, adds a slot that was, or takes what is left for a string that fails.
`DocumentIsPrefix` relates the members to
the text up to where the parser is, so it needs what the parser remembers of it: `key` is the token before the
colon, and a colon is followed by the value of the one member with that key (`Reading`). Three kinds of step
remain: a token that is no colon, a colon that adds a member or finds one, and a value.
Theorems: `TypeCorrect`, `PoolAlwaysHolds`, `DocumentAlwaysPrefix`.

`OwnFilesRead` is proved by way of a statement about every file. A file *fits* a pool (`Fitting`) if it is a flat
object and there are running totals of what its tokens take - a string its characters and a zero, a colon a slot -
that stay within the capacity. The invariant `FitInv` says that no error has come, that the place of the next token tells what is
expected there (`InPlace`), that only the member whose value comes next has none (`Valued`), and that what is
taken is at most the total so far (`WithinTotal`); a repeated key takes less, because its slot is there.
With what `PoolHolds` says of the two borders, the next token then has room. That such totals exist is checked
by giving them for the server's file and the client's. Theorems: `FittingFilesRead`, `OwnFilesStayRead`. With slots of 157 bytes the client's
file fills the 1024 bytes exactly.

**Base64.** That decoding restores is an induction over the data if one thinks of two functions, but the code is two loops,
and their invariant has no induction in it. `CodingInv` says what the loops have done so far: while encoding, the text written is that of the
groups read (`Encoding`); afterwards it has no character but those of the groups, and the padding stands where a group was not full (`Encoded`);
while decoding, the text is that of the groups up to the character where it was cut, and every four characters read have given three
bytes (`Decoding`), which are the beginning of the input (`Begins`). The arithmetic is in one lemma, `GroupInverse`: four digits of six bits give back the three
bytes they were made of. A text that was cut anywhere needs the same invariant, with a last group of two or three
characters. Theorems: `CodingInductive`, `PasswordRestored`.

Only model-checked: all liveness, which is `AllDelivered`, `HangupReleases`, `RemoteReleased`, `PairReleased`, `TunnelReleased`, `Served` and
`GenerationEnds` (fairness and ENABLED are out of the prover's reach). Every other property that a passing run checks
is a theorem.

## 5. Not modelled, and the plan

Not modelled:

* libevent's own code: only headers are present. `Bufferevent` is what the callers rely on.
* Real time: a timer that is armed may fire at any moment, so nothing is said of 15 s against 10 s, nor that
  an upload to a target that answers only at its end is cut off after 15 s (`server.cpp:271`).
* spdlog: it writes log lines, and no state of the two programs depends on it. Its thread pool,
  asynchronous loggers and file sinks are compiled into nothing here.
* The rest of ArduinoJson: nested values, escapes, numbers, filters, serialisation, MessagePack.
* Windows branches, signal masks, the text of messages.

The repository has about 36,000 lines, of which the two programs are about a thousand; the rest are the vendored
headers of libevent, spdlog, fmt and ArduinoJson. The models cover the programs' own code, what their passwords go
through of Base64 and what their files go through of ArduinoJson, which is a small share of all lines. Modelling more of the vendored code would
say nothing about these programs.

Done: the server with the proofs of its lifetimes and streams; the cipher; the client, its
abstract specification, the refinement, both proved; the tunnel, its safety proved from that of the two; the handshake on
bytes, with proofs; start-up, password, Base64 and JSON, with proofs. Every safety property and every action property of a
passing run is proved.
