# A TLA+ verification of the Pomerium CLI

The repository holds `pomerium-cli` (tunnels from a local port through a
Pomerium proxy) and the gRPC service behind Pomerium Desktop (stored
connection records, listeners that can be switched on and off, a stream of
status events). This directory models the parts that carry its logic, checks
them on small instances with TLC, and proves the safety properties that matter
most with TLAPS.

## Inventory

| Component | Source | State | Operations |
|---|---|---|---|
| configuration, tag index | `api/config.go`, `api/import_export.go` | `byID`, `byTag` | `upsert`, `delete`, `clearTags`, `listByIDs`, `listByTags`, `listAll`, `getTags`, `loadConfig`, `save`, import, export |
| configuration service | `api/config_server.go`, `api/file_provider.go`, `api/server.go` | the server's lock, the configuration, its file | `Upsert`, `Delete`, `Import`, `Export`, `List`, `GetTags`, start up |
| listener service | `api/listener_server.go`, `api/listener.go` | the listener table, one context per listener | `Update`, `GetStatus`, `Delete`'s disconnects |
| API tunnel | `api/tunnel.go` | one accept loop per TCP listener, one goroutine per UDP listener | accept, back off, serve, announce |
| event broadcaster | `api/events.go` | `history`, subscribers by connection | `Update`, `Reset`, `Subscribe`, the loop `run` |
| tunnel | `tunnel/tunnel.go`, `tunnel/tunnel_tcp.go`, `tunnel/events.go` | the chosen tunneler and its mutex | `Run`, `runWithJWT`, `pickTCPTunneler` |
| tunnelers | `tunnel/tunnel_http1.go`, `_http2.go`, `_http3.go` | a connection to the proxy | `TunnelTCP`, `TunnelUDP` |
| UDP session manager | `tunnel/tunnel_udp.go`, `tunnel/tunnel_fallback.go` | sessions by client address, channels of capacity one, the list of tunnelers | `read`, `dispatch`, `write`, a goroutine per session |
| token cache | `jwt/jwtcache.go` | one file per host, shared by all tunnels and processes; a map in memory if there can be no file | `LoadJWT`, `StoreJWT`, `DeleteJWT` |
| login client | `authclient/` | during a login: a callback server, three goroutines, a handler per request | `GetJWT`, `CheckBearerToken` |
| credential and cache commands | `cmd/pomerium-cli/kubernetes.go`, `cache.go`, `internal/cache/` | the cache directory: credentials, tokens, the last URL | `k8s exec-credential`, `k8s flush-credentials`, `cache clear` |
| route portal | `internal/portal/`, `internal/httputil/`, `cmd/pomerium-cli/routes.go`, `api/routes.go` | the same token files | `routes list`, `FetchRoutes` |
| URLs and tunnel options | `tunnel/urls.go`, `tunnel/config.go` | none | `ParseURLs`, `tunnel.New` |
| certificate store | `certstore/` | none of its own | `GetClientCertificateFunc` and its filters |
| tunnel commands | `cmd/pomerium-cli/tcp.go`, `udp.go`, `proxy.go`, `main.go` | flags | `tcp`, `udp`, `proxy`, `getTLSConfig` |
| certificate information | `api/cert_info.go`, `proto/cert_info.go` | an LRU cache | decorates the answers of `List` |
| other commands | `cmd/pomerium-cli/api.go`, `databroker.go`, `version.go` | flags | wiring |

How they interact. A handler of the service takes the server's lock, changes
the configuration or the listener table, and saves the file before it answers.
`Update` starts an accept loop per record; the loop never takes the lock and
tells the broadcaster what happens. Every accepted connection calls
`Tunnel.Run`, which loads a token from the file, picks a tunneler under a mutex,
sends CONNECT, and after a refusal logs in, stores the token and tries once
more. UDP listeners run the session manager instead, whose sessions do the same.
`exec-credential`, `routes list` and `FetchRoutes` follow the same pattern of
cached token, refusal, login and store, each with rules of its own, on files
that several processes share.

What is hard about it, and what therefore has to hold:

- **configuration** - two maps are kept in agreement by hand in three places;
  a call is several steps, each of which can fail; a write of the file is not
  atomic. *The index agrees with the records; what was acknowledged is on disk;
  a call does exactly what its answer says.*
- **listeners** - a handler only cancels a context; the socket is closed and
  the end announced by other goroutines, possibly after a new listener of the
  same record has begun. *The table tells the truth; every running listener can
  be stopped; a stopped one ends; the last event is true.*
- **broadcaster** - one goroutine sends to clients that may be slow, gone or
  cancelled, while publishers (some holding the lock) wait for it, and the
  server may stop in the middle. *No closed stream is sent to; no stream has a
  gap; nobody waits for ever; every stream ends with the server.*
- **tunnel and token** - connections race for a file without a lock and
  share a choice made behind a mutex, which is held over a network call; what a
  login or an account file yields is not verified. *The attempt after a login
  uses what that login yielded; nobody logs in needlessly, or twice; the tunneler
  is never nil; stopping the listener ends its connections.*
- **login** - a web server, a browser and a waiting goroutine have to end
  together, whoever fails, and a browser may call back more than once. *One
  caller is told that the login is complete, and its token is the result; an
  error never becomes a token; once it is decided, the login ends.*
- **commands** - processes that kubectl starts at the same time read, truncate,
  write and remove the same files, and may be killed in between. *Nothing but a
  whole token is served; a user who is not disturbed logs in once; what a
  command serves is what the next one finds.*
- **options** - four places make a tunnel of the same flags. *Each leads to the
  server it was given and logs in there; a TLS option is used or refused.*
- **UDP sessions** - five kinds of goroutines block on each other through
  small channels; sessions end and are replaced; the list of tunnelers is
  shared. *One session per client; nothing mixed up, overtaken or sent twice;
  dispatch and sessions do not wait for each other for ever; everything ends
  with the context.*

`PROJECT.json` lists these hazards at the lines where they bite.

## Modules

Each component module has its state as VARIABLES, one action per step of the
code, and its properties at the end. Every action names the function it stands
for; `PROJECT.json` gives the lines.

**`Config`** - the configuration as a value `[byID, byTag]` and its methods
as operators: `upsert`, `clearTags`, `delete`, `listLocked`, `getTags`, `exportRecords` and
their errors. Iteration over a Go map is in any order, so a listing is a
set of sequences. A record is its tag list and the protocol of its connection
(`"none"` for a nil `Conn`): the code tells nothing else apart. `IndexOf` is the
reference definition of the tag index.

**`ConfigServer`** - the handlers around it. `server.Lock` is held during
a whole call, so calls do not interleave; `pc` says where the call that holds the
lock is. Loops are one step per iteration, and the write of the file is a step
of its own (`SaveOk`, `SaveFails`), because `os.WriteFile` truncates first: a
failure or a `Crash` leaves the old file, an empty one or a torn one. After a
crash, `Start` loads what is there, or `StartFails`, because the file does not
parse or cannot be read. `connect` of a record without a connection
is `ConnectPanics`: `newTunnel` dereferences the nil `Conn`.

**`Broadcaster`** - `run` with its four cases, the loop that sends the
history, `update` with its deadline, clean up and shutdown, the publishers'
blocking calls and the streams of `StatusUpdates`. Channels are unbuffered, so
an exchange is one action of both sides. Events of a connection are
numbered in the order `run` receives them, which is what "gap" refers to.

**`Listeners`** - the table, the handlers (one record per step) and,
for each listener, the goroutine of its loop and the one that closes its socket.
The broadcaster is reduced to the last status in a record's history. `clean`
remembers which records have a loop that began when no older one was running and
was not cancelled in its backoff. `AcceptPanics` is the Accept error that is no
timeout and no cancellation: the loop goes on with a nil connection and the
process ends.

**`TunnelAuth`** - any number of connections running `Run` against one
token file, which may hold a token, nothing, or a mixture of two writes. The
server issues and revokes tokens; the browser login is an external exchange.
`GetJWT` verifies nothing, so a service account (`Flag`, `AccountFile`) and a
callback (`CallbackText`) may yield an empty text, a part of a token or the token
of another server. `got` remembers what it yielded to each connection. `Cancel`
ends the context of the listener; `Crash` ends all connections and keeps the
file; the next process is started with a service account or without.

**`UDPSessions`** - `read`, `dispatch`, `write`, the session goroutines
with their two loops, and the fallback tunneler. A datagram is an address and a
number. A session object that has ended may be used again for a new session, so
the bound is on sessions that exist at a time.

**`AuthClient`** - one call of `GetJWT`: the callback server and the
goroutine that watches its context, the opening of the browser, the receiver,
and a handler per request. `Serve`, `Shutdown` and `errgroup` are modelled from
how they are used. A request on a connection that was accepted before `Shutdown`
is handled whenever it comes (`Accept`, then `Request`), also after `GetJWT` has
returned. A handler that finds no receiver waits for ever (`authclient.go:104`
looks at no context); the process goes on without it, and `Wait` does not ask for
it.

**`Login`** - what a login promises, without goroutines: asked, tokens
offered, one caller told, granted or refused. `AuthClient` implements it
(`LoginImplemented`); `TunnelAuth` and `Commands` use a login as this exchange.

**`RecordStore`** - what the configuration service promises about its
records, without tags, selectors and file formats: a call changes memory one
record at a time and commits all of it at once; the disk has the records of the
last commit or is lost; "ok" means that both agree. `ConfigServer` implements it
(`StoreImplemented`), with the file mapped to its records and whether it can be
read.

**`Commands`** - processes that run one command after the other on the
credential file and the token file of one server, the last URL and the three
directories. `os.Create` and the write are two steps; a name that is removed
under a writer takes its data along. Of two writers of the credential, which is
JSON, the later one counts, as a decoder reads the first value; the token file is
raw text, where two writes may leave a mixture, and a mixture may pass
`checkExpiry`, which does not verify (`Left`, `MayParse`). A write that fails half
way leaves a credential that does not decode. `os.RemoveAll` removes what it has
listed and then the directories that are empty. `Kill` may come anywhere. `alone` and
`calm` remember whether a process has met another one, and whether anything went
wrong so far: they are what the promises are conditional on.

**`Settings`** - the options of a tunnel as data and the functions of
the code as operators: `ParseURLs`, `newTCPTunnel`, `getBrowserURL`, both
`getTLSConfig`s, the filter of the certificate store. The actions are the four
places that make a tunnel, given the same options in any order, as far as each
can be given them: a build without a certificate store has no flags for it
(`KnownFlags`), and a `Connection` of the API has no file of authorities and no
filter without a request for the store (`Expressible`). A host is a name and a
port; an IPv6 literal is told apart because its text has colons.

**`MC...`** - the instances that need definitions of their own (inputs,
bounds, symmetry sets); the other runs take the component module as it is.
**`...Proofs`** - the theorems of each module.

## Runs

Passing runs:

| Run | Instance | Shows |
|---|---|---|
| `config_server` | 2 ids, 2 tags, one selector of each kind, imports with and without ids | `IndexConsistent`, `AckedIsDurable`, `CallsExact`, `ListeningHasConn`, `StoreImplemented` through all calls, failed saves and crashes |
| `broadcaster` | 1 connection, 2 streams, 3 events | `RegisteredIsOpen`, `NoGap`, `CaughtUp`, `PublishersGoOn`, `StopEndsStreams` |
| `listeners` | 1 record, 2 loops at a time | `ListedIsServed`, `LiveIsListed`, `LastStatusIsTrue`, `StoppedEnds` |
| `tunnel_auth` | 2 connections, 1 token of a login; texts that are no token from the callback, a flag and an account file | `TunnelerReady`, `SecondAttemptFresh`, `NoNeedlessLogin`, `EventsInOrder`, `StopEndsRuns` |
| `udp_sessions` | 2 clients with 2 and 1 datagrams, 2 replies to the first, 2 sessions at a time | `OneSession`, `ClientInOrder`, `TunnelersLeft`, `RepliesInOrder` |
| `udp_sessions_live` | 1 client, 2 datagrams, 1 reply | `DispatchGoesOn`, `AllEnd` |
| `auth_client` | 3 requests of the browser | `LoginImplemented`, `LoginEnds` |
| `commands` | 2 processes, 2 tokens of logins | `OnlyRealTokens`, `OneLoginServesAll`, `ServedIsKept` |
| `settings` | hosts by name, IPv6 literal and none; ports 22, 80, 443 and none; every TLS option, 2 attributes with 2 values | `AddressesAgree`, `TLSAsAsked` |

Each module's `TypeOK` is checked with its invariants (`Settings` has none: its
state is what its operators return).

Bounds, and why they are enough. `Ids`, `Tags`: the index relates a pair
of records through a pair of tags; the proof of `IndexConsistent` removes the
bound. `MaxLoadable` stands for `maxConfigFileBytes`, counted in records, and is
out of reach in the runs; the proofs hold for every value of it. `MaxEvents = 3`
lets a stream receive an event, miss one and be ready for a third, which two
events would not; the streams of another connection meet these in `shutdown`
only, and the proofs cover them. `Loops = 2` lets an old and
a new loop of a record overlap; several records, and handlers that walk several
ids, are covered by the proofs. `FixedPort = {}` allows every behaviour that a
fixed port allows and more: a fixed port only forbids some connects. In
`tunnel_auth` one token is enough to be accepted, revoked, stored, mixed and
deleted, because the texts that are no token (`Foreign`) tell two connections
apart; the proofs cover any number.
`Sessions = 2` lets both clients have a session and one be replaced; two
datagrams fill a session's channel and block dispatch on it. Replies are bounded
apart from datagrams (`MaxRead`, `MaxReplies` are functions of the client)
because the two directions share only the session.
Three callbacks let one be received, one wait and one come late. In `commands`
two processes are what a race needs, and two tokens let one replace the other;
`Account` is empty, so that `UseAccount` stands for an account file that is
empty, and the proofs cover accounts with a token. The options of `settings` are
enumerated in two parts, all addresses without TLS options and all TLS options
for one address, because `Tunnel` combines the two by one test of the scheme.
Symmetry is used only in runs without liveness properties.

Deadlock is checked except for `UDPSessions`, whose manager stops for good when
its context ends, `AuthClient`, where one call returns, and `Settings`, where
each place is asked once.

Runs that show a disagreement between the code and what the repository says of
it (the quoted lines are in `PROJECT.json`, "findings"):

| Run | What the repository says | What the code does |
|---|---|---|
| `settings_udp` | `udp --pomerium-url` is "the URL of the pomerium server to connect to" | it is parsed and not used: `udp.go:26` reads `tcpCmdOptions.pomeriumURL` |
| `config_repeated_tag` | "tag index inconsistent. this is a bug" is an internal error | a record with a tag listed twice cannot be deleted: `delete` finds the tag's entry gone |
| `listeners_udp` | GetStatus covers active tunnels | UDP listeners enter no table |

### Seen while modelling, without a run of their own

Stored records and listeners:

- a selector that lists a record twice (two of its tags, or one id twice) makes
  `Delete` fail half way (`config_server.go:61`), where `api.proto:11` says
  "Delete deletes records that match Selector"; `CallsExact` says what it does;
- an import of what was exported stores every record once more, as an export has
  no ids (`import_export.go:30` has the TODO), where `api.proto:70` to `73` promises
  "de-duplication of the records so that multiple imports would yield the same
  result"; `CallsExact` accepts either;
- the channel of a cancelled subscriber closes at the next event of its
  connection, if there is one, and until then the handler of its stream is blocked
  (`events.go:163`; `events.go:24` has "the channel will close when context provided
  is canceled");
- `Update` without ids connects nothing (`api.proto:96`, "omit connection ids to
  connect all connections");
- the CLOSED of an old accept loop may follow the LISTENING of the next one, or
  not come at all (`LastStatusIsTrue` says when it is right, and leaves out just
  these listeners);
- an Accept error that is no timeout goes on with a nil connection and ends the
  process (`api/tunnel.go:113`, `AcceptPanics`);
- a configuration larger than `maxConfigFileBytes` is saved and cannot be loaded.

Tunnels and tokens:

- a token that `LoadJWT` reports as expired or invalid is sent nevertheless
  (`tunnel.go:129`; `tunnel.go:119` says to "use an empty JWT");
- an attempt that fails before the tunnel is open reports no OnDisconnected;
- neither the probe of `pickTCPTunneler` nor the CONNECT exchange has a timeout,
  and the probe holds the mutex: a server that does not answer holds up every
  connection until the listener is stopped; the browser command and, for HTTP/3,
  `ReadResponse` are given no context and outlast even that (`Waiting`);
- an error of `routes list` deletes the token file, also when another process has
  stored its token there since (`portal.go:67`);
- `Fetch` follows redirects, so a login page with status 200 passes
  `CheckBearerToken`, and the redirect statuses in its `switch` are seldom met;
- `routes list` keeps its token under the host as written, a tunnel under host
  and port, so the two do not share a login;
- `flush-credentials` looks under the text of its argument, `exec-credential`
  saves under the parsed URL's text; `cacheLastURL` makes no directory, so that
  the first URL of a new installation is not remembered (`cache.go:170`).

Options:

- `--client-cert-issuer` and `--client-cert-subject` ("search system trust store by
  some attribute", `main.go:87` to `92`) are dropped without
  `--client-cert-from-store`, even when they do not parse (`main.go:115`);
- an IPv6 literal as the proxy, without a port, gets none (`urls.go:51` looks for
  a colon), which is why `AddressesAgree` excepts it;
- `newTCPTunnel` accepts a Pomerium URL without a host, which `ParseURLs` refuses;
- the pattern of `--proxy-domain` matches every name that ends like the domain
  (`proxy.go:94`); `getProxy` (`api/tunnel.go:51`) is not called;
- `KeyEncipherment` is computed from `DataEncipherment` (`proto/cert_info.go:54`).

## Fairness

- `Broadcaster`: `run` takes ready steps; Go's `select` picks at random among
  ready cases, so a case ready again and again is taken (strong fairness of the
  cases for a publisher, a Reset, a subscriber). A client's `Send` returns:
  `api.proto:89` puts that obligation on clients. Without it the history loop,
  which has no deadline, would hold up every publisher.
- `Listeners`: handlers and goroutines run on; the goroutine that waits for the
  context closes the socket. No fairness of clients, of Accept timeouts or of
  failures.
- `TunnelAuth`: a connection goes on with the file, the mutex and `GetJWT` as far
  as the browser (`Fetch` has a timeout). Nothing makes the server answer, a user
  log in or an open tunnel end. Once the context is done a wait for the network
  ends, except in `Waiting`: the browser command is not given the context
  (`authclient.go:144`), nor is the response of HTTP/3 (`tunnel_http3.go:156` and
  its TCP sibling). The mutex needs only weak fairness in the run, as the
  probe is taken at most once: after it the critical section is one step.
- `UDPSessions`: goroutines run on; the `select` of dispatch is fair to the end of
  the context and to sessions that report their end; a connected session ends at
  the latest after its ten minutes; the handshake of HTTP/1, whose connection is
  closed with the context, ends with it. Nothing is assumed of a login or of the
  handshake of HTTP/3 (`Waiting`), and nothing makes a client send.
- `AuthClient`: weak fairness of each goroutine and handler on its own; `Fetch`
  ends within its ten seconds. Nothing is assumed of the user, of the caller's
  context, of the browser command, which nothing stops (`LoginEnds` accepts that it
  is still running), nor of Accept to fail. The receiver is one process: when it
  can take a token or see the end of the context it does one of the two.
- `ConfigServer`, `Commands` and `Settings` have safety properties only and state no
  fairness.

## What is proved

For every value of the constants (any sets of records, tags, streams,
connections, clients; any bounds). The assumptions are the `ASSUME`s of the
component modules: constants have the right types, the "none" values are not
members of the sets they extend, sets that are counted are finite.

| Theorem | Statement |
|---|---|
| `ConfigServerProofs!IndexAlwaysConsistent` | if no list of tags repeats a tag, `[]IndexConsistent` |
| `ConfigServerProofs!AcknowledgedIsDurable` | `[]AckedIsDurable` |
| `ConfigServerProofs!ListenersHaveConns` | `[]ListeningHasConn` |
| `ConfigServerProofs!CallsAreExact` | `[]CallsExact`, whether or not tags repeat |
| `ConfigServerProofs!NoTagIndexBugWithoutRepeats` | if no list of tags repeats a tag, `[]NoTagIndexBug` |
| `ConfigServerProofs!DeleteTakesTheSelected` | if no list of tags repeats a tag, a step of `Delete(sel)` goes for the records `sel` selects (`Selected`) |
| `ConfigServerProofs!CallsRunDown` | while a call holds the lock every step lowers `Left` |
| `BroadcasterProofs!RegisteredAreOpen`, `StreamsHaveNoGap`, `StreamsCatchUp` | `[]RegisteredIsOpen`, `[]NoGap`, `[]CaughtUp` |
| `BroadcasterProofs!RunWaitsForASendOnly` | `[]WaitsForASend`: what the loop over the history waits for |
| `ListenersProofs!ListedAreServed`, `LiveAreListed`, `LastStatusHolds` | `[]ListedIsServed`, `[]LiveIsListed`, `[]LastStatusIsTrue` |
| `ListenersProofs!OnlyUDPIsUnreported` | while no UDP listener is live, `ActiveIsReported` |
| `ListenersProofs!StoppedLoopsWindDown` | a cancelled loop only winds down (`Rank`) |
| `TunnelAuthProofs!TunnelerAlwaysReady`, `SecondAttemptsFresh`, `LoginsAreNeeded`, `EventsAlwaysInOrder` | `[]TunnelerReady`, `[]SecondAttemptFresh`, `[]NoNeedlessLogin`, and `EventsInOrder`, an action property |
| `TunnelAuthProofs!NoLoginLoop` | every step of a connection lowers its `Rank`, at most 13, and no step of another raises it |
| `UDPSessionsProofs!OneSessionAlways`, `TunnelersAreLeft` | `[]OneSession`, `[]TunnelersLeft` |
| `UDPSessionsProofs!ClientsKeepOrder`, `RepliesKeepOrder` | `[]ClientInOrder`, `[]RepliesInOrder` |
| `UDPSessionsProofs!LoopsEndWithTheirSession` | `[]OpenHasLoops` |
| `ConfigServerProofs!ImplementsStore` | `StoreImplemented`: every behaviour of `ConfigServer` is one of `RecordStore` |
| `AuthClientProofs!ImplementsLogin` | `LoginImplemented`: every behaviour of `AuthClient` is one of `Login` |
| `AuthClientProofs!LoginIsNeverStuck` | a login that is decided has a step to take, or the browser command still runs |
| `CommandsProofs!RealTokens`, `OneLoginSuffices` | `[]OnlyRealTokens`, `[]OneLoginServesAll` |
| `CommandsProofs!ServedTokensKept` | `ServedIsKept`, an action property |
| `SettingsProofs!AddressesAlwaysAgree`, `TLSAlwaysAsAsked` | `[]AddressesAgree`, `[]TLSAsAsked` |
| `TypeCorrect` of each module | `[]TypeOK` |

The arguments.

- *Index.* The first part of `ConfigServerProofs` shows that each operation of the configuration maps
  the index of the old records to the index of the new ones: `clearTags` removes
  one id from every entry and drops the entries that become empty, `upsert`
  adds one, `delete` is the inverse. `DistinctTags` (no list repeats a tag)
  is the assumption that makes `delete` succeed; without it
  `config_repeated_tag` is the counterexample. With these lemmas,
  `IndexConsistent` is inductive, and the internal error of `config.go:21`
  cannot be the answer of a `Delete`.
- *Calls.* `CallInv` says what is true of a call half way: a `Delete` has
  removed the records it no longer has before it (`Deleting`), which are of those
  it listed; an `Import` has stored the items it no longer has before it
  (`Importing`, that is `ImportedUpTo` of how many there are): a named record has
  the tags of the last item that names it and the last connection one gives, an
  item without an id is a record somewhere, and every new record nobody named is
  such an item, no two the same one; a call that saves has done all it had to
  (`CallDid`).
  A listing that names a record twice ends in an error and not in "ok", which is
  why the theorem needs no assumption on tags or selectors. It relates memory to
  the records the call began with; `DeleteTakesTheSelected` relates the records a
  `Delete` lists to its selector, from what an iteration over the index meets
  (`TagsListed`) and what the index holds.
- *Durability.* Not inductive alone: the answer is "none" while a call is under
  way, and during the start up the records read so far are part of the file
  (`DurableInv`).
- *Streams.* `NoGap` needs to know where each stream is in what it is owed:
  `RegInv` ties registration to the stream's own state and keeps closed channels
  out of every list `run` walks; `HistoryInv` says the history of a connection
  is the events since its last Reset; `StreamInv` says that what a stream has
  received, plus what `run` still holds for it in either of its loops, is
  everything up to the newest event. What `run` can wait for follows from
  `RegInv` and from the fact that a handler never returns without the end of its
  context (`OverIsCancelled`).
- *Listeners.* `TableInv` adds to the two table properties that a fresh loop is
  in no entry and that a UDP loop never is; `StatusInv` adds that a clean record
  has one loop, and relates where that loop is to the last status.
- *Tunnel.* A run that is past the login holds what `GetJWT` gave it, and is
  refused as unauthenticated only with a text the server does not accept; no
  place holds a token that was never issued, so that no later login makes a
  refused text a good one; a run in the probe owns the mutex and found no
  tunneler. `FirstAttempt` (whoever
  authenticates is in its first attempt) makes `runWithJWT`, unrolled, a straight
  line: `Rank` is the place in it.
- *UDP.* A session is in the map under its own address from its start until
  dispatch receives it from `stopped`, so `delete(sessions, s.addr)` removes that
  one; the list of tunnelers is shortened only by a session whose copy has the
  same length and more than one entry. For the order of datagrams, `RoutesInv`
  says that what a session's channel, or `dispatch`, holds belongs to the client
  of the session it is for, and `OrderInv` that along the four places a datagram
  can be in (the session's channel, `dispatch`, `mgr.in`, `read`) the numbers of
  one client increase, above what was sent and up to what was read. The property
  itself speaks of the concatenation of the four; `OrderFlat` is the step from
  one to the other. `RepliesInv` is the same for the two places of a reply.
- *Record store.* Each action maps to one step of `RecordStore` or to a stutter;
  the end of the start up is where an invariant is needed, for it has to show
  that memory has become what the file holds (`DurableInv`). The three outcomes
  of a write are the three disks of `Fail` and `Crash`.
- *Login.* `LoginInv`: outside of `eg.Wait` no goroutine runs (`Outside`), no
  handler runs before the listener is there (`Before`), and who has been told is
  exactly the one whose token is in `rawJWT` (`Delivered`); a receiver that ended
  without an error has received one, which makes the result of `Wait` the token
  of the caller that was told. That nobody is stuck rests on `HandedOver`: a
  token that was received has its shutdown asked for, about to be called, or
  called.
- *Commands.* `RealInv`: a token in a file or in a process was issued, and an
  exec-credential about to save or print has a whole token, since it decoded one
  or `parseToken` accepted one. `KeptInv`: a process that has been alone since its
  start has its file open and empty where it writes, so that no mixture can come of
  it, and finds in the file the token it is about to use. `CalmInv`: while all is calm the token of the one login is in the
  file or with the process that saves it, and whoever is about to log in, or to
  remove a file, does so because no login was counted. It needs `KeptInv`, as
  being alone is what keeps the file as it was read.
- *Options.* `MadeInv`: a tunnel that was made is what the place that made it
  returns for the options (`Result`), and these stay as they were given. The rest
  is about operators: each of the four ways to a proxy, by the four shapes a
  destination can have, ends at the host and port of the URL it reads (`Asked`;
  the destination's for udp), unless that is a bare IPv6 literal; and a
  `getTLSConfig` that returns at all returns what the options say, filters without
  a request for the store excepted. `SettingsAssumption` (no Pomerium URL is the value that stands
  for none) is what keeps a URL that was given apart from one that was not.
- *What liveness rests on.* Fairness is out of the prover's reach, but not the
  part that is about safety: that a call, a
  connection or a cancelled listener takes finitely many steps and is not set
  back by others (`CallsRunDown`, `NoLoginLoop`, `StoppedLoopsWindDown`), and
  that nobody waits for one who waits for him (`LoginIsNeverStuck`,
  `RunWaitsForASendOnly`, `LoopsEndWithTheirSession`).

Only model-checked: liveness itself (`PublishersGoOn`, `StopEndsStreams`,
`StoppedEnds`, `StopEndsRuns`, `DispatchGoesOn`, `AllEnd`, `LoginEnds`), since the
prover has no fairness and no ENABLED. Every invariant and action property that a
passing run checks is a theorem. The violation runs are counterexamples;
`NoTagIndexBugWithoutRepeats` and `OnlyUDPIsUnreported` prove the case two of them
leave.

## Not modelled

- *Certificate information.* Copies fields of a parsed certificate into an
  answer, through a cache keyed by the certificate; nothing reads them back.
- *The search of the operating system's certificate store.* Calls into a
  library; which certificates the filter lets through is modelled.
- *Wire formats.* HTTP requests, capsules and QUIC datagrams, `deBuffer`, JSON
  and protobuf encodings; what an encoding keeps or loses is modelled (torn and
  oversized files, exported items without an id).
- *Wiring.* Flags, signals, the domain patterns of `proxy` and the library it
  runs on, `api`, `databroker` (one call to a remote service) and `version`.
- *Generated code* (`proto/*.pb.go`).
- *Events of single peers.* They take the same path as listener events.

## Plan

1. Done: every part with state of its own has a module, and two of them an
   abstract specification they are proved to implement.
2. Left to model: the composition of `Listeners` with `Broadcaster`, where a
   handler publishes while it holds the lock, and an abstract stream of events
   that `Broadcaster` implements.
3. Done: every invariant and action property of the passing runs is proved.
   Left to prove: the bound on the steps of the UDP manager once its context is
   done, and of a login once it is decided.
