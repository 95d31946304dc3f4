# dproxy in TLA+

dproxy carries HTTP CONNECT tunnels from a local proxy, over a WebSocket and an
inner TLS session, to a relay server that dials the target.  This directory
holds TLA+ models of its parts, the TLC runs that check them on small
instances, and TLAPS proofs of safety properties for every size.

`PROJECT.json` lists the runs, the source lines behind every definition, the
hazards the properties are aimed at, and the theorems.

## 1. The system

| Component | State | Operations | Talks to |
|---|---|---|---|
| relay server, `internal/relay/server.go` | `sessions` semaphore, `activeWait`, `active` map, `draining` | `ServeHTTP`, `handleSession`, `Shutdown` | limiter, tunnel, policy, target dialer, relay copy, net/http |
| failure limiter, `internal/relay/limiter.go` | map and doubly linked list of sources, their counts and windows | `blocked`, `record`, `reset` | called by every session |
| relay copy, `internal/relay/relay.go` | deadlines of two connections; `activity`, `interrupted`, `watchDone`, `results` channels | `Copy`, `copyDirection`, `watchRelay` | used by both servers |
| local proxy, `internal/localproxy/server.go` | `active` map, `activeZero` channel, `draining` | `ServeHTTP`, `Shutdown` | tunnel client, relay copy, net/http |
| tunnel client, `internal/tunnel/client.go` | one stream at a time: control deadline, cancellation callback | `Open` | secure dialer, WebSocket, inner TLS, relay server |
| WebSocket, `internal/tunnel/websocket*.go` | frame remainder, read and write locks | handshake, `Read`, `Write` | tunnel client, relay server |
| inner TLS and identity, `internal/tunnel/innertls.go`, `identity.go` | key and certificate file | load or create, handshake | both ends |
| DoH resolver and secure dialer, `internal/securetransport` | none kept between calls | resolve, connect, verify | tunnel client |
| policy, `internal/policy` | configuration only | check a destination, its addresses | both servers |
| control protocol, `internal/protocol` | none | encode, decode HELLO, OPEN and their answers | both ends |
| commands, configuration, logging | none after start-up | run a server until a signal, then `Shutdown` | everything |

What is hard about it:

* **Shutdown against arriving sessions.**  `draining` is read once, early; the
  session is counted, hijacked and put into the map later, in separate steps.
  net/http stops tracking a connection once it is hijacked, so two mechanisms
  (http.Shutdown and the session count) must hand over without a gap, also when
  the deadline passes in the middle.
* **Four goroutines on two connections** in every relay, which tell each other
  only through channels and deadlines.
* **Check-then-act** on the failure limiter, whose check and record are a whole
  handshake apart.
* **A hand-written linked list** under eviction, expiry and reset.
* **Opening a tunnel**: six protocol layers, two cancellation callbacks, two
  deadlines and a peer that can fail at any message; what is reported must be
  true, and nothing may be left behind.
* **Answers nobody vouches for**: alias chains, mixed address sets and ECH lists
  decide what is dialled and which name is sent in the clear.
* **Frames on a shared connection**: a reader writes pongs between another
  goroutine's frames, and both can be cut off in the middle of one.
* **An identity file** that several processes may create at once and that a crash
  may leave half written.

What makes each part correct:

* limiter: the list and the map agree; the table is bounded; the victim of an
  eviction has an earliest window; a block ends;
* relay server: bounded, tracked target connections; bounded overshoot of the
  failure limit; a nil `Shutdown` has drained the server; cut-off sessions end
  and `Shutdown` returns;
* relay copy: success means every byte was delivered, and a peer is told of the
  end only after the last byte; interruptions have a cause and are reported as what
  they are; goroutines are joined; progress is not mistaken for idleness, unless its
  token still waits beside the expired timer and `select` prefers the timer; the
  relay ends unless bytes keep moving;
* local proxy: the channel of the last session is neither lost nor closed
  twice; streams are closed on every path; a nil `Shutdown` has drained it;
* tunnel client and relay session: an opened stream has no deadline left and a
  target behind it, a failed `Open` leaves nothing behind, errors and statuses
  say what has happened, no destination or address outside the rules is dialled;
* resolver and secure dialer: addresses come from the name asked for, the relay's
  name is concealed when ECH is required, a failed handshake is final, every
  attempt ends;
* WebSocket framing: each direction is a byte pipe; bytes stall only while both
  readers wait to answer a ping; Close ends every call;
* identity: one identity, never replaced, and every process ends up with it.

## 2. Modules

* `FailureTable`: what the limiter promises.  A count and a window age per
  source, and an eviction that may pick any earliest window.
* `AuthFailureLimiter`: the limiter with its pointers.  Each method holds the
  mutex throughout, so each is one action.  Window starts appear as ages, which
  stop at the window's length: the code only compares `now - start` with the
  window and starts with each other, and the list's order carries the latter.
  `RefinesTable` states that it implements `FailureTable` (same variable names,
  so the mapping is the identity on counts and ages and drops the list).
* `RelayServer`: one place per HTTP connection with a program counter, one
  label per access to shared state, in the order of `ServeHTTP` and its
  deferred calls; `Shutdown` and its waiting goroutine likewise.  It composes
  `FailureTable` through `INSTANCE`.  Handshakes, name resolution and dials are
  reduced to success or failure; what they depend on (a cancelled context, a
  closed connection) is kept.  `MCRelayServer` adds the symmetry of places.
* `RelayCopy`: `Copy`, two `copyDirection`, `watchRelay`.  Peers may send for ever,
  so bytes are not numbered: `unread` counts those on their way to the copy,
  `unwritten` the one it has read and not written.  `halfClosed` holds the
  connections whose peer has been told of the end; `HalfClose` may leave it as it is,
  because `halfCloseWrite` ignores `CloseWrite`'s error and passes over a connection
  without that method (`relay.go:112`).  `deadline` is the set of connections whose deadline lies in the
  past.  The idle timer and the time since the last `touch` are counters that
  stop at the timeout.  The timer's Stop, drain and Reset are one step: only
  the watcher reads the timer's channel.
* `LocalProxy`: as `RelayServer`, with `activeZero`.  The channel `Shutdown`
  holds is the current one, or one that was replaced while closed, or (the
  failure to look for) one that was replaced while open.
* `TunnelOpen`: `Client.Open`, `Upgrade`, `DialInnerTLS` and `proxyStatus` on one
  side, `AcceptInnerTLS`, `handleSession` and `TCPDialer` on the other, and two
  sequences of cells between them.  A control message is two cells (its length
  and its body), so a connection can break in the middle of one; a reset throws
  away what is unread.  The AfterFunc callbacks are unset, armed, running, done or
  stopped, so one that has been started may still set its deadline late.
  `Protocol` has the messages and their sizes, `Policy` destinations and
  allowlists (names as short character sequences, since label boundaries are
  what can go wrong), `Addresses` the address classes; `TunnelOpen` EXTENDS them.
  `OpenContract` is what `Open` promises its caller; `RefinesContract` maps `pc`,
  `target` and the session to it.
* `SecureDial`: the resolver's queries, `followCNAMEs`, the choice of the HTTPS
  record, `validateECHConfigList`, the loop over endpoints, the handshake and
  `verifyTransport`.  The resolver answers with any of the sets of records in
  `MCSecureDial`, honest or not, each time it is asked.
* `WebSocketConn`: two ends with a reading and a writing goroutine each.  A
  direction is a bounded sequence of headers and payload bytes; a masked byte
  remembers its key and position, so unmasking with another one gives garbage.
  `BytePipe` is what inner TLS needs of it, per direction: bytes in order, none
  added, until a write has failed.  The front end between the ends, which pings
  and splits messages, is external.
* `IdentityStore`: processes that start on one identity file, one action per
  system call of `loadOrCreateIdentity`, within the order in which `NewServer`
  and `NewClient` read token and identity.  Crashes, signals, failed calls and
  power failures are bounded by `Disturbances`.  `IdentityRegister` is a register
  that is written once; the identity counts as chosen when the file parses, and
  as durable when it was synced.
* `*Proofs`: the theorems of the module they are named after.

External code is modelled by what dproxy relies on: http.Shutdown closes the
listener, then returns when every connection is idle or hijacked, or with the
context's error; `WaitGroup.Wait` returns at zero and panics if it finds the
counter in use again after it was woken; a request's context ends when its
client leaves before Hijack; peers may send, close, stall or break at any time.  After a
power failure a file that was not synced may be shorter or gone with its
directory entry; one that was synced keeps its entry (the code does not sync the
directory, so this is an assumption on the file system).

Operators whose comment starts with "Mutant" are faulty variants of the
definition below them.  No specification uses them; each shows that some
property notices that fault.

## 3. Runs

| Run | Module, cfg | What it shows |
|---|---|---|
| `limiter` | `AuthFailureLimiter`, `Limiter.cfg` | list, bound, refinement of `FailureTable`, blocks end |
| `relay_shutdown` | `MCRelayServer`, `RelayShutdown.cfg` | bounded targets, graceful drain, WaitGroup misuse only after a timed-out http.Shutdown |
| `relay_admission` | `MCRelayServer`, `RelayAdmission.cfg` | bounded overshoot of the failure limit |
| `relay_liveness` | `RelayServer`, `RelayLiveness.cfg` | sessions in closeActive's snapshot end; `Shutdown` returns unless a session tracked after it relays on |
| `shutdown_hangs` | `RelayServer`, `ShutdownHangs.cfg` | violation: `Shutdown` can wait without bound |
| `relay_copy` | `RelayCopy`, `RelayCopy.cfg` | meaning of each result and each half-close, joins, no false idleness, the relay ends unless bytes keep moving |
| `local_proxy` | `LocalProxy`, `LocalProxy.cfg` | channel, streams, graceful drain, cut-off sessions end |
| `proxy_shutdown_hangs` | `LocalProxy`, `ProxyShutdownHangs.cfg` | violation: `Shutdown` can wait without bound |
| `tunnel_open` | `MCTunnelOpen`, `TunnelOpen.cfg` | usable streams, no leaks, only allowed targets, true reports, refinement of `OpenContract`, `Open` returns |
| `secure_dial` | `MCSecureDial`, `SecureDial.cfg` | traced addresses, concealed name, final failures, attempts end |
| `websocket` | `MCWebSocketConn`, `WebSocketConn.cfg` | refinement of `BytePipe` in both directions; bytes stall only while both readers wait to answer a ping, and Close ends that and every call |
| `identity` | `IdentityStore`, `IdentityStore.cfg` | refinement of `IdentityRegister` through crashes, everybody ends up serving |

**The two violations.**  The comments on both `Shutdown` functions say that the
sessions still running when the context expires are cancelled.  `closeActive`
copies the map once.  A session that enters the map after the copy is waited for but
never cancelled: `Shutdown` then lasts as long as that session's relay, up to the
idle timeout after its last byte, and for ever if bytes keep moving.

* In the relay server its request has passed the draining check before `Shutdown`,
  and there are two ways for it to be late.  It may be between Hijack and `track`
  (counted, not yet in the map) at the copy, while net/http no longer knows it.  Or
  http.Shutdown has itself run into the deadline and given up on a request that may be
  anywhere from the draining check on; it is counted, before `Wait` returns, and
  tracked later.
* In the local proxy it is past the draining check at the copy, and another session
  is still active.

The windows are short and need the deadline to pass inside them.  `Missed` is such a
session in its relay, tracked, not copied and not cancelled, with `Shutdown` at its
last receive; `ShutdownReturnsUnlessMissed` shows that this, for good from some moment on,
is all that keeps `Shutdown` from returning (besides the panic below).  The run
`shutdown_hangs` shows the first way.

**The panic.**  If http.Shutdown times out, a request past the draining check
may call `activeWait.Add` while `Wait` is waking up, which `sync.WaitGroup`
answers with a panic.  `PanicOnlyAfterTimeout` shows that it takes that timeout.

**What else the models show.**  These are consequences of the code which no comment
contradicts, or only in passing; the models contain them.

* With a ping to each end while both networks are full, both readers wait to
  write a pong that only the other reader could make room for
  (`websocket_conn.go:139`): nothing moves until a deadline or Close.
  `CallsReturn`, checked with a ping to each end, exempts this wait (`MutualWait`), which TLC
  reaches, and no other, and says that Close at one end ends it at both.
* `readHeader` formats the error below it with `%v` (`websocket_conn.go:185`), so
  neither `connectionReset` (`innertls.go:186`) nor a test for a timeout can see
  it: a refusal that arrives as a reset while the client reads is not reported as
  a rejected certificate, and a timeout there becomes a 502, not a 504.  A timeout while HELLO or OPEN is
  written keeps its type (`client.go:159`) and becomes a 504.  `ReportsAreTrue` holds
  either way: a 504 is answered only if the relay has not connected to the target.
* `max_control_message` may be as small as 256 (`config.go:145`), but an OPEN for a
  host of 253 bytes takes 258 and a HELLO grows with its token.  The relay then
  refuses such a HELLO without having read it, which is the exception to the
  comment at `innertls.go:183`.
* A CNAME answer of two hops without addresses, and an HTTPS answer that includes
  the record of its CNAME's target, are refused rather than followed.
* A crash between creating and finishing the identity file leaves one that no
  start accepts until the operator removes it; `EventuallyServes` says that this
  needs a write that was cut short, or a file that could be neither protected nor
  removed: `os.Remove`'s error is ignored (`identity.go:99`), and on Windows it fails
  while another process has the file open.  A process may report an identity another has
  written but not yet synced; a power failure in that moment can still undo it.
* The TTL that a resolution returns takes no minimum over earlier hops
  (`doh.go:180`), but nothing in the repository uses it.

**Bounds.**  `MaxSessions` 2 with three connections lets a session be refused
while two run; two connections are enough for every pair of a session and a late
arrival, and for the limiter's check-then-record (the bound on overshoot is
proved for any number).  The limiter has four sources for a table of three, so
entries leave the front, the middle and the end of the list, and insertion
evicts; a window of three ticks lets three windows differ in age.  Counts
from `MaxCount` up, which is above the limit, are not told apart, so failures may
go on arriving for ever.  `RelayCopy` has at most `MaxUnread`, one,
byte on its way to each copy, as many bytes as the peers care to send one after the
other, and an idle timeout of two ticks: enough for a byte in flight when anything
else happens, and for peers that never stop.  `authFailureLimit`, the window and the
capacity (10, one minute, 4096 in the code) are constants of the models, and
the proofs hold for all values.  `TunnelOpen` takes one setup per thing that can be
wrong (authority, allowlist, token, limit, certificate, pin) and one answer of the
resolver per kind of address set; names have at most six characters over a tiny
alphabet, which reaches every branch at a label boundary.  `SecureDial` has four
names besides an unrelated one and a limit of three alias hops, so chains below, at
and above the limit and cycles of every length occur.  `WebSocketConn` has a message
of two bytes per direction, a network of four cells that cannot hold a message and
a pong, a mask of two bytes, one ping to each end, and a client that is
interrupted (the server's calls end because it closes).  `IdentityStore` has three
processes (two servers, one client), a file of two blocks and two disturbances: a
crash and another fault during the recovery.  Places are interchangeable, and runs that use
this symmetry check invariants only.

**Fairness.**  Weak fairness of each goroutine that can run.  Before the relay,
every read, write, lookup and dial of a session has a deadline, so a handler
moves on; in the relay only a cut-off session is obliged to end, which is what
`RelayCopy` shows of `Copy` (`InterruptEnds`).  In `TunnelOpen` every deadline
passes in the end, since every step before the relay has one.  In `SecureDial` each
query and each dial has a timeout, so the sequential caller goes on.  In
`WebSocketConn` a goroutine that waits for the write lock gets it (`sync.Mutex`
hands it to whoever has waited long enough), hence strong fairness there; nobody
has to read on, ping or close.  In `IdentityStore` a supervisor starts a process
again; the operator need not come.  `Shutdown`'s context has a deadline
(`commands.go` uses `context.WithTimeout`), so `Expire` is fair.  `RelayEnds` assumes
that time passes (`TimePasses`) and says so in its statement, and exempts a relay
whose bytes move on for ever (`BytesMoveOn`), for every touch resets the idle timer.
Go's `select` chooses at random among the cases that are ready, so the watcher notices
the end of the context although progress keeps coming: `WatchContext` is strongly fair.
No peer is ever obliged to send, read or close, and nobody to connect or to
shut down.

Runs do not check deadlock where the system may stop: a server whose `Shutdown`
has returned, a `Copy` or an `Open` that has, a dial that has ended, ends that have
written everything, processes that serve undisturbed.  The liveness properties
say that nothing stops before.

## 4. Proofs

All theorems are of the form `Spec => []P` (or a refinement or action property)
for every value of the constants allowed by the named assumptions:

* `LimiterAssumption`, `ServerAssumption`, `CopyAssumption`, `StoreAssumption`: limits,
  windows and the identity's length are positive, `MaxCount` is at least the limit,
  the connections are finitely many, the nil pointer is no source and `None` no key;
* `SizesAssumption`: a mask has bytes, a read fits the network, no write is empty;
* `HopsAssumption`, `HostAssumption`, `AnswersAssumption`: the hop limit is a number,
  the host asked for is a name, and an answer's addresses have the fields of `netip.Addr`;
* `SetupsAssumption`, `LimitsAssumption`, `LookupsAssumption`: names are sequences of
  characters, a token is at least `MinTokenBytes` long and its HELLO fits the
  client's limit (`config/token.go` allows 32 to 4094 bytes and the client uses
  the default of 4096), every OPEN fits it too, and the relay's limit leaves room
  for its three-byte answers (`config.go` asks for 256).

* `AuthFailureLimiterProofs`.  The invariant says that some strict total order
  of the entries is spelled out by the pointers and followed by the ages.
  `insert` extends the order by a new maximum, `remove` restricts it; both are
  lemmas about lists, and the actions only combine them.  The refinement needs
  it because only the order makes `oldest` an earliest window.
* `RelayServerProofs`.  The invariant ties what a handler holds (token, count,
  map entry, target, hijack) to its label, counts labels to relate the semaphore
  and `activeWait` to the handlers, and says what http.Shutdown has left behind
  when it returned without error.  The bound on failures needs the count of
  unproven sessions per source beside the recorded failures: neither alone is
  inductive.
* `RelayCopyProofs`.  The invariant says that a direction whose copy has ended without
  error has delivered everything (`Streams`), follows a
  result from `io.Copy` through the channel to `failed` (with both
  `CleanCopyIsComplete`: nil and each half-close are told of complete streams only;
  it does not say that the half-closes took place, since they may fail unnoticed), traces every past deadline to a cause and every deadline
  error to a past deadline, and says that without a token the timer is no older
  than the silence (`Timed`), which is what makes `NoFalseIdle` an invariant of
  steps.
* `LocalProxyProofs`.  The invariant ties the map and the streams to the labels
  and says that after an error-free http.Shutdown nothing can be tracked any
  more, so the channel `Shutdown` fetched is the last one.

* `IdentityStoreProofs`.  The invariant: at most one writer, what it has written so
  far, and whoever holds an identity in memory holds the one in a file that
  parses.  The last part is what keeps a failed `Restrict` or the operator from
  removing an identity in use, since both act only on a file that does not parse.
  The refinement goes action by action through `RegisterStep`, which is the
  register's next-state relation with the mapping written out.
* `SecureDialProofs`.  The invariant says that every record used came from an answer
  received, that the name a resolution stands at is reached from the name asked
  for by the aliases received so far, and that `echRequired` guards every name a
  ClientHello exposes.  That a chain of aliases as long as the hop count exists is
  an induction over the hops, done as a least-counterexample argument.
  `BoundedQueries` is the bound in `AttemptEnds`, at any time.
* `TunnelOpenProofs`.  Eight parts, each with a lemma that every step keeps it.
  * `CallbackInv`: where the two AfterFunc callbacks have been registered and where
    they cannot start any more.  That both are stopped at "opened" is not
    inductive without it: a callback can be late only where its context has ended,
    and that is what `Recheck` looks at.
  * `SessionInv`: the relay decides once; a decision means that the session has
    ended or been cut off; the target is open in exactly two places.
  * `WireInv`, `SaidInv`: which cells may be on their way.  To the relay, only the
    messages that follow from the setup and the authority, and an end only last.  To
    the client, only cells that are true when they arrive: a 101 of a relay that has
    accepted, an alert of one that has refused the certificate, a code that is
    the answer, an OPEN_OK behind which there is a target, an end of a relay or network
    that is gone.  `SayableGrows` says that what was true stays true, because the relay
    never takes back what it has decided.
  * `SentInv`: the destination dialled is what `NewDestination` makes, for the second
    time, of the name in CONNECT; canonical names are fixed points (`Canonical`:
    a trailing dot would leave an empty label), so it is the same one, and
    `PatternCovers` relates the comparison from the end in `matches` to labels.
  * `StepInv`: until HELLO is answered, the client has sent the first `Sent(pc)`
    messages of a script and the relay has taken the first `Taken(spc)`.  Only with
    it can the client know what an end or a reset means: the relay cannot have
    refused a token before the client has sent it.
  * `TimeoutInv`: where a timeout is reported the relay cannot have connected: the
    client has not sent OPEN as a whole, so the relay has not read it.
  * `ReportInv`: what has been reported stays true.

  The theorems: `OpenedUsable`, `NoLeaks`, `AllowedDialed`, `TrueReports`, and
  `ContractKept`, the refinement.
* `WebSocketConnProofs`.  The cells under way and the rest of the frame being written
  are `Framed`: what is left of the frame being read, then whole frames, and to every
  place between two frames belongs a number of bytes, `base`, at which the payload of
  the frame behind it goes on.  `Dropped`, `Added` and `Divided` say that taking a
  frame or a part of one, adding one at the end and splitting one keep this, with
  numbers that are shifted, continued or inserted.  `Inv` adds who holds the
  lock (`Locking`: without it a pong could be put into a frame), that a header is
  looked for only where nothing is left of a frame (`Between`), and that the last
  frame ends with the last byte that has been framed (`InFrames`; a Write waiting for
  the lock has bytes that are not).  None of this is required after a failed write
  or read.  The theorems: `Invariant`, and `BytesPiped`, the refinement of `BytePipe` in both
  directions.

Only model-checked: every liveness property (`BlockEnds`, `SnapshotEnds`,
`ShutdownReturnsUnlessMissed`, `RelayEnds`, `InterruptEnds`, `OpenReturns`, `AttemptEnds`,
`CallsReturn`, `EventuallyServes`), because fairness and ENABLED are out of the prover's
reach; and the two violations.

## 5. Plan

Done: models of the limiter, the relay server, the relay copy, the local proxy,
opening a tunnel, resolving and dialling, framing, the identity file; proofs of
every safety property the passing runs check.  What is left: a directory that is not
synced, the identity file's entry as state of its own.

## 6. Not modelled

* Byte layout: DNS messages, TOML, PEM and X.509, the encoding of control messages
  and the length field of WebSocket frames, which the repository's own tests and
  fuzz tests cover.  TLS and ECH cryptography is its outcome.
* Configuration loading and validation: a pure function of files at start-up; the
  models take what it allows as constants.
* The rotation of bootstrap addresses in the resolver: a counter shared by
  concurrent dials that only chooses where to begin.
* `dproxy test` (diagnostics.go), which goes through the dialer's stages to print
  them; flags, logging, the operating-system calls behind private paths, release
  tools and scripts.
