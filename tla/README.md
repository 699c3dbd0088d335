# A TLA+ model of gotu

gotu is a Go toolbox for network servers: connections over TCP, UDP, KCP and
websockets with one callback interface (`pkg/xnet`), actors (`pkg/xactor`), a
message codec and command registry on top (`pkg/xmsg`, `pkg/xregistry`), and a
UDP tunnel built from these (`cmd/udp_tun`, with `pkg/xlatency`). This directory
models its concurrent parts in TLA+, checks them with TLC and proves the main
safety properties with TLAPS.

## 1. Inventory

| component | state | operations | interacts with |
|---|---|---|---|
| KCP connection: `kcp_mux.go`, `kcp_socket.go` | mux state, `initCh`, `closeCh`, `closeOnce`; `writeCh`, `closeFlag`, read cache, two loops | `newKCPSocket`/`init`, `SendMsg`, `Close`, `onMsg`/`inlineProtocol`, read and write loops | kcp-go session; the peer's mux; `releaseFn` of its server |
| KCP server and client: `kcp_server.go`, `kcp_client.go` | `sockets`, `mu`, `closeCh`; the client's current socket | `accept`, `Close`, `addSocket`, `deleteSocket`; `Reconnect` | KCP sockets, under `mu` |
| Actors: `pkg/xactor` | registry of names, mailbox, `closeCh`, wait group | `NewActorGroutine`, `GetActor`, `SyncRequest`, `AsyncRequest`, `Close`, `CloseAll`, ticks | callers through mailbox and per-request `resultCh` |
| UDP: `udp_server.go`, `udp_session.go`, `udp_socket.go`, `udp_client.go` | sessions by address, `activeAt`, `msgCh`, `writeCh` | datagram in, session create, expire, `SendMsg`, `Close`, `Reconnect` | socket loops call into sessions; the check loop closes them |
| TCP: `tcp_server.go`, `tcp_socket.go`, `tcp_client.go` | sockets map, `writeCh`, `closeCh` | `accept`, `Close`, loops, `SendMsg` | loops signal each other; the server's map through `releaseFn` |
| Websocket: `websocket*.go` | as TCP | as TCP; the HTTP handler waits for the socket | `net/http`, gorilla |
| Buffer pool, codec: `buffer.go`, `xmsg/codec.go` | cache of returned bytes | `get`, `put`; parse, pack | read loops |
| Latency mock: `xlatency/latency.go` | pending messages, counters | receive, tick, register | runs as an actor |
| Tunnel: `cmd/udp_tun` | per session: actor, client, statistics | `OnConnect`, `OnMsg`, `OnDisconnect` | UDP server, actor, UDP client |
| Registry, helpers, logs, demos | configuration only | | |

What is hard in it: every connection has two loops, the callers of `Close` and
`SendMsg`, and (KCP) the peer, all meeting in channels of small capacity;
`wg.Done` runs before some deferred functions and after others; closing is
requested by the application, a timeout, the peer and the server at once;
random `select`s decide between a message and a shutdown; mailboxes and write
channels fill up. `PROJECT.json` lists each such hazard at its line, with the
properties that watch it, or with the reason why none does.

What makes each component correct:

* KCP connection: the two muxes agree on the handshake and on the close; states
  only go forward; nobody blocks on the signal channels; `Close` returns; no
  goroutine or session is left; a message sent when its sender has done its
  part of the handshake does not overtake the handshake.
* Servers: a live socket is in the map and a dead one is not; `Close` returns
  and leaves no socket.
* Actors: one goroutine per name, as long as `CloseAll` does not meet an actor
  whose goroutine is not yet counted; a closed actor is gone; mails in order; a
  waiting request is answered once; `Close` returns.
* UDP: one session per address; a session's callbacks are `onConnect`,
  messages, `onDisconnect`, one after the other; expiry frees the address.
* Codec and pool: the messages delivered are the messages packed, whatever the
  cuts.
* Latency and tunnel: a packet is sent on at most once, in order without delay;
  the statistics agree and add up.

## 2. Plan

Modules, most important first:

| module | models | proved |
|---|---|---|
| `KCPMux` | one KCP connection, both ends | `KCPMuxProofs` |
| `Actor`; `Requests` (abstract) | the actor package | `ActorProofs` |
| `UDPSocket`, `UDPSession`; `UDPServer`, `UDPClient`; `SessionCallbacks` (abstract) | the UDP transport | `UDPProofs`, `UDPServerProofs`, `UDPClientProofs` |
| `Stream`; `TCP`, `KCP`, `Websocket`; `StreamSystem` | the three stream transports, their servers and clients | `StreamProofs` |
| `Latency`, `UDPTun`; `LossyLink` (abstract) | the tunnel over the latency actor | `UDPTunProofs` |
| `Framing`; `MessageChannel` (abstract) | messages to bytes to messages, the buffer pool | `FramingProofs` |

`StreamSystem` extends the three transports, which extend `Stream`; `UDPTun`
extends `Latency`; `UDPServer` and `UDPClient` extend `UDPSocket` and
`UDPSession`. Six detailed modules are shown to
implement an abstract one: `Actor` implements `Requests`; `UDPServer`,
`UDPClient` and `StreamSystem` implement `SessionCallbacks`, what a handler may
count on whatever the transport; `UDPTun` implements `LossyLink`, `Framing`
implements `MessageChannel`. `UDPTun` is moreover shown to ask of its server what
`SessionCallbacks` promises, so that the two fit.

Every safety invariant and every step property that a run checks is also a
theorem for all values of the constants. What is left: the latency percentiles
of `snmp.go`.

## 3. KCPMux: one KCP connection

### State and actions

`state`, `initCh`, `closeCh`, `once` are the fields of `kcpMux`; `writeCh` and
`closeFlag` those of `KCPSocket` (`closeFlag` stands for the flag and the closed
`closeCh`, which are set together under `closeForce`). `opener`, `reader`,
`writer`, `closer` are the program counters of the goroutines of an end;
`cache` holds messages `conn.Read` has returned, `todo` the statements left of
an `inlineProtocol` branch, `net[e]` what the session has still to deliver to
`e`.

| actions | code |
|---|---|
| `Open` | `newKCPSocket` up to the start of the loops; `onConnect` has the socket |
| `MuxInit`, `InitDone`, `InitTimeout`, `InitJoin` | `kcpMux.init` and the rest of `newKCPSocket` |
| `Read`, `ReadFail`, `ReadTimeout`, `HandleData`, `HandleInline`, `Disconnect`, `Release` | `readLoop`, `onMsg`, its deferred functions, `deleteSocket` |
| `HandleInline` with `Branches`, then `SendInline`, `SignalInit`, `SignalClose`, `CasLastAck`, `ReturnEOF` | `inlineProtocol`: the compare-and-swap of a branch, then its statements one by one |
| `CloseCall`, `CloseEnter`, `CloseSend`, `CloseSignalled`, `CloseTimeout`, `CloseAgain`, `CloseJoin` | `KCPSocket.Close`, `kcpMux.close`, `closeForce` |
| `SendMsg`, `Write`, `WriteFail`, `ConnClose` | `SendMsg`/`send`, `writeLoop` |

The session of vendored kcp-go is environment: in order and reliable while both
sessions are open. With `Faulty`, closing a session may lose any tail of what is
in transit, writes and handlers may fail and any timeout may fire at any time,
so a timeout needs no clock. The opposite, `Faulty = FALSE`, is an undisturbed
connection. How the byte stream is cut into messages is `Framing`; what the
server and the client around a socket do is `StreamSystem`.

`SendMsg` has no guard but the socket: `readLoop` gives it to `onConnect` before
`kcpMux.init` has begun, and `send` looks at no state. So the application may
send at any time from `Open` on. A message sent while the sender's part of the
handshake is not done (`InHandshake`) is "Early", any other "Data"; the code
treats them alike. An early message that meets an end which is not Established
makes `onMsg` fail, and the connection is dropped.

`Close` is only called after `newKCPSocket` has returned, by who has its result:
the interface `Socket` that the callbacks get has no `Close` (`common.go:49`).

### Runs

| run | shows | bounds |
|---|---|---|
| `mux_faults` | `TypeOK`, `SignalsFit`, `HandshakeAgreement`, `CloseAgreement`, `Monotone`, `CloseReturns`, `SocketStops` with faults, both ends closing | `writeCh` of 1, so that `send` fails; no application data |
| `mux_close` | `DataAfterHandshake`, `HandshakeCompletes`, `GracefulClose` without faults, both ends may close | one message each way, early or not, `writeCh` of 3 |
| `mux_both_close` | violation of `BothClosing` | no fault, both ends closing |
| `mux_drain` | violation of `AllWritten` | no fault, one message |

The protocol exchanges at most four messages each way and every loop is bounded
by them, so these instances contain every order of its steps; a larger
`WriteChanLimit` only removes failures of `send`, which the runs without faults
cover. `mux_faults` has no application data for its size alone: with one message
each way it has ten million states, too many for its liveness properties. Its
read loops may fail and its `writeCh` may be full at any moment anyway, which is
all that a message does to the mux, and the theorems hold for every `MaxData`.
The runs have the built-in protocol on; without it the proofs cover the
safety properties, and `mux.close` is the early return of `CloseAgain`.

`SignalsFit` says that the read loop never meets a full signal channel.
`HandshakeAgreement` and `CloseAgreement` relate the two muxes: an end that is
past the handshake has a peer that has taken part in it, an end told its close
is complete has a peer that has completed the same close. `Monotone` forbids a
state to go backwards whoever moves it. `SocketStops` says that once `closeFlag`
is set, or either loop has ended, both loops end and `conn` is closed.

`DataAfterHandshake` says that no message sent after its sender's part of the
handshake meets an end that is still in it, where it would end the connection.
It does not say that of an early message, because the code does not: sending
from `onConnect` may lose the connection. For the same reason
`HandshakeCompletes` and `GracefulClose` have the premise that the applications
are `Patient`, that is that neither sends before its part of the handshake is
done. `GracefulClose` also has the other end idle and the closing end silent
once it closes.

### Findings

* `mux_both_close`: the comments of `inlineProtocol` describe a simultaneous
  close, both ends going through Closing to TimeWait. `close` moves the state
  first and queues FinWait1 afterwards; when the peer's FinWait1 is read in
  between, Closing leaves before FinWait1, the peer has no branch for it, the
  connection ends with "inline invalid" and both `Close` calls wait out
  `kcpCloseTimeout`.
* `mux_drain`: the write loop's comment says the session is closed once all
  data has been written. `send` may still accept a message, with a nil error,
  after the last drain.

### Fairness

Weak fairness of each goroutine: the opener (its `kcpInitTimeout` included), the
reader's handling of what it has read, the writer's `conn.Write` and
`conn.Close`, and the goroutines in `Close` (`kcpCloseTimeout` included). A
goroutine that can run does run, and a `time.After` does fire. Nothing obliges
the application to send or close, a write to fail or the read deadline to pass.

### Proofs (`KCPMuxProofs`)

`TypeCorrect`, `StatesGoForward`, `HandshakeAgrees`, `SignalsAlwaysFit`,
`CloseAgrees` and `DataComesAfter` hold for all values of the constants. The
agreement of the two ends is not inductive: whether an end may take a message depends on what its
peer did when it queued it. `IInv` therefore states what every message *claims*
about its sender (`Claims`, `Vouched`) and requires it of every message in
`writeCh`, in `net`, in `cache` and of every statement left in `todo`
(`InTransit`, `Remainder`). `Signals` counts what `initCh` and `closeCh` hold
together with the signals still in `todo` against the state that allows them,
`CloseAgreed` ties a close signal to the peer's state.

`DataComesAfter` (`DataAfterHandshake`) is about the client's messages: the
client is through once the server's answer has come, and the server needs the
client's own answer first. Its invariant `OInv` follows that answer: SynSent has
left `writeCh` when the server's answer comes, so the client's finds room unless
early messages take it (`OneRequest`, `Preface`); the client has not been closed
meanwhile (`ClientCalls`, `StillOpen`); and while the server still waits and what
the client queues can still get there, data has one of the `Heralds` before it,
in `writeCh`, then in `net`, then in `cache` (`AnswerOrder`): the answer, which
makes the server Established, or an early message, which ends the server's read
loop, so that what follows is never handled. This holds with the smallest
`writeCh` and with faults too, where a full `writeCh` or a lost tail takes the
data along with the answer. Liveness stays with TLC.

## 4. Actor: the actor package

### State and actions

An element of `Actors` is one call of `NewActorGroutine`; several may bear one
name. `actors` is the registry of `manager.go`; `owner` the progress of
`NewActorGroutine`, `loop` that of `logicLoop`, `mail` and `box` the mail in
hand and the mailbox; `closer`, `as`, `closing` a goroutine in `Close` or
`CloseAll`, `closer` being "remove" between `wg.Wait` and `deregisterActor`; `caller`, `target`, `call`, `result` a goroutine in a request.

| actions | code |
|---|---|
| `RegisterActor`, `Start` | `NewActorGroutine`: the registry first, then `wg.Add` and `go` |
| `RecvMail`, `Handle`, `Ticker`, `Tick`, `BreakLoop`, `CloseState` | `logicLoop` |
| `Request`, `SendMail`, `Return`, `Cancel` | `SyncRequest`, `AsyncRequest`: `GetActor`, the channel send, the `select` on result and context |
| `CloseCall`, `CloseAll`, `Close`, `Wait`, `Deregister`, `CloseReturn` | `GetActor` and `Close` by the creator; `CloseAll`; `wg.Wait` and `deregisterActor` |

Either each creator closes its own actor (`Registry.OnDisconnect`) or one
`CloseAll` closes them (`actor_test.go`), whichever comes first in a behaviour;
mixing the two ways would close a channel twice and panic. A creator closes when
`NewActorGroutine` has returned. `CloseAll` comes at any time, and may find an
actor between `registerActor` and `wg.Add`. Its `wg.Wait` then returns at once,
`deregisterActor` frees the name, and the goroutine starts afterwards: `Start`
makes such an actor "late" (`Waited`). A late actor is closed already, but until
its `select` takes `closeCh` it handles mails, and another actor may by then be
served under its name.

### Runs

| run | shows | bounds |
|---|---|---|
| `actor_safety` | `TypeOK`, `OneLoopPerName`, `ClosedIsGone`, `NoPanic`, `RequestsSpec` | two actors of one name, one of which may be late, two callers of two cancellable requests, mailbox of 2 |
| `actor_live` | `CloseReturns`, `CallsReturn` | as above, one request per caller, mailbox of 1, so that callers block |
| `actor_async` | violation of `AsyncReturns` | |

Two actors of one name are what the registry can confuse; two callers and a
mailbox of one or two are what a full mailbox needs; two requests per caller are
what order needs.

`OneLoopPerName` says that two actors of one name are served at the same time
only if one of them is late, `ClosedIsGone` that an actor whose `Close` is over
is no longer registered and has no goroutine, unless it is late. The code does
not promise more.

`RequestsSpec` is the abstract specification `Requests`: what those who use
actors may count on. An actor is served at most once, and never while another of
its name is, unless one of them has been dropped, that is closed before it was
served; it handles what it was asked in that order, one request at a time
and each once; a caller that waits has its answer when its own request is
handled, and leaves with it, or without it where it may cancel. The mapping: an
actor is served while its `logicLoop` and `state.Close` run, it has been asked
the mail in hand and then its mailbox (`Unhandled`), and a caller that is still
waiting for room in the mailbox has not yet asked. An actor is dropped (`Drop`)
when its `wg.Wait` returns before `wg.Add`. Registry, `wg`, `closeCh` and
the goroutines in `Close` are hidden. `RequestsSpec` implies `InOrder` and
`CallAccounted`, which are theorems and in no run.

### Finding

* `actor_async`: `handler.go:62` says an async call does not block. `sendMail`
  is a plain channel send; it waits while the mailbox is full, and for ever if
  the actor is closed between `GetActor` and the send.

### Fairness

Weak fairness of every goroutine; strong fairness of the mail and close
branches of the `select`, because Go chooses at random among the ready
branches; strong fairness of `SendMail`, because goroutines waiting on a channel
are served in order. Cancellation is never required to happen.

### Proofs (`ActorProofs`)

`TypeCorrect`, `OneLoop`, `ClosedGone`, `ClosedOnce`, `MailsInOrder`,
`CallsAccounted`, `OwnAnswer` and `KeepsPromise` (`RequestsSpec`) for any sets of
actors, names and callers and either way of closing. `OneLoopPerName` alone is not
inductive, since nothing in it says why the name is still taken while a
goroutine runs. `IInv` says that an actor is in the registry exactly while it is
`Held`, from `registerActor` to `deregisterActor`, that a goroutine that was
counted in time is over when `wg.Wait` has returned (`Loops`), and that the one
goroutine `CloserOf` names closes the actor, once (`ToClose`, `WaitsFor`,
`IdleOpen`, `ClosedAlive`). An actor that is served and not late is therefore
`Held` (`ServedHeld`).

For the requests, `Mailing` looks at the mail in hand and the mailbox of an actor
as one sequence, `Unhandled`: sending appends to it, receiving leaves it alone and
handling takes its head. The mails of one caller in it have increasing numbers
(`AllOrdered`), none is newer than the caller's present request, which is only
with the actor that was asked (`AllKnown`), and a waiting caller has a result
exactly when its mail is no longer there (`Results`). From it follows the step
property `AnswersOwn`: a result is given in no step but the one in which the
actor that was asked handles this very mail, so that the answer to a request that
was abandoned is never taken for that to the next one.

`KeepsPromise` combines the two. `Start` is a step `Serve` because an actor that
is `Held` is alone under its name (`StartServes`), or else was dropped by `Wait`
(`WaitDrops`); `CloseState` is `Retire`,
`SendMail` is `Ask` (`SendAsks`), `Return` and `Cancel` are `Leave`, every other
step a stutter (`RequestHidden` and the lemmas on `Unhandled`). The step that
needs the invariants is `Handle` (`HandleShows`): the code tells the caller of
the mail in hand, `Requests` tells whoever waits for this very request, and
`AllKnown` and `Results` say that these are the same. Liveness stays with TLC.

## 5. UDP: server and client

### State and actions

`UDPSocket` and `UDPSession` declare the state of `udp_socket.go` and
`udp_session.go` and one action per statement that matters; `UDPServer` and
`UDPClient` extend both and add the goroutines that call them.

| module | state | actions |
|---|---|---|
| `UDPSocket` | `conn`, `sockClosed` (`closeCh`), `reader`, `writer`, `writeCh`, `writeErr` | `readLoop`, `writeLoop` with its drain, `sendMsg`, `forceClose`, what `close` waits for |
| `UDPSession` | `loop`, `msgCh`, `sessClosed`, `active` (`activeAt` against the clock) | `handlerLoop` with the three callbacks, `recvMsg`, `forceClose`, what `Close` waits for |
| `UDPServer` | `sessions`, `stored` (`svr.sock`), `rcv`/`from`/`got` in `udpOnMsg`, `check`/`expires`/`expiring` in `checkLoop`, `svr`/`toClose`/`closing` in `Close` | `NewUDPServer` in two steps, `udpOnMsg` in three, `checkLoop`, `Close` |
| `UDPClient` | `cli`, `app` (the owner), `check`, `once` of each connection | `newBuiltInUDP`, `udpOnMsg`, `checkLoop`, `forceClose`, `Close`, `Reconnect`, `SendMsg` |

`svr.mu` is held by `Close` while it closes the sessions and by everyone else
within one step, so `MuFree` is a condition on `svr`. The network may deliver
any datagram, fail any read and any write; the clock may pass a session's
timeout at any moment. `wg.Done` runs before the read loop's `forceClose` and
before the write loop's `conn.Close`: the states "exit" are in between.

Both sides start the read loop before the field it uses is set (`svr.sock`,
`biudp.session`). A first datagram in that window panics; `LoadPanics` and
`NilSessionPanics` model it, and nothing happens after them.

### Runs

| run | shows | bounds |
|---|---|---|
| `udp_server` | `CallbacksSpec`, `Tracked`, `DrainedOnClose`, `CloseIsFinal`, `CloseReturns`, `DeadSessionExpires` | one address, two sessions, channels of 1 |
| `udp_client` | `OldIsGone`, `CallbacksSpec`, `TornDown` | two connections, one replacing the other, data over the first (`Busy`), `writeCh` of 2, `msgCh` of 1 |

Two sessions are what one address can confuse and what `Close` and `checkLoop`
can have to go over; a datagram that would need a third is dropped
(`DropDatagram`, the only step of the model that is not in the code). A full
channel is reached with one element, and everything the code does to it then.
With a `writeCh` of 2 a sender can keep it from ever being empty. The client's
second connection carries no data in the run; the theorems have no such bound.
The type invariants are proved, so no run repeats them.

`CallbacksSpec` is the abstract specification `SessionCallbacks`: what a handler
may count on. The sessions of an address begin one after the other, each once;
each runs `onConnect`, then `onMsg` for one message after the other, then
`onDisconnect`. The mapping: a session has begun when its goroutine was started,
and at an address run the sessions of that address whose goroutine is in
`handlerLoop`, with the callback it is in (`RunningAt`). It implies
`OneSessionPerAddress`, the invariant its proof rests on. A client is to its
handler a server of one address whose sessions are its connections (`Begun`,
`RunningNow`): `onDisconnect` of a connection is over before `onConnect` of the
one that `Reconnect` puts in its place.

`CloseReturns` and `TornDown` have a premise: others stop sending.
After `closeCh` the write loop ends only when it finds `writeCh` empty, while
`sendMsg` may still take the room it makes, so `close` can wait as long as some
goroutine that kept the session goes on sending. `DeadSessionExpires` has no
such premise: a session whose handler failed keeps receiving datagrams, but
once `msgCh` is full nothing refreshes `activeAt`.

`CloseIsFinal` says nothing of a session that is created after `Close` has gone
over the map and before the socket is closed: the code never closes it.
`Tracked` says it is at least in the map.

### Fairness

Every goroutine weakly fair, the clock too; a read fails once `conn` is closed;
`closeCh` in a session's and in the check loop's `select` strongly fair, since
Go chooses at random among ready branches. Handlers return but never have to
fail; no datagram has to arrive, no write to fail, nobody has to call `Close`.

### Proofs (`UDPServerProofs`, `UDPClientProofs`)

`UDPProofs` has the type lemmas of the socket and of the session that both use.

Server: `TypeCorrect`, `SessionsTracked`, `OnePerAddress`, `RunsCallbacks`
(`CallbacksSpec`), `Drained` and `CloseIsOver` (`CloseIsFinal`) for any sessions,
addresses and capacities. `Tracked` needs to know what the map holds while each
goroutine is halfway: `IInv` adds that the map sends an address to a session of
that address (`MapAgrees`), that the address `udpOnMsg` is adding to is still
free and its goroutine still inside the read loop (`Adding`), and that what
`checkLoop` has still to close is still in the map (`ExpiresInMap`,
`ExpiringInMap`), so that `delSession` frees the address of the session it
joined and no other. Steps that touch none of this are shown `Quiet` once.
`Drained` has its own small invariant: a loop that has ended without an error
has seen `closeCh` closed and `writeCh` empty, and what `sendMsg` adds later is
not counted. For `RunsCallbacks` every step is a step of `SessionCallbacks` or a
stutter: `NewSession` begins a session at an address where none is alive, and a
step of `handlerLoop` is one of the session that is alone at its address
(`RunningMoves`). `CloseIsOver` adds to `IInv` what `Close` has behind it at each
place: a session that is told to close is over, or else the one that told it
waits for it (`ClosedJoined`); the socket's loops, once over, stay so, since
`udpOnMsg` runs only inside the read loop (`SockOver`, `SockStays`); the check
loop was started before `Close` and ends before it returns.

Client: `TypeCorrect`, `ReconnectAlone` (`OldIsGone`) and `RunsCallbacks`
(`CallbacksSpec`) for any number of connections. `OldIsGone` speaks of the read loop of the new connection, which
starts a step after the close has returned, so `IInv` says what holds in
between: the owner knows the number of the last connection and makes only the
next one (`Numbered`), `closeOnce` moves on only past what it waits for
(`OnceWaits`), and all connections before the last, and the last while dialling,
are `Gone` (`OldGone`). The lemma `Over` shows that what has ended stays so.
`RunsCallbacks` adds that a connection whose number is still to come has not
begun (`Unbegun`): `NewSession` then begins one where, by `OldGone`, none is alive
(`NewSessionBegins`), and only the last connection can be alive (`LastLives`), so
a step of a `handlerLoop` is one of the session that is alone (`SessionContinues`).

Liveness stays with TLC.

## 6. Stream transports: TCP, KCP and websocket

### State and actions

`Stream` has what the three have in common: a socket's loops (`reader`,
`writer`), `writeCh`, `closeCh`, the connection, the server's map, `accept`, the
goroutine that calls `Close` or `Reconnect` (`svr`, `cur`, `gone`). `TCP`, `KCP`
and `Websocket` have what is their own: the order of the deferred functions and
of `wg.Done`, who closes what, what `waitMsg` and the last write do, how the
server's `Close` uses its mutex. `StreamSystem` chooses a transport (`kind`) and
a side (`role`) at the start and puts the parts together.

| actions | code |
|---|---|
| `Receive`, `ReadEnd`, `ReadLoop` | `readLoop`, its callbacks and deferred functions |
| `WriteLoop`, `WriteFail`, `Send` | `writeLoop` with `waitMsg`, `write`; `SendMsg` |
| `NewConn`, `Handler` | `accept` with `addSocket`, or the HTTP handler |
| `ServerCall`, `ServerClose` | the server's `Close` |
| `Dial`, `DialFails`, `KCPDialed`, `KCPDialFailed`, `ClientCall`, `ClientJoin` | `newSocket`, `Close`, `Reconnect` |

A message in `writeCh` is "early" or "late", accepted before or after `closeCh`
was closed, or "empty": an empty batch ends the write loops of TCP and of the
websocket (`broken`). KCP's handshake is `KCPMux`; here it succeeds or fails.

### Run

`stream_system` checks `TypeOK`, `SocketsExact`, `FlushedOnClose`,
`CloseIsFinal`, `SocketStops` and `CloseReturns` over the three transports and
both sides, two sockets each, the first carrying data, `writeCh` of 1. Two
sockets are one that `Close` has in hand and one that comes or goes meanwhile,
or an old and a new one of a client.

The properties speak of what the code does and say where it stops:

* a socket that is released before `addSocket` stays in the map ("stale");
  `SocketsExact` says that it keeps no other;
* `KCPServer.Close` keeps the mutex while it waits for `accept`, which may wait
  for it in `addSocket` (`Deadlocked`); `CloseReturns` and `SocketStops` say
  that nothing else keeps them;
* a TCP or websocket connection accepted while `Close` goes over the map is
  never closed, and `accept` may return with one in hand (`Drop`);
* a client whose `newKCPSocket` failed in `Reconnect` holds a nil socket, which
  the next call dereferences (`svr = "panic"`);
* liveness has the premise `Quiet`: `CloseRead` does not stop a peer whose data
  is on the way, so the peer has to pause, and a websocket's write loop drains
  `writeCh` until it is empty, so senders have to.

### Fairness

Every goroutine weakly fair; the `closeCh` branch of a write loop's `select`
strongly fair, since Go chooses at random. A read returns or its deadline
passes; nobody has to connect, send or close, no write has to fail.

### Proofs (`StreamProofs`)

`TypeCorrect`, `MapExact` (`SocketsExact`), `CloseFlushes` (`FlushedOnClose`),
`CloseIsOver` (`CloseIsFinal`), `JoinedForGood` and `RunsCallbacks`
(`CallbacksSpec`), for any number of connections, any capacity of `writeCh` and
any traffic.

* `MapExact`: the invariant adds `StaleReleased`: a "stale" socket, the one kept
  in the map after its `deleteSocket`, has been released.
* `CloseFlushes`: past `closeCh` what is sent is late, and a write loop at its
  last write has nothing early left (`Flushing`).
* `CloseIsOver`: a socket is started once, so loops that are out stay out
  (`JoinedForGood`). What `KCPServer.Close` finds in the map it waits for
  (`GoneJoined`, `DeletedJoined`). What it does not find is still in the hands of
  `accept`, which adds one connection at a time and last (`AddedLast`,
  `OnePending`, `AllFound`). A client dials only when its socket and all earlier
  ones are out (`OneSocket`). `Final` is the conjunction.
* `RunsCallbacks`: the stream transports implement `SessionCallbacks` too. A
  session is a socket, begun when its read loop has started, alive until its
  `onDisconnect` has returned (`InCallbacks`, `Callback`). The sockets of a server
  are each at an address of their own; those of a websocket client are at one,
  since its read loop calls `wg.Done` only after `onDisconnect`, so that by
  `OneSocket` none of its earlier sockets has a callback left when it dials
  (`AloneAtPeer`). A TCP or KCP client does not keep this: `wg.Done` runs before
  the deferred `onDisconnect`, so its sockets are at addresses of their own and
  nothing is said of the order between them (the hazard of `kcp_socket.go:87`).
  No run of its own: as a property of `stream_system` it
  makes the run half as long again and says no more than the theorem.

`SocketStops` and `CloseReturns` are liveness and stay with TLC.

## 7. Latency and UDPTun: the tunnel

### State and actions

`Latency` is the actor of `latency.go`: `registered`, `loop`, `closing`,
`mailbox` of the actor, `sendTo` the send functions registered, `pending` the
packets of `l.msgs`, `packets`, `lost` the counters, `sent` what has left.
A direction is "in" (from the remote client to the proxied server) or "out".
Loss and delay are free choices; only the directions in `Delayed` have latency.

`UDPTun` runs `OnConnect`, `OnMsg` and `OnDisconnect` of `registry.go` statement
by statement (`stage`), with the callbacks of the `UDPClient` in its own
goroutine (`client`) and the statistics of `snmp.go` (`snmps`, `recv`, `total`),
for one remote address and any number of its sessions, one after the other. That
they do follow one another, and that a closed client runs no more callback, is
what `RunsCallbacks` (with `SessionCallbacks`) and `ReconnectAlone` prove of the
modules below.

| actions | code |
|---|---|
| `NewSession`, `ConnectSnmp`, `ConnectActor`, `ConnectDial`, `Ask`, `Answer` | `OnConnect`: statistics, actor, client, two `SyncRequest`s |
| `OnMsg`, `OnMsgFails`, `OnMsgSend` | `OnMsg` |
| `ClientOnMsg`, `ClientEnds`, `ClientSend` | the client's `OnMsg`, its end |
| `Expire`, `CloseCli`, `CloseSnmp`, `Close`, `CloseReturn`, `DelSession` | `OnDisconnect` and the server's removal of the session |
| `HandleRegister`, `HandlePacket`, `Ticker`, `Forward`, `TickEnd`, `BreakLoop` | `logicLoop` with the handlers and `tickLoop` |

The clock does not go back: without latency every packet is due at the next
tick. `Forward` takes one packet of the tick's loop at a time.

### Run

`udp_tun`: two packets each way over two sessions, a mailbox of 2, "out"
delayed, "in" not. It checks `ActorServes`, `CountsAgree`, `TotalIsSum`,
`ServedIsForwarded`, `DisconnectReturns` and `LinkSpec`. Two packets are what
order needs, two sessions what a name or a statistic left over needs.

`LinkSpec` is the abstract specification `LossyLink`: a packet is sent on at
most once, and in order where there is no delay. The mapping is the identity on
`offered` and `sent`, `Ordered` is `Dirs \ Delayed`; everything else is hidden.

After a failed `NewUDPClient` `OnDisconnect` dereferences nil (`CloseCli`,
"panic"); `DisconnectReturns` leaves that case out. Packets that come before
`OnConnect` has registered both send functions are dropped, as in the code;
`ServedIsForwarded` says that none is later.

### Fairness

The callbacks weakly fair, `OnDisconnect` and the sends to the mailbox strongly
fair (goroutines waiting on a channel are served in order), the branches of the
actor's `select` strongly fair (Go chooses at random). No packet has to come, no
session has to expire.

### Proofs (`UDPTunProofs`)

`TypeCorrect`, `IsLossyLink` (`LinkSpec`), `ActorAlwaysServes`,
`TotalIsTheSum`, `CountsAlwaysAgree`, `ServedForwards` (`ServedIsForwarded`) and
`IsServed` (`ServerSpec`), for any sizes, sets of delayed directions and numbers
of sessions. The invariant says at which stages the actor
and the client live (`Lives`), when the statistics exist (`SnmpLives`), and, for
the refinement (`LinkInv`), that a packet is in one place at a time: in hand, in
the mailbox, in `pending` or in `sent`, each later in this list with a smaller
number where order is kept.

`ServedForwards` rests on what is registered: `OnConnect` waits for the answer to
each registration, an actor forgets none while the session has it, and only
`tickLoop`, which finds the function there, or a new actor takes packets out of
`pending`. `IsServed` maps `stage` to the states of `SessionCallbacks` at the one
address modelled: the tunnel assumes of the server's callbacks no more than
`RunsCallbacks` proves of the server. No run checks it. Liveness stays with TLC.

## 8. Framing: messages, bytes, messages

### State and actions

One direction of a TCP or KCP connection whose mux is Established. A byte is a
number: the bytes of a payload name their message, those of a header hold its
`Len`, and with `isInline` (KCP) one byte in front tells the mux's messages from
the application's. `cache` and `lent` count what `bufferPool` holds.

| actions | code |
|---|---|
| `SendMsg`, `sendInline` | `xmsg.PackMsg`, `kcpMux.packMsg` and the channel send |
| `WaitMsg`, `Write`, `WriteFails` | `writeLoop`: `waitMsg` joins all there is, `write` in parts |
| `Read`, `ReadFails` | `readLoop`: `get`, `conn.Read` of any part of what is under way, `put` of the rest |
| `HandleMsg`, `HandleInline`, `CutInline`, `KeepCache` | `onMsg`, `ParseMsgWarp` and the inner loop of `readLoop` |

`onMsg` asks whether a whole message of the application is there, but not
whether a whole inline message is. `CutInline` is that case: it reads past the
end of the cache, and the read loop ends with an error or panics.

### Run

`framing`: three messages, payloads of 0, 1 and 3 bytes or an inline exchange of
3, headers of 2, buffers of 4, `writeCh` of 2, with and without the mux. Every
way of joining three messages and of cutting the result into reads and writes
occurs, within a header, at its end and across a buffer's end.

`ChannelSpec` is the abstract specification `MessageChannel`: what is sent is
handled whole, in order and once, until the connection breaks, and as long as it
does not nothing waits for ever. `sent` is `accepted`, `open` is that the read
loop has not ended. `PoolBalanced`: every byte of a buffer goes back to the
pool once, so no buffer is handed out while its bytes are still in use.

### Fairness

The loops weakly fair, and so is the delivery of what has been written. A read
fails for certain only when the writer is gone and all it wrote has been read
(the end of the stream, or the read deadline). Writes need not fail.

### Proofs (`FramingProofs`)

`TypeCorrect`, `PoolAlwaysBalanced` and `ChannelSafe` for all sizes.
`PoolBalanced` is inductive with the types; its arithmetic is `PutBalances`.
`ChannelSafe` is the safety part of `ChannelSpec`: the initial states and every
step of `MessageChannel`. Its invariant looks at the bytes between the write
loop and the handler as one sequence, `Wire`, which writing and reading do not
change (`WriteMoves`, `ReadMoves`): it is the packed messages that have left
`writeCh` and have not been handled, one after the other (`Framed`: there are
offsets at which they begin and end). A message joins at the end (`FramedJoin`)
and leaves at the front (`FramedLeave`); `NextMessage`, `MsgIsNext` and
`InlineIsNext` show that what `onMsg` and `ParseMsgWarp` find at the front of
the cache is the next message, however little of the rest has arrived. The
liveness part of `ChannelSpec` stays with TLC.

## 9. Not modelled

Left out: logging, environment and table printing, the demo programs, the
command registry (filled before the servers start and only read afterwards),
wait groups beyond `sync.WaitGroup`, vendored code, and the inside of handlers;
of the statistics, percentiles and byte counts. `net/http`, gorilla's websocket,
kcp-go and the network are environment.

## 10. Running

    tlc -config mux_faults.cfg MCKCPMux
    tlc -config actor_safety.cfg MCActor
    tlc -config udp_server.cfg MCUDPServer
    tlc -config udp_client.cfg MCUDPClient
    tlc -config stream_system.cfg MCStreamSystem
    tlc -config udp_tun.cfg MCUDPTun
    tlc -config framing.cfg MCFraming
    tlapm KCPMuxProofs.tla

and the same for `ActorProofs`, `UDPServerProofs`, `UDPClientProofs`,
`StreamProofs`, `UDPTunProofs` and `FramingProofs` (`UDPProofs` has the lemmas
that the two of UDP share). Every safety invariant and step property of a passing
run is a theorem. Liveness, that of `ChannelSpec` included, holds
for the instances of the runs.

`PROJECT.json` maps every definition to the lines it stands for and gives, for
every property, a mutant of the code that breaks it.
