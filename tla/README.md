# A model of `lager-net`

`lager-net` is the Rust client of a Lager box: a computer on a test bench that
holds instruments (power supplies, scopes, debug probes, UARTs, robot arms) and
serves them over HTTP on port 9000, over Socket.IO and WebSocket for streams,
and over a debug service on port 8765. The box may stand behind an
authenticating gateway. The crate has a blocking client (`LagerBox`, ureq) and an
async twin (`AsyncLagerBox`, reqwest and tokio) that share their request
builders and parsers (`src/src/wire.rs`).

The crate keeps little state, but the state it keeps is shared: tokens between
threads and processes, a record cache between clones of a handle, a lock between
people, saved nets between programs, credits with a daemon, bytes with callbacks.
This directory models that state and the steps that change it, in TLA+. TLC
checks the models on small instances; TLAPS proves the safety properties of nine of
the ten components for every instance.

Paths below are relative to the repository, `src/src/` being the crate's own
`src/` directory.

## 1. Inventory

For each component: the state it keeps, its operations, what it interacts with,
what is hard about it, and what makes it correct.

### Gateway auth (`auth.rs`, `with_gateway_auth` of both clients)

*State*: behind a mutex, per client and its clones, the auth server learned and
the token last used; on disk, `gateway_auth.json`, one store for all processes
of the user, with a mapping box → auth server and per auth server a token and
the session cookies; at the auth server, the one refresh cookie it still honours.
*Operations*: `current_token`, `resolve_token`, `resolve_token_fresh`,
`refresh`, `learn_auth_server`, `cache_token`, the retry of `with_gateway_auth`,
and `bearer_token`, which is two `current_token`s around a look at what the client
knows and a probe.
*Interaction*: the auth server (refresh rotates the cookie), the gateway (401 and
403 with a discovery header), `lager login`, other processes through the store.
*Hard*: the store is read, edited and rewritten whole with no lock; between
reading a token and caching one another thread may have done the same; a refresh
answer may be lost after the rotation; a call retries once.
*Correct when*: the retry carries a credential of the server that named itself in the
denial, and never the rejected one out of the store; tokens are filed under their issuer; nobody is told
to sign in while a good token is on disk; rotated cookies reach the disk; a
pinned token neither touches the store nor is retried; `bearer_token` says "no
token needed" of a plain box only.

### Debug tunnel (`tunnel.rs`, `debug_tunnel` of both clients)

*State*: the socket, the head read so far, the deadline of the wait for a GDB
server. *Operations*: CONNECT, byte-wise reading of the head, classification,
the token retry, the wait, the direct connection to a plain box.
*Hard*: what a 502 means depends on a header; the server's first bytes may
arrive with the head; the deadline and the server's start race; a refusal must
not be turned into a direct connection to the published port.
*Correct when*: no byte after the head is lost, a server that starts in time is
waited for, no try begins after the deadline, a refusal read whole is never bypassed,
and the error names what the caller can do.

### Streaming sessions (`nets/uart.rs`, `nets/rtt.rs`, `nets/sio.rs`)

*State*: a channel filled by Socket.IO callbacks, a buffer, the socket, and at the
box the one session it serves per net. *Operations*: `connect`/`open`, `read`,
`try_read`, `wait_for`, `write`, `stop`, drop; in the async twin the drop of any
future. *Hard*: writes given up on go on in threads of their own; data, status and errors interleave on one channel; an error
follows data already absorbed; the needle straddles events; a timeout of
`open` races the box's acceptance; the blocking open of the async twin goes on in
a thread when its future is dropped.
*Correct when*: the bytes come out once and in order; `wait_for` ends at the first
occurrence of its needle and says Timeout only when it is not there; nothing
waits past its timeout; the net is free after the session; a write that has
returned is not overtaken by a later one.

### One-way RTT stream and its decoders (`stream_debug_once` of both clients, `chunked.rs`)

*State*: the answer's head; decoder state, bytes left in the chunk, the partial
size line. *Operations*: the request and what its status, version and framing
lead to; `ChunkedReader::read`, `AsyncBody::poll_read` (three framings); reading a
refusal's body. *Hard*: the debug service frames by hand under HTTP/1.0, a gateway
passes it on under HTTP/1.1, and ureq undoes the one framing and not the other;
any split of the bytes; a close anywhere. *Correct when*: a stream is the body the
box framed, framing never as payload, at every split; a truncated body is never
complete; a busy probe is told as one.

### Debug net handle (`nets/debug.rs`)

*State*: one cached record of the net, shared by clones, locked for each access
but not over an operation. *Operations*: `net_record`, `call`, `clear_record`, the
feature gates, `flash`, `rtt_with` and some twenty operations on `call`.
*Hard*: the net is re-saved while operations of several clones are between
reading and writing the cache; async futures are dropped. *Correct when*: a
failure leads to a fresh record on retry, and clones cannot keep a stale one alive.

### Box lock (`lock*`, `unlock*`, `BoxLockGuard`)

*State*: at the box, user, holder type, TTL and heartbeat; in a program, the
guard. *Operations*: `lock`, `lock_with`, `lock_heartbeat`, `unlock`,
`unlock_force`, `lock_guard`, drop. *Hard*: lost answers, releases that time out
and are served later, programs that die, expiry, two programs of one user.
*Correct when*: a living guard has the lock; nobody loses a lock but by force or
expiry; only an unanswered call or a dead program leaves the box locked.

### Saved nets, safety limits and metadata (`client.rs`, `wire.rs`, `admin.rs`)

*State*: at the box, the records of the nets. *Operations*: `nets`,
`safety_limits`, `set_safety_limits`, `clear_safety_limits`, `save_net`,
`rename_net`, `delete_net`, `delete_all_nets`, `set_net_metadata`, and net roles and box
metadata. *Hard*: most of them read a list, change one thing and send the whole;
a limit may be there, absent or null; the older list shows UART nets only.
*Correct when*: a change leaves everything else as another program left it, and
no ceiling disappears that nobody lifted, as long as no request is served late.

### Scope trace stream (`nets/scope_trace.rs`, `nets/scope.rs`)

*State*: the WebSocket, and at the daemon the subscription, the credits and the
newest capture. *Operations*: `Scope::stream`, `next_capture`, `capture`, `close`.
*Hard*: captures, replies and notices share the socket; timeouts and decoding
errors come between a capture and its credit; a frame cut short may still look
like one (`ScopeCapture::decode`, LSCP/1). *Correct when*: no credit is lost
or made up, what is read of a capture is what was measured, captures never go backwards, the single capture is the latest one, and
a reader that keeps reading catches up.

### Answers, parsers and compatibility rules (`wire.rs`, `error.rs`, both clients)

*State*: none. *Operations*: `send_once`, `get_json`, the parsers of the envelopes,
`require_debug_feature`, `run`, `run_admin`, `Admin::download_file`, the fallback of `nets`. *Hard*: errors hide in status
200; an old box and a missing net are both 404; an old debug service takes the erase of a
range for one of the whole chip. *Correct when*: Ok means done; an
old box is called old, a current one is not; what an old box would misread is never
sent to it. A flash by a debug service too old to give a verdict is Ok without one.

### Net handles and their request budgets (`nets/*.rs`, `admin.rs`, `Timeout` in `wire.rs`)

*State*: none in the client; at the box, a queue per instrument. *Operations*:
the methods of some twenty kinds of handle, and of `Admin`. *Hard*: a call waits for its own
duration and a margin, and queues behind the calls of others; a request the client
has given up on goes on occupying the instrument. *Correct when*: a call that has
the instrument to itself is served; the margin covers a queue of one, as far as the
default waits allow; a wedged instrument does not hang a caller whose call has a timeout.

### The rest

`admin.rs` otherwise (drivers, binaries, files, devices, diagnostics), the builders
and configuration of the clients, the payload types, and tests, examples and CI. See
section 8.

### Interaction

```
 caller ── handle (nets/*) ── LagerBox / AsyncLagerBox ──┬─ HTTP 9000 ── gateway ── box
              │ record cache       │ with_gateway_auth   ├─ HTTP 8765 (debug, chunked RTT)
              │                    │                     ├─ CONNECT / TCP (debug tunnel)
              │               GatewayAuth ── store file  ├─ Socket.IO (UART, RTT sessions)
              │                    └── auth server       └─ WebSocket (scope daemon)
          guard (box lock), saved nets: shared by programs, at the box
```

## 2. Plan and order of the modules

In the order of what it would cost to get it wrong:

1. `GatewayAuth` — state shared by threads, clients and processes; its proofs.
   `BearerToken` on top of it, with the proof that it implements it.
2. `DebugTunnel` — one call, many kinds of peer, time.
3. `StreamSession`, which implements the abstract `BytePipe`.
4. `DebugRecordCache`, with its proofs; `BoxLock`; `NetRecords`, which builds on
   what `BoxLock` promises; `ScopeStream` over the frames of `ScopeCapture`.
5. `ChunkedDecoder`, and `RttStream`, which composes it with the answer it decodes,
   with their proofs; the functions: `BoxAnswers`, `RequestBudgets`.

All of these exist, and the proofs of section 6 with them. What comes next, in this order:

| step | what |
|---|---|
| extend | net roles and `set_box_metadata` in `NetRecords` |
| compose | `BoxLock` under `NetRecords`, in place of the one mutex the latter takes for the lock: what is left of `NothingLost` when a lock expires, is forced, or is held by two programs of one user |
| prove | the composition implements `NetRecords` as long as no lock expires, is forced or shared; with it, an abstract lock that `BoxLock` implements |

The abstract specifications stated are `BytePipe`, which `StreamSession` implements, and
`GatewayAuth`, which `BearerToken` implements; both refinements are proved. The references
of the other components are their properties, and in `ChunkedDecoder`, `NetRecords`
and `ScopeCapture` a second definition of the result (`Meant` of a wire and of a
change, `Measured` of a shot) that the steps are compared with.

## 3. The modules and the code

Every module names the code each definition translates in its comments; the
line numbers are in `PROJECT.json`, under `map`. The `MC...` modules only give
constants their values. Definitions called `Name_Something` are the wrong
versions of `Name` used to show that a property can fail (section 4).

### GatewayAuth (`auth.rs`, `with_gateway_auth` in `client.rs` and `async_client.rs`)

| in the model | in the code |
|---|---|
| `mem[c]` | `GatewayAuth`'s state behind its mutex, one per client and its clones |
| `store` | `gateway_auth.json` as `load_store` would read it; a file that does not parse reads as empty |
| `call[p]` | the local variables of a thread between two atomic steps |
| `gate`, `session`, `valid`, `issued` | the gateway and the auth servers (external) |
| `stale` | tokens within the margin of `token_is_fresh` |
| `CachedToken`, `Lookup` | `current_token` |
| `Resolve` | `resolve_token`, `resolve_token_fresh`, `usable_or_refresh`; `Avoid` is the token not to be returned |
| `RefreshGranted`, `RefreshFailed`, `ApplyRefresh` | `refresh`, `apply_refresh`; the auth server grants a new token or hands out one of before (`Reissued`: one that is valid, the stored one, the one just rejected), which the client takes as it comes |
| `SaveOpen`, `SaveWrite` | `save_store`: `fs::write` truncates, then writes, and readers and writers come in between |
| `CacheToken` | `cache_token` |
| `SendAnswered`, `SendDenied` | a request, with the judgement of the gateway; the second may be denied again (`stream_debug`, whose second denial is an error of its own) |
| `TakeToken` | `current_token` by itself, as `debug_tunnel` and `bearer_token` call it |
| `LearnAuthServer`, `RecordMapping` | `learn_auth_server`, under and after its lock |
| `Login`, `GrowStale`, `Revoke`, `Reconfigure`, `NewClient` | `lager login`, clocks, the gateway, a new process |

The grain is: what happens under one lock, one read of the file, one of the two
halves of its rewriting, one round trip. `witness` is history: the good token the
store held through the whole of a call.

### BearerToken (`bearer_token` in `client.rs` and `async_client.rs`)

Extends `GatewayAuth`: `Begin`, `Seek`, `Take` and `Again` are the two
`current_token`s, `Ask` and `Settle` the two looks at `auth_server`, `Probe` and
`Health` the `health()` between them, every step of which is `GatewayAuth`'s own.
`Ordinary` and `Around` are what others do meanwhile. `seen` is history: the good
token the store held all through the call, whether the box was plain at some
moment, and whether the client was led astray. A denial of another thread
that comes between `bearer_token`'s first `current_token` and its look makes it skip
the probe and with it the second `current_token`: it then asks for a sign-in although
a good token is stored. `BearerIsTruthful` excepts that race (`astray`).

### DebugTunnel (`tunnel.rs`, `debug_tunnel` in both clients)

`Authorize`, `Connect`, `ReadHead`, `NotConnect` and `HeadTimeout` are
`tunnel_authorized` and `tunnel_once`, the head read byte by byte from `wire`;
`Classify` is `classify`. `Denied`, `Reauthorize` and `Refused` decide as the retry and the
wait loop do, `Wake` ends the pause, `Direct` is `debug_port_direct`. `Use` is the caller
reading from the tunnel. `PeerAnswers` and `PeerBabbles` are the four kinds of peer:
a gateway, a gateway that predates tunnels, a plain box, and something that does
not speak HTTP; each may hang up in place of its head or in the middle of it (`HungUp`). The
token machinery is what the tunnel sees of `GatewayAuth`. Time passes (`Tick`) in every step
that blocks: up to `MaxAuth` over a token, for both CONNECTs of a try, `MaxConnect` over a
connection, `MaxLag` over an answer, and a sleep with its overshoot. The deadline is
computed once and looked at before a pause only, as in the code.

### BytePipe, StreamSession (`nets/uart.rs`, `nets/rtt.rs`, `nets/sio.rs`)

`queue[s]` is the channel the Socket.IO callbacks fill, `sess[s]` the session
object with its buffer `buf` and the timers of the operation in progress, `down[s]`
what the client sent. `Open`, `Connect`, `Opening`, `OpenTimeout` are `open`;
`Begin`, `Check`, `Take`, `PumpEnd` are `read`, `try_read` and `wait_for` over
`pump` and `absorb` (`FoundAt` is `take_through`); `Stop` is `stop` and drop;
`Abandon`, `ConnectAnyway`, `Cancel`, `DropWrite` are dropped futures, of the async
twins only. `Write` begins a write and `WriteRuns` is its `emit`, on the caller's
thread or, in the async twin, on one that goes on when nobody waits for it; `wire`
is the order in which writes went out on the socket. The box serves one session per net (external). `BytePipe` is what the
bytes promise; the mapping is `pipe <- buf \o` the bytes in `queue`, `out <- out[s]`.

### RttStream, ChunkedDecoder (`stream_debug_once` of both clients, `chunked.rs`)

`Read_line` with `Payload` is `ChunkedReader`; `Poll_line` with `Payload` and
`Ended` is `AsyncBody` with its three framings. A piece is what arrives between
two `Pending`s. `Digits`, `IsSize` and `Size` are `parse_size`. `Body` says what the
format makes of a whole wire, by itself (`FromSize` from a size line on, `FromPayload` from
the payload on, `Trailer` from the trailers on), and is what the decoders are compared with.
`RttStream` puts the answer before it: `Answered` looks at the status and the
discovery header, `Opens` says which statuses open a stream (200 in the async
client, anything below 400 in the blocking one), `Decoder` who undoes the framing
(`HandFramed`: chunked under HTTP/1.0, where ureq leaves it in), `Refuse` reads a
refusal. Its body, framed by hand, reaches the parser framed in the blocking
client, so that a busy probe is an `Error::Box` there (`RefusalIsTold` excepts it).

### DebugRecordCache (`nets/debug.rs`)

`NetRecord` and `Put` are the two places where `net_record` takes the lock,
`NetsList` what it does between them without it. `Gate` is `require_debug_feature`,
`Fail`, `Clear`, `Succeed` the end of `call`, `flash` and `rtt_with`, `Cancel` a dropped
future, `Save` somebody saving the net again.

### BoxLock (`lock*`, `unlock*`, `BoxLockGuard` in `client.rs`)

`Begin` is a call, `Asks` its request, `Over` its end; `Release` is
`BoxLockGuard::unlock` and drop. `GiveUp` leaves the request under way or not;
`Serve`, `Tick` and `Expire` are the box (external, from the docs and tests of the
client). `loose` and `robbed` are history, for what the properties excuse.

### NetRecords (`client.rs`, `wire.rs`, `admin.rs`)

A change begins with the lock (`Begin`) and ends by letting go of it (`End`).
`List` and `OldList` are `nets` with its fallback, `Body` what a replacing call
makes of the list, `Served` what the box does with the request (external).
`want` is kept for the properties: the nets as the changes mean to leave them, one
after the other.

### ScopeStream (`nets/scope_trace.rs`, `nets/scope.rs`)

`Ask` and `ReadReply` are `Scope::stream` and the beginning of `Scope::capture`;
`NextCapture`, `ReadNext`, `Timeout` are `next_capture`; `ReadCapture` the rest of
`capture`; `Close` is `close` and drop. The daemon's side (external) sends the newest
capture when it has a credit. A frame is what `ScopeCapture` makes of a shot: `Encode`
is the daemon's, `Damaged` what may become of it, `Decodes` the checks of
`ScopeCapture::decode`, `counts` and `volts` its accessors; bytes are counted, not
spelled. `lost` is history: the captures taken off the socket
that gave no credit back.

### BoxAnswers (`client.rs`, `async_client.rs`, `wire.rs`, `admin.rs`, `nets/mod.rs`, `nets/debug.rs`)

An answer is its status, its kind of body (JSON, JSON of another shape, a page),
the error it names and its flags. `Invoke` and `Receive` take one operation from its request
through `send_once` and its parser to its result; `nets` asks a second time, and `erase_range`, `halt` and a connect with a
transport ask `/health` first (`Require_feature`). A box
serves the route or not, and knows the action or not; whether it still serves the old route
of `nets` is open, whatever its age.

### RequestBudgets (`Timeout` in `wire.rs`, `nets/*.rs`, `admin.rs`)

Each kind of call is its client budget and the box's own wait, as the handle
computes them (`Watt`, `Energy`, `Move`, ...). `Call`, `GiveUp` are the client,
`Begin`, `Answer` the queue of an instrument at the box (external: the docs of the
handles say that it is one at a time), `Pass` is time.

## 4. The runs

Between them the passing runs take every action of every module. Clients with a
pinned token are left to the theorems of section 6. For each property there is in
`PROJECT.json`, under `mutants`, a plausible wrong version of one definition of the
code under which TLC finds the property violated. Runs take from one second to
two minutes.

| run | instance | shows |
|---|---|---|
| `auth` | two threads on one client, one of them in `bearer_token`, one auth server, two tokens to issue, one of them opaque, every event | `RetryCredential`: a retry carries a token of the server that denied, and not the one just rejected unless a refresh hands it out again. `NoNeedlessSignIn`: nobody is told to sign in while the store held a good token all through the call. `BearerIsTruthful`: no token is the answer of a box that was plain, and a sign-in is asked for only without a good token. `TypeOK` |
| `auth_rotation_race` | two clients (processes) and one auth server, none of the events | **violation** of `RotationPersisted`, see section 7 |
| `tunnel` | a wait of 3 ticks, pauses of 1; tokens that take up to 4, longer than the wait, connections up to 2, answers up to 1, sleeps that overshoot by 1; heads cut off anywhere; every kind of box and every time its debug server may open | `StreamIntact`, `LateServerIsWaitedFor`, `NoTryAfterDeadline`, `TokenMeansGateway`, `NoBypass`, `TunnelEnds` |
| `stream` | one async session, three bytes of two values, a needle of two, one notification, two writes, waits of 2 ticks (1 for open), futures dropped anywhere | `IsPipe` (implements `BytePipe`), `WaitForFinds`, `InTime`, `NetFreed`, `WritesInOrder`, `OperationsEnd` |
| `stream_late` | one blocking session, one byte, one notification | **violation** of `InTime`, see section 7 |
| `chunk` | both clients; every status, version and framing of the answer; every string of up to six framing symbols, up to two chunks as the box sends them cut anywhere, bodies without framing of up to six bytes; size lines of up to four symbols | `StreamIsBody`: an open stream, at every split, is what the format says the box sent. `NothingLost`: a truncated body is never complete. `RefusalIsTold`: a busy probe, and nothing else, is `ProbeBusy` |
| `record` | three clones, all operations, two versions of the record | `TypeOK`, `StaleIsBounded` |
| `lock` | a user that locks for good, with guards or without, and one that locks with a TTL, heartbeats and forces; up to four requests each; requests and answers lost or late, programs killed | `GuardHolds`, `NothingLeft`, `NeverTaken`, `NotWedged` |
| `records` | two programs, two nets, two ceilings, every kind of change, three changes in all, one late request at a time | `NothingLost`, `CeilingStands`, both until a late request is served |
| `scope` | two credits, three captures, one notice, every fault | `WindowHolds`, `NoCreditLost`, `Forwards`, `CaptureIsLatest`, `CatchesUp`; `ReadsAsMeasured`: what is read of a capture, channel by channel, is what the scope measured, or nothing is |
| `answers` | every operation, every answer, boxes of every age, those whose debug service gives no verdict on a flash included | `OkIsDone` (that flash aside), `OldBoxIsTold`, `NewBoxIsNotBlamed`; `NeverMisled`: a request that an older debug service takes for another never reaches one |
| `budgets` | two calls of any two kinds, those of `Admin` and the debug net included, asked to take 1, 60 or 700 seconds or their defaults, provisioning and WiFi scans among these, instruments that may hang | `AloneIsServed`; `OneAheadIsServed`: a default call of the arm or the adapter is served behind another that is no WiFi scan and no provisioning; `EveryCallReturns`, but for the three kinds without a timeout |

### Why the bounds are enough

- `auth`. Two tokens are what one retry needs: one to be rejected, one to replace it,
  with the second opaque and the first not, so that both paths of
  `token_is_fresh` are taken. `issued` counts what was granted so far, by a login or a refresh,
  new or not, so `MaxGen` bounds both. Two threads are what every race on the store and on
  the memory needs; more threads, servers and clients are the theorems' (section 6).
- `tunnel`. The deadline spans several tries, a token may take longer than the whole wait
  (the code's refresh may take 10 s of a wait of 5), and the opening time ranges from
  before the call to after the last moment it could be noticed (`Never`).
- `stream`. A needle of two bytes can straddle events, overlap itself and be
  followed by data; three bytes leave room for one before or one after. Two writes
  are what it takes for one to overtake another. One
  session: what two sessions share is `holder`, which the box decides.
- `chunk`. Six symbols hold a size line, a payload and the beginning of the next line;
  the two chunks the box sends hold everything from an extension to the trailers. Lines
  reach `MaxLine` and pass it by two.
- `record`. With three clones two of them may put a stale record back in turn,
  which is where the bound of the property comes from; the theorem is for any number.
- `lock`, `records`. Both races take one request that is served late and one program in
  between. Three changes: the late one, one overtaken by it, one after them. In `lock` each
  program has a user of its own; programs that share one are the theorems' (section 6).
- `scope`. Two credits can be spent, returned and lost apart from each other; three
  captures go beyond the window, and they are of channels that differ in number, order,
  scale and samples, one clipped and one with a hole. Sequence numbers only grow: the last one
  stands for a scope that has stopped.
- `budgets`. 1, 60 and 700 seconds lie on both sides of every clamp of the
  handles (30, 120, 600); time jumps to what is due next, or by 50 seconds, which is
  enough to queue a call at any stage of another. The box takes up to `Overhead`
  (4 s) over its own wait. A driver's own timeout is unknown to the client, so
  `custom` is asked only for what its fixed budget covers.

`CHECK_DEADLOCK FALSE` is set where the program may stop: a call that has ended, a
program that has died, a budget of changes that is used up. `auth` and
`record` never stop and are checked for deadlock.

The type invariants of `BoxLock`, `NetRecords`, `ScopeStream`, `StreamSession`,
`DebugTunnel` and `RequestBudgets` are theorems (section 6). They and the inductive
invariants around them held of these runs when they were checked; no run is spent on them.

## 5. Fairness

| run | assumed | why |
|---|---|---|
| `tunnel` | the client's next step; the clock | every blocking operation of the tunnel has a timeout, and a thread runs |
| `stream` | `SF(Tick)`; `WF` of a thread inside an operation and of the box reading what it was sent | a clock goes on however often operations that take no time begin, hence strong; nothing obliges a caller to begin or stop, or the device to send |
| `scope` | `WF` of asking, of calling `next_capture` again and of the daemon's answers; `SF` of reading a message that is there | it is the property of a reader that keeps reading. Any call may time out, but not all of them with a message at hand, hence strong. Timeouts, captures, notices and hanging up are not fair |
| `lock` | the box serves what reaches it, lets time pass and expires locks | its server runs; a program is not obliged to do anything, it may die at any time |
| `budgets` | an idle instrument begins a request, an answer that is due arrives, a timer that is due fires, time goes on | an instrument may hang all the same: `left = None` never becomes due |

No run assumes that a message arrives or that an operation of the box succeeds.

## 6. What is proved

The theorems hold for every value of the constants that satisfies the modules'
assumptions: any number of callers, clients, programs, sessions, tokens, clones,
credits and saves, any needle, head, shot and duration. The assumptions say that
bounds and times are natural numbers, which user a program and which client a
caller belongs to, that `None` is none of the values it stands beside, and

- `DebugRecordCache`: that there are finitely many callers;
- `DebugTunnel` (`DataAssumption`): that the head of a peer that speaks HTTP, three
  lines in the model, fits in `MaxHead` when it is whole. The code's limit is 64 KiB
  (`MAX_HEAD_BYTES`); were it below a gateway's refusal, the call would go round it, as it
  does round one that is cut off (section 7);
- `ScopeCapture` (`ShotsAssumption`): that a shot has 1 to 16 channels of different
  codes and one length, and that its volts are what its counts mean, as the format has it;
- `ChunkedDecoder`, `RttStream`: that the wires are sequences of the symbols and the heads
  are heads;
- `StreamSession`: that timeouts are at least one tick and the needle is not empty,
  which the code answers by itself.

Each proof has the same form: an inductive invariant `IInv` that says what the states
between two steps have in common, one lemma (or one step) per action that it is
preserved, and the properties from it. Below, for each module, the
theorems, and what had to be added to the properties to make them inductive.

### GatewayAuthProofs (`GatewayAuth` and `BearerToken`)

| theorem | says |
|---|---|
| `TypeCorrect` | `Spec => []TypeOK` |
| `RetryAvoidsRejected` | `Spec => []RetryCredential` |
| `Filed` | `Spec => []FiledUnderIssuer`: tokens are stored under the server that issued them |
| `PinnedInert`, `PinnedWritesNothing` | a client with a pinned token sends it once, learns nothing but the server and writes no store |
| `SignInIsNeeded` | `Spec => []NoNeedlessSignIn` |
| `BearerImplements` | `BearerSpec => Spec`: `bearer_token` takes no step `GatewayAuth` has not |
| `BearerRetryAvoidsRejected`, `BearerSignInIsNeeded` | so `RetryCredential` and `NoNeedlessSignIn` hold with callers inside it, for any number of them |
| `BearerTellsTheTruth` | `BearerSpec => BearerIsTruthful` |

`RetryCredential` is not inductive: it speaks of the moment of the second
request, and the token got there through the store, a refresh or a snapshot, while
others logged in, refreshed and wrote. The inductive invariant `IInv` adds to the
types that every token held anywhere, in the store, in a snapshot, in a client's
memory or in a call, has been issued, so that a new one differs from all of them;
that the store and every snapshot file tokens under their issuer; and, for each
step of a call, that the token chosen for the second request is one of the
server being dealt with, and other than the first if it came out of the store. Of a token
that came from a refresh the code ensures no such thing (section 7), and the theorem says none. `PinnedIsInert` is inductive
together with it. `NoNeedlessSignIn` needs besides what the second half of a call
does while the store keeps a good token `w` (`WInv`): it deals with the server of
`w`, its first request, if answered 401, did not carry `w`, and it takes `w` from the
store instead of refreshing. So its second request carries `w`, which the
gateway does not answer with 401.

Every action of `BearerToken` is an action of `GatewayAuth` with a bookkeeping step
beside it, or leaves `GatewayAuth`'s variables alone; both cases are in the one lemma
on `BearerNext`. `BearerIsTruthful` relates a call's result to all it lived through, so its
invariant (`BInv`) follows the call from look to look: once past the probe
with a client that still knows no gateway, the box was plain at some moment; and as long as one
good token stays in the store and the client is not led astray, a `current_token` of a client
that knows the gateway holds a token or is about to read that one (`Sure`), so it does
not come back empty-handed. The first half needs one fact more about `GatewayAuth`
(`NothingKnown`): an unpinned client that knows no gateway has no token either, neither in
memory nor in a call.

### DebugTunnelProofs

| theorem | says |
|---|---|
| `TypeCorrect` | `Spec => []TypeOK` |
| `StreamComesWhole` | `Spec => []StreamIntact` |
| `LateServerCounts` | `Spec => []LateServerIsWaitedFor` |
| `TriesAreInTime` | `Spec => []NoTryAfterDeadline`: a try begins by the deadline, give or take an overshooting sleep, and its CONNECTs go out at most as much later as tokens, connections and a first answer take |
| `GatewayIsTold` | `Spec => []TokenMeansGateway` |
| `NoWayRound` | `Spec => []NoBypass`: of a refusal that arrived whole |

Three things carry them. The clock never runs far from the beginning of the step under
way (`Clock`). What is in the socket while a head is read is the rest of the head and,
behind it, all the debug server has said, or the rest of what was sent before the peer hung up
(`InSocket`). The verdict on a CONNECT is
the one of the head that was read whole (`Verdict`), a 502 was true when the CONNECT went out
(`Said`), and a token comes from a server the client knows or is pinned (`Tokens`).

### StreamSessionProofs

| theorem | says |
|---|---|
| `TypeCorrect` | `Spec => []TypeOK` |
| `SessionIsPipe` | `Spec => IsPipe`: under the mapping of section 3 every step of a session is a step of `BytePipe` or a stutter |
| `NeedleIsFound` | `Spec => []WaitForFinds` |
| `AsyncIsInTime` | `Async => (Spec => []InTime)`; of the blocking twin the run `stream_late` shows the opposite |
| `WritesStayInOrder` | `Spec => []WritesInOrder` |

The refinement needs what `Bytes` makes of a channel when an event is put on it or taken off
(`BytesAppend`, `BytesTail`, `Refill`). `Bytes` is a recursive function, and these facts are
proved without an induction theorem: if one failed for some length there would be a least
one (`Least`, from the well-foundedness of `<`), and the step from the one before it contradicts that.
`FoundIsFirst` says of `take_through`, from the definition of `FoundAt`, that the bytes cut off
end with the needle and hold it nowhere else. Of the session objects `IInv` says that buffers are
empty before the session is up and that timers are within what the operation was given
(`Sound`); of writes, that those on the wire are over, and those that were over when another
began are on it (`Ordered`).

### DebugNetProofs (`DebugRecordCache`; `RttStream` with `ChunkedDecoder`)

| theorem | says |
|---|---|
| `TypeCorrect` | `Spec => []TypeOK`; in particular no cached record is newer than the saved one |
| `BoundedRetries` | `Spec => []StaleIsBounded`: after a save a clone meets the old record at most as often as there are clones |
| `LoneRetry` | a handle without clones that opens no stream never retries with a record older than the one saved when it last failed (`RetryIsFresh`) |
| `StreamInvariance` | `RttSpec => []StreamInv`, the invariant of the decoders |
| `StreamIsItsBody`, `RefusalIsTrue` | `RttSpec => []StreamIsBody`, `RttSpec => []RefusalIsTold`, for any wires, heads, `Length` and `MaxLine` |

The bound on the retries comes from an account: what a clone has failed since the save, what
it may still owe (a stale record in the cache or in its hands), and the other
clones whose fetched old record is still to be put, are together at most the number of
clones. A failure moves one from the second to the first, and every put of an old
record uses up the clone that fetched it. The account starts right at a save because
a full cache was filled by a clone that is no longer fetching (`Filler`). `IInv` is
the account (`DebtIsBounded`), `Filler` and the type invariant.

The body of a wire is defined from its end backwards, the decoders read it from its
beginning, and a line or a chunk may come in any number of pieces. `Balance` brings the two together:
the body is what has been delivered, followed by what the format makes of the rest, where the rest
begins with the line in hand (`LineStart`) or the next byte of payload (`RestAt`). So a step
that takes half a line changes neither part, a whole line turns one `RestAt` into another
(`AfterALine`), a piece of payload goes over from the rest to what was delivered
(`AfterPayload`), and at the end nothing is left (`AtTheEnd`, `WithinALine`). `LineSoFar` says that
the partial line is a part of the wire without an LF in it; without that a line that came in
pieces need not be the line of the wire. An error over a long line is excused by a wire that does
have one (`TooLong`). `Body` and `Size` are recursive functions; that they
are defined for every wire and line is proved (`WholeExists`, `SizeIs`) by the least counterexample, from the
well-foundedness of `<`. `StreamInv` adds what the head
decided (`AsAnswered`), and `RefusalIsTold` is inductive with both.

### BoxLockProofs

| theorem | says |
|---|---|
| `TypeCorrect` | `Spec => []TypeOK` |
| `GuardIsLock` | `Spec => []GuardHolds` |
| `NothingIsLeft` | `Spec => []NothingLeft` |
| `ClaimsStand` | `Spec => NeverTaken` |

A guard and the lock are kept together by messages only. The invariant says of every request
under way that it is what its program asked, under a number of its own, and that as long as all
calls of its user were answered the program still waits for it (`UnderWay`, `Numbered`); and
that a lock of such a user has a guard, or one being dropped, to show for it (`Kept`). Programs
may share a user.

### NetRecordsProofs

| theorem | says |
|---|---|
| `TypeCorrect` | `Spec => []TypeOK` |
| `NothingIsLost` | `Spec => []NothingLost` |
| `CeilingsStand` | `Spec => CeilingStands`: until a late request is served, only a call made to lift or clear a ceiling, or to remove the net, save it anew or rename it, takes it off |

Why is a request that carries a whole record the change it was made for? The program that
listed the nets has the lock (`Locked`), so what it listed is what is saved (`Listed`), and the
body made of it still fits the nets it will be applied to (`Asked`), until a late
request is served. The lock is taken for one mutex, which is what `GuardIsLock` gives of the
box lock while nobody forces, expires or shares it.

### ScopeStreamProofs (`ScopeStream` and `ScopeCapture`)

| theorem | says |
|---|---|
| `TypeCorrect` | `Spec => []TypeOK` |
| `NoBacklog`, `CreditsBalance` | `Spec => []WindowHolds`, `Spec => []NoCreditLost` |
| `NeverBackwards` | `Spec => Forwards` |
| `LatestIsLatest` | `Spec => []CaptureIsLatest` |
| `ReadsTrue` | `Spec => []ReadsAsMeasured` |

The two properties of credits are the halves of one account: captures under way, credits at the
daemon, credits on their way back and captures lost are together `Credits` from the moment
the daemon subscribes (`Account`). It is kept only because what is sent in one mode is never
sent in the other (`Modes`) and nothing is spent before `Subscribe` (`Starts`). `Ordered` says
that captures under way are in order, and behind all that was returned or
lost; `Replies`, that a reply names a capture no older than the question. `ReadsTrue`
rests on two lemmas about `ScopeCapture` by itself, for any shots: a frame that decodes is the one
that was sent (`DamageShows`), and what the accessors return of it is what was
measured (`ReadsRight`).

### RequestBudgetsProofs (`RequestBudgets`)

| theorem | says |
|---|---|
| `TypeCorrect` | `Spec => []TypeOK` |
| `OnlyTheLate` | a call with one other ahead of it at most, and no hang, is given up on only when what the box may take over the two reaches its budget |
| `MarginsSuffice` | `Spec => []AloneIsServed`, if the box takes less than 7 s over its own wait |
| `QueueOfOneSuffices` | `Spec => []OneAheadIsServed`, if it takes less than 5 s: default waits behind default waits, except behind a WiFi scan or a provisioning |

`IInv` keeps the account of a waiting call (`Waits`): what is left of its budget, and what the
box may have taken so far over the call ahead and this one, less what is left of the
request it is at, are together no less than the budget. `OnlyTheLate` is this account when
nothing is left. The two others compare it with what the handles ask for, kind by
kind and for any duration. They have hypotheses because the margins are finite, and these are the
weakest there are: the least margin of all is that of `nets_state`, 15 s against a wait
of 8 (`src/src/wire.rs`); the least room for a queue has a Bluetooth scan behind a BluFi
connection, 40 s against 10 and 20, with the box's overhead twice. Behind a WiFi scan (20 and 30 s)
or a provisioning (20 and 60) there is none, whatever the overhead. A custom driver's wait is its own: `MarginsSuffice`
asks that it and the overhead stay below the fixed 120 s. The run `budgets` has an overhead of
4 s, within both.

### RequestBudgetsProofs (`BoxAnswers`)

| theorem | says |
|---|---|
| `SuccessIsTheDeed` | `AnswersSpec => []OkIsDone`, which leaves out a flash by a service that gives no verdict (`Silent`): the code's report of it is Ok with `programmed: None` |
| `NoNewBoxIsBlamed`, `EveryOldBoxIsTold` | `AnswersSpec => []NewBoxIsNotBlamed`, `AnswersSpec => []OldBoxIsTold` |
| `NoServiceIsMisled` | `AnswersSpec => []NeverMisled` |

`AnswersInv` adds to the four properties what an answer on its way says of the box it is from
(`Answered`: absence, features, an unknown action, a refusal, or the deed) and where the call is
(`Course`: a ranged request has gone out only to a box that knows it, and what `nets` keeps of its
first request is neither a success nor a complaint of age). The proof is in two halves. The
lemmas `OkMeans` and `BlameMeans` go through the parsers and rules, operation by operation, from the
result back to the answer: which status and mark a success needs, which wordings
`UnsupportedByBox`; `AbsenceIsTold`, `UnknownIsTold` and `LackIsTold` go the other way. They hold of
any answer at all, not only of those a box gives. `ReceivedIsSound` puts the two together.

### Only model-checked

- Liveness under fairness: `TunnelEnds`, `NetFreed`, `OperationsEnd`, `CatchesUp`, `NotWedged`,
  `EveryCallReturns`. The prover has no fairness or `ENABLED`.
- `NothingLost` of `ChunkedDecoder`. It is about the wires a box sends, which the run spells out
  (`Sent` of `MCRttStream`), and not about every wire; and it counts the payload of a whole wire
  with `SelectSeq`, of which the prover's library has no theorem without an operator as
  parameter. That the decoders deliver the body of the wire is proved.

`FiledUnderIssuer`, `PinnedIsInert`, `PinnedNeverWrites` and `RetryIsFresh` are
proved and not part of a run; `RetryIsFresh` does not hold of clones that race,
as the next section says.

Three definitions were found wanting by the proofs and changed. In `BoxAnswers` no box served the
old route of `nets`, so that its fallback only ever failed; `Served`, `Able` and `NotServed` say
now that a box may. `Effect` of `BoxLock` and
`Complete` of `BoxAnswers` were `CASE`s with arms that overlap, which leaves TLA+ free to take
either; they say now which comes first, as the code does.
One property was: `RefusalIsTold` did not excuse a refusal whose framing has a line over
`MAX_SIZE_LINE`, which the async client's decoder gives up on; no wire of the run is both that
and a busy refusal, and the proof met it.

## 7. What the models found

Two runs end in a violation of something the repository says:

- `auth_rotation_race`: two processes that record a mapping and refresh at the same time
  lose a session. `save_store` (`src/src/auth.rs:65`) truncates and rewrites a file that others
  load, edit and save whole, without a lock. At the end nobody is in a call and
  the store holds a cookie the auth server no longer honours, or none.
- `stream_late`: the blocking `pump` (`src/src/nets/uart.rs:358`) starts its whole wait
  again after every status notification, so `read` and `wait_for` may wait any number
  of times longer than their timeout. The async twin keeps one deadline.

Met on the way, and written into the models as the code has it:

- A stored token that is opaque (no readable `exp`), with no cookies beside it, is never
  sent: `usable_or_refresh` (`src/src/auth.rs:396`) takes it for expired.
- A 501 that comes with a page is an `Error::Box` before any rule for older
  boxes sees it (`OldBoxIsTold` excepts it).
- `nets` falls back to the older list after any failure, a timeout or a 500 of a
  current box included, and then shows UART nets only.
- "A healthy request is never aborted mid-measurement" (`src/src/wire.rs:47`) holds of a
  call that has its instrument to itself. Behind a longer one it is given up on although
  the box serves it (`src/src/nets/watt.rs:18`); Bluetooth calls too, which "queue rather
  than fail" (`src/src/nets/ble.rs:5`), once the one ahead lasts longer than the margin.
  The margins cover the queue for the waits of `OneAheadIsServed`. A default Bluetooth scan
  behind a provisioning or a WiFi scan (`src/src/nets/blufi.rs:101`, `:124`) is among those given
  up on, though its margin is for a call that "may queue behind another BLE/BluFi operation"
  (`src/src/nets/ble.rs:72`).
- Opening an RTT log (`src/src/nets/debug.rs:788`, `:1158`) has no timeout: it waits for
  ever on a service that accepts the request and sends no head. `EveryCallReturns` excepts it.
- The token a refresh answers is used as it comes (`src/src/auth.rs:424`, `:456`;
  `src/src/client.rs:425`), so the retry may carry the very one that was rejected, if the auth
  server hands it out again. "Must not be returned again" (`src/src/auth.rs:394`) holds of the
  store only.
- A CONNECT may go out after the deadline of `debug_tunnel`: resolving a token
  (`src/src/client.rs:234`), up to 10 s with a refresh, and connecting are not measured against it
  (`src/src/client.rs:207`).
- A gateway that hangs up in the middle of its 401, 403 or 502 is taken for a box that "does not
  do CONNECT" (`src/src/client.rs:333`, `src/src/async_client.rs:276`), and the call goes on to
  the published port. `NoBypass` excepts it.
- A debug service from before 0.51.0 that programmed nothing answers 200 without a verdict, and
  `parse_flash` makes that Ok with `programmed: None` (`src/src/wire.rs:606`). `OkIsDone` excepts it.
- The box's wait for a custom driver is the driver's own, which the client does not know;
  its fixed budget may be shorter.
- A negative, infinite or undefined duration panics in `Duration::from_secs_f64` where it
  is added to a margin without a clamp, instead of becoming an error.
- The async decoder accepts a size line over `MAX_SIZE_LINE` when its LF comes in
  the same piece (`src/src/chunked.rs:228`); the blocking one refuses it.
- Two guards under one user name release each other; a release that its program gave up on,
  served late, takes a lock claimed since. A late change to a net is served after the lock
  it was made under has gone.
- The blocking client opens any answer below 400 as an RTT stream, the async one only a
  200; and a refusal framed by hand is not unframed by the blocking client, so a busy
  probe is an `Error::Box` there.
- `bearer_token` asks for a sign-in while a good token is stored when another
  thread's denial comes between its two looks at the auth server (`src/src/client.rs:289`).
- The docs of `AsyncDebugNet` say that RTT streaming "is not provided on the async client
  yet" (`src/src/nets/debug.rs:890`); it is (`AsyncLagerBox::stream_debug_once`).
- A write whose future was dropped goes out all the same, possibly after one begun later.
- A refused RTT stream leaves the stale record in the cache
  (`src/src/nets/debug.rs:789`), and a clone whose fetch was under way puts an old record back.
- A capture skipped before the reply to `Subscribe`, or one that does not
  decode, costs a credit for good; after `STREAM_CREDITS` of them the stream stands still.
- An async `open` dropped inside `connect` leaves a thread that goes on to start the session.

## 8. What is not modelled, and why

- **The rest of `admin.rs`** (drivers, binaries, files, devices, diagnostics): one
  request, one answer, no state in the client. How their answers are read is in
  `BoxAnswers`, how long they wait in `RequestBudgets`.
- **Builders and configuration**: fields set once from arguments and environment variables.
- **Payload types, hex and base64, number formats, wording**: data no property tells apart.
- **What the handles send**: their requests carry values to the instrument and change
  nothing in the client.
- **Net roles and `set_box_metadata`**: planned; the latter replaces its record
  and reads nothing first.
- **`last_status` of a session**: copied from each notification, read by no operation.
- **The box, the gateway, the auth server, the scope daemon, the Socket.IO library**: only
  as the client's code, docs and tests use them, marked external.
- **Tests, examples, CI**: not part of the program.

## 9. Running it

```
tlc -config auth.cfg MCBearerToken       (and alike for each run of PROJECT.json)
tlapm GatewayAuthProofs.tla              (and alike for DebugTunnelProofs, StreamSessionProofs,
                                          DebugNetProofs, BoxLockProofs, NetRecordsProofs,
                                          ScopeStreamProofs and RequestBudgetsProofs)
```
