# Verification of krymux

krymux carries many logical streams over one connection (the CMPX mux protocol),
with a tunnel and a file synchroniser on top and ports of the mux in Go, Python,
TypeScript and the browser. This directory holds TLA+ models translated from the
Rust sources, the TLC configurations that check them, and TLAPS proofs. File names
such as `mux.rs` are under `src/crates/krymux/src/` (mux, server, client, ws,
router, socks5, httpproxy) or `src/apps/krymux-sync/src/sync/` (the rest);
`PROJECT.json` maps every definition to the lines it models.

## The system

| Component | Source | What is hard | Module |
|---|---|---|---|
| Credit flow control | mux.rs | several tasks share counters; grants may find the queue full; a window smaller than a chunk | CreditLedger |
| Mux stream | mux.rs | pumps, reader and ticker interleave at every await; retirement; backpressure | MuxStream, MuxStreamProps |
| Mux session | mux.rs | teardown races the reader, opens and timeouts | MuxSession |
| Sync transfers | mod.rs, protocol.rs | files change while they travel; any step fails; answers must match requests | SyncTransfer |
| Sync passes, tombstones | mod.rs, tombstones.rs | overlapping passes, late watchers, three clocks, crashes | SyncPass |
| Notify hub, daemon | notify.rs, daemon.rs | lost wake-ups, dead tunnels, full channels | SyncDaemon |
| WebSocket endpoint, admission | ws.rs, server.rs | slot accounting on every exit, deadline, three tasks ending each other | WsGate |
| Router | router.rs | order of rules, fallback, policy, spellings of a host | Router |
| SOCKS5 and HTTP front ends, tunnel server | socks5.rs, httpproxy.rs, server.rs | read-ahead, half-close over four sockets, honest replies, sessions that die under a stream | Relay, UdpRelay, TunnelPipe |
| the server's edge | the three above | they end together with the session | Edge |

How they interact: a connection passes **WsGate** (natively by certificate, or as a
browser by challenge and response) and becomes a mux session (**MuxSession**). Each
stream of it (**MuxStream**, whose credits are a **CreditLedger**) carries a proxied
connection (**Relay**, which asks **Router**), a UDP association (**UdpRelay**), a
sync session (**SyncPass** decides, **SyncTransfer** moves) or a stream of change
hints (**SyncDaemon**, which also decides when passes run).

## Modules

**CreditLedger** is the abstract specification of one direction of a stream: what
the sender has left (`credits`), what is in flight, and every hand a returning
credit passes through (`pending`, `held` by the pump, `tick` by the ticker, `grants`
in frames). Its send loop is the loop of `outbound_pump`: charge what is
there, send a frame, charge the rest.

**MuxStream** models both ends of one stream at the grain of the awaits. Bytes
are positions in the sender's stream, so order and loss are visible.
`link[e]` is everything between a send of `e` and the peer's reader. Actions
are named after the task: `App*`, `Out*` (outbound_pump), `In*` (inbound_pump),
`Tick*` (credit_ticker), `Read*` (reader_task and handle_frame), plus
`SessionClose` and `Cut` (the connection breaks; external). `MuxStreamProps`
adds the sums over queues and the refinement mapping to CreditLedger.

**MuxSession** opens up what MuxStream calls the link: the writer queue with
its lone-frame and batch paths, the connection, the handshake, opening streams
against the limit, keepalive, and teardown as the four separately interleaved
steps it is (snapshot, clear, abort, ready). A stream is only its registration,
its handler and its end. Teardown's Abort is a `try_send`: an accepted stream, whose
inbound queue the peer may have filled (`Fillable`), may miss it. `lost`, `late` and
`hasty` are history: the streams that missed it, the streams the reader took after the
snapshot, and the ends whose keepalive gave up before HELLO came.

**SyncTransfer** is the transfer half of one sync session, message by message: the
client works off a plan (downloads, server deletions, uploads), the server loop
answers. A file is a sequence of blocks, one block per binary message, and a hash is
the block sequence itself. `Replace` and `Rewrite` are users and other sessions (a
new file under the name, or the open file overwritten in place), also between the blocks
that `ServeHash` reads. Every disk operation may fail, the tombstone store included: it
cannot be written, or not be read, and is then written anew with the one new entry
(`Misrecorded`). `Abort` is the client giving up. `blurred` is history: the hashes the
server announced that are of no content any user wrote.

**SyncPass** is what the passes decide, for one path on a server and several clients:
flush, scan and load on both sides, the whole diff with its clock correction, race
guard, deletions, downloads and uploads, one action per step that another process
can see between. A file is a version (one per user write) and an mtime. `store` and
`pend` are the tombstones on disk and queued, `ev` a removal the watcher has not
reported yet. A transfer is one step, because SyncTransfer shows what it delivers.

**SyncDaemon** is what makes passes happen: the hub's watcher callback in its
separate loads and stores, session guards, coalesced hint and suppress window; the
notify sessions; and the daemon loop with connect, backoff, pass, the four-armed
select, settle, and the watcher thread that blocks on a full channel.

**WsGate** has one task per connection: `handle_conn`, the request head, the
compare-exchange on the slot counter, challenge, response, the writes between them (to
a peer that may not read) and the deadline of the reads; then the two tasks of a bridge,
the session between them and the session's writer task, which may outlive it.
**Router** is `resolve` with its helpers as pure operators;
`Promised` is an independent definition of the same answer. **Relay** is one proxied
connection from the application's request to the upstream and back; **UdpRelay** a UDP
association with its two tasks at either end. Both send through **TunnelPipe**, which says
what the death of the session makes of a stream: its reader still gets some of what was
under way and then an end of input that nothing tells from a FIN (`Severed`), or no end
at all where the Abort was dropped (`Stranded`, which Relay counts as a fault and
UdpRelay notes in `stuck`); writes after it go nowhere or fail. **Edge** composes the
three: the tunnel is one of WsGate's connections, and when its session ends both streams
are cut in the same step (`StreamsCut`).

**MC\*** modules give constants their values; **\*Proofs** hold the theorems.

Abstractions worth knowing:
- Compression is reduced to "a chunk may fail to decode". The app's duplex is folded
  into the app (`InWrite` is the moment it has room).
- After a close, the exit of the writer in MuxStream is over-approximated by `Cut`.
- `try_send` and `wait_send` contend freely for a slot, except that the parked reader
  has the next slot of an inbound queue before `try_retire`'s Abort, because a tokio
  channel is fair. A lone frame in the writer's hand counts against `WriterCap`.
- Reader parking is in MuxStream only.
- The tunnel of Relay and UdpRelay is, while the session lives, an ordered pipe with
  half-close, which is what MuxStream is shown to provide (InOrder, FinIsComplete). An
  OPEN_ACK lost on a full queue is in MuxSession only; the front end's reply then rests on
  the open timeout.
- A ping during the authentication exchange is answered as an init is, by a write, and is
  not an action of its own. `timeout_at` polls the read first, so that a peer with data
  always ready is not timed out; `MaxInits` bounds how long that can last.
- The data of a plan's upload, which stands for the hash of the client's scan, is a whole
  content: the scan reads no file that is being rewritten. What the upload then reads is
  the file as it is.
- Signatures in WsGate are what they were made over. Hosts in Router are their labels
  and how they were written. A datagram is its source and whether it can be forwarded.
- In SyncPass a scan hashes correctly: no two versions share both size and mtime.
- In SyncDaemon a pass looks at each tree once.
- Memory is sequentially consistent in all models.

## Runs

The sync_pass, sync_newest and sync_daemon runs check for deadlock; in the others
(`CHECK_DEADLOCK FALSE`) a session that has ended, or an app that sends no more,
really stops.

| Run | Instance | Shows |
|---|---|---|
| ledger | window 2, growing to 5; chunk 4; frames of 2 | TypeOK, Conservation (the balance), FlightBound (overdraft under a chunk), NeverWedged |
| stream | window 2; chunk 2; frames of 1; queues of 1; 2 bytes; one fault anywhere (early drop or decode failure at the receiver, close at either end, cut connection) | CreditBalance, InOrder, FinIsComplete, RegisteredWhileNeeded |
| stream_live | window 1 to 2; threshold 2; queues of 1; the receiver may drop; fair | ImplementsLedger: refinement of CreditLedger in both directions; EventuallyDelivered |
| session | queue 2; 2 openers against a limit of 1; 1 opener and server keepalive (2 ticks); 1 opener and a client that may close or give up starting; client keepalive and a server that may give up starting | AckHonest, ServerLimit, NoProtocolError, HandlersTold, WaitClosedResolves |
| session_close | the last two of these; fair | PeerLearns |
| sync_transfer | 2 paths with contents of up to 2 blocks (one of them empty), plans of one or two jobs of every kind, messages in flight ≤ 2, 1 edit, 2 faults; fair | ServerTreeRight, NoMixedContent, HonestVerdict, DeletionRecorded, PassEnds |
| sync_pass | server and 2 clients: both bidirectional with one fast clock, one readonly, or one client and calm users; 3 user operations, 1 crash, tombstones pruned at age 2; fair | OnlyUsersDelete, NothingVanishes, ConvergesOrStarves, NewestSurvivesInPairs |
| sync_daemon | another client's 2 sessions, channels of 1, 2 tunnels, backoff to 2, 2 changes on the server or 1 there and 1 local; fair | ActiveCount, LocalWakeup, RemoteChangesReach, LocalChangesReach |
| edge | 2 connections for 1 slot, 2 challenges each, peers of every kind, one that does not read included; 3 front ends with up to 2 items up and 1 down, 1 fault and the session's death; 9 targets against 9 router configurations; 2 datagrams each way from 2 sources; fair | SlotsExact, ProvenFirst, ThroughInOrder, ReplyHonest, RouteRight, OneClient, SlotsReturn, BridgeEnds, Answered, Carried, AssociationEnds |

`TypeOK` of the other modules describes their state and the bounds of their queues; it
holds on the same instances and can be added to the INVARIANTS of each configuration.

Three more runs state what a comment, a document or a test promises and find a
behaviour of the code that departs from it; `findings` in PROJECT.json quotes each line.

| Run | Property | What happens |
|---|---|---|
| stream_abandon | PumpFinishes | after a drop and FIN the stream retires; later DATA earns no grant; the sender parks |
| sync_desync | ClientTreeRight | `get_file` is sent, then creating the temporary file fails; the unread answer is taken for the next file's, and one file's content is installed under another's path |
| sync_newest | NewestSurvives | with a fast client clock the client's own upload looks newer than the user's next edit, and the next pass downloads it over that edit |

Ten configurations outside the list of runs record smaller departures. Each is
violated by TLC (`tlc -config <cfg> <module>`); hazards of PROJECT.json refer to them.

| Configuration | Module | Property | What happens |
|---|---|---|---|
| MCStreamEof.cfg | MCMuxStream | EofIsComplete | an abort shuts the duplex down, which the app reads as EOF |
| MCStreamRetire.cfg | MCMuxStream | PumpCanEnd | `try_send(Abort)` on a full queue is lost |
| MCStreamWedge.cfg | MCMuxStream | NoCircularWait | both inbound pumps wait to send a grant behind parked readers |
| MCSessionWriter.cfg | MCMuxSession | WriterEnds | the lone-frame path never looks at `closed` |
| MCSessionWaitClosed.cfg | MCMuxSession | WaitClosedPromised | HELLO after a keepalive teardown sets `ready` again |
| MCSyncMixed.cfg | MCSyncTransfer | NeverMixed | a file rewritten in place three times, around the blocks of the hash and of the content, is hashed and sent as the same mixture, verified and installed ("no mixed content", src/README.md:204) |
| MCSyncDeletion.cfg | MCSyncTransfer | DeletionKept | a tombstone that cannot be saved is only logged (tombstones.rs:160) and the deletion acknowledged; an unreadable store counts as empty and is overwritten ("advisory state", tombstones.rs:62) |
| MCEdgeDeadline.cfg | MCEdge | SlotsTimed | the deadline is on the read alone (ws.rs:746); a peer that does not read what it is sent keeps its slot ("one deadline for the whole auth exchange", ws.rs:743) |
| MCEdgeBridge.cfg | MCEdge | BridgeGone | after the session's end its writer waits on its own channel (mux.rs:1021, as in MCSessionWriter.cfg) and holds the duplex, so the bridge's writer never reads its end |
| MCSyncConverge.cfg | MCSyncPass | Converges | a local tombstone newer than the server's file starves the client of it until it is pruned ("every endpoint eventually agrees", src/README.md:204) |

Departures with no configuration: a receiver may buffer up to a chunk more than its
window (WRITER_CONTRACT.md item 5; `FlightBound` is the bound that holds); concurrent
`open_stream` calls may exceed `max_streams` at the client (`ServerLimit` is the limit
that holds); pending opens are not failed by a teardown but run into their 12 s timeout;
a tree that never rests keeps `settle` waiting (daemon.rs:136), which the bounded changes
of the model cannot show; an upstream that breaks, and a session that dies, reach the
application as a clean end of input, which ThroughInOrder allows after either because the
code does; when the tunnel dies under a UDP association its idle relay loop goes on
until the control connection closes, although server.rs:356 speaks of the client's relay
loop ending promptly (`AssociationEnds` says which tasks end); a target without a host
passes any `clientTargets.allowHosts` (router.rs:173), which src/README.md:307 calls the
"host patterns a client may pick" (`Promised` has it as the code does); a failed pass
leaves its tunnel open although daemon.rs:8 says it drops it.

**What the properties with an exception say.** HandlersTold, WaitClosedResolves,
NoMixedContent, DeletionRecorded, SlotsReturn, BridgeEnds and AssociationEnds name the
cases of the tables above as exceptions, by the history variable or the state that is
exactly that case, and so state that nothing else goes wrong. HandlersTold has one more:
a server whose keepalive gives up, or that closes, while its reader stands between check
and insert of an OPEN starts a handler that no snapshot contains.

**What ConvergesOrStarves and NewestSurvivesInPairs leave out, and why.** Both are the
strongest forms found that the code satisfies. The exceptions of the first are the
starved copy above and two versions with equal mtimes, which the diff calls a
conflict. The second asks for one two-way client, one clock that the handshake measures
as one, and users who do not write during a pass: with two clients the sync re-stamps
deletions; with two clocks it keeps foreign mtimes unconverted; the latency of hello_ack
is taken for a difference of clocks, which makes a deletion look later than the write
that followed it; an edit after a scan is overwritten by the rename; and a readonly
client takes whatever the server has.

**Bounds.** The interesting cases are relations between sizes, not sizes: a
window below, at and above a chunk; a frame smaller than a chunk; a queue that
one or two frames fill; one more opener, or connection, than the limit allows; two
jobs, so that the rest of one can be taken for the next; two clients, so that one
passes on what the other did. `Budget`, `Budgets`, `NetCap`, the `ticks` of a MuxSession use, the `faults` of a Relay
job, and every constant named `Max...` in
the sync and edge models (edits, faults, operations, time, crashes, tunnels, changes,
challenges, datagrams) are bounds of the model; the other constants are the code's
parameters at small values. `Latency` and `Tolerance` (hello round trip, equality of
mtimes) are 0 in the instances and arbitrary in the proofs (NewestKept is about a
`Latency` of 0, which NewestSurvivesInPairs asks for). What the bounds leave out:
a second fault after a first in the mux (`MaxFaults` = 1); a fault other than a drop
together with window growth; payload in both directions at once, except in
MCStreamWedge, so EventuallyDelivered is about one direction in use and MCStreamWedge
shows that it does not extend to two; a close or a keepalive with two openers, a close
at the server; three clients; a plan of three jobs; more than one crash. The scenes of
MCEdge vary one part at a time (peers, modes, front ends, routes, UDP) and keep the
others at one simple case.

**Fairness.** tokio polls every task that can make progress, so the following are
weakly fair: the steps of a pump, the reader and the ticker (MuxStream); of the writer,
the reader and a teardown once begun (MuxSession); of client and server of a transfer,
and the client's noticing that its peer has gone (SyncTransfer); of each client's
passes, which the daemon repeats at the latest after its interval, and of each watcher
(SyncPass); of the daemon loop, the interval timer, the end of settle, hub, notify
sessions, watcher thread and the end of a session (SyncDaemon); of each connection's
task including the deadline of its reads and the browser's answer to a close, of its
writes towards a peer that reads or is gone, of both copies, the endpoints that have
something to send, and both UDP tasks (Edge). The end of a session's writer task is not
assumed.
`InWrite` is fair for an app that keeps reading. Nothing is assumed of users
(writing, deleting, closing, dropping), of openers and handlers, of faults, or of clocks.

## Proofs

| Theorem | Module | States, for every value of the constants |
|---|---|---|
| TypeCorrect, CreditConserved, OverdraftBounded, SenderNeverWedged | CreditLedgerProofs | TypeOK, Conservation, FlightBound, NeverWedged |
| RegistrationOutlivesUse, StreamInOrder, StreamFinIsComplete | MuxStreamProofs | RegisteredWhileNeeded, InOrder, FinIsComplete |
| StreamCreditBalance, StreamImplementsLedger | MuxStreamCreditProofs | CreditBalance; ImplementsLedger, the refinement of CreditLedger |
| ServerWithinLimit, SessionNoProtocolError, SessionAckHonest | MuxSessionProofs | ServerLimit, NoProtocolError, AckHonest |
| SessionWaitClosedResolves, SessionHandlersTold | MuxSessionProofs | WaitClosedResolves, HandlersTold |
| GuardsCounted, NoLostWakeup | SyncDaemonProofs | ActiveCount, LocalWakeup |
| TombstonesFromUsers, FilesStay, NewestKept | SyncPassProofs | OnlyUsersDelete, NothingVanishes, NewestSurvivesInPairs |
| UploadsLandRight, DeletionsRecorded, VerdictsHonest, ContentsWhole | SyncTransferProofs | ServerTreeRight, DeletionRecorded, HonestVerdict; NoMixedContent, and NeverMixed as long as `blurred` is empty |
| SlotCounterExact, SessionsProven; EdgeSlotsExact, EdgeSessionsProven | EdgeProofs | SlotsExact, ProvenFirst, of WsGate alone and in the composition |
| AssociationServesOne, RelayRouteRight, RelayReplyHonest, RelayThroughInOrder | EdgeProofs | OneClient, RouteRight, ReplyHonest, ThroughInOrder in the composition |

The assumptions are the named ASSUMEs of each component (positive sizes and caps,
`RxWindow <= RxWindowMax`, finite sets of openers, connections and sessions, clocks
that are integers, plans over paths of the tree whose uploads exist, scenes of possible
peers and modes, data that is none of Relay's own words, routes and host patterns that
are finite lists), evaluated by TLC in the runs of that component.

*Ledger.* Conservation alone is not inductive: that `charged` never exceeds what
was taken and that a chunk is paid for before the next is read depends on where the
loop stands. `LedgerInv` adds the types and `LoopInv` (the loop
position), and the three other results follow from it without further induction:
the overdraft is `off - charged`, below a chunk; and a waiting sender with
nothing outstanding has `charged < off + granted`, so Conservation leaves it a
positive `credits`.

*Registration.* `RegInv` ties `reg` to the two flags; the only steps that clear
it are `TryRetire`, after both flags, and teardown, after `closed`.

*Order.* `PumpInv` is what the tasks keep to whatever is in the queues: a chunk is sent
before the next is read, and a pump that ends clean has sent all that was written.
`OrderInv` adds `Chains`: while the receiver's pump works for an app, the DATA frames of
its queue, of the link and of the sender's hand follow one another from the position
the app has reached to the position the sender has taken, a FIN comes last and only at
the end, and frames go missing only where the reader no longer passes any on.

*Credit.* The sums over queues are recursive functions; what appending, popping and
replacing a frame does to them is proved once (`ByteSumFacts`, `GrantSumFacts`), by
taking the least length at which two sums would differ. `CreditInv` adds `HeldInv`, the
places where the inbound pump's hands are empty. Each action is shown to be a
named step of the ledger, or to leave it alone (`Accounted`); the ledger's `lost` is
what the books lack. CreditBalance (nothing is lost while the stream is intact) and
ImplementsLedger both follow from that one case analysis, so that the four results
about the ledger hold of the stream.

*Server limit.* The check and the insert are separate, so the invariant
strengthens the bound while an OPEN is between them: the map then has room for
one more. No other step at the server adds a stream (lemma `Shrinks`).

*Session.* `HelloInv` follows HELLO through writer queue and connection: until an end
has read it, it is the first frame under way to it and the only HELLO. `WaitInv` adds
that at an end whose keepalive was not hasty, once it is closed, either the reader has
ended or no HELLO is under way any more, so that nothing sets `ready` after the teardown.
`ToldInv` says where the teardown will find a handler that is still at work: in the map,
then in the snapshot, then among those told or lost; or it came late. `AckInv` says that ids are handed out once,
that an ACK under way, received or acted upon is of an id whose handler accepted, and
that until then there is at most one OPEN for it.

*Slots.* `SlotInv` is the types and SlotsExact, over the cardinality of the set of
connections in the exchange; each way in adds one element and each way out removes
one. `ProofInv` adds that a challenge is only issued to an admitted key, which
ProvenFirst needs and does not say. Both are proved over `GateSpec`, WsGate alone, and
carried over to Edge, each of whose steps is one of WsGate's or leaves its variables
unchanged (lemma `GateSteps`).

*Association.* `ClientInv` adds that whatever waits in the tunnel came from the client:
a datagram is sent on long after its source was compared, and what the session's death
leaves of the queue are its own items and an end (`CutIs`).

*Router and relay.* `resolve` loops over the routes; that it returns the first that
matches (`ResolveIs`) is shown by taking the last index at which the loop and the
promise would differ, and RouteRight follows (`RouteInv`). `ReplyInv` ties the reply
under way and the replies seen to the server's place and verdict. `UpInv` and `DownInv`
say that what an end has, what the tunnel, the read-ahead and the sockets hold and what
the other end still has to say are together the whole, in order, while the session lives,
and that a fault or its death (`Broken`) may only cut this short, with at most one early
end of input: a copy that has read one reads no more (`Unended`), and whatever the
death leaves of a queue is again such a part (`PartSevered`, `PartStranded`).

*Daemon.* `CountInv` counts guards as above. `WakeInv` says where a local change that
no scan has seen can be: with the watcher, in the channel, swallowed by a settle that
leads to a pass, or ahead of a pass that is due.

*Passes.* OnlyUsersDelete is inductive together with the types, strengthened by
`Held`: what a pass is about to install or upload is a file. FilesStay then follows
step by step: until a user deletes, no pass plans a deletion, so the only
steps that touch a tree write a file into it.

*Last writer.* `NewestInv` is about the server and its one client, under the conditions
of NewestSurvivesInPairs: what a pass has scanned is still there when it acts (`Seen`);
no stamp and no mtime lies in the future (`Past`); where one of the two copies is the
latest write, no stamp and no mtime is later than its own, and no removal is unreported
(`Tops`); so what a plan will replace or remove is never that copy (`Spares`). That the
diff decides so is lemma `DecideNewest`.

*Transfers.* `TreeInv` follows a content from the plan through put_start to the hash
an open upload has to match; a verified upload is that content. `DelInv` says that
question and answer of a deletion are never both under way and neither is once the
client has moved on (`Phase`), so that the acknowledgement it takes is that of its own
path; that a positive one's path is in the server's store, or one the store lost, is
then enough. `PutInv` does
the same for uploads, with four moments (`Idle`, `Asked`, `Taken`, `Told`), and adds
that a positive answer under way is about the bytes last installed. `MixInv` keeps
blocks and headers of the downward queue in step with the client's place (`Framed`), so
that what is verified is verified against a hash that the server announced, which is the
hash of a whole content, even where it is that of another path, or is in `blurred`.

Only model-checked: all liveness (EventuallyDelivered, PeerLearns, PassEnds,
ConvergesOrStarves, RemoteChangesReach, LocalChangesReach, SlotsReturn, BridgeEnds,
Answered, Carried, AssociationEnds), because liveness under fairness and ENABLED are out
of reach of the prover, and the properties that the code violates. Induction over
data is available only for a set of naturals through its least element (lemma `Least`),
which is what the sums over queues and the router's loop use.

## Not modelled

- Frame codec, compression, WebSocket frames, SOCKS5 and HTTP headers, UDP headers,
  JSON messages, configuration files: bytes in, values out, nothing that outlives a
  call. The models exchange values and keep the one control effect, that something may
  not parse.
- TLS, key files, signatures, command lines: cryptography and start-up I/O.
- The scanner's directory walk, hash cache and root lock: file-system I/O. Its one
  effect on the protocol is left out: the cache (scanner.rs:63) trusts size and mtime,
  so a file rewritten within both is reported with its old hash.
- In MuxSession: `ping()`, HELLO field negotiation, malformed frames and stream id
  wrap-around. In SyncPass: names a platform refuses, file locks, files that cannot be
  hashed. In the hub: telling removed directories from removed files.
- Weak memory: the two-flag retirement (`try_retire`) is only checked under sequential
  consistency.
- The Go, Python, TypeScript and browser ports: each has its own locking and task
  structure and would need models of its own.
