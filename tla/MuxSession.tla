----------------------------- MODULE MuxSession -----------------------------
(***************************************************************************)
(* The life of one CMPX session between a client and a server              *)
(* (crates/krymux/src/mux.rs): start and the HELLO exchange, the writer    *)
(* task with its queue, lone-frame path and batches, the reader task,      *)
(* stream opening with its limit, ack and timeout, keepalive, GOAWAY and   *)
(* the steps of teardown.  Stream payload is MuxStream.tla's subject: here *)
(* a stream is its registration and its end.                               *)
(*                                                                         *)
(* A frame is a pair <<type, stream id>>.                                  *)
(***************************************************************************)
EXTENDS Integers, Sequences, FiniteSets

CONSTANTS
    Openers,      \* client tasks that each call open_stream once
    MaxStreams,   \* SessionOpts.max_streams of both ends
    WriterCap,    \* capacity of the writer channel (1024)
    NetCap,       \* bound: frames the connection holds
    BatchMax,     \* frames in a batch of the writer (MAX_BATCH_FRAMES + 1)
    Misses,       \* intervals without a PONG keepalive tolerates (3)
    Uses          \* ways a session is used, of which a behaviour has one:
                  \*   openers: the openers that act
                  \*   ticks: bound on the keepalive ticks of each end (0: keepalive off)
                  \*   impatient: the ends whose start may run into its 10 s timeout
                  \*   closers: the ends whose holder may call close()

ASSUME SessionAssumption ==
    /\ IsFiniteSet(Openers)
    /\ MaxStreams \in Nat \ {0}
    /\ WriterCap \in Nat /\ WriterCap >= 2
    /\ NetCap \in Nat \ {0}
    /\ BatchMax \in Nat /\ BatchMax >= 2
    /\ Misses \in Nat
    /\ \A u \in Uses :
         /\ u.openers \subseteq Openers /\ u.ticks \in [{"c", "s"} -> Nat]
         /\ u.impatient \subseteq {"c", "s"} /\ u.closers \subseteq {"c", "s"}

Ends == {"c", "s"}
Peer(e) == IF e = "c" THEN "s" ELSE "c"

VARIABLES
    use,       \* the member of Uses this session is; fixed
    start,     \* MuxSession::start of each end: "wait", "ok" or "failed"
    ready,     \* Shared.ready_tx
    closed,    \* Shared.closed
    tdpc,      \* progress of teardown: "no", "snap", "clear", "abort", "ready", "done"
    tdset,     \* the streams teardown took its snapshot of
    wq,        \* the writer channel
    wpc,       \* writer_task: "recv", "check" (after a batch) or "exit"
    net,       \* frames on the connection, written by this end
    rdr,       \* reader_task: "run", "open" (inside an OPEN it takes) or "exit"
    opening,   \* the stream id of that OPEN
    streams,   \* Shared.streams
    told,      \* streams whose app has been given an end (Abort or EOF)
    next_id,   \* Shared.next_id of the client
    ost, osid, \* open_stream of each opener: where it is, its stream id
    ack,       \* the oneshot of each opener: "none", "ok" or "no"
    hst,       \* the server's handler of each stream id
    ticks,     \* keepalive ticks so far
    silence,   \* ticks since the last PONG
    lost,      \* history: streams whose Abort found their inbound queue full
    late,      \* history: streams the server took after teardown's snapshot
    hasty      \* history: ends whose keepalive gave up before the peer's HELLO

flagVars == <<ready, closed, tdpc, tdset>>
openVars == <<next_id, ost, osid, ack>>
aliveVars == <<ticks, silence>>
handVars == <<hst, opening>>
noteVars == <<lost, late, hasty>>
vars == <<use, start, flagVars, wq, wpc, net, rdr, streams, told, openVars, handVars,
          aliveVars, noteVars>>

Sids == {2 * i - 1 : i \in 1..Cardinality(Openers)}
Frames == {<<t, 0>> : t \in {"HELLO", "PING", "PONG", "GOAWAY"}}
          \cup ({"OPEN", "ACK", "NACK", "FIN"} \X Sids)

-----------------------------------------------------------------------------
(* Mutant: start does not queue HELLO. *)
FirstFramesNone == <<>>
FirstFrames == <<<<"HELLO", 0>>>>

(* start queues HELLO before it spawns any task. *)
Init ==
    /\ use \in Uses
    /\ start = [e \in Ends |-> "wait"]
    /\ ready = [e \in Ends |-> FALSE]
    /\ closed = [e \in Ends |-> FALSE]
    /\ tdpc = [e \in Ends |-> "no"]
    /\ tdset = [e \in Ends |-> {}]
    /\ wq = [e \in Ends |-> FirstFrames]
    /\ wpc = [e \in Ends |-> "recv"]
    /\ net = [e \in Ends |-> <<>>]
    /\ rdr = [e \in Ends |-> "run"]
    /\ streams = [e \in Ends |-> {}]
    /\ told = [e \in Ends |-> {}]
    /\ next_id = 1
    /\ ost = [o \in Openers |-> "idle"]
    /\ osid = [o \in Openers |-> 0]
    /\ ack = [o \in Openers |-> "none"]
    /\ hst = [i \in Sids |-> "none"]
    /\ opening = 0
    /\ ticks = [e \in Ends |-> 0]
    /\ silence = [e \in Ends |-> 0]
    /\ lost = [e \in Ends |-> {}]
    /\ late = {}
    /\ hasty = {}

-----------------------------------------------------------------------------
(* The queue: try_send of send_control loses a frame that finds no room,   *)
(* and sends nothing but GOAWAY once the session is closed; wait_send      *)
(* waits for room.  Both fail once the writer task has dropped the queue.  *)
Up(e) == wpc[e] # "exit"
Room(e) == Len(wq[e]) < WriterCap
Queued(e, f) == [wq EXCEPT ![e] = Append(@, f)]
Control(e, f) ==
    IF Up(e) /\ Room(e) /\ ~closed[e] THEN Queued(e, f) ELSE wq
ControlGoaway(e) ==
    IF Up(e) /\ Room(e) THEN Queued(e, <<"GOAWAY", 0>>) ELSE wq

(* The connection of e is gone when both its tasks have dropped their half.*)
SocketGone(e) == wpc[e] = "exit" /\ rdr[e] = "exit"

-----------------------------------------------------------------------------
(* start waits for the peer's HELLO, ... *)
StartOk(e) ==
    /\ start[e] = "wait"
    /\ ready[e]
    /\ start' = [start EXCEPT ![e] = "ok"]
    /\ UNCHANGED <<flagVars, wq, wpc, net, rdr, streams, told, openVars, handVars,
                   aliveVars, noteVars>>

(* ... and after 10 s aborts its tasks and tears down. *)
StartTimeout(e) ==
    /\ start[e] = "wait"
    /\ e \in use.impatient
    /\ ~ready[e] /\ tdpc[e] \in {"no", "done"}
    /\ start' = [start EXCEPT ![e] = "failed"]
    /\ wpc' = [wpc EXCEPT ![e] = "exit"]
    /\ rdr' = [rdr EXCEPT ![e] = "exit"]
    /\ closed' = [closed EXCEPT ![e] = TRUE]
    /\ tdpc' = [tdpc EXCEPT ![e] = "snap"]
    /\ UNCHANGED <<ready, tdset, wq, net, streams, told, openVars, handVars,
                   aliveVars, noteVars>>

-----------------------------------------------------------------------------
(* writer_task.                                                            *)
NetRoom(e) == SocketGone(Peer(e)) \/ Len(net[e]) < NetCap
Written(e, s) == IF SocketGone(Peer(e)) THEN net ELSE [net EXCEPT ![e] = @ \o s]

(* A lone frame is written as it is, and the task goes back to recv. *)
WriterLone(e) ==
    /\ wpc[e] = "recv"
    /\ Len(wq[e]) = 1
    /\ NetRoom(e)
    /\ net' = Written(e, wq[e])
    /\ wq' = [wq EXCEPT ![e] = <<>>]
    /\ UNCHANGED <<start, flagVars, wpc, rdr, streams, told, openVars, handVars,
                   aliveVars, noteVars>>

(* Two or more frames go out in one write; then closed is looked at. *)
WriterBatch(e) ==
    /\ wpc[e] = "recv"
    /\ Len(wq[e]) >= 2
    /\ LET k == IF Len(wq[e]) < BatchMax THEN Len(wq[e]) ELSE BatchMax IN
         /\ NetRoom(e)
         /\ net' = Written(e, SubSeq(wq[e], 1, k))
         /\ wq' = [wq EXCEPT ![e] = SubSeq(@, k + 1, Len(@))]
    /\ wpc' = [wpc EXCEPT ![e] = "check"]
    /\ UNCHANGED <<start, flagVars, rdr, streams, told, openVars, handVars,
                   aliveVars, noteVars>>

(* Mutant: the writer never looks at closed. *)
WriterCheckNever(e) ==
    /\ wpc[e] = "check"
    /\ wpc' = [wpc EXCEPT ![e] = "recv"]
    /\ UNCHANGED <<start, flagVars, wq, net, rdr, streams, told, openVars, handVars,
                   aliveVars, noteVars>>

(* Closed: flush what is queued, shut the write half down. *)
WriterCheck(e) ==
    /\ wpc[e] = "check"
    /\ IF closed[e]
       THEN /\ NetRoom(e)
            /\ net' = Written(e, wq[e])
            /\ wq' = [wq EXCEPT ![e] = <<>>]
            /\ wpc' = [wpc EXCEPT ![e] = "exit"]
       ELSE /\ wpc' = [wpc EXCEPT ![e] = "recv"]
            /\ UNCHANGED <<net, wq>>
    /\ UNCHANGED <<start, flagVars, rdr, streams, told, openVars, handVars,
                   aliveVars, noteVars>>

(* A write to a connection the peer has dropped fails. *)
WriterError(e) ==
    /\ wpc[e] = "recv"
    /\ wq[e] # <<>>
    /\ SocketGone(Peer(e))
    /\ wpc' = [wpc EXCEPT ![e] = "exit"]
    /\ wq' = [wq EXCEPT ![e] = <<>>]
    /\ UNCHANGED <<start, flagVars, net, rdr, streams, told, openVars, handVars,
                   aliveVars, noteVars>>

-----------------------------------------------------------------------------
(* teardown, one lock scope at a time: the snapshot of the streams, ...    *)
TeardownSnap(e) ==
    /\ tdpc[e] = "snap"
    /\ tdset' = [tdset EXCEPT ![e] = streams[e]]
    /\ tdpc' = [tdpc EXCEPT ![e] = "clear"]
    /\ UNCHANGED <<start, ready, closed, wq, wpc, net, rdr, streams, told, openVars,
                   handVars, aliveVars, noteVars>>

(* ... the clearing of the map, ... *)
TeardownClear(e) ==
    /\ tdpc[e] = "clear"
    /\ streams' = [streams EXCEPT ![e] = {}]
    /\ tdpc' = [tdpc EXCEPT ![e] = "abort"]
    /\ UNCHANGED <<start, ready, closed, tdset, wq, wpc, net, rdr, told, openVars,
                   handVars, aliveVars, noteVars>>

(* Streams whose inbound queue the peer may have filled: accepted ones. *)
Fillable(e) ==
    IF e = "s" THEN {i \in Sids : hst[i] = "acc"}
               ELSE {osid[o] : o \in {p \in Openers : ack[p] = "ok"}}

(* Mutant: the streams to abort are read from the map after it was cleared. *)
TeardownAbortLate(e) ==
    /\ tdpc[e] = "abort"
    /\ told' = [told EXCEPT ![e] = @ \cup streams[e]]
    /\ tdpc' = [tdpc EXCEPT ![e] = "ready"]
    /\ UNCHANGED <<start, ready, closed, tdset, wq, wpc, net, rdr, streams, openVars,
                   handVars, aliveVars, noteVars>>

(* ... the Abort for each stream of the snapshot, by a try_send that loses *)
(* it when the stream's inbound queue is full, and the ready watch.        *)
TeardownAbort(e) ==
    /\ tdpc[e] = "abort"
    /\ \E full \in SUBSET (tdset[e] \cap Fillable(e)) :
         /\ told' = [told EXCEPT ![e] = @ \cup (tdset[e] \ full)]
         /\ lost' = [lost EXCEPT ![e] = @ \cup full]
    /\ tdpc' = [tdpc EXCEPT ![e] = "ready"]
    /\ UNCHANGED <<start, ready, closed, tdset, wq, wpc, net, rdr, streams, openVars,
                   handVars, aliveVars, late, hasty>>

(* Mutant: the ready watch is not reset. *)
TeardownReadyKept(e) ==
    /\ tdpc[e] = "ready"
    /\ tdpc' = [tdpc EXCEPT ![e] = "done"]
    /\ UNCHANGED <<start, ready, closed, tdset, wq, wpc, net, rdr, streams, told,
                   openVars, handVars, aliveVars, noteVars>>

TeardownReady(e) ==
    /\ tdpc[e] = "ready"
    /\ ready' = [ready EXCEPT ![e] = FALSE]
    /\ tdpc' = [tdpc EXCEPT ![e] = "done"]
    /\ UNCHANGED <<start, closed, tdset, wq, wpc, net, rdr, streams, told, openVars,
                   handVars, aliveVars, noteVars>>

(* MuxSession::close: swap, GOAWAY, teardown. *)
Close(e) ==
    /\ start[e] = "ok"
    /\ e \in use.closers
    /\ ~closed[e]
    /\ closed' = [closed EXCEPT ![e] = TRUE]
    /\ wq' = ControlGoaway(e)
    /\ tdpc' = [tdpc EXCEPT ![e] = "snap"]
    /\ UNCHANGED <<start, ready, tdset, wpc, net, rdr, streams, told, openVars,
                   handVars, aliveVars, noteVars>>

-----------------------------------------------------------------------------
(* reader_task and handle_frame.                                           *)
CanRead(e) == rdr[e] = "run" /\ net[Peer(e)] # <<>>
Frame(e) == Head(net[Peer(e)])
Popped(e) == [net EXCEPT ![Peer(e)] = Tail(@)]

(* The reader's loop ends: whoever sets closed first tears down. *)
ReaderExit(e) ==
    /\ rdr' = [rdr EXCEPT ![e] = "exit"]
    /\ closed' = [closed EXCEPT ![e] = TRUE]
    /\ tdpc' = IF closed[e] THEN tdpc ELSE [tdpc EXCEPT ![e] = "snap"]

ReadEof(e) ==
    /\ rdr[e] = "run"
    /\ net[Peer(e)] = <<>>
    /\ wpc[Peer(e)] = "exit"
    /\ ReaderExit(e)
    /\ UNCHANGED <<start, ready, tdset, wq, wpc, net, streams, told, openVars,
                   handVars, aliveVars, noteVars>>

(* GOAWAY, a second HELLO, or anything but HELLO while not ready. *)
MustStop(e) ==
    \/ Frame(e)[1] = "GOAWAY"
    \/ ready[e] /\ Frame(e)[1] = "HELLO"
    \/ ~ready[e] /\ Frame(e)[1] # "HELLO"

ReadStop(e) ==
    /\ CanRead(e)
    /\ MustStop(e)
    /\ net' = Popped(e)
    /\ ReaderExit(e)
    /\ UNCHANGED <<start, ready, tdset, wq, wpc, streams, told, openVars, handVars,
                   aliveVars, noteVars>>

ReadHello(e) ==
    /\ CanRead(e) /\ ~MustStop(e)
    /\ Frame(e)[1] = "HELLO"
    /\ ready' = [ready EXCEPT ![e] = TRUE]
    /\ net' = Popped(e)
    /\ UNCHANGED <<start, closed, tdpc, tdset, wq, wpc, rdr, streams, told,
                   openVars, handVars, aliveVars, noteVars>>

(* Mutant: off by one. *)
AtLimitOver == Cardinality(streams["s"]) > MaxStreams
(* OPEN at the server: refuse past the limit or for an id in use, ... *)
AtLimit == Cardinality(streams["s"]) >= MaxStreams

ReadOpen ==
    /\ CanRead("s") /\ ~MustStop("s")
    /\ Frame("s")[1] = "OPEN"
    /\ LET i == Frame("s")[2] IN
         IF AtLimit \/ i \in streams["s"]
         THEN wq' = Control("s", <<"NACK", i>>) /\ UNCHANGED <<rdr, opening>>
         ELSE /\ rdr' = [rdr EXCEPT !["s"] = "open"]
              /\ opening' = i
              /\ UNCHANGED wq
    /\ net' = Popped("s")
    /\ UNCHANGED <<start, flagVars, wpc, streams, told, openVars, hst, aliveVars,
                   noteVars>>

(* ... else register the stream and hand it to the handler. *)
ReadOpenInsert ==
    /\ rdr["s"] = "open"
    /\ streams' = [streams EXCEPT !["s"] = @ \cup {opening}]
    /\ hst' = [hst EXCEPT ![opening] = "run"]
    /\ rdr' = [rdr EXCEPT !["s"] = "run"]
    /\ opening' = 0
    /\ late' = IF tdpc["s"] \in {"no", "snap"} THEN late ELSE late \cup {opening}
    /\ UNCHANGED <<start, flagVars, wq, wpc, net, told, openVars, aliveVars, lost, hasty>>

(* Mutant: the ok field is not read. *)
AnswerOk == "ok"
(* OPEN_ACK: complete the oneshot of a stream that is still registered. *)
Answer == IF Frame("c")[1] = "ACK" THEN "ok" ELSE "no"
ReadAck ==
    /\ CanRead("c") /\ ~MustStop("c")
    /\ Frame("c")[1] \in {"ACK", "NACK"}
    /\ ack' = [o \in Openers |->
                 IF osid[o] = Frame("c")[2] /\ osid[o] \in streams["c"]
                    /\ ack[o] = "none"
                 THEN Answer
                 ELSE ack[o]]
    /\ net' = Popped("c")
    /\ UNCHANGED <<start, flagVars, wq, wpc, rdr, streams, told, next_id, ost, osid,
                   handVars, aliveVars, noteVars>>

(* The end of the peer's direction of a stream. *)
ReadFin(e) ==
    /\ CanRead(e) /\ ~MustStop(e)
    /\ Frame(e)[1] = "FIN"
    /\ told' = [told EXCEPT ![e] = @ \cup ({Frame(e)[2]} \cap streams[e])]
    /\ net' = Popped(e)
    /\ UNCHANGED <<start, flagVars, wq, wpc, rdr, streams, openVars, handVars,
                   aliveVars, noteVars>>

ReadPing(e) ==
    /\ CanRead(e) /\ ~MustStop(e)
    /\ Frame(e)[1] = "PING"
    /\ wq' = Control(e, <<"PONG", 0>>)
    /\ net' = Popped(e)
    /\ UNCHANGED <<start, flagVars, wpc, rdr, streams, told, openVars, handVars,
                   aliveVars, noteVars>>

ReadPong(e) ==
    /\ CanRead(e) /\ ~MustStop(e)
    /\ Frame(e)[1] = "PONG"
    /\ silence' = [silence EXCEPT ![e] = 0]
    /\ net' = Popped(e)
    /\ UNCHANGED <<start, flagVars, wq, wpc, rdr, streams, told, openVars, handVars,
                   ticks, noteVars>>

-----------------------------------------------------------------------------
(* keepalive_task: a tick sends a PING and waits for room in the queue, ...*)
KeepaliveOn(e) == start[e] # "failed" /\ ~closed[e] /\ ticks[e] < use.ticks[e]
Overdue(e) == silence[e] > Misses

KeepalivePing(e) ==
    /\ KeepaliveOn(e) /\ ~Overdue(e)
    /\ Up(e) /\ Room(e)
    /\ wq' = Queued(e, <<"PING", 0>>)
    /\ ticks' = [ticks EXCEPT ![e] = @ + 1]
    /\ silence' = [silence EXCEPT ![e] = @ + 1]
    /\ UNCHANGED <<start, flagVars, wpc, net, rdr, streams, told, openVars,
                   handVars, noteVars>>

(* ... or, when no PONG came for too long, ends the session. *)
KeepaliveTimeout(e) ==
    /\ KeepaliveOn(e) /\ Overdue(e)
    /\ closed' = [closed EXCEPT ![e] = TRUE]
    /\ wq' = ControlGoaway(e)
    /\ tdpc' = [tdpc EXCEPT ![e] = "snap"]
    /\ hasty' = IF ready[e] THEN hasty ELSE hasty \cup {e}
    /\ UNCHANGED <<start, ready, tdset, wpc, net, rdr, streams, told, openVars, handVars,
                   aliveVars, lost, late>>

-----------------------------------------------------------------------------
(* open_stream: the checks and the id, ... *)
OpenCheck(o) ==
    /\ ost[o] = "idle"
    /\ start["c"] = "ok"
    /\ IF closed["c"] \/ Cardinality(streams["c"]) >= MaxStreams
       THEN /\ ost' = [ost EXCEPT ![o] = "gone"]
            /\ UNCHANGED <<next_id, osid>>
       ELSE /\ ost' = [ost EXCEPT ![o] = "checked"]
            /\ osid' = [osid EXCEPT ![o] = next_id]
            /\ next_id' = next_id + 2
    /\ UNCHANGED <<start, flagVars, wq, wpc, net, rdr, streams, told, ack, handVars,
                   aliveVars, noteVars>>

(* ... the registration, after the stream was built, ... *)
OpenInsert(o) ==
    /\ ost[o] = "checked"
    /\ streams' = [streams EXCEPT !["c"] = @ \cup {osid[o]}]
    /\ ost' = [ost EXCEPT ![o] = "insert"]
    /\ UNCHANGED <<start, flagVars, wq, wpc, net, rdr, told, next_id, osid, ack,
                   handVars, aliveVars, noteVars>>

(* ... the OPEN frame (an error once the writer is gone), ... *)
OpenSend(o) ==
    /\ ost[o] = "insert"
    /\ \/ /\ Up("c") /\ Room("c")
          /\ wq' = Queued("c", <<"OPEN", osid[o]>>)
          /\ ost' = [ost EXCEPT ![o] = "wait"]
       \/ /\ ~Up("c")
          /\ ost' = [ost EXCEPT ![o] = "failed"]
          /\ UNCHANGED wq
    /\ UNCHANGED <<start, flagVars, wpc, net, rdr, streams, told, next_id, osid,
                   ack, handVars, aliveVars, noteVars>>

(* ... and the answer, or the timeout. *)
OpenAnswer(o) ==
    /\ ost[o] = "wait"
    /\ \/ /\ ack[o] = "ok"
          /\ ost' = [ost EXCEPT ![o] = "open"]
          /\ UNCHANGED streams
       \/ /\ ack[o] # "ok"
          /\ ost' = [ost EXCEPT ![o] = "failed"]
          /\ streams' = [streams EXCEPT !["c"] = @ \ {osid[o]}]
    /\ UNCHANGED <<start, flagVars, wq, wpc, net, rdr, told, next_id, osid, ack,
                   handVars, aliveVars, noteVars>>

(* The TunnelStream is dropped: the outbound pump reads EOF, sends FIN and *)
(* retires the stream (try_retire).                                        *)
SendFin(e, i) == \/ Up(e) /\ Room(e) /\ wq' = Queued(e, <<"FIN", i>>)
                 \/ ~Up(e) /\ UNCHANGED wq
Retired(e, i) == [streams EXCEPT ![e] = @ \ {i}]

OpenerDrop(o) ==
    /\ ost[o] \in {"open", "failed"}
    /\ SendFin("c", osid[o])
    /\ ost' = [ost EXCEPT ![o] = "gone"]
    /\ streams' = Retired("c", osid[o])
    /\ UNCHANGED <<start, flagVars, wpc, net, rdr, told, next_id, osid, ack,
                   handVars, aliveVars, noteVars>>

-----------------------------------------------------------------------------
(* The server's handler: TunnelStream::accept or reject, then its drop.    *)
Accept(i) ==
    /\ hst[i] = "run"
    /\ hst' = [hst EXCEPT ![i] = "acc"]
    /\ wq' = Control("s", <<"ACK", i>>)
    /\ UNCHANGED <<start, opening, flagVars, wpc, net, rdr, streams, told, openVars,
                   aliveVars, noteVars>>

Reject(i) ==
    /\ hst[i] = "run"
    /\ hst' = [hst EXCEPT ![i] = "rej"]
    /\ wq' = Control("s", <<"NACK", i>>)
    /\ told' = [told EXCEPT !["s"] = @ \cup {i}]
    /\ UNCHANGED <<start, opening, flagVars, wpc, net, rdr, streams, openVars,
                   aliveVars, noteVars>>

HandlerDrop(i) ==
    /\ hst[i] \in {"acc", "rej"}
    /\ SendFin("s", i)
    /\ hst' = [hst EXCEPT ![i] = IF @ = "acc" THEN "accgone" ELSE "rejgone"]
    /\ streams' = Retired("s", i)
    /\ UNCHANGED <<start, opening, flagVars, wpc, net, rdr, told, openVars,
                   aliveVars, noteVars>>

-----------------------------------------------------------------------------
Teardown(e) ==
    TeardownSnap(e) \/ TeardownClear(e) \/ TeardownAbort(e) \/ TeardownReady(e)
Writer(e) == WriterLone(e) \/ WriterBatch(e) \/ WriterCheck(e) \/ WriterError(e)
Reader(e) ==
    \/ ReadEof(e) \/ ReadStop(e) \/ ReadHello(e) \/ ReadFin(e) \/ ReadPing(e)
    \/ ReadPong(e)
    \/ e = "s" /\ (ReadOpen \/ ReadOpenInsert)
    \/ e = "c" /\ ReadAck

Next ==
    /\ UNCHANGED use
    /\ \/ \E e \in Ends :
            \/ StartOk(e) \/ StartTimeout(e) \/ Close(e)
            \/ KeepalivePing(e) \/ KeepaliveTimeout(e)
            \/ Writer(e) \/ Reader(e) \/ Teardown(e)
       \/ \E o \in Openers :
            /\ o \in use.openers
            /\ \/ OpenCheck(o) \/ OpenInsert(o) \/ OpenSend(o) \/ OpenAnswer(o)
               \/ OpenerDrop(o)
       \/ \E i \in Sids : Accept(i) \/ Reject(i) \/ HandlerDrop(i)

Spec == Init /\ [][Next]_vars

(* The runtime runs every task that can run: the reader, the writer and    *)
(* the rest of a teardown once begun.  Nothing is assumed of the           *)
(* application (openers, handlers, close) nor of the clocks.               *)
Fairness == \A e \in Ends : /\ WF_vars(Writer(e) /\ UNCHANGED use)
                            /\ WF_vars(Reader(e) /\ UNCHANGED use)
                            /\ WF_vars(Teardown(e) /\ UNCHANGED use)
FairSpec == Spec /\ Fairness

-----------------------------------------------------------------------------
(* Every variable has the type its code gives it; neither queue exceeds    *)
(* its capacity (a batch may overshoot NetCap, which is a socket buffer).  *)
TypeOK ==
    /\ start \in [Ends -> {"wait", "ok", "failed"}]
    /\ ready \in [Ends -> BOOLEAN] /\ closed \in [Ends -> BOOLEAN]
    /\ tdpc \in [Ends -> {"no", "snap", "clear", "abort", "ready", "done"}]
    /\ \A v \in {tdset, streams, told} : v \in [Ends -> SUBSET Sids]
    /\ wpc \in [Ends -> {"recv", "check", "exit"}]
    /\ \A e \in Ends : /\ wq[e] \in Seq(Frames) /\ Len(wq[e]) <= WriterCap
                      /\ net[e] \in Seq(Frames) /\ Len(net[e]) < NetCap + BatchMax
    /\ rdr \in [Ends -> {"run", "open", "exit"}] /\ opening \in Sids \cup {0}
    /\ next_id \in Nat
    /\ ost \in [Openers -> {"idle", "checked", "insert", "wait", "open",
                            "failed", "gone"}]
    /\ osid \in [Openers -> Sids \cup {0}]
    /\ ack \in [Openers -> {"none", "ok", "no"}]
    /\ hst \in [Sids -> {"none", "run", "acc", "rej", "accgone", "rejgone"}]
    /\ \A e \in Ends : ticks[e] \in 0..use.ticks[e] /\ silence[e] \in 0..ticks[e]
    /\ lost \in [Ends -> SUBSET Sids] /\ late \subseteq Sids /\ hasty \subseteq Ends

(* Two peers running this code never refuse each other's frames: until the *)
(* session is closed, the only frame handle_frame stops at is GOAWAY, not  *)
(* "frame before HELLO" and not "second HELLO mid-session".                *)
NoProtocolError ==
    \A e \in Ends : CanRead(e) /\ ~closed[e] /\ MustStop(e) => Frame(e)[1] = "GOAWAY"

(* open_stream returns a stream only if the server's handler accepted that *)
(* very stream id, whatever the timeouts and refusals of other opens.      *)
AckHonest ==
    \A o \in Openers : ost[o] = "open" => hst[osid[o]] \in {"acc", "accgone"}

(* The server's map never exceeds max_streams, though the check and the    *)
(* insert are separate lock scopes (mux.rs, FT_OPEN).                      *)
ServerLimit == Cardinality(streams["s"]) <= MaxStreams

(* No handler is overlooked when the server's session ends, however it     *)
(* ends: teardown has told the app of every stream that is still being     *)
(* handled - unless its Abort met a full inbound queue (the try_send of    *)
(* mux.rs:1447), which takes an accepted stream, or the reader took the    *)
(* stream after the snapshot, which takes an end by keepalive or close().  *)
HandlersTold ==
    tdpc["s"] = "done" =>
        \A i \in Sids : hst[i] \in {"run", "acc"} => i \in told["s"] \cup lost["s"] \cup late

(* wait_closed (which watches ready) resolves once the session is torn     *)
(* down: "Resolve when the session ends (peer disconnect, GOAWAY, or       *)
(* close())" (mux.rs) - unless keepalive ended it before HELLO came.       *)
WaitClosedResolves ==
    \A e \in Ends \ hasty : start[e] = "ok" /\ tdpc[e] = "done" => ~ready[e]

(* The same with no exception, which a HELLO later than keepalive's        *)
(* patience refutes: it sets ready after teardown has reset it.            *)
WaitClosedPromised ==
    \A e \in Ends : start[e] = "ok" /\ tdpc[e] = "done" => ~ready[e]

(* When one end has closed, the other learns of it and closes as well,     *)
(* even when its GOAWAY found the writer queue full.                       *)
PeerLearns == \A e \in Ends : closed[e] ~> closed[Peer(e)]

(* "The socket write half must not outlive the session by parking on this  *)
(* channel forever" (writer_task): after closed, the writer ends.          *)
WriterEnds == \A e \in Ends : closed[e] ~> wpc[e] = "exit"
=============================================================================
