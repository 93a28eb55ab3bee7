------------------------------ MODULE MuxStream ------------------------------
(***************************************************************************)
(* One logical stream of a CMPX session, seen from both ends: the outbound *)
(* pump, the inbound pump, the session reader and the credit ticker of     *)
(* each end (crates/krymux/src/mux.rs), interleaved at their awaits, with  *)
(* bounded queues between them.                                            *)
(*                                                                         *)
(* Payload bytes are represented by their positions in the sender's byte   *)
(* stream: a DATA frame carries the positions from+1..to.  link[e] is all  *)
(* that lies between a send of end e and the reader of its peer: the       *)
(* writer channel, the writer task and the socket (MuxSession.tla opens it *)
(* up).  The duplex buffer between the inbound pump and the app is folded  *)
(* into the app: InWrite is the moment the app has made room.              *)
(***************************************************************************)
EXTENDS Integers, Sequences

CONSTANTS
    Ends,          \* the two ends of the session
    RxWindow,      \* SessionOpts.rx_window
    RxWindowMax,   \* Shared.rx_window_max
    Threshold,     \* inbound_pump's threshold: max(rx_window / 4, 16 KiB)
    ChunkMax,      \* DUPLEX_BUF
    MaxData,       \* Shared.peer_max_data
    InboundQueue,  \* INBOUND_QUEUE
    LinkCap,       \* frames the writer channel and the socket hold
    Budget,        \* bound: bytes the app of each end writes
    Faults,        \* what may go wrong: pairs of a kind and the end it strikes
    MaxFaults      \* bound: how many of them in one behaviour

ASSUME StreamAssumption ==
    /\ \E a, b \in Ends : a # b /\ Ends = {a, b}
    /\ RxWindow \in Nat \ {0}
    /\ RxWindowMax \in Nat /\ RxWindow <= RxWindowMax
    /\ Threshold \in Nat \ {0}
    /\ ChunkMax \in Nat \ {0}
    /\ MaxData \in Nat \ {0}
    /\ InboundQueue \in Nat \ {0}
    /\ LinkCap \in Nat \ {0}
    /\ Budget \in [Ends -> Nat]
    /\ Faults \subseteq {"drop", "close", "decode", "cut"} \X Ends
    /\ MaxFaults \in Nat

VARIABLES
    \* the app and its TunnelStream
    written,   \* bytes the app has written
    shut,      \* the app has shut its write side down (or dropped the stream)
    app_gone,  \* StreamInner.app_gone
    saw,       \* end of the app's read side: "open", or why it saw EOF
    \* outbound_pump and the sender's half of StreamInner
    opc, taken, n, charged, off, clean, out_done, credits,
    \* inbound_pump and the receiver's half of StreamInner
    ipc, inq, cur, delivered, pending, held, granted, csg,
    tick,      \* credit_ticker: the amount swapped out
    \* the session
    reg,       \* the stream is in Shared.streams
    closed,    \* Shared.closed (and ready_tx = false)
    rdr,       \* reader_task is running
    parked,    \* reader_task waits for room in the stream's inbound queue
    link,      \* frames on their way from this end to its peer
    cut,       \* the connection is broken
    faults     \* faults so far

appVars == <<written, shut, app_gone>>
outVars == <<opc, taken, n, charged, off, clean, out_done>>
inVars == <<ipc, cur, delivered, saw, held, granted, csg>>
sesVars == <<closed, rdr, parked, cut, faults>>
vars == <<appVars, outVars, inVars, sesVars, credits, inq, pending, tick, reg, link>>

Peer(e) == CHOOSE p \in Ends : p # e
Smaller(a, b) == IF a <= b THEN a ELSE b

Data(f, t) == [t |-> "DATA", from |-> f, to |-> t]
Fin == [t |-> "FIN"]
Close == [t |-> "CLOSE"]
Goaway == [t |-> "GOAWAY"]
Window(d) == [t |-> "WINDOW", delta |-> d]
Abort == [t |-> "ABORT"]           \* Inbound::Abort, never on the wire

Bytes(f) == IF f.t = "DATA" THEN f.to - f.from ELSE 0

-----------------------------------------------------------------------------
Init ==
    /\ written = [e \in Ends |-> 0]
    /\ shut = [e \in Ends |-> FALSE]
    /\ app_gone = [e \in Ends |-> FALSE]
    /\ saw = [e \in Ends |-> "open"]
    /\ opc = [e \in Ends |-> "read"]
    /\ taken = [e \in Ends |-> 0]
    /\ n = [e \in Ends |-> 0]
    /\ charged = [e \in Ends |-> 0]
    /\ off = [e \in Ends |-> 0]
    /\ clean = [e \in Ends |-> TRUE]
    /\ out_done = [e \in Ends |-> FALSE]
    /\ credits = [e \in Ends |-> RxWindow]
    /\ ipc = [e \in Ends |-> "recv"]
    /\ inq = [e \in Ends |-> <<>>]
    /\ cur = [e \in Ends |-> Data(0, 0)]
    /\ delivered = [e \in Ends |-> 0]
    /\ pending = [e \in Ends |-> 0]
    /\ held = [e \in Ends |-> 0]
    /\ granted = [e \in Ends |-> RxWindow]
    /\ csg = [e \in Ends |-> 0]
    /\ tick = [e \in Ends |-> 0]
    /\ reg = [e \in Ends |-> TRUE]
    /\ closed = [e \in Ends |-> FALSE]
    /\ rdr = [e \in Ends |-> TRUE]
    /\ parked = [e \in Ends |-> FALSE]
    /\ link = [e \in Ends |-> <<>>]
    /\ cut = FALSE
    /\ faults = 0

-----------------------------------------------------------------------------
(* Sending: wait_send waits for room in the writer queue; send_control is  *)
(* try_send.  On a broken connection a frame is accepted and goes nowhere. *)
HasRoom(e) == cut \/ Len(link[e]) < LinkCap
Sent(e, f) == IF cut THEN link ELSE [link EXCEPT ![e] = Append(@, f)]

(* try_send of Inbound::Abort: lost when the queue is closed or full.  The *)
(* channel is fair, so a parked reader has the next free slot.             *)
AbortTried(e) ==
    IF ipc[e] # "done" /\ Len(inq[e]) + (IF parked[e] THEN 1 ELSE 0) < InboundQueue
    THEN [inq EXCEPT ![e] = Append(@, Abort)]
    ELSE inq

(* Mutant: retire as soon as the app handle is gone. *)
TryRetireEarly(e, gone, done) ==
    IF gone
    THEN /\ reg' = [reg EXCEPT ![e] = FALSE]
         /\ inq' = AbortTried(e)
    ELSE UNCHANGED <<reg, inq>>

(* try_retire, called with the values of the two flags. *)
TryRetire(e, gone, done) ==
    IF gone /\ done
    THEN /\ reg' = [reg EXCEPT ![e] = FALSE]
         /\ inq' = AbortTried(e)
    ELSE UNCHANGED <<reg, inq>>

-----------------------------------------------------------------------------
(* The app.                                                                *)
AppWrite(e) ==
    /\ ~shut[e]
    /\ \E k \in 1..ChunkMax :
         /\ written[e] + k <= Budget[e]
         /\ written[e] + k - taken[e] <= ChunkMax
         /\ written' = [written EXCEPT ![e] = @ + k]
    /\ UNCHANGED <<shut, app_gone, outVars, inVars, sesVars, credits, inq,
                   pending, tick, reg, link>>

AppShutdown(e) ==
    /\ ~shut[e]
    /\ shut' = [shut EXCEPT ![e] = TRUE]
    /\ UNCHANGED <<written, app_gone, outVars, inVars, sesVars, credits, inq,
                   pending, tick, reg, link>>

(* One of the faults that may strike e happens. *)
Fault(kind, e) ==
    /\ <<kind, e>> \in Faults
    /\ faults < MaxFaults
    /\ faults' = faults + 1

(* Drop of TunnelStream, when the app is done with it or early: the pump   *)
(* sees EOF once it has drained the duplex.                                *)
AppDrop(e) ==
    /\ ~app_gone[e]
    /\ IF shut[e] /\ saw[e] # "open" THEN UNCHANGED faults ELSE Fault("drop", e)
    /\ app_gone' = [app_gone EXCEPT ![e] = TRUE]
    /\ shut' = [shut EXCEPT ![e] = TRUE]
    /\ TryRetire(e, TRUE, out_done[e])
    /\ UNCHANGED <<written, outVars, inVars, closed, rdr, parked, cut, credits,
                   pending, tick, link>>

-----------------------------------------------------------------------------
(* outbound_pump.  Its fast path (the chunk fits one frame) and its slow   *)
(* path are one loop: pay what is owed, send one frame, until both are     *)
(* done.                                                                   *)
OutUnchanged(e) == UNCHANGED <<appVars, inVars, sesVars, pending, tick>>

OutRead(e) ==
    /\ opc[e] = "read"
    /\ written[e] > taken[e]
    /\ LET k == Smaller(ChunkMax, written[e] - taken[e]) IN
         /\ n' = [n EXCEPT ![e] = k]
         /\ taken' = [taken EXCEPT ![e] = @ + k]
    /\ charged' = [charged EXCEPT ![e] = 0]
    /\ off' = [off EXCEPT ![e] = 0]
    /\ opc' = [opc EXCEPT ![e] = "acquire"]
    /\ OutUnchanged(e)
    /\ UNCHANGED <<clean, out_done, credits, inq, reg, link>>

AtEof(e) ==
    shut[e] /\ written[e] = taken[e]

(* read returns 0: the app has shut down and the duplex is drained. *)
OutEof(e) ==
    /\ opc[e] = "read"
    /\ AtEof(e)
    /\ opc' = [opc EXCEPT ![e] = "end"]
    /\ OutUnchanged(e)
    /\ UNCHANGED <<taken, n, charged, off, clean, out_done, credits, inq, reg,
                   link>>

(* Mutant: a chunk counts as paid for after its first partial grant. *)
NextOpcUnsettled(e, c, o) ==
    IF o < n[e] THEN "send" ELSE "read"

NextOpc(e, c, o) ==
    IF c < n[e] THEN "acquire" ELSE IF o < n[e] THEN "send" ELSE "read"

(* Mutant: wait for the whole charge before the first byte. *)
CanAcquireWhole(e) ==
    credits[e] >= n[e] - charged[e]

(* acquire_credits: a partial grant suffices. *)
CanAcquire(e) ==
    credits[e] > 0

OutAcquire(e) ==
    /\ opc[e] = "acquire"
    /\ ~closed[e]
    /\ CanAcquire(e)
    /\ LET take == Smaller(credits[e], n[e] - charged[e]) IN
         /\ credits' = [credits EXCEPT ![e] = @ - take]
         /\ charged' = [charged EXCEPT ![e] = @ + take]
         /\ opc' = [opc EXCEPT ![e] =
                      IF off[e] < n[e] THEN "send"
                      ELSE NextOpc(e, charged[e] + take, off[e])]
    /\ OutUnchanged(e)
    /\ UNCHANGED <<taken, n, off, clean, out_done, inq, reg, link>>

(* acquire_credits bails once the session is closed, wait_send once the    *)
(* writer task is gone: the stream ends unclean.                           *)
OutFail(e) ==
    /\ \/ opc[e] = "acquire" /\ closed[e]
       \/ opc[e] = "send" /\ cut
    /\ clean' = [clean EXCEPT ![e] = FALSE]
    /\ opc' = [opc EXCEPT ![e] = "end"]
    /\ OutUnchanged(e)
    /\ UNCHANGED <<taken, n, charged, off, out_done, credits, inq, reg, link>>

(* Mutant: every frame of a chunk carries its beginning. *)
PieceFirst(e, take) == Data(taken[e] - n[e], taken[e] - n[e] + take)
(* The part of the chunk that the next frame carries. *)
Piece(e, take) ==
    LET pos == taken[e] - n[e] + off[e] IN Data(pos, pos + take)

OutSend(e) ==
    /\ opc[e] = "send"
    /\ HasRoom(e)
    /\ LET take == Smaller(MaxData, n[e] - off[e])
       IN /\ link' = Sent(e, Piece(e, take))
          /\ off' = [off EXCEPT ![e] = @ + take]
          /\ opc' = [opc EXCEPT ![e] = NextOpc(e, charged[e], off[e] + take)]
    /\ OutUnchanged(e)
    /\ UNCHANGED <<taken, n, charged, clean, out_done, credits, inq, reg>>

(* FIN for a clean end, CLOSE otherwise. *)
LastFrame(e) ==
    IF clean[e] THEN Fin ELSE Close

OutEnd(e) ==
    /\ opc[e] = "end"
    /\ HasRoom(e)
    /\ link' = Sent(e, LastFrame(e))
    /\ opc' = [opc EXCEPT ![e] = "retire"]
    /\ OutUnchanged(e)
    /\ UNCHANGED <<taken, n, charged, off, clean, out_done, credits, inq, reg>>

OutRetire(e) ==
    /\ opc[e] = "retire"
    /\ out_done' = [out_done EXCEPT ![e] = TRUE]
    /\ opc' = [opc EXCEPT ![e] = "done"]
    /\ TryRetire(e, app_gone[e], TRUE)
    /\ OutUnchanged(e)
    /\ UNCHANGED <<taken, n, charged, off, clean, credits, link>>

-----------------------------------------------------------------------------
(* inbound_pump.                                                           *)
InUnchanged(e) ==
    UNCHANGED <<appVars, outVars, sesVars, credits, tick, reg>>

InData(e) ==
    /\ ipc[e] = "recv"
    /\ inq[e] # <<>>
    /\ Head(inq[e]).t = "DATA"
    /\ cur' = [cur EXCEPT ![e] = Head(inq[e])]
    /\ inq' = [inq EXCEPT ![e] = Tail(@)]
    /\ csg' = [csg EXCEPT ![e] = @ + Bytes(Head(inq[e]))]
    /\ ipc' = [ipc EXCEPT ![e] = "write"]
    /\ InUnchanged(e)
    /\ UNCHANGED <<delivered, saw, held, granted, pending, link>>

(* maybe_grow_window's conditions on the grant and on the consumption. *)
CanGrow(e) ==
    /\ granted[e] < RxWindowMax
    /\ csg[e] >= granted[e] \div 2

AfterCredit(e) == IF CanGrow(e) THEN "grow" ELSE "recv"

(* write_all to the app returns; once the app is gone it fails and the     *)
(* pump discards the bytes.  Either way they count as consumed.            *)
InWrite(e) ==
    /\ ipc[e] = "write"
    /\ delivered' = IF app_gone[e] THEN delivered
                    ELSE [delivered EXCEPT ![e] = cur[e].to]
    /\ pending' = [pending EXCEPT ![e] = @ + Bytes(cur[e])]
    /\ ipc' = [ipc EXCEPT ![e] =
                 IF pending'[e] >= Threshold THEN "drain" ELSE AfterCredit(e)]
    /\ InUnchanged(e)
    /\ UNCHANGED <<cur, saw, held, granted, csg, inq, link>>

(* The ticker may have swapped the credit out in the meantime. *)
InDrain(e) ==
    /\ ipc[e] = "drain"
    /\ held' = [held EXCEPT ![e] = pending[e]]
    /\ pending' = [pending EXCEPT ![e] = 0]
    /\ ipc' = [ipc EXCEPT ![e] = IF pending[e] > 0 THEN "window" ELSE AfterCredit(e)]
    /\ InUnchanged(e)
    /\ UNCHANGED <<cur, delivered, saw, granted, csg, inq, link>>

(* send_window_await, for drained credit and for the bonus of a growth. *)
InWindow(e) ==
    /\ ipc[e] \in {"window", "bonus"}
    /\ HasRoom(e)
    /\ link' = Sent(e, Window(held[e]))
    /\ held' = [held EXCEPT ![e] = 0]
    /\ ipc' = [ipc EXCEPT ![e] = IF @ = "window" THEN AfterCredit(e) ELSE "recv"]
    /\ InUnchanged(e)
    /\ UNCHANGED <<cur, delivered, saw, granted, csg, inq, pending>>

Bonus(e) ==
    Smaller(granted[e], RxWindowMax - granted[e])

(* maybe_grow_window, when 100 ms have passed since the last growth ... *)
InGrow(e) ==
    /\ ipc[e] = "grow"
    /\ granted' = [granted EXCEPT ![e] = @ + Bonus(e)]
    /\ held' = [held EXCEPT ![e] = Bonus(e)]
    /\ csg' = [csg EXCEPT ![e] = 0]
    /\ ipc' = [ipc EXCEPT ![e] = "bonus"]
    /\ InUnchanged(e)
    /\ UNCHANGED <<cur, delivered, saw, inq, pending, link>>

(* ... and when they have not. *)
InNoGrow(e) ==
    /\ ipc[e] = "grow"
    /\ ipc' = [ipc EXCEPT ![e] = "recv"]
    /\ InUnchanged(e)
    /\ UNCHANGED <<cur, delivered, saw, held, granted, csg, inq, pending, link>>

(* Inbound::Eof and Inbound::Abort both shut the app's read side down. *)
InEnd(e) ==
    /\ ipc[e] = "recv"
    /\ inq[e] # <<>>
    /\ Head(inq[e]).t \in {"FIN", "ABORT"}
    /\ saw' = [saw EXCEPT ![e] = Head(inq[e]).t]
    /\ inq' = [inq EXCEPT ![e] = Tail(@)]
    /\ ipc' = [ipc EXCEPT ![e] = "swap"]
    /\ InUnchanged(e)
    /\ UNCHANGED <<cur, delivered, held, granted, csg, pending, link>>

(* Decompression fails: abort_stream tells the peer, and the pump breaks   *)
(* out of its loop without shutting the app's read side down.              *)
InDecodeFail(e) ==
    /\ ipc[e] = "recv"
    /\ inq[e] # <<>>
    /\ Head(inq[e]).t = "DATA"
    /\ Fault("decode", e)
    /\ link' = IF closed[e] \/ ~HasRoom(e) THEN link ELSE Sent(e, Close)
    /\ inq' = [inq EXCEPT ![e] = Append(Tail(@), Abort)]
    /\ ipc' = [ipc EXCEPT ![e] = "swap"]
    /\ UNCHANGED <<appVars, outVars, cur, delivered, saw, held, granted, csg,
                   closed, rdr, parked, cut, credits, pending, tick, reg>>

(* The pump's end: swap the sub-threshold tail out ... *)
InSwap(e) ==
    /\ ipc[e] = "swap"
    /\ held' = [held EXCEPT ![e] = pending[e]]
    /\ pending' = [pending EXCEPT ![e] = 0]
    /\ ipc' = [ipc EXCEPT ![e] = "flush"]
    /\ InUnchanged(e)
    /\ UNCHANGED <<cur, delivered, saw, granted, csg, inq, link>>

(* ... send it if the writer queue has room and put it back if not; then   *)
(* the queue's receiver is dropped, with what it still held.               *)
InFlush(e) ==
    /\ ipc[e] = "flush"
    /\ IF held[e] = 0 \/ closed[e] THEN UNCHANGED <<link, pending>>
       ELSE IF HasRoom(e) THEN link' = Sent(e, Window(held[e])) /\ UNCHANGED pending
       ELSE pending' = [pending EXCEPT ![e] = @ + held[e]] /\ UNCHANGED link
    /\ held' = [held EXCEPT ![e] = 0]
    /\ inq' = [inq EXCEPT ![e] = <<>>]
    /\ ipc' = [ipc EXCEPT ![e] = "done"]
    /\ InUnchanged(e)
    /\ UNCHANGED <<cur, delivered, saw, granted, csg>>

-----------------------------------------------------------------------------
(* credit_ticker: swap, then send or put back.                             *)
TickSwap(e) ==
    /\ ~closed[e] /\ reg[e]
    /\ tick[e] = 0
    /\ pending[e] > 0
    /\ tick' = [tick EXCEPT ![e] = pending[e]]
    /\ pending' = [pending EXCEPT ![e] = 0]
    /\ UNCHANGED <<appVars, outVars, inVars, sesVars, credits, inq, reg, link>>

(* Mutant: credit that finds the writer queue full is forgotten. *)
TickSendForget(e) ==
    /\ tick[e] > 0
    /\ link' = IF closed[e] \/ ~HasRoom(e) THEN link ELSE Sent(e, Window(tick[e]))
    /\ tick' = [tick EXCEPT ![e] = 0]
    /\ UNCHANGED <<appVars, outVars, inVars, sesVars, credits, inq, pending, reg>>

TickSend(e) ==
    /\ tick[e] > 0
    /\ IF closed[e] THEN UNCHANGED <<link, pending>>
       ELSE IF HasRoom(e) THEN link' = Sent(e, Window(tick[e])) /\ UNCHANGED pending
       ELSE pending' = [pending EXCEPT ![e] = @ + tick[e]] /\ UNCHANGED link
    /\ tick' = [tick EXCEPT ![e] = 0]
    /\ UNCHANGED <<appVars, outVars, inVars, sesVars, credits, inq, reg>>

-----------------------------------------------------------------------------
(* teardown: forget the stream and try to queue an Abort for its pump.     *)
Teardown(e) ==
    /\ closed' = [closed EXCEPT ![e] = TRUE]
    /\ reg' = [reg EXCEPT ![e] = FALSE]
    /\ inq' = IF reg[e] THEN AbortTried(e) ELSE inq

(* MuxSession::close, or the keepalive deadline. *)
SessionClose(e) ==
    /\ ~closed[e]
    /\ Fault("close", e)
    /\ link' = IF HasRoom(e) THEN Sent(e, Goaway) ELSE link
    /\ Teardown(e)
    /\ UNCHANGED <<appVars, outVars, inVars, rdr, parked, cut, credits, pending,
                   tick>>

(* The connection breaks; each reader finds out after what it can read. *)
Cut ==
    /\ ~cut
    /\ \E e \in Ends : Fault("cut", e)
    /\ cut' = TRUE
    /\ UNCHANGED <<appVars, outVars, inVars, closed, rdr, parked, credits, inq,
                   pending, tick, reg, link>>

ReaderExit(e) ==
    /\ rdr' = [rdr EXCEPT ![e] = FALSE]
    /\ IF closed[e] THEN UNCHANGED <<closed, reg, inq>> ELSE Teardown(e)

ReadEof(e) ==
    /\ rdr[e] /\ ~parked[e]
    /\ cut
    /\ ReaderExit(e)
    /\ UNCHANGED <<appVars, outVars, inVars, parked, cut, faults, credits,
                   pending, tick, link>>

-----------------------------------------------------------------------------
(* reader_task and handle_frame, on the oldest frame of the peer.          *)
Incoming(e) == link[Peer(e)]
Popped(e) == [link EXCEPT ![Peer(e)] = Tail(@)]
CanRead(e) == rdr[e] /\ Incoming(e) # <<>>
ReadUnchanged(e) == UNCHANGED <<appVars, outVars, inVars, pending, tick>>

(* Mutant: the reader never parks; a frame that finds no room is dropped. *)
ReadDataDrop(e) ==
    /\ CanRead(e) /\ ~closed[e]
    /\ Head(Incoming(e)).t \in {"DATA", "FIN"}
    /\ inq' = IF ipc[e] # "done" /\ reg[e] /\ Len(inq[e]) < InboundQueue
              THEN [inq EXCEPT ![e] = Append(@, Head(Incoming(e)))] ELSE inq
    /\ link' = Popped(e)
    /\ ReadUnchanged(e)
    /\ UNCHANGED <<sesVars, credits, reg>>

(* DATA and FIN wait for room in the inbound queue, holding up every frame *)
(* behind them; an unknown stream or an ended pump drops them.             *)
ReadData(e) ==
    /\ CanRead(e)
    /\ Head(Incoming(e)).t \in {"DATA", "FIN"}
    /\ ~closed[e] \/ parked[e]
    /\ \/ /\ ipc[e] = "done" \/ (~reg[e] /\ ~parked[e])
          /\ link' = Popped(e)
          /\ parked' = [parked EXCEPT ![e] = FALSE]
          /\ UNCHANGED inq
       \/ /\ ipc[e] # "done" /\ (reg[e] \/ parked[e])
          /\ Len(inq[e]) < InboundQueue
          /\ inq' = [inq EXCEPT ![e] = Append(@, Head(Incoming(e)))]
          /\ link' = Popped(e)
          /\ parked' = [parked EXCEPT ![e] = FALSE]
       \/ /\ ipc[e] # "done" /\ reg[e] /\ ~parked[e]
          /\ Len(inq[e]) >= InboundQueue
          /\ parked' = [parked EXCEPT ![e] = TRUE]
          /\ UNCHANGED <<inq, link>>
    /\ ReadUnchanged(e)
    /\ UNCHANGED <<closed, rdr, cut, faults, credits, reg>>

ReadWindow(e) ==
    /\ CanRead(e) /\ ~closed[e]
    /\ Head(Incoming(e)).t = "WINDOW"
    /\ credits' = IF reg[e]
                  THEN [credits EXCEPT ![e] = @ + Head(Incoming(e)).delta]
                  ELSE credits
    /\ link' = Popped(e)
    /\ ReadUnchanged(e)
    /\ UNCHANGED <<sesVars, inq, reg>>

ReadClose(e) ==
    /\ CanRead(e) /\ ~closed[e]
    /\ Head(Incoming(e)).t = "CLOSE"
    /\ inq' = IF reg[e] THEN AbortTried(e) ELSE inq
    /\ link' = Popped(e)
    /\ ReadUnchanged(e)
    /\ UNCHANGED <<sesVars, credits, reg>>

(* GOAWAY, or any frame once teardown has cleared the ready flag. *)
ReadLast(e) ==
    /\ CanRead(e) /\ ~parked[e]
    /\ closed[e] \/ Head(Incoming(e)).t = "GOAWAY"
    /\ link' = Popped(e)
    /\ ReaderExit(e)
    /\ ReadUnchanged(e)
    /\ UNCHANGED <<parked, cut, faults, credits>>

-----------------------------------------------------------------------------
Next ==
    \/ Cut
    \/ \E e \in Ends :
         \/ AppWrite(e) \/ AppShutdown(e) \/ AppDrop(e)
         \/ OutRead(e) \/ OutEof(e) \/ OutAcquire(e) \/ OutFail(e)
         \/ OutSend(e) \/ OutEnd(e) \/ OutRetire(e)
         \/ InData(e) \/ InWrite(e) \/ InDrain(e)
         \/ InWindow(e) \/ InGrow(e) \/ InNoGrow(e) \/ InEnd(e)
         \/ InDecodeFail(e) \/ InSwap(e) \/ InFlush(e)
         \/ TickSwap(e) \/ TickSend(e)
         \/ SessionClose(e) \/ ReadEof(e)
         \/ ReadData(e) \/ ReadWindow(e) \/ ReadClose(e) \/ ReadLast(e)

Spec == Init /\ [][Next]_vars

(* The tasks are spawned on the tokio runtime, which polls every task that *)
(* can make progress.  Nothing obliges the app to write, to shut down, to  *)
(* drop the stream or to close the session.  InWrite is fair for an app    *)
(* that keeps reading.                                                     *)
TaskSteps(e) ==
    \/ OutRead(e) \/ OutEof(e) \/ OutAcquire(e) \/ OutFail(e)
    \/ OutSend(e) \/ OutEnd(e) \/ OutRetire(e)
InSteps(e) ==
    \/ InData(e) \/ InWrite(e) \/ InDrain(e) \/ InWindow(e)
    \/ InNoGrow(e) \/ InEnd(e) \/ InSwap(e) \/ InFlush(e)
ReadSteps(e) ==
    ReadEof(e) \/ ReadData(e) \/ ReadWindow(e) \/ ReadClose(e) \/ ReadLast(e)

Fairness ==
    \A e \in Ends :
        /\ WF_vars(TaskSteps(e))
        /\ WF_vars(InSteps(e))
        /\ WF_vars(ReadSteps(e))
        /\ WF_vars(TickSwap(e)) /\ WF_vars(TickSend(e))

FairSpec == Spec /\ Fairness

-----------------------------------------------------------------------------
(* The app of e has been given all that the app of its peer has written. *)
Complete(e) == shut[Peer(e)] /\ delivered[e] = written[Peer(e)]

(* Types of the state, with the bounds the code relies on: the queue never *)
(* exceeds INBOUND_QUEUE, the grant never exceeds rx_window_max, the       *)
(* credit counter never goes below zero.                                   *)
TypeOK ==
    /\ written \in [Ends -> Nat] /\ taken \in [Ends -> Nat]
    /\ shut \in [Ends -> BOOLEAN] /\ app_gone \in [Ends -> BOOLEAN]
    /\ saw \in [Ends -> {"open", "FIN", "ABORT"}]
    /\ opc \in [Ends -> {"read", "acquire", "send", "end", "retire", "done"}]
    /\ \A e \in Ends :
         /\ taken[e] <= written[e] /\ written[e] - taken[e] <= ChunkMax
         /\ n[e] \in 0..ChunkMax /\ charged[e] \in 0..n[e] /\ off[e] \in 0..n[e]
         /\ credits[e] \in Nat
         /\ granted[e] \in RxWindow..RxWindowMax
         /\ Len(inq[e]) <= InboundQueue
         /\ Len(link[e]) <= LinkCap
         /\ delivered[e] <= written[Peer(e)]
         /\ pending[e] \in Nat /\ held[e] \in Nat /\ tick[e] \in Nat
    /\ ipc \in [Ends -> {"recv", "write", "drain", "window", "grow",
                         "bonus", "swap", "flush", "done"}]

(* Bytes reach the app in order and without a gap: what the pump writes    *)
(* next starts where the app's bytes end.                                  *)
InOrder ==
    \A e \in Ends :
        ipc[e] = "write" /\ ~app_gone[e] => cur[e].from = delivered[e]

(* A FIN tells the truth: an app that sees EOF because of a FIN has been   *)
(* given every byte the peer's app wrote, drops and half-closes in flight  *)
(* included (mux.rs 953-954).                                              *)
FinIsComplete ==
    \A e \in Ends : saw[e] = "FIN" /\ ~app_gone[e] => Complete(e)

(* A stream stays registered until the app handle is gone AND the outbound *)
(* pump has finished, so that WINDOW grants keep reaching a draining pump  *)
(* (mux.rs 80-84).                                                         *)
RegisteredWhileNeeded ==
    \A e \in Ends :
        ~closed[e] /\ ~(app_gone[e] /\ out_done[e]) => reg[e]

(* try_retire and teardown end the inbound pump (mux.rs 105-108): a pump   *)
(* that waits for input of a stream no longer registered has its Abort     *)
(* queued, or something to take before it.                                 *)
PumpCanEnd ==
    \A e \in Ends :
        ~reg[e] /\ ipc[e] = "recv" => inq[e] # <<>>

(* An app that reads EOF while its session is up has read everything: an   *)
(* aborted stream is not mistaken for a finished one (mux.rs 704-705, 956).*)
EofIsComplete ==
    \A e \in Ends :
        saw[e] # "open" /\ ~app_gone[e] /\ ~closed[e] => Complete(e)

(* The two ends never wait for each other in a circle: each inbound pump   *)
(* waiting for room to send a grant, behind DATA that the other end's      *)
(* reader holds because its inbound pump is waiting.                       *)
NoCircularWait ==
    ~ \A e \in Ends :
        /\ ipc[e] \in {"window", "bonus"} /\ ~HasRoom(e)
        /\ parked[e]

(* An app that keeps reading gets every byte and then EOF, however small   *)
(* the window and the queues (mux.rs 844-936 against 644-653, 1383-1400):  *)
(* the partial charges, the threshold and the ticker never starve a chunk. *)
EventuallyDelivered ==
    \A e \in Ends :
        shut[Peer(e)] ~> app_gone[e] \/ (saw[e] = "FIN" /\ Complete(e))

(* An outbound pump whose app has finished writing ends, even when the     *)
(* peer's app has dropped the stream (mux.rs 593-596).                     *)
PumpFinishes ==
    \A e \in Ends : shut[e] ~> opc[e] = "done"
=============================================================================
