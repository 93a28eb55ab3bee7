---------------------------- MODULE CreditLedger ----------------------------
(***************************************************************************)
(* What the credit-based flow control of crates/krymux/src/mux.rs promises *)
(* for ONE direction of one stream: a sender (outbound_pump) that pays for *)
(* the bytes it sends out of `credits`, and a receiver (inbound_pump and   *)
(* credit_ticker) that gives consumed bytes back as WINDOW grants and      *)
(* enlarges the window.  Frames and queues are reduced to the number of    *)
(* bytes they hold; every counter is one of the code's atomics or the      *)
(* amount a task holds in a local between two of its awaits.               *)
(*                                                                         *)
(* MuxStream.tla is the detailed model; it is shown to implement this one. *)
(***************************************************************************)
EXTENDS Naturals

CONSTANTS
    RxWindow,      \* SessionOpts.rx_window: the window advertised in HELLO
    RxWindowMax,   \* Shared.rx_window_max (already maxed with rx_window)
    ChunkMax,      \* DUPLEX_BUF: the most bytes one read of the pump returns
    MaxData        \* Shared.peer_max_data: the most bytes in one DATA frame

ASSUME LedgerAssumption ==
    /\ RxWindow \in Nat \ {0}
    /\ RxWindowMax \in Nat
    /\ RxWindow <= RxWindowMax
    /\ ChunkMax \in Nat \ {0}
    /\ MaxData \in Nat \ {0}

VARIABLES
    pc,        \* the outbound pump: "read", "acquire" or "send"
    n,         \* logical size of the chunk the pump is working on
    charged,   \* credits already paid for that chunk
    off,       \* bytes of that chunk already sent
    credits,   \* StreamInner.credits of the sender
    flight,    \* bytes sent and not yet consumed by the receiver's pump
    pending,   \* StreamInner.pending_credit of the receiver
    held,      \* credit the inbound pump has drained and not yet sent
    tick,      \* credit the ticker has swapped out and not yet sent
    grants,    \* credit inside WINDOW frames on their way to the sender
    granted,   \* StreamInner.granted of the receiver
    lost       \* bytes and grants dropped because an end of the stream is gone

sender == <<pc, n, charged, off>>
receiver == <<pending, held, tick, granted>>
vars == <<pc, n, charged, off, credits, flight, pending, held, tick, grants,
          granted, lost>>

Smaller(a, b) == IF a <= b THEN a ELSE b

-----------------------------------------------------------------------------
(* build_stream: the sender starts with the peer's advertised window, the  *)
(* receiver with its own as the amount granted.                            *)
Init ==
    /\ pc = "read" /\ n = 0 /\ charged = 0 /\ off = 0
    /\ credits = RxWindow
    /\ flight = 0
    /\ pending = 0 /\ held = 0 /\ tick = 0
    /\ grants = 0
    /\ granted = RxWindow
    /\ lost = 0

(* The pump reads a chunk from the app's side of the duplex. *)
Read ==
    /\ pc = "read"
    /\ \E k \in 1..ChunkMax :
         /\ n' = k
         /\ charged' = 0
         /\ off' = 0
    /\ pc' = "acquire"
    /\ UNCHANGED <<credits, flight, grants, lost, receiver>>

(* Mutant: a chunk counts as paid for after its first partial grant. *)
NextPcUnsettled(c, o) ==
    IF o < n THEN "send" ELSE "read"

(* Where the send loop goes once charged and off are c and o: pay what is  *)
(* still owed, then send what is still unsent, else read the next chunk.   *)
NextPc(c, o) ==
    IF c < n THEN "acquire" ELSE IF o < n THEN "send" ELSE "read"

(* Mutant: wait for the whole charge before the first byte. *)
CanAcquireWhole ==
    credits >= n - charged

(* acquire_credits parks until the counter is positive. *)
CanAcquire ==
    credits > 0

(* Mutant: take what is wanted, whatever the counter holds. *)
TakeWanted ==
    n - charged

(* acquire_credits: a partial grant suffices. *)
Take ==
    Smaller(credits, n - charged)

Acquire ==
    /\ pc = "acquire"
    /\ CanAcquire
    /\ credits' = credits - Take
    /\ charged' = charged + Take
    /\ pc' = IF off < n THEN "send" ELSE NextPc(charged + Take, off)
    /\ UNCHANGED <<n, off, flight, grants, lost, receiver>>

(* One DATA frame leaves: the whole chunk when it fits one frame. *)
Send ==
    /\ pc = "send"
    /\ LET take == Smaller(MaxData, n - off) IN
         /\ off' = off + take
         /\ flight' = flight + take
         /\ pc' = NextPc(charged, off + take)
    /\ UNCHANGED <<n, charged, credits, grants, lost, receiver>>

(* The same on a broken connection: the writer queue takes a frame that    *)
(* never arrives.                                                          *)
SendLost ==
    /\ pc = "send"
    /\ LET take == Smaller(MaxData, n - off) IN
         /\ off' = off + take
         /\ lost' = lost + take
         /\ pc' = NextPc(charged, off + take)
    /\ UNCHANGED <<n, charged, credits, flight, grants, receiver>>

(* The pump gives up (session closed) and reads no more. *)
Stop ==
    /\ pc \in {"acquire", "send"}
    /\ pc' = "stopped"
    /\ UNCHANGED <<n, charged, off, credits, flight, grants, lost, receiver>>

(* handle_frame, WINDOW: a grant reaches the sender. *)
Receive ==
    /\ \E k \in 1..grants :
         /\ grants' = grants - k
         /\ credits' = credits + k
    /\ UNCHANGED <<sender, flight, lost, receiver>>

(* inbound_pump has handed a frame to the app (or discarded it). *)
Consume ==
    /\ \E k \in 1..flight :
         /\ flight' = flight - k
         /\ pending' = pending + k
    /\ UNCHANGED <<sender, credits, held, tick, grants, granted, lost>>

(* inbound_pump swaps the pending credit out before it sends it. *)
Drain ==
    /\ held = 0
    /\ held' = pending
    /\ pending' = 0
    /\ UNCHANGED <<sender, credits, flight, tick, grants, granted, lost>>

(* send_window_await, or a successful send_window at the pump's end. *)
PumpSend ==
    /\ held > 0
    /\ grants' = grants + held
    /\ held' = 0
    /\ UNCHANGED <<sender, credits, flight, pending, tick, granted, lost>>

(* The pump's end: its last flush is sent, or put back when the writer     *)
(* queue is full, or lost with a closed session; the frames still queued   *)
(* for the pump go with its receiver.                                      *)
PumpEnd ==
    /\ \E k \in 0..flight :
         /\ flight' = flight - k
         /\ \/ /\ grants' = grants + held
               /\ lost' = lost + k
               /\ UNCHANGED pending
            \/ /\ pending' = pending + held
               /\ lost' = lost + k
               /\ UNCHANGED grants
            \/ /\ lost' = lost + k + held
               /\ UNCHANGED <<pending, grants>>
    /\ held' = 0
    /\ UNCHANGED <<sender, credits, tick, granted>>

(* maybe_grow_window: double the grant up to the maximum. *)
Grow ==
    /\ held = 0
    /\ granted < RxWindowMax
    /\ LET bonus == Smaller(granted, RxWindowMax - granted) IN
         /\ granted' = granted + bonus
         /\ held' = bonus
    /\ UNCHANGED <<sender, credits, flight, pending, tick, grants, lost>>

(* credit_ticker swaps the pending credit out ... *)
TickSwap ==
    /\ tick = 0
    /\ pending > 0
    /\ tick' = pending
    /\ pending' = 0
    /\ UNCHANGED <<sender, credits, flight, held, grants, granted, lost>>

(* ... and sends it, ... *)
TickSend ==
    /\ tick > 0
    /\ grants' = grants + tick
    /\ tick' = 0
    /\ UNCHANGED <<sender, credits, flight, pending, held, granted, lost>>

(* Mutant: the credit swapped out is forgotten when the queue is full. *)
TickForget ==
    /\ tick > 0
    /\ tick' = 0
    /\ UNCHANGED <<sender, credits, flight, pending, held, grants, granted, lost>>

(* ... or puts it back when the writer queue is full. *)
TickRestore ==
    /\ tick > 0
    /\ pending' = pending + tick
    /\ tick' = 0
    /\ UNCHANGED <<sender, credits, flight, held, grants, granted, lost>>

(* An end of the stream is gone: DATA or WINDOW for an unknown stream id,  *)
(* frames queued for a pump that has ended, sends of a closed session.     *)
LoseData ==
    /\ \E k \in 1..flight :
         /\ flight' = flight - k
         /\ lost' = lost + k
    /\ UNCHANGED <<sender, credits, grants, receiver>>

LoseGrant ==
    /\ \E k \in 1..grants :
         /\ grants' = grants - k
         /\ lost' = lost + k
    /\ UNCHANGED <<sender, credits, flight, receiver>>

LoseHeld ==
    /\ held > 0
    /\ held' = 0
    /\ lost' = lost + held
    /\ UNCHANGED <<sender, credits, flight, pending, tick, grants, granted>>

LoseTick ==
    /\ tick > 0
    /\ tick' = 0
    /\ lost' = lost + tick
    /\ UNCHANGED <<sender, credits, flight, pending, held, grants, granted>>

Next ==
    \/ Read \/ Acquire \/ Send \/ SendLost \/ Stop \/ Receive
    \/ Consume \/ Drain \/ PumpSend \/ PumpEnd \/ Grow
    \/ TickSwap \/ TickSend \/ TickRestore
    \/ LoseData \/ LoseGrant \/ LoseHeld \/ LoseTick

Spec == Init /\ [][Next]_vars

-----------------------------------------------------------------------------
(* Every counter stays a natural number: `credits` (an AtomicI64 that is   *)
(* decremented without a compare-and-swap, mux.rs 998) never goes below    *)
(* zero, and no swap or restore of pending_credit loses its sign.          *)
TypeOK ==
    /\ pc \in {"read", "acquire", "send", "stopped"}
    /\ n \in 0..ChunkMax
    /\ charged \in 0..n
    /\ off \in 0..n
    /\ credits \in Nat /\ flight \in Nat /\ pending \in Nat
    /\ held \in Nat /\ tick \in Nat /\ grants \in Nat /\ lost \in Nat
    /\ granted \in RxWindow..RxWindowMax

(* What the receiver will still give back, in whatever hands it is. *)
Outstanding == flight + pending + held + tick + grants

(* No credit is created and none disappears: the sender's credits and all  *)
(* that is on its way back to it are the window granted so far, plus the   *)
(* part of the current chunk that was sent before it was paid for (or less *)
(* the part paid for before it is sent).  The ticker racing the inbound    *)
(* pump (mux.rs 638-653, 1393-1397) neither grants a byte twice nor drops  *)
(* one.                                                                    *)
Conservation ==
    credits + Outstanding + lost + charged = granted + off

(* Sending a chunk on a partial grant (mux.rs 846-877) overdraws the       *)
(* window, but by less than one chunk, however often it happens.           *)
FlightBound ==
    credits + Outstanding < granted + ChunkMax

(* A pump that waits for credits while nothing is lost is never wedged: if *)
(* the counter does not let it go on, the receiver still owes it a grant   *)
(* (mux.rs 846-850: waiting for the full charge would deadlock whenever    *)
(* the window is smaller than one chunk).                                  *)
NeverWedged ==
    pc = "acquire" /\ lost = 0 /\ Outstanding = 0 => CanAcquire

(* The sender's half of the inductive invariant: where the loop stands.    *)
LoopInv ==
    /\ pc = "read" => charged = n /\ off = n
    /\ pc = "acquire" => charged < n /\ charged < off + granted
    /\ pc = "send" => off < n /\ charged > 0
    /\ off > 0 => charged > 0

(* The inductive invariant of the ledger: the counters' types, the balance *)
(* and the position of the send loop of outbound_pump.                     *)
LedgerInv ==
    TypeOK /\ Conservation /\ LoopInv
=============================================================================
