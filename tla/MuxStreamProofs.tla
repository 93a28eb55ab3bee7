--------------------------- MODULE MuxStreamProofs ---------------------------
(***************************************************************************)
(* Theorems about MuxStream, for every window, chunk, queue and byte count *)
(* and for every fault: when a stream is registered, and what it delivers, *)
(* the bytes in order and a FIN only behind the last of them. The types of *)
(* a stream and the calculus of its queues serve the theorems about its    *)
(* credit as well.                                                         *)
(***************************************************************************)
EXTENDS MuxStream, TLAPS

(* The flags that decide a stream's registration are Booleans; with the    *)
(* property itself this is inductive, since only AppDrop and OutRetire set *)
(* a flag and each of them looks at the other one in the same step.        *)
FlagTypes ==
    /\ reg \in [Ends -> BOOLEAN] /\ closed \in [Ends -> BOOLEAN]
    /\ app_gone \in [Ends -> BOOLEAN] /\ out_done \in [Ends -> BOOLEAN]

RegInv == FlagTypes /\ RegisteredWhileNeeded

LEMMA RegInit == Init => RegInv
  BY DEF Init, RegInv, FlagTypes, RegisteredWhileNeeded

LEMMA RegStep == RegInv /\ [Next]_vars => RegInv'
<1> SUFFICES ASSUME RegInv, [Next]_vars PROVE RegInv'
  OBVIOUS
<1> USE DEF RegInv, FlagTypes, RegisteredWhileNeeded
<1>1. CASE UNCHANGED <<reg, closed, app_gone, out_done>>
  BY <1>1
<1>2. CASE Cut
  BY <1>1, <1>2 DEF Cut, appVars, outVars
<1>3. ASSUME NEW e \in Ends, AppDrop(e)
      PROVE  RegInv'
  BY <1>3, Zenon DEF AppDrop, TryRetire, outVars, sesVars
<1>4. ASSUME NEW e \in Ends, OutRetire(e)
      PROVE  RegInv'
  BY <1>4, Zenon DEF OutRetire, TryRetire, OutUnchanged, appVars, sesVars
<1>5. ASSUME NEW e \in Ends, SessionClose(e)
      PROVE  RegInv'
  BY <1>5 DEF SessionClose, Teardown, appVars, outVars
<1>6. ASSUME NEW e \in Ends, ReadEof(e)
      PROVE  RegInv'
  BY <1>6, Zenon DEF ReadEof, ReaderExit, Teardown, appVars, outVars
<1>7. ASSUME NEW e \in Ends, ReadLast(e)
      PROVE  RegInv'
  BY <1>7, ZenonT(30) DEF ReadLast, ReaderExit, Teardown, ReadUnchanged, appVars, outVars
<1>8. ASSUME NEW e \in Ends, AppWrite(e) \/ AppShutdown(e)
      PROVE  RegInv'
  BY <1>1, <1>8, Zenon DEF AppWrite, AppShutdown, outVars, sesVars
<1>9. ASSUME NEW e \in Ends,
             \/ OutRead(e) \/ OutEof(e) \/ OutAcquire(e) \/ OutFail(e)
             \/ OutSend(e) \/ OutEnd(e)
      PROVE  RegInv'
  BY <1>1, <1>9, Zenon DEF OutRead, OutEof, OutAcquire, OutFail, OutSend, OutEnd,
                    OutUnchanged, appVars, sesVars
<1>10. ASSUME NEW e \in Ends,
              \/ InData(e) \/ InWrite(e) \/ InDrain(e) \/ InWindow(e)
              \/ InGrow(e) \/ InNoGrow(e) \/ InEnd(e) \/ InSwap(e) \/ InFlush(e)
       PROVE  RegInv'
  BY <1>1, <1>10, Zenon DEF InData, InWrite, InDrain, InWindow, InGrow, InNoGrow,
                     InEnd, InSwap, InFlush, InUnchanged, appVars, outVars,
                     sesVars
<1>11. ASSUME NEW e \in Ends, InDecodeFail(e)
       PROVE  RegInv'
  BY <1>1, <1>11, Zenon DEF InDecodeFail, appVars, outVars
<1>12. ASSUME NEW e \in Ends, TickSwap(e) \/ TickSend(e)
       PROVE  RegInv'
  BY <1>1, <1>12, Zenon DEF TickSwap, TickSend, appVars, outVars, sesVars
<1>13. ASSUME NEW e \in Ends, ReadData(e)
       PROVE  RegInv'
  BY <1>1, <1>13 DEF ReadData, ReadUnchanged, appVars, outVars
<1>14. ASSUME NEW e \in Ends, ReadWindow(e) \/ ReadClose(e)
       PROVE  RegInv'
  BY <1>1, <1>14 DEF ReadWindow, ReadClose, ReadUnchanged, appVars, outVars,
                     sesVars
<1>15. CASE UNCHANGED vars
  BY <1>1, <1>15 DEF vars, appVars, outVars, sesVars
<1>16. QED
  BY <1>2, <1>3, <1>4, <1>5, <1>6, <1>7, <1>8, <1>9, <1>10, <1>11, <1>12,
     <1>13, <1>14, <1>15, Zenon DEF Next

(* A stream of an open session is in Shared.streams until its app handle   *)
(* is gone and its outbound pump has ended, in whatever order the two      *)
(* happen (try_retire, mux.rs 91-109, and the comment at 80-84).           *)
THEOREM RegistrationOutlivesUse == Spec => []RegisteredWhileNeeded
<1>1. RegInv => RegisteredWhileNeeded
  BY DEF RegInv
<1>2. QED
  BY <1>1, RegInit, RegStep, PTL DEF Spec

-----------------------------------------------------------------------------
(* The two ends of a session are each other's peer. *)
LEMMA PeerFacts ==
    \A e \in Ends : /\ Peer(e) \in Ends /\ Peer(e) # e /\ Peer(Peer(e)) = e
                    /\ \A x \in Ends : x = e \/ x = Peer(e)
<1>1. PICK a \in Ends, b \in Ends : a # b /\ Ends = {a, b}
  BY StreamAssumption
<1>2. Peer(a) = b /\ Peer(b) = a
  BY <1>1 DEF Peer
<1>3. QED
  BY <1>1, <1>2

(* What min gives the pumps: no more than either argument, and something   *)
(* when both are positive.                                                 *)
LEMMA SmallerFacts ==
    ASSUME NEW a \in Nat, NEW b \in Nat
    PROVE  /\ Smaller(a, b) \in Nat
           /\ Smaller(a, b) <= a
           /\ Smaller(a, b) <= b
           /\ a > 0 /\ b > 0 => Smaller(a, b) > 0
BY DEF Smaller

(* The frames of a stream. A DATA frame never ends before it starts. *)
DataFrames == {f \in [t : {"DATA"}, from : Nat, to : Nat] : f.from <= f.to}
Frames == DataFrames \cup [t : {"FIN", "CLOSE", "GOAWAY", "ABORT"}] \cup [t : {"WINDOW"}, delta : Nat]

(* Every frame the pumps and the session build is one of these. *)
LEMMA FrameFacts ==
    /\ \A a, b \in Nat : a <= b => Data(a, b) \in DataFrames
    /\ DataFrames \subseteq Frames
    /\ Fin \in Frames /\ Close \in Frames /\ Goaway \in Frames /\ Abort \in Frames
    /\ \A d \in Nat : Window(d) \in Frames
    /\ \A f \in Frames : f.t = "DATA" => f \in DataFrames
    /\ \A f \in Frames : f.t = "WINDOW" => f.delta \in Nat
    /\ \A f \in DataFrames : f.from \in Nat /\ f.to \in Nat /\ f.from <= f.to /\ f.t = "DATA"
    /\ \A f \in Frames : Bytes(f) \in Nat
BY DEF Data, DataFrames, Frames, Fin, Close, Goaway, Abort, Window, Bytes

(* The reader and the pump take a frame off a queue of frames. *)
LEMMA HeadFrame ==
    \A q \in Seq(Frames) : q # <<>> => Head(q) \in Frames /\ Tail(q) \in Seq(Frames)
<1> SUFFICES ASSUME NEW q \in Seq(Frames), q # <<>>
            PROVE  Head(q) \in Frames /\ Tail(q) \in Seq(Frames)
  OBVIOUS
<1> QED
  OBVIOUS

(* The types that the proofs need, by kind of variable, with the order of  *)
(* the counters of the send loop: taken out of the duplex, of the chunk at *)
(* hand, charged and sent.                                                 *)
Counters ==
    /\ written \in [Ends -> Nat] /\ taken \in [Ends -> Nat] /\ n \in [Ends -> Nat]
    /\ charged \in [Ends -> Nat] /\ off \in [Ends -> Nat] /\ credits \in [Ends -> Nat]
    /\ delivered \in [Ends -> Nat] /\ pending \in [Ends -> Nat] /\ held \in [Ends -> Nat]
    /\ granted \in [Ends -> Nat] /\ csg \in [Ends -> Nat] /\ tick \in [Ends -> Nat]
    /\ \A e \in Ends :
        /\ taken[e] <= written[e] /\ n[e] <= taken[e]
        /\ charged[e] <= n[e] /\ off[e] <= n[e]
        /\ granted[e] <= RxWindowMax
Flags ==
    /\ shut \in [Ends -> BOOLEAN] /\ app_gone \in [Ends -> BOOLEAN]
    /\ clean \in [Ends -> BOOLEAN] /\ out_done \in [Ends -> BOOLEAN]
    /\ reg \in [Ends -> BOOLEAN] /\ closed \in [Ends -> BOOLEAN]
    /\ rdr \in [Ends -> BOOLEAN] /\ parked \in [Ends -> BOOLEAN] /\ cut \in BOOLEAN
Places ==
    /\ saw \in [Ends -> {"open", "FIN", "ABORT"}]
    /\ opc \in [Ends -> {"read", "acquire", "send", "end", "retire", "done"}]
    /\ ipc \in [Ends -> {"recv", "write", "drain", "window", "grow",
                         "bonus", "swap", "flush", "done"}]
Queues ==
    /\ cur \in [Ends -> DataFrames]
    /\ inq \in [Ends -> Seq(Frames)] /\ link \in [Ends -> Seq(Frames)]
TypeInv == Counters /\ Flags /\ Places /\ Queues

(* The types hold when the stream is opened. *)
LEMMA TypeInit == Init => TypeInv
<1> SUFFICES ASSUME Init PROVE TypeInv
  OBVIOUS
<1>1. Counters
  BY StreamAssumption DEF Init, Counters
<1>2. Flags
  BY Zenon DEF Init, Flags
<1>3. Places
  BY DEF Init, Places
<1>4. Queues
  BY FrameFacts DEF Init, Queues
<1>5. QED
  BY <1>1, <1>2, <1>3, <1>4 DEF TypeInv

(* A send leaves the link a queue of frames, whether or not the connection *)
(* is cut.                                                                 *)
LEMMA SentType ==
    ASSUME Queues, NEW e \in Ends, NEW f \in Frames
    PROVE  Sent(e, f) \in [Ends -> Seq(Frames)]
BY DEF Sent, Queues

(* So does the attempt to queue an Abort (try_retire, teardown) for the    *)
(* inbound queue.                                                          *)
LEMMA AbortTriedType ==
    ASSUME Queues, NEW e \in Ends
    PROVE  AbortTried(e) \in [Ends -> Seq(Frames)]
<1>1. Abort \in Frames
  BY FrameFacts
<1>2. [inq EXCEPT ![e] = Append(@, Abort)] \in [Ends -> Seq(Frames)]
  BY <1>1 DEF Queues
<1>3. QED
  BY <1>2 DEF AbortTried, Queues

(* Every step of both ends keeps the flags Booleans ... *)
LEMMA FlagStep == Flags /\ [Next]_vars => Flags'
<1> SUFFICES ASSUME Flags, [Next]_vars PROVE Flags'
  OBVIOUS
<1> USE DEF Flags
<1>1. CASE UNCHANGED <<shut, app_gone, clean, out_done, reg, closed, rdr, parked, cut>>
  BY <1>1
<1>2. CASE Cut
  BY <1>2, Zenon DEF Cut, appVars, outVars
<1>3. ASSUME NEW e \in Ends, AppWrite(e) PROVE Flags'
  BY <1>1, <1>3 DEF AppWrite, outVars, sesVars
<1>4. ASSUME NEW e \in Ends, AppShutdown(e) PROVE Flags'
  BY <1>4 DEF AppShutdown, outVars, sesVars
<1>5. ASSUME NEW e \in Ends, AppDrop(e) PROVE Flags'
  BY <1>5, ZenonT(30) DEF AppDrop, TryRetire, outVars
<1>6. ASSUME NEW e \in Ends,
             OutRead(e) \/ OutEof(e) \/ OutAcquire(e) \/ OutSend(e) \/ OutEnd(e)
      PROVE  Flags'
  BY <1>1, <1>6 DEF OutRead, OutEof, OutAcquire, OutSend, OutEnd, OutUnchanged,
                    appVars, sesVars
<1>7. ASSUME NEW e \in Ends, OutFail(e) PROVE Flags'
  BY <1>7 DEF OutFail, OutUnchanged, appVars, sesVars
<1>8. ASSUME NEW e \in Ends, OutRetire(e) PROVE Flags'
  BY <1>8, ZenonT(30) DEF OutRetire, TryRetire, OutUnchanged, appVars, sesVars
<1>9. ASSUME NEW e \in Ends,
             \/ InData(e) \/ InWrite(e) \/ InDrain(e) \/ InWindow(e)
             \/ InGrow(e) \/ InNoGrow(e) \/ InEnd(e) \/ InSwap(e) \/ InFlush(e)
      PROVE  Flags'
  BY <1>1, <1>9, Zenon DEF InData, InWrite, InDrain, InWindow, InGrow, InNoGrow, InEnd,
                    InSwap, InFlush, InUnchanged, appVars, outVars, sesVars
<1>10. ASSUME NEW e \in Ends, InDecodeFail(e) PROVE Flags'
  BY <1>1, <1>10, Zenon DEF InDecodeFail, appVars, outVars
<1>11. ASSUME NEW e \in Ends, TickSwap(e) \/ TickSend(e) PROVE Flags'
  BY <1>1, <1>11, Zenon DEF TickSwap, TickSend, appVars, outVars, sesVars
<1>12. ASSUME NEW e \in Ends, SessionClose(e) PROVE Flags'
  BY <1>12 DEF SessionClose, Teardown, appVars, outVars
<1>13. ASSUME NEW e \in Ends, ReadEof(e) PROVE Flags'
  BY <1>13, Zenon DEF ReadEof, ReaderExit, Teardown, appVars, outVars
<1>14. ASSUME NEW e \in Ends, ReadLast(e) PROVE Flags'
  BY <1>14, Zenon DEF ReadLast, ReaderExit, Teardown, ReadUnchanged, appVars, outVars
<1>15. ASSUME NEW e \in Ends, ReadData(e) PROVE Flags'
  BY <1>15, Zenon DEF ReadData, ReadUnchanged, appVars, outVars
<1>16. ASSUME NEW e \in Ends, ReadWindow(e) \/ ReadClose(e) PROVE Flags'
  BY <1>1, <1>16, Zenon DEF ReadWindow, ReadClose, ReadUnchanged, appVars, outVars, sesVars
<1>17. CASE UNCHANGED vars
  BY <1>1, <1>17, Zenon DEF vars, appVars, outVars, sesVars
<1>18. QED
  BY <1>2, <1>3, <1>4, <1>5, <1>6, <1>7, <1>8, <1>9, <1>10, <1>11, <1>12,
     <1>13, <1>14, <1>15, <1>16, <1>17, Zenon DEF Next

(* ... and the tasks at one of their awaits; ... *)
LEMMA PlaceStep == Places /\ [Next]_vars => Places'
<1> SUFFICES ASSUME Places, [Next]_vars PROVE Places'
  OBVIOUS
<1> USE DEF Places
<1>1. CASE UNCHANGED <<saw, opc, ipc>>
  BY <1>1, Zenon
<1>2. CASE Cut
  BY <1>1, <1>2 DEF Cut, outVars, inVars
<1>3. ASSUME NEW e \in Ends, AppWrite(e) \/ AppShutdown(e) \/ AppDrop(e) PROVE Places'
  BY <1>1, <1>3, Zenon DEF AppWrite, AppShutdown, AppDrop, outVars, inVars
<1>4. ASSUME NEW e \in Ends, NEW o, NEW c
      PROVE  NextOpc(e, c, o) \in {"read", "acquire", "send"}
  BY DEF NextOpc
<1>5. ASSUME NEW e \in Ends, OutRead(e) \/ OutEof(e) \/ OutFail(e) \/ OutEnd(e) \/ OutRetire(e)
      PROVE  Places'
  BY <1>5, Zenon DEF OutRead, OutEof, OutFail, OutEnd, OutRetire, OutUnchanged, inVars
<1>20. ASSUME NEW e \in Ends, OutAcquire(e)
      PROVE  Places'
  <2>1. PICK z \in {"read", "acquire", "send"} : opc' = [opc EXCEPT ![e] = z]
    BY <1>4, <1>20, Zenon DEF OutAcquire
  <2>2. QED BY <2>1, <1>20, ZenonT(30) DEF OutAcquire, OutUnchanged, inVars
<1>21. ASSUME NEW e \in Ends, OutSend(e)
      PROVE  Places'
  <2>1. PICK z \in {"read", "acquire", "send"} : opc' = [opc EXCEPT ![e] = z]
    BY <1>4, <1>21, Zenon DEF OutSend
  <2>2. QED BY <2>1, <1>21 DEF OutSend, OutUnchanged, inVars
<1>6. ASSUME NEW e \in Ends PROVE AfterCredit(e) \in {"grow", "recv"}
  BY DEF AfterCredit
<1>7. ASSUME NEW e \in Ends,
             InData(e) \/ InGrow(e) \/ InNoGrow(e) \/ InSwap(e) \/ InFlush(e)
      PROVE  Places'
  BY <1>7, Zenon DEF InData, InGrow, InNoGrow, InSwap, InFlush, InUnchanged, outVars
<1>8. ASSUME NEW e \in Ends, InWrite(e) \/ InDrain(e) \/ InWindow(e)
      PROVE  Places'
  BY <1>6, <1>8, ZenonT(30) DEF InWrite, InDrain, InWindow, InUnchanged, outVars
<1>9. ASSUME NEW e \in Ends, InEnd(e) PROVE Places'
  BY <1>9, Zenon DEF InEnd, InUnchanged, outVars
<1>10. ASSUME NEW e \in Ends, InDecodeFail(e) PROVE Places'
  BY <1>10, Zenon DEF InDecodeFail, outVars
<1>11. ASSUME NEW e \in Ends, TickSwap(e) \/ TickSend(e) PROVE Places'
  BY <1>1, <1>11, Zenon DEF TickSwap, TickSend, outVars, inVars
<1>12. ASSUME NEW e \in Ends, SessionClose(e) \/ ReadEof(e) PROVE Places'
  BY <1>1, <1>12, ZenonT(30) DEF SessionClose, ReadEof, outVars, inVars
<1>13. ASSUME NEW e \in Ends, ReadData(e) \/ ReadWindow(e) \/ ReadClose(e) \/ ReadLast(e)
       PROVE  Places'
  BY <1>1, <1>13, ZenonT(30) DEF ReadData, ReadWindow, ReadClose, ReadLast, ReadUnchanged, outVars, inVars
<1>14. CASE UNCHANGED vars
  BY <1>1, <1>14 DEF vars, outVars, inVars
<1>15. QED
  BY <1>2, <1>3, <1>5, <1>20, <1>21, <1>7, <1>8, <1>9, <1>10, <1>11, <1>12, <1>13, <1>14, Zenon DEF Next

(* ... no counter goes below zero: the pump takes no more credit than      *)
(* there is and sends no more than it has read, and a growth of the window *)
(* stops at rx_window_max; ...                                             *)
LEMMA CounterStep == TypeInv /\ [Next]_vars => Counters'
<1> SUFFICES ASSUME TypeInv, [Next]_vars PROVE Counters'
  OBVIOUS
<1>0. Counters /\ Queues
  BY Zenon DEF TypeInv
<1> USE <1>0 DEF Counters
<1>1. CASE UNCHANGED <<written, taken, n, charged, off, credits, delivered, pending,
                       held, granted, csg, tick>>
  BY <1>1, Zenon
<1>2. CASE Cut
  BY <1>1, <1>2, Zenon DEF Cut, appVars, outVars, inVars
<1>3. ASSUME NEW e \in Ends, AppWrite(e) PROVE Counters'
  BY <1>3, StreamAssumption DEF AppWrite, outVars, inVars
<1>4. ASSUME NEW e \in Ends, AppShutdown(e) \/ AppDrop(e) PROVE Counters'
  BY <1>1, <1>4, Zenon DEF AppShutdown, AppDrop, outVars, inVars
<1>5. ASSUME NEW e \in Ends, OutRead(e) PROVE Counters'
  <2> DEFINE k == Smaller(ChunkMax, written[e] - taken[e])
  <2>0. written[e] - taken[e] \in Nat /\ ChunkMax \in Nat
    BY StreamAssumption
  <2>1. k \in Nat /\ k <= written[e] - taken[e]
    BY <2>0, SmallerFacts, Zenon
  <2>2. n' = [n EXCEPT ![e] = k] /\ taken' = [taken EXCEPT ![e] = @ + k]
    BY <1>5 DEF OutRead
  <2> HIDE DEF k
  <2>3. QED
    BY <1>5, <2>1, <2>2 DEF OutRead, OutUnchanged, appVars, inVars
<1>6. ASSUME NEW e \in Ends, OutEof(e) \/ OutFail(e) \/ OutEnd(e) \/ OutRetire(e)
      PROVE  Counters'
  BY <1>1, <1>6, ZenonT(30) DEF OutEof, OutFail, OutEnd, OutRetire, OutUnchanged, appVars, inVars
<1>7. ASSUME NEW e \in Ends, OutAcquire(e) PROVE Counters'
  <2> DEFINE k == Smaller(credits[e], n[e] - charged[e])
  <2>0. n[e] - charged[e] \in Nat /\ credits[e] \in Nat
    OBVIOUS
  <2>1. k \in Nat /\ k <= credits[e] /\ k <= n[e] - charged[e]
    BY <2>0, SmallerFacts, Zenon
  <2>2. credits' = [credits EXCEPT ![e] = @ - k] /\ charged' = [charged EXCEPT ![e] = @ + k]
    BY <1>7, Zenon DEF OutAcquire
  <2> HIDE DEF k
  <2>3. QED
    BY <1>7, <2>1, <2>2 DEF OutAcquire, OutUnchanged, appVars, inVars
<1>8. ASSUME NEW e \in Ends, OutSend(e) PROVE Counters'
  <2> DEFINE k == Smaller(MaxData, n[e] - off[e])
  <2>0. n[e] - off[e] \in Nat /\ MaxData \in Nat
    BY StreamAssumption
  <2>1. k \in Nat /\ k <= n[e] - off[e]
    BY <2>0, SmallerFacts, Zenon
  <2>2. off' = [off EXCEPT ![e] = @ + k]
    BY <1>8, Zenon DEF OutSend
  <2> HIDE DEF k
  <2>3. QED
    BY <1>8, <2>1, <2>2 DEF OutSend, OutUnchanged, appVars, inVars
<1>9. ASSUME NEW e \in Ends, InData(e) PROVE Counters'
  <2>0. inq[e] \in Seq(Frames) /\ inq[e] # <<>>
    BY <1>9 DEF InData, Queues
  <2>1. Bytes(Head(inq[e])) \in Nat
    BY <2>0, FrameFacts, HeadFrame, Zenon
  <2> DEFINE k == Bytes(Head(inq[e]))
  <2>2. csg' = [csg EXCEPT ![e] = @ + k] /\ k \in Nat
    BY <1>9, <2>1, Zenon DEF InData
  <2>3. UNCHANGED <<written, taken, n, charged, off, credits, delivered, pending,
                       held, granted, tick>>
    BY <1>9, Zenon DEF InData, InUnchanged, appVars, outVars
  <2> HIDE DEF k
  <2>4. QED
    BY <2>2, <2>3
<1>10. ASSUME NEW e \in Ends, InWrite(e) PROVE Counters'
  <2>1. Bytes(cur[e]) \in Nat /\ cur[e].to \in Nat
    BY FrameFacts, Zenon DEF Queues
  <2>2. QED
    BY <1>10, <2>1 DEF InWrite, InUnchanged, appVars, outVars
<1>11. ASSUME NEW e \in Ends, InDrain(e) \/ InWindow(e) \/ InSwap(e) PROVE Counters'
  BY <1>11, SMTT(30) DEF InDrain, InWindow, InSwap, InUnchanged, appVars, outVars
<1>12. ASSUME NEW e \in Ends, InGrow(e) PROVE Counters'
  <2>0. granted[e] \in Nat /\ RxWindowMax - granted[e] \in Nat
    BY StreamAssumption
  <2>1. Bonus(e) \in Nat /\ Bonus(e) <= RxWindowMax - granted[e]
    BY <2>0, SmallerFacts DEF Bonus
  <2>2. QED
    BY <1>12, <2>1, StreamAssumption DEF InGrow, InUnchanged, appVars, outVars
<1>13. ASSUME NEW e \in Ends, InNoGrow(e) \/ InEnd(e) PROVE Counters'
  BY <1>1, <1>13, Zenon DEF InNoGrow, InEnd, InUnchanged, appVars, outVars
<1>14. ASSUME NEW e \in Ends, InDecodeFail(e) PROVE Counters'
  BY <1>1, <1>14, Zenon DEF InDecodeFail, appVars, outVars
<1>15. ASSUME NEW e \in Ends, InFlush(e) PROVE Counters'
  <2>0. pending[e] + held[e] \in Nat
    OBVIOUS
  <2>3. pending' = pending \/ pending' = [pending EXCEPT ![e] = pending[e] + held[e]]
    BY <1>15, Zenon DEF InFlush
  <2>4. held' = [held EXCEPT ![e] = 0]
    BY <1>15, Zenon DEF InFlush
  <2>1. pending' \in [Ends -> Nat] /\ held' \in [Ends -> Nat]
    BY <2>0, <2>3, <2>4, ZenonT(30)
  <2>2. QED
    BY <1>15, <2>1, Zenon DEF InFlush, InUnchanged, appVars, outVars
<1>16. ASSUME NEW e \in Ends, TickSwap(e) \/ TickSend(e) PROVE Counters'
  BY <1>16 DEF TickSwap, TickSend, appVars, outVars, inVars
<1>17. ASSUME NEW e \in Ends, SessionClose(e) \/ ReadEof(e) PROVE Counters'
  BY <1>1, <1>17, Zenon DEF SessionClose, ReadEof, appVars, outVars, inVars
<1>18. ASSUME NEW e \in Ends, ReadData(e) \/ ReadClose(e) \/ ReadLast(e) PROVE Counters'
  BY <1>1, <1>18, ZenonT(30) DEF ReadData, ReadClose, ReadLast, ReadUnchanged, appVars, outVars, inVars
<1>19. ASSUME NEW e \in Ends, ReadWindow(e) PROVE Counters'
  <2>0. Incoming(e) \in Seq(Frames) /\ Incoming(e) # <<>>
    BY <1>19, PeerFacts, Zenon DEF ReadWindow, CanRead, Incoming, Queues
  <2>1. Head(Incoming(e)).delta \in Nat
    BY <1>19, <2>0, FrameFacts, HeadFrame, ZenonT(30) DEF ReadWindow
  <2>2. QED
    BY <1>19, <2>1 DEF ReadWindow, ReadUnchanged, appVars, outVars, inVars
<1>20. CASE UNCHANGED vars
  BY <1>1, <1>20, Zenon DEF vars, appVars, outVars, inVars
<1>21. QED
  BY Zenon, <1>2, <1>3, <1>4, <1>5, <1>6, <1>7, <1>8, <1>9, <1>10, <1>11, <1>12, <1>13, <1>14,
     <1>15, <1>16, <1>17, <1>18, <1>19, <1>20 DEF Next

(* ... and the queues hold frames. *)
LEMMA QueueStep == TypeInv /\ [Next]_vars => Queues'
<1> SUFFICES ASSUME TypeInv, [Next]_vars PROVE Queues'
  OBVIOUS
<1>0. Counters /\ Queues
  BY DEF TypeInv
<1>a. \A e \in Ends : AbortTried(e) \in [Ends -> Seq(Frames)]
  BY <1>0, AbortTriedType
<1>b. \A e \in Ends, f \in Frames : Sent(e, f) \in [Ends -> Seq(Frames)]
  BY <1>0, SentType
<1>c. \A e \in Ends : Incoming(e) # <<>> =>
         Popped(e) \in [Ends -> Seq(Frames)] /\ Head(Incoming(e)) \in Frames
  BY <1>0, PeerFacts DEF Queues, Popped, Incoming
<1>d. Fin \in Frames /\ Close \in Frames /\ Goaway \in Frames /\ Abort \in Frames
      /\ \A k \in Nat : Window(k) \in Frames
  BY FrameFacts
<1> USE <1>0 DEF Queues
<1>1. CASE UNCHANGED <<cur, inq, link>>
  BY <1>1, Zenon
<1>2. CASE Cut
  BY <1>1, <1>2, Zenon DEF Cut, inVars
<1>3. ASSUME NEW e \in Ends, AppWrite(e) \/ AppShutdown(e) PROVE Queues'
  BY <1>1, <1>3 DEF AppWrite, AppShutdown, inVars
<1>4. ASSUME NEW e \in Ends, AppDrop(e) PROVE Queues'
  BY <1>a, <1>4, Zenon DEF AppDrop, TryRetire, inVars
<1>5. ASSUME NEW e \in Ends, OutRead(e) \/ OutEof(e) \/ OutAcquire(e) \/ OutFail(e)
      PROVE  Queues'
  BY <1>1, <1>5, Zenon DEF OutRead, OutEof, OutAcquire, OutFail, OutUnchanged, inVars
<1>6. ASSUME NEW e \in Ends, OutSend(e) PROVE Queues'
  <2> DEFINE k == Smaller(MaxData, n[e] - off[e])
             pos == taken[e] - n[e] + off[e]
  <2>2. /\ taken[e] \in Nat /\ n[e] \in Nat /\ off[e] \in Nat
        /\ off[e] <= n[e] /\ n[e] <= taken[e] /\ MaxData \in Nat
    BY StreamAssumption, Zenon DEF Counters
  <2>3. n[e] - off[e] \in Nat /\ MaxData \in Nat /\ pos \in Nat
    BY ONLY <2>2
  <2>4. k \in Nat
    BY <2>3, SmallerFacts, Zenon
  <2> HIDE DEF k, pos
  <2>5. Data(pos, pos + k) \in Frames
    BY <2>3, <2>4, FrameFacts
  <2>1. Piece(e, Smaller(MaxData, n[e] - off[e])) \in Frames
    BY <2>5, Zenon DEF Piece, k, pos
  <2>6. QED
    BY <1>6, <1>b, <2>1, Zenon DEF OutSend, OutUnchanged, inVars
<1>7. ASSUME NEW e \in Ends, OutEnd(e) PROVE Queues'
  <2>1. LastFrame(e) \in Frames
    BY <1>d, Zenon DEF LastFrame
  <2>2. QED
    BY <1>7, <1>b, <2>1 DEF OutEnd, OutUnchanged, inVars
<1>8. ASSUME NEW e \in Ends, OutRetire(e) PROVE Queues'
  BY <1>a, <1>8, Zenon DEF OutRetire, TryRetire, OutUnchanged, inVars
<1>9. ASSUME NEW e \in Ends, InData(e) PROVE Queues'
  <2>0. inq[e] \in Seq(Frames) /\ inq[e] # <<>> /\ Head(inq[e]).t = "DATA"
    BY <1>9 DEF InData
  <2>1. Head(inq[e]) \in DataFrames /\ Tail(inq[e]) \in Seq(Frames)
    BY <2>0, FrameFacts, HeadFrame, Zenon
  <2>2. QED
    BY <1>9, <2>1 DEF InData, InUnchanged
<1>10. ASSUME NEW e \in Ends, InWrite(e) \/ InDrain(e) \/ InGrow(e) \/ InNoGrow(e) \/ InSwap(e)
       PROVE  Queues'
  BY <1>1, <1>10, Zenon DEF InWrite, InDrain, InGrow, InNoGrow, InSwap, InUnchanged
<1>11. ASSUME NEW e \in Ends, InWindow(e) PROVE Queues'
  BY <1>b, <1>d, <1>11, Zenon DEF InWindow, InUnchanged, Counters
<1>12. ASSUME NEW e \in Ends, InEnd(e) PROVE Queues'
  BY <1>12 DEF InEnd, InUnchanged
<1>13. ASSUME NEW e \in Ends, InDecodeFail(e) PROVE Queues'
  <2>1. Append(Tail(inq[e]), Abort) \in Seq(Frames)
    BY <1>13, <1>d, SMTT(30) DEF InDecodeFail
  <2>2. QED
    BY <1>b, <1>d, <1>13, <2>1, Zenon DEF InDecodeFail
<1>14. ASSUME NEW e \in Ends, InFlush(e) PROVE Queues'
  <2>0. Window(held[e]) \in Frames
    BY <1>d, Zenon DEF Counters
  <2>1. link' \in [Ends -> Seq(Frames)]
    BY <1>b, <1>14, <2>0, ZenonT(30) DEF InFlush
  <2>2. inq' \in [Ends -> Seq(Frames)]
    BY <1>14 DEF InFlush
  <2>3. QED
    BY <1>14, <2>1, <2>2, Zenon DEF InFlush
<1>15. ASSUME NEW e \in Ends, TickSwap(e) PROVE Queues'
  BY <1>1, <1>15, Zenon DEF TickSwap, inVars
<1>16. ASSUME NEW e \in Ends, TickSend(e) PROVE Queues'
  BY <1>b, <1>d, <1>16, Zenon DEF TickSend, inVars, Counters
<1>17. ASSUME NEW e \in Ends, SessionClose(e) PROVE Queues'
  BY <1>a, <1>b, <1>d, <1>17, Zenon DEF SessionClose, Teardown, inVars
<1>18. ASSUME NEW e \in Ends, ReadEof(e) PROVE Queues'
  BY <1>a, <1>18 DEF ReadEof, ReaderExit, Teardown, inVars
<1>19. ASSUME NEW e \in Ends, ReadData(e) PROVE Queues'
  <2>1. Popped(e) \in [Ends -> Seq(Frames)] /\ Head(Incoming(e)) \in Frames
    BY <1>c, <1>19, Zenon DEF ReadData, CanRead
  <2>2. Append(inq[e], Head(Incoming(e))) \in Seq(Frames)
    BY <2>1
  <2>3. QED
    BY <2>1, <2>2, <1>19, ZenonT(30) DEF ReadData, ReadUnchanged, inVars
<1>20. ASSUME NEW e \in Ends, ReadWindow(e) PROVE Queues'
  BY <1>c, <1>20, Zenon DEF ReadWindow, CanRead, ReadUnchanged, inVars
<1>21. ASSUME NEW e \in Ends, ReadClose(e) PROVE Queues'
  BY <1>a, <1>c, <1>21, Zenon DEF ReadClose, CanRead, ReadUnchanged, inVars
<1>22. ASSUME NEW e \in Ends, ReadLast(e) PROVE Queues'
  BY <1>a, <1>c, <1>22, Zenon DEF ReadLast, ReaderExit, Teardown, CanRead, ReadUnchanged, inVars
<1>23. CASE UNCHANGED vars
  BY <1>1, <1>23, Zenon DEF vars, inVars
<1>24. QED
  BY <1>2, <1>3, <1>4, <1>5, <1>6, <1>7, <1>8, <1>9, <1>10, <1>11, <1>12, <1>13, <1>14,
     <1>15, <1>16, <1>17, <1>18, <1>19, <1>20, <1>21, <1>22, <1>23, Zenon DEF Next

(* The types of a stream are inductive on their own. *)
LEMMA TypeStep == TypeInv /\ [Next]_vars => TypeInv'
  BY FlagStep, PlaceStep, CounterStep, QueueStep DEF TypeInv

-----------------------------------------------------------------------------
(* The send loop: a chunk is paid for and sent before the next is read,    *)
(* and a pump that ends clean has sent all that the app wrote before it    *)
(* shut down.                                                              *)
Ended == {"end", "retire", "done"}
SendLoop ==
    \A s \in Ends :
        /\ opc[s] = "read" => off[s] = n[s] /\ charged[s] = n[s]
        /\ ~clean[s] => opc[s] \in Ended
        /\ clean[s] /\ opc[s] \in Ended =>
             off[s] = n[s] /\ shut[s] /\ written[s] = taken[s]

(* A closed session has forgotten the stream, and an app sees the end of   *)
(* the stream only from a pump that stops.                                 *)
Shutdowns ==
    \A r \in Ends :
        /\ closed[r] => ~reg[r]
        /\ saw[r] # "open" => ipc[r] \in {"swap", "flush", "done"}

(* What the tasks of a stream keep to, whatever is in the queues. *)
PumpInv == TypeInv /\ SendLoop /\ Shutdowns

(* It holds when the stream is opened ... *)
LEMMA PumpInit == Init => PumpInv
<1> SUFFICES ASSUME Init PROVE PumpInv
  OBVIOUS
<1>1. TypeInv
  BY TypeInit, Zenon
<1>2. SendLoop
  BY Zenon DEF Init, SendLoop, Ended
<1>3. Shutdowns
  BY Zenon DEF Init, Shutdowns
<1>4. QED
  BY <1>1, <1>2, <1>3 DEF PumpInv

(* The send loop keeps its books through partial grants, failures and      *)
(* ends.                                                                   *)
LEMMA SendLoopStep == TypeInv /\ SendLoop /\ [Next]_vars => SendLoop'
<1> SUFFICES ASSUME TypeInv, SendLoop, [Next]_vars PROVE SendLoop'
  OBVIOUS
<1>0. Counters /\ Flags /\ Places
  BY Zenon DEF TypeInv
<1> DEFINE P(s) == /\ opc[s] = "read" => off[s] = n[s] /\ charged[s] = n[s]
                   /\ ~clean[s] => opc[s] \in Ended
                   /\ clean[s] /\ opc[s] \in Ended =>
                        off[s] = n[s] /\ shut[s] /\ written[s] = taken[s]
<1> SUFFICES ASSUME NEW s \in Ends PROVE P(s)'
  BY ZenonT(30) DEF SendLoop
<1>P. P(s)
  BY ZenonT(30) DEF SendLoop
<1>1. CASE UNCHANGED <<written[s], shut[s], opc[s], off[s], n[s], charged[s], taken[s], clean[s]>>
  BY <1>1, <1>P, ZenonT(30)
<1>2. CASE Cut
  BY <1>1, <1>2, ZenonT(30) DEF Cut, appVars, outVars
<1>3. ASSUME NEW e \in Ends, AppWrite(e) PROVE P(s)'
  BY <1>0, <1>3, <1>P, Zenon DEF AppWrite, outVars, Ended, Counters
<1>4. ASSUME NEW e \in Ends, AppShutdown(e) \/ AppDrop(e) PROVE P(s)'
  BY <1>0, <1>4, <1>P, ZenonT(30) DEF AppShutdown, AppDrop, outVars, Flags
<1>5. ASSUME NEW e \in Ends, OutRead(e) PROVE P(s)'
  <2>1. CASE s = e
    BY <1>0, <1>5, <1>P, <2>1, Zenon DEF OutRead, OutUnchanged, appVars, Ended, Places, Flags
  <2>2. CASE s # e
    BY <1>0, <1>1, <1>5, <2>2, ZenonT(30) DEF OutRead, OutUnchanged, appVars, Places, Counters
  <2>3. QED BY <2>1, <2>2, Zenon
<1>6. ASSUME NEW e \in Ends, OutEof(e) PROVE P(s)'
  BY <1>0, <1>6, <1>P, ZenonT(30) DEF OutEof, AtEof, OutUnchanged, appVars, Ended, Places
<1>7. ASSUME NEW e \in Ends, OutAcquire(e) PROVE P(s)'
  <2>1. CASE s = e
    <3> DEFINE k == Smaller(credits[e], n[e] - charged[e])
    <3>0. k \in Nat /\ k <= n[e] - charged[e]
      <4>1. n[e] - charged[e] \in Nat /\ credits[e] \in Nat
        BY <1>0, SMTT(30) DEF Counters
      <4>2. QED
        BY <4>1, SmallerFacts, ZenonT(30)
    <3>1. opc'[s] \notin Ended
      BY <1>0, <1>7, <2>1, Zenon DEF OutAcquire, NextOpc, Places, Ended
    <3>2. opc'[s] = "read" => ~ (off[s] < n[s]) /\ ~ (charged[s] + k < n[s])
      BY <1>0, <1>7, <2>1, Zenon DEF OutAcquire, NextOpc, Places
    <3>3. charged'[s] = charged[s] + k
      BY <1>0, <1>7, <2>1, Zenon DEF OutAcquire, Counters
    <3> HIDE DEF k
    <3>4. opc'[s] = "read" => off[s] = n[s] /\ charged'[s] = n[s]
      BY <1>0, <2>1, <3>0, <3>2, <3>3 DEF Counters
    <3>5. clean[s]
      BY <1>7, <1>P, <2>1, ZenonT(30) DEF OutAcquire, Ended
    <3>6. QED
      BY <1>7, <3>1, <3>4, <3>5, ZenonT(30) DEF OutAcquire, OutUnchanged
  <2>2. CASE s # e
    BY <1>0, <1>1, <1>7, <2>2, ZenonT(30) DEF OutAcquire, OutUnchanged, appVars, Places, Counters
  <2>3. QED BY <2>1, <2>2, ZenonT(30)
<1>8. ASSUME NEW e \in Ends, OutFail(e) PROVE P(s)'
  <2>1. CASE s = e
    BY <1>0, <1>8, <2>1, Zenon DEF OutFail, Places, Flags, Ended
  <2>2. CASE s # e
    BY <1>0, <1>1, <1>8, <2>2, ZenonT(30) DEF OutFail, OutUnchanged, appVars, Places, Flags
  <2>3. QED BY <2>1, <2>2, ZenonT(30)
<1>9. ASSUME NEW e \in Ends, OutSend(e) PROVE P(s)'
  <2>1. CASE s = e
    <3> DEFINE k == Smaller(MaxData, n[e] - off[e])
    <3>0. k \in Nat /\ k <= n[e] - off[e]
      <4>1. n[e] - off[e] \in Nat /\ MaxData \in Nat
        BY <1>0, StreamAssumption DEF Counters
      <4>2. QED
        BY <4>1, SmallerFacts, Zenon
    <3>1. opc'[s] \notin Ended
      BY <1>0, <1>9, <2>1, ZenonT(30) DEF OutSend, NextOpc, Places, Ended
    <3>2. off'[s] = off[s] + k
      BY <1>0, <1>9, <2>1, Zenon DEF OutSend, Counters
    <3>3. opc'[s] = "read" => ~ (off[s] + k < n[s]) /\ ~ (charged[s] < n[s])
      BY <1>0, <1>9, <2>1, ZenonT(30) DEF OutSend, NextOpc, Places
    <3> HIDE DEF k
    <3>4. opc'[s] = "read" => off'[s] = n[s] /\ charged[s] = n[s]
      BY <1>0, <2>1, <3>0, <3>2, <3>3 DEF Counters
    <3>5. clean[s]
      BY <1>9, <1>P, <2>1, ZenonT(30) DEF OutSend, Ended
    <3>6. QED
      BY <1>9, <3>1, <3>4, <3>5, ZenonT(30) DEF OutSend, OutUnchanged
  <2>2. CASE s # e
    BY <1>0, <1>1, <1>9, <2>2, Zenon DEF OutSend, OutUnchanged, appVars, Places, Counters
  <2>3. QED BY <2>1, <2>2, Zenon
<1>10. ASSUME NEW e \in Ends, OutEnd(e) \/ OutRetire(e) PROVE P(s)'
  BY <1>0, <1>10, <1>P, ZenonT(30) DEF OutEnd, OutRetire, OutUnchanged, appVars, Places, Ended
<1>11. ASSUME NEW e \in Ends,
             \/ InData(e) \/ InWrite(e) \/ InDrain(e) \/ InWindow(e)
             \/ InGrow(e) \/ InNoGrow(e) \/ InEnd(e) \/ InSwap(e) \/ InFlush(e)
      PROVE  P(s)'
  BY <1>1, <1>11, Zenon DEF InData, InWrite, InDrain, InWindow, InGrow, InNoGrow, InEnd,
                    InSwap, InFlush, InUnchanged, appVars, outVars
<1>12. ASSUME NEW e \in Ends, InDecodeFail(e) \/ TickSwap(e) \/ TickSend(e) PROVE P(s)'
  BY <1>1, <1>12, Zenon DEF InDecodeFail, TickSwap, TickSend, appVars, outVars
<1>13. ASSUME NEW e \in Ends, SessionClose(e) \/ ReadEof(e) PROVE P(s)'
  BY <1>1, <1>13, Zenon DEF SessionClose, ReadEof, appVars, outVars
<1>14. ASSUME NEW e \in Ends, ReadData(e) \/ ReadWindow(e) \/ ReadClose(e) \/ ReadLast(e)
       PROVE  P(s)'
  BY <1>1, <1>14, ZenonT(30) DEF ReadData, ReadWindow, ReadClose, ReadLast, ReadUnchanged, appVars, outVars
<1>15. CASE UNCHANGED vars
  BY <1>1, <1>15, Zenon DEF vars, appVars, outVars
<1>16. QED
  BY Zenon, <1>2, <1>3, <1>4, <1>5, <1>6, <1>7, <1>8, <1>9, <1>10, <1>11, <1>12, <1>13, <1>14,
     <1>15 DEF Next

(* The shutdown flags keep their order through close, cut and teardown. *)
LEMMA ShutdownStep == TypeInv /\ Shutdowns /\ [Next]_vars => Shutdowns'
<1> SUFFICES ASSUME TypeInv, Shutdowns, [Next]_vars, NEW r \in Ends
             PROVE  /\ closed'[r] => ~reg'[r]
                    /\ saw'[r] # "open" => ipc'[r] \in {"swap", "flush", "done"}
  BY Zenon DEF Shutdowns
<1>0. Flags /\ Places
  BY Zenon DEF TypeInv
<1>P. /\ closed[r] => ~reg[r]
      /\ saw[r] # "open" => ipc[r] \in {"swap", "flush", "done"}
  BY Zenon DEF Shutdowns
<1> DEFINE A == closed'[r] => ~reg'[r]
           B == saw'[r] # "open" => ipc'[r] \in {"swap", "flush", "done"}
<1>1. UNCHANGED <<closed[r], reg[r]>> => A
  BY <1>P, Zenon
<1>2. UNCHANGED <<saw[r], ipc[r]>> => B
  BY <1>P, Zenon
<1>3. CASE Cut
  BY <1>1, <1>2, <1>3, Zenon DEF Cut, inVars
<1>4. ASSUME NEW e \in Ends, AppWrite(e) \/ AppShutdown(e) PROVE A /\ B
  BY <1>1, <1>2, <1>4, Zenon DEF AppWrite, AppShutdown, inVars, sesVars
<1>5. ASSUME NEW e \in Ends, AppDrop(e) PROVE A /\ B
  <2>1. A
    BY <1>0, <1>P, <1>5, ZenonT(30) DEF AppDrop, TryRetire, Flags
  <2>2. B
    BY <1>2, <1>5 DEF AppDrop, inVars
  <2>3. QED BY <2>1, <2>2, Zenon
<1>6. ASSUME NEW e \in Ends,
             \/ OutRead(e) \/ OutEof(e) \/ OutAcquire(e) \/ OutFail(e)
             \/ OutSend(e) \/ OutEnd(e)
      PROVE  A /\ B
  BY <1>1, <1>2, <1>6, Zenon DEF OutRead, OutEof, OutAcquire, OutFail, OutSend, OutEnd,
                    OutUnchanged, inVars, sesVars
<1>7. ASSUME NEW e \in Ends, OutRetire(e) PROVE A /\ B
  <2>1. A
    BY <1>0, <1>P, <1>7, Zenon DEF OutRetire, TryRetire, OutUnchanged, sesVars, Flags
  <2>2. B
    BY <1>2, <1>7, Zenon DEF OutRetire, OutUnchanged, inVars
  <2>3. QED BY <2>1, <2>2, Zenon
<1>8. ASSUME NEW e \in Ends,
             \/ InData(e) \/ InWrite(e) \/ InDrain(e) \/ InWindow(e)
             \/ InGrow(e) \/ InNoGrow(e) \/ InEnd(e) \/ InSwap(e) \/ InFlush(e)
      PROVE  A /\ B
  <2>1. A
    BY <1>1, <1>8, Zenon DEF InData, InWrite, InDrain, InWindow, InGrow, InNoGrow, InEnd,
                    InSwap, InFlush, InUnchanged, sesVars
  <2>2. CASE r # e
    <3>1. saw'[r] = saw[r] /\ ipc'[r] = ipc[r]
      BY <1>0, <1>8, <2>2, ZenonT(30) DEF InData, InWrite, InDrain, InWindow, InGrow, InNoGrow, InEnd,
                    InSwap, InFlush, Places
    <3>2. QED BY <1>2, <2>1, <3>1, Zenon
  <2>3. CASE r = e
    <3>1. CASE InEnd(e) \/ InSwap(e) \/ InFlush(e)
      BY <1>0, <2>1, <2>3, <3>1, ZenonT(30) DEF InEnd, InSwap, InFlush, Places
    <3>2. CASE \/ InData(e) \/ InWrite(e) \/ InDrain(e) \/ InWindow(e)
               \/ InGrow(e) \/ InNoGrow(e)
      <4>1. ipc[e] \notin {"swap", "flush", "done"} /\ saw' = saw
        BY <3>2, ZenonT(30) DEF InData, InWrite, InDrain, InWindow, InGrow, InNoGrow
      <4>2. QED BY <1>P, <2>1, <2>3, <4>1, ZenonT(30)
    <3>3. QED BY <1>8, <3>1, <3>2, Zenon
  <2>4. QED BY <2>2, <2>3
<1>9. ASSUME NEW e \in Ends, InDecodeFail(e) PROVE A /\ B
  BY <1>0, <1>1, <1>P, <1>9, ZenonT(30) DEF InDecodeFail, Places
<1>10. ASSUME NEW e \in Ends, TickSwap(e) \/ TickSend(e) PROVE A /\ B
  BY <1>1, <1>2, <1>10, Zenon DEF TickSwap, TickSend, inVars, sesVars
<1>11. ASSUME NEW e \in Ends, SessionClose(e) PROVE A /\ B
  <2>1. A
    BY <1>0, <1>P, <1>11, ZenonT(30) DEF SessionClose, Teardown, Flags
  <2>2. B
    BY <1>2, <1>11, Zenon DEF SessionClose, inVars
  <2>3. QED BY <2>1, <2>2, Zenon
<1>12. ASSUME NEW e \in Ends, ReadEof(e) PROVE A /\ B
  <2>1. A
    BY <1>0, <1>P, <1>12, Zenon DEF ReadEof, ReaderExit, Teardown, Flags
  <2>2. B
    BY <1>2, <1>12, Zenon DEF ReadEof, inVars
  <2>3. QED BY <2>1, <2>2
<1>13. ASSUME NEW e \in Ends, ReadLast(e) PROVE A /\ B
  <2>1. A
    BY <1>0, <1>P, <1>13, Zenon DEF ReadLast, ReaderExit, Teardown, Flags
  <2>2. B
    BY <1>2, <1>13, Zenon DEF ReadLast, ReadUnchanged, inVars
  <2>3. QED BY <2>1, <2>2, Zenon
<1>14. ASSUME NEW e \in Ends, ReadData(e) \/ ReadWindow(e) \/ ReadClose(e) PROVE A /\ B
  BY <1>1, <1>2, <1>14, ZenonT(30) DEF ReadData, ReadWindow, ReadClose, ReadUnchanged, inVars, sesVars
<1>15. CASE UNCHANGED vars
  BY <1>1, <1>2, <1>15, Zenon DEF vars, inVars, sesVars
<1>16. QED
  BY ZenonT(30), <1>3, <1>4, <1>5, <1>6, <1>7, <1>8, <1>9, <1>10, <1>11, <1>12, <1>13, <1>14,
     <1>15 DEF Next

(* ... and is inductive. *)
LEMMA PumpStep == PumpInv /\ [Next]_vars => PumpInv'
BY TypeStep, SendLoopStep, ShutdownStep DEF PumpInv

-----------------------------------------------------------------------------
(* A frame takes a reader that stands at byte a to byte b; a FIN stands    *)
(* where the stream ends, at w. A queue leads from a to b when its frames  *)
(* do so one after the other.                                              *)
Moves(f, a, b, w) ==
    IF f.t = "DATA" THEN f.from = a /\ f.to = b
    ELSE a = b /\ (f.t = "FIN" => a = w)
Leads(q, a, b, w) ==
    \E pos \in [0..Len(q) -> Nat] :
        /\ pos[0] = a /\ pos[Len(q)] = b
        /\ \A i \in 1..Len(q) : Moves(q[i], pos[i-1], pos[i], w)

(* What the receiver still has to read: from the app's position a, the     *)
(* inbound queue leads to some m, and, while the reader still passes       *)
(* frames on, the link leads from there to the sender's position `at`      *)
(* (short of it once the connection is cut).                               *)
Chain(qi, ql, a, at, w, alive, broken) ==
    \E m, z \in Nat :
        /\ Leads(qi, a, m, w)
        /\ alive => Leads(ql, m, z, w) /\ (~broken => z = at)

(* An empty queue leads nowhere. *)
LEMMA LeadsEmpty ==
    ASSUME NEW a \in Nat, NEW w
    PROVE  Leads(<<>>, a, a, w)
<1> DEFINE pos == [i \in 0..0 |-> a]
<1>1. pos \in [0..Len(<<>>) -> Nat] /\ pos[0] = a /\ pos[Len(<<>>)] = a
  OBVIOUS
<1>2. \A i \in 1..Len(<<>>) : Moves(<<>>[i], pos[i-1], pos[i], w)
  OBVIOUS
<1> QED
  BY <1>1, <1>2, Zenon DEF Leads

(* A frame appended to a queue carries its end on. *)
LEMMA LeadsAppend ==
    ASSUME NEW q \in Seq(Frames), NEW a \in Nat, NEW b \in Nat, NEW c \in Nat, NEW w,
           NEW f \in Frames, Leads(q, a, b, w), Moves(f, b, c, w)
    PROVE  Leads(Append(q, f), a, c, w)
<1>1. PICK pos \in [0..Len(q) -> Nat] :
        /\ pos[0] = a /\ pos[Len(q)] = b
        /\ \A i \in 1..Len(q) : Moves(q[i], pos[i-1], pos[i], w)
  BY Zenon DEF Leads
<1> DEFINE L == Len(q)
           r == Append(q, f)
           new == [i \in 0..(L + 1) |-> IF i = L + 1 THEN c ELSE pos[i]]
<1>2. L \in Nat /\ Len(r) = L + 1
  OBVIOUS
<1>3. \A i \in 1..L : r[i] = q[i]
  OBVIOUS
<1>4. r[L + 1] = f
  OBVIOUS
<1>5. new \in [0..Len(r) -> Nat] /\ new[0] = a /\ new[Len(r)] = c
  BY <1>1, <1>2
<1>6. ASSUME NEW i \in 1..Len(r)
      PROVE  Moves(r[i], new[i-1], new[i], w)
  <2>1. CASE i = L + 1
    <3>1. new[i] = c /\ new[i-1] = b
      BY <1>1, <1>2, <2>1
    <3>2. QED
      BY <1>4, <2>1, <3>1, Zenon
  <2>2. CASE i \in 1..L
    <3>1. new[i] = pos[i] /\ new[i-1] = pos[i-1]
      BY <1>2, <2>2
    <3>2. QED
      BY <1>1, <1>3, <2>2, <3>1
  <2>3. QED
    BY <1>2, <2>1, <2>2
<1> HIDE DEF new, r
<1>7. Leads(r, a, c, w)
  BY <1>5, <1>6, Zenon DEF Leads
<1>8. QED
  BY <1>7 DEF r

(* A frame taken off a queue carries its beginning on. *)
LEMMA LeadsTail ==
    ASSUME NEW q \in Seq(Frames), NEW a \in Nat, NEW c \in Nat, NEW w,
           q # <<>>, Leads(q, a, c, w)
    PROVE  \E b \in Nat : Moves(Head(q), a, b, w) /\ Leads(Tail(q), b, c, w)
<1>1. PICK pos \in [0..Len(q) -> Nat] :
        /\ pos[0] = a /\ pos[Len(q)] = c
        /\ \A i \in 1..Len(q) : Moves(q[i], pos[i-1], pos[i], w)
  BY Zenon DEF Leads
<1> DEFINE L == Len(q)
           r == Tail(q)
           new == [i \in 0..(L - 1) |-> pos[i + 1]]
<1>2. L \in Nat /\ L >= 1 /\ Len(r) = L - 1
  OBVIOUS
<1>3. \A i \in 1..(L-1) : r[i] = q[i + 1]
  OBVIOUS
<1>4. Head(q) = q[1]
  OBVIOUS
<1>5. Moves(Head(q), a, pos[1], w) /\ pos[1] \in Nat
  BY <1>1, <1>2, <1>4
<1>6. new \in [0..Len(r) -> Nat] /\ new[0] = pos[1] /\ new[Len(r)] = c
  BY <1>1, <1>2
<1>7. ASSUME NEW i \in 1..Len(r)
      PROVE  Moves(r[i], new[i-1], new[i], w)
  <2>1. new[i] = pos[i + 1] /\ new[i - 1] = pos[i]
    BY <1>2
  <2>2. Moves(q[i + 1], pos[i], pos[i + 1], w)
    BY <1>1, <1>2
  <2>3. QED
    BY <1>2, <1>3, <2>1, <2>2
<1> HIDE DEF new, r
<1>8. Leads(r, pos[1], c, w)
  BY <1>6, <1>7, Zenon DEF Leads
<1>9. QED
  BY <1>5, <1>8 DEF r

(* A queue with no FIN (no byte is numbered -1) is a queue for every end. *)
LEMMA LeadsEnd ==
    ASSUME NEW q \in Seq(Frames), NEW a \in Nat, NEW b \in Nat, NEW w,
           Leads(q, a, b, -1)
    PROVE  Leads(q, a, b, w)
<1>1. PICK pos \in [0..Len(q) -> Nat] :
        /\ pos[0] = a /\ pos[Len(q)] = b
        /\ \A i \in 1..Len(q) : Moves(q[i], pos[i-1], pos[i], -1)
  BY Zenon DEF Leads
<1>2. ASSUME NEW i \in 1..Len(q) PROVE Moves(q[i], pos[i-1], pos[i], w)
  <2>1. pos[i-1] \in Nat
    OBVIOUS
  <2>2. QED
    BY <1>1, <2>1 DEF Moves
<1>3. QED
  BY <1>1, <1>2, Zenon DEF Leads

(* Frames other than DATA and FIN move nobody. *)
LEMMA MoveFacts ==
    /\ \A a, w : \A f \in Frames : f.t \notin {"DATA", "FIN"} => Moves(f, a, a, w)
    /\ \A w : \A a, b \in Nat : Moves(Data(a, b), a, b, w)
    /\ \A a : Moves(Fin, a, a, a)
    /\ \A a, b, w : \A f \in Frames : Moves(f, a, b, w) /\ f.t # "DATA" => a = b
BY DEF Moves, Data, Fin

(* The outbound pump sends the frame that starts where it stands. *)
LEMMA ChainSend ==
    ASSUME NEW qi \in Seq(Frames), NEW ql \in Seq(Frames), NEW a \in Nat, NEW at \in Nat,
           NEW to \in Nat, NEW w, NEW live \in BOOLEAN, NEW f \in Frames,
           Chain(qi, ql, a, at, w, live, FALSE), Moves(f, at, to, w)
    PROVE  Chain(qi, Append(ql, f), a, to, w, live, FALSE)
<1>1. PICK m \in Nat, z \in Nat :
        /\ Leads(qi, a, m, w)
        /\ live => Leads(ql, m, z, w) /\ z = at
  BY DEF Chain
<1>2. live => Leads(Append(ql, f), m, to, w)
  BY <1>1, LeadsAppend
<1>3. QED
  BY <1>1, <1>2 DEF Chain

(* A frame other than DATA and FIN is sent (WINDOW, CLOSE, GOAWAY). *)
LEMMA ChainPlain ==
    ASSUME NEW qi \in Seq(Frames), NEW ql \in Seq(Frames), NEW a \in Nat, NEW at \in Nat,
           NEW w, NEW live \in BOOLEAN, NEW broken \in BOOLEAN, NEW f \in Frames,
           Chain(qi, ql, a, at, w, live, broken), f.t \notin {"DATA", "FIN"}
    PROVE  Chain(qi, Append(ql, f), a, at, w, live, broken)
<1>1. PICK m \in Nat, z \in Nat :
        /\ Leads(qi, a, m, w)
        /\ live => Leads(ql, m, z, w) /\ (~broken => z = at)
  BY DEF Chain
<1>2. Moves(f, z, z, w)
  BY MoveFacts
<1>3. live => Leads(Append(ql, f), m, z, w)
  BY <1>1, <1>2, LeadsAppend
<1>4. QED
  BY <1>1, <1>3 DEF Chain

(* An Abort in the inbound queue stops the reader's work for good, or      *)
(* moves nobody.                                                           *)
LEMMA ChainQueueAbort ==
    ASSUME NEW qi \in Seq(Frames), NEW ql, NEW a \in Nat, NEW at,
           NEW w, NEW live \in BOOLEAN, NEW broken \in BOOLEAN,
           Chain(qi, ql, a, at, w, live, broken)
    PROVE  Chain(Append(qi, Abort), ql, a, at, w, live, broken)
<1>1. PICK m \in Nat, z \in Nat :
        /\ Leads(qi, a, m, w)
        /\ live => Leads(ql, m, z, w) /\ (~broken => z = at)
  BY Zenon DEF Chain
<1>2. Abort \in Frames /\ Abort.t \notin {"DATA", "FIN"}
  BY FrameFacts DEF Abort
<1>3. Moves(Abort, m, m, w)
  BY <1>2, MoveFacts
<1>4. Leads(Append(qi, Abort), a, m, w)
  BY <1>1, <1>2, <1>3, LeadsAppend
<1>5. QED
  BY <1>1, <1>4 DEF Chain

(* The reader passes the oldest frame of the link on to the inbound queue. *)
LEMMA ChainRead ==
    ASSUME NEW qi \in Seq(Frames), NEW ql \in Seq(Frames), NEW a \in Nat, NEW at,
           NEW w, NEW broken \in BOOLEAN,
           Chain(qi, ql, a, at, w, TRUE, broken), ql # <<>>
    PROVE  Chain(Append(qi, Head(ql)), Tail(ql), a, at, w, TRUE, broken)
<1>1. PICK m \in Nat, z \in Nat :
        /\ Leads(qi, a, m, w)
        /\ Leads(ql, m, z, w) /\ (~broken => z = at)
  BY DEF Chain
<1>2. PICK k \in Nat : Moves(Head(ql), m, k, w) /\ Leads(Tail(ql), k, z, w)
  BY <1>1, LeadsTail
<1>3. Leads(Append(qi, Head(ql)), a, k, w)
  BY <1>1, <1>2, HeadFrame, LeadsAppend
<1>4. QED
  BY <1>1, <1>2, <1>3 DEF Chain

(* The reader drops a frame that moves nobody. *)
LEMMA ChainSkip ==
    ASSUME NEW qi \in Seq(Frames), NEW ql \in Seq(Frames), NEW a \in Nat, NEW at,
           NEW w, NEW live \in BOOLEAN, NEW broken \in BOOLEAN,
           Chain(qi, ql, a, at, w, live, broken), ql # <<>>,
           Head(ql).t \notin {"DATA", "FIN"}
    PROVE  Chain(qi, Tail(ql), a, at, w, live, broken)
<1>1. PICK m \in Nat, z \in Nat :
        /\ Leads(qi, a, m, w)
        /\ live => Leads(ql, m, z, w) /\ (~broken => z = at)
  BY DEF Chain
<1>2. CASE ~live
  BY <1>1, <1>2 DEF Chain
<1>3. CASE live
  <2>1. PICK k \in Nat : Moves(Head(ql), m, k, w) /\ Leads(Tail(ql), k, z, w)
    BY <1>1, <1>3, LeadsTail
  <2>2. k = m
    BY <2>1, MoveFacts, HeadFrame
  <2>3. QED
    BY <1>1, <1>3, <2>1, <2>2 DEF Chain
<1>4. QED
  BY <1>2, <1>3

(* The inbound pump takes the oldest frame off its queue: a DATA frame     *)
(* starts at the app's position.                                           *)
LEMMA ChainTake ==
    ASSUME NEW qi \in Seq(Frames), NEW ql, NEW a \in Nat, NEW at,
           NEW w, NEW live \in BOOLEAN, NEW broken \in BOOLEAN,
           Chain(qi, ql, a, at, w, live, broken), qi # <<>>
    PROVE  /\ Head(qi).t = "DATA" =>
                Head(qi).from = a /\ Chain(Tail(qi), ql, Head(qi).to, at, w, live, broken)
           /\ Head(qi).t = "FIN" => a = w
<1>1. PICK m \in Nat, z \in Nat :
        /\ Leads(qi, a, m, w)
        /\ live => Leads(ql, m, z, w) /\ (~broken => z = at)
  BY DEF Chain
<1>2. PICK k \in Nat : Moves(Head(qi), a, k, w) /\ Leads(Tail(qi), k, m, w)
  BY <1>1, LeadsTail
<1>3. Head(qi).t = "DATA" => Head(qi).from = a /\ Head(qi).to = k
  BY <1>2 DEF Moves
<1>4. Head(qi).t = "FIN" => a = w
  BY <1>2, Zenon DEF Moves
<1>5. Chain(Tail(qi), ql, k, at, w, live, broken)
  BY <1>1, <1>2 DEF Chain
<1>6. QED
  BY <1>3, <1>4, <1>5

LEMMA ChainTakeData ==
    ASSUME NEW qi \in Seq(Frames), NEW ql, NEW a \in Nat, NEW at,
           NEW w, NEW live \in BOOLEAN, NEW broken \in BOOLEAN,
           Chain(qi, ql, a, at, w, live, broken), qi # <<>>, Head(qi).t = "DATA"
    PROVE  Chain(Tail(qi), ql, Head(qi).to, at, w, live, broken)
  BY ChainTake

LEMMA ChainTakeFrom ==
    ASSUME NEW qi \in Seq(Frames), NEW ql, NEW a \in Nat, NEW at,
           NEW w, NEW live \in BOOLEAN, NEW broken \in BOOLEAN,
           Chain(qi, ql, a, at, w, live, broken), qi # <<>>, Head(qi).t = "DATA"
    PROVE  Head(qi).from = a
  BY ChainTake

LEMMA ChainTakeFin ==
    ASSUME NEW qi \in Seq(Frames), NEW ql, NEW a \in Nat, NEW at,
           NEW w, NEW live \in BOOLEAN, NEW broken \in BOOLEAN,
           Chain(qi, ql, a, at, w, live, broken), qi # <<>>, Head(qi).t = "FIN"
    PROVE  a = w
  BY ChainTake

LEMMA NotMinusOne == \A iv \in Nat : iv # -1
  BY SMTT(30)

(* The app of the sender shuts down: the end of the stream is settled, and *)
(* no FIN was on its way before.                                           *)
LEMMA ChainEnd ==
    ASSUME NEW qi \in Seq(Frames), NEW ql \in Seq(Frames), NEW a \in Nat, NEW at,
           NEW w, NEW live \in BOOLEAN, NEW broken \in BOOLEAN,
           Chain(qi, ql, a, at, -1, live, broken)
    PROVE  Chain(qi, ql, a, at, w, live, broken)
<1>1. PICK m \in Nat, z \in Nat :
        /\ Leads(qi, a, m, -1)
        /\ live => Leads(ql, m, z, -1) /\ (~broken => z = at)
  BY DEF Chain
<1>2. Leads(qi, a, m, w) /\ (live => Leads(ql, m, z, w))
  BY <1>1, LeadsEnd
<1>3. QED
  BY <1>1, <1>2 DEF Chain

-----------------------------------------------------------------------------
(* Where the receiver's app stands, where the sender's pump stands, and    *)
(* where the stream ends, once that is settled.                            *)
Reads(r) == IF ipc[r] = "write" THEN cur[r].to ELSE delivered[r]
At(s) == taken[s] - n[s] + off[s]
End(s) == IF shut[s] THEN written[s] ELSE -1

(* The receiver's pump still works for an app; its reader still passes     *)
(* frames of the stream on.                                                *)
Running(r) == ipc[r] \notin {"swap", "flush", "done"} /\ ~app_gone[r]
Alive(r) == reg[r] \/ parked[r]
ChainOf(r) ==
    Chain(inq[r], link[Peer(r)], Reads(r), At(Peer(r)), End(Peer(r)), Alive(r), cut)

(* Whatever the interleaving, the frames on their way are exactly the      *)
(* bytes between the two positions, in order.                              *)
Chains == \A r \in Ends : Running(r) => ChainOf(r)

(* The inductive invariant of InOrder and FinIsComplete. *)
OrderInv ==
    PumpInv /\ Chains /\ InOrder /\ FinIsComplete

(* It holds when the stream is opened. *)
LEMMA OrderInit == Init => OrderInv
<1> SUFFICES ASSUME Init PROVE OrderInv
  OBVIOUS
<1>1. PumpInv
  BY PumpInit
<1>2. ASSUME NEW r \in Ends PROVE ChainOf(r)
  <2>1. /\ inq[r] = <<>> /\ link[Peer(r)] = <<>> /\ Reads(r) = 0 /\ At(Peer(r)) = 0
        /\ End(Peer(r)) = -1
    BY PeerFacts DEF Init, Reads, At, End
  <2>2. Leads(<<>>, 0, 0, -1)
    BY LeadsEmpty, Zenon
  <2>3. QED
    BY <2>1, <2>2, Zenon DEF ChainOf, Chain
<1>3. InOrder
  BY Zenon DEF Init, InOrder
<1>4. FinIsComplete
  BY Zenon DEF Init, FinIsComplete
<1>5. QED
  BY <1>1, <1>2, <1>3, <1>4 DEF OrderInv, Chains

-----------------------------------------------------------------------------
(* The positions of a chain are byte counts and its queues are queues of   *)
(* frames.                                                                 *)
LEMMA ChainTypes ==
    ASSUME TypeInv, NEW r \in Ends
    PROVE  /\ inq[r] \in Seq(Frames) /\ link[r] \in Seq(Frames)
           /\ Reads(r) \in Nat /\ At(r) \in Nat
           /\ Alive(r) \in BOOLEAN /\ cut \in BOOLEAN
<1>1. inq[r] \in Seq(Frames) /\ link[r] \in Seq(Frames)
  BY DEF TypeInv, Queues
<1>2. cur[r].to \in Nat
  BY FrameFacts, Zenon DEF TypeInv, Queues
<1>3. Reads(r) \in Nat
  BY <1>2, ZenonT(30) DEF TypeInv, Counters, Reads
<1>4. taken[r] \in Nat /\ n[r] \in Nat /\ off[r] \in Nat /\ n[r] <= taken[r]
  BY ZenonT(30) DEF TypeInv, Counters
<1>5. At(r) \in Nat
  <2> DEFINE tk == taken[r]
             ln == n[r]
             wr == off[r]
             at == At(r)
  <2>1. at = tk - ln + wr /\ tk \in Nat /\ ln \in Nat /\ wr \in Nat /\ ln <= tk
    BY <1>4, ZenonT(30) DEF At
  <2> HIDE DEF tk, ln, wr, at
  <2>2. at \in Nat
    BY <2>1, SMTT(30)
  <2>3. QED
    BY <2>2, ZenonT(30) DEF at
<1>6. Alive(r) \in BOOLEAN /\ cut \in BOOLEAN
  BY DEF TypeInv, Flags, Alive
<1>7. QED
  BY <1>1, <1>3, <1>5, <1>6, ZenonT(30)

(* What a chain is made of, left alone. *)
Unmoved(r) ==
    /\ inq'[r] = inq[r] /\ link'[Peer(r)] = link[Peer(r)]
    /\ Reads(r)' = Reads(r) /\ At(Peer(r))' = At(Peer(r)) /\ End(Peer(r))' = End(Peer(r))
    /\ reg'[r] = reg[r] /\ parked'[r] = parked[r] /\ cut' = cut

(* A send changes the link of its own end only. *)
LEMMA SentFacts ==
    ASSUME TypeInv, NEW e \in Ends, NEW f \in Frames
    PROVE  /\ cut => Sent(e, f) = link
           /\ ~cut => Sent(e, f)[e] = Append(link[e], f)
           /\ \A x \in Ends : x # e => Sent(e, f)[x] = link[x]
BY Zenon DEF Sent, TypeInv, Queues

(* A frame that is neither DATA nor FIN goes to the peer, or nothing does. *)
LEMMA ChainPlainSent ==
    ASSUME TypeInv, NEW e \in Ends, NEW r \in Ends, ChainOf(r),
           NEW f \in Frames, f.t \notin {"DATA", "FIN"},
           link' = link \/ link' = Sent(e, f),
           inq'[r] = inq[r],
           Reads(r)' = Reads(r), At(Peer(r))' = At(Peer(r)), End(Peer(r))' = End(Peer(r)),
           Alive(r)' = Alive(r), cut' = cut
    PROVE  ChainOf(r)'
<1>1. Peer(r) \in Ends /\ Peer(r)' = Peer(r)
  BY PeerFacts, Zenon DEF Peer
<1>2. \/ link'[Peer(r)] = link[Peer(r)]
      \/ link'[Peer(r)] = Append(link[Peer(r)], f)
  BY <1>1, SentFacts, ZenonT(30)
<1>3. Chain(inq[r], link'[Peer(r)], Reads(r), At(Peer(r)), End(Peer(r)), Alive(r), cut)
  <2>1. /\ inq[r] \in Seq(Frames) /\ link[Peer(r)] \in Seq(Frames) /\ Reads(r) \in Nat
        /\ At(Peer(r)) \in Nat /\ Alive(r) \in BOOLEAN /\ cut \in BOOLEAN
    BY <1>1, ChainTypes, Zenon
  <2>2. Chain(inq[r], link[Peer(r)], Reads(r), At(Peer(r)), End(Peer(r)), Alive(r), cut)
    BY Zenon DEF ChainOf
  <2>3. Chain(inq[r], Append(link[Peer(r)], f), Reads(r), At(Peer(r)), End(Peer(r)), Alive(r), cut)
    BY <2>1, <2>2, ChainPlain, ZenonT(30)
  <2>4. QED
    BY <1>2, <2>2, <2>3, Zenon
<1>4. QED
  BY <1>1, <1>3, Zenon DEF ChainOf

(* A step that leaves all that a chain is made of alone keeps it. *)
LEMMA ChainUnmoved ==
    ASSUME NEW r \in Ends, ChainOf(r), Unmoved(r)
    PROVE  ChainOf(r)'
<1>1. Alive(r)' = Alive(r)
  BY Zenon DEF Alive, Unmoved
<1>2. QED
  BY <1>1, Zenon DEF ChainOf, Unmoved

(* An Abort is queued for the pump, or not; the chain stays or is dead. *)
LEMMA ChainAbortTried ==
    ASSUME TypeInv, NEW e \in Ends, NEW r \in Ends, ChainOf(r),
           inq' = inq \/ inq' = AbortTried(e),
           link'[Peer(r)] = link[Peer(r)],
           Reads(r)' = Reads(r), At(Peer(r))' = At(Peer(r)), End(Peer(r))' = End(Peer(r)),
           Alive(r)' = Alive(r) \/ ~Alive(r)', cut' = cut
    PROVE  ChainOf(r)'
<1>1. Peer(r) \in Ends
  BY PeerFacts, Zenon
<1>2. inq'[r] = inq[r] \/ inq'[r] = Append(inq[r], Abort)
  BY ZenonT(30) DEF AbortTried, TypeInv, Queues
<1>3. Chain(inq'[r], link[Peer(r)], Reads(r), At(Peer(r)), End(Peer(r)), Alive(r), cut)
  BY <1>1, <1>2, ChainTypes, ChainQueueAbort, ZenonT(30) DEF ChainOf
<1>4. CASE Alive(r)' = Alive(r)
  BY <1>3, <1>4, ZenonT(30) DEF ChainOf
<1>5. CASE ~Alive(r)'
  BY <1>3, <1>5, Zenon DEF ChainOf, Chain
<1>6. QED
  BY <1>4, <1>5, Zenon

(* Every step of both ends keeps the chains, one case per action. *)
LEMMA ChainStep == OrderInv /\ [Next]_vars => Chains'
<1> SUFFICES ASSUME OrderInv, [Next]_vars, NEW r \in Ends, Running(r)'
             PROVE  ChainOf(r)'
  BY DEF Chains
<1> DEFINE s == Peer(r)
<1>0. TypeInv /\ Counters /\ Flags /\ Places /\ Queues /\ SendLoop /\ Shutdowns
  BY DEF OrderInv, PumpInv, TypeInv
<1>s. s \in Ends /\ s # r /\ Peer(s) = r /\ \A e \in Ends : e = r \/ e = s
  BY PeerFacts, Zenon
<1>t. /\ inq[r] \in Seq(Frames) /\ link[s] \in Seq(Frames) /\ Reads(r) \in Nat
      /\ At(s) \in Nat /\ Alive(r) \in BOOLEAN /\ cut \in BOOLEAN
  BY <1>0, <1>s, ChainTypes, Zenon
<1>c. Running(r) => Chain(inq[r], link[s], Reads(r), At(s), End(s), Alive(r), cut)
  BY DEF OrderInv, Chains, ChainOf
<1>c2. Running(r) => ChainOf(r)
  BY DEF OrderInv, Chains
<1>g. ~app_gone'[r] /\ ipc'[r] \notin {"swap", "flush", "done"}
  BY DEF Running
<1> DEFINE SameIn == UNCHANGED <<ipc[r], cur[r], delivered[r]>>
           SameOut == UNCHANGED <<taken[s], n[s], off[s], shut[s], written[s]>>
           SameSes == UNCHANGED <<reg[r], parked[r], cut>>
           SameQ == UNCHANGED <<inq[r], link[s]>>
<1>1. SameIn => Reads(r)' = Reads(r)
  BY Zenon DEF Reads
<1>2. SameOut => At(s)' = At(s) /\ End(s)' = End(s)
  BY ZenonT(30) DEF At, End
<1>3. UNCHANGED <<reg[r], parked[r]>> => Alive(r)' = Alive(r)
  BY DEF Alive
<1>4. UNCHANGED <<ipc[r], app_gone[r]>> => Running(r)
  BY <1>g, ZenonT(30) DEF Running
<1>5. SameIn /\ SameOut /\ SameSes /\ SameQ /\ app_gone'[r] = app_gone[r] => ChainOf(r)'
  BY <1>1, <1>2, <1>4, <1>c2, ChainUnmoved, ZenonT(30) DEF Unmoved
<1> HIDE DEF s
<1>6. CASE Cut
  <2>1. cut' = TRUE /\ SameIn /\ SameOut /\ SameQ /\ UNCHANGED <<reg[r], parked[r], app_gone[r]>>
    BY <1>6, Zenon DEF Cut, appVars, outVars, inVars
  <2>2. Chain(inq[r], link[s], Reads(r), At(s), End(s), Alive(r), cut)
    BY <1>c, <1>4, <2>1, Zenon
  <2>4. Chain(inq[r], link[s], Reads(r), At(s), End(s), Alive(r), TRUE)
    BY <2>2, Zenon DEF Chain
  <2>3. QED
    BY <1>1, <1>2, <1>3, <2>1, <2>4, ZenonT(30) DEF ChainOf, s
<1>7. ASSUME NEW e \in Ends, AppWrite(e) PROVE ChainOf(r)'
  <2>1. SameIn /\ SameSes /\ SameQ /\ app_gone'[r] = app_gone[r]
    BY <1>7, Zenon DEF AppWrite, inVars, sesVars
  <2>2. At(s)' = At(s)
    BY <1>7, Zenon DEF AppWrite, At, outVars
  <2>3. End(s)' = End(s)
    BY <1>0, <1>7, <1>s DEF AppWrite, End, Counters
  <2>4. QED
    BY <1>1, <1>4, <1>c2, <2>1, <2>2, <2>3, ChainUnmoved, Zenon DEF Unmoved, s
<1>8. ASSUME NEW e \in Ends, AppShutdown(e) \/ AppDrop(e) PROVE ChainOf(r)'
  <2>1. CASE e # s
    <3>1. e = r
      BY <1>s, <2>1
    <3>2. AppShutdown(e)
      BY <1>0, <1>8, <1>g, <3>1, Zenon DEF AppDrop, Flags
    <3>3. SameIn /\ SameOut /\ SameSes /\ SameQ /\ app_gone'[r] = app_gone[r]
      BY <1>0, <1>s, <2>1, <3>2, ZenonT(30) DEF AppShutdown, inVars, outVars, sesVars, Flags
    <3>4. QED
      BY <1>5, <3>3, Zenon
  <2>2. CASE e = s
    <3>1. SameIn /\ link' = link /\ UNCHANGED <<parked, cut>> /\ app_gone'[r] = app_gone[r]
      BY <1>0, <1>8, <1>s, <2>2, Zenon DEF AppShutdown, AppDrop, inVars, sesVars, Flags
    <3>2. reg'[r] = reg[r] /\ inq'[r] = inq[r]
      BY <1>0, <1>8, <1>s, <2>2, ZenonT(30) DEF AppShutdown, AppDrop, TryRetire, AbortTried, Flags, Queues
    <3>3. At(s)' = At(s)
      BY <1>8, Zenon DEF AppShutdown, AppDrop, At, outVars
    <3>4. End(s)' = End(s) \/ End(s) = -1
      BY <1>0, <1>8, <1>s, <2>2, ZenonT(30) DEF AppShutdown, AppDrop, End, Flags
    <3>5. Chain(inq[r], link[s], Reads(r), At(s), End(s)', Alive(r), cut)
      BY <1>c, <1>t, <1>4, <3>1, <3>4, ChainEnd, Zenon
    <3>6. QED
      BY <1>1, <1>3, <3>1, <3>2, <3>3, <3>5, Zenon DEF ChainOf, s
  <2>3. QED BY <2>1, <2>2, Zenon
<1>9. ASSUME NEW e \in Ends, OutRead(e) PROVE ChainOf(r)'
  <2>1. SameIn /\ SameSes /\ SameQ /\ UNCHANGED <<app_gone, shut, written>>
    BY <1>9, ZenonT(30) DEF OutRead, OutUnchanged, inVars, sesVars, appVars
  <2>2. At(s)' = At(s)
    <3>1. CASE e # s
      BY <1>0, <1>9, <1>s, <3>1, Zenon DEF OutRead, At, Counters
    <3>2. CASE e = s
      <4> DEFINE k == Smaller(ChunkMax, written[e] - taken[e])
      <4>1. k \in Nat
        <5>1. written[e] - taken[e] \in Nat /\ ChunkMax \in Nat
          BY <1>0, StreamAssumption, SMTT(30) DEF Counters
        <5>2. QED
          BY <5>1, SmallerFacts, Zenon
      <4>2. off[e] = n[e] /\ taken[e] \in Nat /\ n[e] \in Nat
        BY <1>0, <1>9, Zenon DEF OutRead, SendLoop, Counters
      <4>3. n'[e] = k /\ taken'[e] = taken[e] + k /\ off'[e] = 0
        BY <1>0, <1>9, Zenon DEF OutRead, Counters
      <4> HIDE DEF k
      <4>4. QED
        BY <3>2, <4>1, <4>2, <4>3 DEF At
    <3>3. QED BY <3>1, <3>2, Zenon
  <2>3. QED
    BY <1>1, <1>4, <1>c2, <2>1, <2>2, ChainUnmoved, Zenon DEF Unmoved, End, s
<1>10. ASSUME NEW e \in Ends, OutEof(e) \/ OutAcquire(e) \/ OutFail(e) PROVE ChainOf(r)'
  BY <1>5, <1>10, ZenonT(30) DEF OutEof, OutAcquire, OutFail, OutUnchanged, inVars, sesVars, appVars
<1>11. ASSUME NEW e \in Ends, OutSend(e) PROVE ChainOf(r)'
  <2> DEFINE k == Smaller(MaxData, n[e] - off[e])
             f == Piece(e, k)
  <2>1. SameIn /\ SameSes /\ inq'[r] = inq[r] /\ UNCHANGED <<app_gone, shut, written>>
    BY <1>11, Zenon DEF OutSend, OutUnchanged, inVars, sesVars, appVars
  <2>2. n[e] - off[e] \in Nat /\ MaxData \in Nat /\ At(e) \in Nat /\ off[e] \in Nat
    <3>1. At(e) \in Nat
      BY <1>0, ChainTypes, Zenon
    <3>2. n[e] \in Nat /\ off[e] \in Nat /\ off[e] <= n[e]
      BY <1>0 DEF Counters
    <3>3. QED
      BY <3>1, <3>2, StreamAssumption, SMTT(30)
  <2>3. k \in Nat
    BY <2>2, SmallerFacts, Zenon
  <2>4. f = Data(At(e), At(e) + k)
    BY Zenon DEF Piece, At
  <2>5. f \in Frames /\ Moves(f, At(e), At(e) + k, End(e))
    BY <2>2, <2>3, <2>4, FrameFacts, MoveFacts, SMTT(30)
  <2>6. link' = Sent(e, f) /\ off' = [off EXCEPT ![e] = @ + k]
    BY <1>11, ZenonT(30) DEF OutSend
  <2> HIDE DEF f, k
  <2>7. \A x \in Ends : x # e => link'[x] = link[x] /\ off'[x] = off[x]
    BY <1>0, <2>5, <2>6, SentFacts, Zenon DEF Counters
  <2>8. CASE e # s
    <3>1. SameOut /\ SameQ
      BY <1>11, <1>s, <2>1, <2>7, <2>8, Zenon DEF OutSend
    <3>2. QED
      BY <1>5, <2>1, <3>1, Zenon
  <2>9. CASE e = s
    <3>1. At(s)' = At(s) + k
      <4>1. off'[e] = off[e] + k /\ taken' = taken /\ n' = n
        BY <1>0, <1>11, <2>6, Zenon DEF Counters, OutSend
      <4>2. taken[e] \in Nat /\ n[e] \in Nat
        BY <1>0 DEF Counters
      <4>3. QED
        BY <2>2, <2>3, <2>9, <4>1, <4>2, SMTT(30) DEF At
    <3>2. CASE cut
      <4>1. link' = link
        BY <1>0, <2>5, <2>6, <3>2, SentFacts, Zenon
      <4>5. Chain(inq[r], link[s], Reads(r), At(s), End(s), Alive(r), cut)
        BY <1>c, <1>4, <2>1, Zenon
      <4>2. Chain(inq[r], link[s], Reads(r), At(s) + k, End(s), Alive(r), TRUE)
        BY <4>5, Zenon DEF Chain
      <4>3. cut' = TRUE
        BY <1>t, <2>1, <3>2
      <4>4. QED
        BY <1>1, <1>3, <2>1, <3>1, <4>1, <4>2, <4>3, Zenon DEF ChainOf, End, s
    <3>3. CASE ~cut
      <4>1. link'[s] = Append(link[s], f)
        BY <1>0, <1>s, <2>5, <2>6, <2>9, <3>3, SentFacts, Zenon
      <4>2. cut = FALSE /\ cut' = FALSE
        BY <1>t, <2>1, <3>3, Zenon
      <4>3. At(s) + k \in Nat
        BY <2>2, <2>3, <2>9
      <4>4. Chain(inq[r], link[s], Reads(r), At(s), End(s), Alive(r), FALSE)
        BY <1>c, <1>4, <2>1, <4>2, Zenon
      <4>5. Chain(inq[r], Append(link[s], f), Reads(r), At(s) + k, End(s), Alive(r), FALSE)
        BY <1>t, <2>5, <2>9, <4>3, <4>4, ChainSend, Zenon
      <4>6. QED
        BY <1>1, <1>3, <2>1, <3>1, <4>1, <4>2, <4>5, Zenon DEF ChainOf, End, s
    <3>4. QED BY <3>2, <3>3, Zenon
  <2>10. QED BY <2>8, <2>9, Zenon
<1>12. ASSUME NEW e \in Ends, OutEnd(e) PROVE ChainOf(r)'
  <2>1. SameIn /\ SameSes /\ SameOut /\ inq' = inq /\ app_gone' = app_gone
    BY <1>12, Zenon DEF OutEnd, OutUnchanged, inVars, sesVars, appVars
  <2>2. link' = Sent(e, LastFrame(e)) /\ opc[e] = "end"
    BY <1>12, Zenon DEF OutEnd
  <2>3. Running(r)
    BY <1>4, <2>1
  <2>4. CASE ~clean[e]
    <3>1. LastFrame(e) \in Frames /\ LastFrame(e).t \notin {"DATA", "FIN"}
      BY <2>4, FrameFacts, Zenon DEF LastFrame, Close
    <3>2. QED
      BY <1>0, <1>1, <1>2, <1>3, <1>c2, <2>1, <2>2, <2>3, <3>1, ChainPlainSent, Zenon DEF s
  <2>5. CASE clean[e]
    <3>1. LastFrame(e) = Fin /\ Fin \in Frames
      BY <2>5, FrameFacts, Zenon DEF LastFrame
    <3>2. At(e) = written[e] /\ End(e) = written[e]
      <4>1. off[e] = n[e] /\ shut[e] /\ written[e] = taken[e]
        BY <1>0, <2>2, <2>5, Zenon DEF SendLoop, Ended
      <4>2. taken[e] \in Nat /\ n[e] \in Nat
        BY <1>0, Zenon DEF Counters
      <4>3. QED
        BY <4>1, <4>2, SMTT(30) DEF At, End
    <3>3. CASE cut \/ e # s
      <4>1. link'[s] = link[s]
        BY <1>0, <1>s, <2>2, <3>1, <3>3, SentFacts, Zenon
      <4>2. QED
        BY <1>5, <2>1, <4>1, Zenon
    <3>4. CASE ~cut /\ e = s
      <4>1. link'[s] = Append(link[s], Fin)
        BY <1>0, <1>s, <2>2, <3>1, <3>4, SentFacts, Zenon
      <4>2. cut = FALSE /\ cut' = FALSE
        BY <1>t, <2>1, <3>4, Zenon
      <4>3. Moves(Fin, At(s), At(s), End(s))
        BY <3>2, <3>4, MoveFacts
      <4>4. Chain(inq[r], link[s], Reads(r), At(s), End(s), Alive(r), FALSE)
        BY <1>c, <2>3, <4>2, Zenon
      <4>5. Chain(inq[r], Append(link[s], Fin), Reads(r), At(s), End(s), Alive(r), FALSE)
        BY <1>t, <3>1, <4>3, <4>4, ChainSend, Zenon
      <4>6. QED
        BY <1>1, <1>2, <1>3, <2>1, <4>1, <4>2, <4>5, Zenon DEF ChainOf, s
    <3>5. QED BY <3>3, <3>4, Zenon
  <2>6. QED BY <2>4, <2>5
<1>13. ASSUME NEW e \in Ends, OutRetire(e) PROVE ChainOf(r)'
  <2>1. SameIn /\ SameOut /\ UNCHANGED <<parked, cut, link, app_gone>>
    BY <1>13, Zenon DEF OutRetire, OutUnchanged, inVars, sesVars, appVars
  <2>2. reg'[r] = reg[r] /\ inq'[r] = inq[r]
    <3>1. CASE e = r
      BY <1>13, <1>g, <2>1, <3>1, Zenon DEF OutRetire, TryRetire
    <3>2. CASE e # r
      BY <1>0, <1>13, <3>2 DEF OutRetire, TryRetire, AbortTried, Flags, Queues
    <3>3. QED BY <3>1, <3>2, Zenon
  <2>3. QED
    BY <1>5, <2>1, <2>2, Zenon
<1>14. ASSUME NEW e \in Ends, InData(e) PROVE ChainOf(r)'
  <2>1. SameOut /\ SameSes /\ UNCHANGED <<link, app_gone, delivered>>
    BY <1>14, ZenonT(30) DEF InData, InUnchanged, outVars, appVars, sesVars
  <2>2. CASE e # r
    BY <1>0, <1>5, <1>14, <2>1, <2>2, Zenon DEF InData, Places, Queues
  <2>3. CASE e = r
    <3>1. inq[r] # <<>> /\ Head(inq[r]).t = "DATA" /\ ipc[r] = "recv"
      BY <1>14, <2>3, Zenon DEF InData
    <3>2. Running(r)
      BY <1>g, <2>1, <3>1, Zenon DEF Running
    <3>3. Chain(Tail(inq[r]), link[s], Head(inq[r]).to, At(s), End(s), Alive(r), cut)
      <4>1. Chain(inq[r], link[s], Reads(r), At(s), End(s), Alive(r), cut)
        BY <1>c, <3>2, Zenon
      <4>2. inq[r] \in Seq(Frames) /\ Reads(r) \in Nat /\ Alive(r) \in BOOLEAN /\ cut \in BOOLEAN
        BY <1>t, Zenon
      <4>3. inq[r] # <<>> /\ Head(inq[r]).t = "DATA"
        BY <3>1, Zenon
      <4>4. QED
        BY <4>1, <4>2, <4>3, ChainTakeData, ZenonT(30)
    <3>4. cur'[r] = Head(inq[r]) /\ ipc'[r] = "write" /\ inq'[r] = Tail(inq[r])
      BY <1>0, <1>14, <2>3, Zenon DEF InData, Places, Queues
    <3>5. Reads(r)' = Head(inq[r]).to
      BY <3>4 DEF Reads
    <3>6. QED
      BY <1>2, <1>3, <2>1, <3>3, <3>4, <3>5, Zenon DEF ChainOf, s
  <2>4. QED BY <2>2, <2>3, Zenon
<1>15. ASSUME NEW e \in Ends, InWrite(e) PROVE ChainOf(r)'
  <2>1. SameOut /\ SameSes /\ UNCHANGED <<link, app_gone, inq, cur>>
    BY <1>15, Zenon DEF InWrite, InUnchanged, outVars, appVars, sesVars
  <2>2. CASE e # r
    BY <1>0, <1>5, <1>15, <2>1, <2>2, Zenon DEF InWrite, Places, Counters
  <2>3. CASE e = r
    <3>1. ipc[r] = "write" /\ ~app_gone[r]
      BY <1>15, <1>g, <2>1, <2>3, Zenon DEF InWrite
    <3>2. delivered'[r] = cur[r].to /\ ipc'[r] # "write"
      BY <1>0, <1>15, <2>3, <3>1, ZenonT(30) DEF InWrite, AfterCredit, Places, Counters
    <3>3. Running(r) /\ Reads(r)' = Reads(r)
      BY <2>1, <3>1, <3>2, Zenon DEF Running, Reads
    <3>4. QED
      BY <1>2, <1>c2, <2>1, <3>3, ChainUnmoved, ZenonT(30) DEF Unmoved, s
  <2>4. QED BY <2>2, <2>3, Zenon
<1>16. ASSUME NEW e \in Ends, InDrain(e) \/ InGrow(e) \/ InNoGrow(e) PROVE ChainOf(r)'
  <2>1. SameOut /\ SameSes /\ UNCHANGED <<link, app_gone, inq, cur, delivered>>
    BY <1>16, Zenon DEF InDrain, InGrow, InNoGrow, InUnchanged, outVars, appVars, sesVars
  <2>2. CASE e # r
    BY <1>0, <1>5, <1>16, <2>1, <2>2, Zenon DEF InDrain, InGrow, InNoGrow, Places
  <2>3. CASE e = r
    <3>1. ipc[r] \in {"drain", "grow"} /\ ~app_gone[r]
      BY <1>16, <1>g, <2>1, <2>3, Zenon DEF InDrain, InGrow, InNoGrow
    <3>2. ipc'[r] # "write"
      BY <1>0, <1>16, <2>3 DEF InDrain, InGrow, InNoGrow, AfterCredit, Places
    <3>3. Running(r) /\ Reads(r)' = Reads(r)
      BY <2>1, <3>1, <3>2, ZenonT(30) DEF Running, Reads
    <3>4. QED
      BY <1>2, <1>c2, <2>1, <3>3, ChainUnmoved, Zenon DEF Unmoved, s
  <2>4. QED BY <2>2, <2>3
<1>w. \A e \in Ends : /\ Window(held[e]) \in Frames /\ Window(held[e]).t \notin {"DATA", "FIN"}
                      /\ Window(tick[e]) \in Frames /\ Window(tick[e]).t \notin {"DATA", "FIN"}
  BY <1>0, FrameFacts, Zenon DEF Window, Counters
<1>x. /\ Close \in Frames /\ Close.t \notin {"DATA", "FIN"}
      /\ Goaway \in Frames /\ Goaway.t \notin {"DATA", "FIN"}
  BY FrameFacts DEF Close, Goaway
<1>17. ASSUME NEW e \in Ends, InWindow(e) PROVE ChainOf(r)'
  <2>1. SameOut /\ SameSes /\ UNCHANGED <<app_gone, inq, cur, delivered>>
    BY <1>17, Zenon DEF InWindow, InUnchanged, outVars, appVars, sesVars
  <2>2. link' = Sent(e, Window(held[e]))
    BY <1>17 DEF InWindow
  <2>3. Running(r) /\ Reads(r)' = Reads(r)
    <3>1. CASE e # r
      BY <1>0, <1>1, <1>4, <1>17, <2>1, <3>1, Zenon DEF InWindow, Places
    <3>2. CASE e = r
      <4>1. ipc[r] \in {"window", "bonus"} /\ ~app_gone[r]
        BY <1>17, <1>g, <2>1, <3>2, Zenon DEF InWindow
      <4>2. ipc'[r] # "write"
        BY <1>0, <1>17, <3>2 DEF InWindow, AfterCredit, Places
      <4>3. QED
        BY <2>1, <4>1, <4>2, Zenon DEF Running, Reads
    <3>3. QED BY <3>1, <3>2
  <2>4. QED
    BY <1>0, <1>2, <1>3, <1>c2, <1>w, <2>1, <2>2, <2>3, ChainPlainSent, ZenonT(30) DEF s
<1>18. ASSUME NEW e \in Ends, InEnd(e) \/ InSwap(e) PROVE ChainOf(r)'
  <2>1. e # r
    BY <1>0, <1>18, <1>g DEF InEnd, InSwap, Places
  <2>2. SameIn /\ SameOut /\ SameSes /\ SameQ /\ app_gone'[r] = app_gone[r]
    BY <1>0, <1>18, <2>1, Zenon DEF InEnd, InSwap, InUnchanged, outVars, appVars, sesVars, Places, Queues
  <2>3. QED
    BY <1>5, <2>2, ZenonT(30)
<1>19. ASSUME NEW e \in Ends, InDecodeFail(e) \/ InFlush(e) PROVE ChainOf(r)'
  <2>1. e # r
    BY <1>0, <1>19, <1>g, Zenon DEF InDecodeFail, InFlush, Places
  <2>2. SameIn /\ SameOut /\ SameSes /\ app_gone' = app_gone /\ inq'[r] = inq[r]
    BY <1>0, <1>19, <2>1, Zenon DEF InDecodeFail, InFlush, InUnchanged, outVars, appVars, sesVars, Places, Queues
  <2>3. link' = link \/ link' = Sent(e, Close) \/ link' = Sent(e, Window(held[e]))
    BY <1>19, Zenon DEF InDecodeFail, InFlush
  <2>4. QED
    BY <1>0, <1>1, <1>2, <1>3, <1>4, <1>c2, <1>w, <1>x, <2>2, <2>3, ChainPlainSent, Zenon DEF s
<1>20. ASSUME NEW e \in Ends, TickSwap(e) PROVE ChainOf(r)'
  BY <1>5, <1>20, ZenonT(30) DEF TickSwap, inVars, outVars, appVars, sesVars
<1>21. ASSUME NEW e \in Ends, TickSend(e) PROVE ChainOf(r)'
  <2>2. SameIn /\ SameOut /\ SameSes /\ app_gone' = app_gone /\ inq'[r] = inq[r]
    BY <1>21, Zenon DEF TickSend, inVars, outVars, appVars, sesVars
  <2>3. link' = link \/ link' = Sent(e, Window(tick[e]))
    BY <1>21 DEF TickSend
  <2>4. QED
    BY <1>0, <1>1, <1>2, <1>3, <1>4, <1>c2, <1>w, <2>2, <2>3, ChainPlainSent, Zenon DEF s
<1>y. ASSUME NEW e \in Ends, Teardown(e), parked'[r] = parked[r]
      PROVE  Alive(r)' = Alive(r) \/ ~Alive(r)'
  <2>1. CASE e = r
    <3>1. reg'[r] = FALSE
      BY <1>0, <1>y, <2>1, Zenon DEF Teardown, Flags
    <3>2. parked[r] \in BOOLEAN
      BY <1>0, Zenon DEF Flags
    <3>3. QED
      BY <1>y, <3>1, <3>2, Zenon DEF Alive
  <2>2. CASE e # r
    <3>1. reg'[r] = reg[r]
      BY <1>0, <1>y, <2>2, Zenon DEF Teardown, Flags
    <3>2. QED
      BY <1>3, <1>y, <3>1, ZenonT(30)
  <2>3. QED BY <2>1, <2>2, Zenon
<1>22. ASSUME NEW e \in Ends, SessionClose(e) PROVE ChainOf(r)'
  <2>1. SameIn /\ SameOut /\ UNCHANGED <<app_gone, parked, cut>>
    BY <1>22, ZenonT(30) DEF SessionClose, inVars, outVars, appVars
  <2>2. Running(r)
    BY <1>4, <2>1, Zenon
  <2>3. link' = link \/ link' = Sent(e, Goaway)
    BY <1>22, Zenon DEF SessionClose
  <2>4. inq' = inq \/ inq' = AbortTried(e)
    BY <1>22 DEF SessionClose, Teardown
  <2>5. CASE e = r
    <3>1. link'[s] = link[s]
      BY <1>0, <1>s, <1>x, <2>3, <2>5, SentFacts
    <3>2. Alive(r)' = Alive(r) \/ ~Alive(r)'
      BY <1>y, <1>22, <2>1, Zenon DEF SessionClose
    <3>3. QED
      BY <1>0, <1>1, <1>2, <1>c2, <2>1, <2>2, <2>4, <3>1, <3>2, ChainAbortTried, Zenon DEF s
  <2>6. CASE e # r
    <3>1. inq'[r] = inq[r]
      BY <1>0, <2>4, <2>6, ZenonT(30) DEF AbortTried, Queues
    <3>2. reg'[r] = reg[r]
      BY <1>0, <1>22, <2>6, Zenon DEF SessionClose, Teardown, Flags
    <3>3. QED
      BY <1>0, <1>1, <1>2, <1>3, <1>c2, <1>x, <2>1, <2>2, <2>3, <3>1, <3>2, ChainPlainSent, ZenonT(30) DEF s
  <2>7. QED BY <2>5, <2>6, Zenon
<1>23. ASSUME NEW e \in Ends, ReadEof(e) PROVE ChainOf(r)'
  <2>1. SameIn /\ SameOut /\ UNCHANGED <<app_gone, parked, cut, link>>
    BY <1>23, Zenon DEF ReadEof, inVars, outVars, appVars
  <2>2. Running(r)
    BY <1>4, <2>1, Zenon
  <2>3. inq' = inq \/ inq' = AbortTried(e)
    BY <1>23, Zenon DEF ReadEof, ReaderExit, Teardown
  <2>4. Alive(r)' = Alive(r) \/ ~Alive(r)'
    BY <1>3, <1>y, <1>23, <2>1, Zenon DEF ReadEof, ReaderExit
  <2>5. QED
    BY <1>0, <1>1, <1>2, <1>c2, <2>1, <2>2, <2>3, <2>4, ChainAbortTried, Zenon DEF s
<1>z. ASSUME NEW e \in Ends, e # r PROVE Popped(e)[s] = link[s]
  BY <1>0, <1>s, <1>z, PeerFacts, Zenon DEF Popped, Queues
<1>p. Incoming(r) = link[s] /\ Popped(r)[s] = Tail(link[s])
  BY <1>0, <1>s DEF Incoming, Popped, Queues, s
<1>24. ASSUME NEW e \in Ends, ReadData(e) PROVE ChainOf(r)'
  <2>1. SameIn /\ SameOut /\ UNCHANGED <<app_gone, reg, cut>>
    BY <1>24, Zenon DEF ReadData, ReadUnchanged, inVars, outVars, appVars
  <2>2. Running(r)
    BY <1>4, <2>1, ZenonT(30)
  <2>3. CASE e # r
    <3>1. inq'[r] = inq[r] /\ parked'[r] = parked[r]
      BY <1>0, <1>24, <2>3, ZenonT(30) DEF ReadData, Flags, Queues
    <3>2. link'[s] = link[s]
      BY <1>24, <1>z, <2>3, ZenonT(30) DEF ReadData
    <3>3. QED
      BY <1>5, <2>1, <3>1, <3>2, Zenon
  <2>4. CASE e = r
    <3>0. link[s] # <<>> /\ ipc[r] # "done"
      BY <1>24, <1>p, <2>2, <2>4, Zenon DEF ReadData, CanRead, Running
    <3>1. CASE ~reg[r] /\ ~parked[r] /\ parked'[r] = FALSE /\ inq' = inq
      <4>1. ~Alive(r)'
        BY <2>1, <3>1, Zenon DEF Alive
      <4>2. QED
        BY <1>1, <1>2, <1>c, <2>1, <2>2, <3>1, <4>1, Zenon DEF ChainOf, Chain, s
    <3>2. CASE /\ reg[r] \/ parked[r]
               /\ inq'[r] = Append(inq[r], Head(link[s]))
               /\ link'[s] = Tail(link[s])
      <4>1. Chain(inq[r], link[s], Reads(r), At(s), End(s), TRUE, cut)
        BY <1>c, <2>2, <3>2, Zenon DEF Chain, Alive
      <4>2. Chain(Append(inq[r], Head(link[s])), Tail(link[s]), Reads(r), At(s), End(s), TRUE, cut)
        BY <1>t, <3>0, <4>1, ChainRead, Zenon
      <4>3. QED
        BY <1>1, <1>2, <2>1, <3>2, <4>2, Zenon DEF ChainOf, Chain, s
    <3>3. CASE reg[r] /\ UNCHANGED <<inq, link>>
      <4>1. Chain(inq[r], link[s], Reads(r), At(s), End(s), TRUE, cut)
        BY <1>c, <2>2, <3>3, Zenon DEF Chain, Alive
      <4>2. QED
        BY <1>1, <1>2, <2>1, <3>3, <4>1, Zenon DEF ChainOf, Chain, s
    <3>4. QED
      <4>1. \/ /\ ~reg[r] /\ ~parked[r]
               /\ parked' = [parked EXCEPT ![r] = FALSE]
               /\ UNCHANGED inq
            \/ /\ reg[r] \/ parked[r]
               /\ inq' = [inq EXCEPT ![r] = Append(@, Head(Incoming(r)))]
               /\ link' = Popped(r)
            \/ reg[r] /\ UNCHANGED <<inq, link>>
        BY <1>24, <2>4, <3>0, Zenon DEF ReadData
      <4>2. QED
        BY <1>0, <1>p, <3>1, <3>2, <3>3, <4>1, Zenon DEF Flags, Queues
  <2>5. QED BY <2>3, <2>4
<1>25. ASSUME NEW e \in Ends, ReadWindow(e) PROVE ChainOf(r)'
  <2>1. SameIn /\ SameOut /\ SameSes /\ UNCHANGED <<app_gone, inq>>
    BY <1>25, Zenon DEF ReadWindow, ReadUnchanged, inVars, outVars, appVars, sesVars
  <2>2. link' = Popped(e) /\ Incoming(e) # <<>> /\ Head(Incoming(e)).t = "WINDOW"
    BY <1>25, Zenon DEF ReadWindow, CanRead
  <2>3. CASE e # r
    BY <1>5, <1>z, <2>1, <2>2, <2>3, Zenon
  <2>4. CASE e = r
    <3>1. Chain(inq[r], Tail(link[s]), Reads(r), At(s), End(s), Alive(r), cut)
      BY <1>4, <1>c, <1>p, <1>t, <2>1, <2>2, <2>4, ChainSkip, ZenonT(30)
    <3>2. QED
      BY <1>1, <1>2, <1>3, <1>p, <2>1, <2>2, <2>4, <3>1, Zenon DEF ChainOf, s
  <2>5. QED BY <2>3, <2>4
<1>26. ASSUME NEW e \in Ends, ReadClose(e) PROVE ChainOf(r)'
  <2>1. SameIn /\ SameOut /\ SameSes /\ app_gone' = app_gone
    BY <1>26, Zenon DEF ReadClose, ReadUnchanged, inVars, outVars, appVars, sesVars
  <2>2. link' = Popped(e) /\ Incoming(e) # <<>> /\ Head(Incoming(e)).t = "CLOSE"
    BY <1>26 DEF ReadClose, CanRead
  <2>3. CASE e # r
    <3>1. inq'[r] = inq[r]
      BY <1>0, <1>26, <2>3, Zenon DEF ReadClose, AbortTried, Queues
    <3>2. QED
      BY <1>5, <1>z, <2>1, <2>2, <2>3, <3>1, Zenon
  <2>4. CASE e = r
    <3>1. Chain(inq[r], Tail(link[s]), Reads(r), At(s), End(s), Alive(r), cut)
      BY <1>4, <1>c, <1>p, <1>t, <2>1, <2>2, <2>4, ChainSkip, ZenonT(30)
    <3>2. inq'[r] = inq[r] \/ inq'[r] = Append(inq[r], Abort)
      BY <1>0, <1>26, <2>4, ZenonT(30) DEF ReadClose, AbortTried, Queues
    <3>3. Chain(inq'[r], Tail(link[s]), Reads(r), At(s), End(s), Alive(r), cut)
      BY <1>t, <3>1, <3>2, ChainQueueAbort, Zenon
    <3>4. QED
      BY <1>1, <1>2, <1>3, <1>p, <2>1, <2>2, <2>4, <3>3, Zenon DEF ChainOf, s
  <2>5. QED BY <2>3, <2>4
<1>27. ASSUME NEW e \in Ends, ReadLast(e) PROVE ChainOf(r)'
  <2>1. SameIn /\ SameOut /\ UNCHANGED <<app_gone, parked, cut>>
    BY <1>27, ZenonT(30) DEF ReadLast, ReadUnchanged, inVars, outVars, appVars
  <2>2. link' = Popped(e) /\ ~parked[e]
    BY <1>27, Zenon DEF ReadLast
  <2>3. CASE e # r
    <3>1. inq'[r] = inq[r] /\ reg'[r] = reg[r]
      BY <1>0, <1>27, <2>3 DEF ReadLast, ReaderExit, Teardown, AbortTried, Queues, Flags
    <3>2. QED
      BY <1>5, <1>z, <2>1, <2>2, <2>3, <3>1, ZenonT(30)
  <2>4. CASE e = r
    <3>1. ~Alive(r)'
      <4>1. ~reg'[r]
        BY <1>0, <1>27, <2>4, ZenonT(30) DEF ReadLast, ReaderExit, Teardown, Shutdowns, Flags
      <4>2. QED
        BY <2>1, <2>2, <2>4, <4>1, Zenon DEF Alive
    <3>2. inq'[r] = inq[r] \/ inq'[r] = Append(inq[r], Abort)
      BY <1>0, <1>27, <2>4, ZenonT(30) DEF ReadLast, ReaderExit, Teardown, AbortTried, Queues
    <3>3. Chain(inq'[r], link[s], Reads(r), At(s), End(s), Alive(r), cut)
      BY <1>4, <1>c, <1>t, <2>1, <3>2, ChainQueueAbort, ZenonT(30)
    <3>4. QED
      BY <1>1, <1>2, <2>1, <3>1, <3>3, Zenon DEF ChainOf, Chain, s
  <2>5. QED BY <2>3, <2>4, Zenon
<1>28. CASE UNCHANGED vars
  BY <1>5, <1>28, Zenon DEF vars, inVars, outVars, appVars, sesVars
<1>29. QED
  BY <1>6, <1>7, <1>8, <1>9, <1>10, <1>11, <1>12, <1>13, <1>14, <1>15, <1>16, <1>17,
     <1>18, <1>19, <1>20, <1>21, <1>22, <1>23, <1>24, <1>25, <1>26, <1>27, <1>28, Zenon DEF Next

(* A chain in hand, every step delivers the next bytes, and a FIN only     *)
(* behind the last of them.                                                *)
LEMMA DeliveryStep == OrderInv /\ [Next]_vars => InOrder' /\ FinIsComplete'
<1> SUFFICES ASSUME OrderInv, [Next]_vars, NEW e \in Ends, ~app_gone'[e]
             PROVE  /\ ipc'[e] = "write" => cur'[e].from = delivered'[e]
                    /\ saw'[e] = "FIN" => Complete(e)'
  BY ZenonT(30) DEF InOrder, FinIsComplete
<1> DEFINE s == Peer(e)
           A == ipc'[e] = "write" => cur'[e].from = delivered'[e]
           B == saw'[e] = "FIN" => shut'[s] /\ delivered'[e] = written'[s]
<1> SUFFICES A /\ B
  BY ZenonT(30) DEF Complete
<1>0. Counters /\ Flags /\ Places /\ Queues /\ Shutdowns
  BY Zenon DEF OrderInv, PumpInv, TypeInv
<1>s. s \in Ends /\ s # e
  BY PeerFacts, Zenon
<1>a. ipc[e] = "write" /\ ~app_gone[e] => cur[e].from = delivered[e]
  BY Zenon DEF OrderInv, InOrder
<1>b. saw[e] = "FIN" /\ ~app_gone[e] => shut[s] /\ delivered[e] = written[s]
  BY Zenon DEF OrderInv, FinIsComplete, Complete
<1>1. UNCHANGED <<ipc[e], cur[e], delivered[e], app_gone[e]>> => A
  BY <1>a, Zenon
<1>2. UNCHANGED <<saw[e], delivered[e], shut[s], written[s], app_gone[e]>> => B
  BY <1>b, Zenon
<1> HIDE DEF s
<1>3. CASE Cut
  BY <1>1, <1>2, <1>3, ZenonT(30) DEF Cut, appVars, inVars
<1>4. ASSUME NEW x \in Ends, AppWrite(x) PROVE A /\ B
  <2>1. A
    BY <1>1, <1>4, Zenon DEF AppWrite, inVars
  <2>2. CASE x = s
    BY <1>b, <1>4, <2>1, <2>2, Zenon DEF AppWrite, inVars
  <2>3. CASE x # s
    BY <1>0, <1>2, <1>s, <1>4, <2>1, <2>3, Zenon DEF AppWrite, inVars, Counters
  <2>4. QED BY <2>2, <2>3, ZenonT(30)
<1>5. ASSUME NEW x \in Ends, AppShutdown(x) \/ AppDrop(x) PROVE A /\ B
  <2>1. UNCHANGED <<ipc, cur, delivered, saw, written>>
    BY <1>5, Zenon DEF AppShutdown, AppDrop, inVars
  <2>2. ~app_gone[e]
    BY <1>0, <1>5, Zenon DEF AppShutdown, AppDrop, Flags
  <2>3. shut[s] => shut'[s]
    BY <1>0, <1>s, <1>5, Zenon DEF AppShutdown, AppDrop, Flags
  <2>4. QED
    BY <1>a, <1>b, <2>1, <2>2, <2>3, Zenon
<1>6. ASSUME NEW x \in Ends,
             \/ OutRead(x) \/ OutEof(x) \/ OutAcquire(x) \/ OutFail(x)
             \/ OutSend(x) \/ OutEnd(x) \/ OutRetire(x)
      PROVE  A /\ B
  BY <1>1, <1>2, <1>6, ZenonT(30) DEF OutRead, OutEof, OutAcquire, OutFail, OutSend, OutEnd, OutRetire,
                    OutUnchanged, inVars, appVars
<1>7. ASSUME NEW x \in Ends, InDrain(x) \/ InWindow(x) \/ InGrow(x) \/ InNoGrow(x) \/ InSwap(x) \/ InFlush(x)
      PROVE  A /\ B
  <2>1. UNCHANGED <<cur, delivered, saw, shut, written, app_gone>>
    BY <1>7, ZenonT(30) DEF InDrain, InWindow, InGrow, InNoGrow, InSwap, InFlush, InUnchanged, appVars
  <2>2. ipc'[e] = "write" => ipc[e] = "write"
    BY <1>0, <1>7, ZenonT(30) DEF InDrain, InWindow, InGrow, InNoGrow, InSwap, InFlush, AfterCredit, Places
  <2>3. QED
    BY <1>2, <1>a, <2>1, <2>2, ZenonT(30)
<1>8. ASSUME NEW x \in Ends, InData(x) PROVE A /\ B
  <2>1. UNCHANGED <<delivered, saw, shut, written, app_gone>>
    BY <1>8, Zenon DEF InData, InUnchanged, appVars
  <2>2. CASE x # e
    BY <1>0, <1>1, <1>2, <1>8, <2>1, <2>2, ZenonT(30) DEF InData, Places, Queues
  <2>3. CASE x = e
    <3>1. ipc[e] = "recv" /\ inq[e] # <<>> /\ Head(inq[e]).t = "DATA" /\ cur'[e] = Head(inq[e])
      BY <1>0, <1>8, <2>3, Zenon DEF InData, Queues
    <3>2. Running(e) /\ Reads(e) = delivered[e]
      BY <2>1, <3>1, Zenon DEF Running, Reads
    <3>3. /\ inq[e] \in Seq(Frames) /\ Reads(e) \in Nat /\ Alive(e) \in BOOLEAN /\ cut \in BOOLEAN
      BY ChainTypes, Zenon DEF OrderInv, PumpInv
    <3>4. Chain(inq[e], link[s], Reads(e), At(s), End(s), Alive(e), cut)
      BY <3>2, Zenon DEF OrderInv, Chains, ChainOf, s
    <3>5. Head(inq[e]).from = Reads(e)
      BY <3>1, <3>3, <3>4, ChainTakeFrom, ZenonT(30)
    <3>6. QED
      BY <1>2, <2>1, <3>1, <3>2, <3>5, Zenon
  <2>4. QED BY <2>2, <2>3, Zenon
<1>9. ASSUME NEW x \in Ends, InWrite(x) PROVE A /\ B
  <2>1. UNCHANGED <<cur, saw, shut, written, app_gone>>
    BY <1>9, Zenon DEF InWrite, InUnchanged, appVars
  <2>2. CASE x # e
    BY <1>0, <1>1, <1>2, <1>9, <2>1, <2>2, ZenonT(30) DEF InWrite, Places, Counters
  <2>3. CASE x = e
    <3>1. ipc[e] = "write" /\ ipc'[e] # "write"
      BY <1>0, <1>9, <2>3, Zenon DEF InWrite, AfterCredit, Places
    <3>2. saw[e] = "open"
      BY <1>0, <3>1, Zenon DEF Shutdowns
    <3>3. QED
      BY <2>1, <3>1, <3>2, ZenonT(30)
  <2>4. QED BY <2>2, <2>3, Zenon
<1>10. ASSUME NEW x \in Ends, InEnd(x) PROVE A /\ B
  <2>1. UNCHANGED <<cur, delivered, shut, written, app_gone>>
    BY <1>10, Zenon DEF InEnd, InUnchanged, appVars
  <2>2. CASE x # e
    BY <1>0, <1>1, <1>2, <1>10, <2>1, <2>2, Zenon DEF InEnd, Places
  <2>3. CASE x = e
    <3>1. ipc[e] = "recv" /\ inq[e] # <<>> /\ saw'[e] = Head(inq[e]).t /\ ipc'[e] = "swap"
      BY <1>0, <1>10, <2>3, Zenon DEF InEnd, Places
    <3>2. Running(e) /\ Reads(e) = delivered[e]
      BY <2>1, <3>1, Zenon DEF Running, Reads
    <3>3. /\ inq[e] \in Seq(Frames) /\ Reads(e) \in Nat /\ Alive(e) \in BOOLEAN /\ cut \in BOOLEAN
      BY ChainTypes, Zenon DEF OrderInv, PumpInv
    <3>4. Chain(inq[e], link[s], Reads(e), At(s), End(s), Alive(e), cut)
      BY <3>2, Zenon DEF OrderInv, Chains, ChainOf, s
    <3>5. saw'[e] = "FIN" => Reads(e) = End(s)
      BY <3>1, <3>3, <3>4, ChainTakeFin, ZenonT(30)
    <3>6. saw'[e] = "FIN" => shut[s] /\ delivered[e] = written[s]
      BY <3>2, <3>3, <3>5, NotMinusOne, ZenonT(30) DEF End
    <3>7. QED
      BY <2>1, <3>1, <3>6, Zenon
  <2>4. QED BY <2>2, <2>3, Zenon
<1>11. ASSUME NEW x \in Ends, InDecodeFail(x) PROVE A /\ B
  <2>1. UNCHANGED <<cur, delivered, saw, shut, written, app_gone>>
    BY <1>11, ZenonT(30) DEF InDecodeFail, appVars
  <2>2. ipc'[e] = "write" => ipc[e] = "write"
    BY <1>0, <1>11, Zenon DEF InDecodeFail, Places
  <2>3. QED
    BY <1>2, <1>a, <2>1, <2>2, Zenon
<1>12. ASSUME NEW x \in Ends, TickSwap(x) \/ TickSend(x) \/ SessionClose(x) \/ ReadEof(x)
       PROVE  A /\ B
  BY <1>1, <1>2, <1>12, ZenonT(30) DEF TickSwap, TickSend, SessionClose, ReadEof, inVars, appVars
<1>13. ASSUME NEW x \in Ends, ReadData(x) \/ ReadWindow(x) \/ ReadClose(x) \/ ReadLast(x)
       PROVE  A /\ B
  BY <1>1, <1>2, <1>13, ZenonT(30) DEF ReadData, ReadWindow, ReadClose, ReadLast, ReadUnchanged, inVars, appVars
<1>14. CASE UNCHANGED vars
  BY <1>1, <1>2, <1>14, Zenon DEF vars, inVars, appVars
<1>15. QED
  BY <1>3, <1>4, <1>5, <1>6, <1>7, <1>8, <1>9, <1>10, <1>11, <1>12, <1>13, <1>14, ZenonT(30) DEF Next

(* The invariant of the stream's order is inductive. *)
LEMMA OrderStep == OrderInv /\ [Next]_vars => OrderInv'
BY PumpStep, ChainStep, DeliveryStep DEF OrderInv

-----------------------------------------------------------------------------
(* For every window, frame size, queue bound and fault, inbound_pump hands *)
(* the app the bytes of the peer's outbound_pump in order and without a    *)
(* gap: across chunks split into frames, a parked reader, half-closes,     *)
(* drops, a cut connection and a closed session.                           *)
THEOREM StreamInOrder == Spec => []InOrder
<1>1. OrderInv => InOrder
  BY DEF OrderInv
<1>2. QED
  BY <1>1, OrderInit, OrderStep, PTL DEF Spec

(* For the same instances, an app whose read ends because of a FIN has     *)
(* been given every byte that the peer's app wrote before it shut down: no *)
(* FIN overtakes a byte and none is sent for an unclean end (outbound_pump *)
(* sends CLOSE then).                                                      *)
THEOREM StreamFinIsComplete == Spec => []FinIsComplete
<1>1. OrderInv => FinIsComplete
  BY DEF OrderInv
<1>2. QED
  BY <1>1, OrderInit, OrderStep, PTL DEF Spec
==============================================================================
