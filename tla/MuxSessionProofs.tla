-------------------------- MODULE MuxSessionProofs --------------------------
(***************************************************************************)
(* Theorems about MuxSession, for every number of openers and every limit, *)
(* queue and tick count.                                                   *)
(***************************************************************************)
EXTENDS MuxSession, FiniteSetTheorems, TLAPS

(* The server's map is within the limit, and strictly so while the reader  *)
(* stands between the check and the insert of an OPEN: nobody else inserts *)
(* at the server, so what the check saw can only have shrunk.              *)
LimitInv ==
    /\ streams = [e \in Ends |-> streams[e]]
    /\ rdr \in [Ends -> {"run", "open", "exit"}]
    /\ IsFiniteSet(streams["s"])
    /\ ServerLimit
    /\ rdr["s"] = "open" => Cardinality(streams["s"]) < MaxStreams

(* An empty map is within any limit. *)
LEMMA LimitInit == Init => LimitInv
  BY FS_EmptySet, SessionAssumption DEF Init, LimitInv, ServerLimit, Ends

(* A step that leaves the reader out of "open" and the server's map        *)
(* smaller or equal keeps the invariant.                                   *)
LEMMA Shrinks ==
    ASSUME LimitInv,
           streams' = [e \in Ends |-> streams'[e]],
           rdr' \in [Ends -> {"run", "open", "exit"}],
           streams'["s"] \subseteq streams["s"],
           rdr'["s"] = "open" => rdr["s"] = "open"
    PROVE  LimitInv'
<1>1. /\ IsFiniteSet(streams'["s"])
      /\ Cardinality(streams'["s"]) <= Cardinality(streams["s"])
  BY FS_Subset, Zenon DEF LimitInv
<1>2. Cardinality(streams["s"]) \in Nat /\ Cardinality(streams'["s"]) \in Nat
  BY <1>1, FS_CardinalityType, Zenon DEF LimitInv
<1>3. QED
  BY <1>1, <1>2, SessionAssumption DEF LimitInv, ServerLimit

(* One step per action; only ReadOpen and ReadOpenInsert need the strict bound. *)
LEMMA LimitStep == LimitInv /\ [Next]_vars => LimitInv'
<1> SUFFICES ASSUME LimitInv, [Next]_vars PROVE LimitInv'
  BY Zenon
<1> USE DEF Ends
<1>0. /\ streams = [e \in Ends |-> streams[e]]
      /\ rdr \in [Ends -> {"run", "open", "exit"}]
  BY Zenon DEF LimitInv
<1>1. CASE UNCHANGED <<streams, rdr>>
  BY <1>1, Zenon DEF LimitInv, ServerLimit
<1>2. ASSUME NEW e \in Ends, StartOk(e) \/ Close(e)
      PROVE  LimitInv'
  BY <1>1, <1>2, Zenon DEF StartOk, Close
<1>3. ASSUME NEW e \in Ends, StartTimeout(e)
      PROVE  LimitInv'
  BY <1>0, <1>3, Shrinks, Zenon DEF StartTimeout
<1>4. ASSUME NEW e \in Ends, KeepalivePing(e) \/ KeepaliveTimeout(e)
      PROVE  LimitInv'
  BY <1>1, <1>4, Zenon DEF KeepalivePing, KeepaliveTimeout
<1>5. ASSUME NEW e \in Ends, Writer(e)
      PROVE  LimitInv'
  BY <1>1, <1>5, Zenon DEF Writer, WriterLone, WriterBatch, WriterCheck, WriterError
<1>6. ASSUME NEW e \in Ends, Teardown(e)
      PROVE  LimitInv'
  <2>1. CASE TeardownClear(e)
    BY <1>0, <2>1, Shrinks, Zenon DEF TeardownClear
  <2>2. CASE TeardownSnap(e) \/ TeardownAbort(e) \/ TeardownReady(e)
    BY <1>1, <2>2, Zenon DEF TeardownSnap, TeardownAbort, TeardownReady
  <2>3. QED
    BY <1>6, <2>1, <2>2, Zenon DEF Teardown
<1>7. ASSUME NEW e \in Ends, Reader(e)
      PROVE  LimitInv'
  <2>1. CASE ReadEof(e) \/ ReadStop(e)
    BY <1>0, <2>1, Shrinks DEF ReadEof, ReadStop, ReaderExit
  <2>2. CASE \/ ReadHello(e) \/ ReadFin(e) \/ ReadPing(e) \/ ReadPong(e)
             \/ ReadAck
    BY <1>1, <2>2, Zenon DEF ReadHello, ReadFin, ReadPing, ReadPong, ReadAck
  <2>3. CASE ReadOpen
    <3>1. CASE UNCHANGED rdr
      BY <1>1, <2>3, <3>1, Zenon DEF ReadOpen
    <3>2. CASE ~AtLimit /\ rdr' = [rdr EXCEPT !["s"] = "open"]
      <4>1. Cardinality(streams["s"]) \in Nat
        BY FS_CardinalityType, Zenon DEF LimitInv
      <4>2. QED
        BY <1>0, <2>3, <3>2, <4>1, SessionAssumption
           DEF ReadOpen, AtLimit, LimitInv, ServerLimit
    <3>3. QED
      BY <2>3, <3>1, <3>2, Zenon DEF ReadOpen
  <2>4. CASE ReadOpenInsert
    <3>1. /\ rdr["s"] = "open"
          /\ rdr' = [rdr EXCEPT !["s"] = "run"]
          /\ streams' = [streams EXCEPT !["s"] = @ \cup {opening}]
      BY <2>4, Zenon DEF ReadOpenInsert
    <3>2. streams'["s"] = streams["s"] \cup {opening}
      BY <1>0, <3>1, Zenon
    <3>3. /\ IsFiniteSet(streams'["s"])
          /\ \/ Cardinality(streams'["s"]) = Cardinality(streams["s"])
             \/ Cardinality(streams'["s"]) = Cardinality(streams["s"]) + 1
      BY <3>2, FS_AddElement DEF LimitInv
    <3>4. Cardinality(streams["s"]) \in Nat
      BY FS_CardinalityType, Zenon DEF LimitInv
    <3>5. Cardinality(streams["s"]) < MaxStreams
      BY <3>1, Zenon DEF LimitInv
    <3>6. Cardinality(streams'["s"]) <= MaxStreams
      BY <3>3, <3>4, <3>5, SessionAssumption
    <3>7. rdr' \in [Ends -> {"run", "open", "exit"}] /\ rdr'["s"] = "run"
      BY <1>0, <3>1, Zenon
    <3>8. streams' = [x \in Ends |-> streams'[x]]
      BY <1>0, <3>1, Zenon
    <3>9. QED
      BY <3>3, <3>6, <3>7, <3>8, Zenon DEF LimitInv, ServerLimit
  <2>5. QED
    BY <1>7, <2>1, <2>2, <2>3, <2>4, Zenon DEF Reader
<1>8. ASSUME NEW o \in Openers, OpenCheck(o) \/ OpenSend(o)
      PROVE  LimitInv'
  BY <1>1, <1>8, Zenon DEF OpenCheck, OpenSend
<1>9. ASSUME NEW o \in Openers, OpenInsert(o) \/ OpenAnswer(o) \/ OpenerDrop(o)
      PROVE  LimitInv'
  <2>1. UNCHANGED rdr
    BY <1>9, Zenon DEF OpenInsert, OpenAnswer, OpenerDrop
  <2>2. streams' = [x \in Ends |-> streams'[x]] /\ streams'["s"] = streams["s"]
    <3>1. CASE OpenInsert(o)
      BY <1>0, <3>1, Zenon DEF OpenInsert
    <3>2. CASE OpenAnswer(o)
      BY <1>0, <3>2, Zenon DEF OpenAnswer
    <3>3. CASE OpenerDrop(o)
      BY <1>0, <3>3, Zenon DEF OpenerDrop, Retired
    <3>4. QED
      BY <1>9, <3>1, <3>2, <3>3, Zenon
  <2>3. QED
    BY <1>0, <2>1, <2>2, Shrinks, Zenon
<1>10. ASSUME NEW i \in Sids, Accept(i) \/ Reject(i)
       PROVE  LimitInv'
  BY <1>1, <1>10, Zenon DEF Accept, Reject
<1>11. ASSUME NEW i \in Sids, HandlerDrop(i)
       PROVE  LimitInv'
  BY <1>0, <1>11, Shrinks, Zenon DEF HandlerDrop, Retired
<1>12. CASE UNCHANGED vars
  BY <1>1, <1>12, Zenon DEF vars
<1>13. QED
  BY <1>2, <1>3, <1>4, <1>5, <1>6, <1>7, <1>8, <1>9, <1>10, <1>11, <1>12, Zenon
     DEF Next

(* max_streams bounds the server's map whatever the client sends and       *)
(* whenever handlers finish, though FT_OPEN checks the limit in one lock   *)
(* scope and inserts in another (mux.rs 1194-1254).                        *)
THEOREM ServerWithinLimit == Spec => []ServerLimit
<1>1. LimitInv => ServerLimit
  BY Zenon DEF LimitInv
<1>2. QED
  BY <1>1, LimitInit, LimitStep, PTL DEF Spec

-----------------------------------------------------------------------------
(* The two ends of a session. *)
LEMMA PeerFacts ==
    \A e \in Ends : /\ Peer(e) \in Ends /\ Peer(e) # e /\ Peer(Peer(e)) = e
                    /\ \A x \in Ends : x = e \/ x = Peer(e)
BY Zenon DEF Ends, Peer

(* A frame, its stream id left open. *)
Kinds == {"HELLO", "PING", "PONG", "GOAWAY", "OPEN", "ACK", "NACK", "FIN"}
AnyFrame == Kinds \X Nat

(* The types the arguments below need, group by group. *)
FlagTypes ==
    /\ ready \in [Ends -> BOOLEAN] /\ closed \in [Ends -> BOOLEAN]
    /\ start \in [Ends -> {"wait", "ok", "failed"}]
    /\ tdpc \in [Ends -> {"no", "snap", "clear", "abort", "ready", "done"}]
    /\ wpc \in [Ends -> {"recv", "check", "exit"}]
    /\ rdr \in [Ends -> {"run", "open", "exit"}]
QueueTypes == wq \in [Ends -> Seq(AnyFrame)] /\ net \in [Ends -> Seq(AnyFrame)]
IdTypes ==
    /\ opening \in Nat /\ next_id \in Nat
    /\ osid \in [Openers -> Nat]
    /\ ost \in [Openers -> {"idle", "checked", "insert", "wait", "open", "failed", "gone"}]
    /\ ack \in [Openers -> {"none", "ok", "no"}]
    /\ hst \in [Sids -> {"none", "run", "acc", "rej", "accgone", "rejgone"}]
TypeInv == FlagTypes /\ QueueTypes /\ IdTypes

(* Stream ids are natural numbers. *)
LEMMA SidsNat == \A i \in Sids : i \in Nat
BY DEF Sids

(* A frame is a kind and an id. *)
LEMMA FrameFacts ==
    /\ \A t \in Kinds, i \in Nat : <<t, i>> \in AnyFrame /\ <<t, i>>[1] = t /\ <<t, i>>[2] = i
    /\ \A f \in AnyFrame : f[1] \in Kinds /\ f[2] \in Nat /\ f = <<f[1], f[2]>>
    /\ \A t \in {"PING", "PONG", "GOAWAY"} : <<t, 0>> \in AnyFrame
BY DEF AnyFrame, Kinds

(* The types hold at the start. *)
LEMMA TypeInit == Init => TypeInv
<1> SUFFICES ASSUME Init PROVE TypeInv
  BY Zenon
<1>1. FirstFrames \in Seq(AnyFrame)
  BY DEF FirstFrames, AnyFrame, Kinds
<1>2. FlagTypes
  BY Zenon DEF Init, FlagTypes
<1>3. QueueTypes
  BY <1>1 DEF Init, QueueTypes
<1>4. IdTypes
  BY Zenon DEF Init, IdTypes
<1>5. QED
  BY <1>2, <1>3, <1>4, Zenon DEF TypeInv

(* Every step keeps the types of the flags. *)
LEMMA FlagStep == FlagTypes /\ [Next]_vars => FlagTypes'
<1> SUFFICES ASSUME FlagTypes, [Next]_vars PROVE FlagTypes'
  BY Zenon
<1>t. /\ ready \in [Ends -> BOOLEAN] /\ closed \in [Ends -> BOOLEAN]
      /\ start \in [Ends -> {"wait", "ok", "failed"}]
      /\ tdpc \in [Ends -> {"no", "snap", "clear", "abort", "ready", "done"}]
      /\ wpc \in [Ends -> {"recv", "check", "exit"}]
      /\ rdr \in [Ends -> {"run", "open", "exit"}]
  BY Zenon DEF FlagTypes
<1>1. CASE UNCHANGED <<ready, closed, start, tdpc, wpc, rdr>>
  BY <1>1, <1>t, Zenon DEF FlagTypes
<1>e. ASSUME NEW e \in Ends,
             ready' = ready \/ \E v \in BOOLEAN : ready' = [ready EXCEPT ![e] = v],
             closed' = closed \/ closed' = [closed EXCEPT ![e] = TRUE],
             start' = start \/ \E v \in {"ok", "failed"} : start' = [start EXCEPT ![e] = v],
             tdpc' = tdpc \/ \E v \in {"snap", "clear", "abort", "ready", "done"} :
                                tdpc' = [tdpc EXCEPT ![e] = v],
             wpc' = wpc \/ \E v \in {"recv", "check", "exit"} : wpc' = [wpc EXCEPT ![e] = v],
             rdr' = rdr \/ \E v \in {"run", "open", "exit"} : rdr' = [rdr EXCEPT ![e] = v]
      PROVE  FlagTypes'
  <2>0. ASSUME NEW S, NEW f \in [Ends -> S], NEW v \in S PROVE [f EXCEPT ![e] = v] \in [Ends -> S]
    BY Zenon
  <2>1. ready' \in [Ends -> BOOLEAN]
    BY <1>e, <1>t, <2>0, Zenon
  <2>7. closed' \in [Ends -> BOOLEAN]
    <3>1. TRUE \in BOOLEAN
      BY Zenon
    <3>2. QED
      BY <1>e, <1>t, <2>0, <3>1, Zenon
  <2>2. start' \in [Ends -> {"wait", "ok", "failed"}]
    <3>1. \A v \in {"ok", "failed"} : v \in {"wait", "ok", "failed"}
      BY Zenon
    <3>2. QED
      BY <1>e, <1>t, <2>0, <3>1, Zenon
  <2>3. tdpc' \in [Ends -> {"no", "snap", "clear", "abort", "ready", "done"}]
    <3>1. \A v \in {"snap", "clear", "abort", "ready", "done"} :
             v \in {"no", "snap", "clear", "abort", "ready", "done"}
      OBVIOUS
    <3>2. QED
      BY <1>e, <1>t, <2>0, <3>1, Zenon
  <2>4. wpc' \in [Ends -> {"recv", "check", "exit"}]
    BY <1>e, <1>t, <2>0, Zenon
  <2>5. rdr' \in [Ends -> {"run", "open", "exit"}]
    BY <1>e, <1>t, <2>0, Zenon
  <2>6. QED
    BY <2>1, <2>2, <2>3, <2>4, <2>5, <2>7, Zenon DEF FlagTypes
<1>2. ASSUME NEW e \in Ends, StartOk(e) \/ StartTimeout(e) \/ Close(e) \/ KeepaliveTimeout(e)
      PROVE  FlagTypes'
  BY <1>2, <1>e, Zenon DEF StartOk, StartTimeout, Close, KeepaliveTimeout, flagVars
<1>3. ASSUME NEW e \in Ends, \/ KeepalivePing(e) \/ ReadFin(e) \/ ReadPing(e) \/ ReadPong(e) \/ ReadAck
      PROVE  FlagTypes'
  BY <1>1, <1>3, Zenon DEF KeepalivePing, ReadFin, ReadPing, ReadPong, ReadAck, flagVars
<1>4. ASSUME NEW e \in Ends, Writer(e)
      PROVE  FlagTypes'
  BY <1>4, <1>e, Zenon DEF Writer, WriterLone, WriterBatch, WriterCheck, WriterError, flagVars
<1>5. ASSUME NEW e \in Ends, ReadEof(e) \/ ReadStop(e) \/ ReadHello(e)
      PROVE  FlagTypes'
  BY <1>5, <1>e, Zenon DEF ReadEof, ReadStop, ReadHello, ReaderExit
<1>6. ASSUME ReadOpen \/ ReadOpenInsert
      PROVE  FlagTypes'
  <2>1. "s" \in Ends
    BY Zenon DEF Ends
  <2>2. QED
    BY <1>6, <1>e, <2>1, Zenon DEF ReadOpen, ReadOpenInsert, flagVars
<1>7. ASSUME NEW e \in Ends, Teardown(e)
      PROVE  FlagTypes'
  BY <1>7, <1>e, Zenon DEF Teardown, TeardownSnap, TeardownClear, TeardownAbort, TeardownReady
<1>8. ASSUME NEW o \in Openers, OpenCheck(o) \/ OpenInsert(o) \/ OpenSend(o) \/ OpenAnswer(o)
                                \/ OpenerDrop(o)
      PROVE  FlagTypes'
  BY <1>1, <1>8, Zenon DEF OpenCheck, OpenInsert, OpenSend, OpenAnswer, OpenerDrop, flagVars
<1>9. ASSUME NEW i \in Sids, Accept(i) \/ Reject(i) \/ HandlerDrop(i)
      PROVE  FlagTypes'
  BY <1>1, <1>9, Zenon DEF Accept, Reject, HandlerDrop, flagVars
<1>10. CASE UNCHANGED vars
  BY <1>1, <1>10, Zenon DEF vars, flagVars
<1>11. QED
  BY <1>2, <1>3, <1>4, <1>5, <1>6, <1>7, <1>8, <1>9, <1>10, Zenon DEF Next, Reader

(* What joins the writer queue is a frame. *)
LEMMA QueuedType ==
    ASSUME QueueTypes, NEW e \in Ends, NEW f \in AnyFrame
    PROVE  /\ Queued(e, f) \in [Ends -> Seq(AnyFrame)]
           /\ Control(e, f) \in [Ends -> Seq(AnyFrame)]
           /\ ControlGoaway(e) \in [Ends -> Seq(AnyFrame)]
<1>1. \A x \in Ends, g \in AnyFrame : Queued(x, g) \in [Ends -> Seq(AnyFrame)]
  BY DEF QueueTypes, Queued
<1>2. wq \in [Ends -> Seq(AnyFrame)]
  BY Zenon DEF QueueTypes
<1>3. <<"GOAWAY", 0>> \in AnyFrame
  BY FrameFacts, Zenon
<1>4. QED
  BY <1>1, <1>2, <1>3, Zenon DEF Control, ControlGoaway

(* The next frame that a reader sees. *)
LEMMA ReadType ==
    ASSUME QueueTypes, NEW e \in Ends, CanRead(e)
    PROVE  /\ Frame(e) \in AnyFrame
           /\ Popped(e) \in [Ends -> Seq(AnyFrame)]
<1>1. Peer(e) \in Ends
  BY PeerFacts, Zenon
<1>2. net[Peer(e)] \in Seq(AnyFrame) /\ net[Peer(e)] # <<>>
  BY <1>1, Zenon DEF QueueTypes, CanRead
<1>3. Head(net[Peer(e)]) \in AnyFrame /\ Tail(net[Peer(e)]) \in Seq(AnyFrame)
  BY <1>2
<1>4. QED
  BY <1>1, <1>3, Zenon DEF Frame, Popped, QueueTypes

(* What the writer hands to the connection is frames. *)
LEMMA WrittenType ==
    ASSUME QueueTypes, NEW e \in Ends, NEW s \in Seq(AnyFrame)
    PROVE  Written(e, s) \in [Ends -> Seq(AnyFrame)]
BY DEF QueueTypes, Written

(* Every step keeps frames in the queues and in the connections. *)
LEMMA QueueStep == TypeInv /\ [Next]_vars => QueueTypes'
<1> SUFFICES ASSUME TypeInv, [Next]_vars PROVE QueueTypes'
  BY Zenon
<1>0. QueueTypes /\ IdTypes
  BY Zenon DEF TypeInv
<1>w. wq \in [Ends -> Seq(AnyFrame)] /\ net \in [Ends -> Seq(AnyFrame)]
  BY <1>0, Zenon DEF QueueTypes
<1>s. \A e \in Ends : wq[e] \in Seq(AnyFrame)
  BY <1>w, Zenon
<1>1. CASE UNCHANGED <<wq, net>>
  BY <1>0, <1>1, Zenon DEF QueueTypes
<1>q. ASSUME net' = net, NEW e \in Ends, NEW f \in AnyFrame,
             wq' = wq \/ wq' = Queued(e, f) \/ wq' = Control(e, f) \/ wq' = ControlGoaway(e)
      PROVE  QueueTypes'
  BY <1>0, <1>q, <1>w, QueuedType, Zenon DEF QueueTypes
<1>r. ASSUME NEW e \in Ends, CanRead(e), net' = Popped(e), NEW f \in AnyFrame,
             wq' = wq \/ wq' = Control(e, f)
      PROVE  QueueTypes'
  BY <1>0, <1>r, <1>w, QueuedType, ReadType, Zenon DEF QueueTypes
<1>2. ASSUME NEW e \in Ends, StartOk(e) \/ StartTimeout(e) \/ Teardown(e) \/ ReadEof(e)
      PROVE  QueueTypes'
  BY <1>1, <1>2, Zenon DEF StartOk, StartTimeout, Teardown, TeardownSnap, TeardownClear,
                           TeardownAbort, TeardownReady, ReadEof
<1>f. /\ <<"PING", 0>> \in AnyFrame /\ <<"PONG", 0>> \in AnyFrame
      /\ <<"GOAWAY", 0>> \in AnyFrame
      /\ \A t \in {"OPEN", "ACK", "NACK", "FIN"}, i \in Nat : <<t, i>> \in AnyFrame
  BY FrameFacts, Zenon DEF Kinds
<1>3. ASSUME NEW e \in Ends, Close(e) \/ KeepalivePing(e) \/ KeepaliveTimeout(e)
      PROVE  QueueTypes'
  BY <1>3, <1>f, <1>q, Zenon DEF Close, KeepalivePing, KeepaliveTimeout
<1>4. ASSUME NEW e \in Ends, Writer(e)
      PROVE  QueueTypes'
  <2>1. CASE WriterLone(e)
    BY <1>0, <1>w, <2>1, WrittenType DEF WriterLone, QueueTypes
  <2>2. CASE WriterBatch(e)
    <3>1. PICK k : /\ net' = Written(e, SubSeq(wq[e], 1, k))
                   /\ wq' = [wq EXCEPT ![e] = SubSeq(@, k + 1, Len(@))]
                   /\ k = IF Len(wq[e]) < BatchMax THEN Len(wq[e]) ELSE BatchMax
      BY <2>2, Zenon DEF WriterBatch
    <3>2. k \in Nat /\ k <= Len(wq[e]) /\ Len(wq[e]) \in Nat
      BY <1>s, <3>1, SessionAssumption
    <3>3. SubSeq(wq[e], 1, k) \in Seq(AnyFrame) /\ SubSeq(wq[e], k + 1, Len(wq[e])) \in Seq(AnyFrame)
      BY <1>s, <3>2
    <3>4. net' \in [Ends -> Seq(AnyFrame)]
      BY <1>0, <3>1, <3>3, WrittenType, Zenon
    <3>5. wq' \in [Ends -> Seq(AnyFrame)]
      BY <1>w, <3>1, <3>3, Zenon
    <3>6. QED
      BY <3>4, <3>5, Zenon DEF QueueTypes
  <2>3. CASE WriterCheck(e)
    <3>1. CASE closed[e]
      <4>1. net' = Written(e, wq[e]) /\ wq' = [wq EXCEPT ![e] = <<>>]
        BY <2>3, <3>1, Zenon DEF WriterCheck
      <4>2. net' \in [Ends -> Seq(AnyFrame)]
        BY <1>0, <1>s, <4>1, WrittenType, Zenon
      <4>3. wq' \in [Ends -> Seq(AnyFrame)]
        BY <1>w, <4>1
      <4>4. QED
        BY <4>2, <4>3, Zenon DEF QueueTypes
    <3>2. CASE ~closed[e]
      BY <1>w, <2>3, <3>2, Zenon DEF WriterCheck, QueueTypes
    <3>3. QED
      BY <3>1, <3>2, Zenon
  <2>4. CASE WriterError(e)
    <3>1. net' = net /\ wq' = [wq EXCEPT ![e] = <<>>]
      BY <2>4, Zenon DEF WriterError
    <3>2. wq' \in [Ends -> Seq(AnyFrame)]
      BY <1>w, <3>1
    <3>3. QED
      BY <1>w, <3>1, <3>2, Zenon DEF QueueTypes
  <2>5. QED
    BY <1>4, <2>1, <2>2, <2>3, <2>4, Zenon DEF Writer
<1>5. ASSUME NEW e \in Ends, \/ ReadStop(e) \/ ReadHello(e) \/ ReadFin(e) \/ ReadPing(e) \/ ReadPong(e)
      PROVE  QueueTypes'
  BY <1>5, <1>f, <1>r, Zenon DEF ReadStop, ReadHello, ReadFin, ReadPing, ReadPong
<1>6. ASSUME ReadAck
      PROVE  QueueTypes'
  BY <1>6, <1>f, <1>r, Zenon DEF ReadAck, Ends
<1>7. ASSUME ReadOpen \/ ReadOpenInsert
      PROVE  QueueTypes'
  <2>1. CASE ReadOpenInsert
    BY <1>1, <2>1, Zenon DEF ReadOpenInsert
  <2>2. CASE ReadOpen
    <3>1. "s" \in Ends /\ CanRead("s") /\ net' = Popped("s")
      BY <2>2, Zenon DEF ReadOpen, Ends
    <3>2. Frame("s")[2] \in Nat
      BY <1>0, <3>1, ReadType, FrameFacts, ZenonT(30)
    <3>3. wq' = wq \/ wq' = Control("s", <<"NACK", Frame("s")[2]>>)
      BY <2>2, Zenon DEF ReadOpen
    <3>4. QED
      BY <1>f, <1>r, <3>1, <3>2, <3>3, Zenon
  <2>3. QED
    BY <1>7, <2>1, <2>2, ZenonT(30)
<1>8. ASSUME NEW o \in Openers, \/ OpenCheck(o) \/ OpenInsert(o) \/ OpenSend(o) \/ OpenAnswer(o)
                                \/ OpenerDrop(o)
      PROVE  QueueTypes'
  <2>1. osid[o] \in Nat /\ "c" \in Ends
    BY <1>0, Zenon DEF IdTypes, Ends
  <2>2. QED
    BY <1>8, <1>f, <1>q, <2>1, Zenon
       DEF OpenCheck, OpenInsert, OpenSend, OpenAnswer, OpenerDrop, SendFin
<1>9. ASSUME NEW i \in Sids, Accept(i) \/ Reject(i) \/ HandlerDrop(i)
      PROVE  QueueTypes'
  <2>1. i \in Nat /\ "s" \in Ends
    BY SidsNat, Zenon DEF Ends
  <2>2. QED
    BY <1>9, <1>f, <1>q, <2>1, Zenon DEF Accept, Reject, HandlerDrop, SendFin
<1>10. CASE UNCHANGED vars
  BY <1>1, <1>10, Zenon DEF vars
<1>11. QED
  BY <1>2, <1>3, <1>4, <1>5, <1>6, <1>7, <1>8, <1>9, <1>10, Zenon DEF Next, Reader

(* Every step keeps the types of the openers and of the handlers. *)
LEMMA IdStep == TypeInv /\ [Next]_vars => IdTypes'
<1> SUFFICES ASSUME TypeInv, [Next]_vars PROVE IdTypes'
  BY Zenon
<1>0. IdTypes /\ QueueTypes
  BY Zenon DEF TypeInv
<1>1. CASE UNCHANGED <<openVars, handVars>>
  BY <1>0, <1>1, Zenon DEF IdTypes, openVars, handVars
<1>2. ASSUME NEW e \in Ends,
             \/ StartOk(e) \/ StartTimeout(e) \/ Close(e) \/ KeepalivePing(e)
             \/ KeepaliveTimeout(e) \/ Writer(e) \/ Teardown(e)
      PROVE  IdTypes'
  BY <1>1, <1>2, Zenon DEF StartOk, StartTimeout, Close, KeepalivePing, KeepaliveTimeout, Writer,
     WriterLone, WriterBatch, WriterCheck, WriterError, Teardown, TeardownSnap, TeardownClear,
     TeardownAbort, TeardownReady
<1>3. ASSUME NEW e \in Ends, \/ ReadEof(e) \/ ReadStop(e) \/ ReadHello(e) \/ ReadFin(e)
                             \/ ReadPing(e) \/ ReadPong(e)
      PROVE  IdTypes'
  BY <1>1, <1>3, Zenon DEF ReadEof, ReadStop, ReadHello, ReadFin, ReadPing, ReadPong
<1>4. CASE ReadAck
  <2>1. UNCHANGED <<next_id, ost, osid, handVars>>
    BY <1>4, Zenon DEF ReadAck
  <2>2. Answer \in {"ok", "no"}
    BY Zenon DEF Answer
  <2>3. ack' \in [Openers -> {"none", "ok", "no"}]
    BY <1>0, <1>4, <2>2, Zenon DEF ReadAck, IdTypes
  <2>4. QED
    BY <1>0, <2>1, <2>3, Zenon DEF IdTypes, handVars
<1>5. CASE ReadOpen
  <2>1. CanRead("s") /\ UNCHANGED <<openVars, hst>> /\ (opening' = opening \/ opening' = Frame("s")[2])
    BY <1>5, Zenon DEF ReadOpen
  <2>2. Frame("s")[2] \in Nat
    BY <1>0, <2>1, ReadType, FrameFacts, Zenon DEF Ends
  <2>3. QED
    BY <1>0, <2>1, <2>2, Zenon DEF IdTypes, openVars
<1>6. CASE ReadOpenInsert
  BY <1>0, <1>6, Zenon DEF ReadOpenInsert, IdTypes, openVars
<1>7. ASSUME NEW o \in Openers, OpenCheck(o)
      PROVE  IdTypes'
  BY <1>0, <1>7 DEF OpenCheck, IdTypes, handVars
<1>8. ASSUME NEW o \in Openers, OpenInsert(o) \/ OpenSend(o) \/ OpenAnswer(o) \/ OpenerDrop(o)
      PROVE  IdTypes'
  <2>1. /\ UNCHANGED <<next_id, osid, ack, handVars>>
        /\ \E x \in {"insert", "wait", "open", "failed", "gone"} : ost' = [ost EXCEPT ![o] = x]
    BY <1>8, Zenon DEF OpenInsert, OpenSend, OpenAnswer, OpenerDrop
  <2>2. QED
    BY <1>0, <2>1, ZenonT(30) DEF IdTypes, handVars
<1>9. ASSUME NEW i \in Sids, Accept(i) \/ Reject(i) \/ HandlerDrop(i)
      PROVE  IdTypes'
  BY <1>0, <1>9, ZenonT(30) DEF Accept, Reject, HandlerDrop, IdTypes, openVars
<1>10. CASE UNCHANGED vars
  BY <1>1, <1>10, Zenon DEF vars
<1>11. QED
  BY <1>2, <1>3, <1>4, <1>5, <1>6, <1>7, <1>8, <1>9, <1>10, Zenon DEF Next, Reader

(* Every step keeps the types. *)
LEMMA TypeStep == TypeInv /\ [Next]_vars => TypeInv'
BY FlagStep, QueueStep, IdStep, Zenon DEF TypeInv

(* The frames of e that its peer has yet to read, in order. *)
Wire(e) == net[e] \o wq[e]

(* The frames of a queue, and that a frame is in it at most once. *)
In(q) == {q[k] : k \in 1..Len(q)}
Once(q, f) == \A j, k \in 1..Len(q) : q[j] = f /\ q[k] = f => j = k

(* A frame that joins the end of a queue. *)
LEMMA InAppend ==
    ASSUME NEW q \in Seq(AnyFrame), NEW f \in AnyFrame
    PROVE  /\ Append(q, f) \in Seq(AnyFrame)
           /\ In(Append(q, f)) = In(q) \cup {f}
           /\ \A g : Once(q, g) /\ (g # f \/ f \notin In(q)) => Once(Append(q, f), g)
<1>1. /\ Append(q, f) \in Seq(AnyFrame) /\ Len(Append(q, f)) = Len(q) + 1 /\ Len(q) \in Nat
      /\ Append(q, f)[Len(q) + 1] = f
      /\ \A k \in 1..Len(q) : Append(q, f)[k] = q[k]
  OBVIOUS
<1> DEFINE r == Append(q, f)
<1> HIDE DEF r
<1>2. Len(r) = Len(q) + 1 /\ r[Len(q) + 1] = f /\ \A k \in 1..Len(q) : r[k] = q[k]
  BY <1>1, Zenon DEF r
<1>3. In(r) = In(q) \cup {f}
  BY <1>1, <1>2 DEF In
<1>4. ASSUME NEW g, Once(q, g), g # f \/ f \notin In(q) PROVE Once(r, g)
  <2>1. SUFFICES ASSUME NEW j \in 1..Len(r), NEW k \in 1..Len(r), r[j] = g, r[k] = g PROVE j = k
    BY Zenon DEF Once
  <2>2. CASE j \in 1..Len(q) /\ k \in 1..Len(q)
    BY <1>2, <1>4, <2>1, <2>2, Zenon DEF Once
  <2>3. CASE ~(j \in 1..Len(q) /\ k \in 1..Len(q))
    <3>1. g = f
      BY <1>1, <1>2, <2>1, <2>3
    <3>2. \A x \in 1..Len(q) : q[x] # f
      BY <1>4, <3>1, Zenon DEF In
    <3>3. QED
      BY <1>1, <1>2, <2>1, <3>1, <3>2
  <2>4. QED
    BY <2>2, <2>3, Zenon
<1>5. QED
  BY <1>1, <1>3, <1>4, Zenon DEF r

(* The first frame of a queue leaves it. *)
LEMMA InTail ==
    ASSUME NEW q \in Seq(AnyFrame), q # <<>>
    PROVE  /\ Head(q) \in In(q)
           /\ Tail(q) \in Seq(AnyFrame)
           /\ In(Tail(q)) \subseteq In(q)
           /\ \A g : Once(q, g) => Once(Tail(q), g)
           /\ Once(q, Head(q)) => Head(q) \notin In(Tail(q))
<1>1. /\ Tail(q) \in Seq(AnyFrame) /\ Len(q) \in Nat /\ Len(q) >= 1 /\ Len(Tail(q)) = Len(q) - 1
      /\ Head(q) = q[1]
      /\ \A k \in 1..Len(Tail(q)) : Tail(q)[k] = q[k + 1]
  OBVIOUS
<1> DEFINE r == Tail(q)
<1> HIDE DEF r
<1>2. Len(r) = Len(q) - 1 /\ \A k \in 1..Len(r) : r[k] = q[k + 1]
  BY <1>1, Zenon DEF r
<1>3. \A k \in 1..Len(r) : k + 1 \in 1..Len(q) /\ k \in Nat
  BY <1>1, <1>2
<1>4. Head(q) \in In(q)
  BY <1>1 DEF In
<1>5. In(r) \subseteq In(q)
  BY <1>2, <1>3, ZenonT(30) DEF In
<1>6. ASSUME NEW g, Once(q, g) PROVE Once(r, g)
  <2>1. SUFFICES ASSUME NEW j \in 1..Len(r), NEW k \in 1..Len(r), r[j] = g, r[k] = g PROVE j = k
    BY Zenon DEF Once
  <2>2. j + 1 = k + 1
    BY <1>2, <1>3, <1>6, <2>1, Zenon DEF Once
  <2>3. QED
    BY <1>3, <2>2
<1>7. ASSUME Once(q, Head(q)), Head(q) \in In(r) PROVE FALSE
  <2>1. PICK k \in 1..Len(r) : r[k] = Head(q)
    BY <1>7, Zenon DEF In
  <2>2. k + 1 = 1
    BY <1>1, <1>2, <1>3, <1>7, <2>1 DEF Once
  <2>3. QED
    BY <1>3, <2>2
<1>8. QED
  BY <1>1, <1>4, <1>5, <1>6, <1>7, Zenon DEF r

(* The end of a queue. *)
LEMMA RestAt ==
    ASSUME NEW b \in Seq(AnyFrame), NEW m \in 0..Len(b)
    PROVE  LET d == SubSeq(b, m + 1, Len(b)) IN
           d \in Seq(AnyFrame) /\ Len(d) = Len(b) - m /\ \A k \in 1..Len(d) : d[k] = b[k + m]
<1>1. Len(b) \in Nat /\ m \in Nat /\ m <= Len(b)
  OBVIOUS
<1> DEFINE d == SubSeq(b, m + 1, Len(b))
<1>2. d \in Seq(AnyFrame)
  BY <1>1
<1>3. Len(d) = Len(b) - m
  BY <1>1
<1>4. \A k \in 1..(Len(b) - m) : d[k] = b[k + m]
  BY <1>1
<1> HIDE DEF d
<1>5. QED
  BY <1>2, <1>3, <1>4, Zenon DEF d

\* Two sequences of frames with the same items are the same.
LEMMA SameFrames ==
    ASSUME NEW p \in Seq(AnyFrame), NEW q \in Seq(AnyFrame), Len(p) = Len(q),
           \A j \in 1..Len(p) : p[j] = q[j]
    PROVE  p = q
  OBVIOUS

(* The elements of a concatenation. *)
LEMMA ConcatAt ==
    ASSUME NEW a \in Seq(AnyFrame), NEW b \in Seq(AnyFrame)
    PROVE  /\ a \o b \in Seq(AnyFrame)
           /\ Len(a) \in Nat /\ Len(b) \in Nat /\ Len(a \o b) = Len(a) + Len(b)
           /\ \A k \in 1..Len(a) : (a \o b)[k] = a[k]
           /\ \A k \in 1..Len(b) : (a \o b)[Len(a) + k] = b[k]
  OBVIOUS

(* A part of the writer queue is written to a connection nobody reads. *)
LEMMA InDropped ==
    ASSUME NEW a \in Seq(AnyFrame), NEW b \in Seq(AnyFrame), NEW m \in 0..Len(b)
    PROVE  LET c == a \o SubSeq(b, m + 1, Len(b)) IN
           /\ c \in Seq(AnyFrame)
           /\ In(c) \subseteq In(a \o b)
           /\ \A g : Once(a \o b, g) => Once(c, g)
<1> DEFINE d == SubSeq(b, m + 1, Len(b))
           c == a \o d
           q == a \o b
<1>1. Len(a) \in Nat /\ Len(b) \in Nat /\ m \in Nat /\ m <= Len(b)
  OBVIOUS
<1>2. d \in Seq(AnyFrame) /\ Len(d) = Len(b) - m /\ \A k \in 1..Len(d) : d[k] = b[k + m]
  BY RestAt, Zenon
<1> HIDE DEF d
<1>3. /\ Len(c) = Len(a) + Len(d)
      /\ \A k \in 1..Len(a) : c[k] = a[k]
      /\ \A k \in 1..Len(d) : c[Len(a) + k] = d[k]
  BY <1>2, ConcatAt, Zenon
<1>4. /\ Len(q) = Len(a) + Len(b)
      /\ \A k \in 1..Len(a) : q[k] = a[k]
      /\ \A k \in 1..Len(b) : q[Len(a) + k] = b[k]
  BY ConcatAt, Zenon
<1>0. c \in Seq(AnyFrame)
  BY <1>2
<1> HIDE DEF c, q
<1> DEFINE at(k) == IF k <= Len(a) THEN k ELSE k + m
<1>5. ASSUME NEW k \in 1..Len(c) PROVE at(k) \in 1..Len(q) /\ c[k] = q[at(k)]
  <2>1. CASE k <= Len(a)
    BY <1>1, <1>2, <1>3, <1>4, <2>1
  <2>2. CASE ~(k <= Len(a))
    <3>1. k - Len(a) \in 1..Len(d) /\ (k - Len(a)) + m \in 1..Len(b) /\ at(k) \in 1..Len(q)
      BY <1>1, <1>2, <1>3, <1>4, <2>2
    <3>2. k = Len(a) + (k - Len(a)) /\ at(k) = Len(a) + ((k - Len(a)) + m)
      BY <1>1, <2>2
    <3>3. c[k] = d[k - Len(a)] /\ d[k - Len(a)] = b[(k - Len(a)) + m]
      BY <1>2, <1>3, <3>1, <3>2, Zenon
    <3>4. q[at(k)] = b[(k - Len(a)) + m]
      BY <1>4, <3>1, <3>2, Zenon
    <3>5. QED
      BY <3>1, <3>3, <3>4, Zenon
  <2>3. QED
    BY <2>1, <2>2, Zenon
<1>6. \A j, k \in 1..Len(c) : at(j) = at(k) => j = k
  BY <1>1, <1>2, <1>3
<1> HIDE DEF at
<1>7. In(c) \subseteq In(q)
  BY <1>5, Zenon DEF In
<1>8. \A g : Once(q, g) => Once(c, g)
  BY <1>5, <1>6, Zenon DEF Once
<1>9. QED
  BY <1>0, <1>7, <1>8, ZenonT(30) DEF c, d, q

(* The wire as the writer, the queue and the reader see it. *)
LEMMA WireFacts ==
    ASSUME NEW a \in Seq(AnyFrame), NEW b \in Seq(AnyFrame)
    PROVE  /\ a \o b \in Seq(AnyFrame)
           /\ a \o <<>> = a
           /\ \A f \in AnyFrame : a \o Append(b, f) = Append(a \o b, f)
           /\ \A k \in 0..Len(b) : (a \o SubSeq(b, 1, k)) \o SubSeq(b, k + 1, Len(b)) = a \o b
           /\ a # <<>> => a \o b # <<>> /\ Head(a \o b) = Head(a) /\ Tail(a) \o b = Tail(a \o b)
<1>1. a \o b \in Seq(AnyFrame) /\ a \o <<>> = a
  OBVIOUS
<1>2. ASSUME NEW f \in AnyFrame PROVE a \o Append(b, f) = Append(a \o b, f)
  OBVIOUS
<1>3. ASSUME NEW k \in 0..Len(b) PROVE (a \o SubSeq(b, 1, k)) \o SubSeq(b, k + 1, Len(b)) = a \o b
  <2> DEFINE u == SubSeq(b, 1, k)
             v == SubSeq(b, k + 1, Len(b))
             c == a \o u
             r == c \o v
             q == a \o b
  <2>1. Len(a) \in Nat /\ Len(b) \in Nat /\ k \in Nat /\ k <= Len(b)
    OBVIOUS
  <2>2. u \in Seq(AnyFrame) /\ Len(u) = k /\ \A j \in 1..k : u[j] = b[j]
    BY <2>1
  <2>3. v \in Seq(AnyFrame) /\ Len(v) = Len(b) - k /\ \A j \in 1..Len(v) : v[j] = b[j + k]
    BY RestAt, Zenon
  <2> HIDE DEF u, v
  <2>4. /\ c \in Seq(AnyFrame) /\ Len(c) = Len(a) + Len(u)
        /\ \A j \in 1..Len(a) : c[j] = a[j]
        /\ \A j \in 1..Len(u) : c[Len(a) + j] = u[j]
    BY <2>2, ConcatAt, Zenon
  <2>5. /\ q \in Seq(AnyFrame) /\ Len(q) = Len(a) + Len(b)
        /\ \A j \in 1..Len(a) : q[j] = a[j]
        /\ \A j \in 1..Len(b) : q[Len(a) + j] = b[j]
    BY ConcatAt, Zenon
  <2> HIDE DEF c, q
  <2>6. /\ r \in Seq(AnyFrame) /\ Len(r) = Len(c) + Len(v)
        /\ \A j \in 1..Len(c) : r[j] = c[j]
        /\ \A j \in 1..Len(v) : r[Len(c) + j] = v[j]
    BY <2>3, <2>4, ConcatAt, Zenon
  <2> HIDE DEF r
  <2>7. Len(c) = Len(a) + k /\ Len(r) = Len(a) + Len(b) /\ Len(r) = Len(q)
    BY <2>1, <2>2, <2>3, <2>4, <2>5, <2>6
  <2>8. ASSUME NEW j \in 1..Len(r) PROVE r[j] = q[j]
    <3>1. CASE j <= Len(a)
      <4>1. j \in 1..Len(a) /\ j \in 1..Len(c)
        BY <2>1, <2>7, <3>1
      <4>2. QED
        BY <2>4, <2>5, <2>6, <4>1, Zenon
    <3>2. CASE ~(j <= Len(a)) /\ j <= Len(c)
      <4>1. PICK n \in 1..k : j = Len(a) + n
        <5>1. j - Len(a) \in 1..k /\ j = Len(a) + (j - Len(a))
          BY <2>1, <2>7, <3>2
        <5>2. QED
          BY <5>1, Zenon
      <4>2. n \in 1..Len(u) /\ n \in 1..Len(b) /\ j \in 1..Len(c)
        BY <2>1, <2>2, <2>7, <3>2
      <4>3. r[j] = u[n] /\ q[j] = b[n]
        BY <2>4, <2>5, <2>6, <4>1, <4>2, Zenon
      <4>4. QED
        BY <2>2, <4>1, <4>3, Zenon
    <3>3. CASE ~(j <= Len(c))
      <4>1. PICK n \in 1..Len(v) : j = Len(c) + n
        <5>1. j - Len(c) \in 1..Len(v) /\ j = Len(c) + (j - Len(c))
          BY <2>1, <2>3, <2>7, <3>3
        <5>2. QED
          BY <5>1, Zenon
      <4>2. n + k \in 1..Len(b) /\ j = Len(a) + (n + k)
        BY <2>1, <2>3, <2>7, <4>1
      <4>3. r[j] = v[n] /\ q[j] = b[n + k]
        BY <2>5, <2>6, <4>1, <4>2, Zenon
      <4>4. QED
        BY <2>3, <4>1, <4>3, Zenon
    <3>4. QED
      BY <3>1, <3>2, <3>3, Zenon
  <2>9. r = q
    BY <2>5, <2>6, <2>7, <2>8, SameFrames, Zenon
  <2>10. QED
    BY <2>9, Zenon DEF r, c, q, u, v
<1>4. ASSUME a # <<>> PROVE a \o b # <<>> /\ Head(a \o b) = Head(a) /\ Tail(a) \o b = Tail(a \o b)
  BY <1>4, SMTT(30)
<1>5. QED
  BY <1>1, <1>2, <1>3, <1>4, Zenon

LEMMA WireAppend ==
    ASSUME NEW a \in Seq(AnyFrame), NEW b \in Seq(AnyFrame), NEW f \in AnyFrame
    PROVE  a \o Append(b, f) = Append(a \o b, f)
  OBVIOUS

(* What one step does to the frames in flight from e: nothing, ...         *)
Kept(e) == Wire(e)' = Wire(e)
(* ... a frame joins the end of the queue (HELLO never does, OPEN only by  *)
(* open_stream, ACK only by accept), ...                                   *)
Joined(e, f) ==
    /\ f \in AnyFrame /\ f[1] # "HELLO"
    /\ Wire(e)' = Append(Wire(e), f)
    /\ f[1] = "OPEN" => \E o \in Openers : e = "c" /\ OpenSend(o) /\ Up("c") /\ f = <<"OPEN", osid[o]>>
    /\ f[1] = "ACK" => \E i \in Sids : e = "s" /\ Accept(i) /\ f = <<"ACK", i>>
(* ... the peer reads the first one, ... *)
Taken(e) ==
    LET p == Peer(e) IN
    /\ rdr[p] = "run" /\ Wire(e) # <<>> /\ Frame(p) = Head(Wire(e))
    /\ Wire(e)' = Tail(Wire(e))
    /\ ReadHello(p) \/ ReadStop(p) \/ (~MustStop(p) /\ Frame(p)[1] # "HELLO")
(* ... or some of them are written to a connection that nobody reads.      *)
Thinned(e) ==
    /\ SocketGone(Peer(e))
    /\ In(Wire(e)') \subseteq In(Wire(e))
    /\ \A g : Once(Wire(e), g) => Once(Wire(e)', g)
Moved(e) == Kept(e) \/ Taken(e) \/ Thinned(e) \/ \E f : Joined(e, f)

(* A wire is a sequence of frames. *)
LEMMA WireType == QueueTypes => \A e \in Ends : /\ wq[e] \in Seq(AnyFrame) /\ net[e] \in Seq(AnyFrame)
                                                /\ Wire(e) \in Seq(AnyFrame)
<1> SUFFICES ASSUME QueueTypes, NEW e \in Ends
             PROVE  wq[e] \in Seq(AnyFrame) /\ net[e] \in Seq(AnyFrame) /\ Wire(e) \in Seq(AnyFrame)
  BY Zenon
<1>1. wq[e] \in Seq(AnyFrame) /\ net[e] \in Seq(AnyFrame)
  BY Zenon DEF QueueTypes
<1>2. QED
  BY <1>1, WireFacts, Zenon DEF Wire

(* What a handler queues goes to the end of its wire. *)
LEMMA WireJoin ==
    ASSUME QueueTypes, NEW e \in Ends, NEW f \in AnyFrame,
           wq' = wq \/ wq' = Queued(e, f) \/ wq' = Control(e, f)
                    \/ (wq' = ControlGoaway(e) /\ f = <<"GOAWAY", 0>>),
           NEW x \in Ends, net'[x] = net[x]
    PROVE  Kept(x) \/ (x = e /\ Wire(e)' = Append(Wire(e), f))
<1>1. wq' = wq \/ wq' = Queued(e, f)
  BY Zenon DEF Control, ControlGoaway
<1>2. CASE wq' = wq
  BY <1>2, Zenon DEF Kept, Wire
<1>3. CASE wq' = Queued(e, f) /\ x # e
  <2>1. wq'[x] = wq[x]
    BY <1>3, Zenon DEF Queued, QueueTypes
  <2>2. QED
    BY <2>1, Zenon DEF Kept, Wire
<1>4. CASE wq' = Queued(e, f) /\ x = e
  <2>1. wq'[e] = Append(wq[e], f)
    BY <1>4, ZenonT(30) DEF Queued, QueueTypes
  <2>2. wq[e] \in Seq(AnyFrame) /\ net[e] \in Seq(AnyFrame)
    BY WireType, Zenon
  <2>3. net[e] \o Append(wq[e], f) = Append(net[e] \o wq[e], f)
    BY <2>2, WireAppend, Zenon
  <2>4. Wire(e)' = net'[e] \o wq'[e]
    BY Zenon DEF Wire
  <2>5. QED
    BY <1>4, <2>1, <2>3, <2>4, Zenon DEF Wire
<1>5. QED
  BY <1>1, <1>2, <1>3, <1>4, Zenon

(* The reader takes the first frame of its peer's wire. *)
LEMMA WireRead ==
    ASSUME QueueTypes, NEW e \in Ends, CanRead(e), net' = Popped(e),
           wq'[Peer(e)] = wq[Peer(e)]
    PROVE  /\ Wire(Peer(e)) # <<>> /\ Frame(e) = Head(Wire(Peer(e)))
           /\ Wire(Peer(e))' = Tail(Wire(Peer(e)))
           /\ net'[e] = net[e]
<1>1. Peer(e) \in Ends /\ Peer(e) # e
  BY PeerFacts, Zenon
<1>2. net'[Peer(e)] = Tail(net[Peer(e)]) /\ net'[e] = net[e]
  BY <1>1, ZenonT(30) DEF Popped, QueueTypes
<1>3. wq[Peer(e)] \in Seq(AnyFrame) /\ net[Peer(e)] \in Seq(AnyFrame) /\ net[Peer(e)] # <<>>
  BY <1>1, WireType, Zenon DEF CanRead
<1>4. Wire(Peer(e))' = net'[Peer(e)] \o wq'[Peer(e)]
  BY Zenon DEF Wire
<1>5. /\ net[Peer(e)] \o wq[Peer(e)] # <<>>
      /\ Head(net[Peer(e)] \o wq[Peer(e)]) = Head(net[Peer(e)])
      /\ Tail(net[Peer(e)]) \o wq[Peer(e)] = Tail(net[Peer(e)] \o wq[Peer(e)])
  BY <1>3, WireFacts, Zenon
<1>6. QED
  BY <1>2, <1>4, <1>5, Zenon DEF Wire, Frame

(* The writer moves frames from its queue to the connection. *)
LEMMA WireWrite ==
    ASSUME QueueTypes, NEW e \in Ends, Writer(e), NEW x \in Ends
    PROVE  Kept(x) \/ Thinned(x)
<1>w. /\ wq[e] \in Seq(AnyFrame) /\ net[e] \in Seq(AnyFrame)
      /\ wq \in [Ends -> Seq(AnyFrame)] /\ net \in [Ends -> Seq(AnyFrame)]
  BY WireType, Zenon DEF QueueTypes
<1>n. Len(wq[e]) \in Nat
  BY <1>w
<1> DEFINE w == wq[e]
           rest(k) == SubSeq(w, k + 1, Len(w))
<1>m. rest(Len(w)) = <<>> /\ SubSeq(w, 1, Len(w)) = w
  BY <1>w, <1>n
<1> HIDE DEF w, rest
<1>1. ASSUME NEW k \in 0..Len(w), net' = Written(e, SubSeq(w, 1, k)), wq' = [wq EXCEPT ![e] = rest(k)]
      PROVE  Kept(x) \/ Thinned(x)
  <2>1. wq'[e] = rest(k) /\ \A y \in Ends : y # e => wq'[y] = wq[y]
    BY <1>1, <1>w, Zenon
  <2>2. \A y \in Ends : y # e => net'[y] = net[y]
    BY <1>1, <1>w, ZenonT(30) DEF Written
  <2>3. CASE x # e
    BY <2>1, <2>2, <2>3, Zenon DEF Kept, Wire
  <2>4. CASE x = e /\ SocketGone(Peer(e))
    <3>1. net'[e] = net[e]
      BY <1>1, <2>4, Zenon DEF Written
    <3>2. Wire(e)' = net[e] \o SubSeq(wq[e], k + 1, Len(wq[e])) /\ k \in 0..Len(wq[e])
      BY <1>1, <2>1, <3>1, Zenon DEF Wire, rest, w
    <3>3. /\ In(net[e] \o SubSeq(wq[e], k + 1, Len(wq[e]))) \subseteq In(net[e] \o wq[e])
          /\ \A g : Once(net[e] \o wq[e], g) => Once(net[e] \o SubSeq(wq[e], k + 1, Len(wq[e])), g)
      BY <1>w, <3>2, InDropped, Zenon
    <3>4. QED
      BY <2>4, <3>2, <3>3, Zenon DEF Thinned, Wire
  <2>5. CASE x = e /\ ~SocketGone(Peer(e))
    <3>1. net' = [net EXCEPT ![e] = net[e] \o SubSeq(w, 1, k)]
      BY <1>1, <2>5, Zenon DEF Written
    <3>2. net'[e] = net[e] \o SubSeq(w, 1, k)
      BY <1>w, <3>1, Zenon
    <3>3. Wire(e)' = (net[e] \o SubSeq(wq[e], 1, k)) \o SubSeq(wq[e], k + 1, Len(wq[e])) /\ k \in 0..Len(wq[e])
      BY <1>1, <2>1, <3>2, Zenon DEF Wire, rest, w
    <3>6. \A j \in 0..Len(wq[e]) :
             (net[e] \o SubSeq(wq[e], 1, j)) \o SubSeq(wq[e], j + 1, Len(wq[e])) = net[e] \o wq[e]
      BY <1>w, WireFacts, Zenon
    <3>4. Wire(e)' = net[e] \o wq[e]
      BY <3>3, <3>6, Zenon
    <3>5. QED
      BY <2>5, <3>4, Zenon DEF Kept, Wire
  <2>6. QED
    BY <2>3, <2>4, <2>5, Zenon
<1>2. CASE WriterLone(e) \/ (WriterCheck(e) /\ closed[e])
  <2>1. net' = Written(e, SubSeq(w, 1, Len(w))) /\ wq' = [wq EXCEPT ![e] = rest(Len(w))]
    <3>1. net' = Written(e, wq[e]) /\ wq' = [wq EXCEPT ![e] = <<>>]
      BY <1>2, Zenon DEF WriterLone, WriterCheck
    <3>2. QED
      BY <1>m, <3>1, Zenon DEF w
  <2>2. Len(w) \in 0..Len(w)
    BY <1>n DEF w
  <2>3. QED
    BY <1>1, <2>1, <2>2, Zenon
<1>3. CASE WriterCheck(e) /\ ~closed[e]
  BY <1>3, Zenon DEF WriterCheck, Kept, Wire
<1>4. CASE WriterBatch(e)
  <2>1. PICK k : /\ net' = Written(e, SubSeq(wq[e], 1, k))
                 /\ wq' = [wq EXCEPT ![e] = SubSeq(wq[e], k + 1, Len(wq[e]))]
                 /\ k = IF Len(wq[e]) < BatchMax THEN Len(wq[e]) ELSE BatchMax
    BY <1>4, Zenon DEF WriterBatch
  <2>2. k \in 0..Len(w)
    BY <1>n, <2>1, SessionAssumption DEF w
  <2>3. QED
    BY <1>1, <2>1, <2>2, Zenon DEF w, rest
<1>5. CASE WriterError(e)
  <2>1. net' = net /\ wq' = [wq EXCEPT ![e] = <<>>] /\ SocketGone(Peer(e))
    BY <1>5, Zenon DEF WriterError
  <2>2. net' = Written(e, SubSeq(w, 1, Len(w))) /\ wq' = [wq EXCEPT ![e] = rest(Len(w))]
    BY <1>m, <2>1, Zenon DEF Written
  <2>3. Len(w) \in 0..Len(w)
    BY <1>n DEF w
  <2>4. QED
    BY <1>1, <2>2, <2>3, Zenon
<1>6. QED
  BY <1>2, <1>3, <1>4, <1>5, Zenon DEF Writer

(* Every step moves each wire in one of the four ways. *)
LEMMA WireStep == TypeInv /\ [Next]_vars => \A x \in Ends : Moved(x)
<1> SUFFICES ASSUME TypeInv, [Next]_vars, NEW x \in Ends PROVE Moved(x)
  BY Zenon
<1>0. QueueTypes /\ IdTypes
  BY Zenon DEF TypeInv
<1>1. CASE UNCHANGED <<wq, net>>
  BY <1>1, Zenon DEF Moved, Kept, Wire
<1>f. /\ <<"PING", 0>> \in AnyFrame /\ <<"PONG", 0>> \in AnyFrame /\ <<"GOAWAY", 0>> \in AnyFrame
      /\ \A t \in {"OPEN", "ACK", "NACK", "FIN"}, i \in Nat : <<t, i>> \in AnyFrame
  BY FrameFacts, Zenon DEF Kinds
<1>k. /\ <<"PING", 0>>[1] = "PING" /\ <<"PONG", 0>>[1] = "PONG" /\ <<"GOAWAY", 0>>[1] = "GOAWAY"
      /\ \A t, i : <<t, i>>[1] = t
  BY Zenon
<1>q. ASSUME net' = net, NEW e \in Ends, NEW f \in AnyFrame,
             f[1] \in {"PING", "PONG", "GOAWAY", "NACK", "FIN"},
             wq' = wq \/ wq' = Queued(e, f) \/ wq' = Control(e, f)
                      \/ (wq' = ControlGoaway(e) /\ f = <<"GOAWAY", 0>>)
      PROVE  Moved(x)
  <2>1. Kept(x) \/ (x = e /\ Wire(e)' = Append(Wire(e), f))
    BY <1>0, <1>q, WireJoin, Zenon
  <2>2. f[1] # "HELLO" /\ f[1] # "OPEN" /\ f[1] # "ACK"
    BY <1>q, Zenon
  <2>3. QED
    BY <2>1, <2>2, Zenon DEF Moved, Joined
<1>r. ASSUME NEW e \in Ends, CanRead(e), net' = Popped(e), NEW f \in AnyFrame,
             f[1] \in {"PONG", "NACK"},
             ReadHello(e) \/ ReadStop(e) \/ (~MustStop(e) /\ Frame(e)[1] # "HELLO"),
             wq' = wq \/ wq' = Control(e, f)
      PROVE  Moved(x)
  <2>1. Peer(e) \in Ends /\ Peer(e) # e /\ Peer(Peer(e)) = e /\ (x = e \/ x = Peer(e))
    BY PeerFacts, Zenon
  <2>2. wq'[Peer(e)] = wq[Peer(e)]
    BY <1>0, <1>r, <2>1, Zenon DEF Control, Queued, QueueTypes
  <2>3. /\ Wire(Peer(e)) # <<>> /\ Frame(e) = Head(Wire(Peer(e)))
        /\ Wire(Peer(e))' = Tail(Wire(Peer(e)))
        /\ net'[e] = net[e]
    BY <1>0, <1>r, <2>2, WireRead, Zenon
  <2>4. CASE x = e
    <3>1. Kept(x) \/ (x = e /\ Wire(e)' = Append(Wire(e), f))
      BY <1>0, <1>r, <2>3, <2>4, WireJoin, Zenon
    <3>2. f[1] # "HELLO" /\ f[1] # "OPEN" /\ f[1] # "ACK"
      BY <1>r, Zenon
    <3>3. QED
      BY <3>1, <3>2, Zenon DEF Moved, Joined
  <2>5. CASE x = Peer(e)
    <3>1. rdr[e] = "run"
      BY <1>r, Zenon DEF CanRead
    <3>2. Taken(x)
      BY <1>r, <2>1, <2>3, <2>5, <3>1, Zenon DEF Taken
    <3>3. QED
      BY <3>2, Zenon DEF Moved
  <2>6. QED
    BY <2>1, <2>4, <2>5, Zenon
<1>2. ASSUME NEW e \in Ends, StartOk(e) \/ StartTimeout(e) \/ Teardown(e) \/ ReadEof(e)
      PROVE  Moved(x)
  BY <1>1, <1>2, Zenon DEF StartOk, StartTimeout, Teardown, TeardownSnap, TeardownClear,
                           TeardownAbort, TeardownReady, ReadEof
<1>3. ASSUME NEW e \in Ends, Close(e) \/ KeepalivePing(e) \/ KeepaliveTimeout(e)
      PROVE  Moved(x)
  <2>1. /\ net' = net
        /\ wq' = Queued(e, <<"PING", 0>>) \/ wq' = ControlGoaway(e)
    BY <1>3, Zenon DEF Close, KeepalivePing, KeepaliveTimeout
  <2>2. <<"PING", 0>>[1] \in {"PING", "PONG", "GOAWAY", "NACK", "FIN"}
        /\ <<"GOAWAY", 0>>[1] \in {"PING", "PONG", "GOAWAY", "NACK", "FIN"}
    BY Zenon
  <2>3. QED
    BY <1>f, <1>q, <2>1, <2>2, Zenon
<1>4. ASSUME NEW e \in Ends, Writer(e)
      PROVE  Moved(x)
  BY <1>0, <1>4, WireWrite, Zenon DEF Moved
<1>5. ASSUME NEW e \in Ends, ReadStop(e) \/ ReadHello(e) \/ ReadFin(e) \/ ReadPing(e) \/ ReadPong(e)
      PROVE  Moved(x)
  <2>1. /\ CanRead(e) /\ net' = Popped(e)
        /\ ReadHello(e) \/ ReadStop(e) \/ (~MustStop(e) /\ Frame(e)[1] \in {"FIN", "PING", "PONG"})
        /\ wq' = wq \/ wq' = Control(e, <<"PONG", 0>>)
    BY <1>5, Zenon DEF ReadStop, ReadHello, ReadFin, ReadPing, ReadPong
  <2>2. ReadHello(e) \/ ReadStop(e) \/ (~MustStop(e) /\ Frame(e)[1] # "HELLO")
    BY <2>1, Zenon
  <2>3. <<"PONG", 0>>[1] \in {"PONG", "NACK"}
    BY Zenon
  <2>4. QED
    BY <1>f, <1>r, <2>1, <2>2, <2>3, Zenon
<1>6. ASSUME ReadAck
      PROVE  Moved(x)
  <2>1. /\ "c" \in Ends /\ CanRead("c") /\ net' = Popped("c") /\ wq' = wq
        /\ ~MustStop("c") /\ Frame("c")[1] # "HELLO"
    BY <1>6, Zenon DEF ReadAck, Ends
  <2>2. <<"PONG", 0>>[1] \in {"PONG", "NACK"}
    BY Zenon
  <2>3. QED
    BY <1>f, <1>r, <2>1, <2>2, Zenon
<1>7. ASSUME ReadOpen \/ ReadOpenInsert
      PROVE  Moved(x)
  <2>1. CASE ReadOpenInsert
    BY <1>1, <2>1, Zenon DEF ReadOpenInsert
  <2>2. CASE ReadOpen
    <3>1. /\ "s" \in Ends /\ CanRead("s") /\ net' = Popped("s")
          /\ ~MustStop("s") /\ Frame("s")[1] # "HELLO"
      BY <2>2, Zenon DEF ReadOpen, Ends
    <3>2. Frame("s")[2] \in Nat
      BY <1>0, <3>1, ReadType, FrameFacts, Zenon
    <3>3. wq' = wq \/ wq' = Control("s", <<"NACK", Frame("s")[2]>>)
      BY <2>2, Zenon DEF ReadOpen
    <3>4. <<"NACK", Frame("s")[2]>>[1] \in {"PONG", "NACK"} /\ <<"NACK", Frame("s")[2]>> \in AnyFrame
      BY <1>f, <1>k, <3>2, Zenon
    <3>5. QED
      BY <1>r, <3>1, <3>3, <3>4, Zenon
  <2>3. QED
    BY <1>7, <2>1, <2>2, ZenonT(30)
<1>8. ASSUME NEW o \in Openers, \/ OpenCheck(o) \/ OpenInsert(o) \/ OpenAnswer(o)
                                \/ OpenerDrop(o)
      PROVE  Moved(x)
  <2>1. osid[o] \in Nat /\ "c" \in Ends
    BY <1>0, Zenon DEF IdTypes, Ends
  <2>2. <<"FIN", osid[o]>>[1] \in {"PING", "PONG", "GOAWAY", "NACK", "FIN"} /\ <<"FIN", osid[o]>> \in AnyFrame
    BY <1>f, <1>k, <2>1, Zenon
  <2>3. net' = net /\ (wq' = wq \/ wq' = Queued("c", <<"FIN", osid[o]>>))
    BY <1>8, Zenon DEF OpenCheck, OpenInsert, OpenAnswer, OpenerDrop, SendFin
  <2>4. QED
    BY <1>q, <2>1, <2>2, <2>3, Zenon
<1>o. ASSUME NEW o \in Openers, OpenSend(o)
      PROVE  Moved(x)
  <2>1. osid[o] \in Nat /\ "c" \in Ends
    BY <1>0, Zenon DEF IdTypes, Ends
  <2>2. <<"OPEN", osid[o]>> \in AnyFrame /\ <<"OPEN", osid[o]>>[1] = "OPEN"
    BY <1>f, <1>k, <2>1, Zenon
  <2>3. net' = net /\ (wq' = wq \/ (Up("c") /\ wq' = Queued("c", <<"OPEN", osid[o]>>)))
    BY <1>o, Zenon DEF OpenSend
  <2>4. CASE wq' = wq
    BY <1>1, <2>3, <2>4, Zenon
  <2>5. CASE Up("c") /\ wq' = Queued("c", <<"OPEN", osid[o]>>)
    <3>1. Kept(x) \/ (x = "c" /\ Wire("c")' = Append(Wire("c"), <<"OPEN", osid[o]>>))
      BY <1>0, <2>1, <2>2, <2>3, <2>5, WireJoin, Zenon
    <3>2. QED
      BY <1>o, <2>2, <2>5, <3>1, Zenon DEF Moved, Joined
  <2>6. QED
    BY <2>3, <2>4, <2>5, Zenon
<1>9. ASSUME NEW i \in Sids, Reject(i) \/ HandlerDrop(i)
      PROVE  Moved(x)
  <2>1. i \in Nat /\ "s" \in Ends
    BY SidsNat, Zenon DEF Ends
  <2>2. \A t \in {"NACK", "FIN"} : <<t, i>>[1] \in {"PING", "PONG", "GOAWAY", "NACK", "FIN"} /\ <<t, i>> \in AnyFrame
    BY <1>f, <1>k, <2>1, Zenon
  <2>3. /\ net' = net
        /\ wq' = wq \/ wq' = Control("s", <<"NACK", i>>) \/ wq' = Queued("s", <<"FIN", i>>)
    BY <1>9, Zenon DEF Reject, HandlerDrop, SendFin
  <2>4. QED
    BY <1>q, <2>1, <2>2, <2>3, Zenon
<1>a. ASSUME NEW i \in Sids, Accept(i)
      PROVE  Moved(x)
  <2>1. i \in Nat /\ "s" \in Ends
    BY SidsNat, Zenon DEF Ends
  <2>2. <<"ACK", i>> \in AnyFrame /\ <<"ACK", i>>[1] = "ACK"
    BY <1>f, <1>k, <2>1, Zenon
  <2>3. net' = net /\ wq' = Control("s", <<"ACK", i>>)
    BY <1>a, Zenon DEF Accept
  <2>4. Kept(x) \/ (x = "s" /\ Wire("s")' = Append(Wire("s"), <<"ACK", i>>))
    BY <1>0, <2>1, <2>2, <2>3, WireJoin, Zenon
  <2>5. QED
    BY <1>a, <2>2, <2>4, Zenon DEF Moved, Joined
<1>10. CASE UNCHANGED vars
  BY <1>1, <1>10, Zenon DEF vars
<1>11. QED
  BY <1>2, <1>3, <1>4, <1>5, <1>6, <1>7, <1>8, <1>o, <1>9, <1>a, <1>10, Zenon DEF Next, Reader

(* No HELLO among the frames; HELLO first and nowhere else. *)
NoHello(q) == \A f \in In(q) : f[1] # "HELLO"
FirstHello(q) == q # <<>> /\ Head(q)[1] = "HELLO" /\ NoHello(Tail(q))

(* A frame other than HELLO that joins a wire keeps HELLO where it is. *)
LEMMA HelloAppend ==
    ASSUME NEW q \in Seq(AnyFrame), NEW f \in AnyFrame, f[1] # "HELLO"
    PROVE  /\ NoHello(q) => NoHello(Append(q, f))
           /\ FirstHello(q) => FirstHello(Append(q, f))
<1>1. ASSUME NEW r \in Seq(AnyFrame), NoHello(r) PROVE NoHello(Append(r, f))
  <2>1. In(Append(r, f)) = In(r) \cup {f}
    BY InAppend, Zenon
  <2>2. QED
    BY <1>1, <2>1, Zenon DEF NoHello
<1>2. ASSUME FirstHello(q) PROVE FirstHello(Append(q, f))
  <2>1. q # <<>>
    BY <1>2, Zenon DEF FirstHello
  <2>2. Append(q, f) # <<>> /\ Head(Append(q, f)) = Head(q) /\ Tail(Append(q, f)) = Append(Tail(q), f)
        /\ Tail(q) \in Seq(AnyFrame)
    BY <2>1
  <2>3. QED
    BY <1>1, <1>2, <2>2, Zenon DEF FirstHello
<1>3. QED
  BY <1>1, <1>2, Zenon

(* No step adds a HELLO to a wire that has none. *)
LEMMA NoHelloMoved ==
    ASSUME QueueTypes, NEW e \in Ends, Moved(e), NoHello(Wire(e))
    PROVE  NoHello(Wire(e)')
<1>1. Wire(e) \in Seq(AnyFrame)
  BY WireType, Zenon
<1>2. CASE Kept(e)
  BY <1>2, Zenon DEF Kept
<1>3. CASE Taken(e)
  <2>1. Wire(e) # <<>> /\ Wire(e)' = Tail(Wire(e))
    BY <1>3, Zenon DEF Taken
  <2>2. In(Tail(Wire(e))) \subseteq In(Wire(e))
    BY <1>1, <2>1, InTail, Zenon
  <2>3. QED
    BY <2>1, <2>2, Zenon DEF NoHello
<1>4. CASE Thinned(e)
  <2>1. In(Wire(e)') \subseteq In(Wire(e))
    BY <1>4, Zenon DEF Thinned
  <2>2. QED
    BY <2>1, Zenon DEF NoHello
<1>5. ASSUME NEW f, Joined(e, f) PROVE NoHello(Wire(e)')
  <2>1. f \in AnyFrame /\ f[1] # "HELLO" /\ Wire(e)' = Append(Wire(e), f)
    BY <1>5, Zenon DEF Joined
  <2>2. NoHello(Append(Wire(e), f))
    BY <1>1, <2>1, HelloAppend, Zenon
  <2>3. QED
    BY <2>1, <2>2, Zenon
<1>6. QED
  BY <1>2, <1>3, <1>4, <1>5, Zenon DEF Moved

(* The flags of an end: closed is for good, the reader's end, a teardown   *)
(* and a start that failed come with closed, and only the peer's HELLO     *)
(* sets ready, only a teardown resets it.                                  *)
FlagMoves(p) ==
    /\ closed[p] => closed'[p]
    /\ rdr[p] = "exit" => rdr'[p] = "exit"
    /\ rdr'[p] = "exit" => rdr[p] = "exit" \/ closed'[p]
    /\ tdpc'[p] # "no" => tdpc[p] # "no" \/ closed'[p]
    /\ start'[p] = "ok" => start[p] = "ok" \/ (ready[p] /\ ready'[p])
    /\ \/ ready'[p] = ready[p]
       \/ ReadHello(p) /\ ready'[p] /\ tdpc'[p] = tdpc[p]
       \/ tdpc[p] = "ready" /\ ~ready'[p]
    /\ tdpc'[p] = "done" => tdpc[p] = "done" \/ ~ready'[p]
    /\ \/ closed'[p] = closed[p]
       \/ rdr'[p] = "exit" /\ closed'[p]
       \/ Close(p)
       \/ KeepaliveTimeout(p)

(* Every step moves the flags of an end like that. *)
LEMMA FlagsMove == TypeInv /\ [Next]_vars => \A p \in Ends : FlagMoves(p)
<1> SUFFICES ASSUME TypeInv, [Next]_vars, NEW p \in Ends PROVE FlagMoves(p)
  BY Zenon
<1>0. FlagTypes
  BY Zenon DEF TypeInv
<1>t. /\ ready \in [Ends -> BOOLEAN] /\ closed \in [Ends -> BOOLEAN]
      /\ start \in [Ends -> {"wait", "ok", "failed"}]
      /\ tdpc \in [Ends -> {"no", "snap", "clear", "abort", "ready", "done"}]
      /\ rdr \in [Ends -> {"run", "open", "exit"}]
  BY <1>0, Zenon DEF FlagTypes
<1>1. ASSUME ready'[p] = ready[p], closed'[p] = closed[p], start'[p] = start[p], tdpc'[p] = tdpc[p],
             rdr'[p] = rdr[p]
      PROVE  FlagMoves(p)
  BY <1>1, Zenon DEF FlagMoves
<1>e. ASSUME NEW e \in Ends, e # p,
             \E v : ready' = [ready EXCEPT ![e] = v] \/ ready' = ready,
             \E v : closed' = [closed EXCEPT ![e] = v] \/ closed' = closed,
             \E v : start' = [start EXCEPT ![e] = v] \/ start' = start,
             \E v : tdpc' = [tdpc EXCEPT ![e] = v] \/ tdpc' = tdpc,
             \E v : rdr' = [rdr EXCEPT ![e] = v] \/ rdr' = rdr
      PROVE  FlagMoves(p)
  BY <1>1, <1>e, <1>t, Zenon
<1>u. CASE UNCHANGED <<ready, closed, start, tdpc, rdr>>
  BY <1>u, <1>1, Zenon
<1>2. ASSUME NEW e \in Ends, StartOk(e)
      PROVE  FlagMoves(p)
  <2>1. ready[e] /\ start' = [start EXCEPT ![e] = "ok"] /\ UNCHANGED <<ready, closed, tdpc, tdset, rdr>>
    BY <1>2, Zenon DEF StartOk, flagVars
  <2>2. CASE e = p
    <3>1. ready'[p] = ready[p] /\ ready[p] /\ closed'[p] = closed[p] /\ tdpc'[p] = tdpc[p] /\ rdr'[p] = rdr[p]
      BY <2>1, <2>2, Zenon
    <3>2. QED
      BY <3>1, Zenon DEF FlagMoves
  <2>3. QED
    BY <1>e, <2>1, <2>2, Zenon
<1>3. ASSUME NEW e \in Ends, StartTimeout(e)
      PROVE  FlagMoves(p)
  <2>1. /\ ready' = ready /\ start' = [start EXCEPT ![e] = "failed"]
        /\ rdr' = [rdr EXCEPT ![e] = "exit"]
        /\ closed' = [closed EXCEPT ![e] = TRUE]
        /\ tdpc' = [tdpc EXCEPT ![e] = "snap"]
    BY <1>3, Zenon DEF StartTimeout
  <2>2. CASE e = p
    <3>1. ready'[p] = ready[p] /\ closed'[p] /\ start'[p] = "failed" /\ tdpc'[p] = "snap" /\ rdr'[p] = "exit"
      BY <1>t, <2>1, <2>2, Zenon
    <3>2. QED
      BY <3>1, Zenon DEF FlagMoves
  <2>3. QED
    BY <1>e, <2>1, <2>2, Zenon
<1>4. ASSUME NEW e \in Ends, Close(e) \/ KeepaliveTimeout(e)
      PROVE  FlagMoves(p)
  <2>1. /\ ready' = ready /\ start' = start /\ rdr' = rdr
        /\ closed' = [closed EXCEPT ![e] = TRUE]
        /\ tdpc' = [tdpc EXCEPT ![e] = "snap"]
    BY <1>4, Zenon DEF Close, KeepaliveTimeout
  <2>2. CASE e = p
    <3>1. ready'[p] = ready[p] /\ closed'[p] /\ start'[p] = start[p] /\ tdpc'[p] = "snap" /\ rdr'[p] = rdr[p]
      BY <1>t, <2>1, <2>2, Zenon
    <3>2. QED
      BY <1>4, <2>2, <3>1, Zenon DEF FlagMoves
  <2>3. QED
    BY <1>e, <2>1, <2>2, Zenon
<1>5. ASSUME NEW e \in Ends, ReadEof(e) \/ ReadStop(e)
      PROVE  FlagMoves(p)
  <2>1. /\ ready' = ready /\ start' = start
        /\ rdr' = [rdr EXCEPT ![e] = "exit"]
        /\ closed' = [closed EXCEPT ![e] = TRUE]
        /\ tdpc' = tdpc \/ tdpc' = [tdpc EXCEPT ![e] = "snap"]
    BY <1>5, Zenon DEF ReadEof, ReadStop, ReaderExit
  <2>2. CASE e = p
    <3>1. /\ ready'[p] = ready[p] /\ closed'[p] /\ start'[p] = start[p] /\ rdr'[p] = "exit"
          /\ tdpc'[p] = tdpc[p] \/ tdpc'[p] = "snap"
      BY <1>t, <2>1, <2>2, Zenon
    <3>2. QED
      BY <3>1, Zenon DEF FlagMoves
  <2>3. QED
    BY <1>e, <2>1, <2>2, Zenon
<1>6. ASSUME NEW e \in Ends, ReadHello(e)
      PROVE  FlagMoves(p)
  <2>1. ready' = [ready EXCEPT ![e] = TRUE] /\ UNCHANGED <<start, closed, tdpc, rdr>>
    BY <1>6, Zenon DEF ReadHello
  <2>2. CASE e = p
    <3>1. ready'[p] /\ closed'[p] = closed[p] /\ start'[p] = start[p] /\ rdr'[p] = rdr[p] /\ tdpc'[p] = tdpc[p]
      BY <1>t, <2>1, <2>2, Zenon
    <3>2. QED
      BY <1>6, <2>2, <3>1, Zenon DEF FlagMoves
  <2>3. QED
    BY <1>e, <2>1, <2>2, Zenon
<1>7. ASSUME ReadOpen \/ ReadOpenInsert
      PROVE  FlagMoves(p)
  <2>1. /\ UNCHANGED <<ready, closed, tdpc, start>> /\ rdr["s"] \in {"run", "open"}
        /\ rdr' = rdr \/ rdr' = [rdr EXCEPT !["s"] = "open"] \/ rdr' = [rdr EXCEPT !["s"] = "run"]
    BY <1>7, Zenon DEF ReadOpen, ReadOpenInsert, flagVars, CanRead
  <2>2. CASE p = "s"
    <3>1. /\ ready'[p] = ready[p] /\ closed'[p] = closed[p] /\ start'[p] = start[p] /\ tdpc'[p] = tdpc[p]
          /\ rdr'[p] \in {"run", "open"} /\ rdr[p] # "exit"
      BY <1>t, <2>1, <2>2, Zenon DEF Ends
    <3>2. rdr'[p] # "exit"
      BY <3>1, Zenon
    <3>3. QED
      BY <3>1, <3>2, Zenon DEF FlagMoves
  <2>3. "s" \in Ends
    BY Zenon DEF Ends
  <2>4. QED
    BY <1>e, <2>1, <2>2, <2>3, Zenon
<1>8. ASSUME NEW e \in Ends, Teardown(e)
      PROVE  FlagMoves(p)
  <2>1. /\ UNCHANGED <<start, closed, rdr>>
        /\ tdpc[e] \in {"snap", "clear", "abort", "ready"}
        /\ \/ ready' = ready /\ \E v \in {"clear", "abort", "ready"} : tdpc' = [tdpc EXCEPT ![e] = v]
           \/ /\ tdpc[e] = "ready" /\ ready' = [ready EXCEPT ![e] = FALSE]
              /\ tdpc' = [tdpc EXCEPT ![e] = "done"]
    BY <1>8, Zenon DEF Teardown, TeardownSnap, TeardownClear, TeardownAbort, TeardownReady
  <2>2. CASE e = p
    <3>1. /\ closed'[p] = closed[p] /\ start'[p] = start[p] /\ rdr'[p] = rdr[p] /\ tdpc[p] # "no"
          /\ \/ ready'[p] = ready[p] /\ tdpc'[p] \in {"clear", "abort", "ready"}
             \/ tdpc[p] = "ready" /\ ~ready'[p] /\ tdpc'[p] = "done"
      BY <1>t, <2>1, <2>2, Zenon
    <3>2. CASE ready'[p] = ready[p] /\ tdpc'[p] \in {"clear", "abort", "ready"}
      <4>1. tdpc'[p] # "done"
        BY <3>2, Zenon
      <4>2. QED
        BY <3>1, <3>2, <4>1, Zenon DEF FlagMoves
    <3>3. CASE tdpc[p] = "ready" /\ ~ready'[p] /\ tdpc'[p] = "done"
      BY <3>1, <3>3, Zenon DEF FlagMoves
    <3>4. QED
      BY <3>1, <3>2, <3>3, Zenon
  <2>3. QED
    BY <1>e, <2>1, <2>2, Zenon
<1>9. ASSUME NEW e \in Ends, \/ KeepalivePing(e) \/ Writer(e) \/ ReadFin(e) \/ ReadPing(e) \/ ReadPong(e)
                              \/ ReadAck
      PROVE  FlagMoves(p)
  BY <1>9, <1>u, Zenon DEF KeepalivePing, Writer, WriterLone, WriterBatch, WriterCheck, WriterError,
     ReadFin, ReadPing, ReadPong, ReadAck, flagVars
<1>10. ASSUME NEW o \in Openers, \/ OpenCheck(o) \/ OpenInsert(o) \/ OpenSend(o) \/ OpenAnswer(o)
                                 \/ OpenerDrop(o)
      PROVE  FlagMoves(p)
  BY <1>10, <1>u, Zenon DEF OpenCheck, OpenInsert, OpenSend, OpenAnswer, OpenerDrop, flagVars
<1>11. ASSUME NEW i \in Sids, Accept(i) \/ Reject(i) \/ HandlerDrop(i)
      PROVE  FlagMoves(p)
  BY <1>11, <1>u, Zenon DEF Accept, Reject, HandlerDrop, flagVars
<1>12. CASE UNCHANGED vars
  BY <1>12, <1>u, Zenon DEF vars, flagVars
<1>13. QED
  BY <1>2, <1>3, <1>4, <1>5, <1>6, <1>7, <1>8, <1>9, <1>10, <1>11, <1>12, Zenon DEF Next, Reader

(* The handshake, at each end.  Until the end has closed, HELLO is the     *)
(* first frame of its peer's wire and the only HELLO there; once the end   *)
(* has read it there is none.                                              *)
HelloAt(p) ==
    /\ rdr[p] = "exit" => closed[p]
    /\ tdpc[p] # "no" => closed[p]
    /\ start[p] = "ok" /\ ~closed[p] => ready[p]
    /\ ~closed[p] /\ ready[p] => NoHello(Wire(Peer(p)))
    /\ ~closed[p] /\ ~ready[p] => FirstHello(Wire(Peer(p)))
HelloInv == TypeInv /\ \A p \in Ends : HelloAt(p)

(* HELLO is queued before any task runs. *)
LEMMA HelloInit == Init => HelloInv
<1> SUFFICES ASSUME Init PROVE HelloInv
  BY Zenon
<1>1. ASSUME NEW p \in Ends PROVE HelloAt(p)
  <2>1. Peer(p) \in Ends
    BY PeerFacts, Zenon
  <2>2. /\ rdr[p] = "run" /\ tdpc[p] = "no" /\ start[p] = "wait" /\ ~ready[p]
        /\ wq[Peer(p)] = <<<<"HELLO", 0>>>> /\ net[Peer(p)] = <<>>
    BY <2>1, Zenon DEF Init, FirstFrames
  <2>3. <<>> \o <<<<"HELLO", 0>>>> = <<<<"HELLO", 0>>>>
    OBVIOUS
  <2>4. Wire(Peer(p)) = <<<<"HELLO", 0>>>>
    BY <2>2, <2>3, Zenon DEF Wire
  <2>5. /\ <<<<"HELLO", 0>>>> # <<>> /\ Head(<<<<"HELLO", 0>>>>)[1] = "HELLO"
        /\ Tail(<<<<"HELLO", 0>>>>) = <<>> /\ 1..Len(<<>>) = {}
    OBVIOUS
  <2>6. NoHello(<<>>)
    BY <2>5, Zenon DEF NoHello, In
  <2>7. FirstHello(Wire(Peer(p)))
    BY <2>4, <2>5, <2>6, Zenon DEF FirstHello
  <2>8. rdr[p] # "exit" /\ start[p] # "ok"
    BY <2>2, Zenon
  <2>9. QED
    BY <2>2, <2>7, <2>8, Zenon DEF HelloAt
<1>2. QED
  BY <1>1, TypeInit, Zenon DEF HelloInv

(* Every step keeps HELLO where the invariant says. *)
LEMMA HelloStep == HelloInv /\ [Next]_vars => HelloInv'
<1> SUFFICES ASSUME HelloInv, [Next]_vars PROVE HelloInv'
  BY Zenon
<1>0. TypeInv /\ TypeInv' /\ QueueTypes
  BY TypeStep, Zenon DEF HelloInv, TypeInv
<1>1. ASSUME NEW p \in Ends PROVE HelloAt(p)'
  <2> DEFINE e == Peer(p)
             w == Wire(Peer(p))
             v == Wire(Peer(p))'
  <2>1. Peer(p) \in Ends /\ Peer(Peer(p)) = p /\ w \in Seq(AnyFrame)
    BY <1>0, PeerFacts, WireType, Zenon
  <2>2. HelloAt(p) /\ FlagMoves(p) /\ Moved(Peer(p))
    BY <1>0, <2>1, FlagsMove, WireStep, Zenon DEF HelloInv
  <2>3. /\ rdr'[p] = "exit" => closed'[p]
        /\ tdpc'[p] # "no" => closed'[p]
        /\ start'[p] = "ok" /\ ~closed'[p] => ready'[p]
    BY <2>2, Zenon DEF HelloAt, FlagMoves
  <2>4. CASE closed'[p]
    BY <2>3, <2>4, Zenon DEF HelloAt
  <2>5. ASSUME ~closed'[p] PROVE HelloAt(p)'
    <3>1. ~closed[p] /\ tdpc[p] = "no" /\ rdr[p] # "exit" /\ rdr'[p] # "exit"
      BY <2>2, <2>3, <2>5, Zenon DEF HelloAt, FlagMoves
    <3>2. ready'[p] = ready[p] \/ (ReadHello(p) /\ ready'[p])
      <4>1. tdpc[p] # "ready"
        BY <3>1, Zenon
      <4>2. QED
        BY <2>2, <4>1, Zenon DEF FlagMoves
    <3>3. (ready[p] => NoHello(w)) /\ (~ready[p] => FirstHello(w))
      BY <2>2, <3>1, Zenon DEF HelloAt
    <3>4. CASE ready[p]
      <4>1. NoHello(v)
        BY <1>0, <2>1, <2>2, <3>3, <3>4, NoHelloMoved, Zenon
      <4>2. QED
        BY <2>3, <3>2, <3>4, <4>1, Zenon DEF HelloAt
    <3>5. CASE ~ready[p] /\ ReadHello(p)
      <4>1. v = Tail(w)
        <5>1. CanRead(p) /\ net' = Popped(p) /\ wq' = wq
          BY <3>5, Zenon DEF ReadHello
        <5>2. QED
          BY <1>0, <5>1, WireRead, Zenon
      <4>2. NoHello(v)
        BY <3>3, <3>5, <4>1, Zenon DEF FirstHello
      <4>3. ready'[p]
        <5>1. ready' = [ready EXCEPT ![p] = TRUE] /\ ready \in [Ends -> BOOLEAN]
          BY <1>0, <3>5, Zenon DEF ReadHello, TypeInv, FlagTypes
        <5>2. QED
          BY <5>1, Zenon
      <4>4. QED
        BY <2>3, <4>2, <4>3, Zenon DEF HelloAt
    <3>6. CASE ~ready[p] /\ ~ReadHello(p)
      <4>1. FirstHello(w) /\ ~ready'[p]
        BY <3>2, <3>3, <3>6, Zenon
      <4>2. ~Thinned(Peer(p))
        BY <2>1, <3>1, Zenon DEF Thinned, SocketGone
      <4>3. ~Taken(Peer(p))
        <5>1. SUFFICES ASSUME Taken(Peer(p)) PROVE FALSE
          BY Zenon
        <5>2. Frame(p) = Head(w) /\ (ReadStop(p) \/ (~MustStop(p) /\ Frame(p)[1] # "HELLO"))
          BY <2>1, <3>6, <5>1, Zenon DEF Taken
        <5>3. ~ReadStop(p)
          <6>1. SUFFICES ASSUME ReadStop(p) PROVE rdr'[p] = "exit"
            BY <3>1, Zenon
          <6>2. rdr' = [rdr EXCEPT ![p] = "exit"] /\ rdr \in [Ends -> {"run", "open", "exit"}]
            BY <1>0, <6>1, Zenon DEF ReadStop, ReaderExit, TypeInv, FlagTypes
          <6>3. QED
            BY <6>2, Zenon
        <5>4. QED
          BY <4>1, <5>2, <5>3, Zenon DEF FirstHello
      <4>4. FirstHello(v)
        <5>1. CASE Kept(Peer(p))
          BY <4>1, <5>1, Zenon DEF Kept
        <5>2. ASSUME NEW f, Joined(Peer(p), f) PROVE FirstHello(v)
          <6>1. f \in AnyFrame /\ f[1] # "HELLO" /\ v = Append(w, f)
            BY <5>2, Zenon DEF Joined
          <6>2. FirstHello(Append(w, f))
            BY <2>1, <4>1, <6>1, HelloAppend, Zenon
          <6>3. QED
            BY <6>1, <6>2, Zenon
        <5>3. QED
          BY <2>2, <4>2, <4>3, <5>1, <5>2, Zenon DEF Moved
      <4>5. QED
        BY <2>3, <4>1, <4>4, Zenon DEF HelloAt
    <3>7. QED
      BY <3>4, <3>5, <3>6, Zenon
  <2>6. QED
    BY <2>4, <2>5, Zenon
<1>2. QED
  BY <1>0, <1>1, Zenon DEF HelloInv

(* handle_frame never ends a session of two peers that run this code with  *)
(* "frame before HELLO" or "second HELLO": what stops a reader before its  *)
(* session is closed is GOAWAY.                                            *)
THEOREM SessionNoProtocolError == Spec => []NoProtocolError
<1>1. HelloInv => NoProtocolError
  <2>1. SUFFICES ASSUME HelloInv, NEW e \in Ends, CanRead(e), ~closed[e], MustStop(e)
                 PROVE  Frame(e)[1] = "GOAWAY"
    BY Zenon DEF NoProtocolError
  <2>2. Peer(e) \in Ends /\ HelloAt(e) /\ QueueTypes
    BY <2>1, PeerFacts, Zenon DEF HelloInv, TypeInv
  <2>3. wq[Peer(e)] \in Seq(AnyFrame) /\ net[Peer(e)] \in Seq(AnyFrame) /\ net[Peer(e)] # <<>>
        /\ Wire(Peer(e)) \in Seq(AnyFrame)
    BY <2>1, <2>2, WireType, Zenon DEF CanRead
  <2>4. Wire(Peer(e)) # <<>> /\ Head(Wire(Peer(e))) = Frame(e)
    BY <2>3, WireFacts, Zenon DEF Wire, Frame
  <2>5. Frame(e) \in In(Wire(Peer(e)))
    BY <2>3, <2>4, InTail, Zenon
  <2>6. QED
    BY <2>1, <2>2, <2>4, <2>5, Zenon DEF HelloAt, MustStop, NoHello, FirstHello
<1>2. QED
  BY <1>1, HelloInit, HelloStep, PTL DEF Spec

(* An end is closed by its reader, which is then gone, by close, which the *)
(* application calls once HELLO has been read, or by its keepalive; so,    *)
(* unless the keepalive was hasty, no HELLO sets ready again after the     *)
(* teardown.                                                               *)
WaitAt(p) ==
    p \notin hasty =>
        /\ closed[p] => rdr[p] = "exit" \/ NoHello(Wire(Peer(p)))
        /\ tdpc[p] = "done" => ~ready[p]
WaitInv == HelloInv /\ \A p \in Ends : WaitAt(p)

(* Only a keepalive that gives up before HELLO has come is hasty. *)
LEMMA HastyStep ==
    ASSUME [Next]_vars
    PROVE  \A p \in Ends : /\ p \in hasty => p \in hasty'
                           /\ KeepaliveTimeout(p) => ready[p] \/ p \in hasty'
<1>1. \A p \in Ends : KeepaliveTimeout(p) => ready[p] \/ p \in hasty'
  BY Zenon DEF KeepaliveTimeout
<1>2. (\E e \in Ends : KeepaliveTimeout(e)) \/ hasty' = hasty
  <2>1. ASSUME NEW e \in Ends, StartOk(e) \/ StartTimeout(e) \/ Close(e) \/ KeepalivePing(e)
        PROVE  hasty' = hasty
    BY <2>1, Zenon DEF StartOk, StartTimeout, Close, KeepalivePing, noteVars
  <2>2. ASSUME NEW e \in Ends, Writer(e) \/ Teardown(e)
        PROVE  hasty' = hasty
    BY <2>2, Zenon DEF Writer, WriterLone, WriterBatch, WriterCheck, WriterError, Teardown,
       TeardownSnap, TeardownClear, TeardownAbort, TeardownReady, noteVars
  <2>3. ASSUME NEW e \in Ends, Reader(e)
        PROVE  hasty' = hasty
    BY <2>3, Zenon DEF Reader, ReadEof, ReadStop, ReadHello, ReadFin, ReadPing, ReadPong, ReadOpen,
       ReadOpenInsert, ReadAck, noteVars
  <2>4. ASSUME NEW o \in Openers, \/ OpenCheck(o) \/ OpenInsert(o) \/ OpenSend(o) \/ OpenAnswer(o)
                                  \/ OpenerDrop(o)
        PROVE  hasty' = hasty
    BY <2>4, Zenon DEF OpenCheck, OpenInsert, OpenSend, OpenAnswer, OpenerDrop, noteVars
  <2>5. ASSUME NEW i \in Sids, Accept(i) \/ Reject(i) \/ HandlerDrop(i)
        PROVE  hasty' = hasty
    BY <2>5, Zenon DEF Accept, Reject, HandlerDrop, noteVars
  <2>6. CASE UNCHANGED vars
    BY <2>6, Zenon DEF vars, noteVars
  <2>7. QED
    BY <2>1, <2>2, <2>3, <2>4, <2>5, <2>6, Zenon DEF Next
<1>3. \A e \in Ends : KeepaliveTimeout(e) => hasty \subseteq hasty'
  BY Zenon DEF KeepaliveTimeout
<1>4. QED
  BY <1>1, <1>2, <1>3, Zenon

(* Nothing has been closed or torn down at the start. *)
LEMMA WaitInit == Init => WaitInv
<1> SUFFICES ASSUME Init PROVE WaitInv
  BY Zenon
<1>1. \A p \in Ends : ~closed[p] /\ ~ready[p]
  BY Zenon DEF Init
<1>2. QED
  BY <1>1, HelloInit, Zenon DEF WaitInv, WaitAt

(* Every step keeps a torn-down end from being made ready again. *)
LEMMA WaitStep == WaitInv /\ [Next]_vars => WaitInv'
<1> SUFFICES ASSUME WaitInv, [Next]_vars PROVE WaitInv'
  BY Zenon
<1>0. HelloInv /\ HelloInv' /\ TypeInv /\ QueueTypes
  BY HelloStep, Zenon DEF WaitInv, HelloInv, TypeInv
<1>1. ASSUME NEW p \in Ends, p \notin hasty'
      PROVE  /\ closed'[p] => rdr'[p] = "exit" \/ NoHello(Wire(Peer(p))')
             /\ tdpc'[p] = "done" => ~ready'[p]
  <2>1. p \notin hasty
    BY <1>1, HastyStep, Zenon
  <2>2. /\ closed[p] => rdr[p] = "exit" \/ NoHello(Wire(Peer(p)))
        /\ tdpc[p] = "done" => ~ready[p]
    BY <2>1, Zenon DEF WaitInv, WaitAt
  <2>3. Peer(p) \in Ends /\ HelloAt(p) /\ FlagMoves(p) /\ Moved(Peer(p))
    BY <1>0, PeerFacts, FlagsMove, WireStep, Zenon DEF HelloInv
  <2>4. KeepaliveTimeout(p) => ready[p]
    BY <1>1, HastyStep, Zenon
  <2>5. ASSUME closed'[p] PROVE rdr'[p] = "exit" \/ NoHello(Wire(Peer(p))')
    <3>1. CASE closed[p] /\ rdr[p] = "exit"
      BY <2>3, <3>1, Zenon DEF FlagMoves
    <3>2. CASE NoHello(Wire(Peer(p)))
      BY <1>0, <2>3, <3>2, NoHelloMoved, Zenon
    <3>3. CASE ~closed[p] /\ ~Close(p) /\ ~KeepaliveTimeout(p)
      BY <2>3, <2>5, <3>3, Zenon DEF FlagMoves
    <3>4. CASE ~closed[p] /\ Close(p)
      <4>1. start[p] = "ok"
        BY <3>4, Zenon DEF Close
      <4>2. NoHello(Wire(Peer(p)))
        BY <2>3, <3>4, <4>1, Zenon DEF HelloAt
      <4>3. QED
        BY <3>2, <4>2, Zenon
    <3>5. CASE KeepaliveTimeout(p)
      <4>1. NoHello(Wire(Peer(p)))
        BY <2>3, <2>4, <3>5, Zenon DEF HelloAt, KeepaliveTimeout, KeepaliveOn
      <4>2. QED
        BY <3>2, <4>1, Zenon
    <3>6. QED
      BY <2>2, <3>1, <3>2, <3>3, <3>4, <3>5, Zenon
  <2>6. ASSUME tdpc'[p] = "done" PROVE ~ready'[p]
    <3>1. CASE ReadHello(p) /\ tdpc'[p] = tdpc[p]
      <4>1. rdr[p] = "run" /\ CanRead(p) /\ net' = Popped(p) /\ wq' = wq /\ Frame(p)[1] = "HELLO"
        BY <3>1, Zenon DEF ReadHello, CanRead
      <4>2. Wire(Peer(p)) # <<>> /\ Frame(p) = Head(Wire(Peer(p)))
        BY <1>0, <4>1, WireRead, Zenon
      <4>3. Frame(p) \in In(Wire(Peer(p)))
        <5>1. Wire(Peer(p)) \in Seq(AnyFrame)
          BY <1>0, <2>3, WireType, Zenon
        <5>2. QED
          BY <4>2, <5>1, InTail, Zenon
      <4>4. ~NoHello(Wire(Peer(p)))
        BY <4>1, <4>3, Zenon DEF NoHello
      <4>5. rdr[p] # "exit" /\ tdpc[p] # "no"
        BY <2>6, <3>1, <4>1, Zenon
      <4>6. QED
        BY <2>2, <2>3, <4>4, <4>5, Zenon DEF HelloAt
    <3>2. CASE ~(ReadHello(p) /\ tdpc'[p] = tdpc[p])
      BY <2>2, <2>3, <2>6, <3>2, Zenon DEF FlagMoves
    <3>3. QED
      BY <3>1, <3>2, Zenon
  <2>7. QED
    BY <2>5, <2>6, Zenon
<1>2. QED
  BY <1>0, <1>1, Zenon DEF WaitInv, WaitAt

(* wait_closed resolves at every end that has been torn down, but for one  *)
(* whose keepalive gave up before HELLO: no HELLO that is read later sets  *)
(* the ready watch that the teardown has reset.                            *)
THEOREM SessionWaitClosedResolves == Spec => []WaitClosedResolves
<1>1. WaitInv => WaitClosedResolves
  BY Zenon DEF WaitInv, WaitAt, WaitClosedResolves
<1>2. QED
  BY <1>1, WaitInit, WaitStep, PTL DEF Spec

(* Where the teardown will find a handler that is still at work: in the    *)
(* map until the snapshot, then in the snapshot until its Abort was tried; *)
(* one taken after the snapshot is late.                                   *)
Reachable(i) ==
    \/ i \in told["s"] \/ i \in lost["s"] \/ i \in late
    \/ tdpc["s"] \in {"no", "snap"} /\ i \in streams["s"]
    \/ tdpc["s"] \in {"clear", "abort"} /\ i \in tdset["s"]
ServerTold == \A i \in Sids : hst[i] \in {"run", "acc"} => Reachable(i)
SetTypes == streams \in [Ends -> SUBSET Nat] /\ told \in [Ends -> SUBSET Nat]
            /\ tdset \in [Ends -> SUBSET Nat] /\ lost \in [Ends -> SUBSET Nat]
ToldInv == HelloInv /\ SetTypes /\ ServerTold

(* No handler runs at the start. *)
LEMMA ToldInit == Init => ToldInv
<1> SUFFICES ASSUME Init PROVE ToldInv
  BY Zenon
<1>1. SetTypes
  BY Zenon DEF Init, SetTypes
<1>2. tdpc["s"] = "no" /\ \A i \in Sids : hst[i] = "none"
  BY Zenon DEF Init, Ends
<1>3. ServerTold
  BY <1>2, Zenon DEF ServerTold
<1>4. QED
  BY <1>1, <1>3, HelloInit, Zenon DEF ToldInv

(* Every step keeps sets of ids in the maps. *)
LEMMA SetStep == SetTypes /\ TypeInv /\ [Next]_vars => SetTypes'
<1> SUFFICES ASSUME SetTypes, TypeInv, [Next]_vars PROVE SetTypes'
  BY Zenon
<1>0. IdTypes /\ QueueTypes
  BY Zenon DEF TypeInv
<1>t. streams \in [Ends -> SUBSET Nat] /\ told \in [Ends -> SUBSET Nat] /\ tdset \in [Ends -> SUBSET Nat]
      /\ lost \in [Ends -> SUBSET Nat]
  BY Zenon DEF SetTypes
<1>1. CASE UNCHANGED <<streams, told, tdset, lost>>
  BY <1>1, <1>t, Zenon DEF SetTypes
<1>s. ASSUME NEW e \in Ends, NEW S \in SUBSET Nat,
             \/ streams' = [streams EXCEPT ![e] = S] /\ UNCHANGED <<told, tdset, lost>>
             \/ told' = [told EXCEPT ![e] = S] /\ UNCHANGED <<streams, tdset, lost>>
             \/ tdset' = [tdset EXCEPT ![e] = S] /\ UNCHANGED <<streams, told, lost>>
      PROVE  SetTypes'
  BY <1>s, <1>t, Zenon DEF SetTypes
<1>2. ASSUME NEW e \in Ends, \/ StartOk(e) \/ StartTimeout(e) \/ Close(e) \/ KeepalivePing(e)
                             \/ KeepaliveTimeout(e) \/ Writer(e)
      PROVE  SetTypes'
  BY <1>1, <1>2, Zenon DEF StartOk, StartTimeout, Close, KeepalivePing, KeepaliveTimeout, Writer,
     WriterLone, WriterBatch, WriterCheck, WriterError, flagVars, noteVars
<1>3. ASSUME NEW e \in Ends, \/ ReadEof(e) \/ ReadStop(e) \/ ReadHello(e) \/ ReadPing(e) \/ ReadPong(e)
                             \/ ReadOpen \/ ReadAck
      PROVE  SetTypes'
  BY <1>1, <1>3, Zenon DEF ReadEof, ReadStop, ReadHello, ReadPing, ReadPong, ReadOpen, ReadAck,
     flagVars, noteVars
<1>4. ASSUME NEW e \in Ends, ReadFin(e)
      PROVE  SetTypes'
  <2>1. told' = [told EXCEPT ![e] = told[e] \cup ({Frame(e)[2]} \cap streams[e])]
        /\ UNCHANGED <<streams, tdset, lost>>
    BY <1>4, Zenon DEF ReadFin, flagVars, noteVars
  <2>2. told[e] \cup ({Frame(e)[2]} \cap streams[e]) \in SUBSET Nat
    BY <1>t, Zenon
  <2>3. QED
    BY <1>s, <2>1, <2>2, Zenon
<1>5. CASE ReadOpenInsert
  <2>1. streams' = [streams EXCEPT !["s"] = streams["s"] \cup {opening}] /\ UNCHANGED <<told, tdset, lost>>
    BY <1>5, Zenon DEF ReadOpenInsert, flagVars
  <2>2. streams["s"] \cup {opening} \in SUBSET Nat /\ "s" \in Ends
    BY <1>0, <1>t, Zenon DEF Ends, IdTypes
  <2>3. QED
    BY <1>s, <2>1, <2>2, Zenon
<1>6. ASSUME NEW e \in Ends, Teardown(e)
      PROVE  SetTypes'
  <2>1. CASE TeardownAbort(e)
    <3>1. PICK full \in SUBSET (tdset[e] \cap Fillable(e)) :
                 /\ told' = [told EXCEPT ![e] = told[e] \cup (tdset[e] \ full)]
                 /\ lost' = [lost EXCEPT ![e] = lost[e] \cup full]
      BY <2>1, Zenon DEF TeardownAbort
    <3>2. UNCHANGED <<streams, tdset>>
      BY <2>1, Zenon DEF TeardownAbort
    <3>3. told[e] \cup (tdset[e] \ full) \in SUBSET Nat /\ lost[e] \cup full \in SUBSET Nat
      BY <1>t, <3>1, Zenon
    <3>4. QED
      BY <1>t, <3>1, <3>2, <3>3, Zenon DEF SetTypes
  <2>2. CASE ~TeardownAbort(e)
    <3>1. \/ tdset' = [tdset EXCEPT ![e] = streams[e]] /\ UNCHANGED <<streams, told, lost>>
          \/ streams' = [streams EXCEPT ![e] = {}] /\ UNCHANGED <<told, tdset, lost>>
          \/ UNCHANGED <<streams, told, tdset, lost>>
      BY <1>6, <2>2, Zenon DEF Teardown, TeardownSnap, TeardownClear, TeardownReady, noteVars
    <3>2. streams[e] \in SUBSET Nat /\ {} \in SUBSET Nat
      BY <1>t, Zenon
    <3>3. QED
      BY <1>1, <1>s, <3>1, <3>2, Zenon
  <2>3. QED
    BY <2>1, <2>2, Zenon
<1>7. ASSUME NEW o \in Openers, \/ OpenCheck(o) \/ OpenSend(o)
      PROVE  SetTypes'
  BY <1>1, <1>7, Zenon DEF OpenCheck, OpenSend, flagVars, noteVars
<1>8. ASSUME NEW o \in Openers, \/ OpenInsert(o) \/ OpenAnswer(o) \/ OpenerDrop(o)
      PROVE  SetTypes'
  <2>1. /\ UNCHANGED <<told, tdset, lost>>
        /\ \/ streams' = streams
           \/ streams' = [streams EXCEPT !["c"] = streams["c"] \cup {osid[o]}]
           \/ streams' = [streams EXCEPT !["c"] = streams["c"] \ {osid[o]}]
    BY <1>8, Zenon DEF OpenInsert, OpenAnswer, OpenerDrop, Retired, flagVars, noteVars
  <2>2. streams["c"] \cup {osid[o]} \in SUBSET Nat /\ streams["c"] \ {osid[o]} \in SUBSET Nat /\ "c" \in Ends
    BY <1>0, <1>t, ZenonT(30) DEF Ends, IdTypes
  <2>3. QED
    BY <1>1, <1>s, <2>1, <2>2, Zenon
<1>9. ASSUME NEW i \in Sids, Accept(i) \/ Reject(i) \/ HandlerDrop(i)
      PROVE  SetTypes'
  <2>1. \/ UNCHANGED <<streams, told, tdset, lost>>
        \/ told' = [told EXCEPT !["s"] = told["s"] \cup {i}] /\ UNCHANGED <<streams, tdset, lost>>
        \/ streams' = [streams EXCEPT !["s"] = streams["s"] \ {i}] /\ UNCHANGED <<told, tdset, lost>>
    BY <1>9, Zenon DEF Accept, Reject, HandlerDrop, Retired, flagVars, noteVars
  <2>2. told["s"] \cup {i} \in SUBSET Nat /\ streams["s"] \ {i} \in SUBSET Nat /\ "s" \in Ends
    BY <1>t, SidsNat, Zenon DEF Ends
  <2>3. QED
    BY <1>1, <1>s, <2>1, <2>2, Zenon
<1>10. CASE UNCHANGED vars
  BY <1>1, <1>10, Zenon DEF vars, flagVars, noteVars
<1>11. QED
  BY <1>2, <1>3, <1>4, <1>5, <1>6, <1>7, <1>8, <1>9, <1>10, Zenon DEF Next, Reader

(* What the steps do to the server's side. *)
LEMMA ServerStep == ToldInv /\ [Next]_vars => ServerTold'
<1> SUFFICES ASSUME ToldInv, [Next]_vars PROVE ServerTold'
  BY Zenon
<1>0. TypeInv /\ FlagTypes /\ IdTypes /\ HelloAt("s") /\ "s" \in Ends /\ SetTypes /\ ServerTold
  <2>1. "s" \in Ends
    BY Zenon DEF Ends
  <2>2. QED
    BY <2>1, Zenon DEF ToldInv, HelloInv, TypeInv
<1>t. /\ tdpc \in [Ends -> {"no", "snap", "clear", "abort", "ready", "done"}]
      /\ hst \in [Sids -> {"none", "run", "acc", "rej", "accgone", "rejgone"}]
      /\ streams \in [Ends -> SUBSET Nat] /\ told \in [Ends -> SUBSET Nat] /\ tdset \in [Ends -> SUBSET Nat]
      /\ lost \in [Ends -> SUBSET Nat]
  BY <1>0, Zenon DEF FlagTypes, IdTypes, SetTypes
<1>1. ASSUME tdpc'["s"] = tdpc["s"], streams["s"] \subseteq streams'["s"],
             told["s"] \subseteq told'["s"], tdset'["s"] = tdset["s"], lost'["s"] = lost["s"], late' = late,
             \A i \in Sids : hst'[i] \in {"run", "acc"} => hst[i] \in {"run", "acc"}
      PROVE  ServerTold'
  <2>1. \A i \in Sids : Reachable(i) => Reachable(i)'
    BY <1>1, Zenon DEF Reachable
  <2>2. QED
    BY <1>0, <1>1, <2>1, Zenon DEF ServerTold
<1>e. ASSUME NEW e \in Ends, e # "s",
             \E v : tdpc' = [tdpc EXCEPT ![e] = v] \/ tdpc' = tdpc,
             \E v : streams' = [streams EXCEPT ![e] = v] \/ streams' = streams,
             \E v : told' = [told EXCEPT ![e] = v] \/ told' = told,
             \E v : tdset' = [tdset EXCEPT ![e] = v] \/ tdset' = tdset,
             \E v : lost' = [lost EXCEPT ![e] = v] \/ lost' = lost,
             late' = late, hst' = hst
      PROVE  ServerTold'
  <2>1. tdpc'["s"] = tdpc["s"] /\ streams'["s"] = streams["s"]
        /\ told'["s"] = told["s"] /\ tdset'["s"] = tdset["s"] /\ lost'["s"] = lost["s"]
    BY <1>0, <1>e, <1>t, Zenon
  <2>2. QED
    BY <1>1, <1>e, <2>1, Zenon
<1>u. CASE UNCHANGED <<tdpc, streams, told, tdset, hst, lost, late>>
  BY <1>u, <1>1, Zenon
<1>2. ASSUME NEW e \in Ends, \/ StartTimeout(e) \/ ReadEof(e) \/ ReadStop(e) \/ Close(e)
                             \/ KeepaliveTimeout(e)
      PROVE  ServerTold'
  <2>1. /\ UNCHANGED <<streams, told, tdset, hst, lost, late>>
        /\ tdpc' = tdpc \/ (tdpc' = [tdpc EXCEPT ![e] = "snap"] /\ (tdpc[e] \in {"no", "done"} \/ ~closed[e]))
    <3>1. CASE StartTimeout(e) \/ ReadEof(e) \/ ReadStop(e)
      BY <3>1, Zenon DEF StartTimeout, ReadEof, ReadStop, ReaderExit, handVars, noteVars
    <3>2. CASE Close(e) \/ KeepaliveTimeout(e)
      BY <3>2, Zenon DEF Close, KeepaliveTimeout, KeepaliveOn, handVars, noteVars
    <3>3. QED
      BY <1>2, <3>1, <3>2, Zenon
  <2>2. CASE e = "s"
    <3>1. tdpc'["s"] = tdpc["s"] \/ (tdpc'["s"] = "snap" /\ (tdpc["s"] \in {"no", "done"} \/ ~closed["s"]))
      BY <1>0, <1>t, <2>1, <2>2, Zenon
    <3>2. tdpc'["s"] = tdpc["s"] \/ (tdpc'["s"] = "snap" /\ tdpc["s"] \in {"no", "done"})
      <4>1. ~closed["s"] => tdpc["s"] = "no"
        BY <1>0, Zenon DEF HelloAt
      <4>2. QED
        BY <3>1, <4>1, Zenon
    <3>3. CASE tdpc'["s"] = tdpc["s"]
      BY <1>1, <2>1, <3>3, Zenon
    <3>4. CASE tdpc'["s"] = "snap" /\ tdpc["s"] \in {"no", "done"}
      <4>1. tdpc["s"] \notin {"clear", "abort"}
        BY <3>4, Zenon
      <4>2. \A i \in Sids : Reachable(i) => Reachable(i)'
        BY <2>1, <3>4, <4>1, Zenon DEF Reachable
      <4>3. QED
        BY <1>0, <2>1, <4>2, Zenon DEF ServerTold
    <3>5. QED
      BY <3>2, <3>3, <3>4, Zenon
  <2>3. QED
    BY <1>e, <2>1, <2>2, Zenon
<1>4. ASSUME NEW e \in Ends, \/ StartOk(e) \/ KeepalivePing(e) \/ Writer(e)
                             \/ ReadHello(e) \/ ReadPing(e) \/ ReadPong(e) \/ ReadAck
                             \/ ReadOpen
      PROVE  ServerTold'
  BY <1>4, <1>u, Zenon DEF StartOk, KeepalivePing, Writer, WriterLone, WriterBatch, WriterCheck,
     WriterError, ReadHello, ReadPing, ReadPong, ReadAck, ReadOpen, flagVars, handVars, noteVars
<1>5. ASSUME NEW e \in Ends, ReadFin(e)
      PROVE  ServerTold'
  <2>1. /\ UNCHANGED <<streams, tdpc, tdset, hst, lost, late>>
        /\ told' = [told EXCEPT ![e] = told[e] \cup ({Frame(e)[2]} \cap streams[e])]
    BY <1>5, Zenon DEF ReadFin, flagVars, handVars, noteVars
  <2>2. told["s"] \subseteq told'["s"]
    BY <1>0, <1>t, <2>1, Zenon
  <2>3. QED
    BY <1>1, <2>1, <2>2, Zenon
<1>7. CASE ReadOpenInsert
  <2>1. /\ UNCHANGED <<told, tdpc, tdset, lost>>
        /\ streams' = [streams EXCEPT !["s"] = streams["s"] \cup {opening}]
        /\ hst' = [hst EXCEPT ![opening] = "run"]
        /\ late' = IF tdpc["s"] \in {"no", "snap"} THEN late ELSE late \cup {opening}
    BY <1>7, Zenon DEF ReadOpenInsert, flagVars
  <2>2. streams'["s"] = streams["s"] \cup {opening}
    BY <1>0, <1>t, <2>1, Zenon
  <2>3. \A i \in Sids : i = opening \/ hst'[i] = hst[i]
    BY <1>t, <2>1, Zenon
  <2>4. late \subseteq late'
    <3>1. late' = late \/ late' = late \cup {opening}
      BY <2>1, Zenon
    <3>2. QED
      BY <3>1, Zenon
  <2>5. ASSUME NEW i \in Sids, Reachable(i) PROVE Reachable(i)'
    BY <2>1, <2>2, <2>4, <2>5, Zenon DEF Reachable
  <2>6. ASSUME NEW i \in Sids, i = opening PROVE Reachable(i)'
    <3>1. CASE tdpc["s"] \in {"no", "snap"}
      BY <2>1, <2>2, <2>6, <3>1, Zenon DEF Reachable
    <3>2. CASE tdpc["s"] \notin {"no", "snap"}
      <4>1. late' = late \cup {opening}
        BY <2>1, <3>2, Zenon
      <4>2. QED
        BY <2>6, <4>1, Zenon DEF Reachable
    <3>3. QED
      BY <3>1, <3>2, Zenon
  <2>7. QED
    BY <1>0, <2>3, <2>5, <2>6, Zenon DEF ServerTold
<1>8. ASSUME NEW e \in Ends, Teardown(e)
      PROVE  ServerTold'
  <2>1. CASE e # "s"
    BY <1>8, <1>e, <2>1, Zenon DEF Teardown, TeardownSnap, TeardownClear, TeardownAbort, TeardownReady,
       handVars, noteVars
  <2>2. CASE e = "s"
    <3>0. hst' = hst /\ late' = late
      BY <1>8, <2>2, Zenon DEF Teardown, TeardownSnap, TeardownClear, TeardownAbort, TeardownReady,
         handVars, noteVars
    <3>1. CASE TeardownSnap("s")
      <4>1. tdset'["s"] = streams["s"] /\ tdpc["s"] = "snap" /\ tdpc'["s"] = "clear" /\ told' = told /\ lost' = lost
        BY <1>0, <1>t, <3>1, Zenon DEF TeardownSnap, noteVars
      <4>2. \A i \in Sids : Reachable(i) => Reachable(i)'
        BY <3>0, <4>1, Zenon DEF Reachable
      <4>3. QED
        BY <1>0, <3>0, <4>2, Zenon DEF ServerTold
    <3>2. CASE TeardownClear("s")
      <4>1. tdset'["s"] = tdset["s"] /\ tdpc["s"] = "clear" /\ tdpc'["s"] = "abort" /\ told' = told /\ lost' = lost
        BY <1>0, <1>t, <3>2, Zenon DEF TeardownClear, noteVars
      <4>2. \A i \in Sids : Reachable(i) => Reachable(i)'
        BY <3>0, <4>1, Zenon DEF Reachable
      <4>3. QED
        BY <1>0, <3>0, <4>2, Zenon DEF ServerTold
    <3>3. CASE TeardownAbort("s")
      <4>1. PICK full \in SUBSET (tdset["s"] \cap Fillable("s")) :
                   /\ told' = [told EXCEPT !["s"] = told["s"] \cup (tdset["s"] \ full)]
                   /\ lost' = [lost EXCEPT !["s"] = lost["s"] \cup full]
        BY <3>3, Zenon DEF TeardownAbort
      <4>2. /\ told'["s"] = told["s"] \cup (tdset["s"] \ full) /\ lost'["s"] = lost["s"] \cup full
            /\ tdpc["s"] \notin {"no", "snap"}
        BY <1>0, <1>t, <3>3, <4>1, Zenon DEF TeardownAbort
      <4>4. \A i \in Sids : Reachable(i) => Reachable(i)'
        BY <3>0, <4>2, Zenon DEF Reachable
      <4>3. QED
        BY <1>0, <3>0, <4>4, Zenon DEF ServerTold
    <3>4. CASE TeardownReady("s")
      <4>1. told' = told /\ lost' = lost /\ tdpc["s"] \notin {"no", "snap", "clear", "abort"}
        BY <3>4, Zenon DEF TeardownReady, noteVars
      <4>2. \A i \in Sids : Reachable(i) => Reachable(i)'
        BY <3>0, <4>1, Zenon DEF Reachable
      <4>3. QED
        BY <1>0, <3>0, <4>2, Zenon DEF ServerTold
    <3>5. QED
      BY <1>8, <2>2, <3>1, <3>2, <3>3, <3>4, Zenon DEF Teardown
  <2>3. QED
    BY <2>1, <2>2, Zenon
<1>9. ASSUME NEW o \in Openers, \/ OpenCheck(o) \/ OpenInsert(o) \/ OpenSend(o) \/ OpenAnswer(o)
                                \/ OpenerDrop(o)
      PROVE  ServerTold'
  <2>1. /\ UNCHANGED <<told, tdset, tdpc, hst, lost, late>>
        /\ \E v : streams' = [streams EXCEPT !["c"] = v] \/ streams' = streams
    BY <1>9, Zenon DEF OpenCheck, OpenInsert, OpenSend, OpenAnswer, OpenerDrop, Retired, flagVars, handVars,
       noteVars
  <2>2. "c" \in Ends /\ "c" # "s"
    BY Zenon DEF Ends
  <2>3. QED
    BY <1>e, <2>1, <2>2, Zenon
<1>10. ASSUME NEW i \in Sids, Accept(i)
      PROVE  ServerTold'
  <2>1. /\ UNCHANGED <<told, tdset, tdpc, streams, lost, late>>
        /\ hst[i] = "run" /\ hst' = [hst EXCEPT ![i] = "acc"]
    BY <1>10, Zenon DEF Accept, flagVars, noteVars
  <2>2. \A j \in Sids : hst'[j] \in {"run", "acc"} => hst[j] \in {"run", "acc"}
    BY <1>t, <2>1, Zenon
  <2>3. QED
    BY <1>1, <2>1, <2>2, Zenon
<1>11. ASSUME NEW i \in Sids, Reject(i)
      PROVE  ServerTold'
  <2>1. /\ UNCHANGED <<tdset, tdpc, streams, lost, late>> /\ hst' = [hst EXCEPT ![i] = "rej"]
        /\ told' = [told EXCEPT !["s"] = told["s"] \cup {i}]
    BY <1>11, Zenon DEF Reject, flagVars, noteVars
  <2>2. \A j \in Sids : hst'[j] \in {"run", "acc"} => hst[j] \in {"run", "acc"}
    BY <1>t, <2>1, Zenon
  <2>3. told["s"] \subseteq told'["s"]
    BY <1>0, <1>t, <2>1, Zenon
  <2>4. QED
    BY <1>1, <2>1, <2>2, <2>3, Zenon
<1>12. ASSUME NEW i \in Sids, HandlerDrop(i)
      PROVE  ServerTold'
  <2>1. /\ UNCHANGED <<tdset, tdpc, told, lost, late>>
        /\ hst' = [hst EXCEPT ![i] = IF hst[i] = "acc" THEN "accgone" ELSE "rejgone"]
        /\ streams' = [streams EXCEPT !["s"] = streams["s"] \ {i}]
    BY <1>12, Zenon DEF HandlerDrop, Retired, flagVars, noteVars
  <2>2. \A j \in Sids : hst'[j] \in {"run", "acc"} => hst[j] \in {"run", "acc"} /\ j # i
    BY <1>t, <2>1, Zenon
  <2>3. streams'["s"] = streams["s"] \ {i}
    BY <1>0, <1>t, <2>1, Zenon
  <2>4. \A j \in Sids : j # i => (Reachable(j) => Reachable(j)')
    BY <2>1, <2>3, Zenon DEF Reachable
  <2>5. QED
    BY <1>0, <2>2, <2>4, Zenon DEF ServerTold
<1>13. CASE UNCHANGED vars
  BY <1>13, <1>u, Zenon DEF vars, flagVars, handVars, noteVars
<1>14. QED
  BY <1>2, <1>4, <1>5, <1>7, <1>8, <1>9, <1>10, <1>11, <1>12, <1>13, Zenon DEF Next, Reader

(* Every step keeps the running handlers within reach of the teardown. *)
LEMMA ToldStep == ToldInv /\ [Next]_vars => ToldInv'
  BY HelloStep, SetStep, ServerStep, Zenon DEF ToldInv, HelloInv

(* However the server's session ends, the teardown tries to abort every    *)
(* stream whose handler is still at work, whatever the order of its lock   *)
(* scopes and the OPENs that the reader was registering: what it cannot    *)
(* reach is a stream with a full queue or one taken after its snapshot.    *)
THEOREM SessionHandlersTold == Spec => []HandlersTold
<1>1. ToldInv => HandlersTold
  <2>1. SUFFICES ASSUME ServerTold, tdpc["s"] = "done", NEW i \in Sids, hst[i] \in {"run", "acc"}
                 PROVE  i \in told["s"] \cup lost["s"] \cup late
    BY Zenon DEF ToldInv, HandlersTold
  <2>2. Reachable(i)
    BY <2>1, Zenon DEF ServerTold
  <2>3. QED
    BY <2>1, <2>2, Zenon DEF Reachable
<1>2. QED
  BY <1>1, ToldInit, ToldStep, PTL DEF Spec

(* An opener that has handed its OPEN to the session. *)
Sent(o) == ost[o] \in {"wait", "open", "failed", "gone"} /\ osid[o] # 0

(* next_id hands out fresh ids. *)
Ids ==
    /\ next_id >= 1
    /\ \A o \in Openers : /\ osid[o] < next_id
                          /\ ost[o] = "idle" => osid[o] = 0
                          /\ ost[o] \in {"checked", "insert", "wait", "open", "failed"} => osid[o] # 0
    /\ \A o, p \in Openers : osid[o] = osid[p] /\ osid[o] # 0 => o = p

(* What a step does to the openers. *)
LEMMA OpenerStep ==
    ASSUME TypeInv, Ids, [Next]_vars
    PROVE  /\ Ids'
           /\ \A o \in Openers : /\ Sent(o) => Sent(o)' /\ osid'[o] = osid[o]
                                 /\ ost[o] # "idle" => osid'[o] = osid[o]
                                 /\ OpenSend(o) /\ Up("c") => Sent(o)' /\ ~Sent(o)
           /\ \A o \in Openers : ost'[o] = "open" => ost[o] = "open" \/ ack'[o] = "ok"
<1>0. IdTypes
  BY Zenon DEF TypeInv
<1>t. /\ next_id \in Nat /\ osid \in [Openers -> Nat]
      /\ ost \in [Openers -> {"idle", "checked", "insert", "wait", "open", "failed", "gone"}]
  BY <1>0, Zenon DEF IdTypes
<1> DEFINE Goal ==
      /\ Ids'
      /\ \A o \in Openers : /\ Sent(o) => Sent(o)' /\ osid'[o] = osid[o]
                            /\ ost[o] # "idle" => osid'[o] = osid[o]
                            /\ OpenSend(o) /\ Up("c") => Sent(o)' /\ ~Sent(o)
      /\ \A o \in Openers : ost'[o] = "open" => ost[o] = "open" \/ ack'[o] = "ok"
<1>n. ASSUME NEW o \in Openers, OpenSend(o) PROVE ost[o] = "insert" /\ ost'[o] \in {"wait", "failed"} /\ osid' = osid
  <2>1. ost[o] = "insert" /\ osid' = osid /\ \E v \in {"wait", "failed"} : ost' = [ost EXCEPT ![o] = v]
    BY <1>n, Zenon DEF OpenSend
  <2>2. QED
    BY <1>t, <2>1, Zenon
<1>m. ASSUME NEW o \in Openers, OpenSend(o) PROVE Sent(o)' /\ ~Sent(o)
  BY <1>n, <1>m, Zenon DEF Ids, Sent
<1>1. CASE UNCHANGED <<next_id, ost, osid>>
  BY <1>1, <1>m, Zenon DEF Ids, Sent
<1>2. ASSUME NEW e \in Ends, \/ StartOk(e) \/ StartTimeout(e) \/ Close(e) \/ KeepalivePing(e)
                             \/ KeepaliveTimeout(e) \/ Writer(e) \/ Teardown(e)
      PROVE  Goal
  BY <1>1, <1>2, Zenon DEF StartOk, StartTimeout, Close, KeepalivePing, KeepaliveTimeout, Writer,
     WriterLone, WriterBatch, WriterCheck, WriterError, Teardown, TeardownSnap, TeardownClear,
     TeardownAbort, TeardownReady, openVars
<1>3. ASSUME NEW e \in Ends, Reader(e)
      PROVE  Goal
  BY <1>1, <1>3, Zenon DEF Reader, ReadEof, ReadStop, ReadHello, ReadFin, ReadPing, ReadPong, ReadOpen,
     ReadOpenInsert, ReadAck, openVars
<1>4. ASSUME NEW i \in Sids, Accept(i) \/ Reject(i) \/ HandlerDrop(i)
      PROVE  Goal
  BY <1>1, <1>4, Zenon DEF Accept, Reject, HandlerDrop, openVars
<1>5. ASSUME NEW o \in Openers, OpenCheck(o)
      PROVE  Goal
  <2>1. /\ ost[o] = "idle"
        /\ \/ ost' = [ost EXCEPT ![o] = "gone"] /\ UNCHANGED <<next_id, osid>>
           \/ /\ ost' = [ost EXCEPT ![o] = "checked"]
              /\ osid' = [osid EXCEPT ![o] = next_id] /\ next_id' = next_id + 2
    BY <1>5, Zenon DEF OpenCheck
  <2>2. osid[o] = 0 /\ ~Sent(o)
    BY <2>1, Zenon DEF Ids, Sent
  <2>3. \A q \in Openers : q # o => ost'[q] = ost[q] /\ osid'[q] = osid[q]
    BY <1>t, <2>1, Zenon
  <2>4. ~OpenSend(o) /\ ost'[o] # "open"
    BY <1>n, <1>t, <2>1, Zenon
  <2>5. Ids'
    <3>1. CASE ost' = [ost EXCEPT ![o] = "gone"] /\ UNCHANGED <<next_id, osid>>
      <4>1. ost'[o] = "gone"
        BY <1>t, <3>1, Zenon
      <4>2. QED
        BY <2>1, <2>2, <2>3, <3>1, <4>1, ZenonT(30) DEF Ids
    <3>2. CASE /\ ost' = [ost EXCEPT ![o] = "checked"]
               /\ osid' = [osid EXCEPT ![o] = next_id] /\ next_id' = next_id + 2
      <4>1. osid'[o] = next_id /\ next_id' = next_id + 2 /\ ost'[o] = "checked"
        BY <1>t, <3>2, Zenon
      <4>2. \A q \in Openers : osid'[q] < next_id' /\ (q # o => osid'[q] < osid'[o])
        BY <1>t, <2>3, <4>1, SMTT(30) DEF Ids
      <4>3. \A q, r \in Openers : osid'[q] = osid'[r] /\ osid'[q] # 0 => q = r
        <5>1. SUFFICES ASSUME NEW q \in Openers, NEW r \in Openers, osid'[q] = osid'[r], osid'[q] # 0
                       PROVE  q = r
          BY Zenon
        <5>2. CASE q = o \/ r = o
          <6>1. osid'[o] \in Nat
            BY <1>t, <4>1, Zenon
          <6>2. ~(osid'[o] < osid'[o])
            BY <6>1
          <6>3. QED
            BY <4>2, <5>1, <5>2, <6>2, Zenon
        <5>3. CASE q # o /\ r # o
          <6>1. osid[q] = osid[r] /\ osid[q] # 0
            BY <2>3, <5>1, <5>3, Zenon
          <6>2. QED
            BY <6>1, Zenon DEF Ids
        <5>4. QED
          BY <5>2, <5>3, Zenon
      <4>4. \A q \in Openers : /\ ost'[q] = "idle" => osid'[q] = 0
                               /\ ost'[q] \in {"checked", "insert", "wait", "open", "failed"} => osid'[q] # 0
        <5>1. ASSUME NEW q \in Openers, q # o
              PROVE  /\ ost'[q] = "idle" => osid'[q] = 0
                     /\ ost'[q] \in {"checked", "insert", "wait", "open", "failed"} => osid'[q] # 0
          <6>1. osid'[q] = osid[q] /\ ost'[q] = ost[q]
            BY <2>3, <5>1, Zenon
          <6>2. QED
            BY <6>1, Zenon DEF Ids
        <5>2. ost'[o] # "idle" /\ osid'[o] # 0
          BY <1>t, <4>1 DEF Ids
        <5>3. QED
          BY <5>1, <5>2, Zenon
      <4>5. next_id' >= 1
        BY <1>t, <4>1 DEF Ids
      <4>6. QED
        BY <4>2, <4>3, <4>4, <4>5, Zenon DEF Ids
    <3>3. QED
      BY <2>1, <3>1, <3>2, Zenon
  <2>6. QED
    BY <1>m, <2>1, <2>2, <2>3, <2>4, <2>5, Zenon DEF Sent
<1>6. ASSUME NEW o \in Openers, \/ OpenInsert(o) \/ OpenSend(o) \/ OpenAnswer(o) \/ OpenerDrop(o)
      PROVE  Goal
  <2>1. /\ UNCHANGED <<next_id, osid, ack>>
        /\ \/ ost[o] = "checked" /\ ost' = [ost EXCEPT ![o] = "insert"]
           \/ ost[o] = "insert" /\ \E v \in {"wait", "failed"} : ost' = [ost EXCEPT ![o] = v]
           \/ ost[o] = "wait" /\ ack[o] = "ok" /\ ost' = [ost EXCEPT ![o] = "open"]
           \/ ost[o] = "wait" /\ ost' = [ost EXCEPT ![o] = "failed"]
           \/ ost[o] \in {"open", "failed"} /\ ost' = [ost EXCEPT ![o] = "gone"]
    BY <1>6, Zenon DEF OpenInsert, OpenSend, OpenAnswer, OpenerDrop
  <2>2. /\ \A q \in Openers : q # o => ost'[q] = ost[q]
        /\ \/ ost[o] = "checked" /\ ost'[o] = "insert"
           \/ ost[o] = "insert" /\ ost'[o] \in {"wait", "failed"}
           \/ ost[o] = "wait" /\ ost'[o] = "open" /\ ack'[o] = "ok"
           \/ ost[o] = "wait" /\ ost'[o] = "failed"
           \/ ost[o] \in {"open", "failed"} /\ ost'[o] = "gone"
    BY <1>t, <2>1, Zenon
  <2>3. /\ osid[o] # 0 /\ ost'[o] # "idle"
        /\ ost[o] \in {"wait", "open", "failed", "gone"} => ost'[o] \in {"wait", "open", "failed", "gone"}
        /\ ost'[o] = "open" => ack'[o] = "ok"
    BY <2>2, Zenon DEF Ids
  <2>4. Ids'
    BY <2>1, <2>2, <2>3, Zenon DEF Ids
  <2>5. \A q \in Openers : Sent(q) => Sent(q)' /\ osid'[q] = osid[q]
    BY <2>1, <2>2, <2>3, Zenon DEF Sent
  <2>6. QED
    BY <1>m, <2>1, <2>2, <2>3, <2>4, <2>5, Zenon
<1>7. CASE UNCHANGED vars
  BY <1>1, <1>7, Zenon DEF vars, openVars
<1>8. QED
  BY <1>2, <1>3, <1>4, <1>5, <1>6, <1>7, Zenon DEF Next

(* What a step does to the handlers and to the OPEN being registered. *)
HandlerMoves(i) ==
    \/ hst'[i] = hst[i]
    \/ rdr["s"] = "open" /\ rdr'["s"] = "run" /\ i = opening
    \/ hst[i] = "run" /\ hst'[i] \in {"acc", "rej"}
    \/ hst[i] = "acc" /\ hst'[i] = "accgone"
    \/ hst[i] = "rej" /\ hst'[i] = "rejgone"
Registers ==
    /\ CanRead("s") /\ net' = Popped("s") /\ wq'["c"] = wq["c"] /\ hst' = hst
    /\ Frame("s")[1] = "OPEN" /\ opening' = Frame("s")[2]

(* Every step moves the handlers and the OPEN being registered like that. *)
LEMMA HandlerStep ==
    ASSUME TypeInv, [Next]_vars
    PROVE  /\ \A i \in Sids : HandlerMoves(i)
           /\ rdr'["s"] = "open" => (rdr["s"] = "open" /\ opening' = opening) \/ Registers
<1>0. FlagTypes /\ IdTypes /\ QueueTypes /\ "s" \in Ends
  BY Zenon DEF TypeInv, Ends
<1>t. /\ rdr \in [Ends -> {"run", "open", "exit"}]
      /\ hst \in [Sids -> {"none", "run", "acc", "rej", "accgone", "rejgone"}]
  BY <1>0, Zenon DEF FlagTypes, IdTypes
<1> DEFINE Goal ==
      /\ \A i \in Sids : HandlerMoves(i)
      /\ rdr'["s"] = "open" => (rdr["s"] = "open" /\ opening' = opening) \/ Registers
<1>1. CASE UNCHANGED <<rdr, opening, hst>>
  BY <1>1, Zenon DEF HandlerMoves
<1>2. ASSUME NEW e \in Ends, \/ StartOk(e) \/ Close(e) \/ KeepalivePing(e)
                             \/ KeepaliveTimeout(e) \/ Writer(e) \/ Teardown(e)
      PROVE  Goal
  BY <1>1, <1>2, Zenon DEF StartOk, Close, KeepalivePing, KeepaliveTimeout, Writer,
     WriterLone, WriterBatch, WriterCheck, WriterError, Teardown, TeardownSnap, TeardownClear,
     TeardownAbort, TeardownReady, handVars
<1>3. ASSUME NEW e \in Ends, StartTimeout(e) \/ ReadEof(e) \/ ReadStop(e)
      PROVE  Goal
  <2>1. rdr' = [rdr EXCEPT ![e] = "exit"] /\ UNCHANGED <<opening, hst>>
    BY <1>3, Zenon DEF StartTimeout, ReadEof, ReadStop, ReaderExit, handVars
  <2>2. rdr'["s"] = "open" => rdr["s"] = "open"
    BY <1>0, <1>t, <2>1, Zenon
  <2>3. QED
    BY <2>1, <2>2, Zenon DEF HandlerMoves
<1>4. ASSUME NEW e \in Ends, ReadHello(e) \/ ReadFin(e) \/ ReadPing(e) \/ ReadPong(e) \/ ReadAck
      PROVE  Goal
  BY <1>1, <1>4, Zenon DEF ReadHello, ReadFin, ReadPing, ReadPong, ReadAck, handVars
<1>5. CASE ReadOpen
  <2>1. /\ CanRead("s") /\ net' = Popped("s") /\ Frame("s")[1] = "OPEN" /\ hst' = hst
        /\ \/ UNCHANGED <<rdr, opening>>
           \/ wq' = wq /\ opening' = Frame("s")[2]
    BY <1>5, Zenon DEF ReadOpen
  <2>2. QED
    BY <2>1, Zenon DEF HandlerMoves, Registers
<1>6. CASE ReadOpenInsert
  <2>1. rdr["s"] = "open" /\ rdr' = [rdr EXCEPT !["s"] = "run"] /\ hst' = [hst EXCEPT ![opening] = "run"]
    BY <1>6, Zenon DEF ReadOpenInsert
  <2>2. rdr'["s"] = "run"
    BY <1>0, <1>t, <2>1, Zenon
  <2>3. rdr'["s"] # "open"
    BY <2>2, Zenon
  <2>4. \A i \in Sids : i = opening \/ hst'[i] = hst[i]
    BY <1>t, <2>1, Zenon
  <2>5. QED
    BY <2>1, <2>2, <2>3, <2>4, Zenon DEF HandlerMoves
<1>7. ASSUME NEW o \in Openers, \/ OpenCheck(o) \/ OpenInsert(o) \/ OpenSend(o) \/ OpenAnswer(o)
                                \/ OpenerDrop(o)
      PROVE  Goal
  BY <1>1, <1>7, Zenon DEF OpenCheck, OpenInsert, OpenSend, OpenAnswer, OpenerDrop, handVars
<1>8. ASSUME NEW i \in Sids, Accept(i) \/ Reject(i) \/ HandlerDrop(i)
      PROVE  Goal
  <2>1. /\ UNCHANGED <<rdr, opening>>
        /\ \/ hst[i] = "run" /\ \E v \in {"acc", "rej"} : hst' = [hst EXCEPT ![i] = v]
           \/ /\ hst[i] \in {"acc", "rej"}
              /\ hst' = [hst EXCEPT ![i] = IF hst[i] = "acc" THEN "accgone" ELSE "rejgone"]
    BY <1>8, Zenon DEF Accept, Reject, HandlerDrop
  <2>2. /\ \A j \in Sids : j # i => hst'[j] = hst[j]
        /\ \/ hst[i] = "run" /\ hst'[i] \in {"acc", "rej"}
           \/ hst[i] = "acc" /\ hst'[i] = "accgone"
           \/ hst[i] = "rej" /\ hst'[i] = "rejgone"
    BY <1>t, <2>1, Zenon
  <2>3. QED
    BY <2>1, <2>2, Zenon DEF HandlerMoves
<1>9. CASE UNCHANGED vars
  BY <1>1, <1>9, Zenon DEF vars, handVars
<1>10. QED
  BY <1>2, <1>3, <1>4, <1>5, <1>6, <1>7, <1>8, <1>9, Zenon DEF Next, Reader

(* The OPENs and the answers in flight.  An OPEN whose id is in the wire   *)
(* has no handler yet, is there once, and comes from an opener that sent   *)
(* it; an ACK in the wire, or taken by its opener, comes from a handler    *)
(* that accepted.                                                          *)
FromOpener(i) == \E o \in Openers : Sent(o) /\ osid[o] = i
Accepted(i) == hst[i] \in {"acc", "accgone"}
OpenAt(i) ==
    /\ Once(Wire("c"), <<"OPEN", i>>)
    /\ <<"OPEN", i>> \in In(Wire("c")) =>
         /\ hst[i] = "none" /\ FromOpener(i)
         /\ rdr["s"] = "open" => opening # i
    /\ rdr["s"] = "open" /\ opening = i => hst[i] = "none" /\ FromOpener(i)
    /\ hst[i] # "none" => FromOpener(i)
Answers ==
    /\ \A i : <<"ACK", i>> \in In(Wire("s")) => i \in Sids /\ Accepted(i)
    /\ \A o \in Openers : ack[o] = "ok" => osid[o] \in Sids /\ Accepted(osid[o])
    /\ \A o \in Openers : ost[o] = "open" => ack[o] = "ok"
AckInv == TypeInv /\ Ids /\ (\A i \in Sids : OpenAt(i)) /\ Answers

(* Only HELLO is in flight at the start. *)
LEMMA AckInit == Init => AckInv
<1> SUFFICES ASSUME Init PROVE AckInv
  BY Zenon
<1>1. Ids
  BY DEF Init, Ids
<1>2. ASSUME NEW e \in Ends PROVE In(Wire(e)) = {<<"HELLO", 0>>} /\ Len(Wire(e)) = 1
  <2>1. wq[e] = <<<<"HELLO", 0>>>> /\ net[e] = <<>>
    BY Zenon DEF Init, FirstFrames
  <2>2. <<>> \o <<<<"HELLO", 0>>>> = <<<<"HELLO", 0>>>>
    OBVIOUS
  <2>3. Wire(e) = <<<<"HELLO", 0>>>>
    BY <2>1, <2>2, Zenon DEF Wire
  <2>4. QED
    BY <2>3, SMTT(30) DEF In
<1>3. \A e \in Ends : \A i : <<"OPEN", i>> \notin In(Wire(e)) /\ <<"ACK", i>> \notin In(Wire(e))
  BY <1>2
<1>4. ASSUME NEW i \in Sids PROVE OpenAt(i)
  <2>1. \A j, k \in 1..Len(Wire("c")) : j = k
    BY <1>2 DEF Ends
  <2>2. Once(Wire("c"), <<"OPEN", i>>)
    BY <2>1, Zenon DEF Once
  <2>3. hst[i] = "none" /\ rdr["s"] # "open" /\ "c" \in Ends
    BY Zenon DEF Init, Ends
  <2>4. QED
    BY <1>3, <2>2, <2>3, Zenon DEF OpenAt
<1>5. Answers
  <2>1. \A o \in Openers : ack[o] # "ok" /\ ost[o] # "open"
    BY Zenon DEF Init
  <2>2. "s" \in Ends
    BY Zenon DEF Ends
  <2>3. QED
    BY <1>3, <2>1, <2>2, Zenon DEF Answers
<1>6. QED
  BY <1>1, <1>4, <1>5, TypeInit, Zenon DEF AckInv

(* An accepted stream stays accepted, and a stream gets its handler once. *)
LEMMA HandlerKept ==
    ASSUME AckInv, [Next]_vars, NEW i \in Sids
    PROVE  /\ Accepted(i) => Accepted(i)'
           /\ FromOpener(i) => FromOpener(i)'
           /\ hst[i] = "none" => hst'[i] = "none" \/ (rdr["s"] = "open" /\ rdr'["s"] = "run" /\ i = opening)
<1>1. TypeInv /\ Ids /\ OpenAt(i) /\ HandlerMoves(i)
  BY HandlerStep, Zenon DEF AckInv
<1>2. Accepted(i) => Accepted(i)'
  <2>1. SUFFICES ASSUME hst[i] \in {"acc", "accgone"} PROVE hst'[i] \in {"acc", "accgone"}
    BY Zenon DEF Accepted
  <2>2. hst[i] # "none" /\ hst[i] # "run" /\ hst[i] # "rej"
    BY <2>1, Zenon
  <2>3. ~(rdr["s"] = "open" /\ i = opening)
    BY <1>1, <2>2, Zenon DEF OpenAt
  <2>4. QED
    BY <1>1, <2>1, <2>2, <2>3, Zenon DEF HandlerMoves
<1>3. FromOpener(i) => FromOpener(i)'
  <2>1. SUFFICES ASSUME NEW o \in Openers, Sent(o), osid[o] = i PROVE FromOpener(i)'
    BY Zenon DEF FromOpener
  <2>2. Sent(o)' /\ osid'[o] = i
    BY <1>1, <2>1, OpenerStep, Zenon
  <2>3. QED
    BY <2>2, Zenon DEF FromOpener
<1>4. ASSUME hst[i] = "none"
      PROVE  hst'[i] = "none" \/ (rdr["s"] = "open" /\ rdr'["s"] = "run" /\ i = opening)
  BY <1>1, <1>4, Zenon DEF HandlerMoves
<1>5. QED
  BY <1>2, <1>3, <1>4, Zenon

(* Every step keeps what is said of the OPENs. *)
LEMMA OpensStep == AckInv /\ [Next]_vars => \A i \in Sids : OpenAt(i)'
<1> SUFFICES ASSUME AckInv, [Next]_vars, NEW i \in Sids PROVE OpenAt(i)'
  BY Zenon
<1>0. /\ TypeInv /\ Ids /\ OpenAt(i) /\ QueueTypes /\ "c" \in Ends /\ "s" \in Ends /\ Peer("c") = "s" /\ Peer("s") = "c"
      /\ FlagTypes
  BY Zenon DEF AckInv, TypeInv, Ends, Peer
<1> DEFINE f == <<"OPEN", i>>
           w == Wire("c")
           v == Wire("c")'
<1> HIDE DEF f
<1>1. w \in Seq(AnyFrame) /\ Moved("c")
  BY <1>0, WireType, WireStep, Zenon
<1>2. /\ Once(w, f)
      /\ f \in In(w) => hst[i] = "none" /\ FromOpener(i) /\ (rdr["s"] = "open" => opening # i)
      /\ rdr["s"] = "open" /\ opening = i => hst[i] = "none" /\ FromOpener(i)
      /\ hst[i] # "none" => FromOpener(i)
  BY <1>0, Zenon DEF OpenAt, f
<1>3. /\ FromOpener(i) => FromOpener(i)'
      /\ hst[i] = "none" => hst'[i] = "none" \/ (rdr["s"] = "open" /\ rdr'["s"] = "run" /\ i = opening)
  BY HandlerKept, Zenon
<1>4. rdr'["s"] = "open" => (rdr["s"] = "open" /\ opening' = opening) \/ Registers
  BY <1>0, HandlerStep, Zenon
<1>5. hst'[i] # "none" => FromOpener(i)'
  BY <1>2, <1>3, Zenon
<1>r. Registers => v = Tail(w) /\ w # <<>> /\ Frame("s") = Head(w) /\ rdr["s"] = "run" /\ hst' = hst
                   /\ (opening' = i => Head(w) = f)
  <2>1. SUFFICES ASSUME Registers
                 PROVE  v = Tail(w) /\ w # <<>> /\ Frame("s") = Head(w) /\ rdr["s"] = "run" /\ hst' = hst
                        /\ (opening' = i => Head(w) = f)
    BY Zenon
  <2>2. CanRead("s") /\ net' = Popped("s") /\ wq'[Peer("s")] = wq[Peer("s")] /\ rdr["s"] = "run"
        /\ Frame("s")[1] = "OPEN" /\ opening' = Frame("s")[2] /\ hst' = hst
    BY <1>0, <2>1, Zenon DEF Registers, CanRead
  <2>3. v = Tail(w) /\ w # <<>> /\ Frame("s") = Head(w)
    BY <1>0, <2>2, WireRead, Zenon
  <2>4. Frame("s") = <<Frame("s")[1], Frame("s")[2]>>
    BY <1>0, <2>2, ReadType, FrameFacts, Zenon
  <2>5. QED
    BY <2>2, <2>3, <2>4, Zenon DEF f
<1>o. rdr["s"] = "open" => rdr["s"] # "run"
  BY Zenon
<1>6. ASSUME rdr'["s"] = "open", opening' = i PROVE hst'[i] = "none" /\ FromOpener(i)'
  <2>1. CASE rdr["s"] = "open" /\ opening = i
    <3>1. rdr'["s"] # "run"
      BY <1>6, Zenon
    <3>2. QED
      BY <1>2, <1>3, <2>1, <3>1, Zenon
  <2>2. CASE Registers
    <3>1. f \in In(w)
      BY <1>1, <1>6, <1>r, <2>2, InTail, Zenon
    <3>2. QED
      BY <1>2, <1>3, <1>r, <2>2, <3>1, Zenon
  <2>3. QED
    BY <1>4, <1>6, <2>1, <2>2, Zenon
<1>7. Once(v, f) /\ (f \in In(v) => hst'[i] = "none" /\ FromOpener(i)' /\ (rdr'["s"] = "open" => opening' # i))
  <2>k. ASSUME f \in In(w), ~Registers
        PROVE  hst'[i] = "none" /\ FromOpener(i)' /\ (rdr'["s"] = "open" => opening' # i)
    BY <1>2, <1>3, <1>4, <2>k, Zenon
  <2>1. CASE Kept("c") \/ Thinned("c")
    <3>1. Once(v, f) /\ In(v) \subseteq In(w)
      BY <1>2, <2>1, Zenon DEF Kept, Thinned
    <3>2. CASE Registers
      <4>1. ~Thinned("c")
        <5>1. ~(rdr["s"] = "exit")
          BY <1>r, <3>2, Zenon
        <5>2. QED
          BY <1>0, <5>1, Zenon DEF Thinned, SocketGone
      <4>2. f \in In(w) => Head(w) # f \/ hst'[i] = "none"
        BY <1>2, <1>r, <3>2, Zenon
      <4>3. v = w /\ v = Tail(w) /\ w # <<>>
        BY <1>r, <2>1, <3>2, <4>1, Zenon DEF Kept
      <4>4. FALSE
        BY <1>1, <4>3
      <4>5. QED
        BY <4>4, Zenon
    <3>3. QED
      BY <2>k, <3>1, <3>2, Zenon
  <2>2. CASE Taken("c")
    <3>1. w # <<>> /\ v = Tail(w)
      BY <2>2, Zenon DEF Taken
    <3>2. /\ In(v) \subseteq In(w) /\ Once(v, f) /\ (Once(w, Head(w)) => Head(w) \notin In(v))
      BY <1>1, <1>2, <3>1, InTail, Zenon
    <3>3. CASE Registers
      <4>1. ASSUME f \in In(v) PROVE hst'[i] = "none" /\ FromOpener(i)' /\ opening' # i
        <5>1. f \in In(w)
          BY <3>2, <4>1, Zenon
        <5>2. opening' # i
          BY <1>2, <1>r, <3>2, <3>3, <4>1, Zenon
        <5>3. QED
          BY <1>2, <1>3, <1>r, <3>3, <5>1, <5>2, Zenon
      <4>2. QED
        BY <3>2, <4>1, Zenon
    <3>4. QED
      BY <2>k, <3>2, <3>3, Zenon
  <2>3. ASSUME NEW g, Joined("c", g)
        PROVE  Once(v, f) /\ (f \in In(v) => hst'[i] = "none" /\ FromOpener(i)' /\ (rdr'["s"] = "open" => opening' # i))
    <3>1. g \in AnyFrame /\ v = Append(w, g)
      BY <2>3, Zenon DEF Joined
    <3>2. /\ In(v) = In(w) \cup {g}
          /\ g # f \/ g \notin In(w) => Once(v, f)
      BY <1>1, <1>2, <3>1, InAppend, Zenon
    <3>r. ~Registers
      <4>1. SUFFICES ASSUME Registers PROVE FALSE
        BY Zenon
      <4>2. Append(w, g) = Tail(w) /\ w # <<>>
        BY <1>r, <3>1, <4>1, Zenon
      <4>3. QED
        BY <1>1, <3>1, <4>2, SMTT(30)
    <3>3. CASE g # f
      BY <2>k, <3>2, <3>3, <3>r, Zenon
    <3>4. CASE g = f
      <4>1. g[1] = "OPEN"
        BY <3>4, Zenon DEF f
      <4>2. PICK o \in Openers : OpenSend(o) /\ Up("c") /\ g = <<"OPEN", osid[o]>>
        BY <2>3, <4>1, Zenon DEF Joined
      <4>3. osid[o] = i
        BY <3>4, <4>2 DEF f
      <4>4. Sent(o)' /\ ~Sent(o) /\ osid'[o] = i /\ osid[o] # 0
        <5>1. ost[o] = "insert"
          BY <4>2, Zenon DEF OpenSend
        <5>2. osid[o] # 0 /\ ost[o] # "idle"
          BY <1>0, <5>1, Zenon DEF Ids
        <5>3. QED
          BY <1>0, <4>2, <4>3, <5>2, OpenerStep, Zenon
      <4>5. ~FromOpener(i)
        <5>1. \A p \in Openers : osid[p] = osid[o] /\ osid[p] # 0 => p = o
          BY <1>0, Zenon DEF Ids
        <5>2. QED
          BY <4>3, <4>4, <5>1, Zenon DEF FromOpener
      <4>6. f \notin In(w) /\ hst[i] = "none" /\ ~(rdr["s"] = "open" /\ opening = i)
        BY <1>2, <4>5, Zenon
      <4>7. FromOpener(i)'
        BY <4>4, Zenon DEF FromOpener
      <4>8. QED
        BY <1>3, <1>4, <3>2, <3>4, <3>r, <4>6, <4>7, Zenon
    <3>5. QED
      BY <3>3, <3>4, Zenon
  <2>4. QED
    BY <1>1, <2>1, <2>2, <2>3, Zenon DEF Moved
<1>8. QED
  BY <1>5, <1>6, <1>7, Zenon DEF OpenAt, f

(* Every step keeps what is said of the answers. *)
LEMMA AnswersStep == AckInv /\ [Next]_vars => Answers'
<1> SUFFICES ASSUME AckInv, [Next]_vars PROVE Answers'
  BY Zenon
<1>0. /\ TypeInv /\ Ids /\ Answers /\ QueueTypes /\ "c" \in Ends /\ "s" \in Ends
      /\ Peer("c") = "s" /\ Peer("s") = "c" /\ IdTypes
  BY Zenon DEF AckInv, TypeInv, Ends, Peer
<1>a. \A i \in Sids : Accepted(i) => Accepted(i)'
  BY HandlerKept, Zenon
<1>z. 0 \notin Sids
  BY DEF Sids
<1>k. ack' = ack \/ ReadAck
  <2>2. ASSUME NEW e \in Ends, \/ StartOk(e) \/ StartTimeout(e) \/ Close(e) \/ KeepalivePing(e)
                               \/ KeepaliveTimeout(e) \/ Writer(e) \/ Teardown(e)
        PROVE  ack' = ack
    BY <2>2, Zenon DEF StartOk, StartTimeout, Close, KeepalivePing, KeepaliveTimeout, Writer,
       WriterLone, WriterBatch, WriterCheck, WriterError, Teardown, TeardownSnap, TeardownClear,
       TeardownAbort, TeardownReady, openVars
  <2>3. ASSUME NEW e \in Ends, \/ ReadEof(e) \/ ReadStop(e) \/ ReadHello(e) \/ ReadFin(e) \/ ReadPing(e)
                               \/ ReadPong(e) \/ ReadOpen \/ ReadOpenInsert
        PROVE  ack' = ack
    BY <2>3, Zenon DEF ReadEof, ReadStop, ReadHello, ReadFin, ReadPing, ReadPong, ReadOpen,
       ReadOpenInsert, openVars
  <2>4. ASSUME NEW p \in Openers, \/ OpenCheck(p) \/ OpenInsert(p) \/ OpenSend(p) \/ OpenAnswer(p)
                                  \/ OpenerDrop(p)
        PROVE  ack' = ack
    BY <2>4, Zenon DEF OpenCheck, OpenInsert, OpenSend, OpenAnswer, OpenerDrop
  <2>5. ASSUME NEW i \in Sids, Accept(i) \/ Reject(i) \/ HandlerDrop(i)
        PROVE  ack' = ack
    BY <2>5, Zenon DEF Accept, Reject, HandlerDrop, openVars
  <2>6. CASE UNCHANGED vars
    BY <2>6, Zenon DEF vars, openVars
  <2>7. QED
    BY <2>2, <2>3, <2>4, <2>5, <2>6, Zenon DEF Next, Reader
<1>s. ASSUME ReadAck, NEW o \in Openers
      PROVE  ack'[o] = IF osid[o] = Frame("c")[2] /\ osid[o] \in streams["c"] /\ ack[o] = "none"
                       THEN Answer ELSE ack[o]
  <2>1. ack' = [q \in Openers |-> IF osid[q] = Frame("c")[2] /\ osid[q] \in streams["c"] /\ ack[q] = "none"
                                  THEN Answer ELSE ack[q]]
    BY <1>s, Zenon DEF ReadAck
  <2>2. QED
    BY <2>1, Zenon
<1>1. ASSUME NEW i, <<"ACK", i>> \in In(Wire("s")') PROVE i \in Sids /\ Accepted(i)'
  <2>1. Wire("s") \in Seq(AnyFrame) /\ Moved("s")
    BY <1>0, WireType, WireStep, Zenon
  <2>2. CASE <<"ACK", i>> \in In(Wire("s"))
    BY <1>0, <1>a, <2>2, Zenon DEF Answers
  <2>3. ASSUME NEW g, Joined("s", g), <<"ACK", i>> \notin In(Wire("s")) PROVE i \in Sids /\ Accepted(i)'
    <3>1. g \in AnyFrame /\ Wire("s")' = Append(Wire("s"), g)
      BY <2>3, Zenon DEF Joined
    <3>2. In(Append(Wire("s"), g)) = In(Wire("s")) \cup {g}
      BY <2>1, <3>1, InAppend, Zenon
    <3>3. g = <<"ACK", i>>
      BY <1>1, <2>3, <3>1, <3>2, Zenon
    <3>4. g[1] = "ACK"
      BY <3>3, Zenon
    <3>5. PICK j \in Sids : Accept(j) /\ g = <<"ACK", j>>
      BY <2>3, <3>4, Zenon DEF Joined
    <3>6. j = i
      BY <3>3, <3>5
    <3>7. hst' = [hst EXCEPT ![i] = "acc"] /\ i \in Sids
      BY <3>5, <3>6, Zenon DEF Accept
    <3>8. hst'[i] = "acc"
      BY <1>0, <3>7, Zenon DEF IdTypes
    <3>9. QED
      BY <3>7, <3>8, Zenon DEF Accepted
  <2>4. In(Wire("s")') \subseteq In(Wire("s")) \/ \E g : Joined("s", g)
    <3>1. CASE Taken("s")
      BY <2>1, <3>1, InTail, Zenon DEF Taken
    <3>2. QED
      BY <2>1, <3>1, Zenon DEF Moved, Kept, Thinned
  <2>5. QED
    BY <1>1, <2>2, <2>3, <2>4, Zenon
<1>2. ASSUME NEW o \in Openers, ack[o] = "ok" PROVE osid'[o] \in Sids /\ Accepted(osid[o])' /\ osid'[o] = osid[o]
  <2>1. osid[o] \in Sids /\ Accepted(osid[o])
    BY <1>0, <1>2, Zenon DEF Answers
  <2>2. ost[o] # "idle"
    BY <1>0, <1>z, <2>1, Zenon DEF Ids
  <2>3. osid'[o] = osid[o]
    BY <1>0, <2>2, OpenerStep, Zenon
  <2>4. (Accepted(osid[o]))' <=> hst'[osid'[o]] \in {"acc", "accgone"}
    BY Zenon DEF Accepted
  <2>5. Accepted(osid[o]) <=> hst[osid[o]] \in {"acc", "accgone"}
    BY Zenon DEF Accepted
  <2>6. hst'[osid[o]] \in {"acc", "accgone"}
    BY <1>a, <2>1, Zenon DEF Accepted
  <2>7. QED
    BY <2>1, <2>3, <2>4, <2>6, Zenon
<1>3. ASSUME NEW o \in Openers, ack'[o] = "ok", ack[o] # "ok"
      PROVE  osid'[o] \in Sids /\ hst'[osid'[o]] \in {"acc", "accgone"}
  <2>1. ReadAck
    BY <1>3, <1>k, Zenon
  <2>2. /\ CanRead("c") /\ net' = Popped("c") /\ wq' = wq
        /\ osid' = osid /\ hst' = hst
    BY <2>1, Zenon DEF ReadAck, handVars
  <2>3. ack'[o] = IF osid[o] = Frame("c")[2] /\ osid[o] \in streams["c"] /\ ack[o] = "none"
                  THEN Answer ELSE ack[o]
    BY <1>s, <2>1, Zenon
  <2>4. osid[o] = Frame("c")[2] /\ Answer = "ok"
    BY <1>3, <2>3, Zenon
  <2>5. Frame("c")[1] = "ACK"
    BY <2>4, Zenon DEF Answer
  <2>6. Frame("c") = <<"ACK", osid[o]>>
    <3>1. Frame("c") = <<Frame("c")[1], Frame("c")[2]>>
      BY <1>0, <2>2, ReadType, FrameFacts, Zenon
    <3>2. QED
      BY <2>4, <2>5, <3>1, Zenon
  <2>7. Frame("c") \in In(Wire("s"))
    <3>1. Wire("s") \in Seq(AnyFrame)
      BY <1>0, WireType, Zenon
    <3>2. Wire("s") # <<>> /\ Frame("c") = Head(Wire("s"))
      BY <1>0, <2>2, WireRead, Zenon
    <3>3. QED
      BY <3>1, <3>2, InTail, Zenon
  <2>8. QED
    BY <1>0, <2>2, <2>6, <2>7, Zenon DEF Answers, Accepted
<1>4. ASSUME NEW o \in Openers, ost'[o] = "open" PROVE ack'[o] = "ok"
  <2>1. CASE ost[o] = "open"
    <3>1. ack[o] = "ok"
      BY <1>0, <2>1, Zenon DEF Answers
    <3>2. ack[o] # "none"
      BY <3>1, Zenon
    <3>3. QED
      BY <1>k, <1>s, <3>1, <3>2, Zenon
  <2>2. QED
    BY <1>0, <1>4, <2>1, OpenerStep, Zenon
<1>5. QED
  BY <1>1, <1>2, <1>3, <1>4, Zenon DEF Answers, Accepted

(* Every step keeps the invariant of the opens. *)
LEMMA AckStep == AckInv /\ [Next]_vars => AckInv'
<1> SUFFICES ASSUME AckInv, [Next]_vars PROVE AckInv'
  BY Zenon
<1>1. TypeInv' /\ Ids'
  BY TypeStep, OpenerStep, Zenon DEF AckInv
<1>2. QED
  BY <1>1, OpensStep, AnswersStep, Zenon DEF AckInv

(* open_stream returns a stream only when the server's handler accepted    *)
(* that very id, for every number of openers and of streams, and whatever  *)
(* the timeouts, refusals, closes and lost control frames around it.       *)
THEOREM SessionAckHonest == Spec => []AckHonest
<1>1. AckInv => AckHonest
  BY Zenon DEF AckInv, Answers, Accepted, AckHonest
<1>2. QED
  BY <1>1, AckInit, AckStep, PTL DEF Spec
=============================================================================
