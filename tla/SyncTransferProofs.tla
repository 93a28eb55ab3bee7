--------------------------- MODULE SyncTransferProofs ---------------------------
(***************************************************************************)
(* Theorems about SyncTransfer, for any tree, any plan, any window of the  *)
(* stream and any number of edits and faults.                              *)
(***************************************************************************)
EXTENDS SyncTransfer, TLAPS

\* Sequences of anything: messages have no common shape.
IsSeq(q) == \E S : q \in Seq(S)

LEMMA AppendSeq ==
    ASSUME NEW q, IsSeq(q), NEW m
    PROVE  /\ IsSeq(Append(q, m)) /\ Len(q) \in Nat /\ Len(Append(q, m)) = Len(q) + 1
           /\ \A i \in 1..Len(q) : Append(q, m)[i] = q[i]
           /\ Append(q, m)[Len(q) + 1] = m
<1>1. PICK S : q \in Seq(S)
  BY DEF IsSeq
<1> DEFINE T == S \cup {m}
<1>2. q \in Seq(T) /\ m \in T
  BY <1>1
<1> HIDE DEF T
<1>3. Append(q, m) \in Seq(T)
  BY <1>2
<1>4. QED
  BY <1>2, <1>3 DEF IsSeq

LEMMA TailSeq ==
    ASSUME NEW q, IsSeq(q), q # <<>>
    PROVE  /\ IsSeq(Tail(q)) /\ Len(q) \in Nat \ {0} /\ Len(Tail(q)) = Len(q) - 1
           /\ Head(q) = q[1] /\ \A i \in 1..Len(q) - 1 : Tail(q)[i] = q[i + 1]
<1>1. PICK S : q \in Seq(S)
  BY DEF IsSeq
<1>2. Tail(q) \in Seq(S)
  BY <1>1
<1>3. QED
  BY <1>1, <1>2 DEF IsSeq

LEMMA EmptySeq == IsSeq(<<>>) /\ Len(<<>>) = 0
  BY <<>> \in Seq({}) DEF IsSeq

-----------------------------------------------------------------------------
(* The server's tree. *)

\* Where a content that may end in the server's tree can be: in the plan, announced
\* by a put_start under way, or as the hash an open upload has to match.
Uploadable(w) == w.op = "put" => w.path \in Paths /\ w.data \in Versions[w.path]
Announced(m) == m.t = "put_start" => m.path \in Paths /\ m.hash \in Versions[m.path]
AllAnnounced(q) == IsSeq(q) /\ \A i \in 1..Len(q) : Announced(q[i])
Expected(u) == u.on => u.path \in Paths /\ u.hash \in Versions[u.path]

TreeInv ==
    /\ DOMAIN stree = Paths /\ stree = [p \in Paths |-> stree[p]]
    /\ IsSeq(plan) /\ \A i \in 1..Len(plan) : Uploadable(plan[i])
    /\ AllAnnounced(c2s)
    /\ {"on", "path", "got", "hash"} \subseteq DOMAIN incoming /\ Expected(incoming)
    /\ ServerTreeRight

LEMMA TreeInit == Init => TreeInv
<1> SUFFICES ASSUME Init PROVE TreeInv
  OBVIOUS
<1>1. IsSeq(plan) /\ DOMAIN plan = 1..Len(plan)
  <2> DEFINE Items == {plan[i] : i \in DOMAIN plan}
  <2>1. plan \in Seq(Items)
    BY PlansAssumption, Zenon DEF Init
  <2> HIDE DEF Items
  <2>2. QED
    BY <2>1 DEF IsSeq
<1>2. ASSUME NEW i \in 1..Len(plan) PROVE Uploadable(plan[i])
  <2>1. plan[i].path \in Paths /\ plan[i].data # Absent
    BY <1>1, PlansAssumption, Zenon DEF Init
  <2>2. plan[i].op = "put" => ctree[plan[i].path] = plan[i].data
    BY <1>1, Zenon DEF Init
  <2>3. ctree[plan[i].path] \in Versions[plan[i].path] \cup {Absent}
    BY <2>1, Zenon DEF Init
  <2>4. QED
    BY <2>1, <2>2, <2>3, Zenon DEF Uploadable
<1>3. QED
  BY <1>1, <1>2, EmptySeq DEF Init, TreeInv, AllAnnounced, NoUpload, Expected, ServerTreeRight

LEMMA AnnouncedMore ==
    ASSUME NEW q, AllAnnounced(q), NEW m, Announced(m) PROVE AllAnnounced(Append(q, m))
<1>1. ASSUME NEW i \in 1..Len(q) + 1 PROVE Announced(Append(q, m)[i])
  <2>1. i \in 1..Len(q) \/ i = Len(q) + 1
    BY AppendSeq DEF AllAnnounced
  <2>2. QED
    BY <2>1, AppendSeq DEF AllAnnounced
<1>2. QED
  BY <1>1, AppendSeq, Zenon DEF AllAnnounced

LEMMA AnnouncedLess ==
    ASSUME NEW q, AllAnnounced(q), q # <<>> PROVE AllAnnounced(Tail(q)) /\ Announced(Head(q))
<1>1. ASSUME NEW i \in 1..Len(Tail(q)) PROVE Announced(Tail(q)[i])
  <2>1. i \in 1..Len(q) - 1 /\ i + 1 \in 1..Len(q)
    BY TailSeq DEF AllAnnounced
  <2>2. QED
    BY <2>1, TailSeq, Zenon DEF AllAnnounced
<1>2. 1 \in 1..Len(q)
  BY TailSeq DEF AllAnnounced
<1>3. QED
  BY <1>1, <1>2, TailSeq, Zenon DEF AllAnnounced

\* A step of the client leaves the server's side alone.
LEMMA TreeClient == TreeInv /\ (Client \/ Abort) => TreeInv'
<1> SUFFICES ASSUME TreeInv, Client \/ Abort PROVE TreeInv'
  BY Zenon
<1>1. UNCHANGED <<stree, incoming>>
  BY Zenon DEF Client, Abort, StartJob, Request, Receive, Install, OpenUpload, SendChunk, AwaitAck,
         Complete, ClientOnly, serverVars
<1>2. AllAnnounced(c2s')
  <2>1. CASE StartJob
    <3>1. Uploadable(Head(plan))
      <4>1. 1 \in 1..Len(plan) /\ Head(plan) = plan[1]
        BY <2>1, TailSeq DEF StartJob, TreeInv
      <4>2. QED
        BY <4>1, Zenon DEF TreeInv
    <3>2. \/ c2s' = c2s
          \/ c2s' = Append(c2s, Msg("delete_file", Head(plan).path))
          \/ Head(plan).op = "put" /\ c2s' = Append(c2s, PutStart(Head(plan).path, Head(plan).data))
      BY <2>1, Zenon DEF StartJob, ToServer
    <3>3. Announced(Msg("delete_file", Head(plan).path))
      BY DEF Announced, Msg
    <3>4. Head(plan).op = "put" => Announced(PutStart(Head(plan).path, Head(plan).data))
      BY <3>1 DEF Uploadable, Announced, PutStart
    <3>5. QED
      BY <3>2, <3>3, <3>4, AnnouncedMore, Zenon DEF TreeInv
  <2>2. ASSUME NEW m, Announced(m), c2s' = Append(c2s, m) PROVE AllAnnounced(c2s')
    BY <2>2, AnnouncedMore DEF TreeInv
  <2>3. \A t, p : t # "put_start" => Announced(Msg(t, p))
    BY Zenon DEF Announced, Msg
  <2>4. \A b : Announced(Bin(b))
    BY Zenon DEF Announced, Bin
  <2>5. CASE Request \/ OpenUpload \/ Complete
    BY <2>2, <2>3, <2>5 DEF Request, OpenUpload, Complete, ToServer, TreeInv
  <2>6. CASE SendChunk
    BY <2>2, <2>3, <2>4, <2>6, Zenon DEF SendChunk, ToServer
  <2>7. CASE Receive \/ Install \/ AwaitAck \/ Abort
    BY <2>7, Zenon DEF Receive, Install, AwaitAck, Abort, TreeInv
  <2>8. QED
    BY <2>1, <2>5, <2>6, <2>7, Zenon DEF Client
<1>3. IsSeq(plan') /\ \A i \in 1..Len(plan') : Uploadable(plan'[i])
  <2>1. CASE StartJob
    <3>1. plan # <<>> /\ plan' = Tail(plan)
      BY <2>1, Zenon DEF StartJob
    <3>2. ASSUME NEW i \in 1..Len(plan') PROVE Uploadable(plan'[i])
      <4>1. i + 1 \in 1..Len(plan) /\ plan'[i] = plan[i + 1]
        BY <3>1, TailSeq DEF TreeInv
      <4>2. QED
        BY <4>1 DEF TreeInv
    <3>3. QED
      BY <3>1, <3>2, TailSeq, Zenon DEF TreeInv
  <2>2. CASE ~StartJob
    <3>1. plan' = plan
      BY <2>2, Zenon DEF Client, Abort, Request, Receive, Install, OpenUpload, SendChunk, AwaitAck, Complete
    <3>2. QED
      BY <3>1, Zenon DEF TreeInv
  <2>3. QED
    BY <2>1, <2>2, Zenon
<1>4. QED
  BY <1>1, <1>2, <1>3, Zenon DEF TreeInv, ServerTreeRight

\* The one step that installs an upload checks it against the announced hash.
LEMMA TreeServer == TreeInv /\ (ServerStep \/ ServerEnds) => TreeInv'
<1> SUFFICES ASSUME TreeInv, ServerStep \/ ServerEnds PROVE TreeInv'
  BY Zenon
<1>1. plan' = plan
  BY Zenon DEF ServerStep, ServerEnds, GetFile, ServeHash, ServeChunk, DeleteFile, PutStartArrives,
         BinArrives, PutDone, ServerOnly, clientVars
<1>2. AllAnnounced(c2s')
  <2>1. c2s' = c2s \/ c2s' = <<>> \/ (c2s # <<>> /\ c2s' = Tail(c2s))
    <3>1. CASE ServeHash \/ ServeChunk
      BY <3>1, Zenon DEF ServeHash, ServeChunk
    <3>2. CASE ServerEnds
      BY <3>2, Zenon DEF ServerEnds, Server
    <3>3. CASE GetFile \/ DeleteFile \/ PutStartArrives \/ BinArrives \/ PutDone
      BY <3>3, Zenon DEF GetFile, DeleteFile, PutStartArrives, BinArrives, PutDone, Server
    <3>4. QED
      BY <3>1, <3>2, <3>3, Zenon DEF ServerStep
  <2>2. AllAnnounced(<<>>)
    BY EmptySeq DEF AllAnnounced
  <2>3. QED
    BY <2>1, <2>2, AnnouncedLess, Zenon DEF TreeInv
<1> DEFINE Shape(u) == {"on", "path", "got", "hash"} \subseteq DOMAIN u /\ Expected(u)
           Right(f) == /\ DOMAIN f = Paths /\ f = [p \in Paths |-> f[p]]
                       /\ \A p \in Paths : f[p] \in Versions[p] \cup {Absent}
<1>3. Shape(incoming) /\ Right(stree)
  BY Zenon DEF TreeInv, ServerTreeRight
<1>4. Shape(NoUpload)
  BY DEF NoUpload, Expected
<1>5. SUFFICES Shape(incoming') /\ Right(stree')
  BY <1>1, <1>2, Zenon DEF TreeInv, ServerTreeRight
<1>6. ASSUME NEW p, NEW v, p \in Paths => v \in Versions[p] \cup {Absent}
      PROVE  Right([stree EXCEPT ![p] = v])
  BY <1>3, <1>6, Zenon
<1> HIDE DEF Right
<1>7. CASE GetFile \/ ServeHash \/ ServeChunk
  BY <1>3, <1>7, Zenon DEF GetFile, ServeHash, ServeChunk
<1>8. CASE DeleteFile
  <2>1. incoming' = incoming
    BY <1>8, Zenon DEF DeleteFile
  <2>2. stree' = stree \/ stree' = [stree EXCEPT ![Head(c2s).path] = Absent]
    BY <1>8, Zenon DEF DeleteFile
  <2>3. Right([stree EXCEPT ![Head(c2s).path] = Absent])
    BY <1>6, Zenon
  <2>4. QED
    BY <1>3, <2>1, <2>2, <2>3, Zenon
<1>9. CASE PutStartArrives
  <2>1. Announced(Head(c2s)) /\ Head(c2s).t = "put_start"
    BY <1>9, AnnouncedLess, Zenon DEF PutStartArrives, Server, TreeInv
  <2>2. QED
    BY <1>3, <1>9, <2>1 DEF PutStartArrives, Announced, Expected
<1>10. CASE BinArrives
  <2>1. ASSUME NEW got PROVE Shape([incoming EXCEPT !.got = got])
    BY <1>3, Zenon DEF Expected
  <2> HIDE DEF Shape
  <2>2. QED
    BY <1>3, <1>4, <1>10, <2>1, Zenon DEF BinArrives
<1>11. CASE PutDone
  <2>1. incoming' = incoming \/ incoming' = NoUpload
    BY <1>11, Zenon DEF PutDone
  <2>2. CASE stree' = stree
    BY <1>3, <1>4, <2>1, <2>2, Zenon
  <2>3. CASE /\ incoming.on /\ Verified(incoming.got, incoming.size, incoming.hash)
             /\ stree' = [stree EXCEPT ![incoming.path] = incoming.got]
    <3>1. incoming.path \in Paths /\ incoming.hash \in Versions[incoming.path]
      BY <1>3, <2>3, Zenon DEF Expected
    <3>2. incoming.got = incoming.hash
      BY <2>3, <3>1, AbsentAssumption, Zenon DEF Verified
    <3>3. Right(stree')
      BY <1>6, <2>3, <3>1, <3>2, Zenon
    <3>4. QED
      BY <1>3, <1>4, <2>1, <3>3, Zenon
  <2>4. QED
    BY <1>11, <2>2, <2>3, Zenon DEF PutDone
<1>12. CASE ServerEnds
  BY <1>3, <1>4, <1>12, Zenon DEF ServerEnds
<1>13. QED
  BY <1>7, <1>8, <1>9, <1>10, <1>11, <1>12, Zenon DEF ServerStep

LEMMA TreeStep == TreeInv /\ [Next]_vars => TreeInv'
<1> SUFFICES ASSUME TreeInv, [Next]_vars PROVE TreeInv'
  BY Zenon
<1>1. CASE UNCHANGED vars
  BY <1>1, Zenon DEF vars, clientVars, serverVars, TreeInv, ServerTreeRight
<1>2. CASE Environment
  <2>0. PICK p \in Paths : \E v \in Versions[p] \cup {Absent} : Replace(p, v) \/ Rewrite(p, v)
    BY <1>2, Zenon DEF Environment
  <2>1. PICK v \in Versions[p] \cup {Absent} : Replace(p, v) \/ Rewrite(p, v)
    BY <2>0, Zenon
  <2>2. UNCHANGED <<plan, c2s, incoming>>
    BY <2>1, Zenon DEF Replace, Rewrite
  <2>3. stree' = stree \/ stree' = [stree EXCEPT ![p] = v]
    BY <2>1, Zenon DEF Replace, Rewrite
  <2>4. QED
    BY <2>2, <2>3, Zenon DEF TreeInv, ServerTreeRight
<1>3. CASE ServeFails
  BY <1>3, Zenon DEF ServeFails, ServerOnly, clientVars, TreeInv, ServerTreeRight
<1>4. QED
  BY <1>1, <1>2, <1>3, TreeClient, TreeServer, Zenon DEF Next

\* Under each path the server only ever holds a content written for that path
\* (put_start, put_done): for any plan, window, interleaving, edits and failures.
THEOREM UploadsLandRight == Spec => []ServerTreeRight
<1>1. TreeInv => ServerTreeRight
  BY Zenon DEF TreeInv
<1>2. QED
  BY <1>1, TreeInit, TreeStep, PTL DEF Spec

-----------------------------------------------------------------------------
(* Deletions. *)

\* No message of type t, and at most one, which is about path p.
Free(q, t) == \A i \in 1..Len(q) : q[i].t # t
Only(q, t, p) ==
    /\ \A i \in 1..Len(q) : q[i].t = t => q[i].path = p
    /\ \A i, j \in 1..Len(q) : q[i].t = t /\ q[j].t = t => i = j
\* Every positive delete_ack is about a path of P.
AcksIn(q, P) == \A i \in 1..Len(q) : q[i].t = "delete_ack" /\ q[i].ok => q[i].path \in P

\* The client asks for one deletion at a time and waits for its answer: question and
\* answer are never both under way, and neither is once the client has moved on.
Phase(pc, op, path, up, down) ==
    \/ pc = "failed"
    \/ Free(up, "delete_file") /\ Free(down, "delete_ack")
    \/ /\ pc = "await" /\ op = "del"
       /\ \/ Only(up, "delete_file", path) /\ Free(down, "delete_ack")
          \/ Free(up, "delete_file") /\ Only(down, "delete_ack", path)

DelInv ==
    /\ IsSeq(c2s) /\ IsSeq(s2c)
    /\ {"op", "path"} \subseteq DOMAIN job
    /\ tomb = [c |-> tomb.c, s |-> tomb.s, lost |-> tomb.lost]
    /\ AcksIn(s2c, tomb.s \cup tomb.lost)
    /\ Phase(cpc, job.op, job.path, c2s, s2c)
    /\ DeletionRecorded

\* What a step does to a channel unless it asks or answers.
Passes(q, r, t) ==
    \/ r = q \/ r = <<>>
    \/ q # <<>> /\ r = Tail(q)
    \/ \E m : m.t # t /\ r = Append(q, m)

LEMMA PassesCases ==
    ASSUME NEW q, NEW t
    PROVE  /\ Passes(q, q, t) /\ Passes(q, <<>>, t) /\ (q # <<>> => Passes(q, Tail(q), t))
           /\ \A m : m.t # t => Passes(q, Append(q, m), t)
<1>1. ASSUME NEW m, m.t # t PROVE Passes(q, Append(q, m), t)
  <2>1. \E k : k.t # t /\ Append(q, m) = Append(q, k)
    <3>1. WITNESS m
    <3>2. QED
      BY <1>1, Zenon
  <2>2. QED
    BY <2>1, Zenon DEF Passes
<1>2. Passes(q, q, t) /\ Passes(q, <<>>, t)
  BY Zenon DEF Passes
<1>3. q # <<>> => Passes(q, Tail(q), t)
  BY Zenon DEF Passes
<1>4. QED
  BY <1>1, <1>2, <1>3, Zenon

LEMMA PassesKeeps ==
    ASSUME NEW q, NEW r, NEW t, IsSeq(q), Passes(q, r, t)
    PROVE  /\ IsSeq(r) /\ (Free(q, t) => Free(r, t))
           /\ \A p : Only(q, t, p) => Only(r, t, p)
           /\ t = "delete_ack" => \A P : AcksIn(q, P) => AcksIn(r, P)
<1>1. CASE r = q
  BY <1>1, Zenon
<1>2. CASE r = <<>>
  BY <1>2, EmptySeq, SMTT(30) DEF Free, Only, AcksIn
<1>3. CASE q # <<>> /\ r = Tail(q)
  <2>1. IsSeq(r) /\ Len(q) \in Nat \ {0} /\ Len(r) = Len(q) - 1
    BY <1>3, TailSeq, Zenon
  <2>2. \A i \in 1..Len(r) : i + 1 \in 1..Len(q) /\ r[i] = q[i + 1]
    <3>1. \A i \in 1..Len(q) - 1 : r[i] = q[i + 1]
      BY <1>3, TailSeq, Zenon
    <3>2. QED
      BY <2>1, <3>1
  <2>3. ASSUME NEW p, Only(q, t, p) PROVE Only(r, t, p)
    <3>1. ASSUME NEW i \in 1..Len(r), NEW j \in 1..Len(r), r[i].t = t, r[j].t = t PROVE i = j
      <4>1. i + 1 = j + 1
        BY <2>2, <2>3, <3>1, ZenonT(30) DEF Only
      <4>2. QED
        BY <2>1, <4>1, SMTT(30)
    <3>2. \A i \in 1..Len(r) : r[i].t = t => r[i].path = p
      BY <2>2, <2>3, Zenon DEF Only
    <3>3. QED
      BY <3>1, <3>2, Zenon DEF Only
  <2>4. QED
    BY <2>1, <2>2, <2>3, Zenon DEF Free, AcksIn
<1>4. CASE \E m : m.t # t /\ r = Append(q, m)
  <2>1. PICK m : m.t # t /\ r = Append(q, m)
    BY <1>4, Zenon
  <2>2. IsSeq(r) /\ Len(q) \in Nat /\ Len(r) = Len(q) + 1
    BY <2>1, AppendSeq, Zenon
  <2>3. \A i \in 1..Len(r) : (i \in 1..Len(q) /\ r[i] = q[i]) \/ r[i] = m
    <3>1. \A i \in 1..Len(r) : i \in 1..Len(q) \/ i = Len(q) + 1
      BY <2>2, SMTT(30)
    <3>2. QED
      BY <2>1, <3>1, AppendSeq
  <2>4. ASSUME NEW p, Only(q, t, p) PROVE Only(r, t, p)
    BY <2>1, <2>3, <2>4, SMTT(30) DEF Only
  <2>5. QED
    BY <2>1, <2>2, <2>3, <2>4, Zenon DEF Free, AcksIn
<1>5. QED
  BY <1>1, <1>2, <1>3, <1>4, Zenon DEF Passes

\* Asking, or answering, once the channel has no such message.
LEMMA FirstOfKind ==
    ASSUME NEW q, IsSeq(q), NEW t, Free(q, t), NEW m
    PROVE  IsSeq(Append(q, m)) /\ Only(Append(q, m), t, m.path)
<1>1. Len(q) \in Nat /\ Len(Append(q, m)) = Len(q) + 1
  BY AppendSeq, Zenon
<1>2. \A i \in 1..Len(q) + 1 : i = Len(q) + 1 \/ (i \in 1..Len(q) /\ Append(q, m)[i].t # t)
  <2>1. \A i \in 1..Len(q) + 1 : i \in 1..Len(q) \/ i = Len(q) + 1
    BY <1>1
  <2>2. QED
    BY <2>1, AppendSeq DEF Free
<1>3. Append(q, m)[Len(q) + 1] = m
  BY AppendSeq, Zenon
<1>4. QED
  BY <1>1, <1>2, <1>3, AppendSeq, Zenon DEF Only

\* Taking the one message of its kind.
LEMMA LastOfKind ==
    ASSUME NEW q, IsSeq(q), q # <<>>, NEW t, NEW p, Only(q, t, p), Head(q).t = t
    PROVE  Head(q).path = p /\ Free(Tail(q), t) /\ ~Free(q, t)
<1>1. Len(q) \in Nat \ {0} /\ Len(Tail(q)) = Len(q) - 1 /\ Head(q) = q[1]
  BY TailSeq, Zenon
<1>2. \A i \in 1..Len(Tail(q)) : i + 1 \in 1..Len(q) /\ i + 1 # 1 /\ Tail(q)[i] = q[i + 1]
  BY <1>1, TailSeq
<1>3. 1 \in 1..Len(q)
  BY <1>1
<1>4. Free(Tail(q), t)
  BY <1>1, <1>2, <1>3, ZenonT(30) DEF Only, Free
<1>5. QED
  BY <1>1, <1>3, <1>4, Zenon DEF Only, Free

LEMMA DelInit == Init => DelInv
  BY EmptySeq, SMTT(30) DEF Init, DelInv, NoJob, Phase, Free, AcksIn, DeletionRecorded

\* A step that neither asks, answers nor takes an answer, and moves the client only
\* when no deletion is under way.
Bystander ==
    /\ Passes(c2s, c2s', "delete_file") /\ Passes(s2c, s2c', "delete_ack")
    /\ {"op", "path"} \subseteq DOMAIN job'
    /\ tomb' = tomb
    /\ \/ cpc' = "failed" \/ cpc \notin {"await", "failed"}
       \/ cpc' = cpc /\ job'.op = job.op /\ job'.path = job.path

LEMMA BystanderKeeps == DelInv /\ Bystander => DelInv'
<1> SUFFICES ASSUME DelInv, Bystander PROVE DelInv'
  BY Zenon
<1>1. /\ IsSeq(c2s') /\ (Free(c2s, "delete_file") => Free(c2s', "delete_file"))
      /\ \A p : Only(c2s, "delete_file", p) => Only(c2s', "delete_file", p)
  BY PassesKeeps, Zenon DEF DelInv, Bystander
<1>2. /\ IsSeq(s2c') /\ (Free(s2c, "delete_ack") => Free(s2c', "delete_ack"))
      /\ \A p : Only(s2c, "delete_ack", p) => Only(s2c', "delete_ack", p)
      /\ AcksIn(s2c', tomb.s \cup tomb.lost)
  BY PassesKeeps, Zenon DEF DelInv, Bystander
<1>3. Phase(cpc', job'.op, job'.path, c2s', s2c')
  BY <1>1, <1>2, Zenon DEF DelInv, Bystander, Phase
<1>4. QED
  BY <1>1, <1>2, <1>3, Zenon DEF DelInv, Bystander, DeletionRecorded

LEMMA DelClient == DelInv /\ (Client \/ Abort) => DelInv'
<1> SUFFICES ASSUME DelInv, Client \/ Abort PROVE DelInv'
  BY Zenon
<1>0. /\ {"op", "path"} \subseteq DOMAIN job /\ {"op", "path"} \subseteq DOMAIN NoJob
      /\ \A p : Msg("get_file", p).t # "delete_file" /\ Msg("put_done", p).t # "delete_file"
                /\ Msg("sync_complete", p).t # "delete_file"
      /\ \A b : Bin(b).t # "delete_file" 
      /\ \A p, d : PutStart(p, d).t # "delete_file"
  BY Zenon DEF DelInv, NoJob, Msg, Bin, PutStart
<1>1. CASE StartJob
  <2> DEFINE w == Head(plan)
             new == [NoJob EXCEPT !.op = w.op, !.path = w.path, !.data = w.data, !.attempt = 1]
  <2>1. new.op = w.op /\ new.path = w.path /\ {"op", "path"} \subseteq DOMAIN new
    BY Zenon DEF NoJob
  <2>2. CASE job' = new /\ w.op = "del" /\ cpc' = "await" /\ ToServer(Msg("delete_file", w.path))
    <3>1. Free(c2s, "delete_file") /\ Free(s2c, "delete_ack")
      BY <1>1, Zenon DEF StartJob, DelInv, Phase
    <3>2. IsSeq(c2s') /\ Only(c2s', "delete_file", w.path)
      BY <2>2, <3>1, FirstOfKind DEF ToServer, DelInv, Msg
    <3>3. s2c' = s2c /\ tomb' = tomb
      BY <1>1, Zenon DEF StartJob
    <3>4. QED
      BY <2>1, <2>2, <3>1, <3>2, <3>3, Zenon DEF DelInv, Phase, DeletionRecorded
  <2>3. CASE (job' = new \/ job' = job)
             /\ (c2s' = c2s \/ c2s' = Append(c2s, PutStart(w.path, w.data)))
    <3>1. Passes(c2s, c2s', "delete_file")
      BY <1>0, <2>3, PassesCases, Zenon
    <3>2. Bystander
      BY <1>0, <1>1, <2>1, <2>3, <3>1, PassesCases, Zenon DEF StartJob, Bystander
    <3>3. QED
      BY <3>2, BystanderKeeps, Zenon
  <2>4. QED
    BY <1>1, <2>2, <2>3, Zenon DEF StartJob, ToServer
<1>2. CASE AwaitAck
  <2>1. s2c # <<>> /\ s2c' = Tail(s2c) /\ c2s' = c2s /\ cpc = "await"
    BY <1>2, Zenon DEF AwaitAck
  <2>2. CASE Head(s2c).t = Wanted
    <3>0. cpc' = "next" /\ job' = NoJob
      BY <1>2, <2>2, Zenon DEF AwaitAck
    <3>1. CASE Head(s2c).t = "delete_ack"
      <4>1. job.op = "del" /\ Free(c2s, "delete_file") /\ Only(s2c, "delete_ack", job.path)
        <5>1. ~Free(s2c, "delete_ack")
          BY <2>1, <3>1, TailSeq, SMTT(30) DEF Free, DelInv
        <5>2. QED
          BY <2>1, <5>1, Zenon DEF DelInv, Phase
      <4>2. Head(s2c).path = job.path /\ Free(s2c', "delete_ack")
        BY <2>1, <3>1, <4>1, LastOfKind, Zenon DEF DelInv
      <4>3. Head(s2c).ok => job.path \in tomb.s \cup tomb.lost
        BY <2>1, <3>1, <4>2, TailSeq DEF AcksIn, DelInv
      <4>4. \/ tomb' = tomb
            \/ Head(s2c).ok /\ tomb' = [tomb EXCEPT !.c = @ \cup {job.path}]
            \/ Head(s2c).ok /\ tomb' = [tomb EXCEPT !.c = {job.path}]
        BY <1>2, <2>2, Zenon DEF AwaitAck
      <4>5. /\ tomb'.s = tomb.s /\ tomb'.lost = tomb.lost /\ tomb'.c \subseteq tomb.s \cup tomb.lost
            /\ tomb' = [c |-> tomb'.c, s |-> tomb'.s, lost |-> tomb'.lost]
        BY <4>3, <4>4, ZenonT(30) DEF DelInv, DeletionRecorded
      <4>6. IsSeq(s2c') /\ AcksIn(s2c', tomb.s \cup tomb.lost)
        <5>1. Passes(s2c, s2c', "delete_ack")
          BY <2>1, Zenon DEF Passes
        <5>2. IsSeq(s2c) /\ AcksIn(s2c, tomb.s \cup tomb.lost)
          BY Zenon DEF DelInv
        <5>3. QED
          BY <5>1, <5>2, PassesKeeps, SMTT(30)
      <4>7. Free(c2s', "delete_file")
        BY <2>1, <4>1, Zenon
      <4>8. Phase(cpc, job.op, job.path, c2s, s2c)'
        BY <4>2, <4>7, Zenon DEF Phase
      <4>9. AcksIn(s2c', tomb'.s \cup tomb'.lost) /\ DeletionRecorded'
        BY <4>5, <4>6, Zenon DEF DeletionRecorded
      <4>10. IsSeq(c2s') /\ {"op", "path"} \subseteq DOMAIN job'
        BY <1>0, <2>1, <3>0, Zenon DEF DelInv
      <4>11. QED
        BY <4>5, <4>6, <4>8, <4>9, <4>10, Zenon DEF DelInv
    <3>2. CASE Head(s2c).t # "delete_ack"
      <4>1. job.op = "put" /\ tomb' = tomb
        BY <1>2, <2>2, <3>2, Zenon DEF Wanted, AwaitAck
      <4>2. Free(c2s, "delete_file") /\ Free(s2c, "delete_ack")
        BY <2>1, <4>1, Zenon DEF DelInv, Phase
      <4>3. IsSeq(s2c') /\ Free(s2c', "delete_ack") /\ AcksIn(s2c', tomb.s \cup tomb.lost)
        <5>1. Passes(s2c, s2c', "delete_ack")
          BY <2>1, Zenon DEF Passes
        <5>2. IsSeq(s2c) /\ AcksIn(s2c, tomb.s \cup tomb.lost)
          BY Zenon DEF DelInv
        <5>3. QED
          BY <4>2, <5>1, <5>2, PassesKeeps, SMTT(30)
      <4>4. Free(c2s', "delete_file")
        BY <2>1, <4>2, Zenon
      <4>5. Phase(cpc, job.op, job.path, c2s, s2c)'
        BY <4>3, <4>4, Zenon DEF Phase
      <4>6. /\ AcksIn(s2c', tomb'.s \cup tomb'.lost) /\ DeletionRecorded'
            /\ tomb' = [c |-> tomb'.c, s |-> tomb'.s, lost |-> tomb'.lost]
        BY <4>1, <4>3, Zenon DEF DelInv, DeletionRecorded
      <4>7. IsSeq(c2s') /\ {"op", "path"} \subseteq DOMAIN job'
        BY <1>0, <2>1, <3>0, Zenon DEF DelInv
      <4>8. QED
        BY <4>3, <4>5, <4>6, <4>7, Zenon DEF DelInv
    <3>3. QED
      BY <3>1, <3>2, Zenon
  <2>3. CASE Head(s2c).t # Wanted
    <3>1. UNCHANGED <<cpc, job, tomb>>
      BY <1>2, <2>3, Zenon DEF AwaitAck
    <3>2. Bystander
      BY <1>0, <2>1, <3>1, PassesCases, Zenon DEF Bystander
    <3>3. QED
      BY <3>2, BystanderKeeps, Zenon
  <2>4. QED
    BY <2>2, <2>3, Zenon
<1>4. CASE Abort
  <2>1. Bystander
    BY <1>0, <1>4, PassesCases, Zenon DEF Abort, Bystander
  <2>2. QED
    BY <2>1, BystanderKeeps, Zenon
<1>5. CASE Complete
  <2>1. Bystander
    BY <1>0, <1>5, PassesCases, Zenon DEF Complete, ToServer, Bystander
  <2>2. QED
    BY <2>1, BystanderKeeps, Zenon
<1>6. CASE Request
  <2>1. {"op", "path"} \subseteq DOMAIN job'
    BY <1>0, <1>6, Zenon DEF Request, NextAttempt
  <2>2. Bystander
    BY <1>0, <1>6, <2>1, PassesCases, Zenon DEF Request, ToServer, Bystander
  <2>3. QED
    BY <2>2, BystanderKeeps, Zenon
<1>7. CASE Receive
  <2>1. {"op", "path"} \subseteq DOMAIN job'
    BY <1>0, <1>7, Zenon DEF Receive
  <2>2. Bystander
    BY <1>0, <1>7, <2>1, PassesCases, Zenon DEF Receive, Bystander
  <2>3. QED
    BY <2>2, BystanderKeeps, Zenon
<1>8. CASE Install
  <2>1. {"op", "path"} \subseteq DOMAIN job'
    BY <1>0, <1>8, Zenon DEF Install, NextAttempt
  <2>2. Bystander
    BY <1>0, <1>8, <2>1, PassesCases, Zenon DEF Install, Bystander
  <2>3. QED
    BY <2>2, BystanderKeeps, Zenon
<1>9. CASE OpenUpload
  <2>1. {"op", "path"} \subseteq DOMAIN job'
    BY <1>0, <1>9, Zenon DEF OpenUpload
  <2>2. Bystander
    BY <1>0, <1>9, <2>1, PassesCases, Zenon DEF OpenUpload, ToServer, Bystander
  <2>3. QED
    BY <2>2, BystanderKeeps, Zenon
<1>10. CASE SendChunk
  <2>1. {"op", "path"} \subseteq DOMAIN job'
    BY <1>0, <1>10, Zenon DEF SendChunk
  <2>2. Bystander
    <3>1. c2s' = Append(c2s, Bin(job.got[job.off + 1])) \/ c2s' = Append(c2s, Msg("put_done", job.path))
      BY <1>10, Zenon DEF SendChunk, ToServer
    <3>2. Passes(c2s, c2s', "delete_file")
      BY <1>0, <3>1, PassesCases, Zenon
    <3>3. QED
      BY <1>10, <2>1, <3>2, PassesCases, Zenon DEF SendChunk, Bystander
  <2>3. QED
    BY <2>2, BystanderKeeps, Zenon
<1>11. QED
  BY <1>1, <1>2, <1>4, <1>5, <1>6, <1>7, <1>8, <1>9, <1>10, Zenon DEF Client

LEMMA DelServer == DelInv /\ (ServerStep \/ ServerEnds) => DelInv'
<1> SUFFICES ASSUME DelInv, ServerStep \/ ServerEnds PROVE DelInv'
  BY Zenon
<1>0. UNCHANGED <<cpc, job>> /\ {"op", "path"} \subseteq DOMAIN job'
  BY Zenon DEF ServerStep, ServerEnds, GetFile, ServeHash, ServeChunk, DeleteFile, PutStartArrives,
         BinArrives, PutDone, ServerOnly, clientVars, DelInv
<1>1. CASE DeleteFile
  <2> DEFINE p == Head(c2s).path
  <2>1. c2s # <<>> /\ Head(c2s).t = "delete_file" /\ c2s' = Tail(c2s)
    BY <1>1, Zenon DEF DeleteFile, Server
  <2> DEFINE Heard == tomb.s \cup tomb.lost
  <2>2. PICK ok \in BOOLEAN : /\ s2c' = Append(s2c, Ack("delete_ack", p, ok))
                              /\ ~ok => tomb' = tomb
                              /\ ok => tomb' \in {Tombstoned(p)} \cup Misrecorded(p)
    BY <1>1, Zenon DEF DeleteFile, ToClient
  <2>3. /\ tomb' = [c |-> tomb'.c, s |-> tomb'.s, lost |-> tomb'.lost] /\ Heard \subseteq Heard'
        /\ tomb'.c \subseteq Heard' /\ (ok => p \in Heard')
    <3>1. CASE tomb' = tomb /\ ~ok
      BY <3>1, Zenon DEF DelInv, DeletionRecorded
    <3>2. CASE tomb' = Tombstoned(p)
      BY <3>2, Zenon DEF DelInv, DeletionRecorded, Tombstoned
    <3>3. CASE tomb' = [tomb EXCEPT !.lost = @ \cup {p}]
      BY <3>3, Zenon DEF DelInv, DeletionRecorded
    <3>4. CASE tomb' = [tomb EXCEPT !.s = {p}, !.lost = @ \cup tomb.s]
      BY <3>4, ZenonT(30) DEF DelInv, DeletionRecorded
    <3>5. QED
      BY <2>2, <3>1, <3>2, <3>3, <3>4, Zenon DEF Misrecorded
  <2>4. IsSeq(c2s') /\ IsSeq(s2c')
    BY <2>1, <2>2, TailSeq, AppendSeq, Zenon DEF DelInv
  <2>5. AcksIn(s2c', Heard')
    <3>1. ASSUME NEW i \in 1..Len(s2c'), s2c'[i].t = "delete_ack", s2c'[i].ok
          PROVE  s2c'[i].path \in Heard'
      <4>1. i \in 1..Len(s2c) \/ i = Len(s2c) + 1
        BY <2>2, AppendSeq, SMTT(30) DEF DelInv
      <4>2. CASE i \in 1..Len(s2c)
        <5>1. s2c'[i] = s2c[i]
          BY <2>2, <4>2, AppendSeq, SMTT(30) DEF DelInv
        <5>2. QED
          BY <2>3, <3>1, <4>2, <5>1, Zenon DEF DelInv, AcksIn
      <4>3. CASE i = Len(s2c) + 1
        <5>1. s2c'[i] = Ack("delete_ack", p, ok)
          BY <2>2, <4>3, AppendSeq, ZenonT(30) DEF DelInv
        <5>2. QED
          BY <2>3, <3>1, <5>1 DEF Ack
      <4>4. QED
        BY <4>1, <4>2, <4>3, Zenon
    <3>2. QED
      BY <3>1, Zenon DEF AcksIn
  <2>6. Phase(cpc', job'.op, job'.path, c2s', s2c')
    <3>1. CASE cpc = "failed"
      BY <1>0, <3>1, Zenon DEF Phase
    <3>2. CASE cpc # "failed"
      <4>1. ~Free(c2s, "delete_file")
        <5>1. 1 \in 1..Len(c2s) /\ Head(c2s) = c2s[1]
          BY <2>1, TailSeq, SMTT(30) DEF DelInv
        <5>2. QED
          BY <2>1, <5>1, Zenon DEF Free
      <4>2. /\ cpc = "await" /\ job.op = "del"
            /\ Only(c2s, "delete_file", job.path) /\ Free(s2c, "delete_ack")
        BY <3>2, <4>1, Zenon DEF DelInv, Phase
      <4>3. p = job.path /\ Free(c2s', "delete_file")
        BY <2>1, <4>2, LastOfKind, ZenonT(30) DEF DelInv
      <4>4. Only(s2c', "delete_ack", p)
        <5>1. Ack("delete_ack", p, ok).path = p
          BY Zenon DEF Ack
        <5>2. QED
          BY <2>2, <4>2, <5>1, FirstOfKind, Zenon DEF DelInv
      <4>5. QED
        BY <1>0, <4>2, <4>3, <4>4, Zenon DEF Phase
    <3>3. QED
      BY <3>1, <3>2, Zenon
  <2>7. QED
    BY <1>0, <2>3, <2>4, <2>5, <2>6, Zenon DEF DelInv, DeletionRecorded
<1>2. CASE ~DeleteFile
  <2>1. tomb' = tomb
    BY <1>2, Zenon DEF ServerStep, ServerEnds, GetFile, ServeHash, ServeChunk, PutStartArrives,
                BinArrives, PutDone
  <2>2. c2s' = c2s \/ c2s' = <<>> \/ (c2s # <<>> /\ c2s' = Tail(c2s))
    <3>1. CASE ServeHash \/ ServeChunk
      BY <3>1, Zenon DEF ServeHash, ServeChunk
    <3>2. CASE ServerEnds
      BY <3>2, Zenon DEF ServerEnds, Server
    <3>3. CASE GetFile \/ PutStartArrives \/ BinArrives \/ PutDone
      BY <3>3, Zenon DEF GetFile, PutStartArrives, BinArrives, PutDone, Server
    <3>4. QED
      BY <1>2, <3>1, <3>2, <3>3, Zenon DEF ServerStep
  <2>3. /\ \A p : /\ Msg("file_error", p).t # "delete_ack" /\ Msg("file_done", p).t # "delete_ack"
                  /\ Ack("put_ack", p, TRUE).t # "delete_ack"
                  /\ Ack("put_ack", p, FALSE).t # "delete_ack"
        /\ \A b : Bin(b).t # "delete_ack"
        /\ \A p, n, h : Meta(p, n, h).t # "delete_ack"
    BY Zenon DEF Msg, Ack, Bin, Meta
  <2>4. Passes(s2c, s2c', "delete_ack")
    <3>1. CASE GetFile
      BY <2>3, <3>1, PassesCases, Zenon DEF GetFile, ToClient
    <3>2. CASE ServeHash
      <4>1. s2c' = s2c \/ s2c' = Append(s2c, Meta(serve.path, serve.size, serve.sum))
        BY <3>2, Zenon DEF ServeHash, ToClient
      <4>2. QED
        BY <2>3, <4>1, PassesCases, Zenon
    <3>3. CASE ServeChunk
      <4>1. \/ s2c' = Append(s2c, Bin(serve.ino[serve.off + 1]))
            \/ s2c' = Append(s2c, Msg("file_done", serve.path))
        BY <3>3, Zenon DEF ServeChunk, ToClient
      <4>2. QED
        BY <2>3, <4>1, PassesCases, Zenon
    <3>4. CASE PutStartArrives
      BY <2>3, <3>4, PassesCases, Zenon DEF PutStartArrives, reject_put, ToClient
    <3>5. CASE BinArrives
      BY <2>3, <3>5, PassesCases, Zenon DEF BinArrives, reject_put, ToClient
    <3>6. CASE PutDone
      BY <2>3, <3>6, PassesCases, ZenonT(30) DEF PutDone, reject_put, ToClient
    <3>7. CASE ServerEnds
      BY <3>7, PassesCases, Zenon DEF ServerEnds
    <3>8. QED
      BY <1>2, <3>1, <3>2, <3>3, <3>4, <3>5, <3>6, <3>7, Zenon DEF ServerStep
  <2>5. Bystander
    BY <1>0, <2>1, <2>2, <2>4, PassesCases, Zenon DEF Bystander
  <2>6. QED
    BY <2>5, BystanderKeeps, Zenon
<1>3. QED
  BY <1>1, <1>2, Zenon

LEMMA DelStep == DelInv /\ [Next]_vars => DelInv'
<1> SUFFICES ASSUME DelInv, [Next]_vars PROVE DelInv'
  BY Zenon
<1>1. CASE UNCHANGED vars
  BY <1>1, Zenon DEF vars, clientVars, serverVars, DelInv, DeletionRecorded
<1>2. CASE Environment
  <2>1. PICK p \in Paths : \E v \in Versions[p] \cup {Absent} : Replace(p, v) \/ Rewrite(p, v)
    BY <1>2, Zenon DEF Environment
  <2>2. PICK v : Replace(p, v) \/ Rewrite(p, v)
    BY <2>1, Zenon
  <2>3. UNCHANGED <<c2s, s2c, cpc, tomb>>
    BY <2>2, Zenon DEF Replace, Rewrite
  <2>4. {"op", "path"} \subseteq DOMAIN job' /\ job'.op = job.op /\ job'.path = job.path
    BY <2>2, Zenon DEF Replace, Rewrite, DelInv
  <2>5. Bystander
    BY <2>3, <2>4, PassesCases, Zenon DEF Bystander
  <2>6. QED
    BY <2>5, BystanderKeeps, Zenon
<1>3. CASE ServeFails
  <2>1. Bystander
    BY <1>3, PassesCases, Zenon DEF ServeFails, ServerOnly, clientVars, Bystander, DelInv
  <2>2. QED
    BY <2>1, BystanderKeeps, Zenon
<1>4. QED
  BY <1>1, <1>2, <1>3, DelClient, DelServer, Zenon DEF Next

\* A deletion the client books as done is in the server's tombstone store, unless
\* that store itself failed to take or to keep it (delete_file, delete_ack): an
\* acknowledgement is never taken for another path's, for any plan, window,
\* interleaving, edits and failures.
THEOREM DeletionsRecorded == Spec => []DeletionRecorded
<1>1. DelInv => DeletionRecorded
  BY Zenon DEF DelInv
<1>2. QED
  BY <1>1, DelInit, DelStep, PTL DEF Spec

-----------------------------------------------------------------------------
(* The answers to uploads. *)

\* A put_done is under way only once the client waits for the answer.
NoDone(q, late) == \A i \in 1..Len(q) : q[i].t = "put_done" => late
\* One put_start, for the content d of path p; what ends that upload comes behind it,
\* and what is before it are the remains of an upload refused earlier.
Carries(q, p, d, late) ==
    \E k \in 1..Len(q) :
        /\ q[k].t = "put_start" /\ q[k].path = p /\ q[k].hash = d
        /\ \A i \in 1..Len(q) : i # k => q[i].t # "put_start"
        /\ \A i \in 1..Len(q) : i > k /\ q[i].t = "put_done" => late
\* A positive answer is given to a client that waits, for what was installed last.
Honest(q) ==
    \A i \in 1..Len(q) : q[i].t = "put_ack" /\ q[i].ok =>
        cpc = "await" /\ landed.path = job.path /\ landed.got = job.data

\* The four moments of an upload: there is none; its put_start is under way; the
\* server takes it; its one answer is under way.
Idle == Free(c2s, "put_start") /\ ~incoming.on /\ Free(s2c, "put_ack")
Asked == Carries(c2s, job.path, job.data, cpc = "await") /\ ~incoming.on /\ Free(s2c, "put_ack")
Taken ==
    /\ Free(c2s, "put_start") /\ NoDone(c2s, cpc = "await") /\ Free(s2c, "put_ack")
    /\ incoming.on /\ incoming.path = job.path /\ incoming.hash = job.data
Told ==
    /\ Free(c2s, "put_start") /\ ~incoming.on
    /\ Only(s2c, "put_ack", job.path) /\ Honest(s2c)
Uploading == cpc \in {"open", "send", "await"} /\ job.op = "put" /\ job.data # Absent

PutInv ==
    /\ IsSeq(c2s) /\ IsSeq(s2c) /\ IsSeq(plan)
    /\ \A i \in 1..Len(plan) : plan[i].data # Absent
    /\ {"op", "path", "data"} \subseteq DOMAIN job
    /\ {"on", "path", "got", "hash"} \subseteq DOMAIN incoming
    /\ cpc = "failed" \/ Idle \/ (Uploading /\ (Asked \/ Taken \/ Told))

LEMMA PutInit == Init => PutInv
<1> SUFFICES ASSUME Init PROVE PutInv
  BY Zenon
<1>1. IsSeq(plan) /\ DOMAIN plan = 1..Len(plan)
  <2> DEFINE Items == {plan[i] : i \in DOMAIN plan}
  <2>1. plan \in Seq(Items)
    BY PlansAssumption, Zenon DEF Init
  <2> HIDE DEF Items
  <2>2. QED
    BY <2>1 DEF IsSeq
<1>2. \A i \in 1..Len(plan) : plan[i].data # Absent
  BY <1>1, PlansAssumption, Zenon DEF Init
<1>3. Idle
  BY EmptySeq DEF Init, Idle, Free, NoUpload
<1>4. QED
  BY <1>1, <1>2, <1>3, EmptySeq, Zenon DEF Init, PutInv, NoJob, NoUpload

\* Behind an upload under way goes anything but another one.
LEMMA CarriesMore ==
    ASSUME NEW q, IsSeq(q), NEW p, NEW d, NEW late, Carries(q, p, d, late), NEW m, NEW later,
           m.t # "put_start", late => later, m.t = "put_done" => later
    PROVE  Carries(Append(q, m), p, d, later)
<1>1. PICK k \in 1..Len(q) :
        /\ q[k].t = "put_start" /\ q[k].path = p /\ q[k].hash = d
        /\ \A i \in 1..Len(q) : i # k => q[i].t # "put_start"
        /\ \A i \in 1..Len(q) : i > k /\ q[i].t = "put_done" => late
  BY Zenon DEF Carries
<1> DEFINE r == Append(q, m)
<1>2. Len(q) \in Nat /\ Len(r) = Len(q) + 1 /\ r[Len(q) + 1] = m /\ \A i \in 1..Len(q) : r[i] = q[i]
  BY AppendSeq, SMTT(30)
<1> HIDE DEF r
<1>3. \A i \in 1..Len(r) : (i \in 1..Len(q) /\ r[i] = q[i]) \/ r[i] = m
  BY <1>2, SMTT(30)
<1>4. k \in 1..Len(r) /\ r[k] = q[k]
  BY <1>2, SMTT(30)
<1>5. \A i \in 1..Len(r) : i # k => r[i].t # "put_start"
  BY <1>1, <1>3, Zenon
<1>6. \A i \in 1..Len(r) : i > k /\ r[i].t = "put_done" => later
  BY <1>1, <1>3, Zenon
<1>7. QED
  BY <1>1, <1>4, <1>5, <1>6, Zenon DEF Carries, r

\* The server reads on: the remains of an earlier upload, or the put_start itself.
LEMMA CarriesLess ==
    ASSUME NEW q, IsSeq(q), q # <<>>, NEW p, NEW d, NEW late, Carries(q, p, d, late)
    PROVE  /\ Head(q).t # "put_start" => Carries(Tail(q), p, d, late)
           /\ Head(q).t = "put_start" =>
                /\ Head(q).path = p /\ Head(q).hash = d
                /\ Free(Tail(q), "put_start") /\ NoDone(Tail(q), late)
<1>1. PICK k \in 1..Len(q) :
        /\ q[k].t = "put_start" /\ q[k].path = p /\ q[k].hash = d
        /\ \A i \in 1..Len(q) : i # k => q[i].t # "put_start"
        /\ \A i \in 1..Len(q) : i > k /\ q[i].t = "put_done" => late
  BY Zenon DEF Carries
<1> DEFINE r == Tail(q)
<1>2. /\ Len(q) \in Nat \ {0} /\ Len(r) = Len(q) - 1 /\ Head(q) = q[1]
      /\ \A i \in 1..Len(q) - 1 : r[i] = q[i + 1]
  BY TailSeq, Zenon
<1> HIDE DEF r
<1>3. \A i \in 1..Len(r) : i + 1 \in 1..Len(q) /\ r[i] = q[i + 1] /\ i \in Nat /\ i # 0
  BY <1>2, SMTT(30)
<1>4. ASSUME Head(q).t # "put_start" PROVE Carries(r, p, d, late)
  <2>1. k # 1 /\ k - 1 \in 1..Len(r) /\ (k - 1) + 1 = k
    BY <1>1, <1>2, <1>4, SMTT(30)
  <2>2. r[k - 1] = q[k]
    BY <1>3, <2>1, Zenon
  <2>3. \A i \in 1..Len(r) : i # k - 1 => r[i].t # "put_start"
    BY <1>1, <1>3, <2>1
  <2>4. \A i \in 1..Len(r) : i > k - 1 /\ r[i].t = "put_done" => late
    BY <1>1, <1>3, <2>1, SMTT(30)
  <2>5. QED
    BY <1>1, <2>1, <2>2, <2>3, <2>4, ZenonT(30) DEF Carries
<1>5. ASSUME Head(q).t = "put_start"
      PROVE  Head(q).path = p /\ Head(q).hash = d /\ Free(r, "put_start") /\ NoDone(r, late)
  <2>1. 1 \in 1..Len(q)
    BY <1>2, SMTT(30)
  <2>2. k = 1
    BY <1>1, <1>2, <1>5, <2>1, Zenon
  <2>3. \A i \in 1..Len(r) : i + 1 > 1 /\ i + 1 # 1
    BY <1>3, SMTT(30)
  <2>4. Free(r, "put_start")
    BY <1>1, <1>3, <2>2, <2>3, Zenon DEF Free
  <2>5. NoDone(r, late)
    BY <1>1, <1>3, <2>2, <2>3, Zenon DEF NoDone
  <2>6. QED
    BY <1>1, <1>2, <2>2, <2>4, <2>5, Zenon
<1>6. QED
  BY <1>4, <1>5, Zenon DEF r

\* A put_start behind messages that hold none.
LEMMA CarriesFirst ==
    ASSUME NEW q, IsSeq(q), Free(q, "put_start"), NEW m, m.t = "put_start", NEW late
    PROVE  Carries(Append(q, m), m.path, m.hash, late)
<1> DEFINE r == Append(q, m)
<1>1. Len(q) \in Nat /\ Len(r) = Len(q) + 1 /\ r[Len(q) + 1] = m /\ \A i \in 1..Len(q) : r[i] = q[i]
  BY AppendSeq
<1> HIDE DEF r
<1> DEFINE k == Len(q) + 1
<1>2. k \in 1..Len(r) /\ r[k] = m
  BY <1>1
<1>3. \A i \in 1..Len(r) : ~(i > k) /\ (i # k => i \in 1..Len(q))
  BY <1>1
<1>4. \A i \in 1..Len(r) : i # k => r[i].t # "put_start"
  BY <1>1, <1>3, Zenon DEF Free
<1> HIDE DEF k
<1>5. QED
  BY <1>2, <1>3, <1>4, Zenon DEF Carries, r

LEMMA NoDoneMoves ==
    ASSUME NEW q, IsSeq(q), NEW late, NoDone(q, late), NEW later, late => later
    PROVE  /\ NoDone(q, later)
           /\ q # <<>> => NoDone(Tail(q), later)
           /\ q # <<>> /\ Head(q).t = "put_done" => late
           /\ \A m : (m.t = "put_done" => later) => NoDone(Append(q, m), later)
<1>1. NoDone(q, later)
  BY Zenon DEF NoDone
<1>2. ASSUME q # <<>> PROVE NoDone(Tail(q), later) /\ (Head(q).t = "put_done" => late)
  <2>1. /\ Len(q) \in Nat \ {0} /\ Len(Tail(q)) = Len(q) - 1 /\ Head(q) = q[1]
        /\ \A i \in 1..Len(q) - 1 : Tail(q)[i] = q[i + 1]
    BY <1>2, TailSeq, Zenon
  <2>2. 1 \in 1..Len(q) /\ \A i \in 1..Len(Tail(q)) : i + 1 \in 1..Len(q) /\ Tail(q)[i] = q[i + 1]
    BY <2>1
  <2>3. QED
    BY <2>1, <2>2, Zenon DEF NoDone
<1>3. ASSUME NEW m, m.t = "put_done" => later PROVE NoDone(Append(q, m), later)
  <2>1. \A i \in 1..Len(Append(q, m)) :
           (i \in 1..Len(q) /\ Append(q, m)[i] = q[i]) \/ Append(q, m)[i] = m
    <3>1. Len(q) \in Nat /\ Len(Append(q, m)) = Len(q) + 1
      BY AppendSeq, Zenon
    <3>2. \A i \in 1..Len(Append(q, m)) : i \in 1..Len(q) \/ i = Len(q) + 1
      BY <3>1
    <3>3. QED
      BY <3>2, AppendSeq
  <2>2. QED
    BY <1>3, <2>1, Zenon DEF NoDone
<1>4. QED
  BY <1>1, <1>2, <1>3, Zenon

\* Positive answers among fewer messages, or with one more that is none.
LEMMA PositiveMoves ==
    ASSUME NEW q, IsSeq(q), NEW r, Passes(q, r, "put_ack"), NEW i \in 1..Len(r), r[i].t = "put_ack"
    PROVE  \E j \in 1..Len(q) : q[j] = r[i]
<1>1. CASE r = q
  BY <1>1, Zenon
<1>2. CASE r = <<>>
  BY <1>2, EmptySeq
<1>3. CASE q # <<>> /\ r = Tail(q)
  <2>1. /\ Len(q) \in Nat \ {0} /\ Len(r) = Len(q) - 1
        /\ \A k \in 1..Len(q) - 1 : r[k] = q[k + 1]
    BY <1>3, TailSeq, Zenon
  <2>2. i + 1 \in 1..Len(q) /\ r[i] = q[i + 1]
    BY <2>1
  <2>3. QED
    BY <2>2, Zenon
<1>4. CASE \E m : m.t # "put_ack" /\ r = Append(q, m)
  <2>1. PICK m : m.t # "put_ack" /\ r = Append(q, m)
    BY <1>4, Zenon
  <2>2. Len(q) \in Nat /\ Len(r) = Len(q) + 1 /\ r[Len(q) + 1] = m /\ \A k \in 1..Len(q) : r[k] = q[k]
    BY <2>1, AppendSeq
  <2>3. i # Len(q) + 1
    BY <2>1, <2>2, Zenon
  <2>4. i \in 1..Len(q)
    BY <2>2, <2>3
  <2>5. QED
    BY <2>2, <2>4, Zenon
<1>5. QED
  BY <1>1, <1>2, <1>3, <1>4, Zenon DEF Passes

\* A step that leaves uploads alone: no put_start passes, no answer is given.
Apart ==
    /\ Passes(c2s, c2s', "put_start") /\ Passes(s2c, s2c', "put_ack")
    /\ incoming'.on = incoming.on \/ ~incoming'.on

LEMMA IdleKeeps == ASSUME PutInv, Idle, Apart PROVE Idle' /\ IsSeq(c2s') /\ IsSeq(s2c')
<1>1. IsSeq(c2s') /\ Free(c2s', "put_start")
  BY PassesKeeps, Zenon DEF PutInv, Idle, Apart
<1>2. IsSeq(s2c') /\ Free(s2c', "put_ack")
  BY PassesKeeps, Zenon DEF PutInv, Idle, Apart
<1>3. QED
  BY <1>1, <1>2, Zenon DEF Idle, Apart

\* What stays of the client's upload when neither its locals nor what the server
\* installed changes.
Held ==
    /\ {"op", "path", "data"} \subseteq DOMAIN job'
    /\ job'.op = job.op /\ job'.path = job.path /\ job'.data = job.data
    /\ plan' = plan /\ landed' = landed /\ incoming' = incoming

\* A step of the sending client, or one that touches no message.
Speaks ==
    /\ Held /\ s2c' = s2c
    /\ cpc' = cpc \/ (cpc \in {"open", "send"} /\ cpc' \in {"send", "await"})
    /\ \/ c2s' = c2s
       \/ \E m : /\ m.t # "put_start" /\ (m.t = "put_done" => cpc' = "await")
                 /\ c2s' = Append(c2s, m)

LEMMA SpeaksKeeps == PutInv /\ Speaks => PutInv'
<1> SUFFICES ASSUME PutInv, Speaks PROVE PutInv'
  BY Zenon
<1>1. Passes(c2s, c2s', "put_start") /\ Passes(s2c, s2c', "put_ack")
  BY PassesCases, Zenon DEF Speaks
<1>2. IsSeq(c2s') /\ IsSeq(s2c')
  BY <1>1, PassesKeeps, Zenon DEF PutInv
<1>3. (cpc = "failed" => cpc' = "failed") /\ (Uploading => Uploading')
  BY Zenon DEF Speaks, Held, Uploading
<1>4. Idle => Idle'
  BY <1>1, IdleKeeps, Zenon DEF Apart, Speaks, Held
<1>5. (cpc = "await") => (cpc' = "await")
  BY DEF Speaks
<1>6. ASSUME Asked PROVE Asked'
  <2>1. Carries(c2s', job.path, job.data, cpc' = "await")
    <3>1. CASE c2s' = c2s
      BY <1>5, <1>6, <3>1, ZenonT(30) DEF Asked, Carries
    <3>2. CASE \E m : /\ m.t # "put_start" /\ (m.t = "put_done" => cpc' = "await")
                      /\ c2s' = Append(c2s, m)
      <4>1. PICK m : /\ m.t # "put_start" /\ (m.t = "put_done" => cpc' = "await")
                     /\ c2s' = Append(c2s, m)
        BY <3>2, Zenon
      <4>2. IsSeq(c2s) /\ Carries(c2s, job.path, job.data, cpc = "await")
        BY <1>6, Zenon DEF Asked, PutInv
      <4>3. Carries(Append(c2s, m), job.path, job.data, cpc' = "await")
        BY <1>5, <4>1, <4>2, CarriesMore, Zenon
      <4>4. QED
        BY <4>1, <4>3, Zenon
    <3>3. QED
      BY <3>1, <3>2, Zenon DEF Speaks
  <2>2. QED
    BY <1>6, <2>1 DEF Asked, Speaks, Held
<1>7. Free(c2s, "put_start") => Free(c2s', "put_start")
  BY <1>1, PassesKeeps, Zenon DEF PutInv
<1>8. ASSUME Taken PROVE Taken'
  <2>1. NoDone(c2s', cpc' = "await")
    <3>1. IsSeq(c2s) /\ NoDone(c2s, cpc = "await")
      BY <1>8, Zenon DEF Taken, PutInv
    <3>2. /\ NoDone(c2s, cpc' = "await")
          /\ \A m : (m.t = "put_done" => cpc' = "await") => NoDone(Append(c2s, m), cpc' = "await")
      BY <1>5, <3>1, NoDoneMoves, Zenon
    <3>3. QED
      BY <3>2, Zenon DEF Speaks
  <2>2. QED
    BY <1>7, <1>8, <2>1, Zenon DEF Taken, Speaks, Held
<1>9. Told => Told'
  BY <1>5, <1>7, Zenon DEF Told, Honest, Speaks, Held
<1>10. QED
  BY <1>2, <1>3, <1>4, <1>6, <1>8, <1>9, Zenon DEF PutInv, Speaks, Held

\* A step that takes a message of no upload, or answers none.
Listens ==
    /\ Held /\ cpc' = cpc
    /\ c2s' = c2s \/ (c2s # <<>> /\ Head(c2s).t # "put_start" /\ c2s' = Tail(c2s))
    /\ Passes(s2c, s2c', "put_ack")

LEMMA ListensKeeps == PutInv /\ Listens => PutInv'
<1> SUFFICES ASSUME PutInv, Listens PROVE PutInv'
  BY Zenon
<1>1. Passes(c2s, c2s', "put_start") /\ Passes(s2c, s2c', "put_ack")
  BY PassesCases, Zenon DEF Listens
<1>2. /\ IsSeq(c2s') /\ IsSeq(s2c') /\ (Free(c2s, "put_start") => Free(c2s', "put_start"))
      /\ (Free(s2c, "put_ack") => Free(s2c', "put_ack"))
      /\ \A p : Only(s2c, "put_ack", p) => Only(s2c', "put_ack", p)
  BY <1>1, PassesKeeps, Zenon DEF PutInv
<1>3. (cpc = "failed" => cpc' = "failed") /\ (Uploading => Uploading')
  BY DEF Listens, Held, Uploading
<1>4. Idle => Idle'
  BY <1>1, IdleKeeps DEF Apart, Listens, Held
<1>5. ASSUME Asked PROVE Asked'
  <2>1. Carries(c2s', job.path, job.data, cpc = "await")
    BY <1>5, CarriesLess, ZenonT(30) DEF Asked, PutInv, Listens
  <2>2. QED
    BY <1>2, <1>5, <2>1 DEF Asked, Listens, Held
<1>6. ASSUME Taken PROVE Taken'
  <2>1. NoDone(c2s', cpc = "await")
    BY <1>6, NoDoneMoves, Zenon DEF Taken, PutInv, Listens
  <2>2. QED
    BY <1>2, <1>6, <2>1 DEF Taken, Listens, Held
<1>7. ASSUME Told PROVE Told'
  <2>1. Honest(s2c)'
    <3>1. ASSUME NEW i \in 1..Len(s2c'), s2c'[i].t = "put_ack", s2c'[i].ok
          PROVE  cpc = "await" /\ landed.path = job.path /\ landed.got = job.data
      <4>1. PICK j \in 1..Len(s2c) : s2c[j] = s2c'[i]
        BY <1>1, <3>1, PositiveMoves DEF PutInv
      <4>2. QED
        BY <1>7, <3>1, <4>1, Zenon DEF Told, Honest
    <3>2. QED
      BY <3>1, Zenon DEF Honest, Listens, Held
  <2>2. QED
    BY <1>2, <1>7, <2>1, Zenon DEF Told, Listens, Held
<1>8. QED
  BY <1>2, <1>3, <1>4, <1>5, <1>6, <1>7, Zenon DEF PutInv, Listens, Held

\* Only an idle client is at another place than those of an upload.
LEMMA IdlePlaces ==
    PutInv /\ (cpc \in {"next", "request", "receive", "verify", "ok"} \/ job.op # "put")
        => Idle \/ cpc = "failed"
  BY Zenon DEF PutInv, Uploading

\* A step of a client that uploads nothing.
Elsewhere ==
    /\ Apart /\ (Idle \/ cpc' = "failed")
    /\ IsSeq(plan') /\ \A i \in 1..Len(plan') : plan'[i].data # Absent
    /\ {"op", "path", "data"} \subseteq DOMAIN job'
    /\ {"on", "path", "got", "hash"} \subseteq DOMAIN incoming'

LEMMA ElsewhereKeeps == PutInv /\ Elsewhere => PutInv'
<1> SUFFICES ASSUME PutInv, Elsewhere PROVE PutInv'
  BY Zenon
<1>1. IsSeq(c2s') /\ IsSeq(s2c')
  BY PassesKeeps, Zenon DEF PutInv, Elsewhere, Apart
<1>2. Idle' \/ cpc' = "failed"
  BY IdleKeeps, Zenon DEF Elsewhere
<1>3. QED
  BY <1>1, <1>2, Zenon DEF PutInv, Elsewhere

LEMMA PutClient == PutInv /\ (Client \/ Abort) => PutInv'
<1> SUFFICES ASSUME PutInv, Client \/ Abort PROVE PutInv'
  BY Zenon
<1>0. /\ {"op", "path", "data"} \subseteq DOMAIN NoJob
      /\ \A p : Msg("get_file", p).t # "put_start" /\ Msg("put_done", p).t # "put_start"
                /\ Msg("sync_complete", p).t # "put_start" /\ Msg("delete_file", p).t # "put_start"
      /\ \A b : Bin(b).t # "put_start" /\ Bin(b).t # "put_done"
  BY Zenon DEF NoJob, Msg, Bin
<1>a. UNCHANGED <<incoming, landed>>
  BY Zenon DEF Client, Abort, StartJob, Request, Receive, Install, OpenUpload, SendChunk, AwaitAck,
         Complete, ClientOnly, serverVars
<1>b. /\ {"op", "path", "data"} \subseteq DOMAIN job
      /\ {"on", "path", "got", "hash"} \subseteq DOMAIN incoming'
  BY <1>a, Zenon DEF PutInv
<1>1. CASE StartJob
  <2> DEFINE w == Head(plan)
             new == [NoJob EXCEPT !.op = w.op, !.path = w.path, !.data = w.data, !.attempt = 1]
  <2>1. /\ new.op = w.op /\ new.path = w.path /\ new.data = w.data
        /\ {"op", "path", "data"} \subseteq DOMAIN new
    BY Zenon DEF NoJob
  <2>2. Idle
    BY <1>1, IdlePlaces, Zenon DEF StartJob
  <2>3. /\ IsSeq(plan') /\ \A i \in 1..Len(plan') : plan'[i].data # Absent
        /\ w.data # Absent
    <3>1. plan # <<>> /\ plan' = Tail(plan)
      BY <1>1, Zenon DEF StartJob
    <3>2. /\ IsSeq(plan') /\ 1 \in 1..Len(plan) /\ w = plan[1]
          /\ \A i \in 1..Len(plan') : i + 1 \in 1..Len(plan) /\ plan'[i] = plan[i + 1]
      BY <3>1, TailSeq DEF PutInv
    <3>3. QED
      BY <3>2, Zenon DEF PutInv
  <2>4. s2c' = s2c
    BY <1>1, Zenon DEF StartJob
  <2>5. CASE job' = new /\ w.op = "put" /\ cpc' = "open" /\ ToServer(PutStart(w.path, w.data))
    <3> DEFINE m == PutStart(w.path, w.data)
    <3>1. m.t = "put_start" /\ m.path = w.path /\ m.hash = w.data
      BY Zenon DEF PutStart
    <3>2. c2s' = Append(c2s, m)
      BY <2>5, Zenon DEF ToServer
    <3> HIDE DEF m
    <3>3. IsSeq(c2s) /\ Free(c2s, "put_start")
      BY <2>2, Zenon DEF PutInv, Idle
    <3>4. Carries(c2s', m.path, m.hash, cpc' = "await")
      BY <3>1, <3>2, <3>3, CarriesFirst, Zenon
    <3>5. Asked'
      BY <1>a, <2>1, <2>2, <2>4, <2>5, <3>1, <3>4, Zenon DEF Asked, Idle
    <3>6. IsSeq(c2s') /\ IsSeq(s2c')
      BY <2>4, <3>2, <3>3, AppendSeq, Zenon DEF PutInv
    <3> HIDE DEF new, w
    <3>7. Uploading'
      BY <2>1, <2>3, <2>5, Zenon DEF Uploading
    <3>8. QED
      BY <1>b, <2>1, <2>3, <2>5, <3>5, <3>6, <3>7, Zenon DEF PutInv
  <2>6. CASE /\ job' = new \/ job' = job
             /\ c2s' = c2s \/ c2s' = Append(c2s, Msg("delete_file", w.path))
    <3>1. Apart
      BY <1>0, <1>a, <2>4, <2>6, PassesCases, Zenon DEF Apart
    <3>2. {"op", "path", "data"} \subseteq DOMAIN job'
      BY <1>b, <2>1, <2>6, Zenon
    <3>3. QED
      BY <1>b, <2>2, <2>3, <3>1, <3>2, ElsewhereKeeps, Zenon DEF Elsewhere
  <2>7. QED
    BY <1>1, <2>5, <2>6, Zenon DEF StartJob, ToServer
<1>2. CASE Request \/ Receive \/ Install \/ Complete \/ Abort
  <2>1. Idle \/ cpc' = "failed"
    <3>1. CASE Abort
      BY <3>1, Zenon DEF Abort
    <3>2. CASE Request \/ Receive \/ Install \/ Complete
      BY <3>2, IdlePlaces, Zenon DEF Request, Receive, Install, Complete
    <3>3. QED
      BY <1>2, <3>1, <3>2, Zenon
  <2>2. plan' = plan
    BY <1>2, Zenon DEF Request, Receive, Install, Complete, Abort
  <2>3. {"op", "path", "data"} \subseteq DOMAIN job'
    <3>1. CASE Request \/ Install
      BY <1>0, <1>b, <3>1, Zenon DEF Request, Install, NextAttempt
    <3>2. CASE Receive
      BY <1>b, <3>2, Zenon DEF Receive
    <3>3. CASE Complete \/ Abort
      BY <1>0, <1>b, <3>3, Zenon DEF Complete, Abort
    <3>4. QED
      BY <1>2, <3>1, <3>2, <3>3, Zenon
  <2>4. Passes(c2s, c2s', "put_start")
    BY <1>0, <1>2, PassesCases, Zenon DEF Request, Receive, Install, Complete, Abort, ToServer
  <2>5. Passes(s2c, s2c', "put_ack")
    BY <1>2, PassesCases, Zenon DEF Request, Receive, Install, Complete, Abort
  <2>6. QED
    BY <1>a, <1>b, <2>1, <2>2, <2>3, <2>4, <2>5, ElsewhereKeeps, Zenon DEF Elsewhere, Apart, PutInv
<1>3. CASE OpenUpload
  <2>1. Held
    BY <1>3, <1>a, <1>b, Zenon DEF OpenUpload, Held
  <2>2. Speaks
    BY <1>0, <1>3, <2>1, Zenon DEF OpenUpload, ToServer, Speaks
  <2>3. QED
    BY <2>2, SpeaksKeeps, Zenon
<1>4. CASE SendChunk
  <2>1. Held
    BY <1>4, <1>a, <1>b, Zenon DEF SendChunk, Held
  <2>2. \/ c2s' = Append(c2s, Bin(job.got[job.off + 1])) /\ cpc' = cpc
        \/ c2s' = Append(c2s, Msg("put_done", job.path)) /\ cpc' = "await"
    BY <1>4, Zenon DEF SendChunk, ToServer
  <2>3. Speaks
    BY <1>0, <1>4, <2>1, <2>2, Zenon DEF SendChunk, Speaks
  <2>4. QED
    BY <2>3, SpeaksKeeps, Zenon
<1>5. CASE AwaitAck
  <2>1. s2c # <<>> /\ s2c' = Tail(s2c) /\ c2s' = c2s /\ cpc = "await" /\ plan' = plan
    BY <1>5, Zenon DEF AwaitAck
  <2>2. Passes(s2c, s2c', "put_ack") /\ Passes(c2s, c2s', "put_start")
    BY <2>1, PassesCases, Zenon
  <2>3. CASE Head(s2c).t # Wanted
    <3>1. UNCHANGED <<cpc, job>>
      BY <1>5, <2>3, Zenon DEF AwaitAck
    <3>2. Listens
      BY <1>a, <1>b, <2>1, <2>2, <3>1, Zenon DEF Listens, Held
    <3>3. QED
      BY <3>2, ListensKeeps, Zenon
  <2>4. CASE Head(s2c).t = Wanted
    <3>1. cpc' = "next" /\ job' = NoJob
      BY <1>5, <2>4, Zenon DEF AwaitAck
    <3>2. CASE job.op # "put"
      <4>1. Idle
        BY <2>1, <3>2, IdlePlaces, Zenon
      <4>2. QED
        BY <1>0, <1>a, <1>b, <2>1, <2>2, <3>1, <4>1, ElsewhereKeeps, Zenon DEF Elsewhere, Apart, PutInv
    <3>3. CASE job.op = "put"
      <4>1. Head(s2c).t = "put_ack"
        BY <2>4, <3>3, Zenon DEF Wanted
      <4>2. IsSeq(s2c) /\ IsSeq(c2s)
        BY Zenon DEF PutInv
      <4>3. ~Free(s2c, "put_ack")
        <5>1. 1 \in 1..Len(s2c) /\ Head(s2c) = s2c[1]
          BY <2>1, <4>2, TailSeq, SMTT(30)
        <5>2. QED
          BY <4>1, <5>1, Zenon DEF Free
      <4>4. Told
        BY <2>1, <4>3, Zenon DEF PutInv, Idle, Asked, Taken
      <4>5. Free(s2c', "put_ack")
        BY <2>1, <4>1, <4>2, <4>4, LastOfKind, Zenon DEF Told
      <4>6. Idle'
        BY <1>a, <2>1, <4>4, <4>5, Zenon DEF Told, Idle
      <4>7. IsSeq(s2c')
        BY <2>1, <4>2, TailSeq, Zenon
      <4>8. QED
        BY <1>0, <1>b, <2>1, <3>1, <4>2, <4>6, <4>7, Zenon DEF PutInv
    <3>4. QED
      BY <3>2, <3>3, Zenon
  <2>5. QED
    BY <2>3, <2>4, Zenon
<1>6. QED
  BY <1>1, <1>2, <1>3, <1>4, <1>5, Zenon DEF Client

\* An answer after which no transfer is open.
LEMMA TellsIt ==
    ASSUME PutInv, Uploading, Free(s2c, "put_ack"), Free(c2s', "put_start"), IsSeq(c2s'),
           NEW ok, s2c' = Append(s2c, Ack("put_ack", job.path, ok)),
           ok => cpc = "await" /\ landed'.path = job.path /\ landed'.got = job.data,
           ~incoming'.on, {"on", "path", "got", "hash"} \subseteq DOMAIN incoming',
           UNCHANGED <<cpc, job, plan>>
    PROVE  PutInv'
<1> DEFINE m == Ack("put_ack", job.path, ok)
<1>1. m.t = "put_ack" /\ m.path = job.path /\ m.ok = ok
  BY Zenon DEF Ack
<1> HIDE DEF m
<1>2. s2c' = Append(s2c, m)
  BY Zenon DEF m
<1>3. IsSeq(s2c') /\ Only(s2c', "put_ack", job.path)
  BY <1>1, <1>2, FirstOfKind, Zenon DEF PutInv
<1>4. Honest(s2c)'
  <2>1. Len(s2c) \in Nat /\ Len(s2c') = Len(s2c) + 1 /\ s2c'[Len(s2c) + 1] = m
        /\ \A i \in 1..Len(s2c) : s2c'[i] = s2c[i]
    BY <1>2, AppendSeq, SMTT(30) DEF PutInv
  <2>2. \A i \in 1..Len(s2c') : s2c'[i].t = "put_ack" => s2c'[i] = m
    BY <2>1, SMTT(30) DEF Free
  <2>3. QED
    BY <1>1, <2>2, Zenon DEF Honest
<1>5. Told'
  BY <1>3, <1>4, Zenon DEF Told
<1>6. Uploading'
  BY Zenon DEF Uploading
<1>7. QED
  BY <1>3, <1>5, <1>6, Zenon DEF PutInv

LEMMA PutServer == PutInv /\ (ServerStep \/ ServerEnds) => PutInv'
<1> SUFFICES ASSUME PutInv, ServerStep \/ ServerEnds PROVE PutInv'
  BY Zenon
<1>0. UNCHANGED <<cpc, job, plan>>
  BY Zenon DEF ServerStep, ServerEnds, GetFile, ServeHash, ServeChunk, DeleteFile, PutStartArrives,
         BinArrives, PutDone, ServerOnly, clientVars
<1>a. /\ {"op", "path", "data"} \subseteq DOMAIN job'
      /\ {"on", "path", "got", "hash"} \subseteq DOMAIN incoming
      /\ {"on", "path", "got", "hash"} \subseteq DOMAIN NoUpload /\ ~NoUpload.on
      /\ IsSeq(c2s) /\ IsSeq(s2c) /\ IsSeq(plan) /\ \A i \in 1..Len(plan) : plan[i].data # Absent
  BY <1>0, Zenon DEF PutInv, NoUpload
<1>b. /\ \A p : /\ Msg("file_error", p).t # "put_ack" /\ Msg("file_done", p).t # "put_ack"
                /\ Ack("delete_ack", p, TRUE).t # "put_ack"
                /\ Ack("delete_ack", p, FALSE).t # "put_ack"
      /\ \A b : Bin(b).t # "put_ack"
      /\ \A p, n, h : Meta(p, n, h).t # "put_ack"
  BY Zenon DEF Msg, Ack, Bin, Meta
<1>c. ASSUME c2s # <<>>, c2s' = Tail(c2s)
      PROVE  IsSeq(c2s') /\ (Free(c2s, "put_start") => Free(c2s', "put_start"))
  <2>1. Passes(c2s, c2s', "put_start")
    BY <1>c, PassesCases, Zenon
  <2>2. QED
    BY <1>a, <2>1, PassesKeeps, Zenon
<1>1. CASE GetFile \/ ServeHash \/ ServeChunk \/ DeleteFile
  <2>1. Held
    BY <1>0, <1>1, <1>a, Zenon DEF GetFile, ServeHash, ServeChunk, DeleteFile, Held
  <2>2. c2s' = c2s \/ (c2s # <<>> /\ Head(c2s).t # "put_start" /\ c2s' = Tail(c2s))
    BY <1>1, Zenon DEF GetFile, ServeHash, ServeChunk, DeleteFile, Server
  <2>3. Passes(s2c, s2c', "put_ack")
    <3>1. CASE GetFile
      BY <1>b, <3>1, PassesCases, Zenon DEF GetFile, ToClient
    <3>2. CASE ServeHash
      <4>1. s2c' = s2c \/ s2c' = Append(s2c, Meta(serve.path, serve.size, serve.sum))
        BY <3>2, Zenon DEF ServeHash, ToClient
      <4>2. QED
        BY <1>b, <4>1, PassesCases, Zenon
    <3>3. CASE ServeChunk
      <4>1. \/ s2c' = Append(s2c, Bin(serve.ino[serve.off + 1]))
            \/ s2c' = Append(s2c, Msg("file_done", serve.path))
        BY <3>3, Zenon DEF ServeChunk, ToClient
      <4>2. QED
        BY <1>b, <4>1, PassesCases, Zenon
    <3>4. CASE DeleteFile
      <4>1. \/ s2c' = Append(s2c, Ack("delete_ack", Head(c2s).path, TRUE))
            \/ s2c' = Append(s2c, Ack("delete_ack", Head(c2s).path, FALSE))
        BY <3>4, Zenon DEF DeleteFile, ToClient
      <4>2. QED
        BY <1>b, <4>1, PassesCases, Zenon
    <3>5. QED
      BY <1>1, <3>1, <3>2, <3>3, <3>4, Zenon
  <2>4. Listens
    BY <1>0, <2>1, <2>2, <2>3, Zenon DEF Listens
  <2>5. QED
    BY <2>4, ListensKeeps, Zenon
<1>2. ASSUME cpc = "failed", IsSeq(c2s'), IsSeq(s2c'),
             {"on", "path", "got", "hash"} \subseteq DOMAIN incoming'
      PROVE  PutInv'
  BY <1>0, <1>2, <1>a, Zenon DEF PutInv
<1>3. CASE PutStartArrives
  <2> DEFINE m == Head(c2s)
  <2>1. c2s # <<>> /\ m.t = "put_start" /\ c2s' = Tail(c2s) /\ landed' = landed
    BY <1>3, Zenon DEF PutStartArrives, Server
  <2>2. \/ s2c' = Append(s2c, Ack("put_ack", m.path, FALSE)) /\ incoming' = incoming
        \/ /\ s2c' = s2c
           /\ incoming' = [on |-> TRUE, path |-> m.path, got |-> <<>>, size |-> m.size,
                           hash |-> m.hash]
    BY <1>3, Zenon DEF PutStartArrives, reject_put, ToClient
  <2>3. IsSeq(c2s') /\ IsSeq(s2c') /\ {"on", "path", "got", "hash"} \subseteq DOMAIN incoming'
    <3>1. IsSeq(c2s')
      BY <1>c, <2>1, Zenon
    <3>2. IsSeq(s2c')
      <4>1. s2c' = s2c \/ s2c' = Append(s2c, Ack("put_ack", m.path, FALSE))
        BY <2>2, Zenon
      <4>2. QED
        <5>1. IsSeq(s2c)
          BY <1>a, Zenon
        <5>2. QED
          BY <4>1, <5>1, AppendSeq, ZenonT(30)
    <3>3. {"on", "path", "got", "hash"} \subseteq DOMAIN incoming'
      <4>1. CASE incoming' = incoming
        BY <1>a, <4>1, Zenon
      <4>2. CASE incoming' = [on |-> TRUE, path |-> m.path, got |-> <<>>, size |-> m.size,
                              hash |-> m.hash]
        BY <4>2, Zenon
      <4>3. QED
        BY <2>2, <4>1, <4>2, Zenon
    <3>4. QED
      BY <3>1, <3>2, <3>3, Zenon
  <2>4. CASE cpc # "failed"
    <3>1. ~Free(c2s, "put_start")
      <4>1. 1 \in 1..Len(c2s) /\ m = c2s[1]
        BY <1>a, <2>1, TailSeq, SMTT(30)
      <4>2. QED
        BY <2>1, <4>1, Zenon DEF Free
    <3>2. Uploading /\ Asked
      BY <2>4, <3>1, Zenon DEF PutInv, Idle, Taken, Told
    <3>3. Carries(c2s, job.path, job.data, cpc = "await")
      BY <3>2, Zenon DEF Asked
    <3>4. /\ m.path = job.path /\ m.hash = job.data
          /\ Free(c2s', "put_start") /\ NoDone(c2s', cpc = "await")
      BY <1>a, <2>1, <3>3, CarriesLess
    <3>5. CASE s2c' = Append(s2c, Ack("put_ack", m.path, FALSE)) /\ incoming' = incoming
      BY <1>0, <2>3, <3>2, <3>4, <3>5, TellsIt, Zenon DEF Asked
    <3>6. CASE /\ s2c' = s2c
               /\ incoming' = [on |-> TRUE, path |-> m.path, got |-> <<>>, size |-> m.size,
                               hash |-> m.hash]
      <4>1. incoming'.on /\ incoming'.path = job.path /\ incoming'.hash = job.data
        BY <3>4, <3>6, Zenon
      <4>2. Taken'
        BY <1>0, <3>2, <3>4, <3>6, <4>1, Zenon DEF Taken, Asked
      <4>3. Uploading'
        BY <1>0, <3>2, Zenon DEF Uploading
      <4>4. QED
        BY <1>0, <1>a, <2>3, <4>2, <4>3, Zenon DEF PutInv
    <3>7. QED
      BY <2>2, <3>5, <3>6, Zenon
  <2>5. QED
    BY <1>2, <2>3, <2>4, Zenon
<1>4. CASE BinArrives
  <2> DEFINE got == Append(incoming.got, Head(c2s).block)
             more == [incoming EXCEPT !.got = got]
  <2>1. c2s # <<>> /\ Head(c2s).t = "bin" /\ c2s' = Tail(c2s) /\ landed' = landed
    BY <1>4, Zenon DEF BinArrives, Server
  <2>2. CASE incoming' = incoming /\ s2c' = s2c
    <3>1. Listens
      BY <1>0, <1>a, <2>1, <2>2, PassesCases, Zenon DEF Listens, Held
    <3>2. QED
      BY <3>1, ListensKeeps, Zenon
  <2>3. CASE incoming.on /\ incoming' = more /\ s2c' = s2c
    <3>1. /\ incoming'.on /\ incoming'.path = incoming.path /\ incoming'.hash = incoming.hash
          /\ {"on", "path", "got", "hash"} \subseteq DOMAIN incoming'
      BY <1>a, <2>3, Zenon
    <3>2. cpc = "failed" \/ (Uploading /\ Taken)
      BY <2>3, Zenon DEF PutInv, Idle, Asked, Told
    <3>3. IsSeq(c2s')
      BY <1>c, <2>1, Zenon
    <3>4. CASE Uploading /\ Taken
      <4>1. NoDone(c2s, cpc = "await") /\ Free(c2s, "put_start")
        BY <3>4, Zenon DEF Taken
      <4>2. NoDone(c2s', cpc = "await") /\ Free(c2s', "put_start")
        BY <1>a, <1>c, <2>1, <4>1, NoDoneMoves, Zenon
      <4>3. Taken'
        BY <1>0, <2>3, <3>1, <3>4, <4>2, Zenon DEF Taken
      <4>4. Uploading'
        BY <1>0, <3>4, Zenon DEF Uploading
      <4>5. QED
        BY <1>0, <1>a, <2>3, <3>1, <3>3, <4>3, <4>4, Zenon DEF PutInv
    <3>5. QED
      BY <1>2, <1>a, <2>3, <3>1, <3>2, <3>3, <3>4, Zenon
  <2>4. CASE /\ incoming.on /\ incoming' = NoUpload
             /\ s2c' = Append(s2c, Ack("put_ack", incoming.path, FALSE))
    <3>1. cpc = "failed" \/ (Uploading /\ Taken)
      BY <2>4, Zenon DEF PutInv, Idle, Asked, Told
    <3>2. IsSeq(c2s') /\ IsSeq(s2c')
      BY <1>a, <1>c, <2>1, <2>4, AppendSeq, Zenon
    <3>3. CASE Uploading /\ Taken
      BY <1>0, <1>a, <1>c, <2>1, <2>4, <3>2, <3>3, TellsIt, Zenon DEF Taken
    <3>4. QED
      BY <1>2, <1>a, <2>4, <3>1, <3>2, <3>3, Zenon
  <2>5. QED
    BY <1>4, <2>2, <2>3, <2>4, Zenon DEF BinArrives, reject_put, ToClient
<1>5. CASE PutDone
  <2>1. c2s # <<>> /\ Head(c2s).t = "put_done" /\ c2s' = Tail(c2s)
    BY <1>5, Zenon DEF PutDone, Server
  <2>2. CASE ~incoming.on
    <3>1. UNCHANGED <<incoming, landed, s2c>>
      BY <1>5, <2>2, Zenon DEF PutDone
    <3>2. Listens
      BY <1>0, <1>a, <2>1, <3>1, PassesCases, Zenon DEF Listens, Held
    <3>3. QED
      BY <3>2, ListensKeeps, Zenon
  <2>3. CASE incoming.on
    <3>1. PICK ok \in BOOLEAN :
             /\ s2c' = Append(s2c, Ack("put_ack", incoming.path, ok))
             /\ ok => /\ Verified(incoming.got, incoming.size, incoming.hash)
                      /\ landed' = incoming
      BY <1>5, <2>3, Zenon DEF PutDone, reject_put, ToClient
    <3>2. incoming' = NoUpload
      BY <1>5, <2>3, Zenon DEF PutDone
    <3>3. cpc = "failed" \/ (Uploading /\ Taken)
      BY <2>3, Zenon DEF PutInv, Idle, Asked, Told
    <3>4. IsSeq(c2s') /\ IsSeq(s2c')
      BY <1>a, <1>c, <2>1, <3>1, AppendSeq, Zenon
    <3>5. CASE Uploading /\ Taken
      <4>1. cpc = "await"
        BY <1>a, <2>1, <3>5, NoDoneMoves, Zenon DEF Taken
      <4>2. ok => landed'.path = job.path /\ landed'.got = job.data
        BY <3>1, <3>5, Zenon DEF Taken, Uploading, Verified
      <4>3. incoming.path = job.path /\ Free(s2c, "put_ack") /\ Free(c2s', "put_start")
        BY <1>c, <2>1, <3>5, Zenon DEF Taken
      <4>4. QED
        BY <1>0, <1>a, <3>1, <3>2, <3>4, <3>5, <4>1, <4>2, <4>3, TellsIt, Zenon
    <3>6. QED
      BY <1>2, <1>a, <3>2, <3>3, <3>4, <3>5, Zenon
  <2>4. QED
    BY <2>2, <2>3, Zenon
<1>6. CASE ServerEnds
  <2>1. s2c' = s2c /\ landed' = landed /\ incoming' = NoUpload
    BY <1>6, Zenon DEF ServerEnds
  <2>2. c2s' = c2s \/ c2s' = <<>> \/ (c2s # <<>> /\ c2s' = Tail(c2s))
    BY <1>6, Zenon DEF ServerEnds, Server
  <2>3. IsSeq(c2s')
    BY <1>a, <1>c, <2>2, EmptySeq, Zenon
  <2>4. CASE cpc # "failed"
    <3>1. c2s # <<>> /\ Head(c2s).t = "sync_complete" /\ c2s' = Tail(c2s)
      BY <1>6, <2>4, Zenon DEF ServerEnds, Server
    <3>2. CASE Idle \/ Taken
      <4>1. Idle'
        BY <1>a, <1>c, <2>1, <3>1, <3>2, Zenon DEF Idle, Taken
      <4>2. QED
        BY <1>0, <1>a, <2>1, <2>3, <4>1, Zenon DEF PutInv
    <3>3. CASE Uploading /\ Asked
      <4>1. Carries(c2s', job.path, job.data, cpc = "await")
        BY <1>a, <3>1, <3>3, CarriesLess, Zenon DEF Asked
      <4>2. Asked' /\ Uploading'
        BY <1>0, <1>a, <2>1, <3>3, <4>1, Zenon DEF Asked, Uploading
      <4>3. QED
        BY <1>0, <1>a, <2>1, <2>3, <4>2, Zenon DEF PutInv
    <3>4. CASE Uploading /\ Told
      <4>1. Told' /\ Uploading'
        BY <1>0, <1>a, <1>c, <2>1, <3>1, <3>4, Zenon DEF Told, Honest, Uploading
      <4>2. QED
        BY <1>0, <1>a, <2>1, <2>3, <4>1, Zenon DEF PutInv
    <3>5. QED
      BY <2>4, <3>2, <3>3, <3>4, Zenon DEF PutInv
  <2>5. QED
    BY <1>2, <1>a, <2>1, <2>3, <2>4, Zenon
<1>7. QED
  BY <1>1, <1>3, <1>4, <1>5, <1>6, Zenon DEF ServerStep

LEMMA PutStep == PutInv /\ [Next]_vars => PutInv'
<1> SUFFICES ASSUME PutInv, [Next]_vars PROVE PutInv'
  BY Zenon
<1>1. CASE UNCHANGED vars
  <2>1. Speaks
    BY <1>1, Zenon DEF vars, clientVars, serverVars, Speaks, Held, PutInv
  <2>2. QED
    BY <2>1, SpeaksKeeps, Zenon
<1>2. CASE Environment
  <2>1. PICK p \in Paths : \E v \in Versions[p] \cup {Absent} : Replace(p, v) \/ Rewrite(p, v)
    BY <1>2, Zenon DEF Environment
  <2>2. PICK v : Replace(p, v) \/ Rewrite(p, v)
    BY <2>1, Zenon
  <2>3. UNCHANGED <<c2s, s2c, cpc, plan, incoming, landed>>
    BY <2>2, Zenon DEF Replace, Rewrite
  <2>4. /\ {"op", "path", "data"} \subseteq DOMAIN job' /\ job'.op = job.op
        /\ job'.path = job.path /\ job'.data = job.data
    BY <2>2, Zenon DEF Replace, Rewrite, PutInv
  <2>5. Speaks
    BY <2>3, <2>4, Zenon DEF Speaks, Held
  <2>6. QED
    BY <2>5, SpeaksKeeps, Zenon
<1>3. CASE ServeFails
  <2>1. Speaks
    BY <1>3, Zenon DEF ServeFails, ServerOnly, clientVars, Speaks, Held, PutInv
  <2>2. QED
    BY <2>1, SpeaksKeeps, Zenon
<1>4. QED
  BY <1>1, <1>2, <1>3, PutClient, PutServer, Zenon DEF Next

\* A positive put_ack is never stale and never early (put_done, wait_put_ack): the
\* client that reads it waits for that upload, and the server installed exactly the
\* content announced, for any plan, window, interleaving, edits and failures.
THEOREM VerdictsHonest == Spec => []HonestVerdict
<1>1. ASSUME PutInv PROVE HonestVerdict
  <2>1. DOMAIN s2c = 1..Len(s2c)
    BY <1>1, SMTT(30) DEF PutInv, IsSeq
  <2>2. ASSUME NEW i \in DOMAIN s2c, s2c[i].t = "put_ack", s2c[i].ok, cpc # "failed"
        PROVE  /\ cpc = "await" /\ job.op = "put" /\ s2c[i].path = job.path
               /\ landed.path = job.path /\ landed.got = job.data
    <3>1. ~Free(s2c, "put_ack")
      BY <2>1, <2>2, Zenon DEF Free
    <3>2. Uploading /\ Told
      BY <1>1, <2>2, <3>1, Zenon DEF PutInv, Idle, Asked, Taken
    <3>3. QED
      BY <2>1, <2>2, <3>2, Zenon DEF Told, Honest, Only, Uploading
  <2>3. QED
    BY <2>2, Zenon DEF HonestVerdict
<1>2. QED
  BY <1>1, PutInit, PutStep, PTL DEF Spec

-----------------------------------------------------------------------------
(* Downloads. *)

\* Where a reader of the server's messages is: within the answer to a get_file,
\* behind its file_meta, or between two answers.
Spots == {"between", "within"}
\* How message m takes the reader from spot x to spot y.
Mark(m, x, y) ==
    /\ m.t = "file_meta" => y = "within"
    /\ m.t = "bin" => y = x
    /\ m.t = "file_done" => x = "within" /\ y = "between"
    /\ m.t = "file_error" => y = "between"
    /\ m.t \in {"put_ack", "delete_ack"} => x = "between" /\ y = "between"
\* The messages of q take it from spot b to spot c.
Aligned(q, b, c) ==
    \E f \in [0..Len(q) -> Spots] :
        f[0] = b /\ f[Len(q)] = c /\ \A i \in 1..Len(q) : Mark(q[i], f[i - 1], f[i])

LEMMA AlignedNone == \A b \in Spots : Aligned(<<>>, b, b)
<1> SUFFICES ASSUME NEW b \in Spots PROVE Aligned(<<>>, b, b)
  BY Zenon
<1> DEFINE f == [i \in 0..0 |-> b]
<1>1. f \in [0..Len(<<>>) -> Spots] /\ f[0] = b /\ f[Len(<<>>)] = b /\ \A i \in 1..Len(<<>>) : FALSE
  BY EmptySeq
<1>2. QED
  BY <1>1, Zenon DEF Aligned

LEMMA AlignedMore ==
    ASSUME NEW q, IsSeq(q), NEW b, NEW c, Aligned(q, b, c), NEW m, NEW d \in Spots, Mark(m, c, d)
    PROVE  Aligned(Append(q, m), b, d)
<1>1. PICK f \in [0..Len(q) -> Spots] :
        f[0] = b /\ f[Len(q)] = c /\ \A i \in 1..Len(q) : Mark(q[i], f[i - 1], f[i])
  BY Zenon DEF Aligned
<1> DEFINE r == Append(q, m)
           g == [i \in 0..Len(q) + 1 |-> IF i = Len(q) + 1 THEN d ELSE f[i]]
<1>2. Len(q) \in Nat /\ Len(r) = Len(q) + 1 /\ r[Len(q) + 1] = m /\ \A i \in 1..Len(q) : r[i] = q[i]
  BY AppendSeq
<1> HIDE DEF r
<1>3. g \in [0..Len(r) -> Spots]
  BY <1>2
<1>4. g[0] = b /\ g[Len(r)] = d
  BY <1>1, <1>2, SMTT(30)
<1>5. ASSUME NEW i \in 1..Len(r) PROVE Mark(r[i], g[i - 1], g[i])
  <2>1. CASE i \in 1..Len(q)
    <3>1. g[i] = f[i] /\ g[i - 1] = f[i - 1] /\ r[i] = q[i]
      BY <1>2, <2>1
    <3> HIDE DEF g
    <3>2. QED
      BY <1>1, <2>1, <3>1, Zenon
  <2>2. CASE i = Len(q) + 1
    <3>1. g[i] = d /\ g[i - 1] = c /\ r[i] = m
      BY <1>1, <1>2, <2>2, SMTT(30)
    <3> HIDE DEF g
    <3>2. QED
      BY <3>1, Zenon
  <2>3. QED
    BY <1>2, <2>1, <2>2, SMTT(30)
<1> HIDE DEF g
<1>6. Aligned(r, b, d)
  BY <1>3, <1>4, <1>5, Zenon DEF Aligned
<1>7. QED
  BY <1>6, Zenon DEF r

LEMMA AlignedLess ==
    ASSUME NEW q, IsSeq(q), q # <<>>, NEW b, NEW c, Aligned(q, b, c)
    PROVE  \E d \in Spots : Mark(Head(q), b, d) /\ Aligned(Tail(q), d, c)
<1>1. PICK f \in [0..Len(q) -> Spots] :
        f[0] = b /\ f[Len(q)] = c /\ \A i \in 1..Len(q) : Mark(q[i], f[i - 1], f[i])
  BY Zenon DEF Aligned
<1> DEFINE r == Tail(q)
           g == [i \in 0..Len(q) - 1 |-> f[i + 1]]
<1>2. /\ Len(q) \in Nat \ {0} /\ Len(r) = Len(q) - 1 /\ Head(q) = q[1]
      /\ \A i \in 1..Len(q) - 1 : r[i] = q[i + 1]
  BY TailSeq, Zenon
<1> HIDE DEF r
<1>3. g \in [0..Len(r) -> Spots]
  BY <1>2
<1>4. g[0] = f[1] /\ g[Len(r)] = c /\ f[1] \in Spots /\ 1 \in 1..Len(q) /\ 1 - 1 = 0
  BY <1>1, <1>2, SMTT(30)
<1>5. ASSUME NEW i \in 1..Len(r) PROVE Mark(r[i], g[i - 1], g[i])
  <2>1. /\ g[i] = f[i + 1] /\ g[i - 1] = f[(i + 1) - 1] /\ r[i] = q[i + 1]
        /\ i + 1 \in 1..Len(q)
    BY <1>2
  <2> HIDE DEF g
  <2>2. QED
    BY <1>1, <2>1, Zenon
<1> HIDE DEF g
<1>6. Aligned(r, f[1], c)
  BY <1>3, <1>4, <1>5, Zenon DEF Aligned
<1>7. Mark(Head(q), b, f[1])
  BY <1>1, <1>2, <1>4, Zenon
<1>8. QED
  BY <1>4, <1>6, <1>7, Zenon DEF r

\* Every request is for a path of the tree, every announced hash one of those in H.
Fetches(q) == \A i \in 1..Len(q) : q[i].t = "get_file" => q[i].path \in Paths
Hashes(q, H) == \A i \in 1..Len(q) : q[i].t = "file_meta" => q[i].hash \in H

LEMMA ItemsMove ==
    ASSUME NEW q, IsSeq(q)
    PROVE  /\ q # <<>> => 1 \in 1..Len(q) /\ Head(q) = q[1]
           /\ q # <<>> => \A i \in 1..Len(Tail(q)) : \E j \in 1..Len(q) : Tail(q)[i] = q[j]
           /\ \A m : \A i \in 1..Len(Append(q, m)) :
                 Append(q, m)[i] = m \/ \E j \in 1..Len(q) : Append(q, m)[i] = q[j]
<1>1. ASSUME q # <<>>
      PROVE  /\ 1 \in 1..Len(q) /\ Head(q) = q[1]
             /\ \A i \in 1..Len(Tail(q)) : \E j \in 1..Len(q) : Tail(q)[i] = q[j]
  <2>1. /\ Len(q) \in Nat \ {0} /\ Len(Tail(q)) = Len(q) - 1 /\ Head(q) = q[1]
        /\ \A i \in 1..Len(q) - 1 : Tail(q)[i] = q[i + 1]
    BY <1>1, TailSeq
  <2>2. \A i \in 1..Len(Tail(q)) : i + 1 \in 1..Len(q) /\ Tail(q)[i] = q[i + 1]
    BY <2>1
  <2>3. QED
    BY <2>1, <2>2
<1>2. ASSUME NEW m, NEW i \in 1..Len(Append(q, m))
      PROVE  Append(q, m)[i] = m \/ \E j \in 1..Len(q) : Append(q, m)[i] = q[j]
  <2>1. /\ Len(q) \in Nat /\ Len(Append(q, m)) = Len(q) + 1 /\ Append(q, m)[Len(q) + 1] = m
        /\ \A k \in 1..Len(q) : Append(q, m)[k] = q[k]
    BY AppendSeq
  <2>2. i = Len(q) + 1 \/ i \in 1..Len(q)
    BY <2>1, SMTT(30)
  <2>3. QED
    BY <2>1, <2>2, Zenon
<1>3. QED
  BY <1>1, <1>2, Zenon

LEMMA FetchesMove ==
    ASSUME NEW q, IsSeq(q), Fetches(q)
    PROVE  /\ q # <<>> => Fetches(Tail(q)) /\ (Head(q).t = "get_file" => Head(q).path \in Paths)
           /\ \A m : (m.t = "get_file" => m.path \in Paths) => Fetches(Append(q, m))
  BY ItemsMove DEF Fetches

LEMMA HashesMove ==
    ASSUME NEW q, IsSeq(q), NEW H, Hashes(q, H)
    PROVE  /\ q # <<>> => Hashes(Tail(q), H) /\ (Head(q).t = "file_meta" => Head(q).hash \in H)
           /\ \A m : (m.t = "file_meta" => m.hash \in H) => Hashes(Append(q, m), H)
  BY ItemsMove DEF Hashes

\* The client reads between two answers, or in one whose file_meta it knows; while
\* it waits for an acknowledgement it may be anywhere.
Before(b) ==
    /\ cpc = "receive" => (b = "within" <=> job.hash # Absent)
    /\ cpc \notin {"receive", "await"} => b = "between"
\* The server is within an answer once it has announced it.
After(c) == ~over => (c = "within" <=> serve.on /\ serve.hash # Absent)
Framed == cpc = "failed" \/ \E b, c \in Spots : Before(b) /\ After(c) /\ Aligned(s2c, b, c)

\* What a hash may stand for: a content some user wrote, or the mixture the server
\* hashed while the file was written to.
Hashed == Content \cup blurred

\* A download is verified only against a hash the server announced.
Fetching ==
    /\ {"path", "hash", "bad"} \subseteq DOMAIN job
    /\ cpc \in {"request", "receive", "verify"} => job.path \in Paths
    /\ cpc \in {"receive", "verify"} => job.hash \in Hashed \cup {Absent}
    /\ cpc = "verify" => job.bad \/ job.hash # Absent
Serving ==
    /\ {"on", "ino", "sum", "hash"} \subseteq DOMAIN serve
    /\ serve.on => serve.ino \in Content /\ serve.sum \in Seq(Blocks)

MixInv ==
    /\ IsSeq(c2s) /\ IsSeq(s2c) /\ IsSeq(plan) /\ \A i \in 1..Len(plan) : plan[i].path \in Paths
    /\ Fetches(c2s) /\ Hashes(s2c, Hashed)
    /\ ctree \in [Paths -> Hashed \cup {Absent}] /\ blurred \subseteq Seq(Blocks)
    /\ Fetching /\ Serving /\ Framed

LEMMA NotContent ==
    Absent \notin Content /\ Content \subseteq Seq(Blocks) /\ \A p \in Paths : Versions[p] \subseteq Content
  BY AbsentAssumption, Zenon DEF Content

LEMMA NotHashed == MixInv => Absent \notin Hashed
  BY AbsentAssumption, NotContent, Zenon DEF MixInv, Hashed

LEMMA MixInit == Init => MixInv
<1> SUFFICES ASSUME Init PROVE MixInv
  BY Zenon
<1>1. IsSeq(plan) /\ DOMAIN plan = 1..Len(plan)
  <2> DEFINE Items == {plan[i] : i \in DOMAIN plan}
  <2>1. plan \in Seq(Items)
    BY PlansAssumption, Zenon DEF Init
  <2> HIDE DEF Items
  <2>2. QED
    BY <2>1 DEF IsSeq
<1>2. \A i \in 1..Len(plan) : plan[i].path \in Paths
  BY <1>1, PlansAssumption, Zenon DEF Init
<1>3. Fetching /\ Serving
  BY Zenon DEF Init, Fetching, Serving, NoJob, NoHandle
<1>4. Framed
  <2>1. Before("between") /\ After("between")
    BY Zenon DEF Init, Before, After, NoHandle
  <2>2. "between" \in Spots /\ s2c = <<>>
    BY Zenon DEF Spots, Init
  <2>3. QED
    BY <2>1, <2>2, AlignedNone, Zenon DEF Framed
<1>5. IsSeq(c2s) /\ IsSeq(s2c) /\ Fetches(c2s) /\ Hashes(s2c, Hashed)
  BY EmptySeq DEF Init, Fetches, Hashes
<1>6. ctree \in [Paths -> Hashed \cup {Absent}] /\ blurred \subseteq Seq(Blocks)
  BY Zenon DEF Init, Hashed
<1>7. QED
  BY <1>1, <1>2, <1>3, <1>4, <1>5, <1>6, Zenon DEF MixInv

\* A step that neither sends to the client nor reads there.
LEMMA FramedStays ==
    ASSUME Framed, s2c' = s2c, cpc' = "failed" \/ cpc # "failed",
           \A b \in Spots : Before(b) => Before(b)' \/ cpc' = "failed",
           \A c \in Spots : After(c) => After(c)'
    PROVE  Framed'
<1>1. CASE cpc' = "failed"
  BY <1>1, Zenon DEF Framed
<1>2. CASE cpc' # "failed"
  <2>1. PICK b \in Spots, c \in Spots : Before(b) /\ After(c) /\ Aligned(s2c, b, c)
    BY <1>2, Zenon DEF Framed
  <2>2. Before(b)' /\ After(c)' /\ Aligned(s2c', b, c)
    BY <1>2, <2>1, Zenon
  <2>3. QED
    BY <2>2, Zenon DEF Framed
<1>3. QED
  BY <1>1, <1>2, Zenon

LEMMA MixClient == MixInv /\ (Client \/ Abort) => MixInv'
<1> SUFFICES ASSUME MixInv, Client \/ Abort PROVE MixInv'
  BY Zenon
<1>0. /\ {"path", "hash", "bad"} \subseteq DOMAIN NoJob
      /\ {"path", "hash", "bad"} \subseteq DOMAIN job
      /\ IsSeq(c2s) /\ IsSeq(s2c) /\ Fetches(c2s) /\ Hashes(s2c, Hashed)
      /\ ctree \in [Paths -> Hashed \cup {Absent}] /\ blurred \subseteq Seq(Blocks)
      /\ \A i \in 1..Len(plan) : plan[i].path \in Paths
      /\ IsSeq(plan) /\ Fetching /\ Serving /\ Framed
  BY Zenon DEF NoJob, MixInv, Fetching
<1>1. UNCHANGED <<serve, over, blurred>> /\ Hashed' = Hashed
  BY Zenon DEF Client, Abort, StartJob, Request, Receive, Install, OpenUpload, SendChunk, AwaitAck,
         Complete, ClientOnly, serverVars, Hashed
<1>2. Serving' /\ \A c \in Spots : After(c) => After(c)'
  BY <1>0, <1>1, Zenon DEF Serving, After
<1>3. IsSeq(plan') /\ \A i \in 1..Len(plan') : plan'[i].path \in Paths
  <2>1. CASE StartJob
    <3>1. plan # <<>> /\ plan' = Tail(plan)
      BY <2>1, Zenon DEF StartJob
    <3>2. IsSeq(plan') /\ \A i \in 1..Len(plan') : \E j \in 1..Len(plan) : plan'[i] = plan[j]
      BY <1>0, <3>1, TailSeq, ItemsMove, SMTT(30)
    <3>3. QED
      BY <1>0, <3>2, Zenon
  <2>2. CASE ~StartJob
    <3>1. plan' = plan
      BY <2>2, Zenon DEF Client, Abort, Request, Receive, Install, OpenUpload, SendChunk, AwaitAck, Complete
    <3>2. QED
      BY <1>0, <3>1, Zenon
  <2>3. QED
    BY <2>1, <2>2, Zenon
<1>4. IsSeq(s2c') /\ Hashes(s2c', Hashed)
  <2>1. s2c' = s2c \/ (s2c # <<>> /\ s2c' = Tail(s2c))
    BY Zenon DEF Client, Abort, StartJob, Request, Receive, Install, OpenUpload, SendChunk, AwaitAck, Complete
  <2>2. QED
    BY <1>0, <2>1, TailSeq, HashesMove, Zenon
<1>5. ASSUME NEW m, c2s' = Append(c2s, m), m.t = "get_file" => m.path \in Paths
      PROVE  IsSeq(c2s') /\ Fetches(c2s')
  BY <1>0, <1>5, AppendSeq, FetchesMove, Zenon
<1>6. IsSeq(c2s') /\ Fetches(c2s')
  <2>1. c2s' = c2s \/ \E m : c2s' = Append(c2s, m) /\ (m.t = "get_file" => m.path \in Paths)
    <3>0. /\ \A b : Bin(b).t # "get_file" /\ \A p, d : PutStart(p, d).t # "get_file"
          /\ \A p : /\ Msg("delete_file", p).t # "get_file" /\ Msg("put_done", p).t # "get_file"
                    /\ Msg("sync_complete", p).t # "get_file" /\ Msg("get_file", p).path = p
      BY Zenon DEF Bin, PutStart, Msg
    <3>1. CASE StartJob
      <4>1. \/ c2s' = c2s
            \/ c2s' = Append(c2s, Msg("delete_file", Head(plan).path))
            \/ c2s' = Append(c2s, PutStart(Head(plan).path, Head(plan).data))
        BY <3>1, Zenon DEF StartJob, ToServer
      <4>2. QED
        BY <3>0, <4>1
    <3>2. CASE Request
      <4>1. job.path \in Paths /\ c2s' = Append(c2s, Msg("get_file", job.path))
        BY <1>0, <3>2, Zenon DEF Request, ToServer, Fetching
      <4>2. QED
        BY <3>0, <4>1, Zenon
    <3>3. CASE OpenUpload
      <4>1. c2s' = c2s \/ c2s' = Append(c2s, Msg("put_done", job.path))
        BY <3>3, Zenon DEF OpenUpload, ToServer
      <4>2. QED
        BY <3>0, <4>1, Zenon
    <3>4. CASE SendChunk
      <4>1. \/ c2s' = Append(c2s, Bin(job.got[job.off + 1]))
            \/ c2s' = Append(c2s, Msg("put_done", job.path))
        BY <3>4, Zenon DEF SendChunk, ToServer
      <4>2. QED
        BY <3>0, <4>1, Zenon
    <3>5. CASE Complete
      <4>1. c2s' = Append(c2s, Msg("sync_complete", Absent))
        BY <3>5, Zenon DEF Complete, ToServer
      <4>2. QED
        BY <3>0, <4>1, Zenon
    <3>6. CASE Receive \/ Install \/ AwaitAck \/ Abort
      BY <3>6, Zenon DEF Receive, Install, AwaitAck, Abort
    <3>7. QED
      BY <3>1, <3>2, <3>3, <3>4, <3>5, <3>6, ZenonT(30) DEF Client
  <2>2. QED
    BY <1>0, <1>5, <2>1, Zenon
<1>7. ctree' \in [Paths -> Hashed \cup {Absent}]
  <2>1. CASE ctree' = ctree
    BY <1>0, <2>1, Zenon
  <2>2. CASE Install /\ ctree' # ctree
    <3>1. /\ ~job.bad /\ Verified(job.got, job.size, job.hash)
          /\ ctree' = [ctree EXCEPT ![job.path] = job.got]
      BY <2>2, Zenon DEF Install
    <3>2. job.hash \in Hashed
      BY <1>0, <2>2, <3>1, Zenon DEF Install, Fetching
    <3>3. job.got \in Hashed
      BY <3>1, <3>2, NotHashed, Zenon DEF Verified
    <3>4. QED
      BY <1>0, <3>1, <3>3, Zenon
  <2>3. QED
    BY <2>1, <2>2, Zenon DEF Client, Abort, StartJob, Request, Receive, OpenUpload, SendChunk, AwaitAck, Complete
<1>8. Fetching' /\ Framed'
  <2>1. CASE StartJob
    <3> DEFINE w == Head(plan)
               new == [NoJob EXCEPT !.op = w.op, !.path = w.path, !.data = w.data, !.attempt = 1]
    <3>1. w.path \in Paths
      BY <1>0, <2>1, ItemsMove, Zenon DEF StartJob
    <3>2. new.path = w.path /\ {"path", "hash", "bad"} \subseteq DOMAIN new
      BY Zenon DEF NoJob
    <3>3. /\ cpc = "next" /\ s2c' = s2c
          /\ (job' = new /\ cpc' \in {"request", "await", "open"}) \/ (job' = job /\ cpc' = cpc)
      BY <2>1, Zenon DEF StartJob
    <3> HIDE DEF new, w
    <3>4. Fetching'
      BY <1>0, <1>1, <3>1, <3>2, <3>3, Zenon DEF Fetching
    <3>5. \A b \in Spots : Before(b) => Before(b)'
      BY <3>3, Zenon DEF Before
    <3>6. QED
      BY <1>0, <1>2, <3>3, <3>4, <3>5, FramedStays, Zenon
  <2>2. CASE Request
    <3> DEFINE new == [job EXCEPT !.got = <<>>, !.size = 0, !.hash = Absent, !.bad = FALSE]
               again == [job EXCEPT !.attempt = 2]
    <3>1. /\ new.path = job.path /\ new.hash = Absent /\ {"path", "hash", "bad"} \subseteq DOMAIN new
          /\ again.path = job.path /\ {"path", "hash", "bad"} \subseteq DOMAIN again
      BY <1>0, Zenon
    <3>2. /\ cpc = "request" /\ s2c' = s2c
          /\ \/ job' = new /\ cpc' = "receive"
             \/ job' = again /\ cpc' = "request"
             \/ job' = NoJob /\ cpc' = "next"
      BY <2>2, Zenon DEF Request, NextAttempt
    <3> HIDE DEF new, again
    <3>3. Fetching'
      BY <1>0, <1>1, <3>1, <3>2, Zenon DEF Fetching
    <3>4. \A b \in Spots : Before(b) => Before(b)'
      BY <3>1, <3>2, Zenon DEF Before
    <3>5. QED
      BY <1>0, <1>2, <3>2, <3>3, <3>4, FramedStays, Zenon
  <2>3. CASE Install
    <3> DEFINE again == [job EXCEPT !.attempt = 2]
    <3>1. again.path = job.path /\ {"path", "hash", "bad"} \subseteq DOMAIN again
      BY <1>0, Zenon
    <3>2. /\ cpc = "verify" /\ s2c' = s2c
          /\ (job' = again /\ cpc' = "request") \/ (job' = NoJob /\ cpc' = "next")
      BY <2>3, Zenon DEF Install, NextAttempt
    <3> HIDE DEF again
    <3>3. Fetching'
      BY <1>0, <1>1, <3>1, <3>2, Zenon DEF Fetching
    <3>4. \A b \in Spots : Before(b) => Before(b)'
      BY <3>2, Zenon DEF Before
    <3>5. QED
      BY <1>0, <1>2, <3>2, <3>3, <3>4, FramedStays, Zenon
  <2>4. CASE OpenUpload \/ SendChunk \/ Complete \/ Abort
    <3>1. /\ s2c' = s2c /\ {"path", "hash", "bad"} \subseteq DOMAIN job'
          /\ cpc' = "failed" \/ (cpc \in {"open", "send", "next"} /\ cpc' \in {"send", "await", "ok"})
      <4>1. CASE OpenUpload
        BY <1>0, <4>1, Zenon DEF OpenUpload
      <4>2. CASE SendChunk
        BY <1>0, <4>2, Zenon DEF SendChunk
      <4>3. CASE Complete \/ Abort
        BY <1>0, <4>3, Zenon DEF Complete, Abort
      <4>4. QED
        BY <2>4, <4>1, <4>2, <4>3, Zenon
    <3>2. Fetching'
      BY <3>1, Zenon DEF Fetching
    <3>3. \A b \in Spots : Before(b) => Before(b)' \/ cpc' = "failed"
      BY <3>1, Zenon DEF Before
    <3>4. cpc' = "failed" \/ cpc # "failed"
      BY <3>1, Zenon
    <3>5. QED
      BY <1>0, <1>2, <3>1, <3>2, <3>3, <3>4, FramedStays, ZenonT(30)
  <2>5. ASSUME Receive \/ AwaitAck
        PROVE  \E b, d, c \in Spots : /\ Before(b) /\ Mark(Head(s2c), b, d)
                                      /\ After(c)' /\ Aligned(s2c', d, c)
    <3>1. cpc # "failed" /\ s2c # <<>> /\ s2c' = Tail(s2c)
      BY <2>5, Zenon DEF Receive, AwaitAck
    <3>2. PICK b \in Spots, c \in Spots : Before(b) /\ After(c) /\ Aligned(s2c, b, c)
      BY <1>0, <3>1, Zenon DEF Framed
    <3>3. PICK d \in Spots : Mark(Head(s2c), b, d) /\ Aligned(s2c', d, c)
      BY <1>0, <3>1, <3>2, AlignedLess, Zenon
    <3>4. QED
      BY <1>2, <3>2, <3>3, Zenon
  <2>6. CASE Receive
    <3> DEFINE m == Head(s2c)
    <3>1. PICK b \in Spots, d \in Spots, c \in Spots :
             Before(b) /\ Mark(m, b, d) /\ After(c)' /\ Aligned(s2c', d, c)
      BY <2>5, <2>6, Zenon
    <3>2. cpc = "receive" /\ s2c # <<>>
      BY <2>6, Zenon DEF Receive
    <3>3. SUFFICES Fetching' /\ Before(d)'
      BY <3>1, Zenon DEF Framed
    <3>4. /\ job.path \in Paths /\ job.hash \in Hashed \cup {Absent}
          /\ (b = "within" <=> job.hash # Absent)
      BY <1>0, <3>1, <3>2, Zenon DEF Fetching, Before
    <3>5. CASE m.t = "file_meta"
      <4>1. m.hash \in Hashed /\ m.hash # Absent
        BY <1>0, <3>2, <3>5, HashesMove, NotHashed, Zenon
      <4>2. job' = [job EXCEPT !.size = m.size, !.hash = m.hash] /\ cpc' = cpc
        BY <2>6, <3>5, Zenon DEF Receive
      <4>3. /\ job'.hash = m.hash /\ job'.path = job.path
            /\ {"path", "hash", "bad"} \subseteq DOMAIN job'
        BY <1>0, <4>2, Zenon
      <4>4. d = "within"
        BY <3>1, <3>5, Zenon DEF Mark
      <4>5. QED
        BY <1>1, <3>2, <3>4, <4>1, <4>2, <4>3, <4>4, ZenonT(30) DEF Fetching, Before
    <3>6. CASE m.t = "bin"
      <4>1. cpc' = cpc
        BY <2>6, <3>6, Zenon DEF Receive
      <4>2. \/ job' = job
            \/ job' = [job EXCEPT !.got = Append(@, m.block), !.bad = Len(job.got) >= job.size]
            \/ job' = [job EXCEPT !.bad = TRUE]
        BY <2>6, <3>6, Zenon DEF Receive
      <4>3. /\ job'.hash = job.hash /\ job'.path = job.path
            /\ {"path", "hash", "bad"} \subseteq DOMAIN job'
        BY <1>0, <4>2, Zenon
      <4>4. d = b
        BY <3>1, <3>6, Zenon DEF Mark
      <4>5. QED
        BY <1>1, <3>2, <3>4, <4>1, <4>3, <4>4, ZenonT(30) DEF Fetching, Before
    <3>7. CASE m.t = "file_done"
      <4>1. cpc' = "verify" /\ job' = job
        BY <2>6, <3>7, Zenon DEF Receive
      <4>2. b = "within" /\ d = "between"
        BY <3>1, <3>7, Zenon DEF Mark
      <4>3. QED
        BY <1>0, <1>1, <3>4, <4>1, <4>2, Zenon DEF Fetching, Before
    <3>8. CASE m.t = "file_error"
      <4>1. cpc' = "verify" /\ job' = [job EXCEPT !.bad = TRUE]
        BY <2>6, <3>8, Zenon DEF Receive
      <4>2. d = "between"
        BY <3>1, <3>8, Zenon DEF Mark
      <4>3. /\ job'.hash = job.hash /\ job'.path = job.path /\ job'.bad
            /\ {"path", "hash", "bad"} \subseteq DOMAIN job'
        BY <1>0, <4>1, Zenon
      <4>4. QED
        BY <1>1, <3>4, <4>1, <4>2, <4>3, Zenon DEF Fetching, Before
    <3>9. CASE m.t \in {"put_ack", "delete_ack"}
      <4>1. cpc' = cpc /\ job' = job
        BY <2>6, <3>9, Zenon DEF Receive
      <4>2. d = b
        BY <3>1, <3>9, SMTT(30) DEF Mark
      <4>3. QED
        BY <1>0, <1>1, <3>1, <4>1, <4>2, Zenon DEF Fetching, Before
    <3>10. QED
      BY <2>6, <3>5, <3>6, <3>7, <3>8, <3>9, ZenonT(30) DEF Receive
  <2>7. CASE AwaitAck
    <3> DEFINE m == Head(s2c)
    <3>1. PICK b \in Spots, d \in Spots, c \in Spots :
             Before(b) /\ Mark(m, b, d) /\ After(c)' /\ Aligned(s2c', d, c)
      BY <2>5, <2>7, Zenon
    <3>2. SUFFICES Fetching' /\ Before(d)'
      BY <3>1, Zenon DEF Framed
    <3>3. cpc = "await"
      BY <2>7, Zenon DEF AwaitAck
    <3>4. CASE m.t = Wanted
      <4>1. d = "between"
        BY <3>1, <3>4, Zenon DEF Mark, Wanted
      <4>2. cpc' = "next" /\ job' = NoJob
        BY <2>7, <3>4, Zenon DEF AwaitAck
      <4>3. QED
        BY <1>0, <1>1, <4>1, <4>2, Zenon DEF Fetching, Before
    <3>5. CASE m.t # Wanted
      <4>1. cpc' = cpc /\ job' = job
        BY <2>7, <3>5, Zenon DEF AwaitAck
      <4>2. QED
        BY <1>0, <1>1, <3>3, <4>1, Zenon DEF Fetching, Before
    <3>6. QED
      BY <3>4, <3>5, Zenon
  <2>8. QED
    BY <2>1, <2>2, <2>3, <2>4, <2>6, <2>7, Zenon DEF Client
<1>9. QED
  BY <1>0, <1>1, <1>2, <1>3, <1>4, <1>6, <1>7, <1>8, Zenon DEF MixInv

\* The server sends one message more.
LEMMA FramedSends ==
    ASSUME IsSeq(s2c), Framed, cpc' = cpc, job' = job, NEW m, s2c' = Append(s2c, m), NEW d \in Spots,
           \A c \in Spots : After(c) => Mark(m, c, d), After(d)'
    PROVE  Framed'
<1>1. CASE cpc = "failed"
  BY <1>1, Zenon DEF Framed
<1>2. CASE cpc # "failed"
  <2>1. PICK b \in Spots, c \in Spots : Before(b) /\ After(c) /\ Aligned(s2c, b, c)
    BY <1>2, Zenon DEF Framed
  <2>2. Aligned(s2c', b, d)
    BY <2>1, AlignedMore, Zenon
  <2>3. Before(b)'
    BY <2>1, Zenon DEF Before
  <2>4. QED
    BY <2>2, <2>3, Zenon DEF Framed
<1>3. QED
  BY <1>1, <1>2, Zenon

LEMMA BlockMore ==
    ASSUME NEW ino \in Seq(Blocks), NEW sum \in Seq(Blocks), Len(sum) < Len(ino)
    PROVE  Append(sum, ino[Len(sum) + 1]) \in Seq(Blocks)
<1>1. Len(sum) + 1 \in 1..Len(ino)
  BY SMTT(30)
<1>2. ino[Len(sum) + 1] \in Blocks
  BY <1>1, SMTT(30)
<1>3. QED
  BY <1>2, SMTT(30)

LEMMA MixServer == TreeInv /\ MixInv /\ (ServerStep \/ ServerEnds) => MixInv'
<1> SUFFICES ASSUME TreeInv, MixInv, ServerStep \/ ServerEnds PROVE MixInv'
  BY Zenon
<1>0. /\ {"on", "ino", "sum", "hash"} \subseteq DOMAIN NoHandle
      /\ ~NoHandle.on /\ NoHandle.hash = Absent /\ NoHandle.sum = <<>>
      /\ {"on", "ino", "sum", "hash"} \subseteq DOMAIN serve
      /\ IsSeq(c2s) /\ IsSeq(s2c) /\ Fetches(c2s) /\ Hashes(s2c, Hashed)
      /\ ctree \in [Paths -> Hashed \cup {Absent}] /\ blurred \subseteq Seq(Blocks)
      /\ Fetching /\ Serving /\ Framed
  BY Zenon DEF NoHandle, MixInv, Serving
<1>a. \/ blurred' = blurred
      \/ ServeHash /\ blurred' = blurred \cup ({serve.sum} \ Content)
  BY Zenon DEF ServerStep, ServerEnds, GetFile, ServeHash, ServeChunk, DeleteFile, PutStartArrives,
         BinArrives, PutDone
<1>b. Hashed \subseteq Hashed' /\ Hashes(s2c, Hashed') /\ blurred' \subseteq Seq(Blocks)
  <2>1. Hashed \subseteq Hashed'
    BY <1>a, Zenon DEF Hashed
  <2>2. ServeHash => serve.sum \in Seq(Blocks)
    BY <1>0, Zenon DEF ServeHash, Serving
  <2>3. QED
    BY <1>0, <1>a, <2>1, <2>2, Zenon DEF Hashes
<1>1. UNCHANGED <<ctree, cpc, job, plan>>
  BY Zenon DEF ServerStep, ServerEnds, GetFile, ServeHash, ServeChunk, DeleteFile, PutStartArrives,
         BinArrives, PutDone, ServerOnly, clientVars
<1>2. IsSeq(c2s') /\ Fetches(c2s')
  <2>1. c2s' = c2s \/ c2s' = <<>> \/ (c2s # <<>> /\ c2s' = Tail(c2s))
    <3>1. CASE ServeHash \/ ServeChunk
      BY <3>1, Zenon DEF ServeHash, ServeChunk
    <3>2. CASE ServerEnds
      BY <3>2, Zenon DEF ServerEnds, Server
    <3>3. CASE GetFile \/ DeleteFile \/ PutStartArrives \/ BinArrives \/ PutDone
      BY <3>3, Zenon DEF GetFile, DeleteFile, PutStartArrives, BinArrives, PutDone, Server
    <3>4. QED
      BY <3>1, <3>2, <3>3, Zenon DEF ServerStep
  <2>2. Fetches(<<>>)
    BY EmptySeq DEF Fetches
  <2>3. c2s # <<>> => IsSeq(Tail(c2s)) /\ Fetches(Tail(c2s))
    BY <1>0, TailSeq, FetchesMove, Zenon
  <2>4. QED
    BY <1>0, <2>1, <2>2, <2>3, EmptySeq, Zenon
<1>3. \A b \in Spots : Before(b) => Before(b)' \/ cpc' = "failed"
  BY <1>1, Zenon DEF Before
<1>4. SUFFICES IsSeq(s2c') /\ Hashes(s2c', Hashed') /\ Serving' /\ Framed'
  <2>1. Fetching'
    BY <1>0, <1>1, <1>b, Zenon DEF Fetching
  <2>2. ctree' \in [Paths -> Hashed' \cup {Absent}]
    BY <1>0, <1>1, <1>b, Zenon
  <2>3. IsSeq(plan) /\ \A i \in 1..Len(plan) : plan[i].path \in Paths
    BY Zenon DEF MixInv
  <2>4. QED
    BY <1>1, <1>2, <1>4, <1>b, <2>1, <2>2, <2>3, Zenon DEF MixInv
<1>5. ASSUME s2c' = s2c, Serving', \A c \in Spots : After(c) => After(c)'
      PROVE  IsSeq(s2c') /\ Hashes(s2c', Hashed') /\ Serving' /\ Framed'
  BY <1>0, <1>1, <1>3, <1>5, <1>b, FramedStays, Zenon
<1>6. ASSUME NEW m, s2c' = Append(s2c, m), Serving', NEW d \in Spots,
             \A c \in Spots : After(c) => Mark(m, c, d), After(d)',
             m.t = "file_meta" => m.hash \in Hashed'
      PROVE  IsSeq(s2c') /\ Hashes(s2c', Hashed') /\ Serving' /\ Framed'
  <2>1. Framed'
    BY <1>0, <1>1, <1>6, FramedSends, Zenon
  <2>2. QED
    BY <1>0, <1>6, <1>b, <2>1, AppendSeq, HashesMove, Zenon
\* an answer given between two files
<1>7. ASSUME ~over, ~serve.on, serve' = serve, over' = over, NEW m, s2c' = Append(s2c, m),
             m.t \in {"file_error", "put_ack", "delete_ack"}
      PROVE  IsSeq(s2c') /\ Hashes(s2c', Hashed') /\ Serving' /\ Framed'
  <2>1. "between" \in Spots /\ After("between")'
    BY <1>7, Zenon DEF Spots, After
  <2>2. ASSUME NEW c \in Spots, After(c) PROVE Mark(m, c, "between")
    <3>1. c = "between"
      BY <1>7, <2>2, Zenon DEF After, Spots
    <3>2. QED
      BY <1>7, <3>1, Zenon DEF Mark
  <2>3. Serving'
    BY <1>0, <1>7, Zenon DEF Serving
  <2>4. m.t # "file_meta"
    BY <1>7, Zenon
  <2>5. QED
    BY <1>6, <1>7, <2>1, <2>2, <2>3, <2>4, Zenon
<1>8. /\ \A p : Msg("file_error", p).t = "file_error" /\ Msg("file_done", p).t = "file_done"
      /\ \A p, ok : Ack("put_ack", p, ok).t = "put_ack" /\ Ack("delete_ack", p, ok).t = "delete_ack"
      /\ \A b : Bin(b).t = "bin"
      /\ \A p, n, h : Meta(p, n, h).t = "file_meta" /\ Meta(p, n, h).hash = h
  BY Zenon DEF Msg, Ack, Bin, Meta
<1>9. ASSUME s2c' = s2c, serve' = serve, over' = over
      PROVE  IsSeq(s2c') /\ Hashes(s2c', Hashed') /\ Serving' /\ Framed'
  <2>1. Serving' /\ \A c \in Spots : After(c) => After(c)'
    BY <1>0, <1>9, Zenon DEF Serving, After
  <2>2. QED
    BY <1>5, <1>9, <2>1, Zenon
<1>10. CASE GetFile
  <2> DEFINE p == Head(c2s).path
             new == [NoHandle EXCEPT !.on = TRUE, !.path = p, !.ino = stree[p],
                                     !.size = Len(stree[p]), !.live = TRUE]
  <2>1. ~over /\ ~serve.on /\ c2s # <<>> /\ Head(c2s).t = "get_file"
    BY <1>10, Zenon DEF GetFile, Server
  <2>2. CASE s2c' = Append(s2c, Msg("file_error", p)) /\ serve' = serve /\ over' = over
    BY <1>7, <1>8, <2>1, <2>2, Zenon
  <2>3. CASE over' = TRUE /\ serve' = serve /\ s2c' = s2c
    <3>1. Serving' /\ \A c \in Spots : After(c) => After(c)'
      BY <1>0, <2>3, Zenon DEF Serving, After
    <3>2. QED
      BY <1>5, <2>3, <3>1, Zenon
  <2>4. CASE stree[p] # Absent /\ serve' = new /\ s2c' = s2c /\ over' = over
    <3>1. p \in Paths
      BY <1>0, <2>1, FetchesMove, Zenon
    <3>2. stree[p] \in Content
      BY <2>4, <3>1, NotContent, Zenon DEF TreeInv, ServerTreeRight
    <3>3. /\ new.on /\ new.ino = stree[p] /\ new.hash = Absent /\ new.sum = <<>>
          /\ {"on", "ino", "sum", "hash"} \subseteq DOMAIN new
      BY Zenon DEF NoHandle
    <3> HIDE DEF new
    <3>4. <<>> \in Seq(Blocks)
      BY SMTT(30)
    <3>5. Serving' /\ \A c \in Spots : After(c) => After(c)'
      BY <2>1, <2>4, <3>2, <3>3, <3>4, Zenon DEF Serving, After
    <3>6. QED
      BY <1>5, <2>4, <3>5, Zenon
  <2>5. QED
    BY <1>10, <2>2, <2>3, <2>4, Zenon DEF GetFile, ToClient
<1>11. CASE ServeHash
  <2>1. /\ ~over /\ serve.on /\ serve.hash = Absent /\ over' = over
        /\ serve.ino \in Seq(Blocks) /\ serve.sum \in Seq(Blocks) /\ serve.ino \in Content
    BY <1>0, <1>11, NotContent, Zenon DEF ServeHash, Serving
  \* one block more of the hash
  <2>2. CASE /\ Len(serve.sum) < Len(serve.ino) /\ s2c' = s2c
             /\ serve' = [serve EXCEPT !.sum = Append(@, serve.ino[Len(@) + 1])]
    <3> DEFINE sum == Append(serve.sum, serve.ino[Len(serve.sum) + 1])
    <3>1. sum \in Seq(Blocks)
      BY <2>1, <2>2, BlockMore, Zenon
    <3>2. /\ {"on", "ino", "sum", "hash"} \subseteq DOMAIN serve' /\ serve'.on
          /\ serve'.ino = serve.ino /\ serve'.hash = serve.hash /\ serve'.sum = sum
      BY <1>0, <2>1, <2>2, Zenon
    <3> HIDE DEF sum
    <3>3. Serving' /\ \A c \in Spots : After(c) => After(c)'
      BY <2>1, <3>1, <3>2, Zenon DEF Serving, After
    <3>4. QED
      BY <1>5, <2>2, <3>3, Zenon
  \* the hash is complete, and announced
  <2>3. CASE /\ s2c' = Append(s2c, Meta(serve.path, serve.size, serve.sum))
             /\ serve' = [serve EXCEPT !.hash = serve.sum]
             /\ blurred' = blurred \cup ({serve.sum} \ Content)
    <3> DEFINE m == Meta(serve.path, serve.size, serve.sum)
    <3>1. m.t = "file_meta" /\ m.hash = serve.sum
      BY <1>8, SMTT(30)
    <3>2. s2c' = Append(s2c, m)
      BY <2>3, Zenon
    <3> HIDE DEF m
    <3>3. serve.sum \in Hashed' /\ serve.sum # Absent
      BY <2>1, <2>3, AbsentAssumption, Zenon DEF Hashed
    <3>4. /\ {"on", "ino", "sum", "hash"} \subseteq DOMAIN serve' /\ serve'.on
          /\ serve'.ino = serve.ino /\ serve'.hash = serve.sum /\ serve'.sum = serve.sum
      BY <1>0, <2>1, <2>3, Zenon
    <3>5. Serving' /\ After("within")' /\ "within" \in Spots
      BY <2>1, <3>3, <3>4, Zenon DEF Serving, After, Spots
    <3>6. \A c \in Spots : Mark(m, c, "within")
      BY <3>1, Zenon DEF Mark
    <3>7. QED
      BY <1>6, <3>1, <3>2, <3>3, <3>5, <3>6, Zenon
  <2>4. QED
    BY <1>11, <2>2, <2>3, Zenon DEF ServeHash, ToClient
<1>12. CASE ServeChunk
  <2>1. ~over /\ serve.on /\ serve.hash # Absent /\ over' = over
    BY <1>12, Zenon DEF ServeChunk
  <2>2. \A c \in Spots : After(c) => c = "within"
    BY <2>1, Zenon DEF After
  <2>3. CASE s2c' = Append(s2c, Bin(serve.ino[serve.off + 1])) /\ serve' = [serve EXCEPT !.off = @ + 1]
    <3> DEFINE m == Bin(serve.ino[serve.off + 1])
    <3>1. m.t = "bin"
      BY <1>8, Zenon
    <3>2. s2c' = Append(s2c, m)
      BY <2>3, Zenon
    <3> HIDE DEF m
    <3>3. /\ {"on", "ino", "sum", "hash"} \subseteq DOMAIN serve' /\ serve'.on
          /\ serve'.ino = serve.ino /\ serve'.hash = serve.hash /\ serve'.sum = serve.sum
      BY <1>0, <2>1, <2>3, Zenon
    <3>4. Serving' /\ After("within")' /\ "within" \in Spots
      BY <1>0, <2>1, <3>3, Zenon DEF Serving, After, Spots
    <3>5. \A c \in Spots : After(c) => Mark(m, c, "within")
      BY <2>2, <3>1, Zenon DEF Mark
    <3>6. m.t # "file_meta"
      BY <3>1, Zenon
    <3>7. QED
      BY <1>6, <3>2, <3>4, <3>5, <3>6, Zenon
  <2>4. CASE s2c' = Append(s2c, Msg("file_done", serve.path)) /\ serve' = NoHandle
    <3> DEFINE m == Msg("file_done", serve.path)
    <3>1. m.t = "file_done"
      BY <1>8, Zenon
    <3>2. s2c' = Append(s2c, m)
      BY <2>4, Zenon
    <3> HIDE DEF m
    <3>3. Serving' /\ After("between")' /\ "between" \in Spots
      BY <1>0, <2>4, Zenon DEF Serving, After, Spots
    <3>4. \A c \in Spots : After(c) => Mark(m, c, "between")
      BY <2>2, <3>1, Zenon DEF Mark
    <3>5. m.t # "file_meta"
      BY <3>1, Zenon
    <3>6. QED
      BY <1>6, <3>2, <3>3, <3>4, <3>5, Zenon
  <2>5. QED
    BY <1>12, <2>3, <2>4, Zenon DEF ServeChunk, ToClient
<1>13. CASE DeleteFile
  <2>1. ~over /\ ~serve.on /\ serve' = serve /\ over' = over
    BY <1>13, Zenon DEF DeleteFile, Server
  <2>2. \E ok : s2c' = Append(s2c, Ack("delete_ack", Head(c2s).path, ok))
    BY <1>13, Zenon DEF DeleteFile, ToClient
  <2>3. QED
    BY <1>7, <1>8, <2>1, <2>2, SMTT(30)
<1>14. CASE PutStartArrives \/ BinArrives \/ PutDone
  <2>1. ~over /\ ~serve.on /\ serve' = serve /\ over' = over
    BY <1>14, Zenon DEF PutStartArrives, BinArrives, PutDone, Server
  <2>2. s2c' = s2c \/ \E p, ok : s2c' = Append(s2c, Ack("put_ack", p, ok))
    <3>1. CASE PutStartArrives
      BY <3>1, Zenon DEF PutStartArrives, reject_put, ToClient
    <3>2. CASE BinArrives
      BY <3>2, Zenon DEF BinArrives, reject_put, ToClient
    <3>3. CASE PutDone
      BY <3>3, Zenon DEF PutDone, reject_put, ToClient
    <3>4. QED
      BY <1>14, <3>1, <3>2, <3>3, Zenon
  <2>3. QED
    BY <1>7, <1>8, <1>9, <2>1, <2>2
<1>15. CASE ServerEnds
  <2>1. over' = TRUE /\ serve' = NoHandle /\ s2c' = s2c
    BY <1>15, Zenon DEF ServerEnds
  <2>2. Serving' /\ \A c \in Spots : After(c)'
    BY <1>0, <2>1, Zenon DEF Serving, After
  <2>3. QED
    BY <1>5, <2>1, <2>2, ZenonT(30)
<1>16. QED
  BY <1>10, <1>11, <1>12, <1>13, <1>14, <1>15, Zenon DEF ServerStep

LEMMA MixStep == TreeInv /\ MixInv /\ [Next]_vars => MixInv'
<1> SUFFICES ASSUME TreeInv, MixInv, [Next]_vars PROVE MixInv'
  BY Zenon
<1>1. ASSUME UNCHANGED <<c2s, s2c, plan, cpc, over, blurred>>,
             ctree' \in [Paths -> Hashed \cup {Absent}],
             {"path", "hash", "bad"} \subseteq DOMAIN job',
             {"on", "ino", "sum", "hash"} \subseteq DOMAIN serve',
             job'.path = job.path, job'.hash = job.hash, job'.bad = job.bad,
             serve'.on = serve.on, serve'.hash = serve.hash, serve'.sum = serve.sum,
             serve.on => serve'.ino \in Content
      PROVE  MixInv'
  <2>0. Hashed' = Hashed
    BY <1>1, Zenon DEF Hashed
  <2>1. Fetching' /\ Serving'
    BY <1>1, <2>0, Zenon DEF MixInv, Fetching, Serving
  <2>2. /\ \A b \in Spots : Before(b) => Before(b)' \/ cpc' = "failed"
        /\ \A c \in Spots : After(c) => After(c)'
    BY <1>1, Zenon DEF Before, After
  <2>3. Framed'
    BY <1>1, <2>2, FramedStays, Zenon DEF MixInv, Framed
  <2>4. QED
    BY <1>1, <2>0, <2>1, <2>3, Zenon DEF MixInv
<1>2. CASE UNCHANGED vars
  BY <1>1, <1>2, Zenon DEF vars, clientVars, serverVars, MixInv, Fetching, Serving
<1>3. CASE Environment
  <2>0. PICK p \in Paths : \E v \in Versions[p] \cup {Absent} : Replace(p, v) \/ Rewrite(p, v)
    BY <1>3, Zenon DEF Environment
  <2>1. PICK v \in Versions[p] \cup {Absent} : Replace(p, v) \/ Rewrite(p, v)
    BY <2>0, Zenon
  <2>2. UNCHANGED <<c2s, s2c, plan, cpc, over, blurred>>
    BY <2>1, Zenon DEF Replace, Rewrite
  <2>3. ctree' \in [Paths -> Hashed \cup {Absent}]
    <3>1. ctree' = ctree \/ ctree' = [ctree EXCEPT ![p] = v]
      BY <2>1, Zenon DEF Replace, Rewrite
    <3>2. v \in Hashed \cup {Absent}
      BY NotContent, Zenon DEF Hashed
    <3>3. QED
      BY <3>1, <3>2, Zenon DEF MixInv
  <2>4. /\ {"path", "hash", "bad"} \subseteq DOMAIN job'
        /\ job'.path = job.path /\ job'.hash = job.hash /\ job'.bad = job.bad
    <3>1. \/ job' = job \/ job' = [job EXCEPT !.live = @ /\ job.path # p]
          \/ job' = [job EXCEPT !.got = v]
      BY <2>1, Zenon DEF Replace, Rewrite
    <3>2. QED
      BY <3>1, Zenon DEF MixInv, Fetching
  <2>5. /\ {"on", "ino", "sum", "hash"} \subseteq DOMAIN serve'
        /\ serve'.on = serve.on /\ serve'.hash = serve.hash /\ serve'.sum = serve.sum
        /\ (serve.on => serve'.ino \in Content)
    <3>1. \/ serve' = serve \/ serve' = [serve EXCEPT !.live = @ /\ serve.path # p]
          \/ v \in Versions[p] /\ serve' = [serve EXCEPT !.ino = v]
      BY <2>1, Zenon DEF Replace, Rewrite
    <3>2. QED
      BY <3>1, NotContent, Zenon DEF MixInv, Serving
  <2>6. QED
    BY <1>1, <2>2, <2>3, <2>4, <2>5, ZenonT(30)
<1>4. CASE ServeFails
  <2>1. /\ UNCHANGED <<c2s, s2c, plan, cpc, job, ctree, blurred>>
        /\ over' = TRUE /\ serve' = NoHandle /\ Hashed' = Hashed
    BY <1>4, Zenon DEF ServeFails, ServerOnly, clientVars, Hashed
  <2>2. Serving' /\ Fetching'
    BY <2>1, Zenon DEF NoHandle, Serving, Fetching, MixInv
  <2>3. /\ \A b \in Spots : Before(b) => Before(b)'
        /\ \A c \in Spots : After(c)'
    BY <2>1, Zenon DEF Before, After
  <2>4. Framed'
    BY <2>1, <2>3, FramedStays, Zenon DEF MixInv, Framed
  <2>5. QED
    BY <2>1, <2>2, <2>4, Zenon DEF MixInv
<1>5. QED
  BY <1>2, <1>3, <1>4, MixClient, MixServer, Zenon DEF Next

\* No mixed content, for any plan, window, interleaving, edits and failures (serve_file,
\* the download loop, put_done): each file of either tree is at every moment one whole
\* content some user wrote, or a mixture the server itself hashed and announced while
\* the file was written to; so as long as no file changes under the hash, none is mixed.
THEOREM ContentsWhole == Spec => [](NoMixedContent /\ (blurred = {} => NeverMixed))
<1>1. ASSUME TreeInv, MixInv PROVE NoMixedContent /\ (blurred = {} => NeverMixed)
  <2>1. \A p \in Paths : ctree[p] \in Content \cup {Absent} \cup blurred
    BY <1>1, Zenon DEF MixInv, Hashed
  <2>2. \A p \in Paths : stree[p] \in Content \cup {Absent} \cup blurred
    BY <1>1, NotContent, Zenon DEF TreeInv, ServerTreeRight
  <2>3. Whole(blurred)
    BY <2>1, <2>2, Zenon DEF Whole
  <2>4. QED
    BY <2>3, Zenon DEF NoMixedContent, NeverMixed
<1>2. QED
  BY <1>1, TreeInit, TreeStep, MixInit, MixStep, PTL DEF Spec
=============================================================================
