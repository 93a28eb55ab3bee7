------------------------------- MODULE EdgeProofs -------------------------------
(***************************************************************************)
(* Theorems about the admission of connections on its own (WsGate), for    *)
(* any finite set of connections, any cap on unauthenticated ones and any  *)
(* number of challenges, and about the composition: the streams served on  *)
(* a session take nothing from what WsGate guarantees, a UDP association   *)
(* serves one client, and a relayed connection is routed as configured,    *)
(* told the truth and carried in order, for any connections, scenes,       *)
(* sources, routes, data and number of datagrams and faults.               *)
(***************************************************************************)
EXTENDS Edge, FiniteSetTheorems, WellFoundedInduction, TLAPS

(* The admission. *)

Places == {"tls", "native", "http", "cas", "auth", "writes", "admits", "bridged", "closed"}

\* The counter against the tasks that hold a slot.
SlotInv ==
    /\ gate \in [Conns -> Places]
    /\ unauth \in Nat
    /\ SlotsExact

\* What a connection has shown so far: a challenge is only ever issued to an admitted
\* key, so whoever answers one has that key; while "ok" is written no other challenge
\* is issued.
ProofInv ==
    /\ gate \in [Conns -> Places]
    /\ chal \in [Conns -> Nat] /\ proof \in [Conns -> Nat]
    /\ \A c \in Conns : chal[c] > 0 => authMode.open \/ who[c].key = "listed"
    /\ \A c \in Conns : gate[c] = "admits" => proof[c] > 0 /\ proof[c] = chal[c]
    /\ ProvenFirst

-----------------------------------------------------------------------------
\* A step of handle_conn, the head, a refused slot or the bridge, or one within the
\* exchange: c's task neither takes a slot nor gives one back.
Quiet(c) ==
    /\ unauth' = unauth
    /\ \E there \in Places :
           (there \in Held <=> gate[c] \in Held) /\ gate' = [gate EXCEPT ![c] = there]
Takes(c) ==
    /\ gate[c] \notin Held /\ unauth < MaxUnauth /\ unauth' = unauth + 1
    /\ gate' = [gate EXCEPT ![c] = "writes"]
Releases(c) ==
    /\ gate[c] \in Held /\ unauth' = unauth - 1
    /\ \E there \in Places \ Held : gate' = [gate EXCEPT ![c] = there]

\* Every step of a connection treats the counter in one of these three ways, or
\* touches neither the counter nor its place.
LEMMA SlotCases ==
    ASSUME NEW c \in Conns, SlotInv, Admission(c) \/ Exchange(c) \/ Bridge(c) \/ NativeEnds(c)
    PROVE  Quiet(c) \/ Takes(c) \/ Releases(c) \/ UNCHANGED <<gate, unauth>>
<1> USE DEF At, Moves, Places, Held
<1>1. CASE HandleConn(c)
  BY <1>1, Zenon DEF HandleConn, Quiet
<1>2. CASE HeadServed(c) \/ HeadUpgrades(c) \/ NativeEnds(c)
  BY <1>2, Zenon DEF HeadServed, HeadUpgrades, NativeEnds, Quiet
<1>3. CASE SlotRefused(c) \/ SlotRetried(c)
  BY <1>3, Zenon DEF SlotRefused, SlotRetried, Quiet, SlotInv
<1>4. CASE SlotTaken(c)
  BY <1>4, Zenon DEF SlotTaken, Takes
<1>5. CASE AuthInit(c)
  BY <1>5, Zenon DEF AuthInit, SlotReleased, Releases, Quiet
<1>6. CASE AuthFails(c) \/ WriteFails(c)
  BY <1>6, Zenon DEF AuthFails, WriteFails, SlotReleased, Releases
<1>a. CASE WriteDone(c)
  BY <1>a, Zenon DEF WriteDone, SlotReleased, Releases, Quiet
<1>7. ASSUME NEW over, NEW form, NEW v, AuthResponse(c, over, form, v)
      PROVE  Releases(c) \/ Quiet(c)
  BY <1>7, Zenon DEF AuthResponse, SlotReleased, Releases, Quiet
<1>8. CASE Bridge(c)
  <2>1. PICK task : Ends(c, task)
    BY <1>8, Zenon DEF Bridge, ReaderEnds, SessionEnds, MuxEnds, WriterEnds, WriterEof, PeerCloses
  <2>2. CASE Stops(c, task)
    BY <2>2, Zenon DEF Stops, Quiet
  <2>3. CASE Lingers(c, task)
    BY <2>3 DEF Lingers
  <2>4. QED
    BY <2>1, <2>2, <2>3 DEF Ends
<1>9. QED
  BY <1>1, <1>2, <1>3, <1>4, <1>5, <1>6, <1>a, <1>7, <1>8, ZenonT(30) DEF Admission, Slot, Exchange

LEMMA SlotInit == GateInit([Conns -> Peers], Modes) => SlotInv
<1> SUFFICES ASSUME GateInit([Conns -> Peers], Modes) PROVE SlotInv
  BY Zenon
<1>1. Holders = {}
  BY Zenon DEF GateInit, Holders, Held
<1>2. QED
  BY <1>1, FS_EmptySet, GateAssumption DEF GateInit, SlotInv, SlotsExact, Places

LEMMA SlotStep == SlotInv /\ [GateNext]_gateVars => SlotInv'
<1> SUFFICES ASSUME SlotInv, [GateNext]_gateVars PROVE SlotInv'
  BY Zenon
<1>0. /\ IsFiniteSet(Holders) /\ Cardinality(Holders) \in Nat
      /\ unauth = Cardinality(Holders) /\ unauth <= MaxUnauth /\ unauth \in Nat
      /\ gate \in [Conns -> Places] /\ MaxUnauth \in Nat
  <2>1. IsFiniteSet(Holders)
    BY FS_Subset, GateAssumption, Zenon DEF Holders
  <2>2. QED
    BY <2>1, FS_CardinalityType, GateAssumption, Zenon DEF SlotInv, SlotsExact
<1>1. CASE UNCHANGED <<gate, unauth>>
  BY <1>1, Zenon DEF SlotInv, SlotsExact, Holders
<1>2. ASSUME NEW c \in Conns, Quiet(c) PROVE SlotInv'
  <2>1. gate' \in [Conns -> Places] /\ Holders' = Holders
    BY <1>0, <1>2, Zenon DEF Quiet, Holders
  <2>2. QED
    BY <1>0, <1>2, <2>1, Zenon DEF Quiet, SlotInv, SlotsExact
<1>3. ASSUME NEW c \in Conns, Takes(c) PROVE SlotInv'
  <2>1. gate' \in [Conns -> Places] /\ c \notin Holders /\ Holders' = Holders \cup {c}
    BY <1>0, <1>3, Zenon DEF Takes, Holders, Places, Held
  <2>2. Cardinality(Holders') = Cardinality(Holders) + 1
    BY <1>0, <2>1, FS_AddElement, Zenon
  <2>3. QED
    BY <1>0, <1>3, <2>1, <2>2, SMTT(30) DEF Takes, SlotInv, SlotsExact
<1>4. ASSUME NEW c \in Conns, Releases(c) PROVE SlotInv'
  <2>1. gate' \in [Conns -> Places] /\ c \in Holders /\ Holders' = Holders \ {c}
    BY <1>0, <1>4, Zenon DEF Releases, Holders
  <2>2. Cardinality(Holders') = Cardinality(Holders) - 1
    BY <1>0, <2>1, FS_RemoveElement, Zenon
  <2>3. Cardinality(Holders') \in Nat
    BY <1>0, <2>1, FS_RemoveElement, FS_CardinalityType
  <2>4. QED
    BY <1>0, <1>4, <2>1, <2>2, <2>3, SMTT(30) DEF Releases, SlotInv, SlotsExact
<1>5. CASE GateNext
  BY <1>1, <1>2, <1>3, <1>4, <1>5, SlotCases, ZenonT(30) DEF GateNext
<1>6. QED
  BY <1>1, <1>5, Zenon DEF gateVars

\* The slot counter (UnauthSlot, ws.rs) equals the number of connections in the
\* exchange and never passes its cap, for any number of racing connections.
THEOREM SlotCounterExact == GateSpec => []SlotsExact
<1>1. SlotInv => SlotsExact
  BY Zenon DEF SlotInv
<1>2. QED
  BY <1>1, SlotInit, SlotStep, PTL DEF GateSpec

-----------------------------------------------------------------------------
LEMMA ProofInit == GateInit([Conns -> Peers], Modes) => ProofInv
  BY DEF GateInit, ProofInv, ProvenFirst, Places

\* A step that neither issues a challenge nor accepts one, and does not enter a session.
LEMMA ProofKept ==
    ASSUME ProofInv, NEW c \in Conns, NEW there \in Places \ {"native", "admits", "bridged"},
           gate' = [gate EXCEPT ![c] = there], UNCHANGED <<who, authMode, chal, proof>>
    PROVE  ProofInv'
  BY Zenon DEF ProofInv, ProvenFirst, Authorized

LEMMA ProofStep == ProofInv /\ [GateNext]_gateVars => ProofInv'
<1> SUFFICES ASSUME ProofInv, [GateNext]_gateVars PROVE ProofInv'
  BY Zenon
<1>0. CASE UNCHANGED <<gate, who, authMode, chal, proof>>
  BY <1>0, Zenon DEF ProofInv, ProvenFirst, Authorized
<1>1. ASSUME NEW c \in Conns, Admission(c) \/ NativeEnds(c) PROVE ProofInv'
  <2> USE DEF At, Moves, ExchangeKept
  <2>1. CASE HandleConn(c)
    <3>1. CASE Authorized(c) /\ Moves(c, "native")
      BY <2>1, <3>1, Zenon DEF HandleConn, ProofInv, ProvenFirst, Authorized, Places
    <3>2. QED
      BY <2>1, <3>1, ProofKept, Zenon DEF HandleConn, Places
  <2>2. CASE HeadServed(c) \/ HeadUpgrades(c) \/ SlotRefused(c) \/ SlotTaken(c) \/ NativeEnds(c)
    BY <2>2, ProofKept, Zenon DEF HeadServed, HeadUpgrades, SlotRefused, SlotTaken, NativeEnds, Places
  <2>3. CASE SlotRetried(c)
    BY <2>3, <1>0, Zenon DEF SlotRetried
  <2>4. QED
    BY <1>1, <2>1, <2>2, <2>3, Zenon DEF Admission, Slot
<1>2. ASSUME NEW c \in Conns, Exchange(c) PROVE ProofInv'
  <2> USE DEF At, Moves, ExchangeKept
  <2>1. CASE AuthInit(c)
    <3>1. CASE authMode.open \/ who[c].key = "listed"
      <4>1. /\ gate' = [gate EXCEPT ![c] = "writes"] /\ UNCHANGED <<who, authMode, proof>>
            /\ chal' = [chal EXCEPT ![c] = @ + 1]
        BY <2>1, <3>1, Zenon DEF AuthInit
      <4>2. chal[c] + 1 \in Nat
        BY SMTT(30) DEF ProofInv
      <4>3. QED
        BY <3>1, <4>1, <4>2, ZenonT(30) DEF ProofInv, ProvenFirst, Authorized, Places
    <3>2. CASE ~(authMode.open \/ who[c].key = "listed")
      BY <2>1, <3>2, ProofKept, Zenon DEF AuthInit, Places
    <3>3. QED
      BY <3>1, <3>2, Zenon
  <2>2. CASE AuthFails(c) \/ WriteFails(c)
    BY <2>2, ProofKept, Zenon DEF AuthFails, WriteFails, Places
  <2>a. CASE WriteDone(c)
    <3>1. CASE At(c, "writes")
      BY <2>a, <3>1, ProofKept, Zenon DEF WriteDone, Places
    <3>2. CASE At(c, "admits")
      <4>1. gate' = [gate EXCEPT ![c] = "bridged"] /\ UNCHANGED <<who, authMode, chal, proof>>
        BY <2>a, <3>2, Zenon DEF WriteDone
      <4>2. QED
        BY <3>2, <4>1, ZenonT(30) DEF ProofInv, ProvenFirst, Authorized, Places
    <3>3. QED
      BY <2>a, <3>1, <3>2, Zenon DEF WriteDone
  <2>3. ASSUME NEW over \in 0..MaxInits, NEW form, NEW v, AuthResponse(c, over, form, v)
        PROVE  ProofInv'
    <3>1. CASE chal[c] > 0 /\ Verifies(c, over, form, v)
      BY <2>3, <3>1 DEF AuthResponse, Verifies, ProofInv, ProvenFirst, Authorized, Places
    <3>2. CASE ~(chal[c] > 0 /\ Verifies(c, over, form, v))
      BY <2>3, <3>2, ProofKept, ZenonT(30) DEF AuthResponse, Places
    <3>3. QED
      BY <3>1, <3>2
  <2>4. QED
    BY <1>2, <2>1, <2>2, <2>a, <2>3, ZenonT(30) DEF Exchange
<1>3. ASSUME NEW c \in Conns, Bridge(c) PROVE ProofInv'
  <2>1. PICK task : Ends(c, task)
    BY <1>3, Zenon DEF Bridge, ReaderEnds, SessionEnds, MuxEnds, WriterEnds, WriterEof, PeerCloses
  <2>2. CASE Stops(c, task) /\ task = "session"
    <3>1. gate' = [gate EXCEPT ![c] = "closed"] /\ UNCHANGED <<who, authMode, chal, proof>>
      BY <2>2 DEF Stops, Moves, ExchangeKept
    <3>2. QED
      BY <3>1, ProofKept, Zenon DEF Places
  <2>3. CASE Stops(c, task) /\ task # "session"
    <3>1. gate' = gate
      BY <2>3, Zenon DEF Stops, Moves, At, ProofInv
    <3>2. QED
      BY <1>0, <2>3, <3>1 DEF Stops, Moves, ExchangeKept
  <2>4. CASE Lingers(c, task)
    BY <1>0, <2>4, Zenon DEF Lingers, ExchangeKept
  <2>5. QED
    BY <2>1, <2>2, <2>3, <2>4, ZenonT(30) DEF Ends
<1>4. QED
  BY <1>0, <1>1, <1>2, <1>3, Zenon DEF GateNext, gateVars

\* No session without proof: a bridged session rests on a signature over the latest
\* challenge of its own connection by an admitted key, a native one on an admitted
\* certificate (auth_phase, handle_conn), whatever the other connections do.
THEOREM SessionsProven == GateSpec => []ProvenFirst
<1>1. ProofInv => ProvenFirst
  BY Zenon DEF ProofInv
<1>2. QED
  BY <1>1, ProofInit, ProofStep, PTL DEF GateSpec

-----------------------------------------------------------------------------
(* The composition. *)

\* To WsGate every step of the composition is a step of its own or none.
LEMMA EdgeInit == Init => GateInit([Conns -> Peers], Modes) /\ UdpInit
  BY ScenesAssumption, Zenon DEF Init, GateInit

LEMMA GateSteps == [Next]_vars => [GateNext]_gateVars
<1>1. CASE AtGate(GateNext)
  BY <1>1, Zenon DEF AtGate
<1>2. CASE InRelay(RelayNext) \/ InUdp(UdpNext)
  BY <1>2, Zenon DEF InRelay, InUdp
<1>3. CASE UNCHANGED vars
  BY <1>3, Zenon DEF vars
<1>4. QED
  BY <1>1, <1>2, <1>3, ZenonT(30) DEF Next

\* The slot counter stays exact while sessions carry streams and end under them
\* (try_acquire, the guard's drop).
THEOREM EdgeSlotsExact == Spec => []SlotsExact
<1>1. SlotInv => SlotsExact
  BY Zenon DEF SlotInv
<1>2. QED
  BY <1>1, EdgeInit, GateSteps, SlotInit, SlotStep, PTL DEF Spec

\* Streams are only ever served on a proven session (handle_conn, auth_phase).
THEOREM EdgeSessionsProven == Spec => []ProvenFirst
<1>1. ProofInv => ProvenFirst
  BY Zenon DEF ProofInv
<1>2. QED
  BY <1>1, EdgeInit, GateSteps, ProofInit, ProofStep, PTL DEF Spec

-----------------------------------------------------------------------------
(* The association. *)

\* Whatever waits in the tunnel came from the association's client, which is fixed
\* once it is known.
ClientInv ==
    /\ out \in Seq(peer \cup {"fin"})
    /\ OneClient

\* What a cut leaves of a sequence consists of its items and an end.
LEMMA CutIs ==
    ASSUME NEW q, NEW r \in Stranded(q) \cup Severed(q)
    PROVE  \E n \in 0..Len(q) : r = SubSeq(q, 1, n) \/ r = Append(SubSeq(q, 1, n), "fin")
<1>1. CASE r \in Stranded(q)
  BY <1>1, Zenon DEF Stranded
<1>2. CASE r \in Severed(q)
  <2>1. PICK n \in 0..Len(q) :
            r = IF n > 0 /\ q[n] = "fin" THEN SubSeq(q, 1, n) ELSE Append(SubSeq(q, 1, n), "fin")
    BY <1>2, Zenon DEF Severed
  <2>2. QED
    BY <2>1, Zenon
<1>3. QED
  BY <1>1, <1>2, Zenon

LEMMA CutSeqs ==
    ASSUME NEW S, "fin" \in S, NEW q \in Seq(S), NEW r \in Stranded(q) \cup Severed(q)
    PROVE  r \in Seq(S)
<1>1. PICK n \in 0..Len(q) : r = SubSeq(q, 1, n) \/ r = Append(SubSeq(q, 1, n), "fin")
  BY CutIs, Zenon
<1>2. SubSeq(q, 1, n) \in Seq(S)
  BY SMTT(30)
<1>3. \A s \in Seq(S) : Append(s, "fin") \in Seq(S)
  BY SMTT(30)
<1>4. QED
  BY <1>1, <1>2, <1>3, Zenon

LEMMA ClientInit == UdpInit => ClientInv
  BY SMTT(30) DEF UdpInit, ClientInv, OneClient

LEMMA ClientStep == ClientInv /\ [UdpNext \/ WireDies]_udpVars => ClientInv'
<1> SUFFICES ASSUME ClientInv, [UdpNext \/ WireDies]_udpVars PROVE ClientInv'
  BY Zenon
<1> USE DEF ClientInv, OneClient
<1>1. CASE UNCHANGED <<peer, out, sent, reached>>
  BY <1>1, Zenon
<1>2. CASE UdpOpens \/ UdpRefused \/ UdpBinds \/ Response \/ ControlCloses
  BY <1>1, <1>2, Zenon DEF UdpOpens, UdpRefused, UdpBinds, Response, ControlCloses
<1>3. CASE UdpStarts
  BY <1>3, SMTT(30) DEF UdpStarts
<1>4. CASE UdpCloses \/ UdpSocketFails
  BY <1>4, SMTT(30) DEF UdpCloses, UdpSocketFails, UdpLeaves
<1>5. CASE InboundFrame
  BY <1>5, Zenon DEF InboundFrame
<1>6. CASE RelayFrame
  <2>1. Head(out) \in peer \cup {"fin"} /\ out' \in Seq(peer \cup {"fin"})
    BY <1>6, SMTT(30) DEF RelayFrame
  <2>2. peer' = peer /\ reached' = reached /\ sent' \subseteq sent \cup ({Head(out)} \ {"fin"})
    BY <1>6, Zenon DEF RelayFrame
  <2>3. QED
    BY <2>1, <2>2, Zenon
<1>7. ASSUME NEW src \in Sources, NEW fits \in BOOLEAN, LocalDatagram(src, fits) PROVE ClientInv'
  <2>1. peer \subseteq peer' /\ UNCHANGED <<sent, reached>>
    BY <1>7, Zenon DEF LocalDatagram, Latched
  <2>2. out \in Seq(peer' \cup {"fin"})
    BY <2>1, SMTT(30)
  <2>3. out' = out \/ (src \in peer' /\ out' = Append(out, src))
    BY <1>7, Zenon DEF LocalDatagram
  <2>4. out' \in Seq(peer' \cup {"fin"})
    BY <2>2, <2>3, SMTT(30)
  <2>5. QED
    BY <2>1, <2>4, Zenon
<1>8. CASE WireDies
  <2>1. out' \in Stranded(out) \cup Severed(out) /\ UNCHANGED <<peer, sent, reached>>
    BY <1>8, Zenon DEF WireDies
  <2>2. out' \in Seq(peer \cup {"fin"})
    BY <2>1, CutSeqs, Zenon
  <2>3. QED
    BY <2>1, <2>2, Zenon
<1>9. QED
  BY <1>1, <1>2, <1>3, <1>4, <1>5, <1>6, <1>7, <1>8, ZenonT(30)
     DEF UdpNext, UdpRuns, Association, UdpServer, udpVars

LEMMA UdpSteps == [Next]_vars => [UdpNext \/ WireDies]_udpVars
<1>1. CASE AtGate(GateNext)
  BY <1>1, Zenon DEF AtGate, StreamsCut
<1>2. CASE InRelay(RelayNext)
  BY <1>2, Zenon DEF InRelay
<1>3. CASE InUdp(UdpNext)
  BY <1>3, Zenon DEF InUdp
<1>4. CASE UNCHANGED vars
  BY <1>4, Zenon DEF vars
<1>5. QED
  BY <1>1, <1>2, <1>3, <1>4, ZenonT(30) DEF Next

\* Only the first source's datagrams are sent on, and only it is replied to, however
\* its datagrams, other sources', the answers and the session's end interleave
\* (relay_udp_association, handle_udp_relay).
THEOREM AssociationServesOne == Spec => []OneClient
<1>1. ClientInv => OneClient
  BY Zenon DEF ClientInv
<1>2. QED
  BY <1>1, EdgeInit, ClientInit, ClientStep, UdpSteps, PTL DEF Spec

-----------------------------------------------------------------------------
(* The router. *)

\* The order of the naturals, as a relation.
Below == {pair \in Nat \X Nat : pair[1] < pair[2]}

\* Every nonempty set of naturals has a least element.
LEMMA Least ==
    ASSUME NEW T, T \subseteq Nat, T # {}
    PROVE  \E x \in T : \A y \in T : x <= y
<1>1. IsWellFoundedOn(Below, Nat)
  BY NatLessThanWellFounded, Zenon DEF OpToRel, Below
<1>2. \E x \in T : \A y \in T : ~ (<<y, x>> \in Below)
  BY <1>1, WFMin, Zenon
<1>3. ASSUME NEW x \in T, NEW y \in T, ~ (<<y, x>> \in Below) PROVE x <= y
  <2>1. x \in Nat /\ y \in Nat BY Zenon
  <2>2. ~ (y < x) BY <2>1, <1>3, Zenon DEF Below
  <2>3. QED BY <2>1, <2>2, SMTT(30)
<1>4. QED BY <1>2, <1>3, Zenon

\* What resolve answers when no route matches, and when the route r does.
AfterLoop(cfg, target) ==
    IF cfg.fallback # NoUpstream THEN Route(cfg.fallback)
    ELSE IF cfg.policy.enabled THEN ClientTarget(cfg.policy, target) ELSE Deny
AtRoute(cfg, r) ==
    IF r.upstream # NoUpstream THEN Route(r.upstream)
    ELSE IF cfg.fallback # NoUpstream THEN Route(cfg.fallback)
    ELSE Deny

\* f is a solution of the loop's recursion.
Loops(cfg, target, f) ==
    f = [i \in 1..(Len(cfg.routes) + 1) |->
           IF i > Len(cfg.routes) THEN AfterLoop(cfg, target)
           ELSE IF ~RouteMatches(cfg.routes[i], target) THEN f[i + 1]
           ELSE AtRoute(cfg, cfg.routes[i])]

\* The routes that match, and the first of those from the i-th on.
Hits(cfg, target) == {i \in 1..Len(cfg.routes) : RouteMatches(cfg.routes[i], target)}
Some(S) == CHOOSE k \in S : TRUE
FirstFrom(H, i) == {k \in H : i <= k /\ \A j \in H : i <= j => k <= j}

\* Without the loop: the answer of the first route that matches from the i-th on.
Answer(cfg, target, i) ==
    IF \E k \in Hits(cfg, target) : i <= k
    THEN AtRoute(cfg, cfg.routes[Some(FirstFrom(Hits(cfg, target), i))])
    ELSE AfterLoop(cfg, target)

\* There is such a first, and one only.
LEMMA FirstExists ==
    ASSUME NEW H, H \subseteq Nat, NEW i \in Nat, \E k \in H : i <= k
    PROVE  /\ Some(FirstFrom(H, i)) \in FirstFrom(H, i)
           /\ \A k, j \in FirstFrom(H, i) : k = j
<1> DEFINE T == {k \in H : i <= k}
<1>1. PICK x \in T : \A y \in T : x <= y
  <2>1. T \subseteq Nat /\ T # {} BY Zenon
  <2> HIDE DEF T
  <2>2. QED BY <2>1, Least, Zenon
<1>2. x \in FirstFrom(H, i)
  BY <1>1 DEF FirstFrom
<1>3. Some(FirstFrom(H, i)) \in FirstFrom(H, i)
  BY <1>2, Zenon DEF Some
<1>4. ASSUME NEW k \in FirstFrom(H, i), NEW j \in FirstFrom(H, i) PROVE k = j
  BY DEF FirstFrom
<1>5. QED BY <1>3, <1>4, Zenon

\* The recursion's step holds of Answer.
LEMMA AnswerStep ==
    ASSUME NEW cfg, NEW target, IsConfig(cfg), NEW i \in 1..(Len(cfg.routes) + 1)
    PROVE  Answer(cfg, target, i) =
             IF i > Len(cfg.routes) THEN AfterLoop(cfg, target)
             ELSE IF ~RouteMatches(cfg.routes[i], target) THEN Answer(cfg, target, i + 1)
             ELSE AtRoute(cfg, cfg.routes[i])
<1> DEFINE H == Hits(cfg, target)
           n == Len(cfg.routes)
<1>n. n \in Nat
  BY SMTT(30) DEF IsConfig
<1>h. H \subseteq 1..n /\ H \subseteq Nat
  BY <1>n, SMTT(30) DEF Hits
<1>i. i \in Nat /\ i + 1 \in Nat
  BY <1>n, SMTT(30)
<1>1. CASE i > n
  <2>1. ~ \E k \in H : i <= k
    BY <1>1, <1>h, <1>n, <1>i, SMTT(30)
  <2>2. QED BY <1>1, <2>1, ZenonT(30) DEF Answer
<1>2. CASE ~(i > n) /\ ~RouteMatches(cfg.routes[i], target)
  <2>1. i \notin H
    BY <1>2, Zenon DEF Hits
  <2>2. \A k \in H : i <= k <=> i + 1 <= k
    BY <2>1, <1>h, <1>i, SMTT(30)
  <2> HIDE DEF H
  <2>3. FirstFrom(H, i) = FirstFrom(H, i + 1)
    <3>1. \A k : k \in FirstFrom(H, i) <=> k \in FirstFrom(H, i + 1)
      BY <2>2, Zenon DEF FirstFrom
    <3>2. QED BY <3>1, Zenon
  <2>4. (\E k \in H : i <= k) <=> (\E k \in H : i + 1 <= k)
    BY <2>2, Zenon
  <2>5. Answer(cfg, target, i) = Answer(cfg, target, i + 1)
    BY <2>3, <2>4, Zenon DEF Answer, H
  <2>6. QED BY <2>5, <1>2, Zenon
<1>3. CASE ~(i > n) /\ RouteMatches(cfg.routes[i], target)
  <2>1. i \in H
    BY <1>3, <1>n, SMTT(30) DEF Hits
  <2> HIDE DEF H
  <2>2. i <= i
    BY <1>i, SMTT(30)
  <2>3. \E k \in H : i <= k
    BY <2>1, <2>2, Zenon
  <2>4. i \in FirstFrom(H, i)
    BY <2>1, <2>2, Zenon DEF FirstFrom
  <2>5. Some(FirstFrom(H, i)) = i
    BY <2>3, <2>4, <1>h, <1>i, FirstExists, Zenon
  <2>6. Answer(cfg, target, i) = AtRoute(cfg, cfg.routes[i])
    BY <2>3, <2>5, Zenon DEF Answer, H
  <2>7. QED BY <2>6, <1>3, Zenon
<1>4. QED BY <1>1, <1>2, <1>3, Zenon

\* So the recursion has a solution, ...
LEMMA LoopExists ==
    ASSUME NEW cfg, NEW target, IsConfig(cfg)
    PROVE  Loops(cfg, target, [i \in 1..(Len(cfg.routes) + 1) |-> Answer(cfg, target, i)])
<1> DEFINE n == Len(cfg.routes)
           g == [i \in 1..(n + 1) |-> Answer(cfg, target, i)]
<1>n. n \in Nat
  BY SMTT(30) DEF IsConfig
<1>1. ASSUME NEW i \in 1..(n + 1)
      PROVE  Answer(cfg, target, i) =
               IF i > n THEN AfterLoop(cfg, target)
               ELSE IF ~RouteMatches(cfg.routes[i], target) THEN g[i + 1]
               ELSE AtRoute(cfg, cfg.routes[i])
  <2>1. ~(i > n) => i + 1 \in 1..(n + 1)
    BY <1>n, SMTT(30)
  <2>2. ~(i > n) => g[i + 1] = Answer(cfg, target, i + 1)
    BY <2>1, Zenon
  <2>3. QED BY <2>2, AnswerStep, Zenon
<1>2. QED BY <1>1, Zenon DEF Loops

\* ... and no other.
LEMMA LoopIs ==
    ASSUME NEW cfg, NEW target, IsConfig(cfg), NEW f, Loops(cfg, target, f)
    PROVE  f[1] = Answer(cfg, target, 1)
<1> DEFINE n == Len(cfg.routes)
           T == {k \in Nat : k <= n /\ f[n + 1 - k] # Answer(cfg, target, n + 1 - k)}
<1>n. n \in Nat
  BY SMTT(30) DEF IsConfig
<1>f. ASSUME NEW i \in 1..(n + 1)
      PROVE  f[i] = IF i > n THEN AfterLoop(cfg, target)
                    ELSE IF ~RouteMatches(cfg.routes[i], target) THEN f[i + 1]
                    ELSE AtRoute(cfg, cfg.routes[i])
  BY Zenon DEF Loops
<1>1. ASSUME T # {} PROVE FALSE
  <2>1. PICK x \in T : \A y \in T : x <= y
    <3>1. T \subseteq Nat BY Zenon
    <3> HIDE DEF T
    <3>2. QED BY <1>1, <3>1, Least, Zenon
  <2>2. x \in Nat /\ x <= n /\ f[n + 1 - x] # Answer(cfg, target, n + 1 - x)
    BY Zenon
  <2> DEFINE i == n + 1 - x
  <2>3. i \in 1..(n + 1)
    BY <2>2, <1>n, SMTT(30)
  <2>4. ~(i > n) => f[i + 1] = Answer(cfg, target, i + 1)
    <3> SUFFICES ASSUME ~(i > n) PROVE f[i + 1] = Answer(cfg, target, i + 1)
      BY Zenon
    <3>1. x - 1 \in Nat /\ x - 1 <= n /\ ~(x <= x - 1) /\ n + 1 - (x - 1) = i + 1
      BY <2>2, <1>n, SMTT(30)
    <3>2. x - 1 \notin T
      BY <3>1, <2>1, Zenon
    <3>3. QED BY <3>1, <3>2, Zenon
  <2>5. f[i] = Answer(cfg, target, i)
    <3> HIDE DEF i
    <3>1. QED BY <2>3, <2>4, <1>f, AnswerStep, Zenon
  <2>6. QED BY <2>2, <2>5, Zenon
<1>2. n \in Nat /\ n <= n /\ n + 1 - n = 1
  BY <1>n, SMTT(30)
<1>3. n \notin T
  BY <1>1, Zenon
<1>4. QED BY <1>2, <1>3, Zenon

\* resolve's loop finds the first route that matches.
LEMMA ResolveIs ==
    ASSUME NEW cfg, NEW target, IsConfig(cfg)
    PROVE  resolve(cfg, target) = Answer(cfg, target, 1)
<1>1. \E f : Loops(cfg, target, f)
  BY LoopExists, Zenon
<1>2. Loops(cfg, target, CHOOSE f : Loops(cfg, target, f))
  BY <1>1, Zenon
<1>3. resolve(cfg, target) = (CHOOSE f : Loops(cfg, target, f))[1]
  BY Zenon DEF resolve, Loops, AfterLoop, AtRoute
<1>4. QED BY <1>2, <1>3, LoopIs, Zenon

LEMMA Gap ==
    ASSUME NEW n \in Nat, NEW m \in Nat, n > m
    PROVE  n - m \in 1..n /\ (n - m > 1 \/ n - m = 1)
  BY SMTT(30)

\* host_matches is Covers: a suffix pattern leaves exactly its own labels.
LEMMA CoversIs ==
    ASSUME NEW p, NEW h \in Seq(STRING), p.labels \in Seq(STRING)
    PROVE  host_matches(p, h) <=> Covers(p, h)
<1>t. Len(h) \in Nat /\ Len(p.labels) \in Nat
  BY SMTT(30)
<1> DEFINE above == Len(h) - Len(p.labels)
<1>1. ASSUME Len(h) > Len(p.labels), SubSeq(h, above + 1, Len(h)) = p.labels, above > 1 => h[above] # ""
      PROVE  \E k \in 1..Len(h) : SubSeq(h, k + 1, Len(h)) = p.labels /\ (h[k] = "" => k = 1)
  <2>1. above \in 1..Len(h) /\ (above > 1 \/ above = 1)
    BY <1>1, <1>t, Gap, Zenon
  <2>2. QED BY <2>1, <1>1, Zenon
<1>2. ASSUME NEW k \in 1..Len(h), SubSeq(h, k + 1, Len(h)) = p.labels, h[k] = "" => k = 1
      PROVE  /\ Len(h) > Len(p.labels) /\ SubSeq(h, above + 1, Len(h)) = p.labels
             /\ above > 1 => h[above] # ""
  <2>1. Len(SubSeq(h, k + 1, Len(h))) = Len(h) - k
    BY <1>t, SMTT(30)
  <2>2. Len(p.labels) = Len(h) - k
    BY <2>1, <1>2, Zenon
  <2>3. Len(h) > Len(p.labels) /\ above = k /\ ~(1 > 1)
    BY <2>2, <1>t, SMTT(30)
  <2>4. QED BY <2>3, <1>2, Zenon
<1>3. QED
  <2>1. host_matches(p, h) <=>
            \/ p.kind = "any" \/ (p.kind = "exact" /\ p.labels = h)
            \/ /\ p.kind = "under" /\ Len(h) > Len(p.labels)
               /\ SubSeq(h, above + 1, Len(h)) = p.labels /\ (above > 1 => h[above] # "")
    BY SMTT(30) DEF host_matches, normalize_host
  <2> HIDE DEF above
  <2>2. QED BY <1>1, <1>2, <2>1, Zenon DEF Covers

\* The router's patterns select as the configuration promises.
LEMMA SelectsIs ==
    ASSUME NEW hosts, NEW ports, NEW target, IsTarget(target),
           \A p \in hosts : p.labels \in Seq(STRING)
    PROVE  Selects(hosts, ports, target) <=>
             /\ \E p \in hosts : host_matches(p, normalize_host(target.host))
             /\ port_matches(ports, target.port)
<1>1. normalize_host(target.host) = target.host.labels /\ target.host.labels \in Seq(STRING)
  BY Zenon DEF normalize_host, IsTarget
<1>2. \A p \in hosts : host_matches(p, normalize_host(target.host)) <=> Covers(p, target.host.labels)
  BY <1>1, CoversIs, Zenon
<1>3. (target.port \in UNION {r[1]..r[2] : r \in ports}) <=> \E r \in ports : target.port \in r[1]..r[2]
  BY Zenon
<1>4. port_matches(ports, target.port) <=>
        (ports = {} \/ target.port \in UNION {r[1]..r[2] : r \in ports})
  BY <1>3, Zenon DEF port_matches
<1>5. QED BY <1>2, <1>4, Zenon DEF Selects

\* A pattern for any host leaves the choice to the ports.
LEMMA AnySelects ==
    ASSUME NEW hosts, NEW ports, NEW target, [kind |-> "any"] \in hosts
    PROVE  Selects(hosts, ports, target) <=> port_matches(ports, target.port)
<1>1. Covers([kind |-> "any"], target.host.labels)
  BY Zenon DEF Covers
<1>3. (target.port \in UNION {r[1]..r[2] : r \in ports}) <=> \E r \in ports : target.port \in r[1]..r[2]
  BY Zenon
<1>4. port_matches(ports, target.port) <=>
        (ports = {} \/ target.port \in UNION {r[1]..r[2] : r \in ports})
  BY <1>3, Zenon DEF port_matches
<1>5. QED BY <1>1, <1>4, Zenon DEF Selects

\* What a target must satisfy to match a route, in the words of the promise.
Chosen(r, target) ==
    IF r.hosts = {} THEN Selects({[kind |-> "any"]}, r.ports, target)
                    ELSE target.host.labels # <<>> /\ Selects(r.hosts, r.ports, target)

\* A route matches exactly when the promise says so.
LEMMA ChosenIs ==
    ASSUME NEW r, NEW target, IsTarget(target), \A p \in r.hosts : p.labels \in Seq(STRING)
    PROVE  Chosen(r, target) <=> RouteMatches(r, target)
<1>1. Selects({[kind |-> "any"]}, r.ports, target) <=> port_matches(r.ports, target.port)
  <2> DEFINE all == {[kind |-> "any"]}
  <2>1. [kind |-> "any"] \in all
    BY Zenon
  <2> HIDE DEF all
  <2>2. Selects(all, r.ports, target) <=> port_matches(r.ports, target.port)
    BY <2>1, AnySelects, Zenon
  <2>3. QED BY <2>2, Zenon DEF all
<1>2. Selects(r.hosts, r.ports, target) <=>
             /\ \E p \in r.hosts : host_matches(p, normalize_host(target.host))
             /\ port_matches(r.ports, target.port)
  BY SelectsIs, Zenon
<1>3. normalize_host(target.host) = target.host.labels
  BY Zenon DEF normalize_host
<1>4. QED BY <1>1, <1>2, <1>3, Zenon DEF Chosen, RouteMatches

\* The policy's host check passes a target without a host.
Admits(cfg, target) ==
    /\ cfg.policy.enabled /\ ~target.unix /\ target.port # 0
    /\ Selects(cfg.policy.hosts \cup (IF target.host.labels = <<>> THEN {[kind |-> "any"]} ELSE {}),
               cfg.policy.ports, target)

\* The policy's answer is the promised one.
LEMMA AdmitsIs ==
    ASSUME NEW cfg, NEW target, IsTarget(target), IsConfig(cfg), cfg.policy.enabled
    PROVE  ClientTarget(cfg.policy, target) = IF Admits(cfg, target) THEN Dial ELSE Deny
<1> DEFINE bare == target.host.labels = <<>>
           hosts == cfg.policy.hosts \cup (IF bare THEN {[kind |-> "any"]} ELSE {})
<1>1. target.port # 0 <=> target.port > 0
  BY SMTT(30) DEF IsTarget
<1>2. \A p \in cfg.policy.hosts : p.labels \in Seq(STRING)
  BY Zenon DEF IsConfig
<1>3. normalize_host(target.host) = target.host.labels
  BY Zenon DEF normalize_host
<1>4. Selects(hosts, cfg.policy.ports, target) <=>
        /\ bare \/ \E p \in cfg.policy.hosts : host_matches(p, normalize_host(target.host))
        /\ port_matches(cfg.policy.ports, target.port)
  <2>1. CASE bare
    <3>1. [kind |-> "any"] \in hosts
      BY <2>1, Zenon
    <3>2. QED BY <3>1, <2>1, AnySelects, Zenon
  <2>2. CASE ~bare
    <3>1. hosts = cfg.policy.hosts
      BY <2>2, Zenon
    <3> HIDE DEF hosts, bare
    <3>2. QED BY <3>1, <2>2, <1>2, SelectsIs, Zenon
  <2>3. QED BY <2>1, <2>2, Zenon
<1>5. Admits(cfg, target) <=>
        /\ ~target.unix /\ target.port > 0
        /\ bare \/ \E p \in cfg.policy.hosts : host_matches(p, normalize_host(target.host))
        /\ port_matches(cfg.policy.ports, target.port)
  BY <1>1, <1>4, Zenon DEF Admits
<1>6. QED BY <1>5, <1>3, Zenon DEF ClientTarget

\* The routes the promise looks at are those the loop finds.
LEMMA MatchingIs ==
    ASSUME NEW cfg, NEW target, IsTarget(target), IsConfig(cfg)
    PROVE  {i \in DOMAIN cfg.routes : Chosen(cfg.routes[i], target)} = Hits(cfg, target)
<1>1. DOMAIN cfg.routes = 1..Len(cfg.routes)
  BY SMTT(30) DEF IsConfig
<1>2. ASSUME NEW i \in DOMAIN cfg.routes
      PROVE  Chosen(cfg.routes[i], target) <=> RouteMatches(cfg.routes[i], target)
  <2>1. cfg.routes[i] \in Range(cfg.routes)
    BY Zenon DEF Range
  <2>2. \A p \in cfg.routes[i].hosts : p.labels \in Seq(STRING)
    BY <2>1, Zenon DEF IsConfig
  <2>3. QED BY <2>2, ChosenIs, Zenon
<1>3. \A i : i \in {k \in DOMAIN cfg.routes : Chosen(cfg.routes[k], target)} <=> i \in Hits(cfg, target)
  BY <1>1, <1>2, Zenon DEF Hits
<1>4. QED BY <1>3, Zenon

\* resolve keeps the configuration's promise, for every configuration and target.
LEMMA ResolveRight ==
    ASSUME NEW cfg, NEW target, IsTarget(target), IsConfig(cfg)
    PROVE  Promised(cfg, target, resolve(cfg, target))
<1> DEFINE H == Hits(cfg, target)
           first == {i \in H : \A j \in H : i <= j}
           d == Answer(cfg, target, 1)
<1> SUFFICES Promised(cfg, target, d)
  BY ResolveIs, Zenon
<1>h. H \subseteq Nat /\ \A i \in H : 1 <= i
  BY SMTT(30) DEF Hits, IsConfig
<1>f. FirstFrom(H, 1) = first
  <2> HIDE DEF H
  <2>1. \A k : k \in FirstFrom(H, 1) <=> k \in first
    BY <1>h, Zenon DEF FirstFrom
  <2>2. QED BY <2>1, Zenon
<1>p. Promised(cfg, target, d) <=>
        IF \E i \in first : cfg.routes[i].upstream # NoUpstream
        THEN \E i \in first : d = Route(cfg.routes[i].upstream)
        ELSE IF cfg.fallback # NoUpstream THEN d = Route(cfg.fallback)
        ELSE d.kind = IF H = {} /\ Admits(cfg, target) THEN "dial" ELSE "deny"
  <2>1. {i \in DOMAIN cfg.routes : Chosen(cfg.routes[i], target)} = H
    BY MatchingIs, Zenon
  <2> HIDE DEF H, d
  <2>2. QED BY <2>1, Zenon DEF Promised, Chosen, Admits
<1> DEFINE served == \E i \in first : cfg.routes[i].upstream # NoUpstream
<1>q. /\ served /\ (\E i \in first : d = Route(cfg.routes[i].upstream)) => Promised(cfg, target, d)
      /\ ~served /\ cfg.fallback # NoUpstream /\ d = Route(cfg.fallback) => Promised(cfg, target, d)
      /\ ~served /\ cfg.fallback = NoUpstream /\ H = {} /\ Admits(cfg, target) /\ d.kind = "dial"
           => Promised(cfg, target, d)
      /\ ~served /\ cfg.fallback = NoUpstream /\ ~(H = {} /\ Admits(cfg, target)) /\ d.kind = "deny"
           => Promised(cfg, target, d)
  <2> HIDE DEF d, first, H
  <2>1. QED BY <1>p, Zenon
<1>1. CASE H # {}
  <2> HIDE DEF H
  <2>1. \E k \in H : 1 <= k
    BY <1>1, <1>h, Zenon
  <2>2. 1 \in Nat
    BY Zenon
  <2>3. PICK k : k \in first /\ (\A j \in first : j = k) /\ d = AtRoute(cfg, cfg.routes[k])
    <3>1. Some(FirstFrom(H, 1)) \in FirstFrom(H, 1)
      BY <2>1, <2>2, <1>h, FirstExists, Zenon
    <3>2. \A k, j \in FirstFrom(H, 1) : k = j
      BY <2>1, <2>2, <1>h, FirstExists, Zenon
    <3>3. d = AtRoute(cfg, cfg.routes[Some(FirstFrom(H, 1))])
      BY <2>1, Zenon DEF Answer, H
    <3> HIDE DEF d, first
    <3>4. QED BY <3>1, <3>2, <3>3, <1>f, Zenon
  <2> HIDE DEF first, d
  <2>4. CASE cfg.routes[k].upstream # NoUpstream
    <3>1. d = Route(cfg.routes[k].upstream)
      BY <2>3, <2>4, Zenon DEF AtRoute
    <3>2. QED BY <3>1, <2>3, <2>4, <1>q, Zenon
  <2>5. CASE ~(cfg.routes[k].upstream # NoUpstream)
    <3>1. ~ \E i \in first : cfg.routes[i].upstream # NoUpstream
      BY <2>3, <2>5, Zenon
    <3>2. d = IF cfg.fallback # NoUpstream THEN Route(cfg.fallback) ELSE Deny
      BY <2>3, <2>5, Zenon DEF AtRoute
    <3>3. Deny.kind = "deny"
      BY Zenon DEF Deny
    <3>4. QED BY <3>1, <3>2, <3>3, <1>1, <1>q, Zenon
  <2>6. QED BY <2>4, <2>5, Zenon
<1>2. CASE H = {}
  <2>1. d = AfterLoop(cfg, target)
    BY <1>2, Zenon DEF Answer
  <2>2. ~ \E i \in first : cfg.routes[i].upstream # NoUpstream
    BY <1>2, Zenon
  <2> HIDE DEF first, d, H
  <2>3. Dial.kind = "dial" /\ Deny.kind = "deny"
    BY Zenon DEF Dial, Deny
  <2>4. ~(cfg.fallback # NoUpstream) => d.kind = IF Admits(cfg, target) THEN "dial" ELSE "deny"
    <3>1. CASE cfg.policy.enabled
      BY <3>1, <2>1, <2>3, AdmitsIs, Zenon DEF AfterLoop
    <3>2. CASE ~cfg.policy.enabled
      BY <3>2, <2>1, <2>3, Zenon DEF AfterLoop, Admits
    <3>3. QED BY <3>1, <3>2, Zenon
  <2>5. cfg.fallback # NoUpstream => d = Route(cfg.fallback)
    BY <2>1, Zenon DEF AfterLoop
  <2>6. QED BY <2>2, <2>4, <2>5, <1>2, <1>q, Zenon
<1>3. QED BY <1>1, <1>2, Zenon

\* It answers with an upstream, a direct dial or a denial.
LEMMA ResolveKinds ==
    ASSUME NEW cfg, NEW target, IsConfig(cfg)
    PROVE  resolve(cfg, target).kind \in {"route", "dial", "deny"}
<1>1. \A u : Route(u).kind = "route"
  BY Zenon DEF Route
<1>2. Dial.kind = "dial" /\ Deny.kind = "deny"
  BY Zenon DEF Dial, Deny
<1>3. Answer(cfg, target, 1).kind \in {"route", "dial", "deny"}
  <2>1. \A r : AtRoute(cfg, r).kind \in {"route", "dial", "deny"}
    BY <1>1, <1>2, Zenon DEF AtRoute
  <2>2. AfterLoop(cfg, target).kind \in {"route", "dial", "deny"}
    BY <1>1, <1>2, Zenon DEF AfterLoop, ClientTarget
  <2>3. QED BY <2>1, <2>2, Zenon DEF Answer
<1>4. QED BY <1>3, ResolveIs, Zenon

-----------------------------------------------------------------------------
(* The types of a relayed connection, and its verdict. *)

FrontPlaces == {"head", "open", "opening", "pump", "done"}
ServerPlaces == {"idle", "resolve", "dial", "pump", "done", "refused"}
Replies == {"ok", "denied", "unreachable"}

\* What travels: the model's own words and the data.
Item == Words \cup Data

\* The types of one relayed connection.
RelayTypes ==
    /\ IsJob(job) /\ link \in BOOLEAN /\ faults \in Nat
    /\ fpc \in FrontPlaces /\ spc \in ServerPlaces /\ ack \in {"none"} \cup Replies
    /\ asks \in Seq(Item) /\ sock \in Seq(Item) /\ up \in Seq(Item) /\ got \in Seq(Item)
    /\ answers \in Seq(Item) /\ usock \in Seq(Item) /\ down \in Seq(Item) /\ seen \in Seq(Item)
    /\ rest \in Seq(Item)

\* Sequences of words: what the operators of Sequences give back.
LEMMA WordSeqs ==
    /\ \A s \in Seq(Item), x \in Item : Append(s, x) \in Seq(Item)
    /\ \A s \in Seq(Item) : s # <<>> => Head(s) \in Item /\ Tail(s) \in Seq(Item)
    /\ \A s, t \in Seq(Item) : s \o t \in Seq(Item)
    /\ <<>> \in Seq(Item) /\ \A x \in Item : <<x>> \in Seq(Item)
<1>1. ASSUME NEW s \in Seq(Item), NEW x \in Item
      PROVE  Append(s, x) \in Seq(Item)
  BY SMTT(30)
<1>2. ASSUME NEW s \in Seq(Item), s # <<>>
      PROVE  Head(s) \in Item /\ Tail(s) \in Seq(Item)
  BY <1>2, SMTT(30)
<1>3. ASSUME NEW s \in Seq(Item), NEW t \in Seq(Item)
      PROVE  s \o t \in Seq(Item)
  BY SMTT(30)
<1>4. <<>> \in Seq(Item)
  BY SMTT(30)
<1>5. ASSUME NEW x \in Item
      PROVE  <<x>> \in Seq(Item)
  BY SMTT(30)
<1>6. QED BY <1>1, <1>2, <1>3, <1>4, <1>5, Zenon

\* A part of a sequence of items is one.
LEMMA WordParts ==
    ASSUME NEW s \in Seq(Item), NEW m \in 1..(Len(s) + 1), NEW n \in 0..Len(s)
    PROVE  SubSeq(s, m, n) \in Seq(Item)
  BY SMTT(30)

\* Data are items, ...
LEMMA DataWords == \A s \in Seq(Data) : s \in Seq(Item)
<1>1. Data \subseteq Item
  BY Zenon DEF Item
<1>2. QED BY <1>1, SMTT(30)

\* ... and so are the words.
LEMMA WordItems == \A w \in Words : w \in Item
  BY Zenon DEF Item

\* The first state is of the types.
LEMMA TypesInit == ASSUME NEW jobs, \A j \in jobs : IsJob(j), RelayInit(jobs) PROVE RelayTypes
<1>1. IsJob(job) /\ job.asks \in Seq(Item) /\ job.answers \in Seq(Item)
  BY DataWords, Zenon DEF RelayInit, IsJob
<1>2. <<"head">> \o job.asks \o <<"fin">> \in Seq(Item) /\ job.answers \o <<"fin">> \in Seq(Item)
  <2>1. "head" \in Item /\ "fin" \in Item
    BY WordItems, Zenon DEF Words
  <2>2. QED BY <2>1, <1>1, WordSeqs, Zenon
<1>3. /\ "head" \in FrontPlaces /\ "idle" \in ServerPlaces /\ "none" \in {"none"} \cup Replies
      /\ TRUE \in BOOLEAN /\ 0 \in Nat
  BY Zenon DEF FrontPlaces, ServerPlaces
<1>4. QED
  BY <1>1, <1>2, <1>3, WordSeqs, Zenon DEF RelayInit, RelayTypes

\* What the frontend sends ahead of the data is a sequence of items.
LEMMA AheadWord ==
    ASSUME RelayTypes
    PROVE  Ahead \in Seq(Item)
<1>1. "rewritten" \in Item
  BY WordItems, Zenon DEF Words
<1>2. QED BY <1>1, WordSeqs, Zenon DEF Ahead, RelayTypes

\* What an error is reported as.
LEMMA ErrorReplies ==
    /\ ErrorReply("general") \in {"general", "bad gateway"}
    /\ ErrorReply(ack) \in {ack, "bad gateway"}
    /\ ack \in Replies => ErrorReply(ack) \in Item
    /\ ErrorReply("general") \in Item
<1>1. "general" \in Item /\ "bad gateway" \in Item /\ Replies \subseteq Item
  BY WordItems, Zenon DEF Words, Replies
<1>2. QED BY <1>1, Zenon DEF ErrorReply

\* What the session's death leaves of either direction: a part, with an end of input
\* only for a reader that has none yet.
LEMMA LinkCuts ==
    ASSUME LinkDies
    PROVE  /\ link' = FALSE /\ (faults' = faults \/ faults' = faults + 1)
           /\ spc' = spc \/ (spc = "resolve" /\ spc' = "refused")
           /\ up' = <<>> \/ up' \in Stranded(up) \/ (up' \in Severed(up) /\ "up" \notin sdone)
           /\ \/ down' = <<>>
              \/ fpc = "pump" /\ down' \in Stranded(down)
              \/ fpc = "pump" /\ down' \in Severed(down) /\ "down" \notin fdone
           /\ UNCHANGED <<job, fpc, verdict, ack, asks, sock, got, answers, usock, seen, rest, fdone, sdone>>
<1> DEFINE Cuts(q, read) == IF read THEN Severed(q) ELSE {<<>>}
           above == spc' \in {"resolve", "dial", "pump"} /\ "up" \notin sdone
           below == fpc = "pump" /\ "down" \notin fdone
<1>1. /\ link' = FALSE /\ spc' \in IF spc = "resolve" THEN {"resolve", "refused"} ELSE {spc}
      /\ UNCHANGED <<job, fpc, verdict, ack, asks, sock, got, answers, usock, seen, rest, fdone, sdone>>
  BY Zenon DEF LinkDies
<1>2. \/ UNCHANGED faults /\ up' \in Cuts(up, above) /\ down' \in Cuts(down, below)
      \/ Fault /\ above /\ up' \in Stranded(up) /\ down' \in Cuts(down, below)
      \/ Fault /\ below /\ up' \in Cuts(up, above) /\ down' \in Stranded(down)
  BY Zenon DEF LinkDies
<1>3. up' \in Cuts(up, above) => up' = <<>> \/ (up' \in Severed(up) /\ "up" \notin sdone)
  BY Zenon
<1>4. down' \in Cuts(down, below) =>
          down' = <<>> \/ (fpc = "pump" /\ down' \in Severed(down) /\ "down" \notin fdone)
  BY Zenon
<1>5. below => fpc = "pump"
  BY Zenon
<1>6. spc' = spc \/ (spc = "resolve" /\ spc' = "refused")
  BY <1>1, Zenon
<1> HIDE DEF Cuts, above, below
<1>7. faults' = faults \/ faults' = faults + 1
  BY <1>2, Zenon DEF Fault
<1>8. QED
  BY <1>1, <1>2, <1>3, <1>4, <1>5, <1>6, <1>7, ZenonT(30)

\* Every step keeps the types.
LEMMA TypesStep == RelayTypes /\ [RelayNext \/ LinkDies]_relayVars => RelayTypes'
<1> SUFFICES ASSUME RelayTypes, [RelayNext \/ LinkDies]_relayVars PROVE RelayTypes'
  BY Zenon
<1>t. /\ IsJob(job) /\ link \in BOOLEAN /\ faults \in Nat
      /\ fpc \in FrontPlaces /\ spc \in ServerPlaces /\ ack \in {"none"} \cup Replies
      /\ asks \in Seq(Item) /\ sock \in Seq(Item) /\ up \in Seq(Item) /\ got \in Seq(Item)
      /\ answers \in Seq(Item) /\ usock \in Seq(Item) /\ down \in Seq(Item) /\ seen \in Seq(Item)
      /\ rest \in Seq(Item)
  BY Zenon DEF RelayTypes
<1>w. /\ "open" \in FrontPlaces /\ "opening" \in FrontPlaces /\ "pump" \in FrontPlaces /\ "done" \in FrontPlaces
      /\ \A p \in {"resolve", "dial", "pump", "done", "refused"} : p \in ServerPlaces
      /\ \A a \in {"ok", "denied", "unreachable"} : a \in {"none"} \cup Replies
      /\ faults + 1 \in Nat /\ TRUE \in BOOLEAN /\ FALSE \in BOOLEAN
      /\ "fin" \in Item /\ "refused" \in Item /\ "ok" \in Item
  <2>1. faults + 1 \in Nat
    BY <1>t, SMTT(30)
  <2>2. TRUE \in BOOLEAN /\ FALSE \in BOOLEAN
    BY Zenon
  <2>3. "fin" \in Item /\ "refused" \in Item /\ "ok" \in Item
    BY WordItems, Zenon DEF Words
  <2>4. QED BY <2>1, <2>2, <2>3, Zenon DEF FrontPlaces, ServerPlaces, Replies
<1> USE DEF Upward, Downward
<1>1. CASE AppSends
  BY <1>1, <1>t, WordSeqs, Zenon DEF AppSends, RelayTypes
<1>2. CASE UpstreamSends
  BY <1>2, <1>t, WordSeqs, Zenon DEF UpstreamSends, RelayTypes
<1>3. CASE SocksRequest \/ HttpHead
  <2>1. PICK n \in Nat : TakeHead(n) /\ n + 1 <= Len(sock)
    <3>1. Len(sock) \in Nat /\ (sock # <<>> => 1 <= Len(sock))
      BY <1>t, SMTT(30)
    <3>2. CASE SocksRequest
      BY <3>1, <3>2, SMTT(30) DEF SocksRequest
    <3>3. CASE HttpHead
      <4>1. PICK n \in 0..(Len(sock) - 1) : TakeHead(n)
        BY <3>3, Zenon DEF HttpHead
      <4>2. sock # <<>>
        BY <3>3, Zenon DEF HttpHead
      <4>3. n \in Nat /\ n + 1 <= Len(sock)
        BY <4>2, <3>1, SMTT(30)
      <4>4. QED BY <4>1, <4>3, Zenon
    <3>4. QED BY <3>2, <3>3, <1>3, Zenon
  <2>2. SubSeq(sock, 2, n + 1) \in Seq(Item) /\ SubSeq(sock, n + 2, Len(sock)) \in Seq(Item)
    <3>1. 2 \in 1..(Len(sock) + 1) /\ n + 1 \in 0..Len(sock) /\ n + 2 \in 1..(Len(sock) + 1) /\ Len(sock) \in 0..Len(sock)
      BY <2>1, <1>t, SMTT(30)
    <3>2. QED BY <3>1, <1>t, WordParts, Zenon
  <2>3. QED BY <2>1, <2>2, <1>t, <1>w, Zenon DEF TakeHead, RelayTypes
<1>4. CASE BadRequest
  <2>1. seen' \in Seq(Item)
    <3>1. Append(seen, "refused") \in Seq(Item)
      BY <1>t, <1>w, WordSeqs, Zenon
    <3>2. QED BY <3>1, <1>4, <1>t, Zenon DEF BadRequest
  <2>2. QED BY <1>4, <2>1, <1>t, <1>w, Zenon DEF BadRequest, Fault, RelayTypes
<1>5. CASE OpenStream
  <2>1. Append(seen, ErrorReply("general")) \in Seq(Item)
    BY <1>t, WordSeqs, ErrorReplies, Zenon
  <2>2. fpc' \in FrontPlaces /\ spc' \in ServerPlaces /\ seen' \in Seq(Item) /\ up' = up /\ rest' = rest
    BY <1>5, <2>1, <1>t, <1>w, Zenon DEF OpenStream, Refuse
  <2>3. QED BY <1>5, <2>2, <1>t, Zenon DEF OpenStream, RelayTypes
<1>6. CASE Opened
  <2>1. ack \in Replies
    BY <1>6, <1>t, Zenon DEF Opened
  <2>2. Append(seen, ErrorReply(ack)) \in Seq(Item) /\ Append(seen, "ok") \in Seq(Item)
    BY <2>1, <1>t, <1>w, WordSeqs, ErrorReplies, Zenon
  <2>3. fpc' \in FrontPlaces /\ seen' \in Seq(Item) /\ up' \in Seq(Item) /\ rest' \in Seq(Item)
    BY <1>6, <2>2, <1>t, <1>w, WordSeqs, AheadWord, Zenon DEF Opened, Refuse
  <2>4. QED BY <1>6, <2>3, <1>t, Zenon DEF Opened, RelayTypes
<1>7. CASE OpenFails
  BY <1>7, <1>t, <1>w, WordSeqs, ErrorReplies, Zenon DEF OpenFails, Refuse, RelayTypes
<1>8. CASE FrontUp
  BY <1>8, <1>t, <1>w, WordSeqs, Zenon DEF FrontUp, Written, RelayTypes
<1>9. CASE FrontDown
  BY <1>9, <1>t, <1>w, WordSeqs, Zenon DEF FrontDown, RelayTypes
<1>10. CASE FrontEnds \/ FrontBreaks
  BY <1>10, <1>t, <1>w, Zenon DEF FrontEnds, FrontBreaks, RelayTypes
<1>11. CASE AppResets
  BY <1>11, <1>t, <1>w, WordSeqs, Zenon DEF AppResets, Fault, Written, RelayTypes
<1>12. CASE Resolve
  BY <1>12, <1>t, <1>w, Zenon DEF Resolve, RelayTypes
<1>13. CASE DialSucceeds \/ DialFails \/ ServerEnds \/ ServerBreaks
  BY <1>13, <1>t, <1>w, Zenon DEF DialSucceeds, DialFails, ServerEnds, ServerBreaks, RelayTypes
<1>14. CASE ServerUp
  BY <1>14, <1>t, <1>w, WordSeqs, Zenon DEF ServerUp, RelayTypes
<1>15. CASE ServerDown
  BY <1>15, <1>t, <1>w, WordSeqs, Zenon DEF ServerDown, Written, RelayTypes
<1>16. CASE UpstreamResets
  BY <1>16, <1>t, <1>w, WordSeqs, Zenon DEF UpstreamResets, Fault, Written, RelayTypes
<1>17. CASE LinkDies
  <2>1. up' \in Seq(Item) /\ down' \in Seq(Item)
    BY <1>17, <1>t, <1>w, LinkCuts, CutSeqs, WordSeqs, Zenon
  <2>2. link' \in BOOLEAN /\ faults' \in Nat /\ spc' \in ServerPlaces
    BY <1>17, <1>t, <1>w, LinkCuts, Zenon
  <2>3. UNCHANGED <<job, fpc, ack, asks, sock, got, answers, usock, seen, rest>>
    BY <1>17, LinkCuts, Zenon
  <2>4. QED BY <2>1, <2>2, <2>3, <1>t, Zenon DEF RelayTypes
<1>18. CASE UNCHANGED relayVars
  BY <1>18, <1>t, Zenon DEF relayVars, RelayTypes
<1>19. QED
  BY <1>1, <1>2, <1>3, <1>4, <1>5, <1>6, <1>7, <1>8, <1>9, <1>10, <1>11, <1>12, <1>13, <1>14,
     <1>15, <1>16, <1>17, <1>18, ZenonT(40)
     DEF RelayNext, Frontend, Copies, Server, Endpoints, Faults

\* The verdict is what resolve says.
RouteInv == IsJob(job) /\ RouteRight

\* A verdict is given once, by resolve.
LEMMA RouteStep == RouteInv /\ [RelayNext \/ LinkDies]_relayVars => RouteInv'
<1> SUFFICES ASSUME RouteInv, [RelayNext \/ LinkDies]_relayVars PROVE RouteInv'
  BY Zenon
<1>1. \/ job' = job /\ verdict' = verdict
      \/ job' = job /\ verdict' = resolve(job.cfg, job.target)
  BY Zenon DEF RelayNext, Frontend, Copies, Server, Endpoints, Faults, LinkDies, relayVars,
     AppSends, UpstreamSends, SocksRequest, HttpHead, TakeHead, BadRequest, OpenStream, Opened, OpenFails,
     FrontUp, FrontDown, FrontEnds, FrontBreaks, AppResets, Resolve, DialSucceeds, DialFails, ServerEnds,
     ServerBreaks, ServerUp, ServerDown, UpstreamResets
<1>2. Promised(job.cfg, job.target, resolve(job.cfg, job.target))
  BY ResolveRight, Zenon DEF RouteInv, IsJob
<1>3. QED BY <1>1, <1>2, Zenon DEF RouteInv, RouteRight

-----------------------------------------------------------------------------
(* What the application is told. *)

\* The word w occurs in s; no reply does.
In(w, s) == \E i \in 1..Len(s) : s[i] = w
Clean(s) == \A w \in Replies : ~In(w, s)
Accepted == verdict.kind \in {"route", "dial"}

\* How far the server's task has come, what it has answered and what the application
\* has been told; no data is a reply.
ReplyInv ==
    /\ RelayTypes
    /\ fpc \in {"head", "open"} => spc = "idle"
    /\ spc \in {"idle", "resolve"} => verdict = NoVerdict
    /\ spc \in {"idle", "resolve", "dial"} => ack = "none"
    /\ spc \in {"dial", "pump", "done"} => Accepted
    /\ ack = "ok" => spc \in {"pump", "done"}
    /\ ack = "denied" => verdict.kind = "deny"
    /\ ack = "unreachable" => spc = "refused" /\ Accepted
    /\ Clean(answers) /\ Clean(usock) /\ Clean(down)
    /\ In("ok", seen) => spc \in {"pump", "done"} /\ Accepted
    /\ In("denied", seen) => verdict.kind = "deny"
    /\ In("unreachable", seen) => spc = "refused" /\ Accepted

\* A word of a longer sequence is the new item or was there.
LEMMA InAppended ==
    ASSUME NEW s \in Seq(Item), NEW x, NEW w
    PROVE  In(w, Append(s, x)) => In(w, s) \/ w = x
<1>1. /\ Len(s) \in Nat /\ Len(Append(s, x)) = Len(s) + 1
      /\ Append(s, x)[Len(s) + 1] = x
      /\ \A i \in 1..Len(s) : Append(s, x)[i] = s[i]
  BY SMTT(30)
<1>2. \A i \in 1..(Len(s) + 1) : i \in 1..Len(s) \/ i = Len(s) + 1
  BY <1>1, SMTT(30)
<1> DEFINE a == Append(s, x)
<1> HIDE DEF a
<1>3. /\ Len(a) = Len(s) + 1 /\ a[Len(s) + 1] = x /\ \A i \in 1..Len(s) : a[i] = s[i]
  BY <1>1, Zenon DEF a
<1>4. In(w, a) => In(w, s) \/ w = x
  BY <1>2, <1>3, Zenon DEF In
<1>5. QED BY <1>4, Zenon DEF a

\* The rest of a sequence has no other words.
LEMMA InRest ==
    ASSUME NEW s \in Seq(Item), s # <<>>
    PROVE  In(Head(s), s) /\ \A w : In(w, Tail(s)) => In(w, s)
<1> DEFINE a == Tail(s)
<1>1. /\ Len(s) \in Nat /\ 1 \in 1..Len(s) /\ Head(s) = s[1] /\ Len(a) = Len(s) - 1
      /\ \A i \in 1..(Len(s) - 1) : a[i] = s[i + 1]
  BY SMTT(30)
<1>2. \A i \in 1..(Len(s) - 1) : i + 1 \in 1..Len(s)
  BY <1>1, SMTT(30)
<1> HIDE DEF a
<1>3. In(Head(s), s)
  BY <1>1, Zenon DEF In
<1>4. \A w : In(w, a) => In(w, s)
  BY <1>1, <1>2, Zenon DEF In
<1>5. QED BY <1>3, <1>4, Zenon DEF a

\* Data that moves from one queue to the next brings no reply with it.
LEMMA CleanMoves ==
    /\ \A s, t \in Seq(Item) : t # <<>> /\ Clean(s) /\ Clean(t) => Clean(Append(s, Head(t))) /\ Clean(Tail(t))
    /\ \A s \in Seq(Item) : Clean(s) => Clean(Append(s, "fin"))
    /\ Clean(<<>>)
<1>1. ASSUME NEW s \in Seq(Item), NEW t \in Seq(Item), t # <<>>, Clean(s), Clean(t)
      PROVE  Clean(Append(s, Head(t))) /\ Clean(Tail(t))
  BY <1>1, InAppended, InRest, ZenonT(40) DEF Clean
<1>2. ASSUME NEW s \in Seq(Item), Clean(s)
      PROVE  Clean(Append(s, "fin"))
  <2>1. \A w \in Replies : w # "fin"
    BY Zenon DEF Replies
  <2>2. QED BY <1>2, <2>1, InAppended, Zenon DEF Clean
<1>3. Clean(<<>>)
  BY SMTT(30) DEF Clean, In
<1>4. QED BY <1>1, <1>2, <1>3, Zenon

\* Nor does what the session's death leaves of it.
LEMMA CleanCut ==
    ASSUME NEW q \in Seq(Item), Clean(q), NEW r \in Stranded(q) \cup Severed(q)
    PROVE  Clean(r)
<1>1. PICK n \in 0..Len(q) : r = SubSeq(q, 1, n) \/ r = Append(SubSeq(q, 1, n), "fin")
  BY CutIs, Zenon
<1> DEFINE s == SubSeq(q, 1, n)
<1>2. s \in Seq(Item) /\ Len(s) = n /\ \A i \in 1..n : s[i] = q[i]
  BY SMTT(30)
<1>3. \A i \in 1..n : i \in 1..Len(q)
  BY SMTT(30)
<1> HIDE DEF s
<1>4. Clean(s)
  BY <1>2, <1>3, Zenon DEF Clean, In
<1>5. r = s \/ r = Append(s, "fin")
  BY <1>1, Zenon DEF s
<1>6. QED BY <1>2, <1>4, <1>5, CleanMoves, Zenon

\* In the first state nobody has been told anything.
LEMMA ReplyInit == ASSUME NEW jobs, \A j \in jobs : IsJob(j), RelayInit(jobs) PROVE ReplyInv
<1>1. RelayTypes
  BY TypesInit, Zenon
<1>2. fpc = "head" /\ spc = "idle" /\ verdict = NoVerdict /\ ack = "none" /\ usock = <<>> /\ down = <<>> /\ seen = <<>>
  BY Zenon DEF RelayInit
<1>3. Clean(answers)
  <2>1. job.answers \in Seq(Data) /\ answers = job.answers \o <<"fin">>
    BY Zenon DEF RelayInit, IsJob
  <2>2. \A i \in 1..Len(job.answers) : job.answers[i] \in Data
    BY <2>1, SMTT(30)
  <2>3. Clean(job.answers)
    BY <2>2, Zenon DEF Clean, In, Data, Replies, Words
  <2>4. job.answers \in Seq(Item)
    BY <2>1, DataWords, Zenon
  <2>5. answers = Append(job.answers, "fin")
    BY <2>1, <2>4, SMTT(30)
  <2>6. QED BY <2>3, <2>4, <2>5, CleanMoves, Zenon
<1>4. ~In("ok", seen) /\ ~In("denied", seen) /\ ~In("unreachable", seen)
  BY <1>2, SMTT(30) DEF In
<1>5. spc \notin {"dial", "pump", "done"} /\ ack # "ok" /\ ack # "denied" /\ ack # "unreachable"
  BY <1>2, Zenon
<1>6. QED BY <1>1, <1>2, <1>3, <1>4, <1>5, CleanMoves, Zenon DEF ReplyInv

\* The steps as far as the reply goes: something is said to the application that is no
\* reply or is what OPEN_ACK says; the stream is opened; the server's task goes on.
Speaks ==
    /\ spc' = spc /\ verdict' = verdict /\ ack' = ack
    /\ seen' = seen \/ \E x : seen' = Append(seen, x) /\ (x \in Replies => x = ack)
Opens == fpc = "open" /\ fpc' = "opening" /\ spc' = "resolve" /\ UNCHANGED <<verdict, ack, seen>>
Decides ==
    /\ spc = "resolve" /\ seen' = seen /\ verdict' = resolve(job.cfg, job.target)
    /\ IF verdict'.kind = "deny" THEN spc' = "refused" /\ ack' = "denied" ELSE spc' = "dial" /\ ack' = ack
Dials ==
    /\ spc = "dial" /\ seen' = seen /\ verdict' = verdict
    /\ (spc' = "pump" /\ ack' = "ok") \/ (spc' = "refused" /\ ack' = "unreachable")
Finishes ==
    /\ UNCHANGED <<seen, verdict, ack>>
    /\ (spc = "pump" /\ spc' = "done") \/ (spc = "resolve" /\ spc' = "refused")

\* Every step is one of these, and no step puts a reply among the data.
LEMMA ReplySteps ==
    ASSUME ReplyInv, [RelayNext \/ LinkDies]_relayVars
    PROVE  /\ Speaks \/ Opens \/ Decides \/ Dials \/ Finishes
           /\ fpc' \in {"head", "open"} => fpc \in {"head", "open"}
           /\ Clean(answers') /\ Clean(usock') /\ Clean(down')
<1> DEFINE Goal == /\ Speaks \/ Opens \/ Decides \/ Dials \/ Finishes
                   /\ fpc' \in {"head", "open"} => fpc \in {"head", "open"}
                   /\ Clean(answers') /\ Clean(usock') /\ Clean(down')
<1>t. /\ answers \in Seq(Item) /\ usock \in Seq(Item) /\ down \in Seq(Item) /\ seen \in Seq(Item)
      /\ Clean(answers) /\ Clean(usock) /\ Clean(down) /\ ack \in {"none"} \cup Replies
  BY Zenon DEF ReplyInv, RelayTypes
<1>r. /\ "refused" \notin Replies /\ ErrorReply("general") \notin Replies
      /\ ErrorReply(ack) \in Replies => ErrorReply(ack) = ack
  <2>1. "refused" \notin Replies /\ "general" \notin Replies /\ "bad gateway" \notin Replies
    BY Zenon DEF Replies
  <2>2. QED BY <2>1, ErrorReplies, Zenon
<1>p. "done" \notin {"head", "open"} /\ "opening" \notin {"head", "open"} /\ "pump" \notin {"head", "open"}
  BY Zenon
<1> USE DEF Upward, Downward
<1>1. CASE AppSends
  BY <1>1, <1>t, Zenon DEF AppSends, Speaks
<1>2. CASE UpstreamSends
  BY <1>2, <1>t, CleanMoves, Zenon DEF UpstreamSends, Speaks
<1>3. CASE SocksRequest \/ HttpHead
  BY <1>3, <1>t, Zenon DEF SocksRequest, HttpHead, TakeHead, Speaks
<1>4. CASE BadRequest
  <2>1. seen' = seen \/ seen' = Append(seen, "refused")
    BY <1>4, Zenon DEF BadRequest
  <2>2. QED BY <1>4, <2>1, <1>t, <1>r, <1>p, Zenon DEF BadRequest, Speaks
<1>5. CASE OpenStream
  <2>1. Speaks \/ Opens
    BY <1>5, <1>r, Zenon DEF OpenStream, Refuse, Speaks, Opens
  <2>2. fpc' \notin {"head", "open"}
    BY <1>5, <1>p, Zenon DEF OpenStream, Refuse
  <2>3. QED BY <1>5, <2>1, <2>2, <1>t, Zenon DEF OpenStream
<1>6. CASE Opened
  <2>1. \/ seen' = seen \/ (ack = "ok" /\ seen' = Append(seen, "ok"))
        \/ seen' = Append(seen, ErrorReply(ack))
    BY <1>6, Zenon DEF Opened, Refuse
  <2>2. spc' = spc /\ verdict' = verdict /\ ack' = ack
    BY <1>6, Zenon DEF Opened
  <2>3. Speaks
    BY <2>1, <2>2, <1>r, Zenon DEF Speaks
  <2>4. fpc' \notin {"head", "open"}
    BY <1>6, <1>p, Zenon DEF Opened, Refuse
  <2>5. QED BY <1>6, <2>3, <2>4, <1>t, Zenon DEF Opened
<1>7. CASE OpenFails
  <2>1. Speaks
    BY <1>7, <1>r, Zenon DEF OpenFails, Refuse, Speaks
  <2>2. fpc' \notin {"head", "open"}
    BY <1>7, <1>p, Zenon DEF OpenFails, Refuse
  <2>3. QED BY <1>7, <2>1, <2>2, <1>t, Zenon DEF OpenFails
<1>8. CASE FrontUp \/ ServerUp
  BY <1>8, <1>t, Zenon DEF FrontUp, ServerUp, Speaks
<1>9. CASE FrontDown
  <2>1. down # <<>> /\ seen' = Append(seen, Head(down)) /\ down' = Tail(down)
    BY <1>9, Zenon DEF FrontDown
  <2>2. Head(down) \notin Replies /\ Clean(down')
    BY <2>1, <1>t, InRest, Zenon DEF Clean
  <2>3. QED BY <1>9, <2>1, <2>2, <1>t, Zenon DEF FrontDown, Speaks
<1>10. CASE FrontEnds \/ FrontBreaks
  BY <1>10, <1>t, <1>p, Zenon DEF FrontEnds, FrontBreaks, Speaks
<1>11. CASE AppResets
  BY <1>11, <1>t, <1>p, Zenon DEF AppResets, Speaks
<1>12. CASE Resolve
  BY <1>12, <1>t, Zenon DEF Resolve, Decides
<1>13. CASE DialSucceeds \/ DialFails
  BY <1>13, <1>t, Zenon DEF DialSucceeds, DialFails, Dials
<1>14. CASE ServerEnds \/ ServerBreaks
  BY <1>14, <1>t, Zenon DEF ServerEnds, ServerBreaks, Finishes
<1>15. CASE ServerDown
  <2>1. Clean(down') /\ Clean(usock')
    BY <1>15, <1>t, CleanMoves, Zenon DEF ServerDown, Written
  <2>2. QED BY <1>15, <2>1, <1>t, Zenon DEF ServerDown, Speaks
<1>16. CASE UpstreamResets
  <2>1. Clean(down') /\ Clean(usock') /\ Clean(answers')
    BY <1>16, <1>t, CleanMoves, Zenon DEF UpstreamResets, Written
  <2>2. QED BY <1>16, <2>1, <1>t, Zenon DEF UpstreamResets, Finishes
<1>17. CASE LinkDies
  <2>1. Clean(down')
    BY <1>17, <1>t, LinkCuts, CleanCut, CleanMoves, Zenon
  <2>2. UNCHANGED <<answers, usock, fpc, verdict, ack, seen>>
    BY <1>17, LinkCuts, Zenon
  <2>3. Speaks \/ Finishes
    BY <1>17, <2>2, LinkCuts, Zenon DEF Speaks, Finishes
  <2>4. QED BY <2>1, <2>2, <2>3, <1>t, Zenon
<1>18. CASE UNCHANGED relayVars
  BY <1>18, <1>t, Zenon DEF relayVars, Speaks
<1>19. QED
  BY <1>1, <1>2, <1>3, <1>4, <1>5, <1>6, <1>7, <1>8, <1>9, <1>10, <1>11, <1>12, <1>13, <1>14,
     <1>15, <1>16, <1>17, <1>18, ZenonT(40)
     DEF RelayNext, Frontend, Copies, Server, Endpoints, Faults

\* Every step keeps the replies and the server's task together.
LEMMA ReplyStep == ReplyInv /\ [RelayNext \/ LinkDies]_relayVars => ReplyInv'
<1> SUFFICES ASSUME ReplyInv, [RelayNext \/ LinkDies]_relayVars PROVE ReplyInv'
  BY Zenon
<1>0. RelayTypes' /\ Clean(answers)' /\ Clean(usock)' /\ Clean(down)'
  BY TypesStep, ReplySteps, Zenon DEF ReplyInv
<1>f. fpc' \in {"head", "open"} => fpc \in {"head", "open"}
  BY ReplySteps, Zenon
<1>t. /\ IsJob(job) /\ seen \in Seq(Item) /\ spc \in ServerPlaces /\ ack \in {"none"} \cup Replies
      /\ fpc \in {"head", "open"} => spc = "idle"
      /\ spc \in {"idle", "resolve"} => verdict = NoVerdict
      /\ spc \in {"idle", "resolve", "dial"} => ack = "none"
      /\ spc \in {"dial", "pump", "done"} => Accepted
      /\ ack = "ok" => spc \in {"pump", "done"}
      /\ ack = "denied" => verdict.kind = "deny"
      /\ ack = "unreachable" => spc = "refused" /\ Accepted
      /\ In("ok", seen) => spc \in {"pump", "done"} /\ Accepted
      /\ In("denied", seen) => verdict.kind = "deny"
      /\ In("unreachable", seen) => spc = "refused" /\ Accepted
  BY Zenon DEF ReplyInv, RelayTypes
<1>n. NoVerdict.kind = "none"
  BY Zenon DEF NoVerdict
<1>q. spc \in {"idle", "resolve", "dial"} => ~In("ok", seen) /\ ~In("denied", seen) /\ ~In("unreachable", seen)
  <2>1. "none" # "deny"
    BY Zenon
  <2>2. "route" # "deny" /\ "dial" # "deny"
    BY Zenon
  <2>3. spc \in {"idle", "resolve", "dial"} => spc \notin {"pump", "done"} /\ spc # "refused"
    BY Zenon
  <2>4. spc \in {"idle", "resolve", "dial"} => verdict.kind # "deny"
    BY <2>1, <2>2, <1>t, <1>n, Zenon DEF Accepted
  <2>5. QED BY <2>3, <2>4, <1>t, Zenon
<1> DEFINE Goal == /\ fpc' \in {"head", "open"} => spc' = "idle"
                   /\ spc' \in {"idle", "resolve"} => verdict' = NoVerdict
                   /\ spc' \in {"idle", "resolve", "dial"} => ack' = "none"
                   /\ spc' \in {"dial", "pump", "done"} => Accepted'
                   /\ ack' = "ok" => spc' \in {"pump", "done"}
                   /\ ack' = "denied" => verdict'.kind = "deny"
                   /\ ack' = "unreachable" => spc' = "refused" /\ Accepted'
                   /\ In("ok", seen') => spc' \in {"pump", "done"} /\ Accepted'
                   /\ In("denied", seen') => verdict'.kind = "deny"
                   /\ In("unreachable", seen') => spc' = "refused" /\ Accepted'
<1>1. CASE Speaks
  <2>1. spc' = spc /\ verdict' = verdict /\ ack' = ack
    BY <1>1, Zenon DEF Speaks
  <2>2. ASSUME NEW w \in Replies, In(w, seen') PROVE In(w, seen) \/ w = ack
    BY <1>1, <2>2, <1>t, InAppended, Zenon DEF Speaks
  <2>3. "ok" \in Replies /\ "denied" \in Replies /\ "unreachable" \in Replies
    BY Zenon DEF Replies
  <2>a. Accepted' = Accepted
    BY <2>1, Zenon DEF Accepted
  <2>b. ack = "ok" => Accepted
    BY <1>t, Zenon
  <2>4. /\ In("ok", seen') => spc' \in {"pump", "done"} /\ Accepted'
        /\ In("denied", seen') => verdict'.kind = "deny"
        /\ In("unreachable", seen') => spc' = "refused" /\ Accepted'
    BY <2>1, <2>2, <2>3, <2>a, <2>b, <1>t, Zenon
  <2>5. Goal
    BY <2>1, <2>4, <2>a, <1>t, <1>f, Zenon
  <2>6. QED BY <2>5, <1>0, Zenon DEF ReplyInv
<1>2. CASE Opens
  <2>1. spc = "idle" /\ ack = "none" /\ verdict = NoVerdict
    BY <1>2, <1>t, Zenon DEF Opens
  <2>2. spc' = "resolve" /\ verdict' = NoVerdict /\ ack' = "none" /\ seen' = seen
    BY <1>2, <2>1, Zenon DEF Opens
  <2>3. ~In("ok", seen') /\ ~In("denied", seen') /\ ~In("unreachable", seen')
    BY <2>1, <2>2, <1>q, Zenon
  <2>4. fpc' \notin {"head", "open"}
    BY <1>2, ZenonT(30) DEF Opens
  <2>5. "resolve" \notin {"dial", "pump", "done"} /\ "none" \notin Replies
    BY Zenon DEF Replies
  <2>6. ack' # "ok" /\ ack' # "denied" /\ ack' # "unreachable"
    BY <2>2, ZenonT(30)
  <2>7. Goal
    BY <2>2, <2>3, <2>4, <2>5, <2>6, Zenon
  <2>8. QED BY <2>7, <1>0, Zenon DEF ReplyInv
<1>3. ASSUME spc \in {"resolve", "dial", "pump"} PROVE fpc' \notin {"head", "open"}
  <2>1. spc # "idle"
    BY <1>3, ZenonT(30)
  <2>2. QED BY <2>1, <1>f, <1>t, Zenon
<1>4. CASE Decides
  <2>1. spc = "resolve" /\ seen' = seen /\ ack = "none"
    BY <1>4, <1>t, Zenon DEF Decides
  <2>2. ~In("ok", seen') /\ ~In("denied", seen') /\ ~In("unreachable", seen') /\ fpc' \notin {"head", "open"}
    BY <2>1, <1>q, <1>3, Zenon
  <2>3. verdict'.kind \in {"route", "dial", "deny"}
    BY <1>4, <1>t, ResolveKinds, Zenon DEF Decides, IsJob
  <2>4. CASE verdict'.kind = "deny"
    <3>1. spc' = "refused" /\ ack' = "denied"
      BY <2>4, <1>4, Zenon DEF Decides
    <3>2. /\ spc' \notin {"idle", "resolve"} /\ spc' \notin {"idle", "resolve", "dial"}
          /\ spc' \notin {"dial", "pump", "done"} /\ ack' # "ok" /\ ack' # "unreachable"
      BY <3>1, ZenonT(30)
    <3>3. Goal
      BY <2>2, <2>4, <3>2, Zenon
    <3>4. QED BY <3>3, <1>0, Zenon DEF ReplyInv
  <2>5. CASE verdict'.kind # "deny"
    <3>1. spc' = "dial" /\ ack' = "none"
      BY <2>5, <2>1, <1>4, Zenon DEF Decides
    <3>2. Accepted'
      BY <2>3, <2>5, Zenon DEF Accepted
    <3>3. spc' \notin {"idle", "resolve"} /\ ack' # "ok" /\ ack' # "denied" /\ ack' # "unreachable"
      BY <3>1, Zenon
    <3>4. Goal
      BY <2>2, <3>1, <3>2, <3>3, Zenon
    <3>5. QED BY <3>4, <1>0, Zenon DEF ReplyInv
  <2>6. QED BY <2>4, <2>5, Zenon
<1>5. CASE Dials
  <2>1. spc = "dial" /\ seen' = seen /\ verdict' = verdict
    BY <1>5, Zenon DEF Dials
  <2>2. ~In("ok", seen') /\ ~In("denied", seen') /\ ~In("unreachable", seen') /\ fpc' \notin {"head", "open"}
    BY <2>1, <1>q, <1>3, Zenon
  <2>3. Accepted'
    BY <2>1, <1>t, Zenon DEF Accepted
  <2>4. CASE spc' = "pump" /\ ack' = "ok"
    <3>1. spc' \notin {"idle", "resolve"} /\ spc' \notin {"idle", "resolve", "dial"} /\ ack' # "denied" /\ ack' # "unreachable"
      BY <2>4, Zenon
    <3>2. Goal
      BY <2>2, <2>3, <2>4, <3>1, Zenon
    <3>3. QED BY <3>2, <1>0, Zenon DEF ReplyInv
  <2>5. CASE spc' = "refused" /\ ack' = "unreachable"
    <3>1. spc' \notin {"idle", "resolve"} /\ spc' \notin {"idle", "resolve", "dial"} /\ ack' # "denied" /\ ack' # "ok"
      BY <2>5, ZenonT(30)
    <3>2. Goal
      BY <2>2, <2>3, <2>5, <3>1, Zenon
    <3>3. QED BY <3>2, <1>0, Zenon DEF ReplyInv
  <2>6. QED BY <2>4, <2>5, <1>5, Zenon DEF Dials
<1>6. CASE Finishes
  <2>1. seen' = seen /\ verdict' = verdict /\ ack' = ack
    BY <1>6, Zenon DEF Finishes
  <2>a. Accepted' = Accepted
    BY <2>1, Zenon DEF Accepted
  <2>2. CASE spc = "pump" /\ spc' = "done"
    <3>1. fpc' \notin {"head", "open"} /\ Accepted
      BY <2>2, <1>3, <1>t, Zenon
    <3>2. /\ spc' \notin {"idle", "resolve"} /\ spc' \notin {"idle", "resolve", "dial"}
          /\ spc' \in {"pump", "done"} /\ spc # "refused"
      BY <2>2, ZenonT(30)
    <3>3. Goal
      BY <2>1, <2>a, <3>1, <3>2, <1>t, Zenon
    <3>4. QED BY <3>3, <1>0, Zenon DEF ReplyInv
  <2>3. CASE spc = "resolve" /\ spc' = "refused"
    <3>1. fpc' \notin {"head", "open"} /\ ack' = "none"
      BY <2>1, <2>3, <1>3, <1>t, Zenon
    <3>2. /\ spc' \notin {"idle", "resolve"} /\ spc' \notin {"idle", "resolve", "dial"}
          /\ spc' \notin {"dial", "pump", "done"} /\ ack' # "ok" /\ ack' # "denied" /\ ack' # "unreachable"
      BY <2>3, <3>1, ZenonT(30)
    <3>3. ~In("ok", seen') /\ ~In("denied", seen') /\ ~In("unreachable", seen')
      BY <2>1, <2>3, <1>q, Zenon
    <3>4. Goal
      BY <3>1, <3>2, <3>3, Zenon
    <3>5. QED BY <3>4, <1>0, Zenon DEF ReplyInv
  <2>4. QED BY <2>2, <2>3, <1>6, Zenon DEF Finishes
<1>7. QED BY <1>1, <1>2, <1>4, <1>5, <1>6, ReplySteps, Zenon

\* The invariant says what is promised.
LEMMA ReplyHonestly == ReplyInv => ReplyHonest
<1> SUFFICES ASSUME ReplyInv PROVE ReplyHonest
  BY Zenon
<1>1. DOMAIN seen = 1..Len(seen)
  BY DEF ReplyInv, RelayTypes
<1>2. QED BY <1>1, Zenon DEF ReplyInv, ReplyHonest, In, Accepted

-----------------------------------------------------------------------------
(* Sequences of items: what moves from one queue to the next. *)

\* Concatenation of items.
LEMMA Assoc ==
    ASSUME NEW a \in Seq(Item), NEW b \in Seq(Item), NEW c \in Seq(Item)
    PROVE  (a \o b) \o c = a \o (b \o c)
  OBVIOUS

\* The empty sequence adds nothing.
LEMMA NoneJoined ==
    ASSUME NEW a \in Seq(Item)
    PROVE  a \o <<>> = a /\ <<>> \o a = a
  OBVIOUS

\* One item more is a sequence of one item more.
LEMMA AppendJoins ==
    ASSUME NEW a \in Seq(Item), NEW x \in Item
    PROVE  Append(a, x) = a \o <<x>>
  OBVIOUS

\* A sequence that is not empty begins with its head.
LEMMA HeadJoins ==
    ASSUME NEW a \in Seq(Item), a # <<>>
    PROVE  a = <<Head(a)>> \o Tail(a)
  OBVIOUS

\* A sequence that is not empty ends with its last item.
LEMMA LastJoins ==
    ASSUME NEW a \in Seq(Item), a # <<>>
    PROVE  Front(a) \in Seq(Item) /\ Last(a) \in Item /\ a = Append(Front(a), Last(a))
  BY DEF Front, Last

\* What Append added is the last item.
LEMMA FrontOfAppend ==
    ASSUME NEW a \in Seq(Item), NEW x \in Item
    PROVE  Append(a, x) # <<>> /\ Front(Append(a, x)) = a /\ Last(Append(a, x)) = x
  BY DEF Front, Last

\* What a sequence begins with is a prefix of it.
LEMMA JoinedPrefix ==
    ASSUME NEW a \in Seq(Item), NEW b \in Seq(Item)
    PROVE  IsPrefix(a, a \o b)
  BY DEF IsPrefix

\* Append loses nothing.
LEMMA AppendInjective ==
    ASSUME NEW a \in Seq(Item), NEW x \in Item, NEW b \in Seq(Item), NEW y \in Item, Append(a, x) = Append(b, y)
    PROVE  a = b /\ x = y
  OBVIOUS

\* Two sequences with the same items are equal.
LEMMA SameItems ==
    ASSUME NEW a \in Seq(Item), NEW b \in Seq(Item), Len(a) = Len(b), \A k \in 1..Len(a) : a[k] = b[k]
    PROVE  a = b
  OBVIOUS

\* Taking the n items behind the first one out of a sequence.
LEMMA TakenApart ==
    ASSUME NEW s \in Seq(Item), NEW n \in Nat, n + 1 <= Len(s)
    PROVE  SubSeq(s, 2, n + 1) \o SubSeq(s, n + 2, Len(s)) = Tail(s)
<1> DEFINE a == SubSeq(s, 2, n + 1)
           b == SubSeq(s, n + 2, Len(s))
           c == Tail(s)
<1>t. Len(s) \in Nat /\ s # <<>>
  OBVIOUS
<1>1. a \in Seq(Item) /\ Len(a) = n
  BY <1>t, SMTT(30)
<1>a. \A k \in 1..n : a[k] = s[k + 1]
  BY <1>t, SMTT(30)
<1>2. b \in Seq(Item) /\ Len(b) = Len(s) - (n + 1)
  BY <1>t, SMTT(30)
<1>b. \A k \in 1..(Len(s) - (n + 1)) : b[k] = s[k + n + 1]
  BY <1>t, SMTT(30)
<1>3. c \in Seq(Item) /\ Len(c) = Len(s) - 1 /\ \A k \in 1..(Len(s) - 1) : c[k] = s[k + 1]
  BY <1>t, SMTT(30)
<1> HIDE DEF a, b, c
<1>4. /\ a \o b \in Seq(Item) /\ Len(a \o b) = Len(c)
      /\ \A k \in 1..Len(a) : (a \o b)[k] = a[k]
      /\ \A k \in (Len(a) + 1)..Len(a \o b) : (a \o b)[k] = b[k - Len(a)]
  BY <1>1, <1>2, <1>3, <1>t, SMTT(30)
<1>5. ASSUME NEW k \in 1..Len(c) PROVE (a \o b)[k] = c[k]
  <2>1. CASE k <= n
    <3>1. k \in 1..n /\ k \in 1..Len(a) /\ k \in 1..(Len(s) - 1)
      BY <2>1, <1>1, <1>3, <1>t, SMTT(30)
    <3>2. QED BY <3>1, <1>4, <1>a, <1>3, Zenon
  <2>2. CASE ~(k <= n)
    <3>1. /\ k \in (Len(a) + 1)..Len(a \o b) /\ k - n \in 1..(Len(s) - (n + 1)) /\ k - n + n + 1 = k + 1
          /\ k \in 1..(Len(s) - 1) /\ k - Len(a) = k - n
      BY <2>2, <1>1, <1>3, <1>4, <1>t, SMTT(30)
    <3>2. (a \o b)[k] = b[k - n] /\ b[k - n] = s[k - n + n + 1] /\ c[k] = s[k + 1]
      BY <3>1, <1>4, <1>b, <1>3, Zenon
    <3>3. QED BY <3>1, <3>2, Zenon
  <2>3. QED BY <2>1, <2>2, Zenon
<1>6. \A k \in 1..Len(a \o b) : (a \o b)[k] = c[k]
  BY <1>4, <1>5, Zenon
<1>7. a \o b = c
  BY <1>3, <1>4, <1>6, SameItems, Zenon
<1>8. QED BY <1>7, Zenon DEF a, b, c

\* The item put in front comes off first.
LEMMA HeadBack ==
    ASSUME NEW x \in Item, NEW v \in Seq(Item)
    PROVE  Tail(<<x>> \o v) = v
  OBVIOUS

\* Taking from the front of two sequences takes from the first.
LEMMA TailJoined ==
    ASSUME NEW s \in Seq(Item), s # <<>>, NEW t \in Seq(Item)
    PROVE  Tail(s \o t) = Tail(s) \o t
<1>1. Head(s) \in Item /\ Tail(s) \in Seq(Item) /\ <<Head(s)>> \in Seq(Item) /\ Tail(s) \o t \in Seq(Item)
  BY WordSeqs, Zenon
<1>2. s \o t = <<Head(s)>> \o (Tail(s) \o t)
  <2> DEFINE h == <<Head(s)>>
             v == Tail(s)
  <2>1. s = h \o v
    BY HeadJoins, Zenon
  <2>2. h \in Seq(Item) /\ v \in Seq(Item)
    BY <1>1, Zenon
  <2> HIDE DEF h, v
  <2>3. s \o t = h \o (v \o t)
    BY <2>1, <2>2, Assoc, ZenonT(40)
  <2>4. QED BY <2>3, Zenon DEF h, v
<1>3. QED BY <1>1, <1>2, HeadBack, Zenon

\* An item moves from the head of one sequence to the end of the one before it.
LEMMA Passed ==
    ASSUME NEW a \in Seq(Item), NEW b \in Seq(Item), b # <<>>
    PROVE  Append(a, Head(b)) \o Tail(b) = a \o b
<1>1. Head(b) \in Item /\ Tail(b) \in Seq(Item) /\ <<Head(b)>> \in Seq(Item)
  BY WordSeqs, Zenon
<1> DEFINE h == <<Head(b)>>
           v == Tail(b)
<1>2. b = h \o v
  BY HeadJoins, Zenon
<1>3. Append(a, Head(b)) = a \o h
  BY <1>1, AppendJoins, Zenon
<1>4. h \in Seq(Item) /\ v \in Seq(Item)
  BY <1>1, Zenon
<1> HIDE DEF h, v
<1>5. Append(a, Head(b)) \o v = a \o b
  <2>1. (a \o h) \o v = a \o (h \o v)
    BY <1>4, Assoc, Zenon
  <2>2. QED BY <2>1, <1>2, <1>3, Zenon
<1>6. QED BY <1>5, Zenon DEF v

\* x is what was sent, as far as it has come; or that much and then an end of input,
\* once something has broken.
Whole(x, all) == \E y \in Seq(Item) : x \o y = all
Part(n, x, all) == Whole(x, all) \/ (n > 0 /\ \E y \in Seq(Item) : x = Append(y, "fin") /\ Whole(y, all))
Broken == IF link THEN faults ELSE 1
\* The end of input has not come.
Unended(q) == q = <<>> \/ Last(q) # "fin"

\* What is broken stays so.
LEMMA BrokenLater ==
    ASSUME faults \in Nat, faults' = faults \/ faults' = faults + 1, link' => link
    PROVE  Broken > 0 => Broken' > 0
<1>1. 1 > 0 /\ faults + 1 > 0
  BY SMTT(30)
<1>2. CASE ~link'
  BY <1>1, <1>2, Zenon DEF Broken
<1>3. CASE link' /\ link
  <2>1. Broken = faults /\ Broken' = faults'
    BY <1>3, Zenon DEF Broken
  <2>2. QED BY <2>1, <1>1, Zenon
<1>4. QED BY <1>2, <1>3, Zenon

\* A part is what ThroughInOrder allows an end to have received.
LEMMA PartIsCut ==
    ASSUME NEW x \in Seq(Item), NEW all, Part(Broken, x, all)
    PROVE  Cut(x, all)
<1>f. "fin" \in Item
  BY WordItems, Zenon DEF Words
<1>1. \A y \in Seq(Item) : Whole(y, all) => IsPrefix(y, all)
  BY JoinedPrefix, Zenon DEF Whole
<1>2. CASE Whole(x, all)
  BY <1>1, <1>2, Zenon DEF Cut
<1>3. ASSUME Broken > 0, NEW y \in Seq(Item), x = Append(y, "fin"), Whole(y, all) PROVE Cut(x, all)
  <2>1. x # <<>> /\ Front(x) = y /\ Last(x) = "fin"
    BY <1>3, <1>f, FrontOfAppend, Zenon
  <2>2. faults > 0 \/ ~link
    BY <1>3, Zenon DEF Broken
  <2>3. QED BY <2>1, <2>2, <1>1, <1>3, Zenon DEF Cut
<1>4. QED BY <1>2, <1>3, Zenon DEF Part

\* A shorter prefix is a prefix.
LEMMA WholeShorter ==
    ASSUME NEW x \in Seq(Item), NEW u \in Seq(Item), NEW all, Whole(x \o u, all)
    PROVE  Whole(x, all)
<1>1. PICK y \in Seq(Item) : (x \o u) \o y = all
  BY Zenon DEF Whole
<1>2. (x \o u) \o y = x \o (u \o y)
  BY Assoc, ZenonT(40)
<1>3. u \o y \in Seq(Item)
  BY WordSeqs, ZenonT(30)
<1>4. x \o (u \o y) = all
  BY <1>1, <1>2, ZenonT(30)
<1>5. QED
  BY <1>3, <1>4, ZenonT(30) DEF Whole

\* The end of two sequences is the end of the second.
LEMMA EndSplit ==
    ASSUME NEW x \in Seq(Item), NEW u \in Seq(Item), u # <<>>, NEW y \in Seq(Item), x \o u = Append(y, "fin")
    PROVE  Last(u) = "fin" /\ Front(u) \in Seq(Item) /\ x \o Front(u) = y
<1>f. "fin" \in Item
  BY WordItems, Zenon DEF Words
<1> DEFINE v == Front(u)
           z == Last(u)
<1>1. v \in Seq(Item) /\ z \in Item /\ u = Append(v, z)
  BY LastJoins, Zenon
<1> HIDE DEF v, z
<1>2. u = v \o <<z>> /\ <<z>> \in Seq(Item)
  <2>1. Append(v, z) = v \o <<z>>
    BY <1>1, AppendJoins, Zenon
  <2>2. QED BY <2>1, <1>1, WordSeqs, Zenon
<1>3. x \o u = (x \o v) \o <<z>> /\ x \o v \in Seq(Item)
  <2>1. (x \o v) \o <<z>> = x \o (v \o <<z>>)
    BY <1>1, <1>2, Assoc, ZenonT(40)
  <2>2. QED BY <2>1, <1>1, <1>2, WordSeqs, Zenon
<1>4. x \o u = Append(x \o v, z)
  <2>1. Append(x \o v, z) = (x \o v) \o <<z>>
    BY <1>1, <1>3, AppendJoins, Zenon
  <2>2. QED BY <2>1, <1>3, Zenon
<1> DEFINE w == x \o v
<1> HIDE DEF w
<1>5. w \in Seq(Item) /\ z \in Item /\ y \in Seq(Item) /\ "fin" \in Item /\ Append(w, z) = Append(y, "fin")
  BY <1>1, <1>3, <1>4, <1>f, Zenon DEF w
<1>6. w = y /\ z = "fin"
  BY <1>5, AppendInjective, SMTT(30)
<1>7. QED BY <1>1, <1>6, Zenon DEF w, v, z

\* Less of a part is a part, ...
LEMMA PartShorter ==
    ASSUME NEW x \in Seq(Item), NEW u \in Seq(Item), NEW all, NEW n, Part(n, x \o u, all)
    PROVE  Part(n, x, all)
<1>1. CASE Whole(x \o u, all)
  BY <1>1, WholeShorter, Zenon DEF Part
<1>2. ASSUME n > 0, NEW y \in Seq(Item), x \o u = Append(y, "fin"), Whole(y, all) PROVE Part(n, x, all)
  <2>1. CASE u = <<>>
    BY <2>1, <1>2, NoneJoined, Zenon DEF Part
  <2>2. CASE u # <<>>
    <3>1. Front(u) \in Seq(Item) /\ x \o Front(u) = y
      BY <2>2, <1>2, EndSplit, Zenon
    <3>2. Whole(x, all)
      BY <3>1, <1>2, WholeShorter, Zenon
    <3>3. QED BY <3>2, Zenon DEF Part
  <2>3. QED BY <2>1, <2>2, Zenon
<1>3. QED BY <1>1, <1>2, Zenon DEF Part

\* ... more faults do no harm, and what is broken may end what was whole.
LEMMA PartLater ==
    ASSUME NEW x, NEW all, NEW n, NEW m, n > 0 => m > 0, Part(n, x, all)
    PROVE  Part(m, x, all)
  BY Zenon DEF Part

LEMMA PartEnded ==
    ASSUME NEW x \in Seq(Item), NEW all, NEW m, m > 0, Whole(x, all)
    PROVE  Part(m, Append(x, "fin"), all)
  BY Zenon DEF Part

\* The beginning and the rest of a sequence.
LEMMA Divided ==
    ASSUME NEW u \in Seq(Item), NEW k \in 0..Len(u)
    PROVE  \E s, t \in Seq(Item) :
               /\ s = SubSeq(u, 1, k) /\ s \o t = u
               /\ t = <<>> => u = <<>> \/ (k > 0 /\ u[k] = Last(u))
<1> DEFINE s == SubSeq(u, 1, k)
           t == SubSeq(u, k + 1, Len(u))
<1>1. s \in Seq(Item) /\ Len(s) = k
  BY SMTT(30)
<1>2. \A i \in 1..k : s[i] = u[i]
  BY SMTT(30)
<1>3. t \in Seq(Item) /\ Len(t) = Len(u) - k
  BY SMTT(30)
<1>4. \A i \in 1..(Len(u) - k) : t[i] = u[i + k]
  BY SMTT(30)
<1>5. Len(u) \in Nat /\ k \in Nat /\ k <= Len(u)
  BY SMTT(30)
<1> HIDE DEF s, t
<1>6. /\ s \o t \in Seq(Item) /\ Len(s \o t) = Len(u)
      /\ \A i \in 1..k : (s \o t)[i] = s[i]
      /\ \A i \in (k + 1)..Len(u) : (s \o t)[i] = t[i - k]
  BY <1>1, <1>3, <1>5, SMTT(30)
<1>7. ASSUME NEW i \in 1..Len(u) PROVE (s \o t)[i] = u[i]
  <2>1. CASE i <= k
    <3>1. i \in 1..k
      BY <2>1, <1>5, SMTT(30)
    <3>2. QED BY <3>1, <1>2, <1>6, Zenon
  <2>2. CASE ~(i <= k)
    <3>1. i \in (k + 1)..Len(u) /\ i - k \in 1..(Len(u) - k) /\ i - k + k = i
      BY <2>2, <1>5, SMTT(30)
    <3>2. (s \o t)[i] = t[i - k] /\ t[i - k] = u[i - k + k]
      BY <3>1, <1>4, <1>6, Zenon
    <3>3. QED BY <3>1, <3>2, Zenon
  <2>3. QED BY <2>1, <2>2, Zenon
<1>8. s \o t = u
  <2>1. \A i \in 1..Len(s \o t) : (s \o t)[i] = u[i]
    BY <1>6, <1>7, Zenon
  <2>2. QED BY <2>1, <1>6, SameItems, Zenon
<1>9. t = <<>> => u = <<>> \/ (k > 0 /\ u[k] = Last(u))
  <2> SUFFICES ASSUME t = <<>>, u # <<>> PROVE k > 0 /\ u[k] = Last(u)
    BY Zenon
  <2>1. Len(t) = 0 /\ Len(u) # 0
    BY SMTT(30)
  <2>2. k = Len(u) /\ k > 0
    BY <2>1, <1>3, <1>5, SMTT(30)
  <2>3. QED BY <2>2, Zenon DEF Last
<1>10. s = SubSeq(u, 1, k)
  BY Zenon DEF s
<1>11. QED BY <1>1, <1>3, <1>8, <1>9, <1>10, Zenon

\* What the session's death leaves of a part is one: some of it, ...
LEMMA PartStranded ==
    ASSUME NEW g \in Seq(Item), NEW u \in Seq(Item), NEW all, NEW n, Part(n, g \o u, all), NEW r \in Stranded(u)
    PROVE  r \in Seq(Item) /\ Part(n, g \o r, all)
<1>1. PICK k \in 0..Len(u) : r = SubSeq(u, 1, k)
  BY Zenon DEF Stranded
<1>2. PICK t \in Seq(Item) : r \in Seq(Item) /\ r \o t = u
  BY <1>1, Divided, Zenon
<1>3. g \o r \in Seq(Item)
  BY <1>2, WordSeqs, Zenon
<1>4. (g \o r) \o t = g \o u
  <2>1. (g \o r) \o t = g \o (r \o t)
    BY <1>2, Assoc, ZenonT(40)
  <2>2. QED BY <2>1, <1>2, Zenon
<1>5. QED BY <1>2, <1>3, <1>4, PartShorter, Zenon

\* ... or some of it and the end of input, for a reader that has not had one.
LEMMA PartSevered ==
    ASSUME NEW g \in Seq(Item), Unended(g), NEW u \in Seq(Item), NEW all, NEW n, Part(n, g \o u, all),
           NEW m, m > 0, NEW r \in Severed(u)
    PROVE  Part(m, g \o r, all)
<1>f. "fin" \in Item /\ <<"fin">> \in Seq(Item)
  BY WordItems, WordSeqs, Zenon DEF Words
<1>1. PICK k \in 0..Len(u) :
          r = IF k > 0 /\ u[k] = "fin" THEN SubSeq(u, 1, k) ELSE Append(SubSeq(u, 1, k), "fin")
  BY Zenon DEF Severed
<1>2. PICK s \in Seq(Item), t \in Seq(Item) :
          /\ s = SubSeq(u, 1, k) /\ s \o t = u
          /\ t = <<>> => u = <<>> \/ (k > 0 /\ u[k] = Last(u))
  BY Divided, Zenon
<1>3. CASE k > 0 /\ u[k] = "fin"
  <2>1. r \in Stranded(u)
    BY <1>1, <1>3, Zenon DEF Stranded
  <2>2. Part(n, g \o r, all)
    BY <2>1, PartStranded, Zenon
  <2>3. QED BY <2>2, PartLater, Zenon
<1>4. CASE ~(k > 0 /\ u[k] = "fin")
  <2>1. r = Append(s, "fin")
    BY <1>1, <1>2, <1>4, Zenon
  <2>2. g \o s \in Seq(Item)
    BY <1>2, WordSeqs, Zenon
  <2>3. (g \o s) \o t = g \o u
    <3>1. (g \o s) \o t = g \o (s \o t)
      BY <1>2, Assoc, ZenonT(40)
    <3>2. QED BY <3>1, <1>2, Zenon
  <2>4. Whole(g \o s, all)
    <3>1. CASE Whole(g \o u, all)
      BY <3>1, <2>2, <2>3, WholeShorter, Zenon
    <3>2. ASSUME NEW y \in Seq(Item), g \o u = Append(y, "fin"), Whole(y, all) PROVE Whole(g \o s, all)
      <4>1. CASE t # <<>>
        <5>1. (g \o s) \o t = Append(y, "fin")
          BY <2>3, <3>2, Zenon
        <5>2. Front(t) \in Seq(Item) /\ (g \o s) \o Front(t) = y
          BY <5>1, <4>1, <2>2, EndSplit, Zenon
        <5>3. QED BY <5>2, <2>2, <3>2, WholeShorter, Zenon
      <4>2. CASE u # <<>> /\ t = <<>>
        <5>1. Last(u) = "fin"
          BY <4>2, <3>2, EndSplit, Zenon
        <5>2. QED BY <5>1, <4>2, <1>2, <1>4, Zenon
      <4>3. CASE u = <<>>
        <5>1. g = Append(y, "fin")
          BY <4>3, <3>2, NoneJoined, Zenon
        <5>2. g # <<>> /\ Last(g) = "fin"
          BY <5>1, <1>f, FrontOfAppend, Zenon
        <5>3. QED BY <5>2, Zenon DEF Unended
      <4>4. QED BY <4>1, <4>2, <4>3, Zenon
    <3>3. QED BY <3>1, <3>2, Zenon DEF Part
  <2>5. g \o r = Append(g \o s, "fin")
    <3>1. Append(s, "fin") = s \o <<"fin">> /\ Append(g \o s, "fin") = (g \o s) \o <<"fin">>
      BY <1>2, <1>f, <2>2, AppendJoins, Zenon
    <3>2. (g \o s) \o <<"fin">> = g \o (s \o <<"fin">>)
      <4> DEFINE e == <<"fin">>
      <4>1. e \in Seq(Item)
        BY <1>f, Zenon
      <4> HIDE DEF e
      <4>2. (g \o s) \o e = g \o (s \o e)
        BY <4>1, <1>2, Assoc, ZenonT(40)
      <4>3. QED BY <4>2, Zenon DEF e
    <3>3. QED BY <3>1, <3>2, <2>1, Zenon
  <2>6. QED BY <2>2, <2>4, <2>5, PartEnded, Zenon
<1>5. QED BY <1>3, <1>4, Zenon

\* Any item but the end of input leaves the input open.
LEMMA UnendedAppend ==
    ASSUME NEW s \in Seq(Item), NEW x \in Item, x # "fin"
    PROVE  Unended(Append(s, x))
  BY FrontOfAppend, Zenon DEF Unended

-----------------------------------------------------------------------------
(* Towards the upstream. *)

\* What the upstream is to receive, and what the application is, once it is served.
Asked == (IF job.front = "absolute" THEN <<"rewritten">> ELSE <<>>) \o job.asks \o <<"fin">>
Greeting == IF job.front = "absolute" THEN <<>> ELSE <<"ok">>
Told == Greeting \o job.answers \o <<"fin">>

\* Towards the upstream: what it has, what the tunnel holds, what was read ahead and
\* what the socket and the application still hold are the whole as long as the session
\* lives; its end or the application's own reset cuts that short, and a copy that has
\* read the end of input reads no more.
UpInv ==
    /\ RelayTypes
    /\ Part(Broken, got \o up, Asked)
    /\ fpc = "head" /\ link => got = <<>> /\ up = <<>> /\ sock \o asks = <<"head">> \o (job.asks \o <<"fin">>)
    /\ fpc \in {"open", "opening"} /\ link =>
           got = <<>> /\ up = <<>> /\ rest \o (sock \o asks) = job.asks \o <<"fin">>
    /\ fpc = "pump" /\ link => (got \o up) \o (sock \o asks) = Asked
    /\ "up" \notin sdone => Unended(got)

\* What the two ends are to receive are sequences of items.
LEMMA AskedType ==
    ASSUME IsJob(job)
    PROVE  /\ job.asks \in Seq(Item) /\ job.answers \in Seq(Item) /\ <<"fin">> \in Seq(Item) /\ "fin" \in Item
           /\ <<"head">> \in Seq(Item) /\ "head" \in Item /\ <<"rewritten">> \in Seq(Item) /\ <<"ok">> \in Seq(Item)
           /\ job.asks \o <<"fin">> \in Seq(Item) /\ Asked \in Seq(Item)
           /\ Greeting \in Seq(Item) /\ Told \in Seq(Item)
           /\ Asked = (IF job.front = "absolute" THEN <<"rewritten">> ELSE <<>>) \o (job.asks \o <<"fin">>)
<1>1. "fin" \in Item /\ "head" \in Item /\ "rewritten" \in Item /\ "ok" \in Item
  BY WordItems, Zenon DEF Words
<1>2. job.asks \in Seq(Item) /\ job.answers \in Seq(Item)
  BY DataWords, Zenon DEF IsJob
<1>3. <<"fin">> \in Seq(Item) /\ <<"head">> \in Seq(Item) /\ <<"rewritten">> \in Seq(Item) /\ <<"ok">> \in Seq(Item)
  BY <1>1, WordSeqs, Zenon
<1> DEFINE pre == IF job.front = "absolute" THEN <<"rewritten">> ELSE <<>>
<1>4. pre \in Seq(Item) /\ Greeting \in Seq(Item)
  BY <1>3, WordSeqs, Zenon DEF Greeting
<1>a. Asked = (pre \o job.asks) \o <<"fin">>
  BY Zenon DEF Asked
<1> HIDE DEF pre
<1>5. pre \o job.asks \in Seq(Item) /\ Greeting \o job.answers \in Seq(Item)
  BY <1>2, <1>4, WordSeqs, Zenon
<1>6. Asked \in Seq(Item) /\ Told \in Seq(Item) /\ job.asks \o <<"fin">> \in Seq(Item)
  BY <1>2, <1>3, <1>5, <1>a, WordSeqs, Zenon DEF Told
<1>7. Asked = pre \o (job.asks \o <<"fin">>)
  <2>1. (pre \o job.asks) \o <<"fin">> = pre \o (job.asks \o <<"fin">>)
    <3>1. pre \in Seq(Item) /\ job.asks \in Seq(Item) /\ <<"fin">> \in Seq(Item)
      BY <1>2, <1>3, <1>4, Zenon
    <3>2. QED BY <3>1, Assoc, Zenon
  <2>2. QED BY <2>1, <1>a, Zenon
<1>8. QED BY <1>1, <1>2, <1>3, <1>4, <1>6, <1>7, Zenon DEF pre

\* Nothing is the beginning of everything.
LEMMA EmptyWhole == ASSUME NEW all \in Seq(Item) PROVE Whole(<<>> \o <<>>, all)
<1>1. <<>> \in Seq(Item)
  BY WordSeqs, Zenon
<1>2. <<>> \o <<>> = <<>> /\ <<>> \o all = all
  BY <1>1, NoneJoined, Zenon
<1>3. QED BY <1>2, Zenon DEF Whole

\* In the first state everything is still at the application.
LEMMA UpInit == ASSUME NEW jobs, \A j \in jobs : IsJob(j), RelayInit(jobs) PROVE UpInv
<1>1. RelayTypes
  BY TypesInit, Zenon
<1>2. IsJob(job)
  BY <1>1, Zenon DEF RelayTypes
<1>3. /\ fpc = "head" /\ got = <<>> /\ up = <<>> /\ sock = <<>>
      /\ asks = (<<"head">> \o job.asks) \o <<"fin">>
  BY Zenon DEF RelayInit
<1>4. asks = <<"head">> \o (job.asks \o <<"fin">>)
  <2>1. (<<"head">> \o job.asks) \o <<"fin">> = <<"head">> \o (job.asks \o <<"fin">>)
    <3>1. <<"head">> \in Seq(Item) /\ job.asks \in Seq(Item) /\ <<"fin">> \in Seq(Item)
      BY <1>2, AskedType, Zenon
    <3>2. QED BY <3>1, Assoc, Zenon
  <2>2. QED BY <2>1, <1>3, Zenon
<1>5. sock \o asks = asks
  BY <1>1, <1>3, NoneJoined, Zenon DEF RelayTypes
<1>6. Part(Broken, got \o up, Asked)
  BY <1>2, <1>3, AskedType, EmptyWhole, Zenon DEF Part
<1>7. fpc \notin {"open", "opening"} /\ fpc # "pump"
  BY <1>3, ZenonT(30)
<1>8. QED BY <1>1, <1>3, <1>4, <1>5, <1>6, <1>7, Zenon DEF UpInv, Unended

\* Every step moves items on without losing or reordering any.
LEMMA UpStep == UpInv /\ [RelayNext \/ LinkDies]_relayVars => UpInv'
<1> SUFFICES ASSUME UpInv, [RelayNext \/ LinkDies]_relayVars PROVE UpInv'
  BY Zenon
<1>0. RelayTypes'
  BY TypesStep, Zenon DEF UpInv
<1>t. /\ IsJob(job) /\ link \in BOOLEAN /\ faults \in Nat
      /\ asks \in Seq(Item) /\ sock \in Seq(Item) /\ up \in Seq(Item) /\ got \in Seq(Item) /\ rest \in Seq(Item)
  BY Zenon DEF UpInv, RelayTypes
<1>tg. got \in Seq(Item)
  BY <1>t, Zenon
<1>tu. up \in Seq(Item)
  BY <1>t, Zenon
<1>ts. sock \in Seq(Item)
  BY <1>t, Zenon
<1>ta. asks \in Seq(Item)
  BY <1>t, Zenon
<1>tr. rest \in Seq(Item)
  BY <1>t, Zenon
<1>i. /\ Part(Broken, got \o up, Asked)
      /\ fpc = "head" /\ link => got = <<>> /\ up = <<>> /\ sock \o asks = <<"head">> \o (job.asks \o <<"fin">>)
      /\ fpc \in {"open", "opening"} /\ link =>
             got = <<>> /\ up = <<>> /\ rest \o (sock \o asks) = job.asks \o <<"fin">>
      /\ fpc = "pump" /\ link => (got \o up) \o (sock \o asks) = Asked
      /\ "up" \notin sdone => Unended(got)
  BY Zenon DEF UpInv
<1>j. job' = job /\ Asked' = Asked
  <2>1. job' = job
    BY Zenon DEF RelayNext, Frontend, Copies, Server, Endpoints, Faults, LinkDies, relayVars,
     AppSends, UpstreamSends, SocksRequest, HttpHead, TakeHead, BadRequest, OpenStream, Opened, OpenFails,
     FrontUp, FrontDown, FrontEnds, FrontBreaks, AppResets, Resolve, DialSucceeds, DialFails, ServerEnds,
     ServerBreaks, ServerUp, ServerDown, UpstreamResets
  <2>2. QED BY <2>1, Zenon DEF Asked
<1>s. got \o up \in Seq(Item) /\ sock \o asks \in Seq(Item) /\ Asked \in Seq(Item) /\ "fin" \in Item
  BY <1>t, WordSeqs, AskedType, Zenon
<1>p. ASSUME faults' = faults \/ faults' = faults + 1, link' => link
      PROVE  Part(Broken', got \o up, Asked)
  <2>1. Broken > 0 => Broken' > 0
    BY <1>p, <1>t, BrokenLater, Zenon
  <2>2. QED BY <2>1, <1>i, PartLater, Zenon
<1>b. ASSUME faults' = faults + 1
      PROVE  Broken' > 0
  <2>1. 1 > 0 /\ faults + 1 > 0
    BY <1>t, SMTT(30)
  <2>2. QED BY <2>1, <1>b, Zenon DEF Broken
<1> USE DEF Upward, Downward
\* Nothing of this direction changes, a fault may be counted.
<1>same. ASSUME UNCHANGED <<link, fpc, got, up, sock, asks, rest>>, faults' = faults \/ faults' = faults + 1,
                "up" \notin sdone' => "up" \notin sdone
         PROVE  UpInv'
  <2>1. Part(Broken', got' \o up', Asked')
    BY <1>same, <1>p, <1>j, Zenon
  <2>2. QED BY <1>same, <2>1, <1>0, <1>i, <1>j, ZenonT(40) DEF UpInv
\* The frontend's task ends, what the tunnel holds stays.
<1>over. ASSUME fpc' = "done", got' = got, up' = up, faults' = faults \/ faults' = faults + 1,
                UNCHANGED <<link, sdone>>
         PROVE  UpInv'
  <2>1. Part(Broken', got' \o up', Asked')
    BY <1>over, <1>p, <1>j, Zenon
  <2>2. fpc' # "head" /\ fpc' \notin {"open", "opening"} /\ fpc' # "pump"
    BY <1>over, ZenonT(30)
  <2>3. QED BY <2>1, <2>2, <1>over, <1>i, <1>0, Zenon DEF UpInv
<1>1. CASE AppSends
  <2>1. sock' \o asks' = sock \o asks
    BY <1>1, <1>t, Passed, Zenon DEF AppSends
  <2>2. UNCHANGED <<link, fpc, got, up, rest, faults, sdone>>
    BY <1>1, Zenon DEF AppSends
  <2>3. Part(Broken', got' \o up', Asked')
    BY <2>2, <1>p, <1>j, Zenon
  <2>4. QED BY <2>1, <2>2, <2>3, <1>0, <1>i, <1>j, Zenon DEF UpInv
<1>2. CASE UpstreamSends \/ FrontDown \/ ServerDown
  BY <1>2, <1>same, Zenon DEF UpstreamSends, FrontDown, ServerDown
<1>3. CASE SocksRequest \/ HttpHead
  <2>1. PICK n \in Nat : TakeHead(n) /\ n + 1 <= Len(sock)
    <3>1. Len(sock) \in Nat /\ (sock # <<>> => 1 <= Len(sock))
      BY <1>t, SMTT(30)
    <3>2. CASE SocksRequest
      <4>1. sock # <<>> /\ TakeHead(0)
        BY <3>2, Zenon DEF SocksRequest
      <4>2. 0 \in Nat /\ 0 + 1 <= Len(sock)
        BY <4>1, <3>1, SMTT(30)
      <4>3. QED BY <4>1, <4>2, Zenon
    <3>3. CASE HttpHead
      <4>1. PICK n \in 0..(Len(sock) - 1) : TakeHead(n)
        BY <3>3, Zenon DEF HttpHead
      <4>2. sock # <<>>
        BY <3>3, Zenon DEF HttpHead
      <4>3. n \in Nat /\ n + 1 <= Len(sock)
        BY <4>2, <3>1, SMTT(30)
      <4>4. QED BY <4>1, <4>3, Zenon
    <3>4. QED BY <3>2, <3>3, <1>3, Zenon
  <2>2. fpc = "head" /\ sock # <<>>
    BY <1>3, Zenon DEF SocksRequest, HttpHead
  <2>3. /\ rest' = SubSeq(sock, 2, n + 1) /\ sock' = SubSeq(sock, n + 2, Len(sock)) /\ fpc' = "open"
        /\ asks' = asks /\ got' = got /\ up' = up /\ faults' = faults /\ link' = link /\ sdone' = sdone
    BY <2>1, Zenon DEF TakeHead
  <2>4. rest' \o sock' = Tail(sock)
    BY <2>1, <2>3, <1>t, TakenApart, Zenon
  <2>5. rest' \in Seq(Item) /\ sock' \in Seq(Item)
    BY <1>0, Zenon DEF RelayTypes
  <2>6. rest' \o (sock' \o asks) = Tail(sock) \o asks
    <3>1. (rest' \o sock') \o asks = rest' \o (sock' \o asks)
      BY <2>5, <1>ta, Assoc, Zenon
    <3>2. QED BY <3>1, <2>4, Zenon
  <2>7. ASSUME link PROVE Tail(sock) \o asks = job.asks \o <<"fin">>
    <3>1. sock \o asks = <<"head">> \o (job.asks \o <<"fin">>)
      BY <2>2, <2>7, <1>i, Zenon
    <3>2. job.asks \o <<"fin">> \in Seq(Item) /\ "head" \in Item
      BY <1>t, AskedType, Zenon
    <3> DEFINE w == job.asks \o <<"fin">>
    <3> HIDE DEF w
    <3>3. /\ sock \in Seq(Item) /\ sock # <<>> /\ asks \in Seq(Item) /\ "head" \in Item /\ w \in Seq(Item)
          /\ sock \o asks = <<"head">> \o w
      BY <3>1, <3>2, <2>2, <1>ts, <1>ta, Zenon DEF w
    <3>4. Tail(sock \o asks) = Tail(sock) \o asks
      BY <3>3, TailJoined, Zenon
    <3>5. Tail(<<"head">> \o w) = w
      BY <3>3, HeadBack, Zenon
    <3>6. QED BY <3>3, <3>4, <3>5, Zenon DEF w
  <2>8. link' => rest' \o (sock' \o asks') = job'.asks \o <<"fin">>
    BY <2>3, <2>6, <2>7, <1>j, Zenon
  <2>9. fpc' # "head" /\ fpc' # "pump"
    BY <2>3, ZenonT(30)
  <2>10. Part(Broken', got' \o up', Asked')
    BY <2>3, <1>p, <1>j, Zenon
  <2>11. QED BY <2>2, <2>3, <2>8, <2>9, <2>10, <1>0, <1>i, <1>j, ZenonT(40) DEF UpInv
<1>4. CASE BadRequest
  BY <1>4, <1>over, Zenon DEF BadRequest, Fault
<1>5. CASE OpenStream
  <2>1. CASE link
    <3>1. fpc = "open" /\ fpc' = "opening" /\ UNCHANGED <<link, got, up, sock, asks, rest, faults, sdone>>
      BY <1>5, <2>1, Zenon DEF OpenStream
    <3>2. fpc' # "head" /\ fpc' # "pump"
      BY <3>1, ZenonT(30)
    <3>3. Part(Broken', got' \o up', Asked')
      BY <3>1, <1>p, <1>j, Zenon
    <3>4. QED BY <3>1, <3>2, <3>3, <1>0, <1>i, <1>j, Zenon DEF UpInv
  <2>2. CASE ~link
    <3>1. fpc' = "done" /\ up' = up /\ got' = got /\ faults' = faults /\ UNCHANGED <<link, sdone>>
      BY <1>5, <2>2, Zenon DEF OpenStream, Refuse
    <3>2. QED BY <3>1, <1>over, Zenon
  <2>3. QED BY <2>1, <2>2, Zenon
<1>6. CASE Opened
  <2>1. CASE ack = "ok"
    <3>1. /\ fpc = "opening" /\ link /\ fpc' = "pump" /\ up' = Ahead
          /\ link' = link /\ got' = got /\ sock' = sock /\ asks' = asks /\ faults' = faults /\ sdone' = sdone
      BY <1>6, <2>1, Zenon DEF Opened
    <3>2. got = <<>> /\ rest \o (sock \o asks) = job.asks \o <<"fin">>
      BY <3>1, <1>i, Zenon
    <3> DEFINE pre == IF job.front = "absolute" THEN <<"rewritten">> ELSE <<>>
    <3>3. Ahead = pre \o rest /\ pre \in Seq(Item) /\ Asked = pre \o (job.asks \o <<"fin">>)
      BY <1>t, AskedType, WordSeqs, Zenon DEF Ahead
    <3> HIDE DEF pre
    <3>4. pre \o rest \in Seq(Item)
      BY <3>3, <1>t, WordSeqs, Zenon
    <3>5. got' \o up' = pre \o rest
      BY <3>1, <3>2, <3>3, <3>4, NoneJoined, Zenon
    <3>6. (pre \o rest) \o (sock \o asks) = Asked
      <4>1. (pre \o rest) \o (sock \o asks) = pre \o (rest \o (sock \o asks))
        <5>1. pre \in Seq(Item) /\ sock \o asks \in Seq(Item)
          BY <3>3, <1>s, Zenon
        <5>2. QED BY <5>1, <1>tr, Assoc, Zenon
      <4>2. QED BY <4>1, <3>2, <3>3, Zenon
    <3>7. (got' \o up') \o (sock' \o asks') = Asked' /\ Whole(got' \o up', Asked')
      BY <3>1, <3>5, <3>6, <1>s, <1>j, Zenon DEF Whole
    <3>8. Part(Broken', got' \o up', Asked')
      BY <3>7, Zenon DEF Part
    <3>9. fpc' # "head" /\ fpc' \notin {"open", "opening"}
      BY <3>1, ZenonT(30)
    <3>10. QED BY <3>1, <3>7, <3>8, <3>9, <1>0, <1>i, Zenon DEF UpInv
  <2>2. CASE ack # "ok"
    <3>1. fpc' = "done" /\ up' = up /\ got' = got /\ faults' = faults /\ UNCHANGED <<link, sdone>>
      BY <1>6, <2>2, Zenon DEF Opened, Refuse
    <3>2. QED BY <3>1, <1>over, Zenon
  <2>3. QED BY <2>1, <2>2, Zenon
<1>7. CASE OpenFails
  <2>1. fpc' = "done" /\ up' = up /\ got' = got /\ UNCHANGED <<link, sdone>>
    BY <1>7, Zenon DEF OpenFails, Refuse
  <2>2. faults' = faults \/ faults' = faults + 1
    BY <1>7, Zenon DEF OpenFails
  <2>3. QED BY <2>1, <2>2, <1>over, Zenon
<1>8. CASE FrontUp
  <2>1. CASE link
    <3>1. /\ fpc = "pump" /\ sock # <<>> /\ up' = Append(up, Head(sock)) /\ sock' = Tail(sock)
          /\ link' = link /\ got' = got /\ asks' = asks /\ faults' = faults /\ fpc' = fpc /\ sdone' = sdone
      BY <1>8, <2>1, Zenon DEF FrontUp, Written
    <3>2. Head(sock) \in Item /\ up' \in Seq(Item) /\ sock' \in Seq(Item) /\ <<Head(sock)>> \in Seq(Item)
      BY <3>1, <1>t, WordSeqs, Zenon
    <3>3. got \o up' = Append(got \o up, Head(sock))
      <4>1. up' = up \o <<Head(sock)>>
        BY <3>1, <3>2, <1>t, AppendJoins, Zenon
      <4>2. Append(got \o up, Head(sock)) = (got \o up) \o <<Head(sock)>>
        BY <3>2, <1>s, AppendJoins, Zenon
      <4>3. (got \o up) \o <<Head(sock)>> = got \o (up \o <<Head(sock)>>)
        <5>1. <<Head(sock)>> \in Seq(Item)
          BY <3>2, Zenon
        <5>2. QED BY <5>1, <1>tg, <1>tu, Assoc, Zenon
      <4>4. QED BY <4>1, <4>2, <4>3, Zenon
    <3>4. got \o up' \in Seq(Item) /\ sock' \o asks \in Seq(Item)
      BY <3>2, <1>t, WordSeqs, Zenon
    <3>5. (got \o up') \o sock' = (got \o up) \o sock
      <4>1. Append(got \o up, Head(sock)) \o Tail(sock) = (got \o up) \o sock
        <5>1. got \o up \in Seq(Item) /\ sock # <<>>
          BY <1>s, <3>1, Zenon
        <5>2. QED BY <5>1, <1>ts, Passed, Zenon
      <4>2. QED BY <4>1, <3>1, <3>3, Zenon
    <3>6. (got \o up') \o (sock' \o asks) = Asked
      <4>1. (got \o up') \o (sock' \o asks) = ((got \o up') \o sock') \o asks
        <5>1. got \o up' \in Seq(Item) /\ sock' \in Seq(Item)
          BY <3>2, <3>4, Zenon
        <5>2. QED BY <5>1, <1>ta, Assoc, Zenon
      <4>2. ((got \o up) \o sock) \o asks = (got \o up) \o (sock \o asks)
        <5>1. got \o up \in Seq(Item)
          BY <1>s, Zenon
        <5>2. QED BY <5>1, <1>ts, <1>ta, Assoc, Zenon
      <4>3. (got \o up) \o (sock \o asks) = Asked
        BY <3>1, <2>1, <1>i, Zenon
      <4>4. QED BY <4>1, <4>2, <4>3, <3>5, Zenon
    <3>7. (got' \o up') \o (sock' \o asks') = Asked' /\ Whole(got' \o up', Asked')
      BY <3>1, <3>4, <3>6, <1>j, Zenon DEF Whole
    <3>8. Part(Broken', got' \o up', Asked')
      BY <3>7, Zenon DEF Part
    <3>9. fpc' # "head" /\ fpc' \notin {"open", "opening"} /\ link'
      BY <3>1, <2>1, ZenonT(30)
    <3>10. QED BY <3>1, <3>7, <3>8, <3>9, <1>0, <1>i, Zenon DEF UpInv
  <2>2. CASE ~link
    <3>1. fpc = "pump" /\ UNCHANGED <<link, got, up, faults, fpc, sdone>>
      BY <1>8, <2>2, Zenon DEF FrontUp, Written
    <3>2. Part(Broken', got' \o up', Asked')
      BY <3>1, <1>p, <1>j, Zenon
    <3>3. QED BY <3>1, <3>2, <2>2, <1>0, <1>i, Zenon DEF UpInv
  <2>3. QED BY <2>1, <2>2, Zenon
<1>9. CASE FrontEnds \/ FrontBreaks
  BY <1>9, <1>over, Zenon DEF FrontEnds, FrontBreaks
<1>10. CASE AppResets
  <2>1. /\ fpc = "pump" /\ fpc' = "done" /\ got' = got /\ faults' = faults + 1
        /\ up' = Written(up, "fin") /\ UNCHANGED <<link, sdone>>
    BY <1>10, Zenon DEF AppResets, Fault
  <2>2. CASE ~link
    BY <2>1, <2>2, <1>over, Zenon DEF Written
  <2>3. CASE link
    <3>1. up' = Append(up, "fin")
      BY <2>1, <2>3, Zenon DEF Written
    <3>2. got \o up' = Append(got \o up, "fin")
      <4>1. <<"fin">> \in Seq(Item)
        BY <1>s, WordSeqs, Zenon
      <4>2. up' = up \o <<"fin">>
        BY <3>1, <1>s, <1>t, AppendJoins, Zenon
      <4>3. Append(got \o up, "fin") = (got \o up) \o <<"fin">>
        BY <1>s, AppendJoins, Zenon
      <4>4. (got \o up) \o <<"fin">> = got \o (up \o <<"fin">>)
        BY <4>1, <1>t, Assoc, ZenonT(60)
      <4>5. QED BY <4>2, <4>3, <4>4, Zenon
    <3>3. Whole(got \o up, Asked)
      BY <2>1, <2>3, <1>i, <1>s, Zenon DEF Whole
    <3>4. Part(Broken', got' \o up', Asked')
      BY <2>1, <3>2, <3>3, <1>b, <1>s, <1>j, PartEnded, Zenon
    <3>5. fpc' # "head" /\ fpc' \notin {"open", "opening"} /\ fpc' # "pump"
      BY <2>1, ZenonT(30)
    <3>6. QED BY <2>1, <3>4, <3>5, <1>0, <1>i, Zenon DEF UpInv
  <2>4. QED BY <2>2, <2>3, Zenon
<1>11. CASE Resolve \/ DialSucceeds \/ DialFails \/ ServerEnds \/ ServerBreaks
  BY <1>11, <1>same, Zenon DEF Resolve, DialSucceeds, DialFails, ServerEnds, ServerBreaks
<1>12. CASE ServerUp
  <2>1. /\ up # <<>> /\ got' = Append(got, Head(up)) /\ up' = Tail(up)
        /\ UNCHANGED <<link, fpc, sock, asks, rest, faults>>
    BY <1>12, Zenon DEF ServerUp
  <2>2. got' \o up' = got \o up
    BY <2>1, <1>t, Passed, Zenon
  <2>3. link => fpc # "head" /\ fpc \notin {"open", "opening"}
    BY <2>1, <1>i, Zenon
  <2>4. Part(Broken', got' \o up', Asked')
    BY <2>1, <2>2, <1>p, <1>j, Zenon
  <2>5. "up" \notin sdone' => Unended(got')
    <3>1. "up" \notin sdone' => Head(up) # "fin"
      BY <1>12, Zenon DEF ServerUp
    <3>2. QED BY <3>1, <2>1, <1>t, WordSeqs, UnendedAppend, Zenon
  <2>6. QED BY <2>1, <2>2, <2>3, <2>4, <2>5, <1>0, <1>i, <1>j, ZenonT(30) DEF UpInv
<1>13. CASE UpstreamResets
  BY <1>13, <1>same, Zenon DEF UpstreamResets, Fault
<1>14. CASE LinkDies
  <2>1. link' = FALSE /\ (faults' = faults \/ faults' = faults + 1) /\ UNCHANGED <<got, sdone>>
    BY <1>14, LinkCuts, Zenon
  <2>2. Broken' > 0
    <3>1. 1 > 0
      BY SMTT(30)
    <3>2. QED BY <3>1, <2>1, Zenon DEF Broken
  <2>3. up' = <<>> \/ up' \in Stranded(up) \/ (up' \in Severed(up) /\ "up" \notin sdone)
    BY <1>14, LinkCuts, Zenon
  <2>4. Part(Broken', got \o up', Asked)
    <3>1. CASE up' = <<>>
      <4>1. got \o up' = got
        BY <3>1, <1>tg, NoneJoined, Zenon
      <4>2. Part(Broken, got, Asked)
        BY <1>i, <1>tg, <1>tu, PartShorter, Zenon
      <4>3. QED BY <4>1, <4>2, <2>2, PartLater, Zenon
    <3>2. CASE up' \in Stranded(up)
      <4>1. Part(Broken, got \o up', Asked)
        BY <3>2, <1>i, <1>tg, <1>tu, PartStranded, Zenon
      <4>2. QED BY <4>1, <2>2, PartLater, Zenon
    <3>3. CASE up' \in Severed(up) /\ "up" \notin sdone
      <4>1. Unended(got) /\ Part(Broken, got \o up, Asked)
        BY <3>3, <1>i, Zenon
      <4>2. QED BY <4>1, <3>3, <2>2, <1>tg, <1>tu, PartSevered, Zenon
    <3>4. QED BY <2>3, <3>1, <3>2, <3>3, Zenon
  <2>5. Part(Broken', got' \o up', Asked')
    BY <2>1, <2>4, <1>j, Zenon
  <2>6. QED BY <2>1, <2>5, <1>0, <1>i, <1>j, ZenonT(40) DEF UpInv
<1>15. CASE UNCHANGED relayVars
  BY <1>15, <1>same, Zenon DEF relayVars
<1>16. QED
  BY <1>1, <1>2, <1>3, <1>4, <1>5, <1>6, <1>7, <1>8, <1>9, <1>10, <1>11, <1>12, <1>13, <1>14, <1>15, ZenonT(40)
     DEF RelayNext, Frontend, Copies, Server, Endpoints, Faults

\* The invariant gives the order the upstream sees.
LEMMA UpInOrder == UpInv => Cut(got, Asked)
<1> SUFFICES ASSUME UpInv PROVE Cut(got, Asked)
  BY ZenonT(30)
<1>1. got \in Seq(Item) /\ up \in Seq(Item) /\ Part(Broken, got \o up, Asked)
  BY Zenon DEF UpInv, RelayTypes
<1>2. Part(Broken, got, Asked)
  BY <1>1, PartShorter, Zenon
<1>3. QED BY <1>1, <1>2, PartIsCut, Zenon

-----------------------------------------------------------------------------
(* Towards the application. *)

\* What the application has, or will have once it is told of success.
Heard == IF fpc = "pump" THEN seen ELSE Greeting

\* Towards the application: the reply, then what the tunnel, the upstream's socket and
\* the upstream hold, cut only by the session's end or by the upstream's reset; the
\* copy reads nothing behind the end of input.
DownInv ==
    /\ RelayTypes
    /\ fpc \in {"head", "open", "opening"} => seen = <<>>
    /\ fpc # "done" => Part(Broken, Heard \o down, Told)
    /\ fpc # "done" /\ link /\ spc # "done" => (Heard \o down) \o (usock \o answers) = Told
    /\ fpc = "pump" /\ "down" \notin fdone => Unended(seen)

\* In the first state everything is still at the upstream.
LEMMA DownInit == ASSUME NEW jobs, \A j \in jobs : IsJob(j), RelayInit(jobs) PROVE DownInv
<1>1. RelayTypes
  BY TypesInit, Zenon
<1>2. IsJob(job)
  BY <1>1, Zenon DEF RelayTypes
<1>3. /\ fpc = "head" /\ seen = <<>> /\ down = <<>> /\ usock = <<>> /\ answers = job.answers \o <<"fin">>
  BY Zenon DEF RelayInit
<1>4. Heard = Greeting
  <2>1. fpc # "pump"
    BY <1>3, ZenonT(30)
  <2>2. QED BY <2>1, Zenon DEF Heard
<1>g. Greeting \in Seq(Item)
  BY <1>2, AskedType, Zenon
<1>a. answers \in Seq(Item)
  BY <1>1, Zenon DEF RelayTypes
<1>5. Heard \o down = Greeting
  BY <1>3, <1>4, <1>g, NoneJoined, Zenon
<1>6. usock \o answers = answers
  BY <1>3, <1>a, NoneJoined, Zenon
<1>7. Greeting \o answers = Told
  <2>1. job.answers \in Seq(Item) /\ <<"fin">> \in Seq(Item)
    BY <1>2, AskedType, Zenon
  <2>2. (Greeting \o job.answers) \o <<"fin">> = Greeting \o (job.answers \o <<"fin">>)
    BY <2>1, <1>g, Assoc, Zenon
  <2>3. QED BY <2>2, <1>3, Zenon DEF Told
<1>8. (Heard \o down) \o (usock \o answers) = Told
  BY <1>5, <1>6, <1>7, Zenon
<1>9. Whole(Heard \o down, Told)
  BY <1>5, <1>7, <1>a, Zenon DEF Whole
<1>10. QED BY <1>1, <1>3, <1>8, <1>9, Zenon DEF DownInv, Part, Unended

\* Every step keeps the answers together; that the reply comes first is ReplyInv.
LEMMA DownStep == ReplyInv /\ DownInv /\ [RelayNext \/ LinkDies]_relayVars => DownInv'
<1> SUFFICES ASSUME ReplyInv, DownInv, [RelayNext \/ LinkDies]_relayVars PROVE DownInv'
  BY Zenon
<1>0. RelayTypes'
  BY TypesStep, Zenon DEF DownInv
<1>t. /\ IsJob(job) /\ faults \in Nat
      /\ answers \in Seq(Item) /\ usock \in Seq(Item) /\ down \in Seq(Item) /\ seen \in Seq(Item)
  BY Zenon DEF DownInv, RelayTypes
<1>td. down \in Seq(Item)
  BY <1>t, Zenon
<1>tu. usock \in Seq(Item)
  BY <1>t, Zenon
<1>ta. answers \in Seq(Item)
  BY <1>t, Zenon
<1>th. Heard \in Seq(Item)
  BY <1>t, AskedType, Zenon DEF Heard
<1>i. /\ fpc \in {"head", "open", "opening"} => seen = <<>>
      /\ fpc # "done" => Part(Broken, Heard \o down, Told)
      /\ fpc # "done" /\ link /\ spc # "done" => (Heard \o down) \o (usock \o answers) = Told
      /\ fpc = "pump" /\ "down" \notin fdone => Unended(seen)
  BY Zenon DEF DownInv
<1>j. job' = job /\ Told' = Told /\ Greeting' = Greeting
  <2>1. job' = job
    BY Zenon DEF RelayNext, Frontend, Copies, Server, Endpoints, Faults, LinkDies, relayVars,
     AppSends, UpstreamSends, SocksRequest, HttpHead, TakeHead, BadRequest, OpenStream, Opened, OpenFails,
     FrontUp, FrontDown, FrontEnds, FrontBreaks, AppResets, Resolve, DialSucceeds, DialFails, ServerEnds,
     ServerBreaks, ServerUp, ServerDown, UpstreamResets
  <2>2. QED BY <2>1, Zenon DEF Told, Greeting
<1>hd. Heard \o down \in Seq(Item)
  BY <1>th, <1>td, WordSeqs, Zenon
<1>ua. usock \o answers \in Seq(Item)
  BY <1>tu, <1>ta, WordSeqs, Zenon
<1>p. ASSUME faults' = faults \/ faults' = faults + 1, link' => link, fpc # "done"
      PROVE  Part(Broken', Heard \o down, Told)
  <2>1. Broken > 0 => Broken' > 0
    BY <1>p, <1>t, BrokenLater, Zenon
  <2>2. QED BY <2>1, <1>i, <1>p, PartLater, Zenon
<1>b. ASSUME faults' = faults + 1
      PROVE  Broken' > 0
  <2>1. 1 > 0 /\ faults + 1 > 0
    BY <1>t, SMTT(30)
  <2>2. QED BY <2>1, <1>b, Zenon DEF Broken
<1> USE DEF Upward, Downward
\* The frontend's task ends: nothing is claimed any more.
<1>over. ASSUME fpc' = "done" PROVE DownInv'
  <2>1. fpc' \notin {"head", "open", "opening"} /\ fpc' # "pump"
    BY <1>over, ZenonT(30)
  <2>2. QED BY <1>over, <2>1, <1>0, Zenon DEF DownInv
\* It goes on and nothing of this direction changes, or only the server's task's place.
<1>same. ASSUME UNCHANGED <<down, usock, answers>>, fpc # "done", link' = link, faults' = faults,
                fpc' \in {"head", "open", "opening"} => seen' = <<>>,
                Heard' = Heard, spc' # "done" => spc # "done",
                fpc' = "pump" /\ "down" \notin fdone' => Unended(seen')
         PROVE  DownInv'
  <2>1. Heard' \o down' = Heard \o down /\ usock' \o answers' = usock \o answers
    BY <1>same, Zenon
  <2>2. Part(Broken', Heard' \o down', Told')
    BY <1>same, <2>1, <1>p, <1>j, Zenon
  <2>3. (link' /\ spc' # "done") => (Heard' \o down') \o (usock' \o answers') = Told'
    BY <1>same, <2>1, <1>i, <1>j, Zenon
  <2>4. QED BY <1>same, <2>2, <2>3, <1>0, Zenon DEF DownInv
<1>h. ASSUME seen' = seen, fpc' = fpc \/ (fpc # "pump" /\ fpc' # "pump") PROVE Heard' = Heard
  BY <1>h, <1>j, Zenon DEF Heard
\* The frontend's task is at rest.
<1>rest. ASSUME fpc' = fpc, fpc = "done" PROVE DownInv'
  BY <1>rest, <1>over, Zenon
\* Of what the application has and of its copy's place, nothing is lost.
<1>u. ASSUME seen' = seen, fpc' = fpc, "down" \notin fdone' => "down" \notin fdone
      PROVE  fpc' = "pump" /\ "down" \notin fdone' => Unended(seen')
  BY <1>u, <1>i, Zenon
<1>1. CASE AppSends \/ FrontUp \/ Resolve \/ DialSucceeds \/ DialFails \/ ServerUp \/ ServerEnds \/ ServerBreaks
  <2>1. UNCHANGED <<seen, down, usock, answers, fpc, link, faults>>
    BY <1>1, Zenon DEF AppSends, FrontUp, Resolve, DialSucceeds, DialFails, ServerUp, ServerEnds, ServerBreaks
  <2>u. "down" \notin fdone' => "down" \notin fdone
    BY <1>1, Zenon DEF AppSends, FrontUp, Resolve, DialSucceeds, DialFails, ServerUp, ServerEnds, ServerBreaks
  <2>2. spc' # "done" => spc # "done"
    <3>1. "resolve" # "done" /\ "dial" # "done" /\ "pump" # "done"
      BY SMTT(30)
    <3>2. QED BY <1>1, <3>1, Zenon
            DEF AppSends, FrontUp, Resolve, DialSucceeds, DialFails, ServerUp, ServerEnds, ServerBreaks
  <2>3. Heard' = Heard
    BY <2>1, <1>h, Zenon
  <2>4. fpc' \in {"head", "open", "opening"} => seen' = <<>>
    BY <2>1, <1>i, Zenon
  <2>5. fpc' = "pump" /\ "down" \notin fdone' => Unended(seen')
    BY <2>1, <2>u, <1>u, Zenon
  <2>6. QED BY <2>1, <2>2, <2>3, <2>4, <2>5, <1>same, <1>rest, ZenonT(40)
<1>2. CASE UpstreamSends
  <2>1. /\ answers # <<>> /\ usock' = Append(usock, Head(answers)) /\ answers' = Tail(answers)
        /\ UNCHANGED <<seen, down, fpc, spc, link, faults, fdone>>
    BY <1>2, Zenon DEF UpstreamSends
  <2>2. usock' \o answers' = usock \o answers
    BY <2>1, <1>tu, <1>ta, Passed, Zenon
  <2>3. Heard' = Heard
    BY <2>1, <1>h, Zenon
  <2>4. fpc' # "done" => Part(Broken', Heard' \o down', Told')
    BY <2>1, <2>3, <1>p, <1>j, Zenon
  <2>5. QED BY <2>1, <2>2, <2>3, <2>4, <1>0, <1>i, <1>j, <1>u, Zenon DEF DownInv
<1>3. CASE SocksRequest \/ HttpHead
  <2>1. fpc = "head" /\ fpc' = "open" /\ UNCHANGED <<seen, down, usock, answers, link, spc, faults>>
    BY <1>3, Zenon DEF SocksRequest, HttpHead, TakeHead
  <2>2. fpc # "pump" /\ fpc' # "pump" /\ fpc # "done"
    BY <2>1, SMTT(30)
  <2>3. seen' = <<>>
    BY <2>1, <1>i, Zenon
  <2>4. QED BY <2>1, <2>2, <2>3, <1>h, <1>same, Zenon
<1>4. CASE BadRequest \/ FrontEnds \/ FrontBreaks \/ AppResets
  BY <1>4, <1>over, Zenon DEF BadRequest, FrontEnds, FrontBreaks, AppResets
<1>5. CASE OpenStream
  <2>1. CASE link
    <3>1. /\ fpc = "open" /\ fpc' = "opening" /\ spc' = "resolve"
          /\ UNCHANGED <<seen, down, usock, answers, link, faults>>
      BY <1>5, <2>1, Zenon DEF OpenStream
    <3>2. fpc # "pump" /\ fpc' # "pump" /\ fpc # "done"
      BY <3>1, SMTT(30)
    <3>3. spc # "done"
      <4>1. spc = "idle"
        BY <3>1, Zenon DEF ReplyInv
      <4>2. QED BY <4>1, SMTT(30)
    <3>4. seen' = <<>>
      BY <3>1, <1>i, Zenon
    <3>5. QED BY <3>1, <3>2, <3>3, <3>4, <1>h, <1>same, Zenon
  <2>2. CASE ~link
    BY <1>5, <2>2, <1>over, Zenon DEF OpenStream, Refuse
  <2>3. QED BY <2>1, <2>2, Zenon
<1>6. CASE Opened
  <2>1. CASE ack = "ok"
    <3>1. /\ fpc = "opening" /\ fpc' = "pump" /\ UNCHANGED <<down, usock, answers, link, spc, faults>>
          /\ seen' = IF job.front = "absolute" THEN seen ELSE Append(seen, "ok")
      BY <1>6, <2>1, Zenon DEF Opened
    <3>2. seen = <<>>
      BY <3>1, <1>i, Zenon
    <3>3. Append(<<>>, "ok") = <<"ok">>
      BY SMTT(30)
    <3>4. seen' = Greeting
      BY <3>1, <3>2, <3>3, Zenon DEF Greeting
    <3>5. fpc # "pump" /\ fpc # "done" /\ fpc' \notin {"head", "open", "opening"}
      BY <3>1, SMTT(30)
    <3>6. Heard' = Heard
      BY <3>1, <3>4, <3>5, Zenon DEF Heard
    <3>7. Unended(seen')
      <4>1. "ok" \in Item /\ "ok" # "fin"
        BY WordItems, Zenon DEF Words
      <4>2. <<>> \in Seq(Item)
        BY WordSeqs, Zenon
      <4>3. Unended(Append(<<>>, "ok"))
        BY <4>1, <4>2, UnendedAppend, Zenon
      <4>4. Unended(<<>>)
        BY Zenon DEF Unended
      <4>5. QED BY <3>1, <3>2, <4>3, <4>4, Zenon
    <3>8. QED BY <3>1, <3>5, <3>6, <3>7, <1>same, Zenon
  <2>2. CASE ack # "ok"
    BY <1>6, <2>2, <1>over, Zenon DEF Opened, Refuse
  <2>3. QED BY <2>1, <2>2, Zenon
<1>7. CASE OpenFails
  BY <1>7, <1>over, Zenon DEF OpenFails, Refuse
<1>8. CASE FrontDown
  <2>1. /\ fpc = "pump" /\ fpc' = fpc /\ down # <<>> /\ seen' = Append(seen, Head(down)) /\ down' = Tail(down)
        /\ UNCHANGED <<usock, answers, link, spc, faults>>
    BY <1>8, Zenon DEF FrontDown
  <2>2. Heard = seen /\ Heard' = seen'
    BY <2>1, Zenon DEF Heard
  <2>3. Heard' \o down' = Heard \o down
    <3>1. seen \in Seq(Item)
      BY <1>t, Zenon
    <3>2. Append(seen, Head(down)) \o Tail(down) = seen \o down
      BY <3>1, <2>1, <1>td, Passed, Zenon
    <3>3. QED BY <3>2, <2>1, <2>2, Zenon
  <2>4. fpc' \notin {"head", "open", "opening"}
    BY <2>1, SMTT(30)
  <2>5. "down" \notin fdone' => Unended(seen')
    <3>1. "down" \notin fdone' => Head(down) # "fin"
      BY <1>8, Zenon DEF FrontDown
    <3>2. QED BY <3>1, <2>1, <1>t, WordSeqs, UnendedAppend, Zenon
  <2>6. fpc # "done"
    BY <2>1, SMTT(30)
  <2>7. Part(Broken', Heard' \o down', Told')
    BY <2>1, <2>3, <2>6, <1>p, <1>j, Zenon
  <2>8. (link' /\ spc' # "done") => (Heard' \o down') \o (usock' \o answers') = Told'
    BY <2>1, <2>3, <2>6, <1>i, <1>j, Zenon
  <2>9. QED BY <2>4, <2>5, <2>7, <2>8, <1>0, Zenon DEF DownInv
<1>9. CASE ServerDown
  <2>1. /\ spc = "pump" /\ usock # <<>> /\ down' = Written(down, Head(usock)) /\ usock' = Tail(usock)
        /\ UNCHANGED <<seen, answers, link, spc, faults, fpc, fdone>>
    BY <1>9, Zenon DEF ServerDown
  <2>2. Heard' = Heard
    BY <2>1, <1>h, Zenon
  <2>l. CASE fpc # "done" /\ ~link
    <3>1. down' = down
      BY <2>1, <2>l, Zenon DEF Written
    <3>2. Part(Broken', Heard' \o down', Told')
      BY <3>1, <2>1, <2>2, <2>l, <1>p, <1>j, Zenon
    <3>3. fpc' \in {"head", "open", "opening"} => seen' = <<>>
      BY <2>1, <1>i, Zenon
    <3>4. QED BY <3>2, <3>3, <2>1, <2>l, <1>0, <1>u, Zenon DEF DownInv
  <2>3. CASE fpc # "done" /\ link
    <3>0. down' = Append(down, Head(usock))
      BY <2>1, <2>3, Zenon DEF Written
    <3>1. spc # "done"
      BY <2>1, SMTT(30)
    <3>2. (Heard \o down) \o (usock \o answers) = Told
      BY <2>3, <3>1, <1>i, Zenon
    <3>3. Head(usock) \in Item /\ <<Head(usock)>> \in Seq(Item)
      BY <2>1, <1>tu, WordSeqs, Zenon
    <3>4. Heard \o down' = Append(Heard \o down, Head(usock))
      <4>1. down' = down \o <<Head(usock)>>
        BY <3>0, <3>3, <1>td, AppendJoins, Zenon
      <4>2. Append(Heard \o down, Head(usock)) = (Heard \o down) \o <<Head(usock)>>
        BY <3>3, <1>hd, AppendJoins, Zenon
      <4>3. (Heard \o down) \o <<Head(usock)>> = Heard \o (down \o <<Head(usock)>>)
        <5>1. <<Head(usock)>> \in Seq(Item)
          BY <3>3, Zenon
        <5>2. QED BY <5>1, <1>th, <1>td, Assoc, Zenon
      <4>4. QED BY <4>1, <4>2, <4>3, Zenon
    <3>5. down' \in Seq(Item) /\ usock' \in Seq(Item)
      BY <1>0, Zenon DEF RelayTypes
    <3>6. Heard \o down' \in Seq(Item) /\ usock' \o answers \in Seq(Item)
      BY <3>5, <1>th, <1>ta, WordSeqs, Zenon
    <3>7. (Heard \o down') \o usock' = (Heard \o down) \o usock
      <4>1. usock # <<>>
        BY <2>1, Zenon
      <4>2. Append(Heard \o down, Head(usock)) \o Tail(usock) = (Heard \o down) \o usock
        BY <4>1, <1>hd, <1>tu, Passed, Zenon
      <4>3. QED BY <4>2, <3>4, <2>1, Zenon
    <3>8. (Heard \o down') \o (usock' \o answers) = Told
      <4>1. Heard \o down' \in Seq(Item) /\ usock' \in Seq(Item)
        BY <3>5, <3>6, Zenon
      <4>2. ((Heard \o down') \o usock') \o answers = (Heard \o down') \o (usock' \o answers)
        BY <4>1, <1>ta, Assoc, Zenon
      <4>3. ((Heard \o down) \o usock) \o answers = (Heard \o down) \o (usock \o answers)
        BY <1>hd, <1>tu, <1>ta, Assoc, Zenon
      <4>4. QED BY <4>2, <4>3, <3>2, <3>7, Zenon
    <3>9. (Heard' \o down') \o (usock' \o answers') = Told' /\ Whole(Heard' \o down', Told')
      BY <3>6, <3>8, <2>1, <2>2, <1>j, Zenon DEF Whole
    <3>10. Part(Broken', Heard' \o down', Told')
      BY <3>9, Zenon DEF Part
    <3>11. fpc' \in {"head", "open", "opening"} => seen' = <<>>
      BY <2>1, <1>i, Zenon
    <3>12. QED BY <3>9, <3>10, <3>11, <2>1, <1>0, <1>u, Zenon DEF DownInv
  <2>4. CASE fpc = "done"
    BY <2>1, <2>4, <1>rest, Zenon
  <2>5. QED BY <2>l, <2>3, <2>4, Zenon
<1>10. CASE UpstreamResets
  <2>1. /\ spc = "pump" /\ spc' = "done" /\ down' = Written(down, "fin") /\ faults' = faults + 1
        /\ UNCHANGED <<seen, fpc, link, fdone>>
    BY <1>10, Zenon DEF UpstreamResets, Fault
  <2>2. Heard' = Heard
    BY <2>1, <1>h, Zenon
  <2>l. CASE fpc # "done" /\ ~link
    <3>1. down' = down
      BY <2>1, <2>l, Zenon DEF Written
    <3>2. Part(Broken', Heard' \o down', Told')
      BY <3>1, <2>1, <2>2, <2>l, <1>p, <1>j, Zenon
    <3>3. fpc' \in {"head", "open", "opening"} => seen' = <<>>
      BY <2>1, <1>i, Zenon
    <3>4. QED BY <3>2, <3>3, <2>1, <2>l, <1>0, <1>u, Zenon DEF DownInv
  <2>3. CASE fpc # "done" /\ link
    <3>0. down' = Append(down, "fin")
      BY <2>1, <2>3, Zenon DEF Written
    <3>1. spc # "done"
      BY <2>1, SMTT(30)
    <3>2. Whole(Heard \o down, Told)
      BY <2>3, <3>1, <1>i, <1>ua, Zenon DEF Whole
    <3>3. "fin" \in Item /\ <<"fin">> \in Seq(Item)
      BY <1>t, AskedType, Zenon
    <3>4. Heard \o down' = Append(Heard \o down, "fin")
      <4>1. down' = down \o <<"fin">>
        BY <3>0, <3>3, <1>td, AppendJoins, Zenon
      <4>2. Append(Heard \o down, "fin") = (Heard \o down) \o <<"fin">>
        BY <3>3, <1>hd, AppendJoins, Zenon
      <4>3. (Heard \o down) \o <<"fin">> = Heard \o (down \o <<"fin">>)
        <5>1. <<"fin">> \in Seq(Item)
          BY <3>3, Zenon
        <5>2. QED BY <5>1, <1>th, <1>td, Assoc, Zenon
      <4>4. QED BY <4>1, <4>2, <4>3, Zenon
    <3>5. Part(Broken', Append(Heard \o down, "fin"), Told)
      BY <3>2, <2>1, <1>b, <1>hd, PartEnded, Zenon
    <3>6. Part(Broken', Heard' \o down', Told')
      BY <3>4, <3>5, <2>1, <2>2, <1>j, Zenon
    <3>7. fpc' \in {"head", "open", "opening"} => seen' = <<>>
      BY <2>1, <1>i, Zenon
    <3>8. QED BY <2>1, <3>6, <3>7, <1>0, <1>u, Zenon DEF DownInv
  <2>4. CASE fpc = "done"
    BY <2>1, <2>4, <1>rest, Zenon
  <2>5. QED BY <2>l, <2>3, <2>4, Zenon
<1>11. CASE LinkDies
  <2>1. link' = FALSE /\ UNCHANGED <<seen, fpc, fdone>>
    BY <1>11, LinkCuts, Zenon
  <2>2. Heard' = Heard
    BY <2>1, <1>h, Zenon
  <2>3. Broken' > 0
    <3>1. 1 > 0
      BY SMTT(30)
    <3>2. QED BY <3>1, <2>1, Zenon DEF Broken
  <2>4. \/ down' = <<>>
        \/ fpc = "pump" /\ down' \in Stranded(down)
        \/ fpc = "pump" /\ down' \in Severed(down) /\ "down" \notin fdone
    BY <1>11, LinkCuts, Zenon
  <2>5. ASSUME fpc # "done" PROVE Part(Broken', Heard \o down', Told)
    <3>0. Part(Broken, Heard \o down, Told)
      BY <2>5, <1>i, Zenon
    <3>1. CASE down' = <<>>
      <4>1. Heard \o down' = Heard
        BY <3>1, <1>th, NoneJoined, Zenon
      <4>2. Part(Broken, Heard, Told)
        BY <3>0, <1>th, <1>td, PartShorter, Zenon
      <4>3. QED BY <4>1, <4>2, <2>3, PartLater, Zenon
    <3>2. CASE down' \in Stranded(down)
      <4>1. Part(Broken, Heard \o down', Told)
        BY <3>0, <3>2, <1>th, <1>td, PartStranded, Zenon
      <4>2. QED BY <4>1, <2>3, PartLater, Zenon
    <3>3. CASE fpc = "pump" /\ down' \in Severed(down) /\ "down" \notin fdone
      <4>1. Unended(Heard)
        BY <3>3, <1>i, Zenon DEF Heard
      <4>2. QED BY <4>1, <3>0, <3>3, <2>3, <1>th, <1>td, PartSevered, Zenon
    <3>4. QED BY <2>4, <3>1, <3>2, <3>3, Zenon
  <2>6. fpc' # "done" => Part(Broken', Heard' \o down', Told')
    BY <2>1, <2>2, <2>5, <1>j, Zenon
  <2>7. QED BY <2>1, <2>6, <1>0, <1>i, <1>u, Zenon DEF DownInv
<1>12. CASE UNCHANGED relayVars
  <2>1. UNCHANGED <<seen, down, usock, answers, fpc, link, faults, spc, fdone>>
    BY <1>12, Zenon DEF relayVars
  <2>2. Heard' = Heard
    BY <2>1, <1>h, Zenon
  <2>3. fpc' \in {"head", "open", "opening"} => seen' = <<>>
    BY <2>1, <1>i, Zenon
  <2>4. fpc' = "pump" /\ "down" \notin fdone' => Unended(seen')
    BY <2>1, <1>u, Zenon
  <2>5. QED BY <2>1, <2>2, <2>3, <2>4, <1>same, <1>rest, Zenon
<1>13. QED
  BY <1>1, <1>2, <1>3, <1>4, <1>5, <1>6, <1>7, <1>8, <1>9, <1>10, <1>11, <1>12, ZenonT(40)
     DEF RelayNext, Frontend, Copies, Server, Endpoints, Faults

\* The invariant gives the order the application sees.
LEMMA DownInOrder == DownInv /\ fpc = "pump" => Cut(seen, Told)
<1> SUFFICES ASSUME DownInv, fpc = "pump" PROVE Cut(seen, Told)
  OBVIOUS
<1>1. seen \in Seq(Item) /\ down \in Seq(Item)
  BY Zenon DEF DownInv, RelayTypes
<1>2. fpc # "done"
  OBVIOUS
<1>3. Part(Broken, seen \o down, Told)
  BY <1>2, Zenon DEF DownInv, Heard
<1>4. Part(Broken, seen, Told)
  BY <1>1, <1>3, PartShorter, Zenon
<1>5. QED BY <1>1, <1>4, PartIsCut, Zenon

-----------------------------------------------------------------------------
(* The relay in the composition. *)

\* A connection starts as one of the instance's jobs, with nothing decided or moved.
LEMMA RelayBegins == Init => RouteInv /\ ReplyInv /\ UpInv /\ DownInv
<1> SUFFICES ASSUME Init PROVE RouteInv /\ ReplyInv /\ UpInv /\ DownInv
  OBVIOUS
<1>1. PICK scene \in Scenes : RelayInit(scene.jobs)
  BY Zenon DEF Init
<1>2. \A j \in scene.jobs : IsJob(j)
  BY JobsAssumption, Zenon
<1>3. RouteInv
  BY <1>1, <1>2, Zenon DEF RouteInv, RouteRight, RelayInit
<1>4. ReplyInv /\ UpInv /\ DownInv
  BY <1>1, <1>2, ReplyInit, UpInit, DownInit, Zenon
<1>5. QED
  BY <1>3, <1>4, Zenon

\* The gate and the association touch the relay only by cutting its session.
LEMMA RelaySteps == [Next]_vars => [RelayNext \/ LinkDies]_relayVars
<1>1. CASE AtGate(GateNext)
  BY <1>1, Zenon DEF AtGate, StreamsCut
<1>2. CASE InRelay(RelayNext)
  BY <1>2, Zenon DEF InRelay
<1>3. CASE InUdp(UdpNext)
  BY <1>3, Zenon DEF InUdp
<1>4. CASE UNCHANGED vars
  BY <1>4, Zenon DEF vars
<1>5. QED
  BY <1>1, <1>2, <1>3, <1>4, Zenon DEF Next

\* Router::resolve keeps the promise of the configuration for the target of every
\* connection, whatever the routes, patterns and policy are.
THEOREM RelayRouteRight == Spec => []RouteRight
<1>1. RouteInv => RouteRight
  BY Zenon DEF RouteInv
<1>2. QED
  BY <1>1, RelayBegins, RelaySteps, RouteStep, PTL DEF Spec

\* The application is told what happened at the far end, and nothing before it
\* happened (serve_connect, socks_error_code, handle_stream).
THEOREM RelayReplyHonest == Spec => []ReplyHonest
<1>1. QED
  BY ReplyHonestly, RelayBegins, RelaySteps, ReplyStep, PTL DEF Spec

\* Each end receives what the other sent, in order, nothing twice and nothing left
\* out, cut short only by a fault or by the session's death, for any data, any sockets'
\* capacity and any number of faults (serve_http, serve_connect, copy_bidirectional,
\* inbound_pump on Abort).
THEOREM RelayThroughInOrder == Spec => []ThroughInOrder
<1>1. UpInv /\ DownInv => ThroughInOrder
  <2> SUFFICES ASSUME UpInv, DownInv PROVE ThroughInOrder
    OBVIOUS
  <2>1. Cut(got, (IF job.front = "absolute" THEN <<"rewritten">> ELSE <<>>) \o job.asks \o <<"fin">>)
    BY UpInOrder, Zenon DEF Asked
  <2>2. ASSUME fpc = "pump"
        PROVE  Cut(seen, (IF job.front = "absolute" THEN <<>> ELSE <<"ok">>) \o job.answers \o <<"fin">>)
    BY <2>2, DownInOrder, Zenon DEF Told, Greeting
  <2>3. QED
    BY <2>1, <2>2, Zenon DEF ThroughInOrder
<1>2. QED
  BY <1>1, RelayBegins, RelaySteps, ReplyStep, UpStep, DownStep, PTL DEF Spec
=============================================================================
