---------------------------------- MODULE Edge ----------------------------------
(***************************************************************************)
(* The server's edge as a whole: connections pass WsGate; on the session   *)
(* of one of them, the tunnel, an application's connection is relayed      *)
(* (Relay) and a UDP association runs (UdpRelay).  The session's end is    *)
(* the event the three share.                                              *)
(***************************************************************************)
EXTENDS WsGate, Relay, UdpRelay

CONSTANTS
    Tunnel,  \* the connection that carries the streams
    Scenes   \* what happens in an instance: peers, modes, jobs, uses

ASSUME ScenesAssumption ==
    \A scene \in Scenes : scene.peers \subseteq [Conns -> Peers] /\ scene.modes \subseteq Modes
ASSUME JobsAssumption == \A scene \in Scenes : \A j \in scene.jobs : IsJob(j)

VARIABLE uses    \* which of "relay" and "udp" run on the tunnel; fixed
vars == <<uses, gateVars, relayVars, udpVars>>

Init ==
    \E scene \in Scenes :
        /\ uses = scene.uses /\ GateInit(scene.peers, scene.modes)
        /\ RelayInit(scene.jobs) /\ UdpInit

\* Streams are opened on the tunnel once it is a session (MuxSession::start), native
\* or bridged.
Serving == gate[Tunnel] \in {"native", "bridged"}

\* A connection's session ends: for the tunnel, its streams end with it.
StreamsCut ==
    IF Serving /\ gate'[Tunnel] = "closed" THEN LinkDies /\ WireDies ELSE UNCHANGED <<relayVars, udpVars>>

AtGate(step) == step /\ StreamsCut /\ UNCHANGED uses
InRelay(step) ==
    /\ "relay" \in uses /\ (Serving \/ ~link)
    /\ step /\ UNCHANGED <<uses, gateVars, udpVars>>
InUdp(step) ==
    /\ "udp" \in uses /\ (Serving \/ ~wire)
    /\ step /\ UNCHANGED <<uses, gateVars, relayVars>>

Next == AtGate(GateNext) \/ InRelay(RelayNext) \/ InUdp(UdpNext)

\* The runtime does not stop: as long as some task of a connection, of the relay or of
\* the association can go on by itself, one of them does.  (The data being finite,
\* nothing is gained by asking it of each task.)  The deadline ends an exchange that
\* goes nowhere; a browser that is told to close does; the application and the
\* upstream say what they have to say.
Fairness ==
    /\ \A c \in Conns : WF_vars(AtGate(Runs(c)))
    /\ WF_vars(InRelay(RelayRuns))
    /\ WF_vars(InUdp(UdpRuns))

Spec == Init /\ [][Next]_vars /\ Fairness
=============================================================================
