-------------------------------- MODULE UdpRelay --------------------------------
(***************************************************************************)
(* A SOCKS5 UDP association: serve_udp_associate and relay_udp_association *)
(* on the client (socks5.rs), handle_udp_relay on the server (server.rs),  *)
(* two tasks each, joined by one tunnel stream of framed datagrams.  A     *)
(* datagram is its source and whether its header can be forwarded; the     *)
(* frame codec keeps boundaries, so a frame is one datagram.               *)
(***************************************************************************)
EXTENDS TunnelPipe

CONSTANTS
    Sources,  \* local addresses that send to the association's socket
    MaxGrams  \* bound: datagrams sent in each direction

VARIABLES
    wire,           \* the tunnel's session is alive
    ctrl,           \* the application keeps the control connection open
    upc, inbound,   \* the association's loop; its task for replies
    rpc, responder, \* handle_udp_relay's loop; its task for replies
    peer,           \* {} until the first datagram names the association's client
    out, back,      \* frames in the tunnel, each way
    stuck,          \* history: those of the two whose reader was not told of the session's end
    sent, reached,  \* sources of the datagrams sent on; addresses replied to
    grams           \* datagrams so far, each way

udpVars == <<wire, ctrl, upc, inbound, rpc, responder, peer, out, back, stuck, sent, reached, grams>>

UdpInit ==
    /\ wire = TRUE /\ ctrl = TRUE /\ upc = "open" /\ inbound = FALSE
    /\ rpc = "idle" /\ responder = FALSE /\ peer = {} /\ out = <<>> /\ back = <<>> /\ stuck = {}
    /\ sent = {} /\ reached = {} /\ grams = [up |-> 0, down |-> 0]

-----------------------------------------------------------------------------
(* The client's side. *)

UdpOpens ==
    /\ upc = "open" /\ rpc = "idle"
    /\ IF wire THEN upc' = "opening" /\ rpc' = "bind" ELSE upc' = "over" /\ UNCHANGED rpc
    /\ UNCHANGED <<wire, ctrl, inbound, responder, peer, out, back, stuck, sent, reached, grams>>

\* The stream is accepted and the local socket bound; the bind may fail, and the
\* stream is then dropped: its pump sends FIN.
UdpStarts ==
    /\ upc = "opening" /\ wire /\ rpc \in {"relay", "over"}
    /\ \/ upc' = "relay" /\ inbound' = TRUE /\ UNCHANGED out
       \/ upc' = "over" /\ out' = Append(out, "fin") /\ UNCHANGED inbound
    /\ UNCHANGED <<wire, ctrl, rpc, responder, peer, back, stuck, sent, reached, grams>>
UdpRefused ==
    /\ upc = "opening" /\ (rpc = "refused" \/ ~wire) /\ upc' = "over"
    /\ UNCHANGED <<wire, ctrl, inbound, rpc, responder, peer, out, back, stuck, sent, reached, grams>>

\* Mutant: the latest source becomes the client.
LatchedLast(src) == {src}
Latched(src) == IF peer = {} THEN {src} ELSE peer

\* A local datagram: the first source becomes the client, others are dropped, and so
\* are fragments and headers that do not parse; on a dead tunnel the frame is lost, or
\* its write fails and the loop ends.
LocalDatagram(src, fits) ==
    /\ upc = "relay" /\ grams.up < MaxGrams /\ grams' = [grams EXCEPT !.up = @ + 1]
    /\ peer' = Latched(src)
    /\ IF src \in peer' /\ fits
       THEN \/ out' = (IF wire THEN Append(out, src) ELSE out) /\ UNCHANGED <<upc, inbound>>
            \/ ~wire /\ upc' = "over" /\ inbound' = FALSE /\ UNCHANGED out
       ELSE UNCHANGED <<upc, inbound, out>>
    /\ UNCHANGED <<wire, ctrl, rpc, responder, back, stuck, sent, reached>>

\* Mutant: the stream is not shut down.
UdpClosesNoFin ==
    /\ upc = "relay" /\ ~ctrl /\ upc' = "over" /\ inbound' = FALSE
    /\ UNCHANGED <<wire, ctrl, rpc, responder, peer, out, back, stuck, sent, reached, grams>>
\* The loop is left: FIN, and the reply task is aborted.
UdpLeaves ==
    /\ upc = "relay" /\ upc' = "over" /\ inbound' = FALSE
    /\ out' = IF wire THEN Append(out, "fin") ELSE out
    /\ UNCHANGED <<wire, ctrl, rpc, responder, peer, back, stuck, sent, reached, grams>>
\* The control connection closes; or the local socket fails.  Nothing else ends the
\* loop of an idle association.
UdpCloses == ~ctrl /\ UdpLeaves
UdpSocketFails == ctrl /\ UdpLeaves

\* A frame from the server goes to the client, if there is one yet; a failed send and
\* EOF end the task, but not the association's loop.
InboundFrame ==
    /\ inbound /\ back # <<>> /\ back' = Tail(back)
    /\ \/ Head(back) = "fin" /\ inbound' = FALSE /\ UNCHANGED reached
       \/ Head(back) # "fin" /\ reached' = reached \cup peer /\ UNCHANGED inbound
       \/ Head(back) # "fin" /\ peer # {} /\ inbound' = FALSE /\ UNCHANGED reached
    /\ UNCHANGED <<wire, ctrl, upc, rpc, responder, peer, out, stuck, sent, grams>>

-----------------------------------------------------------------------------
(* handle_udp_relay *)

UdpBinds ==
    /\ rpc = "bind"
    /\ \/ rpc' = "relay" /\ responder' = TRUE
       \/ rpc' = "refused" /\ UNCHANGED responder
    /\ UNCHANGED <<wire, ctrl, upc, inbound, peer, out, back, stuck, sent, reached, grams>>

\* A frame becomes a datagram, sent or not; EOF ends the loop, which aborts the task.
RelayFrame ==
    /\ rpc = "relay" /\ out # <<>> /\ out' = Tail(out)
    /\ IF Head(out) = "fin" THEN rpc' = "over" /\ responder' = FALSE /\ UNCHANGED sent
       ELSE sent' = sent \cup {Head(out)} /\ UNCHANGED <<rpc, responder>>
    /\ UNCHANGED <<wire, ctrl, upc, inbound, peer, back, stuck, reached, grams>>

\* A datagram comes back; or the socket fails, and the task says FIN.  On a dead
\* tunnel neither gets anywhere, and the write may end the task.
Response ==
    /\ responder /\ grams.down < MaxGrams /\ grams' = [grams EXCEPT !.down = @ + 1]
    /\ \/ wire /\ back' = Append(back, "gram") /\ UNCHANGED responder
       \/ wire /\ back' = Append(back, "fin") /\ responder' = FALSE
       \/ ~wire /\ responder' \in BOOLEAN /\ UNCHANGED back
    /\ UNCHANGED <<wire, ctrl, upc, inbound, rpc, peer, out, stuck, sent, reached>>

-----------------------------------------------------------------------------
ControlCloses ==
    /\ ctrl /\ upc = "relay" /\ ctrl' = FALSE
    /\ UNCHANGED <<wire, upc, inbound, rpc, responder, peer, out, back, stuck, sent, reached, grams>>
\* The session is gone: an OPEN under way is lost; the streams there are end early,
\* unless the Abort is dropped.
WireDies ==
    /\ wire /\ wire' = FALSE
    /\ rpc' \in IF rpc = "bind" THEN {"bind", "refused"} ELSE {rpc}
    /\ stuck' \in SUBSET ((IF rpc' \in {"bind", "relay"} THEN {"out"} ELSE {})
                          \cup (IF inbound THEN {"back"} ELSE {}))
    /\ out' \in IF "out" \in stuck' THEN Stranded(out) ELSE Severed(out)
    /\ back' \in IF "back" \in stuck' THEN Stranded(back) ELSE Severed(back)
    /\ UNCHANGED <<ctrl, upc, inbound, responder, peer, sent, reached, grams>>

Association == UdpOpens \/ UdpStarts \/ UdpRefused \/ UdpCloses
UdpServer == UdpBinds \/ RelayFrame
UdpRuns == Association \/ InboundFrame \/ UdpServer
UdpNext ==
    \/ UdpRuns \/ UdpSocketFails \/ Response \/ ControlCloses
    \/ \E src \in Sources, fits \in BOOLEAN : LocalDatagram(src, fits)

-----------------------------------------------------------------------------
(* Properties. *)

\* An association serves one client: only its datagrams are sent on, and only it is
\* replied to (relay_udp_association).
OneClient == sent \cup reached \subseteq peer

\* The association lives as long as the control connection, and no longer: when that
\* closes all four tasks end, on both machines (relay_udp_association,
\* handle_udp_relay); when the tunnel dies the three that use it do, where the Abort
\* was not dropped.
AssociationEnds ==
    ((upc = "relay" /\ ~ctrl) \/ ~wire) ~>
        /\ ctrl \/ upc = "over"
        /\ (rpc # "relay" /\ ~responder) \/ "out" \in stuck
        /\ ~inbound \/ "back" \in stuck
=============================================================================
