--------------------------------- MODULE WsGate ---------------------------------
(***************************************************************************)
(* The server's front door: handle_conn (server.rs) admits a TLS           *)
(* connection by its certificate or hands a certificate-less one to        *)
(* handle_http_or_ws (ws.rs), which serves a page or takes one of a        *)
(* bounded number of slots, runs the challenge-response exchange and, once *)
(* it succeeds, bridges WebSocket frames to a mux session with two tasks.  *)
(* A write waits for its peer to read, and nothing limits that wait.       *)
(* Each connection is a task of its own; the slot counter is the one       *)
(* variable they share.  Signatures are what they were made over: a        *)
(* response names the challenge and the form it signs.                     *)
(***************************************************************************)
EXTENDS Naturals, FiniteSets

CONSTANTS
    Conns,      \* connections
    MaxUnauth,  \* MAX_UNAUTH_WS_CONNS
    MaxInits    \* bound: challenges asked for on one connection

ASSUME GateAssumption == IsFiniteSet(Conns) /\ MaxUnauth \in Nat \ {0} /\ MaxInits \in Nat

VARIABLES
    who,        \* who[c]: what the peer presents; fixed
    authMode,   \* "open" or "whitelist", and whether there is a WebSocket identity; fixed
    unauth,     \* UNAUTH_WS_CONNS
    gate,       \* gate[c]: where the connection's task is
    cur,        \* cur[c]: the counter as try_acquire last saw it
    chal,       \* chal[c]: challenges issued; the last is the current nonce
    proof,      \* proof[c]: the challenge whose signature was accepted, 0 for none
    bridge      \* bridge[c]: which of "reader", "session", "mux" (the session's writer
                \*   task, which holds the duplex as well) and "writer" still run, and
                \*   "peer" while the browser keeps its side open

gateVars == <<who, authMode, unauth, gate, cur, chal, proof, bridge>>

Peers == [alpn : BOOLEAN, cert : {"none", "listed", "unlisted"}, key : {"listed", "unlisted"},
          reads : BOOLEAN]
Modes == [open : BOOLEAN, ws : BOOLEAN]
Tasks == {"reader", "session", "mux", "writer"}

\* peers: a set of functions from Conns to Peers.
GateInit(peers, modes) ==
    /\ who \in peers /\ authMode \in modes
    /\ unauth = 0 /\ gate = [c \in Conns |-> "tls"] /\ cur = [c \in Conns |-> 0]
    /\ chal = [c \in Conns |-> 0] /\ proof = [c \in Conns |-> 0]
    /\ bridge = [c \in Conns |-> {}]

At(c, here) == gate[c] = here
Moves(c, there) == gate' = [gate EXCEPT ![c] = there] /\ UNCHANGED <<who, authMode>>
ExchangeKept == UNCHANGED <<chal, proof>>

-----------------------------------------------------------------------------
(* handle_conn *)

\* Fail closed: the ALPN and a certificate the mode admits.
Authorized(c) ==
    who[c].alpn /\ (who[c].cert = "listed" \/ (authMode.open /\ who[c].cert = "unlisted"))

HandleConn(c) ==
    /\ At(c, "tls")
    /\ \/ Authorized(c) /\ Moves(c, "native")
       \/ ~Authorized(c) /\ authMode.ws /\ who[c].cert = "none" /\ Moves(c, "http")
       \/ ~Authorized(c) /\ ~(authMode.ws /\ who[c].cert = "none") /\ Moves(c, "closed")
    /\ UNCHANGED <<unauth, cur, bridge>> /\ ExchangeKept

\* The native session ends (MuxSession), and wait_closed lets the task go.
NativeEnds(c) ==
    /\ At(c, "native") /\ Moves(c, "closed") /\ UNCHANGED <<unauth, cur, bridge>> /\ ExchangeKept

-----------------------------------------------------------------------------
(* handle_http_or_ws: the request head, then a slot. *)

\* No upgrade: serve_static.  A flood, an early close or a missing key: dropped.
HeadServed(c) ==
    /\ At(c, "http") /\ Moves(c, "closed") /\ UNCHANGED <<unauth, cur, bridge>> /\ ExchangeKept
HeadUpgrades(c) ==
    /\ At(c, "http") /\ Moves(c, "cas") /\ cur' = [cur EXCEPT ![c] = unauth]
    /\ UNCHANGED <<unauth, bridge>> /\ ExchangeKept

\* UnauthSlot::try_acquire.  At the cap it refuses with a 503 and never increments;
\* the exchange succeeds only on the value it compared, else it looks again.
SlotRefused(c) ==
    /\ At(c, "cas") /\ cur[c] >= MaxUnauth /\ Moves(c, "closed")
    /\ UNCHANGED <<unauth, cur, bridge>> /\ ExchangeKept
\* Mutant: an increment after the check, not a compare-exchange.
SlotTakenBlind(c) ==
    /\ At(c, "cas") /\ cur[c] < MaxUnauth
    /\ unauth' = unauth + 1 /\ Moves(c, "writes") /\ UNCHANGED <<cur, bridge>> /\ ExchangeKept
\* The 101 is the first thing written with the slot held.
SlotTaken(c) ==
    /\ At(c, "cas") /\ cur[c] < MaxUnauth /\ unauth = cur[c]
    /\ unauth' = cur[c] + 1 /\ Moves(c, "writes") /\ UNCHANGED <<cur, bridge>> /\ ExchangeKept
SlotRetried(c) ==
    /\ At(c, "cas") /\ cur[c] < MaxUnauth /\ unauth # cur[c]
    /\ cur' = [cur EXCEPT ![c] = unauth]
    /\ UNCHANGED <<who, authMode, gate, unauth, bridge>> /\ ExchangeKept

\* Drop of the slot: every way out of the function.
SlotReleased == unauth' = unauth - 1

-----------------------------------------------------------------------------
(* auth_phase: it reads in "auth", and writes in "writes" and "admits". *)

\* init: the key must be admitted; every init gets a fresh nonce, and only the
\* latest is kept.  The challenge is written back (as a pong is, to a ping).
AuthInit(c) ==
    /\ At(c, "auth")
    /\ IF authMode.open \/ who[c].key = "listed"
       THEN /\ chal[c] < MaxInits /\ chal' = [chal EXCEPT ![c] = @ + 1]
            /\ Moves(c, "writes") /\ UNCHANGED <<unauth, proof>>
       ELSE SlotReleased /\ Moves(c, "closed") /\ UNCHANGED <<chal, proof>>
    /\ UNCHANGED <<cur, bridge>>

\* Mutant: any challenge of the connection will do.
VerifiesAny(c, over, form, v) == over \in 1..chal[c] /\ (form = "transcript" \/ v < 2)
\* verify_client_sig: over the current challenge, in the transcript form, or in the
\* legacy form when the response does not claim version 2.
Verifies(c, over, form, v) == over = chal[c] /\ (form = "transcript" \/ v < 2)

\* response: needs a challenge, and a signature over the current one (over = 0: over
\* none); "ok" is written back.
AuthResponse(c, over, form, v) ==
    /\ At(c, "auth")
    /\ IF chal[c] > 0 /\ Verifies(c, over, form, v)
       THEN Moves(c, "admits") /\ proof' = [proof EXCEPT ![c] = over] /\ UNCHANGED unauth
       ELSE Moves(c, "closed") /\ SlotReleased /\ UNCHANGED proof
    /\ UNCHANGED <<cur, chal, bridge>>

\* A write gets through, at once or when the peer reads; after "ok" the function
\* starts the bridge and returns, which drops the slot.
WriteDone(c) ==
    \/ At(c, "writes") /\ Moves(c, "auth") /\ UNCHANGED <<unauth, cur, bridge>> /\ ExchangeKept
    \/ /\ At(c, "admits") /\ Moves(c, "bridged") /\ SlotReleased
       /\ bridge' = [bridge EXCEPT ![c] = Tasks \cup {"peer"}]
       /\ UNCHANGED cur /\ ExchangeKept
WriteFails(c) ==
    /\ gate[c] \in {"writes", "admits"} /\ SlotReleased /\ Moves(c, "closed")
    /\ UNCHANGED <<cur, bridge>> /\ ExchangeKept

\* Mutant: the deadline only covers the wait for init.
AuthFailsEarly(c) ==
    /\ At(c, "auth") /\ chal[c] = 0 /\ SlotReleased /\ Moves(c, "closed")
    /\ UNCHANGED <<cur, bridge>> /\ ExchangeKept
\* The deadline (of reads alone), a close, an oversized or unknown message.
AuthFails(c) ==
    /\ At(c, "auth") /\ SlotReleased /\ Moves(c, "closed")
    /\ UNCHANGED <<cur, bridge>> /\ ExchangeKept

-----------------------------------------------------------------------------
(* The bridge: ws -> duplex, the session on the duplex, duplex -> ws. *)

Stops(c, task) ==
    /\ At(c, "bridged") /\ task \in bridge[c]
    /\ bridge' = [bridge EXCEPT ![c] = @ \ {task}]
    /\ Moves(c, IF task = "session" THEN "closed" ELSE "bridged")
    /\ UNCHANGED <<unauth, cur>> /\ ExchangeKept
Lingers(c, task) ==
    /\ At(c, "closed") /\ task \in bridge[c]
    /\ bridge' = [bridge EXCEPT ![c] = @ \ {task}]
    /\ UNCHANGED <<who, authMode, unauth, gate, cur>> /\ ExchangeKept
Ends(c, task) == Stops(c, task) \/ Lingers(c, task)

\* The reader stops at a close frame or EOF, at a frame or message too long, or when
\* a write into the duplex fails: any time.  Only EOF is certain to stop it, and not
\* while it may be stuck in a write that nobody takes: the session's reader is gone
\* and its writer still holds the duplex.
ReaderEof(c) ==
    /\ Ends(c, "reader") /\ "peer" \notin bridge[c]
    /\ "session" \in bridge[c] \/ "mux" \notin bridge[c]
ReaderEnds(c) == Ends(c, "reader")
\* Mutant: the reader does not shut its side of the duplex down.
SessionEofLate(c) == Ends(c, "session") /\ {"reader", "writer"} \cap bridge[c] = {}
\* The session ends at the reader's shutdown, or by itself.
SessionEof(c) == Ends(c, "session") /\ "reader" \notin bridge[c]
SessionEnds(c) == Ends(c, "session")
\* Its writer task notices the end in a batch, or a failing write; with nothing to
\* write it does neither, and waits on its own channel for good (MuxSession).
MuxEnds(c) ==
    Ends(c, "mux") /\ ("session" \notin bridge[c] \/ {"reader", "writer"} \cap bridge[c] = {})
\* The bridge's writer stops at the duplex's EOF, which needs the mux writer to let
\* go, or when the peer is gone and a write fails.
WriterEof(c) == Ends(c, "writer") /\ "mux" \notin bridge[c]
WriterEnds(c) == WriterEof(c) \/ (Ends(c, "writer") /\ "peer" \notin bridge[c])

\* The browser closes: of its own accord, or - as it must - when told to.
PeerCloses(c) == Ends(c, "peer")
PeerAnswers(c) == PeerCloses(c) /\ "writer" \notin bridge[c]

-----------------------------------------------------------------------------
Forms == {"transcript", "legacy"}

Slot(c) == SlotRefused(c) \/ SlotTaken(c) \/ SlotRetried(c)
Admission(c) == HandleConn(c) \/ HeadServed(c) \/ HeadUpgrades(c) \/ Slot(c)
Exchange(c) ==
    \/ AuthInit(c) \/ AuthFails(c) \/ WriteDone(c) \/ WriteFails(c)
    \/ \E over \in 0..MaxInits, form \in Forms, v \in 1..2 :
           over <= chal[c] /\ AuthResponse(c, over, form, v)
Bridge(c) == ReaderEnds(c) \/ SessionEnds(c) \/ MuxEnds(c) \/ WriterEnds(c) \/ PeerCloses(c)
\* What a connection's tasks do by themselves, the deadline of the exchange included;
\* a write only towards a peer that reads, or is gone.
Runs(c) == \/ Slot(c) \/ AuthFails(c) \/ (who[c].reads /\ WriteDone(c))
           \/ ReaderEof(c) \/ SessionEof(c) \/ PeerAnswers(c)
           \/ (who[c].reads \/ "peer" \notin bridge[c]) /\ WriterEof(c)

GateNext == \E c \in Conns : Admission(c) \/ Exchange(c) \/ Bridge(c) \/ NativeEnds(c)
GateSpec == GateInit([Conns -> Peers], Modes) /\ [][GateNext]_gateVars

-----------------------------------------------------------------------------
(* Properties. *)

\* The connections whose task is between try_acquire and the drop of its slot.
Held == {"auth", "writes", "admits"}
Holders == {c \in Conns : gate[c] \in Held}

\* The counter is exactly the number of slots held and never passes its cap, however
\* the compare-exchange loops and the drops interleave: it cannot drift, so refusals
\* cannot wear the server out (UnauthSlot).
SlotsExact == unauth = Cardinality(Holders) /\ unauth <= MaxUnauth

\* A bridged session rests on a signature over the last challenge issued on its own
\* connection, by an admitted key (auth_phase); a native one on an admitted
\* certificate (handle_conn).
ProvenFirst ==
    \A c \in Conns :
        /\ gate[c] = "bridged" => /\ proof[c] > 0 /\ proof[c] = chal[c]
                                  /\ authMode.open \/ who[c].key = "listed"
        /\ gate[c] = "native" => Authorized(c)

\* A slot is given back, however little the peer says (the deadline of auth_phase),
\* except while something is being written to a peer that does not read.
SlotsReturn ==
    \A c \in Conns :
        gate[c] \in Held ~> (gate[c] \notin Held \/ (gate[c] # "auth" /\ ~who[c].reads))
\* The same without the exception, as the comment on the deadline has it ("one deadline
\* for the whole auth exchange").  (Broken by the code: it covers the reads alone.)
SlotsTimed == \A c \in Conns : gate[c] \in Held ~> gate[c] \notin Held

\* The two tasks around a session (handle_http_or_ws) neither outlive it nor keep it:
\* once the browser or the reader is gone the session ends, and once the session's
\* writer has let go of the duplex everything on a peer that reads ends.
BridgeEnds ==
    \A c \in Conns :
        /\ (gate[c] = "bridged" /\ ~({"peer", "reader"} \subseteq bridge[c])) ~>
               "session" \notin bridge[c]
        /\ (bridge[c] # {} /\ "mux" \notin bridge[c] /\ who[c].reads) ~> bridge[c] = {}
\* All of it, from the first end of any part.  (Broken by the code: the mux writer
\* parks, and the bridge's writer with it.)
BridgeGone ==
    \A c \in Conns : (gate[c] = "bridged" /\ bridge[c] # Tasks \cup {"peer"}) ~> bridge[c] = {}
=============================================================================
