--------------------------------- MODULE Relay ----------------------------------
(***************************************************************************)
(* One proxied connection from end to end: the local SOCKS5 or HTTP        *)
(* frontend (socks5.rs, httpproxy.rs), open_stream over the tunnel         *)
(* (client.rs), the server's handle_stream (server.rs) with the router's   *)
(* decision and the dial, and the two bidirectional copies.  The tunnel    *)
(* is an ordered pipe with half-close in each direction, which is what     *)
(* MuxStream is shown to provide, until its session dies: the pipe then    *)
(* ends early, and what is written into it is lost.                        *)
(***************************************************************************)
EXTENDS Router, TunnelPipe

VARIABLES
    job,      \* the frontend ("socks", or HTTP "connect" or "absolute"), the target, the
              \*   router's configuration, what each end has to say, and the bound on
              \*   connections broken, answers late and Aborts dropped; fixed
    link,     \* the tunnel's session is alive
    fpc, spc, \* the frontend's task; the server's handle_stream task
    verdict,  \* the router's decision
    ack,      \* what OPEN_ACK says: "none", "ok", "denied", "unreachable"
    asks, sock, up, got,        \* towards the upstream: to send, in the socket, in the tunnel, received
    answers, usock, down, seen, \* and back
    rest,     \* what the HTTP frontend read past the request head
    fdone, sdone,  \* the directions each copy has finished
    faults

relayVars == <<job, link, fpc, spc, verdict, ack, asks, sock, up, got,
               answers, usock, down, seen, rest, fdone, sdone, faults>>

\* The words of this model; what the two ends have to say is none of them.
Words == {"head", "rewritten", "fin", "ok", "refused", "denied", "unreachable", "general", "bad gateway"}
Data == STRING \ Words

\* A connection an instance may serve.
IsJob(j) ==
    /\ j.asks \in Seq(Data) /\ j.answers \in Seq(Data)
    /\ IsTarget(j.target) /\ IsConfig(j.cfg) /\ j.faults \in Nat

NoVerdict == [kind |-> "none", upstream |-> NoUpstream]

RelayInit(jobs) ==
    /\ job \in jobs
    /\ link = TRUE /\ fpc = "head" /\ spc = "idle" /\ verdict = NoVerdict /\ ack = "none"
    /\ asks = <<"head">> \o job.asks \o <<"fin">> /\ answers = job.answers \o <<"fin">>
    /\ sock = <<>> /\ up = <<>> /\ got = <<>> /\ usock = <<>> /\ down = <<>> /\ seen = <<>>
    /\ rest = <<>> /\ fdone = {} /\ sdone = {} /\ faults = 0

Upward == <<asks, sock, up, got>>
Downward == <<answers, usock, down, seen>>
Fault == faults < job.faults /\ faults' = faults + 1

-----------------------------------------------------------------------------
(* The two ends. *)

AppSends ==
    /\ asks # <<>> /\ sock' = Append(sock, Head(asks)) /\ asks' = Tail(asks)
    /\ UNCHANGED <<job, link, fpc, spc, verdict, ack, up, got, Downward, rest, fdone, sdone, faults>>
UpstreamSends ==
    /\ spc = "pump" /\ answers # <<>> /\ usock' = Append(usock, Head(answers)) /\ answers' = Tail(answers)
    /\ UNCHANGED <<job, link, fpc, spc, verdict, ack, Upward, down, seen, rest, fdone, sdone, faults>>

-----------------------------------------------------------------------------
(* serve_socks, serve_http: the request, the stream, the reply, the copy. *)

\* The head leaves the socket, and with it the n items behind it.
TakeHead(n) ==
    /\ rest' = SubSeq(sock, 2, n + 1) /\ sock' = SubSeq(sock, n + 2, Len(sock))
    /\ fpc' = "open"
    /\ UNCHANGED <<job, link, spc, verdict, ack, asks, up, got, Downward, fdone, sdone, faults>>
\* SOCKS reads exactly its greeting and its request.
SocksRequest == fpc = "head" /\ job.front = "socks" /\ sock # <<>> /\ TakeHead(0)
\* HTTP reads in chunks, so what has arrived behind the head comes with it, the end
\* of input excepted.
HttpHead ==
    /\ fpc = "head" /\ job.front # "socks" /\ sock # <<>>
    /\ \E n \in 0..(Len(sock) - 1) : (\A i \in 2..(n + 1) : sock[i] # "fin") /\ TakeHead(n)

\* A request this frontend does not serve: an unknown command or address type, no
\* acceptable method, a line or a URL that does not parse.  Some have a reply of
\* their own (SOCKS 07 and 08, HTTP 400), the others just close.
BadRequest ==
    /\ fpc = "head" /\ sock # <<>> /\ fpc' = "done" /\ Fault
    /\ seen' \in {seen, Append(seen, "refused")}
    /\ UNCHANGED <<job, link, spc, verdict, ack, Upward, answers, usock, down, rest, fdone, sdone>>

\* The reply to a failed open: socks_error_code; HTTP says 502 whatever the cause.
ErrorReply(cause) == IF job.front = "socks" THEN cause ELSE "bad gateway"
Refuse(cause) ==
    /\ fpc' = "done" /\ seen' = Append(seen, ErrorReply(cause))
    /\ UNCHANGED <<up, rest>>

\* open_stream sends OPEN, unless the session is gone.
OpenStream ==
    /\ fpc = "open"
    /\ IF link THEN fpc' = "opening" /\ spc' = "resolve" /\ UNCHANGED <<up, rest, seen>>
               ELSE Refuse("general") /\ UNCHANGED spc
    /\ UNCHANGED <<job, link, verdict, ack, asks, sock, got, answers, usock, down, fdone, sdone, faults>>

\* Mutant: what was read ahead is forgotten.
AheadLost == IF job.front = "absolute" THEN <<"rewritten">> ELSE <<>>
\* What goes out first: the rewritten head of an absolute-form request, then the rest.
Ahead == (IF job.front = "absolute" THEN <<"rewritten">> ELSE <<>>) \o rest

\* OPEN_ACK: the success reply (an absolute-form request has none), then what was
\* read ahead - behind the rewritten head, for an absolute-form request.  (An
\* answer that came in before the session's death may as well be taken before it.)
Opened ==
    /\ fpc = "opening" /\ link /\ ack # "none"
    /\ IF ack = "ok"
       THEN /\ fpc' = "pump" /\ rest' = <<>>
            /\ seen' = IF job.front = "absolute" THEN seen ELSE Append(seen, "ok")
            /\ up' = Ahead
       ELSE Refuse(ack)
    /\ UNCHANGED <<job, link, spc, verdict, ack, asks, sock, got, answers, usock, down, fdone, sdone, faults>>

\* The session dies or the answer is late: the stream is forgotten.
OpenFails ==
    /\ fpc = "opening" /\ (~link \/ (ack = "none" /\ faults < job.faults))
    /\ faults' = IF link THEN faults + 1 ELSE faults
    /\ Refuse("general")
    /\ UNCHANGED <<job, link, spc, verdict, ack, asks, sock, got, answers, usock, down, fdone, sdone>>

\* What a copy writes goes into the tunnel; after the session's death, nowhere.
Written(q, item) == IF link THEN Append(q, item) ELSE q

\* Mutant: the end of input is not passed on.
FrontUpNoFin ==
    /\ fpc = "pump" /\ "up" \notin fdone /\ sock # <<>>
    /\ up' = IF Head(sock) = "fin" THEN up ELSE Written(up, Head(sock))
    /\ sock' = Tail(sock)
    /\ fdone' = IF Head(sock) = "fin" THEN fdone \cup {"up"} ELSE fdone
    /\ UNCHANGED <<job, link, fpc, spc, verdict, ack, asks, got, Downward, rest, sdone, faults>>
\* copy_bidirectional: each direction passes on what it reads, and the end of input
\* as a shutdown of the other side; the whole ends when both have.
FrontUp ==
    /\ fpc = "pump" /\ "up" \notin fdone /\ sock # <<>>
    /\ up' = Written(up, Head(sock)) /\ sock' = Tail(sock)
    /\ fdone' = IF Head(sock) = "fin" THEN fdone \cup {"up"} ELSE fdone
    /\ UNCHANGED <<job, link, fpc, spc, verdict, ack, asks, got, Downward, rest, sdone, faults>>
FrontDown ==
    /\ fpc = "pump" /\ "down" \notin fdone /\ down # <<>>
    /\ seen' = Append(seen, Head(down)) /\ down' = Tail(down)
    /\ fdone' = IF Head(down) = "fin" THEN fdone \cup {"down"} ELSE fdone
    /\ UNCHANGED <<job, link, fpc, spc, verdict, ack, Upward, answers, usock, rest, sdone, faults>>
FrontEnds ==
    /\ fpc = "pump" /\ fdone = {"up", "down"} /\ fpc' = "done"
    /\ UNCHANGED <<job, link, spc, verdict, ack, Upward, Downward, rest, fdone, sdone, faults>>
\* On a dead session the stream takes what its buffer holds; once its pump has gone a
\* write fails, and with it the copy.
FrontBreaks ==
    /\ fpc = "pump" /\ ~link /\ "up" \notin fdone /\ sock # <<>> /\ Head(sock) # "fin" /\ fpc' = "done"
    /\ UNCHANGED <<job, link, spc, verdict, ack, Upward, Downward, rest, fdone, sdone, faults>>

\* The application resets its connection: the copy fails, and dropping the stream
\* lets its pump send FIN.
AppResets ==
    /\ fpc = "pump" /\ "up" \notin fdone /\ Fault /\ fpc' = "done"
    /\ up' = Written(up, "fin") /\ sock' = <<>> /\ asks' = <<>>
    /\ UNCHANGED <<job, link, spc, verdict, ack, got, Downward, rest, fdone, sdone>>

-----------------------------------------------------------------------------
(* handle_stream: the session's death stops none of its steps. *)

Resolve ==
    /\ spc = "resolve" /\ verdict' = resolve(job.cfg, job.target)
    /\ IF verdict'.kind = "deny" THEN spc' = "refused" /\ ack' = "denied" ELSE spc' = "dial" /\ UNCHANGED ack
    /\ UNCHANGED <<job, link, fpc, Upward, Downward, rest, fdone, sdone, faults>>

\* The dial has its own timeout, shorter than the client's wait for OPEN_ACK.
DialSucceeds ==
    /\ spc = "dial" /\ spc' = "pump" /\ ack' = "ok"
    /\ UNCHANGED <<job, link, fpc, verdict, Upward, Downward, rest, fdone, sdone, faults>>
\* Mutants: a failed dial that was accepted before, and one that answers nothing.
DialFailsAccepted ==
    /\ spc = "dial" /\ spc' = "refused" /\ ack' = "ok"
    /\ UNCHANGED <<job, link, fpc, verdict, Upward, Downward, rest, fdone, sdone, faults>>
DialFailsSilent ==
    /\ spc = "dial" /\ spc' = "refused"
    /\ UNCHANGED <<job, link, fpc, verdict, ack, Upward, Downward, rest, fdone, sdone, faults>>
DialFails ==
    /\ spc = "dial" /\ spc' = "refused" /\ ack' = "unreachable"
    /\ UNCHANGED <<job, link, fpc, verdict, Upward, Downward, rest, fdone, sdone, faults>>

ServerUp ==
    /\ spc = "pump" /\ "up" \notin sdone /\ up # <<>>
    /\ got' = Append(got, Head(up)) /\ up' = Tail(up)
    /\ sdone' = IF Head(up) = "fin" THEN sdone \cup {"up"} ELSE sdone
    /\ UNCHANGED <<job, link, fpc, spc, verdict, ack, asks, sock, Downward, rest, fdone, faults>>
ServerDown ==
    /\ spc = "pump" /\ "down" \notin sdone /\ usock # <<>>
    /\ down' = Written(down, Head(usock)) /\ usock' = Tail(usock)
    /\ sdone' = IF Head(usock) = "fin" THEN sdone \cup {"down"} ELSE sdone
    /\ UNCHANGED <<job, link, fpc, spc, verdict, ack, Upward, answers, seen, rest, fdone, faults>>
ServerEnds ==
    /\ spc = "pump" /\ sdone = {"up", "down"} /\ spc' = "done"
    /\ UNCHANGED <<job, link, fpc, verdict, ack, Upward, Downward, rest, fdone, sdone, faults>>
ServerBreaks ==
    /\ spc = "pump" /\ ~link /\ "down" \notin sdone /\ usock # <<>> /\ Head(usock) # "fin" /\ spc' = "done"
    /\ UNCHANGED <<job, link, fpc, verdict, ack, Upward, Downward, rest, fdone, sdone, faults>>

\* The upstream breaks: the copy fails, and the explicit shutdown sends FIN.
UpstreamResets ==
    /\ spc = "pump" /\ "down" \notin sdone /\ Fault /\ spc' = "done"
    /\ down' = Written(down, "fin") /\ usock' = <<>> /\ answers' = <<>>
    /\ UNCHANGED <<job, link, fpc, verdict, ack, Upward, seen, rest, fdone, sdone>>

\* The session is gone.  An OPEN still under way is lost; a handler that has one goes
\* on.  Each end that still reads its stream gets an early end, or its Abort is dropped.
LinkDies ==
    /\ link /\ link' = FALSE
    /\ spc' \in IF spc = "resolve" THEN {"resolve", "refused"} ELSE {spc}
    /\ LET Cuts(q, read) == IF read THEN Severed(q) ELSE {<<>>}
           above == spc' \in {"resolve", "dial", "pump"} /\ "up" \notin sdone
           below == fpc = "pump" /\ "down" \notin fdone
       IN  \/ UNCHANGED faults /\ up' \in Cuts(up, above) /\ down' \in Cuts(down, below)
           \/ Fault /\ above /\ up' \in Stranded(up) /\ down' \in Cuts(down, below)
           \/ Fault /\ below /\ up' \in Cuts(up, above) /\ down' \in Stranded(down)
    /\ UNCHANGED <<job, fpc, verdict, ack, asks, sock, got, answers, usock, seen, rest, fdone, sdone>>

Frontend == SocksRequest \/ HttpHead \/ OpenStream \/ Opened \/ FrontEnds \/ FrontBreaks
OpenGivesUp == OpenFails /\ ~link
Copies == FrontUp \/ FrontDown \/ ServerUp \/ ServerDown
Server == Resolve \/ DialSucceeds \/ DialFails \/ ServerEnds \/ ServerBreaks
Endpoints == AppSends \/ UpstreamSends
Faults == BadRequest \/ AppResets \/ UpstreamResets
RelayRuns == Frontend \/ OpenGivesUp \/ Copies \/ Server \/ Endpoints
RelayNext == Frontend \/ OpenFails \/ Copies \/ Server \/ Endpoints \/ Faults

-----------------------------------------------------------------------------
(* Properties. *)

\* As in SequencesExt.  The module itself is not extended: every proof obligation
\* would carry the whole of it.
Front(q) == SubSeq(q, 1, Len(q) - 1)
Last(q) == q[Len(q)]
IsPrefix(q, whole) == Len(q) <= Len(whole) /\ q = SubSeq(whole, 1, Len(q))

\* A prefix of what was sent, or after a fault or the session's death one that ends
\* early.
Cut(received, sent) ==
    \/ IsPrefix(received, sent)
    \/ /\ faults > 0 \/ ~link
       /\ received # <<>> /\ Last(received) = "fin"
       /\ IsPrefix(Front(received), sent)

\* Each end receives a prefix of what the other sent, in order, nothing twice: the
\* upstream the rewritten head first, then what the frontend read ahead, then the
\* rest; the application the reply before any data.  Only a fault or the session's
\* death may bring the end of input early, and nothing comes behind it (serve_http,
\* serve_connect, copy_bidirectional; inbound_pump on Abort).
ThroughInOrder ==
    /\ Cut(got, (IF job.front = "absolute" THEN <<"rewritten">> ELSE <<>>) \o job.asks \o <<"fin">>)
    /\ fpc = "pump" =>
         Cut(seen, (IF job.front = "absolute" THEN <<>> ELSE <<"ok">>) \o job.answers \o <<"fin">>)

\* What the application is told is what happened at the far end: success only once
\* the upstream is connected, "denied" only on the router's denial, "unreachable"
\* only on a failed dial (serve_connect, socks_error_code, handle_stream).
ReplyHonest ==
    \A i \in DOMAIN seen :
        /\ seen[i] = "ok" => spc \in {"pump", "done"} /\ verdict.kind \in {"route", "dial"}
        /\ seen[i] = "denied" => verdict.kind = "deny"
        /\ seen[i] = "unreachable" => spc = "refused" /\ verdict.kind \in {"route", "dial"}

\* The router decides as its configuration promises, for every target and
\* configuration of the instance (Router::resolve).
RouteRight == verdict # NoVerdict => Promised(job.cfg, job.target, verdict)

\* A request is always answered: with a reply, or by being carried (serve_socks,
\* serve_http; the dial and open timeouts).
Answered == fpc \in {"open", "opening"} ~> fpc \in {"pump", "done"}

\* Without faults both ends of input arrive and both tasks end, also when the session
\* dies under them: half-close is carried through four sockets and neither direction
\* keeps the other waiting.
Carried == fpc = "pump" ~> ((fpc = "done" /\ spc = "done") \/ faults > 0)
=============================================================================
