------------------------------- MODULE TunnelPipe -------------------------------
(***************************************************************************)
(* One direction of a tunnel stream as Relay and UdpRelay use it: a        *)
(* sequence of what was written and not yet read, with "fin" for the end   *)
(* of input, and what the session's death makes of it (teardown and        *)
(* inbound_pump, mux.rs).                                                  *)
(***************************************************************************)
EXTENDS Naturals, Sequences

\* The reader still gets some of what was under way.  Then the Abort shuts its duplex
\* down, and it reads an end of input that nothing tells from a FIN.
Severed(q) ==
    {IF n > 0 /\ q[n] = "fin" THEN SubSeq(q, 1, n) ELSE Append(SubSeq(q, 1, n), "fin") :
        n \in 0..Len(q)}

\* The stream's queue is full and the Abort dropped: no end of input is added.
Stranded(q) == {SubSeq(q, 1, n) : n \in 0..Len(q)}
=============================================================================
