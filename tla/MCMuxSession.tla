---------------------------- MODULE MCMuxSession ----------------------------
(* Instances of MuxSession for TLC. *)
EXTENDS MuxSession

CONSTANTS o1, o2

Use(openers, beats, impatient, closers) ==
    [openers |-> openers, ticks |-> beats, impatient |-> impatient, closers |-> closers]
NoTicks == [e \in Ends |-> 0]
Ticks(who) == [e \in Ends |-> IF e = who THEN 2 ELSE 0]

(* Two openers against a limit of one stream; a server with keepalive; a   *)
(* client that closes or gives up on HELLO; a client with keepalive whose  *)
(* server may give up on HELLO.                                            *)
Contended == Use({o1, o2}, NoTicks, {}, {})
KeptAlive == Use({o1}, Ticks("s"), {}, {})
Closing == Use({o1}, NoTicks, {"c"}, {"c"})
Watchful == Use({}, Ticks("c"), {"s"}, {})
SafetyUses == {Contended, KeptAlive, Closing, Watchful}
ClosingUses == {Closing, Watchful}
(* A client that closes, nobody giving up; keepalive against a late HELLO. *)
WriterUses == {Use({o1}, NoTicks, {}, {"c"})}
LateHelloUses == {Watchful}
=============================================================================
