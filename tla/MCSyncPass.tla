------------------------------- MODULE MCSyncPass -------------------------------
(* Instances of SyncPass: a server and up to two clients. *)
EXTENDS SyncPass

CONSTANTS c1, c2

Setup(m1, m2, ahead, calm) ==
    [mode |-> [c \in Clients |-> IF c = c1 THEN m1 ELSE m2],
     skew |-> [n \in Nodes |-> IF n = c1 THEN ahead ELSE 0], calm |-> calm]

\* Two-way clients, one of them with a fast clock; a two-way and a readonly client;
\* the server and one client in calm conditions.
Mixed == {Setup("bidir", "bidir", 1, FALSE), Setup("bidir", "readonly", 0, FALSE),
          Setup("bidir", "off", 0, TRUE)}
\* One client: undisturbed but fast, or disturbed with a good clock.
FastClock == {Setup("bidir", "off", 1, TRUE)}
Disturbed == {Setup("bidir", "off", 0, FALSE)}
=============================================================================
