----------------------------- MODULE MCMuxStream -----------------------------
(* Instances of MuxStream: a is the client's end and b the server's.         *)
EXTENDS MuxStreamProps

OneWay == [e \in Ends |-> IF e = "a" THEN 3 ELSE 0]
OneWayShort == [e \in Ends |-> IF e = "a" THEN 2 ELSE 0]
BothWays == [e \in Ends |-> 3]

(* Nothing goes wrong; the receiver drops the stream early; or any fault   *)
(* that the one direction in use can meet strikes.                         *)
NoFaults == {}
EarlyDrop == {<<"drop", "b">>}
AllFaults == EarlyDrop \cup {<<"decode", "b">>, <<"cut", "a">>} \cup ({"close"} \X Ends)
=============================================================================
