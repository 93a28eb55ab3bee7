--------------------------- MODULE MuxStreamProps ---------------------------
(***************************************************************************)
(* What a stream of the mux promises, direction by direction: s sends and  *)
(* r == Peer(s) receives.                                                  *)
(***************************************************************************)
EXTENDS MuxStream

-----------------------------------------------------------------------------
(* The sum of a sequence of numbers; the payload bytes of a queue of       *)
(* frames and the credit that its WINDOW frames grant.                     *)
Total(v) ==
    LET sum[i \in 0..Len(v)] == IF i = 0 THEN 0 ELSE sum[i - 1] + v[i]
    IN  sum[Len(v)]
Grant(f) == IF f.t = "WINDOW" THEN f.delta ELSE 0
ByteSum(q) == Total([i \in 1..Len(q) |-> Bytes(q[i])])
GrantSum(q) == Total([i \in 1..Len(q) |-> Grant(q[i])])

(* The bytes of s that r's pump has or will be handed, those on their way, *)
(* and all credit that is on its way back to s.                            *)
Buffered(r) ==
    ByteSum(inq[r]) + (IF ipc[r] = "write" THEN Bytes(cur[r]) ELSE 0)
Flight(s) == ByteSum(link[s]) + Buffered(Peer(s))
Owed(s) ==
    LET r == Peer(s) IN
    Flight(s) + pending[r] + held[r] + tick[r] + GrantSum(link[r])

(* Both ends still have the stream and the receiver's pump still runs. *)
Intact(s) ==
    /\ ~cut
    /\ reg[s] /\ reg[Peer(s)]
    /\ ipc[Peer(s)] \notin {"swap", "flush", "done"}

(* While a stream is intact no credit is created and none is lost, through *)
(* every interleaving of the pump's fetch_add and swap with the ticker's   *)
(* swap and restore, and with the writer queue full (mux.rs 638-653,       *)
(* 1392-1398).                                                             *)
CreditBalance ==
    \A s \in Ends :
        Intact(s) =>
            credits[s] + Owed(s) + charged[s] = granted[Peer(s)] + off[s]

-----------------------------------------------------------------------------
(* The stream implements the credit ledger, in both directions.            *)
Ledger(s) == INSTANCE CreditLedger WITH
    pc <- IF opc[s] \in {"read", "acquire", "send"} THEN opc[s]
          ELSE IF clean[s] THEN "read" ELSE "stopped",
    n <- n[s], charged <- charged[s], off <- off[s],
    credits <- credits[s],
    flight <- Flight(s),
    pending <- pending[Peer(s)],
    held <- held[Peer(s)],
    tick <- tick[Peer(s)],
    grants <- GrantSum(link[Peer(s)]),
    granted <- granted[Peer(s)],
    lost <- granted[Peer(s)] + off[s] - charged[s] - credits[s] - Owed(s)

(* Every step of the two ends is a step of the ledger of each direction:   *)
(* what CreditLedgerProofs proves of the ledger holds of the stream.       *)
ImplementsLedger ==
    /\ \A s \in Ends : Ledger(s)!Init
    /\ [][\A s \in Ends : Ledger(s)!Next \/ UNCHANGED Ledger(s)!vars]_vars
=============================================================================
