------------------------- MODULE CreditLedgerProofs -------------------------
(***************************************************************************)
(* For every window, maximum window, chunk size and frame size: the credit *)
(* ledger balances, the sender overdraws by less than one chunk, and a     *)
(* waiting sender is always owed a grant.                                  *)
(***************************************************************************)
EXTENDS CreditLedger, TLAPS

(* The smaller of two naturals is one of them and at most both. *)
LEMMA SmallerFacts ==
    ASSUME NEW a \in Nat, NEW b \in Nat
    PROVE  /\ Smaller(a, b) \in Nat
           /\ Smaller(a, b) <= a
           /\ Smaller(a, b) <= b
           /\ a > 0 /\ b > 0 => Smaller(a, b) > 0
BY DEF Smaller

(* A new stream's ledger balances (build_stream, mux.rs 535-580). *)
LEMMA LedgerInit ==
    Init => LedgerInv
BY LedgerAssumption
   DEF Init, LedgerInv, TypeOK, Conservation, Outstanding, LoopInv

(* Every step of the pumps, the ticker and the readers keeps the ledger    *)
(* balanced and the send loop in one of its legal positions.               *)
LEMMA LedgerStep ==
    LedgerInv /\ [Next]_vars => LedgerInv'
<1> SUFFICES ASSUME LedgerInv, [Next]_vars
             PROVE  LedgerInv'
  OBVIOUS
<1> USE LedgerAssumption
<1> USE DEF LedgerInv, TypeOK, Conservation, Outstanding, LoopInv, sender, receiver
<1>1. CASE Read
  BY <1>1 DEF Read
<1>2. CASE Acquire
  <2>1. /\ Take \in Nat /\ Take > 0
        /\ Take <= credits /\ Take <= n - charged
    BY <1>2, SmallerFacts DEF Acquire, Take, CanAcquire
  <2>2. /\ credits' = credits - Take
        /\ charged' = charged + Take
        /\ UNCHANGED <<n, off, flight, grants, lost, pending, held, tick, granted>>
        /\ pc' = IF off < n THEN "send"
                 ELSE IF charged + Take < n THEN "acquire" ELSE "read"
    BY <1>2 DEF Acquire, NextPc
  <2> HIDE DEF Smaller
  <2>3. TypeOK'
    BY <2>1, <2>2
  <2>4. Conservation'
    BY <2>1, <2>2
  <2>5. LoopInv'
    BY <2>1, <2>2
  <2>6. QED
    BY <2>3, <2>4, <2>5, ZenonT(30)
<1>3. CASE Send
  <2> DEFINE take == Smaller(MaxData, n - off)
  <2>1. take \in Nat /\ take > 0 /\ take <= n - off
    BY <1>3, SmallerFacts DEF Send
  <2>2. /\ off' = off + take
        /\ flight' = flight + take
        /\ UNCHANGED <<n, charged, credits, grants, lost, pending, held, tick, granted>>
        /\ pc' = IF charged < n THEN "acquire"
                 ELSE IF off + take < n THEN "send" ELSE "read"
    BY <1>3 DEF Send, NextPc
  <2> HIDE DEF take
  <2>3. charged <= granted + off
    OBVIOUS
  <2>4. TypeOK' /\ Conservation'
    BY <2>1, <2>2
  <2>5. LoopInv'
    BY <1>3, <2>1, <2>2, <2>3 DEF Send
  <2>6. QED
    BY <2>4, <2>5, ZenonT(30)
<1>4. CASE Stop
  BY <1>4 DEF Stop
<1>5. CASE Receive
  BY <1>5 DEF Receive
<1>6. CASE Consume
  BY <1>6 DEF Consume
<1>7. CASE Drain
  BY <1>7 DEF Drain
<1>8. CASE PumpSend
  BY <1>8 DEF PumpSend
<1>9. CASE PumpEnd
  BY <1>9 DEF PumpEnd
<1>10. CASE Grow
  <2> DEFINE bonus == Smaller(granted, RxWindowMax - granted)
  <2>1. bonus \in Nat /\ bonus <= RxWindowMax - granted
    BY <1>10, SmallerFacts DEF Grow
  <2>2. /\ granted' = granted + bonus
        /\ held = 0 /\ held' = bonus
        /\ UNCHANGED <<pc, n, charged, off, credits, flight, pending, tick, grants, lost>>
    BY <1>10 DEF Grow
  <2> HIDE DEF bonus
  <2>3. QED
    BY <2>1, <2>2
<1>11. CASE TickSwap
  BY <1>11 DEF TickSwap
<1>12. CASE TickSend
  BY <1>12 DEF TickSend
<1>13. CASE TickRestore
  BY <1>13 DEF TickRestore
<1>14. CASE LoseData
  BY <1>14 DEF LoseData
<1>15. CASE LoseGrant
  BY <1>15 DEF LoseGrant
<1>16. CASE LoseHeld
  BY <1>16 DEF LoseHeld
<1>17. CASE LoseTick
  BY <1>17 DEF LoseTick
<1>18. CASE SendLost
  <2> DEFINE take == Smaller(MaxData, n - off)
  <2>1. take \in Nat /\ take > 0 /\ take <= n - off
    BY <1>18, SmallerFacts DEF SendLost
  <2>2. /\ off' = off + take
        /\ lost' = lost + take
        /\ UNCHANGED <<n, charged, credits, flight, grants, pending, held, tick, granted>>
        /\ pc' = IF charged < n THEN "acquire"
                 ELSE IF off + take < n THEN "send" ELSE "read"
    BY <1>18 DEF SendLost, NextPc
  <2> HIDE DEF take
  <2>3. charged <= granted + off
    OBVIOUS
  <2>4. TypeOK' /\ Conservation'
    BY <2>1, <2>2
  <2>5. LoopInv'
    BY <1>18, <2>1, <2>2, <2>3 DEF SendLost
  <2>6. QED
    BY <2>4, <2>5, ZenonT(30)
<1>19. CASE UNCHANGED vars
  BY <1>19 DEF vars
<1>20. QED
  BY <1>1, <1>2, <1>3, <1>4, <1>5, <1>6, <1>7, <1>8, <1>9, <1>10, <1>11,
     <1>12, <1>13, <1>14, <1>15, <1>16, <1>17, <1>18, <1>19, ZenonT(30) DEF Next

(* The inductive invariant holds throughout every behaviour. *)
THEOREM LedgerInvariant ==
    Spec => []LedgerInv
BY LedgerInit, LedgerStep, PTL DEF Spec

(* No counter of the flow control ever underflows, and the grant stays     *)
(* between rx_window and rx_window_max.                                    *)
THEOREM TypeCorrect ==
    Spec => []TypeOK
<1>1. LedgerInv => TypeOK
  BY DEF LedgerInv
<1>2. QED
  BY <1>1, LedgerInvariant, PTL

(* Credit is conserved between sender, wire, inbound pump and ticker. *)
THEOREM CreditConserved ==
    Spec => []Conservation
<1>1. LedgerInv => Conservation
  BY DEF LedgerInv
<1>2. QED
  BY <1>1, LedgerInvariant, PTL

(* The window is overdrawn by less than one chunk (the fast path of        *)
(* outbound_pump, mux.rs 844-897).                                         *)
THEOREM OverdraftBounded ==
    Spec => []FlightBound
<1>1. LedgerInv => FlightBound
  BY LedgerAssumption
     DEF LedgerInv, TypeOK, Conservation, Outstanding, LoopInv, FlightBound
<1>2. QED
  BY <1>1, LedgerInvariant, PTL

(* acquire_credits never waits for a grant that nobody owes it, whatever   *)
(* the window, the chunk and the frame size.                               *)
THEOREM SenderNeverWedged ==
    Spec => []NeverWedged
<1>1. LedgerInv => NeverWedged
  BY LedgerAssumption
     DEF LedgerInv, TypeOK, Conservation, Outstanding, LoopInv, NeverWedged,
         CanAcquire
<1>2. QED
  BY <1>1, LedgerInvariant, PTL
=============================================================================
