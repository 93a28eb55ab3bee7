---------------------------- MODULE SyncDaemonProofs ----------------------------
(***************************************************************************)
(* Theorems about SyncDaemon, for any number of sessions and tunnels, any  *)
(* channel capacities and any number of changes.                           *)
(***************************************************************************)
EXTENDS SyncDaemon, FiniteSetTheorems, TLAPS

Guards == {s \in Sessions : sess[s] = "open"}

CountInv ==
    /\ sess \in [Sessions -> {"free", "open", "swap"}]
    /\ active \in Nat
    /\ ActiveCount

\* The four ways a step treats the sessions' guards and the counter.
Opens(s) == SessionStarts(s)
Closes(s) ==
    /\ sess[s] = "open" /\ active' = active - 1
    /\ \E to \in {"swap", "free"} : sess' = [sess EXCEPT ![s] = to]
Clears(s) == sess[s] = "swap" /\ sess' = [sess EXCEPT ![s] = "free"] /\ active' = active

LEMMA CountCases ==
    ASSUME [Next]_vars
    PROVE  \/ UNCHANGED <<sess, active>>
           \/ \E s \in Sessions : Opens(s) \/ Closes(s) \/ Clears(s)
<1>1. CASE Loop
  <2>1. CASE Connect \/ PassFails
    BY <2>1 DEF Connect, PassFails, Fails
  <2>2. CASE \E s \in Sessions : OpenPass(s)
    BY <2>2 DEF OpenPass, Opens
  <2>3. CASE ServerScanned \/ LocalScanned \/ PassDone
    BY <2>3 DEF ServerScanned, LocalScanned, PassDone
  <2>4. CASE Attach \/ BackoffEnds
    BY <2>4 DEF Attach, BackoffEnds, hubVars
  <2>5. QED
    BY <1>1, <2>1, <2>2, <2>3, <2>4 DEF Loop
<1>2. CASE Wait
  BY <1>2 DEF Wait, IntervalFires, LocalWakes, HintWakes, TaskEnded, Wakes, hubVars
<1>3. CASE SettleDrains \/ SettleEnds
  BY <1>3 DEF SettleDrains, SettleEnds, hubVars
<1>4. CASE Hub
  BY <1>4 DEF Hub, HubLoads, HubHolds, HubFires, SessionSwaps, Clears
<1>5. CASE Notes \/ WatcherSends
  BY <1>5 DEF Notes, Subscribe, Forward, WatcherSends, hubVars
<1>6. CASE \E s \in Sessions : SessionDrops(s)
  BY <1>6, ZenonT(30) DEF SessionDrops, Closes
<1>7. CASE Environment
  BY <1>7 DEF Environment, ServerTreeChanges, LocalTreeChanges, WindowCloses, OtherStarts,
              TunnelDies, Opens, hubVars
<1>8. CASE UNCHANGED vars
  BY <1>8 DEF vars, hubVars
<1>9. QED
  BY <1>1, <1>2, <1>3, <1>4, <1>5, <1>6, <1>7, <1>8 DEF Next

LEMMA CountInit == Init => CountInv
<1> SUFFICES ASSUME Init PROVE CountInv
  OBVIOUS
<1>1. {s \in Sessions : sess[s] = "open"} = {}
  BY DEF Init
<1>2. QED
  BY <1>1, FS_EmptySet DEF Init, CountInv, ActiveCount

LEMMA CountStep == CountInv /\ [Next]_vars => CountInv'
<1> SUFFICES ASSUME CountInv, [Next]_vars PROVE CountInv'
  OBVIOUS
<1>0. /\ sess \in [Sessions -> {"free", "open", "swap"}] /\ active \in Nat
      /\ IsFiniteSet(Guards) /\ active = Cardinality(Guards)
  <2>1. IsFiniteSet(Guards)
    BY FS_Subset, CapsAssumption DEF Guards
  <2>2. QED
    BY <2>1 DEF CountInv, ActiveCount, Guards
<1>1. CASE UNCHANGED <<sess, active>>
  BY <1>1 DEF CountInv, ActiveCount
<1>2. ASSUME NEW s \in Sessions, Opens(s) PROVE CountInv'
  <2>1. /\ sess' \in [Sessions -> {"free", "open", "swap"}]
        /\ s \notin Guards /\ Guards' = Guards \cup {s}
    BY <1>0, <1>2 DEF Opens, SessionStarts, Guards
  <2>2. Cardinality(Guards') = Cardinality(Guards) + 1
    BY <1>0, <2>1, FS_AddElement
  <2>3. QED
    BY <1>0, <1>2, <2>1, <2>2 DEF Opens, SessionStarts, CountInv, ActiveCount, Guards
<1>3. ASSUME NEW s \in Sessions, Closes(s) PROVE CountInv'
  <2>1. /\ sess' \in [Sessions -> {"free", "open", "swap"}]
        /\ s \in Guards /\ Guards' = Guards \ {s}
    BY <1>0, <1>3 DEF Closes, Guards
  <2>2. Cardinality(Guards') = Cardinality(Guards) - 1 /\ Cardinality(Guards') \in Nat
    BY <1>0, <2>1, FS_RemoveElement, FS_CardinalityType
  <2>3. QED
    BY <1>0, <1>3, <2>1, <2>2 DEF Closes, CountInv, ActiveCount, Guards
<1>4. ASSUME NEW s \in Sessions, Clears(s) PROVE CountInv'
  <2>1. sess' \in [Sessions -> {"free", "open", "swap"}] /\ Guards' = Guards
    BY <1>0, <1>4 DEF Clears, Guards
  <2>2. QED
    BY <1>0, <1>4, <2>1 DEF Clears, CountInv, ActiveCount, Guards
<1>5. QED
  BY <1>1, <1>2, <1>3, <1>4, CountCases

\* active counts the sessions that hold a guard (active_guard, session_ended), for
\* any number of sessions starting and ending around the watcher callback.
THEOREM GuardsCounted == Spec => []ActiveCount
<1>1. CountInv => ActiveCount
  BY DEF CountInv
<1>2. QED
  BY <1>1, CountInit, CountStep, PTL DEF Spec

-----------------------------------------------------------------------------
WakeInv == lchanges \in Nat /\ local \in Nat /\ LocalWakeup

LEMMA WakeInit == Init => WakeInv
  BY DEF Init, WakeInv, LocalWakeup

LEMMA WakeStep == WakeInv /\ [Next]_vars => WakeInv'
<1> SUFFICES ASSUME WakeInv, [Next]_vars PROVE WakeInv'
  OBVIOUS
<1> USE DEF WakeInv, LocalWakeup
<1>1. CASE UNCHANGED <<lchanges, local, lview, dpc>>
  BY <1>1
<1>2. CASE Loop
  <2>1. CASE Connect
    BY <2>1 DEF Connect, Fails, Reread, localVars, viewVars
  <2>2. CASE \E s \in Sessions : OpenPass(s)
    BY <2>2 DEF OpenPass, localVars, viewVars
  <2>3. CASE ServerScanned
    BY <2>3 DEF ServerScanned, localVars
  <2>4. CASE LocalScanned
    BY <2>4 DEF LocalScanned, localVars
  <2>5. CASE PassDone
    <3>1. lchanges' \in {lchanges, lchanges + 1} /\ local' = local
      BY <2>5 DEF PassDone
    <3>2. lview' = "stale" => lview = "stale"
      BY <2>5 DEF PassDone, Settled
    <3>3. dpc = "apply"
      BY <2>5 DEF PassDone
    <3>4. lview' = "stale" => lchanges + local > 0
      BY <3>2, <3>3
    <3>5. lchanges' \in Nat /\ local' \in Nat
      BY <3>1
    <3>6. lview' = "stale" => lchanges' + local' > 0
      <4>1. CASE lchanges' = lchanges
        BY <3>1, <3>4, <4>1
      <4>2. CASE lchanges' = lchanges + 1
        BY <3>1, <4>2
      <4>3. QED
        BY <3>1, <4>1, <4>2, ZenonT(30)
    <3>7. QED
      BY <3>5, <3>6, ZenonT(30)
  <2>6. CASE PassFails
    BY <2>6 DEF PassFails, Fails, Reread, localVars
  <2>7. CASE Attach
    BY <2>7 DEF Attach, localVars, viewVars
  <2>8. CASE BackoffEnds
    BY <2>8 DEF BackoffEnds, localVars, viewVars
  <2>9. QED
    BY <1>2, <2>1, <2>2, <2>3, <2>4, <2>5, <2>6, <2>7, <2>8 DEF Loop
<1>3. CASE Wait
  BY <1>3 DEF Wait, IntervalFires, LocalWakes, HintWakes, TaskEnded, Wakes, viewVars
<1>4. CASE SettleDrains
  BY <1>4 DEF SettleDrains, daemonVars, viewVars
<1>5. CASE SettleEnds
  BY <1>5 DEF SettleEnds, localVars, viewVars
<1>6. CASE Hub \/ \E s \in Sessions : SessionDrops(s)
  BY <1>1, <1>6 DEF Hub, HubLoads, HubHolds, HubFires, SessionSwaps, SessionDrops,
                    daemonVars, localVars, viewVars
<1>7. CASE Notes
  BY <1>1, <1>7 DEF Notes, Subscribe, Forward, daemonVars, localVars, viewVars
<1>8. CASE WatcherSends
  BY <1>8 DEF WatcherSends, daemonVars, viewVars
<1>9. CASE Environment
  <2>1. CASE LocalTreeChanges
    BY <2>1 DEF LocalTreeChanges, daemonVars
  <2>2. CASE ServerTreeChanges \/ WindowCloses \/ (\E s \in Sessions : OtherStarts(s))
    BY <1>1, <2>2 DEF ServerTreeChanges, WindowCloses, OtherStarts, daemonVars, localVars, viewVars
  <2>3. CASE \E t \in Tunnels : TunnelDies(t)
    BY <1>1, <2>3 DEF TunnelDies, localVars, viewVars
  <2>4. QED
    BY <1>9, <2>1, <2>2, <2>3 DEF Environment
<1>10. CASE UNCHANGED vars
  BY <1>1, <1>10 DEF vars, daemonVars, localVars, viewVars
<1>11. QED
  BY <1>2, <1>3, <1>4, <1>5, <1>6, <1>7, <1>8, <1>9, <1>10 DEF Next

\* No local change is forgotten: as long as no pass has scanned it, a wake-up is on its
\* way or the loop has yet to scan (spawn_watcher, settle, run), for any capacities.
THEOREM NoLostWakeup == Spec => []LocalWakeup
<1>1. WakeInv => LocalWakeup
  BY DEF WakeInv
<1>2. QED
  BY <1>1, WakeInit, WakeStep, PTL DEF Spec
=============================================================================
