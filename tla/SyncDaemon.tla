------------------------------- MODULE SyncDaemon -------------------------------
(***************************************************************************)
(* What makes passes happen: the server's change hub (sync/notify.rs), its *)
(* notify sessions (handle_notify_session) and one client's daemon         *)
(* (sync/daemon.rs) with its watcher thread, tunnels, hint stream,         *)
(* debounce, interval and backoff.  Another client's sessions come and go. *)
(* What a pass decides and how it moves files are SyncPass and             *)
(* SyncTransfer; here a pass looks at each tree once.                      *)
(***************************************************************************)
EXTENDS Naturals, FiniteSets

CONSTANTS
    Sessions,    \* bound: sync sessions the server may hold at once
    LocalCap,    \* capacity of the daemon's local and hint channels (256)
    HubCap,      \* capacity of the hub's broadcast channel (16)
    BackoffCap,  \* longest backoff (60 s)
    MaxTunnels,  \* bound: connection attempts; the last succeeds and stays healthy
    Budgets      \* bounds: changes of the server's tree (s) and of the client's (l)

ASSUME CapsAssumption ==
    LocalCap \in Nat \ {0} /\ HubCap \in Nat \ {0} /\ IsFiniteSet(Sessions)

VARIABLES
    \* the server
    schanges,    \* file system events the hub's watcher has not handled
    hubpc,       \* the watcher callback: "idle", or what it read of active
    active, pending,
    window,      \* last_fire is younger than SUPPRESS_WINDOW
    sess,        \* sess[s]: "free", "open", or "swap" between the two atomics of its end
    \* the notify sessions, by the tunnel they run on: "none", "opening" (not yet
    \* subscribed) or "on", with the hints each has queued
    note, queued,
    \* the client
    dpc, mine,   \* the daemon loop; the session of the current pass
    hintsOpen,   \* hints_open, read once before the select
    tunnel,      \* Option<client>: the tunnel in use, 0 for None
    task,        \* Option<notify_task>: the tunnel it listens on, 0 for None
    up,          \* the tunnels that are connected, held or not
    used,        \* tunnels connected so far
    backoff,
    lchanges,    \* local events the daemon's watcher has not handled
    local, hints,\* the two channels
    \* each tree against the daemon's passes: "stale" once it changes, "read" when the
    \* current pass has scanned it, "done" when that pass succeeds
    sview, lview,
    left         \* what is left of MaxServer and MaxLocal

hubVars == <<schanges, hubpc, active, pending, window, sess>>
noteVars == <<note, queued>>
daemonVars == <<dpc, mine, hintsOpen, tunnel, task, up, used, backoff>>
localVars == <<lchanges, local, hints>>
viewVars == <<sview, lview, left>>
vars == <<hubVars, noteVars, daemonVars, localVars, viewVars>>

Tunnels == 1..MaxTunnels
Least(a, b) == IF a <= b THEN a ELSE b

Init ==
    /\ schanges = 0 /\ hubpc = "idle" /\ active = 0 /\ pending = FALSE /\ window = FALSE
    /\ sess = [s \in Sessions |-> "free"]
    /\ note = [t \in Tunnels |-> "none"] /\ queued = [t \in Tunnels |-> 0]
    /\ dpc = "connect" /\ mine = {} /\ hintsOpen = FALSE /\ tunnel = 0 /\ task = 0 /\ up = {} /\ used = 0
    /\ backoff = 1
    /\ lchanges = 0 /\ local = 0 /\ hints = 0
    /\ sview = "stale" /\ lview = "stale" /\ left \in Budgets

-----------------------------------------------------------------------------
(* The hub. *)

\* broadcast: every subscriber gets it; a full queue drops its oldest (Lagged),
\* which the receiver treats as a hint all the same.
Broadcast ==
    queued' = [t \in Tunnels |-> IF note[t] = "on" THEN Least(queued[t] + 1, HubCap)
                                                   ELSE queued[t]]

\* The watcher callback loads active ...
HubLoads ==
    /\ hubpc = "idle" /\ schanges > 0 /\ schanges' = schanges - 1
    /\ hubpc' = IF active > 0 THEN "hold" ELSE "fire"
    /\ UNCHANGED <<active, pending, window, sess, noteVars, daemonVars, localVars, viewVars>>

\* ... and then either defers to the sessions' end,
HubHolds ==
    /\ hubpc = "hold" /\ hubpc' = "idle" /\ pending' = TRUE
    /\ UNCHANGED <<schanges, active, window, sess, noteVars, daemonVars, localVars, viewVars>>

\* or fires unless it did so just now.
HubFires ==
    /\ hubpc = "fire" /\ hubpc' = "idle" /\ window' = TRUE
    /\ IF window THEN UNCHANGED queued ELSE Broadcast
    /\ UNCHANGED <<schanges, active, pending, sess, note, daemonVars, localVars, viewVars>>

WindowCloses ==
    /\ window /\ window' = FALSE
    /\ UNCHANGED <<schanges, hubpc, active, pending, sess, noteVars, daemonVars, localVars, viewVars>>

\* active_guard
SessionStarts(s) == sess[s] = "free" /\ sess' = [sess EXCEPT ![s] = "open"] /\ active' = active + 1

\* Mutant: a session whose tunnel broke never gives its guard back.
SessionDropsLeaky(s) ==
    /\ sess[s] = "open" /\ (s \notin mine \/ tunnel \notin up)
    /\ active' = IF s \in mine THEN active ELSE active - 1
    /\ sess' = [sess EXCEPT ![s] = "free"]
    /\ UNCHANGED <<schanges, hubpc, pending, window, noteVars, daemonVars, localVars, viewVars>>
\* session_ended: the counter, then - for the last session only - the flag.
SessionDrops(s) ==
    /\ sess[s] = "open" /\ (s \notin mine \/ tunnel \notin up)
    /\ active' = active - 1
    /\ sess' = [sess EXCEPT ![s] = IF active = 1 THEN "swap" ELSE "free"]
    /\ UNCHANGED <<schanges, hubpc, pending, window, noteVars, daemonVars, localVars, viewVars>>

SessionSwaps(s) ==
    /\ sess[s] = "swap" /\ sess' = [sess EXCEPT ![s] = "free"]
    /\ pending' = FALSE
    /\ IF pending THEN Broadcast ELSE UNCHANGED queued
    /\ UNCHANGED <<schanges, hubpc, active, window, note, daemonVars, localVars, viewVars>>

\* Another client's session begins, and its uploads - or a user - change the tree.
OtherStarts(s) ==
    /\ SessionStarts(s) /\ \E u \in Sessions \ {s} : sess[u] = "free"  \* room left by the bound
    /\ UNCHANGED <<schanges, hubpc, pending, window, noteVars, daemonVars, localVars, viewVars>>

ServerTreeChanges ==
    /\ left.s > 0 /\ left' = [left EXCEPT !.s = @ - 1]
    /\ schanges' = schanges + 1 /\ sview' = "stale"
    /\ UNCHANGED <<hubpc, active, pending, window, sess, noteVars, daemonVars, localVars, lview>>

-----------------------------------------------------------------------------
(* Notify sessions, one per tunnel at most. *)

\* handle_notify_session subscribes when its first frame arrives; the hub keeps
\* nothing for those who come later.
Subscribe(t) ==
    /\ note[t] = "opening" /\ t \in up /\ note' = [note EXCEPT ![t] = "on"]
    /\ UNCHANGED <<hubVars, queued, daemonVars, localVars, viewVars>>

\* A hint crosses the tunnel into the daemon's channel; the task waits while it is full.
Forward(t) ==
    /\ note[t] = "on" /\ t \in up /\ queued[t] > 0 /\ hints < LocalCap
    /\ queued' = [queued EXCEPT ![t] = @ - 1] /\ hints' = hints + 1
    /\ UNCHANGED <<hubVars, note, daemonVars, lchanges, local, viewVars>>

\* The tunnel breaks: its notify task ends.
TunnelDies(t) ==
    /\ t \in up /\ up' = up \ {t}
    /\ note' = [note EXCEPT ![t] = "none"] /\ queued' = [queued EXCEPT ![t] = 0]
    /\ UNCHANGED <<hubVars, dpc, mine, hintsOpen, tunnel, task, used, backoff, localVars, viewVars>>

TaskLive == task # 0 /\ note[task] # "none"

-----------------------------------------------------------------------------
(* The daemon loop. *)

OnlyDaemon == UNCHANGED <<schanges, hubpc, pending, window, noteVars, hintsOpen>>
ByPass == UNCHANGED <<tunnel, task, up, used>>

\* A failed pass settles nothing, and forgets its tunnel and its notify task; it
\* closes neither.
Reread(view) == IF view = "read" THEN "stale" ELSE view
\* Mutant: the broken tunnel is kept for the next pass.
FailsKeeps ==
    /\ dpc' = "backoff" /\ mine' = {} /\ tunnel' = tunnel /\ task' = 0
    /\ sview' = Reread(sview) /\ lview' = Reread(lview)
    /\ UNCHANGED <<up, backoff, active, sess, localVars, left>> /\ OnlyDaemon
Fails ==
    /\ dpc' = "backoff" /\ mine' = {} /\ tunnel' = 0 /\ task' = 0
    /\ sview' = Reread(sview) /\ lview' = Reread(lview)
    /\ UNCHANGED <<up, backoff, active, sess, localVars, left>> /\ OnlyDaemon

\* one_pass: connect if there is no client, else go on with the one there is.
Connect ==
    /\ dpc = "connect" /\ tunnel = 0 /\ used < MaxTunnels /\ used' = used + 1
    /\ \/ /\ tunnel' = used + 1 /\ up' = up \cup {used + 1}
          /\ UNCHANGED <<dpc, mine, task, backoff, active, sess, localVars, viewVars>> /\ OnlyDaemon
       \/ used + 1 < MaxTunnels /\ Fails

\* do_sync: the stream, then the server's scan, then the client's.
OpenPass(s) ==
    /\ dpc = "connect" /\ tunnel \in up /\ SessionStarts(s) /\ mine' = {s} /\ dpc' = "scan"
    /\ UNCHANGED <<backoff, localVars, viewVars>> /\ OnlyDaemon /\ ByPass
ServerScanned ==
    /\ dpc = "scan" /\ tunnel \in up /\ sview' = "read" /\ dpc' = "local"
    /\ UNCHANGED <<mine, backoff, active, sess, localVars, lview, left>> /\ OnlyDaemon /\ ByPass
LocalScanned ==
    /\ dpc = "local" /\ lview' = "read" /\ dpc' = "apply"
    /\ UNCHANGED <<mine, backoff, active, sess, localVars, sview, left>> /\ OnlyDaemon /\ ByPass

\* The rest of the pass; what it downloads or uploads wakes the watchers as well.
Settled(view) == IF view = "read" THEN "done" ELSE view
PassDone ==
    /\ dpc = "apply" /\ tunnel \in up /\ dpc' = "attach" /\ mine' = {} /\ backoff' = 1
    /\ sview' = Settled(sview) /\ lview' = Settled(lview)
    /\ \/ UNCHANGED <<lchanges, schanges, left>>
       \/ /\ left.l > 0 /\ left' = [left EXCEPT !.l = @ - 1]
          /\ lchanges' = lchanges + 1 /\ UNCHANGED schanges
       \/ /\ left.s > 0 /\ left' = [left EXCEPT !.s = @ - 1]
          /\ schanges' = schanges + 1 /\ UNCHANGED lchanges
    /\ UNCHANGED <<active, sess, local, hints>> /\ ByPass
    /\ UNCHANGED <<hubpc, pending, window, noteVars, hintsOpen>>

\* The tunnel is dead, or - it alive - the server refused, erred or stalled.
PassFails ==
    /\ dpc \in {"connect", "scan", "local", "apply"} /\ tunnel # 0
    /\ tunnel \notin up \/ used < MaxTunnels
    /\ Fails /\ UNCHANGED used

\* After a good pass the notify stream is (re)opened if its task is gone.
Attach ==
    /\ dpc = "attach" /\ dpc' = "wait"
    /\ \/ TaskLive /\ UNCHANGED <<task, note>>
       \/ ~TaskLive /\ task' = 0 /\ UNCHANGED note
       \/ /\ ~TaskLive /\ tunnel \in up
          /\ task' = tunnel /\ note' = [note EXCEPT ![tunnel] = "opening"]
    /\ hintsOpen' = (task' # 0)
    /\ UNCHANGED <<mine, tunnel, up, used, backoff, hubVars, queued, localVars, viewVars>>

\* The select: interval, local change, hint, end of the notify task.
Wakes(to) ==
    /\ dpc = "wait" /\ dpc' = to
    /\ UNCHANGED <<mine, hintsOpen, tunnel, up, used, backoff, hubVars, noteVars, lchanges, viewVars>>
\* Mutants: the interval, or a local event, restarts the wait.
IntervalIdle == Wakes("wait") /\ UNCHANGED <<task, local, hints>>
LocalIgnored == Wakes("wait") /\ local > 0 /\ local' = local - 1 /\ UNCHANGED <<task, hints>>
IntervalFires == Wakes("connect") /\ UNCHANGED <<task, local, hints>>
LocalWakes == Wakes("settle") /\ local > 0 /\ local' = local - 1 /\ UNCHANGED <<task, hints>>
HintWakes == Wakes("settle") /\ hintsOpen /\ hints > 0 /\ hints' = hints - 1 /\ UNCHANGED <<task, local>>
TaskEnded == Wakes("connect") /\ task # 0 /\ ~TaskLive /\ task' = 0 /\ UNCHANGED <<local, hints>>

\* settle: every further event restarts the quiet window.
SettleDrains ==
    /\ dpc = "settle"
    /\ \/ local > 0 /\ local' = local - 1 /\ UNCHANGED hints
       \/ hints > 0 /\ hints' = hints - 1 /\ UNCHANGED local
    /\ UNCHANGED <<lchanges, hubVars, noteVars, daemonVars, viewVars>>
SettleEnds ==
    /\ dpc = "settle" /\ local = 0 /\ hints = 0 /\ dpc' = "connect"
    /\ UNCHANGED <<mine, hintsOpen, tunnel, task, up, used, backoff, hubVars, noteVars, localVars, viewVars>>

BackoffEnds ==
    /\ dpc = "backoff" /\ dpc' = "connect" /\ backoff' = Least(2 * backoff, BackoffCap)
    /\ UNCHANGED <<mine, hintsOpen, tunnel, task, up, used, hubVars, noteVars, localVars, viewVars>>

\* The daemon's own watcher: blocking_send waits while the channel is full.
LocalTreeChanges ==
    /\ left.l > 0 /\ left' = [left EXCEPT !.l = @ - 1]
    /\ lchanges' = lchanges + 1 /\ lview' = "stale"
    /\ UNCHANGED <<hubVars, noteVars, daemonVars, local, hints, sview>>
WatcherSends ==
    /\ lchanges > 0 /\ local < LocalCap
    /\ lchanges' = lchanges - 1 /\ local' = local + 1
    /\ UNCHANGED <<hubVars, noteVars, daemonVars, hints, viewVars>>

Loop == \/ Connect \/ (\E s \in Sessions : OpenPass(s)) \/ ServerScanned
        \/ LocalScanned \/ PassDone \/ PassFails \/ Attach \/ BackoffEnds
Wait == IntervalFires \/ LocalWakes \/ HintWakes \/ TaskEnded
Hub == HubLoads \/ HubHolds \/ HubFires \/ \E s \in Sessions : SessionSwaps(s)
Notes == \E t \in Tunnels : Subscribe(t) \/ Forward(t)
Environment ==
    \/ ServerTreeChanges \/ LocalTreeChanges \/ WindowCloses
    \/ \E s \in Sessions : OtherStarts(s)
    \/ \E t \in Tunnels : TunnelDies(t) /\ used < MaxTunnels

Next == Loop \/ Wait \/ SettleDrains \/ SettleEnds \/ Hub \/ Notes \/ WatcherSends
        \/ (\E s \in Sessions : SessionDrops(s)) \/ Environment

\* Tasks and threads run; the interval elapses, so a waiting daemon wakes; a session
\* whose client has gone is noticed.  Nothing obliges trees to change, tunnels to
\* break or passes to fail.
Fairness ==
    /\ WF_vars(Loop) /\ WF_vars(Wait) /\ WF_vars(SettleDrains) /\ WF_vars(SettleEnds)
    /\ WF_vars(Hub) /\ WF_vars(Notes) /\ WF_vars(WatcherSends)
    /\ \A s \in Sessions : WF_vars(SessionDrops(s))
Spec == Init /\ [][Next]_vars /\ Fairness

-----------------------------------------------------------------------------
(* Properties. *)

\* Every variable stays in its range; the backoff, which doubles, within its cap.
TypeOK ==
    /\ {schanges, lchanges} \subseteq Nat /\ active \in Nat
    /\ hubpc \in {"idle", "hold", "fire"} /\ {pending, window, hintsOpen} \subseteq BOOLEAN
    /\ sess \in [Sessions -> {"free", "open", "swap"}]
    /\ note \in [Tunnels -> {"none", "opening", "on"}] /\ queued \in [Tunnels -> 0..HubCap]
    /\ dpc \in {"connect", "scan", "local", "apply", "attach", "wait", "settle", "backoff"}
    /\ mine \subseteq Sessions /\ {tunnel, task, used} \subseteq 0..MaxTunnels
    /\ up \subseteq Tunnels /\ backoff \in 1..BackoffCap
    /\ {local, hints} \subseteq 0..LocalCap
    /\ {sview, lview} \subseteq {"stale", "read", "done"}
    /\ left.s \in Nat /\ left.l \in Nat

\* The hub's counter is the number of sessions holding a guard, however their
\* starts and ends interleave with each other and with the watcher
\* (active_guard, session_ended).
ActiveCount == active = Cardinality({s \in Sessions : sess[s] = "open"})

\* A local change is never forgotten (spawn_watcher, settle, run): until a pass has
\* scanned it, its event is still on its way to the select, or the loop is already
\* past the select and before the next local scan.
LocalWakeup ==
    lview = "stale" =>
        \/ lchanges + local > 0
        \/ dpc \in {"settle", "connect", "scan", "local", "backoff"}

\* Every server-side change is followed by a successful pass, whatever becomes of
\* its hint: the interval is the safety net (run).
RemoteChangesReach == sview = "stale" ~> sview = "done"

\* And so is every local change, whatever fails on the way (run, settle).
LocalChangesReach == lview = "stale" ~> lview = "done"
=============================================================================
