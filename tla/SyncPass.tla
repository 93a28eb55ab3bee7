-------------------------------- MODULE SyncPass --------------------------------
(***************************************************************************)
(* What krymux-sync decides (sync/mod.rs, tombstones.rs, the scan of       *)
(* scanner.rs): several clients reconcile one path with one server, in     *)
(* overlapping passes, while users write and delete it on any machine,     *)
(* watchers report removals late, clocks disagree and processes die.  How  *)
(* bytes travel is SyncTransfer; here a transfer is one step.              *)
(*                                                                         *)
(* A file is a version and an mtime.  Versions number the users' writes;   *)
(* equal hashes mean equal versions.  Scans are taken to hash correctly:   *)
(* no two versions share both size and mtime (the hash cache's key).  A    *)
(* file a scan cannot read is left alone by that pass, much as if the pass *)
(* had failed.                                                             *)
(***************************************************************************)
EXTENDS Integers, FiniteSets

CONSTANTS
    Clients,
    ServerMode,   \* "bidir" or "readonly": the server's --mode
    Setups,       \* the installations considered, see setup
    Latency,      \* bound: how late a hello_ack is read, in clock units
    Tolerance,    \* mtimes this close are a conflict (1 ms in the code)
    MaxAge,       \* tombstones older than this are pruned
    MaxTime, MaxOps, MaxCrashes   \* bounds: clock, user acts, deaths of a process or stream

Nodes == Clients \cup {"s"}

ASSUME PassAssumption ==
    /\ "s" \notin Clients
    /\ Setups \subseteq [mode : [Clients -> {"bidir", "readonly", "off"}],
                         skew : [Nodes -> Int], calm : BOOLEAN]
    /\ {Latency, Tolerance, MaxAge, MaxTime, MaxOps, MaxCrashes} \subseteq Nat

VARIABLES
    setup,      \* fixed at the start: each client's mode ("bidir", "readonly" or "off"),
                \* each machine's clock minus real time, and whether all is calm, i.e.
                \* users act only between passes and watchers report at once
    now,        \* real time
    file,       \* file[n]: the path in n's tree
    store,      \* store[n]: n's tombstone file
    pend,       \* pend[n]: PENDING, deletions seen by n's watcher
    ev,         \* ev[n]: the file system owes n's watcher a removal event
    pass,       \* pass[c]: c's pass, its locals and its server session's
    last,       \* the version of the latest user write, 0 after a deletion
    deleted,    \* some user has deleted the path
    ops, crashes

vars == <<setup, now, file, store, pend, ev, pass, last, deleted, ops, crashes>>

None == -99                    \* no tombstone: older than every file
NoFile == [v |-> 0, m |-> None]
Present(f) == f.v # 0
Clock(n) == now + setup.skew[n]
\* The offsets c may measure: server clock minus client clock, late by the latency.
Offsets(c) == {setup.skew["s"] - setup.skew[c] - late : late \in 0..Latency}
Mode(c) == IF ServerMode = "bidir" THEN setup.mode[c] ELSE ServerMode

\* tombstones::prune, and record_with for the single path: the new stamp
\* overwrites whatever was stored.
Prune(n, ts) == IF ts > Clock(n) - MaxAge THEN ts ELSE None
RecordWith(n, ts) == Prune(n, IF ts = None THEN store[n] ELSE ts)
\* tombstones::flush on a client: only one pass runs there, so it is one step.
Flushed(c) == IF pend[c] = None THEN store[c] ELSE RecordWith(c, pend[c])

Idle == [pc |-> "idle", off |-> 0, take |-> None, sf |-> NoFile, st |-> None,
         cf |-> NoFile, plan |-> "none"]

Init ==
    /\ setup \in Setups /\ now = 0
    /\ file \in {[n \in Nodes |-> f] : f \in {NoFile, [v |-> 1, m |-> 0]}}
    /\ store = [n \in Nodes |-> None] /\ pend = [n \in Nodes |-> None]
    /\ ev = [n \in Nodes |-> FALSE] /\ pass = [c \in Clients |-> Idle]
    /\ last = file["s"].v /\ deleted = FALSE /\ ops = 1 /\ crashes = 0

-----------------------------------------------------------------------------
(* A pass of client c. *)

At(c, pc) == pass[c].pc = pc
Others == UNCHANGED <<setup, now, last, deleted, ops, crashes>>

\* tombstones::flush on the server empties PENDING and releases its lock before the
\* store is written: the half done here, the other half in Recorded.
TakePending(c, P) ==
    /\ pass' = [pass EXCEPT ![c] = [P EXCEPT !.take = pend["s"]]]
    /\ pend' = [pend EXCEPT !["s"] = None]
Recorded(c) == IF pass[c].take = None THEN store["s"] ELSE RecordWith("s", pass[c].take)

\* hello, hello_ack and the server's first flush: the offset is the server's clock
\* minus the client's, read when the answer arrives.
Hello(c) ==
    /\ At(c, "idle") /\ setup.mode[c] # "off"
    /\ \E off \in Offsets(c) : TakePending(c, [Idle EXCEPT !.pc = "scan", !.off = off])
    /\ UNCHANGED <<file, store, ev>> /\ Others

\* The rest of T_HELLO: the scan the client will be sent.
ServerScan(c) ==
    /\ At(c, "scan")
    /\ store' = [store EXCEPT !["s"] = Recorded(c)]
    /\ pass' = [pass EXCEPT ![c].pc = "flush", ![c].take = None, ![c].sf = file["s"]]
    /\ UNCHANGED <<file, pend, ev>> /\ Others

\* T_REQUEST_SCAN: the list made above goes out, then flush again ...
ServerFlush(c) ==
    /\ At(c, "flush")
    /\ TakePending(c, [pass[c] EXCEPT !.pc = "load"])
    /\ UNCHANGED <<file, store, ev>> /\ Others

\* ... and send the tombstones as they are now; the client then scans its tree.
LoadAndScan(c) ==
    /\ At(c, "load")
    /\ store' = [store EXCEPT !["s"] = Recorded(c)]
    /\ pass' = [pass EXCEPT ![c].pc = "diff", ![c].take = None,
                            ![c].st = Prune("s", Recorded(c)), ![c].cf = file[c]]
    /\ UNCHANGED <<file, pend, ev>> /\ Others

\* Mutants: a millisecond too strict, and not strict.
NewerCoarse(a, b) == a > b + Tolerance + 1
NewerOrEqual(a, b) == a >= b + Tolerance
Newer(a, b) == a > b + Tolerance

\* Mutant: a file the server lacks counts as deleted there.
TheyDeletedOrLack(st, off, m) == st = None \/ st - off > m
TheyDeleted(st, off, m) == st # None /\ st - off > m
WeDeleted(lt, m) == lt # None /\ lt > m

\* The diff, for one path; lt is the client's own tombstone.
Decide(c, sf, cf, st, lt, off) ==
    LET adj == sf.m - off   \* the server's mtime in the client's clock
    IN  CASE Present(sf) /\ ~Present(cf) ->
               IF Mode(c) # "readonly" /\ WeDeleted(lt, adj) THEN "server_delete" ELSE "download"
          [] Present(sf) /\ Present(cf) /\ sf.v # cf.v ->
               IF Mode(c) = "readonly" \/ Newer(adj, cf.m) THEN "download"
               ELSE IF Newer(cf.m, adj) THEN "upload" ELSE "conflict"
          [] ~Present(sf) /\ Present(cf) /\ Mode(c) # "readonly" ->
               IF TheyDeleted(st, off, cf.m) THEN "local_delete" ELSE "upload"
          [] OTHER -> "none"

\* Flush, load and prune our tombstones, then diff.  Of the locals only what the
\* plan still needs is kept: the server entry (download), our tombstone
\* (server_delete), theirs (local_delete), our entry (upload).
Diff(c) ==
    LET P    == pass[c]
        lt   == Prune(c, Flushed(c))
        plan == Decide(c, P.sf, P.cf, P.st, lt, P.off)
    IN  /\ At(c, "diff")
        /\ store' = [store EXCEPT ![c] = Flushed(c)]
        /\ pend' = [pend EXCEPT ![c] = None]
        /\ pass' = [pass EXCEPT ![c] =
              CASE plan = "download" ->
                     [Idle EXCEPT !.pc = "act", !.plan = plan, !.sf = P.sf, !.off = P.off]
                [] plan = "server_delete" ->
                     [Idle EXCEPT !.pc = "act", !.plan = plan, !.st = lt, !.off = P.off]
                [] plan = "local_delete" ->
                     [Idle EXCEPT !.pc = "act", !.plan = plan, !.st = P.st - P.off]
                [] plan = "upload" ->
                     [Idle EXCEPT !.pc = "act", !.plan = plan, !.cf = P.cf]
                [] OTHER -> Idle]
        /\ UNCHANGED <<file, ev>> /\ Others

\* Before any work the race guard flushes and reloads the tombstones again.
Act(c, plan) ==
    /\ At(c, "act") /\ pass[c].plan = plan
    /\ pend' = [pend EXCEPT ![c] = None]

\* A download whose path gained a newer tombstone since the diff is dropped;
\* else get_file reads the server's copy as it is now, if there is one.
Fetch(c) ==
    /\ Act(c, "download")
    /\ store' = [store EXCEPT ![c] = Flushed(c)]
    /\ pass' = [pass EXCEPT ![c] =
          IF WeDeleted(Flushed(c), pass[c].sf.m - pass[c].off) \/ ~Present(file["s"]) THEN Idle
          ELSE [Idle EXCEPT !.pc = "install", !.sf = file["s"]]]
    /\ UNCHANGED <<file, ev>> /\ Others

\* Mutant: the old file is removed first and the rename then fails.
InstallRemoves(c) ==
    /\ At(c, "install")
    /\ file' = [file EXCEPT ![c] = NoFile]
    /\ pass' = [pass EXCEPT ![c] = Idle]
    /\ UNCHANGED <<store, pend, ev>> /\ Others

\* The rename, with the server's mtime as the server gave it.
Install(c) ==
    /\ At(c, "install")
    /\ file' = [file EXCEPT ![c] = pass[c].sf]
    /\ pass' = [pass EXCEPT ![c] = Idle]
    /\ UNCHANGED <<store, pend, ev>> /\ Others

\* remove_file whatever is there now; remember the server's stamp in our clock.
LocalDelete(c) ==
    /\ Act(c, "local_delete")
    /\ file' = [file EXCEPT ![c] = NoFile]
    /\ ev' = [ev EXCEPT ![c] = @ \/ Present(file[c])]
    /\ store' = [store EXCEPT ![c] = IF Present(file[c]) THEN RecordWith(c, pass[c].st)
                                                         ELSE Flushed(c)]
    /\ pass' = [pass EXCEPT ![c] = Idle] /\ Others

\* delete_file with our stamp in the server's clock.  The server refuses when its
\* copy is newer; otherwise it removes it and records the deletion as of NOW; on
\* its yes the client stores its own stamp again.
ServerDelete(c) ==
    LET ok == file["s"].m <= pass[c].st + pass[c].off
    IN  /\ Act(c, "server_delete")
        /\ file' = IF ok THEN [file EXCEPT !["s"] = NoFile] ELSE file
        /\ ev' = [ev EXCEPT !["s"] = @ \/ (ok /\ Present(file["s"]))]
        /\ store' = [store EXCEPT !["s"] = IF ok THEN RecordWith("s", Clock("s")) ELSE @,
                                  ![c] = IF ok THEN RecordWith(c, pass[c].st) ELSE Flushed(c)]
        /\ pass' = [pass EXCEPT ![c] = Idle] /\ Others

\* put: refused (hash) unless the file is still the one scanned; the server's copy
\* is replaced whatever it is, and gets the client's mtime unconverted.
Upload(c) ==
    /\ Act(c, "upload")
    /\ file' = IF file[c].v = pass[c].cf.v THEN [file EXCEPT !["s"] = pass[c].cf] ELSE file
    /\ store' = [store EXCEPT ![c] = Flushed(c)]
    /\ pass' = [pass EXCEPT ![c] = Idle]
    /\ UNCHANGED ev /\ Others

PassStep(c) ==
    \/ Hello(c) \/ ServerScan(c) \/ ServerFlush(c) \/ LoadAndScan(c) \/ Diff(c)
    \/ Fetch(c) \/ Install(c) \/ LocalDelete(c) \/ ServerDelete(c) \/ Upload(c)

-----------------------------------------------------------------------------
(* Watchers, users, time and failures. *)

\* tombstones::queue, stamped when the event is SEEN; a stamp already queued stays.
Queued(n) == IF pend[n] = None THEN Clock(n) ELSE pend[n]
\* The watcher's callback.  Removals by the sync itself are reported like any other.
WatcherQueues(n) ==
    /\ ev[n] /\ ev' = [ev EXCEPT ![n] = FALSE]
    /\ pend' = [pend EXCEPT ![n] = Queued(n)]
    /\ UNCHANGED <<file, store, pass>> /\ Others

Prompt == setup.calm => \A n \in Nodes : ~ev[n]
UserMayAct == ops < MaxOps /\ Prompt /\ (setup.calm => \A c \in Clients : At(c, "idle"))

UserWrites(n) ==
    /\ UserMayAct /\ ops' = ops + 1 /\ last' = ops + 1
    /\ file' = [file EXCEPT ![n] = [v |-> ops + 1, m |-> Clock(n)]]
    /\ UNCHANGED <<setup, now, store, pend, ev, pass, deleted, crashes>>

UserDeletes(n) ==
    /\ UserMayAct /\ Present(file[n]) /\ ops' = ops + 1 /\ last' = 0 /\ deleted' = TRUE
    /\ file' = [file EXCEPT ![n] = NoFile] /\ ev' = [ev EXCEPT ![n] = TRUE]
    /\ UNCHANGED <<setup, now, store, pend, pass, crashes>>

Tick == now < MaxTime /\ Prompt /\ now' = now + 1
        /\ UNCHANGED <<setup, file, store, pend, ev, pass, last, deleted, ops, crashes>>

\* A process dies: its queue and undelivered events are lost, and its passes with
\* it (all of them, with their half-done flushes, when it is the server).
Crash(n) ==
    /\ crashes < MaxCrashes /\ crashes' = crashes + 1
    /\ pend' = [pend EXCEPT ![n] = None] /\ ev' = [ev EXCEPT ![n] = FALSE]
    /\ pass' = IF n = "s" THEN [c \in Clients |-> Idle] ELSE [pass EXCEPT ![n] = Idle]
    /\ UNCHANGED <<setup, now, file, store, last, deleted, ops>>

\* A stream breaks or stalls; the server finishes the flush it is in.
PassFails(c) ==
    /\ ~At(c, "idle") /\ pass[c].take = None
    /\ crashes < MaxCrashes /\ crashes' = crashes + 1
    /\ pass' = [pass EXCEPT ![c] = Idle]
    /\ UNCHANGED <<setup, now, file, store, pend, ev, last, deleted, ops>>

Next ==
    \/ \E c \in Clients : PassStep(c) \/ PassFails(c)
    \/ \E n \in Nodes : WatcherQueues(n) \/ UserWrites(n) \/ UserDeletes(n) \/ Crash(n)
    \/ Tick

\* The daemon's interval starts passes forever and every pass proceeds; a watcher
\* event arrives in the end.  Users, time and failures owe nothing.
Fairness ==
    /\ \A c \in Clients : WF_vars(PassStep(c))
    /\ \A n \in Nodes : WF_vars(WatcherQueues(n))
Spec == Init /\ [][Next]_vars /\ Fairness

-----------------------------------------------------------------------------
(* Properties. *)

\* Versions are users' writes, stamps are times, a pass is in one known place and
\* holds taken tombstones only between the halves of a flush.
TypeOK ==
    /\ \A n \in Nodes : file[n].v \in 0..MaxOps /\ ev[n] \in BOOLEAN
    /\ \A n \in Nodes : {store[n], pend[n]} \subseteq Int
    /\ \A c \in Clients : pass[c].pc \in {"idle", "scan", "flush", "load", "diff", "act",
                                          "install"}
    /\ \A c \in Clients : pass[c].take # None => pass[c].pc \in {"scan", "load"}
    /\ \A c \in Clients : pass[c].plan \in {"none", "download", "upload", "local_delete",
                                            "server_delete"}

\* No deletion out of thin air ("never a wrong deletion", tombstones.rs): as long as
\* no user has deleted the path, no tombstone exists anywhere - stored, queued, taken
\* or sent - and no pass plans a deletion.
OnlyUsersDelete ==
    ~deleted =>
        /\ \A n \in Nodes : store[n] = None /\ pend[n] = None /\ ~ev[n]
        /\ \A c \in Clients : /\ pass[c].take = None /\ pass[c].st = None
                              /\ pass[c].plan \notin {"local_delete", "server_delete"}

\* Nothing vanishes on its own: as long as no user deletes the path, a tree that holds
\* the file goes on holding it, whatever passes, crashes and clocks do.
NothingVanishes == [][~deleted' => \A n \in Nodes : Present(file[n]) => Present(file[n]')]_vars

Settled(c) ==
    \/ file[c].v = file["s"].v \/ setup.mode[c] = "off"
    \/ Mode(c) = "readonly" /\ ~Present(file["s"])
    \/ /\ Present(file[c]) /\ Present(file["s"])   \* a conflict
       /\ \E off \in Offsets(c) : file["s"].m - off - file[c].m \in -Tolerance..Tolerance
\* c has a tombstone newer than the server's copy, but the diff does not turn it into
\* a server deletion: c holds another copy, or c is readonly.
Starved(c) ==
    /\ Present(file["s"]) /\ (Present(file[c]) \/ Mode(c) = "readonly")
    /\ \E off \in Offsets(c) : WeDeleted(store[c], file["s"].m - off)

\* "Every endpoint eventually agrees" (README): once users stop, each tree comes to
\* hold the server's version for good - except for conflicts, mtimes too close to
\* order, and for a readonly client's own file the server lacks, which are left
\* alone.  (Broken by the code: a starved client drops the download in every pass.)
Converges == <>[](\A c \in Clients : Settled(c))

\* The same but for starved clients: whatever passes overlapped, died or lost their
\* tombstones, nothing else keeps two trees apart, and no two passes undo each
\* other's work forever.
ConvergesOrStarves == <>[](\A c \in Clients : Settled(c) \/ Starved(c))

KeepsLatest ==
    \A n \in Nodes : file[n].v = last /\ last # 0 /\ last' = last => file'[n].v = last

\* Last writer wins: no step of the sync takes the latest thing a user wrote out of
\* the tree it was written to, neither by an older version nor by a deletion
\* ("clock-skew-corrected mtime last-writer protection", README).
NewestSurvives == [][KeepsLatest]_vars

SingleClient == \E c \in Clients : \A d \in Clients \ {c} : setup.mode[d] = "off"
TwoWay == \A c \in Clients : setup.mode[c] # "off" => Mode(c) = "bidir"
OneClock == Latency = 0 /\ \A n \in Nodes : setup.skew[n] = 0

\* Last writer wins between the server and one two-way client whose clocks agree and
\* are seen to agree, when users do not interfere with passes and watchers are prompt.
\* Each condition is needed: the sync itself re-stamps deletions, keeps foreign mtimes
\* unconverted, takes the latency of the answer for a difference of clocks, acts on
\* scans without looking again, and lets the server overrule a readonly client.
NewestSurvivesInPairs == [][setup.calm /\ SingleClient /\ TwoWay /\ OneClock => KeepsLatest]_vars
=============================================================================
