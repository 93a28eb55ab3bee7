----------------------------- MODULE SyncPassProofs -----------------------------
(***************************************************************************)
(* Theorems about SyncPass, for any number of clients, any modes, clock    *)
(* skews, tombstone age and latency, and any number of users' acts and     *)
(* crashes.                                                                *)
(***************************************************************************)
EXTENDS SyncPass, TLAPS

Files == [v : Int, m : Int]
Places == {"idle", "scan", "flush", "load", "diff", "act", "install"}
Plans == {"none", "download", "upload", "local_delete", "server_delete"}
Passes == [pc : Places, off : Int, take : Int, sf : Files, st : Int, cf : Files, plan : Plans]

\* What a pass is about to install or upload is a file.
Held(P) ==
    /\ P.pc = "install" => Present(P.sf)
    /\ P.plan = "upload" => P.pc = "act" /\ Present(P.cf)

Types ==
    /\ setup \in Setups /\ now \in Int /\ ops \in Nat
    /\ file \in [Nodes -> Files] /\ store \in [Nodes -> Int] /\ pend \in [Nodes -> Int]
    /\ ev \in [Nodes -> BOOLEAN] /\ pass \in [Clients -> Passes]
    /\ \A c \in Clients : Held(pass[c])

\* A deletion-free pass, and the deletion-free rest of the state.
CleanPass(P) == P.take = None /\ P.st = None /\ P.plan \notin {"local_delete", "server_delete"}
Clean == \A n \in Nodes : store[n] = None /\ pend[n] = None /\ ~ev[n]

LEMMA Restated == OnlyUsersDelete <=> (~deleted => Clean /\ \A c \in Clients : CleanPass(pass[c]))
  BY Zenon DEF OnlyUsersDelete, Clean, CleanPass

LEMMA SkewTypes ==
    ASSUME Types
    PROVE  /\ \A n \in Nodes : setup.skew[n] \in Int /\ Clock(n) \in Int
           /\ \A c \in Clients : \A off \in Offsets(c) : off \in Int
           /\ None \in Int /\ MaxAge \in Int /\ Idle \in Passes /\ NoFile \in Files
<1>1. setup.skew \in [Nodes -> Int]
  BY PassAssumption, Zenon DEF Types
<1>2. \A n \in Nodes : setup.skew[n] \in Int /\ Clock(n) \in Int
  BY <1>1 DEF Types, Clock
<1>3. ASSUME NEW c \in Clients, NEW off \in Offsets(c) PROVE off \in Int
  <2>1. setup.skew["s"] \in Int /\ setup.skew[c] \in Int
    BY <1>2, Zenon DEF Nodes
  <2>2. PICK late \in 0..Latency : off = setup.skew["s"] - setup.skew[c] - late
    BY <1>3, Zenon DEF Offsets
  <2>3. QED
    BY <2>1, <2>2, PassAssumption
<1>4. None \in Int /\ MaxAge \in Int /\ NoFile \in Files
  BY PassAssumption DEF None, NoFile, Files
<1>5. Idle \in Passes
  BY <1>4 DEF Idle, Passes, Places, Plans
<1>6. QED
  BY <1>2, <1>3, <1>4, <1>5, Zenon

\* What the tombstone operators return is a stamp.
LEMMA StampTypes ==
    ASSUME Types, NEW n \in Nodes
    PROVE  /\ \A ts \in Int : Prune(n, ts) \in Int /\ RecordWith(n, ts) \in Int
           /\ Flushed(n) \in Int
           /\ \A c \in Clients : Recorded(c) \in Int
<1>1. \A ts \in Int : Prune(n, ts) \in Int /\ RecordWith(n, ts) \in Int
  BY SkewTypes, Zenon DEF Prune, RecordWith, Types
<1>2. \A ts \in Int : RecordWith("s", ts) \in Int
  BY SkewTypes, Zenon DEF Prune, RecordWith, Types, Nodes
<1>3. Flushed(n) \in Int
  BY <1>1, Zenon DEF Flushed, Types
<1>4. \A c \in Clients : Recorded(c) \in Int
  BY <1>2, Zenon DEF Recorded, Types, Passes, Nodes
<1>5. QED
  BY <1>1, <1>3, <1>4, Zenon

\* The stored stamps stay absent where nothing is queued or taken.
LEMMA StampsAbsent ==
    ASSUME Types, Clean, NEW c \in Clients, CleanPass(pass[c])
    PROVE  /\ Flushed(c) = None /\ Recorded(c) = None
           /\ Prune("s", Recorded(c)) = None /\ Prune(c, Flushed(c)) = None
  BY Zenon DEF Clean, CleanPass, Flushed, Recorded, Prune, Nodes

LEMMA TypesInit == Init => Types /\ OnlyUsersDelete
<1> SUFFICES ASSUME Init PROVE Types /\ OnlyUsersDelete
  BY Zenon
<1>1. None \in Int /\ NoFile \in Files /\ [v |-> 1, m |-> 0] \in Files /\ Idle \in Passes
  BY DEF None, NoFile, Files, Idle, Passes, Places, Plans
<1>2. QED
  BY <1>1 DEF Init, Types, OnlyUsersDelete, Idle, Held

-----------------------------------------------------------------------------
\* One step of a pass of c ends in a well-typed pass P, with well-typed files, stores
\* and queues; if no user has deleted the path, all of them stay clean.
Steps(c, P) ==
    /\ P \in Passes /\ Held(P) /\ pass' = [pass EXCEPT ![c] = P]
    /\ file' \in [Nodes -> Files] /\ store' \in [Nodes -> Int] /\ pend' \in [Nodes -> Int]
    /\ ev' \in [Nodes -> BOOLEAN]
    /\ UNCHANGED <<setup, now, last, deleted, ops, crashes>>
    /\ Clean /\ (\A d \in Clients : CleanPass(pass[d])) =>
         /\ CleanPass(P) /\ Clean'
         /\ \A n \in Nodes : Present(file[n]) => Present(file'[n])

LEMMA HelloSteps ==
    ASSUME Types, NEW c \in Clients, Hello(c) PROVE \E P \in Passes : Steps(c, P)
<1>1. PICK off \in Offsets(c) : TakePending(c, [Idle EXCEPT !.pc = "scan", !.off = off])
  BY Zenon DEF Hello
<1> DEFINE P == [[Idle EXCEPT !.pc = "scan", !.off = off] EXCEPT !.take = pend["s"]]
<1>2. P \in Passes /\ Held(P) /\ P.take = pend["s"] /\ P.st = None /\ P.plan = "none"
  BY SkewTypes, Zenon DEF Types, Passes, Idle, Nodes, Places, Plans, Held
<1>3. /\ pass' = [pass EXCEPT ![c] = P] /\ pend' = [pend EXCEPT !["s"] = None]
      /\ UNCHANGED <<file, store, ev>> /\ Others
  BY <1>1, Zenon DEF TakePending, Hello
<1> HIDE DEF P
<1>4. Steps(c, P)
  BY <1>2, <1>3, SkewTypes, Zenon DEF Others, Steps, CleanPass, Clean, Types, Nodes
<1>5. QED
  BY <1>2, <1>4, Zenon

LEMMA ScanSteps ==
    ASSUME Types, NEW c \in Clients, ServerScan(c) PROVE \E P \in Passes : Steps(c, P)
<1> DEFINE P == [pass[c] EXCEPT !.pc = "flush", !.take = None, !.sf = file["s"]]
<1>1. P \in Passes /\ Held(P) /\ P.take = None /\ P.st = pass[c].st /\ P.plan = pass[c].plan
  BY SkewTypes, Zenon DEF Types, Passes, Nodes, Places, Held, ServerScan, At
<1>2. /\ pass' = [pass EXCEPT ![c] = P] /\ store' = [store EXCEPT !["s"] = Recorded(c)]
      /\ UNCHANGED <<file, pend, ev>> /\ Others
  BY Zenon DEF ServerScan, Types, Passes
<1>3. Recorded(c) \in Int /\ (Clean /\ CleanPass(pass[c]) => Recorded(c) = None)
  BY StampTypes, StampsAbsent, Zenon DEF Nodes
<1> HIDE DEF P
<1>4. Steps(c, P)
  BY <1>1, <1>2, <1>3, Zenon DEF Others, Steps, CleanPass, Clean, Types, Nodes
<1>5. QED
  BY <1>1, <1>4, Zenon

LEMMA FlushSteps ==
    ASSUME Types, NEW c \in Clients, ServerFlush(c) PROVE \E P \in Passes : Steps(c, P)
<1> DEFINE Q == [pass[c] EXCEPT !.pc = "load"]
           P == [Q EXCEPT !.take = pend["s"]]
<1>1. pass[c] \in Passes /\ pass[c].plan # "upload" /\ pend["s"] \in Int
  BY Zenon DEF Types, Nodes, Held, ServerFlush, At
<1>2. Q \in Passes /\ Held(Q) /\ Q.pc = "load" /\ Q.st = pass[c].st /\ Q.plan = pass[c].plan
  BY <1>1, Zenon DEF Passes, Places, Held
<1>3. /\ pass' = [pass EXCEPT ![c] = P] /\ pend' = [pend EXCEPT !["s"] = None]
      /\ UNCHANGED <<file, store, ev>> /\ Others
  BY Zenon DEF ServerFlush, TakePending
<1> HIDE DEF Q
<1>4. P \in Passes /\ Held(P) /\ P.take = pend["s"] /\ P.st = pass[c].st /\ P.plan = pass[c].plan
  BY <1>1, <1>2, Zenon DEF Passes, Held
<1> HIDE DEF P
<1>5. Steps(c, P)
  BY <1>3, <1>4, SkewTypes, Zenon DEF Others, Steps, CleanPass, Clean, Types, Nodes
<1>6. QED
  BY <1>4, <1>5, Zenon

LEMMA LoadSteps ==
    ASSUME Types, NEW c \in Clients, LoadAndScan(c) PROVE \E P \in Passes : Steps(c, P)
<1> DEFINE P == [pass[c] EXCEPT !.pc = "diff", !.take = None,
                                !.st = Prune("s", Recorded(c)), !.cf = file[c]]
<1>1. Recorded(c) \in Int /\ Prune("s", Recorded(c)) \in Int
  BY StampTypes, Zenon DEF Nodes
<1>2. P \in Passes /\ Held(P) /\ P.take = None /\ P.st = Prune("s", Recorded(c))
      /\ P.plan = pass[c].plan
  BY <1>1, SkewTypes, Zenon DEF Types, Passes, Nodes, Places, Held, LoadAndScan, At
<1>3. /\ pass' = [pass EXCEPT ![c] = P] /\ store' = [store EXCEPT !["s"] = Recorded(c)]
      /\ UNCHANGED <<file, pend, ev>> /\ Others
  BY Zenon DEF LoadAndScan, Types, Passes
<1>4. Clean /\ CleanPass(pass[c]) => Recorded(c) = None /\ Prune("s", Recorded(c)) = None
  BY StampsAbsent, Zenon
<1> HIDE DEF P
<1>5. Steps(c, P)
  BY <1>1, <1>2, <1>3, <1>4, Zenon DEF Others, Steps, CleanPass, Clean, Types, Nodes
<1>6. QED
  BY <1>2, <1>5, Zenon

\* The diff has five outcomes and plans an upload only of a file; without tombstones
\* it plans no deletion.
LEMMA DecideSound ==
    ASSUME NEW c, NEW sf, NEW cf, NEW st, NEW lt, NEW off
    PROVE  LET plan == Decide(c, sf, cf, st, lt, off)
           IN  /\ plan = "upload" => Present(cf)
               /\ st = None /\ lt = None => plan \notin {"local_delete", "server_delete"}
  BY Zenon DEF Decide, WeDeleted, TheyDeleted

LEMMA DiffSteps ==
    ASSUME Types, NEW c \in Clients, Diff(c) PROVE \E P \in Passes : Steps(c, P)
<1> DEFINE lt == Prune(c, Flushed(c))
           plan == Decide(c, pass[c].sf, pass[c].cf, pass[c].st, lt, pass[c].off)
           P == CASE plan = "download" ->
                       [Idle EXCEPT !.pc = "act", !.plan = plan, !.sf = pass[c].sf,
                                    !.off = pass[c].off]
                  [] plan = "server_delete" ->
                       [Idle EXCEPT !.pc = "act", !.plan = plan, !.st = lt, !.off = pass[c].off]
                  [] plan = "local_delete" ->
                       [Idle EXCEPT !.pc = "act", !.plan = plan, !.st = pass[c].st - pass[c].off]
                  [] plan = "upload" -> [Idle EXCEPT !.pc = "act", !.plan = plan, !.cf = pass[c].cf]
                  [] OTHER -> Idle
<1>1. pass[c] \in Passes /\ Flushed(c) \in Int /\ lt \in Int
  BY StampTypes, Zenon DEF Types, Nodes
<1>2. /\ Clean /\ CleanPass(pass[c]) =>
           Flushed(c) = None /\ plan \notin {"local_delete", "server_delete"}
      /\ plan = "upload" => Present(pass[c].cf)
  BY StampsAbsent, DecideSound, Zenon DEF CleanPass
<1>3. /\ pass' = [pass EXCEPT ![c] = P] /\ store' = [store EXCEPT ![c] = Flushed(c)]
      /\ pend' = [pend EXCEPT ![c] = None] /\ UNCHANGED <<file, ev>> /\ Others
  BY Zenon DEF Diff
<1> HIDE DEF plan, lt
<1>4. /\ P \in Passes /\ Held(P)
      /\ plan \notin {"local_delete", "server_delete"} => CleanPass(P)
  <2> USE <1>1, <1>2, SkewTypes DEF CleanPass, Passes, Idle, Places, Plans, Held
  <2>1. CASE plan = "download"
    BY <2>1, ZenonT(30)
  <2>2. CASE plan = "server_delete"
    BY <2>2, ZenonT(30)
  <2>3. CASE plan = "local_delete"
    <3>1. pass[c].st - pass[c].off \in Int
      OBVIOUS
    <3>2. P = [Idle EXCEPT !.pc = "act", !.plan = plan, !.st = pass[c].st - pass[c].off]
      BY <2>3, Zenon
    <3>3. QED
      BY <2>3, <3>1, <3>2, ZenonT(30)
  <2>4. CASE plan = "upload"
    BY <2>4, ZenonT(30)
  <2>5. CASE plan \notin {"download", "server_delete", "local_delete", "upload"}
    BY <2>5, Zenon
  <2>6. QED
    BY <2>1, <2>2, <2>3, <2>4, <2>5, Zenon
<1> HIDE DEF P
<1>5. Steps(c, P)
  BY <1>1, <1>2, <1>3, <1>4, SkewTypes, Zenon DEF Others, Steps, Clean, Types, Nodes
<1>6. QED
  BY <1>4, <1>5, Zenon

LEMMA FetchSteps ==
    ASSUME Types, NEW c \in Clients, Fetch(c) PROVE \E P \in Passes : Steps(c, P)
<1> DEFINE drop == WeDeleted(Flushed(c), pass[c].sf.m - pass[c].off) \/ ~Present(file["s"])
           P == IF drop THEN Idle ELSE [Idle EXCEPT !.pc = "install", !.sf = file["s"]]
<1>1. Flushed(c) \in Int /\ file["s"] \in Files /\ (~drop => Present(file["s"]))
  BY StampTypes, Zenon DEF Types, Nodes
<1>2. Clean /\ CleanPass(pass[c]) => Flushed(c) = None
  BY StampsAbsent, Zenon
<1>3. /\ pass' = [pass EXCEPT ![c] = P] /\ store' = [store EXCEPT ![c] = Flushed(c)]
      /\ pend' = [pend EXCEPT ![c] = None] /\ UNCHANGED <<file, ev>> /\ Others
  BY Zenon DEF Fetch, Act
<1> HIDE DEF drop
<1>4. P \in Passes /\ Held(P) /\ CleanPass(P)
  BY <1>1, SkewTypes, Zenon DEF CleanPass, Passes, Idle, Places, Plans, Held
<1> HIDE DEF P
<1>5. Steps(c, P)
  BY <1>1, <1>2, <1>3, <1>4, SkewTypes, Zenon DEF Others, Steps, Clean, Types, Nodes
<1>6. QED
  BY <1>4, <1>5, Zenon

\* Every other step of a pass ends it.
LEMMA IdleFine == Types => Idle \in Passes /\ CleanPass(Idle) /\ Held(Idle)
  BY SkewTypes, Zenon DEF CleanPass, Idle, Held

LEMMA InstallSteps ==
    ASSUME Types, NEW c \in Clients, Install(c) PROVE Steps(c, Idle)
<1>1. pass[c].sf \in Files /\ Present(pass[c].sf)
  BY Zenon DEF Types, Passes, Install, At, Held
<1>2. QED
  BY <1>1, IdleFine, Zenon DEF Install, Others, Steps, Clean, Types, Nodes

LEMMA LocalDeleteSteps ==
    ASSUME Types, NEW c \in Clients, LocalDelete(c) PROVE Steps(c, Idle)
<1> DEFINE ts == IF Present(file[c]) THEN RecordWith(c, pass[c].st) ELSE Flushed(c)
<1>1. c \in Nodes /\ pass[c].st \in Int /\ ts \in Int
  BY StampTypes, Zenon DEF Types, Passes, Nodes
<1>2. ~CleanPass(pass[c])
  BY Zenon DEF LocalDelete, Act, CleanPass
<1>3. /\ file' = [file EXCEPT ![c] = NoFile] /\ store' = [store EXCEPT ![c] = ts]
      /\ pend' = [pend EXCEPT ![c] = None] /\ ev' \in [Nodes -> BOOLEAN]
      /\ pass' = [pass EXCEPT ![c] = Idle] /\ Others
  BY <1>1, Zenon DEF LocalDelete, Act, Types, Present
<1> HIDE DEF ts
<1>4. QED
  BY <1>1, <1>2, <1>3, IdleFine, SkewTypes, Zenon DEF Others, Steps, Types

LEMMA ServerDeleteSteps ==
    ASSUME Types, NEW c \in Clients, ServerDelete(c) PROVE Steps(c, Idle)
<1> DEFINE ok == file["s"].m <= pass[c].st + pass[c].off
           sts == IF ok THEN RecordWith("s", Clock("s")) ELSE store["s"]
           cts == IF ok THEN RecordWith(c, pass[c].st) ELSE Flushed(c)
<1>1. /\ c \in Nodes /\ "s" \in Nodes /\ pass[c].st \in Int /\ Clock("s") \in Int
  BY SkewTypes, Zenon DEF Types, Passes, Nodes
<1>2. sts \in Int /\ cts \in Int
  BY <1>1, StampTypes, Zenon DEF Types
<1>3. ~CleanPass(pass[c])
  BY Zenon DEF ServerDelete, Act, CleanPass
<1>4. store' \in [Nodes -> Int]
  <2>1. \/ store' = [store EXCEPT !["s"] = sts, ![c] = cts]
        \/ store' = [store EXCEPT !["s"] = store["s"], ![c] = cts]
    BY <1>1, Zenon DEF ServerDelete, Types
  <2> HIDE DEF sts, cts
  <2>2. QED
    BY <2>1, <1>1, <1>2, Zenon DEF Types
<1>5. file' \in [Nodes -> Files]
  BY <1>1, SkewTypes, Zenon DEF ServerDelete, Types
<1>6. ev' \in [Nodes -> BOOLEAN]
  BY <1>1, Zenon DEF ServerDelete, Types, Present
<1>7. /\ pend' = [pend EXCEPT ![c] = None] /\ pass' = [pass EXCEPT ![c] = Idle] /\ Others
  BY Zenon DEF ServerDelete, Act
<1>8. QED
  BY <1>1, <1>3, <1>4, <1>5, <1>6, <1>7, IdleFine, SkewTypes, Zenon DEF Others, Steps, Types

LEMMA UploadSteps ==
    ASSUME Types, NEW c \in Clients, Upload(c) PROVE Steps(c, Idle)
<1>1. /\ c \in Nodes /\ "s" \in Nodes /\ pass[c].cf \in Files /\ Present(pass[c].cf)
      /\ Flushed(c) \in Int
  BY StampTypes, Zenon DEF Types, Passes, Upload, Act, At, Held, Nodes
<1>2. Clean /\ CleanPass(pass[c]) => Flushed(c) = None
  BY StampsAbsent, Zenon
<1>3. /\ file' = [file EXCEPT !["s"] = pass[c].cf] \/ UNCHANGED file
      /\ store' = [store EXCEPT ![c] = Flushed(c)] /\ pend' = [pend EXCEPT ![c] = None]
      /\ pass' = [pass EXCEPT ![c] = Idle] /\ UNCHANGED ev /\ Others
  BY Zenon DEF Upload, Act
<1>4. QED
  BY <1>1, <1>2, <1>3, IdleFine, SkewTypes, Zenon DEF Others, Steps, Clean, Types

\* The facts above, for any step of a pass.
LEMMA PassSteps ==
    ASSUME Types, NEW c \in Clients, PassStep(c) PROVE \E P \in Passes : Steps(c, P)
  BY HelloSteps, ScanSteps, FlushSteps, LoadSteps, DiffSteps, FetchSteps, InstallSteps,
     LocalDeleteSteps, ServerDeleteSteps, UploadSteps, IdleFine, Zenon DEF PassStep

-----------------------------------------------------------------------------
IInv == Types /\ OnlyUsersDelete

LEMMA StepKeeps ==
    ASSUME IInv, [Next]_vars
    PROVE  IInv' /\ (~deleted' => \A n \in Nodes : Present(file[n]) => Present(file'[n]))
<1> DEFINE Keeps == ~deleted' => \A n \in Nodes : Present(file[n]) => Present(file'[n])
<1>0. Types /\ (~deleted => Clean /\ \A c \in Clients : CleanPass(pass[c]))
  BY Restated, Zenon DEF IInv
<1> DEFINE CleanNext == ~deleted' => Clean' /\ \A c \in Clients : CleanPass(pass'[c])
<1>1. ASSUME NEW c \in Clients, PassStep(c) PROVE Types' /\ CleanNext /\ Keeps
  <2>1. PICK P \in Passes : Steps(c, P)
    BY <1>0, <1>1, PassSteps, Zenon
  <2>2. Types'
    BY <2>1, <1>0, Zenon DEF Steps, Types
  <2>3. QED
    BY <2>1, <2>2, <1>0, Zenon DEF Steps, Types
<1>2. ASSUME NEW c \in Clients, PassFails(c) PROVE Types' /\ CleanNext /\ Keeps
  BY <1>0, <1>2, IdleFine, Zenon DEF PassFails, Types, Clean
<1>3. ASSUME NEW n \in Nodes, WatcherQueues(n) PROVE Types' /\ CleanNext /\ Keeps
  <2>1. Clock(n) \in Int
    BY <1>0, SkewTypes, Zenon
  <2>2. Types'
    BY <2>1, <1>0, <1>3, Zenon DEF WatcherQueues, Queued, Others, Types
  <2>3. QED
    BY <2>2, <1>0, <1>3, Zenon DEF WatcherQueues, Queued, Others, Clean
<1>4. ASSUME NEW n \in Nodes, UserWrites(n) PROVE Types' /\ CleanNext /\ Keeps
  <2>1. Clock(n) \in Int /\ ops + 1 \in Nat /\ ops + 1 # 0
    BY <1>0, SkewTypes DEF Types
  <2>2. [v |-> ops + 1, m |-> Clock(n)] \in Files /\ Present([v |-> ops + 1, m |-> Clock(n)])
    BY <2>1 DEF Files, Present
  <2>3. Types'
    BY <2>1, <2>2, <1>0, <1>4, Zenon DEF UserWrites, Types
  <2>4. QED
    BY <2>2, <2>3, <1>0, <1>4, Zenon DEF UserWrites, Clean, Types
<1>5. ASSUME NEW n \in Nodes, UserDeletes(n) PROVE Types' /\ CleanNext /\ Keeps
  BY <1>0, <1>5, SkewTypes, SMTT(30) DEF UserDeletes, Types
<1>6. ASSUME NEW n \in Nodes, Crash(n) PROVE Types' /\ CleanNext /\ Keeps
  <2>1. pass' \in [Clients -> Passes] /\ \A c \in Clients : pass'[c] \in {pass[c], Idle}
    BY <1>0, <1>6, IdleFine, Zenon DEF Crash, Types
  <2>2. Types'
    BY <2>1, <1>0, <1>6, IdleFine, SkewTypes, Zenon DEF Crash, Types
  <2>3. QED
    BY <2>1, <2>2, <1>0, <1>6, IdleFine, Zenon DEF Crash, Clean, Types
<1>7. ASSUME Tick \/ UNCHANGED vars PROVE Types' /\ CleanNext /\ Keeps
  BY <1>0, <1>7 DEF Tick, Types, Clean, vars
<1>8. Types' /\ CleanNext /\ Keeps
  BY <1>1, <1>2, <1>3, <1>4, <1>5, <1>6, <1>7, Zenon DEF Next
<1>9. OnlyUsersDelete'
  BY <1>8, Zenon DEF OnlyUsersDelete, Clean, CleanPass
<1>10. QED
  BY <1>8, <1>9, Zenon DEF IInv

\* Tombstones come from users only: in no behaviour, with any number of clients and
\* overlapping passes, any clocks, crashes and late watchers, does a tombstone or a
\* planned deletion exist before some user has deleted the path (flush, record_with,
\* prune and the diff make none up).
THEOREM TombstonesFromUsers == Spec => []OnlyUsersDelete
<1>1. Init => IInv
  BY TypesInit, Zenon DEF IInv
<1>2. IInv /\ [Next]_vars => IInv'
  BY StepKeeps, Zenon
<1>3. IInv => OnlyUsersDelete
  BY Zenon DEF IInv
<1>4. QED
  BY <1>1, <1>2, <1>3, PTL DEF Spec

\* Before the first deletion by a user, no step of a pass, crash or watcher takes the
\* file out of a tree that holds it: installs and uploads replace it by another
\* version, never by nothing.
THEOREM FilesStay == Spec => NothingVanishes
<1>1. Init => IInv
  BY TypesInit, Zenon DEF IInv
<1>2. IInv /\ [Next]_vars => IInv'
  BY StepKeeps, Zenon
<1>3. IInv /\ [Next]_vars =>
        [~deleted' => \A n \in Nodes : Present(file[n]) => Present(file[n]')]_vars
  BY StepKeeps, Zenon
<1>4. QED
  BY <1>1, <1>2, <1>3, PTL DEF Spec, NothingVanishes
-----------------------------------------------------------------------------
(* Last writer wins, between the server and its one client. *)

\* c is the only client, it is two-way, its clock and the server's agree, and all is calm.
Alone(c) ==
    /\ setup.calm /\ TwoWay /\ OneClock
    /\ \A d \in Clients \ {c} : setup.mode[d] = "off"

Latest(n) == last # 0 /\ file[n].v = last
Pair(c) == {c, "s"}
\* Every tombstone the two know of, stored, queued, taken or sent.
Stamps(c) == {store["s"], store[c], pend["s"], pend[c], pass[c].take, pass[c].st}
NoLater(ts, t) == ts = None \/ ts <= t

\* What a calm pass has seen is still there: nobody else touches the trees meanwhile.
Seen(c) ==
    /\ pass[c].off = 0 /\ (pass[c].pc # "idle" => setup.mode[c] # "off")
    /\ pass[c].plan # "none" => pass[c].pc = "act"
    /\ pass[c].pc \in {"flush", "load", "diff", "install"} => pass[c].sf = file["s"]
    /\ pass[c].pc = "diff" \/ pass[c].plan = "upload" => pass[c].cf = file[c]

\* What a plan is going to replace or to remove is not the latest write.
Spares(c) ==
    /\ pass[c].pc = "install" \/ pass[c].plan = "download" => ~Latest(c)
    /\ pass[c].plan = "upload" => ~Latest("s")
    /\ pass[c].plan \in {"local_delete", "server_delete"} => ~Latest(c) /\ ~Latest("s")

\* Stamps and mtimes are past times, versions past writes.
Past(c) ==
    /\ \A ts \in Stamps(c) : NoLater(ts, Clock("s"))
    /\ \A n \in Pair(c) : file[n].v <= ops /\ (Present(file[n]) => file[n].m <= Clock("s"))

\* Where the latest write is, nothing bears a later time, and no removal is unreported.
Tops(c) ==
    \A n \in Pair(c) : Latest(n) =>
        /\ ~ev[c] /\ ~ev["s"]
        /\ \A k \in Pair(c) : Present(file[k]) => file[k].m <= file[n].m
        /\ \A ts \in Stamps(c) : NoLater(ts, file[n].m)

NewestAt(c) ==
    /\ Seen(c) /\ Spares(c) /\ Past(c) /\ Tops(c)
    /\ \A d \in Clients \ {c} : pass[d] = Idle
NewestInv == IInv /\ last \in 0..ops /\ \A c \in Clients : Alone(c) => NewestAt(c)

LEMMA NewestBegins == Init => NewestInv
<1>0. Init => last \in 0..ops
  BY DEF Init, NoFile, Nodes
<1> SUFFICES ASSUME Init, NEW c \in Clients, Alone(c) PROVE NewestAt(c)
  BY <1>0, TypesInit, Zenon DEF NewestInv, IInv
<1>1. c \in Nodes /\ "s" \in Nodes /\ Clock("s") = 0
  BY DEF Nodes, Alone, OneClock, Clock, Init
<1>2. PICK f \in {NoFile, [v |-> 1, m |-> 0]} : file = [n \in Nodes |-> f]
  BY Zenon DEF Init
<1>3. /\ file[c] = f /\ file["s"] = f /\ last = f.v /\ ops = 1
      /\ f.v \in {0, 1} /\ (f.v # 0 => f.m = 0)
  BY <1>1, <1>2 DEF Init, NoFile
<1>4. pass[c] = Idle /\ \A d \in Clients : pass[d] = Idle
  BY Zenon DEF Init
<1>5. Seen(c) /\ Spares(c)
  BY <1>4, SMTT(30) DEF Seen, Spares, Idle
<1>6. (\A ts \in Stamps(c) : ts = None) /\ ~ev[c] /\ ~ev["s"]
  BY <1>1, <1>4, Zenon DEF Stamps, Init, Idle
<1>7. Past(c) /\ Tops(c)
  BY <1>1, <1>3, <1>6, SMTT(30) DEF Past, Tops, Pair, NoLater, Latest, Present
<1>8. QED
  BY <1>4, <1>5, <1>7, Zenon DEF NewestAt

\* The tombstone operators make up no stamp.
LEMMA StampChoice ==
    ASSUME NEW c
    PROVE  /\ \A n, ts : Prune(n, ts) \in {None, ts} /\ RecordWith(n, ts) \in {None, store[n], ts}
           /\ Flushed(c) \in {None, store[c], pend[c]}
           /\ Recorded(c) \in {None, store["s"], pass[c].take}
  BY Zenon DEF Prune, RecordWith, Flushed, Recorded

\* A step that moves no file and makes up no stamp leaves the times in order.
LEMMA TimesKept ==
    ASSUME NEW c, Past(c), Tops(c), UNCHANGED <<setup, now, file, ev, last, ops>>,
           Stamps(c)' \subseteq Stamps(c) \cup {None}
    PROVE  Past(c)' /\ Tops(c)'
<1>1. Clock("s")' = Clock("s") /\ \A n : Latest(n)' <=> Latest(n)
  BY Zenon DEF Clock, Latest
<1>2. \A ts \in Stamps(c)' : ts = None \/ ts \in Stamps(c)
  BY Zenon
<1>3. Past(c)'
  BY <1>1, <1>2, Zenon DEF Past, NoLater, Pair
<1>4. Tops(c)'
  BY <1>1, <1>2, Zenon DEF Tops, NoLater, Pair
<1>5. QED
  BY <1>3, <1>4, Zenon

\* One step of c's pass, from its new locals and what they may hold.
LEMMA CalmStep ==
    ASSUME Types, NEW c \in Clients, NewestAt(c), NEW P, pass' = [pass EXCEPT ![c] = P],
           UNCHANGED <<file, ev>>, Others,
           P.off = 0, setup.mode[c] # "off", P.plan # "none" => P.pc = "act",
           P.pc \in {"flush", "load", "diff", "install"} => P.sf = file["s"],
           P.pc = "diff" \/ P.plan = "upload" => P.cf = file[c],
           P.pc = "install" \/ P.plan = "download" => ~Latest(c),
           P.plan = "upload" => ~Latest("s"),
           P.plan \in {"local_delete", "server_delete"} => ~Latest(c) /\ ~Latest("s"),
           {store'["s"], store'[c], pend'["s"], pend'[c], P.take, P.st} \subseteq Stamps(c) \cup {None}
    PROVE  NewestAt(c)'
<1>1. pass'[c] = P /\ \A d \in Clients \ {c} : pass'[d] = pass[d]
  BY Zenon DEF Types
<1>2. \A n : Latest(n)' <=> Latest(n)
  BY Zenon DEF Latest, Others
<1>3. Seen(c)'
  BY <1>1, Zenon DEF Seen, Others
<1>4. Spares(c)'
  BY <1>1, <1>2, Zenon DEF Spares
<1>5. Stamps(c)' \subseteq Stamps(c) \cup {None}
  BY <1>1, SMTT(30) DEF Stamps
<1>6. Past(c)' /\ Tops(c)'
  BY <1>5, TimesKept, Zenon DEF NewestAt, Others
<1>7. QED
  BY <1>1, <1>3, <1>4, <1>6, Zenon DEF NewestAt

LEMMA HelloNewest ==
    ASSUME Types, NEW c \in Clients, Alone(c), NewestAt(c), Hello(c) PROVE NewestAt(c)'
<1>1. PICK off \in Offsets(c) : TakePending(c, [Idle EXCEPT !.pc = "scan", !.off = off])
  BY Zenon DEF Hello
<1>2. off = 0
  <2>1. setup.skew["s"] = 0 /\ setup.skew[c] = 0 /\ Latency = 0
    BY Zenon DEF Alone, OneClock, Nodes
  <2>2. QED
    BY <1>1, <2>1 DEF Offsets
<1> DEFINE P == [[Idle EXCEPT !.pc = "scan", !.off = off] EXCEPT !.take = pend["s"]]
<1>3. P.pc = "scan" /\ P.off = 0 /\ P.take = pend["s"] /\ P.st = None /\ P.plan = "none"
  BY <1>2, Zenon DEF Idle
<1>4. /\ pass' = [pass EXCEPT ![c] = P] /\ pend' = [pend EXCEPT !["s"] = None]
      /\ UNCHANGED <<file, store, ev>> /\ Others /\ setup.mode[c] # "off"
  BY <1>1, Zenon DEF TakePending, Hello
<1> HIDE DEF P
<1>5. {store'["s"], store'[c], pend'["s"], pend'[c], P.take, P.st} \subseteq Stamps(c) \cup {None}
  BY <1>3, <1>4, ZenonT(30) DEF Stamps, Types, Nodes
<1>6. QED
  BY <1>3, <1>4, <1>5, CalmStep, Zenon

LEMMA ScanNewest ==
    ASSUME Types, NEW c \in Clients, NewestAt(c), ServerScan(c) PROVE NewestAt(c)'
<1> DEFINE P == [pass[c] EXCEPT !.pc = "flush", !.take = None, !.sf = file["s"]]
<1>1. pass[c] \in Passes /\ Seen(c) /\ pass[c].pc = "scan"
  BY Zenon DEF Types, NewestAt, ServerScan, At
<1>2. /\ P.pc = "flush" /\ P.off = 0 /\ P.take = None /\ P.st = pass[c].st
      /\ P.plan = "none" /\ P.sf = file["s"] /\ setup.mode[c] # "off"
  BY <1>1, Zenon DEF Passes, Seen
<1>3. /\ pass' = [pass EXCEPT ![c] = P] /\ store' = [store EXCEPT !["s"] = Recorded(c)]
      /\ UNCHANGED <<file, pend, ev>> /\ Others
  BY Zenon DEF ServerScan, Types, Passes
<1> HIDE DEF P
<1>4. {store'["s"], store'[c], pend'["s"], pend'[c], P.take, P.st} \subseteq Stamps(c) \cup {None}
  BY <1>2, <1>3, StampChoice, Zenon DEF Stamps, Types, Nodes
<1>5. QED
  BY <1>2, <1>3, <1>4, CalmStep, Zenon

LEMMA FlushNewest ==
    ASSUME Types, NEW c \in Clients, NewestAt(c), ServerFlush(c) PROVE NewestAt(c)'
<1> DEFINE P == [[pass[c] EXCEPT !.pc = "load"] EXCEPT !.take = pend["s"]]
<1>1. pass[c] \in Passes /\ Seen(c) /\ pass[c].pc = "flush"
  BY Zenon DEF Types, NewestAt, ServerFlush, At
<1>2. /\ P.pc = "load" /\ P.off = 0 /\ P.take = pend["s"] /\ P.st = pass[c].st
      /\ P.plan = "none" /\ P.sf = file["s"] /\ setup.mode[c] # "off"
  BY <1>1, Zenon DEF Passes, Seen
<1>3. /\ pass' = [pass EXCEPT ![c] = P] /\ pend' = [pend EXCEPT !["s"] = None]
      /\ UNCHANGED <<file, store, ev>> /\ Others
  BY Zenon DEF ServerFlush, TakePending
<1> HIDE DEF P
<1>4. {store'["s"], store'[c], pend'["s"], pend'[c], P.take, P.st} \subseteq Stamps(c) \cup {None}
  BY <1>2, <1>3, Zenon DEF Stamps, Types, Nodes
<1>5. QED
  BY <1>2, <1>3, <1>4, CalmStep, Zenon

LEMMA LoadNewest ==
    ASSUME Types, NEW c \in Clients, NewestAt(c), LoadAndScan(c) PROVE NewestAt(c)'
<1> DEFINE P == [pass[c] EXCEPT !.pc = "diff", !.take = None,
                                !.st = Prune("s", Recorded(c)), !.cf = file[c]]
<1>1. pass[c] \in Passes /\ Seen(c) /\ pass[c].pc = "load"
  BY Zenon DEF Types, NewestAt, LoadAndScan, At
<1>2. /\ P.pc = "diff" /\ P.off = 0 /\ P.take = None /\ P.st = Prune("s", Recorded(c))
      /\ P.plan = "none" /\ P.sf = file["s"] /\ P.cf = file[c] /\ setup.mode[c] # "off"
  BY <1>1, Zenon DEF Passes, Seen
<1>3. /\ pass' = [pass EXCEPT ![c] = P] /\ store' = [store EXCEPT !["s"] = Recorded(c)]
      /\ UNCHANGED <<file, pend, ev>> /\ Others
  BY Zenon DEF LoadAndScan, Types, Passes
<1> HIDE DEF P
<1>4. Recorded(c) \in Stamps(c) \cup {None} /\ P.st \in Stamps(c) \cup {None}
  <2>1. Recorded(c) \in {None, store["s"], pass[c].take} /\ P.st \in {None, Recorded(c)}
    BY <1>2, StampChoice, ZenonT(30)
  <2>2. QED
    BY <2>1, ZenonT(30) DEF Stamps
<1>5. {store'["s"], store'[c], pend'["s"], pend'[c], P.take, P.st} \subseteq Stamps(c) \cup {None}
  BY <1>2, <1>3, <1>4, ZenonT(30) DEF Stamps, Types, Nodes
<1>6. QED
  BY <1>2, <1>3, <1>5, CalmStep, Zenon

\* The diff takes the side of the latest write: when one of the two copies it compares is
\* that write, no mtime and no stamp in either store is later, and the copy is neither
\* overwritten nor deleted.
LEMMA DecideNewest ==
    ASSUME NEW c, Mode(c) = "bidir", NEW sf \in Files, NEW cf \in Files, NEW st \in Int, NEW lt \in Int,
           NEW v \in Int, v # 0, Tolerance \in Nat,
           sf.v = v => (Present(cf) => cf.m <= sf.m) /\ NoLater(st, sf.m) /\ NoLater(lt, sf.m),
           cf.v = v => (Present(sf) => sf.m <= cf.m) /\ NoLater(st, cf.m) /\ NoLater(lt, cf.m)
    PROVE  LET plan == Decide(c, sf, cf, st, lt, 0)
           IN  /\ plan = "download" => cf.v # v
               /\ plan = "upload" => sf.v # v
               /\ plan \in {"local_delete", "server_delete"} => cf.v # v /\ sf.v # v
<1> DEFINE plan == Decide(c, sf, cf, st, lt, 0)
<1>1. sf.m \in Int /\ cf.m \in Int /\ sf.v \in Int /\ cf.v \in Int /\ sf.m - 0 = sf.m
      /\ st - 0 = st
  BY DEF Files
<1>2. CASE Present(sf) /\ ~Present(cf)
  <2>1. plan = IF WeDeleted(lt, sf.m) THEN "server_delete" ELSE "download"
    BY <1>1, <1>2, Zenon DEF Decide
  <2>2. cf.v # v
    BY <1>2, Zenon DEF Present
  <2>3. sf.v = v => ~WeDeleted(lt, sf.m)
    BY <1>1, SMTT(30) DEF WeDeleted, NoLater
  <2>4. QED
    BY <2>1, <2>2, <2>3, Zenon
<1>3. CASE Present(sf) /\ Present(cf) /\ sf.v # cf.v
  <2>1. plan = IF Newer(sf.m, cf.m) THEN "download"
               ELSE IF Newer(cf.m, sf.m) THEN "upload" ELSE "conflict"
    BY <1>1, <1>3, Zenon DEF Decide
  <2>2. (cf.v = v => ~Newer(sf.m, cf.m)) /\ (sf.v = v => ~Newer(cf.m, sf.m))
    BY <1>1, <1>3, SMTT(30) DEF Newer
  <2>3. QED
    BY <2>1, <2>2, Zenon
<1>4. CASE ~Present(sf) /\ Present(cf)
  <2>1. plan = IF TheyDeleted(st, 0, cf.m) THEN "local_delete" ELSE "upload"
    BY <1>4, Zenon DEF Decide
  <2>2. sf.v # v
    BY <1>4, Zenon DEF Present
  <2>3. cf.v = v => ~TheyDeleted(st, 0, cf.m)
    BY <1>1, SMTT(30) DEF TheyDeleted, NoLater
  <2>4. QED
    BY <2>1, <2>2, <2>3, Zenon
<1>5. CASE (~Present(sf) /\ ~Present(cf)) \/ sf.v = cf.v
  <2>1. \/ plan = "none"
        \/ Present(sf) /\ ~Present(cf)
        \/ ~Present(sf) /\ Present(cf)
    BY <1>5, Zenon DEF Decide
  <2>2. QED
    BY <2>1, <1>2, <1>4, Zenon
<1>6. QED
  BY <1>2, <1>3, <1>4, <1>5, Zenon

LEMMA DiffNewest ==
    ASSUME Types, last \in Int, NEW c \in Clients, Alone(c), NewestAt(c), Diff(c) PROVE NewestAt(c)'
<1> DEFINE lt == Prune(c, Flushed(c))
           sf == file["s"]
           cf == file[c]
           plan == Decide(c, sf, cf, pass[c].st, lt, 0)
           P == CASE plan = "download" ->
                       [Idle EXCEPT !.pc = "act", !.plan = plan, !.sf = pass[c].sf,
                                    !.off = pass[c].off]
                  [] plan = "server_delete" ->
                       [Idle EXCEPT !.pc = "act", !.plan = plan, !.st = lt, !.off = pass[c].off]
                  [] plan = "local_delete" ->
                       [Idle EXCEPT !.pc = "act", !.plan = plan, !.st = pass[c].st - pass[c].off]
                  [] plan = "upload" -> [Idle EXCEPT !.pc = "act", !.plan = plan, !.cf = pass[c].cf]
                  [] OTHER -> Idle
<1>1. /\ pass[c] \in Passes /\ c \in Nodes /\ "s" \in Nodes /\ sf \in Files /\ cf \in Files
      /\ Flushed(c) \in Int /\ lt \in Int /\ pass[c].st \in Int
  BY StampTypes, Zenon DEF Types, Nodes, Passes
<1>2. /\ pass[c].off = 0 /\ setup.mode[c] # "off" /\ Mode(c) = "bidir"
      /\ pass[c].sf = sf /\ pass[c].cf = cf
  BY Zenon DEF NewestAt, Seen, Diff, At, Alone, TwoWay
<1>3. {Flushed(c), lt} \subseteq Stamps(c) \cup {None} /\ pass[c].st \in Stamps(c)
  BY StampChoice, ZenonT(30) DEF Stamps
<1>4. /\ plan = "download" => ~Latest(c)
      /\ plan = "upload" => ~Latest("s")
      /\ plan \in {"local_delete", "server_delete"} => ~Latest(c) /\ ~Latest("s")
  <2>1. CASE last = 0
    BY <2>1, Zenon DEF Latest
  <2>2. CASE last # 0
    <3>1. sf.v = last => (Present(cf) => cf.m <= sf.m) /\ NoLater(pass[c].st, sf.m) /\ NoLater(lt, sf.m)
      BY <2>2, <1>3, Zenon DEF NewestAt, Tops, Pair, Latest, NoLater
    <3>2. cf.v = last => (Present(sf) => sf.m <= cf.m) /\ NoLater(pass[c].st, cf.m) /\ NoLater(lt, cf.m)
      BY <2>2, <1>3, Zenon DEF NewestAt, Tops, Pair, Latest, NoLater
    <3> HIDE DEF sf, cf, lt
    <3>3. QED
      BY <2>2, <3>1, <3>2, <1>1, <1>2, DecideNewest, PassAssumption, ZenonT(40) DEF Latest, sf, cf
  <2>3. QED
    BY <2>1, <2>2, Zenon
<1>5. /\ pass' = [pass EXCEPT ![c] = P] /\ store' = [store EXCEPT ![c] = Flushed(c)]
      /\ pend' = [pend EXCEPT ![c] = None] /\ UNCHANGED <<file, ev>> /\ Others
  BY <1>2, Zenon DEF Diff
<1>6. pass[c].st - pass[c].off = pass[c].st
  BY <1>1, <1>2, SMTT(30)
<1> HIDE DEF plan, lt, sf, cf
<1>7. /\ P.off = 0 /\ P.take = None /\ P.st \in {None, lt, pass[c].st}
      /\ \/ P.pc = "act" /\ P.plan = plan /\ (plan = "upload" => P.cf = cf)
         \/ P.pc = "idle" /\ P.plan = "none"
  <2> USE <1>1, <1>2, <1>6 DEF Idle, Passes
  <2>1. CASE plan = "download"
    BY <2>1, Zenon
  <2>2. CASE plan = "server_delete"
    BY <2>2, Zenon
  <2>3. CASE plan = "local_delete"
    BY <2>3, Zenon
  <2>4. CASE plan = "upload"
    BY <2>4, Zenon
  <2>5. CASE plan \notin {"download", "server_delete", "local_delete", "upload"}
    BY <2>5, Zenon
  <2>6. QED
    BY <2>1, <2>2, <2>3, <2>4, <2>5, Zenon
<1> HIDE DEF P
<1>8. {store'["s"], store'[c], pend'["s"], pend'[c], P.take, P.st} \subseteq Stamps(c) \cup {None}
  BY <1>3, <1>5, <1>7 DEF Stamps, Types, Nodes
<1>9. QED
  BY <1>2, <1>4, <1>5, <1>7, <1>8, CalmStep, ZenonT(30) DEF cf

LEMMA FetchNewest ==
    ASSUME Types, NEW c \in Clients, NewestAt(c), Fetch(c) PROVE NewestAt(c)'
<1> DEFINE drop == WeDeleted(Flushed(c), pass[c].sf.m - pass[c].off) \/ ~Present(file["s"])
           P == IF drop THEN Idle ELSE [Idle EXCEPT !.pc = "install", !.sf = file["s"]]
<1>1. setup.mode[c] # "off" /\ ~Latest(c)
  BY Zenon DEF NewestAt, Seen, Spares, Fetch, Act, At
<1>2. /\ pass' = [pass EXCEPT ![c] = P] /\ store' = [store EXCEPT ![c] = Flushed(c)]
      /\ pend' = [pend EXCEPT ![c] = None] /\ UNCHANGED <<file, ev>> /\ Others
  BY Zenon DEF Fetch, Act
<1> HIDE DEF drop
<1>3. /\ P.off = 0 /\ P.take = None /\ P.st = None /\ P.plan = "none" /\ P.pc \in {"idle", "install"}
      /\ P.pc = "install" => P.sf = file["s"]
  BY Zenon DEF Idle
<1> HIDE DEF P
<1>4. {store'["s"], store'[c], pend'["s"], pend'[c], P.take, P.st} \subseteq Stamps(c) \cup {None}
  BY <1>2, <1>3, StampChoice, ZenonT(30) DEF Stamps, Types, Nodes
<1>5. QED
  BY <1>1, <1>2, <1>3, <1>4, CalmStep, Zenon

\* A pass that is over holds nothing; c is free to be elsewhere in the trees.
LEMMA IdleStep ==
    ASSUME Types, NEW c \in Clients, NewestAt(c), pass' = [pass EXCEPT ![c] = Idle]
    PROVE  Seen(c)' /\ Spares(c)' /\ pass'[c].take = None /\ pass'[c].st = None
           /\ \A d \in Clients \ {c} : pass'[d] = Idle
<1>1. pass'[c] = Idle /\ \A d \in Clients \ {c} : pass'[d] = pass[d]
  BY Zenon DEF Types
<1>2. QED
  BY <1>1 DEF Seen, Spares, Idle, NewestAt

\* A copy from one of the two trees to the other keeps the times in order.
LEMMA CopyNewest ==
    ASSUME Types, NEW c \in Clients, NewestAt(c), NEW a \in Pair(c), NEW b \in Pair(c), ~Latest(b),
           file' = [file EXCEPT ![b] = file[a]], pass' = [pass EXCEPT ![c] = Idle],
           UNCHANGED ev, Others,
           {store'["s"], store'[c], pend'["s"], pend'[c]} \subseteq Stamps(c) \cup {None}
    PROVE  NewestAt(c)' /\ \A n \in Nodes : Latest(n) => file'[n] = file[n]
<1>1. a \in Nodes /\ b \in Nodes /\ Pair(c) \subseteq Nodes /\ file'[b] = file[a]
      /\ (\A n \in Nodes \ {b} : file'[n] = file[n])
  BY Zenon DEF Pair, Nodes, Types
<1>2. /\ Seen(c)' /\ Spares(c)' /\ pass'[c].take = None /\ pass'[c].st = None
      /\ \A d \in Clients \ {c} : pass'[d] = Idle
  BY IdleStep, Zenon
<1>3. \A ts \in Stamps(c)' : ts = None \/ ts \in Stamps(c)
  BY <1>2, Zenon DEF Stamps
<1>4. \A n \in Pair(c) : \E k \in Pair(c) : file'[n] = file[k]
  BY <1>1, Zenon
<1>5. Past(c)'
  <2>1. Clock("s")' = Clock("s") /\ ops' = ops
    BY Zenon DEF Clock, Others
  <2>2. \A ts \in Stamps(c)' : NoLater(ts, Clock("s"))
    BY <1>3, Zenon DEF NewestAt, Past, NoLater
  <2>3. ASSUME NEW n \in Pair(c)
        PROVE  file'[n].v <= ops /\ (Present(file'[n]) => file'[n].m <= Clock("s"))
    BY <1>4, Zenon DEF NewestAt, Past
  <2>4. QED
    BY <2>1, <2>2, <2>3, Zenon DEF Past, Pair, NoLater
<1>6. Tops(c)'
  <2>1. SUFFICES ASSUME NEW n \in Pair(c), last # 0, file'[n].v = last
                 PROVE  /\ ~ev[c] /\ ~ev["s"]
                        /\ \A k \in Pair(c) : Present(file'[k]) => file'[k].m <= file'[n].m
                        /\ \A ts \in Stamps(c)' : NoLater(ts, file'[n].m)
    BY Zenon DEF Tops, Latest, Others, Pair
  <2>2. PICK l \in Pair(c) : file'[n] = file[l]
    BY <1>4, Zenon
  <2>3. Latest(l)
    BY <2>1, <2>2, Zenon DEF Latest
  <2>4. QED
    BY <1>3, <1>4, <2>2, <2>3, ZenonT(30) DEF NewestAt, Tops, NoLater
<1>7. QED
  BY <1>1, <1>2, <1>5, <1>6, Zenon DEF NewestAt

LEMMA InstallNewest ==
    ASSUME Types, NEW c \in Clients, NewestAt(c), Install(c)
    PROVE  NewestAt(c)' /\ \A n \in Nodes : Latest(n) => file'[n] = file[n]
<1>1. ~Latest(c) /\ pass[c].sf = file["s"]
  BY Zenon DEF NewestAt, Seen, Spares, Install, At
<1>2. /\ file' = [file EXCEPT ![c] = file["s"]] /\ pass' = [pass EXCEPT ![c] = Idle]
      /\ UNCHANGED <<store, pend, ev>> /\ Others
  BY <1>1, Zenon DEF Install
<1>3. {store'["s"], store'[c], pend'["s"], pend'[c]} \subseteq Stamps(c) \cup {None}
  BY <1>2, Zenon DEF Stamps
<1>4. c \in Pair(c) /\ "s" \in Pair(c)
  BY Zenon DEF Pair
<1>5. QED
  BY <1>1, <1>2, <1>3, <1>4, CopyNewest, Zenon

LEMMA UploadNewest ==
    ASSUME Types, NEW c \in Clients, NewestAt(c), Upload(c)
    PROVE  NewestAt(c)' /\ \A n \in Nodes : Latest(n) => file'[n] = file[n]
<1>1. ~Latest("s") /\ pass[c].cf = file[c]
  BY Zenon DEF NewestAt, Seen, Spares, Upload, Act
<1>2. /\ file' = [file EXCEPT !["s"] = file[c]] /\ pass' = [pass EXCEPT ![c] = Idle]
      /\ store' = [store EXCEPT ![c] = Flushed(c)] /\ pend' = [pend EXCEPT ![c] = None]
      /\ UNCHANGED ev /\ Others
  BY <1>1, Zenon DEF Upload, Act
<1>3. {store'["s"], store'[c], pend'["s"], pend'[c]} \subseteq Stamps(c) \cup {None}
  BY <1>2, StampChoice, ZenonT(30) DEF Stamps, Types, Nodes
<1>4. c \in Pair(c) /\ "s" \in Pair(c)
  BY Zenon DEF Pair
<1>5. QED
  BY <1>1, <1>2, <1>3, <1>4, CopyNewest, Zenon

\* A deletion of a copy that is not the latest write; afterwards neither copy is.
LEMMA DeleteNewest ==
    ASSUME Types, NEW c \in Clients, NewestAt(c), NEW b \in Pair(c), ~Latest(c), ~Latest("s"),
           file' = [file EXCEPT ![b] = NoFile] \/ file' = file, pass' = [pass EXCEPT ![c] = Idle], Others,
           {store'["s"], store'[c], pend'["s"], pend'[c]} \subseteq Stamps(c) \cup {None, Clock("s")}
    PROVE  NewestAt(c)' /\ \A n \in Nodes : Latest(n) => file'[n] = file[n]
<1>1. /\ b \in Nodes /\ Pair(c) \subseteq Nodes /\ file'[b] \in {file[b], NoFile}
      /\ \A n \in Nodes \ {b} : file'[n] = file[n]
  BY Zenon DEF Pair, Nodes, Types
<1>2. /\ Seen(c)' /\ Spares(c)' /\ pass'[c].take = None /\ pass'[c].st = None
      /\ \A d \in Clients \ {c} : pass'[d] = Idle
  BY IdleStep, Zenon
<1>3. \A ts \in Stamps(c)' : ts = None \/ ts \in Stamps(c) \/ ts = Clock("s")
  BY <1>2, ZenonT(30) DEF Stamps
<1>4. \A n \in Pair(c) : ~Latest(n) /\ (file'[n] = file[n] \/ file'[n] = NoFile)
  BY <1>1, Zenon DEF Pair
<1>5. Clock("s") \in Int /\ ops \in Nat /\ NoFile.v = 0
  BY SkewTypes, Zenon DEF Nodes, Types, NoFile
<1>6. Past(c)'
  <2>1. Clock("s")' = Clock("s") /\ ops' = ops
    BY Zenon DEF Clock, Others
  <2>2. \A ts \in Stamps(c)' : NoLater(ts, Clock("s"))
    BY <1>3, <1>5, SMTT(30) DEF NewestAt, Past, NoLater
  <2>3. ASSUME NEW n \in Pair(c)
        PROVE  file'[n].v <= ops /\ (Present(file'[n]) => file'[n].m <= Clock("s"))
    BY <1>4, <1>5, SMTT(30) DEF NewestAt, Past, Present
  <2>4. QED
    BY <2>1, <2>2, <2>3, Zenon DEF Past, Pair, NoLater
<1>7. \A n \in Pair(c) : ~(last # 0 /\ file'[n].v = last)
  BY <1>4, <1>5, Zenon DEF Latest
<1>8. Tops(c)'
  BY <1>7, Zenon DEF Tops, Latest, Others, Pair
<1>9. ASSUME NEW n \in Nodes, Latest(n) PROVE file'[n] = file[n]
  BY <1>1, <1>4, <1>9, Zenon
<1>10. QED
  BY <1>2, <1>6, <1>8, <1>9, Zenon DEF NewestAt

LEMMA LocalDeleteNewest ==
    ASSUME Types, NEW c \in Clients, NewestAt(c), LocalDelete(c)
    PROVE  NewestAt(c)' /\ \A n \in Nodes : Latest(n) => file'[n] = file[n]
<1> DEFINE ts == IF Present(file[c]) THEN RecordWith(c, pass[c].st) ELSE Flushed(c)
<1>1. ~Latest(c) /\ ~Latest("s")
  BY Zenon DEF NewestAt, Spares, LocalDelete, Act
<1>2. /\ file' = [file EXCEPT ![c] = NoFile] /\ store' = [store EXCEPT ![c] = ts]
      /\ pend' = [pend EXCEPT ![c] = None] /\ pass' = [pass EXCEPT ![c] = Idle] /\ Others
  BY Zenon DEF LocalDelete, Act
<1>3. ts \in Stamps(c) \cup {None}
  BY StampChoice, ZenonT(30) DEF Stamps
<1> HIDE DEF ts
<1>4. {store'["s"], store'[c], pend'["s"], pend'[c]} \subseteq Stamps(c) \cup {None, Clock("s")}
  BY <1>2, <1>3 DEF Stamps, Types, Nodes
<1>5. c \in Pair(c)
  BY Zenon DEF Pair
<1>6. QED
  BY <1>1, <1>2, <1>4, <1>5, DeleteNewest, Zenon

LEMMA ServerDeleteNewest ==
    ASSUME Types, NEW c \in Clients, NewestAt(c), ServerDelete(c)
    PROVE  NewestAt(c)' /\ \A n \in Nodes : Latest(n) => file'[n] = file[n]
<1> DEFINE ok == file["s"].m <= pass[c].st + pass[c].off
           sts == IF ok THEN RecordWith("s", Clock("s")) ELSE store["s"]
           cts == IF ok THEN RecordWith(c, pass[c].st) ELSE Flushed(c)
<1>1. ~Latest(c) /\ ~Latest("s")
  BY Zenon DEF NewestAt, Spares, ServerDelete, Act
<1>2. /\ store' = [store EXCEPT !["s"] = sts, ![c] = cts]
      /\ file' = [file EXCEPT !["s"] = NoFile] \/ file' = file
      /\ pend' = [pend EXCEPT ![c] = None] /\ pass' = [pass EXCEPT ![c] = Idle] /\ Others
  BY Zenon DEF ServerDelete, Act
<1>3. {sts, cts} \subseteq Stamps(c) \cup {None, Clock("s")}
  BY StampChoice, ZenonT(30) DEF Stamps
<1> HIDE DEF sts, cts
<1>4. {store'["s"], store'[c], pend'["s"], pend'[c]} \subseteq Stamps(c) \cup {None, Clock("s")}
  BY <1>2, <1>3 DEF Stamps, Types, Nodes
<1>5. "s" \in Pair(c)
  BY Zenon DEF Pair
<1>6. QED
  BY <1>1, <1>2, <1>4, <1>5, DeleteNewest, Zenon

\* A step of c's pass; what it changes is not the latest write.
LEMMA PassNewest ==
    ASSUME Types, last \in Int, NEW c \in Clients, Alone(c), NewestAt(c), PassStep(c)
    PROVE  NewestAt(c)' /\ \A n \in Nodes : Latest(n) => file'[n] = file[n]
<1>1. CASE Hello(c) \/ ServerScan(c) \/ ServerFlush(c) \/ LoadAndScan(c) \/ Diff(c) \/ Fetch(c)
  <2>1. file' = file
    BY <1>1, Zenon DEF Hello, ServerScan, ServerFlush, LoadAndScan, Diff, Fetch
  <2>2. QED
    BY <1>1, <2>1, HelloNewest, ScanNewest, FlushNewest, LoadNewest, DiffNewest, FetchNewest, ZenonT(30)
<1>2. QED
  BY <1>1, InstallNewest, LocalDeleteNewest, ServerDeleteNewest, UploadNewest, Zenon DEF PassStep

LEMMA IdleFields ==
    /\ Idle.pc = "idle" /\ Idle.off = 0 /\ Idle.plan = "none"
    /\ Idle.take = None /\ Idle.st = None
  BY DEF Idle

\* The client that is off has no pass, and none that could fail.
LEMMA OffStaysOff ==
    ASSUME Types, NEW c \in Clients, Alone(c), NewestAt(c), NEW d \in Clients, d # c
    PROVE  ~PassStep(d) /\ ~PassFails(d)
<1>1. pass[d].pc = "idle" /\ setup.mode[d] = "off"
  BY IdleFields, ZenonT(30) DEF NewestAt, Alone
<1>2. QED
  BY <1>1, Zenon DEF PassStep, PassFails, Hello, ServerScan, ServerFlush, LoadAndScan, Diff, Fetch,
     Install, LocalDelete, ServerDelete, Upload, Act, At

LEMMA ClockShared ==
    ASSUME Types, NEW c, Alone(c)
    PROVE  now \in Int /\ \A n \in Nodes : Clock(n) = now
<1>1. now \in Int /\ \A n \in Nodes : setup.skew[n] = 0
  BY Zenon DEF Types, Alone, OneClock
<1>2. QED
  BY <1>1 DEF Clock

\* A watcher stamps what it reports with the present; it has something to report only
\* when neither copy is the latest write.
LEMMA WatcherNewest ==
    ASSUME Types, NEW c \in Clients, Alone(c), NewestAt(c), NEW n \in Nodes, WatcherQueues(n)
    PROVE  NewestAt(c)'
<1>1. c \in Nodes /\ "s" \in Nodes /\ Clock("s") \in Int /\ Clock(n) = Clock("s")
  BY ClockShared, Zenon DEF Nodes
<1>2. UNCHANGED <<setup, now, file, store, pass, last, ops>>
  BY Zenon DEF WatcherQueues, Others
<1>3. Seen(c)' /\ Spares(c)' /\ \A d \in Clients \ {c} : pass'[d] = Idle
  BY <1>2, Zenon DEF NewestAt, Seen, Spares, Latest
<1>4. CASE n \notin Pair(c)
  <2>1. ev'[c] = ev[c] /\ ev'["s"] = ev["s"] /\ pend'[c] = pend[c] /\ pend'["s"] = pend["s"]
    BY <1>1, <1>4, Zenon DEF WatcherQueues, Types, Pair
  <2>2. Stamps(c)' = Stamps(c)
    BY <1>2, <2>1, Zenon DEF Stamps
  <2>3. Past(c)' /\ Tops(c)'
    BY <1>2, <2>1, <2>2, Zenon DEF NewestAt, Past, Tops, Clock, Latest, Pair, NoLater
  <2>4. QED
    BY <1>3, <2>3, Zenon DEF NewestAt
<1>5. CASE n \in Pair(c)
  <2>1. ~Latest(c) /\ ~Latest("s")
    BY <1>5, Zenon DEF NewestAt, Tops, Pair, WatcherQueues
  <2>2. Tops(c)'
    BY <1>2, <2>1, Zenon DEF Tops, Latest, Pair
  <2>3. {pend'[c], pend'["s"]} \subseteq {pend[c], pend["s"], Clock("s")}
    BY <1>1, Zenon DEF WatcherQueues, Queued, Types
  <2>4. \A ts \in Stamps(c)' : ts \in Stamps(c) \/ ts = Clock("s")
    BY <1>2, <2>3, Zenon DEF Stamps
  <2>5. Past(c)'
    BY <1>1, <1>2, <2>4, SMTT(30) DEF NewestAt, Past, Clock, Pair, NoLater
  <2>6. QED
    BY <1>3, <2>2, <2>5, Zenon DEF NewestAt
<1>6. QED
  BY <1>4, <1>5, Zenon

\* The user's write bears the present time, which no stamp and no other mtime exceeds.
LEMMA WriteNewest ==
    ASSUME Types, NEW c \in Clients, Alone(c), NewestAt(c), NEW n \in Nodes, UserWrites(n)
    PROVE  NewestAt(c)'
<1> DEFINE f == [v |-> ops + 1, m |-> Clock(n)]
<1>1. /\ c \in Nodes /\ "s" \in Nodes /\ Clock("s") = now /\ Clock(n) = now /\ now \in Int
      /\ ops \in Nat
  BY ClockShared, Zenon DEF Nodes, Types
<1>2. f.v = ops + 1 /\ f.m = now
  BY <1>1, Zenon
<1>3. /\ file' = [file EXCEPT ![n] = f] /\ last' = ops + 1 /\ ops' = ops + 1
      /\ UNCHANGED <<setup, now, store, pend, ev, pass>>
  BY Zenon DEF UserWrites
<1>4. ~ev[c] /\ ~ev["s"] /\ pass[c].pc = "idle"
  BY <1>1, Zenon DEF UserWrites, UserMayAct, Prompt, Alone, At
<1> HIDE DEF f
<1>5. \A k \in Pair(c) : file'[k] = file[k] \/ (k = n /\ file'[k] = f)
  BY <1>1, <1>3, Zenon DEF Types, Pair
<1>6. Seen(c)' /\ Spares(c)' /\ \A d \in Clients \ {c} : pass'[d] = Idle
  BY <1>3, <1>4, Zenon DEF NewestAt, Seen, Spares
<1>7. Stamps(c)' = Stamps(c) /\ Clock("s")' = now
  BY <1>1, <1>3, Zenon DEF Stamps, Clock
<1>8. ASSUME NEW k \in Pair(c)
      PROVE  /\ file[k].v \in Int /\ file[k].v <= ops
             /\ file'[k].v <= ops + 1 /\ (Present(file'[k]) => file'[k].m <= now)
  <2>1. file[k].v \in Int /\ file[k].v <= ops /\ (Present(file[k]) => file[k].m <= now)
    BY <1>1, Zenon DEF NewestAt, Past, Types, Files, Pair
  <2>2. CASE file'[k] = file[k]
    BY <2>1, <2>2, <1>1
  <2>3. CASE file'[k] = f
    BY <2>1, <2>3, <1>1, <1>2
  <2>4. QED
    BY <2>2, <2>3, <1>5, Zenon
<1>9. Past(c)'
  <2>1. \A ts \in Stamps(c) : NoLater(ts, now)
    BY <1>1, Zenon DEF NewestAt, Past
  <2>2. QED
    BY <1>3, <1>7, <1>8, <2>1, Zenon DEF Past, Pair, NoLater
<1>10. Tops(c)'
  <2>1. SUFFICES ASSUME NEW k \in Pair(c), file'[k].v = ops + 1
                 PROVE  /\ ~ev[c] /\ ~ev["s"]
                        /\ \A l \in Pair(c) : Present(file'[l]) => file'[l].m <= file'[k].m
                        /\ \A ts \in Stamps(c) : NoLater(ts, file'[k].m)
    BY <1>3, <1>7, Zenon DEF Tops, Latest, Pair
  <2>2. file'[k].m = now
    <3>1. file'[k] # file[k]
      BY <1>1, <1>8, <2>1, SMTT(30)
    <3>2. QED
      BY <1>2, <1>5, <3>1, Zenon
  <2>3. QED
    BY <1>1, <1>4, <1>8, <2>2, Zenon DEF NewestAt, Past
<1>11. QED
  BY <1>6, <1>9, <1>10, Zenon DEF NewestAt

LEMMA UserDeleteNewest ==
    ASSUME Types, NEW c \in Clients, Alone(c), NewestAt(c), NEW n \in Nodes, UserDeletes(n)
    PROVE  NewestAt(c)'
<1>1. /\ file' = [file EXCEPT ![n] = NoFile] /\ last' = 0 /\ ops' = ops + 1 /\ ops \in Nat
      /\ UNCHANGED <<setup, now, store, pend, pass>> /\ c \in Nodes /\ "s" \in Nodes
  BY Zenon DEF UserDeletes, Types, Nodes
<1>2. pass[c].pc = "idle"
  BY Zenon DEF UserDeletes, UserMayAct, Alone, At
<1>3. Seen(c)' /\ Spares(c)' /\ (\A d \in Clients \ {c} : pass'[d] = Idle) /\ Tops(c)'
  BY <1>1, <1>2, Zenon DEF NewestAt, Seen, Spares, Tops, Latest
<1>4. Stamps(c)' = Stamps(c) /\ Clock("s")' = Clock("s")
  BY <1>1, Zenon DEF Stamps, Clock
<1>5. ASSUME NEW k \in Pair(c)
      PROVE  file'[k].v <= ops + 1 /\ (Present(file'[k]) => file'[k].m <= Clock("s"))
  <2>1. file[k].v \in Int /\ file[k].v <= ops /\ (Present(file[k]) => file[k].m <= Clock("s"))
    BY <1>1, Zenon DEF NewestAt, Past, Types, Files, Pair
  <2>2. file'[k] = file[k] \/ (file'[k].v = 0 /\ ~Present(file'[k]))
    BY <1>1, Zenon DEF Types, Pair, NoFile, Present
  <2>3. QED
    BY <1>1, <2>1, <2>2
<1>6. Past(c)'
  BY <1>1, <1>4, <1>5, Zenon DEF NewestAt, Past, Pair, NoLater
<1>7. QED
  BY <1>3, <1>6, Zenon DEF NewestAt

\* A death takes stamps, reports and passes away, and no file.
LEMMA CrashNewest ==
    ASSUME Types, NEW c \in Clients, NewestAt(c),
           (\E n \in Nodes : Crash(n)) \/ PassFails(c)
    PROVE  NewestAt(c)'
<1>1. UNCHANGED <<setup, now, file, store, last, ops>> /\ c \in Nodes /\ "s" \in Nodes
  BY Zenon DEF Crash, PassFails, Nodes
<1>2. (pass'[c] = pass[c] \/ pass'[c] = Idle) /\ \A d \in Clients \ {c} : pass'[d] = Idle
  BY DEF Crash, PassFails, Types, NewestAt
<1>3. /\ pend'[c] \in {None, pend[c]} /\ pend'["s"] \in {None, pend["s"]}
      /\ (ev'[c] => ev[c]) /\ (ev'["s"] => ev["s"])
  BY <1>1, Zenon DEF Crash, PassFails, Types
<1>4. Seen(c)' /\ Spares(c)'
  <2>1. CASE pass'[c] = pass[c]
    BY <1>1, <2>1, ZenonT(30) DEF NewestAt, Seen, Spares, Latest
  <2>2. CASE pass'[c] = Idle
    BY <2>2, IdleFields, ZenonT(30) DEF Seen, Spares
  <2>3. QED
    BY <1>2, <2>1, <2>2, Zenon
<1>5. \A ts \in Stamps(c)' : ts = None \/ ts \in Stamps(c)
  <2>1. CASE pass'[c] = pass[c]
    BY <1>1, <1>3, <2>1, ZenonT(30) DEF Stamps
  <2>2. CASE pass'[c] = Idle
    BY <1>1, <1>3, <2>2, IdleFields, ZenonT(30) DEF Stamps
  <2>3. QED
    BY <1>2, <2>1, <2>2, Zenon
<1>6. Clock("s")' = Clock("s") /\ \A n : Latest(n)' <=> Latest(n)
  BY <1>1 DEF Clock, Latest
<1>7. Past(c)'
  BY <1>1, <1>5, <1>6 DEF NewestAt, Past, NoLater, Pair
<1>8. Tops(c)'
  BY <1>1, <1>3, <1>5, <1>6 DEF NewestAt, Tops, NoLater, Pair
<1>9. QED
  BY <1>2, <1>4, <1>7, <1>8, Zenon DEF NewestAt

LEMMA TickNewest ==
    ASSUME Types, NEW c \in Clients, Alone(c), NewestAt(c), Tick
    PROVE  NewestAt(c)'
<1>1. UNCHANGED <<setup, file, store, pend, ev, pass, last, ops>> /\ now' = now + 1
  BY DEF Tick
<1>2. setup.skew["s"] \in Int /\ now \in Int
  BY DEF Alone, OneClock, Nodes, Types
<1>3. Clock("s") \in Int /\ Clock("s")' = Clock("s") + 1
  BY <1>1, <1>2, SMTT(30) DEF Clock
<1>4. Seen(c)' /\ Spares(c)' /\ Tops(c)' /\ \A d \in Clients \ {c} : pass'[d] = Idle
  BY <1>1, ZenonT(30) DEF NewestAt, Seen, Spares, Tops, Latest, Stamps, Pair, NoLater
<1>5. Stamps(c)' = Stamps(c) /\ Stamps(c) \subseteq Int
  BY <1>1 DEF Stamps, Types, Passes, Nodes
<1>6. \A n \in Pair(c) : file[n] \in Files
  BY Zenon DEF Types, Pair, Nodes
<1>7. Past(c)'
  <2>1. \A ts \in Stamps(c) : NoLater(ts, Clock("s") + 1)
    BY <1>3, <1>5, SMTT(30) DEF NewestAt, Past, NoLater
  <2>2. \A n \in Pair(c) : file[n].v <= ops /\ (Present(file[n]) => file[n].m <= Clock("s") + 1)
    BY <1>3, <1>6 DEF NewestAt, Past, Files
  <2>3. QED
    BY <1>1, <1>3, <1>5, <2>1, <2>2, Zenon DEF Past, Pair, NoLater
<1>8. QED
  BY <1>4, <1>7 DEF NewestAt

LEMMA NewestStep ==
    ASSUME NewestInv, [Next]_vars
    PROVE  /\ NewestInv'
           /\ [setup.calm /\ SingleClient /\ TwoWay /\ OneClock => KeepsLatest]_vars
<1>1. Types /\ IInv' /\ setup' = setup
  BY StepKeeps, ZenonT(40) DEF NewestInv, IInv, Next, PassStep, Others, vars, Hello, ServerScan, ServerFlush,
     LoadAndScan, Diff, Fetch, Install, LocalDelete, ServerDelete, Upload, PassFails,
     WatcherQueues, UserWrites, UserDeletes, Crash, Tick
<1>2. last' \in 0..ops'
  <2>1. \/ last' = last /\ ops' = ops
        \/ last' \in {0, ops + 1} /\ ops' = ops + 1
    BY ZenonT(40) DEF Next, PassStep, Others, vars, Hello, ServerScan, ServerFlush,
     LoadAndScan, Diff, Fetch, Install, LocalDelete, ServerDelete, Upload, PassFails,
     WatcherQueues, UserWrites, UserDeletes, Crash, Tick
  <2>2. QED
    BY <1>1, <2>1 DEF NewestInv, Types
<1>3. ASSUME NEW c \in Clients, Alone(c)
      PROVE  NewestAt(c)' /\ KeepsLatest
  <2>0. NewestAt(c) /\ last \in 0..ops /\ last \in Int /\ ops \in Nat
    BY <1>1, <1>3 DEF NewestInv, Types
  <2>1. CASE \E d \in Clients : PassStep(d)
    <3>1. PassStep(c)
      BY <1>1, <1>3, <2>0, <2>1, OffStaysOff
    <3>2. NewestAt(c)' /\ \A n \in Nodes : Latest(n) => file'[n] = file[n]
      BY <1>1, <1>3, <2>0, <3>1, PassNewest, ZenonT(30)
    <3>3. QED
      BY <3>2 DEF KeepsLatest, Latest
  <2>2. CASE (\E d \in Clients : PassFails(d)) \/ (\E n \in Nodes : Crash(n))
    <3>1. PassFails(c) \/ (\E n \in Nodes : Crash(n))
      BY <1>1, <1>3, <2>0, <2>2, OffStaysOff
    <3>2. file' = file
      BY <2>2, Zenon DEF PassFails, Crash
    <3>3. QED
      BY <1>1, <2>0, <3>1, <3>2, CrashNewest DEF KeepsLatest
  <2>3. CASE \E n \in Nodes : WatcherQueues(n)
    <3>1. file' = file
      BY <2>3, Zenon DEF WatcherQueues
    <3>2. QED
      BY <1>1, <1>3, <2>0, <2>3, <3>1, WatcherNewest, ZenonT(30) DEF KeepsLatest
  <2>4. CASE \E n \in Nodes : UserWrites(n) \/ UserDeletes(n)
    <3>1. KeepsLatest
      <4>1. last' = 0 \/ last' = ops + 1
        BY <2>4, Zenon DEF UserWrites, UserDeletes
      <4>2. QED
        BY <2>0, <4>1 DEF KeepsLatest
    <3>2. QED
      BY <1>1, <1>3, <2>0, <2>4, <3>1, WriteNewest, UserDeleteNewest, ZenonT(30)
  <2>5. CASE Tick
    <3>1. file' = file
      BY <2>5, Zenon DEF Tick
    <3>2. QED
      BY <1>1, <1>3, <2>0, <2>5, <3>1, TickNewest, ZenonT(30) DEF KeepsLatest
  <2>6. CASE UNCHANGED vars
    <3>1. UNCHANGED <<setup, now, file, store, pend, ev, pass, last, ops>>
      BY <2>6, ZenonT(30) DEF vars
    <3>2. NewestAt(c)'
      BY <2>0, <3>1, ZenonT(30) DEF NewestAt, Seen, Spares, Past, Tops, Latest, Stamps, Pair, NoLater, Clock
    <3>3. QED
      BY <3>1, <3>2, Zenon DEF KeepsLatest
  <2>7. QED
    BY <2>1, <2>2, <2>3, <2>4, <2>5, <2>6, Zenon DEF Next
<1>4. ASSUME NEW c \in Clients, Alone(c)' PROVE Alone(c)
  BY <1>1, <1>4, Zenon DEF Alone, TwoWay, OneClock, Mode
<1>5. setup.calm /\ SingleClient /\ TwoWay /\ OneClock => \E c \in Clients : Alone(c)
  BY Zenon DEF SingleClient, Alone
<1>6. QED
  BY <1>1, <1>2, <1>3, <1>4, <1>5, ZenonT(30) DEF NewestInv

\* Last writer wins between the server and one two-way client with the same clock, whatever
\* the users of the two write and delete between the passes and however often passes and
\* processes die: no install, upload or deletion touches the latest write.
THEOREM NewestKept == Spec => NewestSurvivesInPairs
<1>1. NewestInv /\ [Next]_vars => NewestInv'
  BY NewestStep, Zenon
<1>2. NewestInv /\ [Next]_vars =>
        [setup.calm /\ SingleClient /\ TwoWay /\ OneClock => KeepsLatest]_vars
  BY NewestStep
<1>3. QED
  BY NewestBegins, <1>1, <1>2, PTL DEF Spec, NewestSurvivesInPairs
=============================================================================
