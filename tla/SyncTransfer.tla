------------------------------ MODULE SyncTransfer ------------------------------
(***************************************************************************)
(* The transfer half of one krymux-sync session (sync/mod.rs): the client  *)
(* works off the plan its diff produced - downloads, then server           *)
(* deletions, then uploads - over one ordered stream, and the server loop  *)
(* serves files, takes uploads and applies deletions, while users and      *)
(* other sessions change both trees and any single operation may fail.     *)
(*                                                                         *)
(* A file's bytes are a sequence of blocks.  One block travels per binary  *)
(* message, a size is a length, and a SHA-1 hash is the block sequence     *)
(* itself (collisions are ignored).  Temporary files are not part of a     *)
(* tree: every scan skips them.                                            *)
(***************************************************************************)
EXTENDS Naturals, Sequences, FiniteSets

CONSTANTS
    Paths,      \* the relative paths of the tree
    Versions,   \* Versions[p]: the contents users ever give path p
    Absent,     \* "no such file"; as a hash, the empty string
    Plans,      \* the work lists a diff may hand to the transfer phase
    Cap,        \* messages the stream holds before a writer blocks
    MaxEdits,   \* bound: changes by users and other sessions
    MaxFaults   \* bound: failing operations

ASSUME CapAssumption == Cap \in Nat \ {0}
ASSUME VersionsAssumption == DOMAIN Versions = Paths
\* A content is a sequence of blocks, and what stands for none is no such sequence.
Blocks == UNION {{v[i] : i \in DOMAIN v} : v \in UNION {Versions[p] : p \in Paths}}
ASSUME AbsentAssumption ==
    (\A p \in Paths : Versions[p] \subseteq Seq(Blocks)) /\ Absent \notin Seq(Blocks)
\* A diff names paths of the tree, and what it uploads exists.
ASSUME PlansAssumption ==
    \A work \in Plans :
        /\ work \in Seq({work[i] : i \in DOMAIN work})
        /\ \A i \in DOMAIN work : work[i].path \in Paths /\ work[i].data # Absent

VARIABLES
    ctree, stree,  \* the two trees
    fresh,         \* server paths whose mtime is newer than the tombstone sent
    c2s, s2c,      \* messages under way in each direction
    plan,          \* work not yet started
    cpc, job,      \* the client's place in run_sync_client, and its locals
    over,          \* the server's session has returned
    serve,         \* serve_file's locals: its open handle
    incoming,      \* Option<IncomingFile>
    landed,        \* what this session's latest upload put in the tree
    tomb,          \* the paths each side has recorded as deleted (c, s); history:
                   \* those the server's store failed to take or to keep (lost)
    blurred,       \* history: hashes announced that are of no content
    edits, faults, \* what is left of the bounds
    used           \* the kinds of failure that have happened

clientVars == <<cpc, job, plan>>
serverVars == <<over, serve, incoming, landed>>
vars == <<ctree, stree, fresh, c2s, s2c, clientVars, serverVars, tomb, blurred, edits, faults,
          used>>

Content == UNION {Versions[p] : p \in Paths}
NoHandle == [on |-> FALSE, path |-> Absent, ino |-> <<>>, off |-> 0, size |-> 0,
             sum |-> <<>>, hash |-> Absent, live |-> FALSE]
NoUpload == [on |-> FALSE, path |-> Absent, got |-> <<>>, size |-> 0, hash |-> Absent]
NoJob    == [op |-> "none", path |-> Absent, data |-> <<>>, attempt |-> 0, got |-> <<>>,
             size |-> 0, hash |-> Absent, bad |-> FALSE, off |-> 0, live |-> FALSE]

Msg(t, p) == [t |-> t, path |-> p]
Meta(p, n, h) == [t |-> "file_meta", path |-> p, size |-> n, hash |-> h]
PutStart(p, d) == [t |-> "put_start", path |-> p, size |-> Len(d), hash |-> d]
Bin(b) == [t |-> "bin", block |-> b]
Ack(t, p, ok) == [t |-> t, path |-> p, ok |-> ok]

Init ==
    /\ ctree \in [Paths -> Content \cup {Absent}] /\ stree \in [Paths -> Content \cup {Absent}]
    /\ \A p \in Paths : {ctree[p], stree[p]} \subseteq Versions[p] \cup {Absent}
    /\ plan \in Plans
    \* what the scans saw: a download is on the server, an upload on the client,
    \* and a path to delete there is gone here
    /\ \A i \in DOMAIN plan : LET w == plan[i] IN
         CASE w.op = "get" -> stree[w.path] # Absent
           [] w.op = "del" -> ctree[w.path] = Absent
           [] w.op = "put" -> ctree[w.path] = w.data
    /\ fresh = {} /\ c2s = <<>> /\ s2c = <<>>
    /\ cpc = "next" /\ job = NoJob /\ over = FALSE
    /\ serve = NoHandle /\ incoming = NoUpload /\ landed = NoUpload
    /\ tomb = [c |-> {}, s |-> {}, lost |-> {}] /\ blurred = {}
    /\ edits = MaxEdits /\ faults = MaxFaults /\ used = {}

Fault(k) == faults > 0 /\ faults' = faults - 1 /\ used' = used \cup {k}
NoFault  == UNCHANGED <<faults, used>>
\* write_json / write_bin: waits while the peer does not read
ToServer(m) == Len(c2s) < Cap /\ c2s' = Append(c2s, m)
ToClient(m) == Len(s2c) < Cap /\ s2c' = Append(s2c, m)

-----------------------------------------------------------------------------
(* The client, in the order of its loops. *)

ClientOnly == UNCHANGED <<stree, fresh, serverVars, blurred, edits>>

\* The next entry of the plan; a locked local file is skipped.
StartJob ==
    /\ cpc = "next" /\ plan # <<>>
    /\ plan' = Tail(plan)
    /\ LET w == Head(plan) IN
       \/ /\ w.op # "del" /\ Fault("local")
          /\ UNCHANGED <<cpc, job, c2s>>
       \/ /\ NoFault
          /\ job' = [NoJob EXCEPT !.op = w.op, !.path = w.path, !.data = w.data, !.attempt = 1]
          /\ \/ w.op = "get" /\ cpc' = "request" /\ UNCHANGED c2s
             \/ w.op = "del" /\ cpc' = "await" /\ ToServer(Msg("delete_file", w.path))
             \/ w.op = "put" /\ cpc' = "open" /\ ToServer(PutStart(w.path, w.data))
    /\ UNCHANGED <<ctree, s2c, tomb>> /\ ClientOnly

\* One of the two download attempts failed.
NextAttempt ==
    IF job.attempt = 1 THEN cpc' = "request" /\ job' = [job EXCEPT !.attempt = 2]
                       ELSE cpc' = "next" /\ job' = NoJob

\* get_file goes out BEFORE the directory and the temporary file are made; when
\* either fails the loop continues without reading the server's answer.
Request ==
    /\ cpc = "request"
    /\ ToServer(Msg("get_file", job.path))
    /\ \/ NoFault /\ cpc' = "receive"
          /\ job' = [job EXCEPT !.got = <<>>, !.size = 0, !.hash = Absent, !.bad = FALSE]
       \/ Fault("create") /\ NextAttempt
    /\ UNCHANGED <<ctree, s2c, plan, tomb>> /\ ClientOnly

\* The reply loop: it looks at a message's type, never at its path.
Receive ==
    /\ cpc = "receive" /\ s2c # <<>> /\ s2c' = Tail(s2c)
    /\ LET m == Head(s2c) IN
       \/ /\ m.t = "file_meta" /\ NoFault
          /\ job' = [job EXCEPT !.size = m.size, !.hash = m.hash] /\ UNCHANGED cpc
       \/ /\ m.t = "bin" /\ UNCHANGED cpc
          /\ \/ /\ NoFault
                /\ job' = IF job.bad THEN job
                          ELSE [job EXCEPT !.got = Append(@, m.block),
                                           !.bad = Len(job.got) >= job.size]
             \/ ~job.bad /\ Fault("local") /\ job' = [job EXCEPT !.bad = TRUE]
       \/ m.t = "file_done" /\ NoFault /\ cpc' = "verify" /\ UNCHANGED job
       \/ m.t = "file_error" /\ NoFault /\ cpc' = "verify" /\ job' = [job EXCEPT !.bad = TRUE]
       \/ m.t \in {"put_ack", "delete_ack"} /\ NoFault /\ UNCHANGED <<cpc, job>>
    /\ UNCHANGED <<ctree, c2s, plan, tomb>> /\ ClientOnly

\* Mutant: the hash is not compared.
VerifiedSize(got, size, hash) == Len(got) = size
Verified(got, size, hash) == Len(got) = size /\ hash \in {Absent, got}

\* Mutant: the download is renamed into place before it is verified.
InstallFirst ==
    /\ cpc = "verify" /\ NoFault
    /\ ctree' = [ctree EXCEPT ![job.path] = job.got] /\ cpc' = "next" /\ job' = NoJob
    /\ UNCHANGED <<c2s, s2c, plan, tomb>> /\ ClientOnly
\* Size, then hash, then the rename that makes the download visible.
Install ==
    /\ cpc = "verify"
    /\ IF ~job.bad /\ Verified(job.got, job.size, job.hash)
       THEN \/ /\ NoFault /\ ctree' = [ctree EXCEPT ![job.path] = job.got]
               /\ cpc' = "next" /\ job' = NoJob
            \/ Fault("local") /\ NextAttempt /\ UNCHANGED ctree
       ELSE NoFault /\ NextAttempt /\ UNCHANGED ctree
    /\ UNCHANGED <<c2s, s2c, plan, tomb>> /\ ClientOnly

\* Open the file to upload; when it is gone, close the transfer at once.
OpenUpload ==
    /\ cpc = "open" /\ NoFault
    /\ IF ctree[job.path] = Absent
       THEN cpc' = "await" /\ UNCHANGED job /\ ToServer(Msg("put_done", job.path))
       ELSE /\ cpc' = "send" /\ UNCHANGED c2s
            /\ job' = [job EXCEPT !.got = ctree[job.path], !.live = TRUE]
    /\ UNCHANGED <<ctree, s2c, plan, tomb>> /\ ClientOnly

SendChunk ==
    /\ cpc = "send" /\ NoFault
    /\ IF job.off < Len(job.got)
       THEN /\ ToServer(Bin(job.got[job.off + 1]))
            /\ job' = [job EXCEPT !.off = @ + 1] /\ UNCHANGED cpc
       ELSE /\ ToServer(Msg("put_done", job.path))
            /\ job' = [job EXCEPT !.live = FALSE] /\ cpc' = "await"
    /\ UNCHANGED <<ctree, s2c, plan, tomb>> /\ ClientOnly

Wanted == IF job.op = "put" THEN "put_ack" ELSE "delete_ack"

\* wait_put_ack and its twin for deletions: anything else is skipped.  The client's
\* own store may fail as well (see DeleteFile).
AwaitAck ==
    /\ cpc = "await" /\ s2c # <<>> /\ s2c' = Tail(s2c)
    /\ IF Head(s2c).t = Wanted
       THEN /\ cpc' = "next" /\ job' = NoJob
            /\ IF job.op = "del" /\ Head(s2c).ok
               THEN \/ NoFault /\ tomb' = [tomb EXCEPT !.c = @ \cup {job.path}]
                    \/ Fault("local") /\ tomb' \in {tomb, [tomb EXCEPT !.c = {job.path}]}
               ELSE NoFault /\ UNCHANGED tomb
       ELSE NoFault /\ UNCHANGED <<cpc, job, tomb>>
    /\ UNCHANGED <<ctree, c2s, plan>> /\ ClientOnly

Complete ==
    /\ cpc = "next" /\ plan = <<>> /\ NoFault
    /\ ToServer(Msg("sync_complete", Absent)) /\ cpc' = "ok"
    /\ UNCHANGED <<ctree, s2c, plan, job, tomb>> /\ ClientOnly

Reading == cpc \in {"receive", "await"}

\* next_message: the stream is closed, or nothing came for 60 s; a write to a
\* closed stream and a read error of the file sent end the pass the same way.
Abort ==
    /\ cpc \notin {"ok", "failed"}
    /\ \/ over /\ (Reading => s2c = <<>>) /\ NoFault
       \/ (Reading => s2c = <<>>) /\ Fault("fatal")
    /\ cpc' = "failed" /\ job' = NoJob
    /\ UNCHANGED <<ctree, c2s, s2c, plan, tomb>> /\ ClientOnly

-----------------------------------------------------------------------------
(* The server: one message at a time, and not while it streams a file. *)

Server(t) == ~over /\ ~serve.on /\ c2s # <<>> /\ Head(c2s).t = t /\ c2s' = Tail(c2s)
ServerOnly == UNCHANGED <<ctree, clientVars, edits>>

\* T_GET_FILE up to serve_file's open and stat.
GetFile ==
    /\ Server("get_file")
    /\ LET p == Head(c2s).path IN
       \/ /\ stree[p] = Absent /\ NoFault
          /\ ToClient(Msg("file_error", p)) /\ UNCHANGED <<serve, over>>
       \/ /\ stree[p] # Absent /\ Fault("remote")
          /\ ToClient(Msg("file_error", p)) /\ UNCHANGED <<serve, over>>
       \/ /\ stree[p] # Absent /\ Fault("fatal")
          /\ over' = TRUE /\ UNCHANGED <<serve, s2c>>
       \/ /\ stree[p] # Absent /\ NoFault /\ UNCHANGED <<s2c, over>>
          /\ serve' = [NoHandle EXCEPT !.on = TRUE, !.path = p, !.ino = stree[p],
                                       !.size = Len(stree[p]), !.live = TRUE]
    /\ UNCHANGED <<stree, fresh, incoming, landed, tomb, blurred>> /\ ServerOnly

\* The rest of serve_file, on one handle: the hash block by block, of whatever the
\* file holds when each is read, then meta, then content from the start.
ServeHash ==
    /\ ~over /\ serve.on /\ serve.hash = Absent /\ NoFault
    /\ IF Len(serve.sum) < Len(serve.ino)
       THEN /\ serve' = [serve EXCEPT !.sum = Append(@, serve.ino[Len(@) + 1])]
            /\ UNCHANGED <<s2c, blurred>>
       ELSE /\ ToClient(Meta(serve.path, serve.size, serve.sum))
            /\ serve' = [serve EXCEPT !.hash = serve.sum]
            /\ blurred' = blurred \cup ({serve.sum} \ Content)
    /\ UNCHANGED <<stree, fresh, c2s, over, incoming, landed, tomb>> /\ ServerOnly

\* Mutant: the end of the file is not announced.
ServeChunkOpen ==
    /\ ~over /\ serve.on /\ serve.hash # Absent /\ NoFault
    /\ IF serve.off < Len(serve.ino)
       THEN /\ ToClient(Bin(serve.ino[serve.off + 1]))
            /\ serve' = [serve EXCEPT !.off = @ + 1]
       ELSE UNCHANGED s2c /\ serve' = NoHandle
    /\ UNCHANGED <<stree, fresh, c2s, over, incoming, landed, tomb, blurred>> /\ ServerOnly
ServeChunk ==
    /\ ~over /\ serve.on /\ serve.hash # Absent /\ NoFault
    /\ IF serve.off < Len(serve.ino)
       THEN /\ ToClient(Bin(serve.ino[serve.off + 1]))
            /\ serve' = [serve EXCEPT !.off = @ + 1]
       ELSE ToClient(Msg("file_done", serve.path)) /\ serve' = NoHandle
    /\ UNCHANGED <<stree, fresh, c2s, over, incoming, landed, tomb, blurred>> /\ ServerOnly

\* A read error of the file served ends the session.
ServeFails ==
    /\ ~over /\ serve.on /\ Fault("fatal")
    /\ over' = TRUE /\ serve' = NoHandle
    /\ UNCHANGED <<stree, fresh, c2s, s2c, incoming, landed, tomb, blurred>> /\ ServerOnly

\* Mutant: no tombstone for a file that was already gone.
TombstonedIfThere(p) == IF stree[p] = Absent THEN tomb ELSE [tomb EXCEPT !.s = @ \cup {p}]
Tombstoned(p) == [tomb EXCEPT !.s = @ \cup {p}]
\* The store cannot be written, and stays as it was; or it cannot be read, counts as
\* empty and is written anew.  Neither is reported to the caller.
Misrecorded(p) == {[tomb EXCEPT !.lost = @ \cup {p}],
                   [tomb EXCEPT !.s = {p}, !.lost = @ \cup tomb.s]}

\* T_DELETE_FILE: refused when the copy here is newer than the deletion; otherwise
\* acknowledged, whether or not the deletion could be recorded.
DeleteFile ==
    /\ Server("delete_file")
    /\ LET p == Head(c2s).path IN
       \/ /\ stree[p] = Absent \/ p \notin fresh
          /\ ToClient(Ack("delete_ack", p, TRUE))
          /\ stree' = [stree EXCEPT ![p] = Absent]
          /\ \/ NoFault /\ tomb' = Tombstoned(p)
             \/ Fault("remote") /\ tomb' \in Misrecorded(p)
       \/ /\ stree[p] # Absent
          /\ \/ p \in fresh /\ NoFault
             \/ p \notin fresh /\ Fault("remote")
          /\ ToClient(Ack("delete_ack", p, FALSE)) /\ UNCHANGED <<stree, tomb>>
    /\ UNCHANGED <<fresh, over, serve, incoming, landed, blurred>> /\ ServerOnly

\* Mutant: a refusal that says yes.
reject_put_yes(p) == ToClient(Ack("put_ack", p, TRUE))
\* Every way an upload is refused, at put_start, at a chunk or at put_done.
reject_put(p) == ToClient(Ack("put_ack", p, FALSE))

\* T_PUT_START: every refusal is acknowledged at once and leaves no transfer.
PutStartArrives ==
    /\ Server("put_start")
    /\ LET m == Head(c2s) IN
       \/ /\ Fault("remote") /\ reject_put(m.path) /\ UNCHANGED incoming
       \/ /\ NoFault /\ UNCHANGED s2c
          /\ incoming' = [on |-> TRUE, path |-> m.path, got |-> <<>>, size |-> m.size,
                          hash |-> m.hash]
    /\ UNCHANGED <<stree, fresh, over, serve, landed, tomb, blurred>> /\ ServerOnly

\* A chunk: ignored without a transfer; a failed write or an overrun ends it.
BinArrives ==
    /\ Server("bin")
    /\ LET got == Append(incoming.got, Head(c2s).block) IN
       \/ ~incoming.on /\ NoFault /\ UNCHANGED <<incoming, s2c>>
       \/ /\ incoming.on /\ Len(got) <= incoming.size /\ NoFault
          /\ incoming' = [incoming EXCEPT !.got = got] /\ UNCHANGED s2c
       \/ /\ incoming.on
          /\ \/ Len(got) > incoming.size /\ NoFault
             \/ Len(got) <= incoming.size /\ Fault("remote")
          /\ incoming' = NoUpload /\ reject_put(incoming.path)
    /\ UNCHANGED <<stree, fresh, over, serve, landed, tomb, blurred>> /\ ServerOnly

\* T_PUT_DONE: no transfer, no answer; otherwise verify, rename, and tell.  The
\* rename looks at neither the copy it replaces nor that copy's mtime.
PutDone ==
    /\ Server("put_done")
    /\ \/ ~incoming.on /\ NoFault /\ UNCHANGED <<stree, fresh, landed, incoming, s2c>>
       \/ /\ incoming.on /\ incoming' = NoUpload
          /\ \/ /\ Verified(incoming.got, incoming.size, incoming.hash) /\ NoFault
                /\ stree' = [stree EXCEPT ![incoming.path] = incoming.got]
                /\ fresh' = fresh \ {incoming.path} /\ landed' = incoming
                /\ ToClient(Ack("put_ack", incoming.path, TRUE))
             \/ /\ \/ ~Verified(incoming.got, incoming.size, incoming.hash) /\ NoFault
                   \/ Verified(incoming.got, incoming.size, incoming.hash) /\ Fault("remote")
                /\ reject_put(incoming.path)
                /\ UNCHANGED <<stree, fresh, landed>>
    /\ UNCHANGED <<over, serve, tomb, blurred>> /\ ServerOnly

\* T_SYNC_COMPLETE, or the client is gone: the session returns, and a transfer
\* that was open is dropped.
ServerEnds ==
    /\ ~over
    /\ \/ Server("sync_complete")
       \/ cpc = "failed" /\ ~serve.on /\ c2s' = <<>>
       \/ cpc = "failed" /\ serve.on /\ UNCHANGED c2s
    /\ NoFault /\ over' = TRUE /\ incoming' = NoUpload /\ serve' = NoHandle
    /\ UNCHANGED <<stree, fresh, s2c, landed, tomb, blurred>> /\ ServerOnly

-----------------------------------------------------------------------------
(* Users, and the other sessions of the same server. *)

\* A rename onto the path (or a removal): open handles keep the old file.
Replace(p, v) ==
    /\ edits > 0 /\ edits' = edits - 1 /\ v \in Versions[p] \cup {Absent}
    /\ \/ /\ v # stree[p] /\ stree' = [stree EXCEPT ![p] = v] /\ fresh' = fresh \cup {p}
          /\ serve' = [serve EXCEPT !.live = @ /\ serve.path # p] /\ UNCHANGED <<ctree, job>>
       \/ /\ v # ctree[p] /\ ctree' = [ctree EXCEPT ![p] = v]
          /\ job' = [job EXCEPT !.live = @ /\ job.path # p] /\ UNCHANGED <<stree, fresh, serve>>
    /\ UNCHANGED <<c2s, s2c, plan, cpc, over, incoming, landed, tomb, blurred, faults, used>>

\* A write in place: an open handle of the file reads the new bytes from here on.
Rewrite(p, v) ==
    /\ edits > 0 /\ edits' = edits - 1 /\ v \in Versions[p]
    /\ \/ /\ serve.on /\ serve.live /\ serve.path = p /\ stree[p] # v
          /\ stree' = [stree EXCEPT ![p] = v] /\ fresh' = fresh \cup {p}
          /\ serve' = [serve EXCEPT !.ino = v] /\ UNCHANGED <<ctree, job>>
       \/ /\ cpc = "send" /\ job.live /\ job.path = p /\ ctree[p] # v
          /\ ctree' = [ctree EXCEPT ![p] = v] /\ job' = [job EXCEPT !.got = v]
          /\ UNCHANGED <<stree, fresh, serve>>
    /\ UNCHANGED <<c2s, s2c, plan, cpc, over, incoming, landed, tomb, blurred, faults, used>>

Client == StartJob \/ Request \/ Receive \/ Install \/ OpenUpload \/ SendChunk \/ AwaitAck \/ Complete
ServerStep == GetFile \/ ServeHash \/ ServeChunk \/ DeleteFile \/ PutStartArrives \/ BinArrives \/ PutDone
Environment == \E p \in Paths : \E v \in Versions[p] \cup {Absent} : Replace(p, v) \/ Rewrite(p, v)

Ended == cpc \in {"ok", "failed"} /\ over
Next ==
    \/ Client \/ Abort \/ ServerStep \/ ServeFails \/ ServerEnds \/ Environment
    \/ Ended /\ UNCHANGED vars

\* Both tasks keep running; a client whose peer has gone notices.  Nothing obliges
\* a user to edit, an operation to fail or the 60 s timer to fire.
Fairness ==
    /\ WF_vars(Client) /\ WF_vars(ServerStep) /\ WF_vars(ServerEnds)
    /\ WF_vars(over /\ Abort)
Spec == Init /\ [][Next]_vars /\ Fairness

-----------------------------------------------------------------------------
(* Properties. *)

\* The variables keep the shapes the code gives them; no channel outgrows its
\* window and a download is attempted at most twice.
TypeOK ==
    /\ fresh \subseteq Paths /\ \A k \in DOMAIN tomb : tomb[k] \subseteq Paths
    /\ Len(c2s) <= Cap /\ Len(s2c) <= Cap
    /\ cpc \in {"next", "request", "receive", "verify", "open", "send", "await", "ok", "failed"}
    /\ job.op \in {"none", "get", "del", "put"} /\ job.attempt \in 0..2
    /\ over \in BOOLEAN /\ serve.on \in BOOLEAN /\ incoming.on \in BOOLEAN
    /\ edits \in 0..MaxEdits /\ faults \in 0..MaxFaults

\* Each visible file is a whole content some user wrote, or one of those in extra.
Whole(extra) == \A p \in Paths : {ctree[p], stree[p]} \subseteq Content \cup {Absent} \cup extra

\* Whatever fails, and whoever edits while files are served and received, each
\* visible file is at every moment one whole content some user wrote: staging in
\* a temporary file, the size and hash checks and the rename never let a torn or
\* mixed file into either tree (serve_file, the download loop, put_done).  What they
\* cannot tell is a mixture the server itself hashed, of a file written to meanwhile.
NoMixedContent == Whole(blurred)
\* The same without the exception (README: "no mixed content").  (Broken by the code
\* when in-place writes repeat, while it sends, the mixture they made while it hashed.)
NeverMixed == Whole({})

\* The server's tree only ever holds, under a path, a content written for that
\* path: an upload is bound to its path by put_start, so no order of messages,
\* refusals and aborted transfers can land it elsewhere.
ServerTreeRight ==
    \A p \in Paths : stree[p] \in Versions[p] \cup {Absent}

\* The same of the client's tree: what a download leaves under a path is a content
\* of that path.  (Broken by the code when a temporary file cannot be made: the
\* unread answer is taken for the answer to the next request.)
ClientTreeRight ==
    \A p \in Paths : ctree[p] \in Versions[p] \cup {Absent}

\* A positive put_ack is never stale and never early: while one is under way the
\* client is waiting for exactly that upload and the server's latest installation
\* is that path with the bytes the client's scan had hashed.
HonestVerdict ==
    \A i \in DOMAIN s2c : s2c[i].t = "put_ack" /\ s2c[i].ok /\ cpc # "failed" =>
        /\ cpc = "await" /\ job.op = "put" /\ s2c[i].path = job.path
        /\ landed.path = job.path /\ landed.got = job.data

\* A deletion the client books as done on the server is in the server's tombstone
\* store, so other clients hear of it, also when the file was already gone; the only
\* ones missing are those the store itself failed to take or to keep.
DeletionRecorded == tomb.c \subseteq tomb.s \cup tomb.lost

\* The same of a store that may fail, which the code does not promise: "the store is
\* advisory state" (tombstones.rs:62), and the deletion is acknowledged all the same.
DeletionKept == tomb.c \subseteq tomb.s

\* Every pass comes to its end by itself: unless the stream or a task dies, the
\* client gets an answer to every request, whatever the server refuses, whichever
\* transfer is aborted midway and however small the stream's window is.  The 60 s
\* stall timer is not needed.  (Replies left unread after a failed temporary file
\* are excluded: see ClientTreeRight.)
PassEnds == <>(cpc = "ok" \/ used \cap {"fatal", "create"} # {})
=============================================================================
