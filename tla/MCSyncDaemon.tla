---------------------------- MODULE MCSyncDaemon ----------------------------
(* One daemon, another client's session, two connection attempts. *)
EXTENDS SyncDaemon

\* Two changes of the server's tree, or one of each.
TwoChanges == {[s |-> 2, l |-> 0], [s |-> 1, l |-> 1]}
=============================================================================
