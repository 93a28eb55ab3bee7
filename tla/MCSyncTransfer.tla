------------------------------ MODULE MCSyncTransfer ------------------------------
(* Instances of SyncTransfer: two paths, contents of up to two blocks. *)
EXTENDS SyncTransfer

Files == {"p", "q"}
\* Two contents of one size, and one that is empty or not; no two paths share a block.
FileVersions == [p |-> {<<1, 2>>, <<3, 4>>}, q |-> {<<>>, <<5>>}]

Get(p) == [op |-> "get", path |-> p, data |-> <<>>]
Del(p) == [op |-> "del", path |-> p, data |-> <<>>]
Put(p, d) == [op |-> "put", path |-> p, data |-> d]

\* Every pair of kinds of work, in the order the pass runs them.
MixedPlans ==
    {<<Get("p"), Get("q")>>, <<Get("q"), Del("p")>>, <<Del("p"), Del("q")>>,
     <<Get("q"), Put("p", <<1, 2>>)>>, <<Put("p", <<1, 2>>), Put("q", <<5>>)>>}
    \cup {<<Del("p"), Put("q", d)>> : d \in FileVersions["q"]}

\* One download, for files rewritten in place again and again.
OneDownload == {<<Get("p")>>}
=============================================================================
