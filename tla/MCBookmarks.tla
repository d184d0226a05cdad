----------------------------- MODULE MCBookmarks -----------------------------
(* Bookmarks on small instances: what the relay holds at the start.        *)
EXTENDS Bookmarks

CONSTANT Lone     \* the browsers that have no bookmark besides

(* Every page under its own id; the first also under each older, random id. *)
MCSeed == [s \in SyncId |-> [url |-> IF s \in Url THEN s ELSE Min(Url),
                             node |-> IF s \in Url THEN s ELSE 0]]

(* A new account.                                                         *)
MCNoSeed == [s \in {} |-> [url |-> 0, node |-> 0]]

(* With one bookmark besides, a deletion is not a wholesale loss.          *)
MCOthers == [b \in Browser |-> IF b \in Lone THEN 0 ELSE 1]

=============================================================================
