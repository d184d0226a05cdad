---------------------------- MODULE MCFolderSync ----------------------------
(* Instances of FolderSync: a desktop and a second device, few files.      *)
EXTENDS FolderSync, TLC

CONSTANTS pc, other, f, g, c0, c1, c2, c3

TwoDevices == {pc, other}
OneOrig == f :> c0
TwoOrig == f :> c0 @@ g :> c3
OneDay == [c \in Content |-> 1]
=============================================================================
