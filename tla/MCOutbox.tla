------------------------------ MODULE MCOutbox ------------------------------
(***************************************************************************)
(* Instances of Outbox for TLC.                                            *)
(***************************************************************************)
EXTENDS Outbox

CONSTANTS w1, w2, r1, p1, p2
EachItsOwn == {<<w1, p2>>, <<w2, p1>>}
FirstOnly == {<<w1, r1>>}
BadPost == {<<r1, p2>>}
AllEvents == {"drop", "freeze", "lose", "close", "discard", "online", "retry"}
=============================================================================
