---------------------------- MODULE DurableTable -----------------------------
(***************************************************************************)
(* What PosterChanDB promises of its event table, whatever files it keeps: *)
(* the table is always the result of the operations in the log, and a      *)
(* crash takes away at most operations that were not yet made safe.        *)
(***************************************************************************)
EXTENDS Integers, Sequences, FiniteSetsExt

CONSTANTS MaxRow   \* rows the table may have

VARIABLES
    log,    \* the rows written, in order: log[k] is the row operation k set
    safe,   \* how many operations a crash cannot take away
    table   \* table[i]: the operation that last set row i

LastWrite(ops, i) == Max({k \in DOMAIN ops : ops[k] = i})
TableOf(ops) == [i \in 1 .. Max({0} \cup {ops[k] : k \in DOMAIN ops}) |-> LastWrite(ops, i)]

Init == log = <<>> /\ safe = 0 /\ table = <<>>

(* A row is appended, or one that exists is changed.                       *)
Write(i) ==
    /\ i \in 1 .. Len(table) + 1
    /\ log' = Append(log, i)
    /\ table' = TableOf(log')
    /\ UNCHANGED safe

Save == safe' = Len(log) /\ UNCHANGED <<log, table>>

Crash ==
    \E n \in safe .. Len(log) :
        /\ log' = SubSeq(log, 1, n)
        /\ table' = TableOf(log')
        /\ UNCHANGED safe

Next == (\E i \in 1 .. MaxRow : Write(i)) \/ Save \/ Crash

Spec == Init /\ [][Next]_<<log, safe, table>>

=============================================================================
