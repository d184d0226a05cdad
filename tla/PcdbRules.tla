------------------------------ MODULE PcdbRules ------------------------------
(***************************************************************************)
(* The ingest rules of Store.put over the event table: newest version of a *)
(* replaceable or addressable coordinate wins, NIP-09 deletions, derived   *)
(* quote tags -- and the log frames each decision leaves.                  *)
(*                                                                         *)
(* The table is a sequence of rows in arrival order (the index of a row is *)
(* its sequence number); a row is                                          *)
(*   [id, origin, seg, dead, tags]                                         *)
(* with seg = 0 for DROPPED.  An event is known by its id, a number, and   *)
(* its content is given by the constant functions below.                   *)
(***************************************************************************)
EXTENDS Integers, Sequences, SequencesExt

CONSTANTS
    Ids,        \* event ids: numbers, so that "the lowest id" means something
    Author,     \* Author[i]
    Kind,       \* "note", "repl", "addr", "delete" (kind 5), "wrap" (1059)
    StrictTie,  \* the kinds whose ties never fall to a second direct write
    Created,    \* created_at
    DTags,      \* the values of an event's `d` tags, in order
    ETags,      \* the ids a deletion names with `e`
    ATags,      \* the addresses it names with `a`: <<kind, d>>, its own author's
    Quotes      \* the notes it quotes without naming their author

ASSUME EventsAssumption ==
    /\ Ids \subseteq Nat /\ IsFiniteSet(Ids)
    /\ DOMAIN Author = Ids /\ DOMAIN Kind = Ids /\ DOMAIN DTags = Ids
    /\ Created \in [Ids -> Nat]
    /\ ETags \in [Ids -> SUBSET Ids] /\ Quotes \in [Ids -> SUBSET Ids]
    /\ \A i \in Ids : ETags[i] # {} => Kind[i] = "delete"

PutFrame(i, o) == [op |-> "put", id |-> i, origin |-> o]
DeadFrame(i) == [op |-> "dead", id |-> i]
TagFrame(i, v) == [op |-> "tag", id |-> i, value |-> v]

NewRow(i, o, sid) == [id |-> i, origin |-> o, seg |-> sid, dead |-> FALSE, tags |-> {}]

(* The elements of sequence q at the positions in K, in their order.       *)
Picked(q, K) ==
    LET some[k \in 0 .. Len(q)] ==
          IF k = 0 THEN <<>>
          ELSE IF k \in K THEN Append(some[k - 1], q[k]) ELSE some[k - 1]
    IN  some[Len(q)]

LiveRows(rs) == {s \in DOMAIN rs : ~rs[s].dead}

(* _seq_of: the live record of an id, or the last dead one that still has  *)
(* bytes somewhere; 0 for None.                                            *)
SeqOfId(rs, i) ==
    LET hits == {s \in DOMAIN rs : rs[s].id = i /\ rs[s].seg # 0}
        live == hits \cap LiveRows(rs)
    IN  IF live # {} THEN Min(live) ELSE IF hits # {} THEN Max(hits) ELSE 0

(* Mutation: dedupe sees only the most recent record.                      *)
IsLiveRecent(rs, i) == rs # <<>> /\ rs[Len(rs)].id = i /\ ~rs[Len(rs)].dead

IsLive(rs, i) == SeqOfId(rs, i) # 0 /\ ~rs[SeqOfId(rs, i)].dead

-----------------------------------------------------------------------------
IsVersioned(i) == Kind[i] \in {"repl", "addr"}

FirstD(i) == IF DTags[i] = <<>> THEN "" ELSE DTags[i][1]

(* _same_coordinate: a stored version matches when ANY of its d tags is    *)
(* the new event's first one; an empty d is also "no d tag at all".        *)
Matches(i, j) ==
    /\ Author[i] = Author[j] /\ Kind[i] = Kind[j]
    /\ \/ Kind[i] = "repl"
       \/ FirstD(i) \in Range(DTags[j])
       \/ FirstD(i) = "" /\ DTags[j] = <<>>

(* Mutation: versions of the same second are not compared.                 *)
SameCoordinateUntied(rs, i) ==
    {s \in LiveRows(rs) : Matches(i, rs[s].id) /\ Created[rs[s].id] # Created[i]}

SameCoordinate(rs, i) == {s \in LiveRows(rs) : Matches(i, rs[s].id)}

(* The new event i, of origin o, replaces the stored version s.            *)
Beats(rs, i, o, s) ==
    LET j == rs[s].id IN
    \/ Created[j] < Created[i]
    \/ /\ Created[j] = Created[i]
       /\ \/ i < j
          \/ Kind[i] \notin StrictTie /\ o = "direct" /\ rs[s].origin = "direct"

(* _apply_deletion: what the deletion i kills -- its author's own events   *)
(* it names (never a deletion or a gift wrap), and the versions of an      *)
(* address it names up to its own time.                                    *)
Victims(rs, i) ==
    {s \in LiveRows(rs) :
        LET j == rs[s].id IN
        /\ Author[j] = Author[i]
        /\ \/ j \in ETags[i] /\ Kind[j] \notin {"delete", "wrap"} /\ s = SeqOfId(rs, j)
           \/ /\ \E d \in Range(DTags[j]) : <<Kind[j], d>> \in ATags[i]
              /\ Created[j] <= Created[i]}

(* _deleted_by_author: a live deletion by the same author names it.        *)
DeletedByAuthor(rs, i) ==
    /\ Kind[i] \notin {"delete", "wrap"}
    /\ \E s \in LiveRows(rs) :
          LET j == rs[s].id IN Kind[j] = "delete" /\ Author[j] = Author[i] /\ i \in ETags[j]

-----------------------------------------------------------------------------
(* The table when the records S have died; or have learnt the tags V.      *)
Killed(rs, S) ==
    [s \in DOMAIN rs |-> IF s \in S THEN [rs[s] EXCEPT !.dead = TRUE] ELSE rs[s]]
Tagged(rs, S, V) ==
    [s \in DOMAIN rs |-> IF s \in S THEN [rs[s] EXCEPT !.tags = @ \cup V] ELSE rs[s]]

(* Effects are built up as [rows, frames]: the table and what is appended  *)
(* to the log.                                                             *)

(* Mutation: the death of a record is not logged.                          *)
KillUnlogged(w, S) == [rows |-> Killed(w.rows, S), frames |-> w.frames]

Kill(w, S) ==
    [rows |-> Killed(w.rows, S),
     frames |-> w.frames \o Picked([s \in DOMAIN w.rows |-> DeadFrame(w.rows[s].id)], S)]

ApplyDeletion(w, i) == IF Kind[i] = "delete" THEN Kill(w, Victims(w.rows, i)) ELSE w

(* add_derived_tag, for rows S and values V: once per row and value.       *)
AddTags(w, S, V) ==
    LET new == {p \in S \X V : p[2] \notin w.rows[p[1]].tags}
        order == SetToSeq(new)
    IN  [rows |-> Tagged(w.rows, S, V),
         frames |-> w.frames \o
            [k \in DOMAIN order |-> TagFrame(w.rows[order[k][1]].id, order[k][2])]]

(* _index_quotes: a quote learns its notes' authors, and a note that       *)
(* arrives tells the quotes that came before it.                           *)
IndexQuotes(w, i) ==
    LET known == {Author[q] : q \in {q \in Quotes[i] : IsLive(w.rows, q)}}
        own == AddTags(w, {SeqOfId(w.rows, i)}, known)
        quoting == {s \in LiveRows(w.rows) : i \in Quotes[w.rows[s].id] /\ Kind[w.rows[s].id] = "note"}
    IN  IF Kind[i] # "note" THEN own ELSE AddTags(own, quoting, {Author[i]})

(* Store.put: the outcome, the table after it and the frames appended.     *)
(* Losers die before the new version is framed; a deletion's victims after *)
(* the deletion itself.                                                    *)
Put(rs, i, o, sid) ==
    LET w0 == [rows |-> rs, frames |-> <<>>]
        dup == IsLive(rs, i)
        w1 == IF dup THEN ApplyDeletion(w0, i) ELSE w0
        rivals == IF IsVersioned(i) THEN {s \in SameCoordinate(w1.rows, i) : rs[s].id # i} ELSE {}
        w2 == Kill(w1, rivals)
        w3 == [rows |-> Append(w2.rows, NewRow(i, o, sid)), frames |-> Append(w2.frames, PutFrame(i, o))]
        out(w, r) == [rows |-> w.rows, frames |-> w.frames, result |-> r]
    IN  IF ~dup /\ DeletedByAuthor(rs, i) THEN out(w0, "deleted")
        ELSE IF \E s \in rivals : ~Beats(rs, i, o, s)
             THEN out(w1, IF dup THEN "duplicate" ELSE "superseded")
        ELSE IF dup THEN out(w2, "duplicate")
        ELSE out(ApplyDeletion(IndexQuotes(w3, i), i), "stored")

=============================================================================
