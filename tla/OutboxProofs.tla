---------------------------- MODULE OutboxProofs ----------------------------
(***************************************************************************)
(* Theorems about Outbox, for any windows, posts, relays and bounds:       *)
(* receipts are true, the queue of unsent posts keeps its shape, and it    *)
(* loses none of them.                                                     *)
(***************************************************************************)
EXTENDS Outbox, SequenceTheorems, TLAPS

(* What a relay has taken it keeps, and a step that issues a receipt       *)
(* issues it for a post that some relay has by then.                       *)
Sound == /\ stored \subseteq stored'
         /\ \A e \in receipts' \ receipts : \E r \in Relay : <<r, e>> \in stored'

(* A step that leaves the receipts alone and forgets no stored post.       *)
LEMMA NoReceipt ==
    ASSUME UNCHANGED receipts, stored \subseteq stored'
    PROVE  Sound
  BY DEF Sound

(* The relays and a connection that ends only add to what is stored.       *)
LEMMA StoredGrows ==
    ASSUME NEW ms, NEW lost, Cut(ms, lost) \/ RelayTakes(ms)
    PROVE  stored \subseteq stored'
  BY DEF Cut, RelayTakes

(* A failure, for whichever reason and whoever waited for the answer,      *)
(* issues no receipt.                                                      *)
LEMMA FailedNoReceipt ==
    ASSUME NEW w, NEW x, NEW e, NEW by, NEW why, Failed(w, x, e, by, why)
    PROVE  UNCHANGED receipts
  <1>1. CASE by = "app"
    BY <1>1 DEF Failed, AppFailed
  <1>2. CASE by = "flush"
    BY <1>2 DEF Failed, FlushFailed
  <1>3. CASE by # "app" /\ by # "flush"
    BY <1>3 DEF Failed
  <1> QED BY <1>1, <1>2, <1>3

(* acknowledgeDelivery() issues at most the receipt of the one post.       *)
LEMMA AcceptedOne ==
    ASSUME NEW w, NEW x, NEW e, Acknowledged(w, x, e) \/ Accepted(w, e)
    PROVE  receipts' \subseteq receipts \cup {e}
  <1>1. ASSUME NEW y, Acknowledged(w, y, e)
        PROVE  receipts' \subseteq receipts \cup {e}
    BY <1>1 DEF Acknowledged
  <1> QED BY <1>1 DEF Accepted

LEMMA StepSound == [Next]_vars => Sound
  <1> SUFFICES ASSUME [Next]_vars PROVE Sound
    OBVIOUS
  <1>1. CASE UNCHANGED vars
    BY <1>1 DEF Sound, vars
  <1>2. ASSUME NEW w \in Window, NEW r \in Relay, NEW e \in Post, HearOk(w, r, e)
        PROVE  Sound
    <2>1. receipts' \subseteq receipts \cup {e}
      BY <1>2, AcceptedOne DEF HearOk
    <2>2. <<r, e>> \in stored'
      BY <1>2 DEF HearOk, RelayTakes
    <2>3. stored \subseteq stored'
      BY <1>2, StoredGrows DEF HearOk
    <2> QED BY <2>1, <2>2, <2>3 DEF Sound
  <1>3. ASSUME NEW w \in Window, NEW r \in Relay, NEW e \in Post, Echo(w, r, e)
        PROVE  Sound
    <2>1. receipts' \subseteq receipts \cup {e}
      BY <1>3, AcceptedOne DEF Echo
    <2>2. <<r, e>> \in stored' /\ stored' = stored
      BY <1>3 DEF Echo, network
    <2> QED BY <2>1, <2>2 DEF Sound
  <1>4. ASSUME NEW w \in Window, NEW r \in Relay, NEW e \in Post, HearNo(w, r, e)
        PROVE  Sound
    <2>1. stored \subseteq stored'
      BY <1>4, StoredGrows DEF HearNo
    <2>2. UNCHANGED receipts
      BY <1>4, FailedNoReceipt DEF HearNo
    <2> QED BY <2>1, <2>2, NoReceipt
  <1>5. ASSUME NEW w \in Window, Calls(w) \/ Timers(w)
        PROVE  Sound
    <2>1. UNCHANGED <<stored, receipts>>
      BY <1>5, FailedNoReceipt
         DEF Calls, Timers, Send, Offline, Timeout, LateEnds, Scheduled, AppDrains, network
    <2> QED BY <2>1, NoReceipt
  <1>6. ASSUME NEW w \in Window,
               \/ Sockets(w) \/ FlushNext(w) \/ Notice(w) \/ Open(w) \/ Users(w)
               \/ \E hidden \in BOOLEAN : RetryFires(w, hidden)
        PROVE  Sound
    <2>1. UNCHANGED <<stored, receipts>>
      BY <1>6 DEF Sockets, Connect, Rebuild, FlushNext, Notice, Open, Users, Resume, Publish,
                  RetryFires, network
    <2> QED BY <2>1, NoReceipt
  <1>7. ASSUME NEW w \in Window, Faults(w)
        PROVE  Sound
    <2>1. UNCHANGED receipts
      BY <1>7 DEF Faults, Drop, Freeze, LoseAnswer, Discard, Close, Online, Retry
    <2>2. stored \subseteq stored'
      BY <1>7, StoredGrows DEF Faults, Drop, Freeze, LoseAnswer, Discard, Close, Online, Retry, network
    <2> QED BY <2>1, <2>2, NoReceipt
  <1> QED
    BY <1>1, <1>2, <1>3, <1>4, <1>5, <1>6, <1>7 DEF Next, Works, Hears

(* A delivery receipt, on which app.js deletes the draft of a post, is     *)
(* only ever issued for a post that some relay has: whatever the windows,  *)
(* relays and bounds, whichever answer is late, lost or repeated, and also *)
(* when windows race each other for the stored queue.                      *)
THEOREM ReceiptsAreTrue == Spec => []ReceiptTrue
  <1>1. Init => ReceiptTrue
    BY DEF Init, ReceiptTrue
  <1>2. ReceiptTrue /\ [Next]_vars => ReceiptTrue'
    BY StepSound DEF ReceiptTrue, OnRelay, Sound
  <1> QED BY <1>1, <1>2, PTL DEF Spec

-----------------------------------------------------------------------------
(***************************************************************************)
(* The queues: the inductive invariant and its proof.                      *)
(***************************************************************************)

Who == {None, "app", "flush"}
Wait == [ask : Who, st : {None, "wait", "late"}, by : Who,
         sent : {Cardinality(S) : S \in SUBSET Relay} \cup {0},
         on : SUBSET Relay, again : SUBSET Relay, no : Nat, undo : BOOLEAN]
Drain == [by : {None, "own", "app"}, rest : Seq(Entry), cur : Entry \cup {NoEntry}, same : BOOLEAN]
Win == [up : BOOLEAN, stale : BOOLEAN, items : Seq(Entry), fl : Drain, timer : BOOLEAN,
        sched : 0 .. Delays, due : BOOLEAN, conn : [Relay -> {"closed", "open", "frozen"}],
        wait : [Post -> Wait]]

Ids(q) == {q[i].id : i \in DOMAIN q}

(* A queue whose entries have budget left, and at most one strike for each *)
(* refusal that really happened.                                           *)
QueueOK(q, ns) ==
    /\ IsQueue(q)
    /\ \A i \in DOMAIN q : q[i].tries < MaxTries /\ q[i].tries <= ns[q[i].id]

(* The drain: what it still has to send.  Unless the queue was read again, *)
(* an entry of the queue has no more strikes than the drain's copy of it.  *)
DrainOK(x, ns) ==
    /\ QueueOK(x.fl.rest, ns)
    /\ x.fl.cur # NoEntry =>
          x.fl.by # None /\ x.fl.cur.tries < MaxTries /\ x.fl.cur.tries <= ns[x.fl.cur.id]
    /\ x.fl.same => \A i \in DOMAIN x.items :
          /\ x.items[i].id = x.fl.cur.id => x.items[i].tries <= x.fl.cur.tries
          /\ \A j \in DOMAIN x.fl.rest :
                x.items[i].id = x.fl.rest[j].id => x.items[i].tries <= x.fl.rest[j].tries

WaitOK(x, ns, e) ==
    /\ (x.wait[e].st = "wait" <=> x.wait[e].by # None)
    /\ x.wait[e].ask = None \/ x.wait[e].by = None
    /\ "flush" \in {x.wait[e].ask, x.wait[e].by} => x.fl.cur.id = e
    /\ x.wait[e].by = "flush" /\ x.wait[e].no > 0 => x.fl.cur.tries + 1 <= ns[e]

(* The posts a window has queued, and those its publish() is waiting for.  *)
Queued(x) == Ids(x.items) \cup Ids(x.fl.rest) \cup {x.fl.cur.id}
Pub(x) == {e \in Post : "app" \in {x.wait[e].ask, x.wait[e].by}}

(* A closed window publishes nothing.                                      *)
Awake(x) == x.up \/ Pub(x) = {}

WinOK(x, ns) ==
    /\ x \in Win
    /\ QueueOK(x.items, ns) /\ Len(x.items) <= MaxQueue
    /\ DrainOK(x, ns) /\ Awake(x)
    /\ \A e \in Post : WaitOK(x, ns, e)

Counts == [Post -> 0 .. MaxTries]

-----------------------------------------------------------------------------
USE DEF None

(* The bounds are numbers, and "none" is no post.                          *)
LEMMA Constants ==
    MaxTries \in Nat \ {0} /\ MaxQueue \in Nat /\ Delays \in Nat /\ None \notin Post
  BY ConstantsAssumption, NoneAssumption

(* The records a window starts with are of their types.                    *)
LEMMA NoWaitType == NoWait \in Wait
  BY DEF NoWait, Wait, Who

LEMMA NoFlushType == NoFlush \in Drain
  BY DEF NoFlush, Drain

(* Nothing is wrong with an empty queue.                                   *)
LEMMA EmptyQueue == ASSUME NEW ns PROVE QueueOK(<<>>, ns) /\ Ids(<<>>) = {}
  BY DEF QueueOK, IsQueue, Ids

(* The entries of a queue.                                                 *)
LEMMA EntryType ==
    ASSUME NEW ns, NEW q, QueueOK(q, ns), NEW i \in DOMAIN q
    PROVE  q[i] \in Entry /\ q[i].id \in Post /\ q[i].tries \in 0 .. MaxTries
<1>1. q \in Seq(Entry)
  BY DEF QueueOK, IsQueue
<1>2. q[i] \in Entry
  BY <1>1
<1> QED
  BY <1>2 DEF Entry

(* A window just opened.                                                   *)
LEMMA OpenedOK ==
    ASSUME NEW ns, NEW q, QueueOK(q, ns), Len(q) <= MaxQueue
    PROVE  WinOK(Opened(q), ns) /\ Queued(Opened(q)) = Ids(q) \cup {None} /\ Pub(Opened(q)) = {}
           /\ Opened(q).items = q
<1> DEFINE x == Opened(q)
<1>1. /\ x.items = q /\ x.fl = NoFlush /\ x.sched = 0 /\ x.up \in BOOLEAN
      /\ x.conn = [r \in Relay |-> "closed"] /\ \A e \in Post : x.wait[e] = NoWait
  BY DEF Opened
<1>2. x \in Win
  BY NoWaitType, NoFlushType, Constants DEF Opened, Win, QueueOK, IsQueue
<1> HIDE DEF x
<1>3. x.fl.rest = <<>> /\ x.fl.cur = NoEntry /\ x.fl.cur.id = None /\ x.fl.by = None
  BY <1>1 DEF NoFlush, NoEntry
<1>4. DrainOK(x, ns)
  <2>1. ASSUME NEW i \in DOMAIN x.items PROVE x.items[i].id # None
    BY <1>1, EntryType, Constants
  <2> QED
    BY <1>3, <2>1, EmptyQueue DEF DrainOK
<1>5. ASSUME NEW e \in Post PROVE WaitOK(x, ns, e)
  BY <1>1 DEF WaitOK, NoWait
<1>6. Queued(x) = Ids(q) \cup {None} /\ Pub(x) = {}
  BY <1>1, <1>3, EmptyQueue DEF Queued, Pub, NoWait
<1> QED
  BY <1>1, <1>2, <1>4, <1>5, <1>6 DEF WinOK, Awake, x

(* The queue without one post: the others, each once.                      *)
LEMMA WithoutOK ==
    ASSUME NEW ns, NEW q, QueueOK(q, ns), NEW e
    PROVE  /\ QueueOK(Without(q, e), ns) /\ Len(Without(q, e)) <= Len(q)
           /\ Ids(Without(q, e)) = Ids(q) \ {e}
           /\ \A k \in DOMAIN Without(q, e) : \E i \in DOMAIN q : Without(q, e)[k] = q[i]
<1>0. q \in Seq(Entry) /\ Len(q) \in Nat /\ DOMAIN q = 1 .. Len(q)
  BY DEF QueueOK, IsQueue
<1>1. CASE ~Has(q, e)
  BY <1>0, <1>1 DEF Without, Has, Ids
<1>2. CASE Has(q, e)
  <2> DEFINE a == At(q, e)
             n == Len(q)
             s == [k \in 1 .. n - 1 |-> q[IF k < a THEN k ELSE k + 1]]
  <2>1. a \in 1 .. n /\ q[a].id = e
    BY <1>0, <1>2 DEF At, Has
  <2> HIDE DEF a
  <2>2. Without(q, e) = s
    BY <1>2 DEF Without, a
  <2>3. s \in Seq(Entry) /\ Len(s) = n - 1 /\ DOMAIN s = 1 .. n - 1
    BY <1>0, <2>1
  <2>4. ASSUME NEW k \in 1 .. n - 1
        PROVE  \E i \in 1 .. n : /\ s[k] = q[i] /\ i # a
                                 /\ i = IF k < a THEN k ELSE k + 1
    BY <1>0, <2>1
  <2>5. ASSUME NEW i \in 1 .. n, i # a PROVE \E k \in 1 .. n - 1 : s[k] = q[i]
    <3>1. CASE i < a
      <4>1. i \in 1 .. n - 1 /\ s[i] = q[i]
        BY <1>0, <2>1, <3>1
      <4> QED BY <4>1
    <3>2. CASE i > a
      <4>1. i - 1 \in 1 .. n - 1 /\ s[i - 1] = q[i]
        BY <1>0, <2>1, <3>2
      <4> QED BY <4>1
    <3> QED
      BY <1>0, <2>1, <2>5, <3>1, <3>2
  <2> HIDE DEF s
  <2>6. \A i, j \in 1 .. n : q[i].id = q[j].id => i = j
    BY <1>0 DEF QueueOK, IsQueue
  <2>7. IsQueue(s)
    <3> SUFFICES ASSUME NEW k \in 1 .. n - 1, NEW l \in 1 .. n - 1, s[k].id = s[l].id PROVE k = l
      BY <2>3 DEF IsQueue
    <3>1. PICK i \in 1 .. n : s[k] = q[i] /\ i = IF k < a THEN k ELSE k + 1
      BY <2>4
    <3>2. PICK j \in 1 .. n : s[l] = q[j] /\ j = IF l < a THEN l ELSE l + 1
      BY <2>4
    <3>3. i = j
      BY <2>6, <3>1, <3>2
    <3> QED
      BY <1>0, <2>1, <3>1, <3>2, <3>3
  <2>8. QueueOK(s, ns)
    BY <1>0, <2>3, <2>4, <2>7 DEF QueueOK
  <2>9. Ids(s) = Ids(q) \ {e}
    <3>1. ASSUME NEW k \in 1 .. n - 1 PROVE s[k].id \in Ids(q) /\ s[k].id # e
      BY <1>0, <2>1, <2>4, <2>6 DEF Ids
    <3>2. ASSUME NEW i \in 1 .. n, q[i].id # e PROVE q[i].id \in Ids(s)
      BY <2>1, <2>3, <2>5, <3>2 DEF Ids
    <3> QED
      BY <1>0, <2>3, <3>1, <3>2 DEF Ids
  <2>10. Len(s) <= Len(q)
    BY <1>0, <2>3
  <2>11. \A k \in DOMAIN s : \E i \in DOMAIN q : s[k] = q[i]
    BY <1>0, <2>3, <2>4
  <2> QED
    BY <2>2, <2>8, <2>9, <2>10, <2>11, Zenon
<1> QED
  BY <1>1, <1>2

(* One post at the end.                                                    *)
LEMMA AppendOK ==
    ASSUME NEW ns \in Counts, NEW q, QueueOK(q, ns), NEW e \in Post, e \notin Ids(q)
    PROVE  LET s == Append(q, [id |-> e, tries |-> 0]) IN
           /\ QueueOK(s, ns) /\ Len(s) = Len(q) + 1 /\ Ids(s) = Ids(q) \cup {e}
           /\ \A k \in DOMAIN s : s[k] = [id |-> e, tries |-> 0] \/ \E i \in DOMAIN q : s[k] = q[i]
<1> DEFINE z == [id |-> e, tries |-> 0]
           s == Append(q, z)
<1>1. z \in Entry /\ z.id = e /\ z.tries = 0
  BY Constants DEF Entry
<1>2. q \in Seq(Entry) /\ Len(q) \in Nat /\ DOMAIN q = 1 .. Len(q)
  BY DEF QueueOK, IsQueue
<1> HIDE DEF z
<1>3. /\ s \in Seq(Entry) /\ Len(s) = Len(q) + 1 /\ DOMAIN s = 1 .. Len(q) + 1
      /\ \A i \in 1 .. Len(q) : s[i] = q[i]
      /\ s[Len(q) + 1] = z
  BY <1>1, <1>2
<1> HIDE DEF s
<1>4. \A i \in 1 .. Len(q) : q[i].id # e
  BY <1>2 DEF Ids
<1>5. IsQueue(s)
  <2> SUFFICES ASSUME NEW i \in 1 .. Len(q) + 1, NEW j \in 1 .. Len(q) + 1, s[i].id = s[j].id PROVE i = j
    BY <1>3 DEF IsQueue
  <2>1. CASE i \in 1 .. Len(q) /\ j \in 1 .. Len(q)
    BY <1>2, <1>3, <2>1 DEF QueueOK, IsQueue
  <2>2. CASE i = Len(q) + 1 \/ j = Len(q) + 1
    BY <1>1, <1>2, <1>3, <1>4, <2>2
  <2> QED
    BY <1>2, <2>1, <2>2
<1>6. QueueOK(s, ns)
  <2> SUFFICES ASSUME NEW i \in 1 .. Len(q) + 1 PROVE s[i].tries < MaxTries /\ s[i].tries <= ns[s[i].id]
    BY <1>3, <1>5 DEF QueueOK
  <2>1. CASE i \in 1 .. Len(q)
    BY <1>2, <1>3, <2>1 DEF QueueOK
  <2>2. CASE i = Len(q) + 1
    <3>1. ns[e] \in 0 .. MaxTries
      BY DEF Counts
    <3> QED
      BY <1>1, <1>3, <2>2, <3>1, Constants
  <2> QED
    BY <1>2, <2>1, <2>2
<1>7. Ids(s) = Ids(q) \cup {e}
  <2>1. ASSUME NEW i \in 1 .. Len(q) + 1 PROVE s[i].id \in Ids(q) \cup {e}
    BY <1>1, <1>2, <1>3 DEF Ids
  <2>2. Ids(q) \subseteq Ids(s) /\ e \in Ids(s)
    <3>1. Len(q) + 1 \in DOMAIN s
      BY <1>2, <1>3
    <3> QED
      BY <1>1, <1>2, <1>3, <3>1 DEF Ids
  <2> QED
    BY <1>3, <2>1, <2>2 DEF Ids
<1>8. \A k \in DOMAIN s : s[k] = z \/ \E i \in DOMAIN q : s[k] = q[i]
  BY <1>2, <1>3
<1> QED
  BY <1>3, <1>6, <1>7, <1>8 DEF s, z

(* One more strike on an entry that has budget left.                       *)
LEMMA StrikeOK ==
    ASSUME NEW ns \in Counts, NEW q, QueueOK(q, ns), NEW i \in DOMAIN q,
           q[i].tries + 1 < MaxTries, q[i].tries + 1 <= ns[q[i].id]
    PROVE  LET s == [q EXCEPT ![i].tries = @ + 1] IN
           QueueOK(s, ns) /\ Len(s) = Len(q) /\ Ids(s) = Ids(q)
<1> DEFINE z == [q[i] EXCEPT !.tries = @ + 1]
           s == [q EXCEPT ![i] = z]
<1>1. q \in Seq(Entry) /\ Len(q) \in Nat /\ DOMAIN q = 1 .. Len(q)
  BY DEF QueueOK, IsQueue
<1>2. q[i] \in Entry /\ q[i].tries \in Nat
  BY EntryType
<1>3. z \in Entry /\ z.id = q[i].id /\ z.tries = q[i].tries + 1
  BY <1>2, Constants DEF Entry
<1> HIDE DEF z
<1>4. /\ s \in Seq(Entry) /\ Len(s) = Len(q) /\ DOMAIN s = 1 .. Len(q)
      /\ \A j \in 1 .. Len(q) : s[j] = IF j = i THEN z ELSE q[j]
  BY <1>1, <1>3, ExceptSeq
<1> HIDE DEF s
<1>5. \A j \in 1 .. Len(q) : s[j].id = q[j].id
  BY <1>3, <1>4
<1>6. QueueOK(s, ns)
  BY <1>1, <1>3, <1>4, <1>5 DEF QueueOK, IsQueue
<1>7. Ids(s) = Ids(q)
  BY <1>1, <1>4, <1>5 DEF Ids
<1> QED
  BY <1>4, <1>6, <1>7 DEF s, z
-----------------------------------------------------------------------------
(* What a window does with its record.                                     *)

(* More refusals break nothing.                                            *)
LEMMA CountsGrow ==
    ASSUME NEW ns \in Counts, NEW ms \in Counts, \A e \in Post : ns[e] <= ms[e]
    PROVE  /\ \A q : QueueOK(q, ns) => QueueOK(q, ms)
           /\ \A x : WinOK(x, ns) => WinOK(x, ms)
<1>1. ASSUME NEW q, QueueOK(q, ns) PROVE QueueOK(q, ms)
  <2>1. ASSUME NEW i \in DOMAIN q PROVE q[i].tries <= ms[q[i].id]
    <3>1. q[i].id \in Post /\ q[i].tries \in Nat /\ q[i].tries <= ns[q[i].id]
      BY <1>1, EntryType DEF QueueOK
    <3>2. ns[q[i].id] \in Nat /\ ms[q[i].id] \in Nat /\ ns[q[i].id] <= ms[q[i].id]
      BY <3>1, Constants DEF Counts
    <3> QED
      BY <3>1, <3>2
  <2> QED
    BY <1>1, <2>1 DEF QueueOK
<1>2. ASSUME NEW x, WinOK(x, ns) PROVE WinOK(x, ms)
  <2>0. x \in Win /\ x.fl \in Drain /\ x.fl.cur \in Entry \cup {NoEntry}
    BY <1>2 DEF WinOK, Win, Drain
  <2>1. x.fl.cur # NoEntry => x.fl.cur.tries <= ms[x.fl.cur.id]
    <3> SUFFICES ASSUME x.fl.cur # NoEntry PROVE x.fl.cur.tries <= ms[x.fl.cur.id]
      OBVIOUS
    <3>1. x.fl.cur.id \in Post /\ x.fl.cur.tries \in Nat
      BY <2>0, Constants DEF Entry
    <3>2. x.fl.cur.tries <= ns[x.fl.cur.id]
      BY <1>2 DEF WinOK, DrainOK
    <3>3. ns[x.fl.cur.id] \in Nat /\ ms[x.fl.cur.id] \in Nat /\ ns[x.fl.cur.id] <= ms[x.fl.cur.id]
      BY <3>1, Constants DEF Counts
    <3> QED
      BY <3>1, <3>2, <3>3
  <2>2. DrainOK(x, ms)
    BY <1>1, <1>2, <2>1 DEF WinOK, DrainOK
  <2>3. ASSUME NEW e \in Post PROVE WaitOK(x, ms, e)
    <3>1. ns[e] \in Nat /\ ms[e] \in Nat /\ ns[e] <= ms[e] /\ x.fl.cur.tries \in Nat
      BY <2>0, Constants DEF Counts, Entry, NoEntry
    <3>2. WaitOK(x, ns, e)
      BY <1>2 DEF WinOK
    <3> QED
      BY <3>1, <3>2 DEF WaitOK
  <2> QED
    BY <1>1, <1>2, <2>2, <2>3 DEF WinOK
<1> QED
  BY <1>1, <1>2

(* Two records that differ only in what the invariant does not look at.    *)
Alike(x, y) ==
    /\ y \in Win /\ y.items = x.items /\ y.fl = x.fl /\ y.up = x.up /\ y.stale = x.stale
    /\ \A e \in Post : /\ y.wait[e].ask = x.wait[e].ask /\ y.wait[e].by = x.wait[e].by
                       /\ y.wait[e].st = x.wait[e].st /\ y.wait[e].no = x.wait[e].no

LEMMA SameOK ==
    ASSUME NEW ns, NEW x, WinOK(x, ns), NEW y \in Win, y.items = x.items, y.fl = x.fl, y.up = x.up,
           \A e \in Post : /\ y.wait[e].ask = x.wait[e].ask /\ y.wait[e].by = x.wait[e].by
                           /\ y.wait[e].st = x.wait[e].st /\ y.wait[e].no = x.wait[e].no
    PROVE  WinOK(y, ns) /\ Queued(y) = Queued(x) /\ Pub(y) = Pub(x)
<1>1. QueueOK(y.items, ns) /\ Len(y.items) <= MaxQueue
  BY DEF WinOK
<1>2. DrainOK(y, ns)
  BY DEF WinOK, DrainOK
<1>3. ASSUME NEW e \in Post PROVE WaitOK(y, ns, e)
  <2>1. WaitOK(x, ns, e)
    BY DEF WinOK
  <2> QED
    BY <2>1 DEF WaitOK
<1>4. Queued(y) = Queued(x) /\ Pub(y) = Pub(x)
  BY DEF Queued, Pub
<1> QED
  BY <1>1, <1>2, <1>3, <1>4 DEF WinOK, Awake

LEMMA AlikeOK ==
    ASSUME NEW ns, NEW x, WinOK(x, ns), NEW y, Alike(x, y)
    PROVE  WinOK(y, ns) /\ Queued(y) = Queued(x) /\ Pub(y) = Pub(x)
  BY SameOK DEF Alike

(* Timers and attempts.                                                    *)
LEMMA FlagsAlike ==
    ASSUME NEW x \in Win, NEW b \in BOOLEAN, NEW n \in 0 .. Delays
    PROVE  /\ Alike(x, [x EXCEPT !.timer = b]) /\ Alike(x, [x EXCEPT !.due = b])
           /\ Alike(x, [x EXCEPT !.sched = n])
           /\ Alike(x, RetrySoon(x)) /\ Alike(x, FlushOutbox(x))
<1>1. Alike(x, [x EXCEPT !.timer = b]) /\ Alike(x, [x EXCEPT !.due = b]) /\ Alike(x, [x EXCEPT !.sched = n])
  BY DEF Alike, Win
<1>2. (x.timer \/ x.items # <<>>) \in BOOLEAN /\ (x.due \/ x.items # <<>>) \in BOOLEAN
  OBVIOUS
<1>3. Alike(x, RetrySoon(x))
  BY <1>2 DEF Alike, Win, RetrySoon
<1>4. Alike(x, FlushOutbox(x))
  BY <1>2 DEF Alike, Win, FlushOutbox
<1> QED
  BY <1>1, <1>3, <1>4

(* Sockets come and go.                                                    *)
LEMMA SocketsAlike ==
    ASSUME NEW x \in Win, NEW r \in Relay, NEW c \in {"closed", "open", "frozen"}, NEW wt \in [Post -> Wait],
           \A e \in Post : /\ wt[e].ask = x.wait[e].ask /\ wt[e].by = x.wait[e].by
                           /\ wt[e].st = x.wait[e].st /\ wt[e].no = x.wait[e].no
    PROVE  Alike(x, [x EXCEPT !.conn[r] = c, !.wait = wt])
<1> DEFINE y == [x EXCEPT !.conn[r] = c, !.wait = wt]
<1>1. [x.conn EXCEPT ![r] = c] \in [Relay -> {"closed", "open", "frozen"}]
  BY DEF Win
<1>2. y \in Win
  BY <1>1 DEF Win
<1>3. y.items = x.items /\ y.fl = x.fl /\ y.up = x.up /\ y.stale = x.stale /\ y.wait = wt
  BY DEF Win
<1> HIDE DEF y
<1>4. Alike(x, y)
  BY <1>2, <1>3 DEF Alike
<1> QED
  BY <1>4 DEF y

(* Another queue: entries it had, or new ones without a strike, or any     *)
(* when no drain runs.                                                     *)
LEMMA ItemsOK ==
    ASSUME NEW ns \in Counts, NEW x, WinOK(x, ns), NEW q, QueueOK(q, ns), Len(q) <= MaxQueue,
           \/ x.fl = NoFlush
           \/ \A k \in DOMAIN q : q[k].tries = 0 \/ \E i \in DOMAIN x.items : q[k] = x.items[i]
    PROVE  LET y == [x EXCEPT !.items = q] IN
           /\ WinOK(y, ns) /\ Pub(y) = Pub(x) /\ y.items = q /\ y.fl = x.fl /\ y.wait = x.wait
           /\ y.up = x.up /\ y.stale = x.stale /\ y.conn = x.conn
           /\ Queued(y) = Ids(q) \cup Ids(x.fl.rest) \cup {x.fl.cur.id}
<1> DEFINE y == [x EXCEPT !.items = q]
<1>1. x \in Win /\ q \in Seq(Entry) /\ x.fl \in Drain
  BY DEF WinOK, QueueOK, IsQueue, Win
<1>2. /\ y \in Win /\ y.items = q /\ y.fl = x.fl /\ y.wait = x.wait /\ y.up = x.up /\ y.stale = x.stale
      /\ y.conn = x.conn
  BY <1>1 DEF Win
<1> HIDE DEF y
<1>3. DrainOK(y, ns)
  <2>1. ASSUME x.fl.same, NEW k \in DOMAIN q
        PROVE  /\ q[k].id = x.fl.cur.id => q[k].tries <= x.fl.cur.tries
               /\ \A j \in DOMAIN x.fl.rest : q[k].id = x.fl.rest[j].id => q[k].tries <= x.fl.rest[j].tries
    <3>1. CASE x.fl = NoFlush
      <4>1. q[k].id # None /\ x.fl.cur.id = None /\ x.fl.rest = <<>>
        BY <3>1, EntryType, Constants DEF NoFlush, NoEntry
      <4> QED
        BY <4>1
    <3>2. CASE q[k].tries = 0
      <4>1. x.fl.cur.tries >= 0 /\ \A j \in DOMAIN x.fl.rest : x.fl.rest[j].tries >= 0
        <5>1. x.fl.cur \in Entry \cup {NoEntry} /\ x.fl.rest \in Seq(Entry)
          BY <1>1 DEF Drain
        <5>2. \A j \in DOMAIN x.fl.rest : x.fl.rest[j] \in Entry
          BY <5>1
        <5> QED
          BY <5>1, <5>2, Constants DEF Entry, NoEntry
      <4> QED
        BY <3>2, <4>1
    <3>3. CASE \E i \in DOMAIN x.items : q[k] = x.items[i]
      BY <2>1, <3>3 DEF WinOK, DrainOK
    <3> QED
      BY <3>1, <3>2, <3>3
  <2> QED
    BY <1>2, <2>1 DEF WinOK, DrainOK
<1>4. ASSUME NEW e \in Post PROVE WaitOK(y, ns, e)
  <2>1. WaitOK(x, ns, e)
    BY DEF WinOK
  <2> QED
    BY <1>2, <2>1 DEF WaitOK
<1>5. Pub(y) = Pub(x) /\ Queued(y) = Ids(q) \cup Ids(x.fl.rest) \cup {x.fl.cur.id}
  BY <1>2 DEF Pub, Queued
<1>6. WinOK(y, ns)
  BY <1>2, <1>3, <1>4, <1>5 DEF WinOK, Awake
<1> QED
  BY <1>2, <1>5, <1>6 DEF y

(* acknowledgeDelivery(), remove().                                        *)
Removed(x, e) == [x EXCEPT !.items = Without(@, e)]
LEMMA RemoveOK ==
    ASSUME NEW ns \in Counts, NEW x, WinOK(x, ns), NEW e
    PROVE  LET y == Removed(x, e) IN
           /\ WinOK(y, ns) /\ Pub(y) = Pub(x) /\ Ids(y.items) = Ids(x.items) \ {e}
           /\ y.up = x.up /\ y.stale = x.stale /\ Queued(y) \subseteq Queued(x)
<1> DEFINE q == Without(x.items, e)
<1>1. QueueOK(x.items, ns) /\ Len(x.items) <= MaxQueue /\ x.items \in Seq(Entry)
  BY DEF WinOK, QueueOK, IsQueue
<1>2. /\ QueueOK(q, ns) /\ Len(q) <= Len(x.items) /\ Ids(q) = Ids(x.items) \ {e}
      /\ \A k \in DOMAIN q : \E i \in DOMAIN x.items : q[k] = x.items[i]
  BY <1>1, WithoutOK
<1> HIDE DEF q
<1>3. Len(q) <= MaxQueue
  <2>1. q \in Seq(Entry)
    BY <1>2 DEF QueueOK, IsQueue
  <2> QED
    BY <1>1, <1>2, <2>1, Constants
<1> DEFINE y == [x EXCEPT !.items = q]
<1>4. /\ WinOK(y, ns) /\ Pub(y) = Pub(x) /\ y.items = q /\ y.up = x.up /\ y.stale = x.stale
      /\ Queued(y) = Ids(q) \cup Ids(x.fl.rest) \cup {x.fl.cur.id}
  BY <1>2, <1>3, ItemsOK
<1> HIDE DEF y
<1>5. Queued(y) \subseteq Queued(x)
  BY <1>2, <1>4 DEF Queued
<1>6. Removed(x, e) = y
  BY DEF Removed, y, q
<1> QED
  BY <1>2, <1>4, <1>5, <1>6

(* add().                                                                  *)
LEMMA AddOK ==
    ASSUME NEW ns \in Counts, NEW x, WinOK(x, ns), NEW e \in Post, e \notin Queued(x), MayAdd(x, e)
    PROVE  LET y == Add(x, e) IN
           /\ WinOK(y, ns) /\ Pub(y) = Pub(x) /\ Ids(y.items) = Ids(x.items) \cup {e}
           /\ y.up = x.up /\ y.stale = x.stale /\ Queued(y) = Queued(x) \cup {e}
<1> DEFINE q == Append(x.items, [id |-> e, tries |-> 0])
           z == [x EXCEPT !.items = q]
<1>1. QueueOK(x.items, ns) /\ x.items \in Seq(Entry) /\ e \notin Ids(x.items)
  BY DEF WinOK, QueueOK, IsQueue, Queued
<1>2. ~Has(x.items, e)
  BY <1>1 DEF Has, Ids
<1>3. Len(q) <= MaxQueue
  BY <1>1, <1>2, Constants DEF MayAdd
<1>4. /\ QueueOK(q, ns) /\ Ids(q) = Ids(x.items) \cup {e}
      /\ \A k \in DOMAIN q : q[k] = [id |-> e, tries |-> 0] \/ \E i \in DOMAIN x.items : q[k] = x.items[i]
  BY <1>1, AppendOK
<1>5. \A k \in DOMAIN q : q[k].tries = 0 \/ \E i \in DOMAIN x.items : q[k] = x.items[i]
  <2> HIDE DEF q
  <2> QED
    BY <1>4
<1>6. Add(x, e) = IF Ok(x) THEN RetrySoon(z) ELSE z
  BY <1>2 DEF Add
<1> HIDE DEF q
<1>7. /\ WinOK(z, ns) /\ Pub(z) = Pub(x) /\ z.items = q /\ z.up = x.up /\ z.stale = x.stale
      /\ Queued(z) = Ids(q) \cup Ids(x.fl.rest) \cup {x.fl.cur.id}
  BY <1>3, <1>4, <1>5, ItemsOK
<1> HIDE DEF z
<1>8. Queued(z) = Queued(x) \cup {e} /\ Ids(z.items) = Ids(x.items) \cup {e}
  BY <1>4, <1>7 DEF Queued
<1>9. Alike(z, RetrySoon(z))
  <2>1. z \in Win /\ TRUE \in BOOLEAN /\ 0 \in 0 .. Delays
    BY <1>7, Constants DEF WinOK
  <2> QED
    BY <2>1, FlagsAlike
<1>10. /\ WinOK(RetrySoon(z), ns) /\ Queued(RetrySoon(z)) = Queued(z) /\ Pub(RetrySoon(z)) = Pub(z)
       /\ RetrySoon(z).items = z.items /\ RetrySoon(z).up = z.up /\ RetrySoon(z).stale = z.stale
  BY <1>7, <1>9, AlikeOK DEF Alike
<1> QED
  BY <1>6, <1>7, <1>8, <1>10

(* The end of a drain that nothing waits for any more.                     *)
LEMMA DrainEndOK ==
    ASSUME NEW ns, NEW x, WinOK(x, ns),
           \A e \in Post : "flush" \notin {x.wait[e].ask, x.wait[e].by}
    PROVE  LET y == [x EXCEPT !.fl = NoFlush] IN
           /\ WinOK(y, ns) /\ Pub(y) = Pub(x) /\ y.items = x.items /\ y.fl = NoFlush
           /\ y.up = x.up /\ y.stale = x.stale /\ Queued(y) = Ids(x.items) \cup {None}
<1> DEFINE y == [x EXCEPT !.fl = NoFlush]
<1>1. x \in Win
  BY DEF WinOK
<1>2. /\ y \in Win /\ y.items = x.items /\ y.fl = NoFlush /\ y.wait = x.wait /\ y.up = x.up
      /\ y.stale = x.stale
  BY <1>1, NoFlushType DEF Win
<1> HIDE DEF y
<1>3. y.fl.cur = NoEntry /\ y.fl.cur.id = None /\ y.fl.rest = <<>>
  BY <1>2 DEF NoFlush, NoEntry
<1>4. DrainOK(y, ns)
  <2>1. \A i \in DOMAIN x.items : x.items[i].id # None
    BY EntryType, Constants DEF WinOK
  <2> QED
    BY <1>2, <1>3, <2>1, EmptyQueue DEF DrainOK
<1>5. ASSUME NEW e \in Post PROVE WaitOK(y, ns, e)
  <2>1. WaitOK(x, ns, e)
    BY DEF WinOK
  <2>2. "flush" \notin {x.wait[e].ask, x.wait[e].by}
    OBVIOUS
  <2> QED
    BY <1>2, <2>1, <2>2 DEF WaitOK
<1>6. Pub(y) = Pub(x) /\ Queued(y) = Ids(x.items) \cup {None}
  BY <1>2, <1>3, EmptyQueue DEF Pub, Queued
<1>7. WinOK(y, ns)
  BY <1>2, <1>4, <1>5, <1>6 DEF WinOK, Awake
<1> QED
  BY <1>2, <1>6, <1>7 DEF y
(* flush(): the drain works on a copy of the queue.                        *)
LEMMA DrainsOK ==
    ASSUME NEW ns, NEW x, WinOK(x, ns), NEW by \in {"own", "app"}
    PROVE  LET y == Drains(x, by) IN
           /\ WinOK(y, ns) /\ Pub(y) = Pub(x) /\ y.items = x.items /\ y.up = x.up /\ y.stale = x.stale
           /\ Queued(y) \subseteq Queued(x) \cup {None}
<1> DEFINE d == [NoFlush EXCEPT !.by = by, !.rest = x.items]
           y == [x EXCEPT !.fl = d]
<1>1. x \in Win /\ x.items \in Seq(Entry) /\ QueueOK(x.items, ns)
  BY DEF WinOK, QueueOK, IsQueue
<1>2. d \in Drain /\ d.by = by /\ d.rest = x.items /\ d.cur = NoEntry /\ d.cur.id = None
  BY <1>1 DEF Drain, NoFlush, NoEntry
<1> HIDE DEF d
<1>3. /\ y \in Win /\ y.items = x.items /\ y.fl = d /\ y.wait = x.wait /\ y.up = x.up
      /\ y.stale = x.stale
  BY <1>1, <1>2 DEF Win
<1> HIDE DEF y
<1>4. CASE x.fl.by = None
  <2>1. x.fl.cur = NoEntry /\ x.fl.cur.id = None
    BY <1>4 DEF WinOK, DrainOK, NoEntry
  <2>2. DrainOK(y, ns)
    <3>1. \A i \in DOMAIN x.items : x.items[i].id # None
      BY <1>1, EntryType, Constants
    <3>2. \A i, j \in DOMAIN x.items : x.items[i].id = x.items[j].id => i = j
      BY <1>1 DEF QueueOK, IsQueue
    <3>3. \A i \in DOMAIN x.items : x.items[i].tries <= x.items[i].tries
      BY <1>1, EntryType
    <3> QED
      BY <1>1, <1>2, <1>3, <3>1, <3>2, <3>3 DEF DrainOK
  <2>3. ASSUME NEW e \in Post PROVE WaitOK(y, ns, e)
    <3>1. WaitOK(x, ns, e)
      BY DEF WinOK
    <3>2. "flush" \notin {x.wait[e].ask, x.wait[e].by}
      BY <2>1, <3>1, Constants DEF WaitOK
    <3> QED
      BY <1>3, <3>1, <3>2 DEF WaitOK
  <2>4. Pub(y) = Pub(x) /\ Queued(y) \subseteq Queued(x) \cup {None}
    BY <1>2, <1>3 DEF Pub, Queued
  <2>5. WinOK(y, ns)
    BY <1>1, <1>3, <2>2, <2>3, <2>4 DEF WinOK, Awake
  <2>6. Drains(x, by) = x \/ Drains(x, by) = y
    BY DEF Drains, y, d
  <2> QED
    BY <1>3, <2>4, <2>5, <2>6
<1>5. CASE x.fl.by # None
  <2>1. Drains(x, by) = x
    BY <1>5 DEF Drains
  <2> QED
    BY <2>1
<1> QED
  BY <1>4, <1>5

(* Another waiter for one post.                                            *)
Fits(x, ns, e, k) ==
    /\ k \in Wait
    /\ k.st = "wait" <=> k.by # None
    /\ k.ask = None \/ k.by = None
    /\ "flush" \in {k.ask, k.by} => x.fl.cur.id = e
    /\ k.by = "flush" /\ k.no > 0 => x.fl.cur.tries + 1 <= ns[e]
    /\ x.up \/ "app" \notin {k.ask, k.by}
Rewaits(x, e, k) == [x EXCEPT !.wait[e] = k]

LEMMA WaiterOK ==
    ASSUME NEW ns, NEW x, WinOK(x, ns), NEW e \in Post, NEW k, Fits(x, ns, e, k),
           NEW y, y = Rewaits(x, e, k)
    PROVE  /\ WinOK(y, ns) /\ Queued(y) = Queued(x) /\ y.items = x.items /\ y.fl = x.fl
           /\ y.up = x.up /\ y.stale = x.stale /\ y.wait[e] = k
           /\ \A f \in Post \ {e} : y.wait[f] = x.wait[f]
           /\ Pub(y) = IF "app" \in {k.ask, k.by} THEN Pub(x) \cup {e} ELSE Pub(x) \ {e}
<1> DEFINE wt == [x.wait EXCEPT ![e] = k]
<1>0. y = [x EXCEPT !.wait = wt] /\ k \in Wait
  BY DEF Rewaits, Fits
<1>1. x \in Win /\ x.wait \in [Post -> Wait]
  BY DEF WinOK, Win
<1>2. wt \in [Post -> Wait] /\ wt[e] = k /\ \A f \in Post \ {e} : wt[f] = x.wait[f]
  BY <1>0, <1>1
<1> HIDE DEF wt
<1>3. /\ y \in Win /\ y.items = x.items /\ y.fl = x.fl /\ y.wait = wt /\ y.up = x.up
      /\ y.stale = x.stale
  BY <1>0, <1>1, <1>2 DEF Win
<1>4. ASSUME NEW f \in Post PROVE WaitOK(y, ns, f)
  <2>1. CASE f = e
    BY <1>2, <1>3, <2>1 DEF WaitOK, Fits
  <2>2. CASE f # e
    <3>1. WaitOK(x, ns, f) /\ y.wait[f] = x.wait[f]
      BY <1>2, <1>3, <2>2 DEF WinOK
    <3> QED
      BY <1>3, <3>1 DEF WaitOK
  <2> QED
    BY <2>1, <2>2
<1>5. Pub(y) = IF "app" \in {k.ask, k.by} THEN Pub(x) \cup {e} ELSE Pub(x) \ {e}
  BY <1>2, <1>3 DEF Pub
<1>6. Awake(x) /\ Awake(y)
  <2>1. Awake(x)
    BY DEF WinOK
  <2> QED
    BY <1>3, <1>5, <2>1 DEF Awake, Fits
<1>7. WinOK(y, ns) /\ Queued(y) = Queued(x)
  BY <1>3, <1>4, <1>6 DEF WinOK, DrainOK, Queued
<1> QED
  BY <1>2, <1>3, <1>5, <1>7

(* The waiter got its answer; one who wants the post sent again keeps on   *)
(* wanting it.                                                             *)
LEMMA AnsweredOK ==
    ASSUME NEW ns, NEW x, WinOK(x, ns), NEW e \in Post
    PROVE  LET y == Answered(x, e) IN
           /\ WinOK(y, ns) /\ Queued(y) = Queued(x) /\ y.items = x.items /\ y.fl = x.fl
           /\ y.up = x.up /\ y.stale = x.stale
           /\ y.wait[e].by = None /\ y.wait[e].ask = x.wait[e].ask
           /\ \A f \in Post \ {e} : y.wait[f] = x.wait[f]
           /\ Pub(y) = IF x.wait[e].by = "app" THEN Pub(x) \ {e} ELSE Pub(x)
<1> DEFINE k == [NoWait EXCEPT !.ask = x.wait[e].ask]
           y == [x EXCEPT !.wait[e] = k]
<1>1. x.wait[e] \in Wait /\ WaitOK(x, ns, e)
  BY DEF WinOK, Win
<1>2. k \in Wait /\ k.ask = x.wait[e].ask /\ k.by = None /\ k.st = None /\ k.no = 0
  BY <1>1, NoWaitType DEF Wait, NoWait
<1> HIDE DEF k
<1>3. /\ WinOK(y, ns) /\ Queued(y) = Queued(x) /\ y.items = x.items /\ y.fl = x.fl
      /\ y.up = x.up /\ y.stale = x.stale /\ y.wait[e] = k
      /\ \A f \in Post \ {e} : y.wait[f] = x.wait[f]
      /\ Pub(y) = IF "app" \in {k.ask, k.by} THEN Pub(x) \cup {e} ELSE Pub(x) \ {e}
  <2>1. x.up \/ "app" \notin {k.ask, k.by}
    BY <1>2 DEF WinOK, Awake, Pub
  <2>2. Fits(x, ns, e, k)
    BY <1>1, <1>2, <2>1 DEF WaitOK, Fits
  <2>3. y = Rewaits(x, e, k)
    BY DEF Rewaits
  <2> HIDE DEF y
  <2> QED
    BY <2>2, <2>3, WaiterOK
<1> HIDE DEF y
<1>4. Pub(y) = IF x.wait[e].by = "app" THEN Pub(x) \ {e} ELSE Pub(x)
  BY <1>1, <1>2, <1>3 DEF WaitOK, Pub
<1>5. Answered(x, e) = y
  BY DEF Answered, y, k
<1> QED
  BY <1>2, <1>3, <1>4, <1>5
-----------------------------------------------------------------------------
(* A window that has seen the last change has the stored queue, unless     *)
(* windows may act before they look.                                       *)
Synced == ~Racing => \A w \in Window : win[w].up /\ ~win[w].stale => win[w].items = store

(* A post is published once, by one window, before it is queued anywhere.  *)
PostsOK ==
    /\ Ids(store) \subseteq posted
    /\ \A w \in Window :
         /\ Pub(win[w]) \subseteq posted /\ Queued(win[w]) \subseteq posted \cup {None}
         /\ Pub(win[w]) \cap Ids(store) = {}
         /\ \A v \in Window : /\ Pub(win[w]) \cap Queued(win[v]) = {}
                              /\ v # w => Pub(win[w]) \cap Pub(win[v]) = {}

Inv ==
    /\ noes \in Counts /\ win \in [Window -> Win]
    /\ QueueOK(store, noes) /\ Len(store) <= MaxQueue
    /\ \A w \in Window : WinOK(win[w], noes)
    /\ Synced /\ PostsOK

(* What every step leaves alone or adds to.                                *)
Grows ==
    /\ noes' \in Counts /\ \A e \in Post : noes[e] <= noes'[e]
    /\ stored \subseteq stored' /\ posted \subseteq posted' /\ torn \subseteq torn'

(* A step of window w, whose record becomes x.                             *)
Moves(w, x) ==
    \/ Saves(w, x)
    \/ Becomes(w, x) /\ (~Racing /\ x.up /\ ~x.stale => x.items = store)

Fine(w, x) ==
    /\ WinOK(x, noes') /\ Moves(w, x)
    /\ Pub(x) \subseteq Pub(win[w]) \cup (posted' \ posted)
    /\ Queued(x) \subseteq Queued(win[w]) \cup Ids(store) \cup {None} \cup (Pub(win[w]) \ Pub(x))

Kept(w, x) ==
    /\ \A f \in shown' \ shown : f \in Pub(x) \/ OnRelay(f)'
    /\ \A f \in Ids(store) \cap shown' : f \in Ids(store') \/ OnRelay(f)' \/ noes'[f] = MaxTries
    /\ \A f \in Pub(win[w]) \cap shown' :
          f \in Pub(x) \/ f \in Ids(store') \/ OnRelay(f)' \/ f \in torn'

(* The windows after a step of one: the others at most hear of a change.   *)
LEMMA MovesWindows ==
    ASSUME Inv, NEW w \in Window, NEW x \in Win, Moves(w, x)
    PROVE  /\ win' \in [Window -> Win] /\ win'[w] = x
           /\ \A v \in Window \ {w} : win'[v] = win[v] \/ win'[v] = [win[v] EXCEPT !.stale = TRUE]
           /\ Becomes(w, x) \/ store' = x.items
           /\ \A v \in Window \ {w} : store' # store /\ win[v].up => win'[v] = [win[v] EXCEPT !.stale = TRUE]
<1>1. win \in [Window -> Win]
  BY DEF Inv
<1>2. CASE Becomes(w, x)
  BY <1>1, <1>2 DEF Becomes
<1>3. CASE Saves(w, x)
  <2>1. store' = x.items /\ win' = [v \in Window |-> IF v = w THEN x
                 ELSE [win[v] EXCEPT !.stale = @ \/ (win[v].up /\ x.items # store)]]
    BY <1>3 DEF Saves
  <2>2. ASSUME NEW v \in Window \ {w}
        PROVE  /\ win'[v] \in Win
               /\ win'[v] = win[v] \/ win'[v] = [win[v] EXCEPT !.stale = TRUE]
               /\ store' # store /\ win[v].up => win'[v] = [win[v] EXCEPT !.stale = TRUE]
    <3> DEFINE b == win[v].stale \/ (win[v].up /\ x.items # store)
    <3>1. win[v] \in Win /\ win[v].stale \in BOOLEAN
      BY <1>1 DEF Win
    <3>2. win'[v] = [win[v] EXCEPT !.stale = b]
      BY <2>1
    <3>3. b \in BOOLEAN /\ (win[v].stale => b)
      OBVIOUS
    <3>4. store' # store /\ win[v].up => b
      BY <2>1
    <3> HIDE DEF b
    <3>5. win'[v] \in Win
      BY <3>1, <3>2, <3>3 DEF Win
    <3>6. CASE b = TRUE
      BY <3>2, <3>5, <3>6
    <3>7. CASE b = FALSE
      <4>1. win[v].stale = FALSE
        BY <3>1, <3>3, <3>7
      <4>2. [win[v] EXCEPT !.stale = FALSE] = win[v]
        BY <3>1, <4>1 DEF Win
      <4> QED
        BY <3>2, <3>4, <3>5, <3>7, <4>2
    <3> QED
      BY <3>3, <3>6, <3>7
  <2>3. win'[w] = x /\ DOMAIN win' = Window
    BY <2>1
  <2>4. win' \in [Window -> Win]
    BY <2>1, <2>2, <2>3
  <2> QED
    BY <2>1, <2>2, <2>3, <2>4
<1> QED
  BY <1>2, <1>3 DEF Moves

(* To hear of a change alters nothing the invariant looks at.              *)
LEMMA StaleAlike ==
    ASSUME NEW ns, NEW x, WinOK(x, ns), NEW y, y = x \/ y = [x EXCEPT !.stale = TRUE]
    PROVE  WinOK(y, ns) /\ Queued(y) = Queued(x) /\ Pub(y) = Pub(x) /\ y.items = x.items /\ y.up = x.up
<1>1. CASE y = x
  BY <1>1
<1>2. CASE y = [x EXCEPT !.stale = TRUE]
  <2>1. y \in Win /\ y.items = x.items /\ y.fl = x.fl /\ y.wait = x.wait /\ y.up = x.up
    BY <1>2 DEF WinOK, Win
  <2> QED
    BY <2>1, SameOK
<1> QED
  BY <1>1, <1>2

(* A step that is fine for its own window preserves the invariant: no post *)
(* is published and queued, or published twice.                            *)
LEMMA InvStep ==
    ASSUME Inv, Grows, NEW w \in Window, NEW x, Fine(w, x)
    PROVE  Inv' /\ \A v \in Window \ {w} : Pub(win'[v]) = Pub(win[v])
<1>1. x \in Win /\ WinOK(x, noes') /\ Moves(w, x)
  BY DEF Fine, WinOK
<1>2. /\ win' \in [Window -> Win] /\ win'[w] = x
      /\ \A v \in Window \ {w} : win'[v] = win[v] \/ win'[v] = [win[v] EXCEPT !.stale = TRUE]
      /\ Becomes(w, x) \/ store' = x.items
      /\ \A v \in Window \ {w} : store' # store /\ win[v].up => win'[v] = [win[v] EXCEPT !.stale = TRUE]
  BY <1>1, MovesWindows
<1>3. \A v \in Window : WinOK(win[v], noes')
  BY CountsGrow DEF Inv, Grows
<1>4. ASSUME NEW v \in Window \ {w}
      PROVE  /\ WinOK(win'[v], noes') /\ Queued(win'[v]) = Queued(win[v]) /\ Pub(win'[v]) = Pub(win[v])
             /\ win'[v].items = win[v].items /\ win'[v].up = win[v].up
  BY <1>2, <1>3, StaleAlike
<1>5. store' = store \/ store' = x.items
  BY <1>2 DEF Becomes
<1>6. QueueOK(store', noes') /\ Len(store') <= MaxQueue
  <2>1. QueueOK(store, noes')
    BY CountsGrow DEF Inv, Grows
  <2> QED
    BY <1>1, <1>5, <2>1 DEF Inv, WinOK
<1>7. Synced'
  <2> SUFFICES ASSUME ~Racing, NEW v \in Window, win'[v].up, ~win'[v].stale PROVE win'[v].items = store'
    BY DEF Synced
  <2>1. CASE v = w
    BY <1>1, <1>2, <2>1 DEF Moves, Saves, Becomes
  <2>2. CASE v # w
    <3>1. win[v] \in Win /\ win'[v] # [win[v] EXCEPT !.stale = TRUE]
      BY <2>2 DEF Inv, Win
    <3>2. win'[v] = win[v] /\ store' = store
      BY <1>2, <1>4, <2>2, <3>1
    <3> QED
      BY <3>2 DEF Inv, Synced
  <2> QED
    BY <2>1, <2>2
<1>8. PostsOK'
  <2> DEFINE P == Pub(win[w])
             Q == Queued(win[w])
             S == Ids(store)
  <2>1. /\ Pub(x) \subseteq P \cup (posted' \ posted) /\ posted \subseteq posted'
        /\ Queued(x) \subseteq Q \cup S \cup {None} \cup (P \ Pub(x))
    BY DEF Fine, Grows
  <2>2. /\ S \subseteq posted /\ P \subseteq posted /\ Q \subseteq posted \cup {None}
        /\ P \cap S = {} /\ P \cap Q = {}
    BY DEF Inv, PostsOK
  <2>3. Ids(store') \subseteq S \cup Queued(x) /\ (Ids(store') \subseteq S \/ Ids(store') \subseteq Queued(x))
    BY <1>5 DEF Queued
  <2>4. None \notin Pub(x) /\ \A v \in Window : None \notin Pub(win[v])
    BY Constants DEF Pub
  <2>5. ASSUME NEW v \in Window \ {w}
        PROVE  /\ Pub(win[v]) \subseteq posted /\ Queued(win[v]) \subseteq posted \cup {None}
               /\ Pub(win[v]) \cap S = {} /\ Pub(win[v]) \cap P = {} /\ P \cap Queued(win[v]) = {}
               /\ Pub(win[v]) \cap Q = {}
    BY DEF Inv, PostsOK
  <2>6. None \notin Ids(store')
    BY <1>6, EntryType, Constants DEF Ids
  <2> HIDE DEF P, Q, S
  <2>7. /\ Pub(x) \subseteq posted' /\ Queued(x) \subseteq posted' \cup {None}
        /\ Pub(x) \cap Queued(x) = {} /\ Pub(x) \cap S = {}
    BY <2>1, <2>2, <2>4
  <2>8. Ids(store') \subseteq posted' /\ Pub(x) \cap Ids(store') = {}
    BY <2>1, <2>2, <2>3, <2>6, <2>7
  <2>9. ASSUME NEW v \in Window \ {w}
        PROVE  /\ Pub(win[v]) \cap Queued(x) = {} /\ Pub(x) \cap Queued(win[v]) = {}
               /\ Pub(win[v]) \cap Pub(x) = {} /\ Pub(win[v]) \cap Ids(store') = {}
               /\ Pub(win[v]) \subseteq posted' /\ Queued(win[v]) \subseteq posted' \cup {None}
    BY <2>1, <2>3, <2>4, <2>5
  <2>10. ASSUME NEW u \in Window, NEW v \in Window
         PROVE  /\ Pub(win'[u]) \cap Queued(win'[v]) = {}
                /\ v # u => Pub(win'[u]) \cap Pub(win'[v]) = {}
    <3>1. CASE u = w /\ v = w
      BY <1>2, <2>7, <3>1
    <3>2. CASE u = w /\ v # w
      BY <1>2, <1>4, <2>9, <3>2
    <3>3. CASE u # w /\ v = w
      BY <1>2, <1>4, <2>9, <3>3
    <3>4. CASE u # w /\ v # w
      BY <1>4, <3>4 DEF Inv, PostsOK
    <3> QED
      BY <3>1, <3>2, <3>3, <3>4
  <2>11. ASSUME NEW u \in Window
         PROVE  /\ Pub(win'[u]) \subseteq posted' /\ Queued(win'[u]) \subseteq posted' \cup {None}
                /\ Pub(win'[u]) \cap Ids(store') = {}
    BY <1>2, <1>4, <2>7, <2>8, <2>9
  <2> QED
    BY <2>8, <2>10, <2>11 DEF PostsOK
<1>9. \A v \in Window : WinOK(win'[v], noes')
  BY <1>1, <1>2, <1>4
<1> QED
  BY <1>2, <1>4, <1>6, <1>7, <1>8, <1>9 DEF Inv, Grows

(* A step that keeps what the timelines show loses none of it.             *)
LEMMA KeptStep ==
    ASSUME Inv, Grows, NEW w \in Window, NEW x, Fine(w, x), Kept(w, x),
           shown \subseteq Post, shown' \subseteq Post, NothingLost
    PROVE  NothingLost'
<1>1. \A v \in Window \ {w} : Pub(win'[v]) = Pub(win[v])
  BY InvStep
<1>2. win'[w] = x
  BY MovesWindows DEF Fine, WinOK
<1>3. ASSUME NEW f \in Post PROVE /\ \A v \in Window : Publishing(v, f) <=> f \in Pub(win[v])
                                  /\ \A v \in Window : Publishing(v, f)' <=> f \in Pub(win'[v])
  BY DEF Publishing, Pub
<1>4. \A f : (f \in Ids(store) <=> Has(store, f)) /\ (f \in Ids(store') <=> Has(store', f))
  BY DEF Ids, Has
<1> SUFFICES ASSUME NEW f \in shown'
             PROVE  \/ OnRelay(f)' \/ f \in Ids(store') \/ \E v \in Window : f \in Pub(win'[v])
                    \/ f \in torn' \/ noes'[f] = MaxTries
  BY <1>3, <1>4 DEF NothingLost
<1>5. CASE f \notin shown
  BY <1>2, <1>5 DEF Kept
<1>6. CASE f \in shown
  <2>1. \/ OnRelay(f) \/ f \in Ids(store) \/ (\E v \in Window : f \in Pub(win[v]))
        \/ f \in torn \/ noes[f] = MaxTries
    BY <1>3, <1>4, <1>6 DEF NothingLost
  <2>2. CASE OnRelay(f)
    BY <2>2 DEF Grows, OnRelay
  <2>3. CASE f \in Ids(store)
    BY <2>3 DEF Kept
  <2>4. ASSUME NEW v \in Window, f \in Pub(win[v])
        PROVE  \/ OnRelay(f)' \/ f \in Ids(store') \/ \E u \in Window : f \in Pub(win'[u])
               \/ f \in torn'
    <3>1. CASE v = w
      BY <1>2, <2>4, <3>1 DEF Kept
    <3>2. CASE v # w
      BY <1>1, <2>4, <3>2
    <3> QED
      BY <3>1, <3>2
  <2>5. CASE f \in torn
    BY <2>5 DEF Grows
  <2>6. CASE noes[f] = MaxTries
    <3>1. noes[f] <= noes'[f] /\ noes'[f] \in 0 .. MaxTries
      BY DEF Grows, Counts
    <3> QED
      BY <2>6, <3>1, Constants
  <2> QED
    BY <2>1, <2>2, <2>3, <2>4, <2>5, <2>6
<1> QED
  BY <1>5, <1>6
-----------------------------------------------------------------------------
(* One lemma per action: the step is fine, and loses no post.              *)
Good(w) == Grows /\ \E x : Fine(w, x) /\ (~Racing => Kept(w, x))

(* What the invariant says of one window.                                  *)
LEMMA InvFacts ==
    ASSUME Inv, NEW w \in Window
    PROVE  /\ win[w] \in Win /\ WinOK(win[w], noes) /\ noes \in Counts
           /\ ~Racing /\ win[w].up /\ ~win[w].stale => win[w].items = store
           /\ Pub(win[w]) \cap Queued(win[w]) = {} /\ Pub(win[w]) \subseteq posted
           /\ Queued(win[w]) \subseteq posted \cup {None} /\ Pub(win[w]) \cap Ids(store) = {}
           /\ ~Racing /\ Ready(w) => win[w].items = store
  BY DEF Inv, Synced, PostsOK, Ready

(* A step that leaves the network and the history alone.                   *)
LEMMA StillGrows == ASSUME Inv, UNCHANGED <<noes, stored, posted, torn>> PROVE Grows
<1>1. \A e \in Post : noes[e] <= noes[e]
  BY Constants DEF Inv, Counts
<1> QED
  BY <1>1 DEF Grows, Inv

(* A record that keeps its queue, its posts and what it has seen.          *)
LEMMA QuietOK ==
    ASSUME Inv, Grows, NEW w \in Window, NEW y, WinOK(y, noes'), Becomes(w, y), shown' = shown,
           y.items = win[w].items, y.up = win[w].up, y.stale = win[w].stale,
           Pub(y) = Pub(win[w]), Queued(y) \subseteq Queued(win[w]) \cup {None}
    PROVE  Good(w)
<1>1. Moves(w, y)
  BY InvFacts DEF Moves
<1>2. Fine(w, y)
  BY <1>1 DEF Fine
<1>3. Kept(w, y)
  BY DEF Kept, Becomes
<1> QED
  BY <1>2, <1>3 DEF Good

(* A record with other timers or sockets.                                  *)
LEMMA AlikeStep ==
    ASSUME Inv, Grows, NEW w \in Window, NEW y, Alike(win[w], y), Becomes(w, y), shown' = shown
    PROVE  Good(w)
<1>1. WinOK(win[w], noes')
  BY CountsGrow DEF Inv, Grows
<1>2. WinOK(y, noes') /\ Queued(y) = Queued(win[w]) /\ Pub(y) = Pub(win[w])
  BY <1>1, AlikeOK
<1> QED
  BY <1>2, QuietOK DEF Alike

(* Alike is reflexive and transitive.                                      *)
LEMMA AlikeSelf == ASSUME NEW x \in Win PROVE Alike(x, x)
  BY DEF Alike

LEMMA AlikeTwice == ASSUME NEW x, NEW y, NEW z, Alike(x, y), Alike(y, z) PROVE Alike(x, z)
  BY DEF Alike

(* No window does anything.                                                *)
LEMMA NothingMoves ==
    ASSUME Inv, Grows, NEW w \in Window, UNCHANGED <<store, win, shown>>
    PROVE  Good(w)
<1>1. win[w] \in Win /\ win = [win EXCEPT ![w] = win[w]]
  BY DEF Inv
<1>2. Becomes(w, win[w])
  BY <1>1 DEF Becomes
<1> QED
  BY <1>1, <1>2, AlikeSelf, AlikeStep

(* Relays only add refusals and stored posts.                              *)
LEMMA RelayGrows ==
    ASSUME Inv, NEW ms, NEW lost, RelayTakes(ms) \/ Cut(ms, lost), posted \subseteq posted', torn \subseteq torn'
    PROVE  /\ Grows /\ \A e \in Post : noes'[e] <= noes[e] + 1
           /\ RelayTakes(ms) => \A m \in ms : <<m[2], m[3]>> \in Refuses /\ m[3] \in Post =>
                 noes'[m[3]] = IF noes[m[3]] < MaxTries THEN noes[m[3]] + 1 ELSE noes[m[3]]
<1>1. noes \in Counts /\ \A e \in Post : noes[e] \in 0 .. MaxTries
  BY DEF Inv, Counts
<1>2. CASE RelayTakes(ms)
  <2> DEFINE no == {m[3] : m \in {q \in ms : <<q[2], q[3]>> \in Refuses}}
  <2>1. noes' = [e \in Post |-> IF e \in no /\ noes[e] < MaxTries THEN noes[e] + 1 ELSE noes[e]]
    BY <1>2 DEF RelayTakes
  <2>2. stored \subseteq stored'
    BY <1>2 DEF RelayTakes
  <2>3. \A m \in ms : <<m[2], m[3]>> \in Refuses => m[3] \in no
    OBVIOUS
  <2> HIDE DEF no
  <2>4. noes' \in Counts /\ \A e \in Post : noes[e] <= noes'[e] /\ noes'[e] <= noes[e] + 1
    BY <1>1, <2>1, Constants DEF Counts
  <2>5. \A m \in ms : <<m[2], m[3]>> \in Refuses /\ m[3] \in Post =>
                 noes'[m[3]] = IF noes[m[3]] < MaxTries THEN noes[m[3]] + 1 ELSE noes[m[3]]
    BY <2>1, <2>3
  <2> QED
    BY <2>2, <2>4, <2>5 DEF Grows
<1>3. CASE Cut(ms, lost) /\ ~RelayTakes(ms)
  <2>1. UNCHANGED <<stored, noes>>
    BY <1>3 DEF Cut
  <2> QED
    BY <1>1, <1>3, <2>1, Constants DEF Grows
<1> QED
  BY <1>2, <1>3

(* The post is on a relay: its entry may go, and its waiter too.           *)
LEMMA AcknowledgedOK ==
    ASSUME Inv, Grows, NEW w \in Window, Ready(w), NEW x, WinOK(x, noes'), NEW e \in Post, OnRelay(e)',
           x.items = win[w].items, x.up = win[w].up, x.stale = win[w].stale,
           Queued(x) \subseteq Queued(win[w]) \cup {None},
           Pub(x) \subseteq Pub(win[w]), Pub(win[w]) \subseteq Pub(x) \cup {e},
           shown' \subseteq shown \cup {e}, Acknowledged(w, x, e)
    PROVE  Good(w)
<1>1. CASE Has(x.items, e)
  <2> DEFINE y == Removed(x, e)
  <2>1. Saves(w, y)
    BY <1>1 DEF Acknowledged, Removed
  <2>2. /\ WinOK(y, noes') /\ Pub(y) = Pub(x) /\ Ids(y.items) = Ids(x.items) \ {e}
        /\ Queued(y) \subseteq Queued(x)
    <3>1. noes' \in Counts
      BY DEF Grows
    <3> QED
      BY <3>1, RemoveOK
  <2> HIDE DEF y
  <2>3. Fine(w, y)
    BY <2>1, <2>2 DEF Fine, Moves
  <2>4. ASSUME ~Racing PROVE Kept(w, y)
    <3>1. x.items = store /\ store' = y.items
      BY <2>1, <2>4, InvFacts DEF Saves
    <3> QED
      BY <2>2, <3>1 DEF Kept
  <2> QED
    BY <2>3, <2>4 DEF Good
<1>2. CASE ~Has(x.items, e)
  <2>1. Becomes(w, x) /\ store' = store
    BY <1>2 DEF Acknowledged, Becomes
  <2>2. Fine(w, x)
    BY <2>1, InvFacts DEF Fine, Moves
  <2>3. Kept(w, x)
    BY <2>1 DEF Kept
  <2> QED
    BY <2>2, <2>3 DEF Good
<1> QED
  BY <1>1, <1>2

(* The first OK: the waiter is answered, a drain goes on, the entry goes.  *)
LEMMA AcceptedOK ==
    ASSUME Inv, Grows, NEW w \in Window, Ready(w), NEW e \in Post, OnRelay(e)', Accepted(w, e)
    PROVE  Good(w)
<1> DEFINE k == win[w].wait[e]
           x == Answered(win[w], e)
           y == [x EXCEPT !.fl.cur = NoEntry]
<1>1. WinOK(win[w], noes')
  BY CountsGrow DEF Inv, Grows
<1>2. /\ WinOK(x, noes') /\ Queued(x) = Queued(win[w]) /\ x.items = win[w].items /\ x.fl = win[w].fl
      /\ x.up = win[w].up /\ x.stale = win[w].stale
      /\ x.wait[e].by = None /\ x.wait[e].ask = k.ask
      /\ \A f \in Post \ {e} : x.wait[f] = win[w].wait[f]
      /\ Pub(x) = IF k.by = "app" THEN Pub(win[w]) \ {e} ELSE Pub(win[w])
  BY <1>1, AnsweredOK
<1>3. Acknowledged(w, IF k.by = "flush" THEN y ELSE x, e) /\ shown' \subseteq shown \cup {e}
  BY DEF Accepted
<1> HIDE DEF x
<1>4. CASE k.by # "flush"
  <2>1. Acknowledged(w, x, e)
    BY <1>3, <1>4
  <2> QED
    BY <1>2, <1>3, <2>1, AcknowledgedOK
<1>5. CASE k.by = "flush"
  <2>1. Acknowledged(w, y, e)
    BY <1>3, <1>5
  <2>2. \A f \in Post : "flush" \notin {x.wait[f].ask, x.wait[f].by}
    <3>1. win[w].fl.cur.id = e /\ k.ask = None
      BY <1>1, <1>5 DEF WinOK, WaitOK
    <3>2. \A f \in Post \ {e} : "flush" \notin {win[w].wait[f].ask, win[w].wait[f].by}
      BY <1>1, <3>1 DEF WinOK, WaitOK
    <3> QED
      BY <1>2, <3>1, <3>2
  <2>3. /\ y \in Win /\ y.items = x.items /\ y.up = x.up /\ y.stale = x.stale /\ y.wait = x.wait
        /\ y.fl.rest = x.fl.rest /\ y.fl.cur = NoEntry /\ y.fl.same = x.fl.same /\ y.fl.cur.id = None
    <3>1. x \in Win /\ x.fl \in Drain
      BY <1>2 DEF WinOK, Win
    <3>2. [x.fl EXCEPT !.cur = NoEntry] \in Drain
      BY <3>1 DEF Drain
    <3> QED
      BY <3>1, <3>2 DEF Win, Drain, NoEntry
  <2> HIDE DEF y
  <2>4. DrainOK(y, noes')
    <3>1. \A i \in DOMAIN x.items : x.items[i].id # None
      BY <1>2, EntryType, Constants DEF WinOK
    <3> QED
      BY <1>2, <2>3, <3>1 DEF WinOK, DrainOK
  <2>5. ASSUME NEW f \in Post PROVE WaitOK(y, noes', f)
    <3>1. WaitOK(x, noes', f) /\ "flush" \notin {x.wait[f].ask, x.wait[f].by}
      BY <1>2, <2>2 DEF WinOK
    <3> QED
      BY <2>3, <3>1 DEF WaitOK
  <2>6. WinOK(y, noes') /\ Pub(y) = Pub(x) /\ Queued(y) \subseteq Queued(x) \cup {None}
    BY <1>2, <2>3, <2>4, <2>5 DEF WinOK, Awake, Pub, Queued
  <2> QED
    BY <1>2, <1>3, <2>1, <2>3, <2>6, AcknowledgedOK
<1> QED
  BY <1>4, <1>5
(* What a failure finds: the record x of window w after the waiter for e,  *)
(* asked for by `by', was told.                                            *)
Told(w, x, e, by, refused) ==
    /\ WinOK(x, noes') /\ x.items = win[w].items /\ x.up = win[w].up /\ x.stale = win[w].stale
    /\ Queued(x) = Queued(win[w])
    /\ by = "app" => e \in Pub(win[w]) /\ Pub(x) = Pub(win[w]) \ {e}
    /\ by # "app" => Pub(x) = Pub(win[w])
    /\ by = "flush" => x.fl.cur.id = e /\ "flush" \notin {x.wait[e].ask, x.wait[e].by}
    /\ by = "flush" /\ refused => x.fl.cur.tries + 1 <= noes'[e]

(* publish() queues the post, or takes it back.                            *)
LEMMA AppFailedOK ==
    ASSUME Inv, Grows, NEW w \in Window, Ready(w), NEW x, NEW e \in Post, NEW refused, NEW offline,
           Told(w, x, e, "app", refused), AppFailed(w, x, e, offline)
    PROVE  Good(w)
<1>1. /\ WinOK(x, noes') /\ x.items = win[w].items /\ x.up = win[w].up /\ x.stale = win[w].stale
      /\ Queued(x) = Queued(win[w]) /\ e \in Pub(win[w]) /\ Pub(x) = Pub(win[w]) \ {e} /\ noes' \in Counts
  BY DEF Told, Grows
<1>2. e \notin Queued(x)
  BY <1>1, InvFacts
<1>3. CASE MayAdd(x, e)
  <2> DEFINE z == Add(x, e)
             y == [z EXCEPT !.sched = Delays]
  <2>1. shown' = shown /\ Saves(w, IF offline THEN z ELSE y)
    BY <1>3 DEF AppFailed
  <2>2. /\ WinOK(z, noes') /\ Pub(z) = Pub(x) /\ Ids(z.items) = Ids(x.items) \cup {e}
        /\ Queued(z) = Queued(x) \cup {e}
    BY <1>1, <1>2, <1>3, AddOK
  <2> HIDE DEF z
  <2>3. Alike(z, y)
    <3>1. z \in Win /\ TRUE \in BOOLEAN /\ Delays \in 0 .. Delays
      BY <2>2, Constants DEF WinOK
    <3> QED
      BY <3>1, FlagsAlike
  <2>4. WinOK(y, noes') /\ Queued(y) = Queued(z) /\ Pub(y) = Pub(z) /\ y.items = z.items
    BY <2>2, <2>3, AlikeOK DEF Alike
  <2> HIDE DEF y
  <2>5. PICK t : (t = z \/ t = y) /\ Saves(w, t)
    BY <2>1
  <2>6. /\ WinOK(t, noes') /\ Pub(t) = Pub(x) /\ Ids(t.items) = Ids(x.items) \cup {e}
        /\ Queued(t) = Queued(x) \cup {e}
    BY <2>2, <2>4, <2>5
  <2>7. Fine(w, t)
    BY <1>1, <2>5, <2>6 DEF Fine, Moves
  <2>8. ASSUME ~Racing PROVE Kept(w, t)
    <3>1. x.items = store /\ store' = t.items
      BY <1>1, <2>5, <2>8, InvFacts DEF Saves
    <3> QED
      BY <1>1, <2>1, <2>6, <3>1 DEF Kept
  <2> QED
    BY <2>7, <2>8 DEF Good
<1>4. CASE ~MayAdd(x, e)
  <2> DEFINE k == [x.wait[e] EXCEPT !.undo = @ \/ x.wait[e].st = "late"]
             y == Rewaits(x, e, k)
  <2>1. shown' = shown \ {e} /\ Becomes(w, y)
    BY <1>4 DEF AppFailed, Rewaits
  <2>2. /\ k \in Wait /\ k.ask = x.wait[e].ask /\ k.by = x.wait[e].by /\ k.st = x.wait[e].st
        /\ k.no = x.wait[e].no
    <3>1. x.wait[e] \in Wait
      BY <1>1 DEF WinOK, Win
    <3>2. (x.wait[e].undo \/ x.wait[e].st = "late") \in BOOLEAN
      OBVIOUS
    <3> QED
      BY <3>1, <3>2 DEF Wait
  <2> HIDE DEF k
  <2>3. Fits(x, noes', e, k)
    <3>1. x.up
      BY <1>1 DEF Ready
    <3> QED
      BY <1>1, <2>2, <3>1 DEF Fits, WinOK, WaitOK
  <2>4. /\ WinOK(y, noes') /\ Queued(y) = Queued(x) /\ y.items = x.items
        /\ y.up = x.up /\ y.stale = x.stale
        /\ Pub(y) = IF "app" \in {k.ask, k.by} THEN Pub(x) \cup {e} ELSE Pub(x) \ {e}
    BY <1>1, <2>3, WaiterOK
  <2> HIDE DEF y
  <2>5. Pub(y) = Pub(x)
    BY <2>2, <2>4 DEF Pub
  <2>6. Moves(w, y)
    BY <1>1, <2>1, <2>4, InvFacts DEF Moves
  <2>7. Fine(w, y)
    BY <1>1, <2>4, <2>5, <2>6 DEF Fine
  <2>8. Kept(w, y)
    BY <1>1, <2>1, <2>5 DEF Kept, Becomes
  <2> QED
    BY <2>7, <2>8 DEF Good
<1> QED
  BY <1>3, <1>4

(* flush() strikes the entry, gives it up after the last strike, or leaves *)
(* it as it is.                                                            *)
LEMMA FlushFailedOK ==
    ASSUME Inv, Grows, NEW w \in Window, Ready(w), NEW x, NEW e \in Post, NEW refused \in BOOLEAN,
           Told(w, x, e, "flush", refused), FlushFailed(w, x, e, refused)
    PROVE  Good(w)
<1> DEFINE y == [x EXCEPT !.fl = NoFlush]
           given == refused /\ x.fl.cur.tries + 1 >= MaxTries
<1>1. /\ WinOK(x, noes') /\ x.items = win[w].items /\ x.up = win[w].up /\ x.stale = win[w].stale
      /\ Queued(x) = Queued(win[w]) /\ Pub(x) = Pub(win[w]) /\ noes' \in Counts
      /\ x.fl.cur.id = e /\ "flush" \notin {x.wait[e].ask, x.wait[e].by}
      /\ refused => x.fl.cur.tries + 1 <= noes'[e]
  BY DEF Told, Grows
<1>2. \A f \in Post : "flush" \notin {x.wait[f].ask, x.wait[f].by}
  BY <1>1 DEF WinOK, WaitOK
<1>3. /\ WinOK(y, noes') /\ Pub(y) = Pub(x) /\ y.items = x.items /\ y.fl = NoFlush
      /\ y.up = x.up /\ y.stale = x.stale /\ Queued(y) = Ids(x.items) \cup {None}
  BY <1>1, <1>2, DrainEndOK
<1>4. Queued(y) \subseteq Queued(win[w]) \cup {None}
  BY <1>1, <1>3 DEF Queued
<1>5. /\ IF given /\ ~Has(x.items, e) THEN Becomes(w, y)
         ELSE Saves(w, IF given THEN [y EXCEPT !.items = Without(@, e)]
                       ELSE IF ~refused THEN RetrySoon(y)
                       ELSE IF x.fl.same /\ Has(x.items, e) THEN [y EXCEPT !.items[At(x.items, e)].tries = @ + 1]
                       ELSE y)
      /\ shown' \subseteq shown
  BY DEF FlushFailed
<1>6. x.fl.cur \in Entry /\ x.fl.cur.tries \in 0 .. MaxTries /\ MaxTries \in Nat
  <2>1. x.fl.cur \in Entry \cup {NoEntry}
    BY <1>1 DEF WinOK, Win, Drain
  <2>2. x.fl.cur # NoEntry
    BY <1>1, Constants DEF NoEntry
  <2>3. x.fl.cur \in Entry
    BY <2>1, <2>2
  <2> QED
    BY <2>3, Constants DEF Entry
<1> HIDE DEF y
<1>7. ASSUME NEW t, WinOK(t, noes'), Pub(t) = Pub(x), Queued(t) \subseteq Queued(win[w]) \cup {None},
             Saves(w, t), \A f \in Ids(x.items) : f \in Ids(t.items) \/ noes'[f] = MaxTries
      PROVE  Good(w)
  <2>1. Fine(w, t)
    BY <1>1, <1>7 DEF Fine, Moves
  <2>2. ASSUME ~Racing PROVE Kept(w, t)
    <3>1. x.items = store /\ store' = t.items
      BY <1>1, <1>7, <2>2, InvFacts DEF Saves
    <3> QED
      BY <1>1, <1>5, <1>7, <3>1 DEF Kept
  <2> QED
    BY <2>1, <2>2 DEF Good
<1>8. CASE given /\ ~Has(x.items, e)
  <2>1. Becomes(w, y)
    BY <1>5, <1>8
  <2>2. Fine(w, y)
    BY <1>1, <1>3, <1>4, <2>1, InvFacts DEF Fine, Moves
  <2>3. Kept(w, y)
    BY <1>1, <1>3, <1>5, <2>1 DEF Kept, Becomes
  <2> QED
    BY <2>2, <2>3 DEF Good
<1>9. CASE given /\ Has(x.items, e)
  <2> DEFINE t == Removed(y, e)
  <2>1. Saves(w, t)
    BY <1>5, <1>9 DEF Removed
  <2>2. WinOK(t, noes') /\ Pub(t) = Pub(y) /\ Ids(t.items) = Ids(y.items) \ {e} /\ Queued(t) \subseteq Queued(y)
    BY <1>1, <1>3, RemoveOK
  <2>3. noes'[e] = MaxTries
    <3>1. noes'[e] \in 0 .. MaxTries
      BY <1>1 DEF Counts
    <3> QED
      BY <1>1, <1>6, <1>9, <3>1
  <2> HIDE DEF t
  <2> QED
    BY <1>3, <1>4, <1>7, <2>1, <2>2, <2>3
<1>10. CASE ~given /\ ~refused
  <2> DEFINE t == RetrySoon(y)
  <2>1. Saves(w, t)
    BY <1>5, <1>10
  <2>2. Alike(y, t)
    <3>1. y \in Win /\ TRUE \in BOOLEAN /\ 0 \in 0 .. Delays
      BY <1>3, Constants DEF WinOK
    <3> QED
      BY <3>1, FlagsAlike
  <2> HIDE DEF t
  <2>3. WinOK(t, noes') /\ Pub(t) = Pub(y) /\ t.items = y.items /\ Queued(t) = Queued(y)
    BY <1>3, <2>2, AlikeOK DEF Alike
  <2> QED
    BY <1>3, <1>4, <1>7, <2>1, <2>3
<1>11. CASE ~given /\ refused /\ x.fl.same /\ Has(x.items, e)
  <2> DEFINE i == At(x.items, e)
             q == [x.items EXCEPT ![i].tries = @ + 1]
             t == [y EXCEPT !.items = q]
  <2>1. Saves(w, t)
    BY <1>3, <1>5, <1>11
  <2>2. i \in DOMAIN x.items /\ x.items[i].id = e
    BY <1>11 DEF At, Has
  <2> HIDE DEF i
  <2>3. QueueOK(x.items, noes') /\ x.items[i].tries <= x.fl.cur.tries /\ x.items[i].tries \in Nat
        /\ Len(x.items) <= MaxQueue
    BY <1>1, <1>11, <2>2, EntryType DEF WinOK, DrainOK
  <2>4. x.items[i].tries + 1 < MaxTries /\ x.items[i].tries + 1 <= noes'[x.items[i].id]
    <3>1. noes'[e] \in Nat
      BY <1>1, Constants DEF Counts
    <3> QED
      BY <1>1, <1>6, <1>11, <2>2, <2>3, <3>1
  <2>5. QueueOK(q, noes') /\ Len(q) = Len(x.items) /\ Ids(q) = Ids(x.items)
    BY <1>1, <2>2, <2>3, <2>4, StrikeOK
  <2> HIDE DEF q
  <2>6. /\ WinOK(t, noes') /\ Pub(t) = Pub(y) /\ t.items = q
        /\ Queued(t) = Ids(q) \cup Ids(y.fl.rest) \cup {y.fl.cur.id}
    BY <1>1, <1>3, <2>3, <2>5, ItemsOK
  <2> HIDE DEF t
  <2>7. Queued(t) \subseteq Queued(win[w]) \cup {None}
    BY <1>3, <1>4, <2>5, <2>6, EmptyQueue DEF NoFlush, NoEntry
  <2> QED
    BY <1>3, <1>7, <2>1, <2>5, <2>6, <2>7
<1>12. CASE ~given /\ refused /\ ~(x.fl.same /\ Has(x.items, e))
  <2>1. Saves(w, y)
    BY <1>5, <1>12
  <2> QED
    BY <1>3, <1>4, <1>7, <2>1
<1> QED
  BY <1>8, <1>9, <1>10, <1>11, <1>12

(* Whoever waited is told of the failure.                                  *)
LEMMA FailedOK ==
    ASSUME Inv, Grows, NEW w \in Window, Ready(w), NEW x, NEW e \in Post, NEW by, NEW why,
           Told(w, x, e, by, why = "refused"), Failed(w, x, e, by, why)
    PROVE  Good(w)
<1>1. CASE by = "app"
  <2>1. AppFailed(w, x, e, why = "offline")
    BY <1>1 DEF Failed
  <2> QED
    BY <1>1, <2>1, AppFailedOK
<1>2. CASE by = "flush"
  <2>1. FlushFailed(w, x, e, why = "refused") /\ (why = "refused") \in BOOLEAN
    BY <1>2 DEF Failed
  <2> QED
    BY <1>2, <2>1, FlushFailedOK
<1>3. CASE by # "app" /\ by # "flush"
  <2>1. Becomes(w, x) /\ shown' = shown
    BY <1>3 DEF Failed
  <2> QED
    BY <1>3, <2>1, QuietOK DEF Told
<1> QED
  BY <1>1, <1>2, <1>3

(* A window's own record, with another waiter or with one answered.        *)
LEMMA WaiterSet ==
    ASSUME Inv, NEW w \in Window, NEW e \in Post, NEW k, Fits(win[w], noes, e, k),
           NEW y, y = Rewaits(win[w], e, k)
    PROVE  /\ WinOK(y, noes) /\ Queued(y) = Queued(win[w]) /\ y.items = win[w].items /\ y.fl = win[w].fl
           /\ y.up = win[w].up /\ y.stale = win[w].stale /\ y.wait[e] = k
           /\ ("app" \in {k.ask, k.by} => Pub(y) = Pub(win[w]) \cup {e})
           /\ ("app" \notin {k.ask, k.by} => Pub(y) = Pub(win[w]) \ {e})
<1>1. PICK x : x = win[w]
  OBVIOUS
<1>2. WinOK(x, noes) /\ Fits(x, noes, e, k) /\ y = Rewaits(x, e, k)
  BY <1>1, InvFacts
<1>3. /\ WinOK(y, noes) /\ Queued(y) = Queued(x) /\ y.items = x.items /\ y.fl = x.fl
      /\ y.up = x.up /\ y.stale = x.stale /\ y.wait[e] = k
      /\ Pub(y) = IF "app" \in {k.ask, k.by} THEN Pub(x) \cup {e} ELSE Pub(x) \ {e}
  BY <1>2, WaiterOK
<1> QED
  BY <1>1, <1>3

LEMMA AnswerSet ==
    ASSUME Inv, NEW w \in Window, NEW e \in Post, NEW y, y = Answered(win[w], e)
    PROVE  /\ WinOK(y, noes) /\ Queued(y) = Queued(win[w]) /\ y.items = win[w].items /\ y.fl = win[w].fl
           /\ y.up = win[w].up /\ y.stale = win[w].stale
           /\ y.wait[e].by = None /\ y.wait[e].ask = win[w].wait[e].ask
           /\ Pub(y) = IF win[w].wait[e].by = "app" THEN Pub(win[w]) \ {e} ELSE Pub(win[w])
<1>1. PICK x : x = win[w]
  OBVIOUS
<1>2. WinOK(x, noes) /\ y = Answered(x, e)
  BY <1>1, InvFacts
<1>3. /\ WinOK(y, noes) /\ Queued(y) = Queued(x) /\ y.items = x.items /\ y.fl = x.fl
      /\ y.up = x.up /\ y.stale = x.stale
      /\ y.wait[e].by = None /\ y.wait[e].ask = x.wait[e].ask
      /\ Pub(y) = IF x.wait[e].by = "app" THEN Pub(x) \ {e} ELSE Pub(x)
  BY <1>2, AnsweredOK
<1> QED
  BY <1>1, <1>3

(* publish() of a new post: nobody waits for it and no queue has it.       *)
LEMMA PublishGood ==
    ASSUME Inv, NEW w \in Window, NEW e \in Post, Publish(w, e)
    PROVE  Good(w)
<1> DEFINE k == [win[w].wait[e] EXCEPT !.ask = "app"]
           y == Rewaits(win[w], e, k)
<1>1. /\ e \notin posted /\ posted' = posted \cup {e} /\ shown' = shown \cup {e}
      /\ Becomes(w, y) /\ UNCHANGED <<stored, noes, torn>>
  BY DEF Publish, Rewaits, network
<1>2. /\ WinOK(win[w], noes) /\ Pub(win[w]) \subseteq posted /\ Queued(win[w]) \subseteq posted \cup {None}
      /\ (~Racing /\ win[w].up /\ ~win[w].stale => win[w].items = store)
  BY InvFacts
<1>3. Grows
  <2>1. \A f \in Post : noes[f] <= noes[f]
    BY Constants DEF Inv, Counts
  <2> QED
    BY <1>1, <2>1 DEF Grows, Inv
<1>4. /\ win[w].wait[e] \in Wait /\ WaitOK(win[w], noes, e)
      /\ win[w].wait[e].ask = None /\ win[w].wait[e].by = None
  <2>1. win[w].wait[e] \in Wait /\ WaitOK(win[w], noes, e)
    BY <1>2 DEF WinOK, Win
  <2>2. e \notin Pub(win[w]) /\ win[w].fl.cur.id # e
    BY <1>1, <1>2, Constants DEF Queued
  <2> QED
    BY <2>1, <2>2 DEF WaitOK, Pub, Wait, Who
<1>5. k \in Wait /\ k.ask = "app" /\ k.by = None /\ k.st = win[w].wait[e].st
  BY <1>4 DEF Wait, Who
<1> HIDE DEF k
<1>6. Fits(win[w], noes, e, k)
  <2>1. win[w].up
    BY DEF Publish, Ready
  <2> QED
    BY <1>4, <1>5, <2>1 DEF Fits, WaitOK
<1>7. /\ WinOK(y, noes) /\ Queued(y) = Queued(win[w]) /\ y.items = win[w].items
      /\ y.up = win[w].up /\ y.stale = win[w].stale
      /\ ("app" \in {k.ask, k.by} => Pub(y) = Pub(win[w]) \cup {e})
      /\ ("app" \notin {k.ask, k.by} => Pub(y) = Pub(win[w]) \ {e})
  <2>1. y = Rewaits(win[w], e, k)
    OBVIOUS
  <2> HIDE DEF y
  <2> QED
    BY <1>6, <2>1, WaiterSet
<1> HIDE DEF y
<1>8. Pub(y) = Pub(win[w]) \cup {e}
  BY <1>5, <1>7
<1>9. Moves(w, y)
  BY <1>1, <1>2, <1>7 DEF Moves
<1>10. Fine(w, y)
  BY <1>1, <1>7, <1>8, <1>9 DEF Fine
<1>11. Kept(w, y)
  BY <1>1, <1>8 DEF Kept, Becomes
<1> QED
  BY <1>3, <1>10, <1>11 DEF Good

(* The waiter for a post that was sent replaces an earlier one.            *)
LEMMA SendGood ==
    ASSUME Inv, NEW w \in Window, NEW e \in Post, Send(w, e)
    PROVE  Good(w)
<1> DEFINE to == {r \in Relay : win[w].conn[r] # "closed"}
           k == [NoWait EXCEPT !.st = "wait", !.by = win[w].wait[e].ask,
                               !.sent = Cardinality(to), !.on = to]
           y == Rewaits(win[w], e, k)
<1>1. win[w].wait[e].ask # None /\ Becomes(w, y) /\ UNCHANGED <<shown, stored, noes, posted, torn>>
  BY DEF Send, Rewaits, history
<1>2. WinOK(win[w], noes)
  BY InvFacts
<1>3. Grows
  BY <1>1, StillGrows
<1>4. win[w].wait[e] \in Wait /\ WaitOK(win[w], noes, e)
  BY <1>2 DEF WinOK, Win
<1>5. to \in SUBSET Relay
  OBVIOUS
<1> HIDE DEF to
<1>6. k \in Wait /\ k.ask = None /\ k.by = win[w].wait[e].ask /\ k.st = "wait" /\ k.no = 0
  BY <1>4, <1>5 DEF NoWait, Wait, Who
<1> HIDE DEF k
<1>7. Fits(win[w], noes, e, k)
  <2>1. win[w].up
    BY DEF Send, Ready
  <2> QED
    BY <1>1, <1>4, <1>6, <2>1 DEF Fits, WaitOK
<1>8. /\ WinOK(y, noes) /\ Queued(y) = Queued(win[w]) /\ y.items = win[w].items
      /\ y.up = win[w].up /\ y.stale = win[w].stale
      /\ ("app" \in {k.ask, k.by} => Pub(y) = Pub(win[w]) \cup {e})
      /\ ("app" \notin {k.ask, k.by} => Pub(y) = Pub(win[w]) \ {e})
  <2>1. y = Rewaits(win[w], e, k)
    OBVIOUS
  <2> HIDE DEF y
  <2> QED
    BY <1>7, <2>1, WaiterSet
<1> HIDE DEF y
<1>9. Pub(y) = Pub(win[w])
  BY <1>1, <1>4, <1>6, <1>8 DEF WaitOK, Pub
<1> QED
  BY <1>1, <1>3, <1>8, <1>9, QuietOK

(* No socket in time.                                                      *)
LEMMA OfflineGood ==
    ASSUME Inv, NEW w \in Window, NEW e \in Post, Offline(w, e)
    PROVE  Good(w)
<1> DEFINE by == win[w].wait[e].ask
           k == [win[w].wait[e] EXCEPT !.ask = None]
           x == Rewaits(win[w], e, k)
<1>1. by # None /\ Ready(w) /\ Failed(w, x, e, by, "offline") /\ UNCHANGED <<stored, noes, posted, torn>>
  BY DEF Offline, Rewaits, network, history
<1>2. WinOK(win[w], noes)
  BY InvFacts
<1>3. Grows
  BY <1>1, StillGrows
<1>4. win[w].wait[e] \in Wait /\ WaitOK(win[w], noes, e)
  BY <1>2 DEF WinOK, Win
<1>5. k \in Wait /\ k.ask = None /\ k.by = None /\ k.st = win[w].wait[e].st /\ win[w].wait[e].by = None
  BY <1>1, <1>4 DEF Wait, Who, WaitOK
<1> HIDE DEF k
<1>6. Fits(win[w], noes, e, k)
  BY <1>4, <1>5 DEF Fits, WaitOK
<1>7. /\ WinOK(x, noes) /\ Queued(x) = Queued(win[w]) /\ x.items = win[w].items /\ x.fl = win[w].fl
      /\ x.up = win[w].up /\ x.stale = win[w].stale /\ x.wait[e] = k
      /\ ("app" \in {k.ask, k.by} => Pub(x) = Pub(win[w]) \cup {e})
      /\ ("app" \notin {k.ask, k.by} => Pub(x) = Pub(win[w]) \ {e})
  <2>1. x = Rewaits(win[w], e, k)
    OBVIOUS
  <2> HIDE DEF x
  <2> QED
    BY <1>6, <2>1, WaiterSet
<1> HIDE DEF x
<1>8. Pub(x) = Pub(win[w]) \ {e} /\ (by = "app" <=> e \in Pub(win[w]))
  BY <1>5, <1>7 DEF Pub
<1>9. by = "flush" => x.fl.cur.id = e
  BY <1>4, <1>7 DEF WaitOK
<1>10. Told(w, x, e, by, "offline" = "refused")
  BY <1>1, <1>5, <1>7, <1>8, <1>9 DEF Told
<1> HIDE DEF by
<1> QED
  BY <1>1, <1>3, <1>10, FailedOK

(* No answer in time; with a refusal heard before, that is the answer.     *)
LEMMA TimeoutGood ==
    ASSUME Inv, NEW w \in Window, NEW e \in Post, Timeout(w, e)
    PROVE  Good(w)
<1> DEFINE k == win[w].wait[e]
           by == k.by
<1>1. k.st = "wait" /\ Ready(w) /\ UNCHANGED <<stored, noes, posted, torn>>
  BY DEF Timeout, network, history
<1>2. WinOK(win[w], noes)
  BY InvFacts
<1>3. Grows
  BY <1>1, StillGrows
<1>4. k \in Wait /\ WaitOK(win[w], noes, e) /\ by # None /\ k.ask = None /\ k.no \in Nat
  BY <1>1, <1>2 DEF WinOK, Win, WaitOK, Wait
<1>5. CASE k.no > 0
  <2> DEFINE x == Answered(win[w], e)
  <2>1. Failed(w, x, e, by, "refused")
    BY <1>5 DEF Timeout
  <2>2. /\ WinOK(x, noes) /\ Queued(x) = Queued(win[w]) /\ x.items = win[w].items /\ x.fl = win[w].fl
        /\ x.up = win[w].up /\ x.stale = win[w].stale
        /\ x.wait[e].by = None /\ x.wait[e].ask = k.ask
        /\ Pub(x) = IF k.by = "app" THEN Pub(win[w]) \ {e} ELSE Pub(win[w])
    <3> HIDE DEF k
    <3>1. k = win[w].wait[e]
      BY DEF k
    <3> QED
      BY <1>2, <3>1, AnswerSet
  <2> HIDE DEF x
  <2>3. by = "app" => e \in Pub(win[w])
    BY DEF Pub
  <2>4. by = "flush" => x.fl.cur.id = e /\ x.fl.cur.tries + 1 <= noes[e]
    BY <1>4, <1>5, <2>2 DEF WaitOK
  <2>5. Told(w, x, e, by, "refused" = "refused")
    BY <1>1, <1>4, <2>2, <2>3, <2>4 DEF Told
  <2> QED
    BY <1>1, <1>3, <2>1, <2>5, FailedOK
<1>6. CASE ~(k.no > 0)
  <2> DEFINE l == [k EXCEPT !.st = "late", !.by = None]
             x == Rewaits(win[w], e, l)
  <2>1. Failed(w, x, e, by, "timeout")
    <3>1. win[w] \in Win /\ win[w].wait \in [Post -> Wait]
      BY <1>2 DEF WinOK, Win
    <3>2. [win[w] EXCEPT !.wait[e].st = "late", !.wait[e].by = None] = x
      BY <1>4, <3>1 DEF Rewaits, Win, Wait
    <3> QED
      BY <1>6, <3>2 DEF Timeout
  <2>2. l \in Wait /\ l.st = "late" /\ l.by = None /\ l.ask = None
    BY <1>4 DEF Wait, Who
  <2> HIDE DEF l
  <2>3. Fits(win[w], noes, e, l)
    BY <2>2 DEF Fits
  <2>4. /\ WinOK(x, noes) /\ Queued(x) = Queued(win[w]) /\ x.items = win[w].items /\ x.fl = win[w].fl
        /\ x.up = win[w].up /\ x.stale = win[w].stale /\ x.wait[e] = l
        /\ ("app" \in {l.ask, l.by} => Pub(x) = Pub(win[w]) \cup {e})
      /\ ("app" \notin {l.ask, l.by} => Pub(x) = Pub(win[w]) \ {e})
    <3>1. x = Rewaits(win[w], e, l)
      OBVIOUS
    <3> HIDE DEF x
    <3> QED
      BY <2>3, <3>1, WaiterSet
  <2> HIDE DEF x
  <2>5. Pub(x) = Pub(win[w]) \ {e} /\ (by = "app" <=> e \in Pub(win[w]))
    BY <1>4, <2>2, <2>4 DEF Pub
  <2>6. by = "flush" => x.fl.cur.id = e
    BY <1>4, <2>4 DEF WaitOK
  <2>7. Told(w, x, e, by, "timeout" = "refused")
    BY <1>1, <2>2, <2>4, <2>5, <2>6 DEF Told
  <2> QED
    BY <1>1, <1>3, <2>1, <2>7, FailedOK
<1> QED
  BY <1>5, <1>6

(* The end of the wait for a late OK.                                      *)
LEMMA LateEndsGood ==
    ASSUME Inv, NEW w \in Window, NEW e \in Post, LateEnds(w, e)
    PROVE  Good(w)
<1> DEFINE x == Answered(win[w], e)
<1>1. win[w].wait[e].st = "late" /\ Becomes(w, x) /\ UNCHANGED <<shown, stored, noes, posted, torn>>
  BY DEF LateEnds, network, history
<1>2. WinOK(win[w], noes)
  BY InvFacts
<1>3. Grows
  BY <1>1, StillGrows
<1>4. win[w].wait[e].by = None
  BY <1>1, <1>2 DEF WinOK, WaitOK
<1>5. /\ WinOK(x, noes) /\ Queued(x) = Queued(win[w]) /\ x.items = win[w].items
      /\ x.up = win[w].up /\ x.stale = win[w].stale
      /\ Pub(x) = IF win[w].wait[e].by = "app" THEN Pub(win[w]) \ {e} ELSE Pub(win[w])
  BY AnswerSet
<1> HIDE DEF x
<1> QED
  BY <1>1, <1>3, <1>4, <1>5, QuietOK

(* The post is on the relay that said so.                                  *)
LEMMA HearOkGood ==
    ASSUME Inv, NEW w \in Window, NEW r \in Relay, NEW e \in Post, HearOk(w, r, e)
    PROVE  Good(w)
<1>1. /\ Ready(w) /\ RelayTakes({<<w, r, e>>}) /\ <<r, e>> \notin Refuses
      /\ IF win[w].wait[e].st # None THEN Accepted(w, e) ELSE UNCHANGED <<store, win, receipts, shown>>
      /\ UNCHANGED <<posted, torn>>
  BY DEF HearOk
<1>2. Grows
  BY <1>1, RelayGrows
<1>3. OnRelay(e)'
  <2>1. <<r, e>> \in stored'
    BY <1>1 DEF RelayTakes
  <2> QED
    BY <2>1 DEF OnRelay
<1>4. CASE win[w].wait[e].st # None
  BY <1>1, <1>2, <1>3, <1>4, AcceptedOK
<1>5. CASE win[w].wait[e].st = None
  <2>1. UNCHANGED <<store, win, shown>>
    BY <1>1, <1>5
  <2> QED
    BY <1>2, <2>1, NothingMoves
<1> QED
  BY <1>4, <1>5

(* A refusal told to a drain is one its post really had.                   *)
LEMMA HearNoGood ==
    ASSUME Inv, NEW w \in Window, NEW r \in Relay, NEW e \in Post, HearNo(w, r, e)
    PROVE  Good(w)
<1> DEFINE k == win[w].wait[e]
           l == [k EXCEPT !.no = @ + 1]
           x == Rewaits(win[w], e, l)
           y == Answered(x, e)
<1>1. /\ Ready(w) /\ RelayTakes({<<w, r, e>>}) /\ <<r, e>> \in Refuses
      /\ UNCHANGED <<posted, torn>>
      /\ CASE k.st = None -> UNCHANGED <<store, win, receipts, shown>>
           [] k.st # None /\ k.no + 1 >= k.sent -> Failed(w, y, e, k.by, "refused")
           [] OTHER -> Becomes(w, x) /\ UNCHANGED <<receipts, shown>>
  BY DEF HearNo, Rewaits
<1>2. Grows /\ noes'[e] = IF noes[e] < MaxTries THEN noes[e] + 1 ELSE noes[e]
  <2>1. \A m \in {<<w, r, e>>} : m[2] = r /\ m[3] = e
    OBVIOUS
  <2> QED
    BY <1>1, <2>1, RelayGrows
<1>3. WinOK(win[w], noes) /\ WinOK(win[w], noes')
  BY <1>2, CountsGrow DEF Inv, Grows
<1>4. k \in Wait /\ WaitOK(win[w], noes', e) /\ WaitOK(win[w], noes, e) /\ k.no \in Nat
  BY <1>3 DEF WinOK, Win, Wait
<1>5. k.by = "flush" => win[w].fl.cur.tries + 1 <= noes'[e]
  <2> SUFFICES ASSUME k.by = "flush" PROVE win[w].fl.cur.tries + 1 <= noes'[e]
    OBVIOUS
  <2> DEFINE c == win[w].fl.cur
  <2>1. c.id = e
    BY <1>4 DEF WaitOK
  <2>2. c # NoEntry
    BY <2>1, Constants DEF NoEntry
  <2>3. c.tries < MaxTries /\ c.tries <= noes[e]
    BY <1>3, <2>1, <2>2 DEF WinOK, DrainOK
  <2>4. c \in Entry
    BY <1>3, <2>2 DEF WinOK, Win, Drain
  <2>5. c.tries \in Nat /\ noes[e] \in 0 .. MaxTries /\ MaxTries \in Nat
    BY <2>4, Constants DEF Entry, Inv, Counts
  <2> HIDE DEF c
  <2>6. c.tries + 1 <= noes'[e]
    BY <1>2, <2>3, <2>5
  <2> QED
    BY <2>6 DEF c
<1>6. l \in Wait /\ l.ask = k.ask /\ l.by = k.by /\ l.st = k.st
  BY <1>4 DEF Wait
<1>7. CASE k.st = None
  <2>1. UNCHANGED <<store, win, shown>>
    BY <1>1, <1>7
  <2> QED
    BY <1>2, <2>1, NothingMoves
<1>8. CASE k.st # None
  <2> HIDE DEF l
  <2>1. Fits(win[w], noes', e, l)
    <3>1. win[w].up
      BY <1>1 DEF Ready
    <3> QED
      BY <1>4, <1>5, <1>6, <3>1 DEF Fits, WaitOK
  <2>2. /\ WinOK(x, noes') /\ Queued(x) = Queued(win[w]) /\ x.items = win[w].items /\ x.fl = win[w].fl
        /\ x.up = win[w].up /\ x.stale = win[w].stale /\ x.wait[e] = l
        /\ ("app" \in {l.ask, l.by} => Pub(x) = Pub(win[w]) \cup {e})
        /\ ("app" \notin {l.ask, l.by} => Pub(x) = Pub(win[w]) \ {e})
    <3>1. PICK v : v = win[w]
      OBVIOUS
    <3>2. WinOK(v, noes') /\ Fits(v, noes', e, l) /\ x = Rewaits(v, e, l)
      BY <1>3, <2>1, <3>1
    <3> HIDE DEF x
    <3>3. /\ WinOK(x, noes') /\ Queued(x) = Queued(v) /\ x.items = v.items /\ x.fl = v.fl
          /\ x.up = v.up /\ x.stale = v.stale /\ x.wait[e] = l
          /\ Pub(x) = IF "app" \in {l.ask, l.by} THEN Pub(v) \cup {e} ELSE Pub(v) \ {e}
      BY <3>2, WaiterOK
    <3> QED
      BY <3>1, <3>3
  <2>3. Pub(x) = Pub(win[w])
    <3> HIDE DEF x
    <3> QED
      BY <1>6, <2>2 DEF Pub
  <2>4. CASE k.no + 1 >= k.sent
    <3>1. Failed(w, y, e, k.by, "refused")
      BY <1>1, <1>8, <2>4
    <3> HIDE DEF x
    <3>2. /\ WinOK(y, noes') /\ Queued(y) = Queued(x) /\ y.items = x.items /\ y.fl = x.fl
          /\ y.up = x.up /\ y.stale = x.stale
          /\ y.wait[e].by = None /\ y.wait[e].ask = x.wait[e].ask
          /\ Pub(y) = IF x.wait[e].by = "app" THEN Pub(x) \ {e} ELSE Pub(x)
      BY <2>2, AnsweredOK
    <3> HIDE DEF y
    <3>3. k.by = "app" => e \in Pub(win[w])
      BY DEF Pub
    <3>4. k.by = "flush" => win[w].fl.cur.id = e /\ k.ask = None
      BY <1>4 DEF WaitOK
    <3>5. Told(w, y, e, k.by, "refused" = "refused")
      BY <1>5, <1>6, <2>2, <2>3, <3>2, <3>3, <3>4 DEF Told
    <3> QED
      BY <1>1, <1>2, <3>1, <3>5, FailedOK
  <2>5. CASE ~(k.no + 1 >= k.sent)
    <3>1. Becomes(w, x) /\ shown' = shown
      BY <1>1, <1>8, <2>5
    <3> HIDE DEF x
    <3> QED
      BY <1>2, <2>2, <2>3, <3>1, QuietOK
  <2> QED
    BY <2>4, <2>5
<1> QED
  BY <1>7, <1>8

(* An answer nobody hears.                                                 *)
LEMMA LoseAnswerGood ==
    ASSUME Inv, NEW w \in Window, NEW r \in Relay, NEW e \in Post, LoseAnswer(w, r, e)
    PROVE  Good(w)
<1>1. RelayTakes({<<w, r, e>>}) /\ UNCHANGED <<store, win, shown, posted, torn>>
  BY DEF LoseAnswer
<1>2. Grows
  BY <1>1, RelayGrows
<1> QED
  BY <1>1, <1>2, NothingMoves

(* The post comes back from a relay that has it.                           *)
LEMMA EchoGood ==
    ASSUME Inv, NEW w \in Window, NEW r \in Relay, NEW e \in Post, Echo(w, r, e)
    PROVE  Good(w)
<1>1. /\ Ready(w) /\ <<r, e>> \in stored /\ UNCHANGED <<noes, stored, posted, torn>>
      /\ IF win[w].wait[e].st # None THEN Accepted(w, e)
         ELSE Acknowledged(w, win[w], e) /\ shown' = shown
  BY DEF Echo, network, history
<1>2. Grows
  BY <1>1, StillGrows
<1>3. OnRelay(e)'
  BY <1>1 DEF OnRelay
<1>4. CASE win[w].wait[e].st # None
  BY <1>1, <1>2, <1>3, <1>4, AcceptedOK
<1>5. CASE win[w].wait[e].st = None
  <2>1. PICK x : x = win[w]
    OBVIOUS
  <2>2. WinOK(x, noes') /\ Acknowledged(w, x, e) /\ shown' = shown
    BY <1>1, <1>5, <2>1, InvFacts
  <2> QED
    BY <1>1, <1>2, <1>3, <2>1, <2>2, AcknowledgedOK
<1> QED
  BY <1>4, <1>5

(* Where posts are written again on a reconnect.                           *)
LEMMA WaitsAlike ==
    ASSUME NEW x \in Win, NEW wt \in [Post -> Wait],
           \A e \in Post : /\ wt[e].ask = x.wait[e].ask /\ wt[e].by = x.wait[e].by
                           /\ wt[e].st = x.wait[e].st /\ wt[e].no = x.wait[e].no
    PROVE  Alike(x, [x EXCEPT !.wait = wt])
<1> DEFINE y == [x EXCEPT !.wait = wt]
<1>1. y \in Win
  BY DEF Win
<1>2. y.items = x.items /\ y.fl = x.fl /\ y.up = x.up /\ y.stale = x.stale /\ y.wait = wt
  BY DEF Win
<1> HIDE DEF y
<1>3. Alike(x, y)
  BY <1>1, <1>2 DEF Alike
<1> QED
  BY <1>3 DEF y

(* A socket that carries nothing.                                          *)
LEMMA FrozenAlike ==
    ASSUME NEW x \in Win, NEW r \in Relay
    PROVE  Alike(x, [x EXCEPT !.conn[r] = "frozen"])
<1> DEFINE c == [x.conn EXCEPT ![r] = "frozen"]
           y == [x EXCEPT !.conn = c]
<1>1. c \in [Relay -> {"closed", "open", "frozen"}]
  BY DEF Win
<1> HIDE DEF c
<1>2. y \in Win
  BY <1>1 DEF Win
<1>3. y.items = x.items /\ y.fl = x.fl /\ y.up = x.up /\ y.stale = x.stale /\ y.wait = x.wait
  BY DEF Win
<1> HIDE DEF y
<1>4. Alike(x, y)
  BY <1>2, <1>3 DEF Alike
<1> QED
  BY <1>4 DEF y, c

(* A socket is gone, and what was written to it.                           *)
LEMMA GoneAlike ==
    ASSUME NEW x \in Win, NEW r \in Relay
    PROVE  Alike(x, Gone(x, r))
<1> DEFINE wt == [e \in Post |-> [x.wait[e] EXCEPT !.on = @ \ {r}]]
<1>1. ASSUME NEW e \in Post
      PROVE  /\ wt[e] \in Wait /\ wt[e].ask = x.wait[e].ask /\ wt[e].by = x.wait[e].by
             /\ wt[e].st = x.wait[e].st /\ wt[e].no = x.wait[e].no
  <2>1. x.wait[e] \in Wait
    BY DEF Win
  <2> QED
    BY <2>1 DEF Wait
<1>2. wt \in [Post -> Wait]
  BY <1>1
<1>3. Gone(x, r) = [x EXCEPT !.conn[r] = "closed", !.wait = wt]
  BY DEF Gone
<1> HIDE DEF wt
<1>4. "closed" \in {"closed", "open", "frozen"}
  OBVIOUS
<1>5. Alike(x, [x EXCEPT !.conn[r] = "closed", !.wait = wt])
  BY <1>1, <1>2, <1>4, SocketsAlike
<1> QED
  BY <1>3, <1>5

(* A socket opens.                                                         *)
LEMMA ConnectGood ==
    ASSUME Inv, NEW w \in Window, NEW r \in Relay, Connect(w, r)
    PROVE  Good(w)
<1>1. PICK x : x = win[w]
  OBVIOUS
<1>2. x \in Win
  BY <1>1, InvFacts
<1> DEFINE wt == [e \in Post |-> [x.wait[e] EXCEPT !.again = @ \ {r}]]
           y == [x EXCEPT !.conn[r] = "open", !.wait = wt]
<1>3. Becomes(w, IF Ok(x) THEN y ELSE FlushOutbox(y)) /\ UNCHANGED <<shown, stored, noes, posted, torn>>
  BY <1>1 DEF Connect, history
<1>4. Grows
  BY <1>3, StillGrows
<1>5. ASSUME NEW e \in Post
      PROVE  /\ wt[e] \in Wait /\ wt[e].ask = x.wait[e].ask /\ wt[e].by = x.wait[e].by
             /\ wt[e].st = x.wait[e].st /\ wt[e].no = x.wait[e].no
  <2>1. x.wait[e] \in Wait
    BY <1>2 DEF Win
  <2> QED
    BY <2>1 DEF Wait
<1>6. wt \in [Post -> Wait]
  BY <1>5
<1> HIDE DEF wt
<1>7. Alike(x, y)
  <2>1. "open" \in {"closed", "open", "frozen"}
    OBVIOUS
  <2> QED
    BY <1>2, <1>5, <1>6, <2>1, SocketsAlike
<1> HIDE DEF y
<1>8. Alike(x, FlushOutbox(y))
  <2>1. y \in Win /\ TRUE \in BOOLEAN /\ 0 \in 0 .. Delays
    BY <1>7, Constants DEF Alike
  <2>2. Alike(y, FlushOutbox(y))
    BY <2>1, FlagsAlike
  <2> QED
    BY <1>7, <2>2, AlikeTwice
<1>9. PICK z : z = IF Ok(x) THEN y ELSE FlushOutbox(y)
  OBVIOUS
<1>10. Alike(win[w], z) /\ Becomes(w, z)
  BY <1>1, <1>3, <1>7, <1>8, <1>9
<1> QED
  BY <1>3, <1>4, <1>10, AlikeStep

(* A socket closes, is cut off, or is found silent and replaced.           *)
LEMMA DropGood ==
    ASSUME Inv, NEW w \in Window, NEW r \in Relay, NEW lost, Drop(w, r, lost)
    PROVE  Good(w)
<1>1. Cut(Flight(w, r), lost) /\ Becomes(w, Gone(win[w], r)) /\ UNCHANGED <<shown, posted, torn>>
  BY DEF Drop
<1>2. Grows
  BY <1>1, RelayGrows
<1>3. Alike(win[w], Gone(win[w], r))
  BY InvFacts, GoneAlike
<1> QED
  BY <1>1, <1>2, <1>3, AlikeStep

LEMMA FreezeGood ==
    ASSUME Inv, NEW w \in Window, NEW r \in Relay, NEW lost, Freeze(w, r, lost)
    PROVE  Good(w)
<1> DEFINE y == [win[w] EXCEPT !.conn[r] = "frozen"]
<1>1. Cut(Flight(w, r), lost) /\ Becomes(w, y) /\ UNCHANGED <<shown, posted, torn>>
  BY DEF Freeze
<1>2. Grows
  BY <1>1, RelayGrows
<1>3. Alike(win[w], y)
  BY InvFacts, FrozenAlike
<1> HIDE DEF y
<1> QED
  BY <1>1, <1>2, <1>3, AlikeStep

LEMMA RebuildGood ==
    ASSUME Inv, NEW w \in Window, NEW r \in Relay, NEW asked, Rebuild(w, r, asked)
    PROVE  Good(w)
<1>1. PICK x : x = win[w]
  OBVIOUS
<1>2. x \in Win
  BY <1>1, InvFacts
<1> DEFINE y == Gone(x, r)
           on == {e \in Post : r \in x.wait[e].on}
           wt == [e \in Post |-> [y.wait[e] EXCEPT !.again = IF e \in on THEN @ \cup {r} ELSE @]]
           z == [y EXCEPT !.wait = wt]
<1>3. Becomes(w, IF asked THEN z ELSE y) /\ UNCHANGED <<shown, stored, noes, posted, torn>>
  BY <1>1 DEF Rebuild, network, history
<1>4. Grows
  BY <1>3, StillGrows
<1>5. Alike(x, y)
  BY <1>2, GoneAlike
<1> HIDE DEF y, on
<1>6. ASSUME NEW e \in Post
      PROVE  /\ wt[e] \in Wait /\ wt[e].ask = y.wait[e].ask /\ wt[e].by = y.wait[e].by
             /\ wt[e].st = y.wait[e].st /\ wt[e].no = y.wait[e].no
  <2>1. y.wait[e] \in Wait
    BY <1>5 DEF Alike, Win
  <2> QED
    BY <2>1 DEF Wait
<1>7. wt \in [Post -> Wait] /\ y \in Win
  BY <1>5, <1>6 DEF Alike
<1> HIDE DEF wt
<1>8. Alike(y, z)
  BY <1>6, <1>7, WaitsAlike
<1> HIDE DEF z
<1>9. Alike(x, z)
  BY <1>5, <1>8, AlikeTwice
<1>10. PICK t : t = IF asked THEN z ELSE y
  OBVIOUS
<1>11. Alike(win[w], t) /\ Becomes(w, t)
  BY <1>1, <1>3, <1>5, <1>9, <1>10
<1> QED
  BY <1>3, <1>4, <1>11, AlikeStep

(* What starts a drain.                                                    *)
LEMMA DrainsGood ==
    ASSUME Inv, NEW w \in Window, NEW x, Alike(win[w], x), NEW by \in {"own", "app"},
           Becomes(w, Drains(x, by)), UNCHANGED <<shown, noes, stored, posted, torn>>
    PROVE  Good(w)
<1>1. WinOK(x, noes) /\ Queued(x) = Queued(win[w]) /\ Pub(x) = Pub(win[w])
  BY InvFacts, AlikeOK
<1>2. PICK y : y = Drains(x, by)
  OBVIOUS
<1>3. /\ WinOK(y, noes) /\ Pub(y) = Pub(x) /\ y.items = x.items /\ y.up = x.up /\ y.stale = x.stale
      /\ Queued(y) \subseteq Queued(x) \cup {None}
  BY <1>1, <1>2, DrainsOK
<1>4. Becomes(w, y) /\ WinOK(y, noes') /\ Grows
  BY <1>2, <1>3, StillGrows
<1> QED
  BY <1>1, <1>3, <1>4, QuietOK DEF Alike

(* The retry timer.                                                        *)
LEMMA RetryFiresGood ==
    ASSUME Inv, NEW w \in Window, NEW hidden, RetryFires(w, hidden)
    PROVE  Good(w)
<1>1. PICK x : x = [win[w] EXCEPT !.timer = FALSE]
  OBVIOUS
<1>2. /\ Becomes(w, IF hidden THEN x ELSE Drains(x, "own"))
      /\ UNCHANGED <<shown, noes, stored, posted, torn>>
  BY <1>1 DEF RetryFires, network, history
<1>3. Alike(win[w], x)
  <2>1. win[w] \in Win /\ FALSE \in BOOLEAN /\ 0 \in 0 .. Delays
    BY InvFacts, Constants
  <2> QED
    BY <1>1, <2>1, FlagsAlike
<1>4. CASE hidden
  BY <1>2, <1>3, <1>4, StillGrows, AlikeStep
<1>5. CASE ~hidden
  BY <1>2, <1>3, <1>5, DrainsGood
<1> QED
  BY <1>4, <1>5

(* _flushOutbox().                                                         *)
LEMMA AppDrainsGood ==
    ASSUME Inv, NEW w \in Window, AppDrains(w)
    PROVE  Good(w)
<1>1. PICK x : x = [win[w] EXCEPT !.due = FALSE]
  OBVIOUS
<1>2. Becomes(w, Drains(x, "app")) /\ UNCHANGED <<shown, noes, stored, posted, torn>>
  BY <1>1 DEF AppDrains, network, history
<1>3. Alike(win[w], x)
  <2>1. win[w] \in Win /\ FALSE \in BOOLEAN /\ 0 \in 0 .. Delays
    BY InvFacts, Constants
  <2> QED
    BY <1>1, <2>1, FlagsAlike
<1> QED
  BY <1>2, <1>3, DrainsGood

(* The browser is back on the network.                                     *)
LEMMA OnlineGood ==
    ASSUME Inv, NEW w \in Window, Online(w)
    PROVE  Good(w)
<1>1. PICK x : x = win[w]
  OBVIOUS
<1>2. Becomes(w, Drains(x, "own")) /\ UNCHANGED <<shown, noes, stored, posted, torn>>
  BY <1>1 DEF Online, network, history
<1>3. Alike(win[w], x)
  BY <1>1, InvFacts, AlikeSelf
<1> QED
  BY <1>2, <1>3, DrainsGood

(* What only sets a timer.                                                 *)
LEMMA TimersGood ==
    ASSUME Inv, NEW w \in Window, Scheduled(w) \/ Retry(w) \/ Resume(w)
    PROVE  Good(w)
<1>1. PICK x : x = win[w]
  OBVIOUS
<1>2. x \in Win /\ x.sched \in 0 .. Delays /\ TRUE \in BOOLEAN /\ 0 \in 0 .. Delays
  BY <1>1, InvFacts, Constants DEF Win
<1>3. UNCHANGED <<shown, noes, stored, posted, torn>>
  BY DEF Scheduled, Retry, Resume, network, history
<1>4. Alike(x, RetrySoon(x)) /\ Alike(x, FlushOutbox(x)) /\ Alike(x, [x EXCEPT !.sched = 0])
  BY <1>2, FlagsAlike
<1>5. x.sched > 0 => Alike(x, FlushOutbox([x EXCEPT !.sched = @ - 1]))
  <2> SUFFICES ASSUME x.sched > 0 PROVE Alike(x, FlushOutbox([x EXCEPT !.sched = @ - 1]))
    OBVIOUS
  <2>1. PICK n : n = x.sched - 1
    OBVIOUS
  <2>2. n \in 0 .. Delays
    BY <1>2, <2>1, Constants
  <2>3. PICK y : y = [x EXCEPT !.sched = n]
    OBVIOUS
  <2>4. Alike(x, y)
    BY <1>2, <2>2, <2>3, FlagsAlike
  <2>5. Alike(y, FlushOutbox(y))
    BY <1>2, <2>4, FlagsAlike DEF Alike
  <2>6. y = [x EXCEPT !.sched = @ - 1]
    BY <2>1, <2>3
  <2> QED
    BY <2>4, <2>5, <2>6, AlikeTwice
<1>6. \E y : Becomes(w, y) /\ Alike(x, y)
  <2>1. CASE Scheduled(w)
    <3>1. /\ x.sched > 0
          /\ Becomes(w, IF x.items = <<>> THEN [x EXCEPT !.sched = 0]
                        ELSE FlushOutbox([x EXCEPT !.sched = @ - 1]))
      BY <1>1, <2>1 DEF Scheduled
    <3> QED
      BY <1>4, <1>5, <3>1
  <2>2. CASE Retry(w)
    BY <1>1, <1>4, <2>2 DEF Retry
  <2>3. CASE Resume(w)
    BY <1>1, <1>4, <2>3 DEF Resume
  <2> QED
    BY <2>1, <2>2, <2>3
<1> QED
  BY <1>1, <1>3, <1>6, StillGrows, AlikeStep

(* The rest of a queue.                                                    *)
Splits(q, it, s) == it = Head(q) /\ s = Tail(q)

LEMMA TailOK ==
    ASSUME NEW ns, NEW q, QueueOK(q, ns), q # <<>>, NEW s, NEW it, Splits(q, it, s)
    PROVE  /\ QueueOK(s, ns) /\ it = q[1] /\ 1 \in DOMAIN q
           /\ Ids(s) \subseteq Ids(q) /\ it.id \in Ids(q)
           /\ \A j \in DOMAIN s : \E i \in DOMAIN q : s[j] = q[i]
<1>1. q \in Seq(Entry) /\ Len(q) \in Nat /\ DOMAIN q = 1 .. Len(q) /\ Len(q) > 0
  BY EmptySeq DEF QueueOK, IsQueue
<1>2. s \in Seq(Entry) /\ DOMAIN s = 1 .. Len(q) - 1 /\ \A j \in 1 .. Len(q) - 1 : s[j] = q[j + 1]
  BY <1>1, HeadTailProperties DEF Splits
<1>3. it = q[1] /\ 1 \in DOMAIN q
  BY <1>1 DEF Splits
<1>4. IsQueue(s)
  <2> SUFFICES ASSUME NEW i \in 1 .. Len(q) - 1, NEW j \in 1 .. Len(q) - 1, s[i].id = s[j].id PROVE i = j
    BY <1>2 DEF IsQueue
  <2>1. i + 1 \in DOMAIN q /\ j + 1 \in DOMAIN q /\ q[i + 1].id = q[j + 1].id
    BY <1>1, <1>2
  <2>2. i + 1 = j + 1
    BY <2>1 DEF QueueOK, IsQueue
  <2> QED
    BY <2>2
<1>5. \A j \in DOMAIN s : \E i \in DOMAIN q : s[j] = q[i]
  <2> SUFFICES ASSUME NEW j \in 1 .. Len(q) - 1 PROVE \E i \in DOMAIN q : s[j] = q[i]
    BY <1>2
  <2>1. j + 1 \in DOMAIN q /\ s[j] = q[j + 1]
    BY <1>1, <1>2
  <2> QED
    BY <2>1
<1>6. QueueOK(s, ns)
  BY <1>4, <1>5 DEF QueueOK
<1>7. Ids(s) \subseteq Ids(q) /\ it.id \in Ids(q)
  BY <1>3, <1>5 DEF Ids
<1> QED
  BY <1>3, <1>5, <1>6, <1>7

(* The drain turns to its next entry.                                      *)
LEMMA NextEntryOK ==
    ASSUME NEW ns, NEW x, WinOK(x, ns), x.fl.by # None, x.fl.cur = NoEntry, x.fl.rest # <<>>
    PROVE  LET it == Head(x.fl.rest)
               y == [x EXCEPT !.fl = [x.fl EXCEPT !.rest = Tail(x.fl.rest), !.cur = it]] IN
           /\ WinOK(y, ns) /\ Pub(y) = Pub(x) /\ Queued(y) \subseteq Queued(x) /\ y.items = x.items
           /\ y.up = x.up /\ y.stale = x.stale /\ y.wait = x.wait /\ y.fl.cur.id = it.id
           /\ it.id \in Post /\ it.id \in Queued(x)
           /\ \A e \in Post : "flush" \notin {x.wait[e].ask, x.wait[e].by}
<1> DEFINE q == x.fl.rest
           it == Head(q)
           s == Tail(q)
           d == [x.fl EXCEPT !.rest = s, !.cur = it]
           y == [x EXCEPT !.fl = d]
<1>1. x \in Win /\ x.fl \in Drain /\ QueueOK(q, ns) /\ q # <<>>
  BY DEF WinOK, DrainOK, Win
<1>2. /\ QueueOK(s, ns) /\ it = q[1] /\ 1 \in DOMAIN q
      /\ Ids(s) \subseteq Ids(q) /\ it.id \in Ids(q)
      /\ \A j \in DOMAIN s : \E i \in DOMAIN q : s[j] = q[i]
  <2>1. Splits(q, it, s)
    BY DEF Splits
  <2> HIDE DEF q, s, it
  <2> QED
    BY <1>1, <2>1, TailOK
<1>3. it \in Entry /\ it.id \in Post /\ it.tries < MaxTries /\ it.tries <= ns[it.id]
  <2> HIDE DEF q, it
  <2>1. it = q[1] /\ q[1] \in Entry /\ q[1].id \in Post
    BY <1>1, <1>2, EntryType
  <2> QED
    BY <1>1, <1>2, <2>1 DEF QueueOK
<1>4. s \in Seq(Entry)
  BY <1>2 DEF QueueOK, IsQueue
<1> HIDE DEF it, s
<1>5. d \in Drain /\ d.by = x.fl.by /\ d.rest = s /\ d.cur = it /\ d.same = x.fl.same
  BY <1>1, <1>3, <1>4 DEF Drain
<1> HIDE DEF d
<1>6. /\ y \in Win /\ y.fl = d /\ y.items = x.items /\ y.wait = x.wait /\ y.up = x.up
      /\ y.stale = x.stale
  BY <1>1, <1>5 DEF Win
<1> HIDE DEF y
<1>7. DrainOK(y, ns)
  <2>1. ASSUME x.fl.same, NEW i \in DOMAIN x.items
        PROVE  /\ x.items[i].id = it.id => x.items[i].tries <= it.tries
               /\ \A j \in DOMAIN s : x.items[i].id = s[j].id => x.items[i].tries <= s[j].tries
    <3>1. \A j \in DOMAIN q : x.items[i].id = q[j].id => x.items[i].tries <= q[j].tries
      BY <2>1 DEF WinOK, DrainOK
    <3> HIDE DEF q
    <3> QED
      BY <1>2, <3>1
  <2> HIDE DEF q
  <2> QED
    BY <1>2, <1>3, <1>5, <1>6, <2>1 DEF DrainOK
<1>8. \A e \in Post : "flush" \notin {x.wait[e].ask, x.wait[e].by}
  BY Constants DEF WinOK, WaitOK, NoEntry
<1>9. ASSUME NEW e \in Post PROVE WaitOK(y, ns, e)
  <2>1. WaitOK(x, ns, e) /\ "flush" \notin {x.wait[e].ask, x.wait[e].by}
    BY <1>8 DEF WinOK
  <2> QED
    BY <1>6, <2>1 DEF WaitOK
<1>10. Pub(y) = Pub(x)
  BY <1>6 DEF Pub
<1>11. it.id \in Ids(q)
  BY <1>2
<1>12. Queued(y) \subseteq Queued(x) /\ it.id \in Queued(x) /\ y.fl.cur.id = it.id
  BY <1>2, <1>5, <1>6, <1>11 DEF Queued
<1>13. WinOK(y, ns)
  BY <1>6, <1>7, <1>9, <1>10 DEF WinOK, Awake
<1> QED
  BY <1>3, <1>6, <1>8, <1>10, <1>12, <1>13 DEF y, d, s, it

(* The loop of flush(): a post in the queue is not being published, so the *)
(* drain is the only one who waits for it.                                 *)
LEMMA FlushNextGood ==
    ASSUME Inv, NEW w \in Window, FlushNext(w)
    PROVE  Good(w)
<1>1. PICK x : x = win[w]
  OBVIOUS
<1> DEFINE it == Head(x.fl.rest)
           z == [x EXCEPT !.fl.rest = Tail(@), !.fl.cur = it, !.wait[it.id].ask = "flush"]
<1>2. /\ x.fl.by # None /\ x.fl.cur = NoEntry /\ UNCHANGED <<shown, noes, stored, posted, torn>>
      /\ Becomes(w, IF x.fl.rest = <<>> \/ ~Ok(x) THEN [x EXCEPT !.fl = NoFlush] ELSE z)
  BY <1>1 DEF FlushNext, network, history
<1>3. WinOK(x, noes) /\ Pub(x) \cap Queued(x) = {}
  BY <1>1, InvFacts
<1>4. Grows
  BY <1>2, StillGrows
<1>5. CASE x.fl.rest = <<>> \/ ~Ok(x)
  <2>1. \A e \in Post : "flush" \notin {x.wait[e].ask, x.wait[e].by}
    BY <1>2, <1>3, Constants DEF WinOK, WaitOK, NoEntry
  <2>2. PICK y : y = [x EXCEPT !.fl = NoFlush]
    OBVIOUS
  <2>3. /\ WinOK(y, noes) /\ Pub(y) = Pub(x) /\ y.items = x.items
        /\ y.up = x.up /\ y.stale = x.stale /\ Queued(y) = Ids(x.items) \cup {None}
    BY <1>3, <2>1, <2>2, DrainEndOK
  <2>4. Queued(y) \subseteq Queued(x) \cup {None}
    BY <2>3 DEF Queued
  <2>5. Becomes(w, y) /\ WinOK(y, noes')
    BY <1>2, <1>5, <2>2, <2>3
  <2> QED
    BY <1>1, <1>2, <1>4, <2>3, <2>4, <2>5, QuietOK
<1>6. CASE ~(x.fl.rest = <<>> \/ ~Ok(x))
  <2> DEFINE d == [x.fl EXCEPT !.rest = Tail(x.fl.rest), !.cur = it]
             y == [x EXCEPT !.fl = d]
             k == [x.wait[it.id] EXCEPT !.ask = "flush"]
  <2>1. /\ WinOK(y, noes) /\ Pub(y) = Pub(x) /\ Queued(y) \subseteq Queued(x) /\ y.items = x.items
        /\ y.up = x.up /\ y.stale = x.stale /\ y.wait = x.wait /\ y.fl.cur.id = it.id
        /\ it.id \in Post /\ it.id \in Queued(x)
        /\ \A e \in Post : "flush" \notin {x.wait[e].ask, x.wait[e].by}
    BY <1>2, <1>3, <1>6, NextEntryOK
  <2>2. z = Rewaits(y, it.id, k)
    <3>1. x \in Win /\ x.fl \in Drain /\ x.wait \in [Post -> Wait]
      BY <1>3 DEF WinOK, Win
    <3> HIDE DEF it
    <3> QED
      BY <2>1, <3>1 DEF Rewaits, Win, Drain
  <2>3. Becomes(w, z)
    BY <1>2, <1>6
  <2> HIDE DEF z, y, it
  <2>4. x.wait[it.id] \in Wait /\ WaitOK(x, noes, it.id)
    BY <1>3, <2>1 DEF WinOK, Win
  <2>5. x.wait[it.id].by = None /\ it.id \notin Pub(x)
    <3>1. it.id \notin Pub(x)
      BY <1>3, <2>1
    <3> QED
      BY <2>1, <2>4, <3>1 DEF Pub, Wait, Who
  <2>6. k \in Wait /\ k.ask = "flush" /\ k.by = None /\ k.st = x.wait[it.id].st
    BY <2>4, <2>5 DEF Wait, Who
  <2> HIDE DEF k
  <2>7. Fits(y, noes, it.id, k)
    BY <2>1, <2>4, <2>5, <2>6 DEF Fits, WaitOK
  <2>8. /\ WinOK(z, noes) /\ Queued(z) = Queued(y) /\ z.items = y.items /\ z.up = y.up /\ z.stale = y.stale
        /\ Pub(z) = IF "app" \in {k.ask, k.by} THEN Pub(y) \cup {it.id} ELSE Pub(y) \ {it.id}
    <3>1. PICK e : e = it.id
      OBVIOUS
    <3>2. e \in Post /\ WinOK(y, noes) /\ Fits(y, noes, e, k) /\ z = Rewaits(y, e, k)
      BY <2>1, <2>2, <2>7, <3>1
    <3>3. /\ WinOK(z, noes) /\ Queued(z) = Queued(y) /\ z.items = y.items /\ z.up = y.up /\ z.stale = y.stale
          /\ Pub(z) = IF "app" \in {k.ask, k.by} THEN Pub(y) \cup {e} ELSE Pub(y) \ {e}
      BY <3>2, WaiterOK
    <3> QED
      BY <3>1, <3>3
  <2>9. Pub(z) = Pub(x)
    BY <2>1, <2>5, <2>6, <2>8
  <2> QED
    BY <1>1, <1>2, <1>4, <2>1, <2>3, <2>8, <2>9, QuietOK
<1> QED
  BY <1>5, <1>6

(* The storage event brings the queue another window stored.               *)
LEMMA NoticeGood ==
    ASSUME Inv, NEW w \in Window, Notice(w)
    PROVE  Good(w)
<1>1. PICK v : v = win[w]
  OBVIOUS
<1> DEFINE d == [v.fl EXCEPT !.same = FALSE]
           x == [v EXCEPT !.stale = FALSE, !.items = store, !.fl = d]
<1>2. /\ Becomes(w, IF Ok(x) THEN RetrySoon(x) ELSE x) /\ UNCHANGED <<shown, noes, stored, posted, torn>>
  BY <1>1 DEF Notice, network, history
<1>3. WinOK(v, noes) /\ v \in Win /\ v.fl \in Drain /\ QueueOK(store, noes) /\ Len(store) <= MaxQueue
  BY <1>1, InvFacts DEF Inv, Win
<1>4. Grows
  BY <1>2, StillGrows
<1>5. /\ d \in Drain /\ d.by = v.fl.by /\ d.rest = v.fl.rest /\ d.cur = v.fl.cur /\ d.same = FALSE
  BY <1>3 DEF Drain
<1> HIDE DEF d
<1>6. /\ x \in Win /\ x.fl = d /\ x.items = store /\ x.wait = v.wait /\ x.up = v.up /\ x.stale = FALSE
  BY <1>3, <1>5 DEF Win, QueueOK, IsQueue
<1> HIDE DEF x
<1>7. Pub(x) = Pub(v) /\ Queued(x) \subseteq Queued(v) \cup Ids(store)
  BY <1>5, <1>6 DEF Pub, Queued
<1>8. DrainOK(x, noes)
  BY <1>3, <1>5, <1>6 DEF WinOK, DrainOK
<1>9. ASSUME NEW e \in Post PROVE WaitOK(x, noes, e)
  <2>1. WaitOK(v, noes, e)
    BY <1>3 DEF WinOK
  <2> QED
    BY <1>5, <1>6, <2>1 DEF WaitOK
<1>10. WinOK(x, noes)
  BY <1>3, <1>6, <1>7, <1>8, <1>9 DEF WinOK, Awake
<1>11. Alike(x, RetrySoon(x)) /\ Alike(x, x)
  <2>1. x \in Win /\ TRUE \in BOOLEAN /\ 0 \in 0 .. Delays
    BY <1>6, Constants
  <2> QED
    BY <2>1, FlagsAlike, AlikeSelf
<1>12. PICK y : y = IF Ok(x) THEN RetrySoon(x) ELSE x
  OBVIOUS
<1>13. Alike(x, y) /\ Becomes(w, y)
  BY <1>2, <1>11, <1>12
<1>14. WinOK(y, noes) /\ Queued(y) = Queued(x) /\ Pub(y) = Pub(x) /\ y.items = x.items
  BY <1>10, <1>13, AlikeOK DEF Alike
<1>15. Fine(w, y)
  BY <1>1, <1>2, <1>6, <1>7, <1>13, <1>14 DEF Fine, Moves
<1>16. Kept(w, y)
  BY <1>1, <1>2, <1>7, <1>13, <1>14 DEF Kept, Becomes
<1> QED
  BY <1>4, <1>15, <1>16 DEF Good

(* The user gives up a post: it leaves the timeline too.                   *)
LEMMA DiscardGood ==
    ASSUME Inv, NEW w \in Window, NEW e \in Post, Discard(w, e)
    PROVE  Good(w)
<1>1. PICK x : x = Removed(win[w], e)
  OBVIOUS
<1>2. Ready(w) /\ Saves(w, x) /\ shown' = shown \ {e} /\ UNCHANGED <<noes, stored, posted, torn>>
  BY <1>1 DEF Discard, Removed, network, history
<1>3. Grows
  BY <1>2, StillGrows
<1>4. /\ WinOK(x, noes) /\ Pub(x) = Pub(win[w]) /\ Ids(x.items) = Ids(win[w].items) \ {e}
      /\ Queued(x) \subseteq Queued(win[w])
  BY <1>1, InvFacts, RemoveOK
<1>5. Fine(w, x)
  BY <1>2, <1>4 DEF Fine, Moves
<1>6. ASSUME ~Racing PROVE Kept(w, x)
  <2>1. win[w].items = store /\ store' = x.items
    BY <1>2, <1>6, InvFacts DEF Saves
  <2> QED
    BY <1>2, <1>4, <2>1 DEF Kept
<1> QED
  BY <1>3, <1>5, <1>6 DEF Good

(* The record of a closed window.                                          *)
LEMMA ShutOK == ASSUME NEW ns PROVE WinOK(Shut, ns) /\ Queued(Shut) = {None} /\ Pub(Shut) = {} /\ Shut.up = FALSE
<1> DEFINE x == Opened(<<>>)
           y == [x EXCEPT !.up = FALSE]
<1>1. Len(<<>>) <= MaxQueue
  BY Constants
<1>2. WinOK(x, ns) /\ Queued(x) = {None} /\ Pub(x) = {}
  BY <1>1, EmptyQueue, OpenedOK
<1> HIDE DEF x
<1>3. /\ y \in Win /\ y.items = x.items /\ y.fl = x.fl /\ y.wait = x.wait /\ y.up = FALSE
  BY <1>2 DEF WinOK, Win
<1> HIDE DEF y
<1>4. Queued(y) = {None} /\ Pub(y) = {}
  BY <1>2, <1>3 DEF Queued, Pub
<1>5. ASSUME NEW e \in Post PROVE WaitOK(y, ns, e)
  <2>1. WaitOK(x, ns, e)
    BY <1>2 DEF WinOK
  <2> QED
    BY <1>3, <2>1 DEF WaitOK
<1>6. DrainOK(y, ns)
  BY <1>2, <1>3 DEF WinOK, DrainOK
<1>7. WinOK(y, ns)
  BY <1>2, <1>3, <1>4, <1>5, <1>6 DEF WinOK, Awake
<1>8. y = Shut
  BY DEF Shut, x, y
<1> QED
  BY <1>3, <1>4, <1>7, <1>8

(* What a closing window was publishing is torn.                           *)
LEMMA CloseGood ==
    ASSUME Inv, NEW w \in Window, NEW lost, Close(w, lost)
    PROVE  Good(w)
<1>1. /\ Becomes(w, Shut) /\ Cut({m \in wire : m[1] = w}, lost)
      /\ torn' = torn \cup {e \in Post : Publishing(w, e)} /\ UNCHANGED <<shown, posted>>
  BY DEF Close
<1>2. PICK x : x = Shut
  OBVIOUS
<1>3. WinOK(x, noes') /\ Queued(x) = {None} /\ Pub(x) = {} /\ x.up = FALSE
  BY <1>2, ShutOK
<1>4. Grows
  BY <1>1, RelayGrows
<1>5. Fine(w, x)
  BY <1>1, <1>2, <1>3 DEF Fine, Moves
<1>6. Kept(w, x)
  BY <1>1 DEF Kept, Becomes, Pub, Publishing
<1> QED
  BY <1>4, <1>5, <1>6 DEF Good

(* A window opens on the stored queue; it published nothing while it was   *)
(* closed.                                                                 *)
LEMMA OpenGood ==
    ASSUME Inv, NEW w \in Window, Open(w)
    PROVE  Good(w)
<1>1. PICK x : x = Opened(store)
  OBVIOUS
<1>2. ~win[w].up /\ Becomes(w, x) /\ UNCHANGED <<shown, noes, stored, posted, torn>>
  BY <1>1 DEF Open, network, history
<1>3. WinOK(x, noes) /\ Queued(x) = Ids(store) \cup {None} /\ Pub(x) = {} /\ x.items = store
  BY <1>1, OpenedOK DEF Inv
<1>4. Pub(win[w]) = {}
  BY <1>2, InvFacts DEF WinOK, Awake
<1>5. Grows
  BY <1>2, StillGrows
<1>6. Fine(w, x)
  BY <1>2, <1>3 DEF Fine, Moves
<1>7. Kept(w, x)
  BY <1>2, <1>4 DEF Kept, Becomes
<1> QED
  BY <1>5, <1>6, <1>7 DEF Good

(* The network, the receipts, the timelines and the history.               *)
Nets ==
    /\ wire \subseteq Window \X Relay \X Post
    /\ stored \subseteq Relay \X Post
    /\ receipts \subseteq Post /\ shown \subseteq Post /\ posted \subseteq Post /\ torn \subseteq Post

(* What the relays are sent and take.                                      *)
LEMMA NetsCut ==
    ASSUME Nets, NEW ms, ms \subseteq wire, NEW lost, RelayTakes(ms) \/ Cut(ms, lost)
    PROVE  wire' \subseteq Window \X Relay \X Post /\ stored' \subseteq Relay \X Post
<1>1. CASE RelayTakes(ms)
  <2>1. \A m \in ms : <<m[2], m[3]>> \in Relay \X Post
    BY DEF Nets
  <2> QED
    BY <1>1, <2>1 DEF RelayTakes, Nets
<1>2. CASE Cut(ms, lost) /\ ~RelayTakes(ms)
  BY <1>2 DEF Cut, Nets
<1> QED
  BY <1>1, <1>2

(* Only posts are shown, and only posts get receipts.                      *)
LEMMA NetsFailed ==
    ASSUME Nets, NEW w, NEW x, NEW e, NEW by, NEW why, Failed(w, x, e, by, why)
    PROVE  receipts' \subseteq Post /\ shown' \subseteq Post
<1>1. CASE by = "app"
  BY <1>1 DEF Failed, AppFailed, Nets
<1>2. CASE by = "flush"
  BY <1>2 DEF Failed, FlushFailed, Nets
<1>3. CASE by # "app" /\ by # "flush"
  BY <1>3 DEF Failed, Nets
<1> QED
  BY <1>1, <1>2, <1>3

LEMMA NetsAccepted ==
    ASSUME Nets, NEW w, NEW e \in Post, Accepted(w, e)
    PROVE  receipts' \subseteq Post /\ shown' \subseteq Post
  BY DEF Accepted, Acknowledged, Nets

(* Every step keeps the network, the receipts and the timelines typed.     *)
LEMMA NetsStep == ASSUME Nets, Next PROVE Nets'
<1>1. PICK w \in Window : \/ Works(w) \/ Hears(w) \/ Users(w) \/ Faults(w)
                          \/ \E hidden \in BOOLEAN : RetryFires(w, hidden)
  BY DEF Next
<1>2. ASSUME NEW e \in Post, Send(w, e) PROVE Nets'
  BY <1>2 DEF Send, Nets, history
<1>3. ASSUME NEW e \in Post, Offline(w, e) \/ Timeout(w, e) PROVE Nets'
  <2>1. receipts' \subseteq Post /\ shown' \subseteq Post
    BY <1>3, NetsFailed DEF Offline, Timeout
  <2> QED
    BY <1>3, <2>1 DEF Offline, Timeout, Nets, network, history
<1>4. ASSUME \/ \E e \in Post : LateEnds(w, e)
             \/ Scheduled(w) \/ AppDrains(w) \/ FlushNext(w) \/ Notice(w) \/ Open(w) \/ Resume(w)
             \/ Online(w) \/ Retry(w) \/ \E hidden \in BOOLEAN : RetryFires(w, hidden)
             \/ \E r \in Relay, asked \in BOOLEAN : Rebuild(w, r, asked)
      PROVE  Nets'
  <2>1. UNCHANGED <<wire, stored, receipts, shown, posted, torn>>
    BY <1>4 DEF LateEnds, Scheduled, AppDrains, FlushNext, Notice, Open, Resume, Online, Retry, RetryFires,
                Rebuild, network, history
  <2> QED
    BY <2>1 DEF Nets
<1>5. ASSUME NEW r \in Relay, Connect(w, r) PROVE Nets'
  <2>1. UNCHANGED <<stored, receipts, shown, posted, torn>>
    BY <1>5 DEF Connect, history
  <2>2. PICK S : wire' = wire \cup {<<w, r, e>> : e \in S} /\ S \subseteq Post
    BY <1>5 DEF Connect
  <2> QED
    BY <2>1, <2>2 DEF Nets
<1>6. ASSUME NEW r \in Relay, NEW e \in Post, HearOk(w, r, e) \/ HearNo(w, r, e) \/ LoseAnswer(w, r, e)
      PROVE  Nets'
  <2>1. RelayTakes({<<w, r, e>>}) /\ {<<w, r, e>>} \subseteq wire /\ UNCHANGED <<posted, torn>>
    BY <1>6 DEF HearOk, HearNo, LoseAnswer
  <2>2. wire' \subseteq Window \X Relay \X Post /\ stored' \subseteq Relay \X Post
    BY <2>1, NetsCut
  <2>3. CASE UNCHANGED <<receipts, shown>>
    BY <2>1, <2>2, <2>3 DEF Nets
  <2>4. CASE HearOk(w, r, e) /\ Accepted(w, e)
    BY <2>1, <2>2, <2>4, NetsAccepted DEF Nets
  <2>5. CASE HearNo(w, r, e) /\ \E x, by : Failed(w, x, e, by, "refused")
    BY <2>1, <2>2, <2>5, NetsFailed DEF Nets
  <2> QED
    BY <1>6, <2>3, <2>4, <2>5 DEF HearOk, HearNo, LoseAnswer
<1>7. ASSUME NEW r \in Relay, NEW e \in Post, Echo(w, r, e) PROVE Nets'
  <2>1. UNCHANGED <<wire, stored, posted, torn>>
    BY <1>7 DEF Echo, network, history
  <2>2. CASE Accepted(w, e)
    BY <2>1, <2>2, NetsAccepted DEF Nets
  <2>3. CASE Acknowledged(w, win[w], e) /\ UNCHANGED shown
    BY <2>1, <2>3 DEF Acknowledged, Nets
  <2> QED
    BY <1>7, <2>2, <2>3 DEF Echo
<1>8. ASSUME NEW e \in Post, Publish(w, e) \/ Discard(w, e) PROVE Nets'
  BY <1>8 DEF Publish, Discard, Nets, network, history
<1>9. ASSUME NEW r \in Relay, NEW lost, Drop(w, r, lost) \/ Freeze(w, r, lost) PROVE Nets'
  <2>1. Cut(Flight(w, r), lost) /\ UNCHANGED <<receipts, shown, posted, torn>>
    BY <1>9 DEF Drop, Freeze
  <2>2. Flight(w, r) \subseteq wire
    BY DEF Flight
  <2> QED
    BY <2>1, <2>2, NetsCut DEF Nets
<1>10. ASSUME NEW lost, Close(w, lost) PROVE Nets'
  <2>1. /\ Cut({m \in wire : m[1] = w}, lost) /\ UNCHANGED <<receipts, shown, posted>>
        /\ torn' \subseteq torn \cup Post
    BY <1>10 DEF Close
  <2>2. {m \in wire : m[1] = w} \subseteq wire
    OBVIOUS
  <2> QED
    BY <2>1, <2>2, NetsCut DEF Nets
<1> QED
  BY <1>1, <1>2, <1>3, <1>4, <1>5, <1>6, <1>7, <1>8, <1>9, <1>10
     DEF Works, Calls, Timers, Sockets, Hears, Users, Faults

(* Every step is fine for the window that takes it.                        *)
LEMMA StepGood == ASSUME Inv, Next PROVE \E w \in Window : Good(w)
<1>1. PICK w \in Window : \/ Works(w) \/ Hears(w) \/ Users(w) \/ Faults(w)
                          \/ \E hidden \in BOOLEAN : RetryFires(w, hidden)
  BY DEF Next
<1>2. CASE Works(w)
  BY <1>2, SendGood, OfflineGood, TimeoutGood, LateEndsGood, TimersGood, AppDrainsGood, ConnectGood,
     RebuildGood, FlushNextGood, NoticeGood, OpenGood DEF Works, Calls, Timers, Sockets
<1>3. CASE Hears(w)
  BY <1>3, HearOkGood, HearNoGood, EchoGood DEF Hears
<1>4. CASE Users(w)
  BY <1>4, TimersGood, PublishGood DEF Users
<1>5. CASE Faults(w)
  BY <1>5, DropGood, FreezeGood, LoseAnswerGood, DiscardGood, CloseGood, OnlineGood, TimersGood DEF Faults
<1>6. CASE \E hidden \in BOOLEAN : RetryFires(w, hidden)
  BY <1>6, RetryFiresGood
<1> QED
  BY <1>1, <1>2, <1>3, <1>4, <1>5, <1>6

(* The invariant holds at first, is preserved, and implies the type        *)
(* invariant.                                                              *)
LEMMA InvInit == ASSUME Init PROVE Inv /\ Nets /\ NothingLost
<1>1. noes \in Counts
  BY Constants DEF Init, Counts
<1>2. QueueOK(<<>>, noes) /\ Ids(<<>>) = {} /\ Len(<<>>) <= MaxQueue /\ store = <<>>
  BY EmptyQueue, Constants DEF Init
<1>3. PICK x : x = Opened(<<>>)
  OBVIOUS
<1>4. WinOK(x, noes) /\ Queued(x) = {None} /\ Pub(x) = {} /\ x.items = <<>>
  BY <1>2, <1>3, OpenedOK
<1>5. win \in [Window -> Win] /\ \A w \in Window : win[w] = x
  BY <1>3, <1>4 DEF Init, WinOK
<1>6. PostsOK
  BY <1>2, <1>4, <1>5 DEF PostsOK
<1>7. Synced
  BY <1>2, <1>4, <1>5 DEF Synced
<1>8. Inv
  BY <1>1, <1>2, <1>4, <1>5, <1>6, <1>7 DEF Inv
<1> QED
  BY <1>8 DEF Init, Nets, NothingLost

LEMMA InvNext == ASSUME Inv, Nets, [Next]_vars PROVE Inv' /\ Nets' /\ (~Racing /\ NothingLost => NothingLost')
<1>1. CASE Next
  <2>1. PICK w \in Window : Good(w)
    BY <1>1, StepGood
  <2>2. Nets'
    BY <1>1, NetsStep
  <2>3. PICK x : Grows /\ Fine(w, x) /\ (~Racing => Kept(w, x))
    BY <2>1 DEF Good
  <2>4. Inv'
    BY <2>3, InvStep
  <2>5. shown \subseteq Post /\ shown' \subseteq Post
    BY <2>2 DEF Nets
  <2>6. ~Racing /\ NothingLost => NothingLost'
    BY <2>3, <2>5, KeptStep
  <2> QED
    BY <2>2, <2>4, <2>6
<1>2. CASE UNCHANGED vars
  <2>1. Inv'
    BY <1>2 DEF vars, Inv, Synced, PostsOK
  <2>2. Nets'
    BY <1>2 DEF vars, Nets
  <2>3. NothingLost => NothingLost'
    BY <1>2 DEF vars, NothingLost, OnRelay, Publishing
  <2> QED
    BY <2>1, <2>2, <2>3
<1> QED
  BY <1>1, <1>2

LEMMA InvTyped == ASSUME Inv, Nets PROVE TypeOK
<1>1. IsQueue(store) /\ Len(store) <= MaxQueue /\ \A i \in DOMAIN store : store[i].tries < MaxTries
  BY DEF Inv, QueueOK
<1>2. ASSUME NEW w \in Window
      PROVE  /\ win[w].sched \in 0 .. Delays
             /\ IsQueue(win[w].items) /\ IsQueue(win[w].fl.rest)
             /\ win[w].fl.cur # NoEntry => win[w].fl.by # None
             /\ \A e \in Post :
                  /\ win[w].wait[e].ask \in {None, "app", "flush"}
                  /\ win[w].wait[e].by \in {None, "app", "flush"}
                  /\ (win[w].wait[e].st = "wait") = (win[w].wait[e].by # None)
                  /\ "flush" \in {win[w].wait[e].ask, win[w].wait[e].by} => win[w].fl.cur.id = e
  <2>1. PICK x : x = win[w]
    OBVIOUS
  <2>2. WinOK(x, noes) /\ x \in Win
    BY <2>1, InvFacts
  <2>3. x.sched \in 0 .. Delays
    BY <2>2 DEF Win
  <2>4. IsQueue(x.items) /\ IsQueue(x.fl.rest) /\ (x.fl.cur # NoEntry => x.fl.by # None)
    BY <2>2 DEF WinOK, DrainOK, QueueOK
  <2>5. ASSUME NEW e \in Post
        PROVE  /\ x.wait[e].ask \in {None, "app", "flush"} /\ x.wait[e].by \in {None, "app", "flush"}
               /\ (x.wait[e].st = "wait") = (x.wait[e].by # None)
               /\ "flush" \in {x.wait[e].ask, x.wait[e].by} => x.fl.cur.id = e
    <3>1. x.wait[e] \in Wait /\ WaitOK(x, noes, e)
      BY <2>2 DEF WinOK, Win
    <3>2. x.wait[e].ask \in Who /\ x.wait[e].by \in Who
      BY <3>1 DEF Wait
    <3> QED
      BY <3>1, <3>2 DEF WaitOK, Who
  <2> QED
    BY <2>1, <2>3, <2>4, <2>5
<1>3. noes \in [Post -> 0 .. MaxTries]
  BY DEF Inv, Counts
<1> QED
  BY <1>1, <1>2, <1>3 DEF TypeOK, Nets

(* Whatever the windows, posts, relays and bounds, and also when windows   *)
(* act before they have seen what another one stored: every queue holds a  *)
(* post once, within the cap, with strikes left; an answer somebody waits  *)
(* for has one taker, and what a drain waits for is its current entry.     *)
THEOREM QueuesKeepShape == Spec => []TypeOK
<1>1. Init => Inv /\ Nets
  BY InvInit
<1>2. Inv /\ Nets /\ [Next]_vars => Inv' /\ Nets'
  BY InvNext
<1>3. Inv /\ Nets => TypeOK
  BY InvTyped
<1> QED
  BY <1>1, <1>2, <1>3, PTL DEF Spec

(* A post the timeline shows is never lost while a window sees what the    *)
(* others stored before it acts: it is on a relay, in the stored queue,    *)
(* being published, torn by the closing of its window, or refused          *)
(* MAX_TRIES times.                                                        *)
THEOREM ShownPostsAreKept ==
    ASSUME ~Racing
    PROVE  Spec => []NothingLost
<1>1. Init => Inv /\ Nets /\ NothingLost
  BY InvInit
<1>2. Inv /\ Nets /\ NothingLost /\ [Next]_vars => (Inv /\ Nets /\ NothingLost)'
  BY InvNext
<1> QED
  BY <1>1, <1>2, PTL DEF Spec
=============================================================================
