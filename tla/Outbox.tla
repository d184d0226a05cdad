------------------------------- MODULE Outbox -------------------------------
(***************************************************************************)
(* How a post leaves the client: publish() of app.js and Relay.publish()   *)
(* of relay.js, and behind them the queue of outbox.js for what no relay   *)
(* took, shared by the windows of one browser through localStorage.        *)
(*                                                                         *)
(* A window waits for one answer per post: the first OK, a refusal by      *)
(* every relay it was sent to, or the timer.  A post that got no OK is     *)
(* queued and sent again, oldest first, one at a time, on any of a number  *)
(* of triggers.  All posts are of kinds that may be queued and belong to   *)
(* one account; NIP-42 authentication is left out.  A second copy of a     *)
(* message in flight is the same message.                                  *)
(***************************************************************************)
EXTENDS Integers, Sequences, FiniteSets

CONSTANTS
    Window,     \* the windows of the browser that run the client
    Post,       \* the signed events users make
    Writes,     \* <<window, post>>: where they make them
    Relay,      \* the relays of the pool, all of them our own
    Reaches,    \* <<window, relay>>: the sockets that can be opened
    Refuses,    \* <<relay, post>>: what a relay will never take
    MaxTries,   \* MAX_TRIES: refusals before a post is given up
    MaxQueue,   \* MAX: the cap of the queue
    Delays,     \* how often _retryOutboxSoon() tries again
    Racing,     \* may a window act before it has seen a change by another?
    Events,     \* what users and the network may do ...
    MaxEvents   \* ... and how often

ASSUME ConstantsAssumption ==
    /\ Writes \subseteq Window \X Post /\ Reaches \subseteq Window \X Relay
    /\ Refuses \subseteq Relay \X Post
    /\ MaxTries \in Nat \ {0} /\ MaxQueue \in Nat /\ Delays \in Nat /\ MaxEvents \in Nat
    /\ Racing \in BOOLEAN
    /\ Events \subseteq {"drop", "freeze", "lose", "close", "discard", "online", "retry"}

VARIABLES
    store,      \* pc_outbox: the queue in localStorage
    win,        \* the windows
    wire,       \* posts on their way to a relay, or their answers back
    stored,     \* <<relay, post>>: what the relays have
    receipts,   \* pc_outbox_delivered
    shown,      \* the local cache: posts the timelines show
    posted,     \* history: posts made
    torn,       \* history: posts whose window closed before publish() ended
    noes,       \* history: how often a post was refused, up to MaxTries
    left        \* how many more events

vars == <<store, win, wire, stored, receipts, shown, posted, torn, noes, left>>
network == <<wire, stored>>
history == <<posted, torn, noes>>

None == "none"
ASSUME NoneAssumption == None \notin Post

(* One post in a window: who wants it sent and has no socket yet, and the  *)
(* waiter for its answer: how many relays it was written to, on which of   *)
(* them the socket is still the same, where it goes again on a reconnect,  *)
(* the refusals so far, and whether a late OK brings the post back.        *)
NoWait == [ask |-> None, st |-> None, by |-> None, sent |-> 0, on |-> {}, again |-> {},
           no |-> 0, undo |-> FALSE]
NoEntry == [id |-> None, tries |-> 0]
NoFlush == [by |-> None, rest |-> <<>>, cur |-> NoEntry, same |-> TRUE]

Opened(queue) ==
    [up |-> TRUE, stale |-> FALSE, items |-> queue, fl |-> NoFlush,
     timer |-> FALSE, sched |-> 0, due |-> FALSE,
     conn |-> [r \in Relay |-> "closed"], wait |-> [e \in Post |-> NoWait]]
Shut == [Opened(<<>>) EXCEPT !.up = FALSE]

Init ==
    /\ store = <<>>
    /\ win = [w \in Window |-> Opened(<<>>)]
    /\ wire = {} /\ stored = {}
    /\ receipts = {} /\ shown = {}
    /\ posted = {} /\ torn = {} /\ noes = [e \in Post |-> 0]
    /\ left = MaxEvents

Publishing(w, e) == "app" \in {win[w].wait[e].ask, win[w].wait[e].by}
Spent(kind) == kind \in Events /\ left > 0 /\ left' = left - 1

-----------------------------------------------------------------------------
(* The queue of a window, x its record.                                    *)

Has(q, e) == \E i \in DOMAIN q : q[i].id = e
At(q, e) == CHOOSE i \in DOMAIN q : q[i].id = e
(* remove(): a queue holds an id once.                                     *)
Without(q, e) ==
    IF Has(q, e) THEN [k \in 1 .. Len(q) - 1 |-> q[IF k < At(q, e) THEN k ELSE k + 1]] ELSE q
Ok(x) == \E r \in Relay : x.conn[r] # "closed"      \* Relay.status
Live(x) == \E r \in Relay : x.conn[r] = "open"

RetrySoon(x) == [x EXCEPT !.timer = @ \/ x.items # <<>>]
FlushOutbox(x) == [x EXCEPT !.due = @ \/ x.items # <<>>]

(* add(): refused when the queue is full.                                  *)
MayAdd(x, e) == Has(x.items, e) \/ Len(x.items) < MaxQueue
Add(x, e) ==
    LET y == [x EXCEPT !.items = Append(@, [id |-> e, tries |-> 0])]
    IN IF Has(x.items, e) THEN x ELSE IF Ok(x) THEN RetrySoon(y) ELSE y

(* flush(), started: one drain at a time, on a copy of the queue.          *)
Drains(x, by) ==
    IF x.fl.by # None \/ x.items = <<>> \/ ~Ok(x) THEN x
    ELSE [x EXCEPT !.fl = [NoFlush EXCEPT !.by = by, !.rest = x.items]]

(* A window that saves tells the others, if the value changed.             *)
Saves(w, x) ==
    /\ store' = x.items
    /\ win' = [v \in Window |->
                 IF v = w THEN x
                 ELSE [win[v] EXCEPT !.stale = @ \/ (win[v].up /\ x.items # store)]]
Becomes(w, x) == win' = [win EXCEPT ![w] = x] /\ UNCHANGED store

Ready(w) == win[w].up /\ (Racing \/ ~win[w].stale)

(* acknowledgeDelivery(): a receipt, then the entry goes.                  *)
Acknowledged(w, x, e) ==
    IF Has(x.items, e)
    THEN Saves(w, [x EXCEPT !.items = Without(@, e)]) /\ receipts' = receipts \cup {e}
    ELSE Becomes(w, x) /\ UNCHANGED receipts

-----------------------------------------------------------------------------
(* publish(): shown at once, then sent to every open socket.               *)

Publish(w, e) ==
    /\ Ready(w) /\ <<w, e>> \in Writes /\ e \notin posted
    /\ posted' = posted \cup {e}
    /\ shown' = shown \cup {e}
    /\ Becomes(w, [win[w] EXCEPT !.wait[e].ask = "app"])
    /\ UNCHANGED <<network, receipts, torn, noes, left>>

(* ready() found a live socket, or one silent for too short a time to be   *)
(* known dead, which gets the event too and loses it.  A waiter left from  *)
(* an earlier attempt is replaced.                                         *)
Send(w, e) ==
    LET x == win[w]
        to == {r \in Relay : x.conn[r] # "closed"} IN
    /\ Ready(w) /\ x.wait[e].ask # None /\ to # {}
    /\ wire' = wire \cup {<<w, r, e>> : r \in {q \in to : x.conn[q] = "open"}}
    /\ Becomes(w, [x EXCEPT !.wait[e] = [NoWait EXCEPT !.st = "wait", !.by = x.wait[e].ask,
                                                      !.sent = Cardinality(to), !.on = to]])
    /\ UNCHANGED <<stored, receipts, shown, history, left>>

(* What publish() does with a failure: the post is queued, or taken back.  *)
AppFailed(w, x, e, offline) ==
    /\ IF MayAdd(x, e)
       THEN /\ Saves(w, IF offline THEN Add(x, e) ELSE [Add(x, e) EXCEPT !.sched = Delays])
            /\ UNCHANGED shown
       ELSE Becomes(w, [x EXCEPT !.wait[e].undo = @ \/ x.wait[e].st = "late"]) /\ shown' = shown \ {e}
    /\ UNCHANGED receipts

\* Mutant: silence is a strike too.
FlushFailedSilent(w, x, e, refused) ==
    LET it == x.fl.cur
        i == At(x.items, e)
        y == [x EXCEPT !.fl = NoFlush]
    IN /\ IF ~Has(x.items, e) THEN Becomes(w, y)
          ELSE Saves(w, IF it.tries + 1 >= MaxTries THEN [y EXCEPT !.items = Without(@, e)]
                        ELSE RetrySoon([y EXCEPT !.items[i].tries = @ + 1]))
       /\ UNCHANGED <<shown, receipts>>

\* Mutant: one strike too many.
FlushFailedLate(w, x, e, refused) ==
    LET i == At(x.items, e)
        y == [x EXCEPT !.fl = NoFlush]
    IN /\ IF ~Has(x.items, e) THEN Becomes(w, y)
          ELSE Saves(w, IF ~refused THEN RetrySoon(y)
                        ELSE IF x.fl.cur.tries + 1 > MaxTries THEN [y EXCEPT !.items = Without(@, e)]
                        ELSE [y EXCEPT !.items[i].tries = @ + 1])
       /\ UNCHANGED <<shown, receipts>>

(* What flush() does with a failure: a refusal is a strike, silence is     *)
(* not; either ends the drain.  The strike is on the entry the drain began *)
(* with, which is no longer the queue's if the queue was read again.  Only *)
(* _flushOutbox() takes a post that was given up out of the timeline.      *)
FlushFailed(w, x, e, refused) ==
    LET it == x.fl.cur
        i == At(x.items, e)
        given == refused /\ it.tries + 1 >= MaxTries
        y == [x EXCEPT !.fl = NoFlush]
    IN /\ IF given /\ ~Has(x.items, e) THEN Becomes(w, y)
          ELSE Saves(w, IF given THEN [y EXCEPT !.items = Without(@, e)]
                        ELSE IF ~refused THEN RetrySoon(y)
                        ELSE IF x.fl.same /\ Has(x.items, e) THEN [y EXCEPT !.items[i].tries = @ + 1]
                        ELSE y)
       /\ shown' = IF given /\ x.fl.by = "app" THEN shown \ {e} ELSE shown
       /\ UNCHANGED receipts

(* The answer to whoever waits for it; for a late one nobody does.         *)
Failed(w, x, e, by, why) ==
    CASE by = "app" -> AppFailed(w, x, e, why = "offline")
      [] by = "flush" -> FlushFailed(w, x, e, why = "refused")
      [] OTHER -> Becomes(w, x) /\ UNCHANGED <<receipts, shown>>

Answered(x, e) == [x EXCEPT !.wait[e] = [NoWait EXCEPT !.ask = x.wait[e].ask]]
Accepted(w, e) ==
    LET k == win[w].wait[e]
        x == Answered(win[w], e) IN
    /\ Acknowledged(w, IF k.by = "flush" THEN [x EXCEPT !.fl.cur = NoEntry] ELSE x, e)
    /\ shown' = IF k.undo THEN shown \cup {e} ELSE shown

Offline(w, e) ==
    LET k == win[w].wait[e] IN
    /\ Ready(w) /\ k.ask # None /\ ~Live(win[w])
    /\ Failed(w, [win[w] EXCEPT !.wait[e].ask = None], e, k.ask, "offline")
    /\ UNCHANGED <<network, history, left>>

(* The timer ran out.  With a refusal that is the answer; without one the  *)
(* waiter stays, for a late OK.                                            *)
Timeout(w, e) ==
    LET k == win[w].wait[e]
        x == IF k.no > 0 THEN Answered(win[w], e)
             ELSE [win[w] EXCEPT !.wait[e].st = "late", !.wait[e].by = None] IN
    /\ Ready(w) /\ k.st = "wait"
    /\ Failed(w, x, e, k.by, IF k.no > 0 THEN "refused" ELSE "timeout")
    /\ UNCHANGED <<network, history, left>>

\* Mutant: the end of the wait acknowledges too.
LateEndsAcked(w, e) ==
    /\ Ready(w) /\ win[w].wait[e].st = "late"
    /\ Acknowledged(w, Answered(win[w], e), e)
    /\ UNCHANGED <<network, shown, history, left>>

(* LATE_MS later.                                                          *)
LateEnds(w, e) ==
    /\ Ready(w) /\ win[w].wait[e].st = "late"
    /\ Becomes(w, Answered(win[w], e))
    /\ UNCHANGED <<network, receipts, shown, history, left>>

-----------------------------------------------------------------------------
(* The relays and the sockets.                                             *)

(* The relays take or refuse the posts ms.  An answer that is heard is     *)
(* heard in the same step; until then the post is on its way.              *)
RelayTakes(ms) ==
    LET no == {m[3] : m \in {q \in ms : <<q[2], q[3]>> \in Refuses}} IN
    /\ wire' = wire \ ms
    /\ stored' = stored \cup ({<<m[2], m[3]>> : m \in ms} \ Refuses)
    /\ noes' = [e \in Post |-> IF e \in no /\ noes[e] < MaxTries THEN noes[e] + 1 ELSE noes[e]]

(* What is on its way when a connection ends is lost, or taken unheard.    *)
Cut(ms, lost) == IF lost THEN wire' = wire \ ms /\ UNCHANGED <<stored, noes>> ELSE RelayTakes(ms)
Flight(w, r) == {m \in wire : m[1] = w /\ m[2] = r}

(* OK true: the first one wins.                                            *)
HearOk(w, r, e) ==
    /\ Ready(w) /\ <<w, r, e>> \in wire
    /\ RelayTakes({<<w, r, e>>}) /\ <<r, e>> \notin Refuses
    /\ IF win[w].wait[e].st # None THEN Accepted(w, e)
       ELSE UNCHANGED <<store, win, receipts, shown>>
    /\ UNCHANGED <<posted, torn, left>>

(* OK false: it counts once every relay written to has said so.            *)
HearNo(w, r, e) ==
    LET k == win[w].wait[e]
        x == [win[w] EXCEPT !.wait[e].no = @ + 1]
        all == k.no + 1 >= k.sent IN
    /\ Ready(w) /\ <<w, r, e>> \in wire
    /\ RelayTakes({<<w, r, e>>}) /\ <<r, e>> \in Refuses
    /\ CASE k.st = None -> UNCHANGED <<store, win, receipts, shown>>
         [] k.st # None /\ all -> Failed(w, Answered(x, e), e, k.by, "refused")
         [] OTHER -> Becomes(w, x) /\ UNCHANGED <<receipts, shown>>
    /\ UNCHANGED <<posted, torn, left>>

LoseAnswer(w, r, e) ==
    /\ Spent("lose")
    /\ <<w, r, e>> \in wire
    /\ RelayTakes({<<w, r, e>>})
    /\ UNCHANGED <<store, win, receipts, shown, posted, torn>>

(* The post comes back from a relay, asked for by id or in a feed: that is *)
(* delivery, whether or not anybody still waits for it.                    *)
Echo(w, r, e) ==
    /\ Ready(w) /\ win[w].conn[r] = "open" /\ <<r, e>> \in stored
    /\ win[w].wait[e].st # None \/ Has(win[w].items, e)
    /\ IF win[w].wait[e].st # None THEN Accepted(w, e)
       ELSE Acknowledged(w, win[w], e) /\ UNCHANGED shown
    /\ UNCHANGED <<network, history, left>>

(* A socket opens: what nobody answered is written again.                  *)
Connect(w, r) ==
    LET x == win[w]
        again == {e \in Post : r \in x.wait[e].again \/ x.wait[e].st = "late"}
        y == [x EXCEPT !.conn[r] = "open",
                       !.wait = [e \in Post |-> [x.wait[e] EXCEPT !.again = @ \ {r}]]] IN
    /\ Ready(w) /\ <<w, r>> \in Reaches /\ x.conn[r] = "closed"
    /\ wire' = wire \cup {<<w, r, e>> : e \in again}
    /\ Becomes(w, IF Ok(x) THEN y ELSE FlushOutbox(y))
    /\ UNCHANGED <<stored, receipts, shown, history, left>>

Gone(x, r) == [x EXCEPT !.conn[r] = "closed",
                        !.wait = [e \in Post |-> [x.wait[e] EXCEPT !.on = @ \ {r}]]]

Drop(w, r, lost) ==
    /\ Spent("drop")
    /\ win[w].up /\ win[w].conn[r] # "closed"
    /\ Cut(Flight(w, r), lost)
    /\ Becomes(w, Gone(win[w], r))
    /\ UNCHANGED <<receipts, shown, posted, torn>>

(* A proxy or a phone leaves a socket that is open and carries nothing.    *)
Freeze(w, r, lost) ==
    /\ Spent("freeze")
    /\ win[w].up /\ win[w].conn[r] = "open"
    /\ Cut(Flight(w, r), lost)
    /\ Becomes(w, [win[w] EXCEPT !.conn[r] = "frozen"])
    /\ UNCHANGED <<receipts, shown, posted, torn>>

(* The heartbeat or a resume finds the socket silent; so does a publish    *)
(* that got no reply, which carries what waits on it to the next one.      *)
Rebuild(w, r, asked) ==
    LET x == win[w]
        on == {e \in Post : r \in x.wait[e].on}
        y == Gone(x, r) IN
    /\ Ready(w) /\ x.conn[r] = "frozen"
    /\ asked => \E e \in on : x.wait[e].st = "wait"
    /\ Becomes(w, IF asked THEN [y EXCEPT !.wait = [e \in Post |->
                                    [y.wait[e] EXCEPT !.again = IF e \in on THEN @ \cup {r} ELSE @]]]
                  ELSE y)
    /\ UNCHANGED <<network, receipts, shown, history, left>>

-----------------------------------------------------------------------------
(* The drains and what starts them.                                        *)

(* _retrySoon(): in the background the attempt is spent and nothing sent.  *)
RetryFires(w, hidden) ==
    LET x == [win[w] EXCEPT !.timer = FALSE] IN
    /\ Ready(w) /\ win[w].timer
    /\ Becomes(w, IF hidden THEN x ELSE Drains(x, "own"))
    /\ UNCHANGED <<network, receipts, shown, history, left>>

(* _retryOutboxSoon(): a few attempts, and none once the queue is empty.   *)
Scheduled(w) ==
    /\ Ready(w) /\ win[w].sched > 0
    /\ Becomes(w, IF win[w].items = <<>> THEN [win[w] EXCEPT !.sched = 0]
                  ELSE FlushOutbox([win[w] EXCEPT !.sched = @ - 1]))
    /\ UNCHANGED <<network, receipts, shown, history, left>>

(* _flushOutbox(), 1.5 s after it was asked for.                           *)
AppDrains(w) ==
    /\ Ready(w) /\ win[w].due
    /\ Becomes(w, Drains([win[w] EXCEPT !.due = FALSE], "app"))
    /\ UNCHANGED <<network, receipts, shown, history, left>>

(* The browser says the network is back; the user asks for another try.    *)
Online(w) ==
    /\ Spent("online")
    /\ Ready(w)
    /\ Becomes(w, Drains(win[w], "own"))
    /\ UNCHANGED <<network, receipts, shown, history>>

Retry(w) ==
    /\ Spent("retry")
    /\ Ready(w)
    /\ Becomes(w, FlushOutbox(win[w]))
    /\ UNCHANGED <<network, receipts, shown, history>>

(* The loop of flush(): the next entry, or the end.                        *)
FlushNext(w) ==
    LET x == win[w]
        it == Head(x.fl.rest) IN
    /\ Ready(w) /\ x.fl.by # None /\ x.fl.cur = NoEntry
    /\ Becomes(w, IF x.fl.rest = <<>> \/ ~Ok(x) THEN [x EXCEPT !.fl = NoFlush]
                  ELSE [x EXCEPT !.fl.rest = Tail(@), !.fl.cur = it,
                                 !.wait[it.id].ask = "flush"])
    /\ UNCHANGED <<network, receipts, shown, history, left>>

(* The storage event: the queue is read again, as new objects.             *)
Notice(w) ==
    LET x == [win[w] EXCEPT !.stale = FALSE, !.items = store, !.fl.same = FALSE] IN
    /\ win[w].up /\ win[w].stale
    /\ Becomes(w, IF Ok(x) THEN RetrySoon(x) ELSE x)
    /\ UNCHANGED <<network, receipts, shown, history, left>>

\* Mutant: a return sets no timer.
ResumeIdle(w) ==
    /\ Ready(w) /\ win[w].items # <<>> /\ ~win[w].timer
    /\ Becomes(w, win[w])
    /\ UNCHANGED <<network, receipts, shown, history, left>>

(* The window comes back to the foreground.                                *)
Resume(w) ==
    /\ Ready(w) /\ win[w].items # <<>> /\ ~win[w].timer
    /\ Becomes(w, RetrySoon(win[w]))
    /\ UNCHANGED <<network, receipts, shown, history, left>>

Discard(w, e) ==
    /\ Spent("discard")
    /\ Ready(w) /\ Has(win[w].items, e)
    /\ Saves(w, [win[w] EXCEPT !.items = Without(@, e)])
    /\ shown' = shown \ {e}
    /\ UNCHANGED <<network, receipts, history>>

(* The window closes, or its page is reloaded.                             *)
Close(w, lost) ==
    /\ Spent("close")
    /\ win[w].up
    /\ Becomes(w, Shut)
    /\ Cut({m \in wire : m[1] = w}, lost)
    /\ torn' = torn \cup {e \in Post : Publishing(w, e)}
    /\ UNCHANGED <<receipts, shown, posted>>

Open(w) ==
    /\ ~win[w].up
    /\ Becomes(w, Opened(store))
    /\ UNCHANGED <<network, receipts, shown, history, left>>

-----------------------------------------------------------------------------

Calls(w) == \E e \in Post : Send(w, e) \/ Offline(w, e)
Timers(w) == \/ \E e \in Post : Timeout(w, e) \/ LateEnds(w, e)
             \/ Scheduled(w) \/ AppDrains(w)
Hears(w) == \E r \in Relay, e \in Post :
    HearOk(w, r, e) \/ HearNo(w, r, e) \/ Echo(w, r, e)
Sockets(w) == \E r \in Relay : Connect(w, r) \/ \E asked \in BOOLEAN : Rebuild(w, r, asked)
Users(w) == Resume(w) \/ \E e \in Post : Publish(w, e)
Faults(w) ==
    \/ \E r \in Relay, lost \in BOOLEAN : Drop(w, r, lost) \/ Freeze(w, r, lost)
    \/ \E r \in Relay, e \in Post : LoseAnswer(w, r, e)
    \/ \E e \in Post : Discard(w, e)
    \/ \E lost \in BOOLEAN : Close(w, lost)
    \/ Online(w) \/ Retry(w)

Works(w) == Calls(w) \/ Timers(w) \/ Sockets(w) \/ FlushNext(w) \/ Notice(w) \/ Open(w)

Next == \E w \in Window :
    \/ Works(w) \/ Hears(w) \/ Users(w) \/ Faults(w)
    \/ \E hidden \in BOOLEAN : RetryFires(w, hidden)

Spec == Init /\ [][Next]_vars

(* Every post that has no OK yet is sent again until it has one or is      *)
(* refused for good, if: the timers and callbacks of the windows run, and  *)
(* a closed window is opened again; and those that reach a relay have      *)
(* their sockets rebuilt, sooner or later hear an answer before the timer  *)
(* runs out, and are brought to the foreground again and again, long       *)
(* enough for the timer that sets.                                         *)
Answers(w) == \E r \in Relay, e \in Post :
    win[w].wait[e].st = "wait" /\ (HearOk(w, r, e) \/ HearNo(w, r, e))
FairSpec ==
    /\ Spec
    /\ \A w \in Window : WF_vars(Works(w))
    /\ \A w \in {v \in Window : \E r \in Relay : <<v, r>> \in Reaches} :
         /\ WF_vars(Sockets(w)) /\ SF_vars(Answers(w))
         /\ WF_vars(Resume(w)) /\ SF_vars(RetryFires(w, FALSE))

-----------------------------------------------------------------------------

Entry == [id : Post, tries : 0 .. MaxTries]
IsQueue(q) == q \in Seq(Entry) /\ \A i, j \in DOMAIN q : q[i].id = q[j].id => i = j

(* Every queue holds a post once, no longer than the cap, with a budget of *)
(* refusals that is never spent in it; a drain waits for one post at most. *)
TypeOK ==
    /\ IsQueue(store) /\ Len(store) <= MaxQueue
    /\ \A i \in DOMAIN store : store[i].tries < MaxTries
    /\ \A w \in Window :
         /\ win[w].sched \in 0 .. Delays
         /\ IsQueue(win[w].items) /\ IsQueue(win[w].fl.rest)
         /\ win[w].fl.cur # NoEntry => win[w].fl.by # None
         /\ \A e \in Post :
              /\ win[w].wait[e].ask \in {None, "app", "flush"}
              /\ win[w].wait[e].by \in {None, "app", "flush"}
              /\ (win[w].wait[e].st = "wait") = (win[w].wait[e].by # None)
              /\ "flush" \in {win[w].wait[e].ask, win[w].wait[e].by} =>
                    win[w].fl.cur.id = e
    /\ wire \subseteq Window \X Relay \X Post
    /\ stored \subseteq Relay \X Post
    /\ receipts \subseteq Post /\ shown \subseteq Post /\ posted \subseteq Post /\ torn \subseteq Post
    /\ noes \in [Post -> 0 .. MaxTries]

OnRelay(e) == \E r \in Relay : <<r, e>> \in stored

(* A post the timeline shows is on a relay, in the queue that survives the *)
(* window, or being published; or its window closed under publish(); or    *)
(* the relays have refused it MAX_TRIES times.                             *)
NothingLost == \A e \in shown :
    \/ OnRelay(e) \/ Has(store, e) \/ \E w \in Window : Publishing(w, e)
    \/ e \in torn \/ noes[e] = MaxTries

(* A post given up is taken out of the timeline.  It fails: the drains     *)
(* outbox.js starts itself throw the list of dropped posts away.           *)
NoSilentDrop == \A e \in shown :
    OnRelay(e) \/ Has(store, e) \/ e \in torn \/ \E w \in Window : Publishing(w, e)

(* A delivery receipt, on which the draft of the post is deleted, is about *)
(* a post a relay has.                                                     *)
ReceiptTrue == \A e \in receipts : OnRelay(e)

(* Once users write no more, every entry leaves the queue: delivered,      *)
(* refused MAX_TRIES times or discarded.  No entry is blocked for ever by  *)
(* the one in front of it, a spent timer, a dead socket or a lost answer.  *)
QueueDrains == <>[](store = <<>>)
=============================================================================
