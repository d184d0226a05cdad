------------------------------ MODULE Bookmarks ------------------------------
(***************************************************************************)
(* The bookmark engine of the browser extension (extension/bookmarks.js),  *)
(* one per browser, over a relay that keeps one event per sync id, the     *)
(* newest.  A sync id is a number: idFor(url) derives one from the URL, so *)
(* the id of a URL is the URL itself; the ids in Legacy are the random     *)
(* ones of older versions, whose events are still on the relay.  Titles,   *)
(* folders and containers are one value, the text of a bookmark; every     *)
(* URL is syncable and already normalised.                                 *)
(*                                                                         *)
(* An engine runs several promise chains over one state.  The awaits kept  *)
(* apart are the decryption of an event, the search for a twin and the     *)
(* create that follows it, a publish and its OK, and each item of a loop.  *)
(***************************************************************************)
EXTENDS Integers, FiniteSetsExt

CONSTANTS
    Browser,    \* the browsers paired with one account
    Url, Legacy,    \* sync ids: derived from a URL, and random ones
    Text,       \* titles and places
    Node,       \* the ids a browser gives its bookmarks
    Seed,       \* the events already on the relay: their URL, and the bookmark ...
    Old,        \* ... that a browser paired before has for them
    BulkFloor,  \* the 5 of the wholesale-loss guard
    Others,     \* how many more bookmarks each browser has, that nobody touches
    Overlap,    \* may the chains of one engine overlap at their awaits?
    Slow,       \* "ok": an OK may arrive in a later second than its event has,
                \* "tree": a write into the tree may take longer than 400 ms
    Copies,     \* may a user file a URL twice in one browser?
    Events,     \* what users and the world may do, besides adding and deleting
    MaxEvents   \* how often, in one behaviour

SyncId == Url \cup Legacy

ASSUME ConstantsAssumption ==
    /\ Url \subseteq Nat \ {0} /\ Legacy \subseteq Nat \ {0} /\ Url \cap Legacy = {}
    /\ Node \subseteq Nat \ {0} /\ Old \subseteq Browser
    /\ Text # {}
    /\ DOMAIN Seed \subseteq SyncId /\ Seed \in [DOMAIN Seed -> [url : Url, node : Node \cup {0}]]
    /\ \A s, r \in DOMAIN Seed : Seed[s].node = Seed[r].node /\ Seed[s].node # 0
                                    => Seed[s].url = Seed[r].url
    /\ BulkFloor \in Nat /\ Others \in [Browser -> Nat] /\ MaxEvents \in Nat
    /\ {Overlap, Copies} \subseteq BOOLEAN /\ Slow \subseteq {"ok", "tree"}
    /\ Events \subseteq {"edit", "reurl", "kill", "fail", "off"}

VARIABLES
    relay,      \* the newest event of each sync id
    clock,      \* the last second that matters to each sync id
    tree,       \* the bookmarks of each browser
    eng,        \* the engine of each browser
    kept,       \* bmItems, as saved before the last change of the items
    awake,      \* is the worker running?
    left,       \* how many more events
    excused,    \* history: URLs with a publish that failed, a deletion cut short,
                \* or an event received while off
    gone,       \* history: URLs some user deleted
    sunk        \* history: URLs deleted when all was settled, untouched since

vars == <<relay, clock, tree, eng, kept, awake, left, excused, gone, sunk>>

None == [url |-> 0, text |-> 0]     \* no bookmark, no body
Chain == {"absorb", "merge"}     \* the chains that write into the tree
Sender == {"flush", "merge"}     \* the loops that publish bookmarks
Body == [url : Url, text : Text]

(* An event has a time and a body; a tombstone has no body.                *)
NoEvent == [at |-> 0, body |-> None]

(* What the engine holds of a sync id; a removed one keeps its URL.        *)
NoItem == [at |-> 0, live |-> FALSE, url |-> 0, text |-> 0]
Held(at, body) == [at |-> at, live |-> TRUE, url |-> body.url, text |-> body.text]
Removed(at, item) == [at |-> at, live |-> FALSE, url |-> item.url, text |-> 0]
BodyOf(item) == [url |-> item.url, text |-> item.text]

Idle == [step |-> "idle", id |-> 0, at |-> 0, body |-> None]
NoWait == [id |-> 0, at |-> 0, body |-> None]

(* init(): what was stored, and nothing in progress.                       *)
Started(on, map, rmap, items, pending) ==
    [on |-> on, map |-> map, rmap |-> rmap, items |-> items, pending |-> pending,
     index |-> [u \in Url |-> {s \in SyncId : items[s].url = u}],
     queue |-> {}, sweep |-> FALSE, tomb |-> {}, remove |-> {}, create |-> {},
     task |-> [c \in Chain |-> Idle], out |-> [w \in Sender |-> {}],
     wait |-> [w \in Sender |-> NoWait], writing |-> {}, tail |-> FALSE]

(* rmap is rebuilt from map; of two ids with one bookmark either may stay. *)
Reverses(map) ==
    {r \in [Node -> SyncId \cup {0}] :
        \A n \in Node : LET ids == {s \in SyncId : map[s] = n}
                        IN IF ids = {} THEN r[n] = 0 ELSE r[n] \in ids}

(* A browser paired before has synced what the relay holds, one paired now *)
(* has nothing.                                                            *)
SeedBody(s) == [url |-> Seed[s].url, text |-> CHOOSE t \in Text : TRUE]
Seeded == DOMAIN Seed
OldMap == [s \in SyncId |-> IF s \in Seeded THEN Seed[s].node ELSE 0]
OldItems == [s \in SyncId |-> IF s \in Seeded THEN Held(1, SeedBody(s)) ELSE NoItem]
OldTree == [n \in Node |-> IF \E s \in Seeded : Seed[s].node = n
                           THEN SeedBody(CHOOSE s \in Seeded : Seed[s].node = n) ELSE None]
NewItems == [s \in SyncId |-> NoItem]
Init ==
    /\ relay = [s \in SyncId |-> IF s \in Seeded THEN [at |-> 1, body |-> SeedBody(s)] ELSE NoEvent]
    /\ clock = [s \in SyncId |-> relay[s].at]
    /\ tree = [b \in Browser |-> IF b \in Old THEN OldTree ELSE [n \in Node |-> None]]
    /\ eng \in [Browser -> {Started(TRUE, OldMap, r, OldItems, 0) : r \in Reverses(OldMap)}
                           \cup {Started(TRUE, [s \in SyncId |-> 0], [n \in Node |-> 0], NewItems, 0)}]
    /\ \A b \in Browser : eng[b].items = IF b \in Old THEN OldItems ELSE NewItems
    /\ kept = [b \in Browser |-> eng[b].items]
    /\ awake = [b \in Browser |-> TRUE]
    /\ left = MaxEvents
    /\ excused = {} /\ gone = {} /\ sunk = {}

-----------------------------------------------------------------------------
(* The engine's state and the plan of a merge, as functions of it.         *)

Mapped(e) == {s \in SyncId : e.map[s] # 0}
Present(t) == {n \in Node : t[n] # None}
CopiesOf(t, u) == {n \in Present(t) : t[n].url = u}
Remember(e, s, n) == [e EXCEPT !.map[s] = n, !.rmap[n] = s]
Forget(e, s) ==
    [e EXCEPT !.map[s] = 0,
              !.rmap = [n \in Node |-> IF n = e.map[s] /\ @[n] = s THEN 0 ELSE @[n]]]
Learn(e, s, at, body) ==
    [e EXCEPT !.items[s] = Held(at, body), !.index[body.url] = @ \cup {s}]
IdsForUrl(e, u) == IF u = 0 THEN {} ELSE {s \in e.index[u] : e.items[s].live}

\* Mutant: only the id this browser has mapped is tombstoned.
WithoutSiblings(e, s) == {s}

WithSiblings(e, s) == IdsForUrl(e, e.items[s].url) \cup {s}

Writes(e) == \E c \in Chain : e.task[c].step \in {"remove", "look", "make"}
Applying(e) == e.tail \/ Writes(e)

(* Ids a browser has not used: it never gives one to a second bookmark.    *)
Unused(b) ==
    LET e == eng[b] IN
    {n \in Node : /\ tree[b][n] = None /\ e.rmap[n] = 0 /\ n \notin e.queue \cup e.writing
                  /\ \A s \in SyncId : e.map[s] # n
                  /\ \A w \in Sender : \A o \in e.out[w] : o.node # n}

(* planUnion(): of several live ids for a URL the smallest wins.           *)
Live(e) == {s \in SyncId : e.items[s].live}
Losers(e) == {s \in Live(e) : \E w \in Live(e) : w < s /\ e.items[w].url = e.items[s].url}
Claimed(e) == {e.map[s] : s \in Mapped(e) \ Losers(e)}

\* Mutant: a page that was never here counts as one deleted here.
VanishedUnmapped(e, t) ==
    {s \in (Mapped(e) \cup Live(e)) \ Losers(e) : e.map[s] = 0 \/ t[e.map[s]] = None}

Vanished(e, t) == {s \in Mapped(e) \ Losers(e) : t[e.map[s]] = None}

Unpaired(e) == Live(e) \ (Losers(e) \cup Mapped(e))
Candidates(e, t, s) == CopiesOf(t, e.items[s].url) \ Claimed(e)
Hit(e, t, s) ==
    LET exact == {n \in Candidates(e, t, s) : t[n] = BodyOf(e.items[s])}
    IN Min(IF exact # {} THEN exact ELSE Candidates(e, t, s))
Links(e, t) == {s \in Unpaired(e) : Candidates(e, t, s) # {}}
Creates(e, t) == {[id |-> s, body |-> BodyOf(e.items[s])] : s \in Unpaired(e) \ Links(e, t)}

\* Mutant: a merge sends only the pages the relay has never had.
PublishesNew(e, t) ==
    {[node |-> n, body |-> t[n]] :
        n \in {m \in Present(t) \ (Claimed(e) \cup {Hit(e, t, s) : s \in Links(e, t)}) :
                 e.items[t[m].url] = NoItem}}

Publishes(e, t) ==
    {[node |-> n, body |-> t[n]] :
        n \in Present(t) \ (Claimed(e) \cup {Hit(e, t, s) : s \in Links(e, t)})}

(* The links are remembered, then the losing ids forgotten.                *)
Paired(e, t) ==
    LET linked == {<<s, Hit(e, t, s)>> : s \in Links(e, t)}
    IN [e EXCEPT
         !.map = [s \in SyncId |-> IF s \in Links(e, t) THEN Hit(e, t, s)
                                   ELSE IF s \in Losers(e) THEN 0 ELSE @[s]],
         !.rmap = [n \in Node |->
                     IF \E s \in Links(e, t) : <<s, n>> \in linked
                     THEN CHOOSE s \in Links(e, t) : <<s, n>> \in linked
                     ELSE IF @[n] \in Losers(e) /\ e.map[@[n]] = n THEN 0 ELSE @[n]]]

(* A wholesale loss: more than the floor, and more than half.              *)
Bulk(b) ==
    LET local == Cardinality(Present(tree[b])) + Others[b]
    IN Cardinality(Vanished(eng[b], tree[b])) > Max({BulkFloor, (local + 1) \div 2})

-----------------------------------------------------------------------------
(* What users do.  The engine hears of it if its worker runs.              *)

Spend == left > 0 /\ left' = left - 1
Spent(kind) == kind \in Events /\ Spend

(* A user acts at once, 250 ms later when the tail of an apply is over, or *)
(* after 2 s, when no bookmark is marked any more and the items are saved. *)
Waits(e) ==
    {e} \cup IF Writes(e) THEN {}
            ELSE {[e EXCEPT !.tail = FALSE], [e EXCEPT !.tail = FALSE, !.writing = {}]}
Hears(b, Handler(_)) ==
    \E e \in Waits(eng[b]) :
        /\ eng' = [eng EXCEPT ![b] = IF awake[b] THEN Handler(e) ELSE @]
        /\ kept' = IF awake[b] /\ ~Applying(e) /\ e.writing = {}
                   THEN [kept EXCEPT ![b] = e.items] ELSE kept

OnLocalChange(e, n) ==
    IF ~e.on \/ Applying(e) \/ n \in e.writing THEN e ELSE [e EXCEPT !.queue = @ \cup {n}]

(* onLocalRemove(): a copy that survives takes over the sync id.           *)
OnLocalRemove(e, t, n) ==
    LET e1 == [e EXCEPT !.queue = @ \ {n}]
        s == e.rmap[n]
        u == IF s = 0 THEN 0 ELSE e.items[s].url
        survivors == IF u = 0 THEN {} ELSE CopiesOf(t, u) \ (e.writing \cup {n})
        heir == Min(survivors)
        e2 == Forget(e1, s)
    IN IF ~e.on \/ Applying(e) THEN e1
       ELSE IF n \in e.writing \/ s = 0 THEN [e1 EXCEPT !.sweep = TRUE]
       ELSE IF survivors = {} THEN [e1 EXCEPT !.tomb = @ \cup WithSiblings(e1, s)]
       ELSE IF e2.rmap[heir] # 0 THEN e2
       ELSE OnLocalChange(Remember(e2, s, heir), heir)

(* The one event of a folder that goes, whatever was in it.                *)
OnFolderRemove(e) == IF ~e.on \/ Applying(e) THEN e ELSE [e EXCEPT !.sweep = TRUE]

(* Nothing is in progress anywhere, everybody knows every event and a      *)
(* merge would find nothing to do.                                         *)
Busy(b) ==
    LET e == eng[b] IN
    \/ e.queue # {} \/ e.sweep \/ e.tomb # {} \/ e.remove # {} \/ e.create # {}
    \/ \E c \in Chain : e.task[c] # Idle
    \/ \E w \in Sender : e.out[w] # {} \/ e.wait[w] # NoWait
Settled ==
    \A b \in Browser : /\ awake[b] /\ eng[b].on /\ ~Busy(b) /\ kept'[b] = eng[b].items
                       /\ \A s \in SyncId : eng[b].items[s].at >= relay[s].at
                       /\ Paired(eng[b], tree[b]) = eng[b] /\ Vanished(eng[b], tree[b]) = {}
                       /\ Creates(eng[b], tree[b]) = {} /\ Publishes(eng[b], tree[b]) = {}

Deleted(b, t) ==
    LET urls == {tree[b][n].url : n \in Present(tree[b]) \ Present(t)} IN
    /\ tree' = [tree EXCEPT ![b] = t]
    /\ gone' = gone \cup urls
    /\ sunk' = IF Settled THEN sunk \cup {u \in urls : CopiesOf(t, u) = {}} ELSE sunk
    /\ UNCHANGED <<relay, clock, awake, excused>>

UserAdd(b, u, t) ==
    /\ Spend
    /\ Copies \/ (CopiesOf(tree[b], u) = {} /\ \A c \in Chain : eng[b].task[c].body.url # u)
    /\ Unused(b) # {}
    /\ LET n == Min(Unused(b)) IN
        /\ tree' = [tree EXCEPT ![b][n] = [url |-> u, text |-> t]]
        /\ Hears(b, LAMBDA e : OnLocalChange(e, n))
    /\ sunk' = sunk \ {u}
    /\ UNCHANGED <<relay, clock, awake, excused, gone>>

(* Renamed or moved, or given another URL.                                 *)
UserEdit(b, n, body) ==
    /\ Spent("edit")
    /\ n \in Present(tree[b])
    /\ body.url = tree[b][n].url \/ "reurl" \in Events
    /\ tree' = [tree EXCEPT ![b][n] = body]
    /\ Hears(b, LAMBDA e : OnLocalChange(e, n))
    /\ sunk' = sunk \ {body.url}
    /\ gone' = gone \cup ({tree[b][n].url} \ {body.url})
    /\ UNCHANGED <<relay, clock, awake, excused>>

(* One bookmark deleted.                                                   *)
UserDelete(b, n) ==
    LET t == [tree[b] EXCEPT ![n] = None] IN
    /\ Spend
    /\ n \in Present(tree[b])
    /\ Hears(b, LAMBDA e : [OnLocalRemove(e, t, n) EXCEPT !.writing = @ \ {n}])
    /\ Deleted(b, t)

(* A folder deleted with the bookmarks in it: the one event is the         *)
(* folder's, which has no sync id.                                         *)
UserDeleteFolder(b, inside) ==
    LET t == [n \in Node |-> IF n \in inside THEN None ELSE tree[b][n]] IN
    /\ Spend
    /\ inside # {} /\ inside \subseteq Present(tree[b])
    /\ Hears(b, LAMBDA e : [OnFolderRemove(e) EXCEPT !.writing = @ \ inside])
    /\ Deleted(b, t)

(* setEnabled(); the merge that follows switching on is a MergeStart.      *)
Switch(b, on) ==
    /\ Spent("off")
    /\ awake[b] /\ eng[b].on # on
    /\ eng' = [eng EXCEPT ![b].on = on, ![b].pending = IF on THEN @ ELSE 0]
    /\ UNCHANGED <<relay, clock, tree, kept, awake, excused, gone, sunk>>

(* The browser stops the worker: map, on and pending are stored, and the   *)
(* items, unless the last changes were to be saved within 400 ms.          *)
Kill(b) ==
    /\ Spent("kill")
    /\ awake[b]
    /\ awake' = [awake EXCEPT ![b] = FALSE]
    /\ \E r \in Reverses(eng[b].map),
          stored \in {kept[b]} \cup IF Writes(eng[b]) /\ "tree" \notin Slow
                                   THEN {} ELSE {eng[b].items} :
         /\ eng' = [eng EXCEPT ![b] = Started(@.on, @.map, r, stored, @.pending)]
         /\ kept' = [kept EXCEPT ![b] = stored]
    /\ excused' = excused \cup ({relay[s].body.url : s \in eng[b].tomb} \ {0})
    /\ UNCHANGED <<relay, clock, tree, gone, sunk>>

(* The alarm wakes it.                                                     *)
Wake(b) ==
    /\ ~awake[b]
    /\ awake' = [awake EXCEPT ![b] = TRUE]
    /\ UNCHANGED <<relay, clock, tree, eng, kept, left, excused, gone, sunk>>

-----------------------------------------------------------------------------
(* From the relay to the tree.                                             *)

Becomes(b, e) == eng' = [eng EXCEPT ![b] = e]

(* saveSoon(), before another change of the items: the timer of the last   *)
(* one has fired, or starts again.  It matters if the worker may be killed. *)
SaveSoon(b) ==
    kept' \in IF "kill" \in Events /\ left > 0
              THEN {kept, [kept EXCEPT ![b] = eng[b].items]} ELSE {kept}

Merging(e) ==
    \/ e.remove # {} \/ e.create # {} \/ e.out["merge"] # {}
    \/ e.task["merge"] # Idle \/ e.wait["merge"] # NoWait
Flushing(e) == e.out["flush"] # {} \/ e.wait["flush"] # NoWait
Absorbing(e) == e.task["absorb"] # Idle
MayStart(e) == Overlap \/ ~(Merging(e) \/ Flushing(e) \/ Absorbing(e) \/ e.tomb # {})

(* absorb(): events one at a time; an event no newer than what is held is  *)
(* dropped.  A tombstone is recorded at once, a body has to be opened.     *)
Receive(b, s) ==
    LET e == eng[b]
        ev == relay[s]
        dead == [e EXCEPT !.items[s] = Removed(ev.at, @)] IN
    /\ awake[b] /\ ~Absorbing(e) /\ MayStart(e)
    /\ ev.at > e.items[s].at
    /\ Becomes(b, IF ev.body # None
                  THEN [e EXCEPT !.task["absorb"] = [step |-> "open", id |-> s, at |-> ev.at, body |-> ev.body]]
                  ELSE IF e.on
                  THEN [dead EXCEPT !.task["absorb"] = [step |-> "remove", id |-> s, at |-> ev.at, body |-> None]]
                  ELSE dead)
    /\ excused' = IF e.on THEN excused ELSE excused \cup ({e.items[s].url} \ {0})
    /\ IF ev.body # None THEN UNCHANGED kept ELSE SaveSoon(b)
    /\ UNCHANGED <<relay, clock, tree, awake, left, gone, sunk>>

Opened(b) ==
    LET e == eng[b]
        k == e.task["absorb"]
        e1 == Learn(e, k.id, k.at, k.body) IN
    /\ k.step = "open"
    /\ Becomes(b, [e1 EXCEPT !.task["absorb"] = IF e.on THEN [k EXCEPT !.step = "look"] ELSE Idle])
    /\ excused' = IF e.on THEN excused ELSE excused \cup {k.body.url}
    /\ SaveSoon(b)
    /\ UNCHANGED <<relay, clock, tree, awake, left, gone, sunk>>

Finished(e, c) == [e EXCEPT !.task[c] = Idle, !.tail = TRUE]

(* applyRemoval(): only a bookmark mapped here, whose URL is still the one *)
(* the tombstone is about.                                                 *)
ApplyRemoval(b) ==
    LET e == eng[b]
        s == e.task["absorb"].id
        n == e.map[s]
        e1 == IF n = 0 THEN e ELSE Forget(e, s)
        same == n # 0 /\ tree[b][n] # None /\ tree[b][n].url = e.items[s].url IN
    /\ e.task["absorb"].step = "remove"
    /\ tree' = IF same THEN [tree EXCEPT ![b][n] = None] ELSE tree
    /\ Becomes(b, Finished([e1 EXCEPT !.writing = IF same THEN @ \ {n} ELSE @], "absorb"))
    /\ UNCHANGED <<relay, clock, kept, awake, left, excused, gone, sunk>>

\* Mutant: neither the ids nor the tree are searched before a create.
LookBlind(b, c) ==
    LET e == eng[b]
        k == e.task[c]
        n == e.map[k.id]
        paired == n # 0 /\ tree[b][n] # None IN
    /\ k.step = "look"
    /\ tree' = IF paired THEN [tree EXCEPT ![b][n] = k.body] ELSE tree
    /\ Becomes(b, IF paired THEN Finished([e EXCEPT !.writing = @ \cup {n}], c)
                  ELSE [e EXCEPT !.task[c].step = "make"])
    /\ UNCHANGED <<relay, clock, kept, awake, left, excused, gone, sunk>>

(* applyUpsert(), up to the search: a mapped bookmark is updated; one this *)
(* browser has under another id, or has and never mapped, is not made again. *)
Look(b, c) ==
    LET e == eng[b]
        k == e.task[c]
        n == e.map[k.id]
        e1 == IF n = 0 THEN e ELSE Forget(e, k.id)
        paired == n # 0 /\ tree[b][n] # None
        sibling == \E s \in IdsForUrl(e1, k.body.url) \ {k.id} : e1.map[s] # 0
        twins == CopiesOf(tree[b], k.body.url) IN
    /\ k.step = "look"
    /\ tree' = IF paired THEN [tree EXCEPT ![b][n] = k.body] ELSE tree
    /\ Becomes(b, IF paired /\ tree[b][n] = k.body THEN Finished(e, c)
                  ELSE IF paired THEN Finished([e EXCEPT !.writing = @ \cup {n}], c)
                  ELSE IF sibling THEN Finished(e1, c)
                  ELSE IF twins # {} THEN Finished(Remember(e1, k.id, Min(twins)), c)
                  ELSE [e1 EXCEPT !.task[c].step = "make"])
    /\ UNCHANGED <<relay, clock, kept, awake, left, excused, gone, sunk>>

(* ... and the create that follows it.                                     *)
Make(b, c) ==
    LET e == eng[b]
        k == e.task[c]
        n == Min(Unused(b)) IN
    /\ k.step = "make" /\ Unused(b) # {}
    /\ tree' = [tree EXCEPT ![b][n] = k.body]
    /\ Becomes(b, Finished([Remember(e, k.id, n) EXCEPT !.writing = @ \cup {n}], c))
    /\ UNCHANGED <<relay, clock, kept, awake, left, excused, gone, sunk>>

-----------------------------------------------------------------------------
(* From the tree to the relay.                                             *)

(* publishBookmark(): a newer second than any before, stored or not; or    *)
(* stored, and the OK does not arrive within 8 s.                          *)
Stored(s, body) ==
    /\ clock' = [clock EXCEPT ![s] = @ + 1]
    /\ relay' = [relay EXCEPT ![s] = [at |-> clock[s] + 1, body |-> body]]
    /\ UNCHANGED <<left, excused>>
Refused(s, u) ==
    /\ Spent("fail")
    /\ excused' = excused \cup ({u} \ {0})
    /\ clock' = [clock EXCEPT ![s] = @ + 1]
    /\ UNCHANGED relay
Unheard(s, body) ==
    /\ Spent("fail")
    /\ clock' = [clock EXCEPT ![s] = @ + 1]
    /\ relay' = [relay EXCEPT ![s] = [at |-> clock[s] + 1, body |-> body]]
    /\ UNCHANGED excused

(* flushLocal(): one read of the tree for the whole batch.                 *)
FlushStart(b) ==
    LET e == eng[b] IN
    /\ e.on /\ e.queue # {} /\ ~Flushing(e) /\ MayStart(e)
    /\ Becomes(b, [e EXCEPT !.queue = {},
                            !.out["flush"] = {[node |-> n, body |-> tree[b][n]] :
                                                n \in e.queue \cap Present(tree[b])}])
    /\ UNCHANGED <<relay, clock, tree, kept, awake, left, excused, gone, sunk>>

(* One bookmark of the batch, or of a merge: the sync id is remembered     *)
(* first, and stays remembered when the publish fails.                     *)
Publish(b, w, o) ==
    LET e == eng[b]
        s == IF e.rmap[o.node] # 0 THEN e.rmap[o.node] ELSE o.body.url
        e1 == [Remember(e, s, o.node) EXCEPT !.out[w] = @ \ {o}] IN
    /\ o \in e.out[w] /\ e.wait[w] = NoWait
    /\ w = "merge" => e.remove = {} /\ e.tomb = {} /\ e.create = {} /\ e.task["merge"] = Idle
    /\ \/ Stored(s, o.body) /\ Becomes(b, [e1 EXCEPT !.wait[w] = [id |-> s, at |-> clock[s] + 1, body |-> o.body]])
       \/ (Refused(s, o.body.url) \/ Unheard(s, o.body)) /\ Becomes(b, e1)
    /\ UNCHANGED <<tree, kept, awake, gone, sunk>>

(* A bookmark the engine wrote while it waited in the batch.               *)
FlushSkip(b, o) ==
    /\ o \in eng[b].out["flush"] /\ eng[b].wait["flush"] = NoWait
    /\ o.node \in eng[b].writing
    /\ eng' = [eng EXCEPT ![b].out["flush"] = @ \ {o}]
    /\ UNCHANGED <<relay, clock, tree, kept, awake, left, excused, gone, sunk>>

\* Mutant: the second is rounded up.
AnsweredCeil(b, w) ==
    LET e == eng[b]
        k == e.wait[w] IN
    /\ k # NoWait
    /\ Becomes(b, [Learn(e, k.id, k.at + 1, k.body) EXCEPT !.wait[w] = NoWait])
    /\ SaveSoon(b)
    /\ UNCHANGED <<relay, clock, tree, awake, left, excused, gone, sunk>>

(* The relay's OK: the item is stamped with the second it arrives in.      *)
Answered(b, w) ==
    LET e == eng[b]
        k == e.wait[w]
        now == IF "ok" \in Slow THEN clock[k.id] ELSE k.at IN
    /\ k # NoWait
    /\ Becomes(b, [Learn(e, k.id, now, k.body) EXCEPT !.wait[w] = NoWait])
    /\ SaveSoon(b)
    /\ UNCHANGED <<relay, clock, tree, awake, left, excused, gone, sunk>>

(* tombstoneOne().                                                         *)
Bury(b, s) ==
    LET e == eng[b] IN
    /\ s \in e.tomb
    /\ Overlap \/ ~(Flushing(e) \/ Absorbing(e) \/ e.wait["merge"] # NoWait)
    /\ Becomes(b, [Forget(e, s) EXCEPT !.items[s] = Removed(clock[s] + 1, @), !.tomb = @ \ {s}])
    /\ Stored(s, None) \/ Refused(s, relay[s].body.url)
    /\ SaveSoon(b)
    /\ UNCHANGED <<tree, awake, gone, sunk>>

(* sweepRemovals(): after a folder went, whatever is mapped and not there. *)
Sweep(b) ==
    LET e == eng[b]
        lost == {e.rmap[n] : n \in Node \ Present(tree[b])} \cap Mapped(e) IN
    /\ e.sweep
    /\ Becomes(b, [e EXCEPT !.sweep = FALSE,
                            !.tomb = @ \cup IF e.on THEN UNION {WithSiblings(e, s) : s \in lost} ELSE {}])
    /\ UNCHANGED <<relay, clock, tree, kept, awake, left, excused, gone, sunk>>

(* union(), up to its first await: the tree is read, the plan made.        *)
MergeStart(b, confirmed) ==
    LET e == eng[b]
        t == tree[b]
        refuse == Bulk(b) /\ ~confirmed
        e1 == [Paired(e, t) EXCEPT
                 !.pending = IF refuse THEN Cardinality(Vanished(e, t)) ELSE 0,
                 !.remove = IF refuse THEN {} ELSE Vanished(e, t),
                 !.create = Creates(e, t), !.out["merge"] = Publishes(e, t)] IN
    /\ awake[b] /\ e.on /\ ~Merging(e) /\ MayStart(e)
    /\ confirmed => e.pending > 0
    /\ e1 # e
    /\ Becomes(b, e1)
    /\ UNCHANGED <<relay, clock, tree, kept, awake, left, excused, gone, sunk>>

MergeRemove(b, s) ==
    LET e == eng[b] IN
    /\ s \in e.remove /\ e.tomb = {}
    /\ Becomes(b, [e EXCEPT !.remove = @ \ {s}, !.tomb = WithSiblings(e, s)])
    /\ UNCHANGED <<relay, clock, tree, kept, awake, left, excused, gone, sunk>>

MergeCreate(b, r) ==
    LET e == eng[b] IN
    /\ r \in e.create /\ e.remove = {} /\ e.tomb = {} /\ e.task["merge"] = Idle
    /\ Becomes(b, [e EXCEPT !.create = @ \ {r},
                            !.task["merge"] = [step |-> "look", id |-> r.id, at |-> 0, body |-> r.body]])
    /\ UNCHANGED <<relay, clock, tree, kept, awake, left, excused, gone, sunk>>

-----------------------------------------------------------------------------
Absorb(b) == (\E s \in SyncId : Receive(b, s)) \/ Opened(b) \/ ApplyRemoval(b)
Upsert(b) == \E c \in Chain : Look(b, c) \/ Make(b, c)
Flush(b) ==
    \/ FlushStart(b)
    \/ \E o \in eng[b].out["flush"] : FlushSkip(b, o)
    \/ \E w \in Sender : Answered(b, w) \/ \E o \in eng[b].out[w] : Publish(b, w, o)
Tombs(b) == Sweep(b) \/ \E s \in SyncId : Bury(b, s)
Merge(b) ==
    \/ MergeStart(b, FALSE)
    \/ \E s \in eng[b].remove : MergeRemove(b, s)
    \/ \E r \in eng[b].create : MergeCreate(b, r)
Engine(b) ==
    Wake(b) \/ Absorb(b) \/ Upsert(b) \/ Flush(b) \/ Tombs(b) \/ Merge(b)

User(b) ==
    \/ \E u \in Url, t \in Text : UserAdd(b, u, t)
    \/ \E n \in Node, body \in Body : UserEdit(b, n, body)
    \/ \E n \in Node : UserDelete(b, n)
    \/ \E inside \in SUBSET Node : UserDeleteFolder(b, inside)
    \/ \E on \in BOOLEAN : Switch(b, on)
    \/ Kill(b)
    \/ MergeStart(b, TRUE)

Next == \E b \in Browser : Engine(b) \/ User(b)
Spec == Init /\ [][Next]_vars

(* Timers, promises and the relay connection go on while the worker runs,  *)
(* and an alarm wakes it every minute.                                     *)
FairSpec == Spec /\ \A b \in Browser : WF_vars(Engine(b))

-----------------------------------------------------------------------------
(* Properties.                                                             *)

(* Every table of every engine holds sync ids, bookmarks and bodies, and   *)
(* no engine has stamped an item with a second the relay has not reached   *)
(* (the guard `>=` of absorb() would drop the events of other browsers).   *)
TypeOK ==
    /\ \A s \in SyncId : relay[s].at \in 0..clock[s] /\ relay[s].body \in Body \cup {None}
    /\ \A b \in Browser :
        LET e == eng[b] IN
        /\ tree[b] \in [Node -> Body \cup {None}]
        /\ e.map \in [SyncId -> Node \cup {0}] /\ e.rmap \in [Node -> SyncId \cup {0}]
        /\ \A s \in SyncId : e.items[s].at \in 0..clock[s] /\ (e.items[s].live => BodyOf(e.items[s]) \in Body)
        /\ e.queue \cup e.writing \subseteq Node /\ e.tomb \cup e.remove \subseteq SyncId

(* No step of an engine takes a bookmark away, or turns it into another    *)
(* page, unless some user deleted or changed that page: tombstones come    *)
(* from deletions only, never from a browser that has not got a page yet,  *)
(* has lost its mapping or was stopped halfway.                            *)
DeletionMeant ==
    [][\A b \in Browser : \A n \in Present(tree[b]) :
          left' = left /\ (tree'[b][n] = None \/ tree'[b][n].url # tree[b][n].url)
             => tree[b][n].url \in gone]_vars

(* However many events the relay holds for a page, and whichever of absorb *)
(* and merge meets them, applyUpsert() never makes a second copy of a page *)
(* whose first copy has a sync id.                                         *)
OneCopy ==
    [][\A b \in Browser : \A n \in Node :
          left' = left /\ tree[b][n] = None /\ tree'[b][n] # None
             => \A m \in CopiesOf(tree[b], tree'[b][n].url) : eng[b].rmap[m] = 0]_vars

OnRelay(u) == \E s \in SyncId : relay[s].body # None /\ relay[s].body.url = u
Syncs(b) == eng[b].on /\ eng[b].pending = 0

(* Every browser that syncs, and waits for no confirmation, ends up with   *)
(* exactly the pages that are live on the relay: local changes go out by   *)
(* flushLocal() or the next union(), remote ones come in by absorb().      *)
Agreed(u) == \A b \in Browser : Syncs(b) => ((CopiesOf(tree[b], u) # {}) <=> OnRelay(u))
Converges == <>[](\A u \in Url \ excused : Agreed(u))

(* "A delete actually sticks": a page deleted when all was settled, and    *)
(* touched by no user since, ends up on no relay and in no browser, for    *)
(* good, also when the relay held it under several sync ids.               *)
Sunk(u) == ~OnRelay(u) /\ \A b \in Browser : CopiesOf(tree[b], u) = {}
DeletionSticks == <>[](\A u \in sunk \ excused : Sunk(u) \/ \E b \in Browser : ~Syncs(b))

(* "The next merge retries anything that never reached the relay": what a  *)
(* syncing browser has ends up on the relay, whatever publish failed.      *)
(* Fails: flushLocal() and union() remember the sync id before they        *)
(* publish, and a merge sends only bookmarks without one.                  *)
EverythingSent ==
    <>[](\A b \in Browser, u \in Url : Syncs(b) /\ CopiesOf(tree[b], u) # {} => OnRelay(u))

=============================================================================
