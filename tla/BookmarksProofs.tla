--------------------------- MODULE BookmarksProofs ---------------------------
(***************************************************************************)
(* The bookmark engines, for any number of browsers, pages, sync ids and   *)
(* bookmarks, with every fault, delay and stop of a worker the constants   *)
(* allow.                                                                  *)
(*   Typed    the tables are what they should be and no stamp is ahead of  *)
(*            the clock of its sync id;                                    *)
(*   Pages    a sync id stands for one page, and what an engine is about   *)
(*            to remove is of a page that some user deleted;               *)
(*   Single   the chains of an engine take turns, and what a create would  *)
(*            copy has no sync id.                                         *)
(* Each is shown action by action, in the order of the actions in          *)
(* Bookmarks; lemmas named ...Is say what an operation does to an engine.  *)
(***************************************************************************)
EXTENDS Bookmarks, NatOrder, TLAPS

(* The types of what an engine, a relay and a browser hold.                *)
Item == [at : Nat, live : BOOLEAN, url : Url \cup {0}, text : Text \cup {0}]
Task == [step : {"idle", "open", "remove", "look", "make"}, id : SyncId \cup {0},
         at : Nat, body : Body \cup {None}]
Outgoing == [node : Node, body : Body]
Wait == [id : SyncId \cup {0}, at : Nat, body : Body \cup {None}]
Creation == [id : SyncId, body : Body]
Count == Nat \cup {Cardinality(S) : S \in SUBSET SyncId}
Eng == [on : BOOLEAN, map : [SyncId -> Node \cup {0}], rmap : [Node -> SyncId \cup {0}],
        items : [SyncId -> Item], pending : Count, index : [Url -> SUBSET SyncId],
        queue : SUBSET Node, sweep : BOOLEAN, tomb : SUBSET SyncId, remove : SUBSET SyncId,
        create : SUBSET Creation, task : [Chain -> Task], out : [Sender -> SUBSET Outgoing],
        wait : [Sender -> Wait], writing : SUBSET Node, tail : BOOLEAN]
Event == [at : Nat, body : Body \cup {None}]
Tree == [Node -> Body \cup {None}]

(* Engine r differs from e in the fields X at most.                        *)
Fields == {"on", "map", "rmap", "items", "pending", "index", "queue", "sweep", "tomb", "remove",
           "create", "task", "out", "wait", "writing", "tail"}
Same(r, e, X) == \A f \in Fields \ X : r[f] = e[f]

(* No stamp is ahead of the clock of its id, and what is live has a body.  *)
ItemsOK(i, ck) ==
    /\ i \in [SyncId -> Item]
    /\ \A s \in SyncId : i[s].at <= ck[s] /\ (i[s].live => BodyOf(i[s]) \in Body)
TaskOK(k, ck) ==
    /\ k.step # "idle" => k.id \in SyncId /\ k.at <= ck[k.id]
    /\ k.step \in {"open", "look", "make"} => k.body \in Body
WaitOK(k, ck) == k # NoWait => k.id \in SyncId /\ k.at <= ck[k.id] /\ k.body \in Body
(* One engine against the clocks.                                          *)
EngOK(e, ck) ==
    /\ e \in Eng /\ ItemsOK(e.items, ck)
    /\ \A c \in Chain : TaskOK(e.task[c], ck)
    /\ \A w \in Sender : WaitOK(e.wait[w], ck)
KeptOK(k, ck) == k \in [Browser -> [SyncId -> Item]] /\ \A b \in Browser : ItemsOK(k[b], ck)
RelayOK(r, ck) == r \in [SyncId -> Event] /\ \A s \in SyncId : r[s].at <= ck[s]

(* TypeOK with the types of what it leaves out, and the stamps of the      *)
(* items that were saved, of tasks and of what waits for an OK: they       *)
(* become the stamps of items.                                             *)
Typed ==
    /\ clock \in [SyncId -> Nat] /\ RelayOK(relay, clock)
    /\ tree \in [Browser -> Tree] /\ eng \in [Browser -> Eng]
    /\ KeptOK(kept, clock)
    /\ awake \in [Browser -> BOOLEAN] /\ left \in Nat
    /\ \A b \in Browser : EngOK(eng[b], clock)

(* The numbers, bodies and ids that the constants allow.                   *)
LEMMA Basics ==
    /\ None \notin Body /\ None.url = 0 /\ 0 \notin Url /\ 0 \notin SyncId /\ 0 \notin Node
    /\ Url \subseteq SyncId /\ SyncId \subseteq Nat /\ Node \subseteq Nat
    /\ \A x \in Body : x.url \in Url /\ x.text \in Text /\ x = [url |-> x.url, text |-> x.text]
<1>1. None \notin Body /\ None.url = 0 /\ 0 \notin Url /\ 0 \notin SyncId /\ 0 \notin Node
  BY ConstantsAssumption DEF None, Body, SyncId
<1>2. Url \subseteq SyncId /\ SyncId \subseteq Nat /\ Node \subseteq Nat
  BY ConstantsAssumption DEF SyncId
<1>3. \A x \in Body : x.url \in Url /\ x.text \in Text /\ x = [url |-> x.url, text |-> x.text]
  BY DEF Body
<1> QED BY <1>1, <1>2, <1>3

(* The clock only goes on.                                                 *)
LEMMA ItemsGrow ==
    ASSUME NEW i, NEW ck \in [SyncId -> Nat], NEW cl \in [SyncId -> Nat], ItemsOK(i, ck),
           \A s \in SyncId : ck[s] <= cl[s]
    PROVE  ItemsOK(i, cl)
<1>1. ASSUME NEW s \in SyncId PROVE i[s].at <= cl[s]
  <2>1. i[s].at \in Nat /\ i[s].at <= ck[s]
    BY DEF ItemsOK, Item
  <2>2. ck[s] \in Nat /\ cl[s] \in Nat /\ ck[s] <= cl[s]
    OBVIOUS
  <2> QED BY <2>1, <2>2
<1> QED BY <1>1 DEF ItemsOK

(* The same for a whole engine.                                            *)
LEMMA EngGrow ==
    ASSUME NEW e, NEW ck \in [SyncId -> Nat], NEW cl \in [SyncId -> Nat], EngOK(e, ck),
           \A s \in SyncId : ck[s] <= cl[s]
    PROVE  EngOK(e, cl)
<1>1. ItemsOK(e.items, cl)
  BY ItemsGrow DEF EngOK
<1>2. ASSUME NEW c \in Chain PROVE TaskOK(e.task[c], cl)
  <2>1. e.task[c] \in Task /\ TaskOK(e.task[c], ck)
    BY DEF EngOK, Eng
  <2>2. PICK k \in Task : k = e.task[c]
    BY <2>1
  <2>3. k.at \in Nat /\ (k.id \in SyncId => ck[k.id] \in Nat /\ cl[k.id] \in Nat /\ ck[k.id] <= cl[k.id])
    BY DEF Task
  <2> QED BY <2>1, <2>2, <2>3 DEF TaskOK
<1>3. ASSUME NEW w \in Sender PROVE WaitOK(e.wait[w], cl)
  <2>1. e.wait[w] \in Wait /\ WaitOK(e.wait[w], ck)
    BY DEF EngOK, Eng
  <2>2. PICK k \in Wait : k = e.wait[w]
    BY <2>1
  <2>3. k.at \in Nat /\ (k.id \in SyncId => ck[k.id] \in Nat /\ cl[k.id] \in Nat /\ ck[k.id] <= cl[k.id])
    BY DEF Wait
  <2> QED BY <2>1, <2>2, <2>3 DEF WaitOK
<1> QED BY <1>1, <1>2, <1>3 DEF EngOK

(* What is left to show of a step that changes one engine.                 *)
LEMMA StepTyped ==
    ASSUME Typed, NEW b \in Browser, NEW e1, eng' = [eng EXCEPT ![b] = e1],
           clock' \in [SyncId -> Nat], \A s \in SyncId : clock[s] <= clock'[s],
           EngOK(e1, clock'), RelayOK(relay', clock'), KeptOK(kept', clock'),
           tree' \in [Browser -> Tree], awake' \in [Browser -> BOOLEAN], left' \in Nat
    PROVE  Typed'
<1>1. e1 \in Eng
  BY DEF EngOK
<1>2. eng' \in [Browser -> Eng]
  BY <1>1 DEF Typed
<1>3. ASSUME NEW c \in Browser PROVE EngOK(eng'[c], clock')
  <2>1. CASE c = b
    BY <2>1 DEF Typed
  <2>2. CASE c # b
    <3>1. eng'[c] = eng[c]
      BY <2>2 DEF Typed
    <3>2. EngOK(eng[c], clock) /\ clock \in [SyncId -> Nat]
      BY DEF Typed
    <3> QED BY <3>1, <3>2, EngGrow
  <2> QED BY <2>1, <2>2
<1> QED BY <1>2, <1>3 DEF Typed

(* The saved items stay, or those of one browser are replaced.             *)
LEMMA KeptGrow ==
    ASSUME Typed, clock' \in [SyncId -> Nat], \A s \in SyncId : clock[s] <= clock'[s],
           NEW b \in Browser, NEW i, ItemsOK(i, clock),
           kept' = kept \/ kept' = [kept EXCEPT ![b] = i]
    PROVE  KeptOK(kept', clock')
<1>1. i \in [SyncId -> Item]
  BY DEF ItemsOK
<1>2. kept' \in [Browser -> [SyncId -> Item]]
  BY <1>1 DEF Typed, KeptOK
<1>3. ASSUME NEW c \in Browser PROVE ItemsOK(kept'[c], clock')
  <2>1. ItemsOK(kept'[c], clock)
    BY DEF Typed, KeptOK
  <2>2. clock \in [SyncId -> Nat]
    BY DEF Typed
  <2> QED BY <2>1, <2>2, ItemsGrow
<1> QED BY <1>2, <1>3 DEF KeptOK

(* saveSoon() saves what the engine held.                                  *)
LEMMA SaveTyped ==
    ASSUME Typed, clock' \in [SyncId -> Nat], \A s \in SyncId : clock[s] <= clock'[s],
           NEW b \in Browser, SaveSoon(b)
    PROVE  KeptOK(kept', clock')
<1>1. kept' = kept \/ kept' = [kept EXCEPT ![b] = eng[b].items]
  BY DEF SaveSoon
<1>2. ItemsOK(eng[b].items, clock)
  BY DEF Typed, EngOK
<1> QED BY <1>1, <1>2, KeptGrow

-----------------------------------------------------------------------------
(* remember(): the two tables, and nothing else.                           *)
LEMMA RememberIs ==
    ASSUME NEW e \in Eng, NEW s \in SyncId, NEW n \in Node
    PROVE  /\ Remember(e, s, n) \in Eng
           /\ Remember(e, s, n).map = [e.map EXCEPT ![s] = n]
           /\ Remember(e, s, n).rmap = [e.rmap EXCEPT ![n] = s]
           /\ Same(Remember(e, s, n), e, {"map", "rmap"})
  BY DEF Remember, Eng, Same, Fields

(* forget(): an id goes, and its bookmark loses it if it was its.          *)
LEMMA ForgetIs ==
    ASSUME NEW e \in Eng, NEW s \in SyncId
    PROVE  /\ Forget(e, s) \in Eng
           /\ Forget(e, s).map = [e.map EXCEPT ![s] = 0]
           /\ \A n \in Node : Forget(e, s).rmap[n] = IF n = e.map[s] /\ e.rmap[n] = s THEN 0 ELSE e.rmap[n]
           /\ Same(Forget(e, s), e, {"map", "rmap"})
  BY DEF Forget, Eng, Same, Fields

(* What is held of a live id is its body.                                  *)
LEMMA HeldIs ==
    ASSUME NEW at \in Nat, NEW body \in Body
    PROVE  /\ Held(at, body) \in Item /\ Held(at, body).at = at /\ Held(at, body).live
           /\ BodyOf(Held(at, body)) = body /\ Held(at, body).url = body.url
  BY Basics DEF Held, Item, BodyOf

(* What is held of a removed id keeps its URL.                             *)
LEMMA RemovedIs ==
    ASSUME NEW at \in Nat, NEW item \in Item
    PROVE  /\ Removed(at, item) \in Item /\ Removed(at, item).at = at /\ ~Removed(at, item).live
           /\ Removed(at, item).url = item.url
  BY DEF Removed, Item

(* An item learned: the items and the index by URL.                        *)
LEMMA LearnIs ==
    ASSUME NEW e \in Eng, NEW s \in SyncId, NEW at \in Nat, NEW body \in Body
    PROVE  /\ Learn(e, s, at, body) \in Eng
           /\ Learn(e, s, at, body).items = [e.items EXCEPT ![s] = Held(at, body)]
           /\ \A u \in Url : Learn(e, s, at, body).index[u] = e.index[u] \cup IF u = body.url THEN {s} ELSE {}
           /\ Same(Learn(e, s, at, body), e, {"items", "index"})
<1>1. Held(at, body) \in Item /\ body.url \in Url
  BY HeldIs, Basics
<1> QED BY <1>1 DEF Learn, Eng, Same, Fields

(* Changing fewer fields is changing at most more.                         *)
LEMMA SameMore ==
    ASSUME NEW e, NEW r, NEW X, NEW Y, Same(r, e, X), X \subseteq Y
    PROVE  Same(r, e, Y)
  BY DEF Same

(* Stamps and bodies are in three fields only.                             *)
LEMMA EngSame ==
    ASSUME NEW e, NEW ck, EngOK(e, ck), NEW r \in Eng, Same(r, e, Fields \ {"items", "task", "wait"})
    PROVE  EngOK(r, ck)
  BY DEF EngOK, Same, Fields

(* Time passes: a tail ends, marks are taken away.                         *)
LEMMA WaitsIs ==
    ASSUME NEW e \in Eng, NEW x \in Waits(e)
    PROVE  /\ x \in Eng /\ Same(x, e, {"tail", "writing"})
           /\ Writes(e) => x = e
<1>1. \/ x = e
      \/ ~Writes(e) /\ x = [e EXCEPT !.tail = FALSE]
      \/ ~Writes(e) /\ x = [e EXCEPT !.tail = FALSE, !.writing = {}]
  BY DEF Waits
<1>2. Same(e, e, {"tail", "writing"})
  BY DEF Same
<1>3. [e EXCEPT !.tail = FALSE] \in Eng /\ Same([e EXCEPT !.tail = FALSE], e, {"tail", "writing"})
  BY DEF Eng, Same, Fields
<1>4. /\ [e EXCEPT !.tail = FALSE, !.writing = {}] \in Eng
      /\ Same([e EXCEPT !.tail = FALSE, !.writing = {}], e, {"tail", "writing"})
  BY DEF Eng, Same, Fields
<1> QED BY <1>1, <1>2, <1>3, <1>4, Zenon

(* onLocalChange() only queues.                                            *)
LEMMA LocalChangeIs ==
    ASSUME NEW e \in Eng, NEW n \in Node
    PROVE  OnLocalChange(e, n) \in Eng /\ Same(OnLocalChange(e, n), e, {"queue"})
  BY DEF OnLocalChange, Eng, Same, Fields

(* A folder that goes only asks for a sweep.                               *)
LEMMA FolderRemoveIs ==
    ASSUME NEW e \in Eng
    PROVE  OnFolderRemove(e) \in Eng /\ Same(OnFolderRemove(e), e, {"sweep"})
  BY DEF OnFolderRemove, Eng, Same, Fields

(* The ids of one URL are ids.                                             *)
LEMMA SiblingsIs ==
    ASSUME NEW e \in Eng, NEW s \in SyncId
    PROVE  WithSiblings(e, s) \subseteq SyncId
<1>1. e.items[s].url \in Url \cup {0} /\ e.index \in [Url -> SUBSET SyncId]
  BY DEF Eng, Item
<1> QED BY <1>1 DEF WithSiblings, IdsForUrl

(* The copies of a page are bookmarks of it.                               *)
LEMMA CopiesIs ==
    ASSUME NEW t \in Tree, NEW u
    PROVE  CopiesOf(t, u) \subseteq Node /\ \A n \in CopiesOf(t, u) : t[n] # None /\ t[n].url = u
  BY DEF CopiesOf, Present

(* onLocalRemove(), one disjunct per return.                               *)
LEMMA LocalRemoveIs ==
    ASSUME NEW e \in Eng, NEW t \in Tree, NEW n \in Node
    PROVE  LET r == OnLocalRemove(e, t, n)
               s == e.rmap[n]
               f == Forget(e, s) IN
           /\ r \in Eng
           /\ \/ Same(r, e, {"queue", "sweep"})
              \/ s \in SyncId /\ Same(r, e, {"queue", "tomb"}) /\ r.tomb = e.tomb \cup WithSiblings(e, s)
              \/ /\ s \in SyncId /\ ~Applying(e) /\ Same(r, e, {"queue", "map", "rmap"})
                 /\ \/ r.map = f.map /\ r.rmap = f.rmap
                    \/ \E h \in Node : /\ t[h] # None /\ t[h].url = e.items[s].url
                                       /\ r.map = [f.map EXCEPT ![s] = h]
                                       /\ r.rmap = [f.rmap EXCEPT ![h] = s]
<1> DEFINE r == OnLocalRemove(e, t, n)
           s == e.rmap[n]
           f == Forget(e, s)
           e1 == [e EXCEPT !.queue = @ \ {n}]
           u == IF s = 0 THEN 0 ELSE e.items[s].url
           survivors == IF u = 0 THEN {} ELSE CopiesOf(t, u) \ (e.writing \cup {n})
           heir == Min(survivors)
           e2 == Forget(e1, s)
           e3 == Remember(e2, s, heir)
           e4 == [e1 EXCEPT !.sweep = TRUE]
           e5 == [e1 EXCEPT !.tomb = @ \cup WithSiblings(e1, s)]
<1>1. e1 \in Eng /\ Same(e1, e, {"queue"}) /\ e1.map = e.map /\ e1.rmap = e.rmap /\ e1.items = e.items
      /\ e1.index = e.index /\ e1.tomb = e.tomb
  BY DEF Eng, Same, Fields
<1>2. s \in SyncId \cup {0}
  BY DEF Eng
<1>3. \/ r = e1
      \/ r = e4
      \/ s # 0 /\ r = e5
      \/ s # 0 /\ survivors # {} /\ ~Applying(e) /\ (r = e2 \/ r = OnLocalChange(e3, heir))
  BY DEF OnLocalRemove
<1> HIDE DEF r, e1
<1>4. CASE r = e1
  BY <1>1, <1>4, SameMore DEF r
<1>5. CASE r = e4
  <2>1. e4 \in Eng /\ Same(e4, e1, {"sweep"})
    BY <1>1 DEF Eng, Same, Fields
  <2> HIDE DEF e4
  <2>2. Same(r, e, {"queue", "sweep"})
    BY <1>1, <1>5, <2>1 DEF Same
  <2> QED BY <2>1, <2>2, <1>5 DEF r
<1>6. CASE s # 0 /\ r = e5
  <2>1. s \in SyncId
    BY <1>2, <1>6
  <2>2. WithSiblings(e1, s) = WithSiblings(e, s)
    BY <1>1 DEF WithSiblings, IdsForUrl
  <2>3. WithSiblings(e1, s) \subseteq SyncId
    BY <1>1, <2>1, SiblingsIs
  <2>4. e5 \in Eng /\ Same(e5, e1, {"tomb"}) /\ e5.tomb = e1.tomb \cup WithSiblings(e1, s)
    BY <1>1, <2>3 DEF Eng, Same, Fields
  <2> HIDE DEF e5, s
  <2>5. Same(r, e, {"queue", "tomb"}) /\ r.tomb = e.tomb \cup WithSiblings(e, s)
    BY <1>1, <1>6, <2>2, <2>4 DEF Same
  <2> QED BY <2>1, <2>4, <2>5, <1>6 DEF r, s
<1>7. CASE s # 0 /\ survivors # {} /\ ~Applying(e) /\ (r = e2 \/ r = OnLocalChange(e3, heir))
  <2>1. s \in SyncId
    BY <1>2, <1>7
  <2>2. u = e.items[s].url /\ survivors \subseteq CopiesOf(t, u)
    BY <1>7
  <2>3. heir \in survivors
    <3>1. survivors \subseteq Nat /\ survivors # {}
      BY <1>7, <2>2, CopiesIs, Basics
    <3> HIDE DEF survivors
    <3> QED BY <3>1, MinIs
  <2>4. heir \in Node /\ t[heir] # None /\ t[heir].url = e.items[s].url
    BY <2>2, <2>3, CopiesIs
  <2> HIDE DEF s, u, survivors, heir, e2, e3
  <2>5. f \in Eng /\ Same(f, e, {"map", "rmap"}) /\ f.map = [e.map EXCEPT ![s] = 0]
    BY <2>1, ForgetIs
  <2>6. e2 \in Eng /\ Same(e2, e1, {"map", "rmap"}) /\ e2.map = f.map /\ e2.rmap = f.rmap
    <3>1. e2 \in Eng /\ Same(e2, e1, {"map", "rmap"})
      BY <1>1, <2>1, ForgetIs DEF e2
    <3>2. e2.map = f.map /\ e2.rmap = f.rmap
      BY <1>1 DEF e2, f, Forget, Eng
    <3> QED BY <3>1, <3>2
  <2> HIDE DEF f
  <2>7. e3 \in Eng /\ Same(e3, e2, {"map", "rmap"})
        /\ e3.map = [f.map EXCEPT ![s] = heir] /\ e3.rmap = [f.rmap EXCEPT ![heir] = s]
    <3>1. e3 \in Eng /\ Same(e3, e2, {"map", "rmap"})
          /\ e3.map = [e2.map EXCEPT ![s] = heir] /\ e3.rmap = [e2.rmap EXCEPT ![heir] = s]
      <4>1. e2 \in Eng /\ s \in SyncId /\ heir \in Node
        BY <2>1, <2>4, <2>6
      <4>2. PICK x \in Eng, y \in SyncId, h \in Node : x = e2 /\ y = s /\ h = heir
        BY <4>1
      <4>3. LET z == Remember(x, y, h) IN
            /\ z \in Eng /\ Same(z, x, {"map", "rmap"})
            /\ z.map = [x.map EXCEPT ![y] = h] /\ z.rmap = [x.rmap EXCEPT ![h] = y]
        BY RememberIs
      <4> QED BY <4>2, <4>3 DEF e3
    <3> QED BY <2>6, <3>1
  <2>8. OnLocalChange(e3, heir) \in Eng /\ Same(OnLocalChange(e3, heir), e3, {"queue"})
    BY <2>4, <2>7, LocalChangeIs
  <2>9. r \in Eng /\ Same(r, e, {"queue", "map", "rmap"})
    BY <1>1, <1>7, <2>6, <2>7, <2>8 DEF Same
  <2>10. CASE r = e2
    BY <1>7, <2>1, <2>6, <2>9, <2>10 DEF r, s, f
  <2>11. CASE r = OnLocalChange(e3, heir)
    <3>1. r.map = e3.map /\ r.rmap = e3.rmap
      BY <2>8, <2>11 DEF Same, Fields
    <3> QED BY <1>7, <2>1, <2>4, <2>7, <2>9, <3>1 DEF r, s, f
  <2> QED BY <1>7, <2>10, <2>11
<1> QED BY <1>3, <1>4, <1>5, <1>6, <1>7

(* The bookmark a link of the plan chooses is one of its candidates.       *)
LEMMA HitIs ==
    ASSUME NEW e \in Eng, NEW t \in Tree, NEW s \in Links(e, t)
    PROVE  Hit(e, t, s) \in Candidates(e, t, s) /\ Hit(e, t, s) \in Node
<1> DEFINE exact == {n \in Candidates(e, t, s) : t[n] = BodyOf(e.items[s])}
           S == IF exact # {} THEN exact ELSE Candidates(e, t, s)
<1>1. Candidates(e, t, s) \subseteq Node
  BY CopiesIs DEF Candidates
<1>2. S \subseteq Candidates(e, t, s) /\ S # {}
  BY DEF Links
<1>3. Hit(e, t, s) = Min(S)
  BY DEF Hit
<1> HIDE DEF S
<1>4. Min(S) \in S
  BY <1>1, <1>2, MinIs, Basics
<1> QED BY <1>1, <1>2, <1>3, <1>4

(* The links remembered, the losing ids forgotten.                         *)
LEMMA PairedIs ==
    ASSUME NEW e \in Eng, NEW t \in Tree
    PROVE  LET r == Paired(e, t) IN
           /\ r \in Eng /\ Same(r, e, {"map", "rmap"})
           /\ \A s \in SyncId : r.map[s] \in {0, e.map[s]} \/ (s \in Links(e, t) /\ r.map[s] = Hit(e, t, s))
           /\ \A n \in Node : \/ r.rmap[n] \in {0, e.rmap[n]}
                              \/ \E s \in Links(e, t) : r.rmap[n] = s /\ n = Hit(e, t, s)
<1> DEFINE linked == {<<s, Hit(e, t, s)>> : s \in Links(e, t)}
           m == [s \in SyncId |-> IF s \in Links(e, t) THEN Hit(e, t, s)
                                   ELSE IF s \in Losers(e) THEN 0 ELSE e.map[s]]
           q == [n \in Node |->
                     IF \E s \in Links(e, t) : <<s, n>> \in linked
                     THEN CHOOSE s \in Links(e, t) : <<s, n>> \in linked
                     ELSE IF e.rmap[n] \in Losers(e) /\ e.map[e.rmap[n]] = n THEN 0 ELSE e.rmap[n]]
<1>0. Links(e, t) \subseteq SyncId
  BY DEF Links, Unpaired, Live
<1>1. Paired(e, t) = [e EXCEPT !.map = m, !.rmap = q]
  BY DEF Paired
<1>2. \A s \in SyncId : m[s] \in {0, e.map[s]} \/ (s \in Links(e, t) /\ m[s] = Hit(e, t, s))
  OBVIOUS
<1>3. m \in [SyncId -> Node \cup {0}]
  BY HitIs DEF Eng
<1>4. ASSUME NEW n \in Node
      PROVE  \/ q[n] \in {0, e.rmap[n]}
             \/ \E s \in Links(e, t) : q[n] = s /\ n = Hit(e, t, s)
  <2>1. CASE \E s \in Links(e, t) : <<s, n>> \in linked
    <3> DEFINE c == CHOOSE s \in Links(e, t) : <<s, n>> \in linked
    <3>1. c \in Links(e, t) /\ <<c, n>> \in linked
      BY <2>1
    <3>2. q[n] = c
      BY <2>1
    <3> HIDE DEF c, q
    <3>3. PICK s \in Links(e, t) : <<c, n>> = <<s, Hit(e, t, s)>>
      BY <3>1
    <3> QED BY <3>2, <3>3
  <2>2. CASE ~\E s \in Links(e, t) : <<s, n>> \in linked
    BY <2>2
  <2> QED BY <2>1, <2>2
<1>5. q \in [Node -> SyncId \cup {0}]
  <2>1. \A n \in Node : e.rmap[n] \in SyncId \cup {0}
    BY DEF Eng
  <2>2. q = [n \in Node |-> q[n]]
    OBVIOUS
  <2> HIDE DEF q
  <2>3. \A n \in Node : q[n] \in SyncId \cup {0}
    BY <1>0, <1>4, <2>1
  <2> QED BY <2>2, <2>3
<1> HIDE DEF m, q
<1>6. /\ [e EXCEPT !.map = m, !.rmap = q] \in Eng /\ Same([e EXCEPT !.map = m, !.rmap = q], e, {"map", "rmap"})
      /\ [e EXCEPT !.map = m, !.rmap = q].map = m /\ [e EXCEPT !.map = m, !.rmap = q].rmap = q
  BY <1>3, <1>5 DEF Eng, Same, Fields
<1> QED BY <1>1, <1>2, <1>4, <1>6

(* The other lists of the plan.                                            *)
LEMMA PlanIs ==
    ASSUME NEW e, NEW ck, EngOK(e, ck), NEW t \in Tree
    PROVE  /\ Vanished(e, t) \subseteq SyncId /\ Cardinality(Vanished(e, t)) \in Count
           /\ Creates(e, t) \subseteq Creation /\ Publishes(e, t) \subseteq Outgoing
<1>1. Vanished(e, t) \subseteq SyncId
  BY DEF Vanished, Mapped
<1>2. Cardinality(Vanished(e, t)) \in Count
  BY <1>1 DEF Count
<1>3. Creates(e, t) \subseteq Creation
  BY DEF Creates, Unpaired, Live, Creation, EngOK, ItemsOK
<1>4. Publishes(e, t) \subseteq Outgoing
  BY DEF Publishes, Present, Outgoing, Tree
<1> QED BY <1>1, <1>2, <1>3, <1>4

-----------------------------------------------------------------------------
(* The same for a step that leaves the relay alone.                        *)
LEMMA StepQuiet ==
    ASSUME Typed, NEW b \in Browser, NEW e1, eng' = [eng EXCEPT ![b] = e1], EngOK(e1, clock),
           UNCHANGED <<relay, clock>>, KeptOK(kept', clock),
           tree' \in [Browser -> Tree], awake' \in [Browser -> BOOLEAN], left' \in Nat
    PROVE  Typed'
<1>1. clock' \in [SyncId -> Nat] /\ \A s \in SyncId : clock[s] <= clock'[s]
  BY DEF Typed
<1>2. EngOK(e1, clock') /\ RelayOK(relay', clock') /\ KeptOK(kept', clock')
  BY DEF Typed
<1> QED BY <1>1, <1>2, StepTyped

(* What Typed says of one browser.                                         *)
LEMMA TypedAt ==
    ASSUME Typed, NEW b \in Browser
    PROVE  /\ eng[b] \in Eng /\ EngOK(eng[b], clock) /\ tree[b] \in Tree /\ awake[b] \in BOOLEAN
           /\ eng[b].items \in [SyncId -> Item] /\ ItemsOK(eng[b].items, clock)
           /\ clock \in [SyncId -> Nat] /\ left \in Nat
           /\ \A s \in SyncId : relay[s] \in Event /\ relay[s].at <= clock[s]
  BY DEF Typed, EngOK, ItemsOK, RelayOK

(* An event is spent.                                                      *)
LEMMA SpendTyped ==
    ASSUME Typed, Spend
    PROVE  left' \in Nat /\ left' # left
  BY DEF Typed, Spend

(* What an engine is before it hears of a change.                          *)
LEMMA HeardTyped ==
    ASSUME Typed, NEW b \in Browser, NEW x \in Waits(eng[b]), NEW P,
           kept' = IF P THEN [kept EXCEPT ![b] = x.items] ELSE kept
    PROVE  /\ x \in Eng /\ EngOK(x, clock) /\ Same(x, eng[b], {"tail", "writing"})
           /\ KeptOK(kept', clock)
<1>1. x \in Eng /\ Same(x, eng[b], {"tail", "writing"})
  BY TypedAt, WaitsIs
<1>2. EngOK(x, clock)
  <2>1. Same(x, eng[b], Fields \ {"items", "task", "wait"})
    BY <1>1, SameMore DEF Fields
  <2> QED BY <1>1, <2>1, TypedAt, EngSame
<1>3. ItemsOK(x.items, clock)
  BY <1>2 DEF EngOK
<1>4. kept' = kept \/ kept' = [kept EXCEPT ![b] = x.items]
  OBVIOUS
<1>5. KeptOK(kept', clock)
  <2>1. x.items \in [SyncId -> Item]
    BY <1>3 DEF ItemsOK
  <2> QED BY <1>3, <1>4, <2>1 DEF Typed, KeptOK
<1> QED BY <1>1, <1>2, <1>5

(* A user changes the tree and the engine hears of it.                     *)
LEMMA UserTyped ==
    ASSUME Typed, NEW b \in Browser, NEW x \in Waits(eng[b]), NEW P, NEW h,
           kept' = IF P THEN [kept EXCEPT ![b] = x.items] ELSE kept,
           eng' = [eng EXCEPT ![b] = IF awake[b] THEN h ELSE @],
           h \in Eng, Same(h, x, Fields \ {"items", "task", "wait"}),
           UNCHANGED <<relay, clock, awake>>, Spend, NEW t \in Tree, tree' = [tree EXCEPT ![b] = t]
    PROVE  Typed'
<1>1. EngOK(x, clock) /\ KeptOK(kept', clock)
  BY HeardTyped
<1>2. EngOK(h, clock)
  BY <1>1, EngSame
<1> DEFINE e1 == IF awake[b] THEN h ELSE eng[b]
<1>3. eng' = [eng EXCEPT ![b] = e1]
  BY DEF Typed
<1>4. EngOK(e1, clock)
  BY <1>2, TypedAt
<1>5. tree' \in [Browser -> Tree] /\ awake' \in [Browser -> BOOLEAN] /\ left' \in Nat
  BY SpendTyped DEF Typed
<1> HIDE DEF e1
<1> QED BY <1>1, <1>3, <1>4, <1>5, StepQuiet

(* One lemma per action: Typed is kept.                                    *)
LEMMA UserAddTyped ==
    ASSUME Typed, NEW b \in Browser, NEW u \in Url, NEW t \in Text, UserAdd(b, u, t)
    PROVE  Typed'
<1> DEFINE n == Min(Unused(b))
           body == [url |-> u, text |-> t]
<1>1. n \in Unused(b) /\ n \in Node
  <2>1. Unused(b) \subseteq Node /\ Unused(b) # {}
    BY DEF Unused, UserAdd
  <2> QED BY <2>1, MinIs, Basics
<1>2. Spend /\ UNCHANGED <<relay, clock, awake>> /\ tree' = [tree EXCEPT ![b][n] = body]
  BY DEF UserAdd
<1>3. PICK x \in Waits(eng[b]) :
         /\ eng' = [eng EXCEPT ![b] = IF awake[b] THEN OnLocalChange(x, n) ELSE @]
         /\ kept' = IF awake[b] /\ ~Applying(x) /\ x.writing = {}
                    THEN [kept EXCEPT ![b] = x.items] ELSE kept
  BY DEF UserAdd, Hears
<1> HIDE DEF n
<1>4. x \in Eng
  BY <1>3, TypedAt, WaitsIs
<1>5. OnLocalChange(x, n) \in Eng /\ Same(OnLocalChange(x, n), x, Fields \ {"items", "task", "wait"})
  <2>1. OnLocalChange(x, n) \in Eng /\ Same(OnLocalChange(x, n), x, {"queue"})
    BY <1>1, <1>4, LocalChangeIs
  <2>2. {"queue"} \subseteq Fields \ {"items", "task", "wait"}
    BY DEF Fields
  <2> QED BY <2>1, <2>2, SameMore
<1>6. [tree[b] EXCEPT ![n] = body] \in Tree
  BY <1>1, TypedAt DEF Tree, Body
<1>7. tree' = [tree EXCEPT ![b] = [tree[b] EXCEPT ![n] = body]]
  BY <1>2
<1> QED BY <1>2, <1>3, <1>5, <1>6, <1>7, UserTyped

LEMMA UserEditTyped ==
    ASSUME Typed, NEW b \in Browser, NEW n \in Node, NEW body \in Body, UserEdit(b, n, body)
    PROVE  Typed'
<1>2. Spend /\ UNCHANGED <<relay, clock, awake>> /\ tree' = [tree EXCEPT ![b][n] = body]
  BY DEF UserEdit, Spent
<1>3. PICK x \in Waits(eng[b]) :
         /\ eng' = [eng EXCEPT ![b] = IF awake[b] THEN OnLocalChange(x, n) ELSE @]
         /\ kept' = IF awake[b] /\ ~Applying(x) /\ x.writing = {}
                    THEN [kept EXCEPT ![b] = x.items] ELSE kept
  BY DEF UserEdit, Hears
<1>4. x \in Eng
  BY <1>3, TypedAt, WaitsIs
<1>5. OnLocalChange(x, n) \in Eng /\ Same(OnLocalChange(x, n), x, Fields \ {"items", "task", "wait"})
  <2>1. OnLocalChange(x, n) \in Eng /\ Same(OnLocalChange(x, n), x, {"queue"})
    BY <1>4, LocalChangeIs
  <2>2. {"queue"} \subseteq Fields \ {"items", "task", "wait"}
    BY DEF Fields
  <2> QED BY <2>1, <2>2, SameMore
<1>6. [tree[b] EXCEPT ![n] = body] \in Tree
  BY TypedAt DEF Tree
<1>7. tree' = [tree EXCEPT ![b] = [tree[b] EXCEPT ![n] = body]]
  BY <1>2
<1> QED BY <1>2, <1>3, <1>5, <1>6, <1>7, UserTyped

LEMMA UserDeleteTyped ==
    ASSUME Typed, NEW b \in Browser, NEW n \in Node, UserDelete(b, n)
    PROVE  Typed'
<1> DEFINE t == [tree[b] EXCEPT ![n] = None]
<1>1. t \in Tree
  BY TypedAt DEF Tree
<1>2. Spend /\ UNCHANGED <<relay, clock, awake>> /\ tree' = [tree EXCEPT ![b] = t]
  BY DEF UserDelete, Deleted
<1>3. PICK x \in Waits(eng[b]) :
         /\ eng' = [eng EXCEPT ![b] = IF awake[b] THEN [OnLocalRemove(x, t, n) EXCEPT !.writing = @ \ {n}] ELSE @]
         /\ kept' = IF awake[b] /\ ~Applying(x) /\ x.writing = {}
                    THEN [kept EXCEPT ![b] = x.items] ELSE kept
  BY DEF UserDelete, Hears
<1> HIDE DEF t
<1> DEFINE r == OnLocalRemove(x, t, n)
           h == [r EXCEPT !.writing = @ \ {n}]
<1>4. x \in Eng
  BY <1>3, TypedAt, WaitsIs
<1>5. r \in Eng /\ Same(r, x, Fields \ {"items", "task", "wait"})
  BY <1>1, <1>4, LocalRemoveIs DEF Same, Fields
<1> HIDE DEF r
<1>6. h \in Eng /\ Same(h, r, {"writing"})
  BY <1>5 DEF Eng, Same, Fields
<1>7. eng' = [eng EXCEPT ![b] = IF awake[b] THEN h ELSE @]
  BY <1>3 DEF r
<1> HIDE DEF h
<1>8. Same(h, x, Fields \ {"items", "task", "wait"})
  BY <1>5, <1>6 DEF Same, Fields
<1> QED BY <1>1, <1>2, <1>3, <1>6, <1>7, <1>8, UserTyped

LEMMA UserDeleteFolderTyped ==
    ASSUME Typed, NEW b \in Browser, NEW inside \in SUBSET Node, UserDeleteFolder(b, inside)
    PROVE  Typed'
<1> DEFINE t == [n \in Node |-> IF n \in inside THEN None ELSE tree[b][n]]
<1>1. t \in Tree
  BY TypedAt DEF Tree
<1>2. Spend /\ UNCHANGED <<relay, clock, awake>> /\ tree' = [tree EXCEPT ![b] = t]
  BY DEF UserDeleteFolder, Deleted
<1>3. PICK x \in Waits(eng[b]) :
         /\ eng' = [eng EXCEPT ![b] = IF awake[b] THEN [OnFolderRemove(x) EXCEPT !.writing = @ \ inside] ELSE @]
         /\ kept' = IF awake[b] /\ ~Applying(x) /\ x.writing = {}
                    THEN [kept EXCEPT ![b] = x.items] ELSE kept
  BY DEF UserDeleteFolder, Hears
<1> HIDE DEF t
<1> DEFINE r == OnFolderRemove(x)
           h == [r EXCEPT !.writing = @ \ inside]
<1>4. x \in Eng
  BY <1>3, TypedAt, WaitsIs
<1>5. r \in Eng /\ Same(r, x, {"sweep"})
  BY <1>4, FolderRemoveIs
<1> HIDE DEF r
<1>6. h \in Eng /\ Same(h, r, {"writing"})
  BY <1>5 DEF Eng, Same, Fields
<1>7. eng' = [eng EXCEPT ![b] = IF awake[b] THEN h ELSE @]
  BY <1>3 DEF r
<1> HIDE DEF h
<1>8. Same(h, x, Fields \ {"items", "task", "wait"})
  BY <1>5, <1>6 DEF Same, Fields
<1> QED BY <1>1, <1>2, <1>3, <1>6, <1>7, <1>8, UserTyped

LEMMA SwitchTyped ==
    ASSUME Typed, NEW b \in Browser, NEW on \in BOOLEAN, Switch(b, on)
    PROVE  Typed'
<1> DEFINE e1 == [eng[b] EXCEPT !.on = on, !.pending = IF on THEN @ ELSE 0]
<1>1. /\ eng' = [eng EXCEPT ![b] = e1]
      /\ UNCHANGED <<relay, clock, tree, kept, awake>> /\ Spend
  BY DEF Switch, Spent, Typed
<1>2. e1 \in Eng /\ Same(e1, eng[b], {"on", "pending"})
  <2>1. PICK e \in Eng : e = eng[b]
    BY TypedAt
  <2>2. (IF on THEN e.pending ELSE 0) \in Count
    BY DEF Count, Eng
  <2> QED BY <2>1, <2>2 DEF Eng, Same, Fields
<1> HIDE DEF e1
<1>3. EngOK(e1, clock)
  <2>1. Same(e1, eng[b], Fields \ {"items", "task", "wait"})
    BY <1>2 DEF Same, Fields
  <2> QED BY <1>2, <2>1, TypedAt, EngSame
<1>4. KeptOK(kept', clock) /\ tree' \in [Browser -> Tree] /\ awake' \in [Browser -> BOOLEAN]
  BY <1>1 DEF Typed
<1> QED BY <1>1, <1>3, <1>4, SpendTyped, StepQuiet

(* init() from what was stored.                                            *)
LEMMA StartedIs ==
    ASSUME NEW on \in BOOLEAN, NEW m \in [SyncId -> Node \cup {0}], NEW r \in [Node -> SyncId \cup {0}],
           NEW i, NEW ck \in [SyncId -> Nat], ItemsOK(i, ck), NEW p \in Count
    PROVE  LET x == Started(on, m, r, i, p) IN
           /\ EngOK(x, ck) /\ x.on = on /\ x.map = m /\ x.rmap = r /\ x.items = i
           /\ x.index = [u \in Url |-> {s \in SyncId : i[s].url = u}]
           /\ x.tomb = {} /\ x.remove = {} /\ x.create = {}
           /\ \A c \in Chain : x.task[c] = Idle
           /\ \A w \in Sender : x.out[w] = {} /\ x.wait[w] = NoWait
<1> DEFINE x == Started(on, m, r, i, p)
<1>1. /\ x.on = on /\ x.map = m /\ x.rmap = r /\ x.items = i
      /\ x.index = [u \in Url |-> {s \in SyncId : i[s].url = u}]
      /\ x.tomb = {} /\ x.remove = {} /\ x.create = {}
      /\ x.task = [c \in Chain |-> Idle] /\ x.out = [w \in Sender |-> {}] /\ x.wait = [w \in Sender |-> NoWait]
  BY DEF Started
<1>2. Idle \in Task /\ NoWait \in Wait /\ Idle.step = "idle"
  BY DEF Idle, NoWait, Task, Wait
<1>3. i \in [SyncId -> Item]
  BY DEF ItemsOK
<1>4. x \in Eng
  BY <1>2, <1>3 DEF Started, Eng
<1> HIDE DEF x
<1>5. \A c \in Chain : x.task[c] = Idle
  BY <1>1
<1>6. \A w \in Sender : x.out[w] = {} /\ x.wait[w] = NoWait
  BY <1>1
<1>7. EngOK(x, ck)
  BY <1>1, <1>2, <1>4, <1>5, <1>6 DEF EngOK, TaskOK, WaitOK
<1> QED BY <1>1, <1>5, <1>6, <1>7 DEF x

(* A worker stopped: which items are found when it starts again.           *)
LEMMA KillIs ==
    ASSUME Typed, NEW b \in Browser, Kill(b)
    PROVE  \E r \in Reverses(eng[b].map), i \in {kept[b], eng[b].items} :
             /\ ItemsOK(i, clock)
             /\ eng' = [eng EXCEPT ![b] = Started(eng[b].on, eng[b].map, r, i, eng[b].pending)]
             /\ kept' = [kept EXCEPT ![b] = i]
             /\ EngOK(Started(eng[b].on, eng[b].map, r, i, eng[b].pending), clock)
             /\ r \in [Node -> SyncId \cup {0}] /\ eng[b].map \in [SyncId -> Node \cup {0}]
             /\ eng[b].on \in BOOLEAN /\ eng[b].pending \in Count
<1>1. PICK r \in Reverses(eng[b].map),
          i \in {kept[b]} \cup IF Writes(eng[b]) /\ "tree" \notin Slow THEN {} ELSE {eng[b].items} :
         /\ eng' = [eng EXCEPT ![b] = Started(@.on, @.map, r, i, @.pending)]
         /\ kept' = [kept EXCEPT ![b] = i]
  BY DEF Kill
<1>2. i \in {kept[b], eng[b].items} /\ ItemsOK(i, clock)
  BY <1>1, TypedAt DEF Typed, KeptOK
<1>3. r \in [Node -> SyncId \cup {0}]
  BY <1>1 DEF Reverses
<1>4. eng[b].on \in BOOLEAN /\ eng[b].map \in [SyncId -> Node \cup {0}] /\ eng[b].pending \in Count
      /\ clock \in [SyncId -> Nat]
  BY TypedAt DEF Eng
<1>5. EngOK(Started(eng[b].on, eng[b].map, r, i, eng[b].pending), clock)
  <2>1. PICK on \in BOOLEAN, m \in [SyncId -> Node \cup {0}], p \in Count :
           on = eng[b].on /\ m = eng[b].map /\ p = eng[b].pending
    BY <1>4
  <2>2. EngOK(Started(on, m, r, i, p), clock)
    BY <1>2, <1>3, <1>4, StartedIs
  <2> QED BY <2>1, <2>2
<1>6. eng' = [eng EXCEPT ![b] = Started(eng[b].on, eng[b].map, r, i, eng[b].pending)]
  BY <1>1
<1> QED BY <1>1, <1>2, <1>3, <1>4, <1>5, <1>6

LEMMA KillTyped ==
    ASSUME Typed, NEW b \in Browser, Kill(b)
    PROVE  Typed'
<1>1. PICK r \in Reverses(eng[b].map), i \in {kept[b], eng[b].items} :
             /\ ItemsOK(i, clock)
             /\ eng' = [eng EXCEPT ![b] = Started(eng[b].on, eng[b].map, r, i, eng[b].pending)]
             /\ kept' = [kept EXCEPT ![b] = i]
             /\ EngOK(Started(eng[b].on, eng[b].map, r, i, eng[b].pending), clock)
  BY KillIs
<1> DEFINE e1 == Started(eng[b].on, eng[b].map, r, i, eng[b].pending)
<1>2. UNCHANGED <<relay, clock, tree>> /\ Spend /\ awake' = [awake EXCEPT ![b] = FALSE]
  BY DEF Kill, Spent
<1>3. KeptOK(kept', clock)
  <2>1. i \in [SyncId -> Item]
    BY <1>1 DEF ItemsOK
  <2> QED BY <1>1, <2>1 DEF Typed, KeptOK
<1>4. tree' \in [Browser -> Tree] /\ awake' \in [Browser -> BOOLEAN]
  BY <1>2 DEF Typed
<1>5. EngOK(e1, clock) /\ eng' = [eng EXCEPT ![b] = e1]
  BY <1>1
<1> HIDE DEF e1
<1> QED BY <1>2, <1>3, <1>4, <1>5, SpendTyped, StepQuiet

LEMMA WakeTyped ==
    ASSUME Typed, NEW b \in Browser, Wake(b)
    PROVE  Typed'
<1>1. UNCHANGED <<relay, clock, tree, eng, kept, left>> /\ awake' \in [Browser -> BOOLEAN]
  BY DEF Wake, Typed
<1> QED BY <1>1 DEF Typed

(* A step that changes one engine and leaves the rest, or saves.           *)
LEMMA LocalTyped ==
    ASSUME Typed, NEW b \in Browser, NEW e1, EngOK(e1, clock), Becomes(b, e1),
           UNCHANGED <<relay, clock, awake, left>>, kept' = kept \/ SaveSoon(b),
           tree' = tree \/ \E n \in Node, x \in Body \cup {None} : tree' = [tree EXCEPT ![b][n] = x]
    PROVE  Typed'
<1>1. KeptOK(kept', clock)
  <2>1. CASE kept' = kept
    BY <2>1 DEF Typed
  <2>2. CASE SaveSoon(b)
    BY <2>2, SaveTyped DEF Typed
  <2> QED BY <2>1, <2>2
<1>2. tree' \in [Browser -> Tree]
  <2>1. CASE tree' = tree
    BY <2>1 DEF Typed
  <2>2. ASSUME NEW n \in Node, NEW x \in Body \cup {None}, tree' = [tree EXCEPT ![b][n] = x]
        PROVE  tree' \in [Browser -> Tree]
    <3>1. [tree[b] EXCEPT ![n] = x] \in Tree
      BY TypedAt DEF Tree
    <3> QED BY <2>2, <3>1 DEF Typed
  <2> QED BY <2>1, <2>2
<1> QED BY <1>1, <1>2, StepQuiet DEF Becomes, Typed

(* A chain gets another task.                                              *)
LEMMA TaskStep ==
    ASSUME NEW e, NEW ck, EngOK(e, ck), NEW r \in Eng, NEW c \in Chain, NEW k,
           Same(r, e, Fields \ {"items", "wait"}), r.task = [e.task EXCEPT ![c] = k], TaskOK(k, ck)
    PROVE  EngOK(r, ck)
<1>1. r.items = e.items /\ r.wait = e.wait
  BY DEF Same, Fields
<1>2. ASSUME NEW d \in Chain PROVE TaskOK(r.task[d], ck)
  BY DEF EngOK, Eng
<1> QED BY <1>1, <1>2 DEF EngOK

LEMMA ReceiveTyped ==
    ASSUME Typed, NEW b \in Browser, NEW s \in SyncId, Receive(b, s)
    PROVE  Typed'
<1> DEFINE e == eng[b]
           ev == relay[s]
           gone1 == Removed(ev.at, e.items[s])
           dead == [e EXCEPT !.items[s] = gone1]
           k1 == [step |-> "open", id |-> s, at |-> ev.at, body |-> ev.body]
           k2 == [step |-> "remove", id |-> s, at |-> ev.at, body |-> None]
           r1 == [e EXCEPT !.task["absorb"] = k1]
           r2 == [dead EXCEPT !.task["absorb"] = k2]
<1>1. e \in Eng /\ EngOK(e, clock) /\ ev \in Event /\ ev.at <= clock[s] /\ e.items[s] \in Item
      /\ ev.at \in Nat /\ "absorb" \in Chain
  BY TypedAt DEF Event, Chain
<1>2. UNCHANGED <<relay, clock, tree, awake, left>> /\ (kept' = kept \/ SaveSoon(b))
  BY DEF Receive
<1>3. gone1 \in Item /\ gone1.at = ev.at /\ ~gone1.live
  BY <1>1, RemovedIs
<1>4. \/ ev.body # None /\ Becomes(b, r1)
      \/ Becomes(b, r2) \/ Becomes(b, dead)
  BY DEF Receive
<1> HIDE DEF e, gone1
<1>5. dead \in Eng /\ EngOK(dead, clock)
  <2>1. dead \in Eng /\ dead.items = [e.items EXCEPT ![s] = gone1] /\ Same(dead, e, {"items"})
    BY <1>1, <1>3 DEF Eng, Same, Fields
  <2> HIDE DEF dead
  <2>2. ItemsOK(dead.items, clock)
    <3>1. e.items \in [SyncId -> Item] /\ ItemsOK(e.items, clock)
      BY <1>1 DEF EngOK, Eng
    <3> QED BY <1>1, <1>3, <2>1, <3>1 DEF ItemsOK
  <2>3. dead.task = e.task /\ dead.wait = e.wait
    BY <2>1 DEF Same, Fields
  <2> QED BY <1>1, <2>1, <2>2, <2>3 DEF EngOK
<1>6. CASE ev.body # None /\ Becomes(b, r1)
  <2>1. k1 \in Task /\ TaskOK(k1, clock)
    BY <1>1, <1>6 DEF Task, TaskOK, Event
  <2>2. r1 \in Eng /\ Same(r1, e, {"task"}) /\ r1.task = [e.task EXCEPT !["absorb"] = k1]
    BY <1>1, <2>1 DEF Eng, Same, Fields
  <2> HIDE DEF r1, k1
  <2>3. EngOK(r1, clock)
    BY <1>1, <2>1, <2>2, TaskStep, SameMore DEF Fields
  <2> QED BY <1>2, <1>6, <2>3, LocalTyped
<1>7. CASE Becomes(b, r2)
  <2>1. k2 \in Task /\ TaskOK(k2, clock)
    BY <1>1 DEF Task, TaskOK
  <2> HIDE DEF dead
  <2>2. r2 \in Eng /\ Same(r2, dead, {"task"}) /\ r2.task = [dead.task EXCEPT !["absorb"] = k2]
    BY <1>1, <1>5, <2>1 DEF Eng, Same, Fields
  <2> HIDE DEF r2, k2
  <2>3. EngOK(r2, clock)
    BY <1>1, <1>5, <2>1, <2>2, TaskStep, SameMore DEF Fields
  <2> QED BY <1>2, <1>7, <2>3, LocalTyped
<1>8. CASE Becomes(b, dead)
  <2> HIDE DEF dead
  <2> QED BY <1>2, <1>5, <1>8, LocalTyped
<1> QED BY <1>4, <1>6, <1>7, <1>8

(* A chain is done.                                                        *)
LEMMA FinishedIs ==
    ASSUME NEW e \in Eng, NEW c \in Chain
    PROVE  /\ Finished(e, c) \in Eng /\ Same(Finished(e, c), e, {"task", "tail"})
           /\ Finished(e, c).task = [e.task EXCEPT ![c] = Idle]
<1>1. Idle \in Task
  BY DEF Idle, Task
<1> QED BY <1>1 DEF Finished, Eng, Same, Fields

(* A chain that is done has no stamp.                                      *)
LEMMA FinishedOK ==
    ASSUME NEW e, NEW ck, EngOK(e, ck), NEW c \in Chain
    PROVE  EngOK(Finished(e, c), ck)
<1>1. e \in Eng
  BY DEF EngOK
<1>2. /\ Finished(e, c) \in Eng /\ Same(Finished(e, c), e, Fields \ {"items", "wait"})
      /\ Finished(e, c).task = [e.task EXCEPT ![c] = Idle]
  BY <1>1, FinishedIs DEF Same, Fields
<1>3. TaskOK(Idle, ck)
  BY DEF Idle, TaskOK
<1> QED BY <1>2, <1>3, TaskStep

LEMMA OpenedTyped ==
    ASSUME Typed, NEW b \in Browser, Opened(b)
    PROVE  Typed'
<1> DEFINE e == eng[b]
           k == e.task["absorb"]
           e1 == Learn(e, k.id, k.at, k.body)
           k1 == IF e.on THEN [k EXCEPT !.step = "look"] ELSE Idle
           r == [e1 EXCEPT !.task["absorb"] = k1]
<1>1. UNCHANGED <<relay, clock, tree, awake, left>> /\ SaveSoon(b) /\ Becomes(b, r) /\ k.step = "open"
  BY DEF Opened
<1>2. e \in Eng /\ EngOK(e, clock) /\ "absorb" \in Chain /\ clock \in [SyncId -> Nat]
  BY TypedAt DEF Chain
<1> HIDE DEF e
<1>3. k \in Task /\ TaskOK(k, clock)
  BY <1>2 DEF EngOK, Eng
<1>4. k.id \in SyncId /\ k.at \in Nat /\ k.body \in Body /\ k.at <= clock[k.id]
  BY <1>1, <1>3 DEF TaskOK, Task
<1> HIDE DEF k
<1>5. /\ e1 \in Eng /\ e1.items = [e.items EXCEPT ![k.id] = Held(k.at, k.body)]
      /\ Same(e1, e, {"items", "index"})
  <2>1. PICK x \in Eng, s \in SyncId, at \in Nat, body \in Body :
           x = e /\ s = k.id /\ at = k.at /\ body = k.body
    BY <1>2, <1>4
  <2>2. LET z == Learn(x, s, at, body) IN
        /\ z \in Eng /\ z.items = [x.items EXCEPT ![s] = Held(at, body)] /\ Same(z, x, {"items", "index"})
    BY LearnIs
  <2> QED BY <2>1, <2>2
<1>6. Held(k.at, k.body) \in Item /\ Held(k.at, k.body).at = k.at /\ BodyOf(Held(k.at, k.body)) = k.body
  BY <1>4, HeldIs
<1> HIDE DEF e1
<1>7. EngOK(e1, clock)
  <2>1. ItemsOK(e1.items, clock)
    <3>1. e.items \in [SyncId -> Item] /\ ItemsOK(e.items, clock)
      BY <1>2 DEF EngOK, Eng
    <3> QED BY <1>4, <1>5, <1>6, <3>1 DEF ItemsOK
  <2>2. e1.task = e.task /\ e1.wait = e.wait
    BY <1>5 DEF Same, Fields
  <2> QED BY <1>2, <1>5, <2>1, <2>2 DEF EngOK
<1>8. k1 \in Task /\ TaskOK(k1, clock)
  BY <1>3, <1>4 DEF Task, TaskOK, Idle
<1> HIDE DEF k1
<1>9. r \in Eng /\ Same(r, e1, {"task"}) /\ r.task = [e1.task EXCEPT !["absorb"] = k1]
  BY <1>2, <1>5, <1>8 DEF Eng, Same, Fields
<1> HIDE DEF r
<1>10. EngOK(r, clock)
  BY <1>2, <1>7, <1>8, <1>9, TaskStep, SameMore DEF Fields
<1> QED BY <1>1, <1>10, LocalTyped

(* An id is mapped to a bookmark or to none.                               *)
LEMMA NodeOf ==
    ASSUME NEW e \in Eng, NEW s \in SyncId
    PROVE  e.map[s] \in Node \cup {0}
  BY DEF Eng

(* Forgetting touches no stamp.                                            *)
LEMMA ForgetOK ==
    ASSUME NEW e, NEW ck, EngOK(e, ck), NEW s \in SyncId
    PROVE  EngOK(Forget(e, s), ck)
<1>1. e \in Eng
  BY DEF EngOK
<1>2. Forget(e, s) \in Eng /\ Same(Forget(e, s), e, Fields \ {"items", "task", "wait"})
  <2>1. Forget(e, s) \in Eng /\ Same(Forget(e, s), e, {"map", "rmap"})
    BY <1>1, ForgetIs
  <2>2. {"map", "rmap"} \subseteq Fields \ {"items", "task", "wait"}
    BY DEF Fields
  <2> QED BY <2>1, <2>2, SameMore
<1> QED BY <1>2, EngSame

(* Neither does remembering.                                               *)
LEMMA RememberOK ==
    ASSUME NEW e, NEW ck, EngOK(e, ck), NEW s \in SyncId, NEW n \in Node
    PROVE  EngOK(Remember(e, s, n), ck)
<1>1. e \in Eng
  BY DEF EngOK
<1>2. Remember(e, s, n) \in Eng /\ Same(Remember(e, s, n), e, Fields \ {"items", "task", "wait"})
  <2>1. Remember(e, s, n) \in Eng /\ Same(Remember(e, s, n), e, {"map", "rmap"})
    BY <1>1, RememberIs
  <2>2. {"map", "rmap"} \subseteq Fields \ {"items", "task", "wait"}
    BY DEF Fields
  <2> QED BY <2>1, <2>2, SameMore
<1> QED BY <1>2, EngSame

(* Neither does marking a bookmark.                                        *)
LEMMA WritingOK ==
    ASSUME NEW e, NEW ck, EngOK(e, ck), NEW S \in SUBSET Node
    PROVE  /\ EngOK([e EXCEPT !.writing = S], ck)
           /\ Same([e EXCEPT !.writing = S], e, {"writing"})
<1>1. e \in Eng
  BY DEF EngOK
<1>2. [e EXCEPT !.writing = S] \in Eng /\ Same([e EXCEPT !.writing = S], e, {"writing"})
  BY <1>1 DEF Eng, Same, Fields
<1>3. Same([e EXCEPT !.writing = S], e, Fields \ {"items", "task", "wait"})
  BY <1>2 DEF Same, Fields
<1> QED BY <1>2, <1>3, EngSame

LEMMA ApplyRemovalTyped ==
    ASSUME Typed, NEW b \in Browser, ApplyRemoval(b)
    PROVE  Typed'
<1> DEFINE e == eng[b]
           s == e.task["absorb"].id
           n == e.map[s]
           e1 == IF n = 0 THEN e ELSE Forget(e, s)
           same == n # 0 /\ tree[b][n] # None /\ tree[b][n].url = e.items[s].url
           W == IF same THEN e1.writing \ {n} ELSE e1.writing
           r == Finished([e1 EXCEPT !.writing = W], "absorb")
<1>1. /\ UNCHANGED <<relay, clock, kept, awake, left>> /\ Becomes(b, r) /\ e.task["absorb"].step = "remove"
      /\ tree' = IF same THEN [tree EXCEPT ![b][n] = None] ELSE tree
  BY DEF ApplyRemoval
<1>2. e \in Eng /\ EngOK(e, clock) /\ "absorb" \in Chain
  BY TypedAt DEF Chain
<1> HIDE DEF e
<1>3. s \in SyncId
  BY <1>1, <1>2 DEF EngOK, TaskOK
<1> HIDE DEF s
<1>4. n \in Node \cup {0}
  BY <1>2, <1>3, NodeOf
<1>5. EngOK(e1, clock) /\ e1 \in Eng
  BY <1>2, <1>3, ForgetOK DEF EngOK
<1> HIDE DEF e1, n
<1>6. W \in SUBSET Node
  BY <1>5 DEF Eng
<1> HIDE DEF W
<1>7. EngOK(r, clock)
  BY <1>2, <1>5, <1>6, WritingOK, FinishedOK
<1>8. tree' = tree \/ \E m \in Node, x \in Body \cup {None} : tree' = [tree EXCEPT ![b][m] = x]
  BY <1>1, <1>4
<1> HIDE DEF r
<1> QED BY <1>1, <1>7, <1>8, LocalTyped

(* The twin that a search finds.                                           *)
LEMMA TwinIs ==
    ASSUME NEW t \in Tree, NEW u, CopiesOf(t, u) # {}
    PROVE  Min(CopiesOf(t, u)) \in CopiesOf(t, u) /\ Min(CopiesOf(t, u)) \in Node
<1>1. CopiesOf(t, u) \subseteq Node
  BY CopiesIs
<1> QED BY <1>1, MinIs, Basics

(* A search that found nothing goes on to the create.                      *)
LEMMA MakeIs ==
    ASSUME NEW e, NEW ck, EngOK(e, ck), NEW c \in Chain, e.task[c].step = "look"
    PROVE  LET r == [e EXCEPT !.task[c].step = "make"] IN
           /\ EngOK(r, ck) /\ Same(r, e, {"task"})
           /\ r.task = [e.task EXCEPT ![c] = [e.task[c] EXCEPT !.step = "make"]]
<1> DEFINE k == e.task[c]
           k1 == [k EXCEPT !.step = "make"]
           r == [e EXCEPT !.task[c].step = "make"]
<1>1. e \in Eng /\ k \in Task /\ TaskOK(k, ck)
  BY DEF EngOK, Eng
<1>2. k1 \in Task /\ TaskOK(k1, ck)
  BY <1>1 DEF Task, TaskOK
<1>3. r = [e EXCEPT !.task = [e.task EXCEPT ![c] = k1]]
  BY <1>1 DEF Eng
<1> HIDE DEF k1, r
<1>4. r \in Eng /\ Same(r, e, {"task"}) /\ r.task = [e.task EXCEPT ![c] = k1]
  BY <1>1, <1>2, <1>3 DEF Eng, Same, Fields
<1>5. EngOK(r, ck)
  BY <1>2, <1>4, TaskStep, SameMore DEF Fields
<1> QED BY <1>4, <1>5 DEF r, k1

(* What applyUpsert() does up to the search, one case per return.          *)
LEMMA LookIs ==
    ASSUME Typed, NEW b \in Browser, NEW c \in Chain, Look(b, c)
    PROVE  LET e == eng[b]
               k == e.task[c]
               n == e.map[k.id]
               e1 == IF n = 0 THEN e ELSE Forget(e, k.id) IN
           /\ k \in Task /\ k.id \in SyncId /\ k.body \in Body /\ k.step = "look"
           /\ n \in Node \cup {0} /\ EngOK(e1, clock)
           /\ UNCHANGED <<relay, clock, kept, awake, left, excused, gone, sunk>>
           /\ \/ /\ n \in Node /\ tree[b][n] # None
                 /\ tree' = [tree EXCEPT ![b][n] = k.body]
                 /\ \/ Becomes(b, Finished(e, c))
                    \/ Becomes(b, Finished([e EXCEPT !.writing = @ \cup {n}], c))
              \/ tree' = tree /\ Becomes(b, Finished(e1, c))
              \/ /\ tree' = tree /\ CopiesOf(tree[b], k.body.url) # {}
                 /\ Becomes(b, Finished(Remember(e1, k.id, Min(CopiesOf(tree[b], k.body.url))), c))
              \/ /\ tree' = tree /\ CopiesOf(tree[b], k.body.url) = {}
                 /\ Becomes(b, [e1 EXCEPT !.task[c].step = "make"])
<1> DEFINE e == eng[b]
           k == e.task[c]
           n == e.map[k.id]
           e1 == IF n = 0 THEN e ELSE Forget(e, k.id)
           paired == n # 0 /\ tree[b][n] # None
           sibling == \E s \in IdsForUrl(e1, k.body.url) \ {k.id} : e1.map[s] # 0
           twins == CopiesOf(tree[b], k.body.url)
<1>1. /\ UNCHANGED <<relay, clock, kept, awake, left, excused, gone, sunk>> /\ k.step = "look"
      /\ tree' = IF paired THEN [tree EXCEPT ![b][n] = k.body] ELSE tree
      /\ \/ paired /\ Becomes(b, Finished(e, c))
         \/ paired /\ Becomes(b, Finished([e EXCEPT !.writing = @ \cup {n}], c))
         \/ ~paired /\ Becomes(b, Finished(e1, c))
         \/ ~paired /\ twins # {} /\ Becomes(b, Finished(Remember(e1, k.id, Min(twins)), c))
         \/ ~paired /\ twins = {} /\ Becomes(b, [e1 EXCEPT !.task[c].step = "make"])
  BY DEF Look
<1>2. e \in Eng /\ EngOK(e, clock)
  BY TypedAt
<1>3. k \in Task /\ k.id \in SyncId /\ k.body \in Body
  BY <1>1, <1>2 DEF EngOK, Eng, TaskOK
<1>4. n \in Node \cup {0}
  BY <1>2, <1>3, NodeOf
<1>5. EngOK(e1, clock)
  BY <1>2, <1>3, ForgetOK
<1> QED BY <1>1, <1>3, <1>4, <1>5

LEMMA LookTyped ==
    ASSUME Typed, NEW b \in Browser, NEW c \in Chain, Look(b, c)
    PROVE  Typed'
<1> DEFINE e == eng[b]
           k == e.task[c]
           n == e.map[k.id]
           e1 == IF n = 0 THEN e ELSE Forget(e, k.id)
           twins == CopiesOf(tree[b], k.body.url)
<1>1. /\ k \in Task /\ k.id \in SyncId /\ k.body \in Body /\ k.step = "look"
      /\ n \in Node \cup {0} /\ EngOK(e1, clock)
      /\ UNCHANGED <<relay, clock, kept, awake, left, excused, gone, sunk>>
      /\ \/ /\ n \in Node /\ tree[b][n] # None
            /\ tree' = [tree EXCEPT ![b][n] = k.body]
            /\ \/ Becomes(b, Finished(e, c))
               \/ Becomes(b, Finished([e EXCEPT !.writing = @ \cup {n}], c))
         \/ tree' = tree /\ Becomes(b, Finished(e1, c))
         \/ tree' = tree /\ twins # {} /\ Becomes(b, Finished(Remember(e1, k.id, Min(twins)), c))
         \/ tree' = tree /\ twins = {} /\ Becomes(b, [e1 EXCEPT !.task[c].step = "make"])
  BY LookIs, Zenon
<1>2. e \in Eng /\ EngOK(e, clock) /\ tree[b] \in Tree
  BY TypedAt
<1>3. e1.task = e.task
  <2>1. PICK x \in Eng, s \in SyncId : x = e /\ s = k.id
    BY <1>1, <1>2
  <2>2. Forget(x, s).task = x.task
    <3>1. Same(Forget(x, s), x, {"map", "rmap"})
      BY ForgetIs
    <3> QED BY <3>1 DEF Same, Fields
  <2> QED BY <2>1, <2>2
<1>4. EngOK(Finished(e, c), clock) /\ EngOK(Finished(e1, c), clock)
  BY <1>1, <1>2, FinishedOK
<1>5. ASSUME n \in Node PROVE EngOK(Finished([e EXCEPT !.writing = @ \cup {n}], c), clock)
  <2> HIDE DEF e, n
  <2>1. e.writing \cup {n} \in SUBSET Node
    BY <1>2, <1>5 DEF Eng
  <2> QED BY <1>2, <2>1, WritingOK, FinishedOK
<1>6. ASSUME twins # {} PROVE EngOK(Finished(Remember(e1, k.id, Min(twins)), c), clock)
  BY <1>1, <1>2, <1>6, TwinIs, RememberOK, FinishedOK
<1>7. EngOK([e1 EXCEPT !.task[c].step = "make"], clock)
  <2>1. e1.task[c].step = "look"
    BY <1>1, <1>3
  <2> HIDE DEF e1
  <2> QED BY <1>1, <2>1, MakeIs
<1>8. tree' = tree \/ \E m \in Node, x \in Body \cup {None} : tree' = [tree EXCEPT ![b][m] = x]
  BY <1>1
<1>9. \E x : EngOK(x, clock) /\ Becomes(b, x)
  <2> HIDE DEF e, e1, k, n, twins
  <2> QED BY <1>1, <1>4, <1>5, <1>6, <1>7
<1>10. PICK x : EngOK(x, clock) /\ Becomes(b, x)
  BY <1>9
<1> QED BY <1>1, <1>8, <1>10, LocalTyped

LEMMA MadeTyped ==
    ASSUME Typed, NEW b \in Browser, NEW c \in Chain, Make(b, c)
    PROVE  Typed'
<1> DEFINE e == eng[b]
           k == e.task[c]
           n == Min(Unused(b))
           r == Remember(e, k.id, n)
           r1 == [r EXCEPT !.writing = @ \cup {n}]
<1>1. /\ k.step = "make" /\ Unused(b) # {} /\ tree' = [tree EXCEPT ![b][n] = k.body]
      /\ Becomes(b, Finished(r1, c))
      /\ UNCHANGED <<relay, clock, kept, awake, left>>
  BY DEF Make
<1>2. e \in Eng /\ EngOK(e, clock)
  BY TypedAt
<1>3. k.id \in SyncId /\ k.body \in Body
  BY <1>1, <1>2 DEF EngOK, TaskOK
<1>4. n \in Node
  <2>1. Unused(b) \subseteq Node
    BY DEF Unused
  <2> QED BY <1>1, <2>1, MinIs, Basics
<1> HIDE DEF e, k, n
<1>5. EngOK(r, clock) /\ r \in Eng
  BY <1>2, <1>3, <1>4, RememberOK DEF EngOK
<1> HIDE DEF r
<1>6. r.writing \cup {n} \in SUBSET Node
  BY <1>4, <1>5 DEF Eng
<1>7. EngOK(r1, clock)
  BY <1>5, <1>6, WritingOK
<1> HIDE DEF r1
<1>8. EngOK(Finished(r1, c), clock)
  BY <1>7, FinishedOK
<1> QED BY <1>1, <1>3, <1>4, <1>8, LocalTyped

(* Another batch to send.                                                  *)
LEMMA OutIs ==
    ASSUME NEW e \in Eng, NEW w \in Sender, NEW S \in SUBSET Outgoing
    PROVE  LET r == [e EXCEPT !.out[w] = S] IN
           r \in Eng /\ Same(r, e, {"out"}) /\ r.out = [e.out EXCEPT ![w] = S]
  BY DEF Eng, Same, Fields

LEMMA FlushStartTyped ==
    ASSUME Typed, NEW b \in Browser, FlushStart(b)
    PROVE  Typed'
<1> DEFINE e == eng[b]
           S == {[node |-> n, body |-> tree[b][n]] : n \in e.queue \cap Present(tree[b])}
           e0 == [e EXCEPT !.queue = {}]
           r == [e0 EXCEPT !.out["flush"] = S]
<1>1. Becomes(b, r) /\ UNCHANGED <<relay, clock, tree, kept, awake, left>>
  BY DEF FlushStart
<1>2. e \in Eng /\ EngOK(e, clock) /\ tree[b] \in Tree /\ "flush" \in Sender
  BY TypedAt DEF Sender
<1>3. S \in SUBSET Outgoing
  BY <1>2 DEF Present, Tree, Outgoing
<1> HIDE DEF e, S
<1>4. e0 \in Eng /\ Same(e0, e, {"queue"})
  BY <1>2 DEF Eng, Same, Fields
<1> HIDE DEF e0
<1>5. r \in Eng /\ Same(r, e0, {"out"})
  BY <1>2, <1>3, <1>4, OutIs
<1> HIDE DEF r
<1>6. Same(r, e, Fields \ {"items", "task", "wait"})
  BY <1>4, <1>5 DEF Same, Fields
<1>7. EngOK(r, clock)
  BY <1>2, <1>5, <1>6, EngSame
<1> QED BY <1>1, <1>7, LocalTyped

LEMMA FlushSkipTyped ==
    ASSUME Typed, NEW b \in Browser, NEW o, FlushSkip(b, o)
    PROVE  Typed'
<1> DEFINE e == eng[b]
           S == e.out["flush"] \ {o}
           r == [e EXCEPT !.out["flush"] = S]
<1>1. Becomes(b, r) /\ UNCHANGED <<relay, clock, tree, kept, awake, left>>
  BY DEF FlushSkip, Becomes, Typed
<1>2. e \in Eng /\ EngOK(e, clock) /\ "flush" \in Sender
  BY TypedAt DEF Sender
<1> HIDE DEF e
<1>3. S \in SUBSET Outgoing
  BY <1>2 DEF Eng
<1> HIDE DEF S
<1>5. r \in Eng /\ Same(r, e, {"out"})
  BY <1>2, <1>3, OutIs
<1> HIDE DEF r
<1>6. Same(r, e, Fields \ {"items", "task", "wait"})
  BY <1>5 DEF Same, Fields
<1>7. EngOK(r, clock)
  BY <1>2, <1>5, <1>6, EngSame
<1> QED BY <1>1, <1>7, LocalTyped

(* A publish, whatever the relay answers: the second moves on.             *)
LEMMA SentTyped ==
    ASSUME Typed, NEW s \in SyncId, NEW body \in Body \cup {None}, NEW u,
           Stored(s, body) \/ Refused(s, u) \/ Unheard(s, body)
    PROVE  /\ clock' = [clock EXCEPT ![s] = @ + 1]
           /\ clock' \in [SyncId -> Nat] /\ \A r \in SyncId : clock[r] <= clock'[r]
           /\ RelayOK(relay', clock') /\ left' \in Nat
           /\ relay' = relay \/ relay' = [relay EXCEPT ![s] = [at |-> clock[s] + 1, body |-> body]]
<1>1. clock \in [SyncId -> Nat] /\ RelayOK(relay, clock)
  BY DEF Typed
<1>2. clock' = [clock EXCEPT ![s] = @ + 1]
  BY DEF Stored, Refused, Unheard
<1>3. relay' = relay \/ relay' = [relay EXCEPT ![s] = [at |-> clock[s] + 1, body |-> body]]
  BY DEF Stored, Refused, Unheard
<1>4. clock' \in [SyncId -> Nat] /\ \A r \in SyncId : clock[r] <= clock'[r]
  BY <1>1, <1>2
<1>5. left' \in Nat
  <2>1. left' = left \/ Spend
    BY DEF Stored, Refused, Unheard, Spent
  <2> QED BY <2>1, SpendTyped DEF Typed
<1>6. RelayOK(relay', clock')
  <2> DEFINE ev == [at |-> clock[s] + 1, body |-> body]
  <2>1. ev \in Event /\ ev.at = clock'[s]
    BY <1>1, <1>2 DEF Event
  <2> HIDE DEF ev
  <2>2. relay' \in [SyncId -> Event]
    BY <1>1, <1>3, <2>1 DEF RelayOK, ev
  <2>3. ASSUME NEW r \in SyncId PROVE relay'[r].at <= clock'[r]
    <3>1. clock'[r] \in Nat /\ clock[r] \in Nat /\ clock[r] <= clock'[r]
      BY <1>1, <1>4
    <3>2. relay[r].at \in Nat /\ relay[r].at <= clock[r]
      BY <1>1 DEF RelayOK, Event
    <3>3. relay'[r] = relay[r] \/ (r = s /\ relay'[r] = ev)
      BY <1>1, <1>3 DEF RelayOK, ev
    <3> QED BY <2>1, <3>1, <3>2, <3>3
  <2> QED BY <2>2, <2>3 DEF RelayOK
<1> QED BY <1>2, <1>3, <1>4, <1>5, <1>6

(* One bookmark published: the id it goes under, and the two outcomes.     *)
LEMMA PublishIs ==
    ASSUME Typed, NEW b \in Browser, NEW w \in Sender, NEW o, Publish(b, w, o)
    PROVE  LET e == eng[b]
               s == IF e.rmap[o.node] # 0 THEN e.rmap[o.node] ELSE o.body.url
               m == Remember(e, s, o.node)
               e1 == [m EXCEPT !.out[w] = @ \ {o}] IN
           /\ o \in Outgoing /\ o \in e.out[w] /\ o.node \in Node /\ o.body \in Body /\ s \in SyncId
           /\ m \in Eng /\ e1 \in Eng /\ Same(e1, m, {"out"}) /\ e1.out = [e.out EXCEPT ![w] = @ \ {o}]
           /\ \/ /\ Stored(s, o.body)
                 /\ Becomes(b, [e1 EXCEPT !.wait[w] = [id |-> s, at |-> clock[s] + 1, body |-> o.body]])
              \/ (Refused(s, o.body.url) \/ Unheard(s, o.body)) /\ Becomes(b, e1)
           /\ UNCHANGED <<tree, kept, awake, gone, sunk>>
           /\ e.wait[w] = NoWait
           /\ w = "merge" => e.remove = {} /\ e.tomb = {} /\ e.create = {} /\ e.task["merge"] = Idle
<1> DEFINE e == eng[b]
           s == IF e.rmap[o.node] # 0 THEN e.rmap[o.node] ELSE o.body.url
           m == Remember(e, s, o.node)
           e1 == [m EXCEPT !.out[w] = @ \ {o}]
<1>1. /\ o \in e.out[w]
      /\ \/ /\ Stored(s, o.body)
            /\ Becomes(b, [e1 EXCEPT !.wait[w] = [id |-> s, at |-> clock[s] + 1, body |-> o.body]])
         \/ (Refused(s, o.body.url) \/ Unheard(s, o.body)) /\ Becomes(b, e1)
      /\ UNCHANGED <<tree, kept, awake, gone, sunk>>
      /\ e.wait[w] = NoWait
      /\ w = "merge" => e.remove = {} /\ e.tomb = {} /\ e.create = {} /\ e.task["merge"] = Idle
  BY DEF Publish
<1>2. e \in Eng
  BY TypedAt
<1>3. o \in Outgoing /\ o.node \in Node /\ o.body \in Body
  <2>1. o \in Outgoing
    BY <1>1, <1>2 DEF Eng
  <2> QED BY <2>1 DEF Outgoing
<1>4. s \in SyncId
  BY <1>2, <1>3, Basics DEF Eng
<1>5. m \in Eng /\ m.out = e.out
  <2>1. m \in Eng /\ Same(m, e, {"map", "rmap"})
    BY <1>2, <1>3, <1>4, RememberIs
  <2> HIDE DEF m, e
  <2> QED BY <2>1 DEF Same, Fields
<1>6. e1 \in Eng /\ Same(e1, m, {"out"}) /\ e1.out = [e.out EXCEPT ![w] = @ \ {o}]
  <2> HIDE DEF m, e
  <2>1. m.out[w] \ {o} \in SUBSET Outgoing
    BY <1>5 DEF Eng
  <2>2. e1 \in Eng /\ Same(e1, m, {"out"}) /\ e1.out = [m.out EXCEPT ![w] = m.out[w] \ {o}]
    BY <1>5, <2>1, OutIs
  <2> QED BY <1>5, <2>2
<1> QED BY <1>1, <1>3, <1>4, <1>5, <1>6, Zenon

(* A publish waits for its OK.                                             *)
LEMMA WaitStep ==
    ASSUME NEW e, NEW ck, EngOK(e, ck), NEW w \in Sender, NEW k \in Wait, WaitOK(k, ck)
    PROVE  LET r == [e EXCEPT !.wait[w] = k] IN
           EngOK(r, ck) /\ Same(r, e, {"wait"}) /\ r.wait = [e.wait EXCEPT ![w] = k]
<1> DEFINE r == [e EXCEPT !.wait[w] = k]
<1>1. e \in Eng
  BY DEF EngOK
<1>2. r \in Eng /\ Same(r, e, {"wait"}) /\ r.wait = [e.wait EXCEPT ![w] = k]
  BY <1>1 DEF Eng, Same, Fields
<1> HIDE DEF r
<1>3. r.items = e.items /\ r.task = e.task
  BY <1>2 DEF Same, Fields
<1>4. ASSUME NEW v \in Sender PROVE WaitOK(r.wait[v], ck)
  BY <1>1, <1>2 DEF EngOK, Eng
<1>5. EngOK(r, ck)
  BY <1>2, <1>3, <1>4 DEF EngOK
<1> QED BY <1>2, <1>5 DEF r

LEMMA PublishTyped ==
    ASSUME Typed, NEW b \in Browser, NEW w \in Sender, NEW o, Publish(b, w, o)
    PROVE  Typed'
<1> DEFINE e == eng[b]
           s == IF e.rmap[o.node] # 0 THEN e.rmap[o.node] ELSE o.body.url
           m == Remember(e, s, o.node)
           e1 == [m EXCEPT !.out[w] = @ \ {o}]
           k == [id |-> s, at |-> clock[s] + 1, body |-> o.body]
           r == [e1 EXCEPT !.wait[w] = k]
<1>1. /\ o.node \in Node /\ o.body \in Body /\ s \in SyncId
      /\ m \in Eng /\ e1 \in Eng /\ Same(e1, m, {"out"})
      /\ Stored(s, o.body) \/ Refused(s, o.body.url) \/ Unheard(s, o.body)
      /\ Becomes(b, r) \/ Becomes(b, e1)
      /\ UNCHANGED <<tree, kept, awake, gone, sunk>>
  BY PublishIs, Zenon
<1>2. /\ clock' = [clock EXCEPT ![s] = @ + 1]
      /\ clock' \in [SyncId -> Nat] /\ \A x \in SyncId : clock[x] <= clock'[x]
      /\ RelayOK(relay', clock') /\ left' \in Nat
  BY <1>1, SentTyped
<1>3. e \in Eng /\ EngOK(e, clock) /\ clock \in [SyncId -> Nat]
  BY TypedAt
<1>4. EngOK(m, clock)
  BY <1>1, <1>3, RememberOK
<1>5. EngOK(m, clock')
  <2> HIDE DEF m
  <2> QED BY <1>2, <1>3, <1>4, EngGrow
<1> HIDE DEF m, e
<1>6. EngOK(e1, clock')
  <2> HIDE DEF e1
  <2>1. Same(e1, m, Fields \ {"items", "task", "wait"})
    BY <1>1 DEF Same, Fields
  <2> QED BY <1>1, <1>5, <2>1, EngSame
<1> HIDE DEF e1, s
<1>7. k \in Wait /\ WaitOK(k, clock')
  <2>1. clock[s] + 1 \in Nat /\ clock'[s] = clock[s] + 1 /\ clock'[s] \in Nat
    BY <1>1, <1>2, <1>3
  <2> QED BY <1>1, <2>1 DEF Wait, WaitOK
<1> HIDE DEF k
<1>8. EngOK(r, clock')
  BY <1>6, <1>7, WaitStep
<1> HIDE DEF r
<1>9. KeptOK(kept', clock')
  <2>1. ASSUME NEW c \in Browser PROVE ItemsOK(kept[c], clock')
    BY <1>2, <1>3, ItemsGrow DEF Typed, KeptOK
  <2> QED BY <1>1, <2>1 DEF Typed, KeptOK
<1>10. tree' \in [Browser -> Tree] /\ awake' \in [Browser -> BOOLEAN]
  BY <1>1 DEF Typed
<1>11. \E x : EngOK(x, clock') /\ eng' = [eng EXCEPT ![b] = x]
  BY <1>1, <1>6, <1>8 DEF Becomes
<1>12. PICK x : EngOK(x, clock') /\ eng' = [eng EXCEPT ![b] = x]
  BY <1>11
<1> QED BY <1>2, <1>9, <1>10, <1>12, StepTyped

LEMMA AnsweredTyped ==
    ASSUME Typed, NEW b \in Browser, NEW w \in Sender, Answered(b, w)
    PROVE  Typed'
<1> DEFINE e == eng[b]
           k == e.wait[w]
           now == IF "ok" \in Slow THEN clock[k.id] ELSE k.at
           e1 == Learn(e, k.id, now, k.body)
           r == [e1 EXCEPT !.wait[w] = NoWait]
<1>1. k # NoWait /\ Becomes(b, r) /\ SaveSoon(b) /\ UNCHANGED <<relay, clock, tree, awake, left>>
  BY DEF Answered
<1>2. e \in Eng /\ EngOK(e, clock) /\ clock \in [SyncId -> Nat]
  BY TypedAt
<1> HIDE DEF e
<1>3. k \in Wait /\ WaitOK(k, clock)
  BY <1>2 DEF EngOK, Eng
<1>4. k.id \in SyncId /\ now \in Nat /\ k.body \in Body /\ now <= clock[k.id]
  BY <1>1, <1>2, <1>3 DEF WaitOK, Wait
<1> HIDE DEF k, now
<1>5. PICK s \in SyncId, at \in Nat, body \in Body : s = k.id /\ at = now /\ body = k.body
  BY <1>4
<1>6. /\ e1 \in Eng /\ e1.items = [e.items EXCEPT ![s] = Held(at, body)]
      /\ Same(e1, e, {"items", "index"})
  <2>1. LET z == Learn(e, s, at, body) IN
        /\ z \in Eng /\ z.items = [e.items EXCEPT ![s] = Held(at, body)] /\ Same(z, e, {"items", "index"})
    BY <1>2, LearnIs
  <2> QED BY <1>5, <2>1
<1>7. Held(at, body) \in Item /\ Held(at, body).at = at /\ BodyOf(Held(at, body)) = body
  BY HeldIs
<1> HIDE DEF e1
<1>8. EngOK(e1, clock)
  <2>1. ItemsOK(e1.items, clock)
    <3>1. e.items \in [SyncId -> Item] /\ ItemsOK(e.items, clock)
      BY <1>2 DEF EngOK, Eng
    <3>2. at <= clock[s]
      BY <1>4, <1>5
    <3> QED BY <1>6, <1>7, <3>1, <3>2 DEF ItemsOK
  <2>2. e1.task = e.task /\ e1.wait = e.wait
    BY <1>6 DEF Same, Fields
  <2> QED BY <1>2, <1>6, <2>1, <2>2 DEF EngOK
<1>9. NoWait \in Wait /\ WaitOK(NoWait, clock)
  BY DEF NoWait, Wait, WaitOK
<1>10. EngOK(r, clock)
  BY <1>8, <1>9, WaitStep
<1> HIDE DEF r
<1> QED BY <1>1, <1>10, LocalTyped

(* tombstoneOne(): the item is removed at once, whatever the relay         *)
(* answers.                                                                *)
LEMMA BuryIs ==
    ASSUME Typed, NEW b \in Browser, NEW s \in SyncId, Bury(b, s)
    PROVE  LET e == eng[b]
               f == Forget(e, s)
               r == [f EXCEPT !.items[s] = Removed(clock[s] + 1, @), !.tomb = @ \ {s}] IN
           /\ s \in e.tomb /\ Becomes(b, r) /\ SaveSoon(b)
           /\ f \in Eng /\ r \in Eng /\ Same(r, f, {"items", "tomb"}) /\ r.tomb = e.tomb \ {s}
           /\ r.items = [e.items EXCEPT ![s] = Removed(clock[s] + 1, @)]
           /\ Stored(s, None) \/ Refused(s, relay[s].body.url)
           /\ UNCHANGED <<tree, awake, gone, sunk>>
<1> DEFINE e == eng[b]
           f == Forget(e, s)
           i == [f.items EXCEPT ![s] = Removed(clock[s] + 1, @)]
           r == [f EXCEPT !.items[s] = Removed(clock[s] + 1, @), !.tomb = @ \ {s}]
<1>1. /\ s \in e.tomb /\ Becomes(b, r) /\ SaveSoon(b)
      /\ Stored(s, None) \/ Refused(s, relay[s].body.url)
      /\ UNCHANGED <<tree, awake, gone, sunk>>
  BY DEF Bury
<1>2. e \in Eng /\ clock[s] + 1 \in Nat
  BY TypedAt
<1>3. f \in Eng /\ Same(f, e, {"map", "rmap"})
  BY <1>2, ForgetIs
<1> HIDE DEF f, e
<1>4. f.items = e.items /\ f.tomb = e.tomb
  BY <1>3 DEF Same, Fields
<1>5. Removed(clock[s] + 1, f.items[s]) \in Item
  BY <1>2, <1>3, RemovedIs DEF Eng
<1>6. r \in Eng /\ Same(r, f, {"items", "tomb"}) /\ r.tomb = f.tomb \ {s} /\ r.items = i
  BY <1>3, <1>5 DEF Eng, Same, Fields
<1>7. i = [e.items EXCEPT ![s] = Removed(clock[s] + 1, @)]
  BY <1>4
<1> HIDE DEF r, i
<1> QED BY <1>1, <1>3, <1>4, <1>6, <1>7 DEF f, e, r

LEMMA BuryTyped ==
    ASSUME Typed, NEW b \in Browser, NEW s \in SyncId, Bury(b, s)
    PROVE  Typed'
<1> DEFINE e == eng[b]
           f == Forget(e, s)
           r == [f EXCEPT !.items[s] = Removed(clock[s] + 1, @), !.tomb = @ \ {s}]
<1>1. /\ Becomes(b, r) /\ SaveSoon(b)
      /\ f \in Eng /\ r \in Eng /\ Same(r, f, {"items", "tomb"})
      /\ r.items = [e.items EXCEPT ![s] = Removed(clock[s] + 1, @)]
      /\ Stored(s, None) \/ Refused(s, relay[s].body.url)
      /\ UNCHANGED <<tree, awake, gone, sunk>>
  BY BuryIs, Zenon
<1>2. /\ clock' = [clock EXCEPT ![s] = @ + 1]
      /\ clock' \in [SyncId -> Nat] /\ \A x \in SyncId : clock[x] <= clock'[x]
      /\ RelayOK(relay', clock') /\ left' \in Nat
  BY <1>1, SentTyped
<1>3. e \in Eng /\ EngOK(e, clock) /\ clock \in [SyncId -> Nat] /\ clock[s] + 1 \in Nat
  BY TypedAt
<1>4. EngOK(f, clock') /\ EngOK(e, clock')
  BY <1>2, <1>3, EngGrow, ForgetOK
<1> HIDE DEF e, f, r
<1>5. ItemsOK(r.items, clock')
  <2> DEFINE g == Removed(clock[s] + 1, e.items[s])
  <2>1. e.items \in [SyncId -> Item] /\ ItemsOK(e.items, clock') /\ e.items[s] \in Item
    BY <1>3, <1>4 DEF EngOK, Eng
  <2>2. g \in Item /\ g.at = clock'[s] /\ ~g.live
    BY <1>2, <1>3, <2>1, RemovedIs
  <2>3. clock'[s] \in Nat
    BY <1>2
  <2>4. r.items = [e.items EXCEPT ![s] = g]
    BY <1>1
  <2> HIDE DEF g
  <2> QED BY <2>1, <2>2, <2>3, <2>4 DEF ItemsOK
<1>6. r.task = f.task /\ r.wait = f.wait
  BY <1>1 DEF Same, Fields
<1>7. EngOK(r, clock')
  BY <1>1, <1>4, <1>5, <1>6 DEF EngOK
<1>8. KeptOK(kept', clock')
  BY <1>1, <1>2, SaveTyped
<1>9. tree' \in [Browser -> Tree] /\ awake' \in [Browser -> BOOLEAN]
  BY <1>1 DEF Typed
<1> QED BY <1>1, <1>2, <1>7, <1>8, <1>9, StepTyped DEF Becomes

(* A sweep buries ids whose bookmark is gone, with their siblings.         *)
LEMMA SweepIs ==
    ASSUME Typed, NEW b \in Browser, Sweep(b)
    PROVE  \E r \in Eng :
             /\ Becomes(b, r) /\ Same(r, eng[b], {"sweep", "tomb"})
             /\ \A x \in r.tomb \ eng[b].tomb :
                   \E n \in Node : /\ tree[b][n] = None /\ eng[b].rmap[n] \in SyncId
                                   /\ x \in WithSiblings(eng[b], eng[b].rmap[n])
<1> DEFINE e == eng[b]
           lost == {e.rmap[n] : n \in Node \ Present(tree[b])} \cap Mapped(e)
           T == e.tomb \cup IF e.on THEN UNION {WithSiblings(e, s) : s \in lost} ELSE {}
           r == [e EXCEPT !.sweep = FALSE, !.tomb = T]
<1>1. Becomes(b, r)
  BY DEF Sweep
<1>2. e \in Eng
  BY TypedAt
<1> HIDE DEF e
<1>3. lost \subseteq SyncId
  BY DEF Mapped
<1>4. \A s \in lost : \E n \in Node : tree[b][n] = None /\ e.rmap[n] = s
  BY DEF Present
<1> HIDE DEF lost
<1>5. T \in SUBSET SyncId
  <2>1. \A s \in lost : WithSiblings(e, s) \subseteq SyncId
    BY <1>2, <1>3, SiblingsIs
  <2> QED BY <1>2, <2>1 DEF Eng
<1>6. \A x \in T \ e.tomb : \E s \in lost : x \in WithSiblings(e, s)
  OBVIOUS
<1> HIDE DEF T
<1>7. r \in Eng /\ Same(r, e, {"sweep", "tomb"}) /\ r.tomb = T
  BY <1>2, <1>5 DEF Eng, Same, Fields
<1> HIDE DEF r
<1>8. ASSUME NEW x \in r.tomb \ e.tomb
      PROVE  \E n \in Node : tree[b][n] = None /\ e.rmap[n] \in SyncId /\ x \in WithSiblings(e, e.rmap[n])
  <2>1. PICK s \in lost : x \in WithSiblings(e, s)
    BY <1>6, <1>7
  <2>2. PICK n \in Node : tree[b][n] = None /\ e.rmap[n] = s
    BY <1>4
  <2> QED BY <1>3, <2>1, <2>2
<1> QED BY <1>1, <1>7, <1>8 DEF e

LEMMA SweepTyped ==
    ASSUME Typed, NEW b \in Browser, Sweep(b)
    PROVE  Typed'
<1>1. PICK r \in Eng : Becomes(b, r) /\ Same(r, eng[b], {"sweep", "tomb"})
  BY SweepIs
<1>2. Same(r, eng[b], Fields \ {"items", "task", "wait"})
  BY <1>1 DEF Same, Fields
<1>3. EngOK(r, clock)
  BY <1>2, TypedAt, EngSame
<1>4. UNCHANGED <<relay, clock, tree, kept, awake, left>>
  BY DEF Sweep
<1> QED BY <1>1, <1>3, <1>4, LocalTyped

(* What union() plans.                                                     *)
LEMMA MergeStartIs ==
    ASSUME Typed, NEW b \in Browser, NEW ok, MergeStart(b, ok)
    PROVE  \E r \in Eng :
             LET e == eng[b]
                 p == Paired(e, tree[b]) IN
             /\ Becomes(b, r) /\ Same(r, e, {"map", "rmap", "pending", "remove", "create", "out"})
             /\ r.map = p.map /\ r.rmap = p.rmap
             /\ r.remove \subseteq Vanished(e, tree[b]) /\ r.create = Creates(e, tree[b])
             /\ r.out = [e.out EXCEPT !["merge"] = Publishes(e, tree[b])]
<1> DEFINE e == eng[b]
           t == tree[b]
           p == Paired(e, t)
           refuse == Bulk(b) /\ ~ok
           P == IF refuse THEN Cardinality(Vanished(e, t)) ELSE 0
           R == IF refuse THEN {} ELSE Vanished(e, t)
           C == Creates(e, t)
           O == Publishes(e, t)
           r == [p EXCEPT !.pending = P, !.remove = R, !.create = C, !.out["merge"] = O]
<1>1. Becomes(b, r)
  BY DEF MergeStart
<1>2. e \in Eng /\ EngOK(e, clock) /\ t \in Tree
  BY TypedAt
<1>3. /\ Vanished(e, t) \subseteq SyncId /\ Cardinality(Vanished(e, t)) \in Count
      /\ C \subseteq Creation /\ O \subseteq Outgoing
  BY <1>2, PlanIs
<1>4. P \in Count /\ R \in SUBSET SyncId /\ R \subseteq Vanished(e, t)
  BY <1>3 DEF Count
<1>5. p \in Eng /\ Same(p, e, {"map", "rmap"})
  BY <1>2, PairedIs
<1> HIDE DEF e, t, p, P, R, C, O
<1>6. p.out = e.out
  BY <1>5 DEF Same, Fields
<1>7. /\ r \in Eng /\ Same(r, p, {"pending", "remove", "create", "out"}) /\ r.remove = R /\ r.create = C
      /\ r.out = [p.out EXCEPT !["merge"] = O] /\ r.map = p.map /\ r.rmap = p.rmap
  BY <1>3, <1>4, <1>5 DEF Eng, Same, Fields, Sender
<1> HIDE DEF r
<1>8. Same(r, e, {"map", "rmap", "pending", "remove", "create", "out"})
  BY <1>5, <1>7 DEF Same, Fields
<1>9. r.out = [e.out EXCEPT !["merge"] = O]
  BY <1>6, <1>7
<1> QED BY <1>1, <1>4, <1>7, <1>8, <1>9 DEF e, t, p, C, O

LEMMA MergeStartTyped ==
    ASSUME Typed, NEW b \in Browser, NEW ok, MergeStart(b, ok)
    PROVE  Typed'
<1>1. PICK r \in Eng : Becomes(b, r) /\ Same(r, eng[b], {"map", "rmap", "pending", "remove", "create", "out"})
  BY MergeStartIs
<1>2. Same(r, eng[b], Fields \ {"items", "task", "wait"})
  BY <1>1 DEF Same, Fields
<1>3. EngOK(r, clock)
  BY <1>2, TypedAt, EngSame
<1>4. UNCHANGED <<relay, clock, tree, kept, awake, left>>
  BY DEF MergeStart
<1> QED BY <1>1, <1>3, <1>4, LocalTyped

(* One removal of the plan becomes tombstones.                             *)
LEMMA MergeRemoveIs ==
    ASSUME Typed, NEW b \in Browser, NEW s, MergeRemove(b, s)
    PROVE  \E r \in Eng :
             /\ s \in SyncId /\ s \in eng[b].remove /\ Becomes(b, r) /\ Same(r, eng[b], {"remove", "tomb"})
             /\ r.remove = eng[b].remove \ {s} /\ r.tomb = WithSiblings(eng[b], s)
<1> DEFINE e == eng[b]
           r == [e EXCEPT !.remove = @ \ {s}, !.tomb = WithSiblings(e, s)]
<1>1. Becomes(b, r) /\ s \in e.remove
  BY DEF MergeRemove
<1>2. e \in Eng
  BY TypedAt
<1> HIDE DEF e
<1>3. s \in SyncId
  BY <1>1, <1>2 DEF Eng
<1>4. WithSiblings(e, s) \in SUBSET SyncId
  BY <1>2, <1>3, SiblingsIs
<1>5. r \in Eng /\ Same(r, e, {"remove", "tomb"}) /\ r.remove = e.remove \ {s} /\ r.tomb = WithSiblings(e, s)
  BY <1>2, <1>4 DEF Eng, Same, Fields
<1> HIDE DEF r
<1> QED BY <1>1, <1>3, <1>5 DEF e

LEMMA MergeRemoveTyped ==
    ASSUME Typed, NEW b \in Browser, NEW s, MergeRemove(b, s)
    PROVE  Typed'
<1>1. PICK r \in Eng : Becomes(b, r) /\ Same(r, eng[b], {"remove", "tomb"})
  BY MergeRemoveIs
<1>2. Same(r, eng[b], Fields \ {"items", "task", "wait"})
  BY <1>1 DEF Same, Fields
<1>3. EngOK(r, clock)
  BY <1>2, TypedAt, EngSame
<1>4. UNCHANGED <<relay, clock, tree, kept, awake, left>>
  BY DEF MergeRemove
<1> QED BY <1>1, <1>3, <1>4, LocalTyped

(* One create of the plan becomes a task.                                  *)
LEMMA MergeCreateIs ==
    ASSUME Typed, NEW b \in Browser, NEW x, MergeCreate(b, x)
    PROVE  LET k == [step |-> "look", id |-> x.id, at |-> 0, body |-> x.body] IN
           \E r \in Eng :
             /\ x \in Creation /\ x \in eng[b].create /\ Becomes(b, r) /\ Same(r, eng[b], {"create", "task"})
             /\ r.create \subseteq eng[b].create /\ r.task = [eng[b].task EXCEPT !["merge"] = k]
             /\ k \in Task /\ k.id \in SyncId /\ k.body \in Body
             /\ eng[b].task["merge"] = Idle
<1> DEFINE e == eng[b]
           k == [step |-> "look", id |-> x.id, at |-> 0, body |-> x.body]
           r == [e EXCEPT !.create = @ \ {x}, !.task["merge"] = k]
<1>1. Becomes(b, r) /\ x \in e.create /\ e.task["merge"] = Idle
  BY DEF MergeCreate
<1>2. e \in Eng
  BY TypedAt
<1> HIDE DEF e
<1>3. x \in Creation
  BY <1>1, <1>2 DEF Eng
<1>4. k \in Task /\ k.id \in SyncId /\ k.body \in Body
  BY <1>3 DEF Creation, Task
<1> HIDE DEF k
<1>5. r \in Eng /\ Same(r, e, {"create", "task"}) /\ r.create \subseteq e.create
      /\ r.task = [e.task EXCEPT !["merge"] = k]
  BY <1>2, <1>4 DEF Eng, Same, Fields, Chain
<1> HIDE DEF r
<1> QED BY <1>1, <1>3, <1>4, <1>5 DEF e, k

LEMMA MergeCreateTyped ==
    ASSUME Typed, NEW b \in Browser, NEW x, MergeCreate(b, x)
    PROVE  Typed'
<1> DEFINE k == [step |-> "look", id |-> x.id, at |-> 0, body |-> x.body]
<1>1. PICK r \in Eng : /\ Becomes(b, r) /\ Same(r, eng[b], {"create", "task"})
                       /\ r.task = [eng[b].task EXCEPT !["merge"] = k]
                       /\ k.id \in SyncId /\ k.body \in Body
  BY MergeCreateIs
<1>2. Same(r, eng[b], Fields \ {"items", "wait"})
  BY <1>1 DEF Same, Fields
<1>3. TaskOK(k, clock)
  <2>1. clock[k.id] \in Nat /\ k.at = 0
    BY <1>1, TypedAt
  <2> QED BY <1>1, <2>1 DEF TaskOK
<1> HIDE DEF k
<1>4. EngOK(r, clock)
  BY <1>1, <1>2, <1>3, TypedAt, TaskStep DEF Chain
<1>5. UNCHANGED <<relay, clock, tree, kept, awake, left>>
  BY DEF MergeCreate
<1> QED BY <1>1, <1>4, <1>5, LocalTyped

-----------------------------------------------------------------------------
(* The events already on the relay.                                        *)
LEMMA SeedIs ==
    ASSUME NEW s \in Seeded
    PROVE  /\ s \in SyncId /\ Seed[s].url \in Url /\ Seed[s].node \in Node \cup {0}
           /\ SeedBody(s) \in Body /\ SeedBody(s).url = Seed[s].url
<1>1. s \in SyncId /\ Seed[s] \in [url : Url, node : Node \cup {0}]
  BY ConstantsAssumption DEF Seeded
<1>2. (CHOOSE t \in Text : TRUE) \in Text
  BY ConstantsAssumption
<1> QED BY <1>1, <1>2 DEF SeedBody, Body

(* Relay, trees and engines as they are at the start.                      *)
LEMMA InitTyped == Init => Typed
<1> SUFFICES ASSUME Init PROVE Typed
  OBVIOUS
<1>1. relay = [s \in SyncId |-> IF s \in Seeded THEN [at |-> 1, body |-> SeedBody(s)] ELSE NoEvent]
  BY DEF Init
<1>2. relay \in [SyncId -> Event]
  BY <1>1, SeedIs DEF Event, NoEvent
<1>3. clock \in [SyncId -> Nat] /\ \A s \in SyncId : relay[s].at <= clock[s]
  BY <1>2 DEF Init, Event
<1>4. \A s \in SyncId : clock[s] = IF s \in Seeded THEN 1 ELSE 0
  BY <1>1 DEF Init, NoEvent
<1>5. ItemsOK(OldItems, clock)
  <2>1. ASSUME NEW s \in SyncId
        PROVE  OldItems[s] \in Item /\ OldItems[s].at <= clock[s] /\ (OldItems[s].live => BodyOf(OldItems[s]) \in Body)
    <3>1. CASE s \in Seeded
      <4>1. PICK x \in Body : x = SeedBody(s)
        BY <3>1, SeedIs
      <4>2. OldItems[s] = Held(1, x)
        BY <3>1, <4>1 DEF OldItems
      <4> QED BY <1>4, <3>1, <4>2, HeldIs
    <3>2. CASE s \notin Seeded
      <4>1. OldItems[s] = NoItem
        BY <3>2 DEF OldItems
      <4> QED BY <1>4, <3>2, <4>1 DEF NoItem, Item
    <3> QED BY <3>1, <3>2
  <2>2. OldItems = [s \in SyncId |-> OldItems[s]]
    BY DEF OldItems
  <2> QED BY <2>1, <2>2 DEF ItemsOK
<1>6. ItemsOK(NewItems, clock)
  BY <1>3 DEF ItemsOK, NewItems, NoItem, Item
<1>7. OldMap \in [SyncId -> Node \cup {0}]
  BY SeedIs DEF OldMap
<1>8. ASSUME NEW b \in Browser PROVE EngOK(eng[b], clock)
  <2>1. PICK on \in BOOLEAN, p \in Count : on = TRUE /\ p = 0
    BY DEF Count
  <2>2. eng[b] \in {Started(TRUE, OldMap, r, OldItems, 0) : r \in Reverses(OldMap)}
                    \cup {Started(TRUE, [s \in SyncId |-> 0], [n \in Node |-> 0], NewItems, 0)}
    BY DEF Init
  <2>3. CASE \E r \in Reverses(OldMap) : eng[b] = Started(TRUE, OldMap, r, OldItems, 0)
    <3>1. PICK r \in Reverses(OldMap) : eng[b] = Started(TRUE, OldMap, r, OldItems, 0)
      BY <2>3
    <3>2. r \in [Node -> SyncId \cup {0}]
      BY DEF Reverses
    <3>3. EngOK(Started(on, OldMap, r, OldItems, p), clock)
      BY <1>3, <1>5, <1>7, <3>2, StartedIs
    <3> QED BY <2>1, <3>1, <3>3
  <2>4. CASE eng[b] = Started(TRUE, [s \in SyncId |-> 0], [n \in Node |-> 0], NewItems, 0)
    <3>1. PICK m \in [SyncId -> Node \cup {0}], r \in [Node -> SyncId \cup {0}] :
             m = [s \in SyncId |-> 0] /\ r = [n \in Node |-> 0]
      OBVIOUS
    <3>2. eng[b] = Started(TRUE, m, r, NewItems, 0)
      BY <2>4, <3>1
    <3>3. EngOK(Started(on, m, r, NewItems, p), clock)
      BY <1>3, <1>6, StartedIs
    <3> QED BY <2>1, <3>2, <3>3
  <2> QED BY <2>2, <2>3, <2>4
<1>9. eng \in [Browser -> Eng]
  <2>1. \A b \in Browser : eng[b] \in Eng
    BY <1>8 DEF EngOK
  <2>2. eng = [b \in Browser |-> eng[b]]
    BY DEF Init
  <2> QED BY <2>1, <2>2
<1>10. KeptOK(kept, clock)
  <2>1. kept = [b \in Browser |-> eng[b].items]
    BY DEF Init
  <2>2. \A b \in Browser : ItemsOK(eng[b].items, clock) /\ eng[b].items \in [SyncId -> Item]
    BY <1>8 DEF EngOK, ItemsOK
  <2> QED BY <2>1, <2>2 DEF KeptOK
<1>11. tree \in [Browser -> Tree]
  <2>1. OldTree \in Tree
    <3>1. ASSUME NEW n \in Node PROVE OldTree[n] \in Body \cup {None}
      <4>1. CASE \E s \in Seeded : Seed[s].node = n
        <5>1. (CHOOSE s \in Seeded : Seed[s].node = n) \in Seeded
          BY <4>1
        <5> QED BY <4>1, <5>1, SeedIs DEF OldTree
      <4>2. CASE ~\E s \in Seeded : Seed[s].node = n
        BY <4>2 DEF OldTree
      <4> QED BY <4>1, <4>2
    <3>2. OldTree = [n \in Node |-> OldTree[n]]
      BY DEF OldTree
    <3> QED BY <3>1, <3>2 DEF Tree
  <2>2. [n \in Node |-> None] \in Tree
    BY DEF Tree
  <2> QED BY <2>1, <2>2 DEF Init
<1>12. awake \in [Browser -> BOOLEAN] /\ left \in Nat
  BY ConstantsAssumption DEF Init
<1> QED BY <1>2, <1>3, <1>8, <1>9, <1>10, <1>11, <1>12 DEF Typed, RelayOK

(* Every step keeps the types.                                             *)
LEMMA NextTyped == Typed /\ [Next]_vars => Typed'
<1> SUFFICES ASSUME Typed, [Next]_vars PROVE Typed'
  OBVIOUS
<1>1. CASE UNCHANGED vars
  BY <1>1 DEF vars, Typed
<1>2. ASSUME NEW b \in Browser, Engine(b) PROVE Typed'
  <2>1. CASE Wake(b)
    BY <2>1, WakeTyped
  <2>2. CASE Absorb(b)
    BY <2>2, ReceiveTyped, OpenedTyped, ApplyRemovalTyped DEF Absorb
  <2>3. CASE Upsert(b)
    BY <2>3, LookTyped, MadeTyped DEF Upsert
  <2>4. CASE Flush(b)
    BY <2>4, FlushStartTyped, FlushSkipTyped, AnsweredTyped, PublishTyped DEF Flush
  <2>5. CASE Tombs(b)
    BY <2>5, SweepTyped, BuryTyped DEF Tombs
  <2>6. CASE Merge(b)
    BY <2>6, MergeStartTyped, MergeRemoveTyped, MergeCreateTyped DEF Merge
  <2> QED BY <1>2, <2>1, <2>2, <2>3, <2>4, <2>5, <2>6 DEF Engine
<1>3. ASSUME NEW b \in Browser, User(b) PROVE Typed'
  BY <1>3, UserAddTyped, UserEditTyped, UserDeleteTyped, UserDeleteFolderTyped, SwitchTyped, KillTyped,
     MergeStartTyped DEF User
<1> QED BY <1>1, <1>2, <1>3 DEF Next

(* The types, for whole behaviours.                                        *)
LEMMA SpecTyped == Spec => []Typed
  BY InitTyped, NextTyped, PTL DEF Spec

(* Every table of every engine holds sync ids, bookmarks and bodies, and   *)
(* no engine has stamped an item with a second the relay has not reached:  *)
(* not the tombstone it stamps itself, not an item that an OK stamps late, *)
(* not one that a stopped worker finds stored. (absorb() drops an event    *)
(* that is no newer than the item it is about.)                            *)
THEOREM TypeCorrect == Spec => []TypeOK
<1>1. Typed => TypeOK
  <2> SUFFICES ASSUME Typed PROVE TypeOK
    OBVIOUS
  <2>1. ASSUME NEW s \in SyncId PROVE relay[s].at \in 0..clock[s] /\ relay[s].body \in Body \cup {None}
    BY DEF Typed, RelayOK, Event
  <2>2. ASSUME NEW b \in Browser
        PROVE  LET e == eng[b] IN
               /\ tree[b] \in [Node -> Body \cup {None}]
               /\ e.map \in [SyncId -> Node \cup {0}] /\ e.rmap \in [Node -> SyncId \cup {0}]
               /\ e.queue \cup e.writing \subseteq Node /\ e.tomb \cup e.remove \subseteq SyncId
    BY TypedAt DEF Tree, Eng
  <2>3. ASSUME NEW b \in Browser, NEW s \in SyncId
        PROVE  eng[b].items[s].at \in 0..clock[s] /\ (eng[b].items[s].live => BodyOf(eng[b].items[s]) \in Body)
    BY TypedAt DEF ItemsOK, Item
  <2> QED BY <2>1, <2>2, <2>3 DEF TypeOK
<1> QED BY <1>1, SpecTyped, PTL
-----------------------------------------------------------------------------
(* The page of a sync id.  As long as nobody gives a bookmark another URL  *)
(* every event, item, task and bookmark of a sync id is about that page.   *)
Home(s) == IF s \in Seeded THEN Seed[s].url ELSE s
UrlsStay == "reurl" \notin Events /\ \A s \in Seeded \cap Url : Seed[s].url = s

(* The pages that an engine's tables take bookmark n for.                  *)
Said(m, r, o, n) ==
    {Home(s) : s \in {x \in SyncId : m[x] = n \/ r[n] = x}}
    \cup {x.body.url : x \in {y \in UNION {o[w] : w \in Sender} : y.node = n}}
Knows(m, r, o, t, g) ==
    \A n \in Node : /\ \A u, v \in Said(m, r, o, n) : u = v
                    /\ \A u \in Said(m, r, o, n) : IF t[n] = None THEN u \in g ELSE u = t[n].url
(* Items, tasks and publishes are about the page of their id; what is to   *)
(* be removed is of a page that some user deleted.                         *)
ItemPages(i) == \A s \in SyncId : i[s].url \in {0, Home(s)}
TaskPage(k, g) ==
    /\ k.step \in {"open", "look", "make"} => k.body.url = Home(k.id)
    /\ k.step = "remove" => Home(k.id) \in g
WaitPage(k) == k # NoWait => k.body.url = Home(k.id)
EngPages(e, g) ==
    /\ ItemPages(e.items)
    /\ \A u \in Url : \A s \in e.index[u] : Home(s) = u
    /\ \A c \in Chain : TaskPage(e.task[c], g)
    /\ \A w \in Sender : WaitPage(e.wait[w])
    /\ \A x \in e.create : x.body.url = Home(x.id)
    /\ \A s \in e.tomb \cup e.remove : Home(s) \in g
(* An event is about the page of its id, and a tombstone follows a         *)
(* deletion.                                                               *)
EventPage(ev, s, g) ==
    /\ ev.body # None => ev.body.url = Home(s)
    /\ ev.body = None /\ ev.at > 0 => Home(s) \in g
EngKnows(e, t, g) == Knows(e.map, e.rmap, e.out, t, g)
Pages ==
    /\ \A s \in SyncId : EventPage(relay[s], s, gone)
    /\ \A b \in Browser : /\ ItemPages(kept[b]) /\ EngPages(eng[b], gone)
                          /\ EngKnows(eng[b], tree[b], gone)

(* The id derived from a URL is of that page.                              *)
LEMMA HomeIs ==
    ASSUME UrlsStay, NEW u \in Url
    PROVE  Home(u) = u
  BY DEF UrlsStay, Home

(* One step of an engine, its tree and the deletions.                      *)
LEMMA KnowsStep ==
    ASSUME NEW m, NEW r, NEW o, NEW t, NEW g, Knows(m, r, o, t, g),
           NEW m1, NEW r1, NEW o1, NEW t1, NEW g1, g \subseteq g1,
           \A n \in Node : \A u \in Said(m1, r1, o1, n) :
              u \in Said(m, r, o, n) \/ (t1[n] # None /\ u = t1[n].url),
           \A n \in Node : t1[n] # None => \/ t[n] # None /\ t1[n].url = t[n].url
                                           \/ Said(m, r, o, n) = {},
           \A n \in Node : t1[n] = None /\ t[n] # None => t[n].url \in g1
    PROVE  Knows(m1, r1, o1, t1, g1)
<1> SUFFICES ASSUME NEW n \in Node
             PROVE  /\ \A u, v \in Said(m1, r1, o1, n) : u = v
                    /\ \A u \in Said(m1, r1, o1, n) : IF t1[n] = None THEN u \in g1 ELSE u = t1[n].url
  BY DEF Knows
<1> DEFINE A == Said(m, r, o, n)
           B == Said(m1, r1, o1, n)
<1>1. /\ \A u, v \in A : u = v
      /\ \A u \in A : IF t[n] = None THEN u \in g ELSE u = t[n].url
  BY DEF Knows
<1>2. \A u \in B : u \in A \/ (t1[n] # None /\ u = t1[n].url)
  OBVIOUS
<1>3. t1[n] # None => (t[n] # None /\ t1[n].url = t[n].url) \/ A = {}
  OBVIOUS
<1>4. t1[n] = None /\ t[n] # None => t[n].url \in g1
  OBVIOUS
<1> HIDE DEF A, B
<1>5. CASE t1[n] = None
  BY <1>1, <1>2, <1>4, <1>5 DEF B
<1>6. CASE t1[n] # None
  BY <1>1, <1>2, <1>3, <1>6 DEF B
<1> QED BY <1>5, <1>6

(* Said, written out.                                                      *)
LEMMA SaidIs ==
    ASSUME NEW m, NEW r, NEW o, NEW n, NEW u
    PROVE  u \in Said(m, r, o, n) <=>
             \/ \E s \in SyncId : (m[s] = n \/ r[n] = s) /\ Home(s) = u
             \/ \E w \in Sender : \E x \in o[w] : x.node = n /\ x.body.url = u
  BY DEF Said

(* Tables that name less.                                                  *)
LEMMA KnowsLess ==
    ASSUME NEW m, NEW r, NEW o, NEW t, NEW g, Knows(m, r, o, t, g),
           NEW m1, NEW r1, NEW o1,
           \A s \in SyncId : m1[s] = m[s] \/ m1[s] = 0,
           \A n \in Node : r1[n] = r[n] \/ r1[n] = 0,
           \A w \in Sender : o1[w] \subseteq o[w]
    PROVE  Knows(m1, r1, o1, t, g)
<1>1. ASSUME NEW n \in Node, NEW u \in Said(m1, r1, o1, n) PROVE u \in Said(m, r, o, n)
  <2>1. \/ \E s \in SyncId : (m1[s] = n \/ r1[n] = s) /\ Home(s) = u
        \/ \E w \in Sender : \E x \in o1[w] : x.node = n /\ x.body.url = u
    BY SaidIs
  <2>2. n # 0 /\ 0 \notin SyncId
    BY Basics
  <2>3. \/ \E s \in SyncId : (m[s] = n \/ r[n] = s) /\ Home(s) = u
        \/ \E w \in Sender : \E x \in o[w] : x.node = n /\ x.body.url = u
    BY <2>1, <2>2
  <2> QED BY <2>3, SaidIs
<1> QED BY <1>1 DEF Knows

(* A bookmark gets an id of its page, or one of the page it is taken for.  *)
LEMMA KnowsRemember ==
    ASSUME NEW m \in [SyncId -> Node \cup {0}], NEW r \in [Node -> SyncId \cup {0}], NEW o, NEW t, NEW g,
           Knows(m, r, o, t, g), NEW s \in SyncId, NEW k \in Node,
           (t[k] # None /\ t[k].url = Home(s)) \/ Home(s) \in Said(m, r, o, k)
    PROVE  Knows([m EXCEPT ![s] = k], [r EXCEPT ![k] = s], o, t, g)
<1> DEFINE m1 == [m EXCEPT ![s] = k]
           r1 == [r EXCEPT ![k] = s]
<1>1. ASSUME NEW n \in Node, NEW u \in Said(m1, r1, o, n)
      PROVE  u \in Said(m, r, o, n) \/ (t[n] # None /\ u = t[n].url)
  <2>1. \/ \E x \in SyncId : (m1[x] = n \/ r1[n] = x) /\ Home(x) = u
        \/ \E w \in Sender : \E x \in o[w] : x.node = n /\ x.body.url = u
    <3> HIDE DEF m1, r1
    <3> QED BY SaidIs
  <2>2. CASE \E w \in Sender : \E x \in o[w] : x.node = n /\ x.body.url = u
    BY <2>2, SaidIs
  <2>3. CASE \E x \in SyncId : (m1[x] = n \/ r1[n] = x) /\ Home(x) = u
    <3>1. PICK x \in SyncId : (m1[x] = n \/ r1[n] = x) /\ Home(x) = u
      BY <2>3
    <3>2. (x = s /\ n = k) \/ m[x] = n \/ r[n] = x
      BY <3>1
    <3>3. CASE x = s /\ n = k
      BY <3>1, <3>3
    <3>4. CASE m[x] = n \/ r[n] = x
      BY <3>1, <3>4, SaidIs
    <3> QED BY <3>2, <3>3, <3>4
  <2> QED BY <2>1, <2>2, <2>3
<1> HIDE DEF m1, r1
<1>2. Knows(m1, r1, o, t, g)
  BY <1>1, KnowsStep
<1> QED BY <1>2 DEF m1, r1

(* The ids that one deletion buries are of one page.                       *)
LEMMA SiblingPages ==
    ASSUME NEW e \in Eng, NEW g, EngPages(e, g), NEW s \in SyncId, NEW x \in WithSiblings(e, s)
    PROVE  Home(x) = Home(s)
<1>1. CASE x = s
  BY <1>1
<1>2. CASE x # s
  <2>1. e.items[s].url \in Url \cup {0} /\ e.items[s].url \in {0, Home(s)}
    BY DEF EngPages, ItemPages, Eng, Item
  <2>2. e.items[s].url # 0 /\ x \in e.index[e.items[s].url]
    BY <1>2 DEF WithSiblings, IdsForUrl
  <2> QED BY <2>1, <2>2 DEF EngPages
<1> QED BY <1>1, <1>2

(* More deletions, same knowledge.                                         *)
LEMMA PagesGrow ==
    ASSUME NEW e, NEW t, NEW g, NEW g1, g \subseteq g1, EngPages(e, g), EngKnows(e, t, g)
    PROVE  EngPages(e, g1) /\ EngKnows(e, t, g1)
<1>1. EngPages(e, g1)
  BY DEF EngPages, TaskPage
<1>2. EngKnows(e, t, g1)
  BY DEF EngKnows, Knows
<1> QED BY <1>1, <1>2

(* What is left to show of a step that changes one engine.                 *)
LEMMA StepPages ==
    ASSUME Typed, Pages, NEW b \in Browser, NEW e1, eng' = [eng EXCEPT ![b] = e1],
           gone \subseteq gone', NEW t1, tree' = [tree EXCEPT ![b] = t1],
           EngPages(e1, gone'), EngKnows(e1, t1, gone'),
           \A c \in Browser : ItemPages(kept'[c]),
           \A s \in SyncId : EventPage(relay'[s], s, gone')
    PROVE  Pages'
<1>1. ASSUME NEW c \in Browser PROVE EngPages(eng'[c], gone') /\ EngKnows(eng'[c], tree'[c], gone')
  <2>1. CASE c = b
    <3>1. eng'[c] = e1 /\ tree'[c] = t1
      BY <2>1 DEF Typed
    <3> QED BY <3>1
  <2>2. CASE c # b
    <3>1. eng'[c] = eng[c] /\ tree'[c] = tree[c]
      BY <2>2 DEF Typed
    <3>2. EngPages(eng[c], gone) /\ EngKnows(eng[c], tree[c], gone)
      BY DEF Pages
    <3> QED BY <3>1, <3>2, PagesGrow
  <2> QED BY <2>1, <2>2
<1> QED BY <1>1 DEF Pages

(* What Pages says of one browser.                                         *)
LEMMA PagesAt ==
    ASSUME Pages, NEW b \in Browser
    PROVE  /\ EngPages(eng[b], gone) /\ EngKnows(eng[b], tree[b], gone) /\ ItemPages(eng[b].items)
           /\ ItemPages(kept[b])
  BY DEF Pages, EngPages

(* The saved items are about the right pages too.                          *)
LEMMA SavePages ==
    ASSUME Typed, Pages, NEW b \in Browser, kept' = kept \/ SaveSoon(b)
    PROVE  \A c \in Browser : ItemPages(kept'[c])
<1>1. kept' = kept \/ kept' = [kept EXCEPT ![b] = eng[b].items]
  BY DEF SaveSoon
<1>2. ASSUME NEW c \in Browser PROVE kept'[c] = kept[c] \/ kept'[c] = eng[b].items
  BY <1>1 DEF Typed, KeptOK
<1> QED BY <1>2, PagesAt

(* A step of one engine that leaves the relay alone.                       *)
LEMMA LocalPages ==
    ASSUME Typed, Pages, NEW b \in Browser, NEW e1, Becomes(b, e1), UNCHANGED <<relay, gone>>,
           kept' = kept \/ SaveSoon(b), NEW t1, tree' = [tree EXCEPT ![b] = t1],
           EngPages(e1, gone), EngKnows(e1, t1, gone)
    PROVE  Pages'
<1>1. \A s \in SyncId : EventPage(relay'[s], s, gone')
  BY DEF Pages
<1>2. \A c \in Browser : ItemPages(kept'[c])
  BY SavePages
<1> QED BY <1>1, <1>2, StepPages DEF Becomes

(* A tree left alone, in the form the lemmas ask for.                      *)
LEMMA TreeSame ==
    ASSUME Typed, NEW b \in Browser, UNCHANGED tree
    PROVE  tree' = [tree EXCEPT ![b] = tree[b]]
  BY DEF Typed

(* Fields that name no page.                                               *)
LEMMA EngPagesSame ==
    ASSUME NEW e, NEW g, EngPages(e, g), NEW r,
           Same(r, e, {"on", "map", "rmap", "pending", "queue", "sweep", "out", "writing", "tail"})
    PROVE  EngPages(r, g)
<1>1. /\ r.items = e.items /\ r.index = e.index /\ r.task = e.task /\ r.wait = e.wait
      /\ r.create = e.create /\ r.tomb = e.tomb /\ r.remove = e.remove
  BY DEF Same, Fields
<1> QED BY <1>1 DEF EngPages

(* Fields that name no bookmark.                                           *)
LEMMA EngKnowsSame ==
    ASSUME NEW e, NEW t, NEW g, EngKnows(e, t, g), NEW r, Same(r, e, Fields \ {"map", "rmap", "out"})
    PROVE  EngKnows(r, t, g)
<1>1. r.map = e.map /\ r.rmap = e.rmap /\ r.out = e.out
  BY DEF Same, Fields
<1> QED BY <1>1 DEF EngKnows

(* The tree changes under the tables of an engine.                         *)
LEMMA TreeStep ==
    ASSUME NEW e, NEW t, NEW g, EngKnows(e, t, g), NEW t1, NEW g1, g \subseteq g1,
           \A n \in Node : t1[n] # None => \/ t[n] # None /\ t1[n].url = t[n].url
                                           \/ Said(e.map, e.rmap, e.out, n) = {},
           \A n \in Node : t1[n] = None /\ t[n] # None => t[n].url \in g1
    PROVE  EngKnows(e, t1, g1)
  BY KnowsStep DEF EngKnows

(* Nothing is said of a bookmark id the browser has not used.              *)
LEMMA UnusedSaid ==
    ASSUME Typed, NEW b \in Browser, NEW n \in Unused(b)
    PROVE  n \in Node /\ tree[b][n] = None /\ Said(eng[b].map, eng[b].rmap, eng[b].out, n) = {}
<1>1. /\ n \in Node /\ tree[b][n] = None /\ eng[b].rmap[n] = 0
      /\ \A s \in SyncId : eng[b].map[s] # n
      /\ \A w \in Sender : \A o \in eng[b].out[w] : o.node # n
  BY DEF Unused
<1>2. ASSUME NEW u \in Said(eng[b].map, eng[b].rmap, eng[b].out, n) PROVE FALSE
  BY <1>1, SaidIs, Basics
<1> QED BY <1>1, <1>2

(* A user changes the tree and the engine hears of it.                     *)
LEMMA UserPages ==
    ASSUME Typed, Pages, NEW b \in Browser, NEW x \in Waits(eng[b]), NEW P, NEW h,
           kept' = IF P THEN [kept EXCEPT ![b] = x.items] ELSE kept,
           eng' = [eng EXCEPT ![b] = IF awake[b] THEN h ELSE @],
           UNCHANGED relay, gone \subseteq gone', NEW t1, tree' = [tree EXCEPT ![b] = t1],
           EngPages(h, gone'), EngKnows(h, t1, gone'), EngKnows(eng[b], t1, gone')
    PROVE  Pages'
<1> DEFINE e1 == IF awake[b] THEN h ELSE eng[b]
<1>1. eng' = [eng EXCEPT ![b] = e1]
  BY DEF Typed
<1>2. EngPages(e1, gone') /\ EngKnows(e1, t1, gone')
  BY PagesAt, PagesGrow
<1>3. \A s \in SyncId : EventPage(relay'[s], s, gone')
  BY DEF Pages, EventPage
<1>4. x.items = eng[b].items
  BY TypedAt, WaitsIs DEF Same, Fields
<1>5. ASSUME NEW c \in Browser PROVE ItemPages(kept'[c])
  <2>1. kept'[c] = kept[c] \/ kept'[c] = eng[b].items
    BY <1>4 DEF Typed, KeptOK
  <2> QED BY <2>1, PagesAt
<1> HIDE DEF e1
<1> QED BY <1>1, <1>2, <1>3, <1>5, StepPages

(* What the engine knows before it hears of the change.                    *)
LEMMA WaitsPages ==
    ASSUME Typed, Pages, NEW b \in Browser, NEW x \in Waits(eng[b])
    PROVE  /\ x \in Eng /\ EngPages(x, gone)
           /\ x.map = eng[b].map /\ x.rmap = eng[b].rmap /\ x.out = eng[b].out
<1>1. x \in Eng /\ Same(x, eng[b], {"tail", "writing"})
  BY TypedAt, WaitsIs
<1>2. EngPages(x, gone)
  <2>1. Same(x, eng[b], {"on", "map", "rmap", "pending", "queue", "sweep", "out", "writing", "tail"})
    BY <1>1 DEF Same
  <2> QED BY <2>1, PagesAt, EngPagesSame
<1> QED BY <1>1, <1>2 DEF Same, Fields

(* The same when the engine only queues the bookmark.                      *)
LEMMA ChangePages ==
    ASSUME Typed, Pages, NEW b \in Browser, NEW n \in Node, NEW x \in Waits(eng[b]),
           eng' = [eng EXCEPT ![b] = IF awake[b] THEN OnLocalChange(x, n) ELSE @],
           kept' = IF awake[b] /\ ~Applying(x) /\ x.writing = {}
                   THEN [kept EXCEPT ![b] = x.items] ELSE kept,
           UNCHANGED relay, gone \subseteq gone', NEW t1, tree' = [tree EXCEPT ![b] = t1],
           EngKnows(eng[b], t1, gone')
    PROVE  Pages'
<1> DEFINE h == OnLocalChange(x, n)
<1>1. x \in Eng /\ EngPages(x, gone) /\ x.map = eng[b].map /\ x.rmap = eng[b].rmap /\ x.out = eng[b].out
  BY WaitsPages
<1>2. Same(h, x, {"queue"})
  BY <1>1, LocalChangeIs
<1> HIDE DEF h
<1>3. EngPages(h, gone')
  <2>1. Same(h, x, {"on", "map", "rmap", "pending", "queue", "sweep", "out", "writing", "tail"})
    BY <1>2 DEF Same
  <2>2. EngPages(h, gone)
    BY <1>1, <2>1, EngPagesSame
  <2> QED BY <2>2 DEF EngPages, TaskPage
<1>4. EngKnows(h, t1, gone')
  <2>1. h.map = eng[b].map /\ h.rmap = eng[b].rmap /\ h.out = eng[b].out
    BY <1>1, <1>2 DEF Same, Fields
  <2> QED BY <2>1 DEF EngKnows
<1>5. eng' = [eng EXCEPT ![b] = IF awake[b] THEN h ELSE @]
  BY DEF h
<1> QED BY <1>3, <1>4, <1>5, UserPages

(* One lemma per action: Pages is kept.                                    *)
LEMMA UserAddPages ==
    ASSUME Typed, Pages, NEW b \in Browser, NEW u \in Url, NEW t \in Text, UserAdd(b, u, t)
    PROVE  Pages'
<1> DEFINE n == Min(Unused(b))
           body == [url |-> u, text |-> t]
           t1 == [tree[b] EXCEPT ![n] = body]
<1>1. n \in Unused(b) /\ n \in Node
  <2>1. Unused(b) \subseteq Node /\ Unused(b) # {}
    BY DEF Unused, UserAdd
  <2> QED BY <2>1, MinIs, Basics
<1>2. UNCHANGED <<relay, gone>> /\ tree' = [tree EXCEPT ![b] = t1]
  BY DEF UserAdd
<1>3. PICK x \in Waits(eng[b]) :
         /\ eng' = [eng EXCEPT ![b] = IF awake[b] THEN OnLocalChange(x, n) ELSE @]
         /\ kept' = IF awake[b] /\ ~Applying(x) /\ x.writing = {}
                    THEN [kept EXCEPT ![b] = x.items] ELSE kept
  BY DEF UserAdd, Hears
<1> HIDE DEF n
<1>4. Said(eng[b].map, eng[b].rmap, eng[b].out, n) = {}
  BY <1>1, UnusedSaid
<1>5. tree[b] \in [Node -> Body \cup {None}] /\ body \in Body
  BY TypedAt DEF Tree, Body
<1>6. \A k \in Node : t1[k] = IF k = n THEN body ELSE tree[b][k]
  BY <1>5
<1> HIDE DEF t1, body
<1>7. EngKnows(eng[b], t1, gone')
  <2>1. EngKnows(eng[b], tree[b], gone)
    BY PagesAt
  <2> QED BY <1>2, <1>4, <1>5, <1>6, <2>1, TreeStep, Basics
<1> QED BY <1>1, <1>2, <1>3, <1>7, ChangePages

LEMMA UserEditPages ==
    ASSUME Typed, Pages, UrlsStay, NEW b \in Browser, NEW n \in Node, NEW body \in Body, UserEdit(b, n, body)
    PROVE  Pages'
<1> DEFINE t1 == [tree[b] EXCEPT ![n] = body]
<1>1. /\ UNCHANGED relay /\ gone \subseteq gone' /\ tree' = [tree EXCEPT ![b] = t1]
      /\ n \in Present(tree[b]) /\ body.url = tree[b][n].url
  BY DEF UserEdit, UrlsStay
<1>3. PICK x \in Waits(eng[b]) :
         /\ eng' = [eng EXCEPT ![b] = IF awake[b] THEN OnLocalChange(x, n) ELSE @]
         /\ kept' = IF awake[b] /\ ~Applying(x) /\ x.writing = {}
                    THEN [kept EXCEPT ![b] = x.items] ELSE kept
  BY DEF UserEdit, Hears
<1>5. tree[b] \in [Node -> Body \cup {None}] /\ tree[b][n] # None
  BY <1>1, TypedAt DEF Tree, Present
<1>6. \A k \in Node : t1[k] = IF k = n THEN body ELSE tree[b][k]
  BY <1>5
<1> HIDE DEF t1
<1>7. EngKnows(eng[b], t1, gone')
  <2>1. EngKnows(eng[b], tree[b], gone)
    BY PagesAt
  <2> QED BY <1>1, <1>5, <1>6, <2>1, TreeStep, Basics
<1> QED BY <1>1, <1>3, <1>7, ChangePages

(* Deleting bookmarks: their pages are among the deleted ones.             *)
LEMMA DeletedPages ==
    ASSUME Typed, Pages, NEW b \in Browser, NEW t1 \in Tree, Deleted(b, t1),
           \A n \in Node : t1[n] = tree[b][n] \/ t1[n] = None
    PROVE  /\ gone \subseteq gone' /\ UNCHANGED relay /\ tree' = [tree EXCEPT ![b] = t1]
           /\ \A n \in Node : tree[b][n] # None /\ t1[n] = None => tree[b][n].url \in gone'
           /\ EngKnows(eng[b], t1, gone')
<1>1. gone \subseteq gone' /\ UNCHANGED relay /\ tree' = [tree EXCEPT ![b] = t1]
  BY DEF Deleted
<1>2. \A n \in Node : tree[b][n] # None /\ t1[n] = None => tree[b][n].url \in gone'
  BY DEF Deleted, Present
<1>3. EngKnows(eng[b], t1, gone')
  <2>1. EngKnows(eng[b], tree[b], gone)
    BY PagesAt
  <2> QED BY <1>1, <1>2, <2>1, TreeStep
<1> QED BY <1>1, <1>2, <1>3

(* Forgetting says less.                                                   *)
LEMMA ForgetKnows ==
    ASSUME NEW e \in Eng, NEW t, NEW g, EngKnows(e, t, g), NEW s \in SyncId
    PROVE  EngKnows(Forget(e, s), t, g)
<1> DEFINE f == Forget(e, s)
<1>1. /\ f.map = [e.map EXCEPT ![s] = 0] /\ Same(f, e, {"map", "rmap"})
      /\ \A n \in Node : f.rmap[n] = IF n = e.map[s] /\ e.rmap[n] = s THEN 0 ELSE e.rmap[n]
  BY ForgetIs
<1> HIDE DEF f
<1>2. f.out = e.out
  BY <1>1 DEF Same, Fields
<1>3. \A x \in SyncId : f.map[x] = e.map[x] \/ f.map[x] = 0
  BY <1>1 DEF Eng
<1>4. \A n \in Node : f.rmap[n] = e.rmap[n] \/ f.rmap[n] = 0
  BY <1>1
<1>5. \A w \in Sender : f.out[w] \subseteq e.out[w]
  BY <1>2
<1>6. Knows(f.map, f.rmap, f.out, t, g)
  BY <1>3, <1>4, <1>5, KnowsLess DEF EngKnows
<1> QED BY <1>6 DEF EngKnows, f

(* Remembering says nothing new of a page.                                 *)
LEMMA RememberKnows ==
    ASSUME NEW e \in Eng, NEW t, NEW g, EngKnows(e, t, g), NEW s \in SyncId, NEW k \in Node,
           (t[k] # None /\ t[k].url = Home(s)) \/ Home(s) \in Said(e.map, e.rmap, e.out, k)
    PROVE  EngKnows(Remember(e, s, k), t, g)
<1> DEFINE f == Remember(e, s, k)
<1>1. f.map = [e.map EXCEPT ![s] = k] /\ f.rmap = [e.rmap EXCEPT ![k] = s] /\ Same(f, e, {"map", "rmap"})
  BY RememberIs
<1> HIDE DEF f
<1>2. f.out = e.out
  BY <1>1 DEF Same, Fields
<1>3. e.map \in [SyncId -> Node \cup {0}] /\ e.rmap \in [Node -> SyncId \cup {0}]
  BY DEF Eng
<1>4. Knows([e.map EXCEPT ![s] = k], [e.rmap EXCEPT ![k] = s], e.out, t, g)
  <2>1. PICK m \in [SyncId -> Node \cup {0}], r \in [Node -> SyncId \cup {0}], o \in {e.out} :
           m = e.map /\ r = e.rmap /\ o = e.out
    BY <1>3
  <2>2. Knows(m, r, o, t, g) /\ ((t[k] # None /\ t[k].url = Home(s)) \/ Home(s) \in Said(m, r, o, k))
    BY <2>1 DEF EngKnows
  <2>3. Knows([m EXCEPT ![s] = k], [r EXCEPT ![k] = s], o, t, g)
    BY <2>2, KnowsRemember
  <2> QED BY <2>1, <2>3
<1> QED BY <1>1, <1>2, <1>4 DEF EngKnows, f

(* The heir that takes over an id is a copy of its page, and the ids to    *)
(* bury are of the deleted one.                                            *)
LEMMA LocalRemovePages ==
    ASSUME NEW x \in Eng, NEW t1 \in Tree, NEW n \in Node, NEW g, EngPages(x, g), EngKnows(x, t1, g),
           x.rmap[n] # 0 => Home(x.rmap[n]) \in g
    PROVE  EngPages(OnLocalRemove(x, t1, n), g) /\ EngKnows(OnLocalRemove(x, t1, n), t1, g)
<1> DEFINE r == OnLocalRemove(x, t1, n)
           s == x.rmap[n]
           f == Forget(x, s)
<1>1. /\ r \in Eng
      /\ \/ Same(r, x, {"queue", "sweep"})
         \/ s \in SyncId /\ Same(r, x, {"queue", "tomb"}) /\ r.tomb = x.tomb \cup WithSiblings(x, s)
         \/ /\ s \in SyncId /\ Same(r, x, {"queue", "map", "rmap"})
            /\ \/ r.map = f.map /\ r.rmap = f.rmap
               \/ \E h \in Node : /\ t1[h] # None /\ t1[h].url = x.items[s].url
                                  /\ r.map = [f.map EXCEPT ![s] = h]
                                  /\ r.rmap = [f.rmap EXCEPT ![h] = s]
  BY LocalRemoveIs, Zenon
<1> HIDE DEF r
<1>2. CASE Same(r, x, {"queue", "sweep"})
  <2>1. Same(r, x, {"on", "map", "rmap", "pending", "queue", "sweep", "out", "writing", "tail"})
        /\ Same(r, x, Fields \ {"map", "rmap", "out"})
    BY <1>2 DEF Same, Fields
  <2> QED BY <2>1, EngPagesSame, EngKnowsSame DEF r
<1>3. CASE s \in SyncId /\ Same(r, x, {"queue", "tomb"}) /\ r.tomb = x.tomb \cup WithSiblings(x, s)
  <2>1. Same(r, x, Fields \ {"map", "rmap", "out"})
    BY <1>3 DEF Same, Fields
  <2>2. /\ r.items = x.items /\ r.index = x.index /\ r.task = x.task /\ r.wait = x.wait
        /\ r.create = x.create /\ r.remove = x.remove
    BY <1>3 DEF Same, Fields
  <2>3. \A y \in r.tomb : Home(y) \in g
    <3>1. s # 0
      BY <1>3, Basics
    <3>2. \A y \in WithSiblings(x, s) : Home(y) = Home(s)
      BY <1>3, SiblingPages
    <3> QED BY <1>3, <3>1, <3>2 DEF EngPages
  <2>4. EngPages(r, g)
    BY <2>2, <2>3 DEF EngPages
  <2> QED BY <2>1, <2>4, EngKnowsSame DEF r
<1>4. CASE /\ s \in SyncId /\ Same(r, x, {"queue", "map", "rmap"})
           /\ r.map = f.map /\ r.rmap = f.rmap
  <2>1. Same(r, x, {"on", "map", "rmap", "pending", "queue", "sweep", "out", "writing", "tail"})
    BY <1>4 DEF Same, Fields
  <2>2. EngKnows(f, t1, g)
    BY <1>4, ForgetKnows
  <2>3. Same(f, x, {"map", "rmap"})
    BY <1>4, ForgetIs
  <2>4. f.out = r.out
    <3> HIDE DEF f
    <3> QED BY <1>4, <2>3 DEF Same, Fields
  <2>5. EngKnows(r, t1, g)
    BY <1>4, <2>2, <2>4 DEF EngKnows
  <2> QED BY <2>1, <2>5, EngPagesSame DEF r
<1>5. ASSUME s \in SyncId, Same(r, x, {"queue", "map", "rmap"}),
             NEW h \in Node, t1[h] # None, t1[h].url = x.items[s].url,
             r.map = [f.map EXCEPT ![s] = h], r.rmap = [f.rmap EXCEPT ![h] = s]
      PROVE  EngPages(r, g) /\ EngKnows(r, t1, g)
  <2>1. Same(r, x, {"on", "map", "rmap", "pending", "queue", "sweep", "out", "writing", "tail"})
    BY <1>5 DEF Same, Fields
  <2>2. EngKnows(f, t1, g)
    BY <1>5, ForgetKnows
  <2>3. f \in Eng /\ Same(f, x, {"map", "rmap"})
    BY <1>5, ForgetIs
  <2> HIDE DEF f
  <2>4. f.out = r.out
    BY <1>5, <2>3 DEF Same, Fields
  <2>5. t1[h].url = Home(s)
    <3>1. t1[h].url \in Url
      BY <1>5, Basics DEF Tree
    <3>2. x.items[s].url \in {0, Home(s)}
      BY <1>5 DEF EngPages, ItemPages
    <3> QED BY <1>5, <3>1, <3>2, Basics
  <2>6. PICK z \in SyncId : z = s
    BY <1>5
  <2>7. EngKnows(Remember(f, z, h), t1, g)
    BY <1>5, <2>2, <2>3, <2>5, <2>6, RememberKnows
  <2>8. /\ Remember(f, z, h).map = [f.map EXCEPT ![z] = h] /\ Remember(f, z, h).rmap = [f.rmap EXCEPT ![h] = z]
        /\ Same(Remember(f, z, h), f, {"map", "rmap"})
    BY <2>3, RememberIs
  <2>9. Remember(f, z, h).out = r.out
    BY <2>4, <2>8 DEF Same, Fields
  <2>10. EngKnows(r, t1, g)
    BY <1>5, <2>6, <2>7, <2>8, <2>9 DEF EngKnows
  <2> QED BY <2>1, <2>10, EngPagesSame
<1> QED BY <1>1, <1>2, <1>3, <1>4, <1>5 DEF r

LEMMA UserDeletePages ==
    ASSUME Typed, Pages, NEW b \in Browser, NEW n \in Node, UserDelete(b, n)
    PROVE  Pages'
<1> DEFINE t1 == [tree[b] EXCEPT ![n] = None]
<1>1. t1 \in Tree /\ \A k \in Node : t1[k] = IF k = n THEN None ELSE tree[b][k]
  BY TypedAt DEF Tree
<1>2. Deleted(b, t1) /\ tree[b][n] # None
  BY DEF UserDelete, Present
<1>3. PICK x \in Waits(eng[b]) :
         /\ eng' = [eng EXCEPT ![b] = IF awake[b] THEN [OnLocalRemove(x, t1, n) EXCEPT !.writing = @ \ {n}] ELSE @]
         /\ kept' = IF awake[b] /\ ~Applying(x) /\ x.writing = {}
                    THEN [kept EXCEPT ![b] = x.items] ELSE kept
  BY DEF UserDelete, Hears
<1> HIDE DEF t1
<1>4. /\ gone \subseteq gone' /\ UNCHANGED relay /\ tree' = [tree EXCEPT ![b] = t1]
      /\ tree[b][n].url \in gone' /\ EngKnows(eng[b], t1, gone')
  BY <1>1, <1>2, DeletedPages
<1>5. x \in Eng /\ EngPages(x, gone) /\ x.map = eng[b].map /\ x.rmap = eng[b].rmap /\ x.out = eng[b].out
  BY WaitsPages
<1>6. EngPages(x, gone')
  BY <1>4, <1>5 DEF EngPages, TaskPage
<1>7. EngKnows(x, t1, gone')
  BY <1>4, <1>5 DEF EngKnows
<1>8. x.rmap[n] # 0 => Home(x.rmap[n]) \in gone'
  <2>1. x.rmap[n] \in SyncId \cup {0}
    BY <1>5 DEF Eng
  <2>2. x.rmap[n] # 0 => Home(x.rmap[n]) \in Said(eng[b].map, eng[b].rmap, eng[b].out, n)
    BY <1>5, <2>1, SaidIs
  <2>3. Knows(eng[b].map, eng[b].rmap, eng[b].out, tree[b], gone)
    BY PagesAt DEF EngKnows
  <2>4. x.rmap[n] # 0 => Home(x.rmap[n]) = tree[b][n].url
    BY <1>2, <2>2, <2>3 DEF Knows
  <2> QED BY <1>4, <2>4
<1> DEFINE r == OnLocalRemove(x, t1, n)
           h == [r EXCEPT !.writing = @ \ {n}]
<1>9. r \in Eng
  BY <1>1, <1>5, LocalRemoveIs
<1>10. EngPages(r, gone') /\ EngKnows(r, t1, gone')
  BY <1>1, <1>5, <1>6, <1>7, <1>8, LocalRemovePages
<1> HIDE DEF r
<1>11. Same(h, r, {"writing"})
  BY <1>9 DEF Eng, Same, Fields
<1>12. eng' = [eng EXCEPT ![b] = IF awake[b] THEN h ELSE @]
  BY <1>3 DEF r
<1> HIDE DEF h
<1>13. EngPages(h, gone') /\ EngKnows(h, t1, gone')
  <2>1. Same(h, r, {"on", "map", "rmap", "pending", "queue", "sweep", "out", "writing", "tail"})
        /\ Same(h, r, Fields \ {"map", "rmap", "out"})
    BY <1>11 DEF Same, Fields
  <2> QED BY <1>10, <2>1, EngPagesSame, EngKnowsSame
<1> QED BY <1>3, <1>4, <1>12, <1>13, UserPages

LEMMA UserDeleteFolderPages ==
    ASSUME Typed, Pages, NEW b \in Browser, NEW inside \in SUBSET Node, UserDeleteFolder(b, inside)
    PROVE  Pages'
<1> DEFINE t1 == [n \in Node |-> IF n \in inside THEN None ELSE tree[b][n]]
<1>1. t1 \in Tree /\ \A k \in Node : t1[k] = tree[b][k] \/ t1[k] = None
  BY TypedAt DEF Tree
<1>2. Deleted(b, t1)
  BY DEF UserDeleteFolder
<1>3. PICK x \in Waits(eng[b]) :
         /\ eng' = [eng EXCEPT ![b] = IF awake[b] THEN [OnFolderRemove(x) EXCEPT !.writing = @ \ inside] ELSE @]
         /\ kept' = IF awake[b] /\ ~Applying(x) /\ x.writing = {}
                    THEN [kept EXCEPT ![b] = x.items] ELSE kept
  BY DEF UserDeleteFolder, Hears
<1> HIDE DEF t1
<1>4. /\ gone \subseteq gone' /\ UNCHANGED relay /\ tree' = [tree EXCEPT ![b] = t1]
      /\ EngKnows(eng[b], t1, gone')
  BY <1>1, <1>2, DeletedPages
<1>5. x \in Eng /\ EngPages(x, gone) /\ x.map = eng[b].map /\ x.rmap = eng[b].rmap /\ x.out = eng[b].out
  BY WaitsPages
<1>6. EngPages(x, gone')
  BY <1>4, <1>5 DEF EngPages, TaskPage
<1>7. EngKnows(x, t1, gone')
  BY <1>4, <1>5 DEF EngKnows
<1> DEFINE r == OnFolderRemove(x)
           h == [r EXCEPT !.writing = @ \ inside]
<1>9. r \in Eng /\ Same(r, x, {"sweep"})
  BY <1>5, FolderRemoveIs
<1> HIDE DEF r
<1>11. Same(h, r, {"writing"})
  BY <1>9 DEF Eng, Same, Fields
<1>12. eng' = [eng EXCEPT ![b] = IF awake[b] THEN h ELSE @]
  BY <1>3 DEF r
<1> HIDE DEF h
<1>13. EngPages(h, gone') /\ EngKnows(h, t1, gone')
  <2>1. Same(h, x, {"on", "map", "rmap", "pending", "queue", "sweep", "out", "writing", "tail"})
        /\ Same(h, x, Fields \ {"map", "rmap", "out"})
    BY <1>9, <1>11 DEF Same, Fields
  <2> QED BY <1>6, <1>7, <2>1, EngPagesSame, EngKnowsSame
<1> QED BY <1>3, <1>4, <1>12, <1>13, UserPages

(* A step of one engine that leaves the relay and the trees alone.         *)
LEMMA QuietPages ==
    ASSUME Typed, Pages, NEW b \in Browser, NEW e1, Becomes(b, e1), UNCHANGED <<relay, tree, gone>>,
           kept' = kept \/ SaveSoon(b), EngPages(e1, gone), EngKnows(e1, tree[b], gone)
    PROVE  Pages'
<1>1. tree' = [tree EXCEPT ![b] = tree[b]]
  BY TreeSame
<1> QED BY <1>1, LocalPages

LEMMA SwitchPages ==
    ASSUME Typed, Pages, NEW b \in Browser, NEW on \in BOOLEAN, Switch(b, on)
    PROVE  Pages'
<1> DEFINE e == eng[b]
           e1 == [e EXCEPT !.on = on, !.pending = IF on THEN @ ELSE 0]
<1>1. UNCHANGED <<relay, tree, kept, gone>> /\ eng' = [eng EXCEPT ![b] = e1]
  BY DEF Switch
<1>2. e \in Eng
  BY TypedAt
<1>3. EngPages(e, gone) /\ EngKnows(e, tree[b], gone)
  BY PagesAt
<1> HIDE DEF e
<1>4. Same(e1, e, {"on", "pending"})
  BY <1>2 DEF Eng, Same, Fields
<1> HIDE DEF e1
<1>5. Same(e1, e, {"on", "map", "rmap", "pending", "queue", "sweep", "out", "writing", "tail"})
      /\ Same(e1, e, Fields \ {"map", "rmap", "out"})
  BY <1>4 DEF Same, Fields
<1>6. EngPages(e1, gone) /\ EngKnows(e1, tree[b], gone)
  BY <1>3, <1>5, EngPagesSame, EngKnowsSame
<1> QED BY <1>1, <1>6, QuietPages DEF Becomes

(* What init() rebuilds from the stored map says no more than it did.      *)
LEMMA StartedPages ==
    ASSUME NEW on \in BOOLEAN, NEW m \in [SyncId -> Node \cup {0}], NEW r \in Reverses(m),
           NEW i, NEW ck \in [SyncId -> Nat], ItemsOK(i, ck), NEW p \in Count, ItemPages(i), NEW g
    PROVE  /\ EngPages(Started(on, m, r, i, p), g)
           /\ \A n \in Node : \A u \in Said(m, r, Started(on, m, r, i, p).out, n) :
                 \E s \in SyncId : m[s] = n /\ Home(s) = u
<1> DEFINE x == Started(on, m, r, i, p)
<1>1. r \in [Node -> SyncId \cup {0}] /\ \A n \in Node : r[n] # 0 => m[r[n]] = n
  BY DEF Reverses
<1>2. /\ x.map = m /\ x.rmap = r /\ x.items = i
      /\ x.index = [u \in Url |-> {s \in SyncId : i[s].url = u}]
      /\ x.tomb = {} /\ x.remove = {} /\ x.create = {}
      /\ \A c \in Chain : x.task[c] = Idle
      /\ \A w \in Sender : x.out[w] = {} /\ x.wait[w] = NoWait
  BY <1>1, StartedIs
<1> HIDE DEF x
<1>3. EngPages(x, g)
  <2>1. \A u \in Url : \A s \in x.index[u] : Home(s) = u
    <3>1. ASSUME NEW u \in Url, NEW s \in x.index[u] PROVE Home(s) = u
      <4>1. s \in SyncId /\ i[s].url = u
        BY <1>2
      <4> QED BY <4>1, Basics DEF ItemPages
    <3> QED BY <3>1
  <2>2. \A c \in Chain : TaskPage(x.task[c], g)
    BY <1>2 DEF TaskPage, Idle
  <2>3. \A w \in Sender : WaitPage(x.wait[w])
    BY <1>2 DEF WaitPage
  <2> QED BY <1>2, <2>1, <2>2, <2>3 DEF EngPages
<1>4. ASSUME NEW n \in Node, NEW u \in Said(m, r, x.out, n)
      PROVE  \E s \in SyncId : m[s] = n /\ Home(s) = u
  <2>1. \/ \E s \in SyncId : (m[s] = n \/ r[n] = s) /\ Home(s) = u
        \/ \E w \in Sender : \E y \in x.out[w] : y.node = n /\ y.body.url = u
    BY SaidIs
  <2>2. \A s \in SyncId : r[n] = s => m[s] = n
    BY <1>1, Basics
  <2> QED BY <1>2, <2>1, <2>2
<1> QED BY <1>3, <1>4 DEF x

LEMMA KillPages ==
    ASSUME Typed, Pages, NEW b \in Browser, Kill(b)
    PROVE  Pages'
<1>1. PICK r \in Reverses(eng[b].map), i \in {kept[b], eng[b].items} :
             /\ ItemsOK(i, clock) /\ i \in {kept[b], eng[b].items}
             /\ eng' = [eng EXCEPT ![b] = Started(eng[b].on, eng[b].map, r, i, eng[b].pending)]
             /\ kept' = [kept EXCEPT ![b] = i]
             /\ r \in [Node -> SyncId \cup {0}] /\ eng[b].map \in [SyncId -> Node \cup {0}]
             /\ eng[b].on \in BOOLEAN /\ eng[b].pending \in Count
  BY KillIs
<1>2. PICK m \in [SyncId -> Node \cup {0}], on \in BOOLEAN, p \in Count :
         m = eng[b].map /\ on = eng[b].on /\ p = eng[b].pending
  BY <1>1
<1> DEFINE e1 == Started(on, m, r, i, p)
<1>3. UNCHANGED <<relay, tree, gone>> /\ eng' = [eng EXCEPT ![b] = e1]
  BY <1>1, <1>2 DEF Kill
<1>4. clock \in [SyncId -> Nat] /\ ItemPages(i) /\ r \in Reverses(m)
  BY <1>1, <1>2, TypedAt, PagesAt
<1>5. /\ EngPages(e1, gone)
      /\ \A n \in Node : \A u \in Said(m, r, e1.out, n) : \E s \in SyncId : m[s] = n /\ Home(s) = u
  <2>1. PICK ck \in [SyncId -> Nat], q \in Reverses(m) : ck = clock /\ q = r /\ ItemsOK(i, ck)
    BY <1>1, <1>4
  <2> DEFINE x == Started(on, m, q, i, p)
  <2>2. /\ EngPages(x, gone)
        /\ \A n \in Node : \A u \in Said(m, q, x.out, n) : \E s \in SyncId : m[s] = n /\ Home(s) = u
    BY <1>4, <2>1, StartedPages
  <2> QED BY <2>1, <2>2
<1>6. e1.map = m /\ e1.rmap = r
  BY DEF Started
<1> HIDE DEF e1
<1>7. Knows(m, eng[b].rmap, eng[b].out, tree[b], gone)
  BY <1>2, PagesAt DEF EngKnows
<1>8. EngKnows(e1, tree[b], gone)
  <2>1. \A n \in Node : \A u \in Said(m, r, e1.out, n) : u \in Said(m, eng[b].rmap, eng[b].out, n)
    BY <1>5, SaidIs
  <2>2. Knows(m, r, e1.out, tree[b], gone)
    BY <1>7, <2>1 DEF Knows
  <2> QED BY <1>6, <2>2 DEF EngKnows
<1>9. ASSUME NEW c \in Browser PROVE ItemPages(kept'[c])
  <2>1. kept'[c] = kept[c] \/ kept'[c] = i
    BY <1>1 DEF Typed, KeptOK
  <2> QED BY <1>4, <2>1, PagesAt
<1>10. \A s \in SyncId : EventPage(relay'[s], s, gone')
  BY <1>3 DEF Pages
<1>11. tree' = [tree EXCEPT ![b] = tree[b]]
  BY <1>3, TreeSame
<1> QED BY <1>3, <1>5, <1>8, <1>9, <1>10, <1>11, StepPages

LEMMA WakePages ==
    ASSUME Typed, Pages, NEW b \in Browser, Wake(b)
    PROVE  Pages'
  BY DEF Wake, Pages

(* An item removed or learned, a task replaced.                            *)
LEMMA RemovedPages ==
    ASSUME NEW i \in [SyncId -> Item], ItemPages(i), NEW s \in SyncId, NEW at \in Nat
    PROVE  ItemPages([i EXCEPT ![s] = Removed(at, i[s])])
<1>1. Removed(at, i[s]).url = i[s].url
  BY RemovedIs
<1> QED BY <1>1 DEF ItemPages

(* An item learned from an event of its page.                              *)
LEMMA LearnPages ==
    ASSUME NEW e \in Eng, NEW g, EngPages(e, g), NEW s \in SyncId, NEW at \in Nat, NEW body \in Body,
           body.url = Home(s)
    PROVE  EngPages(Learn(e, s, at, body), g)
<1> DEFINE l == Learn(e, s, at, body)
           h == Held(at, body)
<1>1. /\ l.items = [e.items EXCEPT ![s] = h]
      /\ \A u \in Url : l.index[u] = e.index[u] \cup IF u = body.url THEN {s} ELSE {}
      /\ Same(l, e, {"items", "index"})
  BY LearnIs
<1>5. h.url = body.url /\ e.items \in [SyncId -> Item]
  BY HeldIs DEF Eng
<1> HIDE DEF l, h
<1>2. /\ l.task = e.task /\ l.wait = e.wait
      /\ l.create = e.create /\ l.tomb = e.tomb /\ l.remove = e.remove
  BY <1>1 DEF Same, Fields
<1>3. ItemPages(l.items)
  BY <1>1, <1>5 DEF EngPages, ItemPages
<1>4. \A u \in Url : \A x \in l.index[u] : Home(x) = u
  BY <1>1 DEF EngPages
<1> QED BY <1>2, <1>3, <1>4 DEF EngPages, l

(* A chain gets another task, about the page of its id.                    *)
LEMMA TaskPages ==
    ASSUME NEW e \in Eng, NEW g, EngPages(e, g), NEW r, NEW c \in Chain, NEW k, TaskPage(k, g),
           Same(r, e, {"on", "map", "rmap", "pending", "queue", "sweep", "out", "writing", "tail", "task"}),
           r.task = [e.task EXCEPT ![c] = k]
    PROVE  EngPages(r, g)
<1>1. /\ r.items = e.items /\ r.index = e.index /\ r.wait = e.wait
      /\ r.create = e.create /\ r.tomb = e.tomb /\ r.remove = e.remove
  BY DEF Same, Fields
<1>2. \A d \in Chain : TaskPage(r.task[d], g)
  BY DEF EngPages, Eng
<1> QED BY <1>1, <1>2 DEF EngPages

LEMMA ReceivePages ==
    ASSUME Typed, Pages, NEW b \in Browser, NEW s \in SyncId, Receive(b, s)
    PROVE  Pages'
<1> DEFINE e == eng[b]
           ev == relay[s]
           gone1 == Removed(ev.at, e.items[s])
           dead == [e EXCEPT !.items[s] = gone1]
           k1 == [step |-> "open", id |-> s, at |-> ev.at, body |-> ev.body]
           k2 == [step |-> "remove", id |-> s, at |-> ev.at, body |-> None]
           r1 == [e EXCEPT !.task["absorb"] = k1]
           r2 == [dead EXCEPT !.task["absorb"] = k2]
<1>1. e \in Eng /\ ev \in Event /\ e.items \in [SyncId -> Item] /\ ev.at \in Nat /\ "absorb" \in Chain
  BY TypedAt DEF Event, Chain
<1>2. UNCHANGED <<relay, tree, gone>> /\ (kept' = kept \/ SaveSoon(b)) /\ ev.at > e.items[s].at
  BY DEF Receive
<1>3. /\ EngPages(e, gone) /\ EngKnows(e, tree[b], gone) /\ ItemPages(e.items)
      /\ EventPage(ev, s, gone)
  BY PagesAt DEF Pages
<1>4. \/ ev.body # None /\ Becomes(b, r1)
      \/ ev.body = None /\ (Becomes(b, r2) \/ Becomes(b, dead))
  BY DEF Receive
<1>5. gone1 \in Item /\ ItemPages([e.items EXCEPT ![s] = gone1])
  <2>1. PICK i \in [SyncId -> Item], at \in Nat : i = e.items /\ at = ev.at
    BY <1>1
  <2>2. ItemPages([i EXCEPT ![s] = Removed(at, i[s])]) /\ Removed(at, i[s]) \in Item
    BY <1>3, <2>1, RemovedPages, RemovedIs
  <2> QED BY <2>1, <2>2
<1> HIDE DEF e, ev, gone1
<1>6. dead \in Eng /\ dead.items = [e.items EXCEPT ![s] = gone1] /\ Same(dead, e, {"items"})
  BY <1>1, <1>5 DEF Eng, Same, Fields
<1> HIDE DEF dead
<1>7. EngPages(dead, gone) /\ EngKnows(dead, tree[b], gone)
  <2>1. /\ dead.index = e.index /\ dead.task = e.task /\ dead.wait = e.wait
        /\ dead.create = e.create /\ dead.tomb = e.tomb /\ dead.remove = e.remove
    BY <1>6 DEF Same, Fields
  <2>2. Same(dead, e, Fields \ {"map", "rmap", "out"})
    BY <1>6 DEF Same, Fields
  <2>3. EngPages(dead, gone)
    BY <1>3, <1>5, <1>6, <2>1 DEF EngPages
  <2> QED BY <1>3, <2>2, <2>3, EngKnowsSame
<1>8. CASE ev.body # None /\ Becomes(b, r1)
  <2>1. TaskPage(k1, gone) /\ k1 \in Task
    BY <1>1, <1>3, <1>8 DEF TaskPage, EventPage, Task, Event
  <2> HIDE DEF k1
  <2>2. Same(r1, e, {"task"}) /\ r1.task = [e.task EXCEPT !["absorb"] = k1]
    BY <1>1, <2>1 DEF Eng, Same, Fields
  <2> HIDE DEF r1
  <2>3. /\ Same(r1, e, {"on", "map", "rmap", "pending", "queue", "sweep", "out", "writing", "tail", "task"})
        /\ Same(r1, e, Fields \ {"map", "rmap", "out"})
    BY <2>2 DEF Same, Fields
  <2>4. EngPages(r1, gone) /\ EngKnows(r1, tree[b], gone)
    BY <1>1, <1>3, <2>1, <2>2, <2>3, TaskPages, EngKnowsSame
  <2> QED BY <1>2, <1>8, <2>4, QuietPages
<1>9. CASE ev.body = None /\ Becomes(b, r2)
  <2>1. e.items[s].at \in Nat
    BY <1>1 DEF Item
  <2>2. TaskPage(k2, gone) /\ k2 \in Task
    BY <1>1, <1>2, <1>3, <1>9, <2>1 DEF TaskPage, EventPage, Task
  <2> HIDE DEF k2
  <2>3. Same(r2, dead, {"task"}) /\ r2.task = [dead.task EXCEPT !["absorb"] = k2]
    BY <1>1, <1>6, <2>2 DEF Eng, Same, Fields
  <2> HIDE DEF r2
  <2>4. /\ Same(r2, dead, {"on", "map", "rmap", "pending", "queue", "sweep", "out", "writing", "tail", "task"})
        /\ Same(r2, dead, Fields \ {"map", "rmap", "out"})
    BY <2>3 DEF Same, Fields
  <2>5. EngPages(r2, gone) /\ EngKnows(r2, tree[b], gone)
    BY <1>1, <1>6, <1>7, <2>2, <2>3, <2>4, TaskPages, EngKnowsSame
  <2> QED BY <1>2, <1>9, <2>5, QuietPages
<1>10. CASE Becomes(b, dead)
  BY <1>2, <1>7, <1>10, QuietPages
<1> QED BY <1>4, <1>8, <1>9, <1>10

(* A chain is done.                                                        *)
LEMMA FinishedPages ==
    ASSUME NEW e \in Eng, NEW t, NEW g, EngPages(e, g), EngKnows(e, t, g), NEW c \in Chain
    PROVE  EngPages(Finished(e, c), g) /\ EngKnows(Finished(e, c), t, g)
<1> DEFINE r == Finished(e, c)
<1>1. r.task = [e.task EXCEPT ![c] = Idle] /\ Same(r, e, {"task", "tail"})
  BY FinishedIs
<1> HIDE DEF r
<1>2. /\ Same(r, e, {"on", "map", "rmap", "pending", "queue", "sweep", "out", "writing", "tail", "task"})
      /\ Same(r, e, Fields \ {"map", "rmap", "out"})
  BY <1>1 DEF Same, Fields
<1>3. TaskPage(Idle, g)
  BY DEF TaskPage, Idle
<1>4. PICK k : k = Idle
  OBVIOUS
<1>5. EngPages(r, g)
  BY <1>1, <1>2, <1>3, <1>4, TaskPages
<1> QED BY <1>2, <1>5, EngKnowsSame DEF r

(* A bookmark is marked.                                                   *)
LEMMA WritingPages ==
    ASSUME NEW e, NEW ck, EngOK(e, ck), NEW t, NEW g, EngPages(e, g), EngKnows(e, t, g), NEW S \in SUBSET Node
    PROVE  /\ [e EXCEPT !.writing = S] \in Eng
           /\ EngPages([e EXCEPT !.writing = S], g) /\ EngKnows([e EXCEPT !.writing = S], t, g)
<1> DEFINE r == [e EXCEPT !.writing = S]
<1>1. EngOK(r, ck) /\ Same(r, e, {"writing"})
  BY WritingOK
<1> HIDE DEF r
<1>2. /\ Same(r, e, {"on", "map", "rmap", "pending", "queue", "sweep", "out", "writing", "tail"})
      /\ Same(r, e, Fields \ {"map", "rmap", "out"})
  BY <1>1 DEF Same, Fields
<1>3. r \in Eng
  BY <1>1 DEF EngOK
<1> QED BY <1>2, <1>3, EngPagesSame, EngKnowsSame DEF r

LEMMA OpenedPages ==
    ASSUME Typed, Pages, NEW b \in Browser, Opened(b)
    PROVE  Pages'
<1> DEFINE e == eng[b]
           k == e.task["absorb"]
           e1 == Learn(e, k.id, k.at, k.body)
           k1 == IF e.on THEN [k EXCEPT !.step = "look"] ELSE Idle
           r == [e1 EXCEPT !.task["absorb"] = k1]
<1>1. UNCHANGED <<relay, tree, gone>> /\ SaveSoon(b) /\ Becomes(b, r) /\ k.step = "open"
  BY DEF Opened
<1>2. e \in Eng /\ EngOK(e, clock) /\ "absorb" \in Chain /\ EngPages(e, gone) /\ EngKnows(e, tree[b], gone)
  BY TypedAt, PagesAt DEF Chain
<1> HIDE DEF e
<1>3. k \in Task /\ TaskOK(k, clock) /\ TaskPage(k, gone)
  BY <1>2 DEF EngOK, Eng, EngPages
<1>4. k.id \in SyncId /\ k.at \in Nat /\ k.body \in Body /\ k.body.url = Home(k.id)
  BY <1>1, <1>3 DEF TaskOK, Task, TaskPage
<1> HIDE DEF k
<1>5. e1 \in Eng /\ Same(e1, e, {"items", "index"}) /\ EngPages(e1, gone)
  <2>1. PICK x \in Eng, s \in SyncId, at \in Nat, body \in Body :
           x = e /\ s = k.id /\ at = k.at /\ body = k.body
    BY <1>2, <1>4
  <2>2. LET z == Learn(x, s, at, body) IN z \in Eng /\ Same(z, x, {"items", "index"}) /\ EngPages(z, gone)
    BY <1>2, <1>4, <2>1, LearnIs, LearnPages
  <2> QED BY <2>1, <2>2
<1> HIDE DEF e1
<1>6. EngKnows(e1, tree[b], gone)
  <2>1. Same(e1, e, Fields \ {"map", "rmap", "out"})
    BY <1>5 DEF Same, Fields
  <2> QED BY <1>2, <2>1, EngKnowsSame
<1>7. k1 \in Task /\ TaskPage(k1, gone)
  BY <1>3, <1>4 DEF Task, TaskPage, Idle
<1> HIDE DEF k1
<1>8. Same(r, e1, {"task"}) /\ r.task = [e1.task EXCEPT !["absorb"] = k1]
  BY <1>2, <1>5, <1>7 DEF Eng, Same, Fields
<1> HIDE DEF r
<1>9. /\ Same(r, e1, {"on", "map", "rmap", "pending", "queue", "sweep", "out", "writing", "tail", "task"})
      /\ Same(r, e1, Fields \ {"map", "rmap", "out"})
  BY <1>8 DEF Same, Fields
<1>10. EngPages(r, gone) /\ EngKnows(r, tree[b], gone)
  BY <1>2, <1>5, <1>6, <1>7, <1>8, <1>9, TaskPages, EngKnowsSame
<1> QED BY <1>1, <1>10, QuietPages

(* Forgetting an id, or not.                                               *)
LEMMA ForgetPages ==
    ASSUME NEW e, NEW ck, EngOK(e, ck), NEW t, NEW g, EngPages(e, g), EngKnows(e, t, g), NEW s \in SyncId
    PROVE  /\ Forget(e, s) \in Eng /\ EngOK(Forget(e, s), ck)
           /\ EngPages(Forget(e, s), g) /\ EngKnows(Forget(e, s), t, g)
<1> DEFINE f == Forget(e, s)
<1>1. e \in Eng
  BY DEF EngOK
<1>2. f \in Eng /\ Same(f, e, {"map", "rmap"}) /\ EngOK(f, ck) /\ EngKnows(f, t, g)
  BY <1>1, ForgetIs, ForgetOK, ForgetKnows
<1> HIDE DEF f
<1>3. Same(f, e, {"on", "map", "rmap", "pending", "queue", "sweep", "out", "writing", "tail"})
  BY <1>2 DEF Same, Fields
<1> QED BY <1>2, <1>3, EngPagesSame DEF f

(* An id is remembered for a bookmark of its page.                         *)
LEMMA RememberPages ==
    ASSUME NEW e, NEW ck, EngOK(e, ck), NEW t, NEW g, EngPages(e, g), EngKnows(e, t, g), NEW s \in SyncId,
           NEW n \in Node, (t[n] # None /\ t[n].url = Home(s)) \/ Home(s) \in Said(e.map, e.rmap, e.out, n)
    PROVE  /\ Remember(e, s, n) \in Eng /\ EngOK(Remember(e, s, n), ck)
           /\ EngPages(Remember(e, s, n), g) /\ EngKnows(Remember(e, s, n), t, g)
<1> DEFINE f == Remember(e, s, n)
<1>1. e \in Eng
  BY DEF EngOK
<1>2. f \in Eng /\ Same(f, e, {"map", "rmap"}) /\ EngOK(f, ck) /\ EngKnows(f, t, g)
  BY <1>1, RememberIs, RememberOK, RememberKnows
<1> HIDE DEF f
<1>3. Same(f, e, {"on", "map", "rmap", "pending", "queue", "sweep", "out", "writing", "tail"})
  BY <1>2 DEF Same, Fields
<1> QED BY <1>2, <1>3, EngPagesSame DEF f

LEMMA ApplyRemovalPages ==
    ASSUME Typed, Pages, NEW b \in Browser, ApplyRemoval(b)
    PROVE  /\ Pages'
           /\ \A n \in Node : tree[b][n] # None /\ tree'[b][n] # tree[b][n] => tree[b][n].url \in gone
           /\ \A c \in Browser : c # b => tree'[c] = tree[c]
<1> DEFINE e == eng[b]
           s == e.task["absorb"].id
           n == e.map[s]
           e1 == IF n = 0 THEN e ELSE Forget(e, s)
           same == n # 0 /\ tree[b][n] # None /\ tree[b][n].url = e.items[s].url
           W == IF same THEN e1.writing \ {n} ELSE e1.writing
           x == [e1 EXCEPT !.writing = W]
           r == Finished(x, "absorb")
           t1 == IF same THEN [tree[b] EXCEPT ![n] = None] ELSE tree[b]
<1>1. /\ UNCHANGED <<relay, kept, gone>> /\ Becomes(b, r) /\ e.task["absorb"].step = "remove"
      /\ tree' = IF same THEN [tree EXCEPT ![b][n] = None] ELSE tree
  BY DEF ApplyRemoval
<1>2. /\ e \in Eng /\ EngOK(e, clock) /\ "absorb" \in Chain /\ EngPages(e, gone) /\ EngKnows(e, tree[b], gone)
      /\ tree[b] \in Tree
  BY TypedAt, PagesAt DEF Chain
<1>3. tree' = [tree EXCEPT ![b] = t1]
  <2>1. CASE same
    BY <1>1, <2>1
  <2>2. CASE ~same
    BY <1>1, <2>2, TreeSame
  <2> QED BY <2>1, <2>2
<1> HIDE DEF e
<1>4. s \in SyncId /\ Home(s) \in gone
  BY <1>1, <1>2 DEF EngOK, TaskOK, EngPages, TaskPage
<1> HIDE DEF s
<1>5. n \in Node \cup {0}
  BY <1>2, <1>4, NodeOf
<1>6. EngOK(e1, clock) /\ e1 \in Eng /\ EngPages(e1, gone) /\ EngKnows(e1, tree[b], gone)
  BY <1>2, <1>4, ForgetPages
<1>7. same => n \in Node /\ tree[b][n].url \in gone
  <2>1. e.items[s].url \in {0, Home(s)}
    BY <1>2, <1>4 DEF EngPages, ItemPages
  <2>2. same => n \in Node /\ tree[b][n].url \in Url
    BY <1>2, <1>5, Basics DEF Tree
  <2> QED BY <1>4, <2>1, <2>2, Basics
<1>8. \A m \in Node : t1[m] = IF same /\ m = n THEN None ELSE tree[b][m]
  BY <1>2 DEF Tree
<1> HIDE DEF e1, n, same, t1
<1>9. EngKnows(e1, t1, gone)
  <2>1. \A m \in Node : t1[m] # None => t1[m] = tree[b][m]
    BY <1>8
  <2>2. \A m \in Node : t1[m] = None /\ tree[b][m] # None => tree[b][m].url \in gone
    BY <1>7, <1>8
  <2> QED BY <1>6, <2>1, <2>2, TreeStep
<1>10. W \in SUBSET Node
  BY <1>6 DEF Eng
<1> HIDE DEF W
<1>11. x \in Eng /\ EngPages(x, gone) /\ EngKnows(x, t1, gone)
  BY <1>6, <1>9, <1>10, WritingPages
<1> HIDE DEF x
<1>12. EngPages(r, gone) /\ EngKnows(r, t1, gone)
  BY <1>2, <1>11, FinishedPages
<1> HIDE DEF r
<1>13. Pages'
  BY <1>1, <1>3, <1>12, LocalPages
<1>14. tree'[b] = t1 /\ \A c \in Browser : c # b => tree'[c] = tree[c]
  BY <1>3 DEF Typed
<1> QED BY <1>7, <1>8, <1>13, <1>14

LEMMA LookPages ==
    ASSUME Typed, Pages, NEW b \in Browser, NEW c \in Chain, Look(b, c)
    PROVE  /\ Pages'
           /\ \A m \in Node : tree[b][m] # None => tree'[b][m] # None /\ tree'[b][m].url = tree[b][m].url
           /\ \A d \in Browser : d # b => tree'[d] = tree[d]
<1> DEFINE e == eng[b]
           k == e.task[c]
           n == e.map[k.id]
           e1 == IF n = 0 THEN e ELSE Forget(e, k.id)
           twins == CopiesOf(tree[b], k.body.url)
           w == [e EXCEPT !.writing = @ \cup {n}]
<1>1. /\ k \in Task /\ k.id \in SyncId /\ k.body \in Body /\ k.step = "look"
      /\ n \in Node \cup {0} /\ EngOK(e1, clock)
      /\ UNCHANGED <<relay, clock, kept, awake, left, excused, gone, sunk>>
      /\ \/ /\ n \in Node /\ tree[b][n] # None
            /\ tree' = [tree EXCEPT ![b][n] = k.body]
            /\ Becomes(b, Finished(e, c)) \/ Becomes(b, Finished(w, c))
         \/ tree' = tree /\ Becomes(b, Finished(e1, c))
         \/ tree' = tree /\ twins # {} /\ Becomes(b, Finished(Remember(e1, k.id, Min(twins)), c))
         \/ tree' = tree /\ twins = {} /\ Becomes(b, [e1 EXCEPT !.task[c].step = "make"])
  BY LookIs, Zenon
<1>2. /\ e \in Eng /\ EngOK(e, clock) /\ tree[b] \in Tree
      /\ EngPages(e, gone) /\ EngKnows(e, tree[b], gone)
  BY TypedAt, PagesAt
<1>3. k.body.url = Home(k.id)
  BY <1>1, <1>2 DEF EngPages, TaskPage
<1>4. e1 \in Eng /\ EngPages(e1, gone) /\ EngKnows(e1, tree[b], gone) /\ e1.task = e.task
  <2>1. PICK x \in Eng, s \in SyncId : x = e /\ s = k.id
    BY <1>1, <1>2
  <2>2. /\ Forget(x, s) \in Eng /\ Forget(x, s).task = x.task
        /\ EngPages(Forget(x, s), gone) /\ EngKnows(Forget(x, s), tree[b], gone)
    <3>1. Same(Forget(x, s), x, {"map", "rmap"})
      BY ForgetIs
    <3>2. Forget(x, s).task = x.task
      BY <3>1 DEF Same, Fields
    <3> QED BY <1>2, <2>1, <3>2, ForgetPages
  <2> QED BY <1>2, <2>1, <2>2
<1> HIDE DEF e, e1
<1>5. ASSUME n \in Node, tree[b][n] # None, tree' = [tree EXCEPT ![b][n] = k.body],
             Becomes(b, Finished(e, c)) \/ Becomes(b, Finished(w, c))
      PROVE  /\ Pages'
             /\ \A m \in Node : tree[b][m] # None => tree'[b][m] # None /\ tree'[b][m].url = tree[b][m].url
             /\ \A d \in Browser : d # b => tree'[d] = tree[d]
  <2> DEFINE t1 == [tree[b] EXCEPT ![n] = k.body]
  <2>1. tree' = [tree EXCEPT ![b] = t1]
    BY <1>5
  <2>2. Home(k.id) = tree[b][n].url
    <3>1. Home(k.id) \in Said(e.map, e.rmap, e.out, n)
      BY <1>1, SaidIs
    <3> QED BY <1>2, <1>5, <3>1 DEF EngKnows, Knows
  <2>3. \A m \in Node : t1[m] = IF m = n THEN k.body ELSE tree[b][m]
    BY <1>2 DEF Tree
  <2>4. e.writing \cup {n} \in SUBSET Node
    BY <1>2, <1>5 DEF Eng
  <2> HIDE DEF t1, k
  <2>5. \A m \in Node : tree[b][m] # None => t1[m] # None /\ t1[m].url = tree[b][m].url
    BY <1>1, <1>3, <2>2, <2>3, Basics
  <2>6. EngKnows(e, t1, gone)
    <3>1. \A m \in Node : t1[m] # None => tree[b][m] # None /\ t1[m].url = tree[b][m].url
      BY <1>5, <2>3, <2>5
    <3>2. \A m \in Node : t1[m] = None => tree[b][m] = None
      BY <2>5
    <3> QED BY <1>2, <3>1, <3>2, TreeStep
  <2>7. EngPages(Finished(e, c), gone) /\ EngKnows(Finished(e, c), t1, gone)
    BY <1>2, <2>6, FinishedPages
  <2>8. EngPages(Finished(w, c), gone) /\ EngKnows(Finished(w, c), t1, gone)
    <3>1. w \in Eng /\ EngPages(w, gone) /\ EngKnows(w, t1, gone)
      <4> HIDE DEF n
      <4> QED BY <1>2, <2>4, <2>6, WritingPages
    <3> HIDE DEF w
    <3> QED BY <3>1, FinishedPages
  <2> HIDE DEF w
  <2>9. PICK r : Becomes(b, r) /\ EngPages(r, gone) /\ EngKnows(r, t1, gone)
    BY <1>5, <2>7, <2>8
  <2>10. Pages'
    BY <1>1, <2>1, <2>9, LocalPages
  <2>11. tree'[b] = t1 /\ \A d \in Browser : d # b => tree'[d] = tree[d]
    BY <2>1 DEF Typed
  <2> QED BY <2>5, <2>10, <2>11
<1>6. CASE tree' = tree /\ Becomes(b, Finished(e1, c))
  <2>1. EngPages(Finished(e1, c), gone) /\ EngKnows(Finished(e1, c), tree[b], gone)
    BY <1>4, FinishedPages
  <2>2. Pages'
    BY <1>1, <1>6, <2>1, QuietPages
  <2> QED BY <1>6, <2>2
<1>7. CASE tree' = tree /\ twins # {} /\ Becomes(b, Finished(Remember(e1, k.id, Min(twins)), c))
  <2>1. Min(twins) \in Node /\ tree[b][Min(twins)] # None /\ tree[b][Min(twins)].url = k.body.url
    BY <1>2, <1>7, TwinIs, CopiesIs
  <2>2. PICK s \in SyncId, m \in Node : s = k.id /\ m = Min(twins)
    BY <1>1, <2>1
  <2> DEFINE r == Remember(e1, s, m)
  <2>3. r \in Eng /\ EngPages(r, gone) /\ EngKnows(r, tree[b], gone)
    BY <1>1, <1>3, <1>4, <2>1, <2>2, RememberPages
  <2>4. Becomes(b, Finished(r, c))
    BY <1>7, <2>2
  <2> HIDE DEF r
  <2>5. EngPages(Finished(r, c), gone) /\ EngKnows(Finished(r, c), tree[b], gone)
    BY <2>3, FinishedPages
  <2>6. Pages'
    BY <1>1, <1>7, <2>4, <2>5, QuietPages
  <2> QED BY <1>7, <2>6
<1>8. CASE tree' = tree /\ twins = {} /\ Becomes(b, [e1 EXCEPT !.task[c].step = "make"])
  <2> DEFINE r == [e1 EXCEPT !.task[c].step = "make"]
             k1 == [k EXCEPT !.step = "make"]
  <2>1. Same(r, e1, {"task"}) /\ r.task = [e1.task EXCEPT ![c] = [e1.task[c] EXCEPT !.step = "make"]]
    BY <1>1, <1>4, MakeIs
  <2> HIDE DEF r
  <2>2. r.task = [e1.task EXCEPT ![c] = k1]
    BY <1>4, <2>1
  <2>3. TaskPage(k1, gone)
    <3> HIDE DEF k
    <3> QED BY <1>1, <1>3 DEF TaskPage, Task
  <2> HIDE DEF k1
  <2>4. /\ Same(r, e1, {"on", "map", "rmap", "pending", "queue", "sweep", "out", "writing", "tail", "task"})
        /\ Same(r, e1, Fields \ {"map", "rmap", "out"})
    BY <2>1 DEF Same, Fields
  <2>5. EngPages(r, gone) /\ EngKnows(r, tree[b], gone)
    BY <1>4, <2>2, <2>3, <2>4, TaskPages, EngKnowsSame
  <2>6. Pages'
    BY <1>1, <1>8, <2>5, QuietPages DEF r
  <2> QED BY <1>8, <2>6
<1> QED BY <1>1, <1>5, <1>6, <1>7, <1>8

LEMMA MakePages ==
    ASSUME Typed, Pages, NEW b \in Browser, NEW c \in Chain, Make(b, c)
    PROVE  /\ Pages'
           /\ \A m \in Node : tree[b][m] # None => tree'[b][m] = tree[b][m]
           /\ \A d \in Browser : d # b => tree'[d] = tree[d]
<1> DEFINE e == eng[b]
           k == e.task[c]
           n == Min(Unused(b))
           r == Remember(e, k.id, n)
           r1 == [r EXCEPT !.writing = @ \cup {n}]
           t1 == [tree[b] EXCEPT ![n] = k.body]
<1>1. /\ k.step = "make" /\ Unused(b) # {} /\ tree' = [tree EXCEPT ![b] = t1]
      /\ Becomes(b, Finished(r1, c))
      /\ UNCHANGED <<relay, kept, gone>>
  BY DEF Make
<1>2. /\ e \in Eng /\ EngOK(e, clock) /\ tree[b] \in Tree
      /\ EngPages(e, gone) /\ EngKnows(e, tree[b], gone)
  BY TypedAt, PagesAt
<1>3. k.id \in SyncId /\ k.body \in Body /\ k.body.url = Home(k.id)
  BY <1>1, <1>2 DEF EngOK, TaskOK, EngPages, TaskPage
<1>4. n \in Node /\ tree[b][n] = None /\ Said(e.map, e.rmap, e.out, n) = {}
  <2>1. Unused(b) \subseteq Node
    BY DEF Unused
  <2>2. n \in Unused(b)
    BY <1>1, <2>1, MinIs, Basics
  <2> QED BY <2>2, UnusedSaid
<1> HIDE DEF e, n
<1>5. \A m \in Node : t1[m] = IF m = n THEN k.body ELSE tree[b][m]
  BY <1>2 DEF Tree
<1> HIDE DEF k, t1
<1>6. EngKnows(e, t1, gone)
  <2>1. \A m \in Node : t1[m] = None => tree[b][m] = None
    BY <1>3, <1>4, <1>5, Basics
  <2> QED BY <1>2, <1>4, <1>5, <2>1, TreeStep
<1>7. r \in Eng /\ EngOK(r, clock) /\ EngPages(r, gone) /\ EngKnows(r, t1, gone)
  <2>1. PICK s \in SyncId : s = k.id
    BY <1>3
  <2>2. t1[n] # None /\ t1[n].url = Home(s)
    BY <1>3, <1>4, <1>5, <2>1, Basics
  <2> QED BY <1>2, <1>4, <1>6, <2>1, <2>2, RememberPages
<1> HIDE DEF r
<1>8. r.writing \cup {n} \in SUBSET Node
  BY <1>4, <1>7 DEF Eng
<1>9. r1 \in Eng /\ EngPages(r1, gone) /\ EngKnows(r1, t1, gone)
  BY <1>7, <1>8, WritingPages
<1> HIDE DEF r1
<1>10. EngPages(Finished(r1, c), gone) /\ EngKnows(Finished(r1, c), t1, gone)
  BY <1>9, FinishedPages
<1>11. Pages'
  BY <1>1, <1>10, LocalPages
<1>12. tree'[b] = t1 /\ \A d \in Browser : d # b => tree'[d] = tree[d]
  BY <1>1 DEF Typed
<1> QED BY <1>4, <1>5, <1>11, <1>12

(* What is to be published is what the tables already say of a bookmark,   *)
(* or what was read from the tree.                                         *)
LEMMA OutKnows ==
    ASSUME NEW e, NEW t, NEW g, EngKnows(e, t, g), NEW r, r.map = e.map, r.rmap = e.rmap,
           \A w \in Sender : \A x \in r.out[w] :
              x \in e.out[w] \/ (t[x.node] # None /\ x.body.url = t[x.node].url)
    PROVE  EngKnows(r, t, g)
<1>1. ASSUME NEW n \in Node, NEW u \in Said(r.map, r.rmap, r.out, n)
      PROVE  u \in Said(e.map, e.rmap, e.out, n) \/ (t[n] # None /\ u = t[n].url)
  <2>1. \/ \E s \in SyncId : (e.map[s] = n \/ e.rmap[n] = s) /\ Home(s) = u
        \/ \E w \in Sender : \E x \in r.out[w] : x.node = n /\ x.body.url = u
    BY SaidIs
  <2>2. CASE \E s \in SyncId : (e.map[s] = n \/ e.rmap[n] = s) /\ Home(s) = u
    BY <2>2, SaidIs
  <2>3. CASE \E w \in Sender : \E x \in r.out[w] : x.node = n /\ x.body.url = u
    <3>0. PICK w \in Sender : \E x \in r.out[w] : x.node = n /\ x.body.url = u
      BY <2>3
    <3>1. PICK x \in r.out[w] : x.node = n /\ x.body.url = u
      BY <3>0
    <3>2. CASE x \in e.out[w]
      BY <3>1, <3>2, SaidIs
    <3>3. CASE t[x.node] # None /\ x.body.url = t[x.node].url
      BY <3>1, <3>3
    <3> QED BY <3>1, <3>2, <3>3
  <2> QED BY <2>1, <2>2, <2>3
<1>2. Knows(r.map, r.rmap, r.out, t, g)
  BY <1>1, KnowsStep DEF EngKnows
<1> QED BY <1>2 DEF EngKnows

LEMMA FlushStartPages ==
    ASSUME Typed, Pages, NEW b \in Browser, FlushStart(b)
    PROVE  Pages'
<1> DEFINE e == eng[b]
           S == {[node |-> n, body |-> tree[b][n]] : n \in e.queue \cap Present(tree[b])}
           r == [e EXCEPT !.queue = {}, !.out["flush"] = S]
<1>1. UNCHANGED <<relay, tree, kept, gone>> /\ Becomes(b, r)
  BY DEF FlushStart
<1>2. e \in Eng /\ EngPages(e, gone) /\ EngKnows(e, tree[b], gone)
  BY TypedAt, PagesAt
<1>3. \A x \in S : tree[b][x.node] # None /\ x.body.url = tree[b][x.node].url
  BY DEF Present
<1> HIDE DEF e, S
<1>4. Same(r, e, {"queue", "out"}) /\ r.out = [e.out EXCEPT !["flush"] = S] /\ e.out \in [Sender -> SUBSET Outgoing]
  BY <1>2 DEF Eng, Same, Fields
<1> HIDE DEF r
<1>5. Same(r, e, {"on", "map", "rmap", "pending", "queue", "sweep", "out", "writing", "tail"})
      /\ r.map = e.map /\ r.rmap = e.rmap
  BY <1>4 DEF Same, Fields
<1>6. \A w \in Sender : \A x \in r.out[w] :
         x \in e.out[w] \/ (tree[b][x.node] # None /\ x.body.url = tree[b][x.node].url)
  BY <1>3, <1>4
<1>7. EngPages(r, gone) /\ EngKnows(r, tree[b], gone)
  BY <1>2, <1>5, <1>6, EngPagesSame, OutKnows
<1> QED BY <1>1, <1>7, QuietPages

LEMMA FlushSkipPages ==
    ASSUME Typed, Pages, NEW b \in Browser, NEW o, FlushSkip(b, o)
    PROVE  Pages'
<1> DEFINE e == eng[b]
           S == e.out["flush"] \ {o}
           r == [e EXCEPT !.out["flush"] = S]
<1>1. UNCHANGED <<relay, tree, kept, gone>> /\ Becomes(b, r)
  BY DEF FlushSkip, Becomes
<1>2. e \in Eng /\ EngPages(e, gone) /\ EngKnows(e, tree[b], gone)
  BY TypedAt, PagesAt
<1> HIDE DEF e
<1>3. "flush" \in Sender /\ e.out \in [Sender -> SUBSET Outgoing] /\ S \subseteq e.out["flush"] /\ S \in SUBSET Outgoing
  BY <1>2 DEF Eng, Sender
<1> HIDE DEF S
<1>4. Same(r, e, {"out"}) /\ r.out = [e.out EXCEPT !["flush"] = S]
  BY <1>2, <1>3, OutIs
<1> HIDE DEF r
<1>5. Same(r, e, {"on", "map", "rmap", "pending", "queue", "sweep", "out", "writing", "tail"})
      /\ r.map = e.map /\ r.rmap = e.rmap
  BY <1>4 DEF Same, Fields
<1>6. \A w \in Sender : \A x \in r.out[w] : x \in e.out[w]
  BY <1>3, <1>4
<1>7. EngPages(r, gone) /\ EngKnows(r, tree[b], gone)
  BY <1>2, <1>5, <1>6, EngPagesSame, OutKnows
<1> QED BY <1>1, <1>7, QuietPages

(* A publish waits for its OK.                                             *)
LEMMA WaitPages ==
    ASSUME NEW e \in Eng, NEW g, EngPages(e, g), NEW w \in Sender, NEW k \in Wait, WaitPage(k)
    PROVE  EngPages([e EXCEPT !.wait[w] = k], g)
<1> DEFINE r == [e EXCEPT !.wait[w] = k]
<1>1. Same(r, e, {"wait"}) /\ r.wait = [e.wait EXCEPT ![w] = k] /\ e.wait \in [Sender -> Wait]
  BY DEF Eng, Same, Fields
<1> HIDE DEF r
<1>2. /\ r.items = e.items /\ r.index = e.index /\ r.task = e.task
      /\ r.create = e.create /\ r.tomb = e.tomb /\ r.remove = e.remove
  BY <1>1 DEF Same, Fields
<1>3. \A v \in Sender : WaitPage(r.wait[v])
  BY <1>1 DEF EngPages
<1>4. EngPages(r, g)
  BY <1>2, <1>3 DEF EngPages
<1> QED BY <1>4 DEF r

LEMMA PublishPages ==
    ASSUME Typed, Pages, UrlsStay, NEW b \in Browser, NEW w \in Sender, NEW o, Publish(b, w, o)
    PROVE  Pages'
<1> DEFINE e == eng[b]
           s == IF e.rmap[o.node] # 0 THEN e.rmap[o.node] ELSE o.body.url
           m == Remember(e, s, o.node)
           e1 == [m EXCEPT !.out[w] = @ \ {o}]
           k == [id |-> s, at |-> clock[s] + 1, body |-> o.body]
           r == [e1 EXCEPT !.wait[w] = k]
<1>1. /\ o \in e.out[w] /\ o.node \in Node /\ o.body \in Body /\ s \in SyncId
      /\ m \in Eng /\ e1 \in Eng /\ Same(e1, m, {"out"})
      /\ Stored(s, o.body) \/ Refused(s, o.body.url) \/ Unheard(s, o.body)
      /\ Becomes(b, r) \/ Becomes(b, e1)
      /\ UNCHANGED <<tree, kept, awake, gone, sunk>>
  BY PublishIs, Zenon
<1>2. relay' = relay \/ relay' = [relay EXCEPT ![s] = [at |-> clock[s] + 1, body |-> o.body]]
  BY <1>1, SentTyped
<1>3. /\ e \in Eng /\ EngOK(e, clock) /\ clock \in [SyncId -> Nat]
      /\ EngPages(e, gone) /\ EngKnows(e, tree[b], gone)
  BY TypedAt, PagesAt
<1> HIDE DEF e
<1>4. o.body.url = Home(s) /\ Home(s) \in Said(e.map, e.rmap, e.out, o.node)
  <2>0. PICK n \in Node, z \in SyncId, u \in Url : n = o.node /\ z = s /\ u = o.body.url
    BY <1>1, Basics
  <2> DEFINE A == Said(e.map, e.rmap, e.out, n)
  <2>1. u \in A
    BY <1>1, <2>0, SaidIs
  <2>2. CASE e.rmap[n] # 0
    <3>1. z = e.rmap[n]
      BY <2>0, <2>2
    <3>2. Home(z) \in A
      BY <3>1, SaidIs
    <3>3. \A x, y \in A : x = y
      BY <1>3 DEF EngKnows, Knows
    <3> QED BY <2>0, <2>1, <3>2, <3>3
  <2>3. CASE e.rmap[n] = 0
    <3>1. z = u
      BY <2>0, <2>3
    <3> QED BY <2>0, <2>1, <3>1, HomeIs
  <2> QED BY <2>2, <2>3
<1> HIDE DEF s
<1>5. EngPages(m, gone) /\ EngKnows(m, tree[b], gone) /\ Same(m, e, {"map", "rmap"})
  BY <1>1, <1>3, <1>4, RememberPages, RememberIs
<1> HIDE DEF m
<1>13. e1.out = [m.out EXCEPT ![w] = m.out[w] \ {o}]
  BY <1>1 DEF Eng
<1> HIDE DEF e1
<1>6. EngPages(e1, gone) /\ EngKnows(e1, tree[b], gone)
  <2>1. Same(e1, m, {"on", "map", "rmap", "pending", "queue", "sweep", "out", "writing", "tail"})
        /\ e1.map = m.map /\ e1.rmap = m.rmap
    BY <1>1 DEF Same, Fields
  <2>2. m.out = e.out /\ e.out \in [Sender -> SUBSET Outgoing]
    BY <1>3, <1>5 DEF Same, Fields, Eng
  <2>3. \A v \in Sender : \A x \in e1.out[v] : x \in m.out[v]
    BY <1>13, <2>2
  <2> QED BY <1>5, <2>1, <2>3, EngPagesSame, OutKnows
<1>7. k \in Wait /\ WaitPage(k)
  <2>1. clock[s] + 1 \in Nat
    BY <1>1, <1>3
  <2> QED BY <1>1, <1>4, <2>1 DEF Wait, WaitPage
<1> HIDE DEF k
<1>8. EngPages(r, gone) /\ EngKnows(r, tree[b], gone)
  <2>1. EngPages(r, gone)
    BY <1>1, <1>6, <1>7, WaitPages
  <2>2. Same(r, e1, Fields \ {"map", "rmap", "out"})
    BY <1>1 DEF Eng, Same, Fields
  <2> HIDE DEF r
  <2> QED BY <1>6, <2>1, <2>2, EngKnowsSame
<1> HIDE DEF r
<1>9. PICK x : Becomes(b, x) /\ EngPages(x, gone) /\ EngKnows(x, tree[b], gone)
  BY <1>1, <1>6, <1>8
<1>10. ASSUME NEW z \in SyncId PROVE EventPage(relay'[z], z, gone')
  <2>1. relay \in [SyncId -> Event] /\ EventPage(relay[z], z, gone)
    BY DEF Typed, RelayOK, Pages
  <2>2. o.body # None
    BY <1>1, Basics
  <2> QED BY <1>1, <1>2, <1>4, <2>1, <2>2 DEF EventPage
<1>11. \A c \in Browser : ItemPages(kept'[c])
  BY <1>1 DEF Pages
<1>12. tree' = [tree EXCEPT ![b] = tree[b]] /\ gone' = gone
  BY <1>1, TreeSame
<1> QED BY <1>9, <1>10, <1>11, <1>12, StepPages DEF Becomes

LEMMA AnsweredPages ==
    ASSUME Typed, Pages, NEW b \in Browser, NEW w \in Sender, Answered(b, w)
    PROVE  Pages'
<1> DEFINE e == eng[b]
           k == e.wait[w]
           now == IF "ok" \in Slow THEN clock[k.id] ELSE k.at
           l == Learn(e, k.id, now, k.body)
           r == [l EXCEPT !.wait[w] = NoWait]
<1>1. UNCHANGED <<relay, tree, gone>> /\ SaveSoon(b) /\ Becomes(b, r) /\ k # NoWait
  BY DEF Answered
<1>2. /\ e \in Eng /\ EngOK(e, clock) /\ clock \in [SyncId -> Nat]
      /\ EngPages(e, gone) /\ EngKnows(e, tree[b], gone)
  BY TypedAt, PagesAt
<1> HIDE DEF e
<1>3. k \in Wait /\ WaitOK(k, clock) /\ WaitPage(k)
  BY <1>2 DEF EngOK, Eng, EngPages
<1> HIDE DEF k
<1>4. k.id \in SyncId /\ k.at \in Nat /\ k.body \in Body /\ k.body.url = Home(k.id) /\ now \in Nat
  BY <1>1, <1>2, <1>3 DEF WaitOK, Wait, WaitPage
<1> HIDE DEF now
<1>5. l \in Eng /\ Same(l, e, {"items", "index"}) /\ EngPages(l, gone)
  <2>1. PICK x \in Eng, s \in SyncId, at \in Nat, body \in Body :
           x = e /\ s = k.id /\ at = now /\ body = k.body
    BY <1>2, <1>4
  <2>2. LET z == Learn(x, s, at, body) IN z \in Eng /\ Same(z, x, {"items", "index"}) /\ EngPages(z, gone)
    BY <1>2, <1>4, <2>1, LearnIs, LearnPages
  <2> QED BY <2>1, <2>2
<1> HIDE DEF l
<1>6. EngKnows(l, tree[b], gone)
  <2>1. Same(l, e, Fields \ {"map", "rmap", "out"})
    BY <1>5 DEF Same, Fields
  <2> QED BY <1>2, <2>1, EngKnowsSame
<1>7. PICK z \in Wait : z = NoWait /\ WaitPage(z)
  BY DEF WaitPage, Wait, NoWait
<1>8. EngPages(r, gone)
  BY <1>5, <1>7, WaitPages
<1>9. Same(r, l, Fields \ {"map", "rmap", "out"})
  BY <1>5, <1>7 DEF Eng, Same, Fields
<1> HIDE DEF r
<1> QED BY <1>1, <1>6, <1>8, <1>9, EngKnowsSame, QuietPages

LEMMA BuryPages ==
    ASSUME Typed, Pages, NEW b \in Browser, NEW s \in SyncId, Bury(b, s)
    PROVE  Pages'
<1> DEFINE e == eng[b]
           f == Forget(e, s)
           r == [f EXCEPT !.items[s] = Removed(clock[s] + 1, @), !.tomb = @ \ {s}]
<1>1. /\ s \in e.tomb /\ Becomes(b, r) /\ SaveSoon(b)
      /\ f \in Eng /\ r \in Eng /\ Same(r, f, {"items", "tomb"}) /\ r.tomb = e.tomb \ {s}
      /\ Stored(s, None) \/ Refused(s, relay[s].body.url)
      /\ UNCHANGED <<tree, awake, gone, sunk>>
  BY BuryIs, Zenon
<1>2. r.items = [e.items EXCEPT ![s] = Removed(clock[s] + 1, @)]
  BY BuryIs
<1>3. relay' = relay \/ relay' = [relay EXCEPT ![s] = [at |-> clock[s] + 1, body |-> None]]
  BY <1>1, SentTyped
<1>4. /\ e \in Eng /\ EngOK(e, clock) /\ clock \in [SyncId -> Nat] /\ e.items \in [SyncId -> Item]
      /\ EngPages(e, gone) /\ EngKnows(e, tree[b], gone) /\ ItemPages(e.items)
  BY TypedAt, PagesAt
<1> HIDE DEF e
<1>5. EngPages(f, gone) /\ EngKnows(f, tree[b], gone) /\ Same(f, e, {"map", "rmap"})
  BY <1>4, ForgetPages, ForgetIs
<1>6. Home(s) \in gone
  BY <1>1, <1>4 DEF EngPages
<1> HIDE DEF f, r
<1>7. ItemPages(r.items)
  <2>1. PICK i \in [SyncId -> Item], at \in Nat : i = e.items /\ at = clock[s] + 1
    BY <1>4
  <2>2. ItemPages([i EXCEPT ![s] = Removed(at, i[s])])
    BY <1>4, <2>1, RemovedPages
  <2> QED BY <1>2, <2>1, <2>2
<1>8. EngPages(r, gone) /\ EngKnows(r, tree[b], gone)
  <2>1. /\ r.index = f.index /\ r.task = f.task /\ r.wait = f.wait
        /\ r.create = f.create /\ r.remove = f.remove
    BY <1>1 DEF Same, Fields
  <2>2. r.tomb \subseteq f.tomb
    <3>1. f.tomb = e.tomb
      BY <1>5 DEF Same, Fields
    <3> QED BY <1>1, <3>1
  <2>3. EngPages(r, gone)
    BY <1>5, <1>7, <2>1, <2>2 DEF EngPages
  <2>4. Same(r, f, Fields \ {"map", "rmap", "out"})
    BY <1>1 DEF Same, Fields
  <2> QED BY <1>5, <2>3, <2>4, EngKnowsSame
<1>9. ASSUME NEW z \in SyncId PROVE EventPage(relay'[z], z, gone')
  <2>1. relay \in [SyncId -> Event] /\ EventPage(relay[z], z, gone)
    BY DEF Typed, RelayOK, Pages
  <2> QED BY <1>1, <1>3, <1>6, <2>1 DEF EventPage
<1>10. \A c \in Browser : ItemPages(kept'[c])
  BY <1>1, SavePages
<1>11. tree' = [tree EXCEPT ![b] = tree[b]] /\ gone' = gone
  BY <1>1, TreeSame
<1>12. PICK x : eng' = [eng EXCEPT ![b] = x] /\ EngPages(x, gone) /\ EngKnows(x, tree[b], gone)
  BY <1>1, <1>8 DEF Becomes
<1> QED BY <1>9, <1>10, <1>11, <1>12, StepPages

(* Only the removals and tombstones of an engine change.                   *)
LEMMA GonePages ==
    ASSUME NEW e, NEW t, NEW g, EngPages(e, g), EngKnows(e, t, g), NEW r,
           Same(r, e, {"sweep", "tomb", "remove"}), \A s \in r.tomb \cup r.remove : Home(s) \in g
    PROVE  EngPages(r, g) /\ EngKnows(r, t, g)
<1>1. /\ r.items = e.items /\ r.index = e.index /\ r.task = e.task /\ r.wait = e.wait /\ r.create = e.create
  BY DEF Same, Fields
<1>2. Same(r, e, Fields \ {"map", "rmap", "out"})
  BY DEF Same, Fields
<1>3. EngPages(r, g)
  BY <1>1 DEF EngPages
<1> QED BY <1>2, <1>3, EngKnowsSame

(* An id whose bookmark is gone is of a page that was deleted.             *)
LEMMA LostPage ==
    ASSUME NEW e \in Eng, NEW t, NEW g, EngKnows(e, t, g), NEW s \in SyncId, NEW n \in Node,
           e.map[s] = n \/ e.rmap[n] = s, t[n] = None
    PROVE  Home(s) \in g
<1>1. Home(s) \in Said(e.map, e.rmap, e.out, n)
  BY SaidIs
<1> QED BY <1>1 DEF EngKnows, Knows

LEMMA SweepPages ==
    ASSUME Typed, Pages, NEW b \in Browser, Sweep(b)
    PROVE  Pages'
<1>1. PICK r \in Eng :
         /\ Becomes(b, r) /\ Same(r, eng[b], {"sweep", "tomb"})
         /\ \A x \in r.tomb \ eng[b].tomb :
               \E n \in Node : /\ tree[b][n] = None /\ eng[b].rmap[n] \in SyncId
                               /\ x \in WithSiblings(eng[b], eng[b].rmap[n])
  BY SweepIs
<1>2. eng[b] \in Eng /\ EngPages(eng[b], gone) /\ EngKnows(eng[b], tree[b], gone)
  BY TypedAt, PagesAt
<1>3. ASSUME NEW x \in r.tomb PROVE Home(x) \in gone
  <2>1. CASE x \in eng[b].tomb
    BY <1>2, <2>1 DEF EngPages
  <2>2. CASE x \notin eng[b].tomb
    <3>1. PICK n \in Node : /\ tree[b][n] = None /\ eng[b].rmap[n] \in SyncId
                            /\ x \in WithSiblings(eng[b], eng[b].rmap[n])
      BY <1>1, <2>2
    <3>2. PICK s \in SyncId : s = eng[b].rmap[n]
      BY <3>1
    <3>3. Home(x) = Home(s)
      BY <1>2, <3>1, <3>2, SiblingPages
    <3> QED BY <1>2, <3>1, <3>2, <3>3, LostPage
  <2> QED BY <2>1, <2>2
<1>4. r.remove = eng[b].remove /\ Same(r, eng[b], {"sweep", "tomb", "remove"})
  BY <1>1 DEF Same, Fields
<1>5. \A x \in r.remove : Home(x) \in gone
  BY <1>2, <1>4 DEF EngPages
<1>6. EngPages(r, gone) /\ EngKnows(r, tree[b], gone)
  BY <1>2, <1>3, <1>4, <1>5, GonePages
<1> QED BY <1>1, <1>6, QuietPages DEF Sweep

LEMMA MergeRemovePages ==
    ASSUME Typed, Pages, NEW b \in Browser, NEW s, MergeRemove(b, s)
    PROVE  Pages'
<1>1. PICK r \in Eng :
         /\ s \in SyncId /\ s \in eng[b].remove /\ Becomes(b, r) /\ Same(r, eng[b], {"remove", "tomb"})
         /\ r.remove = eng[b].remove \ {s} /\ r.tomb = WithSiblings(eng[b], s)
  BY MergeRemoveIs
<1>2. eng[b] \in Eng /\ EngPages(eng[b], gone) /\ EngKnows(eng[b], tree[b], gone)
  BY TypedAt, PagesAt
<1>3. \A x \in r.tomb : Home(x) = Home(s)
  BY <1>1, <1>2, SiblingPages
<1>4. \A x \in r.tomb \cup r.remove : Home(x) \in gone
  BY <1>1, <1>2, <1>3 DEF EngPages
<1>5. Same(r, eng[b], {"sweep", "tomb", "remove"})
  BY <1>1 DEF Same, Fields
<1>6. EngPages(r, gone) /\ EngKnows(r, tree[b], gone)
  BY <1>2, <1>4, <1>5, GonePages
<1> QED BY <1>1, <1>6, QuietPages DEF MergeRemove

LEMMA MergeCreatePages ==
    ASSUME Typed, Pages, NEW b \in Browser, NEW x, MergeCreate(b, x)
    PROVE  Pages'
<1> DEFINE k == [step |-> "look", id |-> x.id, at |-> 0, body |-> x.body]
<1>1. PICK r \in Eng :
         /\ x \in eng[b].create /\ Becomes(b, r) /\ Same(r, eng[b], {"create", "task"})
         /\ r.create \subseteq eng[b].create /\ r.task = [eng[b].task EXCEPT !["merge"] = k]
  BY MergeCreateIs
<1>2. eng[b] \in Eng /\ EngPages(eng[b], gone) /\ EngKnows(eng[b], tree[b], gone)
  BY TypedAt, PagesAt
<1>3. TaskPage(k, gone)
  BY <1>1, <1>2 DEF TaskPage, EngPages
<1> HIDE DEF k
<1>4. /\ r.items = eng[b].items /\ r.index = eng[b].index /\ r.wait = eng[b].wait
      /\ r.tomb = eng[b].tomb /\ r.remove = eng[b].remove
  BY <1>1 DEF Same, Fields
<1>5. \A c \in Chain : TaskPage(r.task[c], gone)
  BY <1>1, <1>2, <1>3 DEF EngPages, Eng
<1>6. EngPages(r, gone)
  BY <1>1, <1>2, <1>4, <1>5 DEF EngPages
<1>7. Same(r, eng[b], Fields \ {"map", "rmap", "out"})
  BY <1>1 DEF Same, Fields
<1>8. EngKnows(r, tree[b], gone)
  BY <1>2, <1>7, EngKnowsSame
<1> QED BY <1>1, <1>6, <1>8, QuietPages DEF MergeCreate

(* A link of the plan joins an id to a bookmark of its page.               *)
LEMMA LinkPage ==
    ASSUME NEW e \in Eng, NEW g, EngPages(e, g), NEW t \in Tree, NEW s \in Links(e, t), NEW n, n = Hit(e, t, s)
    PROVE  s \in SyncId /\ n \in Node /\ t[n] # None /\ t[n].url = Home(s)
<1>1. s \in SyncId /\ n \in Candidates(e, t, s) /\ n \in Node
  BY HitIs DEF Links, Unpaired, Live
<1>2. t[n] # None /\ t[n].url = e.items[s].url
  BY <1>1, CopiesIs DEF Candidates
<1>3. t[n].url \in Url
  BY <1>1, <1>2, Basics DEF Tree
<1>4. e.items[s].url \in {0, Home(s)}
  BY <1>1 DEF EngPages, ItemPages
<1> QED BY <1>1, <1>2, <1>3, <1>4, Basics

(* Links and losers keep bookmarks and pages together.                     *)
LEMMA PairedKnows ==
    ASSUME NEW e \in Eng, NEW g, EngPages(e, g), NEW t \in Tree, EngKnows(e, t, g)
    PROVE  EngKnows(Paired(e, t), t, g)
<1> DEFINE p == Paired(e, t)
<1>1. /\ p \in Eng /\ Same(p, e, {"map", "rmap"})
      /\ \A s \in SyncId : p.map[s] \in {0, e.map[s]} \/ (s \in Links(e, t) /\ p.map[s] = Hit(e, t, s))
      /\ \A n \in Node : \/ p.rmap[n] \in {0, e.rmap[n]}
                         \/ \E s \in Links(e, t) : p.rmap[n] = s /\ n = Hit(e, t, s)
  BY PairedIs, Zenon
<1> HIDE DEF p
<1>2. p.out = e.out
  BY <1>1 DEF Same, Fields
<1>3. ASSUME NEW n \in Node, NEW u \in Said(p.map, p.rmap, p.out, n)
      PROVE  u \in Said(e.map, e.rmap, e.out, n) \/ (t[n] # None /\ u = t[n].url)
  <2>1. \/ \E s \in SyncId : (p.map[s] = n \/ p.rmap[n] = s) /\ Home(s) = u
        \/ \E w \in Sender : \E x \in e.out[w] : x.node = n /\ x.body.url = u
    BY <1>2, SaidIs
  <2>2. CASE \E w \in Sender : \E x \in e.out[w] : x.node = n /\ x.body.url = u
    BY <2>2, SaidIs
  <2>3. CASE \E s \in SyncId : (p.map[s] = n \/ p.rmap[n] = s) /\ Home(s) = u
    <3>1. PICK s \in SyncId : (p.map[s] = n \/ p.rmap[n] = s) /\ Home(s) = u
      BY <2>3
    <3>2. e.map[s] = n \/ e.rmap[n] = s \/ (s \in Links(e, t) /\ n = Hit(e, t, s))
      BY <1>1, <3>1, Basics
    <3>3. CASE e.map[s] = n \/ e.rmap[n] = s
      BY <3>1, <3>3, SaidIs
    <3>4. CASE s \in Links(e, t) /\ n = Hit(e, t, s)
      BY <3>1, <3>4, LinkPage
    <3> QED BY <3>2, <3>3, <3>4
  <2> QED BY <2>1, <2>2, <2>3
<1>4. Knows(p.map, p.rmap, p.out, t, g)
  BY <1>3, KnowsStep DEF EngKnows
<1> QED BY <1>4 DEF EngKnows, p

LEMMA MergeStartPages ==
    ASSUME Typed, Pages, NEW b \in Browser, NEW ok, MergeStart(b, ok)
    PROVE  Pages'
<1> DEFINE e == eng[b]
           t == tree[b]
           p == Paired(e, t)
<1>1. PICK r \in Eng :
         /\ Becomes(b, r) /\ Same(r, e, {"map", "rmap", "pending", "remove", "create", "out"})
         /\ r.map = p.map /\ r.rmap = p.rmap
         /\ r.remove \subseteq Vanished(e, t) /\ r.create = Creates(e, t)
         /\ r.out = [e.out EXCEPT !["merge"] = Publishes(e, t)]
  BY MergeStartIs, Zenon
<1>2. e \in Eng /\ EngOK(e, clock) /\ t \in Tree /\ EngPages(e, gone) /\ EngKnows(e, t, gone)
  BY TypedAt, PagesAt
<1>3. UNCHANGED <<relay, tree, kept, gone>>
  BY DEF MergeStart
<1> HIDE DEF e, t
<1>4. EngKnows(p, t, gone) /\ Same(p, e, {"map", "rmap"})
  BY <1>2, PairedKnows, PairedIs
<1> HIDE DEF p
<1>5. EngKnows(r, t, gone)
  <2>1. p.out = e.out /\ e.out \in [Sender -> SUBSET Outgoing]
    BY <1>2, <1>4 DEF Same, Fields, Eng
  <2>2. \A x \in Publishes(e, t) : t[x.node] # None /\ x.body.url = t[x.node].url
    BY DEF Publishes, Present
  <2>3. \A w \in Sender : \A x \in r.out[w] : x \in p.out[w] \/ (t[x.node] # None /\ x.body.url = t[x.node].url)
    BY <1>1, <2>1, <2>2
  <2> QED BY <1>1, <1>4, <2>3, OutKnows
<1>6. ASSUME NEW s \in r.remove PROVE Home(s) \in gone
  <2>1. s \in SyncId /\ e.map[s] # 0 /\ t[e.map[s]] = None
    BY <1>1 DEF Vanished, Mapped
  <2>2. PICK n \in Node : n = e.map[s]
    BY <1>2, <2>1, NodeOf
  <2> QED BY <1>2, <2>1, <2>2, LostPage
<1>7. ASSUME NEW x \in r.create PROVE x.body.url = Home(x.id)
  <2>1. PICK s \in SyncId : e.items[s].live /\ x = [id |-> s, body |-> BodyOf(e.items[s])]
    BY <1>1 DEF Creates, Unpaired, Live
  <2>2. BodyOf(e.items[s]) \in Body /\ e.items[s].url \in {0, Home(s)}
    BY <1>2, <2>1 DEF EngOK, ItemsOK, EngPages, ItemPages
  <2>3. x.body.url = e.items[s].url /\ e.items[s].url \in Url
    BY <2>1, <2>2, Basics DEF BodyOf
  <2> QED BY <2>1, <2>2, <2>3, Basics
<1>8. /\ r.items = e.items /\ r.index = e.index /\ r.task = e.task /\ r.wait = e.wait /\ r.tomb = e.tomb
  BY <1>1 DEF Same, Fields
<1>9. EngPages(r, gone)
  BY <1>2, <1>6, <1>7, <1>8 DEF EngPages
<1> QED BY <1>1, <1>3, <1>5, <1>9, QuietPages DEF t

(* A browser paired before has one bookmark per seeded page at least, one  *)
(* paired now has nothing, and every event is of its page.                 *)
LEMMA InitPages == UrlsStay /\ Init => Pages
<1> SUFFICES ASSUME UrlsStay, Init PROVE Pages
  OBVIOUS
<1>1. \A s \in Seeded : s \in SyncId /\ SeedBody(s) \in Body /\ SeedBody(s).url = Home(s)
  BY SeedIs DEF Home
<1>2. ASSUME NEW s \in SyncId PROVE EventPage(relay[s], s, gone)
  <2>1. relay[s] = IF s \in Seeded THEN [at |-> 1, body |-> SeedBody(s)] ELSE NoEvent
    BY DEF Init
  <2>2. CASE s \in Seeded
    BY <1>1, <2>1, <2>2, Basics DEF EventPage
  <2>3. CASE s \notin Seeded
    BY <2>1, <2>3 DEF EventPage, NoEvent
  <2> QED BY <2>2, <2>3
<1>3. ItemPages(OldItems) /\ ItemPages(NewItems)
  <2>1. ASSUME NEW s \in Seeded PROVE Held(1, SeedBody(s)).url = Home(s)
    BY <1>1, HeldIs
  <2> QED BY <2>1 DEF ItemPages, OldItems, NewItems, NoItem
<1>4. Typed /\ clock \in [SyncId -> Nat]
  BY InitTyped DEF Typed
<1>5. ASSUME NEW n \in Node, NEW s \in SyncId, OldMap[s] = n
      PROVE  OldTree[n] # None /\ OldTree[n].url = Home(s) /\ s \in Seeded
  <2>1. s \in Seeded /\ Seed[s].node = n /\ n # 0
    BY <1>5, Basics DEF OldMap
  <2> DEFINE c == CHOOSE x \in Seeded : Seed[x].node = n
  <2>2. c \in Seeded /\ Seed[c].node = n
    BY <2>1
  <2>3. OldTree[n] = SeedBody(c)
    BY <2>1 DEF OldTree
  <2> HIDE DEF c
  <2>4. Seed[c].url = Seed[s].url
    BY <2>1, <2>2, ConstantsAssumption DEF Seeded
  <2>5. SeedBody(c) \in Body /\ SeedBody(c).url = Seed[c].url
    BY <2>2, SeedIs
  <2> QED BY <2>1, <2>3, <2>4, <2>5, Basics DEF Home
<1>6. ASSUME NEW b \in Browser PROVE EngPages(eng[b], gone) /\ EngKnows(eng[b], tree[b], gone)
  <2>1. PICK on \in BOOLEAN, p \in Count : on = TRUE /\ p = 0
    BY DEF Count
  <2>2. eng[b] \in {Started(TRUE, OldMap, r, OldItems, 0) : r \in Reverses(OldMap)}
                    \cup {Started(TRUE, [s \in SyncId |-> 0], [n \in Node |-> 0], NewItems, 0)}
    BY DEF Init
  <2>3. ASSUME NEW m \in [SyncId -> Node \cup {0}], NEW r \in Reverses(m), NEW i, ItemPages(i),
               eng[b] = Started(TRUE, m, r, i, 0),
               \A n \in Node, s \in SyncId : m[s] = n => tree[b][n] # None /\ tree[b][n].url = Home(s)
        PROVE  EngPages(eng[b], gone) /\ EngKnows(eng[b], tree[b], gone)
    <3> DEFINE x == Started(on, m, r, i, p)
    <3>1. eng[b] = x /\ x.items = i /\ x.map = m /\ x.rmap = r
      BY <2>1, <2>3 DEF Started
    <3>2. ItemsOK(i, clock)
      <4> HIDE DEF x
      <4> QED BY <1>4, <3>1, TypedAt
    <3>3. PICK ck \in [SyncId -> Nat] : ck = clock
      BY <1>4
    <3>4. ItemsOK(i, ck)
      BY <3>2, <3>3
    <3>5. /\ EngPages(x, gone)
          /\ \A n \in Node : \A u \in Said(m, r, x.out, n) : \E s \in SyncId : m[s] = n /\ Home(s) = u
      BY <2>3, <3>4, StartedPages
    <3> HIDE DEF x
    <3>6. Knows(m, r, x.out, tree[b], gone)
      BY <2>3, <3>5 DEF Knows
    <3> QED BY <3>1, <3>5, <3>6 DEF EngKnows
  <2>4. CASE \E r \in Reverses(OldMap) : eng[b] = Started(TRUE, OldMap, r, OldItems, 0)
    <3>1. PICK r \in Reverses(OldMap) : eng[b] = Started(TRUE, OldMap, r, OldItems, 0)
      BY <2>4
    <3>2. PICK m \in [SyncId -> Node \cup {0}] : m = OldMap
      BY SeedIs DEF OldMap
    <3>3. ASSUME NEW n \in Node, NEW s \in SyncId, m[s] = n
          PROVE  tree[b][n] # None /\ tree[b][n].url = Home(s)
      <4>1. OldTree[n] # None /\ OldTree[n].url = Home(s) /\ s \in Seeded
        BY <1>5, <3>2, <3>3
      <4>2. b \in Old
        <5>1. eng[b].items = OldItems
          BY <3>1 DEF Started
        <5>2. OldItems[s].live
          BY <4>1 DEF OldItems, Held
        <5>3. ~NewItems[s].live
          BY DEF NewItems, NoItem
        <5>4. b \notin Old => eng[b].items = NewItems
          BY DEF Init
        <5> QED BY <5>1, <5>2, <5>3, <5>4
      <4>3. tree[b] = OldTree
        BY <4>2 DEF Init
      <4> QED BY <4>1, <4>3
    <3>4. r \in Reverses(m) /\ eng[b] = Started(TRUE, m, r, OldItems, 0)
      BY <3>1, <3>2
    <3> QED BY <1>3, <2>3, <3>3, <3>4
  <2>5. CASE eng[b] = Started(TRUE, [s \in SyncId |-> 0], [n \in Node |-> 0], NewItems, 0)
    <3>1. PICK m \in [SyncId -> Node \cup {0}], r \in [Node -> SyncId \cup {0}] :
             m = [s \in SyncId |-> 0] /\ r = [n \in Node |-> 0]
      OBVIOUS
    <3>2. \A n \in Node : n # 0
      BY Basics
    <3>3. r \in Reverses(m)
      BY <3>1, <3>2 DEF Reverses
    <3>4. eng[b] = Started(TRUE, m, r, NewItems, 0)
      BY <2>5, <3>1
    <3>5. \A n \in Node, s \in SyncId : m[s] # n
      BY <3>1, <3>2
    <3> QED BY <1>3, <2>3, <3>3, <3>4, <3>5
  <2> QED BY <2>2, <2>4, <2>5
<1>7. ASSUME NEW b \in Browser PROVE ItemPages(kept[b])
  <2>1. kept[b] = eng[b].items
    BY DEF Init
  <2> QED BY <1>6, <2>1 DEF EngPages
<1> QED BY <1>2, <1>6, <1>7 DEF Pages

(* Every step keeps them.                                                  *)
LEMMA NextPages == UrlsStay /\ Typed /\ Pages /\ [Next]_vars => Pages'
<1> SUFFICES ASSUME UrlsStay, Typed, Pages, [Next]_vars PROVE Pages'
  OBVIOUS
<1>1. CASE UNCHANGED vars
  BY <1>1 DEF vars, Pages
<1>2. ASSUME NEW b \in Browser, Engine(b) PROVE Pages'
  <2>1. CASE Wake(b)
    BY <2>1, WakePages
  <2>2. CASE Absorb(b)
    BY <2>2, ReceivePages, OpenedPages, ApplyRemovalPages DEF Absorb
  <2>3. CASE Upsert(b)
    BY <2>3, LookPages, MakePages DEF Upsert
  <2>4. CASE Flush(b)
    BY <2>4, FlushStartPages, FlushSkipPages, AnsweredPages, PublishPages DEF Flush
  <2>5. CASE Tombs(b)
    BY <2>5, SweepPages, BuryPages DEF Tombs
  <2>6. CASE Merge(b)
    BY <2>6, MergeStartPages, MergeRemovePages, MergeCreatePages DEF Merge
  <2> QED BY <1>2, <2>1, <2>2, <2>3, <2>4, <2>5, <2>6 DEF Engine
<1>3. ASSUME NEW b \in Browser, User(b) PROVE Pages'
  BY <1>3, UserAddPages, UserEditPages, UserDeletePages, UserDeleteFolderPages, SwitchPages, KillPages,
     MergeStartPages DEF User
<1> QED BY <1>1, <1>2, <1>3 DEF Next

(* The pages, for whole behaviours.                                        *)
LEMMA SpecPages == UrlsStay /\ Spec => []Pages
<1>1. UrlsStay /\ Init => Pages
  BY InitPages
<1>2. UrlsStay /\ Typed /\ Pages /\ [Next]_vars => Pages'
  BY NextPages
<1>3. SUFFICES ASSUME UrlsStay PROVE Spec => []Pages
  OBVIOUS
<1>4. Init => Pages
  BY <1>1, <1>3
<1>5. Typed /\ Pages /\ [Next]_vars => Pages'
  BY <1>2, <1>3
<1> QED BY <1>4, <1>5, SpecTyped, PTL DEF Spec

(* What the engines may do to the trees.                                   *)
Meant ==
    \A b \in Browser : \A n \in Present(tree[b]) :
        left' = left /\ (tree'[b][n] = None \/ tree'[b][n].url # tree[b][n].url)
           => tree[b][n].url \in gone

(* Only ApplyRemoval and a URL that changes could do it, and both act on   *)
(* the page of the id.                                                     *)
LEMMA StepMeant ==
    ASSUME UrlsStay, Typed, Pages, [Next]_vars
    PROVE  Meant
<1> USE DEF Present
<1>1. CASE tree' = tree
  BY <1>1, TypedAt, Basics DEF Meant, Tree
<1>2. CASE left' # left
  BY <1>2 DEF Meant
<1>3. CASE UNCHANGED vars
  BY <1>1, <1>3 DEF vars
<1>4. ASSUME NEW b \in Browser, Engine(b) PROVE Meant
  <2>1. CASE Wake(b)
    BY <1>1, <2>1 DEF Wake
  <2>2. CASE ApplyRemoval(b)
    BY <2>2, ApplyRemovalPages DEF Meant
  <2>3. CASE (\E s \in SyncId : Receive(b, s)) \/ Opened(b)
    BY <1>1, <2>3 DEF Receive, Opened
  <2>4. ASSUME NEW c \in Chain, Look(b, c) PROVE Meant
    BY <2>4, LookPages DEF Meant
  <2>5. ASSUME NEW c \in Chain, Make(b, c) PROVE Meant
    BY <2>5, MakePages DEF Meant
  <2>6. CASE Flush(b)
    BY <1>1, <2>6 DEF Flush, FlushStart, FlushSkip, Answered, Publish
  <2>7. CASE Tombs(b)
    BY <1>1, <2>7 DEF Tombs, Sweep, Bury
  <2>8. CASE Merge(b)
    BY <1>1, <2>8 DEF Merge, MergeStart, MergeRemove, MergeCreate
  <2> QED BY <1>4, <2>1, <2>2, <2>3, <2>4, <2>5, <2>6, <2>7, <2>8 DEF Engine, Absorb, Upsert
<1>5. ASSUME NEW b \in Browser, User(b) PROVE Meant
  <2>1. CASE Spend
    BY <1>2, <2>1, SpendTyped
  <2>2. CASE MergeStart(b, TRUE)
    BY <1>1, <2>2 DEF MergeStart
  <2>3. User(b) => Spend \/ MergeStart(b, TRUE)
    BY DEF User, UserAdd, UserEdit, UserDelete, UserDeleteFolder, Switch, Kill, Spent, Deleted
  <2> QED BY <1>5, <2>1, <2>2, <2>3
<1> QED BY <1>3, <1>4, <1>5 DEF Next

(* As long as nobody changes the URL of a bookmark, no step of an engine   *)
(* takes away, or turns into another page, a bookmark of a page that no    *)
(* user deleted: for any number of browsers, however their events, their   *)
(* merges and the stops of their workers interleave, whatever fails.       *)
THEOREM DeletionsAreMeant == UrlsStay /\ Spec => DeletionMeant
<1> SUFFICES ASSUME UrlsStay PROVE Spec => DeletionMeant
  OBVIOUS
<1>1. Typed /\ Pages /\ [Next]_vars =>
        [\A b \in Browser : \A n \in Present(tree[b]) :
           left' = left /\ (tree'[b][n] = None \/ tree'[b][n].url # tree[b][n].url)
              => tree[b][n].url \in gone]_vars
  BY StepMeant DEF Meant
<1>2. Spec => []Pages
  BY SpecPages
<1> QED BY <1>1, <1>2, SpecTyped, PTL DEF Spec, DeletionMeant
-----------------------------------------------------------------------------
(* The chains of one engine, taking turns: events are absorbed, or a merge *)
(* runs, or local changes are sent.  What a create would copy has no id.   *)
Alone(e) ==
    ~(Absorbing(e) /\ Merging(e)) /\ ~(Absorbing(e) /\ Flushing(e)) /\ ~(Flushing(e) /\ Merging(e))
Clear(e, t) ==
    \A c \in Chain : e.task[c].step = "make" => \A n \in CopiesOf(t, e.task[c].body.url) : e.rmap[n] = 0
Single == \A b \in Browser : Alone(eng[b]) /\ Clear(eng[b], tree[b])

(* The case that OneCopy is about: no overlap, no changed URLs.            *)
Turns == ~Overlap /\ "reurl" \notin Events

(* Fewer chains at work.                                                   *)
LEMMA AloneLess ==
    ASSUME NEW e, Alone(e), NEW r, Absorbing(r) => Absorbing(e), Merging(r) => Merging(e),
           Flushing(r) => Flushing(e)
    PROVE  Alone(r)
  BY DEF Alone

(* Fields that put no chain to work.                                       *)
LEMMA AloneSame ==
    ASSUME NEW e, Alone(e), NEW r, Same(r, e, Fields \ {"remove", "create", "out", "task", "wait"})
    PROVE  Alone(r)
<1>1. r.remove = e.remove /\ r.create = e.create /\ r.out = e.out /\ r.task = e.task /\ r.wait = e.wait
  BY DEF Same, Fields
<1> QED BY <1>1 DEF Alone, Absorbing, Merging, Flushing

(* An idle chain is at no step.                                            *)
LEMMA IdleStep == Idle.step = "idle"
  BY DEF Idle

(* While one chain writes the other is idle.                               *)
LEMMA IdleTasks ==
    ASSUME NEW e, Alone(e), NEW c \in Chain, e.task[c] # Idle
    PROVE  \A d \in Chain : d # c => e.task[d] = Idle
  BY DEF Alone, Absorbing, Merging, Chain

(* No chain is about to create.                                            *)
LEMMA ClearIdle ==
    ASSUME NEW r, NEW t, \A c \in Chain : r.task[c].step # "make"
    PROVE  Clear(r, t)
  BY DEF Clear

(* Fewer ids, and no bookmark with an id turned into another page.         *)
LEMMA ClearLess ==
    ASSUME NEW e, NEW t, Clear(e, t), NEW r, NEW t1, r.task = e.task,
           \A n \in Node : r.rmap[n] = e.rmap[n] \/ r.rmap[n] = 0,
           \A n \in Node : t1[n] # None => \/ t[n] # None /\ t1[n].url = t[n].url
                                           \/ r.rmap[n] = 0
    PROVE  Clear(r, t1)
  BY DEF Clear, CopiesOf, Present

(* Neither the tasks nor the ids of bookmarks change.                      *)
LEMMA ClearSame ==
    ASSUME NEW e, NEW t, Clear(e, t), NEW r, Same(r, e, Fields \ {"task", "rmap"})
    PROVE  Clear(r, t)
<1>1. r.task = e.task /\ r.rmap = e.rmap
  BY DEF Same, Fields
<1> QED BY <1>1 DEF Clear

(* What Single says of one browser.                                        *)
LEMMA SingleAt ==
    ASSUME Single, NEW b \in Browser
    PROVE  Alone(eng[b]) /\ Clear(eng[b], tree[b])
  BY DEF Single

(* What is left to show of a step that changes one engine.                 *)
LEMMA StepSingle ==
    ASSUME Typed, Single, NEW b \in Browser, NEW e1, Becomes(b, e1), NEW t1, tree' = [tree EXCEPT ![b] = t1],
           Alone(e1), Clear(e1, t1)
    PROVE  Single'
<1>1. ASSUME NEW c \in Browser PROVE Alone(eng'[c]) /\ Clear(eng'[c], tree'[c])
  <2>1. CASE c = b
    <3>1. eng'[c] = e1 /\ tree'[c] = t1
      BY <2>1 DEF Typed, Becomes
    <3> QED BY <3>1
  <2>2. CASE c # b
    <3>1. eng'[c] = eng[c] /\ tree'[c] = tree[c]
      BY <2>2 DEF Typed, Becomes
    <3> QED BY <3>1, SingleAt
  <2> QED BY <2>1, <2>2
<1> QED BY <1>1 DEF Single

(* The same for a step that leaves the trees alone.                        *)
LEMMA QuietSingle ==
    ASSUME Typed, Single, NEW b \in Browser, NEW e1, Becomes(b, e1), UNCHANGED tree,
           Alone(e1), Clear(e1, tree[b])
    PROVE  Single'
<1>1. tree' = [tree EXCEPT ![b] = tree[b]]
  BY TreeSame
<1> QED BY <1>1, StepSingle

(* A user changes the tree and the engine hears of it.                     *)
LEMMA UserSingle ==
    ASSUME Typed, Single, NEW b \in Browser, NEW h,
           eng' = [eng EXCEPT ![b] = IF awake[b] THEN h ELSE @],
           NEW t1, tree' = [tree EXCEPT ![b] = t1],
           Alone(h), Clear(h, t1), Clear(eng[b], t1)
    PROVE  Single'
<1> DEFINE e1 == IF awake[b] THEN h ELSE eng[b]
<1>1. Becomes(b, e1)
  BY DEF Typed, Becomes
<1>2. Alone(e1) /\ Clear(e1, t1)
  BY SingleAt
<1> HIDE DEF e1
<1> QED BY <1>1, <1>2, StepSingle

(* Before the engine hears of it; while a create is due it is applying,    *)
(* and hears nothing.                                                      *)
LEMMA WaitsSingle ==
    ASSUME Typed, Single, NEW b \in Browser, NEW x \in Waits(eng[b])
    PROVE  /\ x \in Eng /\ Alone(x) /\ x.task = eng[b].task /\ x.rmap = eng[b].rmap
           /\ (\E c \in Chain : x.task[c].step = "make") => Applying(x)
<1>1. x \in Eng /\ Same(x, eng[b], {"tail", "writing"})
  BY TypedAt, WaitsIs
<1>2. Alone(x)
  <2>1. Same(x, eng[b], Fields \ {"remove", "create", "out", "task", "wait"})
    BY <1>1 DEF Same, Fields
  <2> QED BY <2>1, SingleAt, AloneSame
<1>3. x.task = eng[b].task /\ x.rmap = eng[b].rmap
  BY <1>1 DEF Same, Fields
<1>4. (\E c \in Chain : x.task[c].step = "make") => Applying(x)
  BY DEF Applying, Writes
<1> QED BY <1>1, <1>2, <1>3, <1>4

(* The engine hears of a change, and only its lists of work grow.          *)
LEMMA HeardSingle ==
    ASSUME Typed, Single, NEW b \in Browser, NEW x \in Waits(eng[b]), NEW h,
           eng' = [eng EXCEPT ![b] = IF awake[b] THEN h ELSE @],
           NEW t1, tree' = [tree EXCEPT ![b] = t1],
           Same(h, x, Fields \ {"remove", "create", "out", "task", "wait", "rmap"}),
           \A n \in Node : t1[n] # None => \/ tree[b][n] # None /\ t1[n].url = tree[b][n].url
                                           \/ eng[b].rmap[n] = 0
    PROVE  Single'
<1>1. /\ Alone(x) /\ x.task = eng[b].task /\ x.rmap = eng[b].rmap
  BY WaitsSingle
<1>2. Alone(h)
  <2>1. Same(h, x, Fields \ {"remove", "create", "out", "task", "wait"})
    BY DEF Same, Fields
  <2> QED BY <1>1, <2>1, AloneSame
<1>3. h.task = eng[b].task /\ h.rmap = eng[b].rmap
  BY <1>1 DEF Same, Fields
<1>4. Clear(eng[b], t1) /\ Clear(h, t1)
  BY <1>3, SingleAt, ClearLess
<1> QED BY <1>2, <1>4, UserSingle

(* One lemma per action: Single is kept.                                   *)
LEMMA UserAddSingle ==
    ASSUME Typed, Single, NEW b \in Browser, NEW u \in Url, NEW t \in Text, UserAdd(b, u, t)
    PROVE  Single'
<1> DEFINE n == Min(Unused(b))
           body == [url |-> u, text |-> t]
           t1 == [tree[b] EXCEPT ![n] = body]
<1>1. n \in Unused(b) /\ n \in Node
  <2>1. Unused(b) \subseteq Node /\ Unused(b) # {}
    BY DEF Unused, UserAdd
  <2> QED BY <2>1, MinIs, Basics
<1>2. tree' = [tree EXCEPT ![b] = t1]
  BY DEF UserAdd
<1>3. PICK x \in Waits(eng[b]) : eng' = [eng EXCEPT ![b] = IF awake[b] THEN OnLocalChange(x, n) ELSE @]
  BY DEF UserAdd, Hears
<1>4. eng[b].rmap[n] = 0
  BY <1>1 DEF Unused
<1> HIDE DEF n
<1>5. \A k \in Node : t1[k] = IF k = n THEN body ELSE tree[b][k]
  BY TypedAt DEF Tree
<1> HIDE DEF t1, body
<1>6. Same(OnLocalChange(x, n), x, {"queue"})
  BY <1>1, WaitsSingle, LocalChangeIs
<1>7. PICK h : h = OnLocalChange(x, n)
  OBVIOUS
<1>8. Same(h, x, Fields \ {"remove", "create", "out", "task", "wait", "rmap"})
  BY <1>6, <1>7 DEF Same, Fields
<1>9. eng' = [eng EXCEPT ![b] = IF awake[b] THEN h ELSE @]
  BY <1>3, <1>7
<1>10. \A k \in Node : t1[k] # None => \/ tree[b][k] # None /\ t1[k].url = tree[b][k].url
                                       \/ eng[b].rmap[k] = 0
  BY <1>4, <1>5
<1> QED BY <1>2, <1>8, <1>9, <1>10, HeardSingle

LEMMA UserEditSingle ==
    ASSUME Typed, Single, Turns, NEW b \in Browser, NEW n \in Node, NEW body \in Body, UserEdit(b, n, body)
    PROVE  Single'
<1> DEFINE t1 == [tree[b] EXCEPT ![n] = body]
<1>1. tree' = [tree EXCEPT ![b] = t1] /\ tree[b][n] # None /\ body.url = tree[b][n].url
  BY DEF UserEdit, Turns, Present
<1>2. PICK x \in Waits(eng[b]) : eng' = [eng EXCEPT ![b] = IF awake[b] THEN OnLocalChange(x, n) ELSE @]
  BY DEF UserEdit, Hears
<1>3. \A k \in Node : t1[k] = IF k = n THEN body ELSE tree[b][k]
  BY TypedAt DEF Tree
<1> HIDE DEF t1
<1>4. Same(OnLocalChange(x, n), x, {"queue"})
  BY WaitsSingle, LocalChangeIs
<1>5. PICK h : h = OnLocalChange(x, n)
  OBVIOUS
<1>6. Same(h, x, Fields \ {"remove", "create", "out", "task", "wait", "rmap"})
  BY <1>4, <1>5 DEF Same, Fields
<1>7. eng' = [eng EXCEPT ![b] = IF awake[b] THEN h ELSE @]
  BY <1>2, <1>5
<1>8. \A k \in Node : t1[k] # None => tree[b][k] # None /\ t1[k].url = tree[b][k].url
  BY <1>1, <1>3
<1> QED BY <1>1, <1>6, <1>7, <1>8, HeardSingle

LEMMA UserDeleteSingle ==
    ASSUME Typed, Single, NEW b \in Browser, NEW n \in Node, UserDelete(b, n)
    PROVE  Single'
<1> DEFINE t1 == [tree[b] EXCEPT ![n] = None]
<1>1. t1 \in Tree /\ \A k \in Node : t1[k] = IF k = n THEN None ELSE tree[b][k]
  BY TypedAt DEF Tree
<1>2. tree' = [tree EXCEPT ![b] = t1]
  BY DEF UserDelete, Deleted
<1>3. PICK x \in Waits(eng[b]) :
         eng' = [eng EXCEPT ![b] = IF awake[b] THEN [OnLocalRemove(x, t1, n) EXCEPT !.writing = @ \ {n}] ELSE @]
  BY DEF UserDelete, Hears
<1> HIDE DEF t1
<1>4. /\ x \in Eng /\ Alone(x) /\ x.task = eng[b].task /\ x.rmap = eng[b].rmap
      /\ (\E c \in Chain : x.task[c].step = "make") => Applying(x)
  BY WaitsSingle
<1> DEFINE r == OnLocalRemove(x, t1, n)
           h == [r EXCEPT !.writing = @ \ {n}]
           s == x.rmap[n]
           f == Forget(x, s)
<1>5. /\ r \in Eng
      /\ \/ Same(r, x, {"queue", "sweep"})
         \/ Same(r, x, {"queue", "tomb"})
         \/ ~Applying(x) /\ Same(r, x, {"queue", "map", "rmap"})
  <2>1. /\ r \in Eng
        /\ \/ Same(r, x, {"queue", "sweep"})
           \/ s \in SyncId /\ Same(r, x, {"queue", "tomb"}) /\ r.tomb = x.tomb \cup WithSiblings(x, s)
           \/ /\ s \in SyncId /\ ~Applying(x) /\ Same(r, x, {"queue", "map", "rmap"})
              /\ \/ r.map = f.map /\ r.rmap = f.rmap
                 \/ \E g \in Node : /\ t1[g] # None /\ t1[g].url = x.items[s].url
                                    /\ r.map = [f.map EXCEPT ![s] = g]
                                    /\ r.rmap = [f.rmap EXCEPT ![g] = s]
    BY <1>1, <1>4, LocalRemoveIs, Zenon
  <2> QED BY <2>1, Zenon
<1>6. eng' = [eng EXCEPT ![b] = IF awake[b] THEN h ELSE @]
  BY <1>3
<1> HIDE DEF r
<1>7. Same(h, r, {"writing"})
  BY <1>5 DEF Eng, Same, Fields
<1> HIDE DEF h
<1>8. CASE Same(r, x, {"queue", "sweep"}) \/ Same(r, x, {"queue", "tomb"})
  <2>1. Same(h, x, Fields \ {"remove", "create", "out", "task", "wait", "rmap"})
    BY <1>7, <1>8 DEF Same, Fields
  <2>2. \A k \in Node : t1[k] # None => tree[b][k] # None /\ t1[k].url = tree[b][k].url
    BY <1>1
  <2> QED BY <1>2, <1>6, <2>1, <2>2, HeardSingle
<1>9. CASE ~Applying(x) /\ Same(r, x, {"queue", "map", "rmap"})
  <2>1. Same(h, x, Fields \ {"remove", "create", "out", "task", "wait"}) /\ h.task = x.task
    BY <1>7, <1>9 DEF Same, Fields
  <2>2. Alone(h)
    BY <1>4, <2>1, AloneSame
  <2>3. \A c \in Chain : h.task[c].step # "make" /\ eng[b].task[c].step # "make"
    BY <1>4, <1>9, <2>1
  <2>4. Clear(h, t1) /\ Clear(eng[b], t1)
    BY <2>3, ClearIdle
  <2> QED BY <1>2, <1>6, <2>2, <2>4, UserSingle
<1> QED BY <1>5, <1>8, <1>9

LEMMA UserDeleteFolderSingle ==
    ASSUME Typed, Single, NEW b \in Browser, NEW inside \in SUBSET Node, UserDeleteFolder(b, inside)
    PROVE  Single'
<1> DEFINE t1 == [n \in Node |-> IF n \in inside THEN None ELSE tree[b][n]]
<1>1. \A k \in Node : t1[k] # None => tree[b][k] # None /\ t1[k].url = tree[b][k].url
  OBVIOUS
<1>2. tree' = [tree EXCEPT ![b] = t1]
  BY DEF UserDeleteFolder, Deleted
<1>3. PICK x \in Waits(eng[b]) :
         eng' = [eng EXCEPT ![b] = IF awake[b] THEN [OnFolderRemove(x) EXCEPT !.writing = @ \ inside] ELSE @]
  BY DEF UserDeleteFolder, Hears
<1> HIDE DEF t1
<1>4. x \in Eng
  BY WaitsSingle
<1> DEFINE r == OnFolderRemove(x)
           h == [r EXCEPT !.writing = @ \ inside]
<1>5. r \in Eng /\ Same(r, x, {"sweep"})
  BY <1>4, FolderRemoveIs
<1>6. eng' = [eng EXCEPT ![b] = IF awake[b] THEN h ELSE @]
  BY <1>3
<1> HIDE DEF r
<1>7. Same(h, r, {"writing"})
  BY <1>5 DEF Eng, Same, Fields
<1> HIDE DEF h
<1>8. Same(h, x, Fields \ {"remove", "create", "out", "task", "wait", "rmap"})
  BY <1>5, <1>7 DEF Same, Fields
<1> QED BY <1>1, <1>2, <1>6, <1>8, HeardSingle

LEMMA SwitchSingle ==
    ASSUME Typed, Single, NEW b \in Browser, NEW on \in BOOLEAN, Switch(b, on)
    PROVE  Single'
<1> DEFINE e == eng[b]
           e1 == [e EXCEPT !.on = on, !.pending = IF on THEN @ ELSE 0]
<1>1. UNCHANGED tree /\ Becomes(b, e1)
  BY DEF Switch, Becomes
<1>2. e \in Eng /\ Alone(e) /\ Clear(e, tree[b])
  BY TypedAt, SingleAt
<1> HIDE DEF e
<1>3. Same(e1, e, {"on", "pending"})
  BY <1>2 DEF Eng, Same, Fields
<1> HIDE DEF e1
<1>4. /\ Same(e1, e, Fields \ {"remove", "create", "out", "task", "wait"})
      /\ Same(e1, e, Fields \ {"task", "rmap"})
  BY <1>3 DEF Same, Fields
<1> QED BY <1>1, <1>2, <1>4, AloneSame, ClearSame, QuietSingle

(* An engine that has just started.                                        *)
LEMMA StartedSingle ==
    ASSUME NEW e, NEW t, \A c \in Chain : e.task[c] = Idle,
           \A w \in Sender : e.out[w] = {} /\ e.wait[w] = NoWait, e.remove = {}, e.create = {}
    PROVE  Alone(e) /\ Clear(e, t)
<1>1. Alone(e)
  BY DEF Alone, Absorbing, Merging, Chain, Sender
<1>2. Clear(e, t)
  BY ClearIdle DEF Idle
<1> QED BY <1>1, <1>2

LEMMA KillSingle ==
    ASSUME Typed, Single, NEW b \in Browser, Kill(b)
    PROVE  Single'
<1>1. PICK r \in Reverses(eng[b].map), i \in {kept[b], eng[b].items} :
         /\ ItemsOK(i, clock)
         /\ eng' = [eng EXCEPT ![b] = Started(eng[b].on, eng[b].map, r, i, eng[b].pending)]
  BY KillIs
<1> DEFINE x == Started(eng[b].on, eng[b].map, r, i, eng[b].pending)
<1>2. /\ x.remove = {} /\ x.create = {} /\ \A c \in Chain : x.task[c] = Idle
      /\ \A w \in Sender : x.out[w] = {} /\ x.wait[w] = NoWait
  BY DEF Started
<1>3. Becomes(b, x) /\ UNCHANGED tree
  BY <1>1 DEF Becomes, Kill
<1> HIDE DEF x
<1>4. Alone(x) /\ Clear(x, tree[b])
  BY <1>2, StartedSingle
<1> QED BY <1>3, <1>4, QuietSingle

LEMMA WakeSingle ==
    ASSUME Typed, Single, NEW b \in Browser, Wake(b)
    PROVE  Single'
  BY DEF Wake, Single

(* What a chain that may start finds, and what it may do to its task.      *)
LEMMA StartFinds ==
    ASSUME NEW e, Turns, MayStart(e)
    PROVE  ~Merging(e) /\ ~Flushing(e) /\ ~Absorbing(e) /\ \A c \in Chain : e.task[c] = Idle
  BY DEF MayStart, Turns, Merging, Absorbing, Chain

(* The one chain at work gets another task.                                *)
LEMMA TaskSingle ==
    ASSUME NEW e \in Eng, Alone(e), NEW r, NEW c \in Chain, NEW k, NEW t,
           e.task[c] # Idle \/ k = Idle \/ (~Merging(e) /\ ~Flushing(e) /\ ~Absorbing(e)),
           Same(r, e, Fields \ {"remove", "create", "out", "wait"}), r.task = [e.task EXCEPT ![c] = k],
           \A d \in Chain : d # c => e.task[d] = Idle,
           k.step = "make" => \A n \in CopiesOf(t, k.body.url) : r.rmap[n] = 0
    PROVE  Alone(r) /\ Clear(r, t)
<1>1. r.remove = e.remove /\ r.create = e.create /\ r.out = e.out /\ r.wait = e.wait
  BY DEF Same, Fields
<1>2. \A d \in Chain : r.task[d] = IF d = c THEN k ELSE Idle
  BY DEF Eng
<1>3. Clear(r, t)
  BY <1>2 DEF Clear, Idle
<1>4. Flushing(r) = Flushing(e)
  BY <1>1 DEF Flushing
<1>5. CASE c = "absorb"
  <2>1. "merge" \in Chain /\ e.task["merge"] = Idle /\ r.task["merge"] = Idle
    BY <1>2, <1>5 DEF Chain
  <2>2. Merging(r) = Merging(e)
    BY <1>1, <2>1 DEF Merging
  <2>3. Absorbing(r) => Absorbing(e) \/ (~Merging(e) /\ ~Flushing(e))
    BY <1>2, <1>5 DEF Absorbing
  <2> QED BY <1>3, <1>4, <2>2, <2>3 DEF Alone
<1>6. CASE c = "merge"
  <2>1. "absorb" \in Chain /\ e.task["absorb"] = Idle /\ r.task["absorb"] = Idle
    BY <1>2, <1>6 DEF Chain
  <2>2. ~Absorbing(r)
    BY <2>1 DEF Absorbing
  <2>3. Merging(r) => Merging(e) \/ ~Flushing(e)
    BY <1>1, <1>2, <1>6 DEF Merging
  <2> QED BY <1>3, <1>4, <2>2, <2>3 DEF Alone
<1> QED BY <1>5, <1>6 DEF Chain

LEMMA ReceiveSingle ==
    ASSUME Typed, Single, Turns, NEW b \in Browser, NEW s \in SyncId, Receive(b, s)
    PROVE  Single'
<1> DEFINE e == eng[b]
           ev == relay[s]
           gone1 == Removed(ev.at, e.items[s])
           dead == [e EXCEPT !.items[s] = gone1]
           k1 == [step |-> "open", id |-> s, at |-> ev.at, body |-> ev.body]
           k2 == [step |-> "remove", id |-> s, at |-> ev.at, body |-> None]
           r1 == [e EXCEPT !.task["absorb"] = k1]
           r2 == [dead EXCEPT !.task["absorb"] = k2]
<1>1. e \in Eng /\ "absorb" \in Chain /\ ev.at \in Nat /\ e.items[s] \in Item /\ Alone(e) /\ Clear(e, tree[b])
  BY TypedAt, SingleAt DEF Chain, Event
<1>2. UNCHANGED tree /\ (Becomes(b, r1) \/ Becomes(b, r2) \/ Becomes(b, dead)) /\ MayStart(e)
  BY DEF Receive
<1>3. ~Merging(e) /\ ~Flushing(e) /\ ~Absorbing(e) /\ \A c \in Chain : e.task[c] = Idle
  BY <1>2, StartFinds
<1>4. gone1 \in Item
  BY <1>1, RemovedIs
<1> HIDE DEF e, gone1
<1>5. dead \in Eng /\ Same(dead, e, {"items"})
  BY <1>1, <1>4 DEF Eng, Same, Fields
<1> HIDE DEF dead
<1>6. Alone(dead) /\ Clear(dead, tree[b])
  <2>1. /\ Same(dead, e, Fields \ {"remove", "create", "out", "task", "wait"})
        /\ Same(dead, e, Fields \ {"task", "rmap"})
    BY <1>5 DEF Same, Fields
  <2> QED BY <1>1, <2>1, AloneSame, ClearSame
<1>7. ASSUME NEW x \in Eng, x = e \/ x = dead, NEW k, k.step # "make", NEW r, Same(r, x, {"task"}),
             r.task = [x.task EXCEPT !["absorb"] = k]
      PROVE  Alone(r) /\ Clear(r, tree[b])
  <2>1. Alone(x)
    BY <1>1, <1>6, <1>7
  <2>2. /\ x.task = e.task /\ x.remove = e.remove /\ x.create = e.create /\ x.out = e.out /\ x.wait = e.wait
    BY <1>5, <1>7 DEF Same, Fields
  <2>3. ~Merging(x) /\ ~Flushing(x) /\ ~Absorbing(x)
    BY <1>3, <2>2 DEF Merging, Flushing, Absorbing
  <2>4. Same(r, x, Fields \ {"remove", "create", "out", "wait"})
    BY <1>7 DEF Same, Fields
  <2>5. \A d \in Chain : x.task[d] = Idle
    BY <1>3, <2>2
  <2>6. PICK c \in Chain : c = "absorb"
    BY <1>1
  <2>7. r.task = [x.task EXCEPT ![c] = k]
    BY <1>7, <2>6
  <2> QED BY <1>7, <2>1, <2>3, <2>4, <2>5, <2>7, TaskSingle
<1>8. Same(r1, e, {"task"}) /\ r1.task = [e.task EXCEPT !["absorb"] = k1] /\ k1.step # "make"
  BY <1>1 DEF Eng, Same, Fields
<1>9. Same(r2, dead, {"task"}) /\ r2.task = [dead.task EXCEPT !["absorb"] = k2] /\ k2.step # "make"
  BY <1>1, <1>5 DEF Eng, Same, Fields
<1> HIDE DEF r1, r2, k1, k2
<1>10. Alone(r1) /\ Clear(r1, tree[b])
  BY <1>1, <1>7, <1>8
<1>11. Alone(r2) /\ Clear(r2, tree[b])
  BY <1>5, <1>7, <1>9
<1> QED BY <1>2, <1>6, <1>10, <1>11, QuietSingle

LEMMA OpenedSingle ==
    ASSUME Typed, Single, NEW b \in Browser, Opened(b)
    PROVE  Single'
<1> DEFINE e == eng[b]
           k == e.task["absorb"]
           e1 == Learn(e, k.id, k.at, k.body)
           k1 == IF e.on THEN [k EXCEPT !.step = "look"] ELSE Idle
           r == [e1 EXCEPT !.task["absorb"] = k1]
<1>1. UNCHANGED tree /\ Becomes(b, r) /\ k.step = "open"
  BY DEF Opened
<1>2. e \in Eng /\ EngOK(e, clock) /\ "absorb" \in Chain /\ Alone(e) /\ Clear(e, tree[b])
  BY TypedAt, SingleAt DEF Chain
<1> HIDE DEF e
<1>3. k \in Task /\ TaskOK(k, clock) /\ k # Idle
  BY <1>1, <1>2 DEF EngOK, Eng, Idle
<1>4. k.id \in SyncId /\ k.at \in Nat /\ k.body \in Body
  BY <1>1, <1>3 DEF TaskOK, Task
<1>5. \A d \in Chain : d # "absorb" => e.task[d] = Idle
  BY <1>2, <1>3, IdleTasks
<1> HIDE DEF k
<1>6. e1 \in Eng /\ Same(e1, e, {"items", "index"})
  <2>1. PICK x \in Eng, s \in SyncId, at \in Nat, body \in Body :
           x = e /\ s = k.id /\ at = k.at /\ body = k.body
    BY <1>2, <1>4
  <2>2. LET z == Learn(x, s, at, body) IN z \in Eng /\ Same(z, x, {"items", "index"})
    BY LearnIs
  <2> QED BY <2>1, <2>2
<1> HIDE DEF e1
<1>7. k1.step # "make"
  BY <1>3 DEF Idle, Task
<1> HIDE DEF k1
<1>8. Same(r, e1, {"task"}) /\ r.task = [e1.task EXCEPT !["absorb"] = k1]
  BY <1>2, <1>6 DEF Eng, Same, Fields
<1> HIDE DEF r
<1>9. Same(r, e, Fields \ {"remove", "create", "out", "wait"}) /\ r.task = [e.task EXCEPT !["absorb"] = k1]
  BY <1>6, <1>8 DEF Same, Fields
<1>10. e.task["absorb"] # Idle
  BY <1>3 DEF k
<1>11. Alone(r) /\ Clear(r, tree[b])
  BY <1>2, <1>5, <1>7, <1>9, <1>10, TaskSingle
<1> QED BY <1>1, <1>11, QuietSingle

(* The chain that is at work is over.                                      *)
LEMMA FinishedSingle ==
    ASSUME NEW e \in Eng, Alone(e), NEW c \in Chain, e.task[c] # Idle, NEW t,
           NEW x \in Eng, Same(x, e, Fields \ {"remove", "create", "out", "wait", "task"})
    PROVE  Alone(Finished(x, c)) /\ Clear(Finished(x, c), t)
<1> DEFINE r == Finished(x, c)
<1>1. Same(r, x, {"task", "tail"}) /\ r.task = [x.task EXCEPT ![c] = Idle]
  BY FinishedIs
<1> HIDE DEF r
<1>2. Same(r, e, Fields \ {"remove", "create", "out", "wait"}) /\ r.task = [e.task EXCEPT ![c] = Idle]
  BY <1>1 DEF Same, Fields
<1>3. PICK k : k = Idle /\ k.step # "make"
  BY DEF Idle
<1>4. \A d \in Chain : d # c => e.task[d] = Idle
  BY IdleTasks
<1>5. Alone(r) /\ Clear(r, t)
  BY <1>2, <1>3, <1>4, TaskSingle
<1> QED BY <1>5 DEF r

LEMMA ApplyRemovalSingle ==
    ASSUME Typed, Single, NEW b \in Browser, ApplyRemoval(b)
    PROVE  Single'
<1> DEFINE e == eng[b]
           s == e.task["absorb"].id
           n == e.map[s]
           e1 == IF n = 0 THEN e ELSE Forget(e, s)
           same == n # 0 /\ tree[b][n] # None /\ tree[b][n].url = e.items[s].url
           W == IF same THEN e1.writing \ {n} ELSE e1.writing
           x == [e1 EXCEPT !.writing = W]
           t1 == IF same THEN [tree[b] EXCEPT ![n] = None] ELSE tree[b]
<1>1. /\ Becomes(b, Finished(x, "absorb")) /\ e.task["absorb"].step = "remove"
      /\ tree' = IF same THEN [tree EXCEPT ![b][n] = None] ELSE tree
  BY DEF ApplyRemoval
<1>2. e \in Eng /\ EngOK(e, clock) /\ "absorb" \in Chain /\ Alone(e)
  BY TypedAt, SingleAt DEF Chain
<1>3. tree' = [tree EXCEPT ![b] = t1]
  <2>1. CASE same
    BY <1>1, <2>1
  <2>2. CASE ~same
    BY <1>1, <2>2, TreeSame
  <2> QED BY <2>1, <2>2
<1> HIDE DEF e
<1>4. s \in SyncId /\ e.task["absorb"] # Idle
  <2>1. e.task["absorb"] # Idle
    BY <1>1, IdleStep
  <2>2. s \in SyncId
    BY <1>1, <1>2 DEF EngOK, TaskOK
  <2> QED BY <2>1, <2>2
<1> HIDE DEF s
<1>5. EngOK(e1, clock) /\ e1 \in Eng /\ Same(e1, e, {"map", "rmap"})
  <2>1. EngOK(Forget(e, s), clock) /\ Forget(e, s) \in Eng /\ Same(Forget(e, s), e, {"map", "rmap"})
    BY <1>2, <1>4, ForgetOK, ForgetIs
  <2>2. Same(e, e, {"map", "rmap"})
    BY DEF Same
  <2> QED BY <1>2, <2>1, <2>2
<1> HIDE DEF e1, n, same, t1
<1>6. W \in SUBSET Node
  BY <1>5 DEF Eng
<1> HIDE DEF W
<1>7. EngOK(x, clock) /\ Same(x, e1, {"writing"})
  BY <1>5, <1>6, WritingOK
<1> HIDE DEF x
<1>8. x \in Eng /\ Same(x, e, Fields \ {"remove", "create", "out", "wait", "task"})
  BY <1>5, <1>7 DEF EngOK, Same, Fields
<1>9. Alone(Finished(x, "absorb")) /\ Clear(Finished(x, "absorb"), t1)
  BY <1>2, <1>4, <1>8, FinishedSingle
<1> QED BY <1>1, <1>3, <1>9, StepSingle

LEMMA LookSingle ==
    ASSUME Typed, Single, NEW b \in Browser, NEW c \in Chain, Look(b, c)
    PROVE  Single'
<1> DEFINE e == eng[b]
           k == e.task[c]
           n == e.map[k.id]
           e1 == IF n = 0 THEN e ELSE Forget(e, k.id)
           twins == CopiesOf(tree[b], k.body.url)
           w == [e EXCEPT !.writing = @ \cup {n}]
<1>1. /\ k \in Task /\ k.id \in SyncId /\ k.body \in Body /\ k.step = "look"
      /\ n \in Node \cup {0} /\ EngOK(e1, clock)
      /\ UNCHANGED <<relay, clock, kept, awake, left, excused, gone, sunk>>
      /\ \/ /\ n \in Node /\ tree[b][n] # None
            /\ tree' = [tree EXCEPT ![b][n] = k.body]
            /\ Becomes(b, Finished(e, c)) \/ Becomes(b, Finished(w, c))
         \/ tree' = tree /\ Becomes(b, Finished(e1, c))
         \/ tree' = tree /\ twins # {} /\ Becomes(b, Finished(Remember(e1, k.id, Min(twins)), c))
         \/ tree' = tree /\ twins = {} /\ Becomes(b, [e1 EXCEPT !.task[c].step = "make"])
  BY LookIs, Zenon
<1>2. e \in Eng /\ EngOK(e, clock) /\ tree[b] \in Tree /\ Alone(e)
  BY TypedAt, SingleAt
<1>3. e.task[c] # Idle
  BY <1>1, IdleStep
<1>4. e1 \in Eng /\ Same(e1, e, {"map", "rmap"})
  <2>1. PICK x \in Eng, s \in SyncId : x = e /\ s = k.id
    BY <1>1, <1>2
  <2>2. Forget(x, s) \in Eng /\ Same(Forget(x, s), x, {"map", "rmap"})
    BY ForgetIs
  <2>3. Same(e, e, {"map", "rmap"})
    BY DEF Same
  <2> QED BY <1>2, <2>1, <2>2, <2>3
<1>5. n \in Node => w \in Eng /\ Same(w, e, {"writing"})
  <2> HIDE DEF e, n
  <2> QED BY <1>2 DEF Eng, Same, Fields
<1> HIDE DEF e, e1, w
<1>6. ASSUME NEW x \in Eng, Same(x, e, {"map", "rmap", "writing"}), NEW t
      PROVE  Alone(Finished(x, c)) /\ Clear(Finished(x, c), t)
  <2>1. Same(x, e, Fields \ {"remove", "create", "out", "wait", "task"})
    BY <1>6 DEF Same, Fields
  <2> QED BY <1>2, <1>3, <1>6, <2>1, FinishedSingle
<1>7. CASE /\ n \in Node /\ tree' = [tree EXCEPT ![b][n] = k.body]
           /\ Becomes(b, Finished(e, c)) \/ Becomes(b, Finished(w, c))
  <2>1. PICK t1 : t1 = [tree[b] EXCEPT ![n] = k.body] /\ tree' = [tree EXCEPT ![b] = t1]
    BY <1>7
  <2>2. Same(e, e, {"map", "rmap", "writing"}) /\ Same(w, e, {"map", "rmap", "writing"})
    BY <1>5, <1>7 DEF Same
  <2>3. /\ Alone(Finished(e, c)) /\ Clear(Finished(e, c), t1)
        /\ Alone(Finished(w, c)) /\ Clear(Finished(w, c), t1)
    BY <1>2, <1>5, <1>6, <1>7, <2>2
  <2> QED BY <1>7, <2>1, <2>3, StepSingle
<1>8. CASE tree' = tree /\ Becomes(b, Finished(e1, c))
  <2>1. Same(e1, e, {"map", "rmap", "writing"})
    BY <1>4 DEF Same
  <2>2. Alone(Finished(e1, c)) /\ Clear(Finished(e1, c), tree[b])
    BY <1>4, <1>6, <2>1
  <2> QED BY <1>8, <2>2, QuietSingle
<1>9. CASE tree' = tree /\ twins # {} /\ Becomes(b, Finished(Remember(e1, k.id, Min(twins)), c))
  <2>1. PICK s \in SyncId, m \in Node : s = k.id /\ m = Min(twins)
    BY <1>1, <1>2, <1>9, TwinIs
  <2>2. PICK x : x = Remember(e1, s, m)
    OBVIOUS
  <2>3. x \in Eng /\ Same(x, e1, {"map", "rmap"})
    BY <1>4, <2>2, RememberIs
  <2>4. Same(x, e, {"map", "rmap", "writing"})
    BY <1>4, <2>3 DEF Same
  <2>5. Alone(Finished(x, c)) /\ Clear(Finished(x, c), tree[b])
    BY <1>6, <2>3, <2>4
  <2>6. Becomes(b, Finished(x, c))
    BY <1>9, <2>1, <2>2
  <2> QED BY <1>9, <2>5, <2>6, QuietSingle
<1>10. CASE tree' = tree /\ twins = {} /\ Becomes(b, [e1 EXCEPT !.task[c].step = "make"])
  <2> DEFINE r == [e1 EXCEPT !.task[c].step = "make"]
             k1 == [k EXCEPT !.step = "make"]
  <2>1. e1.task = e.task
    BY <1>4 DEF Same, Fields
  <2>2. Same(r, e1, {"task"}) /\ r.task = [e1.task EXCEPT ![c] = [e1.task[c] EXCEPT !.step = "make"]]
    BY <1>1, <2>1, MakeIs
  <2> HIDE DEF r
  <2>3. r.task = [e.task EXCEPT ![c] = k1] /\ Same(r, e, Fields \ {"remove", "create", "out", "wait"})
    BY <1>4, <2>1, <2>2 DEF Same, Fields
  <2>4. k1.body = k.body
    BY <1>1 DEF Task
  <2>5. CopiesOf(tree[b], k1.body.url) = {}
    BY <1>10, <2>4
  <2> HIDE DEF k1
  <2>6. \A d \in Chain : d # c => e.task[d] = Idle
    BY <1>2, <1>3, IdleTasks
  <2>7. Alone(r) /\ Clear(r, tree[b])
    BY <1>2, <1>3, <2>3, <2>5, <2>6, TaskSingle
  <2> QED BY <1>10, <2>7, QuietSingle DEF r
<1> QED BY <1>1, <1>7, <1>8, <1>9, <1>10

LEMMA MakeSingle ==
    ASSUME Typed, Single, NEW b \in Browser, NEW c \in Chain, Make(b, c)
    PROVE  Single'
<1> DEFINE e == eng[b]
           k == e.task[c]
           n == Min(Unused(b))
           r == Remember(e, k.id, n)
           r1 == [r EXCEPT !.writing = @ \cup {n}]
           t1 == [tree[b] EXCEPT ![n] = k.body]
<1>1. /\ k.step = "make" /\ Unused(b) # {} /\ tree' = [tree EXCEPT ![b] = t1]
      /\ Becomes(b, Finished(r1, c))
  BY DEF Make
<1>2. e \in Eng /\ EngOK(e, clock) /\ Alone(e)
  BY TypedAt, SingleAt
<1>3. k.id \in SyncId /\ e.task[c] # Idle
  BY <1>1, <1>2 DEF EngOK, TaskOK, Idle
<1>4. n \in Node
  <2>1. Unused(b) \subseteq Node
    BY DEF Unused
  <2> QED BY <1>1, <2>1, MinIs, Basics
<1> HIDE DEF e, n, k
<1>5. r \in Eng /\ Same(r, e, {"map", "rmap"})
  BY <1>2, <1>3, <1>4, RememberIs
<1> HIDE DEF r, t1
<1>6. r1 \in Eng /\ Same(r1, r, {"writing"})
  BY <1>4, <1>5 DEF Eng, Same, Fields
<1> HIDE DEF r1
<1>7. Same(r1, e, Fields \ {"remove", "create", "out", "wait", "task"})
  BY <1>5, <1>6 DEF Same, Fields
<1>8. Alone(Finished(r1, c)) /\ Clear(Finished(r1, c), t1)
  BY <1>2, <1>3, <1>6, <1>7, FinishedSingle
<1> QED BY <1>1, <1>8, StepSingle

LEMMA FlushStartSingle ==
    ASSUME Typed, Single, Turns, NEW b \in Browser, FlushStart(b)
    PROVE  Single'
<1> DEFINE e == eng[b]
           S == {[node |-> n, body |-> tree[b][n]] : n \in e.queue \cap Present(tree[b])}
           r == [e EXCEPT !.queue = {}, !.out["flush"] = S]
<1>1. UNCHANGED tree /\ Becomes(b, r) /\ MayStart(e)
  BY DEF FlushStart
<1>2. e \in Eng
  BY TypedAt
<1>3. ~Merging(e) /\ ~Flushing(e) /\ ~Absorbing(e) /\ \A c \in Chain : e.task[c] = Idle
  BY <1>1, StartFinds
<1> HIDE DEF e, S
<1>4. /\ r.remove = e.remove /\ r.create = e.create /\ r.task = e.task /\ r.wait = e.wait
      /\ r.out = [e.out EXCEPT !["flush"] = S] /\ e.out \in [Sender -> SUBSET Outgoing]
  BY <1>2 DEF Eng
<1> HIDE DEF r
<1>5. r.out["merge"] = e.out["merge"]
  BY <1>4 DEF Sender
<1>6. Alone(r)
  BY <1>3, <1>4, <1>5 DEF Alone, Merging, Absorbing
<1>7. Clear(r, tree[b])
  BY <1>3, <1>4, ClearIdle DEF Idle
<1> QED BY <1>1, <1>6, <1>7, QuietSingle

LEMMA FlushSkipSingle ==
    ASSUME Typed, Single, NEW b \in Browser, NEW o, FlushSkip(b, o)
    PROVE  Single'
<1> DEFINE e == eng[b]
           S == e.out["flush"] \ {o}
           r == [e EXCEPT !.out["flush"] = S]
<1>1. UNCHANGED tree /\ Becomes(b, r) /\ o \in e.out["flush"]
  BY DEF FlushSkip, Becomes
<1>2. e \in Eng /\ Alone(e) /\ Clear(e, tree[b])
  BY TypedAt, SingleAt
<1> HIDE DEF e, S
<1>3. /\ r.remove = e.remove /\ r.create = e.create /\ r.task = e.task /\ r.wait = e.wait /\ r.rmap = e.rmap
      /\ r.out = [e.out EXCEPT !["flush"] = S] /\ e.out \in [Sender -> SUBSET Outgoing]
  BY <1>2 DEF Eng
<1> HIDE DEF r
<1>4. r.out["merge"] = e.out["merge"]
  BY <1>3 DEF Sender
<1>5. Flushing(e) /\ Merging(r) = Merging(e) /\ Absorbing(r) = Absorbing(e)
  BY <1>1, <1>3, <1>4 DEF Merging, Absorbing, Flushing
<1>6. Alone(r)
  BY <1>2, <1>5, AloneLess
<1>7. Clear(r, tree[b])
  BY <1>2, <1>3 DEF Clear
<1> QED BY <1>1, <1>6, <1>7, QuietSingle

(* While something is sent no chain writes into the tree.                  *)
LEMMA SendingIdle ==
    ASSUME NEW e, Alone(e), NEW w \in Sender, e.out[w] # {}, w = "merge" => e.task["merge"] = Idle
    PROVE  /\ \A c \in Chain : e.task[c] = Idle
           /\ w = "merge" => Merging(e) /\ ~Flushing(e) /\ ~Absorbing(e)
           /\ w = "flush" => Flushing(e) /\ ~Merging(e) /\ ~Absorbing(e)
<1>1. w = "merge" => Merging(e) /\ ~Flushing(e) /\ ~Absorbing(e)
  BY DEF Alone, Merging
<1>2. w = "flush" => Flushing(e) /\ ~Merging(e) /\ ~Absorbing(e)
  BY DEF Alone, Flushing
<1>3. e.task["absorb"] = Idle /\ e.task["merge"] = Idle
  BY <1>1, <1>2 DEF Merging, Absorbing, Sender
<1> QED BY <1>1, <1>2, <1>3 DEF Chain

LEMMA PublishSingle ==
    ASSUME Typed, Single, NEW b \in Browser, NEW w \in Sender, NEW o, Publish(b, w, o)
    PROVE  Single'
<1> DEFINE e == eng[b]
           s == IF e.rmap[o.node] # 0 THEN e.rmap[o.node] ELSE o.body.url
           m == Remember(e, s, o.node)
           e1 == [m EXCEPT !.out[w] = @ \ {o}]
           k == [id |-> s, at |-> clock[s] + 1, body |-> o.body]
           r == [e1 EXCEPT !.wait[w] = k]
<1>1. /\ o \in e.out[w] /\ o.node \in Node /\ s \in SyncId
      /\ m \in Eng /\ e1 \in Eng /\ Same(e1, m, {"out"})
      /\ Becomes(b, r) \/ Becomes(b, e1)
      /\ UNCHANGED <<tree, kept, awake, gone, sunk>>
      /\ w = "merge" => e.remove = {} /\ e.tomb = {} /\ e.create = {} /\ e.task["merge"] = Idle
  BY PublishIs, Zenon
<1>2. e \in Eng /\ Alone(e)
  BY TypedAt, SingleAt
<1> HIDE DEF e
<1>3. /\ \A c \in Chain : e.task[c] = Idle
      /\ w = "merge" => Merging(e) /\ ~Flushing(e) /\ ~Absorbing(e)
      /\ w = "flush" => Flushing(e) /\ ~Merging(e) /\ ~Absorbing(e)
  BY <1>1, <1>2, SendingIdle
<1> HIDE DEF s, k
<1>4. Same(m, e, {"map", "rmap"})
  BY <1>1, <1>2, RememberIs
<1> HIDE DEF m
<1>5. /\ e1.remove = m.remove /\ e1.create = m.create /\ e1.task = m.task /\ e1.wait = m.wait
      /\ \A v \in Sender : v # w => e1.out[v] = m.out[v]
  BY <1>1 DEF Eng
<1> HIDE DEF e1
<1>6. /\ r.remove = e1.remove /\ r.create = e1.create /\ r.task = e1.task /\ r.out = e1.out
      /\ \A v \in Sender : v # w => r.wait[v] = e1.wait[v]
  BY <1>1 DEF Eng
<1> HIDE DEF r
<1>7. m.remove = e.remove /\ m.create = e.create /\ m.task = e.task /\ m.wait = e.wait /\ m.out = e.out
  BY <1>4 DEF Same, Fields
<1>8. ASSUME NEW x, x.remove = e.remove, x.create = e.create, x.task = e.task,
             \A v \in Sender : v # w => x.out[v] = e.out[v] /\ x.wait[v] = e.wait[v]
      PROVE  Alone(x) /\ Clear(x, tree[b])
  <2>1. Clear(x, tree[b])
    BY <1>3, <1>8, ClearIdle DEF Idle
  <2>2. ~Absorbing(x)
    BY <1>3, <1>8 DEF Absorbing, Chain
  <2>3. CASE w = "merge"
    <3>1. x.out["flush"] = e.out["flush"] /\ x.wait["flush"] = e.wait["flush"]
      BY <1>8, <2>3 DEF Sender
    <3>2. ~Flushing(x)
      BY <1>3, <2>3, <3>1 DEF Flushing
    <3> QED BY <2>1, <2>2, <3>2 DEF Alone
  <2>4. CASE w = "flush"
    <3>1. x.out["merge"] = e.out["merge"] /\ x.wait["merge"] = e.wait["merge"]
      BY <1>8, <2>4 DEF Sender
    <3>2. ~Merging(x)
      BY <1>3, <1>8, <2>4, <3>1 DEF Merging
    <3> QED BY <2>1, <2>2, <3>2 DEF Alone
  <2> QED BY <2>3, <2>4 DEF Sender
<1>9. Alone(e1) /\ Clear(e1, tree[b])
  BY <1>5, <1>7, <1>8
<1>10. Alone(r) /\ Clear(r, tree[b])
  BY <1>5, <1>6, <1>7, <1>8
<1> QED BY <1>1, <1>9, <1>10, QuietSingle

LEMMA AnsweredSingle ==
    ASSUME Typed, Single, NEW b \in Browser, NEW w \in Sender, Answered(b, w)
    PROVE  Single'
<1> DEFINE e == eng[b]
           k == e.wait[w]
           now == IF "ok" \in Slow THEN clock[k.id] ELSE k.at
           l == Learn(e, k.id, now, k.body)
           r == [l EXCEPT !.wait[w] = NoWait]
<1>1. UNCHANGED tree /\ Becomes(b, r) /\ k # NoWait
  BY DEF Answered
<1>2. e \in Eng /\ EngOK(e, clock) /\ clock \in [SyncId -> Nat] /\ Alone(e) /\ Clear(e, tree[b])
  BY TypedAt, SingleAt
<1> HIDE DEF e
<1>3. k \in Wait /\ WaitOK(k, clock)
  BY <1>2 DEF EngOK, Eng
<1>4. k.id \in SyncId /\ k.at \in Nat /\ k.body \in Body /\ now \in Nat
  BY <1>1, <1>2, <1>3 DEF WaitOK, Wait
<1> HIDE DEF now
<1>5. l \in Eng /\ Same(l, e, {"items", "index"})
  <2>1. PICK x \in Eng, s \in SyncId, at \in Nat, body \in Body :
           x = e /\ s = k.id /\ at = now /\ body = k.body
    BY <1>2, <1>4
  <2>2. LET z == Learn(x, s, at, body) IN z \in Eng /\ Same(z, x, {"items", "index"})
    BY LearnIs
  <2> QED BY <2>1, <2>2
<1>6. /\ l.remove = e.remove /\ l.create = e.create /\ l.task = e.task /\ l.out = e.out /\ l.wait = e.wait
      /\ l.rmap = e.rmap
  <2> HIDE DEF l
  <2> QED BY <1>5 DEF Same, Fields
<1> HIDE DEF l
<1>7. /\ r.remove = l.remove /\ r.create = l.create /\ r.task = l.task /\ r.out = l.out /\ r.rmap = l.rmap
      /\ \A v \in Sender : r.wait[v] = IF v = w THEN NoWait ELSE l.wait[v]
  BY <1>5 DEF Eng
<1> HIDE DEF r
<1>8. /\ "flush" \in Sender /\ "merge" \in Sender
  BY DEF Sender
<1>9. \A v \in Sender : r.wait[v] # NoWait => e.wait[v] # NoWait
  BY <1>6, <1>7
<1>10. Alone(r)
  <2>1. Absorbing(r) => Absorbing(e)
    BY <1>6, <1>7 DEF Absorbing
  <2>2. Merging(r) => Merging(e)
    BY <1>6, <1>7, <1>8, <1>9 DEF Merging
  <2>3. Flushing(r) => Flushing(e)
    BY <1>6, <1>7, <1>8, <1>9 DEF Flushing
  <2> QED BY <1>2, <2>1, <2>2, <2>3, AloneLess
<1>11. Clear(r, tree[b])
  BY <1>2, <1>6, <1>7 DEF Clear
<1> QED BY <1>1, <1>10, <1>11, QuietSingle

LEMMA BurySingle ==
    ASSUME Typed, Single, NEW b \in Browser, NEW s \in SyncId, Bury(b, s)
    PROVE  Single'
<1> DEFINE e == eng[b]
           f == Forget(e, s)
           r == [f EXCEPT !.items[s] = Removed(clock[s] + 1, @), !.tomb = @ \ {s}]
<1>1. /\ Becomes(b, r) /\ f \in Eng /\ r \in Eng /\ Same(r, f, {"items", "tomb"})
      /\ UNCHANGED <<tree, awake, gone, sunk>>
  BY BuryIs, Zenon
<1>2. e \in Eng /\ Alone(e) /\ Clear(e, tree[b])
  BY TypedAt, SingleAt
<1> HIDE DEF e
<1>3. /\ Same(f, e, {"map", "rmap"})
      /\ \A n \in Node : f.rmap[n] = IF n = e.map[s] /\ e.rmap[n] = s THEN 0 ELSE e.rmap[n]
  BY <1>2, ForgetIs
<1> HIDE DEF f, r
<1>4. /\ Same(r, e, Fields \ {"remove", "create", "out", "task", "wait"})
      /\ r.task = e.task /\ r.rmap = f.rmap
  BY <1>1, <1>3 DEF Same, Fields
<1>5. Alone(r)
  BY <1>2, <1>4, AloneSame
<1>6. Clear(r, tree[b])
  BY <1>2, <1>3, <1>4, ClearLess
<1> QED BY <1>1, <1>5, <1>6, QuietSingle

LEMMA SweepSingle ==
    ASSUME Typed, Single, NEW b \in Browser, Sweep(b)
    PROVE  Single'
<1>1. PICK r \in Eng : Becomes(b, r) /\ Same(r, eng[b], {"sweep", "tomb"})
  BY SweepIs
<1>2. /\ Same(r, eng[b], Fields \ {"remove", "create", "out", "task", "wait"})
      /\ Same(r, eng[b], Fields \ {"task", "rmap"})
  BY <1>1 DEF Same, Fields
<1>3. Alone(r) /\ Clear(r, tree[b])
  BY <1>2, SingleAt, AloneSame, ClearSame
<1> QED BY <1>1, <1>3, QuietSingle DEF Sweep

LEMMA MergeStartSingle ==
    ASSUME Typed, Single, Turns, NEW b \in Browser, NEW ok, MergeStart(b, ok)
    PROVE  Single'
<1> DEFINE e == eng[b]
           t == tree[b]
           p == Paired(e, t)
<1>1. PICK r \in Eng :
         /\ Becomes(b, r) /\ Same(r, e, {"map", "rmap", "pending", "remove", "create", "out"})
         /\ r.map = p.map /\ r.rmap = p.rmap
         /\ r.remove \subseteq Vanished(e, t) /\ r.create = Creates(e, t)
         /\ r.out = [e.out EXCEPT !["merge"] = Publishes(e, t)]
  BY MergeStartIs, Zenon
<1>2. MayStart(e) /\ UNCHANGED tree
  BY DEF MergeStart
<1>3. ~Flushing(e) /\ ~Absorbing(e) /\ \A c \in Chain : e.task[c] = Idle
  BY <1>2, StartFinds
<1>4. e \in Eng
  BY TypedAt
<1> HIDE DEF e, t, p
<1>5. r.task = e.task /\ r.wait = e.wait /\ e.out \in [Sender -> SUBSET Outgoing]
  BY <1>1, <1>4 DEF Same, Fields, Eng
<1>6. r.out["flush"] = e.out["flush"]
  BY <1>1, <1>5 DEF Sender
<1>7. Alone(r)
  BY <1>3, <1>5, <1>6 DEF Alone, Flushing, Absorbing
<1>8. \A c \in Chain : r.task[c].step # "make"
  BY <1>3, <1>5, IdleStep
<1>9. Clear(r, tree[b])
  BY <1>8, ClearIdle
<1> QED BY <1>1, <1>2, <1>7, <1>9, QuietSingle

LEMMA MergeRemoveSingle ==
    ASSUME Typed, Single, NEW b \in Browser, NEW s, MergeRemove(b, s)
    PROVE  Single'
<1>1. PICK r \in Eng : s \in eng[b].remove /\ Becomes(b, r) /\ Same(r, eng[b], {"remove", "tomb"})
  BY MergeRemoveIs
<1>2. /\ r.create = eng[b].create /\ r.out = eng[b].out /\ r.task = eng[b].task /\ r.wait = eng[b].wait
      /\ Same(r, eng[b], Fields \ {"task", "rmap"})
  BY <1>1 DEF Same, Fields
<1>3. Merging(eng[b]) /\ Flushing(r) = Flushing(eng[b]) /\ Absorbing(r) = Absorbing(eng[b])
  BY <1>1, <1>2 DEF Merging, Flushing, Absorbing
<1>4. Alone(r) /\ Clear(r, tree[b])
  BY <1>2, <1>3, SingleAt, AloneLess, ClearSame
<1> QED BY <1>1, <1>4, QuietSingle DEF MergeRemove

LEMMA MergeCreateSingle ==
    ASSUME Typed, Single, NEW b \in Browser, NEW x, MergeCreate(b, x)
    PROVE  Single'
<1> DEFINE k == [step |-> "look", id |-> x.id, at |-> 0, body |-> x.body]
<1>1. PICK r \in Eng :
         /\ x \in eng[b].create /\ Becomes(b, r) /\ Same(r, eng[b], {"create", "task"})
         /\ r.task = [eng[b].task EXCEPT !["merge"] = k]
  BY MergeCreateIs
<1>2. k.step # "make"
  OBVIOUS
<1> HIDE DEF k
<1>3. eng[b] \in Eng /\ Alone(eng[b])
  BY TypedAt, SingleAt
<1>4. Merging(eng[b]) /\ ~Flushing(eng[b]) /\ eng[b].task["absorb"] = Idle
  BY <1>1, <1>3 DEF Merging, Alone, Absorbing
<1>5. r.out = eng[b].out /\ r.wait = eng[b].wait
  BY <1>1 DEF Same, Fields
<1>6. r.task["absorb"] = Idle /\ r.task["merge"] = k
  BY <1>1, <1>3, <1>4 DEF Eng, Chain
<1>7. Alone(r)
  BY <1>4, <1>5, <1>6 DEF Alone, Flushing, Absorbing
<1>8. \A c \in Chain : r.task[c].step # "make"
  BY <1>2, <1>6, IdleStep DEF Chain
<1> QED BY <1>1, <1>7, <1>8, ClearIdle, QuietSingle DEF MergeCreate

(* No chain is at work at the start.                                       *)
LEMMA InitSingle == Init => Single
<1> SUFFICES ASSUME Init, NEW b \in Browser PROVE Alone(eng[b]) /\ Clear(eng[b], tree[b])
  BY DEF Single
<1>1. PICK on, m, r, i, p : eng[b] = Started(on, m, r, i, p)
  <2>1. eng[b] \in {Started(TRUE, OldMap, r, OldItems, 0) : r \in Reverses(OldMap)}
                    \cup {Started(TRUE, [s \in SyncId |-> 0], [n \in Node |-> 0], NewItems, 0)}
    BY DEF Init
  <2> QED BY <2>1
<1> DEFINE x == Started(on, m, r, i, p)
<1>2. /\ x.remove = {} /\ x.create = {} /\ \A c \in Chain : x.task[c] = Idle
      /\ \A w \in Sender : x.out[w] = {} /\ x.wait[w] = NoWait
  BY DEF Started
<1> HIDE DEF x
<1>3. Alone(x) /\ Clear(x, tree[b])
  BY <1>2, StartedSingle
<1> QED BY <1>1, <1>3 DEF x

(* Every step keeps it.                                                    *)
LEMMA NextSingle == Turns /\ Typed /\ Single /\ [Next]_vars => Single'
<1> SUFFICES ASSUME Turns, Typed, Single, [Next]_vars PROVE Single'
  OBVIOUS
<1>1. CASE UNCHANGED vars
  BY <1>1 DEF vars, Single
<1>2. ASSUME NEW b \in Browser, Engine(b) PROVE Single'
  <2>1. CASE Wake(b)
    BY <2>1, WakeSingle
  <2>2. CASE Absorb(b)
    BY <2>2, ReceiveSingle, OpenedSingle, ApplyRemovalSingle DEF Absorb
  <2>3. CASE Upsert(b)
    BY <2>3, LookSingle, MakeSingle DEF Upsert
  <2>4. CASE Flush(b)
    BY <2>4, FlushStartSingle, FlushSkipSingle, AnsweredSingle, PublishSingle DEF Flush
  <2>5. CASE Tombs(b)
    BY <2>5, SweepSingle, BurySingle DEF Tombs
  <2>6. CASE Merge(b)
    BY <2>6, MergeStartSingle, MergeRemoveSingle, MergeCreateSingle DEF Merge
  <2> QED BY <1>2, <2>1, <2>2, <2>3, <2>4, <2>5, <2>6 DEF Engine
<1>3. ASSUME NEW b \in Browser, User(b) PROVE Single'
  BY <1>3, UserAddSingle, UserEditSingle, UserDeleteSingle, UserDeleteFolderSingle, SwitchSingle, KillSingle,
     MergeStartSingle DEF User
<1> QED BY <1>1, <1>2, <1>3 DEF Next

(* What an engine may add to the trees.                                    *)
NoCopy ==
    \A b \in Browser : \A n \in Node :
        left' = left /\ tree[b][n] = None /\ tree'[b][n] # None
           => \A m \in CopiesOf(tree[b], tree'[b][n].url) : eng[b].rmap[m] = 0

(* Only a create adds a bookmark without a user, and what it found is      *)
(* still so.                                                               *)
LEMMA StepNoCopy ==
    ASSUME Typed, Single, [Next]_vars
    PROVE  NoCopy
<1>1. CASE tree' = tree
  BY <1>1 DEF NoCopy
<1>2. CASE left' # left
  BY <1>2 DEF NoCopy
<1>3. CASE UNCHANGED vars
  BY <1>1, <1>3 DEF vars
<1>4. ASSUME NEW b \in Browser, Engine(b) PROVE NoCopy
  <2>1. CASE Wake(b)
    BY <1>1, <2>1 DEF Wake
  <2>2. CASE ApplyRemoval(b)
    <3>1. PICK n, P : tree' = IF P THEN [tree EXCEPT ![b][n] = None] ELSE tree
      BY <2>2 DEF ApplyRemoval
    <3>2. \A c \in Browser : \A m \in Node : tree'[c][m] = tree[c][m] \/ tree'[c][m] = None
      BY <3>1 DEF Typed, Tree
    <3> QED BY <3>2 DEF NoCopy
  <2>3. CASE (\E s \in SyncId : Receive(b, s)) \/ Opened(b)
    BY <1>1, <2>3 DEF Receive, Opened
  <2>4. ASSUME NEW c \in Chain, Look(b, c) PROVE NoCopy
    <3>1. PICK n, x, P : /\ P => tree[b][n] # None
                         /\ tree' = IF P THEN [tree EXCEPT ![b][n] = x] ELSE tree
      BY <2>4 DEF Look
    <3>2. \A d \in Browser : \A m \in Node : tree[d][m] = None => tree'[d][m] = None
      BY <3>1 DEF Typed, Tree
    <3> QED BY <3>2 DEF NoCopy
  <2>5. ASSUME NEW c \in Chain, Make(b, c) PROVE NoCopy
    <3>1. PICK n, x : /\ eng[b].task[c].step = "make" /\ x = eng[b].task[c].body
                      /\ tree' = [tree EXCEPT ![b][n] = x]
      BY <2>5 DEF Make
    <3>2. \A d \in Browser : \A m \in Node : tree'[d][m] = IF d = b /\ m = n THEN x ELSE tree[d][m]
      BY <3>1 DEF Typed, Tree
    <3>3. \A m \in CopiesOf(tree[b], x.url) : eng[b].rmap[m] = 0
      BY <3>1, SingleAt DEF Clear
    <3> QED BY <3>2, <3>3 DEF NoCopy
  <2>6. CASE Flush(b)
    BY <1>1, <2>6 DEF Flush, FlushStart, FlushSkip, Answered, Publish
  <2>7. CASE Tombs(b)
    BY <1>1, <2>7 DEF Tombs, Sweep, Bury
  <2>8. CASE Merge(b)
    BY <1>1, <2>8 DEF Merge, MergeStart, MergeRemove, MergeCreate
  <2> QED BY <1>4, <2>1, <2>2, <2>3, <2>4, <2>5, <2>6, <2>7, <2>8 DEF Engine, Absorb, Upsert
<1>5. ASSUME NEW b \in Browser, User(b) PROVE NoCopy
  <2>1. CASE Spend
    BY <1>2, <2>1, SpendTyped
  <2>2. CASE MergeStart(b, TRUE)
    BY <1>1, <2>2 DEF MergeStart
  <2>3. User(b) => Spend \/ MergeStart(b, TRUE)
    BY DEF User, UserAdd, UserEdit, UserDelete, UserDeleteFolder, Switch, Kill, Spent, Deleted
  <2> QED BY <1>5, <2>1, <2>2, <2>3
<1> QED BY <1>3, <1>4, <1>5 DEF Next

(* As long as the chains of an engine take turns and nobody changes the    *)
(* URL of a bookmark, the create of applyUpsert() never makes a second     *)
(* copy of a page whose first copy has a sync id: what its search found    *)
(* still holds after the await, whatever the user does and however many    *)
(* events the relay holds for the page.                                    *)
THEOREM CopiesAreSingle == Turns /\ Spec => OneCopy
<1> SUFFICES ASSUME Turns PROVE Spec => OneCopy
  OBVIOUS
<1>1. Typed /\ Single /\ [Next]_vars => Single'
  BY NextSingle
<1>2. Typed /\ Single /\ [Next]_vars =>
        [\A b \in Browser : \A n \in Node :
           left' = left /\ tree[b][n] = None /\ tree'[b][n] # None
              => \A m \in CopiesOf(tree[b], tree'[b][n].url) : eng[b].rmap[m] = 0]_vars
  BY StepNoCopy DEF NoCopy
<1> QED BY <1>1, <1>2, InitSingle, SpecTyped, PTL DEF Spec, OneCopy
=============================================================================
