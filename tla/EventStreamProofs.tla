------------------------- MODULE EventStreamProofs -------------------------
(***************************************************************************)
(* Proofs about the event stream, for any number of Pods, lost             *)
(* connections, restarts and undelivered events: no frame shows a Pod      *)
(* twice, and a browser that nobody is about to poke shows the cache.      *)
(***************************************************************************)
EXTENDS EventStream, SequenceTheorems, TLAPS

-----------------------------------------------------------------------------
(***************************************************************************)
(* Types.                                                                  *)
(***************************************************************************)
Events == [pod : Pods, now : Places]

LEMMA FramesTyped ==
  ASSUME NEW pods \in [Pods -> Places]
  PROVE  /\ Blank \in Frame
         /\ OnColumns(pods) \in SUBSET Pods /\ Unbound(pods) \in SUBSET Pods
BY EventStreamAssumption DEF Blank, Frame, OnColumns, Unbound

LEMMA MoveTyped ==
  ASSUME TypeOK, NEW p \in Pods, NEW place \in Places, Move(p, place)
  PROVE  store' \in [Pods -> Places] /\ feed' \in Seq(Events)
<1>1. [pod |-> p, now |-> place] \in Events
  BY DEF Events
<1> QED
  BY <1>1, AppendProperties DEF TypeOK, Move, Events

LEMMA FaultTyped == ASSUME TypeOK, Fault PROVE faults' \in 0 .. MaxFaults
BY EventStreamAssumption DEF TypeOK, Fault

LEMMA BroadcastTyped ==
  ASSUME TypeOK, Broadcast, pc' = pc, wire' = wire
  PROVE  token' \in BOOLEAN /\ (pc' = "off" => ~token' /\ wire' = << >>)
BY DEF TypeOK, Broadcast

LEMMA InitTyped == Init => TypeOK
<1>1. << >> \in Seq(Events) /\ << >> \in Seq(Frame)
  BY EmptySeq
<1>2. ASSUME Init PROVE store \in [Pods -> Places] /\ cache \in [Pods -> Places]
  BY <1>2 DEF Init, Places
<1>3. Blank \in Frame
  BY EventStreamAssumption DEF Blank, Frame
<1>4. 0 \in 0 .. MaxScore /\ 0 \in 0 .. MaxFaults
  BY EventStreamAssumption
<1> QED
  BY <1>1, <1>2, <1>3, <1>4 DEF Init, TypeOK, Events

LEMMA NextTyped == TypeOK /\ [Next]_vars => TypeOK'
<1> SUFFICES ASSUME TypeOK, [Next]_vars PROVE TypeOK'
  OBVIOUS
<1> USE DEF clusterVars, schedulerVars, streamVars
<1>1. ASSUME NEW p \in Pods, Create(p) PROVE TypeOK'
  <2>1. store' \in [Pods -> Places] /\ feed' \in Seq(Events)
    BY <1>1, MoveTyped DEF Create, Places
  <2> QED
    BY <1>1, <2>1 DEF Create, Move, TypeOK, Events
<1>2. ASSUME NEW p \in Pods, Delete(p) PROVE TypeOK'
  <2>1. store' \in [Pods -> Places] /\ feed' \in Seq(Events)
    BY <1>2, MoveTyped DEF Delete, Places
  <2> QED
    BY <1>2, <2>1 DEF Delete, Move, TypeOK, Events
<1>3. ASSUME NEW p \in Pods, BindPod(p) PROVE TypeOK'
  <2>1. store' \in [Pods -> Places] /\ feed' \in Seq(Events)
    BY <1>3, MoveTyped DEF BindPod, Places
  <2> QED
    BY <1>3, <2>1 DEF BindPod, Move, TypeOK, Events
<1>4. ASSUME NEW p \in Pods, Expire(p) PROVE TypeOK'
  BY <1>4, FaultTyped DEF Expire, TypeOK
<1>5. CASE ScoreChanges
  BY <1>5, EventStreamAssumption DEF ScoreChanges, TypeOK
<1>6. CASE DropEnds
  BY <1>6, BroadcastTyped DEF DropEnds, TypeOK
<1>7. CASE DropFails
  BY <1>7, FaultTyped DEF DropFails, TypeOK
<1>8. CASE Prune
  BY <1>8 DEF Prune, TypeOK
<1>9. CASE SyncPods
  <2>1. Head(feed) \in Events /\ Tail(feed) \in Seq(Events)
    BY <1>9, HeadTailProperties DEF SyncPods, TypeOK, Events
  <2> QED
    BY <1>9, <2>1 DEF SyncPods, TypeOK, Events
<1>10. CASE Notify
  BY <1>10, BroadcastTyped DEF Notify, TypeOK
<1>11. CASE Resync
  BY <1>11, BroadcastTyped DEF Resync, TypeOK
<1>12. CASE Connect
  BY <1>12 DEF Connect, TypeOK
<1>13. CASE TakePoke
  BY <1>13 DEF TakePoke, TypeOK
<1>14. CASE ReadKbkb
  <2>1. [Blank EXCEPT !.score = score] \in Frame
    BY FramesTyped DEF TypeOK, Frame, Blank
  <2> QED
    BY <1>14, <2>1, FramesTyped, FaultTyped DEF ReadKbkb, TypeOK
<1>15. CASE ReadField
  <2>1. [draft EXCEPT !.columns = OnColumns(cache)] \in Frame
    BY FramesTyped DEF TypeOK, Frame
  <2> QED
    BY <1>15, <2>1 DEF ReadField, TypeOK
<1>16. CASE ListQueue
  <2>1. [draft EXCEPT !.queue = Unbound(cache)] \in Frame
    BY FramesTyped DEF TypeOK, Frame
  <2> QED
    BY <1>16, <2>1 DEF ListQueue, TypeOK
<1>17. CASE SendFrame
  <2>1. [draft EXCEPT !.queue = @ \ inflight] \in Frame
    BY DEF TypeOK, Frame
  <2>2. wire' \in Seq(Frame)
    BY <1>17, <2>1, AppendProperties DEF SendFrame, TypeOK
  <2> QED
    BY <1>17, <2>2, FramesTyped DEF SendFrame, TypeOK
<1>18. CASE ReceiveFrame
  <2>1. Head(wire) \in Frame /\ Tail(wire) \in Seq(Frame)
    BY <1>18, HeadTailProperties DEF ReceiveFrame, TypeOK
  <2> QED
    BY <1>18, <2>1 DEF ReceiveFrame, TypeOK
<1>19. CASE Disconnect
  <2>1. << >> \in Seq(Frame)
    BY EmptySeq
  <2> QED
    BY <1>19, <2>1, FramesTyped, FaultTyped DEF Disconnect, TypeOK
<1>20. CASE Restart
  <2>1. << >> \in Seq(Frame)
    BY EmptySeq
  <2>2. feed' \in Seq(Events)
    <3>1. PICK list \in Listings(OnColumns(store) \cup Unbound(store)) :
            feed' = [i \in DOMAIN list |-> [pod |-> list[i], now |-> store[list[i]]]]
      BY <1>20 DEF Restart
    <3>2. PICK n \in Nat : list \in [1 .. n -> OnColumns(store) \cup Unbound(store)]
      BY <3>1 DEF Listings
    <3>3. OnColumns(store) \cup Unbound(store) \subseteq Pods
      BY DEF OnColumns, Unbound
    <3>4. \A i \in 1 .. n : [pod |-> list[i], now |-> store[list[i]]] \in Events
      BY <3>2, <3>3 DEF TypeOK, Events
    <3>5. feed' \in [1 .. n -> Events]
      BY <3>1, <3>2, <3>4
    <3> QED
      BY <3>5, SeqDef
  <2>3. cache' \in [Pods -> Places]
    BY <1>20 DEF Restart, Places
  <2> QED
    BY <1>20, <2>1, <2>2, <2>3, FramesTyped, FaultTyped DEF Restart, TypeOK, Events
<1>21. CASE UNCHANGED vars
  BY <1>21 DEF vars, TypeOK
<1> QED
  BY <1>1, <1>2, <1>3, <1>4, <1>5, <1>6, <1>7, <1>8, <1>9, <1>10, <1>11, <1>12,
     <1>13, <1>14, <1>15, <1>16, <1>17, <1>18, <1>19, <1>20, <1>21
  DEF Next, Assemble

\* Types of the event stream, for every set of Pods and every bound.
THEOREM TypeCorrect == Spec => []TypeOK
BY InitTyped, NextTyped, PTL DEF Spec

-----------------------------------------------------------------------------
(***************************************************************************)
(* A Pod only goes on: absent, queued, placed, gone.  So does the cache,   *)
(* event by event, and it is never ahead of the store.                     *)
(***************************************************************************)
Rank(place) ==
  IF place = "absent" THEN 0
  ELSE IF place = "queued" THEN 1
  ELSE IF place = "placed" THEN 2 ELSE 3

OrderInv ==
  /\ \A p \in Pods : Rank(cache[p]) <= Rank(store[p])
  /\ \A i \in 1 .. Len(feed) :
       /\ Rank(cache[feed[i].pod]) < Rank(feed[i].now)
       /\ Rank(feed[i].now) <= Rank(store[feed[i].pod])
  /\ \A i, j \in 1 .. Len(feed) :
       i < j /\ feed[i].pod = feed[j].pod => Rank(feed[i].now) < Rank(feed[j].now)
  /\ \A p \in inflight : Rank(store[p]) >= 2

\* A Pod moves on in the store, and nowhere else yet.
LEMMA MoveOrdered ==
  ASSUME TypeOK, OrderInv, NEW p \in Pods, NEW place \in Places,
         Rank(store[p]) < Rank(place), Move(p, place), cache' = cache,
         inflight' \subseteq inflight \cup {p}, inflight' = inflight \/ Rank(place) >= 2
  PROVE  OrderInv'
<1> DEFINE e == [pod |-> p, now |-> place]
<1>1. /\ feed \in Seq(Events) /\ e \in Events
      /\ feed' = Append(feed, e)
  BY DEF TypeOK, Move, Events
<1>2. /\ Len(feed) \in Nat /\ Len(feed') = Len(feed) + 1
      /\ \A i \in 1 .. Len(feed) : feed'[i] = feed[i] /\ feed[i] \in Events
      /\ feed'[Len(feed) + 1] = e
  BY <1>1, AppendProperties, ElementOfSeq
<1>3. \A x \in Places : Rank(x) \in 0 .. 3
  BY DEF Rank
<1>4. \A q \in Pods : /\ store'[q] = (IF q = p THEN place ELSE store[q])
                     /\ store[q] \in Places /\ cache[q] \in Places
                     /\ Rank(store[q]) <= Rank(store'[q])
  BY <1>3 DEF TypeOK, Move
<1>5. \A i \in 1 .. Len(feed) : feed[i].pod \in Pods /\ feed[i].now \in Places
  BY <1>2 DEF Events
<1>6. \A q \in Pods : Rank(cache'[q]) <= Rank(store'[q])
  BY <1>3, <1>4 DEF OrderInv
<1>7. \A i \in 1 .. Len(feed') :
        /\ Rank(cache'[feed'[i].pod]) < Rank(feed'[i].now)
        /\ Rank(feed'[i].now) <= Rank(store'[feed'[i].pod])
  <2> SUFFICES ASSUME NEW i \in 1 .. Len(feed')
               PROVE  /\ Rank(cache'[feed'[i].pod]) < Rank(feed'[i].now)
                      /\ Rank(feed'[i].now) <= Rank(store'[feed'[i].pod])
    OBVIOUS
  <2>1. CASE i \in 1 .. Len(feed)
    BY <2>1, <1>2, <1>3, <1>4, <1>5 DEF OrderInv
  <2>2. CASE i = Len(feed) + 1
    <3>1. feed'[i].pod = p /\ feed'[i].now = place
      BY <2>2, <1>2
    <3>2. Rank(cache[p]) <= Rank(store[p]) /\ store'[p] = place
      BY <1>4 DEF OrderInv
    <3> HIDE DEF Rank
    <3> QED
      BY <3>1, <3>2, <1>3, <1>4
  <2> QED
    BY <2>1, <2>2, <1>2
<1>8. \A i, j \in 1 .. Len(feed') :
        i < j /\ feed'[i].pod = feed'[j].pod => Rank(feed'[i].now) < Rank(feed'[j].now)
  <2> SUFFICES ASSUME NEW i \in 1 .. Len(feed'), NEW j \in 1 .. Len(feed'),
                      i < j, feed'[i].pod = feed'[j].pod
               PROVE  Rank(feed'[i].now) < Rank(feed'[j].now)
    OBVIOUS
  <2>1. i \in 1 .. Len(feed) /\ feed'[i] = feed[i]
    BY <1>2
  <2>2. CASE j \in 1 .. Len(feed)
    BY <2>1, <2>2, <1>2 DEF OrderInv
  <2>3. CASE j = Len(feed) + 1
    <3>1. feed[i].pod = p /\ feed'[j].now = place
      BY <2>1, <2>3, <1>2
    <3>2. Rank(feed[i].now) <= Rank(store[p])
      BY <3>1, <2>1 DEF OrderInv
    <3> QED
      BY <3>1, <3>2, <2>1, <1>3, <1>4, <1>5
  <2> QED
    BY <2>2, <2>3, <1>2
<1>9. \A q \in inflight' : Rank(store'[q]) >= 2
  <2>1. inflight \subseteq Pods
    BY DEF TypeOK
  <2> QED
    BY <2>1, <1>3, <1>4 DEF OrderInv
<1> QED
  BY <1>6, <1>7, <1>8, <1>9 DEF OrderInv

\* Everything else but the informer and a restart leaves the order alone.
LEMMA SameOrder ==
  ASSUME OrderInv, UNCHANGED << store, feed, cache >>, inflight' \subseteq inflight
  PROVE  OrderInv'
BY DEF OrderInv

LEMMA SyncOrdered == ASSUME TypeOK, OrderInv, SyncPods PROVE OrderInv'
<1>1. /\ feed \in Seq(Events) /\ feed # << >> /\ feed' = Tail(feed)
      /\ cache' = [cache EXCEPT ![Head(feed).pod] = Head(feed).now]
      /\ store' = store /\ inflight' = inflight
  BY DEF TypeOK, SyncPods, clusterVars, schedulerVars, Events
<1>2. /\ Len(feed) \in Nat /\ Len(feed) >= 1 /\ Head(feed) = feed[1]
      /\ Len(feed') = Len(feed) - 1
      /\ \A i \in 1 .. Len(feed') : feed'[i] = feed[i + 1]
  BY <1>1, HeadTailProperties, LenProperties, EmptySeq
<1>3. \A i \in 1 .. Len(feed) : feed[i].pod \in Pods /\ feed[i].now \in Places
  <2>1. \A i \in 1 .. Len(feed) : feed[i] \in Events
    BY <1>1, ElementOfSeq
  <2> QED
    BY <2>1 DEF Events
<1>4. \A x \in Places : Rank(x) \in 0 .. 3
  BY DEF Rank
<1>5. \A q \in Pods : cache'[q] = IF q = feed[1].pod THEN feed[1].now ELSE cache[q]
  BY <1>1, <1>2 DEF TypeOK
<1>6. \A q \in Pods : Rank(cache'[q]) <= Rank(store'[q])
  BY <1>1, <1>2, <1>3, <1>5 DEF OrderInv
<1>7. \A i \in 1 .. Len(feed') :
        /\ Rank(cache'[feed'[i].pod]) < Rank(feed'[i].now)
        /\ Rank(feed'[i].now) <= Rank(store'[feed'[i].pod])
  <2> SUFFICES ASSUME NEW i \in 1 .. Len(feed')
               PROVE  /\ Rank(cache'[feed'[i].pod]) < Rank(feed'[i].now)
                      /\ Rank(feed'[i].now) <= Rank(store'[feed'[i].pod])
    OBVIOUS
  <2>1. feed'[i] = feed[i + 1] /\ i + 1 \in 1 .. Len(feed) /\ 1 \in 1 .. Len(feed) /\ 1 < i + 1
    BY <1>2
  <2>2. feed[i + 1].pod \in Pods
    BY <2>1, <1>3
  <2>3. CASE feed[i + 1].pod = feed[1].pod
    <3>1. Rank(feed[1].now) < Rank(feed[i + 1].now)
      BY <2>1, <2>3 DEF OrderInv
    <3> QED
      BY <3>1, <2>1, <2>2, <2>3, <1>1, <1>5 DEF OrderInv
  <2>4. CASE feed[i + 1].pod # feed[1].pod
    BY <2>1, <2>2, <2>4, <1>1, <1>5 DEF OrderInv
  <2> QED
    BY <2>3, <2>4
<1>8. \A i, j \in 1 .. Len(feed') :
        i < j /\ feed'[i].pod = feed'[j].pod => Rank(feed'[i].now) < Rank(feed'[j].now)
  <2> SUFFICES ASSUME NEW i \in 1 .. Len(feed'), NEW j \in 1 .. Len(feed'),
                      i < j, feed'[i].pod = feed'[j].pod
               PROVE  Rank(feed'[i].now) < Rank(feed'[j].now)
    OBVIOUS
  <2>1. /\ i + 1 \in 1 .. Len(feed) /\ j + 1 \in 1 .. Len(feed) /\ i + 1 < j + 1
        /\ feed'[i] = feed[i + 1] /\ feed'[j] = feed[j + 1]
    BY <1>2
  <2> QED
    BY <2>1 DEF OrderInv
<1>9. \A q \in inflight' : Rank(store'[q]) >= 2
  BY <1>1 DEF OrderInv
<1> QED
  BY <1>6, <1>7, <1>8, <1>9 DEF OrderInv

LEMMA RestartOrdered == ASSUME TypeOK, Restart PROVE OrderInv'
<1>1. PICK list \in Listings(OnColumns(store) \cup Unbound(store)) :
        feed' = [i \in DOMAIN list |-> [pod |-> list[i], now |-> store[list[i]]]]
  BY DEF Restart
<1>2. PICK n \in Nat : list \in [1 .. n -> OnColumns(store) \cup Unbound(store)]
  BY <1>1 DEF Listings
<1>3. \A i, j \in 1 .. n : list[i] = list[j] => i = j
  BY <1>1, <1>2 DEF Listings
<1>4. feed' = [i \in 1 .. n |-> [pod |-> list[i], now |-> store[list[i]]]]
  BY <1>1, <1>2
<1>5. Len(feed') = n
  BY <1>2, <1>4
<1>6. \A i \in 1 .. n : /\ list[i] \in Pods
                        /\ store[list[i]] \in {"queued", "placed"}
                        /\ feed'[i].pod = list[i] /\ feed'[i].now = store[list[i]]
  BY <1>2, <1>4 DEF OnColumns, Unbound
<1>7. store' = store /\ inflight' = {} /\ \A p \in Pods : cache'[p] = "absent"
  BY DEF Restart
<1>8. \A p \in Pods : Rank(store[p]) \in 0 .. 3 /\ Rank(cache'[p]) = 0
  BY <1>7 DEF Rank, TypeOK
<1>9. Rank("queued") = 1 /\ Rank("placed") = 2
  BY DEF Rank
<1>10. \A i \in 1 .. n : /\ Rank(cache'[feed'[i].pod]) < Rank(feed'[i].now)
                         /\ Rank(feed'[i].now) <= Rank(store'[feed'[i].pod])
  BY <1>6, <1>7, <1>8, <1>9
<1>11. \A i, j \in 1 .. n :
         i < j /\ feed'[i].pod = feed'[j].pod => Rank(feed'[i].now) < Rank(feed'[j].now)
  BY <1>3, <1>6
<1> QED
  BY <1>5, <1>7, <1>8, <1>10, <1>11 DEF OrderInv

LEMMA InitOrdered == Init => OrderInv
<1>1. ASSUME Init PROVE Len(feed) = 0
  BY <1>1, EmptySeq DEF Init
<1> QED
  BY <1>1 DEF Init, OrderInv, Rank

LEMMA NextOrdered == TypeOK /\ OrderInv /\ [Next]_vars => OrderInv'
<1> SUFFICES ASSUME TypeOK, OrderInv, [Next]_vars PROVE OrderInv'
  OBVIOUS
<1> USE DEF clusterVars, schedulerVars, streamVars
<1>1. ASSUME NEW p \in Pods, Create(p) PROVE OrderInv'
  <2>1. Rank(store[p]) < Rank("queued") /\ "queued" \in Places
    BY <1>1 DEF Create, Rank, Places
  <2> QED
    BY <1>1, <2>1, MoveOrdered DEF Create
<1>2. ASSUME NEW p \in Pods, Delete(p) PROVE OrderInv'
  <2>1. Rank(store[p]) < Rank("gone") /\ "gone" \in Places
    BY <1>2 DEF Delete, Rank, Places
  <2> QED
    BY <1>2, <2>1, MoveOrdered DEF Delete
<1>3. ASSUME NEW p \in Pods, BindPod(p) PROVE OrderInv'
  <2>1. /\ Rank(store[p]) < Rank("placed") /\ "placed" \in Places
        /\ Rank("placed") >= 2
    BY <1>3 DEF BindPod, Rank, Places
  <2> QED
    BY <1>3, <2>1, MoveOrdered DEF BindPod
<1>4. CASE SyncPods
  BY <1>4, SyncOrdered
<1>5. CASE Restart
  BY <1>5, RestartOrdered
<1>6. CASE Prune \/ \E p \in Pods : Expire(p)
  BY <1>6, SameOrder DEF Prune, Expire
<1>7. CASE \/ ScoreChanges \/ DropEnds \/ DropFails \/ Notify \/ Resync
           \/ Connect \/ TakePoke \/ Assemble \/ ReceiveFrame \/ Disconnect
           \/ UNCHANGED vars
  BY <1>7, SameOrder DEF ScoreChanges, DropEnds, DropFails, Notify, Resync,
     Connect, TakePoke, Assemble, ReadKbkb, ReadField, ListQueue, SendFrame,
     ReceiveFrame, Disconnect, vars
<1> QED
  BY <1>1, <1>2, <1>3, <1>4, <1>5, <1>6, <1>7 DEF Next

-----------------------------------------------------------------------------
(***************************************************************************)
(* Frames.  What the handler is assembling agrees with the cache it reads  *)
(* as long as nobody is about to poke it, and so does the last frame it    *)
(* has sent.                                                               *)
(***************************************************************************)
Disjoint(f) == f.columns \cap f.queue = {}

UpToDate(f) ==
  /\ f.columns = OnColumns(cache)
  /\ f.queue \subseteq Unbound(cache)
  /\ Unbound(cache) \cap Unbound(store) \subseteq f.queue

LastFrame == IF wire = << >> THEN shown ELSE wire[Len(wire)]

OnceInv ==
  /\ Disjoint(shown)
  /\ \A i \in 1 .. Len(wire) : Disjoint(wire[i])
  /\ pc = "list" => \A p \in draft.columns : Rank(cache[p]) >= 2
  /\ pc = "lock" => Disjoint(draft)

FreshInv ==
  ~token /\ ~unnotified =>
    /\ pc \in {"list", "lock"} => draft.columns = OnColumns(cache)
    /\ pc = "lock" => draft.queue = Unbound(cache)
    /\ pc = "wait" => UpToDate(LastFrame)

LEMMA PlacesRanked ==
  ASSUME NEW pods \in [Pods -> Places]
  PROVE  /\ \A p \in Pods : Rank(pods[p]) \in 0 .. 3
         /\ \A p \in Pods : p \in OnColumns(pods) <=> Rank(pods[p]) = 2
         /\ \A p \in Pods : p \in Unbound(pods) <=> Rank(pods[p]) = 1
<1>1. \A p \in Pods : pods[p] \in {"absent", "queued", "placed", "gone"}
  BY DEF Places
<1> QED
  BY <1>1 DEF Rank, OnColumns, Unbound

LEMMA InitFrames == Init => OnceInv /\ FreshInv
<1>1. ASSUME Init PROVE Len(wire) = 0
  BY <1>1, EmptySeq DEF Init
<1> QED
  BY <1>1 DEF Init, OnceInv, FreshInv, Disjoint, Blank

\* Neither the handler, the wire nor the cache moves.
LEMMA SameOnce ==
  ASSUME OnceInv, UNCHANGED << cache, pc, draft, wire, shown >>
  PROVE  OnceInv'
BY DEF OnceInv, Disjoint

\* The wire and what the browser shows stay as they are, and the handler does not
\* end its frame.
LEMMA SameWire ==
  ASSUME OnceInv, UNCHANGED << wire, shown >>,
         pc' = "list" => \A p \in draft'.columns : Rank(cache'[p]) >= 2,
         pc' = "lock" => Disjoint(draft')
  PROVE  OnceInv'
BY DEF OnceInv, Disjoint

LEMMA NextOnce == TypeOK /\ OrderInv /\ OnceInv /\ [Next]_vars => OnceInv'
<1> SUFFICES ASSUME TypeOK, OrderInv, OnceInv, [Next]_vars PROVE OnceInv'
  OBVIOUS
<1> USE DEF clusterVars, schedulerVars, streamVars
<1>1. CASE \/ \E p \in Pods : Create(p) \/ Delete(p) \/ BindPod(p) \/ Expire(p)
           \/ ScoreChanges \/ DropEnds \/ DropFails \/ Prune \/ Notify \/ Resync
           \/ UNCHANGED vars
  BY <1>1, SameOnce DEF Create, Delete, BindPod, Expire, ScoreChanges, DropEnds,
     DropFails, Prune, Notify, Resync, vars
<1>2. CASE Connect \/ TakePoke \/ ReadKbkb
  BY <1>2, SameWire DEF Connect, TakePoke, ReadKbkb
<1>3. CASE SyncPods
  <2>1. feed \in Seq(Events) /\ feed # << >>
    BY <1>3 DEF SyncPods, TypeOK, Events
  <2>2. Len(feed) \in Nat /\ 1 \in 1 .. Len(feed) /\ Head(feed) = feed[1]
    BY <2>1, HeadTailProperties, LenProperties, EmptySeq
  <2>3. feed[1] \in Events
    BY <2>1, <2>2, ElementOfSeq
  <2>4. feed[1].pod \in Pods /\ feed[1].now \in Places
    BY <2>3 DEF Events
  <2>5. Rank(cache[feed[1].pod]) < Rank(feed[1].now)
    BY <2>2 DEF OrderInv
  <2>6. /\ cache' = [cache EXCEPT ![feed[1].pod] = feed[1].now]
        /\ UNCHANGED << pc, draft, wire, shown >>
    BY <1>3, <2>2 DEF SyncPods
  <2>7. Rank(feed[1].now) \in 0 .. 3 /\ \A p \in Pods : Rank(cache[p]) \in 0 .. 3
    BY <2>4, PlacesRanked DEF TypeOK, Rank
  <2>8. \A p \in Pods : Rank(cache[p]) >= 2 => Rank(cache'[p]) >= 2
    BY <2>4, <2>5, <2>6, <2>7 DEF TypeOK
  <2>9. draft.columns \subseteq Pods
    BY DEF TypeOK, Frame
  <2> QED
    BY <2>6, <2>8, <2>9, SameWire DEF OnceInv
<1>4. CASE ReadField
  <2>1. draft'.columns = OnColumns(cache) /\ pc' = "list"
    BY <1>4 DEF ReadField, TypeOK, Frame
  <2>2. \A p \in draft'.columns : Rank(cache'[p]) >= 2
    BY <1>4, <2>1, PlacesRanked DEF ReadField, OnColumns, TypeOK
  <2> QED
    BY <1>4, <2>1, <2>2, SameWire DEF ReadField
<1>5. CASE ListQueue
  <2>1. draft'.columns = draft.columns /\ draft'.queue = Unbound(cache)
    BY <1>5 DEF ListQueue, TypeOK, Frame
  <2>2. \A p \in draft.columns : Rank(cache[p]) >= 2
    BY <1>5 DEF ListQueue, OnceInv
  <2>3. \A p \in Unbound(cache) : Rank(cache[p]) = 1
    BY PlacesRanked DEF Unbound, TypeOK
  <2>4. Disjoint(draft')
    BY <2>1, <2>2, <2>3 DEF Disjoint
  <2> QED
    BY <1>5, <2>4, SameWire DEF ListQueue
<1>6. CASE SendFrame
  <2> DEFINE f == [draft EXCEPT !.queue = @ \ inflight]
  <2>1. f.columns = draft.columns /\ f.queue = draft.queue \ inflight /\ f \in Frame
    BY DEF TypeOK, Frame
  <2>2. Disjoint(f)
    BY <1>6, <2>1 DEF SendFrame, OnceInv, Disjoint
  <2>3. wire \in Seq(Frame) /\ wire' = Append(wire, f)
    BY <1>6 DEF SendFrame, TypeOK
  <2> HIDE DEF f
  <2>4. /\ Len(wire) \in Nat /\ Len(wire') = Len(wire) + 1
        /\ \A i \in 1 .. Len(wire) : wire'[i] = wire[i]
        /\ wire'[Len(wire) + 1] = f
    BY <2>1, <2>3, AppendProperties, LenProperties
  <2>5. \A i \in 1 .. Len(wire') : i \in 1 .. Len(wire) \/ i = Len(wire) + 1
    BY <2>4
  <2>6. \A i \in 1 .. Len(wire') : Disjoint(wire'[i])
    BY <2>2, <2>4, <2>5 DEF OnceInv
  <2>7. shown' = shown /\ pc' = "wait"
    BY <1>6 DEF SendFrame
  <2> QED
    BY <2>6, <2>7 DEF OnceInv, Disjoint
<1>7. CASE ReceiveFrame
  <2>1. /\ wire \in Seq(Frame) /\ wire # << >>
        /\ shown' = Head(wire) /\ wire' = Tail(wire)
        /\ UNCHANGED << cache, pc, draft >>
    BY <1>7 DEF ReceiveFrame, TypeOK
  <2>2. /\ Len(wire) \in Nat /\ 1 \in 1 .. Len(wire) /\ Head(wire) = wire[1]
        /\ Len(wire') = Len(wire) - 1
        /\ \A i \in 1 .. Len(wire') : wire'[i] = wire[i + 1] /\ i + 1 \in 1 .. Len(wire)
    BY <2>1, HeadTailProperties, LenProperties, EmptySeq
  <2> QED
    BY <2>1, <2>2 DEF OnceInv, Disjoint
<1>8. CASE Disconnect \/ Restart
  <2>1. pc' = "off" /\ wire' = << >> /\ shown' = shown
    BY <1>8 DEF Disconnect, Restart
  <2>2. Len(wire') = 0
    BY <2>1, EmptySeq
  <2> QED
    BY <2>1, <2>2 DEF OnceInv, Disjoint
<1> QED
  BY <1>1, <1>2, <1>3, <1>4, <1>5, <1>6, <1>7, <1>8 DEF Next, Assemble

\* The queue of the cache that is still unbound in the store does not grow by
\* what happens in the store.
LEMMA SameFresh ==
  ASSUME FreshInv, UNCHANGED << cache, pc, draft, wire, shown >>,
         token' = token, unnotified' = unnotified,
         Unbound(cache) \cap Unbound(store') \subseteq Unbound(store)
  PROVE  FreshInv'
<1>1. OnColumns(cache)' = OnColumns(cache) /\ Unbound(cache)' = Unbound(cache)
  BY DEF OnColumns, Unbound
<1>2. LastFrame' = LastFrame
  BY DEF LastFrame
<1>3. Unbound(store)' = Unbound(store')
  BY DEF Unbound
<1>4. UpToDate(LastFrame) => UpToDate(LastFrame)'
  BY <1>1, <1>2, <1>3 DEF UpToDate
<1> QED
  BY <1>1, <1>4 DEF FreshInv

LEMMA NextFresh == TypeOK /\ OrderInv /\ FreshInv /\ [Next]_vars => FreshInv'
<1> SUFFICES ASSUME TypeOK, OrderInv, FreshInv, [Next]_vars PROVE FreshInv'
  OBVIOUS
<1> USE DEF clusterVars, schedulerVars, streamVars
<1>1. ASSUME NEW p \in Pods, Create(p) PROVE FreshInv'
  <2>1. cache \in [Pods -> Places] /\ Rank(cache[p]) <= Rank(store[p]) /\ Rank(store[p]) = 0
    BY <1>1 DEF TypeOK, OrderInv, Create, Rank
  <2>2. p \notin Unbound(cache)
    BY <2>1, PlacesRanked
  <2>3. \A q \in Pods : q # p => store'[q] = store[q]
    BY <1>1 DEF Create, Move, TypeOK
  <2>4. Unbound(cache) \cap Unbound(store') \subseteq Unbound(store)
    BY <2>2, <2>3 DEF Unbound
  <2> QED
    BY <1>1, <2>4, SameFresh DEF Create
<1>2. ASSUME NEW p \in Pods, NEW place \in {"placed", "gone"}, Move(p, place),
             UNCHANGED << cache, pc, draft, wire, shown, token, unnotified >>
      PROVE FreshInv'
  <2>1. \A q \in Pods : store'[q] = (IF q = p THEN place ELSE store[q])
    BY <1>2 DEF Move, TypeOK
  <2>2. Unbound(cache) \cap Unbound(store') \subseteq Unbound(store)
    BY <2>1 DEF Unbound
  <2> QED
    BY <1>2, <2>2, SameFresh
<1>3. CASE \E p \in Pods : Delete(p) \/ BindPod(p)
  BY <1>2, <1>3 DEF Delete, BindPod
<1>4. CASE ScoreChanges \/ DropFails \/ Prune \/ (\E p \in Pods : Expire(p)) \/ UNCHANGED vars
  BY <1>4, SameFresh DEF ScoreChanges, DropFails, Prune, Expire, vars
<1>5. CASE DropEnds \/ Notify \/ Resync
  BY <1>5 DEF DropEnds, Notify, Resync, Broadcast, FreshInv
<1>6. CASE SyncPods \/ Connect \/ TakePoke \/ ReadKbkb \/ Disconnect \/ Restart
  BY <1>6 DEF SyncPods, Connect, TakePoke, ReadKbkb, Disconnect, Restart, FreshInv
<1>7. CASE ReadField
  <2>1. draft'.columns = OnColumns(cache) /\ pc' = "list" /\ cache' = cache
    BY <1>7 DEF ReadField, TypeOK, Frame
  <2> QED
    BY <2>1 DEF FreshInv, OnColumns
<1>8. CASE ListQueue
  <2>1. /\ draft'.columns = draft.columns /\ draft'.queue = Unbound(cache)
        /\ pc = "list" /\ pc' = "lock" /\ cache' = cache
        /\ token' = token /\ unnotified' = unnotified
    BY <1>8 DEF ListQueue, TypeOK, Frame
  <2> QED
    BY <2>1 DEF FreshInv, OnColumns, Unbound
<1>9. CASE SendFrame
  <2> SUFFICES ASSUME ~token, ~unnotified PROVE UpToDate(LastFrame)'
    BY <1>9 DEF SendFrame, FreshInv
  <2> DEFINE f == [draft EXCEPT !.queue = @ \ inflight]
  <2>1. f.columns = OnColumns(cache) /\ f.queue = Unbound(cache) \ inflight
    BY <1>9 DEF SendFrame, FreshInv, TypeOK, Frame
  <2>2. f \in Frame /\ wire \in Seq(Frame) /\ wire' = Append(wire, f)
    BY <1>9 DEF SendFrame, TypeOK, Frame
  <2> HIDE DEF f
  <2>3. wire' # << >> /\ wire'[Len(wire')] = f
    BY <2>2, AppendProperties
  <2>4. \A p \in Unbound(store) : p \notin inflight
    <3>1. \A p \in Unbound(store) : Rank(store[p]) = 1
      BY PlacesRanked DEF Unbound, TypeOK
    <3> QED
      BY <3>1 DEF OrderInv
  <2>5. cache' = cache /\ store' = store
    BY <1>9 DEF SendFrame
  <2> QED
    BY <2>1, <2>3, <2>4, <2>5 DEF UpToDate, LastFrame, OnColumns, Unbound
<1>10. CASE ReceiveFrame
  <2>1. /\ wire \in Seq(Frame) /\ wire # << >>
        /\ shown' = Head(wire) /\ wire' = Tail(wire)
        /\ UNCHANGED << store, cache, pc, draft, token, unnotified >>
    BY <1>10 DEF ReceiveFrame, TypeOK
  <2>2. /\ Len(wire) \in Nat /\ Len(wire) >= 1 /\ Head(wire) = wire[1]
        /\ wire' \in Seq(Frame) /\ Len(wire') = Len(wire) - 1
        /\ \A i \in 1 .. Len(wire') : wire'[i] = wire[i + 1]
    BY <2>1, HeadTailProperties, LenProperties, EmptySeq
  <2>3. wire' = << >> <=> Len(wire') = 0
    BY <2>2, EmptySeq
  <2>4. LastFrame' = LastFrame
    <3>1. CASE Len(wire) = 1
      BY <3>1, <2>1, <2>2, <2>3 DEF LastFrame
    <3>2. CASE Len(wire) # 1
      BY <3>2, <2>1, <2>2, <2>3 DEF LastFrame
    <3> QED
      BY <3>1, <3>2
  <2>5. UpToDate(LastFrame) => UpToDate(LastFrame)'
    BY <2>1, <2>4 DEF UpToDate, OnColumns, Unbound
  <2> QED
    BY <2>1, <2>5 DEF FreshInv, OnColumns, Unbound
<1> QED
  BY <1>1, <1>3, <1>4, <1>5, <1>6, <1>7, <1>8, <1>9, <1>10 DEF Next, Assemble

StreamInv == TypeOK /\ OrderInv /\ OnceInv /\ FreshInv

LEMMA Inductive == Spec => []StreamInv
<1>1. Init => StreamInv
  BY InitTyped, InitOrdered, InitFrames DEF StreamInv
<1>2. StreamInv /\ [Next]_vars => StreamInv'
  BY NextTyped, NextOrdered, NextOnce, NextFresh DEF StreamInv
<1> QED
  BY <1>1, <1>2, PTL DEF Spec

\* A frame that State assembles while Pods are being bound (state.go: the field,
\* then the queue) shows no Pod twice.
THEOREM FramesShowPodsOnce == Spec => []ShownOnce
<1>1. StreamInv => ShownOnce
  <2> SUFFICES ASSUME StreamInv, NEW f \in ToSet(wire) \cup {shown}
               PROVE  f.columns \cap f.queue = {}
    BY DEF ShownOnce
  <2>1. f = shown \/ \E i \in DOMAIN wire : f = wire[i]
    BY DEF ToSet
  <2>2. wire \in Seq(Frame)
    BY DEF StreamInv, TypeOK
  <2>3. DOMAIN wire = 1 .. Len(wire)
    BY <2>2, LenProperties
  <2> QED
    BY <2>1, <2>3 DEF StreamInv, OnceInv, Disjoint
<1> QED
  BY <1>1, Inductive, PTL

\* Pokes that find the channel of a subscriber full are dropped (broadcast in
\* server.go), and the browser misses nothing of the cache by it.
THEOREM PokesSuffice == Spec => []NoPokeIsLost
<1>1. StreamInv => NoPokeIsLost
  BY DEF StreamInv, FreshInv, NoPokeIsLost, Quiet, UpToDate, LastFrame
<1> QED
  BY <1>1, Inductive, PTL
=============================================================================
