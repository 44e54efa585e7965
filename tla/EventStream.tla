---------------------------- MODULE EventStream ----------------------------
(***************************************************************************)
(* How the web UI learns the state of the game: the scheduler assembles a  *)
(* frame (State, internal/scheduler/state.go) from the Kbkb, the informer  *)
(* cache and the inflight set, one after the other and without a lock;     *)
(* handleEvents (server.go) sends a frame when a browser connects and then *)
(* one whenever it is poked; the browser (web/app.js) replaces its state   *)
(* with every frame and logs what has changed.                             *)
(*                                                                         *)
(* A subscriber is a channel of capacity 1 that broadcast never waits for, *)
(* so pokes are merged: `token` is whether the channel is full.  One       *)
(* browser is modelled: subscribers do not affect each other.              *)
(*                                                                         *)
(* Of a Pod only its place is kept: queued, placed on a column (running or *)
(* terminating), gone.  Of the Kbkb only that its status changes: `score`. *)
(* Nodes, the mode and the heartbeat are left out.  Drops are those of     *)
(* module Scheduler, one Pod at a time.                                    *)
(***************************************************************************)
EXTENDS Sequences, SequencesExt, FiniteSets, Integers

CONSTANTS
  Pods,
  MaxScore,     \* bound: changes of the status of the Kbkb
  MaxLag,       \* bound: Pod events not yet in the cache
  MaxWire,      \* bound: frames sent and not yet received
  MaxFaults     \* bound: lost connections, failed requests, restarts

ASSUME EventStreamAssumption ==
  MaxScore \in Nat /\ MaxLag \in Nat /\ MaxWire \in Nat /\ MaxFaults \in Nat

VARIABLES
  store, feed, cache,   \* where each Pod is; undelivered events; the cache
  score,                \* status of the Kbkb
  inflight,             \* bound by the scheduler, not yet observed
  unpoked,              \* whether a drop has bound Pods and not poked yet
  unnotified,           \* whether the informer has still to call the handler
  token,                \* the channel of the subscriber
  pc,                   \* what handleEvents does next; "off": no connection
  draft,                \* the frame it assembles
  wire,                 \* frames on their way
  shown,                \* `state` of the browser, prevPods with it
  faults

clusterVars == << store, feed, score >>
schedulerVars == << inflight, unpoked >>
streamVars == << pc, draft, wire, shown >>
vars == << clusterVars, cache, schedulerVars, unnotified, token, streamVars, faults >>

Places == {"absent", "queued", "placed", "gone"}

\* What a frame says before it says anything: no Kbkb, no Pods.
Blank == [score |-> -1, columns |-> {}, queue |-> {}]

Frame == [score : -1 .. MaxScore, columns : SUBSET Pods, queue : SUBSET Pods]

TypeOK ==
  /\ store \in [Pods -> Places] /\ cache \in [Pods -> Places]
  /\ feed \in Seq([pod : Pods, now : Places])
  /\ score \in 0 .. MaxScore
  /\ inflight \subseteq Pods
  /\ unpoked \in BOOLEAN /\ unnotified \in BOOLEAN /\ token \in BOOLEAN
  /\ pc \in {"off", "kbkb", "field", "list", "lock", "wait"}
  /\ pc = "off" => ~token /\ wire = << >>
  /\ draft \in Frame /\ wire \in Seq(Frame) /\ shown \in Frame
  /\ faults \in 0 .. MaxFaults

Init ==
  /\ store = [p \in Pods |-> "absent"] /\ feed = << >> /\ cache = store
  /\ score = 0
  /\ inflight = {}
  /\ unpoked = FALSE /\ unnotified = FALSE /\ token = FALSE
  /\ pc = "off"
  /\ draft = Blank /\ wire = << >> /\ shown = Blank
  /\ faults = 0

-----------------------------------------------------------------------------
OnColumns(pods) == { p \in Pods : pods[p] = "placed" }

Unbound(pods) == { p \in Pods : pods[p] = "queued" }

Fault == faults < MaxFaults /\ faults' = faults + 1

\* Mutant: the channel has no buffer.
BroadcastUnbuffered == token' = (pc = "wait")

\* Mutant: a connection that ends leaves its channel subscribed.
BroadcastToAll == token' = TRUE

\* broadcast: a send to a full channel is dropped, and there is none to send to
\* without a connection.
Broadcast == token' = (pc # "off")

Move(p, place) ==
  /\ Len(feed) < MaxLag
  /\ store' = [store EXCEPT ![p] = place]
  /\ feed' = Append(feed, [pod |-> p, now |-> place])
  /\ UNCHANGED score

-----------------------------------------------------------------------------
(***************************************************************************)
(* The cluster and the scheduler.                                          *)
(***************************************************************************)
Create(p) ==
  /\ store[p] = "absent"
  /\ Move(p, "queued")
  /\ UNCHANGED << cache, schedulerVars, unnotified, token, streamVars, faults >>

\* A Pod is erased or cleaned up.
Delete(p) ==
  /\ store[p] \in {"queued", "placed"}
  /\ Move(p, "gone")
  /\ UNCHANGED << cache, schedulerVars, unnotified, token, streamVars, faults >>

\* A controller writes the status of the Kbkb: nobody is poked.
ScoreChanges ==
  /\ score < MaxScore
  /\ score' = score + 1
  /\ UNCHANGED << store, feed, cache, schedulerVars, unnotified, token,
                  streamVars, faults >>

\* bind() of a drop.
BindPod(p) ==
  /\ store[p] = "queued"
  /\ Move(p, "placed")
  /\ inflight' = inflight \cup {p}
  /\ unpoked' = TRUE
  /\ UNCHANGED << cache, unnotified, token, streamVars, faults >>

\* The drop is through: poke.
DropEnds ==
  /\ unpoked
  /\ unpoked' = FALSE
  /\ Broadcast
  /\ UNCHANGED << clusterVars, cache, inflight, unnotified, streamVars, faults >>

\* A drop that fails after its first Pod does not poke.
DropFails ==
  /\ unpoked
  /\ Fault
  /\ unpoked' = FALSE
  /\ UNCHANGED << clusterVars, cache, inflight, unnotified, token, streamVars >>

\* tick() forgets what the cache shows bound or gone, and pokes nobody.
Prune ==
  /\ inflight # {}
  /\ inflight' = inflight \cap Unbound(cache)
  /\ UNCHANGED << clusterVars, cache, unpoked, unnotified, token, streamVars, faults >>

\* Or what has been in flight for 30 seconds.
Expire(p) ==
  /\ p \in inflight
  /\ Fault
  /\ inflight' = inflight \ {p}
  /\ UNCHANGED << clusterVars, cache, unpoked, unnotified, token, streamVars >>

\* The informer applies an event.
SyncPods ==
  /\ feed # << >>
  /\ cache' = [cache EXCEPT ![Head(feed).pod] = Head(feed).now]
  /\ feed' = Tail(feed)
  /\ unnotified' = TRUE
  /\ UNCHANGED << store, score, schedulerVars, token, streamVars, faults >>

\* Its handler runs later, on a goroutine of its own.
Notify ==
  /\ unnotified
  /\ unnotified' = FALSE
  /\ Broadcast
  /\ UNCHANGED << clusterVars, cache, schedulerVars, streamVars, faults >>

\* Mutant: informers without a resync period.
ResyncNever == UNCHANGED vars

\* Every 30 seconds it hands each object to the handler again.
Resync ==
  /\ Broadcast
  /\ UNCHANGED << clusterVars, cache, schedulerVars, unnotified, streamVars, faults >>

-----------------------------------------------------------------------------
(***************************************************************************)
(* handleEvents, State and the browser.                                    *)
(***************************************************************************)
\* A browser connects: the handler subscribes and begins its first frame.
Connect ==
  /\ pc = "off"
  /\ pc' = "kbkb"
  /\ token' = FALSE
  /\ UNCHANGED << clusterVars, cache, schedulerVars, unnotified, draft, wire,
                  shown, faults >>

\* The handler takes a poke and begins a frame.
TakePoke ==
  /\ pc = "wait" /\ token
  /\ pc' = "kbkb"
  /\ token' = FALSE
  /\ UNCHANGED << clusterVars, cache, schedulerVars, unnotified, draft, wire,
                  shown, faults >>

\* kbkb(): read from the API server; State does without it when that fails.
ReadKbkb ==
  /\ pc = "kbkb"
  /\ \/ draft' = [Blank EXCEPT !.score = score] /\ UNCHANGED faults
     \/ draft' = Blank /\ Fault
  /\ pc' = "field"
  /\ UNCHANGED << clusterVars, cache, schedulerVars, unnotified, token, wire, shown >>

\* buildFieldFor()
ReadField ==
  /\ pc = "field"
  /\ draft' = [draft EXCEPT !.columns = OnColumns(cache)]
  /\ pc' = "list"
  /\ UNCHANGED << clusterVars, cache, schedulerVars, unnotified, token, wire,
                  shown, faults >>

\* pending() lists the cache ...
ListQueue ==
  /\ pc = "list"
  /\ draft' = [draft EXCEPT !.queue = Unbound(cache)]
  /\ pc' = "lock"
  /\ UNCHANGED << clusterVars, cache, schedulerVars, unnotified, token, wire,
                  shown, faults >>

\* Mutant: the field is built after the queue.
SendFrameFieldLast ==
  /\ pc = "lock"
  /\ Len(wire) < MaxWire
  /\ wire' = Append(wire, [draft EXCEPT !.queue = @ \ inflight,
                                       !.columns = OnColumns(cache)])
  /\ draft' = Blank
  /\ pc' = "wait"
  /\ UNCHANGED << clusterVars, cache, schedulerVars, unnotified, token, shown, faults >>

\* ... and leaves out what is in flight.  The frame is sent.
SendFrame ==
  /\ pc = "lock"
  /\ Len(wire) < MaxWire
  /\ wire' = Append(wire, [draft EXCEPT !.queue = @ \ inflight])
  /\ draft' = Blank
  /\ pc' = "wait"
  /\ UNCHANGED << clusterVars, cache, schedulerVars, unnotified, token, shown, faults >>

\* es.onmessage
ReceiveFrame ==
  /\ wire # << >>
  /\ shown' = Head(wire)
  /\ wire' = Tail(wire)
  /\ UNCHANGED << clusterVars, cache, schedulerVars, unnotified, token, pc, draft,
                  faults >>

\* The connection is lost; es.onerror closes it and connects again 2 s later.
\* The browser keeps what it shows.
Disconnect ==
  /\ pc # "off"
  /\ Fault
  /\ pc' = "off"
  /\ token' = FALSE
  /\ draft' = Blank /\ wire' = << >>
  /\ UNCHANGED << clusterVars, cache, schedulerVars, unnotified, shown >>

\* Sequences of all the members of S, each once.
Listings(S) ==
  { s \in UNION { [1 .. n -> S] : n \in 0 .. Cardinality(Pods) } :
      /\ \A x \in S : \E i \in DOMAIN s : s[i] = x
      /\ \A i, j \in DOMAIN s : s[i] = s[j] => i = j }

\* The scheduler is started again.  Its server answers while the cache is still
\* being filled from a list of the Pods.
Restart ==
  /\ Fault
  /\ cache' = [p \in Pods |-> "absent"]
  /\ \E list \in Listings(OnColumns(store) \cup Unbound(store)) :
       feed' = [i \in DOMAIN list |-> [pod |-> list[i], now |-> store[list[i]]]]
  /\ inflight' = {}
  /\ unpoked' = FALSE /\ unnotified' = FALSE /\ token' = FALSE
  /\ pc' = "off"
  /\ draft' = Blank /\ wire' = << >>
  /\ UNCHANGED << store, score, shown >>

-----------------------------------------------------------------------------
Assemble == ReadKbkb \/ ReadField \/ ListQueue \/ SendFrame

Next ==
  \/ \E p \in Pods : Create(p) \/ Delete(p) \/ BindPod(p) \/ Expire(p)
  \/ ScoreChanges
  \/ DropEnds \/ DropFails \/ Prune
  \/ SyncPods \/ Notify \/ Resync
  \/ Connect \/ TakePoke \/ Assemble \/ ReceiveFrame
  \/ Disconnect \/ Restart

Spec == Init /\ [][Next]_vars

\* The informer delivers and resyncs, the handler and the browser go on, and the
\* browser connects again.
Fairness ==
  /\ WF_vars(SyncPods) /\ WF_vars(Notify) /\ WF_vars(Resync)
  /\ WF_vars(Connect) /\ WF_vars(TakePoke) /\ WF_vars(Assemble)
  /\ WF_vars(ReceiveFrame)

FairSpec == Spec /\ Fairness

-----------------------------------------------------------------------------
\* A Pod is bound while a frame is assembled, and still no frame shows it both
\* on a column and in the queue: State reads the field first.
ShownOnce ==
  \A f \in ToSet(wire) \cup {shown} : f.columns \cap f.queue = {}

\* Nothing that has to reach a connected browser is left to be sent: it waits,
\* and nobody is about to poke it.
Quiet == pc = "wait" /\ ~token /\ ~unnotified /\ wire = << >>

\* No poke is lost: merged as they are, and with a frame read bit by bit while
\* the cache moves on, a browser that nobody is about to poke shows the Pods of
\* the cache, but for queued ones that have been bound in the meantime (the drop
\* may have failed then, without a poke).
NoPokeIsLost ==
  Quiet => /\ shown.columns = OnColumns(cache)
           /\ shown.queue \subseteq Unbound(cache)
           /\ Unbound(cache) \cap Unbound(store) \subseteq shown.queue

\* The browser ends with what is: Pods and score.  The score is not watched, and
\* it takes the resync to bring its last change.
BrowserCatchesUp ==
  <>[](shown = [score |-> score, columns |-> OnColumns(store),
                queue |-> Unbound(store)])

\* "The Pod Events panel shows each Running -> Terminating -> deleted transition
\* as it happens": a Pod is logged as deleted (logTransitions: it was in the last
\* frame and is not in this one) only when it is gone.
DeletedIsGone ==
  [][\A p \in Pods :
       p \in (shown.columns \cup shown.queue) \ (shown'.columns \cup shown'.queue)
         => store[p] = "gone"]_vars
=============================================================================
