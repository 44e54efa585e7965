------------------------------- MODULE Field -------------------------------
(***************************************************************************)
(* The playing field, pkg/field.  Nodes are columns, the Pods bound to a   *)
(* node stack up in it, and every group of `threshold` or more adjacent    *)
(* Pods of one colour is erasable.                                         *)
(*                                                                         *)
(* Pods are given as a function from names to records, nodes likewise:     *)
(*   pods[p]  = [node, order, created, color, phase, ready, deleting, ...] *)
(*   nodes[n] = [created, labels]                                          *)
(* Names, creation times and drop-order stamps are integers, so that Go's  *)
(* string and int64 orders are both <.  A field is the function that maps  *)
(* each Pod on it to its cell <<x, y>>: f.Columns[x].Pods[y] of the code.  *)
(***************************************************************************)
EXTENDS Integers, FiniteSets

CONSTANTS
  ColorWhite,           \* the neutral colour: never erased, never grouped
  ControlPlaneLabel, LegacyControlPlaneLabel

\* pods[p].node = NoNode: spec.nodeName is empty.
NoNode == 0

\* pods[p].order = NoStamp: no drop-order annotation that ParseInt accepts.
NoStamp == -1

-----------------------------------------------------------------------------
(***************************************************************************)
(* Columns and stacks.                                                     *)
(***************************************************************************)
StackOrder(pod) == IF pod.order # NoStamp THEN pod.order ELSE pod.created

Below(pods, p, q) ==
  \/ StackOrder(pods[p]) < StackOrder(pods[q])
  \/ StackOrder(pods[p]) = StackOrder(pods[q]) /\ p < q

\* A label a node does not carry reads as "", as a Go map does.
Label(node, k) == IF k \in DOMAIN node.labels THEN node.labels[k] ELSE ""

SelectNodes(nodes, selector, excludeControlPlane) ==
  { n \in DOMAIN nodes :
      /\ excludeControlPlane =>
           {ControlPlaneLabel, LegacyControlPlaneLabel}
             \cap DOMAIN nodes[n].labels = {}
      /\ \A k \in DOMAIN selector : Label(nodes[n], k) = selector[k] }

LeftOf(nodes, m, n) ==
  \/ nodes[m].created < nodes[n].created
  \/ nodes[m].created = nodes[n].created /\ m < n

\* The field of the columns `cols`, a set of nodes.  Pods bound to any other
\* node, or to none, are not on it.
New(pods, nodes, cols) ==
  [ p \in { q \in DOMAIN pods : pods[q].node \in cols } |->
      << Cardinality({ m \in cols : LeftOf(nodes, m, pods[p].node) }),
         Cardinality({ q \in DOMAIN pods :
                         pods[q].node = pods[p].node /\ Below(pods, q, p) }) >> ]

Height(at, x) == Cardinality({ p \in DOMAIN at : at[p][1] = x })

\* f.MaxHeight() >= h, for h > 0.
ReachesHeight(at, h) == \E p \in DOMAIN at : Height(at, at[p][1]) >= h

PodStable(pod) == ~pod.deleting /\ pod.phase = "Running" /\ pod.ready

Stable(pods, at) == \A p \in DOMAIN at : PodStable(pods[p])

-----------------------------------------------------------------------------
(***************************************************************************)
(* Groups.  group() walks from a cell to its equally coloured neighbours;  *)
(* what it must return is the smallest set that holds the cell and every   *)
(* neighbour of its members.  (EraseScan models the walk itself.)          *)
(***************************************************************************)
Adjacent(a, b) ==
  \/ a[1] = b[1] /\ (a[2] = b[2] + 1 \/ b[2] = a[2] + 1)
  \/ a[2] = b[2] /\ (a[1] = b[1] + 1 \/ b[1] = a[1] + 1)

Linked(at, color, p, q) ==
  /\ color[p] # ColorWhite
  /\ color[p] = color[q]
  /\ Adjacent(at[p], at[q])

Closed(at, color, S) ==
  \A p \in S : \A q \in DOMAIN at : Linked(at, color, p, q) => q \in S

Group(at, color, p) ==
  LET holders == { S \in SUBSET DOMAIN at : p \in S /\ Closed(at, color, S) }
  IN  { q \in DOMAIN at : color[p] # ColorWhite /\ \A S \in holders : q \in S }

Erasable(at, color, threshold) ==
  { p \in DOMAIN at : /\ color[p] # ColorWhite
                      /\ Cardinality(Group(at, color, p)) >= threshold }

\* AnnotationColor of every Pod on the field.
ColorsOf(pods, at) == [ p \in DOMAIN at |-> pods[p].color ]
=============================================================================
