--------------------------- MODULE GangScheduler ---------------------------
(***************************************************************************)
(* The scheduler extender's gang gate (internal/scheduler/extender.go)     *)
(* under kube-scheduler, which takes one pending pod at a time, assumes    *)
(* the node it picks in its own cache, and binds the pod later.  The       *)
(* extender sees only what is bound, and reads it with one List for the    *)
(* siblings and one for every candidate node.  Nodes lose and regain their *)
(* devices (DevicePlugin), and the reconciler recreates the pods of a gang *)
(* one by one when a member fails (AcceleratorJob).                        *)
(***************************************************************************)
EXTENDS Placement, DevicePlugin, FiniteSets

CONSTANTS
  Gangs, Size, Request,\* jobs, their gangSize, and accelerators per member
  MaxErrors            \* bound: calls, binds, members and plugins that fail

ASSUME GangAssumption ==
  /\ IsFiniteSet(Nodes) /\ IsFiniteSet(Gangs) /\ "none" \notin Nodes
  /\ Size \in [Gangs -> Nat \ {0}] /\ Request \in [Gangs -> Nat \ {0}]
  /\ MaxErrors \in Nat

VARIABLES
  node,     \* spec.nodeName of each pod, or "none"
  done,     \* the pod is Succeeded or Failed
  old,      \* pods of a failed attempt that are still to be recreated
  assumed,  \* the node kube-scheduler assumed for it and has not bound yet
  cycle,    \* the scheduling cycle: its pod and what the extender has read
  errors    \* failures so far

vars == <<plugin, node, done, old, assumed, cycle, errors>>

Pods == UNION {{g} \X (1 .. Size[g]) : g \in Gangs}
Members(g) == {p \in Pods : p[1] = g}
NoPod == <<"none", 0>>
Idle == [step |-> "idle", pod |-> NoPod, nodes |-> {}, unread |-> {},
         devices |-> [n \in Nodes |-> 0], placed |-> 0, free |-> 0]

Init ==
  /\ node = [p \in Pods |-> "none"] /\ assumed = node
  /\ done = [p \in Pods |-> FALSE] /\ old = {} /\ cycle = Idle /\ errors = 0
  /\ plugin = [n \in Nodes |-> "known"]

\* The sum of f over S, counted one by one.
total(f, S) == Cardinality(UNION {{x} \X (1 .. f[x]) : x \in S})
requests(S) == total([p \in S |-> Request[p[1]]], S)
Placed(p) == node[p] # "none"
Seated(g) == \A p \in Members(g) : Placed(p) /\ p \notin old
Error == errors < MaxErrors /\ errors' = errors + 1

-----------------------------------------------------------------------------
(* kube-scheduler picks a pod and the nodes that have room for it by its   *)
(* own account, assumed pods included.  The extender gets these nodes as   *)
(* they are now.                                                           *)
StartCycle(p) ==
  LET taken(n) == {q \in Pods : ~ done[q] /\ (node[q] = n \/ assumed[q] = n)}
      nodes == {n \in Nodes : requests(taken(n)) + Request[p[1]] <= allocatable(n)}
  IN  /\ cycle = Idle /\ ~ Placed(p) /\ assumed[p] = "none" /\ nodes # {}
      /\ cycle' = [Idle EXCEPT !.step = "filter", !.pod = p, !.nodes = nodes,
                              !.devices = [n \in Nodes |-> allocatable(n)]]
      /\ UNCHANGED <<plugin, node, done, old, assumed, errors>>

\* handleFilter: a pod that is not in a gang passes; otherwise the placed
\* siblings are counted, terminal ones included.
siblingsPlaced ==
  LET g == cycle.pod[1]
  IN  /\ cycle.step = "filter"
      /\ \/ /\ Size[g] <= 1
            /\ cycle' = [cycle EXCEPT !.step = "pick"]
         \/ /\ Size[g] > 1
            /\ cycle' = [cycle EXCEPT
                 !.step = "nodes", !.unread = cycle.nodes,
                 !.placed = Cardinality({q \in Members(g) \ {cycle.pod} : Placed(q)})]
      /\ UNCHANGED <<plugin, node, done, old, assumed, errors>>

allocatedAccelerators(n) == requests({q \in Pods : node[q] = n /\ ~ done[q]})

\* One round of handleFilter's loop.
readNode(n) ==
  LET free == cycle.devices[n] - allocatedAccelerators(n)
  IN  /\ cycle.step = "nodes" /\ n \in cycle.unread
      /\ cycle' = [cycle EXCEPT !.unread = @ \ {n},
                                !.free = @ + (IF free > 0 THEN free ELSE 0)]
      /\ UNCHANGED <<plugin, node, done, old, assumed, errors>>

\* The end of handleFilter: all candidates pass, or none and the cycle ends.
verdict ==
  LET g == cycle.pod[1]
  IN  /\ cycle.step = "nodes" /\ cycle.unread = {}
      /\ cycle' = IF gangFeasible(Size[g], cycle.placed, Request[g], cycle.free)
                  THEN [cycle EXCEPT !.step = "pick"] ELSE Idle
      /\ UNCHANGED <<plugin, node, done, old, assumed, errors>>

\* A call of the extender that fails ends the cycle; the pod stays pending.
ExtenderError ==
  /\ cycle.step \in {"filter", "nodes", "pick"} /\ cycle' = Idle
  /\ Error /\ UNCHANGED <<plugin, node, done, old, assumed>>

\* handlePrioritize's scores are weighed against those of the scheduler's own
\* plugins: any candidate may win.
assume ==
  /\ cycle.step = "pick" /\ cycle' = Idle
  /\ \E n \in cycle.nodes : assumed' = [assumed EXCEPT ![cycle.pod] = n]
  /\ UNCHANGED <<plugin, node, done, old, errors>>

Bind(p) ==
  /\ assumed[p] # "none"
  /\ node' = [node EXCEPT ![p] = assumed[p]]
  /\ assumed' = [assumed EXCEPT ![p] = "none"]
  /\ UNCHANGED <<plugin, done, old, cycle, errors>>
BindFails(p) ==
  /\ assumed[p] # "none" /\ Error
  /\ assumed' = [assumed EXCEPT ![p] = "none"]
  /\ UNCHANGED <<plugin, node, done, old, cycle>>

\* The members of a gang work together: none ends before all are placed.
Finish(p) ==
  /\ Seated(p[1]) /\ ~ done[p]
  /\ done' = [done EXCEPT ![p] = TRUE]
  /\ UNCHANGED <<plugin, node, old, assumed, cycle, errors>>

\* A member fails, and the whole gang is to run again.
MemberFails(p) ==
  /\ Seated(p[1]) /\ ~ done[p] /\ Error
  /\ done' = [done EXCEPT ![p] = TRUE] /\ old' = old \cup Members(p[1])
  /\ UNCHANGED <<plugin, node, assumed, cycle>>

\* Reconcile: startRetry has deleted a pod of the failed attempt and the loop
\* over the gang creates it again, while its siblings may still be there.
recreate(p) ==
  /\ p \in old /\ old' = old \ {p}
  /\ node' = [node EXCEPT ![p] = "none"] /\ done' = [done EXCEPT ![p] = FALSE]
  /\ UNCHANGED <<plugin, assumed, cycle, errors>>

PluginRuns(n) == run(n) /\ UNCHANGED <<node, done, old, assumed, cycle, errors>>
PluginLost(n) ==
  /\ Exit(n) \/ KubeletRestarts(n)
  /\ Error /\ UNCHANGED <<node, done, old, assumed, cycle>>

Extend == siblingsPlaced \/ (\E n \in Nodes : readNode(n)) \/ verdict \/ assume

Next ==
  \/ Extend \/ ExtenderError
  \/ \E p \in Pods : StartCycle(p) \/ Bind(p) \/ BindFails(p) \/ Finish(p)
                     \/ MemberFails(p) \/ recreate(p)
  \/ \E n \in Nodes : PluginRuns(n) \/ PluginLost(n)

Spec == Init /\ [][Next]_vars

\* A job whose pods can be tried again and again is tried (the scheduling queue
\* retries them), a cycle goes on, assumed pods are bound and seated gangs end;
\* the reconciler goes on and a DaemonSet restarts a plugin that exits.
FairSpec ==
  /\ Spec /\ \A g \in Gangs : SF_vars(\E p \in Members(g) : StartCycle(p))
  /\ WF_vars(Extend) /\ WF_vars(\E p \in Pods : Bind(p))
  /\ WF_vars(\E p \in Pods : Finish(p)) /\ WF_vars(\E p \in Pods : recreate(p))
  /\ WF_vars(\E n \in Nodes : PluginRuns(n))

-----------------------------------------------------------------------------
\* Every variable keeps its type.
TypeOK ==
  /\ node \in [Pods -> Nodes \cup {"none"}] /\ assumed \in [Pods -> Nodes \cup {"none"}]
  /\ done \in [Pods -> BOOLEAN] /\ old \subseteq Pods
  /\ plugin \in [Nodes -> {"down", "known", "orphan"}]
  /\ cycle \in [step : {"idle", "filter", "nodes", "pick"}, pod : Pods \cup {NoPod},
               nodes : SUBSET Nodes, unread : SUBSET Nodes, devices : [Nodes -> Nat],
               placed : Nat, free : Nat]
  /\ cycle.unread \subseteq cycle.nodes /\ errors \in 0 .. MaxErrors

Oversized(g) == Size[g] > 1 /\ Size[g] * Request[g] > total(Capacity, Nodes)

\* The gate of handleFilter: no member of a gang that the whole cluster could
\* not seat is ever placed, whatever binds, ends and fails while it reads.
OversizedNeverPlaced ==
  \A g \in Gangs : Oversized(g) => \A p \in Members(g) : ~ Placed(p) /\ assumed[p] = "none"

\* What the comments on GangSize and on Extender say: a gang with a placed
\* member is not left like that, its other members get their nodes too.
AllOrNothing ==
  \A g \in Gangs : (\E p \in Members(g) : Placed(p)) ~> Seated(g)

\* Where unit requests rule out fragmentation and no two gangs compete, every
\* gang that is not oversized keeps all its nodes in the end: handleFilter turns
\* no member away for good, in spite of reads that are out of date, siblings of
\* a failed attempt that count as placed, and plugins that restart.  Only a
\* kubelet that restarts under a running plugin can prevent it.
GangSeated ==
  \A g \in Gangs : ~ Oversized(g) =>
    <>[](Seated(g) \/ \E n \in Nodes : plugin[n] = "orphan")

\* The scores handlePrioritize gives a node as pods are bound to it, end and are
\* recreated: with more accelerators taken BinPack never scores it lower, Spread
\* never higher, unless its devices come or go.
score(strategy, n) == scoreNode(strategy, allocatable(n), allocatedAccelerators(n))
ScoreFollowsStrategy ==
  [][\A n \in Nodes :
       /\ allocatedAccelerators(n) <= allocatedAccelerators(n)'
       /\ allocatable(n) = allocatable(n)'
       => /\ score("BinPack", n) <= score("BinPack", n)'
          /\ score("Spread", n)' <= score("Spread", n)]_vars
=============================================================================
