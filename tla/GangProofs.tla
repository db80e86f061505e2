----------------------------- MODULE GangProofs -----------------------------
(***************************************************************************)
(* The scheduler extender for any nodes, gangs, sizes and requests: the    *)
(* scores follow the strategy, and the gate of handleFilter keeps out a    *)
(* gang that the cluster could not seat.                                   *)
(***************************************************************************)
EXTENDS GangScheduler, FiniteSetTheorems, TLAPS

-----------------------------------------------------------------------------
(* score.go.                                                               *)

\* What integer division gives: the largest multiple that fits.
LEMMA DivBounds ==
  ASSUME NEW c \in Int, c > 0, NEW x \in Int
  PROVE  /\ x \div c \in Int
         /\ (x \div c) * c <= x /\ x < (x \div c) * c + c
  BY SMT

\* Multiples of a capacity are ordered as their factors.
LEMMA TimesReflectsOrder ==
  ASSUME NEW c \in Int, c > 0, NEW m \in Int, NEW n \in Int, m * c < n * c + c
  PROVE  m <= n
  BY SMT

\* Division by a node's capacity keeps the order of what is divided.
LEMMA DivMonotonic ==
  ASSUME NEW c \in Int, c > 0, NEW x \in Int, NEW y \in Int, x <= y
  PROVE  x \div c <= y \div c
<1> DEFINE m == x \div c
           n == y \div c
<1>1. m \in Int /\ n \in Int /\ m * c <= x /\ y < n * c + c
  BY DivBounds
<1> HIDE DEF m, n
<1>2. m * c < n * c + c
  BY <1>1, SMT
<1>3. m <= n
  BY <1>1, <1>2, TimesReflectsOrder
<1> QED
  BY <1>3 DEF m, n

\* The share of a node in tenths, after scoreNode's clamp.
held(c, x) == IF x > c THEN c ELSE x
ratio(c, x) == (held(c, x) * 10) \div c

\* The clamp keeps the share between none and all of the node.
LEMMA RatioInRange ==
  ASSUME NEW c \in Int, c > 0, NEW x \in Nat
  PROVE  ratio(c, x) \in 0 .. 10
<1>1. held(c, x) \in Int /\ 0 <= held(c, x) * 10 /\ held(c, x) * 10 <= c * 10
  BY DEF held
<1>2. 0 \div c = 0 /\ (c * 10) \div c = 10
  BY SMT
<1>3. 0 \div c <= ratio(c, x) /\ ratio(c, x) <= (c * 10) \div c
  BY <1>1, DivMonotonic DEF ratio
<1>4. ratio(c, x) \in Int
  BY <1>1, DivBounds DEF ratio
<1> QED
  BY <1>2, <1>3, <1>4

\* With more allocated the share does not shrink.
LEMMA RatioMonotonic ==
  ASSUME NEW c \in Int, c > 0, NEW x \in Nat, NEW y \in Nat, x <= y
  PROVE  ratio(c, x) <= ratio(c, y)
<1>1. /\ held(c, x) * 10 \in Int /\ held(c, y) * 10 \in Int
      /\ held(c, x) * 10 <= held(c, y) * 10
  BY DEF held
<1> QED
  BY <1>1, DivMonotonic DEF ratio

\* scoreNode in terms of the share.
LEMMA ScoreIsRatio ==
  ASSUME NEW s, NEW c \in Int, NEW x \in Nat
  PROVE  scoreNode(s, c, x) = IF c <= 0 THEN 0
                              ELSE IF s = "Spread" THEN 10 - ratio(c, x) ELSE ratio(c, x)
  BY DEF scoreNode, ratio, held

-----------------------------------------------------------------------------
\* scoreNode's comment: the score is in [0,10], also on a node without
\* accelerators and on one whose pods hold more than it has left.
THEOREM ScoreIsInRange ==
  ASSUME NEW s, NEW c \in Int, NEW x \in Nat
  PROVE  scoreNode(s, c, x) \in 0 .. 10
<1>1. c > 0 => ratio(c, x) \in 0 .. 10
  BY RatioInRange
<1> QED
  BY <1>1, ScoreIsRatio

\* scoreNode's comment: BinPack favours the fuller of two equal nodes and
\* Spread the emptier one; neither ever scores them the other way round.
THEOREM StrategyIsFollowed ==
  ASSUME NEW c \in Int, NEW x \in Nat, NEW y \in Nat, x <= y
  PROVE  /\ scoreNode("BinPack", c, x) <= scoreNode("BinPack", c, y)
         /\ scoreNode("Spread", c, y) <= scoreNode("Spread", c, x)
<1>1. c > 0 => /\ ratio(c, x) <= ratio(c, y)
               /\ ratio(c, x) \in 0 .. 10 /\ ratio(c, y) \in 0 .. 10
  BY RatioMonotonic, RatioInRange
<1>2. "BinPack" # "Spread"
  OBVIOUS
<1> QED
  BY <1>1, <1>2, ScoreIsRatio

-----------------------------------------------------------------------------
(* Sums.                                                                   *)

\* n units, and those of one x.
LEMMA Units ==
  ASSUME NEW x, NEW n \in Nat
  PROVE  IsFiniteSet({x} \X (1 .. n)) /\ Cardinality({x} \X (1 .. n)) = n
<1>1. IsFiniteSet(1 .. n) /\ Cardinality(1 .. n) = n
  BY FS_Interval
<1>2. IsFiniteSet({x}) /\ Cardinality({x}) = 1
  BY FS_Singleton, Zenon
<1>3. /\ IsFiniteSet({x} \X (1 .. n))
      /\ Cardinality({x} \X (1 .. n)) = Cardinality({x}) * Cardinality(1 .. n)
  BY <1>1, <1>2, FS_Product, Zenon
<1>4. Cardinality({x} \X (1 .. n)) = 1 * n
  BY <1>1, <1>2, <1>3, Zenon
<1> QED
  BY <1>3, <1>4

\* A sum over a finite set is a number.
LEMMA TotalType ==
  ASSUME NEW S, IsFiniteSet(S), NEW f, \A x \in S : f[x] \in Nat
  PROVE  /\ IsFiniteSet(UNION {{x} \X (1 .. f[x]) : x \in S})
         /\ total(f, S) \in Nat
<1> DEFINE units(x) == {x} \X (1 .. f[x])
           all == {units(x) : x \in S}
           g == [x \in S |-> units(x)]
<1>1. g \in Surjection(S, all)
  BY Zenon DEF Surjection
<1>2. IsFiniteSet(all)
  BY <1>1, FS_Surjection, Zenon
<1>3. ASSUME NEW x \in S PROVE IsFiniteSet(units(x))
  BY Units, Zenon
<1> HIDE DEF units
<1>4. IsFiniteSet(UNION all)
  BY <1>2, <1>3, FS_UNION, Zenon
<1>5. Cardinality(UNION all) \in Nat
  BY <1>4, FS_CardinalityType
<1> QED
  BY <1>4, <1>5 DEF total, units

\* A sum over fewer is no larger.
LEMMA TotalMonotone ==
  ASSUME NEW T, IsFiniteSet(T), NEW f, \A x \in T : f[x] \in Nat, NEW S \in SUBSET T
  PROVE  total(f, S) <= total(f, T)
<1> DEFINE U(X) == UNION {{x} \X (1 .. f[x]) : x \in X}
<1>1. U(S) \subseteq U(T)
  OBVIOUS
<1>2. IsFiniteSet(U(T))
  BY TotalType
<1> HIDE DEF U
<1>3. Cardinality(U(S)) <= Cardinality(U(T))
  BY <1>1, <1>2, FS_Subset
<1> QED
  BY <1>3 DEF U, total

\* One more term.
LEMMA TotalOneMore ==
  ASSUME NEW S, IsFiniteSet(S), NEW f, \A x \in S : f[x] \in Nat,
         NEW y, y \notin S, f[y] \in Nat
  PROVE  total(f, S \cup {y}) = total(f, S) + f[y]
<1> DEFINE U(X) == UNION {{x} \X (1 .. f[x]) : x \in X}
           own == {y} \X (1 .. f[y])
<1>1. U(S \cup {y}) = U(S) \cup own /\ U(S) \cap own = {}
  OBVIOUS
<1>2. IsFiniteSet(U(S)) /\ Cardinality(U(S)) \in Nat
  BY TotalType DEF total
<1>3. IsFiniteSet(own) /\ Cardinality(own) = f[y]
  BY Units, Zenon
<1>4. Cardinality({}) = 0
  BY FS_EmptySet
<1> HIDE DEF U, own
<1>5. Cardinality(U(S) \cup own)
        = Cardinality(U(S)) + Cardinality(own) - Cardinality(U(S) \cap own)
  BY <1>2, <1>3, FS_Union, Zenon
<1>6. Cardinality(U(S \cup {y})) = Cardinality(U(S)) + f[y] - 0
  BY <1>1, <1>3, <1>4, <1>5, Zenon
<1>7. Cardinality(U(S \cup {y})) = Cardinality(U(S)) + f[y]
  BY <1>2, <1>6
<1> QED
  BY <1>7 DEF U, total

\* What the pods of a node ask for, and what a node offers, are numbers.
LEMMA PodsFinite ==
  /\ IsFiniteSet(Pods)
  /\ \A p \in Pods : p[1] \in Gangs /\ Request[p[1]] \in Nat
<1>1. \A g \in Gangs : Size[g] \in Nat
  BY GangAssumption
<1>2. IsFiniteSet(UNION {{g} \X (1 .. Size[g]) : g \in Gangs})
  BY <1>1, GangAssumption, TotalType
<1> QED
  BY <1>2, GangAssumption DEF Pods
LEMMA RequestsType ==
  ASSUME NEW S \in SUBSET Pods
  PROVE  requests(S) \in Nat
<1> DEFINE f == [p \in S |-> Request[p[1]]]
<1>1. IsFiniteSet(S) /\ \A p \in S : f[p] \in Nat
  BY PodsFinite, FS_Subset
<1>2. total(f, S) \in Nat
  BY <1>1, TotalType, Zenon
<1> QED
  BY <1>2 DEF requests
LEMMA AllocationTypes ==
  ASSUME NEW n \in Nodes
  PROVE  /\ allocatable(n) \in Nat /\ allocatable(n) <= Capacity[n]
         /\ allocatedAccelerators(n) \in Nat /\ Capacity[n] \in Nat
<1>1. allocatedAccelerators(n) \in Nat
  BY RequestsType DEF allocatedAccelerators
<1> QED
  BY <1>1, DeviceAssumption DEF allocatable
LEMMA CapacityTotals ==
  ASSUME NEW S \in SUBSET Nodes
  PROVE  /\ IsFiniteSet(S) /\ total(Capacity, S) \in Nat
         /\ total(Capacity, S) <= total(Capacity, Nodes)
         /\ \A n \in Nodes \ S : total(Capacity, S \cup {n}) = total(Capacity, S) + Capacity[n]
<1>1. IsFiniteSet(Nodes) /\ IsFiniteSet(S) /\ \A n \in Nodes : Capacity[n] \in Nat
  BY GangAssumption, DeviceAssumption, FS_Subset
<1>2. total(Capacity, S) \in Nat
  BY <1>1, TotalType, Zenon
<1>3. total(Capacity, S) <= total(Capacity, Nodes)
  BY <1>1, TotalMonotone
<1>4. \A n \in Nodes \ S : total(Capacity, S \cup {n}) = total(Capacity, S) + Capacity[n]
  BY <1>1, TotalOneMore
<1> QED
  BY <1>1, <1>2, <1>3, <1>4

-----------------------------------------------------------------------------
(* The inductive invariant of the gate.  What handleFilter has added up is *)
(* no more than the nodes it has read could ever offer, and a gang the     *)
(* cluster cannot seat has no placed member to be excused.                 *)

CountedIn(c) ==
  LET g == c.pod[1]
  IN  /\ \A n \in Nodes : c.devices[n] <= Capacity[n]
      /\ c.step # "idle" => c.pod \in Pods
      /\ c.step = "filter" => c.free = 0
      /\ c.step = "nodes" => /\ c.free <= total(Capacity, c.nodes \ c.unread)
                             /\ Oversized(g) => c.placed = 0
      /\ c.step = "pick" => ~ Oversized(g)

IInv == TypeOK /\ CountedIn(cycle) /\ OversizedNeverPlaced

\* The cycle's record.
Cycles == [step : {"idle", "filter", "nodes", "pick"}, pod : Pods \cup {NoPod},
           nodes : SUBSET Nodes, unread : SUBSET Nodes, devices : [Nodes -> Nat],
           placed : Nat, free : Nat]

\* An idle cycle is as good as any.
LEMMA IdleOK ==
  /\ Idle \in Cycles /\ Idle.unread \subseteq Idle.nodes /\ Idle.step = "idle"
  /\ \A n \in Nodes : Idle.devices[n] <= Capacity[n]
<1>1. Idle \in Cycles /\ Idle.unread \subseteq Idle.nodes /\ Idle.step = "idle"
  BY DEF Idle, Cycles
<1>2. \A n \in Nodes : Idle.devices[n] = 0 /\ Capacity[n] \in Nat
  BY AllocationTypes DEF Idle
<1> QED
  BY <1>1, <1>2
LEMMA CycleIdles ==
  ASSUME IInv, cycle' = Idle
  PROVE  CountedIn(cycle') /\ cycle' \in Cycles /\ cycle'.unread \subseteq cycle'.nodes
  BY IdleOK DEF CountedIn

\* kube-scheduler starts a cycle: the devices are those of now.
LEMMA StartKeeps ==
  ASSUME IInv, NEW p \in Pods, StartCycle(p)
  PROVE  CountedIn(cycle') /\ cycle' \in Cycles /\ cycle'.unread \subseteq cycle'.nodes
<1>1. PICK N \in SUBSET Nodes :
        cycle' = [Idle EXCEPT !.step = "filter", !.pod = p, !.nodes = N,
                              !.devices = [n \in Nodes |-> allocatable(n)]]
  BY Zenon DEF StartCycle
<1>2. [n \in Nodes |-> allocatable(n)] \in [Nodes -> Nat]
  BY AllocationTypes
<1>3. /\ cycle'.step = "filter" /\ cycle'.pod = p /\ cycle'.unread = {}
      /\ cycle'.devices = [n \in Nodes |-> allocatable(n)] /\ cycle' \in Cycles
      /\ cycle'.free = 0
  BY <1>1, <1>2, Zenon DEF Idle, Cycles
<1>4. \A n \in Nodes : cycle'.devices[n] <= Capacity[n]
  BY <1>3, AllocationTypes
<1> QED
  BY <1>3, <1>4 DEF CountedIn

\* handleFilter counts the placed siblings: an oversized gang has none.
LEMMA SiblingsKeep ==
  ASSUME IInv, siblingsPlaced
  PROVE  CountedIn(cycle') /\ cycle' \in Cycles /\ cycle'.unread \subseteq cycle'.nodes
<1> DEFINE g == cycle.pod[1]
           placed == Cardinality({q \in Members(g) \ {cycle.pod} : Placed(q)})
<1>0. cycle \in Cycles /\ cycle.step = "filter" /\ cycle.pod \in Pods /\ g \in Gangs
      /\ cycle.unread \subseteq cycle.nodes
  BY PodsFinite DEF IInv, TypeOK, CountedIn, Cycles, siblingsPlaced
<1>1. CASE Size[g] <= 1
  <2>1. cycle' = [cycle EXCEPT !.step = "pick"]
    BY <1>0, <1>1, GangAssumption DEF siblingsPlaced
  <2>2. /\ cycle'.step = "pick" /\ cycle'.pod = cycle.pod /\ cycle' \in Cycles
        /\ cycle'.devices = cycle.devices /\ cycle'.unread \subseteq cycle'.nodes
    BY <1>0, <2>1 DEF Cycles
  <2>3. ~ Oversized(g)
    BY <1>0, <1>1, GangAssumption DEF Oversized
  <2> QED
    BY <1>0, <2>2, <2>3 DEF CountedIn, IInv
<1>2. CASE ~ (Size[g] <= 1)
  <2>1. cycle' = [cycle EXCEPT !.step = "nodes", !.unread = cycle.nodes, !.placed = placed]
    BY <1>2 DEF siblingsPlaced
  <2>2. placed \in Nat
    <3>1. IsFiniteSet({q \in Members(g) \ {cycle.pod} : Placed(q)})
      BY PodsFinite, FS_Subset DEF Members
    <3> QED
      BY <3>1, FS_CardinalityType
  <2>3. Oversized(g) => placed = 0
    <3>1. Oversized(g) => {q \in Members(g) \ {cycle.pod} : Placed(q)} = {}
      BY <1>0 DEF IInv, OversizedNeverPlaced
    <3> QED
      BY <3>1, FS_EmptySet
  <2> HIDE DEF placed
  <2>4. /\ cycle'.step = "nodes" /\ cycle'.pod = cycle.pod /\ cycle' \in Cycles
        /\ cycle'.devices = cycle.devices /\ cycle'.nodes = cycle.nodes
        /\ cycle'.unread = cycle.nodes /\ cycle'.placed = placed /\ cycle'.free = cycle.free
    BY <1>0, <2>1, <2>2, Zenon DEF Cycles
  <2>5. cycle'.free <= total(Capacity, cycle'.nodes \ cycle'.unread)
    BY <1>0, <2>4, CapacityTotals DEF CountedIn, IInv, Cycles
  <2> QED
    BY <1>0, <2>3, <2>4, <2>5 DEF CountedIn, IInv
<1> QED
  BY <1>1, <1>2

\* One round of handleFilter's loop adds at most the node's capacity.
LEMMA ReadKeeps ==
  ASSUME IInv, NEW n \in Nodes, readNode(n)
  PROVE  CountedIn(cycle') /\ cycle' \in Cycles /\ cycle'.unread \subseteq cycle'.nodes
<1> DEFINE d == cycle.devices[n] - allocatedAccelerators(n)
           more == IF d > 0 THEN d ELSE 0
           seen == cycle.nodes \ cycle.unread
<1>0. /\ cycle \in Cycles /\ cycle.step = "nodes" /\ n \in cycle.unread /\ CountedIn(cycle)
      /\ cycle.unread \subseteq cycle.nodes /\ cycle.nodes \subseteq Nodes /\ cycle.free \in Nat
      /\ cycle.devices[n] \in Nat
  BY DEF IInv, TypeOK, Cycles, readNode
<1>1. cycle' = [cycle EXCEPT !.unread = @ \ {n}, !.free = @ + more]
  BY DEF readNode
<1>2. more \in Nat /\ more <= Capacity[n] /\ Capacity[n] \in Nat
  <2>1. allocatedAccelerators(n) \in Nat /\ Capacity[n] \in Nat /\ cycle.devices[n] <= Capacity[n]
    BY <1>0, AllocationTypes DEF CountedIn
  <2> QED
    BY <1>0, <2>1
<1> HIDE DEF more
<1>3. cycle.free + more \in Nat
  BY <1>0, <1>2
<1>4. /\ cycle' \in Cycles /\ cycle'.step = "nodes" /\ cycle'.pod = cycle.pod
      /\ cycle'.nodes = cycle.nodes /\ cycle'.unread = cycle.unread \ {n}
      /\ cycle'.devices = cycle.devices /\ cycle'.placed = cycle.placed
      /\ cycle'.free = cycle.free + more
  BY <1>0, <1>1, <1>3, Zenon DEF Cycles
<1>5. cycle'.nodes \ cycle'.unread = seen \cup {n} /\ n \notin seen /\ seen \in SUBSET Nodes
  BY <1>0, <1>4
<1>6. /\ total(Capacity, seen) \in Nat
      /\ total(Capacity, seen \cup {n}) = total(Capacity, seen) + Capacity[n]
  BY <1>5, CapacityTotals
<1>7. cycle.free <= total(Capacity, seen)
  BY <1>0 DEF CountedIn
<1> HIDE DEF seen
<1>8. cycle'.free <= total(Capacity, cycle'.nodes \ cycle'.unread)
  <2>1. \A k, l, m, o \in Nat : k <= m /\ l <= o => k + l <= m + o
    OBVIOUS
  <2>2. cycle.free + more <= total(Capacity, seen) + Capacity[n]
    BY <1>0, <1>2, <1>6, <1>7, <2>1
  <2>3. total(Capacity, cycle'.nodes \ cycle'.unread) = total(Capacity, seen) + Capacity[n]
    BY <1>5, <1>6, Zenon
  <2> QED
    BY <1>4, <2>2, <2>3, Zenon
<1> QED
  BY <1>0, <1>4, <1>8 DEF CountedIn

\* The end of handleFilter: what all nodes offer is too little for an oversized
\* gang, and none of its members is placed.
LEMMA VerdictKeeps ==
  ASSUME IInv, verdict
  PROVE  CountedIn(cycle') /\ cycle' \in Cycles /\ cycle'.unread \subseteq cycle'.nodes
<1> DEFINE g == cycle.pod[1]
<1>0. /\ cycle \in Cycles /\ cycle.step = "nodes" /\ cycle.unread = {} /\ CountedIn(cycle)
      /\ cycle.pod \in Pods /\ cycle.nodes \in SUBSET Nodes /\ cycle.free \in Nat
  BY DEF IInv, TypeOK, CountedIn, Cycles, verdict
<1>1. CASE cycle' = Idle
  BY <1>1, CycleIdles
<1>2. CASE cycle' # Idle
  <2>1. /\ cycle' = [cycle EXCEPT !.step = "pick"]
        /\ gangFeasible(Size[g], cycle.placed, Request[g], cycle.free)
    BY <1>2 DEF verdict
  <2>2. /\ cycle' \in Cycles /\ cycle'.step = "pick" /\ cycle'.pod = cycle.pod
        /\ cycle'.devices = cycle.devices /\ cycle'.unread = {}
    BY <1>0, <2>1 DEF Cycles
  <2>3. ASSUME Oversized(g) PROVE FALSE
    <3>1. /\ cycle.placed = 0 /\ cycle.free <= total(Capacity, cycle.nodes)
          /\ cycle.nodes \ cycle.unread = cycle.nodes
      BY <1>0, <2>3 DEF CountedIn
    <3>2. /\ total(Capacity, cycle.nodes) \in Nat /\ total(Capacity, Nodes) \in Nat
          /\ total(Capacity, cycle.nodes) <= total(Capacity, Nodes)
      BY <1>0, CapacityTotals
    <3>3. Size[g] \in Nat /\ Size[g] > 1 /\ Request[g] \in Nat
          /\ Size[g] * Request[g] > total(Capacity, Nodes)
      BY <1>0, <2>3, PodsFinite, GangAssumption DEF Oversized
    <3>4. cycle.free >= (Size[g] - 0) * Request[g] \/ Size[g] <= 0
      BY <2>1, <3>1 DEF gangFeasible
    <3>5. (Size[g] - 0) * Request[g] = Size[g] * Request[g] /\ Size[g] * Request[g] \in Nat
      BY <3>3
    <3> HIDE DEF g
    <3> QED
      BY <1>0, <3>1, <3>2, <3>3, <3>4, <3>5
  <2> QED
    BY <1>0, <2>2, <2>3 DEF CountedIn
<1> QED
  BY <1>1, <1>2

\* OversizedNeverPlaced after a step.
LEMMA NeverPlacedNext ==
  ASSUME \A g \in Gangs : Oversized(g) =>
           \A p \in Members(g) : node'[p] = "none" /\ assumed'[p] = "none"
  PROVE  OversizedNeverPlaced'
  BY DEF OversizedNeverPlaced, Oversized, total, Members, Pods, Placed

\* Only the pod of a cycle that has come to its end gets a node.
LEMMA PlacementKeeps ==
  ASSUME IInv, Next
  PROVE  OversizedNeverPlaced'
<1>0. ASSUME UNCHANGED <<node, assumed>> PROVE OversizedNeverPlaced'
  BY <1>0, NeverPlacedNext DEF IInv, OversizedNeverPlaced, Placed
<1>t. node \in [Pods -> Nodes \cup {"none"}] /\ assumed \in [Pods -> Nodes \cup {"none"}]
  BY DEF IInv, TypeOK
<1>n. \A g \in Gangs : Oversized(g) =>
        \A p \in Members(g) : node[p] = "none" /\ assumed[p] = "none"
  BY DEF IInv, OversizedNeverPlaced, Placed
<1>1. CASE assume
  <2>1. cycle.pod \in Pods /\ cycle.step = "pick" /\ ~ Oversized(cycle.pod[1])
    BY <1>1 DEF assume, IInv, CountedIn
  <2>2. \A p \in Pods : node'[p] = node[p] /\ (p # cycle.pod => assumed'[p] = assumed[p])
    BY <1>1, <1>t DEF assume
  <2> QED
    BY <2>1, <2>2, <1>n, NeverPlacedNext DEF Members
<1>2. CASE \E p \in Pods : Bind(p) \/ BindFails(p) \/ recreate(p)
  <2>1. PICK q \in Pods : Bind(q) \/ BindFails(q) \/ recreate(q)
    BY <1>2
  <2>2. /\ \A p \in Pods : p # q => node'[p] = node[p] /\ assumed'[p] = assumed[p]
        /\ node'[q] \in {node[q], assumed[q], "none"} /\ assumed'[q] \in {assumed[q], "none"}
    BY <2>1, <1>t DEF Bind, BindFails, recreate
  <2> QED
    BY <2>2, <1>n, NeverPlacedNext DEF Members
<1> QED
  BY <1>0, <1>1, <1>2, Zenon DEF Next, Extend, siblingsPlaced, readNode, verdict, ExtenderError,
       StartCycle, Finish, MemberFails, PluginRuns, PluginLost

\* Types are kept, by every step.
LEMMA GangTypesKept ==
  ASSUME IInv, Next
  PROVE  TypeOK' /\ CountedIn(cycle')
<1>t. TypeOK /\ CountedIn(cycle)
  BY DEF IInv
<1>c. /\ CountedIn(cycle') /\ cycle' \in Cycles /\ cycle'.unread \subseteq cycle'.nodes
  <2>1. CASE siblingsPlaced
    BY <2>1, SiblingsKeep
  <2>2. CASE \E n \in Nodes : readNode(n)
    BY <2>2, ReadKeeps
  <2>3. CASE verdict
    BY <2>3, VerdictKeeps
  <2>4. CASE assume \/ ExtenderError
    BY <2>4, CycleIdles DEF assume, ExtenderError
  <2>5. CASE \E p \in Pods : StartCycle(p)
    BY <2>5, StartKeeps
  <2>6. CASE cycle' = cycle
    BY <1>t, <2>6 DEF TypeOK, Cycles
  <2> QED
    BY <2>1, <2>2, <2>3, <2>4, <2>5, <2>6 DEF Next, Extend, Bind, BindFails, Finish, MemberFails,
         recreate, PluginRuns, PluginLost
<1>e. errors' \in 0 .. MaxErrors
  <2>1. errors \in 0 .. MaxErrors /\ MaxErrors \in Nat
    BY <1>t, GangAssumption DEF TypeOK
  <2>2. Error => errors' \in 0 .. MaxErrors
    BY <2>1 DEF Error
  <2>3. errors' = errors \/ Error
    BY Zenon DEF Next, Extend, siblingsPlaced, readNode, verdict, assume, ExtenderError, StartCycle,
         Bind, BindFails, Finish, MemberFails, recreate, PluginRuns, PluginLost
  <2> QED
    BY <2>1, <2>2, <2>3
<1>d. done' \in [Pods -> BOOLEAN] /\ old' \subseteq Pods
  <2>1. done \in [Pods -> BOOLEAN] /\ old \subseteq Pods
    BY <1>t DEF TypeOK
  <2>2. CASE \E p \in Pods : Finish(p) \/ MemberFails(p) \/ recreate(p)
    BY <2>1, <2>2, Zenon DEF Finish, MemberFails, recreate, Members
  <2>3. CASE UNCHANGED <<done, old>>
    BY <2>1, <2>3
  <2> QED
    BY <2>2, <2>3, Zenon DEF Next, Extend, siblingsPlaced, readNode, verdict, assume, ExtenderError,
         StartCycle, Bind, BindFails, PluginRuns, PluginLost
<1>p. plugin' \in [Nodes -> {"down", "known", "orphan"}]
  <2>1. plugin \in [Nodes -> {"down", "known", "orphan"}]
    BY <1>t DEF TypeOK
  <2>2. CASE \E n \in Nodes : PluginRuns(n) \/ PluginLost(n)
    BY <2>1, <2>2 DEF PluginRuns, PluginLost, run, Exit, KubeletRestarts
  <2>3. CASE UNCHANGED plugin
    BY <2>1, <2>3
  <2> QED
    BY <2>2, <2>3, Zenon DEF Next, Extend, siblingsPlaced, readNode, verdict, assume, ExtenderError,
         StartCycle, Bind, BindFails, Finish, MemberFails, recreate
<1>n. node' \in [Pods -> Nodes \cup {"none"}] /\ assumed' \in [Pods -> Nodes \cup {"none"}]
  <2>1. node \in [Pods -> Nodes \cup {"none"}] /\ assumed \in [Pods -> Nodes \cup {"none"}]
        /\ cycle.nodes \subseteq Nodes
    BY <1>t DEF TypeOK
  <2>2. CASE \E p \in Pods : Bind(p) \/ BindFails(p) \/ recreate(p)
    BY <2>1, <2>2 DEF Bind, BindFails, recreate
  <2>3. CASE assume
    BY <2>1, <2>3, Zenon DEF assume
  <2>4. CASE UNCHANGED <<node, assumed>>
    BY <2>1, <2>4
  <2> QED
    BY <2>2, <2>3, <2>4, Zenon DEF Next, Extend, siblingsPlaced, readNode, verdict, ExtenderError,
         StartCycle, Finish, MemberFails, PluginRuns, PluginLost
<1> QED
  BY <1>c, <1>e, <1>d, <1>p, <1>n DEF TypeOK, Cycles, Pods

\* The invariant holds of every behaviour.
LEMMA GangInvariant == Spec => []IInv
<1>1. Init => IInv
  <2> SUFFICES ASSUME Init PROVE IInv
    OBVIOUS
  <2>1. cycle \in Cycles /\ CountedIn(cycle) /\ cycle.unread \subseteq cycle.nodes
    BY IdleOK DEF Init, CountedIn
  <2>2. 0 \in 0 .. MaxErrors
    BY GangAssumption
  <2>3. TypeOK
    BY <2>1, <2>2 DEF Init, TypeOK, Cycles
  <2> QED
    BY <2>1, <2>3 DEF Init, IInv, OversizedNeverPlaced, Members, Placed
<1>2. IInv /\ [Next]_vars => IInv'
  <2> SUFFICES ASSUME IInv, [Next]_vars PROVE IInv'
    OBVIOUS
  <2>0. CountedIn(cycle)' <=> CountedIn(cycle')
    BY DEF CountedIn, Oversized, total, Pods
  <2>1. CASE Next
    BY <2>0, <2>1, GangTypesKept, PlacementKeeps DEF IInv
  <2>2. CASE UNCHANGED vars
    <3>1. TypeOK' /\ CountedIn(cycle')
      BY <2>2 DEF IInv, TypeOK, vars, Pods
    <3>2. OversizedNeverPlaced'
      BY <2>2, NeverPlacedNext DEF IInv, OversizedNeverPlaced, Placed, vars
    <3> QED
      BY <2>0, <3>1, <3>2 DEF IInv
  <2> QED
    BY <2>1, <2>2
<1> QED
  BY <1>1, <1>2, PTL DEF Spec

-----------------------------------------------------------------------------
\* handleFilter's gate holds for every cluster and every gang: a gang that asks
\* for more than all nodes together have is never given a node, although its
\* siblings and the nodes are read one by one while pods come, go and fail.
THEOREM OversizedStaysOut == Spec => []OversizedNeverPlaced
<1>1. IInv => OversizedNeverPlaced
  BY DEF IInv
<1> QED
  BY <1>1, GangInvariant, PTL

\* The scores of handlePrioritize follow their strategy on every node as it
\* fills and empties: a step that takes more of it never lowers its BinPack score
\* nor raises its Spread score.
THEOREM ScoresFollow == Spec => ScoreFollowsStrategy
<1>1. ASSUME NEW n \in Nodes,
             allocatedAccelerators(n) <= allocatedAccelerators(n)',
             allocatable(n) = allocatable(n)'
      PROVE  /\ score("BinPack", n) <= score("BinPack", n)'
             /\ score("Spread", n)' <= score("Spread", n)
  <2>1. allocatedAccelerators(n) \in Nat /\ allocatable(n) \in Int
    BY AllocationTypes
  <2>2. allocatedAccelerators(n)' \in Nat
    BY RequestsType DEF allocatedAccelerators
  <2> QED
    BY <1>1, <2>1, <2>2, StrategyIsFollowed DEF score
<1>2. [\A n \in Nodes :
         /\ allocatedAccelerators(n) <= allocatedAccelerators(n)'
         /\ allocatable(n) = allocatable(n)'
         => /\ score("BinPack", n) <= score("BinPack", n)'
            /\ score("Spread", n)' <= score("Spread", n)]_vars
  BY <1>1
<1> QED
  BY <1>2, PTL DEF ScoreFollowsStrategy


\* Every variable of the scheduler keeps its type; a scheduling cycle reads only
\* nodes it was offered.
THEOREM SchedulerTyped == Spec => []TypeOK
<1>1. IInv => TypeOK
  BY Zenon DEF IInv
<1> QED
  BY <1>1, GangInvariant, PTL
=============================================================================
