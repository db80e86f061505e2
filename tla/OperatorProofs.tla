---------------------------- MODULE OperatorProofs ----------------------------
(***************************************************************************)
(* Two parts of the operator.  The webhook: the quota is kept and creates  *)
(* are denied for a reason, for any jobs, teams, counts and policies, when *)
(* creates are serial.  The InferenceService controller: the endpoint in   *)
(* an object's status is served, for any number of replicas, events and    *)
(* versions.                                                               *)
(***************************************************************************)
EXTENDS QuotaAdmission, InferenceService, FiniteSetTheorems, TLAPS

USE QuotaAssumption

-----------------------------------------------------------------------------
(* What sums of counts are.                                                *)

\* A set of jobs asks for finitely many accelerators.
LEMMA AskedFinite ==
  ASSUME NEW S \in SUBSET Jobs
  PROVE  IsFiniteSet(asked(S)) /\ Cardinality(asked(S)) \in Nat
<1>0. IsFiniteSet(1 .. MaxInt)
  BY FS_Interval
<1>1. IsFiniteSet(Jobs \X (1 .. MaxInt))
  BY <1>0, FS_Product, Zenon
<1>2. asked(S) \subseteq Jobs \X (1 .. MaxInt)
  BY DEF asked
<1> QED
  BY <1>1, <1>2, FS_Subset, FS_CardinalityType

\* Fewer jobs ask for no more.
LEMMA AskedMonotone ==
  ASSUME NEW T \in SUBSET Jobs, NEW S \in SUBSET T
  PROVE  Cardinality(asked(S)) <= Cardinality(asked(T))
<1>1. asked(S) \subseteq asked(T)
  BY DEF asked
<1> QED
  BY <1>1, AskedFinite, FS_Subset

\* One more job asks for at most its own count on top.
LEMMA AskedOneMore ==
  ASSUME NEW S \in SUBSET Jobs, NEW j \in Jobs
  PROVE  Cardinality(asked(S \cup {j})) <= Cardinality(asked(S)) + Count[j]
<1> DEFINE own == {j} \X (1 .. Count[j])
<1>1. Count[j] \in Nat
  OBVIOUS
<1>2. asked(S \cup {j}) = asked(S) \cup own
  BY DEF asked
<1>3. IsFiniteSet({j}) /\ Cardinality({j}) = 1
  BY FS_Singleton, Zenon
<1>4. IsFiniteSet(1 .. Count[j]) /\ Cardinality(1 .. Count[j]) = Count[j]
  BY <1>1, FS_Interval
<1>5. IsFiniteSet(own) /\ Cardinality(own) = 1 * Count[j]
  BY <1>3, <1>4, FS_Product, ZenonT(30)
<1>6. IsFiniteSet(asked(S)) /\ Cardinality(asked(S)) \in Nat
  BY AskedFinite
<1> HIDE DEF own
<1>7. /\ Cardinality(asked(S) \cup own)
           = Cardinality(asked(S)) + Cardinality(own) - Cardinality(asked(S) \cap own)
      /\ IsFiniteSet(asked(S) \cap own)
  BY <1>5, <1>6, FS_Union, FS_Intersection, Zenon
<1>8. Cardinality(asked(S) \cap own) \in Nat
  BY <1>7, FS_CardinalityType
<1>9. Cardinality(own) = Count[j]
  BY <1>1, <1>5
<1>10. Cardinality(asked(S \cup {j}))
         = Cardinality(asked(S)) + Count[j] - Cardinality(asked(S) \cap own)
  BY <1>2, <1>7, <1>9, Zenon
<1>11. \A k, l, m, n \in Nat : n = k + l - m => n <= k + l
  OBVIOUS
<1>12. Cardinality(asked(S \cup {j})) \in Nat
  BY AskedFinite
<1> QED
  BY <1>1, <1>6, <1>8, <1>10, <1>11, <1>12, Zenon

\* The same for the view of a table.
LEMMA UsedType ==
  ASSUME NEW v, NEW t
  PROVE  used(v, t) \in Nat /\ active(v, t) \in SUBSET Jobs
  BY AskedFinite DEF used, active
LEMMA UsedMonotone ==
  ASSUME NEW v, NEW w, NEW t, active(v, t) \subseteq active(w, t)
  PROVE  used(v, t) <= used(w, t)
  BY UsedType, AskedMonotone DEF used

\* An int32 sum that fits is exact.
LEMMA IntExact ==
  ASSUME NEW n \in 0 .. MaxInt
  PROVE  int(n) = n
<1>1. ASSUME NEW a \in Nat, NEW b \in Nat, a < b PROVE a % b = a
  BY <1>1
<1>2. (n + MaxInt + 1) % (2 * MaxInt + 2) = n + MaxInt + 1
  BY <1>1, SMTT(20)
<1> QED
  BY <1>2 DEF int

-----------------------------------------------------------------------------
(* The inductive invariant.  A create that is under way is the only one,   *)
(* and since it came the stored jobs can only have finished or gone: what  *)
(* the webhook's cache shows is no less than what is stored, and no more   *)
(* than what was stored when the call came.                                *)

Alone(j) == \A i \in Jobs : i # j => call[i] = "idle"
Trails == \A i \in Jobs : phase[i] = "active" => cache[i] = "active"
Within(n, t) == \E p \in policies(t) : n <= p.max

UnderWay(j) ==
  LET t == Team[j]
  IN  /\ Alone(j) /\ Trails
      /\ NoWrap(t) /\ policies(t) # {} =>
           /\ Within(used(cache, t), t)
           /\ call[j] = "store" => Within(used(phase, t) + Count[j], t)
      /\ NoWrap(t) /\ room[j] =>
           \A p \in policies(t) : used(cache, t) + Count[j] <= p.max

IInv ==
  /\ TypeOK /\ QuotaRespected /\ DeniedForAReason
  /\ \A j \in Jobs : call[j] # "idle" => UnderWay(j)

\* Less is within the same policy; the sum checkQuota compares is exact as long
\* as the jobs it counts are within a policy.
LEMMA WithinLess ==
  ASSUME NEW t, NEW m \in Nat, NEW n \in Nat, m <= n, Within(n, t)
  PROVE  Within(m, t)
  BY DEF Within, policies
LEMMA FitsExact ==
  ASSUME NEW v, NEW j \in Jobs, NEW p \in policies(Team[j]),
         NoWrap(Team[j]), Within(used(v, Team[j]), Team[j])
  PROVE  Fits(v, j, p) <=> used(v, Team[j]) + Count[j] <= p.max
<1>1. used(v, Team[j]) \in Nat /\ Count[j] \in Nat
  BY UsedType
<1>2. PICK q \in policies(Team[j]) : used(v, Team[j]) <= q.max
  BY DEF Within
<1>3. q.max \in Nat /\ q.max + Count[j] <= MaxInt
  BY DEF NoWrap, policies
<1>4. used(v, Team[j]) + Count[j] \in 0 .. MaxInt
  BY <1>1, <1>2, <1>3
<1> QED
  BY <1>4, IntExact DEF Fits

\* QuotaRespected, for a team.
LEMMA TeamWithin ==
  ASSUME QuotaRespected, NEW t, NoWrap(t), policies(t) # {}
  PROVE  Within(used(phase, t), t)
  BY DEF QuotaRespected, Within, policies

\* Steps that take no create further and only let jobs end.
LEMMA ShrinkKeeps ==
  ASSUME IInv, TypeOK', UNCHANGED <<call, answer, room>>,
         \A t : active(phase', t) \subseteq active(phase, t),
         \A j \in Jobs : call[j] # "idle" =>
           Trails' /\ \A t : active(cache', t) \subseteq active(cache, t)
  PROVE  IInv'
<1>1. \A t : used(phase', t) \in Nat /\ used(phase, t) \in Nat /\ used(phase', t) <= used(phase, t)
  BY UsedType, UsedMonotone
<1>2. QuotaRespected'
  <2> SUFFICES ASSUME NEW t \in {p.team : p \in Policies}, NoWrap(t)
               PROVE  \E p \in policies(t) : used(phase', t) <= p.max
    BY DEF QuotaRespected
  <2>1. Within(used(phase, t), t)
    BY DEF IInv, QuotaRespected, Within
  <2>2. Within(used(phase', t), t)
    BY <1>1, <2>1, WithinLess
  <2> QED
    BY <2>2 DEF Within
<1>3. DeniedForAReason'
  BY DEF IInv, DeniedForAReason
<1>4. ASSUME NEW j \in Jobs, call'[j] # "idle" PROVE UnderWay(j)'
  <2> DEFINE t == Team[j]
  <2>1. call[j] # "idle" /\ call'[j] = call[j] /\ room'[j] = room[j] /\ UnderWay(j)
    BY <1>4 DEF IInv
  <2>2. Alone(j)' /\ Trails'
    BY <2>1 DEF UnderWay, Alone
  <2>3. used(cache', t) \in Nat /\ used(cache, t) \in Nat /\ used(cache', t) <= used(cache, t)
    BY <2>1, UsedType, UsedMonotone
  <2>4. Count[j] \in Nat /\ \A p \in policies(t) : p.max \in Nat
    BY DEF policies
  <2>5. ASSUME NoWrap(t), policies(t) # {}
        PROVE  /\ Within(used(cache', t), t)
               /\ call'[j] = "store" => Within(used(phase', t) + Count[j], t)
    BY <1>1, <2>1, <2>3, <2>4, <2>5, WithinLess DEF UnderWay
  <2>6. ASSUME NoWrap(t), room'[j], NEW p \in policies(t)
        PROVE  used(cache', t) + Count[j] <= p.max
    BY <2>1, <2>3, <2>4, <2>6 DEF UnderWay
  <2> QED
    BY <2>2, <2>5, <2>6 DEF UnderWay
<1> QED
  BY <1>2, <1>3, <1>4 DEF IInv

\* Types are kept, by every step.
LEMMA TypesKept ==
  ASSUME TypeOK, Next
  PROVE  TypeOK'
<1> USE DEF TypeOK, Phases
<1> PICK j \in Jobs : Create(j) \/ ValidateCreate(j) \/ Store(j)
                      \/ Finish(j) \/ Delete(j) \/ Sync(j)
  BY DEF Next
<1>1. CASE Create(j)
  <2>1. Room(j) \in BOOLEAN
    BY DEF Room
  <2>2. creates[j] \in Nat /\ creates[j] + 1 \in 0 .. MaxCreates
    BY <1>1 DEF Create
  <2> QED
    BY <1>1, <2>1, <2>2 DEF Create
<1>2. CASE ValidateCreate(j)
  BY <1>2 DEF ValidateCreate
<1>3. CASE Store(j)
  BY <1>3 DEF Store
<1>4. CASE Finish(j)
  BY <1>4 DEF Finish
<1>5. CASE Delete(j)
  BY <1>5 DEF Delete
<1>6. CASE Sync(j)
  BY <1>6 DEF Sync
<1> QED
  BY <1>1, <1>2, <1>3, <1>4, <1>5, <1>6

\* A create comes when nothing else is under way and the cache has caught up:
\* what the webhook will count is within a policy, and if there was room it will
\* see it.
LEMMA CreateKeeps ==
  ASSUME Serial, IInv, TypeOK', NEW j \in Jobs, Create(j)
  PROVE  IInv'
<1> DEFINE t == Team[j]
<1>1. /\ cache' = cache /\ phase' = phase /\ cache = phase
      /\ \A i \in Jobs : call[i] = "idle"
      /\ call' = [call EXCEPT ![j] = "review"]
      /\ answer' = [answer EXCEPT ![j] = "none"] /\ room' = [room EXCEPT ![j] = Room(j)]
  BY DEF Create
<1>2. /\ call'[j] = "review" /\ answer'[j] = "none" /\ room'[j] = Room(j)
      /\ \A i \in Jobs : i # j => /\ call'[i] = "idle" /\ answer'[i] = answer[i]
                                  /\ room'[i] = room[i]
  BY <1>1 DEF IInv, TypeOK
<1>3. QuotaRespected'
  BY <1>1 DEF IInv, QuotaRespected
<1>4. DeniedForAReason'
  BY <1>2 DEF IInv, DeniedForAReason
<1>5. UnderWay(j)'
  <2>1. Alone(j)' /\ Trails'
    BY <1>1, <1>2 DEF Alone, Trails
  <2>2. NoWrap(t) /\ policies(t) # {} => Within(used(cache, t), t)
    BY <1>1, TeamWithin DEF IInv
  <2>3. ASSUME NoWrap(t), room'[j], NEW p \in policies(t)
        PROVE  used(cache, t) + Count[j] <= p.max
    <3>1. Fits(phase, j, p)
      BY <1>2, <2>3, Zenon DEF Room
    <3> QED
      BY <1>1, <2>2, <2>3, <3>1, FitsExact
  <2> QED
    BY <1>1, <1>2, <2>1, <2>2, <2>3 DEF UnderWay
<1> QED
  BY <1>2, <1>3, <1>4, <1>5 DEF IInv

\* The webhook's verdict: what it lets pass is within a policy together with all
\* that is stored, and what it denies had no room.
LEMMA ValidateKeeps ==
  ASSUME IInv, TypeOK', NEW j \in Jobs, ValidateCreate(j)
  PROVE  IInv'
<1> DEFINE t == Team[j]
<1>1. /\ cache' = cache /\ phase' = phase /\ room' = room /\ call[j] = "review" /\ UnderWay(j)
      /\ \A i \in Jobs : i # j => call'[i] = call[i] /\ answer'[i] = answer[i]
  BY DEF ValidateCreate, IInv, TypeOK
<1>2. QuotaRespected'
  BY <1>1 DEF IInv, QuotaRespected
<1>3. used(cache, t) \in Nat /\ used(phase, t) \in Nat /\ Count[j] \in Nat
      /\ used(phase, t) <= used(cache, t)
  <2>1. active(phase, t) \subseteq active(cache, t)
    BY <1>1 DEF UnderWay, Trails, active
  <2> QED
    BY <2>1, UsedType, UsedMonotone
<1>4. ASSUME NEW p \in policies(t), NoWrap(t)
      PROVE  Within(used(cache, t), t) /\ (checkQuota(j, p) <=> used(cache, t) + Count[j] <= p.max)
    BY <1>1, <1>4, FitsExact DEF UnderWay, checkQuota
<1>5. ASSUME answer'[j] = "denied", answer'[j] # answer[j], NoWrap(t)
      PROVE  ~ room[j]
  <2>1. PICK p \in policies(t) : ~ checkQuota(j, p)
    BY <1>5 DEF ValidateCreate, IInv, TypeOK
  <2> QED
    BY <1>1, <1>4, <1>5, <2>1 DEF UnderWay
<1>6. DeniedForAReason'
  BY <1>1, <1>5 DEF IInv, DeniedForAReason
<1>7. ASSUME NEW i \in Jobs, call'[i] # "idle" PROVE UnderWay(i)'
  <2>1. i = j
    BY <1>1, <1>7 DEF UnderWay, Alone
  <2>2. /\ call'[j] = "store"
        /\ policies(t) = {} \/ \E p \in policies(t) : checkQuota(j, p)
    BY <1>7, <2>1 DEF ValidateCreate, IInv, TypeOK
  <2>3. ASSUME NoWrap(t), policies(t) # {}
        PROVE  Within(used(phase, t) + Count[j], t)
    <3>1. PICK p \in policies(t) : checkQuota(j, p)
      BY <2>2, <2>3
    <3>2. Within(used(cache, t) + Count[j], t)
      BY <1>4, <2>3, <3>1, SMTT(30) DEF Within
    <3> QED
      BY <1>3, <3>2, WithinLess
  <2>4. Alone(j)' /\ Trails'
    BY <1>1 DEF UnderWay, Alone, Trails
  <2> QED
    BY <1>1, <2>1, <2>3, <2>4 DEF UnderWay
<1> QED
  BY <1>2, <1>6, <1>7 DEF IInv

\* The API server stores what the webhook let pass: nothing was created since.
LEMMA StoreKeeps ==
  ASSUME IInv, TypeOK', NEW j \in Jobs, Store(j)
  PROVE  IInv'
<1> DEFINE t == Team[j]
<1>1. /\ cache' = cache /\ room' = room /\ call[j] = "store" /\ call'[j] = "idle"
      /\ UnderWay(j) /\ answer'[j] # "denied"
      /\ \A i \in Jobs : i # j => call'[i] = call[i] /\ answer'[i] = answer[i]
  BY SMTT(30) DEF Store, IInv, TypeOK
<1>2. \A i \in Jobs : call'[i] = "idle"
  BY <1>1 DEF UnderWay, Alone
<1>3. DeniedForAReason'
  BY <1>1 DEF IInv, DeniedForAReason
<1>4. /\ active(phase', t) \subseteq active(phase, t) \cup {j}
      /\ \A u : u # t => active(phase', u) = active(phase, u)
  BY DEF Store, IInv, TypeOK, active
<1>5. used(phase', t) <= used(phase, t) + Count[j]
  <2>1. /\ active(phase, t) \in SUBSET Jobs /\ active(phase, t) \cup {j} \in SUBSET Jobs
        /\ used(phase, t) \in Nat /\ used(phase', t) \in Nat /\ Count[j] \in Nat
    BY UsedType
  <2>2. used(phase', t) <= Cardinality(asked(active(phase, t) \cup {j}))
    BY <1>4, <2>1, AskedMonotone, Zenon DEF used
  <2>3. Cardinality(asked(active(phase, t) \cup {j})) <= used(phase, t) + Count[j]
    BY <2>1, AskedOneMore DEF used
  <2>4. Cardinality(asked(active(phase, t) \cup {j})) \in Nat
    BY <2>1, AskedFinite
  <2> QED
    BY <2>1, <2>2, <2>3, <2>4
<1>6. QuotaRespected'
  <2> SUFFICES ASSUME NEW u \in {p.team : p \in Policies}, NoWrap(u)
               PROVE  Within(used(phase', u), u)
    BY DEF QuotaRespected, Within
  <2>1. policies(u) # {}
    BY DEF policies
  <2>2. CASE u = t
    <3>1. Within(used(phase, t) + Count[j], t)
      BY <1>1, <2>1, <2>2 DEF UnderWay
    <3>2. used(phase, t) + Count[j] \in Nat /\ used(phase', t) \in Nat
      BY UsedType
    <3> QED
      BY <1>5, <2>2, <3>1, <3>2, WithinLess
  <2>3. CASE u # t
    <3>1. used(phase', u) = used(phase, u)
      BY <1>4, <2>3 DEF used
    <3> QED
      BY <2>1, <3>1, TeamWithin DEF IInv
  <2> QED
    BY <2>2, <2>3
<1> QED
  BY <1>2, <1>3, <1>6 DEF IInv

\* The invariant is inductive.
LEMMA QuotaInductive ==
  ASSUME Serial, IInv, [Next]_vars
  PROVE  IInv'
<1>1. CASE UNCHANGED vars
  BY <1>1, ShrinkKeeps, Zenon DEF IInv, vars, TypeOK, active, UnderWay, Trails
<1>2. CASE Next
  <2>0. TypeOK'
    BY <1>2, TypesKept DEF IInv
  <2> PICK j \in Jobs : Create(j) \/ ValidateCreate(j) \/ Store(j)
                        \/ Finish(j) \/ Delete(j) \/ Sync(j)
    BY <1>2 DEF Next
  <2>1. CASE Finish(j) \/ Delete(j)
    <3>1. /\ phase' = [phase EXCEPT ![j] = phase'[j]] /\ phase'[j] # "active"
          /\ UNCHANGED <<cache, call, answer, room>>
      BY <2>1 DEF Finish, Delete, IInv, TypeOK
    <3>2. \A t : active(phase', t) \subseteq active(phase, t) /\ active(cache', t) = active(cache, t)
      BY <3>1 DEF IInv, TypeOK, active
    <3>3. Trails => Trails'
      BY <3>1 DEF IInv, TypeOK, Trails
    <3> QED
      BY <2>0, <3>1, <3>2, <3>3, ShrinkKeeps, Zenon DEF IInv, UnderWay
  <2>2. CASE Sync(j)
    <3>1. /\ cache' = [cache EXCEPT ![j] = phase[j]] /\ cache[j] # phase[j]
          /\ UNCHANGED <<phase, call, answer, room>>
      BY <2>2 DEF Sync
    <3>2. \A t : active(phase', t) = active(phase, t)
      BY <3>1
    <3>3. Trails => Trails' /\ \A t : active(cache', t) \subseteq active(cache, t)
      BY <3>1 DEF IInv, TypeOK, Trails, active
    <3> QED
      BY <2>0, <3>1, <3>2, <3>3, ShrinkKeeps, Zenon DEF IInv, UnderWay
  <2> QED
    BY <2>0, <2>1, <2>2, CreateKeeps, ValidateKeeps, StoreKeeps
<1> QED
  BY <1>1, <1>2

\* It holds of every behaviour with serial creates.
LEMMA QuotaInvariant ==
  ASSUME Serial
  PROVE  Spec => []IInv
<1>1. Init => IInv
  <2> SUFFICES ASSUME Init PROVE IInv
    OBVIOUS
  <2>1. TypeOK
    BY DEF Init, TypeOK, Phases
  <2>2. \A t : active(phase, t) = {}
    BY DEF Init, active
  <2>3. asked({}) = {} /\ Cardinality({}) = 0
    BY FS_EmptySet DEF asked
  <2>4. \A t : used(phase, t) = 0
    BY <2>2, <2>3 DEF used
  <2>5. QuotaRespected
    BY <2>4 DEF QuotaRespected, policies
  <2> QED
    BY <2>1, <2>5 DEF Init, IInv, DeniedForAReason
<1>2. IInv /\ [Next]_vars => IInv'
  BY QuotaInductive
<1> QED
  BY <1>1, <1>2, PTL DEF Spec

-----------------------------------------------------------------------------
\* The webhook (checkQuota) keeps every team within one of its policies when
\* creates come one by one: any jobs, counts and policies whose int32 sums do not
\* wrap, whatever finishes, is deleted or reaches the cache in between.
THEOREM QuotaIsKept ==
  ASSUME Serial
  PROVE  Spec => []QuotaRespected
<1>1. IInv => QuotaRespected
  BY DEF IInv
<1> QED
  BY <1>1, QuotaInvariant, PTL

\* checkQuota gives a reason for a denial: there was no room when the create
\* came, although jobs may end while the webhook looks at its cache.
THEOREM DenialsHaveReasons ==
  ASSUME Serial
  PROVE  Spec => []DeniedForAReason
<1>1. IInv => DeniedForAReason
  BY DEF IInv
<1> QED
  BY <1>1, QuotaInvariant, PTL

\* checkQuota's comment holds of every team that has one policy: creates that come
\* one by one never take it over that policy.
THEOREM OnePolicyIsKept ==
  ASSUME Serial, \A p, q \in Policies : p.team = q.team => p = q,
         \A p \in Policies : NoWrap(p.team)
  PROVE  Spec => []EveryPolicyRespected
<1>1. QuotaRespected => EveryPolicyRespected
  <2> SUFFICES ASSUME QuotaRespected, NEW p \in Policies PROVE used(phase, p.team) <= p.max
    BY Zenon DEF EveryPolicyRespected
  <2>1. PICK q \in policies(p.team) : used(phase, p.team) <= q.max
    BY Zenon DEF QuotaRespected
  <2>2. q = p
    BY Zenon DEF policies
  <2> QED
    BY <2>1, <2>2, Zenon
<1> QED
  BY <1>1, QuotaIsKept, PTL

-----------------------------------------------------------------------------
(* What is left of the quota when creates race.                            *)

\* No int32 sum wraps around, whatever the cache shows.
NeverWraps ==
  \A j \in Jobs : Cardinality(asked({i \in Jobs : Team[i] = Team[j]})) + Count[j] <= MaxInt

\* A job that is stored, or let through to be stored, fits one of its team's
\* policies by itself.
Admissible(j) == policies(Team[j]) = {} \/ \E p \in policies(Team[j]) : Count[j] <= p.max
Admitted ==
  /\ DOMAIN phase = Jobs /\ DOMAIN call = Jobs
  /\ \A j \in Jobs : phase[j] # "none" \/ call[j] = "store" => Admissible(j)
NoJobTooLarge == \A j \in Jobs : phase[j] = "active" => Admissible(j)

\* A job that fits beside what the cache shows fits by itself.
LEMMA FitsAlone ==
  ASSUME NeverWraps, NEW j \in Jobs, NEW p \in policies(Team[j]), checkQuota(j, p)
  PROVE  Count[j] <= p.max
<1> DEFINE u == used(cache, Team[j])
           all == Cardinality(asked({i \in Jobs : Team[i] = Team[j]}))
<1>1. u \in Nat /\ all \in Nat /\ Count[j] \in Nat /\ p.max \in Nat
  BY UsedType, AskedFinite DEF policies
<1>2. u <= all
  BY AskedMonotone DEF used, active
<1>3. all + Count[j] <= MaxInt /\ int(u + Count[j]) <= p.max
  BY Zenon DEF NeverWraps, checkQuota, Fits
<1> HIDE DEF u, all
<1>4. u + Count[j] \in 0 .. MaxInt
  BY <1>1, <1>2, <1>3
<1>5. int(u + Count[j]) = u + Count[j]
  BY <1>4, IntExact, Zenon
<1> QED
  BY <1>1, <1>3, <1>5

\* Every variable of the webhook and of the API server behind it keeps its type,
\* serial or not.
THEOREM QuotaTyped == Spec => []TypeOK
<1>1. Init => TypeOK
  BY DEF Init, TypeOK, Phases
<1>2. TypeOK /\ [Next]_vars => TypeOK'
  <2> SUFFICES ASSUME TypeOK, [Next]_vars PROVE TypeOK'
    OBVIOUS
  <2>1. ASSUME NEW j \in Jobs, Create(j) PROVE TypeOK'
    <3>1. Room(j) \in BOOLEAN
      BY Zenon DEF Room
    <3>2. creates[j] + 1 \in 0 .. MaxCreates
      BY <2>1 DEF Create, TypeOK
    <3> QED
      BY <2>1, <3>1, <3>2 DEF Create, TypeOK
  <2>2. ASSUME NEW j \in Jobs, ValidateCreate(j) PROVE TypeOK'
    BY <2>2 DEF ValidateCreate, TypeOK
  <2>3. ASSUME NEW j \in Jobs, Store(j) PROVE TypeOK'
    BY <2>3 DEF Store, TypeOK, Phases
  <2>4. ASSUME NEW j \in Jobs, Finish(j) \/ Delete(j) \/ Sync(j) PROVE TypeOK'
    BY <2>4 DEF Finish, Delete, Sync, TypeOK, Phases
  <2>5. CASE UNCHANGED vars
    BY <2>5 DEF vars, TypeOK
  <2> QED
    BY <2>1, <2>2, <2>3, <2>4, <2>5, Zenon DEF Next
<1> QED
  BY <1>1, <1>2, PTL DEF Spec

\* However creates race and however old the cache is, a job that is larger than
\* every policy of its team is never stored: what a race can let through is only
\* jobs that each fit by themselves (checkQuota, ValidateCreate).
THEOREM NoneTooLarge ==
  ASSUME NeverWraps
  PROVE  Spec => []NoJobTooLarge
<1>1. Init => Admitted
  BY Zenon DEF Init, Admitted
<1>2. Admitted /\ [Next]_vars => Admitted'
  <2> SUFFICES ASSUME Admitted, [Next]_vars PROVE Admitted'
    OBVIOUS
  <2> DEFINE Step ==
        /\ DOMAIN phase' = Jobs /\ DOMAIN call' = Jobs
        /\ \A i \in Jobs : /\ phase'[i] # "none" => phase[i] # "none" \/ call[i] = "store"
                           /\ call'[i] = "store" => call[i] = "store" \/ Admissible(i)
  <2>1. Step
    <3>1. ASSUME NEW j \in Jobs, Create(j) PROVE Step
      BY <3>1 DEF Create, Admitted
    <3>2. ASSUME NEW j \in Jobs, ValidateCreate(j) PROVE Step
      BY <3>2, FitsAlone DEF ValidateCreate, Admitted, Admissible
    <3>3. ASSUME NEW j \in Jobs, Store(j) PROVE Step
      BY <3>3 DEF Store, Admitted
    <3>4. ASSUME NEW j \in Jobs, Finish(j) \/ Delete(j) \/ Sync(j) PROVE Step
      BY <3>4 DEF Finish, Delete, Sync, Admitted
    <3>5. CASE UNCHANGED vars
      BY <3>5 DEF vars, Admitted
    <3> QED
      BY <3>1, <3>2, <3>3, <3>4, <3>5, Zenon DEF Next
  <2> QED
    BY <2>1, Zenon DEF Admitted, Admissible
<1>3. Admitted => NoJobTooLarge
  BY DEF Admitted, NoJobTooLarge
<1> QED
  BY <1>1, <1>2, <1>3, PTL DEF Spec

-----------------------------------------------------------------------------
(* The InferenceService controller.  EndpointServed is not inductive: the  *)
(* reconcile has to have seen to the Service before it gets to the status, *)
(* and nobody deletes the Service while the object lives.                  *)
HIDE QuotaAssumption

Status == [phase : {"", "Pending", "Ready"}, ready : 0 .. MaxReplicas]
Svc == [live : BOOLEAN, replicas : 1 .. MaxReplicas, status : Status, rv : Nat]
Child == [live : BOOLEAN, replicas : 0 .. MaxReplicas, owned : BOOLEAN,
          ready : 0 .. MaxReplicas, rv : Nat]

Typed ==
  /\ svc \in Svc /\ svcCache \in Svc /\ copy \in Svc
  /\ child \in [Kinds -> Child] /\ childCache \in [Kinds -> Child]
  /\ step \in {"idle", "status"} \cup Kinds /\ queued \in BOOLEAN
  /\ events \in 0 .. MaxEvents

Served ==
  svc.live /\ (step = "status" \/ svc.status # NoStatus) => child["service"].live

\* Typed is the type invariant of InferenceService.
LEMMA TypedIsTypeOK == Typed <=> InferenceTypeOK
  BY DEF Typed, InferenceTypeOK, Svc, Child, Status

\* Writes to the object make a new version and keep its type.
LEMMA NewVersion ==
  ASSUME NEW s \in Svc
  PROVE  /\ \A st \in Status : [s EXCEPT !.status = st, !.rv = @ + 1] \in Svc
         /\ \A n \in 1 .. MaxReplicas : [s EXCEPT !.replicas = n, !.rv = @ + 1] \in Svc
<1>. DEFINE v == s.rv + 1
            R == 1 .. MaxReplicas
            S == [live : BOOLEAN, replicas : R, status : Status, rv : Nat]
<1>1. v \in Nat /\ s \in S
  BY DEF Svc
<1>. HIDE DEF v, R
<1>2. /\ \A st \in Status : [s EXCEPT !.status = st, !.rv = v] \in S
      /\ \A n \in R : [s EXCEPT !.replicas = n, !.rv = v] \in S
  BY <1>1, Zenon
<1>. QED
  BY <1>2, Zenon DEF Svc, v, R

\* ... and so does a change of the ready replicas.
LEMMA NewReady ==
  ASSUME NEW c \in Child, NEW n \in 0 .. MaxReplicas
  PROVE  [c EXCEPT !.ready = n, !.rv = @ + 1] \in Child
<1>. DEFINE v == c.rv + 1
            R == 0 .. MaxReplicas
            S == [live : BOOLEAN, replicas : R, owned : BOOLEAN, ready : R, rv : Nat]
<1>1. v \in Nat /\ c \in S /\ n \in R
  BY DEF Child
<1>. HIDE DEF v, R
<1>2. [c EXCEPT !.ready = n, !.rv = v] \in S
  BY <1>1, Zenon
<1>. QED
  BY <1>2 DEF Child, v, R

\* The mutate functions leave a live child of the right type.
LEMMA BuiltLives ==
  ASSUME NEW k \in Kinds, NEW s \in Svc, NEW c \in Child
  PROVE  built(k, s, c) \in Child /\ built(k, s, c).live
<1>1. desired(k, s) \in 0 .. MaxReplicas
  BY InferenceAssumption DEF desired, Svc
<1>. DEFINE d == [c EXCEPT !.live = TRUE, !.replicas = desired(k, s), !.owned = TRUE]
<1>2. d \in Child /\ d.live /\ d.rv \in Nat
  BY <1>1, Zenon DEF Child
<1>. HIDE DEF d
<1>3. [d EXCEPT !.rv = @ + 1] \in Child /\ [d EXCEPT !.rv = @ + 1].live
  BY <1>2 DEF Child
<1>4. (built(k, s, c) = c /\ d = c) \/ built(k, s, c) = [d EXCEPT !.rv = @ + 1]
  BY DEF built, d
<1>. QED
  BY <1>2, <1>3, <1>4, Zenon

\* A status has the type of the stored one.
LEMMA StatusTyped ==
  ASSUME NEW d \in Child
  PROVE  statusOf(d) \in Status
  BY DEF statusOf, Child, Status

\* The states the program starts in.
LEMMA InitServed == InferenceInit => Typed /\ Served
<1>. SUFFICES ASSUME InferenceInit PROVE Typed /\ Served
  OBVIOUS
<1>1. NoStatus \in Status /\ NoChild \in Child
  BY InferenceAssumption DEF NoStatus, NoChild, Status, Child
<1>2. svc \in Svc /\ svc.status = NoStatus
  BY <1>1 DEF InferenceInit, Svc
<1>3. events \in 0 .. MaxEvents
  BY InferenceAssumption DEF InferenceInit
<1>. QED
  BY <1>1, <1>2, <1>3 DEF InferenceInit, Typed, Served

\* ensureDeployment and ensureService: only the Service leads to the status.
LEMMA EnsureServed ==
  ASSUME Typed, Served, NEW k \in Kinds, ensure(k)
  PROVE  Typed' /\ Served'
<1>1. /\ UNCHANGED <<svc, svcCache, childCache, copy, events>> /\ step = k
      /\ \/ /\ child' = [child EXCEPT ![k] = built(k, copy, child[k])]
            /\ step' = following(k) /\ queued' = queued
         \/ child' = child /\ step' = "idle" /\ queued' = TRUE
  BY DEF ensure, caches, Fail
<1>2. built(k, copy, child[k]) \in Child /\ built(k, copy, child[k]).live
  BY BuiltLives DEF Typed
<1>3. Typed'
  BY <1>1, <1>2, Zenon DEF Typed, following, Kinds
<1>4. Served'
  BY <1>1, <1>2 DEF Typed, Served, following, Kinds
<1>. QED
  BY <1>3, <1>4, SMTT(30)

\* syncStatus writes the endpoint only behind a Service.
LEMMA SyncStatusServed ==
  ASSUME Typed, Served, syncStatus
  PROVE  Typed' /\ Served'
<1>. DEFINE st == statusOf(childCache["deployment"])
<1>1. st \in Status
  BY StatusTyped DEF Typed, Kinds
<1>. HIDE DEF st
<1>2. /\ step = "status" /\ step' = "idle" /\ queued' \in BOOLEAN
      /\ UNCHANGED <<child, svcCache, childCache, copy, events>>
      /\ svc' = svc \/ svc' = [svc EXCEPT !.status = st, !.rv = @ + 1]
  BY Zenon DEF syncStatus, Fail, caches, st, Typed
<1>3. svc' \in Svc /\ svc'.live = svc.live
  <2>1. svc \in Svc
    BY DEF Typed
  <2>2. [svc EXCEPT !.status = st, !.rv = @ + 1] \in Svc
    BY <1>1, <2>1, NewVersion, Zenon
  <2>3. [svc EXCEPT !.status = st, !.rv = @ + 1].live = svc.live
    BY <2>1 DEF Svc
  <2>. QED
    BY <1>2, <2>1, <2>2, <2>3, Zenon
<1>. QED
  BY <1>2, <1>3 DEF Typed, Served, Kinds

\* Reconcile starts at the Deployment.
LEMMA ReconcileServed ==
  ASSUME Typed, Served, Reconcile
  PROVE  Typed' /\ Served'
  BY Zenon DEF Typed, Served, Reconcile, store, caches, Kinds

\* Watches and restarts change caches only.
LEMMA CacheServed ==
  ASSUME Typed, Served, SyncSvc \/ Restart \/ \E k \in Kinds : SyncChild(k)
  PROVE  Typed' /\ Served'
<1>1. events' \in 0 .. MaxEvents
  <2>1. events' = events \/ (events < MaxEvents /\ events' = events + 1)
    BY DEF SyncSvc, Restart, SyncChild, Event
  <2>. QED
    BY <2>1, InferenceAssumption DEF Typed
<1>2. svcCache' \in Svc /\ childCache' \in [Kinds -> Child] /\ queued' = TRUE
  BY DEF Typed, SyncSvc, Restart, SyncChild
<1>3. UNCHANGED <<svc, child, copy>> /\ (step' = step \/ step' = "idle")
  BY DEF SyncSvc, Restart, SyncChild, store
<1>. QED
  BY <1>1, <1>2, <1>3 DEF Typed, Served

\* Users edit and delete the object; its status stays.
LEMMA UserServed ==
  ASSUME Typed, Served, DeleteSvc \/ \E n \in 1 .. MaxReplicas : EditReplicas(n)
  PROVE  Typed' /\ Served'
<1>1. events' \in 0 .. MaxEvents
  <2>1. events < MaxEvents /\ events' = events + 1
    BY Zenon DEF DeleteSvc, EditReplicas, Event
  <2>. QED
    BY <2>1, InferenceAssumption DEF Typed
<1>2. UNCHANGED <<child, svcCache, childCache, step, copy, queued>>
  BY Zenon DEF DeleteSvc, EditReplicas, caches
<1>3. svc' \in Svc /\ (svc'.live => svc.live) /\ svc'.status = svc.status
  <2>1. svc \in Svc
    BY DEF Typed
  <2>2. CASE DeleteSvc
    BY <2>1, <2>2, Zenon DEF DeleteSvc, Svc
  <2>3. ASSUME NEW n \in 1 .. MaxReplicas, EditReplicas(n) PROVE <1>3!:
    BY <2>1, <2>3, NewVersion, Zenon DEF EditReplicas, Svc
  <2>. QED
    BY <2>2, <2>3
<1>. QED
  BY <1>1, <1>2, <1>3 DEF Typed, Served

\* The cluster changes the Deployment; the Service goes only after the object.
LEMMA ClusterServed ==
  ASSUME Typed, Served,
         \/ Drift \/ \E k \in Kinds : Collect(k)
         \/ \E n \in 0 .. MaxReplicas : ReadyChanges(n)
  PROVE  Typed' /\ Served'
<1>1. events' \in 0 .. MaxEvents
  <2>1. events' = events \/ (events < MaxEvents /\ events' = events + 1)
    BY Zenon DEF Drift, Collect, ReadyChanges, Event
  <2>. QED
    BY <2>1, InferenceAssumption DEF Typed
<1>2. UNCHANGED <<svc, svcCache, childCache, step, copy, queued>>
  BY Zenon DEF Drift, Collect, ReadyChanges, DeleteChild, caches
<1>3. NoChild \in Child /\ \A k \in Kinds : child[k] \in Child
  BY InferenceAssumption DEF NoChild, Child, Typed
<1>4. /\ \E k \in Kinds, c \in Child : child' = [child EXCEPT ![k] = c]
      /\ svc.live => child'["service"] = child["service"]
  <2>1. ASSUME NEW k \in Kinds, DeleteChild(k), k = "deployment" \/ ~ svc.live PROVE <1>4!:
    <3>1. [NoChild EXCEPT !.rv = child[k].rv + 1] \in Child
      BY <1>3 DEF Child
    <3>. QED
      BY <2>1, <3>1, Zenon DEF DeleteChild, Typed, Kinds
  <2>2. ASSUME NEW n \in 0 .. MaxReplicas, ReadyChanges(n) PROVE <1>4!:
    <3>. DEFINE d == child["deployment"]
    <3>0. d \in Child
      BY <1>3 DEF Kinds
    <3>. HIDE DEF d
    <3>1. [d EXCEPT !.ready = n, !.rv = @ + 1] \in Child
      BY <3>0, NewReady, Zenon
    <3>. QED
      BY <2>2, <3>1, Zenon DEF d, ReadyChanges, Typed, Kinds
  <2>. QED
    BY <2>1, <2>2 DEF Drift, Collect, Kinds
<1>. QED
  BY <1>1, <1>2, <1>4 DEF Typed, Served, Kinds

\* Every state is typed and has its endpoint served.
LEMMA ServedHolds == InferenceSpec => [](Typed /\ Served)
<1>1. Typed /\ Served /\ [InferenceNext]_inferenceVars => Typed' /\ Served'
  <2>. SUFFICES ASSUME Typed, Served, [InferenceNext]_inferenceVars PROVE Typed' /\ Served'
    OBVIOUS
  <2>1. CASE UNCHANGED inferenceVars
    BY <2>1 DEF inferenceVars, store, caches, Typed, Served
  <2>. QED
    BY <2>1, ReconcileServed, EnsureServed, SyncStatusServed, CacheServed, UserServed,
       ClusterServed DEF InferenceNext, Controller
<1>. QED
  BY <1>1, InitServed, PTL DEF InferenceSpec

\* The controller keeps every object and its own state well formed.
THEOREM InferenceTyped == InferenceSpec => []InferenceTypeOK
  BY ServedHolds, TypedIsTypeOK, PTL

\* Reconcile and syncStatus: an endpoint in the status of a live object has its
\* Service.
THEOREM EndpointIsServed == InferenceSpec => []EndpointServed
<1>1. Typed /\ Served => EndpointServed
  BY DEF Served, EndpointServed
<1>. QED
  BY <1>1, ServedHolds, PTL
=============================================================================
