--------------------------- MODULE ApiServerProofs ---------------------------
(***************************************************************************)
(* Proofs about ApiServer for any number of requests, teams and jobs.      *)
(*                                                                         *)
(* The limiter's guarantees hold inside the server because every step of   *)
(* the server is one of RateLimit's or leaves it alone.  The properties of *)
(* the handlers need to know, for every request in flight, what its        *)
(* earlier calls have established and that nobody takes it back: a row     *)
(* only goes from none to Pending to Cancelled, and the team was checked   *)
(* before the object is loaded.                                            *)
(***************************************************************************)
EXTENDS ApiServer, TLAPS

-----------------------------------------------------------------------------
(* The limiter alone (RateLimit).  Neither of its properties is inductive: *)
(* both follow from an account of each bucket, which needs to know that a  *)
(* team has one bucket, that no other team shares it, and that a request   *)
(* in flight holds its team's.                                             *)

USE RateAssumption

\* A request past the lookup belongs to a team whose bucket it holds.
Holds(r) ==
  state[r] # "new" /\ TeamOf[r] # NoTeam =>
    limiters[TeamOf[r]] # NoBucket /\ lim[r] = limiters[TeamOf[r]]
Waits(r) == state[r] \in {"allow", "rejected"} => TeamOf[r] # NoTeam

\* The account of a team: what passed and what is left in its bucket.
Account(t) ==
  IF limiters[t] = NoBucket THEN allowed[t] = 0
  ELSE /\ TeamOf[limiters[t]] = t
       /\ tokens[limiters[t]] + allowed[t] >= Burst
       /\ tokens[limiters[t]] + allowed[t] <= Burst + Rps * now

IInv ==
  /\ TypeOK /\ BurstIsOwn
  /\ \A r \in Requests : Holds(r) /\ Waits(r)
  /\ \A t \in Teams : Account(t)

\* No request has come and no bucket is made.
LEMMA InitInv == Init => IInv
  BY DEF Init, IInv, TypeOK, BurstIsOwn, Holds, Waits, Account

\* What a refill adds: never past a full bucket, never more than Rps.
LEMMA RefilledSound ==
  ASSUME NEW n \in Nat
  PROVE  /\ refilled(n) \in Nat /\ refilled(n) <= n + Rps
         /\ (refilled(n) >= Burst \/ refilled(n) >= n)
  BY DEF refilled

\* Time adds at most Rps tokens to a bucket, and to the account.
LEMMA TickInv == IInv /\ Tick => IInv'
<1> SUFFICES ASSUME IInv, Tick PROVE IInv'
  OBVIOUS
<1> USE DEF IInv, Tick
<1>1. TypeOK'
  BY RefilledSound DEF TypeOK
<1>2. BurstIsOwn' /\ \A r \in Requests : Holds(r)' /\ Waits(r)'
  BY DEF BurstIsOwn, Holds, Waits
<1>3. ASSUME NEW t \in Teams PROVE Account(t)'
  <2>1. CASE limiters[t] = NoBucket
    BY <2>1 DEF Account
  <2>2. CASE limiters[t] # NoBucket
    <3> DEFINE b == limiters[t]
    <3>1. b \in Requests /\ tokens[b] \in Nat /\ allowed[t] \in Nat /\ now \in Nat
      BY <2>2 DEF TypeOK
    <3>2. tokens'[b] = refilled(tokens[b]) /\ allowed' = allowed /\ now' = now + 1
      BY <3>1 DEF TypeOK
    <3>3. tokens[b] + allowed[t] >= Burst /\ tokens[b] + allowed[t] <= Burst + Rps * now
      BY <2>2 DEF Account
    <3>4. Rps * (now + 1) = Rps * now + Rps /\ Rps * now \in Nat
      BY <3>1
    <3>5. /\ tokens'[b] + allowed'[t] >= Burst
          /\ tokens'[b] + allowed'[t] <= Burst + Rps * now'
      <4> HIDE DEF b, IInv, Tick
      <4> QED BY <3>1, <3>2, <3>3, <3>4, RefilledSound
    <3> QED
      BY <2>2, <3>5 DEF Account
  <2> QED
    BY <2>1, <2>2
<1> QED
  BY <1>1, <1>2, <1>3

\* A request without a team touches nothing of a team.
LEMMA PassInv == ASSUME NEW r \in Requests, IInv, pass(r) PROVE IInv'
  BY DEF IInv, pass, TypeOK, BurstIsOwn, Holds, Waits, Account

\* A new bucket is full and its team has used nothing yet.
LEMMA LookupInv == ASSUME NEW r \in Requests, IInv, lookup(r) PROVE IInv'
<1> DEFINE t == TeamOf[r]
<1> USE DEF IInv
<1>1. t \in Teams /\ state[r] = "new"
  BY DEF lookup
<1>2. TypeOK'
  BY <1>1 DEF TypeOK, lookup
<1>3. BurstIsOwn' /\ \A q \in Requests : Waits(q)'
  BY DEF TypeOK, BurstIsOwn, Waits, lookup
<1>4. \A q \in Requests : Holds(q)'
  BY <1>1 DEF TypeOK, Holds, lookup
<1>5. \A u \in Teams : Account(u)'
  <2>1. CASE limiters[t] = NoBucket
    <3>1. /\ limiters' = [limiters EXCEPT ![t] = r] /\ tokens' = [tokens EXCEPT ![r] = Burst]
          /\ allowed' = allowed /\ now' = now
      BY <2>1 DEF lookup
    <3>2. allowed[t] = 0 /\ Rps * now \in Nat
      BY <1>1, <2>1 DEF Account, TypeOK
    <3>3. limiters'[t] = r /\ tokens'[r] = Burst /\ r # NoBucket
      BY <1>1, <3>1 DEF TypeOK
    <3>4. Account(t)'
      BY <3>1, <3>2, <3>3 DEF Account
    <3>5. ASSUME NEW u \in Teams, u # t PROVE Account(u)'
      <4>1. limiters'[u] = limiters[u]
        BY <3>1, <3>5 DEF TypeOK
      <4>2. limiters[u] # NoBucket => tokens'[limiters[u]] = tokens[limiters[u]]
        BY <3>1, <3>5 DEF TypeOK, Account
      <4> QED
        BY <3>1, <4>1, <4>2 DEF Account
    <3> QED
      BY <3>4, <3>5
  <2>2. CASE limiters[t] # NoBucket
    BY <2>2 DEF lookup, Account
  <2> QED
    BY <2>1, <2>2
<1> QED
  BY <1>2, <1>3, <1>4, <1>5

\* A token taken is a request allowed; an empty bucket means a burst was.
LEMMA TakeInv == ASSUME NEW r \in Requests, IInv, take(r) PROVE IInv'
<1> DEFINE t == TeamOf[r]
           b == lim[r]
<1> USE DEF IInv
<1>1. t \in Teams /\ b = limiters[t] /\ b \in Requests /\ limiters[t] # NoBucket
  BY DEF take, Holds, Waits, TypeOK
<1>2. tokens[b] \in Nat /\ allowed[t] \in Nat /\ Rps * now \in Nat
  BY <1>1 DEF TypeOK
<1>3. tokens[b] + allowed[t] >= Burst /\ tokens[b] + allowed[t] <= Burst + Rps * now
  BY <1>1 DEF Account
<1>4. CASE /\ tokens[b] > 0
           /\ tokens' = [tokens EXCEPT ![b] = @ - 1]
           /\ allowed' = [allowed EXCEPT ![t] = @ + 1]
           /\ state' = [state EXCEPT ![r] = "served"]
  <2>1. tokens[b] - 1 \in Nat /\ allowed[t] + 1 \in Nat
    BY <1>2, <1>4
  <2>2. TypeOK'
    BY <1>4, <2>1, <1>1 DEF TypeOK, take
  <2>3. tokens'[b] = tokens[b] - 1 /\ allowed'[t] = allowed[t] + 1
    BY <1>4, <1>1 DEF TypeOK
  <2>4. BurstIsOwn'
    <3>1. ASSUME NEW q \in Requests, state'[q] = "rejected" PROVE allowed'[TeamOf[q]] >= Burst
      <4>1. state[q] = "rejected" /\ TeamOf[q] \in Teams
        BY <1>4, <3>1 DEF TypeOK, Waits
      <4>2. allowed[TeamOf[q]] \in Nat /\ allowed[TeamOf[q]] >= Burst
        BY <4>1 DEF BurstIsOwn, TypeOK
      <4>3. TeamOf[q] # t => allowed'[TeamOf[q]] = allowed[TeamOf[q]]
        BY <1>4, <4>1 DEF TypeOK
      <4> QED
        BY <2>3, <4>2, <4>3
    <3> QED
      BY <3>1 DEF BurstIsOwn
  <2>5. \A q \in Requests : Holds(q)' /\ Waits(q)'
    BY <1>4, <1>1 DEF TypeOK, Holds, Waits, take
  <2>6. ASSUME NEW u \in Teams PROVE Account(u)'
    <3>1. limiters' = limiters /\ now' = now
      BY DEF take
    <3>2. CASE u = t
      <4>1. tokens'[b] + allowed'[t] = tokens[b] + allowed[t]
        BY <1>2, <2>3
      <4> QED
        BY <1>1, <1>3, <3>1, <3>2, <4>1 DEF Account
    <3>3. CASE u # t
      <4>1. limiters[u] # NoBucket => limiters[u] # b
        BY <1>1, <3>3 DEF Account
      <4>2. allowed'[u] = allowed[u]
        BY <1>4, <3>3 DEF TypeOK
      <4>3. limiters[u] # NoBucket => tokens'[limiters[u]] = tokens[limiters[u]]
        BY <1>4, <4>1 DEF TypeOK
      <4> QED
        BY <3>1, <4>2, <4>3 DEF Account
    <3> QED
      BY <3>2, <3>3
  <2> QED
    BY <2>2, <2>4, <2>5, <2>6
<1>5. CASE /\ tokens[b] = 0 /\ state' = [state EXCEPT ![r] = "rejected"]
           /\ UNCHANGED <<tokens, allowed>>
  <2>1. TypeOK' /\ \A q \in Requests : Holds(q)' /\ Waits(q)'
    BY <1>5, <1>1 DEF TypeOK, Holds, Waits, take
  <2>2. allowed[t] >= Burst
    BY <1>2, <1>3, <1>5
  <2>3. BurstIsOwn'
    BY <1>5, <2>2 DEF BurstIsOwn, TypeOK
  <2>4. \A u \in Teams : Account(u)'
    BY <1>5 DEF Account, take
  <2> QED
    BY <2>1, <2>3, <2>4
<1> QED
  BY <1>4, <1>5 DEF take

\* The inductive invariant holds throughout.
LEMMA InvHolds == Spec => []IInv
<1>1. IInv /\ [Next]_vars => IInv'
  <2>1. IInv /\ UNCHANGED vars => IInv'
    BY DEF vars, IInv, TypeOK, BurstIsOwn, Holds, Waits, Account
  <2> QED
    BY <2>1, TickInv, PassInv, LookupInv, TakeInv DEF Next
<1> QED
  BY <1>1, InitInv, PTL DEF Spec

-----------------------------------------------------------------------------
\* perTeamLimiter.allow never lets a team past one burst plus what time added.
THEOREM BudgetIsKept == Spec => []BudgetKept
<1>1. IInv => BudgetKept
  <2> SUFFICES ASSUME IInv, NEW t \in Teams PROVE allowed[t] <= Burst + Rps * now
    BY DEF BudgetKept
  <2>1. allowed[t] \in Nat /\ Rps * now \in Nat /\ Account(t)
    BY DEF IInv, TypeOK
  <2>2. limiters[t] # NoBucket => tokens[limiters[t]] \in Nat
    BY DEF IInv, TypeOK
  <2> QED
    BY <2>1, <2>2 DEF Account
<1> QED
  BY <1>1, InvHolds, PTL

\* A 429 means that the team itself has used up a full burst.
THEOREM BurstIsTeamsOwn == Spec => []BurstIsOwn
<1>1. IInv => BurstIsOwn
  BY DEF IInv
<1> QED
  BY <1>1, InvHolds, PTL

-----------------------------------------------------------------------------
(* The limiter inside the server.                                          *)

\* The server with all its handlers implements the limiter.
THEOREM LimiterImplemented == ApiSpec => Spec
<1>1. ApiInit => Init
  BY DEF ApiInit
<1>2. [ApiNext]_apiVars => [Next]_vars
  <2>. SUFFICES ASSUME [ApiNext]_apiVars PROVE [Next]_vars
    OBVIOUS
  <2>1. ASSUME NEW r \in Requests, limit(r) PROVE Next
    BY <2>1 DEF limit, Next
  <2>2. CASE Refill
    BY <2>2, SMTT(20) DEF Refill, Next
  <2>3. ASSUME NEW r \in Requests, unauthorized(r) \/ Handle(r) PROVE UNCHANGED vars
    BY <2>3 DEF unauthorized, Handle, createJob, getRow, overlay, authorize, loadObject,
                deleteObject, updateStatus, recordAudit, limiter, vars
  <2>4. ASSUME NEW j \in Jobs, Created(j) \/ PhaseChanges(j) \/ Finalized(j)
        PROVE  UNCHANGED vars
    BY <2>4, Zenon DEF Created, PhaseChanges, Finalized, limiter, vars
  <2>5. CASE UNCHANGED apiVars
    BY <2>5 DEF apiVars, limiter, vars
  <2>. QED
    BY <2>1, <2>2, <2>3, <2>4, <2>5 DEF ApiNext
<1>. QED
  BY <1>1, <1>2, PTL DEF ApiSpec, Spec

\* perTeamLimiter, under the server's handlers: a team never gets past one burst
\* plus what time added.
THEOREM ApiBudget == ApiSpec => []BudgetKept
  BY LimiterImplemented, BudgetIsKept, PTL

\* perTeamLimiter, under the server's handlers: a 429 means that the team itself
\* has used up a full burst.
THEOREM ApiBurst == ApiSpec => []BurstIsOwn
  BY LimiterImplemented, BurstIsTeamsOwn, PTL

-----------------------------------------------------------------------------
States == {"new", "allow", "served", "rejected"}

\* What a request that changed something is, and what makes its team known.
Changed(r) ==
  /\ r \in touched => /\ state[r] = "served" /\ code[r] \notin Refusals
                      /\ pc[r] \in {"status", "audit", "done"} /\ checkTeamAccess(r)
  /\ code[r] # "none" => pc[r] = "done"
  /\ pc[r] \in {"load", "delete", "status", "audit"} => checkTeamAccess(r)

\* How far a DELETE has come.
Deletes(r) ==
  LET j == Target[r]
  IN  /\ pc[r] \in {"delete", "status", "audit"} => row[j] # "none"
      /\ pc[r] = "audit" /\ errors = 0 => row[j] = "Cancelled"
      /\ code[r] = "204" /\ errors = 0 => row[j] = "Cancelled" /\ j \in audit

\* What a GET has read is the row's status, or was until the job was cancelled.
Current(r) ==
  view[r] = row[Target[r]] \/ (view[r] = "Pending" /\ row[Target[r]] = "Cancelled")
Answered(r) ==
  view[r] \in seen[r] \/ (view[r] = "Pending" /\ row[Target[r]] = "Cancelled")
Reads(r) ==
  /\ pc[r] = "overlay" => /\ view[r] \in {"Pending", "Cancelled"} /\ Current(r)
                          /\ status(Target[r]) \in seen[r]
  /\ code[r] = "200" /\ errors = 0 => Answered(r)

Request(r) == Changed(r) /\ Deletes(r) /\ Reads(r)

ApiInv ==
  /\ ApiTypeOK /\ state \in [Requests -> States]
  /\ \A j \in Jobs : cr[j] # "absent" => row[j] # "none"
  /\ \A r \in Requests : Request(r)

\* What every step leaves as it is.
Onward ==
  /\ \A j \in Jobs : \/ row'[j] = row[j]
                     \/ row[j] = "none" /\ row'[j] = "Pending"
                     \/ row[j] # "none" /\ row'[j] = "Cancelled"
  /\ audit \subseteq audit' /\ (errors' = 0 => errors = 0)

\* A request that takes no step of a handler.
Waiting(q) ==
  /\ pc'[q] = pc[q] /\ code'[q] = code[q] /\ view'[q] = view[q]
  /\ q \in touched' => q \in touched
  /\ state'[q] = state[q] \/ state[q] \in {"new", "allow"}

\* A request stays sound while others go on.
LEMMA WaitingSound ==
  ASSUME ApiInv, Onward, Observe, NEW q \in Requests, Waiting(q)
  PROVE  Request(q)'
<1>. DEFINE j == Target[q]
<1>0. /\ Request(q) /\ j \in Jobs /\ Waiting(q)
      /\ row[j] \in {"none", "Pending", "Cancelled"}
      /\ \/ row'[j] = row[j]
         \/ row[j] = "none" /\ row'[j] = "Pending"
         \/ row[j] # "none" /\ row'[j] = "Cancelled"
      /\ audit \subseteq audit' /\ (errors' = 0 => errors = 0)
  BY ApiAssumption, ZenonT(30) DEF ApiInv, Onward, ApiTypeOK
<1>1. Changed(q)'
  BY <1>0, Zenon DEF Request, Changed, Waiting, checkTeamAccess
<1>2. Deletes(q)'
  BY <1>0 DEF Request, Deletes, Waiting
<1>3. Reads(q)'
  <2>1. pc[q] # "overlay" => seen'[q] = seen[q]
    BY <1>0 DEF Observe, Waiting
  <2>2. pc[q] = "overlay" => status(j)' \in seen'[q]
    BY <1>0 DEF Observe, Waiting
  <2>3. code[q] # "none" => pc[q] = "done"
    BY <1>0 DEF Request, Changed
  <2>4. pc'[q] = "overlay" => view'[q] \in {"Pending", "Cancelled"} /\ Current(q)'
    BY <1>0, SMTT(30) DEF Request, Reads, Waiting, Current
  <2>5. code'[q] = "200" /\ errors' = 0 => Answered(q)'
    BY <1>0, <2>1, <2>3 DEF Request, Reads, Waiting, Answered
  <2>. QED
    BY <1>0, <2>2, <2>4, <2>5, SMTT(30) DEF Reads, Waiting
<1>. QED
  BY <1>1, <1>2, <1>3 DEF Request

-----------------------------------------------------------------------------
Labels == {"start", "overlay", "authorize", "load", "delete", "status", "audit", "done"}
Codes == Refusals \cup {"none", "200", "201", "204", "500"}

\* What any handler may do in a step: answer or go on, and change its own row.
HandlerStep(r) ==
  /\ (\E c \in Codes : Answer(r, c)) \/ (\E l \in Labels : Goto(r, l))
  /\ view' = view \/ \E v \in {"Pending", "Cancelled"} \cup Phases : view' = [view EXCEPT ![r] = v]
  /\ touched' = touched \/ Touch(r)
  /\ errors' = errors \/ Error
  /\ \/ row' = row
     \/ row[Target[r]] = "none" /\ row' = [row EXCEPT ![Target[r]] = "Pending"]
     \/ row[Target[r]] # "none" /\ row' = [row EXCEPT ![Target[r]] = "Cancelled"]
  /\ deleting' \subseteq Jobs /\ audit \subseteq audit' /\ audit' \subseteq Jobs
  /\ UNCHANGED <<state, cr>>

\* A handler's step is sound for the others, and so if it is for its own request.
LEMMA HandlerSound ==
  ASSUME ApiInv, Observe, NEW r \in Requests, HandlerStep(r), Request(r)'
  PROVE  ApiInv'
<1>0. ApiTypeOK /\ state \in [Requests -> States] /\ Target[r] \in Jobs
  BY ApiAssumption, Zenon DEF ApiInv
<1>1. /\ pc' \in [Requests -> Labels] /\ code' \in [Requests -> Codes]
      /\ \A q \in Requests \ {r} : pc'[q] = pc[q] /\ code'[q] = code[q]
  <2>1. pc \in [Requests -> Labels] /\ code \in [Requests -> Codes]
    BY <1>0, Zenon DEF ApiTypeOK, Labels, Codes
  <2>2. CASE \E c \in Codes : Answer(r, c)
    BY <2>1, <2>2 DEF Answer, Labels
  <2>3. CASE \E l \in Labels : Goto(r, l)
    BY <2>1, <2>3 DEF Goto
  <2>. QED
    BY <2>2, <2>3 DEF HandlerStep
<1>2. /\ view' \in [Requests -> {"none", "", "Pending", "Cancelled"} \cup Phases]
      /\ \A q \in Requests \ {r} : view'[q] = view[q]
  <2>1. view \in [Requests -> {"none", "", "Pending", "Cancelled"} \cup Phases]
    BY <1>0, Zenon DEF ApiTypeOK
  <2>2. view' = view \/ \E v \in {"Pending", "Cancelled"} \cup Phases : view' = [view EXCEPT ![r] = v]
    BY DEF HandlerStep
  <2>. QED
    BY <2>1, <2>2, Zenon
<1>3. /\ touched' \subseteq Requests
      /\ \A q \in Requests \ {r} : q \in touched' => q \in touched
  BY <1>0, Zenon DEF ApiTypeOK, HandlerStep, Touch
<1>4. errors' \in 0 .. MaxErrors /\ (errors' = 0 => errors = 0)
  <2>1. errors \in 0 .. MaxErrors /\ MaxErrors \in Nat
    BY <1>0, ApiAssumption, Zenon DEF ApiTypeOK
  <2>2. errors' = errors \/ (errors < MaxErrors /\ errors' = errors + 1)
    BY DEF HandlerStep, Error
  <2>. QED
    BY <2>1, <2>2
<1>5. /\ row' \in [Jobs -> {"none", "Pending", "Cancelled"}]
      /\ \A j \in Jobs : \/ row'[j] = row[j]
                         \/ row[j] = "none" /\ row'[j] = "Pending"
                         \/ row[j] # "none" /\ row'[j] = "Cancelled"
  <2>1. row \in [Jobs -> {"none", "Pending", "Cancelled"}]
    BY <1>0, Zenon DEF ApiTypeOK
  <2>2. \/ row' = row
        \/ row[Target[r]] = "none" /\ row' = [row EXCEPT ![Target[r]] = "Pending"]
        \/ row[Target[r]] # "none" /\ row' = [row EXCEPT ![Target[r]] = "Cancelled"]
    BY DEF HandlerStep
  <2>. QED
    BY <1>0, <2>1, <2>2
<1>6. deleting' \subseteq Jobs /\ audit \subseteq audit' /\ audit' \subseteq Jobs
      /\ UNCHANGED <<state, cr>>
  BY DEF HandlerStep
<1>7. ApiTypeOK' /\ state' \in [Requests -> States]
  BY <1>0, <1>1, <1>2, <1>3, <1>4, <1>5, <1>6, Zenon DEF ApiTypeOK, Labels, Codes
<1>8. \A j \in Jobs : cr'[j] # "absent" => row'[j] # "none"
  BY <1>5, <1>6 DEF ApiInv
<1>9. Onward
  BY <1>4, <1>5, <1>6 DEF Onward
<1>10. \A q \in Requests \ {r} : Waiting(q)
  BY <1>1, <1>2, <1>3, <1>6, Zenon DEF Waiting
<1>. QED
  BY <1>7, <1>8, <1>9, <1>10, WaitingSound DEF ApiInv

\* What a handler knows about its own request before a step.
Mine(r) ==
  /\ Request(r) /\ Target[r] \in Jobs /\ ApiTypeOK
  /\ pc \in [Requests -> Labels] /\ code \in [Requests -> Codes]
  /\ view \in [Requests -> {"none", "", "Pending", "Cancelled"} \cup Phases]
  /\ row \in [Jobs -> {"none", "Pending", "Cancelled"}] /\ errors \in Nat
  /\ cr[Target[r]] \in {"absent", ""} \cup Phases
  /\ cr[Target[r]] # "absent" => row[Target[r]] # "none"
  /\ deleting \subseteq Jobs /\ audit \subseteq Jobs

\* ... which the invariant tells it.
LEMMA OwnFacts ==
  ASSUME ApiInv, NEW r \in Requests
  PROVE  Mine(r)
<1>1. ApiTypeOK /\ Request(r) /\ Target[r] \in Jobs /\ MaxErrors \in Nat
      /\ \A j \in Jobs : cr[j] # "absent" => row[j] # "none"
  BY ApiAssumption, Zenon DEF ApiInv
<1>2. errors \in Nat
  <2>1. errors \in 0 .. MaxErrors
    BY <1>1, Zenon DEF ApiTypeOK
  <2>. QED
    BY <1>1, <2>1
<1>. QED
  BY <1>1, <1>2, Zenon DEF Mine, ApiTypeOK, Labels, Codes

\* A step in which a call fails is counted.
LEMMA ErrorCounts ==
  ASSUME NEW r \in Requests, Mine(r), errors' = 0
  PROVE  ~Error
<1>1. errors \in Nat
  BY Zenon DEF Mine
<1>. QED
  BY <1>1 DEF Error

\* handleCreateJob changes something only for the team of the job.
LEMMA CreateInv ==
  ASSUME ApiInv, Observe, NEW r \in Requests, createJob(r)
  PROVE  ApiInv'
<1>0. Mine(r)
  BY OwnFacts
<1>1. HandlerStep(r)
  BY <1>0, Zenon DEF createJob, HandlerStep, Mine, Labels, Codes, Refusals, limiter
<1>2. /\ state[r] = "served" /\ pc[r] = "start" /\ pc'[r] = "done"
      /\ \/ code'[r] \in {"400", "403"} /\ touched' = touched
         \/ code'[r] \in {"201", "500"} /\ checkTeamAccess(r)
  BY <1>0, Zenon DEF createJob, Mine, Answer, Goto, Touch, At
<1>3. Changed(r)'
  BY <1>0, <1>1, <1>2, Zenon DEF Mine, HandlerStep, Request, Changed, checkTeamAccess, Refusals
<1>4. Deletes(r)'
  BY <1>0, <1>1, <1>2, Zenon DEF Mine, Request, Changed, Deletes
<1>5. Reads(r)'
  BY <1>0, <1>1, <1>2, ApiAssumption, Zenon DEF Mine, Request, Changed, Reads
<1>. QED
  BY <1>1, <1>3, <1>4, <1>5, HandlerSound DEF Request

\* GetJob starts from the status the row has now.
LEMMA GetRowInv ==
  ASSUME ApiInv, Observe, NEW r \in Requests, getRow(r)
  PROVE  ApiInv'
<1>0. Mine(r)
  BY OwnFacts
<1>1. HandlerStep(r)
  BY <1>0, Zenon DEF getRow, HandlerStep, Mine, Labels, Codes, Refusals, limiter, job
<1>2. /\ state[r] = "served" /\ pc[r] = "start" /\ touched' = touched /\ row' = row
      /\ \/ pc'[r] = "done" /\ code'[r] \in {"404", "500"}
         \/ pc'[r] = "authorize" /\ code'[r] = code[r]
         \/ /\ pc'[r] = "overlay" /\ code'[r] = code[r]
            /\ view'[r] = row[Target[r]] /\ row[Target[r]] # "none"
  BY <1>0, Zenon DEF getRow, Mine, Answer, Goto, Touch, At, job
<1>3. Changed(r)'
  BY <1>0, <1>1, <1>2, Zenon DEF Mine, HandlerStep, Request, Changed, checkTeamAccess, Refusals
<1>4. Deletes(r)'
  BY <1>0, <1>1, <1>2, Zenon DEF Mine, Request, Changed, Deletes
<1>5. Reads(r)'
  BY <1>0, <1>1, <1>2, ApiAssumption, Zenon DEF Mine, Request, Changed, Reads, Current, Observe
<1>. QED
  BY <1>1, <1>3, <1>4, <1>5, HandlerSound DEF Request

\* handleDeleteJob goes on only for the team of the job.
LEMMA AuthorizeInv ==
  ASSUME ApiInv, Observe, NEW r \in Requests, authorize(r)
  PROVE  ApiInv'
<1>0. Mine(r)
  BY OwnFacts
<1>1. HandlerStep(r)
  BY <1>0, Zenon DEF authorize, HandlerStep, Mine, Labels, Codes, Refusals, limiter, job
<1>2. /\ state[r] = "served" /\ pc[r] = "authorize" /\ touched' = touched
      /\ \/ pc'[r] = "load" /\ code'[r] = code[r] /\ checkTeamAccess(r)
         \/ pc'[r] = "done" /\ code'[r] = "403"
  BY <1>0, Zenon DEF authorize, Mine, Answer, Goto, Touch, At, job
<1>3. Changed(r)'
  BY <1>0, <1>1, <1>2, Zenon DEF Mine, HandlerStep, Request, Changed, checkTeamAccess, Refusals
<1>4. Deletes(r)'
  BY <1>0, <1>1, <1>2, Zenon DEF Mine, Request, Changed, Deletes
<1>5. Reads(r)'
  BY <1>0, <1>1, <1>2, ApiAssumption, Zenon DEF Mine, Request, Changed, Reads
<1>. QED
  BY <1>1, <1>3, <1>4, <1>5, HandlerSound DEF Request

\* DeleteJob goes on only with an object, which has a row.
LEMMA LoadInv ==
  ASSUME ApiInv, Observe, NEW r \in Requests, loadObject(r)
  PROVE  ApiInv'
<1>0. Mine(r)
  BY OwnFacts
<1>1. HandlerStep(r)
  BY <1>0, Zenon DEF loadObject, HandlerStep, Mine, Labels, Codes, Refusals, limiter, job
<1>2. /\ state[r] = "served" /\ pc[r] \in {"start", "load"} /\ touched' = touched /\ row' = row
      /\ \/ pc'[r] = "done" /\ code'[r] \in {"404", "500"}
         \/ /\ pc'[r] = "delete" /\ code'[r] = code[r] /\ row[Target[r]] # "none"
            /\ pc[r] = "load" \/ r \in Open
  BY <1>0, Zenon DEF loadObject, Mine, Answer, Goto, Touch, At, job
<1>3. Changed(r)'
  BY <1>0, <1>1, <1>2, Zenon DEF Mine, HandlerStep, Request, Changed, checkTeamAccess, Refusals
<1>4. Deletes(r)'
  BY <1>0, <1>1, <1>2, Zenon DEF Mine, Request, Changed, Deletes
<1>5. Reads(r)'
  BY <1>0, <1>1, <1>2, ApiAssumption, Zenon DEF Mine, Request, Changed, Reads
<1>. QED
  BY <1>1, <1>3, <1>4, <1>5, HandlerSound DEF Request

\* Deleting the object leaves the row to the next call.
LEMMA DeleteInv ==
  ASSUME ApiInv, Observe, NEW r \in Requests, deleteObject(r)
  PROVE  ApiInv'
<1>0. Mine(r)
  BY OwnFacts
<1>1. HandlerStep(r)
  BY <1>0, Zenon DEF deleteObject, HandlerStep, Mine, Labels, Codes, Refusals, limiter
<1>2. /\ state[r] = "served" /\ pc[r] = "delete" /\ row' = row
      /\ \/ pc'[r] = "done" /\ code'[r] = "500"
         \/ pc'[r] = "status" /\ code'[r] = code[r]
  BY <1>0, Zenon DEF deleteObject, Mine, Answer, Goto, Touch, At
<1>3. Changed(r)'
  BY <1>0, <1>1, <1>2, Zenon DEF Mine, HandlerStep, Request, Changed, checkTeamAccess, Refusals
<1>4. Deletes(r)'
  BY <1>0, <1>1, <1>2, Zenon DEF Mine, Request, Changed, Deletes
<1>5. Reads(r)'
  BY <1>0, <1>1, <1>2, ApiAssumption, Zenon DEF Mine, Request, Changed, Reads
<1>. QED
  BY <1>1, <1>3, <1>4, <1>5, HandlerSound DEF Request

\* UpdateStatus finds the row, which is then Cancelled for good.
LEMMA UpdateInv ==
  ASSUME ApiInv, Observe, NEW r \in Requests, updateStatus(r)
  PROVE  ApiInv'
<1>0. Mine(r)
  BY OwnFacts
<1>1. HandlerStep(r)
  BY <1>0, Zenon DEF updateStatus, HandlerStep, Mine, Labels, Codes, Refusals, limiter, Error
<1>2. /\ state[r] = "served" /\ pc[r] = "status"
      /\ pc'[r] = "audit" /\ code'[r] = code[r]
      /\ row'[Target[r]] = row[Target[r]] \/ row'[Target[r]] = "Cancelled"
      /\ errors' = 0 => row[Target[r]] = "none" \/ row'[Target[r]] = "Cancelled"
  <2>1. /\ state[r] = "served" /\ pc[r] = "status"
        /\ pc'[r] = "audit" /\ code'[r] = code[r]
    BY <1>0, Zenon DEF updateStatus, Mine, Goto, At
  <2>2. row'[Target[r]] = row[Target[r]] \/ row'[Target[r]] = "Cancelled"
    BY <1>0, Zenon DEF updateStatus, Mine
  <2>3. errors' = 0 => row[Target[r]] = "none" \/ row'[Target[r]] = "Cancelled"
    BY <1>0, ErrorCounts, Zenon DEF updateStatus, Mine
  <2>. QED
    BY <2>1, <2>2, <2>3
<1>3. Changed(r)'
  BY <1>0, <1>1, <1>2, Zenon DEF Mine, HandlerStep, Request, Changed, checkTeamAccess, Refusals
<1>4. Deletes(r)'
  BY <1>0, <1>1, <1>2, Zenon DEF Mine, Request, Changed, Deletes
<1>5. Reads(r)'
  BY <1>0, <1>1, <1>2, ApiAssumption, Zenon DEF Mine, Request, Changed, Reads
<1>. QED
  BY <1>1, <1>3, <1>4, <1>5, HandlerSound DEF Request

\* DeleteJob answers once both stores have the cancellation.
LEMMA AuditInv ==
  ASSUME ApiInv, Observe, NEW r \in Requests, recordAudit(r)
  PROVE  ApiInv'
<1>0. Mine(r)
  BY OwnFacts
<1>1. HandlerStep(r)
  BY <1>0, Zenon DEF recordAudit, HandlerStep, Mine, Labels, Codes, Refusals, limiter, Error
<1>2. /\ state[r] = "served" /\ pc[r] = "audit" /\ row' = row
      /\ pc'[r] = "done" /\ code'[r] = "204"
      /\ errors' = 0 => errors = 0 /\ Target[r] \in audit'
  <2>1. /\ state[r] = "served" /\ pc[r] = "audit" /\ row' = row
        /\ pc'[r] = "done" /\ code'[r] = "204"
    BY <1>0, Zenon DEF recordAudit, Mine, Answer, At
  <2>2. errors' = 0 => errors = 0 /\ Target[r] \in audit'
    BY <1>0, ErrorCounts DEF recordAudit
  <2>. QED
    BY <2>1, <2>2
<1>3. Changed(r)'
  BY <1>0, <1>1, <1>2, Zenon DEF Mine, HandlerStep, Request, Changed, checkTeamAccess, Refusals
<1>4. Deletes(r)'
  BY <1>0, <1>1, <1>2, Zenon DEF Mine, Request, Changed, Deletes
<1>5. Reads(r)'
  BY <1>0, <1>1, <1>2, ApiAssumption, Zenon DEF Mine, Request, Changed, Reads
<1>. QED
  BY <1>1, <1>3, <1>4, <1>5, HandlerSound DEF Request

\* GetJob answers the phase of the object, or what it read of the row.
LEMMA OverlayInv ==
  ASSUME ApiInv, Observe, NEW r \in Requests, overlay(r)
  PROVE  ApiInv'
<1>. DEFINE j == Target[r]
<1>0. Mine(r) /\ pc[r] = "overlay" /\ state[r] = "served"
  BY OwnFacts DEF overlay, At
<1>1. view[r] \in {"Pending", "Cancelled"} /\ Current(r) /\ status(j) \in seen[r]
  BY <1>0, Zenon DEF Mine, Request, Reads
<1>2. /\ pc'[r] = "done" /\ code'[r] \in {"200", "403"} /\ touched' = touched /\ row' = row
      /\ seen'[r] = seen[r]
  BY <1>0, Zenon DEF overlay, Mine, Answer, job, Observe
<1>3. HandlerStep(r)
  <2>1. overlaid(view[r], cr[j]) \in {"Pending", "Cancelled"} \cup Phases
    BY <1>0, <1>1, Zenon DEF Mine, overlaid
  <2>. QED
    BY <1>0, <2>1, Zenon DEF overlay, HandlerStep, Mine, Codes, Refusals, limiter, job
<1>4. Changed(r)' /\ Deletes(r)'
  BY <1>0, <1>2, <1>3, Zenon DEF Mine, HandlerStep, Request, Changed, Deletes, Refusals
<1>5. errors' = 0 => Answered(r)'
  <2>1. SUFFICES ASSUME errors' = 0 PROVE Answered(r)'
    OBVIOUS
  <2>2. view'[r] = overlaid(view[r], cr[j])
    BY <1>0, <2>1, ErrorCounts, Zenon DEF overlay, Mine
  <2>3. CASE cr[j] \in Phases
    BY <1>1, <1>2, <2>2, <2>3, ApiAssumption, Zenon DEF overlaid, status, Answered
  <2>4. CASE cr[j] \in {"absent", ""}
    <3>1. view'[r] = view[r] /\ row[j] \in seen[r]
      BY <1>1, <2>2, <2>4, ApiAssumption, Zenon DEF overlaid, status
    <3>. QED
      BY <1>1, <1>2, <3>1 DEF Answered, Current
  <2>. QED
    BY <1>0, <2>3, <2>4, Zenon DEF Mine
<1>. QED
  BY <1>2, <1>3, <1>4, <1>5, HandlerSound DEF Request, Reads

-----------------------------------------------------------------------------
\* AuthMiddleware refuses before anything has happened.
LEMMA UnauthorizedInv ==
  ASSUME ApiInv, Observe, NEW r \in Requests, unauthorized(r)
  PROVE  ApiInv'
<1>0. Mine(r) /\ pc[r] = "start"
  BY OwnFacts DEF unauthorized
<1>1. HandlerStep(r) /\ touched' = touched
  BY <1>0, Zenon DEF unauthorized, HandlerStep, Mine, Codes, Refusals, limiter, job
<1>2. pc'[r] = "done" /\ code'[r] = "401"
  BY <1>0, Zenon DEF unauthorized, Mine, Answer
<1>3. Request(r)'
  BY <1>0, <1>1, <1>2, Zenon DEF Mine, Request, Changed, Deletes, Reads
<1>. QED
  BY <1>1, <1>3, HandlerSound

\* The limiter changes the state of no request that is in a handler.
LEMMA LimitInv ==
  ASSUME ApiInv, Observe, NEW r \in Requests, limit(r)
  PROVE  ApiInv'
<1>1. UNCHANGED <<row, cr, deleting, audit, pc, view, code, touched, errors>>
  BY DEF limit, job, handler
<1>2. /\ state[r] \in {"new", "allow"}
      /\ \E x \in States : state' = [state EXCEPT ![r] = x]
  BY DEF limit, pass, lookup, take, States
<1>3. state \in [Requests -> States] /\ ApiTypeOK
  BY DEF ApiInv
<1>4. ApiTypeOK' /\ Onward /\ state' \in [Requests -> States]
  <2>1. ApiTypeOK'
    BY <1>1, <1>3, Zenon DEF ApiTypeOK
  <2>2. Onward
    BY <1>1, Zenon DEF Onward
  <2>3. state' \in [Requests -> States]
    BY <1>2, <1>3
  <2> QED
    BY <2>1, <2>2, <2>3
<1>5. \A q \in Requests : Waiting(q)
  BY <1>1, <1>2, <1>3 DEF Waiting
<1>. QED
  BY <1>1, <1>4, <1>5, WaitingSound DEF ApiInv

\* The consumer and the reconciler leave rows and requests alone.
LEMMA JobInv ==
  ASSUME ApiInv, Observe, NEW j \in Jobs, Created(j) \/ PhaseChanges(j) \/ Finalized(j)
  PROVE  ApiInv'
<1>1. UNCHANGED <<row, audit, pc, view, code, touched, errors, state>>
  BY Zenon DEF Created, PhaseChanges, Finalized, handler, limiter
<1>2. /\ cr \in [Jobs -> {"absent", ""} \cup Phases] /\ deleting \subseteq Jobs
      /\ \A k \in Jobs : cr[k] # "absent" => row[k] # "none"
  BY Zenon DEF ApiInv, ApiTypeOK
<1>3. /\ deleting' \subseteq Jobs
      /\ \E p \in {"absent", ""} \cup Phases : cr' = [cr EXCEPT ![j] = p]
      /\ row[j] # "none" \/ cr' = [cr EXCEPT ![j] = "absent"]
  BY <1>2, Zenon DEF Created, PhaseChanges, Finalized
<1>4. /\ cr' \in [Jobs -> {"absent", ""} \cup Phases]
      /\ \A k \in Jobs : cr'[k] # "absent" => row'[k] # "none"
  BY <1>1, <1>2, <1>3, Zenon
<1>5. ApiTypeOK' /\ Onward /\ state' \in [Requests -> States]
  BY <1>1, <1>3, <1>4, Zenon DEF ApiInv, ApiTypeOK, Onward
<1>6. \A q \in Requests : Waiting(q)
  BY <1>1 DEF Waiting
<1>. QED
  BY <1>4, <1>5, <1>6, WaitingSound, Zenon DEF ApiInv

\* Time changes nothing but buckets, and no step changes nothing at all.
LEMMA RefillInv ==
  ASSUME ApiInv, Observe, Refill
  PROVE  ApiInv'
<1>1. UNCHANGED <<row, cr, deleting, audit, pc, view, code, touched, errors, state>>
  BY DEF Refill, Tick, handler, job
<1>2. ApiTypeOK' /\ Onward /\ \A q \in Requests : Waiting(q)
  BY <1>1, Zenon DEF ApiInv, ApiTypeOK, Onward, Waiting
<1>. QED
  BY <1>1, <1>2, WaitingSound DEF ApiInv

-----------------------------------------------------------------------------
\* The invariant holds in every state of the server.
LEMMA ApiInvHolds == ApiSpec => []ApiInv
<1>1. ApiInit => ApiInv
  <2>1. ASSUME ApiInit PROVE ApiTypeOK /\ state \in [Requests -> States]
    <3>1. errors \in 0 .. MaxErrors
      <4>1. errors = 0 /\ MaxErrors \in Nat
        BY <2>1, ApiAssumption, Zenon DEF ApiInit
      <4>. QED
        BY <4>1
    <3>2. /\ pc \in [Requests -> Labels] /\ code \in [Requests -> Codes]
          /\ state \in [Requests -> States]
      BY <2>1 DEF ApiInit, Init, Labels, Codes, States
    <3>. QED
      BY <2>1, <3>1, <3>2 DEF ApiInit, ApiTypeOK, Labels, Codes
  <2>2. ASSUME ApiInit, NEW r \in Requests PROVE Request(r)
    BY <2>2 DEF ApiInit, Request, Changed, Deletes, Reads
  <2>. QED
    BY <2>1, <2>2 DEF ApiInv, ApiInit
<1>2. ApiInv /\ [ApiNext]_apiVars => ApiInv'
  <2>. SUFFICES ASSUME ApiInv, [ApiNext]_apiVars PROVE ApiInv'
    OBVIOUS
  <2>1. ASSUME NEW r \in Requests, Handle(r), Observe PROVE ApiInv'
    BY <2>1, CreateInv, GetRowInv, OverlayInv, AuthorizeInv, LoadInv, DeleteInv, UpdateInv,
       AuditInv DEF Handle
  <2>2. CASE UNCHANGED apiVars
    BY <2>2, Zenon DEF apiVars, limiter, job, handler, ApiInv, ApiTypeOK, Request, Changed, Deletes,
                Reads, Current, Answered, status, checkTeamAccess
  <2>. QED
    BY <2>1, <2>2, UnauthorizedInv, LimitInv, JobInv, RefillInv DEF ApiNext
<1>. QED
  BY <1>1, <1>2, PTL DEF ApiSpec

\* Every variable of the server keeps its type, for any requests, jobs and errors.
THEOREM ServerTyped == ApiSpec => []ApiTypeOK
<1>1. ApiInv => ApiTypeOK
  BY Zenon DEF ApiInv
<1>. QED
  BY <1>1, ApiInvHolds, PTL

\* AuthMiddleware, the limiter and the handlers: a request that is refused has
\* changed no table and no object.
THEOREM RefusalIsClean == ApiSpec => []RefusedChangesNothing
<1>1. ApiInv => RefusedChangesNothing
  BY Zenon DEF ApiInv, ApiTypeOK, Request, Changed, RefusedChangesNothing
<1>. QED
  BY <1>1, ApiInvHolds, PTL

\* checkTeamAccess: a request with a token changes only what its team owns.
THEOREM TeamsAreApart == ApiSpec => []OwnTeamOnly
<1>1. ApiInv => OwnTeamOnly
  BY Zenon DEF ApiInv, ApiTypeOK, Request, Changed, OwnTeamOnly, checkTeamAccess
<1>. QED
  BY <1>1, ApiInvHolds, PTL

\* GetJob: its two reads give a status that the job had between them, or the
\* Pending of a row that was cancelled meanwhile.
THEOREM AnswersAreTrue == ApiSpec => []AnswerWasTrue
<1>1. ApiInv => AnswerWasTrue
  BY SMTT(30) DEF ApiInv, Request, Reads, Answered, AnswerWasTrue
<1>. QED
  BY <1>1, ApiInvHolds, PTL

\* DeleteJob: without failing calls, a 204 means that the table and the audit log
\* both have the cancellation.
THEOREM CancelLeavesMarks == ApiSpec => []CancelIsRecorded
<1>1. ApiInv => CancelIsRecorded
  BY DEF ApiInv, Request, Deletes, CancelIsRecorded
<1>. QED
  BY <1>1, ApiInvHolds, PTL
=============================================================================
