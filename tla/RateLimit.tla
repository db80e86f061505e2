------------------------------ MODULE RateLimit ------------------------------
(***************************************************************************)
(* The per-team token buckets in front of the API (internal/api/           *)
(* ratelimit.go).  Requests run concurrently; the mutex covers the lookup  *)
(* of a team's bucket and not the taking of a token.  A bucket is named    *)
(* after the request that made it.                                         *)
(***************************************************************************)
EXTENDS Naturals

CONSTANTS
  Requests, Teams,
  TeamOf,        \* the team AuthMiddleware found, or NoTeam
  NoTeam, NoBucket,
  Rps, Burst,    \* tokens per unit of time, and the size of a bucket
  MaxTime        \* bound

ASSUME RateAssumption ==
  /\ TeamOf \in [Requests -> Teams \cup {NoTeam}] /\ NoTeam \notin Teams
  /\ NoBucket \notin Requests
  /\ Rps \in Nat /\ Burst \in Nat /\ MaxTime \in Nat

VARIABLES
  limiters,  \* the map from teams to buckets
  tokens,    \* what is in each bucket
  lim,       \* the bucket a request looked up
  state,     \* where a request is
  allowed,   \* history: requests of a team let through
  now

vars == <<limiters, tokens, lim, state, allowed, now>>

Init ==
  /\ limiters = [t \in Teams |-> NoBucket]
  /\ tokens = [r \in Requests |-> 0]
  /\ lim = [r \in Requests |-> NoBucket]
  /\ state = [r \in Requests |-> "new"]
  /\ allowed = [t \in Teams |-> 0]
  /\ now = 0

-----------------------------------------------------------------------------
\* Middleware: without a team the request passes.
pass(r) ==
  /\ state[r] = "new" /\ TeamOf[r] = NoTeam
  /\ state' = [state EXCEPT ![r] = "served"]
  /\ UNCHANGED <<limiters, tokens, lim, allowed, now>>

\* Mutations: the map is not asked first; one bucket serves all teams.
lookupAlwaysNew(r) ==
  /\ state[r] = "new" /\ TeamOf[r] # NoTeam
  /\ limiters' = [limiters EXCEPT ![TeamOf[r]] = r]
  /\ tokens' = [tokens EXCEPT ![r] = Burst]
  /\ lim' = [lim EXCEPT ![r] = r] /\ state' = [state EXCEPT ![r] = "allow"]
  /\ UNCHANGED <<allowed, now>>
lookupShared(r) ==
  /\ state[r] = "new" /\ TeamOf[r] # NoTeam
  /\ \/ /\ limiters[TeamOf[r]] = NoBucket
        /\ limiters' = [t \in Teams |-> r]
        /\ tokens' = [tokens EXCEPT ![r] = Burst]
        /\ lim' = [lim EXCEPT ![r] = r]
     \/ /\ limiters[TeamOf[r]] # NoBucket
        /\ lim' = [lim EXCEPT ![r] = limiters[TeamOf[r]]]
        /\ UNCHANGED <<limiters, tokens>>
  /\ state' = [state EXCEPT ![r] = "allow"] /\ UNCHANGED <<allowed, now>>

\* allow, under the mutex: find the team's bucket or make a full one.
lookup(r) ==
  LET t == TeamOf[r]
  IN  /\ state[r] = "new" /\ t # NoTeam
      /\ \/ /\ limiters[t] = NoBucket
            /\ limiters' = [limiters EXCEPT ![t] = r]
            /\ tokens' = [tokens EXCEPT ![r] = Burst]
            /\ lim' = [lim EXCEPT ![r] = r]
         \/ /\ limiters[t] # NoBucket
            /\ lim' = [lim EXCEPT ![r] = limiters[t]]
            /\ UNCHANGED <<limiters, tokens>>
      /\ state' = [state EXCEPT ![r] = "allow"]
      /\ UNCHANGED <<allowed, now>>

\* allow, after the mutex: take a token, or answer 429.
take(r) ==
  /\ state[r] = "allow"
  /\ \/ /\ tokens[lim[r]] > 0
        /\ tokens' = [tokens EXCEPT ![lim[r]] = @ - 1]
        /\ allowed' = [allowed EXCEPT ![TeamOf[r]] = @ + 1]
        /\ state' = [state EXCEPT ![r] = "served"]
     \/ /\ tokens[lim[r]] = 0
        /\ state' = [state EXCEPT ![r] = "rejected"]
        /\ UNCHANGED <<tokens, allowed>>
  /\ UNCHANGED <<limiters, lim, now>>

\* Time passes and the buckets fill up (one not made yet is filled by lookup).
refilled(n) == IF n + Rps > Burst THEN Burst ELSE n + Rps
Tick ==
  /\ now < MaxTime /\ now' = now + 1
  /\ tokens' = [r \in Requests |-> refilled(tokens[r])]
  /\ UNCHANGED <<limiters, lim, state, allowed>>

Next == Tick \/ \E r \in Requests : pass(r) \/ lookup(r) \/ take(r)

Spec == Init /\ [][Next]_vars

-----------------------------------------------------------------------------
\* Every variable keeps its type.
TypeOK ==
  /\ limiters \in [Teams -> Requests \cup {NoBucket}]
  /\ tokens \in [Requests -> Nat]
  /\ lim \in [Requests -> Requests \cup {NoBucket}]
  /\ state \in [Requests -> {"new", "allow", "served", "rejected"}]
  /\ allowed \in [Teams -> Nat] /\ now \in Nat

\* The limit holds per team: however its requests interleave, no more of them
\* pass than one full bucket and what time added.
BudgetKept == \A t \in Teams : allowed[t] <= Burst + Rps * now

\* perTeamLimiter's comment: another team's burst takes nothing from a team's
\* budget.  A request is rejected only when a full burst of its own team's
\* requests passed before.
BurstIsOwn ==
  \A r \in Requests : state[r] = "rejected" => allowed[TeamOf[r]] >= Burst
=============================================================================
