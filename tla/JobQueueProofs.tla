--------------------------- MODULE JobQueueProofs ---------------------------
(***************************************************************************)
(* Proofs about JobQueue for any number of messages, teams, deliveries and *)
(* errors, any batch size and any length of a listing.                     *)
(*                                                                         *)
(* The order of one batch is interleaveByKey's (FairShareProofs).  Across  *)
(* batches it matters where a message is: one that was never delivered is  *)
(* in fresh, behind all that were, so the first deliveries in a batch are  *)
(* the oldest of their team.                                               *)
(***************************************************************************)
EXTENDS JobQueue, FairShareProofs, SequenceTheorems

\* The bounds are numbers.
LEMMA Bounds ==
  /\ MaxMessages \in Nat /\ MaxErrors \in Nat /\ BatchSize \in Nat /\ BatchSize > 0
  /\ MaxDeliver \in Nat /\ MaxDeliver > 0 /\ Limit \in Nat /\ Limit > 0
<1>1. /\ MaxMessages \in Nat /\ MaxErrors \in Nat
      /\ BatchSize \in Nat \ {0} /\ MaxDeliver \in Nat \ {0} /\ Limit \in Nat \ {0}
  BY QueueAssumption, Zenon
<1>. QED
  BY <1>1

-----------------------------------------------------------------------------
(* The inductive invariant.                                                *)

Distinct(s) == \A k, l \in 1 .. Len(s) : s[k].id = s[l].id => k = l
Apart(s, t) == \A k \in 1 .. Len(s), l \in 1 .. Len(t) : s[k].id # t[l].id
Waiting(s) == \A k \in 1 .. Len(s) : s[k].id \in 1 .. Len(fate) /\ fate[s[k].id] = "none"
In(i, s) == \E k \in 1 .. Len(s) : s[k].id = i

\* A message that waits is in exactly one place.
Once ==
  /\ Distinct(fresh) /\ Distinct(again) /\ Distinct(todo)
  /\ Apart(fresh, again) /\ Apart(fresh, todo) /\ Apart(again, todo)
  /\ Waiting(fresh) /\ Waiting(again) /\ Waiting(todo)
  /\ \A i \in 1 .. Len(fate) :
       fate[i] = "none" => In(i, fresh) \/ In(i, again) \/ In(i, todo)

\* How often the messages in each place were delivered.
Counted ==
  /\ \A k \in 1 .. Len(fresh) : fresh[k].nd = 0
  /\ \A k \in 1 .. Len(again) : again[k].nd > 0 /\ again[k].nd < MaxDeliver
  /\ \A k \in 1 .. Len(todo) : todo[k].nd > 0

\* First deliveries are in order of arrival, within a team and before the fresh.
Arrivals ==
  /\ \A k, l \in 1 .. Len(fresh) : k < l => fresh[k].id < fresh[l].id
  /\ \A k \in 1 .. Len(todo), l \in 1 .. Len(fresh) :
       todo[k].nd = 1 => todo[k].id < fresh[l].id
  /\ \A k, l \in 1 .. Len(todo) :
       k < l /\ todo[k].nd = 1 /\ todo[l].nd = 1 /\ todo[k].team = todo[l].team =>
         todo[k].id < todo[l].id

\* A listing under way can still find all it must show.
Peeked ==
  IF peek.on
  THEN /\ peek.out \in Seq(Message)
       /\ \A i \in peek.must : \E k \in 1 .. Len(dlq) : dlq[k].id = i
  ELSE PeekMissesNothing

Lines == Once /\ Counted /\ Arrivals /\ RoundRobin
IInv == TypeOK /\ Lines /\ Peeked

-----------------------------------------------------------------------------
(* What the steps do to the places.                                        *)

\* The types, one by one.
LEMMA Types ==
  ASSUME TypeOK
  PROVE  /\ fate \in Seq(Fates) /\ errors \in 0 .. MaxErrors
         /\ fresh \in Seq(Message) /\ again \in Seq(Message)
         /\ todo \in Seq(Message) /\ dlq \in Seq(Message)
         /\ Len(fate) \in Nat /\ Len(fresh) \in Nat /\ Len(again) \in Nat
         /\ Len(todo) \in Nat /\ Len(dlq) \in Nat
BY DEF TypeOK

\* Numbers and deliveries are numbers.
LEMMA Messages ==
  \A m \in Message : m.id \in Nat /\ m.nd \in Nat
BY Bounds DEF Message, Ids

\* Publish appends one waiting message, with the next number, to fresh.
LEMMA PublishLines ==
  ASSUME IInv, NEW t \in Teams, Publish(t)
  PROVE  TypeOK' /\ Lines'
<1>. DEFINE m == [id |-> Len(fate) + 1, team |-> t, nd |-> 0]
<1>. TypeOK /\ Once /\ Counted /\ Arrivals /\ RoundRobin
  BY DEF IInv, Lines
<1>0. /\ fate \in Seq(Fates) /\ fresh \in Seq(Message) /\ Len(fate) \in Nat
      /\ Len(fresh) \in Nat /\ Len(fate) < MaxMessages /\ MaxMessages \in Nat
  BY Types, Bounds DEF Publish
<1>1. m \in Message /\ m.id = Len(fate) + 1 /\ m.nd = 0
  BY <1>0, Bounds DEF Message, Ids
<1>. HIDE DEF m
<1>2. /\ fate' = Append(fate, "none") /\ fresh' = Append(fresh, m)
      /\ UNCHANGED <<again, todo, dlq, peek, errors>>
  BY DEF Publish, m
<1>3. /\ Len(fate') = Len(fate) + 1 /\ fate'[Len(fate) + 1] = "none"
      /\ \A i \in 1 .. Len(fate) : fate'[i] = fate[i]
      /\ fate' \in Seq(Fates)
  BY <1>0, <1>2 DEF Fates
<1>4. /\ Len(fresh') = Len(fresh) + 1 /\ fresh'[Len(fresh) + 1] = m
      /\ \A i \in 1 .. Len(fresh) : fresh'[i] = fresh[i]
      /\ fresh' \in Seq(Message)
  BY <1>0, <1>1, <1>2
<1>5. TypeOK'
  BY <1>2, <1>3, <1>4 DEF TypeOK
<1>6. \A k \in 1 .. Len(fresh') : k \in 1 .. Len(fresh) \/ k = Len(fresh) + 1
  BY <1>0, <1>4
<1>7. Once'
  <2>1. /\ \A k \in 1 .. Len(fresh) : fresh[k].id \in 1 .. Len(fate) /\ fate[fresh[k].id] = "none"
        /\ \A k \in 1 .. Len(again) : again[k].id \in 1 .. Len(fate) /\ fate[again[k].id] = "none"
        /\ \A k \in 1 .. Len(todo) : todo[k].id \in 1 .. Len(fate) /\ fate[todo[k].id] = "none"
    BY DEF Once, Waiting
  <2>2. Distinct(fresh') /\ Distinct(again') /\ Distinct(todo')
    <3>1. ASSUME NEW k \in 1 .. Len(fresh'), NEW l \in 1 .. Len(fresh'),
                 fresh'[k].id = fresh'[l].id
          PROVE  k = l
      <4>1. \A j \in 1 .. Len(fresh) : fresh'[j].id # Len(fate) + 1
        BY <1>0, <1>4, <2>1
      <4>. QED
        BY <1>1, <1>4, <1>6, <3>1, <4>1 DEF Once, Distinct
    <3>. QED
      BY <1>2, <3>1 DEF Once, Distinct
  <2>3. Apart(fresh', again') /\ Apart(fresh', todo') /\ Apart(again', todo')
    <3>1. Apart(fresh', again)
      BY <1>0, <1>1, <1>4, <1>6, <2>1 DEF Once, Apart
    <3>2. Apart(fresh', todo)
      BY <1>0, <1>1, <1>4, <1>6, <2>1 DEF Once, Apart
    <3>. QED
      BY <1>2, <3>1, <3>2 DEF Once
  <2>4. Waiting(fresh)' /\ Waiting(again)' /\ Waiting(todo)'
    BY <1>0, <1>1, <1>2, <1>3, <1>4, <1>6, <2>1 DEF Waiting
  <2>5. ASSUME NEW i \in 1 .. Len(fate'), fate'[i] = "none"
        PROVE  In(i, fresh') \/ In(i, again') \/ In(i, todo')
    <3>1. CASE i = Len(fate) + 1
      BY <1>0, <1>1, <1>4, <3>1 DEF In
    <3>2. CASE i \in 1 .. Len(fate)
      <4>1. In(i, fresh) \/ In(i, again) \/ In(i, todo)
        BY <1>3, <2>5, <3>2 DEF Once
      <4>2. In(i, fresh) => In(i, fresh')
        BY <1>0, <1>4 DEF In
      <4>. QED
        BY <1>2, <4>1, <4>2
    <3>. QED
      BY <1>0, <1>3, <3>1, <3>2
  <2>. QED
    BY <2>2, <2>3, <2>4, <2>5 DEF Once, Distinct, Apart, In
<1>8. Counted'
  BY <1>0, <1>1, <1>2, <1>4, <1>6 DEF Counted
<1>9. Arrivals'
  <2>1. /\ \A k \in 1 .. Len(fresh) : fresh[k].id \in Nat /\ fresh[k].id < Len(fate) + 1
        /\ \A k \in 1 .. Len(todo) : todo[k].id \in Nat /\ todo[k].id < Len(fate) + 1
    BY <1>0 DEF Once, Waiting
  <2>. QED
    BY <1>0, <1>1, <1>2, <1>4, <1>6, <2>1 DEF Arrivals
<1>10. RoundRobin'
  BY <1>2 DEF RoundRobin
<1>. QED
  BY <1>5, <1>7, <1>8, <1>9, <1>10 DEF Lines

\* fetch takes the first c messages to redeliver and the first d fresh ones, counts
\* the delivery, and puts them in the order q, which is fair.
Takes(c, d, q) ==
  LET source(k) == IF q[k] <= c THEN again[q[k]] ELSE fresh[q[k] - c]
  IN /\ c \in 0 .. Len(again) /\ d \in 0 .. Len(fresh) /\ Permutes(q, c + d)
     /\ Len(again') = Len(again) - c
     /\ \A k \in 1 .. Len(again) - c : again'[k] = again[k + c]
     /\ Len(fresh') = Len(fresh) - d
     /\ \A k \in 1 .. Len(fresh) - d : fresh'[k] = fresh[k + d]
     /\ Len(todo') = c + d
     /\ \A k \in 1 .. c + d : /\ todo'[k].id = source(k).id
                              /\ todo'[k].team = source(k).team
                              /\ todo'[k].nd = source(k).nd + 1
     /\ \A k, l \in 1 .. c + d : todo'[k].team = todo'[l].team /\ q[k] < q[l] => k < l
LEMMA FetchTakes ==
  ASSUME IInv, fetch
  PROVE  /\ \E c, d, q : Takes(c, d, q)
         /\ TypeOK' /\ RoundRobin' /\ UNCHANGED <<fate, dlq, peek, errors>>
<1>. DEFINE ready == again \o fresh
            n == IF Len(ready) < BatchSize THEN Len(ready) ELSE BatchSize
            b == [i \in 1 .. n |-> [ready[i] EXCEPT !.nd = @ + 1]]
            key == [m \in Range(b) |-> m.team]
            A == Len(again)
            F == Len(fresh)
            c == IF n > A THEN A ELSE n
            d == n - c
<1>. TypeOK /\ Once /\ Counted
  BY DEF IInv, Lines
<1>0. /\ fresh \in Seq(Message) /\ again \in Seq(Message) /\ F \in Nat /\ A \in Nat
  BY Types
<1>1. /\ todo' = interleaveByKey(b, key)
      /\ again' = SubSeq(again, n + 1, A)
      /\ fresh' = SubSeq(fresh, IF n > A THEN n - A + 1 ELSE 1, F)
      /\ UNCHANGED <<fate, dlq, peek, errors>>
  BY DEF fetch, interleaved
<1>2. /\ Len(ready) = A + F
      /\ \A i \in 1 .. A + F : /\ ready[i] = IF i <= A THEN again[i] ELSE fresh[i - A]
                               /\ ready[i] \in Message
  BY <1>0, ConcatProperties
<1>3. n \in 0 .. A + F
  BY <1>0, <1>2, Bounds
<1>4. \A i \in 1 .. n : /\ ready[i] \in Message /\ ready[i].nd < MaxDeliver
                        /\ ready[i] = IF i <= c THEN again[i] ELSE fresh[i - c]
  <2>1. \A i \in 1 .. n : i \in 1 .. A + F
    BY <1>0, <1>3
  <2>2. \A i \in 1 .. A + F : ready[i].nd < MaxDeliver
    BY <1>0, <1>2, Bounds DEF Counted
  <2>3. \A i \in 1 .. n : (i <= A <=> i <= c) /\ (i > A => A = c)
    BY <1>0, <1>3
  <2>. HIDE DEF n, c, ready, A, F
  <2>. SUFFICES ASSUME NEW i \in 1 .. n
                PROVE  /\ ready[i] \in Message /\ ready[i].nd < MaxDeliver
                       /\ ready[i] = IF i <= c THEN again[i] ELSE fresh[i - c]
    OBVIOUS
  <2>4. /\ ready[i] \in Message /\ ready[i].nd < MaxDeliver
        /\ ready[i] = IF i <= A THEN again[i] ELSE fresh[i - A]
    BY <1>2, <2>1, <2>2, Zenon
  <2>5. i \in Int /\ A \in Int
    BY <1>0, <2>1
  <2>6. (i <= A <=> i <= c) /\ (~(i <= A) => A = c)
    BY <2>3, <2>5
  <2>. QED
    BY <2>4, <2>6, Zenon
<1>5. /\ DOMAIN b = 1 .. n /\ n \in Nat
      /\ \A i \in 1 .. n : /\ b[i] \in Message /\ b[i].id = ready[i].id
                           /\ b[i].team = ready[i].team /\ b[i].nd = ready[i].nd + 1
                           /\ key[b[i]] = b[i].team
  <2>0. DOMAIN b = 1 .. n /\ n \in Nat
    BY <1>0, <1>3
  <2>1. ASSUME NEW i \in 1 .. n
        PROVE  /\ b[i] \in Message /\ b[i].id = ready[i].id
               /\ b[i].team = ready[i].team /\ b[i].nd = ready[i].nd + 1
    <3>1. b[i] = [ready[i] EXCEPT !.nd = @ + 1] /\ ready[i] \in Message /\ ready[i].nd < MaxDeliver
      BY <1>4, Zenon
    <3>. HIDE DEF b, ready
    <3>. QED
      BY <3>1, Bounds DEF Message
  <2>2. ASSUME NEW i \in 1 .. n PROVE key[b[i]] = b[i].team
    <3>1. b[i] \in Range(b)
      <4>. HIDE DEF b
      <4>. QED
        BY <2>0 DEF Range
    <3>. QED
      BY <3>1, Zenon
  <2>. HIDE DEF b, key, n, ready
  <2>. QED
    BY <2>0, <2>1, <2>2
<1>6. PICK q : FairOrder(b, key, n, q) /\ todo' = [k \in 1 .. n |-> b[q[k]]]
  <2>. HIDE DEF b, key, n
  <2>. QED
    BY <1>1, <1>5, InterleavingIsFair
<1>7. Permutes(q, n) /\ \A k \in 1 .. n : q[k] \in 1 .. n
  BY <1>6, Zenon DEF FairOrder, Permutes
<1>8. todo' \in Seq(Message) /\ Len(todo') = n
  <2>. HIDE DEF b, n
  <2>1. \A k \in 1 .. n : b[q[k]] \in Message
    BY <1>5, <1>7, Zenon
  <2>2. [k \in 1 .. n |-> b[q[k]]] \in Seq(Message)
    BY <1>5, <2>1, IsASeq
  <2>. QED
    BY <1>5, <1>6, <2>2
<1>9. /\ again' \in Seq(Message) /\ Len(again') = A - c
      /\ \A k \in 1 .. A - c : again'[k] = again[k + c]
  <2>1. \A i \in n + 1 .. A : again[i] \in Message
    BY <1>0, <1>3
  <2>2. n + 1 \in Int /\ A \in Int /\ n \in Nat
    BY <1>0, <1>3
  <2>. HIDE DEF n, A
  <2>3. /\ again' \in Seq(Message)
        /\ Len(again') = IF n + 1 <= A THEN A - (n + 1) + 1 ELSE 0
        /\ \A i \in 1 .. A - (n + 1) + 1 : again'[i] = again[n + 1 + i - 1]
    <3>1. again' = SubSeq(again, n + 1, A)
      BY <1>1 DEF n, A
    <3>2. /\ SubSeq(again, n + 1, A) \in Seq(Message)
          /\ Len(SubSeq(again, n + 1, A)) = IF n + 1 <= A THEN A - (n + 1) + 1 ELSE 0
          /\ \A i \in 1 .. A - (n + 1) + 1 : SubSeq(again, n + 1, A)[i] = again[n + 1 + i - 1]
      BY <2>1, <2>2, SubSeqProperties
    <3>. QED
      BY <3>1, <3>2, Zenon
  <2>. QED
    BY <2>2, <2>3
<1>10. /\ fresh' \in Seq(Message) /\ Len(fresh') = F - d
       /\ \A k \in 1 .. F - d : fresh'[k] = fresh[k + d]
  <2>0. A \in Nat /\ F \in Nat /\ n \in Nat /\ n <= A + F
    BY <1>0, <1>3
  <2>1. \A i \in d + 1 .. F : fresh[i] \in Message
    BY <1>0, <1>3
  <2>. HIDE DEF n, A, F
  <2>a. d \in 0 .. F /\ d + 1 = IF n > A THEN n - A + 1 ELSE 1
    BY <2>0
  <2>2. d \in 0 .. F /\ d + 1 \in Int /\ F \in Int /\ fresh' = SubSeq(fresh, d + 1, F)
    <3>. HIDE DEF d
    <3>1. fresh' = SubSeq(fresh, d + 1, F)
      BY <1>1, <2>a, Zenon
    <3>. QED
      BY <2>0, <2>a, <3>1
  <2>. HIDE DEF d
  <2>3. /\ fresh' \in Seq(Message)
        /\ Len(fresh') = IF d + 1 <= F THEN F - (d + 1) + 1 ELSE 0
        /\ \A i \in 1 .. F - (d + 1) + 1 : fresh'[i] = fresh[d + 1 + i - 1]
    BY <2>1, <2>2, SubSeqProperties
  <2>. QED
    BY <2>2, <2>3
<1>11. TypeOK'
  BY <1>1, <1>8, <1>9, <1>10, Zenon DEF TypeOK
<1>12. /\ c \in 0 .. A /\ d \in 0 .. F /\ c + d = n
  BY <1>0, <1>3
<1>13. \A k \in 1 .. n : todo'[k] = b[q[k]] /\ key[b[q[k]]] = todo'[k].team
  <2>. HIDE DEF b, n, key
  <2>. QED
    BY <1>5, <1>6, <1>7
<1>14. RoundRobin'
  <2>. HIDE DEF b, n, key
  <2>1. \A i, k, l \in 1 .. n :
          i < k /\ k < l /\ key[b[q[i]]] = key[b[q[k]]] =>
            \E x \in i .. k : key[b[q[x]]] = key[b[q[l]]]
    BY <1>6 DEF FairOrder
  <2>2. \A i, k \in 1 .. n : \A x \in i .. k : x \in 1 .. n
    BY <1>5
  <2>3. DOMAIN todo' = 1 .. n
    BY <1>8
  <2>. QED
    BY <1>13, <2>1, <2>2, <2>3 DEF RoundRobin
<1>15. Takes(c, d, q)
  <2>1. \A k \in 1 .. n : /\ todo'[k].id = ready[q[k]].id /\ todo'[k].team = ready[q[k]].team
                          /\ todo'[k].nd = ready[q[k]].nd + 1
                          /\ ready[q[k]] = IF q[k] <= c THEN again[q[k]] ELSE fresh[q[k] - c]
    <3>. HIDE DEF b, n, key, c, ready
    <3>. QED
      BY <1>4, <1>5, <1>7, <1>13
  <2>2. \A k, l \in 1 .. n : todo'[k].team = todo'[l].team /\ q[k] < q[l] => k < l
    <3>. HIDE DEF b, n, key
    <3>. QED
      BY <1>6, <1>13 DEF FairOrder
  <2>. HIDE DEF b, n, key, c, d, ready
  <2>. QED
    BY <1>7, <1>8, <1>9, <1>10, <1>12, <2>1, <2>2, Zenon DEF Takes
<1>. HIDE DEF c, d
<1>. QED
  BY <1>1, <1>11, <1>14, <1>15

\* fetch moves messages and counts their delivery, and that is all.
LEMMA FetchLines ==
  ASSUME IInv, fetch
  PROVE  TypeOK' /\ Lines' /\ UNCHANGED <<dlq, peek>>
<1>. TypeOK /\ Once /\ Counted /\ Arrivals
  BY DEF IInv, Lines
<1>a. /\ Len(again) \in Nat /\ Len(fresh) \in Nat /\ todo = <<>>
      /\ \A k \in 1 .. Len(fresh) : fresh[k].id \in Nat
  <2>1. /\ Len(again) \in Nat /\ Len(fresh) \in Nat /\ fresh \in Seq(Message)
    BY Types
  <2>2. todo = <<>>
    BY DEF fetch
  <2>3. \A k \in 1 .. Len(fresh) : fresh[k] \in Message
    BY <2>1
  <2>. QED
    BY <2>1, <2>2, <2>3, Messages
<1>0. PICK c, d, q : Takes(c, d, q)
  BY FetchTakes
<1>. DEFINE s(k) == IF q[k] <= c THEN again[q[k]] ELSE fresh[q[k] - c]
            n == c + d
<1>1. /\ c \in 0 .. Len(again) /\ d \in 0 .. Len(fresh) /\ n \in Nat
      /\ Len(again') = Len(again) - c /\ Len(fresh') = Len(fresh) - d /\ Len(todo') = n
      /\ Len(again') \in Nat /\ Len(fresh') \in Nat
  BY <1>0, <1>a DEF Takes
<1>2. /\ \A k \in 1 .. Len(again') : again'[k] = again[k + c] /\ k + c \in c + 1 .. Len(again)
      /\ \A k \in 1 .. Len(fresh') : fresh'[k] = fresh[k + d] /\ k + d \in d + 1 .. Len(fresh)
  BY <1>0, <1>1, <1>a DEF Takes
<1>b. /\ \A k \in 1 .. Len(again') : again'[k] = again[k + c] /\ k + c \in 1 .. Len(again)
      /\ \A k \in 1 .. Len(fresh') : fresh'[k] = fresh[k + d] /\ k + d \in 1 .. Len(fresh)
  <2>1. \A j \in c + 1 .. Len(again) : j \in 1 .. Len(again)
    BY <1>1, <1>a
  <2>2. \A j \in d + 1 .. Len(fresh) : j \in 1 .. Len(fresh)
    BY <1>1, <1>a
  <2>. QED
    BY <1>2, <2>1, <2>2, Zenon
<1>3. \A k \in 1 .. n : /\ todo'[k].id = s(k).id /\ todo'[k].team = s(k).team
                        /\ todo'[k].nd = s(k).nd + 1 /\ q[k] \in 1 .. n
  BY <1>0, Zenon DEF Takes, Permutes
<1>4. \A k \in 1 .. n : \/ q[k] <= c /\ q[k] \in 1 .. Len(again) /\ s(k) = again[q[k]]
                        \/ /\ ~(q[k] <= c) /\ q[k] - c \in 1 .. d
                           /\ q[k] - c \in 1 .. Len(fresh) /\ s(k) = fresh[q[k] - c]
  <2>. SUFFICES ASSUME NEW k \in 1 .. n
                PROVE  \/ q[k] <= c /\ q[k] \in 1 .. Len(again) /\ s(k) = again[q[k]]
                       \/ /\ ~(q[k] <= c) /\ q[k] - c \in 1 .. d
                          /\ q[k] - c \in 1 .. Len(fresh) /\ s(k) = fresh[q[k] - c]
    OBVIOUS
  <2>1. q[k] \in 1 .. c + d
    BY <1>3
  <2>. QED
    BY <1>1, <1>a, <2>1
<1>. HIDE DEF s
<1>5. /\ \A k, l \in 1 .. n : q[k] = q[l] => k = l
      /\ \A i \in 1 .. n : \E k \in 1 .. n : q[k] = i
      /\ \A k, l \in 1 .. n : todo'[k].team = todo'[l].team /\ q[k] < q[l] => k < l
  BY <1>0 DEF Takes, Permutes
<1>6. TypeOK' /\ RoundRobin' /\ UNCHANGED <<fate, dlq, peek>>
  BY FetchTakes
<1>. HIDE DEF n
<1>7. Distinct(fresh') /\ Distinct(again') /\ Apart(fresh', again')
  <2>1. ASSUME NEW k \in 1 .. Len(fresh'), NEW l \in 1 .. Len(fresh'),
               fresh'[k].id = fresh'[l].id
        PROVE  k = l
    <3>0. /\ k + d \in 1 .. Len(fresh) /\ l + d \in 1 .. Len(fresh)
          /\ fresh[k + d].id = fresh[l + d].id
      BY <1>b, <2>1
    <3>1. k + d = l + d
      BY <3>0 DEF Once, Distinct
    <3>. QED
      BY <1>1, <3>1
  <2>2. ASSUME NEW k \in 1 .. Len(again'), NEW l \in 1 .. Len(again'),
               again'[k].id = again'[l].id
        PROVE  k = l
    <3>0. /\ k + c \in 1 .. Len(again) /\ l + c \in 1 .. Len(again)
          /\ again[k + c].id = again[l + c].id
      BY <1>b, <2>2
    <3>1. k + c = l + c
      BY <3>0 DEF Once, Distinct
    <3>. QED
      BY <1>1, <3>1
  <2>3. Apart(fresh', again')
    BY <1>b, Zenon DEF Once, Apart
  <2>. QED
    BY <2>1, <2>2, <2>3, Zenon DEF Distinct
<1>8. Distinct(todo')
  <2>. SUFFICES ASSUME NEW k \in 1 .. n, NEW l \in 1 .. n, s(k).id = s(l).id
                PROVE  q[k] = q[l]
    BY <1>1, <1>3, <1>5 DEF Distinct
  <2>1. q[k] \in Nat /\ q[l] \in Nat /\ c \in Nat
    BY <1>1, <1>3
  <2>2. \A x \in 1 .. Len(again), y \in 1 .. Len(fresh) : again[x].id # fresh[y].id
    BY DEF Once, Apart
  <2>3. CASE q[k] <= c /\ q[l] <= c
    BY <1>4, <2>3 DEF Once, Distinct
  <2>4. CASE ~(q[k] <= c) /\ ~(q[l] <= c)
    <3>1. q[k] - c = q[l] - c
      BY <1>4, <2>4 DEF Once, Distinct
    <3>. QED
      BY <2>1, <3>1
  <2>. QED
    BY <1>4, <2>2, <2>3, <2>4, SMTT(30)
<1>9. Apart(fresh', todo') /\ Apart(again', todo')
  <2>1. ASSUME NEW k \in 1 .. Len(fresh'), NEW l \in 1 .. n PROVE fresh'[k].id # s(l).id
    <3>1. fresh'[k] = fresh[k + d] /\ k + d \in 1 .. Len(fresh) /\ k + d > d /\ d \in Nat
      BY <1>1, <1>2
    <3>2. CASE q[l] <= c
      BY <1>4, <3>1, <3>2 DEF Once, Apart
    <3>3. CASE ~(q[l] <= c)
      <4>1. s(l) = fresh[q[l] - c] /\ q[l] - c \in 1 .. Len(fresh) /\ q[l] - c \in 1 .. d
        BY <1>4, <3>3
      <4>2. q[l] - c # k + d
        BY <3>1, <4>1
      <4>. QED
        BY <3>1, <4>1, <4>2 DEF Once, Distinct
    <3>. QED
      BY <3>2, <3>3
  <2>2. ASSUME NEW k \in 1 .. Len(again'), NEW l \in 1 .. n PROVE again'[k].id # s(l).id
    <3>1. again'[k] = again[k + c] /\ k + c \in 1 .. Len(again) /\ k + c > c /\ c \in Nat
      BY <1>1, <1>2
    <3>2. CASE ~(q[l] <= c)
      BY <1>4, <3>1, <3>2 DEF Once, Apart
    <3>3. CASE q[l] <= c
      <4>1. s(l) = again[q[l]] /\ q[l] \in 1 .. Len(again)
        BY <1>4, <3>3
      <4>2. q[l] # k + c
        BY <3>1, <3>3, <4>1
      <4>. QED
        BY <3>1, <4>1, <4>2 DEF Once, Distinct
    <3>. QED
      BY <3>2, <3>3
  <2>. QED
    <3>1. Len(todo') = n /\ \A l \in 1 .. n : todo'[l].id = s(l).id
      BY <1>1, <1>3
    <3>. QED
      BY <2>1, <2>2, <3>1 DEF Apart
<1>10. Waiting(fresh)' /\ Waiting(again)' /\ Waiting(todo)'
  <2>1. /\ \A k \in 1 .. Len(fresh) : fresh[k].id \in 1 .. Len(fate) /\ fate[fresh[k].id] = "none"
        /\ \A k \in 1 .. Len(again) : again[k].id \in 1 .. Len(fate) /\ fate[again[k].id] = "none"
    BY DEF Once, Waiting
  <2>2. Waiting(fresh)' /\ Waiting(again)'
    BY <1>6, <1>b, <2>1, Zenon DEF Waiting
  <2>3. \A k \in 1 .. n : s(k).id \in 1 .. Len(fate) /\ fate[s(k).id] = "none"
    BY <1>4, <2>1, Zenon
  <2>. QED
    BY <1>1, <1>3, <1>6, <2>2, <2>3, Zenon DEF Waiting
<1>11. ASSUME NEW i \in 1 .. Len(fate'), fate'[i] = "none"
       PROVE  In(i, fresh') \/ In(i, again') \/ In(i, todo')
  <2>0. ASSUME NEW x \in 1 .. n, NEW m, m.id = i,
               m = IF x <= c THEN again[x] ELSE fresh[x - c]
        PROVE  In(i, todo')
    <3>1. PICK k \in 1 .. n : q[k] = x
      BY <1>5
    <3>2. s(k) = m
      BY <2>0, <3>1 DEF s
    <3>. QED
      BY <1>1, <1>3, <2>0, <3>2, Zenon DEF In
  <2>1. In(i, fresh) \/ In(i, again)
    BY <1>6, <1>11, <1>a DEF Once, In
  <2>2. CASE In(i, fresh)
    <3>1. PICK k \in 1 .. Len(fresh) : fresh[k].id = i
      BY <2>2 DEF In
    <3>2. CASE k > d
      <4>1. k - d \in 1 .. Len(fresh') /\ (k - d) + d = k
        BY <1>1, <1>a, <3>2
      <4>. QED
        BY <1>2, <3>1, <4>1 DEF In
    <3>3. CASE ~(k > d)
      <4>1. k + c \in 1 .. n /\ ~(k + c <= c) /\ (k + c) - c = k
        BY <1>1, <1>a, <3>3 DEF n
      <4>. QED
        BY <2>0, <3>1, <4>1
    <3>. QED
      BY <3>2, <3>3
  <2>3. CASE In(i, again)
    <3>1. PICK k \in 1 .. Len(again) : again[k].id = i
      BY <2>3 DEF In
    <3>2. CASE k > c
      <4>1. k - c \in 1 .. Len(again') /\ (k - c) + c = k
        BY <1>1, <1>a, <3>2
      <4>. QED
        BY <1>2, <3>1, <4>1 DEF In
    <3>3. CASE ~(k > c)
      <4>1. k \in 1 .. n /\ k <= c
        BY <1>1, <1>a, <3>3 DEF n
      <4>. QED
        BY <2>0, <3>1, <4>1
    <3>. QED
      BY <3>2, <3>3
  <2>. QED
    BY <2>1, <2>2, <2>3
<1>12. Once'
  BY <1>7, <1>8, <1>9, <1>10, <1>11 DEF Once, Distinct, Apart, In
<1>13. Counted'
  <2>1. /\ \A k \in 1 .. Len(fresh') : k + d \in 1 .. Len(fresh)
        /\ \A k \in 1 .. Len(again') : k + c \in 1 .. Len(again)
    BY <1>1, <1>2
  <2>2. \A k \in 1 .. n : s(k).nd \in Nat
    <3>1. \A k \in 1 .. Len(fresh) : fresh[k].nd \in Nat
      BY DEF Counted
    <3>2. \A k \in 1 .. Len(again) : again[k].nd \in Nat
      <4>1. again \in Seq(Message)
        BY Types
      <4>2. \A k \in 1 .. Len(again) : again[k] \in Message
        BY <4>1
      <4>. QED
        BY <4>2, Messages
    <3>. QED
      BY <1>4, <3>1, <3>2
  <2>3. \A k \in 1 .. Len(todo') : todo'[k].nd > 0
    BY <1>1, <1>3, <2>2
  <2>. QED
    BY <1>2, <2>1, <2>3 DEF Counted
<1>14. ASSUME NEW k \in 1 .. n, todo'[k].nd = 1
       PROVE  /\ q[k] - c \in 1 .. d /\ q[k] - c \in 1 .. Len(fresh)
              /\ todo'[k].id = fresh[q[k] - c].id /\ q[k] \in Nat /\ c \in Nat
  <2>1. \A x \in 1 .. Len(again) : again[x].nd + 1 # 1
    <3>1. again \in Seq(Message)
      BY Types
    <3>2. \A x \in 1 .. Len(again) : again[x] \in Message
      BY <3>1
    <3>3. \A x \in 1 .. Len(again) : again[x].nd \in Nat
      BY <3>2, Messages
    <3>. QED
      BY <3>3 DEF Counted
  <2>2. ~(q[k] <= c)
    BY <1>3, <1>4, <1>14, <2>1
  <2>. QED
    BY <1>1, <1>3, <1>4, <2>2
<1>15. Arrivals'
  <2>1. ASSUME NEW k \in 1 .. Len(fresh'), NEW l \in 1 .. Len(fresh'), k < l
        PROVE  fresh'[k].id < fresh'[l].id
    <3>1. k + d < l + d
      BY <1>1, <2>1
    <3>. QED
      BY <1>b, <3>1, Zenon DEF Arrivals
  <2>2. ASSUME NEW k \in 1 .. n, NEW l \in 1 .. Len(fresh'), todo'[k].nd = 1
        PROVE  todo'[k].id < fresh'[l].id
    <3>1. /\ q[k] - c \in 1 .. d /\ q[k] - c \in 1 .. Len(fresh)
          /\ todo'[k].id = fresh[q[k] - c].id
      BY <1>14, <2>2
    <3>2. fresh'[l] = fresh[l + d] /\ l + d \in 1 .. Len(fresh) /\ q[k] - c < l + d
      BY <1>1, <1>2, <3>1
    <3>. QED
      BY <3>1, <3>2 DEF Arrivals
  <2>3. ASSUME NEW k \in 1 .. n, NEW l \in 1 .. n, k < l, todo'[k].nd = 1, todo'[l].nd = 1,
               todo'[k].team = todo'[l].team
        PROVE  todo'[k].id < todo'[l].id
    <3>1. /\ q[k] - c \in 1 .. Len(fresh) /\ todo'[k].id = fresh[q[k] - c].id
          /\ q[l] - c \in 1 .. Len(fresh) /\ todo'[l].id = fresh[q[l] - c].id
          /\ q[k] \in Nat /\ q[l] \in Nat /\ c \in Nat
      BY <1>14, <2>3, Zenon
    <3>2. ~(q[l] < q[k]) /\ q[k] # q[l]
      <4>1. q[l] < q[k] => l < k
        BY <1>5, <2>3
      <4>2. ~(l < k) /\ k # l
        BY <1>1, <2>3
      <4>. QED
        BY <1>5, <4>1, <4>2
    <3>3. q[k] - c < q[l] - c
      BY <3>1, <3>2
    <3>. QED
      BY <3>1, <3>3, Zenon DEF Arrivals
  <2>. QED
    BY <1>1, <2>1, <2>2, <2>3 DEF Arrivals
<1>. QED
  BY <1>6, <1>12, <1>13, <1>15 DEF Lines

\* handle takes the next message m of the batch: it ends with a fate, or goes to be
\* redelivered.
LEMMA HandleMoves ==
  ASSUME IInv, handle, NEW m, m = todo[1]
  PROVE  /\ m \in Message /\ Len(todo) > 0 /\ Len(todo') = Len(todo) - 1
         /\ \A k \in 1 .. Len(todo') : todo'[k] = todo[k + 1]
         /\ todo' \in Seq(Message) /\ errors' \in 0 .. MaxErrors
         /\ UNCHANGED <<fresh, peek>> /\ (dlq' = dlq \/ dlq' = Append(dlq, m))
         /\ \/ /\ UNCHANGED again
               /\ \E f \in Fates \ {"none"} : fate' = [fate EXCEPT ![m.id] = f]
            \/ UNCHANGED fate /\ again' = Append(again, m) /\ m.nd < MaxDeliver
<1>1. todo \in Seq(Message) /\ errors \in 0 .. MaxErrors /\ todo # <<>> /\ Len(todo) \in Nat
  BY Types, Zenon DEF IInv, handle
<1>2. Head(todo) = m /\ m \in Message
  BY <1>1
<1>3. /\ Len(todo) > 0 /\ Len(todo') = Len(todo) - 1 /\ todo' \in Seq(Message)
      /\ \A k \in 1 .. Len(todo') : todo'[k] = todo[k + 1]
  <2>1. todo' = Tail(todo)
    BY Zenon DEF handle
  <2>. QED
    BY <1>1, <2>1, HeadTailProperties
<1>4. errors' \in 0 .. MaxErrors
  <2>1. errors' = errors \/ (errors < MaxErrors /\ errors' = errors + 1)
    BY Zenon DEF handle, Error
  <2>. QED
    BY <1>1, <2>1, Bounds
<1>5. UNCHANGED <<fresh, peek>> /\ (dlq' = dlq \/ dlq' = Append(dlq, m))
  BY <1>2, Zenon DEF handle
<1>6. \/ \E f \in {"created", "dead"} : End(m, f)
      \/ Nak(m)
  BY <1>2, Zenon DEF handle
<1>7. \/ /\ UNCHANGED again
         /\ \E f \in Fates \ {"none"} : fate' = [fate EXCEPT ![m.id] = f]
      \/ UNCHANGED fate /\ again' = Append(again, m) /\ m.nd < MaxDeliver
  BY <1>6 DEF Nak, End, Fates
<1>. QED
  BY <1>2, <1>3, <1>4, <1>5, <1>7

\* handle keeps every message in one place and the order of the others.
LEMMA HandleLines ==
  ASSUME IInv, handle
  PROVE  TypeOK' /\ Lines'
<1>. DEFINE m == todo[1]
<1>. TypeOK /\ Once /\ Counted /\ Arrivals /\ RoundRobin
  BY DEF IInv, Lines
<1>0. /\ fate \in Seq(Fates) /\ again \in Seq(Message) /\ dlq \in Seq(Message)
      /\ Len(again) \in Nat /\ Len(todo) \in Nat /\ Len(fate) \in Nat
  BY Types
<1>1. /\ m \in Message /\ Len(todo) > 0 /\ Len(todo') = Len(todo) - 1
      /\ \A k \in 1 .. Len(todo') : todo'[k] = todo[k + 1]
      /\ todo' \in Seq(Message) /\ errors' \in 0 .. MaxErrors
      /\ UNCHANGED <<fresh, peek>> /\ (dlq' = dlq \/ dlq' = Append(dlq, m))
      /\ \/ /\ UNCHANGED again
            /\ \E f \in Fates \ {"none"} : fate' = [fate EXCEPT ![m.id] = f]
         \/ UNCHANGED fate /\ again' = Append(again, m) /\ m.nd < MaxDeliver
  BY HandleMoves
<1>2. /\ \A k \in 1 .. Len(todo') : todo'[k] = todo[k + 1] /\ k + 1 \in 2 .. Len(todo)
      /\ 1 \in 1 .. Len(todo) /\ Len(todo') \in Nat
      /\ \A k \in 1 .. Len(todo) : k = 1 \/ (k - 1 \in 1 .. Len(todo') /\ (k - 1) + 1 = k)
      /\ \A k \in 2 .. Len(todo) : k \in 1 .. Len(todo) /\ k # 1
  BY <1>0, <1>1
<1>b. \A k \in 1 .. Len(todo') : todo'[k] = todo[k + 1] /\ k + 1 \in 1 .. Len(todo)
  BY <1>2
<1>3. /\ \A k \in 1 .. Len(fresh) : fresh[k].id \in 1 .. Len(fate) /\ fate[fresh[k].id] = "none"
      /\ \A k \in 1 .. Len(again) : again[k].id \in 1 .. Len(fate) /\ fate[again[k].id] = "none"
      /\ \A k \in 1 .. Len(todo) : todo[k].id \in 1 .. Len(fate) /\ fate[todo[k].id] = "none"
  BY DEF Once, Waiting
<1>4. /\ \A k \in 1 .. Len(fresh) : fresh[k].id # m.id
      /\ \A k \in 1 .. Len(again) : again[k].id # m.id
      /\ \A k \in 1 .. Len(todo') : todo'[k].id # m.id
      /\ m.nd > 0 /\ m.id \in 1 .. Len(fate) /\ fate[m.id] = "none"
  <2>1. Apart(fresh, todo) /\ Apart(again, todo) /\ Distinct(todo)
    BY DEF Once
  <2>2. \A k \in 1 .. Len(todo') : todo'[k].id # m.id
    BY <1>2, <2>1 DEF Distinct
  <2>. QED
    BY <1>2, <1>3, <2>1, <2>2 DEF Apart, Counted
<1>c. ASSUME NEW i, In(i, todo) PROVE In(i, todo') \/ i = m.id
  <2>1. PICK k \in 1 .. Len(todo) : todo[k].id = i
    BY <1>c DEF In
  <2>2. CASE k - 1 \in 1 .. Len(todo') /\ (k - 1) + 1 = k
    <3>1. todo'[k - 1] = todo[k]
      BY <1>b, <2>2
    <3>. QED
      BY <2>1, <2>2, <3>1 DEF In
  <2>. QED
    BY <1>2, <2>1, <2>2
<1>. HIDE DEF m
<1>5. dlq' \in Seq(Message)
  <2>1. Append(dlq, m) \in Seq(Message)
    BY <1>0, <1>1, AppendProperties
  <2>. QED
    BY <1>0, <1>1, <2>1, Zenon
<1>6. Distinct(todo') /\ Apart(fresh, todo') /\ Apart(again, todo')
  <2>1. Distinct(todo')
    <3>. SUFFICES ASSUME NEW k \in 1 .. Len(todo'), NEW l \in 1 .. Len(todo'),
                         todo'[k].id = todo'[l].id
                  PROVE  k = l
      BY DEF Distinct
    <3>1. k + 1 \in 1 .. Len(todo) /\ l + 1 \in 1 .. Len(todo) /\ todo[k + 1].id = todo[l + 1].id
      BY <1>2
    <3>2. k + 1 = l + 1
      BY <3>1 DEF Once, Distinct
    <3>. QED
      BY <3>2
  <2>2. Apart(fresh, todo)
    BY DEF Once
  <2>3. Apart(again, todo)
    BY DEF Once
  <2>. QED
    BY <1>b, <2>1, <2>2, <2>3 DEF Apart
<1>7. Arrivals'
  <2>1. \A k, l \in 1 .. Len(todo') : k < l => k + 1 < l + 1
    BY <1>2
  <2>. QED
    BY <1>1, <1>b, <2>1, Zenon DEF Arrivals
<1>8. RoundRobin'
  <2>. SUFFICES ASSUME NEW i \in 1 .. Len(todo'), NEW k \in 1 .. Len(todo'),
                       NEW l \in 1 .. Len(todo'),
                       i < k, k < l, todo'[i].team = todo'[k].team
                PROVE  \E x \in i .. k : todo'[x].team = todo'[l].team
    <3>1. DOMAIN todo' = 1 .. Len(todo')
      BY <1>1
    <3>. QED
      BY <3>1 DEF RoundRobin
  <2>1. /\ i + 1 \in DOMAIN todo /\ k + 1 \in DOMAIN todo /\ l + 1 \in DOMAIN todo
        /\ i + 1 < k + 1 /\ k + 1 < l + 1 /\ todo[i + 1].team = todo[k + 1].team
    <3>1. todo \in Seq(Message)
      BY Types
    <3>2. i + 1 < k + 1 /\ k + 1 < l + 1
      BY <1>2
    <3>. QED
      BY <1>2, <3>1, <3>2
  <2>2. PICK x \in i + 1 .. k + 1 : todo[x].team = todo[l + 1].team
    BY <2>1 DEF RoundRobin
  <2>3. x - 1 \in i .. k /\ x - 1 \in 1 .. Len(todo') /\ (x - 1) + 1 = x
    BY <1>2
  <2>4. todo'[x - 1] = todo[x] /\ todo'[l] = todo[l + 1]
    BY <1>b, <2>3
  <2>. QED
    BY <2>2, <2>3, <2>4
<1>9. CASE /\ UNCHANGED again
           /\ \E f \in Fates \ {"none"} : fate' = [fate EXCEPT ![m.id] = f]
  <2>0. PICK f \in Fates \ {"none"} : fate' = [fate EXCEPT ![m.id] = f]
    BY <1>9, Zenon
  <2>1. /\ fate' \in Seq(Fates) /\ Len(fate') = Len(fate) /\ fate'[m.id] # "none"
        /\ \A i \in 1 .. Len(fate) : i # m.id => fate'[i] = fate[i]
    BY <1>0, <1>4, <2>0, ExceptSeq, SMTT(30)
  <2>2. Waiting(fresh)' /\ Waiting(again)' /\ Waiting(todo)'
    <3>1. \A k \in 1 .. Len(todo') :
            todo'[k].id \in 1 .. Len(fate) /\ fate[todo'[k].id] = "none"
      BY <1>b, <1>3
    <3>. QED
      BY <1>1, <1>3, <1>4, <1>9, <2>1, <3>1 DEF Waiting
  <2>3. ASSUME NEW i \in 1 .. Len(fate'), fate'[i] = "none"
        PROVE  In(i, fresh') \/ In(i, again') \/ In(i, todo')
    <3>1. i \in 1 .. Len(fate) /\ fate[i] = "none" /\ i # m.id
      BY <2>1, <2>3
    <3>2. In(i, fresh) \/ In(i, again) \/ In(i, todo)
      BY <3>1 DEF Once
    <3>3. In(i, todo) => In(i, todo')
      BY <1>c, <3>1
    <3>4. fresh' = fresh /\ again' = again
      BY <1>1, <1>9
    <3>. QED
      BY <3>2, <3>3, <3>4
  <2>4. Once'
    <3>1. fresh' = fresh /\ again' = again
      BY <1>1, <1>9
    <3>2. Distinct(fresh) /\ Distinct(again) /\ Apart(fresh, again)
      BY DEF Once
    <3>. QED
      BY <1>6, <2>2, <2>3, <3>1, <3>2, Zenon DEF Once
  <2>5. Counted'
    BY <1>1, <1>2, <1>9 DEF Counted
  <2>6. TypeOK'
    BY <1>1, <1>5, <1>9, <2>1 DEF TypeOK
  <2>. QED
    BY <1>7, <1>8, <2>4, <2>5, <2>6 DEF Lines
<1>10. CASE UNCHANGED fate /\ again' = Append(again, m) /\ m.nd < MaxDeliver
  <2>1. /\ Len(again') = Len(again) + 1 /\ again'[Len(again) + 1] = m
        /\ \A k \in 1 .. Len(again) : again'[k] = again[k]
        /\ again' \in Seq(Message)
        /\ \A k \in 1 .. Len(again') : k \in 1 .. Len(again) \/ k = Len(again) + 1
        /\ \A k \in 1 .. Len(again) : k \in 1 .. Len(again')
        /\ Len(again) + 1 \in 1 .. Len(again')
    BY <1>0, <1>1, <1>10
  <2>2. Distinct(again') /\ Apart(fresh, again') /\ Apart(again', todo')
    <3>1. Distinct(again) /\ Apart(fresh, again)
      BY DEF Once
    <3>2. Distinct(again')
      BY <1>4, <2>1, <3>1 DEF Distinct
    <3>3. Apart(fresh, again')
      BY <1>4, <2>1, <3>1 DEF Apart
    <3>4. Apart(again', todo')
      BY <1>4, <1>6, <2>1 DEF Apart
    <3>. QED
      BY <3>2, <3>3, <3>4
  <2>3. Waiting(fresh)' /\ Waiting(again)' /\ Waiting(todo)'
    <3>1. \A k \in 1 .. Len(todo') :
            todo'[k].id \in 1 .. Len(fate) /\ fate[todo'[k].id] = "none"
      BY <1>b, <1>3, SMTT(30)
    <3>2. \A k \in 1 .. Len(again') :
            again'[k].id \in 1 .. Len(fate) /\ fate[again'[k].id] = "none"
      BY <1>3, <1>4, <2>1
    <3>. QED
      BY <1>1, <1>3, <1>10, <3>1, <3>2 DEF Waiting
  <2>4. ASSUME NEW i \in 1 .. Len(fate'), fate'[i] = "none"
        PROVE  In(i, fresh') \/ In(i, again') \/ In(i, todo')
    <3>1. In(i, fresh) \/ In(i, again) \/ In(i, todo)
      BY <1>10, <2>4 DEF Once
    <3>2. In(i, todo) => In(i, todo') \/ i = m.id
      BY <1>c
    <3>3. In(i, again) \/ i = m.id => In(i, again')
      BY <2>1 DEF In
    <3>. QED
      BY <1>1, <3>1, <3>2, <3>3
  <2>5. Once'
    <3>1. Distinct(fresh) /\ fresh' = fresh
      BY <1>1 DEF Once
    <3>. QED
      BY <1>6, <2>2, <2>3, <2>4, <3>1, Zenon DEF Once
  <2>6. Counted'
    BY <1>1, <1>2, <1>4, <1>10, <2>1, Zenon DEF Counted
  <2>7. TypeOK'
    BY <1>1, <1>5, <1>10, <2>1 DEF TypeOK
  <2>. QED
    BY <1>7, <1>8, <2>5, <2>6, <2>7 DEF Lines
<1>. QED
  BY <1>1, <1>9, <1>10

-----------------------------------------------------------------------------
(* Listing the dead letters.                                               *)

\* The steps that leave a listing alone do not take a dead letter away either.
LEMMA PeekedKept ==
  ASSUME IInv, UNCHANGED peek,
         \A i : (\E k \in 1 .. Len(dlq) : dlq[k].id = i) =>
                  (\E k \in 1 .. Len(dlq') : dlq'[k].id = i)
  PROVE  Peeked'
BY Zenon DEF IInv, Peeked, PeekMissesNothing

\* A dead letter that goes while a listing is under way is none it must show.
LEMMA ExpirePeeked ==
  ASSUME IInv, Expire
  PROVE  TypeOK' /\ Peeked'
<1>. TypeOK /\ Peeked
  BY DEF IInv
<1>0. dlq \in Seq(Message) /\ dlq # <<>> /\ Len(dlq) \in Nat
  BY Types DEF Expire
<1>1. /\ dlq' \in Seq(Message) /\ Len(dlq') = Len(dlq) - 1 /\ Head(dlq) = dlq[1]
      /\ \A k \in 1 .. Len(dlq') : dlq'[k] = dlq[k + 1]
  <2>1. dlq' = Tail(dlq)
    BY DEF Expire
  <2>. QED
    BY <1>0, <2>1, HeadTailProperties
<1>2. peek \in [on : BOOLEAN, cut : BOOLEAN, must : SUBSET Ids, out : Seq(Message \cup Entry)]
  BY DEF TypeOK
<1>3. /\ peek' \in [on : BOOLEAN, cut : BOOLEAN, must : SUBSET Ids, out : Seq(Message \cup Entry)]
      /\ peek'.on = peek.on /\ peek'.cut = peek.cut /\ peek'.out = peek.out
      /\ peek'.must = peek.must \ {dlq[1].id}
  BY <1>1, <1>2, Zenon DEF Expire
<1>4. TypeOK'
  BY <1>1, <1>3, Zenon DEF TypeOK, Expire, queue
<1>5. ASSUME NEW i \in peek'.must, peek.on
      PROVE  \E k \in 1 .. Len(dlq') : dlq'[k].id = i
  <2>1. PICK k \in 1 .. Len(dlq) : dlq[k].id = i
    BY <1>3, <1>5 DEF Peeked
  <2>2. k # 1
    BY <1>3, <2>1
  <2>3. k - 1 \in 1 .. Len(dlq') /\ (k - 1) + 1 = k
    BY <1>0, <1>1, <2>2
  <2>4. dlq'[k - 1] = dlq[k]
    BY <1>1, <2>3
  <2>. QED
    BY <2>1, <2>3, <2>4
<1>6. Peeked'
  <2>1. CASE peek.on
    BY <1>3, <1>5, <2>1 DEF Peeked
  <2>2. CASE ~peek.on
    BY <1>3, <2>2 DEF Peeked, PeekMissesNothing
  <2>. QED
    BY <2>1, <2>2
<1>. QED
  BY <1>4, <1>6

\* A listing starts with all there is to show, and goes on one message at a time.
LEMMA PeekGoesOn ==
  ASSUME IInv, peekStart \/ peekNext
  PROVE  TypeOK' /\ Peeked'
<1>. TypeOK /\ Peeked
  BY DEF IInv
<1>0. dlq \in Seq(Message) /\ \A k \in 1 .. Len(dlq) : dlq[k] \in Message /\ dlq[k].id \in Ids
  <2>1. dlq \in Seq(Message)
    BY Types
  <2>2. \A k \in 1 .. Len(dlq) : dlq[k] \in Message
    BY <2>1
  <2>. QED
    BY <2>1, <2>2 DEF Message
<1>1. peek \in [on : BOOLEAN, cut : BOOLEAN, must : SUBSET Ids, out : Seq(Message \cup Entry)]
  BY DEF TypeOK
<1>2. CASE peekStart
  <2>1. /\ peek'.on = TRUE /\ peek'.cut = FALSE /\ peek'.out = <<>>
        /\ peek'.must = {m.id : m \in Range(dlq)} /\ dlq' = dlq
    BY <1>2 DEF peekStart
  <2>2. \A i \in peek'.must : \E k \in 1 .. Len(dlq) : dlq[k].id = i
    BY <1>0, <2>1 DEF Range
  <2>3. peek' \in [on : BOOLEAN, cut : BOOLEAN, must : SUBSET Ids, out : Seq(Message \cup Entry)]
    <3>1. {m.id : m \in Range(dlq)} \in SUBSET Ids
      BY <1>0 DEF Range
    <3>2. <<>> \in Seq(Message \cup Entry)
      OBVIOUS
    <3>. QED
      BY <1>2, <3>1, <3>2 DEF peekStart
  <2>4. TypeOK'
    BY <1>2, <2>3 DEF TypeOK, peekStart, queue
  <2>. QED
    BY <2>1, <2>2, <2>4 DEF Peeked
<1>3. CASE peekNext
  <2>0. peek.on /\ dlq' = dlq
    BY <1>3 DEF peekNext
  <2>1. PICK k \in 1 .. Len(dlq) : peek' = [peek EXCEPT !.out = Append(peek.out, dlq[k])]
    <3>1. DOMAIN dlq = 1 .. Len(dlq)
      BY <1>0
    <3>. QED
      BY <1>3, <3>1 DEF peekNext, unread
  <2>2. peek.out \in Seq(Message) /\ \A i \in peek.must : \E l \in 1 .. Len(dlq) : dlq[l].id = i
    BY <2>0 DEF Peeked
  <2>3. Append(peek.out, dlq[k]) \in Seq(Message)
    BY <1>0, <2>2, AppendProperties
  <2>4. Append(peek.out, dlq[k]) \in Seq(Message \cup Entry)
    <3>1. peek.out \in Seq(Message \cup Entry) /\ dlq[k] \in Message \cup Entry
      BY <1>0, <1>1
    <3>. QED
      BY <3>1, AppendProperties
  <2>5. /\ peek' \in [on : BOOLEAN, cut : BOOLEAN, must : SUBSET Ids, out : Seq(Message \cup Entry)]
        /\ peek'.on = peek.on /\ peek'.must = peek.must
        /\ peek'.out = Append(peek.out, dlq[k])
    BY <1>1, <2>1, <2>4, Zenon
  <2>6. TypeOK'
    BY <1>3, <2>5, Zenon DEF TypeOK, peekNext, queue
  <2>. QED
    BY <2>0, <2>2, <2>3, <2>5, <2>6, Zenon DEF Peeked
<1>. QED
  BY <1>2, <1>3

\* A listing that ends by itself is full or has read every dead letter there is.
LEMMA PeekEnds ==
  ASSUME IInv, peekEnd
  PROVE  TypeOK' /\ Peeked'
<1>. TypeOK /\ Peeked
  BY DEF IInv
<1>0. dlq \in Seq(Message) /\ errors \in 0 .. MaxErrors
  BY Types
<1>1. peek \in [on : BOOLEAN, cut : BOOLEAN, must : SUBSET Ids, out : Seq(Message \cup Entry)]
  BY DEF TypeOK
<1>. DEFINE out == parseDLQEntries(peek.out)
<1>2. /\ peek.on /\ peek.out \in Seq(Message) /\ UNCHANGED <<fate, queue, dlq>>
      /\ \A i \in peek.must : \E k \in 1 .. Len(dlq) : dlq[k].id = i
  BY DEF peekEnd, Peeked
<1>3. /\ out \in Seq(Message \cup Entry) /\ Len(out) = Len(peek.out)
      /\ \A k \in 1 .. Len(peek.out) : out[k].id = peek.out[k].id
  <2>1. Len(peek.out) \in Nat /\ DOMAIN peek.out = 1 .. Len(peek.out)
    BY <1>2
  <2>. DEFINE e(k) == [id |-> peek.out[k].id, raw |-> peek.out[k].team = ""]
  <2>2. ASSUME NEW k \in 1 .. Len(peek.out)
        PROVE  e(k) \in Message \cup Entry /\ e(k).id = peek.out[k].id
    <3>1. peek.out[k] \in Message
      BY <1>2
    <3>2. peek.out[k].id \in Ids
      BY <3>1 DEF Message
    <3>3. e(k) \in Entry
      BY <3>2, Zenon DEF Entry
    <3>. QED
      BY <3>3, Zenon
  <2>3. out = [k \in 1 .. Len(peek.out) |-> e(k)]
    BY <2>1, Zenon DEF parseDLQEntries
  <2>. HIDE DEF e, out
  <2>4. [k \in 1 .. Len(peek.out) |-> e(k)] \in Seq(Message \cup Entry)
    BY <2>1, <2>2
  <2>. QED
    BY <2>1, <2>2, <2>3, <2>4
<1>4. /\ errors' \in 0 .. MaxErrors
      /\ \/ /\ Len(peek.out) = Limit \/ unread = {}
            /\ peek' = [peek EXCEPT !.on = FALSE, !.out = out]
         \/ peek' = [peek EXCEPT !.on = FALSE, !.out = out, !.cut = TRUE]
  <2>1. errors' = errors \/ (errors < MaxErrors /\ errors' = errors + 1)
    BY Zenon DEF peekEnd, Error
  <2>2. errors' \in 0 .. MaxErrors
    BY <1>0, <2>1, Bounds
  <2>. QED
    BY <2>2 DEF peekEnd
<1>. HIDE DEF out
<1>5. /\ peek' \in [on : BOOLEAN, cut : BOOLEAN, must : SUBSET Ids, out : Seq(Message \cup Entry)]
      /\ peek'.on = FALSE /\ peek'.must = peek.must /\ peek'.out = out
      /\ peek'.cut = TRUE \/ Len(peek.out) = Limit \/ unread = {}
  BY <1>1, <1>3, <1>4, Zenon
<1>6. TypeOK'
  BY <1>2, <1>4, <1>5 DEF TypeOK, queue
<1>7. ASSUME NEW i \in peek.must, unread = {}
      PROVE  \E k \in DOMAIN out : out[k].id = i
  <2>1. PICK k \in 1 .. Len(dlq) : dlq[k].id = i
    BY <1>2
  <2>2. PICK j \in DOMAIN peek.out : peek.out[j] = dlq[k]
    <3>1. k \in DOMAIN dlq
      BY <1>0
    <3>. QED
      BY <1>7, <3>1 DEF unread, Range
  <2>. QED
    BY <1>2, <1>3, <2>1, <2>2
<1>8. PeekMissesNothing'
  BY <1>3, <1>5, <1>7 DEF PeekMissesNothing
<1>. QED
  BY <1>5, <1>6, <1>8 DEF Peeked

-----------------------------------------------------------------------------
(* The theorems.                                                           *)

\* Every step keeps the invariant.
LEMMA QueueInv == Spec => []IInv
<1>1. Init => IInv
  <2>. SUFFICES ASSUME Init PROVE IInv
    BY SMTT(30)
  <2>1. Lines /\ Peeked
    BY DEF Init, NoPeek, Lines, Once, Distinct, Apart, Waiting, Counted, Arrivals,
           RoundRobin, Peeked, PeekMissesNothing
  <2>2. NoPeek \in [on : BOOLEAN, cut : BOOLEAN, must : SUBSET Ids, out : Seq(Message \cup Entry)]
    BY DEF NoPeek
  <2>3. TypeOK
    BY <2>2, Bounds DEF Init, TypeOK
  <2>. QED
    BY <2>1, <2>3 DEF IInv
<1>2. IInv /\ [Next]_vars => IInv'
  <2>. SUFFICES ASSUME IInv, [Next]_vars PROVE IInv'
    BY SMTT(30)
  <2>0. ASSUME UNCHANGED <<fate, queue>> PROVE Lines'
    BY <2>0 DEF IInv, Lines, Once, Distinct, Apart, Waiting, In, Counted, Arrivals,
                RoundRobin, queue
  <2>1. ASSUME NEW t \in Teams, Publish(t) PROVE IInv'
    <3>1. TypeOK' /\ Lines'
      BY <2>1, PublishLines
    <3>2. UNCHANGED <<dlq, peek>>
      BY <2>1 DEF Publish
    <3>. QED
      BY <3>1, <3>2, PeekedKept DEF IInv
  <2>2. CASE fetch
    BY <2>2, FetchLines, PeekedKept DEF IInv
  <2>3. CASE handle
    <3>1. TypeOK' /\ Lines'
      BY <2>3, HandleLines
    <3>2. dlq \in Seq(Message) /\ todo[1] \in Message /\ UNCHANGED peek
      BY <2>3, HandleMoves, Types DEF IInv
    <3>3. dlq' = dlq \/ dlq' = Append(dlq, todo[1])
      BY <2>3, HandleMoves
    <3>4. \A i : (\E k \in 1 .. Len(dlq) : dlq[k].id = i) =>
                   (\E k \in 1 .. Len(dlq') : dlq'[k].id = i)
      BY <3>2, <3>3
    <3>. QED
      BY <3>1, <3>2, <3>4, PeekedKept DEF IInv
  <2>4. CASE Expire
    BY <2>0, <2>4, ExpirePeeked DEF IInv, Expire
  <2>5. CASE peekStart
    BY <2>0, <2>5, PeekGoesOn DEF IInv, peekStart
  <2>6. CASE peekNext
    BY <2>0, <2>6, PeekGoesOn, Zenon DEF IInv, peekNext
  <2>7. CASE peekEnd
    BY <2>0, <2>7, PeekEnds DEF IInv, peekEnd
  <2>8. CASE UNCHANGED vars
    <3>1. TypeOK'
      BY <2>8 DEF IInv, TypeOK, vars, queue
    <3>. QED
      BY <2>0, <2>8, <3>1, PeekedKept DEF IInv, vars
  <2>. QED
    BY <2>1, <2>2, <2>3, <2>4, <2>5, <2>6, <2>7, <2>8 DEF Next
<1>. QED
  BY <1>1, <1>2, PTL DEF Spec

\* No message is lost or handled twice over: one that was published and has no fate
\* is in exactly one place, whatever fails, is redelivered or interleaved.
THEOREM MessagesAreKeptOnce == Spec => []EveryMessageOnce
<1>1. IInv => EveryMessageOnce
  <2>. SUFFICES ASSUME IInv PROVE EveryMessageOnce
    OBVIOUS
  <2>. DEFINE held == fresh \o again \o todo
              A == Len(again)
              F == Len(fresh)
              T == Len(todo)
  <2>. TypeOK /\ Once
    BY DEF IInv, Lines
  <2>0. /\ fate \in Seq(Fates) /\ fresh \in Seq(Message) /\ again \in Seq(Message)
        /\ todo \in Seq(Message) /\ A \in Nat /\ F \in Nat /\ T \in Nat
    BY Types
  <2>1. /\ fresh \o again \in Seq(Message) /\ Len(fresh \o again) = F + A
        /\ \A i \in 1 .. F + A : (fresh \o again)[i] = IF i <= F THEN fresh[i] ELSE again[i - F]
    BY <2>0, ConcatProperties
  <2>2. /\ held \in Seq(Message) /\ Len(held) = F + A + T
        /\ \A i \in 1 .. F + A + T :
             held[i] = IF i <= F + A THEN (fresh \o again)[i] ELSE todo[i - (F + A)]
    <3>. DEFINE s == fresh \o again
    <3>1. s \in Seq(Message) /\ Len(s) = F + A
      BY <2>1
    <3>. HIDE DEF s
    <3>2. /\ s \o todo \in Seq(Message) /\ Len(s \o todo) = Len(s) + T
          /\ \A i \in 1 .. Len(s) + T : (s \o todo)[i] = IF i <= Len(s) THEN s[i] ELSE todo[i - Len(s)]
      <4>1. s \in Seq(Message) /\ todo \in Seq(Message)
        BY <2>0, <3>1
      <4>. QED
        BY <4>1, ConcatProperties
    <3>. QED
      BY <3>1, <3>2 DEF s
  <2>. HIDE DEF held, A, F, T
  <2>3. ASSUME NEW i \in 1 .. F + A + T
        PROVE  \/ i \in 1 .. F /\ held[i] = fresh[i]
               \/ ~(i <= F) /\ i - F \in 1 .. A /\ held[i] = again[i - F]
               \/ ~(i <= F + A) /\ i - (F + A) \in 1 .. T /\ held[i] = todo[i - (F + A)]
    <3>1. CASE i <= F
      <4>1. i \in 1 .. F /\ i \in 1 .. F + A /\ i <= F + A
        BY <2>0, <3>1, SMTT(30)
      <4>. QED
        BY <2>1, <2>2, <4>1
    <3>2. CASE ~(i <= F) /\ i <= F + A
      <4>1. i - F \in 1 .. A /\ i \in 1 .. F + A
        BY <2>0, <3>2
      <4>. QED
        BY <2>1, <2>2, <3>2, <4>1
    <3>3. CASE ~(i <= F + A)
      <4>1. i - (F + A) \in 1 .. T
        BY <2>0, <3>3
      <4>. QED
        BY <2>2, <3>3, <4>1
    <3>. QED
      BY <3>1, <3>2, <3>3, SMTT(30)
  <2>4. ASSUME NEW k \in 1 .. F + A + T, NEW l \in 1 .. F + A + T, held[k].id = held[l].id
        PROVE  k = l
    <3>1. /\ \A x, y \in 1 .. F : fresh[x].id = fresh[y].id => x = y
          /\ \A x, y \in 1 .. A : again[x].id = again[y].id => x = y
          /\ \A x, y \in 1 .. T : todo[x].id = todo[y].id => x = y
          /\ \A x \in 1 .. F, y \in 1 .. A : fresh[x].id # again[y].id
          /\ \A x \in 1 .. F, y \in 1 .. T : fresh[x].id # todo[y].id
          /\ \A x \in 1 .. A, y \in 1 .. T : again[x].id # todo[y].id
      BY SMTT(30) DEF Once, Distinct, Apart, A, F, T
    <3>2. \/ k = l \/ k - F = l - F \/ k - (F + A) = l - (F + A)
      BY <2>3, <2>4, <3>1
    <3>. QED
      BY <2>0, <3>2
  <2>5. ASSUME NEW i \in 1 .. Len(fate), fate[i] = "none"
        PROVE  \E k \in 1 .. F + A + T : held[k].id = i
    <3>1. In(i, fresh) \/ In(i, again) \/ In(i, todo)
      BY <2>5 DEF Once
    <3>2. ASSUME NEW k \in 1 .. F
          PROVE  k \in 1 .. F + A + T /\ held[k] = fresh[k]
      <4>1. k \in 1 .. F + A + T /\ k <= F + A /\ k <= F /\ k \in 1 .. F + A
        BY <2>0
      <4>. QED
        BY <2>1, <2>2, <4>1, Zenon
    <3>3. ASSUME NEW k \in 1 .. A
          PROVE  k + F \in 1 .. F + A + T /\ held[k + F] = again[k]
      <4>1. k + F \in 1 .. F + A + T /\ k + F <= F + A /\ ~(k + F <= F) /\ (k + F) - F = k
        BY <2>0
      <4>2. k + F \in 1 .. F + A
        BY <2>0
      <4>. QED
        BY <2>1, <2>2, <4>1, <4>2, Zenon
    <3>4. ASSUME NEW k \in 1 .. T
          PROVE  k + (F + A) \in 1 .. F + A + T /\ held[k + (F + A)] = todo[k]
      <4>1. /\ k + (F + A) \in 1 .. F + A + T /\ ~(k + (F + A) <= F + A)
            /\ (k + (F + A)) - (F + A) = k
        BY <2>0
      <4>. QED
        BY <2>2, <4>1
    <3>. QED
      BY <3>1, <3>2, <3>3, <3>4, Zenon DEF In, A, F, T
  <2>6. ASSUME NEW k \in 1 .. F + A + T
        PROVE  held[k].id \in 1 .. Len(fate) /\ fate[held[k].id] = "none"
    <3>1. /\ \A x \in 1 .. F : fresh[x].id \in 1 .. Len(fate) /\ fate[fresh[x].id] = "none"
          /\ \A x \in 1 .. A : again[x].id \in 1 .. Len(fate) /\ fate[again[x].id] = "none"
          /\ \A x \in 1 .. T : todo[x].id \in 1 .. Len(fate) /\ fate[todo[x].id] = "none"
      BY DEF Once, Waiting, A, F, T
    <3>. QED
      BY <2>3, <3>1
  <2>7. DOMAIN held = 1 .. F + A + T /\ DOMAIN fate = 1 .. Len(fate)
    BY <2>0, <2>2
  <2>8. {m.id : m \in Range(held)} = {i \in DOMAIN fate : fate[i] = "none"}
    BY <2>5, <2>6, <2>7 DEF Range
  <2>9. \A k, l \in DOMAIN held : held[k].id = held[l].id => k = l
    BY <2>4, <2>7
  <2>. QED
    BY <2>8, <2>9 DEF EveryMessageOnce, held
<1>. QED
  BY <1>1, QueueInv, PTL

\* A team's messages are first handled in the order in which they arrived, across
\* batches and whatever is redelivered in between.
THEOREM TeamsArriveInOrder == Spec => []ArrivalOrderKept
<1>1. IInv => ArrivalOrderKept
  <2>. SUFFICES ASSUME IInv, todo # <<>>, Head(todo).nd = 1,
                       NEW m \in Range(todo \o fresh), m.nd <= 1, m.team = Head(todo).team
                PROVE  Head(todo).id <= m.id
    BY DEF ArrivalOrderKept
  <2>. TypeOK /\ Counted /\ Arrivals
    BY DEF IInv, Lines
  <2>0. /\ todo \in Seq(Message) /\ fresh \in Seq(Message)
        /\ Len(todo) \in Nat /\ Len(fresh) \in Nat
    BY Types
  <2>1. Head(todo) = todo[1] /\ 1 \in 1 .. Len(todo)
    BY <2>0
  <2>2. /\ \A k \in 1 .. Len(todo) : todo[k].id \in Nat /\ todo[k].nd \in Nat
        /\ \A k \in 1 .. Len(fresh) : fresh[k].id \in Nat
    <3>1. /\ \A k \in 1 .. Len(todo) : todo[k] \in Message
          /\ \A k \in 1 .. Len(fresh) : fresh[k] \in Message
      BY <2>0
    <3>. QED
      BY <3>1, Messages
  <2>3. \/ \E k \in 1 .. Len(todo) : m = todo[k]
        \/ \E k \in 1 .. Len(fresh) : m = fresh[k]
    <3>1. /\ DOMAIN (todo \o fresh) = 1 .. Len(todo) + Len(fresh)
          /\ \A i \in 1 .. Len(todo) + Len(fresh) :
               (todo \o fresh)[i] = IF i <= Len(todo) THEN todo[i] ELSE fresh[i - Len(todo)]
      BY <2>0, ConcatProperties
    <3>2. PICK i \in 1 .. Len(todo) + Len(fresh) : m = (todo \o fresh)[i]
      BY <3>1 DEF Range
    <3>3. i \in 1 .. Len(todo) \/ (~(i <= Len(todo)) /\ i - Len(todo) \in 1 .. Len(fresh))
      BY <2>0
    <3>. QED
      BY <2>0, <3>1, <3>2, <3>3
  <2>4. CASE \E k \in 1 .. Len(todo) : m = todo[k]
    <3>1. PICK k \in 1 .. Len(todo) : m = todo[k]
      BY <2>4
    <3>2. todo[k].nd = 1
      BY <2>2, <3>1 DEF Counted
    <3>3. k = 1 \/ 1 < k
      BY <2>0
    <3>4. 1 < k => todo[1].id < todo[k].id
      BY <2>1, <3>1, <3>2 DEF Arrivals
    <3>. QED
      BY <2>1, <2>2, <3>1, <3>3, <3>4
  <2>5. CASE \E k \in 1 .. Len(fresh) : m = fresh[k]
    <3>1. PICK k \in 1 .. Len(fresh) : m = fresh[k]
      BY <2>5
    <3>2. todo[1].id < fresh[k].id
      BY <2>1 DEF Arrivals
    <3>. QED
      BY <2>1, <2>2, <3>1, <3>2
  <2>. QED
    BY <2>3, <2>4, <2>5
<1>. QED
  BY <1>1, QueueInv, PTL

\* While a batch is worked off no team has a second turn before every other team of
\* the batch had one.
THEOREM TurnsAreTaken == Spec => []RoundRobin
<1>1. IInv => RoundRobin
  BY DEF IInv, Lines
<1>. QED
  BY <1>1, QueueInv, PTL

\* A listing of the dead letters that is not cut off shows all that were there
\* throughout, malformed ones included, or as many as it may.
THEOREM ListingIsComplete == Spec => []PeekMissesNothing
<1>1. IInv => PeekMissesNothing
  BY DEF IInv, Peeked, PeekMissesNothing
<1>. QED
  BY <1>1, QueueInv, PTL


\* Every variable of the consumer keeps its type, for any batch size, messages and
\* failures.
THEOREM QueueTyped == Spec => []TypeOK
<1>1. IInv => TypeOK
  BY Zenon DEF IInv
<1>. QED
  BY <1>1, QueueInv, PTL
=============================================================================
