----------------------------- MODULE FairShare ------------------------------
(***************************************************************************)
(* interleaveByKey (internal/queue): a fetched batch is put in round-robin *)
(* order by team before it is handled.                                     *)
(***************************************************************************)
EXTENDS Naturals, Sequences, FiniteSets

\* Message i waits in the group of its key, behind the earlier ones of that key:
\* it is taken in the round after theirs.  key is a function on the messages.
group(msgs, key, i) == {h \in DOMAIN msgs : key[msgs[h]] = key[msgs[i]]}
turn(msgs, key, i) == Cardinality({h \in group(msgs, key, i) : h < i})

\* The groups take their turns in the order their keys are first seen.
firstSeen(msgs, key, i) ==
  CHOOSE h \in group(msgs, key, i) : \A g \in group(msgs, key, i) : h <= g

\* Mutations: every group is emptied in turn; a group is taken from its end; the
\* loop stops after one round.
interleaveGrouped(msgs, key) ==
  LET before(h, i) == \/ firstSeen(msgs, key, h) < firstSeen(msgs, key, i)
                      \/ h < i /\ key[msgs[h]] = key[msgs[i]]
      at(n) == CHOOSE i \in DOMAIN msgs : Cardinality({h \in DOMAIN msgs : before(h, i)}) = n - 1
  IN [n \in DOMAIN msgs |-> msgs[at(n)]]
interleaveNewestFirst(msgs, key) ==
  LET left(i) == Cardinality({h \in group(msgs, key, i) : h > i})
      before(h, i) == \/ left(h) < left(i)
                      \/ /\ left(h) = left(i)
                         /\ firstSeen(msgs, key, h) < firstSeen(msgs, key, i)
      at(n) == CHOOSE i \in DOMAIN msgs : Cardinality({h \in DOMAIN msgs : before(h, i)}) = n - 1
  IN [n \in DOMAIN msgs |-> msgs[at(n)]]
interleaveStopsEarly(msgs, key) ==
  SelectSeq(msgs, LAMBDA m : \E i \in DOMAIN msgs : m = msgs[i] /\ turn(msgs, key, i) = 0)

\* What is taken before message i: all of the earlier rounds, and in i's own round
\* the groups ahead of i's.
before(msgs, key, h, i) ==
  \/ turn(msgs, key, h) < turn(msgs, key, i)
  \/ /\ turn(msgs, key, h) = turn(msgs, key, i)
     /\ firstSeen(msgs, key, h) < firstSeen(msgs, key, i)

\* The n-th message taken is the one with n - 1 before it.
interleaveByKey(msgs, key) ==
  [n \in DOMAIN msgs |->
     msgs[CHOOSE i \in DOMAIN msgs :
            Cardinality({h \in DOMAIN msgs : before(msgs, key, h, i)}) = n - 1]]
=============================================================================
