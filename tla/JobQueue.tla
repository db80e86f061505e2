------------------------------ MODULE JobQueue -------------------------------
(***************************************************************************)
(* The order in which queued jobs are handled and the dead letters an      *)
(* operator gets to see (internal/queue, JobService.ListDLQ).  One         *)
(* consumer and reliable acks, but many messages: batch after batch is     *)
(* interleaved by team while messages fail, are redelivered, and are read  *)
(* from the dead-letter subject.  A message that is no valid JSON has team *)
(* "" (submissionTeam) and always fails.                                   *)
(***************************************************************************)
EXTENDS FairShare, Functions

CONSTANTS
  Teams,       \* with "" for the malformed ones
  MaxMessages, \* bound: messages published
  BatchSize,   \* FairShareBatchSize
  MaxDeliver,  \* deliveries per message
  Limit,       \* how many dead letters a listing shows (100)
  MaxErrors    \* bound: NATS calls that fail

ASSUME QueueAssumption ==
  /\ "" \in Teams /\ MaxMessages \in Nat /\ MaxErrors \in Nat
  /\ BatchSize \in Nat \ {0} /\ MaxDeliver \in Nat \ {0} /\ Limit \in Nat \ {0}

VARIABLES
  fate,    \* per message: "none" or how it ended, in the order of publishing
  fresh,   \* messages never delivered, in order
  again,   \* messages to redeliver, which go first
  todo,    \* what of the batch is still to be handled, in round-robin order
  dlq,     \* the dead-letter subject, messages in order
  peek,    \* a PeekDLQ under way
  errors

queue == <<fresh, again, todo>>
vars == <<fate, queue, dlq, peek, errors>>

Ids == 1 .. MaxMessages
Message == [id : Ids, team : Teams, nd : 0 .. MaxDeliver]
Entry == [id : Ids, raw : BOOLEAN]
Fates == {"none", "created", "dead", "lost"}

NoPeek == [on |-> FALSE, out |-> <<>>, must |-> {}, cut |-> FALSE]

Error == errors < MaxErrors /\ errors' = errors + 1

Init ==
  /\ fate = <<>> /\ fresh = <<>> /\ again = <<>> /\ todo = <<>>
  /\ dlq = <<>> /\ peek = NoPeek /\ errors = 0

-----------------------------------------------------------------------------
Publish(t) ==
  /\ Len(fate) < MaxMessages
  /\ fate' = Append(fate, "none")
  /\ fresh' = Append(fresh, [id |-> Len(fate) + 1, team |-> t, nd |-> 0])
  /\ UNCHANGED <<again, todo, dlq, peek, errors>>

interleaved(msgs) == interleaveByKey(msgs, [m \in Range(msgs) |-> m.team])

\* Fetch: what there is, up to a full batch; redeliveries come first.
fetch ==
  LET ready == again \o fresh
      n == IF Len(ready) < BatchSize THEN Len(ready) ELSE BatchSize
  IN /\ todo = <<>> /\ n > 0
     /\ todo' = interleaved([i \in 1 .. n |-> [ready[i] EXCEPT !.nd = @ + 1]])
     /\ again' = SubSeq(again, n + 1, Len(again))
     /\ fresh' = SubSeq(fresh, IF n > Len(again) THEN n - Len(again) + 1 ELSE 1, Len(fresh))
     /\ UNCHANGED <<fate, dlq, peek, errors>>

deliveriesExhausted(m) == m.nd >= MaxDeliver

End(m, f) == fate' = [fate EXCEPT ![m.id] = f] /\ UNCHANGED again

\* Nak, and JetStream's answer to it: deliver again or give up.
Nak(m) ==
  IF m.nd < MaxDeliver THEN again' = Append(again, m) /\ UNCHANGED fate
  ELSE End(m, "lost")

\* The loop of ConsumeFairShare: create the job, dead-letter it, or Nak.
handle ==
  LET m == Head(todo)
  IN /\ todo # <<>>
     /\ todo' = Tail(todo)
     /\ \/ m.team # "" /\ End(m, "created") /\ UNCHANGED <<dlq, errors>>
        \/ ~deliveriesExhausted(m) /\ Nak(m) /\ UNCHANGED <<dlq, errors>>
        \/ /\ deliveriesExhausted(m)
           /\ dlq' = Append(dlq, m)
           /\ End(m, "dead") /\ UNCHANGED errors
        \/ deliveriesExhausted(m) /\ Error /\ Nak(m) /\ UNCHANGED dlq
     /\ UNCHANGED <<fresh, peek>>

\* Dead letters are in the same stream: MaxAge deletes the oldest.
Expire ==
  /\ dlq # <<>> /\ dlq' = Tail(dlq)
  /\ peek' = [peek EXCEPT !.must = @ \ {Head(dlq).id}]
  /\ UNCHANGED <<fate, queue, errors>>

-----------------------------------------------------------------------------
(* PeekDLQ, an ephemeral consumer that starts with the oldest dead letter. *)

\* peek.must is history: the dead letters that are there all the time.
peekStart ==
  /\ ~peek.on
  /\ peek' = [on |-> TRUE, out |-> <<>>, must |-> {m.id : m \in Range(dlq)}, cut |-> FALSE]
  /\ UNCHANGED <<fate, queue, dlq, errors>>

\* Where the dead letters are that this consumer has still to deliver.
unread == {k \in DOMAIN dlq : dlq[k] \notin Range(peek.out)}

peekNext ==
  /\ peek.on /\ Len(peek.out) < Limit
  /\ \E k \in unread : /\ \A l \in unread : k <= l
                       /\ peek' = [peek EXCEPT !.out = Append(@, dlq[k])]
  /\ UNCHANGED <<fate, queue, dlq, errors>>

\* Mutation: what does not parse is left out.
parseWellFormed(payloads) ==
  LET ok == SelectSeq(payloads, LAMBDA m : m.team # "")
  IN [i \in DOMAIN ok |-> [id |-> ok[i].id, raw |-> FALSE]]

\* What does not parse is shown as it is.
parseDLQEntries(payloads) ==
  [i \in DOMAIN payloads |-> [id |-> payloads[i].id, raw |-> payloads[i].team = ""]]

\* The Fetch is full, or times out with nothing more; or the connection breaks,
\* whose error PeekDLQ does not look at.  ListDLQ parses what there is.
peekEnd ==
  /\ peek.on
  /\ \/ /\ Len(peek.out) = Limit \/ unread = {}
        /\ peek' = [peek EXCEPT !.on = FALSE, !.out = parseDLQEntries(@)]
        /\ UNCHANGED errors
     \/ /\ Error
        /\ peek' = [peek EXCEPT !.on = FALSE, !.out = parseDLQEntries(@), !.cut = TRUE]
  /\ UNCHANGED <<fate, queue, dlq>>

-----------------------------------------------------------------------------
Next ==
  \/ (\E t \in Teams : Publish(t)) \/ fetch \/ handle \/ Expire
  \/ peekStart \/ peekNext \/ peekEnd

Spec == Init /\ [][Next]_vars

-----------------------------------------------------------------------------
\* Every variable keeps its type.
TypeOK ==
  /\ fate \in Seq(Fates) /\ errors \in 0 .. MaxErrors
  /\ {fresh, again, todo, dlq} \subseteq Seq(Message)
  /\ peek \in [on : BOOLEAN, cut : BOOLEAN, must : SUBSET Ids, out : Seq(Message \cup Entry)]

\* interleaveByKey neither drops nor repeats a message, nor does the loop: every
\* message without a fate is in exactly one place.
EveryMessageOnce ==
  LET held == fresh \o again \o todo
      open == {i \in DOMAIN fate : fate[i] = "none"}
  IN /\ {m.id : m \in Range(held)} = open
     /\ \A k, l \in DOMAIN held : held[k].id = held[l].id => k = l

\* "preserving each group's internal (arrival) order": a message handled for the
\* first time is the oldest of its team that waits for that, across batches and
\* whatever is redelivered in between.
ArrivalOrderKept ==
  todo # <<>> /\ Head(todo).nd = 1 =>
    \A m \in Range(todo \o fresh) :
      m.nd <= 1 /\ m.team = Head(todo).team => Head(todo).id <= m.id

\* "one team's burst of submissions can't starve another team's jobs": within a
\* batch no team has a second turn while another one waits for its first.
RoundRobin ==
  \A i, k, l \in DOMAIN todo :
    i < k /\ k < l /\ todo[i].team = todo[k].team =>
      \E x \in i .. k : todo[x].team = todo[l].team

\* ListDLQ, which must not hide the malformed: a listing shows every dead letter
\* that was there all the time, or is full with older ones.  Only a connection
\* that breaks during the Fetch cuts it short.
PeekMissesNothing ==
  ~peek.on /\ ~peek.cut =>
    \A i \in peek.must :
      \/ \E k \in DOMAIN peek.out : peek.out[k].id = i
      \/ Len(peek.out) = Limit
=============================================================================
