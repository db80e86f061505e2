-------------------------- MODULE MCAcceleratorJob --------------------------
(***************************************************************************)
(* Instances of AcceleratorJob for TLC.                                    *)
(***************************************************************************)
EXTENDS AcceleratorJob, TLC, FiniteSetsExt

\* All counters for which base << k keeps a bit, and some for which it does not.
counts == 0 .. 80

Symmetric == Permutations(Operators)

\* The logs keep versions no cache or reconcile can read again, and absolute
\* version numbers.  No action and no property depends on either, except that
\* SucceededMeansAllRan looks back for a moment when the gang had succeeded,
\* so TLC tells states apart by the rest.
recent ==
  LET jobLow == Min({Len(jobLog)} \cup {jobSeen[o] : o \in Operators}
                      \cup ({ver[o] : o \in Operators} \ {0}))
      podLow == Min({Len(podLog)} \cup {podSeen[o] : o \in Operators}
                      \cup ({lst[o] : o \in Operators} \ {0}))
      age(log, f) == [o \in Operators |-> IF f[o] = 0 THEN "none"
                                          ELSE ToString(Len(log) - f[o])]
  IN <<SubSeq(jobLog, IF jobLow = 0 THEN 1 ELSE jobLow, Len(jobLog)),
       SubSeq(podLog, podLow, Len(podLog)), GangSucceeded, pvc,
       age(jobLog, jobSeen), age(podLog, podSeen), pvcSeen,
       pc, age(jobLog, ver), age(podLog, lst), todo, env, queued>>
=============================================================================
