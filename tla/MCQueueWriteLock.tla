-------------------------- MODULE MCQueueWriteLock --------------------------
(* Instances of QueueWriteLock for TLC. *)
EXTENDS QueueWriteLock, TLC

CONSTANTS l1, l2, m1, s1, r1, r2

OneFencedRoles == (l1 :> "legacy") @@ (m1 :> "migrate")
RestoreRoles == (l1 :> "legacy") @@ (m1 :> "migrate") @@ (s1 :> "restore")
TwoFencedRoles == (m1 :> "migrate") @@ (s1 :> "restore")

\* Recoverers of one guard are interchangeable.
RecovererSymmetry == Permutations(Recoverers)
=============================================================================
