---------------------------- MODULE SerialCommits ----------------------------
(***************************************************************************)
(* What the commit lock of a site promises about the D1 batches guarded by *)
(* it: the sessions commit in turns.  A turn may be taken away at any time *)
(* (the lease runs out), but a session whose turn is over never commits.   *)
(***************************************************************************)
CONSTANTS
  Sessions,       \* calls of withSiteCommitLock, each with a lock id of its own
  None

VARIABLES
  turn,           \* the session whose turn it is, None before the first
  committer       \* the session of the newest commit, None before the first

Init == turn = None /\ committer = None

Take(s) == turn # s /\ turn' = s /\ UNCHANGED committer

Commit(s) == turn = s /\ committer' = s /\ UNCHANGED turn

Next == \E s \in Sessions : Take(s) \/ Commit(s)

Spec == Init /\ [][Next]_<<turn, committer>>
=============================================================================
