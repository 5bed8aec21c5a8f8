----------------------------- MODULE PullService -----------------------------
(***************************************************************************)
(* What asking for a pull promises (requestPull, the sync ticker, a peer   *)
(* that comes up): a batch begins after the request, one batch runs at a   *)
(* time, and requests made meanwhile are answered by a single later batch. *)
(* How a wake-up channel, the main loop and a single-flight worker achieve *)
(* that is in module Lifecycle.                                            *)
(***************************************************************************)
VARIABLES
  owed,     \* a pull was asked for and no batch has begun since
  busy,     \* a batch runs
  round,    \* flips when a batch begins
  stopped   \* the daemon was told to stop

vars == <<owed, busy, round, stopped>>

Init == owed = FALSE /\ busy = FALSE /\ round = FALSE /\ stopped = FALSE

Request == owed' = TRUE /\ UNCHANGED <<busy, round, stopped>>

(* A batch begins, at once after another or after a pause.  Requests that  *)
(* arrive while it is being started may still count as owed.               *)
Begin ==
  /\ owed
  /\ busy' = TRUE
  /\ round' = ~round
  /\ owed' \in BOOLEAN
  /\ UNCHANGED stopped

End == busy /\ busy' = FALSE /\ UNCHANGED <<owed, round, stopped>>

Stop == stopped' = TRUE /\ UNCHANGED <<owed, busy, round>>

Next == Request \/ Begin \/ End \/ Stop

(* While the daemon is up, a pull that is owed begins.                     *)
Spec == Init /\ [][Next]_vars /\ WF_vars(Begin /\ ~stopped)
=============================================================================
