----------------------------- MODULE Deployment -----------------------------
(***************************************************************************)
(* What every component of the deployment (docker-compose.yml) refers to.  *)
(***************************************************************************)
CONSTANTS
  Hash,    \* SHA-256 hashes of chunks; equal hashes are equal chunks
  Worker,  \* storage nodes (worker_nodes.worker_id)
  Faults   \* the failures a run allows

(***************************************************************************)
(*   exists_unknown      the preflight existence check cannot reach the    *)
(*                       master, which the client takes for "no such file" *)
(*   master_crash        a master dies in the middle of a collection       *)
(*   bulk_delete_error   the DELETE of purged rows fails                   *)
(*   revert_error        the UPDATE that reverts a tombstone fails         *)
(*   sweep_commit_error  the COMMIT of the tombstoning transaction fails   *)
(*   torn_write          a worker fails while it is writing a chunk        *)
(*   cleanup_crash       a client dies between removing its manifest and   *)
(*                       removing its log                                  *)
(* Lost answers, failed uploads and deletions, pauses and client crashes   *)
(* elsewhere need no switch: they may always happen.                       *)
(***************************************************************************)
FaultKinds ==
  {"exists_unknown", "master_crash", "bulk_delete_error", "revert_error",
   "sweep_commit_error", "torn_write", "cleanup_crash"}

ASSUME DeploymentAssumption == Faults \subseteq FaultKinds
=============================================================================
