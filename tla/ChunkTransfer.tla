--------------------------- MODULE ChunkTransfer ----------------------------
(***************************************************************************)
(* What ITransferManager::Upload promises its caller, whatever its threads *)
(* do: while it runs, replicas are acknowledged one by one and the indices *)
(* of chunks with an acknowledged replica may be written to the log; when  *)
(* it returns, the log has all of them, and it returns TRUE only if every  *)
(* replica of every pending chunk has been acknowledged.                   *)
(***************************************************************************)
CONSTANT Replica     \* pairs of a pending chunk's index and one of its nodes

VARIABLES acked, logged, outcome

transferVars == <<acked, logged, outcome>>

\* The indices with an acknowledged replica.
Sent(replicas) == {r[1] : r \in replicas}

TransferInit ==
  /\ acked = {}
  /\ logged = {}
  /\ outcome = "running"

Acknowledge(r) ==
  /\ outcome = "running"
  /\ acked' = acked \cup {r}
  /\ UNCHANGED <<logged, outcome>>

WriteLog ==
  /\ outcome = "running"
  /\ logged \subseteq logged' /\ logged' \subseteq Sent(acked)
  /\ UNCHANGED <<acked, outcome>>

Return(answer) ==
  /\ outcome = "running"
  /\ answer = "true" => acked = Replica
  /\ logged' = Sent(acked)
  /\ outcome' = answer
  /\ UNCHANGED acked

\* The process is killed, or kills itself.
Die ==
  /\ outcome = "running"
  /\ outcome' = "dead"
  /\ UNCHANGED <<acked, logged>>

TransferNext ==
  \/ \E r \in Replica : Acknowledge(r)
  \/ WriteLog
  \/ \E answer \in {"true", "false"} : Return(answer)
  \/ Die

TransferSpec == TransferInit /\ [][TransferNext]_transferVars
=============================================================================
