---------------------------- MODULE ChunkWorkers ----------------------------
(***************************************************************************)
(* The storage nodes: src/worker/WorkerServer.hpp over LocalDiskStorage.   *)
(* A node keeps one file per chunk hash, holding exactly the bytes of that *)
(* hash (POST checks the SHA-256 of the payload before it saves it), so    *)
(* its state is the set of hashes it holds intact.                         *)
(***************************************************************************)
EXTENDS Deployment

VARIABLE disk  \* disk[w]: the chunks node w would serve

DiskTypeOK == disk \in [Worker -> SUBSET Hash]

DiskInit == disk = [w \in Worker |-> {}]

\* POST /chunk: SaveChunk overwrites, so sending a chunk twice is harmless.
PostChunk(w, h) == disk' = [disk EXCEPT ![w] = @ \cup {h}]

\* POST /chunk that fails after SaveChunk has opened, and so truncated, the
\* file: what the node held for this hash is gone.
TearChunk(w, h) == disk' = [disk EXCEPT ![w] = @ \ {h}]

\* DELETE /chunk: absent already counts as deleted.
DropChunk(w, h) == disk' = [disk EXCEPT ![w] = @ \ {h}]
=============================================================================
