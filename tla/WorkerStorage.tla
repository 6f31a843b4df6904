--------------------------- MODULE WorkerStorage ----------------------------
(***************************************************************************)
(* The disk of one worker: the handlers of POST, GET and DELETE /chunk in  *)
(* src/worker/WorkerServer.hpp, which run in the threads of the server,    *)
(* and SaveChunk, LoadChunk and DeleteChunk of LocalDiskStorage.hpp, which *)
(* share a directory and, under a mutex, in_flight_bytes.  ChunkWorkers    *)
(* takes each of these as one step; here their system calls interleave.    *)
(*                                                                         *)
(* Writes of one file exclude each other; a file that is removed while it  *)
(* is open keeps its space until it is closed.  Encrypted chunks have one  *)
(* size, and differ from save to save (random IV), so that a file holds    *)
(* the bytes of one save, none, or some.                                   *)
(***************************************************************************)
EXTENDS Integers, FiniteSets

CONSTANTS
  Hash,
  Save,      \* POST requests; each is also the file it may create
  HashOf,    \* the chunk each of them sends
  Delete,    \* DELETE requests
  Target,    \* the chunk each of those is about
  Size,      \* bytes of an encrypted chunk
  Capacity,  \* bytes of the disk
  Margin     \* the 50 MB that are left free

NoFile == "no file"

ASSUME StorageAssumption ==
  /\ IsFiniteSet(Save) /\ Save \cap Delete = {} /\ NoFile \notin Save
  /\ HashOf \in [Save -> Hash] /\ Target \in [Delete -> Hash]
  /\ {Size, Capacity, Margin} \subseteq Nat

VARIABLES
  dir,        \* the file that <hash>.bin names
  bytes,      \* how much of it each file has
  pc,         \* where each request is
  fd,         \* the file each save has open
  written,    \* saves whose write succeeded
  in_flight,  \* in_flight_bytes
  overtaken,  \* history: saves during which their chunk was deleted or spoilt
  stored      \* history: chunks saved, and not deleted or spoilt during or after that

vars == <<dir, bytes, pc, fd, written, in_flight, overtaken, stored>>

TypeOK ==
  /\ dir \in [Hash -> Save \cup {NoFile}]
  /\ bytes \in [Save -> 0..Size]
  /\ pc \in [Save \cup Delete -> {"begin", "reserved", "open", "closed", "done"}]
  /\ fd \in [Save -> Save \cup {NoFile}]
  /\ written \subseteq Save
  /\ in_flight \in Int
  /\ overtaken \subseteq Save
  /\ stored \subseteq Hash

Init ==
  /\ dir = [h \in Hash |-> NoFile]
  /\ bytes = [s \in Save |-> 0]
  /\ pc = [r \in Save \cup Delete |-> "begin"]
  /\ fd = [s \in Save |-> NoFile]
  /\ written = {}
  /\ in_flight = 0
  /\ overtaken = {}
  /\ stored = {}

Goto(r, where) == pc' = [pc EXCEPT ![r] = where]

\* Files that take space: those with a name, and those that are open.
Files == {f \in Save : (\E h \in Hash : dir[h] = f) \/ (\E s \in Save : fd[s] = f)}

\* The bytes that are in use, as pairs of a file and an offset.
Used == {p \in Files \X (1..Size) : p[2] <= bytes[p[1]]}

\* std::filesystem::space
Available == Capacity - Cardinality(Used)

-----------------------------------------------------------------------------
(* POST /chunk and SaveChunk.                                              *)

\* The payload does not have the hash it is sent under, or is not encrypted.
Reject(s) ==
  /\ pc[s] = "begin"
  /\ Goto(s, "done")
  /\ UNCHANGED <<dir, bytes, fd, written, in_flight, overtaken, stored>>

\* Variant for mutation: space that others have reserved is not subtracted.
SafeSpace_ignoresReserved == Available

\* actual_safe_space
SafeSpace == Available - in_flight

\* ReserveSpace, under the mutex.
ReserveSpace(s) ==
  /\ pc[s] = "begin"
  /\ \/ /\ SafeSpace < Size + Margin
        /\ Goto(s, "done")
        /\ UNCHANGED in_flight
     \/ /\ SafeSpace >= Size + Margin
        /\ in_flight' = in_flight + Size
        /\ Goto(s, "reserved")
  /\ UNCHANGED <<dir, bytes, fd, written, overtaken, stored>>

\* Variant for mutation: the file is opened in place of another one, but a new
\* one is not created.
Open_noCreate(s) ==
  /\ pc[s] = "reserved"
  /\ fd' = [fd EXCEPT ![s] = IF dir[HashOf[s]] = NoFile THEN s ELSE dir[HashOf[s]]]
  /\ bytes' = [bytes EXCEPT ![fd'[s]] = 0]
  /\ Goto(s, "open")
  /\ UNCHANGED <<dir, written, in_flight, overtaken, stored>>

\* The file is created, or emptied if it exists.
Open(s) ==
  /\ pc[s] = "reserved"
  /\ dir' = [dir EXCEPT ![HashOf[s]] = IF @ = NoFile THEN s ELSE @]
  /\ fd' = [fd EXCEPT ![s] = dir'[HashOf[s]]]
  /\ bytes' = [bytes EXCEPT ![fd'[s]] = 0]
  /\ Goto(s, "open")
  /\ UNCHANGED <<written, in_flight, overtaken, stored>>

\* Variant for mutation: the early return keeps the reservation.
OpenFails_keepsReservation(s) ==
  /\ pc[s] = "reserved"
  /\ Goto(s, "done")
  /\ UNCHANGED <<dir, bytes, fd, written, in_flight, overtaken, stored>>

\* It cannot be opened: the reservation is released.
OpenFails(s) ==
  /\ pc[s] = "reserved"
  /\ in_flight' = in_flight - Size
  /\ Goto(s, "done")
  /\ UNCHANGED <<dir, bytes, fd, written, overtaken, stored>>

\* Saves of chunk h that are in progress.
Saving(h) == {s \in Save : HashOf[s] = h /\ pc[s] \in {"reserved", "open", "closed"}}

\* write and flush.  A failing write leaves some bytes.
Write(s) ==
  /\ pc[s] = "open"
  /\ \/ /\ bytes' = [bytes EXCEPT ![fd[s]] = Size]
        /\ written' = written \cup {s}
        /\ UNCHANGED <<overtaken, stored>>
     \/ /\ \E n \in 0..(Size - 1) :
             bytes' = [bytes EXCEPT ![fd[s]] = IF n < @ THEN @ ELSE n]
        /\ overtaken' = overtaken \cup Saving(HashOf[s])
        /\ stored' = stored \ {HashOf[s]}
        /\ UNCHANGED written
  /\ Goto(s, "closed")
  /\ UNCHANGED <<dir, fd, in_flight>>

\* The reservation is released, the file closed and the answer sent.
Release(s) ==
  /\ pc[s] = "closed"
  /\ in_flight' = in_flight - Size
  /\ fd' = [fd EXCEPT ![s] = NoFile]
  /\ stored' = IF s \in written \ overtaken THEN stored \cup {HashOf[s]} ELSE stored
  /\ Goto(s, "done")
  /\ UNCHANGED <<dir, bytes, written, overtaken>>

-----------------------------------------------------------------------------
(* DELETE /chunk and GET /chunk.                                           *)

\* The name is removed, if it is there, or that fails and nothing happens.
DeleteChunk(d) ==
  /\ pc[d] = "begin"
  /\ \/ /\ dir' = [dir EXCEPT ![Target[d]] = NoFile]
        /\ stored' = stored \ {Target[d]}
        /\ overtaken' = overtaken \cup Saving(Target[d])
     \/ UNCHANGED <<dir, overtaken, stored>>
  /\ Goto(d, "done")
  /\ UNCHANGED <<bytes, fd, written, in_flight>>

\* LoadChunk finds a file and can decrypt it.
Loadable(h) == dir[h] # NoFile /\ bytes[dir[h]] = Size

Next ==
  \/ \E s \in Save : \/ Reject(s) \/ ReserveSpace(s) \/ Open(s) \/ OpenFails(s)
                     \/ Write(s) \/ Release(s)
  \/ \E d \in Delete : DeleteChunk(d)

Spec == Init /\ [][Next]_vars

-----------------------------------------------------------------------------
\* Space is not promised twice: what the saves in progress have still to write
\* fits on the disk, and the margin is still free after it.
NotOverallocated ==
  Available - Size * Cardinality({s \in Save : pc[s] \in {"reserved", "open"}}) >= Margin

\* in_flight_bytes is what the saves in progress have reserved: nothing is
\* released twice, or kept by a save that has returned.
ReservationsExact ==
  in_flight = Size * Cardinality({s \in Save : pc[s] \in {"reserved", "open", "closed"}})

\* A chunk that was reported as saved can be loaded whenever no save of it is in
\* progress, also when several saves of it ran at the same time, unless it was
\* deleted, or another save of it failed in its write, during that save or after it.
SavedIsLoadable == \A h \in stored : Saving(h) = {} => Loadable(h)
=============================================================================
