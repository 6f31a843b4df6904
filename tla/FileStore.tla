----------------------------- MODULE FileStore ------------------------------
(***************************************************************************)
(* What the storage engine promises its users: a file that was uploaded    *)
(* reads back exactly as it was, until its owner removes the name.         *)
(***************************************************************************)
EXTENDS Sequences

CONSTANTS Name, FileId, Contents

VARIABLE store  \* store[f]: the name of an uploaded file and what it reads as

StoredFile == [name : Name, data : Contents]

Init == store = [f \in {} |-> f]

\* An upload makes a new file appear, complete.
Put(f, n, s) ==
  /\ f \notin DOMAIN store
  /\ store' = [g \in DOMAIN store \cup {f} |->
                 IF g = f THEN [name |-> n, data |-> s] ELSE store[g]]

\* Removing a name removes every file that has it, and nothing else.
Remove(n) ==
  store' = [f \in {g \in DOMAIN store : store[g].name # n} |-> store[f]]

Next ==
  \/ \E f \in FileId, n \in Name, s \in Contents : Put(f, n, s)
  \/ \E n \in Name : Remove(n)

Spec == Init /\ [][Next]_store
=============================================================================
