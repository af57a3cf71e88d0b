----------------------------- MODULE RingMemory -----------------------------
(***************************************************************************)
(* A sink's ring in its mirrored memory: records are laid out and walked   *)
(* over (RecordLayout) only while the mapping under the ring exists        *)
(* (MirroredMapping), which threads construct and destroy while the        *)
(* application maps and unmaps memory of its own.                          *)
(***************************************************************************)
EXTENDS RecordLayout, MirroredMapping

CONSTANT owner   \* the thread whose ring is laid out

ASSUME OwnerAssumption == owner \in Threads

RingInit == Init /\ MapInit

\* Log statements and the consumer use the ring.
UseRing == mpc[owner] = "ready" /\ Next /\ UNCHANGED mapVars

\* ~sink closes first: when the ring is destroyed the writer is idle and the
\* consumer has run the last record, which it does not release.  The next ring
\* begins at zero.
Closed == pc = "idle" /\ ring = <<>>

DestroyRing ==
  /\ Closed /\ destroy_mapping(owner)
  /\ nwritten' = 0 /\ nread' = 0 /\ limit' = Capacity /\ rpos' = 0 /\ rend' = 0
  /\ dropped' = 0
  /\ UNCHANGED <<pc, job, cur, end, overflow, ring, walk, posts>>

ChangeMappings ==
  /\ \/ \E t \in Threads : \/ reserve(t) \/ mirror(t) \/ final(t)
                           \/ destroy_mirror(t) \/ destroy_reserve(t)
                           \/ destroy_member(t)
                           \/ t # owner /\ destroy_mapping(t)
     \/ app_map \/ app_unmap
  /\ UNCHANGED vars

RingNext == UseRing \/ DestroyRing \/ ChangeMappings

RingSpec == RingInit /\ [][RingNext]_<<vars, mapVars>>

-----------------------------------------------------------------------------
(* Properties *)

\* The regions of the bytes from one position to another, seen from where the
\* first of them is in the first half of the mapping.
Touched(from, to) ==
  {base[owner] + (((from % Capacity) + k) \div Capacity) : k \in 0..(to - from - 1)}

\* The bytes of the record that is being written, and of the one that is read
\* next, are in the ring's own shared memory, also where the record goes past the
\* end of the first half: it never reaches the end of the mirror, and nobody has
\* unmapped it.
RecordsInOwnMemory ==
  ~twice =>
    \A r \in (IF pc = "args" /\ ~overflow THEN Touched(nwritten, Published(cur)) ELSE {})
             \cup (IF rpos < rend THEN Touched(rpos, NextRecord.next) ELSE {}) :
      r \in Space /\ map[r] = <<owner, "shared">>
=============================================================================
