---------------------------- MODULE RecordQueue ----------------------------
(***************************************************************************)
(* What one sink's ring buffer promises its two users: a bounded FIFO of   *)
(* words into which records are put whole, from which the consumer is      *)
(* handed each word once, and which forgets exactly the words handed over. *)
(* The unit is the slot, alignof(fptr_t) bytes: every record starts on one *)
(* and occupies a whole number of them.                                    *)
(***************************************************************************)
EXTENDS Integers, Sequences

CONSTANTS Capacity,  \* slots in the ring
          Stored     \* the records a sink may store in it

VARIABLES q,         \* words published and not yet released
          seen,      \* words handed to the consumer since the last release
          closing    \* the consumer has run a close record

RecLen(r) == r.len + r.vlen
Words(r) == [k \in 1..RecLen(r) |-> <<r, k>>]

\* A word that starts a record: where the consumer may find a trampoline.
IsHead(w) == w[2] = 1

\* A word with which a close record is complete.
EndsClose(w) == w[1].kind = "close" /\ w[2] = RecLen(w[1])

QInit == q = <<>> /\ seen = <<>> /\ closing = FALSE

Publish == \E r \in Stored : /\ Len(q) + RecLen(r) <= Capacity
                             /\ q' = q \o Words(r)
                             /\ UNCHANGED <<seen, closing>>

Deliver ==
  /\ ~closing
  /\ Len(seen) < Len(q)
  /\ LET w == q[Len(seen) + 1] IN /\ seen' = Append(seen, w)
                                  /\ closing' = EndsClose(w)
  /\ UNCHANGED q

\* The consumer gives back the records it has been handed, and only those.
Release == /\ ~closing
           /\ Len(seen) < Len(q) => IsHead(q[Len(seen) + 1])
           /\ q' = SubSeq(q, Len(seen) + 1, Len(q))
           /\ seen' = <<>>
           /\ UNCHANGED closing

\* A close record is the last one handed over: what it leaves is thrown away,
\* by the sink and by the consumer in either order, before words flow again.
Discard == closing /\ q' = <<>> /\ UNCHANGED <<seen, closing>>
Forget == closing /\ seen' = <<>> /\ UNCHANGED <<q, closing>>
Reopen == closing /\ seen = <<>> /\ closing' = FALSE /\ UNCHANGED <<q, seen>>

QNext == Publish \/ Deliver \/ Release \/ Discard \/ Forget \/ Reopen

QSpec == QInit /\ [][QNext]_<<q, seen, closing>>
=============================================================================
