-------------------- MODULE SynchronizedRingBufferProofs --------------------
(***************************************************************************)
(* Proofs, for every capacity, modulus and set of records, that the ring   *)
(* buffer keeps its inductive invariant, never lets a post overwrite an    *)
(* unread word, hands the consumer whole records, and implements the       *)
(* bounded FIFO of module RecordQueue; and, for any number of threads,     *)
(* regions and rings, that mapping and unmapping the memory of rings takes *)
(* nobody's memory and leaves none behind.                                 *)
(***************************************************************************)
EXTENDS SynchronizedRingBuffer, MirroredMapping, TLAPS

-----------------------------------------------------------------------------
(* The mirrored mapping under the ring.  A thread owns its regions because
   nobody else's step writes a region that is not free or its own; that two
   threads' regions are apart follows from what they map: each maps its owner. *)

Labels == {"idle", "mirror", "~reserve", "final", "~mirror", "ready", "~m_"}

MapTypeOK ==
  /\ DOMAIN map = Space
  /\ mpc \in [Threads -> Labels] /\ base \in [Threads -> Space]
  /\ rings \in [Threads -> Nat] /\ held \subseteq Space /\ twice \in BOOLEAN

\* The regions thread t has yet to unmap.
Span(t) == CASE mpc[t] = "idle" -> {} [] mpc[t] = "~m_" -> {LowerHalf(t)}
             [] OTHER -> {LowerHalf(t), UpperHalf(t)}

\* What the regions of thread t map, as far as its constructor or destructor got.
Owns(t) ==
  /\ mpc[t] \in Labels \ {"idle", "~m_"} => UpperHalf(t) \in Space
  /\ mpc[t] = "mirror" => map[LowerHalf(t)] = <<t, "private">> /\ map[UpperHalf(t)] = <<t, "private">>
  /\ mpc[t] \in {"final", "~mirror"} =>
       map[LowerHalf(t)] = <<t, "private">> /\ map[UpperHalf(t)] = <<t, "shared">>
  /\ mpc[t] = "~reserve" => map[LowerHalf(t)] = <<t, "private">> /\ map[UpperHalf(t)] = <<t, "private">>
  /\ mpc[t] = "ready" => map[LowerHalf(t)] = <<t, "shared">> /\ map[UpperHalf(t)] = <<t, "shared">>
  /\ mpc[t] = "~m_" => map[LowerHalf(t)] = <<t, "shared">>

MInv ==
  /\ MapTypeOK
  /\ ~twice => (\A t \in Threads : Owns(t)) /\ (\A r \in held : map[r] = <<App, "own">>)
  /\ \A r \in Space : map[r] = None \/ r \in held \/ \E t \in Threads : r \in Span(t)

\* The initial state: no thread has a region, and nothing is mapped.
LEMMA InitMInv == MapInit => MInv
<1> SUFFICES ASSUME MapInit PROVE MInv
  BY Zenon
<1>1. MapTypeOK
  <2>1. 0 \in Space
    BY MappingAssumption DEF Space
  <2> QED BY <2>1, Zenon DEF MapInit, MapTypeOK, Labels
<1>2. \A t \in Threads : Owns(t)
  BY Zenon DEF MapInit, Owns, Labels
<1> QED BY <1>1, <1>2, Zenon DEF MapInit, MInv

\* A thread that stands still keeps what it owns if none of its regions is written.
LEMMA OwnsKept ==
  ASSUME MapTypeOK, NEW u \in Threads, Owns(u), mpc'[u] = mpc[u], base'[u] = base[u],
         \A x \in Space : map[x] \in {<<u, "private">>, <<u, "shared">>} => map'[x] = map[x]
  PROVE  Owns(u)'
<1>1. LowerHalf(u) \in Space /\ LowerHalf(u)' = LowerHalf(u) /\ UpperHalf(u)' = UpperHalf(u)
  BY Zenon DEF MapTypeOK, LowerHalf, UpperHalf
<1>2. mpc[u] \in Labels
  BY Zenon DEF MapTypeOK
<1> QED BY <1>1, <1>2, Zenon DEF Owns, Labels

\* A step of thread t's constructor or destructor keeps MInv.
LEMMA ThreadStepMInv ==
  ASSUME MInv, NEW t \in Threads,
         reserve(t) \/ mirror(t) \/ final(t) \/ destroy_mirror(t) \/ destroy_reserve(t)
           \/ destroy_mapping(t) \/ destroy_member(t)
  PROVE  MInv'
<1> USE MappingAssumption
<1>1. CASE reserve(t)
  <2>1. MapTypeOK'
    BY <1>1 DEF MInv, MapTypeOK, Labels, reserve, MapAt, Goto
  <2>2. (\A r \in Space : map[r] = None \/ r \in held \/ \E u \in Threads : r \in Span(u))'
    BY <1>1 DEF MInv, MapTypeOK, Labels, reserve, MapAt, Goto, Span, LowerHalf, UpperHalf, Reserved
  <2>3. ASSUME ~twice' PROVE (\A u \in Threads : Owns(u))' /\ (\A r \in held : map[r] = <<App, "own">>)'
    <3>1. ~twice
      BY <1>1, <2>3, Zenon DEF reserve
    <3>2. (\A r \in held : map[r] = <<App, "own">>)'
      <4>1. \A x \in Space : map[x] = <<App, "own">> => map'[x] = map[x]
        BY <1>1, <3>1 DEF MInv, MapTypeOK, Labels, reserve, MapAt, Reserved, Unmapped, Owns, LowerHalf, UpperHalf
      <4> QED BY <1>1, <3>1, <4>1, Zenon DEF MInv, MapTypeOK, reserve
    <3>3. Owns(t)'
      <4>1. CASE UNCHANGED <<map, mpc, base>>
        BY <3>1, <4>1, Zenon DEF MInv, Owns, LowerHalf, UpperHalf
      <4>2. CASE \E r \in Space : /\ \A x \in Reserved(r) : Unmapped(x)
                                 /\ MapAt(Reserved(r), <<t, "private">>)
                                 /\ base' = [base EXCEPT ![t] = r] /\ Goto(t, "mirror")
        <5> PICK r \in Space : /\ \A x \in Reserved(r) : Unmapped(x)
                               /\ MapAt(Reserved(r), <<t, "private">>)
                               /\ base' = [base EXCEPT ![t] = r] /\ Goto(t, "mirror")
          BY <4>2, Zenon
        <5>1. LowerHalf(t)' = r /\ UpperHalf(t)' = r + 1 /\ mpc'[t] = "mirror"
          BY Zenon DEF MInv, MapTypeOK, LowerHalf, UpperHalf, Goto
        <5>2. r + 1 \in Space /\ map'[r] = <<t, "private">> /\ map'[r + 1] = <<t, "private">>
          BY Zenon DEF Reserved, Unmapped, MapAt
        <5> QED BY <5>1, <5>2, Zenon DEF Owns
      <4> QED BY <1>1, <4>1, <4>2, Zenon DEF reserve
    <3>4. ASSUME NEW u \in Threads, u # t PROVE Owns(u)'
      <4>1. mpc'[u] = mpc[u] /\ base'[u] = base[u]
        BY <1>1, <3>4, Zenon DEF MInv, MapTypeOK, reserve, Goto
      <4>2. \A x \in Space : map[x] \in {<<u, "private">>, <<u, "shared">>} => map'[x] = map[x]
        BY <1>1, <3>1, <3>4 DEF MInv, MapTypeOK, Labels, reserve, MapAt, Reserved, Unmapped, Owns, LowerHalf, UpperHalf
      <4> QED BY <3>1, <4>1, <4>2, OwnsKept, Zenon DEF MInv
    <3> QED BY <3>2, <3>3, <3>4, Zenon
  <2> QED BY <2>1, <2>2, <2>3, Zenon DEF MInv
<1>2. CASE mirror(t)
  <2>1. MapTypeOK'
    BY <1>2, Zenon DEF MInv, MapTypeOK, Labels, mirror, MapAt, Goto
  <2>2. (\A r \in Space : map[r] = None \/ r \in held \/ \E u \in Threads : r \in Span(u))'
    BY <1>2 DEF MInv, MapTypeOK, Labels, mirror, MapAt, Goto, Span, LowerHalf, UpperHalf
  <2>3. ASSUME ~twice' PROVE (\A u \in Threads : Owns(u))' /\ (\A r \in held : map[r] = <<App, "own">>)'
    <3>1. ~twice
      BY <1>2, <2>3, Zenon DEF mirror
    <3>2. (\A r \in held : map[r] = <<App, "own">>)'
      BY <1>2, <3>1, SMTT(30) DEF MInv, MapTypeOK, Labels, mirror, MapAt, Goto, Owns, LowerHalf, UpperHalf, Space
    <3>3. Owns(t)'
      BY <1>2, <3>1 DEF MInv, MapTypeOK, Labels, mirror, MapAt, Goto, Owns, LowerHalf, UpperHalf, Space
    <3>4. ASSUME NEW u \in Threads, u # t PROVE Owns(u)'
      <4>1. mpc'[u] = mpc[u] /\ base'[u] = base[u]
        BY <1>2, <3>4, Zenon DEF MInv, MapTypeOK, mirror, Goto
      <4>2. \A x \in Space : map[x] \in {<<u, "private">>, <<u, "shared">>} => map'[x] = map[x]
        BY <1>2, <3>1, <3>4 DEF MInv, MapTypeOK, Labels, mirror, MapAt, Owns, LowerHalf, UpperHalf
      <4> QED BY <3>1, <4>1, <4>2, OwnsKept, Zenon DEF MInv
    <3> QED BY <3>2, <3>3, <3>4, Zenon
  <2> QED BY <2>1, <2>2, <2>3, Zenon DEF MInv
<1>3. CASE final(t)
  <2>1. MapTypeOK'
    BY <1>3, Zenon DEF MInv, MapTypeOK, Labels, final, MapAt, Goto
  <2>2. (\A r \in Space : map[r] = None \/ r \in held \/ \E u \in Threads : r \in Span(u))'
    BY <1>3 DEF MInv, MapTypeOK, Labels, final, MapAt, Goto, Span, LowerHalf, UpperHalf
  <2>3. ASSUME ~twice' PROVE (\A u \in Threads : Owns(u))' /\ (\A r \in held : map[r] = <<App, "own">>)'
    <3>1. ~twice
      BY <1>3, <2>3, Zenon DEF final
    <3>2. (\A r \in held : map[r] = <<App, "own">>)'
      <4>1. \A x \in Space : map[x] = <<App, "own">> => map'[x] = map[x]
        BY <1>3, <3>1 DEF MInv, MapTypeOK, Labels, final, MapAt, FinalObject, Owns, LowerHalf, UpperHalf
      <4> QED BY <1>3, <3>1, <4>1, Zenon DEF MInv, MapTypeOK, final
    <3>3. Owns(t)'
      <4>1. /\ LowerHalf(t) \in Space /\ UpperHalf(t) \in Space /\ LowerHalf(t) # UpperHalf(t)
            /\ LowerHalf(t)' = LowerHalf(t) /\ UpperHalf(t)' = UpperHalf(t)
            /\ map[LowerHalf(t)] = <<t, "private">> /\ map[UpperHalf(t)] = <<t, "shared">>
        BY <1>3, <3>1 DEF MInv, MapTypeOK, Labels, final, Owns, LowerHalf, UpperHalf, Space
      <4>2. \/ mpc'[t] = "ready" /\ map'[LowerHalf(t)] = map[UpperHalf(t)] /\ map'[UpperHalf(t)] = map[UpperHalf(t)]
            \/ mpc'[t] = "~mirror" /\ map' = map
        BY <1>3, <4>1, Zenon DEF MInv, MapTypeOK, final, FinalObject, MapAt, Goto
      <4> QED BY <4>1, <4>2, Zenon DEF Owns
    <3>4. ASSUME NEW u \in Threads, u # t PROVE Owns(u)'
      <4>1. mpc'[u] = mpc[u] /\ base'[u] = base[u]
        BY <1>3, <3>4, Zenon DEF MInv, MapTypeOK, final, Goto
      <4>2. \A x \in Space : map[x] \in {<<u, "private">>, <<u, "shared">>} => map'[x] = map[x]
        BY <1>3, <3>1, <3>4 DEF MInv, MapTypeOK, Labels, final, MapAt, FinalObject, Owns, LowerHalf, UpperHalf
      <4> QED BY <3>1, <4>1, <4>2, OwnsKept, Zenon DEF MInv
    <3> QED BY <3>2, <3>3, <3>4, Zenon
  <2> QED BY <2>1, <2>2, <2>3, Zenon DEF MInv
<1>4. CASE destroy_mirror(t)
  <2>1. MapTypeOK' /\ twice'
    BY <1>4, Zenon DEF MInv, MapTypeOK, Labels, destroy_mirror, munmap, MapAt, Goto
  <2>2. (\A r \in Space : map[r] = None \/ r \in held \/ \E u \in Threads : r \in Span(u))'
    BY <1>4, Zenon DEF MInv, MapTypeOK, Labels, destroy_mirror, munmap, MapAt, Goto, Span, LowerHalf, UpperHalf
  <2> QED BY <2>1, <2>2, Zenon DEF MInv
<1>5. CASE destroy_reserve(t)
  <2>1. MapTypeOK'
    BY <1>5, Zenon DEF MInv, MapTypeOK, Labels, destroy_reserve, munmap, MapAt, Goto
  <2>2. (\A r \in Space : map[r] = None \/ r \in held \/ \E u \in Threads : r \in Span(u))'
    BY <1>5, Zenon DEF MInv, MapTypeOK, Labels, destroy_reserve, munmap, MapAt, Goto, Span, LowerHalf, UpperHalf
  <2>3. ASSUME ~twice' PROVE (\A u \in Threads : Owns(u))' /\ (\A r \in held : map[r] = <<App, "own">>)'
    <3>1. ~twice
      BY <1>5, <2>3, Zenon DEF destroy_reserve
    <3>2. (\A r \in held : map[r] = <<App, "own">>)'
      BY <1>5, <3>1 DEF MInv, MapTypeOK, Labels, destroy_reserve, munmap, MapAt, Goto, Owns, LowerHalf, UpperHalf, Space
    <3>3. Owns(t)'
      BY <1>5, <3>1, Zenon DEF MInv, MapTypeOK, Labels, destroy_reserve, munmap, MapAt, Goto, Owns, LowerHalf, UpperHalf, Space
    <3>4. ASSUME NEW u \in Threads, u # t PROVE Owns(u)'
      <4>1. mpc'[u] = mpc[u] /\ base'[u] = base[u]
        BY <1>5, <3>4, Zenon DEF MInv, MapTypeOK, destroy_reserve, Goto
      <4>2. \A x \in Space : map[x] \in {<<u, "private">>, <<u, "shared">>} => map'[x] = map[x]
        BY <1>5, <3>1, <3>4 DEF MInv, MapTypeOK, Labels, destroy_reserve, MapAt, munmap, Owns, LowerHalf, UpperHalf
      <4> QED BY <3>1, <4>1, <4>2, OwnsKept, Zenon DEF MInv
    <3> QED BY <3>2, <3>3, <3>4, Zenon
  <2> QED BY <2>1, <2>2, <2>3, Zenon DEF MInv
<1>6. CASE destroy_mapping(t)
  <2>1. MapTypeOK'
    BY <1>6, Zenon DEF MInv, MapTypeOK, Labels, destroy_mapping, munmap, MirrorRange, MapAt, Goto
  <2>2. (\A r \in Space : map[r] = None \/ r \in held \/ \E u \in Threads : r \in Span(u))'
    BY <1>6 DEF MInv, MapTypeOK, Labels, destroy_mapping, munmap, MirrorRange, MapAt, Goto, Span, LowerHalf, UpperHalf
  <2>3. ASSUME ~twice' PROVE (\A u \in Threads : Owns(u))' /\ (\A r \in held : map[r] = <<App, "own">>)'
    <3>1. ~twice
      BY <1>6, <2>3, Zenon DEF destroy_mapping
    <3>2. (\A r \in held : map[r] = <<App, "own">>)'
      <4>1. \A x \in Space : map[x] = <<App, "own">> => map'[x] = map[x]
        BY <1>6, <3>1 DEF MInv, MapTypeOK, Labels, destroy_mapping, MapAt, munmap, MirrorRange, Owns, LowerHalf, UpperHalf
      <4> QED BY <1>6, <3>1, <4>1, Zenon DEF MInv, MapTypeOK, destroy_mapping
    <3>3. Owns(t)'
      <4>1. /\ LowerHalf(t) \in Space /\ LowerHalf(t) # UpperHalf(t) /\ LowerHalf(t)' = LowerHalf(t)
            /\ map[LowerHalf(t)] = <<t, "shared">>
        BY <1>6, <3>1 DEF MInv, MapTypeOK, destroy_mapping, Owns, LowerHalf, UpperHalf, Space
      <4>2. mpc'[t] = "~m_" /\ map'[LowerHalf(t)] = map[LowerHalf(t)]
        BY <1>6, <4>1, Zenon DEF MInv, MapTypeOK, destroy_mapping, munmap, MirrorRange, MapAt, Goto
      <4> QED BY <4>1, <4>2, Zenon DEF Owns
    <3>4. ASSUME NEW u \in Threads, u # t PROVE Owns(u)'
      <4>1. mpc'[u] = mpc[u] /\ base'[u] = base[u]
        BY <1>6, <3>4, Zenon DEF MInv, MapTypeOK, destroy_mapping, Goto
      <4>2. \A x \in Space : map[x] \in {<<u, "private">>, <<u, "shared">>} => map'[x] = map[x]
        BY <1>6, <3>1, <3>4 DEF MInv, MapTypeOK, Labels, destroy_mapping, MapAt, munmap, MirrorRange, Owns, LowerHalf, UpperHalf
      <4> QED BY <3>1, <4>1, <4>2, OwnsKept, Zenon DEF MInv
    <3> QED BY <3>2, <3>3, <3>4, Zenon
  <2> QED BY <2>1, <2>2, <2>3, Zenon DEF MInv
<1>7. CASE destroy_member(t)
  <2>1. MapTypeOK'
    BY <1>7, Zenon DEF MInv, MapTypeOK, Labels, destroy_member, munmap, MemberRange, MapAt, Goto
  <2>2. (\A r \in Space : map[r] = None \/ r \in held \/ \E u \in Threads : r \in Span(u))'
    BY <1>7, Zenon DEF MInv, MapTypeOK, Labels, destroy_member, munmap, MemberRange, MapAt, Goto, Span, LowerHalf, UpperHalf
  <2>3. ASSUME ~twice' PROVE (\A u \in Threads : Owns(u))' /\ (\A r \in held : map[r] = <<App, "own">>)'
    <3>1. ~twice
      BY <1>7, <2>3, Zenon DEF destroy_member
    <3>2. (\A r \in held : map[r] = <<App, "own">>)'
      BY <1>7, <3>1 DEF MInv, MapTypeOK, Labels, destroy_member, munmap, MemberRange, MapAt, Goto, Owns, LowerHalf, UpperHalf, Space
    <3>3. Owns(t)'
      BY <1>7, <3>1, Zenon DEF MInv, MapTypeOK, Labels, destroy_member, munmap, MemberRange, MapAt, Goto, Owns, LowerHalf, UpperHalf, Space
    <3>4. ASSUME NEW u \in Threads, u # t PROVE Owns(u)'
      <4>1. mpc'[u] = mpc[u] /\ base'[u] = base[u]
        BY <1>7, <3>4, Zenon DEF MInv, MapTypeOK, destroy_member, Goto
      <4>2. \A x \in Space : map[x] \in {<<u, "private">>, <<u, "shared">>} => map'[x] = map[x]
        BY <1>7, <3>1, <3>4 DEF MInv, MapTypeOK, Labels, destroy_member, MapAt, munmap, MemberRange, Owns, LowerHalf, UpperHalf
      <4> QED BY <3>1, <4>1, <4>2, OwnsKept, Zenon DEF MInv
    <3> QED BY <3>2, <3>3, <3>4, Zenon
  <2> QED BY <2>1, <2>2, <2>3, Zenon DEF MInv
<1> QED BY <1>1, <1>2, <1>3, <1>4, <1>5, <1>6, <1>7, Zenon

\* The application maps free regions and unmaps its own.
LEMMA AppStepMInv ==
  ASSUME MInv, app_map \/ app_unmap
  PROVE  MInv'
<1> USE MappingAssumption
<1>1. CASE app_map
  <2> PICK r \in Space : /\ Unmapped(r) /\ MapAt({r}, <<App, "own">>)
                         /\ held' = held \cup {r} /\ UNCHANGED <<mpc, base, rings, twice>>
    BY <1>1, Zenon DEF app_map
  <2>1. MapTypeOK'
    BY Zenon DEF MInv, MapTypeOK, MapAt
  <2>2. (\A x \in Space : map[x] = None \/ x \in held \/ \E u \in Threads : x \in Span(u))'
    BY Zenon DEF MInv, MapTypeOK, MapAt, Span, LowerHalf, UpperHalf
  <2>3. ASSUME ~twice' PROVE (\A x \in held : map[x] = <<App, "own">>)'
    BY <2>3, Zenon DEF MInv, MapTypeOK, MapAt
  <2>4. ASSUME ~twice', NEW u \in Threads PROVE Owns(u)'
    BY <2>4 DEF MInv, MapTypeOK, MapAt, Unmapped, Owns, LowerHalf, UpperHalf, Labels
  <2> QED BY <2>1, <2>2, <2>3, <2>4, Zenon DEF MInv
<1>2. CASE app_unmap
  BY <1>2 DEF MInv, MapTypeOK, app_unmap, munmap, MapAt, Span, Owns, LowerHalf, UpperHalf, Labels
<1> QED BY <1>1, <1>2, Zenon

\* MInv is inductive.
THEOREM MappingInvariance == MapSpec => []MInv
<1>1. MInv /\ [MapNext]_mapVars => MInv'
  <2> SUFFICES ASSUME MInv, [MapNext]_mapVars PROVE MInv'
    BY Zenon
  <2>1. CASE UNCHANGED mapVars
    BY <2>1, Zenon DEF MInv, MapTypeOK, Owns, Span, LowerHalf, UpperHalf, mapVars
  <2>2. CASE MapNext
    BY <2>2, ThreadStepMInv, AppStepMInv, Zenon DEF MapNext
  <2> QED BY <2>1, <2>2, Zenon
<1> QED BY InitMInv, <1>1, PTL DEF MapSpec

\* mirrored_memory_mapping: a ring keeps both halves on its own shared memory, and
\* the application keeps its mappings, for any number of threads and regions.
THEOREM MemoryIsKept == MapSpec => []OwnersKeepMemory
<1>1. MInv => OwnersKeepMemory
  BY Zenon DEF MInv, OwnersKeepMemory, Owns
<1> QED BY <1>1, MappingInvariance, PTL

\* The destructors and the failing constructors unmap all that was mapped.
THEOREM NothingIsLeaked == MapSpec => []NothingLeaked
<1>1. MInv => NothingLeaked
  BY Zenon DEF MInv, NothingLeaked, Span
<1> QED BY <1>1, MappingInvariance, PTL

-----------------------------------------------------------------------------
(* Arithmetic of the wrapping counters. *)

\* Division with remainder is unique.
LEMMA DivModUnique ==
  ASSUME NEW C \in Nat \ {0}, NEW q1 \in Int, NEW q2 \in Int,
         NEW r1 \in 0..(C - 1), NEW r2 \in 0..(C - 1),
         C * q1 + r1 = C * q2 + r2
  PROVE  r1 = r2
<1>1. C * (q1 - q2) = r2 - r1
  OBVIOUS
<1>2. CASE q1 - q2 >= 1
  <2>1. C * (q1 - q2) >= C
    BY <1>2
  <2> QED BY <1>1, <2>1
<1>3. CASE q2 - q1 >= 1
  <2>1. C * (q2 - q1) >= C
    BY <1>3
  <2>2. C * (q2 - q1) = r1 - r2
    OBVIOUS
  <2> QED BY <2>1, <2>2
<1>4. CASE q1 = q2
  BY <1>1, <1>4
<1> QED BY <1>2, <1>3, <1>4

\* clamp() of a counter is an index into the first mapping.
LEMMA ClampRange ==
  ASSUME NEW n \in Nat
  PROVE  clamp(n) \in 0..(Capacity - 1) /\ \E k \in Nat : n = Capacity * k + clamp(n)
<1>1. /\ n = Capacity * (n \div Capacity) + (n % Capacity)
      /\ n % Capacity \in 0..(Capacity - 1)
      /\ n \div Capacity \in Nat
  BY CapacityAssumption
<1> QED BY <1>1, Zenon DEF clamp

\* Adding to a counter, in one go or in two.
LEMMA AddFacts ==
  ASSUME NEW a \in Counter, NEW i \in 0..Capacity, NEW j \in 0..Capacity,
         i + j <= Capacity
  PROVE  /\ Add(a, i) \in Counter
         /\ Add(Add(a, i), j) = Add(a, i + j)
         /\ Add(a, 0) = a
BY CapacityAssumption DEF Add, Counter

\* Publishing n words takes them from the free ones, as seen by the writer
\* (c) and in fact (p).
LEMMA PublishCounters ==
  ASSUME NEW w \in Counter, NEW p \in Counter, NEW c \in Counter, NEW n \in Nat,
         n <= Sub(c, w), Sub(c, w) <= Sub(p, w), Sub(p, w) <= Capacity
  PROVE  /\ Add(w, n) \in Counter
         /\ Sub(c, Add(w, n)) = Sub(c, w) - n
         /\ Sub(p, Add(w, n)) = Sub(p, w) - n
         /\ Sub(Add(w, n), Sub(p, Capacity)) = Sub(w, Sub(p, Capacity)) + n
BY CapacityAssumption DEF Add, Sub, Counter

\* Releasing n words gives them to the free ones.
LEMMA ReleaseCounters ==
  ASSUME NEW w \in Counter, NEW p \in Counter, NEW n \in Nat,
         n <= Sub(w, Sub(p, Capacity)), Sub(w, Sub(p, Capacity)) <= Capacity
  PROVE  /\ Add(p, n) \in Counter
         /\ Sub(Add(p, n), w) = Sub(p, w) + n
         /\ Sub(Add(p, n), Capacity) = Add(Sub(p, Capacity), n)
         /\ Sub(w, Sub(Add(p, n), Capacity)) = Sub(w, Sub(p, Capacity)) - n
BY CapacityAssumption DEF Add, Sub, Counter

\* Wrapping at Modulus does not disturb the offset in the ring.
LEMMA ClampAdd ==
  ASSUME NEW a \in Counter, NEW i \in 0..Capacity
  PROVE  \E k \in Int : a + i = Capacity * k + clamp(Add(a, i))
<1>1. Add(a, i) \in Nat
  BY AddFacts, CapacityAssumption DEF Counter, Add
<1>2. PICK k \in Nat : Add(a, i) = Capacity * k + clamp(Add(a, i))
  BY <1>1, ClampRange, Zenon
<1>3. Modulus = Capacity * (Modulus \div Capacity) /\ Modulus \div Capacity \in Nat
  BY CapacityAssumption
<1>c. clamp(Add(a, i)) \in Int
  BY <1>1, ClampRange, CapacityAssumption
<1>4. CASE Add(a, i) = a + i
  BY <1>2, <1>4
<1>5. CASE Add(a, i) = a + i - Modulus
  <2> DEFINE d == Modulus \div Capacity
  <2>1. d \in Int /\ k + d \in Int
    BY <1>3
  <2>2. Capacity * (k + d) = Capacity * k + Capacity * d
    BY <2>1, CapacityAssumption
  <2>3. a + i = Capacity * (k + d) + clamp(Add(a, i))
    BY <1>2, <1>3, <1>5, <1>c, <2>1, <2>2, CapacityAssumption DEF Counter
  <2> QED BY <2>1, <2>3, Zenon
<1> QED BY <1>4, <1>5, Zenon DEF Add

\* Within one lap different positions have different offsets.
LEMMA ClampInjective ==
  ASSUME NEW a \in Counter, NEW i \in 0..(Capacity - 1), NEW j \in 0..(Capacity - 1),
         clamp(Add(a, i)) = clamp(Add(a, j))
  PROVE  i = j
<1>0. i \in 0..Capacity /\ j \in 0..Capacity
  BY ONLY i \in 0..(Capacity - 1), j \in 0..(Capacity - 1), CapacityAssumption
<1>1. PICK k \in Int : a + i = Capacity * k + clamp(Add(a, i))
  BY <1>0, ClampAdd, Zenon
<1>2. PICK l \in Int : a + j = Capacity * l + clamp(Add(a, j))
  BY <1>0, ClampAdd, Zenon
<1>c. clamp(Add(a, i)) \in Int
  BY AddFacts, ClampRange, CapacityAssumption DEF Counter, Add
<1>3. i - j = Capacity * k - Capacity * l
  BY <1>1, <1>2, <1>c, CapacityAssumption DEF Counter
<1>4. i - j = Capacity * (k - l)
  BY <1>3, CapacityAssumption
<1>5. Capacity * (k - l) + 0 = Capacity * 0 + (i - j) /\ Capacity * (l - k) + 0 = Capacity * 0 + (j - i)
  BY <1>4, CapacityAssumption
<1>6. CASE i >= j
  BY <1>5, <1>6, DivModUnique, CapacityAssumption
<1>7. CASE i < j
  BY <1>5, <1>7, DivModUnique, CapacityAssumption
<1> QED BY <1>6, <1>7

-----------------------------------------------------------------------------
(* Records and the state of the ring. *)

\* What every record that can be in the ring looks like.
LEMMA StoredFacts ==
  ASSUME NEW r \in Stored
  PROVE  /\ r \in RecordType
         /\ r # NoRecord
         /\ RecLen(r) \in Nat /\ RecLen(r) >= r.len /\ r.len \in 1..Capacity
         /\ Truncated(r) \in Stored
         /\ RecLen(Truncated(r)) = r.len
         /\ Truncated(r).len = r.len
<1>1. \A x \in RecordType : /\ Truncated(x) \in RecordType
                            /\ Truncated(x).len = x.len
                            /\ Truncated(x).vlen = 0
                            /\ Truncated(Truncated(x)) = Truncated(x)
  BY Zenon DEF RecordType, Truncated
<1>2. r \in RecordType /\ Truncated(r) \in Stored
  BY <1>1, RecordsAssumption, Zenon DEF Stored
<1>3. r # NoRecord
  BY <1>2 DEF RecordType, NoRecord
<1>4. r.len \in 1..Capacity /\ r.vlen \in Nat
  BY <1>2, Zenon DEF RecordType
<1>5. RecLen(Truncated(r)) = r.len + 0
  BY <1>1, <1>2, Zenon DEF RecLen
<1> QED BY <1>1, <1>2, <1>3, <1>4, <1>5, CapacityAssumption DEF RecLen

\* The counters split the ring into unread words and free ones.
LEMMA CounterFacts ==
  ASSUME TypeOK, CountersInv
  PROVE  /\ nread \in Counter
         /\ Used \in 0..Capacity /\ Free \in 0..Capacity
         /\ CachedFree \in 0..Capacity
         /\ Used + Free = Capacity
         /\ wrnwritten = Add(nread, Used)
         /\ nwritten = nread <=> Used = 0
BY CapacityAssumption
   DEF TypeOK, CountersInv, nread, Used, Free, CachedFree, Counter, Sub, Add

\* A word of the ring, seen from the reader and from the writer.
LEMMA CellFacts ==
  ASSUME TypeOK, CountersInv
  PROVE  /\ \A i \in 1..Used : Contents[i] = cells[clamp(Add(nread, i - 1))]
         /\ \A i \in 0..Capacity : clamp(Add(nread, i)) \in 0..(Capacity - 1)
         /\ \A j \in 0..Free : Add(wrnwritten, j) = Add(nread, Used + j)
<1> USE CounterFacts, CapacityAssumption
<1>1. \A i \in 0..Capacity : Add(nread, i) \in Counter
  BY AddFacts
<1>2. \A i \in 0..Capacity : Add(nread, i) \in Nat
  BY <1>1 DEF Counter
<1>3. \A i \in 0..Capacity : clamp(Add(nread, i)) \in 0..(Capacity - 1)
  BY <1>2, ClampRange, Zenon
<1>4. ASSUME NEW j \in 0..Free
      PROVE  Add(wrnwritten, j) = Add(nread, Used + j)
  BY <1>4, AddFacts
<1> QED BY <1>3, <1>4, Zenon DEF Contents

\* The record loop stops at the latest at the end of the span.
LEMMA SpanEndFacts ==
  ASSUME TypeOK
  PROVE  SpanEnd \in Int /\ SpanEnd <= rsize
<1>1. rbegin \in Nat /\ rsize \in Int
  BY CapacityAssumption DEF TypeOK, Counter
<1>2. clamp(rbegin) \in 0..(Capacity - 1)
  BY <1>1, ClampRange, Zenon
<1> QED BY <1>1, <1>2, CapacityAssumption DEF SpanEnd, Lesser

\* Whether a stretch of words is whole records depends on those words only.
LEMMA WholeFrame ==
  ASSUME NEW s, NEW t, NEW n \in Nat, Whole(s, n),
         \A i \in 1..n : t[i] = s[i]
  PROVE  Whole(t, n)
<1> SUFFICES ASSUME NEW i \in 1..n
             PROVE  /\ t[i][1] \in Stored
                    /\ t[i][2] \in 1..RecLen(t[i][1])
                    /\ i >= t[i][2]
                    /\ i - t[i][2] + RecLen(t[i][1]) <= n
                    /\ \A m \in 1..RecLen(t[i][1]) : t[i - t[i][2] + m] = <<t[i][1], m>>
  BY Zenon DEF Whole
<1> DEFINE r == s[i][1]
           k == s[i][2]
<1>1. /\ t[i] = s[i] /\ r \in Stored /\ k \in 1..RecLen(r) /\ i >= k
      /\ i - k + RecLen(r) <= n
      /\ \A m \in 1..RecLen(r) : s[i - k + m] = <<r, m>>
  BY Zenon DEF Whole
<1>2. RecLen(r) \in Nat
  BY <1>1, StoredFacts, Zenon
<1>3. ASSUME NEW m \in 1..RecLen(r) PROVE t[i - k + m] = <<r, m>>
  <2>1. i - k + m \in 1..n
    BY <1>1, <1>2
  <2> QED BY <1>1, <2>1, Zenon
<1> QED BY <1>1, <1>3, Zenon

\* Whole records followed by the words of one more are whole records.
LEMMA WholeAppend ==
  ASSUME NEW s, NEW n \in Nat, NEW r \in Stored, Whole(s, n),
         \A m \in 1..RecLen(r) : s[n + m] = <<r, m>>
  PROVE  Whole(s, n + RecLen(r))
<1>1. RecLen(r) \in Nat
  BY StoredFacts, Zenon
<1> SUFFICES ASSUME NEW i \in 1..(n + RecLen(r))
             PROVE  /\ s[i][1] \in Stored
                    /\ s[i][2] \in 1..RecLen(s[i][1])
                    /\ i >= s[i][2]
                    /\ i - s[i][2] + RecLen(s[i][1]) <= n + RecLen(r)
                    /\ \A m \in 1..RecLen(s[i][1]) : s[i - s[i][2] + m] = <<s[i][1], m>>
  BY Zenon DEF Whole
<1>2. CASE i <= n
  <2>1. i \in 1..n
    BY <1>1, <1>2
  <2>2. /\ s[i][1] \in Stored /\ s[i][2] \in 1..RecLen(s[i][1]) /\ i >= s[i][2]
        /\ i - s[i][2] + RecLen(s[i][1]) <= n
        /\ \A m \in 1..RecLen(s[i][1]) : s[i - s[i][2] + m] = <<s[i][1], m>>
    BY <2>1, Zenon DEF Whole
  <2>3. RecLen(s[i][1]) \in Nat
    BY <2>2, StoredFacts, Zenon
  <2> QED BY <1>1, <2>1, <2>2, <2>3
<1>3. CASE i > n
  <2>1. i - n \in 1..RecLen(r) /\ n + (i - n) = i
    BY <1>1, <1>3
  <2>2. PICK m0 \in 1..RecLen(r) : i = n + m0
    BY <2>1, Zenon
  <2>3. s[i][1] = r /\ s[i][2] = m0
    BY <2>2
  <2>4. i - m0 = n /\ m0 \in Nat /\ i >= m0
    BY <1>1, <2>2
  <2> QED BY <1>1, <2>2, <2>3, <2>4
<1> QED BY <1>1, <1>2, <1>3

\* The words after a record boundary are whole records.
LEMMA WholeSuffix ==
  ASSUME NEW s, NEW t, NEW n \in Nat, NEW u \in Nat, n <= u, Whole(s, u),
         \A i \in 1..(u - n) : t[i] = s[i + n],
         n = 0 \/ s[n][2] = RecLen(s[n][1])
  PROVE  Whole(t, u - n)
<1> SUFFICES ASSUME NEW i \in 1..(u - n)
             PROVE  /\ t[i][1] \in Stored
                    /\ t[i][2] \in 1..RecLen(t[i][1])
                    /\ i >= t[i][2]
                    /\ i - t[i][2] + RecLen(t[i][1]) <= u - n
                    /\ \A m \in 1..RecLen(t[i][1]) : t[i - t[i][2] + m] = <<t[i][1], m>>
  BY Zenon DEF Whole
<1>1. PICK j \in 1..u : j = i + n
  OBVIOUS
<1>2. PICK r \in Stored : \E k \in 1..RecLen(r) :
        /\ s[j][1] = r /\ s[j][2] = k /\ j >= k /\ j - k + RecLen(r) <= u
        /\ \A m \in 1..RecLen(r) : s[j - k + m] = <<r, m>>
  BY <1>1, Zenon DEF Whole
<1>k. PICK k \in 1..RecLen(r) :
        /\ s[j][1] = r /\ s[j][2] = k /\ j >= k /\ j - k + RecLen(r) <= u
        /\ \A m \in 1..RecLen(r) : s[j - k + m] = <<r, m>>
  BY <1>2, Zenon
<1>3. RecLen(r) \in Nat /\ t[i] = s[j] /\ k \in Nat
  BY <1>1, <1>k, StoredFacts
<1>4. i >= k
  <2> SUFFICES ASSUME i < k PROVE FALSE
    BY <1>3
  <2>1. PICK m \in 1..RecLen(r) : m = k - i
    BY <1>k, <1>3
  <2>2. j - k + m = n /\ n # 0 /\ m # RecLen(r)
    BY <1>1, <1>k, <1>3, <2>1
  <2>3. s[n] = <<r, m>>
    BY <1>k, <2>2, Zenon
  <2> QED BY <2>2, <2>3
<1>5. i - k + RecLen(r) <= u - n
  BY <1>1, <1>k, <1>3
<1>6. ASSUME NEW m \in 1..RecLen(r) PROVE t[i - k + m] = <<r, m>>
  <2>1. PICK h \in 1..(u - n) : h = i - k + m
    BY <1>3, <1>4, <1>5
  <2>2. h + n = j - k + m
    BY <1>1, <1>3, <2>1
  <2> QED BY <1>k, <2>1, <2>2, Zenon
<1> QED BY <1>k, <1>3, <1>4, <1>5, <1>6, Zenon

-----------------------------------------------------------------------------
(* The invariant: what it implies, where it starts, what it depends on. *)

\* IInv implies the two safety invariants.
LEMMA IInvImplies == IInv => TypeOK /\ SpanIsFree /\ ReadIntact
<1> SUFFICES ASSUME IInv PROVE SpanIsFree
  BY Zenon DEF IInv
<1> USE DEF IInv, CountersInv, WriterInv
<1> QED BY CounterFacts, CapacityAssumption DEF SpanIsFree

\* A ring just constructed is empty.
LEMMA InitEmpty == Init => Used = 0 /\ nread = 0
<1>1. Sub(Capacity, Capacity) = 0 /\ Sub(0, 0) = 0
  BY CapacityAssumption DEF Sub
<1> QED BY <1>1, Zenon DEF Init, Used, nread

\* A ring just constructed satisfies the invariant.
LEMMA InitIInv == Init => IInv
<1> SUFFICES ASSUME Init PROVE IInv
  BY Zenon
<1> USE CapacityAssumption DEF Init
<1>1. TypeOK
  <2>1. cells \in [0..(Capacity - 1) -> Word]
    BY DEF Word
  <2>2. got \in Seq(Word)
    OBVIOUS
  <2>3. wtry \in BOOLEAN /\ destroy \in BOOLEAN /\ notified \in BOOLEAN /\ registered \in BOOLEAN
    BY Zenon
  <2>4. /\ nwritten \in Counter /\ nread_plus_capacity \in Counter
        /\ wrnwritten \in Counter /\ wrnread_plus_capacity \in Counter
    BY DEF Counter
  <2>5. /\ wspan \in 0..Capacity /\ wpos \in 0..Capacity
        /\ rbegin \in Counter /\ rsize \in 0..Capacity
    BY DEF Counter
  <2>6. /\ wpc \in {"idle", "load", "retry", "extend", "copy", "sync", "closed"}
        /\ wrec \in Stored \cup {NoRecord}
    BY Zenon
  <2>7. rpc \in {"idle", "read", "detached"}
    BY Zenon
  <2>8. rleft \in 0..Capacity
    OBVIOUS
  <2> QED BY ONLY <2>1, <2>2, <2>3, <2>4, <2>5, <2>6, <2>7, <2>8, Zenon DEF TypeOK
<1>2. CountersInv
  BY DEF CountersInv, CachedFree, Free, Sub
<1>3. Used = 0 /\ nread = 0
  BY InitEmpty, Zenon
<1>4. WriterInv
  BY DEF WriterInv
<1>5. Whole(Contents, Used) /\ CloseIsLast
  BY <1>3 DEF Whole, CloseIsLast
<1>6. Handshake /\ ReaderInv /\ ReadIntact
  BY DEF Handshake, Gone, ReaderInv, ReadIntact
<1> QED BY <1>1, <1>2, <1>4, <1>5, <1>6, Zenon DEF IInv

\* What is in the ring depends only on the shared counters and the memory.
LEMMA ContentsFrame ==
  ASSUME nwritten' = nwritten, nread_plus_capacity' = nread_plus_capacity,
         cells' = cells
  PROVE  Used' = Used /\ nread' = nread /\ Contents' = Contents
BY Zenon DEF Used, nread, Contents

\* The consumer's part of the invariant depends on its own variables and on
\* what is in the ring.
LEMMA ReaderFrame ==
  ASSUME ReaderInv, ReadIntact, UNCHANGED readerVars,
         Used' = Used, nread' = nread, Contents' = Contents
  PROVE  ReaderInv' /\ ReadIntact'
BY Zenon DEF readerVars, ReaderInv, ReadIntact, Whole, SpanEnd

-----------------------------------------------------------------------------
(* The posting thread. *)

\* A step of a post before anything is copied.
LEMMA SpanStep ==
  ASSUME IInv,
         UNCHANGED <<nwritten, nread_plus_capacity, wrnwritten, cells,
                     notified, registered, readerVars>>,
         wpc \in {"idle", "load", "retry", "extend"},
         wrnread_plus_capacity' \in {wrnread_plus_capacity, nread_plus_capacity},
         wpc' \in {"idle", "load", "retry", "extend", "copy"},
         wpc' = "idle" => wrec' = NoRecord,
         wpc' # "idle" => wrec' \in Stored,
         wspan' \in 0..Capacity,
         wpc' \in {"extend", "copy"} => wspan' = CachedFree' /\ wrec'.len <= wspan',
         wpc' = "copy" => RecLen(wrec') <= wspan',
         wtry' \in BOOLEAN,
         wpos' = 0
  PROVE  IInv'
<1> USE DEF IInv
<1>1. Used' = Used /\ nread' = nread /\ Contents' = Contents
  BY ContentsFrame, Zenon
<1>2. TypeOK'
  BY CapacityAssumption DEF TypeOK, readerVars, Counter
<1>3. CountersInv'
  BY CounterFacts DEF CountersInv, CachedFree, Free
<1>4. WriterInv'
  <2>1. wpc' = "copy" => RecLen(wrec') \in Nat
    BY StoredFacts, Zenon
  <2> QED BY <2>1 DEF WriterInv
<1>5. Whole(Contents, Used)'
  BY <1>1, Zenon DEF Whole
<1>6. CloseIsLast'
  BY <1>1, Zenon DEF CloseIsLast
<1>7. Handshake'
  BY Zenon DEF Handshake, Gone, readerVars
<1>8. ReaderInv' /\ ReadIntact'
  BY <1>1, ReaderFrame, Zenon
<1> QED BY <1>2, <1>3, <1>4, <1>5, <1>6, <1>7, <1>8, Zenon

\* write_span_spec: a post starts from the writer's cached counters.
LEMMA PostStep ==
  ASSUME IInv, NEW r \in Records, NEW try \in BOOLEAN, Post(r, try)
  PROVE  IInv'
<1>1. r \in Stored /\ r.len \in 1..Capacity
  BY StoredFacts, Zenon DEF Stored
<1>2. wspan' = CachedFree /\ CachedFree' = CachedFree /\ CachedFree \in 0..Capacity
  BY CounterFacts, Zenon DEF IInv, Post, CachedFree
<1>3. wpc' = "copy" => RecLen(r) <= wspan'
  BY <1>1, <1>2, StoredFacts, Zenon DEF Post, AfterSpan
<1>4. wpc' \in {"extend", "copy"} => r.len <= wspan'
  BY <1>1, <1>2, Zenon DEF Post, AfterSpan
<1>5. wpc' \in {"load", "retry", "extend", "copy"}
  BY Zenon DEF Post, AfterSpan
<1> QED BY <1>1, <1>2, <1>3, <1>4, <1>5, SpanStep, Zenon DEF Post, IInv, WriterInv

\* write_span and wait_for_capacity: a reload of nread_plus_capacity, which may
\* find room, find none, give up or truncate.
LEMMA ReloadStep ==
  ASSUME IInv, Load \/ Retry \/ Extend
  PROVE  IInv'
<1> USE DEF IInv
<1>1. wpc \in {"load", "retry", "extend"} /\ wrec \in Stored /\ wpos = 0 /\ Reload
  BY Zenon DEF Load, Retry, Extend, WriterInv
<1>2. Free \in 0..Capacity /\ CachedFree' = Free
  BY <1>1, CounterFacts, Zenon DEF Reload, CachedFree, Free
<1>3. wrec.len \in 1..Capacity /\ RecLen(wrec) \in Nat /\ RecLen(wrec) >= wrec.len
  BY <1>1, StoredFacts, Zenon
<1>4. /\ Truncated(wrec) \in Stored
      /\ RecLen(Truncated(wrec)) = wrec.len /\ Truncated(wrec).len = wrec.len
  BY <1>1, StoredFacts, Zenon
<1>5. CASE wpc' = "idle" /\ Return
  <2>1. wtry' \in BOOLEAN
    BY <1>5, Zenon DEF Return
  <2>2. wpc' = "idle" /\ wrec' = NoRecord /\ wspan' = 0 /\ wpos' = 0
    BY <1>5, Zenon DEF Return
  <2> QED BY <1>1, <2>1, <2>2, SpanStep, CapacityAssumption DEF Reload
<1>6. ASSUME NEW r \in Stored, NEW to \in {"load", "retry", "extend", "copy"}, GoOn(r, to),
             to \in {"extend", "copy"} => r.len <= Free,
             to = "copy" => RecLen(r) <= Free
      PROVE  IInv'
  BY <1>1, <1>2, <1>6, SpanStep, Zenon DEF Reload, GoOn, TypeOK
<1>7. ASSUME Free >= wrec.len, GoOn(wrec, AfterSpan(wrec, Free))
      PROVE  IInv'
  <2>1. CASE Free >= RecLen(wrec)
    BY <1>1, <1>6, <1>7, <2>1, <1>2, <1>3, Zenon DEF AfterSpan
  <2>2. CASE ~(Free >= RecLen(wrec))
    BY <1>1, <1>6, <1>7, <2>2, <1>2, <1>3, Zenon DEF AfterSpan
  <2> QED BY <2>1, <2>2, Zenon
<1>8. CASE Load
  <2>1. CASE Free >= wrec.len
    BY <1>7, <1>8, <2>1, Zenon DEF Load
  <2>2. CASE ~(Free >= wrec.len)
    BY <1>1, <1>6, <1>8, <2>2, Zenon DEF Load
  <2> QED BY <2>1, <2>2, Zenon
<1>9. CASE Retry
  BY <1>1, <1>5, <1>6, <1>7, <1>9, Zenon DEF Retry, Drop
<1>10. CASE Extend
  <2>1. wrec.len <= Free
    BY <1>2, <1>3, <1>10, CounterFacts DEF Extend, WriterInv, CountersInv
  <2> QED BY <1>1, <1>2, <1>3, <1>4, <1>5, <1>6, <1>10, <2>1, Zenon DEF Extend, Drop
<1> QED BY <1>8, <1>9, <1>10, Zenon

\* Copying a word of a record does not disturb what is in the ring, nor the
\* words of the record copied before.
LEMMA CopyStep ==
  ASSUME IInv, Copy
  PROVE  IInv' /\ Contents' = Contents
<1> USE DEF IInv
<1> DEFINE c == clamp(Add(wrnwritten, wpos))
<1>1. /\ wrec \in Stored /\ wpos \in 0..Capacity /\ wpos < RecLen(wrec)
      /\ RecLen(wrec) <= Free /\ RecLen(wrec) \in Nat
  <2>1. wrec \in Stored /\ wpos < RecLen(wrec) /\ RecLen(wrec) <= CachedFree
    BY Zenon DEF Copy, WriterInv
  <2>2. wpos \in 0..Capacity /\ CachedFree <= Free /\ RecLen(wrec) \in Nat
    BY <2>1, StoredFacts, Zenon DEF CountersInv, TypeOK
  <2>3. CachedFree \in 0..Capacity /\ Free \in 0..Capacity
    BY CounterFacts, Zenon
  <2>4. RecLen(wrec) <= Free
    BY ONLY <2>1, <2>2, <2>3, CapacityAssumption
  <2> QED BY ONLY <2>1, <2>2, <2>4, Zenon
<1>u. Used \in 0..Capacity /\ Free \in 0..Capacity /\ Used + Free = Capacity
  BY CounterFacts, Zenon
<1>2. Used + wpos \in 0..(Capacity - 1) /\ c = clamp(Add(nread, Used + wpos))
  <2>1. Used + wpos \in 0..(Capacity - 1) /\ wpos \in 0..Free
    BY ONLY <1>1, <1>u, CapacityAssumption
  <2> QED BY <2>1, CellFacts, Zenon
<1>3. ASSUME NEW i \in 0..(Used + wpos - 1)
      PROVE  cells'[clamp(Add(nread, i))] = cells[clamp(Add(nread, i))]
  <2>1. i \in 0..(Capacity - 1) /\ i \in 0..Capacity /\ i # Used + wpos
    BY ONLY <1>1, <1>2, <1>u, CapacityAssumption, i \in 0..(Used + wpos - 1)
  <2>2. clamp(Add(nread, i)) # c
    BY <1>2, <2>1, ClampInjective, CounterFacts, Zenon
  <2>3. clamp(Add(nread, i)) \in 0..(Capacity - 1)
    BY <2>1, CellFacts, Zenon
  <2> QED BY <2>2, <2>3, Zenon DEF Copy, TypeOK
<1>4. Used' = Used /\ nread' = nread
  BY Zenon DEF Copy, Used, nread
<1>5. Contents' = Contents
  <2>1. ASSUME NEW i \in 1..Used
        PROVE  cells'[clamp(Add(nread, i - 1))] = cells[clamp(Add(nread, i - 1))]
    <3>1. i - 1 \in 0..(Used + wpos - 1)
      BY ONLY <1>1, <1>u, CapacityAssumption, i \in 1..Used
    <3> QED BY <1>3, <3>1, Zenon
  <2> QED BY <1>4, <2>1, Zenon DEF Contents
<1>6. TypeOK'
  <2>1. <<wrec, wpos + 1>> \in Word
    BY <1>1, CounterFacts, CapacityAssumption DEF Word
  <2>2. cells' \in [0..(Capacity - 1) -> Word]
    BY <2>1, Zenon DEF Copy, TypeOK
  <2>3. wpos' \in 0..Capacity
    BY <1>1, CounterFacts, CapacityAssumption DEF Copy
  <2> QED BY <2>2, <2>3, Zenon DEF Copy, TypeOK, readerVars
<1>7. CountersInv'
  BY Zenon DEF Copy, CountersInv, CachedFree, Free
<1>8. WriterInv'
  <2>1. ASSUME NEW j \in 0..wpos
        PROVE  cells'[clamp(Add(wrnwritten, j))] = <<wrec, j + 1>>
    <3>1. j \in 0..Free /\ Add(wrnwritten, j) = Add(nread, Used + j)
      BY <1>1, CellFacts, CounterFacts, CapacityAssumption
    <3>2. CASE j = wpos
      <4>1. c \in 0..(Capacity - 1)
        BY <1>2, CellFacts, CapacityAssumption
      <4> QED BY <3>2, <4>1, Zenon DEF Copy, TypeOK
    <3>3. CASE j # wpos
      <4>1. j \in 0..(wpos - 1) /\ Used + j \in 0..(Used + wpos - 1)
        BY <1>1, <3>3, CounterFacts, CapacityAssumption
      <4> QED BY <1>3, <3>1, <4>1, Zenon DEF WriterInv
    <3> QED BY <3>2, <3>3, Zenon
  <2>2. wpos' \in Nat /\ wpos' <= RecLen(wrec) /\ 0..(wpos' - 1) = 0..wpos
    BY <1>1 DEF Copy
  <2>3. \A j \in 0..(wpos' - 1) : cells'[clamp(Add(wrnwritten, j))] = <<wrec, j + 1>>
    BY <2>1, <2>2, Zenon
  <2> QED BY <2>2, <2>3, Zenon DEF Copy, WriterInv, CachedFree
<1>9. Whole(Contents, Used)' /\ CloseIsLast'
  BY <1>4, <1>5, Zenon DEF Whole, CloseIsLast, Copy
<1>10. Handshake'
  BY Zenon DEF Handshake, Gone, readerVars, Copy
<1>11. ReaderInv' /\ ReadIntact'
  BY <1>4, <1>5, ReaderFrame, Zenon DEF Copy
<1> QED BY <1>5, <1>6, <1>7, <1>8, <1>9, <1>10, <1>11, Zenon

\* Publishing a record appends its words, whole, to what is in the ring.
LEMMA PublishStep ==
  ASSUME IInv, reduce_writable
  PROVE  /\ IInv'
         /\ wrec \in Stored /\ Used' = Used + RecLen(wrec) /\ Used' <= Capacity
         /\ \A i \in 1..Used : Contents'[i] = Contents[i]
         /\ \A m \in 1..RecLen(wrec) : Contents'[Used + m] = <<wrec, m>>
<1> USE DEF IInv
<1> DEFINE n == RecLen(wrec)
<1>1. /\ wpc = "copy" /\ wrec \in Stored /\ wpos = n
      /\ n <= CachedFree /\ CachedFree <= Free /\ n \in Nat
  <2>1. wpc = "copy" /\ wrec \in Stored /\ wpos = n /\ n <= CachedFree
    BY Zenon DEF reduce_writable, PublishWords, WriterInv
  <2> QED BY <2>1, StoredFacts, Zenon DEF CountersInv
<1>2. /\ nread' = nread /\ Used' = Used + n /\ n <= Free /\ Used' \in 0..Capacity
      /\ CachedFree' = CachedFree - n /\ Free' = Free - n
      /\ wrnwritten' \in Counter /\ nwritten' = wrnwritten'
  <2>1. nread' = nread /\ wrnwritten' = Add(wrnwritten, n) /\ nwritten' = wrnwritten'
    BY <1>1, Zenon DEF nread, reduce_writable, PublishWords
  <2>2. nread_plus_capacity' = nread_plus_capacity /\ wrnread_plus_capacity' = wrnread_plus_capacity
    BY Zenon DEF reduce_writable, PublishWords
  <2>3. /\ wrnwritten \in Counter /\ nread_plus_capacity \in Counter
        /\ wrnread_plus_capacity \in Counter /\ Free <= Capacity /\ nwritten = wrnwritten
    BY Zenon DEF TypeOK, CountersInv
  <2>4. /\ wrnwritten' \in Counter /\ Free' = Free - n /\ CachedFree' = CachedFree - n
        /\ Used' = Used + n
    BY <1>1, <2>1, <2>2, <2>3, PublishCounters DEF Free, CachedFree, Used, nread
  <2> QED BY <1>1, <2>1, <2>4, CounterFacts, CapacityAssumption
<1>3. \A i \in 1..Used : Contents'[i] = Contents[i]
  <2>1. \A i \in 1..Used : i \in 1..Used'
    BY <1>1, <1>2, CounterFacts, CapacityAssumption
  <2>2. cells' = cells
    BY Zenon DEF reduce_writable, PublishWords
  <2>3. \A i \in 1..Used' : Contents'[i] = cells[clamp(Add(nread, i - 1))]
    BY <1>2, <2>2, Zenon DEF Contents
  <2> QED BY <2>1, <2>3, Zenon DEF Contents
<1>4. ASSUME NEW m \in 1..n PROVE Contents'[Used + m] = <<wrec, m>>
  <2>1. Used + m \in 1..Used' /\ m - 1 \in 0..(wpos - 1) /\ m - 1 \in 0..Free
    BY <1>1, <1>2, CounterFacts, CapacityAssumption
  <2>2. (Used + m) - 1 = Used + (m - 1) /\ (m - 1) + 1 = m
    BY CounterFacts, <1>1
  <2>3. Contents'[Used + m] = cells[clamp(Add(nread, Used + (m - 1)))]
    BY <1>2, <2>1, <2>2, Zenon DEF Contents, reduce_writable, PublishWords
  <2>4. Add(wrnwritten, m - 1) = Add(nread, Used + (m - 1))
    BY <2>1, CellFacts, Zenon
  <2>5. cells[clamp(Add(wrnwritten, m - 1))] = <<wrec, (m - 1) + 1>>
    BY <2>1, Zenon DEF WriterInv
  <2> QED BY <2>2, <2>3, <2>4, <2>5, Zenon
<1>5. TypeOK'
  <2>1. wtry' \in BOOLEAN
    BY Zenon DEF reduce_writable, PublishWords, Return
  <2>2. wpc' \in {"idle", "sync"}
    BY Zenon DEF reduce_writable, PublishWords
  <2> QED BY <1>2, <2>1, <2>2, CapacityAssumption DEF reduce_writable, PublishWords, Return, TypeOK, readerVars
<1>6. CountersInv'
  BY <1>1, <1>2, CounterFacts, CapacityAssumption DEF CountersInv
<1>7. WriterInv'
  <2>1. wpc' \in {"idle", "sync"} /\ wpos' = 0
    BY Zenon DEF reduce_writable, PublishWords, Return
  <2> QED BY <2>1 DEF WriterInv
<1>8. Whole(Contents, Used)'
  <2>1. Whole(Contents', Used)
    BY <1>3, WholeFrame, CounterFacts
  <2>2. Whole(Contents', Used + n)
    BY <1>1, <1>4, <2>1, WholeAppend, CounterFacts
  <2> QED BY <1>2, <2>2, Zenon DEF Whole
<1>9. CloseIsLast'
  <2> SUFFICES ASSUME NEW i \in 1..Used', Contents'[i][1].kind = "close"
               PROVE  wpc' = "sync" /\ (Contents'[i][2] = RecLen(Contents'[i][1]) => i = Used')
    BY Zenon DEF CloseIsLast
  <2>1. ~(i \in 1..Used)
    BY <1>1, <1>3, Zenon DEF CloseIsLast
  <2>2. i - Used \in 1..n /\ Used + (i - Used) = i
    BY <1>2, <2>1, <1>1, CounterFacts
  <2>3. Contents'[i] = <<wrec, i - Used>>
    BY <1>4, <2>2, Zenon
  <2>4. Contents'[i][1] = wrec /\ Contents'[i][2] = i - Used
    BY ONLY <2>3
  <2>5. wrec.kind = "close"
    BY <2>4, Zenon
  <2>6. wpc' = "sync"
    BY <2>5, Zenon DEF reduce_writable, PublishWords
  <2>7. i - Used = n => i = Used'
    BY ONLY <1>2, <2>2
  <2> QED BY <2>4, <2>6, <2>7, Zenon
<1>10. Handshake'
  BY <1>1, SMTT(20) DEF Handshake, Gone, readerVars, reduce_writable, PublishWords
<1>11. ReaderInv' /\ ReadIntact'
  <2>1. UNCHANGED readerVars
    BY Zenon DEF reduce_writable, PublishWords
  <2>2. ReadIntact'
    BY <2>1, Zenon DEF ReadIntact, readerVars
  <2>3. ASSUME rpc = "read" /\ ~destroy
        PROVE  /\ rsize \in 1..Used' /\ Whole(Contents', rsize)
               /\ \A i \in 1..Len(got) : got[i] = Contents'[i]
    <3>1. /\ rsize \in 1..Used /\ Whole(Contents, rsize) /\ Len(got) <= rsize
          /\ \A i \in 1..Len(got) : got[i] = Contents[i]
      BY <2>3, Zenon DEF ReaderInv
    <3>0. Used \in 0..Capacity
      BY CounterFacts, Zenon
    <3>u. Used \in Nat /\ rsize \in Nat
      BY ONLY <3>0, <3>1, CapacityAssumption
    <3>2. \A i \in 1..rsize : Contents'[i] = Contents[i]
      <4>1. \A i \in 1..rsize : i \in 1..Used
        BY ONLY <3>1, <3>u
      <4> QED BY <1>3, <4>1, Zenon
    <3>3. Whole(Contents', rsize)
      BY <3>1, <3>2, <3>u, WholeFrame, Zenon
    <3>4. Len(got) \in Nat
      BY DEF TypeOK
    <3>5. rsize \in 1..Used' /\ \A i \in 1..Len(got) : i \in 1..rsize
      BY ONLY <1>1, <1>2, <3>1, <3>4, <3>u
    <3> QED BY <3>1, <3>2, <3>3, <3>5, Zenon
  <2> QED BY <1>2, <2>1, <2>2, <2>3, Zenon DEF ReaderInv, readerVars, SpanEnd, Whole
<1>12. IInv'
  BY ONLY <1>5, <1>6, <1>7, <1>8, <1>9, <1>10, <1>11, Zenon
<1>13. Used' <= Capacity
  BY ONLY <1>2, CapacityAssumption
<1> QED BY ONLY <1>1, <1>2, <1>3, <1>4, <1>12, <1>13, Zenon

\* close() clears the ring only after the consumer has let go of it.
LEMMA ClearStep ==
  ASSUME IInv, clear
  PROVE  IInv' /\ Used' = 0 /\ destroy
<1> USE DEF IInv
<1>1. /\ Used' = 0 /\ nread' = 0 /\ CachedFree' = Capacity /\ Free' = Capacity
      /\ nwritten' \in Counter /\ nread_plus_capacity' \in Counter
      /\ wrnwritten' \in Counter /\ wrnread_plus_capacity' \in Counter
  <2>1. /\ Sub(Capacity, Capacity) = 0 /\ Sub(0, 0) = 0 /\ Sub(Capacity, 0) = Capacity
        /\ 0 \in Counter /\ Capacity \in Counter
    BY CapacityAssumption DEF Sub, Counter
  <2> QED BY <2>1, Zenon DEF clear, ClearWith, Used, nread, CachedFree, Free
<1>2. wpc = "sync" /\ notified /\ Gone /\ ~registered /\ destroy
  <2>1. wpc = "sync" /\ notified
    BY Zenon DEF clear, ClearWith
  <2>2. Gone /\ ~registered
    BY <2>1, Zenon DEF Handshake
  <2> QED BY <2>1, <2>2, Zenon DEF Handshake, Gone
<1>3. TypeOK'
  <2>1. notified' \in BOOLEAN
    BY Zenon DEF clear, ClearWith
  <2> QED BY <1>1, <2>1, Zenon DEF clear, ClearWith, TypeOK, readerVars
<1>4. CountersInv'
  BY <1>1, CapacityAssumption DEF CountersInv, clear, ClearWith
<1>5. WriterInv'
  BY <1>2 DEF WriterInv, clear, ClearWith
<1>6. Whole(Contents, Used)' /\ CloseIsLast'
  BY <1>1 DEF Whole, CloseIsLast
<1>7. Handshake'
  BY <1>2, Zenon DEF Handshake, Gone, clear, ClearWith, readerVars
<1>8. ReaderInv' /\ ReadIntact'
  BY <1>2, Zenon DEF ReaderInv, ReadIntact, clear, ClearWith, readerVars, SpanEnd, Gone
<1> QED BY <1>1, <1>2, <1>3, <1>4, <1>5, <1>6, <1>7, <1>8, Zenon

\* Registering a closed sink again, and the consumer taking it up, change
\* nothing in the ring.
LEMMA RegisterStep ==
  ASSUME IInv, Register \/ add_sink
  PROVE  IInv' /\ Contents' = Contents
<1> USE DEF IInv
<1>1. Used' = Used /\ nread' = nread /\ Contents' = Contents
  BY ContentsFrame, Zenon DEF Register, add_sink
<1>2. TypeOK'
  <2>1. registered' \in BOOLEAN
    BY Zenon DEF Register, add_sink
  <2> QED BY <2>1, Zenon DEF Register, add_sink, TypeOK, readerVars, writerVars
<1>3. CountersInv' /\ WriterInv'
  BY Zenon DEF Register, add_sink, CountersInv, WriterInv, CachedFree, Free, writerVars
<1>4. Whole(Contents, Used)' /\ CloseIsLast'
  BY <1>1, Zenon DEF Whole, CloseIsLast, Register, add_sink, writerVars
<1>5. Handshake'
  BY DEF Handshake, Gone, Register, add_sink, readerVars, writerVars
<1>6. ReaderInv' /\ ReadIntact'
  <2>1. CASE Register
    BY <1>1, <2>1, ReaderFrame, Zenon DEF Register
  <2>2. CASE add_sink
    BY <2>2, Zenon DEF add_sink, ReaderInv, ReadIntact
  <2> QED BY <2>1, <2>2, Zenon
<1> QED BY <1>1, <1>2, <1>3, <1>4, <1>5, <1>6, Zenon

-----------------------------------------------------------------------------
(* The consumer. *)

\* The consumer takes the whole of what is in the ring as its span.
LEMMA ReadSpanStep ==
  ASSUME IInv, read_span
  PROVE  IInv' /\ Contents' = Contents /\ got = <<>> /\ got' = got
<1> USE DEF IInv
<1>1. Used' = Used /\ nread' = nread /\ Contents' = Contents
  BY ContentsFrame, Zenon DEF read_span
<1>2. rsize' = Used /\ Used \in 1..Capacity /\ rbegin' = nread /\ nread \in Counter
  BY CounterFacts, CapacityAssumption DEF read_span, Used
<1>3. got = <<>> /\ got' = <<>>
  BY Zenon DEF read_span, ReaderInv
<1>4. TypeOK'
  <2>1. destroy' \in BOOLEAN
    BY Zenon DEF read_span
  <2> QED BY <1>2, <2>1 DEF read_span, TypeOK, writerVars
<1>5. CountersInv' /\ WriterInv'
  BY Zenon DEF read_span, CountersInv, WriterInv, CachedFree, Free, writerVars
<1>6. Whole(Contents, Used)' /\ CloseIsLast'
  BY <1>1, Zenon DEF Whole, CloseIsLast, read_span, writerVars
<1>7. Handshake'
  BY Zenon DEF Handshake, Gone, read_span, writerVars
<1>8. ReaderInv'
  <2>1. Whole(Contents, rsize)'
    BY <1>1, <1>2, Zenon DEF Whole
  <2>2. rleft' = 0
    BY <1>3, Zenon DEF ReaderInv, read_span
  <2>3. ~destroy' /\ rpc' = "read"
    BY Zenon DEF read_span
  <2> QED BY <1>1, <1>2, <1>3, <2>1, <2>2, <2>3 DEF ReaderInv
<1>9. ReadIntact'
  BY <1>3, Zenon DEF ReadIntact
<1> QED BY <1>1, <1>3, <1>4, <1>5, <1>6, <1>7, <1>8, <1>9, Zenon

\* After a close record the consumer only forgets its own locals.
LEMMA DetachStep ==
  ASSUME IInv, Detach
  PROVE  IInv' /\ Contents' = Contents
<1> USE DEF IInv
<1>1. Used' = Used /\ nread' = nread /\ Contents' = Contents
  BY ContentsFrame, Zenon DEF Detach
<1>2. TypeOK'
  <2>1. rbegin' \in Counter /\ rsize' \in 0..Capacity /\ got' \in Seq(Word)
    BY CapacityAssumption DEF Detach, Counter
  <2> QED BY <2>1, Zenon DEF Detach, TypeOK, writerVars
<1>3. CountersInv' /\ WriterInv'
  BY Zenon DEF Detach, CountersInv, WriterInv, CachedFree, Free, writerVars
<1>4. Whole(Contents, Used)' /\ CloseIsLast'
  BY <1>1, Zenon DEF Whole, CloseIsLast, Detach, writerVars
<1>5. Handshake'
  BY Zenon DEF Handshake, Gone, Detach, SpanDone, writerVars
<1>6. ReaderInv' /\ ReadIntact'
  BY DEF ReaderInv, ReadIntact, Detach, SpanDone
<1> QED BY <1>1, <1>2, <1>3, <1>4, <1>5, <1>6, Zenon

\* The word the consumer reads next is the next one in the ring: the
\* continuation of the record it is in, or the first word of another.
LEMMA NextWord ==
  ASSUME IInv, ReadWord
  PROVE  /\ ~destroy /\ Len(got) + 1 \in 1..rsize /\ rsize \in 1..Used
         /\ got' = Append(got, Contents[Len(got) + 1])
         /\ Contents[Len(got) + 1][1] \in Stored
         /\ rleft' = RecLen(Contents[Len(got) + 1][1]) - Contents[Len(got) + 1][2]
         /\ rleft' \in 0..Capacity
         /\ IF rleft = 0 THEN Contents[Len(got) + 1][2] = 1
            ELSE /\ got # <<>>
                 /\ Contents[Len(got) + 1] = <<got[Len(got)][1], got[Len(got)][2] + 1>>
<1> USE DEF IInv
<1> DEFINE n == Len(got)
           w == Contents[n + 1]
<1>1. rpc = "read" /\ ~destroy
  <2>1. rpc = "read" /\ (rleft > 0 \/ n < SpanEnd)
    BY Zenon DEF ReadWord
  <2>2. n \in Nat /\ SpanEnd \in Int /\ rleft \in Int
    BY SpanEndFacts DEF TypeOK
  <2>3. destroy => rleft = 0 /\ n >= SpanEnd
    BY <2>1, Zenon DEF ReaderInv
  <2> QED BY <2>1, <2>2, <2>3
<1>2. /\ rbegin = nread /\ rsize \in 1..Used /\ n <= rsize /\ Whole(Contents, rsize)
      /\ \A i \in 1..n : got[i] = Contents[i]
  BY <1>1, Zenon DEF ReaderInv
<1>3. n \in Nat /\ Used \in 0..Capacity /\ (got # <<>> => n \in 1..n)
  <2>1. Used \in 0..Capacity
    BY CounterFacts, Zenon
  <2>2. got \in Seq(Word)
    BY Zenon DEF TypeOK
  <2> QED BY ONLY <2>1, <2>2
<1>4. ASSUME got # <<>>
      PROVE  /\ got[n] = Contents[n] /\ n \in 1..rsize
             /\ rleft = RecLen(Contents[n][1]) - Contents[n][2]
             /\ Contents[n][1] \in Stored /\ RecLen(Contents[n][1]) \in Nat
             /\ Contents[n][2] \in 1..RecLen(Contents[n][1])
             /\ n - Contents[n][2] + RecLen(Contents[n][1]) <= rsize
             /\ \A m \in 1..RecLen(Contents[n][1]) :
                  Contents[n - Contents[n][2] + m] = <<Contents[n][1], m>>
  <2>1. n \in 1..n /\ n \in 1..rsize
    BY <1>2, <1>3, <1>4
  <2>2. got[n] = Contents[n]
    BY <1>2, <2>1, Zenon
  <2>3. /\ Contents[n][1] \in Stored
        /\ Contents[n][2] \in 1..RecLen(Contents[n][1])
        /\ n - Contents[n][2] + RecLen(Contents[n][1]) <= rsize
        /\ \A m \in 1..RecLen(Contents[n][1]) :
             Contents[n - Contents[n][2] + m] = <<Contents[n][1], m>>
    BY <1>2, <2>1, Zenon DEF Whole
  <2>4. rleft = RecLen(Contents[n][1]) - Contents[n][2]
    BY <1>4, <2>2, Zenon DEF ReaderInv
  <2>5. RecLen(Contents[n][1]) \in Nat
    BY ONLY <2>3, StoredFacts, Zenon
  <2> QED BY ONLY <2>1, <2>2, <2>3, <2>4, <2>5, Zenon
<1>5. got = <<>> => rleft = 0 /\ n = 0
  BY Zenon DEF ReaderInv
<1>6. n + 1 \in 1..rsize
  <2>1. CASE rleft > 0
    <3>1. got # <<>>
      BY <1>5, <2>1
    <3> DEFINE k == Contents[n][2]
               l == RecLen(Contents[n][1])
    <3>2. rleft = l - k /\ l \in Nat /\ k \in 1..l /\ n - k + l <= rsize
      BY ONLY <1>4, <3>1, Zenon
    <3>3. rsize \in Int /\ n \in Nat
      BY <1>2, <1>3, CapacityAssumption
    <3> HIDE DEF k, l, n
    <3> QED BY ONLY <2>1, <3>2, <3>3
  <2>2. CASE ~(rleft > 0)
    <3>1. n < SpanEnd /\ SpanEnd <= rsize /\ SpanEnd \in Int
      BY <2>2, SpanEndFacts, Zenon DEF ReadWord
    <3> QED BY <1>2, <1>3, <3>1
  <2> QED BY <2>1, <2>2, Zenon
<1>7. n + 1 \in 1..Used /\ cells[clamp(Add(rbegin, n))] = w
  <2>1. n + 1 \in 1..Used /\ (n + 1) - 1 = n
    BY <1>2, <1>3, <1>6
  <2> QED BY <1>2, <2>1, CellFacts, Zenon
<1>8. /\ w[1] \in Stored /\ RecLen(w[1]) \in Nat /\ w[2] \in 1..RecLen(w[1])
      /\ n + 1 >= w[2]
      /\ (n + 1) - w[2] + RecLen(w[1]) <= rsize
      /\ \A m \in 1..RecLen(w[1]) : Contents[(n + 1) - w[2] + m] = <<w[1], m>>
  <2> HIDE DEF IInv
  <2>1. PICK j \in 1..rsize : j = n + 1
    BY <1>6, Zenon
  <2>2. /\ Contents[j][1] \in Stored /\ Contents[j][2] \in 1..RecLen(Contents[j][1])
        /\ j >= Contents[j][2]
        /\ j - Contents[j][2] + RecLen(Contents[j][1]) <= rsize
        /\ \A m \in 1..RecLen(Contents[j][1]) :
             Contents[j - Contents[j][2] + m] = <<Contents[j][1], m>>
    BY <1>2, Zenon DEF Whole
  <2>3. RecLen(w[1]) \in Nat
    BY <2>1, <2>2, StoredFacts, Zenon
  <2>4. w = Contents[j]
    BY <2>1, Zenon
  <2> HIDE DEF w, n
  <2>5. w[1] \in Stored /\ w[2] \in 1..RecLen(w[1]) /\ n + 1 >= w[2]
    BY <2>1, <2>2, <2>4, Zenon
  <2>6. (n + 1) - w[2] + RecLen(w[1]) <= rsize
    BY <1>3, <2>1, <2>2, <2>3, <2>4, Zenon
  <2>7. \A m \in 1..RecLen(w[1]) : Contents[(n + 1) - w[2] + m] = <<w[1], m>>
    BY <1>3, <2>1, <2>2, <2>3, <2>4, Zenon
  <2> QED BY <2>3, <2>5, <2>6, <2>7, Zenon
<1>9. CASE rleft = 0
  <2>1. w[2] = 1
    <3> SUFFICES ASSUME w[2] # 1 PROVE FALSE
      BY Zenon
    <3>0. w[2] \in Int /\ w[2] >= 2 /\ w[2] <= RecLen(w[1])
      <4>1. w[2] \in 1..RecLen(w[1]) /\ RecLen(w[1]) \in Nat /\ w[2] # 1
        BY <1>8, Zenon
      <4> HIDE DEF w
      <4> QED BY ONLY <4>1
    <3>a. PICK k \in Int : k = w[2]
      BY <3>0, Zenon
    <3>1. k - 1 \in 1..RecLen(w[1]) /\ (n + 1) - k + (k - 1) = n /\ n # 0
      <4> HIDE DEF w
      <4>1. k >= 2 /\ k <= RecLen(w[1]) /\ n + 1 >= k
        BY <1>8, <3>0, <3>a, Zenon
      <4>2. RecLen(w[1]) \in Nat /\ n \in Nat
        BY <1>3, <1>8, Zenon
      <4> HIDE DEF n
      <4> QED BY <4>1, <4>2
    <3>2. Contents[n] = <<w[1], k - 1>>
      BY <1>8, <3>a, <3>1, Zenon
    <3>3. got # <<>>
      BY <1>5, <3>1, Zenon
    <3>4. Contents[n][1] = w[1] /\ Contents[n][2] = k - 1 /\ RecLen(w[1]) \in Nat
      <4>1. RecLen(w[1]) \in Nat
        BY <1>8, Zenon
      <4> QED BY ONLY <3>2, <4>1
    <3>5. rleft = RecLen(w[1]) - (k - 1)
      BY ONLY <1>4, <3>3, <3>4, Zenon
    <3> HIDE DEF w
    <3> QED BY ONLY <1>9, <3>0, <3>a, <3>4, <3>5
  <2>2. rleft' = RecLen(w[1]) - 1
    BY <1>7, <1>9, Zenon DEF ReadWord
  <2>3. rleft' \in 0..Capacity
    <3>1. RecLen(w[1]) \in Nat /\ 1 \in 1..RecLen(w[1]) /\ (n + 1) - 1 + RecLen(w[1]) <= rsize
      BY <1>8, <2>1, Zenon
    <3>2. rsize \in 0..Capacity /\ n \in Nat
      BY <1>2, <1>3, CapacityAssumption
    <3> HIDE DEF w, n
    <3> QED BY ONLY <2>2, <3>1, <3>2, CapacityAssumption
  <2> QED BY <1>1, <1>2, <1>6, <1>7, <1>8, <1>9, <2>1, <2>2, <2>3, Zenon DEF ReadWord
<1>10. CASE rleft # 0
  <2>1. got # <<>>
    BY <1>5, <1>10, Zenon
  <2>2. Contents[n][2] + 1 \in 1..RecLen(Contents[n][1])
        /\ n - Contents[n][2] + (Contents[n][2] + 1) = n + 1
    <3>1. PICK k \in Nat : k = Contents[n][2]
      <4>1. /\ Contents[n][2] \in 1..RecLen(Contents[n][1])
            /\ RecLen(Contents[n][1]) \in Nat
        BY ONLY <1>4, <2>1, Zenon
      <4> HIDE DEF n
      <4> QED BY ONLY <4>1
    <3>2. PICK l \in Nat : l = RecLen(Contents[n][1])
      BY <1>4, <2>1, Zenon
    <3>3. k \in 1..l /\ l - k # 0
      BY <1>4, <1>10, <2>1, <3>1, <3>2, Zenon
    <3>4. k + 1 \in 1..l /\ n - k + (k + 1) = n + 1
      BY <1>3, <3>3
    <3> QED BY <3>1, <3>2, <3>4, Zenon
  <2>3. w = <<Contents[n][1], Contents[n][2] + 1>>
    BY <1>4, <2>1, <2>2, Zenon
  <2>4. rleft' = rleft - 1
    BY <1>10, Zenon DEF ReadWord
  <2>5. rleft' = RecLen(w[1]) - w[2]
    <3>1. w[1] = Contents[n][1] /\ w[2] = Contents[n][2] + 1
      BY ONLY <2>3
    <3>2. /\ rleft = RecLen(Contents[n][1]) - Contents[n][2] /\ RecLen(Contents[n][1]) \in Nat
          /\ Contents[n][2] \in 1..RecLen(Contents[n][1])
      BY <1>4, <2>1, Zenon
    <3> QED BY ONLY <2>4, <3>1, <3>2
  <2>6. rleft' \in 0..Capacity
    BY <1>10, <2>4, CapacityAssumption DEF TypeOK
  <2> QED BY <1>1, <1>2, <1>4, <1>6, <1>7, <1>8, <1>10, <2>1, <2>3, <2>5, <2>6, Zenon DEF ReadWord
<1> QED BY <1>9, <1>10, Zenon

\* Reading a word keeps the invariant; only the last word of the last record
\* in the ring can be the end of a close record.
LEMMA ReadWordStep ==
  ASSUME IInv, ReadWord
  PROVE  IInv' /\ Contents' = Contents
<1> USE DEF IInv
<1> DEFINE n == Len(got)
           w == Contents[n + 1]
           last == rleft' = 0 /\ w[1].kind = "close"
<1>0. UNCHANGED <<nwritten, nread_plus_capacity, cells, rpc, rbegin, rsize, registered,
                  wrnread_plus_capacity, wrnwritten, wpc, wrec, wtry, wspan, wpos>>
  BY Zenon DEF ReadWord, writerVars
<1>1. Used' = Used /\ nread' = nread /\ Contents' = Contents
  BY ONLY <1>0, ContentsFrame, Zenon
<1>2. /\ rpc = "read" /\ ~destroy /\ n \in Nat /\ n + 1 \in 1..rsize /\ rsize \in 1..Used
      /\ Used \in 0..Capacity /\ got \in Seq(Word)
  <2>1. rpc = "read" /\ got \in Seq(Word) /\ Used \in 0..Capacity
    BY CounterFacts, Zenon DEF ReadWord, TypeOK
  <2>2. ~destroy /\ n + 1 \in 1..rsize /\ rsize \in 1..Used
    BY NextWord, Zenon
  <2> QED BY ONLY <2>1, <2>2
<1>3. w \in Word /\ w = cells[clamp(Add(rbegin, n))] /\ w[1] \in Stored
  <2>1. n + 1 \in 1..Used /\ (n + 1) - 1 = n /\ n \in 0..Capacity
    BY <1>2, CapacityAssumption
  <2>2. rbegin = nread
    BY <1>2, Zenon DEF ReaderInv
  <2> QED BY <2>1, <2>2, CellFacts, NextWord, Zenon DEF TypeOK
<1>4. /\ got' = Append(got, w) /\ got' \in Seq(Word) /\ Len(got') = n + 1
      /\ got'[n + 1] = w /\ got' # <<>>
      /\ \A i \in 1..n : got'[i] = got[i]
  <2>1. got' = Append(got, w)
    BY NextWord, Zenon
  <2> QED BY <1>2, <1>3, <2>1
<1>5. (destroy' <=> last) /\ (notified' <=> (notified \/ last))
      /\ destroy' \in BOOLEAN /\ notified' \in BOOLEAN
  <2>1. destroy' = (destroy \/ (rleft' = 0 /\ cells[clamp(Add(rbegin, n))][1].kind = "close"))
    BY Zenon DEF ReadWord
  <2>2. notified' = (notified \/ (rleft' = 0 /\ cells[clamp(Add(rbegin, n))][1].kind = "close"))
    BY Zenon DEF ReadWord
  <2>3. destroy' = last
    BY <1>2, <1>3, <2>1, Zenon
  <2>4. notified' = (notified \/ last)
    BY <1>3, <2>2, SMTT(20)
  <2> QED BY <2>3, <2>4, Zenon
<1>6. TypeOK'
  <2>1. rleft' \in 0..Capacity
    <3> HIDE DEF IInv
    <3> QED BY NextWord, Zenon
  <2> QED BY <1>4, <1>5, <2>1, Zenon DEF ReadWord, TypeOK, writerVars
<1>7. CountersInv' /\ WriterInv'
  <2>1. CachedFree' = CachedFree /\ Free' = Free
    BY <1>0, Zenon DEF CachedFree, Free
  <2>2. CountersInv /\ WriterInv
    BY Zenon
  <2> QED BY ONLY <1>0, <2>1, <2>2, Zenon DEF CountersInv, WriterInv
<1>8. Whole(Contents, Used)' /\ CloseIsLast'
  <2>1. Whole(Contents, Used) /\ CloseIsLast
    BY Zenon
  <2> QED BY ONLY <1>0, <1>1, <2>1, Zenon DEF Whole, CloseIsLast
<1>9. last => wpc = "sync" /\ n + 1 = Used /\ n + 1 = rsize
  <2>1. rleft' = RecLen(w[1]) - w[2] /\ w[2] \in 1..RecLen(w[1]) /\ RecLen(w[1]) \in Nat
    <3>1. n + 1 \in 1..Used
      BY <1>2
    <3>2. w[2] \in 1..RecLen(w[1])
      BY <3>1, Zenon DEF Whole
    <3> QED BY <1>3, <3>2, NextWord, StoredFacts, Zenon
  <2>2. last => w[2] = RecLen(w[1])
    BY <2>1
  <2>3. last => wpc = "sync" /\ n + 1 = Used
    BY <1>2, <2>2 DEF CloseIsLast
  <2> QED BY <1>2, <2>3
<1>10. Handshake'
  <2>1. rpc' = rpc /\ wpc' = wpc /\ registered' = registered
    BY Zenon DEF ReadWord, writerVars
  <2>2. ~Gone /\ ~notified /\ wpc # "closed" /\ ~registered
    BY <1>2, Zenon DEF Handshake, Gone
  <2>3. Gone' <=> last
    BY <1>2, <1>5, <2>1, Zenon DEF Gone
  <2>4. notified' <=> last
    BY <1>5, <2>2, Zenon
  <2> QED BY <1>2, <1>9, <2>1, <2>2, <2>3, <2>4, Zenon DEF Handshake
<1>11. ReaderInv'
  <2>1. rpc' = rpc /\ rbegin' = rbegin /\ rsize' = rsize
    BY Zenon DEF ReadWord
  <2>2. rleft' = RecLen(got'[Len(got')][1]) - got'[Len(got')][2]
    BY <1>4, NextWord, Zenon
  <2>3. /\ rbegin = nread /\ Whole(Contents, rsize)
        /\ \A i \in 1..n : got[i] = Contents[i]
    BY <1>2, Zenon DEF ReaderInv
  <2>4. \A i \in 1..Len(got') : got'[i] = Contents[i]
    BY <1>2, <1>4, <2>3
  <2>5. Whole(Contents, rsize)'
    BY <1>1, <2>1, <2>3, Zenon DEF Whole
  <2>6. SpanEnd' <= rsize /\ SpanEnd' \in Int
    BY <2>1, SpanEndFacts, Zenon DEF SpanEnd
  <2>7. destroy' => rleft' = 0 /\ Len(got') >= SpanEnd'
    BY <1>2, <1>4, <1>5, <1>9, <2>6, Zenon
  <2>8. Len(got') <= rsize
    BY <1>2, <1>4
  <2> QED BY <1>1, <1>2, <1>4, <2>1, <2>2, <2>3, <2>4, <2>5, <2>7, <2>8, Zenon DEF ReaderInv
<1>12. ReadIntact'
  <2> SUFFICES ASSUME NEW i \in 1..Len(got')
               PROVE  /\ got'[i][1] # NoRecord
                      /\ IF i = 1 \/ got'[i - 1][2] = RecLen(got'[i - 1][1])
                           THEN got'[i][2] = 1
                           ELSE got'[i] = <<got'[i - 1][1], got'[i - 1][2] + 1>>
    BY Zenon DEF ReadIntact
  <2>1. CASE i <= n
    <3>1. i \in 1..n /\ (i # 1 => i - 1 \in 1..n)
      BY <1>2, <1>4, <2>1
    <3>2. got'[i] = got[i] /\ (i # 1 => got'[i - 1] = got[i - 1])
      BY <1>4, <3>1, Zenon
    <3> QED BY <3>1, <3>2, Zenon DEF ReadIntact
  <2>2. CASE i > n
    <3>a. w[1] # NoRecord
      BY <1>3, StoredFacts, Zenon
    <3>0. i = n + 1 /\ w[1] # NoRecord
      <4>1. i \in 1..(n + 1) /\ n \in Nat
        BY <1>2, <1>4, Zenon
      <4> QED BY ONLY <2>2, <3>a, <4>1
    <3>1. i = n + 1 /\ got'[i] = w /\ i - 1 = n /\ w[1] # NoRecord
      BY <1>2, <1>4, <3>0
    <3>2. CASE i = 1
      <4>1. rleft = 0
        BY <1>2, <3>1, <3>2 DEF ReaderInv
      <4> QED BY <3>1, <3>2, <4>1, NextWord, Zenon
    <3>3. CASE i # 1
      <4>1. n \in 1..n /\ got # <<>>
        BY <1>2, <3>1, <3>3
      <4>2. got'[i - 1] = got[n]
        BY <1>4, <3>1, <4>1, Zenon
      <4>3. rleft = RecLen(got[n][1]) - got[n][2] /\ got[n] = Contents[n]
        BY <1>2, <4>1, Zenon DEF ReaderInv
      <4>4. RecLen(got[n][1]) \in Nat /\ got[n][2] \in Nat
        <5>1. n \in 1..Used
          BY <1>2, <4>1
        <5>2. Contents[n][1] \in Stored /\ Contents[n][2] \in 1..RecLen(Contents[n][1])
          BY <5>1, Zenon DEF Whole
        <5>3. RecLen(Contents[n][1]) \in Nat
          BY ONLY <5>2, StoredFacts, Zenon
        <5> QED BY ONLY <4>3, <5>2, <5>3
      <4>5. rleft = 0 <=> got[n][2] = RecLen(got[n][1])
        <5> HIDE DEF n
        <5> QED BY ONLY <4>3, <4>4
      <4> QED BY <3>1, <3>3, <4>2, <4>5, NextWord, Zenon
    <3> QED BY <3>1, <3>2, <3>3, Zenon
  <2>3. i <= n \/ i > n
    BY <1>2, <1>4
  <2> QED BY <2>1, <2>2, <2>3, Zenon
<1> QED BY <1>1, <1>6, <1>7, <1>8, <1>10, <1>11, <1>12, Zenon

\* Releasing the words read moves the ring on to the next record.
LEMMA ReleaseStep ==
  ASSUME IInv, reduce_readable
  PROVE  /\ IInv'
         /\ ~destroy /\ destroy' = destroy /\ Len(got) \in 0..Used
         /\ Used' = Used - Len(got) /\ got' = <<>>
         /\ \A i \in 1..Used' : Contents'[i] = Contents[i + Len(got)]
         /\ Len(got) < Used => Contents[Len(got) + 1][2] = 1
<1> USE DEF IInv
<1> DEFINE n == Len(got)
<1>1. rpc = "read" /\ rleft = 0 /\ ~destroy
  BY Zenon DEF reduce_readable, ReleaseWords, SpanDone
<1>2. /\ rsize \in 1..Used /\ n \in Nat /\ n <= rsize /\ Used \in 0..Capacity
      /\ \A i \in 1..n : got[i] = Contents[i]
  <2>1. n \in Nat
    BY DEF TypeOK
  <2>2. rsize \in 1..Used /\ n <= rsize /\ \A i \in 1..n : got[i] = Contents[i]
    BY <1>1, Zenon DEF ReaderInv
  <2>3. Used \in 0..Capacity
    BY CounterFacts, Zenon
  <2> QED BY <2>1, <2>2, <2>3, Zenon
<1>3. n = 0 \/ Contents[n][2] = RecLen(Contents[n][1])
  <2> SUFFICES ASSUME n # 0 PROVE Contents[n][2] = RecLen(Contents[n][1])
    BY Zenon
  <2>1. got # <<>> /\ n \in 1..n /\ n \in 1..Used
    BY <1>2
  <2>2. 0 = RecLen(Contents[n][1]) - Contents[n][2]
    BY <1>1, <1>2, <2>1, Zenon DEF ReaderInv
  <2>3. Contents[n][1] \in Stored /\ Contents[n][2] \in 1..RecLen(Contents[n][1])
    BY <2>1, Zenon DEF Whole
  <2>4. RecLen(Contents[n][1]) \in Nat
    BY <2>3, StoredFacts, Zenon
  <2> QED BY <2>2, <2>3, <2>4
<1>4. /\ nread_plus_capacity' = Add(nread_plus_capacity, n)
      /\ nwritten' = nwritten /\ wrnwritten' = wrnwritten
      /\ wrnread_plus_capacity' = wrnread_plus_capacity
      /\ cells' = cells /\ got' = <<>> /\ rpc' = "idle"
      /\ rleft' = rleft /\ destroy' = destroy
  BY Zenon DEF reduce_readable, ReleaseWords, writerVars
<1>5. /\ nread_plus_capacity' \in Counter /\ nread' = Add(nread, n)
      /\ Used' = Used - n /\ Free' = Free + n
  <2>1. n <= Used /\ Used <= Capacity
    BY <1>2, CapacityAssumption
  <2>2. nwritten \in Counter /\ nread_plus_capacity \in Counter /\ nwritten = wrnwritten
    BY SMTT(20) DEF TypeOK, CountersInv
  <2>3. n \in Nat /\ n <= Sub(nwritten, Sub(nread_plus_capacity, Capacity))
        /\ Sub(nwritten, Sub(nread_plus_capacity, Capacity)) <= Capacity
    BY <1>2, <2>1, Zenon DEF Used, nread
  <2> QED BY ONLY <1>4, <2>2, <2>3, ReleaseCounters, Zenon DEF Used, Free, nread
<1>6. ASSUME NEW i \in 1..Used' PROVE Contents'[i] = Contents[i + n]
  <2>1. i + n \in 1..Used /\ i - 1 \in 0..Capacity /\ n \in 0..Capacity
        /\ n + (i - 1) = (i + n) - 1 /\ n + (i - 1) <= Capacity
    BY <1>2, <1>5, CapacityAssumption, SMTT(20)
  <2>2. Add(Add(nread, n), i - 1) = Add(nread, (i + n) - 1)
    <3>1. nread \in Counter
      BY CounterFacts, Zenon
    <3> HIDE DEF n
    <3> QED BY ONLY <2>1, <3>1, AddFacts
  <2>3. Contents'[i] = cells[clamp(Add(Add(nread, n), i - 1))]
    BY <1>4, <1>5, Zenon DEF Contents
  <2>4. Contents[i + n] = cells[clamp(Add(nread, (i + n) - 1))]
    BY ONLY <2>1, Zenon DEF Contents
  <2> QED BY ONLY <2>2, <2>3, <2>4, Zenon
<1>7. Whole(Contents, Used)'
  <2>1. Whole(Contents', Used - n)
    <3>1. Used \in Nat /\ n \in Nat /\ n <= Used
      BY <1>2
    <3>2. \A i \in 1..(Used - n) : Contents'[i] = Contents[i + n]
      BY <1>5, <1>6, Zenon
    <3>3. Whole(Contents, Used)
      BY Zenon
    <3> HIDE DEF n, IInv
    <3> QED BY <1>3, <3>1, <3>2, <3>3, WholeSuffix, Zenon
  <2> QED BY <1>5, <2>1, Zenon DEF Whole
<1>8. n < Used => Contents[n + 1][2] = 1
  <2> SUFFICES ASSUME n < Used PROVE Contents[n + 1][2] = 1
    BY Zenon
  <2>1. 1 \in 1..Used' /\ 1 + n = n + 1
    BY <1>2, <1>5
  <2>2. /\ Contents'[1][1] \in Stored
        /\ Contents'[1][2] \in 1..RecLen(Contents'[1][1]) /\ 1 >= Contents'[1][2]
    BY <1>7, <2>1, Zenon DEF Whole
  <2>3. RecLen(Contents'[1][1]) \in Nat
    BY <2>2, StoredFacts, Zenon
  <2>4. Contents'[1][2] = 1
    BY <2>2, <2>3
  <2> QED BY <1>6, <2>1, <2>4, Zenon
<1>9. TypeOK'
  <2>1. rbegin' \in Counter /\ rsize' \in 0..Capacity /\ got' \in Seq(Word)
    BY CapacityAssumption DEF reduce_readable, ReleaseWords, Counter
  <2> QED BY <1>5, <2>1, Zenon DEF reduce_readable, ReleaseWords, TypeOK, writerVars
<1>10. CountersInv'
  <2>1. CachedFree' = CachedFree
    BY <1>4, Zenon DEF CachedFree
  <2>2. /\ nwritten = wrnwritten /\ CachedFree <= Free /\ CachedFree \in 0..Capacity
        /\ Used \in 0..Capacity /\ Free \in 0..Capacity /\ Used + Free = Capacity
    BY CounterFacts, Zenon DEF CountersInv
  <2>3. n \in Nat /\ n <= Used
    BY ONLY <1>2, CapacityAssumption
  <2> QED BY ONLY <1>4, <1>5, <2>1, <2>2, <2>3, CapacityAssumption DEF CountersInv
<1>11. WriterInv'
  BY Zenon DEF reduce_readable, ReleaseWords, writerVars, WriterInv, CachedFree
<1>12. CloseIsLast'
  <2> SUFFICES ASSUME NEW i \in 1..Used', Contents'[i][1].kind = "close"
               PROVE  wpc' = "sync" /\ (Contents'[i][2] = RecLen(Contents'[i][1]) => i = Used')
    BY Zenon DEF CloseIsLast
  <2>1. Contents'[i] = Contents[i + n] /\ i + n \in 1..Used
    <3>1. i + n \in 1..Used
      <4> HIDE DEF n
      <4> QED BY ONLY <1>2, <1>5, CapacityAssumption
    <3>2. Contents'[i] = Contents[i + n]
      BY <1>6, Zenon
    <3> QED BY ONLY <3>1, <3>2, Zenon
  <2>2. wpc' = wpc
    BY Zenon DEF reduce_readable, ReleaseWords, writerVars
  <2>3. wpc = "sync" /\ (Contents[i + n][2] = RecLen(Contents[i + n][1]) => i + n = Used)
    BY <2>1, Zenon DEF CloseIsLast
  <2>4. i + n = Used => i = Used'
    BY ONLY <1>2, <1>5, CapacityAssumption
  <2> QED BY ONLY <2>1, <2>2, <2>3, <2>4, Zenon
<1>13. Handshake'
  BY <1>1, Zenon DEF Handshake, Gone, reduce_readable, ReleaseWords, writerVars
<1>14. ReaderInv' /\ ReadIntact'
  <2>1. Len(<<>>) = 0 /\ 1..Len(<<>>) = {}
    OBVIOUS
  <2>2. rpc' = "idle" /\ got' = <<>> /\ rleft' = 0
    BY <1>1, <1>4, Zenon
  <2>3. ReaderInv'
    BY ONLY <2>2, Zenon DEF ReaderInv
  <2>4. ReadIntact'
    BY ONLY <2>1, <2>2, Zenon DEF ReadIntact
  <2> QED BY <2>3, <2>4, Zenon
<1>15. n \in 0..Used
  BY <1>2
<1> QED BY <1>1, <1>4, <1>5, <1>6, <1>7, <1>8, <1>9, <1>10, <1>11, <1>12, <1>13, <1>14, <1>15, Zenon

\* Every step of either thread keeps the invariant.
LEMMA NextIInv == IInv /\ [Next]_vars => IInv'
<1> SUFFICES ASSUME IInv, [Next]_vars PROVE IInv'
  BY Zenon
<1>1. ASSUME NEW r \in Records, NEW try \in BOOLEAN, Post(r, try) PROVE IInv'
  BY <1>1, PostStep, Zenon
<1>2. CASE Load \/ Retry \/ Extend
  BY <1>2, ReloadStep, Zenon
<1>3. CASE Copy
  BY <1>3, CopyStep, Zenon
<1>4. CASE reduce_writable
  BY <1>4, PublishStep, Zenon
<1>5. CASE clear
  BY <1>5, ClearStep, Zenon
<1>6. CASE Register \/ add_sink
  BY <1>6, RegisterStep, Zenon
<1>7. CASE read_span
  BY <1>7, ReadSpanStep, Zenon
<1>8. CASE ReadWord
  BY <1>8, ReadWordStep, Zenon
<1>9. CASE reduce_readable
  BY <1>9, ReleaseStep, Zenon
<1>10. CASE Detach
  BY <1>10, DetachStep, Zenon
<1>11. CASE UNCHANGED vars
  <2>1. Used' = Used /\ nread' = nread /\ Contents' = Contents
    BY <1>11, ContentsFrame, Zenon DEF vars
  <2>2. TypeOK'
    BY <1>11, Zenon DEF IInv, TypeOK, vars, writerVars, readerVars
  <2>3. CountersInv' /\ WriterInv'
    BY <1>11, Zenon DEF IInv, CountersInv, WriterInv, CachedFree, Free, vars, writerVars
  <2>4. Whole(Contents, Used)' /\ CloseIsLast'
    BY <1>11, <2>1, Zenon DEF IInv, Whole, CloseIsLast, vars, writerVars
  <2>5. Handshake'
    BY <1>11, Zenon DEF IInv, Handshake, Gone, vars, writerVars, readerVars
  <2>6. ReaderInv' /\ ReadIntact'
    BY <1>11, <2>1, ReaderFrame, Zenon DEF IInv, vars
  <2> QED BY <2>2, <2>3, <2>4, <2>5, <2>6, Zenon DEF IInv
<1> QED BY <1>1, <1>2, <1>3, <1>4, <1>5, <1>6, <1>7, <1>8, <1>9, <1>10, <1>11, Zenon
        DEF Next, Writer, Reader

-----------------------------------------------------------------------------
(* The results. *)

\* IInv holds in every state the two threads can reach.
THEOREM Invariance == Spec => []IInv
BY InitIInv, NextIInv, PTL DEF Spec

\* Every counter, local and word of memory keeps its type.
THEOREM TypeCorrect == Spec => []TypeOK
BY Invariance, IInvImplies, PTL

\* The span handed out by write_span never overlaps an unread word, for every
\* ring size, every counter value (including across the wrap of size_t) and
\* every interleaving of the two threads.
THEOREM SpanAlwaysFree == Spec => []SpanIsFree
BY Invariance, IInvImplies, PTL

\* run_once only ever sees whole records, in order, starting with a trampoline.
THEOREM ReadAlwaysIntact == Spec => []ReadIntact
BY Invariance, IInvImplies, PTL

\* After close() has cleared the ring, the consumer leaves the sink alone.
THEOREM ClosedStaysUntouched == Spec => ClosedIsUntouched
<1>1. IInv /\ [Next]_vars =>
        [wpc = "closed" => /\ nread_plus_capacity' = nread_plus_capacity
                           /\ Len(got') <= Len(got)
                           /\ rpc' = "read" => rpc = "read"]_vars
  <2> SUFFICES ASSUME IInv, Next, wpc = "closed"
               PROVE  /\ nread_plus_capacity' = nread_plus_capacity
                      /\ Len(got') <= Len(got)
                      /\ rpc' = "read" => rpc = "read"
    BY Zenon
  <2>1. Gone
    BY Zenon DEF IInv, Handshake
  <2>2. ~ReadWord
    BY <2>1, NextWord, Zenon DEF Gone, ReadWord
  <2>3. ~read_span /\ ~reduce_readable
    BY <2>1, Zenon DEF Gone, read_span, reduce_readable, ReleaseWords, SpanDone
  <2>4. Len(got) \in Nat
    BY DEF IInv, TypeOK
  <2>5. CASE Writer
    <3>1. Register
      BY <2>5, Zenon DEF Writer, Post, Load, Retry, Extend, Copy, reduce_writable, PublishWords, clear, ClearWith
    <3> QED BY <2>4, <3>1 DEF Register, readerVars
  <2>6. CASE Detach
    BY <2>4, <2>6 DEF Detach
  <2>7. CASE add_sink
    BY <2>4, <2>7 DEF add_sink
  <2> QED BY <2>2, <2>3, <2>5, <2>6, <2>7, Zenon DEF Next, Reader
<1> QED BY <1>1, Invariance, PTL DEF Spec, ClosedIsUntouched

-----------------------------------------------------------------------------
(* The ring implements RecordQueue; the theorems about sequences are the library's. *)

INSTANCE SequenceTheorems

\* The contents of the ring are a sequence of words.
LEMMA ContentsSeq ==
  TypeOK /\ CountersInv => Contents \in Seq(Word) /\ Len(Contents) = Used
<1> SUFFICES ASSUME TypeOK, CountersInv
             PROVE  Contents \in Seq(Word) /\ Len(Contents) = Used
  BY Zenon
<1>1. Used \in Nat /\ Contents = [i \in 1..Used |-> cells[clamp(Add(nread, i - 1))]]
  BY CounterFacts DEF Contents
<1>2. ASSUME NEW i \in 1..Used PROVE cells[clamp(Add(nread, i - 1))] \in Word
  <2>1. i - 1 \in 0..Capacity
    BY CounterFacts, CapacityAssumption
  <2> QED BY <2>1, CellFacts, Zenon DEF TypeOK
<1> HIDE DEF Contents
<1> QED BY <1>1, <1>2

\* A publication is the abstract Publish.
LEMMA PublishRefines ==
  ASSUME IInv, reduce_writable
  PROVE  Queue!Publish
<1>1. TypeOK /\ CountersInv /\ TypeOK' /\ CountersInv'
  BY PublishStep, Zenon DEF IInv
<1>2. Contents \in Seq(Word) /\ Len(Contents) = Used
  BY <1>1, ContentsSeq, Zenon
<1>3. (Contents \in Seq(Word) /\ Len(Contents) = Used)'
  BY <1>1, ContentsSeq, PTL
<1>4. Contents' \in Seq(Word) /\ Len(Contents') = Used'
  BY <1>3, Zenon
<1>5. /\ wrec \in Stored /\ Used' = Used + RecLen(wrec) /\ Used' <= Capacity
      /\ \A i \in 1..Used : Contents'[i] = Contents[i]
      /\ \A m \in 1..RecLen(wrec) : Contents'[Used + m] = <<wrec, m>>
  BY PublishStep, Zenon
<1>6. RecLen(wrec) \in Nat /\ RecLen(wrec) <= Capacity /\ Used \in 0..Capacity
  <2>1. RecLen(wrec) \in Nat /\ Used \in 0..Capacity
    BY <1>1, <1>5, StoredFacts, CounterFacts, Zenon
  <2>2. RecLen(wrec) <= Capacity
    BY ONLY <1>5, <2>1, CapacityAssumption
  <2> QED BY <2>1, <2>2, Zenon
<1> DEFINE n == RecLen(wrec)
           W == [k \in 1..n |-> <<wrec, k>>]
<1>7. W \in Seq(Word) /\ Len(W) = n
  <2>1. \A k \in 1..n : <<wrec, k>> \in Word
    BY <1>5, <1>6, CapacityAssumption DEF Word
  <2> QED BY <1>6, <2>1
<1>8. Contents \o W \in Seq(Word) /\ Len(Contents \o W) = Used + n
      /\ \A i \in 1..(Used + n) : (Contents \o W)[i] =
            IF i <= Used THEN Contents[i] ELSE W[i - Used]
  <2> HIDE DEF W, n
  <2>1. /\ Contents \o W \in Seq(Word)
        /\ Len(Contents \o W) = Len(Contents) + Len(W)
        /\ \A i \in 1..(Len(Contents) + Len(W)) : (Contents \o W)[i] =
              IF i <= Len(Contents) THEN Contents[i] ELSE W[i - Len(Contents)]
    BY <1>2, <1>7, ConcatProperties, Zenon
  <2> QED BY <1>2, <1>7, <2>1, Zenon
<1>9. ASSUME NEW i \in 1..(Used + n) PROVE Contents'[i] = (Contents \o W)[i]
  <2>1. CASE i <= Used
    <3>1. i \in 1..Used
      BY ONLY <1>6, <2>1, i \in 1..(Used + n)
    <3> QED BY <1>5, <1>8, <2>1, <3>1, Zenon
  <2>2. CASE ~(i <= Used)
    <3>1. i - Used \in 1..n /\ Used + (i - Used) = i
      BY <1>6, <2>2
    <3>2. W[i - Used] = <<wrec, i - Used>>
      BY <3>1, Zenon
    <3>3. Contents'[i] = <<wrec, i - Used>>
      BY <1>5, <3>1, Zenon
    <3> QED BY <1>8, <2>2, <3>2, <3>3, Zenon
  <2> QED BY <2>1, <2>2, Zenon
<1>10. Contents' = Contents \o W
  <2> HIDE DEF W
  <2> QED BY <1>3, <1>4, <1>5, <1>8, <1>9, SeqEqual, Zenon
<1>11. W = Queue!Words(wrec) /\ Queue!RecLen(wrec) = n
  BY Zenon DEF Queue!Words, Queue!RecLen, RecLen
<1>12. UNCHANGED <<got, destroy>>
  BY Zenon DEF reduce_writable, PublishWords, readerVars
<1> QED BY <1>2, <1>5, <1>10, <1>11, <1>12, Zenon DEF Queue!Publish

\* A word read is the abstract Deliver.
LEMMA ReadWordRefines ==
  ASSUME IInv, ReadWord
  PROVE  Queue!Deliver
<1> DEFINE n == Len(got)
           w == Contents[n + 1]
<1>1. Contents \in Seq(Word) /\ Len(Contents) = Used /\ Used \in Nat /\ n \in Nat
  <2>1. TypeOK /\ CountersInv
    BY Zenon DEF IInv
  <2>2. Contents \in Seq(Word) /\ Len(Contents) = Used /\ Used \in 0..Capacity
    BY <2>1, ContentsSeq, CounterFacts, Zenon
  <2>3. got \in Seq(Word)
    BY <2>1, Zenon DEF TypeOK
  <2>4. Used \in Nat /\ n \in Nat
    BY ONLY <2>2, <2>3, CapacityAssumption
  <2> QED BY <2>2, <2>4, Zenon
<1>2. Contents' = Contents
  BY ReadWordStep, Zenon
<1>3. /\ ~destroy /\ n + 1 \in 1..rsize /\ rsize \in 1..Used
      /\ got' = Append(got, w) /\ w[1] \in Stored
      /\ rleft' = RecLen(w[1]) - w[2]
  BY NextWord, Zenon
<1>4. n < Len(Contents) /\ n + 1 \in 1..Used /\ (n + 1) - 1 = n
  BY <1>1, <1>3
<1>5. w[2] \in 1..RecLen(w[1]) /\ RecLen(w[1]) \in Nat
  BY <1>3, <1>4, StoredFacts, Zenon DEF IInv, Whole
<1>6. cells[clamp(Add(rbegin, n))] = w
  <2>1. rbegin = nread
    BY <1>3, Zenon DEF IInv, ReaderInv, ReadWord
  <2> QED BY <1>4, <2>1, CellFacts, Zenon DEF IInv
<1>7. rleft' = 0 <=> w[2] = RecLen(w[1])
  BY <1>3, <1>5
<1>8. destroy' = (destroy \/ (rleft' = 0 /\ w[1].kind = "close"))
  BY <1>6, Zenon DEF ReadWord
<1>9. Queue!RecLen(w[1]) = RecLen(w[1])
  BY Zenon DEF RecLen, Queue!RecLen
<1>10. destroy' = Queue!EndsClose(w)
  BY <1>3, <1>7, <1>8, <1>9, Zenon DEF Queue!EndsClose
<1> QED BY <1>2, <1>3, <1>4, <1>10, Zenon DEF Queue!Deliver

\* reduce_readable is the abstract Release.
LEMMA ReleaseRefines ==
  ASSUME IInv, reduce_readable
  PROVE  Queue!Release
<1> DEFINE n == Len(got)
<1>1. TypeOK /\ CountersInv /\ TypeOK' /\ CountersInv'
  BY ReleaseStep, Zenon DEF IInv
<1>2. Contents \in Seq(Word) /\ Len(Contents) = Used /\ Used \in Nat
  BY <1>1, ContentsSeq, CounterFacts
<1>3. Contents' \in Seq(Word) /\ Len(Contents') = Used'
  <2>1. (Contents \in Seq(Word) /\ Len(Contents) = Used)'
    BY <1>1, ContentsSeq, PTL
  <2> QED BY <2>1, Zenon
<1>4. /\ ~destroy /\ destroy' = destroy /\ n \in 0..Used
      /\ Used' = Used - n /\ got' = <<>>
      /\ \A i \in 1..Used' : Contents'[i] = Contents[i + n]
      /\ n < Used => Contents[n + 1][2] = 1
  BY ReleaseStep, Zenon
<1> DEFINE S == SubSeq(Contents, n + 1, Used)
<1>5. S \in Seq(Word) /\ Len(S) = Used - n /\ \A i \in 1..(Used - n) : S[i] = Contents[i + n]
  <2>1. n + 1 \in Int /\ Used \in Int /\ \A i \in (n + 1)..Used : Contents[i] \in Word
    BY <1>2, <1>4, ElementOfSeq
  <2>2. /\ S \in Seq(Word)
        /\ Len(S) = IF n + 1 <= Used THEN Used - (n + 1) + 1 ELSE 0
        /\ \A i \in 1..(Used - (n + 1) + 1) : S[i] = Contents[(n + 1) + i - 1]
    BY <2>1, SubSeqProperties
  <2>3. Used - (n + 1) + 1 = Used - n /\ \A i \in 1..(Used - n) : (n + 1) + i - 1 = i + n
    BY <1>2, <1>4
  <2>4. (IF n + 1 <= Used THEN Used - (n + 1) + 1 ELSE 0) = Used - n
    BY <1>2, <1>4
  <2> HIDE DEF S
  <2> QED BY <2>2, <2>3, <2>4, Zenon
<1>6. Contents' = S
  <2> HIDE DEF S
  <2> QED BY <1>3, <1>4, <1>5, SeqEqual, Zenon
<1> QED BY <1>2, <1>4, <1>6, Zenon DEF Queue!Release, Queue!IsHead

\* Every step of the ring is a step of the queue or leaves it unchanged.
LEMMA StepRefines ==
  IInv /\ [Next]_vars => [Queue!QNext]_<<Contents, got, destroy>>
<1> SUFFICES ASSUME IInv, [Next]_vars
             PROVE  Queue!QNext \/ UNCHANGED <<Contents, got, destroy>>
  BY Zenon
<1>1. ASSUME NEW r \in Records, NEW try \in BOOLEAN, Post(r, try)
      PROVE  UNCHANGED <<Contents, got, destroy>>
  BY <1>1, ContentsFrame, Zenon DEF Post, readerVars
<1>2. CASE Load \/ Retry \/ Extend
  BY <1>2, ContentsFrame, Zenon DEF Load, Retry, Extend, Reload, readerVars
<1>3. CASE Copy
  BY <1>3, CopyStep, Zenon DEF Copy, readerVars
<1>4. CASE reduce_writable
  BY <1>4, PublishRefines, Zenon DEF Queue!QNext
<1>5. CASE clear
  <2>1. Used' = 0 /\ destroy /\ UNCHANGED <<got, destroy>>
    BY <1>5, ClearStep, Zenon DEF clear, ClearWith, readerVars
  <2>2. Contents' = <<>>
    BY <2>1 DEF Contents
  <2> QED BY <2>1, <2>2, Zenon DEF Queue!QNext, Queue!Discard
<1>6. CASE Register \/ add_sink
  BY <1>6, RegisterStep, Zenon DEF Register, add_sink, readerVars
<1>7. CASE read_span
  <2>1. Contents' = Contents /\ got = <<>> /\ got' = got /\ destroy' = FALSE
    BY <1>7, ReadSpanStep, Zenon DEF read_span
  <2>2. CASE destroy
    BY <2>1, <2>2, Zenon DEF Queue!QNext, Queue!Reopen
  <2>3. CASE ~destroy
    BY <2>1, <2>3, Zenon DEF IInv, TypeOK
  <2> QED BY <2>2, <2>3, Zenon
<1>8. CASE ReadWord
  BY <1>8, ReadWordRefines, Zenon DEF Queue!QNext
<1>9. CASE reduce_readable
  BY <1>9, ReleaseRefines, Zenon DEF Queue!QNext
<1>10. CASE Detach
  BY <1>10, DetachStep, Zenon DEF Detach, Queue!QNext, Queue!Forget
<1>11. CASE UNCHANGED vars
  BY <1>11, ContentsFrame, Zenon DEF vars, readerVars
<1> QED BY <1>1, <1>2, <1>3, <1>4, <1>5, <1>6, <1>7, <1>8, <1>9, <1>10, <1>11, Zenon
        DEF Next, Writer, Reader

\* The ring, with its cached counters, its mirrored memory and its wrapping
\* arithmetic, implements the bounded FIFO of whole records.
THEOREM RingImplementsQueue == Spec => ImplementsQueue
<1>1. Init => Queue!QInit
  <2> SUFFICES ASSUME Init PROVE Queue!QInit
    BY Zenon
  <2>1. Used = 0
    BY InitEmpty, Zenon
  <2>2. Contents = <<>>
    BY <2>1 DEF Contents
  <2> QED BY <2>2, Zenon DEF Init, Queue!QInit
<1> QED BY <1>1, StepRefines, Invariance, PTL DEF Spec, ImplementsQueue, Queue!QSpec
=============================================================================
