------------------------ MODULE IoUringStorageProofs ------------------------
(***************************************************************************)
(* Proofs about IoUringStorage for every queue size, batch size, buffer    *)
(* capacity and bound: buffers and completions are accounted for in every  *)
(* state, and, when every reopen finds a rotated file, every byte lands    *)
(* where it belongs and is in a file once nothing is pending.              *)
(***************************************************************************)
EXTENDS IoUringStorage, TLAPS

Sqe == [b : Buffers, fd : Int, drain : BOOLEAN, link : BOOLEAN]
Req == [b : Buffers, fd : Int, drain : BOOLEAN, after : Buffers \cup {None}]
Cqe == [b : Buffers, res : Nat \cup {-1}]
Buf == [size : Int, offset : Nat, file_offset : Nat, data : Nat]

\* Every member keeps the type of its C++ counterpart.
TypeOK ==
  /\ free_list \in Seq(Buffers) /\ held \in Buffers \cup {None}
  /\ sq \in Seq(Sqe) /\ kernel \in Seq(Req) /\ cq \in Seq(Cqe)
  /\ buf \in [Buffers -> Buf]
  /\ batch_index \in Nat /\ pending_cqe_count \in Int
  /\ offset \in Nat /\ logged \in Nat
  /\ files \in [1..(MaxReopens + 1) -> Seq(Nat)]
  /\ reopens \in 0..MaxReopens /\ fd \in 1..(reopens + 1)
  /\ IF opc = "replace_fd" THEN newfd \in [file : 1..(reopens + 1), at : Nat]
                           ELSE newfd = None

\* The members of a list, the buffers of a queue, and the caller's buffer.
Elems(s) == {s[k] : k \in 1..Len(s)}
BufsOf(s) == {s[k].b : k \in 1..Len(s)}
HeldSet == IF held = None THEN {} ELSE {held}

\* BuffersConserved, without the concatenation.
AllPlaced ==
  Elems(free_list) \cup BufsOf(sq) \cup BufsOf(kernel) \cup BufsOf(cq) \cup HeldSet = Buffers
Counted ==
  Len(free_list) + Len(sq) + Len(kernel) + Len(cq) + (IF held = None THEN 0 ELSE 1) = queue_size

\* No buffer is twice in the free list, or twice in a queue.
Distinct(s) == \A i, j \in 1..Len(s) : s[i] = s[j] => i = j
NoRepeat(s) == \A i, j \in 1..Len(s) : s[i].b = s[j].b => i = j

\* allocate_buffer, sync and reopen are called without a buffer.
NoBufferHeld == opc # "idle" => held = None

QInv == TypeOK /\ PendingExact /\ AllPlaced /\ Counted /\ NoBufferHeld

-----------------------------------------------------------------------------
(* Queues. *)

\* Members of requests and completions.
LEMMA Members ==
  /\ \A x \in Sqe : x.b \in Buffers /\ x.fd \in Int /\ x.link \in BOOLEAN /\ x.drain \in BOOLEAN
  /\ \A x \in Req : x.b \in Buffers /\ x.fd \in Int
  /\ \A x \in Cqe : x.b \in Buffers /\ x.res \in Nat \cup {-1}
BY Zenon DEF Sqe, Req, Cqe

\* io_uring_submit: Linked keeps the buffers and descriptors of a submission.
LEMMA LinkedFacts ==
  ASSUME NEW q \in Seq(Sqe)
  PROVE  /\ Linked(q) \in Seq(Req) /\ Len(Linked(q)) = Len(q)
         /\ \A k \in 1..Len(q) : Linked(q)[k].b = q[k].b /\ Linked(q)[k].fd = q[k].fd
<1>1. ASSUME NEW k \in 1..Len(q)
      PROVE  /\ Linked(q)[k] \in Req
             /\ Linked(q)[k].b = q[k].b /\ Linked(q)[k].fd = q[k].fd
  <2>1. q[k] \in Sqe /\ (k > 1 => q[k - 1] \in Sqe)
    OBVIOUS
  <2>2. q[k].b \in Buffers /\ q[k].fd \in Int /\ q[k].drain \in BOOLEAN
        /\ (k > 1 => q[k - 1].b \in Buffers)
    BY <2>1, Members, Zenon
  <2> QED BY <2>2, Zenon DEF Linked, Req
<1>2. Len(q) \in Nat /\ DOMAIN Linked(q) = 1..Len(q) /\ Linked(q) \in [1..Len(q) -> Req]
  BY <1>1 DEF Linked
<1> QED BY <1>1, <1>2

\* The length and the members of a concatenation.
LEMMA ConcatFacts ==
  ASSUME NEW S, NEW s \in Seq(S), NEW t \in Seq(S), NEW u, u = s \o t
  PROVE  /\ u \in Seq(S) /\ Len(u) = Len(s) + Len(t) /\ Len(s) \in Nat /\ Len(t) \in Nat
         /\ \A i \in 1..(Len(s) + Len(t)) : u[i] = IF i <= Len(s) THEN s[i] ELSE t[i - Len(s)]
OBVIOUS

\* Appending to a queue.
LEMMA AppendBufs ==
  ASSUME NEW S, NEW s \in Seq(S), NEW e \in S
  PROVE  /\ Append(s, e) \in Seq(S) /\ Len(Append(s, e)) = Len(s) + 1
         /\ \A k \in 1..Len(s) : Append(s, e)[k] = s[k]
         /\ Append(s, e)[Len(s) + 1] = e
         /\ BufsOf(Append(s, e)) = BufsOf(s) \cup {e.b}
<1>1. /\ Append(s, e) \in Seq(S) /\ Len(Append(s, e)) = Len(s) + 1
      /\ \A k \in 1..Len(s) : Append(s, e)[k] = s[k]
      /\ Append(s, e)[Len(s) + 1] = e
  OBVIOUS
<1>2. 1..(Len(s) + 1) = (1..Len(s)) \cup {Len(s) + 1}
  OBVIOUS
<1> QED BY <1>1, <1>2, ZenonT(40) DEF BufsOf

\* Taking the first entry of a queue.
LEMMA TailBufs ==
  ASSUME NEW S, NEW s \in Seq(S), s # <<>>
  PROVE  /\ Head(s) \in S /\ Tail(s) \in Seq(S) /\ Len(Tail(s)) = Len(s) - 1
         /\ \A k \in 1..Len(Tail(s)) : Tail(s)[k] = s[k + 1] /\ k + 1 \in 1..Len(s)
         /\ BufsOf(s) = BufsOf(Tail(s)) \cup {Head(s).b}
<1>1. /\ Head(s) \in S /\ Tail(s) \in Seq(S) /\ Len(Tail(s)) = Len(s) - 1
      /\ Len(s) \in Nat /\ Len(s) >= 1
      /\ \A k \in 1..Len(Tail(s)) : Tail(s)[k] = s[k + 1] /\ k + 1 \in 1..Len(s)
  OBVIOUS
<1>2. Head(s) = s[1] /\ 1 \in 1..Len(s)
  OBVIOUS
<1>3. ASSUME NEW k \in 1..Len(s) PROVE k = 1 \/ (k - 1 \in 1..Len(Tail(s)) /\ s[k] = Tail(s)[k - 1])
  BY <1>1
<1>4. BufsOf(s) \subseteq BufsOf(Tail(s)) \cup {Head(s).b}
  BY <1>2, <1>3 DEF BufsOf
<1>5. BufsOf(Tail(s)) \cup {Head(s).b} \subseteq BufsOf(s)
  BY <1>1, <1>2 DEF BufsOf
<1> QED BY <1>1, <1>4, <1>5, Zenon

\* io_uring_submit moves requests from the queue to the kernel and loses none,
\* whether it takes all of them or only the first.
LEMMA SubmitFacts ==
  ASSUME NEW q \in Seq(Sqe), kernel \in Seq(Req), Submit(q)
  PROVE  /\ sq' \in Seq(Sqe) /\ kernel' \in Seq(Req)
         /\ Len(sq') + Len(kernel') = Len(q) + Len(kernel)
         /\ BufsOf(sq') \cup BufsOf(kernel') = BufsOf(q) \cup BufsOf(kernel)
         /\ \A k \in 1..Len(sq') : \E j \in 1..Len(q) : sq'[k] = q[j]
         /\ \A k \in 1..Len(kernel') :
              \/ \E j \in 1..Len(kernel) : kernel'[k] = kernel[j]
              \/ \E j \in 1..Len(q) : kernel'[k].b = q[j].b /\ kernel'[k].fd = q[j].fd
         /\ NoRepeat(q) /\ NoRepeat(kernel) /\ BufsOf(q) \cap BufsOf(kernel) = {}
              => /\ NoRepeat(sq') /\ NoRepeat(kernel')
                 /\ BufsOf(sq') \cap BufsOf(kernel') = {}
<1>1. PICK n \in 0..Len(q) : kernel' = kernel \o Linked(SubSeq(q, 1, n))
                             /\ sq' = SubSeq(q, n + 1, Len(q))
  BY Zenon DEF Submit
<1> DEFINE p == SubSeq(q, 1, n)
           r == SubSeq(q, n + 1, Len(q))
           l == Linked(p)
<1>2. Len(q) \in Nat /\ n \in Nat /\ n <= Len(q) /\ Len(kernel) \in Nat
  OBVIOUS
<1>3. p \in Seq(Sqe) /\ Len(p) = n /\ \A k \in 1..n : p[k] = q[k] /\ k \in 1..Len(q)
  BY <1>2
<1>4. /\ r \in Seq(Sqe) /\ Len(r) = Len(q) - n
      /\ \A k \in 1..(Len(q) - n) : r[k] = q[k + n] /\ k + n \in 1..Len(q)
  BY <1>2
<1>5. /\ l \in Seq(Req) /\ Len(l) = n
      /\ \A k \in 1..n : l[k].b = q[k].b /\ l[k].fd = q[k].fd
  <2>1. p \in Seq(Sqe)
    BY <1>3, Zenon
  <2> HIDE DEF p
  <2>2. /\ l \in Seq(Req) /\ Len(l) = Len(p)
        /\ \A k \in 1..Len(p) : l[k].b = p[k].b /\ l[k].fd = p[k].fd
    BY ONLY <2>1, LinkedFacts, Zenon DEF l
  <2> QED BY ONLY <1>3, <2>2, Zenon
<1> HIDE DEF p, r, l
<1>6. /\ kernel' \in Seq(Req) /\ Len(kernel') = Len(kernel) + n
      /\ \A k \in 1..Len(kernel) : kernel'[k] = kernel[k] /\ k \in 1..Len(kernel')
      /\ \A k \in 1..n : kernel'[Len(kernel) + k] = l[k] /\ Len(kernel) + k \in 1..Len(kernel')
  <2>1. kernel' = kernel \o l
    BY <1>1, Zenon DEF p, l
  <2>2. kernel \in Seq(Req) /\ l \in Seq(Req) /\ Len(l) = n
    BY <1>5, Zenon
  <2>3. /\ kernel' \in Seq(Req) /\ Len(kernel') = Len(kernel) + n
        /\ \A i \in 1..(Len(kernel) + n) :
             kernel'[i] = IF i <= Len(kernel) THEN kernel[i] ELSE l[i - Len(kernel)]
    <3> DEFINE C(s, t, u) == /\ u \in Seq(Req) /\ Len(u) = Len(s) + Len(t)
                             /\ \A i \in 1..(Len(s) + Len(t)) :
                                  u[i] = IF i <= Len(s) THEN s[i] ELSE t[i - Len(s)]
    <3>1. ASSUME NEW s \in Seq(Req), NEW t \in Seq(Req), NEW u, u = s \o t PROVE C(s, t, u)
      BY ONLY <3>1, s \in Seq(Req), t \in Seq(Req), ConcatFacts
    <3> HIDE DEF C
    <3>2. C(kernel, l, kernel')
      BY ONLY <2>1, <2>2, <3>1, Zenon
    <3> QED BY ONLY <2>2, <3>2, Zenon DEF C
  <2>4. ASSUME NEW k \in 1..Len(kernel) PROVE kernel'[k] = kernel[k] /\ k \in 1..Len(kernel')
    BY ONLY <1>2, <2>3
  <2>5. ASSUME NEW k \in 1..n
        PROVE  kernel'[Len(kernel) + k] = l[k] /\ Len(kernel) + k \in 1..Len(kernel')
    <3>1. Len(kernel) + k \in 1..(Len(kernel) + n) /\ ~(Len(kernel) + k <= Len(kernel))
          /\ (Len(kernel) + k) - Len(kernel) = k
      BY ONLY <1>2
    <3> QED BY ONLY <2>3, <3>1, Zenon
  <2> QED BY <2>3, <2>4, <2>5, Zenon
<1>7. sq' = r
  BY <1>1, Zenon DEF r
<1>8. ASSUME NEW k \in 1..Len(kernel')
      PROVE  \/ k \in 1..Len(kernel) /\ kernel'[k] = kernel[k]
             \/ /\ k - Len(kernel) \in 1..n /\ kernel'[k] = l[k - Len(kernel)]
                /\ k - Len(kernel) \in 1..Len(q)
  <2>1. CASE k <= Len(kernel)
    BY <1>2, <1>6, <2>1
  <2>2. CASE k > Len(kernel)
    <3>1. k - Len(kernel) \in 1..n /\ k - Len(kernel) \in 1..Len(q)
          /\ k = Len(kernel) + (k - Len(kernel))
      BY <1>2, <1>6, <2>2
    <3> QED BY <1>6, <3>1, Zenon
  <2> QED BY <1>2, <2>1, <2>2
<1>9. BufsOf(sq') \cup BufsOf(kernel') \subseteq BufsOf(q) \cup BufsOf(kernel)
  <2>1. BufsOf(sq') \subseteq BufsOf(q)
    BY <1>4, <1>7 DEF BufsOf
  <2>2. ASSUME NEW k \in 1..Len(kernel') PROVE kernel'[k].b \in BufsOf(q) \cup BufsOf(kernel)
    <3>1. CASE k \in 1..Len(kernel) /\ kernel'[k] = kernel[k]
      BY <3>1, Zenon DEF BufsOf
    <3>2. CASE k - Len(kernel) \in 1..n /\ kernel'[k] = l[k - Len(kernel)]
               /\ k - Len(kernel) \in 1..Len(q)
      <4>1. kernel'[k].b = q[k - Len(kernel)].b
        BY <1>5, <3>2, Zenon
      <4> QED BY <3>2, <4>1, Zenon DEF BufsOf
    <3> QED BY <1>8, <3>1, <3>2, Zenon
  <2> QED BY <2>1, <2>2, Zenon DEF BufsOf
<1>10. BufsOf(q) \cup BufsOf(kernel) \subseteq BufsOf(sq') \cup BufsOf(kernel')
  <2>1. BufsOf(kernel) \subseteq BufsOf(kernel')
    BY <1>6, Zenon DEF BufsOf
  <2>2. ASSUME NEW k \in 1..Len(q) PROVE q[k].b \in BufsOf(sq') \cup BufsOf(kernel')
    <3>1. CASE k \in 1..n
      BY <1>5, <1>6, <3>1, ZenonT(40) DEF BufsOf
    <3>2. CASE k > n
      <4>1. k - n \in 1..(Len(q) - n) /\ k = (k - n) + n
        BY <1>2, <3>2
      <4> QED BY <1>4, <1>7, <4>1, Zenon DEF BufsOf
    <3> QED BY <1>2, <3>1, <3>2
  <2> QED BY <2>1, <2>2, Zenon DEF BufsOf
<1>11. \A k \in 1..Len(sq') : \E j \in 1..Len(q) : sq'[k] = q[j]
  BY <1>4, <1>7, Zenon
<1>12. \A k \in 1..Len(kernel') :
         \/ \E j \in 1..Len(kernel) : kernel'[k] = kernel[j]
         \/ \E j \in 1..Len(q) : kernel'[k].b = q[j].b /\ kernel'[k].fd = q[j].fd
  BY <1>5, <1>8, Zenon
<1>13. /\ Len(sq') + Len(kernel') = Len(q) + Len(kernel) /\ sq' \in Seq(Sqe) /\ kernel' \in Seq(Req)
       /\ Len(sq') \in Nat /\ Len(kernel') \in Nat
  <2>1. /\ Len(sq') = Len(q) - n /\ Len(kernel') = Len(kernel) + n
        /\ sq' \in Seq(Sqe) /\ kernel' \in Seq(Req)
    BY ONLY <1>4, <1>6, <1>7, Zenon
  <2>2. PICK s \in Int, t \in Int, u \in Int : s = Len(q) /\ t = Len(kernel) /\ u = n
    BY <1>2
  <2>3. u >= 0 /\ u <= s /\ t >= 0
    BY ONLY <1>2, <2>2
  <2>4. (s - u) + (t + u) = s + t /\ s - u \in Nat /\ t + u \in Nat
    BY ONLY <2>3, s \in Int, t \in Int, u \in Int
  <2> QED BY ONLY <2>1, <2>2, <2>4, Zenon
<1>14. ASSUME NoRepeat(q), NoRepeat(kernel), BufsOf(q) \cap BufsOf(kernel) = {}
       PROVE  NoRepeat(sq') /\ NoRepeat(kernel') /\ BufsOf(sq') \cap BufsOf(kernel') = {}
  <2>0. \A i \in 1..Len(q), j \in 1..Len(kernel) : q[i].b # kernel[j].b
    BY ONLY <1>14, Zenon DEF BufsOf
  <2>1. NoRepeat(sq')
    <3> SUFFICES ASSUME NEW i \in 1..Len(sq'), NEW j \in 1..Len(sq'), sq'[i].b = sq'[j].b
                 PROVE  i = j
      BY Zenon DEF NoRepeat
    <3>1. i + n = j + n
      <4>1. sq'[i] = q[i + n] /\ sq'[j] = q[j + n] /\ i + n \in 1..Len(q) /\ j + n \in 1..Len(q)
        BY ONLY <1>4, <1>7, i \in 1..Len(sq'), j \in 1..Len(sq'), Zenon
      <4> QED BY ONLY <1>14, <4>1, sq'[i].b = sq'[j].b, Zenon DEF NoRepeat
    <3> QED BY ONLY <1>2, <1>13, <3>1, i \in 1..Len(sq'), j \in 1..Len(sq')
  <2>2. NoRepeat(kernel')
    <3> SUFFICES ASSUME NEW i \in 1..Len(kernel'), NEW j \in 1..Len(kernel'),
                        kernel'[i].b = kernel'[j].b
                 PROVE  i = j
      BY Zenon DEF NoRepeat
    <3> DEFINE Old(k) == k \in 1..Len(kernel) /\ kernel'[k].b = kernel[k].b
               Fresh(k) == /\ k - Len(kernel) \in 1..Len(q)
                           /\ kernel'[k].b = q[k - Len(kernel)].b
    <3>1. (Old(i) \/ Fresh(i)) /\ (Old(j) \/ Fresh(j))
      BY <1>5, <1>8, Zenon
    <3>2. CASE Old(i) /\ Old(j)
      BY ONLY <1>14, <3>2, kernel'[i].b = kernel'[j].b, Zenon DEF NoRepeat
    <3>3. CASE Fresh(i) /\ Fresh(j)
      <4>1. i - Len(kernel) = j - Len(kernel)
        BY ONLY <1>14, <3>3, kernel'[i].b = kernel'[j].b, Zenon DEF NoRepeat
      <4> QED BY ONLY <1>2, <1>13, <4>1, i \in 1..Len(kernel'), j \in 1..Len(kernel')
    <3>4. CASE (Old(i) /\ Fresh(j)) \/ (Fresh(i) /\ Old(j))
      BY ONLY <2>0, <3>4, kernel'[i].b = kernel'[j].b, Zenon
    <3> QED BY ONLY <3>1, <3>2, <3>3, <3>4, Zenon
  <2>3. ASSUME NEW i \in 1..Len(sq'), NEW j \in 1..Len(kernel'), sq'[i].b = kernel'[j].b
        PROVE  FALSE
    <3>1. sq'[i] = q[i + n] /\ i + n \in 1..Len(q) /\ i >= 1 /\ i \in Int
      BY ONLY <1>4, <1>7, i \in 1..Len(sq')
    <3>2. CASE j \in 1..Len(kernel) /\ kernel'[j] = kernel[j]
      BY ONLY <2>0, <2>3, <3>1, <3>2, Zenon
    <3>3. CASE /\ j - Len(kernel) \in 1..n /\ kernel'[j] = l[j - Len(kernel)]
               /\ j - Len(kernel) \in 1..Len(q)
      <4>1. kernel'[j].b = q[j - Len(kernel)].b
        BY ONLY <1>5, <3>3, Zenon
      <4>2. i + n = j - Len(kernel)
        BY ONLY <1>14, <2>3, <3>1, <3>3, <4>1, Zenon DEF NoRepeat
      <4> QED BY ONLY <1>2, <3>1, <3>3, <4>2
    <3> QED BY <1>8, <3>2, <3>3, Zenon
  <2> QED BY ONLY <2>1, <2>2, <2>3, Zenon DEF BufsOf
<1> QED BY ONLY <1>9, <1>10, <1>11, <1>12, <1>13, <1>14, Zenon

\* submit_buffer sets the size and the data of its buffer.
LEMMA SubmittedBuf ==
  ASSUME NEW x \in Buf, NEW n \in Nat, NEW d \in Nat
  PROVE  /\ [x EXCEPT !.size = n, !.data = d] \in Buf
         /\ [x EXCEPT !.size = n, !.data = d].size = n
         /\ [x EXCEPT !.size = n, !.data = d].data = d
         /\ [x EXCEPT !.size = n, !.data = d].offset = x.offset
         /\ [x EXCEPT !.size = n, !.data = d].file_offset = x.file_offset
<1>1. n \in Int
  OBVIOUS
<1> QED BY <1>1, Zenon DEF Buf

\* resubmit_buffer moves size, buffer offset and file offset by what was written.
LEMMA AdvancedBuf ==
  ASSUME NEW b \in Buffers, buf[b] \in Buf, NEW n \in Nat
  PROVE  /\ Advanced(b, n) \in Buf
         /\ Advanced(b, n).size = buf[b].size - n
         /\ Advanced(b, n).data = buf[b].data
         /\ Advanced(b, n).offset = buf[b].offset + n
         /\ Advanced(b, n).file_offset = buf[b].file_offset + n
<1>1. /\ buf[b].size \in Int /\ buf[b].offset \in Nat /\ buf[b].file_offset \in Nat
      /\ buf[b].data \in Nat
  BY Zenon DEF Buf
<1>2. buf[b].size - n \in Int /\ buf[b].offset + n \in Nat /\ buf[b].file_offset + n \in Nat
  BY <1>1
<1> QED BY <1>1, <1>2, Zenon DEF Buf, Advanced

-----------------------------------------------------------------------------
(* Accounting of buffers and completions. *)

\* What a write leaves behind: a file at least as long, with the bytes written
\* at their offsets and zeros in a hole.
IsWritten(w, old, b, n) ==
  /\ w \in Seq(Nat) /\ Len(w) >= Len(old)
  /\ n > 0 => Len(w) >= buf[b].file_offset + n
  /\ Len(w) <= Len(old) \/ Len(w) <= buf[b].file_offset + n
  /\ \A o \in 1..Len(w) :
       w[o] = IF o \in (buf[b].file_offset + 1)..(buf[b].file_offset + n)
              THEN buf[b].data + buf[b].offset + (o - buf[b].file_offset)
              ELSE IF o <= Len(old) THEN old[o] ELSE 0

\* Written is what a write leaves behind.
LEMMA WrittenFacts ==
  ASSUME TypeOK, NEW old \in Seq(Nat), NEW b \in Buffers, NEW n \in Nat,
         NEW w, w = Written(old, b, n)
  PROVE  IsWritten(w, old, b, n)
<1> DEFINE from == buf[b].file_offset
           x == Len(old)
           y == IF n = 0 THEN 0 ELSE from + n
           m == Max({x, y})
           W(o) == IF o \in (from + 1)..(from + n) THEN buf[b].data + buf[b].offset + (o - from)
                   ELSE IF o <= Len(old) THEN old[o] ELSE 0
<1>1. from \in Nat /\ buf[b].data \in Nat /\ buf[b].offset \in Nat
  BY Zenon DEF TypeOK, Buf
<1>2. x \in Nat /\ y \in Nat
  BY <1>1
<1>3. m \in {x, y} /\ m >= x /\ m >= y
  <2> HIDE DEF x, y
  <2>1. \E z \in {x, y} : \A v \in {x, y} : z >= v
    <3>1. CASE x >= y
      BY <1>2, <3>1
    <3>2. CASE y >= x
      BY <1>2, <3>2
    <3> QED BY <1>2, <3>1, <3>2
  <2> QED BY <2>1, Zenon DEF Max
<1>4. m \in Nat
  BY <1>2, <1>3, Zenon
<1>5. w = [o \in 1..m |-> W(o)]
  BY Zenon DEF Written
<1>6. ASSUME NEW o \in 1..m PROVE W(o) \in Nat
  <2>1. CASE o \in (from + 1)..(from + n)
    <3>1. PICK d \in Nat, a \in Nat, g \in Nat :
            d = buf[b].data /\ a = buf[b].offset /\ g = from
      BY ONLY <1>1, Zenon
    <3>2. W(o) = d + a + (o - g) /\ o \in (g + 1)..(g + n)
      BY ONLY <2>1, <3>1, Zenon
    <3>3. d + a + (o - g) \in Nat
      BY ONLY <3>2, d \in Nat, a \in Nat, g \in Nat, n \in Nat
    <3> QED BY ONLY <3>2, <3>3, Zenon
  <2>2. CASE o \notin (from + 1)..(from + n) /\ o <= Len(old)
    <3>1. o \in 1..Len(old)
      BY <1>4, <2>2
    <3> QED BY <2>2, <3>1
  <2> QED BY <2>1, <2>2, Zenon
<1> HIDE DEF W, m
<1>7. w \in [1..m -> Nat]
  BY <1>5, <1>6, Zenon
<1>8. Len(w) = m /\ w \in Seq(Nat)
  BY ONLY <1>4, <1>7
<1>9. \A o \in 1..m : w[o] = W(o)
  BY ONLY <1>5, Zenon
<1>10. /\ Len(w) >= Len(old)
       /\ n > 0 => Len(w) >= from + n
       /\ Len(w) <= Len(old) \/ Len(w) <= from + n
       /\ \A o \in 1..Len(w) : w[o] = W(o)
  BY <1>1, <1>2, <1>3, <1>8, <1>9
<1> QED BY ONLY <1>8, <1>10, Zenon DEF W, IsWritten

\* The elements of a concatenation.
LEMMA ConcatElems ==
  ASSUME NEW S, NEW s \in Seq(S), NEW t \in Seq(S)
  PROVE  /\ s \o t \in Seq(S) /\ Len(s \o t) = Len(s) + Len(t)
         /\ Elems(s \o t) = Elems(s) \cup Elems(t)
<1> DEFINE u == s \o t
<1>1. /\ u \in Seq(S) /\ Len(u) = Len(s) + Len(t) /\ Len(s) \in Nat /\ Len(t) \in Nat
      /\ \A i \in 1..(Len(s) + Len(t)) : u[i] = IF i <= Len(s) THEN s[i] ELSE t[i - Len(s)]
  OBVIOUS
<1> HIDE DEF u
<1>2. \A k \in 1..Len(s) : k \in 1..Len(u) /\ u[k] = s[k]
  BY ONLY <1>1
<1>3. ASSUME NEW k \in 1..Len(t) PROVE k + Len(s) \in 1..Len(u) /\ u[k + Len(s)] = t[k]
  <2>1. k + Len(s) \in 1..(Len(s) + Len(t)) /\ ~(k + Len(s) <= Len(s)) /\ (k + Len(s)) - Len(s) = k
    BY ONLY <1>1
  <2> QED BY ONLY <1>1, <2>1, Zenon
<1>4. \A k \in 1..Len(u) : \/ k \in 1..Len(s) /\ u[k] = s[k]
                           \/ k - Len(s) \in 1..Len(t) /\ u[k] = t[k - Len(s)]
  BY ONLY <1>1
<1>5. Elems(u) \subseteq Elems(s) \cup Elems(t)
  BY ONLY <1>4, Zenon DEF Elems
<1>6. Elems(s) \subseteq Elems(u) /\ Elems(t) \subseteq Elems(u)
  BY ONLY <1>2, <1>3, Zenon DEF Elems
<1> QED BY <1>1, <1>5, <1>6, Zenon DEF u

\* As many places as buffers, and every buffer in one.
LEMMA QInvImplies == QInv => BuffersConserved
<1> SUFFICES ASSUME QInv PROVE BuffersConserved
  BY Zenon
<1> DEFINE f == free_list
           q == [k \in 1..Len(sq) |-> sq[k].b]
           k1 == [k \in 1..Len(kernel) |-> kernel[k].b]
           c == [k \in 1..Len(cq) |-> cq[k].b]
           h == IF held = None THEN <<>> ELSE <<held>>
<1>1. f \in Seq(Buffers) /\ Len(f) \in Nat
  BY DEF QInv, TypeOK
<1>2. q \in Seq(Buffers) /\ Len(q) = Len(sq) /\ Elems(q) = BufsOf(sq)
  <2>1. sq \in Seq(Sqe) /\ Len(sq) \in Nat
    BY DEF QInv, TypeOK
  <2>2. \A k \in 1..Len(sq) : sq[k].b \in Buffers
    BY <2>1, Members
  <2>3. q \in [1..Len(sq) -> Buffers]
    BY <2>2, Zenon
  <2>4. Len(q) = Len(sq) /\ q \in Seq(Buffers)
    BY ONLY <2>1, <2>3
  <2> QED BY <2>4, Zenon DEF Elems, BufsOf
<1>3. k1 \in Seq(Buffers) /\ Len(k1) = Len(kernel) /\ Elems(k1) = BufsOf(kernel)
  <2>1. kernel \in Seq(Req) /\ Len(kernel) \in Nat
    BY DEF QInv, TypeOK
  <2>2. \A k \in 1..Len(kernel) : kernel[k].b \in Buffers
    BY <2>1, Members
  <2>3. k1 \in [1..Len(kernel) -> Buffers]
    BY <2>2, Zenon
  <2>4. Len(k1) = Len(kernel) /\ k1 \in Seq(Buffers)
    BY ONLY <2>1, <2>3
  <2> QED BY <2>4, Zenon DEF Elems, BufsOf
<1>4. c \in Seq(Buffers) /\ Len(c) = Len(cq) /\ Elems(c) = BufsOf(cq)
  <2>1. cq \in Seq(Cqe) /\ Len(cq) \in Nat
    BY DEF QInv, TypeOK
  <2>2. \A k \in 1..Len(cq) : cq[k].b \in Buffers
    BY <2>1, Members
  <2>3. c \in [1..Len(cq) -> Buffers]
    BY <2>2, Zenon
  <2>4. Len(c) = Len(cq) /\ c \in Seq(Buffers)
    BY ONLY <2>1, <2>3
  <2> QED BY <2>4, Zenon DEF Elems, BufsOf
<1>5. /\ h \in Seq(Buffers) /\ Len(h) = IF held = None THEN 0 ELSE 1
      /\ Elems(h) = HeldSet
  <2>1. held \in Buffers \cup {None}
    BY Zenon DEF QInv, TypeOK
  <2>2. CASE held = None
    BY <2>2 DEF Elems, HeldSet
  <2>3. CASE held # None
    <3>1. h = <<held>> /\ Len(h) = 1 /\ h[1] = held /\ h \in Seq(Buffers)
      BY <2>1, <2>3
    <3> QED BY <2>3, <3>1 DEF Elems, HeldSet
  <2> QED BY <2>2, <2>3, Zenon
<1> DEFINE fq == f \o q
           fqk == fq \o k1
           fqkc == fqk \o c
<1>6. Places = fqkc \o h
  BY Zenon DEF Places
<1>7. /\ Elems(f) \cup Elems(q) \cup Elems(k1) \cup Elems(c) \cup Elems(h) = Buffers
      /\ Len(f) + Len(q) + Len(k1) + Len(c) + Len(h) = queue_size
  BY <1>2, <1>3, <1>4, <1>5, Zenon DEF QInv, AllPlaced, Counted
<1> HIDE DEF f, q, k1, c, h
<1>8. fq \in Seq(Buffers) /\ Len(fq) = Len(f) + Len(q) /\ Elems(fq) = Elems(f) \cup Elems(q)
  BY ONLY <1>1, <1>2, ConcatElems
<1> HIDE DEF fq
<1>9. fqk \in Seq(Buffers) /\ Len(fqk) = Len(fq) + Len(k1) /\ Elems(fqk) = Elems(fq) \cup Elems(k1)
  BY ONLY <1>3, <1>8, ConcatElems
<1> HIDE DEF fqk
<1>10. /\ fqkc \in Seq(Buffers) /\ Len(fqkc) = Len(fqk) + Len(c)
       /\ Elems(fqkc) = Elems(fqk) \cup Elems(c)
  BY ONLY <1>4, <1>9, ConcatElems
<1> HIDE DEF fqkc
<1>11. /\ Places \in Seq(Buffers) /\ Len(Places) = Len(fqkc) + Len(h)
       /\ Elems(Places) = Elems(fqkc) \cup Elems(h)
  <2> DEFINE p == fqkc \o h
  <2>1. p \in Seq(Buffers) /\ Len(p) = Len(fqkc) + Len(h) /\ Elems(p) = Elems(fqkc) \cup Elems(h)
    <3>1. h \in Seq(Buffers) /\ fqkc \in Seq(Buffers)
      BY <1>5, <1>10, Zenon
    <3> QED BY ONLY <3>1, ConcatElems
  <2> HIDE DEF p
  <2>2. Places = p
    BY <1>6, Zenon DEF p
  <2> QED BY ONLY <2>1, <2>2, Zenon
<1>12. Len(Places) = queue_size /\ Elems(Places) = Buffers
  BY ONLY <1>7, <1>8, <1>9, <1>10, <1>11, Zenon
<1> QED BY <1>12, Zenon DEF BuffersConserved, Elems

\* A storage starts with every buffer in its free list.
LEMMA InitQInv == Init => QInv
<1> SUFFICES ASSUME Init PROVE QInv
  BY Zenon
<1>1. queue_size \in Nat
  BY StorageAssumption, Zenon
<1>2. free_list \in [1..queue_size -> Buffers]
  BY Zenon DEF Init, Buffers
<1>3. free_list \in Seq(Buffers) /\ Len(free_list) = queue_size
  BY ONLY <1>1, <1>2
<1>4. TypeOK
  <2>1. /\ <<>> \in Seq(Sqe) /\ <<>> \in Seq(Req) /\ <<>> \in Seq(Cqe) /\ <<>> \in Seq(Nat)
    OBVIOUS
  <2>2. buf \in [Buffers -> Buf]
    BY DEF Init, Buf
  <2>3. files \in [1..(MaxReopens + 1) -> Seq(Nat)]
    BY <2>1, Zenon DEF Init
  <2> QED BY <1>3, <2>1, <2>2, <2>3, StorageAssumption DEF Init, TypeOK
<1>5. Len(sq) = 0 /\ Len(kernel) = 0 /\ Len(cq) = 0
  BY Zenon DEF Init
<1>6. PendingExact
  BY <1>5 DEF Init, PendingExact
<1>7. AllPlaced /\ Counted
  <2>1. BufsOf(sq) = {} /\ BufsOf(kernel) = {} /\ BufsOf(cq) = {}
    BY <1>5 DEF BufsOf
  <2>2. Elems(free_list) = Buffers
    BY <1>3, Zenon DEF Init, Elems, Buffers
  <2>3. HeldSet = {} /\ held = None
    BY Zenon DEF Init, HeldSet
  <2> QED BY <1>1, <1>3, <1>5, <2>1, <2>2, <2>3 DEF AllPlaced, Counted
<1>8. NoBufferHeld
  BY Zenon DEF Init, NoBufferHeld
<1> QED BY <1>4, <1>6, <1>7, <1>8, Zenon DEF QInv

\* allocate_buffer pops the free list.
LEMMA PopQInv == ASSUME QInv, PopFree PROVE QInv'
<1>1. /\ Head(free_list) \in Buffers /\ Tail(free_list) \in Seq(Buffers)
      /\ Len(Tail(free_list)) = Len(free_list) - 1 /\ Len(free_list) \in Nat
      /\ Elems(free_list) = Elems(Tail(free_list)) \cup {Head(free_list)}
  <2>1. free_list \in Seq(Buffers) /\ free_list # <<>>
    BY Zenon DEF QInv, TypeOK, PopFree
  <2>2. /\ Head(free_list) \in Buffers /\ Tail(free_list) \in Seq(Buffers)
        /\ Len(Tail(free_list)) = Len(free_list) - 1 /\ Len(free_list) \in Nat
        /\ Head(free_list) = free_list[1] /\ Len(free_list) >= 1
        /\ \A k \in 1..(Len(free_list) - 1) : Tail(free_list)[k] = free_list[k + 1]
    BY ONLY <2>1
  <2>3. \A k \in 1..Len(free_list) : k = 1 \/ (k - 1 \in 1..Len(Tail(free_list))
                                               /\ free_list[k] = Tail(free_list)[k - 1])
    BY ONLY <2>2
  <2>4. \A k \in 1..Len(Tail(free_list)) : k + 1 \in 1..Len(free_list)
                                           /\ Tail(free_list)[k] = free_list[k + 1]
    BY ONLY <2>2
  <2>5. 1 \in 1..Len(free_list)
    BY ONLY <2>2
  <2>6. Elems(free_list) \subseteq Elems(Tail(free_list)) \cup {Head(free_list)}
    BY ONLY <2>2, <2>3 DEF Elems
  <2>7. Elems(Tail(free_list)) \cup {Head(free_list)} \subseteq Elems(free_list)
    BY ONLY <2>2, <2>4, <2>5 DEF Elems
  <2> QED BY ONLY <2>2, <2>6, <2>7, Zenon
<1>2. held' = Head(free_list) /\ free_list' = Tail(free_list) /\ held' # None
  BY <1>1, StorageAssumption DEF PopFree, Buffers
<1>3. sq' = sq /\ kernel' = kernel /\ cq' = cq /\ pending_cqe_count' = pending_cqe_count
  BY Zenon DEF PopFree, queueVars
<1>4. TypeOK'
  <2>1. Allocated(Head(free_list)) \in Buf
    BY <1>1 DEF QInv, TypeOK, Allocated, Buf
  <2>2. buf' \in [Buffers -> Buf]
    BY <1>1, <2>1, Zenon DEF QInv, TypeOK, PopFree
  <2> QED BY <1>1, <1>2, <1>3, <2>2, Zenon
          DEF QInv, TypeOK, PopFree, queueVars, fileVars, boundVars
<1>5. PendingExact'
  BY <1>3, Zenon DEF QInv, PendingExact
<1>6. AllPlaced' /\ Counted'
  <2>1. held = None
    BY Zenon DEF QInv, NoBufferHeld, PopFree
  <2>2. AllPlaced /\ Counted /\ Len(sq) \in Nat /\ Len(kernel) \in Nat /\ Len(cq) \in Nat
    BY DEF QInv, TypeOK
  <2>3. HeldSet = {} /\ HeldSet' = {Head(free_list)}
    BY <1>2, <2>1, Zenon DEF HeldSet
  <2>4. AllPlaced'
    <3>1. /\ BufsOf(sq)' = BufsOf(sq) /\ BufsOf(kernel)' = BufsOf(kernel)
          /\ BufsOf(cq)' = BufsOf(cq) /\ Elems(free_list)' = Elems(Tail(free_list))
      BY ONLY <1>2, <1>3, Zenon DEF BufsOf, Elems
    <3>2. Elems(free_list) = Elems(Tail(free_list)) \cup {Head(free_list)}
      BY <1>1, Zenon
    <3>3. AllPlaced
      BY <2>2, Zenon
    <3> QED BY ONLY <2>3, <3>1, <3>2, <3>3, Zenon DEF AllPlaced
  <2>5. Counted'
    BY ONLY <1>1, <1>2, <1>3, <2>1, <2>2 DEF Counted
  <2> QED BY <2>4, <2>5, Zenon
<1>7. NoBufferHeld'
  BY Zenon DEF PopFree, NoBufferHeld
<1> QED BY <1>4, <1>5, <1>6, <1>7, Zenon DEF QInv

\* submit_buffer queues the caller's buffer, and submits a full batch.
LEMMA SubmitBufferQInv ==
  ASSUME QInv, NEW n \in Nat, submit_buffer(n)
  PROVE  QInv'
<1> DEFINE e == Prepared(held, batch_index % batch_size = 0)
           q == Append(sq, e)
<1>1. held \in Buffers /\ held # None /\ held' = None /\ opc = "idle" /\ opc' = opc
  BY Zenon DEF QInv, TypeOK, submit_buffer
<1>2. e \in Sqe /\ e.b = held
  BY <1>1 DEF QInv, TypeOK, Prepared, Sqe
<1>3. sq \in Seq(Sqe) /\ kernel \in Seq(Req) /\ Len(sq) \in Nat /\ Len(kernel) \in Nat
  BY DEF QInv, TypeOK
<1>4. q \in Seq(Sqe) /\ Len(q) = Len(sq) + 1 /\ BufsOf(q) = BufsOf(sq) \cup {held}
  BY ONLY <1>2, <1>3, AppendBufs
<1>5. (BatchFull /\ Submit(q)) \/ (sq' = q /\ kernel' = kernel)
  BY Zenon DEF submit_buffer
<1> HIDE DEF q, e
<1>6. /\ sq' \in Seq(Sqe) /\ kernel' \in Seq(Req)
      /\ Len(sq') + Len(kernel') = Len(sq) + 1 + Len(kernel)
      /\ BufsOf(sq') \cup BufsOf(kernel') = BufsOf(sq) \cup {held} \cup BufsOf(kernel)
  <2>1. CASE Submit(q)
    BY <1>3, <1>4, <2>1, SubmitFacts, Zenon
  <2>2. CASE sq' = q /\ kernel' = kernel
    BY ONLY <1>3, <1>4, <2>2, Zenon DEF BufsOf
  <2> QED BY <1>5, <2>1, <2>2, Zenon
<1>7. /\ free_list' = free_list /\ cq' = cq /\ pending_cqe_count' = pending_cqe_count + 1
      /\ batch_index' = batch_index + 1 /\ offset' = offset + n /\ logged' = logged + n
      /\ files' = files /\ fd' = fd /\ newfd' = newfd /\ reopens' = reopens
  BY Zenon DEF submit_buffer, fileVars
<1>8. TypeOK'
  <2>1. buf' \in [Buffers -> Buf]
    <3> DEFINE x == [buf[held] EXCEPT !.size = n, !.data = logged]
    <3>1. buf[held] \in Buf /\ logged \in Nat /\ buf \in [Buffers -> Buf]
      BY <1>1, Zenon DEF QInv, TypeOK
    <3>2. x \in Buf
      BY ONLY <3>1, SubmittedBuf, Zenon
    <3>3. buf' = [buf EXCEPT ![held] = x]
      BY <1>1, <3>1, Zenon DEF submit_buffer
    <3> QED BY <1>1, <3>1, <3>2, <3>3, Zenon
  <2> QED BY <1>1, <1>6, <1>7, <2>1 DEF QInv, TypeOK
<1>9. PendingExact'
  <2>1. Len(sq') \in Nat /\ Len(kernel') \in Nat /\ Len(cq) \in Nat
    BY <1>6, SMTT(30) DEF QInv, TypeOK
  <2>2. PendingExact
    BY Zenon DEF QInv
  <2>3. /\ Len(sq') + Len(kernel') = Len(sq) + 1 + Len(kernel) /\ cq' = cq
        /\ pending_cqe_count' = pending_cqe_count + 1 /\ Len(sq) \in Nat /\ Len(kernel) \in Nat
    BY <1>3, <1>6, <1>7, Zenon
  <2> QED BY ONLY <2>1, <2>2, <2>3, SMTT(30) DEF PendingExact
<1>10. AllPlaced' /\ Counted'
  <2>1. Len(sq') \in Nat /\ Len(kernel') \in Nat /\ Len(cq) \in Nat /\ Len(free_list) \in Nat
    BY <1>6, SMTT(30) DEF QInv, TypeOK
  <2>2. Elems(free_list)' = Elems(free_list) /\ BufsOf(cq)' = BufsOf(cq)
    BY <1>7, Zenon DEF Elems, BufsOf
  <2>3. HeldSet = {held} /\ HeldSet' = {}
    BY <1>1, Zenon DEF HeldSet
  <2>4. Elems(free_list) \cup BufsOf(sq') \cup BufsOf(kernel') \cup BufsOf(cq) = Buffers
    BY <1>6, <2>3, Zenon DEF QInv, AllPlaced
  <2>5. Counted
    BY Zenon DEF QInv
  <2>6. Len(free_list) + Len(sq') + Len(kernel') + Len(cq) = queue_size
    <3>1. Len(sq') + Len(kernel') = Len(sq) + 1 + Len(kernel) /\ Len(sq) \in Nat /\ Len(kernel) \in Nat
      BY <1>3, <1>6, Zenon
    <3>2. Len(free_list) + Len(sq) + Len(kernel) + Len(cq) + 1 = queue_size
      BY ONLY <1>1, <2>5, Zenon DEF Counted
    <3> QED BY ONLY <2>1, <3>1, <3>2
  <2>7. AllPlaced'
    BY ONLY <1>1, <2>2, <2>3, <2>4, Zenon DEF AllPlaced
  <2>8. Counted'
    BY ONLY <1>1, <1>7, <2>1, <2>6 DEF Counted
  <2> QED BY <2>7, <2>8, Zenon
<1>11. NoBufferHeld'
  BY <1>1, Zenon DEF NoBufferHeld
<1> QED BY <1>8, <1>9, <1>10, <1>11, Zenon DEF QInv

\* flush, sync and reopen submit what is queued.
LEMMA FlushQInv ==
  ASSUME QInv, Flush, held = None,
         IF opc' = "replace_fd" THEN newfd' \in [file : 1..(reopens' + 1), at : Nat]
                                ELSE newfd' = None,
         reopens' \in 0..MaxReopens, reopens' >= reopens
  PROVE  QInv'
<1>1. sq \in Seq(Sqe) /\ kernel \in Seq(Req) /\ Submit(sq)
  BY Zenon DEF QInv, TypeOK, Flush
<1>2. /\ sq' \in Seq(Sqe) /\ kernel' \in Seq(Req)
      /\ Len(sq') + Len(kernel') = Len(sq) + Len(kernel)
      /\ BufsOf(sq') \cup BufsOf(kernel') = BufsOf(sq) \cup BufsOf(kernel)
  BY ONLY <1>1, SubmitFacts, Zenon
<1>3. /\ free_list' = free_list /\ cq' = cq /\ pending_cqe_count' = pending_cqe_count
      /\ batch_index' = 0 /\ offset' = offset /\ logged' = logged /\ buf' = buf
      /\ files' = files /\ fd' = fd /\ held' = None
  BY Zenon DEF Flush
<1>4. TypeOK'
  <2>1. fd \in 1..(reopens' + 1)
    <3>1. reopens \in Nat /\ fd \in 1..(reopens + 1)
      BY StorageAssumption DEF QInv, TypeOK
    <3>2. reopens' \in Int /\ reopens' >= reopens
      BY StorageAssumption
    <3>3. reopens \in Int /\ fd \in Int /\ 1 <= fd /\ fd <= reopens + 1
      BY ONLY <3>1
    <3>4. PICK new \in Int : new = reopens'
      BY ONLY <3>2, Zenon
    <3>5. PICK old \in Int : old = reopens
      BY ONLY <3>3, Zenon
    <3>6. new >= old /\ fd \in Int /\ 1 <= fd /\ fd <= old + 1
      BY ONLY <3>2, <3>3, <3>4, <3>5, Zenon
    <3>7. fd \in 1..(new + 1)
      BY ONLY <3>6
    <3> QED BY ONLY <3>4, <3>7, Zenon
  <2> QED BY <1>2, <1>3, <2>1, Zenon DEF QInv, TypeOK
<1>5. Len(sq') \in Nat /\ Len(kernel') \in Nat /\ Len(cq) \in Nat /\ Len(free_list) \in Nat
      /\ Len(sq) \in Nat /\ Len(kernel) \in Nat
  <2>1. cq \in Seq(Cqe) /\ free_list \in Seq(Buffers)
    BY Zenon DEF QInv, TypeOK
  <2> QED BY ONLY <1>1, <1>2, <2>1
<1>6. PendingExact'
  <2>1. PendingExact
    BY Zenon DEF QInv
  <2> QED BY ONLY <1>2, <1>3, <1>5, <2>1, Zenon DEF PendingExact
<1>7. AllPlaced' /\ Counted'
  <2>1. Elems(free_list)' = Elems(free_list) /\ BufsOf(cq)' = BufsOf(cq)
        /\ HeldSet' = {} /\ HeldSet = {}
    BY <1>3, Zenon DEF Elems, BufsOf, HeldSet
  <2>2. Elems(free_list) \cup BufsOf(sq') \cup BufsOf(kernel') \cup BufsOf(cq) = Buffers
    BY <1>2, <2>1, Zenon DEF QInv, AllPlaced
  <2>3. Counted /\ held = None
    BY Zenon DEF QInv
  <2>4. Len(free_list) + Len(sq') + Len(kernel') + Len(cq) = queue_size
    BY ONLY <1>2, <1>5, <2>3, SMTT(30) DEF Counted
  <2>5. AllPlaced'
    BY ONLY <2>1, <2>2, Zenon DEF AllPlaced
  <2>6. Counted'
    BY ONLY <1>3, <1>5, <2>4 DEF Counted
  <2> QED BY <2>5, <2>6, Zenon
<1>8. NoBufferHeld'
  BY <1>3, Zenon DEF NoBufferHeld
<1> QED BY <1>4, <1>6, <1>7, <1>8, Zenon DEF QInv

\* wait_for_one_cqe frees a buffer, or queues it again with the rest of its bytes.
LEMMA WaitQInv == ASSUME QInv, wait_for_one_cqe PROVE QInv'
<1> DEFINE b == Head(cq).b
           n == Head(cq).res
           e == [b |-> b, fd |-> fd, drain |-> FALSE, link |-> FALSE]
           q == Append(sq, e)
<1>1. cq \in Seq(Cqe) /\ cq # <<>> /\ cq' = Tail(cq)
  BY Zenon DEF QInv, TypeOK, wait_for_one_cqe
<1>2. /\ Head(cq) \in Cqe /\ cq' \in Seq(Cqe) /\ Len(cq') = Len(cq) - 1
      /\ BufsOf(cq) = BufsOf(cq') \cup {b}
  BY ONLY <1>1, TailBufs, Zenon
<1>3. b \in Buffers /\ n \in Nat \cup {-1}
  BY <1>2, Members, Zenon
<1>4. /\ opc' = opc /\ held' = held /\ held = None /\ offset' = offset /\ logged' = logged
      /\ batch_index' = batch_index /\ files' = files /\ fd' = fd /\ newfd' = newfd
      /\ reopens' = reopens
  BY Zenon DEF QInv, NoBufferHeld, wait_for_one_cqe, Waiting, fileVars
<1>5. \/ /\ free_list' = <<b>> \o free_list /\ pending_cqe_count' = pending_cqe_count - 1
         /\ buf' = buf /\ sq' = sq /\ kernel' = kernel
      \/ /\ n # -1 /\ free_list' = free_list /\ pending_cqe_count' = pending_cqe_count
         /\ buf' = [buf EXCEPT ![b] = Advanced(b, n)] /\ Submit(q)
  BY Zenon DEF wait_for_one_cqe, resubmit_buffer, free_buffer, Resubmitted
<1> HIDE DEF n
<1>6. /\ free_list \in Seq(Buffers) /\ sq \in Seq(Sqe) /\ kernel \in Seq(Req)
      /\ Len(free_list) \in Nat /\ Len(sq) \in Nat /\ Len(kernel) \in Nat /\ Len(cq) \in Nat
      /\ Len(cq') \in Nat
  BY <1>2 DEF QInv, TypeOK
<1>7. /\ HeldSet = {} /\ HeldSet' = {} /\ PendingExact /\ AllPlaced /\ Counted
      /\ pending_cqe_count \in Int
  BY <1>4, Zenon DEF QInv, TypeOK, HeldSet
<1>8. NoBufferHeld'
  BY <1>4, Zenon DEF NoBufferHeld
<1>9. CASE /\ free_list' = <<b>> \o free_list /\ pending_cqe_count' = pending_cqe_count - 1
           /\ buf' = buf /\ sq' = sq /\ kernel' = kernel
  <2> HIDE DEF b
  <2>1. <<b>> \in Seq(Buffers) /\ Len(<<b>>) = 1 /\ <<b>>[1] = b
    BY <1>3
  <2>2. Elems(<<b>>) = {b}
    BY ONLY <2>1 DEF Elems
  <2>3. /\ free_list' \in Seq(Buffers) /\ Len(free_list') = Len(free_list) + 1
        /\ Elems(free_list') = Elems(free_list) \cup {b}
    <3> DEFINE t == <<b>>
    <3>1. t \in Seq(Buffers) /\ Len(t) = 1 /\ Elems(t) = {b} /\ free_list' = t \o free_list
      BY <1>9, <2>1, <2>2, Zenon
    <3> HIDE DEF t
    <3>2. /\ t \o free_list \in Seq(Buffers) /\ Len(t \o free_list) = Len(t) + Len(free_list)
          /\ Elems(t \o free_list) = Elems(t) \cup Elems(free_list)
      <4>1. t \in Seq(Buffers) /\ free_list \in Seq(Buffers)
        BY <1>6, <3>1, Zenon
      <4> QED BY ONLY <4>1, ConcatElems
    <3> QED BY ONLY <1>6, <3>1, <3>2
  <2>4. TypeOK'
    BY <1>2, <1>4, <1>9, <2>3, SMTT(30) DEF QInv, TypeOK
  <2>5. PendingExact'
    BY ONLY <1>2, <1>6, <1>7, <1>9 DEF PendingExact
  <2>6. AllPlaced' /\ Counted'
    <3>1. Elems(free_list') \cup BufsOf(sq) \cup BufsOf(kernel) \cup BufsOf(cq') = Buffers
      BY ONLY <1>2, <1>7, <2>3, Zenon DEF AllPlaced
    <3>2. Len(free_list') + Len(sq) + Len(kernel) + Len(cq') = queue_size
      BY ONLY <1>2, <1>4, <1>6, <1>7, <2>3 DEF Counted
    <3>3. AllPlaced'
      BY ONLY <1>7, <1>9, <3>1, Zenon DEF AllPlaced
    <3>4. Counted'
      BY ONLY <1>4, <1>6, <1>9, <2>3, <3>2 DEF Counted
    <3> QED BY <3>3, <3>4, Zenon
  <2> QED BY <1>8, <2>4, <2>5, <2>6, Zenon DEF QInv
<1>10. CASE /\ n # -1 /\ free_list' = free_list /\ pending_cqe_count' = pending_cqe_count
            /\ buf' = [buf EXCEPT ![b] = Advanced(b, n)] /\ Submit(q)
  <2>1. e \in Sqe /\ e.b = b
    BY <1>3 DEF QInv, TypeOK, Sqe
  <2> HIDE DEF b, e
  <2>2. q \in Seq(Sqe) /\ Len(q) = Len(sq) + 1 /\ BufsOf(q) = BufsOf(sq) \cup {b}
    BY ONLY <1>6, <2>1, AppendBufs
  <2> HIDE DEF q
  <2>3. /\ sq' \in Seq(Sqe) /\ kernel' \in Seq(Req)
        /\ Len(sq') + Len(kernel') = Len(sq) + 1 + Len(kernel)
        /\ BufsOf(sq') \cup BufsOf(kernel') = BufsOf(sq) \cup {b} \cup BufsOf(kernel)
    BY <1>6, <1>10, <2>2, SubmitFacts, Zenon
  <2>4. Len(sq') \in Nat /\ Len(kernel') \in Nat
    BY ONLY <2>3
  <2>5. TypeOK'
    <3>1. Advanced(b, n) \in Buf
      <4>1. buf[b] \in Buf /\ n \in Nat /\ b \in Buffers
        BY <1>3, <1>10, Zenon DEF QInv, TypeOK
      <4> QED BY ONLY <4>1, AdvancedBuf, Zenon
    <3>2. buf' \in [Buffers -> Buf]
      BY <1>3, <1>10, <3>1, Zenon DEF QInv, TypeOK
    <3> QED BY <1>2, <1>4, <1>6, <1>10, <2>3, <3>2, Zenon DEF QInv, TypeOK
  <2>6. PendingExact'
    <3>1. /\ Len(sq') + Len(kernel') = Len(sq) + 1 + Len(kernel) /\ Len(cq') = Len(cq) - 1
          /\ pending_cqe_count' = pending_cqe_count /\ PendingExact
      BY <1>2, <1>7, <1>10, <2>3, Zenon
    <3>2. Len(sq) \in Nat /\ Len(kernel) \in Nat /\ Len(cq) \in Nat
      BY <1>6, Zenon
    <3>3. pending_cqe_count = Len(sq') + Len(kernel') + Len(cq')
      BY ONLY <2>4, <3>1, <3>2, SMTT(30) DEF PendingExact
    <3> QED BY ONLY <3>1, <3>3, Zenon DEF PendingExact
  <2>7. AllPlaced' /\ Counted'
    <3>1. Elems(free_list) \cup BufsOf(sq') \cup BufsOf(kernel') \cup BufsOf(cq') = Buffers
      BY ONLY <1>2, <1>7, <2>3, Zenon DEF AllPlaced
    <3>2. Len(free_list) + Len(sq') + Len(kernel') + Len(cq') = queue_size
      BY ONLY <1>2, <1>4, <1>6, <1>7, <2>3, <2>4, SMTT(30) DEF Counted
    <3>3. AllPlaced'
      BY ONLY <1>7, <1>10, <3>1, Zenon DEF AllPlaced
    <3>4. Counted'
      BY ONLY <1>4, <1>6, <1>10, <2>4, <3>2 DEF Counted
    <3> QED BY <3>3, <3>4, Zenon
  <2> QED BY <1>8, <2>5, <2>6, <2>7, Zenon DEF QInv
<1> QED BY <1>5, <1>9, <1>10, Zenon

\* The kernel moves a request to the completion queue.
LEMMA CompleteFacts ==
  ASSUME QInv, NEW k \in 1..Len(kernel), NEW n, Complete(k, n)
  PROVE  /\ kernel[k].b \in Buffers /\ kernel[k].fd \in Int
         /\ kernel' \in Seq(Req) /\ Len(kernel') = Len(kernel) - 1
         /\ BufsOf(kernel) = BufsOf(kernel') \cup {kernel[k].b}
         /\ \A j \in 1..Len(kernel') : \E i \in 1..Len(kernel) : 
              kernel'[j].b = kernel[i].b /\ kernel'[j].fd = kernel[i].fd
         /\ NoRepeat(kernel) => NoRepeat(kernel') /\ kernel[k].b \notin BufsOf(kernel')
<1> DEFINE b == kernel[k].b
           at(j) == IF j < k THEN j ELSE j + 1
           N == Len(kernel)
           rest == [j \in 1..(N - 1) |->
                      [kernel[at(j)] EXCEPT !.after = IF @ = b THEN None ELSE @]]
<1>1. kernel \in Seq(Req) /\ N \in Nat /\ k \in 1..N
  BY DEF QInv, TypeOK
<1>2. kernel' = rest
  BY Zenon DEF Complete
<1>3. ASSUME NEW x \in Req PROVE LET y == [x EXCEPT !.after = IF @ = b THEN None ELSE @]
                                 IN  y \in Req /\ y.b = x.b /\ y.fd = x.fd
  <2>1. x.after \in Buffers \cup {None}
    BY Zenon DEF Req
  <2>2. (IF x.after = b THEN None ELSE x.after) \in Buffers \cup {None}
    BY <2>1, Zenon
  <2> HIDE DEF b
  <2> QED BY <2>2, Zenon DEF Req
<1>4. \A j \in 1..(N - 1) : at(j) \in 1..N
  BY ONLY <1>1
<1>5. \A j \in 1..(N - 1) : /\ rest[j] \in Req /\ at(j) \in 1..N
                            /\ rest[j].b = kernel[at(j)].b /\ rest[j].fd = kernel[at(j)].fd
  <2> SUFFICES ASSUME NEW j \in 1..(N - 1)
               PROVE  /\ rest[j] \in Req /\ at(j) \in 1..N
                      /\ rest[j].b = kernel[at(j)].b /\ rest[j].fd = kernel[at(j)].fd
    BY Zenon
  <2>1. at(j) \in 1..N
    BY <1>4, Zenon
  <2> HIDE DEF at, b
  <2>2. kernel[at(j)] \in Req
    BY ONLY <1>1, <2>1
  <2>3. rest[j] = [kernel[at(j)] EXCEPT !.after = IF @ = b THEN None ELSE @]
    BY Zenon
  <2> QED BY <1>3, <2>1, <2>2, <2>3, Zenon
<1>6. rest \in [1..(N - 1) -> Req] /\ N - 1 \in Nat
  <2>1. \A j \in 1..(N - 1) : rest[j] \in Req
    BY <1>5, Zenon
  <2>2. DOMAIN rest = 1..(N - 1) /\ rest = [j \in 1..(N - 1) |-> rest[j]]
    BY Zenon
  <2>3. N - 1 \in Nat
    BY <1>1
  <2> QED BY <2>1, <2>2, <2>3, Zenon
<1> HIDE DEF rest
<1>7. kernel' \in Seq(Req) /\ Len(kernel') = N - 1
  BY ONLY <1>2, <1>6
<1>8. \A i \in 1..N : i = k \/ \E j \in 1..(N - 1) : at(j) = i
  <2> SUFFICES ASSUME NEW i \in 1..N, i # k PROVE \E j \in 1..(N - 1) : at(j) = i
    BY Zenon
  <2>1. CASE i < k
    BY ONLY <1>1, <2>1
  <2>2. CASE i > k
    <3>1. i - 1 \in 1..(N - 1) /\ at(i - 1) = i
      BY ONLY <1>1, <2>2
    <3> QED BY <3>1, Zenon
  <2> QED BY <1>1, <2>1, <2>2
<1>9. b \in Buffers /\ kernel[k].fd \in Int
  BY <1>1, Members
<1> HIDE DEF at
<1>10. BufsOf(kernel) \subseteq BufsOf(kernel') \cup {b}
  <2> SUFFICES ASSUME NEW i \in 1..N PROVE kernel[i].b \in BufsOf(kernel') \cup {b}
    BY Zenon DEF BufsOf
  <2>1. CASE i = k
    BY <2>1, Zenon
  <2>2. CASE i # k
    <3>1. PICK j \in 1..(N - 1) : at(j) = i
      BY <1>8, <2>2, Zenon
    <3>2. kernel'[j].b = kernel[i].b /\ j \in 1..Len(kernel')
      BY <1>2, <1>5, <1>7, <3>1, Zenon
    <3> QED BY ONLY <3>2, Zenon DEF BufsOf
  <2> QED BY <2>1, <2>2, Zenon
<1>11. BufsOf(kernel') \cup {b} \subseteq BufsOf(kernel)
  <2>1. ASSUME NEW j \in 1..Len(kernel') PROVE kernel'[j].b \in BufsOf(kernel)
    <3>1. kernel'[j].b = kernel[at(j)].b /\ at(j) \in 1..N
      BY <1>2, <1>5, <1>7, Zenon
    <3> QED BY ONLY <3>1, Zenon DEF BufsOf
  <2>2. b \in BufsOf(kernel)
    BY ONLY <1>1, Zenon DEF BufsOf
  <2> QED BY <2>1, <2>2, Zenon DEF BufsOf
<1>12. \A j \in 1..Len(kernel') : \E i \in 1..Len(kernel) : 
         kernel'[j].b = kernel[i].b /\ kernel'[j].fd = kernel[i].fd
  BY <1>2, <1>5, <1>7, Zenon
<1>13. ASSUME NoRepeat(kernel) PROVE NoRepeat(kernel') /\ b \notin BufsOf(kernel')
  <2>1. \A i, j \in 1..Len(kernel') :
          /\ at(i) \in 1..N /\ kernel'[i].b = kernel[at(i)].b /\ at(i) # k
          /\ at(i) = at(j) => i = j
    <3>1. \A i, j \in 1..(N - 1) : at(i) # k /\ (at(i) = at(j) => i = j)
      BY ONLY <1>1 DEF at
    <3> QED BY ONLY <1>2, <1>5, <1>7, <3>1, Zenon
  <2>2. NoRepeat(kernel')
    BY ONLY <1>13, <2>1, SMTT(30) DEF NoRepeat
  <2>3. \A i \in 1..Len(kernel') : kernel'[i].b # b
    BY ONLY <1>1, <1>13, <2>1, Zenon DEF NoRepeat, b
  <2> QED BY ONLY <2>2, <2>3, Zenon DEF BufsOf
<1> QED BY ONLY <1>7, <1>9, <1>10, <1>11, <1>12, <1>13, Zenon DEF b, N

\* A completion keeps the accounting, whatever the kernel reports.
LEMMA CompleteQInv ==
  ASSUME QInv, NEW k \in 1..Len(kernel), NEW n \in {-1} \cup Nat, Complete(k, n)
  PROVE  QInv'
<1> DEFINE b == kernel[k].b
           e == [b |-> b, res |-> n]
<1>1. /\ b \in Buffers /\ kernel' \in Seq(Req) /\ Len(kernel') = Len(kernel) - 1
      /\ BufsOf(kernel) = BufsOf(kernel') \cup {b}
  BY CompleteFacts, Zenon
<1>2. /\ cq' = Append(cq, e) /\ sq' = sq /\ free_list' = free_list /\ held' = held
      /\ opc' = opc /\ buf' = buf /\ offset' = offset /\ batch_index' = batch_index
      /\ pending_cqe_count' = pending_cqe_count /\ fd' = fd /\ newfd' = newfd
      /\ logged' = logged /\ reopens' = reopens
  BY Zenon DEF Complete
<1>3. e \in Cqe /\ e.b = b
  BY <1>1, Zenon DEF Cqe
<1>4. cq \in Seq(Cqe) /\ Len(cq) \in Nat /\ kernel \in Seq(Req) /\ Len(kernel) \in Nat
      /\ Len(sq) \in Nat /\ Len(free_list) \in Nat
  BY SMTT(30) DEF QInv, TypeOK
<1> HIDE DEF b, e
<1>5. cq' \in Seq(Cqe) /\ Len(cq') = Len(cq) + 1 /\ BufsOf(cq') = BufsOf(cq) \cup {b}
  <2>1. cq \in Seq(Cqe)
    BY <1>4, Zenon
  <2> QED BY ONLY <1>2, <1>3, <2>1, AppendBufs
<1>6. TypeOK'
  <2>1. files' \in [1..(MaxReopens + 1) -> Seq(Nat)]
    <3>1. CASE n = -1
      BY <3>1, Zenon DEF Complete, QInv, TypeOK
    <3>2. CASE n \in Nat
      <4> DEFINE f == kernel[k].fd
      <4>0. n # -1
        BY <3>2
      <4>1. files' = [files EXCEPT ![f] = Written(files[f], b, n)]
        BY <4>0, Zenon DEF Complete, b
      <4>2. files \in [1..(MaxReopens + 1) -> Seq(Nat)] /\ TypeOK
        BY Zenon DEF QInv, TypeOK
      <4> HIDE DEF f
      <4>3. CASE f \in 1..(MaxReopens + 1)
        <5>1. files[f] \in Seq(Nat)
          BY ONLY <4>2, <4>3, Zenon
        <5>2. Written(files[f], b, n) \in Seq(Nat)
          <6> DEFINE w == Written(files[f], b, n)
          <6> HIDE DEF w
          <6>1. w \in Seq(Nat)
            BY ONLY <1>1, <3>2, <4>2, <5>1, WrittenFacts DEF w, IsWritten
          <6> QED BY ONLY <6>1, Zenon DEF w
        <5> QED BY ONLY <4>1, <4>2, <5>2, Zenon
      <4>4. CASE f \notin 1..(MaxReopens + 1)
        BY ONLY <4>1, <4>2, <4>4, Zenon
      <4> QED BY <4>3, <4>4, Zenon
    <3> QED BY <3>1, <3>2, Zenon
  <2> QED BY <1>1, <1>2, <1>5, <2>1, Zenon DEF QInv, TypeOK
<1>7. PendingExact'
  <2>1. PendingExact
    BY Zenon DEF QInv
  <2>2. Len(kernel') = Len(kernel) - 1 /\ Len(cq') = Len(cq) + 1
    BY <1>1, <1>5, Zenon
  <2>3. sq' = sq /\ pending_cqe_count' = pending_cqe_count
    BY <1>2, Zenon
  <2> QED BY ONLY <1>4, <2>1, <2>2, <2>3 DEF PendingExact
<1>8. AllPlaced'
  <2>1. /\ BufsOf(sq)' = BufsOf(sq) /\ Elems(free_list)' = Elems(free_list)
        /\ HeldSet' = HeldSet
    BY ONLY <1>2, Zenon DEF BufsOf, Elems, HeldSet
  <2>2. AllPlaced /\ BufsOf(kernel) = BufsOf(kernel') \cup {b}
        /\ BufsOf(cq') = BufsOf(cq) \cup {b}
    BY <1>1, <1>5, Zenon DEF QInv
  <2> QED BY ONLY <2>1, <2>2, Zenon DEF AllPlaced
<1>9. Counted'
  <2>1. Counted
    BY Zenon DEF QInv
  <2>2. Len(kernel') = Len(kernel) - 1 /\ Len(cq') = Len(cq) + 1
    BY <1>1, <1>5, Zenon
  <2>3. sq' = sq /\ free_list' = free_list /\ held' = held
    BY <1>2, Zenon
  <2> QED BY ONLY <1>4, <2>1, <2>2, <2>3 DEF Counted
<1>10. NoBufferHeld'
  BY <1>2, Zenon DEF QInv, NoBufferHeld
<1> QED BY <1>6, <1>7, <1>8, <1>9, <1>10, Zenon DEF QInv

\* The calls that leave the queues alone.
LEMMA CallQInv ==
  ASSUME QInv, allocate_buffer \/ SyncReturn \/ replace_fd
  PROVE  QInv'
<1>1. /\ UNCHANGED <<free_list, held, buf, queueVars, files, reopens, logged>>
      /\ held = None
  BY Zenon DEF QInv, NoBufferHeld, allocate_buffer, SyncReturn, replace_fd, fileVars, boundVars
<1>2. /\ offset' \in Nat /\ fd' \in 1..(reopens + 1)
      /\ opc' # "replace_fd" /\ newfd' = None
  <2>1. CASE allocate_buffer \/ SyncReturn
    BY <2>1, Zenon DEF QInv, TypeOK, allocate_buffer, SyncReturn, fileVars
  <2>2. CASE replace_fd
    BY <2>2, Zenon DEF QInv, TypeOK, replace_fd, set_offset
  <2> QED BY <2>1, <2>2, Zenon
<1>3. TypeOK'
  BY <1>1, <1>2, Zenon DEF QInv, TypeOK, queueVars
<1>4. PendingExact' /\ AllPlaced' /\ Counted'
  BY <1>1 DEF QInv, PendingExact, AllPlaced, Counted, Elems, BufsOf, HeldSet, queueVars
<1>5. NoBufferHeld'
  BY <1>1, Zenon DEF NoBufferHeld
<1> QED BY <1>3, <1>4, <1>5, Zenon DEF QInv

\* flush, sync and the first half of reopen.
LEMMA FlushCallsQInv ==
  ASSUME QInv, flush \/ sync \/ \E r \in Rotated : reopen(r)
  PROVE  QInv'
<1>0. reopens \in 0..MaxReopens /\ MaxReopens \in Nat
  BY StorageAssumption, Zenon DEF QInv, TypeOK
<1>1. CASE flush \/ sync
  <2>1. /\ Flush /\ held = None /\ reopens' = reopens /\ newfd' = newfd
        /\ opc' # "replace_fd" /\ opc = "idle"
    BY <1>1, Zenon DEF flush, sync
  <2>2. newfd' = None
    BY <2>1, Zenon DEF QInv, TypeOK
  <2> QED BY <1>0, <2>1, <2>2, FlushQInv
<1>2. CASE \E r \in Rotated : reopen(r)
  <2>1. PICK r \in Rotated : reopen(r)
    BY <1>2, Zenon
  <2>2. /\ Flush /\ held = None /\ reopens' = reopens + 1 /\ reopens < MaxReopens
        /\ opc' = "replace_fd"
    BY <2>1, Zenon DEF reopen
  <2>3. reopens' \in 0..MaxReopens /\ reopens' >= reopens
    BY ONLY <1>0, <2>2
  <2>4. newfd' \in [file : 1..(reopens' + 1), at : Nat]
    <3>1. fd \in 1..(reopens + 1) /\ fd \in 1..(MaxReopens + 1)
      BY <1>0 DEF QInv, TypeOK
    <3>2. fd \in 1..(reopens' + 1) /\ fd + 1 \in 1..(reopens' + 1)
      BY ONLY <1>0, <2>2, <3>1
    <3>3. Len(files[fd]) \in Nat
      BY <3>1 DEF QInv, TypeOK
    <3> QED BY <2>1, <3>2, <3>3, Zenon DEF reopen
  <2> QED BY <2>2, <2>3, <2>4, FlushQInv, Zenon
<1> QED BY <1>1, <1>2, Zenon

\* The accounting of buffers and completions is inductive.
LEMMA NextQInv == QInv /\ [Next]_vars => QInv'
<1> SUFFICES ASSUME QInv, [Next]_vars PROVE QInv'
  BY Zenon
<1>1. CASE Storage
  <2>1. CASE allocate_buffer \/ SyncReturn \/ replace_fd
    BY <2>1, CallQInv, Zenon
  <2>2. CASE flush \/ sync \/ \E r \in Rotated : reopen(r)
    BY <2>2, FlushCallsQInv, Zenon
  <2>3. CASE PopFree
    BY <2>3, PopQInv, Zenon
  <2>4. CASE wait_for_one_cqe
    BY <2>4, WaitQInv, Zenon
  <2>5. ASSUME NEW n \in 1..buffer_capacity, submit_buffer(n) PROVE QInv'
    <3>1. n \in Nat
      BY StorageAssumption
    <3> QED BY <2>5, <3>1, SubmitBufferQInv, Zenon
  <2> QED BY <1>1, <2>1, <2>2, <2>3, <2>4, <2>5, Zenon DEF Storage
<1>2. CASE Kernel
  <2>0. PICK k \in 1..Len(kernel) :
          \E n \in {-1} \cup 0..buf[kernel[k].b].size : Complete(k, n)
    BY <1>2, Zenon DEF Kernel
  <2>1. PICK n \in {-1} \cup 0..buf[kernel[k].b].size : Complete(k, n)
    BY <2>0, Zenon
  <2>2. n \in {-1} \cup Nat
    <3>1. kernel[k].b \in Buffers
      BY <2>1, CompleteFacts, Zenon
    <3>2. buf[kernel[k].b].size \in Int
      BY <3>1, Zenon DEF QInv, TypeOK, Buf
    <3> QED BY <3>2
  <2> QED BY <2>1, <2>2, CompleteQInv, Zenon
<1>3. CASE UNCHANGED vars
  <2>1. /\ UNCHANGED <<opc, free_list, held, buf, offset, files, fd, newfd, logged, reopens>>
        /\ UNCHANGED <<batch_index, pending_cqe_count, sq, kernel, cq>>
    BY <1>3, Zenon DEF vars, queueVars, fileVars, boundVars
  <2>2. TypeOK'
    BY <2>1, Zenon DEF QInv, TypeOK
  <2>3. PendingExact' /\ Counted' /\ NoBufferHeld'
    BY <2>1, Zenon DEF QInv, PendingExact, Counted, NoBufferHeld
  <2>4. AllPlaced'
    <3>1. Elems(free_list)' = Elems(free_list) /\ HeldSet' = HeldSet
      BY ONLY <2>1, Zenon DEF Elems, HeldSet
    <3>2. BufsOf(sq)' = BufsOf(sq) /\ BufsOf(kernel)' = BufsOf(kernel)
          /\ BufsOf(cq)' = BufsOf(cq)
      BY ONLY <2>1, Zenon DEF BufsOf
    <3>3. AllPlaced
      BY Zenon DEF QInv
    <3> QED BY ONLY <3>1, <3>2, <3>3, Zenon DEF AllPlaced
  <2> QED BY <2>2, <2>3, <2>4, Zenon DEF QInv
<1> QED BY <1>1, <1>2, <1>3, Zenon DEF Next

-----------------------------------------------------------------------------
(* No buffer is in two places. *)

\* The free list, the queues and the caller's hands share no buffer.
Disjoint ==
  /\ Elems(free_list) \cap (BufsOf(sq) \cup BufsOf(kernel) \cup BufsOf(cq)) = {}
  /\ BufsOf(sq) \cap BufsOf(kernel) = {}
  /\ (BufsOf(sq) \cup BufsOf(kernel)) \cap BufsOf(cq) = {}
  /\ held \notin Elems(free_list) \cup BufsOf(sq) \cup BufsOf(kernel) \cup BufsOf(cq)

Once ==
  /\ Distinct(free_list) /\ NoRepeat(sq) /\ NoRepeat(kernel) /\ NoRepeat(cq)
  /\ Disjoint

\* A buffer that is not in a queue may join it.
LEMMA AppendNoRepeat ==
  ASSUME NEW S, NEW s \in Seq(S), NEW e \in S, NoRepeat(s), e.b \notin BufsOf(s)
  PROVE  NoRepeat(Append(s, e))
<1>1. /\ Len(Append(s, e)) = Len(s) + 1 /\ Len(s) \in Nat
      /\ \A k \in 1..Len(s) : Append(s, e)[k] = s[k]
      /\ Append(s, e)[Len(s) + 1] = e
  BY AppendBufs
<1>2. \A k \in 1..(Len(s) + 1) : k \in 1..Len(s) \/ k = Len(s) + 1
  BY ONLY <1>1
<1>3. \A k \in 1..Len(s) : s[k].b # e.b
  BY Zenon DEF BufsOf
<1> QED BY ONLY <1>1, <1>2, <1>3, NoRepeat(s), Zenon DEF NoRepeat

\* The first entry of a queue without repetition is not in its rest.
LEMMA TailNoRepeat ==
  ASSUME NEW S, NEW s \in Seq(S), s # <<>>, NoRepeat(s)
  PROVE  NoRepeat(Tail(s)) /\ Head(s).b \notin BufsOf(Tail(s))
<1>1. /\ Len(Tail(s)) = Len(s) - 1 /\ Len(s) \in Nat /\ Head(s) = s[1] /\ 1 \in 1..Len(s)
      /\ \A k \in 1..Len(Tail(s)) : /\ Tail(s)[k] = s[k + 1] /\ k + 1 \in 1..Len(s)
                                    /\ k \in Int /\ k + 1 # 1
  OBVIOUS
<1>2. NoRepeat(Tail(s))
  <2> SUFFICES ASSUME NEW i \in 1..Len(Tail(s)), NEW j \in 1..Len(Tail(s)),
                      Tail(s)[i].b = Tail(s)[j].b
               PROVE  i = j
    BY Zenon DEF NoRepeat
  <2>1. i + 1 = j + 1
    BY DEF NoRepeat
  <2> QED BY ONLY <1>1, <2>1, i \in 1..Len(Tail(s)), j \in 1..Len(Tail(s))
<1>3. \A k \in 1..Len(Tail(s)) : Tail(s)[k].b # Head(s).b
  BY ONLY <1>1, NoRepeat(s), Zenon DEF NoRepeat
<1> QED BY ONLY <1>2, <1>3, Zenon DEF BufsOf

\* Initially every buffer is in the free list, once.
LEMMA InitOnce == Init => Once
<1> SUFFICES ASSUME Init PROVE Once
  BY Zenon
<1>1. sq = <<>> /\ kernel = <<>> /\ cq = <<>> /\ held = None
  BY Zenon DEF Init
<1>2. NoRepeat(<<>>) /\ BufsOf(<<>>) = {}
  BY DEF NoRepeat, BufsOf
<1>3. free_list = [k \in 1..queue_size |-> k] /\ Len(free_list) = queue_size
  BY StorageAssumption DEF Init, Buffers
<1>4. Distinct(free_list) /\ held \notin Elems(free_list)
  BY ONLY <1>1, <1>3, StorageAssumption DEF Distinct, Elems
<1> QED BY ONLY <1>1, <1>2, <1>4, Zenon DEF Once, Disjoint

\* allocate_buffer takes a buffer out of the free list.
LEMMA PopOnce == ASSUME QInv, Once, PopFree PROVE Once'
<1>1. /\ free_list \in Seq(Buffers) /\ free_list # <<>>
      /\ held' = Head(free_list) /\ free_list' = Tail(free_list)
      /\ sq' = sq /\ kernel' = kernel /\ cq' = cq
  BY Zenon DEF QInv, TypeOK, PopFree, queueVars
<1>2. /\ Len(Tail(free_list)) = Len(free_list) - 1 /\ Len(free_list) \in Nat
      /\ Head(free_list) = free_list[1] /\ 1 \in 1..Len(free_list)
      /\ \A k \in 1..Len(Tail(free_list)) : /\ Tail(free_list)[k] = free_list[k + 1]
                                            /\ k + 1 \in 1..Len(free_list)
                                            /\ k \in Int /\ k + 1 # 1
  BY ONLY <1>1
<1>3. Distinct(free_list)
  BY Zenon DEF Once
<1>4. Distinct(free_list')
  <2>1. ASSUME NEW i \in 1..Len(Tail(free_list)), NEW j \in 1..Len(Tail(free_list)),
               Tail(free_list)[i] = Tail(free_list)[j]
        PROVE  i = j
    <3>1. i + 1 = j + 1
      BY ONLY <1>2, <1>3, <2>1 DEF Distinct
    <3> QED BY ONLY <1>2, <3>1, i \in 1..Len(Tail(free_list)), j \in 1..Len(Tail(free_list))
  <2> QED BY ONLY <1>1, <2>1, Zenon DEF Distinct
<1>5. held' \notin Elems(free_list') /\ held' \in Elems(free_list)
      /\ Elems(free_list') \subseteq Elems(free_list)
  BY ONLY <1>1, <1>2, <1>3 DEF Distinct, Elems
<1> QED BY ONLY <1>1, <1>4, <1>5, Once, Zenon DEF Once, Disjoint

\* A submission, whatever it takes, moves buffers of the queue q to the kernel.
LEMMA SubmitOnce ==
  ASSUME QInv, NEW q \in Seq(Sqe), Submit(q) \/ (sq' = q /\ kernel' = kernel),
         NoRepeat(q), NoRepeat(kernel), BufsOf(q) \cap BufsOf(kernel) = {}
  PROVE  /\ NoRepeat(sq') /\ NoRepeat(kernel') /\ BufsOf(sq') \cap BufsOf(kernel') = {}
         /\ BufsOf(sq') \cup BufsOf(kernel') = BufsOf(q) \cup BufsOf(kernel)
<1>1. kernel \in Seq(Req)
  BY Zenon DEF QInv, TypeOK
<1>2. CASE Submit(q)
  BY <1>1, <1>2, SubmitFacts, Zenon
<1>3. CASE sq' = q /\ kernel' = kernel
  BY <1>3, Zenon
<1> QED BY <1>2, <1>3, Zenon

\* submit_buffer puts the caller's buffer into the submission queue.
LEMMA SubmitBufferOnce == ASSUME QInv, Once, NEW n \in Nat, submit_buffer(n) PROVE Once'
<1> DEFINE e == Prepared(held, batch_index % batch_size = 0)
           q == Append(sq, e)
<1>1. /\ held \in Buffers /\ held' = None /\ sq \in Seq(Sqe) /\ kernel \in Seq(Req)
      /\ free_list' = free_list /\ cq' = cq
  BY Zenon DEF QInv, TypeOK, submit_buffer
<1>2. e \in Sqe /\ e.b = held
  <2>1. fd \in Int
    BY DEF QInv, TypeOK
  <2>2. (batch_index % batch_size = 0) \in BOOLEAN
    BY Zenon
  <2> QED BY ONLY <1>1, <2>1, <2>2, Zenon DEF Prepared, Sqe
<1>3. Submit(q) \/ (sq' = q /\ kernel' = kernel)
  BY Zenon DEF submit_buffer
<1> HIDE DEF e
<1>4. q \in Seq(Sqe) /\ BufsOf(q) = BufsOf(sq) \cup {held}
  <2>1. sq \in Seq(Sqe)
    BY <1>1, Zenon
  <2> QED BY ONLY <1>2, <2>1, AppendBufs
<1>5. NoRepeat(q)
  BY ONLY <1>1, <1>2, Once, AppendNoRepeat, Zenon DEF Once, Disjoint
<1>6. NoRepeat(kernel) /\ BufsOf(q) \cap BufsOf(kernel) = {}
  BY ONLY <1>4, Once, Zenon DEF Once, Disjoint
<1> HIDE DEF q
<1>7. /\ NoRepeat(sq') /\ NoRepeat(kernel') /\ BufsOf(sq') \cap BufsOf(kernel') = {}
      /\ BufsOf(sq') \cup BufsOf(kernel') = BufsOf(q) \cup BufsOf(kernel)
  BY <1>3, <1>4, <1>5, <1>6, SubmitOnce, Zenon
<1>8. None \notin Buffers /\ Elems(free_list) \cup BufsOf(sq') \cup BufsOf(kernel') \cup BufsOf(cq)
                             \subseteq Buffers
  <2>1. Elems(free_list) \cup BufsOf(sq) \cup BufsOf(kernel) \cup BufsOf(cq) \subseteq Buffers
    BY Zenon DEF QInv, AllPlaced
  <2>2. None \notin Buffers
    BY StorageAssumption DEF Buffers
  <2> QED BY ONLY <1>1, <1>4, <1>7, <2>1, <2>2, Zenon
<1> QED BY ONLY <1>1, <1>4, <1>7, <1>8, Once DEF Once, Disjoint

\* flush, sync and reopen move buffers from the submission queue to the kernel.
LEMMA FlushOnce == ASSUME QInv, Once, Flush PROVE Once'
<1>1. sq \in Seq(Sqe) /\ Submit(sq) /\ free_list' = free_list /\ cq' = cq /\ held' = held
  BY Zenon DEF QInv, TypeOK, Flush
<1>2. /\ NoRepeat(sq') /\ NoRepeat(kernel') /\ BufsOf(sq') \cap BufsOf(kernel') = {}
      /\ BufsOf(sq') \cup BufsOf(kernel') = BufsOf(sq) \cup BufsOf(kernel)
  BY <1>1, SubmitOnce, Zenon DEF Once, Disjoint
<1> QED BY ONLY <1>1, <1>2, Once, Zenon DEF Once, Disjoint

\* wait_for_one_cqe takes a buffer out of the completion queue, and frees or
\* resubmits it.
LEMMA WaitOnce == ASSUME QInv, Once, wait_for_one_cqe PROVE Once'
<1> DEFINE b == Head(cq).b
           e == [b |-> b, fd |-> fd, drain |-> FALSE, link |-> FALSE]
           q == Append(sq, e)
<1>1. /\ cq \in Seq(Cqe) /\ cq # <<>> /\ cq' = Tail(cq) /\ held' = held /\ held = None
      /\ free_list \in Seq(Buffers) /\ sq \in Seq(Sqe) /\ fd \in Int
  <2>1. fd \in 1..(reopens + 1) /\ reopens \in 0..MaxReopens
    BY Zenon DEF QInv, TypeOK
  <2>2. fd \in Int
    BY ONLY <2>1
  <2> QED BY <2>2, Zenon DEF QInv, TypeOK, NoBufferHeld, wait_for_one_cqe, Waiting
<1>2. Head(cq) \in Cqe /\ BufsOf(cq) = BufsOf(cq') \cup {b}
  BY ONLY <1>1, TailBufs, Zenon
<1>3. NoRepeat(cq') /\ b \notin BufsOf(cq')
  BY ONLY <1>1, Once, TailNoRepeat, Zenon DEF Once
<1>4. b \in Buffers
  BY ONLY <1>2, Members, Zenon
<1>5. None \notin Buffers
  BY StorageAssumption DEF Buffers
<1>6. \/ free_list' = <<b>> \o free_list /\ sq' = sq /\ kernel' = kernel
      \/ free_list' = free_list /\ Submit(q)
  BY Zenon DEF wait_for_one_cqe, resubmit_buffer, free_buffer, Resubmitted
<1>7. e \in Sqe /\ e.b = b
  BY ONLY <1>1, <1>4, Zenon DEF Sqe
<1> HIDE DEF b, e
<1>8. CASE free_list' = <<b>> \o free_list /\ sq' = sq /\ kernel' = kernel
  <2>1. /\ Len(free_list') = Len(free_list) + 1 /\ Len(free_list) \in Nat
        /\ \A k \in 1..Len(free_list') :
             free_list'[k] = IF k = 1 THEN b ELSE free_list[k - 1]
    BY ONLY <1>1, <1>4, <1>8
  <2>2. \A k \in 1..Len(free_list') : k = 1 \/ k - 1 \in 1..Len(free_list)
    BY ONLY <2>1
  <2>3. Distinct(free_list) /\ \A k \in 1..Len(free_list) : free_list[k] # b
    BY ONLY <1>2, Once, Zenon DEF Once, Disjoint, Elems
  <2>4. Distinct(free_list')
    <3> SUFFICES ASSUME NEW i \in 1..Len(free_list'), NEW j \in 1..Len(free_list'),
                        free_list'[i] = free_list'[j]
                 PROVE  i = j
      BY Zenon DEF Distinct
    <3>1. CASE i = 1 \/ j = 1
      BY ONLY <2>1, <2>2, <2>3, <3>1, free_list'[i] = free_list'[j],
              i \in 1..Len(free_list'), j \in 1..Len(free_list'), ZenonT(40)
    <3>2. CASE i # 1 /\ j # 1
      <4>1. i - 1 = j - 1
        BY ONLY <2>1, <2>2, <2>3, <3>2, free_list'[i] = free_list'[j],
                i \in 1..Len(free_list'), j \in 1..Len(free_list') DEF Distinct
      <4> QED BY ONLY <2>1, <4>1, i \in 1..Len(free_list'), j \in 1..Len(free_list')
    <3> QED BY ONLY <3>1, <3>2, Zenon
  <2>5. Elems(free_list') \subseteq Elems(free_list) \cup {b}
    BY ONLY <2>1, <2>2 DEF Elems
  <2> QED BY ONLY <1>1, <1>2, <1>3, <1>4, <1>5, <1>8, <2>4, <2>5, Once DEF Once, Disjoint
<1>9. CASE free_list' = free_list /\ Submit(q)
  <2>1. q \in Seq(Sqe) /\ BufsOf(q) = BufsOf(sq) \cup {b}
    BY ONLY <1>1, <1>7, AppendBufs
  <2>2. b \notin BufsOf(sq) \cup BufsOf(kernel)
    BY ONLY <1>2, Once, Zenon DEF Once, Disjoint
  <2>3. NoRepeat(q)
    BY ONLY <1>1, <1>7, <2>2, Once, AppendNoRepeat, Zenon DEF Once
  <2>4. NoRepeat(kernel) /\ BufsOf(q) \cap BufsOf(kernel) = {}
    BY ONLY <2>1, <2>2, Once, Zenon DEF Once, Disjoint
  <2> HIDE DEF q
  <2>5. /\ NoRepeat(sq') /\ NoRepeat(kernel') /\ BufsOf(sq') \cap BufsOf(kernel') = {}
        /\ BufsOf(sq') \cup BufsOf(kernel') = BufsOf(q) \cup BufsOf(kernel)
    BY <1>9, <2>1, <2>3, <2>4, SubmitOnce, Zenon
  <2> QED BY ONLY <1>1, <1>2, <1>3, <1>4, <1>5, <1>9, <2>1, <2>5, Once DEF Once, Disjoint
<1> QED BY ONLY <1>6, <1>8, <1>9, Zenon

\* The kernel moves a buffer to the completion queue.
LEMMA CompleteOnce ==
  ASSUME QInv, Once, NEW k \in 1..Len(kernel), NEW n \in {-1} \cup Nat, Complete(k, n)
  PROVE  Once'
<1> DEFINE b == kernel[k].b
           e == [b |-> b, res |-> n]
<1>1. /\ b \in Buffers /\ BufsOf(kernel) = BufsOf(kernel') \cup {b}
      /\ NoRepeat(kernel') /\ b \notin BufsOf(kernel')
  BY CompleteFacts, Zenon DEF Once
<1>2. /\ cq' = Append(cq, e) /\ sq' = sq /\ free_list' = free_list /\ held' = held
      /\ cq \in Seq(Cqe)
  BY Zenon DEF QInv, TypeOK, Complete
<1>3. e \in Cqe /\ e.b = b
  BY ONLY <1>1, n \in {-1} \cup Nat, Zenon DEF Cqe
<1> HIDE DEF b, e
<1>4. BufsOf(cq') = BufsOf(cq) \cup {b}
  <2>1. cq \in Seq(Cqe) /\ cq' = Append(cq, e)
    BY <1>2, Zenon
  <2> QED BY ONLY <1>3, <2>1, AppendBufs
<1>5. NoRepeat(cq')
  BY ONLY <1>1, <1>2, <1>3, Once, AppendNoRepeat, Zenon DEF Once, Disjoint
<1> QED BY ONLY <1>1, <1>2, <1>4, <1>5, Once DEF Once, Disjoint

\* No step puts a buffer into a second place.
LEMMA NextOnce == QInv /\ Once /\ [Next]_vars => Once'
<1> SUFFICES ASSUME QInv, Once, [Next]_vars PROVE Once'
  BY Zenon
<1>1. CASE flush \/ sync \/ \E r \in Rotated : reopen(r)
  <2>1. Flush
    BY <1>1, Zenon DEF flush, sync, reopen
  <2> QED BY <2>1, FlushOnce, Zenon
<1>2. CASE PopFree
  BY <1>2, PopOnce, Zenon
<1>3. CASE wait_for_one_cqe
  BY <1>3, WaitOnce, Zenon
<1>4. ASSUME NEW n \in 1..buffer_capacity, submit_buffer(n) PROVE Once'
  <2>1. n \in Nat
    BY StorageAssumption
  <2> QED BY <1>4, <2>1, SubmitBufferOnce, Zenon
<1>5. CASE Kernel
  <2>0. PICK k \in 1..Len(kernel) :
          \E n \in {-1} \cup 0..buf[kernel[k].b].size : Complete(k, n)
    BY <1>5, Zenon DEF Kernel
  <2>1. PICK n \in {-1} \cup 0..buf[kernel[k].b].size : Complete(k, n)
    BY <2>0, Zenon
  <2>2. n \in {-1} \cup Nat
    <3>1. kernel[k].b \in Buffers
      BY <2>1, CompleteFacts, Zenon
    <3>2. buf[kernel[k].b].size \in Int
      BY <3>1, Zenon DEF QInv, TypeOK, Buf
    <3> QED BY ONLY <3>2, n \in {-1} \cup 0..buf[kernel[k].b].size
  <2> QED BY <2>1, <2>2, CompleteOnce, Zenon
<1>6. CASE allocate_buffer \/ SyncReturn \/ replace_fd \/ UNCHANGED vars
  <2>1. UNCHANGED <<free_list, held, sq, kernel, cq>>
    BY <1>6, Zenon DEF allocate_buffer, SyncReturn, replace_fd, vars, queueVars
  <2>2. /\ Elems(free_list)' = Elems(free_list) /\ Distinct(free_list)' = Distinct(free_list)
        /\ BufsOf(sq)' = BufsOf(sq) /\ NoRepeat(sq)' = NoRepeat(sq)
        /\ BufsOf(kernel)' = BufsOf(kernel) /\ NoRepeat(kernel)' = NoRepeat(kernel)
        /\ BufsOf(cq)' = BufsOf(cq) /\ NoRepeat(cq)' = NoRepeat(cq)
    BY ONLY <2>1, Zenon DEF Elems, Distinct, BufsOf, NoRepeat
  <2> QED BY ONLY <2>1, <2>2, Once, Zenon DEF Once, Disjoint
<1> QED BY <1>1, <1>2, <1>3, <1>4, <1>5, <1>6, Zenon DEF Next, Storage

-----------------------------------------------------------------------------
(* Buffers and completions in every reachable state. *)

\* The accounting holds in every reachable state of a storage.
THEOREM QueueInvariance == Spec => [](QInv /\ Disjoint)
<1>1. Once => Disjoint
  BY Zenon DEF Once
<1> QED BY InitQInv, NextQInv, InitOnce, NextOnce, <1>1, PTL DEF Spec

\* Through short, refused and failed writes and refused submissions, every
\* buffer of io_uring_fd_storage is in exactly one place.
THEOREM EveryBufferInOnePlace == Spec => []BuffersConserved
<1>1. QInv => BuffersConserved
  BY QInvImplies, Zenon
<1> QED BY <1>1, QueueInvariance, PTL

\* pending_cqe_count_ counts the completions still to be reaped.
THEOREM PendingIsExact == Spec => []PendingExact
<1>1. QInv => PendingExact
  BY Zenon DEF QInv
<1> QED BY <1>1, QueueInvariance, PTL

-----------------------------------------------------------------------------
(* Places of bytes, when every reopen finds a rotated file. *)

Queued == BufsOf(sq) \cup BufsOf(kernel)

\* A file holds, at each offset, the byte that belongs there or nothing: bytes
\* of the current file are logged - offset apart from their offsets.
InPlace(b) == buf[b].data + buf[b].offset - buf[b].file_offset = logged - offset

PendingInPlace == \A b \in Queued \cup BufsOf(cq) : InPlace(b)
SameFile(f) == /\ \A k \in 1..Len(sq) : sq[k].fd = f
               /\ \A k \in 1..Len(kernel) : kernel[k].fd = f
HeldInPlace == held # None => buf[held].offset = 0 /\ buf[held].file_offset = offset
FileInPlace ==
  \A o \in 1..Len(files[fd]) : files[fd][o] # 0 => files[fd][o] - o = logged - offset
LaterEmpty == \A f \in 1..(MaxReopens + 1) : f > fd => files[f] = <<>>
NewIsNext == opc = "replace_fd" => newfd.file = fd + 1 /\ newfd.at = 0

PlaceInv == /\ PendingInPlace /\ SameFile(fd) /\ HeldInPlace /\ FileInPlace
            /\ LaterEmpty /\ NewIsNext /\ BytesInPlace

\* The bytes that buffer b has still to write: all of it while it is queued, and
\* what a short write left over once it is completed.
Rest(b, n) == (buf[b].data + buf[b].offset + n + 1)..(buf[b].data + buf[b].offset + buf[b].size)
Todo(b, x) == \/ b \in Queued /\ x \in Bytes(b)
              \/ \E k \in 1..Len(cq) : cq[k].b = b /\ cq[k].res # -1 /\ x \in Rest(b, cq[k].res)

\* Every byte logged is in a file, failed, or to be written by one buffer.
WrittenInv ==
  /\ \A x \in 1..logged : x \in InFiles \/ x \in failed \/ \E b \in Buffers : Todo(b, x)
  /\ \A b \in Buffers : \A x \in Int :
       Todo(b, x) => x \in 1..logged /\ x \notin InFiles /\ x \notin failed
  /\ \A b, c \in Buffers : \A x \in Int : Todo(b, x) /\ Todo(c, x) => b = c
  /\ \A x \in InFiles : x \in 1..logged /\ x \notin failed
  /\ failed \subseteq 1..logged

\* Queues that got no new buffer, with nothing else changed.
LEMMA PlaceKept ==
  ASSUME PlaceInv, UNCHANGED <<buf, logged, offset, files, fd, held>>,
         (Queued \cup BufsOf(cq))' \subseteq Queued \cup BufsOf(cq),
         SameFile(fd)', NewIsNext'
  PROVE  PlaceInv'
<1>1. PendingInPlace'
  BY Zenon DEF PlaceInv, PendingInPlace, InPlace
<1>2. HeldInPlace' /\ FileInPlace' /\ LaterEmpty' /\ BytesInPlace'
  BY DEF PlaceInv, HeldInPlace, FileInPlace, LaterEmpty, BytesInPlace
<1> QED BY <1>1, <1>2, Zenon DEF PlaceInv

\* Submission does not change the file of a request.
LEMMA SubmitSameFile ==
  ASSUME NEW q \in Seq(Sqe), kernel \in Seq(Req), Submit(q), fd' = fd,
         \A k \in 1..Len(q) : q[k].fd = fd, \A k \in 1..Len(kernel) : kernel[k].fd = fd
  PROVE  SameFile(fd)'
<1>1. /\ \A k \in 1..Len(sq') : \E j \in 1..Len(q) : sq'[k] = q[j]
      /\ \A k \in 1..Len(kernel') :
           \/ \E j \in 1..Len(kernel) : kernel'[k] = kernel[j]
           \/ \E j \in 1..Len(q) : kernel'[k].b = q[j].b /\ kernel'[k].fd = q[j].fd
  BY SubmitFacts, Zenon
<1>2. /\ \A k \in 1..Len(q) : q[k].fd = fd
      /\ \A k \in 1..Len(kernel) : kernel[k].fd = fd /\ fd' = fd
  BY Zenon
<1>3. \A k \in 1..Len(sq') : sq'[k].fd = fd
  BY ONLY <1>1, <1>2, SMTT(30)
<1>4. \A k \in 1..Len(kernel') : kernel'[k].fd = fd
  BY ONLY <1>1, <1>2, SMTT(30)
<1>5. fd' = fd
  BY Zenon
<1> QED BY ONLY <1>3, <1>4, <1>5, Zenon DEF SameFile

\* A new file starts without bytes, and at reopen nothing is pending.
LEMMA InitPlaceInv == Init => PlaceInv
<1> SUFFICES ASSUME Init PROVE PlaceInv
  BY Zenon
<1>1. Len(<<>>) = 0 /\ 1..0 = {}
  OBVIOUS
<1>2. sq = <<>> /\ kernel = <<>> /\ cq = <<>> /\ held = None /\ opc = "idle"
  BY Zenon DEF Init
<1>3. \A f \in 1..(MaxReopens + 1) : files[f] = <<>>
  BY Zenon DEF Init
<1>4. fd \in 1..(MaxReopens + 1) /\ DOMAIN files = 1..(MaxReopens + 1)
  BY StorageAssumption DEF Init
<1>5. PendingInPlace /\ SameFile(fd)
  BY <1>1, <1>2, Zenon DEF PendingInPlace, SameFile, Queued, BufsOf
<1>6. HeldInPlace /\ NewIsNext
  BY <1>2, Zenon DEF HeldInPlace, NewIsNext
<1>7. FileInPlace /\ LaterEmpty /\ BytesInPlace
  BY <1>1, <1>3, <1>4, Zenon DEF FileInPlace, LaterEmpty, BytesInPlace
<1> QED BY <1>5, <1>6, <1>7, Zenon DEF PlaceInv

\* Calls that change neither buffers nor files.
LEMMA CallPlaceInv ==
  ASSUME Rotated \subseteq {TRUE}, QInv, PlaceInv,
         \/ allocate_buffer \/ SyncReturn \/ flush \/ sync
         \/ \E r \in Rotated : reopen(r)
  PROVE  PlaceInv'
<1>1. CASE allocate_buffer \/ SyncReturn
  <2>1. /\ UNCHANGED <<buf, logged, offset, files, fd, held>>
        /\ UNCHANGED <<sq, kernel, cq>> /\ opc' # "replace_fd"
    BY <1>1, Zenon DEF allocate_buffer, SyncReturn, queueVars, fileVars, boundVars
  <2>2. (Queued \cup BufsOf(cq))' = Queued \cup BufsOf(cq) /\ SameFile(fd)' /\ NewIsNext'
    BY <2>1, Zenon DEF PlaceInv, Queued, BufsOf, SameFile, NewIsNext
  <2> QED BY <2>1, <2>2, PlaceKept, Zenon
<1>2. CASE flush \/ sync \/ \E r \in Rotated : reopen(r)
  <2>1. Flush /\ NewIsNext'
    <3>1. CASE flush \/ sync
      BY <3>1, Zenon DEF flush, sync, NewIsNext
    <3>2. CASE \E r \in Rotated : reopen(r)
      <4>1. reopen(TRUE)
        BY <3>2, Zenon
      <4>2. newfd' = [file |-> fd + 1, at |-> 0] /\ fd' = fd /\ Flush
        BY <4>1, Zenon DEF reopen, Flush
      <4> QED BY <4>2, Zenon DEF NewIsNext
    <3> QED BY <1>2, <3>1, <3>2, Zenon
  <2>2. UNCHANGED <<buf, logged, offset, files, fd, held>> /\ cq' = cq
    BY <2>1, Zenon DEF Flush
  <2>3. sq \in Seq(Sqe) /\ kernel \in Seq(Req) /\ Submit(sq)
    BY <2>1, Zenon DEF QInv, TypeOK, Flush
  <2>4. BufsOf(sq') \cup BufsOf(kernel') = BufsOf(sq) \cup BufsOf(kernel)
    BY ONLY <2>3, SubmitFacts, Zenon
  <2>5. (Queued \cup BufsOf(cq))' = Queued \cup BufsOf(cq)
    <3>1. BufsOf(cq)' = BufsOf(cq)
      BY <2>2, Zenon DEF BufsOf
    <3> QED BY ONLY <2>4, <3>1, Zenon DEF Queued
  <2>6. SameFile(fd)'
    <3>1. SameFile(fd)
      BY Zenon DEF PlaceInv
    <3>2. /\ \A k \in 1..Len(sq) : sq[k].fd = fd
          /\ \A k \in 1..Len(kernel) : kernel[k].fd = fd
      BY ONLY <3>1, Zenon DEF SameFile
    <3>3. fd' = fd
      BY <2>2, Zenon
    <3> QED BY ONLY <2>3, <3>2, <3>3, SubmitSameFile, Zenon
  <2> QED BY <2>1, <2>2, <2>5, <2>6, PlaceKept, Zenon
<1> QED BY <1>1, <1>2, Zenon

\* A buffer popped from the free list takes the current offset.
LEMMA PopPlaceInv ==
  ASSUME QInv, Disjoint, PlaceInv, PopFree
  PROVE  PlaceInv'
<1> DEFINE h == Head(free_list)
<1>1. h \in Buffers /\ h \in Elems(free_list)
  <2>1. free_list \in Seq(Buffers) /\ free_list # <<>>
    BY Zenon DEF QInv, TypeOK, PopFree
  <2>2. h = free_list[1] /\ 1 \in 1..Len(free_list) /\ h \in Buffers
    BY ONLY <2>1
  <2> QED BY ONLY <2>2, Zenon DEF Elems
<1>2. /\ UNCHANGED <<logged, offset, files, fd, sq, kernel, cq, newfd>> /\ held' = h
      /\ opc' # "replace_fd" /\ buf' = [buf EXCEPT ![h] = Allocated(h)]
  BY Zenon DEF PopFree, queueVars, fileVars, boundVars
<1>3. buf \in [Buffers -> Buf]
  BY Zenon DEF QInv, TypeOK
<1> HIDE DEF h
<1>4. \A b \in Queued \cup BufsOf(cq) : buf'[b] = buf[b] /\ b \in Buffers
  <2>1. Queued \cup BufsOf(cq) \subseteq Buffers
    BY Zenon DEF QInv, AllPlaced, Queued
  <2>2. h \notin Queued \cup BufsOf(cq)
    BY <1>1, Zenon DEF Disjoint, Queued
  <2> QED BY ONLY <1>2, <1>3, <2>1, <2>2, Zenon
<1>5. (Queued \cup BufsOf(cq))' = Queued \cup BufsOf(cq)
  BY <1>2, Zenon DEF Queued, BufsOf
<1>6. PendingInPlace'
  BY <1>2, <1>4, <1>5, Zenon DEF PlaceInv, PendingInPlace, InPlace
<1>7. SameFile(fd)' /\ FileInPlace' /\ LaterEmpty' /\ BytesInPlace' /\ NewIsNext'
  BY <1>2, SMTT(30) DEF PlaceInv, SameFile, FileInPlace, LaterEmpty, BytesInPlace, NewIsNext
<1>8. HeldInPlace'
  <2>1. buf'[h] = Allocated(h)
    BY ONLY <1>1, <1>2, <1>3, Zenon
  <2> QED BY ONLY <1>2, <2>1 DEF HeldInPlace, Allocated
<1> QED BY <1>6, <1>7, <1>8, Zenon DEF PlaceInv

\* submit_buffer writes its buffer at the offset it was allocated with.
LEMMA SubmitPlaceInv ==
  ASSUME QInv, Disjoint, PlaceInv, NEW n \in Nat, submit_buffer(n)
  PROVE  PlaceInv'
<1> DEFINE e == Prepared(held, batch_index % batch_size = 0)
           q == Append(sq, e)
<1>1. held \in Buffers /\ held # None /\ held' = None
  BY Zenon DEF QInv, TypeOK, submit_buffer
<1>2. e \in Sqe /\ e.b = held /\ e.fd = fd
  <2>1. fd \in Int
    BY DEF QInv, TypeOK
  <2> QED BY <1>1, <2>1, Zenon DEF QInv, TypeOK, Prepared, Sqe
<1>3. sq \in Seq(Sqe) /\ kernel \in Seq(Req) /\ Len(sq) \in Nat
  BY DEF QInv, TypeOK
<1>4. (BatchFull /\ Submit(q)) \/ (sq' = q /\ kernel' = kernel)
  BY Zenon DEF submit_buffer
<1> HIDE DEF e
<1>5. /\ q \in Seq(Sqe) /\ BufsOf(q) = BufsOf(sq) \cup {held} /\ Len(q) = Len(sq) + 1
      /\ \A k \in 1..Len(sq) : q[k] = sq[k]
      /\ q[Len(sq) + 1] = e
  BY ONLY <1>2, <1>3, AppendBufs
<1> HIDE DEF q
<1>6. \A k \in 1..Len(q) : q[k].fd = fd
  <2>1. \A k \in 1..Len(sq) : sq[k].fd = fd
    BY Zenon DEF PlaceInv, SameFile
  <2>2. \A k \in 1..Len(q) : k \in 1..Len(sq) \/ k = Len(sq) + 1
    BY ONLY <1>3, <1>5
  <2> QED BY ONLY <1>2, <1>5, <2>1, <2>2, Zenon
<1>7. /\ cq' = cq /\ offset' = offset + n /\ logged' = logged + n /\ opc' # "replace_fd"
      /\ files' = files /\ fd' = fd
  BY Zenon DEF submit_buffer, fileVars
<1>8. SameFile(fd)'
  <2>1. \A k \in 1..Len(kernel) : kernel[k].fd = fd
    BY Zenon DEF PlaceInv, SameFile
  <2>2. fd' = fd
    BY <1>7, Zenon
  <2>3. CASE Submit(q)
    BY ONLY <1>3, <1>5, <1>6, <2>1, <2>2, <2>3, SubmitSameFile, Zenon
  <2>4. CASE sq' = q /\ kernel' = kernel
    BY ONLY <1>6, <2>1, <2>2, <2>4, Zenon DEF SameFile
  <2> QED BY <1>4, <2>3, <2>4, Zenon
<1>9. (Queued \cup BufsOf(cq))' = Queued \cup BufsOf(cq) \cup {held}
  <2>1. BufsOf(sq') \cup BufsOf(kernel') = BufsOf(q) \cup BufsOf(kernel)
    <3>1. CASE Submit(q)
      BY ONLY <1>3, <1>5, <3>1, SubmitFacts, Zenon
    <3>2. CASE sq' = q /\ kernel' = kernel
      BY ONLY <3>2, Zenon
    <3> QED BY <1>4, <3>1, <3>2, Zenon
  <2>2. BufsOf(cq)' = BufsOf(cq)
    BY <1>7, Zenon DEF BufsOf
  <2> QED BY ONLY <1>5, <2>1, <2>2, Zenon DEF Queued
<1>10. /\ buf'[held].data = logged /\ buf'[held].offset = buf[held].offset
       /\ buf'[held].file_offset = buf[held].file_offset /\ buf'[held].size = n
       /\ \A b \in Buffers : b # held => buf'[b] = buf[b]
  <2>1. buf \in [Buffers -> Buf] /\ buf[held] \in Buf /\ logged \in Nat
    BY <1>1, Zenon DEF QInv, TypeOK
  <2> DEFINE x == [buf[held] EXCEPT !.size = n, !.data = logged]
  <2>2. buf' = [buf EXCEPT ![held] = x]
    BY <1>1, <2>1, Zenon DEF submit_buffer
  <2>3. /\ x.data = logged /\ x.offset = buf[held].offset
        /\ x.file_offset = buf[held].file_offset /\ x.size = n
    BY ONLY <2>1, Zenon DEF Buf
  <2> HIDE DEF x
  <2> QED BY ONLY <1>1, <2>1, <2>2, <2>3, Zenon
<1>11. offset \in Nat /\ logged \in Nat /\ logged' - offset' = logged - offset
  <2>1. offset \in Nat /\ logged \in Nat
    BY Zenon DEF QInv, TypeOK
  <2> QED BY ONLY <1>7, <2>1
<1>12. PendingInPlace'
  <2>1. Queued \cup BufsOf(cq) \subseteq Buffers /\ held \notin Queued \cup BufsOf(cq)
    BY Zenon DEF QInv, AllPlaced, Disjoint, Queued
  <2>2. ASSUME NEW b \in Queued \cup BufsOf(cq) PROVE InPlace(b)'
    <3>1. buf'[b] = buf[b]
      BY <1>10, <2>1, Zenon
    <3>2. InPlace(b)
      BY Zenon DEF PlaceInv, PendingInPlace
    <3> QED BY ONLY <1>11, <3>1, <3>2, Zenon DEF InPlace
  <2>3. InPlace(held)
        <=> buf[held].data + buf[held].offset - buf[held].file_offset = logged - offset
    BY Zenon DEF InPlace
  <2>4. buf'[held].data + buf'[held].offset - buf'[held].file_offset = logged' - offset'
    <3>1. buf[held].offset = 0 /\ buf[held].file_offset = offset
      BY <1>1, Zenon DEF PlaceInv, HeldInPlace
    <3> QED BY ONLY <1>10, <1>11, <3>1
  <2> QED BY <1>9, <2>2, <2>4, Zenon DEF PendingInPlace, InPlace
<1>13. HeldInPlace' /\ NewIsNext' /\ LaterEmpty' /\ BytesInPlace'
  <2>1. HeldInPlace'
    BY <1>1, <1>7, Zenon DEF HeldInPlace
  <2>2. NewIsNext'
    BY <1>7, Zenon DEF NewIsNext
  <2>3. LaterEmpty /\ BytesInPlace /\ files' = files /\ fd' = fd
    BY <1>7, Zenon DEF PlaceInv
  <2>4. LaterEmpty' /\ BytesInPlace'
    BY ONLY <2>3 DEF LaterEmpty, BytesInPlace
  <2> QED BY ONLY <2>1, <2>2, <2>4, Zenon
<1>14. FileInPlace'
  BY <1>7, <1>11, Zenon DEF PlaceInv, FileInPlace
<1> QED BY <1>8, <1>12, <1>13, <1>14, Zenon DEF PlaceInv

\* replace_fd: nothing is pending, and the next file is empty.
LEMMA ReplacePlaceInv ==
  ASSUME QInv, PlaceInv, replace_fd
  PROVE  PlaceInv'
<1>1. pending_cqe_count = 0 /\ opc = "replace_fd" /\ opc' = "idle" /\ held' = held /\ held = None
  BY Zenon DEF replace_fd, Drained, QInv, NoBufferHeld
<1>2. fd' = fd + 1 /\ offset' = 0 /\ files' = files /\ logged' = logged
      /\ sq' = sq /\ kernel' = kernel /\ cq' = cq
  BY <1>1, Zenon DEF replace_fd, set_offset, PlaceInv, NewIsNext, queueVars, boundVars
<1>3. Len(sq) = 0 /\ Len(kernel) = 0 /\ Len(cq) = 0
  <2>1. Len(sq) \in Nat /\ Len(kernel) \in Nat /\ Len(cq) \in Nat /\ PendingExact
    BY DEF QInv, TypeOK
  <2> QED BY ONLY <1>1, <2>1 DEF PendingExact
<1>4. PendingInPlace' /\ SameFile(fd)'
  BY <1>2, <1>3 DEF PendingInPlace, SameFile, Queued, BufsOf
<1>5. HeldInPlace' /\ NewIsNext' /\ BytesInPlace'
  BY <1>1, <1>2 DEF PlaceInv, HeldInPlace, NewIsNext, BytesInPlace
<1>6. fd \in Int /\ fd + 1 \in 1..(MaxReopens + 1)
  <2>1. newfd \in [file : 1..(reopens + 1), at : Nat] /\ reopens \in 0..MaxReopens
        /\ fd \in 1..(reopens + 1) /\ newfd.file = fd + 1
    BY <1>1, Zenon DEF QInv, TypeOK, PlaceInv, NewIsNext
  <2>2. newfd.file \in 1..(reopens + 1)
    BY ONLY <2>1, Zenon
  <2>3. newfd.file \in 1..(MaxReopens + 1)
    BY ONLY <2>1, <2>2, StorageAssumption
  <2> QED BY ONLY <2>1, <2>3
<1>7. files[fd + 1] = <<>>
  BY <1>6 DEF PlaceInv, LaterEmpty
<1>8. FileInPlace'
  <2>1. Len(<<>>) = 0
    BY Zenon
  <2> QED BY ONLY <1>2, <1>7, <2>1 DEF FileInPlace
<1>9. LaterEmpty'
  <2>1. LaterEmpty
    BY Zenon DEF PlaceInv
  <2> QED BY ONLY <1>2, <1>6, <2>1 DEF LaterEmpty
<1> QED BY <1>4, <1>5, <1>8, <1>9, Zenon DEF PlaceInv

\* resubmit_buffer moves buffer, byte and file offset together.
LEMMA WaitPlaceInv ==
  ASSUME QInv, PlaceInv, wait_for_one_cqe
  PROVE  PlaceInv'
<1> DEFINE b == Head(cq).b
           n == Head(cq).res
           e == [b |-> b, fd |-> fd, drain |-> FALSE, link |-> FALSE]
           q == Append(sq, e)
<1>1. cq \in Seq(Cqe) /\ cq # <<>> /\ cq' = Tail(cq)
  BY Zenon DEF QInv, TypeOK, wait_for_one_cqe
<1>2. Head(cq) \in Cqe /\ BufsOf(cq) = BufsOf(cq') \cup {b}
  BY ONLY <1>1, TailBufs, Zenon
<1>3. b \in Buffers /\ n \in Nat \cup {-1}
  BY <1>2, Members, Zenon
<1>4. /\ UNCHANGED <<opc, held, offset, logged, files, fd, newfd>> /\ held = None
  BY Zenon DEF QInv, NoBufferHeld, wait_for_one_cqe, Waiting, fileVars
<1>5. \/ buf' = buf /\ sq' = sq /\ kernel' = kernel
      \/ n # -1 /\ buf' = [buf EXCEPT ![b] = Advanced(b, n)] /\ Submit(q)
  BY Zenon DEF wait_for_one_cqe, resubmit_buffer
<1>6. /\ sq \in Seq(Sqe) /\ kernel \in Seq(Req) /\ Len(sq) \in Nat /\ buf \in [Buffers -> Buf]
      /\ fd \in Int
  BY DEF QInv, TypeOK
<1>7. NewIsNext'
  BY <1>4, Zenon DEF PlaceInv, NewIsNext
<1> HIDE DEF n
<1>8. CASE buf' = buf /\ sq' = sq /\ kernel' = kernel
  <2>1. (Queued \cup BufsOf(cq))' \subseteq Queued \cup BufsOf(cq)
    BY <1>2, <1>8, Zenon DEF Queued, BufsOf
  <2>2. SameFile(fd)'
    BY <1>4, <1>8, Zenon DEF PlaceInv, SameFile
  <2>3. UNCHANGED <<buf, logged, offset, files, fd, held>>
    BY <1>4, <1>8, Zenon
  <2> QED BY <1>7, <2>1, <2>2, <2>3, PlaceKept, Zenon
<1>9. CASE n # -1 /\ buf' = [buf EXCEPT ![b] = Advanced(b, n)] /\ Submit(q)
  <2>1. e \in Sqe /\ e.b = b /\ e.fd = fd
    BY <1>3, <1>6, Zenon DEF Sqe
  <2> HIDE DEF b, e
  <2>2. /\ q \in Seq(Sqe) /\ BufsOf(q) = BufsOf(sq) \cup {b} /\ Len(q) = Len(sq) + 1
        /\ \A k \in 1..Len(sq) : q[k] = sq[k]
        /\ q[Len(sq) + 1] = e
    <3>1. sq \in Seq(Sqe)
      BY <1>6, Zenon
    <3> QED BY ONLY <2>1, <3>1, AppendBufs
  <2> HIDE DEF q
  <2>3. \A k \in 1..Len(q) : q[k].fd = fd
    <3>1. \A k \in 1..Len(sq) : sq[k].fd = fd
      BY Zenon DEF PlaceInv, SameFile
    <3>2. \A k \in 1..Len(q) : k \in 1..Len(sq) \/ k = Len(sq) + 1
      BY ONLY <1>6, <2>2
    <3> QED BY ONLY <2>1, <2>2, <3>1, <3>2, Zenon
  <2>4. SameFile(fd)'
    <3>1. \A k \in 1..Len(kernel) : kernel[k].fd = fd
      BY Zenon DEF PlaceInv, SameFile
    <3>2. fd' = fd /\ Submit(q) /\ q \in Seq(Sqe) /\ kernel \in Seq(Req)
      BY <1>4, <1>6, <1>9, <2>2, Zenon
    <3> QED BY ONLY <2>3, <3>1, <3>2, SubmitSameFile, Zenon
  <2>5. (Queued \cup BufsOf(cq))' \subseteq Queued \cup BufsOf(cq)
    <3>1. Submit(q) /\ q \in Seq(Sqe) /\ kernel \in Seq(Req)
      BY <1>6, <1>9, <2>2, Zenon
    <3>2. BufsOf(sq') \cup BufsOf(kernel') = BufsOf(q) \cup BufsOf(kernel)
      BY ONLY <3>1, SubmitFacts, Zenon
    <3>3. BufsOf(cq) = BufsOf(cq') \cup {b} /\ BufsOf(q) = BufsOf(sq) \cup {b}
      BY <1>2, <2>2, Zenon DEF b
    <3> QED BY ONLY <3>2, <3>3, Zenon DEF Queued
  <2>6. /\ \A c \in Buffers : c # b => buf'[c] = buf[c]
        /\ buf'[b].data = buf[b].data /\ buf'[b].offset = buf[b].offset + n
        /\ buf'[b].file_offset = buf[b].file_offset + n
    <3>1. buf[b] \in Buf /\ n \in Nat /\ b \in Buffers
      BY <1>3, <1>6, <1>9, Zenon DEF b
    <3>2. /\ Advanced(b, n).data = buf[b].data /\ Advanced(b, n).offset = buf[b].offset + n
          /\ Advanced(b, n).file_offset = buf[b].file_offset + n
      BY ONLY <3>1, AdvancedBuf, Zenon
    <3>3. b \in Buffers
      BY <1>3, Zenon DEF b
    <3> QED BY ONLY <1>6, <1>9, <3>2, <3>3, Zenon
  <2>7. PendingInPlace'
    <3> SUFFICES ASSUME NEW c \in Queued \cup BufsOf(cq) PROVE InPlace(c)'
      BY <2>5, Zenon DEF PendingInPlace
    <3>1. InPlace(c) /\ c \in Buffers
      BY Zenon DEF PlaceInv, PendingInPlace, QInv, AllPlaced, Queued
    <3>2. offset' = offset /\ logged' = logged
      BY <1>4, Zenon
    <3>3. CASE c = b
      <4>1. /\ buf[b].data \in Nat /\ buf[b].offset \in Nat /\ buf[b].file_offset \in Nat
            /\ n \in Nat
        BY <1>6, <1>9, <1>3, <3>1, <3>3, Zenon DEF Buf
      <4> QED BY ONLY <2>6, <3>1, <3>2, <3>3, <4>1 DEF InPlace
    <3>4. CASE c # b
      BY ONLY <2>6, <3>1, <3>2, <3>4, Zenon DEF InPlace
    <3> QED BY <3>3, <3>4, Zenon
  <2>8. HeldInPlace' /\ FileInPlace' /\ LaterEmpty' /\ BytesInPlace'
    BY <1>4, SMTT(30) DEF PlaceInv, HeldInPlace, FileInPlace, LaterEmpty, BytesInPlace
  <2> QED BY <1>7, <2>4, <2>7, <2>8, Zenon DEF PlaceInv
<1> QED BY <1>5, <1>8, <1>9, Zenon

\* A write puts its bytes where they belong and moves no other.
LEMMA CompletePlaceInv ==
  ASSUME QInv, PlaceInv, NEW k \in 1..Len(kernel), NEW n \in {-1} \cup Nat, Complete(k, n)
  PROVE  PlaceInv'
<1> DEFINE b == kernel[k].b
<1>1. /\ b \in Buffers
      /\ BufsOf(kernel) = BufsOf(kernel') \cup {b}
      /\ \A j \in 1..Len(kernel') : \E i \in 1..Len(kernel) : 
           kernel'[j].b = kernel[i].b /\ kernel'[j].fd = kernel[i].fd
  BY CompleteFacts, Zenon
<1>2. /\ cq' = Append(cq, [b |-> b, res |-> n]) /\ sq' = sq
      /\ UNCHANGED <<opc, held, buf, offset, logged, fd, newfd>>
  BY Zenon DEF Complete
<1>3. SameFile(fd)'
  <2>1. SameFile(fd)
    BY Zenon DEF PlaceInv
  <2> QED BY ONLY <1>1, <1>2, <2>1, Zenon DEF SameFile
<1>4. InPlace(b)
  <2>1. b \in BufsOf(kernel)
    BY <1>1, Zenon
  <2> QED BY <2>1, Zenon DEF PlaceInv, PendingInPlace, Queued
<1>5. (Queued \cup BufsOf(cq))' \subseteq Queued \cup BufsOf(cq)
  <2>1. cq \in Seq(Cqe) /\ [b |-> b, res |-> n] \in Cqe
    BY <1>1, Zenon DEF QInv, TypeOK, Cqe
  <2>2. BufsOf(cq') = BufsOf(cq) \cup {b}
    <3> DEFINE e == [b |-> b, res |-> n]
    <3>1. cq' = Append(cq, e) /\ e \in Cqe /\ e.b = b
      BY <1>2, <2>1, Zenon
    <3> HIDE DEF e
    <3> QED BY ONLY <2>1, <3>1, AppendBufs
  <2>3. BufsOf(sq') = BufsOf(sq)
    BY <1>2, Zenon
  <2> QED BY <1>1, <2>2, <2>3, Zenon DEF Queued
<1>6. PendingInPlace'
  BY <1>2, <1>5, Zenon DEF PlaceInv, PendingInPlace, InPlace
<1>7. HeldInPlace' /\ NewIsNext'
  BY <1>2, Zenon DEF PlaceInv, HeldInPlace, NewIsNext
<1>8. CASE n = -1
  <2>1. files' = files
    BY <1>8, Zenon DEF Complete
  <2>2. FileInPlace' /\ LaterEmpty' /\ BytesInPlace'
    BY <1>2, <2>1, SMTT(30) DEF PlaceInv, FileInPlace, LaterEmpty, BytesInPlace
  <2> QED BY <1>3, <1>6, <1>7, <2>2, Zenon DEF PlaceInv
<1>9. CASE n \in Nat
  <2>0. n # -1
    BY <1>9
  <2>1. kernel[k].fd = fd
    BY Zenon DEF PlaceInv, SameFile
  <2>2. files' = [files EXCEPT ![fd] = Written(files[fd], b, n)]
    BY <2>0, <2>1, Zenon DEF Complete
  <2>3. files \in [1..(MaxReopens + 1) -> Seq(Nat)] /\ fd \in 1..(MaxReopens + 1) /\ fd \in Int
    BY StorageAssumption, SMTT(30) DEF QInv, TypeOK
  <2>4. files[fd] \in Seq(Nat) /\ TypeOK
    BY <2>3, Zenon DEF QInv
  <2> DEFINE w == Written(files[fd], b, n)
             from == buf[b].file_offset
  <2>5. /\ w \in Seq(Nat)
        /\ \A o \in 1..Len(w) :
             w[o] = IF o \in (from + 1)..(from + n) THEN buf[b].data + buf[b].offset + (o - from)
                    ELSE IF o <= Len(files[fd]) THEN files[fd][o] ELSE 0
    <3>1. w = Written(files[fd], b, n)
      BY Zenon
    <3> HIDE DEF w
    <3>2. IsWritten(w, files[fd], b, n)
      BY ONLY <1>1, <1>9, <2>4, <3>1, WrittenFacts, Zenon
    <3> QED BY ONLY <3>2, Zenon DEF IsWritten
  <2>6. from \in Nat /\ buf[b].data \in Nat /\ buf[b].offset \in Nat
        /\ offset \in Nat /\ logged \in Nat
    BY <1>1, Zenon DEF QInv, TypeOK, Buf
  <2> HIDE DEF w
  <2>7. files'[fd] = w /\ \A f \in 1..(MaxReopens + 1) : f # fd => files'[f] = files[f]
    BY <2>2, <2>3, Zenon DEF w
  <2>8. ASSUME NEW o \in 1..Len(w), w[o] # 0 PROVE w[o] - o = logged - offset
    <3>1. CASE o \in (from + 1)..(from + n)
      <4>1. w[o] = buf[b].data + buf[b].offset + (o - from)
        BY ONLY <2>5, <3>1, Zenon
      <4>2. buf[b].data + buf[b].offset - from = logged - offset
        BY <1>4, Zenon DEF InPlace
      <4>3. o \in Int
        OBVIOUS
      <4>0. buf[b].data \in Int /\ buf[b].offset \in Int /\ from \in Int
            /\ logged \in Int /\ offset \in Int
        BY ONLY <2>6, SMTT(30)
      <4>4. PICK d \in Int, a \in Int, g \in Int, l \in Int, s \in Int :
              d = buf[b].data /\ a = buf[b].offset /\ g = from /\ l = logged /\ s = offset
        BY ONLY <4>0, Zenon
      <4>5. w[o] = d + a + (o - g) /\ d + a - g = l - s
        BY ONLY <4>1, <4>2, <4>4, Zenon
      <4>6. (d + a + (o - g)) - o = l - s
        BY ONLY <4>3, <4>5, d \in Int, a \in Int, g \in Int, l \in Int, s \in Int
      <4>7. w[o] - o = l - s
        BY ONLY <4>5, <4>6, Zenon
      <4> QED BY ONLY <4>4, <4>7, Zenon
    <3>2. CASE o \notin (from + 1)..(from + n)
      <4>1. o <= Len(files[fd]) /\ w[o] = files[fd][o]
        BY ONLY <2>5, <2>8, <3>2, Zenon
      <4>2. o \in 1..Len(files[fd])
        BY ONLY <2>4, <4>1
      <4>3. FileInPlace
        BY Zenon DEF PlaceInv
      <4> QED BY ONLY <2>8, <4>1, <4>2, <4>3 DEF FileInPlace
    <3> QED BY <3>1, <3>2, Zenon
  <2>9. FileInPlace'
    <3>1. fd' = fd /\ logged' = logged /\ offset' = offset
      BY <1>2, Zenon
    <3> QED BY ONLY <2>7, <2>8, <3>1, Zenon DEF FileInPlace
  <2>10. LaterEmpty'
    <3>1. fd' = fd /\ LaterEmpty
      BY <1>2, Zenon DEF PlaceInv
    <3> QED BY ONLY <2>3, <2>7, <3>1 DEF LaterEmpty
  <2>11. BytesInPlace'
    <3>1. DOMAIN files' = DOMAIN files /\ DOMAIN files = 1..(MaxReopens + 1)
      BY ONLY <2>2, <2>3, Zenon
    <3> SUFFICES ASSUME NEW f \in 1..(MaxReopens + 1),
                        NEW o \in 1..Len(files'[f]), NEW p \in 1..Len(files'[f]),
                        files'[f][o] # 0, files'[f][p] # 0
                 PROVE  files'[f][p] - files'[f][o] = p - o
      BY <3>1, Zenon DEF BytesInPlace
    <3>2. CASE f = fd
      <4>0. o \in 1..Len(w) /\ p \in 1..Len(w) /\ w[o] # 0 /\ w[p] # 0
        BY <2>7, <3>2, Zenon
      <4>1. w[o] - o = logged - offset /\ w[p] - p = logged - offset
        BY <2>8, <4>0, Zenon
      <4>2. w[o] \in Nat /\ w[p] \in Nat /\ o \in Int /\ p \in Int
        BY <2>5, <2>7, <3>2, SMTT(30)
      <4>3. w[p] - w[o] = p - o
        <5>1. logged - offset \in Int
          BY <2>6
        <5>2. PICK v \in Int, x \in Int, d \in Int : v = w[o] /\ x = w[p] /\ d = logged - offset
          BY <4>2, <5>1, SMTT(30)
        <5>3. v - o = d /\ x - p = d
          BY ONLY <4>1, <5>2, Zenon
        <5>4. x - v = p - o
          BY ONLY <4>2, <5>3, v \in Int, x \in Int, d \in Int
        <5> QED BY ONLY <5>2, <5>4, Zenon
      <4> QED BY <2>7, <3>2, <4>3, Zenon
    <3>3. CASE f # fd
      <4>1. files'[f] = files[f]
        BY <2>7, <3>3, Zenon
      <4> QED BY <3>1, <4>1, SMTT(30) DEF PlaceInv, BytesInPlace
    <3> QED BY <3>2, <3>3, Zenon
  <2> QED BY <1>3, <1>6, <1>7, <2>9, <2>10, <2>11, Zenon DEF PlaceInv
<1> QED BY <1>8, <1>9, Zenon

\* Places of bytes are inductive, given the accounting of buffers.
LEMMA NextPlaceInv ==
  ASSUME Rotated \subseteq {TRUE}
  PROVE  QInv /\ Disjoint /\ PlaceInv /\ [Next]_vars => PlaceInv'
<1> SUFFICES ASSUME QInv, Disjoint, PlaceInv, [Next]_vars PROVE PlaceInv'
  BY Zenon
<1>1. CASE Storage
  <2>1. CASE \/ allocate_buffer \/ SyncReturn \/ flush \/ sync
             \/ \E r \in Rotated : reopen(r)
    BY <2>1, CallPlaceInv, Zenon
  <2>2. CASE replace_fd
    BY <2>2, ReplacePlaceInv, Zenon
  <2>3. CASE PopFree
    BY <2>3, PopPlaceInv, Zenon
  <2>4. CASE wait_for_one_cqe
    BY <2>4, WaitPlaceInv, Zenon
  <2>5. ASSUME NEW n \in 1..buffer_capacity, submit_buffer(n) PROVE PlaceInv'
    <3>1. n \in Nat
      BY StorageAssumption
    <3> QED BY <2>5, <3>1, SubmitPlaceInv, Zenon
  <2> QED BY <1>1, <2>1, <2>2, <2>3, <2>4, <2>5, Zenon DEF Storage
<1>2. CASE Kernel
  <2>0. PICK k \in 1..Len(kernel) :
          \E n \in {-1} \cup 0..buf[kernel[k].b].size : Complete(k, n)
    BY <1>2, Zenon DEF Kernel
  <2>1. PICK n \in {-1} \cup 0..buf[kernel[k].b].size : Complete(k, n)
    BY <2>0, Zenon
  <2>2. n \in {-1} \cup Nat
    <3>1. kernel[k].b \in Buffers
      BY <2>1, CompleteFacts, Zenon
    <3>2. buf[kernel[k].b].size \in Int
      BY <3>1, Zenon DEF QInv, TypeOK, Buf
    <3> QED BY <3>2
  <2> QED BY <2>1, <2>2, CompletePlaceInv, Zenon
<1>3. CASE UNCHANGED vars
  <2>1. UNCHANGED <<opc, newfd, held, buf, offset, files, fd, logged, sq, kernel, cq>>
    BY <1>3, Zenon DEF vars, queueVars, fileVars, boundVars
  <2>2. (Queued \cup BufsOf(cq))' = Queued \cup BufsOf(cq)
    BY <2>1, Zenon DEF Queued, BufsOf
  <2>3. SameFile(fd)' /\ NewIsNext'
    BY <2>1, Zenon DEF PlaceInv, SameFile, NewIsNext
  <2> QED BY <2>1, <2>2, <2>3, PlaceKept, Zenon
<1> QED BY <1>1, <1>2, <1>3, Zenon DEF Next

\* If the path names a new file whenever reopen is called, every byte of every
\* file is at its distance from the others, whatever was short, refused, failed
\* or resubmitted, and in whatever order the kernel completed the writes.
THEOREM BytesLandInPlace == ASSUME Rotated \subseteq {TRUE} PROVE Spec => []BytesInPlace
<1>1. QInv /\ Disjoint /\ PlaceInv /\ [Next]_vars => PlaceInv'
  BY NextPlaceInv, Zenon
<1>2. PlaceInv => BytesInPlace
  BY Zenon DEF PlaceInv
<1> QED BY <1>1, <1>2, InitPlaceInv, QueueInvariance, PTL DEF Spec

-----------------------------------------------------------------------------
(* Bytes logged and bytes written. *)

\* A step in which some bytes M of one buffer are written, or given up.
LEMMA WrittenStep ==
  ASSUME WrittenInv, logged' = logged, NEW b \in Buffers, NEW M \in SUBSET Int,
         \A x \in M : Todo(b, x),
         \A c \in Buffers : \A x \in Int :
           Todo(c, x)' <=> Todo(c, x) /\ ~(c = b /\ x \in M),
         \/ InFiles' = InFiles /\ failed' = failed \cup M
         \/ InFiles' = InFiles \cup M /\ failed' = failed
  PROVE  WrittenInv'
<1>1. \A x \in 1..logged : x \in Int
  BY DEF WrittenInv
<1>2. M \subseteq 1..logged /\ M \cap InFiles = {} /\ M \cap failed = {}
  BY Zenon DEF WrittenInv
<1>3. \A x \in 1..logged : x \in InFiles' \/ x \in failed' \/ \E c \in Buffers : Todo(c, x)'
  BY <1>1, Zenon DEF WrittenInv
<1>4. \A c \in Buffers : \A x \in Int :
        Todo(c, x)' => x \in 1..logged /\ x \notin InFiles' /\ x \notin failed'
  BY Zenon DEF WrittenInv
<1>5. \A c, d \in Buffers : \A x \in Int : Todo(c, x)' /\ Todo(d, x)' => c = d
  BY Zenon DEF WrittenInv
<1>6. \A x \in InFiles' : x \in 1..logged /\ x \notin failed'
  BY <1>2, Zenon DEF WrittenInv
<1>7. failed' \subseteq 1..logged
  BY <1>2, Zenon DEF WrittenInv
<1> QED BY ONLY <1>3, <1>4, <1>5, <1>6, <1>7, logged' = logged, Zenon DEF WrittenInv

\* A step that writes nothing and gives nothing up.
LEMMA WrittenKept ==
  ASSUME WrittenInv, logged' = logged, files' = files, failed' = failed,
         \A c \in Buffers : \A x \in Int : Todo(c, x)' <=> Todo(c, x)
  PROVE  WrittenInv'
<1>1. InFiles' = InFiles
  BY DEF InFiles
<1> QED BY <1>1 DEF WrittenInv

\* Buffers that stay where they are have as much left to write.
LEMMA TodoKept ==
  ASSUME Queued' = Queued, cq' = cq, NEW c, buf'[c] = buf[c], NEW x
  PROVE  Todo(c, x)' <=> Todo(c, x)
BY Zenon DEF Todo, Bytes, Rest

\* Calls that submit, allocate or replace the file write nothing.
LEMMA CallWrittenInv ==
  ASSUME QInv, Disjoint, WrittenInv,
         \/ allocate_buffer \/ SyncReturn \/ replace_fd \/ UNCHANGED vars
         \/ flush \/ sync \/ \E r \in Rotated : reopen(r)
  PROVE  WrittenInv'
<1>1. UNCHANGED <<buf, logged, files, cq, failed>>
  BY Zenon DEF allocate_buffer, SyncReturn, replace_fd, flush, sync, reopen, Flush, vars, queueVars,
         fileVars, boundVars
<1>2. Queued' = Queued
  <2>1. CASE allocate_buffer \/ SyncReturn \/ replace_fd \/ UNCHANGED vars
    <3>1. sq' = sq /\ kernel' = kernel
      BY <2>1, Zenon DEF allocate_buffer, SyncReturn, replace_fd, vars, queueVars
    <3> QED BY <3>1, Zenon DEF Queued, BufsOf
  <2>2. CASE flush \/ sync \/ \E r \in Rotated : reopen(r)
    <3>1. sq \in Seq(Sqe) /\ kernel \in Seq(Req) /\ Submit(sq)
      BY <2>2, Zenon DEF QInv, TypeOK, Flush, flush, sync, reopen
    <3>2. BufsOf(sq') \cup BufsOf(kernel') = BufsOf(sq) \cup BufsOf(kernel)
      BY ONLY <3>1, SubmitFacts, Zenon
    <3> QED BY ONLY <3>2, Zenon DEF Queued
  <2> QED BY <2>1, <2>2, Zenon
<1>3. \A c \in Buffers : \A x \in Int : Todo(c, x)' <=> Todo(c, x)
  <2>1. cq' = cq /\ \A c \in Buffers : buf'[c] = buf[c]
    BY <1>1, Zenon
  <2> QED BY ONLY <1>2, <2>1, TodoKept, Zenon
<1> QED BY <1>1, <1>3, WrittenKept, Zenon

\* A buffer popped from the free list has nothing left to write.
LEMMA PopWrittenInv ==
  ASSUME QInv, Disjoint, WrittenInv, PopFree
  PROVE  WrittenInv'
<1> DEFINE h == Head(free_list)
<1>1. h \in Buffers /\ h \in Elems(free_list)
  <2>1. free_list \in Seq(Buffers) /\ free_list # <<>>
    BY Zenon DEF QInv, TypeOK, PopFree
  <2>2. h = free_list[1] /\ 1 \in 1..Len(free_list) /\ h \in Buffers
    BY ONLY <2>1
  <2> QED BY ONLY <2>2, Zenon DEF Elems
<1>2. /\ UNCHANGED <<logged, files, sq, kernel, cq, failed>>
      /\ buf' = [buf EXCEPT ![h] = Allocated(h)]
  BY Zenon DEF PopFree, queueVars, fileVars, boundVars
<1>3. buf \in [Buffers -> Buf]
  BY Zenon DEF QInv, TypeOK
<1> HIDE DEF h
<1>4. Queued' = Queued /\ cq' = cq
  BY <1>2, Zenon DEF Queued, BufsOf
<1>5. ASSUME NEW c \in Buffers, NEW x \in Int PROVE Todo(c, x)' <=> Todo(c, x)
  <2>1. CASE c # h
    <3>1. buf'[c] = buf[c]
      BY ONLY <1>2, <1>3, <2>1, Zenon
    <3> QED BY ONLY <1>4, <3>1, TodoKept, Zenon
  <2>2. CASE c = h
    <3>1. c \notin Queued /\ c \notin BufsOf(cq)
      BY <1>1, <2>2, Zenon DEF Disjoint, Queued
    <3>2. ~Todo(c, x)
      BY ONLY <3>1, Zenon DEF Todo, BufsOf
    <3>3. ~Todo(c, x)'
      BY ONLY <1>4, <3>1, Zenon DEF Todo, BufsOf
    <3> QED BY <3>2, <3>3, Zenon
  <2> QED BY <2>1, <2>2, Zenon
<1> QED BY <1>2, <1>5, WrittenKept, Zenon

\* Requests that are appended and submitted are queued, in one place or another.
LEMMA SubmitQueued ==
  ASSUME NEW q \in Seq(Sqe), kernel \in Seq(Req), NEW b, BufsOf(q) = BufsOf(sq) \cup {b},
         Submit(q) \/ (sq' = q /\ kernel' = kernel)
  PROVE  Queued' = Queued \cup {b}
<1>1. CASE Submit(q)
  <2>1. BufsOf(sq') \cup BufsOf(kernel') = BufsOf(q) \cup BufsOf(kernel)
    BY <1>1, SubmitFacts, Zenon
  <2> QED BY <2>1, Zenon DEF Queued
<1>2. CASE sq' = q /\ kernel' = kernel
  BY <1>2, Zenon DEF Queued
<1> QED BY <1>1, <1>2, Zenon

\* submit_buffer has all the bytes it logs to write, and they are new.
LEMMA SubmitWrittenInv ==
  ASSUME QInv, Disjoint, PlaceInv, WrittenInv, NEW n \in Nat, submit_buffer(n)
  PROVE  WrittenInv'
<1> DEFINE e == Prepared(held, batch_index % batch_size = 0)
           q == Append(sq, e)
<1>1. PICK h \in Buffers : h = held
  BY Zenon DEF QInv, TypeOK, submit_buffer
<1>2. e \in Sqe /\ e.b = h
  <2>1. fd \in Int /\ (batch_index % batch_size = 0) \in BOOLEAN
    BY DEF QInv, TypeOK
  <2> QED BY <1>1, <2>1, Zenon DEF Prepared, Sqe
<1>3. sq \in Seq(Sqe) /\ kernel \in Seq(Req)
  BY Zenon DEF QInv, TypeOK
<1>4. Submit(q) \/ (sq' = q /\ kernel' = kernel)
  BY Zenon DEF submit_buffer
<1> HIDE DEF e
<1>5. q \in Seq(Sqe) /\ BufsOf(q) = BufsOf(sq) \cup {h}
  BY ONLY <1>2, <1>3, AppendBufs
<1> HIDE DEF q
<1>6. Queued' = Queued \cup {h}
  BY ONLY <1>3, <1>4, <1>5, SubmitQueued, Zenon
<1>7. cq' = cq /\ logged' = logged + n /\ files' = files /\ failed' = failed
  BY Zenon DEF submit_buffer, fileVars
<1>8. /\ buf'[h].data = logged /\ buf'[h].offset = 0 /\ buf'[h].size = n
      /\ \A b \in Buffers : b # h => buf'[b] = buf[b]
  <2>1. buf \in [Buffers -> Buf] /\ buf[h] \in Buf /\ logged \in Nat /\ buf[h].offset = 0
    BY <1>1, Zenon DEF QInv, TypeOK, PlaceInv, HeldInPlace, submit_buffer
  <2> DEFINE x == [buf[h] EXCEPT !.size = n, !.data = logged]
  <2>2. buf' = [buf EXCEPT ![h] = x]
    BY <1>1, <2>1, Zenon DEF submit_buffer
  <2>3. x.data = logged /\ x.offset = buf[h].offset /\ x.size = n
    BY ONLY <2>1, Zenon DEF Buf
  <2> HIDE DEF x
  <2> QED BY ONLY <1>1, <2>1, <2>2, <2>3, Zenon
<1>9. h \notin Queued /\ h \notin BufsOf(cq)
  BY <1>1, Zenon DEF Disjoint, Queued
<1>10. logged \in Nat /\ logged + n \in Nat
  BY DEF QInv, TypeOK
<1>11. ASSUME NEW x \in Int
       PROVE  ~Todo(h, x) /\ (Todo(h, x)' <=> x \in (logged + 1)..(logged + n))
  <2>1. ~Todo(h, x)
    BY ONLY <1>9, Zenon DEF Todo, BufsOf
  <2>2. Todo(h, x)' <=> x \in Bytes(h)'
    BY ONLY <1>6, <1>7, <1>9, Zenon DEF Todo, BufsOf
  <2>3. Bytes(h)' = (logged + 0 + 1)..(logged + 0 + n)
    BY ONLY <1>8, Zenon DEF Bytes
  <2>4. logged + 0 + 1 = logged + 1 /\ logged + 0 + n = logged + n
    BY ONLY <1>10
  <2> QED BY ONLY <2>1, <2>2, <2>3, <2>4, Zenon
<1>12. ASSUME NEW c \in Buffers, c # h, NEW x \in Int PROVE Todo(c, x)' <=> Todo(c, x)
  BY ONLY <1>6, <1>7, <1>8, <1>12, Zenon DEF Todo, Bytes, Rest
<1>13. InFiles' = InFiles
  BY <1>7 DEF InFiles
<1>14. /\ 1..(logged + n) = (1..logged) \cup ((logged + 1)..(logged + n))
       /\ (1..logged) \cap ((logged + 1)..(logged + n)) = {}
       /\ (logged + 1)..(logged + n) \subseteq Int
  BY ONLY <1>10
<1> DEFINE New == (logged + 1)..(logged + n)
<1> HIDE DEF New
<1>15. /\ 1..logged' = (1..logged) \cup New /\ (1..logged) \cap New = {} /\ New \subseteq Int
       /\ \A x \in Int : ~Todo(h, x) /\ (Todo(h, x)' <=> x \in New)
  BY ONLY <1>7, <1>11, <1>14, Zenon DEF New
<1>16. \A x \in 1..logged' : x \in InFiles' \/ x \in failed' \/ \E c \in Buffers : Todo(c, x)'
  <2> SUFFICES ASSUME NEW x \in 1..logged', x \notin InFiles', x \notin failed'
               PROVE  \E c \in Buffers : Todo(c, x)'
    BY Zenon
  <2>1. CASE x \in New
    BY <1>15, <2>1, Zenon
  <2>2. CASE x \in 1..logged
    <3>1. x \in Int
      BY ONLY <2>2, <1>10
    <3>2. PICK c \in Buffers : Todo(c, x)
      BY <1>7, <1>13, <2>2, Zenon DEF WrittenInv
    <3> QED BY <1>12, <1>15, <3>1, <3>2, Zenon
  <2> QED BY <1>15, <2>1, <2>2, Zenon
<1>17. ASSUME NEW c \in Buffers, NEW x \in Int, Todo(c, x)'
       PROVE  x \in 1..logged' /\ x \notin InFiles' /\ x \notin failed'
  <2>1. CASE c = h
    <3>1. x \in New
      BY ONLY <1>15, <1>17, <2>1, Zenon
    <3>2. x \notin 1..logged
      BY ONLY <1>15, <3>1, Zenon
    <3> QED BY <1>7, <1>13, <1>15, <3>1, <3>2, Zenon DEF WrittenInv
  <2>2. CASE c # h
    <3>1. Todo(c, x)
      BY ONLY <1>12, <1>17, <2>2, Zenon
    <3> QED BY <1>7, <1>13, <1>15, <3>1, Zenon DEF WrittenInv
  <2> QED BY <2>1, <2>2, Zenon
<1>18. ASSUME NEW c \in Buffers, NEW d \in Buffers, NEW x \in Int, Todo(c, x)', Todo(d, x)', c # d
       PROVE  FALSE
  <2>1. \A y \in Buffers : y # h /\ Todo(y, x)' => Todo(y, x) /\ x \in 1..logged
    BY <1>12, Zenon DEF WrittenInv
  <2>2. c # h /\ d # h
    BY ONLY <1>15, <1>18, <2>1, Zenon
  <2> QED BY <1>18, <2>1, <2>2, Zenon DEF WrittenInv
<1>19. \A x \in InFiles' : x \in 1..logged' /\ x \notin failed'
  BY <1>7, <1>13, <1>15, Zenon DEF WrittenInv
<1>20. failed' \subseteq 1..logged'
  BY <1>7, <1>15, Zenon DEF WrittenInv
<1> QED BY ONLY <1>16, <1>17, <1>18, <1>19, <1>20, Zenon DEF WrittenInv

\* What a completion left to write is what its buffer is resubmitted with, and
\* nothing is left when the buffer is freed.
LEMMA WaitWrittenInv ==
  ASSUME QInv, Disjoint, Disjoint', WrittenInv, wait_for_one_cqe
  PROVE  WrittenInv'
<1> DEFINE e == [b |-> Head(cq).b, fd |-> fd, drain |-> FALSE, link |-> FALSE]
           q == Append(sq, e)
<1>1. cq \in Seq(Cqe) /\ cq # <<>> /\ cq' = Tail(cq)
  BY Zenon DEF QInv, TypeOK, wait_for_one_cqe
<1>2. Head(cq) \in Cqe /\ Head(cq).b \in Buffers /\ Head(cq).res \in Nat \cup {-1}
  BY ONLY <1>1, Members, TailBufs, Zenon
<1>3. PICK b \in Buffers : b = Head(cq).b
  BY <1>2, Zenon
<1>4. PICK n \in Nat \cup {-1} : n = Head(cq).res
  BY <1>2, Zenon
<1>5. BufsOf(cq) = BufsOf(cq') \cup {b}
  BY ONLY <1>1, <1>3, TailBufs, Zenon
<1>6. /\ cq[1].b = b /\ cq[1].res = n /\ 1 \in 1..Len(cq)
      /\ \A k \in 1..Len(cq) : k # 1 => k - 1 \in 1..Len(cq') /\ cq[k] = cq'[k - 1]
      /\ \A k \in 1..Len(cq') : cq'[k] = cq[k + 1] /\ k + 1 \in 1..Len(cq)
  <2>1. Head(cq) = cq[1] /\ 1 \in 1..Len(cq)
    BY ONLY <1>1
  <2>2. \A k \in 1..Len(cq') : cq'[k] = cq[k + 1] /\ k + 1 \in 1..Len(cq)
    BY ONLY <1>1, TailBufs, Zenon
  <2>3. \A k \in 1..Len(cq) : k # 1 => k - 1 \in 1..Len(cq') /\ cq[k] = cq'[k - 1]
    BY ONLY <1>1
  <2> QED BY ONLY <1>3, <1>4, <2>1, <2>2, <2>3, Zenon
<1>7. logged' = logged /\ files' = files /\ failed' = failed
  BY Zenon DEF wait_for_one_cqe, fileVars
<1>8. \/ n \in {-1, buf[b].size} /\ buf' = buf /\ sq' = sq /\ kernel' = kernel
      \/ n # -1 /\ buf' = [buf EXCEPT ![b] = Advanced(b, n)] /\ Submit(q)
  BY <1>3, <1>4, Zenon DEF wait_for_one_cqe, resubmit_buffer
<1>9. /\ sq \in Seq(Sqe) /\ kernel \in Seq(Req) /\ buf \in [Buffers -> Buf] /\ fd \in Int
      /\ buf[b] \in Buf
  BY DEF QInv, TypeOK
<1>10. buf[b].data \in Int /\ buf[b].offset \in Int /\ buf[b].size \in Int
  BY ONLY <1>9 DEF Buf
<1>11. \A c \in Buffers : \A x \in Int :
         (\E k \in 1..Len(cq) : cq[k].b = c /\ cq[k].res # -1 /\ x \in Rest(c, cq[k].res))
         <=> \/ c = b /\ n # -1 /\ x \in Rest(b, n)
             \/ \E k \in 1..Len(cq') : cq'[k].b = c /\ cq'[k].res # -1
                                      /\ x \in Rest(c, cq'[k].res)
  BY ONLY <1>6, ZenonT(40)
<1>12. CASE n \in {-1, buf[b].size} /\ buf' = buf /\ sq' = sq /\ kernel' = kernel
  <2>1. n = -1 \/ Rest(b, n) = {}
    <3>1. CASE n = buf[b].size
      BY ONLY <1>10, <3>1 DEF Rest
    <3> QED BY <1>12, <3>1, Zenon
  <2>2. Queued' = Queued
    BY <1>12, Zenon DEF Queued
  <2>3. \A c \in Buffers : \A x \in Int : Todo(c, x)' <=> Todo(c, x)
    <3> SUFFICES ASSUME NEW c \in Buffers, NEW x \in Int PROVE Todo(c, x)' <=> Todo(c, x)
      BY Zenon
    <3>1. Todo(c, x) <=> \/ c \in Queued /\ x \in Bytes(c)
                         \/ \E k \in 1..Len(cq') : cq'[k].b = c /\ cq'[k].res # -1
                                                  /\ x \in Rest(c, cq'[k].res)
      BY ONLY <1>11, <2>1, Zenon DEF Todo
    <3>2. buf' = buf
      BY <1>12, Zenon
    <3> QED BY ONLY <2>2, <3>1, <3>2, Zenon DEF Todo, Bytes, Rest
  <2> QED BY <1>7, <2>3, WrittenKept, Zenon
<1>13. CASE n # -1 /\ buf' = [buf EXCEPT ![b] = Advanced(b, n)] /\ Submit(q)
  <2>1. e \in Sqe /\ e.b = b
    BY <1>3, <1>9, Zenon DEF Sqe
  <2> HIDE DEF e
  <2>2. q \in Seq(Sqe) /\ BufsOf(q) = BufsOf(sq) \cup {b}
    BY ONLY <1>9, <2>1, AppendBufs
  <2> HIDE DEF q
  <2>3. Queued' = Queued \cup {b}
    BY ONLY <1>9, <1>13, <2>2, SubmitQueued, Zenon
  <2>4. b \notin Queued /\ b \notin BufsOf(cq')
    <3>1. b \notin Queued
      BY <1>5, Zenon DEF Disjoint, Queued
    <3>2. b \notin BufsOf(cq')
      BY <2>3, Zenon DEF Disjoint, Queued
    <3> QED BY <3>1, <3>2, Zenon
  <2>5. n \in Nat
    BY <1>13, Zenon
  <2>6. \A c \in Buffers : c # b => buf'[c] = buf[c]
    BY ONLY <1>9, <1>13, Zenon
  <2>7. Bytes(b)' = Rest(b, n)
    <3>1. buf'[b] = Advanced(b, n)
      BY ONLY <1>9, <1>13, Zenon
    <3>2. /\ buf'[b].data = buf[b].data /\ buf'[b].offset = buf[b].offset + n
          /\ buf'[b].size = buf[b].size - n
      BY ONLY <1>9, <2>5, <3>1, AdvancedBuf, Zenon
    <3>3. PICK d \in Int, a \in Int, s \in Int :
            d = buf[b].data /\ a = buf[b].offset /\ s = buf[b].size
      BY ONLY <1>10, Zenon
    <3>4. d + (a + n) + 1 = d + a + n + 1 /\ d + (a + n) + (s - n) = d + a + s
      BY ONLY <2>5, d \in Int, a \in Int, s \in Int
    <3>5. Bytes(b)' = (d + (a + n) + 1)..(d + (a + n) + (s - n))
      BY ONLY <3>2, <3>3, Zenon DEF Bytes
    <3>6. Rest(b, n) = (d + a + n + 1)..(d + a + s)
      BY ONLY <3>3, Zenon DEF Rest
    <3> QED BY ONLY <3>4, <3>5, <3>6, Zenon
  <2>8. ASSUME NEW c \in Buffers, NEW x \in Int PROVE Todo(c, x)' <=> Todo(c, x)
    <3>1. CASE c = b
      <4>1. ~\E k \in 1..Len(cq') : cq'[k].b = b
        BY ONLY <2>4, Zenon DEF BufsOf
      <4>2. Todo(b, x)' <=> x \in Bytes(b)'
        BY ONLY <2>3, <4>1, Zenon DEF Todo
      <4>3. Todo(b, x) <=> x \in Rest(b, n)
        BY ONLY <1>11, <1>13, <2>4, <4>1, Zenon DEF Todo
      <4> QED BY ONLY <2>7, <3>1, <4>2, <4>3, Zenon
    <3>2. CASE c # b
      <4>1. Todo(c, x) <=> \/ c \in Queued /\ x \in Bytes(c)
                           \/ \E k \in 1..Len(cq') : cq'[k].b = c /\ cq'[k].res # -1
                                                    /\ x \in Rest(c, cq'[k].res)
        BY ONLY <1>11, <3>2, Zenon DEF Todo
      <4>2. buf'[c] = buf[c] /\ (c \in Queued' <=> c \in Queued)
        BY ONLY <2>3, <2>6, <3>2, Zenon
      <4> QED BY ONLY <4>1, <4>2, Zenon DEF Todo, Bytes, Rest
    <3> QED BY <3>1, <3>2, Zenon
  <2> QED BY <1>7, <2>8, WrittenKept, Zenon
<1> QED BY <1>8, <1>12, <1>13, Zenon

\* The bytes of all files of F.
BytesIn(F) == (UNION {{F[f][o] : o \in 1..Len(F[f])} : f \in DOMAIN F}) \ {0}

InSome(F, D, y) == y # 0 /\ \E f \in D : \E o \in 1..Len(F[f]) : y = F[f][o]

\* Such a byte is at some offset of some file.
LEMMA BytesInMembers ==
  ASSUME NEW F, NEW D, DOMAIN F = D, NEW y
  PROVE  y \in BytesIn(F) <=> InSome(F, D, y)
<1> DEFINE Row(f) == {F[f][o] : o \in 1..Len(F[f])}
           Rows == {Row(f) : f \in D}
<1>1. \A f \in D : y \in Row(f) <=> \E o \in 1..Len(F[f]) : y = F[f][o]
  BY Zenon
<1> HIDE DEF Row
<1>2. y \in UNION Rows <=> \E f \in D : y \in Row(f)
  <2>1. ASSUME y \in UNION Rows PROVE \E f \in D : y \in Row(f)
    BY <2>1, Zenon
  <2>2. ASSUME NEW f \in D, y \in Row(f) PROVE y \in UNION Rows
    <3>1. Row(f) \in Rows
      BY Zenon
    <3> HIDE DEF Rows
    <3> QED BY <2>2, <3>1, Zenon
  <2> QED BY <2>1, <2>2, Zenon
<1>3. y \in (UNION Rows) \ {0} <=> y # 0 /\ y \in UNION Rows
  <2>1. \A U : y \in U \ {0} <=> y # 0 /\ y \in U
    BY Zenon
  <2> QED BY ONLY <2>1, Zenon
<1>4. y \in (UNION Rows) \ {0} <=> y # 0 /\ \E f \in D : \E o \in 1..Len(F[f]) : y = F[f][o]
  BY ONLY <1>1, <1>2, <1>3, Zenon
<1>5. BytesIn(F) = (UNION Rows) \ {0}
  BY ONLY DOMAIN F = D, Zenon DEF BytesIn, Rows, Row
<1> QED BY ONLY <1>4, <1>5, Zenon DEF InSome

\* A write of n bytes adds the first n bytes of its buffer to the files, and
\* overwrites no other: what was at their offsets were the same bytes.
LEMMA WriteAdds ==
  ASSUME QInv, PlaceInv, NEW k \in 1..Len(kernel), NEW n \in Nat, NEW b \in Buffers,
         b = kernel[k].b, Complete(k, n)
  PROVE  InFiles' = InFiles \cup
           ((buf[b].data + buf[b].offset + 1)..(buf[b].data + buf[b].offset + n))
<1>1. files \in [1..(MaxReopens + 1) -> Seq(Nat)] /\ fd \in 1..(MaxReopens + 1)
  BY StorageAssumption, SMTT(30) DEF QInv, TypeOK
<1>2. files[fd] \in Seq(Nat) /\ TypeOK
  BY <1>1, Zenon DEF QInv
<1> DEFINE w == Written(files[fd], b, n)
<1>3. PICK d \in Nat, a \in Nat, g \in Nat, l \in Int :
        d = buf[b].data /\ a = buf[b].offset /\ g = buf[b].file_offset /\ l = logged - offset
  <2>0. buf \in [Buffers -> Buf] /\ logged \in Nat /\ offset \in Nat
    BY Zenon DEF QInv, TypeOK
  <2>1. /\ buf[b].data \in Nat /\ buf[b].offset \in Nat /\ buf[b].file_offset \in Nat
        /\ logged - offset \in Int
    BY ONLY <2>0, b \in Buffers DEF Buf
  <2> QED BY ONLY <2>1, Zenon
<1>4. /\ w \in Seq(Nat) /\ Len(w) >= Len(files[fd]) /\ (n > 0 => Len(w) >= g + n)
      /\ \A o \in 1..Len(w) :
           w[o] = IF o \in (g + 1)..(g + n) THEN d + a + (o - g)
                  ELSE IF o <= Len(files[fd]) THEN files[fd][o] ELSE 0
  <2>1. /\ w \in Seq(Nat) /\ Len(w) >= Len(files[fd])
        /\ (n > 0 => Len(w) >= buf[b].file_offset + n)
        /\ \A o \in 1..Len(w) :
             w[o] = IF o \in (buf[b].file_offset + 1)..(buf[b].file_offset + n)
                    THEN buf[b].data + buf[b].offset + (o - buf[b].file_offset)
                    ELSE IF o <= Len(files[fd]) THEN files[fd][o] ELSE 0
    <3>1. w = Written(files[fd], b, n)
      BY Zenon
    <3> HIDE DEF w
    <3>2. IsWritten(w, files[fd], b, n)
      BY ONLY <1>2, <3>1, WrittenFacts, b \in Buffers, n \in Nat, Zenon
    <3> QED BY ONLY <3>2, Zenon DEF IsWritten
  <2> HIDE DEF w
  <2> QED BY ONLY <1>3, <2>1, Zenon
<1>5. files' = [files EXCEPT ![fd] = w]
  <2>1. kernel[k].fd = fd /\ n # -1
    BY DEF PlaceInv, SameFile
  <2> QED BY <2>1, Zenon DEF Complete
<1> HIDE DEF w
<1>6. /\ files'[fd] = w /\ DOMAIN files' = DOMAIN files /\ DOMAIN files = 1..(MaxReopens + 1)
      /\ \A f \in 1..(MaxReopens + 1) : f # fd => files'[f] = files[f]
  BY ONLY <1>1, <1>5, Zenon
<1>7. /\ \A y : y \in InFiles <=> y # 0 /\ \E f \in 1..(MaxReopens + 1) :
                                     \E o \in 1..Len(files[f]) : y = files[f][o]
      /\ \A y : y \in InFiles' <=> y # 0 /\ \E f \in 1..(MaxReopens + 1) :
                                      \E o \in 1..Len(files'[f]) : y = files'[f][o]
  <2>1. InFiles = BytesIn(files)
    BY Zenon DEF InFiles, BytesIn
  <2>2. InFiles' = BytesIn(files')
    BY Zenon DEF InFiles, BytesIn
  <2>3. DOMAIN files' = 1..(MaxReopens + 1) /\ DOMAIN files = 1..(MaxReopens + 1)
    BY <1>6, Zenon
  <2>4. \A y : y \in InFiles <=> InSome(files, 1..(MaxReopens + 1), y)
    BY ONLY <2>1, <2>3, BytesInMembers, Zenon
  <2>5. \A y : y \in InFiles' <=> InSome(files', 1..(MaxReopens + 1), y)
    BY ONLY <2>2, <2>3, BytesInMembers, Zenon
  <2> QED BY ONLY <2>4, <2>5, Zenon DEF InSome
<1>8. d + a - g = l
  <2>1. b \in Queued \cup BufsOf(cq)
    <3>1. b \in BufsOf(kernel)
      BY Zenon DEF BufsOf
    <3> QED BY <3>1, Zenon DEF Queued
  <2>2. InPlace(b)
    BY <2>1, Zenon DEF PlaceInv, PendingInPlace
  <2> QED BY ONLY <1>3, <2>2, Zenon DEF InPlace
<1>9. \A o \in 1..Len(files[fd]) : files[fd][o] # 0 => files[fd][o] - o = l
  BY <1>3, Zenon DEF PlaceInv, FileInPlace
<1> DEFINE M == (d + a + 1)..(d + a + n)
<1>10. ASSUME NEW y \in InFiles' PROVE y \in InFiles \cup M
  <2>1. PICK f \in 1..(MaxReopens + 1) : \E o \in 1..Len(files'[f]) : y = files'[f][o]
    BY <1>7, Zenon
  <2>2. PICK o \in 1..Len(files'[f]) : y = files'[f][o]
    BY <2>1, Zenon
  <2>3. y # 0
    BY <1>7, Zenon
  <2>4. CASE f # fd
    BY <1>6, <1>7, <2>2, <2>3, <2>4, Zenon
  <2>5. CASE f = fd
    <3>1. o \in 1..Len(w) /\ y = w[o]
      BY ONLY <1>6, <2>2, <2>5, Zenon
    <3>2. CASE o \in (g + 1)..(g + n)
      <4>1. y = d + a + (o - g) /\ o \in Int
        BY ONLY <1>4, <3>1, <3>2, g \in Nat, n \in Nat
      <4> QED BY ONLY <4>1, <3>2, d \in Nat, a \in Nat, g \in Nat, n \in Nat
    <3>3. CASE o \notin (g + 1)..(g + n)
      <4>1. y = files[fd][o] /\ o <= Len(files[fd])
        BY ONLY <1>4, <2>3, <3>1, <3>3, Zenon
      <4>2. o \in 1..Len(files[fd])
        BY ONLY <1>2, <1>4, <3>1, <4>1, SMTT(30)
      <4> QED BY <1>1, <1>7, <2>3, <4>1, <4>2, Zenon
    <3> QED BY <3>2, <3>3, Zenon
  <2> QED BY <2>4, <2>5, Zenon
<1>11. ASSUME NEW y \in M PROVE y \in InFiles'
  <2> DEFINE o == y - (d + a) + g
  <2>1. y \in Int /\ y # 0 /\ n > 0 /\ o \in (g + 1)..(g + n) /\ o >= 1 /\ o <= g + n /\ o \in Int
        /\ d + a + (o - g) = y
    BY ONLY <1>11, d \in Nat, a \in Nat, g \in Nat, n \in Nat
  <2> HIDE DEF o
  <2>2. Len(w) \in Nat /\ Len(w) >= g + n
    BY ONLY <1>4, <2>1
  <2>3. o \in 1..Len(w)
    BY ONLY <2>1, <2>2, g \in Nat, n \in Nat
  <2>4. w[o] = y
    BY ONLY <1>4, <2>1, <2>3, Zenon
  <2> QED BY <1>1, <1>6, <1>7, <2>1, <2>3, <2>4, Zenon
<1>12. ASSUME NEW y \in InFiles PROVE y \in InFiles'
  <2>1. PICK f \in 1..(MaxReopens + 1) : \E o \in 1..Len(files[f]) : y = files[f][o]
    BY <1>7, Zenon
  <2>2. PICK o \in 1..Len(files[f]) : y = files[f][o]
    BY <2>1, Zenon
  <2>3. y # 0
    BY <1>7, Zenon
  <2>4. CASE f # fd
    BY <1>6, <1>7, <2>2, <2>3, <2>4, Zenon
  <2>5. CASE f = fd
    <3>1. o \in 1..Len(files[fd]) /\ y = files[fd][o] /\ y \in Nat /\ o \in Int
      BY ONLY <1>2, <2>2, <2>5, SMTT(30)
    <3>2. Len(w) \in Nat /\ Len(w) >= Len(files[fd]) /\ Len(files[fd]) \in Nat
      BY ONLY <1>2, <1>4
    <3>3. o \in 1..Len(w) /\ o <= Len(files[fd])
      BY ONLY <3>1, <3>2
    <3>4. w[o] = y
      <4>1. CASE o \in (g + 1)..(g + n)
        <5>1. w[o] = d + a + (o - g)
          BY ONLY <1>4, <3>3, <4>1, Zenon
        <5>2. y - o = l
          BY ONLY <1>9, <2>3, <3>1, Zenon
        <5>3. y \in Int /\ o \in Int
          BY ONLY <3>1
        <5>4. d + a + (o - g) = y
          BY ONLY <1>8, <5>2, <5>3, d \in Nat, a \in Nat, g \in Nat, l \in Int
        <5> QED BY ONLY <5>1, <5>4, Zenon
      <4>2. CASE o \notin (g + 1)..(g + n)
        BY ONLY <1>4, <3>1, <3>3, <4>2, Zenon
      <4> QED BY <4>1, <4>2, Zenon
    <3> QED BY <1>1, <1>6, <1>7, <2>3, <3>3, <3>4, Zenon
  <2> QED BY <2>4, <2>5, Zenon
<1>13. InFiles' = InFiles \cup M
  BY ONLY <1>10, <1>11, <1>12, Zenon
<1> QED BY ONLY <1>3, <1>13, Zenon

\* A completion moves what was written to the files, and what failed to failed;
\* the rest of its buffer is still to be written.
LEMMA CompleteWrittenInv ==
  ASSUME QInv, Disjoint, Disjoint', PlaceInv, WrittenInv, NEW k \in 1..Len(kernel),
         NEW n \in {-1} \cup Nat, n = -1 \/ n <= buf[kernel[k].b].size, Complete(k, n)
  PROVE  WrittenInv'
<1>1. PICK b \in Buffers : b = kernel[k].b
  BY CompleteFacts, Zenon
<1>2. BufsOf(kernel) = BufsOf(kernel') \cup {b}
  BY <1>1, CompleteFacts, Zenon
<1>3. cq' = Append(cq, [b |-> b, res |-> n]) /\ sq' = sq /\ buf' = buf /\ logged' = logged
  BY <1>1, Zenon DEF Complete
<1>4. cq \in Seq(Cqe) /\ [b |-> b, res |-> n] \in Cqe
  BY Zenon DEF QInv, TypeOK, Cqe
<1>5. /\ BufsOf(cq') = BufsOf(cq) \cup {b} /\ Len(cq') = Len(cq) + 1 /\ Len(cq) \in Nat
      /\ \A j \in 1..Len(cq) : cq'[j] = cq[j]
      /\ cq'[Len(cq) + 1].b = b /\ cq'[Len(cq) + 1].res = n
  <2> DEFINE e == [b |-> b, res |-> n]
  <2>1. e.b = b /\ e.res = n /\ cq' = Append(cq, e) /\ e \in Cqe
    BY <1>3, <1>4, Zenon
  <2> HIDE DEF e
  <2> QED BY ONLY <1>4, <2>1, AppendBufs
<1>6. Queued = Queued' \cup {b} /\ b \notin Queued' /\ b \notin BufsOf(cq)
  <2>1. Queued = Queued' \cup {b}
    BY <1>2, <1>3, Zenon DEF Queued
  <2>2. b \notin Queued'
    BY <1>5, Zenon DEF Disjoint, Queued
  <2>3. b \notin BufsOf(cq)
    BY <2>1, Zenon DEF Disjoint, Queued
  <2> QED BY <2>1, <2>2, <2>3, Zenon
<1>7. ASSUME NEW c \in Buffers, NEW x \in Int, c # b PROVE Todo(c, x)' <=> Todo(c, x)
  <2>1. (c \in Queued' <=> c \in Queued) /\ buf'[c] = buf[c]
    BY ONLY <1>3, <1>6, <1>7, Zenon
  <2>2. \A j \in 1..Len(cq') : cq'[j].b = c => j \in 1..Len(cq)
    BY ONLY <1>5, <1>7
  <2>3. \A j \in 1..Len(cq) : j \in 1..Len(cq')
    BY ONLY <1>5
  <2>4. (\E j \in 1..Len(cq') : cq'[j].b = c /\ cq'[j].res # -1 /\ x \in Rest(c, cq'[j].res))
        <=> \E j \in 1..Len(cq) : cq[j].b = c /\ cq[j].res # -1 /\ x \in Rest(c, cq[j].res)
    BY ONLY <1>5, <2>2, <2>3, Zenon
  <2>5. Bytes(c)' = Bytes(c) /\ \A m : Rest(c, m)' = Rest(c, m)
    BY ONLY <2>1, Zenon DEF Bytes, Rest
  <2>6. Todo(c, x)' <=>
          \/ c \in Queued' /\ x \in Bytes(c)'
          \/ \E j \in 1..Len(cq') : cq'[j].b = c /\ cq'[j].res # -1 /\ x \in Rest(c, cq'[j].res)
    BY ONLY <2>5, Zenon DEF Todo
  <2> QED BY ONLY <2>1, <2>4, <2>5, <2>6, Zenon DEF Todo
<1>8. \A x \in Int : Todo(b, x) <=> x \in Bytes(b)
  BY ONLY <1>6, Zenon DEF Todo, BufsOf
<1>9. \A x \in Int : Todo(b, x)' <=> n # -1 /\ x \in Rest(b, n)
  <2>1. \A j \in 1..Len(cq') : cq'[j].b = b => j = Len(cq) + 1
    <3>1. \A j \in 1..Len(cq) : cq'[j].b # b
      BY ONLY <1>5, <1>6, Zenon DEF BufsOf
    <3> QED BY ONLY <1>5, <3>1
  <2>2. Len(cq) + 1 \in 1..Len(cq')
    BY ONLY <1>5
  <2>3. \A m : Rest(b, m)' = Rest(b, m)
    BY ONLY <1>3, Zenon DEF Rest
  <2> QED BY ONLY <1>5, <1>6, <2>1, <2>2, <2>3, Zenon DEF Todo
<1>10. PICK d \in Int, a \in Int, s \in Int :
         d = buf[b].data /\ a = buf[b].offset /\ s = buf[b].size
  <2>1. buf \in [Buffers -> Buf]
    BY Zenon DEF QInv, TypeOK
  <2>2. buf[b].data \in Int /\ buf[b].offset \in Int /\ buf[b].size \in Int
    BY ONLY <2>1, b \in Buffers DEF Buf
  <2> QED BY ONLY <2>2, Zenon
<1>11. Bytes(b) = (d + a + 1)..(d + a + s) /\ Rest(b, n) = (d + a + n + 1)..(d + a + s)
  BY ONLY <1>10, Zenon DEF Bytes, Rest
<1>12. CASE n = -1
  <2>1. InFiles' = InFiles
    BY <1>12 DEF InFiles, Complete
  <2>2. failed' = failed \cup Bytes(b)
    <3>1. CASE n # s
      BY <1>1, <1>10, <1>12, <3>1, Zenon DEF Complete
    <3>2. CASE n = s
      <4>1. Bytes(b) = {}
        BY ONLY <1>11, <1>12, <3>2, d \in Int, a \in Int
      <4>2. failed' = failed
        BY <1>1, <1>10, <3>2, Zenon DEF Complete
      <4> QED BY <4>1, <4>2, Zenon
    <3> QED BY <3>1, <3>2, Zenon
  <2>3. Bytes(b) \in SUBSET Int
    BY ONLY <1>11
  <2>4. \A c \in Buffers : \A x \in Int :
          Todo(c, x)' <=> Todo(c, x) /\ ~(c = b /\ x \in Bytes(b))
    BY ONLY <1>7, <1>8, <1>9, <1>12, Zenon
  <2>5. \A x \in Bytes(b) : Todo(b, x)
    BY ONLY <1>8, <2>3, Zenon
  <2>6. logged' = logged /\ WrittenInv
    BY <1>3, Zenon
  <2> QED BY ONLY <2>1, <2>2, <2>3, <2>4, <2>5, <2>6, b \in Buffers, WrittenStep, Zenon
<1>13. CASE n \in Nat
  <2> DEFINE M == (d + a + 1)..(d + a + n)
  <2>1. failed' = failed
    <3>1. n # -1
      BY <1>13
    <3> QED BY <3>1, Zenon DEF Complete
  <2>2. InFiles' = InFiles \cup M
    <3>1. InFiles' = InFiles \cup
            ((buf[b].data + buf[b].offset + 1)..(buf[b].data + buf[b].offset + n))
      BY <1>1, <1>13, WriteAdds, Zenon
    <3> QED BY ONLY <1>10, <3>1, Zenon
  <2>3. n <= s
    BY <1>1, <1>10, <1>13
  <2>4. \A x \in Int : x \in (d + a + n + 1)..(d + a + s)
                      <=> x \in (d + a + 1)..(d + a + s) /\ x \notin M
    BY ONLY <1>13, <2>3, d \in Int, a \in Int, s \in Int
  <2>5. M \in SUBSET Int /\ \A x \in M : x \in (d + a + 1)..(d + a + s)
    BY ONLY <1>13, <2>3, d \in Int, a \in Int, s \in Int
  <2> HIDE DEF M
  <2>6. n # -1
    BY <1>13
  <2>7. \A c \in Buffers : \A x \in Int : Todo(c, x)' <=> Todo(c, x) /\ ~(c = b /\ x \in M)
    BY ONLY <1>7, <1>8, <1>9, <1>11, <2>4, <2>6, Zenon
  <2>8. \A x \in M : Todo(b, x)
    BY ONLY <1>8, <1>11, <2>5, Zenon
  <2>9. logged' = logged /\ WrittenInv
    BY <1>3, Zenon
  <2> QED BY ONLY <2>1, <2>2, <2>5, <2>7, <2>8, <2>9, b \in Buffers, WrittenStep, Zenon
<1> QED BY <1>12, <1>13, Zenon

\* A new storage has nothing logged and nothing written.
LEMMA InitWrittenInv == Init => WrittenInv
<1> SUFFICES ASSUME Init PROVE WrittenInv
  BY Zenon
<1>1. Len(<<>>) = 0 /\ 1..0 = {}
  OBVIOUS
<1>2. sq = <<>> /\ kernel = <<>> /\ cq = <<>> /\ logged = 0 /\ failed = {}
  BY Zenon DEF Init
<1>3. \A b, x : ~Todo(b, x)
  BY ONLY <1>1, <1>2, Zenon DEF Todo, Queued, BufsOf
<1>4. InFiles = {}
  <2>1. InFiles = BytesIn(files)
    BY Zenon DEF InFiles, BytesIn
  <2>2. \A f \in DOMAIN files : 1..Len(files[f]) = {}
    BY <1>1, Zenon DEF Init
  <2>3. \A y : y \notin BytesIn(files)
    <3>1. \A y : y \in BytesIn(files) <=> InSome(files, DOMAIN files, y)
      BY ONLY BytesInMembers, Zenon
    <3> QED BY ONLY <2>2, <3>1, Zenon DEF InSome
  <2> QED BY ONLY <2>1, <2>3, Zenon
<1> QED BY ONLY <1>1, <1>2, <1>3, <1>4, Zenon DEF WrittenInv

\* Where the bytes are is inductive, given the accounting and the places.
LEMMA NextWrittenInv ==
  QInv /\ Disjoint /\ Disjoint' /\ PlaceInv /\ WrittenInv /\ [Next]_vars => WrittenInv'
<1> SUFFICES ASSUME QInv, Disjoint, Disjoint', PlaceInv, WrittenInv, [Next]_vars
             PROVE  WrittenInv'
  BY Zenon
<1>1. CASE Storage
  <2>1. CASE \/ allocate_buffer \/ SyncReturn \/ replace_fd
             \/ flush \/ sync \/ \E r \in Rotated : reopen(r)
    BY <2>1, CallWrittenInv, Zenon
  <2>2. CASE PopFree
    BY <2>2, PopWrittenInv, Zenon
  <2>3. CASE wait_for_one_cqe
    BY <2>3, WaitWrittenInv, Zenon
  <2>4. ASSUME NEW n \in 1..buffer_capacity, submit_buffer(n) PROVE WrittenInv'
    <3>1. n \in Nat
      BY StorageAssumption
    <3> QED BY <2>4, <3>1, SubmitWrittenInv, Zenon
  <2> QED BY <1>1, <2>1, <2>2, <2>3, <2>4, Zenon DEF Storage
<1>2. CASE Kernel
  <2>0. PICK k \in 1..Len(kernel) :
          \E n \in {-1} \cup 0..buf[kernel[k].b].size : Complete(k, n)
    BY <1>2, Zenon DEF Kernel
  <2>1. PICK n \in {-1} \cup 0..buf[kernel[k].b].size : Complete(k, n)
    BY <2>0, Zenon
  <2>2. n \in {-1} \cup Nat /\ (n = -1 \/ n <= buf[kernel[k].b].size)
    <3>1. kernel[k].b \in Buffers
      BY <2>1, CompleteFacts, Zenon
    <3>2. buf[kernel[k].b].size \in Int
      BY <3>1, Zenon DEF QInv, TypeOK, Buf
    <3> QED BY <3>2
  <2> QED BY <2>1, <2>2, CompleteWrittenInv, Zenon
<1>3. CASE UNCHANGED vars
  BY <1>3, CallWrittenInv, Zenon
<1> QED BY <1>1, <1>2, <1>3, Zenon DEF Next

\* If the path names a new file whenever reopen is called: when no completion is
\* pending, so when sync has returned or the file may be replaced, every byte
\* logged is in a file, except the bytes of a write that failed for good.
THEOREM DrainedMeansWritten == ASSUME Rotated \subseteq {TRUE} PROVE Spec => []DrainedIsWritten
<1>1. QInv /\ Disjoint /\ PlaceInv /\ [Next]_vars => PlaceInv'
  BY NextPlaceInv, Zenon
<1>2. QInv /\ WrittenInv => DrainedIsWritten
  <2> SUFFICES ASSUME QInv, WrittenInv, pending_cqe_count = 0 PROVE InFiles = (1..logged) \ failed
    BY Zenon DEF DrainedIsWritten
  <2>1. Len(sq) = 0 /\ Len(kernel) = 0 /\ Len(cq) = 0
    <3>1. /\ Len(sq) \in Nat /\ Len(kernel) \in Nat /\ Len(cq) \in Nat /\ PendingExact
          /\ pending_cqe_count = 0
      BY DEF QInv, TypeOK
    <3> QED BY ONLY <3>1 DEF PendingExact
  <2>2. \A b, x : ~Todo(b, x)
    BY ONLY <2>1 DEF Todo, Queued, BufsOf
  <2> QED BY <2>2, Zenon DEF WrittenInv
<1> QED BY <1>1, <1>2, InitPlaceInv, InitWrittenInv, NextWrittenInv, QueueInvariance, PTL DEF Spec
-----------------------------------------------------------------------------
(* Writes complete in the order of their offsets unless one was short, refused or
   failed: no assumption on reopen is needed. *)

Clean == faults = 0 /\ refused = 0

\* The requests prepared since the last submission: the first one drains, and each
\* is linked to the next.
Batched == /\ \A k \in 1..Len(sq) : sq[k].link /\ (k = 1 => sq[k].drain)
           /\ sq = <<>> => batch_index % batch_size = 0

\* A request that was submitted waits for all before it, or for the one before it.
Chained == \A k \in 2..Len(kernel) : kernel[k].drain \/ kernel[k].after = kernel[k - 1].b

AllDone == \A k \in 1..Len(cq) : cq[k].res = buf[cq[k].b].size

\* The buffers that are submitted or prepared, in the order of their submission, where
\* the writes of each begin, and where that of the next one will.
Count == Len(kernel) + Len(sq)
Chain(k) == IF k <= Len(kernel) THEN kernel[k].b ELSE sq[k - Len(kernel)].b
Begins(k) == IF k = Count + 1 THEN offset ELSE buf[Chain(k)].file_offset

\* Each begins where the one before it ends, and the first one within the file.
Contiguous ==
  /\ Begins(1) <= Len(files[fd])
  /\ \A k \in 1..Count : Begins(k + 1) = Begins(k) + buf[Chain(k)].size

HeldAtEnd == held # None => buf[held].file_offset = offset
NewAtEnd == opc = "replace_fd" => newfd.at <= Len(files[newfd.file])
Full == \A f \in DOMAIN files : \A o \in 1..Len(files[f]) : files[f][o] # 0

Gapless == /\ Batched /\ Chained /\ AllDone /\ Contiguous
           /\ HeldAtEnd /\ NewAtEnd /\ SameFile(fd) /\ Full
GapInv == faults \in Nat /\ refused \in Nat /\ (Clean => Gapless)

\* Faults and refused submissions are only counted up.
LEMMA CountsGrow ==
  ASSUME faults \in Nat, refused \in Nat, [Next]_vars
  PROVE  faults' \in Nat /\ refused' \in Nat /\ (Clean' => Clean)
<1>1. ASSUME NEW q, Submit(q) PROVE refused' = refused \/ refused' = refused + 1
  BY <1>1, Zenon DEF Submit
<1>2. /\ faults' = faults \/ faults' = faults + 1
      /\ refused' = refused \/ refused' = refused + 1
  <2>1. CASE allocate_buffer \/ PopFree \/ SyncReturn \/ replace_fd \/ UNCHANGED vars
    BY <2>1, Zenon DEF allocate_buffer, PopFree, SyncReturn, replace_fd, vars, boundVars
  <2>2. CASE flush \/ sync \/ \E r \in Rotated : reopen(r)
    <3>1. Submit(sq) /\ faults' = faults
      BY <2>2, Zenon DEF flush, sync, reopen, Flush
    <3> QED BY <1>1, <3>1, Zenon
  <2>3. ASSUME NEW n, submit_buffer(n)
        PROVE  faults' = faults /\ (refused' = refused \/ refused' = refused + 1)
    BY <1>1, <2>3, Zenon DEF submit_buffer
  <2>4. CASE wait_for_one_cqe
    BY <1>1, <2>4, Zenon DEF wait_for_one_cqe, resubmit_buffer
  <2>5. CASE Kernel
    BY <2>5, Zenon DEF Kernel, Complete
  <2> QED BY <2>1, <2>2, <2>3, <2>4, <2>5, Zenon DEF Next, Storage
<1> QED BY ONLY <1>2, faults \in Nat, refused \in Nat DEF Clean

\* Steps that move nothing and write nothing.
LEMMA KeepGapless ==
  ASSUME Gapless, UNCHANGED <<sq, kernel, buf, held, offset, files, fd, batch_index>>,
         AllDone', NewAtEnd'
  PROVE  Gapless'
<1>1. Batched' /\ Chained' /\ HeldAtEnd' /\ SameFile(fd)' /\ Full'
  BY Zenon DEF Gapless, Batched, Chained, HeldAtEnd, SameFile, Full
<1>2. Contiguous'
  BY Zenon DEF Gapless, Contiguous, Begins, Chain, Count
<1> QED BY <1>1, <1>2, Zenon DEF Gapless

\* A submission that the kernel takes as a whole.
LEMMA WholeSubmit ==
  ASSUME NEW q \in Seq(Sqe), Submit(q), refused = 0, refused' = 0
  PROVE  sq' = <<>> /\ kernel' = kernel \o Linked(q)
<1>1. PICK n \in 0..Len(q) :
        /\ IF n = Len(q) THEN refused' = refused
                         ELSE refused < MaxRefused /\ refused' = refused + 1
        /\ kernel' = kernel \o Linked(SubSeq(q, 1, n))
        /\ sq' = SubSeq(q, n + 1, Len(q))
  BY Zenon DEF Submit
<1>2. n = Len(q)
  BY <1>1
<1>3. SubSeq(q, 1, Len(q)) = q /\ SubSeq(q, Len(q) + 1, Len(q)) = <<>>
  OBVIOUS
<1> QED BY ONLY <1>1, <1>2, <1>3, Zenon

\* The chain after q is submitted as a whole.
LEMMA SubmitChain ==
  ASSUME Chained, kernel \in Seq(Req), NEW q \in Seq(Sqe), sq' = <<>>,
         kernel' = kernel \o Linked(q),
         \A k \in 1..Len(q) : q[k].link /\ (k = 1 => q[k].drain)
  PROVE  /\ Chained' /\ Count' = Len(kernel) + Len(q)
         /\ \A k \in 1..(Len(kernel) + Len(q)) :
              Chain(k)' = IF k <= Len(kernel) THEN kernel[k].b ELSE q[k - Len(kernel)].b
<1>1. PICK K, L, u : K = kernel /\ L = Linked(q) /\ u = kernel'
  BY Zenon
<1>2. /\ L \in Seq(Req) /\ Len(L) = Len(q)
      /\ \A k \in 1..Len(q) : L[k].b = q[k].b
  BY ONLY <1>1, LinkedFacts, q \in Seq(Sqe), Zenon
<1>3. K \in Seq(Req) /\ u = K \o L
  BY ONLY <1>1, kernel \in Seq(Req), kernel' = kernel \o Linked(q), Zenon
<1>4. /\ Len(u) = Len(K) + Len(q) /\ Len(K) \in Nat /\ Len(q) \in Nat
      /\ \A i \in 1..(Len(K) + Len(q)) : u[i] = IF i <= Len(K) THEN K[i] ELSE L[i - Len(K)]
  <2>1. /\ Len(u) = Len(K) + Len(L) /\ Len(K) \in Nat /\ Len(L) \in Nat
        /\ \A i \in 1..(Len(K) + Len(L)) : u[i] = IF i <= Len(K) THEN K[i] ELSE L[i - Len(K)]
    <3>1. K \in Seq(Req) /\ L \in Seq(Req) /\ u = K \o L
      BY ONLY <1>2, <1>3, Zenon
    <3> QED BY ONLY <3>1, ConcatFacts
  <2> QED BY ONLY <1>2, <2>1, Zenon
<1>5. ASSUME NEW k \in 1..Len(q)
      PROVE  L[k].drain = q[k].drain /\ (k > 1 => L[k].after = q[k - 1].b)
  <2>1. L[k] = [b |-> q[k].b, fd |-> q[k].fd, drain |-> q[k].drain,
                after |-> IF k > 1 /\ q[k - 1].link THEN q[k - 1].b ELSE None]
    BY ONLY <1>1, k \in 1..Len(q), Zenon DEF Linked
  <2>2. k > 1 => k - 1 \in 1..Len(q)
    BY ONLY <1>4, k \in 1..Len(q)
  <2>3. k > 1 => q[k - 1].link
    BY ONLY <2>2, \A j \in 1..Len(q) : q[j].link /\ (j = 1 => q[j].drain), Zenon
  <2> QED BY ONLY <2>1, <2>3, SMTT(30)
<1>6. ASSUME NEW k \in 1..(Len(K) + Len(q))
      PROVE  u[k].b = IF k <= Len(K) THEN K[k].b ELSE q[k - Len(K)].b
  <2>1. k > Len(K) => k - Len(K) \in 1..Len(q)
    BY ONLY <1>4, k \in 1..(Len(K) + Len(q))
  <2>2. k <= Len(K) \/ k > Len(K)
    BY ONLY <1>4, k \in 1..(Len(K) + Len(q))
  <2> QED BY ONLY <1>2, <1>4, <2>1, <2>2, k \in 1..(Len(K) + Len(q)), Zenon
<1>7. ASSUME NEW k \in 2..Len(u) PROVE u[k].drain \/ u[k].after = u[k - 1].b
  <2>1. /\ k \in 1..(Len(K) + Len(q)) /\ k - 1 \in 1..(Len(K) + Len(q))
        /\ k \in 2..Len(K) \/ (k > Len(K) /\ k - Len(K) \in 1..Len(q))
        /\ k \in 2..Len(K) => k <= Len(K) /\ k - 1 <= Len(K)
    BY ONLY <1>4, k \in 2..Len(u)
  <2>2. CASE k \in 2..Len(K)
    <3>1. K[k].drain \/ K[k].after = K[k - 1].b
      BY ONLY <1>1, <2>2, Chained, Zenon DEF Chained
    <3> QED BY ONLY <1>4, <2>1, <2>2, <3>1, Zenon
  <2>3. CASE k > Len(K) /\ k - Len(K) \in 1..Len(q)
    <3>1. PICK j \in 1..Len(q) : j = k - Len(K)
      BY ONLY <2>3, Zenon
    <3>2. u[k] = L[j] /\ (j > 1 => u[k - 1].b = q[j - 1].b)
      <4>1. ~(k <= Len(K)) /\ (j > 1 => ~(k - 1 <= Len(K)) /\ k - 1 - Len(K) = j - 1)
        BY ONLY <1>4, <2>1, <2>3, <3>1, SMTT(30)
      <4> QED BY ONLY <1>4, <1>6, <2>1, <3>1, <4>1, Zenon
    <3>3. j = 1 \/ j > 1
      OBVIOUS
    <3>4. j = 1 => q[j].drain
      BY ONLY j \in 1..Len(q), \A i \in 1..Len(q) : q[i].link /\ (i = 1 => q[i].drain), Zenon
    <3> QED BY ONLY <1>5, <3>2, <3>3, <3>4, j \in 1..Len(q), Zenon
  <2> QED BY ONLY <2>1, <2>2, <2>3, Zenon
<1>8. Chained'
  BY ONLY <1>1, <1>7, Zenon DEF Chained
<1>9. Len(<<>>) = 0 /\ Len(K) + Len(q) + 0 = Len(K) + Len(q)
      /\ \A k \in 1..(Len(K) + Len(q)) : k <= Len(K) + Len(q)
  BY ONLY <1>4
<1>10. Count' = Len(K) + Len(q)
  BY ONLY <1>1, <1>4, <1>9, sq' = <<>>, Zenon DEF Count
<1>11. ASSUME NEW k \in 1..(Len(K) + Len(q)) PROVE Chain(k)' = u[k].b
  BY ONLY <1>1, <1>4, <1>9, k \in 1..(Len(K) + Len(q)), Zenon DEF Chain
<1> QED BY ONLY <1>1, <1>6, <1>8, <1>10, <1>11, Zenon
\* Every buffer of the chain is queued.
LEMMA ChainQueued ==
  ASSUME QInv
  PROVE  /\ Len(kernel) \in Nat /\ Len(sq) \in Nat /\ Count \in Nat
         /\ \A k \in 1..Count : Chain(k) \in Queued /\ Chain(k) \in Buffers
<1>1. kernel \in Seq(Req) /\ sq \in Seq(Sqe)
  BY Zenon DEF QInv, TypeOK
<1>2. Len(kernel) \in Nat /\ Len(sq) \in Nat /\ Count \in Nat
  BY ONLY <1>1 DEF Count
<1>3. ASSUME NEW k \in 1..Count PROVE Chain(k) \in Queued
  <2>1. \/ k <= Len(kernel) /\ k \in 1..Len(kernel)
        \/ ~(k <= Len(kernel)) /\ k - Len(kernel) \in 1..Len(sq)
    BY ONLY <1>2, k \in 1..Count DEF Count
  <2> QED BY ONLY <2>1, Zenon DEF Chain, Queued, BufsOf
<1>4. Queued \subseteq Buffers
  BY Zenon DEF QInv, AllPlaced, Queued
<1> QED BY ONLY <1>2, <1>3, <1>4, Zenon

\* The chain is where it was if nothing joined or left it.
LEMMA KeepContiguous ==
  ASSUME QInv, Contiguous, Count' = Count, offset' = offset, UNCHANGED <<files, fd>>,
         \A k \in 1..Count : Chain(k)' = Chain(k) /\ buf'[Chain(k)] = buf[Chain(k)]
  PROVE  Contiguous'
<1>1. Count \in Nat
  BY ChainQueued, Zenon
<1>2. ASSUME NEW k \in 1..(Count + 1) PROVE Begins(k)' = Begins(k)
  <2>1. k \in 1..Count \/ k = Count + 1
    BY ONLY <1>1, k \in 1..(Count + 1)
  <2> QED BY ONLY <2>1, Count' = Count, offset' = offset,
                  \A j \in 1..Count : Chain(j)' = Chain(j) /\ buf'[Chain(j)] = buf[Chain(j)], Zenon
          DEF Begins
<1>3. 1 \in 1..(Count + 1) /\ \A k \in 1..Count : k \in 1..(Count + 1) /\ k + 1 \in 1..(Count + 1)
  BY ONLY <1>1
<1> QED BY <1>2, <1>3, Zenon DEF Contiguous

\* allocate_buffer, sync's return and the end of reopen.
LEMMA CallGapless ==
  ASSUME QInv, Gapless, allocate_buffer \/ SyncReturn \/ replace_fd \/ UNCHANGED vars
  PROVE  Gapless'
<1>1. UNCHANGED <<sq, kernel, cq, buf, held, files, batch_index>>
  BY Zenon DEF allocate_buffer, SyncReturn, replace_fd, vars, queueVars, fileVars
<1>2. AllDone'
  BY <1>1, Zenon DEF Gapless, AllDone
<1>3. CASE allocate_buffer \/ SyncReturn \/ UNCHANGED vars
  <2>1. UNCHANGED <<offset, fd, newfd>> /\ (opc' = "replace_fd" => opc = "replace_fd")
    BY <1>3, Zenon DEF allocate_buffer, SyncReturn, vars, fileVars
  <2>2. NewAtEnd'
    BY <1>1, <2>1, Zenon DEF Gapless, NewAtEnd
  <2> QED BY <1>1, <1>2, <2>1, <2>2, KeepGapless, Zenon
<1>4. CASE replace_fd
  <2>1. /\ opc = "replace_fd" /\ opc' # "replace_fd" /\ pending_cqe_count = 0
        /\ fd' = newfd.file /\ offset' = newfd.at
    BY <1>4, Zenon DEF replace_fd, Drained, set_offset
  <2>2. held = None /\ newfd.at <= Len(files[newfd.file])
    BY <2>1, Zenon DEF QInv, NoBufferHeld, Gapless, NewAtEnd
  <2>3. Len(sq) = 0 /\ Len(kernel) = 0
    <3>1. sq \in Seq(Sqe) /\ kernel \in Seq(Req) /\ cq \in Seq(Cqe) /\ PendingExact
      BY Zenon DEF QInv, TypeOK
    <3> QED BY ONLY <2>1, <3>1 DEF PendingExact
  <2>4. Count' = 0
    BY ONLY <1>1, <2>3 DEF Count
  <2>5. Begins(1)' = offset'
    <3>1. 1 = 0 + 1
      OBVIOUS
    <3> QED BY ONLY <2>4, <3>1, Zenon DEF Begins
  <2>6. \A k : k \notin 1..0
    OBVIOUS
  <2>7. Contiguous'
    BY ONLY <1>1, <2>1, <2>2, <2>4, <2>5, <2>6, Zenon DEF Contiguous
  <2>8. Batched' /\ Chained' /\ HeldAtEnd' /\ Full' /\ NewAtEnd'
    BY <1>1, <2>1, <2>2, Zenon DEF Gapless, Batched, Chained, HeldAtEnd, Full, NewAtEnd
  <2>9. SameFile(fd)'
    BY ONLY <1>1, <2>3, <2>6, Zenon DEF SameFile
  <2> QED BY <1>2, <2>7, <2>8, <2>9, Zenon DEF Gapless
<1> QED BY <1>3, <1>4, Zenon

\* flush, and what sync and reopen do first.
LEMMA FlushGapless ==
  ASSUME QInv, QInv', Gapless, Clean, Clean', flush \/ sync \/ \E r \in Rotated : reopen(r)
  PROVE  Gapless'
<1>1. Submit(sq) /\ batch_index' = 0 /\ UNCHANGED <<held, buf, offset, cq, files, fd>>
  BY Zenon DEF flush, sync, reopen, Flush
<1>2. sq \in Seq(Sqe) /\ kernel \in Seq(Req)
  BY Zenon DEF QInv, TypeOK
<1>3. sq' = <<>> /\ kernel' = kernel \o Linked(sq)
  BY <1>1, <1>2, WholeSubmit, Zenon DEF Clean
<1>4. /\ Chained' /\ Count' = Len(kernel) + Len(sq)
      /\ \A k \in 1..(Len(kernel) + Len(sq)) :
           Chain(k)' = IF k <= Len(kernel) THEN kernel[k].b ELSE sq[k - Len(kernel)].b
  BY <1>2, <1>3, SubmitChain, Zenon DEF Gapless, Batched
<1>5. Contiguous'
  <2>1. Count' = Count /\ \A k \in 1..Count : Chain(k)' = Chain(k)
    BY ONLY <1>4, Zenon DEF Count, Chain
  <2> QED BY <1>1, <2>1, KeepContiguous, Zenon DEF Gapless
<1>6. Batched'
  <2>1. (\A k : k \notin 1..Len(<<>>)) /\ 0 % batch_size = 0
    BY StorageAssumption
  <2> QED BY ONLY <1>1, <1>3, <2>1, Zenon DEF Batched
<1>7. SameFile(fd)'
  BY <1>1, <1>2, SubmitSameFile, Zenon DEF Gapless, SameFile
<1>8. AllDone' /\ HeldAtEnd' /\ Full'
  BY <1>1, Zenon DEF Gapless, AllDone, HeldAtEnd, Full
<1>9. NewAtEnd'
  <2>1. CASE flush \/ sync
    <3>1. opc' # "replace_fd"
      BY <2>1, Zenon DEF flush, sync
    <3> QED BY ONLY <3>1, Zenon DEF NewAtEnd
  <2>2. CASE \E r \in Rotated : reopen(r)
    <3>1. \/ newfd' = [file |-> fd + 1, at |-> 0]
          \/ newfd' = [file |-> fd, at |-> Len(files[fd])]
      BY <2>2, Zenon DEF reopen
    <3>2. opc' = "replace_fd"
      BY <2>2, Zenon DEF reopen
    <3>3. /\ newfd' \in [file : 1..(reopens' + 1), at : Nat] /\ reopens' \in 0..MaxReopens
          /\ files' \in [1..(MaxReopens + 1) -> Seq(Nat)]
      BY <3>2, Zenon DEF QInv, TypeOK
    <3>4. newfd'.file \in 1..(reopens' + 1) /\ newfd'.at \in Nat
      BY ONLY <3>3, Zenon
    <3>5. newfd'.file \in 1..(MaxReopens + 1)
      BY ONLY <3>3, <3>4, StorageAssumption
    <3>6. files'[newfd'.file] \in Seq(Nat)
      BY ONLY <3>3, <3>5, Zenon
    <3>7. Len(files'[newfd'.file]) \in Nat
      BY ONLY <3>6
    <3>8. newfd'.at = 0 \/ newfd'.at = Len(files'[newfd'.file])
      BY ONLY <1>1, <3>1, SMTT(30)
    <3>9. newfd'.at <= Len(files'[newfd'.file])
      BY ONLY <3>7, <3>8
    <3> QED BY ONLY <3>9, Zenon DEF NewAtEnd
  <2> QED BY <2>1, <2>2, Zenon
<1> QED BY <1>4, <1>5, <1>6, <1>7, <1>8, <1>9, Zenon DEF Gapless

\* A buffer popped from the free list is in no queue, and gets the next offset.
LEMMA PopGapless ==
  ASSUME QInv, Disjoint, Gapless, PopFree
  PROVE  Gapless'
<1>1. PICK h : h = Head(free_list)
  BY Zenon
<1>2. /\ UNCHANGED <<offset, files, fd, sq, kernel, cq, newfd, batch_index>> /\ held' = h
      /\ opc' # "replace_fd" /\ buf' = [buf EXCEPT ![h] = Allocated(h)]
  BY <1>1, Zenon DEF PopFree, queueVars, fileVars, boundVars
<1>3. h \in Buffers /\ h \in Elems(free_list)
  <2>1. free_list \in Seq(Buffers) /\ free_list # <<>>
    BY Zenon DEF QInv, TypeOK, PopFree
  <2>2. h = free_list[1] /\ 1 \in 1..Len(free_list) /\ h \in Buffers
    BY ONLY <1>1, <2>1
  <2> QED BY ONLY <2>2, Zenon DEF Elems
<1>4. buf \in [Buffers -> Buf]
  BY Zenon DEF QInv, TypeOK
<1>5. \A b \in Queued \cup BufsOf(cq) : buf'[b] = buf[b]
  <2>1. Queued \cup BufsOf(cq) \subseteq Buffers
    BY Zenon DEF QInv, AllPlaced, Queued
  <2>2. h \notin Queued \cup BufsOf(cq)
    BY <1>3, Zenon DEF Disjoint, Queued
  <2> QED BY ONLY <1>2, <1>4, <2>1, <2>2, Zenon
<1>6. Contiguous'
  <2>1. Count' = Count /\ \A k \in 1..Count : Chain(k)' = Chain(k)
    BY ONLY <1>2, Zenon DEF Count, Chain
  <2>2. \A k \in 1..Count : buf'[Chain(k)] = buf[Chain(k)]
    BY <1>5, ChainQueued, Zenon
  <2> QED BY <1>2, <2>1, <2>2, KeepContiguous, Zenon DEF Gapless
<1>7. AllDone'
  <2>1. \A k \in 1..Len(cq) : buf'[cq[k].b] = buf[cq[k].b]
    BY ONLY <1>5, Zenon DEF BufsOf
  <2> QED BY <1>2, <2>1, Zenon DEF Gapless, AllDone
<1>8. HeldAtEnd'
  <2>1. buf'[h] = Allocated(h)
    BY ONLY <1>2, <1>3, <1>4, Zenon
  <2> QED BY ONLY <1>2, <2>1 DEF HeldAtEnd, Allocated
<1>9. Batched' /\ Chained' /\ SameFile(fd)' /\ Full' /\ NewAtEnd'
  BY <1>2, Zenon DEF Gapless, Batched, Chained, SameFile, Full, NewAtEnd
<1> QED BY <1>6, <1>7, <1>8, <1>9, Zenon DEF Gapless

\* Without faults every completion frees its buffer.
LEMMA WaitGapless ==
  ASSUME QInv, Gapless, wait_for_one_cqe
  PROVE  Gapless'
<1>1. cq \in Seq(Cqe) /\ cq # <<>> /\ cq' = Tail(cq)
  BY Zenon DEF QInv, TypeOK, wait_for_one_cqe
<1>2. /\ Head(cq) = cq[1] /\ 1 \in 1..Len(cq)
      /\ \A k \in 1..Len(Tail(cq)) : Tail(cq)[k] = cq[k + 1] /\ k + 1 \in 1..Len(cq)
  BY ONLY <1>1
<1>3. Head(cq).res = buf[Head(cq).b].size
  BY <1>2, Zenon DEF Gapless, AllDone
<1>4. Head(cq).res \in {-1, buf[Head(cq).b].size}
  BY ONLY <1>3, Zenon
<1>5. UNCHANGED <<buf, sq, kernel, held, offset, files, fd, batch_index, opc, newfd>>
  BY <1>4, Zenon DEF wait_for_one_cqe, fileVars
<1>6. AllDone'
  BY ONLY <1>1, <1>2, <1>5, Gapless, Zenon DEF Gapless, AllDone
<1>7. NewAtEnd'
  BY <1>5, Zenon DEF Gapless, NewAtEnd
<1> QED BY <1>5, <1>6, <1>7, KeepGapless, Zenon
\* submit_buffer: the buffer joins the chain at the current offset.
LEMMA SubmitGapless ==
  ASSUME QInv, Disjoint, Gapless, Clean, Clean', NEW n \in Nat, submit_buffer(n)
  PROVE  Gapless'
<1>1. PICK h, e, q : /\ h = held /\ e = Prepared(h, batch_index % batch_size = 0)
                     /\ q = Append(sq, e)
  BY Zenon
<1>2. /\ h \in Buffers /\ sq \in Seq(Sqe) /\ kernel \in Seq(Req) /\ buf \in [Buffers -> Buf]
      /\ offset \in Nat /\ fd \in Int
  <2>1. held # None /\ opc = "idle"
    BY Zenon DEF submit_buffer
  <2>2. fd \in 1..(reopens + 1) /\ reopens \in 0..MaxReopens
    BY Zenon DEF QInv, TypeOK
  <2>3. fd \in Int
    BY ONLY <2>2
  <2> QED BY <1>1, <2>1, <2>3, Zenon DEF QInv, TypeOK
<1>3. /\ buf' = [buf EXCEPT ![h].size = n, ![h].data = logged]
      /\ offset' = offset + n /\ batch_index' = batch_index + 1 /\ held' = None
      /\ IF BatchFull THEN Submit(q) ELSE sq' = q /\ UNCHANGED <<kernel, refused>>
      /\ UNCHANGED <<opc, cq, files, fd, newfd>>
  BY <1>1, Zenon DEF submit_buffer, fileVars
<1>4. e \in Sqe /\ e.b = h /\ e.fd = fd /\ e.link = TRUE /\ e.drain = (batch_index % batch_size = 0)
  BY ONLY <1>1, <1>2, Zenon DEF Prepared, Sqe
<1>5. /\ q \in Seq(Sqe) /\ Len(q) = Len(sq) + 1 /\ Len(sq) \in Nat /\ Len(kernel) \in Nat
      /\ \A k \in 1..Len(sq) : q[k] = sq[k]
      /\ q[Len(sq) + 1] = e
  BY ONLY <1>1, <1>2, <1>4, SMTT(30)
<1>6. ASSUME NEW k \in 1..Len(q) PROVE k \in 1..Len(sq) \/ k = Len(sq) + 1
  BY ONLY <1>5, k \in 1..Len(q)
<1>7. \A k \in 1..Len(q) : q[k].link /\ (k = 1 => q[k].drain) /\ q[k].fd = fd
  <2>1. /\ \A k \in 1..Len(sq) : sq[k].link /\ (k = 1 => sq[k].drain) /\ sq[k].fd = fd
        /\ sq = <<>> => batch_index % batch_size = 0
    BY Zenon DEF Gapless, Batched, SameFile
  <2>2. Len(sq) + 1 = 1 => sq = <<>>
    BY ONLY <1>2
  <2> QED BY ONLY <1>4, <1>5, <1>6, <2>1, <2>2, Zenon
<1>8. /\ Chained' /\ Batched' /\ SameFile(fd)' /\ Count' = Len(kernel) + Len(q)
      /\ \A k \in 1..(Len(kernel) + Len(q)) :
           Chain(k)' = IF k <= Len(kernel) THEN kernel[k].b ELSE q[k - Len(kernel)].b
  <2>1. CASE BatchFull
    <3>1. sq' = <<>> /\ kernel' = kernel \o Linked(q)
      BY <1>3, <1>5, <2>1, WholeSubmit, Zenon DEF Clean
    <3>2. Batched'
      <4>1. \A k : k \notin 1..Len(<<>>)
        OBVIOUS
      <4> QED BY ONLY <1>3, <2>1, <3>1, <4>1, Zenon DEF Batched, BatchFull
    <3>3. SameFile(fd)'
      BY <1>2, <1>3, <1>5, <1>7, <2>1, SubmitSameFile, Zenon DEF Gapless, SameFile
    <3> QED BY <1>2, <1>5, <1>7, <3>1, <3>2, <3>3, SubmitChain, Zenon DEF Gapless
  <2>2. CASE ~BatchFull
    <3>1. sq' = q /\ kernel' = kernel
      BY ONLY <1>3, <2>2, Zenon
    <3>2. q # <<>>
      BY ONLY <1>1, <1>2, <1>4, SMTT(30)
    <3>3. Batched' /\ Chained' /\ SameFile(fd)'
      BY <1>3, <1>7, <3>1, <3>2, Zenon DEF Gapless, Batched, Chained, SameFile
    <3> QED BY ONLY <3>1, <3>3, Zenon DEF Count, Chain
  <2> QED BY ONLY <2>1, <2>2, Zenon
<1>m. PICK m : m = Count
  BY Zenon
<1>9. /\ m \in Nat /\ Count' = m + 1 /\ Chain(m + 1)' = h
      /\ \A k \in 1..m : Chain(k)' = Chain(k)
  <2>1. /\ Len(kernel) + Len(q) = m + 1 /\ m \in Nat /\ m + 1 \in 1..(Len(kernel) + Len(q))
        /\ ~(m + 1 <= Len(kernel)) /\ (m + 1) - Len(kernel) = Len(sq) + 1
    BY ONLY <1>5, <1>m DEF Count
  <2>2. ASSUME NEW k \in 1..m
        PROVE  /\ k \in 1..(Len(kernel) + Len(q))
               /\ ~(k <= Len(kernel)) => k - Len(kernel) \in 1..Len(sq)
    BY ONLY <1>5, <1>m, k \in 1..m DEF Count
  <2>3. \A k \in 1..m : Chain(k)' = Chain(k)
    BY ONLY <1>5, <1>8, <2>2, Zenon DEF Chain
  <2>4. Chain(m + 1)' = q[(m + 1) - Len(kernel)].b
    BY ONLY <1>8, <2>1, Zenon
  <2>5. Count' = m + 1
    BY ONLY <1>8, <2>1, Zenon
  <2> QED BY ONLY <1>4, <1>5, <2>1, <2>3, <2>4, <2>5, Zenon
<1>10. /\ buf'[h].size = n /\ buf'[h].file_offset = buf[h].file_offset
       /\ \A b \in Buffers \ {h} : buf'[b] = buf[b]
  <2>1. buf[h] \in Buf
    BY ONLY <1>2, Zenon
  <2> QED BY ONLY <1>2, <1>3, <2>1, Zenon DEF Buf
<1>11. h \notin Queued \cup BufsOf(cq) /\ Queued \cup BufsOf(cq) \subseteq Buffers
  BY <1>1, Zenon DEF Disjoint, Queued, QInv, AllPlaced
<1>12. \A b \in Queued \cup BufsOf(cq) : buf'[b] = buf[b]
  BY ONLY <1>10, <1>11, Zenon
<1>13. buf[h].file_offset = offset
  <2>1. h # None
    BY <1>1, Zenon DEF submit_buffer
  <2> QED BY <1>1, <2>1, Zenon DEF Gapless, HeldAtEnd
<1>14. Contiguous'
  <2>1. ASSUME NEW k \in 1..(m + 1) PROVE Begins(k)' = Begins(k)
    <3>1. k # m + 1 + 1 /\ ((k \in 1..m /\ k # m + 1) \/ k = m + 1)
      BY ONLY <1>9, k \in 1..(m + 1)
    <3>2. CASE k \in 1..m /\ k # m + 1
      <4>1. Chain(k) \in Queued
        BY <1>m, <3>2, ChainQueued, Zenon
      <4> QED BY ONLY <1>m, <1>9, <1>12, <3>1, <3>2, <4>1, Zenon DEF Begins
    <3>3. CASE k = m + 1
      BY ONLY <1>m, <1>9, <1>10, <1>13, <3>1, <3>3, Zenon DEF Begins
    <3> QED BY ONLY <3>1, <3>2, <3>3, Zenon
  <2>2. ASSUME NEW k \in 1..(m + 1) PROVE Begins(k + 1)' = Begins(k)' + buf'[Chain(k)'].size
    <3>1. (k \in 1..m /\ k + 1 \in 1..(m + 1)) \/ k = m + 1
      BY ONLY <1>9, k \in 1..(m + 1)
    <3>2. CASE k \in 1..m /\ k + 1 \in 1..(m + 1)
      <4>1. Chain(k) \in Queued
        BY <1>m, <3>2, ChainQueued, Zenon
      <4>2. buf'[Chain(k)'] = buf[Chain(k)] /\ Begins(k + 1) = Begins(k) + buf[Chain(k)].size
        BY <1>m, <1>9, <1>12, <3>2, <4>1, Zenon DEF Gapless, Contiguous
      <4> QED BY ONLY <2>1, <3>2, <4>2, k \in 1..(m + 1), Zenon
    <3>3. CASE k = m + 1
      <4>1. Begins(k + 1)' = offset' /\ Begins(k) = offset
        BY ONLY <1>m, <1>9, <3>3, Zenon DEF Begins
      <4>2. Begins(k)' = offset
        BY ONLY <2>1, <4>1, k \in 1..(m + 1), Zenon
      <4> QED BY ONLY <1>3, <1>9, <1>10, <3>3, <4>1, <4>2, Zenon
    <3> QED BY ONLY <3>1, <3>2, <3>3, Zenon
  <2>3. 1 \in 1..(m + 1)
    BY ONLY <1>9
  <2>4. Begins(1)' <= Len(files'[fd'])
    BY <1>3, <2>1, <2>3, Zenon DEF Gapless, Contiguous
  <2> QED BY ONLY <1>9, <2>2, <2>4, Zenon DEF Contiguous
<1>15. AllDone'
  <2>1. \A k \in 1..Len(cq) : buf'[cq[k].b] = buf[cq[k].b]
    BY ONLY <1>12, Zenon DEF BufsOf
  <2> QED BY <1>3, <2>1, ZenonT(40) DEF Gapless, AllDone
<1>16. HeldAtEnd' /\ NewAtEnd' /\ Full'
  BY <1>3, Zenon DEF Gapless, HeldAtEnd, NewAtEnd, Full
<1> QED BY <1>8, <1>14, <1>15, <1>16, Zenon DEF Gapless

\* The kernel runs requests in the order of the chain.
LEMMA FirstStarts ==
  ASSUME QInv, Chained, NEW k \in 1..Len(kernel), MayStart(k)
  PROVE  k = 1
<1>1. kernel \in Seq(Req)
  BY Zenon DEF QInv, TypeOK
<1> SUFFICES ASSUME k # 1 PROVE FALSE
  BY Zenon
<1>2. k \in 2..Len(kernel) /\ k - 1 \in 1..Len(kernel)
  BY ONLY <1>1, k \in 1..Len(kernel), k # 1
<1>3. kernel[k - 1].b \in Buffers
  BY ONLY <1>1, <1>2, Members
<1>4. None \notin Buffers
  BY StorageAssumption DEF Buffers
<1>5. kernel[k].drain \/ kernel[k].after = kernel[k - 1].b
  BY <1>2, Zenon DEF Chained
<1> QED BY <1>3, <1>4, <1>5, Zenon DEF MayStart

\* A write that begins within a file without holes, and is complete, leaves none.
LEMMA FullWrite ==
  ASSUME TypeOK, NEW old \in Seq(Nat), NEW b \in Buffers, NEW n \in Nat,
         NEW w, w = Written(old, b, n), buf[b].file_offset <= Len(old),
         \A o \in 1..Len(old) : old[o] # 0
  PROVE  /\ \A o \in 1..Len(w) : w[o] # 0
         /\ Len(w) >= Len(old) /\ Len(w) >= buf[b].file_offset + n /\ w \in Seq(Nat)
<1>1. IsWritten(w, old, b, n)
  BY WrittenFacts, Zenon
<1>2. PICK from, d : from = buf[b].file_offset /\ d = buf[b].data + buf[b].offset
  BY Zenon
<1>3. from \in Nat /\ d \in Nat
  <2>1. buf[b].file_offset \in Nat /\ buf[b].data \in Nat /\ buf[b].offset \in Nat
    BY Zenon DEF TypeOK, Buf
  <2> QED BY ONLY <1>2, <2>1, SMTT(30)
<1>4. /\ w \in Seq(Nat) /\ Len(w) >= Len(old) /\ (n > 0 => Len(w) >= from + n)
      /\ Len(w) <= Len(old) \/ Len(w) <= from + n
      /\ \A o \in 1..Len(w) :
           w[o] = IF o \in (from + 1)..(from + n) THEN d + (o - from)
                  ELSE IF o <= Len(old) THEN old[o] ELSE 0
  BY <1>1, <1>2, Zenon DEF IsWritten
<1>5. from <= Len(old)
  BY <1>2, Zenon
<1>6. Len(w) >= from + n
  BY ONLY <1>3, <1>4, <1>5, n \in Nat, old \in Seq(Nat)
<1>7. ASSUME NEW o \in 1..Len(w) PROVE w[o] # 0
  <2>1. o \in (from + 1)..(from + n) => d + (o - from) # 0
    BY ONLY <1>3, n \in Nat
  <2>2. o \notin (from + 1)..(from + n) /\ ~(o <= Len(old)) => FALSE
    <3>1. PICK l, x : l = Len(w) /\ x = Len(old)
      BY Zenon
    <3>2. l \in Nat /\ x \in Nat /\ o \in 1..l
      BY ONLY <1>4, <3>1, old \in Seq(Nat), o \in 1..Len(w)
    <3>3. l <= x \/ l <= from + n
      BY ONLY <1>4, <3>1, Zenon
    <3> QED BY ONLY <1>3, <1>5, <3>1, <3>2, <3>3, n \in Nat
  <2>3. o <= Len(old) => o \in 1..Len(old)
    BY ONLY old \in Seq(Nat), <1>4, o \in 1..Len(w)
  <2> QED BY <1>4, <2>1, <2>2, <2>3, Zenon
<1> QED BY ONLY <1>2, <1>4, <1>6, <1>7, Zenon
\* A whole write completes: the first of the chain leaves it, and the file ends no
\* earlier than the next one begins.
LEMMA CompleteGapless ==
  ASSUME QInv, Once, Gapless, Clean, Clean', NEW k \in 1..Len(kernel),
         NEW n \in {-1} \cup Nat, Complete(k, n)
  PROVE  Gapless'
<1>1. k = 1
  BY FirstStarts, Zenon DEF Gapless, Complete
<1>2. PICK b, K, u, N, w : /\ b = kernel[1].b /\ K = kernel /\ u = kernel' /\ N = Len(kernel)
                           /\ w = IF n = -1 THEN files[fd] ELSE Written(files[fd], b, n)
  BY Zenon
<1>3. /\ K \in Seq(Req) /\ N \in Nat /\ 1 \in 1..N /\ b \in Buffers /\ u \in Seq(Req)
      /\ Len(u) = N - 1 /\ cq \in Seq(Cqe)
  <2>1. kernel \in Seq(Req) /\ Len(kernel) \in Nat /\ cq \in Seq(Cqe)
    BY DEF QInv, TypeOK
  <2>2. b \in Buffers /\ u \in Seq(Req) /\ Len(u) = N - 1
    BY <1>1, <1>2, CompleteFacts, Zenon
  <2> QED BY <1>1, <1>2, <2>1, <2>2, Zenon
<1>4. buf[b].file_offset \in Nat
  BY <1>3, Zenon DEF QInv, TypeOK, Buf
<1>5. n = buf[b].size
  <2>1. n # buf[b].size => faults' = faults + 1
    BY <1>1, <1>2, Zenon DEF Complete
  <2>2. faults = 0 /\ faults' = 0
    BY Zenon DEF Clean
  <2> QED BY ONLY <2>1, <2>2
<1>6. n = -1 \/ (n \in Nat /\ n # -1)
  BY Zenon
<1>7. /\ cq' = Append(cq, [b |-> b, res |-> n])
      /\ files' = IF n = -1 THEN files ELSE [files EXCEPT ![fd] = Written(@, b, n)]
      /\ UNCHANGED <<opc, held, buf, offset, batch_index, sq, fd, newfd>>
  <2>1. kernel[k].fd = fd
    BY Zenon DEF Gapless, SameFile
  <2> QED BY <1>1, <1>2, <2>1, Zenon DEF Complete
<1>8. ASSUME NEW j \in 1..Len(u)
      PROVE  /\ j + 1 \in 1..N /\ u[j].b = K[j + 1].b /\ u[j].drain = K[j + 1].drain
             /\ u[j].fd = K[j + 1].fd
             /\ K[j + 1].after # b => u[j].after = K[j + 1].after
  <2>1. j + 1 \in 1..N /\ j \in 1..(N - 1) /\ ~(j < 1)
    BY ONLY <1>3, j \in 1..Len(u)
  <2>2. PICK r : r = K[j + 1]
    BY Zenon
  <2>3. u[j] = [r EXCEPT !.after = IF @ = b THEN None ELSE @]
    BY ONLY Complete(k, n), <1>1, <1>2, <2>1, <2>2, Zenon DEF Complete
  <2>4. r \in Req
    BY ONLY <1>3, <2>1, <2>2, <1>2
  <2> QED BY ONLY <2>1, <2>2, <2>3, <2>4, Zenon DEF Req
<1>9. Chained'
  <2> SUFFICES ASSUME NEW j \in 2..Len(u) PROVE u[j].drain \/ u[j].after = u[j - 1].b
    BY <1>2, Zenon DEF Chained
  <2>1. /\ j \in 1..Len(u) /\ j - 1 \in 1..Len(u) /\ j + 1 \in 2..N /\ (j + 1) - 1 = j
        /\ (j - 1) + 1 = j /\ j \in 1..N /\ j # 1
    BY ONLY <1>3, j \in 2..Len(u)
  <2>2. K[j + 1].drain \/ K[j + 1].after = K[j].b
    BY <1>2, <2>1, Zenon DEF Gapless, Chained
  <2>3. K[j].b # b
    BY <1>2, <1>3, <2>1, Zenon DEF Once, Disjoint, NoRepeat
  <2>4. u[j - 1].b = K[j].b
    BY ONLY <1>8, <2>1, Zenon
  <2> QED BY ONLY <1>8, <2>1, <2>2, <2>3, <2>4, Zenon
<1>m. PICK m : m = Count
  BY Zenon
<1>10. /\ m \in Nat /\ 1 \in 1..m /\ Count' = m - 1 /\ (m - 1) + 1 = m /\ 1 # m + 1
       /\ \A j \in 1..m : j + 1 = m + 1 <=> j = m
       /\ \A j \in 1..m : j = m \/ (j # m /\ j \in 1..(m - 1))
       /\ \A j \in 1..(m - 1) : j \in 1..m /\ j + 1 \in 1..m
  <2>1. m = N + Len(sq) /\ Count' = Len(u) + Len(sq) /\ Len(sq) \in Nat
    BY <1>2, <1>7, <1>m, ChainQueued, Zenon DEF Count
  <2>2. PICK s, c : s = Len(sq) /\ c = Count'
    BY Zenon
  <2>3. s \in Nat /\ m = N + s /\ c = m - 1 /\ m \in Nat /\ 1 \in 1..m
    BY ONLY <1>3, <2>1, <2>2, SMTT(30)
  <2>4. /\ (m - 1) + 1 = m /\ 1 # m + 1
        /\ \A j \in 1..m : j + 1 = m + 1 <=> j = m
        /\ \A j \in 1..m : j = m \/ (j # m /\ j \in 1..(m - 1))
        /\ \A j \in 1..(m - 1) : j \in 1..m /\ j + 1 \in 1..m
    BY ONLY <2>3, SMTT(30)
  <2> QED BY ONLY <2>2, <2>3, <2>4, Zenon
<1>11. Chain(1) = b
  BY ONLY <1>2, <1>3 DEF Chain
<1>12. ASSUME NEW j \in 1..(m - 1) PROVE Chain(j)' = Chain(j + 1)
  <2>1. /\ j <= Len(u) <=> j + 1 <= N
        /\ j <= Len(u) => j \in 1..Len(u)
        /\ j - Len(u) = (j + 1) - N
    BY ONLY <1>3, <1>10, j \in 1..(m - 1)
  <2>2. Chain(j)' = IF j <= Len(u) THEN u[j].b ELSE sq[j - Len(u)].b
    BY ONLY <1>2, <1>7, Zenon DEF Chain
  <2>3. Chain(j + 1) = IF j + 1 <= N THEN K[j + 1].b ELSE sq[(j + 1) - N].b
    BY ONLY <1>2, Zenon DEF Chain
  <2> QED BY ONLY <1>8, <2>1, <2>2, <2>3, Zenon
<1>13. ASSUME NEW j \in 1..m PROVE Begins(j)' = Begins(j + 1)
  <2>1. Begins(j)' = IF j = m THEN offset ELSE buf[Chain(j)'].file_offset
    BY ONLY <1>7, <1>10, Zenon DEF Begins
  <2>2. Begins(j + 1) = IF j = m THEN offset ELSE buf[Chain(j + 1)].file_offset
    BY ONLY <1>10, <1>m, j \in 1..m, Zenon DEF Begins
  <2> QED BY ONLY <1>10, <1>12, <2>1, <2>2, j \in 1..m, Zenon
<1>14. Begins(1) = buf[b].file_offset /\ Begins(1 + 1) = buf[b].file_offset + n
  <2>1. Begins(1) = buf[b].file_offset
    BY ONLY <1>10, <1>11, <1>m, Zenon DEF Begins
  <2>2. Begins(1 + 1) = Begins(1) + buf[Chain(1)].size
    BY <1>10, <1>m, Zenon DEF Gapless, Contiguous
  <2> QED BY ONLY <1>5, <1>11, <2>1, <2>2, Zenon
<1>15. /\ files \in [1..(MaxReopens + 1) -> Seq(Nat)] /\ fd \in 1..(MaxReopens + 1)
       /\ files[fd] \in Seq(Nat)
  <2>1. /\ files \in [1..(MaxReopens + 1) -> Seq(Nat)]
        /\ fd \in 1..(reopens + 1) /\ reopens \in 0..MaxReopens
    BY Zenon DEF QInv, TypeOK
  <2>2. fd \in 1..(MaxReopens + 1)
    BY ONLY <2>1, StorageAssumption DEF StorageAssumption
  <2> QED BY ONLY <2>1, <2>2, Zenon
<1>16. /\ \A o \in 1..Len(w) : w[o] # 0
       /\ Len(w) >= Len(files[fd]) /\ Len(w) >= buf[b].file_offset + n /\ w \in Seq(Nat)
  <2>1. buf[b].file_offset <= Len(files[fd])
    BY <1>14, Zenon DEF Gapless, Contiguous
  <2>2. \A o \in 1..Len(files[fd]) : files[fd][o] # 0
    BY <1>15, Zenon DEF Gapless, Full
  <2>3. TypeOK
    BY Zenon DEF QInv
  <2>4. CASE n = -1
    <3>1. w = files[fd]
      BY ONLY <1>2, <2>4, Zenon
    <3>2. PICK x, y : x = buf[b].file_offset /\ y = Len(files[fd])
      BY Zenon
    <3>3. x \in Nat /\ y \in Nat /\ x <= y
      BY ONLY <1>4, <1>15, <2>1, <3>2, SMTT(30)
    <3>4. y >= y /\ y >= x + n
      BY ONLY <2>4, <3>3
    <3> QED BY ONLY <1>15, <2>2, <3>1, <3>2, <3>4, Zenon
  <2>5. CASE n \in Nat /\ n # -1
    <3>1. w = Written(files[fd], b, n)
      BY ONLY <1>2, <2>5, Zenon
    <3> QED BY ONLY <1>3, <1>15, <2>1, <2>2, <2>3, <2>5, <3>1, FullWrite, Zenon
  <2> QED BY ONLY <1>6, <2>4, <2>5, Zenon
<1>17. /\ files'[fd] = w /\ DOMAIN files' = DOMAIN files
       /\ \A f \in DOMAIN files : f # fd => files'[f] = files[f]
  <2>1. CASE n = -1
    BY ONLY <1>2, <1>7, <2>1, Zenon
  <2>2. CASE n # -1
    <3>1. w = Written(files[fd], b, n) /\ files' = [files EXCEPT ![fd] = Written(files[fd], b, n)]
      BY ONLY <1>2, <1>7, <2>2, Zenon
    <3>2. files' = [files EXCEPT ![fd] = w]
      BY ONLY <3>1, Zenon
    <3> QED BY ONLY <1>15, <3>2, Zenon
  <2> QED BY ONLY <2>1, <2>2, Zenon
<1>18. Full'
  BY ONLY Gapless, <1>16, <1>17, Zenon DEF Gapless, Full
<1>19. Contiguous'
  <2>1. Begins(1)' <= Len(files'[fd'])
    <3>1. Begins(1)' = buf[b].file_offset + n
      BY ONLY <1>10, <1>13, <1>14, Zenon
    <3>2. Len(files'[fd']) = Len(w)
      BY ONLY <1>7, <1>17, Zenon
    <3>3. PICK x, y : x = buf[b].file_offset + n /\ y = Len(w)
      BY Zenon
    <3>4. x \in Int /\ y \in Int /\ y >= x
      BY ONLY <1>4, <1>6, <1>16, <3>3, SMTT(30)
    <3>5. x <= y
      BY ONLY <3>4, Zenon
    <3> QED BY ONLY <3>1, <3>2, <3>3, <3>5, Zenon
  <2>2. ASSUME NEW j \in 1..(m - 1) PROVE Begins(j + 1)' = Begins(j)' + buf'[Chain(j)'].size
    <3>1. PICK i : i = j + 1
      BY Zenon
    <3>2. i \in 1..m /\ j \in 1..m
      BY ONLY <1>10, <3>1, j \in 1..(m - 1), Zenon
    <3>3. Begins(i + 1) = Begins(i) + buf[Chain(i)].size
      BY <1>m, <3>2, Zenon DEF Gapless, Contiguous
    <3>4. Begins(i)' = Begins(i + 1) /\ Begins(j)' = Begins(i) /\ Chain(j)' = Chain(i)
      BY ONLY <1>12, <1>13, <3>1, <3>2, j \in 1..(m - 1), Zenon
    <3> QED BY ONLY <1>7, <3>1, <3>3, <3>4, Zenon
  <2> QED BY ONLY <1>10, <2>1, <2>2, Zenon DEF Contiguous
<1>20. AllDone'
  <2>1. PICK e : e = [b |-> b, res |-> n]
    BY Zenon
  <2>2. e.b = b /\ e.res = n /\ e \in Cqe
    BY ONLY <1>3, n \in {-1} \cup Nat, <2>1, Zenon DEF Cqe
  <2>3. /\ Len(cq') = Len(cq) + 1 /\ Len(cq) \in Nat /\ cq'[Len(cq) + 1] = e
        /\ \A j \in 1..Len(cq) : cq'[j] = cq[j]
    BY ONLY <1>3, <1>7, <2>1, <2>2, SMTT(30)
  <2>4. \A j \in 1..Len(cq') : j \in 1..Len(cq) \/ j = Len(cq) + 1
    BY ONLY <2>3
  <2> QED BY ONLY Gapless, <1>5, <1>7, <2>2, <2>3, <2>4, ZenonT(40) DEF Gapless, AllDone
<1>21. SameFile(fd)'
  <2>1. \A j \in 1..Len(u) : u[j].fd = fd
    BY <1>2, <1>8, ZenonT(40) DEF Gapless, SameFile
  <2> QED BY <1>2, <1>7, <2>1, Zenon DEF Gapless, SameFile
<1>22. Batched' /\ HeldAtEnd'
  BY <1>7, Zenon DEF Gapless, Batched, HeldAtEnd
<1>23. NewAtEnd'
  <2> SUFFICES ASSUME opc = "replace_fd" PROVE newfd.at <= Len(files'[newfd.file])
    BY <1>7, Zenon DEF NewAtEnd
  <2>1. newfd.at <= Len(files[newfd.file])
    BY Zenon DEF Gapless, NewAtEnd
  <2>2. newfd.at \in Nat /\ newfd.file \in 1..(MaxReopens + 1)
    <3>1. newfd \in [file : 1..(reopens + 1), at : Nat] /\ reopens \in 0..MaxReopens
      BY Zenon DEF QInv, TypeOK
    <3>2. newfd.at \in Nat /\ newfd.file \in 1..(reopens + 1)
      BY ONLY <3>1, Zenon
    <3> QED BY ONLY <3>1, <3>2, StorageAssumption DEF StorageAssumption
  <2>3. PICK x, y, z : /\ x = newfd.at /\ y = Len(files[newfd.file])
                       /\ z = Len(files'[newfd.file])
    BY Zenon
  <2>4. CASE newfd.file = fd
    <3>1. z = Len(w) /\ y = Len(files[fd])
      BY ONLY <1>17, <2>3, <2>4, Zenon
    <3>2. z >= y /\ y \in Nat /\ z \in Nat /\ x \in Nat /\ x <= y
      BY ONLY <1>15, <1>16, <2>1, <2>2, <2>3, <3>1, SMTT(30)
    <3>3. x <= z
      BY ONLY <3>2
    <3> QED BY ONLY <2>3, <3>3, Zenon
  <2>5. CASE newfd.file # fd
    BY ONLY <1>15, <1>17, <2>1, <2>2, <2>5, Zenon
  <2> QED BY ONLY <2>4, <2>5, Zenon
<1> QED BY <1>9, <1>18, <1>19, <1>20, <1>21, <1>22, <1>23, Zenon DEF Gapless
\* No step leaves a hole, as long as no write was short, failed or refused.
LEMMA NextGapInv == QInv /\ Once /\ GapInv /\ [Next]_vars => GapInv'
<1> SUFFICES ASSUME QInv, Once, GapInv, [Next]_vars PROVE GapInv'
  BY Zenon
<1>1. QInv' /\ Disjoint
  BY NextQInv, Zenon DEF Once
<1>2. faults' \in Nat /\ refused' \in Nat /\ (Clean' => Clean)
  BY CountsGrow, Zenon DEF GapInv
<1>3. ASSUME Clean' PROVE Gapless'
  <2>1. Clean /\ Clean' /\ Gapless
    BY <1>2, <1>3, Zenon DEF GapInv
  <2>2. CASE allocate_buffer \/ SyncReturn \/ replace_fd \/ UNCHANGED vars
    BY <2>1, <2>2, CallGapless, Zenon
  <2>3. CASE flush \/ sync \/ \E r \in Rotated : reopen(r)
    BY <1>1, <2>1, <2>3, FlushGapless, Zenon
  <2>4. CASE PopFree
    BY <1>1, <2>1, <2>4, PopGapless, Zenon
  <2>5. CASE wait_for_one_cqe
    BY <2>1, <2>5, WaitGapless, Zenon
  <2>6. ASSUME NEW n \in 1..buffer_capacity, submit_buffer(n) PROVE Gapless'
    <3>1. n \in Nat
      BY StorageAssumption DEF StorageAssumption
    <3> QED BY <1>1, <2>1, <2>6, <3>1, SubmitGapless, Zenon
  <2>7. ASSUME NEW k \in 1..Len(kernel), NEW n \in {-1} \cup 0..buf[kernel[k].b].size, Complete(k, n)
        PROVE  Gapless'
    <3>1. n \in {-1} \cup Nat
      <4>1. n = -1 \/ n \in 0..buf[kernel[k].b].size
        BY Zenon
      <4>2. PICK s : s = buf[kernel[k].b].size
        BY Zenon
      <4>3. n \in 0..s => n \in Nat
        OBVIOUS
      <4> QED BY ONLY <4>1, <4>2, <4>3, Zenon
    <3> QED BY <2>1, <2>7, <3>1, CompleteGapless, Zenon
  <2> QED BY <2>2, <2>3, <2>4, <2>5, <2>6, <2>7, Zenon DEF Next, Storage, Kernel
<1> QED BY <1>2, <1>3, Zenon DEF GapInv

\* The initial state has no queue, and files without holes.
LEMMA InitGapInv == Init => GapInv
<1> SUFFICES ASSUME Init PROVE GapInv
  BY Zenon
<1>1. /\ sq = <<>> /\ kernel = <<>> /\ cq = <<>> /\ held = None /\ opc = "idle"
      /\ batch_index = 0 /\ faults = 0 /\ refused = 0 /\ offset = 0 /\ fd = 1
      /\ files = [f \in 1..(MaxReopens + 1) |-> <<>>]
  BY Zenon DEF Init
<1>2. /\ Len(<<>>) = 0 /\ 0 % batch_size = 0 /\ 0 \in Nat /\ 0 + 0 = 0 /\ 1 = 0 + 1 /\ 0 <= 0
      /\ 1 \in 1..(MaxReopens + 1) /\ \A k : k \notin 1..0 /\ k \notin 2..0
  BY StorageAssumption DEF StorageAssumption
<1>3. Batched /\ Chained /\ AllDone /\ HeldAtEnd /\ NewAtEnd /\ SameFile(fd)
  BY ONLY <1>1, <1>2, Zenon DEF Batched, Chained, AllDone, HeldAtEnd, NewAtEnd, SameFile
<1>4. Full /\ files[fd] = <<>>
  BY ONLY <1>1, <1>2, Zenon DEF Full
<1>5. Count = 0
  BY ONLY <1>1, <1>2, Zenon DEF Count
<1>6. Begins(1) = 0
  BY ONLY <1>1, <1>2, <1>5, Zenon DEF Begins
<1>7. Contiguous
  BY ONLY <1>2, <1>4, <1>5, <1>6, Zenon DEF Contiguous
<1> QED BY <1>1, <1>2, <1>3, <1>4, <1>7, Zenon DEF GapInv, Gapless

\* Without short, failed or refused writes no file ever has a hole, whatever reopen
\* finds at the path: the drain of each batch and the links within it make the
\* writes complete in the order of their offsets.
THEOREM NoHolesAppear == Spec => []NoHoles
<1>1. QInv /\ Once /\ [Next]_vars => QInv' /\ Once'
  BY NextQInv, NextOnce, Zenon
<1>2. GapInv => NoHoles
  BY Zenon DEF GapInv, Clean, Gapless, Full, NoHoles
<1> QED BY <1>1, <1>2, InitQInv, InitOnce, InitGapInv, NextGapInv, PTL DEF Spec
=============================================================================
