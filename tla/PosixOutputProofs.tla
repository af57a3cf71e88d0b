------------------------- MODULE PosixOutputProofs --------------------------
(***************************************************************************)
(* The four properties of PosixOutput for buffers, lines and files of any  *)
(* length and any number of failures, truncations and reopens.  Sequences  *)
(* are described place by place: byte k of what is written, kept and still *)
(* to be copied is byte k of what was printed.                             *)
(***************************************************************************)
EXTENDS PosixOutput, TLAPS

Byte == Nat \ {0}
Submit == {"next", "flush", "reopen"}
Labels == Submit \cup {"idle", "append", "allocate", "open"}

TypeOK ==
  /\ pc \in Labels /\ begin \in BOOLEAN /\ owned \in BOOLEAN
  /\ line \in Seq(Byte) /\ data \in Seq(Byte) /\ out \in Seq(Byte) /\ accepted \in Seq(Byte)
  /\ file \in Seq(Nat) /\ pos \in Nat /\ append \in BOOLEAN /\ plain \in BOOLEAN
  /\ nwritten \in Nat /\ printed \in Nat
  /\ failures \in Nat /\ truncs \in Nat /\ reopens \in Nat

\* The buffer: it is given back before another is allocated, and a line is only
\* in the middle of being copied in append, next_buffer and allocate_buffer.
BufferInv ==
  /\ ~begin => data = <<>> /\ ~owned
  /\ pc = "allocate" => ~owned
  /\ Len(data) <= buffer_capacity
  /\ nwritten <= Len(data) /\ (pc \notin Submit => nwritten = 0)
  /\ pc \notin {"append", "next", "allocate"} => line = <<>>

\* Bytes of the buffer that have been written are in out; before a buffer is
\* replaced all of them are.
WrittenInv ==
  /\ \A k \in 1..nwritten : data[k] \in Range(out)
  /\ pc = "allocate" => Range(data) \subseteq Range(out)

\* Bytes of the buffer that have yet to be written.
Unwritten == IF pc = "allocate" THEN 0 ELSE Len(data) - nwritten

\* Without failures the bytes are in order: written, buffered, still to be copied.
StreamInv ==
  failures = 0 =>
    /\ \A k \in 1..Len(out) : out[k] = k
    /\ \A k \in 1..Unwritten : data[nwritten + k] = Len(out) + k
    /\ \A k \in 1..Len(line) : line[k] = Len(out) + Unwritten + k
    /\ Len(out) + Unwritten + Len(line) = printed

NoHole == ~plain => append /\ \A i \in 1..Len(file) : file[i] # 0

Covered == Range(out) \cup Range(data) = Range(accepted)

PInv == TypeOK /\ BufferInv /\ WrittenInv /\ StreamInv /\ Covered /\ NoHole

-----------------------------------------------------------------------------
\* Facts about sequences.

\* What two sequences hold together.
LEMMA RangeConcat ==
  ASSUME NEW S, NEW s \in Seq(S), NEW t \in Seq(S)
  PROVE  Range(s \o t) = Range(s) \cup Range(t)
<1>1. /\ DOMAIN s = 1..Len(s) /\ DOMAIN t = 1..Len(t) /\ Len(s) \in Nat /\ Len(t) \in Nat
      /\ DOMAIN (s \o t) = 1..(Len(s) + Len(t))
  OBVIOUS
<1>2. ASSUME NEW x \in Range(s \o t) PROVE x \in Range(s) \cup Range(t)
  <2> PICK i \in 1..(Len(s) + Len(t)) : (s \o t)[i] = x
    BY <1>1, <1>2, Zenon DEF Range
  <2>1. CASE i <= Len(s)
    BY <1>1, <2>1 DEF Range
  <2>2. CASE i > Len(s)
    <3>1. i - Len(s) \in 1..Len(t) /\ t[i - Len(s)] = x
      BY <1>1, <2>2
    <3> QED BY <1>1, <3>1, Zenon DEF Range
  <2> QED BY <1>1, <2>1, <2>2
<1>3. ASSUME NEW x \in Range(s) PROVE x \in Range(s \o t)
  <2> PICK i \in 1..Len(s) : s[i] = x
    BY <1>1, <1>3, Zenon DEF Range
  <2>1. i \in 1..(Len(s) + Len(t)) /\ (s \o t)[i] = x
    BY <1>1
  <2> QED BY <1>1, <2>1, Zenon DEF Range
<1>4. ASSUME NEW x \in Range(t) PROVE x \in Range(s \o t)
  <2> PICK i \in 1..Len(t) : t[i] = x
    BY <1>1, <1>4, Zenon DEF Range
  <2>1. Len(s) + i \in 1..(Len(s) + Len(t)) /\ (s \o t)[Len(s) + i] = x
    BY <1>1
  <2> QED BY <1>1, <2>1, Zenon DEF Range
<1> QED BY <1>2, <1>3, <1>4, Zenon

\* Concatenation keeps the elements of both sequences, in order.
LEMMA ConcatFacts ==
  ASSUME NEW S, NEW s \in Seq(S), NEW t \in Seq(S)
  PROVE  /\ s \o t \in Seq(S) /\ Len(s \o t) = Len(s) + Len(t)
         /\ \A k \in 1..Len(s) : (s \o t)[k] = s[k]
         /\ \A k \in 1..Len(t) : (s \o t)[Len(s) + k] = t[k]
  OBVIOUS

-----------------------------------------------------------------------------
\* One lemma per step.

\* Nothing is printed at first.
LEMMA InitPInv == Init => PInv
<1> SUFFICES ASSUME Init PROVE PInv
  BY Zenon
<1>1. TypeOK
  <2>1. \A S : <<>> \in Seq(S)
    OBVIOUS
  <2> QED BY <2>1, Zenon DEF Init, TypeOK, Labels, Submit
<1>2. BufferInv
  BY PosixAssumption DEF Init, BufferInv
<1>3. NoHole
  <2>1. ~plain => append
    BY Zenon DEF Init
  <2>2. \A i \in 1..Len(file) : file[i] # 0
    BY DEF Init
  <2> QED BY <2>1, <2>2, Zenon DEF NoHole
<1>4. WrittenInv /\ StreamInv /\ Covered
  BY DEF Init, WrittenInv, StreamInv, Covered, Unwritten, Range
<1> QED BY <1>1, <1>2, <1>3, <1>4, Zenon DEF PInv

\* print takes the next bytes.
LEMMA PrintPInv ==
  ASSUME PInv, NEW n \in 1..MaxLine, print(n)
  PROVE  PInv'
<1>1. n \in Nat
  BY PosixAssumption
<1>2. line' \in Seq(Byte) /\ Len(line') = n /\ \A k \in 1..n : line'[k] = printed + k
  BY <1>1 DEF PInv, TypeOK, print, Byte
<1>3. TypeOK'
  BY <1>1, <1>2 DEF PInv, TypeOK, print, Labels, fileVars
<1>4. BufferInv' /\ WrittenInv' /\ Covered' /\ NoHole'
  BY Zenon DEF PInv, BufferInv, WrittenInv, Covered, NoHole, print, Submit, fileVars
<1>5. StreamInv'
  <2>1. nwritten = 0 /\ line = <<>> /\ pc = "idle" /\ pc' = "append"
    BY Zenon DEF PInv, BufferInv, print, Submit
  <2>2. Unwritten' = Unwritten /\ Unwritten \in Nat /\ Len(out) \in Nat
    BY <2>1 DEF PInv, TypeOK, Unwritten, print
  <2>3. UNCHANGED <<failures, out, data, nwritten>> /\ printed' = printed + n /\ printed \in Nat
    BY Zenon DEF PInv, TypeOK, print
  <2>4. failures = 0 => Len(out) + Unwritten = printed
    BY <2>1, <2>2 DEF PInv, StreamInv
  <2> QED BY <1>1, <1>2, <2>1, <2>2, <2>3, <2>4, Zenon DEF PInv, StreamInv
<1> QED BY <1>3, <1>4, <1>5, Zenon DEF PInv

\* append copies the beginning of the line behind what is buffered.
LEMMA AppendPInv ==
  ASSUME PInv, append_bytes
  PROVE  PInv'
<1> DEFINE m == IF Len(line) <= buffer_capacity - Len(data)
                  THEN Len(line) ELSE buffer_capacity - Len(data)
           rest == SubSeq(line, m + 1, Len(line))
<1>1. begin /\ Len(data) \in Nat /\ Len(line) \in Nat /\ Len(data) <= buffer_capacity
  BY DEF PInv, TypeOK, BufferInv, append_bytes, AtEnd
<1>2. m \in Nat /\ m <= Len(line) /\ Len(data) + m <= buffer_capacity
  BY <1>1, PosixAssumption
<1>3. Copied = SubSeq(line, 1, m)
  BY Zenon DEF Copied
<1> HIDE DEF m
<1>4. /\ Copied \in Seq(Byte) /\ Len(Copied) = m /\ \A k \in 1..m : Copied[k] = line[k]
  BY <1>1, <1>2, <1>3 DEF PInv, TypeOK
<1>5. /\ rest \in Seq(Byte) /\ Len(rest) = Len(line) - m
      /\ \A k \in 1..(Len(line) - m) : rest[k] = line[m + k]
  BY <1>1, <1>2 DEF PInv, TypeOK
<1>6. line' = rest /\ data' = data \o Copied /\ accepted' = accepted \o Copied
  BY <1>4, Zenon DEF append_bytes
<1> HIDE DEF rest
<1>7. /\ Len(data') = Len(data) + m /\ data' \in Seq(Byte) /\ accepted' \in Seq(Byte)
      /\ \A k \in 1..Len(data) : data'[k] = data[k]
      /\ \A k \in 1..m : data'[Len(data) + k] = line[k]
  <2>1. data \in Seq(Byte) /\ accepted \in Seq(Byte)
    BY Zenon DEF PInv, TypeOK
  <2>2. accepted' \in Seq(Byte)
    BY <1>4, <1>6, <2>1, ConcatFacts, Zenon
  <2>3. /\ Len(data \o Copied) = Len(data) + Len(Copied) /\ data \o Copied \in Seq(Byte)
        /\ \A k \in 1..Len(data) : (data \o Copied)[k] = data[k]
        /\ \A k \in 1..Len(Copied) : (data \o Copied)[Len(data) + k] = Copied[k]
    BY <1>4, <2>1, ConcatFacts
  <2> QED BY <1>4, <1>6, <2>2, <2>3, Zenon
<1>8. TypeOK'
  BY <1>5, <1>6, <1>7, Zenon DEF PInv, TypeOK, append_bytes, fileVars, boundVars
<1>9. BufferInv'
  BY <1>1, <1>2, <1>7 DEF PInv, TypeOK, BufferInv, append_bytes, Submit
<1>10. WrittenInv' /\ NoHole'
  BY DEF PInv, BufferInv, WrittenInv, NoHole, append_bytes, fileVars, boundVars, Submit
<1>11. Covered'
  BY <1>4, <1>6, RangeConcat, SMTT(30) DEF PInv, TypeOK, Covered, append_bytes
<1>12. StreamInv'
  <2>1. /\ nwritten = 0 /\ nwritten' = 0 /\ out' = out /\ Len(out) \in Nat /\ printed' = printed
        /\ failures' = failures /\ Unwritten = Len(data) /\ Unwritten' = Len(data) + m
    BY <1>7 DEF PInv, TypeOK, BufferInv, Unwritten, append_bytes, Submit, boundVars
  <2>2. SUFFICES ASSUME failures = 0
                 PROVE  /\ \A k \in 1..(Len(data) + m) : data'[k] = Len(out) + k
                        /\ \A k \in 1..Len(line') : line'[k] = Len(out) + (Len(data) + m) + k
                        /\ Len(out) + (Len(data) + m) + Len(line') = printed
    BY <2>1 DEF PInv, StreamInv
  <2>3. /\ \A k \in 1..Len(data) : data[k] = Len(out) + k
        /\ \A k \in 1..Len(line) : line[k] = Len(out) + Len(data) + k
        /\ Len(out) + Len(data) + Len(line) = printed
    BY <1>1, <2>1, <2>2 DEF PInv, StreamInv
  <2>4. ASSUME NEW k \in 1..(Len(data) + m) PROVE data'[k] = Len(out) + k
    <3>1. CASE k <= Len(data)
      BY <1>1, <1>7, <2>3, <3>1
    <3>2. CASE k > Len(data)
      <4>1. k - Len(data) \in 1..m /\ Len(data) + (k - Len(data)) = k
        BY <1>1, <1>2, <3>2
      <4>2. data'[k] = line[k - Len(data)]
        BY <1>7, <4>1, Zenon
      <4>3. k - Len(data) \in 1..Len(line)
        BY <1>1, <1>2, <4>1
      <4>4. line[k - Len(data)] = Len(out) + Len(data) + (k - Len(data))
        BY <2>3, <4>3, Zenon
      <4> QED BY <1>1, <1>2, <2>1, <4>2, <4>4
    <3>3. k <= Len(data) \/ k > Len(data)
      BY <1>1, <1>2
    <3> QED BY <3>1, <3>2, <3>3, Zenon
  <2>5. ASSUME NEW k \in 1..Len(line') PROVE line'[k] = Len(out) + (Len(data) + m) + k
    <3>1. m + k \in 1..Len(line) /\ line'[k] = line[m + k] /\ k \in Nat
      BY <1>1, <1>2, <1>5, <1>6, SMTT(30)
    <3>2. line[m + k] = Len(out) + Len(data) + (m + k)
      BY <2>3, <3>1, Zenon
    <3> QED BY <1>1, <1>2, <2>1, <3>1, <3>2
  <2>6. Len(out) + (Len(data) + m) + Len(line') = printed
    <3>1. Len(line') = Len(line) - m
      BY <1>5, <1>6, Zenon
    <3> QED BY <1>1, <1>2, <2>1, <2>3, <3>1
  <2> QED BY <2>4, <2>5, <2>6, Zenon
<1> QED BY <1>8, <1>9, <1>10, <1>11, <1>12, Zenon DEF PInv

\* The line is done, next_buffer or flush is called, or others truncate the file.
LEMMA ControlPInv ==
  ASSUME PInv, LineDone \/ next_buffer \/ flush \/ ReopenCommand
  PROVE  PInv'
<1>1. /\ pc' \in Labels /\ nwritten = 0 /\ nwritten' = 0 /\ pc # "allocate"
      /\ UNCHANGED <<bufVars, fileVars, out, failures, boundVars>>
  BY Zenon DEF PInv, BufferInv, LineDone, next_buffer, First, flush, ReopenCommand, Flush, Labels, Submit
<1>2. pc' = "allocate" => data = <<>> /\ ~owned
  <2>1. CASE next_buffer
    BY <2>1, PosixAssumption, Zenon DEF PInv, TypeOK, BufferInv, next_buffer, First, AtEnd
  <2> QED BY <2>1, Zenon DEF LineDone, flush, ReopenCommand, Flush
<1>3. pc' \notin {"append", "next", "allocate"} => line = <<>>
  BY Zenon DEF PInv, BufferInv, LineDone, next_buffer, First, flush, ReopenCommand, Flush
<1>4. TypeOK'
  BY <1>1, Zenon DEF PInv, TypeOK, bufVars, fileVars, boundVars
<1>5. BufferInv'
  BY <1>1, <1>2, <1>3, Zenon DEF PInv, BufferInv, bufVars
<1>6. WrittenInv'
  BY <1>1, <1>2 DEF PInv, WrittenInv, bufVars, Range
<1>7. Covered' /\ NoHole'
  BY <1>1, Zenon DEF PInv, Covered, NoHole, bufVars, fileVars, boundVars
<1>8. StreamInv'
  <2>1. Unwritten' = Unwritten
    BY <1>1, <1>2 DEF Unwritten, bufVars
  <2> QED BY <1>1, <2>1, Zenon DEF PInv, StreamInv, bufVars, boundVars
<1> QED BY <1>4, <1>5, <1>6, <1>7, <1>8, Zenon DEF PInv

\* A buffer is only replaced when its bytes have been written.
LEMMA AllocatePInv ==
  ASSUME PInv, allocate_buffer
  PROVE  PInv'
<1>1. TypeOK'
  BY DEF PInv, TypeOK, allocate_buffer, Labels, fileVars, boundVars
<1>2. BufferInv'
  BY PosixAssumption DEF PInv, BufferInv, allocate_buffer, Submit
<1>3. WrittenInv' /\ NoHole'
  BY DEF PInv, BufferInv, WrittenInv, NoHole, allocate_buffer, fileVars, boundVars, Submit
<1>4. Covered'
  <2>1. Range(<<>>) = {}
    BY DEF Range
  <2> QED BY <2>1, Zenon DEF PInv, WrittenInv, Covered, allocate_buffer
<1>5. StreamInv'
  <2>1. Unwritten = 0 /\ Unwritten' = 0 /\ nwritten = 0
    BY DEF PInv, BufferInv, Unwritten, allocate_buffer, Submit
  <2> QED BY <2>1 DEF PInv, StreamInv, allocate_buffer, boundVars
<1> QED BY <1>1, <1>2, <1>3, <1>4, <1>5, Zenon DEF PInv

\* What write(2) leaves in the file, at the descriptor's offset or at the end.
LEMMA OverlayFacts ==
  ASSUME TypeOK, NEW c \in Seq(Byte)
  PROVE  /\ At \in Nat /\ Overlay(c) \in Seq(Nat)
         /\ append /\ (\A i \in 1..Len(file) : file[i] # 0) =>
              \A i \in 1..Len(Overlay(c)) : Overlay(c)[i] # 0
<1> DEFINE n == IF At + Len(c) > Len(file) THEN At + Len(c) ELSE Len(file)
           o == Overlay(c)
<1>1. At \in Nat /\ Len(file) \in Nat /\ Len(c) \in Nat
  BY DEF TypeOK, At
<1>2. n \in Nat
  BY <1>1
<1>3. o = [i \in 1..n |-> IF i \in (At + 1)..(At + Len(c)) THEN c[i - At]
                          ELSE IF i <= Len(file) THEN file[i] ELSE 0]
  BY Zenon DEF Overlay
<1>4. ASSUME NEW i \in 1..n
      PROVE  /\ i \in (At + 1)..(At + Len(c)) => c[i - At] \in Byte
             /\ i <= Len(file) => file[i] \in Nat
  <2>1. ASSUME i \in (At + 1)..(At + Len(c)) PROVE c[i - At] \in Byte
    <3>1. i - At \in 1..Len(c)
      BY <1>1, <2>1
    <3> QED BY <3>1
  <2>2. i <= Len(file) => file[i] \in Nat
    BY <1>1, <1>2, SMTT(30) DEF TypeOK
  <2> QED BY <2>1, <2>2, Zenon
<1>5. \A i \in 1..n : o[i] \in Nat
  BY <1>3, <1>4 DEF Byte
<1>6. o \in Seq(Nat) /\ Len(o) = n
  <2>1. DOMAIN o = 1..n
    BY <1>3, Zenon
  <2>2. o = [i \in 1..n |-> o[i]]
    BY <1>3, Zenon
  <2> HIDE DEF n, o
  <2> QED BY <1>2, <1>5, <2>1, <2>2, SMTT(30)
<1>7. ASSUME append, \A i \in 1..Len(file) : file[i] # 0, NEW i \in 1..n
      PROVE  o[i] # 0
  <2>1. At = Len(file) /\ n = Len(file) + Len(c)
    BY <1>1, <1>7 DEF At
  <2>2. CASE i <= Len(file)
    <3>1. i \notin (At + 1)..(At + Len(c)) /\ i \in 1..Len(file)
      BY <1>1, <1>2, <2>1, <2>2
    <3> QED BY <1>3, <1>7, <2>2, <3>1, Zenon
  <2>3. CASE i > Len(file)
    <3>1. i \in (At + 1)..(At + Len(c))
      BY <1>1, <1>2, <2>1, <2>3
    <3> QED BY <1>3, <1>4, <3>1, Zenon DEF Byte
  <2>4. i <= Len(file) \/ i > Len(file)
    BY <1>1, <1>2
  <2> QED BY <2>2, <2>3, <2>4, Zenon
<1> QED BY <1>1, <1>6, <1>7, Zenon

\* A write of any length moves bytes from the buffer to the file, in order.
LEMMA WritePInv ==
  ASSUME PInv, NEW n \in 1..buffer_capacity, write(n)
  PROVE  PInv'
<1> DEFINE chunk == SubSeq(data, nwritten + 1, nwritten + n)
<1>1. /\ n \in Nat /\ nwritten \in Nat /\ Len(data) \in Nat /\ Len(out) \in Nat
      /\ data \in Seq(Byte) /\ out \in Seq(Byte) /\ nwritten + n <= Len(data)
      /\ pc \in Submit /\ pc # "allocate" /\ pc' = pc
  BY PosixAssumption DEF PInv, TypeOK, write, Submitting, Submit
<1>2. /\ chunk \in Seq(Byte) /\ Len(chunk) = n /\ \A k \in 1..n : chunk[k] = data[nwritten + k]
      /\ \A k \in 1..n : data[nwritten + k] \in Range(chunk)
      /\ Range(chunk) \subseteq Range(data)
  <2>1. chunk \in Seq(Byte) /\ Len(chunk) = n /\ \A k \in 1..n : chunk[k] = data[nwritten + k]
    <3>1. /\ data \in Seq(Byte) /\ nwritten \in Nat /\ n \in Nat /\ Len(data) \in Nat
          /\ nwritten + n <= Len(data)
      BY <1>1, Zenon
    <3> QED BY ONLY <3>1
  <2> HIDE DEF chunk
  <2>2. DOMAIN chunk = 1..n /\ \A k \in 1..n : nwritten + k \in DOMAIN data
    BY <1>1, <2>1
  <2>3. ASSUME NEW k \in 1..n PROVE data[nwritten + k] \in Range(chunk)
    BY <2>1, <2>2, Zenon DEF Range
  <2>4. ASSUME NEW x \in Range(chunk) PROVE x \in Range(data)
    <3> PICK k \in 1..n : chunk[k] = x
      BY <2>2, <2>4, Zenon DEF Range
    <3>1. nwritten + k \in DOMAIN data /\ data[nwritten + k] = x
      BY <2>1, <2>2, Zenon
    <3> QED BY <3>1, Zenon DEF Range
  <2> QED BY <2>1, <2>3, <2>4, Zenon
<1>3. /\ out' = out \o chunk /\ nwritten' = nwritten + n /\ data' = data
      /\ file' = Overlay(chunk) /\ pos' = At + n /\ line' = line /\ failures' = failures
      /\ UNCHANGED <<bufVars, append, plain, boundVars>>
  BY Zenon DEF write, Advance, bufVars
<1> HIDE DEF chunk
<1>4. /\ out' \in Seq(Byte) /\ Len(out') = Len(out) + n
      /\ \A k \in 1..Len(out) : out'[k] = out[k]
      /\ \A k \in 1..n : out'[Len(out) + k] = data[nwritten + k]
  <2>1. /\ Len(out \o chunk) = Len(out) + Len(chunk) /\ out \o chunk \in Seq(Byte)
        /\ \A k \in 1..Len(out) : (out \o chunk)[k] = out[k]
        /\ \A k \in 1..Len(chunk) : (out \o chunk)[Len(out) + k] = chunk[k]
    <3>1. out \in Seq(Byte) /\ chunk \in Seq(Byte)
      BY <1>1, <1>2, Zenon
    <3> QED BY <3>1, ConcatFacts
  <2> QED BY <1>2, <1>3, <2>1, Zenon
<1>5. Range(out') = Range(out) \cup Range(chunk)
  BY <1>1, <1>2, <1>3, RangeConcat
<1>6. TypeOK'
  <2>1. file' \in Seq(Nat) /\ pos' \in Nat /\ nwritten' \in Nat
    <3>1. At \in Nat /\ Overlay(chunk) \in Seq(Nat)
      BY <1>2, OverlayFacts, Zenon DEF PInv
    <3> QED BY <1>1, <1>3, <3>1
  <2> QED BY <1>1, <1>3, <1>4, <2>1, Zenon DEF PInv, TypeOK, bufVars, boundVars
<1>7. BufferInv'
  BY <1>1, <1>3, Zenon DEF PInv, BufferInv, bufVars
<1>8. WrittenInv'
  <2>1. ASSUME NEW k \in 1..(nwritten + n) PROVE data[k] \in Range(out')
    <3>1. CASE k <= nwritten
      BY <1>1, <1>5, <3>1 DEF PInv, WrittenInv
    <3>2. CASE k > nwritten
      <4>1. k - nwritten \in 1..n /\ nwritten + (k - nwritten) = k
        BY <1>1, <3>2
      <4>2. data[nwritten + (k - nwritten)] \in Range(chunk)
        BY <1>2, <4>1, Zenon
      <4> QED BY <1>5, <4>1, <4>2, Zenon
    <3>3. k <= nwritten \/ k > nwritten
      BY <1>1
    <3> QED BY <3>1, <3>2, <3>3, Zenon
  <2> QED BY <1>1, <1>3, <2>1, Zenon DEF WrittenInv
<1>9. Covered'
  BY <1>2, <1>3, <1>5, Zenon DEF PInv, Covered, bufVars
<1>10. NoHole'
  BY <1>2, <1>3, OverlayFacts, Zenon DEF PInv, NoHole, boundVars
<1>11. StreamInv'
  <2>1. Unwritten = Len(data) - nwritten /\ Unwritten' = Len(data) - (nwritten + n)
    BY <1>1, <1>3, Zenon DEF Unwritten
  <2>2. SUFFICES ASSUME failures = 0
                 PROVE  /\ \A k \in 1..(Len(out) + n) : out'[k] = k
                        /\ \A k \in 1..(Len(data) - (nwritten + n)) :
                             data[(nwritten + n) + k] = (Len(out) + n) + k
    <3>1. /\ Len(out') + Unwritten' = Len(out) + Unwritten /\ printed' = printed
          /\ Len(out') + Unwritten' \in Int
      BY <1>1, <1>3, <1>4, <2>1 DEF boundVars
    <3>2. failures = 0 => /\ \A k \in 1..Len(line) : line'[k] = Len(out') + Unwritten' + k
                          /\ Len(out') + Unwritten' + Len(line) = printed'
      BY <1>3, <3>1, Zenon DEF PInv, StreamInv
    <3> QED BY <1>3, <1>4, <2>1, <3>2, Zenon DEF StreamInv
  <2>3. /\ \A k \in 1..Len(out) : out[k] = k
        /\ \A k \in 1..(Len(data) - nwritten) : data[nwritten + k] = Len(out) + k
    BY <2>1, <2>2, Zenon DEF PInv, StreamInv
  <2>4. ASSUME NEW k \in 1..(Len(out) + n) PROVE out'[k] = k
    <3>1. CASE k <= Len(out)
      BY <1>1, <1>4, <2>3, <3>1
    <3>2. CASE k > Len(out)
      <4>1. k - Len(out) \in 1..n /\ Len(out) + (k - Len(out)) = k
        BY <1>1, <3>2
      <4>2. out'[k] = data[nwritten + (k - Len(out))]
        BY <1>4, <4>1, Zenon
      <4>3. k - Len(out) \in 1..(Len(data) - nwritten)
        BY <1>1, <4>1
      <4>4. data[nwritten + (k - Len(out))] = Len(out) + (k - Len(out))
        BY <2>3, <4>3, Zenon
      <4> QED BY <4>1, <4>2, <4>4, Zenon
    <3>3. k <= Len(out) \/ k > Len(out)
      BY <1>1
    <3> QED BY <3>1, <3>2, <3>3, Zenon
  <2>5. ASSUME NEW k \in 1..(Len(data) - (nwritten + n))
        PROVE  data[(nwritten + n) + k] = (Len(out) + n) + k
    <3>1. n + k \in 1..(Len(data) - nwritten) /\ nwritten + (n + k) = (nwritten + n) + k
      BY <1>1
    <3>2. data[nwritten + (n + k)] = Len(out) + (n + k)
      BY <2>3, <3>1, Zenon
    <3> QED BY <1>1, <3>1, <3>2
  <2> QED BY <2>4, <2>5, Zenon
<1> QED BY <1>6, <1>7, <1>8, <1>9, <1>10, <1>11, Zenon DEF PInv

\* A write that fails leaves all of the buffer to be written again.
LEMMA WriteFailsPInv ==
  ASSUME PInv, WriteFails
  PROVE  PInv'
<1>1. TypeOK'
  BY DEF PInv, TypeOK, WriteFails, Kept, Labels, fileVars, boundVars
<1>2. BufferInv' /\ WrittenInv'
  BY DEF PInv, TypeOK, BufferInv, WrittenInv, WriteFails, Submitting, Kept, Submit
<1>3. Covered' /\ NoHole'
  BY Zenon DEF PInv, Covered, NoHole, WriteFails, Kept, fileVars, boundVars
<1>4. StreamInv'
  BY DEF PInv, TypeOK, StreamInv, WriteFails
<1> QED BY <1>1, <1>2, <1>3, <1>4, Zenon DEF PInv

\* The whole buffer has been written.
LEMMA SubmittedPInv ==
  ASSUME PInv, Submitted
  PROVE  PInv'
<1>1. /\ pc \in Submit /\ nwritten = Len(data) /\ nwritten' = 0 /\ data \in Seq(Byte)
      /\ Len(data) \in Nat
      /\ UNCHANGED <<line, accepted, fileVars, out, failures, boundVars>>
      /\ \/ pc = "next" /\ pc' = "allocate" /\ begin' = begin /\ data' = data
         \/ pc # "next" /\ pc' \in {"idle", "open"} /\ begin' = FALSE /\ data' = <<>>
      /\ owned' = FALSE
  BY Zenon DEF PInv, TypeOK, Submitted, Submit
<1>2. TypeOK'
  <2>1. data' \in Seq(Byte) /\ pc' \in Labels /\ begin' \in BOOLEAN
    <3>1. <<>> \in Seq(Byte)
      OBVIOUS
    <3> QED BY <1>1, <3>1, Zenon DEF PInv, TypeOK, Labels
  <2> QED BY <1>1, <2>1, Zenon DEF PInv, TypeOK, fileVars, boundVars
<1>3. BufferInv'
  BY <1>1, PosixAssumption DEF PInv, BufferInv, Submit
<1>4. Range(data) \subseteq Range(out) /\ Range(<<>>) = {}
  <2>1. DOMAIN data = 1..nwritten
    BY <1>1
  <2> QED BY <2>1 DEF PInv, WrittenInv, Range
<1>5. WrittenInv' /\ Covered' /\ NoHole'
  BY <1>1, <1>4 DEF PInv, WrittenInv, Covered, NoHole, fileVars, boundVars
<1>6. StreamInv'
  <2>1. Unwritten = 0 /\ Unwritten' = 0
    BY <1>1 DEF Unwritten, Submit
  <2> QED BY <1>1, <2>1 DEF PInv, StreamInv, boundVars
<1> QED BY <1>2, <1>3, <1>5, <1>6, Zenon DEF PInv

\* reopen and a truncation replace or empty the file; the bytes stay where they are.
LEMMA FilePInv ==
  ASSUME PInv, Truncate \/ \E rotated, ok, appends \in BOOLEAN : reopen(rotated, ok, appends)
  PROVE  PInv'
<1>1. /\ file' = file \/ file' = <<>>
      /\ pos' \in Nat /\ append' \in BOOLEAN /\ plain' \in BOOLEAN
      /\ ~plain' => append' /\ (~plain \/ file' = <<>>)
      /\ UNCHANGED <<bufVars, nwritten, out, failures, printed>>
      /\ truncs' \in Nat /\ reopens' \in Nat
      /\ pc' = pc \/ (pc = "open" /\ pc' = "idle")
  <2>1. CASE Truncate
    BY <2>1 DEF PInv, TypeOK, NoHole, Truncate
  <2>2. ASSUME NEW rotated \in BOOLEAN, NEW ok \in BOOLEAN, NEW appends \in BOOLEAN,
               reopen(rotated, ok, appends)
        PROVE  <1>1!:
    <3>1. /\ file' = file \/ file' = <<>>
          /\ pos' = pos \/ pos' = 0 \/ pos' = Len(file)
      BY <2>2, Zenon DEF reopen, fileVars
    <3>2. Len(file) \in Nat /\ pos \in Nat /\ append \in BOOLEAN /\ reopens \in Nat /\ truncs \in Nat
      BY DEF PInv, TypeOK
    <3>3. pos' \in Nat
      BY <3>1, <3>2
    <3>4. append' \in BOOLEAN /\ plain' \in BOOLEAN /\ (~plain' => append' /\ (~plain \/ file' = <<>>))
      BY <2>2 DEF PInv, TypeOK, NoHole, reopen, ReopenAppend, fileVars
    <3> QED BY <2>2, <3>1, <3>2, <3>3, <3>4 DEF reopen
  <2> QED BY <2>1, <2>2, Zenon
<1>2. TypeOK'
  <2>1. file' \in Seq(Nat) /\ pc' \in Labels
    <3>1. <<>> \in Seq(Nat)
      OBVIOUS
    <3> QED BY <1>1, <3>1, Zenon DEF PInv, TypeOK, Labels
  <2> QED BY <1>1, <2>1, Zenon DEF PInv, TypeOK, bufVars
<1>3. BufferInv' /\ WrittenInv' /\ Covered'
  BY <1>1, Zenon DEF PInv, BufferInv, WrittenInv, Covered, bufVars, Submit
<1>4. NoHole'
  <2>1. CASE file' = file /\ file' # <<>>
    BY <1>1, <2>1, Zenon DEF PInv, NoHole
  <2>2. CASE file' = <<>>
    BY <1>1, <2>2 DEF PInv, NoHole
  <2> QED BY <1>1, <2>1, <2>2, Zenon
<1>5. StreamInv'
  <2>1. Unwritten' = Unwritten
    BY <1>1, Zenon DEF Unwritten, bufVars
  <2> QED BY <1>1, <2>1, Zenon DEF PInv, StreamInv, bufVars
<1> QED BY <1>2, <1>3, <1>4, <1>5, Zenon DEF PInv

-----------------------------------------------------------------------------
\* PInv is inductive.
THEOREM PosixInvariance == Spec => []PInv
<1>1. PInv /\ [Next]_vars => PInv'
  <2> SUFFICES ASSUME PInv, [Next]_vars PROVE PInv'
    BY Zenon
  <2>1. CASE UNCHANGED vars
    BY <2>1 DEF PInv, TypeOK, BufferInv, WrittenInv, StreamInv, Unwritten, Covered, NoHole,
                vars, bufVars, fileVars, boundVars
  <2>2. CASE Next
    BY <2>2, PrintPInv, AppendPInv, ControlPInv, AllocatePInv, WritePInv, WriteFailsPInv,
       SubmittedPInv, FilePInv, Zenon DEF Next, Consumer
  <2> QED BY <2>1, <2>2, Zenon
<1> QED BY InitPInv, <1>1, PTL DEF Spec

\* buffer::next_buffer submits a buffer before it asks for another, also after a
\* submit_buffer that threw.
THEOREM SubmitsBeforeAllocating == Spec => []AllocatesAfterSubmit
<1>1. PInv => AllocatesAfterSubmit
  BY Zenon DEF PInv, BufferInv, AllocatesAfterSubmit
<1> QED BY <1>1, PosixInvariance, PTL

\* Bytes copied into a buffer are written at least once, whatever fails.
THEOREM NothingAcceptedIsLost == Spec => []AtLeastOnce
<1>1. PInv => AtLeastOnce
  BY Zenon DEF PInv, BufferInv, Covered, AtLeastOnce
<1> QED BY <1>1, PosixInvariance, PTL

\* With O_APPEND a file truncated by others never has a hole.
THEOREM TruncationLeavesNoHole == Spec => []NoHoleAfterTruncate
<1>1. PInv => NoHoleAfterTruncate
  <2> SUFFICES ASSUME PInv, ~plain, 0 \in Range(file) PROVE FALSE
    BY Zenon DEF NoHoleAfterTruncate
  <2>1. PICK i \in DOMAIN file : file[i] = 0
    BY Zenon DEF Range
  <2>2. DOMAIN file = 1..Len(file)
    BY DEF PInv, TypeOK
  <2> QED BY <2>1, <2>2, Zenon DEF PInv, NoHole
<1> QED BY <1>1, PosixInvariance, PTL

\* Without failing writes every byte printed is written once and in order.
THEOREM WrittenExactlyOnce == Spec => []ExactlyOnce
<1>1. PInv => ExactlyOnce
  <2> SUFFICES ASSUME PInv, failures = 0 PROVE ExactlyOnce
    BY Zenon DEF ExactlyOnce
  <2> DEFINE kept == IF pc = "allocate" THEN <<>> ELSE SubSeq(data, nwritten + 1, Len(data))
             u == Unwritten
  <2>1. /\ nwritten \in Nat /\ Len(data) \in Nat /\ nwritten <= Len(data) /\ u \in Nat
        /\ out \in Seq(Byte) /\ line \in Seq(Byte) /\ data \in Seq(Byte)
        /\ Len(out) \in Nat /\ Len(line) \in Nat /\ printed \in Nat
    BY DEF PInv, TypeOK, BufferInv, Unwritten
  <2>2. /\ kept \in Seq(Byte) /\ Len(kept) = u /\ \A k \in 1..u : kept[k] = data[nwritten + k]
    BY <2>1 DEF Unwritten
  <2>3. /\ \A k \in 1..Len(out) : out[k] = k
        /\ \A k \in 1..u : kept[k] = Len(out) + k
        /\ \A k \in 1..Len(line) : line[k] = Len(out) + u + k
        /\ Len(out) + u + Len(line) = printed
    BY <2>2, Zenon DEF PInv, StreamInv
  <2> HIDE DEF kept, u
  <2>4. /\ out \o kept \in Seq(Byte) /\ Len(out \o kept) = Len(out) + u
        /\ \A k \in 1..Len(out) : (out \o kept)[k] = k
        /\ \A k \in 1..u : (out \o kept)[Len(out) + k] = Len(out) + k
    <3>1. out \in Seq(Byte) /\ kept \in Seq(Byte)
      BY <2>1, <2>2, Zenon
    <3>2. /\ out \o kept \in Seq(Byte) /\ Len(out \o kept) = Len(out) + Len(kept)
          /\ \A k \in 1..Len(out) : (out \o kept)[k] = out[k]
          /\ \A k \in 1..Len(kept) : (out \o kept)[Len(out) + k] = kept[k]
      BY <3>1, ConcatFacts
    <3> QED BY <2>2, <2>3, <3>2, Zenon
  <2>5. \A k \in 1..(Len(out) + u) : (out \o kept)[k] = k
    <3> SUFFICES ASSUME NEW k \in 1..(Len(out) + u) PROVE (out \o kept)[k] = k
      BY Zenon
    <3>1. CASE k <= Len(out)
      BY <2>1, <2>4, <3>1
    <3>2. CASE k > Len(out)
      <4>1. k - Len(out) \in 1..u /\ Len(out) + (k - Len(out)) = k
        BY <2>1, <3>2
      <4> QED BY <2>4, <4>1, Zenon
    <3>3. k <= Len(out) \/ k > Len(out)
      BY <2>1
    <3> QED BY <3>1, <3>2, <3>3, Zenon
  <2> DEFINE all == out \o kept \o line
  <2>6. /\ all \in Seq(Byte) /\ Len(all) = printed
        /\ \A k \in 1..(Len(out) + u) : all[k] = k
        /\ \A k \in 1..Len(line) : all[(Len(out) + u) + k] = (Len(out) + u) + k
    <3>1. out \o kept \in Seq(Byte) /\ line \in Seq(Byte)
      BY <2>1, <2>4, Zenon
    <3>2. /\ all \in Seq(Byte) /\ Len(all) = Len(out \o kept) + Len(line)
          /\ \A k \in 1..Len(out \o kept) : all[k] = (out \o kept)[k]
          /\ \A k \in 1..Len(line) : all[Len(out \o kept) + k] = line[k]
      BY <3>1, ConcatFacts
    <3> HIDE DEF all
    <3> QED BY <2>3, <2>4, <2>5, <3>2, Zenon
  <2> HIDE DEF all
  <2>7. \A k \in 1..printed : all[k] = k
    <3> SUFFICES ASSUME NEW k \in 1..printed PROVE all[k] = k
      BY Zenon
    <3>1. CASE k <= Len(out) + u
      BY <2>1, <2>6, <3>1
    <3>2. CASE k > Len(out) + u
      <4>1. k - (Len(out) + u) \in 1..Len(line) /\ (Len(out) + u) + (k - (Len(out) + u)) = k
        BY <2>1, <2>3, <3>2
      <4> QED BY <2>6, <4>1, Zenon
    <3>3. k <= Len(out) + u \/ k > Len(out) + u
      BY <2>1
    <3> QED BY <3>1, <3>2, <3>3, Zenon
  <2>8. all = [k \in 1..printed |-> k]
    BY <2>1, <2>6, <2>7
  <2> QED BY <2>8, Zenon DEF ExactlyOnce, all, kept
<1> QED BY <1>1, PosixInvariance, PTL
=============================================================================
