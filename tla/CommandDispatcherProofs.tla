---------------------- MODULE CommandDispatcherProofs -----------------------
(***************************************************************************)
(* Proofs, for every set of clients, paths and descriptors, every size of  *)
(* a socket and all the bounds, of the safety properties of the command    *)
(* socket.                                                                 *)
(***************************************************************************)
EXTENDS CommandDispatcher, TLAPS

Events == {"IN", "OUT", "HUP"}
Pollfd == [fd : Fds \cup {None}, events : SUBSET Events, revents : SUBSET Events]
Frames == Seq(Clients \X Nat)

\* The types of the state.
Types ==
  /\ pollfds \in Seq(Pollfd)
  /\ DOMAIN results \subseteq Fds
  /\ \A f \in DOMAIN results :
       results[f] \in [bufs : Frames, pos : Nat] /\ results[f].pos <= Len(results[f].bufs)
  /\ DOMAIN peer \subseteq Fds /\ \A f \in DOMAIN peer : peer[f] \in Clients
  /\ pc \in {"idle", "accept", "loop"} /\ i \in Nat
  /\ backlog \in Seq(Clients) /\ eof \subseteq Clients
  /\ client \in [Clients -> {"new", "open", "closed"}]
  /\ inq \in [Clients -> Seq({"command", "bad"})]
  /\ outq \in [Clients -> Frames] /\ got \in [Clients -> Frames] /\ reply \in [Clients -> Frames]
  /\ ran \in [Clients -> Nat] /\ sets \in Nat /\ faults \in Nat

\* pollfds_ is the listener and the open connections, each once.
Tracked ==
  /\ pc # "idle" => is_open
  /\ pc = "loop" => i \in 2..(Len(pollfds) + 1)
  /\ is_open => pollfds[1].fd = None /\ DOMAIN results \subseteq DOMAIN peer
  /\ \A k \in 2..Len(pollfds) : pollfds[k].fd \in DOMAIN peer
  /\ \A f \in DOMAIN peer : \E k \in 2..Len(pollfds) : pollfds[k].fd = f
  /\ \A j, k \in 2..Len(pollfds) : pollfds[j].fd = pollfds[k].fd => j = k

\* A client waits whenever the listener was found ready.
Listening ==
  pc = "accept" => /\ pollfds[1].revents \in {{}, {"IN"}}
                   /\ "IN" \in pollfds[1].revents => backlog # <<>>

\* A client is at one place: not yet connected, waiting, connected through one
\* descriptor, or disconnected.
OnePlace ==
  /\ \A f, g \in DOMAIN peer : peer[f] = peer[g] => f = g
  /\ \A j, k \in 1..Len(backlog) : backlog[j] = backlog[k] => j = k
  /\ \A k \in 1..Len(backlog) : backlog[k] \notin eof /\ client[backlog[k]] # "new"
  /\ \A f \in DOMAIN peer : /\ peer[f] \notin eof /\ client[peer[f]] # "new"
                            /\ \A k \in 1..Len(backlog) : backlog[k] # peer[f]
  /\ \A c \in eof : client[c] # "new"

\* What a connection has still to send.
Rest(r) == SubSeq(r.bufs, r.pos + 1, Len(r.bufs))

\* What a connection promises: received, in the socket, and still to send make
\* up what was replied.
Promise(f) == (got[peer[f]] \o outq[peer[f]]) \o Rest(Result(f)) = reply[peer[f]]

\* A client that is not connected yet has been answered nothing, and what a
\* connected one has received or will receive is what was replied to it.
Fresh(c) == got[c] = <<>> /\ outq[c] = <<>> /\ reply[c] = <<>> /\ ran[c] = 0
Answering ==
  /\ \A c \in Clients : client[c] = "new" => Fresh(c)
  /\ \A k \in 1..Len(backlog) : Fresh(backlog[k])
  /\ \A f \in DOMAIN peer : client[peer[f]] # "closed" => Promise(f)
  /\ RepliesReachTheirClient

\* Entries whose revents process_commands has yet to look at.
Unvisited(k) == pc = "accept" \/ (pc = "loop" /\ k >= i)

\* Without a failing system call, the connection of client c is read from once,
\* when there is something to read, and only then written to; e is its entry, and
\* fresh says that the entry has yet to be looked at.
Once(e, c, fresh) ==
  /\ \/ e.events = {"IN"} /\ ran[c] = 0
     \/ e.events = {"OUT"} /\ (ran[c] = 1 \/ client[c] = "closed")
  /\ fresh => /\ e.revents \subseteq e.events \cup {"HUP"}
              /\ "IN" \in e.revents /\ client[c] = "open" => inq[c] # <<>>
              /\ "HUP" \in e.revents => client[c] = "closed"
ReadOnce ==
  /\ sets = 0 => pollfds = <<>> /\ backlog = <<>> /\ eof = {}
  /\ faults = 0 => \A k \in 2..Len(pollfds) :
                     Once(pollfds[k], peer[pollfds[k].fd], Unvisited(k))
  /\ EofMeansAnswered

-----------------------------------------------------------------------------
(* Functions, sequences and cardinalities. *)

\* The empty function of a closed dispatcher.
LEMMA EmptyFacts == /\ DOMAIN << >> = {} /\ Len(<<>>) = 0 /\ Range(<< >>) = {}
                    /\ \A S : <<>> \in Seq(S)
BY DEF Range

\* disconnect moves the last entry of pollfds_ to the place of the erased one.
LEMMA SwapAndPopFacts ==
  ASSUME NEW S, NEW s \in Seq(S), NEW k \in 1..Len(s)
  PROVE  /\ SwapAndPop(s, k) \in Seq(S) /\ Len(SwapAndPop(s, k)) = Len(s) - 1
         /\ \A j \in 1..(Len(s) - 1) : j # k => SwapAndPop(s, k)[j] = s[j]
         /\ k < Len(s) => SwapAndPop(s, k)[k] = s[Len(s)]
<1> DEFINE t == [s EXCEPT ![k] = s[Len(s)]]
<1>1. /\ t \in Seq(S) /\ Len(t) = Len(s) /\ t[k] = s[Len(s)]
      /\ \A j \in 1..Len(s) : j # k => t[j] = s[j]
  OBVIOUS
<1>2. SwapAndPop(s, k) = SubSeq(t, 1, Len(t) - 1)
  BY ONLY <1>1, Zenon DEF SwapAndPop
<1>3. Len(s) \in Nat /\ Len(s) >= 1
  OBVIOUS
<1> HIDE DEF t
<1> QED BY <1>1, <1>2, <1>3

\* The members of a sequence with one more.
LEMMA AppendFacts ==
  ASSUME NEW S, NEW s \in Seq(S), NEW e \in S
  PROVE  /\ Append(s, e) \in Seq(S) /\ Len(Append(s, e)) = Len(s) + 1
         /\ Append(s, e)[Len(s) + 1] = e
         /\ \A k \in 1..Len(s) : Append(s, e)[k] = s[k]
OBVIOUS

\* The members of a sequence without the first.
LEMMA TailFacts ==
  ASSUME NEW S, NEW s \in Seq(S), s # <<>>
  PROVE  /\ Tail(s) \in Seq(S) /\ Len(Tail(s)) = Len(s) - 1 /\ Len(s) \in Nat \ {0}
         /\ Head(s) \in S /\ Head(s) = s[1]
         /\ \A k \in 1..(Len(s) - 1) : Tail(s)[k] = s[k + 1] /\ k + 1 \in 1..Len(s)
OBVIOUS

\* Sequences with the same members are the same.
LEMMA SameSeq ==
  ASSUME NEW S, NEW s \in Seq(S), NEW t \in Seq(S), Len(s) = Len(t),
         \A k \in 1..Len(s) : s[k] = t[k]
  PROVE  s = t
OBVIOUS

\* The members of a concatenation.
LEMMA ConcatFacts ==
  ASSUME NEW S, NEW s \in Seq(S), NEW t \in Seq(S)
  PROVE  /\ s \o t \in Seq(S) /\ Len(s \o t) = Len(s) + Len(t)
         /\ \A k \in 1..Len(s) : (s \o t)[k] = s[k]
         /\ \A k \in 1..Len(t) : (s \o t)[Len(s) + k] = t[k]
         /\ \A k \in (Len(s) + 1)..(Len(s) + Len(t)) : (s \o t)[k] = t[k - Len(s)]
OBVIOUS

\* Concatenation is associative.
Assoc(a, b, c) == (a \o b) \o c = a \o (b \o c)

\* Sequences of any members concatenate associatively.
LEMMA ConcatAssoc ==
  ASSUME NEW S, NEW a \in Seq(S), NEW b \in Seq(S), NEW c \in Seq(S)
  PROVE  Assoc(a, b, c)
<1> DEFINE u == a \o b
           v == b \o c
           x == u \o c
           y == a \o v
           m == Len(a)
           n == Len(b)
           l == Len(c)
<1>1. /\ u \in Seq(S) /\ Len(u) = m + n
      /\ \A k \in 1..m : u[k] = a[k]
      /\ \A k \in (m + 1)..(m + n) : u[k] = b[k - m]
  BY ConcatFacts, ZenonT(40)
<1>2. /\ v \in Seq(S) /\ Len(v) = n + l
      /\ \A k \in 1..n : v[k] = b[k]
      /\ \A k \in (n + 1)..(n + l) : v[k] = c[k - n]
  BY ConcatFacts, ZenonT(40)
<1> HIDE DEF u, v
<1>3. /\ x \in Seq(S) /\ Len(x) = Len(u) + l
      /\ \A k \in 1..Len(u) : x[k] = u[k]
      /\ \A k \in (Len(u) + 1)..(Len(u) + l) : x[k] = c[k - Len(u)]
  <2>1. u \in Seq(S)
    BY ONLY <1>1, Zenon
  <2> QED BY ONLY <2>1, c \in Seq(S), ConcatFacts
<1>4. /\ y \in Seq(S) /\ Len(y) = m + Len(v)
      /\ \A k \in 1..m : y[k] = a[k]
      /\ \A k \in (m + 1)..(m + Len(v)) : y[k] = v[k - m]
  <2>1. v \in Seq(S)
    BY ONLY <1>2, Zenon
  <2> QED BY ONLY <2>1, a \in Seq(S), ConcatFacts
<1>5. m \in Nat /\ n \in Nat /\ l \in Nat
  OBVIOUS
<1> HIDE DEF x, y, m, n, l
<1>6. Len(x) = Len(y)
  BY ONLY <1>1, <1>2, <1>3, <1>4, <1>5
<1>7. ASSUME NEW k \in 1..Len(x) PROVE x[k] = y[k]
  <2>1. CASE k <= m
    <3>1. k \in 1..m /\ k \in 1..Len(u)
      BY ONLY <1>1, <1>3, <1>5, <2>1, k \in 1..Len(x)
    <3> QED BY ONLY <1>1, <1>3, <1>4, <3>1, Zenon
  <2>2. CASE m < k /\ k <= m + n
    <3>1. /\ k \in (m + 1)..(m + n) /\ k \in 1..Len(u) /\ k \in (m + 1)..(m + Len(v))
          /\ k - m \in 1..n
      BY ONLY <1>1, <1>2, <1>3, <1>5, <2>2, k \in 1..Len(x)
    <3> QED BY ONLY <1>1, <1>2, <1>3, <1>4, <3>1, ZenonT(40)
  <2>3. CASE m + n < k
    <3>1. /\ k \in (Len(u) + 1)..(Len(u) + l) /\ k \in (m + 1)..(m + Len(v))
          /\ k - m \in (n + 1)..(n + l) /\ (k - m) - n = k - Len(u)
      BY ONLY <1>1, <1>2, <1>3, <1>5, <2>3, k \in 1..Len(x)
    <3> QED BY ONLY <1>2, <1>3, <1>4, <3>1, ZenonT(40)
  <2>4. k \in Int
    OBVIOUS
  <2> QED BY ONLY <1>5, <2>1, <2>2, <2>3, <2>4
<1>8. x = y
  BY ONLY <1>3, <1>4, <1>6, <1>7, SameSeq, Zenon
<1> QED BY ONLY <1>8, Zenon DEF Assoc, x, y, u, v

\* A part of a sequence.
LEMMA SubSeqFacts ==
  ASSUME NEW S, NEW s \in Seq(S), NEW a \in Nat, NEW b \in Nat, a <= b, b <= Len(s)
  PROVE  /\ SubSeq(s, a + 1, b) \in Seq(S) /\ Len(SubSeq(s, a + 1, b)) = b - a
         /\ \A k \in 1..(b - a) : SubSeq(s, a + 1, b)[k] = s[a + k]
OBVIOUS

\* Two adjacent parts make one.
LEMMA SubSeqJoin ==
  ASSUME NEW S, NEW s \in Seq(S), NEW a \in Nat, NEW b \in Nat, a <= b, b <= Len(s)
  PROVE  SubSeq(s, a + 1, b) \o SubSeq(s, b + 1, Len(s)) = SubSeq(s, a + 1, Len(s))
<1> DEFINE p == SubSeq(s, a + 1, b)
           q == SubSeq(s, b + 1, Len(s))
           w == SubSeq(s, a + 1, Len(s))
<1>1. Len(s) \in Nat /\ Len(s) <= Len(s) /\ a <= Len(s)
  OBVIOUS
<1>2. p \in Seq(S) /\ Len(p) = b - a /\ \A k \in 1..(b - a) : p[k] = s[a + k]
  BY ONLY SubSeqFacts, s \in Seq(S), a \in Nat, b \in Nat, a <= b, b <= Len(s), Zenon
<1>3. q \in Seq(S) /\ Len(q) = Len(s) - b /\ \A k \in 1..(Len(s) - b) : q[k] = s[b + k]
  BY ONLY SubSeqFacts, <1>1, s \in Seq(S), b \in Nat, b <= Len(s), Zenon
<1>4. w \in Seq(S) /\ Len(w) = Len(s) - a /\ \A k \in 1..(Len(s) - a) : w[k] = s[a + k]
  BY ONLY SubSeqFacts, <1>1, s \in Seq(S), a \in Nat, Zenon
<1> HIDE DEF p, q, w
<1>5. /\ p \o q \in Seq(S) /\ Len(p \o q) = Len(p) + Len(q)
      /\ \A k \in 1..Len(p) : (p \o q)[k] = p[k]
      /\ \A k \in (Len(p) + 1)..(Len(p) + Len(q)) : (p \o q)[k] = q[k - Len(p)]
  <2>1. p \in Seq(S) /\ q \in Seq(S)
    BY ONLY <1>2, <1>3, Zenon
  <2> QED BY ONLY <2>1, ConcatFacts
<1>6. Len(p \o q) = Len(w)
  <2>1. /\ Len(p) = b - a /\ Len(q) = Len(s) - b /\ Len(w) = Len(s) - a
        /\ Len(p \o q) = Len(p) + Len(q)
    BY ONLY <1>2, <1>3, <1>4, <1>5, Zenon
  <2> QED BY ONLY <1>1, <2>1, a \in Nat, b \in Nat
<1>7. ASSUME NEW k \in 1..Len(p \o q) PROVE (p \o q)[k] = w[k]
  <2>0. /\ Len(p) = b - a /\ Len(q) = Len(s) - b /\ Len(w) = Len(s) - a
        /\ k \in 1..Len(w)
    BY ONLY <1>2, <1>3, <1>4, <1>6, <1>7, Zenon
  <2>1. CASE k <= b - a
    <3>1. k \in 1..Len(p) /\ k \in 1..(b - a) /\ k \in 1..(Len(s) - a)
      BY ONLY <1>1, <2>0, <2>1, a \in Nat, b \in Nat
    <3> QED BY ONLY <1>2, <1>4, <1>5, <3>1, Zenon
  <2>2. CASE ~(k <= b - a)
    <3>1. k - Len(p) \in 1..(Len(s) - b) /\ b + (k - Len(p)) = a + k
          /\ k \in (Len(p) + 1)..(Len(p) + Len(q)) /\ k \in 1..(Len(s) - a)
      BY ONLY <1>1, <2>0, <2>2, a \in Nat, b \in Nat, a <= b, b <= Len(s)
    <3> QED BY ONLY <1>3, <1>4, <1>5, <3>1, Zenon
  <2> QED BY ONLY <2>1, <2>2, Zenon
<1> QED BY ONLY <1>4, <1>5, <1>6, <1>7, SameSeq, Zenon DEF p, q, w

\* Moving the first member of the second sequence to the end of the first.
LEMMA HeadMoves ==
  ASSUME NEW S, NEW s \in Seq(S), NEW t \in Seq(S), t # <<>>
  PROVE  Append(s, Head(t)) \o Tail(t) = s \o t
BY SMTT(30)

\* A sequence is a prefix of its extensions.
LEMMA PrefixOfConcat ==
  ASSUME NEW S, NEW s \in Seq(S), NEW t \in Seq(S)
  PROVE  IsPrefix(s, s \o t)
BY DEF IsPrefix

-----------------------------------------------------------------------------
(* Types. *)

\* An entry of pollfds_, and the reply of a descriptor.
LEMMA Members ==
  /\ \A e \in Pollfd : /\ e.fd \in Fds \cup {None}
                       /\ e.events \in SUBSET Events /\ e.revents \in SUBSET Events
  /\ Listener \in Pollfd /\ \A f \in Fds : Connection(f) \in Pollfd
BY Zenon DEF Pollfd, Listener, Connection, Events

\* What results_ holds for a descriptor is well-formed, also when it holds nothing.
LEMMA ResultFacts ==
  ASSUME Types, NEW f
  PROVE  /\ Result(f) \in [bufs : Frames, pos : Nat] /\ Result(f).bufs \in Frames
         /\ Result(f).pos \in Nat /\ Result(f).pos <= Len(Result(f).bufs)
<1>1. CASE f \in DOMAIN results
  <2>1. /\ results[f] \in [bufs : Frames, pos : Nat]
        /\ results[f].pos <= Len(results[f].bufs)
    BY <1>1, Zenon DEF Types
  <2>2. Result(f) = results[f]
    BY <1>1, Zenon DEF Result
  <2>3. results[f].bufs \in Frames /\ results[f].pos \in Nat
    BY ONLY <2>1, Zenon
  <2> QED BY ONLY <2>1, <2>2, <2>3, Zenon
<1>2. CASE f \notin DOMAIN results
  <2>1. Result(f) = [bufs |-> <<>>, pos |-> 0] /\ <<>> \in Frames
    BY <1>2, EmptyFacts, Zenon DEF Result, NoResult, Frames
  <2> QED BY ONLY <2>1
<1> QED BY <1>1, <1>2, Zenon

\* Everything is empty at first.
LEMMA InitTypes == Init => Types
<1> SUFFICES ASSUME Init PROVE Types
  BY Zenon
<1>1. /\ pollfds \in Seq(Pollfd) /\ backlog \in Seq(Clients) /\ eof \subseteq Clients
      /\ DOMAIN results = {} /\ DOMAIN peer = {}
  BY EmptyFacts, Zenon DEF Init
<1>2. /\ client \in [Clients -> {"new", "open", "closed"}]
      /\ inq \in [Clients -> Seq({"command", "bad"})] /\ outq \in [Clients -> Frames]
      /\ got \in [Clients -> Frames] /\ reply \in [Clients -> Frames]
  BY EmptyFacts, Zenon DEF Init, Frames
<1>3. /\ ran \in [Clients -> Nat] /\ sets \in Nat /\ faults \in Nat
      /\ pc \in {"idle", "accept", "loop"} /\ i \in Nat
  BY Zenon DEF Init
<1> QED BY <1>1, <1>2, <1>3, Zenon DEF Types

\* The steps of the clients.
LEMMA ClientTypes ==
  ASSUME Types, NEW c \in Clients,
         connect(c) \/ send_command(c) \/ receive_reply(c) \/ hang_up(c)
  PROVE  Types'
<1>1. CASE connect(c)
  <2>1. backlog' \in Seq(Clients)
    BY <1>1, AppendFacts, Zenon DEF Types, connect
  <2>2. client' \in [Clients -> {"new", "open", "closed"}]
    BY <1>1, Zenon DEF Types, connect
  <2> QED BY <1>1, <2>1, <2>2, Zenon DEF Types, connect, dispatcherVars, loopVars, setVars, historyVars
<1>2. CASE send_command(c)
  <2>1. inq' \in [Clients -> Seq({"command", "bad"})]
    <3>1. PICK f \in {"command", "bad"} : inq' = [inq EXCEPT ![c] = Append(@, f)]
      BY <1>2, Zenon DEF send_command
    <3>2. Append(inq[c], f) \in Seq({"command", "bad"})
      BY AppendFacts, ZenonT(40) DEF Types
    <3> QED BY <3>1, <3>2, Zenon DEF Types
  <2> QED BY <1>2, <2>1, Zenon DEF Types, send_command, dispatcherVars, loopVars, setVars, historyVars
<1>3. CASE receive_reply(c)
  <2>1. outq[c] \in Frames /\ got[c] \in Frames /\ outq[c] # <<>>
    BY <1>3, Zenon DEF Types, receive_reply
  <2>2. Tail(outq[c]) \in Frames /\ Append(got[c], Head(outq[c])) \in Frames
    BY ONLY <2>1 DEF Frames
  <2>3. outq' \in [Clients -> Frames] /\ got' \in [Clients -> Frames]
    BY <1>3, <2>2, Zenon DEF Types, receive_reply
  <2> QED BY <1>3, <2>3, Zenon DEF Types, receive_reply, dispatcherVars, loopVars, setVars, historyVars
<1>4. CASE hang_up(c)
  <2>1. client' \in [Clients -> {"new", "open", "closed"}]
    BY <1>4, Zenon DEF Types, hang_up
  <2>2. outq' \in [Clients -> Frames]
    BY <1>4, EmptyFacts, Zenon DEF Types, hang_up, Frames
  <2> QED BY <1>4, <2>1, <2>2, Zenon DEF Types, hang_up, dispatcherVars, loopVars, setVars, historyVars
<1> QED BY <1>1, <1>2, <1>3, <1>4, Zenon

\* What poll reports is a set of events.
LEMMA ReadyType ==
  ASSUME NEW e \in Pollfd
  PROVE  Ready(e) \in SUBSET Events
<1>1. e.events \in SUBSET Events
  BY Members, Zenon
<1> QED BY ONLY <1>1, Zenon DEF Ready, Events

\* poll rewrites revents and nothing else of pollfds_.
LEMMA PollFacts ==
  ASSUME Types, poll
  PROVE  /\ pollfds' \in Seq(Pollfd) /\ Len(pollfds') = Len(pollfds) /\ Len(pollfds) \in Nat
         /\ \A k \in 1..Len(pollfds) :
              /\ pollfds'[k].fd = pollfds[k].fd /\ pollfds'[k].events = pollfds[k].events
              /\ pollfds'[k].revents = Ready(pollfds[k])
<1> DEFINE s == pollfds
           t == [k \in DOMAIN s |-> [s[k] EXCEPT !.revents = Ready(s[k])]]
<1>1. s \in Seq(Pollfd) /\ Len(s) \in Nat /\ DOMAIN s = 1..Len(s)
  BY DEF Types
<1>2. ASSUME NEW k \in 1..Len(s)
      PROVE  /\ t[k] \in Pollfd /\ t[k].fd = s[k].fd /\ t[k].events = s[k].events
             /\ t[k].revents = Ready(s[k])
  <2>1. s[k] \in Pollfd
    BY ONLY <1>1, <1>2
  <2>2. Ready(s[k]) \in SUBSET Events
    BY ONLY <2>1, ReadyType, Zenon
  <2>3. t[k] = [s[k] EXCEPT !.revents = Ready(s[k])]
    BY ONLY <1>1, <1>2, Zenon
  <2> QED BY ONLY <2>1, <2>2, <2>3, Zenon DEF Pollfd
<1>3. t \in Seq(Pollfd) /\ Len(t) = Len(s)
  <2>1. t \in [1..Len(s) -> Pollfd]
    BY ONLY <1>1, <1>2, Zenon
  <2> HIDE DEF t
  <2> QED BY ONLY <1>1, <2>1
<1>4. pollfds' = t
  BY Zenon DEF poll
<1> QED BY ONLY <1>1, <1>2, <1>3, <1>4, Zenon

\* The index of process_commands is that of a connection.
LEMMA InLoopFacts ==
  ASSUME Types, Tracked, InLoop
  PROVE  /\ Len(pollfds) \in Nat /\ i \in 2..Len(pollfds) /\ i \in 1..Len(pollfds)
         /\ Entry = pollfds[i] /\ Entry \in Pollfd
         /\ Entry.fd \in DOMAIN peer /\ Entry.fd \in Fds /\ peer[Entry.fd] \in Clients
<1>1. pollfds \in Seq(Pollfd) /\ Len(pollfds) \in Nat
  BY DEF Types
<1>2. i \in 2..(Len(pollfds) + 1) /\ i <= Len(pollfds) /\ i \in Nat
  BY Zenon DEF Types, Tracked, InLoop
<1>3. i \in 2..Len(pollfds) /\ i \in 1..Len(pollfds)
  BY ONLY <1>1, <1>2
<1>4. pollfds[i] \in Pollfd
  BY ONLY <1>1, <1>3
<1> QED BY <1>1, <1>3, <1>4, Zenon DEF Types, Tracked, Entry

\* A read leaves the entry waiting to write.
LEMMA ReadFacts ==
  ASSUME Types, Tracked, process_socket_read
  PROVE  /\ pollfds' \in Seq(Pollfd) /\ Len(pollfds') = Len(pollfds)
         /\ \A k \in 1..Len(pollfds) :
              /\ pollfds'[k].fd = pollfds[k].fd /\ pollfds'[k].revents = pollfds[k].revents
              /\ pollfds'[k].events = IF k = i THEN {"OUT"} ELSE pollfds[k].events
<1>1. pollfds' = [pollfds EXCEPT ![i].events = {"OUT"}]
  BY Zenon DEF process_socket_read, AfterRead
<1>2. InLoop
  BY Zenon DEF process_socket_read
<1>3. /\ pollfds \in Seq(Pollfd) /\ Len(pollfds) \in Nat /\ i \in 1..Len(pollfds)
      /\ pollfds[i] \in Pollfd
  BY <1>2, InLoopFacts, Zenon DEF Types, Entry
<1>4. [pollfds[i] EXCEPT !.events = {"OUT"}] \in Pollfd
  BY ONLY <1>3, Zenon DEF Pollfd, Events
<1>5. pollfds' \in Seq(Pollfd) /\ Len(pollfds') = Len(pollfds)
  BY ONLY <1>1, <1>3, <1>4
<1>6. DOMAIN pollfds = 1..Len(pollfds)
  BY ONLY <1>3
<1>7. ASSUME NEW k \in 1..Len(pollfds)
      PROVE  /\ pollfds'[k].fd = pollfds[k].fd /\ pollfds'[k].revents = pollfds[k].revents
             /\ pollfds'[k].events = IF k = i THEN {"OUT"} ELSE pollfds[k].events
  <2>1. CASE k = i
    <3>1. pollfds'[k] = [pollfds[i] EXCEPT !.events = {"OUT"}]
      BY ONLY <1>1, <1>6, <2>1, k \in 1..Len(pollfds), Zenon
    <3> QED BY ONLY <1>3, <2>1, <3>1, Zenon DEF Pollfd
  <2>2. CASE k # i
    <3>1. pollfds'[k] = pollfds[k]
      BY ONLY <1>1, <1>6, <2>2, k \in 1..Len(pollfds), Zenon
    <3> QED BY ONLY <2>2, <3>1, Zenon
  <2> QED BY ONLY <2>1, <2>2, Zenon
<1> QED BY ONLY <1>5, <1>7, Zenon

\* disconnect takes one entry, one descriptor and its results away.
LEMMA DisconnectFacts ==
  ASSUME Types, Tracked, InLoop, disconnect(Entry.fd)
  PROVE  /\ pollfds' \in Seq(Pollfd) /\ Len(pollfds') = Len(pollfds) - 1
         /\ \A k \in 1..(Len(pollfds) - 1) : k # i => pollfds'[k] = pollfds[k]
         /\ i < Len(pollfds) => pollfds'[i] = pollfds[Len(pollfds)]
         /\ DOMAIN peer' = DOMAIN peer \ {Entry.fd}
         /\ \A f \in DOMAIN peer' : peer'[f] = peer[f]
         /\ DOMAIN results' = DOMAIN results \ {Entry.fd}
         /\ \A f \in DOMAIN results' : results'[f] = results[f]
         /\ eof' = eof \cup {peer[Entry.fd]} /\ i' = i
<1>1. pollfds' = SwapAndPop(pollfds, i)
  BY Zenon DEF disconnect
<1>2. pollfds \in Seq(Pollfd) /\ i \in 1..Len(pollfds)
  BY InLoopFacts, Zenon DEF Types
<1>3. /\ pollfds' \in Seq(Pollfd) /\ Len(pollfds') = Len(pollfds) - 1
      /\ \A k \in 1..(Len(pollfds) - 1) : k # i => pollfds'[k] = pollfds[k]
      /\ i < Len(pollfds) => pollfds'[i] = pollfds[Len(pollfds)]
  BY ONLY <1>1, <1>2, SwapAndPopFacts, Zenon
<1>4. /\ DOMAIN peer' = DOMAIN peer \ {Entry.fd}
      /\ \A f \in DOMAIN peer' : peer'[f] = peer[f]
  BY Zenon DEF disconnect
<1>5. /\ DOMAIN results' = DOMAIN results \ {Entry.fd}
      /\ \A f \in DOMAIN results' : results'[f] = results[f]
  BY Zenon DEF disconnect, Erase
<1>6. eof' = eof \cup {peer[Entry.fd]} /\ i' = i
  BY Zenon DEF disconnect, NextIndex
<1> QED BY ONLY <1>3, <1>4, <1>5, <1>6, Zenon

\* process_socket_write sends some of the frames that are left, and disconnects
\* when all are sent or a send fails.
LEMMA WriteFacts ==
  ASSUME Types, Tracked, process_socket_write
  PROVE  \E failed \in BOOLEAN, pos \in Nat :
           /\ Result(Entry.fd).pos <= pos /\ pos <= Len(Result(Entry.fd).bufs)
           /\ outq' = [outq EXCEPT ![peer[Entry.fd]] =
                         @ \o SubSeq(Result(Entry.fd).bufs, Result(Entry.fd).pos + 1, pos)]
           /\ failed => client[peer[Entry.fd]] = "closed" \/ faults' # 0
           /\ faults' \in Nat /\ (faults' = 0 => faults = 0)
           /\ \/ (failed \/ pos = Len(Result(Entry.fd).bufs)) /\ disconnect(Entry.fd)
              \/ /\ results' = With(results, Entry.fd, [Result(Entry.fd) EXCEPT !.pos = pos])
                 /\ i' = i + 1 /\ UNCHANGED <<pollfds, peer, eof>>
<1> DEFINE fd == Entry.fd
           c == peer[fd]
           r == Result(fd)
<1>1. PICK failed \in BOOLEAN, n \in 0..Len(r.bufs) :
        /\ r.pos + n <= Len(r.bufs)
        /\ IF client[c] = "closed"
           THEN n = 0 /\ failed = (r.pos + n < Len(r.bufs)) /\ faults' = faults
           ELSE /\ Len(outq[c]) + n <= Room
                /\ IF failed THEN r.pos + n < Len(r.bufs) /\ Fault
                   ELSE /\ r.pos + n < Len(r.bufs) => ~(Len(outq[c]) + n < Room)
                        /\ faults' = faults
        /\ outq' = [outq EXCEPT ![c] = @ \o SubSeq(r.bufs, r.pos + 1, r.pos + n)]
        /\ IF Done(r.pos + n, r, failed) THEN disconnect(fd)
           ELSE /\ results' = With(results, fd, [r EXCEPT !.pos = r.pos + n])
                /\ i' = NextIndex(FALSE)
                /\ UNCHANGED <<pollfds, peer, eof>>
  BY Zenon DEF process_socket_write
<1>2. r.bufs \in Frames /\ r.pos \in Nat
  BY ResultFacts, Zenon
<1> HIDE DEF fd, c, r
<1>3. Len(r.bufs) \in Nat
  BY ONLY <1>2 DEF Frames
<1>4. n \in Nat /\ r.pos + n \in Nat /\ r.pos <= r.pos + n
  BY ONLY <1>2, <1>3, n \in 0..Len(r.bufs)
<1>5. faults \in Nat
  BY Zenon DEF Types
<1>6. Fault => faults' \in Nat \ {0}
  BY ONLY <1>5 DEF Fault
<1>7. /\ failed => client[c] = "closed" \/ faults' # 0
      /\ faults' \in Nat /\ (faults' = 0 => faults = 0)
  <2>1. CASE client[c] = "closed"
    BY ONLY <1>1, <1>5, <2>1, Zenon
  <2>2. CASE client[c] # "closed" /\ failed
    BY ONLY <1>1, <1>6, <2>2, Zenon
  <2>3. CASE client[c] # "closed" /\ ~failed
    BY ONLY <1>1, <1>5, <2>3, Zenon
  <2> QED BY ONLY <2>1, <2>2, <2>3, Zenon
<1>8. \/ (failed \/ r.pos + n = Len(r.bufs)) /\ disconnect(fd)
      \/ /\ results' = With(results, fd, [r EXCEPT !.pos = r.pos + n])
         /\ i' = i + 1 /\ UNCHANGED <<pollfds, peer, eof>>
  BY ONLY <1>1, Zenon DEF Done, NextIndex
<1>9. \E pos \in Nat :
        /\ r.pos <= pos /\ pos <= Len(r.bufs)
        /\ outq' = [outq EXCEPT ![c] = @ \o SubSeq(r.bufs, r.pos + 1, pos)]
        /\ \/ (failed \/ pos = Len(r.bufs)) /\ disconnect(fd)
           \/ /\ results' = With(results, fd, [r EXCEPT !.pos = pos])
              /\ i' = i + 1 /\ UNCHANGED <<pollfds, peer, eof>>
  BY ONLY <1>1, <1>4, <1>8, Zenon
<1> QED BY ONLY <1>7, <1>9, Zenon DEF fd, c, r

\* The frames that a command of client c is answered with.
FramesOf(c, n) == [k \in 1..n |-> <<c, k>>]

\* A reply is a sequence of frames, and is empty if it has no frame.
LEMMA FramesOfType ==
  ASSUME NEW c \in Clients, NEW n \in Nat
  PROVE  FramesOf(c, n) \in Frames /\ (n = 0 => FramesOf(c, n) = <<>>)
<1>1. FramesOf(c, n) \in [1..n -> Clients \X Nat]
  BY DEF FramesOf
<1>2. FramesOf(c, n) \in Frames /\ Len(FramesOf(c, n)) = n
  BY ONLY <1>1, n \in Nat DEF Frames
<1> QED BY ONLY <1>2 DEF Frames

\* process_socket_read answers one frame; it finds the end of the stream; or it
\* fails.
LEMMA ReadEffects ==
  ASSUME Types, Tracked, process_socket_read
  PROVE  \/ /\ inq[peer[Entry.fd]] # <<>> /\ faults' = faults
            /\ inq' = [inq EXCEPT ![peer[Entry.fd]] = Tail(@)]
            /\ ran' = [ran EXCEPT ![peer[Entry.fd]] = @ + 1]
            /\ \E n \in Nat :
                 /\ reply' = [reply EXCEPT ![peer[Entry.fd]] = @ \o FramesOf(peer[Entry.fd], n)]
                 /\ \/ n = 0 /\ results' = results
                    \/ Queue(Entry.fd, FramesOf(peer[Entry.fd], n))
         \/ /\ UNCHANGED <<results, inq, ran, reply>>
            /\ faults' \in Nat
            /\ faults' # 0 \/ (faults' = faults /\ inq[peer[Entry.fd]] = <<>>)
<1> DEFINE c == peer[Entry.fd]
<1>1. \/ /\ inq[c] # <<>>
         /\ inq' = [inq EXCEPT ![c] = Tail(@)]
         /\ \E n \in Answers(Head(inq[c])) :
              /\ IF n = 0 THEN results' = results
                 ELSE Queue(Entry.fd, [k \in 1..n |-> <<c, k>>])
              /\ reply' = [reply EXCEPT ![c] = @ \o [k \in 1..n |-> <<c, k>>]]
         /\ ran' = [ran EXCEPT ![c] = @ + 1]
         /\ faults' = faults
      \/ /\ inq[c] = <<>>
         /\ UNCHANGED <<results, inq, historyVars, faults>>
      \/ Fault /\ UNCHANGED <<results, inq, historyVars>>
  BY Zenon DEF process_socket_read
<1>2. \A f : Answers(f) \subseteq Nat
  BY DispatcherAssumption DEF Answers, Replies
<1>3. faults \in Nat
  BY Zenon DEF Types
<1>4. Fault => faults' \in Nat /\ faults' # 0
  BY ONLY <1>3 DEF Fault
<1> HIDE DEF c
<1>5. CASE /\ inq[c] # <<>>
           /\ inq' = [inq EXCEPT ![c] = Tail(@)]
           /\ \E n \in Answers(Head(inq[c])) :
                /\ IF n = 0 THEN results' = results
                   ELSE Queue(Entry.fd, [k \in 1..n |-> <<c, k>>])
                /\ reply' = [reply EXCEPT ![c] = @ \o [k \in 1..n |-> <<c, k>>]]
           /\ ran' = [ran EXCEPT ![c] = @ + 1]
           /\ faults' = faults
  <2>1. PICK n \in Nat : /\ IF n = 0 THEN results' = results
                            ELSE Queue(Entry.fd, FramesOf(c, n))
                         /\ reply' = [reply EXCEPT ![c] = @ \o FramesOf(c, n)]
    BY ONLY <1>2, <1>5, Zenon DEF FramesOf
  <2>2. \E m \in Nat :
          /\ reply' = [reply EXCEPT ![c] = @ \o FramesOf(c, m)]
          /\ \/ m = 0 /\ results' = results
             \/ Queue(Entry.fd, FramesOf(c, m))
    BY ONLY <2>1, n \in Nat, Zenon
  <2> QED BY ONLY <1>5, <2>2, Zenon DEF c
<1>6. CASE inq[c] = <<>> /\ UNCHANGED <<results, inq, historyVars, faults>>
  BY ONLY <1>3, <1>6, Zenon DEF c, historyVars
<1>7. CASE Fault /\ UNCHANGED <<results, inq, historyVars>>
  BY ONLY <1>4, <1>7, Zenon DEF c, historyVars
<1> QED BY ONLY <1>1, <1>5, <1>6, <1>7, Zenon

\* What Queue does to results_.
LEMMA QueueFacts ==
  ASSUME Types, NEW f \in Fds, NEW s \in Frames, Queue(f, s)
  PROVE  /\ DOMAIN results' = DOMAIN results \cup {f}
         /\ \A g \in DOMAIN results : g # f => results'[g] = results[g]
         /\ results'[f].bufs = Result(f).bufs \o s /\ results'[f].pos = Result(f).pos
         /\ results'[f] \in [bufs : Frames, pos : Nat]
         /\ results'[f].pos <= Len(results'[f].bufs)
<1> DEFINE r == Result(f)
           q == [r EXCEPT !.bufs = @ \o s]
<1>1. results' = With(results, f, q)
  BY Zenon DEF Queue
<1>2. /\ r \in [bufs : Frames, pos : Nat] /\ r.bufs \in Frames
      /\ r.pos \in Nat /\ r.pos <= Len(r.bufs)
  BY ResultFacts, Zenon
<1> HIDE DEF r
<1>3. r.bufs \o s \in Frames /\ Len(r.bufs \o s) = Len(r.bufs) + Len(s)
      /\ Len(r.bufs) \in Nat /\ Len(s) \in Nat
  BY ONLY <1>2, s \in Frames, ConcatFacts DEF Frames
<1>4. /\ q.bufs = r.bufs \o s /\ q.pos = r.pos /\ q \in [bufs : Frames, pos : Nat]
  <2>1. \A x \in Frames : /\ [r EXCEPT !.bufs = x].bufs = x /\ [r EXCEPT !.bufs = x].pos = r.pos
                          /\ [r EXCEPT !.bufs = x] \in [bufs : Frames, pos : Nat]
    BY ONLY <1>2, Zenon
  <2> QED BY ONLY <1>3, <2>1, Zenon
<1> HIDE DEF q
<1>5. q.pos <= Len(q.bufs)
  BY ONLY <1>2, <1>3, <1>4
<1>6. /\ DOMAIN results' = DOMAIN results \cup {f} /\ results'[f] = q
      /\ \A g \in DOMAIN results : g # f => results'[g] = results[g]
  BY ONLY <1>1, Zenon DEF With
<1> QED BY ONLY <1>4, <1>5, <1>6, Zenon DEF r

\* What With does to results_ when a write is refused.
LEMMA RefusedFacts ==
  ASSUME Types, NEW f \in Fds, NEW pos \in Nat, pos <= Len(Result(f).bufs),
         results' = With(results, f, [Result(f) EXCEPT !.pos = pos])
  PROVE  /\ DOMAIN results' = DOMAIN results \cup {f}
         /\ \A g \in DOMAIN results : g # f => results'[g] = results[g]
         /\ results'[f].bufs = Result(f).bufs /\ results'[f].pos = pos
         /\ results'[f] \in [bufs : Frames, pos : Nat]
         /\ results'[f].pos <= Len(results'[f].bufs)
<1> DEFINE r == Result(f)
           q == [r EXCEPT !.pos = pos]
<1>1. r \in [bufs : Frames, pos : Nat]
  BY ResultFacts, Zenon
<1> HIDE DEF r
<1>2. q.bufs = r.bufs /\ q.pos = pos /\ q \in [bufs : Frames, pos : Nat]
  BY ONLY <1>1, pos \in Nat, Zenon
<1>3. results' = With(results, f, q)
  BY Zenon DEF r
<1> HIDE DEF q
<1>4. /\ DOMAIN results' = DOMAIN results \cup {f} /\ results'[f] = q
      /\ \A g \in DOMAIN results : g # f => results'[g] = results[g]
  BY ONLY <1>3, Zenon DEF With
<1>5. q.pos <= Len(q.bufs)
  BY <1>2, Zenon DEF r
<1> QED BY ONLY <1>2, <1>4, <1>5, Zenon DEF r

\* The steps of process_commands and set_command_path.
LEMMA ClosedTypes ==
  ASSUME Types, CloseAll
  PROVE  /\ eof' \subseteq Clients /\ backlog' \in Seq(Clients)
         /\ DOMAIN peer' = {} /\ backlog' = <<>>
<1>1. Range(peer) \subseteq Clients
  <2>1. \A f \in DOMAIN peer : peer[f] \in Clients
    BY Zenon DEF Types
  <2> QED BY ONLY <2>1, Zenon DEF Range
<1>2. Range(backlog) \subseteq Clients
  BY DEF Types, Range
<1> QED BY <1>1, <1>2, EmptyFacts, Zenon DEF CloseAll, Types

\* set_command_path keeps the types.
LEMMA SetTypes ==
  ASSUME Types, NEW p, set_command_path(p)
  PROVE  Types'
<1>1. pollfds' \in Seq(Pollfd)
  <2>1. <<Listener>> \in Seq(Pollfd)
    BY Members
  <2> QED BY <2>1, EmptyFacts, Zenon DEF set_command_path
<1>2. DOMAIN results' = {}
  BY EmptyFacts, Zenon DEF set_command_path
<1>3. sets' \in Nat /\ faults' \in Nat
  BY DEF Types, set_command_path
<1>4. CloseAll
  BY Zenon DEF set_command_path
<1> QED BY <1>1, <1>2, <1>3, <1>4, ClosedTypes, Zenon
        DEF Types, set_command_path, loopVars, clientVars, historyVars

\* The poll of process_commands keeps the types.
LEMMA PollTypes ==
  ASSUME Types, poll \/ poll_fails
  PROVE  Types'
<1>1. CASE poll
  <2>1. pollfds' \in Seq(Pollfd) /\ Len(pollfds) \in Nat
    BY <1>1, PollFacts, Zenon
  <2>3. pc' = "accept" /\ i' = i
    BY <1>1, Zenon DEF poll
  <2> QED BY <1>1, <2>1, <2>3, Zenon
          DEF Types, poll, socketVars, clientVars, setVars, historyVars
<1>2. CASE poll_fails
  <2>1. pollfds' \in Seq(Pollfd)
    BY <1>2, EmptyFacts, Zenon DEF poll_fails
  <2>2. CloseAll
    BY <1>2, Zenon DEF poll_fails
  <2>3. faults' \in Nat
    BY <1>2 DEF Types, poll_fails, Fault
  <2> QED BY <1>2, <2>1, <2>2, <2>3, ClosedTypes, Zenon
          DEF Types, poll_fails, loopVars, clientVars, setVars, historyVars
<1> QED BY <1>1, <1>2, Zenon

\* Passing over an entry, and leaving the loop, keep the types.
LEMMA LoopTypes ==
  ASSUME Types, skip \/ loop_ends
  PROVE  Types'
<1>1. pc' \in {"idle", "accept", "loop"} /\ i' \in Nat
  BY DEF Types, skip, loop_ends
<1> QED BY <1>1, Zenon DEF Types, skip, loop_ends, dispatcherVars, socketVars, clientVars,
                           setVars, historyVars

\* accept takes the first waiting client, if the listener was ready and the call
\* did not fail.
Accepted(fd) ==
  /\ pollfds' = Append(pollfds, Connection(fd)) /\ peer' = With(peer, fd, Head(backlog))
  /\ backlog' = Tail(backlog) /\ backlog # <<>> /\ faults' = faults

\* What process_commands does about the listener: nothing if it is not ready, and
\* otherwise it counts it as visited and accepts a client or fails to.
LEMMA AcceptFacts ==
  ASSUME Types, Tracked, Listening, accept
  PROVE  /\ Len(pollfds) \in Nat \ {0} /\ pollfds[1] \in Pollfd
         /\ \/ /\ pollfds[1].revents = {} /\ nfds' = nfds
               /\ UNCHANGED <<pollfds, peer, backlog, faults>>
            \/ /\ pollfds[1].revents = {"IN"} /\ nfds' = nfds - 1
               /\ \/ \E fd \in Fds \ DOMAIN peer : Accepted(fd)
                  \/ UNCHANGED <<pollfds, peer, backlog>> /\ faults' \in Nat \ {0}
<1>1. pollfds \in Seq(Pollfd) /\ pollfds # <<>> /\ faults \in Nat
  BY Zenon DEF Types, Tracked, accept, is_open
<1>2. Len(pollfds) \in Nat \ {0} /\ pollfds[1] \in Pollfd /\ Head(pollfds) = pollfds[1]
  BY ONLY <1>1
<1>3. /\ pollfds[1].revents \in {{}, {"IN"}}
      /\ "IN" \in pollfds[1].revents => backlog # <<>>
  BY Zenon DEF Listening, accept
<1>4. \/ /\ "IN" \notin pollfds[1].revents
         /\ UNCHANGED <<pollfds, nfds, backlog, peer, faults>>
      \/ /\ "IN" \in pollfds[1].revents
         /\ nfds' = nfds - 1
         /\ \/ /\ \E fd \in Fds \ DOMAIN peer :
                    /\ pollfds' = Append(pollfds, Connection(fd))
                    /\ peer' = With(peer, fd, Head(backlog))
               /\ backlog' = Tail(backlog) /\ faults' = faults
            \/ Fault /\ UNCHANGED <<pollfds, peer, backlog>>
  BY <1>2, Zenon DEF accept
<1>5. Fault => faults' \in Nat \ {0}
  BY ONLY <1>1 DEF Fault
<1> QED BY ONLY <1>2, <1>3, <1>4, <1>5, Zenon DEF Accepted

\* An accepted client leaves the backlog for a new last entry of pollfds_.
LEMMA AcceptedFacts ==
  ASSUME Types, NEW fd \in Fds \ DOMAIN peer, Accepted(fd)
  PROVE  /\ pollfds' \in Seq(Pollfd) /\ Len(pollfds') = Len(pollfds) + 1
         /\ \A k \in 1..Len(pollfds) : pollfds'[k] = pollfds[k]
         /\ pollfds'[Len(pollfds) + 1] = Connection(fd)
         /\ DOMAIN peer' = DOMAIN peer \cup {fd}
         /\ peer'[fd] = backlog[1] /\ \A f \in DOMAIN peer : peer'[f] = peer[f]
         /\ backlog' \in Seq(Clients) /\ Len(backlog') = Len(backlog) - 1
         /\ Len(backlog) \in Nat \ {0} /\ backlog[1] \in Clients
         /\ \A k \in 1..(Len(backlog) - 1) : backlog'[k] = backlog[k + 1] /\ k + 1 \in 1..Len(backlog)
<1>1. /\ pollfds \in Seq(Pollfd) /\ Connection(fd) \in Pollfd
      /\ backlog \in Seq(Clients) /\ backlog # <<>>
  BY Members, Zenon DEF Types, Accepted
<1>2. /\ pollfds' \in Seq(Pollfd) /\ Len(pollfds') = Len(pollfds) + 1
      /\ pollfds'[Len(pollfds) + 1] = Connection(fd)
      /\ \A k \in 1..Len(pollfds) : pollfds'[k] = pollfds[k]
  <2>1. pollfds' = Append(pollfds, Connection(fd))
    BY Zenon DEF Accepted
  <2> QED BY ONLY <1>1, <2>1, AppendFacts
<1>3. /\ backlog' \in Seq(Clients) /\ Len(backlog') = Len(backlog) - 1
      /\ Len(backlog) \in Nat \ {0} /\ Head(backlog) = backlog[1] /\ backlog[1] \in Clients
      /\ \A k \in 1..(Len(backlog) - 1) : backlog'[k] = backlog[k + 1] /\ k + 1 \in 1..Len(backlog)
  <2>1. backlog' = Tail(backlog)
    BY Zenon DEF Accepted
  <2> QED BY ONLY <1>1, <2>1, TailFacts, Zenon
<1>4. /\ DOMAIN peer' = DOMAIN peer \cup {fd}
      /\ peer'[fd] = Head(backlog) /\ \A f \in DOMAIN peer : peer'[f] = peer[f]
  BY Zenon DEF Accepted, With
<1> QED BY ONLY <1>2, <1>3, <1>4, Zenon

\* Accepting a client keeps the types.
LEMMA AcceptTypes ==
  ASSUME Types, Tracked, Listening, accept
  PROVE  Types'
<1>1. pc' = "loop" /\ i' \in Nat
  BY Zenon DEF Types, accept
<1>2. CASE UNCHANGED <<pollfds, peer, backlog>> /\ faults' \in Nat
  BY <1>1, <1>2, Zenon DEF Types, accept, clientVars, setVars, historyVars
<1>3. ASSUME NEW fd \in Fds \ DOMAIN peer, Accepted(fd) PROVE Types'
  <2>1. /\ pollfds' \in Seq(Pollfd) /\ backlog' \in Seq(Clients) /\ faults' = faults
        /\ DOMAIN peer' \subseteq Fds /\ \A f \in DOMAIN peer' : peer'[f] \in Clients
    <3>1. /\ pollfds' \in Seq(Pollfd) /\ backlog' \in Seq(Clients)
          /\ DOMAIN peer' = DOMAIN peer \cup {fd}
          /\ peer'[fd] \in Clients /\ \A f \in DOMAIN peer : peer'[f] = peer[f]
      BY <1>3, AcceptedFacts, Zenon
    <3>2. faults' = faults /\ DOMAIN peer \subseteq Fds /\ \A f \in DOMAIN peer : peer[f] \in Clients
      BY <1>3, Zenon DEF Types, Accepted
    <3> QED BY ONLY <3>1, <3>2, fd \in Fds \ DOMAIN peer, Zenon
  <2> QED BY <1>1, <2>1, Zenon DEF Types, accept, clientVars, setVars, historyVars
<1>4. faults \in Nat
  BY Zenon DEF Types
<1> QED BY <1>2, <1>3, <1>4, AcceptFacts, Zenon

\* Reading from a connection keeps the types.
LEMMA ReadTypes ==
  ASSUME Types, Tracked, process_socket_read
  PROVE  Types'
<1> DEFINE c == peer[Entry.fd]
<1>1. InLoop /\ nfds' = nfds - 1 /\ i' = i + 1
      /\ UNCHANGED <<path, pc, backlog, peer, eof, outq, clientVars, setVars>>
  BY Zenon DEF process_socket_read
<1>2. c \in Clients /\ Entry.fd \in Fds
  BY <1>1, InLoopFacts, Zenon
<1>3. i' \in Nat
  BY <1>1 DEF Types
<1>4. pollfds' \in Seq(Pollfd)
  BY ReadFacts, Zenon
<1> HIDE DEF c
<1> DEFINE Good ==
      /\ inq' \in [Clients -> Seq({"command", "bad"})] /\ ran' \in [Clients -> Nat]
      /\ reply' \in [Clients -> Frames] /\ faults' \in Nat
      /\ DOMAIN results' \subseteq Fds
      /\ \A f \in DOMAIN results' :
           results'[f] \in [bufs : Frames, pos : Nat] /\ results'[f].pos <= Len(results'[f].bufs)
<1>5. Good
  <2>1. CASE UNCHANGED <<results, inq, ran, reply>> /\ faults' \in Nat
    BY <2>1, Zenon DEF Types
  <2>2. ASSUME inq[c] # <<>>, faults' = faults, inq' = [inq EXCEPT ![c] = Tail(@)],
               ran' = [ran EXCEPT ![c] = @ + 1], NEW n \in Nat,
               reply' = [reply EXCEPT ![c] = @ \o FramesOf(c, n)],
               results' = results \/ Queue(Entry.fd, FramesOf(c, n))
        PROVE  Good
    <3>1. Tail(inq[c]) \in Seq({"command", "bad"})
      BY <1>2, <2>2, TailFacts, Zenon DEF Types
    <3>2. ran[c] + 1 \in Nat
      BY <1>2 DEF Types
    <3>3. FramesOf(c, n) \in Frames
      BY <1>2, FramesOfType, Zenon
    <3>4. reply[c] \o FramesOf(c, n) \in Frames
      <4>1. reply[c] \in Frames
        BY <1>2, Zenon DEF Types
      <4> QED BY ONLY <3>3, <4>1, ConcatFacts, Zenon DEF Frames
    <3>5. /\ inq' \in [Clients -> Seq({"command", "bad"})] /\ ran' \in [Clients -> Nat]
          /\ reply' \in [Clients -> Frames] /\ faults' \in Nat
      BY <2>2, <3>1, <3>2, <3>4, Zenon DEF Types
    <3>6. CASE results' = results
      BY <3>5, <3>6, Zenon DEF Types
    <3>7. CASE Queue(Entry.fd, FramesOf(c, n))
      <4>1. /\ DOMAIN results' = DOMAIN results \cup {Entry.fd}
            /\ \A g \in DOMAIN results : g # Entry.fd => results'[g] = results[g]
            /\ results'[Entry.fd] \in [bufs : Frames, pos : Nat]
            /\ results'[Entry.fd].pos <= Len(results'[Entry.fd].bufs)
        BY <1>2, <3>3, <3>7, QueueFacts, Zenon
      <4> QED BY <1>2, <3>5, <4>1, Zenon DEF Types
    <3> QED BY <2>2, <3>6, <3>7, Zenon
  <2>3. \/ UNCHANGED <<results, inq, ran, reply>> /\ faults' \in Nat
        \/ \E n \in Nat :
             /\ inq[c] # <<>> /\ faults' = faults /\ inq' = [inq EXCEPT ![c] = Tail(@)]
             /\ ran' = [ran EXCEPT ![c] = @ + 1]
             /\ reply' = [reply EXCEPT ![c] = @ \o FramesOf(c, n)]
             /\ results' = results \/ Queue(Entry.fd, FramesOf(c, n))
    BY ReadEffects, Zenon DEF c
  <2> HIDE DEF Good
  <2> QED BY ONLY <2>1, <2>2, <2>3, Zenon
<1> QED BY <1>1, <1>3, <1>4, <1>5, Zenon DEF Types, clientVars, setVars

\* Writing to a connection, and closing it, keep the types.
LEMMA WriteTypes ==
  ASSUME Types, Tracked, process_socket_write
  PROVE  Types'
<1> DEFINE fd == Entry.fd
           c == peer[fd]
           r == Result(fd)
<1>1. InLoop /\ nfds' = nfds - 1
      /\ UNCHANGED <<path, pc, backlog, inq, clientVars, setVars, historyVars>>
  BY Zenon DEF process_socket_write
<1>2. c \in Clients /\ fd \in Fds
  BY <1>1, InLoopFacts, Zenon
<1>3. PICK failed \in BOOLEAN, pos \in Nat :
        /\ r.pos <= pos /\ pos <= Len(r.bufs) /\ faults' \in Nat
        /\ outq' = [outq EXCEPT ![c] = @ \o SubSeq(r.bufs, r.pos + 1, pos)]
        /\ \/ disconnect(fd)
           \/ /\ results' = With(results, fd, [r EXCEPT !.pos = pos])
              /\ i' = i + 1 /\ UNCHANGED <<pollfds, peer, eof>>
  BY WriteFacts, Zenon
<1>4. r.bufs \in Frames /\ r.pos \in Nat
  BY ResultFacts, Zenon
<1> HIDE DEF fd, c, r
<1>6. outq' \in [Clients -> Frames]
  <2>1. outq[c] \in Frames
    BY <1>2, Zenon DEF Types
  <2>2. SubSeq(r.bufs, r.pos + 1, pos) \in Frames
    BY ONLY <1>3, <1>4, SubSeqFacts, pos \in Nat, Zenon DEF Frames
  <2>3. outq[c] \o SubSeq(r.bufs, r.pos + 1, pos) \in Frames
    BY ONLY <2>1, <2>2, ConcatFacts, Zenon DEF Frames
  <2> QED BY <1>2, <1>3, <2>3, Zenon DEF Types
<1>7. CASE disconnect(fd)
  <2>1. /\ pollfds' \in Seq(Pollfd) /\ i' = i /\ eof' = eof \cup {c}
        /\ DOMAIN peer' = DOMAIN peer \ {fd} /\ \A f \in DOMAIN peer' : peer'[f] = peer[f]
        /\ DOMAIN results' = DOMAIN results \ {fd}
        /\ \A f \in DOMAIN results' : results'[f] = results[f]
    BY <1>1, <1>7, DisconnectFacts, Zenon DEF fd, c
  <2>2. /\ DOMAIN peer' \subseteq Fds /\ \A f \in DOMAIN peer' : peer'[f] \in Clients
        /\ eof' \subseteq Clients
    BY <1>2, <2>1, Zenon DEF Types
  <2>3. /\ DOMAIN results' \subseteq Fds
        /\ \A f \in DOMAIN results' :
             results'[f] \in [bufs : Frames, pos : Nat] /\ results'[f].pos <= Len(results'[f].bufs)
    BY <2>1, Zenon DEF Types
  <2> QED BY <1>1, <1>3, <1>6, <2>1, <2>2, <2>3, Zenon DEF Types, clientVars, setVars, historyVars
<1>8. CASE /\ results' = With(results, fd, [r EXCEPT !.pos = pos])
           /\ i' = i + 1 /\ UNCHANGED <<pollfds, peer, eof>>
  <2>1. /\ DOMAIN results' = DOMAIN results \cup {fd}
        /\ \A g \in DOMAIN results : g # fd => results'[g] = results[g]
        /\ results'[fd] \in [bufs : Frames, pos : Nat]
        /\ results'[fd].pos <= Len(results'[fd].bufs)
    BY <1>2, <1>3, <1>8, RefusedFacts, Zenon DEF r
  <2>2. /\ DOMAIN results' \subseteq Fds
        /\ \A f \in DOMAIN results' :
             results'[f] \in [bufs : Frames, pos : Nat] /\ results'[f].pos <= Len(results'[f].bufs)
    BY <1>2, <2>1, Zenon DEF Types
  <2>3. i' \in Nat
    BY <1>8 DEF Types
  <2> QED BY <1>1, <1>3, <1>6, <1>8, <2>2, <2>3, Zenon DEF Types, clientVars, setVars, historyVars
<1> QED BY <1>3, <1>7, <1>8, Zenon

-----------------------------------------------------------------------------
(* The entries of pollfds_ are the open connections. *)

\* What a step that leaves the dispatcher alone keeps.
LEMMA SameTracked ==
  ASSUME Tracked, UNCHANGED <<pollfds, results, peer, pc, i>>
  PROVE  Tracked'
BY Zenon DEF Tracked, is_open

\* No dispatcher, or one without connections.
LEMMA NoConnections ==
  ASSUME pc' = "idle", DOMAIN peer' = {}, DOMAIN results' = {} \/ pollfds' = <<>>,
         pollfds' \in {<<>>, <<Listener>>}
  PROVE  Tracked'
<1>1. Len(pollfds') \in {0, 1} /\ (pollfds' # <<>> => pollfds'[1] = Listener)
  OBVIOUS
<1>2. 2..Len(pollfds') = {}
  <2>1. \A n \in {0, 1} : 2..n = {}
    OBVIOUS
  <2> QED BY ONLY <1>1, <2>1, Zenon
<1>3. pollfds' # <<>> => pollfds'[1].fd = None
  <2>1. Listener.fd = None
    BY Zenon DEF Listener
  <2> QED BY ONLY <1>1, <2>1, Zenon
<1> QED BY <1>2, <1>3, Zenon DEF Tracked, is_open

\* A dispatcher without a path tracks nothing.
LEMMA InitTracked == Init => Tracked
<1> SUFFICES ASSUME Init PROVE Tracked
  BY Zenon
<1>1. 2..Len(pollfds) = {} /\ DOMAIN peer = {}
  BY DEF Init
<1> QED BY <1>1, Zenon DEF Init, Tracked, is_open

\* set_command_path closes every connection and forgets its entry.
LEMMA SetTracked ==
  ASSUME Types, NEW p, set_command_path(p)
  PROVE  Tracked'
<1>1. DOMAIN results' = {} /\ DOMAIN peer' = {}
  BY EmptyFacts, Zenon DEF set_command_path, CloseAll
<1>2. pc' = "idle" /\ pollfds' \in {<<>>, <<Listener>>}
  BY Zenon DEF set_command_path, loopVars
<1> QED BY <1>1, <1>2, NoConnections, Zenon

\* poll only fills in the revents of the entries.
LEMMA PollTracked ==
  ASSUME Types, Tracked, poll \/ poll_fails
  PROVE  Tracked'
<1>1. CASE poll
  <2>1. /\ Len(pollfds') = Len(pollfds) /\ Len(pollfds) \in Nat
        /\ \A k \in 1..Len(pollfds) : pollfds'[k].fd = pollfds[k].fd
    BY <1>1, PollFacts, Zenon
  <2>2. /\ pc' = "accept" /\ results' = results /\ peer' = peer /\ pollfds # <<>>
    BY <1>1, Zenon DEF poll, socketVars, is_open
  <2>3. pollfds' # <<>> /\ Len(pollfds) >= 1
    BY <1>1, <2>1, <2>2, PollFacts DEF Types
  <2>4. /\ \A k \in 2..Len(pollfds) : k \in 1..Len(pollfds)
        /\ 1 \in 1..Len(pollfds)
    BY ONLY <2>1, <2>3
  <2> QED BY <2>1, <2>2, <2>3, <2>4, Zenon DEF Tracked, is_open
<1>2. CASE poll_fails
  <2>1. pc' = "idle" /\ pollfds' = <<>> /\ DOMAIN peer' = {}
    BY <1>2, EmptyFacts, Zenon DEF poll_fails, CloseAll, loopVars
  <2> QED BY <2>1, NoConnections, Zenon
<1> QED BY <1>1, <1>2, Zenon

\* Passing over an entry, and leaving the loop, keep the entries.
LEMMA LoopTracked ==
  ASSUME Types, Tracked, skip \/ loop_ends
  PROVE  Tracked'
<1>1. UNCHANGED <<pollfds, results, peer>>
  BY Zenon DEF skip, loop_ends, dispatcherVars, socketVars
<1>2. pc' \in {pc, "idle"} /\ (pc' = "loop" => i' \in 2..(Len(pollfds) + 1))
  <2>1. CASE skip
    <3>1. InLoop /\ i' = i + 1 /\ pc' = pc
      BY <2>1, Zenon DEF skip
    <3>2. Len(pollfds) \in Nat /\ i \in 2..Len(pollfds)
      BY <3>1, InLoopFacts, Zenon
    <3> QED BY ONLY <3>1, <3>2
  <2>2. CASE loop_ends
    BY <2>2, Zenon DEF loop_ends
  <2> QED BY <2>1, <2>2, Zenon
<1> QED BY <1>1, <1>2, Zenon DEF Tracked, is_open

\* The entry of an accepted client is the only one of its descriptor.
LEMMA AcceptTracked ==
  ASSUME Types, Tracked, Listening, accept
  PROVE  Tracked'
<1>1. pc' = "loop" /\ i' = 2 /\ results' = results /\ pollfds # <<>>
  BY Zenon DEF accept, Tracked, is_open
<1>2. Len(pollfds) \in Nat \ {0}
  BY AcceptFacts, Zenon
<1>3. CASE UNCHANGED <<pollfds, peer>>
  <2>1. 2 \in 2..(Len(pollfds) + 1)
    BY ONLY <1>2
  <2> QED BY <1>1, <1>3, <2>1, Zenon DEF Tracked, is_open
<1>4. ASSUME NEW fd \in Fds \ DOMAIN peer, Accepted(fd) PROVE Tracked'
  <2> DEFINE n == Len(pollfds)
  <2>1. /\ pollfds' \in Seq(Pollfd) /\ Len(pollfds') = n + 1
        /\ \A k \in 1..n : pollfds'[k] = pollfds[k]
        /\ pollfds'[n + 1] = Connection(fd)
        /\ DOMAIN peer' = DOMAIN peer \cup {fd}
    BY <1>4, AcceptedFacts, Zenon
  <2>2. pollfds'[n + 1].fd = fd
    <3>1. Connection(fd).fd = fd
      BY Zenon DEF Connection
    <3> QED BY ONLY <2>1, <3>1, Zenon
  <2> HIDE DEF n
  <2>3. /\ 2..(n + 1) = 2..n \cup {n + 1} /\ \A k \in 2..n : k \in 1..n
        /\ 1 \in 1..n /\ 2 \in 2..(n + 1 + 1) /\ n \in Nat
    BY ONLY <1>2 DEF n
  <2>4. pollfds' # <<>>
    BY ONLY <2>1, <2>3
  <2>5. /\ pollfds[1].fd = None /\ DOMAIN results \subseteq DOMAIN peer
        /\ \A k \in 2..n : pollfds[k].fd \in DOMAIN peer
        /\ \A f \in DOMAIN peer : \E k \in 2..n : pollfds[k].fd = f
        /\ \A j, k \in 2..n : pollfds[j].fd = pollfds[k].fd => j = k
    BY <1>1, Zenon DEF Tracked, is_open, n
  <2>6. \A k \in 2..n : pollfds'[k].fd = pollfds[k].fd
    BY ONLY <2>1, <2>3, Zenon
  <2>7. \A k \in 2..(n + 1) : pollfds'[k].fd \in DOMAIN peer'
    BY ONLY <2>1, <2>2, <2>3, <2>5, <2>6, Zenon
  <2>8. \A f \in DOMAIN peer' : \E k \in 2..(n + 1) : pollfds'[k].fd = f
    <3>1. n + 1 \in 2..(n + 1) /\ \A k \in 2..n : k \in 2..(n + 1)
      BY ONLY <2>3, <1>2, Zenon DEF n
    <3>2. \A f \in DOMAIN peer : \E k \in 2..(n + 1) : pollfds'[k].fd = f
      BY ONLY <2>5, <2>6, <3>1, Zenon
    <3>3. \E k \in 2..(n + 1) : pollfds'[k].fd = fd
      BY ONLY <2>2, <3>1, Zenon
    <3>4. DOMAIN peer' = DOMAIN peer \cup {fd}
      BY ONLY <2>1, Zenon
    <3> QED BY ONLY <3>2, <3>3, <3>4, Zenon
  <2>9. \A j, k \in 2..(n + 1) : pollfds'[j].fd = pollfds'[k].fd => j = k
    BY <2>1, <2>2, <2>3, <2>5, <2>6, Zenon
  <2>10. pollfds'[1].fd = None /\ DOMAIN results' \subseteq DOMAIN peer'
    BY ONLY <1>1, <2>1, <2>3, <2>5, Zenon
  <2>11. i' \in 2..(Len(pollfds') + 1) /\ Len(pollfds') = n + 1
    BY ONLY <1>1, <2>1, <2>3, Zenon
  <2> QED BY ONLY <1>1, <2>4, <2>7, <2>8, <2>9, <2>10, <2>11, Zenon DEF Tracked, is_open
<1> QED BY <1>3, <1>4, AcceptFacts, Zenon

\* Reading from a connection keeps its descriptor, and results_ gains one that is
\* open.
LEMMA ReadTracked ==
  ASSUME Types, Tracked, process_socket_read
  PROVE  Tracked'
<1>1. InLoop /\ i' = i + 1 /\ pc' = pc /\ peer' = peer
  BY Zenon DEF process_socket_read
<1>2. /\ Len(pollfds) \in Nat /\ i \in 2..Len(pollfds) /\ Entry.fd \in DOMAIN peer
      /\ Entry.fd \in Fds /\ peer[Entry.fd] \in Clients
  BY <1>1, InLoopFacts, Zenon
<1>3. /\ pollfds' \in Seq(Pollfd) /\ Len(pollfds') = Len(pollfds)
      /\ \A k \in 1..Len(pollfds) : pollfds'[k].fd = pollfds[k].fd
  BY ReadFacts, Zenon
<1>4. DOMAIN results' \subseteq DOMAIN results \cup {Entry.fd}
  <2>1. \/ results' = results
        \/ \E n \in Nat : Queue(Entry.fd, FramesOf(peer[Entry.fd], n))
    BY ReadEffects, Zenon
  <2>2. \A n \in Nat : FramesOf(peer[Entry.fd], n) \in Frames
    BY <1>2, FramesOfType, Zenon
  <2>3. CASE results' = results
    BY <2>3, Zenon
  <2>4. ASSUME NEW n \in Nat, Queue(Entry.fd, FramesOf(peer[Entry.fd], n))
        PROVE  DOMAIN results' = DOMAIN results \cup {Entry.fd}
    BY <1>2, <2>2, <2>4, QueueFacts, Zenon
  <2> QED BY ONLY <2>1, <2>3, <2>4, Zenon
<1>5. /\ i' \in 2..(Len(pollfds) + 1) /\ pollfds' # <<>> /\ 1 \in 1..Len(pollfds)
      /\ \A k \in 2..Len(pollfds) : k \in 1..Len(pollfds)
  BY ONLY <1>1, <1>2, <1>3
<1>6. pc = "loop" /\ pollfds # <<>>
  BY <1>1, Zenon DEF InLoop, Tracked, is_open
<1>7. /\ pollfds[1].fd = None /\ DOMAIN results \subseteq DOMAIN peer
      /\ \A k \in 2..Len(pollfds) : pollfds[k].fd \in DOMAIN peer
      /\ \A f \in DOMAIN peer : \E k \in 2..Len(pollfds) : pollfds[k].fd = f
      /\ \A j, k \in 2..Len(pollfds) : pollfds[j].fd = pollfds[k].fd => j = k
  BY <1>6, Zenon DEF Tracked, is_open
<1>8. pollfds'[1].fd = None /\ DOMAIN results' \subseteq DOMAIN peer'
  BY ONLY <1>1, <1>2, <1>3, <1>4, <1>5, <1>7, Zenon
<1>9. \A k \in 2..Len(pollfds) : pollfds'[k].fd = pollfds[k].fd
  BY ONLY <1>3, <1>5, Zenon
<1>10. /\ \A k \in 2..Len(pollfds') : pollfds'[k].fd \in DOMAIN peer'
       /\ \A f \in DOMAIN peer' : \E k \in 2..Len(pollfds') : pollfds'[k].fd = f
       /\ \A j, k \in 2..Len(pollfds') : pollfds'[j].fd = pollfds'[k].fd => j = k
  BY ONLY <1>1, <1>3, <1>7, <1>9, Zenon
<1> QED BY ONLY <1>1, <1>3, <1>5, <1>6, <1>8, <1>10, Zenon DEF Tracked, is_open

\* Closing a connection removes its descriptor from all three tables.
LEMMA DisconnectTracked ==
  ASSUME Types, Tracked, InLoop, disconnect(Entry.fd), pc' = pc
  PROVE  Tracked'
<1> DEFINE n == Len(pollfds)
           d == Entry.fd
<1>1. /\ pollfds' \in Seq(Pollfd) /\ Len(pollfds') = n - 1 /\ i' = i
      /\ \A k \in 1..(n - 1) : k # i => pollfds'[k] = pollfds[k]
      /\ i < n => pollfds'[i] = pollfds[n]
      /\ DOMAIN peer' = DOMAIN peer \ {d}
      /\ DOMAIN results' = DOMAIN results \ {d}
  BY DisconnectFacts, Zenon
<1>2. n \in Nat /\ i \in 2..n /\ pollfds[i].fd = d /\ pc = "loop" /\ pollfds # <<>>
  BY InLoopFacts, Zenon DEF InLoop, Tracked, is_open
<1>3. /\ pollfds[1].fd = None /\ DOMAIN results \subseteq DOMAIN peer
      /\ \A k \in 2..n : pollfds[k].fd \in DOMAIN peer
      /\ \A f \in DOMAIN peer : \E k \in 2..n : pollfds[k].fd = f
      /\ \A j, k \in 2..n : pollfds[j].fd = pollfds[k].fd => j = k
  BY <1>2, Zenon DEF Tracked, is_open
<1> HIDE DEF n, d
\* Where the entry at place k comes from.
<1> DEFINE from(k) == IF k = i THEN n ELSE k
<1>4. ASSUME NEW k \in 2..(n - 1)
      PROVE  pollfds'[k] = pollfds[from(k)] /\ from(k) \in 2..n /\ from(k) # i
  <2>1. k \in 1..(n - 1) /\ k # n /\ k \in 2..n /\ n \in 2..n /\ (k = i => i < n /\ n # i)
    BY ONLY <1>2, k \in 2..(n - 1)
  <2> QED BY ONLY <1>1, <2>1, Zenon
<1>5. \A j, k \in 2..(n - 1) : from(j) = from(k) => j = k
  BY ONLY <1>2
<1>6. \A k \in 2..n : k # i => \E j \in 2..(n - 1) : from(j) = k
  <2> SUFFICES ASSUME NEW k \in 2..n, k # i PROVE \E j \in 2..(n - 1) : from(j) = k
    BY Zenon
  <2>1. CASE k = n
    <3>1. i \in 2..(n - 1)
      BY ONLY <1>2, <2>1, k # i
    <3> QED BY ONLY <2>1, <3>1, Zenon
  <2>2. CASE k # n
    <3>1. k \in 2..(n - 1)
      BY ONLY <1>2, <2>2, k \in 2..n
    <3> QED BY ONLY <3>1, k # i, Zenon
  <2> QED BY ONLY <2>1, <2>2, Zenon
<1> HIDE DEF from
<1>7. pollfds' # <<>> /\ pollfds'[1].fd = None
  <2>1. 1 \in 1..(n - 1) /\ 1 # i
    BY ONLY <1>2
  <2> QED BY ONLY <1>1, <1>2, <1>3, <2>1, SMTT(30)
<1>8. ASSUME NEW k \in 2..(n - 1) PROVE pollfds'[k].fd \in DOMAIN peer'
  <2>1. pollfds'[k] = pollfds[from(k)] /\ from(k) \in 2..n /\ from(k) # i
    BY ONLY <1>4, k \in 2..(n - 1), Zenon
  <2>2. pollfds[from(k)].fd \in DOMAIN peer
    BY ONLY <1>3, <2>1, Zenon
  <2>3. pollfds[from(k)].fd # d
    BY ONLY <1>2, <1>3, <2>1, Zenon
  <2> QED BY ONLY <1>1, <2>1, <2>2, <2>3, Zenon
<1>9. ASSUME NEW f \in DOMAIN peer' PROVE \E k \in 2..(n - 1) : pollfds'[k].fd = f
  <2>1. PICK j \in 2..n : pollfds[j].fd = f
    BY ONLY <1>1, <1>3, f \in DOMAIN peer', Zenon
  <2>2. j # i
    BY ONLY <1>1, <1>2, <2>1, f \in DOMAIN peer', Zenon
  <2> QED BY ONLY <1>4, <1>6, <2>1, <2>2, j \in 2..n, Zenon
<1>10. ASSUME NEW j \in 2..(n - 1), NEW k \in 2..(n - 1), pollfds'[j].fd = pollfds'[k].fd
       PROVE  j = k
  <2>1. /\ pollfds'[j] = pollfds[from(j)] /\ from(j) \in 2..n
        /\ pollfds'[k] = pollfds[from(k)] /\ from(k) \in 2..n
    BY ONLY <1>4, j \in 2..(n - 1), k \in 2..(n - 1), Zenon
  <2>2. from(j) = from(k)
    BY ONLY <1>3, <1>10, <2>1, Zenon
  <2> QED BY ONLY <1>5, <2>2, j \in 2..(n - 1), k \in 2..(n - 1), Zenon
<1>11. DOMAIN results' \subseteq DOMAIN peer'
  BY ONLY <1>1, <1>3, Zenon
<1>12. i' \in 2..(Len(pollfds') + 1)
  BY ONLY <1>1, <1>2
<1> QED BY ONLY <1>1, <1>7, <1>8, <1>9, <1>10, <1>11, <1>12, Zenon DEF Tracked, is_open

\* Writing to a connection keeps the tables in step, or removes the connection.
LEMMA WriteTracked ==
  ASSUME Types, Tracked, process_socket_write
  PROVE  Tracked'
<1>1. InLoop /\ pc' = pc
  BY Zenon DEF process_socket_write
<1>2. PICK pos \in Nat :
        /\ pos <= Len(Result(Entry.fd).bufs)
        /\ \/ disconnect(Entry.fd)
           \/ /\ results' = With(results, Entry.fd, [Result(Entry.fd) EXCEPT !.pos = pos])
              /\ i' = i + 1 /\ UNCHANGED <<pollfds, peer, eof>>
  BY WriteFacts, Zenon
<1>3. CASE disconnect(Entry.fd)
  BY <1>1, <1>3, DisconnectTracked, Zenon
<1>4. CASE /\ results' = With(results, Entry.fd, [Result(Entry.fd) EXCEPT !.pos = pos])
           /\ i' = i + 1 /\ UNCHANGED <<pollfds, peer, eof>>
  <2>1. /\ Len(pollfds) \in Nat /\ i \in 2..Len(pollfds) /\ Entry.fd \in DOMAIN peer
        /\ Entry.fd \in Fds
    BY <1>1, InLoopFacts, Zenon
  <2>2. DOMAIN results' = DOMAIN results \cup {Entry.fd}
    BY <1>2, <1>4, <2>1, RefusedFacts, Zenon
  <2>3. i' \in 2..(Len(pollfds) + 1)
    BY ONLY <1>4, <2>1
  <2>4. UNCHANGED <<pollfds, peer>>
    BY <1>4, Zenon
  <2> QED BY <1>1, <2>1, <2>2, <2>3, <2>4, Zenon DEF Tracked, is_open
<1> QED BY <1>2, <1>3, <1>4, Zenon

-----------------------------------------------------------------------------
(* A client waits whenever the listener was found ready. *)

\* Only accept takes a waiting client.
LEMMA SameListening ==
  ASSUME Listening, UNCHANGED <<pollfds, pc>>, backlog # <<>> => backlog' # <<>>
  PROVE  Listening'
BY Zenon DEF Listening

\* Only poll starts to accept.
LEMMA IdleListening ==
  ASSUME pc' = "idle"
  PROVE  Listening'
BY Zenon DEF Listening

\* Once accept has returned the loop is past the listener.
LEMMA WalkListening ==
  ASSUME accept \/ skip \/ process_socket_read \/ process_socket_write
  PROVE  Listening'
<1>1. pc' = "loop"
  BY Zenon DEF accept, skip, process_socket_read, process_socket_write, InLoop
<1> QED BY <1>1, Zenon DEF Listening

\* poll finds the listener ready only if a client waits.
LEMMA PollListening ==
  ASSUME Types, Tracked, poll
  PROVE  Listening'
<1>1. /\ Len(pollfds) \in Nat
      /\ \A k \in 1..Len(pollfds) : pollfds'[k].revents = Ready(pollfds[k])
  BY PollFacts, Zenon
<1>2. pollfds # <<>> /\ backlog' = backlog
  BY Zenon DEF poll, is_open, socketVars
<1>3. 1 \in 1..Len(pollfds)
  BY <1>2 DEF Types
<1>4. pollfds'[1].revents = IF backlog = <<>> THEN {} ELSE {"IN"}
  <2>1. pollfds[1].fd = None
    BY <1>2, Zenon DEF Tracked, is_open
  <2> QED BY ONLY <1>1, <1>3, <2>1, Zenon DEF Ready
<1> QED BY ONLY <1>2, <1>4, Zenon DEF Listening

-----------------------------------------------------------------------------
(* nfds counts the ready entries that are still to be visited. *)

\* The entries from n on that poll found ready.
ReadyFrom(n) == {k \in n..Len(pollfds) : pollfds[k].revents # {}}

\* nfds counts the ready entries that process_commands has yet to visit.
Counting ==
  /\ pc = "accept" => nfds = Cardinality(ReadyFrom(1))
  /\ NoReadyEntryMissed

\* A set of ready entries without one of them has one member less; the proof, from
\* the library's theorems about finite sets, is at the end of the module.
Fewer(R, x) == Cardinality(R \ {x}) = Cardinality(R) - 1
OneLess == \A a, b \in Int : \A R \in SUBSET (a..b) : \A x \in R : Fewer(R, x)

\* What a step that leaves the walk alone keeps.
LEMMA SameCounting ==
  ASSUME Counting, UNCHANGED <<pollfds, pc, i, nfds>>
  PROVE  Counting'
BY Zenon DEF Counting, ReadyFrom, NoReadyEntryMissed

\* Nothing is counted between two calls of process_commands.
LEMMA IdleCounting ==
  ASSUME pc' = "idle"
  PROVE  Counting'
BY Zenon DEF Counting, NoReadyEntryMissed

\* poll returns the number of the entries that it found ready.
LEMMA PollCounting ==
  ASSUME Types, poll
  PROVE  Counting'
<1>1. /\ Len(pollfds') = Len(pollfds) /\ Len(pollfds) \in Nat
      /\ \A k \in 1..Len(pollfds) : pollfds'[k].revents = Ready(pollfds[k])
  BY PollFacts, Zenon
<1>2. /\ pc' = "accept" /\ nfds' = Cardinality({k \in DOMAIN pollfds : Ready(pollfds[k]) # {}})
  BY Zenon DEF poll
<1>3. DOMAIN pollfds = 1..Len(pollfds)
  BY DEF Types
<1>4. ReadyFrom(1)' = {k \in DOMAIN pollfds : Ready(pollfds[k]) # {}}
  <2>1. ReadyFrom(1)' = {k \in 1..Len(pollfds) : pollfds'[k].revents # {}}
    BY ONLY <1>1, Zenon DEF ReadyFrom
  <2> QED BY ONLY <1>1, <1>3, <2>1
<1>5. (nfds = Cardinality(ReadyFrom(1)))'
  BY ONLY <1>2, <1>4, Zenon
<1> QED BY ONLY <1>2, <1>5, Zenon DEF Counting, NoReadyEntryMissed

\* The listener is counted once, and a new connection is not ready.
LEMMA AcceptCounting ==
  ASSUME OneLess, Types, Tracked, Listening, Counting, accept
  PROVE  Counting'
<1> DEFINE n == Len(pollfds)
           R == ReadyFrom(1)
           Q == ReadyFrom(2)'
<1>1. /\ pc' = "loop" /\ i' = 2 /\ nfds = Cardinality(R)
  BY Zenon DEF accept, Counting
<1>2. n \in Nat \ {0}
  BY AcceptFacts, Zenon
<1>3. Q = R \ {1}
  <2>1. R = {k \in 1..n : pollfds[k].revents # {}}
        /\ Q = {k \in 2..Len(pollfds') : pollfds'[k].revents # {}}
    BY Zenon DEF ReadyFrom
  <2>2. CASE pollfds' = pollfds
    <3>1. 2..n = (1..n) \ {1}
      BY ONLY <1>2
    <3> QED BY ONLY <2>1, <2>2, <3>1, Zenon
  <2>3. ASSUME NEW fd \in Fds \ DOMAIN peer, Accepted(fd) PROVE Q = R \ {1}
    <3>1. /\ Len(pollfds') = n + 1 /\ pollfds'[n + 1] = Connection(fd)
          /\ \A k \in 1..n : pollfds'[k] = pollfds[k]
      BY <2>3, AcceptedFacts, Zenon
    <3>2. pollfds'[n + 1].revents = {}
      <4>1. Connection(fd).revents = {}
        BY Zenon DEF Connection
      <4> QED BY ONLY <3>1, <4>1, Zenon
    <3> HIDE DEF n, R, Q
    <3>3. 2..(n + 1) = ((1..n) \ {1}) \cup {n + 1}
      BY ONLY <1>2
    <3> QED BY ONLY <2>1, <3>1, <3>2, <3>3, Zenon
  <2> QED BY ONLY <2>2, <2>3, AcceptFacts, Types, Tracked, Listening, accept, Zenon
<1>4. 1 \in R <=> pollfds[1].revents # {}
  <2>1. 1 \in 1..n
    BY ONLY <1>2
  <2> QED BY ONLY <2>1, Zenon DEF ReadyFrom
<1>5. R \subseteq 1..n
  BY ONLY Zenon DEF ReadyFrom
<1> HIDE DEF R, Q, n
<1>6. nfds' = Cardinality(Q)
  <2>1. CASE pollfds[1].revents = {} /\ nfds' = nfds
    <3>1. Q = R
      BY ONLY <1>3, <1>4, <2>1, Zenon
    <3> QED BY ONLY <1>1, <2>1, <3>1, Zenon
  <2>2. CASE pollfds[1].revents = {"IN"} /\ nfds' = nfds - 1
    <3>1. 1 \in R
      BY ONLY <1>4, <2>2, Zenon
    <3>2. 1 \in Int /\ n \in Int /\ R \in SUBSET (1..n)
      BY ONLY <1>2, <1>5
    <3>3. Fewer(R, 1)
      BY ONLY <3>1, <3>2, OneLess, Zenon DEF OneLess
    <3> QED BY ONLY <1>1, <1>3, <2>2, <3>3, Zenon DEF Fewer
  <2> QED BY <2>1, <2>2, AcceptFacts, Zenon
<1>7. (pc = "loop" => nfds = Cardinality(ReadyFrom(i)))'
  BY ONLY <1>1, <1>6, Zenon DEF Q
<1> QED BY ONLY <1>1, <1>7, Zenon DEF Counting, NoReadyEntryMissed, ReadyFrom

\* The walk goes on to the next entry, past a ready one or another.
LEMMA PassCounting ==
  ASSUME OneLess, Types, Tracked, Counting, InLoop, pc' = pc, i' = i + 1,
         Len(pollfds') = Len(pollfds),
         \A k \in 1..Len(pollfds) : pollfds'[k].revents = pollfds[k].revents,
         nfds' = IF pollfds[i].revents = {} THEN nfds ELSE nfds - 1
  PROVE  Counting'
<1> DEFINE n == Len(pollfds)
           R == ReadyFrom(i)
           Q == ReadyFrom(i)'
<1>1. n \in Nat /\ i \in 2..n /\ pc = "loop" /\ nfds = Cardinality(R)
  BY InLoopFacts, Zenon DEF InLoop, Counting, NoReadyEntryMissed, ReadyFrom
<1>2. R = {k \in i..n : pollfds[k].revents # {}}
      /\ Q = {k \in (i + 1)..n : pollfds'[k].revents # {}}
  BY Zenon DEF ReadyFrom
<1> HIDE DEF n, R, Q
<1>3. Q = R \ {i}
  <2>1. (i + 1)..n = (i..n) \ {i} /\ i..n \subseteq 1..n
    BY ONLY <1>1
  <2>2. \A k \in i..n : pollfds'[k].revents = pollfds[k].revents
    BY <2>1, Zenon DEF n
  <2> QED BY ONLY <1>2, <2>1, <2>2, Zenon
<1>4. i \in R <=> pollfds[i].revents # {}
  <2>1. i \in i..n
    BY ONLY <1>1
  <2> QED BY ONLY <1>2, <2>1, Zenon
<1>5. nfds' = Cardinality(Q)
  <2>1. CASE pollfds[i].revents = {}
    <3>1. Q = R /\ nfds' = nfds
      BY <1>3, <1>4, <2>1, Zenon
    <3> QED BY ONLY <1>1, <3>1, Zenon
  <2>2. CASE pollfds[i].revents # {}
    <3>1. i \in R /\ nfds' = nfds - 1
      BY <1>4, <2>2, Zenon
    <3>2. i \in Int /\ n \in Int /\ R \in SUBSET (i..n)
      BY ONLY <1>1, <1>2
    <3>3. Fewer(R, i)
      BY ONLY <3>1, <3>2, OneLess, Zenon DEF OneLess
    <3> QED BY ONLY <1>1, <1>3, <3>1, <3>3, Zenon DEF Fewer
  <2> QED BY ONLY <2>1, <2>2, Zenon
<1>6. (nfds = Cardinality(ReadyFrom(i)))'
  BY ONLY <1>5, Zenon DEF Q
<1>7. pc' = "loop"
  BY <1>1, Zenon
<1> QED BY ONLY <1>6, <1>7, Zenon DEF Counting, NoReadyEntryMissed, ReadyFrom

\* The entry moved into the place of the erased one is visited next.
LEMMA DisconnectCounting ==
  ASSUME OneLess, Types, Tracked, Counting, InLoop, pc' = pc, disconnect(Entry.fd),
         pollfds[i].revents # {}, nfds' = nfds - 1
  PROVE  Counting'
<1> DEFINE n == Len(pollfds)
           R == ReadyFrom(i)
           Q == ReadyFrom(i)'
<1>1. n \in Nat /\ i \in 2..n /\ pc = "loop" /\ nfds = Cardinality(R)
  BY InLoopFacts, Zenon DEF InLoop, Counting, NoReadyEntryMissed, ReadyFrom
<1>2. /\ Len(pollfds') = n - 1 /\ i' = i
      /\ \A k \in 1..(n - 1) : k # i => pollfds'[k] = pollfds[k]
      /\ i < n => pollfds'[i] = pollfds[n]
  BY DisconnectFacts, Zenon
<1>3. R = {k \in i..n : pollfds[k].revents # {}}
      /\ Q = {k \in i..(n - 1) : pollfds'[k].revents # {}}
  BY <1>2, Zenon DEF ReadyFrom
<1> HIDE DEF n, R, Q
<1>4. i \in i..n /\ n \in i..n /\ i..(n - 1) = (i..n) \ {n} /\ (n # i => i < n)
      /\ \A k \in i..(n - 1) : k \in 1..(n - 1)
  BY ONLY <1>1
<1>5. i \in R
  BY <1>3, <1>4, Zenon
<1>6. ASSUME NEW k \in i..(n - 1), k # i PROVE k \in Q <=> k \in R
  BY ONLY <1>2, <1>3, <1>4, <1>6, k \in i..(n - 1), Zenon
<1>7. n # i => (i \in Q <=> n \in R)
  BY ONLY <1>2, <1>3, <1>4, Zenon
<1>8. \E x \in R : Q = R \ {x}
  <2>1. CASE n = i
    <3>1. Q = R \ {i}
      BY ONLY <1>3, <1>4, <1>6, <2>1, Zenon
    <3> QED BY ONLY <1>5, <3>1, Zenon
  <2>2. CASE n # i /\ n \in R
    <3>1. Q = R \ {n}
      BY ONLY <1>3, <1>4, <1>5, <1>6, <1>7, <2>2, Zenon
    <3> QED BY ONLY <2>2, <3>1, Zenon
  <2>3. CASE n # i /\ n \notin R
    <3>1. Q = R \ {i}
      BY ONLY <1>3, <1>4, <1>5, <1>6, <1>7, <2>3, Zenon
    <3> QED BY ONLY <1>5, <3>1, Zenon
  <2> QED BY ONLY <2>1, <2>2, <2>3, Zenon
<1>9. PICK x \in R : Q = R \ {x}
  BY ONLY <1>8, Zenon
<1>10. Fewer(R, x)
  <2>1. i \in Int /\ n \in Int /\ R \in SUBSET (i..n)
    BY ONLY <1>1, <1>3
  <2> QED BY ONLY <2>1, x \in R, OneLess, Zenon DEF OneLess
<1>11. nfds' = Cardinality(Q)
  BY <1>1, <1>9, <1>10, Zenon DEF Fewer
<1>12. (nfds = Cardinality(ReadyFrom(i)))'
  BY ONLY <1>11, Zenon DEF Q
<1>13. pc' = "loop"
  BY <1>1, Zenon
<1> QED BY ONLY <1>12, <1>13, Zenon DEF Counting, NoReadyEntryMissed, ReadyFrom

\* Every entry that is visited is counted once, also when disconnect moves the last
\* entry to its place.
LEMMA WalkCounting ==
  ASSUME OneLess, Types, Tracked, Counting, skip \/ process_socket_read \/ process_socket_write
  PROVE  Counting'
<1>1. InLoop /\ pc' = pc
  BY Zenon DEF skip, process_socket_read, process_socket_write
<1>2. CASE skip
  <2>1. i' = i + 1 /\ pollfds' = pollfds /\ nfds' = nfds /\ pollfds[i].revents = {}
    BY <1>2, Zenon DEF skip, dispatcherVars, Entry
  <2> QED BY <1>1, <2>1, PassCounting, Zenon
<1>3. CASE process_socket_read
  <2>1. i' = i + 1 /\ nfds' = nfds - 1 /\ pollfds[i].revents # {}
    BY <1>3, Zenon DEF process_socket_read, Entry
  <2>2. /\ Len(pollfds') = Len(pollfds)
        /\ \A k \in 1..Len(pollfds) : pollfds'[k].revents = pollfds[k].revents
    BY <1>3, ReadFacts, Zenon
  <2> QED BY <1>1, <2>1, <2>2, PassCounting, Zenon
<1>4. CASE process_socket_write
  <2>1. nfds' = nfds - 1 /\ pollfds[i].revents # {}
    BY <1>4, Zenon DEF process_socket_write, Entry
  <2>2. disconnect(Entry.fd) \/ (i' = i + 1 /\ pollfds' = pollfds)
    BY <1>4, WriteFacts, Zenon
  <2>3. CASE disconnect(Entry.fd)
    BY <1>1, <2>1, <2>3, DisconnectCounting, Zenon
  <2>4. CASE i' = i + 1 /\ pollfds' = pollfds
    BY <1>1, <2>1, <2>4, PassCounting, Zenon
  <2> QED BY <2>2, <2>3, <2>4, Zenon
<1> QED BY <1>2, <1>3, <1>4, Zenon

-----------------------------------------------------------------------------
(* A client is at one place. *)

\* Steps that move no client keep its place.
LEMMA SameOnePlace ==
  ASSUME OnePlace, UNCHANGED <<peer, backlog, eof, client>>
  PROVE  OnePlace'
BY Zenon DEF OnePlace

\* Initially no client has connected.
LEMMA InitOnePlace == Init => OnePlace
<1> SUFFICES ASSUME Init PROVE OnePlace
  BY Zenon
<1>1. 1..Len(backlog) = {} /\ DOMAIN peer = {} /\ eof = {}
  BY DEF Init
<1> QED BY <1>1, Zenon DEF OnePlace

\* A client that connects joins the backlog, and what else it does moves no client.
LEMMA ClientOnePlace ==
  ASSUME Types, OnePlace, NEW c \in Clients,
         connect(c) \/ send_command(c) \/ receive_reply(c) \/ hang_up(c)
  PROVE  OnePlace'
<1>1. CASE connect(c)
  <2> DEFINE n == Len(backlog)
  <2>1. /\ client[c] = "new" /\ client' = [client EXCEPT ![c] = "open"]
        /\ backlog' = Append(backlog, c) /\ peer' = peer /\ eof' = eof
    BY <1>1, Zenon DEF connect
  <2>2. /\ Len(backlog') = n + 1 /\ backlog'[n + 1] = c
        /\ \A k \in 1..n : backlog'[k] = backlog[k]
    BY <2>1, AppendFacts DEF Types
  <2>3. n \in Nat /\ \A k \in 1..n : backlog[k] \in Clients
    BY SMTT(30) DEF Types
  <2> HIDE DEF n
  <2>4. 1..(n + 1) = 1..n \cup {n + 1}
    BY ONLY <2>3
  <2>5. /\ c \notin eof /\ \A f \in DOMAIN peer : peer[f] # c
        /\ \A k \in 1..n : backlog[k] # c
    BY <2>1, Zenon DEF OnePlace, n
  <2>6. \A x \in Clients : client[x] # "new" => client'[x] # "new"
    BY <2>1, Zenon DEF Types
  <2>7. client'[c] # "new"
    BY <2>1, Zenon DEF Types
  <2>8. \A j, k \in 1..(n + 1) : backlog'[j] = backlog'[k] => j = k
    BY <2>2, <2>4, <2>5 DEF OnePlace, n
  <2>9. \A k \in 1..(n + 1) : backlog'[k] \notin eof /\ client'[backlog'[k]] # "new"
    BY <2>2, <2>3, <2>4, <2>5, <2>6, <2>7, Zenon DEF OnePlace, n
  <2>10. \A f \in DOMAIN peer : /\ peer[f] \notin eof /\ client'[peer[f]] # "new"
                                /\ \A k \in 1..(n + 1) : backlog'[k] # peer[f]
    <3>1. \A f \in DOMAIN peer : /\ peer[f] \in Clients /\ peer[f] \notin eof
                                 /\ client[peer[f]] # "new"
                                 /\ \A k \in 1..n : backlog[k] # peer[f]
      BY Zenon DEF OnePlace, Types, n
    <3> QED BY ONLY <2>2, <2>4, <2>5, <2>6, <3>1, Zenon
  <2>11. \A x \in eof : client'[x] # "new"
    BY <2>6, Zenon DEF OnePlace, Types
  <2>12. \A f, g \in DOMAIN peer : peer[f] = peer[g] => f = g
    BY Zenon DEF OnePlace
  <2> QED BY ONLY <2>1, <2>2, <2>8, <2>9, <2>10, <2>11, <2>12 DEF OnePlace
<1>2. CASE send_command(c) \/ receive_reply(c)
  BY <1>2, SameOnePlace, Zenon DEF send_command, receive_reply
<1>3. CASE hang_up(c)
  <2>1. client' = [client EXCEPT ![c] = "closed"] /\ UNCHANGED <<backlog, peer, eof>>
    BY <1>3, Zenon DEF hang_up
  <2>2. \A x \in Clients : client[x] # "new" => client'[x] # "new"
    BY <2>1, Zenon DEF Types
  <2>3. \A k \in 1..Len(backlog) : backlog[k] \in Clients
    BY DEF Types
  <2>4. /\ \A k \in 1..Len(backlog) : client'[backlog[k]] # "new"
        /\ \A f \in DOMAIN peer : client'[peer[f]] # "new"
        /\ \A x \in eof : client'[x] # "new"
    BY <2>2, <2>3, Zenon DEF OnePlace, Types
  <2> QED BY <2>1, <2>4, ZenonT(40) DEF OnePlace
<1> QED BY <1>1, <1>2, <1>3, Zenon

\* Closing the dispatcher disconnects every client.
LEMMA CloseOnePlace ==
  ASSUME Types, OnePlace, CloseAll, client' = client
  PROVE  OnePlace'
<1>1. 1..Len(backlog') = {} /\ DOMAIN peer' = {}
  BY DEF CloseAll
<1>2. \A x \in Range(peer) \cup Range(backlog) : client[x] # "new"
  <2>1. DOMAIN backlog = 1..Len(backlog)
    BY DEF Types
  <2> QED BY <2>1, Zenon DEF OnePlace, Range
<1>3. \A x \in eof' : client'[x] # "new"
  BY <1>2, Zenon DEF CloseAll, OnePlace
<1> QED BY ONLY <1>1, <1>3, Zenon DEF OnePlace

\* An accepted client moves from the backlog to a descriptor.
LEMMA AcceptedOnePlace ==
  ASSUME Types, OnePlace, NEW fd \in Fds \ DOMAIN peer, Accepted(fd), UNCHANGED <<eof, client>>
  PROVE  OnePlace'
<1> DEFINE n == Len(backlog)
<1>1. /\ DOMAIN peer' = DOMAIN peer \cup {fd}
      /\ peer'[fd] = backlog[1] /\ \A f \in DOMAIN peer : peer'[f] = peer[f]
      /\ Len(backlog') = n - 1 /\ n \in Nat \ {0}
      /\ \A k \in 1..(n - 1) : backlog'[k] = backlog[k + 1] /\ k + 1 \in 1..n
  BY AcceptedFacts, Zenon
<1>2. /\ \A f, g \in DOMAIN peer : peer[f] = peer[g] => f = g
      /\ \A j, k \in 1..n : backlog[j] = backlog[k] => j = k
      /\ \A k \in 1..n : backlog[k] \notin eof /\ client[backlog[k]] # "new"
      /\ \A f \in DOMAIN peer : /\ peer[f] \notin eof /\ client[peer[f]] # "new"
                                /\ \A k \in 1..n : backlog[k] # peer[f]
      /\ \A x \in eof : client[x] # "new"
  BY Zenon DEF OnePlace
<1>3. eof' = eof /\ client' = client
  BY Zenon
<1> HIDE DEF n
<1>4. 1 \in 1..n /\ \A k \in 1..(n - 1) : k + 1 # 1
  BY ONLY <1>1
<1>5. \A j, k \in 1..(n - 1) : j + 1 = k + 1 => j = k
  OBVIOUS
<1>6. \A f, g \in DOMAIN peer' : peer'[f] = peer'[g] => f = g
  BY ONLY <1>1, <1>2, <1>4
<1>7. \A j, k \in 1..(n - 1) : backlog'[j] = backlog'[k] => j = k
  BY ONLY <1>1, <1>2, <1>5
<1>8. \A k \in 1..(n - 1) : backlog'[k] \notin eof /\ client[backlog'[k]] # "new"
  BY ONLY <1>1, <1>2, SMTT(30)
<1>9. ASSUME NEW f \in DOMAIN peer'
      PROVE  /\ peer'[f] \notin eof /\ client[peer'[f]] # "new"
             /\ \A k \in 1..(n - 1) : backlog'[k] # peer'[f]
  <2>1. CASE f = fd
    BY ONLY <1>1, <1>2, <1>4, <2>1
  <2>2. CASE f \in DOMAIN peer
    BY ONLY <1>1, <1>2, <2>2
  <2> QED BY ONLY <1>1, <2>1, <2>2, f \in DOMAIN peer', Zenon
<1>10. \A x \in eof : client[x] # "new"
  BY ONLY <1>2, Zenon
<1>11. Len(backlog') = n - 1
  BY ONLY <1>1, Zenon
<1> QED BY ONLY <1>3, <1>6, <1>7, <1>8, <1>9, <1>10, <1>11, Zenon DEF OnePlace

\* A disconnected client leaves its descriptor for good.
LEMMA DisconnectOnePlace ==
  ASSUME Types, Tracked, OnePlace, InLoop, disconnect(Entry.fd), UNCHANGED <<backlog, client>>
  PROVE  OnePlace'
<1> DEFINE d == Entry.fd
<1>1. /\ DOMAIN peer' = DOMAIN peer \ {d} /\ \A f \in DOMAIN peer' : peer'[f] = peer[f]
      /\ eof' = eof \cup {peer[d]}
  BY DisconnectFacts, Zenon
<1>2. d \in DOMAIN peer
  BY InLoopFacts, Zenon
<1>3. backlog' = backlog /\ client' = client
  BY Zenon
<1>4. /\ \A f, g \in DOMAIN peer : peer[f] = peer[g] => f = g
      /\ \A j, k \in 1..Len(backlog) : backlog[j] = backlog[k] => j = k
      /\ \A k \in 1..Len(backlog) : backlog[k] \notin eof /\ client[backlog[k]] # "new"
      /\ \A f \in DOMAIN peer : /\ peer[f] \notin eof /\ client[peer[f]] # "new"
                                /\ \A k \in 1..Len(backlog) : backlog[k] # peer[f]
      /\ \A x \in eof : client[x] # "new"
  BY Zenon DEF OnePlace
<1> HIDE DEF d
<1>5. \A f, g \in DOMAIN peer' : peer'[f] = peer'[g] => f = g
  BY ONLY <1>1, <1>4, Zenon
<1>6. \A k \in 1..Len(backlog) : backlog[k] \notin eof' /\ client[backlog[k]] # "new"
  BY ONLY <1>1, <1>2, <1>4, Zenon
<1>7. \A f \in DOMAIN peer' : /\ peer'[f] \notin eof' /\ client[peer'[f]] # "new"
                              /\ \A k \in 1..Len(backlog) : backlog[k] # peer'[f]
  BY ONLY <1>1, <1>2, <1>4, Zenon
<1>8. \A x \in eof' : client[x] # "new"
  BY ONLY <1>1, <1>2, <1>4, Zenon
<1>9. \A j, k \in 1..Len(backlog) : backlog[j] = backlog[k] => j = k
  BY ONLY <1>4, Zenon
<1> QED BY ONLY <1>3, <1>5, <1>6, <1>7, <1>8, <1>9, Zenon DEF OnePlace

-----------------------------------------------------------------------------
(* Replies reach their client. *)

\* Frames that move from results_ to the socket.
Moves(g, o, b, p, q) ==
  (g \o (o \o SubSeq(b, p + 1, q))) \o SubSeq(b, q + 1, Len(b))
    = (g \o o) \o SubSeq(b, p + 1, Len(b))

\* Sending frames leaves what is received, in the socket and still to send as it was.
LEMMA SentMore ==
  ASSUME NEW S, NEW g \in Seq(S), NEW o \in Seq(S), NEW b \in Seq(S), NEW p \in Nat, NEW q \in Nat,
         p <= q, q <= Len(b)
  PROVE  Moves(g, o, b, p, q)
<1> DEFINE s == SubSeq(b, p + 1, q)
           r == SubSeq(b, q + 1, Len(b))
<1>1. s \in Seq(S) /\ r \in Seq(S)
  OBVIOUS
<1>2. s \o r = SubSeq(b, p + 1, Len(b))
  BY SubSeqJoin, Zenon
<1> HIDE DEF s, r
<1>3. g \o (o \o s) = (g \o o) \o s /\ g \o o \in Seq(S)
  <2>1. Assoc(g, o, s)
    BY ONLY <1>1, g \in Seq(S), o \in Seq(S), ConcatAssoc, Zenon
  <2>2. g \o o \in Seq(S)
    BY ONLY g \in Seq(S), o \in Seq(S), ConcatFacts, Zenon
  <2> QED BY ONLY <2>1, <2>2, Zenon DEF Assoc
<1>4. Assoc(g \o o, s, r)
  BY ONLY <1>1, <1>3, ConcatAssoc, Zenon
<1> QED BY ONLY <1>2, <1>3, <1>4, Zenon DEF s, r, Moves, Assoc

\* Frames that are added to results_.
Grows(a, b, s, p) ==
  a \o SubSeq(b \o s, p + 1, Len(b \o s)) = (a \o SubSeq(b, p + 1, Len(b))) \o s

\* Frames that a command adds follow what was still to send.
LEMMA RepliedMore ==
  ASSUME NEW S, NEW a \in Seq(S), NEW b \in Seq(S), NEW s \in Seq(S), NEW p \in Nat, p <= Len(b)
  PROVE  Grows(a, b, s, p)
<1> DEFINE r == SubSeq(b, p + 1, Len(b))
           w == SubSeq(b \o s, p + 1, Len(b \o s))
<1>1. /\ b \o s \in Seq(S) /\ Len(b \o s) = Len(b) + Len(s)
      /\ \A k \in 1..Len(b) : (b \o s)[k] = b[k]
      /\ \A k \in (Len(b) + 1)..(Len(b) + Len(s)) : (b \o s)[k] = s[k - Len(b)]
  BY ConcatFacts
<1>2. Len(b) \in Nat /\ Len(s) \in Nat /\ Len(b) <= Len(b) /\ Len(b \o s) \in Nat
      /\ Len(b \o s) <= Len(b \o s) /\ p <= Len(b \o s)
  BY <1>1
<1>3. r \in Seq(S) /\ Len(r) = Len(b) - p /\ \A k \in 1..(Len(b) - p) : r[k] = b[p + k]
  BY <1>2, SubSeqFacts, ZenonT(40)
<1>4. /\ w \in Seq(S) /\ Len(w) = Len(b \o s) - p
      /\ \A k \in 1..(Len(b \o s) - p) : w[k] = (b \o s)[p + k]
  <2> DEFINE bs == b \o s
  <2>1. bs \in Seq(S) /\ p \in Nat /\ Len(bs) \in Nat /\ p <= Len(bs) /\ Len(bs) <= Len(bs)
    BY <1>1, <1>2, Zenon
  <2> HIDE DEF bs
  <2>2. LET v == SubSeq(bs, p + 1, Len(bs))
        IN  v \in Seq(S) /\ Len(v) = Len(bs) - p /\ \A k \in 1..(Len(bs) - p) : v[k] = bs[p + k]
    BY ONLY <2>1, SubSeqFacts, Zenon
  <2> QED BY ONLY <2>2, Zenon DEF bs
<1> HIDE DEF r, w
<1>5. /\ r \o s \in Seq(S) /\ Len(r \o s) = Len(r) + Len(s)
      /\ \A k \in 1..Len(r) : (r \o s)[k] = r[k]
      /\ \A k \in (Len(r) + 1)..(Len(r) + Len(s)) : (r \o s)[k] = s[k - Len(r)]
  <2>1. r \in Seq(S) /\ s \in Seq(S)
    BY <1>3, Zenon
  <2> QED BY ONLY <2>1, ConcatFacts
<1>6. Len(w) = Len(r \o s)
  <2>1. Len(w) = Len(b \o s) - p /\ Len(b \o s) = Len(b) + Len(s) /\ Len(r) = Len(b) - p
        /\ Len(r \o s) = Len(r) + Len(s)
    BY ONLY <1>1, <1>3, <1>4, <1>5, Zenon
  <2> QED BY ONLY <1>2, <2>1, p \in Nat
<1>7. ASSUME NEW k \in 1..Len(w) PROVE w[k] = (r \o s)[k]
  <2>1. /\ Len(w) = (Len(b) + Len(s)) - p /\ Len(r) = Len(b) - p
        /\ k \in 1..(Len(b \o s) - p)
    BY ONLY <1>1, <1>3, <1>4, k \in 1..Len(w), Zenon
  <2>2. w[k] = (b \o s)[p + k]
    BY ONLY <1>4, <2>1, Zenon
  <2>3. CASE k <= Len(b) - p
    <3>1. p + k \in 1..Len(b) /\ k \in 1..(Len(b) - p) /\ k \in 1..Len(r)
      BY ONLY <1>2, <2>1, <2>3, k \in 1..Len(w), p \in Nat
    <3> QED BY ONLY <1>1, <1>3, <1>5, <2>2, <3>1, Zenon
  <2>4. CASE ~(k <= Len(b) - p)
    <3>1. /\ p + k \in (Len(b) + 1)..(Len(b) + Len(s))
          /\ k \in (Len(r) + 1)..(Len(r) + Len(s))
          /\ (p + k) - Len(b) = k - Len(r)
      BY ONLY <1>2, <2>1, <2>4, k \in 1..Len(w), p \in Nat
    <3> QED BY ONLY <1>1, <1>5, <2>2, <3>1, Zenon
  <2> QED BY ONLY <2>3, <2>4, Zenon
<1>8. w = r \o s
  BY ONLY <1>4, <1>5, <1>6, <1>7, SameSeq, Zenon
<1>9. a \o (r \o s) = (a \o r) \o s
  <2>1. Assoc(a, r, s)
    BY ONLY <1>3, a \in Seq(S), s \in Seq(S), ConcatAssoc, Zenon
  <2> QED BY ONLY <2>1, Zenon DEF Assoc
<1> QED BY ONLY <1>8, <1>9, Zenon DEF r, w, Grows

\* A client whose promise holds has received a prefix of what was replied.
LEMMA PromisedPrefix ==
  ASSUME NEW a \in Frames, NEW r \in Frames, NEW w, a \o r = w
  PROVE  IsPrefix(a, w)
BY PrefixOfConcat, Zenon DEF Frames

\* What is still to send is a sequence of frames.
LEMMA RestType ==
  ASSUME NEW r, r.bufs \in Frames, r.pos \in Nat, r.pos <= Len(r.bufs)
  PROVE  Rest(r) \in Frames
<1>1. Len(r.bufs) \in Nat /\ Len(r.bufs) <= Len(r.bufs)
  BY DEF Frames
<1> QED BY <1>1, SubSeqFacts, Zenon DEF Rest, Frames

\* What a step that neither replies nor receives keeps.
LEMMA SameAnswering ==
  ASSUME Answering, UNCHANGED <<peer, backlog, client, got, outq, reply, ran, results>>
  PROVE  Answering'
BY Zenon DEF Answering, Fresh, Promise, Rest, Result, RepliesReachTheirClient

\* Initially nothing has been answered.
LEMMA InitAnswering == Init => Answering
<1> SUFFICES ASSUME Init PROVE Answering
  BY Zenon
<1>1. 1..Len(backlog) = {} /\ DOMAIN peer = {}
  BY DEF Init
<1>2. \A c \in Clients : Fresh(c)
  BY Zenon DEF Init, Fresh
<1>3. \A c \in Clients : IsPrefix(got[c] \o outq[c], reply[c])
  <2>1. \A c \in Clients : got[c] = <<>> /\ outq[c] = <<>> /\ reply[c] = <<>>
    BY <1>2, Zenon DEF Fresh
  <2>2. IsPrefix(<<>> \o <<>>, <<>>)
    BY DEF IsPrefix
  <2> QED BY ONLY <2>1, <2>2, Zenon
<1> QED BY <1>1, <1>2, <1>3, Zenon DEF Answering, RepliesReachTheirClient

\* All connections are closed.
LEMMA CloseAnswering ==
  ASSUME Answering, CloseAll, UNCHANGED <<client, got, outq, reply, ran>>
  PROVE  Answering'
<1>1. 1..Len(backlog') = {} /\ DOMAIN peer' = {}
  BY DEF CloseAll
<1>2. /\ \A c \in Clients : client'[c] = "new" => Fresh(c)'
      /\ RepliesReachTheirClient'
  BY Zenon DEF Answering, Fresh, RepliesReachTheirClient
<1> QED BY ONLY <1>1, <1>2, Zenon DEF Answering

\* A client that is connected is neither new nor waiting, and is connected once:
\* what happens to it disturbs no other.
LEMMA OneAnswering ==
  ASSUME Types, OnePlace, Answering, NEW d \in DOMAIN peer, UNCHANGED <<client, backlog, got>>,
         \A x \in Clients : x # peer[d] => /\ outq'[x] = outq[x] /\ reply'[x] = reply[x]
                                           /\ ran'[x] = ran[x],
         DOMAIN peer' \subseteq DOMAIN peer, \A f \in DOMAIN peer' : peer'[f] = peer[f],
         \A f \in DOMAIN peer' : f # d => Result(f)' = Result(f),
         client[peer[d]] # "closed" => /\ d \in DOMAIN peer' => Promise(d)'
                                       /\ IsPrefix(got[peer[d]] \o outq'[peer[d]], reply'[peer[d]])
  PROVE  Answering'
<1> DEFINE c == peer[d]
<1>1. /\ c \in Clients /\ client[c] # "new" /\ \A k \in 1..Len(backlog) : backlog[k] # c
      /\ \A f \in DOMAIN peer : peer[f] \in Clients /\ (f # d => peer[f] # c)
  BY Zenon DEF Types, OnePlace
<1>2. \A k \in 1..Len(backlog) : backlog[k] \in Clients
  BY DEF Types
<1>3. /\ \A x \in Clients : client[x] = "new" => Fresh(x)
      /\ \A k \in 1..Len(backlog) : Fresh(backlog[k])
      /\ \A f \in DOMAIN peer : client[peer[f]] # "closed" => Promise(f)
      /\ \A x \in Clients : client[x] # "closed" => IsPrefix(got[x] \o outq[x], reply[x])
  BY Zenon DEF Answering, RepliesReachTheirClient
<1>4. /\ client' = client /\ backlog' = backlog /\ got' = got
      /\ \A x \in Clients : x # c => outq'[x] = outq[x] /\ reply'[x] = reply[x] /\ ran'[x] = ran[x]
  BY Zenon
<1>5. \A x \in Clients : x # c => (Fresh(x)' <=> Fresh(x))
  BY ONLY <1>4, Zenon DEF Fresh
<1>6. \A x \in Clients : client'[x] = "new" => Fresh(x)'
  BY ONLY <1>1, <1>3, <1>4, <1>5, Zenon
<1>7. \A k \in 1..Len(backlog') : Fresh(backlog[k])'
  <2>1. \A k \in 1..Len(backlog) : backlog[k] \in Clients /\ backlog[k] # c /\ Fresh(backlog[k])
    BY ONLY <1>1, <1>2, <1>3, Zenon
  <2> QED BY ONLY <1>4, <2>1, Zenon DEF Fresh
<1>8. ASSUME NEW f \in DOMAIN peer', client'[peer'[f]] # "closed" PROVE Promise(f)'
  <2>1. CASE f = d
    BY <1>4, <1>8, <2>1, Zenon
  <2>2. CASE f # d
    <3>1. f \in DOMAIN peer /\ peer'[f] = peer[f] /\ Result(f)' = Result(f)
      BY <2>2, Zenon
    <3>2. peer[f] \in Clients /\ peer[f] # c
      BY ONLY <1>1, <2>2, <3>1, Zenon
    <3>3. Promise(f)
      BY ONLY <1>3, <1>4, <1>8, <3>1, Zenon
    <3> QED BY ONLY <1>4, <3>1, <3>2, <3>3, Zenon DEF Promise, Rest
  <2> QED BY ONLY <2>1, <2>2, Zenon
<1>9. ASSUME NEW x \in Clients, client'[x] # "closed"
      PROVE  IsPrefix(got'[x] \o outq'[x], reply'[x])
  <2>1. CASE x = c
    BY <1>4, <1>9, <2>1, Zenon
  <2>2. CASE x # c
    BY ONLY <1>3, <1>4, <1>9, <2>2, x \in Clients, Zenon
  <2> QED BY ONLY <2>1, <2>2, Zenon
<1> QED BY ONLY <1>6, <1>7, <1>8, <1>9, Zenon DEF Answering, RepliesReachTheirClient

\* A command that is run adds the same frames to what was replied and to what is to
\* send.
LEMMA ReadAnswering ==
  ASSUME Types, Tracked, OnePlace, Answering, process_socket_read
  PROVE  Answering'
<1>0. PICK d, c : d = Entry.fd /\ c = peer[Entry.fd]
  BY Zenon
<1>1. InLoop /\ UNCHANGED <<client, backlog, got, outq, peer>>
  BY Zenon DEF process_socket_read, clientVars
<1>2. d \in DOMAIN peer /\ d \in Fds /\ c \in Clients
  BY <1>0, <1>1, InLoopFacts, Zenon
<1>3. CASE UNCHANGED <<results, inq, ran, reply>>
  BY <1>1, <1>3, SameAnswering, Zenon
<1>4. ASSUME NEW n \in Nat, ran' = [ran EXCEPT ![c] = @ + 1],
             reply' = [reply EXCEPT ![c] = @ \o FramesOf(c, n)],
             \/ n = 0 /\ results' = results
             \/ Queue(d, FramesOf(c, n))
      PROVE  Answering'
  <2> DEFINE s == FramesOf(c, n)
  <2>1. s \in Frames /\ (n = 0 => s = <<>>)
    BY <1>2, FramesOfType, Zenon
  <2>2. \A x \in Clients : x # c => /\ outq'[x] = outq[x] /\ reply'[x] = reply[x]
                                    /\ ran'[x] = ran[x]
    BY <1>1, <1>4, Zenon DEF Types
  <2>3. reply'[c] = reply[c] \o s
    BY <1>2, <1>4, Zenon DEF Types
  <2>4. got[c] \o outq[c] \in Frames
    <3>1. got[c] \in Frames /\ outq[c] \in Frames
      BY <1>2, Zenon DEF Types
    <3> QED BY ONLY <3>1, ConcatFacts, Zenon DEF Frames
  <2>5. /\ Result(d).bufs \in Frames /\ Result(d).pos \in Nat
        /\ Result(d).pos <= Len(Result(d).bufs) /\ Rest(Result(d)) \in Frames
    <3>1. /\ Result(d).bufs \in Frames /\ Result(d).pos \in Nat
          /\ Result(d).pos <= Len(Result(d).bufs)
      BY ResultFacts, Zenon
    <3> QED BY ONLY <3>1, RestType, Zenon
  <2>6. /\ \A f \in DOMAIN peer' : f # d => Result(f)' = Result(f)
        /\ (got[c] \o outq[c]) \o Rest(Result(d)') = ((got[c] \o outq[c]) \o Rest(Result(d))) \o s
        /\ Rest(Result(d)') \in Frames
    <3>1. CASE n = 0 /\ results' = results
      <4>1. \A f : Result(f)' = Result(f)
        BY <3>1, Zenon DEF Result
      <4>2. Rest(Result(d)') = Rest(Result(d))
        BY ONLY <4>1, Zenon
      <4>3. (got[c] \o outq[c]) \o Rest(Result(d)) \in Frames
        BY ONLY <2>4, <2>5, ConcatFacts, Zenon DEF Frames
      <4>4. \A w \in Frames : w \o <<>> = w
        BY DEF Frames
      <4> QED BY ONLY <2>1, <2>5, <3>1, <4>1, <4>2, <4>3, <4>4, Zenon
    <3>2. CASE Queue(d, s)
      <4>1. /\ DOMAIN results' = DOMAIN results \cup {d}
            /\ \A g \in DOMAIN results : g # d => results'[g] = results[g]
            /\ results'[d].bufs = Result(d).bufs \o s /\ results'[d].pos = Result(d).pos
            /\ results'[d] \in [bufs : Frames, pos : Nat]
            /\ results'[d].pos <= Len(results'[d].bufs)
        BY <1>2, <2>1, <3>2, QueueFacts, Zenon
      <4>2. Result(d)' = results'[d] /\ \A f : f # d => Result(f)' = Result(f)
        BY ONLY <4>1, Zenon DEF Result
      <4>3. Rest(Result(d)') = SubSeq(Result(d).bufs \o s, Result(d).pos + 1, Len(Result(d).bufs \o s))
        BY ONLY <4>1, <4>2, Zenon DEF Rest
      <4>4. (got[c] \o outq[c]) \o Rest(Result(d)') = ((got[c] \o outq[c]) \o Rest(Result(d))) \o s
        <5>1. (got[c] \o outq[c]) \o SubSeq(Result(d).bufs \o s, Result(d).pos + 1, Len(Result(d).bufs \o s))
                = ((got[c] \o outq[c]) \o SubSeq(Result(d).bufs, Result(d).pos + 1, Len(Result(d).bufs))) \o s
          <6>1. Grows(got[c] \o outq[c], Result(d).bufs, s, Result(d).pos)
            BY ONLY <2>1, <2>4, <2>5, RepliedMore, Zenon DEF Frames
          <6> QED BY ONLY <6>1, Zenon DEF Grows
        <5> QED BY ONLY <4>3, <5>1, Zenon DEF Rest
      <4>5. Rest(results'[d]) \in Frames
        <5>1. \A r \in [bufs : Frames, pos : Nat] : r.bufs \in Frames /\ r.pos \in Nat
          BY Zenon
        <5>2. results'[d].bufs \in Frames /\ results'[d].pos \in Nat
          BY ONLY <4>1, <5>1, Zenon
        <5> QED BY ONLY <4>1, <5>2, RestType, Zenon
      <4> QED BY ONLY <4>2, <4>4, <4>5, Zenon
    <3> QED BY ONLY <1>4, <3>1, <3>2, Zenon
  <2>7. ASSUME client[c] # "closed"
        PROVE  /\ (got[c] \o outq[c]) \o Rest(Result(d)') = reply'[c]
               /\ IsPrefix(got[c] \o outq[c], reply'[c])
    <3>1. (got[c] \o outq[c]) \o Rest(Result(d)) = reply[c]
      BY <1>0, <1>2, <2>7, Zenon DEF Answering, Promise
    <3>2. (got[c] \o outq[c]) \o Rest(Result(d)') = reply'[c]
      BY ONLY <2>3, <2>6, <3>1, Zenon
    <3> QED BY ONLY <2>4, <2>6, <3>2, PromisedPrefix, Zenon
  <2>8. client[c] # "closed" => Promise(d)' /\ IsPrefix(got[c] \o outq'[c], reply'[c])
    <3>1. outq' = outq /\ got' = got /\ peer' = peer /\ peer[d] = c
      BY <1>0, <1>1, Zenon
    <3> QED BY ONLY <2>7, <3>1, Zenon DEF Promise
  <2>9. DOMAIN peer' \subseteq DOMAIN peer /\ \A f \in DOMAIN peer' : peer'[f] = peer[f]
    BY <1>1, Zenon
  <2>10. UNCHANGED <<client, backlog, got>>
    BY <1>1, Zenon
  <2>11. peer[d] = c
    BY <1>0, Zenon
  <2> QED BY <1>2, <2>2, <2>6, <2>8, <2>9, <2>10, <2>11, OneAnswering, Zenon
<1> QED BY <1>0, <1>3, <1>4, ReadEffects, Zenon

\* What a connection has received, with what a send adds and what is left, is
\* what was replied.
LEMMA SendKeepsPromise ==
  ASSUME Types, Answering, NEW d \in DOMAIN peer, NEW c \in Clients, peer[d] = c, NEW pos \in Nat,
         Result(d).pos <= pos, pos <= Len(Result(d).bufs), client[c] # "closed",
         outq'[c] = outq[c] \o SubSeq(Result(d).bufs, Result(d).pos + 1, pos)
  PROVE  (got[c] \o outq'[c]) \o SubSeq(Result(d).bufs, pos + 1, Len(Result(d).bufs)) = reply[c]
<1>1. Result(d).bufs \in Frames /\ Result(d).pos \in Nat /\ got[c] \in Frames /\ outq[c] \in Frames
  BY ResultFacts, Zenon DEF Types
<1>2. Moves(got[c], outq[c], Result(d).bufs, Result(d).pos, pos)
  BY <1>1, SentMore, Zenon DEF Frames
<1>3. (got[c] \o outq[c]) \o Rest(Result(d)) = reply[c]
  BY Zenon DEF Answering, Promise
<1> QED BY <1>2, <1>3, Zenon DEF Moves, Rest

\* Writing moves frames in their order, and a connection is closed when nothing is
\* left or the client is gone.
LEMMA WriteAnswering ==
  ASSUME Types, Tracked, OnePlace, Answering, process_socket_write
  PROVE  Answering'
<1>0. PICK d, c : d = Entry.fd /\ c = peer[Entry.fd]
  BY Zenon
<1>1. InLoop /\ UNCHANGED <<client, backlog, got, reply, ran>>
  BY Zenon DEF process_socket_write, clientVars, historyVars
<1>2. d \in DOMAIN peer /\ d \in Fds /\ c \in Clients /\ peer[d] = c
  BY <1>0, <1>1, InLoopFacts, Zenon
<1>3. PICK pos \in Nat :
        /\ Result(d).pos <= pos /\ pos <= Len(Result(d).bufs)
        /\ outq' = [outq EXCEPT ![c] = @ \o SubSeq(Result(d).bufs, Result(d).pos + 1, pos)]
        /\ \/ disconnect(Entry.fd)
           \/ /\ results' = With(results, d, [Result(d) EXCEPT !.pos = pos])
              /\ UNCHANGED <<pollfds, peer, eof>>
  BY <1>0, WriteFacts, Zenon
<1> DEFINE s == SubSeq(Result(d).bufs, Result(d).pos + 1, pos)
           r == SubSeq(Result(d).bufs, pos + 1, Len(Result(d).bufs))
<1>4. Result(d).bufs \in Frames /\ Result(d).pos \in Nat /\ got[c] \in Frames /\ outq[c] \in Frames
  BY <1>2, ResultFacts, Zenon DEF Types
<1>5. s \in Frames /\ r \in Frames
  <2>1. Len(Result(d).bufs) \in Nat /\ Len(Result(d).bufs) <= Len(Result(d).bufs)
    BY ONLY <1>4 DEF Frames
  <2> QED BY ONLY <1>3, <1>4, <2>1, pos \in Nat, SubSeqFacts, Zenon DEF Frames
<1>6. /\ outq'[c] = outq[c] \o s /\ \A x \in Clients : x # c => outq'[x] = outq[x]
  BY <1>2, <1>3, Zenon DEF Types
<1>7. got[c] \o outq'[c] \in Frames
  <2>1. outq[c] \o s \in Frames
    BY ONLY <1>4, <1>5, ConcatFacts, Zenon DEF Frames
  <2> QED BY ONLY <1>4, <1>6, <2>1, ConcatFacts, ZenonT(40) DEF Frames
<1>9. ASSUME client[c] # "closed" PROVE (got[c] \o outq'[c]) \o r = reply[c]
  BY <1>2, <1>3, <1>6, <1>9, SendKeepsPromise, Zenon
<1>10. client[c] # "closed" => IsPrefix(got[c] \o outq'[c], reply[c])
  BY ONLY <1>5, <1>7, <1>9, PromisedPrefix, Zenon
<1>11. /\ DOMAIN peer' \subseteq DOMAIN peer /\ \A f \in DOMAIN peer' : peer'[f] = peer[f]
       /\ \A f \in DOMAIN peer' : f # d => Result(f)' = Result(f)
       /\ client[c] # "closed" => (d \in DOMAIN peer' => Promise(d)')
  <2>1. CASE disconnect(Entry.fd)
    <3>1. /\ DOMAIN peer' = DOMAIN peer \ {d} /\ \A f \in DOMAIN peer' : peer'[f] = peer[f]
          /\ DOMAIN results' = DOMAIN results \ {d}
          /\ \A f \in DOMAIN results' : results'[f] = results[f]
      BY <1>0, <1>1, <2>1, DisconnectFacts, Zenon
    <3>2. \A f : f # d => Result(f)' = Result(f)
      BY ONLY <3>1, Zenon DEF Result
    <3> QED BY ONLY <3>1, <3>2, Zenon
  <2>2. CASE /\ results' = With(results, d, [Result(d) EXCEPT !.pos = pos])
             /\ UNCHANGED <<pollfds, peer, eof>>
    <3>1. /\ DOMAIN results' = DOMAIN results \cup {d}
          /\ \A g \in DOMAIN results : g # d => results'[g] = results[g]
          /\ results'[d].bufs = Result(d).bufs /\ results'[d].pos = pos
      BY <1>2, <1>3, <2>2, RefusedFacts, Zenon
    <3>2. Result(d)' = results'[d] /\ \A f : f # d => Result(f)' = Result(f)
      BY ONLY <3>1, Zenon DEF Result
    <3>3. Rest(Result(d)') = r
      BY ONLY <3>1, <3>2, Zenon DEF Rest
    <3>4. got' = got /\ reply' = reply /\ peer' = peer /\ peer[d] = c
      BY <1>1, <1>2, <2>2, Zenon
    <3>5. client[c] # "closed" => Promise(d)'
      BY ONLY <1>9, <3>3, <3>4, Zenon DEF Promise
    <3> QED BY ONLY <3>2, <3>4, <3>5, Zenon
  <2> QED BY <1>0, <1>3, <2>1, <2>2, Zenon
<1> HIDE DEF s, r
<1>12. \A x \in Clients : x # peer[d] => /\ outq'[x] = outq[x] /\ reply'[x] = reply[x]
                                         /\ ran'[x] = ran[x]
  BY ONLY <1>1, <1>2, <1>6, Zenon
<1>13. client[peer[d]] # "closed" =>
         /\ d \in DOMAIN peer' => Promise(d)'
         /\ IsPrefix(got[peer[d]] \o outq'[peer[d]], reply'[peer[d]])
  BY ONLY <1>1, <1>2, <1>10, <1>11, Zenon
<1>14. UNCHANGED <<client, backlog, got>>
  BY ONLY <1>1, Zenon
<1> QED BY <1>2, <1>11, <1>12, <1>13, <1>14, OneAnswering, Zenon

\* An accepted client has been promised nothing.
LEMMA AcceptAnswering ==
  ASSUME Types, Tracked, Listening, OnePlace, Answering, accept
  PROVE  Answering'
<1>1. UNCHANGED <<client, got, outq, reply, ran, results>>
  BY Zenon DEF accept, clientVars, historyVars
<1>2. CASE UNCHANGED <<peer, backlog>>
  BY <1>1, <1>2, SameAnswering, Zenon
<1>3. ASSUME NEW fd \in Fds \ DOMAIN peer, Accepted(fd) PROVE Answering'
  <2> DEFINE n == Len(backlog)
  <2>1. /\ DOMAIN peer' = DOMAIN peer \cup {fd}
        /\ peer'[fd] = backlog[1] /\ \A f \in DOMAIN peer : peer'[f] = peer[f]
        /\ Len(backlog') = n - 1 /\ n \in Nat \ {0}
        /\ \A k \in 1..(n - 1) : backlog'[k] = backlog[k + 1] /\ k + 1 \in 1..n
    BY <1>3, AcceptedFacts, Zenon
  <2>2. Result(fd) = NoResult
    <3>1. DOMAIN results \subseteq DOMAIN peer
      BY Zenon DEF Tracked, accept
    <3> QED BY <3>1, Zenon DEF Result
  <2>3. \A k \in 1..n : Fresh(backlog[k])
    BY Zenon DEF Answering
  <2>4. \A f : Result(f)' = Result(f)
    BY <1>1, Zenon DEF Result
  <2> HIDE DEF n
  <2>5. \A x : Fresh(x) => Fresh(x)'
    BY <1>1, Zenon DEF Fresh
  <2>6. \A k \in 1..(n - 1) : Fresh(backlog[k])'
    <3>1. \A k \in 1..(n - 1) : Fresh(backlog[k + 1]) /\ backlog'[k] = backlog[k + 1]
      BY ONLY <2>1, <2>3, Zenon
    <3> QED BY <1>1, <3>1, Zenon DEF Fresh
  <2>7. Promise(fd)'
    <3>1. Fresh(backlog[1])
      <4>1. 1 \in 1..n
        BY ONLY <2>1
      <4> QED BY ONLY <2>3, <4>1, Zenon
    <3>2. Rest(NoResult) = <<>>
      BY DEF Rest, NoResult
    <3>3. (<<>> \o <<>>) \o <<>> = <<>>
      OBVIOUS
    <3>4. got'[backlog[1]] = <<>> /\ outq'[backlog[1]] = <<>> /\ reply'[backlog[1]] = <<>>
      BY <1>1, <3>1, Zenon DEF Fresh
    <3> QED BY ONLY <2>1, <2>2, <2>4, <3>2, <3>3, <3>4, Zenon DEF Promise
  <2>8. ASSUME NEW f \in DOMAIN peer, client[peer[f]] # "closed" PROVE Promise(f)'
    <3>1. Promise(f)
      BY <2>8, Zenon DEF Answering
    <3>2. peer'[f] = peer[f] /\ Result(f)' = Result(f)
      BY <2>1, <2>4, Zenon
    <3> QED BY <1>1, <3>1, <3>2, Zenon DEF Promise
  <2>9. \A f \in DOMAIN peer' : client'[peer'[f]] # "closed" => Promise(f)'
    BY <1>1, <2>1, <2>7, <2>8, Zenon
  <2>10. \A x \in Clients : client'[x] = "new" => Fresh(x)'
    BY <1>1, <2>5, Zenon DEF Answering
  <2>11. RepliesReachTheirClient'
    BY <1>1, Zenon DEF Answering, RepliesReachTheirClient
  <2>12. \A k \in 1..Len(backlog') : Fresh(backlog[k])'
    BY ONLY <2>1, <2>6, Zenon
  <2> QED BY ONLY <2>9, <2>10, <2>11, <2>12, Zenon DEF Answering
<1> QED BY <1>2, <1>3, AcceptFacts, Zenon

\* A client that connects has been answered nothing.
LEMMA ConnectAnswering ==
  ASSUME Types, OnePlace, Answering, NEW c \in Clients, connect(c)
  PROVE  Answering'
<1> DEFINE n == Len(backlog)
<1>1. /\ client[c] = "new" /\ client' = [client EXCEPT ![c] = "open"]
      /\ backlog' = Append(backlog, c) /\ peer' = peer
      /\ UNCHANGED <<got, outq, reply, ran, results>>
  BY Zenon DEF connect, dispatcherVars, historyVars
<1>2. /\ Len(backlog') = n + 1 /\ backlog'[n + 1] = c
      /\ \A k \in 1..n : backlog'[k] = backlog[k]
  BY <1>1, AppendFacts, SMTT(30) DEF Types
<1>3. /\ \A x \in Clients : client[x] = "new" => Fresh(x)
      /\ \A k \in 1..n : Fresh(backlog[k])
      /\ \A f \in DOMAIN peer : client[peer[f]] # "closed" => Promise(f)
      /\ \A x \in Clients : client[x] # "closed" => IsPrefix(got[x] \o outq[x], reply[x])
  BY Zenon DEF Answering, RepliesReachTheirClient
<1>4. /\ \A x \in Clients : client'[x] = "new" => client[x] = "new"
      /\ \A x \in Clients : client'[x] # "closed" => client[x] # "closed"
  BY <1>1, Zenon DEF Types
<1>5. 1..(n + 1) = 1..n \cup {n + 1}
  BY DEF Types
<1>6. \A f \in DOMAIN peer : peer[f] \in Clients
  BY Zenon DEF Types
<1> HIDE DEF n
<1>7. \A x : Fresh(x) => Fresh(x)'
  BY ONLY <1>1, Zenon DEF Fresh
<1>8. \A k \in 1..(n + 1) : Fresh(backlog'[k])
  BY ONLY <1>1, <1>2, <1>3, <1>5, c \in Clients, Zenon
<1>9. \A k \in 1..(n + 1) : Fresh(backlog[k])'
  BY ONLY <1>1, <1>8, Zenon DEF Fresh
<1>10. \A f : Promise(f) => Promise(f)'
  BY ONLY <1>1, Zenon DEF Promise, Result
<1>11. \A f \in DOMAIN peer' : client'[peer'[f]] # "closed" => Promise(f)'
  BY ONLY <1>1, <1>3, <1>4, <1>6, <1>10, Zenon
<1>12. \A x \in Clients : client'[x] # "closed" => IsPrefix(got'[x] \o outq'[x], reply'[x])
  BY ONLY <1>1, <1>3, <1>4, Zenon
<1>13. \A x \in Clients : client'[x] = "new" => Fresh(x)'
  BY ONLY <1>3, <1>4, <1>7, Zenon
<1>14. \A k \in 1..Len(backlog') : Fresh(backlog[k])'
  BY ONLY <1>2, <1>9, Zenon
<1> QED BY ONLY <1>11, <1>12, <1>13, <1>14, Zenon DEF Answering, RepliesReachTheirClient

\* A client receives, or leaves.
LEMMA ReceiveAnswering ==
  ASSUME Types, OnePlace, Answering, NEW c \in Clients, receive_reply(c) \/ hang_up(c)
  PROVE  Answering'
<1>1. /\ client[c] = "open" /\ UNCHANGED <<backlog, peer, reply, ran, results>>
      /\ \A x \in Clients : x # c => /\ got'[x] = got[x] /\ outq'[x] = outq[x]
                                     /\ client'[x] = client[x]
      /\ client'[c] # "new"
  BY Zenon DEF receive_reply, hang_up, dispatcherVars, historyVars, Types
<1>2. client'[c] # "closed" => /\ got'[c] \o outq'[c] = got[c] \o outq[c]
                               /\ outq[c] # <<>>
  <2>1. CASE receive_reply(c)
    <3>1. /\ outq[c] # <<>> /\ got'[c] = Append(got[c], Head(outq[c]))
          /\ outq'[c] = Tail(outq[c]) /\ got[c] \in Frames /\ outq[c] \in Frames
      BY <2>1, Zenon DEF receive_reply, Types
    <3>2. Append(got[c], Head(outq[c])) \o Tail(outq[c]) = got[c] \o outq[c]
      BY ONLY <3>1, HeadMoves, Zenon DEF Frames
    <3> QED BY ONLY <3>1, <3>2, Zenon
  <2>2. CASE hang_up(c)
    BY <2>2, Zenon DEF hang_up, Types
  <2> QED BY <2>1, <2>2, Zenon
<1>3. Fresh(c) => Fresh(c)'
  <2>1. CASE receive_reply(c)
    BY <2>1, Zenon DEF receive_reply, Fresh
  <2>2. CASE hang_up(c)
    <3>1. outq'[c] = <<>> /\ got' = got
      BY <2>2, Zenon DEF hang_up, Types
    <3> QED BY <1>1, <3>1, Zenon DEF Fresh
  <2> QED BY <2>1, <2>2, Zenon
<1>4. /\ \A x \in Clients : client[x] = "new" => Fresh(x)
      /\ \A k \in 1..Len(backlog) : Fresh(backlog[k])
      /\ \A f \in DOMAIN peer : client[peer[f]] # "closed" => Promise(f)
      /\ \A x \in Clients : client[x] # "closed" => IsPrefix(got[x] \o outq[x], reply[x])
  BY Zenon DEF Answering, RepliesReachTheirClient
<1>5. \A k \in 1..Len(backlog) : backlog[k] \in Clients
  BY DEF Types
<1>6. \A f \in DOMAIN peer : peer[f] \in Clients
  BY Zenon DEF Types
<1>7. \A x \in Clients : Fresh(x) => Fresh(x)'
  <2>1. \A x \in Clients : x # c => (Fresh(x) => Fresh(x)')
    BY ONLY <1>1, Zenon DEF Fresh
  <2> QED BY ONLY <1>3, <2>1, Zenon
<1>8. \A x \in Clients : client'[x] = "new" => Fresh(x)'
  BY ONLY <1>1, <1>4, <1>7, Zenon
<1>9. \A k \in 1..Len(backlog') : Fresh(backlog[k])'
  <2>1. \A k \in 1..Len(backlog) : Fresh(backlog[k]) /\ backlog[k] \in Clients
    BY ONLY <1>4, <1>5, Zenon
  <2>2. ASSUME NEW k \in 1..Len(backlog) PROVE Fresh(backlog[k])'
    <3>1. PICK x \in Clients : x = backlog[k]
      BY ONLY <2>1, k \in 1..Len(backlog), Zenon
    <3>2. Fresh(x)'
      BY ONLY <1>7, <2>1, <3>1, k \in 1..Len(backlog), x \in Clients, Zenon
    <3> QED BY ONLY <1>1, <3>1, <3>2, Zenon DEF Fresh
  <2> QED BY ONLY <1>1, <2>2, Zenon
<1>10. \A x \in Clients : client'[x] # "closed" =>
         client[x] # "closed" /\ got'[x] \o outq'[x] = got[x] \o outq[x]
  BY ONLY <1>1, <1>2, Zenon
<1>11. ASSUME NEW f \in DOMAIN peer', client'[peer'[f]] # "closed" PROVE Promise(f)'
  <2>1. peer'[f] = peer[f] /\ f \in DOMAIN peer /\ peer[f] \in Clients /\ reply' = reply
    BY ONLY <1>1, <1>6, f \in DOMAIN peer', Zenon
  <2>2. Promise(f)
    BY ONLY <1>4, <1>10, <1>11, <2>1, Zenon
  <2>3. Result(f)' = Result(f)
    BY ONLY <1>1, Zenon DEF Result
  <2>4. got'[peer[f]] \o outq'[peer[f]] = got[peer[f]] \o outq[peer[f]]
    BY ONLY <1>10, <1>11, <2>1, Zenon
  <2> QED BY ONLY <2>1, <2>2, <2>3, <2>4, Zenon DEF Promise
<1>12. \A x \in Clients : client'[x] # "closed" => IsPrefix(got'[x] \o outq'[x], reply'[x])
  BY ONLY <1>1, <1>4, <1>10, Zenon
<1> QED BY ONLY <1>8, <1>9, <1>11, <1>12, Zenon DEF Answering, RepliesReachTheirClient

-----------------------------------------------------------------------------
(* A client that sees the end of its connection has been answered. *)

\* What happens to other clients, and a client that leaves, do not matter.
LEMMA OnceKept ==
  ASSUME NEW e, NEW c, NEW u, NEW v, Once(e, c, u), v => u, ran'[c] = ran[c],
         client'[c] \in {client[c], "closed"}, inq[c] # <<>> => inq'[c] # <<>>
  PROVE  Once(e, c, v)'
BY Zenon DEF Once

\* The same of an entry that changes while the clients do not.
LEMMA OnceNext ==
  ASSUME UNCHANGED <<ran, client, inq>>, NEW k, NEW u, Unvisited(k)' => u,
         Once(pollfds'[k], peer'[pollfds'[k].fd], u)
  PROVE  (Once(pollfds[k], peer[pollfds[k].fd], Unvisited(k)))'
<1>1. PICK e, c, v : e = pollfds'[k] /\ c = peer'[pollfds'[k].fd] /\ v = Unvisited(k)'
  BY Zenon
<1>2. Once(e, c, v)'
  BY <1>1, Zenon DEF Once
<1> QED BY ONLY <1>1, <1>2, Zenon DEF Once

\* Before the first set_command_path there is nothing.
LEMMA NothingBeforeSet ==
  ASSUME Types, Tracked, ReadOnce
  PROVE  sets = 0 => /\ pollfds = <<>> /\ backlog = <<>> /\ eof = {} /\ pc = "idle"
                     /\ DOMAIN peer = {}
<1> SUFFICES ASSUME sets = 0 PROVE pollfds = <<>> /\ backlog = <<>> /\ eof = {} /\ pc = "idle"
                                   /\ DOMAIN peer = {}
  BY Zenon
<1>1. pollfds = <<>> /\ backlog = <<>> /\ eof = {}
  BY Zenon DEF ReadOnce
<1>2. 2..Len(pollfds) = {}
  BY ONLY <1>1
<1> QED BY <1>1, <1>2, Zenon DEF Tracked, is_open

\* The clients that have seen the end of their connection keep what they have.
EofKept == \A c \in eof : client'[c] = "open" =>
             /\ client[c] = "open" /\ ran'[c] = ran[c] /\ reply'[c] = reply[c]
             /\ got'[c] \o outq'[c] = got[c] \o outq[c]

\* Clients whose connection ended keep their answer in steps that end no connection.
LEMMA SameEof ==
  ASSUME ReadOnce, EofKept, eof' = eof, faults' = 0 => faults = 0, sets' = sets
  PROVE  EofMeansAnswered'
<1>1. EofMeansAnswered
  BY Zenon DEF ReadOnce
<1> QED BY <1>1, Zenon DEF EofMeansAnswered, EofKept

\* Initially no connection was read from.
LEMMA InitReadOnce == Init => ReadOnce
<1> SUFFICES ASSUME Init PROVE ReadOnce
  BY Zenon
<1>1. 2..Len(pollfds) = {} /\ eof = {} /\ pollfds = <<>> /\ backlog = <<>>
  BY DEF Init
<1> QED BY <1>1, Zenon DEF ReadOnce, EofMeansAnswered

\* A client changes no entry; what it sends makes its connection no less readable,
\* and it hangs up for good.
LEMMA ClientReadOnce ==
  ASSUME Types, Tracked, OnePlace, ReadOnce, NEW c \in Clients,
         connect(c) \/ send_command(c) \/ receive_reply(c) \/ hang_up(c)
  PROVE  ReadOnce'
<1>1. UNCHANGED <<pollfds, peer, eof, pc, i, ran, reply, faults, sets>>
  BY Zenon DEF connect, send_command, receive_reply, hang_up, dispatcherVars, loopVars,
               setVars, historyVars
<1>2. sets' = 0 => pollfds' = <<>> /\ backlog' = <<>> /\ eof' = {}
  <2>1. backlog' = backlog \/ pollfds # <<>>
    BY Zenon DEF connect, send_command, receive_reply, hang_up, is_open
  <2>2. sets = 0 => pollfds = <<>> /\ backlog = <<>> /\ eof = {}
    BY Zenon DEF ReadOnce
  <2> QED BY ONLY <1>1, <2>1, <2>2, Zenon
<1>3. \A x \in Clients : client[x] # "new" => client'[x] \in {client[x], "closed"}
  BY Zenon DEF connect, send_command, receive_reply, hang_up, Types
<1>4. \A x \in Clients : inq[x] # <<>> => inq'[x] # <<>>
  <2>1. CASE send_command(c)
    <3>1. PICK f \in {"command", "bad"} : inq' = [inq EXCEPT ![c] = Append(@, f)]
      BY <2>1, Zenon DEF send_command
    <3>2. inq[c] \in Seq({"command", "bad"})
      BY Zenon DEF Types
    <3>3. Append(inq[c], f) # <<>>
      BY ONLY <3>2, f \in {"command", "bad"}
    <3> QED BY <3>1, <3>3, Zenon DEF Types
  <2>2. CASE connect(c) \/ receive_reply(c) \/ hang_up(c)
    BY <2>2, Zenon DEF connect, receive_reply, hang_up
  <2> QED BY <2>1, <2>2, Zenon
<1>5. EofKept
  <2> SUFFICES ASSUME NEW x \in eof, client'[x] = "open"
               PROVE  client[x] = "open" /\ got'[x] \o outq'[x] = got[x] \o outq[x]
    BY <1>1, Zenon DEF EofKept
  <2>1. x \in Clients /\ client[x] # "new" /\ client[x] \in {"new", "open", "closed"}
    BY Zenon DEF Types, OnePlace
  <2>2. client'[x] \in {client[x], "closed"}
    BY <1>3, <2>1, Zenon
  <2>3. client[x] = "open"
    BY <2>2, client'[x] = "open", Zenon
  <2>4. got'[x] \o outq'[x] = got[x] \o outq[x]
    <3>1. CASE connect(c) \/ send_command(c)
      BY <3>1, Zenon DEF connect, send_command
    <3>2. CASE x # c /\ (receive_reply(c) \/ hang_up(c))
      BY <2>1, <3>2, Zenon DEF receive_reply, hang_up, Types
    <3>3. CASE x = c /\ receive_reply(c)
      <4>1. /\ outq[c] # <<>> /\ got'[c] = Append(got[c], Head(outq[c]))
            /\ outq'[c] = Tail(outq[c]) /\ got[c] \in Frames /\ outq[c] \in Frames
        BY <3>3, Zenon DEF receive_reply, Types
      <4>2. Append(got[c], Head(outq[c])) \o Tail(outq[c]) = got[c] \o outq[c]
        BY ONLY <4>1, HeadMoves, Zenon DEF Frames
      <4> QED BY ONLY <3>3, <4>1, <4>2, Zenon
    <3>4. CASE x = c /\ hang_up(c)
      <4>1. client'[c] = "closed"
        BY <3>4, Zenon DEF hang_up, Types
      <4> QED BY <3>4, <4>1, Zenon
    <3> QED BY <3>1, <3>2, <3>3, <3>4, Zenon
  <2> QED BY ONLY <2>3, <2>4, Zenon
<1>6. EofMeansAnswered'
  BY <1>1, <1>5, SameEof, Zenon
<1>7. ASSUME faults' = 0, NEW k \in 2..Len(pollfds)
      PROVE  (Once(pollfds[k], peer[pollfds[k].fd], Unvisited(k)))'
  <2>1. PICK e, x, u : e = pollfds[k] /\ x = peer[pollfds[k].fd] /\ u = Unvisited(k)
    BY Zenon
  <2>2. Once(e, x, u)
    BY <1>1, <1>7, <2>1, Zenon DEF ReadOnce
  <2>3. x \in Clients /\ client[x] # "new"
    BY <2>1, Zenon DEF Tracked, OnePlace, Types
  <2>4. Once(e, x, u)'
    BY <1>1, <1>3, <1>4, <2>2, <2>3, OnceKept, Zenon
  <2>5. /\ pollfds'[k] = e /\ peer'[pollfds'[k].fd] = x /\ (Unvisited(k)' <=> u)
    BY <1>1, <2>1, Zenon DEF Unvisited
  <2> QED BY ONLY <2>4, <2>5, Zenon DEF Once
<1> QED BY <1>1, <1>2, <1>6, <1>7, Zenon DEF ReadOnce

\* Closing every connection is excused by the second set_command_path; before
\* the first one there is none to close.
LEMMA SetReadOnce ==
  ASSUME Types, Tracked, ReadOnce, NEW p, set_command_path(p)
  PROVE  ReadOnce'
<1>1. sets' = sets + 1 /\ sets \in Nat /\ pollfds' \in {<<>>, <<Listener>>} /\ CloseAll
  BY Zenon DEF set_command_path, Types
<1>2. 2..Len(pollfds') = {}
  <2>1. Len(pollfds') = 0 \/ Len(pollfds') = 1
    BY ONLY <1>1
  <2>2. 2..0 = {} /\ 2..1 = {}
    BY ONLY TRUE
  <2> QED BY ONLY <2>1, <2>2, Zenon
<1>3. sets' # 0 /\ (sets' <= 1 => sets = 0)
  BY ONLY <1>1
<1>4. ASSUME sets = 0 PROVE eof' = {}
  <2>1. backlog = <<>> /\ eof = {} /\ DOMAIN peer = {}
    BY <1>4, NothingBeforeSet, Zenon
  <2>2. Range(peer) = {} /\ Range(backlog) = {}
    <3>1. DOMAIN << >> = {}
      BY ONLY EmptyFacts, Zenon
    <3>2. DOMAIN backlog = {}
      BY ONLY <2>1, <3>1, Zenon
    <3> QED BY ONLY <2>1, <3>2, Zenon DEF Range
  <2> QED BY ONLY <1>1, <2>1, <2>2, Zenon DEF CloseAll
<1>5. EofMeansAnswered'
  BY ONLY <1>3, <1>4, Zenon DEF EofMeansAnswered
<1> QED BY ONLY <1>2, <1>3, <1>5, Zenon DEF ReadOnce

\* A failed call excuses everything.
LEMMA FaultReadOnce ==
  ASSUME faults' # 0, sets' # 0
  PROVE  ReadOnce'
BY ONLY faults' # 0, sets' # 0, Zenon DEF ReadOnce, EofMeansAnswered

\* The dispatcher has been set up when it does something.
LEMMA DispatcherSet ==
  ASSUME Types, Tracked, ReadOnce, process_commands
  PROVE  sets' # 0 /\ sets' = sets
<1>1. sets' = sets
  BY Zenon DEF process_commands, poll, poll_fails, accept, skip, process_socket_read,
               process_socket_write, loop_ends, setVars
<1>2. pc # "idle" \/ is_open
  <2>1. poll \/ poll_fails => is_open
    BY Zenon DEF poll, poll_fails
  <2>2. accept \/ skip \/ process_socket_read \/ process_socket_write \/ loop_ends => pc # "idle"
    <3>1. accept \/ skip \/ process_socket_read \/ process_socket_write \/ loop_ends
             => pc = "accept" \/ pc = "loop"
      BY Zenon DEF accept, skip, process_socket_read, process_socket_write, loop_ends, InLoop
    <3> QED BY ONLY <3>1, Zenon
  <2> QED BY <2>1, <2>2, Zenon DEF process_commands
<1> QED BY <1>1, <1>2, NothingBeforeSet, Zenon DEF is_open

\* poll reports what is there: input, room to write, or a client that hung up.
LEMMA PollReadOnce ==
  ASSUME Types, Tracked, ReadOnce, poll
  PROVE  ReadOnce'
<1>1. UNCHANGED <<peer, eof, backlog, ran, reply, got, outq, inq, client, faults, sets>> /\ pc = "idle"
  BY Zenon DEF poll, socketVars, clientVars, setVars, historyVars
<1>2. sets' # 0
  BY DispatcherSet, Zenon DEF process_commands
<1>3. EofMeansAnswered'
  <2>1. EofKept
    BY <1>1, Zenon DEF EofKept
  <2> QED BY <1>1, <2>1, SameEof, Zenon
<1>4. ASSUME faults' = 0, NEW k \in 2..Len(pollfds')
      PROVE  (Once(pollfds[k], peer[pollfds[k].fd], Unvisited(k)))'
  <2>1. PICK e, x, d, u : e = pollfds[k] /\ x = peer[pollfds[k].fd] /\ d = pollfds'[k] /\ u = Unvisited(k)'
    BY Zenon
  <2>2. k \in 2..Len(pollfds) /\ k \in 1..Len(pollfds)
    <3>1. Len(pollfds') = Len(pollfds) /\ Len(pollfds) \in Nat
      BY PollFacts, Zenon
    <3> QED BY ONLY <3>1, <1>4
  <2>3. Once(e, x, Unvisited(k))
    BY <1>1, <1>4, <2>1, <2>2, Zenon DEF ReadOnce
  <2>4. d.fd = e.fd /\ d.events = e.events /\ d.revents = Ready(e)
    BY <2>1, <2>2, PollFacts, Zenon
  <2>5. e.fd # None /\ peer[e.fd] = x
    <3>1. e.fd \in DOMAIN peer /\ DOMAIN peer \subseteq Fds
      BY <2>1, <2>2, Zenon DEF Tracked, Types
    <3> QED BY ONLY <2>1, <3>1, DispatcherAssumption, Zenon
  <2>6. /\ d.revents \subseteq d.events \cup {"HUP"}
        /\ "IN" \in d.revents /\ client[x] = "open" => inq[x] # <<>>
        /\ "HUP" \in d.revents => client[x] = "closed"
    BY ONLY <2>4, <2>5 DEF Ready
  <2>7. Once(d, x, u)
    BY ONLY <2>3, <2>4, <2>6, Zenon DEF Once
  <2>8. Once(d, x, u)'
    BY ONLY <1>1, <2>7, Zenon DEF Once
  <2>9. peer'[pollfds'[k].fd] = x
    BY ONLY <1>1, <2>1, <2>4, <2>5, Zenon
  <2> QED BY ONLY <2>1, <2>8, <2>9, Zenon DEF Once
<1> QED BY <1>2, <1>3, <1>4, Zenon DEF ReadOnce

\* Passing over an entry, and leaving the loop, read nothing.
LEMMA LoopReadOnce ==
  ASSUME Types, Tracked, ReadOnce, skip \/ loop_ends
  PROVE  ReadOnce'
<1>1. UNCHANGED <<pollfds, peer, eof, backlog, ran, reply, got, outq, inq, client, faults, sets>>
  BY Zenon DEF skip, loop_ends, dispatcherVars, socketVars, clientVars, setVars, historyVars
<1>2. sets' # 0
  BY DispatcherSet, Zenon DEF process_commands
<1>3. EofMeansAnswered'
  <2>1. EofKept
    BY <1>1, Zenon DEF EofKept
  <2> QED BY <1>1, <2>1, SameEof, Zenon
<1>4. ASSUME NEW k \in 2..Len(pollfds) PROVE Unvisited(k)' => Unvisited(k)
  <2>1. CASE skip
    <3>1. pc = "loop" /\ pc' = pc /\ i' = i + 1 /\ i \in Nat
      BY <2>1, Zenon DEF skip, InLoop, Types
    <3> QED BY ONLY <3>1, k \in 2..Len(pollfds) DEF Unvisited
  <2>2. CASE loop_ends
    BY <2>2, Zenon DEF loop_ends, Unvisited
  <2> QED BY <2>1, <2>2, Zenon
<1>5. ASSUME faults' = 0, NEW k \in 2..Len(pollfds')
      PROVE  (Once(pollfds[k], peer[pollfds[k].fd], Unvisited(k)))'
  <2>1. k \in 2..Len(pollfds)
    BY <1>1, <1>5, Zenon
  <2>2. Once(pollfds[k], peer[pollfds[k].fd], Unvisited(k))
    BY <1>1, <1>5, <2>1, Zenon DEF ReadOnce
  <2>3. Unvisited(k)' => Unvisited(k)
    BY <1>4, <2>1, Zenon
  <2> HIDE DEF Unvisited
  <2> QED BY ONLY <1>1, <2>2, <2>3, Zenon DEF Once
<1> QED BY <1>2, <1>3, <1>5, Zenon DEF ReadOnce

\* An accepted connection has asked nothing yet, and waits to be read.
LEMMA AcceptReadOnce ==
  ASSUME Types, Tracked, Listening, Answering, ReadOnce, accept
  PROVE  ReadOnce'
<1>1. /\ UNCHANGED <<eof, ran, reply, got, outq, inq, client, sets>>
      /\ pc = "accept" /\ pc' = "loop" /\ i' = 2
  BY Zenon DEF accept, clientVars, setVars, historyVars
<1>2. sets' # 0
  BY DispatcherSet, Zenon DEF process_commands
<1>3. ASSUME faults' = faults PROVE EofMeansAnswered'
  <2>1. EofKept
    BY <1>1, Zenon DEF EofKept
  <2> QED BY <1>1, <1>3, <2>1, SameEof, Zenon
<1>4. UNCHANGED <<ran, client, inq>>
  BY <1>1, Zenon
<1>5. \A k \in 2..Len(pollfds) : Unvisited(k)
  BY <1>1, Zenon DEF Unvisited
<1>6. ASSUME faults = 0, NEW k \in 2..Len(pollfds)
      PROVE  Once(pollfds[k], peer[pollfds[k].fd], TRUE)
  BY <1>5, <1>6, Zenon DEF ReadOnce, Once
<1>7. CASE UNCHANGED <<pollfds, peer, faults>>
  <2>1. ASSUME faults' = 0, NEW k \in 2..Len(pollfds')
        PROVE  (Once(pollfds[k], peer[pollfds[k].fd], Unvisited(k)))'
    <3>1. Once(pollfds'[k], peer'[pollfds'[k].fd], TRUE)
      BY <1>6, <1>7, <2>1, Zenon
    <3> QED BY ONLY <1>4, <3>1, OnceNext, Zenon
  <2> QED BY <1>2, <1>3, <1>7, <2>1, Zenon DEF ReadOnce
<1>8. CASE \E fd \in Fds \ DOMAIN peer : Accepted(fd)
  <2>1. PICK fd \in Fds \ DOMAIN peer : Accepted(fd)
    BY <1>8, Zenon
  <2>2. faults' = faults
    BY <2>1, Zenon DEF Accepted
  <2>3. /\ Len(pollfds') = Len(pollfds) + 1 /\ \A k \in 1..Len(pollfds) : pollfds'[k] = pollfds[k]
        /\ pollfds'[Len(pollfds) + 1] = Connection(fd) /\ peer'[fd] = backlog[1]
        /\ \A f \in DOMAIN peer : peer'[f] = peer[f]
        /\ Len(backlog) \in Nat \ {0}
    BY <2>1, AcceptedFacts, Zenon
  <2>4. Len(pollfds) \in Nat
    BY DEF Types
  <2>5. ASSUME faults' = 0, NEW k \in 2..Len(pollfds')
        PROVE  (Once(pollfds[k], peer[pollfds[k].fd], Unvisited(k)))'
    <3>1. k = Len(pollfds) + 1 \/ (k \in 2..Len(pollfds) /\ k \in 1..Len(pollfds))
      BY ONLY <2>3, <2>4, <2>5
    <3>2. CASE k = Len(pollfds) + 1
      <4>1. 1 \in 1..Len(backlog)
        BY ONLY <2>3
      <4>2. ran[backlog[1]] = 0
        BY <4>1, Zenon DEF Answering, Fresh
      <4>3. Connection(fd).fd = fd /\ Connection(fd).events = {"IN"} /\ Connection(fd).revents = {}
        BY Zenon DEF Connection
      <4>4. Once(Connection(fd), backlog[1], TRUE)
        BY ONLY <4>2, <4>3, Zenon DEF Once
      <4>5. Once(pollfds'[k], peer'[pollfds'[k].fd], TRUE)
        BY ONLY <2>3, <3>2, <4>3, <4>4, Zenon
      <4> QED BY ONLY <1>4, <4>5, OnceNext, Zenon
    <3>3. CASE k \in 2..Len(pollfds) /\ k \in 1..Len(pollfds)
      <4>1. pollfds[k].fd \in DOMAIN peer
        BY <3>3, Zenon DEF Tracked
      <4>2. Once(pollfds[k], peer[pollfds[k].fd], TRUE)
        BY <1>6, <2>2, <2>5, <3>3, Zenon
      <4>3. Once(pollfds'[k], peer'[pollfds'[k].fd], TRUE)
        BY ONLY <2>3, <3>3, <4>1, <4>2, Zenon
      <4> QED BY ONLY <1>4, <4>3, OnceNext, Zenon
    <3> QED BY ONLY <3>1, <3>2, <3>3, Zenon
  <2> QED BY <1>2, <1>3, <2>2, <2>5, Zenon DEF ReadOnce
<1>9. CASE faults' \in Nat \ {0}
  <2>1. faults' # 0
    BY <1>9, Zenon
  <2> QED BY <1>2, <2>1, FaultReadOnce, Zenon
<1> QED BY <1>7, <1>8, <1>9, AcceptFacts, Zenon

\* An entry that is reported ready, and not for writing, is read from for the
\* first time, unless its client is gone.
LEMMA ReadReadOnce ==
  ASSUME Types, Tracked, OnePlace, ReadOnce, process_socket_read
  PROVE  ReadOnce'
<1>0. PICK d, c : d = Entry.fd /\ c = peer[Entry.fd]
  BY Zenon
<1>1. InLoop /\ UNCHANGED <<client, eof, got, outq, peer, pc, sets>> /\ i' = i + 1
  BY Zenon DEF process_socket_read, clientVars, setVars
<1>2. sets' # 0
  BY DispatcherSet, Zenon DEF process_commands
<1>3. /\ d \in DOMAIN peer /\ c \in Clients /\ peer[d] = c /\ Entry = pollfds[i]
      /\ i \in 2..Len(pollfds) /\ i \in 1..Len(pollfds) /\ Len(pollfds) \in Nat
  BY <1>0, <1>1, InLoopFacts, Zenon
<1>4. /\ Len(pollfds') = Len(pollfds)
      /\ \A k \in 1..Len(pollfds) :
              /\ pollfds'[k].fd = pollfds[k].fd /\ pollfds'[k].revents = pollfds[k].revents
              /\ pollfds'[k].events = IF k = i THEN {"OUT"} ELSE pollfds[k].events
  BY ReadFacts, Zenon
<1>5. /\ \A x \in Clients : x # c => ran'[x] = ran[x] /\ inq'[x] = inq[x] /\ reply'[x] = reply[x]
      /\ inq[c] # <<>> => faults' # 0 \/ ran'[c] = ran[c] + 1
      /\ faults' = 0 => faults = 0
  <2>1. CASE /\ inq[c] # <<>> /\ faults' = faults
             /\ inq' = [inq EXCEPT ![c] = Tail(@)] /\ ran' = [ran EXCEPT ![c] = @ + 1]
             /\ \E n \in Nat : reply' = [reply EXCEPT ![c] = @ \o FramesOf(c, n)]
    BY <1>3, <2>1, Zenon DEF Types
  <2>2. CASE /\ UNCHANGED <<results, inq, ran, reply>>
             /\ faults' # 0 \/ (faults' = faults /\ inq[c] = <<>>)
    BY <2>2, Zenon
  <2> QED BY <1>0, <2>1, <2>2, ReadEffects, Zenon
<1>6. EofMeansAnswered'
  <2>1. \A x \in eof : x \in Clients /\ x # c
    BY <1>3, Zenon DEF OnePlace, Types
  <2>2. EofKept
    BY <1>1, <1>5, <2>1, Zenon DEF EofKept
  <2> QED BY <1>1, <1>5, <2>2, SameEof, Zenon
<1>7. ASSUME faults' = 0, NEW k \in 2..Len(pollfds')
      PROVE  (Once(pollfds[k], peer[pollfds[k].fd], Unvisited(k)))'
  <2>1. PICK e, x, b, v : /\ e = pollfds[k] /\ x = peer[pollfds[k].fd]
                          /\ b = pollfds'[k] /\ v = Unvisited(k)'
    BY Zenon
  <2>2. k \in 2..Len(pollfds) /\ k \in 1..Len(pollfds) /\ k \in Nat
    BY ONLY <1>3, <1>4, <1>7
  <2>3. Once(e, x, Unvisited(k))
    BY <1>5, <1>7, <2>1, <2>2, Zenon DEF ReadOnce
  <2>4. /\ b.fd = e.fd /\ b.revents = e.revents
        /\ b.events = IF k = i THEN {"OUT"} ELSE e.events
    BY <1>4, <2>1, <2>2, Zenon
  <2>5. pc = "loop" /\ i \in Nat /\ pc' = pc /\ i' = i + 1
    BY <1>1, Zenon DEF InLoop, Types
  <2>6. peer'[pollfds'[k].fd] = x
    BY <1>1, <2>1, <2>4, Zenon
  <2>7. CASE k = i
    <3>1. ~v
      <4>1. ~Unvisited(k)'
        BY ONLY <2>5, <2>7 DEF Unvisited
      <4> QED BY ONLY <2>1, <4>1, Zenon
    <3>2. Unvisited(k)
      BY ONLY <2>5, <2>7 DEF Unvisited
    <3>3. x = c /\ e = Entry /\ e.revents # {} /\ "OUT" \notin e.revents
      BY <1>0, <1>3, <2>1, <2>7, Zenon DEF process_socket_read
    <3>4. client[c] \in {"open", "closed"}
      <4>1. client[c] # "new" /\ client[c] \in {"new", "open", "closed"}
        BY <1>3, Zenon DEF OnePlace, Types
      <4> QED BY ONLY <4>1, Zenon
    <3>5. client[c] = "closed" \/ (ran[c] = 0 /\ inq[c] # <<>>)
      <4> SUFFICES ASSUME client[c] = "open" PROVE ran[c] = 0 /\ inq[c] # <<>>
        BY <3>4, Zenon
      <4>1. /\ (e.events = {"IN"} /\ ran[c] = 0) \/ e.events = {"OUT"}
            /\ e.revents \subseteq e.events \cup {"HUP"}
            /\ "IN" \in e.revents => inq[c] # <<>>
            /\ "HUP" \notin e.revents
        <5>1. client[c] # "closed"
          BY Zenon
        <5> QED BY ONLY <2>3, <3>2, <3>3, <5>1, client[c] = "open", Zenon DEF Once
      <4>2. e.revents \subseteq e.events
        BY ONLY <4>1, Zenon
      <4> QED BY ONLY <3>3, <4>1, <4>2, Zenon
    <3>6. client'[x] = "closed" \/ ran'[x] = 1
      <4>1. ran[c] = 0 /\ ran'[c] = ran[c] + 1 => ran'[c] = 1
        OBVIOUS
      <4> QED BY ONLY <1>1, <1>5, <1>7, <3>3, <3>5, <4>1, Zenon
    <3>7. b.events = {"OUT"}
      BY ONLY <2>4, <2>7, Zenon
    <3>8. Once(b, x, v)'
      BY ONLY <3>1, <3>6, <3>7, Zenon DEF Once
    <3> QED BY ONLY <2>1, <2>6, <3>8, Zenon DEF Once
  <2>8. CASE k # i
    <3>1. v => Unvisited(k)
      <4>1. Unvisited(k)' => Unvisited(k)
        BY ONLY <2>2, <2>5 DEF Unvisited
      <4> QED BY ONLY <2>1, <4>1, Zenon
    <3>2. b.events = e.events
      BY ONLY <2>4, <2>8, Zenon
    <3>3. x # c /\ x \in Clients
      <4>1. pollfds[k].fd \in DOMAIN peer /\ pollfds[k].fd # d
        BY <1>0, <1>3, <2>2, <2>8, Zenon DEF Tracked
      <4> QED BY <1>3, <2>1, <4>1, Zenon DEF OnePlace, Types
    <3>4. client' = client /\ ran'[x] = ran[x] /\ inq'[x] = inq[x]
      BY ONLY <1>1, <1>5, <3>3, Zenon
    <3>5. Once(b, x, v)'
      BY ONLY <2>3, <2>4, <3>1, <3>2, <3>4, Zenon DEF Once
    <3> QED BY ONLY <2>1, <2>6, <3>5, Zenon DEF Once
  <2> QED BY <2>7, <2>8, Zenon
<1> QED BY <1>2, <1>6, <1>7, Zenon DEF ReadOnce

\* A connection that a write ends has been read from, and all of its answer has
\* been sent, unless its client is gone.
LEMMA WriteReadOnce ==
  ASSUME Types, Tracked, OnePlace, Answering, ReadOnce, process_socket_write
  PROVE  ReadOnce'
<1>0. PICK d, c : d = Entry.fd /\ c = peer[Entry.fd]
  BY Zenon
<1>1. InLoop /\ UNCHANGED <<client, got, reply, ran, inq, pc, sets>>
  BY Zenon DEF process_socket_write, clientVars, historyVars, setVars
<1>2. sets' # 0
  BY DispatcherSet, Zenon DEF process_commands
<1>3. /\ d \in DOMAIN peer /\ c \in Clients /\ peer[d] = c /\ Entry = pollfds[i]
      /\ i \in 2..Len(pollfds) /\ i \in 1..Len(pollfds) /\ Len(pollfds) \in Nat
  BY <1>0, <1>1, InLoopFacts, Zenon
<1>4. PICK failed \in BOOLEAN, pos \in Nat :
        /\ Result(d).pos <= pos /\ pos <= Len(Result(d).bufs)
        /\ outq' = [outq EXCEPT ![c] = @ \o SubSeq(Result(d).bufs, Result(d).pos + 1, pos)]
        /\ failed => client[c] = "closed" \/ faults' # 0
        /\ faults' = 0 => faults = 0
        /\ \/ (failed \/ pos = Len(Result(d).bufs)) /\ disconnect(Entry.fd)
           \/ i' = i + 1 /\ UNCHANGED <<pollfds, peer, eof>>
  BY <1>0, WriteFacts, Zenon
<1>5. outq'[c] = outq[c] \o SubSeq(Result(d).bufs, Result(d).pos + 1, pos)
  BY <1>3, <1>4, Zenon DEF Types
<1>6. ASSUME NEW x \in eof, faults' = 0, sets' <= 1, client'[x] = "open"
      PROVE  ran'[x] = 1 /\ got'[x] \o outq'[x] = reply'[x]
  <2>1. x \in Clients /\ x # c
    BY <1>3, Zenon DEF OnePlace, Types
  <2>2. outq'[x] = outq[x]
    BY <1>3, <1>4, <2>1, Zenon DEF Types
  <2>3. ran[x] = 1 /\ got[x] \o outq[x] = reply[x]
    BY <1>1, <1>4, <1>6, Zenon DEF ReadOnce, EofMeansAnswered
  <2> QED BY ONLY <1>1, <2>2, <2>3, Zenon
<1>7. pc = "loop" /\ i \in Nat /\ UNCHANGED <<ran, client, inq>>
  BY <1>1, Zenon DEF InLoop, Types
<1>8. CASE i' = i + 1 /\ UNCHANGED <<pollfds, peer, eof>>
  <2>1. EofMeansAnswered'
    BY <1>6, <1>8, Zenon DEF EofMeansAnswered
  <2>2. ASSUME faults' = 0, NEW k \in 2..Len(pollfds')
        PROVE  (Once(pollfds[k], peer[pollfds[k].fd], Unvisited(k)))'
    <3>1. Once(pollfds'[k], peer'[pollfds'[k].fd], Unvisited(k))
      BY <1>4, <1>8, <2>2, Zenon DEF ReadOnce
    <3>2. Unvisited(k)' => Unvisited(k)
      BY ONLY <1>1, <1>7, <1>8, k \in 2..Len(pollfds') DEF Unvisited
    <3>3. PICK u : u = Unvisited(k)
      BY Zenon
    <3>4. Once(pollfds'[k], peer'[pollfds'[k].fd], u) /\ (Unvisited(k)' => u)
      BY ONLY <3>1, <3>2, <3>3, Zenon
    <3> QED BY ONLY <1>7, <3>4, OnceNext, Zenon
  <2> QED BY <1>2, <2>1, <2>2, Zenon DEF ReadOnce
<1>9. CASE (failed \/ pos = Len(Result(d).bufs)) /\ disconnect(Entry.fd)
  <2>1. /\ Len(pollfds') = Len(pollfds) - 1
        /\ \A k \in 1..(Len(pollfds) - 1) : k # i => pollfds'[k] = pollfds[k]
        /\ i < Len(pollfds) => pollfds'[i] = pollfds[Len(pollfds)]
        /\ DOMAIN peer' = DOMAIN peer \ {d} /\ \A f \in DOMAIN peer' : peer'[f] = peer[f]
        /\ eof' = eof \cup {c} /\ i' = i
    BY <1>0, <1>1, <1>9, DisconnectFacts, Zenon
  <2>2. ASSUME faults' = 0, client'[c] = "open"
        PROVE  ran'[c] = 1 /\ got'[c] \o outq'[c] = reply'[c]
    <3>1. Once(Entry, c, Unvisited(i))
      BY <1>0, <1>3, <1>4, <2>2, Zenon DEF ReadOnce
    <3>2. Unvisited(i) /\ client[c] = "open" /\ client[c] # "closed"
      BY ONLY <1>1, <1>7, <2>2 DEF Unvisited
    <3>3. "OUT" \in Entry.revents
      BY Zenon DEF process_socket_write
    <3>4. ran[c] = 1
      BY ONLY <3>1, <3>2, <3>3, Zenon DEF Once
    <3>5. pos = Len(Result(d).bufs)
      BY ONLY <1>4, <1>9, <2>2, <3>2, Zenon
    <3>6. (got[c] \o outq'[c]) \o SubSeq(Result(d).bufs, pos + 1, Len(Result(d).bufs)) = reply[c]
      BY <1>3, <1>4, <1>5, <3>2, SendKeepsPromise, Zenon
    <3>7. SubSeq(Result(d).bufs, pos + 1, Len(Result(d).bufs)) = <<>>
      BY ONLY <3>5, pos \in Nat
    <3>8. got[c] \in Frames /\ outq'[c] \in Frames
      BY <1>1, <1>3, WriteTypes, Zenon DEF Types
    <3>9. \A s \in Frames : s \o <<>> = s
      BY DEF Frames
    <3>10. got[c] \o outq'[c] \in Frames
      BY ONLY <3>8, ConcatFacts, Zenon DEF Frames
    <3> QED BY ONLY <1>1, <3>4, <3>6, <3>7, <3>9, <3>10, Zenon
  <2>3. EofMeansAnswered'
    BY <1>6, <2>1, <2>2, Zenon DEF EofMeansAnswered
  <2>4. ASSUME faults' = 0, NEW k \in 2..Len(pollfds')
        PROVE  (Once(pollfds[k], peer[pollfds[k].fd], Unvisited(k)))'
    <3>1. PICK j : j = IF k = i THEN Len(pollfds) ELSE k
      BY Zenon
    <3>2. j \in 2..Len(pollfds) /\ j # i /\ k \in 1..(Len(pollfds) - 1) /\ (k = i => i < Len(pollfds))
      BY ONLY <1>3, <2>1, <2>4, <3>1
    <3>3. pollfds'[k] = pollfds[j]
      BY ONLY <2>1, <3>1, <3>2, Zenon
    <3>4. pollfds[j].fd \in DOMAIN peer /\ pollfds[j].fd # d
      BY <1>0, <1>3, <3>2, Zenon DEF Tracked
    <3>5. peer'[pollfds[j].fd] = peer[pollfds[j].fd]
      BY ONLY <2>1, <3>4, Zenon
    <3>6. Unvisited(k)' => Unvisited(j)
      BY ONLY <1>1, <1>3, <1>7, <2>1, <3>1, <3>2 DEF Unvisited
    <3>7. Once(pollfds[j], peer[pollfds[j].fd], Unvisited(j))
      BY <1>4, <2>4, <3>2, Zenon DEF ReadOnce
    <3>8. PICK u : u = Unvisited(j)
      BY Zenon
    <3>9. Once(pollfds'[k], peer'[pollfds'[k].fd], u) /\ (Unvisited(k)' => u)
      BY ONLY <3>3, <3>5, <3>6, <3>7, <3>8, Zenon
    <3> QED BY ONLY <1>7, <3>9, OnceNext, Zenon
  <2> QED BY <1>2, <2>3, <2>4, Zenon DEF ReadOnce
<1> QED BY <1>4, <1>8, <1>9, Zenon

-----------------------------------------------------------------------------
(* The inductive invariant, and the theorems. *)

IInv == Types /\ Tracked /\ Listening /\ OnePlace /\ Answering /\ ReadOnce /\ NoStaleSocketFile

\* process_commands works on an open dispatcher and leaves its file alone.
LEMMA SameFile ==
  ASSUME Tracked, NoStaleSocketFile, process_commands
  PROVE  NoStaleSocketFile'
<1>1. path' = path /\ files' = files
  BY Zenon DEF process_commands, poll, poll_fails, accept, skip, process_socket_read,
               process_socket_write, loop_ends, setVars, dispatcherVars
<1>2. poll \/ poll_fails => is_open
  BY Zenon DEF poll, poll_fails
<1>3. accept \/ skip \/ process_socket_read \/ process_socket_write \/ loop_ends => pc # "idle"
  <2>1. accept \/ skip \/ process_socket_read \/ process_socket_write \/ loop_ends
           => pc = "accept" \/ pc = "loop"
    BY Zenon DEF accept, skip, process_socket_read, process_socket_write, loop_ends, InLoop
  <2> QED BY ONLY <2>1, Zenon
<1>4. is_open
  BY <1>2, <1>3, Zenon DEF process_commands, Tracked
<1> QED BY <1>1, <1>4, Zenon DEF NoStaleSocketFile

\* A new dispatcher has a new file and the old one's is removed.
LEMMA SetFile ==
  ASSUME NoStaleSocketFile, NEW p, set_command_path(p)
  PROVE  NoStaleSocketFile'
<1>1. files = {path} \ {None}
  BY Zenon DEF NoStaleSocketFile
<1>2. CASE p # None /\ p \notin files /\ files' = (files \cup {p}) \ {path} /\ path' = p
  BY ONLY <1>1, <1>2, Zenon DEF NoStaleSocketFile
<1>3. CASE files' = files \ {path} /\ path' = None /\ pollfds' = <<>>
  BY ONLY <1>1, <1>3, Zenon DEF NoStaleSocketFile, is_open
<1> QED BY <1>2, <1>3, Zenon DEF set_command_path, Unlink

\* The inductive invariant holds initially.
LEMMA InitInv == Init => IInv
<1>1. Init => Listening
  BY Zenon DEF Init, Listening
<1>2. Init => NoStaleSocketFile
  BY Zenon DEF Init, NoStaleSocketFile, is_open
<1> QED BY <1>1, <1>2, InitTypes, InitTracked, InitOnePlace, InitAnswering, InitReadOnce, Zenon DEF IInv

\* The steps of a client keep the inductive invariant.
LEMMA ClientInv ==
  ASSUME IInv, NEW c \in Clients,
         connect(c) \/ send_command(c) \/ receive_reply(c) \/ hang_up(c)
  PROVE  IInv'
<1>1. Types /\ Tracked /\ Listening /\ OnePlace /\ Answering /\ ReadOnce /\ NoStaleSocketFile
  BY Zenon DEF IInv
<1>2. UNCHANGED <<pollfds, results, path, pc, i, nfds, peer, files>>
  BY Zenon DEF connect, send_command, receive_reply, hang_up, dispatcherVars, loopVars, setVars
<1>3. Listening'
  <2>1. backlog # <<>> => backlog' # <<>>
    <3>1. backlog \in Seq(Clients)
      BY <1>1, Zenon DEF Types
    <3>2. Append(backlog, c) # <<>>
      <4>1. Len(Append(backlog, c)) = Len(backlog) + 1
        BY ONLY <3>1, c \in Clients, AppendFacts, Zenon
      <4>2. Len(backlog) \in Nat /\ Len(<<>>) = 0
        BY ONLY <3>1
      <4> QED BY ONLY <4>1, <4>2
    <3>3. backlog' = backlog \/ backlog' = Append(backlog, c)
      BY Zenon DEF connect, send_command, receive_reply, hang_up
    <3> QED BY ONLY <3>2, <3>3, Zenon
  <2> QED BY <1>1, <1>2, <2>1, SameListening, Zenon
<1>4. Answering'
  <2>1. CASE send_command(c)
    <3>1. UNCHANGED <<peer, backlog, client, got, outq, reply, ran, results>>
      BY <2>1, Zenon DEF send_command, dispatcherVars, historyVars
    <3> QED BY <1>1, <3>1, SameAnswering, Zenon
  <2> QED BY <1>1, <2>1, ConnectAnswering, ReceiveAnswering, Zenon
<1>5. NoStaleSocketFile'
  BY <1>1, <1>2, Zenon DEF NoStaleSocketFile, is_open
<1> QED BY <1>1, <1>2, <1>3, <1>4, <1>5, ClientTypes, SameTracked, ClientOnePlace, ClientReadOnce,
           Zenon DEF IInv

\* set_command_path keeps the inductive invariant.
LEMMA SetInv ==
  ASSUME IInv, NEW p, set_command_path(p)
  PROVE  IInv'
<1>1. Types /\ Tracked /\ Listening /\ OnePlace /\ Answering /\ ReadOnce /\ NoStaleSocketFile
  BY Zenon DEF IInv
<1>2. CloseAll /\ pc' = "idle" /\ UNCHANGED <<client, got, outq, reply, ran>>
  BY Zenon DEF set_command_path, loopVars, clientVars, historyVars
<1> QED BY <1>1, <1>2, SetTypes, SetTracked, IdleListening, CloseOnePlace, CloseAnswering, SetReadOnce,
           SetFile, Zenon DEF IInv

\* poll keeps the inductive invariant, whether it fails or not.
LEMMA PollInv ==
  ASSUME IInv, poll \/ poll_fails
  PROVE  IInv'
<1>1. Types /\ Tracked /\ Listening /\ OnePlace /\ Answering /\ ReadOnce /\ NoStaleSocketFile
  BY Zenon DEF IInv
<1>2. Types' /\ Tracked' /\ NoStaleSocketFile'
  BY <1>1, PollTypes, PollTracked, SameFile, Zenon DEF process_commands
<1>3. CASE poll
  <2>1. UNCHANGED <<peer, backlog, eof, client, got, outq, reply, ran, results>>
    BY <1>3, Zenon DEF poll, socketVars, clientVars, historyVars
  <2> QED BY <1>1, <1>2, <1>3, <2>1, PollListening, SameOnePlace, SameAnswering, PollReadOnce,
             Zenon DEF IInv
<1>4. CASE poll_fails
  <2>1. CloseAll /\ pc' = "idle" /\ UNCHANGED <<client, got, outq, reply, ran>> /\ Fault
    BY <1>4, Zenon DEF poll_fails, loopVars, clientVars, historyVars
  <2>2. faults' # 0
    BY <1>1, <2>1, SMTT(30) DEF Fault, Types
  <2>3. ReadOnce'
    BY <1>1, <1>4, <2>2, DispatcherSet, FaultReadOnce, Zenon DEF process_commands
  <2> QED BY <1>1, <1>2, <2>1, <2>3, IdleListening, CloseOnePlace, CloseAnswering, Zenon DEF IInv
<1> QED BY <1>3, <1>4, Zenon

\* The listener's part of process_commands keeps the inductive invariant.
LEMMA AcceptInv ==
  ASSUME IInv, accept
  PROVE  IInv'
<1>1. Types /\ Tracked /\ Listening /\ OnePlace /\ Answering /\ ReadOnce /\ NoStaleSocketFile
  BY Zenon DEF IInv
<1>2. OnePlace'
  <2>1. UNCHANGED <<eof, client>>
    BY Zenon DEF accept, clientVars
  <2>2. UNCHANGED <<peer, backlog>> \/ \E fd \in Fds \ DOMAIN peer : Accepted(fd)
    BY <1>1, AcceptFacts, Zenon
  <2> QED BY <1>1, <2>1, <2>2, SameOnePlace, AcceptedOnePlace, Zenon
<1> QED BY <1>1, <1>2, AcceptTypes, AcceptTracked, WalkListening, AcceptAnswering, AcceptReadOnce,
           SameFile, Zenon DEF IInv, process_commands

\* Passing over an entry, and leaving the loop, keep the inductive invariant.
LEMMA LoopInv ==
  ASSUME IInv, skip \/ loop_ends
  PROVE  IInv'
<1>1. Types /\ Tracked /\ Listening /\ OnePlace /\ Answering /\ ReadOnce /\ NoStaleSocketFile
  BY Zenon DEF IInv
<1>2. UNCHANGED <<peer, backlog, eof, client, got, outq, reply, ran, results>>
  BY Zenon DEF skip, loop_ends, dispatcherVars, socketVars, clientVars, historyVars
<1>3. Listening'
  <2>1. loop_ends => pc' = "idle"
    BY Zenon DEF loop_ends
  <2> QED BY <1>1, <2>1, WalkListening, IdleListening, Zenon
<1> QED BY <1>1, <1>2, <1>3, LoopTypes, LoopTracked, SameOnePlace, SameAnswering, LoopReadOnce, SameFile,
           Zenon DEF IInv, process_commands

\* Reading from a connection keeps the inductive invariant.
LEMMA ReadInv ==
  ASSUME IInv, process_socket_read
  PROVE  IInv'
<1>1. Types /\ Tracked /\ Listening /\ OnePlace /\ Answering /\ ReadOnce /\ NoStaleSocketFile
  BY Zenon DEF IInv
<1>2. UNCHANGED <<peer, backlog, eof, client>>
  BY Zenon DEF process_socket_read, clientVars
<1> QED BY <1>1, <1>2, ReadTypes, ReadTracked, WalkListening, SameOnePlace, ReadAnswering, ReadReadOnce,
           SameFile, Zenon DEF IInv, process_commands

\* Writing to a connection keeps the inductive invariant.
LEMMA WriteInv ==
  ASSUME IInv, process_socket_write
  PROVE  IInv'
<1>1. Types /\ Tracked /\ Listening /\ OnePlace /\ Answering /\ ReadOnce /\ NoStaleSocketFile
  BY Zenon DEF IInv
<1>2. InLoop /\ UNCHANGED <<backlog, client>>
  BY Zenon DEF process_socket_write, clientVars
<1>3. OnePlace'
  <2>1. disconnect(Entry.fd) \/ UNCHANGED <<peer, eof>>
    BY <1>1, WriteFacts, Zenon
  <2> QED BY <1>1, <1>2, <2>1, DisconnectOnePlace, SameOnePlace, Zenon
<1> QED BY <1>1, <1>3, WriteTypes, WriteTracked, WalkListening, WriteAnswering, WriteReadOnce, SameFile,
           Zenon DEF IInv, process_commands

\* Stuttering keeps the inductive invariant.
LEMMA SameInv ==
  ASSUME IInv, UNCHANGED vars
  PROVE  IInv'
<1>1. /\ UNCHANGED <<pollfds, results, path, pc, i, nfds, backlog, peer, eof, inq, outq>>
      /\ UNCHANGED <<client, got, sent, files, sets, faults, ran, reply>>
  BY Zenon DEF vars, dispatcherVars, loopVars, socketVars, clientVars, setVars, historyVars
<1>2. Types' /\ Tracked' /\ Listening' /\ OnePlace' /\ Answering'
  <2>1. Types'
    BY <1>1, Zenon DEF IInv, Types
  <2> QED BY <1>1, <2>1, SameTracked, SameListening, SameOnePlace, SameAnswering, Zenon DEF IInv
<1>3. ReadOnce'
  <2>1. ReadOnce
    BY Zenon DEF IInv
  <2> QED BY ONLY <1>1, <2>1, ZenonT(40) DEF ReadOnce, EofMeansAnswered, Once, Unvisited
<1>4. NoStaleSocketFile'
  BY <1>1, Zenon DEF IInv, NoStaleSocketFile, is_open
<1> QED BY <1>2, <1>3, <1>4, Zenon DEF IInv

\* Every step of a client, of the consumer and of process_commands keeps the
\* invariant.
LEMMA NextInv ==
  ASSUME IInv, [Next]_vars
  PROVE  IInv'
<1>1. CASE process_commands
  BY <1>1, PollInv, AcceptInv, LoopInv, ReadInv, WriteInv, Zenon DEF process_commands
<1>2. CASE \E p \in Paths \cup {None} : set_command_path(p)
  BY <1>2, SetInv, Zenon
<1>3. CASE \E c \in Clients : connect(c) \/ send_command(c) \/ receive_reply(c) \/ hang_up(c)
  BY <1>3, ClientInv, Zenon
<1>4. CASE UNCHANGED vars
  BY <1>4, SameInv, Zenon
<1> QED BY <1>1, <1>2, <1>3, <1>4, Zenon DEF Next

\* IInv is inductive.
THEOREM DispatcherInvariance == Spec => []IInv
<1>1. IInv /\ [Next]_vars => IInv'
  BY NextInv, Zenon
<1> QED BY <1>1, InitInv, PTL DEF Spec

\* A reply reaches the client whose command produced it, in order and once,
\* although results_ is keyed by descriptor numbers that are used again.
THEOREM RepliesReachTheirClients == Spec => []RepliesReachTheirClient
<1>1. IInv => RepliesReachTheirClient
  BY Zenon DEF IInv, Answering
<1> QED BY <1>1, DispatcherInvariance, PTL

\* Without a failing call and without a new path, a client whose connection ends
\* has been answered in full, however often its socket was full.
THEOREM EofComesAfterTheAnswer == Spec => []EofMeansAnswered
<1>1. IInv => EofMeansAnswered
  BY Zenon DEF IInv, ReadOnce
<1> QED BY <1>1, DispatcherInvariance, PTL

\* The only socket file is the current dispatcher's.
THEOREM NoSocketFileIsStale == Spec => []NoStaleSocketFile
<1>1. IInv => NoStaleSocketFile
  BY Zenon DEF IInv
<1> QED BY <1>1, DispatcherInvariance, PTL

-----------------------------------------------------------------------------
(* Counting, with the theorems about finite sets of the library. *)

INSTANCE FiniteSetTheorems

\* There are finitely many ready entries.
LEMMA FiniteReady ==
  ASSUME NEW a \in Int, NEW b \in Int, NEW R, R \subseteq a..b
  PROVE  IsFiniteSet(R) /\ Cardinality(R) \in Nat
<1>1. IsFiniteSet(a..b)
  BY FS_Interval, Zenon
<1>2. IsFiniteSet(R)
  BY <1>1, FS_Subset, Zenon
<1> QED BY <1>2, FS_CardinalityType, Zenon

\* Erasing one leaves one less.
LEMMA EraseOne == OneLess
<1> SUFFICES ASSUME NEW a \in Int, NEW b \in Int, NEW R \in SUBSET (a..b), NEW x \in R
             PROVE  Cardinality(R \ {x}) = Cardinality(R) - 1
  BY Zenon DEF OneLess, Fewer
<1>1. IsFiniteSet(R)
  BY FiniteReady, Zenon
<1> QED BY ONLY <1>1, x \in R, FS_RemoveElement, Zenon

\* Entries with distinct descriptors are as many as their descriptors.
LEMMA CountDistinct ==
  ASSUME NEW n \in Nat, NEW D, NEW s,
         \A k \in 2..n : s[k].fd \in D,
         \A d \in D : \E k \in 2..n : s[k].fd = d,
         \A j, k \in 2..n : s[j].fd = s[k].fd => j = k
  PROVE  Cardinality(D) = IF n = 0 THEN 0 ELSE n - 1
<1> DEFINE f == [k \in 2..n |-> s[k].fd]
<1>1. f \in [2..n -> D]
  BY Zenon
<1>2. f \in Injection(2..n, D)
  BY <1>1, Zenon DEF Injection, IsInjective
<1>3. f \in Surjection(2..n, D)
  BY <1>1, Zenon DEF Surjection
<1>4. ExistsBijection(2..n, D)
  BY <1>2, <1>3, Zenon DEF ExistsBijection, Bijection
<1>5. IsFiniteSet(2..n) /\ Cardinality(2..n) = IF 2 > n THEN 0 ELSE n - 2 + 1
  BY FS_Interval
<1>6. Cardinality(D) = Cardinality(2..n)
  BY <1>4, <1>5, FS_Bijection, Zenon
<1> QED BY ONLY <1>5, <1>6, n \in Nat

\* pollfds_ and results_ hold the open connections, each once, whatever
\* swap-and-pop has moved.
THEOREM ConnectionsAreTracked == Spec => []ConnectionsTracked
<1>1. IInv => ConnectionsTracked
  <2> SUFFICES ASSUME Types, Tracked PROVE ConnectionsTracked
    BY Zenon DEF IInv
  <2>1. Len(pollfds) \in Nat /\ (Len(pollfds) = 0 <=> pollfds = <<>>)
    BY DEF Types
  <2>2. DOMAIN peer = {pollfds[k].fd : k \in 2..Len(pollfds)}
    <3>1. \A f \in DOMAIN peer : \E k \in 2..Len(pollfds) : f = pollfds[k].fd
      BY Zenon DEF Tracked
    <3>2. \A k \in 2..Len(pollfds) : pollfds[k].fd \in DOMAIN peer
      BY Zenon DEF Tracked
    <3> DEFINE S == {pollfds[k].fd : k \in 2..Len(pollfds)}
    <3>3. DOMAIN peer \subseteq S
      BY ONLY <3>1, Zenon
    <3>4. S \subseteq DOMAIN peer
      BY ONLY <3>2, Zenon
    <3> HIDE DEF S
    <3>5. DOMAIN peer = S
      BY ONLY <3>3, <3>4, Zenon
    <3> QED BY ONLY <3>5, Zenon DEF S
  <2>3. Cardinality(DOMAIN peer) = IF Len(pollfds) = 0 THEN 0 ELSE Len(pollfds) - 1
    <3>1. PICK n, D, s : n = Len(pollfds) /\ D = DOMAIN peer /\ s = pollfds
      BY Zenon
    <3>2. /\ n \in Nat /\ \A k \in 2..n : s[k].fd \in D
          /\ \A d \in D : \E k \in 2..n : s[k].fd = d
          /\ \A j, k \in 2..n : s[j].fd = s[k].fd => j = k
      BY <2>1, <3>1, Zenon DEF Tracked
    <3>3. Cardinality(D) = IF n = 0 THEN 0 ELSE n - 1
      BY ONLY <3>2, CountDistinct, Zenon
    <3> QED BY ONLY <3>1, <3>3, Zenon
  <2>4. Cardinality(DOMAIN peer) = Len(pollfds) - (IF is_open THEN 1 ELSE 0)
    BY ONLY <2>1, <2>3 DEF is_open
  <2> QED BY <2>2, <2>4, Zenon DEF ConnectionsTracked, Tracked
<1> QED BY <1>1, DispatcherInvariance, PTL

\* Counting is inductive, with IInv.
THEOREM CountingInvariance == Spec => []Counting
<1>1. Init => Counting
  BY Zenon DEF Init, Counting, NoReadyEntryMissed
<1>2. IInv /\ Counting /\ [Next]_vars => Counting'
  <2> SUFFICES ASSUME Types, Tracked, Listening, Counting, [Next]_vars PROVE Counting'
    BY Zenon DEF IInv
  <2>1. CASE poll
    BY <2>1, PollCounting, Zenon
  <2>2. CASE accept
    BY <2>2, AcceptCounting, EraseOne, Zenon
  <2>3. CASE skip \/ process_socket_read \/ process_socket_write
    BY <2>3, WalkCounting, EraseOne, Zenon
  <2>4. CASE \/ poll_fails \/ loop_ends \/ \E p \in Paths \cup {None} : set_command_path(p)
    <3>1. pc' = "idle"
      BY <2>4, Zenon DEF poll_fails, loop_ends, set_command_path, loopVars
    <3> QED BY <3>1, IdleCounting, Zenon
  <2>5. CASE \/ \E c \in Clients : connect(c) \/ send_command(c) \/ receive_reply(c) \/ hang_up(c)
             \/ UNCHANGED vars
    <3>1. UNCHANGED <<pollfds, pc, i, nfds>>
      BY <2>5, Zenon DEF connect, send_command, receive_reply, hang_up, vars, dispatcherVars, loopVars
    <3> QED BY <3>1, SameCounting, Zenon
  <2> QED BY <2>1, <2>2, <2>3, <2>4, <2>5, Zenon DEF Next, process_commands
<1> QED BY <1>1, <1>2, DispatcherInvariance, PTL DEF Spec

\* The loop over pollfds_ stops when nfds is zero, and then nothing is left that
\* poll found ready, whatever disconnect has moved.
THEOREM NoReadyEntryIsMissed == Spec => []NoReadyEntryMissed
<1>1. Counting => NoReadyEntryMissed
  BY Zenon DEF Counting
<1> QED BY <1>1, CountingInvariance, PTL
=============================================================================
