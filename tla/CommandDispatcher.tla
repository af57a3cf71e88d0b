-------------------------- MODULE CommandDispatcher --------------------------
(***************************************************************************)
(* The command socket: command_dispatcher as the consumer drives it, the   *)
(* clients (xtrctl) that connect to it, and set_command_path, which        *)
(* replaces it.  process_commands polls once and then walks over pollfds_; *)
(* between its calls to poll, accept, recv and send the clients go on.     *)
(*                                                                         *)
(* A reply frame is <<client, k>>: the k-th frame that the command of this *)
(* client produced.  Index 1 of pollfds is index 0 of pollfds_.            *)
(***************************************************************************)
EXTENDS Integers, Sequences, FiniteSets, Functions

CONSTANTS Clients, Paths, None,
          Fds,         \* descriptor numbers the process may be given
          Room,        \* frames a socket holds before send gives EAGAIN
          MaxReplies,  \* bound: frames a callback sends
          MaxSends,    \* bound: frames the clients send
          MaxSets,     \* bound: calls of set_command_path
          MaxFaults    \* bound: failing system calls

ASSUME DispatcherAssumption ==
  /\ IsFiniteSet(Fds) /\ Cardinality(Fds) >= Cardinality(Clients)
  /\ Paths # {} /\ None \notin Paths \cup Clients \cup Fds
  /\ Room \in Nat \ {0}
  /\ {MaxReplies, MaxSends, MaxSets, MaxFaults} \subseteq Nat

VARIABLES pollfds, results, path,   \* the dispatcher's members
          pc, i, nfds,              \* process_commands and its locals
          files,                    \* socket files that exist
          backlog,                  \* clients waiting for accept
          peer,                     \* descriptor -> client at its other end
          client,                   \* each client's end of its socket
          eof,                      \* clients whose other end is closed
          inq, outq,                \* frames in the sockets, each direction
          got,                      \* frames each client has received
          sent, sets, faults,       \* counters for the bounds
          ran, reply                \* history: commands run, frames replied

dispatcherVars == <<pollfds, results, path>>
loopVars == <<pc, i, nfds>>
socketVars == <<backlog, peer, eof, inq, outq>>
clientVars == <<client, got, sent>>
setVars == <<files, sets>>
historyVars == <<ran, reply>>
vars == <<dispatcherVars, loopVars, socketVars, clientVars, setVars, faults, historyVars>>

NoResult == [bufs |-> <<>>, pos |-> 0]
Listener == [fd |-> None, events |-> {"IN"}, revents |-> {}]
Connection(fd) == [fd |-> fd, events |-> {"IN"}, revents |-> {}]
is_open == pollfds # <<>>
With(f, x, v) == [y \in DOMAIN f \cup {x} |-> IF y = x THEN v ELSE f[y]]
Fault == faults < MaxFaults /\ faults' = faults + 1

Init ==
  /\ pollfds = <<>> /\ results = << >> /\ path = None
  /\ pc = "idle" /\ i = 1 /\ nfds = 0
  /\ files = {} /\ sets = 0 /\ faults = 0
  /\ backlog = <<>> /\ peer = << >> /\ eof = {}
  /\ inq = [c \in Clients |-> <<>>] /\ outq = inq /\ got = inq
  /\ client = [c \in Clients |-> "new"] /\ sent = [c \in Clients |-> 0]
  /\ ran = [c \in Clients |-> 0] /\ reply = inq

-----------------------------------------------------------------------------
\* The clients.  A frame is a "command" whose callback runs, or "bad": too
\* short, of an unknown id, or of the wrong length.

connect(c) ==
  /\ client[c] = "new" /\ is_open
  /\ client' = [client EXCEPT ![c] = "open"]
  /\ backlog' = Append(backlog, c)
  /\ UNCHANGED <<dispatcherVars, loopVars, peer, eof, inq, outq, got, sent,
                 setVars, faults, historyVars>>

SendsLeft == FoldFunction(+, 0, sent) < MaxSends

send_command(c) ==
  /\ client[c] = "open" /\ SendsLeft /\ c \notin eof
  /\ \E f \in {"command", "bad"} : inq' = [inq EXCEPT ![c] = Append(@, f)]
  /\ sent' = [sent EXCEPT ![c] = @ + 1]
  /\ UNCHANGED <<dispatcherVars, loopVars, backlog, peer, eof, outq, client, got,
                 setVars, faults, historyVars>>

receive_reply(c) ==
  /\ client[c] = "open" /\ outq[c] # <<>>
  /\ got' = [got EXCEPT ![c] = Append(@, Head(outq[c]))]
  /\ outq' = [outq EXCEPT ![c] = Tail(@)]
  /\ UNCHANGED <<dispatcherVars, loopVars, backlog, peer, eof, inq, client, sent,
                 setVars, faults, historyVars>>

\* The client leaves; what it has not read is lost.
hang_up(c) ==
  /\ client[c] = "open"
  /\ client' = [client EXCEPT ![c] = "closed"]
  /\ outq' = [outq EXCEPT ![c] = <<>>]
  /\ UNCHANGED <<dispatcherVars, loopVars, backlog, peer, eof, inq, got, sent,
                 setVars, faults, historyVars>>

-----------------------------------------------------------------------------
\* set_command_path, run by the consumer between two calls of process_commands.

\* Every socket of a dispatcher that goes away is closed with it.
CloseAll ==
  /\ eof' = eof \cup Range(peer) \cup Range(backlog)
  /\ backlog' = <<>> /\ peer' = << >>

MutUnlink == {}
Unlink == {path}

\* The new dispatcher is constructed before the old one is destroyed.
set_command_path(p) ==
  /\ pc = "idle" /\ sets < MaxSets
  /\ sets' = sets + 1
  /\ \/ /\ p # None /\ p \notin files                  \* bound and listening
        /\ files' = (files \cup {p}) \ Unlink
        /\ path' = p /\ pollfds' = <<Listener>>
        /\ faults' = faults
     \/ /\ files' = files \ Unlink                     \* null, or bind fails
        /\ path' = None /\ pollfds' = <<>>
        /\ \/ p = None \/ p \in files
           \/ faults < MaxFaults
        /\ faults' = IF p = None \/ p \in files THEN faults ELSE faults + 1
  /\ CloseAll /\ results' = << >>
  /\ UNCHANGED <<loopVars, inq, outq, clientVars, historyVars>>

-----------------------------------------------------------------------------
\* process_commands.

HasRoom(c) == Len(outq[c]) < Room

\* What poll reports for an entry: HUP whether asked for or not, the rest as asked.
Ready(e) ==
  IF e.fd = None THEN IF backlog = <<>> THEN {} ELSE {"IN"}
  ELSE LET c == peer[e.fd]
           hup == client[c] = "closed"
       IN  {r \in e.events \cup {"HUP"} :
              \/ hup
              \/ r = "IN" /\ inq[c] # <<>>
              \/ r = "OUT" /\ HasRoom(c)}

poll ==
  /\ pc = "idle" /\ is_open
  /\ pollfds' = [k \in DOMAIN pollfds |->
                   [pollfds[k] EXCEPT !.revents = Ready(pollfds[k])]]
  /\ nfds' = Cardinality({k \in DOMAIN pollfds : Ready(pollfds[k]) # {}})
  /\ pc' = "accept" /\ i' = i
  /\ UNCHANGED <<results, path, socketVars, clientVars, setVars, faults, historyVars>>

poll_fails ==
  /\ pc = "idle" /\ is_open /\ Fault
  /\ pollfds' = <<>>
  /\ CloseAll
  /\ UNCHANGED <<results, path, loopVars, inq, outq, clientVars, setVars, historyVars>>

accept ==
  /\ pc = "accept"
  /\ pc' = "loop" /\ i' = 2
  /\ \/ /\ "IN" \notin Head(pollfds).revents
        /\ UNCHANGED <<pollfds, nfds, backlog, peer, faults>>
     \/ /\ "IN" \in Head(pollfds).revents
        /\ nfds' = nfds - 1
        /\ \/ /\ \E fd \in Fds \ DOMAIN peer :
                   /\ pollfds' = Append(pollfds, Connection(fd))
                   /\ peer' = With(peer, fd, Head(backlog))
              /\ backlog' = Tail(backlog) /\ faults' = faults
           \/ Fault /\ UNCHANGED <<pollfds, peer, backlog>>
  /\ UNCHANGED <<results, path, eof, inq, outq, clientVars, setVars, historyVars>>

InLoop == pc = "loop" /\ i <= Len(pollfds) /\ nfds > 0
Entry == pollfds[i]

skip ==
  /\ InLoop /\ Entry.revents = {}
  /\ i' = i + 1
  /\ UNCHANGED <<dispatcherVars, pc, nfds, socketVars, clientVars, setVars, faults,
                 historyVars>>

\* The events after a read: from then on the entry is only written to.
MutStayReading(events) == events
AfterRead(events) == {"OUT"}

\* How many frames a handler sends: status one per matching sink, which may be
\* none, the others one success or error.
Replies == 0..MaxReplies

\* How many frames a received frame is answered with: an error, or what its
\* callback sends.
Answers(f) == IF f = "command" THEN Replies ELSE {1}

Result(fd) == IF fd \in DOMAIN results THEN results[fd] ELSE NoResult

\* send, once per frame.
Queue(fd, frames) ==
  results' = With(results, fd, [Result(fd) EXCEPT !.bufs = @ \o frames])

process_socket_read ==
  /\ InLoop /\ Entry.revents # {} /\ "OUT" \notin Entry.revents
  /\ nfds' = nfds - 1 /\ i' = i + 1
  /\ pollfds' = [pollfds EXCEPT ![i].events = AfterRead(@)]
  /\ LET c == peer[Entry.fd] IN
     \/ /\ inq[c] # <<>>
        /\ inq' = [inq EXCEPT ![c] = Tail(@)]
        /\ \E n \in Answers(Head(inq[c])) :
             LET frames == [k \in 1..n |-> <<c, k>>] IN
             /\ IF n = 0 THEN results' = results ELSE Queue(Entry.fd, frames)
             /\ reply' = [reply EXCEPT ![c] = @ \o frames]
        /\ ran' = [ran EXCEPT ![c] = @ + 1]
        /\ faults' = faults
     \/ /\ inq[c] = <<>>                                \* end of file
        /\ UNCHANGED <<results, inq, historyVars, faults>>
     \/ Fault /\ UNCHANGED <<results, inq, historyVars>> \* recv fails
  /\ UNCHANGED <<path, pc, backlog, peer, eof, outq, clientVars, setVars>>

-----------------------------------------------------------------------------
\* process_socket_write sends until done or refused.  A refusal other than
\* EAGAIN, or having sent everything, disconnects.

MutPop(s, k) == SubSeq(s, 1, Len(s) - 1)
SwapAndPop(s, k) == SubSeq([s EXCEPT ![k] = s[Len(s)]], 1, Len(s) - 1)

MutErase(fd) == results
Erase(fd) == [f \in DOMAIN results \ {fd} |-> results[f]]

MutNextIndex(erased) == i + 1
NextIndex(erased) == IF erased THEN i ELSE i + 1

disconnect(fd) ==
  /\ results' = Erase(fd)
  /\ pollfds' = SwapAndPop(pollfds, i)
  /\ peer' = [f \in DOMAIN peer \ {fd} |-> peer[f]]
  /\ eof' = eof \cup {peer[fd]}
  /\ i' = NextIndex(TRUE)

MutDone(pos, r, failed) == TRUE
Done(pos, r, failed) == failed \/ pos = Len(r.bufs)

process_socket_write ==
  /\ InLoop /\ "OUT" \in Entry.revents
  /\ nfds' = nfds - 1
  /\ LET fd == Entry.fd
         c  == peer[fd]
         r  == Result(fd)
     IN  \E failed \in BOOLEAN, n \in 0..Len(r.bufs) :
           LET pos == r.pos + n
               some == pos < Len(r.bufs)
           IN
           /\ pos <= Len(r.bufs)
           /\ IF client[c] = "closed" THEN n = 0 /\ failed = some /\ faults' = faults
              ELSE /\ Len(outq[c]) + n <= Room
                   /\ IF failed THEN some /\ Fault
                      ELSE /\ some => ~(Len(outq[c]) + n < Room)
                           /\ faults' = faults
           /\ outq' = [outq EXCEPT ![c] = @ \o SubSeq(r.bufs, r.pos + 1, pos)]
           /\ IF Done(pos, r, failed) THEN disconnect(fd)
              ELSE /\ results' = With(results, fd, [r EXCEPT !.pos = pos])
                   /\ i' = NextIndex(FALSE)
                   /\ UNCHANGED <<pollfds, peer, eof>>
  /\ UNCHANGED <<path, pc, backlog, inq, clientVars, setVars, historyVars>>

loop_ends ==
  /\ pc = "loop" /\ ~InLoop
  /\ pc' = "idle" /\ i' = 1 /\ nfds' = 0
  /\ UNCHANGED <<dispatcherVars, socketVars, clientVars, setVars, faults, historyVars>>

-----------------------------------------------------------------------------
process_commands ==
  poll \/ poll_fails \/ accept \/ skip \/ process_socket_read
  \/ process_socket_write \/ loop_ends

Next ==
  \/ process_commands
  \/ \E p \in Paths \cup {None} : set_command_path(p)
  \/ \E c \in Clients : connect(c) \/ send_command(c) \/ receive_reply(c) \/ hang_up(c)

Spec == Init /\ [][Next]_vars

\* The consumer keeps calling process_commands and a client that waits for its
\* answer keeps reading.
LiveSpec ==
  /\ Spec
  /\ WF_vars(process_commands)
  /\ \A c \in Clients : WF_vars(receive_reply(c))

-----------------------------------------------------------------------------
(* Properties *)

IsPrefix(s, t) == Len(s) <= Len(t) /\ s = SubSeq(t, 1, Len(s))

\* Every reply goes to the client whose command produced it, in order and none
\* twice: what a client has received, with what is still in its socket, is a
\* prefix of what its own command replied, although results_ is keyed by
\* descriptor number and numbers are used again.
RepliesReachTheirClient ==
  \A c \in Clients : client[c] # "closed" => IsPrefix(got[c] \o outq[c], reply[c])

\* The entries of pollfds_ after the listener are the open connections, each
\* once, and results_ holds entries for open connections only (the assertion in
\* disconnect), whatever swap-and-pop has moved.
ConnectionsTracked ==
  /\ DOMAIN peer = {pollfds[k].fd : k \in 2..Len(pollfds)}
  /\ Cardinality(DOMAIN peer) = Len(pollfds) - (IF is_open THEN 1 ELSE 0)
  /\ is_open => DOMAIN results \subseteq DOMAIN peer

\* While process_commands walks over pollfds_, nfds is exactly the number of
\* ready entries it has yet to visit: it stops early only if nothing is left,
\* and the entry that disconnect moves into the current place is not missed.
NoReadyEntryMissed ==
  pc = "loop" => nfds = Cardinality({k \in i..Len(pollfds) : pollfds[k].revents # {}})

\* A client that has not hung up and sees the end of its connection has been
\* answered in full, if no system call failed and the dispatcher was not
\* replaced: a full socket does not cut an answer short.
EofMeansAnswered ==
  faults = 0 /\ sets <= 1 =>
    \A c \in eof : client[c] = "open" => ran[c] = 1 /\ got[c] \o outq[c] = reply[c]

\* The only socket file is the one of the current dispatcher: replacing or
\* resetting it leaves no stale file behind, and a dispatcher that listens has
\* its file.
NoStaleSocketFile == files = {path} \ {None} /\ (is_open => path # None)

\* A client that has sent a command eventually gets to the end of the answer, or
\* hangs up, however many other connections are served and moved meanwhile.
CommandsAreAnswered ==
  \A c \in Clients : (sent[c] > 0) ~> (c \in eof \/ client[c] = "closed")
=============================================================================
