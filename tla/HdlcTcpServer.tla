---------------------------- MODULE HdlcTcpServer ----------------------------
(***************************************************************************)
(* The echo server of src/tutorial_libezutil/hdlc_tcp_server.c over the    *)
(* sockets and the edge-triggered epoll it uses.  Clients connect, send    *)
(* packets, close and vanish at any moment between two system calls of the *)
(* server.  An epoll event carries no descriptor but the index of a slot;  *)
(* slots and descriptors are used again.                                   *)
(*                                                                         *)
(* A client sends its packets 1, 2, ...; how bytes become packets is       *)
(* HdlcReceiver's matter.  The kernel's part (the queue of connections,    *)
(* descriptors, what raises an event, what a send to a closed peer does)   *)
(* is modelled from how the server uses it.                                *)
(***************************************************************************)
EXTENDS Integers, Sequences, FiniteSets, SequencesExt

CONSTANTS
    Packets,      \* how many packets each client sends at most; the clients are numbered in
                  \* the order in which they connect, each of them once
    MAX_CLIENTS,  \* the number of slots
    MAX_EVENTS,   \* the most events one epoll_wait returns
    Descriptors,  \* the most descriptors the system may leave the process for connections
    MaxFaults     \* how many system calls of the server fail, a bound

ASSUME ServerAssumption ==
    /\ Packets \in Seq(Nat) /\ MAX_CLIENTS \in Nat \ {0} /\ MAX_EVENTS \in Nat \ {0}
    /\ Descriptors \in Nat /\ MaxFaults \in Nat

VARIABLES
    peer,     \* where each client stands: away, here, closed or vanished
    sent,     \* how many packets each client has sent
    inbox,    \* the packets in the server's socket that it has not read
    echoes,   \* the packets each client was sent back
    queue,    \* connections that wait for accept
    limit,    \* how many of them it does leave
    conn,     \* which client a descriptor is connected to
    interest, \* what epoll watches: a descriptor and the index it reports
    ready,    \* the descriptors with an event to report, LISTEN for the listening socket
    slots,    \* g_server.clients
    count,    \* g_server.client_count
    events,   \* the events of the last epoll_wait not handled yet, and whose they were
    doing,    \* what the server is at
    faults    \* how many system calls have failed; each descriptor withheld counts as one

clientVars == <<peer, sent>>
socketVars == <<inbox, echoes, queue, limit, conn, interest, ready>>
slotVars == <<slots, count>>
serverVars == <<clientVars, socketVars, slotVars, events, doing, faults>>

Client == DOMAIN Packets
NoClient == 0
Fd == 1..Descriptors
Index == 0..(MAX_CLIENTS - 1)
LISTEN == 0                      \* the listening socket, as a descriptor
NoSlot == [active |-> FALSE, fd |-> 0]

Active == {i \in Index : slots[i].active}
FdOf(c) == {fd \in Fd : conn[fd] = c}

\* A descriptor's event is due; it is reported once, however often it was raised.
Raised(fds, r) == r \o SetToSeq(fds \ ToSet(r))
Watched == {x.fd : x \in interest}
Without(r, fd) == IF fd \in ToSet(r) THEN RemoveAt(r, CHOOSE k \in 1..Len(r) : r[k] = fd) ELSE r

\* A system call fails.
Fault == faults < MaxFaults /\ faults' = faults + 1

(***************************************************************************)
(* The clients.                                                            *)
(***************************************************************************)
Connect(c) ==
    /\ peer[c] = "away" /\ \A b \in 1..(c - 1) : peer[b] # "away"
    /\ doing # "stopped"
    /\ peer' = [peer EXCEPT ![c] = "here"]
    /\ queue' = Append(queue, c)
    /\ ready' = Raised({LISTEN}, ready)
    /\ UNCHANGED <<limit, sent, inbox, echoes, conn, interest, slotVars, events, doing, faults>>

Send(c) ==
    /\ peer[c] = "here" /\ sent[c] < Packets[c]
    /\ sent' = [sent EXCEPT ![c] = @ + 1]
    /\ inbox' = [inbox EXCEPT ![c] = Append(@, sent[c] + 1)]
    /\ ready' = Raised(FdOf(c) \cap Watched, ready)
    /\ UNCHANGED <<limit, peer, echoes, queue, conn, interest, slotVars, events, doing, faults>>

\* A client that vanishes takes back what was not read; recv fails then.
Leave(c) ==
    /\ peer[c] = "here"
    /\ \E how \in {"closed", "vanished"} :
          /\ peer' = [peer EXCEPT ![c] = how]
          /\ inbox' = IF how = "vanished" THEN [inbox EXCEPT ![c] = <<>>] ELSE inbox
    /\ ready' = Raised(FdOf(c) \cap Watched, ready)
    /\ UNCHANGED <<limit, sent, echoes, queue, conn, interest, slotVars, events, doing, faults>>

(***************************************************************************)
(* remove_client: the descriptor leaves epoll and is closed.               *)
(***************************************************************************)
RemoveClient(i) ==
    LET fd == slots[i].fd
    IN  /\ interest' = {x \in interest : x.fd # fd}
        /\ ready' = Without(ready, fd)
        /\ conn' = [conn EXCEPT ![fd] = NoClient]
        /\ slots' = [slots EXCEPT ![i].active = FALSE]
        /\ count' = count - 1

(***************************************************************************)
(* run_server: one epoll_wait, then its events in their order.             *)
(***************************************************************************)
EpollWait ==
    /\ doing = "waiting" /\ ready # <<>>
    /\ LET n == IF Len(ready) < MAX_EVENTS THEN Len(ready) ELSE MAX_EVENTS
           told(fd) == IF fd = LISTEN THEN [idx |-> MAX_CLIENTS, whose |-> NoClient]
                       ELSE [idx |-> (CHOOSE x \in interest : x.fd = fd).idx, whose |-> conn[fd]]
       IN  /\ events' = [k \in 1..n |-> told(ready[k])]
           /\ ready' = SubSeq(ready, n + 1, Len(ready))
    /\ doing' = "handling"
    /\ UNCHANGED <<limit, clientVars, inbox, echoes, queue, conn, interest, slotVars, faults>>

\* The next event: the listening socket, or handle_client_data, which leaves an idle slot alone.
HandleEvent ==
    /\ doing = "handling"
    /\ IF events = <<>> THEN doing' = "waiting" /\ UNCHANGED events
       ELSE LET i == Head(events).idx
            IN  IF i = MAX_CLIENTS THEN doing' = "accepting" /\ events' = Tail(events)
                ELSE IF slots[i].active THEN doing' = "receiving" /\ UNCHANGED events
                ELSE doing' = doing /\ events' = Tail(events)
    /\ UNCHANGED <<clientVars, socketVars, slotVars, faults>>

(***************************************************************************)
(* The accept loop, with set_nonblocking and add_client.                   *)
(***************************************************************************)
NoDescriptor == \A fd \in Fd : fd <= limit => conn[fd] # NoClient

\* No connection waits: the loop ends.
AcceptsNoMore ==
    /\ doing = "accepting" /\ queue = <<>>
    /\ doing' = "handling"
    /\ UNCHANGED <<clientVars, socketVars, slotVars, events, faults>>

\* accept fails although a connection waits: the process has no descriptor left, or the system has none
\* or no memory.  The loop ends, too; connections that wait go on doing so until the next one raises
\* the event again.
AcceptFails ==
    /\ doing = "accepting" /\ queue # <<>>
    /\ IF NoDescriptor THEN UNCHANGED faults ELSE Fault
    /\ doing' = "overlooking"
    /\ UNCHANGED <<clientVars, socketVars, slotVars, events>>

SaysSo ==
    /\ doing = "overlooking"
    /\ doing' = "handling"
    /\ UNCHANGED <<clientVars, socketVars, slotVars, events, faults>>

\* The descriptor accept returns: the lowest that is free.
FreeFd == CHOOSE fd \in Fd : conn[fd] = NoClient /\ \A f \in Fd : conn[f] = NoClient => fd <= f

SlotByCount == count
FreeSlot == CHOOSE i \in Index : ~slots[i].active /\ \A j \in Index : ~slots[j].active => i <= j

AcceptDue == doing = "accepting" /\ queue # <<>> /\ ~NoDescriptor

\* The loop goes on behind a connection.
AcceptsOnce == "handling"
AcceptsOn == "accepting"

\* The connection gets a slot, and epoll watches it; bytes that are there already raise an event.
Accept ==
    /\ AcceptDue /\ count < MAX_CLIENTS
    /\ LET c == Head(queue)
       IN  /\ conn' = [conn EXCEPT ![FreeFd] = c]
           /\ slots' = [slots EXCEPT ![FreeSlot] = [active |-> TRUE, fd |-> FreeFd]]
           /\ count' = count + 1
           /\ interest' = interest \cup {[fd |-> FreeFd, idx |-> FreeSlot]}
           /\ ready' = IF inbox[c] # <<>> \/ peer[c] # "here" THEN Raised({FreeFd}, ready) ELSE ready
    /\ queue' = Tail(queue) /\ doing' = AcceptsOn
    /\ UNCHANGED <<limit, clientVars, inbox, echoes, events, faults>>

\* The connection is closed again: every slot is taken, or the descriptor cannot be made
\* nonblocking, hdlc_new has no memory or epoll_ctl fails, all undone.
AcceptRefuses ==
    /\ AcceptDue
    /\ IF count >= MAX_CLIENTS THEN UNCHANGED faults ELSE Fault
    /\ queue' = Tail(queue) /\ doing' = AcceptsOn
    /\ UNCHANGED <<limit, clientVars, inbox, echoes, conn, interest, ready, slotVars, events>>

(***************************************************************************)
(* handle_client_data: recv until it would block, hdlc_ondata, and for     *)
(* every packet hdlc_echo_callback, whose send may fail.                   *)
(***************************************************************************)
Slot == slots[Head(events).idx]
Peer == conn[Slot.fd]

\* The loop goes on behind what recv returned.
ReadsOnce == "handling"
ReadsOn == "receiving"

\* Where the echo of slot i goes: the descriptor handed to hdlc_ondata.
EchoToNewest(i) == CHOOSE fd \in Fd : conn[fd] # NoClient /\ \A f \in Fd : conn[f] # NoClient => f <= fd
EchoTo(i) == slots[i].fd

Receive ==
    /\ doing = "receiving" /\ inbox[Peer] # <<>>
    /\ \E n \in 1..Len(inbox[Peer]) :
          LET packets == SubSeq(inbox[Peer], 1, n)
              to == conn[EchoTo(Head(events).idx)]
          IN  /\ inbox' = [inbox EXCEPT ![Peer] = SubSeq(@, n + 1, Len(@))]
              /\ \/ /\ echoes' = [echoes EXCEPT ![to] = @ \o [k \in 1..n |-> <<Peer, packets[k]>>]]
                    /\ UNCHANGED faults
                 \/ \E lost \in 1..n :
                       /\ Fault
                       /\ echoes' = [echoes EXCEPT ![to] = @ \o [k \in 1..(n - 1) |->
                                        <<Peer, packets[IF k < lost THEN k ELSE k + 1]>>]]
    /\ doing' = ReadsOn
    /\ events' = IF ReadsOn = "handling" THEN Tail(events) ELSE events
    /\ UNCHANGED <<limit, clientVars, queue, conn, interest, ready, slotVars>>

\* EAGAIN.
NoMoreData ==
    /\ doing = "receiving" /\ inbox[Peer] = <<>> /\ peer[Peer] = "here"
    /\ doing' = "handling" /\ events' = Tail(events)
    /\ UNCHANGED <<clientVars, socketVars, slotVars, faults>>

\* recv returns 0 or fails.
Disconnected ==
    /\ doing = "receiving" /\ inbox[Peer] = <<>> /\ peer[Peer] # "here"
    /\ RemoveClient(Head(events).idx)
    /\ doing' = "handling" /\ events' = Tail(events)
    /\ UNCHANGED <<limit, clientVars, inbox, echoes, queue, faults>>

(***************************************************************************)
(* The end of the process closes everything.  A signal asks for it, which  *)
(* the loop sees before epoll_wait; and SIGPIPE, which nobody ignores,     *)
(* forces it: at a send to a client that has closed although an earlier    *)
(* echo had not been read.                                                 *)
(***************************************************************************)
Stop ==
    /\ \/ doing = "waiting"
       \/ /\ doing = "receiving" /\ peer[Peer] = "closed" /\ inbox[Peer] # <<>>
          /\ Len(echoes[Peer]) + Len(inbox[Peer]) > 1
    /\ conn' = [fd \in Fd |-> IF \E i \in Active : slots[i].fd = fd THEN NoClient ELSE conn[fd]]
    /\ slots' = [i \in Index |-> [slots[i] EXCEPT !.active = FALSE]]
    /\ count' = count - Cardinality(Active)
    /\ interest' = {} /\ ready' = <<>> /\ queue' = <<>>
    /\ doing' = "stopped"
    /\ UNCHANGED <<limit, clientVars, inbox, echoes, events, faults>>

\* The system may have withheld descriptors.
InitServer ==
    /\ peer = [c \in Client |-> "away"] /\ sent = [c \in Client |-> 0]
    /\ inbox = [c \in Client |-> <<>>] /\ echoes = [c \in Client |-> <<>>]
    /\ queue = <<>> /\ conn = [fd \in Fd |-> NoClient] /\ interest = {} /\ ready = <<>>
    /\ slots = [i \in Index |-> NoSlot] /\ count = 0
    /\ events = <<>> /\ doing = "waiting"
    /\ faults \in 0..MaxFaults /\ limit = Descriptors - faults /\ limit >= 0

ServerStep ==
    \/ EpollWait \/ HandleEvent \/ AcceptsNoMore \/ AcceptFails \/ SaysSo \/ Accept \/ AcceptRefuses
    \/ Receive \/ NoMoreData \/ Disconnected

NextServer == ServerStep \/ Stop \/ \E c \in Client : Connect(c) \/ Send(c) \/ Leave(c)

\* The server's loop goes on while it has something to do.
FairServer == InitServer /\ [][NextServer]_serverVars /\ WF_serverVars(ServerStep)
-----------------------------------------------------------------------------
\* An event is handled for the connection that raised it, although its slot and its descriptor
\* may have been given to another one since (hdlc_tcp_server.c:226).
EventsReachTheirClient ==
    doing = "receiving" => Peer = Head(events).whose

\* Every open descriptor belongs to exactly one slot, epoll watches these and no others, and
\* client_count counts them, whatever fails and whoever leaves.
NothingLeaks ==
    /\ \A fd \in Fd : conn[fd] # NoClient <=> \E i \in Active : slots[i].fd = fd
    /\ interest = {[fd |-> slots[i].fd, idx |-> i] : i \in Active}
    /\ \A i, j \in Active : slots[i].fd = slots[j].fd => i = j
    /\ count = Cardinality(Active)

\* A client gets back its own packets only, in the order it sent them.
EchoesOwnPackets ==
    \A c \in Client : \A k \in 1..Len(echoes[c]) :
        /\ echoes[c][k][1] = c
        /\ k > 1 => echoes[c][k - 1][2] < echoes[c][k][2]

Waits(c)  == Contains(queue, c)
Unread(c) == FdOf(c) # {} /\ (inbox[c] # <<>> \/ peer[c] # "here")

\* accept has failed although c waits.
Overlooked(c) == doing = "overlooking" /\ Waits(c)

\* Although an event is reported once only, nobody waits for ever, unless the server is stopped:
\* what a client sent is read and one that left gives its slot back; and a connection, its own
\* event or a later one still to be reported, is accepted, and read, or closed, unless accept fails
\* for want of a descriptor or of memory while it waits.  The loop leaves it then
\* (hdlc_tcp_server.c:335-336), and a descriptor that becomes free raises no event: only the next
\* connection does.
EverybodyIsServed ==
    \A c \in Client :
        Unread(c) \/ (Waits(c) /\ LISTEN \in ToSet(ready))
            ~> (doing = "stopped" \/ Overlooked(c) \/ ~(Unread(c) \/ Waits(c)))
=============================================================================
