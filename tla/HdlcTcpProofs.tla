---------------------------- MODULE HdlcTcpProofs ----------------------------
(***************************************************************************)
(* Proofs about the two TCP programs: the server for any clients, slots,   *)
(* descriptors and batches, the client for any command lines.  MCHdlcTcp   *)
(* gives no constant a value, it only lets one of the programs run.        *)
(***************************************************************************)
EXTENDS MCHdlcTcp, TLAPS, SequenceTheorems, FiniteSetTheorems

-----------------------------------------------------------------------------
(***************************************************************************)
(* The server's inductive invariant.                                       *)
(***************************************************************************)
Event == [idx : Index \cup {MAX_CLIENTS}, whose : Client \cup {NoClient}]
Slots == [active : BOOLEAN, fd : Fd \cup {0}]

ServerTypes ==
  /\ peer \in [Client -> {"away", "here", "closed", "vanished"}]
  /\ sent \in [Client -> Nat]
  /\ inbox \in [Client -> Seq(Nat)]
  /\ echoes \in [Client -> Seq(Nat \X Nat)]
  /\ queue \in Seq(Client)
  /\ conn \in [Fd -> Client \cup {NoClient}]
  /\ ready \in Seq(Fd \cup {LISTEN})
  /\ slots \in [Index -> Slots] /\ \A i \in Active : slots[i].fd \in Fd
  /\ interest \in SUBSET [fd : Fd, idx : Index]
  /\ events \in Seq(Event)
  /\ doing \in {"waiting", "handling", "accepting", "overlooking", "receiving", "stopped"}

\* Nothing occurs twice in a sequence.
Once(s) == \A j, k \in 1..Len(s) : s[j] = s[k] => j = k

\* Only sockets that epoll watches have an event due, and each of them one.
ReadyOnce ==
  /\ \A k \in 1..Len(ready) : ready[k] = LISTEN \/ ready[k] \in Watched
  /\ Once(ready)

\* An event not handled yet is the only one of its slot, and until it has been handled the slot stays
\* with the connection that raised it: nothing but its own event empties a slot.
EventsHold ==
  doing # "stopped" =>
    \A k \in 1..Len(events) :
      events[k].idx # MAX_CLIENTS =>
        /\ slots[events[k].idx].active
        /\ conn[slots[events[k].idx].fd] = events[k].whose
        /\ \A j \in 1..Len(events) : events[j].idx = events[k].idx => j = k

ReceivesForSlot == doing = "receiving" => events # <<>> /\ Head(events).idx # MAX_CLIENTS

\* The packets s are the last ones of 1, ..., n, in order.
LastSent(s, n) == Len(s) <= n /\ \A k \in 1..Len(s) : s[k] = n - Len(s) + k

\* What waits in a socket are the last packets sent.
InboxIsLast == \A c \in Client : LastSent(inbox[c], sent[c])

\* The echoes s are packets of client c with rising numbers above low, up to high.
Rises(s, c, low, high) ==
  /\ \A k \in 1..Len(s) : s[k][1] = c /\ low < s[k][2] /\ s[k][2] <= high
  /\ \A k \in 2..Len(s) : s[k - 1][2] < s[k][2]

\* A client was sent back packets of its own that are older than those that wait.
EchoesAreOlder ==
  \A c \in Client : Rises(echoes[c], c, 0, sent[c] - Len(inbox[c]))

ServerInv == ServerTypes /\ NothingLeaks /\ ReadyOnce /\ EventsHold /\ ReceivesForSlot
EchoInv == InboxIsLast /\ EchoesAreOlder

-----------------------------------------------------------------------------
(***************************************************************************)
(* The client program's inductive invariant.                               *)
(***************************************************************************)
ClientTypes ==
  /\ config \in Config
  /\ at \in {"started", "trying", "connecting", "handling", "polling", "exited"}
  /\ calledFrom \in {"run_client", "handle_timer"}
  /\ connected \in BOOLEAN /\ should_reconnect \in BOOLEAN /\ open \in Nat

\* Nobody tries to connect while connected.
TriesWhenNotConnected == at \in {"started", "trying", "connecting"} => ~connected

\* The failures counted are those since the last connection, and another attempt is made only while
\* attempts are left: but for the first one, which is always made.
CountsFailures ==
  /\ failures = reconnect_count /\ failures \in Nat
  /\ config.max_reconnect < 0 => failures = 0
  /\ at = "started" => calledFrom = "run_client"
  /\ calledFrom = "run_client" /\ at \in {"started", "trying", "connecting"} => failures = 0
  /\ calledFrom = "handle_timer" /\ at \in {"trying", "connecting"} => should_reconnect
  /\ should_reconnect => config.auto_reconnect

ClientInv ==
  ClientTypes /\ TriesWhenNotConnected /\ TcpClient!OneSocket /\ CountsFailures /\ TcpClient!GivesUpInTime

-----------------------------------------------------------------------------
(***************************************************************************)
(* Sequences without repetition, and least elements.                       *)
(***************************************************************************)
\* A set of natural numbers that is not empty has a least element.
LEMMA LeastNatural ==
  ASSUME NEW S \in SUBSET Nat, S # {}
  PROVE  \E s \in S : \A r \in S : s <= r
  <1>1. PICK s \in S : \A r \in S : ~(<<r, s>> \in OpToRel(<, Nat))
    BY NatLessThanWellFounded, WFMin
  <1>2. \A r \in S : ~(r < s)
    BY <1>1 DEF OpToRel
  <1>3. QED
    BY <1>2

\* SetToSeq lists a finite set, each element once.
LEMMA SetToSeqLists ==
  ASSUME NEW S, IsFiniteSet(S)
  PROVE  /\ SetToSeq(S) \in Seq(S)
         /\ Once(SetToSeq(S))
  <1>1. Cardinality(S) \in Nat /\ ExistsBijection(1..Cardinality(S), S)
    BY FS_CardinalityType
  <1>2. \E f \in [1..Cardinality(S) -> S] : IsInjective(f)
    BY <1>1 DEF ExistsBijection, Bijection, Injection
  <1>3. SetToSeq(S) \in [1..Cardinality(S) -> S] /\ IsInjective(SetToSeq(S))
    BY <1>2 DEF SetToSeq
  <1> DEFINE s == SetToSeq(S)
  <1> HIDE DEF s
  <1>4. s \in Seq(S) /\ Len(s) = Cardinality(S) /\ DOMAIN s = 1..Cardinality(S)
    BY <1>1, <1>3 DEF s
  <1>5. Once(s)
    BY <1>3, <1>4 DEF Once, IsInjective, s
  <1>6. QED
    BY <1>4, <1>5 DEF s

\* What is raised is due, with what was due before, and once.
LEMMA RaisedIsOnce ==
  ASSUME NEW T, NEW r \in Seq(T), NEW fds \in SUBSET T, IsFiniteSet(fds), Once(r)
  PROVE  /\ Raised(fds, r) \in Seq(T)
         /\ \A k \in 1..Len(Raised(fds, r)) :
              Raised(fds, r)[k] \in fds \/ \E j \in 1..Len(r) : Raised(fds, r)[k] = r[j]
         /\ Once(Raised(fds, r))
  <1> DEFINE new == fds \ ToSet(r)
             q == SetToSeq(new)
             s == Raised(fds, r)
  <1>1. IsFiniteSet(new) /\ new \in SUBSET T
    BY FS_Subset
  <1>2. q \in Seq(new) /\ Once(q)
    BY <1>1, SetToSeqLists
  <1>3. \A k \in 1..Len(q) : q[k] \in fds /\ \A j \in 1..Len(r) : q[k] # r[j]
    <2>1. \A k \in 1..Len(q) : q[k] \in new
      BY <1>2, ElementOfSeq
    <2>2. DOMAIN r = 1..Len(r)
      BY LenProperties
    <2>3. \A e \in new : e \in fds /\ \A j \in 1..Len(r) : e # r[j]
      BY <2>2 DEF ToSet
    <2>4. QED
      BY <2>1, <2>3
  <1>4. q \in Seq(T)
    BY <1>1, <1>2, SeqMonotonic
  <1>5. s = r \o q
    BY DEF Raised
  <1> HIDE DEF q, s, new
  <1>6. /\ s \in Seq(T) /\ Len(s) = Len(r) + Len(q) /\ Len(r) \in Nat /\ Len(q) \in Nat
        /\ \A i \in 1..Len(r) + Len(q) : s[i] = IF i <= Len(r) THEN r[i] ELSE q[i - Len(r)]
    BY <1>4, <1>5, ConcatProperties, LenProperties
  <1>7. \A k \in 1..Len(s) : \/ k \in 1..Len(r) /\ s[k] = r[k]
                             \/ k - Len(r) \in 1..Len(q) /\ s[k] = q[k - Len(r)]
    BY <1>6
  <1>8. \A k \in 1..Len(s) : s[k] \in fds \/ \E j \in 1..Len(r) : s[k] = r[j]
    BY <1>3, <1>7
  <1>9. Once(s)
    <2> SUFFICES ASSUME NEW j \in 1..Len(s), NEW k \in 1..Len(s), s[j] = s[k]
                 PROVE  j = k
      BY DEF Once
    <2>1. CASE j \in 1..Len(r) /\ s[j] = r[j]
      <3>1. k \in 1..Len(r) /\ s[k] = r[k]
        BY <1>3, <1>7, <2>1
      <3>2. QED
        BY <2>1, <3>1 DEF Once
    <2>2. CASE j - Len(r) \in 1..Len(q) /\ s[j] = q[j - Len(r)]
      <3>1. k - Len(r) \in 1..Len(q) /\ s[k] = q[k - Len(r)]
        BY <1>3, <1>7, <2>2
      <3>2. j - Len(r) = k - Len(r)
        BY <1>2, <2>2, <3>1 DEF Once
      <3>3. QED
        BY <1>6, <3>2
    <2>3. QED
      BY <1>7, <2>1, <2>2
  <1>10. QED
    BY <1>6, <1>8, <1>9 DEF s

\* A piece of a sequence without repetition has none.
LEMMA PieceIsOnce ==
  ASSUME NEW T, NEW r \in Seq(T), Once(r), NEW n \in 0..Len(r)
  PROVE  LET s == SubSeq(r, n + 1, Len(r))
         IN  /\ s \in Seq(T) /\ Len(s) = Len(r) - n
             /\ \A k \in 1..Len(s) : s[k] = r[n + k] /\ n + k \in 1..Len(r)
             /\ Once(s)
  <1> DEFINE s == SubSeq(r, n + 1, Len(r))
  <1>1. /\ Len(r) \in Nat /\ n \in Nat /\ n + 1 \in Int
        /\ \A i \in n + 1 .. Len(r) : r[i] \in T
    BY ElementOfSeq, LenProperties
  <1>2. /\ s \in Seq(T)
        /\ Len(s) = IF n + 1 <= Len(r) THEN Len(r) - (n + 1) + 1 ELSE 0
        /\ \A i \in 1 .. Len(r) - (n + 1) + 1 : s[i] = r[n + 1 + i - 1]
    BY <1>1, SubSeqProperties
  <1> HIDE DEF s
  <1>3. Len(s) = Len(r) - n
    BY <1>1, <1>2
  <1>4. \A k \in 1..Len(s) : s[k] = r[n + k] /\ n + k \in 1..Len(r)
    BY <1>1, <1>2, <1>3
  <1>5. Once(s)
    BY <1>1, <1>3, <1>4 DEF Once
  <1>6. QED
    BY <1>2, <1>3, <1>4, <1>5 DEF s

\* Without its only occurrence an element is gone.
LEMMA WithoutIsGone ==
  ASSUME NEW T, NEW r \in Seq(T), Once(r), NEW fd
  PROVE  /\ Without(r, fd) \in Seq(T)
         /\ \A k \in 1..Len(Without(r, fd)) :
              Without(r, fd)[k] # fd /\ \E j \in 1..Len(r) : Without(r, fd)[k] = r[j]
         /\ Once(Without(r, fd))
  <1>1. DOMAIN r = 1..Len(r) /\ Len(r) \in Nat
    BY LenProperties
  <1>2. CASE fd \notin ToSet(r)
    <2>1. Without(r, fd) = r
      BY <1>2 DEF Without
    <2>2. \A k \in 1..Len(r) : r[k] # fd
      BY <1>1, <1>2 DEF ToSet
    <2>3. QED
      BY <2>1, <2>2
  <1>3. CASE fd \in ToSet(r)
    <2> DEFINE p == CHOOSE k \in 1..Len(r) : r[k] = fd
               a == SubSeq(r, 1, p - 1)
               b == SubSeq(r, p + 1, Len(r))
               s == Without(r, fd)
    <2>1. p \in 1..Len(r) /\ r[p] = fd
      BY <1>1, <1>3 DEF ToSet
    <2>2. s = a \o b
      BY <1>3 DEF Without, RemoveAt
    <2> HIDE DEF p, s
    <2>3. \A i \in 1..Len(r) : r[i] \in T
      BY ElementOfSeq
    <2>4. a \in Seq(T) /\ Len(a) = p - 1 /\ \A i \in 1..(p - 1) : a[i] = r[i]
      <3>1. 1 \in Int /\ p - 1 \in Int /\ \A i \in 1..(p - 1) : r[i] \in T
        BY <1>1, <2>1, <2>3
      <3>2. /\ a \in Seq(T)
            /\ Len(a) = IF 1 <= p - 1 THEN p - 1 - 1 + 1 ELSE 0
            /\ \A i \in 1 .. p - 1 - 1 + 1 : a[i] = r[1 + i - 1]
        BY <3>1, SubSeqProperties
      <3>3. QED
        BY <2>1, <3>2
    <2>5. b \in Seq(T) /\ Len(b) = Len(r) - p /\ \A i \in 1..(Len(r) - p) : b[i] = r[p + i]
      <3>1. p \in 0..Len(r)
        BY <1>1, <2>1
      <3>2. /\ b \in Seq(T) /\ Len(b) = Len(r) - p
            /\ \A k \in 1..Len(b) : b[k] = r[p + k]
        BY <3>1, PieceIsOnce
      <3>3. QED
        BY <3>2
    <2> HIDE DEF a, b
    <2>6. /\ s \in Seq(T) /\ Len(s) = Len(r) - 1
          /\ \A i \in 1..Len(s) : s[i] = IF i < p THEN r[i] ELSE r[i + 1]
      <3>1. /\ s \in Seq(T) /\ Len(s) = Len(a) + Len(b)
            /\ \A i \in 1..Len(a) + Len(b) : s[i] = IF i <= Len(a) THEN a[i] ELSE b[i - Len(a)]
        BY <2>2, <2>4, <2>5, ConcatProperties
      <3>2. Len(s) = Len(r) - 1
        BY <1>1, <2>1, <2>4, <2>5, <3>1
      <3>3. ASSUME NEW i \in 1..Len(s)
            PROVE  s[i] = IF i < p THEN r[i] ELSE r[i + 1]
        <4>1. s[i] = IF i <= Len(a) THEN a[i] ELSE b[i - Len(a)]
          BY <2>4, <2>5, <3>1, <3>2
        <4>2. CASE i < p
          BY <2>1, <2>4, <4>1, <4>2
        <4>3. CASE ~(i < p)
          <5>1. i - (p - 1) \in 1..(Len(r) - p) /\ p + (i - (p - 1)) = i + 1
            BY <1>1, <2>1, <3>2, <4>3
          <5>2. s[i] = b[i - (p - 1)]
            BY <2>1, <2>4, <4>1, <4>3
          <5>3. QED
            BY <2>5, <4>3, <5>1, <5>2
        <4>4. QED
          BY <4>2, <4>3
      <3>4. QED
        BY <3>1, <3>2, <3>3
    <2>7. \A k \in 1..Len(s) : \E j \in 1..Len(r) : s[k] = r[j] /\ j # p /\ j = IF k < p THEN k ELSE k + 1
      BY <1>1, <2>1, <2>6
    <2>8. \A k \in 1..Len(s) : s[k] # fd
      BY <2>1, <2>7 DEF Once
    <2>9. Once(s)
      <3> SUFFICES ASSUME NEW j \in 1..Len(s), NEW k \in 1..Len(s), s[j] = s[k]
                   PROVE  j = k
        BY DEF Once
      <3>1. PICK x \in 1..Len(r) : s[j] = r[x] /\ x = IF j < p THEN j ELSE j + 1
        BY <2>7
      <3>2. PICK y \in 1..Len(r) : s[k] = r[y] /\ y = IF k < p THEN k ELSE k + 1
        BY <2>7
      <3>3. x = y
        BY <3>1, <3>2 DEF Once
      <3>4. QED
        BY <1>1, <2>1, <2>6, <3>1, <3>2, <3>3
    <2>10. QED
      BY <2>6, <2>7, <2>8, <2>9 DEF s
  <1>4. QED
    BY <1>2, <1>3

-----------------------------------------------------------------------------
(***************************************************************************)
(* Every step of the server and of its clients keeps the invariant.        *)
(***************************************************************************)
LEMMA ClientsAreNumbers == Client \subseteq Nat /\ NoClient \notin Client /\ Client = 1..Len(Packets)
  <1>1. Client = 1..Len(Packets) /\ Len(Packets) \in Nat
    BY ServerAssumption, LenProperties DEF ServerAssumption, Client
  <1>2. QED
    BY <1>1 DEF NoClient

\* An active slot has an open descriptor, which epoll watches under the slot's index.
LEMMA ActiveSlot ==
  ASSUME ServerTypes, NothingLeaks
  PROVE  /\ \A i \in Active : /\ i \in Index /\ slots[i].fd \in Fd
                              /\ conn[slots[i].fd] \in Client /\ conn[slots[i].fd] # NoClient
         /\ Watched = {slots[i].fd : i \in Active}
         /\ \A i \in Active : \A x \in interest : x.fd = slots[i].fd => x.idx = i
         /\ Watched \subseteq Fd
  <1>1. \A i \in Active : i \in Index /\ slots[i].fd \in Fd
    BY DEF Active, ServerTypes
  <1>2. \A i \in Active : conn[slots[i].fd] # NoClient
    BY <1>1 DEF NothingLeaks
  <1>3. \A i \in Active : conn[slots[i].fd] \in Client
    BY <1>1, <1>2 DEF ServerTypes
  <1>4. Watched = {slots[i].fd : i \in Active}
    <2>1. \A x \in interest : \E i \in Active : x = [fd |-> slots[i].fd, idx |-> i]
      BY DEF NothingLeaks
    <2>2. \A i \in Active : [fd |-> slots[i].fd, idx |-> i] \in interest
      BY DEF NothingLeaks
    <2>3. \A fd : fd \in Watched <=> \E x \in interest : x.fd = fd
      BY DEF Watched
    <2>4. \A fd : fd \in Watched => \E i \in Active : fd = slots[i].fd
      BY <2>1, <2>3
    <2>5. \A i \in Active : slots[i].fd \in Watched
      BY <2>2, <2>3
    <2>6. QED
      BY <2>4, <2>5
  <1>5. \A i \in Active : \A x \in interest : x.fd = slots[i].fd => x.idx = i
    BY DEF NothingLeaks
  <1>6. Watched \subseteq Fd
    BY <1>1, <1>4
  <1>7. QED
    BY <1>1, <1>2, <1>3, <1>4, <1>5, <1>6

\* A step that leaves the slots, the descriptors and what epoll watches alone leaks nothing.
LEMMA SlotsAlone ==
  ASSUME NothingLeaks, UNCHANGED <<conn, interest, slotVars>>
  PROVE  NothingLeaks' /\ Watched' = Watched /\ Active' = Active
  <1>1. conn' = conn /\ interest' = interest /\ slots' = slots /\ count' = count
    BY DEF slotVars
  <1>2. Active' = Active /\ Watched' = Watched
    BY <1>1 DEF Active, Watched
  <1>3. QED
    BY <1>1, <1>2 DEF NothingLeaks

\* An event raised is due with the others.
LEMMA RaisedIsReady ==
  ASSUME ServerTypes, ReadyOnce, NEW fds \in SUBSET (Fd \cup {LISTEN}), Watched' = Watched,
         \A fd \in fds : fd = LISTEN \/ fd \in Watched,
         ready' = Raised(fds, ready)
  PROVE  ready' \in Seq(Fd \cup {LISTEN}) /\ ReadyOnce'
  <1>1. IsFiniteSet(Fd \cup {LISTEN})
    <2>1. Fd \cup {LISTEN} = 0..Descriptors
      BY ServerAssumption DEF ServerAssumption, Fd, LISTEN
    <2>2. 0 \in Int /\ Descriptors \in Int
      BY ServerAssumption DEF ServerAssumption
    <2>3. QED
      BY <2>1, <2>2, FS_Interval
  <1>2. IsFiniteSet(fds)
    BY <1>1, FS_Subset
  <1>3. ready \in Seq(Fd \cup {LISTEN}) /\ Once(ready)
    BY DEF ServerTypes, ReadyOnce
  <1>4. /\ ready' \in Seq(Fd \cup {LISTEN})
        /\ \A k \in 1..Len(ready') : ready'[k] \in fds \/ \E j \in 1..Len(ready) : ready'[k] = ready[j]
        /\ Once(ready')
    BY <1>2, <1>3, RaisedIsOnce
  <1>5. \A k \in 1..Len(ready') : ready'[k] = LISTEN \/ ready'[k] \in Watched'
    BY <1>4 DEF ReadyOnce
  <1>6. QED
    BY <1>4, <1>5 DEF ReadyOnce, Once

LEMMA ConnectKeeps ==
  ASSUME ServerInv, NEW c \in Client, Connect(c)
  PROVE  ServerInv'
  <1> USE DEF ServerInv
  <1>1. NothingLeaks' /\ Watched' = Watched /\ Active' = Active
    BY SlotsAlone DEF Connect
  <1>2. ready' \in Seq(Fd \cup {LISTEN}) /\ ReadyOnce'
    BY <1>1, RaisedIsReady DEF Connect
  <1>3. queue' \in Seq(Client)
    BY AppendProperties DEF ServerTypes, Connect
  <1>4. ServerTypes'
    BY <1>1, <1>2, <1>3 DEF ServerTypes, Connect, slotVars
  <1>5. EventsHold' /\ ReceivesForSlot'
    BY DEF EventsHold, ReceivesForSlot, Connect, slotVars
  <1>6. QED
    BY <1>1, <1>2, <1>4, <1>5

LEMMA SendKeeps ==
  ASSUME ServerInv, NEW c \in Client, Send(c)
  PROVE  ServerInv'
  <1> USE DEF ServerInv
  <1>1. NothingLeaks' /\ Watched' = Watched /\ Active' = Active
    BY SlotsAlone DEF Send
  <1>2. FdOf(c) \cap Watched \in SUBSET (Fd \cup {LISTEN})
    BY DEF FdOf
  <1>3. ready' \in Seq(Fd \cup {LISTEN}) /\ ReadyOnce'
    BY <1>1, <1>2, RaisedIsReady DEF Send
  <1>4. sent[c] + 1 \in Nat /\ inbox[c] \in Seq(Nat)
    BY DEF ServerTypes
  <1>5. Append(inbox[c], sent[c] + 1) \in Seq(Nat)
    BY <1>4, AppendProperties
  <1>6. inbox' \in [Client -> Seq(Nat)] /\ sent' \in [Client -> Nat]
    BY <1>4, <1>5 DEF ServerTypes, Send
  <1>7. ServerTypes'
    BY <1>1, <1>3, <1>6 DEF ServerTypes, Send, slotVars
  <1>8. EventsHold' /\ ReceivesForSlot'
    BY DEF EventsHold, ReceivesForSlot, Send, slotVars
  <1>9. QED
    BY <1>1, <1>3, <1>7, <1>8

LEMMA LeaveKeeps ==
  ASSUME ServerInv, NEW c \in Client, Leave(c)
  PROVE  ServerInv'
  <1> USE DEF ServerInv
  <1>1. NothingLeaks' /\ Watched' = Watched /\ Active' = Active
    BY SlotsAlone DEF Leave
  <1>2. FdOf(c) \cap Watched \in SUBSET (Fd \cup {LISTEN})
    BY DEF FdOf
  <1>3. ready' \in Seq(Fd \cup {LISTEN}) /\ ReadyOnce'
    BY <1>1, <1>2, RaisedIsReady DEF Leave
  <1>4. <<>> \in Seq(Nat)
    BY EmptySeq
  <1>5. inbox' \in [Client -> Seq(Nat)] /\ peer' \in [Client -> {"away", "here", "closed", "vanished"}]
    BY <1>4 DEF ServerTypes, Leave
  <1>6. ServerTypes'
    BY <1>1, <1>3, <1>5 DEF ServerTypes, Leave, slotVars
  <1>7. EventsHold' /\ ReceivesForSlot'
    BY DEF EventsHold, ReceivesForSlot, Leave, slotVars
  <1>8. QED
    BY <1>1, <1>3, <1>6, <1>7

\* An event tells the slot of the descriptor that has it, and whom the slot belongs to; no two tell
\* the same slot.
LEMMA EpollWaitKeeps ==
  ASSUME ServerInv, EpollWait
  PROVE  ServerInv'
  <1> USE DEF ServerInv
  <1> DEFINE n == IF Len(ready) < MAX_EVENTS THEN Len(ready) ELSE MAX_EVENTS
             told(fd) == IF fd = LISTEN THEN [idx |-> MAX_CLIENTS, whose |-> NoClient]
                         ELSE [idx |-> (CHOOSE x \in interest : x.fd = fd).idx, whose |-> conn[fd]]
  <1>1. NothingLeaks' /\ Watched' = Watched /\ Active' = Active
    BY SlotsAlone DEF EpollWait
  <1>2. ready \in Seq(Fd \cup {LISTEN}) /\ Len(ready) \in Nat /\ n \in 0..Len(ready)
    BY LenProperties, ServerAssumption DEF ServerTypes, ServerAssumption
  <1>3. events' = [k \in 1..n |-> told(ready[k])] /\ ready' = SubSeq(ready, n + 1, Len(ready))
    BY DEF EpollWait
  <1> HIDE DEF n
  <1>4. ready' \in Seq(Fd \cup {LISTEN}) /\ ReadyOnce'
    <2>1. /\ ready' \in Seq(Fd \cup {LISTEN})
          /\ \A k \in 1..Len(ready') : ready'[k] = ready[n + k] /\ n + k \in 1..Len(ready)
          /\ Once(ready')
      BY <1>2, <1>3, PieceIsOnce DEF ReadyOnce
    <2>2. QED
      BY <1>1, <2>1 DEF ReadyOnce, Once
  <1>5. ASSUME NEW fd \in Watched
        PROVE  \E i \in Active : told(fd) = [idx |-> i, whose |-> conn[fd]] /\ fd = slots[i].fd
    <2>1. PICK i \in Active : fd = slots[i].fd
      BY ActiveSlot
    <2>2. fd # LISTEN
      BY ServerAssumption, ActiveSlot DEF ServerAssumption, Fd, LISTEN
    <2>3. \E x \in interest : x.fd = fd
      BY DEF Watched
    <2>4. (CHOOSE x \in interest : x.fd = fd).idx = i
      BY <2>1, <2>3, ActiveSlot
    <2>5. QED
      BY <2>1, <2>2, <2>4
  <1>6. \A k \in 1..n : ready[k] = LISTEN \/ ready[k] \in Watched
    BY <1>2 DEF ReadyOnce
  <1>7. told(LISTEN) = [idx |-> MAX_CLIENTS, whose |-> NoClient]
    OBVIOUS
  <1> HIDE DEF told
  <1>8. events' \in Seq(Event) /\ Len(events') = n /\ \A k \in 1..n : events'[k] = told(ready[k])
    <2>1. \A k \in 1..n : told(ready[k]) \in Event
      <3> SUFFICES ASSUME NEW k \in 1..n PROVE told(ready[k]) \in Event
        OBVIOUS
      <3>1. CASE ready[k] = LISTEN
        BY <1>7, <3>1 DEF Event
      <3>2. CASE ready[k] \in Watched
        <4>1. PICK i \in Active : told(ready[k]) = [idx |-> i, whose |-> conn[ready[k]]] /\ ready[k] = slots[i].fd
          BY <1>5, <3>2
        <4>2. i \in Index /\ conn[ready[k]] \in Client
          BY <4>1, ActiveSlot
        <4>3. QED
          BY <4>1, <4>2 DEF Event
      <3>3. QED
        BY <1>6, <3>1, <3>2
    <2>2. n \in Nat
      BY <1>2
    <2>3. QED
      BY <1>3, <2>1, <2>2
  <1>9. ServerTypes'
    BY <1>1, <1>4, <1>8 DEF ServerTypes, EpollWait, clientVars, slotVars, Event
  <1>10. MAX_CLIENTS \notin Index
    BY ServerAssumption DEF ServerAssumption, Index
  <1>11. ASSUME NEW k \in 1..n, events'[k].idx # MAX_CLIENTS
         PROVE  /\ events'[k].idx \in Active /\ ready[k] = slots[events'[k].idx].fd
                /\ events'[k].whose = conn[ready[k]]
    <2>1. ready[k] \in Watched
      BY <1>6, <1>7, <1>8, <1>11
    <2>2. PICK i \in Active : told(ready[k]) = [idx |-> i, whose |-> conn[ready[k]]] /\ ready[k] = slots[i].fd
      BY <1>5, <2>1
    <2>3. QED
      BY <1>8, <2>2
  <1>12. EventsHold'
    <2> SUFFICES ASSUME NEW k \in 1..n, events'[k].idx # MAX_CLIENTS
                 PROVE  /\ slots[events'[k].idx].active
                        /\ conn[slots[events'[k].idx].fd] = events'[k].whose
                        /\ \A j \in 1..n : events'[j].idx = events'[k].idx => j = k
      BY <1>8, ZenonT(60) DEF EventsHold, EpollWait, slotVars
    <2>1. slots[events'[k].idx].active
      BY <1>11 DEF Active
    <2>2. conn[slots[events'[k].idx].fd] = events'[k].whose
      BY <1>11
    <2>3. ASSUME NEW j \in 1..n, events'[j].idx = events'[k].idx
          PROVE  j = k
      <3>1. ready[j] = ready[k]
        BY <1>11, <2>3
      <3>2. QED
        BY <1>2, <3>1 DEF ReadyOnce, Once
    <2>4. QED
      BY <2>1, <2>2, <2>3
  <1>13. ReceivesForSlot'
    BY DEF ReceivesForSlot, EpollWait
  <1>14. QED
    BY <1>1, <1>4, <1>9, <1>12, <1>13

\* The events that are left still hold.
LEMMA RestOfEvents ==
  ASSUME ServerTypes, EventsHold, events # <<>>
  PROVE  /\ Tail(events) \in Seq(Event) /\ Len(Tail(events)) = Len(events) - 1
         /\ \A k \in 1..Len(Tail(events)) : Tail(events)[k] = events[k + 1] /\ k + 1 \in 1..Len(events)
         /\ Head(events) = events[1] /\ events[1] \in Event /\ 1 \in 1..Len(events) /\ Len(events) \in Nat
  <1>1. events \in Seq(Event)
    BY DEF ServerTypes
  <1>2. QED
    BY <1>1, HeadTailProperties, EmptySeq, LenProperties, ElementOfSeq

\* A step that leaves the slots, the descriptors and what waits alone and handles no event, or the
\* next one.
LEMMA EventsGo ==
  ASSUME ServerInv, UNCHANGED <<conn, interest, ready, slotVars>>,
         \/ UNCHANGED events
         \/ events # <<>> /\ events' = Tail(events),
         doing' # "stopped" => doing # "stopped"
  PROVE  NothingLeaks' /\ ReadyOnce' /\ EventsHold' /\ Active' = Active /\ events' \in Seq(Event)
  <1> USE DEF ServerInv
  <1>1. NothingLeaks' /\ Watched' = Watched /\ Active' = Active
    BY SlotsAlone
  <1>2. ReadyOnce'
    BY <1>1 DEF ReadyOnce
  <1>3. CASE UNCHANGED events
    BY <1>1, <1>2, <1>3 DEF EventsHold, slotVars, ServerTypes, Event
  <1>4. CASE events # <<>> /\ events' = Tail(events)
    <2>1. EventsHold'
      BY <1>4, RestOfEvents DEF EventsHold, slotVars
    <2>2. QED
      BY <1>1, <1>2, <1>4, <2>1, RestOfEvents
  <1>5. QED
    BY <1>3, <1>4

LEMMA HandleEventKeeps ==
  ASSUME ServerInv, HandleEvent
  PROVE  ServerInv'
  <1> USE DEF ServerInv
  <1>1. NothingLeaks' /\ ReadyOnce' /\ EventsHold' /\ Active' = Active /\ events' \in Seq(Event)
    <2>1. UNCHANGED events \/ (events # <<>> /\ events' = Tail(events))
      BY DEF HandleEvent
    <2>2. doing # "stopped" /\ UNCHANGED <<conn, interest, ready, slotVars>>
      BY DEF HandleEvent, socketVars
    <2>3. QED
      BY <2>1, <2>2, EventsGo
  <1>2. ServerTypes'
    BY <1>1 DEF ServerTypes, HandleEvent, clientVars, socketVars, slotVars, Event
  <1>3. ReceivesForSlot'
    BY DEF ReceivesForSlot, HandleEvent
  <1>4. QED
    BY <1>1, <1>2, <1>3

LEMMA AcceptFailsKeeps ==
  ASSUME ServerInv, AcceptsNoMore \/ AcceptFails \/ SaysSo \/ AcceptRefuses
  PROVE  ServerInv'
  <1> USE DEF ServerInv
  <1>1. NothingLeaks' /\ ReadyOnce' /\ EventsHold' /\ Active' = Active /\ events' \in Seq(Event)
    BY EventsGo DEF AcceptsNoMore, AcceptFails, SaysSo, AcceptRefuses, AcceptDue, AcceptsOn, NoDescriptor, socketVars
  <1>2. queue' \in Seq(Client)
    <2>1. queue \in Seq(Client)
      BY DEF ServerTypes
    <2>2. queue # <<>> => Tail(queue) \in Seq(Client)
      BY <2>1, HeadTailProperties
    <2>3. queue' = queue \/ (queue # <<>> /\ queue' = Tail(queue))
      BY DEF AcceptsNoMore, AcceptFails, SaysSo, AcceptRefuses, AcceptDue, AcceptsOn, NoDescriptor, socketVars
    <2>4. QED
      BY <2>1, <2>2, <2>3
  <1>3. ServerTypes'
    BY <1>1, <1>2 DEF ServerTypes, AcceptsNoMore, AcceptFails, SaysSo, AcceptRefuses, AcceptDue, AcceptsOn, NoDescriptor, clientVars, socketVars, slotVars, Event
  <1>4. ReceivesForSlot'
    BY DEF ReceivesForSlot, AcceptsNoMore, AcceptFails, SaysSo, AcceptRefuses, AcceptDue, AcceptsOn, NoDescriptor
  <1>5. QED
    BY <1>1, <1>3, <1>4

LEMMA NoMoreDataKeeps ==
  ASSUME ServerInv, NoMoreData
  PROVE  ServerInv'
  <1> USE DEF ServerInv
  <1>1. NothingLeaks' /\ ReadyOnce' /\ EventsHold' /\ Active' = Active /\ events' \in Seq(Event)
    BY EventsGo DEF NoMoreData, socketVars, ReceivesForSlot
  <1>2. ServerTypes'
    BY <1>1 DEF ServerTypes, NoMoreData, clientVars, socketVars, slotVars, Event
  <1>3. ReceivesForSlot'
    BY DEF ReceivesForSlot, NoMoreData
  <1>4. QED
    BY <1>1, <1>2, <1>3

\* There are no more active slots than slots.
LEMMA SlotsAreFinite ==
  /\ IsFiniteSet(Index) /\ Cardinality(Index) = MAX_CLIENTS
  /\ IsFiniteSet(Active) /\ Cardinality(Active) \in Nat
  <1>1. IsFiniteSet(Index) /\ Cardinality(Index) = MAX_CLIENTS
    <2>1. 0 \in Int /\ MAX_CLIENTS - 1 \in Int /\ MAX_CLIENTS > 0
      BY ServerAssumption DEF ServerAssumption
    <2>2. /\ IsFiniteSet(0..(MAX_CLIENTS - 1))
          /\ Cardinality(0..(MAX_CLIENTS - 1)) =
               IF 0 > MAX_CLIENTS - 1 THEN 0 ELSE MAX_CLIENTS - 1 - 0 + 1
      BY <2>1, FS_Interval
    <2>3. QED
      BY <2>1, <2>2, ServerAssumption DEF Index, ServerAssumption
  <1>2. Active \in SUBSET Index
    BY DEF Active
  <1>3. QED
    BY <1>1, <1>2, FS_Subset, FS_CardinalityType

\* accept returns a descriptor that is closed, and add_client finds a slot that is idle.
LEMMA FreeOnes ==
  ASSUME ServerInv, AcceptDue
  PROVE  /\ FreeFd \in Fd /\ conn[FreeFd] = NoClient
         /\ count < MAX_CLIENTS => FreeSlot \in Index /\ FreeSlot \notin Active
  <1> USE DEF ServerInv
  <1>1. FreeFd \in Fd /\ conn[FreeFd] = NoClient
    <2> DEFINE closed == {fd \in Fd : conn[fd] = NoClient}
    <2>1. closed \in SUBSET Nat /\ closed # {}
      BY ServerAssumption DEF ServerAssumption, Fd, AcceptDue, AcceptsOn, NoDescriptor
    <2>2. \E fd \in closed : \A f \in closed : fd <= f
      BY <2>1, LeastNatural
    <2>3. \E fd \in Fd : conn[fd] = NoClient /\ \A f \in Fd : conn[f] = NoClient => fd <= f
      BY <2>2
    <2>4. QED
      BY <2>3 DEF FreeFd
  <1>2. ASSUME count < MAX_CLIENTS
        PROVE  FreeSlot \in Index /\ FreeSlot \notin Active
    <2> DEFINE idle == {i \in Index : ~slots[i].active}
    <2>1. Active # Index
      BY <1>2, SlotsAreFinite, ServerAssumption DEF NothingLeaks, ServerAssumption
    <2>2. idle \in SUBSET Nat /\ idle # {}
      BY <2>1, ServerAssumption DEF ServerAssumption, Index, Active
    <2>3. \E i \in idle : \A j \in idle : i <= j
      BY <2>2, LeastNatural
    <2>4. \E i \in Index : ~slots[i].active /\ \A j \in Index : ~slots[j].active => i <= j
      BY <2>3
    <2>5. QED
      BY <2>4 DEF FreeSlot, Active
  <1>3. QED
    BY <1>1, <1>2

LEMMA AcceptKeeps ==
  ASSUME ServerInv, Accept
  PROVE  ServerInv'
  <1> USE DEF ServerInv
  <1> DEFINE f == FreeFd
             i == FreeSlot
             c == Head(queue)
  <1>1. f \in Fd /\ conn[f] = NoClient /\ i \in Index /\ i \notin Active
    BY FreeOnes DEF Accept, AcceptsOn
  <1>2. queue \in Seq(Client) /\ c \in Client /\ queue' \in Seq(Client)
    <2>1. queue \in Seq(Client) /\ queue # <<>>
      BY DEF ServerTypes, Accept, AcceptDue, AcceptsOn, NoDescriptor
    <2>2. Head(queue) \in Client /\ Tail(queue) \in Seq(Client)
      BY <2>1, HeadTailProperties
    <2>3. QED
      BY <2>1, <2>2 DEF Accept, AcceptsOn
  <1>3. /\ conn' = [conn EXCEPT ![f] = c]
        /\ slots' = [slots EXCEPT ![i] = [active |-> TRUE, fd |-> f]]
        /\ count' = count + 1 /\ interest' = interest \cup {[fd |-> f, idx |-> i]}
        /\ ready' = Raised({f}, ready) \/ ready' = ready
        /\ UNCHANGED <<peer, sent, inbox, echoes, events, doing>> /\ doing = "accepting"
    BY DEF Accept, AcceptDue, AcceptsOn, NoDescriptor, clientVars
  <1> HIDE DEF f, i, c
  <1>4. /\ conn' \in [Fd -> Client \cup {NoClient}] /\ conn'[f] = c /\ c # NoClient
        /\ \A fd \in Fd \ {f} : conn'[fd] = conn[fd]
    BY <1>1, <1>2, <1>3, ClientsAreNumbers DEF ServerTypes
  <1>5. /\ slots' \in [Index -> Slots] /\ slots'[i] = [active |-> TRUE, fd |-> f]
        /\ \A j \in Index \ {i} : slots'[j] = slots[j]
    BY <1>1, <1>3 DEF ServerTypes, Slots
  <1>6. Active' = Active \cup {i}
    BY <1>1, <1>5 DEF Active
  <1>7. \A j \in Active : j \in Index \ {i} /\ slots'[j] = slots[j] /\ slots[j].fd \in Fd \ {f}
    BY <1>1, <1>5, ActiveSlot
  <1>8. NothingLeaks'
    <2>1. \A fd \in Fd : conn'[fd] # NoClient <=> \E j \in Active' : slots'[j].fd = fd
      <3> SUFFICES ASSUME NEW fd \in Fd
                   PROVE  conn'[fd] # NoClient <=> \E j \in Active' : slots'[j].fd = fd
        OBVIOUS
      <3>1. CASE fd = f
        BY <1>4, <1>5, <1>6, <3>1
      <3>2. CASE fd # f
        <4>1. conn'[fd] # NoClient <=> \E j \in Active : slots[j].fd = fd
          BY <1>4, <3>2 DEF NothingLeaks
        <4>2. (\E j \in Active : slots[j].fd = fd) <=> \E j \in Active' : slots'[j].fd = fd
          BY <1>5, <1>6, <1>7, <3>2
        <4>3. QED
          BY <4>1, <4>2
      <3>3. QED
        BY <3>1, <3>2
    <2>2. interest' = {[fd |-> slots'[j].fd, idx |-> j] : j \in Active'}
      <3>1. interest = {[fd |-> slots[j].fd, idx |-> j] : j \in Active}
        BY DEF NothingLeaks
      <3>2. {[fd |-> slots[j].fd, idx |-> j] : j \in Active} = {[fd |-> slots'[j].fd, idx |-> j] : j \in Active}
        BY <1>7
      <3>3. [fd |-> f, idx |-> i] = [fd |-> slots'[i].fd, idx |-> i]
        BY <1>5
      <3>4. QED
        BY <1>3, <1>6, <3>1, <3>2, <3>3
    <2>3. \A j, k \in Active' : slots'[j].fd = slots'[k].fd => j = k
      BY <1>5, <1>6, <1>7 DEF NothingLeaks
    <2>4. count' = Cardinality(Active')
      <3>1. Cardinality(Active \cup {i}) = Cardinality(Active) + 1
        BY <1>1, SlotsAreFinite, FS_AddElement
      <3>2. QED
        BY <1>3, <1>6, <3>1 DEF NothingLeaks
    <2>5. QED
      BY <2>1, <2>2, <2>3, <2>4 DEF NothingLeaks
  <1>9. Watched' = Watched \cup {f}
    <2>1. \A x : x \in interest' <=> x \in interest \/ x = [fd |-> f, idx |-> i]
      BY <1>3
    <2>2. \A fd : fd \in Watched' <=> \E x \in interest' : x.fd = fd
      BY DEF Watched
    <2>3. \A fd : fd \in Watched <=> \E x \in interest : x.fd = fd
      BY DEF Watched
    <2>4. \A fd \in Watched' : fd \in Watched \/ fd = f
      BY <2>1, <2>2, <2>3
    <2>5. \A fd \in Watched : fd \in Watched'
      BY <2>1, <2>2, <2>3
    <2>6. f \in Watched'
      <3>1. [fd |-> f, idx |-> i] \in interest' /\ [fd |-> f, idx |-> i].fd = f
        BY <2>1
      <3>2. QED
        BY <2>2, <3>1
    <2>7. QED
      BY <2>4, <2>5, <2>6
  <1>10. ready' \in Seq(Fd \cup {LISTEN}) /\ ReadyOnce'
    <2> DEFINE new == {f}
               T == Fd \cup {LISTEN}
    <2>1. ready \in Seq(T) /\ Once(ready) /\ IsFiniteSet(new) /\ new \in SUBSET T
      BY <1>1, FS_Singleton DEF ServerTypes, ReadyOnce
    <2>2. CASE ready' = ready
      BY <1>9, <2>1, <2>2 DEF ReadyOnce, Once
    <2>3. CASE ready' = Raised({f}, ready)
      <3>1. ready' = Raised(new, ready)
        BY <2>3
      <3> HIDE DEF new, T
      <3>2. /\ Raised(new, ready) \in Seq(T)
            /\ \A k \in 1..Len(Raised(new, ready)) :
                 Raised(new, ready)[k] \in new \/ \E j \in 1..Len(ready) : Raised(new, ready)[k] = ready[j]
            /\ Once(Raised(new, ready))
        BY <2>1, RaisedIsOnce
      <3>3. QED
        BY <1>9, <3>1, <3>2 DEF ReadyOnce, Once, new, T
    <2>4. QED
      BY <1>3, <2>2, <2>3
  <1>11. ServerTypes'
    <2>1. interest' \in SUBSET [fd : Fd, idx : Index]
      BY <1>1, <1>3 DEF ServerTypes
    <2>2. \A j \in Active' : slots'[j].fd \in Fd
      BY <1>1, <1>5, <1>6, <1>7
    <2>3. QED
      BY <1>2, <1>3, <1>4, <1>5, <1>10, <2>1, <2>2 DEF ServerTypes
  <1>12. EventsHold' /\ ReceivesForSlot'
    <2>1. \A k \in 1..Len(events) : events[k].idx # MAX_CLIENTS =>
             slots[events[k].idx].active /\ events[k].idx \in Active
      <3>1. \A k \in 1..Len(events) : events[k] \in Event
        BY ElementOfSeq DEF ServerTypes
      <3>2. QED
        BY <1>3, <3>1 DEF EventsHold, Event, Active
    <2>2. QED
      BY <1>3, <1>4, <1>7, <2>1 DEF EventsHold, ReceivesForSlot
  <1>13. QED
    BY <1>8, <1>10, <1>11, <1>12

\* What the server receives for: the event's slot, which is active, and its connection.
LEMMA ReceivesFromPeer ==
  ASSUME ServerInv, doing = "receiving"
  PROVE  /\ events # <<>> /\ Head(events).idx \in Active /\ Head(events).idx # MAX_CLIENTS
         /\ Slot.fd \in Fd /\ Peer \in Client /\ Peer = Head(events).whose
         /\ \A k \in 2..Len(events) : events[k].idx # Head(events).idx
  <1> USE DEF ServerInv
  <1>1. events # <<>> /\ Head(events).idx # MAX_CLIENTS
    BY DEF ReceivesForSlot
  <1>2. Head(events) = events[1] /\ events[1] \in Event /\ 1 \in 1..Len(events) /\ Len(events) \in Nat
    BY <1>1, RestOfEvents
  <1>3. Head(events).idx \in Active
    BY <1>1, <1>2 DEF EventsHold, Event, Active
  <1>4. conn[slots[Head(events).idx].fd] = Head(events).whose
    BY <1>1, <1>2 DEF EventsHold
  <1>5. \A k \in 2..Len(events) : events[k].idx # Head(events).idx
    BY <1>1, <1>2 DEF EventsHold
  <1>6. QED
    BY <1>1, <1>3, <1>4, <1>5, ActiveSlot DEF Slot, Peer

LEMMA DisconnectedKeeps ==
  ASSUME ServerInv, Disconnected
  PROVE  ServerInv'
  <1> USE DEF ServerInv
  <1> DEFINE i == Head(events).idx
             f == slots[i].fd
  <1>1. doing = "receiving" /\ RemoveClient(i) /\ doing' = "handling" /\ events' = Tail(events)
    BY DEF Disconnected
  <1>2. UNCHANGED <<peer, sent, inbox, echoes, queue>>
    BY DEF Disconnected, clientVars
  <1>3. /\ events # <<>> /\ i \in Active /\ i \in Index /\ f \in Fd
        /\ \A k \in 2..Len(events) : events[k].idx # i
    BY <1>1, ReceivesFromPeer DEF Slot, Active
  <1>4. /\ interest' = {x \in interest : x.fd # f} /\ ready' = Without(ready, f)
        /\ conn' = [conn EXCEPT ![f] = NoClient] /\ slots' = [slots EXCEPT ![i].active = FALSE]
        /\ count' = count - 1
    BY <1>1 DEF RemoveClient
  <1> HIDE DEF i, f
  <1>5. /\ conn' \in [Fd -> Client \cup {NoClient}] /\ conn'[f] = NoClient
        /\ \A fd \in Fd \ {f} : conn'[fd] = conn[fd]
    BY <1>3, <1>4 DEF ServerTypes
  <1>6. /\ slots' \in [Index -> Slots] /\ ~slots'[i].active
        /\ \A j \in Index \ {i} : slots'[j] = slots[j]
    <2>1. slots \in [Index -> Slots] /\ i \in Index
      BY <1>3 DEF ServerTypes
    <2>2. slots' = [slots EXCEPT ![i] = [slots[i] EXCEPT !.active = FALSE]]
      BY <1>4
    <2>3. slots[i] \in [active : BOOLEAN, fd : Fd \cup {0}]
      BY <2>1 DEF Slots
    <2>4. [slots[i] EXCEPT !.active = FALSE] \in Slots /\ ~[slots[i] EXCEPT !.active = FALSE].active
      BY <2>3 DEF Slots
    <2>5. QED
      BY <2>1, <2>2, <2>4
  <1>7. Active' = Active \ {i}
    BY <1>3, <1>6 DEF Active
  <1>8. \A j \in Active' : /\ j \in Index /\ slots'[j] = slots[j] /\ slots'[j].fd \in Fd /\ slots'[j].fd # f
    BY <1>3, <1>6, <1>7, ActiveSlot DEF NothingLeaks, f
  <1>9. NothingLeaks'
    <2>1. \A fd \in Fd : conn'[fd] # NoClient <=> \E j \in Active' : slots'[j].fd = fd
      <3> SUFFICES ASSUME NEW fd \in Fd
                   PROVE  conn'[fd] # NoClient <=> \E j \in Active' : slots'[j].fd = fd
        OBVIOUS
      <3>1. CASE fd = f
        BY <1>5, <1>8, <3>1
      <3>2. CASE fd # f
        <4>1. conn'[fd] # NoClient <=> \E j \in Active : slots[j].fd = fd
          BY <1>5, <3>2 DEF NothingLeaks
        <4>2. (\E j \in Active : slots[j].fd = fd) <=> \E j \in Active' : slots'[j].fd = fd
          BY <1>7, <1>8, <3>2 DEF f
        <4>3. QED
          BY <4>1, <4>2
      <3>3. QED
        BY <3>1, <3>2
    <2>2. interest' = {[fd |-> slots'[j].fd, idx |-> j] : j \in Active'}
      <3>1. interest = {[fd |-> slots[j].fd, idx |-> j] : j \in Active}
        BY DEF NothingLeaks
      <3>2. \A x \in interest' : \E j \in Active' : x = [fd |-> slots'[j].fd, idx |-> j]
        <4> SUFFICES ASSUME NEW x \in interest'
                     PROVE  \E j \in Active' : x = [fd |-> slots'[j].fd, idx |-> j]
          OBVIOUS
        <4>1. x \in interest /\ x.fd # f
          BY <1>4
        <4>2. PICK j \in Active : x = [fd |-> slots[j].fd, idx |-> j]
          BY <3>1, <4>1
        <4>3. j \in Active'
          BY <1>7, <4>1, <4>2 DEF f
        <4>4. QED
          BY <1>8, <4>2, <4>3
      <3>3. \A j \in Active' : [fd |-> slots'[j].fd, idx |-> j] \in interest'
        BY <1>4, <1>7, <1>8, <3>1
      <3>4. QED
        BY <3>2, <3>3
    <2>3. \A j, k \in Active' : slots'[j].fd = slots'[k].fd => j = k
      BY <1>7, <1>8 DEF NothingLeaks
    <2>4. count' = Cardinality(Active')
      <3>1. Cardinality(Active \ {i}) = Cardinality(Active) - 1
        BY <1>3, SlotsAreFinite, FS_RemoveElement
      <3>2. QED
        BY <1>4, <1>7, <3>1 DEF NothingLeaks
    <2>5. QED
      BY <2>1, <2>2, <2>3, <2>4 DEF NothingLeaks
  <1>10. \A fd \in Watched : fd # f => fd \in Watched'
    <2>1. \A fd : fd \in Watched <=> \E x \in interest : x.fd = fd
      BY DEF Watched
    <2>2. \A x : x \in interest' <=> x \in interest /\ x.fd # f
      BY <1>4
    <2>3. \A fd : fd \in Watched' <=> \E x \in interest' : x.fd = fd
      BY DEF Watched
    <2>4. QED
      BY <2>1, <2>2, <2>3
  <1>11. ready' \in Seq(Fd \cup {LISTEN}) /\ ReadyOnce'
    <2>1. ready \in Seq(Fd \cup {LISTEN}) /\ Once(ready)
      BY DEF ServerTypes, ReadyOnce
    <2>2. /\ ready' \in Seq(Fd \cup {LISTEN})
          /\ \A k \in 1..Len(ready') : ready'[k] # f /\ \E j \in 1..Len(ready) : ready'[k] = ready[j]
          /\ Once(ready')
      BY <1>4, <2>1, WithoutIsGone
    <2>3. \A k \in 1..Len(ready') : ready'[k] = LISTEN \/ ready'[k] \in Watched'
      BY <1>10, <2>2 DEF ReadyOnce
    <2>4. QED
      BY <2>2, <2>3 DEF ReadyOnce, Once
  <1>12. ServerTypes'
    <2>1. interest' \in SUBSET [fd : Fd, idx : Index]
      BY <1>4 DEF ServerTypes
    <2>2. events' \in Seq(Event)
      BY <1>1, <1>3, RestOfEvents
    <2>3. QED
      BY <1>1, <1>2, <1>5, <1>6, <1>8, <1>11, <2>1, <2>2 DEF ServerTypes, Event
  <1>13. EventsHold' /\ ReceivesForSlot'
    <2> SUFFICES ASSUME NEW k \in 1..Len(events'), events'[k].idx # MAX_CLIENTS
                 PROVE  /\ slots'[events'[k].idx].active
                        /\ conn'[slots'[events'[k].idx].fd] = events'[k].whose
                        /\ \A j \in 1..Len(events') : events'[j].idx = events'[k].idx => j = k
      BY <1>1 DEF EventsHold, ReceivesForSlot
    <2>1. /\ Len(events') = Len(events) - 1 /\ Len(events) \in Nat
          /\ \A j \in 1..Len(events') : events'[j] = events[j + 1] /\ j + 1 \in 1..Len(events)
      BY <1>1, <1>3, RestOfEvents
    <2>2. events'[k].idx \in Index \ {i}
      <3>1. k + 1 \in 2..Len(events) /\ events[k + 1] \in Event
        BY <2>1, ElementOfSeq DEF ServerTypes
      <3>2. QED
        BY <1>3, <2>1, <3>1 DEF Event
    <2>3. slots[events'[k].idx].active /\ conn[slots[events'[k].idx].fd] = events'[k].whose
      BY <1>1, <2>1 DEF EventsHold
    <2>4. events'[k].idx \in Active'
      BY <1>7, <2>2, <2>3 DEF Active
    <2>5. \A j \in 1..Len(events') : events'[j].idx = events'[k].idx => j = k
      <3> SUFFICES ASSUME NEW j \in 1..Len(events'), events'[j].idx = events'[k].idx
                   PROVE  j = k
        OBVIOUS
      <3>1. j + 1 = k + 1
        BY <1>1, <2>1 DEF EventsHold
      <3>2. QED
        BY <2>1, <3>1
    <2>6. QED
      BY <1>5, <1>6, <1>8, <2>2, <2>3, <2>4, <2>5
  <1>14. QED
    BY <1>9, <1>11, <1>12, <1>13

LEMMA StopKeeps ==
  ASSUME ServerInv, Stop
  PROVE  ServerInv'
  <1> USE DEF ServerInv
  <1>1. /\ conn' = [fd \in Fd |-> IF \E i \in Active : slots[i].fd = fd THEN NoClient ELSE conn[fd]]
        /\ slots' = [i \in Index |-> [slots[i] EXCEPT !.active = FALSE]]
        /\ count' = count - Cardinality(Active)
        /\ interest' = {} /\ ready' = <<>> /\ queue' = <<>> /\ doing' = "stopped"
        /\ UNCHANGED <<peer, sent, inbox, echoes, events>>
    BY DEF Stop, clientVars
  <1>2. \A fd \in Fd : conn'[fd] = NoClient
    BY <1>1 DEF NothingLeaks
  <1>3. slots' \in [Index -> Slots] /\ Active' = {}
    <2>1. ASSUME NEW i \in Index
          PROVE  [slots[i] EXCEPT !.active = FALSE] \in Slots /\ ~[slots[i] EXCEPT !.active = FALSE].active
      <3>1. slots[i] \in [active : BOOLEAN, fd : Fd \cup {0}]
        BY DEF ServerTypes, Slots
      <3>2. QED
        BY <3>1 DEF Slots
    <2>2. \A i \in Index : slots'[i] \in Slots /\ ~slots'[i].active
      BY <1>1, <2>1
    <2>3. QED
      BY <1>1, <2>2 DEF Active
  <1>4. count' = 0 /\ Cardinality(Active') = 0
    BY <1>1, <1>3, SlotsAreFinite, FS_EmptySet DEF NothingLeaks
  <1>5. NothingLeaks'
    BY <1>1, <1>2, <1>3, <1>4 DEF NothingLeaks
  <1>6. ready' \in Seq(Fd \cup {LISTEN}) /\ queue' \in Seq(Client) /\ Len(ready') = 0
    BY <1>1
  <1>7. ReadyOnce'
    BY <1>6 DEF ReadyOnce, Once
  <1>8. ServerTypes'
    <2>1. conn' \in [Fd -> Client \cup {NoClient}]
      BY <1>1, <1>2
    <2>2. QED
      BY <1>1, <1>3, <1>6, <2>1 DEF ServerTypes, Event
  <1>9. QED
    BY <1>1, <1>5, <1>7, <1>8 DEF EventsHold, ReceivesForSlot

-----------------------------------------------------------------------------
(***************************************************************************)
(* What is received, and what is sent back.                                *)
(***************************************************************************)
\* What one recv takes from the socket and what stays there.
LEMMA TakesFromInbox ==
  ASSUME NEW s \in Seq(Nat), NEW m \in Nat, LastSent(s, m), NEW n \in 1..Len(s)
  PROVE  LET rest == SubSeq(s, n + 1, Len(s))
             packets == SubSeq(s, 1, n)
         IN  /\ rest \in Seq(Nat) /\ LastSent(rest, m) /\ Len(rest) = Len(s) - n
             /\ \A k \in 1..n : packets[k] = m - Len(s) + k
             /\ Len(s) \in Nat /\ Len(s) <= m /\ n \in Nat
  <1> DEFINE rest == SubSeq(s, n + 1, Len(s))
             packets == SubSeq(s, 1, n)
  <1>1. Len(s) \in Nat /\ n \in Nat /\ \A k \in 1..Len(s) : s[k] \in Nat
    BY LenProperties, ElementOfSeq
  <1>2. /\ rest \in Seq(Nat)
        /\ Len(rest) = IF n + 1 <= Len(s) THEN Len(s) - (n + 1) + 1 ELSE 0
        /\ \A k \in 1 .. Len(s) - (n + 1) + 1 : rest[k] = s[n + 1 + k - 1]
    <2>1. n + 1 \in Int /\ Len(s) \in Int /\ \A k \in n + 1 .. Len(s) : s[k] \in Nat
      BY <1>1
    <2>2. QED
      BY <2>1, SubSeqProperties, SMTT(60)
  <1>3. /\ Len(packets) = IF 1 <= n THEN n - 1 + 1 ELSE 0
        /\ \A k \in 1 .. n - 1 + 1 : packets[k] = s[1 + k - 1]
    <2>1. 1 \in Int /\ n \in Int /\ \A k \in 1 .. n : s[k] \in Nat
      BY <1>1
    <2>2. QED
      BY <2>1, SubSeqProperties
  <1> HIDE DEF rest, packets
  <1>4. Len(rest) = Len(s) - n /\ Len(s) <= m
    BY <1>1, <1>2 DEF LastSent
  <1>5. ASSUME NEW k \in 1..Len(rest)
        PROVE  rest[k] = m - Len(rest) + k
    <2>1. rest[k] = s[n + k] /\ n + k \in 1..Len(s)
      BY <1>1, <1>2, <1>4, SMTT(60)
    <2>2. s[n + k] = m - Len(s) + (n + k)
      BY <2>1 DEF LastSent
    <2>3. QED
      BY <1>1, <1>4, <2>1, <2>2
  <1>6. ASSUME NEW k \in 1..n
        PROVE  packets[k] = m - Len(s) + k
    <2>1. packets[k] = s[k] /\ k \in 1..Len(s)
      BY <1>1, <1>3
    <2>2. QED
      BY <2>1 DEF LastSent
  <1>7. LastSent(rest, m)
    BY <1>1, <1>4, <1>5 DEF LastSent
  <1>8. QED
    BY <1>1, <1>2, <1>4, <1>6, <1>7 DEF rest, packets

\* What is sent waits last.
LEMMA AppendedToInbox ==
  ASSUME NEW s \in Seq(Nat), NEW n \in Nat, LastSent(s, n)
  PROVE  LET q == Append(s, n + 1)
         IN  q \in Seq(Nat) /\ LastSent(q, n + 1) /\ n + 1 - Len(q) = n - Len(s)
  <1> DEFINE q == Append(s, n + 1)
  <1>1. Len(s) \in Nat /\ n + 1 \in Nat
    BY LenProperties
  <1>2. /\ q \in Seq(Nat) /\ Len(q) = Len(s) + 1 /\ \A k \in 1..Len(s) : q[k] = s[k]
        /\ q[Len(s) + 1] = n + 1
    BY <1>1, AppendProperties
  <1> HIDE DEF q
  <1>3. ASSUME NEW k \in 1..Len(q)
        PROVE  q[k] = n + 1 - Len(q) + k
    <2>1. CASE k \in 1..Len(s)
      <3>1. s[k] = n - Len(s) + k
        BY <2>1 DEF LastSent
      <3>2. q[k] = s[k]
        BY <1>2, <2>1
      <3>3. QED
        BY <1>1, <1>2, <2>1, <3>1, <3>2
    <2>2. CASE k = Len(s) + 1
      BY <1>1, <1>2, <2>2
    <2>3. QED
      BY <1>1, <1>2, <2>1, <2>2
  <1>4. LastSent(q, n + 1)
    <2>1. Len(s) <= n
      BY DEF LastSent
    <2>2. QED
      BY <1>1, <1>2, <1>3, <2>1 DEF LastSent
  <1>5. QED
    BY <1>1, <1>2, <1>4 DEF q

\* What is sent back before, then what is sent back now.
LEMMA SecondIsNat ==
  ASSUME NEW T, NEW e \in Seq(T), \A x \in T : x[2] \in Nat
  PROVE  \A k \in 1..Len(e) : e[k][2] \in Nat
  <1>1. \A k \in 1..Len(e) : e[k] \in T
    BY ElementOfSeq
  <1>2. QED
    BY <1>1

LEMMA RisesOn ==
  ASSUME NEW c, NEW low \in Int, NEW mid \in Int, NEW high \in Int, low <= mid, mid <= high,
         NEW T, NEW e \in Seq(T), NEW b \in Seq(T), \A x \in T : x[2] \in Nat, Rises(e, c, low, mid), Rises(b, c, mid, high)
  PROVE  e \o b \in Seq(T) /\ Rises(e \o b, c, low, high)
  <1> DEFINE s == e \o b
  <1>1. /\ s \in Seq(T) /\ Len(s) = Len(e) + Len(b) /\ Len(e) \in Nat /\ Len(b) \in Nat
        /\ \A k \in 1..Len(e) + Len(b) : s[k] = IF k <= Len(e) THEN e[k] ELSE b[k - Len(e)]
    BY ConcatProperties, LenProperties
  <1> HIDE DEF s
  <1>2. (\A k \in 1..Len(e) : e[k][2] \in Nat) /\ (\A k \in 1..Len(b) : b[k][2] \in Nat)
    BY SecondIsNat
  <1>3. \A k \in 1..Len(s) : \/ k \in 1..Len(e) /\ s[k] = e[k]
                             \/ k - Len(e) \in 1..Len(b) /\ s[k] = b[k - Len(e)]
    BY <1>1
  <1>4. \A k \in 1..Len(e) : e[k][1] = c /\ low < e[k][2] /\ e[k][2] <= high
    BY <1>2, SMTT(60) DEF Rises
  <1>5. \A k \in 1..Len(b) : b[k][1] = c /\ low < b[k][2] /\ b[k][2] <= high
    BY <1>2 DEF Rises
  <1>6. \A k \in 1..Len(s) : s[k][1] = c /\ low < s[k][2] /\ s[k][2] <= high
    BY <1>3, <1>4, <1>5
  <1>7. ASSUME NEW k \in 2..Len(s)
        PROVE  s[k - 1][2] < s[k][2]
    <2>0. k \in 1..Len(e) + Len(b) /\ k - 1 \in 1..Len(e) + Len(b)
      BY <1>1
    <2>1. s[k] = (IF k <= Len(e) THEN e[k] ELSE b[k - Len(e)])
      BY <1>1, <2>0
    <2>2. s[k - 1] = (IF k - 1 <= Len(e) THEN e[k - 1] ELSE b[k - 1 - Len(e)])
      BY <1>1, <2>0
    <2>3. CASE k <= Len(e)
      <3>1. k \in 2..Len(e) /\ s[k] = e[k] /\ s[k - 1] = e[k - 1]
        BY <1>1, <2>0, <2>1, <2>2, <2>3
      <3>2. QED
        BY <3>1 DEF Rises
    <2>4. CASE k > Len(e) + 1
      <3>1. k - Len(e) \in 2..Len(b) /\ s[k] = b[k - Len(e)] /\ s[k - 1] = b[k - 1 - Len(e)]
        BY <1>1, <2>0, <2>1, <2>2, <2>4
      <3>2. k - 1 - Len(e) = k - Len(e) - 1
        BY <1>1
      <3>3. QED
        BY <3>1, <3>2 DEF Rises
    <2>5. CASE k = Len(e) + 1
      <3>1. 1 \in 1..Len(b) /\ s[k] = b[1] /\ Len(e) \in 1..Len(e) /\ s[k - 1] = e[Len(e)]
        BY <1>1, <2>5
      <3>2. e[Len(e)][2] <= mid /\ mid < b[1][2] /\ e[Len(e)][2] \in Nat /\ b[1][2] \in Nat
        BY <1>2, <3>1 DEF Rises
      <3>3. QED
        BY <3>1, <3>2, SMTT(60)
    <2>6. QED
      BY <1>1, <2>3, <2>4, <2>5
  <1>8. Rises(s, c, low, high)
    BY <1>6, <1>7 DEF Rises
  <1>9. QED
    BY <1>1, <1>8 DEF s

\* With what was sent the limit rises.
LEMMA RisesHigher ==
  ASSUME NEW c, NEW low \in Int, NEW mid \in Int, NEW high \in Int, mid <= high,
         NEW T, NEW e \in Seq(T), \A x \in T : x[2] \in Nat, Rises(e, c, low, mid)
  PROVE  Rises(e, c, low, high)
  <1>1. \A k \in 1..Len(e) : e[k][2] \in Nat
    BY SecondIsNat
  <1>2. ASSUME NEW k \in 1..Len(e)
        PROVE  e[k][2] <= high
    <2>1. e[k][2] \in Nat /\ e[k][2] <= mid
      BY <1>1 DEF Rises
    <2>2. QED
      BY <2>1
  <1>3. QED
    BY <1>2 DEF Rises

\* The packets low + 1, ..., low + n sent back, all of them or all but one.
LEMMA AllEchoesRise ==
  ASSUME NEW c \in Nat, NEW low \in Nat, NEW n \in Nat, NEW p, \A k \in 1..n : p[k] = low + k
  PROVE  LET s == [k \in 1..n |-> <<c, p[k]>>]
         IN  s \in Seq(Nat \X Nat) /\ Rises(s, c, low, low + n)
  <1> DEFINE s == [k \in 1..n |-> <<c, p[k]>>]
  <1>1. \A k \in 1..n : s[k] = <<c, low + k>> /\ low + k \in Nat
    OBVIOUS
  <1>2. s \in Seq(Nat \X Nat) /\ Len(s) = n
    BY <1>1
  <1>3. Rises(s, c, low, low + n)
    BY <1>1, <1>2 DEF Rises
  <1>4. QED
   BY <1>2, <1>3

LEMMA SomeEchoesRise ==
  ASSUME NEW c \in Nat, NEW low \in Nat, NEW n \in Nat, NEW p, \A k \in 1..n : p[k] = low + k,
         NEW lost \in 1..n
  PROVE  LET s == [k \in 1..(n - 1) |-> <<c, p[IF k < lost THEN k ELSE k + 1]>>]
         IN  s \in Seq(Nat \X Nat) /\ Rises(s, c, low, low + n)
  <1> DEFINE s == [k \in 1..(n - 1) |-> <<c, p[IF k < lost THEN k ELSE k + 1]>>]
             t == [k \in 1..(n - 1) |-> <<c, low + (IF k < lost THEN k ELSE k + 1)>>]
  <1>1. \A k \in 1..(n - 1) : s[k] = t[k]
    OBVIOUS
  <1>2. s = t
    BY <1>1
  <1>3. n - 1 \in Nat
    OBVIOUS
  <1>4. t \in Seq(Nat \X Nat) /\ Len(t) = n - 1
    BY <1>3
  <1>5. Rises(t, c, low, low + n)
    <2>1. \A k \in 1..(n - 1) : t[k][1] = c /\ t[k][2] = low + (IF k < lost THEN k ELSE k + 1)
      OBVIOUS
    <2> HIDE DEF t
    <2>2. \A k \in 1..(n - 1) : low < t[k][2] /\ t[k][2] <= low + n
      BY <2>1
    <2>3. \A k \in 2..(n - 1) : t[k - 1][2] < t[k][2]
      BY <2>1
    <2>4. QED
      BY <1>4, <2>1, <2>2, <2>3 DEF Rises
  <1> HIDE DEF s, t
  <1>6. s \in Seq(Nat \X Nat) /\ Rises(s, c, low, low + n)
    BY <1>2, <1>4, <1>5
  <1>7. QED
    BY <1>6 DEF s

\* What is sent back are packets of the peer that are newer than what it was sent back before.
LEMMA ReceiveEchoes ==
  ASSUME ServerInv, EchoInv, Receive
  PROVE  /\ Peer \in Client /\ doing = "receiving" /\ doing' = "receiving"
         /\ UNCHANGED <<peer, sent, queue, conn, interest, ready, slots, count, events>>
         /\ \E rest \in Seq(Nat), back \in Seq(Nat \X Nat) :
               /\ inbox' = [inbox EXCEPT ![Peer] = rest]
               /\ Len(rest) <= Len(inbox[Peer])
               /\ LastSent(rest, sent[Peer])
               /\ echoes' = [echoes EXCEPT ![Peer] = @ \o back]
               /\ Rises(back, Peer, sent[Peer] - Len(inbox[Peer]), sent[Peer] - Len(rest))
  <1>1. Peer \in Client /\ doing = "receiving" /\ conn[EchoTo(Head(events).idx)] = Peer
    BY ReceivesFromPeer DEF Receive, EchoTo, Slot, Peer
  <1>2. doing' = "receiving" /\ UNCHANGED <<peer, sent, queue, conn, interest, ready, slots, count, events>>
    BY DEF Receive, ReadsOn, clientVars, slotVars
  <1>3. PICK n \in 1..Len(inbox[Peer]) :
           /\ inbox' = [inbox EXCEPT ![Peer] = SubSeq(inbox[Peer], n + 1, Len(inbox[Peer]))]
           /\ \/ echoes' = [echoes EXCEPT ![Peer] = @ \o [k \in 1..n |-> <<Peer, SubSeq(inbox[Peer], 1, n)[k]>>]]
              \/ \E lost \in 1..n : echoes' = [echoes EXCEPT ![Peer] = @ \o [k \in 1..(n - 1) |->
                     <<Peer, SubSeq(inbox[Peer], 1, n)[IF k < lost THEN k ELSE k + 1]>>]]
    BY <1>1, ZenonT(60) DEF Receive
  <1> DEFINE r == SubSeq(inbox[Peer], n + 1, Len(inbox[Peer]))
             p == SubSeq(inbox[Peer], 1, n)
             low == sent[Peer] - Len(inbox[Peer])
  <1> HIDE DEF p, r
  <1>4. /\ inbox' = [inbox EXCEPT ![Peer] = r]
        /\ \/ echoes' = [echoes EXCEPT ![Peer] = @ \o [k \in 1..n |-> <<Peer, p[k]>>]]
           \/ \E lost \in 1..n : echoes' = [echoes EXCEPT ![Peer] = @ \o [k \in 1..(n - 1) |->
                  <<Peer, p[IF k < lost THEN k ELSE k + 1]>>]]
    BY <1>3 DEF p, r
  <1>5. /\ r \in Seq(Nat) /\ LastSent(r, sent[Peer]) /\ Len(r) = Len(inbox[Peer]) - n
        /\ \A k \in 1..n : p[k] = low + k
        /\ Len(inbox[Peer]) \in Nat /\ sent[Peer] \in Nat /\ Len(inbox[Peer]) <= sent[Peer] /\ n \in Nat
    <2>1. inbox[Peer] \in Seq(Nat) /\ sent[Peer] \in Nat /\ LastSent(inbox[Peer], sent[Peer])
      BY <1>1 DEF EchoInv, InboxIsLast, ServerInv, ServerTypes
    <2>2. QED
      BY <2>1, TakesFromInbox DEF p, r
  <1>6. low \in Nat /\ low + n = sent[Peer] - Len(r) /\ Len(r) <= Len(inbox[Peer])
    <2>1. Len(r) = Len(inbox[Peer]) - n
      BY <1>5
    <2>2. Len(inbox[Peer]) \in Nat /\ sent[Peer] \in Nat /\ Len(inbox[Peer]) <= sent[Peer] /\ n \in Nat
      BY <1>5
    <2>3. QED
      BY <2>1, <2>2
  <1>7. Peer \in Nat
    BY <1>1, ClientsAreNumbers
  <1> HIDE DEF low
  <1>8. \E back \in Seq(Nat \X Nat) : /\ echoes' = [echoes EXCEPT ![Peer] = @ \o back]
                                     /\ Rises(back, Peer, low, low + n)
    <2>1. CASE echoes' = [echoes EXCEPT ![Peer] = @ \o [k \in 1..n |-> <<Peer, p[k]>>]]
      <3> DEFINE back == [k \in 1..n |-> <<Peer, p[k]>>]
      <3>1. back \in Seq(Nat \X Nat) /\ Rises(back, Peer, low, low + n)
        BY <1>5, <1>6, <1>7, AllEchoesRise
      <3>2. echoes' = [echoes EXCEPT ![Peer] = @ \o back]
        BY <2>1
      <3> HIDE DEF back
      <3>3. QED
        BY <3>1, <3>2
    <2>2. CASE \E lost \in 1..n : echoes' = [echoes EXCEPT ![Peer] = @ \o [k \in 1..(n - 1) |->
                  <<Peer, p[IF k < lost THEN k ELSE k + 1]>>]]
      <3>1. PICK lost \in 1..n : echoes' = [echoes EXCEPT ![Peer] = @ \o [k \in 1..(n - 1) |->
                  <<Peer, p[IF k < lost THEN k ELSE k + 1]>>]]
        BY <2>2
      <3> DEFINE back == [k \in 1..(n - 1) |-> <<Peer, p[IF k < lost THEN k ELSE k + 1]>>]
      <3>2. back \in Seq(Nat \X Nat) /\ Rises(back, Peer, low, low + n)
        BY <1>5, <1>6, <1>7, SomeEchoesRise
      <3>3. echoes' = [echoes EXCEPT ![Peer] = @ \o back]
        BY <3>1
      <3> HIDE DEF back
      <3>4. QED
        BY <3>2, <3>3
    <2>3. QED
      BY <1>4, <2>1, <2>2
  <1>9. QED
    BY <1>1, <1>2, <1>4, <1>5, <1>6, <1>8 DEF low

LEMMA ReceiveKeeps ==
  ASSUME ServerInv, EchoInv, Receive
  PROVE  ServerInv' /\ EchoInv'
  <1> DEFINE c == Peer
  <1>1. PICK rest \in Seq(Nat), back \in Seq(Nat \X Nat) :
               /\ inbox' = [inbox EXCEPT ![c] = rest]
               /\ Len(rest) <= Len(inbox[c])
               /\ LastSent(rest, sent[c])
               /\ echoes' = [echoes EXCEPT ![c] = @ \o back]
               /\ Rises(back, c, sent[c] - Len(inbox[c]), sent[c] - Len(rest))
    BY ReceiveEchoes
  <1>2. /\ c \in Client /\ doing = "receiving" /\ doing' = "receiving"
        /\ UNCHANGED <<peer, sent, queue, conn, interest, ready, slots, count, events>>
    BY ReceiveEchoes
  <1> HIDE DEF c
  <1>3. NothingLeaks' /\ ReadyOnce' /\ EventsHold' /\ Active' = Active /\ events' \in Seq(Event)
    BY <1>2, EventsGo DEF slotVars
  <1> DEFINE e == echoes[c]
             s == e \o back
  <1>4. s \in Seq(Nat \X Nat) /\ Rises(s, c, 0, sent[c] - Len(rest))
    <2>1. e \in Seq(Nat \X Nat) /\ sent[c] \in Nat /\ inbox[c] \in Seq(Nat)
      BY <1>2 DEF ServerInv, ServerTypes
    <2>2. Len(inbox[c]) \in Nat /\ Len(rest) \in Nat
      BY <2>1, LenProperties
    <2>3. Len(inbox[c]) <= sent[c] /\ Rises(e, c, 0, sent[c] - Len(inbox[c]))
      BY <1>2 DEF EchoInv, InboxIsLast, EchoesAreOlder, LastSent
    <2> DEFINE mid == sent[c] - Len(inbox[c])
               high == sent[c] - Len(rest)
    <2>4. 0 \in Int /\ mid \in Int /\ high \in Int /\ 0 <= mid /\ mid <= high
      BY <1>1, <2>1, <2>2, <2>3, SMTT(60)
    <2>5. Rises(e, c, 0, mid) /\ Rises(back, c, mid, high)
      BY <1>1, <2>3
    <2> DEFINE T == Nat \X Nat
    <2>6. e \in Seq(T) /\ back \in Seq(T) /\ \A x \in T : x[2] \in Nat
      BY <2>1
    <2> HIDE DEF e, mid, high, T
    <2>7. e \o back \in Seq(T) /\ Rises(e \o back, c, 0, high)
      BY <2>4, <2>5, <2>6, RisesOn
    <2>8. QED
      BY <2>7 DEF T, high
  <1>5. inbox' = [inbox EXCEPT ![c] = rest] /\ echoes' = [echoes EXCEPT ![c] = s]
    BY <1>1
  <1> HIDE DEF e, s
  <1>6. /\ inbox' \in [Client -> Seq(Nat)] /\ inbox'[c] = rest
        /\ \A d \in Client \ {c} : inbox'[d] = inbox[d]
    BY <1>2, <1>5 DEF ServerInv, ServerTypes
  <1>7. /\ echoes' \in [Client -> Seq(Nat \X Nat)] /\ echoes'[c] = s
        /\ \A d \in Client \ {c} : echoes'[d] = echoes[d]
    <2> DEFINE T == Seq(Nat \X Nat)
    <2>1. echoes \in [Client -> T] /\ s \in T
      BY <1>4 DEF ServerInv, ServerTypes
    <2> HIDE DEF T
    <2>2. /\ echoes' \in [Client -> T] /\ echoes'[c] = s
          /\ \A d \in Client \ {c} : echoes'[d] = echoes[d]
      BY <1>2, <1>5, <2>1
    <2>3. QED
      BY <2>2 DEF T
  <1>8. ServerInv'
    <2>1. ServerTypes'
      BY <1>2, <1>3, <1>6, <1>7 DEF ServerInv, ServerTypes, Event
    <2>2. ReceivesForSlot'
      BY <1>2 DEF ServerInv, ReceivesForSlot
    <2>3. QED
      BY <1>3, <2>1, <2>2 DEF ServerInv
  <1>9. sent' = sent
    BY <1>2
  <1>10. InboxIsLast'
    BY <1>1, <1>6, <1>9 DEF EchoInv, InboxIsLast
  <1>11. EchoesAreOlder'
    BY <1>4, <1>6, <1>7, <1>9 DEF EchoInv, EchoesAreOlder
  <1>12. QED
    BY <1>8, <1>10, <1>11 DEF EchoInv

\* Packets sent follow those that wait.
LEMMA SendKeepsEchoes ==
  ASSUME ServerInv, EchoInv, NEW c \in Client, Send(c)
  PROVE  EchoInv'
  <1> DEFINE s == Append(inbox[c], sent[c] + 1)
  <1>1. sent' = [sent EXCEPT ![c] = @ + 1] /\ inbox' = [inbox EXCEPT ![c] = s] /\ echoes' = echoes
    BY DEF Send
  <1>2. /\ LastSent(s, sent[c] + 1) /\ sent[c] + 1 - Len(s) = sent[c] - Len(inbox[c])
        /\ sent[c] \in Nat /\ Len(s) \in Nat
    <2>1. sent[c] \in Nat /\ inbox[c] \in Seq(Nat) /\ LastSent(inbox[c], sent[c])
      BY DEF ServerInv, ServerTypes, EchoInv, InboxIsLast
    <2>2. s \in Seq(Nat) /\ LastSent(s, sent[c] + 1) /\ sent[c] + 1 - Len(s) = sent[c] - Len(inbox[c])
      BY <2>1, AppendedToInbox
    <2> HIDE DEF s
    <2>3. QED
      BY <2>1, <2>2, LenProperties
  <1> HIDE DEF s
  <1>3. /\ sent'[c] = sent[c] + 1 /\ inbox'[c] = s
        /\ \A d \in Client \ {c} : sent'[d] = sent[d] /\ inbox'[d] = inbox[d]
    BY <1>1 DEF ServerInv, ServerTypes
  <1>4. InboxIsLast'
    BY <1>2, <1>3 DEF EchoInv, InboxIsLast
  <1>5. ASSUME NEW d \in Client
        PROVE  sent'[d] - Len(inbox'[d]) = sent[d] - Len(inbox[d])
    <2>1. CASE d = c
      BY <1>2, <1>3, <2>1
    <2>2. CASE d # c
      BY <1>3, <2>2
    <2>3. QED
      BY <2>1, <2>2
  <1>6. EchoesAreOlder'
    BY <1>1, <1>5 DEF EchoInv, EchoesAreOlder
  <1>7. QED
    BY <1>4, <1>6 DEF EchoInv

\* Packets a client takes back are not sent back.
LEMMA LeaveKeepsEchoes ==
  ASSUME ServerInv, EchoInv, NEW c \in Client, Leave(c)
  PROVE  EchoInv'
  <1>1. /\ sent' = sent /\ echoes' = echoes
        /\ inbox' = inbox \/ inbox' = [inbox EXCEPT ![c] = <<>>]
    BY DEF Leave
  <1>2. ASSUME NEW d \in Client
        PROVE  inbox'[d] = inbox[d] \/ inbox'[d] = <<>>
    BY <1>1 DEF ServerInv, ServerTypes
  <1>3. ASSUME NEW d \in Client
        PROVE  LastSent(inbox'[d], sent[d]) /\ Rises(echoes[d], d, 0, sent[d] - Len(inbox'[d]))
    <2>1. LastSent(inbox[d], sent[d]) /\ Rises(echoes[d], d, 0, sent[d] - Len(inbox[d]))
      BY DEF EchoInv, InboxIsLast, EchoesAreOlder
    <2>2. CASE inbox'[d] = inbox[d]
      BY <2>1, <2>2
    <2>3. CASE inbox'[d] = <<>>
      <3>1. sent[d] \in Nat /\ inbox[d] \in Seq(Nat)
        BY DEF ServerInv, ServerTypes
      <3>2. Len(inbox'[d]) = 0 /\ Len(inbox[d]) \in Nat
        BY <2>3, <3>1, LenProperties
      <3>3. LastSent(inbox'[d], sent[d])
        BY <3>1, <3>2 DEF LastSent
      <3> DEFINE T == Nat \X Nat
                 e == echoes[d]
                 mid == sent[d] - Len(inbox[d])
                 high == sent[d] - Len(inbox'[d])
      <3>4. 0 \in Int /\ mid \in Int /\ high \in Int /\ mid <= high
        BY <3>1, <3>2
      <3>5. e \in Seq(T) /\ Rises(e, d, 0, mid) /\ \A x \in T : x[2] \in Nat
        BY <2>1 DEF ServerInv, ServerTypes
      <3> HIDE DEF T, e, mid, high
      <3>6. Rises(e, d, 0, high)
        BY <3>4, <3>5, RisesHigher
      <3>7. QED
        BY <3>3, <3>6 DEF e, high
    <2>4. QED
      BY <1>2, <2>2, <2>3
  <1>4. QED
    BY <1>1, <1>3 DEF EchoInv, InboxIsLast, EchoesAreOlder

-----------------------------------------------------------------------------
(***************************************************************************)
(* The server's behaviours.                                                *)
(***************************************************************************)
LEMMA InitServerInv ==
  ASSUME InitServer
  PROVE  ServerInv /\ EchoInv
  <1>1. Active = {} /\ count = 0 /\ interest = {} /\ \A fd \in Fd : conn[fd] = NoClient
    BY DEF InitServer, Active, NoSlot
  <1>2. NothingLeaks
    BY <1>1, FS_EmptySet DEF NothingLeaks
  <1>3. /\ <<>> \in Seq(Nat) /\ <<>> \in Seq(Nat \X Nat) /\ <<>> \in Seq(Client) /\ <<>> \in Seq(Fd \cup {LISTEN})
        /\ <<>> \in Seq(Event)
    OBVIOUS
  <1>4. ServerTypes
    <2>1. slots \in [Index -> Slots]
      BY DEF InitServer, NoSlot, Slots
    <2>2. QED
      BY <1>1, <1>3, <2>1 DEF InitServer, ServerTypes
  <1>5. ReadyOnce /\ EventsHold /\ ReceivesForSlot
    BY DEF InitServer, ReadyOnce, Once, EventsHold, ReceivesForSlot
  <1>6. \A c \in Client : inbox[c] = <<>> /\ echoes[c] = <<>> /\ sent[c] = 0
    BY DEF InitServer
  <1>7. LastSent(<<>>, 0) /\ \A c \in Client : Rises(<<>>, c, 0, 0 - Len(<<>>))
    BY DEF LastSent, Rises
  <1>8. EchoInv
    BY <1>6, <1>7 DEF EchoInv, InboxIsLast, EchoesAreOlder
  <1>9. QED
    BY <1>2, <1>4, <1>5, <1>8 DEF ServerInv

\* A step that neither sends nor receives leaves the echoes and what waits alone.
LEMMA EchoesAlone ==
  ASSUME EchoInv, UNCHANGED <<sent, inbox, echoes>>
  PROVE  EchoInv'
  BY DEF EchoInv, InboxIsLast, EchoesAreOlder

LEMMA NextServerKeeps ==
  ASSUME ServerInv, EchoInv, [NextServer]_serverVars
  PROVE  ServerInv' /\ EchoInv'
  <1>1. ASSUME NEW c \in Client, Connect(c)
        PROVE  ServerInv' /\ EchoInv'
    BY <1>1, ConnectKeeps, EchoesAlone DEF Connect
  <1>2. ASSUME NEW c \in Client, Send(c)
        PROVE  ServerInv' /\ EchoInv'
    BY <1>2, SendKeeps, SendKeepsEchoes
  <1>3. ASSUME NEW c \in Client, Leave(c)
        PROVE  ServerInv' /\ EchoInv'
    BY <1>3, LeaveKeeps, LeaveKeepsEchoes
  <1>4. CASE EpollWait
    BY <1>4, EpollWaitKeeps, EchoesAlone DEF EpollWait, clientVars
  <1>5. CASE HandleEvent
    BY <1>5, HandleEventKeeps, EchoesAlone DEF HandleEvent, clientVars, socketVars
  <1>6. CASE AcceptsNoMore \/ AcceptFails \/ SaysSo \/ AcceptRefuses
    BY <1>6, AcceptFailsKeeps, EchoesAlone DEF AcceptsNoMore, AcceptFails, SaysSo, AcceptRefuses, AcceptsOn, clientVars, socketVars
  <1>7. CASE Accept
    BY <1>7, AcceptKeeps, EchoesAlone DEF Accept, clientVars
  <1>8. CASE Receive
    BY <1>8, ReceiveKeeps
  <1>9. CASE NoMoreData
    BY <1>9, NoMoreDataKeeps, EchoesAlone DEF NoMoreData, clientVars, socketVars
  <1>10. CASE Disconnected
    BY <1>10, DisconnectedKeeps, EchoesAlone DEF Disconnected, clientVars
  <1>11. CASE Stop
    BY <1>11, StopKeeps, EchoesAlone DEF Stop, clientVars
  <1>12. CASE UNCHANGED serverVars
    <2>1. UNCHANGED <<conn, interest, ready, slotVars, events, doing, peer, sent, inbox, echoes, queue>>
      BY <1>12 DEF serverVars, clientVars, socketVars
    <2>2. NothingLeaks' /\ ReadyOnce' /\ EventsHold' /\ Active' = Active /\ events' \in Seq(Event)
      BY <2>1, EventsGo
    <2>3. ServerTypes' /\ ReceivesForSlot'
      BY <2>1, <2>2 DEF ServerInv, ServerTypes, ReceivesForSlot, slotVars, Event
    <2>4. QED
      BY <2>1, <2>2, <2>3, EchoesAlone DEF ServerInv
  <1>13. QED
    BY <1>1, <1>2, <1>3, <1>4, <1>5, <1>6, <1>7, <1>8, <1>9, <1>10, <1>11, <1>12
       DEF NextServer, ServerStep

\* Rising numbers of one client are what EchoesOwnPackets asks for.
LEMMA EchoesAreOwn ==
  ASSUME ServerInv, EchoInv
  PROVE  EchoesOwnPackets
  <1> SUFFICES ASSUME NEW c \in Client, NEW k \in 1..Len(echoes[c])
               PROVE  /\ echoes[c][k][1] = c
                      /\ k > 1 => echoes[c][k - 1][2] < echoes[c][k][2]
    BY DEF EchoesOwnPackets
  <1>1. /\ \A j \in 1..Len(echoes[c]) : echoes[c][j][1] = c
        /\ \A j \in 2..Len(echoes[c]) : echoes[c][j - 1][2] < echoes[c][j][2]
    BY DEF EchoInv, EchoesAreOlder, Rises
  <1>2. k > 1 => k \in 2..Len(echoes[c])
    OBVIOUS
  <1>3. QED
    BY <1>1, <1>2

-----------------------------------------------------------------------------
(***************************************************************************)
(* The client program's behaviours.                                        *)
(***************************************************************************)
LEMMA ConfigTypes ==
  ASSUME config \in Config
  PROVE  config.auto_reconnect \in BOOLEAN /\ config.max_reconnect \in Int /\ config.send_data \in BOOLEAN
  <1>1. config \in [auto_reconnect : BOOLEAN, max_reconnect : Int, send_data : BOOLEAN]
    BY ConfigAssumption DEF ConfigAssumption
  <1>2. QED
    BY <1>1

LEMMA InitClientInv ==
  ASSUME TcpClient!InitClient
  PROVE  ClientInv
  <1> USE DEF TcpClient!InitClient
  <1>1. ClientTypes /\ TriesWhenNotConnected /\ TcpClient!OneSocket
    BY ConfigTypes DEF ClientTypes, TriesWhenNotConnected, TcpClient!OneSocket
  <1>2. CountsFailures /\ TcpClient!GivesUpInTime
    BY ConfigTypes DEF CountsFailures, TcpClient!GivesUpInTime
  <1>3. QED
    BY <1>1, <1>2 DEF ClientInv

\* A step that leaves the counts and the socket alone, and neither goes on to connect.
LEMMA ClientAlone ==
  ASSUME ClientInv,
         UNCHANGED <<config, calledFrom, connected, should_reconnect, reconnect_count, open, failures>>,
         at' = at \/ (at' = "trying" /\ at = "started") \/ (at' \in {"handling", "polling"} /\ at # "connecting")
  PROVE  ClientInv'
  <1>1. ClientTypes' /\ TriesWhenNotConnected' /\ TcpClient!OneSocket'
    BY DEF ClientInv, ClientTypes, TriesWhenNotConnected, TcpClient!OneSocket
  <1>2. config' = config /\ failures' = failures /\ should_reconnect' = should_reconnect
    OBVIOUS
  <1>3. CountsFailures'
    BY <1>2 DEF ClientInv, ClientTypes, CountsFailures
  <1>4. TcpClient!GivesUpInTime'
    BY <1>2 DEF ClientInv, TcpClient!GivesUpInTime
  <1>5. QED
    BY <1>1, <1>3, <1>4 DEF ClientInv

\* A failed attempt counts, and none is made after the last one allowed.
LEMMA FailedKeeps ==
  ASSUME ClientInv, at \in {"trying", "connecting"}, TcpClient!Failed, UNCHANGED <<config, calledFrom, connected>>,
         open' = IF at = "connecting" THEN open - 1 ELSE open
  PROVE  ClientInv'
  <1> DEFINE max == config.max_reconnect
             n == IF max >= 0 THEN reconnect_count + 1 ELSE 0
  <1>1. /\ reconnect_count' = n /\ should_reconnect' = (should_reconnect /\ ~(max >= 0 /\ n > max))
        /\ failures' = IF max >= 0 THEN failures + 1 ELSE 0
        /\ at' \in {"handling", "polling", "exited"}
    BY DEF TcpClient!Failed, TcpClient!GivesUp, TcpClient!Back
  <1>2. /\ max \in Int /\ config.auto_reconnect \in BOOLEAN /\ should_reconnect \in BOOLEAN
        /\ failures = reconnect_count /\ failures \in Nat
    BY ConfigTypes DEF ClientInv, ClientTypes, CountsFailures
  <1>3. calledFrom = "handle_timer" => should_reconnect
    BY DEF ClientInv, CountsFailures
  <1>4. calledFrom = "run_client" => failures = 0
    BY DEF ClientInv, CountsFailures
  <1>5. should_reconnect => config.auto_reconnect
    BY DEF ClientInv, CountsFailures
  <1>6. config.auto_reconnect => should_reconnect /\ (max >= 0 => failures <= max)
    BY <1>2, <1>3, <1>4 DEF ClientInv, ClientTypes, TcpClient!GivesUpInTime
  <1>7. ~config.auto_reconnect => failures = 0
    BY <1>3, <1>4, <1>5 DEF ClientInv, ClientTypes
  <1> HIDE DEF max
  <1>8. CountsFailures'
    <2>1. config'.max_reconnect = max /\ config'.auto_reconnect = config.auto_reconnect
      BY DEF max
    <2>2. QED
      BY <1>1, <1>2, <1>5, <2>1 DEF CountsFailures
  <1>9. TcpClient!GivesUpInTime'
    <2>1. config'.max_reconnect = max /\ config'.auto_reconnect = config.auto_reconnect
      BY DEF max
    <2>2. max >= 0 => failures' <= max + 1
      BY <1>1, <1>2, <1>6, <1>7
    <2>3. config.auto_reconnect => (~should_reconnect' <=> max >= 0 /\ failures' > max)
      BY <1>1, <1>2, <1>6
    <2>4. QED
      BY <2>1, <2>2, <2>3 DEF TcpClient!GivesUpInTime
  <1>10. ClientTypes' /\ TriesWhenNotConnected' /\ TcpClient!OneSocket'
    <2>1. ~connected /\ open = (IF at = "connecting" THEN 1 ELSE 0)
      BY DEF ClientInv, TriesWhenNotConnected, TcpClient!OneSocket
    <2>2. QED
      BY <1>1, <2>1 DEF ClientInv, ClientTypes, TriesWhenNotConnected, TcpClient!OneSocket
  <1>11. QED
    BY <1>8, <1>9, <1>10 DEF ClientInv

\* The steps of the client program.
LEMMA NextClientKeeps ==
  ASSUME ClientInv, [TcpClient!NextClient]_programVars
  PROVE  ClientInv'
  <1> DEFINE Same == UNCHANGED <<config, calledFrom, connected, should_reconnect, reconnect_count, open, failures>>
  <1>1. CASE TcpClient!SendInitial
    <2>1. calledFrom = "run_client"
      BY <1>1 DEF TcpClient!SendInitial, ClientInv, CountsFailures
    <2>2. Same /\ at' = "trying" /\ at = "started"
      BY <1>1, <2>1 DEF TcpClient!SendInitial, TcpClient!connection
    <2>3. QED
      BY <2>2, ClientAlone
  <1>2. CASE TcpClient!BeginConnect
    <2>1. /\ at = "trying" /\ UNCHANGED <<config, calledFrom, connected>>
          /\ \/ at' = "connecting" /\ open' = open + 1
                /\ UNCHANGED <<reconnect_count, should_reconnect, failures>>
             \/ TcpClient!Failed /\ UNCHANGED open
      BY <1>2 DEF TcpClient!BeginConnect
    <2>2. CASE TcpClient!Failed /\ UNCHANGED open
      BY <2>1, <2>2, FailedKeeps
    <2>3. CASE /\ at' = "connecting" /\ open' = open + 1
               /\ UNCHANGED <<reconnect_count, should_reconnect, failures>>
      <3>1. open = 0 /\ ~connected
        BY <2>1 DEF ClientInv, TriesWhenNotConnected, TcpClient!OneSocket
      <3>2. ClientTypes' /\ TriesWhenNotConnected' /\ TcpClient!OneSocket'
        BY <2>1, <2>3, <3>1 DEF ClientInv, ClientTypes, TriesWhenNotConnected, TcpClient!OneSocket
      <3>3. CountsFailures'
        BY <2>1, <2>3 DEF ClientInv, CountsFailures
      <3>4. TcpClient!GivesUpInTime'
        BY <2>1, <2>3 DEF ClientInv, TcpClient!GivesUpInTime
      <3>5. QED
        BY <3>2, <3>3, <3>4 DEF ClientInv
    <2>4. QED
      BY <2>1, <2>2, <2>3
  <1>3. CASE TcpClient!ConnectFails
    <2>1. /\ at = "connecting" /\ TcpClient!Failed /\ open' = open - 1
          /\ UNCHANGED <<config, calledFrom, connected>>
      BY <1>3 DEF TcpClient!ConnectFails, TcpClient!CloseSocket
    <2>2. QED
      BY <2>1, FailedKeeps
  <1>4. CASE TcpClient!ConnectSucceeds
    <2>1. /\ at = "connecting" /\ at' \in {"handling", "polling"} /\ connected' = TRUE
          /\ reconnect_count' = 0 /\ failures' = 0 /\ UNCHANGED <<config, calledFrom, should_reconnect, open>>
      BY <1>4 DEF TcpClient!ConnectSucceeds
    <2>2. ClientTypes' /\ TriesWhenNotConnected' /\ TcpClient!OneSocket'
      BY <2>1 DEF ClientInv, ClientTypes, TriesWhenNotConnected, TcpClient!OneSocket
    <2>3. CountsFailures'
      BY <2>1 DEF ClientInv, CountsFailures
    <2>4. config.auto_reconnect => should_reconnect
      <3>1. CASE calledFrom = "handle_timer"
        BY <2>1, <3>1 DEF ClientInv, CountsFailures
      <3>2. CASE calledFrom = "run_client"
        <4>1. failures = 0 /\ config.max_reconnect \in Int
          BY <2>1, <3>2, ConfigTypes DEF ClientInv, ClientTypes, CountsFailures
        <4>2. ~(config.max_reconnect >= 0 /\ failures > config.max_reconnect)
          BY <4>1
        <4>3. QED
          BY <4>2 DEF ClientInv, TcpClient!GivesUpInTime
      <3>3. QED
        BY <3>1, <3>2 DEF ClientInv, ClientTypes
    <2>5. TcpClient!GivesUpInTime'
      <3>1. config' = config /\ failures' = 0 /\ should_reconnect' = should_reconnect
        BY <2>1
      <3>2. config.max_reconnect \in Int
        BY ConfigTypes DEF ClientInv, ClientTypes
      <3>3. QED
        BY <2>4, <3>1, <3>2 DEF TcpClient!GivesUpInTime
    <2>6. QED
      BY <2>2, <2>3, <2>5 DEF ClientInv
  <1>5. CASE TcpClient!EpollWait
    <2>1. Same /\ at' = "handling" /\ at = "polling"
      BY <1>5 DEF TcpClient!EpollWait
    <2>2. QED
      BY <2>1, ClientAlone
  <1>6. CASE TcpClient!HandleTimer
    <2>1. /\ at = "handling" /\ UNCHANGED <<config, connected, should_reconnect, reconnect_count, open, failures>>
          /\ \/ at' = "trying" /\ calledFrom' = "handle_timer" /\ ~connected /\ should_reconnect
             \/ at' = at /\ calledFrom' = calledFrom
      BY <1>6 DEF TcpClient!HandleTimer, TcpClient!TriesAgain, TcpClient!connection
    <2>2. CASE at' = at /\ calledFrom' = calledFrom
      BY <2>1, <2>2, ClientAlone
    <2>3. CASE at' = "trying" /\ calledFrom' = "handle_timer" /\ ~connected /\ should_reconnect
      <3>1. ClientTypes' /\ TriesWhenNotConnected' /\ TcpClient!OneSocket'
        BY <2>1, <2>3 DEF ClientInv, ClientTypes, TriesWhenNotConnected, TcpClient!OneSocket
      <3>2. CountsFailures'
        BY <2>1, <2>3 DEF ClientInv, CountsFailures
      <3>3. TcpClient!GivesUpInTime'
        BY <2>1, <2>3 DEF ClientInv, TcpClient!GivesUpInTime
      <3>4. QED
        BY <3>1, <3>2, <3>3 DEF ClientInv
    <2>4. QED
      BY <2>1, <2>2, <2>3
  <1>7. CASE TcpClient!HandleSocket
    <2>1. /\ at = "handling" /\ UNCHANGED <<config, at, calledFrom, should_reconnect, reconnect_count, failures>>
          /\ \/ connected /\ connected' = FALSE /\ open' = open - 1
             \/ UNCHANGED <<connected, open>>
      BY <1>7 DEF TcpClient!HandleSocket, TcpClient!ConnectedAfterDisconnect, TcpClient!CloseSocket
    <2>2. CASE UNCHANGED <<connected, open>>
      BY <2>1, <2>2, ClientAlone
    <2>3. CASE connected /\ connected' = FALSE /\ open' = open - 1
      <3>0. open' = 0
        BY <2>3 DEF ClientInv, TcpClient!OneSocket
      <3>1. ClientTypes' /\ TriesWhenNotConnected' /\ TcpClient!OneSocket'
        <4>0. connected' = FALSE /\ UNCHANGED <<config, at, calledFrom, should_reconnect>>
          BY <2>1, <2>3
        <4>1. ClientTypes' /\ TriesWhenNotConnected'
          BY <3>0, <4>0 DEF ClientInv, ClientTypes, TriesWhenNotConnected
        <4>2. TcpClient!OneSocket'
          BY <2>1, <2>3, <3>0 DEF TcpClient!OneSocket
        <4>3. QED
          BY <4>1, <4>2
      <3>2. CountsFailures'
        BY <2>1, <2>3 DEF ClientInv, CountsFailures
      <3>3. TcpClient!GivesUpInTime'
        BY <2>1, <2>3 DEF ClientInv, TcpClient!GivesUpInTime
      <3>4. QED
        BY <3>1, <3>2, <3>3 DEF ClientInv
    <2>4. QED
      BY <2>1, <2>2, <2>3
  <1>8. CASE TcpClient!EndOfBatch
    <2>1. Same /\ at' = "polling" /\ at = "handling"
      BY <1>8 DEF TcpClient!EndOfBatch, TcpClient!connection
    <2>2. QED
      BY <2>1, ClientAlone
  <1>9. CASE TcpClient!ServerChanges \/ TcpClient!Answered \/ TcpClient!ServerActs \/ TcpClient!Tick
             \/ UNCHANGED programVars
    <2>1. Same /\ at' = at
      BY <1>9 DEF TcpClient!ServerChanges, TcpClient!Answered, TcpClient!ServerActs, TcpClient!Tick,
                  TcpClient!connection, programVars
    <2>2. QED
      BY <2>1, ClientAlone
  <1>10. CASE TcpClient!Stop
    <2>1. /\ at = "polling" /\ at' = "exited" /\ open' = (IF connected THEN open - 1 ELSE open)
          /\ connected' = FALSE /\ UNCHANGED <<config, calledFrom, should_reconnect, reconnect_count, failures>>
      BY <1>10 DEF TcpClient!Stop, TcpClient!CloseSocket
    <2>0. open' = 0
      <3>1. connected \in BOOLEAN /\ open = (IF connected THEN 1 ELSE 0)
        BY <2>1 DEF ClientInv, ClientTypes, TcpClient!OneSocket
      <3>2. QED
        BY <2>1, <3>1
    <2>2. ClientTypes' /\ TriesWhenNotConnected' /\ TcpClient!OneSocket'
      <3>0. connected' = FALSE /\ at' = "exited" /\ UNCHANGED <<config, calledFrom, should_reconnect>>
        BY <2>1
      <3>1. ClientTypes' /\ TriesWhenNotConnected'
        BY <2>0, <3>0 DEF ClientInv, ClientTypes, TriesWhenNotConnected
      <3>2. TcpClient!OneSocket'
        BY <2>0, <2>1 DEF TcpClient!OneSocket
      <3>3. QED
        BY <3>1, <3>2
    <2>3. CountsFailures'
      BY <2>1 DEF ClientInv, CountsFailures
    <2>4. TcpClient!GivesUpInTime'
      BY <2>1 DEF ClientInv, TcpClient!GivesUpInTime
    <2>5. QED
      BY <2>2, <2>3, <2>4 DEF ClientInv
  <1>11. QED
    BY <1>1, <1>2, <1>3, <1>4, <1>5, <1>6, <1>7, <1>8, <1>9, <1>10
       DEF TcpClient!NextClient, TcpClient!ClientStep

-----------------------------------------------------------------------------
(***************************************************************************)
(* One of the two programs runs.                                           *)
(***************************************************************************)
TcpInv == ServerInv /\ EchoInv /\ (~ServerRuns => ClientInv)

\* The invariant holds whichever program runs.
THEOREM TcpInvariant == Spec => []TcpInv
  <1>1. Init => TcpInv
    BY InitServerInv, InitClientInv DEF Init, TcpInv, ServerRuns
  <1>2. TcpInv /\ [Next]_tcpVars => TcpInv'
    <2> SUFFICES ASSUME TcpInv, [Next]_tcpVars PROVE TcpInv'
      OBVIOUS
    <2>1. [NextServer]_serverVars
      BY DEF Next, tcpVars
    <2>2. ServerInv' /\ EchoInv'
      BY <2>1, NextServerKeeps DEF TcpInv
    <2>3. CASE ServerRuns
      BY <2>2, <2>3 DEF TcpInv, ServerRuns, Next, tcpVars, programVars
    <2>4. CASE ~ServerRuns
      <3>1. [TcpClient!NextClient]_programVars /\ ClientInv
        BY <2>4 DEF Next, tcpVars, TcpInv
      <3>2. ClientInv'
        BY <3>1, NextClientKeeps
      <3>3. QED
        BY <2>2, <3>2 DEF TcpInv
    <2>5. QED
      BY <2>3, <2>4
  <1>3. QED
    BY <1>1, <1>2, PTL DEF Spec

\* An event is handled for the connection that raised it, although slots and descriptors are used
\* again (hdlc_tcp_server.c:226).
THEOREM EventsAreForTheirClient == Spec => []EventsReachTheirClient
  <1>1. TcpInv => EventsReachTheirClient
    BY ReceivesFromPeer DEF TcpInv, EventsReachTheirClient
  <1>2. QED
    BY <1>1, TcpInvariant, PTL

\* A client gets back its own packets only, in the order it sent them (hdlc_echo_callback).
THEOREM EchoesGoBack == Spec => []EchoesOwnPackets
  <1>1. TcpInv => EchoesOwnPackets
    BY EchoesAreOwn DEF TcpInv
  <1>2. QED
    BY <1>1, TcpInvariant, PTL

\* Neither program loses or keeps a descriptor: the server's belong to the active slots, one each,
\* which client_count counts (add_client, remove_client), and the client has one socket at most.
THEOREM DescriptorsAreKept == Spec => []NoDescriptorLeaks
  <1>1. TcpInv => NoDescriptorLeaks
    BY DEF TcpInv, ServerInv, ClientInv, NoDescriptorLeaks
  <1>2. QED
    BY <1>1, TcpInvariant, PTL

\* With a limit the client program gives up after exactly max_reconnect repetitions, and without
\* one never (try_connect, handle_timer): the safety part of ReconnectsAsTold.
THEOREM ClientGivesUpInTime == Spec => [](~ServerRuns => TcpClient!GivesUpInTime)
  <1>1. TcpInv => (~ServerRuns => TcpClient!GivesUpInTime)
    BY DEF TcpInv, ClientInv
  <1>2. QED
    BY <1>1, TcpInvariant, PTL
=============================================================================
