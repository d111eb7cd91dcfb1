-------------------------- MODULE ServerLoopProof --------------------------
(***************************************************************************)
(* Proofs about ServerLoop, for any connections, lines, table size and     *)
(* number of descriptors: the invariant IInv, one step per action, the     *)
(* safety properties that follow from it, and how the server may end.      *)
(***************************************************************************)
EXTENDS ServerLoop, WellFoundedInduction, TLAPS

USE CommandConstants, ServerConstants

-----------------------------------------------------------------------------
(* Operators *)

(* Any set of numbers has a least one: what the choices of a slot and of a *)
(* descriptor rest on.                                                     *)
LEMMA Least ==
  ASSUME NEW T \in SUBSET Nat, T # {}
  PROVE  \E x \in T : \A y \in T : x <= y
<1> DEFINE R == {p \in Nat \X Nat : p[1] < p[2]}
<1>1. IsWellFoundedOn(R, Nat)
  BY NatLessThanWellFounded DEF OpToRel
<1>2. PICK x \in T : \A y \in T : ~(<<y, x>> \in R)
  <2> HIDE DEF R
  <2>1. QED
    BY <1>1, WFMin
<1>3. ASSUME NEW y \in T PROVE x <= y
  <2>1. x \in Nat /\ y \in Nat
    OBVIOUS
  <2>2. y < x => <<y, x>> \in R
    BY <2>1, SMT
  <2>3. QED
    BY <1>2, <2>1, <2>2
<1>4. QED
  BY <1>3

(* accept's descriptor is free. *)
LEMMA NewFdIsFree == FreeFds # {} => NewFd \in FreeFds
<1> SUFFICES ASSUME FreeFds # {} PROVE NewFd \in FreeFds
  OBVIOUS
<1>1. FreeFds \in SUBSET Nat
  BY DEF FreeFds, Fd
<1>2. \E g \in FreeFds : \A h \in FreeFds : g <= h
  BY <1>1, Least
<1>3. QED
  BY <1>2 DEF NewFd

(* A descriptor is added in a free slot, or the table is full. *)
LEMMA Added ==
  ASSUME NEW f, AddClient(f)
  PROVE  \/ /\ \A i \in Slot : client_fds[i] # NoFd
            /\ client_fds' = client_fds
         \/ \E i \in Slot : /\ client_fds[i] = NoFd
                            /\ client_fds' = [client_fds EXCEPT ![i] = f]
<1> DEFINE free == {i \in Slot : client_fds[i] = NoFd}
           least == CHOOSE i \in free : \A j \in free : i <= j
<1>1. CASE free = {}
  BY <1>1 DEF AddClient
<1>2. CASE free # {}
  <2>1. free \in SUBSET Nat
    BY DEF Slot
  <2>2. \E i \in free : \A j \in free : i <= j
    BY <1>2, <2>1, Least
  <2>3. least \in free
    BY <2>2
  <2>4. client_fds' = [client_fds EXCEPT ![least] = f]
    BY <1>2 DEF AddClient
  <2>5. QED
    BY <2>3, <2>4
<1>3. QED
  BY <1>1, <1>2

(* A descriptor is removed from one slot that holds it, if there is one. *)
LEMMA Removed ==
  ASSUME NEW f, RemoveClient(f)
  PROVE  \/ ~Listed(f) /\ client_fds' = client_fds
         \/ \E i \in Slot : /\ client_fds[i] = f
                            /\ client_fds' = [client_fds EXCEPT ![i] = NoFd]
<1> DEFINE holding == {i \in Slot : client_fds[i] = f}
           least == CHOOSE i \in holding : \A j \in holding : i <= j
<1>1. CASE holding = {}
  BY <1>1 DEF RemoveClient, Listed
<1>2. CASE holding # {}
  <2>1. holding \in SUBSET Nat
    BY DEF Slot
  <2>2. \E i \in holding : \A j \in holding : i <= j
    BY <1>2, <2>1, Least
  <2>3. least \in holding
    BY <2>2
  <2>4. client_fds' = [client_fds EXCEPT ![least] = NoFd]
    BY <1>2 DEF RemoveClient
  <2>5. QED
    BY <2>3, <2>4
<1>3. QED
  BY <1>1, <1>2

(* The command of a table entry, and how its arguments are read. *)
LEMMA SpecFields ==
  \A d, a, c, lo, hi :
    /\ Plain(d, a, c).arg = "NONE" /\ Plain(d, a, c).command = c
    /\ WithInt(d, a, c, lo, hi).arg = "INT"
    /\ WithInt(d, a, c, lo, hi).command = c
    /\ WithString(d, a, c).arg = "STRING" /\ WithString(d, a, c).command = c
BY DEF Plain, WithInt, WithString, Entry

(* command_parse makes a command of the table or a rejection of any line. *)
LEMMA ParsedType ==
  ASSUME NEW l \in Seq(Word)
  PROVE  command_parse(l).type \in CommandType \cup Rejection
<1>1. \A c, v, str : Parsed(c, v, str).type = c /\ Rejected(c).type = c
  BY DEF Parsed, Rejected
<1>2. {"EMPTY", "INVALID", "INVALID_VALUE"} \subseteq Rejection
  BY DEF Rejection
<1>3. \A s \in command_specs :
        s.arg \in {"NONE", "INT", "STRING"} /\ s.command \in CommandType
  BY SpecFields DEF command_specs, CommandType
<1>4. ASSUME NEW s \in command_specs
      PROVE  WithArguments(s, l).type \in CommandType \cup Rejection
  <2>1. CASE s.arg = "NONE"
    BY <2>1, <1>1, <1>2, <1>3 DEF WithArguments
  <2>2. CASE s.arg = "INT"
    BY <2>2, <1>1, <1>2, <1>3 DEF WithArguments
  <2>3. CASE s.arg = "STRING"
    BY <2>3, <1>1, <1>2, <1>3 DEF WithArguments
  <2>4. QED
    BY <2>1, <2>2, <2>3, <1>3
<1>5. Matching(l) # {} => (CHOOSE s \in Matching(l) : TRUE) \in command_specs
  BY DEF Matching
<1>6. QED
  BY <1>1, <1>2, <1>4, <1>5 DEF command_parse

-----------------------------------------------------------------------------
(* The invariant *)

(* The invariant without resets and without how the server ends. *)
BaseInv == TypeOK /\ DescriptorsAreCurrent /\ AcceptInv /\ ClientInv /\ CountInv

LEMMA InitBase == Init => BaseInv
<1> SUFFICES ASSUME Init PROVE BaseInv
  OBVIOUS
<1>1. TypeOK
  <2>1. type \in CommandType \cup Rejection /\ request \in Seq(Word)
    BY DEF Init, Rejection
  <2>2. /\ client_fds \in [Slot -> Fd \cup {NoFd}]
        /\ fd \in [Connection -> Fd \cup {NoFd}]
        /\ inbox \in [Connection -> Seq(Word)]
    BY DEF Init
  <2>3. /\ lines \in [Connection -> Nat] /\ requests \in [Connection -> Nat]
        /\ answered \in [Connection -> Nat] /\ lost \in [Connection -> Nat]
        /\ \A c \in Connection : lines[c] <= MaxLines[c]
    BY DEF Init
  <2>4. QED
    BY <2>1, <2>2, <2>3 DEF Init, TypeOK, ServerPC, Reset
<1>2. DescriptorsAreCurrent /\ AcceptInv /\ ClientInv /\ CountInv
  BY DEF Init, DescriptorsAreCurrent, AcceptInv, ClientInv, CountInv, Open
<1>3. QED
  BY <1>1, <1>2 DEF BaseInv

(* What the clients and the kernel do. *)
LEMMA ConnectStep == ASSUME BaseInv, NEW c \in Connection, Connect(c) PROVE BaseInv'
<1> USE DEF Connect, loopVars, netVars, countVars, endVars, BaseInv
<1>1. TypeOK'
  BY DEF TypeOK
<1>2. DescriptorsAreCurrent' /\ ClientInv'
  BY DEF DescriptorsAreCurrent, ClientInv, Open, Listed
<1>3. AcceptInv' /\ CountInv'
  BY DEF AcceptInv, CountInv, Open, TypeOK
<1>4. QED
  BY <1>1, <1>2, <1>3

LEMMA SendLineStep ==
  ASSUME BaseInv, NEW c \in Connection, NEW l \in Line, SendLine(c, l)
  PROVE  BaseInv'
<1> USE DEF SendLine, loopVars, netVars, countVars, endVars, BaseInv
<1>1. TypeOK'
  <2>1. inbox[c] \o l \in Seq(Word)
    BY DEF TypeOK
  <2>2. lines[c] + 1 \in Nat /\ lines[c] + 1 <= MaxLines[c]
    BY DEF TypeOK
  <2>3. QED
    BY <2>1, <2>2 DEF TypeOK
<1>2. DescriptorsAreCurrent' /\ AcceptInv' /\ ClientInv'
  BY DEF DescriptorsAreCurrent, AcceptInv, ClientInv, Open, Listed
<1>3. CountInv'
  BY DEF CountInv, TypeOK
<1>4. QED
  BY <1>1, <1>2, <1>3

LEMMA PeerClosesStep ==
  ASSUME BaseInv, NEW c \in Connection, PeerCloses(c) PROVE BaseInv'
<1> USE DEF PeerCloses, loopVars, netVars, countVars, endVars, BaseInv
<1>1. TypeOK'
  BY DEF TypeOK, Reset
<1>2. DescriptorsAreCurrent' /\ AcceptInv' /\ ClientInv' /\ CountInv'
  BY DEF DescriptorsAreCurrent, AcceptInv, ClientInv, CountInv, Open, Listed,
    TypeOK
<1>3. QED
  BY <1>1, <1>2

LEMMA TerminateStep == ASSUME BaseInv, Terminate PROVE BaseInv'
<1> USE DEF Terminate, loopVars, netVars, countVars, endVars, BaseInv
<1>1. pc' \in {pc, "failed", "wait"} /\ (pc' # pc => pc = "wait")
  OBVIOUS
<1>2. TypeOK'
  BY <1>1 DEF TypeOK, ServerPC, EndPC
<1>3. DescriptorsAreCurrent' /\ AcceptInv' /\ ClientInv' /\ CountInv'
  BY <1>1 DEF DescriptorsAreCurrent, AcceptInv, ClientInv, CountInv, Open,
    Listed
<1>4. QED
  BY <1>2, <1>3

(* The loop, its batch of events, and the end of the server. *)
LEMMA LoopStep ==
  ASSUME BaseInv,
         LoopCheck \/ EnterWait \/ WaitReturns \/ BatchDone \/ AcceptFails
           \/ Cleanup
  PROVE  BaseInv'
<1> USE DEF netVars, countVars, endVars, BaseInv
<1>1. pc \notin {"exec", "reply"} /\ client = Nobody
  BY DEF LoopCheck, EnterWait, WaitReturns, BatchDone, AcceptFails, Cleanup,
    ClientInv
<1>2. /\ pc' \notin {"exec", "reply", "killed"}
      /\ pc' \in ServerPC \cup EndPC /\ pc # "killed"
      /\ devices' \in {devices, "down"}
      /\ UNCHANGED <<running, client_fds, client, request, type>>
      /\ UNCHANGED <<netVars, countVars, endVars>>
  BY DEF LoopCheck, EnterWait, WaitReturns, BatchDone, AcceptFails, Cleanup,
    ServerPC, EndPC
<1>3. /\ batch' \subseteq Connection \cup {Listener}
      /\ \A c \in batch' \ {Listener} : Open(c)
  BY DEF LoopCheck, EnterWait, WaitReturns, BatchDone, AcceptFails, Cleanup,
    Ready, TypeOK, DescriptorsAreCurrent
<1>4. TypeOK'
  BY <1>2, <1>3 DEF TypeOK
<1>5. DescriptorsAreCurrent'
  BY <1>2, <1>3 DEF DescriptorsAreCurrent, Open, Listed
<1>6. AcceptInv' /\ ClientInv' /\ CountInv'
  BY <1>1, <1>2 DEF AcceptInv, ClientInv, CountInv, Open
<1>7. QED
  BY <1>4, <1>5, <1>6

(* A new connection takes a descriptor no other has, and a free slot or none. *)
LEMMA AcceptStep == ASSUME BaseInv, NEW c \in Connection, Accept(c) PROVE BaseInv'
<1> USE DEF BaseInv, countVars
<1>1. PICK f \in Fd :
        f = NewFd /\ f # NoFd /\ \A d \in Connection : fd[d] # f
  BY NewFdIsFree DEF Accept, FreeFds, Fd, NoFd
<1>2. /\ fd' = [fd EXCEPT ![c] = f] /\ AddClient(f) /\ c \in backlog
      /\ ~Open(c) /\ c \notin crowded /\ peer[c] # "new"
      /\ pc = "dispatch" /\ client = Nobody
      /\ backlog' = backlog \ {c} /\ batch' = batch \ {Listener}
      /\ UNCHANGED <<running, pc, client, request, type, devices, inbox, peer,
                     reset, countVars, term, quit>>
  BY <1>1 DEF Accept, AcceptInv, ClientInv
<1>3. \/ /\ \A i \in Slot : client_fds[i] # NoFd
         /\ client_fds' = client_fds /\ crowded' = crowded \cup {c}
      \/ \E i \in Slot :
           /\ client_fds[i] = NoFd /\ crowded' = crowded
           /\ client_fds' = [client_fds EXCEPT ![i] = f]
  <2>1. crowded' = IF \A i \in Slot : client_fds[i] # NoFd
                     THEN crowded \cup {c} ELSE crowded
    BY DEF Accept
  <2>2. QED
    BY <1>2, <2>1, Added
<1>4. TypeOK'
  <2>1. client_fds' \in [Slot -> Fd \cup {NoFd}] /\ crowded' \subseteq Connection
    BY <1>1, <1>3, ZenonT(60) DEF TypeOK
  <2>2. QED
    BY <1>1, <1>2, <2>1, SMTT(30) DEF TypeOK
<1>5. DescriptorsAreCurrent'
  <2>1. \A d \in Connection : fd'[d] = IF d = c THEN f ELSE fd[d]
    BY <1>2 DEF TypeOK
  <2>2. \A i \in Slot : client_fds[i] # f
    BY <1>1 DEF DescriptorsAreCurrent, TypeOK
  <2>3. CASE /\ \A i \in Slot : client_fds[i] # NoFd
             /\ client_fds' = client_fds /\ crowded' = crowded \cup {c}
    BY <1>1, <1>2, <2>1, <2>2, <2>3 DEF DescriptorsAreCurrent, Open, Listed
  <2>4. ASSUME NEW i \in Slot, client_fds[i] = NoFd, crowded' = crowded,
               client_fds' = [client_fds EXCEPT ![i] = f]
        PROVE  DescriptorsAreCurrent'
    <3>1. \A j \in Slot : client_fds'[j] = IF j = i THEN f ELSE client_fds[j]
      BY <2>4 DEF TypeOK
    <3>2. \A g : g \notin {NoFd, f} => (Listed(g)' <=> Listed(g))
      BY <2>4, <3>1 DEF Listed
    <3>3. Listed(f)'
      BY <3>1 DEF Listed
    <3>4. QED
      BY <1>1, <1>2, <2>1, <2>2, <2>4, <3>1, <3>2, <3>3
        DEF DescriptorsAreCurrent, Open
  <2>5. QED
    BY <1>3, <2>3, <2>4
<1>6. AcceptInv' /\ ClientInv' /\ CountInv'
  BY <1>1, <1>2, <1>3 DEF AcceptInv, ClientInv, CountInv, Open, TypeOK
<1>7. QED
  BY <1>4, <1>5, <1>6

LEMMA AcceptUnwatchedStep ==
  ASSUME BaseInv, NEW c \in Connection, AcceptUnwatched(c) PROVE BaseInv'
<1> USE DEF AcceptUnwatched, countVars, endVars, BaseInv
<1>1. TypeOK'
  BY DEF TypeOK
<1>2. DescriptorsAreCurrent' /\ ClientInv'
  BY DEF DescriptorsAreCurrent, ClientInv, Open, Listed
<1>3. AcceptInv' /\ CountInv'
  BY DEF AcceptInv, CountInv, Open, TypeOK
<1>4. QED
  BY <1>1, <1>2, <1>3

(* A request is taken; a connection is closed and its slot freed. *)
LEMMA ReceiveStep == ASSUME BaseInv, NEW c \in Connection, Receive(c) PROVE BaseInv'
<1> USE DEF Receive, countVars, endVars, BaseInv
<1>1. client = Nobody /\ c # Nobody /\ c # Listener
  BY DEF ClientInv
<1>2. TypeOK'
  BY DEF TypeOK, ServerPC
<1>3. DescriptorsAreCurrent' /\ AcceptInv' /\ ClientInv'
  BY <1>1 DEF DescriptorsAreCurrent, AcceptInv, ClientInv, Open, Listed
<1>4. CountInv'
  BY <1>1, SMTT(30) DEF CountInv, TypeOK
<1>5. QED
  BY <1>2, <1>3, <1>4

LEMMA HangupStep == ASSUME BaseInv, NEW c \in Connection, Hangup(c) PROVE BaseInv'
<1> USE DEF countVars, endVars, BaseInv
<1>1. /\ pc = "dispatch" /\ client = Nobody /\ c \in batch /\ c # Listener
      /\ fd' = [fd EXCEPT ![c] = NoFd] /\ batch' = batch \ {c}
      /\ fd[c] # NoFd /\ Open(c)
      /\ UNCHANGED <<running, pc, client, request, type, devices, backlog>>
      /\ UNCHANGED <<inbox, peer, reset, countVars, endVars>>
  BY DEF Hangup, ClientInv, DescriptorsAreCurrent, Open
<1>2. \/ ~Listed(fd[c]) /\ client_fds' = client_fds
      \/ \E i \in Slot : /\ client_fds[i] = fd[c]
                         /\ client_fds' = [client_fds EXCEPT ![i] = NoFd]
  BY Removed DEF Hangup
<1>3. TypeOK'
  <2>1. client_fds' \in [Slot -> Fd \cup {NoFd}]
    BY <1>2 DEF TypeOK
  <2>2. QED
    BY <1>1, <2>1 DEF TypeOK
<1>4. DescriptorsAreCurrent'
  <2>1. \A d \in Connection : fd'[d] = IF d = c THEN NoFd ELSE fd[d]
    BY <1>1 DEF TypeOK
  <2>2. \A i \in Slot : client_fds'[i] =
          IF client_fds[i] = fd[c] THEN NoFd ELSE client_fds[i]
    BY <1>1, <1>2 DEF TypeOK, DescriptorsAreCurrent, Listed
  <2>3. \A g : g \notin {NoFd, fd[c]} => (Listed(g)' <=> Listed(g))
    BY <2>2 DEF Listed
  <2>4. \A d \in Connection : d # c /\ Open(d) => fd[d] # fd[c]
    BY DEF DescriptorsAreCurrent
  <2>5. QED
    BY <1>1, <2>1, <2>2, <2>3, <2>4 DEF DescriptorsAreCurrent, Open
<1>5. AcceptInv' /\ ClientInv' /\ CountInv'
  BY <1>1 DEF AcceptInv, ClientInv, CountInv, Open, TypeOK
<1>6. QED
  BY <1>3, <1>4, <1>5

(* A request is executed, and answered if its client is in the table. *)
LEMMA ExecuteStep == ASSUME BaseInv, Execute PROVE BaseInv'
<1> USE DEF Execute, netVars, countVars, BaseInv
<1>1. TypeOK'
  <2>1. type' \in CommandType \cup Rejection
    BY ParsedType DEF TypeOK
  <2>2. running' \in BOOLEAN /\ quit' \in BOOLEAN
    BY DEF TypeOK
  <2>3. QED
    BY <2>1, <2>2 DEF TypeOK, ServerPC
<1>2. DescriptorsAreCurrent' /\ AcceptInv' /\ ClientInv' /\ CountInv'
  BY DEF DescriptorsAreCurrent, AcceptInv, ClientInv, CountInv, Open, Listed
<1>3. QED
  BY <1>1, <1>2

LEMMA ReplyStep ==
  ASSUME BaseInv, Reply \/ SendFails \/ ReplyNobody \/ ReplyKills
  PROVE  BaseInv'
<1> USE DEF BaseInv
<1>1. /\ client \in Connection /\ Open(client) /\ pc = "reply"
      /\ Listed(fd[client]) <=> client \notin crowded
  BY DEF Reply, SendFails, ReplyNobody, ReplyKills, ClientInv, TypeOK,
    DescriptorsAreCurrent
<1>2. /\ client' = Nobody /\ request' = << >> /\ type' = "EMPTY"
      /\ pc' \in {"dispatch", "killed"}
      /\ UNCHANGED <<running, client_fds, batch, devices, backlog, fd, inbox>>
      /\ UNCHANGED <<peer, lines, requests, crowded, term, quit>>
  BY DEF Reply, SendFails, ReplyNobody, ReplyKills, RequestDone, endVars
<1>3. /\ answered' \in [Connection -> Nat] /\ lost' \in [Connection -> Nat]
      /\ \A c \in Connection \ {client} :
           answered'[c] = answered[c] /\ lost'[c] = lost[c]
      /\ answered'[client] + lost'[client] <= requests[client]
      /\ client \notin crowded =>
           answered'[client] + lost'[client] = requests[client]
  <2>1. /\ answered \in [Connection -> Nat] /\ requests \in [Connection -> Nat]
        /\ lost \in [Connection -> Nat]
    BY DEF TypeOK
  <2>2. /\ answered[client] + lost[client] < requests[client]
        /\ client \notin crowded =>
             requests[client] = answered[client] + lost[client] + 1
    BY <1>1 DEF CountInv
  <2>3. CASE Reply
    <3>1. /\ answered' = [answered EXCEPT ![client] = answered[client] + 1]
          /\ lost' = lost
      BY <2>3 DEF Reply
    <3>2. /\ answered'[client] = answered[client] + 1 /\ lost'[client] = lost[client]
          /\ answered' \in [Connection -> Nat] /\ lost' \in [Connection -> Nat]
          /\ \A c \in Connection \ {client} : answered'[c] = answered[c]
      BY <1>1, <2>1, <3>1
    <3>3. /\ answered[client] \in Nat /\ lost[client] \in Nat
          /\ requests[client] \in Nat
      BY <1>1, <2>1
    <3>4. /\ answered'[client] + lost'[client] <= requests[client]
          /\ client \notin crowded =>
               answered'[client] + lost'[client] = requests[client]
      BY <2>2, <3>2, <3>3
    <3>5. QED
      BY <3>1, <3>2, <3>4
  <2>4. CASE SendFails \/ ReplyKills
    BY <1>1, <2>1, <2>2, <2>4 DEF SendFails, ReplyKills
  <2>5. CASE ReplyNobody
    BY <1>1, <2>1, <2>2, <2>5 DEF ReplyNobody
  <2>6. QED
    BY <2>3, <2>4, <2>5
<1>4. TypeOK'
  <2>1. reset' \in [Connection -> Reset]
    BY <1>1 DEF Reply, SendFails, ReplyNobody, ReplyKills, TypeOK, Reset
  <2>2. type' \in CommandType \cup Rejection /\ request' \in Seq(Word)
    BY <1>2 DEF Rejection
  <2>3. QED
    BY <1>2, <1>3, <2>1, <2>2 DEF TypeOK, ServerPC, EndPC
<1>5. DescriptorsAreCurrent' /\ AcceptInv' /\ ClientInv'
  BY <1>1, <1>2 DEF DescriptorsAreCurrent, AcceptInv, ClientInv, Open, Listed
<1>6. CountInv'
  <2>1. /\ answered \in [Connection -> Nat] /\ lost \in [Connection -> Nat]
        /\ requests \in [Connection -> Nat] /\ client' \notin Connection
    BY <1>2 DEF TypeOK
  <2>2. ASSUME NEW c \in Connection
        PROVE  /\ answered'[c] + lost'[c] <= requests'[c]
               /\ c \notin crowded => requests'[c] = answered'[c] + lost'[c]
    <3>1. CASE c = client
      BY <1>2, <1>3, <2>1, <3>1
    <3>2. CASE c # client
      <4>1. /\ answered[c] + lost[c] <= requests[c]
            /\ c \notin crowded => requests[c] = answered[c] + lost[c] + 0
        BY <3>2 DEF CountInv
      <4>2. QED
        BY <1>2, <1>3, <2>1, <3>2, <4>1
    <3>3. QED
      BY <3>1, <3>2
  <2>3. ASSUME NEW c \in Connection
        PROVE  /\ requests'[c] <= lines'[c]
               /\ inbox'[c] # << >> => requests'[c] < lines'[c]
               /\ c # client'
    BY <1>2, <2>1 DEF CountInv
  <2>4. ASSUME NEW c \in Connection \ crowded'
        PROVE  requests'[c] = answered'[c] + lost'[c] + (IF c = client' THEN 1 ELSE 0)
    BY <1>2, <1>3, <2>1, <2>2, <2>3, <2>4
  <2>5. QED
    BY <2>2, <2>3, <2>4 DEF CountInv
<1>7. QED
  BY <1>4, <1>5, <1>6

LEMMA NextBase == BaseInv /\ [Next]_vars => BaseInv'
<1> SUFFICES ASSUME BaseInv, [Next]_vars PROVE BaseInv'
  OBVIOUS
<1>1. CASE ServerStep
  BY <1>1, LoopStep, AcceptStep, AcceptUnwatchedStep, ReceiveStep, HangupStep,
    ExecuteStep, ReplyStep DEF ServerStep
<1>2. CASE ClientStep
  BY <1>2, ConnectStep, PeerClosesStep, SendLineStep DEF ClientStep
<1>3. CASE Rest \/ UNCHANGED vars
  BY <1>3, SMTT(30) DEF Rest, vars, loopVars, netVars, countVars, endVars, BaseInv,
    TypeOK, DescriptorsAreCurrent, AcceptInv, ClientInv, CountInv, Open, Listed
<1>4. QED
  BY <1>1, <1>2, <1>3, TerminateStep DEF Next

-----------------------------------------------------------------------------
(* How the server ends *)

LEMMA InitReset == Init => ResetInv
BY DEF Init, ResetInv

(* Resets, lost replies and the kill go with one another; apart from the   *)
(* steps that send a reply or close a connection, nothing touches them.    *)
LEMMA NextReset == BaseInv /\ ResetInv /\ [Next]_vars => ResetInv'
<1> SUFFICES ASSUME BaseInv, ResetInv, [Next]_vars PROVE ResetInv'
  OBVIOUS
<1> USE DEF ResetInv
<1>1. /\ peer \in [Connection -> {"new", "connected", "closed"}]
      /\ reset \in [Connection -> Reset] /\ answered \in [Connection -> Nat]
      /\ lost \in [Connection -> Nat]
      /\ pc \in {"exec", "reply"} => client \in Connection
  BY DEF BaseInv, TypeOK, ClientInv
<1>2. ASSUME NEW c \in Connection, Connect(c) PROVE ResetInv'
  BY <1>1, <1>2 DEF Connect, loopVars, countVars
<1>3. ASSUME NEW c \in Connection, PeerCloses(c) PROVE ResetInv'
  <2>1. /\ UNCHANGED <<pc, answered, lost>> /\ reset[c] = "no" /\ lost[c] = 0
        /\ peer' = [peer EXCEPT ![c] = "closed"]
    <3>1. peer[c] = "connected"
      BY <1>3 DEF PeerCloses
    <3>2. reset[c] = "no"
      BY <3>1
    <3>3. ~(lost[c] > 0) /\ lost[c] \in Nat
      BY <1>1, <3>2
    <3>4. QED
      BY <1>3, <3>2, <3>3 DEF PeerCloses, loopVars, countVars
  <2>2. CASE UNCHANGED reset
    BY <1>1, <2>1, <2>2
  <2>3. CASE answered[c] > 0 /\ reset' = [reset EXCEPT ![c] = "ECONNRESET"]
    BY <1>1, <2>1, <2>3
  <2>4. QED
    BY <1>3, <2>2, <2>3 DEF PeerCloses
<1>4. ASSUME NEW c \in Connection, AcceptUnwatched(c) PROVE ResetInv'
  BY <1>1, <1>4 DEF AcceptUnwatched, countVars
<1>5. CASE Reply
  <2>1. /\ client \in Connection /\ reset[client] = "no" /\ lost[client] = 0
        /\ UNCHANGED <<peer, lost>> /\ pc # "killed" /\ pc' # "killed"
        /\ answered' = [answered EXCEPT ![client] = @ + 1]
        /\ IF peer[client] = "closed"
             THEN reset' = [reset EXCEPT ![client] = "EPIPE"] ELSE UNCHANGED reset
    <3>1. ~(lost[client] > 0) /\ client \in Connection /\ lost[client] \in Nat
      BY <1>1, <1>5 DEF Reply
    <3>2. QED
      BY <1>5, <3>1 DEF Reply, RequestDone
  <2>2. QED
    BY <1>1, <2>1
<1>6. CASE SendFails \/ ReplyKills
  <2>1. /\ client \in Connection /\ reset[client] # "no" /\ lost[client] <= 1
        /\ UNCHANGED <<peer, answered>> /\ pc # "killed"
        /\ lost' = [lost EXCEPT ![client] = @ + 1]
    BY <1>1, <1>6 DEF SendFails, ReplyKills, RequestDone
  <2>2. \/ /\ reset' = [reset EXCEPT ![client] = "EPIPE"] /\ lost[client] = 0
           /\ pc' # "killed"
        \/ reset' = reset /\ reset[client] = "EPIPE" /\ pc' = "killed"
    BY <1>1, <1>6 DEF SendFails, ReplyKills
  <2>3. QED
    BY <1>1, <2>1, <2>2
<1>7. ASSUME UNCHANGED <<reset, answered, peer, lost>>, pc' = "killed" <=> pc = "killed"
      PROVE  ResetInv'
  <2>1. \A c \in Connection :
          reset'[c] = reset[c] /\ answered'[c] = answered[c] /\ peer'[c] = peer[c]
          /\ lost'[c] = lost[c]
    BY <1>7
  <2>2. QED
    BY <1>7, <2>1
<1>8. CASE /\ ServerStep /\ ~Reply /\ ~SendFails /\ ~ReplyKills
           /\ ~\E c \in Connection : AcceptUnwatched(c)
  BY <1>7, <1>8 DEF ServerStep, LoopCheck, EnterWait, WaitReturns, BatchDone, Accept,
    Receive, Hangup, AcceptFails, Execute, ReplyNobody, RequestDone, Cleanup, netVars,
    countVars
<1>9. ASSUME NEW c \in Connection, NEW l \in Line, SendLine(c, l) PROVE ResetInv'
  BY <1>7, <1>9 DEF SendLine, loopVars
<1>10. CASE Terminate \/ Rest \/ UNCHANGED vars
  BY <1>7, <1>10 DEF Terminate, Rest, vars, loopVars, netVars, countVars
<1>11. QED
  BY <1>2, <1>3, <1>4, <1>5, <1>6, <1>8, <1>9, <1>10 DEF Next, ServerStep, ClientStep

LEMMA InitEndInv == Init => EndInv
BY DEF Init, EndInv

LEMMA NextEndInv == EndInv /\ [Next]_vars => EndInv'
<1> SUFFICES ASSUME EndInv, [Next]_vars PROVE EndInv'
  OBVIOUS
<1> USE DEF EndInv
<1>1. CASE LoopCheck \/ EnterWait \/ WaitReturns \/ BatchDone \/ AcceptFails \/ Cleanup
  BY <1>1 DEF LoopCheck, EnterWait, WaitReturns, BatchDone, AcceptFails, Cleanup,
    endVars
<1>2. CASE \E c \in Connection :
             Accept(c) \/ AcceptUnwatched(c) \/ Receive(c) \/ Hangup(c)
  BY <1>2 DEF Accept, AcceptUnwatched, Receive, Hangup, endVars
<1>3. CASE Execute
  BY <1>3 DEF Execute
<1>4. CASE Reply \/ SendFails \/ ReplyNobody \/ ReplyKills
  BY <1>4 DEF Reply, SendFails, ReplyNobody, ReplyKills, RequestDone, endVars
<1>5. CASE ClientStep
  BY <1>5 DEF ClientStep, Connect, PeerCloses, SendLine, loopVars, endVars
<1>6. CASE Terminate
  BY <1>6 DEF Terminate, Ended, EndPC
<1>7. CASE Rest \/ UNCHANGED vars
  BY <1>7 DEF Rest, vars, loopVars, endVars
<1>8. QED
  BY <1>1, <1>2, <1>3, <1>4, <1>5, <1>6, <1>7 DEF Next, ServerStep

-----------------------------------------------------------------------------
(* IInv holds in every state, whatever clients, signals and failures do. *)
THEOREM Inductive == SafeSpec => []IInv
<1>1. Init => IInv
  BY InitBase, InitReset, InitEndInv DEF BaseInv, IInv
<1>2. IInv /\ [Next]_vars => IInv'
  BY NextBase, NextReset, NextEndInv DEF BaseInv, IInv
<1>3. QED
  BY <1>1, <1>2, PTL DEF SafeSpec

(* Every variable keeps its type; no connection has sent more lines than   *)
(* it may.                                                                 *)
THEOREM TypeCorrect == SafeSpec => []TypeOK
<1>1. IInv => TypeOK
  BY DEF IInv
<1>2. QED
  BY <1>1, Inductive, PTL

(* The table, the events of a batch and the client in the loop stand for   *)
(* connections that are open, one descriptor each.                         *)
THEOREM TableIsCurrent == SafeSpec => []DescriptorsAreCurrent
<1>1. IInv => DescriptorsAreCurrent
  BY DEF IInv
<1>2. QED
  BY <1>1, Inductive, PTL

(* Between two requests every request of a client in the table has got its *)
(* one reply, one of a client that left excepted.                          *)
THEOREM EveryRequestAnswered == SafeSpec => []RequestsAnswered
<1>1. IInv => RequestsAnswered
  <2>1. SUFFICES ASSUME IInv PROVE RequestsAnswered
    OBVIOUS
  <2>2. /\ answered \in [Connection -> Nat] /\ lost \in [Connection -> Nat]
    BY <2>1 DEF IInv, TypeOK
  <2>3. ASSUME pc \notin {"exec", "reply"}, NEW c \in Connection \ crowded
        PROVE  requests[c] = answered[c] + lost[c]
    <3>1. c # client
      BY <2>1, <2>3 DEF IInv, ClientInv
    <3>2. requests[c] = answered[c] + lost[c] + 0
      BY <2>1, <3>1 DEF IInv, CountInv
    <3>3. QED
      BY <2>2, <3>2
  <2>4. ASSUME NEW c \in Connection, lost[c] > 0
        PROVE  peer[c] = "closed" /\ answered[c] > 0
    BY <2>1, <2>4 DEF IInv, ResetInv
  <2>5. QED
    BY <2>1, <2>3, <2>4 DEF RequestsAnswered, IInv, ResetInv
<1>2. QED
  BY <1>1, Inductive, PTL

-----------------------------------------------------------------------------
(* How the server may end *)

(* The server has gone out through its loop only on QUIT or SIGTERM, and   *)
(* its devices are then down; it is killed only with a client gone that it *)
(* has sent a reply, and by another request of that client.                *)
EndIsExplained ==
  /\ pc = "exited" => devices = "down" /\ (quit \/ term)
  /\ pc = "killed" => \E c \in Connection :
       peer[c] = "closed" /\ answered[c] > 0 /\ requests[c] > answered[c]

(* That is how far the manual's sentence is right: the loop is left on     *)
(* QUIT or SIGTERM alone and the devices are cleaned up then.  What        *)
(* TermCleansUp and EndsOnRequest run into are the exit in the loop and    *)
(* SIGPIPE, and the latter needs a client that has left, was sent a reply  *)
(* and had another request.                                                *)
THEOREM EndExplained == SafeSpec => []EndIsExplained
<1>1. IInv => EndIsExplained
  <2>1. SUFFICES ASSUME IInv PROVE EndIsExplained
    OBVIOUS
  <2>2. ASSUME pc = "killed"
        PROVE  \E c \in Connection :
                 peer[c] = "closed" /\ answered[c] > 0 /\ requests[c] > answered[c]
    <3>1. PICK c \in Connection : lost[c] > 0
      BY <2>1, <2>2 DEF IInv, ResetInv
    <3>2. peer[c] = "closed" /\ answered[c] > 0
      BY <2>1, <3>1 DEF IInv, ResetInv
    <3>3. /\ answered[c] + lost[c] <= requests[c]
          /\ answered[c] \in Nat /\ lost[c] \in Nat /\ requests[c] \in Nat
      BY <2>1 DEF IInv, CountInv, TypeOK
    <3>4. QED
      BY <3>1, <3>2, <3>3
  <2>3. QED
    BY <2>1, <2>2 DEF IInv, EndInv, EndIsExplained
<1>2. QED
  BY <1>1, Inductive, PTL

(* Once QUIT has been executed the server does not wait again, and handles *)
(* no event but those of the batch it is in.                               *)
QuitIsKept ==
  [][quit => quit' /\ pc' \notin {"enter", "wait"} /\ batch' \subseteq batch]_vars

(* A QUIT is not lost as a SIGTERM can be: it is raised where the loop     *)
(* will still look at running before epoll_wait, whatever else the batch   *)
(* holds.  The batch is finite, so that QuitEnds follows.                  *)
THEOREM QuitIsNotLost == SafeSpec => QuitIsKept
<1> DEFINE A == quit => quit' /\ pc' \notin {"enter", "wait"} /\ batch' \subseteq batch
<1>1. IInv /\ IInv' /\ [Next]_vars => [A]_vars
  <2> SUFFICES ASSUME EndInv, EndInv', Next, quit
               PROVE  quit' /\ pc' \notin {"enter", "wait"} /\ batch' \subseteq batch
    BY DEF IInv
  <2>1. pc # "wait"
    BY DEF EndInv
  <2>2. quit'
    BY DEF Next, ServerStep, LoopCheck, EnterWait, WaitReturns, BatchDone, Accept,
      AcceptUnwatched, AcceptFails, Receive, Hangup, Execute, Reply, SendFails,
      ReplyNobody, ReplyKills, RequestDone, Cleanup, ClientStep, Connect, PeerCloses,
      SendLine, Terminate, Rest, vars, endVars
  <2>3. batch' \subseteq batch
    BY <2>1 DEF Next, ServerStep, LoopCheck, EnterWait, WaitReturns, BatchDone, Accept,
      AcceptUnwatched, AcceptFails, Receive, Hangup, Execute, Reply, SendFails,
      ReplyNobody, ReplyKills, RequestDone, Cleanup, ClientStep, Connect, PeerCloses,
      SendLine, Terminate, Rest, vars, loopVars
  <2>4. QED
    BY <2>2, <2>3 DEF EndInv
<1>2. QED
  BY <1>1, Inductive, PTL DEF SafeSpec, QuitIsKept

=============================================================================
