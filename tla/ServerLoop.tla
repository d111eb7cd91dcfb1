----------------------------- MODULE ServerLoop -----------------------------
(***************************************************************************)
(* The server's main thread in service() (server/socket.c): the epoll      *)
(* loop, the table of clients, the execution of requests and the end by    *)
(* QUIT or SIGTERM.                                                        *)
(*                                                                         *)
(* The kernel's part is modelled as the code meets it: a stream has no     *)
(* message boundaries, so one recv returns all lines that have arrived; a  *)
(* signal interrupts epoll_wait, and nothing else that the loop calls.  A  *)
(* peer that closes with a reply unread resets the connection, and one     *)
(* that has closed in order does so when it is sent another: see `reset'.  *)
(* A line travels in one piece.  What a command does to the devices is     *)
(* left to the modules of the devices; here it is a step.                  *)
(***************************************************************************)
EXTENDS Command, FiniteSets

CONSTANTS
  Connection,    \* the connections clients make
  Line,          \* the lines they send
  MaxClients,    \* MAX_CLIENTS: slots of the table, events of a batch
  MaxFds,        \* the descriptors the process may have for connections
  MaxLines       \* bound: the lines sent on each connection

NoFd == 0                \* -1 in the table
Listener == "listener"   \* server_fd
Nobody == "nobody"

ASSUME ServerConstants ==
  /\ {Listener, Nobody} \cap Connection = {}
  /\ Line \subseteq Seq(Word) \ {<< >>}
  /\ MaxClients \in Nat \ {0} /\ MaxFds \in Nat
  /\ MaxLines \in [Connection -> Nat]

VARIABLES
  running, client_fds,     \* the globals of socket.c
  pc, batch,               \* program counter, events still to be handled
  client, request, type,   \* the request being handled, and its command
  devices,                 \* between device_init and device_cleanup: "up"
  backlog, fd,             \* connections to accept, descriptors of accepted
  inbox, peer, reset,      \* kernel: unread tokens, client's end, next error
  lines, requests, answered, lost,   \* history: lines, requests, replies
  crowded, term, quit                \* history: of the ends of the service

loopVars == <<running, client_fds, pc, batch, client, request, type, devices>>
netVars == <<backlog, fd, inbox, peer, reset>>
countVars == <<lines, requests, answered, lost>>
endVars == <<crowded, term, quit>>
vars == <<loopVars, netVars, countVars, endVars>>

(* What a send would fail with: a reset of a connection that the peer had  *)
(* not closed before is reported once, by ECONNRESET; any other send after *)
(* a reset is an EPIPE, and a SIGPIPE.                                     *)
Reset == {"no", "ECONNRESET", "EPIPE"}

Slot == 1..MaxClients
Fd == 1..MaxFds

ServerPC == {"top", "enter", "wait", "dispatch", "exec", "reply", "cleanup"}
EndPC == {"exited", "failed", "killed"}
Ended == pc \in EndPC

Open(c) == fd[c] # NoFd

(* init_clients, and service up to its loop. *)
Init ==
  /\ running = TRUE /\ client_fds = [i \in Slot |-> NoFd]
  /\ pc = "top" /\ batch = {}
  /\ client = Nobody /\ request = << >> /\ type = "EMPTY" /\ devices = "up"
  /\ backlog = {} /\ fd = [c \in Connection |-> NoFd]
  /\ inbox = [c \in Connection |-> << >>]
  /\ peer = [c \in Connection |-> "new"]
  /\ reset = [c \in Connection |-> "no"]
  /\ lines = [c \in Connection |-> 0] /\ requests = [c \in Connection |-> 0]
  /\ answered = [c \in Connection |-> 0] /\ lost = [c \in Connection |-> 0]
  /\ crowded = {} /\ term = FALSE /\ quit = FALSE

-----------------------------------------------------------------------------
(* The clients and the kernel *)

Connect(c) ==
  /\ peer[c] = "new" /\ ~Ended
  /\ peer' = [peer EXCEPT ![c] = "connected"]
  /\ backlog' = backlog \cup {c}
  /\ UNCHANGED <<loopVars, fd, inbox, reset, countVars, endVars>>

SendLine(c, l) ==
  /\ peer[c] = "connected" /\ ~Ended /\ lines[c] < MaxLines[c]
  /\ inbox' = [inbox EXCEPT ![c] = @ \o l]
  /\ lines' = [lines EXCEPT ![c] = @ + 1]
  /\ UNCHANGED <<loopVars, backlog, fd, peer, reset, requests, answered,
                 lost, endVars>>

(* A close with a reply still unread resets the connection at once. *)
PeerCloses(c) ==
  /\ peer[c] = "connected" /\ ~Ended
  /\ peer' = [peer EXCEPT ![c] = "closed"]
  /\ \/ UNCHANGED reset
     \/ answered[c] > 0 /\ reset' = [reset EXCEPT ![c] = "ECONNRESET"]
  /\ UNCHANGED <<loopVars, backlog, fd, inbox, countVars, endVars>>

(* What epoll would report: whatever can be accepted or read. *)
Ready ==
  {Listener : c \in backlog} \cup
  {c \in Connection : Open(c) /\ (inbox[c] # << >> \/ peer[c] = "closed")}

(* SIGTERM from outside, once; the signal handler. *)
Terminate ==
  /\ ~term /\ ~Ended
  /\ term' = TRUE /\ running' = FALSE
  /\ pc' \in IF pc # "wait" THEN {pc}
             ELSE IF Ready = {} THEN {"failed"} ELSE {"failed", "wait"}
  /\ UNCHANGED <<client_fds, batch, client, request, type, devices, netVars,
                 countVars, crowded, quit>>

-----------------------------------------------------------------------------
(* The client table *)

(* add_client: the first free slot, if there is one. *)
AddClient(f) ==
  LET free == {i \in Slot : client_fds[i] = NoFd} IN
  client_fds' = IF free = {} THEN client_fds
                ELSE [client_fds EXCEPT
                        ![CHOOSE i \in free : \A j \in free : i <= j] = f]

(* remove_client: the first slot with this descriptor. *)
RemoveClient(f) ==
  LET held == {i \in Slot : client_fds[i] = f} IN
  client_fds' = IF held = {} THEN client_fds
                ELSE [client_fds EXCEPT
                        ![CHOOSE i \in held : \A j \in held : i <= j] = NoFd]

(* send_message finds a client only in the table. *)
Listed(f) == \E i \in Slot : client_fds[i] = f

-----------------------------------------------------------------------------
(* service *)

LoopCheck ==
  /\ pc = "top"
  /\ pc' = IF running THEN "enter" ELSE "cleanup"
  /\ UNCHANGED <<running, client_fds, batch, client, request, type, devices,
                 netVars, countVars, endVars>>

(* epoll_wait is called; running is not looked at again. *)
EnterWait ==
  /\ pc = "enter"
  /\ pc' = "wait"
  /\ UNCHANGED <<running, client_fds, batch, client, request, type, devices,
                 netVars, countVars, endVars>>

(* epoll_wait returns as many of the ready events as the array holds. *)
WaitReturns ==
  /\ pc = "wait" /\ Ready # {}
  /\ batch' \in SUBSET Ready
  /\ IF Cardinality(Ready) <= MaxClients
       THEN batch' = Ready ELSE Cardinality(batch') = MaxClients
  /\ pc' = "dispatch"
  /\ UNCHANGED <<running, client_fds, client, request, type, devices,
                 netVars, countVars, endVars>>

(* Mutant: the last event of the batch is left out. *)
BatchDoneEarly ==
  /\ pc = "dispatch" /\ Cardinality(batch) <= 1
  /\ pc' = "top" /\ batch' = {}
  /\ UNCHANGED <<running, client_fds, client, request, type, devices,
                 netVars, countVars, endVars>>

BatchDone ==
  /\ pc = "dispatch" /\ batch = {}
  /\ pc' = "top" /\ batch' = {}
  /\ UNCHANGED <<running, client_fds, client, request, type, devices,
                 netVars, countVars, endVars>>

FreeFds == Fd \ {fd[c] : c \in Connection}

(* accept gives the lowest free descriptor. *)
NewFd == CHOOSE g \in FreeFds : \A h \in FreeFds : g <= h

(* Mutant: when the table is full the first client is closed for the new. *)
AcceptEvicting(c) ==
  LET f == NewFd
      full == \A i \in Slot : client_fds[i] # NoFd IN
  /\ pc = "dispatch" /\ Listener \in batch
  /\ c \in backlog /\ FreeFds # {}
  /\ backlog' = backlog \ {c} /\ batch' = batch \ {Listener}
  /\ fd' = [d \in Connection |->
              IF d = c THEN f
              ELSE IF full /\ fd[d] = client_fds[1] THEN NoFd ELSE fd[d]]
  /\ IF full THEN client_fds' = [client_fds EXCEPT ![1] = f] ELSE AddClient(f)
  /\ UNCHANGED <<running, pc, client, request, type, devices, inbox, peer,
                 reset, countVars, endVars>>

Accept(c) ==
  LET f == NewFd IN
  /\ pc = "dispatch" /\ Listener \in batch
  /\ c \in backlog /\ FreeFds # {}
  /\ backlog' = backlog \ {c} /\ batch' = batch \ {Listener}
  /\ fd' = [fd EXCEPT ![c] = f]
  /\ AddClient(f)
  /\ crowded' = IF NoFd \in {client_fds[i] : i \in Slot}
                  THEN crowded ELSE crowded \cup {c}
  /\ UNCHANGED <<running, pc, client, request, type, devices, inbox, peer,
                 reset, countVars, term, quit>>

(* epoll_ctl cannot watch the connection, which is closed at once. *)
AcceptUnwatched(c) ==
  /\ pc = "dispatch" /\ Listener \in batch
  /\ c \in backlog /\ FreeFds # {}
  /\ backlog' = backlog \ {c} /\ batch' = batch \ {Listener}
  /\ peer' = [peer EXCEPT ![c] = "closed"]
  /\ UNCHANGED <<running, client_fds, pc, client, request, type, devices, fd,
                 inbox, reset, countVars, endVars>>

(* No descriptor is free, or the connection is broken already. *)
AcceptFails ==
  /\ pc = "dispatch" /\ Listener \in batch
  /\ pc' = "failed"
  /\ UNCHANGED <<running, client_fds, batch, client, request, type, devices,
                 netVars, countVars, endVars>>

(* Mutant: what was received is not taken from the socket. *)
ReceivePeeks(c) ==
  /\ pc = "dispatch" /\ c \in batch /\ inbox[c] # << >>
  /\ client' = c /\ request' = inbox[c] /\ pc' = "exec"
  /\ batch' = batch \ {c}
  /\ requests' = [requests EXCEPT ![c] = @ + 1]
  /\ UNCHANGED <<running, client_fds, type, devices, backlog, fd, inbox, peer,
                 reset, lines, answered, lost, endVars>>

(* recv returns what has arrived. *)
Receive(c) ==
  /\ pc = "dispatch" /\ c \in batch /\ inbox[c] # << >>
  /\ client' = c /\ request' = inbox[c] /\ pc' = "exec"
  /\ batch' = batch \ {c}
  /\ inbox' = [inbox EXCEPT ![c] = << >>]
  /\ requests' = [requests EXCEPT ![c] = @ + 1]
  /\ UNCHANGED <<running, client_fds, type, devices, backlog, fd, peer,
                 reset, lines, answered, lost, endVars>>

(* recv returns 0 or, after a reset, -1. *)
Hangup(c) ==
  /\ pc = "dispatch" /\ c \in batch /\ inbox[c] = << >>
  /\ batch' = batch \ {c}
  /\ RemoveClient(fd[c])
  /\ fd' = [fd EXCEPT ![c] = NoFd]
  /\ UNCHANGED <<running, pc, client, request, type, devices, backlog, inbox,
                 peer, reset, countVars, endVars>>

(* Mutant: QUIT answers but does not raise SIGTERM. *)
ExecuteRaisesNothing ==
  /\ pc = "exec"
  /\ type' = command_parse(request).type
  /\ quit' = (quit \/ type' = "QUIT") /\ running' = running
  /\ pc' = "reply"
  /\ UNCHANGED <<client_fds, batch, client, request, devices, netVars,
                 countVars, crowded, term>>

(* exec_command; raise(SIGTERM) returns after the handler has run. *)
Execute ==
  /\ pc = "exec"
  /\ type' = command_parse(request).type
  /\ quit' = (quit \/ type' = "QUIT")
  /\ running' = (running /\ type' # "QUIT")
  /\ pc' = "reply"
  /\ UNCHANGED <<client_fds, batch, client, request, devices, netVars,
                 countVars, crowded, term>>

(* The client has left the loop. *)
RequestDone ==
  /\ client' = Nobody /\ request' = << >> /\ type' = "EMPTY"
  /\ UNCHANGED <<running, client_fds, batch, devices, backlog, fd, inbox,
                 peer, lines, requests, endVars>>

(* send_message; the reply to a peer that has closed provokes a reset. *)
Reply ==
  /\ pc = "reply" /\ Listed(fd[client]) /\ reset[client] = "no"
  /\ answered' = [answered EXCEPT ![client] = @ + 1]
  /\ IF peer[client] = "closed"
       THEN reset' = [reset EXCEPT ![client] = "EPIPE"] ELSE UNCHANGED reset
  /\ pc' = "dispatch" /\ UNCHANGED lost
  /\ RequestDone

(* send returns -1, which is printed; the request stays without a reply. *)
SendFails ==
  /\ pc = "reply" /\ Listed(fd[client]) /\ reset[client] = "ECONNRESET"
  /\ reset' = [reset EXCEPT ![client] = "EPIPE"]
  /\ lost' = [lost EXCEPT ![client] = @ + 1]
  /\ pc' = "dispatch" /\ UNCHANGED answered
  /\ RequestDone

(* Mutant: no reply is sent once the server is stopping. *)
ReplyNobodyWhenStopping ==
  /\ pc = "reply" /\ (~Listed(fd[client]) \/ ~running)
  /\ pc' = "dispatch"
  /\ UNCHANGED <<answered, lost, reset>>
  /\ RequestDone

ReplyNobody ==
  /\ pc = "reply" /\ ~Listed(fd[client])
  /\ pc' = "dispatch"
  /\ UNCHANGED <<answered, lost, reset>>
  /\ RequestDone

(* send raises SIGPIPE *)
ReplyKills ==
  /\ pc = "reply" /\ Listed(fd[client]) /\ reset[client] = "EPIPE"
  /\ lost' = [lost EXCEPT ![client] = @ + 1]
  /\ pc' = "killed" /\ UNCHANGED <<answered, reset>>
  /\ RequestDone

(* device_cleanup, and main returns 0. *)
Cleanup ==
  /\ pc = "cleanup"
  /\ devices' = "down" /\ pc' = "exited"
  /\ UNCHANGED <<running, client_fds, batch, client, request, type, netVars,
                 countVars, endVars>>

-----------------------------------------------------------------------------
ServerStep ==
  \/ LoopCheck \/ EnterWait \/ WaitReturns \/ BatchDone
  \/ \E c \in Connection :
       Accept(c) \/ AcceptUnwatched(c) \/ Receive(c) \/ Hangup(c)
  \/ AcceptFails
  \/ Execute \/ Reply \/ SendFails \/ ReplyNobody \/ ReplyKills
  \/ Cleanup

ClientStep ==
  \E c \in Connection :
    Connect(c) \/ PeerCloses(c) \/ \E l \in Line : SendLine(c, l)

(* The server has ended, or waits for clients that have all gone. *)
Rest ==
  /\ Ended \/ (pc = "wait" /\ term)
  /\ UNCHANGED vars

Next == ServerStep \/ ClientStep \/ Terminate \/ Rest

SafeSpec == Init /\ [][Next]_vars

(* The main thread goes on when it can; clients and signals need not come. *)
Spec == SafeSpec /\ WF_vars(ServerStep)

-----------------------------------------------------------------------------
(* Properties *)

TypeOK ==
  /\ running \in BOOLEAN /\ client_fds \in [Slot -> Fd \cup {NoFd}]
  /\ pc \in ServerPC \cup EndPC /\ batch \subseteq Connection \cup {Listener}
  /\ client \in Connection \cup {Nobody} /\ request \in Seq(Word)
  /\ type \in CommandType \cup Rejection /\ devices \in {"up", "down"}
  /\ backlog \subseteq Connection /\ fd \in [Connection -> Fd \cup {NoFd}]
  /\ inbox \in [Connection -> Seq(Word)]
  /\ peer \in [Connection -> {"new", "connected", "closed"}]
  /\ reset \in [Connection -> Reset]
  /\ lines \in [Connection -> Nat] /\ requests \in [Connection -> Nat]
  /\ answered \in [Connection -> Nat] /\ lost \in [Connection -> Nat]
  /\ \A c \in Connection : lines[c] <= MaxLines[c]
  /\ crowded \subseteq Connection /\ term \in BOOLEAN /\ quit \in BOOLEAN

(* The table holds the descriptors of the open connections, each once, but *)
(* for those that were accepted when it was full: a slot that survives its *)
(* connection would later stand for another one, or fill the table up.  An *)
(* event is for a descriptor that is still open when its turn comes, and   *)
(* no two connections share one: closing a descriptor while a batch is     *)
(* handled, and reusing its number, takes no event and no reply from       *)
(* anyone.                                                                 *)
DescriptorsAreCurrent ==
  /\ \A i, j \in Slot : client_fds[i] = client_fds[j] =>
                          i = j \/ client_fds[i] = NoFd
  /\ \A i \in Slot : client_fds[i] # NoFd =>
       \E c \in Connection : fd[c] = client_fds[i]
  /\ \A c \in Connection : Open(c) => (Listed(fd[c]) <=> c \notin crowded)
  /\ \A c, d \in Connection : Open(c) /\ fd[c] = fd[d] => c = d
  /\ \A c \in batch \ {Listener} : Open(c)
  /\ client # Nobody => Open(client)

(* Each request, once handled, has got exactly one reply, the QUIT that    *)
(* ends the service included, unless its client is not in the table or has *)
(* left: one request of a client that left with a reply unread, or after   *)
(* which it left, may go without; by a second one the server is killed.    *)
RequestsAnswered ==
  /\ pc \notin {"exec", "reply"} => \A c \in Connection \ crowded :
       requests[c] = answered[c] + lost[c]
  /\ \A c \in Connection : lost[c] > 0 => peer[c] = "closed" /\ answered[c] > 0
  /\ pc # "killed" => \A c \in Connection : lost[c] <= 1

(* What holds in every state and is kept by every step. *)

(* A connection is accepted once: it is not open before. *)
AcceptInv ==
  /\ \A c \in Connection : peer[c] = "new" =>
       ~Open(c) /\ c \notin backlog \cup crowded
  /\ \A c \in backlog : ~Open(c) /\ c \notin crowded

(* A client is in the loop from its request to the end of the reply. *)
ClientInv == client # Nobody <=> pc \in {"exec", "reply"}

(* A request has come out of a line at least, and a reply out of a request: *)
(* one request is still without, that of the client in the loop.            *)
CountInv ==
  /\ \A c \in Connection :
       /\ requests[c] <= lines[c]
       /\ inbox[c] # << >> => requests[c] < lines[c]
       /\ answered[c] + lost[c] <= requests[c]
       /\ c = client => answered[c] + lost[c] < requests[c]
  /\ \A c \in Connection \ crowded :
       requests[c] = answered[c] + lost[c] + (IF c = client THEN 1 ELSE 0)

(* A connection is reset by a client that has left and was sent a reply;   *)
(* once a reply is lost, the next send to it kills.                        *)
ResetInv ==
  /\ \A c \in Connection :
       /\ reset[c] # "no" => peer[c] = "closed" /\ answered[c] > 0
       /\ lost[c] > 0 => reset[c] = "EPIPE"
  /\ pc # "killed" => \A c \in Connection : lost[c] <= 1
  /\ pc = "killed" => \E c \in Connection : lost[c] > 0

(* The loop is left on request only. *)
EndInv ==
  /\ ~running => quit \/ term
  /\ quit => ~running /\ pc \notin {"enter", "wait"}
  /\ pc \in {"cleanup", "exited"} => ~running
  /\ pc = "exited" => devices = "down"

IInv ==
  /\ TypeOK /\ DescriptorsAreCurrent /\ AcceptInv /\ ClientInv /\ CountInv
  /\ ResetInv /\ EndInv

(* What a connected client has sent is read, however many clients there    *)
(* are, or the server ends.                                                *)
RequestsTaken ==
  \A c \in Connection :
    Open(c) /\ inbox[c] # << >> ~> inbox[c] = << >> \/ Ended

(* QUIT ends the server: the loop is left before it waits again. *)
QuitEnds == quit ~> Ended

(* "The server leaves its loop on QUIT or SIGTERM" (docs/main.typ:367),    *)
(* and main then cleans up the devices (main.c:187): a server that was     *)
(* sent SIGTERM has not ended with the devices up.  The signal interrupts  *)
(* epoll_wait, and the loop takes that for a failure and exits.            *)
TermCleansUp == term /\ Ended => devices = "down"

(* "The server leaves its loop on QUIT or SIGTERM" (docs/main.typ:367):    *)
(* apart from system calls that fail, the server does not end for any      *)
(* other reason.  It is killed by the second send to a client that has     *)
(* left.                                                                   *)
EndsOnRequest == Ended /\ pc # "failed" => quit \/ term

=============================================================================
