------------------------------- MODULE Client -------------------------------
(***************************************************************************)
(* run_console of the client (client/main.c): one poll over the standard   *)
(* input and the connection, lines read through stdio, and SIGINT.         *)
(*                                                                         *)
(* The input is a terminal, a file or a pipe.  A read of a terminal        *)
(* returns one line; one of a pipe or a file returns all that is there,    *)
(* and what fgets does not take of it stays in stdio's buffer, where poll  *)
(* does not see it.  A file is always readable, at its end too; a pipe     *)
(* that was closed is hung up, and not readable when it is empty; a        *)
(* terminal's end of input is seen by one read.                            *)
(*                                                                         *)
(* The server is any server that answers what has arrived and may close;   *)
(* a close with unread requests, or a request after it, resets the         *)
(* connection.                                                             *)
(***************************************************************************)
EXTENDS Integers, Sequences

CONSTANT MaxLines       \* bound: the lines of the input

ASSUME MaxLinesIsNat == MaxLines \in Nat

Kind == {"terminal", "pipe", "file"}
Word == {"command", "blank", "local", "leave", "quit"}
EndOfInput == "eof"     \* what a read of no bytes is in the input of a terminal

VARIABLES
  pc, revents,          \* where the loop is; what poll has returned
  client_running,
  buffer,               \* the line or the response in it
  kind,
  typed,                \* what the user has entered so far
  taken, ahead,         \* the lines taken by fgets, those read from the input
  pipeClosed,           \* no line will follow
  up, down,             \* requests and responses on their way
  conn,                 \* "open", "fin" once the server has closed, or "reset"
  \* history
  sent, answers, shown  \* what was sent; responses sent and shown

input == <<kind, typed, pipeClosed>>
reading == <<taken, ahead>>
network == <<up, down, conn>>
vars == <<pc, revents, client_running, buffer, input, reading, network,
          sent, answers, shown>>

NoEvents == [hup |-> FALSE, sock |-> FALSE, stdin |-> FALSE]
Nothing == [word |-> "none", n |-> 0]
Response == [word |-> "response", n |-> 0]

Init ==
  /\ pc = "test" /\ revents = NoEvents /\ client_running = TRUE
  /\ buffer = Nothing
  /\ kind \in Kind /\ typed = << >> /\ pipeClosed = FALSE
  /\ taken = 0 /\ ahead = 0
  /\ up = << >> /\ down = 0 /\ conn = "open"
  /\ sent = << >> /\ answers = 0 /\ shown = 0

-----------------------------------------------------------------------------
(* The user, the server and the signal *)

(* Lines come one by one or in bursts; each has its own number.  At a      *)
(* terminal the user may end the input and go on.                          *)
EnterLine(w) ==
  /\ Len(typed) < MaxLines /\ ~pipeClosed
  /\ w = EndOfInput => kind = "terminal"
  /\ typed' = Append(typed, [word |-> w, n |-> Len(typed) + 1])
  /\ UNCHANGED <<pc, revents, client_running, buffer, kind, pipeClosed,
                 reading, network, sent, answers, shown>>

ClosePipe ==
  /\ kind = "pipe" /\ ~pipeClosed /\ pipeClosed' = TRUE
  /\ UNCHANGED <<pc, revents, client_running, buffer, kind, typed, reading,
                 network, sent, answers, shown>>

(* The server takes all that has arrived for one request. *)
ServerAnswers ==
  /\ conn = "open" /\ up # << >>
  /\ up' = << >> /\ down' = down + 1 /\ answers' = answers + 1
  /\ UNCHANGED <<pc, revents, client_running, buffer, input, reading, conn,
                 sent, shown>>

ServerCloses ==
  /\ conn = "open"
  /\ conn' = IF up = << >> THEN "fin" ELSE "reset"
  /\ UNCHANGED <<pc, revents, client_running, buffer, input, reading, up, down,
                 sent, answers, shown>>

(* handle_signum; a poll that is waiting returns with EINTR. *)
Interrupt ==
  /\ client_running /\ pc \notin {"ended", "failed"}
  /\ client_running' = FALSE
  /\ pc' = IF pc = "poll" THEN "test" ELSE pc
  /\ UNCHANGED <<revents, buffer, input, reading, network, sent, answers, shown>>

-----------------------------------------------------------------------------
(* The loop *)

At(from, to) == pc = from /\ pc' = to

TestRunning ==
  /\ At("test", IF client_running THEN "enter" ELSE "ended")
  /\ UNCHANGED <<revents, client_running, buffer, input, reading, network,
                 sent, answers, shown>>

(* Between the test and the wait a signal is only noted. *)
EnterPoll ==
  /\ At("enter", "poll")
  /\ UNCHANGED <<revents, client_running, buffer, input, reading, network,
                 sent, answers, shown>>

(* POLLIN on the standard input, and a pipe that makes poll return without *)
(* it.                                                                     *)
StdinReadable == kind = "file" \/ Len(typed) > ahead
StdinHungUp == pipeClosed /\ Len(typed) = ahead

PollReturns ==
  LET r == [hup |-> conn = "reset",
            sock |-> down > 0 \/ conn # "open",
            stdin |-> StdinReadable]
  IN /\ At("poll", "hup") /\ (r # NoEvents \/ StdinHungUp)
     /\ revents' = r
     /\ UNCHANGED <<client_running, buffer, input, reading, network,
                    sent, answers, shown>>

(* Mutant: a connection with something to read is taken for closed. *)
CheckHangupFirst ==
  /\ At("hup", IF revents.hup \/ (revents.sock /\ conn = "fin") THEN "ended"
               ELSE IF revents.sock THEN "recv"
               ELSE IF revents.stdin THEN "fgets" ELSE "test")
  /\ UNCHANGED <<revents, client_running, buffer, input, reading, network,
                 sent, answers, shown>>

(* Mutant: the user's input comes before the server's responses. *)
CheckInputFirst ==
  /\ At("hup", IF revents.stdin THEN "fgets"
               ELSE IF revents.hup THEN "ended"
               ELSE IF revents.sock THEN "recv" ELSE "test")
  /\ UNCHANGED <<revents, client_running, buffer, input, reading, network,
                 sent, answers, shown>>

(* A hang-up ends the loop; else the connection goes before the input. *)
CheckEvents ==
  /\ At("hup", IF revents.hup THEN "ended" ELSE IF revents.sock THEN "recv"
               ELSE IF revents.stdin THEN "fgets" ELSE "test")
  /\ UNCHANGED <<revents, client_running, buffer, input, reading, network,
                 sent, answers, shown>>

(* recv takes as many of the responses as fit the buffer. *)
Receive ==
  /\ down > 0 /\ At("recv", "test")
  /\ \E n \in 1..down : down' = down - n /\ shown' = shown + n
  /\ buffer' = Response
  /\ UNCHANGED <<revents, client_running, input, reading, up, conn, sent, answers>>

Disconnected ==
  /\ down = 0 /\ conn # "open"
  /\ At("recv", IF conn = "fin" THEN "ended" ELSE "failed")
  /\ UNCHANGED <<revents, client_running, buffer, input, reading, network,
                 sent, answers, shown>>

(* fgets with an empty buffer reads a line of a terminal or all there is. *)
ReadAhead ==
  IF taken < ahead THEN ahead
  ELSE IF kind = "terminal" /\ Len(typed) > ahead THEN ahead + 1 ELSE Len(typed)

FindsLine == ReadAhead > taken /\ typed[taken + 1].word # EndOfInput

TakeLine ==
  /\ At("fgets", "line") /\ FindsLine
  /\ ahead' = ReadAhead /\ taken' = taken + 1 /\ buffer' = typed[taken + 1]
  /\ UNCHANGED <<revents, client_running, input, network, sent, answers, shown>>

(* Mutant: the buffer is looked at although no line was read. *)
InputEndsWithLine ==
  /\ At("fgets", "line") /\ ~FindsLine
  /\ ahead' = ReadAhead /\ taken' = ReadAhead
  /\ UNCHANGED <<revents, client_running, buffer, input, network,
                 sent, answers, shown>>

(* fgets returns NULL: the condition is cleared and the loop goes on. *)
InputEnds ==
  /\ At("fgets", "test") /\ ~FindsLine
  /\ ahead' = ReadAhead /\ taken' = ReadAhead
  /\ UNCHANGED <<revents, client_running, buffer, input, network,
                 sent, answers, shown>>

(* Blank lines and .help, .clear stay here. *)
HandleHere ==
  /\ At("line", "test") /\ buffer.word \in {"blank", "local"}
  /\ UNCHANGED <<revents, client_running, buffer, input, reading, network,
                 sent, answers, shown>>

(* .quit and its other names *)
HandleLeave ==
  /\ At("line", "ended") /\ buffer.word = "leave"
  /\ UNCHANGED <<revents, client_running, buffer, input, reading, network,
                 sent, answers, shown>>

(* What a send does to the connection: one that the server has closed is   *)
(* reset, and one that is reset takes nothing.                             *)
Send(w) ==
  /\ conn' = IF conn = "fin" THEN "reset" ELSE conn
  /\ up' = IF conn = "open" THEN Append(up, w) ELSE up
  /\ sent' = Append(sent, w)
  /\ UNCHANGED down

(* quit: QUIT is sent and the client leaves; a failure is not looked at. *)
HandleQuit ==
  /\ At("line", "ended") /\ buffer.word = "quit"
  /\ IF conn = "reset" THEN UNCHANGED <<network, sent>> ELSE Send(buffer)
  /\ UNCHANGED <<revents, client_running, buffer, input, reading, answers, shown>>

(* Mutant: the client waits for the response to each command. *)
SendAndAwait ==
  /\ At("line", "recv") /\ conn # "reset"
  /\ buffer.word \notin {"blank", "local", "leave", "quit"}
  /\ Send(buffer)
  /\ UNCHANGED <<revents, client_running, buffer, input, reading, answers, shown>>

(* Everything else goes to the server. *)
SendCommand ==
  /\ At("line", "test") /\ conn # "reset"
  /\ buffer.word \notin {"blank", "local", "leave", "quit"}
  /\ Send(buffer)
  /\ UNCHANGED <<revents, client_running, buffer, input, reading, answers, shown>>

SendFails ==
  /\ At("line", "failed") /\ conn = "reset"
  /\ buffer.word \notin {"blank", "local", "leave", "quit"}
  /\ UNCHANGED <<revents, client_running, buffer, input, reading, network,
                 sent, answers, shown>>

-----------------------------------------------------------------------------
Step ==
  \/ TestRunning \/ EnterPoll \/ PollReturns \/ CheckEvents
  \/ Receive \/ Disconnected \/ TakeLine \/ InputEnds
  \/ HandleHere \/ HandleLeave \/ HandleQuit \/ SendCommand \/ SendFails

World ==
  \/ \E w \in Word \cup {EndOfInput} : EnterLine(w)
  \/ ClosePipe \/ ServerAnswers \/ ServerCloses \/ Interrupt

HasEnded == pc \in {"ended", "failed"}
Rest == HasEnded \/ pc = "poll"

Next == Step \/ World \/ (Rest /\ UNCHANGED vars)

Spec == Init /\ [][Next]_vars /\ WF_vars(Step)

-----------------------------------------------------------------------------
(* Properties *)

Line == [word : Word \cup {EndOfInput}, n : Nat]

TypeOK ==
  /\ pc \in {"test", "enter", "poll", "hup", "recv", "fgets", "line", "ended",
             "failed"}
  /\ revents \in [hup : BOOLEAN, sock : BOOLEAN, stdin : BOOLEAN]
  /\ client_running \in BOOLEAN
  /\ buffer \in Line \cup {Nothing, Response}
  /\ kind \in Kind /\ typed \in Seq(Line) /\ pipeClosed \in BOOLEAN
  /\ Len(typed) <= MaxLines
  /\ taken \in Nat /\ ahead \in Nat
  /\ up \in Seq(Line) /\ down \in Nat /\ conn \in {"open", "fin", "reset"}
  /\ sent \in Seq(Line) /\ answers \in Nat /\ shown \in Nat

IsForServer(l) == l.word \in {"command", "quit"}

(* The number of lines that the loop has done with. *)
Handled == IF pc = "line" THEN taken - 1 ELSE taken

(* What goes to the server is what the user entered, each command once and *)
(* in order, and nothing else: no response, though buffer also holds       *)
(* those, and no line a second time when there was none to read.  Only a   *)
(* line that met a reset connection is missing, the last.                  *)
LinesInOrder ==
  /\ \A j \in 1..Len(sent) :
       /\ sent[j].n \in 1..Handled /\ sent[j] = typed[sent[j].n]
       /\ IsForServer(sent[j])
  /\ \A j, k \in 1..Len(sent) : j < k => sent[j].n < sent[k].n
  /\ \A i \in 1..Handled : IsForServer(typed[i]) =>
       \/ \E j \in 1..Len(sent) : sent[j].n = i
       \/ conn = "reset" /\ HasEnded /\ i = taken

(* A client that neither was told to leave nor lost its connection shows   *)
(* every response that was sent to it before it ends.  (On a reset the     *)
(* hang-up is looked at first, and responses that came with it are lost.)  *)
ResponsesShown ==
  HasEnded /\ client_running /\ conn # "reset"
  /\ buffer.word \notin {"leave", "quit"} => shown = answers

(* What holds in every state and is kept by every step. *)

(* A line is known by its place in the input; stdio's buffer holds what    *)
(* was read ahead, nothing at a terminal, where alone the input may end    *)
(* and go on.                                                              *)
InputInv ==
  /\ taken <= ahead /\ ahead <= Len(typed)
  /\ kind = "terminal" => taken = ahead
  /\ \A i \in 1..Len(typed) :
       typed[i].n = i /\ (typed[i].word = EndOfInput => kind = "terminal")
  /\ pc = "line" =>
       taken > 0 /\ buffer = typed[taken] /\ buffer.word # EndOfInput

(* Each response is on its way or shown; and the loop ends for one of four *)
(* reasons.                                                                *)
EndInv ==
  /\ answers = shown + down
  /\ revents.hup => conn = "reset"
  /\ HasEnded =>
       \/ ~client_running \/ conn = "reset"
       \/ buffer.word \in {"leave", "quit"}
       \/ conn # "open" /\ down = 0

IInv == TypeOK /\ InputInv /\ LinesInOrder /\ EndInv

(* When the server has gone the client ends, whatever its input is doing.  *)
HangupEnds == conn # "open" ~> HasEnded

(* A line the user has entered is taken, or the client ends.  Not so for   *)
(* a pipe: lines that arrived together are read together, and those behind *)
(* the first wait in stdio's buffer until more are written; once the pipe  *)
(* is closed, for ever.                                                    *)
LinesTaken ==
  \A i \in 1..MaxLines :
    (kind # "pipe" /\ Len(typed) >= i) ~> (taken >= i \/ HasEnded)

=============================================================================
