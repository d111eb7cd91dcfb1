----------------------------- MODULE ClientProof -----------------------------
(***************************************************************************)
(* Proofs about Client, for an input of any length and kind: the invariant *)
(* IInv with one step per action, and from it that the server gets the     *)
(* user's lines in order and that no response is lost.                     *)
(***************************************************************************)
EXTENDS Client, TLAPS

USE MaxLinesIsNat

-----------------------------------------------------------------------------
(* Operators *)

(* What a read of the input leaves in stdio's buffer lies between what was *)
(* read before and all there is; of a terminal it is one line.             *)
LEMMA ReadAheadRange ==
  ASSUME TypeOK, InputInv
  PROVE  /\ ReadAhead \in Nat /\ taken <= ReadAhead /\ ahead <= ReadAhead
         /\ ReadAhead <= Len(typed)
         /\ kind = "terminal" => ReadAhead <= taken + 1
BY DEF TypeOK, InputInv, ReadAhead

(* Where only pc changes, away from a line that was taken, the order of    *)
(* the lines is not touched.                                               *)
LEMMA OrderKept ==
  ASSUME TypeOK, LinesInOrder, pc # "line", pc' # "line", ~HasEnded,
         UNCHANGED <<typed, taken, sent>>
  PROVE  LinesInOrder'
BY DEF TypeOK, LinesInOrder, Handled, HasEnded, IsForServer

(* A line that does not go to the server is done with when it is dropped.  *)
LEMMA OrderDropped ==
  ASSUME TypeOK, InputInv, LinesInOrder, pc = "line", pc' # "line",
         UNCHANGED <<typed, taken, sent>>,
         IsForServer(buffer) => conn' = "reset" /\ HasEnded'
  PROVE  LinesInOrder'
<1> USE DEF TypeOK, Handled
<1>1. Handled = taken - 1 /\ Handled' = taken /\ taken \in Nat \ {0}
  BY DEF InputInv
<1>2. ASSUME NEW i \in 1..taken, IsForServer(typed[i])
      PROVE  \/ \E j \in 1..Len(sent) : sent[j].n = i
             \/ conn' = "reset" /\ HasEnded' /\ i = taken
  <2>1. CASE i = taken
    BY <1>2, <2>1 DEF InputInv
  <2>2. CASE i # taken
    <3>1. i \in 1..Handled
      BY <1>1, <2>2
    <3>2. ~HasEnded
      BY DEF HasEnded
    <3>3. QED
      BY <3>1, <3>2, <1>2 DEF LinesInOrder
  <2>3. QED
    BY <2>1, <2>2
<1>3. QED
  BY <1>1, <1>2 DEF LinesInOrder, IsForServer

(* A line that goes to the server is the last of those sent.               *)
LEMMA OrderSent ==
  ASSUME TypeOK, InputInv, LinesInOrder, pc = "line", pc' # "line",
         UNCHANGED <<typed, taken>>, IsForServer(buffer),
         sent' = Append(sent, buffer)
  PROVE  LinesInOrder' /\ sent' \in Seq(Line)
<1> USE DEF TypeOK, Handled
<1> DEFINE k == Len(sent) + 1
<1>1. /\ Handled = taken - 1 /\ Handled' = taken /\ taken \in Nat \ {0}
      /\ taken \in 1..Len(typed) /\ buffer = typed[taken] /\ buffer \in Line
      /\ buffer.n = taken
  BY DEF InputInv
<1>2. /\ sent' \in Seq(Line) /\ Len(sent') = k /\ sent'[k] = buffer
      /\ k \in Nat \ {0}
      /\ \A j \in 1..Len(sent) : sent'[j] = sent[j]
  BY <1>1
<1>3. \A j \in 1..k : j = k \/ j \in 1..Len(sent)
  BY <1>2
<1>4. ASSUME NEW j \in 1..k
      PROVE  /\ sent'[j].n \in 1..taken /\ sent'[j] = typed[sent'[j].n]
             /\ IsForServer(sent'[j])
  <2>1. CASE j = k
    BY <1>1, <1>2, <2>1
  <2>2. CASE j \in 1..Len(sent)
    BY <1>1, <1>2, <2>2 DEF LinesInOrder
  <2>3. QED
    BY <1>3, <2>1, <2>2
<1>5. ASSUME NEW i \in 1..k, NEW j \in 1..k, i < j
      PROVE  sent'[i].n < sent'[j].n
  <2>1. i \in 1..Len(sent)
    BY <1>5, <1>2
  <2>2. CASE j = k
    BY <1>1, <1>2, <2>1, <2>2 DEF LinesInOrder
  <2>3. CASE j \in 1..Len(sent)
    BY <1>5, <1>2, <2>1, <2>3 DEF LinesInOrder
  <2>4. QED
    BY <1>3, <2>2, <2>3
<1>6. ASSUME NEW i \in 1..taken, IsForServer(typed[i])
      PROVE  \E j \in 1..k : sent'[j].n = i
  <2>1. CASE i = taken
    BY <1>1, <1>2, <2>1
  <2>2. CASE i # taken
    <3>1. i \in 1..Handled /\ ~HasEnded
      BY <1>1, <2>2 DEF HasEnded
    <3>2. PICK j \in 1..Len(sent) : sent[j].n = i
      BY <3>1, <1>6 DEF LinesInOrder
    <3>3. j \in 1..k /\ sent'[j].n = i
      BY <1>2, <3>2
    <3>4. QED
      BY <3>3
  <2>3. QED
    BY <2>1, <2>2
<1>7. QED
  BY <1>1, <1>2, <1>4, <1>5, <1>6 DEF LinesInOrder, IsForServer

-----------------------------------------------------------------------------
(* The invariant *)

LEMMA InitIInv == Init => IInv
<1> SUFFICES ASSUME Init PROVE IInv
  OBVIOUS
<1>1. TypeOK
  <2>1. << >> \in Seq(Line) /\ Len(<< >>) = 0
    OBVIOUS
  <2>2. revents \in [hup : BOOLEAN, sock : BOOLEAN, stdin : BOOLEAN]
    BY DEF Init, NoEvents
  <2>3. QED
    <3>1. taken \in Nat /\ ahead \in Nat /\ down \in Nat /\ answers \in Nat
          /\ shown \in Nat /\ Len(typed) <= MaxLines
      BY <2>1 DEF Init
    <3>2. /\ pc = "test" /\ client_running \in BOOLEAN /\ pipeClosed \in BOOLEAN
          /\ conn = "open" /\ kind \in Kind /\ buffer = Nothing
          /\ typed \in Seq(Line) /\ up \in Seq(Line) /\ sent \in Seq(Line)
      BY <2>1 DEF Init
    <3>3. QED
      BY <2>2, <3>1, <3>2 DEF TypeOK
<1>2. InputInv /\ LinesInOrder /\ EndInv
  BY DEF Init, NoEvents, InputInv, LinesInOrder, EndInv, Handled, HasEnded
<1>3. QED
  BY <1>1, <1>2 DEF IInv

(* The user, the server and the signal *)
LEMMA WorldIInv == IInv /\ World => IInv'
<1> SUFFICES ASSUME IInv, World PROVE IInv'
  OBVIOUS
<1> USE DEF IInv, input, reading, network
<1>1. ASSUME NEW w \in Word \cup {EndOfInput}, EnterLine(w) PROVE IInv'
  <2> DEFINE l == [word |-> w, n |-> Len(typed) + 1]
  <2>1. /\ l \in Line /\ typed' = Append(typed, l) /\ Len(typed) \in Nat
        /\ typed \in Seq(Line)
    BY <1>1 DEF EnterLine, TypeOK, Line
  <2>2. /\ typed' \in Seq(Line) /\ Len(typed') = Len(typed) + 1
        /\ \A i \in 1..Len(typed) : typed'[i] = typed[i]
        /\ typed'[Len(typed) + 1] = l
    <3> HIDE DEF l
    <3>1. QED
      BY <2>1
  <2>3. TypeOK'
    BY <1>1, <2>1, <2>2 DEF EnterLine, TypeOK
  <2>4. InputInv'
    <3>1. ASSUME NEW i \in 1..Len(typed')
          PROVE  typed'[i].n = i /\ (typed'[i].word = EndOfInput => kind = "terminal")
      <4>1. CASE i \in 1..Len(typed)
        BY <2>2, <4>1 DEF InputInv
      <4>2. CASE i = Len(typed) + 1
        BY <1>1, <2>2, <4>2 DEF EnterLine
      <4>3. QED
        BY <2>1, <2>2, <4>1, <4>2
    <3>2. QED
      BY <1>1, <2>1, <2>2, <3>1 DEF EnterLine, InputInv, TypeOK
  <2>5. LinesInOrder'
    <3>1. Handled' = Handled /\ Handled <= Len(typed) /\ Handled \in Int
      BY <1>1 DEF EnterLine, InputInv, TypeOK, Handled
    <3>2. \A i \in 1..Handled : i \in 1..Len(typed) /\ typed'[i] = typed[i]
      BY <2>1, <2>2, <3>1
    <3>3. QED
      BY <1>1, <3>1, <3>2 DEF EnterLine, LinesInOrder, HasEnded, IsForServer, TypeOK
  <2>6. EndInv'
    BY <1>1 DEF EnterLine, EndInv, HasEnded
  <2>7. QED
    BY <2>3, <2>4, <2>5, <2>6
<1>2. CASE ClosePipe
  BY <1>2 DEF ClosePipe, TypeOK, InputInv, LinesInOrder, EndInv, Handled, HasEnded,
     IsForServer
<1>3. CASE ServerAnswers
  <2>1. TypeOK' /\ InputInv'
    BY <1>3 DEF ServerAnswers, TypeOK, InputInv
  <2>2. LinesInOrder'
    BY <1>3 DEF ServerAnswers, LinesInOrder, Handled, HasEnded, IsForServer
  <2>3. EndInv'
    BY <1>3 DEF ServerAnswers, TypeOK, EndInv, HasEnded
  <2>4. QED
    BY <2>1, <2>2, <2>3
<1>4. CASE ServerCloses
  <2>1. TypeOK' /\ InputInv'
    BY <1>4 DEF ServerCloses, TypeOK, InputInv
  <2>2. LinesInOrder'
    BY <1>4 DEF ServerCloses, LinesInOrder, Handled, HasEnded, IsForServer
  <2>3. EndInv'
    BY <1>4 DEF ServerCloses, TypeOK, EndInv, HasEnded
  <2>4. QED
    BY <2>1, <2>2, <2>3
<1>5. CASE Interrupt
  <2>1. pc' \in {pc, "test"} /\ (pc' = "line" <=> pc = "line") /\ ~HasEnded /\ ~HasEnded'
    BY <1>5 DEF Interrupt, HasEnded
  <2>2. TypeOK' /\ InputInv'
    BY <1>5, <2>1 DEF Interrupt, TypeOK, InputInv
  <2>3. LinesInOrder' /\ EndInv'
    BY <1>5, <2>1 DEF Interrupt, LinesInOrder, Handled, EndInv, IsForServer
  <2>4. QED
    BY <2>2, <2>3
<1>6. QED
  BY <1>1, <1>2, <1>3, <1>4, <1>5 DEF World

(* The loop *)
LEMMA StepIInv == IInv /\ Step => IInv'
<1> SUFFICES ASSUME IInv, Step PROVE IInv'
  OBVIOUS
<1> USE DEF IInv, input, reading, network, At
<1>1. CASE TestRunning
  <2>1. LinesInOrder'
    BY <1>1, OrderKept DEF TestRunning, HasEnded
  <2>2. QED
    BY <1>1, <2>1 DEF TestRunning, TypeOK, InputInv, EndInv, HasEnded
<1>2. CASE EnterPoll
  <2>1. LinesInOrder'
    BY <1>2, OrderKept DEF EnterPoll, HasEnded
  <2>2. QED
    BY <1>2, <2>1 DEF EnterPoll, TypeOK, InputInv, EndInv, HasEnded
<1>3. CASE PollReturns
  <2>1. LinesInOrder'
    BY <1>3, OrderKept DEF PollReturns, HasEnded
  <2>2. /\ revents' \in [hup : BOOLEAN, sock : BOOLEAN, stdin : BOOLEAN]
        /\ revents'.hup = (conn = "reset")
    BY <1>3 DEF PollReturns, TypeOK, StdinReadable
  <2>3. QED
    BY <1>3, <2>1, <2>2 DEF PollReturns, TypeOK, InputInv, EndInv, HasEnded
<1>4. CASE CheckEvents
  <2>1. pc = "hup" /\ pc' \in {"ended", "recv", "fgets", "test"}
        /\ (pc' = "ended" => revents.hup)
    BY <1>4 DEF CheckEvents
  <2>2. LinesInOrder'
    BY <1>4, <2>1, OrderKept DEF CheckEvents, HasEnded
  <2>3. QED
    BY <1>4, <2>1, <2>2 DEF CheckEvents, TypeOK, InputInv, EndInv, HasEnded
<1>5. CASE Receive
  <2>1. LinesInOrder'
    BY <1>5, OrderKept DEF Receive, HasEnded
  <2>2. TypeOK' /\ answers' = shown' + down'
    BY <1>5 DEF Receive, TypeOK, EndInv
  <2>3. QED
    BY <1>5, <2>1, <2>2 DEF Receive, InputInv, EndInv, HasEnded
<1>6. CASE Disconnected
  <2>1. pc = "recv" /\ pc' \in {"ended", "failed"} /\ conn # "open" /\ down = 0
    BY <1>6 DEF Disconnected
  <2>2. LinesInOrder'
    BY <1>6, <2>1, OrderKept DEF Disconnected, HasEnded
  <2>3. QED
    BY <1>6, <2>1, <2>2 DEF Disconnected, TypeOK, InputInv, EndInv, HasEnded
<1>7. CASE TakeLine
  <2>1. /\ pc = "fgets" /\ pc' = "line" /\ taken' = taken + 1 /\ ahead' = ReadAhead
        /\ taken' <= ReadAhead /\ taken' \in 1..Len(typed)
        /\ buffer' = typed[taken'] /\ buffer' \in Line /\ buffer'.word # EndOfInput
        /\ UNCHANGED <<revents, client_running, kind, typed, pipeClosed, up, down,
                       conn, sent, answers, shown>>
    BY <1>7, ReadAheadRange DEF TakeLine, FindsLine, TypeOK, InputInv
  <2>2. TypeOK'
    BY <2>1, ReadAheadRange DEF TypeOK
  <2>3. InputInv'
    BY <2>1, ReadAheadRange DEF TypeOK, InputInv
  <2>4. LinesInOrder'
    <3>1. Handled' = Handled /\ ~HasEnded
      BY <2>1 DEF Handled, HasEnded, TypeOK
    <3>2. QED
      BY <2>1, <3>1 DEF LinesInOrder, IsForServer
  <2>5. EndInv'
    BY <2>1 DEF EndInv, HasEnded
  <2>6. QED
    BY <2>2, <2>3, <2>4, <2>5
<1>8. CASE InputEnds
  <2>1. /\ pc = "fgets" /\ pc' = "test" /\ taken' = ReadAhead /\ ahead' = ReadAhead
        /\ ~FindsLine
        /\ UNCHANGED <<revents, client_running, buffer, kind, typed, pipeClosed,
                       up, down, conn, sent, answers, shown>>
    BY <1>8 DEF InputEnds
  <2>2. TypeOK' /\ InputInv' /\ EndInv'
    BY <2>1, ReadAheadRange DEF TypeOK, InputInv, EndInv, HasEnded
  <2>3. ASSUME NEW i \in 1..ReadAhead, i \notin 1..taken
        PROVE  ~IsForServer(typed[i])
    <3>1. ReadAhead > taken /\ typed[taken + 1].word = EndOfInput
      BY <2>1, <2>3, ReadAheadRange DEF FindsLine, TypeOK
    <3>2. taken + 1 \in 1..Len(typed)
      BY <3>1, ReadAheadRange DEF TypeOK
    <3>3. kind = "terminal"
      BY <3>1, <3>2 DEF InputInv
    <3>4. i = taken + 1
      BY <2>3, <3>3, ReadAheadRange DEF TypeOK
    <3>5. QED
      BY <3>1, <3>4 DEF IsForServer, EndOfInput
  <2>4. LinesInOrder'
    <3>1. Handled = taken /\ Handled' = ReadAhead /\ ~HasEnded
      BY <2>1 DEF Handled, HasEnded
    <3>2. \A i \in 1..taken : i \in 1..ReadAhead
      BY ReadAheadRange DEF TypeOK
    <3>3. QED
      BY <2>1, <2>3, <3>1, <3>2 DEF LinesInOrder, IsForServer
  <2>5. QED
    BY <2>2, <2>4
<1>9. CASE HandleHere
  <2>1. LinesInOrder'
    BY <1>9, OrderDropped DEF HandleHere, IsForServer
  <2>2. QED
    BY <1>9, <2>1 DEF HandleHere, TypeOK, InputInv, EndInv, HasEnded
<1>10. CASE HandleLeave
  <2>1. LinesInOrder'
    BY <1>10, OrderDropped DEF HandleLeave, IsForServer
  <2>2. QED
    BY <1>10, <2>1 DEF HandleLeave, TypeOK, InputInv, EndInv, HasEnded
<1>11. CASE HandleQuit
  <2>1. CASE conn = "reset"
    <3>1. HasEnded'
      BY <1>11 DEF HandleQuit, HasEnded
    <3>2. LinesInOrder'
      BY <1>11, <2>1, <3>1, OrderDropped DEF HandleQuit
    <3>3. QED
      BY <1>11, <2>1, <3>2 DEF HandleQuit, TypeOK, InputInv, EndInv, HasEnded
  <2>2. CASE conn # "reset"
    <3>1. IsForServer(buffer) /\ Send(buffer) /\ pc = "line" /\ pc' = "ended"
      BY <1>11, <2>2 DEF HandleQuit, IsForServer
    <3>2. LinesInOrder' /\ sent' \in Seq(Line)
      BY <1>11, <3>1, OrderSent DEF HandleQuit, Send
    <3>3. buffer \in Line
      BY <3>1 DEF TypeOK, InputInv
    <3>4. up' \in Seq(Line) /\ conn' \in {"open", "fin", "reset"}
      BY <3>1, <3>3 DEF Send, TypeOK
    <3>5. QED
      BY <1>11, <2>2, <3>1, <3>2, <3>4 DEF HandleQuit, Send, TypeOK, InputInv, EndInv,
        HasEnded
  <2>3. QED
    BY <2>1, <2>2
<1>12. CASE SendCommand
  <2>1. buffer \in Line /\ pc = "line" /\ pc' = "test" /\ Send(buffer)
    BY <1>12 DEF SendCommand, TypeOK, InputInv
  <2>2. buffer.word # EndOfInput
    BY <2>1 DEF InputInv
  <2>3. IsForServer(buffer)
    BY <1>12, <2>1, <2>2 DEF SendCommand, IsForServer, Line, Word
  <2>4. LinesInOrder' /\ sent' \in Seq(Line)
    BY <1>12, <2>1, <2>3, OrderSent DEF SendCommand, Send
  <2>5. up' \in Seq(Line) /\ conn' \in {"open", "fin", "reset"}
    BY <2>1 DEF Send, TypeOK
  <2>6. QED
    BY <1>12, <2>1, <2>4, <2>5 DEF SendCommand, Send, TypeOK, InputInv, EndInv, HasEnded
<1>13. CASE SendFails
  <2>1. HasEnded'
    BY <1>13 DEF SendFails, HasEnded
  <2>2. LinesInOrder'
    BY <1>13, <2>1, OrderDropped DEF SendFails
  <2>3. QED
    BY <1>13, <2>2 DEF SendFails, TypeOK, InputInv, EndInv, HasEnded
<1>14. QED
  BY <1>1, <1>2, <1>3, <1>4, <1>5, <1>6, <1>7, <1>8, <1>9, <1>10, <1>11, <1>12,
     <1>13 DEF Step

(* IInv holds in every state and is kept by every step: the client, the    *)
(* input and the server, in any order.                                     *)
THEOREM Inductive == Spec => []IInv
<1>1. IInv /\ [Next]_vars => IInv'
  <2> SUFFICES ASSUME IInv, [Next]_vars PROVE IInv'
    OBVIOUS
  <2>1. CASE UNCHANGED vars
    BY <2>1 DEF vars, input, reading, network, IInv, TypeOK, InputInv, LinesInOrder,
       EndInv, Handled, HasEnded, IsForServer
  <2>2. QED
    BY <2>1, StepIInv, WorldIInv DEF Next
<1>2. QED
  BY InitIInv, <1>1, PTL DEF Spec

(* run_console sends the server the lines that the user entered, each once *)
(* and in order, for any input and at any time the server may close.       *)
THEOREM LinesAreInOrder == Spec => []LinesInOrder
<1>1. IInv => LinesInOrder
  BY DEF IInv
<1>2. QED
  BY Inductive, <1>1, PTL

(* A client that neither was told to leave nor lost its connection has     *)
(* shown every response when run_console returns.                          *)
THEOREM NoResponseLost == Spec => []ResponsesShown
<1>1. IInv => ResponsesShown
  BY DEF IInv, TypeOK, EndInv, ResponsesShown
<1>2. QED
  BY Inductive, <1>1, PTL

=============================================================================
