-------------------------- MODULE ReplSessionProofs --------------------------
(* Proofs about ReplSession, for any capacities and bounds.                *)
EXTENDS ReplSession, SequenceTheorems, TLAPS

Live == repl # "ended"

(* Until the REPL leaves, the socket is open and the handler serves it;    *)
(* recv_task does not outlive the loop.                                    *)
Serving ==
  /\ Live => link = "open" /\ handler \in {"reading", "working"}
  /\ ~Live => receiver = "ended"

ResponseAt(i) == i \in 1..Len(toRepl) /\ toRepl[i].kind = "response"
NoticeAt(i) == i \in 1..Len(toRepl) /\ toRepl[i].kind = "notice"

(* The places where the command or its response can be.                    *)
Sent == toDaemon # <<>>
Worked == handler = "working"
UnderWay == \E i \in 1..Len(toRepl) : ResponseAt(i)
Held == receiver = "passing"
Ready == responses # <<>>

InOnePlace ==
  /\ Sent => Len(toDaemon) = 1 /\ ~Worked /\ ~UnderWay /\ ~Held /\ ~Ready
  /\ Worked => ~UnderWay /\ ~Held /\ ~Ready
  /\ UnderWay => ~Held /\ ~Ready
  /\ Held => ~Ready
  /\ Ready => Len(responses) = 1
  /\ \A i, j \in 1..Len(toRepl) : ResponseAt(i) /\ ResponseAt(j) => i = j

OfLastCommand ==
  /\ Sent => toDaemon[1] = asked
  /\ Worked => inHand = asked
  /\ \A i \in 1..Len(toRepl) : ResponseAt(i) => toRepl[i].no = asked
  /\ Held => held = asked
  /\ Ready => responses[1] = asked

NothingAtPrompt ==
  repl = "prompt" => ~Sent /\ ~Worked /\ ~UnderWay /\ ~Held /\ ~Ready

Places == InOnePlace /\ OfLastCommand /\ NothingAtPrompt

(* The loop has one response, or 0, for each command before the last.      *)
RepliesInOrder ==
  /\ OwnAnswer
  /\ Len(replies) = IF repl = "waiting" THEN asked - 1 ELSE asked

AnswerInv ==
  /\ TypeOK
  /\ Serving
  /\ Live => Places
  /\ RepliesInOrder

(* The notices under way continue what has been printed, up to the last    *)
(* one that notify_task has written.                                       *)
Top == IF notifier = "writing" THEN next - 1 ELSE next

UnderWayOrdered ==
  /\ Len(printed) <= Top
  /\ \A i \in 1..Len(toRepl) :
       NoticeAt(i) => Len(printed) < toRepl[i].no /\ toRepl[i].no <= Top
  /\ \A i, j \in 1..Len(toRepl) :
       NoticeAt(i) /\ NoticeAt(j) /\ i < j => toRepl[i].no < toRepl[j].no

UnderWayWithoutHoles ==
  running \/ toRepl # <<>> =>
    \A n \in Nat : Len(printed) < n /\ n <= Top =>
      \E i \in 1..Len(toRepl) : NoticeAt(i) /\ toRepl[i].no = n

NoticesContinue == UnderWayOrdered /\ UnderWayWithoutHoles

NoticeInv ==
  /\ TypeOK
  /\ Serving
  /\ Live => NoticesContinue
  /\ NoticesWithoutHoles

-----------------------------------------------------------------------------
(* Lemmas.                                                                 *)

(* The notices on the channel are as many as were posted.                  *)
LEMMA LenNotices ==
  ASSUME posted \in Nat
  PROVE  Len(Notices) = posted
BY DEF Notices

(* While the REPL is there, a line that is written is appended.            *)
LEMMA WriteAppends ==
  ASSUME NEW line, Write(line), link = "open"
  PROVE  toRepl' = Append(toRepl, line) /\ link' = "open"
BY DEF Write

(* Reading a line off shifts the others.                                   *)
LEMMA TailShifts ==
  ASSUME NEW S, NEW s \in Seq(S), s # <<>>
  PROVE  /\ Head(s) = s[1] /\ Head(s) \in S
         /\ Tail(s) \in Seq(S) /\ Len(Tail(s)) = Len(s) - 1
         /\ Len(s) \in Nat /\ Len(s) >= 1
         /\ \A i \in 1..Len(Tail(s)) : i + 1 \in 1..Len(s) /\ Tail(s)[i] = s[i + 1]
OBVIOUS

LEMMA TailOfOne ==
  ASSUME NEW S, NEW s \in Seq(S), Len(s) = 1
  PROVE  Tail(s) = <<>>
<1>1. Tail(s) \in Seq(S) /\ Len(Tail(s)) = 0
  OBVIOUS
<1> QED
  BY <1>1, EmptySeq

(* Appending leaves the lines before as they are.                          *)
LEMMA AppendKeeps ==
  ASSUME NEW S, NEW s \in Seq(S), NEW x \in S
  PROVE  /\ Append(s, x) \in Seq(S) /\ Len(Append(s, x)) = Len(s) + 1
         /\ Append(s, x) # <<>> /\ Len(s) \in Nat
         /\ Append(s, x)[Len(s) + 1] = x
         /\ \A i \in 1..Len(s) : Append(s, x)[i] = s[i]
OBVIOUS

-----------------------------------------------------------------------------
(* Type correctness.                                                       *)

LEMMA TypeInit == Init => TypeOK
BY ReplAssumption DEF Init, TypeOK, Line

(* What a write leaves on its way consists of lines.                       *)
LEMMA WriteTypes ==
  ASSUME TypeOK, NEW line \in Line, Write(line)
  PROVE  toRepl' \in Seq(Line) /\ link' \in {"open", "closing", "reset"}
<1>1. CASE link = "open"
  <2>1. toRepl' = Append(toRepl, line) /\ link' = "open"
    BY <1>1, WriteAppends
  <2>2. toRepl \in Seq(Line)
    BY DEF TypeOK
  <2>3. Append(toRepl, line) \in Seq(Line)
    BY <2>2, AppendKeeps
  <2> QED
    BY <2>1, <2>3
<1>2. CASE link = "closing"
  BY <1>2 DEF Write, TypeOK
<1>3. CASE link = "reset"
  BY <1>3 DEF Write, TypeOK
<1> QED
  BY <1>1, <1>2, <1>3 DEF TypeOK

LEMMA TypeStep ==
  ASSUME TypeOK, [Next]_vars
  PROVE  TypeOK'
<1>1. CASE PostNotice
  BY <1>1, ReplAssumption DEF TypeOK, PostNotice, replVars
<1>2. CASE TakeNotice
  <2>1. Len(Notices) = posted
    BY LenNotices DEF TypeOK
  <2>2. next < posted
    BY <1>2, <2>1 DEF TakeNotice, HasValue
  <2> QED
    BY <1>2, <2>2 DEF TypeOK, TakeNotice, replVars
<1>3. CASE NotifierLags
  BY <1>3 DEF TypeOK, NotifierLags, EndsAtLagged, replVars
<1>4. CASE WriteNotice
  <2>1. [kind |-> "notice", no |-> next] \in Line
    BY DEF TypeOK, Line
  <2>2. toRepl' \in Seq(Line) /\ link' \in {"open", "closing", "reset"}
    BY <1>4, <2>1, WriteTypes DEF WriteNotice
  <2> QED
    BY <1>4, <2>2 DEF TypeOK, WriteNotice, replVars
<1>5. CASE NotifierAborted
  BY <1>5 DEF TypeOK, NotifierAborted, replVars
<1>6. CASE ReadRequest
  BY <1>6 DEF TypeOK, ReadRequest, replVars
<1>7. CASE ReadEnd
  BY <1>7 DEF TypeOK, ReadEnd, replVars
<1>8. CASE Respond
  <2>1. [kind |-> "response", no |-> inHand] \in Line
    BY DEF TypeOK, Line
  <2>2. toRepl' \in Seq(Line) /\ link' \in {"open", "closing", "reset"}
    BY <1>8, <2>1, WriteTypes DEF Respond
  <2> QED
    BY <1>8, <2>2 DEF TypeOK, Respond, replVars
<1>9. CASE DaemonExits
  <2>1. <<>> \in Seq(Line) /\ <<>> \in Seq(Nat)
    OBVIOUS
  <2>2. toRepl' \in Seq(Line)
    BY <1>9, <2>1 DEF TypeOK, DaemonExits
  <2>3. toDaemon' \in Seq(Nat)
    BY <1>9, <2>1 DEF DaemonExits
  <2> QED
    BY <1>9, <2>2, <2>3 DEF TypeOK, DaemonExits, replVars
<1>10. CASE PrintNotice
  <2>1. Head(toRepl) \in Line /\ Tail(toRepl) \in Seq(Line)
    BY <1>10, TailShifts DEF TypeOK, PrintNotice
  <2>2. Head(toRepl).no \in Nat
    BY <2>1 DEF Line
  <2> QED
    BY <1>10, <2>1, <2>2 DEF TypeOK, PrintNotice, daemonVars
<1>11. CASE TakeResponse
  <2>1. Head(toRepl) \in Line /\ Tail(toRepl) \in Seq(Line)
    BY <1>11, TailShifts DEF TypeOK, TakeResponse
  <2>2. Head(toRepl).no \in Nat
    BY <2>1 DEF Line
  <2> QED
    BY <1>11, <2>1, <2>2 DEF TypeOK, TakeResponse, daemonVars
<1>12. CASE PassResponse
  BY <1>12, ReplAssumption DEF TypeOK, PassResponse, daemonVars
<1>13. CASE ReceiveEnd
  BY <1>13 DEF TypeOK, ReceiveEnd, daemonVars
<1>14. CASE PrintResponse
  BY <1>14, ReplAssumption DEF TypeOK, PrintResponse, daemonVars
<1>15. CASE GiveUp
  BY <1>15, ReplAssumption DEF TypeOK, GiveUp, OnNoResponse, Leave, daemonVars
<1>16. CASE SendCommand
  BY <1>16, ReplAssumption DEF TypeOK, SendCommand, daemonVars
<1>17. CASE Exit
  BY <1>17, ReplAssumption DEF TypeOK, Exit, Leave, daemonVars
<1>18. CASE PushRx
  <2>1. [kind |-> "rx_data", no |-> 0] \in Line
    BY DEF Line
  <2>2. toRepl' \in Seq(Line) /\ link' \in {"open", "closing", "reset"}
    BY <1>18, <2>1, WriteTypes DEF PushRx
  <2> QED
    BY <1>18, <2>2 DEF TypeOK, PushRx, replVars
<1>19. CASE PrintRxData
  <2>1. Tail(toRepl) \in Seq(Line)
    BY <1>19, TailShifts DEF TypeOK, PrintRxData
  <2> QED
    BY <1>19, <2>1 DEF TypeOK, PrintRxData, daemonVars, replVars
<1>20. CASE UNCHANGED vars
  BY <1>20 DEF TypeOK, vars, daemonVars, replVars
<1> QED
  BY <1>1, <1>2, <1>3, <1>4, <1>5, <1>6, <1>7, <1>8, <1>9, <1>10, <1>11, <1>12,
     <1>13, <1>14, <1>15, <1>16, <1>17, <1>18, <1>19, <1>20
  DEF Next, Notifier, Receiver, Loop, User

(* The sets, sequences and numbers of a session keep their types (repl.rs  *)
(* and the notify task of daemon.rs), for all capacities and bounds.       *)
THEOREM TypeCorrect == Spec => []TypeOK
<1>1. Init => TypeOK
  BY TypeInit
<1>2. TypeOK /\ [Next]_vars => TypeOK'
  BY TypeStep
<1> QED
  BY <1>1, <1>2, PTL DEF Spec

(* Until the REPL leaves, nothing ends the connection on the daemon's side *)
(* but the daemon's exit; recv_task ends with the loop.                    *)
LEMMA ServingStep ==
  ASSUME TypeOK, Serving, [Next]_vars
  PROVE  Serving'
<1>1. CASE PostNotice \/ TakeNotice \/ NotifierLags \/ NotifierAborted
  BY <1>1 DEF Serving, Live, PostNotice, TakeNotice, NotifierLags, NotifierAborted, replVars
<1>2. CASE WriteNotice
  BY <1>2 DEF Serving, Live, WriteNotice, Write, replVars
<1>3. CASE ReadRequest \/ ReadEnd \/ DaemonExits
  BY <1>3 DEF Serving, Live, ReadRequest, ReadEnd, DaemonExits, replVars
<1>4. CASE Respond \/ PushRx
  BY <1>4 DEF Serving, Live, Respond, PushRx, Write, replVars
<1>5. CASE PrintNotice \/ PrintRxData \/ TakeResponse \/ PassResponse \/ ReceiveEnd
           \/ PrintResponse
  BY <1>5 DEF Serving, Live, PrintNotice, PrintRxData, TakeResponse, PassResponse, ReceiveEnd,
              PrintResponse, daemonVars, replVars
<1>6. CASE GiveUp
  BY <1>6 DEF Serving, Live, GiveUp, OnNoResponse, Leave
<1>7. CASE SendCommand
  BY <1>7 DEF Serving, Live, SendCommand, daemonVars
<1>8. CASE Exit
  BY <1>8 DEF Serving, Live, Exit, Leave
<1>9. CASE UNCHANGED vars
  BY <1>9 DEF Serving, Live, vars, daemonVars, replVars
<1> QED
  BY <1>1, <1>2, <1>3, <1>4, <1>5, <1>6, <1>7, <1>8, <1>9
  DEF Next, Notifier, Receiver, Loop, User

-----------------------------------------------------------------------------
(* The loop prints the response to its own command.                        *)

(* What is outstanding does not depend on the notices.                     *)
LEMMA PlacesKept ==
  ASSUME TypeOK, TypeOK', Places,
         \A i \in Nat : /\ ResponseAt(i)' => ResponseAt(i)
                        /\ ResponseAt(i) => toRepl'[i] = toRepl[i],
         toDaemon' = toDaemon, handler' = handler, inHand' = inHand,
         Held' <=> Held, held' = held, responses' = responses,
         repl' = repl, asked' = asked
  PROVE  Places'
<1>1. \A i \in 1..Len(toRepl') : i \in Nat
  BY DEF TypeOK
<1>2. UnderWay' => UnderWay
  BY <1>1 DEF UnderWay, ResponseAt
<1>3. InOnePlace'
  BY <1>1, <1>2 DEF Places, InOnePlace, Sent, Worked, Ready, ResponseAt
<1>4. OfLastCommand'
  BY <1>1 DEF Places, OfLastCommand, Sent, Worked, Ready, ResponseAt
<1>5. NothingAtPrompt'
  BY <1>2 DEF Places, NothingAtPrompt, Sent, Worked, Ready
<1> QED
  BY <1>3, <1>4, <1>5 DEF Places

LEMMA PlacesStep ==
  ASSUME AnswerInv, TypeOK', Live, Places, [Next]_vars, Live'
  PROVE  Places'
<1>0. TypeOK /\ link = "open" /\ handler \in {"reading", "working"}
  BY DEF AnswerInv, Serving
<1> USE <1>0
<1>1. CASE PostNotice \/ TakeNotice \/ NotifierLags \/ ReceiveEnd \/ UNCHANGED vars
  <2>1. /\ UNCHANGED <<toDaemon, handler, inHand, toRepl, held, responses, repl, asked>>
        /\ Held' <=> Held
    BY <1>1 DEF PostNotice, TakeNotice, NotifierLags, ReceiveEnd, vars, daemonVars,
                replVars, Held
  <2>2. \A i \in Nat : ResponseAt(i)' => ResponseAt(i)
    BY <2>1 DEF ResponseAt
  <2> QED
    BY <2>1, <2>2, PlacesKept
<1>2. CASE WriteNotice \/ PushRx
  <2>1. PICK line \in Line : line.kind # "response" /\ toRepl' = Append(toRepl, line)
    <3>1. CASE WriteNotice
      BY <1>2, <3>1, WriteAppends DEF WriteNotice, Line, TypeOK
    <3>2. CASE PushRx
      BY <1>2, <3>2, WriteAppends DEF PushRx, Line
    <3> QED
      BY <1>2, <3>1, <3>2
  <2>2. /\ Len(toRepl') = Len(toRepl) + 1 /\ Len(toRepl) \in Nat
        /\ toRepl'[Len(toRepl) + 1] = line
        /\ \A i \in 1..Len(toRepl) : toRepl'[i] = toRepl[i]
    BY <2>1, AppendKeeps DEF TypeOK
  <2>3. \A i \in Nat : /\ ResponseAt(i)' => ResponseAt(i)
                       /\ ResponseAt(i) => toRepl'[i] = toRepl[i]
    BY <2>1, <2>2 DEF ResponseAt
  <2> QED
    BY <1>2, <2>3, PlacesKept DEF WriteNotice, PushRx, replVars, Held
<1>3. CASE NotifierAborted \/ ReadEnd
  BY <1>3 DEF NotifierAborted, ReadEnd
<1>4. CASE ReadRequest
  <2>1. Sent /\ Worked' /\ ~Sent'
    <3>1. Sent /\ Len(toDaemon) = 1
      BY <1>4 DEF ReadRequest, Places, InOnePlace, Sent
    <3>2. toDaemon' = <<>>
      BY <1>4, <3>1, TailOfOne DEF ReadRequest, TypeOK
    <3> QED
      BY <1>4, <3>1, <3>2 DEF ReadRequest, Worked, Sent
  <2>2. inHand' = asked
    BY <1>4, <2>1, TailShifts DEF ReadRequest, Places, OfLastCommand, TypeOK, Sent
  <2>3. UNCHANGED <<toRepl, receiver, held, responses, repl, asked>>
    BY <1>4 DEF ReadRequest, replVars
  <2> QED
    BY <2>1, <2>2, <2>3 DEF Places, InOnePlace, OfLastCommand, NothingAtPrompt, UnderWay,
                            Held, Ready, ResponseAt
<1>5. CASE Respond
  <2> DEFINE line == [kind |-> "response", no |-> inHand]
  <2>1. line \in Line /\ toRepl \in Seq(Line)
    BY DEF TypeOK, Line
  <2>2. toRepl' = Append(toRepl, line)
    BY <1>5, WriteAppends DEF Respond
  <2>3. /\ Len(toRepl') = Len(toRepl) + 1 /\ Len(toRepl) \in Nat
        /\ toRepl'[Len(toRepl) + 1] = line
        /\ \A i \in 1..Len(toRepl) : toRepl'[i] = toRepl[i]
    BY <2>1, <2>2, AppendKeeps
  <2>4. Worked /\ ~Sent /\ ~UnderWay /\ ~Held /\ ~Ready /\ inHand = asked
    BY <1>5 DEF Respond, Worked, Places, InOnePlace, OfLastCommand
  <2>5. UNCHANGED <<toDaemon, receiver, held, responses, repl, asked>> /\ ~Worked'
    BY <1>5 DEF Respond, replVars, Worked
  <2>6. line.no = asked
    BY <2>4
  <2> HIDE DEF line
  <2>7. \A i \in 1..Len(toRepl') : ResponseAt(i)' => i = Len(toRepl) + 1
    BY <2>3, <2>4 DEF ResponseAt, UnderWay
  <2>8. repl # "prompt"
    BY <2>4 DEF Places, NothingAtPrompt
  <2>9. InOnePlace'
    BY <2>4, <2>5, <2>7 DEF InOnePlace, Sent, Held, Ready
  <2>10. OfLastCommand'
    BY <2>3, <2>4, <2>5, <2>6, <2>7 DEF OfLastCommand, Sent, Held, Ready
  <2> QED
    BY <2>5, <2>8, <2>9, <2>10 DEF Places, NothingAtPrompt
<1>6. CASE DaemonExits
  <2>1. \A i \in Nat : ResponseAt(i)' => ResponseAt(i) /\ toRepl'[i] = toRepl[i]
    BY <1>6 DEF DaemonExits, ResponseAt
  <2>2. ~Sent' /\ UNCHANGED <<handler, inHand, receiver, held, responses, repl, asked>>
    BY <1>6 DEF DaemonExits, Sent, replVars
  <2>3. \A i \in 1..Len(toRepl') : i \in Nat
    BY DEF TypeOK
  <2>4. UnderWay' => UnderWay
    BY <2>1, <2>3 DEF UnderWay, ResponseAt
  <2>5. InOnePlace'
    BY <2>1, <2>2, <2>3, <2>4 DEF Places, InOnePlace, Worked, Held, Ready, ResponseAt
  <2>6. OfLastCommand'
    BY <2>1, <2>2, <2>3 DEF Places, OfLastCommand, Worked, Held, Ready, ResponseAt
  <2> QED
    BY <2>2, <2>4, <2>5, <2>6 DEF Places, NothingAtPrompt, Worked, Held, Ready
<1>7. CASE PrintNotice \/ PrintRxData \/ TakeResponse
  <2>1. /\ toRepl \in Seq(Line) /\ toRepl # <<>> /\ toRepl' = Tail(toRepl)
    BY <1>7 DEF TypeOK, PrintNotice, PrintRxData, TakeResponse
  <2>2. /\ Head(toRepl) = toRepl[1]
        /\ Len(toRepl') = Len(toRepl) - 1 /\ Len(toRepl) \in Nat /\ Len(toRepl) >= 1
        /\ \A i \in 1..Len(toRepl') : i + 1 \in 1..Len(toRepl) /\ toRepl'[i] = toRepl[i + 1]
    BY <2>1, TailShifts
  <2>3. \A i \in 1..Len(toRepl') :
          ResponseAt(i)' => ResponseAt(i + 1) /\ toRepl'[i] = toRepl[i + 1]
    BY <2>2 DEF ResponseAt
  <2>4. UnderWay' => UnderWay
    BY <2>2, <2>3 DEF UnderWay
  <2>5. \A i, j \in 1..Len(toRepl') : ResponseAt(i)' /\ ResponseAt(j)' => i = j
    <3> TAKE i, j \in 1..Len(toRepl')
    <3>1. i + 1 \in 1..Len(toRepl) /\ j + 1 \in 1..Len(toRepl) /\ i \in Nat /\ j \in Nat
      BY <2>2
    <3>2. ResponseAt(i)' /\ ResponseAt(j)' => i + 1 = j + 1
      BY <2>3, <3>1 DEF Places, InOnePlace
    <3> QED
      BY <3>1, <3>2
  <2>6. \A i \in 1..Len(toRepl') : ResponseAt(i)' => toRepl'[i].no = asked
    BY <2>2, <2>3 DEF Places, OfLastCommand
  <2>7. CASE PrintNotice \/ PrintRxData
    <3>1. UNCHANGED <<toDaemon, handler, inHand, receiver, held, responses, repl, asked>>
      BY <2>7 DEF PrintNotice, PrintRxData, daemonVars, replVars
    <3> QED
      BY <2>4, <2>5, <2>6, <3>1 DEF Places, InOnePlace, OfLastCommand, NothingAtPrompt,
                                    Sent, Worked, Held, Ready
  <2>8. CASE TakeResponse
    <3>1. /\ UNCHANGED <<toDaemon, handler, inHand, responses, repl, asked>>
          /\ Held' /\ held' = toRepl[1].no
      BY <2>2, <2>8 DEF TakeResponse, daemonVars, Held
    <3>2. toRepl[1] \in Line /\ toRepl[1].kind \notin {"notice", "rx_data"}
      BY <2>1, <2>2, <2>8 DEF TakeResponse, IsNotification
    <3>3. ResponseAt(1)
      BY <2>2, <3>2 DEF ResponseAt, Line
    <3>4. held' = asked /\ UnderWay
      BY <2>2, <3>1, <3>3 DEF Places, OfLastCommand, UnderWay
    <3>5. ~UnderWay'
      <4>1. ASSUME NEW i \in 1..Len(toRepl'), ResponseAt(i)'
            PROVE  FALSE
        <5>1. ResponseAt(i + 1) /\ i + 1 \in 1..Len(toRepl) /\ i \in Nat /\ i >= 1
          BY <2>2, <2>3, <4>1
        <5>2. i + 1 = 1
          BY <2>2, <3>3, <5>1 DEF Places, InOnePlace
        <5> QED
          BY <5>1, <5>2
      <4> QED
        BY <4>1 DEF UnderWay
    <3>6. ~Sent /\ ~Worked /\ ~Held /\ ~Ready /\ repl # "prompt"
      BY <3>4 DEF Places, InOnePlace, NothingAtPrompt
    <3>7. InOnePlace'
      BY <2>5, <3>1, <3>5, <3>6 DEF InOnePlace, Sent, Worked, Ready
    <3>8. OfLastCommand'
      BY <2>6, <3>1, <3>4, <3>6 DEF OfLastCommand, Sent, Worked, Ready
    <3> QED
      BY <3>1, <3>6, <3>7, <3>8 DEF Places, NothingAtPrompt
  <2> QED
    BY <1>7, <2>7, <2>8
<1>8. CASE PassResponse
  <2>1. Held /\ ~Ready /\ ~Sent /\ ~Worked /\ ~UnderWay /\ held = asked
    BY <1>8 DEF PassResponse, Held, Places, InOnePlace, OfLastCommand
  <2>2. /\ responses = <<>> /\ responses' = Append(responses, held) /\ held \in Nat
        /\ UNCHANGED <<toDaemon, handler, inHand, toRepl, repl, asked>> /\ ~Held'
    BY <1>8, <2>1 DEF PassResponse, daemonVars, Held, Ready, TypeOK
  <2>3. Len(responses') = 1 /\ responses'[1] = asked
    BY <2>1, <2>2
  <2>4. repl # "prompt"
    BY <2>1 DEF Places, NothingAtPrompt
  <2>5. InOnePlace'
    BY <2>1, <2>2, <2>3 DEF Places, InOnePlace, Sent, Worked, UnderWay, ResponseAt
  <2>6. OfLastCommand'
    BY <2>1, <2>2, <2>3 DEF Places, OfLastCommand, Sent, Worked, ResponseAt
  <2> QED
    BY <2>2, <2>4, <2>5, <2>6 DEF Places, NothingAtPrompt
<1>9. CASE PrintResponse
  <2>1. Ready /\ Len(responses) = 1 /\ ~Sent /\ ~Worked /\ ~UnderWay /\ ~Held
    BY <1>9 DEF PrintResponse, Ready, Places, InOnePlace
  <2>2. responses' = <<>>
    BY <1>9, <2>1, TailOfOne DEF PrintResponse, TypeOK
  <2>3. ~Ready' /\ UNCHANGED <<toDaemon, handler, toRepl, receiver>>
    BY <1>9, <2>2 DEF PrintResponse, daemonVars, Ready
  <2> QED
    BY <2>1, <2>3 DEF Places, InOnePlace, OfLastCommand, NothingAtPrompt, Sent, Worked,
                      UnderWay, ResponseAt, Held
<1>10. CASE GiveUp \/ Exit
  BY <1>10 DEF GiveUp, OnNoResponse, Exit, Leave, Live
<1>11. CASE SendCommand
  <2>1. ~Sent /\ ~Worked /\ ~UnderWay /\ ~Held /\ ~Ready
    BY <1>11 DEF SendCommand, Places, NothingAtPrompt
  <2>2. /\ UNCHANGED <<handler, toRepl, receiver, responses>> /\ repl' # "prompt"
        /\ toDaemon = <<>> /\ toDaemon' \in {<<>>, Append(toDaemon, asked + 1)}
        /\ asked' = asked + 1 /\ asked + 1 \in Nat
    BY <1>11, <2>1, ReplAssumption DEF SendCommand, daemonVars, Sent, TypeOK
  <2>3. Sent' => Len(toDaemon') = 1 /\ toDaemon'[1] = asked'
    BY <2>2 DEF Sent
  <2>4. ~Worked' /\ ~UnderWay' /\ ~Held' /\ ~Ready'
    BY <2>1, <2>2 DEF Worked, UnderWay, ResponseAt, Held, Ready
  <2>5. \A i \in 1..Len(toRepl') : ~ResponseAt(i)'
    BY <2>4 DEF UnderWay
  <2> QED
    BY <2>2, <2>3, <2>4, <2>5 DEF Places, InOnePlace, OfLastCommand, NothingAtPrompt
<1> QED
  BY <1>1, <1>2, <1>3, <1>4, <1>5, <1>6, <1>7, <1>8, <1>9, <1>10, <1>11
  DEF Next, Notifier, Receiver, Loop, User

(* A response, or 0, is added for each command, and it is the right one.   *)
LEMMA RepliesStep ==
  ASSUME AnswerInv, [Next]_vars
  PROVE  RepliesInOrder'
<1>0. TypeOK /\ replies \in Seq(Nat) /\ asked \in Nat /\ RepliesInOrder
  BY ReplAssumption DEF AnswerInv, TypeOK
<1>1. CASE UNCHANGED <<replies, asked, repl>>
  BY <1>0, <1>1 DEF RepliesInOrder, OwnAnswer
<1>2. CASE SendCommand
  BY <1>0, <1>2 DEF SendCommand, RepliesInOrder, OwnAnswer
<1>3. CASE Exit
  BY <1>0, <1>3 DEF Exit, Leave, RepliesInOrder, OwnAnswer
<1>4. ASSUME NEW r \in {0, asked}, repl = "waiting", replies' = Append(replies, r),
             repl' # "waiting", asked' = asked
      PROVE  RepliesInOrder'
  <2>1. Len(replies) = asked - 1 /\ r \in Nat
    BY <1>0, <1>4 DEF RepliesInOrder
  <2>2. /\ Len(replies') = asked /\ replies'[asked] = r
        /\ \A k \in 1..Len(replies) : replies'[k] = replies[k]
    BY <1>0, <1>4, <2>1
  <2>3. ASSUME NEW k \in 1..Len(replies')
        PROVE  replies'[k] \in {0, k}
    <3>1. CASE k = asked
      BY <2>2, <3>1
    <3>2. CASE k # asked
      BY <1>0, <2>1, <2>2, <3>2 DEF RepliesInOrder, OwnAnswer
    <3> QED
      BY <3>1, <3>2
  <2> QED
    BY <1>4, <2>2, <2>3 DEF RepliesInOrder, OwnAnswer
<1>5. CASE PrintResponse
  <2>1. /\ repl = "waiting" /\ responses # <<>> /\ responses \in Seq(Nat)
        /\ replies' = Append(replies, Head(responses))
        /\ repl' = "prompt" /\ asked' = asked
    BY <1>0, <1>5 DEF PrintResponse, TypeOK
  <2>2. Head(responses) = asked
    BY <2>1, TailShifts DEF AnswerInv, Live, Places, OfLastCommand, Ready
  <2> QED
    BY <1>4, <2>1, <2>2
<1>6. CASE GiveUp
  BY <1>4, <1>6 DEF GiveUp, NoResponse, OnNoResponse, Leave
<1>7. CASE PostNotice \/ TakeNotice \/ NotifierLags \/ WriteNotice \/ NotifierAborted
  BY <1>1, <1>7 DEF PostNotice, TakeNotice, NotifierLags, WriteNotice, NotifierAborted, replVars
<1>8. CASE ReadRequest \/ ReadEnd \/ PushRx \/ Respond \/ DaemonExits
  BY <1>1, <1>8 DEF ReadRequest, ReadEnd, PushRx, Respond, DaemonExits, replVars
<1>9. CASE PrintNotice \/ PrintRxData \/ TakeResponse \/ PassResponse \/ ReceiveEnd
  BY <1>1, <1>9 DEF PrintNotice, PrintRxData, TakeResponse, PassResponse, ReceiveEnd, replVars
<1>10. CASE UNCHANGED vars
  BY <1>1, <1>10 DEF vars, replVars
<1> QED
  BY <1>2, <1>3, <1>5, <1>6, <1>7, <1>8, <1>9, <1>10
  DEF Next, Notifier, Receiver, Loop, User

LEMMA LiveBefore ==
  ASSUME [Next]_vars, Live'
  PROVE  Live
BY DEF Next, Notifier, Receiver, Loop, User, PostNotice, TakeNotice, NotifierLags, WriteNotice,
       NotifierAborted, ReadRequest, ReadEnd, PushRx, Respond, DaemonExits, PrintNotice, PrintRxData,
       TakeResponse, PassResponse, ReceiveEnd, PrintResponse, GiveUp, NoResponse, SendCommand, Exit, vars,
       replVars, Live

LEMMA AnswerStep ==
  ASSUME AnswerInv, [Next]_vars
  PROVE  AnswerInv'
<1>1. TypeOK' /\ Serving' /\ RepliesInOrder'
  BY TypeStep, ServingStep, RepliesStep DEF AnswerInv
<1>2. ASSUME Live'
      PROVE  Places'
  BY <1>1, <1>2, LiveBefore, PlacesStep DEF AnswerInv
<1> QED
  BY <1>1, <1>2 DEF AnswerInv

LEMMA AnswerInit == Init => AnswerInv
<1> SUFFICES ASSUME Init
             PROVE  AnswerInv
  OBVIOUS
<1>1. TypeOK /\ Serving
  BY TypeInit DEF Init, Serving, Live
<1>2. Places
  BY DEF Init, Places, InOnePlace, OfLastCommand, NothingAtPrompt, Sent, Worked, UnderWay,
         ResponseAt, Held, Ready
<1>3. RepliesInOrder
  BY DEF Init, RepliesInOrder, OwnAnswer
<1> QED
  BY <1>1, <1>2, <1>3 DEF AnswerInv

(* The response that the REPL prints is the response to its own command,   *)
(* although nothing in it says so and a late one may follow the timeout    *)
(* (repl.rs:84-104), for all capacities and bounds.                        *)
THEOREM OwnAnswers == Spec => []OwnAnswer
<1>1. Init => AnswerInv
  BY AnswerInit
<1>2. AnswerInv /\ [Next]_vars => AnswerInv'
  BY AnswerStep
<1>3. AnswerInv => OwnAnswer
  BY DEF AnswerInv, RepliesInOrder
<1> QED
  BY <1>1, <1>2, <1>3, PTL DEF Spec

-----------------------------------------------------------------------------
(* The notices are printed in order and without holes.                     *)

(* Lines that are added or taken which are not notices change nothing.     *)
LEMMA NoticesKept ==
  ASSUME TypeOK, TypeOK', NoticesContinue, toRepl' = toRepl,
         printed' = printed, Top' = Top, running' = running
  PROVE  NoticesContinue'
BY DEF NoticesContinue, UnderWayOrdered, UnderWayWithoutHoles, NoticeAt

(* The numbers involved.                                                   *)
LEMMA NoticeTypes ==
  ASSUME TypeOK
  PROVE  /\ next \in Nat /\ Top \in Int /\ Len(printed) \in Nat /\ Len(toRepl) \in Nat
         /\ toRepl \in Seq(Line) /\ printed \in Seq(Nat)
         /\ \A i \in 1..Len(toRepl) : toRepl[i] \in Line /\ toRepl[i].no \in Nat
<1>1. toRepl \in Seq(Line) /\ printed \in Seq(Nat) /\ next \in Nat
  BY ReplAssumption DEF TypeOK
<1>2. \A i \in 1..Len(toRepl) : toRepl[i] \in Line
  BY <1>1
<1>3. \A i \in 1..Len(toRepl) : toRepl[i].no \in Nat
  BY <1>2 DEF Line
<1>4. Top \in Int
  BY <1>1 DEF Top
<1> QED
  BY <1>1, <1>2, <1>3, <1>4

LEMMA NoticesStep ==
  ASSUME TypeOK, TypeOK', Serving, Live, NoticesContinue, NoticesWithoutHoles,
         [Next]_vars, Live'
  PROVE  NoticesContinue' /\ NoticesWithoutHoles'
<1>0. link = "open" /\ handler \in {"reading", "working"}
  BY DEF Serving
<1> USE <1>0, NoticeTypes
<1>1. CASE UNCHANGED <<toRepl, printed, running, next, notifier>>
  BY <1>1, NoticesKept DEF Top, NoticesWithoutHoles
<1>2. CASE TakeNotice
  <2>1. /\ UNCHANGED <<toRepl, printed, running>> /\ notifier = "receiving"
        /\ notifier' = "writing" /\ next' = next + 1
    BY <1>2 DEF TakeNotice, replVars
  <2>2. Top' = Top
    BY <2>1 DEF Top
  <2> QED
    BY <2>1, <2>2, NoticesKept DEF NoticesWithoutHoles
<1>3. CASE NotifierLags
  <2>1. /\ UNCHANGED <<toRepl, printed, running, next>> /\ notifier = "receiving"
        /\ notifier' = "ended"
    BY <1>3 DEF NotifierLags, EndsAtLagged, replVars
  <2>2. Top' = Top
    BY <2>1 DEF Top
  <2> QED
    BY <2>1, <2>2, NoticesKept DEF NoticesWithoutHoles
<1>4. CASE WriteNotice
  <2> DEFINE line == [kind |-> "notice", no |-> next]
  <2>1. line \in Line /\ toRepl \in Seq(Line)
    BY DEF TypeOK, Line
  <2>2. toRepl' = Append(toRepl, line)
    BY <1>4, WriteAppends DEF WriteNotice
  <2>3. /\ Len(toRepl') = Len(toRepl) + 1
        /\ toRepl'[Len(toRepl) + 1] = line
        /\ \A i \in 1..Len(toRepl) : toRepl'[i] = toRepl[i]
    BY <2>1, <2>2, AppendKeeps
  <2>4. line.kind = "notice" /\ line.no = next
    OBVIOUS
  <2> HIDE DEF line
  <2>5. /\ printed' = printed /\ running' = running /\ running
        /\ Top = next - 1 /\ Top' = next
    BY <1>4 DEF WriteNotice, replVars, Top
  <2>6. /\ Len(toRepl) + 1 \in 1..Len(toRepl')
        /\ \A i \in 1..Len(toRepl') : i \in 1..Len(toRepl) \/ i = Len(toRepl) + 1
        /\ \A i \in 1..Len(toRepl) : i \in 1..Len(toRepl')
    BY <2>3
  <2>7. \A i \in 1..Len(toRepl') : i = Len(toRepl) + 1 => NoticeAt(i)'
    BY <2>3, <2>4, <2>6 DEF NoticeAt
  <2>8. \A i \in 1..Len(toRepl) : NoticeAt(i)' <=> NoticeAt(i)
    BY <2>3, <2>6 DEF NoticeAt
  <2>9. \A i \in 1..Len(toRepl') :
          NoticeAt(i)' => Len(printed') < toRepl'[i].no /\ toRepl'[i].no <= Top'
    BY SMTT(30), <2>3, <2>4, <2>5, <2>6, <2>8 DEF NoticesContinue, UnderWayOrdered
  <2>10. ASSUME NEW i \in 1..Len(toRepl'), NEW j \in 1..Len(toRepl'),
                NoticeAt(i)', NoticeAt(j)', i < j
         PROVE  toRepl'[i].no < toRepl'[j].no
    <3>1. i \in 1..Len(toRepl) /\ NoticeAt(i)
      BY <2>6, <2>8, <2>10
    <3>2. CASE j = Len(toRepl) + 1
      BY <2>3, <2>4, <2>5, <3>1, <3>2 DEF NoticesContinue, UnderWayOrdered
    <3>3. CASE j \in 1..Len(toRepl)
      BY <2>3, <2>8, <2>10, <3>1, <3>3 DEF NoticesContinue, UnderWayOrdered
    <3> QED
      BY <2>6, <3>2, <3>3
  <2>11. Len(printed') <= Top'
    BY <2>5 DEF NoticesContinue, UnderWayOrdered
  <2>12. ASSUME NEW n \in Nat, Len(printed') < n, n <= Top'
         PROVE  \E i \in 1..Len(toRepl') : NoticeAt(i)' /\ toRepl'[i].no = n
    <3>1. CASE n = next
      BY <2>3, <2>4, <2>6, <2>7, <3>1
    <3>2. CASE n # next
      <4>1. Len(printed) < n /\ n <= Top
        BY <2>5, <2>12, <3>2
      <4>2. PICK i \in 1..Len(toRepl) : NoticeAt(i) /\ toRepl[i].no = n
        BY <2>5, <4>1 DEF NoticesContinue, UnderWayWithoutHoles
      <4> QED
        BY <2>3, <2>6, <2>8, <4>2
    <3> QED
      BY <3>1, <3>2
  <2> QED
    BY <2>5, <2>9, <2>10, <2>11, <2>12
    DEF NoticesContinue, UnderWayOrdered, UnderWayWithoutHoles, NoticesWithoutHoles
<1>5. CASE NotifierAborted \/ ReadEnd
  BY <1>5 DEF NotifierAborted, ReadEnd
<1>6. CASE Respond \/ PushRx
  <2>1. PICK line \in Line : line.kind # "notice" /\ toRepl' = Append(toRepl, line)
    <3>1. CASE Respond
      BY <1>6, <3>1, WriteAppends DEF Respond, Line, TypeOK
    <3>2. CASE PushRx
      BY <1>6, <3>2, WriteAppends DEF PushRx, Line
    <3> QED
      BY <1>6, <3>1, <3>2
  <2>3. /\ Len(toRepl') = Len(toRepl) + 1
        /\ toRepl'[Len(toRepl) + 1] = line
        /\ \A i \in 1..Len(toRepl) : toRepl'[i] = toRepl[i]
    BY <2>1, AppendKeeps
  <2>4. line.kind # "notice"
    BY <2>1
  <2>5. /\ printed' = printed /\ running' = running /\ running /\ Top' = Top
    BY <1>6 DEF Respond, PushRx, replVars, Top
  <2>6. \A i \in 1..Len(toRepl') :
          NoticeAt(i)' => /\ i \in 1..Len(toRepl) /\ NoticeAt(i)
                          /\ toRepl'[i] = toRepl[i]
    BY <2>3, <2>4 DEF NoticeAt
  <2>7. \A i \in 1..Len(toRepl) :
          NoticeAt(i) => i \in 1..Len(toRepl') /\ NoticeAt(i)' /\ toRepl'[i] = toRepl[i]
    BY <2>3 DEF NoticeAt
  <2>8. UnderWayOrdered'
    BY <2>5, <2>6 DEF NoticesContinue, UnderWayOrdered
  <2>9. UnderWayWithoutHoles'
    BY <2>5, <2>7 DEF NoticesContinue, UnderWayWithoutHoles
  <2> QED
    BY <2>5, <2>8, <2>9 DEF NoticesContinue, NoticesWithoutHoles
<1>7. CASE DaemonExits
  <2>1. /\ printed' = printed /\ Top' = Top /\ ~running'
    BY <1>7 DEF DaemonExits, replVars, Top
  <2>0. toRepl' = toRepl \/ toRepl' = <<>>
    BY <1>7 DEF DaemonExits
  <2>2. CASE toRepl' = toRepl
    BY <2>1, <2>2 DEF NoticesContinue, UnderWayOrdered, UnderWayWithoutHoles, NoticeAt,
                      NoticesWithoutHoles
  <2>3. CASE toRepl' = <<>>
    <3>1. \A i \in 1..Len(<<>>) : FALSE
      OBVIOUS
    <3>2. \A i \in 1..Len(toRepl') : FALSE
      BY <2>3, <3>1
    <3> QED
      BY <2>1, <2>3, <3>2 DEF NoticesContinue, UnderWayOrdered, UnderWayWithoutHoles,
                              NoticesWithoutHoles
  <2> QED
    BY <2>0, <2>2, <2>3
<1>8. CASE PrintNotice \/ PrintRxData \/ TakeResponse
  <2>1. /\ toRepl # <<>> /\ toRepl' = Tail(toRepl) /\ UNCHANGED <<running, next, notifier>>
    BY <1>8 DEF PrintNotice, PrintRxData, TakeResponse, daemonVars
  <2>2. Top' = Top
    BY <2>1 DEF Top
  <2>3. /\ Head(toRepl) = toRepl[1] /\ Len(toRepl) >= 1 /\ 1 \in 1..Len(toRepl)
        /\ Len(toRepl') = Len(toRepl) - 1
        /\ \A i \in 1..Len(toRepl') : i + 1 \in 1..Len(toRepl) /\ toRepl'[i] = toRepl[i + 1]
    BY <2>1, TailShifts
  <2>4. \A i \in 1..Len(toRepl') : i \in Nat /\ i >= 1 /\ (NoticeAt(i)' <=> NoticeAt(i + 1))
    BY <2>3 DEF NoticeAt
  <2>5. \A i \in 1..Len(toRepl) :
          i # 1 => i - 1 \in 1..Len(toRepl') /\ (i - 1) + 1 = i
    BY <2>3
  <2>6. ASSUME NEW i \in 1..Len(toRepl'), NEW j \in 1..Len(toRepl'),
               NoticeAt(i)', NoticeAt(j)', i < j
        PROVE  toRepl'[i].no < toRepl'[j].no
    <3>1. /\ i + 1 \in 1..Len(toRepl) /\ j + 1 \in 1..Len(toRepl) /\ i + 1 < j + 1
          /\ NoticeAt(i + 1) /\ NoticeAt(j + 1)
      BY <2>3, <2>4, <2>6
    <3> QED
      BY <2>3, <3>1 DEF NoticesContinue, UnderWayOrdered
  <2>7. CASE PrintNotice
    <3>1. NoticeAt(1) /\ printed' = Append(printed, toRepl[1].no)
      BY <2>3, <2>7 DEF PrintNotice, NoticeAt
    <3>2. /\ toRepl[1].no \in Nat /\ Len(printed) + 1 \in Nat
          /\ Len(printed) + 1 <= toRepl[1].no /\ toRepl[1].no <= Top
      BY <2>3, <3>1 DEF NoticesContinue, UnderWayOrdered
    <3>3. PICK m \in 1..Len(toRepl) : NoticeAt(m) /\ toRepl[m].no = Len(printed) + 1
      <4>1. PICK n \in Nat : n = Len(printed) + 1
        BY <3>2
      <4>2. Len(printed) < n /\ n <= Top
        BY <3>2, <4>1
      <4>3. \E i \in 1..Len(toRepl) : NoticeAt(i) /\ toRepl[i].no = n
        BY <2>1, <4>2 DEF NoticesContinue, UnderWayWithoutHoles
      <4> QED
        BY <4>1, <4>3
    <3>4. m = 1
      <4>1. CASE 1 < m
        BY <2>3, <3>1, <3>2, <3>3, <4>1 DEF NoticesContinue, UnderWayOrdered
      <4> QED
        BY <3>3, <4>1
    <3>5. toRepl[1].no = Len(printed) + 1
      BY <3>3, <3>4
    <3>6. /\ Len(printed') = Len(printed) + 1
          /\ printed'[Len(printed) + 1] = Len(printed) + 1
          /\ \A i \in 1..Len(printed) : printed'[i] = printed[i]
      BY <3>1, <3>2, <3>5
    <3>7. NoticesWithoutHoles'
      <4>1. ASSUME NEW i \in 1..Len(printed')
            PROVE  printed'[i] = i
        <5>1. i \in 1..Len(printed) \/ i = Len(printed) + 1
          BY <3>6
        <5> QED
          BY <3>6, <5>1 DEF NoticesWithoutHoles
      <4> QED
        BY <4>1 DEF NoticesWithoutHoles
    <3>8. ASSUME NEW i \in 1..Len(toRepl'), NoticeAt(i)'
          PROVE  Len(printed') < toRepl'[i].no /\ toRepl'[i].no <= Top'
      <4>0. i \in Nat /\ i >= 1 /\ NoticeAt(i + 1)
        BY <2>4, <3>8
      <4>1. NoticeAt(i + 1) /\ i + 1 \in 1..Len(toRepl) /\ 1 < i + 1
        BY <2>3, <4>0
      <4>2. toRepl[1].no < toRepl[i + 1].no /\ toRepl[i + 1].no <= Top
        BY <2>3, <3>1, <4>1 DEF NoticesContinue, UnderWayOrdered
      <4> QED
        BY <2>2, <2>3, <3>5, <3>6, <4>2
    <3>9. ASSUME NEW n \in Nat, Len(printed') < n, n <= Top'
          PROVE  \E i \in 1..Len(toRepl') : NoticeAt(i)' /\ toRepl'[i].no = n
      <4>1. Len(printed) < n /\ n <= Top /\ n # Len(printed) + 1
        BY <2>2, <3>6, <3>9
      <4>2. PICK i \in 1..Len(toRepl) : NoticeAt(i) /\ toRepl[i].no = n
        BY <2>1, <4>1 DEF NoticesContinue, UnderWayWithoutHoles
      <4>3. i # 1
        BY <3>5, <4>1, <4>2
      <4>4. /\ i - 1 \in 1..Len(toRepl') /\ NoticeAt(i - 1)'
            /\ toRepl'[i - 1].no = n
        BY <2>3, <2>4, <2>5, <4>2, <4>3
      <4> QED
        BY <4>4
    <3>10. Len(printed') <= Top'
      BY <2>2, <3>2, <3>6
    <3>11. UnderWayOrdered'
      BY <2>6, <3>8, <3>10 DEF UnderWayOrdered
    <3>12. UnderWayWithoutHoles'
      BY <3>9 DEF UnderWayWithoutHoles
    <3> QED
      BY <3>7, <3>11, <3>12 DEF NoticesContinue
  <2>8. CASE PrintRxData \/ TakeResponse
    <3>1. ~NoticeAt(1) /\ printed' = printed
      BY <2>3, <2>8 DEF PrintRxData, TakeResponse, IsNotification, NoticeAt, replVars
    <3>2. ASSUME NEW i \in 1..Len(toRepl'), NoticeAt(i)'
          PROVE  Len(printed') < toRepl'[i].no /\ toRepl'[i].no <= Top'
      <4>1. NoticeAt(i + 1) /\ i + 1 \in 1..Len(toRepl)
        BY <2>3, <2>4, <3>2
      <4> QED
        BY <2>2, <2>3, <3>1, <4>1 DEF NoticesContinue, UnderWayOrdered
    <3>3. ASSUME NEW n \in Nat, Len(printed') < n, n <= Top'
          PROVE  \E i \in 1..Len(toRepl') : NoticeAt(i)' /\ toRepl'[i].no = n
      <4>1. PICK i \in 1..Len(toRepl) : NoticeAt(i) /\ toRepl[i].no = n
        BY <2>1, <2>2, <3>1, <3>3 DEF NoticesContinue, UnderWayWithoutHoles
      <4>2. /\ i - 1 \in 1..Len(toRepl') /\ NoticeAt(i - 1)'
            /\ toRepl'[i - 1].no = n
        BY <2>3, <2>4, <2>5, <3>1, <4>1
      <4> QED
        BY <4>2
    <3>4. UnderWayOrdered'
      BY <2>2, <2>6, <3>1, <3>2 DEF NoticesContinue, UnderWayOrdered
    <3>5. UnderWayWithoutHoles'
      BY <3>3 DEF UnderWayWithoutHoles
    <3> QED
      BY <3>1, <3>4, <3>5 DEF NoticesContinue, NoticesWithoutHoles
  <2> QED
    BY <1>8, <2>7, <2>8
<1>9. CASE GiveUp \/ Exit
  BY <1>9 DEF GiveUp, OnNoResponse, Exit, Leave, Live
<1>10. CASE PostNotice \/ ReadRequest \/ PassResponse \/ ReceiveEnd \/ PrintResponse
            \/ SendCommand
  BY <1>1, <1>10 DEF PostNotice, ReadRequest, PassResponse, ReceiveEnd, PrintResponse,
                     SendCommand, daemonVars, replVars
<1>11. CASE UNCHANGED vars
  BY <1>1, <1>11 DEF vars, daemonVars, replVars
<1> QED
  BY <1>2, <1>3, <1>4, <1>5, <1>6, <1>7, <1>8, <1>9, <1>10, <1>11
  DEF Next, Notifier, Receiver, Loop, User

LEMMA NoticeStep ==
  ASSUME NoticeInv, [Next]_vars
  PROVE  NoticeInv'
<1>1. TypeOK' /\ Serving'
  BY TypeStep, ServingStep DEF NoticeInv
<1>2. CASE Live'
  BY <1>1, <1>2, LiveBefore, NoticesStep DEF NoticeInv
<1>3. CASE ~Live'
  <2>1. UNCHANGED printed
    BY <1>3 DEF NoticeInv, Serving, Next, Notifier, Receiver, Loop, User, PostNotice, TakeNotice, NotifierLags,
       WriteNotice, NotifierAborted, ReadRequest, ReadEnd, PushRx, Respond, DaemonExits, PrintNotice,
       PrintRxData, TakeResponse, PassResponse, ReceiveEnd, PrintResponse, GiveUp, OnNoResponse, Leave,
       SendCommand, Exit, vars, replVars, Live
  <2> QED
    BY <1>1, <1>3, <2>1 DEF NoticeInv, NoticesWithoutHoles
<1> QED
  BY <1>2, <1>3

LEMMA NoticeInit == Init => NoticeInv
<1> SUFFICES ASSUME Init
             PROVE  NoticeInv
  OBVIOUS
<1>1. TypeOK /\ Serving
  BY TypeInit DEF Init, Serving, Live
<1>2. Len(toRepl) = 0 /\ Len(printed) = 0 /\ Top = 0
  BY DEF Init, Top
<1>3. UnderWayOrdered /\ NoticesWithoutHoles
  BY <1>2 DEF UnderWayOrdered, NoticesWithoutHoles
<1>4. UnderWayWithoutHoles
  BY <1>2 DEF UnderWayWithoutHoles
<1> QED
  BY <1>1, <1>3, <1>4 DEF NoticeInv, NoticesContinue

(* The REPL prints the notices in the order of their posting, each once    *)
(* and without holes (daemon.rs:191, repl.rs:37), for all capacities and   *)
(* bounds: if the channel overruns, no later notice is printed either.     *)
THEOREM NoticesComplete == Spec => []NoticesWithoutHoles
<1>1. Init => NoticeInv
  BY NoticeInit
<1>2. NoticeInv /\ [Next]_vars => NoticeInv'
  BY NoticeStep
<1>3. NoticeInv => NoticesWithoutHoles
  BY DEF NoticeInv
<1> QED
  BY <1>1, <1>2, <1>3, PTL DEF Spec

==============================================================================
