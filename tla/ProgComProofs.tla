--------------------------- MODULE ProgComProofs ---------------------------
(***************************************************************************)
(* Theorems about ProgCom, for every set of read sizes and every number of *)
(* calls.                                                                  *)
(***************************************************************************)
EXTENDS ProgCom, SequenceTheorems, TLAPS

(***************************************************************************)
(* What the safety properties need beside each other.  A quiet call is     *)
(* quiet because the only thing in flight is its own command or reply; an  *)
(* answer in the receive buffer is there because its command was executed. *)
(***************************************************************************)
OnlyOwnInFlight ==
  phase = "waiting" /\ ahead = 0 =>
    /\ \A i \in 1..Len(rx) : rx[i].id = Len(cmds)
    /\ \A i \in 1..Len(wire) : wire[i] = Len(cmds)

AnswersWereExecuted ==
  /\ executed \subseteq 1..handled
  /\ \A i \in 1..Len(rx) : rx[i].kind = "answer" => rx[i].id \in executed

ACallIsInProgress == phase = "waiting" => Len(cmds) > 0

IInv ==
  /\ TypeOK
  /\ LagIsAccounted
  /\ InOrder
  /\ ACallIsInProgress
  /\ OnlyOwnInFlight
  /\ AnswersWereExecuted
  /\ SuccessHasTheRightForm
  /\ QuietCallGetsItsOwnAnswer

-----------------------------------------------------------------------------
\* How a call can fail is one of the results.
LEMMA FailedIsTyped ==
  /\ Failed("none") \in Results
  /\ Failed("RegisterAccessError") \in Results
  /\ Failed("UARTError") \in Results
  /\ Failed("SerialException") \in Results
  BY DEF Failed, Results, Statuses

\* What a raising readline consumed of the oldest reply leaves a fragment of it.
LEMMA HeadIsCut ==
  ASSUME rx \in Seq(Replies), rx # << >>, rx' = [rx EXCEPT ![1].kind = "fragment"]
  PROVE /\ rx' \in Seq(Replies) /\ Len(rx') = Len(rx)
        /\ rx'[1].kind = "fragment"
        /\ \A i \in 1..Len(rx) : rx'[i].id = rx[i].id
        /\ \A i \in 1..Len(rx) : i # 1 => rx'[i] = rx[i]
<1>1. 1 \in 1..Len(rx) /\ \A i \in 1..Len(rx) : rx[i] \in Replies
  BY ElementOfSeq
<1>2. /\ [rx[1] EXCEPT !.kind = "fragment"] \in Replies
      /\ [rx[1] EXCEPT !.kind = "fragment"].id = rx[1].id
      /\ [rx[1] EXCEPT !.kind = "fragment"].kind = "fragment"
  BY <1>1 DEF Replies, Kinds
<1>3. rx' = [rx EXCEPT ![1] = [rx[1] EXCEPT !.kind = "fragment"]]
  OBVIOUS
<1>4. rx' \in Seq(Replies) /\ Len(rx') = Len(rx)
  BY <1>1, <1>2, <1>3, ExceptSeq
<1>5. /\ rx'[1] = [rx[1] EXCEPT !.kind = "fragment"]
      /\ \A i \in 1..Len(rx) : i # 1 => rx'[i] = rx[i]
  BY <1>1, <1>3
<1> QED BY <1>2, <1>4, <1>5

\* A step preserves the types.
LEMMA TypeStep ==
  ASSUME TypeOK, [Next]_vars PROVE TypeOK'
<1> USE DEF TypeOK
<1>1. CASE OpenPort
  BY <1>1 DEF OpenPort, EmptyReceiveBuffer, mcuVars
<1>2. ASSUME NEW c \in Commands, Send(c) PROVE TypeOK'
  <2>1. cmds' \in Seq(Commands) /\ wire' \in Seq(Nat)
    BY <1>2 DEF Send
  <2>2. rx' \in Seq(Replies) /\ lost' \in Nat /\ ahead' \in Nat
    <3>1. CASE port = "open"
      BY <1>2, <3>1 DEF Send
    <3>2. CASE port # "open"
      BY <1>2, <3>2 DEF Send, EmptyReceiveBuffer
    <3> QED BY <3>1, <3>2
  <2> QED BY <1>2, <2>1, <2>2, FailedIsTyped DEF Send, mcuVars
<1>3. CASE WriteRaises
  BY <1>3, FailedIsTyped DEF WriteRaises, lineVars, mcuVars
<1>4. ASSUME NEW kind \in {"answer", "error"}, Handle(kind) PROVE TypeOK'
  <2>1. Head(wire) \in Nat /\ Tail(wire) \in Seq(Nat)
    BY <1>4 DEF Handle
  <2>2. [id |-> Head(wire), kind |-> kind] \in Replies
    BY <2>1 DEF Replies, Kinds
  <2>3. rx' \in Seq(Replies)
    BY <1>4, <2>2 DEF Handle
  <2>4. executed' \subseteq Nat
    BY <1>4, <2>1 DEF Handle
  <2> QED BY <1>4, <2>1, <2>3, <2>4 DEF Handle
<1>5. ASSUME NEW done \in BOOLEAN, Lose(done) PROVE TypeOK'
  <2>1. Head(wire) \in Nat /\ Tail(wire) \in Seq(Nat)
    BY <1>5 DEF Lose
  <2>2. executed' \subseteq Nat
    BY <1>5, <2>1 DEF Lose
  <2> QED BY <1>5, <2>1, <2>2 DEF Lose
<1>6. CASE Receive
  <2>1. Head(rx) \in Replies /\ Tail(rx) \in Seq(Replies)
    BY <1>6 DEF Receive
  <2>2. result' \in Results
    BY <1>6, <2>1, FailedIsTyped DEF Receive, Results, Replies, Statuses
  <2> QED BY <1>6, <2>1, <2>2 DEF Receive, Replies, mcuVars
<1>7. CASE Timeout
  <2>1. rx' \in Seq(Replies)
    <3>1. CASE UNCHANGED rx
      BY <3>1
    <3>2. CASE Len(rx) = 1 /\ rx' = <<[rx[1] EXCEPT !.kind = "fragment"]>>
      <4>1. rx[1] \in Replies
        BY <3>2, 1 \in 1..Len(rx), ElementOfSeq
      <4>2. [rx[1] EXCEPT !.kind = "fragment"] \in Replies
        BY <4>1 DEF Replies, Kinds
      <4> QED BY <3>2, <4>2
    <3> QED BY <1>7, <3>1, <3>2 DEF Timeout
  <2> QED BY <1>7, <2>1, FailedIsTyped DEF Timeout, mcuVars
<1>8. CASE ProcessEnds
  BY <1>8, FailedIsTyped DEF ProcessEnds, lineVars, mcuVars
<1>9. CASE UNCHANGED vars
  BY <1>9 DEF vars
<1>10. CASE ReadRaises
  <2>1. rx' \in Seq(Replies)
    <3>1. CASE UNCHANGED rx
      BY <3>1
    <3>2. CASE rx # << >> /\ rx' = [rx EXCEPT ![1].kind = "fragment"]
      BY <3>2, HeadIsCut
    <3> QED BY <1>10, <3>1, <3>2 DEF ReadRaises
  <2> QED BY <1>10, <2>1, FailedIsTyped DEF ReadRaises, mcuVars
<1> QED BY <1>1, <1>2, <1>3, <1>4, <1>5, <1>6, <1>7, <1>8, <1>9, <1>10 DEF Next

\* TypeOK holds in every state of Spec.
THEOREM TypeCorrect == Spec => []TypeOK
<1>1. Init => TypeOK
  BY FailedIsTyped DEF Init, TypeOK
<1>2. TypeOK /\ [Next]_vars => TypeOK'
  BY TypeStep
<1> QED BY <1>1, <1>2, PTL DEF Spec

-----------------------------------------------------------------------------
(* What the operations do to the two queues. *)

\* Taking the head of the wire.
LEMMA WireTail ==
  ASSUME TypeOK, wire # << >>, wire' = Tail(wire)
  PROVE /\ Len(wire) \in Nat /\ Len(wire') \in Nat
        /\ Len(wire) = Len(wire') + 1
        /\ Head(wire) = wire[1] /\ wire[1] \in Nat
        /\ \A i \in 1..Len(wire') : i + 1 \in 1..Len(wire) /\ wire'[i] = wire[i + 1]
  BY HeadTailProperties DEF TypeOK

\* Reading the oldest reply.
LEMMA RxTail ==
  ASSUME TypeOK, rx # << >>, rx' = Tail(rx)
  PROVE /\ Len(rx) \in Nat /\ Len(rx') \in Nat
        /\ Len(rx) = Len(rx') + 1
        /\ Head(rx) = rx[1] /\ rx[1] \in Replies
        /\ \A i \in 1..Len(rx') : i + 1 \in 1..Len(rx) /\ rx'[i] = rx[i + 1]
  BY HeadTailProperties DEF TypeOK

\* A new reply goes behind the others.
LEMMA RxAppend ==
  ASSUME TypeOK, NEW r \in Replies, rx' = Append(rx, r)
  PROVE /\ Len(rx) \in Nat
        /\ Len(rx') = Len(rx) + 1
        /\ rx'[Len(rx) + 1] = r
        /\ \A i \in 1..Len(rx) : rx'[i] = rx[i]
  BY AppendProperties DEF TypeOK

\* A new command goes behind the others.
LEMMA WireAppend ==
  ASSUME TypeOK, NEW n \in Nat, wire' = Append(wire, n)
  PROVE /\ Len(wire) \in Nat
        /\ Len(wire') = Len(wire) + 1
        /\ wire'[Len(wire) + 1] = n
        /\ \A i \in 1..Len(wire) : wire'[i] = wire[i]
  BY AppendProperties DEF TypeOK

-----------------------------------------------------------------------------
\* A step keeps the account of unread replies.
LEMMA LagStep ==
  ASSUME TypeOK, LagIsAccounted, [Next]_vars PROVE LagIsAccounted'
<1> USE DEF LagIsAccounted
<1>a. /\ Len(wire) \in Nat /\ Len(rx) \in Nat /\ lost \in Nat /\ abandoned \in Nat
      /\ phase \in {"idle", "waiting"}
  BY DEF TypeOK
<1>1. CASE OpenPort
  BY <1>a, <1>1 DEF OpenPort, EmptyReceiveBuffer
<1>2. ASSUME NEW c \in Commands, Send(c) PROVE LagIsAccounted'
  <2>1. Len(wire') = Len(wire) + 1
    BY <1>2, WireAppend DEF Send, TypeOK
  <2>2. Len(rx') \in Nat /\ lost' \in Nat /\ Len(rx') + lost' = Len(rx) + lost
    <3>1. CASE port = "open"
      BY <1>a, <1>2, <3>1 DEF Send
    <3>2. CASE port # "open"
      BY <1>a, <1>2, <3>2 DEF Send, EmptyReceiveBuffer
    <3> QED BY <3>1, <3>2
  <2>3. phase = "idle" /\ phase' = "waiting" /\ abandoned' = abandoned
    BY <1>2 DEF Send
  <2> QED BY <1>a, <2>1, <2>2, <2>3
<1>3. CASE WriteRaises
  BY <1>3 DEF WriteRaises, lineVars
<1>4. ASSUME NEW kind \in {"answer", "error"}, Handle(kind) PROVE LagIsAccounted'
  <2>1. Len(wire) = Len(wire') + 1 /\ Len(wire') \in Nat /\ Head(wire) \in Nat
    BY <1>4, WireTail DEF Handle
  <2>2. [id |-> Head(wire), kind |-> kind] \in Replies
    BY <2>1 DEF Replies, Kinds
  <2>3. Len(rx') = Len(rx) + 1
    BY <1>4, <2>2, RxAppend DEF Handle
  <2>4. phase' = phase /\ abandoned' = abandoned /\ lost' = lost
    BY <1>4 DEF Handle
  <2> QED BY <1>a, <2>1, <2>3, <2>4
<1>5. ASSUME NEW done \in BOOLEAN, Lose(done) PROVE LagIsAccounted'
  <2>1. Len(wire) = Len(wire') + 1 /\ Len(wire') \in Nat
    BY <1>5, WireTail DEF Lose
  <2>2. phase' = phase /\ abandoned' = abandoned /\ lost' = lost + 1 /\ rx' = rx
    BY <1>5 DEF Lose
  <2> QED BY <1>a, <2>1, <2>2
<1>6. CASE Receive
  <2>1. Len(rx) = Len(rx') + 1 /\ Len(rx') \in Nat
    BY <1>6, RxTail DEF Receive
  <2>2. /\ phase = "waiting" /\ phase' = "idle"
        /\ abandoned' = abandoned /\ lost' = lost /\ wire' = wire
    BY <1>6 DEF Receive
  <2> QED BY <1>a, <2>1, <2>2
<1>7. CASE Timeout
  BY <1>a, <1>7 DEF Timeout
<1>8. CASE ProcessEnds
  BY <1>a, <1>8 DEF ProcessEnds, lineVars
<1>9. CASE UNCHANGED vars
  BY <1>9 DEF vars
<1>10. CASE ReadRaises
  <2>1. Len(rx') = Len(rx)
    BY <1>10, HeadIsCut DEF ReadRaises, TypeOK
  <2> QED BY <1>a, <1>10, <2>1 DEF ReadRaises
<1> QED BY <1>1, <1>2, <1>3, <1>4, <1>5, <1>6, <1>7, <1>8, <1>9, <1>10 DEF Next

-----------------------------------------------------------------------------
\* A step keeps the replies in the order of the calls.
LEMMA OrderStep ==
  ASSUME TypeOK, InOrder, [Next]_vars PROVE InOrder'
<1>a. TypeOK'
  BY TypeStep
<1>b. /\ Len(cmds) \in Nat /\ handled \in Nat /\ taken \in Nat
      /\ \A i \in 1..Len(rx) : rx[i].id \in Nat
      /\ \A i \in 1..Len(wire) : wire[i] \in Nat
      /\ Len(rx) \in Nat /\ Len(wire) \in Nat
  <2>1. \A i \in 1..Len(rx) : rx[i] \in Replies
    BY ElementOfSeq DEF TypeOK
  <2>2. \A i \in 1..Len(wire) : wire[i] \in Nat
    BY ElementOfSeq DEF TypeOK
  <2> QED BY <2>1, <2>2 DEF TypeOK, Replies
<1> USE DEF InOrder, RxSorted, RxIsHandled, WireSorted, WireIsNotHandled
<1>1. CASE OpenPort
  BY <1>1, <1>b DEF OpenPort, EmptyReceiveBuffer, mcuVars
<1>2. ASSUME NEW c \in Commands, Send(c) PROVE InOrder'
  <2>1. Len(cmds') = Len(cmds) + 1
    BY <1>2 DEF Send, TypeOK
  <2>2. /\ Len(wire') = Len(wire) + 1
        /\ wire'[Len(wire) + 1] = Len(cmds) + 1
        /\ \A i \in 1..Len(wire) : wire'[i] = wire[i]
    BY <1>2, <1>b, WireAppend DEF Send
  <2>3. rx' = rx \/ rx' = << >>
    BY <1>2 DEF Send, EmptyReceiveBuffer
  <2>4. handled' = handled /\ taken' = taken
    BY <1>2 DEF Send, mcuVars
  <2>5. RxSorted' /\ RxIsHandled'
    <3>1. CASE rx' = rx
      BY <2>4, <3>1
    <3>2. CASE rx' = << >>
      BY <3>2
    <3> QED BY <2>3, <3>1, <3>2
  <2>6. WireSorted' /\ WireIsNotHandled'
    <3> SUFFICES ASSUME NEW i \in 1..Len(wire'), NEW j \in 1..Len(wire')
                 PROVE /\ i < j => wire'[i] < wire'[j]
                       /\ handled < wire'[i] /\ wire'[i] <= Len(cmds) + 1
      BY <2>1, <2>4
    <3>1. i \in 1..Len(wire) \/ i = Len(wire) + 1
      BY <1>b, <2>2
    <3>2. j \in 1..Len(wire) \/ j = Len(wire) + 1
      BY <1>b, <2>2
    <3>3. handled < wire'[i] /\ wire'[i] <= Len(cmds) + 1
      BY <1>b, <2>2, <3>1
    <3>4. ASSUME i < j PROVE wire'[i] < wire'[j]
      <4>1. i \in 1..Len(wire)
        BY <1>b, <3>1, <3>2, <3>4
      <4>2. CASE j \in 1..Len(wire)
        BY <2>2, <3>4, <4>1, <4>2
      <4>3. CASE j = Len(wire) + 1
        BY <1>b, <2>2, <4>1, <4>3
      <4> QED BY <3>2, <4>2, <4>3
    <3> QED BY <3>3, <3>4
  <2>7. taken' <= handled' /\ handled' <= Len(cmds')
    BY <1>b, <2>1, <2>4
  <2> QED BY <2>5, <2>6, <2>7
<1>3. CASE WriteRaises
  BY <1>3 DEF WriteRaises, lineVars, mcuVars
<1>4. ASSUME NEW kind \in {"answer", "error"}, Handle(kind) PROVE InOrder'
  <2>1. /\ Len(wire) = Len(wire') + 1 /\ Len(wire') \in Nat
        /\ Head(wire) = wire[1] /\ Head(wire) \in Nat
        /\ \A i \in 1..Len(wire') : i + 1 \in 1..Len(wire) /\ wire'[i] = wire[i + 1]
    BY <1>4, WireTail DEF Handle
  <2>2. [id |-> Head(wire), kind |-> kind] \in Replies
    BY <2>1 DEF Replies, Kinds
  <2>3. /\ Len(rx') = Len(rx) + 1
        /\ rx'[Len(rx) + 1].id = wire[1]
        /\ \A i \in 1..Len(rx) : rx'[i] = rx[i]
    BY <1>4, <2>1, <2>2, RxAppend DEF Handle
  <2>4. handled' = wire[1] /\ taken' = taken /\ cmds' = cmds
    BY <1>4, <2>1 DEF Handle
  <2>5. RxSorted' /\ RxIsHandled'
    <3> SUFFICES ASSUME NEW i \in 1..Len(rx'), NEW j \in 1..Len(rx')
                 PROVE /\ i < j => rx'[i].id < rx'[j].id
                       /\ taken' < rx'[i].id /\ rx'[i].id <= handled'
      OBVIOUS
    <3>1. 1 \in 1..Len(wire)
      BY <2>1
    <3>2. \A k \in 1..Len(rx) : taken < rx[k].id /\ rx[k].id < wire[1]
      BY <1>b, <3>1
    <3>3. i \in 1..Len(rx) \/ i = Len(rx) + 1
      BY <1>b, <2>3
    <3>4. j \in 1..Len(rx) \/ j = Len(rx) + 1
      BY <1>b, <2>3
    <3>5. taken < wire[1] /\ wire[1] \in Nat
      BY <1>b, <3>1
    <3>6. taken' < rx'[i].id /\ rx'[i].id <= handled'
      BY <1>b, <2>3, <2>4, <3>2, <3>3, <3>5
    <3>7. ASSUME i < j PROVE rx'[i].id < rx'[j].id
      <4>1. i \in 1..Len(rx)
        BY <1>b, <3>3, <3>4, <3>7
      <4>2. CASE j \in 1..Len(rx)
        BY <2>3, <3>7, <4>1, <4>2
      <4>3. CASE j = Len(rx) + 1
        BY <2>3, <3>2, <4>1, <4>3
      <4> QED BY <3>4, <4>2, <4>3
    <3> QED BY <3>6, <3>7
  <2>6. WireSorted' /\ WireIsNotHandled'
    <3> SUFFICES ASSUME NEW i \in 1..Len(wire'), NEW j \in 1..Len(wire')
                 PROVE /\ i < j => wire'[i] < wire'[j]
                       /\ wire[1] < wire'[i] /\ wire'[i] <= Len(cmds)
      BY <2>4
    <3>1. /\ i + 1 \in 1..Len(wire) /\ wire'[i] = wire[i + 1]
          /\ j + 1 \in 1..Len(wire) /\ wire'[j] = wire[j + 1]
          /\ 1 \in 1..Len(wire) /\ 1 < i + 1
      BY <1>b, <2>1
    <3>2. i < j => i + 1 < j + 1
      OBVIOUS
    <3> QED BY <1>b, <3>1, <3>2
  <2>7. taken' <= handled' /\ handled' <= Len(cmds')
    BY <1>b, <2>1, <2>4
  <2> QED BY <2>5, <2>6, <2>7
<1>5. ASSUME NEW done \in BOOLEAN, Lose(done) PROVE InOrder'
  <2>1. /\ Len(wire) = Len(wire') + 1 /\ Len(wire') \in Nat
        /\ Head(wire) = wire[1]
        /\ \A i \in 1..Len(wire') : i + 1 \in 1..Len(wire) /\ wire'[i] = wire[i + 1]
    BY <1>5, WireTail DEF Lose
  <2>2. handled' = wire[1] /\ taken' = taken /\ cmds' = cmds /\ rx' = rx
    BY <1>5, <2>1 DEF Lose
  <2>3. RxSorted' /\ RxIsHandled'
    BY <1>b, <2>1, <2>2
  <2>4. WireSorted' /\ WireIsNotHandled'
    <3> SUFFICES ASSUME NEW i \in 1..Len(wire'), NEW j \in 1..Len(wire')
                 PROVE /\ i < j => wire'[i] < wire'[j]
                       /\ wire[1] < wire'[i] /\ wire'[i] <= Len(cmds)
      BY <2>2
    <3>1. /\ i + 1 \in 1..Len(wire) /\ wire'[i] = wire[i + 1]
          /\ j + 1 \in 1..Len(wire) /\ wire'[j] = wire[j + 1]
          /\ 1 \in 1..Len(wire) /\ 1 < i + 1
      BY <1>b, <2>1
    <3>2. i < j => i + 1 < j + 1
      OBVIOUS
    <3> QED BY <1>b, <3>1, <3>2
  <2>5. taken' <= handled' /\ handled' <= Len(cmds')
    BY <1>b, <2>1, <2>2
  <2> QED BY <2>3, <2>4, <2>5
<1>6. CASE Receive
  <2>1. /\ Len(rx) = Len(rx') + 1 /\ Len(rx') \in Nat
        /\ Head(rx) = rx[1]
        /\ \A i \in 1..Len(rx') : i + 1 \in 1..Len(rx) /\ rx'[i] = rx[i + 1]
    BY <1>6, RxTail DEF Receive
  <2>2. taken' = rx[1].id /\ handled' = handled /\ cmds' = cmds /\ wire' = wire
    BY <1>6, <2>1 DEF Receive, mcuVars
  <2>3. RxSorted' /\ RxIsHandled'
    <3> SUFFICES ASSUME NEW i \in 1..Len(rx'), NEW j \in 1..Len(rx')
                 PROVE /\ i < j => rx'[i].id < rx'[j].id
                       /\ rx[1].id < rx'[i].id /\ rx'[i].id <= handled
      BY <2>2
    <3>1. /\ i + 1 \in 1..Len(rx) /\ rx'[i] = rx[i + 1]
          /\ j + 1 \in 1..Len(rx) /\ rx'[j] = rx[j + 1]
          /\ 1 \in 1..Len(rx) /\ 1 < i + 1
      BY <1>b, <2>1
    <3>2. i < j => i + 1 < j + 1
      OBVIOUS
    <3> QED BY <1>b, <3>1, <3>2
  <2>4. WireSorted' /\ WireIsNotHandled'
    BY <1>b, <2>2
  <2>5. taken' <= handled' /\ handled' <= Len(cmds')
    BY <1>b, <2>1, <2>2
  <2> QED BY <2>3, <2>4, <2>5
<1>7. CASE Timeout
  <2>1. handled' = handled /\ taken' = taken /\ cmds' = cmds /\ wire' = wire
    BY <1>7 DEF Timeout, mcuVars
  <2>2. CASE UNCHANGED rx
    BY <2>1, <2>2
  <2>3. CASE Len(rx) = 1 /\ rx' = <<[rx[1] EXCEPT !.kind = "fragment"]>>
    <3>1. rx[1] \in Replies
      BY <2>3, 1 \in 1..Len(rx), ElementOfSeq DEF TypeOK
    <3>2. Len(rx') = 1 /\ rx'[1].id = rx[1].id
      BY <2>3, <3>1 DEF Replies
    <3> QED BY <1>b, <2>1, <2>3, <3>2
  <2> QED BY <1>7, <2>2, <2>3 DEF Timeout
<1>8. CASE ProcessEnds
  BY <1>8 DEF ProcessEnds, lineVars, mcuVars
<1>9. CASE UNCHANGED vars
  BY <1>9 DEF vars
<1>10. CASE ReadRaises
  <2>1. handled' = handled /\ taken' = taken /\ cmds' = cmds /\ wire' = wire
    BY <1>10 DEF ReadRaises, mcuVars
  <2>2. Len(rx') = Len(rx) /\ \A i \in 1..Len(rx) : rx'[i].id = rx[i].id
    BY <1>10, HeadIsCut DEF ReadRaises, TypeOK
  <2> QED BY <2>1, <2>2
<1> QED BY <1>1, <1>2, <1>3, <1>4, <1>5, <1>6, <1>7, <1>8, <1>9, <1>10 DEF Next

-----------------------------------------------------------------------------
\* A step keeps a quiet call alone in flight.
LEMMA QuietStep ==
  ASSUME TypeOK, OnlyOwnInFlight, [Next]_vars PROVE OnlyOwnInFlight'
<1>a. TypeOK'
  BY TypeStep
<1>b. Len(rx) \in Nat /\ Len(wire) \in Nat /\ Len(cmds) \in Nat
  BY DEF TypeOK
<1> USE DEF OnlyOwnInFlight
<1>1. CASE OpenPort
  BY <1>1 DEF OpenPort, EmptyReceiveBuffer
<1>2. ASSUME NEW c \in Commands, Send(c) PROVE OnlyOwnInFlight'
  <2>1. /\ Len(cmds') = Len(cmds) + 1
        /\ Len(wire') = Len(wire) + 1
        /\ wire'[Len(wire) + 1] = Len(cmds) + 1
    BY <1>2, <1>b, WireAppend DEF Send, TypeOK
  <2>2. ahead' = Len(wire) + Len(rx') /\ Len(rx') \in Nat
    BY <1>2, <1>a DEF Send, TypeOK
  <2>3. ahead' = 0 => Len(wire) = 0 /\ Len(rx') = 0
    BY <1>b, <2>2
  <2> QED BY <1>b, <2>1, <2>3
<1>3. CASE WriteRaises
  BY <1>3 DEF WriteRaises, lineVars
<1>4. ASSUME NEW kind \in {"answer", "error"}, Handle(kind) PROVE OnlyOwnInFlight'
  <2>1. /\ Len(wire) = Len(wire') + 1 /\ Len(wire') \in Nat
        /\ Head(wire) = wire[1] /\ Head(wire) \in Nat
        /\ \A i \in 1..Len(wire') : i + 1 \in 1..Len(wire) /\ wire'[i] = wire[i + 1]
    BY <1>4, WireTail DEF Handle
  <2>2. [id |-> Head(wire), kind |-> kind] \in Replies
    BY <2>1 DEF Replies, Kinds
  <2>3. /\ Len(rx') = Len(rx) + 1
        /\ rx'[Len(rx) + 1].id = wire[1]
        /\ \A i \in 1..Len(rx) : rx'[i] = rx[i]
    BY <1>4, <2>1, <2>2, RxAppend DEF Handle
  <2>4. phase' = phase /\ ahead' = ahead /\ cmds' = cmds
    BY <1>4 DEF Handle
  <2>5. 1 \in 1..Len(wire)
    BY <2>1
  <2> SUFFICES ASSUME phase = "waiting", ahead = 0
               PROVE /\ \A i \in 1..Len(rx') : rx'[i].id = Len(cmds)
                     /\ \A i \in 1..Len(wire') : wire'[i] = Len(cmds)
    BY <2>4
  <2>6. ASSUME NEW i \in 1..Len(rx') PROVE rx'[i].id = Len(cmds)
    <3>1. i \in 1..Len(rx) \/ i = Len(rx) + 1
      BY <1>b, <2>3
    <3> QED BY <2>3, <2>5, <3>1
  <2> QED BY <2>1, <2>6
<1>5. ASSUME NEW done \in BOOLEAN, Lose(done) PROVE OnlyOwnInFlight'
  <2>1. \A i \in 1..Len(wire') : i + 1 \in 1..Len(wire) /\ wire'[i] = wire[i + 1]
    BY <1>5, WireTail DEF Lose
  <2>2. phase' = phase /\ ahead' = ahead /\ cmds' = cmds /\ rx' = rx
    BY <1>5 DEF Lose
  <2> QED BY <2>1, <2>2
<1>6. CASE Receive
  BY <1>6 DEF Receive
<1>7. CASE Timeout
  BY <1>7 DEF Timeout
<1>8. CASE ProcessEnds
  BY <1>8 DEF ProcessEnds
<1>9. CASE UNCHANGED vars
  BY <1>9 DEF vars
<1>10. CASE ReadRaises
  BY <1>10 DEF ReadRaises
<1> QED BY <1>1, <1>2, <1>3, <1>4, <1>5, <1>6, <1>7, <1>8, <1>9, <1>10 DEF Next

-----------------------------------------------------------------------------
\* A step keeps every answer in the receive buffer backed by an execution.
LEMMA ExecutedStep ==
  ASSUME TypeOK, InOrder, AnswersWereExecuted, [Next]_vars
  PROVE AnswersWereExecuted'
<1>b. /\ Len(rx) \in Nat /\ Len(wire) \in Nat /\ handled \in Nat
  BY DEF TypeOK
<1> USE DEF AnswersWereExecuted
<1>1. CASE OpenPort
  BY <1>1 DEF OpenPort, EmptyReceiveBuffer, mcuVars
<1>2. ASSUME NEW c \in Commands, Send(c) PROVE AnswersWereExecuted'
  <2>1. rx' = rx \/ rx' = << >>
    BY <1>2 DEF Send, EmptyReceiveBuffer
  <2>2. UNCHANGED <<executed, handled>>
    BY <1>2 DEF Send, mcuVars
  <2> QED BY <2>1, <2>2
<1>3. CASE WriteRaises
  BY <1>3 DEF WriteRaises, lineVars, mcuVars
<1>c. ASSUME wire # << >>, wire' = Tail(wire), handled' = Head(wire)
      PROVE handled' = wire[1] /\ handled' \in Nat /\ handled < handled'
  <2>1. 1 \in 1..Len(wire) /\ Head(wire) = wire[1] /\ wire[1] \in Nat
    BY <1>c, WireTail
  <2> QED BY <1>c, <2>1 DEF InOrder, WireIsNotHandled
<1>4. ASSUME NEW kind \in {"answer", "error"}, Handle(kind) PROVE AnswersWereExecuted'
  <2>1. handled' = Head(wire) /\ handled' \in Nat /\ handled < handled'
    BY <1>4, <1>c DEF Handle
  <2>2. [id |-> handled', kind |-> kind] \in Replies
    BY <2>1 DEF Replies, Kinds
  <2>3. /\ Len(rx') = Len(rx) + 1
        /\ rx'[Len(rx) + 1] = [id |-> handled', kind |-> kind]
        /\ \A i \in 1..Len(rx) : rx'[i] = rx[i]
    BY <1>4, <2>1, <2>2, RxAppend DEF Handle
  <2>4. /\ executed \subseteq executed'
        /\ executed' \subseteq executed \cup {handled'}
        /\ kind = "answer" => handled' \in executed'
    BY <1>4, <2>1 DEF Handle
  <2>5. executed' \subseteq 1..handled'
    BY <1>b, <2>1, <2>4
  <2>6. \A i \in 1..Len(rx') : rx'[i].kind = "answer" => rx'[i].id \in executed'
    <3> SUFFICES ASSUME NEW i \in 1..Len(rx'), rx'[i].kind = "answer"
                 PROVE rx'[i].id \in executed'
      OBVIOUS
    <3>1. i \in 1..Len(rx) \/ i = Len(rx) + 1
      BY <1>b, <2>3
    <3>2. CASE i \in 1..Len(rx)
      BY <2>3, <2>4, <3>2
    <3>3. CASE i = Len(rx) + 1
      <4>1. rx'[i].id = handled' /\ rx'[i].kind = kind
        BY <2>3, <3>3
      <4> QED BY <2>4, <4>1
    <3> QED BY <3>1, <3>2, <3>3
  <2> QED BY <2>5, <2>6
<1>5. ASSUME NEW done \in BOOLEAN, Lose(done) PROVE AnswersWereExecuted'
  <2>1. handled' = Head(wire) /\ handled' \in Nat /\ handled < handled'
    BY <1>5, <1>c DEF Lose
  <2>2. executed \subseteq executed' /\ executed' \subseteq executed \cup {handled'}
    BY <1>5, <2>1 DEF Lose
  <2>3. rx' = rx
    BY <1>5 DEF Lose
  <2>4. executed' \subseteq 1..handled'
    BY <1>b, <2>1, <2>2
  <2> QED BY <2>2, <2>3, <2>4
<1>6. CASE Receive
  <2>1. \A i \in 1..Len(rx') : i + 1 \in 1..Len(rx) /\ rx'[i] = rx[i + 1]
    BY <1>6, RxTail DEF Receive
  <2> QED BY <1>6, <2>1 DEF Receive, mcuVars
<1>7. CASE Timeout
  <2>1. CASE UNCHANGED rx
    BY <1>7, <2>1 DEF Timeout, mcuVars
  <2>2. CASE Len(rx) = 1 /\ rx' = <<[rx[1] EXCEPT !.kind = "fragment"]>>
    <3>1. rx[1] \in Replies
      BY <2>2, 1 \in 1..Len(rx), ElementOfSeq DEF TypeOK
    <3>2. Len(rx') = 1 /\ rx'[1].kind = "fragment"
      BY <2>2, <3>1 DEF Replies
    <3> QED BY <1>7, <3>2 DEF Timeout, mcuVars
  <2> QED BY <1>7, <2>1, <2>2 DEF Timeout
<1>8. CASE ProcessEnds
  BY <1>8 DEF ProcessEnds, lineVars, mcuVars
<1>9. CASE UNCHANGED vars
  BY <1>9 DEF vars
<1>10. CASE ReadRaises
  <2>1. UNCHANGED <<executed, handled>>
    BY <1>10 DEF ReadRaises, mcuVars
  <2>2. CASE UNCHANGED rx
    BY <2>1, <2>2
  <2>3. CASE rx # << >> /\ rx' = [rx EXCEPT ![1].kind = "fragment"]
    <3>1. /\ Len(rx') = Len(rx) /\ rx'[1].kind = "fragment"
          /\ \A i \in 1..Len(rx) : i # 1 => rx'[i] = rx[i]
      BY <2>3, HeadIsCut DEF TypeOK
    <3> QED BY <2>1, <3>1
  <2> QED BY <1>10, <2>2, <2>3 DEF ReadRaises
<1> QED BY <1>1, <1>2, <1>3, <1>4, <1>5, <1>6, <1>7, <1>8, <1>9, <1>10 DEF Next

-----------------------------------------------------------------------------
\* A step keeps what a normal return means: its form, and its own answer when it
\* was alone in flight.
LEMMA ResultStep ==
  ASSUME IInv, [Next]_vars
  PROVE SuccessHasTheRightForm' /\ QuietCallGetsItsOwnAnswer'
<1> USE DEF SuccessHasTheRightForm, QuietCallGetsItsOwnAnswer, me
<1>1. CASE OpenPort
  BY <1>1 DEF IInv, OpenPort, mcuVars
<1>2. ASSUME NEW c \in Commands, Send(c)
      PROVE SuccessHasTheRightForm' /\ QuietCallGetsItsOwnAnswer'
  BY <1>2 DEF Send, Failed
<1>3. CASE WriteRaises
  BY <1>3 DEF WriteRaises, Failed
<1>4. ASSUME NEW kind \in {"answer", "error"}, Handle(kind)
      PROVE SuccessHasTheRightForm' /\ QuietCallGetsItsOwnAnswer'
  <2>1. executed \subseteq executed' /\ UNCHANGED <<result, cmds, ahead>>
    BY <1>4 DEF Handle
  <2> QED BY <2>1 DEF IInv
<1>5. ASSUME NEW done \in BOOLEAN, Lose(done)
      PROVE SuccessHasTheRightForm' /\ QuietCallGetsItsOwnAnswer'
  <2>1. executed \subseteq executed' /\ UNCHANGED <<result, cmds, ahead>>
    BY <1>5 DEF Lose
  <2> QED BY <2>1 DEF IInv
<1>6. CASE Receive
  <2>1. CASE ~Accepts(cmds[me], Head(rx))
    BY <1>6, <2>1 DEF Receive, Failed
  <2>2. CASE Accepts(cmds[me], Head(rx))
    <3>1. 1 \in 1..Len(rx) /\ Head(rx) = rx[1] /\ rx[1] \in Replies
      BY <1>6, RxTail DEF Receive, IInv
    <3>2. /\ result' = [status |-> "ok", from |-> rx[1].id]
          /\ UNCHANGED <<cmds, ahead, executed>>
          /\ phase = "waiting"
      BY <1>6, <2>2, <3>1 DEF Receive, mcuVars
    <3>3. rx[1].kind = "answer" /\ rx[1].id \in executed
      BY <2>2, <3>1 DEF Accepts, IInv, AnswersWereExecuted
    <3>4. /\ Len(cmds) \in Nat /\ rx[1].id \in Nat
          /\ handled \in Nat /\ taken \in Nat
          /\ 0 < Len(cmds) /\ taken < rx[1].id /\ rx[1].id <= handled
          /\ handled <= Len(cmds)
      BY <3>1, <3>2 DEF IInv, TypeOK, InOrder, RxIsHandled, Replies, ACallIsInProgress
    <3>5. cmds[rx[1].id] \in Commands /\ cmds[Len(cmds)] \in Commands
      <4>1. rx[1].id \in 1..Len(cmds) /\ Len(cmds) \in 1..Len(cmds)
        BY <3>4
      <4> QED BY <4>1, ElementOfSeq DEF IInv, TypeOK
    <3>6. cmds[rx[1].id] = cmds[Len(cmds)]
      BY <2>2, <3>1, <3>5 DEF Accepts, Commands
    <3>7. ahead = 0 => rx[1].id = Len(cmds)
      BY <3>1, <3>2 DEF IInv, OnlyOwnInFlight
    <3> QED BY <3>2, <3>3, <3>4, <3>6, <3>7
  <2> QED BY <2>1, <2>2
<1>7. CASE Timeout
  BY <1>7 DEF Timeout, Failed
<1>8. CASE ProcessEnds
  BY <1>8 DEF ProcessEnds, Failed
<1>9. CASE UNCHANGED vars
  BY <1>9 DEF IInv, vars
<1>10. CASE ReadRaises
  BY <1>10 DEF ReadRaises, Failed
<1> QED BY <1>1, <1>2, <1>3, <1>4, <1>5, <1>6, <1>7, <1>8, <1>9, <1>10 DEF Next

\* There is a last call while a call is in progress.
LEMMA InProgressStep ==
  ASSUME TypeOK, ACallIsInProgress, [Next]_vars PROVE ACallIsInProgress'
<1> USE DEF ACallIsInProgress
<1>1. ASSUME NEW c \in Commands, Send(c) PROVE ACallIsInProgress'
  BY <1>1 DEF Send, TypeOK
<1>2. CASE UNCHANGED vars
  BY <1>2 DEF vars
<1>3. CASE UNCHANGED <<cmds, phase>> \/ phase' = "idle"
  BY <1>3
<1> QED BY <1>1, <1>2, <1>3 DEF Next, OpenPort, WriteRaises, Handle, Lose, Receive,
           Timeout, ReadRaises, ProcessEnds

-----------------------------------------------------------------------------
\* The inductive invariant holds in every state of Spec.
THEOREM InductiveInvariant == Spec => []IInv
<1>1. Init => IInv
  BY FailedIsTyped DEF Init, IInv, TypeOK, LagIsAccounted, InOrder, RxSorted, RxIsHandled,
     WireSorted, WireIsNotHandled, ACallIsInProgress, OnlyOwnInFlight,
     AnswersWereExecuted, SuccessHasTheRightForm, QuietCallGetsItsOwnAnswer, Failed
<1>2. IInv /\ [Next]_vars => IInv'
  BY TypeStep, LagStep, OrderStep, QuietStep, ExecutedStep, ResultStep, InProgressStep
  DEF IInv
<1> QED BY <1>1, <1>2, PTL DEF Spec

\* Unread replies are those of abandoned calls, less the lost ones, and that of the
\* call in progress.
THEOREM LagAccounted == Spec => []LagIsAccounted
  BY InductiveInvariant, PTL DEF IInv

\* Replies are read in the order of the calls they answer.
THEOREM RepliesInOrder == Spec => []InOrder
  BY InductiveInvariant, PTL DEF IInv

\* A call that finds nothing in flight gets its own answer or an exception.
THEOREM QuietCall == Spec => []QuietCallGetsItsOwnAnswer
  BY InductiveInvariant, PTL DEF IInv

\* A normal return is the answer to an executed command of the same form.
THEOREM RightForm == Spec => []SuccessHasTheRightForm
  BY InductiveInvariant, PTL DEF IInv

-----------------------------------------------------------------------------
\* Every step of ProgCom is a step of RegisterCalls, or leaves it unchanged.
LEMMA CallsStep ==
  ASSUME IInv, IInv', [Next]_vars
  PROVE [Calls!Next]_(Calls!callVars)
<1> USE DEF Calls!Next, Calls!callVars
<1>a. /\ Len(cmds) \in Nat /\ handled \in Nat /\ taken \in Nat
      /\ taken <= handled /\ handled <= Len(cmds)
  BY DEF IInv, TypeOK, InOrder
<1>f. ASSUME UNCHANGED <<cmds, handled, executed, taken>>,
             phase' = "idle", result'.from = 0
      PROVE Calls!Next
  <2>1. taken \in 0..Len(cmds)
    BY <1>a
  <2>2. Calls!Fail(taken)
    BY <1>f, <1>a DEF Calls!Fail
  <2> QED BY <2>1, <2>2
<1>1. CASE OpenPort
  BY <1>1 DEF OpenPort, mcuVars
<1>2. ASSUME NEW c \in Commands, Send(c) PROVE Calls!Next
  <2>1. Calls!Call(c)
    BY <1>2 DEF Send, Failed, mcuVars, Calls!Call
  <2> QED BY <2>1
<1>3. CASE WriteRaises
  BY <1>3, <1>f DEF WriteRaises, Failed, mcuVars
<1>c. ASSUME wire # << >>, wire' = Tail(wire)
      PROVE Head(wire) \in 1..Len(cmds) /\ handled < Head(wire)
  <2>1. 1 \in 1..Len(wire) /\ Head(wire) = wire[1] /\ wire[1] \in Nat
    BY <1>c, WireTail DEF IInv
  <2> QED BY <1>a, <2>1 DEF IInv, InOrder, WireIsNotHandled
<1>4. ASSUME NEW kind \in {"answer", "error"}, Handle(kind) PROVE Calls!Next
  <2>1. Calls!Execute(Head(wire))
    BY <1>4, <1>c DEF Handle, Calls!Execute
  <2> QED BY <1>4, <1>c, <2>1 DEF Handle
<1>5. ASSUME NEW done \in BOOLEAN, Lose(done) PROVE Calls!Next
  <2>1. Calls!Execute(Head(wire))
    BY <1>5, <1>c DEF Lose, Calls!Execute
  <2> QED BY <1>5, <1>c, <2>1 DEF Lose
<1>6. CASE Receive
  <2>1. /\ 1 \in 1..Len(rx) /\ Head(rx) = rx[1] /\ rx[1] \in Replies
    BY <1>6, RxTail DEF Receive, IInv
  <2>2. /\ taken < rx[1].id /\ rx[1].id \in 0..Len(cmds) /\ rx[1].id \in 1..Len(cmds)
    BY <1>a, <2>1 DEF IInv, InOrder, RxIsHandled, Replies
  <2>3. /\ phase = "waiting" /\ phase' = "idle" /\ taken' = rx[1].id
        /\ UNCHANGED <<cmds, executed, handled>>
    BY <1>6, <2>1 DEF Receive, mcuVars
  <2>4. CASE ~Accepts(cmds[me], Head(rx))
    <3>1. result'.from = 0
      BY <1>6, <2>4 DEF Receive, Failed
    <3>2. Calls!Fail(rx[1].id)
      BY <1>a, <2>2, <2>3, <3>1 DEF Calls!Fail
    <3> QED BY <2>2, <3>2
  <2>5. CASE Accepts(cmds[me], Head(rx))
    <3>1. result'.status = "ok" /\ result'.from = rx[1].id
      BY <1>6, <2>1, <2>5 DEF Receive
    <3>2. rx[1].id \in executed /\ cmds[rx[1].id] = cmds[Len(cmds)]
      BY <2>3, <3>1 DEF IInv, SuccessHasTheRightForm, me
    <3>3. Calls!Succeed(rx[1].id)
      BY <2>2, <2>3, <3>1, <3>2 DEF Calls!Succeed
    <3> QED BY <2>2, <3>3
  <2> QED BY <2>4, <2>5
<1>7. CASE Timeout
  BY <1>7, <1>f DEF Timeout, Failed, mcuVars
<1>8. CASE ProcessEnds
  BY <1>8, <1>f DEF ProcessEnds, Failed, mcuVars
<1>9. CASE UNCHANGED vars
  BY <1>9 DEF vars
<1>10. CASE ReadRaises
  BY <1>10, <1>f DEF ReadRaises, Failed, mcuVars
<1> QED BY <1>1, <1>2, <1>3, <1>4, <1>5, <1>6, <1>7, <1>8, <1>9, <1>10 DEF Next

\* read_reg and write_reg implement RegisterCalls: each command is executed at most
\* once, in the order of the calls, and backs at most one normal return.
THEOREM Implements == Spec => CallsSpec
<1>1. Init => Calls!Init
  BY DEF Init, Failed, Calls!Init
<1>2. IInv /\ IInv' /\ [Next]_vars => [Calls!Next]_(Calls!callVars)
  BY CallsStep
<1> QED BY <1>1, <1>2, InductiveInvariant, PTL DEF Spec, CallsSpec, Calls!Spec
=============================================================================
