------------------------------ MODULE ProgCom ------------------------------
(***************************************************************************)
(* The serial line between the client and the MCU's ProgComTask, with the  *)
(* two calls every device class makes on it: Device.read_reg and           *)
(* Device.write_reg (device/base.py) over UART (uart.py).                  *)
(*                                                                         *)
(* The client writes one command line and waits for one reply line, at     *)
(* most UART.timeout seconds.  Lines carry no sequence number and the      *)
(* client does not discard old input before it sends, so a reply that      *)
(* arrives after its call gave up answers the next call.  A command or a   *)
(* reply can be lost, a call can time out in the middle of a line, pySerial*)
(* can raise from the write or from the read, and the process can end at   *)
(* any moment; the next process opens the port again, which empties the    *)
(* receive buffer but does not stop the MCU from answering what it has     *)
(* already been sent.                                                      *)
(*                                                                         *)
(* A reply is identified by the call whose command caused it.  Bytes and   *)
(* registers are left out: what a reply line can be told by is its form.   *)
(***************************************************************************)
EXTENDS Naturals, Sequences

CONSTANTS
  Sizes,                 \* the read sizes in use, within 1..4
  MaxCalls               \* bound: how many calls are made in all

ASSUME SizesAssumption == Sizes \subseteq 1..4
ASSUME MaxCallsAssumption == MaxCalls \in Nat

VARIABLES
  port,                  \* UART._ser: "closed" is None
  cmds,                  \* history: the command lines sent; the index is the call's id
  wire,                  \* ids of the commands sent that the MCU has not handled
  rx,                    \* reply lines received and not yet read
  phase,                 \* "waiting" while a call is inside UART.readline
  ahead,                 \* history: replies in flight when the last call sent
  result,                \* how the last call ended
  executed,              \* ids of the commands the MCU executed
  handled,               \* id of the last command the MCU handled
  taken,                 \* id of the last reply a call read
  abandoned,             \* how many calls ended without reading a reply
  lost                   \* how many replies no call will ever read

lineVars == <<wire, rx, lost>>
mcuVars  == <<executed, handled>>
vars == <<port, cmds, wire, rx, phase, ahead, result, executed, handled,
          taken, abandoned, lost>>

-----------------------------------------------------------------------------
(* Commands, replies, results.  A write carries no size: its               *)
(* acknowledgement is the same for any.                                    *)
Commands == [op : {"r"}, size : Sizes] \cup [op : {"w"}, size : {0}]

\* "answer" is "d XX.." or "c"; "error" is "e text"; a "fragment" is the end of a
\* line whose beginning was consumed by a readline that gave up.
Kinds == {"answer", "error", "fragment"}
Replies == [id : Nat, kind : Kinds]

Statuses == {"none", "ok", "RegisterAccessError", "UARTError", "SerialException"}
Results == [status : Statuses, from : Nat]

Failed(st) == [status |-> st, from |-> 0]

me == Len(cmds)          \* the id of the call in progress, or of the last one

\* Mutant of Accepts: read_reg does not compare the length of what it got.
AcceptsAnySize(c, reply) ==
  reply.kind = "answer" /\ cmds[reply.id].op = c.op

\* Mutant of Accepts: an "e text" line passes for an answer.
AcceptsErrors(c, reply) ==
  reply.kind # "fragment" /\ cmds[reply.id] = c

\* _decode_ascii_response followed by read_reg's length check, and
\* _check_ascii_write_response: what makes a reply line acceptable to a command.
\* Nothing in the line says which command it answers, only its form.
\*
\* That a fragment has no accepted form is a fact about the firmware's lines: the forms
\* begin with a lower-case "d" or are "c" alone, the data bytes are in upper case
\* (tests/test_base.py:37, tests/test_mcu.py:84), and no error text that the repository
\* quotes ends in either form.
Accepts(c, reply) ==
  /\ reply.kind = "answer"
  /\ cmds[reply.id].op = c.op
  /\ cmds[reply.id].size = c.size

-----------------------------------------------------------------------------
Init ==
  /\ port = "closed"
  /\ cmds = << >>
  /\ wire = << >>
  /\ rx = << >>
  /\ phase = "idle"
  /\ ahead = 0
  /\ result = Failed("none")
  /\ executed = {}
  /\ handled = 0
  /\ taken = 0
  /\ abandoned = 0
  /\ lost = 0

\* Opening the port empties its receive buffer: what is in rx then is lost.
EmptyReceiveBuffer ==
  /\ rx' = << >>
  /\ lost' = lost + Len(rx)

\* UART.__init__ opens the port when it can; if it cannot, the port stays closed
\* and the first write opens it.
OpenPort ==
  /\ port = "closed"
  /\ port' = "open"
  /\ EmptyReceiveBuffer
  /\ UNCHANGED <<cmds, wire, phase, ahead, result, taken, abandoned, mcuVars>>

\* Mutant of Send: the receive buffer is emptied before every command, and the line
\* then taken to be quiet.
SendAfterFlush(c) ==
  /\ phase = "idle"
  /\ Len(cmds) < MaxCalls
  /\ port' = "open"
  /\ EmptyReceiveBuffer
  /\ cmds' = Append(cmds, c)
  /\ wire' = Append(wire, Len(cmds) + 1)
  /\ phase' = "waiting"
  /\ ahead' = 0
  /\ result' = Failed("none")
  /\ UNCHANGED <<taken, abandoned, mcuVars>>

\* read_reg or write_reg sends its command (UART.write) and enters readline.
Send(c) ==
  /\ phase = "idle"
  /\ Len(cmds) < MaxCalls
  /\ port' = "open"
  /\ IF port = "open" THEN UNCHANGED <<rx, lost>> ELSE EmptyReceiveBuffer
  /\ cmds' = Append(cmds, c)
  /\ wire' = Append(wire, Len(cmds) + 1)
  /\ phase' = "waiting"
  /\ ahead' = Len(wire) + Len(rx')
  /\ result' = Failed("none")
  /\ UNCHANGED <<taken, abandoned, mcuVars>>

\* pySerial cannot open the port, or fails to write: nothing is sent, and its
\* exception is not turned into one of errors.py.  (If it had sent the whole line, that
\* would be Send and then ReadRaises.  If it had sent a part of it, the MCU would take
\* the next command for its end: one command that it refuses or does not see, which
\* Handle and Lose allow of any command.)
WriteRaises ==
  /\ phase = "idle"
  /\ result' = Failed("SerialException")
  /\ UNCHANGED <<port, cmds, phase, ahead, taken, abandoned, lineVars, mcuVars>>

-----------------------------------------------------------------------------
\* ProgComTask handles the oldest command.  It executes it and answers,
\* or refuses it with an error line.
Handle(kind) ==
  /\ wire # << >>
  /\ handled' = Head(wire)
  /\ executed' = IF kind = "answer" THEN executed \cup {Head(wire)} ELSE executed
  /\ wire' = Tail(wire)
  /\ rx' = Append(rx, [id |-> Head(wire), kind |-> kind])
  /\ UNCHANGED <<port, cmds, phase, ahead, result, taken, abandoned, lost>>

\* The command does not reach the task, or the answer does not reach the client.
Lose(done) ==
  /\ wire # << >>
  /\ handled' = Head(wire)
  /\ executed' = IF done THEN executed \cup {Head(wire)} ELSE executed
  /\ wire' = Tail(wire)
  /\ lost' = lost + 1
  /\ UNCHANGED <<port, cmds, rx, phase, ahead, result, taken, abandoned>>

-----------------------------------------------------------------------------
\* Mutant of Receive: the call keeps waiting after a line it does not accept.
ReceiveUntilAccepted ==
  /\ phase = "waiting"
  /\ rx # << >>
  /\ phase' = IF Accepts(cmds[me], Head(rx)) THEN "idle" ELSE "waiting"
  /\ rx' = Tail(rx)
  /\ taken' = Head(rx).id
  /\ result' = IF Accepts(cmds[me], Head(rx))
               THEN [status |-> "ok", from |-> Head(rx).id]
               ELSE Failed("none")
  /\ UNCHANGED <<port, cmds, wire, ahead, abandoned, lost, mcuVars>>

\* Mutant of Receive: what the decoder raises of a bad line is not turned into an
\* exception of errors.py.
ReceiveUnguarded ==
  /\ phase = "waiting"
  /\ rx # << >>
  /\ phase' = "idle"
  /\ rx' = Tail(rx)
  /\ taken' = Head(rx).id
  /\ result' = IF Accepts(cmds[me], Head(rx))
               THEN [status |-> "ok", from |-> Head(rx).id]
               ELSE Failed("ValueError")
  /\ UNCHANGED <<port, cmds, wire, ahead, abandoned, lost, mcuVars>>

\* Mutant of Receive: the newest unread line is read first.
ReceiveNewest ==
  /\ phase = "waiting"
  /\ rx # << >>
  /\ phase' = "idle"
  /\ rx' = SubSeq(rx, 1, Len(rx) - 1)
  /\ taken' = rx[Len(rx)].id
  /\ result' = Failed("RegisterAccessError")
  /\ UNCHANGED <<port, cmds, wire, ahead, abandoned, lost, mcuVars>>

\* readline returns the oldest unread line and the call judges it.
Receive ==
  /\ phase = "waiting"
  /\ rx # << >>
  /\ phase' = "idle"
  /\ rx' = Tail(rx)
  /\ taken' = Head(rx).id
  /\ result' = IF Accepts(cmds[me], Head(rx))
               THEN [status |-> "ok", from |-> Head(rx).id]
               ELSE Failed("RegisterAccessError")
  /\ UNCHANGED <<port, cmds, wire, ahead, abandoned, lost, mcuVars>>

\* Mutant of Timeout: the port is opened without a timeout, so only a line that has
\* begun to arrive can be given up.
TimeoutMidLineOnly ==
  /\ phase = "waiting"
  /\ Len(rx) = 1
  /\ rx' = <<[rx[1] EXCEPT !.kind = "fragment"]>>
  /\ phase' = "idle"
  /\ result' = Failed("UARTError")
  /\ abandoned' = abandoned + 1
  /\ UNCHANGED <<port, cmds, wire, ahead, taken, lost, mcuVars>>

\* No newline within UART.timeout: UARTError, raised outside the try blocks of
\* read_reg and write_reg.  The line may have begun to arrive: what read_until
\* consumed of it is gone, and its end is still to be read.
Timeout ==
  /\ phase = "waiting"
  /\ \/ rx = << >> /\ UNCHANGED rx
     \/ Len(rx) = 1 /\ rx' = <<[rx[1] EXCEPT !.kind = "fragment"]>>
  /\ phase' = "idle"
  /\ result' = Failed("UARTError")
  /\ abandoned' = abandoned + 1
  /\ UNCHANGED <<port, cmds, wire, ahead, taken, lost, mcuVars>>

\* pySerial raises in the middle of readline, which handles no exception: what it
\* consumed of the oldest line is gone.
ReadRaises ==
  /\ phase = "waiting"
  /\ \/ UNCHANGED rx
     \/ rx # << >> /\ rx' = [rx EXCEPT ![1].kind = "fragment"]
  /\ phase' = "idle"
  /\ result' = Failed("SerialException")
  /\ abandoned' = abandoned + 1
  /\ UNCHANGED <<port, cmds, wire, ahead, taken, lost, mcuVars>>

\* The process ends, by itself or by Ctrl-C in the middle of a call.
ProcessEnds ==
  /\ port' = "closed"
  /\ phase' = "idle"
  /\ result' = Failed("none")
  /\ abandoned' = IF phase = "waiting" THEN abandoned + 1 ELSE abandoned
  /\ UNCHANGED <<cmds, ahead, taken, lineVars, mcuVars>>

-----------------------------------------------------------------------------
Next ==
  \/ OpenPort
  \/ \E c \in Commands : Send(c)
  \/ WriteRaises
  \/ \E kind \in {"answer", "error"} : Handle(kind)
  \/ \E done \in BOOLEAN : Lose(done)
  \/ Receive
  \/ Timeout
  \/ ReadRaises
  \/ ProcessEnds

Spec == Init /\ [][Next]_vars

\* pySerial's read_until returns at its deadline at the latest.
FairSpec == Spec /\ WF_vars(Receive \/ Timeout)

-----------------------------------------------------------------------------
(* Properties *)

TypeOK ==
  /\ port \in {"closed", "open"}
  /\ phase = "waiting" => port = "open"
  /\ cmds \in Seq(Commands)
  /\ wire \in Seq(Nat)
  /\ rx \in Seq(Replies)
  /\ phase \in {"idle", "waiting"}
  /\ ahead \in Nat
  /\ result \in Results
  /\ executed \subseteq Nat
  /\ handled \in Nat
  /\ taken \in Nat
  /\ abandoned \in Nat
  /\ lost \in Nat

\* Every command is owed one reply.  Those not yet read are one for each call that
\* gave up and one for the call in progress, less those that were lost: unread
\* replies come from abandoned calls only, and only losing one ever pays the debt.
LagIsAccounted ==
  Len(wire) + Len(rx) + lost = abandoned + (IF phase = "waiting" THEN 1 ELSE 0)

\* Replies are read in the order of the calls they answer, none twice and none
\* before its call: what is unread is newer than what was read.
RxSorted == \A i, j \in 1..Len(rx) : i < j => rx[i].id < rx[j].id
WireSorted == \A i, j \in 1..Len(wire) : i < j => wire[i] < wire[j]
RxIsHandled == \A i \in 1..Len(rx) : taken < rx[i].id /\ rx[i].id <= handled
WireIsNotHandled == \A i \in 1..Len(wire) : handled < wire[i] /\ wire[i] <= Len(cmds)

InOrder ==
  /\ RxSorted /\ RxIsHandled
  /\ WireSorted /\ WireIsNotHandled
  /\ taken <= handled /\ handled <= Len(cmds)

\* A call that finds nothing in flight when it sends gets the answer to its own
\* command or an exception, whatever is lost or late meanwhile.
QuietCallGetsItsOwnAnswer ==
  result.status = "ok" /\ ahead = 0 => result.from = me

\* Whatever the lag, a call that returns normally returns the answer to a command of
\* its own kind and size that the MCU executed.
SuccessHasTheRightForm ==
  result.status = "ok" =>
    /\ result.from \in executed
    /\ result.from <= me
    /\ cmds[result.from] = cmds[me]

\* read_reg and write_reg implement the promise of RegisterCalls.
Calls == INSTANCE RegisterCalls WITH
           busy <- phase = "waiting", claimed <- taken, backing <- result.from
CallsSpec == Calls!Spec

\* Every call ends, however the line behaves.
CallsEnd == phase = "waiting" ~> phase = "idle"

\* What write_reg's check of "the MCU's acknowledgement for a write command"
\* (device/base.py:78) is for: a write that returns normally was executed.
WriteReturnedMeansExecuted ==
  result.status = "ok" /\ cmds[me].op = "w" => me \in executed
=============================================================================
