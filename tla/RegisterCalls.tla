--------------------------- MODULE RegisterCalls ---------------------------
(***************************************************************************)
(* What read_reg and write_reg of device/base.py promise their callers,    *)
(* with no serial line in sight.  Calls are made one at a time.  The MCU   *)
(* executes each command at most once and in the order the calls were      *)
(* made, possibly skipping some.  A call that succeeds is backed by the    *)
(* execution of a command of the same form, no execution backs two calls,  *)
(* and executions back calls in order.                                     *)
(*                                                                         *)
(* It deliberately does not promise that the execution backing a call is   *)
(* that of the call's own command: see ProgCom!WriteReturnedMeansExecuted. *)
(***************************************************************************)
EXTENDS Naturals, Sequences

CONSTANT Commands        \* the commands a call may send

VARIABLES
  cmds,                  \* the commands called so far; the index is the call's id
  busy,                  \* TRUE while a call is in progress
  handled,               \* id of the latest command that reached the MCU's handler
  executed,              \* ids of the commands the MCU executed
  claimed,               \* id of the latest execution that can no longer back a call
  backing                \* id of the execution that backs the last call, 0 if it failed

callVars == <<cmds, busy, handled, executed, claimed, backing>>

Init ==
  /\ cmds = << >>
  /\ busy = FALSE
  /\ handled = 0
  /\ executed = {}
  /\ claimed = 0
  /\ backing = 0

Call(c) ==
  /\ ~busy
  /\ cmds' = Append(cmds, c)
  /\ busy' = TRUE
  /\ backing' = 0
  /\ UNCHANGED <<handled, executed, claimed>>

Execute(i) ==
  /\ handled < i
  /\ handled' = i
  /\ \/ executed' = executed \cup {i}
     \/ UNCHANGED executed
  /\ UNCHANGED <<cmds, busy, claimed, backing>>

Succeed(i) ==
  /\ busy
  /\ claimed < i
  /\ i \in executed
  /\ cmds[i] = cmds[Len(cmds)]
  /\ busy' = FALSE
  /\ claimed' = i
  /\ backing' = i
  /\ UNCHANGED <<cmds, handled, executed>>

\* A call fails, or its process ends: executions up to i can back no later call.
Fail(i) ==
  /\ claimed <= i
  /\ busy' = FALSE
  /\ claimed' = i
  /\ backing' = 0
  /\ UNCHANGED <<cmds, handled, executed>>

Next ==
  \/ \E c \in Commands : Call(c)
  \/ \E i \in 1..Len(cmds) : Execute(i) \/ Succeed(i)
  \/ \E i \in 0..Len(cmds) : Fail(i)

Spec == Init /\ [][Next]_callVars
=============================================================================
