---------------------------- MODULE McuControl ----------------------------
(***************************************************************************)
(* Writes to the MCU's own state by cm-mcu-control (Control commands, the  *)
(* 15 s power cycle, alarm thresholds) and cm-mcu-set-rtc.                 *)
(*                                                                         *)
(* A Control or Config write is acknowledged when the MCU has put a        *)
(* message in the queue of the task concerned, and refused when the queue  *)
(* is full; the task acts on it later.  Only the RTC is set at once.       *)
(* Commands and replies can be lost, and a reply can come after its caller *)
(* gave up: the next call then reads it.  A new process empties the line   *)
(* of what has arrived.  The user can decline, interrupt or kill the tool. *)
(*                                                                         *)
(* One tool runs at a time.  The five threshold reads of read_alarm_config *)
(* are one, of the threshold written; the RTC's are one (see PairReads).   *)
(***************************************************************************)
EXTENDS Naturals, Sequences

CONSTANTS
  QueueSize,      \* messages a task's queue holds
  MaxRuns,        \* bound: tools run, one after another
  MaxLate,        \* bound: calls that give up on a reply still to come
  MaxLost,        \* bound: commands and replies lost
  MaxOther        \* bound: messages others (the CLI) put in the queues

ASSUME McuControlAssumption == QueueSize \in Nat \ {0}
ASSUME BoundsAssumption ==
  MaxRuns \in Nat /\ MaxLate \in Nat /\ MaxLost \in Nat /\ MaxOther \in Nat

-----------------------------------------------------------------------------
(* What can be written: a message is a setting and its new value.          *)

Msg(s, v) == [setting |-> s, value |-> v]
Queues == {"power", "alarm", "volt", "zmon", "eeprom"}
Settings == {"inhibit", "fault", "tempLatch", "voltLatch", "zmon", "threshold", "rtc"}
Values == {"on", "off", "set", "clear", "old", "new"}
Other == Msg("other", "other")
Msgs == [setting : Settings, value : Values] \cup {Other}

\* McuControlCommand, and the Config and RTC writes: the queues of each and the message.
Sends ==
  [ASSERT       |-> [power  |-> Msg("inhibit", "on")],
   RELEASE      |-> [power  |-> Msg("inhibit", "off")],
   CLEAR_FAULT  |-> [power  |-> Msg("fault", "clear")],
   CLEAR_LATCHES |-> [alarm |-> Msg("tempLatch", "clear"), volt |-> Msg("voltLatch", "clear")],
   ZYNQMON_OFF  |-> [zmon   |-> Msg("zmon", "off")],
   THRESHOLD    |-> [eeprom |-> Msg("threshold", "new")]]
Writes == DOMAIN Sends \cup {"RTC"}
Reads == {"CAPS", "READ_CONFIG", "READ_RTC"}

\* What the capability mask must have for each call.
Capabilities == {"CONTROL", "CONFIG", "CONFIG_WRITE", "RUNTIME", "RTC_WRITE"}

\* Mutant of Needs: the write needs no more than the page.
NeedsPage(call) ==
  CASE call = "READ_CONFIG" -> {"CONFIG"}
    [] call = "THRESHOLD"   -> {"CONFIG"}
    [] call = "READ_RTC"    -> {"RUNTIME"}
    [] call = "RTC"         -> {"CONTROL", "RTC_WRITE"}
    [] call = "CAPS"        -> {}
    [] OTHER                -> {"CONTROL"}

Needs(call) ==
  CASE call = "READ_CONFIG" -> {"CONFIG"}
    [] call = "THRESHOLD"   -> {"CONFIG", "CONFIG_WRITE"}
    [] call = "READ_RTC"    -> {"RUNTIME"}
    [] call = "RTC"         -> {"CONTROL", "RTC_WRITE"}
    [] call = "CAPS"        -> {}
    [] OTHER                -> {"CONTROL"}

\* What each action of the tools does, in order.
Scripts ==
  {<<"confirm", c>> : c \in DOMAIN Sends \ {"THRESHOLD"}}
    \cup {<<"confirm", "ASSERT", "sleep", "RELEASE">>,
          <<"READ_CONFIG", "confirm", "THRESHOLD", "READ_CONFIG">>,
          <<"READ_RTC", "RTC", "READ_RTC">>}

IsCycle(script) == Len(script) = 4 /\ script[4] = "RELEASE"

\* A script's last write, and the messages it leaves standing.
IsLastWrite(script, i) ==
  /\ i \in DOMAIN script /\ script[i] \in Writes
  /\ \A j \in DOMAIN script : j > i => script[j] \notin Writes

Messages(call) ==
  IF call = "RTC" THEN {Msg("rtc", "set")} ELSE {Sends[call][q] : q \in DOMAIN Sends[call]}

-----------------------------------------------------------------------------
VARIABLES
  firmware,    \* the capabilities this firmware has
  setting,     \* the MCU's settings
  queue,       \* the messages in each task's queue
  sent,        \* the commands the MCU has yet to handle
  line,        \* the replies to be read
  tool,        \* [script, step, known, waiting, failed]
  at,          \* "idle", "running", "done" (status 0), "error" or "killed"
  quiet,       \* history: "yes" if no reply was to come when the tool started
  refused,     \* history: "yes" if the MCU refused this run's RELEASE
  runs, late, lost, others

mcu == <<setting, queue>>
bounds == <<runs, late, lost, others>>
vars == <<firmware, mcu, sent, line, tool, at, quiet, refused, bounds>>

Unknown == {"unknown"}
Replies == {"c", "full", "caps", "old", "new", "set", "unset"}

Tools == [script : Scripts, step : 1..5, known : (SUBSET Capabilities) \cup {Unknown},
          waiting : Writes \cup Reads \cup {"none"}, failed : {"yes", "no"}]

TypeOK ==
  /\ firmware \subseteq Capabilities
  /\ setting \in [Settings -> Values]
  /\ queue \in [Queues -> Seq(Msgs)] /\ \A q \in Queues : Len(queue[q]) <= QueueSize
  /\ sent \in Seq(Writes \cup Reads) /\ line \in Seq(Replies)
  /\ \A i \in DOMAIN sent :
       /\ sent[i] = "THRESHOLD" => "CONFIG_WRITE" \in firmware
       /\ sent[i] = "RTC" => "RTC_WRITE" \in firmware
  /\ tool \in Tools /\ tool.known \in {Unknown, firmware}
  /\ tool.step \in 1..(Len(tool.script) + 1)
  /\ at = "running" <=> tool.step <= Len(tool.script)
  /\ tool.waiting # "none" => at = "running"
  /\ at \in {"idle", "running", "done", "error", "killed"}
  /\ quiet \in {"yes", "no"} /\ refused \in {"yes", "no"}
  /\ runs \in 0..MaxRuns /\ late \in 0..MaxLate /\ lost \in 0..MaxLost
  /\ others \in 0..MaxOther

Idle == [script |-> <<"confirm", "ASSERT">>, step |-> 3, known |-> Unknown,
         waiting |-> "none", failed |-> "no"]

Init ==
  /\ firmware \in {{}, {"CONTROL", "RUNTIME"}, {"CONTROL", "RUNTIME", "CONFIG"}, Capabilities}
  /\ setting = [s \in Settings |->
       CASE s \in {"fault", "tempLatch", "voltLatch"} -> "set"
         [] s = "zmon" -> "on"
         [] s = "inhibit" -> "off"
         [] s = "threshold" -> "old"
         [] s = "rtc" -> "clear"]
  /\ queue = [q \in Queues |-> << >>]
  /\ sent = << >> /\ line = << >>
  /\ tool = Idle /\ at = "idle"
  /\ quiet = "yes" /\ refused = "no"
  /\ runs = 0 /\ late = 0 /\ lost = 0 /\ others = 0

-----------------------------------------------------------------------------
(* The MCU: ProgCom handles the commands, the tasks empty their queues.    *)

HasRoom(q) == Len(queue[q]) < QueueSize

Handle ==
  /\ sent # << >>
  /\ sent' = Tail(sent)
  /\ LET c == Head(sent)
         targets == IF c \in DOMAIN Sends THEN DOMAIN Sends[c] ELSE {}
         accepted == {q \in targets : HasRoom(q)}
     IN /\ queue' = [q \in Queues |->
             IF q \in accepted THEN Append(queue[q], Sends[c][q]) ELSE queue[q]]
        /\ setting' = IF c = "RTC" THEN [setting EXCEPT !["rtc"] = "set"] ELSE setting
        /\ line' = Append(line,
             CASE c = "CAPS"        -> "caps"
               [] c = "READ_CONFIG" -> setting["threshold"]
               [] c = "READ_RTC"    -> IF setting["rtc"] = "set" THEN "set" ELSE "unset"
               [] OTHER             -> IF accepted = targets THEN "c" ELSE "full")
        /\ refused' = IF c = "RELEASE" /\ accepted # targets THEN "yes" ELSE refused
  /\ UNCHANGED <<firmware, tool, at, quiet, bounds>>

Task(q) ==
  /\ queue[q] # << >>
  /\ queue' = [queue EXCEPT ![q] = Tail(@)]
  /\ LET m == Head(queue[q])
     IN setting' = IF m = Other THEN setting ELSE [setting EXCEPT ![m.setting] = m.value]
  /\ UNCHANGED <<firmware, sent, line, tool, at, quiet, refused, bounds>>

OthersSend ==
  /\ others < MaxOther
  /\ others' = others + 1
  /\ \E q \in Queues : HasRoom(q) /\ queue' = [queue EXCEPT ![q] = Append(@, Other)]
  /\ UNCHANGED <<firmware, setting, sent, line, tool, at, quiet, refused, runs, late, lost>>

Lose ==
  /\ lost < MaxLost
  /\ lost' = lost + 1
  /\ \/ sent # << >> /\ sent' = Tail(sent) /\ UNCHANGED line
     \/ line # << >> /\ line' = Tail(line) /\ UNCHANGED sent
  /\ UNCHANGED <<firmware, mcu, tool, at, quiet, refused, runs, late, others>>

-----------------------------------------------------------------------------
(* The tools.                                                              *)

Op == tool.script[tool.step]
End == Len(tool.script) + 1

Start ==
  /\ at # "running"
  /\ runs < MaxRuns
  /\ runs' = runs + 1
  /\ \E s \in Scripts : tool' = [Idle EXCEPT !.script = s, !.step = 1]
  /\ at' = "running"
  /\ line' = << >>
  /\ quiet' = IF sent = << >> THEN "yes" ELSE "no"
  /\ refused' = "no"
  /\ UNCHANGED <<firmware, mcu, sent, late, lost, others>>

\* The script goes on with step, or ends.
Continue(step, failed) ==
  /\ tool' = [tool EXCEPT !.step = step, !.failed = failed, !.waiting = "none"]
  /\ at' = IF step # End THEN "running" ELSE IF failed = "yes" THEN "error" ELSE "done"

\* Mutant of FailOp: power_cycle without its finally clause.
FailOpAtOnce == Continue(End, "yes")

\* power_cycle goes on to the release, whatever failed before it.
FailOp ==
  Continue(IF IsCycle(tool.script) /\ Op # "RELEASE" THEN 4 ELSE End, "yes")

Confirm ==
  /\ at = "running" /\ Op = "confirm"
  /\ Continue(tool.step + 1, tool.failed) \/ Continue(End, "yes")
  /\ UNCHANGED <<firmware, mcu, sent, line, quiet, refused, bounds>>

Sleep ==
  /\ at = "running" /\ Op = "sleep"
  /\ Continue(tool.step + 1, tool.failed)
  /\ UNCHANGED <<firmware, mcu, sent, line, quiet, refused, bounds>>

\* The capabilities are read once a process, before its first call; a call the
\* firmware does not advertise is not made.
Send ==
  /\ at = "running" /\ Op \notin {"confirm", "sleep"} /\ tool.waiting = "none"
  /\ LET call == IF tool.known = Unknown THEN "CAPS" ELSE Op
     IN IF Needs(call) \subseteq tool.known \/ call = "CAPS"
        THEN /\ sent' = Append(sent, call)
             /\ tool' = [tool EXCEPT !.waiting = call]
             /\ UNCHANGED at
        ELSE FailOp /\ UNCHANGED sent
  /\ UNCHANGED <<firmware, mcu, line, quiet, refused, bounds>>

\* Mutant of Accepts: an error reply is an acknowledgement.
AcceptsFull(call, reply) ==
  CASE call = "CAPS"        -> reply = "caps"
    [] call = "READ_CONFIG" -> reply \in {"old", "new"}
    [] call = "READ_RTC"    -> reply \in {"set", "unset"}
    [] OTHER                -> reply \in {"c", "full"}

\* The reply has the form the call expects (a read of another size has not).
Accepts(call, reply) ==
  CASE call = "CAPS"        -> reply = "caps"
    [] call = "READ_CONFIG" -> reply \in {"old", "new"}
    [] call = "READ_RTC"    -> reply \in {"set", "unset"}
    [] OTHER                -> reply = "c"

\* cm-mcu-set-rtc ends with a look at what it set.
Verified(reply) ==
  tool.waiting = "READ_RTC" /\ tool.step + 1 = End => reply = "set"

Receive ==
  /\ tool.waiting # "none" /\ line # << >>
  /\ line' = Tail(line)
  /\ IF ~ (Accepts(tool.waiting, Head(line)) /\ Verified(Head(line)))
     THEN FailOp
     ELSE IF tool.waiting = "CAPS"
     THEN tool' = [tool EXCEPT !.known = firmware, !.waiting = "none"] /\ UNCHANGED at
     ELSE Continue(tool.step + 1, tool.failed)
  /\ UNCHANGED <<firmware, mcu, sent, quiet, refused, bounds>>

\* readline gives up: on a reply that will never come, or on one that is late.
Timeout ==
  /\ tool.waiting # "none" /\ line = << >>
  /\ IF sent = << >> THEN UNCHANGED late ELSE late < MaxLate /\ late' = late + 1
  /\ FailOp
  /\ UNCHANGED <<firmware, mcu, sent, line, quiet, refused, runs, lost, others>>

\* Ctrl-C: the finally clause still runs, and the tool's status is not 0.
Interrupt ==
  /\ at = "running"
  /\ IF IsCycle(tool.script) /\ Op \in {"ASSERT", "sleep"}
     THEN Continue(4, "yes")
     ELSE /\ at' = "killed"
          /\ tool' = [tool EXCEPT !.step = End, !.waiting = "none"]
  /\ UNCHANGED <<firmware, mcu, sent, line, quiet, refused, bounds>>

\* SIGKILL, SIGTERM, or the blade goes down: no finally clause.
Kill ==
  /\ at = "running"
  /\ at' = "killed"
  /\ tool' = [tool EXCEPT !.step = End, !.waiting = "none"]
  /\ UNCHANGED <<firmware, mcu, sent, line, quiet, refused, bounds>>

Next ==
  \/ Handle \/ OthersSend \/ Lose
  \/ \E q \in Queues : Task(q)
  \/ Start \/ Confirm \/ Sleep \/ Send \/ Receive \/ Timeout \/ Interrupt \/ Kill

Spec == Init /\ [][Next]_vars

\* ProgComTask and the tasks run whenever they have something to do.
FairSpec == Spec /\ WF_vars(Handle) /\ \A q \in Queues : WF_vars(Task(q))

-----------------------------------------------------------------------------
\* Message i of queue q is the last one there about setting s.
IsNewest(q, i, s) ==
  /\ i \in DOMAIN queue[q] /\ queue[q][i].setting = s
  /\ \A j \in DOMAIN queue[q] : j > i => queue[q][j].setting # s

\* What setting m will be once its queue has been emptied.
WillHold(m) ==
  /\ \A q \in Queues : \A i \in DOMAIN queue[q] :
       IsNewest(q, i, m.setting) => queue[q][i].value = m.value
  /\ (\A q \in Queues : \A i \in DOMAIN queue[q] : queue[q][i].setting # m.setting) =>
       setting[m.setting] = m.value

(* A tool that ends with status 0, on a line that was quiet when it        *)
(* started, has got what it asked for accepted by every queue concerned,   *)
(* and for a power cycle that is the release: whatever was lost, late or   *)
(* refused, it does not take another call's acknowledgement for its own.   *)
SuccessMeansQueued ==
  at = "done" /\ quiet = "yes" =>
    \A i \in DOMAIN tool.script : IsLastWrite(tool.script, i) =>
      \A m \in Messages(tool.script[i]) : WillHold(m)

(* However a power cycle ends, short of being killed or interrupted in its *)
(* release, the board is let go of again if it was inhibited at all: if    *)
(* nothing is lost and the MCU does not refuse the release, the inhibit    *)
(* ends.                                                                   *)
CycleReleases ==
  (at \in {"done", "error"} /\ IsCycle(tool.script) /\ tool.known = firmware
     /\ "CONTROL" \in firmware /\ lost = 0 /\ refused = "no")
    ~> (setting["inhibit"] = "off" \/ refused = "yes" \/ lost > 0)

=============================================================================
