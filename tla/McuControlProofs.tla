---------------------------- MODULE McuControlProofs ----------------------------
(***************************************************************************)
(* Theorems about McuControl, for any size of the queues and any number of *)
(* runs, late replies, losses and messages of others.                      *)
(***************************************************************************)
EXTENDS McuControl, SequenceTheorems, TLAPS

-----------------------------------------------------------------------------
(* The invariant.                                                          *)

\* What a task's queue holds.
Held(q) == {Other} \cup {Sends[c][q] : c \in {d \in DOMAIN Sends : q \in DOMAIN Sends[d]}}

Types ==
  /\ TypeOK
  /\ setting["threshold"] \in {"old", "new"}
  /\ \A q \in Queues : \A i \in DOMAIN queue[q] : queue[q][i] \in Held(q)

\* The call that is waited for is the script's next, or the capabilities before it.
Asked ==
  /\ tool.waiting # "none" => Op \notin {"confirm", "sleep"} /\ tool.waiting \in {"CAPS", Op}
  /\ at = "done" => tool.failed = "no"

\* Nothing has gone wrong in this run, on a line that was quiet when it started.
Sound == quiet = "yes" /\ tool.failed = "no" /\ at \in {"running", "done"}

\* Then no command or reply is under way but those of the call that is waited for.
InStep ==
  Sound =>
    /\ sent = << >> \/ (tool.waiting # "none" /\ sent = <<tool.waiting>> /\ line = << >>)
    /\ line = << >> \/ (tool.waiting # "none" /\ \E r \in Replies : line = <<r>>)

\* And once the script's last write has been acknowledged, what it sent is or will be set.
Acknowledged(i) ==
  \/ tool.step > i
  \/ tool.step = i /\ tool.waiting = tool.script[i] /\ line = <<"c">>

Achieved ==
  Sound =>
    \A i \in DOMAIN tool.script : IsLastWrite(tool.script, i) /\ Acknowledged(i) =>
      \A m \in Messages(tool.script[i]) : WillHold(m)

IInv == Types /\ Asked /\ InStep /\ Achieved

-----------------------------------------------------------------------------
(* The constants: what is sent where, and the scripts.                     *)

LEMMA SendsForms ==
  ASSUME NEW c \in DOMAIN Sends, NEW q \in DOMAIN Sends[c]
  PROVE  \/ c = "ASSERT" /\ q = "power" /\ Sends[c][q] = Msg("inhibit", "on")
         \/ c = "RELEASE" /\ q = "power" /\ Sends[c][q] = Msg("inhibit", "off")
         \/ c = "CLEAR_FAULT" /\ q = "power" /\ Sends[c][q] = Msg("fault", "clear")
         \/ c = "CLEAR_LATCHES" /\ q = "alarm" /\ Sends[c][q] = Msg("tempLatch", "clear")
         \/ c = "CLEAR_LATCHES" /\ q = "volt" /\ Sends[c][q] = Msg("voltLatch", "clear")
         \/ c = "ZYNQMON_OFF" /\ q = "zmon" /\ Sends[c][q] = Msg("zmon", "off")
         \/ c = "THRESHOLD" /\ q = "eeprom" /\ Sends[c][q] = Msg("threshold", "new")
<1>1. c \in {"ASSERT", "RELEASE", "CLEAR_FAULT", "CLEAR_LATCHES", "ZYNQMON_OFF", "THRESHOLD"}
  BY DEF Sends
<1>2. CASE c = "ASSERT"
  BY <1>2 DEF Sends
<1>3. CASE c = "RELEASE"
  BY <1>3 DEF Sends
<1>4. CASE c = "CLEAR_FAULT"
  BY <1>4 DEF Sends
<1>5. CASE c = "CLEAR_LATCHES"
  BY <1>5 DEF Sends
<1>6. CASE c = "ZYNQMON_OFF"
  BY <1>6 DEF Sends
<1>7. CASE c = "THRESHOLD"
  BY <1>7 DEF Sends
<1> QED BY <1>1, <1>2, <1>3, <1>4, <1>5, <1>6, <1>7

LEMMA MsgFields ==
  ASSUME NEW s, NEW v
  PROVE  Msg(s, v).setting = s /\ Msg(s, v).value = v
BY DEF Msg

\* The messages that a queue holds are about settings of its own.
LEMMA HeldGood ==
  ASSUME NEW q \in Queues, NEW m \in Held(q)
  PROVE  /\ m \in Msgs /\ m.setting # "rtc"
         /\ m.setting \in Settings \/ (m = Other /\ m.setting \notin Settings)
         /\ (m.setting = "threshold" => m.value = "new")
         /\ \A r \in Queues : \A n \in Held(r) : n.setting = m.setting /\ n # Other => r = q
<1>1. ASSUME NEW r \in Queues, NEW n \in Held(r)
      PROVE  \/ n = Other
             \/ r = "power" /\ n \in {Msg("inhibit", "on"), Msg("inhibit", "off"),
                                      Msg("fault", "clear")}
             \/ r = "alarm" /\ n = Msg("tempLatch", "clear")
             \/ r = "volt" /\ n = Msg("voltLatch", "clear")
             \/ r = "zmon" /\ n = Msg("zmon", "off")
             \/ r = "eeprom" /\ n = Msg("threshold", "new")
  <2>1. CASE n # Other
    <3>1. PICK c \in DOMAIN Sends : r \in DOMAIN Sends[c] /\ n = Sends[c][r]
      BY <2>1 DEF Held
    <3> QED BY <3>1, SendsForms
  <2> QED BY <2>1
<1>2. Other.setting = "other" /\ "other" \notin Settings
  BY MsgFields DEF Other, Settings
<1>3. \A s \in Settings, v \in Values : Msg(s, v) \in Msgs
  BY DEF Msg, Msgs
<1>4. m \in Msgs
  BY <1>1, <1>3 DEF Msgs, Settings, Values
<1>5. /\ m.setting # "rtc" /\ (m.setting = "threshold" => m.value = "new")
      /\ m.setting \in Settings \/ (m = Other /\ m.setting \notin Settings)
  BY <1>1, <1>2, MsgFields DEF Settings
<1>6. ASSUME NEW r \in Queues, NEW n \in Held(r), n.setting = m.setting, n # Other
      PROVE  r = q
  BY <1>1, <1>2, <1>6, MsgFields
<1> QED BY <1>4, <1>5, <1>6

LEMMA SendsHeld ==
  ASSUME NEW c \in DOMAIN Sends, NEW q \in DOMAIN Sends[c]
  PROVE  q \in Queues /\ Sends[c][q] \in Held(q) /\ Sends[c][q] # Other
<1>1. Other.setting = "other"
  BY MsgFields DEF Other
<1>2. Sends[c][q].setting # "other" /\ q \in Queues
  BY SendsForms, MsgFields DEF Queues
<1> QED BY <1>1, <1>2 DEF Held

LEMMA ScriptsForm ==
  ASSUME NEW s \in Scripts
  PROVE  /\ Len(s) \in 2..4 /\ DOMAIN s = 1..Len(s)
         /\ \A i \in DOMAIN s : s[i] \in Writes \cup Reads \cup {"confirm", "sleep"}
         /\ s[1] \in {"confirm", "READ_CONFIG", "READ_RTC"}
         /\ IsCycle(s) => Len(s) = 4
<1>1. DOMAIN Sends = {"ASSERT", "RELEASE", "CLEAR_FAULT", "CLEAR_LATCHES", "ZYNQMON_OFF", "THRESHOLD"}
  BY DEF Sends
<1>2. \/ \E c \in DOMAIN Sends : s = <<"confirm", c>>
      \/ s = <<"confirm", "ASSERT", "sleep", "RELEASE">>
      \/ s = <<"READ_CONFIG", "confirm", "THRESHOLD", "READ_CONFIG">>
      \/ s = <<"READ_RTC", "RTC", "READ_RTC">>
  BY DEF Scripts
<1>3. CASE \E c \in DOMAIN Sends : s = <<"confirm", c>>
  BY <1>3 DEF IsCycle, Writes
<1>4. CASE s = <<"confirm", "ASSERT", "sleep", "RELEASE">>
  BY <1>1, <1>4 DEF IsCycle, Writes
<1>5. CASE s = <<"READ_CONFIG", "confirm", "THRESHOLD", "READ_CONFIG">>
  BY <1>1, <1>5 DEF IsCycle, Writes, Reads
<1>6. CASE s = <<"READ_RTC", "RTC", "READ_RTC">>
  BY <1>1, <1>6 DEF IsCycle, Writes, Reads
<1> QED BY <1>2, <1>3, <1>4, <1>5, <1>6

\* Every script has one.
LEMMA HasLastWrite ==
  ASSUME NEW s \in Scripts
  PROVE  \E i \in DOMAIN s : IsLastWrite(s, i)
<1>1. DOMAIN Sends = {"ASSERT", "RELEASE", "CLEAR_FAULT", "CLEAR_LATCHES", "ZYNQMON_OFF", "THRESHOLD"}
  BY DEF Sends
<1>2. \/ \E c \in DOMAIN Sends : s = <<"confirm", c>>
      \/ s = <<"confirm", "ASSERT", "sleep", "RELEASE">>
      \/ s = <<"READ_CONFIG", "confirm", "THRESHOLD", "READ_CONFIG">>
      \/ s = <<"READ_RTC", "RTC", "READ_RTC">>
  BY DEF Scripts
<1>3. ASSUME NEW c \in DOMAIN Sends, s = <<"confirm", c>> PROVE IsLastWrite(s, 2)
  BY <1>3 DEF IsLastWrite, Writes
<1>4. CASE s = <<"confirm", "ASSERT", "sleep", "RELEASE">>
  <2>1. IsLastWrite(s, 4)
    BY <1>1, <1>4 DEF IsLastWrite, Writes
  <2> QED BY <2>1 DEF IsLastWrite
<1>5. CASE s = <<"READ_CONFIG", "confirm", "THRESHOLD", "READ_CONFIG">>
  <2>1. IsLastWrite(s, 3)
    BY <1>1, <1>5 DEF IsLastWrite, Writes
  <2> QED BY <2>1 DEF IsLastWrite
<1>6. CASE s = <<"READ_RTC", "RTC", "READ_RTC">>
  <2>1. IsLastWrite(s, 2)
    BY <1>1, <1>6 DEF IsLastWrite, Writes
  <2> QED BY <2>1 DEF IsLastWrite
<1>7. CASE \E c \in DOMAIN Sends : s = <<"confirm", c>>
  BY <1>3, <1>7 DEF IsLastWrite
<1> QED BY <1>2, <1>4, <1>5, <1>6, <1>7

LEMMA MessagesForm ==
  ASSUME NEW c \in Writes, NEW m \in Messages(c)
  PROVE  /\ m.setting \in Settings
         /\ \/ c = "RTC" /\ m = Msg("rtc", "set")
            \/ c \in DOMAIN Sends /\ \E q \in DOMAIN Sends[c] : m = Sends[c][q]
<1>1. CASE c = "RTC"
  BY <1>1, MsgFields DEF Messages, Settings
<1>2. CASE c # "RTC"
  <2>1. c \in DOMAIN Sends /\ \E q \in DOMAIN Sends[c] : m = Sends[c][q]
    BY <1>2 DEF Writes, Messages
  <2>2. PICK q \in DOMAIN Sends[c] : m = Sends[c][q]
    BY <2>1
  <2>3. m.setting \in Settings
    BY <2>1, <2>2, SendsForms, MsgFields DEF Settings
  <2> QED BY <2>1, <2>3
<1> QED BY <1>1, <1>2

-----------------------------------------------------------------------------
(* The types of what the state holds.                                      *)

LEMMA Typed ==
  ASSUME Types
  PROVE  /\ setting \in [Settings -> Values] /\ queue \in [Queues -> Seq(Msgs)]
         /\ \A q \in Queues : DOMAIN queue[q] = 1..Len(queue[q]) /\ Len(queue[q]) \in Nat
         /\ tool.script \in Scripts /\ tool.step \in 1..(Len(tool.script) + 1)
         /\ at = "running" <=> tool.step \in DOMAIN tool.script
<1>1. tool \in Tools
  BY DEF Types, TypeOK
<1>2. /\ tool.script \in Scripts /\ tool.step \in 1..(Len(tool.script) + 1)
      /\ at = "running" <=> tool.step <= Len(tool.script)
  BY <1>1 DEF Types, TypeOK, Tools
<1>3. /\ Len(tool.script) \in 2..4 /\ DOMAIN tool.script = 1..Len(tool.script)
  BY <1>2, ScriptsForm
<1>4. at = "running" <=> tool.step \in DOMAIN tool.script
  BY <1>2, <1>3
<1>5. setting \in [Settings -> Values] /\ queue \in [Queues -> Seq(Msgs)]
  BY DEF Types, TypeOK
<1>6. \A q \in Queues : DOMAIN queue[q] = 1..Len(queue[q]) /\ Len(queue[q]) \in Nat
  BY <1>5
<1> QED BY <1>2, <1>4, <1>5, <1>6

\* What a task does with a message keeps what its setting will be.
LEMMA TaskKeeps ==
  ASSUME Types, NEW q \in Queues, Task(q), NEW m, m.setting \in Settings, WillHold(m)
  PROVE  WillHold(m)'
<1> DEFINE h == Head(queue[q])
<1>1. /\ queue[q] # << >> /\ queue' = [queue EXCEPT ![q] = Tail(queue[q])]
      /\ setting' = IF h = Other THEN setting ELSE [setting EXCEPT ![h.setting] = h.value]
  BY DEF Task
<1>2. /\ queue \in [Queues -> Seq(Msgs)] /\ setting \in [Settings -> Values]
      /\ Len(queue[q]) \in Nat /\ DOMAIN queue[q] = 1..Len(queue[q])
      /\ \A r \in Queues : \A i \in DOMAIN queue[r] : queue[r][i] \in Held(r)
  BY Typed DEF Types
<1>3. /\ 1 \in DOMAIN queue[q] /\ h = queue[q][1] /\ h \in Held(q)
      /\ DOMAIN Tail(queue[q]) = 1..(Len(queue[q]) - 1)
      /\ \A i \in 1..(Len(queue[q]) - 1) : Tail(queue[q])[i] = queue[q][i + 1]
  BY <1>1, <1>2
<1> HIDE DEF h
<1>4. /\ queue'[q] = Tail(queue[q])
      /\ \A r \in Queues : r # q => queue'[r] = queue[r]
  BY <1>1, <1>2
<1>5. ASSUME NEW r \in Queues, NEW i \in DOMAIN queue'[r], IsNewest(r, i, m.setting)'
      PROVE  queue'[r][i].value = m.value
  <2>1. CASE r # q
    BY <1>4, <1>5, <2>1 DEF WillHold, IsNewest
  <2>2. CASE r = q
    <3>1. i \in 1..(Len(queue[q]) - 1) /\ i + 1 \in DOMAIN queue[q]
      BY <1>2, <1>3, <1>4, <2>2
    <3>2. queue'[q][i] = queue[q][i + 1]
      BY <1>3, <1>4, <3>1
    <3>3. ASSUME NEW j \in DOMAIN queue[q], j > i + 1 PROVE queue[q][j].setting # m.setting
      <4>1. j - 1 \in 1..(Len(queue[q]) - 1) /\ j - 1 > i
        BY <1>2, <3>1, <3>3
      <4>2. queue'[q][j - 1] = queue[q][j] /\ j - 1 \in DOMAIN queue'[q]
        BY <1>2, <1>3, <1>4, <4>1
      <4> QED BY <1>5, <2>2, <4>1, <4>2 DEF IsNewest
    <3>4. IsNewest(q, i + 1, m.setting)
      BY <1>5, <2>2, <3>1, <3>2, <3>3 DEF IsNewest
    <3> QED BY <2>2, <3>1, <3>2, <3>4 DEF WillHold
  <2> QED BY <2>1, <2>2
<1>6. ASSUME \A r \in Queues : \A i \in DOMAIN queue'[r] : queue'[r][i].setting # m.setting
      PROVE  setting'[m.setting] = m.value
  <2>1. \A r \in Queues : r # q => \A i \in DOMAIN queue[r] : queue[r][i].setting # m.setting
    BY <1>4, <1>6
  <2>2. ASSUME NEW j \in DOMAIN queue[q], j > 1 PROVE queue[q][j].setting # m.setting
    <3>1. j - 1 \in 1..(Len(queue[q]) - 1) /\ (j - 1) + 1 = j
      BY <1>2, <2>2
    <3>2. queue'[q][j - 1] = queue[q][j] /\ j - 1 \in DOMAIN queue'[q]
      BY <1>3, <1>4, <3>1
    <3> QED BY <1>6, <3>2
  <2>3. CASE h.setting = m.setting
    <3>1. IsNewest(q, 1, m.setting)
      BY <1>3, <2>2, <2>3 DEF IsNewest
    <3>2. h.value = m.value
      BY <1>3, <3>1 DEF WillHold
    <3>3. h # Other
      BY <2>3, MsgFields DEF Other, Settings
    <3> QED BY <1>1, <1>2, <2>3, <3>2, <3>3
  <2>4. CASE h.setting # m.setting
    <3>1. \A j \in DOMAIN queue[q] : j = 1 \/ j > 1
      BY <1>2
    <3>2. \A r \in Queues : \A i \in DOMAIN queue[r] : queue[r][i].setting # m.setting
      BY <1>3, <2>1, <2>2, <2>4, <3>1
    <3>3. setting[m.setting] = m.value
      BY <3>2 DEF WillHold
    <3> QED BY <1>1, <1>2, <2>4, <3>3
  <2> QED BY <2>3, <2>4
<1> QED BY <1>5, <1>6 DEF WillHold

\* A message about something else changes nothing.
LEMMA OtherKeeps ==
  ASSUME Types, NEW q \in Queues, queue' = [queue EXCEPT ![q] = Append(queue[q], Other)],
         setting' = setting, NEW m, m.setting \in Settings, WillHold(m)
  PROVE  WillHold(m)'
<1>1. /\ queue \in [Queues -> Seq(Msgs)]
      /\ Len(queue[q]) \in Nat /\ DOMAIN queue[q] = 1..Len(queue[q])
  BY Typed
<1>2. Other.setting # m.setting /\ Other \in Msgs
  BY MsgFields DEF Other, Settings, Msgs
<1>3. /\ DOMAIN Append(queue[q], Other) = 1..(Len(queue[q]) + 1)
      /\ Append(queue[q], Other)[Len(queue[q]) + 1] = Other
      /\ \A i \in DOMAIN queue[q] : Append(queue[q], Other)[i] = queue[q][i]
  BY <1>1, <1>2
<1>4. /\ queue'[q] = Append(queue[q], Other)
      /\ \A r \in Queues : r # q => queue'[r] = queue[r]
  BY <1>1
<1>5. \A i \in DOMAIN queue'[q] : i \in DOMAIN queue[q] \/ queue'[q][i].setting # m.setting
  BY <1>1, <1>2, <1>3, <1>4
<1>6. \A i \in DOMAIN queue[q] : i \in DOMAIN queue'[q] /\ queue'[q][i] = queue[q][i]
  BY <1>1, <1>3, <1>4
<1>7. ASSUME NEW r \in Queues, NEW i \in DOMAIN queue'[r], IsNewest(r, i, m.setting)'
      PROVE  queue'[r][i].value = m.value
  <2>1. IsNewest(r, i, m.setting) /\ i \in DOMAIN queue[r] /\ queue'[r][i] = queue[r][i]
    BY <1>4, <1>5, <1>6, <1>7 DEF IsNewest
  <2> QED BY <2>1 DEF WillHold
<1>8. ASSUME \A r \in Queues : \A i \in DOMAIN queue'[r] : queue'[r][i].setting # m.setting
      PROVE  setting'[m.setting] = m.value
  <2>1. \A r \in Queues : \A i \in DOMAIN queue[r] : queue[r][i].setting # m.setting
    BY <1>4, <1>6, <1>8
  <2> QED BY <2>1 DEF WillHold
<1> QED BY <1>7, <1>8 DEF WillHold

-----------------------------------------------------------------------------
(* What the MCU does with a command.                                       *)

Targets(c) == IF c \in DOMAIN Sends THEN DOMAIN Sends[c] ELSE {}
Taken(c) == {q \in Targets(c) : HasRoom(q)}
Reply(c) ==
  CASE c = "CAPS"        -> "caps"
    [] c = "READ_CONFIG" -> setting["threshold"]
    [] c = "READ_RTC"    -> IF setting["rtc"] = "set" THEN "set" ELSE "unset"
    [] OTHER             -> IF Taken(c) = Targets(c) THEN "c" ELSE "full"

LEMMA HandleIs ==
  ASSUME Handle, NEW c, c = Head(sent)
  PROVE  /\ sent # << >> /\ sent' = Tail(sent) /\ line' = Append(line, Reply(c))
         /\ queue' = [q \in Queues |->
                        IF q \in Taken(c) THEN Append(queue[q], Sends[c][q]) ELSE queue[q]]
         /\ setting' = IF c = "RTC" THEN [setting EXCEPT !["rtc"] = "set"] ELSE setting
         /\ refused' = IF c = "RELEASE" /\ Taken(c) # Targets(c) THEN "yes" ELSE refused
BY DEF Handle, Taken, Targets, Reply

LEMMA WritesAre ==
  ASSUME NEW c \in Writes
  PROVE  /\ c \in DOMAIN Sends \/ c = "RTC"
         /\ c \notin Reads /\ c \notin {"confirm", "sleep", "none"}
         /\ Reply(c) = IF Taken(c) = Targets(c) THEN "c" ELSE "full"
         /\ "RTC" \notin DOMAIN Sends
<1>1. DOMAIN Sends = {"ASSERT", "RELEASE", "CLEAR_FAULT", "CLEAR_LATCHES", "ZYNQMON_OFF", "THRESHOLD"}
  BY DEF Sends
<1>2. c \in DOMAIN Sends \/ c = "RTC"
  BY DEF Writes
<1>3. c \notin Reads /\ c \notin {"confirm", "sleep", "none"}
  BY <1>1, <1>2 DEF Reads
<1> QED BY <1>1, <1>2, <1>3 DEF Reply, Reads

\* A command that is not a write leaves settings and queues alone.
LEMMA ReadKeeps ==
  ASSUME Types, Handle, Head(sent) \notin Writes
  PROVE  queue' = queue /\ setting' = setting
<1> PICK c : c = Head(sent)
  OBVIOUS
<1>1. c \notin DOMAIN Sends /\ c # "RTC"
  BY DEF Writes
<1>2. Taken(c) = {}
  BY <1>1 DEF Taken, Targets
<1>3. queue' = [q \in Queues |-> queue[q]] /\ setting' = setting
  BY <1>1, <1>2, HandleIs
<1> QED BY <1>3, Typed

\* A write that is acknowledged is in every queue it is for.
LEMMA AckMeansQueued ==
  ASSUME Types, Handle, NEW c \in Writes, c = Head(sent), Reply(c) = "c",
         NEW m \in Messages(c)
  PROVE  WillHold(m)'
<1>1. /\ queue \in [Queues -> Seq(Msgs)] /\ setting \in [Settings -> Values]
      /\ \A r \in Queues : DOMAIN queue[r] = 1..Len(queue[r]) /\ Len(queue[r]) \in Nat
      /\ \A r \in Queues : \A i \in DOMAIN queue[r] : queue[r][i] \in Held(r)
  BY Typed DEF Types
<1>2. /\ Taken(c) = Targets(c)
      /\ queue' = [q \in Queues |->
                     IF q \in Taken(c) THEN Append(queue[q], Sends[c][q]) ELSE queue[q]]
      /\ setting' = IF c = "RTC" THEN [setting EXCEPT !["rtc"] = "set"] ELSE setting
  BY HandleIs, WritesAre
<1>3. CASE c = "RTC"
  <2>1. m.setting = "rtc" /\ m.value = "set"
    BY <1>3, MsgFields DEF Messages
  <2>2. Taken(c) = {}
    BY <1>3, WritesAre DEF Taken, Targets
  <2>3. \A r \in Queues : queue'[r] = queue[r]
    BY <1>2, <2>2
  <2>4. \A r \in Queues : \A i \in DOMAIN queue'[r] : queue'[r][i].setting # "rtc"
    BY <1>1, <2>3, HeldGood
  <2>5. setting'["rtc"] = "set"
    BY <1>1, <1>2, <1>3 DEF Settings
  <2> QED BY <2>1, <2>4, <2>5 DEF WillHold, IsNewest
<1>4. CASE c # "RTC"
  <2>1. c \in DOMAIN Sends /\ \E q \in DOMAIN Sends[c] : m = Sends[c][q]
    BY <1>4, MessagesForm
  <2>2. PICK q \in DOMAIN Sends[c] : m = Sends[c][q]
    BY <2>1
  <2>3. q \in Queues /\ m \in Held(q) /\ m # Other /\ q \in Taken(c)
    BY <1>2, <2>1, <2>2, SendsHeld DEF Targets
  <2>4. m \in Msgs
    BY <2>3, HeldGood
  <2>5. queue'[q] = Append(queue[q], m)
    BY <1>2, <2>2, <2>3
  <2>6. /\ DOMAIN queue'[q] = 1..(Len(queue[q]) + 1)
        /\ queue'[q][Len(queue[q]) + 1] = m /\ Len(queue[q]) + 1 \in DOMAIN queue'[q]
    BY <1>1, <2>3, <2>4, <2>5
  <2>7. ASSUME NEW r \in Queues, r # q, NEW i \in DOMAIN queue'[r]
        PROVE  queue'[r][i].setting # m.setting
    <3>1. queue'[r][i] \in Held(r)
      <4>1. CASE r \in Taken(c)
        <5>1. r \in DOMAIN Sends[c]
          BY <2>1, <4>1 DEF Taken, Targets
        <5>2. Sends[c][r] \in Held(r) /\ Sends[c][r] \in Msgs
          BY <2>1, <5>1, SendsHeld, HeldGood
        <5>3. queue'[r] = Append(queue[r], Sends[c][r])
          BY <1>2, <4>1
        <5>4. \/ i \in DOMAIN queue[r] /\ queue'[r][i] = queue[r][i]
              \/ queue'[r][i] = Sends[c][r]
          BY <1>1, <5>2, <5>3
        <5> QED BY <1>1, <5>2, <5>4
      <4>2. CASE r \notin Taken(c)
        BY <1>1, <1>2, <4>2
      <4> QED BY <4>1, <4>2
    <3> QED BY <2>3, <2>7, <3>1, HeldGood
  <2>8. ASSUME NEW i \in DOMAIN queue'[q], IsNewest(q, i, m.setting)'
        PROVE  i = Len(queue[q]) + 1
    <3>1. ~(i < Len(queue[q]) + 1)
      BY <2>6, <2>8 DEF IsNewest
    <3> QED BY <1>1, <2>3, <2>6, <3>1
  <2> QED BY <2>3, <2>6, <2>7, <2>8 DEF WillHold, IsNewest
<1> QED BY <1>3, <1>4

-----------------------------------------------------------------------------
(* The types, part by part.                                                *)

McuTyped ==
  /\ setting \in [Settings -> Values] /\ setting["threshold"] \in {"old", "new"}
  /\ queue \in [Queues -> Seq(Msgs)] /\ \A q \in Queues : Len(queue[q]) <= QueueSize
  /\ \A q \in Queues : \A i \in DOMAIN queue[q] : queue[q][i] \in Held(q)
LineTyped ==
  /\ sent \in Seq(Writes \cup Reads) /\ line \in Seq(Replies)
  /\ \A i \in DOMAIN sent :
       /\ sent[i] = "THRESHOLD" => "CONFIG_WRITE" \in firmware
       /\ sent[i] = "RTC" => "RTC_WRITE" \in firmware
ToolTyped ==
  /\ tool \in Tools /\ tool.known \in {Unknown, firmware}
  /\ tool.step \in 1..(Len(tool.script) + 1)
  /\ at = "running" <=> tool.step <= Len(tool.script)
  /\ tool.waiting # "none" => at = "running"
  /\ at \in {"idle", "running", "done", "error", "killed"}
RestTyped ==
  /\ firmware \subseteq Capabilities /\ quiet \in {"yes", "no"} /\ refused \in {"yes", "no"}
  /\ runs \in 0..MaxRuns /\ late \in 0..MaxLate /\ lost \in 0..MaxLost
  /\ others \in 0..MaxOther

LEMMA Parts ==
  /\ Types <=> McuTyped /\ LineTyped /\ ToolTyped /\ RestTyped
  /\ Types' <=> McuTyped' /\ LineTyped' /\ ToolTyped' /\ RestTyped'
<1>1. Types <=> McuTyped /\ LineTyped /\ ToolTyped /\ RestTyped
  BY DEF Types, TypeOK, McuTyped, LineTyped, ToolTyped, RestTyped
<1>2. Types' <=> McuTyped' /\ LineTyped' /\ ToolTyped' /\ RestTyped'
  BY DEF Types, TypeOK, McuTyped, LineTyped, ToolTyped, RestTyped
<1> QED BY <1>1, <1>2

LEMMA One ==
  ASSUME NEW x
  PROVE  Tail(<<x>>) = << >> /\ Head(<<x>>) = x /\ <<x>> # << >>
OBVIOUS

LEMMA Shorter ==
  ASSUME NEW S, NEW s \in Seq(S), s # << >>
  PROVE  /\ Tail(s) \in Seq(S) /\ Head(s) \in S /\ 1 \in DOMAIN s /\ Head(s) = s[1]
         /\ Len(Tail(s)) = Len(s) - 1
         /\ \A i \in DOMAIN Tail(s) : i + 1 \in DOMAIN s /\ Tail(s)[i] = s[i + 1]
OBVIOUS

LEMMA HandleTypes ==
  ASSUME Types, Handle PROVE Types'
<1> PICK c : c = Head(sent)
  OBVIOUS
<1>1. McuTyped /\ LineTyped /\ ToolTyped /\ RestTyped
  BY Parts
<1>2. /\ sent # << >> /\ sent' = Tail(sent) /\ line' = Append(line, Reply(c))
      /\ queue' = [q \in Queues |->
                     IF q \in Taken(c) THEN Append(queue[q], Sends[c][q]) ELSE queue[q]]
      /\ setting' = IF c = "RTC" THEN [setting EXCEPT !["rtc"] = "set"] ELSE setting
      /\ refused' \in {"yes", refused}
  BY HandleIs
<1>3. LineTyped'
  <2>1. Reply(c) \in Replies
    BY <1>1 DEF Reply, McuTyped, Replies
  <2>2. line' \in Seq(Replies)
    BY <1>1, <1>2, <2>1 DEF LineTyped
  <2>3. /\ sent' \in Seq(Writes \cup Reads)
        /\ \A i \in DOMAIN sent' : i + 1 \in DOMAIN sent /\ sent'[i] = sent[i + 1]
    BY <1>1, <1>2, Shorter DEF LineTyped
  <2> QED BY <1>1, <2>2, <2>3 DEF LineTyped, Handle
<1>4. ASSUME NEW q \in Queues
      PROVE  /\ queue'[q] \in Seq(Msgs) /\ Len(queue'[q]) <= QueueSize
             /\ \A i \in DOMAIN queue'[q] : queue'[q][i] \in Held(q)
  <2>1. /\ queue[q] \in Seq(Msgs) /\ Len(queue[q]) <= QueueSize
        /\ \A i \in DOMAIN queue[q] : queue[q][i] \in Held(q)
    BY <1>1 DEF McuTyped
  <2>2. CASE q \in Taken(c)
    <3>1. c \in DOMAIN Sends /\ q \in DOMAIN Sends[c] /\ Len(queue[q]) < QueueSize
      BY <2>2 DEF Taken, Targets, HasRoom
    <3> PICK m : m = Sends[c][q]
      OBVIOUS
    <3>2. m \in Held(q) /\ m \in Msgs
      BY <3>1, SendsHeld, HeldGood
    <3>3. queue'[q] = Append(queue[q], m)
      BY <1>2, <2>2
    <3>4. /\ queue'[q] \in Seq(Msgs) /\ Len(queue'[q]) = Len(queue[q]) + 1
          /\ \A i \in DOMAIN queue'[q] :
               (i \in DOMAIN queue[q] /\ queue'[q][i] = queue[q][i]) \/ queue'[q][i] = m
      BY <2>1, <3>2, <3>3
    <3>5. Len(queue[q]) + 1 <= QueueSize
      BY <2>1, <3>1, McuControlAssumption
    <3> QED BY <2>1, <3>2, <3>4, <3>5
  <2>3. CASE q \notin Taken(c)
    BY <1>2, <2>1, <2>3
  <2> QED BY <2>2, <2>3
<1>5. McuTyped'
  <2>1. queue' \in [Queues -> Seq(Msgs)]
    BY <1>2, <1>4
  <2>2. setting' \in [Settings -> Values] /\ setting'["threshold"] \in {"old", "new"}
    BY <1>1, <1>2 DEF McuTyped, Settings, Values
  <2> QED BY <1>4, <2>1, <2>2 DEF McuTyped
<1>6. ToolTyped'
  BY <1>1 DEF ToolTyped, Handle
<1>7. RestTyped'
  BY <1>1, <1>2 DEF RestTyped, Handle, bounds
<1> QED BY <1>3, <1>5, <1>6, <1>7, Parts

LEMMA TaskTypes ==
  ASSUME Types, NEW q \in Queues, Task(q) PROVE Types'
<1> PICK h : h = Head(queue[q])
  OBVIOUS
<1>1. McuTyped /\ LineTyped /\ ToolTyped /\ RestTyped
  BY Parts
<1>2. /\ queue[q] # << >> /\ queue' = [queue EXCEPT ![q] = Tail(queue[q])]
      /\ setting' = IF h = Other THEN setting ELSE [setting EXCEPT ![h.setting] = h.value]
  BY DEF Task
<1>3. /\ queue \in [Queues -> Seq(Msgs)] /\ queue[q] \in Seq(Msgs)
      /\ Len(queue[q]) <= QueueSize /\ Len(queue[q]) \in Nat
      /\ \A i \in DOMAIN queue[q] : queue[q][i] \in Held(q)
  BY <1>1 DEF McuTyped
<1>4. /\ Tail(queue[q]) \in Seq(Msgs) /\ h \in Msgs /\ h \in Held(q)
      /\ Len(Tail(queue[q])) = Len(queue[q]) - 1
      /\ \A i \in DOMAIN Tail(queue[q]) : Tail(queue[q])[i] \in Held(q)
  BY <1>2, <1>3, Shorter
<1>5. Len(Tail(queue[q])) <= QueueSize
  BY <1>3, <1>4, McuControlAssumption
<1>6. /\ setting' \in [Settings -> Values] /\ setting'["threshold"] \in {"old", "new"}
  <2>1. CASE h = Other
    BY <1>1, <1>2, <2>1 DEF McuTyped
  <2>2. CASE h # Other
    <3>1. h.setting \in Settings /\ h.value \in Values
      BY <1>4, <2>2 DEF Msgs
    <3>2. h.setting = "threshold" => h.value = "new"
      BY <1>4, HeldGood
    <3> QED BY <1>1, <1>2, <2>2, <3>1, <3>2 DEF McuTyped, Settings
  <2> QED BY <2>1, <2>2
<1>7. McuTyped'
  BY <1>1, <1>2, <1>3, <1>4, <1>5, <1>6 DEF McuTyped
<1>8. LineTyped' /\ ToolTyped' /\ RestTyped'
  BY <1>1 DEF LineTyped, ToolTyped, RestTyped, Task, bounds
<1> QED BY <1>7, <1>8, Parts

LEMMA OthersTypes ==
  ASSUME Types, OthersSend PROVE Types'
<1>1. McuTyped /\ LineTyped /\ ToolTyped /\ RestTyped
  BY Parts
<1>2. PICK q \in Queues : HasRoom(q) /\ queue' = [queue EXCEPT ![q] = Append(queue[q], Other)]
  BY DEF OthersSend
<1>3. /\ queue \in [Queues -> Seq(Msgs)] /\ queue[q] \in Seq(Msgs)
      /\ Len(queue[q]) < QueueSize /\ Len(queue[q]) \in Nat
      /\ \A i \in DOMAIN queue[q] : queue[q][i] \in Held(q)
  BY <1>1, <1>2 DEF McuTyped, HasRoom
<1>4. Other \in Msgs /\ Other \in Held(q)
  BY DEF Msgs, Held
<1>5. /\ Append(queue[q], Other) \in Seq(Msgs)
      /\ Len(Append(queue[q], Other)) = Len(queue[q]) + 1
      /\ \A i \in DOMAIN Append(queue[q], Other) :
           \/ i \in DOMAIN queue[q] /\ Append(queue[q], Other)[i] = queue[q][i]
           \/ Append(queue[q], Other)[i] = Other
  BY <1>3, <1>4
<1>6. Len(Append(queue[q], Other)) <= QueueSize
  BY <1>3, <1>5, McuControlAssumption
<1>7. McuTyped'
  BY <1>1, <1>2, <1>3, <1>4, <1>5, <1>6 DEF McuTyped, OthersSend
<1>8. others' \in 0..MaxOther
  BY <1>1, BoundsAssumption DEF RestTyped, OthersSend
<1>9. LineTyped' /\ ToolTyped' /\ RestTyped'
  BY <1>1, <1>8 DEF LineTyped, ToolTyped, RestTyped, OthersSend
<1> QED BY <1>7, <1>9, Parts

LEMMA LoseTypes ==
  ASSUME Types, Lose PROVE Types'
<1>1. McuTyped /\ LineTyped /\ ToolTyped /\ RestTyped
  BY Parts
<1>2. \/ sent # << >> /\ sent' = Tail(sent) /\ line' = line
      \/ line # << >> /\ line' = Tail(line) /\ sent' = sent
  BY DEF Lose
<1>3. LineTyped'
  <2>1. firmware' = firmware
    BY DEF Lose
  <2>2. CASE sent # << >> /\ sent' = Tail(sent) /\ line' = line
    <3>1. /\ sent' \in Seq(Writes \cup Reads)
          /\ \A i \in DOMAIN sent' : i + 1 \in DOMAIN sent /\ sent'[i] = sent[i + 1]
      BY <1>1, <2>2, Shorter DEF LineTyped
    <3> QED BY <1>1, <2>1, <2>2, <3>1 DEF LineTyped
  <2>3. CASE line # << >> /\ line' = Tail(line) /\ sent' = sent
    <3>1. line' \in Seq(Replies)
      BY <1>1, <2>3, Shorter DEF LineTyped
    <3> QED BY <1>1, <2>1, <2>3, <3>1 DEF LineTyped
  <2> QED BY <1>2, <2>2, <2>3
<1>4. lost' \in 0..MaxLost
  BY <1>1, BoundsAssumption DEF RestTyped, Lose
<1>5. McuTyped' /\ ToolTyped' /\ RestTyped'
  BY <1>1, <1>4 DEF McuTyped, ToolTyped, RestTyped, Lose, mcu
<1> QED BY <1>3, <1>5, Parts

LEMMA Steps ==
  ASSUME NEW n \in 2..4
  PROVE  /\ 1 \in 1..(n + 1) /\ 1 <= n /\ 1 \in 1..5
         /\ n + 1 \in 1..5 /\ \A s \in 1..(n + 1) : s \in 1..5 /\ (s # n + 1 <=> s <= n)
OBVIOUS

\* The tool goes on or ends.
LEMMA ContinueTyped ==
  ASSUME ToolTyped, NEW step, NEW failed, step \in 1..End, failed \in {"yes", "no"},
         Continue(step, failed), firmware' = firmware
  PROVE  /\ ToolTyped' /\ tool'.waiting = "none" /\ tool'.script = tool.script
         /\ tool'.step = step /\ tool'.failed = failed /\ tool'.known = tool.known
         /\ at' \in {"running", "done", "error"} /\ (at' = "done" => failed = "no")
<1>1. /\ tool \in Tools /\ tool.known \in {Unknown, firmware}
      /\ tool' = [tool EXCEPT !.step = step, !.failed = failed, !.waiting = "none"]
      /\ at' = IF step # End THEN "running" ELSE IF failed = "yes" THEN "error" ELSE "done"
  BY DEF ToolTyped, Continue
<1>2. tool.script \in Scripts /\ Len(tool.script) \in 2..4 /\ End = Len(tool.script) + 1
  BY <1>1, ScriptsForm DEF Tools, End
<1> PICK n \in 2..4 : n = Len(tool.script)
  BY <1>2
<1>3. step \in 1..5 /\ (step # End <=> step <= Len(tool.script))
  <2>1. step \in 1..(n + 1) /\ End = n + 1
    BY <1>2
  <2> QED BY <2>1, Steps
<1>4. /\ tool' \in Tools /\ tool'.waiting = "none" /\ tool'.script = tool.script
      /\ tool'.step = step /\ tool'.failed = failed /\ tool'.known = tool.known
  BY <1>1, <1>3 DEF Tools
<1>5. at' \in {"running", "done", "error"} /\ (at' = "running" <=> step <= Len(tool.script))
  BY <1>1, <1>3
<1>6. /\ tool'.step \in 1..(Len(tool'.script) + 1)
      /\ (at' = "running" <=> tool'.step <= Len(tool'.script))
  BY <1>2, <1>4, <1>5
<1>7. ToolTyped'
  BY <1>1, <1>4, <1>5, <1>6 DEF ToolTyped
<1> QED BY <1>1, <1>4, <1>5, <1>7

LEMMA FailOpTyped ==
  ASSUME ToolTyped, at = "running", FailOp, firmware' = firmware
  PROVE  /\ ToolTyped' /\ tool'.waiting = "none" /\ tool'.script = tool.script
         /\ tool'.failed = "yes" /\ at' \in {"running", "error"}
<1>1. tool.script \in Scripts
  BY DEF ToolTyped, Tools
<1>2. Len(tool.script) \in 2..4 /\ (IsCycle(tool.script) => Len(tool.script) = 4)
  BY <1>1, ScriptsForm
<1> DEFINE step == IF IsCycle(tool.script) /\ Op # "RELEASE" THEN 4 ELSE End
<1>3. step \in 1..End
  BY <1>2 DEF End
<1>4. Continue(step, "yes")
  BY DEF FailOp
<1> HIDE DEF step
<1> QED BY <1>3, <1>4, ContinueTyped

\* What is next, while the tool runs.
LEMMA Running ==
  ASSUME ToolTyped, at = "running"
  PROVE  /\ tool.step \in DOMAIN tool.script /\ tool.step + 1 \in 1..End
         /\ Op \in Writes \cup Reads \cup {"confirm", "sleep"}
         /\ tool.failed \in {"yes", "no"}
<1>1. tool.script \in Scripts /\ tool.failed \in {"yes", "no"}
  BY DEF ToolTyped, Tools
<1>2. Len(tool.script) \in 2..4 /\ DOMAIN tool.script = 1..Len(tool.script)
  BY <1>1, ScriptsForm
<1>3. tool.step \in DOMAIN tool.script /\ tool.step + 1 \in 1..End
  BY <1>2 DEF ToolTyped, End
<1> QED BY <1>1, <1>3, ScriptsForm DEF Op

\* The run is over, whatever the tool was at.
LEMMA KilledTyped ==
  ASSUME ToolTyped, at' = "killed", tool' = [tool EXCEPT !.step = End, !.waiting = "none"],
         firmware' = firmware
  PROVE  ToolTyped' /\ tool'.waiting = "none"
<1>1. tool \in Tools /\ tool.known \in {Unknown, firmware}
  BY DEF ToolTyped
<1>2. Len(tool.script) \in 2..4 /\ End = Len(tool.script) + 1
  BY <1>1, ScriptsForm DEF Tools, End
<1> PICK n \in 2..4 : n = Len(tool.script)
  BY <1>2
<1>3. End \in 1..5
  <2>1. n + 1 \in 1..5
    BY Steps
  <2> QED BY <1>2, <2>1
<1>4. /\ tool' \in Tools /\ tool'.waiting = "none" /\ tool'.script = tool.script
      /\ tool'.step = End /\ tool'.known = tool.known
  BY <1>1, <1>3 DEF Tools
<1>5. tool'.step \in 1..(Len(tool'.script) + 1) /\ ~(tool'.step <= Len(tool'.script))
  BY <1>2, <1>4
<1> QED BY <1>1, <1>4, <1>5 DEF ToolTyped

-----------------------------------------------------------------------------
(* The invariant, step by step.                                            *)

\* Once something has gone wrong nothing is claimed of this run.
LEMMA Wrong ==
  ASSUME Types', tool'.waiting = "none", at' # "done",
         tool'.failed = "yes" \/ at' = "killed"
  PROVE  IInv'
BY DEF IInv, Asked, InStep, Achieved, Sound

\* What stays set as long as queues and settings do.
LEMMA Stays ==
  ASSUME queue' = queue, setting' = setting, NEW m
  PROVE  WillHold(m)' <=> WillHold(m)
BY DEF WillHold, IsNewest

LEMMA IInvInit == Init => IInv
<1> SUFFICES ASSUME Init PROVE IInv
  OBVIOUS
<1>1. /\ tool = Idle /\ at = "idle" /\ sent = << >> /\ line = << >>
      /\ queue = [q \in Queues |-> << >>]
  BY DEF Init
<1>2. McuTyped
  <2>1. setting \in [Settings -> Values] /\ setting["threshold"] = "old"
    BY DEF Init, Settings, Values
  <2>2. \A q \in Queues : queue[q] = << >>
    BY <1>1
  <2>3. queue \in [Queues -> Seq(Msgs)]
    BY <1>1
  <2>4. 0 <= QueueSize
    BY McuControlAssumption
  <2> QED BY <2>1, <2>2, <2>3, <2>4 DEF McuTyped
<1>3. LineTyped
  BY <1>1 DEF LineTyped
<1>4. ToolTyped
  <2>1. "ASSERT" \in DOMAIN Sends
    BY DEF Sends
  <2>2. <<"confirm", "ASSERT">> \in Scripts
    BY <2>1 DEF Scripts
  <2>3. Idle \in Tools /\ Idle.step = 3 /\ Len(Idle.script) = 2 /\ Idle.waiting = "none"
        /\ Idle.known = Unknown
    BY <2>2 DEF Idle, Tools
  <2> QED BY <1>1, <2>3 DEF ToolTyped
<1>5. RestTyped
  BY BoundsAssumption DEF Init, RestTyped, Capabilities
<1>6. Asked /\ InStep /\ Achieved
  BY <1>1 DEF Asked, InStep, Achieved, Sound, Idle
<1> QED BY <1>2, <1>3, <1>4, <1>5, <1>6, Parts DEF IInv

LEMMA HandleStep ==
  ASSUME IInv, Handle PROVE IInv'
<1> PICK c : c = Head(sent)
  OBVIOUS
<1>1. /\ sent # << >> /\ sent' = Tail(sent) /\ line' = Append(line, Reply(c))
      /\ tool' = tool /\ at' = at /\ quiet' = quiet
  BY HandleIs DEF Handle
<1>2. Types /\ Types'
  BY HandleTypes DEF IInv
<1>3. Asked'
  BY <1>1 DEF IInv, Asked, Op
<1>4. ASSUME Sound
      PROVE  /\ tool.waiting # "none" /\ c = tool.waiting
             /\ sent' = << >> /\ line' = <<Reply(c)>> /\ Reply(c) \in Replies
  <2>1. tool.waiting # "none" /\ sent = <<tool.waiting>> /\ line = << >>
    BY <1>1, <1>4 DEF IInv, InStep
  <2>2. sent' = << >> /\ c = tool.waiting /\ line' = <<Reply(c)>>
    BY <1>1, <2>1
  <2>3. setting["threshold"] \in {"old", "new"}
    BY <1>2 DEF Types
  <2> QED BY <2>1, <2>2, <2>3 DEF Reply, Replies
<1>5. InStep'
  BY <1>1, <1>4 DEF InStep, Sound
<1>6. ASSUME Sound, NEW i \in DOMAIN tool.script, IsLastWrite(tool.script, i),
             Acknowledged(i)', NEW m \in Messages(tool.script[i])
      PROVE  WillHold(m)'
  <2>1. tool.waiting \in {"CAPS", Op} /\ at = "running"
    BY <1>2, <1>4, <1>6 DEF IInv, Asked, Types, TypeOK
  <2>2. tool.step \in DOMAIN tool.script /\ Op = tool.script[tool.step]
    BY <1>2, <2>1, Running, Parts DEF Op
  <2>3. CASE tool.step > i
    <3>1. Op \notin Writes
      BY <1>6, <2>2, <2>3 DEF IsLastWrite
    <3>2. "CAPS" \notin Writes
      BY DEF Writes, Sends
    <3>3. queue' = queue /\ setting' = setting
      BY <1>2, <1>4, <1>6, <2>1, <3>1, <3>2, ReadKeeps
    <3>4. WillHold(m)
      BY <1>6, <2>3 DEF IInv, Achieved, Acknowledged
    <3> QED BY <3>3, <3>4, Stays
  <2>4. CASE ~(tool.step > i)
    <3>1. tool.waiting = tool.script[i] /\ <<Reply(c)>> = <<"c">>
      BY <1>1, <1>4, <1>6, <2>4 DEF Acknowledged
    <3>2. c \in Writes /\ Reply(c) = "c" /\ m \in Messages(c)
      BY <1>4, <1>6, <3>1 DEF IsLastWrite
    <3> QED BY <1>2, <3>2, AckMeansQueued
  <2> QED BY <2>3, <2>4
<1>7. Achieved'
  BY <1>1, <1>6 DEF Achieved, Sound
<1> QED BY <1>2, <1>3, <1>5, <1>7 DEF IInv

\* A step that leaves the tool and the line alone, or shortens the line.
LEMMA Elsewhere ==
  ASSUME IInv, Types', tool' = tool, at' = at, quiet' = quiet,
         \/ sent' = sent /\ line' = line
         \/ sent # << >> /\ sent' = Tail(sent) /\ line' = line
         \/ line # << >> /\ line' = Tail(line) /\ sent' = sent,
         \A m : m.setting \in Settings /\ WillHold(m) => WillHold(m)'
  PROVE  IInv'
<1>1. Asked'
  BY DEF IInv, Asked, Op
<1>2. InStep'
  <2> SUFFICES ASSUME Sound
               PROVE  /\ sent' = << >> \/ (sent' = sent /\ line' = line)
                      /\ line' = << >> \/ (line' = line)
    BY DEF IInv, InStep, Sound
  <2>1. sent # << >> => sent = <<tool.waiting>> /\ line = << >>
    BY DEF IInv, InStep
  <2>2. line # << >> => \E r \in Replies : line = <<r>>
    BY DEF IInv, InStep
  <2>3. CASE sent # << >> /\ sent' = Tail(sent) /\ line' = line
    BY <2>1, <2>3, One
  <2>4. CASE line # << >> /\ line' = Tail(line) /\ sent' = sent
    BY <2>1, <2>2, <2>4, One
  <2> QED BY <2>3, <2>4
<1>3. ASSUME Sound, line' = <<"c">> PROVE line = <<"c">>
  <2>1. line = << >> \/ \E r \in Replies : line = <<r>>
    BY <1>3 DEF IInv, InStep
  <2>2. line # << >> => Tail(line) = << >>
    BY <2>1, One
  <2>3. <<"c">> # << >>
    BY One
  <2> QED BY <1>3, <2>2, <2>3
<1>4. ASSUME Sound, NEW i \in DOMAIN tool.script, IsLastWrite(tool.script, i),
             Acknowledged(i)', NEW m \in Messages(tool.script[i])
      PROVE  WillHold(m)'
  <2>1. Acknowledged(i)
    BY <1>3, <1>4 DEF Acknowledged
  <2>2. WillHold(m)
    BY <1>4, <2>1 DEF IInv, Achieved
  <2>3. m.setting \in Settings
    BY <1>4, MessagesForm DEF IsLastWrite
  <2> QED BY <2>2, <2>3
<1>5. Achieved'
  BY <1>4 DEF Achieved, Sound
<1> QED BY <1>1, <1>2, <1>5 DEF IInv

LEMMA AroundSteps ==
  ASSUME IInv, OthersSend \/ Lose \/ (\E q \in Queues : Task(q)) PROVE IInv'
<1>1. Types
  BY DEF IInv
<1>2. CASE OthersSend
  <2>1. PICK q \in Queues : queue' = [queue EXCEPT ![q] = Append(queue[q], Other)]
    BY <1>2 DEF OthersSend
  <2>2. /\ setting' = setting /\ tool' = tool /\ at' = at /\ quiet' = quiet
        /\ sent' = sent /\ line' = line
    BY <1>2 DEF OthersSend
  <2>3. \A m : m.setting \in Settings /\ WillHold(m) => WillHold(m)'
    BY <1>1, <2>1, <2>2, OtherKeeps
  <2> QED BY <1>1, <1>2, <2>2, <2>3, OthersTypes, Elsewhere
<1>3. CASE Lose
  <2>1. /\ queue' = queue /\ setting' = setting /\ tool' = tool /\ at' = at /\ quiet' = quiet
        /\ \/ sent # << >> /\ sent' = Tail(sent) /\ line' = line
           \/ line # << >> /\ line' = Tail(line) /\ sent' = sent
    BY <1>3 DEF Lose, mcu
  <2>2. \A m : WillHold(m)' <=> WillHold(m)
    BY <2>1, Stays
  <2> QED BY <1>1, <1>3, <2>1, <2>2, LoseTypes, Elsewhere
<1>4. ASSUME NEW q \in Queues, Task(q) PROVE IInv'
  <2>1. tool' = tool /\ at' = at /\ quiet' = quiet /\ sent' = sent /\ line' = line
    BY <1>4 DEF Task
  <2>2. \A m : m.setting \in Settings /\ WillHold(m) => WillHold(m)'
    BY <1>1, <1>4, TaskKeeps
  <2> QED BY <1>1, <1>4, <2>1, <2>2, TaskTypes, Elsewhere
<1> QED BY <1>2, <1>3, <1>4

-----------------------------------------------------------------------------
(* The tool's steps.                                                       *)

\* A step of the script that makes no call.
LEMMA PassStep ==
  ASSUME IInv, at = "running", Op \in {"confirm", "sleep"},
         Continue(tool.step + 1, tool.failed),
         UNCHANGED <<firmware, mcu, sent, line, quiet, refused, bounds>>
  PROVE  IInv'
<1>1. McuTyped /\ LineTyped /\ ToolTyped /\ RestTyped /\ Asked
  BY Parts DEF IInv
<1>2. /\ tool.step \in DOMAIN tool.script /\ tool.step + 1 \in 1..End
      /\ tool.failed \in {"yes", "no"} /\ Op = tool.script[tool.step]
  BY <1>1, Running DEF Op
<1>3. firmware' = firmware /\ sent' = sent /\ line' = line /\ quiet' = quiet
      /\ queue' = queue /\ setting' = setting
  BY DEF mcu
<1>4. /\ ToolTyped' /\ tool'.waiting = "none" /\ tool'.script = tool.script
      /\ tool'.step = tool.step + 1 /\ tool'.failed = tool.failed
      /\ at' \in {"running", "done", "error"} /\ (at' = "done" => tool.failed = "no")
  BY <1>1, <1>2, <1>3, ContinueTyped
<1>5. Types'
  <2>1. McuTyped' /\ LineTyped' /\ RestTyped'
    BY <1>1, <1>3 DEF McuTyped, LineTyped, RestTyped, bounds
  <2> QED BY <1>4, <2>1, Parts
<1>6. tool.waiting = "none"
  BY <1>1 DEF Asked
<1>7. Asked'
  BY <1>4 DEF Asked
<1>8. Sound' => Sound
  BY <1>3, <1>4 DEF Sound
<1>9. InStep'
  BY <1>3, <1>6, <1>8 DEF IInv, InStep
<1>10. ASSUME Sound', NEW i \in DOMAIN tool.script, IsLastWrite(tool.script, i),
              Acknowledged(i)', NEW m \in Messages(tool.script[i])
       PROVE  WillHold(m)'
  <2>1. tool.script[i] # "none" /\ tool.script[i] # Op
    BY <1>10, WritesAre DEF IsLastWrite
  <2>2. tool.step + 1 > i
    BY <1>4, <1>10, <2>1 DEF Acknowledged
  <2>3. i # tool.step
    BY <1>2, <2>1
  <2>4. tool.step \in Int /\ i \in Int
    BY <1>1, ScriptsForm DEF ToolTyped, Tools
  <2>5. tool.step > i
    BY <2>2, <2>3, <2>4
  <2>6. WillHold(m)
    BY <1>8, <1>10, <2>5 DEF IInv, Achieved, Acknowledged
  <2> QED BY <1>3, <2>6, Stays
<1>11. Achieved'
  BY <1>4, <1>10 DEF Achieved
<1> QED BY <1>5, <1>7, <1>9, <1>11 DEF IInv

\* A step that fails.
LEMMA FailStep ==
  ASSUME IInv, at = "running", FailOp,
         McuTyped', LineTyped', RestTyped', firmware' = firmware
  PROVE  IInv'
<1>1. ToolTyped
  BY Parts DEF IInv
<1>2. ToolTyped' /\ tool'.waiting = "none" /\ tool'.failed = "yes" /\ at' \in {"running", "error"}
  BY <1>1, FailOpTyped
<1> QED BY <1>2, Parts, Wrong

LEMMA Unmoved ==
  ASSUME Types, UNCHANGED <<firmware, mcu, quiet, refused, bounds>>
  PROVE  McuTyped' /\ RestTyped' /\ (sent' = sent /\ line' = line => LineTyped')
<1>1. McuTyped /\ LineTyped /\ RestTyped
  BY Parts
<1> QED BY <1>1 DEF McuTyped, LineTyped, RestTyped, mcu, bounds

LEMMA ConfirmStep ==
  ASSUME IInv, Confirm PROVE IInv'
<1>1. /\ at = "running" /\ Op = "confirm" /\ firmware' = firmware
      /\ UNCHANGED <<firmware, mcu, sent, line, quiet, refused, bounds>>
  BY DEF Confirm
<1>2. McuTyped' /\ LineTyped' /\ RestTyped'
  BY <1>1, Unmoved DEF IInv
<1>3. CASE Continue(tool.step + 1, tool.failed)
  BY <1>1, <1>3, PassStep
<1>4. CASE Continue(End, "yes")
  <2>1. ToolTyped
    BY Parts DEF IInv
  <2>2. End \in 1..End
    <3>1. tool.step \in Nat /\ tool.step + 1 \in 1..End /\ End \in Int
      BY <1>1, <2>1, Running, ScriptsForm DEF ToolTyped, Tools, End
    <3> QED BY <3>1
  <2>3. ToolTyped' /\ tool'.waiting = "none" /\ tool'.failed = "yes" /\ at' # "done"
    BY <1>1, <1>4, <2>1, <2>2, ContinueTyped
  <2> QED BY <1>2, <2>3, Parts, Wrong
<1> QED BY <1>3, <1>4 DEF Confirm

LEMMA SleepStep ==
  ASSUME IInv, Sleep PROVE IInv'
<1>1. /\ at = "running" /\ Op = "sleep" /\ Continue(tool.step + 1, tool.failed)
      /\ UNCHANGED <<firmware, mcu, sent, line, quiet, refused, bounds>>
  BY DEF Sleep
<1> QED BY <1>1, PassStep

LEMMA StartStep ==
  ASSUME IInv, Start PROVE IInv'
<1>1. PICK s \in Scripts : tool' = [Idle EXCEPT !.script = s, !.step = 1]
  BY DEF Start
<1>2. /\ tool' = [script |-> s, step |-> 1, known |-> Unknown, waiting |-> "none", failed |-> "no"]
      /\ at' = "running" /\ line' = << >> /\ sent' = sent /\ firmware' = firmware
      /\ quiet' = IF sent = << >> THEN "yes" ELSE "no"
      /\ queue' = queue /\ setting' = setting
  BY <1>1 DEF Start, Idle, mcu
<1>3. McuTyped /\ LineTyped /\ RestTyped
  BY Parts DEF IInv
<1>4. McuTyped' /\ LineTyped'
  BY <1>2, <1>3 DEF McuTyped, LineTyped
<1>5. RestTyped'
  <2>1. runs' \in 0..MaxRuns
    BY <1>3, BoundsAssumption DEF RestTyped, Start
  <2> QED BY <1>2, <1>3, <2>1 DEF RestTyped, Start
<1>6. ToolTyped'
  <2>1. Len(s) \in 2..4
    BY ScriptsForm
  <2> PICK n \in 2..4 : n = Len(s)
    BY <2>1
  <2>2. 1 \in 1..(Len(s) + 1) /\ 1 <= Len(s) /\ 1 \in 1..5
    BY Steps
  <2> QED BY <1>2, <2>2 DEF ToolTyped, Tools
<1>7. Asked' /\ InStep'
  BY <1>2 DEF Asked, InStep, Sound
<1>8. Achieved'
  <2>1. ASSUME NEW i \in DOMAIN s, IsLastWrite(s, i), Acknowledged(i)' PROVE FALSE
    <3>1. i \in 1..Len(s) /\ s[i] # "none"
      BY <2>1, ScriptsForm, WritesAre DEF IsLastWrite
    <3>2. ~(1 > i)
      BY <3>1
    <3> QED BY <1>2, <2>1, <3>1, <3>2 DEF Acknowledged
  <2> QED BY <1>2, <2>1 DEF Achieved
<1> QED BY <1>4, <1>5, <1>6, <1>7, <1>8, Parts DEF IInv

LEMMA SendStep ==
  ASSUME IInv, Send PROVE IInv'
<1> PICK call : call = IF tool.known = Unknown THEN "CAPS" ELSE Op
  OBVIOUS
<1>1. /\ at = "running" /\ Op \notin {"confirm", "sleep"} /\ tool.waiting = "none"
      /\ IF Needs(call) \subseteq tool.known \/ call = "CAPS"
         THEN /\ sent' = Append(sent, call) /\ tool' = [tool EXCEPT !.waiting = call]
              /\ at' = at
         ELSE FailOp /\ sent' = sent
      /\ UNCHANGED <<firmware, mcu, line, quiet, refused, bounds>>
  BY DEF Send
<1>2. /\ McuTyped /\ LineTyped /\ ToolTyped /\ RestTyped
  BY Parts DEF IInv
<1>3. McuTyped' /\ RestTyped' /\ firmware' = firmware /\ line' = line /\ quiet' = quiet
      /\ queue' = queue /\ setting' = setting /\ (sent' = sent => LineTyped')
  BY <1>1, Unmoved DEF IInv, mcu
<1>4. CASE ~(Needs(call) \subseteq tool.known \/ call = "CAPS")
  BY <1>1, <1>3, <1>4, FailStep
<1>5. CASE Needs(call) \subseteq tool.known \/ call = "CAPS"
  <2>1. sent' = Append(sent, call) /\ tool' = [tool EXCEPT !.waiting = call] /\ at' = at
    BY <1>1, <1>5
  <2>2. call \in Writes \cup Reads
    BY <1>1, <1>2, Running DEF Reads
  <2>3. /\ call = "THRESHOLD" => "CONFIG_WRITE" \in firmware
        /\ call = "RTC" => "RTC_WRITE" \in firmware
    <3>1. call # "CAPS" => tool.known = firmware
      BY <1>2 DEF ToolTyped
    <3> QED BY <1>5, <3>1 DEF Needs
  <2>4. call # "none"
    <3>1. "none" \notin Reads
      BY DEF Reads
    <3> QED BY <2>2, <3>1, WritesAre
  <2>5. LineTyped'
    <3>1. sent \in Seq(Writes \cup Reads)
      BY <1>2 DEF LineTyped
    <3>2. /\ sent' \in Seq(Writes \cup Reads)
          /\ \A i \in DOMAIN sent' : (i \in DOMAIN sent /\ sent'[i] = sent[i]) \/ sent'[i] = call
      BY <2>1, <2>2, <3>1
    <3> QED BY <1>2, <1>3, <2>3, <3>2 DEF LineTyped
  <2>6. /\ tool' \in Tools /\ tool'.script = tool.script /\ tool'.step = tool.step
        /\ tool'.failed = tool.failed /\ tool'.waiting = call /\ tool'.known = tool.known
    BY <1>2, <2>1, <2>2 DEF ToolTyped, Tools
  <2>7. ToolTyped'
    BY <1>1, <1>2, <1>3, <2>1, <2>6 DEF ToolTyped
  <2>8. Asked'
    BY <1>1, <2>1, <2>6 DEF Asked, Op
  <2>9. ASSUME Sound' PROVE Sound /\ sent = << >> /\ line = << >>
    BY <1>1, <1>3, <2>1, <2>6, <2>9 DEF IInv, InStep, Sound
  <2>10. InStep'
    <3>1. ASSUME Sound' PROVE sent' = <<call>>
      BY <2>1, <2>9, <3>1
    <3> QED BY <1>3, <2>4, <2>6, <2>9, <3>1 DEF InStep
  <2>11. Achieved'
    <3>1. ASSUME Sound', NEW i \in DOMAIN tool.script, IsLastWrite(tool.script, i),
                 Acknowledged(i)', NEW m \in Messages(tool.script[i])
          PROVE  WillHold(m)'
      <4>1. tool.step > i
        BY <1>3, <2>6, <2>9, <3>1, One DEF Acknowledged
      <4>2. WillHold(m)
        BY <2>9, <3>1, <4>1 DEF IInv, Achieved, Acknowledged
      <4> QED BY <1>3, <4>2, Stays
    <3> QED BY <2>6, <3>1 DEF Achieved
  <2> QED BY <1>3, <2>5, <2>7, <2>8, <2>10, <2>11, Parts DEF IInv
<1> QED BY <1>4, <1>5

LEMMA ReceiveStep ==
  ASSUME IInv, Receive PROVE IInv'
<1>1. /\ tool.waiting # "none" /\ line # << >> /\ line' = Tail(line) /\ sent' = sent
      /\ UNCHANGED <<firmware, mcu, quiet, refused, bounds>>
  BY DEF Receive
<1>2. /\ McuTyped /\ LineTyped /\ ToolTyped /\ RestTyped /\ at = "running"
  BY <1>1, Parts DEF IInv, ToolTyped
<1>3. McuTyped' /\ RestTyped' /\ firmware' = firmware /\ quiet' = quiet
      /\ queue' = queue /\ setting' = setting
  BY <1>1, Unmoved DEF IInv, mcu
<1>4. LineTyped'
  <2>1. line' \in Seq(Replies)
    BY <1>1, <1>2, Shorter DEF LineTyped
  <2> QED BY <1>1, <1>2, <1>3, <2>1 DEF LineTyped
<1>5. ASSUME Sound PROVE sent = << >> /\ line' = << >> /\ line = <<Head(line)>>
  <2>1. sent = << >> /\ \E x \in Replies : line = <<x>>
    BY <1>1, <1>5 DEF IInv, InStep
  <2> QED BY <1>1, <2>1, One
<1>6. /\ tool.step \in DOMAIN tool.script /\ tool.step + 1 \in 1..End
      /\ tool.failed \in {"yes", "no"} /\ Op = tool.script[tool.step]
  BY <1>2, Running DEF Op
<1>7. CASE ~(Accepts(tool.waiting, Head(line)) /\ Verified(Head(line)))
  <2>1. FailOp
    BY <1>7 DEF Receive
  <2> QED BY <1>2, <1>3, <1>4, <2>1, FailStep
<1>8. CASE Accepts(tool.waiting, Head(line)) /\ Verified(Head(line)) /\ tool.waiting = "CAPS"
  <2>1. tool' = [tool EXCEPT !.known = firmware, !.waiting = "none"] /\ at' = at
    BY <1>8 DEF Receive
  <2>2. /\ tool' \in Tools /\ tool'.script = tool.script /\ tool'.step = tool.step
        /\ tool'.failed = tool.failed /\ tool'.waiting = "none" /\ tool'.known = firmware
    BY <1>2, <2>1 DEF ToolTyped, Tools, RestTyped
  <2>3. ToolTyped'
    BY <1>2, <1>3, <2>1, <2>2 DEF ToolTyped
  <2>4. Asked'
    BY <1>2, <2>1, <2>2 DEF Asked
  <2>5. Sound' => Sound
    BY <1>3, <2>1, <2>2 DEF Sound
  <2>6. InStep'
    BY <1>1, <1>5, <2>5 DEF InStep
  <2>7. Achieved'
    <3>1. ASSUME Sound', NEW i \in DOMAIN tool.script, IsLastWrite(tool.script, i),
                 Acknowledged(i)', NEW m \in Messages(tool.script[i])
          PROVE  WillHold(m)'
      <4>1. tool.step > i
        BY <1>5, <2>2, <2>5, <3>1, One DEF Acknowledged
      <4>2. WillHold(m)
        BY <2>5, <3>1, <4>1 DEF IInv, Achieved, Acknowledged
      <4> QED BY <1>3, <4>2, Stays
    <3> QED BY <2>2, <3>1 DEF Achieved
  <2> QED BY <1>3, <1>4, <2>3, <2>4, <2>6, <2>7, Parts DEF IInv
<1>9. CASE Accepts(tool.waiting, Head(line)) /\ Verified(Head(line)) /\ tool.waiting # "CAPS"
  <2>1. Continue(tool.step + 1, tool.failed)
    BY <1>9 DEF Receive
  <2>2. /\ ToolTyped' /\ tool'.waiting = "none" /\ tool'.script = tool.script
        /\ tool'.step = tool.step + 1 /\ tool'.failed = tool.failed
        /\ at' \in {"running", "done", "error"} /\ (at' = "done" => tool.failed = "no")
    BY <1>2, <1>3, <1>6, <2>1, ContinueTyped
  <2>3. tool.waiting = Op
    BY <1>1, <1>9 DEF IInv, Asked
  <2>4. Asked'
    BY <2>2 DEF Asked
  <2>5. Sound' => Sound
    BY <1>2, <1>3, <2>2 DEF Sound
  <2>6. InStep'
    BY <1>1, <1>5, <2>5 DEF InStep
  <2>7. Achieved'
    <3>1. ASSUME Sound', NEW i \in DOMAIN tool.script, IsLastWrite(tool.script, i),
                 Acknowledged(i)', NEW m \in Messages(tool.script[i])
          PROVE  WillHold(m)'
      <4>1. tool.script[i] \in Writes /\ tool.script[i] # "none"
        BY <3>1, WritesAre DEF IsLastWrite
      <4>2. tool.step + 1 > i
        BY <2>2, <3>1, <4>1 DEF Acknowledged
      <4>3. tool.step \in Int /\ i \in Int
        BY <1>2, ScriptsForm DEF ToolTyped, Tools
      <4>4. CASE tool.step = i
        <5>1. tool.waiting \in Writes
          BY <1>6, <2>3, <4>1, <4>4
        <5>2. Head(line) = "c"
          BY <1>9, <5>1, WritesAre DEF Accepts, Reads
        <5>3. Acknowledged(i)
          BY <1>5, <1>6, <2>3, <2>5, <3>1, <4>4, <5>2 DEF Acknowledged
        <5> QED BY <1>3, <2>5, <3>1, <5>3, Stays DEF IInv, Achieved
      <4>5. CASE tool.step # i
        <5>1. tool.step > i
          BY <4>2, <4>3, <4>5
        <5> QED BY <1>3, <2>5, <3>1, <5>1, Stays DEF IInv, Achieved, Acknowledged
      <4> QED BY <4>4, <4>5
    <3> QED BY <2>2, <3>1 DEF Achieved
  <2> QED BY <1>3, <1>4, <2>2, <2>4, <2>6, <2>7, Parts DEF IInv
<1> QED BY <1>7, <1>8, <1>9

LEMMA TimeoutStep ==
  ASSUME IInv, Timeout PROVE IInv'
<1>1. /\ tool.waiting # "none" /\ FailOp
      /\ firmware' = firmware /\ setting' = setting /\ queue' = queue /\ sent' = sent
      /\ line' = line /\ quiet' = quiet /\ refused' = refused /\ runs' = runs /\ lost' = lost
      /\ others' = others
      /\ IF sent = << >> THEN late' = late ELSE late < MaxLate /\ late' = late + 1
  BY DEF Timeout, mcu
<1>2. /\ McuTyped /\ LineTyped /\ ToolTyped /\ RestTyped /\ at = "running"
  BY <1>1, Parts DEF IInv, ToolTyped
<1>3. late' \in 0..MaxLate
  BY <1>1, <1>2, BoundsAssumption DEF RestTyped
<1>4. McuTyped' /\ LineTyped' /\ RestTyped'
  BY <1>1, <1>2, <1>3 DEF McuTyped, LineTyped, RestTyped
<1> QED BY <1>1, <1>2, <1>4, FailStep

LEMMA EndedStep ==
  ASSUME IInv, at' = "killed", tool' = [tool EXCEPT !.step = End, !.waiting = "none"],
         UNCHANGED <<firmware, mcu, sent, line, quiet, refused, bounds>>
  PROVE  IInv'
<1>1. /\ McuTyped' /\ LineTyped' /\ RestTyped' /\ ToolTyped
  BY Unmoved, Parts DEF IInv
<1>2. ToolTyped' /\ tool'.waiting = "none"
  BY <1>1, KilledTyped
<1> QED BY <1>1, <1>2, Parts, Wrong

LEMMA InterruptStep ==
  ASSUME IInv, Interrupt PROVE IInv'
<1>1. at = "running" /\ UNCHANGED <<firmware, mcu, sent, line, quiet, refused, bounds>>
  BY DEF Interrupt
<1>2. CASE IsCycle(tool.script) /\ Op \in {"ASSERT", "sleep"}
  <2>1. Continue(4, "yes")
    BY <1>2 DEF Interrupt
  <2>2. /\ McuTyped' /\ LineTyped' /\ RestTyped' /\ ToolTyped
    BY <1>1, Unmoved, Parts DEF IInv
  <2>3. 4 \in 1..End
    <3>1. Len(tool.script) = 4
      BY <1>2, <2>2, ScriptsForm DEF ToolTyped, Tools
    <3> QED BY <3>1 DEF End
  <2>4. ToolTyped' /\ tool'.waiting = "none" /\ tool'.failed = "yes" /\ at' # "done"
    BY <1>1, <2>1, <2>2, <2>3, ContinueTyped
  <2> QED BY <2>2, <2>4, Parts, Wrong
<1>3. CASE ~(IsCycle(tool.script) /\ Op \in {"ASSERT", "sleep"})
  <2>1. at' = "killed" /\ tool' = [tool EXCEPT !.step = End, !.waiting = "none"]
    BY <1>3 DEF Interrupt
  <2> QED BY <1>1, <2>1, EndedStep
<1> QED BY <1>2, <1>3

LEMMA KillStep ==
  ASSUME IInv, Kill PROVE IInv'
BY EndedStep DEF Kill

LEMMA StutterStep ==
  ASSUME IInv, UNCHANGED vars PROVE IInv'
<1>1. /\ UNCHANGED <<firmware, mcu, quiet, refused, bounds>>
      /\ tool' = tool /\ at' = at /\ quiet' = quiet /\ sent' = sent /\ line' = line
      /\ queue' = queue /\ setting' = setting /\ firmware' = firmware
  BY DEF vars, mcu
<1>2. McuTyped' /\ LineTyped' /\ RestTyped' /\ ToolTyped
  BY <1>1, Unmoved, Parts DEF IInv
<1>3. ToolTyped'
  BY <1>1, <1>2 DEF ToolTyped
<1>4. \A m : WillHold(m)' <=> WillHold(m)
  BY <1>1, Stays
<1> QED BY <1>1, <1>2, <1>3, <1>4, Parts, Elsewhere

-----------------------------------------------------------------------------
(* The theorems.                                                           *)

\* The invariant, for any firmware, any queues and any runs of the tools.
THEOREM InductiveInvariant == Spec => []IInv
<1>1. ASSUME IInv, Next PROVE IInv'
  BY <1>1, HandleStep, AroundSteps, StartStep, ConfirmStep, SleepStep, SendStep, ReceiveStep,
     TimeoutStep, InterruptStep, KillStep DEF Next
<1>2. IInv /\ [Next]_vars => IInv'
  BY <1>1, StutterStep
<1> QED BY <1>2, IInvInit, PTL DEF Spec

\* Every variable keeps its type, and no write is sent that the firmware does not advertise.
THEOREM TypeCorrect == Spec => []TypeOK
<1>1. IInv => TypeOK
  BY DEF IInv, Types
<1> QED BY <1>1, InductiveInvariant, PTL

\* A tool that ends with status 0, on a line that was quiet when it started, has had its
\* last write accepted by every queue that it is for.
THEOREM SuccessIsQueued == Spec => []SuccessMeansQueued
<1>1. ASSUME IInv PROVE SuccessMeansQueued
  <2> SUFFICES ASSUME at = "done", quiet = "yes", NEW i \in DOMAIN tool.script,
                      IsLastWrite(tool.script, i), NEW m \in Messages(tool.script[i])
               PROVE  WillHold(m)
    BY DEF SuccessMeansQueued
  <2>1. Sound
    BY <1>1 DEF IInv, Asked, Sound
  <2>2. tool.step > i
    <3>1. /\ tool.script \in Scripts /\ tool.step \in 1..(Len(tool.script) + 1)
          /\ ~(tool.step <= Len(tool.script))
      BY <1>1, Parts DEF IInv, ToolTyped, Tools
    <3>2. Len(tool.script) \in 2..4 /\ i \in 1..Len(tool.script)
      BY <3>1, ScriptsForm
    <3> QED BY <3>1, <3>2
  <2> QED BY <1>1, <2>1, <2>2 DEF IInv, Achieved, Acknowledged
<1> QED BY <1>1, InductiveInvariant, PTL
=============================================================================
