------------------------------ MODULE Reports ------------------------------
(***************************************************************************)
(* One run of a tool that reads and reports: cm-clock-checks,              *)
(* cm-clock-dump, cm-lga80d-checks, -status and -dump, cm-ff-status,       *)
(* cm-mcu-dump and the predicates cm-is-cm-healthy, cm-is-fpga-programmed  *)
(* and cm-is-rtc-set.                                                      *)
(*                                                                         *)
(* A run looks at the power state, learns the board revision where it      *)
(* needs one, and works through a plan of reads.  A read that fails, a     *)
(* clock that is not ready and a chip of the wrong type each cost some of  *)
(* the reads still to do; the exit status has to tell.  A clock's status   *)
(* bits are judged by its configuration, which is read before them; other  *)
(* clients change configurations and the chips change their status between *)
(* any two reads.                                                          *)
(*                                                                         *)
(* What a part of a report reads is one read here, except where the order  *)
(* or the choice of its reads is at stake: a clock's configuration, which  *)
(* other clients change between any two of its registers, a clock's        *)
(* alarms and outputs, a dump, and the registers of a Firefly module, not  *)
(* all of which every family has.  What is printed beside the verdicts is  *)
(* left out.                                                               *)
(***************************************************************************)
EXTENDS Naturals, SequencesExt

CONSTANTS
  Runs,            \* the command lines: [tool, names, checks, force, hwRev]
  Present, User,   \* the MCU's Firefly masks, as sets of slots
  Modules,         \* slot -> [kind, family] of the module in it
  MapMinors,       \* the minor versions of the register map a board may have
  Advertised,      \* the sections of cm-mcu-dump that the firmware advertises
  BoardRev,        \* what the board is
  Eeproms,         \* what its EEPROM may say it is
  ClockStates,     \* chip type -> the states a chip of that type can be in
  McuStates,       \* the problems the MCU's pages can show at once
  DumpRegs,        \* the registers of a clock dump, PartNumber among them
  PartNumber,
  MaxRead,         \* MAX_READ_BYTES
  PageSize,        \* 0x100
  MaxChanges,      \* bound: changes of the devices' states
  MaxFaults        \* bound: reads that fail

ASSUME ReportsAssumption ==
  /\ MaxRead \in Nat \ {0} /\ PageSize \in Nat \ {0}
  /\ PartNumber \subseteq DumpRegs /\ PartNumber # {} /\ DumpRegs \subseteq Nat
  /\ "System" \in Advertised        \* system_info is not gated
  /\ MapMinors \subseteq Nat
  /\ MaxChanges \in Nat /\ MaxFaults \in Nat

Clocks == {"R0A", "R0B"}
ChipAt(rev, clock) == IF rev = 2 /\ clock = "R0A" THEN "Si5341" ELSE "Si5395"
KnownRevs == {2, 3}

ClockTools == {"clock_checks", "clock_dump"}
SupplyTools == {"lga80d_checks", "lga80d_status", "lga80d_dump"}
CheckTools == {"clock_checks", "lga80d_checks"}
Gated == ClockTools \cup {"ff_status"}
Predicates == {"is_cm_healthy", "is_fpga_programmed", "is_rtc_set"}

ChecksOf(tool) ==
  IF tool = "clock_checks" THEN {"id", "status", "flags"} ELSE {"freq", "temp", "timing"}

\* The devices of a command line are known to the tool and named once each, and a tool that
\* checks has checks to make.
CommandLine(r) ==
  /\ r.names \in Seq(STRING) /\ IsInjective(r.names)
  /\ \/ r.tool \in ClockTools /\ ToSet(r.names) \subseteq Clocks
     \/ r.tool \in SupplyTools \cup {"ff_status"} /\ ToSet(r.names) \cap Clocks = {}
     \/ r.tool \in Predicates \cup {"mcu_dump"} /\ r.names = << "MCU" >>
  /\ r.names # << >>
  /\ r.checks \in Seq(STRING) /\ IsInjective(r.checks)
  /\ r.tool \in CheckTools => r.checks # << >> /\ ToSet(r.checks) \subseteq ChecksOf(r.tool)
  /\ r.force \in BOOLEAN

ASSUME RunsAssumption == \A r \in Runs : CommandLine(r)

VARIABLES
  run,             \* the command line
  power,           \* what the power state machine is in
  eeprom,          \* the revision the MCU reports
  clock,           \* each clock: [ready, config, alarms, flags, outputs]
  mcu,             \* the problems that the MCU's pages show
  mapMinor,        \* the minor version of its register map
  stage,           \* "power", "revision", "reads" or "exit"
  status,          \* the exit status
  rev,             \* Registry.hw_rev
  saw,             \* the power state that was read
  todo,            \* the reads still to do
  monitors,        \* the configuration read of the clock at hand
  asked,           \* the reads made: what the report has a line for
  bad,             \* <<device, part, "problem" or "failed">>
  answered,        \* history: the reads that were answered
  sick,            \* history: clocks that had a real alarm when they were judged
  moved,           \* history: clocks reconfigured since their configuration was read
  changes, faults

devices == <<power, eeprom, clock, mcu, mapMinor, changes>>
findings == <<monitors, asked, bad>>
Named == ToSet(run.names) \cap Clocks    \* the others are left out of the state
ghosts == <<answered, sick, moved>>
vars == <<run, devices, stage, status, rev, saw, todo, findings, ghosts, faults>>

(***************************************************************************)
(* When an alarm is expected.  An alarm is <<name, input>>, input 0 where  *)
(* it has none; m is the configuration as the tool read it.                *)
(***************************************************************************)
FreeRun(m) == m.hold \/ m.inEn = {}

FbIn == 3
InputUnused5395(m, detector, n) ==
  n \notin m.inEn \/ n \notin detector \/ FreeRun(m) \/ n # m.active

\* Mutant of InputUnused5341: FB_IN is taken for one of the selectable references.
InputUnused5341NoFeedback(m, n) ==
  n \notin m.inEn \/ n \notin m.losEn \/ (m.regctrl /\ m.inSel # n)

InputUnused5341(m, n) ==
  \/ n \notin m.inEn \/ n \notin m.losEn
  \/ IF n = FbIn THEN ~m.zdm ELSE m.regctrl /\ m.inSel # n

LolUnused(m) == FreeRun(m) \/ ~m.lolEn

Expected5395(m, name, n) ==
  \/ name = "LOSXAXB" /\ m.xaxbOff
  \/ name = "LOS" /\ InputUnused5395(m, m.losEn, n)
  \/ name = "OOF" /\ InputUnused5395(m, m.oofEn, n)
  \/ name = "LOL" /\ LolUnused(m)
  \/ name = "HOLD" /\ FreeRun(m)

Expected5341(m, name, n) ==
  \/ name = "LOSXAXB" /\ m.xaxbOff
  \/ name = "LOS" /\ InputUnused5341(m, n)

\* The states that the registers of a chip can show.
Inputs == 0..3
Config5395 ==
  [inEn : SUBSET Inputs, losEn : SUBSET Inputs, oofEn : SUBSET Inputs, xaxbOff : BOOLEAN,
   lolEn : BOOLEAN, hold : BOOLEAN, active : Inputs]
Config5341 ==
  [inEn : SUBSET Inputs, losEn : SUBSET Inputs, xaxbOff : BOOLEAN, regctrl : BOOLEAN,
   inSel : Inputs, zdm : BOOLEAN]
Alarms(names, inputNames) == names \X {0} \cup inputNames \X Inputs
AlarmsOf(chip) ==
  IF chip = "Si5341" THEN Alarms({"SYSINCAL", "LOSXAXB", "LOSREF", "SMBUS_TIMEOUT", "LOL"}, {"LOS"})
  ELSE Alarms({"SYSINCAL", "LOSXAXB", "XAXB_ERR", "SMBUS_TIMEOUT", "LOL", "HOLD", "CAL_PLL"},
              {"LOS", "OOF"})
Outputs == {"NVM_bank", "all_disabled", "powered_down"}
ClockState(chip) ==
  [ready : {"yes", "no"}, config : IF chip = "Si5341" THEN Config5341 ELSE Config5395,
   alarms : SUBSET AlarmsOf(chip), flags : SUBSET AlarmsOf(chip), outputs : SUBSET Outputs]

ASSUME ClockStatesAssumption ==
  \A c \in Clocks : ClockStates[c] \subseteq ClockState(ChipAt(BoardRev, c))

\* The registers of the configuration in the order they are read, by their fields.
Monitors5395 ==
  << {"losEn", "xaxbOff"}, {"oofEn"}, {"inEn"}, {"lolEn"}, {"hold"}, {"active"} >>
Monitors5341 == << {"losEn", "xaxbOff"}, {"regctrl", "inSel"}, {"inEn"}, {"zdm"} >>
MonitorReads(chip) == IF chip = "Si5341" THEN Monitors5341 ELSE Monitors5395

(***************************************************************************)
(* The plans.  A read: of what, for which part of the report, and what is  *)
(* read; `of` names the fields or the addresses, where that matters.       *)
(* Reads are made in the order of their places, which say where a tool's   *)
(* loops stand.                                                            *)
(***************************************************************************)
Read(device, part, kind, place) ==
  [dev |-> device, part |-> part, kind |-> kind, of |-> {}, place |-> place]

Precedes(p, q) ==
  \/ p[1] < q[1]
  \/ p[1] = q[1] /\ (p[2] < q[2] \/ (p[2] = q[2] /\ p[3] < q[3]))

Reads(device, part, kinds, k, n) ==
  {Read(device, part, kinds[i], <<k, n, i>>) : i \in DOMAIN kinds}

\* What a failed read costs beside itself: the rest of its device, or the rest of its part.
CostsDevice(u) == u.part \in {"ready", "identity", "config", "module", "verdict"}
CostsPart(u) ==
  u.kind \in {"NVM_bank", "alarms", "all_disabled", "powered_down", "flags", "both_pages",
              "globals"}

ClockKinds ==
  [id |-> << "NVM_bank" >>, status |-> << "alarms", "all_disabled", "powered_down" >>,
   flags |-> << "flags" >>]

NeedsConfig(checks) == ToSet(checks) \cap {"status", "flags"} # {}

ClockChecks(c, chip, checks, k) ==
  {Read(c, "ready", "ready", <<k, 1, 0>>), Read(c, "identity", "identity", <<k, 2, 0>>)}
  \cup {[Read(c, "config", "config", <<k, 3, i>>) EXCEPT !.of = MonitorReads(chip)[i]] :
           i \in IF NeedsConfig(checks) THEN DOMAIN MonitorReads(chip) ELSE {}}
  \cup UNION {Reads(c, checks[i], ClockKinds[checks[i]], k, 3 + i) : i \in DOMAIN checks}

\* A dump's addresses are read in runs: a run goes on while the next address is wanted and
\* on the same page, up to MaxRead.
Joined(a, b) == a..b \subseteq DumpRegs /\ a \div PageSize = b \div PageSize

\* Mutant of RunAt: a run goes on into the next page.
RunAtAcross(a) == {b \in a..(a + MaxRead - 1) : a..b \subseteq DumpRegs}

RunAt(a) == {b \in a..(a + MaxRead - 1) : Joined(a, b)}

\* So a run begins where nothing joins an address to the one before, and at every MaxRead-th
\* address from there.
BeginsRun(a) ==
  \E s \in DumpRegs :
    /\ s <= a /\ Joined(s, a) /\ (a - s) % MaxRead = 0
    /\ \A t \in DumpRegs : Joined(t, s) => s <= t

ClockDump(c, k) ==
  {Read(c, "ready", "ready", <<k, 1, 0>>)}
  \cup {[Read(c, "dump", "registers", <<k, 2, a>>) EXCEPT !.of = RunAt(a)] :
           a \in {b \in DumpRegs : BeginsRun(b)}}

Pages == << "page_0", "page_1" >>
SupplyKinds == [freq |-> << "both_pages" >>, temp |-> Pages, timing |-> << "globals" >> \o Pages]

SupplyCheck(s, check, i, k) == Reads(s, check, SupplyKinds[check], i, k)
SupplyStatus(s, k) == Reads(s, "status", Pages, k, 1)
SupplyDump(s, k) ==
  UNION {{Read(s, "registers", Pages[p], <<k, p, 1>>), Read(s, "snapshot", Pages[p], <<k, p, 2>>)} :
           p \in DOMAIN Pages}

\* The registers of a module by what they hold.  CERN-B modules have no CDR, their
\* transmitters no LOS bytes, and of a 14G module no latch is read.
When(condition, names) == IF condition THEN names ELSE << >>

X12Reads(kind, family) ==
  << "serial", "temperature", "Vcc", "status", "summary" >>
  \o When(family # "14g",
          << "temperature_latch", "Vcc_latch" >>
          \o When(kind = "Rx" \/ family = "25g", << "LOS_latch" >>)
          \o When(kind = "Rx" /\ family = "25g", << "Rx_power" >>)
          \o When(kind = "Tx", << "fault_latch" >>)
          \o When(family = "25g", << "CDR_LOL" >>))

X4Reads == << "temperature", "Vcc", "status", "LOS_latch", "fault_latch", "CDR_LOL",
              "temperature_latch", "Vcc_latch" >>

ModuleReads(m, k) ==
  Reads(m, "module",
        << "part" >> \o (IF Modules[m].kind = "x4" THEN X4Reads
                          ELSE X12Reads(Modules[m].kind, Modules[m].family)), k, 1)

Sections == << "System", "Power", "Alarm", "Config", "Runtime", "ADC", "Persistent_log" >>
McuDump == {Read("MCU", Sections[i], "section", <<1, 1, i>>) : i \in DOMAIN Sections}

IsCmHealthy == Reads("MCU", "verdict", << "health", "power" >>, 1, 1)
                 \cup Reads("MCU", "note", << "alarm" >>, 1, 2)
IsFpgaProgrammed == Reads("MCU", "verdict", << "not_on", "not_done" >>, 1, 1)
IsRtcSet == Reads("MCU", "verdict", << "rtc" >>, 1, 1)

\* What a tool reads of the k-th device of its command line.
DevicePlan(r, hwRev, k) ==
  LET d == r.names[k]
  IN  CASE r.tool = "clock_checks" -> ClockChecks(d, ChipAt(hwRev, d), r.checks, k)
        [] r.tool = "clock_dump" -> ClockDump(d, k)
        [] r.tool = "lga80d_checks" ->
             UNION {SupplyCheck(d, r.checks[i], i, k) : i \in DOMAIN r.checks}
        [] r.tool = "lga80d_status" -> SupplyStatus(d, k)
        [] r.tool = "lga80d_dump" -> SupplyDump(d, k)
        [] r.tool = "ff_status" -> IF d \in Present \cap User THEN ModuleReads(d, k) ELSE {}
        [] r.tool = "mcu_dump" -> McuDump
        [] r.tool = "is_cm_healthy" -> IsCmHealthy
        [] r.tool = "is_fpga_programmed" -> IsFpgaProgrammed
        [] r.tool = "is_rtc_set" -> IsRtcSet

Plan(r, hwRev) == UNION {DevicePlan(r, hwRev, k) : k \in DOMAIN r.names}

(***************************************************************************)
(* What is wrong with a clock, whatever the tool makes of it: something it *)
(* watches is missing and is what it runs on, or it is out of order.       *)
(***************************************************************************)
Tracking(cfg) == ~cfg.hold /\ cfg.inEn # {}
References5341(cfg) ==
  (IF cfg.regctrl THEN {cfg.inSel} \cap 0..2 ELSE 0..2) \cup (IF cfg.zdm THEN {FbIn} ELSE {})

AlwaysWrong == {"SYSINCAL", "XAXB_ERR", "SMBUS_TIMEOUT", "CAL_PLL", "LOSREF"}

RealAlarm(chip, cfg, alarms) ==
  \/ \E a \in alarms : a[1] \in AlwaysWrong
  \/ <<"LOSXAXB", 0>> \in alarms /\ ~cfg.xaxbOff
  \/ /\ chip = "Si5341"
     /\ \/ <<"LOL", 0>> \in alarms
        \/ \E n \in References5341(cfg) \cap cfg.inEn \cap cfg.losEn : <<"LOS", n>> \in alarms
  \/ /\ chip = "Si5395" /\ Tracking(cfg)
     /\ \/ <<"HOLD", 0>> \in alarms
        \/ <<"LOL", 0>> \in alarms /\ cfg.lolEn
        \/ /\ cfg.active \in cfg.inEn
           /\ \/ <<"LOS", cfg.active>> \in alarms /\ cfg.active \in cfg.losEn
              \/ <<"OOF", cfg.active>> \in alarms /\ cfg.active \in cfg.oofEn

Alarming(u) ==
  /\ u.dev \in Clocks
  /\ LET c == clock[u.dev]
         chip == ChipAt(BoardRev, u.dev)
     IN  \/ u.kind = "alarms" /\ RealAlarm(chip, c.config, c.alarms)
         \/ u.kind = "flags" /\ RealAlarm(chip, c.config, c.flags)
         \/ u.kind \in c.outputs

Expelled(r, state) == r.tool \in Gated /\ ~r.force /\ state \notin {"POWER_ON", "unknown"}

TypeOK ==
  /\ run \in Runs /\ power \in {"POWER_ON", "POWER_OFF"} /\ eeprom \in Eeproms \cup {BoardRev}
  /\ DOMAIN clock = Named /\ \A c \in Named : clock[c] \in ClockState(ChipAt(BoardRev, c))
  /\ mcu \in McuStates \cup {{}} /\ mapMinor \in MapMinors
  /\ stage \in {"power", "revision", "reads", "exit"}
  /\ status \in 0..2 /\ rev \in Eeproms \cup {0, BoardRev, run.hwRev}
  /\ saw \in {"unread", "unknown", "POWER_ON", "POWER_OFF"}
  /\ run.tool = "clock_dump" => \A u \in todo : u.part = "dump" =>
       /\ u.of # {} /\ Cardinality(u.of) <= MaxRead
       /\ \A a, b \in u.of : a \div PageSize = b \div PageSize
  /\ answered \subseteq asked
  /\ sick \subseteq Clocks /\ moved \subseteq Clocks
  /\ changes \in 0..MaxChanges /\ faults \in 0..MaxFaults

FirstRead(r) == IF r.tool \in Predicates THEN "reads" ELSE "power"

Init ==
  /\ run \in Runs
  /\ power \in {"POWER_ON", "POWER_OFF"}
  /\ eeprom \in IF run.hwRev = 0 THEN Eeproms ELSE {BoardRev}
  /\ clock \in [Named -> UNION {ClockStates[c] : c \in Named}]
  /\ \A c \in Named : clock[c] \in ClockStates[c]
  /\ mcu \in IF run.tool \in Predicates THEN McuStates ELSE {{}}
  /\ mapMinor \in MapMinors /\ (run.tool # "ff_status" => \A m \in MapMinors : m <= mapMinor)
  /\ stage = FirstRead(run) /\ status = 0
  /\ rev = 0 /\ saw = "unread"
  /\ todo = IF run.tool \in Predicates THEN Plan(run, 0) ELSE {}
  /\ monitors = << >> /\ asked = {} /\ bad = {}
  /\ answered = {} /\ sick = {} /\ moved = {}
  /\ changes = 0 /\ faults = 0

----------------------------------------------------------------------------
(* The devices and their other clients. *)

Fault == faults < MaxFaults /\ faults' = faults + 1

\* A clock's status and configuration change: its inputs come and go, it selects
\* another input, is reset, or a client writes to it (set_input_select, reset,
\* clear_sticky_flags).  An alarm also sets its sticky flag.  What happens to a
\* clock after the last read of it makes no difference to the run.
ClockChanges(c) ==
  /\ \E u \in todo : u.dev = c
  /\ changes < MaxChanges
  /\ \E new \in ClockStates[c], cleared \in SUBSET {"cleared"} :
       /\ clock' = [clock EXCEPT ![c] = [new EXCEPT
            !.flags = IF cleared = {} THEN clock[c].flags \cup new.alarms ELSE new.alarms]]
       /\ moved' = IF /\ new.config # clock[c].config
                       /\ \E u \in asked : u.dev = c /\ u.part = "config"
                     THEN moved \cup {c} ELSE moved
  /\ changes' = changes + 1
  /\ UNCHANGED <<run, power, eeprom, mcu, mapMinor, stage, status, rev, saw, todo, findings,
                 answered, sick, faults>>

McuChanges ==
  /\ stage # "exit" /\ run.tool \in Predicates /\ changes < MaxChanges
  /\ power' \in {"POWER_ON", "POWER_OFF"} /\ mcu' \in McuStates
  /\ changes' = changes + 1
  /\ UNCHANGED <<run, eeprom, clock, mapMinor, stage, status, rev, saw, todo, findings,
                 ghosts, faults>>

----------------------------------------------------------------------------
(* A run. *)

Exit(s) == stage' = "exit" /\ status' = s /\ UNCHANGED todo
Begin(hwRev) == stage' = "reads" /\ todo' = Plan(run, hwRev) /\ UNCHANGED status

ReadPower ==
  /\ stage = "power"
  /\ \/ saw' = power /\ UNCHANGED faults
     \/ saw' = "unknown" /\ Fault
  /\ \/ Expelled(run, saw') /\ Exit(1)
     \/ /\ ~Expelled(run, saw')
        /\ \/ run.tool \in Gated /\ stage' = "revision" /\ UNCHANGED <<todo, status>>
           \/ run.tool \notin Gated /\ Begin(0)
  /\ UNCHANGED <<run, devices, rev, findings, ghosts>>

\* Registry.clocks, which takes --hw-rev for the revision or asks the MCU once;
\* cm-ff-status finds it in system_info, with the masks if the map has them.
HasMasks == mapMinor >= 1
KnowsBoard == rev' \in KnownRevs /\ (run.tool = "ff_status" => HasMasks)

LearnRevision ==
  /\ stage = "revision"
  /\ rev' = IF run.hwRev # 0 THEN run.hwRev ELSE eeprom
  /\ IF KnowsBoard THEN Begin(rev') ELSE Exit(1)
  /\ UNCHANGED <<run, devices, saw, findings, ghosts, faults>>

NoRevision ==
  /\ stage = "revision" /\ run.hwRev = 0
  /\ Fault /\ Exit(1)
  /\ UNCHANGED <<run, devices, rev, saw, findings, ghosts>>

WrongChip(c) == ChipAt(rev, c) # ChipAt(BoardRev, c)
Unexplained(c, alarms) ==
  \E a \in alarms : IF ChipAt(rev, c) = "Si5341" THEN ~Expected5341(monitors, a[1], a[2])
                                                  ELSE ~Expected5395(monitors, a[1], a[2])

\* What is read is not as it should be.
Problem(u) ==
  \/ u.kind = "ready" /\ clock[u.dev].ready = "no"
  \/ u.kind = "identity" /\ WrongChip(u.dev)
  \/ u.kind = "registers" /\ PartNumber \cap u.of # {} /\ WrongChip(u.dev)
  \/ u.kind = "alarms" /\ Unexplained(u.dev, clock[u.dev].alarms)
  \/ u.kind = "flags" /\ Unexplained(u.dev, clock[u.dev].flags)
  \/ u.kind \in Outputs /\ u.kind \in clock[u.dev].outputs
  \/ u.kind = "not_on" /\ power # "POWER_ON"
  \/ u.kind \in mcu

\* Mutant of Without: one failure ends the run.
WithoutAny(u) == {}

\* What is left to do when u's device, or u's part of it, is given up.
Without(u) ==
  {v \in todo \ {u} : ~(v.dev = u.dev /\ (CostsDevice(u) \/ v.part = u.part))}

EndsDevice(u) == u.part \in {"ready", "identity"} \/ (u.part = "verdict" /\ u.kind = "not_on")
AfterFailure(u) == IF CostsDevice(u) \/ CostsPart(u) THEN Without(u) ELSE todo \ {u}

Answered(u) ==
  /\ monitors' = IF u.kind = "ready" THEN << >>
                  ELSE IF u.kind = "config"
                  THEN [f \in DOMAIN monitors \cup u.of |->
                          IF f \in u.of THEN clock[u.dev].config[f] ELSE monitors[f]]
                  ELSE monitors
  /\ bad' = IF Problem(u) THEN bad \cup {<<u.dev, u.part, "problem">>} ELSE bad
  /\ todo' = IF Problem(u) /\ EndsDevice(u) THEN Without(u) ELSE todo \ {u}
  /\ answered' = answered \cup {u}
  /\ sick' = IF Alarming(u) THEN sick \cup {u.dev} ELSE sick
  /\ UNCHANGED faults

\* An alarm page that cannot be read is no finding of cm-is-cm-healthy.
Fails(u) ==
  /\ Fault
  /\ bad' = IF u.part = "note" THEN bad ELSE bad \cup {<<u.dev, u.part, "failed">>}
  /\ todo' = AfterFailure(u)
  /\ UNCHANGED <<monitors, answered, sick>>

Withheld(u) == u.kind = "section" /\ u.part \notin Advertised

IsNext(u) == u \in todo /\ \A v \in todo \ {u} : Precedes(u.place, v.place)

DoRead ==
  /\ stage = "reads"
  /\ \E u \in todo :
       /\ IsNext(u)
       /\ (~Withheld(u) /\ Answered(u)) \/ Fails(u)
       /\ asked' = asked \cup {u}
  /\ UNCHANGED <<run, devices, stage, status, rev, saw, moved>>

\* McuCapabilityUnavailable: the section says so and has not failed.  (It can fail, as in
\* DoRead, by the read of the capabilities, while they are not cached.)
SkipSection ==
  /\ stage = "reads"
  /\ \E u \in todo : IsNext(u) /\ Withheld(u) /\ todo' = todo \ {u}
  /\ UNCHANGED <<run, devices, stage, status, rev, saw, findings, ghosts, faults>>

Passed(d, check) ==
  /\ \E u \in asked : u.dev = d /\ u.part = check
  /\ ~ \E b \in bad : b[1] = d /\ b[2] = check
SummaryIsOk == \A d \in ToSet(run.names), check \in ToSet(run.checks) : Passed(d, check)

ExitStatus ==
  CASE run.tool \in CheckTools -> IF SummaryIsOk THEN 0 ELSE 1
    [] run.tool \in Predicates ->
         IF \E b \in bad : b[3] = "failed" THEN 2 ELSE IF bad = {} THEN 0 ELSE 1
    [] OTHER -> IF bad = {} THEN 0 ELSE 1

Finish ==
  /\ stage = "reads" /\ todo = {}
  /\ Exit(ExitStatus)
  /\ UNCHANGED <<run, devices, rev, saw, findings, ghosts, faults>>

Next ==
  \/ \E c \in Named : ClockChanges(c)
  \/ McuChanges
  \/ ReadPower \/ LearnRevision \/ NoRevision \/ DoRead \/ SkipSection \/ Finish

Spec == Init /\ [][Next]_vars

----------------------------------------------------------------------------
(* Properties. *)

BadParts(d) == {b[2] : b \in {x \in bad : x[1] = d}}

\* The exit status is right.  Success means that every read of the plan was
\* answered (a section the firmware withholds and the note of cm-is-cm-healthy
\* excepted), that a dump has every register of its layout, that each clock is the
\* chip it was decoded as, and that no clock had an alarm that matters when it was
\* judged.  And a clock is not reported for an alarm that does not matter.  Clocks
\* that were reconfigured between the reads of their configuration and of their
\* status (`moved`) are excepted: nothing in the tool would notice.
VerdictIsRight ==
  /\ stage = "exit" /\ status = 0 =>
       /\ \A u \in Plan(run, rev) : u \in answered \/ Withheld(u) \/ u.part = "note"
       /\ run.tool = "clock_dump" => DumpRegs \subseteq UNION {u.of : u \in answered}
       /\ run.tool \in ClockTools => \A c \in ToSet(run.names) : ~WrongChip(c)
       /\ sick \subseteq moved
  /\ run.tool = "clock_checks" =>
       \A c \in Named, check \in ToSet(run.checks) :
         <<c, check, "problem">> \in bad => c \in sick \cup moved

\* Devices do not stand in each other's way, and a clock is left alone until it is
\* fit to be read: nothing but DEVICE_READY is read of a clock that has not said it
\* is ready, no status of a chip that has not said what it is or whose configuration
\* is not known; a tool that wants the power on reads nothing after seeing it off;
\* and a read of the plan is left out only for what happened to its own device, in
\* its own part of the report or in what that part depends on.
OnlyItsOwnTrouble ==
  /\ \A u \in asked :
       /\ run.tool \in ClockTools /\ u.kind # "ready" =>
            /\ \E v \in answered : v.dev = u.dev /\ v.kind = "ready"
            /\ "ready" \notin BadParts(u.dev)
       /\ run.tool = "clock_checks" /\ u.part \notin {"ready", "identity"} =>
            ~WrongChip(u.dev)
       /\ run.tool = "clock_checks" /\ u.part \in {"status", "flags"} =>
            ToSet(MonitorReads(ChipAt(BoardRev, u.dev)))
              \subseteq {v.of : v \in {w \in answered : w.dev = u.dev}}
  /\ asked # {} /\ run.tool \in Gated /\ ~run.force => saw # "POWER_OFF"
  /\ stage = "exit" /\ asked # {} =>
       \A u \in Plan(run, rev) \ asked :
         Withheld(u) \/ BadParts(u.dev) \cap {u.part, "ready", "identity", "config", "verdict"} # {}
=============================================================================
