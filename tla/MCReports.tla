----------------------------- MODULE MCReports -----------------------------
(* A Rev2 board, whose R0A is an Si5341 and R0B an Si5395, with an EEPROM  *)
(* that may say otherwise; every tool, on what makes a difference to it.   *)
EXTENDS Reports

Line(tool, names, checks, force, hwRev) ==
  [tool |-> tool, names |-> names, checks |-> checks, force |-> force, hwRev |-> hwRev]

MCRuns ==
  {Line("clock_checks", <<"R0A">>, <<"status", "flags">>, FALSE, 0),
   Line("clock_checks", <<"R0B">>, <<"id", "status">>, FALSE, 2),
   Line("clock_checks", <<"R0A", "R0B">>, <<"status">>, FALSE, 2),
   Line("clock_checks", <<"R0A", "R0B">>, <<"flags">>, TRUE, 3),
   Line("clock_dump", <<"R0A">>, << >>, TRUE, 0),
   Line("clock_dump", <<"R0A", "R0B">>, << >>, FALSE, 3),
   Line("lga80d_checks", <<"F1VCCINT1", "F1VCCINT2">>, <<"freq", "temp", "timing">>, FALSE, 0),
   Line("lga80d_status", <<"F1VCCINT1", "F1VCCINT2">>, << >>, FALSE, 0),
   Line("lga80d_dump", <<"F1VCCINT1", "F1VCCINT2">>, << >>, FALSE, 0),
   Line("ff_status", <<"slot_0", "slot_1", "slot_2", "slot_3", "slot_8", "slot_9">>, << >>, FALSE, 0),
   Line("mcu_dump", <<"MCU">>, << >>, FALSE, 0),
   Line("is_cm_healthy", <<"MCU">>, << >>, FALSE, 0),
   Line("is_fpga_programmed", <<"MCU">>, << >>, FALSE, 0),
   Line("is_rtc_set", <<"MCU">>, << >>, FALSE, 0)}

\* Slots that hold the same kind of module on both revisions; 1 is withheld from the
\* MCU, 9 is empty.
Module(kind, family) == [kind |-> kind, family |-> family]
MCModules == [s \in {"slot_0", "slot_1"} |-> Module("Tx", "25g")]
          @@ [s \in {"slot_2"} |-> Module("Tx", "cernb")]
          @@ [s \in {"slot_3"} |-> Module("Rx", "25g")]
          @@ [s \in {"slot_8", "slot_9"} |-> Module("x4", "25g")]
MCPresent == {"slot_0", "slot_1", "slot_2", "slot_3", "slot_8"}
MCUser == {"slot_0", "slot_2", "slot_3", "slot_8", "slot_9"}
MCAdvertised == {"System", "Power", "Alarm", "Config"}

Ready(config, alarms) ==
  [ready |-> "yes", config |-> config, alarms |-> alarms, flags |-> alarms, outputs |-> {}]

\* R0A: locked to IN0, with or without the feedback input; to the crystal; to
\* whatever the pins say.
To0 == [inEn |-> {0, 1}, losEn |-> {0, 1, 3}, xaxbOff |-> FALSE, regctrl |-> TRUE,
        inSel |-> 0, zdm |-> FALSE]
ZeroDelay == [To0 EXCEPT !.inEn = {0, 3}, !.zdm = TRUE]
Crystal == [To0 EXCEPT !.inEn = {0, 3}, !.inSel = 3]
ByPins == [To0 EXCEPT !.regctrl = FALSE, !.xaxbOff = TRUE]

StatesR0A ==
  {Ready(To0, {<<"LOS", 1>>}), Ready(To0, {<<"LOS", 0>>}), Ready(To0, {<<"LOL", 0>>}),
   Ready(ZeroDelay, {<<"LOS", 3>>}), Ready(Crystal, {<<"LOS", 0>>, <<"LOS", 3>>}),
   Ready(ByPins, {<<"LOS", 1>>}), Ready(ByPins, {<<"LOSXAXB", 0>>}),
   [Ready(To0, {<<"SYSINCAL", 0>>}) EXCEPT !.ready = "no"],
   [Ready(To0, {}) EXCEPT !.outputs = {"all_disabled"}]}

\* R0B: tracking IN1 of two inputs; held; with nothing to track; with a detector off.
Tracks1 == [inEn |-> {0, 1}, losEn |-> {0, 1}, oofEn |-> {0, 1}, xaxbOff |-> FALSE,
            lolEn |-> TRUE, hold |-> FALSE, active |-> 1]

StatesR0B ==
  {Ready(Tracks1, {<<"LOS", 0>>}), Ready(Tracks1, {<<"LOS", 1>>, <<"HOLD", 0>>}),
   Ready(Tracks1, {<<"LOS", 0>>, <<"OOF", 1>>}), Ready(Tracks1, {<<"LOL", 0>>}),
   Ready([Tracks1 EXCEPT !.hold = TRUE], {<<"LOL", 0>>, <<"HOLD", 0>>}),
   Ready([Tracks1 EXCEPT !.inEn = {}], {<<"LOS", 1>>, <<"LOL", 0>>, <<"HOLD", 0>>}),
   Ready([Tracks1 EXCEPT !.lolEn = FALSE, !.losEn = {0}], {<<"LOS", 1>>, <<"LOL", 0>>}),
   [Ready(Tracks1, {<<"CAL_PLL", 0>>}) EXCEPT !.ready = "no"],
   [Ready(Tracks1, {}) EXCEPT !.outputs = {"powered_down"}],
   [Ready(Tracks1, {}) EXCEPT !.outputs = {"NVM_bank"}]}

MCClockStates == [R0A |-> StatesR0A, R0B |-> StatesR0B]
MCMcuStates == {{}, {"health"}, {"power", "not_done"}, {"rtc"}}
=============================================================================
