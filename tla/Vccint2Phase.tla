---------------------------- MODULE Vccint2Phase ----------------------------
(***************************************************************************)
(* tools/vccint_2phase.py: taking FnVCCINT from four phases (two LGA80D    *)
(* modules on one rail) to two (FnVCCINT1 only), and back, over PMBus.     *)
(*                                                                         *)
(* The tool reads the MCU's power state and both modules' DDC_CONFIG,      *)
(* plans the new values or refuses, writes them and reads them back, one   *)
(* register at a time.  A write can fail, done or not, and the tool can be *)
(* interrupted at any moment; it is then run again, with any options.      *)
(* Between any two steps the board can be switched on and the modules' VIN *)
(* can be cycled, which brings the strapped values back.                   *)
(*                                                                         *)
(* The line is taken to be in step (see ProgCom): a write that returns has *)
(* been done.  DDC_CONFIG's reserved bits are taken to be 0.               *)
(***************************************************************************)
EXTENDS Integers

CONSTANTS
  KeepRail,              \* the rail both modules are strapped to
  Rails                  \* the rail IDs in use, of 0..31

ASSUME RailsAssumption == Rails \subseteq 0..31 /\ KeepRail \in Rails

Pages == 0..1
Modules == {"FnVCCINT1", "FnVCCINT2"}     \* KEEP and DROP
Ddc == [id : 0..3, rail : Rails, phases : 0..7]

\* The tool's options: --restore, or the 2-phase mode with --drop-rail or without.
NoRail == -1
Options == [restore : {"no"}, dropRail : Rails \cup {NoRail}]
             \cup [restore : {"yes"}, dropRail : {NoRail}]

VARIABLES
  strapped,              \* the phases field of the straps: 3 or 4
  ddc,                   \* DDC_CONFIG of each page of each module
  onOff,                 \* FnVCCINT2's ON_OFF_CONFIG: started by "EN" or by "OPERATION"
  operation,             \* FnVCCINT2's OPERATION: "on" or "off"
  power,                 \* the power state machine: EN is high unless "POWER_OFF"
  run,                   \* "idle", or where the tool stands
  options,               \* the tool's options
  fsm,                   \* the power state it read
  plan,                  \* the DDC_CONFIG it reads, and then those it is to leave
  todo,                  \* the registers it has yet to read, to write or to read back
  outcome,               \* how the last run ended
  vin,                   \* history: "cycled" if VIN was cycled within a run since it
                         \* was last cycled between runs
  halted                 \* history: the runs that were interrupted while they wrote
                         \* since one last succeeded, or a VIN cycle; 2 for more

board == <<ddc, onOff, operation>>
vars == <<strapped, ddc, onOff, operation, power, run, options, fsm, plan, todo, outcome,
          vin, halted>>

-----------------------------------------------------------------------------
(* The plans: what the tool makes of the DDC_CONFIG values it reads.       *)

\* Strap layout: phases 0 and 2 of the rail are FnVCCINT1's, 1 and 3 FnVCCINT2's.
FourPhase(m, rail, phases) ==
  [p \in Pages |-> [id |-> IF m = "FnVCCINT1" THEN 2 * p ELSE 2 * p + 1,
                    rail |-> rail, phases |-> phases]]
TwoPhase(rail, phases) == [p \in Pages |-> [id |-> p, rail |-> rail, phases |-> phases]]
Straps == [m \in Modules |-> FourPhase(m, KeepRail, strapped)]

\* plan_ddc: FnVCCINT1 is already as it should be, or it is on one four-phase rail.
IsTwoPhase(keep) ==
  /\ keep = TwoPhase(keep[0].rail, keep[0].phases)
  /\ keep[0].phases \in {1, 2}

CanShrink(keep) ==
  \/ IsTwoPhase(keep)
  \/ /\ keep[0].rail = keep[1].rail
     /\ keep[0].phases = keep[1].phases
     /\ keep[0].phases \in {3, 4}

\* Mutant of Shrunk: the field is taken to lose both modules' phases, four.
ShrunkTooFar(keep) ==
  IF IsTwoPhase(keep) THEN keep ELSE TwoPhase(keep[0].rail, keep[0].phases - 4)

Shrunk(keep) ==
  IF IsTwoPhase(keep) THEN keep ELSE TwoPhase(keep[0].rail, keep[0].phases - 2)

\* plan_restore: the four-phase field is FnVCCINT2's if it was not moved, and
\* FnVCCINT1's plus 2 if it was; anything else refuses.
IsStrapped(keep, drop) ==
  /\ drop = FourPhase("FnVCCINT2", keep[0].rail, drop[0].phases)
  /\ drop[0].phases \in {3, 4}

IsMoved(keep, drop) ==
  /\ drop = TwoPhase(drop[0].rail, keep[0].phases)
  /\ drop[0].rail # keep[0].rail
  /\ keep[0].phases \in {1, 2}

GrownPhases(keep, drop) ==
  IF IsStrapped(keep, drop) THEN drop[0].phases ELSE keep[0].phases + 2

\* Mutant of CanRestore: FnVCCINT1's pages must be alike.
CanRestoreAlike(keep, drop) ==
  /\ keep[0].rail = keep[1].rail
  /\ keep[0].phases = keep[1].phases
  /\ IsStrapped(keep, drop) \/ IsMoved(keep, drop)
  /\ \A p \in Pages :
       keep[p].phases \in {GrownPhases(keep, drop) - 2, GrownPhases(keep, drop)}

CanRestore(keep, drop) ==
  /\ keep[0].rail = keep[1].rail
  /\ IsStrapped(keep, drop) \/ IsMoved(keep, drop)
  /\ \A p \in Pages :
       keep[p].phases \in {GrownPhases(keep, drop) - 2, GrownPhases(keep, drop)}

\* Whether the tool goes ahead with options o, and with what plan.
Accepts(o, keep, drop) ==
  IF o.restore = "yes" THEN CanRestore(keep, drop)
  ELSE CanShrink(keep) /\ o.dropRail # Shrunk(keep)[0].rail

\* Mutant of Plan: --restore puts FnVCCINT1's own field back in both modules.
PlanOwnPhases(o, keep, drop) ==
  IF o.restore = "yes"
  THEN [m \in Modules |-> FourPhase(m, keep[0].rail, keep[0].phases)]
  ELSE [m \in Modules |->
          IF m = "FnVCCINT1" THEN Shrunk(keep)
          ELSE IF o.dropRail = NoRail THEN drop
          ELSE TwoPhase(o.dropRail, Shrunk(keep)[0].phases)]

Plan(o, keep, drop) ==
  IF o.restore = "yes"
  THEN [m \in Modules |-> FourPhase(m, keep[0].rail, GrownPhases(keep, drop))]
  ELSE [m \in Modules |->
          IF m = "FnVCCINT1" THEN Shrunk(keep)
          ELSE IF o.dropRail = NoRail THEN drop
          ELSE TwoPhase(o.dropRail, Shrunk(keep)[0].phases)]

-----------------------------------------------------------------------------
(* The registers, and the order in which the tool goes through them.       *)

Registers ==
  [reg : {"ON_OFF_CONFIG", "OPERATION"}, module : {"FnVCCINT2"}, page : Pages]
    \cup [reg : {"DDC_CONFIG"}, module : Modules, page : Pages]

DdcRegisters == {r \in Registers : r.reg = "DDC_CONFIG"}

\* write_drop: FnVCCINT2 is switched off for good, or handed back to the EN pin.
DropWrites == Registers \ DdcRegisters

\* write_ddc: only what differs from what was read.
DdcWrites(new) == {w \in DdcRegisters : new[w.module][w.page] # plan[w.module][w.page]}

\* The plan is made from FnVCCINT1, then FnVCCINT2, page by page.
PlaceRead(r) == (IF r.module = "FnVCCINT1" THEN 0 ELSE 2) + r.page

\* FnVCCINT2 before FnVCCINT1, page by page, ON_OFF_CONFIG before OPERATION.
Within(w) ==
  IF w.reg = "DDC_CONFIG"
  THEN (IF w.module = "FnVCCINT1" THEN 2 ELSE 0) + w.page
  ELSE (IF w.reg = "OPERATION" THEN 1 ELSE 0) + 2 * w.page

\* Mutant of Rank: the rail is always shrunk first.
RankDdcFirst(o, w) == IF w.reg = "DDC_CONFIG" THEN Within(w) ELSE 4 + Within(w)

\* 2-phase: disable FnVCCINT2 before shrinking the rail.  Restore: grow the rail first.
Rank(o, w) ==
  IF w.reg = "DDC_CONFIG" <=> o.restore = "yes" THEN Within(w) ELSE 4 + Within(w)

\* The verification goes page by page.
PlaceBack(r) ==
  4 * r.page + (CASE r.reg = "ON_OFF_CONFIG" -> 2
                  [] r.reg = "OPERATION" -> 3
                  [] OTHER -> IF r.module = "FnVCCINT1" THEN 0 ELSE 1)

Place(r) ==
  CASE run = "planning" -> PlaceRead(r)
    [] run = "writing" -> Rank(options, r)
    [] OTHER -> PlaceBack(r)

\* The register that comes next.
IsNext(r) == r \in todo /\ \A v \in todo : Place(r) <= Place(v)

OnOffNew == IF options.restore = "yes" THEN "EN" ELSE "OPERATION"
OperationNew == IF options.restore = "yes" THEN "on" ELSE "off"

Done(w) ==
  /\ ddc' = IF w.reg = "DDC_CONFIG"
            THEN [ddc EXCEPT ![w.module][w.page] = plan[w.module][w.page]] ELSE ddc
  /\ onOff' = IF w.reg = "ON_OFF_CONFIG" THEN [onOff EXCEPT ![w.page] = OnOffNew] ELSE onOff
  /\ operation' = IF w.reg = "OPERATION"
                  THEN [operation EXCEPT ![w.page] = OperationNew] ELSE operation

-----------------------------------------------------------------------------
Init ==
  /\ strapped \in {3, 4}
  /\ ddc = Straps
  /\ onOff = [p \in Pages |-> "EN"]
  /\ operation = [p \in Pages |-> "on"]
  /\ power \in {"POWER_OFF", "POWER_ON"}
  /\ run = "idle"
  /\ options = [restore |-> "no", dropRail |-> NoRail]
  /\ fsm = "POWER_OFF"
  /\ plan = Straps
  /\ todo = {}
  /\ outcome = "none"
  /\ vin = "quiet"
  /\ halted = 0

\* The tool starts with --apply and reads the power state.
Start(o) ==
  /\ run = "idle"
  /\ run' = "planning"
  /\ options' = o
  /\ fsm' = power
  /\ todo' = DdcRegisters
  /\ outcome' = "none"
  /\ UNCHANGED <<strapped, board, power, plan, vin, halted>>

\* Whether what it has read is accepted.  For the 2-phase mode FnVCCINT1's is enough.
Accepted == Accepts(options, plan["FnVCCINT1"], plan["FnVCCINT2"])
CanTell ==
  \/ todo = {}
  \/ options.restore = "no" /\ \A r \in todo : r.module = "FnVCCINT2"

ReadNext ==
  /\ run = "planning"
  /\ CanTell => Accepted
  /\ \E r \in todo :
       /\ IsNext(r)
       /\ plan' = [plan EXCEPT ![r.module][r.page] = ddc[r.module][r.page]]
       /\ todo' = todo \ {r}
  /\ UNCHANGED <<strapped, board, power, run, options, fsm, outcome, vin, halted>>

\* It cannot plan from what it reads, or will not write since it read no POWER_OFF.
Refuse ==
  /\ run = "planning"
  /\ \/ CanTell /\ ~Accepted
     \/ todo = {} /\ fsm # "POWER_OFF"
  /\ run' = "idle"
  /\ todo' = {}
  /\ outcome' = "refused"
  /\ UNCHANGED <<strapped, board, power, options, fsm, plan, vin, halted>>

MakePlan ==
  /\ run = "planning"
  /\ todo = {}
  /\ Accepted
  /\ fsm = "POWER_OFF"
  /\ run' = "writing"
  /\ plan' = Plan(options, plan["FnVCCINT1"], plan["FnVCCINT2"])
  /\ todo' = DropWrites \cup DdcWrites(plan')
  /\ UNCHANGED <<strapped, board, power, options, fsm, outcome, vin, halted>>

\* After the last write everything is read back.
WriteNext ==
  /\ run = "writing"
  /\ \E w \in todo :
       /\ IsNext(w)
       /\ Done(w)
       /\ IF todo = {w} THEN run' = "verifying" /\ todo' = Registers
          ELSE todo' = todo \ {w} /\ UNCHANGED run
  /\ UNCHANGED <<strapped, power, options, fsm, plan, outcome, vin, halted>>

\* A read or a write raises, or the tool is killed: nothing is undone.
Interrupted(done) ==
  /\ run # "idle"
  /\ IF done /\ run = "writing" THEN \E w \in todo : IsNext(w) /\ Done(w)
     ELSE UNCHANGED board
  /\ todo' = {}
  /\ run' = "idle"
  /\ outcome' = "failed"
  /\ halted' = IF run = "writing" /\ halted < 2 THEN halted + 1 ELSE halted
  /\ UNCHANGED <<strapped, power, options, fsm, plan, vin>>

\* Mutant of Matches: only DDC_CONFIG is compared.
MatchesDdc(r) == r.reg = "DDC_CONFIG" => ddc[r.module][r.page] = plan[r.module][r.page]

\* Whether a register is as the tool is to leave it.
Matches(r) ==
  CASE r.reg = "DDC_CONFIG" -> ddc[r.module][r.page] = plan[r.module][r.page]
    [] r.reg = "ON_OFF_CONFIG" -> onOff[r.page] = OnOffNew
    [] r.reg = "OPERATION" -> operation[r.page] = OperationNew

\* A register is read back.  The last one gives the verdict on all.
ReadBack ==
  /\ run = "verifying"
  /\ \E r \in todo :
       /\ IsNext(r)
       /\ todo' = todo \ {r}
       /\ outcome' = IF ~Matches(r) THEN "mismatch"
                     ELSE IF todo = {r} /\ outcome = "none" THEN "ok" ELSE outcome
  /\ run' = IF todo' = {} THEN "idle" ELSE run
  /\ halted' = IF outcome' = "ok" THEN 0 ELSE halted
  /\ UNCHANGED <<strapped, board, power, options, fsm, plan, vin>>

-----------------------------------------------------------------------------
(* Around the tool.                                                        *)

\* The MCU switches the board on or off.
SwitchBoard ==
  /\ power' = IF power = "POWER_OFF" THEN "POWER_ON" ELSE "POWER_OFF"
  /\ UNCHANGED <<strapped, board, run, options, fsm, plan, todo, outcome, vin, halted>>

\* The modules' VIN goes away and returns: they read their straps.
CycleVin ==
  /\ ddc' = Straps
  /\ onOff' = [p \in Pages |-> "EN"]
  /\ operation' = [p \in Pages |-> "on"]
  /\ vin' = IF run = "idle" THEN "quiet" ELSE "cycled"
  /\ outcome' = IF run = "idle" THEN "none" ELSE outcome
  /\ halted' = 0
  /\ UNCHANGED <<strapped, power, run, options, fsm, plan, todo>>

Next ==
  \/ \E o \in Options : Start(o)
  \/ ReadNext
  \/ Refuse
  \/ MakePlan
  \/ WriteNext
  \/ \E done \in BOOLEAN : Interrupted(done)
  \/ ReadBack
  \/ SwitchBoard
  \/ CycleVin

Spec == Init /\ [][Next]_vars

-----------------------------------------------------------------------------
(* Properties *)

TypeOK ==
  /\ strapped \in {3, 4}
  /\ ddc \in [Modules -> [Pages -> Ddc]]
  /\ onOff \in [Pages -> {"EN", "OPERATION"}]
  /\ operation \in [Pages -> {"on", "off"}]
  /\ power \in {"POWER_OFF", "POWER_ON"}
  /\ run \in {"idle", "planning", "writing", "verifying"}
  /\ options \in Options
  /\ fsm \in {"POWER_OFF", "POWER_ON"}
  /\ plan \in [Modules -> [Pages -> Ddc]]
  /\ todo \subseteq Registers
  /\ outcome \in {"none", "refused", "failed", "mismatch", "ok"}
  /\ vin \in {"quiet", "cycled"}
  /\ halted \in 0..2

\* Whatever runs failed or were interrupted, and wherever: as soon as a page of
\* FnVCCINT1 counts on two phases, FnVCCINT2 is off and does not listen to the EN pin.
ShrunkMeansDropped ==
  vin = "quiet" /\ (\E p \in Pages : ddc["FnVCCINT1"][p].phases < 3) =>
    \A p \in Pages : onOff[p] = "OPERATION" /\ operation[p] = "off"

\* Wherever a run was interrupted, some option of the tool still accepts what it left, so
\* that it can be put right without a VIN cycle (vccint_2phase.py:31).  One interruption,
\* that is: two in a row can leave pages of both modules half changed, which every option
\* refuses (a --drop-rail run interrupted between FnVCCINT2's pages, then one without
\* --drop-rail interrupted between FnVCCINT1's).
SomeOptionIsAccepted ==
  run = "idle" /\ vin = "quiet" /\ halted < 2 =>
    \E o \in Options : Accepts(o, ddc["FnVCCINT1"], ddc["FnVCCINT2"])

\* A --restore that reports success gives the result of a VIN cycle
\* (vccint_2phase.py:43), after whatever moves and failures.
RestoreIsAVinCycle ==
  outcome = "ok" /\ options.restore = "yes" =>
    /\ ddc = Straps
    /\ \A p \in Pages : onOff[p] = "EN"

\* A 2-phase run that reports success leaves FnVCCINT1 a two-phase rail of its own and
\* FnVCCINT2 off, on another rail if --drop-rail asked for it.
AppliedMeansTwoPhase ==
  outcome = "ok" /\ options.restore = "no" =>
    /\ IsTwoPhase(ddc["FnVCCINT1"])
    /\ \A p \in Pages : onOff[p] = "OPERATION" /\ operation[p] = "off"
    /\ options.dropRail # NoRail =>
         ddc["FnVCCINT2"] = TwoPhase(options.dropRail, ddc["FnVCCINT1"][0].phases)
         /\ options.dropRail # ddc["FnVCCINT1"][0].rail

\* ON_OFF_CONFIG is written before OPERATION because "the reverse order would turn
\* FnVCCINT2 on immediately" (vccint_2phase.py:41): the tool never turns it on.
NeverTurnedOn ==
  \A p \in Pages : ~(onOff[p] = "OPERATION" /\ operation[p] = "on")
=============================================================================
