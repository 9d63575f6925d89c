----------------------------- MODULE Snapshots -----------------------------
(***************************************************************************)
(* The LGA80D fault history ("SNAPSHOT"): cm-lga80d-dump --snapshot reads  *)
(* it and cm-lga80d-snapshot-reset, or a script through                    *)
(* Registry.reset_all_lga80d_snapshots, erases it.                         *)
(*                                                                         *)
(* read_snapshot makes the MCU capture a page's history into its one cache *)
(* and reads the cache back in chunks; the cache is shared by all clients, *)
(* and a chunk is refused when it holds another supply or page.            *)
(* reset_snapshot is acknowledged but ignored while the supply is on, so   *)
(* the reset looks at the power state first; the board can be switched at  *)
(* any moment.  Any transaction can fail, a write done or not.             *)
(*                                                                         *)
(* The line is in step (see ProgCom) and read_power returns the state of   *)
(* one moment (see PowerSnapshot).  The supplies are off in POWER_OFF.     *)
(***************************************************************************)
EXTENDS Naturals, SequencesExt

CONSTANTS
  Supplies,
  Dumps,           \* the runs of cm-lga80d-dump --snapshot
  Resets,          \* the runs of the reset tool, and of scripts
  DumpPlans,       \* the pages a dump may be given: sequences of <<supply, page>>
  ResetPlans,      \* the supplies a reset may be given: records [by, groups]
  NChunks,         \* reads of the cache: SNAPSHOT_BYTES / _SNAPSHOT_READ_BYTES
  MaxSwitches,     \* bound: times the board is switched on or off
  MaxFaults        \* bound: transactions that fail

Pages == 0..1
Histories == Supplies \X Pages

ASSUME SnapshotsAssumption ==
  /\ NChunks \in Nat \ {0} /\ MaxSwitches \in Nat /\ MaxFaults \in Nat
  /\ \A plan \in DumpPlans : plan \in Seq(Histories) /\ plan # << >>
  /\ \A plan \in ResetPlans : plan.groups \in Seq(Seq(Supplies) \ {<< >>}) /\ plan.groups # << >>

\* A script checks the power once for all its supplies and gives up at the first
\* failure; the tool does both for each supply on its own.  A plan groups the
\* supplies accordingly: one group, or a group for each.
PlanSupplies(plan) == UNION {ToSet(plan.groups[i]) : i \in DOMAIN plan.groups}

VARIABLES
  power,           \* "POWER_OFF" or "POWER_ON"
  history,         \* "stored" or "erased": what each page's fault history holds
  cache,           \* the MCU's capture: [id, of], numbered
  dump,            \* each dump: [at, pages, mine, got, failed]
  reset,           \* each reset: [at, plan, group, page, failed]
  recaptured,      \* history: dumps whose page another client captured since they did
  onSince,         \* history: supplies of each reset that were on since it looked
  switches, faults

board == <<power, history, switches>>
ghosts == <<recaptured, onSince>>
vars == <<board, cache, dump, reset, ghosts, faults>>

NoCapture == [id |-> 0, of |-> <<"none", 0>>]

TypeOK ==
  /\ power \in {"POWER_OFF", "POWER_ON"}
  /\ history \in [Histories -> {"stored", "erased"}]
  /\ cache = NoCapture \/ (cache.id \in Nat \ {0} /\ cache.of \in Histories)
  /\ \A d \in Dumps :
       /\ dump[d].at \in {"registers", "capture", "read", "returned", "done", "error"}
       /\ dump[d].at \in {"done", "error"} <=> dump[d].pages = << >>
       /\ Len(dump[d].got) \in 0..NChunks
       /\ dump[d].at = "returned" <=> Len(dump[d].got) = NChunks
       /\ dump[d].failed \in {"yes", "no"}
  /\ \A r \in Resets :
       /\ reset[r].at \in {"start", "confirm", "check", "capture", "erase", "done", "error"}
       /\ reset[r].at \in {"check", "capture", "erase"} => reset[r].group # << >>
       /\ reset[r].page \in Pages
  /\ recaptured \subseteq Dumps
  /\ onSince \in [Resets -> SUBSET Supplies]
  /\ switches \in 0..MaxSwitches /\ faults \in 0..MaxFaults

\* A new supply holds a factory record.
Init ==
  /\ power \in {"POWER_OFF", "POWER_ON"}
  /\ history = [h \in Histories |-> "stored"]
  /\ cache = NoCapture
  /\ dump \in [Dumps -> {[at |-> "registers", pages |-> plan, mine |-> 0, got |-> << >>,
                          failed |-> "no"] : plan \in DumpPlans}]
  /\ reset \in [Resets -> {[at |-> IF plan.by = "tool" THEN "start" ELSE "check",
                            plan |-> plan, group |-> plan.groups[1],
                            todo |-> Tail(plan.groups), page |-> 0, failed |-> "no"]
                           : plan \in ResetPlans}]
  /\ recaptured = {}
  /\ onSince = [r \in Resets |-> {}]
  /\ switches = 0 /\ faults = 0

-----------------------------------------------------------------------------
(* The board.                                                              *)

Switch ==
  /\ switches < MaxSwitches
  /\ switches' = switches + 1
  /\ power' = IF power = "POWER_ON" THEN "POWER_OFF" ELSE "POWER_ON"
  /\ onSince' = IF power' = "POWER_ON" THEN [r \in Resets |-> Supplies] ELSE onSince
  /\ UNCHANGED <<history, cache, dump, reset, recaptured, faults>>

StoreRecord ==
  /\ power = "POWER_ON"
  /\ \E h \in Histories : history' = [history EXCEPT ![h] = "stored"]
  /\ UNCHANGED <<power, switches, cache, dump, reset, ghosts, faults>>

CanFail == faults < MaxFaults /\ faults' = faults + 1

-----------------------------------------------------------------------------
(* cm-lga80d-dump: for each page its registers, then read_snapshot.        *)

Page(d) == Head(dump[d].pages)

\* Whatever became of this page, on with the next, or the exit status.
NextPage(d, failed) ==
  dump' = [dump EXCEPT ![d] =
    [at |-> IF Tail(@.pages) # << >> THEN "registers"
            ELSE IF failed = "yes" THEN "error" ELSE "done",
     pages |-> Tail(@.pages), mine |-> 0, got |-> << >>, failed |-> failed]]

\* A register that cannot be read is a failure, and does not hide the rest.
ReadRegisters(d) ==
  /\ dump[d].at = "registers"
  /\ \/ dump' = [dump EXCEPT ![d].at = "capture"] /\ UNCHANGED faults
     \/ CanFail /\ dump' = [dump EXCEPT ![d].at = "capture", ![d].failed = "yes"]
  /\ UNCHANGED <<board, cache, reset, ghosts>>

\* The MCU executes "w SN": the page's history goes to its cache.
FillCache(d) ==
  /\ cache' = [id |-> cache.id + 1, of |-> Page(d)]
  /\ recaptured' = (recaptured \ {d})
       \cup {e \in Dumps \ {d} : dump[e].at = "read" /\ Page(e) = Page(d)}

Capture(d) ==
  /\ dump[d].at = "capture"
  /\ FillCache(d)
  /\ dump' = [dump EXCEPT ![d].at = "read", ![d].mine = cache.id + 1]
  /\ UNCHANGED <<board, reset, onSince, faults>>

\* Mutant of CaptureFails: the reply to the capture is not checked.
CaptureFailureIgnored(d) ==
  /\ dump[d].at = "capture"
  /\ CanFail
  /\ dump' = [dump EXCEPT ![d].at = "read", ![d].mine = cache.id + 1]
  /\ UNCHANGED <<board, cache, reset, ghosts>>

\* An error reply, or none: the capture may have been made.
CaptureFails(d) ==
  /\ dump[d].at = "capture"
  /\ CanFail
  /\ NextPage(d, "yes")
  /\ \/ UNCHANGED <<cache, recaptured>>
     \/ FillCache(d)
  /\ UNCHANGED <<board, reset, onSince>>

\* Mutant of ReadChunk: one chunk too many.
ReadChunkPastEnd(d) ==
  /\ dump[d].at = "read"
  /\ IF cache.of = Page(d)
     THEN dump' = [dump EXCEPT
            ![d].got = Append(@, cache),
            ![d].at = IF Len(dump[d].got) = NChunks THEN "returned" ELSE @]
     ELSE NextPage(d, "yes")
  /\ UNCHANGED <<board, cache, reset, ghosts, faults>>

\* The MCU gives the chunk, or an error if its cache is of another supply or page.
ReadChunk(d) ==
  /\ dump[d].at = "read"
  /\ IF cache.of = Page(d)
     THEN dump' = [dump EXCEPT
            ![d].got = Append(@, cache),
            ![d].at = IF Len(dump[d].got) + 1 = NChunks THEN "returned" ELSE @]
     ELSE NextPage(d, "yes")
  /\ UNCHANGED <<board, cache, reset, ghosts, faults>>

ReadChunkFails(d) ==
  /\ dump[d].at = "read"
  /\ CanFail
  /\ NextPage(d, "yes")
  /\ UNCHANGED <<board, cache, reset, ghosts>>

\* The snapshot is formatted; on with the next page.
Format(d) ==
  /\ dump[d].at = "returned"
  /\ NextPage(d, dump[d].failed)
  /\ UNCHANGED <<board, cache, reset, ghosts, faults>>

-----------------------------------------------------------------------------
(* The reset: a supply at a time, both its pages.                          *)

Supply(r) == Head(reset[r].group)

\* On with the next group, or the exit status; a script raises instead.
NextGroup(r, failed) ==
  LET rest == reset[r].todo
  IN reset' = [reset EXCEPT
       ![r].at = IF rest # << >> THEN "check" ELSE IF failed = "yes" THEN "error" ELSE "done",
       ![r].group = IF rest = << >> THEN << >> ELSE Head(rest),
       ![r].todo = IF rest = << >> THEN << >> ELSE Tail(rest),
       ![r].page = 0,
       ![r].failed = failed]

\* The tool asks only if the board is off, and the user may decline.
FirstLook(r) ==
  /\ reset[r].at = "start"
  /\ \/ /\ power = "POWER_OFF"
        /\ reset' = [reset EXCEPT ![r].at = "confirm"]
        /\ UNCHANGED faults
     \/ /\ (power # "POWER_OFF" /\ UNCHANGED faults) \/ CanFail
        /\ reset' = [reset EXCEPT ![r].at = "error"]
  /\ UNCHANGED <<board, cache, dump, ghosts>>

Confirm(r) ==
  /\ reset[r].at = "confirm"
  /\ \E yes \in {"check", "error"} : reset' = [reset EXCEPT ![r].at = yes]
  /\ UNCHANGED <<board, cache, dump, ghosts, faults>>

\* Mutant of CheckPower: what the tool saw before it asked is good enough.
CheckPowerNot(r) ==
  /\ reset[r].at = "check"
  /\ reset' = [reset EXCEPT ![r].at = "capture"]
  /\ onSince' = [onSince EXCEPT ![r] = @ \ ToSet(reset[r].group)]
  /\ UNCHANGED <<board, cache, dump, recaptured, faults>>

\* reset_all_lga80d_snapshots looks for itself.
CheckPower(r) ==
  /\ reset[r].at = "check"
  /\ \/ /\ power = "POWER_OFF"
        /\ reset' = [reset EXCEPT ![r].at = "capture"]
        /\ onSince' = [onSince EXCEPT
             ![r] = @ \ ToSet(reset[r].group)]
        /\ UNCHANGED faults
     \/ /\ (power # "POWER_OFF" /\ UNCHANGED faults) \/ CanFail
        /\ NextGroup(r, "yes")
        /\ UNCHANGED onSince
  /\ UNCHANGED <<board, cache, dump, recaptured>>

\* SNAPSHOT_CONTROL = 0x01: the live registers are copied, the history stays.
WriteCapture(r) ==
  /\ reset[r].at = "capture"
  /\ reset' = [reset EXCEPT ![r].at = "erase"]
  /\ UNCHANGED <<board, cache, dump, ghosts, faults>>

\* The supply acknowledges SNAPSHOT_CONTROL = 0x03, and ignores it while it is on.
Erase(r) ==
  history' = IF power = "POWER_OFF" THEN [history EXCEPT ![<<Supply(r), reset[r].page>>] = "erased"]
             ELSE history

\* On with the other page, the group's next supply, or the next group.
AfterErase(r) ==
  IF reset[r].page = 0
  THEN reset' = [reset EXCEPT ![r].at = "capture", ![r].page = 1]
  ELSE IF Len(reset[r].group) > 1
  THEN reset' = [reset EXCEPT ![r].at = "capture", ![r].page = 0, ![r].group = Tail(@)]
  ELSE NextGroup(r, reset[r].failed)

WriteErase(r) ==
  /\ reset[r].at = "erase"
  /\ Erase(r)
  /\ AfterErase(r)
  /\ UNCHANGED <<power, switches, cache, dump, ghosts, faults>>

\* A write fails, done or not: the rest of the group is given up.
WriteFails(r) ==
  /\ reset[r].at \in {"capture", "erase"}
  /\ CanFail
  /\ NextGroup(r, "yes")
  /\ \/ UNCHANGED history
     \/ reset[r].at = "erase" /\ Erase(r)
  /\ UNCHANGED <<power, switches, cache, dump, ghosts>>

Next ==
  \/ Switch
  \/ StoreRecord
  \/ \E d \in Dumps :
       \/ ReadRegisters(d) \/ Capture(d) \/ CaptureFails(d)
       \/ ReadChunk(d) \/ ReadChunkFails(d) \/ Format(d)
  \/ \E r \in Resets :
       \/ FirstLook(r) \/ Confirm(r) \/ CheckPower(r)
       \/ WriteCapture(r) \/ WriteErase(r) \/ WriteFails(r)

Spec == Init /\ [][Next]_vars

-----------------------------------------------------------------------------
(* A snapshot that read_snapshot returns is of the supply and page asked   *)
(* for, no part of it older than the caller's own capture, and all of it   *)
(* from that one capture unless another client has captured the same page  *)
(* since: the one disturbance the MCU cannot report.                       *)
SnapshotIsOwnCapture ==
  \A d \in Dumps : dump[d].at = "returned" =>
    \A i \in 1..NChunks :
      /\ dump[d].got[i].of = Page(d)
      /\ dump[d].got[i].id >= dump[d].mine
      /\ dump[d].got[i].id = dump[d].mine \/ d \in recaptured

(* A reset that ends with success has erased both pages of every supply it *)
(* was given, unless the board was on at some moment since the reset last  *)
(* looked at the power on that supply's behalf.                            *)
SuccessMeansErased ==
  \A r \in Resets : reset[r].at = "done" =>
    \A s \in PlanSupplies(reset[r].plan) \ onSince[r], p \in Pages : history[<<s, p>>] = "erased"

=============================================================================
