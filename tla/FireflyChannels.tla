-------------------------- MODULE FireflyChannels --------------------------
(***************************************************************************)
(* device/firefly.py's per-channel settings, changed by cm-ff-cdr and      *)
(* cm-ff-rx-eq: several runs of the tools, in several processes, over the  *)
(* same optical modules.                                                   *)
(*                                                                         *)
(* A setting is packed: one byte of a module's registers holds several     *)
(* channels, and a setting may span several bytes.  A setter reads the     *)
(* bytes (the equaliser of an x12 in two transactions), changes the        *)
(* channels it was given and writes bytes back, one transaction each.      *)
(* Nothing keeps another client out between any two of them, any           *)
(* transaction can fail (a write done or not), and the user can interrupt  *)
(* a tool.                                                                 *)
(*                                                                         *)
(* Every transaction that succeeds is taken to have been executed: the     *)
(* line is in step (see ProgCom).  The tools' final read of a module, up   *)
(* to four transactions, is one step: what it prints is not kept.          *)
(***************************************************************************)
EXTENDS Integers, Sequences, FiniteSetsExt

CONSTANTS
  Clients,
  Slots,       \* the board's slots: a sequence of [loc, kind, family]
  Present,     \* the slots in the MCU's present mask
  User,        \* the slots in its user mask
  Requests,    \* the command lines tried
  MaxFaults    \* bound: transactions that fail

Fields == {"cdr", "amp", "pre"}
Kinds == {"Tx", "Rx", "4"}
Families == {"25g", "14g", "cernb"}

ASSUME SlotsAssumption ==
  /\ Slots \in Seq([loc : STRING, kind : Kinds, family : Families])
  /\ Present \subseteq DOMAIN Slots
  /\ User \subseteq DOMAIN Slots

\* The tools have one option for each field.
ASSUME RequestsAssumption ==
  /\ MaxFaults \in Nat
  /\ \A q \in Requests :
       /\ q.changes \in Seq([field : Fields, value : Int])
       /\ \A i, j \in DOMAIN q.changes : q.changes[i].field = q.changes[j].field => i = j

-----------------------------------------------------------------------------
(* The packed fields.  A cell is a channel's part of a field: a bit of     *)
(* "cdr", a nibble of "amp" (output amplitude) or "pre" (pre-emphasis).    *)

\* The bytes of each setting, in address order, by their cells <<slot, field, side,
\* channel>>.  The high nibble of an x12's first CDR byte is reserved: "channels" 13 to 16.
CdrBytes12(n) ==
  LET bits(channels) == {<<n, "cdr", Slots[n].kind, ch>> : ch \in channels}
  IN  << bits(9..16), bits(1..8) >>

EqualizerBytesRx(n, f) ==
  [i \in 1..6 |-> {<<n, f, "Rx", 13 - 2 * i>>, <<n, f, "Rx", 14 - 2 * i>>}]

CdrByte4(n) == << {<<n, "cdr", side, ch>> : side \in {"tx", "rx"}, ch \in 1..4} >>

EqualizerBytes4(n, f) == << {<<n, f, "rx", ch>> : ch \in 1..2}, {<<n, f, "rx", ch>> : ch \in 3..4} >>

Layouts ==
  [n \in DOMAIN Slots |-> [f \in Fields |->
     CASE Slots[n].kind = "4"  -> IF f = "cdr" THEN CdrByte4(n) ELSE EqualizerBytes4(n, f)
       [] Slots[n].kind = "Rx" -> IF f = "cdr" THEN CdrBytes12(n) ELSE EqualizerBytesRx(n, f)
       [] Slots[n].kind = "Tx" -> IF f = "cdr" THEN CdrBytes12(n) ELSE << >>]]

Layout(n, f) == Layouts[n][f]

\* read_block: at most four bytes a transaction.
Chunks(n, f) == (Len(Layout(n, f)) + 3) \div 4
ChunkBytes(n, f, k) == {b \in DOMAIN Layout(n, f) : (b + 3) \div 4 = k}

CellsOf(n, f) == UNION {Layout(n, f)[b] : b \in DOMAIN Layout(n, f)}
Cells == UNION {CellsOf(n, f) : n \in DOMAIN Slots, f \in Fields}

\* The values a nibble code may have; a CDR bit is 0 or 1.
Codes(n, f) ==
  CASE f = "cdr" -> 0..1
    [] f = "amp" -> IF Slots[n].kind = "4" THEN 0..3 ELSE 0..15
    [] f = "pre" -> IF Slots[n].kind = "4" THEN 0..7 ELSE 0..15

-----------------------------------------------------------------------------
(* The command lines.  A request is                                        *)
(*   [tool, wanted, sides, channels, changes, force]                       *)
(* with the locations, the sides, the channels ({} for all) and the        *)
(* sequence of fields to change, each with its new value.                  *)

MaxChannel(n) == IF Slots[n].kind = "4" THEN 4 ELSE 12
ChannelsOf(q, n) == IF q.channels = {} THEN 1..MaxChannel(n) ELSE q.channels

\* _validate_channels and the setters' checks of the value, before any transaction.
Accepts(q, n, f, v) == ChannelsOf(q, n) \subseteq 1..MaxChannel(n) /\ v \in Codes(n, f)

\* The cells a request sets in a field of a module.
Asked(q, n, f) ==
  {x \in CellsOf(n, f) :
     /\ x[4] \in ChannelsOf(q, n)
     /\ f = "cdr" /\ Slots[n].kind = "4" => x[3] \in q.sides}

\* Mutant of Handled: the user mask is not looked at.
HandledIfPresent(q, n) ==
  /\ n \in Present
  /\ Slots[n].loc \in q.wanted
  /\ Slots[n].kind # "Tx"

\* find_modules and the tools' choice of sides: x4 modules are always handled.
Handled(q, n) ==
  /\ n \in Present \cap User
  /\ Slots[n].loc \in q.wanted
  /\ \/ Slots[n].kind = "4"
     \/ q.tool = "eq" /\ Slots[n].kind = "Rx"
     \/ q.tool = "cdr" /\ (IF Slots[n].kind = "Tx" THEN "tx" ELSE "rx") \in q.sides

SlotsFor(q) == {n \in DOMAIN Slots : Handled(q, n)}

\* An x12's part number is read first, and only a 25G part has these registers.
HasControl(n) == Slots[n].kind = "4" \/ Slots[n].family = "25g"

-----------------------------------------------------------------------------
VARIABLES
  reg,        \* the value of every cell, in the modules
  pc,         \* where each client's tool stands
  request,    \* its command line
  queue,      \* the slots it has yet to handle; the lowest is being handled
  step,       \* the change of the request it is making
  chunk,      \* the transaction of the read
  raw,        \* what it has read of the field
  todo,       \* the bytes it has yet to write, from the lowest address up
  failed,     \* "yes" once a module failed
  touched,    \* history: the cells other clients changed since it last read them
  faults      \* the transactions that have failed

vars == <<reg, pc, request, queue, step, chunk, raw, todo, failed, touched, faults>>
local == <<request, queue, step, chunk, raw, todo, failed>>

Values == 0..15
NoCells == << >>                       \* the empty function
Places == {"idle", "find", "part", "set", "read", "write", "back", "done", "error"}

TypeOK ==
  /\ reg \in [Cells -> Values]
  /\ pc \in [Clients -> Places]
  /\ request \in [Clients -> Requests]
  /\ \A c \in Clients :
       /\ queue[c] \subseteq Present \cap User
       /\ (pc[c] \in {"part", "set", "read", "write", "back"}) => queue[c] # {}
       /\ step[c] \in 1..(Len(request[c].changes) + 1)
       /\ chunk[c] \in 1..2
       /\ DOMAIN raw[c] \subseteq Cells /\ \A x \in DOMAIN raw[c] : raw[c][x] \in Values
       /\ todo[c] \subseteq 1..6
  /\ failed \in [Clients -> {"yes", "no"}]
  /\ touched \in [Clients -> SUBSET Cells]
  /\ faults \in 0..MaxFaults

Init ==
  /\ reg = [x \in Cells |-> IF x[2] = "cdr" THEN 1 ELSE 2]
  /\ pc = [c \in Clients |-> "idle"]
  /\ request \in [Clients -> Requests]
  /\ queue = [c \in Clients |-> {}]
  /\ step = [c \in Clients |-> 1]
  /\ chunk = [c \in Clients |-> 1]
  /\ raw = [c \in Clients |-> NoCells]
  /\ todo = [c \in Clients |-> {}]
  /\ failed = [c \in Clients |-> "no"]
  /\ touched = [c \in Clients |-> {}]
  /\ faults = 0

\* The module being handled, and the change being made to it.
Slot(c) == Min(queue[c])
Others(c) == queue[c] \ {Slot(c)}
Change(c) == request[c].changes[step[c]]
Field(c) == Change(c).field

\* The loop over modules: on with the ones in q, or the exit status.
Proceed(c, q, f) ==
  /\ queue' = [queue EXCEPT ![c] = q]
  /\ failed' = [failed EXCEPT ![c] = f]
  /\ step' = [step EXCEPT ![c] = 1]
  /\ chunk' = [chunk EXCEPT ![c] = 1]
  /\ raw' = [raw EXCEPT ![c] = NoCells]
  /\ todo' = [todo EXCEPT ![c] = {}]
  /\ pc' = [pc EXCEPT ![c] =
       CASE q = {} /\ f = "no"                   -> "done"
         [] q = {} /\ f = "yes"                  -> "error"
         [] q # {} /\ Slots[Min(q)].kind = "4"  -> "set"
         [] q # {} /\ Slots[Min(q)].kind # "4"  -> "part"]
  /\ UNCHANGED request

\* Mutant of FailModule: the loop forgets the failure.
FailModuleSilently(c) == Proceed(c, Others(c), failed[c])

FailModule(c) == Proceed(c, Others(c), "yes")

-----------------------------------------------------------------------------
(* A run of a tool.                                                        *)

\* power_is_on: an unknown state lets the tool run, as --force does.
PowerIsOn(state, force) == state \in {"POWER_ON", "unknown"} \/ force = "yes"

Start(c) ==
  /\ pc[c] = "idle"
  /\ \E state \in {"POWER_ON", "POWER_OFF", "unknown"} :
       pc' = [pc EXCEPT ![c] =
                IF PowerIsOn(state, request[c].force) THEN "find" ELSE "error"]
  /\ UNCHANGED <<reg, local, touched, faults>>

FindModules(c) ==
  /\ pc[c] = "find"
  /\ Proceed(c, SlotsFor(request[c]), "no")
  /\ UNCHANGED <<reg, touched, faults>>

\* system_info fails, or has no masks or no slot table to go with them.
FindNothing(c) ==
  /\ pc[c] = "find"
  /\ pc' = [pc EXCEPT ![c] = "error"]
  /\ UNCHANGED <<reg, local, touched, faults>>

\* The part number decides whether an x12 is skipped.
ReadPart(c) ==
  /\ pc[c] = "part"
  /\ IF HasControl(Slot(c))
     THEN pc' = [pc EXCEPT ![c] = "set"] /\ UNCHANGED local
     ELSE Proceed(c, Others(c), failed[c])
  /\ UNCHANGED <<reg, touched, faults>>

\* handle: the changes one after another, then the final read.
BeginChange(c) ==
  /\ pc[c] = "set"
  /\ IF step[c] > Len(request[c].changes)
     THEN pc' = [pc EXCEPT ![c] = "back"] /\ UNCHANGED local
     ELSE IF Accepts(request[c], Slot(c), Field(c), Change(c).value)
     THEN pc' = [pc EXCEPT ![c] = "read"] /\ UNCHANGED local
     ELSE FailModule(c)
  /\ UNCHANGED <<reg, touched, faults>>

-----------------------------------------------------------------------------
(* The setters: _set_cdr_12ch, Firefly4._set_cdr and _write_nibbles.       *)

ChunkCells(c) == UNION {Layout(Slot(c), Field(c))[b] :
                          b \in ChunkBytes(Slot(c), Field(c), chunk[c])}

\* Mutant of NewCell: the reserved bits are written as zero.
NewCellZero(c, old, x) ==
  IF x \in Asked(request[c], Slot(c), Field(c)) THEN Change(c).value
  ELSE IF x[4] > 12 THEN 0 ELSE old[x]

\* What a setter makes of a cell it has read.
NewCell(c, old, x) ==
  IF x \in Asked(request[c], Slot(c), Field(c)) THEN Change(c).value ELSE old[x]

\* A CDR setter writes all the bytes back, an equaliser setter those that change.
BytesToWrite(c, old) ==
  LET layout == Layout(Slot(c), Field(c))
  IN {b \in DOMAIN layout : \/ Field(c) = "cdr"
                             \/ \E x \in layout[b] : NewCell(c, old, x) # old[x]}

\* Once nothing is left to write, the next change.
Written(c, bytes) ==
  /\ todo' = [todo EXCEPT ![c] = bytes]
  /\ IF bytes = {}
     THEN /\ pc' = [pc EXCEPT ![c] = "set"]
          /\ step' = [step EXCEPT ![c] = @ + 1]
          /\ chunk' = [chunk EXCEPT ![c] = 1]
          /\ raw' = [raw EXCEPT ![c] = NoCells]
     ELSE /\ pc' = [pc EXCEPT ![c] = "write"]
          /\ UNCHANGED <<step, chunk>>

ReadChunk(c) ==
  LET new == [x \in ChunkCells(c) \cup DOMAIN raw[c] |->
                IF x \in ChunkCells(c) THEN reg[x] ELSE raw[c][x]]
  IN
  /\ pc[c] = "read"
  /\ touched' = [touched EXCEPT ![c] = @ \ ChunkCells(c)]
  /\ IF chunk[c] < Chunks(Slot(c), Field(c))
     THEN /\ chunk' = [chunk EXCEPT ![c] = @ + 1]
          /\ raw' = [raw EXCEPT ![c] = new]
          /\ UNCHANGED <<pc, step, todo>>
     ELSE /\ Written(c, BytesToWrite(c, new))
          /\ BytesToWrite(c, new) # {} => raw' = [raw EXCEPT ![c] = new]
  /\ UNCHANGED <<reg, request, queue, failed, faults>>

\* The module executes the write of one byte.
Execute(c, b) ==
  LET byte == Layout(Slot(c), Field(c))[b]
  IN
  /\ reg' = [x \in Cells |-> IF x \in byte THEN NewCell(c, raw[c], x) ELSE reg[x]]
  /\ touched' = [d \in Clients |->
       IF d = c \/ pc[d] \in {"idle", "error"} THEN touched[d]
       ELSE touched[d] \cup {x \in byte : reg'[x] # reg[x]}]

WriteByte(c) ==
  /\ pc[c] = "write"
  /\ Execute(c, Min(todo[c]))
  /\ Written(c, todo[c] \ {Min(todo[c])})
  /\ todo[c] # {Min(todo[c])} => UNCHANGED raw
  /\ UNCHANGED <<request, queue, failed, faults>>

\* Ends with what was read back printed.
ReadBack(c) ==
  /\ pc[c] = "back"
  /\ Proceed(c, Others(c), failed[c])
  /\ UNCHANGED <<reg, touched, faults>>

\* A transaction fails, and with it the module; a write may have been done.
Fault(c) ==
  /\ pc[c] \in {"part", "read", "write", "back"}
  /\ faults < MaxFaults
  /\ faults' = faults + 1
  /\ FailModule(c)
  /\ \/ UNCHANGED <<reg, touched>>
     \/ pc[c] = "write" /\ Execute(c, Min(todo[c]))

\* Ctrl-C between two transactions: no exit status of the tool's own.
Interrupt(c) ==
  /\ pc[c] \notin {"idle", "done", "error"}
  /\ Proceed(c, {}, "yes")
  /\ UNCHANGED <<reg, touched, faults>>

Next == \E c \in Clients :
  \/ Start(c)
  \/ FindModules(c)
  \/ FindNothing(c)
  \/ ReadPart(c)
  \/ BeginChange(c)
  \/ ReadChunk(c)
  \/ WriteByte(c)
  \/ ReadBack(c)
  \/ Fault(c)
  \/ Interrupt(c)

Spec == Init /\ [][Next]_vars

-----------------------------------------------------------------------------
(* A write of a client changes the channels it was asked to change, and    *)
(* others (the reserved bits included) only where another client changed   *)
(* them since it read them: it loses that client's change then, and        *)
(* nothing else, whatever fails and wherever it is interrupted.            *)
OnlyAskedOrLost ==
  [][\A x \in Cells : reg'[x] # reg[x] =>
       \E c \in Clients :
         /\ pc[c] = "write"
         /\ \/ x \in Asked(request[c], Slot(c), Field(c))
            \/ x \in touched[c]]_vars

(* A tool that ends with status 0 has handled every module it was to       *)
(* handle: each channel asked for has the value asked for, unless another  *)
(* client changed that channel since the tool read it.                     *)
SuccessMeansSet ==
  \A c \in Clients : pc[c] = "done" =>
    \A n \in {m \in DOMAIN Slots : Handled(request[c], m) /\ HasControl(m)} :
      \A i \in DOMAIN request[c].changes :
        LET change == request[c].changes[i]
        IN \A x \in Asked(request[c], n, change.field) :
             reg[x] = change.value \/ x \in touched[c]

=============================================================================
