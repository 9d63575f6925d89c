----------------------------- MODULE PowerPoll -----------------------------
(***************************************************************************)
(* cm-wait-cm-power-on: MCU.read_power called again and again over the     *)
(* line of ProgCom until the board is on.                                  *)
(*                                                                         *)
(* ProgCom shows that a reply that comes after its call gave up answers    *)
(* the next call, and that this lag stays.  Here the calls are those of    *)
(* read_power, in their order and with their sizes: a reply passes for the *)
(* answer to any read of its own size.  The line is reduced to the replies *)
(* that are owed, oldest first; the MCU reads a register at some moment    *)
(* between the command and the reply.  PowerSnapshot has the control loop  *)
(* in full; here a pass is two steps of its generation, and may switch the *)
(* board on or off.                                                        *)
(***************************************************************************)
EXTENDS Naturals, Sequences, SequencesExt

CONSTANTS
  Retries,               \* read_power's retries: 3 by default
  On,                    \* the generations between passes at which the board is on
  MaxGeneration,         \* bound: the last generation
  MaxLate,               \* bound: replies that arrive after their call gave up
  MaxLost                \* bound: commands or replies that are lost

Generations == 0..MaxGeneration

\* The firmware's pass makes the generation odd, publishes, and makes it even again.
InPass(g) == g % 2 = 1

ASSUME RetriesAssumption == Retries \in Nat \ {0}
ASSUME BoundsAssumption == MaxLate \in Nat /\ MaxLost \in Nat /\ MaxGeneration \in Nat
ASSUME OnAssumption == On \subseteq {g \in Generations : ~InPass(g)}

VARIABLES
  generation,            \* of the Power page: which pass has published, or is publishing
  owed,                  \* replies not yet read, with the generation when they were asked for
  seen,                  \* the generation at which the last reply read was made
  phase,                 \* "waiting" within a transaction
  poll,                  \* "reading" within read_power, or is_cm_power_on's verdict
  at,                    \* the read in progress or to come, an index of Script
  capabilities,          \* MCU._capabilities: "none" before the first read
  attempt,               \* iteration of read_power's loop
  start,                 \* the generation that opened the attempt
  on,                    \* whether the FSM state read is POWER_ON
  astray,                \* history: fields of the attempt read from another register
  gap,                   \* history: a reply was lost during the poll while others were late
  since,                 \* history: the generation when the last poll began
  ended,                 \* "waiting", or how the wait ended
  late, lost             \* how many replies were late, and lost

pollVars == <<at, capabilities, attempt, start, on, astray>>
vars == <<generation, owed, seen, phase, poll, pollVars, gap, since, ended, late, lost>>

-----------------------------------------------------------------------------
\* Mutant of Script: the single bytes are read with the reserved bytes beside them.
ScriptOfWords ==
  [i \in 1..13 |->
     [reg |-> <<"CAPABILITIES", "GENERATION", "FSM_STATE", "FLAGS", "LIVE_PG_MASK",
                "EXPECTED_PG_MASK", "SOFTWARE_IGNORE_MASK", "FAILED_MASK", "SUPPLY_COUNT",
                "SUPPLY_STATE_0", "SUPPLY_STATE_4", "SUPPLY_STATE_8", "GENERATION">>[i],
      size |-> 4]]

\* The reads of read_power, the capabilities among them until they are cached.
Script ==
  <<[reg |-> "CAPABILITIES", size |-> 4],
    [reg |-> "GENERATION", size |-> 4],
    [reg |-> "FSM_STATE", size |-> 1],
    [reg |-> "FLAGS", size |-> 1],
    [reg |-> "LIVE_PG_MASK", size |-> 4],
    [reg |-> "EXPECTED_PG_MASK", size |-> 4],
    [reg |-> "SOFTWARE_IGNORE_MASK", size |-> 4],
    [reg |-> "FAILED_MASK", size |-> 4],
    [reg |-> "SUPPLY_COUNT", size |-> 1],
    [reg |-> "SUPPLY_STATE_0", size |-> 4],
    [reg |-> "SUPPLY_STATE_4", size |-> 4],
    [reg |-> "SUPPLY_STATE_8", size |-> 4],
    [reg |-> "GENERATION", size |-> 4]>>

Opening == 2                   \* the read that opens an attempt
Closing == Len(Script)         \* the read that closes it
Registers == {Script[i].reg : i \in 1..Len(Script)}
SupplyStates == {"SUPPLY_STATE_0", "SUPPLY_STATE_4", "SUPPLY_STATE_8"}

\* A reply to a call of a process that has ended, of either form.
Foreign == {[reg |-> "OTHER", size |-> s] : s \in {1, 4}}
Reads == {Script[i] : i \in 1..Len(Script)} \cup Foreign

Init ==
  /\ generation = 0
  /\ \/ owed = << >> /\ late = 0
     \/ MaxLate > 0 /\ late = 1 /\ \E r \in Foreign : owed = <<[read |-> r, sent |-> 0]>>
  /\ seen = 0
  /\ phase = "idle"
  /\ poll = "none"
  /\ at = 1
  /\ capabilities = "none"
  /\ attempt = 1
  /\ start = 0
  /\ on = "no"
  /\ astray = {}
  /\ gap = "no"
  /\ since = 0
  /\ ended = "waiting"
  /\ lost = 0

-----------------------------------------------------------------------------
\* The firmware's pass begins, or ends: what it leaves the board in is On's to say.
HalfPass ==
  /\ generation < MaxGeneration
  /\ generation' = generation + 1
  /\ UNCHANGED <<owed, seen, phase, poll, pollVars, gap, since, ended, late, lost>>

\* How many replies are owed beside the one that a call waits for.
Lag == Len(owed) - (IF phase = "waiting" THEN 1 ELSE 0)

\* Some reply is lost, or the command that should have caused it.
Lose(i) ==
  /\ lost < MaxLost
  /\ owed' = RemoveAt(owed, i)
  /\ lost' = lost + 1
  /\ gap' = IF poll = "reading" /\ Lag > 0 THEN "yes" ELSE gap
  /\ UNCHANGED <<generation, seen, phase, poll, pollVars, since, ended, late>>

-----------------------------------------------------------------------------
(* is_cm_power_on.check, once round the loop of wait.                      *)

\* read_power begins.  A cached mask without POWER raises with nothing sent.
Poll ==
  /\ ended = "waiting"
  /\ poll # "reading"
  /\ IF capabilities = "without POWER"
     THEN poll' = "unknown" /\ UNCHANGED <<at, attempt, astray, gap, since>>
     ELSE /\ poll' = "reading"
          /\ at' = IF capabilities = "none" THEN 1 ELSE Opening
          /\ attempt' = 1
          /\ astray' = {}
          /\ gap' = "no"
          /\ since' = generation
  /\ UNCHANGED <<generation, owed, seen, phase, capabilities, start, on, ended, late, lost>>

\* The deadline has passed after a poll that was not YES.
GiveUp ==
  /\ ended = "waiting"
  /\ poll \in {"no", "unknown"}
  /\ ended' = "timed out"
  /\ UNCHANGED <<generation, owed, seen, phase, poll, pollVars, gap, since, late, lost>>

-----------------------------------------------------------------------------
(* The transactions of read_power.                                         *)

Ask ==
  /\ poll = "reading"
  /\ phase = "idle"
  /\ phase' = "waiting"
  /\ owed' = Append(owed, [read |-> Script[at], sent |-> generation])
  /\ UNCHANGED <<generation, seen, poll, pollVars, gap, since, ended, late, lost>>

\* Mutant of Raises: an error while waiting is fatal.
RaisesFatally ==
  /\ poll' = "unknown"
  /\ ended' = "failed"

\* An exception is a verdict of its own, UNKNOWN, and the wait goes on.
Raises ==
  /\ poll' = "unknown"
  /\ UNCHANGED ended

\* No line within UART.timeout, or pySerial raises: an exception like any other here.
\* A reply that is still owed will be late.
Timeout ==
  /\ phase = "waiting"
  /\ owed # << >> => late < MaxLate
  /\ late' = IF owed = << >> THEN late ELSE late + 1
  /\ phase' = "idle"
  /\ Raises
  /\ UNCHANGED <<generation, owed, seen, pollVars, gap, since, lost>>

GoOn == at' = at + 1 /\ UNCHANGED <<poll, ended>>

\* Mutant of NextAttempt: the attempt goes on whatever the generation.
NextAttemptNever ==
  /\ GoOn
  /\ UNCHANGED attempt

NextAttempt ==
  IF attempt < Retries
  THEN attempt' = attempt + 1 /\ at' = Opening /\ UNCHANGED <<poll, ended>>
  ELSE UNCHANGED <<attempt, at>> /\ Raises

\* The capabilities are cached, whatever register they came from.
TakeCapabilities(own) ==
  /\ \/ capabilities' = "with POWER" /\ GoOn
     \/ ~own /\ capabilities' = "without POWER" /\ UNCHANGED at /\ Raises
  /\ UNCHANGED <<attempt, start, on, astray>>

\* The generation that opens an attempt: odd, and the loop goes round.
TakeGeneration(own, value) ==
  /\ start' = value
  /\ astray' = IF own THEN {} ELSE {"GENERATION"}
  /\ \/ (own => InPass(value)) /\ NextAttempt
     \/ (own => ~InPass(value)) /\ GoOn /\ UNCHANGED attempt
  /\ UNCHANGED <<capabilities, on>>

\* A field.  Within a pass the state may be the old or the new one; another register's
\* byte may or may not name a state.
TakeField(own, value) ==
  /\ astray' = IF own THEN astray ELSE astray \cup {Script[at].reg}
  /\ IF Script[at].reg = "FSM_STATE"
     THEN on' \in {answer \in {"yes", "no"} :
                    own /\ ~InPass(value) => (answer = "yes" <=> value \in On)}
     ELSE UNCHANGED on
  /\ \/ GoOn
     \/ /\ \/ Script[at].reg = "FSM_STATE" /\ ~own
           \/ Script[at].reg = "SUPPLY_STATE_8" /\ astray' \cap SupplyStates # {}
        /\ UNCHANGED at
        /\ Raises
  /\ UNCHANGED <<capabilities, attempt, start>>

\* Mutant of TakeGenerationAgain: the generation is not compared.
TakeGenerationAgainUnchecked(own, value) ==
  /\ poll' = on
  /\ ended' = IF on = "yes" THEN "yes" ELSE ended
  /\ astray' = IF own THEN astray ELSE astray \cup {"GENERATION"}
  /\ UNCHANGED <<at, attempt, capabilities, start, on>>

\* The generation that closes an attempt: unchanged, and the snapshot is returned.
TakeGenerationAgain(own, value) ==
  LET same == own /\ "GENERATION" \notin astray IN
  /\ \/ /\ same => value = start
        /\ poll' = on
        /\ ended' = IF on = "yes" THEN "yes" ELSE ended
        /\ UNCHANGED <<at, attempt>>
     \/ (same => value # start) /\ NextAttempt
  /\ astray' = IF own THEN astray ELSE astray \cup {"GENERATION"}
  /\ UNCHANGED <<capabilities, start, on>>

Take(own, value) ==
  CASE at = 1     -> TakeCapabilities(own)
    [] at = Opening -> TakeGeneration(own, value)
    [] at = Closing  -> TakeGenerationAgain(own, value)
    [] OTHER      -> TakeField(own, value)

\* The oldest reply is read.  It counts as the answer if it has the size asked for.
Receive ==
  /\ phase = "waiting"
  /\ owed # << >>
  /\ phase' = "idle"
  /\ owed' = Tail(owed)
  /\ seen' \in {v \in 0..generation : v >= seen /\ v >= Head(owed).sent}
  /\ IF Head(owed).read.size = Script[at].size
     THEN Take(Head(owed).read.reg = Script[at].reg, seen')
     ELSE Raises /\ UNCHANGED pollVars
  /\ UNCHANGED <<generation, gap, since, late, lost>>

-----------------------------------------------------------------------------
Client == Poll \/ Ask \/ Receive \/ Timeout

Next ==
  \/ HalfPass
  \/ \E i \in 1..Len(owed) : Lose(i)
  \/ Client
  \/ GiveUp

Spec == Init /\ [][Next]_vars

\* wait polls as long as its deadline allows, and every transaction ends.
FairSpec == Spec /\ WF_vars(Client)

-----------------------------------------------------------------------------
(* Properties *)

TypeOK ==
  /\ generation \in Generations
  /\ owed \in Seq([read : Reads, sent : Generations])
  /\ Len(owed) <= MaxLate + 1
  /\ seen \in Generations
  /\ phase \in {"idle", "waiting"}
  /\ poll \in {"none", "reading", "yes", "no", "unknown"}
  /\ at \in 1..Len(Script)
  /\ capabilities \in {"none", "with POWER", "without POWER"}
  /\ attempt \in 1..Retries
  /\ start \in Generations
  /\ on \in {"yes", "no"}
  /\ astray \subseteq Registers
  /\ gap \in {"yes", "no"}
  /\ since \in Generations
  /\ ended \in {"waiting", "yes", "timed out"}
  /\ late \in 0..MaxLate
  /\ lost \in 0..MaxLost

\* However many replies are unread, within the bound, a snapshot is returned only when
\* the line is in step: the sizes of read_power's reads are such that its fields cannot
\* all be taken from other calls.  (If a reply is lost while others are late they can.)
SnapshotMeansInStep ==
  poll \in {"yes", "no"} /\ gap = "no" => owed = << >> /\ astray = {}

\* The board was on at some moment since the poll began.
WasOn == \E g \in since..generation : g \in On

\* A board that goes off again, or that was on before, is not taken for one that is on:
\* the wait says yes only if the board was on within its last poll, however late or lost
\* its replies.  The exception is a poll that lost a reply while others were late, and
\* took a generation or the state from another register, whose value happens to fit.
Judged == {"GENERATION", "FSM_STATE"}
YesMeansOn == ended = "yes" /\ (gap = "no" \/ astray \cap Judged = {}) => WasOn

\* What is lost is retried: while no reply is late, a wait for a board that comes on, and
\* stays on, ends, if its deadline lets it, whatever else fails.
LossIsRetried ==
  [](late = 0) /\ <>[](generation \in On) => <>(ended \in {"yes", "timed out"})

\* "Read errors while waiting (e.g. the MCU busy during power-up) are retried, not
\* fatal." (tools/wait_cm_power_on.py:4)  So once the board stays on, the wait ends.
ErrorsAreRetried == <>[](generation \in On) => <>(ended # "waiting")
=============================================================================
