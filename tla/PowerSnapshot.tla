--------------------------- MODULE PowerSnapshot ---------------------------
(***************************************************************************)
(* MCU.read_power (device/mcu.py) against the firmware task that keeps the *)
(* Power page.                                                             *)
(*                                                                         *)
(* The task updates the page at several points of one pass of its control  *)
(* loop and brackets each pass with two increments of the 32-bit           *)
(* generation, odd meanwhile.  The client reads the generation, then the   *)
(* fields one transaction at a time, then the generation again, and starts *)
(* over when it was odd or has changed.  A field's content is the number   *)
(* of the pass that last wrote it.                                         *)
(***************************************************************************)
EXTENDS Naturals

CONSTANTS
  NFields,               \* transactions between the two generation reads: 10 in the code
  GenModulus,            \* the generation wraps here: 2^32
  Retries,               \* read_power's retries: 3 by default
  MaxPasses,             \* bound: passes of the control loop
  NoSnapshot             \* what no call has returned yet

ASSUME NFieldsAssumption == NFields \in Nat \ {0}
ASSUME GenModulusAssumption == GenModulus \in Nat \ {0} /\ GenModulus % 2 = 0
ASSUME RetriesAssumption == Retries \in Nat \ {0}
ASSUME MaxPassesAssumption == MaxPasses \in Nat

Fields == 1..NFields
Pages == [Fields -> 0..MaxPasses]

ASSUME NoSnapshotAssumption == NoSnapshot \notin Pages

VARIABLES
  \* The firmware
  generation,
  page,                  \* the fields as a transaction finds them now
  pass,                  \* "idle", or "updating" within a pass
  passes,                \* how many passes have begun
  published,             \* history: the page when the last pass ended
  \* The client
  call,                  \* where read_power stands, or how it ended
  attempt,               \* iteration of read_power's loop
  start,                 \* the generation that opened the attempt
  next,                  \* the field to read next
  snap,                  \* the fields read so far
  moved,                 \* history: increments of the generation since start was read
  disturbed              \* history: attempts a pass overlapped

firmwareVars == <<generation, page, pass, passes, published>>
vars == <<generation, page, pass, passes, published, call, attempt, start, next,
          snap, moved, disturbed>>

-----------------------------------------------------------------------------
Reading == {"first", "fields", "last"}
Ended == {"idle", "returned", "incoherent", "failed"}

Init ==
  /\ generation \in {g \in 0..(GenModulus - 1) : g % 2 = 0}
  /\ page = [f \in Fields |-> 0]
  /\ pass = "idle"
  /\ passes = 0
  /\ published = page
  /\ call = "idle"
  /\ attempt = 1
  /\ start = 0
  /\ next = 1
  /\ snap = [f \in Fields |-> 0]
  /\ moved = 0
  /\ disturbed = 0

-----------------------------------------------------------------------------
(* The firmware's control loop, as MCU_REGISTER_MAP.md describes it.       *)

\* Scheduling assumption: the generation does not come round to the same value
\* within one attempt.  A pass takes 25 ms and a transaction at most 5 s, so an
\* attempt sees some thousands of the 2^32 increments this would take.
Increment ==
  /\ generation' = IF generation + 1 = GenModulus THEN 0 ELSE generation + 1
  /\ IF call \in {"fields", "last"}
     THEN moved + 1 < GenModulus /\ moved' = moved + 1
     ELSE UNCHANGED moved

\* Mutant of BeginPass: the generation is left even while the fields change.
BeginPassQuietly ==
  /\ pass = "idle"
  /\ passes < MaxPasses
  /\ pass' = "updating"
  /\ passes' = passes + 1
  /\ UNCHANGED <<generation, moved, page, published, call, attempt, start, next, snap,
                 disturbed>>

BeginPass ==
  /\ pass = "idle"
  /\ passes < MaxPasses
  /\ pass' = "updating"
  /\ passes' = passes + 1
  /\ Increment
  /\ UNCHANGED <<page, published, call, attempt, start, next, snap, disturbed>>

UpdateField(f) ==
  /\ pass = "updating"
  /\ page' = [page EXCEPT ![f] = passes]
  /\ UNCHANGED <<generation, pass, passes, published, call, attempt, start, next,
                 snap, moved, disturbed>>

EndPass ==
  /\ pass = "updating"
  /\ pass' = "idle"
  /\ published' = page
  /\ Increment
  /\ UNCHANGED <<page, passes, call, attempt, start, next, snap, disturbed>>

-----------------------------------------------------------------------------
(* The client *)

Call ==
  /\ call \in Ended
  /\ call' = "first"
  /\ attempt' = 1
  /\ moved' = 0
  /\ disturbed' = 0
  /\ UNCHANGED <<firmwareVars, start, next, snap>>

\* Mutant of NextAttempt: one attempt too many.
NextAttemptInclusive ==
  IF attempt <= Retries
  THEN call' = "first" /\ attempt' = attempt + 1
  ELSE call' = "incoherent" /\ UNCHANGED attempt

\* The loop goes round, or its retries are used up: McuCoherencyError.
NextAttempt ==
  IF attempt < Retries
  THEN call' = "first" /\ attempt' = attempt + 1
  ELSE call' = "incoherent" /\ UNCHANGED attempt

\* Mutant of ReadGeneration: an odd generation opens an attempt too.
ReadAnyGeneration ==
  /\ call = "first"
  /\ start' = generation
  /\ next' = 1
  /\ moved' = 0
  /\ call' = "fields"
  /\ UNCHANGED <<firmwareVars, attempt, snap, disturbed>>

\* The generation before the fields.  Odd: the attempt is over.
ReadGeneration ==
  /\ call = "first"
  /\ start' = generation
  /\ next' = 1
  /\ moved' = 0
  /\ IF generation % 2 = 1
     THEN NextAttempt /\ disturbed' = disturbed + 1
     ELSE call' = "fields" /\ UNCHANGED <<attempt, disturbed>>
  /\ UNCHANGED <<firmwareVars, snap>>

\* One field, in one transaction.
ReadField ==
  /\ call = "fields"
  /\ snap' = [snap EXCEPT ![next] = page[next]]
  /\ next' = next + 1
  /\ call' = IF next = NFields THEN "last" ELSE "fields"
  /\ UNCHANGED <<firmwareVars, attempt, start, moved, disturbed>>

\* Mutant of ReadGenerationAgain: even is taken for unchanged.
ReadEvenGenerationAgain ==
  /\ call = "last"
  /\ IF generation % 2 = 0
     THEN call' = "returned" /\ UNCHANGED <<attempt, disturbed>>
     ELSE NextAttempt /\ disturbed' = disturbed + 1
  /\ UNCHANGED <<firmwareVars, start, next, snap, moved>>

\* Mutant of ReadGenerationAgain: the fields are read again, until the generation is the
\* one first read.
ReadFieldsAgain ==
  /\ call = "last"
  /\ IF generation = start
     THEN call' = "returned" /\ UNCHANGED next
     ELSE call' = "fields" /\ next' = 1
  /\ UNCHANGED <<firmwareVars, attempt, start, snap, moved, disturbed>>

\* Mutant of ReadGenerationAgain: the snapshot must be newer than the attempt.
ReadNewGenerationAgain ==
  /\ call = "last"
  /\ NextAttempt
  /\ disturbed' = IF moved > 0 THEN disturbed + 1 ELSE disturbed
  /\ UNCHANGED <<firmwareVars, start, next, snap, moved>>

\* The generation after the fields.  Unchanged: the snapshot is returned.
ReadGenerationAgain ==
  /\ call = "last"
  /\ IF generation = start
     THEN call' = "returned" /\ UNCHANGED <<attempt, disturbed>>
     ELSE /\ NextAttempt
          /\ disturbed' = IF moved > 0 THEN disturbed + 1 ELSE disturbed
  /\ UNCHANGED <<firmwareVars, start, next, snap, moved>>

\* A transaction raises, or a state byte has no name in the enumerations.
ReadFails ==
  /\ call \in Reading
  /\ call' = "failed"
  /\ UNCHANGED <<firmwareVars, attempt, start, next, snap, moved, disturbed>>

-----------------------------------------------------------------------------
Firmware == BeginPass \/ EndPass \/ \E f \in Fields : UpdateField(f)
ReadPower == ReadGeneration \/ ReadField \/ ReadGenerationAgain \/ ReadFails

Next == Firmware \/ Call \/ ReadPower

Spec == Init /\ [][Next]_vars

\* A call goes on: every transaction ends, with an answer or at its timeout.
FairSpec == Spec /\ WF_vars(ReadPower)

-----------------------------------------------------------------------------
(* Properties *)

TypeOK ==
  /\ generation \in 0..(GenModulus - 1)
  /\ page \in Pages
  /\ pass \in {"idle", "updating"}
  /\ passes \in 0..MaxPasses
  /\ published \in Pages
  /\ call \in Reading \cup Ended
  /\ attempt \in 1..Retries
  /\ start \in 0..(GenModulus - 1)
  /\ next \in 1..(NFields + 1)
  /\ snap \in Pages
  /\ moved \in 0..(GenModulus - 1)
  /\ disturbed \in 0..Retries

\* No torn snapshot: read_power returns exactly what the firmware has published at
\* the moment it returns, although it read the fields at different times.
NoTornSnapshot ==
  [][call # "returned" /\ call' = "returned" => snap = published /\ pass = "idle"]_vars

\* McuCoherencyError means what errors.py:56 says: "A generation-counted page changed
\* during every read attempt."
IncoherentOnlyIfDisturbed == call = "incoherent" => disturbed = Retries

\* read_power implements the atomic read of AtomicPower.
Atomic == INSTANCE AtomicPower WITH
            current <- published,
            reading <- call \in Reading,
            returned <- IF call = "returned" THEN snap ELSE NoSnapshot
AtomicSpec == Atomic!Spec

\* Every call of read_power ends, even if the page never settles.
ReadPowerEnds == call \in Reading ~> call \in Ended
=============================================================================
