----------------------------- MODULE PairReads -----------------------------
(***************************************************************************)
(* Two registers read as a pair, one transaction each (device/mcu.py):     *)
(* MCU._read_firefly_masks and the RTC in MCU.read_runtime.                *)
(*                                                                         *)
(* The firmware keeps no generation for these pages.  The client reads a   *)
(* and b, then again a (the RTC) or a and b (the masks), and starts over   *)
(* when a value has changed.  A register may have changed and changed      *)
(* back between its two reads.  The module says what the pair that is      *)
(* returned is worth.  Of the contents only equality matters.  A name that *)
(* PowerSnapshot has too begins with pair, for CoherentReadsProofs.        *)
(***************************************************************************)
EXTENDS Naturals, Sequences

CONSTANTS
  Values,                \* contents of a register
  PairRetries,           \* the retries argument: 3 by default
  MaxChanges             \* bound: changes of the registers in all

ASSUME PairRetriesAssumption == PairRetries \in Nat
ASSUME MaxChangesAssumption == MaxChanges \in Nat

VARIABLES
  scheme,                \* which of the two functions is called: "masks" or "rtc"
  reg,                   \* the registers
  made,                  \* how many changes there have been
  pairCall,              \* where the call stands, or how it ended
  pairAttempt,           \* iteration of its loop
  got,                   \* what the attempt has read
  held,                  \* history: the pairs there have been since its first read
  changes,               \* history: how often each has changed since then
  pairDisturbed          \* history: attempts within which a register changed

registerVars == <<reg, made>>
pairVars == <<scheme, reg, made, pairCall, pairAttempt, got, held, changes, pairDisturbed>>

-----------------------------------------------------------------------------
\* a is FF_USER_MASK or RTC_TIME, b is FF_PRESENT_MASK or RTC_DATE.
Registers == {"a", "b"}
Pairs == [Registers -> Values]

Script == IF scheme = "masks" THEN <<"a", "b", "a", "b">> ELSE <<"a", "b", "a">>

\* retries is taken for 1 when it is less.
Attempts == IF PairRetries > 1 THEN PairRetries ELSE 1

\* The pair that is returned: the first two reads.
Pair == [a |-> got[1], b |-> got[2]]

\* Mutant of Agree: the third read is not compared with the first.
AgreeFromFourth(values) == \A i \in 4..Len(values) : values[i] = values[i - 2]

\* What is read again is as it was.
Agree(values) == \A i \in 3..Len(values) : values[i] = values[i - 2]

PairInit ==
  /\ scheme \in {"masks", "rtc"}
  /\ reg \in Pairs
  /\ made = 0
  /\ pairCall = "idle"
  /\ pairAttempt = 1
  /\ got = << >>
  /\ held = {}
  /\ changes = [r \in Registers |-> 0]
  /\ pairDisturbed = 0

-----------------------------------------------------------------------------
\* The firmware or the CLI: a module is plugged or enabled, the clock ticks or is set
\* (time, then date).
Change(r, v) ==
  /\ made < MaxChanges
  /\ v # reg[r]
  /\ reg' = [reg EXCEPT ![r] = v]
  /\ made' = made + 1
  /\ IF pairCall = "reading"
     THEN /\ held' = held \cup {reg'}
          /\ changes' = [changes EXCEPT ![r] = @ + 1]
     ELSE UNCHANGED <<held, changes>>
  /\ UNCHANGED <<scheme, pairCall, pairAttempt, got, pairDisturbed>>

CallPair ==
  /\ pairCall # "reading"
  /\ pairCall' = "reading"
  /\ pairAttempt' = 1
  /\ got' = << >>
  /\ held' = {reg}
  /\ changes' = [r \in Registers |-> 0]
  /\ pairDisturbed' = 0
  /\ UNCHANGED <<scheme, registerVars>>

\* A transaction of an attempt, but its last.  The first one opens the attempt.
ReadNext ==
  /\ pairCall = "reading"
  /\ Len(got) + 1 < Len(Script)
  /\ got' = Append(got, reg[Script[Len(got) + 1]])
  /\ IF got = << >>
     THEN held' = {reg} /\ changes' = [r \in Registers |-> 0]
     ELSE UNCHANGED <<held, changes>>
  /\ UNCHANGED <<scheme, registerVars, pairCall, pairAttempt, pairDisturbed>>

\* Mutant of NextPairAttempt: one attempt too many.
NextPairAttemptInclusive ==
  /\ got' = << >>
  /\ IF pairAttempt <= Attempts
     THEN pairCall' = "reading" /\ pairAttempt' = pairAttempt + 1
     ELSE pairCall' = "incoherent" /\ UNCHANGED pairAttempt

\* Mutant of NextPairAttempt: the first disagreement is the last.
NextPairAttemptNever ==
  /\ got' = << >>
  /\ pairCall' = "incoherent"
  /\ UNCHANGED pairAttempt

\* The loop goes round, or its retries are used up: McuCoherencyError.
NextPairAttempt ==
  /\ got' = << >>
  /\ IF pairAttempt < Attempts
     THEN pairCall' = "reading" /\ pairAttempt' = pairAttempt + 1
     ELSE pairCall' = "incoherent" /\ UNCHANGED pairAttempt

\* Mutant of ReadLast: the first two values are kept and read again until they are back.
ReadLastKeeps ==
  LET values == Append(got, reg[Script[Len(got) + 1]]) IN
  /\ pairCall = "reading"
  /\ Len(got) + 1 = Len(Script)
  /\ IF Agree(values)
     THEN got' = values /\ pairCall' = "returned"
     ELSE got' = SubSeq(got, 1, 2) /\ UNCHANGED pairCall
  /\ UNCHANGED <<scheme, registerVars, pairAttempt, held, changes, pairDisturbed>>

\* The last transaction, and the comparison.
ReadLast ==
  LET values == Append(got, reg[Script[Len(got) + 1]]) IN
  /\ pairCall = "reading"
  /\ Len(got) + 1 = Len(Script)
  /\ IF Agree(values)
     THEN /\ got' = values
          /\ pairCall' = "returned"
          /\ UNCHANGED <<pairAttempt, pairDisturbed>>
     ELSE /\ NextPairAttempt
          /\ pairDisturbed' = IF \E r \in Registers : changes[r] > 0
                              THEN pairDisturbed + 1 ELSE pairDisturbed
  /\ UNCHANGED <<scheme, registerVars, held, changes>>

\* A transaction raises.
PairReadFails ==
  /\ pairCall = "reading"
  /\ pairCall' = "failed"
  /\ UNCHANGED <<scheme, registerVars, pairAttempt, got, held, changes, pairDisturbed>>

-----------------------------------------------------------------------------
Client == ReadNext \/ ReadLast \/ PairReadFails

PairNext ==
  \/ \E r \in Registers, v \in Values : Change(r, v)
  \/ CallPair
  \/ Client

PairSpec == PairInit /\ [][PairNext]_pairVars

\* A call goes on: every transaction ends, with an answer or at its timeout.
PairFairSpec == PairSpec /\ WF_pairVars(Client)

-----------------------------------------------------------------------------
(* Properties *)

PairTypeOK ==
  /\ scheme \in {"masks", "rtc"}
  /\ reg \in Pairs
  /\ made \in 0..MaxChanges
  /\ pairCall \in {"idle", "reading", "returned", "incoherent", "failed"}
  /\ pairAttempt \in 1..Attempts
  /\ got \in Seq(Values)
  /\ Len(got) <= Len(Script)
  /\ held \subseteq Pairs
  /\ changes \in [Registers -> Nat]
  /\ pairDisturbed \in 0..Attempts

\* A consistent pair (mcu.py:580): the two values returned, read at different times, were
\* in the registers together at one moment of the attempt - unless both registers changed
\* twice or more within it, when the comparison can be deceived.
PairWasHeld ==
  pairCall = "returned" /\ (\E r \in Registers : changes[r] < 2) => Pair \in held

\* McuCoherencyError means that something "changed during every read attempt"
\* (mcu.py:595, 790): a register did change within each attempt.
PairIncoherentOnlyIfDisturbed == pairCall = "incoherent" => pairDisturbed = Attempts

\* Every call ends, even if the registers never settle.
ReadEnds == pairCall = "reading" ~> pairCall # "reading"
=============================================================================
