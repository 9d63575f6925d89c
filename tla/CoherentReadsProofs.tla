------------------------ MODULE CoherentReadsProofs ------------------------
(***************************************************************************)
(* Theorems about the two ways to read what belongs together: by a         *)
(* generation (PowerSnapshot), for every number of fields, every even      *)
(* modulus and every number of retries; and by reading twice (PairReads),  *)
(* for every set of contents, every number of retries and of changes, and  *)
(* both schemes.                                                           *)
(***************************************************************************)
EXTENDS PowerSnapshot, PairReads, SequenceTheorems, TLAPS

-----------------------------------------------------------------------------
(* read_power. *)

\* Between the two reads of the generation.
InAttempt == call \in {"fields", "last"}

(***************************************************************************)
(* The argument.  The generation is odd exactly within a pass.  Within an  *)
(* attempt it is the opening generation advanced by moved, and moved is    *)
(* less than the modulus; so finding the opening generation again means    *)
(* that moved is 0, that the firmware has been idle ever since, and that   *)
(* the fields read are still what the page holds.                          *)
(***************************************************************************)
OddWithinPass ==
  /\ pass = "idle" => generation % 2 = 0 /\ published = page
  /\ pass = "updating" => generation % 2 = 1

MovedIsExact ==
  InAttempt =>
    generation = IF start + moved < GenModulus THEN start + moved
                                               ELSE start + moved - GenModulus

UndisturbedSoFar ==
  InAttempt /\ moved = 0 =>
    /\ pass = "idle"
    /\ \A f \in 1..(next - 1) : snap[f] = page[f]

Progress ==
  /\ call = "fields" => next \in Fields
  /\ call = "last" => next = NFields + 1

Counted ==
  /\ call \in Reading => disturbed = attempt - 1
  /\ call = "incoherent" => disturbed = Retries

IInv ==
  /\ TypeOK
  /\ OddWithinPass
  /\ MovedIsExact
  /\ UndisturbedSoFar
  /\ Progress
  /\ Counted

-----------------------------------------------------------------------------
\* The generation moves by one, and within an attempt moved does.
LEMMA IncrementMoves ==
  ASSUME TypeOK, Increment
  PROVE /\ generation' \in 0..(GenModulus - 1)
        /\ generation % 2 = 0 => generation' % 2 = 1
        /\ generation % 2 = 1 => generation' % 2 = 0
        /\ moved' \in 0..(GenModulus - 1)
        /\ InAttempt => moved' = moved + 1 /\ moved + 1 < GenModulus
        /\ generation' = IF generation + 1 = GenModulus THEN 0 ELSE generation + 1
  BY GenModulusAssumption DEF TypeOK, Increment, InAttempt

\* A step preserves the types.
LEMMA TypeStep ==
  ASSUME IInv, [Next]_vars PROVE TypeOK'
<1> USE NFieldsAssumption, GenModulusAssumption, RetriesAssumption,
        MaxPassesAssumption DEF TypeOK, Pages, Fields, Reading, Ended
<1>1. CASE BeginPass
  <2>1. passes' \in 0..MaxPasses
    BY <1>1 DEF IInv, BeginPass
  <2>2. generation' \in 0..(GenModulus - 1) /\ moved' \in 0..(GenModulus - 1)
    BY <1>1, IncrementMoves DEF IInv, BeginPass
  <2> QED BY <1>1, <2>1, <2>2 DEF IInv, BeginPass
<1>2. ASSUME NEW f \in Fields, UpdateField(f) PROVE TypeOK'
  <2>1. page' \in [Fields -> 0..MaxPasses]
    BY <1>2 DEF IInv, UpdateField
  <2> QED BY <1>2, <2>1 DEF IInv, UpdateField
<1>3. CASE EndPass
  BY <1>3, IncrementMoves DEF IInv, EndPass
<1>4. CASE Call
  BY <1>4 DEF IInv, Call, firmwareVars
<1>5. CASE ReadGeneration
  <2>1. generation \in 0..(GenModulus - 1) /\ disturbed = attempt - 1 /\ attempt \in 1..Retries
    BY <1>5 DEF IInv, ReadGeneration, Counted
  <2>2. /\ attempt' \in 1..Retries
        /\ disturbed' \in 0..Retries
        /\ call' \in {"first", "fields", "incoherent"}
    BY <1>5, <2>1 DEF ReadGeneration, NextAttempt
  <2> QED BY <1>5, <2>1, <2>2 DEF IInv, ReadGeneration, firmwareVars
<1>6. CASE ReadField
  BY <1>6 DEF IInv, ReadField, firmwareVars, Progress
<1>7. CASE ReadGenerationAgain
  <2>1. disturbed = attempt - 1 /\ attempt \in 1..Retries
    BY <1>7 DEF IInv, ReadGenerationAgain, Counted
  <2>2. /\ attempt' \in 1..Retries
        /\ disturbed' \in 0..Retries
        /\ call' \in {"first", "returned", "incoherent"}
    BY <1>7, <2>1 DEF ReadGenerationAgain, NextAttempt
  <2> QED BY <1>7, <2>2 DEF IInv, ReadGenerationAgain, firmwareVars
<1>8. CASE ReadFails
  BY <1>8 DEF IInv, ReadFails, firmwareVars
<1>9. CASE UNCHANGED vars
  BY <1>9 DEF IInv, vars
<1> QED BY <1>1, <1>2, <1>3, <1>4, <1>5, <1>6, <1>7, <1>8, <1>9
        DEF Next, Firmware, ReadPower

-----------------------------------------------------------------------------
\* A step keeps the generation odd exactly within a pass, and the page published
\* outside one.
LEMMA PassStep ==
  ASSUME IInv, [Next]_vars PROVE OddWithinPass'
<1> USE DEF OddWithinPass
<1>1. CASE BeginPass
  BY <1>1, IncrementMoves DEF IInv, BeginPass
<1>2. ASSUME NEW f \in Fields, UpdateField(f) PROVE OddWithinPass'
  BY <1>2 DEF IInv, UpdateField
<1>3. CASE EndPass
  BY <1>3, IncrementMoves DEF IInv, EndPass
<1>4. CASE Call \/ ReadPower
  BY <1>4 DEF IInv, Call, ReadPower, ReadGeneration, ReadField, ReadGenerationAgain,
     ReadFails, firmwareVars
<1>5. CASE UNCHANGED vars
  BY <1>5 DEF IInv, vars
<1> QED BY <1>1, <1>2, <1>3, <1>4, <1>5 DEF Next, Firmware

\* A step keeps moved equal to the distance of the generation from start.
LEMMA MovedStep ==
  ASSUME IInv, [Next]_vars PROVE MovedIsExact'
<1> USE GenModulusAssumption DEF MovedIsExact, InAttempt
<1>1. CASE BeginPass
  BY <1>1, IncrementMoves DEF IInv, TypeOK, BeginPass
<1>2. ASSUME NEW f \in Fields, UpdateField(f) PROVE MovedIsExact'
  BY <1>2 DEF IInv, UpdateField
<1>3. CASE EndPass
  BY <1>3, IncrementMoves DEF IInv, TypeOK, EndPass
<1>4. CASE Call
  BY <1>4 DEF Call
<1>5. CASE ReadGeneration
  BY <1>5 DEF IInv, TypeOK, ReadGeneration, firmwareVars
<1>6. CASE ReadField
  BY <1>6 DEF IInv, ReadField, firmwareVars
<1>7. CASE ReadGenerationAgain
  BY <1>7 DEF ReadGenerationAgain, NextAttempt
<1>8. CASE ReadFails
  BY <1>8 DEF ReadFails
<1>9. CASE UNCHANGED vars
  BY <1>9 DEF IInv, vars
<1> QED BY <1>1, <1>2, <1>3, <1>4, <1>5, <1>6, <1>7, <1>8, <1>9
        DEF Next, Firmware, ReadPower

\* A step keeps the fields read so far equal to the published page, as long as the
\* generation has not moved since start.
LEMMA UndisturbedStep ==
  ASSUME IInv, [Next]_vars PROVE UndisturbedSoFar'
<1> USE DEF UndisturbedSoFar, InAttempt
<1>1. CASE BeginPass \/ EndPass
  BY <1>1, IncrementMoves DEF IInv, TypeOK, BeginPass, EndPass
<1>2. ASSUME NEW f \in Fields, UpdateField(f) PROVE UndisturbedSoFar'
  BY <1>2 DEF IInv, UpdateField
<1>3. CASE Call
  BY <1>3 DEF Call
<1>4. CASE ReadGeneration
  BY <1>4 DEF IInv, TypeOK, OddWithinPass, ReadGeneration, NextAttempt, firmwareVars
<1>5. CASE ReadField
  <2>1. next \in Fields /\ NFields \in Nat /\ snap \in Pages
    BY <1>5, NFieldsAssumption DEF IInv, Progress, ReadField, TypeOK
  <2>2. /\ snap' = [snap EXCEPT ![next] = page[next]] /\ next' = next + 1
        /\ UNCHANGED <<page, pass, moved>> /\ call = "fields"
    BY <1>5 DEF ReadField, firmwareVars
  <2>3. ASSUME moved = 0, NEW f \in 1..next PROVE snap'[f] = page[f]
    <3>1. f \in Fields
      BY <2>1 DEF Fields
    <3>2. CASE f = next
      BY <2>1, <2>2, <3>1, <3>2 DEF Pages
    <3>3. CASE f # next
      <4>1. f \in 1..(next - 1)
        BY <2>1, <3>3 DEF Fields
      <4> QED BY <2>1, <2>2, <2>3, <3>1, <3>3, <4>1 DEF Pages, IInv
    <3> QED BY <3>2, <3>3
  <2>4. (next + 1) - 1 = next
    BY <2>1 DEF Fields
  <2> QED BY <2>2, <2>3, <2>4 DEF IInv
<1>6. CASE ReadGenerationAgain
  BY <1>6 DEF ReadGenerationAgain, NextAttempt
<1>7. CASE ReadFails
  BY <1>7 DEF ReadFails
<1>8. CASE UNCHANGED vars
  BY <1>8 DEF IInv, vars
<1> QED BY <1>1, <1>2, <1>3, <1>4, <1>5, <1>6, <1>7, <1>8 DEF Next, Firmware, ReadPower

-----------------------------------------------------------------------------
\* A step keeps the next field within the page.
LEMMA ProgressStep ==
  ASSUME IInv, [Next]_vars PROVE Progress'
<1> USE NFieldsAssumption DEF Progress, Fields
<1>1. CASE Firmware
  BY <1>1 DEF IInv, Firmware, BeginPass, UpdateField, EndPass
<1>2. CASE Call \/ ReadGeneration \/ ReadGenerationAgain \/ ReadFails
  BY <1>2 DEF IInv, Call, ReadGeneration, ReadGenerationAgain, ReadFails, NextAttempt
<1>3. CASE ReadField
  BY <1>3 DEF IInv, ReadField
<1>4. CASE UNCHANGED vars
  BY <1>4 DEF IInv, vars
<1> QED BY <1>1, <1>2, <1>3, <1>4 DEF Next, ReadPower

\* An attempt that fails without a pass beside it would be counted wrongly here: at
\* the second generation read, moved = 0 means that the generation is start.
LEMMA CountedStep ==
  ASSUME IInv, [Next]_vars PROVE Counted'
<1> USE RetriesAssumption DEF Counted, Reading
<1>a. attempt \in 1..Retries /\ disturbed \in 0..Retries
  BY DEF IInv, TypeOK
<1>1. CASE Firmware
  BY <1>1 DEF IInv, Firmware, BeginPass, UpdateField, EndPass
<1>2. CASE Call
  BY <1>2 DEF Call
<1>3. CASE ReadGeneration
  BY <1>a, <1>3 DEF IInv, ReadGeneration, NextAttempt
<1>4. CASE ReadField
  BY <1>4 DEF IInv, ReadField
<1>5. CASE ReadGenerationAgain
  <2>1. generation # start => moved > 0
    BY <1>5, GenModulusAssumption
    DEF IInv, TypeOK, MovedIsExact, InAttempt, ReadGenerationAgain
  <2> QED BY <1>a, <1>5, <2>1 DEF IInv, ReadGenerationAgain, NextAttempt
<1>6. CASE ReadFails
  BY <1>6 DEF IInv, ReadFails
<1>7. CASE UNCHANGED vars
  BY <1>7 DEF IInv, vars
<1> QED BY <1>1, <1>2, <1>3, <1>4, <1>5, <1>6, <1>7 DEF Next, ReadPower

-----------------------------------------------------------------------------
\* The inductive invariant holds in every state of Spec.
THEOREM InductiveInvariant == Spec => []IInv
<1>1. Init => IInv
  <2> SUFFICES ASSUME Init PROVE IInv
    OBVIOUS
  <2>1. TypeOK
    BY NFieldsAssumption, GenModulusAssumption, RetriesAssumption, MaxPassesAssumption
    DEF Init, TypeOK, Pages, Fields, Reading, Ended
  <2>2. OddWithinPass /\ MovedIsExact /\ UndisturbedSoFar /\ Progress /\ Counted
    BY DEF Init, OddWithinPass, MovedIsExact, UndisturbedSoFar, Progress, Counted,
       InAttempt, Reading
  <2> QED BY <2>1, <2>2 DEF IInv
<1>2. IInv /\ [Next]_vars => IInv'
  BY TypeStep, PassStep, MovedStep, UndisturbedStep, ProgressStep, CountedStep DEF IInv
<1> QED BY <1>1, <1>2, PTL DEF Spec

\* TypeOK holds in every state.
THEOREM TypeCorrect == Spec => []TypeOK
  BY InductiveInvariant, PTL DEF IInv

\* McuCoherencyError is raised only when a pass overlapped every attempt.
THEOREM IncoherentMeansDisturbed == Spec => []IncoherentOnlyIfDisturbed
<1>1. IInv => IncoherentOnlyIfDisturbed
  BY DEF IInv, Counted, IncoherentOnlyIfDisturbed
<1> QED BY <1>1, InductiveInvariant, PTL

\* At the second generation read, the opening generation means an untouched page.
LEMMA ReturnStep ==
  ASSUME IInv, ReadGenerationAgain, call' = "returned"
  PROVE snap = published /\ pass = "idle"
<1>1. moved = 0
  <2>1. generation = start
    BY DEF ReadGenerationAgain, NextAttempt
  <2> QED BY <2>1, GenModulusAssumption
          DEF IInv, TypeOK, MovedIsExact, InAttempt, ReadGenerationAgain
<1>2. pass = "idle" /\ published = page
  BY <1>1 DEF IInv, UndisturbedSoFar, OddWithinPass, InAttempt, ReadGenerationAgain
<1>3. \A f \in Fields : snap[f] = page[f]
  <2>1. next = NFields + 1 /\ (NFields + 1) - 1 = NFields
    BY NFieldsAssumption DEF IInv, Progress, ReadGenerationAgain
  <2> QED BY <1>1, <2>1 DEF IInv, UndisturbedSoFar, InAttempt, ReadGenerationAgain, Fields
<1>4. snap = page
  BY <1>3 DEF IInv, TypeOK, Pages
<1> QED BY <1>2, <1>4

\* read_power never returns a torn snapshot.
THEOREM SnapshotIsWhole == Spec => NoTornSnapshot
<1>1. IInv /\ [Next]_vars =>
        [call # "returned" /\ call' = "returned" => snap = published /\ pass = "idle"]_vars
  <2> SUFFICES ASSUME IInv, Next, call # "returned", call' = "returned"
               PROVE snap = published /\ pass = "idle"
    OBVIOUS
  <2>1. ReadGenerationAgain
    BY DEF Next, Firmware, BeginPass, EndPass, UpdateField, Call, ReadPower,
       ReadGeneration, ReadField, ReadFails, NextAttempt
  <2> QED BY <2>1, ReturnStep
<1> QED BY <1>1, InductiveInvariant, PTL DEF Spec, NoTornSnapshot

-----------------------------------------------------------------------------
\* Every step of PowerSnapshot is a step of AtomicPower, or leaves it unchanged.
LEMMA AtomicStep ==
  ASSUME IInv, [Next]_vars
  PROVE [Atomic!Next]_(Atomic!atomicVars)
<1> USE DEF Atomic!Next, Atomic!atomicVars
<1>1. CASE Firmware
  BY <1>1 DEF Firmware, BeginPass, EndPass, UpdateField, Atomic!Publish
<1>2. CASE Call
  BY <1>2 DEF Call, firmwareVars, Reading, Ended, Atomic!Begin
<1>3. CASE ReadGeneration \/ ReadField \/ ReadFails
  BY <1>3 DEF ReadGeneration, ReadField, ReadFails, NextAttempt, firmwareVars, Reading,
     Atomic!Raise
<1>4. CASE ReadGenerationAgain
  <2>1. CASE call' = "returned"
    <3>1. snap = published /\ snap' = snap /\ published' = published /\ call = "last"
      BY <1>4, <2>1, ReturnStep DEF ReadGenerationAgain, firmwareVars
    <3> QED BY <2>1, <3>1 DEF Reading, Atomic!Return
  <2>2. CASE call' # "returned"
    BY <1>4, <2>2 DEF ReadGenerationAgain, NextAttempt, firmwareVars, Reading,
       Atomic!Raise
  <2> QED BY <2>1, <2>2
<1>5. CASE UNCHANGED vars
  BY <1>5 DEF vars
<1> QED BY <1>1, <1>2, <1>3, <1>4, <1>5 DEF Next, ReadPower

\* read_power implements an atomic read of the published page.
THEOREM Implements == Spec => AtomicSpec
<1>1. Init => Atomic!Init
  BY DEF Init, Atomic!Init, Reading
<1>2. IInv /\ [Next]_vars => [Atomic!Next]_(Atomic!atomicVars)
  BY AtomicStep
<1> QED BY <1>1, <1>2, InductiveInvariant, PTL DEF Spec, AtomicSpec, Atomic!Spec

-----------------------------------------------------------------------------
(* The pairs: what IInv is for PowerSnapshot, PairIInv is for PairReads.   *)

\* How far an attempt has gone.
InProgress ==
  pairCall = "reading" => Len(got) < Len(Script) /\ reg \in held /\ pairDisturbed = pairAttempt - 1

\* A register that has not changed is as it was read.
UnchangedIsAsRead ==
  pairCall = "reading" =>
    \A i \in 1..Len(got) : changes[Script[i]] = 0 => got[i] = reg[Script[i]]

\* A change of a shows in it until the next one; b was read beside a's first value
\* unless it changed in between.
AfterFirst ==
  pairCall = "reading" /\ Len(got) >= 1 =>
    /\ changes["a"] = 1 => reg["a"] # got[1]
    /\ Len(got) = 1 /\ changes["b"] = 0 => [a |-> got[1], b |-> reg["b"]] \in held

\* Once both are read, the pair has been there unless a had changed, and will be there
\* when a is back unless b changes.
AfterSecond ==
  pairCall = "reading" /\ Len(got) >= 2 =>
    /\ changes["a"] = 0 \/ changes["b"] = 0 => Pair \in held
    /\ changes["b"] = 1 => Pair \in held \/ reg["b"] = got[2]

\* Once a is read again and has not moved, the pair has been there.
AfterThird ==
  pairCall = "reading" /\ Len(got) >= 3 /\ got[3] = got[1]
    /\ (\E r \in Registers : changes[r] < 2) => Pair \in held

PairIInv ==
  /\ PairTypeOK
  /\ InProgress
  /\ UnchangedIsAsRead
  /\ AfterFirst
  /\ AfterSecond
  /\ AfterThird
  /\ PairWasHeld
  /\ PairIncoherentOnlyIfDisturbed

-----------------------------------------------------------------------------
\* The two scripts: what is read at which place.
LEMMA ScriptShape ==
  ASSUME PairTypeOK
  PROVE  /\ Len(Script) \in {3, 4}
         /\ \A i \in 1..Len(Script) : Script[i] \in Registers
         /\ Script[1] = "a" /\ Script[2] = "b" /\ Script[3] = "a"
         /\ \A i \in 3..Len(Script) : Script[i] = Script[i - 2]
<1>1. CASE scheme = "masks"
  <2>1. Script = <<"a", "b", "a", "b">>
    BY <1>1 DEF Script
  <2> QED BY <2>1 DEF Registers
<1>2. CASE scheme = "rtc"
  <2>1. Script = <<"a", "b", "a">>
    BY <1>2 DEF Script
  <2> QED BY <2>1 DEF Registers
<1> QED BY <1>1, <1>2 DEF PairTypeOK

\* How much has been read before the last transaction, and at it.
LEMMA Places ==
  ASSUME NEW k \in Nat, NEW m \in {3, 4}
  PROVE  /\ k + 1 < m => k \in {0, 1, 2} /\ k + 1 \in 1..m
         /\ k + 1 = m => k \in {2, 3} /\ k + 1 \in 1..m
  OBVIOUS

\* There is at least one attempt.
LEMMA AttemptsIsPositive == Attempts \in Nat \ {0}
  BY PairRetriesAssumption DEF Attempts

-----------------------------------------------------------------------------
\* A change of a register preserves the invariant.
LEMMA ChangeStep ==
  ASSUME PairIInv, NEW r \in Registers, NEW v \in Values, Change(r, v) PROVE PairIInv'
<1> USE DEF PairIInv, Change
<1>0. Script' = Script /\ got' = got /\ pairCall' = pairCall /\ Pair' = Pair
  BY DEF Script, Pair
<1>1. /\ reg \in Pairs /\ reg' \in Pairs /\ changes \in [Registers -> Nat]
      /\ reg'[r] = v /\ v # reg[r]
      /\ \A q \in Registers \ {r} : reg'[q] = reg[q]
  BY DEF PairTypeOK, Pairs
<1>2. \/ /\ pairCall = "reading"
         /\ held' = held \cup {reg'}
         /\ changes' \in [Registers -> Nat]
         /\ changes'[r] = changes[r] + 1
         /\ \A q \in Registers \ {r} : changes'[q] = changes[q]
      \/ pairCall # "reading" /\ held' = held /\ changes' = changes
  BY DEF PairTypeOK
<1>3. PairTypeOK'
  <2>1. made' \in 0..MaxChanges
    BY MaxChangesAssumption DEF PairTypeOK
  <2> QED BY <1>0, <1>1, <1>2, <2>1 DEF PairTypeOK, Attempts
<1>4. InProgress'
  BY <1>0, <1>2 DEF InProgress
<1>5. UnchangedIsAsRead'
  <2> SUFFICES ASSUME pairCall = "reading", NEW i \in 1..Len(got), changes'[Script[i]] = 0
               PROVE got[i] = reg'[Script[i]]
    BY <1>0 DEF UnchangedIsAsRead
  <2>1. Script[i] \in Registers
    BY ScriptShape DEF InProgress, PairTypeOK
  <2>2. Script[i] # r /\ changes[Script[i]] = 0
    BY <1>1, <1>2, <2>1
  <2> QED BY <1>1, <2>1, <2>2 DEF UnchangedIsAsRead
<1>6. AfterFirst'
  <2> SUFFICES ASSUME pairCall = "reading", Len(got) >= 1
               PROVE /\ changes'["a"] = 1 => reg'["a"] # got[1]
                     /\ Len(got) = 1 /\ changes'["b"] = 0 =>
                          [a |-> got[1], b |-> reg'["b"]] \in held'
    BY <1>0 DEF AfterFirst
  <2>1. changes["a"] = 0 => got[1] = reg["a"]
    <3>1. Len(got) \in Nat /\ 1 \in 1..Len(got)
      BY LenProperties DEF PairTypeOK
    <3>2. Script[1] = "a"
      BY ScriptShape
    <3> QED BY <3>1, <3>2 DEF UnchangedIsAsRead
  <2>2. ASSUME changes'["a"] = 1 PROVE reg'["a"] # got[1]
    BY <1>1, <1>2, <2>1, <2>2 DEF AfterFirst, Registers
  <2>3. ASSUME Len(got) = 1, changes'["b"] = 0
        PROVE [a |-> got[1], b |-> reg'["b"]] \in held'
    BY <1>1, <1>2, <2>3 DEF AfterFirst, Registers
  <2> QED BY <2>2, <2>3
<1>7. AfterSecond'
  <2> SUFFICES ASSUME pairCall = "reading", Len(got) >= 2
               PROVE /\ changes'["a"] = 0 \/ changes'["b"] = 0 => Pair \in held'
                     /\ changes'["b"] = 1 => Pair \in held' \/ reg'["b"] = got[2]
    BY <1>0 DEF AfterSecond
  <2>1. ASSUME changes'["a"] = 0 \/ changes'["b"] = 0 PROVE Pair \in held'
    BY <1>1, <1>2, <2>1 DEF AfterSecond, Registers
  <2>2. ASSUME changes'["b"] = 1 PROVE Pair \in held' \/ reg'["b"] = got[2]
    BY <1>1, <1>2, <2>2 DEF AfterSecond, Registers
  <2> QED BY <2>1, <2>2
<1>8. AfterThird'
  <2> SUFFICES ASSUME pairCall = "reading", Len(got) >= 3, got[3] = got[1],
                      NEW q \in Registers, changes'[q] < 2
               PROVE Pair \in held'
    BY <1>0 DEF AfterThird
  <2>1. changes[q] < 2
    BY <1>1, <1>2
  <2> QED BY <1>2, <2>1 DEF AfterThird
<1>9. PairWasHeld' /\ PairIncoherentOnlyIfDisturbed'
  BY <1>0, <1>2 DEF PairWasHeld, PairIncoherentOnlyIfDisturbed, Attempts
<1> QED BY <1>3, <1>4, <1>5, <1>6, <1>7, <1>8, <1>9

\* A transaction within an attempt preserves the invariant.
LEMMA ReadStep ==
  ASSUME PairIInv, ReadNext PROVE PairIInv'
<1> DEFINE n == Len(got)
           x == reg[Script[n + 1]]
<1> USE DEF PairIInv
<1>0. /\ pairCall = "reading" /\ pairCall' = "reading" /\ Script' = Script
      /\ n \in {0, 1, 2} /\ n + 1 < Len(Script)
      /\ reg' = reg /\ got' = Append(got, x) /\ x \in Values
      /\ Script[n + 1] \in Registers
  <2>1. /\ pairCall = "reading" /\ pairCall' = "reading" /\ Script' = Script
        /\ reg' = reg /\ got' = Append(got, x)
    BY DEF ReadNext, Script, registerVars
  <2>b. n + 1 < Len(Script)
    BY DEF ReadNext
  <2>a. n \in Nat /\ Len(Script) \in {3, 4}
    BY ScriptShape, LenProperties DEF PairTypeOK
  <2>2. n \in {0, 1, 2} /\ n + 1 \in 1..Len(Script)
    BY <2>a, <2>b, Places, Zenon
  <2>3. Script[n + 1] \in Registers
    BY <2>2, ScriptShape
  <2>4. x \in Values
    BY <2>3 DEF PairTypeOK, Pairs
  <2> QED BY <2>1, <2>b, <2>2, <2>3, <2>4
<1>1. /\ got' \in Seq(Values) /\ Len(got') = n + 1
      /\ got'[n + 1] = x
      /\ \A i \in 1..n : got'[i] = got[i]
  BY <1>0, AppendProperties DEF PairTypeOK
<1>2. \/ /\ n = 0
         /\ held' = {reg}
         /\ changes' = [r \in Registers |-> 0]
      \/ n > 0 /\ held' = held /\ changes' = changes
  <2>1. got = << >> <=> n = 0
    BY EmptySeq DEF PairTypeOK
  <2> QED BY <1>0, <2>1 DEF ReadNext
<1>3. PairTypeOK'
  BY <1>0, <1>1, <1>2 DEF PairTypeOK, ReadNext, registerVars, Attempts, Registers
<1>4. InProgress'
  BY <1>0, <1>1, <1>2 DEF InProgress, ReadNext
<1>5. UnchangedIsAsRead'
  <2> SUFFICES ASSUME NEW i \in 1..Len(got'), changes'[Script[i]] = 0
               PROVE got'[i] = reg[Script[i]]
    BY <1>0 DEF UnchangedIsAsRead
  <2>1. CASE i = n + 1
    BY <1>1, <2>1
  <2>2. CASE i \in 1..n
    BY <1>0, <1>1, <1>2, <2>2 DEF UnchangedIsAsRead
  <2> QED BY <1>0, <1>1, <2>1, <2>2
<1>6. AfterFirst'
  <2>1. CASE n = 0
    <3>1. got'[1] = reg["a"] /\ held' = {reg} /\ changes'["a"] = 0
      BY <1>0, <1>1, <1>2, <2>1, ScriptShape DEF Registers
    <3>2. reg = [a |-> reg["a"], b |-> reg["b"]]
      BY DEF PairTypeOK, Pairs, Registers
    <3> QED BY <1>0, <3>1, <3>2 DEF AfterFirst
  <2>2. CASE n > 0
    BY <1>0, <1>1, <1>2, <2>2 DEF AfterFirst
  <2> QED BY <1>0, <2>1, <2>2
<1>7. AfterSecond'
  <2>1. CASE n = 0
    BY <1>0, <1>1, <2>1 DEF AfterSecond
  <2>2. CASE n = 1
    <3>1. /\ got'[1] = got[1] /\ got'[2] = reg["b"] /\ held' = held /\ changes' = changes
          /\ Pair' = [a |-> got[1], b |-> reg["b"]]
      BY <1>0, <1>1, <1>2, <2>2, ScriptShape DEF Pair
    <3>2. ASSUME changes["a"] = 0 PROVE Pair' \in held
      <4>1. got[1] = reg["a"]
        BY <1>0, <2>2, <3>2, ScriptShape DEF UnchangedIsAsRead
      <4>2. Pair' = reg
        BY <3>1, <4>1 DEF PairTypeOK, Pairs, Registers
      <4> QED BY <1>0, <4>2 DEF InProgress
    <3>3. ASSUME changes["b"] = 0 PROVE Pair' \in held
      BY <1>0, <2>2, <3>1, <3>3 DEF AfterFirst
    <3> QED BY <1>0, <3>1, <3>2, <3>3 DEF AfterSecond
  <2>3. CASE n = 2
    <3>1. Pair' = Pair /\ held' = held /\ changes' = changes /\ got'[2] = got[2]
      BY <1>0, <1>1, <1>2, <2>3 DEF Pair
    <3> QED BY <1>0, <2>3, <3>1 DEF AfterSecond
  <2> QED BY <1>0, <2>1, <2>2, <2>3
<1>8. AfterThird'
  <2>1. CASE n # 2
    BY <1>0, <1>1, <2>1 DEF AfterThird
  <2>2. CASE n = 2
    <3> SUFFICES ASSUME got'[3] = got'[1], NEW q \in Registers, changes'[q] < 2
                 PROVE Pair' \in held'
      BY DEF AfterThird
    <3>1. /\ Pair' = Pair /\ held' = held /\ changes' = changes
          /\ got'[1] = got[1] /\ got'[3] = reg["a"]
      BY <1>0, <1>1, <1>2, <2>2, ScriptShape DEF Pair
    <3>2. CASE q = "a"
      BY <1>0, <2>2, <3>1, <3>2 DEF AfterFirst, AfterSecond, PairTypeOK, Registers
    <3>3. CASE q = "b"
      <4>1. Pair \in held \/ reg["b"] = got[2]
        BY <1>0, <2>2, <3>1, <3>3 DEF AfterSecond, PairTypeOK, Registers
      <4>2. reg["b"] = got[2] => Pair = reg
        BY <3>1 DEF Pair, PairTypeOK, Pairs, Registers
      <4> QED BY <1>0, <3>1, <4>1, <4>2 DEF InProgress
    <3> QED BY <3>2, <3>3 DEF Registers
  <2> QED BY <2>1, <2>2
<1>9. PairWasHeld' /\ PairIncoherentOnlyIfDisturbed'
  BY <1>0 DEF PairWasHeld, PairIncoherentOnlyIfDisturbed
<1> QED BY <1>3, <1>4, <1>5, <1>6, <1>7, <1>8, <1>9

\* The last transaction of an attempt preserves the invariant.
LEMMA LastStep ==
  ASSUME PairIInv, ReadLast PROVE PairIInv'
<1> DEFINE n == Len(got)
           x == reg[Script[n + 1]]
           values == Append(got, x)
<1> USE DEF PairIInv
<1>0. /\ pairCall = "reading" /\ Script' = Script
      /\ n \in {2, 3} /\ n + 1 = Len(Script)
      /\ reg' = reg /\ x \in Values /\ held' = held /\ changes' = changes
      /\ Script[n + 1] \in Registers
  <2>1. /\ pairCall = "reading" /\ Script' = Script
        /\ reg' = reg /\ held' = held /\ changes' = changes
    BY DEF ReadLast, Script, registerVars
  <2>b. n + 1 = Len(Script)
    BY DEF ReadLast
  <2>a. n \in Nat /\ Len(Script) \in {3, 4}
    BY ScriptShape, LenProperties DEF PairTypeOK
  <2>2. n \in {2, 3} /\ n + 1 \in 1..Len(Script)
    BY <2>a, <2>b, Places, Zenon
  <2>3. Script[n + 1] \in Registers
    BY <2>2, ScriptShape
  <2>4. x \in Values
    BY <2>3 DEF PairTypeOK, Pairs
  <2> QED BY <2>1, <2>b, <2>2, <2>3, <2>4
<1>1. /\ values \in Seq(Values) /\ Len(values) = n + 1
      /\ values[n + 1] = x
      /\ \A i \in 1..n : values[i] = got[i]
  BY <1>0, AppendProperties DEF PairTypeOK
<1>2. pairAttempt \in 1..Attempts /\ pairDisturbed = pairAttempt - 1 /\ Attempts \in Nat \ {0}
  BY <1>0, AttemptsIsPositive DEF PairTypeOK, InProgress
<1>3. CASE Agree(values)
  <2>1. /\ got' = values /\ pairCall' = "returned"
        /\ pairAttempt' = pairAttempt /\ pairDisturbed' = pairDisturbed
    BY <1>3 DEF ReadLast
  <2>2. PairTypeOK'
    BY <1>0, <1>1, <1>2, <2>1 DEF PairTypeOK, ReadLast, registerVars, Attempts
  <2>3. PairWasHeld'
    <3> SUFFICES ASSUME NEW q \in Registers, changes[q] < 2 PROVE Pair' \in held
      BY <1>0 DEF PairWasHeld
    <3>1. values[3] = values[1] /\ Pair' = Pair
      <4> HIDE DEF n, values
      <4>0. n \in {2, 3} /\ Len(values) = n + 1
        BY <1>0, <1>1
      <4>1. 3 \in 3..Len(values)
        BY <4>0
      <4>2. values[3] = values[1]
        BY <1>3, <4>1 DEF Agree
      <4>3. 1 \in 1..n /\ 2 \in 1..n
        BY <4>0
      <4>4. values[1] = got[1] /\ values[2] = got[2]
        BY <1>1, <4>3
      <4> QED BY <2>1, <4>2, <4>4 DEF Pair
    <3>2. CASE n = 3
      BY <1>0, <1>1, <3>1, <3>2 DEF AfterThird
    <3>3. CASE n = 2
      <4>1. values[1] = got[1] /\ values[3] = reg["a"]
        BY <1>0, <1>1, <3>3, ScriptShape
      <4>2. CASE q = "a"
        <5>1. changes["a"] = 0 \/ changes["a"] = 1
          BY <4>2 DEF PairTypeOK
        <5>2. changes["a"] # 1
          <6>1. reg["a"] = got[1]
            BY <3>1, <4>1, Zenon
          <6>2. pairCall = "reading" /\ Len(got) >= 1
            BY <1>0, <3>3
          <6> QED BY <6>1, <6>2 DEF AfterFirst
        <5> QED BY <1>0, <3>1, <3>3, <5>1, <5>2 DEF AfterSecond
      <4>3. CASE q = "b"
        <5>1. Pair \in held \/ reg["b"] = got[2]
          BY <1>0, <3>3, <4>3 DEF AfterSecond, PairTypeOK, Registers
        <5>2. reg["b"] = got[2] => Pair = reg
          BY <3>1, <4>1 DEF Pair, PairTypeOK, Pairs, Registers
        <5> QED BY <1>0, <3>1, <5>1, <5>2 DEF InProgress
      <4> QED BY <4>2, <4>3 DEF Registers
    <3> QED BY <1>0, <3>2, <3>3
  <2> QED BY <2>1, <2>2, <2>3
          DEF InProgress, UnchangedIsAsRead, AfterFirst, AfterSecond, AfterThird,
              PairIncoherentOnlyIfDisturbed
<1>4. CASE ~Agree(values)
  <2>1. \E r \in Registers : changes[r] > 0
    <3>1. PICK i \in 3..(n + 1) : values[i] # values[i - 2]
      BY <1>1, <1>4 DEF Agree
    <3>2. Script[i] = Script[i - 2] /\ Script[i] \in Registers
      BY <1>0, ScriptShape
    <3>3. SUFFICES ASSUME changes[Script[i]] = 0 PROVE FALSE
      BY <3>2 DEF PairTypeOK
    <3>4. values[i - 2] = reg[Script[i]]
      BY <1>0, <1>1, <3>2, <3>3 DEF UnchangedIsAsRead
    <3>5. values[i] = reg[Script[i]]
      <4>1. CASE i = n + 1
        BY <1>1, <4>1
      <4>2. CASE i \in 1..n
        BY <1>0, <1>1, <3>3, <4>2 DEF UnchangedIsAsRead
      <4> QED BY <1>0, <4>1, <4>2
    <3> QED BY <3>1, <3>4, <3>5
  <2>2. pairDisturbed' = pairDisturbed + 1 /\ NextPairAttempt
    BY <1>4, <2>1 DEF ReadLast
  <2>3. /\ got' = << >> /\ Len(got') = 0 /\ got' \in Seq(Values)
        /\ pairCall' \in {"reading", "incoherent"}
    BY <2>2 DEF NextPairAttempt
  <2>4. PairTypeOK'
    BY <1>0, <1>2, <2>2, <2>3, ScriptShape
    DEF PairTypeOK, ReadLast, registerVars, Attempts, NextPairAttempt
  <2>5. InProgress' /\ PairIncoherentOnlyIfDisturbed'
    BY <1>0, <1>2, <2>2, <2>3
    DEF InProgress, PairIncoherentOnlyIfDisturbed, NextPairAttempt, Attempts
  <2> QED BY <2>3, <2>4, <2>5
          DEF UnchangedIsAsRead, AfterFirst, AfterSecond, AfterThird, PairWasHeld
<1> QED BY <1>3, <1>4

-----------------------------------------------------------------------------
\* In every state the comparison of the values read is as good as PairIInv says.
THEOREM PairInductiveInvariant == PairSpec => []PairIInv
<1>1. PairInit => PairIInv
  <2> SUFFICES ASSUME PairInit PROVE PairIInv
    OBVIOUS
  <2>1. PairTypeOK
    BY AttemptsIsPositive, MaxChangesAssumption DEF PairInit, PairTypeOK, Script
  <2> QED BY <2>1 DEF PairInit, PairIInv, InProgress, UnchangedIsAsRead, AfterFirst, AfterSecond,
             AfterThird, PairWasHeld, PairIncoherentOnlyIfDisturbed
<1>2. PairIInv /\ [PairNext]_pairVars => PairIInv'
  <2> SUFFICES ASSUME PairIInv, [PairNext]_pairVars PROVE PairIInv'
    OBVIOUS
  <2>1. ASSUME NEW r \in Registers, NEW v \in Values, Change(r, v) PROVE PairIInv'
    BY <2>1, ChangeStep
  <2>2. CASE CallPair
    <3>1. PairTypeOK'
      BY <2>2, AttemptsIsPositive
      DEF PairIInv, PairTypeOK, CallPair, registerVars, Script, Attempts
    <3>2. InProgress'
      BY <2>2, ScriptShape DEF PairIInv, InProgress, CallPair, registerVars, Script
    <3> QED BY <2>2, <3>1, <3>2
            DEF CallPair, PairIInv, UnchangedIsAsRead, AfterFirst, AfterSecond, AfterThird,
                PairWasHeld, PairIncoherentOnlyIfDisturbed
  <2>3. CASE ReadNext
    BY <2>3, ReadStep
  <2>4. CASE ReadLast
    BY <2>4, LastStep
  <2>5. CASE PairReadFails
    <3>1. PairTypeOK'
      BY <2>5 DEF PairIInv, PairTypeOK, PairReadFails, registerVars, Script, Attempts
    <3> QED BY <2>5, <3>1
            DEF PairReadFails, PairIInv, InProgress, UnchangedIsAsRead, AfterFirst, AfterSecond,
                AfterThird, PairWasHeld, PairIncoherentOnlyIfDisturbed
  <2>6. CASE UNCHANGED pairVars
    BY <2>6 DEF pairVars, PairIInv, PairTypeOK, InProgress, UnchangedIsAsRead, AfterFirst,
       AfterSecond, AfterThird, PairWasHeld, PairIncoherentOnlyIfDisturbed, Pair, Script,
       Attempts
  <2> QED BY <2>1, <2>2, <2>3, <2>4, <2>5, <2>6 DEF PairNext, Client
<1> QED BY <1>1, <1>2, PTL DEF PairSpec

\* PairTypeOK holds in every state.
THEOREM PairTypeCorrect == PairSpec => []PairTypeOK
  BY PairInductiveInvariant, PTL DEF PairIInv

\* A pair that is returned was there at one moment, unless both registers changed twice.
THEOREM PairIsConsistent == PairSpec => []PairWasHeld
  BY PairInductiveInvariant, PTL DEF PairIInv

\* McuCoherencyError is raised only when a register changed within every attempt.
THEOREM PairIncoherentMeansDisturbed == PairSpec => []PairIncoherentOnlyIfDisturbed
  BY PairInductiveInvariant, PTL DEF PairIInv
=============================================================================
