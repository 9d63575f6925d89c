--------------------------- MODULE PowerPollProofs ---------------------------
(***************************************************************************)
(* Theorems about PowerPoll, for any number of retries, losses and passes, *)
(* whatever they leave the board in: the types for any number of late      *)
(* replies, and what a poll returns while at most ten replies are late.    *)
(***************************************************************************)
EXTENDS PowerPoll, SequenceTheorems, TLAPS

\* A reply that is owed.
Replies == [read : Reads, sent : Generations]

LEMMA RemoveAtSeq ==
  ASSUME NEW S, NEW s \in Seq(S), NEW i \in 1..Len(s)
  PROVE  /\ RemoveAt(s, i) \in Seq(S) /\ Len(RemoveAt(s, i)) = Len(s) - 1
         /\ \A j \in 1..(Len(s) - 1) :
              \/ j \in 1..Len(s) /\ RemoveAt(s, i)[j] = s[j]
              \/ j + 1 \in 1..Len(s) /\ RemoveAt(s, i)[j] = s[j + 1]
<1> DEFINE a == SubSeq(s, 1, i - 1)
           b == SubSeq(s, i + 1, Len(s))
<1>0. Len(s) \in Nat /\ i \in Int /\ 1 <= i /\ i <= Len(s)
  OBVIOUS
<1>1. /\ a \in Seq(S) /\ Len(a) = i - 1
      /\ \A j \in 1..(i - 1) : a[j] = s[j]
  BY <1>0, SubSeqProperties
<1>2. /\ b \in Seq(S) /\ Len(b) = Len(s) - i
      /\ \A j \in 1..(Len(s) - i) : b[j] = s[i + j]
  BY <1>0, SubSeqProperties
<1>3. RemoveAt(s, i) = a \o b
  BY DEF RemoveAt
<1> HIDE DEF a, b
<1>4. /\ a \o b \in Seq(S) /\ Len(a \o b) = Len(a) + Len(b)
      /\ \A j \in 1..(Len(a) + Len(b)) :
           (a \o b)[j] = IF j <= Len(a) THEN a[j] ELSE b[j - Len(a)]
  BY <1>1, <1>2, ConcatProperties
<1>5. RemoveAt(s, i) \in Seq(S) /\ Len(RemoveAt(s, i)) = Len(s) - 1
  BY <1>0, <1>1, <1>2, <1>3, <1>4
<1>6. ASSUME NEW j \in 1..(Len(s) - 1)
      PROVE  \/ j \in 1..Len(s) /\ RemoveAt(s, i)[j] = s[j]
             \/ j + 1 \in 1..Len(s) /\ RemoveAt(s, i)[j] = s[j + 1]
  <2>0. j \in 1..(Len(a) + Len(b))
    BY <1>0, <1>1, <1>2
  <2>1. RemoveAt(s, i)[j] = IF j <= i - 1 THEN a[j] ELSE b[j - (i - 1)]
    BY <1>1, <1>3, <1>4, <2>0
  <2>2. CASE j <= i - 1
    BY <1>0, <1>1, <2>1, <2>2
  <2>3. CASE ~(j <= i - 1)
    <3>1. j - (i - 1) \in 1..(Len(s) - i) /\ i + (j - (i - 1)) = j + 1
      BY <1>0, <2>3
    <3>2. b[j - (i - 1)] = s[j + 1]
      BY <1>2, <3>1
    <3> QED BY <1>0, <2>1, <2>3, <3>2
  <2> QED BY <2>2, <2>3
<1> QED BY <1>5, <1>6

LEMMA TailSeq ==
  ASSUME NEW S, NEW s \in Seq(S), s # << >>
  PROVE  /\ Head(s) \in S /\ Head(s) = s[1] /\ Tail(s) \in Seq(S)
         /\ Len(s) \in Nat \ {0} /\ Len(Tail(s)) = Len(s) - 1
         /\ \A j \in 1..(Len(s) - 1) : Tail(s)[j] = s[j + 1]
  OBVIOUS

LEMMA AppendSeq ==
  ASSUME NEW S, NEW s \in Seq(S), NEW x \in S
  PROVE  /\ Append(s, x) \in Seq(S) /\ Len(Append(s, x)) = Len(s) + 1
         /\ Append(s, x)[Len(s) + 1] = x
         /\ \A j \in 1..Len(s) : Append(s, x)[j] = s[j]
  OBVIOUS

-----------------------------------------------------------------------------
(* The reads of read_power.                                                *)

LEMMA ScriptShape ==
  /\ Len(Script) = 13 /\ Opening = 2 /\ Closing = 13
  /\ \A i \in 1..13 : Script[i] \in Reads /\ Script[i].reg \in Registers
<1>1. Len(Script) = 13
  BY DEF Script
<1> QED BY <1>1 DEF Opening, Closing, Reads, Registers

\* The read whose size shows a lag of k replies: the reply it would take is of the read k
\* before it in the same attempt, which has another size.
Mismatch == <<3, 4, 6, 7, 8, 10, 10, 11, 12, 13>>

LEMMA LagShows ==
  \A k \in 1..10 :
    /\ Mismatch[k] \in 3..13 /\ Mismatch[k] - k \in Opening..13
    /\ Script[Mismatch[k] - k].size # Script[Mismatch[k]].size
<1> SUFFICES ASSUME NEW k \in 1..10
             PROVE  /\ Mismatch[k] \in 3..13 /\ Mismatch[k] - k \in Opening..13
                    /\ Script[Mismatch[k] - k].size # Script[Mismatch[k]].size
  OBVIOUS
<1>1. /\ Script[2].size = 4 /\ Script[3].size = 1 /\ Script[4].size = 1 /\ Script[6].size = 4
      /\ Script[7].size = 4 /\ Script[8].size = 4 /\ Script[10].size = 4 /\ Script[11].size = 4
      /\ Script[12].size = 4 /\ Script[13].size = 4
  BY DEF Script
<1>2. /\ Mismatch[1] = 3 /\ Mismatch[2] = 4 /\ Mismatch[3] = 6 /\ Mismatch[4] = 7
      /\ Mismatch[5] = 8 /\ Mismatch[6] = 10 /\ Mismatch[7] = 10 /\ Mismatch[8] = 11
      /\ Mismatch[9] = 12 /\ Mismatch[10] = 13
  BY DEF Mismatch
<1>3. CASE k \in 1..5
  BY <1>1, <1>2, <1>3 DEF Opening
<1>4. CASE k \in 6..10
  BY <1>1, <1>2, <1>4 DEF Opening
<1> QED BY <1>3, <1>4

-----------------------------------------------------------------------------
(* Types, and the debt of replies.                                         *)

\* The line: nothing is owed but what came late, and what was seen was the case.
Line ==
  /\ owed \in Seq(Replies) /\ phase \in {"idle", "waiting"}
  /\ late \in 0..MaxLate /\ lost \in 0..MaxLost /\ Lag <= late
  /\ generation \in Generations /\ seen \in 0..generation /\ since \in 0..generation
  /\ gap \in {"yes", "no"}
  /\ phase = "waiting" => poll = "reading"

\* read_power and the wait.
Reading ==
  /\ poll \in {"none", "reading", "yes", "no", "unknown"}
  /\ at \in 1..13
  /\ capabilities \in {"none", "with POWER", "without POWER"}
  /\ attempt \in 1..Retries
  /\ start \in Generations
  /\ on \in {"yes", "no"}
  /\ astray \subseteq Registers
  /\ ended \in {"waiting", "yes", "timed out"}

TInv == Line /\ Reading

LEMMA TInvTypes == TInv => TypeOK
<1> SUFFICES ASSUME TInv PROVE TypeOK
  OBVIOUS
<1>1. owed \in Seq([read : Reads, sent : Generations])
  BY DEF TInv, Line, Replies
<1>2. Len(owed) \in Nat
  BY DEF TInv, Line
<1>3. Len(owed) <= MaxLate + 1
  BY <1>2, BoundsAssumption DEF TInv, Line, Lag
<1>4. seen \in Generations /\ since \in Generations
  BY BoundsAssumption DEF TInv, Line, Generations
<1> QED BY <1>1, <1>3, <1>4, ScriptShape DEF TInv, Line, Reading, TypeOK

\* The generations are numbers.
LEMMA GenerationsAreNat ==
  ASSUME TInv
  PROVE  /\ generation \in Nat /\ seen \in Nat /\ since \in Nat /\ start \in Nat
         /\ seen <= generation /\ since <= generation
<1>1. \A g \in Generations : g \in Nat
  BY BoundsAssumption DEF Generations
<1>2. generation \in Nat /\ start \in Nat
  BY <1>1 DEF TInv, Line, Reading
<1> QED BY <1>2 DEF TInv, Line

LEMMA TInvInit == Init => TInv
<1> SUFFICES ASSUME Init PROVE TInv
  OBVIOUS
<1>1. Reading
  BY RetriesAssumption, BoundsAssumption DEF Init, Reading, Generations
<1>2. owed \in Seq(Replies) /\ Len(owed) <= late /\ late \in 0..MaxLate
  <2>1. CASE owed = << >> /\ late = 0
    BY <2>1, BoundsAssumption
  <2>2. CASE MaxLate > 0 /\ late = 1 /\ \E r \in Foreign : owed = <<[read |-> r, sent |-> 0]>>
    <3> PICK r \in Foreign : owed = <<[read |-> r, sent |-> 0]>>
      BY <2>2
    <3>1. [read |-> r, sent |-> 0] \in Replies
      BY BoundsAssumption DEF Replies, Reads, Generations
    <3> QED BY <2>2, <3>1, BoundsAssumption
  <2> QED BY <2>1, <2>2 DEF Init
<1>3. Line
  BY <1>2, BoundsAssumption DEF Init, Line, Lag, Generations
<1> QED BY <1>1, <1>3 DEF TInv

\* How a reply that is taken moves read_power: on, back to the opening, or out.
Moves ==
  /\ at' \in 1..13 /\ attempt' \in 1..Retries
  /\ poll' \in {"none", "reading", "yes", "no", "unknown"}
  /\ ended' \in {"waiting", "yes", "timed out"}

LEMMA GoOnMoves ==
  ASSUME Reading, at # 13, GoOn, attempt' = attempt
  PROVE  Moves
<1>1. at \in 1..13
  BY DEF Reading
<1>2. at' = at + 1
  BY DEF GoOn
<1>3. at' \in 1..13
  BY <1>1, <1>2
<1> QED BY <1>3 DEF Reading, GoOn, Moves

LEMMA RaisesMoves ==
  ASSUME Reading, at' = at, Raises, attempt' = attempt
  PROVE  Moves
  BY DEF Reading, Raises, Moves

LEMMA NextAttemptMoves ==
  ASSUME Reading, NextAttempt
  PROVE  Moves
<1>1. CASE attempt < Retries
  <2>1. attempt \in 1..Retries /\ attempt' = attempt + 1 /\ at' = 2
    BY <1>1 DEF NextAttempt, Reading, Opening
  <2>2. attempt' \in 1..Retries
    BY <1>1, <2>1, RetriesAssumption
  <2>3. poll' = poll /\ ended' = ended
    BY <1>1 DEF NextAttempt
  <2>4. at' \in 1..13
    BY <2>1
  <2> QED BY <2>2, <2>3, <2>4 DEF Moves, Reading
<1>2. CASE ~(attempt < Retries)
  <2>1. at' = at /\ attempt' = attempt /\ Raises
    BY <1>2 DEF NextAttempt
  <2> QED BY <2>1, RaisesMoves
<1> QED BY <1>1, <1>2

LEMMA TakeTypes ==
  ASSUME Reading, NEW own \in BOOLEAN, NEW value \in Generations, Take(own, value)
  PROVE  Reading'
<1>1. Script[at].reg \in Registers /\ "GENERATION" \in Registers
  <2>1. Script[2].reg = "GENERATION"
    BY DEF Script
  <2>2. at \in 1..13
    BY DEF Reading
  <2>3. \A i \in 1..13 : Script[i].reg \in Registers
    BY ScriptShape
  <2> QED BY <2>1, <2>2, <2>3
<1>2. ASSUME at = 1, TakeCapabilities(own)
      PROVE  /\ Moves /\ capabilities' \in {"none", "with POWER", "without POWER"}
             /\ start' = start /\ on' = on /\ astray' = astray
  <2>1. attempt' = attempt /\ start' = start /\ on' = on /\ astray' = astray
    BY <1>2 DEF TakeCapabilities
  <2>2. GoOn \/ (at' = at /\ Raises)
    BY <1>2 DEF TakeCapabilities
  <2>3. Moves
    BY <1>2, <2>1, <2>2, GoOnMoves, RaisesMoves
  <2> QED BY <1>2, <2>1, <2>3 DEF TakeCapabilities
<1>3. ASSUME at = 2, TakeGeneration(own, value)
      PROVE  /\ Moves /\ capabilities' = capabilities /\ start' \in Generations /\ on' = on
             /\ astray' \subseteq Registers
  <2>1. NextAttempt \/ (GoOn /\ attempt' = attempt)
    BY <1>3 DEF TakeGeneration
  <2>2. Moves
    BY <1>3, <2>1, GoOnMoves, NextAttemptMoves
  <2> QED BY <1>1, <1>3, <2>2 DEF TakeGeneration
<1>4. ASSUME at = 13, TakeGenerationAgain(own, value)
      PROVE  /\ Moves /\ capabilities' = capabilities /\ start' = start /\ on' = on
             /\ astray' \subseteq Registers
  <2>1. CASE NextAttempt
    BY <2>1, NextAttemptMoves, <1>1, <1>4 DEF TakeGenerationAgain, Reading
  <2>2. CASE /\ poll' = on /\ ended' = (IF on = "yes" THEN "yes" ELSE ended)
             /\ UNCHANGED <<at, attempt>>
    <3>1. Moves
      BY <2>2 DEF Moves, Reading
    <3> QED BY <1>1, <1>4, <3>1 DEF TakeGenerationAgain, Reading
  <2> QED BY <1>4, <2>1, <2>2 DEF TakeGenerationAgain
<1>5. ASSUME at \notin {1, 2, 13}, TakeField(own, value)
      PROVE  /\ Moves /\ capabilities' = capabilities /\ start' = start
             /\ on' \in {"yes", "no"} /\ astray' \subseteq Registers
  <2>1. attempt' = attempt /\ (GoOn \/ (at' = at /\ Raises))
    BY <1>5 DEF TakeField
  <2>2. Moves
    BY <1>5, <2>1, GoOnMoves, RaisesMoves
  <2>3. on' \in {"yes", "no"} /\ astray' \subseteq Registers
    BY <1>1, <1>5 DEF TakeField, Reading
  <2> QED BY <1>5, <2>2, <2>3 DEF TakeField
<1>6. \/ at = 1 /\ TakeCapabilities(own)
      \/ at = 2 /\ TakeGeneration(own, value)
      \/ at = 13 /\ TakeGenerationAgain(own, value)
      \/ at \notin {1, 2, 13} /\ TakeField(own, value)
  BY ScriptShape DEF Take
<1>7. /\ Moves /\ capabilities' \in {"none", "with POWER", "without POWER"}
      /\ start' \in Generations /\ on' \in {"yes", "no"} /\ astray' \subseteq Registers
  BY <1>2, <1>3, <1>4, <1>5, <1>6 DEF Reading
<1> QED BY <1>7 DEF Moves, Reading

LEMMA TInvStep == TInv /\ [Next]_vars => TInv'
<1> SUFFICES ASSUME TInv, [Next]_vars PROVE TInv'
  OBVIOUS
<1>1. /\ owed \in Seq(Replies) /\ Len(owed) \in Nat /\ Line /\ Reading
  BY DEF TInv, Line
<1>2. CASE UNCHANGED vars
  BY <1>1, <1>2 DEF vars, pollVars, TInv, Line, Reading, Lag
<1>3. CASE HalfPass
  <2>1. /\ generation' \in Generations
        /\ seen \in 0..generation' /\ since \in 0..generation'
    BY <1>1, <1>3, BoundsAssumption DEF HalfPass, Line, Generations
  <2>2. Reading'
    BY <1>1, <1>3 DEF HalfPass, pollVars, Reading
  <2> QED BY <1>1, <1>3, <2>1, <2>2 DEF HalfPass, TInv, Line, Lag
<1>4. ASSUME NEW i \in 1..Len(owed), Lose(i) PROVE TInv'
  <2>1. owed' \in Seq(Replies) /\ Len(owed') = Len(owed) - 1
    BY <1>1, <1>4, RemoveAtSeq DEF Lose
  <2>2. Reading'
    BY <1>1, <1>4 DEF Lose, pollVars, Reading
  <2> QED BY <1>1, <1>4, <2>1, <2>2, BoundsAssumption DEF Lose, TInv, Line, Lag
<1>5. CASE Poll
  <2>1. Reading'
    <3>1. CASE capabilities = "without POWER"
      BY <1>1, <1>5, <3>1 DEF Poll, Reading
    <3>2. CASE capabilities # "without POWER"
      <4>1. (at' = 1 \/ at' = 2) /\ attempt' = 1 /\ astray' = {} /\ poll' = "reading"
        BY <1>5, <3>2 DEF Poll, Opening
      <4>2. at' \in 1..13 /\ attempt' \in 1..Retries
        BY <4>1, RetriesAssumption
      <4> QED BY <1>1, <1>5, <4>1, <4>2 DEF Poll, Reading
    <3> QED BY <3>1, <3>2
  <2>2. since' \in 0..generation
    <3>1. since' = since \/ since' = generation
      BY <1>5 DEF Poll
    <3> QED BY <3>1, GenerationsAreNat
  <2>3. Line'
    BY <1>1, <1>5, <2>2 DEF Poll, Line, Lag
  <2> QED BY <2>1, <2>3 DEF TInv
<1>6. CASE GiveUp
  BY <1>1, <1>6 DEF GiveUp, pollVars, TInv, Line, Reading, Lag
<1>7. CASE Ask
  <2>1. [read |-> Script[at], sent |-> generation] \in Replies
    BY <1>1, ScriptShape DEF Replies, Reading, Line
  <2>2. owed' \in Seq(Replies) /\ Len(owed') = Len(owed) + 1
    BY <1>1, <1>7, <2>1, AppendSeq DEF Ask
  <2>3. Reading'
    BY <1>1, <1>7 DEF Ask, pollVars, Reading
  <2> QED BY <1>1, <1>7, <2>2, <2>3 DEF Ask, TInv, Line, Lag
<1>8. CASE Timeout
  <2>1. Reading'
    BY <1>1, <1>8 DEF Timeout, Raises, pollVars, Reading
  <2>2. late' \in 0..MaxLate /\ Lag' <= late'
    <3>1. phase = "waiting" /\ phase' = "idle" /\ owed' = owed /\ late \in 0..MaxLate
          /\ Lag <= late
      BY <1>1, <1>8 DEF Timeout, Line
    <3>2. CASE owed = << >>
      BY <1>8, <3>1, <3>2 DEF Timeout, Lag
    <3>3. CASE owed # << >>
      BY <1>1, <1>8, <3>1, <3>3, BoundsAssumption DEF Timeout, Lag
    <3> QED BY <3>2, <3>3
  <2> QED BY <1>1, <1>8, <2>1, <2>2 DEF Timeout, TInv, Line
<1>9. CASE Receive
  <2>1. owed' \in Seq(Replies) /\ Len(owed') = Len(owed) - 1
    BY <1>1, <1>9, TailSeq DEF Receive
  <2>2. seen' \in 0..generation' /\ generation' = generation
    BY <1>9 DEF Receive
  <2>3. Reading'
    <3>1. seen' \in Generations
      BY <1>1, <2>2, BoundsAssumption DEF Line, Generations
    <3>2. CASE Head(owed).read.size = Script[at].size
      <4>1. Take(Head(owed).read.reg = Script[at].reg, seen')
        BY <1>9, <3>2 DEF Receive
      <4> QED BY <1>1, <3>1, <4>1, TakeTypes
    <3>3. CASE Head(owed).read.size # Script[at].size
      BY <1>1, <1>9, <3>3 DEF Receive, Raises, pollVars, Reading
    <3> QED BY <3>2, <3>3
  <2> QED BY <1>1, <1>9, <2>1, <2>2, <2>3 DEF Receive, TInv, Line, Lag
<1> QED BY <1>2, <1>3, <1>4, <1>5, <1>6, <1>7, <1>8, <1>9 DEF Next, Client

\* Every variable of the poll has its type: replies are kept in order, none is owed but
\* those that came late and the one that is awaited.
THEOREM TypeCorrect == Spec => []TypeOK
<1>1. Spec => []TInv
  BY TInvInit, TInvStep, PTL DEF Spec
<1> QED BY <1>1, TInvTypes, PTL

-----------------------------------------------------------------------------
(* What a poll returns.                                                    *)

\* While nothing is lost in a lagging poll, the lag stays what it was, and the replies
\* owed are those of the last reads of the attempt, in order, after older ones.  With a
\* lag from one to ten, the reads do not get past the one that shows it.  Without one,
\* every reply is the answer to the read that waits for it.
Lined ==
  poll = "reading" /\ gap = "no" =>
    /\ phase = "waiting" /\ owed # << >> => owed[Lag + 1].read = Script[at]
    /\ \A d \in 1..Lag : at - d >= Opening => owed[Lag + 1 - d].read = Script[at - d]
    /\ Lag \in 1..10 => at <= Mismatch[Lag]
    /\ Lag = 0 => astray = {}

\* At most ten replies are owed when a poll begins, and every read takes one of them:
\* at the closing generation all that are owed were asked for within the poll.
Asked ==
  poll = "reading" => \A i \in 1..Len(owed) : i + at > 12 => owed[i].sent >= since

\* What the registers of an attempt say of the board, if they are those asked for: it was
\* on at the generation that opened the attempt, or that is no longer the generation.
Held ==
  poll = "reading" /\ astray \cap Judged = {} =>
    /\ at >= 3 => start <= seen /\ ~InPass(start)
    /\ at > 3 /\ on = "yes" => start \in On \/ start < seen

Returned ==
  /\ poll \in {"yes", "no"} /\ gap = "no" => owed = << >> /\ astray = {}
  /\ ended = "yes" => poll = "yes"
  /\ poll = "yes" /\ astray \cap Judged = {} => WasOn

PInv == TInv /\ Lined /\ Asked /\ Held /\ Returned

\* The oldest reply, when it is read: of a read Lag before, in the same attempt.
LEMMA OldestReply ==
  ASSUME TInv, Lined, phase = "waiting", gap = "no", owed # << >>
  PROVE  /\ Lag \in Nat /\ Len(owed) = Lag + 1 /\ Head(owed) = owed[1]
         /\ at - Lag >= Opening \/ Lag = 0 => Head(owed).read = Script[at - Lag]
<1>1. /\ owed \in Seq(Replies) /\ poll = "reading" /\ at \in 1..13
  BY DEF TInv, Line, Reading
<1>2. Len(owed) \in Nat \ {0} /\ Head(owed) = owed[1]
  BY <1>1, TailSeq
<1>3. Lag \in Nat /\ Len(owed) = Lag + 1
  BY <1>2 DEF Lag
<1> HIDE DEF Lag
<1>4. CASE Lag = 0
  <2>1. owed[Lag + 1].read = Script[at]
    BY <1>1 DEF Lined
  <2>2. Lag + 1 = 1 /\ at - Lag = at
    BY <1>1, <1>4
  <2> QED BY <1>2, <1>3, <2>1, <2>2
<1>5. CASE Lag # 0
  <2>1. Lag \in 1..Lag /\ Lag + 1 - Lag = 1
    BY <1>3, <1>5
  <2>2. at - Lag >= Opening => owed[Lag + 1 - Lag].read = Script[at - Lag]
    BY <1>1, <2>1 DEF Lined
  <2> QED BY <1>2, <1>3, <1>5, <2>1, <2>2
<1> QED BY <1>4, <1>5

\* Where a reply that is taken leaves read_power: reading on, out with an exception, or,
\* at the closing generation, back with the snapshot.
Outcome ==
  \/ poll' = "reading" /\ (at' = at + 1 \/ at' = Opening) /\ ended' = ended
  \/ poll' = "unknown" /\ ended' = ended
  \/ at = 13 /\ poll' = on /\ ended' = IF on = "yes" THEN "yes" ELSE ended

LEMMA TakeOutcome ==
  ASSUME Reading, poll = "reading", NEW own \in BOOLEAN, NEW value, Take(own, value)
  PROVE  Outcome
<1>1. \/ at = 1 /\ TakeCapabilities(own)
      \/ at = 2 /\ TakeGeneration(own, value)
      \/ at = 13 /\ TakeGenerationAgain(own, value)
      \/ at \notin {1, 2, 13} /\ TakeField(own, value)
  BY ScriptShape DEF Take
<1>2. ASSUME GoOn PROVE Outcome
  BY <1>2 DEF GoOn, Outcome
<1>3. ASSUME Raises PROVE Outcome
  BY <1>3 DEF Raises, Outcome
<1>4. ASSUME NextAttempt PROVE Outcome
  BY <1>3, <1>4 DEF NextAttempt, Outcome
<1>5. \/ GoOn \/ Raises \/ NextAttempt
      \/ at = 13 /\ poll' = on /\ ended' = IF on = "yes" THEN "yes" ELSE ended
  BY <1>1 DEF TakeCapabilities, TakeGeneration, TakeGenerationAgain, TakeField
<1> QED BY <1>2, <1>3, <1>4, <1>5 DEF Outcome

\* Answers of their own leave nothing astray.
LEMMA TakeOwn ==
  ASSUME astray = {}, NEW value, Take(TRUE, value)
  PROVE  astray' = {}
  BY DEF Take, TakeCapabilities, TakeGeneration, TakeField, TakeGenerationAgain

\* What the fields say of the board, reply by reply.
LEMMA TakeHeld ==
  ASSUME Reading, poll = "reading", Held, NEW own \in BOOLEAN, NEW value \in Nat,
         start \in Nat, seen \in Nat, seen <= value, seen' = value, Take(own, value),
         astray' \cap Judged = {}
  PROVE  /\ Held'
         /\ poll' = "yes" => at = 13 /\ start \in On /\ start = value
<1>1. \/ at = 1 /\ TakeCapabilities(own)
      \/ at = 2 /\ TakeGeneration(own, value)
      \/ at = 13 /\ TakeGenerationAgain(own, value)
      \/ at \notin {1, 2, 13} /\ TakeField(own, value)
  BY ScriptShape DEF Take
<1>2. at \in 1..13 /\ on \in {"yes", "no"}
  BY DEF Reading
<1>n. ASSUME NextAttempt PROVE Held' /\ poll' # "yes"
  <2>1. poll' = "unknown" \/ (at' = 2 /\ poll' = "reading")
    BY <1>n, ScriptShape DEF NextAttempt, Raises
  <2> QED BY <2>1 DEF Held
<1>r. ASSUME Raises PROVE Held' /\ poll' # "yes"
  BY <1>r DEF Raises, Held
<1>3. CASE at = 1 /\ TakeCapabilities(own)
  <2>1. CASE GoOn
    <3>1. at' = 2 /\ poll' = "reading"
      BY <1>3, <2>1 DEF GoOn
    <3> QED BY <3>1 DEF Held
  <2> QED BY <1>3, <1>r, <2>1 DEF TakeCapabilities
<1>4. CASE at = 2 /\ TakeGeneration(own, value)
  <2>1. CASE (own => ~InPass(value)) /\ GoOn
    <3>1. at' = 3 /\ poll' = "reading" /\ start' = value
      BY <1>4, <2>1 DEF GoOn, TakeGeneration
    <3>2. own
      BY <1>4 DEF TakeGeneration, Judged
    <3> QED BY <2>1, <3>1, <3>2 DEF Held
  <2> QED BY <1>4, <1>n, <2>1 DEF TakeGeneration
<1>5. CASE at \notin {1, 2, 13} /\ TakeField(own, value)
  <2>1. at \in 3..12 /\ astray \subseteq astray' /\ start' = start
    BY <1>2, <1>5 DEF TakeField
  <2>2. astray \cap Judged = {}
    BY <2>1
  <2>3. /\ start <= seen /\ ~InPass(start)
        /\ at > 3 /\ on = "yes" => start \in On \/ start < seen
    BY <2>1, <2>2 DEF Held
  <2>4. on' = "yes" => start \in On \/ start < value
    <3>1. CASE at = 3
      <4>1. Script[at].reg = "FSM_STATE"
        BY <3>1 DEF Script
      <4>2. own
        BY <1>5, <4>1 DEF TakeField, Judged
      <4>3. on' = "yes" => InPass(value) \/ value \in On
        BY <1>5, <4>1, <4>2 DEF TakeField
      <4>4. start = value \/ start < value
        BY <2>3
      <4> QED BY <2>3, <4>3, <4>4
    <3>2. CASE at # 3
      <4>1. at \in 4..12
        BY <2>1, <3>2
      <4>2. \A i \in 4..12 : Script[i].reg # "FSM_STATE"
        BY DEF Script
      <4>3. on' = on
        BY <1>5, <4>1, <4>2 DEF TakeField
      <4> QED BY <2>3, <4>1, <4>3
    <3> QED BY <3>1, <3>2
  <2>5. CASE GoOn
    <3>1. at' = at + 1 /\ poll' = "reading"
      BY <2>5 DEF GoOn
    <3>2. start' <= seen' /\ ~InPass(start')
      BY <2>1, <2>3
    <3> QED BY <2>1, <2>4, <3>1, <3>2 DEF Held
  <2> QED BY <1>5, <1>r, <2>5 DEF TakeField
<1>6. CASE at = 13 /\ TakeGenerationAgain(own, value)
  <2>1. own /\ "GENERATION" \notin astray /\ astray' = astray
    BY <1>6 DEF TakeGenerationAgain, Judged
  <2>2. CASE value = start /\ poll' = on
    <3>1. start <= seen /\ (on = "yes" => start \in On \/ start < seen)
      BY <1>6, <2>1 DEF Held
    <3>2. start = seen
      BY <2>2, <3>1
    <3>3. poll' # "reading"
      BY <1>2, <2>2
    <3> QED BY <1>6, <2>2, <3>1, <3>2, <3>3 DEF Held
  <2> QED BY <1>6, <1>n, <2>1, <2>2 DEF TakeGenerationAgain
<1> QED BY <1>1, <1>3, <1>4, <1>5, <1>6

\* A reply that is read leaves the younger ones where they are counted.
LEMMA AskedReceive ==
  ASSUME TInv, Asked, Receive PROVE Asked'
<1>1. /\ owed \in Seq(Replies) /\ owed # << >> /\ owed' = Tail(owed)
      /\ poll = "reading" /\ at \in 1..13 /\ since' = since
  BY DEF Receive, TInv, Line, Reading
<1>2. /\ Len(owed) \in Nat /\ Len(owed') = Len(owed) - 1
      /\ \A j \in 1..(Len(owed) - 1) : owed'[j] = owed[j + 1]
  BY <1>1, TailSeq
<1>3. poll' = "reading" => at' = at + 1 \/ at' = 2
  <2>1. CASE Head(owed).read.size = Script[at].size
    <3> PICK own \in BOOLEAN : own = (Head(owed).read.reg = Script[at].reg)
      OBVIOUS
    <3>1. Take(own, seen')
      BY <2>1 DEF Receive
    <3>2. Reading
      BY DEF TInv
    <3>3. Outcome
      BY <1>1, <3>1, <3>2, TakeOutcome
    <3>4. on # "reading"
      BY <3>2 DEF Reading
    <3> QED BY <3>3, <3>4, ScriptShape DEF Outcome
  <2>2. CASE Head(owed).read.size # Script[at].size
    BY <2>2 DEF Receive, Raises
  <2> QED BY <2>1, <2>2
<1>4. SUFFICES ASSUME poll' = "reading", NEW i \in 1..Len(owed'), i + at' > 12
               PROVE  owed'[i].sent >= since
  BY <1>1 DEF Asked
<1>5. i + 1 \in 1..Len(owed) /\ owed'[i] = owed[i + 1]
  BY <1>2
<1>6. (i + 1) + at > 12
  BY <1>1, <1>2, <1>3, <1>4
<1> QED BY <1>1, <1>5, <1>6 DEF Asked

LEMMA PInvReceive ==
  ASSUME MaxLate <= 10, TInv, TInv', Lined, Held, Asked, Returned, Receive
  PROVE  Lined' /\ Held' /\ Returned'
<1>1. /\ phase = "waiting" /\ phase' = "idle" /\ owed # << >> /\ owed' = Tail(owed)
      /\ gap' = gap /\ generation' = generation /\ since' = since
      /\ poll = "reading" /\ ended # "yes"
      /\ seen' \in 0..generation /\ seen' >= seen /\ seen' >= Head(owed).sent
  BY DEF Receive, TInv, Line, Returned
<1>2. CASE Head(owed).read.size # Script[at].size
  <2>1. poll' = "unknown" /\ ended' = ended
    BY <1>2 DEF Receive, Raises
  <2> QED BY <1>1, <2>1 DEF Lined, Held, Returned
<1>3. CASE Head(owed).read.size = Script[at].size
  <2> PICK own \in BOOLEAN : own = (Head(owed).read.reg = Script[at].reg)
    OBVIOUS
  <2>1. Take(own, seen')
    BY <1>3 DEF Receive
  <2>2. Reading /\ at \in 1..13 /\ Outcome
    BY <1>1, <2>1, TakeOutcome DEF TInv, Reading
  <2>h. /\ Held'
        /\ poll' = "yes" /\ astray' \cap Judged = {} => WasOn'
    <3>1. CASE astray' \cap Judged # {}
      BY <3>1 DEF Held
    <3>2. CASE astray' \cap Judged = {}
      <4>1. start \in Nat /\ seen \in Nat /\ seen' \in Nat /\ generation \in Nat /\ since \in Nat
        BY <1>1, GenerationsAreNat
      <4>2. /\ Held'
            /\ poll' = "yes" => at = 13 /\ start \in On /\ start = seen'
        BY <1>1, <2>1, <2>2, <3>2, <4>1, TakeHeld
      <4>3. at = 13 => Head(owed).sent >= since
        <5>1. owed \in Seq(Replies)
          BY DEF TInv, Line
        <5>2. Head(owed) = owed[1] /\ 1 \in 1..Len(owed)
          BY <1>1, <5>1, TailSeq
        <5> QED BY <1>1, <5>2 DEF Asked
      <4>4. Head(owed).sent \in Nat
        <5>1. owed \in Seq(Replies)
          BY DEF TInv, Line
        <5>2. Head(owed) \in Replies
          BY <1>1, <5>1, TailSeq
        <5> QED BY <5>2, BoundsAssumption DEF Replies, Generations
      <4>5. poll' = "yes" => start \in since..generation /\ start \in On
        BY <1>1, <4>1, <4>2, <4>3, <4>4
      <4> QED BY <1>1, <4>2, <4>5 DEF WasOn
    <3> QED BY <3>1, <3>2
  <2>3. CASE gap = "yes"
    <3>1. Lined'
      BY <1>1, <2>3 DEF Lined
    <3> QED BY <1>1, <2>2, <2>3, <2>h, <3>1 DEF Returned, Outcome
  <2>4. CASE gap # "yes"
    <3>1. gap = "no"
      BY <2>4 DEF TInv, Line
    <3>2. /\ Lag \in Nat /\ Len(owed) = Lag + 1 /\ Head(owed) = owed[1]
          /\ at - Lag >= Opening \/ Lag = 0 => Head(owed).read = Script[at - Lag]
      BY <1>1, <3>1, OldestReply
    <3>3. Lag \in 0..10
      <4>1. Lag <= late /\ late \in 0..MaxLate
        BY DEF TInv, Line
      <4> HIDE DEF Lag
      <4> QED BY <3>2, <4>1, BoundsAssumption
    <3>4. /\ Lag' = Lag /\ Len(owed') = Lag
          /\ \A j \in 1..Lag : owed'[j] = owed[j + 1]
      <4>1. owed \in Seq(Replies)
        BY DEF TInv, Line
      <4>2. Len(owed') = Len(owed) - 1 /\ \A j \in 1..(Len(owed) - 1) : owed'[j] = owed[j + 1]
        BY <1>1, <4>1, TailSeq
      <4>3. Len(owed) - 1 = Lag
        BY <3>2
      <4> QED BY <1>1, <4>2, <4>3 DEF Lag
    <3>5. Lag \in 1..10 => at < Mismatch[Lag] /\ Mismatch[Lag] \in 3..13
      <4> SUFFICES ASSUME Lag \in 1..10 PROVE at < Mismatch[Lag] /\ Mismatch[Lag] \in 3..13
        OBVIOUS
      <4>1. /\ Mismatch[Lag] \in 3..13 /\ Mismatch[Lag] - Lag \in Opening..13
            /\ Script[Mismatch[Lag] - Lag].size # Script[Mismatch[Lag]].size
        BY LagShows
      <4>2. at <= Mismatch[Lag]
        BY <1>1, <3>1 DEF Lined
      <4>3. at # Mismatch[Lag]
        <5> SUFFICES ASSUME at = Mismatch[Lag] PROVE FALSE
          OBVIOUS
        <5>1. at - Lag >= Opening
          BY <4>1, ScriptShape
        <5> QED BY <1>3, <3>2, <4>1, <5>1
      <4> QED BY <2>2, <4>1, <4>2, <4>3
    <3>6. ASSUME Lag = 0 PROVE astray' = {}
      <4>1. Head(owed).read = Script[at]
        <5>1. at - Lag = at
          BY <2>2, <3>6
        <5> QED BY <3>2, <3>6, <5>1
      <4>2. own = TRUE
        BY <4>1
      <4>3. astray = {}
        BY <1>1, <3>1, <3>6 DEF Lined
      <4> QED BY <2>1, <4>2, <4>3, TakeOwn
    <3>7. Lined'
      <4> SUFFICES ASSUME poll' = "reading" PROVE Lined'
        BY DEF Lined
      <4>1. at' = at + 1 \/ at' = 2
        <5>1. poll' = on => on = "reading"
          OBVIOUS
        <5> QED BY <2>2, <5>1, ScriptShape DEF Outcome, Reading
      <4>2. ASSUME NEW d \in 1..Lag, at' - d >= 2
            PROVE  owed'[Lag + 1 - d].read = Script[at' - d]
        <5>1. at' = at + 1
          BY <3>2, <4>1, <4>2
        <5>2. Lag + 1 - d \in 1..Lag /\ owed'[Lag + 1 - d] = owed[Lag + 1 - d + 1]
          BY <3>2, <3>4
        <5>3. CASE d = 1
          <6>1. owed[Lag + 1].read = Script[at]
            BY <1>1, <3>1 DEF Lined
          <6>2. Lag + 1 - d + 1 = Lag + 1 /\ at' - d = at
            BY <2>2, <3>2, <5>1, <5>3
          <6> QED BY <5>2, <6>1, <6>2
        <5>4. CASE d # 1
          <6>1. d - 1 \in 1..Lag /\ at - (d - 1) >= 2
            BY <2>2, <3>2, <4>2, <5>1, <5>4
          <6>2. owed[Lag + 1 - (d - 1)].read = Script[at - (d - 1)]
            BY <1>1, <3>1, <6>1, ScriptShape DEF Lined
          <6>3. Lag + 1 - d + 1 = Lag + 1 - (d - 1) /\ at' - d = at - (d - 1)
            BY <2>2, <3>2, <5>1
          <6> QED BY <5>2, <6>2, <6>3
        <5> QED BY <5>3, <5>4
      <4>3. Lag \in 1..10 => at' <= Mismatch[Lag]
        BY <2>2, <3>5, <4>1
      <4>4. Lag = 0 => astray' = {}
        BY <3>6
      <4>5. \A d \in 1..Lag : at' - d >= Opening => owed'[Lag + 1 - d].read = Script[at' - d]
        BY <4>2, ScriptShape
      <4> HIDE DEF Lag
      <4> QED BY <1>1, <3>4, <4>3, <4>4, <4>5 DEF Lined
    <3>8. Returned'
      <4>1. CASE poll' \in {"reading", "unknown"} /\ ended' = ended
        BY <1>1, <4>1 DEF Returned
      <4>2. CASE at = 13 /\ poll' = on /\ ended' = IF on = "yes" THEN "yes" ELSE ended
        <5>1. Lag = 0
          BY <3>3, <3>5, <4>2
        <5>2. owed' = << >>
          <6>1. owed' \in Seq(Replies) /\ Len(owed') = 0
            BY <3>4, <5>1 DEF TInv, Line
          <6> QED BY <6>1, EmptySeq
        <5>3. astray' = {}
          BY <3>6, <5>1
        <5> QED BY <1>1, <2>h, <4>2, <5>2, <5>3 DEF Returned
      <4> QED BY <2>2, <4>1, <4>2 DEF Outcome
    <3> QED BY <2>h, <3>7, <3>8
  <2> QED BY <2>3, <2>4
<1> QED BY <1>2, <1>3

LEMMA PInvInit == Init => PInv
  BY TInvInit DEF Init, PInv, Lined, Asked, Held, Returned

LEMMA PInvStep == MaxLate <= 10 /\ PInv /\ [Next]_vars => PInv'
<1> SUFFICES ASSUME MaxLate <= 10, PInv, [Next]_vars PROVE PInv'
  OBVIOUS
<1>1. TInv /\ TInv' /\ Lined /\ Asked /\ Held /\ Returned
  BY TInvStep DEF PInv
<1> SUFFICES Lined' /\ Asked' /\ Held' /\ Returned'
  BY <1>1 DEF PInv
<1>2. CASE UNCHANGED vars
  BY <1>1, <1>2 DEF vars, pollVars, Lined, Asked, Held, Returned, WasOn, Lag
<1>3. CASE HalfPass
  <2>1. Lag' = Lag
    BY <1>3 DEF HalfPass, Lag
  <2>2. Lined' /\ Asked' /\ Held'
    BY <1>1, <1>3, <2>1 DEF HalfPass, pollVars, Lined, Asked, Held
  <2>3. generation \in Nat /\ since \in Nat
    BY <1>1, GenerationsAreNat
  <2>4. WasOn => WasOn'
    BY <1>3, <2>3 DEF HalfPass, WasOn
  <2> QED BY <1>1, <1>3, <2>2, <2>4 DEF HalfPass, pollVars, Returned
<1>4. ASSUME NEW i \in 1..Len(owed), Lose(i)
      PROVE  Lined' /\ Asked' /\ Held' /\ Returned'
  <2>1. owed # << >> /\ owed \in Seq(Replies) /\ owed' = RemoveAt(owed, i)
    BY <1>1, <1>4 DEF Lose, TInv, Line
  <2>2. /\ poll' = poll /\ ended' = ended /\ astray' = astray /\ generation' = generation
        /\ phase' = phase /\ since' = since /\ start' = start /\ seen' = seen /\ on' = on
        /\ at' = at /\ gap' = IF poll = "reading" /\ Lag > 0 THEN "yes" ELSE gap
    BY <1>4 DEF Lose, pollVars
  <2>3. ~(poll \in {"yes", "no"} /\ gap = "no")
    BY <1>1, <2>1 DEF Returned
  <2>4. Returned'
    <3>1. gap = "no" => poll \notin {"yes", "no"}
      BY <2>3
    <3>2. gap' = "no" => gap = "no"
      BY <2>2
    <3>3. WasOn' = WasOn
      BY <2>2 DEF WasOn
    <3> QED BY <1>1, <2>2, <3>1, <3>2, <3>3 DEF Returned
  <2>5. Held'
    BY <1>1, <2>2 DEF Held
  <2>6. /\ Len(owed) \in Nat /\ Len(owed') = Len(owed) - 1
        /\ \A j \in 1..Len(owed') :
             \/ j \in 1..Len(owed) /\ owed'[j] = owed[j]
             \/ j + 1 \in 1..Len(owed) /\ owed'[j] = owed[j + 1]
    <3>1. /\ Len(RemoveAt(owed, i)) = Len(owed) - 1
          /\ \A j \in 1..(Len(owed) - 1) :
               \/ j \in 1..Len(owed) /\ RemoveAt(owed, i)[j] = owed[j]
               \/ j + 1 \in 1..Len(owed) /\ RemoveAt(owed, i)[j] = owed[j + 1]
      BY <2>1, RemoveAtSeq, Zenon
    <3>2. Len(owed) \in Nat
      BY <2>1
    <3> QED BY <2>1, <3>1, <3>2
  <2>7. Asked'
    <3> SUFFICES ASSUME poll = "reading", NEW j \in 1..Len(owed'), j + at > 12
                 PROVE  owed'[j].sent >= since
      BY <2>2 DEF Asked
    <3>1. at \in 1..13
      BY <1>1 DEF TInv, Reading
    <3>2. (j + 1) + at > 12
      BY <2>6, <3>1
    <3> QED BY <1>1, <2>6, <3>2 DEF Asked
  <2>8. Lined'
    <3> SUFFICES ASSUME poll = "reading", ~(Lag > 0) PROVE Lined'
      BY <2>2 DEF Lined
    <3>1. Len(owed) = 1 /\ phase = "waiting"
      <4>1. Len(owed) # 0
        BY <2>1, EmptySeq
      <4>2. phase \in {"idle", "waiting"}
        BY <1>1 DEF TInv, Line
      <4> QED BY <2>6, <4>1, <4>2 DEF Lag
    <3>2. Len(owed') = 0 /\ Lag' = -1
      BY <2>2, <2>6, <3>1 DEF Lag
    <3>3. owed' = << >>
      <4>1. owed' \in Seq(Replies)
        BY <1>1 DEF TInv, Line
      <4> QED BY <3>2, <4>1, EmptySeq
    <3> QED BY <3>2, <3>3 DEF Lined
  <2> QED BY <2>4, <2>5, <2>7, <2>8
<1>5. CASE Poll
  <2>1. CASE capabilities = "without POWER"
    BY <1>1, <1>5, <2>1 DEF Poll, Lined, Asked, Held, Returned
  <2>2. CASE capabilities # "without POWER"
    <3>1. /\ poll' = "reading" /\ (at' = 1 \/ at' = 2) /\ astray' = {} /\ ended' = "waiting"
          /\ owed' = owed /\ phase' = phase
      BY <1>5, <2>2 DEF Poll, Opening
    <3>2. phase = "idle" /\ Lag' = Lag
      BY <1>1, <1>5, <3>1 DEF Poll, TInv, Line, Lag
    <3>3. Lag \in Int
      BY <1>1 DEF TInv, Line, Lag
    <3>4. \A d \in 1..Lag : ~(at' - d >= Opening)
      <4>1. \A d \in 1..Lag : ~(at' - d >= 2)
        <5> HIDE DEF Lag
        <5> QED BY <3>1, <3>3
      <4> QED BY <4>1, ScriptShape
    <3>5. Lag \in 1..10 => at' <= Mismatch[Lag]
      BY <3>1, LagShows
    <3>6. Asked'
      <4>1. Lag <= 10 /\ Lag = Len(owed)
        BY <1>1, <3>2, BoundsAssumption DEF TInv, Line, Lag
      <4> QED BY <3>1, <4>1 DEF Asked
    <3>7. Held'
      BY <3>1 DEF Held
    <3> QED BY <3>1, <3>2, <3>4, <3>5, <3>6, <3>7 DEF Lined, Returned
  <2> QED BY <2>1, <2>2
<1>6. CASE GiveUp
  BY <1>1, <1>6 DEF GiveUp, pollVars, Lined, Asked, Held, Returned, WasOn, Lag
<1>7. CASE Ask
  <2>1. /\ poll = "reading" /\ poll' = poll /\ gap' = gap /\ at' = at /\ on' = on
        /\ astray' = astray /\ ended' = ended /\ generation' = generation
        /\ since' = since /\ start' = start /\ seen' = seen
        /\ phase = "idle" /\ phase' = "waiting"
        /\ owed' = Append(owed, [read |-> Script[at], sent |-> generation])
    BY <1>7 DEF Ask, pollVars
  <2>2. /\ owed \in Seq(Replies) /\ at \in 1..13 /\ generation \in Generations
        /\ generation \in Nat /\ since \in Nat /\ since <= generation
    BY <1>1, GenerationsAreNat DEF TInv, Line, Reading
  <2>3. [read |-> Script[at], sent |-> generation] \in Replies
    BY <2>2, ScriptShape DEF Replies
  <2>4. /\ Len(owed') = Len(owed) + 1 /\ Len(owed) \in Nat
        /\ owed'[Len(owed) + 1] = [read |-> Script[at], sent |-> generation]
        /\ \A j \in 1..Len(owed) : owed'[j] = owed[j]
    BY <2>1, <2>2, <2>3, AppendSeq
  <2>5. Lag = Len(owed) /\ Lag' = Lag /\ Lag \in Nat
    BY <2>1, <2>4 DEF Lag
  <2> HIDE DEF Lag
  <2>6. owed'[Lag + 1].read = Script[at]
    BY <2>4, <2>5
  <2>7. \A d \in 1..Lag : Lag + 1 - d \in 1..Lag
    BY <2>5
  <2>8. \A d \in 1..Lag : owed'[Lag + 1 - d] = owed[Lag + 1 - d]
    BY <2>4, <2>5, <2>7
  <2>9. Lined'
    <3> SUFFICES ASSUME gap = "no" PROVE Lined'
      BY <2>1 DEF Lined
    <3>1. owed'[Lag' + 1].read = Script[at']
      BY <2>1, <2>5, <2>6
    <3>2. \A d \in 1..Lag' : at' - d >= Opening => owed'[Lag' + 1 - d].read = Script[at' - d]
      BY <1>1, <2>1, <2>5, <2>8 DEF Lined
    <3>3. /\ Lag' \in 1..10 => at' <= Mismatch[Lag']
          /\ Lag' = 0 => astray' = {}
      BY <1>1, <2>1, <2>5 DEF Lined
    <3> QED BY <3>1, <3>2, <3>3 DEF Lined
  <2>10. Asked'
    <3> SUFFICES ASSUME NEW j \in 1..Len(owed'), j + at > 12 PROVE owed'[j].sent >= since
      BY <2>1 DEF Asked
    <3>1. CASE j = Len(owed) + 1
      BY <2>2, <2>4, <3>1
    <3>2. CASE j # Len(owed) + 1
      <4>1. j \in 1..Len(owed)
        BY <2>4, <3>2
      <4> QED BY <1>1, <2>1, <2>4, <4>1 DEF Asked
    <3> QED BY <3>1, <3>2
  <2>11. Held'
    BY <1>1, <2>1 DEF Held
  <2> QED BY <1>1, <2>1, <2>9, <2>10, <2>11 DEF Returned
<1>8. CASE Timeout
  <2>1. /\ poll = "reading" /\ poll' = "unknown" /\ ended' = ended
    BY <1>1, <1>8 DEF Timeout, Raises, TInv, Line
  <2> QED BY <1>1, <2>1 DEF Lined, Asked, Held, Returned
<1>9. CASE Receive
  BY <1>1, <1>9, PInvReceive, AskedReceive
<1> QED BY <1>2, <1>3, <1>4, <1>5, <1>6, <1>7, <1>8, <1>9 DEF Next, Client

LEMMA PollInvariant == ASSUME MaxLate <= 10 PROVE Spec => []PInv
<1>1. PInv /\ [Next]_vars => PInv'
  BY PInvStep
<1> QED BY <1>1, PInvInit, PTL DEF Spec

\* While at most ten replies are late, a poll in which nothing is lost returns a snapshot
\* only on a line that is in step, with every field from its own register.  (Eleven is the
\* first lag at which the sizes agree: the closing generation takes the opening one's reply.)
THEOREM SnapshotIsInStep == ASSUME MaxLate <= 10 PROVE Spec => []SnapshotMeansInStep
<1>1. PInv => SnapshotMeansInStep
  BY DEF PInv, Returned, SnapshotMeansInStep
<1> QED BY <1>1, PollInvariant, PTL

\* And however late or lost its replies, whatever the passes do to the board, a wait that
\* ends with status 0 has seen the board on within its last poll, unless that poll both
\* lost a reply while others were late and took a generation or the state from another
\* register.
THEOREM YesIsOn == ASSUME MaxLate <= 10 PROVE Spec => []YesMeansOn
<1>1. PInv => YesMeansOn
  <2>1. {} \cap Judged = {}
    OBVIOUS
  <2> QED BY <2>1 DEF PInv, Returned, YesMeansOn
<1> QED BY <1>1, PollInvariant, PTL

=============================================================================
