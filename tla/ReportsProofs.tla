--------------------------- MODULE ReportsProofs ---------------------------
(***************************************************************************)
(* Theorems about Reports, for any command lines, boards, clocks and       *)
(* layouts of a dump, and any number of changes and failures.              *)
(*                                                                         *)
(* The argument.  What is asked precedes what is still to do (Ordered), so *)
(* the reads of a device are made one after the other and, of a clock,     *)
(* phase by phase.  Every read of the plan that is no longer to do was     *)
(* answered, failed, or lost for a reason that can be named (Accounted);   *)
(* after a failed phase of a clock nothing more is read of it (GivenUp).   *)
(* Hence whoever comes to a clock's alarms has read all its configuration, *)
(* from the chip it takes it for, and still has it unless it was changed   *)
(* (MonitorsAgree); on such a configuration the tool's rules and what is   *)
(* wrong with the clock are the same (Rule5395, Rule5341).                 *)
(***************************************************************************)
EXTENDS Reports, SequenceTheorems, FiniteSetTheorems, WellFoundedInduction, TLAPS

Quiet ==
  /\ stage \in {"power", "revision"} => asked = {} /\ rev = 0
  /\ stage = "revision" => run.tool \in Gated
  /\ stage # "reads" => todo = {}
  /\ run.tool \notin Gated => rev = 0
  /\ run.tool \notin Predicates => mcu = {}

\* Only what is planned is read, and with the power seen.
Planned ==
  /\ asked \cup todo \subseteq Plan(run, rev)
  /\ stage \in {"revision", "reads"} \/ asked # {} => ~Expelled(run, saw)
  /\ stage = "exit" /\ status = 0 => ExitStatus = 0

Ordered ==
  /\ asked \cap todo = {}
  /\ \A u \in asked, v \in todo : Precedes(u.place, v.place)

\* The run has come to its reads.
Begun == stage = "reads" \/ (stage = "exit" /\ (status = 0 \/ asked # {}))

Failed(v) == v \in asked /\ (v.part = "note" \/ <<v.dev, v.part, "failed">> \in bad)
Lost(v) ==
  /\ v \notin asked
  /\ \E w \in asked :
       /\ w.dev = v.dev /\ Precedes(w.place, v.place) /\ w.part \in BadParts(v.dev)
       /\ w.part \in {v.part, "ready", "identity", "config", "verdict"}

Accounted ==
  Begun => \A v \in Plan(run, rev) \ todo : v \in answered \/ Withheld(v) \/ Failed(v) \/ Lost(v)

BadWasAsked ==
  \A b \in bad : \E u \in asked :
    b = <<u.dev, u.part, "problem">> \/ b = <<u.dev, u.part, "failed">>

\* The phases of a clock that the rest of it depends on, as they stand in the places.
Phase == [ready |-> 1, identity |-> 2, config |-> 3]

GivenUp ==
  run.tool \in ClockTools =>
    \A b \in bad : b[2] \in DOMAIN Phase =>
      /\ \A v \in todo : v.dev # b[1]
      /\ \A v \in asked : v.dev = b[1] => v.place[2] <= Phase[b[2]]

\* What has been read of a clock's configuration is still at hand and still true, unless it
\* was changed.
MonitorsAgree ==
  run.tool = "clock_checks" =>
    \A v \in todo, w \in answered :
      w.dev = v.dev /\ w.part = "config" /\ w.dev \notin moved =>
        \A f \in w.of : f \in DOMAIN monitors /\ monitors[f] = clock[w.dev].config[f]

SaysWhatChip(u) == u.kind = "identity" \/ (u.kind = "registers" /\ PartNumber \cap u.of # {})

Judged ==
  /\ \A u \in answered :
       SaysWhatChip(u) /\ WrongChip(u.dev) => <<u.dev, u.part, "problem">> \in bad
  /\ sick \subseteq moved \cup {b[1] : b \in bad}
  /\ run.tool = "clock_checks" =>
       \A c \in Named, check \in ToSet(run.checks) :
         <<c, check, "problem">> \in bad => c \in sick \cup moved

IInv ==
  /\ TypeOK /\ Quiet /\ Planned /\ Ordered /\ Accounted
  /\ BadWasAsked /\ GivenUp /\ MonitorsAgree /\ Judged
-----------------------------------------------------------------------------
(* The runs of a dump. *)

\* A nonempty set of naturals has a least element.
LEMMA LeastElement ==
  ASSUME NEW S \in SUBSET Nat, S # {}
  PROVE  \E x \in S : \A y \in S : x <= y
<1> DEFINE Upto(n) == 1..n
           T == {Upto(n) : n \in S}
<1>1. IsWellFoundedOn(StrictSubsetOrdering(Nat), FiniteSubsetsOf(Nat))
  BY FS_StrictSubsetOrderingWellFounded
<1>2. T \subseteq FiniteSubsetsOf(Nat) /\ T # {}
  <2>1. \A n \in S : IsFiniteSet(1..n) /\ 1..n \subseteq Nat
    BY FS_Interval
  <2> QED BY <2>1 DEF FiniteSubsetsOf
<1> HIDE DEF T
<1>3. PICK t \in T : \A u \in T : <<u, t>> \notin StrictSubsetOrdering(Nat)
  BY <1>1, <1>2, WFMin
<1>4. PICK x \in S : t = Upto(x)
  BY DEF T
<1>5. ASSUME NEW y \in S, y < x PROVE FALSE
  <2>1. Upto(y) \in T /\ Upto(y) \subseteq Upto(x) /\ Upto(y) # Upto(x)
    <3>1. x \in Upto(x) /\ x \notin Upto(y)
      BY <1>5
    <3>2. Upto(y) \subseteq Upto(x)
      BY <1>5
    <3> QED BY <3>1, <3>2 DEF T
  <2>2. <<Upto(y), t>> \in StrictSubsetOrdering(Nat)
    BY <1>4, <2>1 DEF StrictSubsetOrdering
  <2> QED BY <1>3, <2>1, <2>2
<1>6. \A y \in S : ~(y < x)
  BY <1>5
<1> QED BY <1>6

\* A multiple of p has no remainder.
LEMMA Times ==
  ASSUME NEW p \in Nat \ {0}, NEW k \in Nat, NEW q \in Nat, NEW r \in 0..(p - 1),
         p * k = (p * q) + r
  PROVE  r = 0
<1>1. CASE k = q
  BY <1>1
<1>2. CASE k > q
  <2>1. PICK j \in Nat : k = q + 1 + j
    <3>1. k - q - 1 \in Nat /\ k = q + 1 + (k - q - 1)
      BY <1>2
    <3> QED BY <3>1
  <2>2. p * k = (p * q) + p + (p * j) /\ p * j >= 0
    BY <2>1
  <2>3. p * j \in Int /\ p * q \in Int
    OBVIOUS
  <2> HIDE <1>2, <2>1
  <2> QED BY <2>2, <2>3
<1>3. CASE k < q
  <2>1. PICK j \in Nat : q = k + 1 + j
    <3>1. q - k - 1 \in Nat /\ q = k + 1 + (q - k - 1)
      BY <1>3
    <3> QED BY <3>1
  <2>2. p * q = (p * k) + p + (p * j) /\ p * j >= 0
    BY <2>1
  <2>3. p * j \in Int /\ p * k \in Int
    OBVIOUS
  <2> QED BY <2>2, <2>3
<1> QED BY <1>1, <1>2, <1>3

\* Between two naturals, counted from the first in steps of p, there is one that is less
\* than a step below the second.
LEMMA LastStepBelow ==
  ASSUME NEW p \in Nat \ {0}, NEW s \in Nat, NEW d \in Nat, s <= d
  PROVE  \E a \in s..d : (a - s) % p = 0 /\ d < a + p
<1> DEFINE r == (d - s) % p
           k == (d - s) \div p
           a == d - r
<1>1. r \in 0..(p - 1) /\ k \in Nat /\ d - s = (p * k) + r
  OBVIOUS
<1>2. a - s = p * k
  BY <1>1
<1>3. p * k \in Nat
  BY <1>1
<1>4. (a - s) % p = 0
  <2>1. (p * k) % p \in 0..(p - 1) /\ (p * k) \div p \in Nat
        /\ p * k = (p * ((p * k) \div p)) + ((p * k) % p)
    BY <1>3
  <2>2. (p * k) % p = 0
    BY <1>1, <2>1, Times
  <2> QED BY <1>2, <2>2
<1>5. a \in s..d /\ d < a + p
  BY <1>1, <1>2, <1>3
<1> QED BY <1>4, <1>5

\* Addresses that are joined have all between them joined.
LEMMA JoinedBetween ==
  ASSUME NEW a \in Nat, NEW b \in Nat, NEW c \in a..b, Joined(a, b)
  PROVE  Joined(a, c) /\ Joined(c, b)
<1>1. a \div PageSize <= c \div PageSize /\ c \div PageSize <= b \div PageSize
      /\ a \div PageSize \in Nat /\ b \div PageSize \in Nat /\ c \div PageSize \in Nat
  BY ReportsAssumption
<1>2. a \div PageSize = c \div PageSize /\ c \div PageSize = b \div PageSize
  BY <1>1 DEF Joined
<1>3. a..c \subseteq a..b /\ c..b \subseteq a..b
  OBVIOUS
<1> QED BY <1>2, <1>3 DEF Joined

\* Every register of a dump is in a run that begins at some register.
LEMMA RunsCover ==
  ASSUME NEW d \in DumpRegs
  PROVE  \E a \in DumpRegs : BeginsRun(a) /\ d \in RunAt(a)
<1> USE ReportsAssumption
<1> DEFINE S == {t \in DumpRegs : t <= d /\ Joined(t, d)}
<1>1. d \in Nat /\ MaxRead \in Nat \ {0}
  OBVIOUS
<1>2. d \in S /\ S \subseteq Nat
  <2>1. d..d = {d} /\ d <= d
    BY <1>1
  <2>2. Joined(d, d)
    BY <2>1 DEF Joined
  <2> QED BY <2>1, <2>2
<1>3. PICK s \in S : \A t \in S : s <= t
  BY <1>2, LeastElement
<1>4. s \in DumpRegs /\ s \in Nat /\ s <= d /\ Joined(s, d)
  BY <1>2
<1> HIDE DEF S
<1>5. ASSUME NEW t \in DumpRegs, Joined(t, s) PROVE s <= t
  <2> SUFFICES ASSUME t < s PROVE FALSE
    BY <1>4
  <2>1. t..d \subseteq (t..s) \cup (s..d)
    BY <1>4
  <2>2. Joined(t, d) /\ t <= d
    BY <1>4, <1>5, <2>1 DEF Joined
  <2> QED BY <1>3, <2>2 DEF S
<1>6. PICK a \in s..d : (a - s) % MaxRead = 0 /\ d < a + MaxRead
  BY <1>1, <1>4, LastStepBelow
<1>7. a \in Nat /\ s <= a /\ a <= d
  BY <1>1, <1>4, <1>6
<1>8. Joined(s, a) /\ Joined(a, d)
  BY <1>1, <1>4, JoinedBetween
<1>9. a \in DumpRegs
  BY <1>4, <1>7 DEF Joined
<1>10. BeginsRun(a)
  BY <1>4, <1>5, <1>6, <1>7, <1>8 DEF BeginsRun
<1>11. d \in a..(a + MaxRead - 1)
  BY <1>1, <1>6, <1>7
<1> QED BY <1>8, <1>9, <1>10, <1>11 DEF RunAt

\* A run has registers, at most as many as one read returns, and they are of one page.
LEMMA RunFits ==
  ASSUME NEW a \in DumpRegs
  PROVE  /\ a \in RunAt(a) /\ Cardinality(RunAt(a)) <= MaxRead
         /\ \A b, c \in RunAt(a) : b \div PageSize = c \div PageSize
<1> USE ReportsAssumption
<1>1. a \in RunAt(a)
  BY DEF RunAt, Joined
<1>2. /\ IsFiniteSet(a..(a + MaxRead - 1))
      /\ Cardinality(a..(a + MaxRead - 1)) = MaxRead
  BY FS_Interval
<1>3. RunAt(a) \subseteq a..(a + MaxRead - 1)
  BY DEF RunAt
<1>4. Cardinality(RunAt(a)) <= MaxRead
  BY <1>2, <1>3, FS_Subset
<1>5. \A b \in RunAt(a) : a \div PageSize = b \div PageSize
  BY DEF RunAt, Joined
<1> QED BY <1>1, <1>4, <1>5

-----------------------------------------------------------------------------
(* When an alarm is expected. *)

\* The alarms of a chip are named, and only those of inputs have a number.
LEMMA AlarmShape ==
  ASSUME NEW chip, NEW a \in AlarmsOf(chip)
  PROVE  /\ a = <<a[1], a[2]>> /\ a[2] \in Inputs
         /\ a[1] \notin {"LOS", "OOF"} => a[2] = 0
         /\ chip = "Si5341" =>
              a[1] \in {"SYSINCAL", "LOSXAXB", "LOSREF", "SMBUS_TIMEOUT", "LOL", "LOS"}
         /\ chip # "Si5341" =>
              a[1] \in {"SYSINCAL", "LOSXAXB", "XAXB_ERR", "SMBUS_TIMEOUT", "LOL", "HOLD",
                       "CAL_PLL", "LOS", "OOF"}
  BY DEF AlarmsOf, Alarms, Inputs

\* On an Si5395 the alarms that are not expected are those that show something wrong.
LEMMA Rule5395 ==
  ASSUME NEW cfg \in Config5395, NEW m,
         \A f \in {"inEn", "losEn", "oofEn", "xaxbOff", "lolEn", "hold", "active"} : m[f] = cfg[f],
         NEW alarms \in SUBSET AlarmsOf("Si5395")
  PROVE  (\E a \in alarms : ~Expected5395(m, a[1], a[2])) <=> RealAlarm("Si5395", cfg, alarms)
<1>0. /\ m.inEn = cfg.inEn /\ m.losEn = cfg.losEn /\ m.oofEn = cfg.oofEn /\ m.active = cfg.active
      /\ m.xaxbOff = cfg.xaxbOff /\ m.lolEn = cfg.lolEn /\ m.hold = cfg.hold
  OBVIOUS
<1> DEFINE Matters(a) ==
      \/ a[1] \in AlwaysWrong
      \/ a = <<"LOSXAXB", 0>> /\ ~cfg.xaxbOff
      \/ /\ Tracking(cfg)
         /\ \/ a = <<"HOLD", 0>>
            \/ a = <<"LOL", 0>> /\ cfg.lolEn
            \/ /\ cfg.active \in cfg.inEn
               /\ \/ a = <<"LOS", cfg.active>> /\ cfg.active \in cfg.losEn
                  \/ a = <<"OOF", cfg.active>> /\ cfg.active \in cfg.oofEn
<1>1. ASSUME NEW a \in alarms PROVE ~Expected5395(m, a[1], a[2]) <=> Matters(a)
  <2> DEFINE name == a[1]
             n == a[2]
  <2>1. /\ a = <<name, n>> /\ (name \notin {"LOS", "OOF"} => n = 0)
        /\ name \in {"SYSINCAL", "LOSXAXB", "XAXB_ERR", "SMBUS_TIMEOUT", "LOL", "HOLD", "CAL_PLL",
                     "LOS", "OOF"}
    BY AlarmShape
  <2>2. FreeRun(m) <=> ~Tracking(cfg)
    BY <1>0 DEF FreeRun, Tracking
  <2>3. CASE name \in {"SYSINCAL", "XAXB_ERR", "SMBUS_TIMEOUT", "CAL_PLL"}
    BY <2>1, <2>3 DEF Expected5395, AlwaysWrong
  <2>4. CASE name \in {"LOSXAXB", "LOL", "HOLD"}
    BY <1>0, <2>1, <2>2, <2>4 DEF Expected5395, AlwaysWrong, LolUnused
  <2>5. CASE name \in {"LOS", "OOF"}
    BY <1>0, <2>1, <2>2, <2>5 DEF Expected5395, AlwaysWrong, InputUnused5395
  <2> QED BY <2>1, <2>3, <2>4, <2>5
<1>2. RealAlarm("Si5395", cfg, alarms) <=> \E a \in alarms : Matters(a)
  BY DEF RealAlarm
<1> QED BY <1>1, <1>2

\* On an Si5341 the alarms that are not expected are those that show something wrong.
LEMMA Rule5341 ==
  ASSUME NEW cfg \in Config5341, NEW m,
         \A f \in {"inEn", "losEn", "xaxbOff", "regctrl", "inSel", "zdm"} : m[f] = cfg[f],
         NEW alarms \in SUBSET AlarmsOf("Si5341")
  PROVE  (\E a \in alarms : ~Expected5341(m, a[1], a[2])) <=> RealAlarm("Si5341", cfg, alarms)
<1>0. /\ m.inEn = cfg.inEn /\ m.losEn = cfg.losEn /\ m.inSel = cfg.inSel
      /\ m.xaxbOff = cfg.xaxbOff /\ m.regctrl = cfg.regctrl /\ m.zdm = cfg.zdm
  OBVIOUS
<1> DEFINE Watched == References5341(cfg) \cap cfg.inEn \cap cfg.losEn
           Matters(a) ==
             \/ a[1] \in AlwaysWrong
             \/ a = <<"LOSXAXB", 0>> /\ ~cfg.xaxbOff
             \/ a = <<"LOL", 0>>
             \/ \E n \in Watched : a = <<"LOS", n>>
<1>1. ASSUME NEW a \in alarms PROVE ~Expected5341(m, a[1], a[2]) <=> Matters(a)
  <2> DEFINE name == a[1]
             n == a[2]
  <2>1. /\ a = <<name, n>> /\ n \in Inputs /\ (name \notin {"LOS", "OOF"} => n = 0)
        /\ name \in {"SYSINCAL", "LOSXAXB", "LOSREF", "SMBUS_TIMEOUT", "LOL", "LOS"}
    BY AlarmShape
  <2>2. CASE name \in {"SYSINCAL", "LOSREF", "SMBUS_TIMEOUT"}
    BY <2>1, <2>2 DEF Expected5341, AlwaysWrong
  <2>3. CASE name \in {"LOSXAXB", "LOL"}
    BY <1>0, <2>1, <2>3 DEF Expected5341, AlwaysWrong
  <2>4. CASE name = "LOS"
    <3>0. cfg.inSel \in Inputs /\ cfg.regctrl \in BOOLEAN /\ cfg.zdm \in BOOLEAN
      BY DEF Config5341
    <3>1. InputUnused5341(m, n) <=> n \notin Watched
      <4>1. n \in References5341(cfg) <=>
              ~(IF n = FbIn THEN ~cfg.zdm ELSE cfg.regctrl /\ cfg.inSel # n)
        <5>1. CASE n = 3
          BY <3>0, <5>1 DEF References5341, FbIn, Inputs
        <5>2. CASE n \in 0..2
          <6>1. n # 3
            BY <5>2
          <6>2. CASE cfg.regctrl
            BY <5>2, <6>1, <6>2 DEF References5341, FbIn
          <6>3. CASE ~cfg.regctrl
            BY <5>2, <6>1, <6>3 DEF References5341, FbIn
          <6> QED BY <6>2, <6>3
        <5>3. n = 3 \/ n \in 0..2
          BY <2>1 DEF Inputs
        <5> QED BY <5>1, <5>2, <5>3
      <4> QED BY <1>0, <4>1 DEF InputUnused5341
    <3> HIDE DEF Watched
    <3>2. Matters(a) <=> n \in Watched
      BY <2>1, <2>4 DEF AlwaysWrong
    <3> QED BY <2>4, <3>1, <3>2 DEF Expected5341
  <2> QED BY <2>1, <2>2, <2>3, <2>4
<1>2. RealAlarm("Si5341", cfg, alarms) <=> \E a \in alarms : Matters(a)
  BY DEF RealAlarm
<1> QED BY <1>1, <1>2

-----------------------------------------------------------------------------
(* What is planned. *)

\* A read that is described has these fields.
LEMMA ReadFields ==
  ASSUME NEW d, NEW part, NEW kind, NEW place
  PROVE  LET u == Read(d, part, kind, place)
         IN  u.dev = d /\ u.part = part /\ u.kind = kind /\ u.place = place
  BY DEF Read

\* Reads of one part are of its device, at its place.
LEMMA ReadsShape ==
  ASSUME NEW d, NEW part, NEW kinds, NEW k, NEW n, NEW u \in Reads(d, part, kinds, k, n)
  PROVE  /\ u.dev = d /\ u.part = part /\ u.place[1] = k /\ u.place[2] = n
         /\ \E i \in DOMAIN kinds : u.kind = kinds[i]
  BY DEF Reads, Read

\* What a check of a clock reads.
LEMMA ClockKindsShape ==
  ASSUME NEW check \in {"id", "status", "flags"}, NEW i \in DOMAIN ClockKinds[check]
  PROVE  \/ check = "id" /\ ClockKinds[check][i] = "NVM_bank"
         \/ check = "status" /\ ClockKinds[check][i] \in {"alarms", "all_disabled", "powered_down"}
         \/ check = "flags" /\ ClockKinds[check][i] = "flags"
<1>1. CASE check = "id"
  <2>1. ClockKinds[check] = << "NVM_bank" >>
    BY <1>1 DEF ClockKinds
  <2>2. i = 1
    BY <2>1
  <2>3. ClockKinds[check][i] = "NVM_bank"
    BY <2>1, <2>2
  <2> QED BY <1>1, <2>3
<1>2. CASE check = "status"
  <2>1. ClockKinds[check] = << "alarms", "all_disabled", "powered_down" >>
    BY <1>2 DEF ClockKinds
  <2>2. i \in 1..3
    BY <2>1
  <2>3. ClockKinds[check][i] \in {"alarms", "all_disabled", "powered_down"}
    BY <2>1, <2>2
  <2> QED BY <1>2, <2>3
<1>3. CASE check = "flags"
  <2>1. ClockKinds[check] = << "flags" >>
    BY <1>3 DEF ClockKinds
  <2>2. i = 1
    BY <2>1
  <2>3. ClockKinds[check][i] = "flags"
    BY <2>1, <2>2
  <2> QED BY <1>3, <2>3
<1> QED BY <1>1, <1>2, <1>3

\* The reads of one clock of cm-clock-checks, phase by phase.
LEMMA ClockChecksShape ==
  ASSUME NEW c, NEW chip, NEW checks \in Seq(STRING), NEW k,
         ToSet(checks) \subseteq {"id", "status", "flags"},
         NEW u \in ClockChecks(c, chip, checks, k)
  PROVE  /\ u.dev = c /\ u.place[1] = k
         /\ \/ u.part = "ready" /\ u.kind = "ready" /\ u.place[2] = 1
            \/ u.part = "identity" /\ u.kind = "identity" /\ u.place[2] = 2
            \/ u.part = "config" /\ u.kind = "config" /\ u.place[2] = 3
            \/ /\ u.part \in ToSet(checks) /\ u.place[2] \in Nat /\ u.place[2] > 3
               /\ \/ u.part = "id" /\ u.kind = "NVM_bank"
                  \/ u.part = "status" /\ u.kind \in {"alarms", "all_disabled", "powered_down"}
                  \/ u.part = "flags" /\ u.kind = "flags"
<1>0. CASE u = Read(c, "ready", "ready", <<k, 1, 0>>)
  BY <1>0 DEF Read
<1>1. CASE u = Read(c, "identity", "identity", <<k, 2, 0>>)
  BY <1>1 DEF Read
<1>2. ASSUME NEW i,
             u = [Read(c, "config", "config", <<k, 3, i>>) EXCEPT !.of = MonitorReads(chip)[i]]
      PROVE  u.dev = c /\ u.place[1] = k /\ u.part = "config" /\ u.kind = "config" /\ u.place[2] = 3
  BY <1>2 DEF Read
<1>3. ASSUME NEW i \in DOMAIN checks, u \in Reads(c, checks[i], ClockKinds[checks[i]], k, 3 + i)
      PROVE  /\ u.dev = c /\ u.place[1] = k
             /\ u.part \in ToSet(checks) /\ u.place[2] \in Nat /\ u.place[2] > 3
             /\ \/ u.part = "id" /\ u.kind = "NVM_bank"
                \/ u.part = "status" /\ u.kind \in {"alarms", "all_disabled", "powered_down"}
                \/ u.part = "flags" /\ u.kind = "flags"
  <2>1. i \in Nat /\ i > 0 /\ checks[i] \in ToSet(checks)
    BY DEF ToSet
  <2>2. /\ u.dev = c /\ u.part = checks[i] /\ u.place[1] = k /\ u.place[2] = 3 + i
        /\ \E j \in DOMAIN ClockKinds[checks[i]] : u.kind = ClockKinds[checks[i]][j]
    BY <1>3, ReadsShape
  <2>3. checks[i] \in {"id", "status", "flags"}
    BY <2>1
  <2>4. \/ checks[i] = "id" /\ u.kind = "NVM_bank"
        \/ checks[i] = "status" /\ u.kind \in {"alarms", "all_disabled", "powered_down"}
        \/ checks[i] = "flags" /\ u.kind = "flags"
    BY <2>2, <2>3, ClockKindsShape
  <2> QED BY <2>1, <2>2, <2>4
<1>4. \/ u = Read(c, "ready", "ready", <<k, 1, 0>>)
      \/ u = Read(c, "identity", "identity", <<k, 2, 0>>)
      \/ \E i \in DOMAIN MonitorReads(chip) :
           u = [Read(c, "config", "config", <<k, 3, i>>) EXCEPT !.of = MonitorReads(chip)[i]]
      \/ \E i \in DOMAIN checks : u \in Reads(c, checks[i], ClockKinds[checks[i]], k, 3 + i)
  BY DEF ClockChecks
<1> QED BY <1>0, <1>1, <1>2, <1>3, <1>4

\* The reads of one clock of cm-clock-dump.
LEMMA ClockDumpShape ==
  ASSUME NEW c, NEW k, NEW u \in ClockDump(c, k)
  PROVE  /\ u.dev = c /\ u.place[1] = k
         /\ \/ u.part = "ready" /\ u.kind = "ready" /\ u.place[2] = 1
            \/ /\ u.part = "dump" /\ u.kind = "registers" /\ u.place[2] = 2
               /\ \E a \in DumpRegs : u.of = RunAt(a)
<1>1. CASE u = Read(c, "ready", "ready", <<k, 1, 0>>)
  BY <1>1 DEF Read
<1>2. ASSUME NEW a \in DumpRegs,
             u = [Read(c, "dump", "registers", <<k, 2, a>>) EXCEPT !.of = RunAt(a)]
      PROVE  /\ u.dev = c /\ u.place[1] = k /\ u.part = "dump" /\ u.kind = "registers"
             /\ u.place[2] = 2 /\ u.of = RunAt(a)
  BY <1>2 DEF Read
<1> QED BY <1>1, <1>2 DEF ClockDump

\* The reads of the other tools.
LEMMA OtherShape ==
  ASSUME NEW r, CommandLine(r), NEW h, NEW k \in DOMAIN r.names, NEW u \in DevicePlan(r, h, k),
         r.tool \notin ClockTools
  PROVE  /\ u.dev = r.names[k]
         /\ r.tool = "lga80d_checks" => u.part \in ToSet(r.checks)
         /\ r.tool = "ff_status" <=> u.part = "module"
         /\ u.part = "note" => u.kind = "alarm"
<1> DEFINE d == r.names[k]
<1>1. CASE r.tool = "lga80d_checks"
  <2>1. DevicePlan(r, h, k) = UNION {SupplyCheck(d, r.checks[i], i, k) : i \in DOMAIN r.checks}
    BY <1>1 DEF DevicePlan
  <2>2. PICK i \in DOMAIN r.checks : u \in Reads(d, r.checks[i], SupplyKinds[r.checks[i]], i, k)
    BY <2>1 DEF SupplyCheck
  <2>3. u.dev = d /\ u.part = r.checks[i]
    BY <2>2, ReadsShape
  <2>4. r.checks[i] \in ToSet(r.checks) /\ ToSet(r.checks) \subseteq {"freq", "temp", "timing"}
    BY <1>1 DEF ToSet, CommandLine, ChecksOf, CheckTools
  <2> QED BY <1>1, <2>3, <2>4
<1>2. CASE r.tool = "lga80d_status"
  <2>1. u \in Reads(d, "status", Pages, k, 1)
    BY <1>2 DEF DevicePlan, SupplyStatus
  <2> QED BY <1>2, <2>1, ReadsShape
<1>3. CASE r.tool = "lga80d_dump"
  <2>1. u \in SupplyDump(d, k)
    BY <1>3 DEF DevicePlan
  <2>2. PICK p \in DOMAIN Pages : \/ u = Read(d, "registers", Pages[p], <<k, p, 1>>)
                                 \/ u = Read(d, "snapshot", Pages[p], <<k, p, 2>>)
    BY <2>1 DEF SupplyDump
  <2> QED BY <1>3, <2>2, ReadFields
<1>4. CASE r.tool = "ff_status"
  <2>1. u \in ModuleReads(d, k)
    BY <1>4 DEF DevicePlan
  <2>2. u.dev = d /\ u.part = "module"
    BY <2>1, ReadsShape DEF ModuleReads
  <2> QED BY <1>4, <2>2
<1>5. CASE r.tool \in Predicates \cup {"mcu_dump"}
  <2>0. d = "MCU"
    BY <1>5 DEF CommandLine, ClockTools, SupplyTools, Predicates
  <2>1. CASE r.tool = "mcu_dump"
    <3>1. u \in McuDump
      BY <2>1 DEF DevicePlan
    <3>2. PICK i \in DOMAIN Sections : u = Read("MCU", Sections[i], "section", <<1, 1, i>>)
      BY <3>1 DEF McuDump
    <3>3. i \in 1..7
      BY DEF Sections
    <3>4. Sections[i] \notin {"module", "note"}
      BY <3>3 DEF Sections
    <3> QED BY <2>0, <2>1, <3>2, <3>4, ReadFields
  <2>2. CASE r.tool = "is_cm_healthy"
    <3>1. \/ u \in Reads("MCU", "verdict", << "health", "power" >>, 1, 1)
          \/ u \in Reads("MCU", "note", << "alarm" >>, 1, 2)
      BY <2>2 DEF DevicePlan, IsCmHealthy
    <3> QED BY <2>0, <2>2, <3>1, ReadsShape
  <2>3. CASE r.tool = "is_fpga_programmed"
    <3>1. u \in Reads("MCU", "verdict", << "not_on", "not_done" >>, 1, 1)
      BY <2>3 DEF DevicePlan, IsFpgaProgrammed
    <3> QED BY <2>0, <2>3, <3>1, ReadsShape
  <2>4. CASE r.tool = "is_rtc_set"
    <3>1. u \in Reads("MCU", "verdict", << "rtc" >>, 1, 1)
      BY <2>4 DEF DevicePlan, IsRtcSet
    <3> QED BY <2>0, <2>4, <3>1, ReadsShape
  <2> QED BY <1>5, <2>1, <2>2, <2>3, <2>4 DEF Predicates
<1> QED BY <1>1, <1>2, <1>3, <1>4, <1>5 DEF CommandLine, ClockTools, SupplyTools, Predicates

\* The reads of the tools that read clocks: each has its clock's place on the command line,
\* and its phase.
LEMMA ClockPlan ==
  ASSUME NEW r, CommandLine(r), r.tool \in ClockTools, NEW h, NEW u \in Plan(r, h)
  PROVE  /\ u.place[1] \in DOMAIN r.names /\ u.dev = r.names[u.place[1]]
         /\ u.place[2] \in Nat
         /\ \/ u.part = "ready" /\ u.kind = "ready" /\ u.place[2] = 1
            \/ /\ r.tool = "clock_checks"
               /\ \/ u.part = "identity" /\ u.kind = "identity" /\ u.place[2] = 2
                  \/ u.part = "config" /\ u.kind = "config" /\ u.place[2] = 3
                  \/ /\ u.part \in ToSet(r.checks) /\ u.place[2] > 3
                     /\ \/ u.part = "id" /\ u.kind = "NVM_bank"
                        \/ /\ u.part = "status"
                           /\ u.kind \in {"alarms", "all_disabled", "powered_down"}
                        \/ u.part = "flags" /\ u.kind = "flags"
            \/ /\ r.tool = "clock_dump"
               /\ u.part = "dump" /\ u.kind = "registers" /\ u.place[2] = 2
               /\ \E a \in DumpRegs : u.of = RunAt(a)
<1>1. PICK k \in DOMAIN r.names : u \in DevicePlan(r, h, k)
  BY DEF Plan
<1>2. CASE r.tool = "clock_checks"
  <2>1. u \in ClockChecks(r.names[k], ChipAt(h, r.names[k]), r.checks, k)
    BY <1>1, <1>2 DEF DevicePlan
  <2>2. r.checks \in Seq(STRING) /\ ToSet(r.checks) \subseteq {"id", "status", "flags"}
    BY <1>2 DEF CommandLine, CheckTools, ChecksOf
  <2> QED BY <1>2, <2>1, <2>2, ClockChecksShape
<1>3. CASE r.tool = "clock_dump"
  <2>1. u \in ClockDump(r.names[k], k)
    BY <1>1, <1>3 DEF DevicePlan
  <2> QED BY <1>3, <2>1, ClockDumpShape
<1> QED BY <1>2, <1>3 DEF ClockTools

\* The plan has the readiness of every clock.
LEMMA ReadyPlanned ==
  ASSUME NEW r, r.tool \in ClockTools, NEW h, NEW d \in ToSet(r.names)
  PROVE  \E v \in Plan(r, h) : v.dev = d /\ v.part = "ready" /\ v.kind = "ready"
<1>1. PICK k \in DOMAIN r.names : d = r.names[k]
  BY DEF ToSet
<1> DEFINE R == Read(d, "ready", "ready", <<k, 1, 0>>)
<1>2. R.dev = d /\ R.part = "ready" /\ R.kind = "ready"
  BY DEF Read
<1>3. R \in DevicePlan(r, h, k)
  <2>1. CASE r.tool = "clock_checks"
    <3>1. DevicePlan(r, h, k) = ClockChecks(d, ChipAt(h, d), r.checks, k)
      BY <1>1, <2>1 DEF DevicePlan
    <3> QED BY <3>1 DEF ClockChecks
  <2>2. CASE r.tool = "clock_dump"
    <3>1. DevicePlan(r, h, k) = ClockDump(d, k)
      BY <1>1, <2>2 DEF DevicePlan
    <3> QED BY <3>1 DEF ClockDump
  <2> QED BY <2>1, <2>2 DEF ClockTools
<1> HIDE DEF R
<1> QED BY <1>2, <1>3 DEF Plan

\* cm-clock-checks plans to read which chip every clock is.
LEMMA IdentityPlanned ==
  ASSUME NEW r, r.tool = "clock_checks", NEW h, NEW d \in ToSet(r.names)
  PROVE  \E v \in Plan(r, h) : v.dev = d /\ v.part = "identity" /\ v.kind = "identity"
<1>1. PICK k \in DOMAIN r.names : d = r.names[k]
  BY DEF ToSet
<1> DEFINE I == Read(d, "identity", "identity", <<k, 2, 0>>)
<1>2. I.dev = d /\ I.part = "identity" /\ I.kind = "identity"
  BY DEF Read
<1>3. I \in DevicePlan(r, h, k)
  <2>1. DevicePlan(r, h, k) = ClockChecks(d, ChipAt(h, d), r.checks, k)
    BY <1>1 DEF DevicePlan
  <2> QED BY <2>1 DEF ClockChecks
<1> HIDE DEF I
<1> QED BY <1>2, <1>3 DEF Plan

\* cm-clock-dump plans every run for every clock.
LEMMA RunsPlanned ==
  ASSUME NEW r, r.tool = "clock_dump", NEW h, NEW d \in ToSet(r.names),
         NEW a \in DumpRegs, BeginsRun(a)
  PROVE  \E v \in Plan(r, h) : v.dev = d /\ v.kind = "registers" /\ v.of = RunAt(a)
<1>1. PICK k \in DOMAIN r.names : d = r.names[k]
  BY DEF ToSet
<1> DEFINE D == [Read(d, "dump", "registers", <<k, 2, a>>) EXCEPT !.of = RunAt(a)]
<1>2. D.dev = d /\ D.kind = "registers" /\ D.of = RunAt(a)
  BY DEF Read
<1>3. D \in DevicePlan(r, h, k)
  <2>1. DevicePlan(r, h, k) = ClockDump(d, k)
    BY <1>1 DEF DevicePlan
  <2> QED BY <2>1 DEF ClockDump
<1> HIDE DEF D
<1> QED BY <1>2, <1>3 DEF Plan

\* Before a status or flags the plan has every register of the configuration.
LEMMA ConfigPlanned ==
  ASSUME NEW r, r.tool = "clock_checks", NEW h, NEW d \in ToSet(r.names),
         ToSet(r.checks) \cap {"status", "flags"} # {}, NEW i \in DOMAIN MonitorReads(ChipAt(h, d))
  PROVE  \E v \in Plan(r, h) :
           v.dev = d /\ v.part = "config" /\ v.of = MonitorReads(ChipAt(h, d))[i]
<1>1. PICK k \in DOMAIN r.names : d = r.names[k]
  BY DEF ToSet
<1> DEFINE C == [Read(d, "config", "config", <<k, 3, i>>)
                   EXCEPT !.of = MonitorReads(ChipAt(h, d))[i]]
<1>2. C.dev = d /\ C.part = "config" /\ C.of = MonitorReads(ChipAt(h, d))[i]
  BY DEF Read
<1>3. C \in DevicePlan(r, h, k)
  <2>1. DevicePlan(r, h, k) = ClockChecks(d, ChipAt(h, d), r.checks, k)
    BY <1>1 DEF DevicePlan
  <2> QED BY <2>1 DEF ClockChecks, NeedsConfig
<1> HIDE DEF C
<1> QED BY <1>2, <1>3 DEF Plan

\* What is read is of a device of the command line and, where the tool makes checks, for one
\* of them or for what they depend on.
LEMMA PlanShape ==
  ASSUME NEW r, CommandLine(r), NEW h, NEW u \in Plan(r, h)
  PROVE  /\ u.dev \in ToSet(r.names)
         /\ r.tool \in CheckTools => u.part \in ToSet(r.checks) \cup DOMAIN Phase
         /\ u.part = "module" => r.tool = "ff_status"
         /\ r.tool = "ff_status" => u.part = "module"
         /\ u.part = "note" => u.kind = "alarm" /\ r.tool \notin ClockTools
<1>1. CASE r.tool \in ClockTools
  <2>1. r.tool = "clock_checks" => ToSet(r.checks) \subseteq {"id", "status", "flags"}
    BY DEF CommandLine, CheckTools, ChecksOf
  <2> QED BY <1>1, <2>1, ClockPlan DEF ToSet, Phase, ClockTools, CheckTools
<1>2. CASE r.tool \notin ClockTools
  <2>1. PICK k \in DOMAIN r.names : u \in DevicePlan(r, h, k)
    BY DEF Plan
  <2> QED BY <1>2, <2>1, OtherShape DEF ToSet, CheckTools, ClockTools
<1> QED BY <1>1, <1>2

-----------------------------------------------------------------------------
(* How far a run has come. *)

\* A sequence that is not empty has something in it.
LEMMA NotEmpty ==
  ASSUME NEW S, NEW s \in Seq(S), s # << >>
  PROVE  \E x \in S : x \in ToSet(s)
<1>1. Len(s) \in Nat /\ Len(s) # 0 /\ DOMAIN s = 1..Len(s)
  BY EmptySeq
<1>2. 1 \in DOMAIN s /\ s[1] \in S
  BY <1>1
<1> QED BY <1>2 DEF ToSet

\* The command line, and what is read and to be read of it.
LEMMA RunFacts ==
  ASSUME IInv
  PROVE  /\ run \in Runs /\ CommandLine(run)
         /\ asked \subseteq Plan(run, rev) /\ todo \subseteq Plan(run, rev)
         /\ answered \subseteq asked
  BY RunsAssumption DEF IInv, TypeOK, Planned

\* The clocks of a command line are read in its order, each phase by phase.
LEMMA ClockOrder ==
  ASSUME NEW r, CommandLine(r), r.tool \in ClockTools, NEW h,
         NEW u \in Plan(r, h), NEW v \in Plan(r, h)
  PROVE  /\ u.dev = v.dev <=> u.place[1] = v.place[1]
         /\ Precedes(u.place, v.place) =>
              /\ u.place[1] <= v.place[1]
              /\ u.dev = v.dev => u.place[2] <= v.place[2]
<1>1. /\ u.place[1] \in DOMAIN r.names /\ u.dev = r.names[u.place[1]] /\ u.place[2] \in Nat
      /\ v.place[1] \in DOMAIN r.names /\ v.dev = r.names[v.place[1]] /\ v.place[2] \in Nat
  BY ClockPlan
<1>2. u.dev = v.dev <=> u.place[1] = v.place[1]
  BY <1>1 DEF CommandLine, IsInjective
<1>3. u.place[1] \in Nat /\ v.place[1] \in Nat
  BY <1>1 DEF CommandLine
<1> QED BY <1>1, <1>2, <1>3 DEF Precedes

\* A clock is read in one go: between two reads of it there is none of another.
LEMMA OneClockAtATime ==
  ASSUME IInv, run.tool \in ClockTools, NEW w \in asked, NEW u \in todo, NEW v \in todo,
         IsNext(u), w.dev = v.dev
  PROVE  u.dev = v.dev
<1>1. Precedes(w.place, u.place) /\ (u = v \/ Precedes(u.place, v.place))
  BY DEF IInv, Ordered, IsNext
<1>2. w.place[1] <= u.place[1] /\ u.place[1] <= v.place[1] /\ w.place[1] = v.place[1]
      /\ w.place[1] \in Nat /\ u.place[1] \in Nat
  <2>1. w \in Plan(run, rev) /\ u \in Plan(run, rev) /\ v \in Plan(run, rev) /\ CommandLine(run)
    BY RunFacts
  <2>2. w.place[1] \in Nat /\ u.place[1] \in Nat
    BY <2>1, ClockPlan DEF CommandLine
  <2> QED BY <1>1, <2>1, <2>2, ClockOrder
<1>3. u.place[1] = v.place[1]
  BY <1>2
<1> QED BY <1>3, RunFacts, ClockOrder

\* Whoever has come to a read of a clock, or is about to make it, has had the answers of all
\* its earlier phases.
LEMMA Prepared ==
  ASSUME IInv, run.tool \in ClockTools, NEW u \in Plan(run, rev),
         u \in asked \/ (stage = "reads" /\ IsNext(u)),
         NEW v \in Plan(run, rev), v.dev = u.dev, v.part \in DOMAIN Phase, v.place[2] < u.place[2]
  PROVE  v \in answered
<1>0. CommandLine(run)
  BY RunFacts
<1>1. v \notin todo
  <2> SUFFICES ASSUME v \in todo PROVE FALSE
    OBVIOUS
  <2>1. u.place[2] \in Nat /\ v.place[2] \in Nat
    BY <1>0, ClockPlan
  <2>2. Precedes(u.place, v.place)
    BY <2>1 DEF IInv, Ordered, IsNext
  <2> QED BY <1>0, <2>1, <2>2, ClockOrder
<1>2. Begun
  BY DEF IInv, Quiet, TypeOK, Begun
<1>3. ASSUME NEW b \in bad, b[1] = u.dev, b[2] \in DOMAIN Phase
      PROVE  u.place[2] <= Phase[b[2]]
  BY <1>3 DEF IInv, GivenUp, IsNext
<1>4. \A w \in Plan(run, rev) :
        /\ w.place[2] \in Nat /\ w.part \notin {"note", "verdict"} /\ w.kind # "section"
        /\ w.part \in DOMAIN Phase => w.place[2] = Phase[w.part]
  <2>1. run.tool = "clock_checks" => ToSet(run.checks) \subseteq {"id", "status", "flags"}
    BY <1>0 DEF CommandLine, CheckTools, ChecksOf
  <2> QED BY <1>0, <2>1, ClockPlan DEF Phase
<1>5. v \in answered \/ Withheld(v) \/ Failed(v) \/ Lost(v)
  BY <1>1, <1>2 DEF IInv, Accounted
<1>6. ~Withheld(v)
  BY <1>4 DEF Withheld
<1>7. ~Failed(v)
  <2> SUFFICES ASSUME <<v.dev, v.part, "failed">> \in bad PROVE FALSE
    BY <1>4 DEF Failed
  <2>1. u.place[2] <= Phase[v.part]
    BY <1>3
  <2> QED BY <1>4, <2>1
<1>8. ~Lost(v)
  <2> SUFFICES ASSUME NEW w \in asked, w.dev = v.dev, Precedes(w.place, v.place),
                      w.part \in BadParts(v.dev),
                      w.part \in {v.part, "ready", "identity", "config", "verdict"}
               PROVE FALSE
    BY DEF Lost
  <2>1. w \in Plan(run, rev)
    BY RunFacts
  <2>2. w.part \in DOMAIN Phase
    BY <1>4, <2>1 DEF Phase
  <2>3. u.place[2] <= Phase[w.part]
    <3>1. PICK b \in bad : b[1] = v.dev /\ b[2] = w.part
      BY DEF BadParts
    <3> QED BY <1>3, <2>2, <3>1
  <2>4. w.place[2] <= v.place[2]
    BY <1>0, <2>1, ClockOrder
  <2> QED BY <1>4, <2>1, <2>2, <2>3, <2>4
<1> QED BY <1>5, <1>6, <1>7, <1>8

\* Nothing that a read of a clock depends on has gone wrong when it is made.
LEMMA NotGivenUp ==
  ASSUME IInv, run.tool \in ClockTools, NEW u, u \in asked \/ (stage = "reads" /\ IsNext(u)),
         NEW p \in DOMAIN Phase, Phase[p] < u.place[2]
  PROVE  p \notin BadParts(u.dev)
<1>1. u.place[2] \in Nat
  <2>1. u \in Plan(run, rev) /\ CommandLine(run)
    BY RunFacts DEF IsNext
  <2> QED BY <2>1, ClockPlan
<1>2. Phase[p] \in Nat
  BY DEF Phase
<1>3. ASSUME NEW b \in bad, b[1] = u.dev, b[2] = p PROVE u.place[2] <= Phase[p]
  BY <1>3 DEF IInv, GivenUp, IsNext
<1> QED BY <1>1, <1>2, <1>3 DEF BadParts

\* Whoever reads of a clock what depends on its chip has been told the chip, and it is the
\* one it was taken for.
LEMMA RightChip ==
  ASSUME IInv, run.tool = "clock_checks", NEW u, u \in asked \/ (stage = "reads" /\ IsNext(u)),
         u.part \notin {"ready", "identity"}
  PROVE  ~WrongChip(u.dev)
<1>1. u \in Plan(run, rev) /\ CommandLine(run) /\ run.tool \in ClockTools
  BY RunFacts DEF IsNext, ClockTools
<1>2. /\ u.place[1] \in DOMAIN run.names /\ u.dev = run.names[u.place[1]]
      /\ u.place[2] \in Nat /\ u.place[2] > 2
  BY <1>1, ClockPlan
<1>3. PICK v \in Plan(run, rev) : v.dev = u.dev /\ v.part = "identity" /\ v.kind = "identity"
  <2>1. u.dev \in ToSet(run.names)
    BY <1>2 DEF ToSet
  <2> QED BY <2>1, IdentityPlanned
<1>4. v.place[2] = 2
  <2>1. run.tool = "clock_checks" => ToSet(run.checks) \subseteq {"id", "status", "flags"}
    BY <1>1 DEF CommandLine, CheckTools, ChecksOf
  <2> QED BY <1>1, <1>3, <2>1, ClockPlan
<1>5. v \in answered
  BY <1>1, <1>2, <1>3, <1>4, Prepared DEF Phase
<1>6. "identity" \notin BadParts(u.dev)
  BY <1>1, <1>2, NotGivenUp DEF Phase
<1>7. <<u.dev, "identity", "problem">> \notin bad
  <2> DEFINE b == <<u.dev, "identity", "problem">>
  <2>1. b[1] = u.dev /\ b[2] = "identity"
    OBVIOUS
  <2> HIDE DEF b
  <2> QED BY <1>6, <2>1 DEF BadParts
<1>8. SaysWhatChip(v) /\ WrongChip(v.dev) => <<v.dev, v.part, "problem">> \in bad
  BY <1>5 DEF IInv, Judged
<1> QED BY <1>3, <1>7, <1>8 DEF SaysWhatChip

\* Whoever reads a clock's status or flags has had the answers for all its configuration.
LEMMA ConfigKnown ==
  ASSUME IInv, run.tool = "clock_checks", NEW u, u \in asked \/ (stage = "reads" /\ IsNext(u)),
         u.part \in {"status", "flags"},
         NEW i \in DOMAIN MonitorReads(ChipAt(BoardRev, u.dev))
  PROVE  \E v \in answered : /\ v.dev = u.dev /\ v.part = "config"
                             /\ v.of = MonitorReads(ChipAt(BoardRev, u.dev))[i]
<1>1. u \in Plan(run, rev) /\ CommandLine(run) /\ run.tool \in ClockTools
  BY RunFacts DEF IsNext, ClockTools
<1>2. /\ u.place[1] \in DOMAIN run.names /\ u.dev = run.names[u.place[1]]
      /\ u.place[2] \in Nat /\ u.place[2] > 3 /\ u.part \in ToSet(run.checks)
  BY <1>1, ClockPlan
<1>3. ChipAt(rev, u.dev) = ChipAt(BoardRev, u.dev)
  BY RightChip DEF WrongChip
<1>4. PICK v \in Plan(run, rev) : /\ v.dev = u.dev /\ v.part = "config"
                                 /\ v.of = MonitorReads(ChipAt(BoardRev, u.dev))[i]
  <2>1. ToSet(run.checks) \cap {"status", "flags"} # {}
    BY <1>2
  <2>2. u.dev \in ToSet(run.names)
    BY <1>2 DEF ToSet
  <2>3. i \in DOMAIN MonitorReads(ChipAt(rev, u.dev))
    BY <1>3
  <2> QED BY <1>3, <2>1, <2>2, <2>3, ConfigPlanned
<1>5. v.place[2] = 3
  <2>1. ToSet(run.checks) \subseteq {"id", "status", "flags"}
    BY <1>1 DEF CommandLine, CheckTools, ChecksOf
  <2> QED BY <1>1, <1>4, <2>1, ClockPlan
<1>6. v \in answered
  BY <1>1, <1>2, <1>4, <1>5, Prepared DEF Phase
<1> QED BY <1>4, <1>6

\* What the tool makes of a clock's alarms is what is wrong with the clock, unless it was
\* reconfigured since.
LEMMA Judgement ==
  ASSUME IInv, run.tool = "clock_checks", stage = "reads", NEW u, IsNext(u),
         u.part \in {"status", "flags"}, u.dev \in Named, u.dev \notin moved,
         NEW alarms \in SUBSET AlarmsOf(ChipAt(BoardRev, u.dev))
  PROVE  Unexplained(u.dev, alarms)
           <=> RealAlarm(ChipAt(BoardRev, u.dev), clock[u.dev].config, alarms)
<1> DEFINE c == u.dev
           chip == ChipAt(BoardRev, c)
           cfg == clock[c].config
<1>1. ChipAt(rev, c) = chip
  BY RightChip DEF WrongChip
<1>2. chip \in {"Si5341", "Si5395"}
  BY DEF ChipAt
<1>3. clock[c] \in ClockState(chip)
  BY DEF IInv, TypeOK
<1>4. ASSUME NEW i \in DOMAIN MonitorReads(chip), NEW f \in MonitorReads(chip)[i]
      PROVE  monitors[f] = cfg[f]
  <2>1. PICK v \in answered : v.dev = c /\ v.part = "config" /\ v.of = MonitorReads(chip)[i]
    BY ConfigKnown
  <2>2. u \in todo
    BY DEF IsNext
  <2> QED BY <1>4, <2>1, <2>2 DEF IInv, MonitorsAgree
<1>5. CASE chip = "Si5395"
  <2>1. MonitorReads(chip) = Monitors5395
    BY <1>5 DEF MonitorReads
  <2>2. \A i \in 1..6 : \A f \in Monitors5395[i] : monitors[f] = cfg[f]
    BY <1>4, <2>1 DEF Monitors5395
  <2>3. \A f \in {"inEn", "losEn", "oofEn", "xaxbOff", "lolEn", "hold", "active"} :
          monitors[f] = cfg[f]
    <3>1. \A f \in Monitors5395[1] \cup Monitors5395[2] \cup Monitors5395[3]
              \cup Monitors5395[4] \cup Monitors5395[5] \cup Monitors5395[6] : monitors[f] = cfg[f]
      BY <2>2
    <3> QED BY <3>1 DEF Monitors5395
  <2>4. cfg \in Config5395
    BY <1>3, <1>5 DEF ClockState
  <2> QED BY <1>1, <1>5, <2>3, <2>4, Rule5395 DEF Unexplained
<1>6. CASE chip = "Si5341"
  <2>1. MonitorReads(chip) = Monitors5341
    BY <1>6 DEF MonitorReads
  <2>2. \A i \in 1..4 : \A f \in Monitors5341[i] : monitors[f] = cfg[f]
    BY <1>4, <2>1 DEF Monitors5341
  <2>3. \A f \in {"inEn", "losEn", "xaxbOff", "regctrl", "inSel", "zdm"} : monitors[f] = cfg[f]
    <3>1. \A f \in Monitors5341[1] \cup Monitors5341[2] \cup Monitors5341[3] \cup Monitors5341[4] :
            monitors[f] = cfg[f]
      BY <2>2
    <3> QED BY <3>1 DEF Monitors5341
  <2>4. cfg \in Config5341
    BY <1>3, <1>6 DEF ClockState
  <2> QED BY <1>1, <1>6, <2>3, <2>4, Rule5341 DEF Unexplained
<1> QED BY <1>2, <1>5, <1>6

\* An answer shows a problem with a clock exactly if something is wrong with it, unless the
\* clock was reconfigured since its configuration was read.
LEMMA AlarmingIsProblem ==
  ASSUME IInv, run.tool \in ClockTools, stage = "reads", NEW u, IsNext(u), u.dev \notin moved
  PROVE  /\ Alarming(u) => Problem(u)
         /\ Problem(u) /\ u.part \in {"id", "status", "flags"} => Alarming(u)
<1> DEFINE c == u.dev
           chip == ChipAt(BoardRev, c)
<1>0. mcu = {}
  BY DEF IInv, Quiet, ClockTools, Predicates
<1>1. u \in Plan(run, rev) /\ CommandLine(run)
  BY RunFacts DEF IsNext
<1>2. u.place[1] \in DOMAIN run.names /\ u.dev = run.names[u.place[1]]
  BY <1>1, ClockPlan
<1>3. c \in Clocks /\ c \in Named
  BY <1>1, <1>2 DEF CommandLine, ClockTools, SupplyTools, Predicates, ToSet, Named
<1>4. clock[c] \in ClockState(chip)
  BY <1>3 DEF IInv, TypeOK
<1>5. clock[c].outputs \subseteq Outputs
  BY <1>4 DEF ClockState
<1>6. CASE u.kind \in {"alarms", "flags"}
  <2>1. run.tool = "clock_checks" /\ u.part \in {"status", "flags"}
    BY <1>1, <1>6, ClockPlan DEF ClockTools
  <2>2. u.kind \notin clock[c].outputs
    BY <1>5, <1>6 DEF Outputs
  <2>3. CASE u.kind = "alarms"
    <3>1. clock[c].alarms \in SUBSET AlarmsOf(chip)
      BY <1>4 DEF ClockState
    <3>2. Problem(u) <=> Unexplained(c, clock[c].alarms)
      BY <1>0, <2>3 DEF Problem, Outputs
    <3>3. Alarming(u) <=> RealAlarm(chip, clock[c].config, clock[c].alarms)
      BY <1>3, <2>2, <2>3 DEF Alarming
    <3> QED BY <1>3, <2>1, <3>1, <3>2, <3>3, Judgement
  <2>4. CASE u.kind = "flags"
    <3>1. clock[c].flags \in SUBSET AlarmsOf(chip)
      BY <1>4 DEF ClockState
    <3>2. Problem(u) <=> Unexplained(c, clock[c].flags)
      BY <1>0, <2>4 DEF Problem, Outputs
    <3>3. Alarming(u) <=> RealAlarm(chip, clock[c].config, clock[c].flags)
      BY <1>3, <2>2, <2>4 DEF Alarming
    <3> QED BY <1>3, <2>1, <3>1, <3>2, <3>3, Judgement
  <2> QED BY <1>6, <2>3, <2>4
<1>7. CASE u.kind \in Outputs
  BY <1>0, <1>3, <1>7 DEF Problem, Alarming, Outputs
<1>8. CASE u.kind \notin Outputs \cup {"alarms", "flags"}
  <2>1. u.part \notin {"id", "status", "flags"}
    BY <1>1, <1>8, ClockPlan DEF Outputs
  <2> QED BY <1>5, <1>8, <2>1 DEF Alarming
<1> QED BY <1>6, <1>7, <1>8

-----------------------------------------------------------------------------
(* What the invariant means for a reader of the report. *)

\* A run that can report success has met with nothing bad at all, although the summary looks
\* at the checks alone.
LEMMA SuccessIsClean ==
  ASSUME IInv, ExitStatus = 0
  PROVE  bad = {}
<1>0. CommandLine(run)
  BY RunFacts
<1>1. CASE run.tool \in CheckTools
  <2>1. SummaryIsOk
    <3>1. run.tool \notin Predicates
      BY <1>1 DEF CheckTools, Predicates
    <3>2. CASE ~SummaryIsOk
      BY <1>1, <3>1, <3>2 DEF ExitStatus
    <3> QED BY <3>2
  <2> SUFFICES ASSUME NEW b \in bad PROVE FALSE
    OBVIOUS
  <2>2. PICK u \in asked : b[1] = u.dev /\ b[2] = u.part
    BY DEF IInv, BadWasAsked
  <2>3. u.dev \in ToSet(run.names) /\ u.part \in ToSet(run.checks) \cup DOMAIN Phase
    BY <1>0, <1>1, RunFacts, PlanShape
  <2>4. \A check \in ToSet(run.checks) : Passed(u.dev, check)
    BY <2>1, <2>3 DEF SummaryIsOk
  <2>5. u.part \in DOMAIN Phase
    BY <2>2, <2>3, <2>4 DEF Passed
  <2>6. run.tool = "clock_checks"
    <3>1. run.tool = "lga80d_checks" => ToSet(run.checks) \subseteq {"freq", "temp", "timing"}
      BY <1>0, <1>1 DEF CommandLine, ChecksOf
    <3>2. run.tool = "lga80d_checks" => u.part \in ToSet(run.checks)
      <4>1. u \in Plan(run, rev)
        BY RunFacts
      <4>2. PICK k \in DOMAIN run.names : u \in DevicePlan(run, rev, k)
        BY <4>1 DEF Plan
      <4> QED BY <1>0, <4>2, OtherShape DEF ClockTools
    <3> QED BY <1>1, <2>5, <3>1, <3>2 DEF CheckTools, Phase
  <2>7. PICK check \in ToSet(run.checks) : TRUE
    BY <1>0, <1>1, NotEmpty DEF CommandLine
  <2>8. PICK v \in asked : v.dev = u.dev /\ v.part = check
    BY <2>4, <2>7 DEF Passed
  <2>9. v.place[2] \in Nat /\ v.place[2] > 3
    <3>1. ToSet(run.checks) \subseteq {"id", "status", "flags"}
      BY <1>0, <1>1, <2>6 DEF CommandLine, ChecksOf
    <3>2. v \in Plan(run, rev)
      BY RunFacts
    <3> QED BY <1>0, <2>6, <2>8, <3>1, <3>2, ClockPlan DEF ClockTools
  <2>10. v.place[2] <= Phase[b[2]]
    BY <2>2, <2>5, <2>6, <2>8 DEF IInv, GivenUp, ClockTools
  <2> QED BY <2>2, <2>5, <2>9, <2>10 DEF Phase
<1>2. CASE run.tool \in Predicates
  BY <1>2 DEF ExitStatus, CheckTools, Predicates
<1>3. CASE run.tool \notin CheckTools \cup Predicates
  BY <1>3 DEF ExitStatus
<1> QED BY <1>1, <1>2, <1>3

\* The exit status is right.
LEMMA Verdict ==
  ASSUME IInv
  PROVE  VerdictIsRight
<1>0. CommandLine(run)
  BY RunFacts
<1>1. ASSUME stage = "exit", status = 0
      PROVE  /\ \A u \in Plan(run, rev) : u \in answered \/ Withheld(u) \/ u.part = "note"
             /\ run.tool = "clock_dump" => DumpRegs \subseteq UNION {u.of : u \in answered}
             /\ run.tool \in ClockTools => \A c \in ToSet(run.names) : ~WrongChip(c)
             /\ sick \subseteq moved
  <2>1. bad = {}
    BY <1>1, SuccessIsClean DEF IInv, Planned
  <2>2. \A u \in Plan(run, rev) : u \in answered \/ Withheld(u) \/ u.part = "note"
    <3>1. todo = {} /\ Begun
      BY <1>1 DEF IInv, Quiet, Begun
    <3> QED BY <2>1, <3>1 DEF IInv, Accounted, Failed, Lost, BadParts
  <2>3. ASSUME run.tool \in ClockTools, NEW u \in Plan(run, rev) PROVE u \in answered
    <3>1. u.kind # "section" /\ u.part # "note"
      <4>1. run.tool = "clock_checks" => ToSet(run.checks) \subseteq {"id", "status", "flags"}
        BY <1>0 DEF CommandLine, CheckTools, ChecksOf
      <4> QED BY <1>0, <2>3, <4>1, ClockPlan
    <3> QED BY <2>2, <3>1 DEF Withheld
  <2>4. ASSUME run.tool = "clock_dump", NEW c \in ToSet(run.names), NEW d \in DumpRegs
        PROVE  \E u \in answered : u.dev = c /\ u.kind = "registers" /\ d \in u.of
    <3>1. PICK a \in DumpRegs : BeginsRun(a) /\ d \in RunAt(a)
      BY RunsCover
    <3>2. BeginsRun(a) /\ run.tool = "clock_dump"
      BY <2>4, <3>1
    <3>3. \E v \in Plan(run, rev) : v.dev = c /\ v.kind = "registers" /\ v.of = RunAt(a)
      BY <3>2, RunsPlanned
    <3>4. PICK v \in Plan(run, rev) : v.dev = c /\ v.kind = "registers" /\ v.of = RunAt(a)
      BY <3>3
    <3> QED BY <2>3, <2>4, <3>1, <3>4 DEF ClockTools
  <2>5. ASSUME run.tool = "clock_dump" PROVE DumpRegs \subseteq UNION {u.of : u \in answered}
    <3>1. PICK c \in ToSet(run.names) : TRUE
      BY <1>0, NotEmpty DEF CommandLine
    <3> QED BY <2>4, <2>5, <3>1
  <2>6. ASSUME run.tool \in ClockTools, NEW c \in ToSet(run.names) PROVE ~WrongChip(c)
    <3>1. \E u \in answered : u.dev = c /\ SaysWhatChip(u)
      <4>1. CASE run.tool = "clock_checks"
        <5>1. PICK v \in Plan(run, rev) : v.dev = c /\ v.kind = "identity"
          BY <4>1, <2>6, IdentityPlanned
        <5> QED BY <2>3, <2>6, <5>1 DEF SaysWhatChip
      <4>2. CASE run.tool = "clock_dump"
        <5>1. PICK d \in PartNumber : d \in DumpRegs
          BY ReportsAssumption
        <5> QED BY <2>4, <2>6, <4>2, <5>1 DEF SaysWhatChip
      <4> QED BY <2>6, <4>1, <4>2 DEF ClockTools
    <3> QED BY <2>1, <3>1 DEF IInv, Judged
  <2>7. sick \subseteq moved
    BY <2>1 DEF IInv, Judged
  <2> QED BY <2>2, <2>5, <2>6, <2>7
<1>2. run.tool = "clock_checks" =>
        \A c \in Named, check \in ToSet(run.checks) :
          <<c, check, "problem">> \in bad => c \in sick \cup moved
  BY DEF IInv, Judged
<1> QED BY <1>1, <1>2 DEF VerdictIsRight

\* Devices do not stand in each other's way, and a clock is left alone until it is fit.
LEMMA Trouble ==
  ASSUME IInv
  PROVE  OnlyItsOwnTrouble
<1>0. CommandLine(run)
  BY RunFacts
<1>1. ASSUME NEW u \in asked, run.tool \in ClockTools, u.kind # "ready"
      PROVE  /\ \E v \in answered : v.dev = u.dev /\ v.kind = "ready"
             /\ "ready" \notin BadParts(u.dev)
  <2>1. u \in Plan(run, rev)
    BY RunFacts
  <2>2. u.place[2] \in Nat /\ u.place[2] > 1 /\ u.dev \in ToSet(run.names)
    BY <1>0, <1>1, <2>1, ClockPlan DEF ToSet
  <2>3. PICK v \in Plan(run, rev) : v.dev = u.dev /\ v.part = "ready" /\ v.kind = "ready"
    BY <1>1, <2>2, ReadyPlanned
  <2>4. v.place[2] = 1
    BY <1>0, <1>1, <2>3, ClockPlan
  <2>5. v \in answered
    BY <1>1, <2>1, <2>2, <2>3, <2>4, Prepared DEF Phase
  <2>6. "ready" \notin BadParts(u.dev)
    BY <1>1, <2>2, NotGivenUp DEF Phase
  <2> QED BY <2>3, <2>5, <2>6
<1>2. ASSUME NEW u \in asked, run.tool = "clock_checks", u.part \notin {"ready", "identity"}
      PROVE  ~WrongChip(u.dev)
  BY <1>2, RightChip
<1>3. ASSUME NEW u \in asked, run.tool = "clock_checks", u.part \in {"status", "flags"}
      PROVE  ToSet(MonitorReads(ChipAt(BoardRev, u.dev)))
               \subseteq {v.of : v \in {w \in answered : w.dev = u.dev}}
  <2> SUFFICES ASSUME NEW i \in DOMAIN MonitorReads(ChipAt(BoardRev, u.dev))
               PROVE  \E v \in answered : /\ v.dev = u.dev
                                          /\ v.of = MonitorReads(ChipAt(BoardRev, u.dev))[i]
    BY DEF ToSet
  <2> QED BY <1>3, ConfigKnown
<1>4. asked # {} /\ run.tool \in Gated /\ ~run.force => saw # "POWER_OFF"
  BY DEF IInv, Planned, Expelled
<1>5. ASSUME stage = "exit", asked # {}, NEW u \in Plan(run, rev) \ asked
      PROVE  \/ Withheld(u)
             \/ BadParts(u.dev) \cap {u.part, "ready", "identity", "config", "verdict"} # {}
  <2>1. todo = {} /\ Begun
    BY <1>5 DEF IInv, Quiet, Begun
  <2>2. u \notin answered
    BY RunFacts
  <2> QED BY <2>1, <2>2 DEF IInv, Accounted, Failed, Lost
<1> QED BY <1>1, <1>2, <1>3, <1>4, <1>5 DEF OnlyItsOwnTrouble

-----------------------------------------------------------------------------
(* A read. *)

\* The findings that a read can make.
Both(u) == {<<u.dev, u.part, "problem">>, <<u.dev, u.part, "failed">>}

\* What a read does to the plan and to the findings, whatever comes of it: what it strikes
\* from the plan is of its own device, and something is noted that tells why.
Made(u) ==
  /\ stage = "reads" /\ IsNext(u)
  /\ UNCHANGED <<run, power, eeprom, clock, mcu, mapMinor, changes, stage, status, rev, saw, moved>>
  /\ asked' = asked \cup {u} /\ todo' \subseteq todo \ {u}
  /\ bad \subseteq bad' /\ bad' \subseteq bad \cup Both(u)
  /\ answered \subseteq answered' /\ answered' \subseteq answered \cup {u}
  /\ u \in answered' \/ u.part = "note" \/ <<u.dev, u.part, "failed">> \in bad'
  /\ \A v \in (todo \ {u}) \ todo' :
       /\ v.dev = u.dev /\ u.part \in {v.part, "ready", "identity", "config", "verdict"}
       /\ Both(u) \cap bad' # {}
  /\ run.tool \in ClockTools /\ u.part \in DOMAIN Phase /\ bad' # bad =>
       \A v \in todo' : v.dev # u.dev

\* Every read is made so.
LEMMA ReadIsMade ==
  ASSUME IInv, NEW u \in todo, DoRead, IsNext(u), Answered(u) \/ Fails(u), asked' = asked \cup {u}
  PROVE  Made(u)
<1>0. /\ stage = "reads" /\ u \in Plan(run, rev) /\ CommandLine(run)
      /\ UNCHANGED <<run, power, eeprom, clock, mcu, mapMinor, changes, stage, status, rev, saw,
                     moved>>
  BY RunFacts DEF DoRead, devices
<1>1. Without(u) \subseteq todo \ {u} /\ AfterFailure(u) \subseteq todo \ {u}
  BY DEF Without, AfterFailure
<1>2. CASE Answered(u)
  <2>1. /\ bad' = (IF Problem(u) THEN bad \cup {<<u.dev, u.part, "problem">>} ELSE bad)
        /\ todo' = (IF Problem(u) /\ EndsDevice(u) THEN Without(u) ELSE todo \ {u})
        /\ answered' = answered \cup {u}
    BY <1>2 DEF Answered
  <2>2. ASSUME NEW v \in (todo \ {u}) \ todo'
        PROVE  /\ v.dev = u.dev /\ u.part \in {v.part, "ready", "identity", "config", "verdict"}
               /\ Both(u) \cap bad' # {}
    <3>1. Problem(u) /\ EndsDevice(u) /\ v \notin Without(u)
      BY <2>1, <2>2
    <3>2. v.dev = u.dev /\ (u.part \in {"ready", "identity", "verdict"} \/ v.part = u.part)
      BY <3>1 DEF Without, EndsDevice
    <3>3. <<u.dev, u.part, "problem">> \in bad'
      BY <2>1, <3>1
    <3> QED BY <3>2, <3>3 DEF Both
  <2>3. ASSUME run.tool \in ClockTools, u.part \in DOMAIN Phase, bad' # bad, NEW v \in todo'
        PROVE  v.dev # u.dev
    <3>1. Problem(u)
      BY <2>1, <2>3
    <3>2. u.part # "config"
      <4> SUFFICES ASSUME u.part = "config" PROVE FALSE
        OBVIOUS
      <4>1. u.kind = "config"
        <5>1. run.tool = "clock_checks" => ToSet(run.checks) \subseteq {"id", "status", "flags"}
          BY <1>0 DEF CommandLine, CheckTools, ChecksOf
        <5> QED BY <1>0, <2>3, <5>1, ClockPlan
      <4>2. mcu = {}
        BY <2>3 DEF IInv, Quiet, ClockTools, Predicates
      <4> QED BY <3>1, <4>1, <4>2 DEF Problem, Outputs
    <3>3. u.part \in {"ready", "identity"}
      BY <2>3, <3>2 DEF Phase
    <3>4. todo' = Without(u)
      BY <2>1, <3>1, <3>3 DEF EndsDevice
    <3> QED BY <3>3, <3>4 DEF Without, CostsDevice
  <2>4. bad \subseteq bad' /\ bad' \subseteq bad \cup Both(u)
    BY <2>1 DEF Both
  <2> QED BY <1>0, <1>1, <2>1, <2>2, <2>3, <2>4 DEF Made
<1>3. CASE Fails(u)
  <2>1. /\ bad' = (IF u.part = "note" THEN bad ELSE bad \cup {<<u.dev, u.part, "failed">>})
        /\ todo' = AfterFailure(u)
        /\ answered' = answered
    BY <1>3 DEF Fails
  <2>2. ASSUME NEW v \in (todo \ {u}) \ todo'
        PROVE  /\ v.dev = u.dev /\ u.part \in {v.part, "ready", "identity", "config", "verdict"}
               /\ Both(u) \cap bad' # {}
    <3>1. /\ CostsDevice(u) \/ CostsPart(u)
          /\ v.dev = u.dev /\ (CostsDevice(u) \/ v.part = u.part)
      BY <2>1, <2>2 DEF AfterFailure, Without
    <3>2. u.part # "note"
      <4>1. u.part = "note" => u.kind = "alarm"
        BY <1>0, PlanShape
      <4> QED BY <3>1, <4>1 DEF CostsDevice, CostsPart
    <3>3. u.part = "module" => v.part = "module"
      <4>1. v \in Plan(run, rev)
        BY <2>2, RunFacts
      <4> QED BY <1>0, <4>1, PlanShape
    <3>4. u.part \in {v.part, "ready", "identity", "config", "verdict"}
      BY <3>1, <3>3 DEF CostsDevice
    <3>5. <<u.dev, u.part, "failed">> \in bad'
      BY <2>1, <3>2
    <3> QED BY <3>1, <3>4, <3>5 DEF Both
  <2>3. ASSUME u.part \in DOMAIN Phase, NEW v \in todo' PROVE v.dev # u.dev
    <3>1. CostsDevice(u)
      BY <2>3 DEF CostsDevice, Phase
    <3> QED BY <2>1, <2>3, <3>1 DEF AfterFailure, Without
  <2>4. bad \subseteq bad' /\ bad' \subseteq bad \cup Both(u)
    BY <2>1 DEF Both
  <2>5. u.part = "note" \/ <<u.dev, u.part, "failed">> \in bad'
    BY <2>1
  <2> QED BY <1>0, <1>1, <2>1, <2>2, <2>3, <2>4, <2>5 DEF Made
<1> QED BY <1>2, <1>3

\* A read leaves what is asked before what is still to do, and asks what was planned.
LEMMA ReadOrdered ==
  ASSUME IInv, NEW u, Made(u)
  PROVE  Quiet' /\ Planned' /\ Ordered'
<1>1. Quiet'
  BY DEF IInv, Quiet, Made
<1>2. Planned'
  <2>1. asked' \cup todo' \subseteq Plan(run, rev)
    BY DEF IInv, Planned, Made, IsNext
  <2>2. Plan(run, rev)' = Plan(run, rev)
    BY DEF Made
  <2>3. stage' = "reads" /\ Expelled(run, saw)' = Expelled(run, saw) /\ ~Expelled(run, saw)
    BY DEF Made, IInv, Planned
  <2> QED BY <2>1, <2>2, <2>3 DEF Planned
<1>3. Ordered'
  <2>1. asked' \cap todo' = {}
    BY DEF IInv, Ordered, Made
  <2>2. ASSUME NEW w \in asked', NEW v \in todo' PROVE Precedes(w.place, v.place)
    <3>1. CASE w = u
      BY <3>1 DEF Made, IsNext
    <3>2. CASE w \in asked
      BY <3>2 DEF IInv, Ordered, Made
    <3> QED BY <3>1, <3>2 DEF Made
  <2> QED BY <2>1, <2>2 DEF Ordered
<1> QED BY <1>1, <1>2, <1>3

\* A read accounts for itself and for what it strikes from the plan.
LEMMA ReadAccounted ==
  ASSUME IInv, NEW u, Made(u)
  PROVE  Accounted'
<1>0. u \in todo /\ u \notin asked /\ Begun /\ Plan(run, rev)' = Plan(run, rev)
  BY DEF Made, IsNext, IInv, Ordered, Begun
<1> SUFFICES ASSUME NEW v \in Plan(run, rev), v \notin todo'
             PROVE  v \in answered' \/ Withheld(v) \/ Failed(v)' \/ Lost(v)'
  BY <1>0 DEF Accounted, Withheld
<1>1. CASE v \notin todo
  <2>1. v # u
    BY <1>0, <1>1
  <2>2. v \in answered \/ Withheld(v) \/ Failed(v) \/ Lost(v)
    BY <1>0, <1>1 DEF IInv, Accounted
  <2>3. v \in answered => v \in answered'
    BY DEF Made
  <2>4. Failed(v) => Failed(v)'
    BY DEF Made, Failed
  <2>5. Lost(v) => Lost(v)'
    BY <2>1 DEF Made, Lost, BadParts
  <2> QED BY <2>2, <2>3, <2>4, <2>5
<1>2. CASE v = u
  BY <1>2 DEF Made, Failed
<1>3. CASE v \in todo \ {u}
  <2>1. /\ v.dev = u.dev /\ u.part \in {v.part, "ready", "identity", "config", "verdict"}
        /\ Both(u) \cap bad' # {}
    BY <1>3 DEF Made
  <2>2. Precedes(u.place, v.place)
    BY <1>3 DEF Made, IsNext
  <2>3. u.part \in BadParts(v.dev)'
    <3>1. PICK b \in bad' : b[1] = u.dev /\ b[2] = u.part
      BY <2>1 DEF Both
    <3> QED BY <2>1, <3>1 DEF BadParts
  <2>4. u \in asked' /\ v \notin asked'
    BY <1>3 DEF Made, IInv, Ordered
  <2> QED BY <2>1, <2>2, <2>3, <2>4 DEF Lost
<1> QED BY <1>1, <1>2, <1>3

\* What a read finds is put down to it, and a clock whose readiness, identity or
\* configuration is not had is left alone from then on.
LEMMA ReadGivesUp ==
  ASSUME IInv, NEW u, Made(u)
  PROVE  BadWasAsked' /\ GivenUp'
<1>1. BadWasAsked'
  <2> SUFFICES ASSUME NEW b \in bad'
               PROVE  \E w \in asked' :
                        b = <<w.dev, w.part, "problem">> \/ b = <<w.dev, w.part, "failed">>
    BY DEF BadWasAsked
  <2>1. CASE b \in bad
    BY <2>1 DEF IInv, BadWasAsked, Made
  <2>2. CASE b \in Both(u)
    BY <2>2 DEF Both, Made
  <2> QED BY <2>1, <2>2 DEF Made
<1>2. GivenUp'
  <2> SUFFICES ASSUME run.tool \in ClockTools, NEW b \in bad', b[2] \in DOMAIN Phase
               PROVE  /\ \A v \in todo' : v.dev # b[1]
                      /\ \A v \in asked' : v.dev = b[1] => v.place[2] <= Phase[b[2]]
    BY DEF GivenUp, Made
  <2>1. CASE b \in bad
    <3>1. /\ \A v \in todo : v.dev # b[1]
          /\ \A v \in asked : v.dev = b[1] => v.place[2] <= Phase[b[2]]
      BY <2>1 DEF IInv, GivenUp
    <3> QED BY <3>1 DEF Made, IsNext
  <2>2. CASE b \notin bad
    <3>1. b[1] = u.dev /\ b[2] = u.part /\ bad' # bad
      BY <2>2 DEF Made, Both
    <3>2. \A v \in todo' : v.dev # b[1]
      BY <3>1 DEF Made
    <3>3. u \in Plan(run, rev) /\ CommandLine(run)
      BY RunFacts DEF Made, IsNext
    <3>4. u.place[2] = Phase[b[2]] /\ u.place[2] \in Nat
      <4>1. run.tool = "clock_checks" => ToSet(run.checks) \subseteq {"id", "status", "flags"}
        BY <3>3 DEF CommandLine, CheckTools, ChecksOf
      <4> QED BY <3>1, <3>3, <4>1, ClockPlan DEF Phase
    <3>5. ASSUME NEW v \in asked, v.dev = b[1] PROVE v.place[2] <= Phase[b[2]]
      <4>1. Precedes(v.place, u.place)
        BY DEF IInv, Ordered, Made, IsNext
      <4>2. v \in Plan(run, rev)
        BY RunFacts
      <4> QED BY <3>1, <3>3, <3>4, <3>5, <4>1, <4>2, ClockOrder
    <3> QED BY <3>2, <3>4, <3>5 DEF Made
  <2> QED BY <2>1, <2>2
<1> QED BY <1>1, <1>2

\* What is answered of a clock's configuration is kept until the next clock is begun.
LEMMA ReadAgrees ==
  ASSUME IInv, NEW u, Made(u), Answered(u) \/ Fails(u)
  PROVE  MonitorsAgree'
<1> SUFFICES ASSUME run.tool = "clock_checks", NEW v \in todo', NEW w \in answered',
                    w.dev = v.dev, w.part = "config", w.dev \notin moved, NEW f \in w.of
             PROVE  f \in DOMAIN monitors' /\ monitors'[f] = clock[w.dev].config[f]
  BY DEF MonitorsAgree, Made
<1>0. /\ u \in todo /\ v \in todo /\ v # u /\ CommandLine(run) /\ run.tool \in ClockTools
      /\ u \in Plan(run, rev) /\ v \in Plan(run, rev)
  BY RunFacts DEF Made, IsNext, ClockTools
<1>1. w \in answered => f \in DOMAIN monitors /\ monitors[f] = clock[w.dev].config[f]
  BY <1>0 DEF IInv, MonitorsAgree
<1>2. CASE Fails(u)
  BY <1>1, <1>2 DEF Fails
<1>3. CASE Answered(u)
  <2>1. w.dev = u.dev
    <3>1. CASE w = u
      BY <3>1
    <3>2. CASE w \in answered
      <4>1. w \in asked
        BY <3>2, RunFacts
      <4>2. IsNext(u)
        BY DEF Made
      <4> QED BY <1>0, <4>1, <4>2, OneClockAtATime
    <3> QED BY <3>1, <3>2 DEF Made
  <2>2. run.tool = "clock_checks" => ToSet(run.checks) \subseteq {"id", "status", "flags"}
    BY <1>0 DEF CommandLine, CheckTools, ChecksOf
  <2>3. w.part = "config" /\ (w = u \/ w \in asked)
    BY RunFacts DEF Made
  <2>4. u.kind # "ready"
    <3> SUFFICES ASSUME u.kind = "ready" PROVE FALSE
      OBVIOUS
    <3>1. u.place[2] = 1 /\ u.part = "ready"
      BY <1>0, ClockPlan
    <3>2. w \in asked /\ w \in Plan(run, rev)
      BY <2>3, <3>1, RunFacts
    <3>3. w.place[2] = 3
      BY <1>0, <2>2, <2>3, <3>2, ClockPlan
    <3>4. Precedes(w.place, u.place)
      BY <1>0, <3>2 DEF IInv, Ordered
    <3> QED BY <1>0, <2>1, <3>1, <3>2, <3>3, <3>4, ClockOrder
  <2>5. CASE u.kind = "config"
    <3>1. monitors' = [g \in DOMAIN monitors \cup u.of |->
                         IF g \in u.of THEN clock[u.dev].config[g] ELSE monitors[g]]
      BY <1>3, <2>4, <2>5 DEF Answered
    <3>2. f \in u.of \/ w \in answered
      BY DEF Made
    <3> QED BY <1>1, <2>1, <3>1, <3>2
  <2>6. CASE u.kind # "config"
    <3>1. monitors' = monitors
      BY <1>3, <2>4, <2>6 DEF Answered
    <3>2. w # u
      BY <1>0, <2>2, <2>6, ClockPlan
    <3> QED BY <1>1, <3>1, <3>2 DEF Made
  <2> QED BY <2>5, <2>6
<1> QED BY <1>2, <1>3

\* The devices of a tool that reads no clocks are none.
LEMMA ClocksAreForClockTools ==
  ASSUME NEW r, CommandLine(r), NEW c \in Clocks, c \in ToSet(r.names)
  PROVE  r.tool \in ClockTools
<1>1. CASE r.names = << "MCU" >>
  BY <1>1 DEF ToSet, Clocks
<1> QED BY <1>1 DEF CommandLine

\* A read judges as it should.
LEMMA ReadJudges ==
  ASSUME IInv, NEW u, Made(u), Answered(u) \/ Fails(u)
  PROVE  Judged'
<1>0. u \in todo /\ u \in Plan(run, rev) /\ CommandLine(run) /\ IsNext(u) /\ stage = "reads"
  BY RunFacts DEF Made, IsNext
<1>1. \/ /\ bad' = (IF Problem(u) THEN bad \cup {<<u.dev, u.part, "problem">>} ELSE bad)
         /\ sick' = (IF Alarming(u) THEN sick \cup {u.dev} ELSE sick)
      \/ /\ sick' = sick /\ answered' = answered
         /\ bad' \subseteq bad \cup {<<u.dev, u.part, "failed">>}
  BY DEF Answered, Fails
<1>2. ASSUME NEW w \in answered', SaysWhatChip(w), WrongChip(w.dev)
      PROVE  <<w.dev, w.part, "problem">> \in bad'
  <2>1. CASE w \in answered
    BY <1>2, <2>1 DEF IInv, Judged, Made
  <2>2. CASE w \notin answered
    <3>1. w = u /\ answered' # answered
      BY <2>2 DEF Made
    <3>2. Problem(u)
      BY <1>2, <3>1 DEF SaysWhatChip, Problem
    <3> QED BY <1>1, <3>1, <3>2
  <2> QED BY <2>1, <2>2
<1>3. sick' \subseteq moved \cup {b[1] : b \in bad'}
  <2> SUFFICES ASSUME NEW c \in sick', c \notin moved PROVE \E b \in bad' : b[1] = c
    OBVIOUS
  <2>1. CASE c \in sick
    BY <2>1 DEF IInv, Judged, Made
  <2>2. CASE c \notin sick
    <3>1. c = u.dev /\ Alarming(u)
         /\ bad' = (IF Problem(u) THEN bad \cup {<<u.dev, u.part, "problem">>} ELSE bad)
      BY <1>1, <2>2
    <3>2. run.tool \in ClockTools
      BY <1>0, <3>1, PlanShape, ClocksAreForClockTools DEF Alarming
    <3>3. Problem(u)
      BY <1>0, <3>1, <3>2, AlarmingIsProblem
    <3>4. <<c, u.part, "problem">> \in bad' /\ <<c, u.part, "problem">>[1] = c
      BY <3>1, <3>3
    <3> QED BY <3>4
  <2> QED BY <2>1, <2>2
<1>4. ASSUME run.tool = "clock_checks", NEW c \in Named, NEW check \in ToSet(run.checks),
             <<c, check, "problem">> \in bad'
      PROVE  c \in sick' \cup moved
  <2>0. sick \subseteq sick'
    BY <1>1
  <2>1. CASE <<c, check, "problem">> \in bad
    BY <1>4, <2>0, <2>1 DEF IInv, Judged
  <2>2. CASE <<c, check, "problem">> \notin bad
    <3>1. <<c, check, "problem">> # <<u.dev, u.part, "failed">>
      OBVIOUS
    <3>2. /\ Problem(u) /\ <<c, check, "problem">> = <<u.dev, u.part, "problem">>
          /\ sick' = (IF Alarming(u) THEN sick \cup {u.dev} ELSE sick)
      BY <1>1, <1>4, <2>2, <3>1
    <3>3. c = u.dev /\ check = u.part
      BY <3>2
    <3>4. check \in {"id", "status", "flags"}
      BY <1>0, <1>4 DEF CommandLine, CheckTools, ChecksOf
    <3> QED BY <1>0, <1>4, <3>2, <3>3, <3>4, AlarmingIsProblem DEF ClockTools
  <2> QED BY <2>1, <2>2
<1>5. /\ \A w : SaysWhatChip(w)' = SaysWhatChip(w) /\ WrongChip(w)' = WrongChip(w)
      /\ Named' = Named /\ run' = run /\ moved' = moved
  BY DEF Made, SaysWhatChip, WrongChip, Named
<1> QED BY <1>2, <1>3, <1>4, <1>5 DEF Judged

\* A read leaves the types alone.
LEMMA ReadTyped ==
  ASSUME IInv, NEW u, Made(u), Answered(u) \/ Fails(u)
  PROVE  TypeOK'
<1>1. Named' = Named
  BY DEF Made, Named
<1>2. faults' \in 0..MaxFaults
  BY ReportsAssumption DEF Answered, Fails, Fault, IInv, TypeOK
<1>3. sick' \subseteq Clocks /\ answered' \subseteq asked'
  BY DEF Answered, Fails, Alarming, IInv, TypeOK, Made
<1>4. run.tool = "clock_dump" => \A v \in todo' : v.part = "dump" =>
        /\ v.of # {} /\ Cardinality(v.of) <= MaxRead
        /\ \A a, b \in v.of : a \div PageSize = b \div PageSize
  BY DEF IInv, TypeOK, Made
<1> QED BY <1>1, <1>2, <1>3, <1>4 DEF IInv, TypeOK, Made

\* A read keeps the invariant.
LEMMA ReadStep ==
  ASSUME IInv, DoRead
  PROVE  IInv'
<1>1. PICK u \in todo : IsNext(u) /\ (Answered(u) \/ Fails(u)) /\ asked' = asked \cup {u}
  BY DEF DoRead
<1>2. Made(u)
  BY <1>1, ReadIsMade
<1> QED BY <1>1, <1>2, ReadOrdered, ReadAccounted, ReadGivesUp, ReadAgrees, ReadJudges, ReadTyped
        DEF IInv

-----------------------------------------------------------------------------
(* The other steps. *)

\* Before its reads a run has found nothing, and nothing can be wrong with what it has found.
LEMMA NothingFound ==
  ASSUME IInv, stage \in {"power", "revision"}
  PROVE  /\ asked = {} /\ answered = {} /\ bad = {} /\ todo = {} /\ rev = 0 /\ ~Begun
         /\ UNCHANGED <<run, devices, findings, ghosts>> =>
              Ordered' /\ BadWasAsked' /\ GivenUp' /\ MonitorsAgree' /\ Judged'
<1>1. asked = {} /\ answered = {} /\ todo = {} /\ rev = 0 /\ ~Begun
  BY DEF IInv, Quiet, TypeOK, Begun
<1>2. bad = {}
  BY <1>1 DEF IInv, BadWasAsked
<1>3. ASSUME UNCHANGED <<run, devices, findings, ghosts>>
      PROVE  Ordered' /\ BadWasAsked' /\ GivenUp' /\ MonitorsAgree' /\ Judged'
  <2>1. /\ asked' = {} /\ bad' = {} /\ answered' = {} /\ sick' = sick /\ moved' = moved
    BY <1>1, <1>2, <1>3 DEF findings, ghosts
  <2>2. Ordered' /\ BadWasAsked' /\ GivenUp' /\ MonitorsAgree'
    BY <2>1 DEF Ordered, BadWasAsked, GivenUp, MonitorsAgree
  <2>3. sick \subseteq moved
    BY <1>2 DEF IInv, Judged
  <2>4. Judged'
    BY <2>1, <2>3 DEF Judged
  <2> QED BY <2>2, <2>4
<1> QED BY <1>1, <1>2, <1>3

\* The runs of a dump that is planned can be read.
LEMMA DumpPlanFits ==
  ASSUME NEW r, CommandLine(r), r.tool = "clock_dump", NEW h, NEW u \in Plan(r, h), u.part = "dump"
  PROVE  /\ u.of # {} /\ Cardinality(u.of) <= MaxRead
         /\ \A a, b \in u.of : a \div PageSize = b \div PageSize
<1>1. \E a \in DumpRegs : u.of = RunAt(a)
  BY ClockPlan DEF ClockTools
<1> QED BY <1>1, RunFits

\* A run starts with nothing found, and a predicate with all of its plan still to do.
LEMMA Starts ==
  ASSUME Init
  PROVE  IInv
<1>0. /\ run \in Runs /\ CommandLine(run) /\ asked = {} /\ answered = {} /\ bad = {} /\ sick = {}
      /\ moved = {} /\ rev = 0 /\ status = 0
      /\ run.tool \in Predicates => run.tool \notin Gated /\ run.tool # "clock_dump"
  BY RunsAssumption DEF Init, Predicates, Gated, ClockTools
<1>1. TypeOK
  <2>1. DOMAIN clock = Named /\ \A c \in Named : clock[c] \in ClockState(ChipAt(BoardRev, c))
    <3>1. \A c \in Named : c \in Clocks /\ clock[c] \in ClockStates[c]
      BY DEF Init, Named
    <3> QED BY <3>1, ClockStatesAssumption DEF Init
  <2>2. /\ power \in {"POWER_ON", "POWER_OFF"} /\ eeprom \in Eeproms \cup {BoardRev}
        /\ mcu \in McuStates \cup {{}} /\ mapMinor \in MapMinors
        /\ stage \in {"power", "reads"} /\ saw = "unread"
    BY DEF Init, FirstRead
  <2>3. run.tool = "clock_dump" => todo = {}
    BY <1>0 DEF Init
  <2>4. changes \in 0..MaxChanges /\ faults \in 0..MaxFaults
    BY ReportsAssumption DEF Init
  <2> QED BY <1>0, <2>1, <2>2, <2>3, <2>4 DEF TypeOK
<1>2. Quiet
  BY <1>0 DEF Init, FirstRead, Quiet
<1>3. /\ todo \subseteq Plan(run, rev) /\ stage \in {"power", "reads"}
      /\ stage = "reads" => run.tool \in Predicates /\ todo = Plan(run, rev)
  BY <1>0 DEF Init, FirstRead
<1>4. Planned
  BY <1>0, <1>3 DEF Planned, Expelled
<1>5. Accounted
  BY <1>3 DEF Accounted, Begun
<1>6. Ordered /\ BadWasAsked /\ GivenUp /\ MonitorsAgree /\ Judged
  BY <1>0 DEF Ordered, BadWasAsked, GivenUp, MonitorsAgree, Judged
<1> QED BY <1>1, <1>2, <1>4, <1>5, <1>6 DEF IInv

\* A run goes on only with a power state that suits it.
LEMMA PowerStep ==
  ASSUME IInv, ReadPower
  PROVE  IInv'
<1>0. /\ stage = "power" /\ UNCHANGED <<run, devices, rev, findings, ghosts>>
      /\ saw' \in {"unknown", "POWER_ON", "POWER_OFF"} /\ faults' \in 0..MaxFaults
  BY ReportsAssumption DEF ReadPower, IInv, TypeOK, Fault
<1>1. /\ asked' = {} /\ answered' = {} /\ rev' = 0 /\ run' = run /\ todo = {}
      /\ Ordered' /\ BadWasAsked' /\ GivenUp' /\ MonitorsAgree' /\ Judged'
  BY <1>0, NothingFound DEF findings, ghosts
<1>2. \/ stage' = "exit" /\ status' = 1 /\ todo' = {}
      \/ /\ ~Expelled(run, saw') /\ run.tool \in Gated /\ stage' = "revision"
         /\ todo' = {} /\ status' = status
      \/ /\ ~Expelled(run, saw') /\ run.tool \notin Gated /\ stage' = "reads"
         /\ todo' = Plan(run, 0) /\ status' = status
  BY <1>1 DEF ReadPower, Exit, Begin
<1>3. TypeOK'
  <2>1. run.tool = "clock_dump" => todo' = {}
    BY <1>2 DEF Gated, ClockTools
  <2>2. Named' = Named
    BY <1>0 DEF Named
  <2>3. stage' \in {"power", "revision", "reads", "exit"} /\ status' \in 0..2
    BY <1>2 DEF IInv, TypeOK
  <2> QED BY <1>0, <1>1, <2>1, <2>2, <2>3 DEF IInv, TypeOK, devices, ghosts
<1>4. Quiet'
  BY <1>0, <1>1, <1>2 DEF IInv, Quiet, devices
<1>5. todo' \subseteq Plan(run, rev)' /\ (stage' = "reads" => todo' = Plan(run, rev)')
  BY <1>1, <1>2
<1>6. Planned'
  <2>1. Expelled(run, saw)' = Expelled(run, saw')
    BY <1>1 DEF Expelled
  <2> QED BY <1>1, <1>2, <1>5, <2>1 DEF Planned
<1>7. Accounted'
  BY <1>1, <1>2, <1>5 DEF Accounted, Begun
<1> QED BY <1>1, <1>3, <1>4, <1>6, <1>7 DEF IInv

\* Once it knows the board a run has all of its plan still to do.
LEMMA RevisionStep ==
  ASSUME IInv, LearnRevision \/ NoRevision
  PROVE  IInv'
<1>0. /\ stage = "revision" /\ UNCHANGED <<run, devices, findings, ghosts, saw>>
      /\ faults' \in 0..MaxFaults /\ rev' \in Eeproms \cup {0, BoardRev, run.hwRev}
  BY ReportsAssumption DEF LearnRevision, NoRevision, IInv, TypeOK, Fault
<1>1. /\ asked' = {} /\ answered' = {} /\ run' = run /\ saw' = saw /\ todo = {}
      /\ run.tool \in Gated /\ ~Expelled(run, saw) /\ CommandLine(run)
      /\ Ordered' /\ BadWasAsked' /\ GivenUp' /\ MonitorsAgree' /\ Judged'
  BY <1>0, NothingFound, RunFacts DEF findings, ghosts, IInv, Quiet, Planned
<1>2. \/ stage' = "exit" /\ status' = 1 /\ todo' = {}
      \/ stage' = "reads" /\ todo' = Plan(run, rev') /\ status' = status
  BY <1>1 DEF LearnRevision, NoRevision, Exit, Begin
<1>3. TypeOK'
  <2>1. run.tool = "clock_dump" => \A u \in todo' : u.part = "dump" =>
          /\ u.of # {} /\ Cardinality(u.of) <= MaxRead
          /\ \A a, b \in u.of : a \div PageSize = b \div PageSize
    BY <1>1, <1>2, DumpPlanFits
  <2>2. Named' = Named
    BY <1>1 DEF Named
  <2>3. stage' \in {"power", "revision", "reads", "exit"} /\ status' \in 0..2
    BY <1>2 DEF IInv, TypeOK
  <2> QED BY <1>0, <1>1, <2>1, <2>2, <2>3 DEF IInv, TypeOK, devices, ghosts
<1>4. Quiet'
  BY <1>0, <1>1, <1>2 DEF IInv, Quiet, devices
<1>5. todo' \subseteq Plan(run, rev)' /\ (stage' = "reads" => todo' = Plan(run, rev)')
  BY <1>1, <1>2
<1>6. Planned'
  <2>1. Expelled(run, saw)' = Expelled(run, saw)
    BY <1>1 DEF Expelled
  <2> QED BY <1>1, <1>2, <1>5, <2>1 DEF Planned
<1>7. Accounted'
  BY <1>1, <1>2, <1>5 DEF Accounted, Begun
<1> QED BY <1>1, <1>3, <1>4, <1>6, <1>7 DEF IInv

\* A section is passed over only if the firmware withholds it.
LEMMA SkipStep ==
  ASSUME IInv, SkipSection
  PROVE  IInv'
<1>1. PICK u \in todo : Withheld(u) /\ todo' = todo \ {u}
  BY DEF SkipSection
<1>2. /\ stage = "reads"
      /\ UNCHANGED <<run, devices, stage, status, rev, saw, findings, ghosts, faults>>
  BY DEF SkipSection
<1>3. TypeOK'
  BY <1>1, <1>2 DEF IInv, TypeOK, Named, devices, ghosts, findings
<1>4. Quiet'
  BY <1>2 DEF IInv, Quiet, devices
<1>5. Planned' /\ Ordered' /\ BadWasAsked' /\ GivenUp' /\ MonitorsAgree'
  <2>1. Planned'
    <3>1. Plan(run, rev)' = Plan(run, rev) /\ Expelled(run, saw)' = Expelled(run, saw)
      BY <1>2
    <3> QED BY <1>1, <1>2, <3>1 DEF IInv, Planned, findings
  <2>2. Ordered' /\ BadWasAsked' /\ GivenUp'
    BY <1>1, <1>2 DEF IInv, Ordered, BadWasAsked, GivenUp, findings
  <2>3. MonitorsAgree'
    BY <1>1, <1>2 DEF IInv, MonitorsAgree, findings, ghosts, devices
  <2> QED BY <2>1, <2>2, <2>3
<1>6. Accounted'
  <2>1. Plan(run, rev)' = Plan(run, rev) /\ Begun
    BY <1>2 DEF Begun
  <2>2. \A v : Failed(v)' = Failed(v) /\ Lost(v)' = Lost(v) /\ Withheld(v)' = Withheld(v)
    BY <1>2 DEF Failed, Lost, Withheld, BadParts, findings
  <2>3. answered' = answered
    BY <1>2 DEF ghosts
  <2> QED BY <1>1, <2>1, <2>2, <2>3 DEF IInv, Accounted
<1>7. Judged'
  BY <1>2 DEF IInv, Judged, Named, SaysWhatChip, WrongChip, findings, ghosts
<1> QED BY <1>3, <1>4, <1>5, <1>6, <1>7 DEF IInv

\* A run ends with the exit status that its findings call for.
LEMMA FinishStep ==
  ASSUME IInv, Finish
  PROVE  IInv'
<1>1. /\ stage = "reads" /\ todo = {} /\ todo' = todo /\ stage' = "exit" /\ status' = ExitStatus
      /\ UNCHANGED <<run, devices, rev, saw, findings, ghosts, faults>>
  BY DEF Finish, Exit
<1>2. TypeOK'
  <2>1. ExitStatus \in 0..2
    <3>1. CASE run.tool \in CheckTools
      BY <3>1 DEF ExitStatus, CheckTools, Predicates
    <3>2. CASE run.tool \in Predicates
      BY <3>2 DEF ExitStatus, CheckTools, Predicates
    <3>3. CASE run.tool \notin CheckTools \cup Predicates
      BY <3>3 DEF ExitStatus
    <3> QED BY <3>1, <3>2, <3>3
  <2> QED BY <1>1, <2>1 DEF IInv, TypeOK, Named, devices, ghosts, findings
<1>3. Quiet'
  BY <1>1 DEF IInv, Quiet, devices
<1>4. Planned'
  <2>1. Plan(run, rev)' = Plan(run, rev) /\ Expelled(run, saw)' = Expelled(run, saw)
    BY <1>1
  <2>2. ExitStatus' = ExitStatus
    BY <1>1 DEF ExitStatus, SummaryIsOk, Passed, findings
  <2> QED BY <1>1, <2>1, <2>2 DEF IInv, Planned, findings
<1>5. Ordered' /\ BadWasAsked' /\ GivenUp'
  BY <1>1 DEF IInv, Ordered, BadWasAsked, GivenUp, findings
<1>6. MonitorsAgree'
  BY <1>1 DEF MonitorsAgree
<1>7. Accounted'
  <2>1. Plan(run, rev)' = Plan(run, rev) /\ Begun
    BY <1>1 DEF Begun
  <2>2. \A v : Failed(v)' = Failed(v) /\ Lost(v)' = Lost(v) /\ Withheld(v)' = Withheld(v)
    BY <1>1 DEF Failed, Lost, Withheld, BadParts, findings
  <2>3. answered' = answered
    BY <1>1 DEF ghosts
  <2> QED BY <1>1, <2>1, <2>2, <2>3 DEF IInv, Accounted
<1>8. Judged'
  BY <1>1 DEF IInv, Judged, Named, SaysWhatChip, WrongChip, findings, ghosts
<1> QED BY <1>2, <1>3, <1>4, <1>5, <1>6, <1>7, <1>8 DEF IInv

\* What the run itself has come to.
progress == <<run, stage, status, rev, saw, todo, findings, answered, sick, faults>>

\* A change of the devices disturbs only what is said of their state.
LEMMA DevicesAside ==
  ASSUME IInv, UNCHANGED progress, moved \subseteq moved'
  PROVE  Planned' /\ Ordered' /\ Accounted' /\ BadWasAsked' /\ GivenUp' /\ Judged'
<1>1. UNCHANGED <<run, stage, status, rev, saw, todo, monitors, asked, bad, answered, sick, faults>>
  BY DEF progress, findings
<1>2. Planned'
  <2>1. Plan(run, rev)' = Plan(run, rev) /\ Expelled(run, saw)' = Expelled(run, saw)
    BY <1>1
  <2>2. ExitStatus' = ExitStatus
    BY <1>1 DEF ExitStatus, SummaryIsOk, Passed
  <2> QED BY <1>1, <2>1, <2>2 DEF IInv, Planned
<1>3. Ordered' /\ BadWasAsked' /\ GivenUp'
  BY <1>1 DEF IInv, Ordered, BadWasAsked, GivenUp
<1>4. Accounted'
  <2>1. Plan(run, rev)' = Plan(run, rev) /\ Begun' = Begun
    BY <1>1 DEF Begun
  <2>2. \A v : Failed(v)' = Failed(v) /\ Lost(v)' = Lost(v) /\ Withheld(v)' = Withheld(v)
    BY <1>1 DEF Failed, Lost, Withheld, BadParts
  <2> QED BY <1>1, <2>1, <2>2 DEF IInv, Accounted
<1>5. Judged'
  BY <1>1 DEF IInv, Judged, Named, SaysWhatChip, WrongChip
<1> QED BY <1>2, <1>3, <1>4, <1>5

\* A clock that changes its configuration after it was read has moved.
LEMMA ClockStep ==
  ASSUME IInv, NEW c \in Named, ClockChanges(c)
  PROVE  IInv'
<1> DEFINE chip == ChipAt(BoardRev, c)
<1>1. PICK new \in ClockStates[c], cleared \in SUBSET {"cleared"} :
        /\ clock' = [clock EXCEPT ![c] = [new EXCEPT
             !.flags = IF cleared = {} THEN clock[c].flags \cup new.alarms ELSE new.alarms]]
        /\ moved' = IF /\ new.config # clock[c].config
                        /\ \E u \in asked : u.dev = c /\ u.part = "config"
                      THEN moved \cup {c} ELSE moved
  BY DEF ClockChanges
<1>2. /\ UNCHANGED progress /\ UNCHANGED <<power, eeprom, mcu, mapMinor>>
      /\ changes' \in 0..MaxChanges /\ moved \subseteq moved' /\ c \in Clocks
  BY <1>1, ReportsAssumption DEF ClockChanges, progress, IInv, TypeOK, Named
<1>3. new \in ClockState(chip) /\ clock[c] \in ClockState(chip)
  BY <1>2, ClockStatesAssumption DEF IInv, TypeOK
<1>4. /\ DOMAIN clock' = Named /\ clock'[c] \in ClockState(chip) /\ clock'[c].config = new.config
      /\ \A d \in Named \ {c} : clock'[d] = clock[d]
  <2>1. DOMAIN clock = Named
    BY DEF IInv, TypeOK
  <2>2. new.alarms \in SUBSET AlarmsOf(chip) /\ clock[c].flags \in SUBSET AlarmsOf(chip)
    BY <1>3 DEF ClockState
  <2> DEFINE flags == IF cleared = {} THEN clock[c].flags \cup new.alarms ELSE new.alarms
  <2>3. flags \in SUBSET AlarmsOf(chip)
    BY <2>2
  <2> HIDE DEF flags
  <2>4. [new EXCEPT !.flags = flags] \in ClockState(chip)
        /\ [new EXCEPT !.flags = flags].config = new.config
    BY <1>3, <2>3 DEF ClockState
  <2>5. clock' = [clock EXCEPT ![c] = [new EXCEPT !.flags = flags]]
    BY <1>1 DEF flags
  <2> QED BY <2>1, <2>4, <2>5
<1>5. TypeOK'
  <2>1. Named' = Named /\ moved' \subseteq Clocks
    BY <1>1, <1>2 DEF Named, progress, IInv, TypeOK
  <2>2. \A d \in Named : clock'[d] \in ClockState(ChipAt(BoardRev, d))
    BY <1>4 DEF IInv, TypeOK
  <2> QED BY <1>2, <1>4, <2>1, <2>2 DEF IInv, TypeOK, progress, findings
<1>6. Quiet'
  BY <1>2 DEF IInv, Quiet, progress, findings
<1>7. MonitorsAgree'
  <2> SUFFICES ASSUME run.tool = "clock_checks", NEW v \in todo, NEW w \in answered,
                      w.dev = v.dev, w.part = "config", w.dev \notin moved', NEW f \in w.of
               PROVE  f \in DOMAIN monitors /\ monitors[f] = clock'[w.dev].config[f]
    BY <1>2 DEF MonitorsAgree, progress, findings
  <2>1. f \in DOMAIN monitors /\ monitors[f] = clock[w.dev].config[f]
    BY <1>2 DEF IInv, MonitorsAgree
  <2>2. w \in asked /\ w.dev \in Named
    <3>1. w \in asked /\ w \in Plan(run, rev) /\ CommandLine(run)
      BY RunFacts
    <3>2. w.dev \in ToSet(run.names) /\ ToSet(run.names) \subseteq Clocks
      BY <3>1, PlanShape DEF CommandLine, ClockTools, SupplyTools, Predicates
    <3> QED BY <3>1, <3>2 DEF Named
  <2>3. clock'[w.dev].config = clock[w.dev].config
    <3>1. CASE w.dev = c
      BY <1>1, <1>4, <2>2, <3>1
    <3>2. CASE w.dev # c
      BY <1>4, <2>2, <3>2
    <3> QED BY <3>1, <3>2
  <2> QED BY <2>1, <2>3
<1> QED BY <1>2, <1>5, <1>6, <1>7, DevicesAside DEF IInv

\* The MCU's pages change under the predicates alone.
LEMMA McuStep ==
  ASSUME IInv, McuChanges
  PROVE  IInv'
<1>1. /\ UNCHANGED progress /\ moved' = moved /\ UNCHANGED <<eeprom, clock, mapMinor>>
      /\ power' \in {"POWER_ON", "POWER_OFF"} /\ mcu' \in McuStates /\ changes' \in 0..MaxChanges
      /\ run.tool \in Predicates
  BY ReportsAssumption DEF McuChanges, progress, ghosts, IInv, TypeOK
<1>2. TypeOK'
  BY <1>1 DEF IInv, TypeOK, Named, progress, findings
<1>3. Quiet'
  BY <1>1 DEF IInv, Quiet, progress, findings
<1>4. MonitorsAgree'
  BY <1>1 DEF IInv, MonitorsAgree, progress, findings
<1> QED BY <1>1, <1>2, <1>3, <1>4, DevicesAside DEF IInv

\* The invariant is kept by every step.
LEMMA Steps ==
  ASSUME IInv, [Next]_vars
  PROVE  IInv'
<1>1. ASSUME UNCHANGED vars PROVE IInv'
  <2>1. /\ UNCHANGED progress /\ moved' = moved
        /\ UNCHANGED <<power, eeprom, clock, mcu, mapMinor, changes>>
    BY <1>1 DEF vars, progress, devices, ghosts, findings
  <2>2. TypeOK'
    BY <2>1 DEF IInv, TypeOK, Named, progress, findings
  <2>3. Quiet' /\ MonitorsAgree'
    BY <2>1 DEF IInv, Quiet, MonitorsAgree, progress, findings
  <2> QED BY <2>1, <2>2, <2>3, DevicesAside DEF IInv
<1> QED BY <1>1, ClockStep, McuStep, PowerStep, RevisionStep, ReadStep, SkipStep, FinishStep
        DEF Next

-----------------------------------------------------------------------------
(* The theorems. *)

\* The inductive invariant.
THEOREM InductiveInvariant == Spec => []IInv
  BY Starts, Steps, PTL DEF Spec

\* The variables keep their types, and every read of a dump that is still to do is of
\* registers of one page and no more than one read returns.
THEOREM TypeCorrect == Spec => []TypeOK
<1>1. IInv => TypeOK
  BY DEF IInv
<1> QED BY <1>1, InductiveInvariant, PTL

\* The exit status is right, and no clock is reported for an alarm that does not matter.
THEOREM VerdictRight == Spec => []VerdictIsRight
  BY InductiveInvariant, Verdict, PTL

\* Devices do not stand in each other's way, and a clock is left alone until it is fit.
THEOREM OwnTrouble == Spec => []OnlyItsOwnTrouble
  BY InductiveInvariant, Trouble, PTL
=============================================================================
