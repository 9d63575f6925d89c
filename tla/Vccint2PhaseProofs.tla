-------------------------- MODULE Vccint2PhaseProofs --------------------------
(***************************************************************************)
(* Theorems about Vccint2Phase, for any rails.                             *)
(***************************************************************************)
EXTENDS Vccint2Phase, TLAPS

-----------------------------------------------------------------------------
(* The values that a page of DDC_CONFIG takes.                             *)

Strap(m, p) == FourPhase(m, KeepRail, strapped)[p]
Two(r, p) == TwoPhase(r, strapped - 2)[p]

\* FnVCCINT1 keeps its rail, FnVCCINT2 is moved to another.
OtherRails == Rails \ {KeepRail}
Value(m, p, x) ==
  \/ x = Strap(m, p)
  \/ m = "FnVCCINT1" /\ x = Two(KeepRail, p)
  \/ m = "FnVCCINT2" /\ \E r \in OtherRails : x = Two(r, p)
Values(d) == \A m \in Modules : \A p \in Pages : Value(m, p, d[m][p])

AllStrap(m, d) == \A p \in Pages : d[m][p] = Strap(m, p)
AllTwo(m, r, d) == \A p \in Pages : d[m][p] = Two(r, p)

\* What the tool's plan is for its options.
PlanGood(o, d) ==
  IF o.restore = "yes" THEN \A m \in Modules : AllStrap(m, d)
  ELSE /\ AllTwo("FnVCCINT1", KeepRail, d)
       /\ o.dropRail # NoRail => o.dropRail \in OtherRails /\ AllTwo("FnVCCINT2", o.dropRail, d)

RegistersNew == \A p \in Pages : onOff[p] = OnOffNew /\ operation[p] = OperationNew

Types ==
  /\ strapped \in {3, 4}
  /\ ddc \in [Modules -> [Pages -> Ddc]] /\ Values(ddc)
  /\ plan \in [Modules -> [Pages -> Ddc]] /\ Values(plan)
  /\ onOff \in [Pages -> {"EN", "OPERATION"}] /\ operation \in [Pages -> {"on", "off"}]
  /\ power \in {"POWER_OFF", "POWER_ON"} /\ fsm \in {"POWER_OFF", "POWER_ON"}
  /\ run \in {"idle", "planning", "writing", "verifying"} /\ options \in Options
  /\ todo \subseteq Registers
  /\ outcome \in {"none", "refused", "failed", "mismatch", "ok"}
  /\ vin \in {"quiet", "cycled"} /\ halted \in 0..2

Planned ==
  /\ run \in {"writing", "verifying"} => PlanGood(options, plan)
  /\ run = "idle" => todo = {}
  /\ outcome = "ok" =>
       run = "idle" /\ ddc = plan /\ PlanGood(options, plan) /\ RegistersNew

Write(reg, m, p) == [reg |-> reg, module |-> m, page |-> p]

\* What is not left to read is as it was read; what is not left to write, as planned.
DdcBut(t, d) ==
  \A m \in Modules : \A p \in Pages :
    Write("DDC_CONFIG", m, p) \notin t => d[m][p] = plan[m][p]

WrittenBut(t) ==
  /\ DdcBut(t, ddc)
  /\ \A p \in Pages :
       /\ Write("ON_OFF_CONFIG", "FnVCCINT2", p) \notin t => onOff[p] = OnOffNew
       /\ Write("OPERATION", "FnVCCINT2", p) \notin t => operation[p] = OperationNew

\* What a VIN cycle leaves.
Strapped ==
  ddc = Straps /\ onOff = [p \in Pages |-> "EN"] /\ operation = [p \in Pages |-> "on"]

LastRead == Write("OPERATION", "FnVCCINT2", 1)

\* While VIN stays, the plan is made of what is there, what is written is as planned, and
\* so is all in the end.  Whatever VIN does, what was found good still is, or else VIN was
\* cycled since; the last register is then yet to be read.
Written ==
  /\ run = "planning" /\ vin = "quiet" => DdcBut(todo, ddc)
  /\ run = "writing" /\ vin = "quiet" => WrittenBut(todo)
  /\ run = "verifying" /\ vin = "quiet" => WrittenBut({})
  /\ run = "verifying" => LastRead \in todo /\ (outcome = "none" => WrittenBut(todo) \/ Strapped)

KeepAlike(d) == AllStrap("FnVCCINT1", d) \/ AllTwo("FnVCCINT1", KeepRail, d)
DropAlike(d) == AllStrap("FnVCCINT2", d) \/ \E r \in OtherRails : AllTwo("FnVCCINT2", r, d)

\* After no interruption, and after one.
Whole(d) == KeepAlike(d) /\ (DropAlike(d) \/ AllTwo("FnVCCINT1", KeepRail, d))
Halfway(d) ==
  /\ KeepAlike(d) \/ DropAlike(d)
  /\ d["FnVCCINT1"][0] = Strap("FnVCCINT1", 0) /\ d["FnVCCINT1"][1] # Strap("FnVCCINT1", 1) =>
       AllStrap("FnVCCINT2", d)

KeepWrite(p) == Write("DDC_CONFIG", "FnVCCINT1", p)
DropWrite(p) == Write("DDC_CONFIG", "FnVCCINT2", p)

\* The rail is changed page by page, once FnVCCINT2's pages are alike; left are the
\* writes in t.
Changing(t, d) ==
  /\ KeepWrite(0) \in t => KeepAlike(d) /\ KeepWrite(1) \in t
  /\ KeepWrite(0) \in t \/ KeepWrite(1) \in t => DropAlike(plan)
  /\ KeepWrite(0) \notin t /\ KeepWrite(1) \in t => \A p \in Pages : DropWrite(p) \notin t

Interruptions ==
  vin = "quiet" =>
    /\ run # "writing" /\ halted = 0 => Whole(ddc)
    /\ run # "writing" /\ halted = 1 => Halfway(ddc)
    /\ run = "writing" /\ halted = 0 => Changing(todo, ddc)

IInv == Types /\ Planned /\ Written /\ ShrunkMeansDropped /\ Interruptions

-----------------------------------------------------------------------------
(* The values.                                                             *)

LEMMA Forms ==
  ASSUME strapped \in {3, 4}, NEW m \in Modules, NEW p \in Pages, NEW r \in Rails
  PROVE  /\ Strap(m, p) = [id |-> IF m = "FnVCCINT1" THEN 2 * p ELSE 2 * p + 1,
                           rail |-> KeepRail, phases |-> strapped]
         /\ Two(r, p) = [id |-> p, rail |-> r, phases |-> strapped - 2]
         /\ Strap(m, p) \in Ddc /\ Two(r, p) \in Ddc
<1>1. Strap(m, p) = [id |-> IF m = "FnVCCINT1" THEN 2 * p ELSE 2 * p + 1,
                     rail |-> KeepRail, phases |-> strapped]
  BY DEF Strap, FourPhase
<1>2. Two(r, p) = [id |-> p, rail |-> r, phases |-> strapped - 2]
  BY DEF Two, TwoPhase
<1>3. /\ (IF m = "FnVCCINT1" THEN 2 * p ELSE 2 * p + 1) \in 0..3 /\ p \in 0..3
      /\ strapped \in 0..7 /\ strapped - 2 \in 0..7
  BY DEF Pages
<1> QED BY <1>1, <1>2, <1>3, RailsAssumption DEF Ddc

\* What tells them apart.
LEMMA Fields ==
  ASSUME strapped \in {3, 4}, NEW m \in Modules, NEW p \in Pages, NEW x, Value(m, p, x)
  PROVE  /\ x \in Ddc
         /\ \/ x = Strap(m, p) /\ x.rail = KeepRail /\ x.phases = strapped
            \/ /\ m = "FnVCCINT1" /\ x = Two(KeepRail, p) /\ x.rail = KeepRail
               /\ x.phases = strapped - 2
            \/ /\ m = "FnVCCINT2" /\ x = Two(x.rail, p) /\ x.rail \in OtherRails
               /\ x.phases = strapped - 2
<1>1. KeepRail \in Rails /\ OtherRails \subseteq Rails
  BY RailsAssumption DEF OtherRails
<1>2. CASE x = Strap(m, p)
  BY <1>1, <1>2, Forms
<1>3. CASE m = "FnVCCINT1" /\ x = Two(KeepRail, p)
  BY <1>1, <1>3, Forms
<1>4. ASSUME m = "FnVCCINT2", NEW r \in OtherRails, x = Two(r, p)
      PROVE  x \in Ddc /\ x.rail = r /\ x.phases = strapped - 2
  BY <1>1, <1>4, Forms
<1> QED BY <1>2, <1>3, <1>4 DEF Value

LEMMA SameStraps ==
  ASSUME strapped' = strapped, NEW m, NEW p, NEW r
  PROVE  Strap(m, p)' = Strap(m, p) /\ Two(r, p)' = Two(r, p)
  BY DEF Strap, Two

LEMMA OptionFields ==
  ASSUME NEW o \in Options
  PROVE  /\ o.restore \in {"yes", "no"} /\ o.dropRail \in Rails \cup {NoRail}
         /\ o.restore = "yes" => o.dropRail = NoRail
  BY DEF Options

-----------------------------------------------------------------------------
(* The plans.                                                              *)

LEMMA RestorePlan ==
  ASSUME strapped \in {3, 4}, NEW d, Values(d), NEW o \in Options, o.restore = "yes",
         CanRestore(d["FnVCCINT1"], d["FnVCCINT2"])
  PROVE  Plan(o, d["FnVCCINT1"], d["FnVCCINT2"]) = Straps
<1> DEFINE keep == d["FnVCCINT1"]
           drop == d["FnVCCINT2"]
<1>1. strapped \in {3, 4} /\ 0 \in Pages
  BY DEF Pages
<1>2. Value("FnVCCINT1", 0, keep[0]) /\ Value("FnVCCINT2", 0, drop[0])
  BY <1>1 DEF Values, Modules
<1> HIDE DEF keep, drop
<1>3. /\ keep[0].rail = KeepRail /\ keep[0].phases \in {strapped, strapped - 2}
      /\ drop[0].phases \in {strapped, strapped - 2}
  BY <1>1, <1>2, Fields DEF Modules
<1>4. GrownPhases(keep, drop) = strapped
  <2>1. CASE IsStrapped(keep, drop)
    <3>1. drop[0].phases \in {3, 4}
      BY <2>1 DEF IsStrapped
    <3>2. drop[0].phases = strapped
      BY <1>1, <1>3, <3>1
    <3> QED BY <2>1, <3>2 DEF GrownPhases
  <2>2. CASE ~IsStrapped(keep, drop)
    <3>1. keep[0].phases \in {1, 2}
      BY <2>2 DEF CanRestore, IsMoved, keep, drop
    <3>2. keep[0].phases + 2 = strapped
      BY <1>1, <1>3, <3>1
    <3> QED BY <2>2, <3>2 DEF GrownPhases
  <2> QED BY <2>1, <2>2
<1>5. Plan(o, keep, drop) = [m \in Modules |-> FourPhase(m, keep[0].rail, GrownPhases(keep, drop))]
  BY DEF Plan
<1> QED BY <1>3, <1>4, <1>5 DEF Straps, keep, drop

LEMMA ShrunkPlan ==
  ASSUME strapped \in {3, 4}, NEW d, Values(d), CanShrink(d["FnVCCINT1"])
  PROVE  Shrunk(d["FnVCCINT1"]) = TwoPhase(KeepRail, strapped - 2)
<1> DEFINE keep == d["FnVCCINT1"]
<1>1. strapped \in {3, 4} /\ 0 \in Pages
  BY DEF Pages
<1>2. Value("FnVCCINT1", 0, keep[0])
  BY <1>1 DEF Values, Modules
<1> HIDE DEF keep
<1>3. keep[0].rail = KeepRail /\ keep[0].phases \in {strapped, strapped - 2}
  BY <1>1, <1>2, Fields DEF Modules
<1>4. CASE IsTwoPhase(keep)
  <2>1. keep = TwoPhase(keep[0].rail, keep[0].phases) /\ keep[0].phases \in {1, 2}
    BY <1>4 DEF IsTwoPhase
  <2>2. keep[0].phases = strapped - 2
    BY <1>1, <1>3, <2>1
  <2>3. Shrunk(keep) = keep
    BY <1>4 DEF Shrunk
  <2>4. keep = TwoPhase(KeepRail, strapped - 2)
    BY <1>3, <2>1, <2>2
  <2> QED BY <2>3, <2>4 DEF keep
<1>5. CASE ~IsTwoPhase(keep)
  <2>1. keep[0].phases \in {3, 4}
    BY <1>5 DEF CanShrink, keep
  <2>2. keep[0].phases - 2 = strapped - 2
    BY <1>1, <1>3, <2>1
  <2>3. Shrunk(keep) = TwoPhase(keep[0].rail, keep[0].phases - 2)
    BY <1>5 DEF Shrunk
  <2> QED BY <1>3, <2>2, <2>3 DEF keep
<1> QED BY <1>4, <1>5

\* A plan is made of the values that pages take, and is what the options ask for.
LEMMA PlanMade ==
  ASSUME strapped \in {3, 4}, NEW d \in [Modules -> [Pages -> Ddc]], Values(d),
         NEW o \in Options, Accepts(o, d["FnVCCINT1"], d["FnVCCINT2"]),
         NEW new, new = Plan(o, d["FnVCCINT1"], d["FnVCCINT2"])
  PROVE  /\ new \in [Modules -> [Pages -> Ddc]] /\ Values(new) /\ PlanGood(o, new)
         /\ o.restore = "no" /\ o.dropRail = NoRail => new["FnVCCINT2"] = d["FnVCCINT2"]
<1>1. strapped \in {3, 4} /\ KeepRail \in Rails
  BY RailsAssumption
<1>2. CASE o.restore = "yes"
  <2>1. new = Straps
    BY <1>2, RestorePlan DEF Accepts
  <2>2. \A m \in Modules : AllStrap(m, new)
    BY <2>1 DEF Straps, AllStrap, Strap
  <2>3. new \in [Modules -> [Pages -> Ddc]]
    <3>1. \A m \in Modules : \A p \in Pages : FourPhase(m, KeepRail, strapped)[p] \in Ddc
      BY <1>1, Forms DEF Strap
    <3>2. \A m \in Modules : FourPhase(m, KeepRail, strapped) \in [Pages -> Ddc]
      BY <3>1 DEF FourPhase
    <3> QED BY <2>1, <3>2 DEF Straps
  <2>4. Values(new)
    BY <2>2 DEF Values, Value, AllStrap
  <2> QED BY <1>2, <2>2, <2>3, <2>4 DEF PlanGood
<1>3. CASE o.restore # "yes"
  <2>1. CanShrink(d["FnVCCINT1"]) /\ o.dropRail # Shrunk(d["FnVCCINT1"])[0].rail
    BY <1>3 DEF Accepts
  <2>2. Shrunk(d["FnVCCINT1"]) = TwoPhase(KeepRail, strapped - 2)
    BY <2>1, ShrunkPlan
  <2>3. /\ Shrunk(d["FnVCCINT1"])[0].rail = KeepRail
        /\ Shrunk(d["FnVCCINT1"])[0].phases = strapped - 2
    BY <2>2 DEF TwoPhase, Pages
  <2>4. /\ new = [m \in Modules |->
                    IF m = "FnVCCINT1" THEN TwoPhase(KeepRail, strapped - 2)
                    ELSE IF o.dropRail = NoRail THEN d["FnVCCINT2"]
                    ELSE TwoPhase(o.dropRail, strapped - 2)]
    BY <1>3, <2>2, <2>3 DEF Plan
  <2>5. o.dropRail # NoRail => o.dropRail \in OtherRails
    BY <2>1, <2>3, OptionFields DEF OtherRails
  <2>6. new["FnVCCINT1"] = TwoPhase(KeepRail, strapped - 2)
    BY <2>4 DEF Modules
  <2>7. new["FnVCCINT2"] = IF o.dropRail = NoRail THEN d["FnVCCINT2"]
                           ELSE TwoPhase(o.dropRail, strapped - 2)
    BY <2>4 DEF Modules
  <2>8. ASSUME NEW r \in Rails PROVE TwoPhase(r, strapped - 2) \in [Pages -> Ddc]
    <3>1. \A p \in Pages : TwoPhase(r, strapped - 2)[p] \in Ddc
      BY <1>1, Forms DEF Two, Modules
    <3> QED BY <3>1 DEF TwoPhase
  <2>9. new \in [Modules -> [Pages -> Ddc]]
    BY <1>1, <2>4, <2>5, <2>8 DEF OtherRails, Modules
  <2>10. AllTwo("FnVCCINT1", KeepRail, new)
    BY <2>6 DEF AllTwo, Two
  <2>11. o.dropRail # NoRail => AllTwo("FnVCCINT2", o.dropRail, new)
    BY <2>7 DEF AllTwo, Two
  <2>12. Values(new)
    <3>1. \A p \in Pages : Value("FnVCCINT1", p, new["FnVCCINT1"][p])
      BY <2>10 DEF Value, AllTwo
    <3>2. \A p \in Pages : Value("FnVCCINT2", p, new["FnVCCINT2"][p])
      <4>1. CASE o.dropRail = NoRail
        BY <2>7, <4>1 DEF Values, Modules
      <4>2. CASE o.dropRail # NoRail
        BY <2>5, <2>11, <4>2 DEF Value, AllTwo
      <4> QED BY <4>1, <4>2
    <3> QED BY <3>1, <3>2 DEF Values, Modules
  <2> QED BY <1>3, <2>5, <2>7, <2>9, <2>10, <2>11, <2>12 DEF PlanGood
<1> QED BY <1>2, <1>3

-----------------------------------------------------------------------------
(* The writes.                                                             *)

LEMMA WriteForms ==
  ASSUME NEW w \in Registers
  PROVE  /\ \/ \E m \in Modules : \E p \in Pages : w = Write("DDC_CONFIG", m, p)
            \/ \E p \in Pages : w = Write("ON_OFF_CONFIG", "FnVCCINT2", p)
            \/ \E p \in Pages : w = Write("OPERATION", "FnVCCINT2", p)
         /\ Within(w) \in 0..3
<1>1. /\ w.page \in Pages
      /\ \/ w = Write("DDC_CONFIG", w.module, w.page) /\ w.module \in Modules
         \/ w = Write("ON_OFF_CONFIG", "FnVCCINT2", w.page)
         \/ w = Write("OPERATION", "FnVCCINT2", w.page)
  BY DEF Registers, Write
<1>2. w.page \in 0..1
  BY <1>1 DEF Pages
<1>3. Within(w) \in 0..3
  BY <1>2 DEF Within
<1> QED BY <1>1, <1>3

LEMMA Order ==
  ASSUME Types, run = "writing", NEW w \in todo, IsNext(w), NEW p \in Pages
  PROVE  /\ w.reg = "DDC_CONFIG" /\ options.restore = "no" =>
              /\ Write("ON_OFF_CONFIG", "FnVCCINT2", p) \notin todo
              /\ Write("OPERATION", "FnVCCINT2", p) \notin todo
         /\ w.reg # "DDC_CONFIG" /\ options.restore = "yes" =>
              KeepWrite(p) \notin todo /\ DropWrite(p) \notin todo
         /\ w \in {KeepWrite(0), KeepWrite(1)} => DropWrite(p) \notin todo
         /\ w = KeepWrite(1) => KeepWrite(0) \notin todo
<1>1. /\ w \in Registers /\ options.restore \in {"yes", "no"}
      /\ \A v \in todo : v \in Registers /\ Rank(options, w) <= Rank(options, v)
  BY OptionFields DEF Types, IsNext, Place
<1>2. Within(w) \in 0..3 /\ \A v \in todo : Within(v) \in 0..3
  BY <1>1, WriteForms
<1>3. ASSUME NEW v \in todo
      PROVE  /\ ~(w.reg = "DDC_CONFIG" /\ options.restore = "no" /\ v.reg # "DDC_CONFIG")
             /\ ~(w.reg # "DDC_CONFIG" /\ options.restore = "yes" /\ v.reg = "DDC_CONFIG")
             /\ (w.reg = "DDC_CONFIG") = (v.reg = "DDC_CONFIG") => Within(w) <= Within(v)
  <2>1. Rank(options, w) <= Rank(options, v) /\ Within(w) \in 0..3 /\ Within(v) \in 0..3
    BY <1>1, <1>2
  <2> QED BY <1>1, <2>1 DEF Rank
<1>4. /\ KeepWrite(p).reg = "DDC_CONFIG" /\ DropWrite(p).reg = "DDC_CONFIG"
      /\ Write("ON_OFF_CONFIG", "FnVCCINT2", p).reg # "DDC_CONFIG"
      /\ Write("OPERATION", "FnVCCINT2", p).reg # "DDC_CONFIG"
      /\ KeepWrite(0).reg = "DDC_CONFIG" /\ KeepWrite(1).reg = "DDC_CONFIG"
  BY DEF KeepWrite, DropWrite, Write
<1>5. /\ Within(KeepWrite(0)) = 2 /\ Within(KeepWrite(1)) = 3 /\ Within(DropWrite(p)) = p
      /\ p < 2
  BY DEF KeepWrite, DropWrite, Write, Within, Pages
<1>6. w \in {KeepWrite(0), KeepWrite(1)} => DropWrite(p) \notin todo
  BY <1>3, <1>4, <1>5 DEF Pages
<1>7. w = KeepWrite(1) => KeepWrite(0) \notin todo
  BY <1>3, <1>4, <1>5
<1> QED BY <1>3, <1>4, <1>6, <1>7

\* What a write leaves.
LEMMA Effect ==
  ASSUME Types, NEW w \in todo, Done(w)
  PROVE  /\ \A m \in Modules : \A p \in Pages :
              ddc'[m][p] = IF w = Write("DDC_CONFIG", m, p) THEN plan[m][p] ELSE ddc[m][p]
         /\ \A p \in Pages :
              /\ onOff'[p] = IF w = Write("ON_OFF_CONFIG", "FnVCCINT2", p) THEN OnOffNew
                            ELSE onOff[p]
              /\ operation'[p] = IF w = Write("OPERATION", "FnVCCINT2", p) THEN OperationNew
                                ELSE operation[p]
         /\ w.reg # "DDC_CONFIG" => ddc' = ddc
         /\ w.reg = "DDC_CONFIG" => onOff' = onOff /\ operation' = operation
         /\ ddc' \in [Modules -> [Pages -> Ddc]]
         /\ onOff' \in [Pages -> {"EN", "OPERATION"}] /\ operation' \in [Pages -> {"on", "off"}]
<1>1. /\ w \in Registers /\ ddc \in [Modules -> [Pages -> Ddc]]
      /\ plan \in [Modules -> [Pages -> Ddc]]
      /\ onOff \in [Pages -> {"EN", "OPERATION"}] /\ operation \in [Pages -> {"on", "off"}]
  BY DEF Types
<1>2. OnOffNew \in {"EN", "OPERATION"} /\ OperationNew \in {"on", "off"}
  BY DEF OnOffNew, OperationNew
<1>3. ASSUME NEW m \in Modules, NEW p \in Pages, w = Write("DDC_CONFIG", m, p)
      PROVE  /\ \A n \in Modules : \A q \in Pages :
                  ddc'[n][q] = IF w = Write("DDC_CONFIG", n, q) THEN plan[n][q] ELSE ddc[n][q]
             /\ onOff' = onOff /\ operation' = operation
             /\ ddc' \in [Modules -> [Pages -> Ddc]]
             /\ w.reg = "DDC_CONFIG"
  <2>1. w.reg = "DDC_CONFIG" /\ w.module = m /\ w.page = p
    BY <1>3 DEF Write
  <2>2. /\ ddc' = [ddc EXCEPT ![m][p] = plan[m][p]]
        /\ onOff' = onOff /\ operation' = operation
    BY <2>1 DEF Done
  <2>3. \A n \in Modules : \A q \in Pages :
          w = Write("DDC_CONFIG", n, q) <=> n = m /\ q = p
    BY <1>3 DEF Write
  <2>4. \A n \in Modules : \A q \in Pages :
          ddc'[n][q] = IF n = m /\ q = p THEN plan[n][q] ELSE ddc[n][q]
    BY <1>1, <2>2
  <2>5. ddc' \in [Modules -> [Pages -> Ddc]]
    BY <1>1, <2>2
  <2> QED BY <2>1, <2>2, <2>3, <2>4, <2>5
<1>4. ASSUME NEW p \in Pages, NEW reg \in {"ON_OFF_CONFIG", "OPERATION"},
             w = Write(reg, "FnVCCINT2", p)
      PROVE  /\ ddc' = ddc
             /\ \A q \in Pages :
                  /\ onOff'[q] = IF w = Write("ON_OFF_CONFIG", "FnVCCINT2", q) THEN OnOffNew
                                ELSE onOff[q]
                  /\ operation'[q] = IF w = Write("OPERATION", "FnVCCINT2", q)
                                    THEN OperationNew ELSE operation[q]
             /\ onOff' \in [Pages -> {"EN", "OPERATION"}]
             /\ operation' \in [Pages -> {"on", "off"}]
             /\ w.reg # "DDC_CONFIG"
  <2>1. w.reg = reg /\ w.page = p
    BY <1>4 DEF Write
  <2>2. /\ ddc' = ddc
        /\ onOff' = IF reg = "ON_OFF_CONFIG" THEN [onOff EXCEPT ![p] = OnOffNew] ELSE onOff
        /\ operation' = IF reg = "OPERATION" THEN [operation EXCEPT ![p] = OperationNew]
                        ELSE operation
    BY <2>1 DEF Done
  <2>3. \A q \in Pages :
          /\ w = Write("ON_OFF_CONFIG", "FnVCCINT2", q) <=> reg = "ON_OFF_CONFIG" /\ q = p
          /\ w = Write("OPERATION", "FnVCCINT2", q) <=> reg = "OPERATION" /\ q = p
    BY <1>4 DEF Write
  <2> QED BY <1>1, <1>2, <2>1, <2>2, <2>3
<1>5. \A m \in Modules : \A p \in Pages : w.reg # "DDC_CONFIG" => w # Write("DDC_CONFIG", m, p)
  BY DEF Write
<1>6. \A p \in Pages : w.reg = "DDC_CONFIG" => /\ w # Write("ON_OFF_CONFIG", "FnVCCINT2", p)
                                               /\ w # Write("OPERATION", "FnVCCINT2", p)
  BY DEF Write
<1>7. CASE \E m \in Modules : \E p \in Pages : w = Write("DDC_CONFIG", m, p)
  BY <1>1, <1>3, <1>6, <1>7
<1>8. CASE \E p \in Pages : \E reg \in {"ON_OFF_CONFIG", "OPERATION"} :
             w = Write(reg, "FnVCCINT2", p)
  <2>1. w.reg # "DDC_CONFIG"
    BY <1>4, <1>8
  <2> QED BY <1>1, <1>4, <1>5, <1>8, <2>1
<1> QED BY <1>1, <1>7, <1>8, WriteForms


\* FnVCCINT1's pages while it is changed, after one interruption at most.
LEMMA HalfwayLeft ==
  ASSUME Types, PlanGood(options, plan), NEW t, NEW d, DdcBut(t, d), Changing(t, d)
  PROVE  Halfway(d)
<1>1. /\ strapped \in {3, 4} /\ KeepRail \in Rails /\ options.restore \in {"yes", "no"}
      /\ 0 \in Pages /\ 1 \in Pages /\ "FnVCCINT1" \in Modules /\ "FnVCCINT2" \in Modules
      /\ \A p \in Pages : p = 0 \/ p = 1
  BY RailsAssumption, OptionFields DEF Types, Pages, Modules
<1>2. ASSUME NEW p \in Pages PROVE Strap("FnVCCINT1", p) # Two(KeepRail, p)
  <2>1. Strap("FnVCCINT1", p).phases = strapped /\ Two(KeepRail, p).phases = strapped - 2
    BY <1>1, Forms
  <2> QED BY <1>1, <2>1
<1>3. KeepAlike(plan)
  BY <1>1 DEF PlanGood, KeepAlike
<1>4. CASE KeepWrite(0) \in t
  <2>1. KeepAlike(d)
    BY <1>4 DEF Changing
  <2> QED BY <1>1, <1>2, <2>1 DEF Halfway, KeepAlike, AllStrap, AllTwo
<1>5. CASE KeepWrite(0) \notin t /\ KeepWrite(1) \in t
  <2>1. /\ d["FnVCCINT1"][0] = plan["FnVCCINT1"][0] /\ DropAlike(plan)
        /\ \A p \in Pages : d["FnVCCINT2"][p] = plan["FnVCCINT2"][p]
    BY <1>1, <1>5 DEF Changing, DdcBut, KeepWrite, DropWrite
  <2>2. DropAlike(d)
    BY <2>1 DEF DropAlike, AllStrap, AllTwo
  <2>3. ASSUME d["FnVCCINT1"][0] = Strap("FnVCCINT1", 0) PROVE AllStrap("FnVCCINT2", d)
    <3>1. options.restore = "yes"
      BY <1>1, <1>2, <2>1, <2>3 DEF PlanGood, AllTwo
    <3> QED BY <1>1, <2>1, <3>1 DEF PlanGood, AllStrap
  <2> QED BY <2>2, <2>3 DEF Halfway
<1>6. CASE KeepWrite(0) \notin t /\ KeepWrite(1) \notin t
  <2>1. \A p \in Pages : d["FnVCCINT1"][p] = plan["FnVCCINT1"][p]
    BY <1>1, <1>6 DEF DdcBut, KeepWrite
  <2>2. KeepAlike(d)
    BY <1>3, <2>1 DEF KeepAlike, AllStrap, AllTwo
  <2> QED BY <1>1, <1>2, <2>2 DEF Halfway, KeepAlike, AllStrap, AllTwo
<1> QED BY <1>4, <1>5, <1>6

\* While the plan and the options stay, a write keeps what is written as planned, the
\* values, FnVCCINT2 off for as long as FnVCCINT1 counts on two phases, and the order.
LEMMA WriteDone ==
  ASSUME Types, Planned, ShrunkMeansDropped, run = "writing", vin = "quiet",
         strapped' = strapped, plan' = plan, options' = options, vin' = vin,
         WrittenBut(todo), NEW w \in todo, IsNext(w), Done(w), NEW t, t = todo \ {w}
  PROVE  WrittenBut(t)' /\ ShrunkMeansDropped' /\ (Changing(todo, ddc) => Changing(t, ddc'))
<1>1. /\ 0 \in Pages /\ 1 \in Pages /\ "FnVCCINT1" \in Modules /\ "FnVCCINT2" \in Modules
      /\ \A p \in Pages : p = 0 \/ p = 1
      /\ strapped \in {3, 4} /\ options.restore \in {"yes", "no"} /\ PlanGood(options, plan)
      /\ w \in Registers
  BY OptionFields DEF Types, Planned, Pages, Modules
<1>2. /\ OnOffNew' = OnOffNew /\ OperationNew' = OperationNew
  BY DEF OnOffNew, OperationNew
<1>3. WrittenBut(t)'
  <2>1. DdcBut(t, ddc)'
    BY Effect DEF WrittenBut, DdcBut
  <2>2. \A p \in Pages :
          /\ Write("ON_OFF_CONFIG", "FnVCCINT2", p) \notin t => onOff'[p] = OnOffNew
          /\ Write("OPERATION", "FnVCCINT2", p) \notin t => operation'[p] = OperationNew
    BY Effect DEF WrittenBut
  <2> QED BY <1>2, <2>1, <2>2 DEF WrittenBut
<1>4. ShrunkMeansDropped'
  <2> SUFFICES ASSUME NEW p \in Pages, ddc'["FnVCCINT1"][p].phases < 3, NEW q \in Pages
               PROVE  onOff'[q] = "OPERATION" /\ operation'[q] = "off"
    BY DEF ShrunkMeansDropped
  <2>1. CASE w.reg = "DDC_CONFIG" /\ options.restore = "no"
    <3>1. onOff[q] = OnOffNew /\ operation[q] = OperationNew
      BY <2>1, Order DEF WrittenBut
    <3> QED BY <2>1, <3>1, Effect DEF OnOffNew, OperationNew
  <2>2. CASE w.reg = "DDC_CONFIG" /\ options.restore = "yes"
    <3>1. Strap("FnVCCINT1", p).phases = strapped
      BY <1>1, RailsAssumption, Forms
    <3>2. ~(plan["FnVCCINT1"][p].phases < 3)
      <4>1. plan["FnVCCINT1"][p].phases = strapped
        BY <1>1, <2>2, <3>1 DEF PlanGood, AllStrap
      <4> QED BY <1>1, <4>1
    <3>3. ddc'["FnVCCINT1"][p] \in {plan["FnVCCINT1"][p], ddc["FnVCCINT1"][p]}
      BY <1>1, Effect
    <3>4. ddc["FnVCCINT1"][p].phases < 3
      BY <3>2, <3>3
    <3> QED BY <2>2, <3>4, Effect DEF ShrunkMeansDropped
  <2>3. CASE w.reg # "DDC_CONFIG" /\ options.restore = "no"
    <3>1. onOff[q] = "OPERATION" /\ operation[q] = "off"
      BY <2>3, Effect DEF ShrunkMeansDropped
    <3> QED BY <2>3, <3>1, Effect DEF OnOffNew, OperationNew
  <2>4. CASE w.reg # "DDC_CONFIG" /\ options.restore = "yes"
    <3>1. ddc["FnVCCINT1"][p] = plan["FnVCCINT1"][p]
      BY <1>1, <2>4, Order DEF WrittenBut, DdcBut, KeepWrite
    <3>2. Strap("FnVCCINT1", p).phases = strapped
      BY <1>1, RailsAssumption, Forms
    <3>3. ddc'["FnVCCINT1"][p].phases = strapped
      BY <1>1, <2>4, <3>1, <3>2, Effect DEF PlanGood, AllStrap
    <3> QED BY <1>1, <3>3
  <2> QED BY <1>1, <2>1, <2>2, <2>3, <2>4
<1>5. ASSUME Changing(todo, ddc) PROVE Changing(t, ddc')
  <2>1. ASSUME KeepWrite(0) \in t PROVE KeepAlike(ddc') /\ KeepWrite(1) \in t
    <3>1. KeepWrite(0) \in todo /\ w # KeepWrite(0) /\ KeepWrite(1) \in todo /\ KeepAlike(ddc)
      BY <1>5, <2>1 DEF Changing
    <3>2. w # KeepWrite(1)
      BY <1>1, <3>1, Order
    <3>3. \A p \in Pages : ddc'["FnVCCINT1"][p] = ddc["FnVCCINT1"][p]
      BY <1>1, <3>1, <3>2, Effect DEF KeepWrite
    <3> QED BY <3>1, <3>2, <3>3 DEF KeepAlike, AllStrap, AllTwo
  <2>2. KeepWrite(0) \in t \/ KeepWrite(1) \in t => DropAlike(plan)
    BY <1>5 DEF Changing
  <2>3. ASSUME KeepWrite(0) \notin t, KeepWrite(1) \in t, NEW p \in Pages
        PROVE  DropWrite(p) \notin t
    <3>1. CASE KeepWrite(0) \in todo
      BY <2>3, <3>1, Order
    <3>2. CASE KeepWrite(0) \notin todo
      BY <1>5, <2>3, <3>2 DEF Changing
    <3> QED BY <3>1, <3>2
  <2> QED BY <2>1, <2>2, <2>3 DEF Changing
<1> QED BY <1>3, <1>4, <1>5

\* Whatever it writes, a page has one of its values.
LEMMA WriteValues ==
  ASSUME Types, NEW w \in todo, Done(w) PROVE Values(ddc')
<1>1. Values(ddc) /\ Values(plan)
  BY DEF Types
<1> QED BY <1>1, Effect DEF Values

LEMMA PrimedValues ==
  ASSUME strapped' = strapped
  PROVE  /\ \A d : Values(d)' <=> Values(d)
         /\ \A d : Whole(d)' <=> Whole(d)
         /\ \A d : Halfway(d)' <=> Halfway(d)
         /\ \A d : KeepAlike(d)' <=> KeepAlike(d)
         /\ \A d : DropAlike(d)' <=> DropAlike(d)
         /\ \A d, o : PlanGood(o, d)' <=> PlanGood(o, d)
<1>1. \A m, p, r : Strap(m, p)' = Strap(m, p) /\ Two(r, p)' = Two(r, p)
  BY SameStraps
<1> QED BY <1>1 DEF Values, Value, Whole, Halfway, KeepAlike, DropAlike, PlanGood, AllStrap, AllTwo

\* When nothing is left to write the modules are as planned.
LEMMA AllWritten ==
  ASSUME Types, PlanGood(options, plan), NEW d \in [Modules -> [Pages -> Ddc]], DdcBut({}, d)
  PROVE  d = plan /\ Whole(d) /\ Halfway(d)
<1>1. plan \in [Modules -> [Pages -> Ddc]] /\ options.restore \in {"yes", "no"}
  BY OptionFields DEF Types
<1>2. \A m \in Modules : \A p \in Pages : d[m][p] = plan[m][p]
  BY DEF DdcBut
<1>3. \A m \in Modules : d[m] = plan[m]
  BY <1>1, <1>2
<1>4. d = plan
  BY <1>1, <1>3
<1>5. Whole(d)
  BY <1>1, <1>4 DEF PlanGood, Whole, KeepAlike, DropAlike, Modules
<1>6. Changing({}, d)
  BY DEF Changing
<1> QED BY <1>4, <1>5, <1>6, HalfwayLeft

\* The writes are of registers.
LEMMA AreRegisters ==
  /\ \A m \in Modules : \A p \in Pages :
       Write("DDC_CONFIG", m, p) \in Registers /\ Write("DDC_CONFIG", m, p) \in DdcRegisters
  /\ \A p \in Pages : /\ Write("ON_OFF_CONFIG", "FnVCCINT2", p) \in Registers
                      /\ Write("OPERATION", "FnVCCINT2", p) \in Registers
  /\ LastRead \in Registers
BY DEF Write, Registers, DdcRegisters, LastRead, Pages

-----------------------------------------------------------------------------
(* Init, and the steps.                                                    *)

\* What the straps give.
LEMMA StrapsAre ==
  ASSUME strapped \in {3, 4}
  PROVE  /\ Straps \in [Modules -> [Pages -> Ddc]] /\ Values(Straps) /\ Whole(Straps)
         /\ \A p \in Pages : ~(Straps["FnVCCINT1"][p].phases < 3)
<1>1. ASSUME NEW m \in Modules, NEW p \in Pages
      PROVE  /\ FourPhase(m, KeepRail, strapped)[p] \in Ddc
             /\ FourPhase(m, KeepRail, strapped)[p].phases = strapped
  <2>1. Strap(m, p) \in Ddc /\ Strap(m, p).phases = strapped
    BY RailsAssumption, Forms
  <2> QED BY <2>1 DEF Strap
<1>2. \A m \in Modules : FourPhase(m, KeepRail, strapped) \in [Pages -> Ddc]
  BY <1>1 DEF FourPhase
<1>3. Straps \in [Modules -> [Pages -> Ddc]]
  BY <1>2 DEF Straps
<1>4. \A m \in Modules : AllStrap(m, Straps)
  BY DEF Straps, AllStrap, Strap
<1>5. \A p \in Pages : Straps["FnVCCINT1"][p].phases = strapped
  BY <1>1 DEF Straps, Modules
<1> QED BY <1>3, <1>4, <1>5 DEF Values, Value, AllStrap, Whole, KeepAlike, DropAlike, Modules

LEMMA IInvInit == Init => IInv
<1> SUFFICES ASSUME Init PROVE IInv
  OBVIOUS
<1>1. /\ strapped \in {3, 4} /\ ddc = Straps /\ plan = Straps /\ run = "idle" /\ todo = {}
      /\ outcome = "none" /\ vin = "quiet" /\ halted = 0
  BY DEF Init
<1>2. options \in Options
  BY DEF Init, Options
<1>3. Types
  BY <1>1, <1>2, StrapsAre DEF Init, Types, Pages
<1>4. ShrunkMeansDropped /\ Interruptions
  BY <1>1, StrapsAre DEF ShrunkMeansDropped, Interruptions
<1> QED BY <1>1, <1>3, <1>4 DEF IInv, Planned, Written

LEMMA StartStep ==
  ASSUME IInv, NEW o \in Options, Start(o) PROVE IInv'
<1>1. /\ run = "idle" /\ run' = "planning" /\ todo' = DdcRegisters /\ outcome' = "none"
      /\ strapped' = strapped /\ ddc' = ddc /\ plan' = plan /\ onOff' = onOff
      /\ operation' = operation /\ vin' = vin /\ halted' = halted /\ power' = power
      /\ options' = o /\ fsm' = power
  BY DEF Start, board
<1>2. DdcRegisters \subseteq Registers
  BY DEF DdcRegisters
<1>3. Types'
  BY <1>1, <1>2, PrimedValues DEF IInv, Types
<1>4. DdcBut(todo, ddc)'
  BY <1>1, AreRegisters DEF DdcBut
<1>5. Interruptions'
  BY <1>1, PrimedValues DEF IInv, Interruptions
<1>6. ShrunkMeansDropped'
  BY <1>1 DEF IInv, ShrunkMeansDropped
<1> QED BY <1>1, <1>3, <1>4, <1>5, <1>6 DEF IInv, Planned, Written

LEMMA ReadStep ==
  ASSUME IInv, ReadNext PROVE IInv'
<1>1. PICK r \in todo : /\ plan' = [plan EXCEPT ![r.module][r.page] = ddc[r.module][r.page]]
                        /\ todo' = todo \ {r}
  BY DEF ReadNext
<1>2. /\ run = "planning" /\ run' = "planning" /\ outcome' = outcome
      /\ strapped' = strapped /\ ddc' = ddc /\ onOff' = onOff
      /\ operation' = operation /\ vin' = vin /\ halted' = halted /\ power' = power
      /\ options' = options /\ fsm' = fsm
  BY DEF ReadNext, board
<1>3. /\ r.module \in Modules /\ r.page \in Pages /\ Types
      /\ ddc \in [Modules -> [Pages -> Ddc]] /\ plan \in [Modules -> [Pages -> Ddc]]
      /\ Values(ddc) /\ Values(plan)
  BY DEF IInv, Types, Registers, Modules
<1> PICK new : new = plan'
  OBVIOUS
<1>4. \A m \in Modules : \A p \in Pages :
        new[m][p] = IF m = r.module /\ p = r.page THEN ddc[m][p] ELSE plan[m][p]
  BY <1>1, <1>3
<1>5. new \in [Modules -> [Pages -> Ddc]]
  BY <1>1, <1>3
<1>6. Values(new)
  BY <1>3, <1>4 DEF Values
<1>7. Types'
  BY <1>1, <1>2, <1>3, <1>5, <1>6, PrimedValues DEF Types
<1>8. ASSUME vin = "quiet" PROVE DdcBut(todo, ddc)'
  <2>1. DdcBut(todo, ddc)
    BY <1>2, <1>8 DEF IInv, Written
  <2>2. ASSUME NEW m \in Modules, NEW p \in Pages, Write("DDC_CONFIG", m, p) \notin todo \ {r}
        PROVE  ddc[m][p] = new[m][p]
    <3>1. CASE m = r.module /\ p = r.page
      BY <1>4, <3>1
    <3>2. CASE ~(m = r.module /\ p = r.page)
      <4>1. Write("DDC_CONFIG", m, p) # r
        BY <3>2 DEF Write
      <4> QED BY <1>4, <2>1, <2>2, <3>2, <4>1 DEF DdcBut
    <3> QED BY <3>1, <3>2
  <2> QED BY <1>1, <1>2, <2>2 DEF DdcBut
<1>9. Interruptions'
  BY <1>2, PrimedValues DEF IInv, Interruptions
<1>10. ShrunkMeansDropped'
  BY <1>2 DEF IInv, ShrunkMeansDropped
<1>11. outcome # "ok"
  BY <1>2 DEF IInv, Planned
<1> QED BY <1>2, <1>7, <1>8, <1>9, <1>10, <1>11 DEF IInv, Planned, Written

LEMMA RefuseStep ==
  ASSUME IInv, Refuse PROVE IInv'
<1>1. /\ run = "planning" /\ run' = "idle" /\ todo' = {} /\ outcome' = "refused"
      /\ strapped' = strapped /\ ddc' = ddc /\ plan' = plan /\ onOff' = onOff
      /\ operation' = operation /\ vin' = vin /\ halted' = halted /\ power' = power
      /\ options' = options /\ fsm' = fsm
  BY DEF Refuse, board
<1>2. Types'
  BY <1>1, PrimedValues DEF IInv, Types
<1>3. Interruptions'
  BY <1>1, PrimedValues DEF IInv, Interruptions
<1> QED BY <1>1, <1>2, <1>3 DEF IInv, Planned, Written, ShrunkMeansDropped

\* What remains to be changed, when nothing was interrupted before.
LEMMA PlanChanges ==
  ASSUME Types, NEW o \in Options, NEW new, PlanGood(o, new), Whole(ddc), plan = ddc,
         o.restore = "no" /\ o.dropRail = NoRail => new["FnVCCINT2"] = ddc["FnVCCINT2"],
         NEW t, t = DropWrites \cup DdcWrites(new)
  PROVE  /\ KeepWrite(0) \in t => KeepAlike(ddc) /\ KeepWrite(1) \in t
         /\ KeepWrite(0) \in t \/ KeepWrite(1) \in t => DropAlike(new)
         /\ KeepWrite(1) \in t => KeepWrite(0) \in t
<1>1. /\ strapped \in {3, 4} /\ KeepRail \in Rails /\ o.restore \in {"yes", "no"}
      /\ 0 \in Pages /\ 1 \in Pages /\ "FnVCCINT1" \in Modules /\ "FnVCCINT2" \in Modules
      /\ \A p \in Pages : p = 0 \/ p = 1
  BY RailsAssumption, OptionFields DEF Types, Pages, Modules
<1>2. ASSUME NEW p \in Pages PROVE Strap("FnVCCINT1", p) # Two(KeepRail, p)
  <2>1. Strap("FnVCCINT1", p).phases = strapped /\ Two(KeepRail, p).phases = strapped - 2
    BY <1>1, Forms
  <2> QED BY <1>1, <2>1
<1>3. ASSUME NEW p \in Pages
      PROVE  KeepWrite(p) \in t <=> new["FnVCCINT1"][p] # ddc["FnVCCINT1"][p]
  BY <1>1 DEF KeepWrite, Write, DropWrites, DdcWrites, DdcRegisters, Registers
<1>4. KeepAlike(ddc) /\ KeepAlike(new)
  BY <1>1 DEF Whole, PlanGood, KeepAlike
<1>5. KeepWrite(0) \in t <=> KeepWrite(1) \in t
  BY <1>1, <1>2, <1>3, <1>4 DEF KeepAlike, AllStrap, AllTwo
<1>6. ASSUME KeepWrite(0) \in t PROVE DropAlike(new)
  <2>1. CASE o.restore = "yes"
    BY <1>1, <2>1 DEF PlanGood, DropAlike
  <2>2. CASE o.restore = "no" /\ o.dropRail # NoRail
    BY <1>1, <2>2 DEF PlanGood, DropAlike
  <2>3. CASE o.restore = "no" /\ o.dropRail = NoRail
    <3>1. ~AllTwo("FnVCCINT1", KeepRail, ddc)
      BY <1>1, <1>3, <1>6, <2>3 DEF PlanGood, AllTwo
    <3>2. DropAlike(ddc)
      BY <3>1 DEF Whole
    <3> QED BY <2>3, <3>2 DEF DropAlike, AllStrap, AllTwo
  <2> QED BY <1>1, <2>1, <2>2, <2>3
<1> QED BY <1>4, <1>5, <1>6

LEMMA MakePlanStep ==
  ASSUME IInv, MakePlan PROVE IInv'
<1>1. /\ run = "planning" /\ todo = {} /\ run' = "writing" /\ strapped' = strapped
      /\ Accepts(options, plan["FnVCCINT1"], plan["FnVCCINT2"])
      /\ plan' = Plan(options, plan["FnVCCINT1"], plan["FnVCCINT2"])
      /\ todo' = DropWrites \cup DdcWrites(plan')
      /\ outcome' = outcome /\ power' = power /\ options' = options /\ fsm' = fsm
      /\ vin' = vin /\ halted' = halted
      /\ ddc' = ddc /\ onOff' = onOff /\ operation' = operation
  BY DEF MakePlan, Accepted, board
<1> PICK new : new = plan'
  OBVIOUS
<1> PICK t : t = todo'
  OBVIOUS
<1>2. /\ Types /\ options \in Options /\ strapped \in {3, 4}
      /\ plan \in [Modules -> [Pages -> Ddc]] /\ Values(plan)
      /\ ddc \in [Modules -> [Pages -> Ddc]]
  BY DEF IInv, Types
<1>3. /\ new \in [Modules -> [Pages -> Ddc]] /\ Values(new) /\ PlanGood(options, new)
      /\ options.restore = "no" /\ options.dropRail = NoRail =>
           new["FnVCCINT2"] = plan["FnVCCINT2"]
  BY <1>1, <1>2, PlanMade
<1>4. t = DropWrites \cup DdcWrites(new)
  BY <1>1
<1>5. Types'
  <2>1. t \subseteq Registers
    BY <1>4 DEF DropWrites, DdcWrites, DdcRegisters
  <2> QED BY <1>1, <1>2, <1>3, <2>1, PrimedValues DEF Types
<1>6. Planned'
  BY <1>1, <1>3, PrimedValues DEF IInv, Planned
<1>7. ASSUME vin = "quiet" PROVE plan = ddc
  <2>1. DdcBut({}, ddc)
    BY <1>1, <1>7 DEF IInv, Written
  <2>2. \A m \in Modules : \A p \in Pages : ddc[m][p] = plan[m][p]
    BY <2>1 DEF DdcBut
  <2>3. \A m \in Modules : ddc[m] = plan[m]
    BY <1>2, <2>2
  <2> QED BY <1>2, <2>3
<1>8. Written'
  <2> SUFFICES ASSUME vin = "quiet" PROVE WrittenBut(t)'
    BY <1>1 DEF Written, WrittenBut, DdcBut
  <2>1. \A m \in Modules : \A p \in Pages :
          Write("DDC_CONFIG", m, p) \notin t => ddc[m][p] = new[m][p]
    BY <1>4, <1>7 DEF Write, DdcWrites, DdcRegisters, Registers
  <2>2. \A p \in Pages : /\ Write("ON_OFF_CONFIG", "FnVCCINT2", p) \in t
                         /\ Write("OPERATION", "FnVCCINT2", p) \in t
    BY <1>4 DEF Write, DropWrites, DdcRegisters, Registers
  <2> QED BY <1>1, <2>1, <2>2 DEF WrittenBut, DdcBut
<1>9. Interruptions'
  <2> SUFFICES ASSUME vin = "quiet", halted = 0 PROVE Changing(t, ddc)'
    BY <1>1 DEF Interruptions
  <2>1. Whole(ddc)
    BY <1>1 DEF IInv, Interruptions
  <2>2. /\ KeepWrite(0) \in t => KeepAlike(ddc) /\ KeepWrite(1) \in t
        /\ KeepWrite(0) \in t \/ KeepWrite(1) \in t => DropAlike(new)
        /\ KeepWrite(1) \in t => KeepWrite(0) \in t
    BY <1>2, <1>3, <1>4, <1>7, <2>1, PlanChanges
  <2> QED BY <1>1, <2>2, PrimedValues DEF Changing
<1>10. ShrunkMeansDropped'
  BY <1>1 DEF IInv, ShrunkMeansDropped
<1> QED BY <1>5, <1>6, <1>8, <1>9, <1>10 DEF IInv

LEMMA WriteStep ==
  ASSUME IInv, WriteNext PROVE IInv'
<1>1. PICK w \in todo : /\ IsNext(w) /\ Done(w)
                        /\ IF todo = {w} THEN run' = "verifying" /\ todo' = Registers
                           ELSE todo' = todo \ {w} /\ run' = run
  BY DEF WriteNext
<1>2. /\ run = "writing" /\ strapped' = strapped /\ plan' = plan
      /\ options' = options /\ vin' = vin /\ halted' = halted /\ outcome' = outcome
      /\ power' = power /\ fsm' = fsm
  BY DEF WriteNext
<1> PICK t : t = todo \ {w}
  OBVIOUS
<1> PICK d : d = ddc'
  OBVIOUS
<1>3. Types /\ Planned /\ ShrunkMeansDropped /\ PlanGood(options, plan) /\ halted \in 0..2
  BY <1>2 DEF IInv, Planned, Types
<1>4. Types'
  BY <1>1, <1>2, <1>3, Effect, WriteValues, PrimedValues DEF Types
<1>5. Planned'
  BY <1>1, <1>2, PrimedValues DEF IInv, Planned
<1>6. ASSUME vin = "quiet"
      PROVE  WrittenBut(t)' /\ ShrunkMeansDropped' /\ (Changing(todo, ddc) => Changing(t, d))
  BY <1>1, <1>2, <1>3, <1>6, WriteDone DEF IInv, Written
<1>7. ShrunkMeansDropped'
  BY <1>2, <1>6 DEF ShrunkMeansDropped
<1>8. CASE todo = {w}
  <2>1. run' = "verifying" /\ todo' = Registers /\ t = {}
    BY <1>1, <1>8
  <2>2. WrittenBut(Registers)'
    BY AreRegisters DEF WrittenBut, DdcBut
  <2>3. vin = "quiet" => WrittenBut({})'
    BY <1>6, <2>1
  <2>4. Written'
    BY <1>2, <2>1, <2>2, <2>3, AreRegisters DEF Written, WrittenBut, DdcBut, LastRead
  <2>5. ASSUME vin = "quiet" PROVE Whole(d) /\ Halfway(d)
    <3>1. DdcBut({}, d)
      BY <1>2, <2>3, <2>5 DEF WrittenBut, DdcBut
    <3>2. d \in [Modules -> [Pages -> Ddc]]
      BY <1>1, <1>3, Effect
    <3> QED BY <1>3, <3>1, <3>2, AllWritten
  <2>6. Interruptions'
    BY <1>2, <2>1, <2>5, PrimedValues DEF Interruptions
  <2> QED BY <1>4, <1>5, <1>7, <2>4, <2>6 DEF IInv
<1>9. CASE todo # {w}
  <2>1. run' = "writing" /\ todo' = t
    BY <1>1, <1>2, <1>9
  <2>2. Written'
    BY <1>2, <1>6, <2>1 DEF Written, WrittenBut, DdcBut
  <2>3. Interruptions'
    <3> SUFFICES ASSUME vin = "quiet", halted = 0 PROVE Changing(t, d)'
      BY <1>2, <2>1 DEF Interruptions
    <3>1. Changing(t, d)
      BY <1>2, <1>6 DEF IInv, Interruptions
    <3> QED BY <1>2, <3>1, PrimedValues DEF Changing
  <2> QED BY <1>4, <1>5, <1>7, <2>2, <2>3 DEF IInv
<1> QED BY <1>8, <1>9

LEMMA InterruptedStep ==
  ASSUME IInv, NEW done \in BOOLEAN, Interrupted(done) PROVE IInv'
<1>1. /\ run # "idle" /\ run' = "idle" /\ todo' = {} /\ outcome' = "failed"
      /\ halted' = IF run = "writing" /\ halted < 2 THEN halted + 1 ELSE halted
      /\ strapped' = strapped /\ plan' = plan /\ options' = options /\ vin' = vin
      /\ power' = power /\ fsm' = fsm
  BY DEF Interrupted
<1>2. /\ Types /\ Planned /\ ShrunkMeansDropped /\ halted \in 0..2
      /\ run = "writing" => PlanGood(options, plan)
  BY DEF IInv, Types, Planned
<1> PICK d : d = ddc'
  OBVIOUS
<1>3. halted' \in 0..2 /\ (halted' = 0 => halted = 0 /\ run # "writing")
      /\ (halted' = 1 => IF run = "writing" THEN halted = 0 ELSE halted = 1)
  BY <1>1, <1>2
<1>4. CASE ~(done /\ run = "writing")
  <2>1. ddc' = ddc /\ onOff' = onOff /\ operation' = operation
    BY <1>4 DEF Interrupted, board
  <2>2. Types'
    BY <1>1, <1>2, <1>3, <2>1, PrimedValues DEF Types
  <2>3. ASSUME vin = "quiet", run = "writing", halted = 0 PROVE Halfway(ddc)
    <3>1. DdcBut(todo, ddc) /\ Changing(todo, ddc)
      BY <2>3 DEF IInv, Written, WrittenBut, Interruptions
    <3> QED BY <1>2, <2>3, <3>1, HalfwayLeft
  <2>4. Interruptions'
    BY <1>1, <1>3, <2>1, <2>3, PrimedValues DEF IInv, Interruptions
  <2>5. ShrunkMeansDropped'
    BY <1>1, <2>1 DEF IInv, ShrunkMeansDropped
  <2> QED BY <1>1, <2>2, <2>4, <2>5 DEF IInv, Planned, Written
<1>5. CASE done /\ run = "writing"
  <2>1. PICK w \in todo : IsNext(w) /\ Done(w)
    BY <1>5 DEF Interrupted
  <2>2. run = "writing"
    BY <1>5
  <2> PICK t : t = todo \ {w}
    OBVIOUS
  <2>3. Types'
    BY <1>1, <1>2, <1>3, <2>1, Effect, WriteValues, PrimedValues DEF Types
  <2>4. ASSUME vin = "quiet"
        PROVE  WrittenBut(t)' /\ ShrunkMeansDropped' /\ (Changing(todo, ddc) => Changing(t, d))
    BY <1>1, <1>2, <2>1, <2>2, <2>4, WriteDone DEF IInv, Written
  <2>5. ShrunkMeansDropped'
    BY <1>1, <2>4 DEF ShrunkMeansDropped
  <2>6. ASSUME vin = "quiet", halted = 0 PROVE Halfway(d)
    <3>1. Changing(t, d)
      BY <2>2, <2>4, <2>6 DEF IInv, Interruptions
    <3>2. DdcBut(t, d)
      BY <1>1, <2>4, <2>6 DEF WrittenBut, DdcBut
    <3> QED BY <1>2, <2>2, <3>1, <3>2, HalfwayLeft
  <2>7. Interruptions'
    BY <1>1, <1>3, <2>2, <2>6, PrimedValues DEF Interruptions
  <2> QED BY <1>1, <2>3, <2>5, <2>7 DEF IInv, Planned, Written
<1> QED BY <1>4, <1>5

\* The registers are read back in their order, the last one last.
LEMMA BackOrder ==
  ASSUME Types, run = "verifying", NEW r \in todo, IsNext(r), LastRead \in todo
  PROVE  r = LastRead => todo = {r}
<1> SUFFICES ASSUME r = LastRead, NEW v \in todo PROVE v = r
  OBVIOUS
<1>1. v \in Registers /\ Place(r) <= Place(v)
  BY DEF Types, IsNext
<1>2. /\ PlaceBack(LastRead) = 7
  BY DEF PlaceBack, LastRead, Write
<1>3. PlaceBack(r) <= PlaceBack(v)
  BY <1>1 DEF Place
<1>4. ASSUME v # LastRead PROVE PlaceBack(v) < 7
  <2>1. v.page = 0 \/ v.page = 1
    BY <1>1 DEF Registers, Pages
  <2>2. CASE v.page = 0
    BY <2>2 DEF PlaceBack
  <2>3. CASE v.page = 1
    <3>1. v.reg # "OPERATION"
      BY <1>1, <1>4, <2>3 DEF Registers, LastRead, Write
    <3> QED BY <2>3, <3>1 DEF PlaceBack
  <2> QED BY <2>1, <2>2, <2>3
<1>5. PlaceBack(v) \in Int
  <2>1. v.page = 0 \/ v.page = 1
    BY <1>1 DEF Registers, Pages
  <2> QED BY <2>1 DEF PlaceBack
<1> QED BY <1>2, <1>3, <1>4, <1>5

\* A register that is as planned is one less to be read.
LEMMA MatchesOne ==
  ASSUME Types, NEW r \in todo, Matches(r), WrittenBut(todo)
  PROVE  WrittenBut(todo \ {r})
<1>1. r \in Registers
  BY DEF Types
<1>2. ASSUME NEW m \in Modules, NEW p \in Pages, r = Write("DDC_CONFIG", m, p)
      PROVE  ddc[m][p] = plan[m][p]
  BY <1>2 DEF Matches, Write
<1>3. ASSUME NEW p \in Pages, r = Write("ON_OFF_CONFIG", "FnVCCINT2", p)
      PROVE  onOff[p] = OnOffNew
  BY <1>3 DEF Matches, Write
<1>4. ASSUME NEW p \in Pages, r = Write("OPERATION", "FnVCCINT2", p)
      PROVE  operation[p] = OperationNew
  BY <1>4 DEF Matches, Write
<1> QED BY <1>2, <1>3, <1>4 DEF WrittenBut, DdcBut

\* What a VIN cycle left passes for a restored board, and for none in two phases.
LEMMA StrappedEnds ==
  ASSUME Types, PlanGood(options, plan), Strapped, Matches(LastRead)
  PROVE  ddc = plan /\ RegistersNew
<1>1. operation[1] = "on" /\ 1 \in Pages
  BY DEF Strapped, Pages
<1>2. operation[1] = OperationNew
  BY DEF Matches, LastRead, Write
<1>3. options.restore = "yes"
  BY <1>1, <1>2 DEF OperationNew
<1>4. RegistersNew
  BY <1>3 DEF RegistersNew, Strapped, OnOffNew, OperationNew
<1>5. /\ plan \in [Modules -> [Pages -> Ddc]] /\ Straps \in [Modules -> [Pages -> Ddc]]
  BY StrapsAre DEF Types
<1>6. \A m \in Modules : \A p \in Pages : plan[m][p] = Straps[m][p]
  BY <1>3 DEF PlanGood, AllStrap, Strap, Straps
<1>7. \A m \in Modules : plan[m] = Straps[m]
  BY <1>5, <1>6
<1> QED BY <1>4, <1>5, <1>7 DEF Strapped

LEMMA ReadBackStep ==
  ASSUME IInv, ReadBack PROVE IInv'
<1>1. PICK r \in todo :
        /\ IsNext(r) /\ todo' = todo \ {r}
        /\ outcome' = IF ~Matches(r) THEN "mismatch"
                      ELSE IF todo = {r} /\ outcome = "none" THEN "ok" ELSE outcome
  BY DEF ReadBack
<1>2. /\ run = "verifying" /\ run' = IF todo' = {} THEN "idle" ELSE run
      /\ halted' = IF outcome' = "ok" THEN 0 ELSE halted
      /\ strapped' = strapped /\ plan' = plan /\ options' = options /\ vin' = vin
      /\ power' = power /\ fsm' = fsm
      /\ ddc' = ddc /\ onOff' = onOff /\ operation' = operation
  BY DEF ReadBack, board
<1>3. /\ Types /\ PlanGood(options, plan) /\ LastRead \in todo /\ outcome # "ok"
      /\ vin = "quiet" => WrittenBut({})
      /\ outcome = "none" => WrittenBut(todo) \/ Strapped
  BY <1>2 DEF IInv, Planned, Written
<1>4. Types'
  <2>1. outcome' \in {"none", "refused", "failed", "mismatch", "ok"} /\ halted' \in 0..2
    BY <1>1, <1>2, <1>3 DEF Types
  <2>2. run' \in {"idle", "planning", "writing", "verifying"} /\ todo' \subseteq Registers
    BY <1>1, <1>2, <1>3 DEF Types
  <2> QED BY <1>2, <1>3, <2>1, <2>2, PrimedValues DEF Types
<1>5. ASSUME outcome' = "ok" PROVE ddc = plan /\ RegistersNew /\ todo' = {}
  <2>1. todo = {r} /\ outcome = "none" /\ Matches(r) /\ r = LastRead
    BY <1>1, <1>3, <1>5
  <2>2. CASE WrittenBut(todo)
    <3>1. WrittenBut({})
      BY <1>3, <2>1, <2>2, MatchesOne
    <3>2. DdcBut({}, ddc) /\ RegistersNew
      BY <3>1 DEF WrittenBut, RegistersNew
    <3>3. ddc = plan
      BY <1>3, <3>2, AllWritten DEF Types
    <3> QED BY <1>1, <2>1, <3>2, <3>3
  <2>3. CASE Strapped
    BY <1>1, <1>3, <2>1, <2>3, StrappedEnds
  <2> QED BY <1>3, <2>1, <2>2, <2>3
<1>6. Planned'
  <2>1. RegistersNew' <=> RegistersNew
    BY <1>2 DEF RegistersNew, OnOffNew, OperationNew
  <2> QED BY <1>1, <1>2, <1>3, <1>5, <2>1, PrimedValues DEF Planned
<1>7. Written'
  <2> SUFFICES ASSUME todo' # {} PROVE Written'
    BY <1>2 DEF Written
  <2>1. r # LastRead /\ LastRead \in todo'
    BY <1>1, <1>2, <1>3, BackOrder
  <2>2. \A t : WrittenBut(t)' <=> WrittenBut(t)
    BY <1>2 DEF WrittenBut, DdcBut, OnOffNew, OperationNew
  <2>3. Strapped' <=> Strapped
    BY <1>2 DEF Strapped, Straps
  <2>4. ASSUME outcome' = "none" PROVE WrittenBut(todo') \/ Strapped
    <3>1. outcome = "none" /\ Matches(r)
      BY <1>1, <2>4
    <3> QED BY <1>1, <1>3, <3>1, MatchesOne
  <2> PICK t : t = todo'
    OBVIOUS
  <2>5. run' = "verifying"
    BY <1>2
  <2>6. vin' = "quiet" => WrittenBut({})'
    BY <1>2, <1>3, <2>2
  <2>7. outcome' = "none" => WrittenBut(t)' \/ Strapped'
    BY <2>2, <2>3, <2>4
  <2>8. WrittenBut(t)' => WrittenBut(todo)'
    BY DEF WrittenBut, DdcBut
  <2> QED BY <2>1, <2>5, <2>6, <2>7, <2>8 DEF Written, LastRead, Write
<1>8. ASSUME vin = "quiet" PROVE Whole(ddc)
  <2>1. DdcBut({}, ddc)
    BY <1>3, <1>8 DEF WrittenBut
  <2> QED BY <1>3, <2>1, AllWritten DEF Types
<1>9. Interruptions'
  BY <1>2, <1>8, PrimedValues DEF IInv, Interruptions
<1>10. ShrunkMeansDropped'
  BY <1>2 DEF IInv, ShrunkMeansDropped
<1> QED BY <1>4, <1>6, <1>7, <1>9, <1>10 DEF IInv

LEMMA SwitchStep ==
  ASSUME IInv, SwitchBoard PROVE IInv'
<1>1. /\ strapped' = strapped /\ ddc' = ddc /\ onOff' = onOff /\ operation' = operation
      /\ run' = run /\ options' = options /\ fsm' = fsm /\ plan' = plan /\ todo' = todo
      /\ outcome' = outcome /\ vin' = vin /\ halted' = halted
      /\ power' \in {"POWER_OFF", "POWER_ON"}
  BY DEF SwitchBoard, board
<1>2. Types'
  BY <1>1, PrimedValues DEF IInv, Types
<1>3. Planned'
  BY <1>1, PrimedValues DEF IInv, Planned, RegistersNew, OnOffNew, OperationNew
<1>4. Written'
  BY <1>1 DEF IInv, Written, WrittenBut, DdcBut, OnOffNew, OperationNew, Strapped, Straps,
              LastRead, Write
<1>5. Interruptions'
  BY <1>1, PrimedValues DEF IInv, Interruptions, Changing
<1> QED BY <1>1, <1>2, <1>3, <1>4, <1>5 DEF IInv, ShrunkMeansDropped

LEMMA CycleStep ==
  ASSUME IInv, CycleVin PROVE IInv'
<1>1. /\ ddc' = Straps /\ onOff' = [p \in Pages |-> "EN"] /\ operation' = [p \in Pages |-> "on"]
      /\ vin' = IF run = "idle" THEN "quiet" ELSE "cycled"
      /\ outcome' = IF run = "idle" THEN "none" ELSE outcome
      /\ halted' = 0 /\ strapped' = strapped /\ power' = power
      /\ run' = run /\ options' = options /\ fsm' = fsm /\ plan' = plan /\ todo' = todo
  BY DEF CycleVin
<1> PICK d : d = Straps
  OBVIOUS
<1>2. /\ d \in [Modules -> [Pages -> Ddc]] /\ Values(d) /\ Whole(d)
      /\ \A p \in Pages : ~(d["FnVCCINT1"][p].phases < 3)
  BY StrapsAre DEF IInv, Types
<1>3. Types'
  BY <1>1, <1>2, PrimedValues DEF IInv, Types
<1>4. Planned'
  BY <1>1, PrimedValues DEF IInv, Planned
<1>5. Written'
  <2>1. Strapped'
    BY <1>1 DEF Strapped, Straps
  <2> QED BY <1>1, <2>1 DEF IInv, Types, Written, LastRead, Write
<1>6. Interruptions'
  BY <1>1, <1>2, PrimedValues DEF Interruptions
<1>7. ShrunkMeansDropped'
  BY <1>1, <1>2 DEF ShrunkMeansDropped
<1> QED BY <1>3, <1>4, <1>5, <1>6, <1>7 DEF IInv

LEMMA StutterStep ==
  ASSUME IInv, UNCHANGED vars PROVE IInv'
<1>1. /\ strapped' = strapped /\ ddc' = ddc /\ onOff' = onOff /\ operation' = operation
      /\ run' = run /\ options' = options /\ fsm' = fsm /\ plan' = plan /\ todo' = todo
      /\ outcome' = outcome /\ vin' = vin /\ halted' = halted /\ power' = power
  BY DEF vars, board
<1>2. Types'
  BY <1>1, PrimedValues DEF IInv, Types
<1>3. Planned'
  BY <1>1, PrimedValues DEF IInv, Planned, RegistersNew, OnOffNew, OperationNew
<1>4. Written'
  BY <1>1 DEF IInv, Written, WrittenBut, DdcBut, OnOffNew, OperationNew, Strapped, Straps,
              LastRead, Write
<1>5. Interruptions'
  BY <1>1, PrimedValues DEF IInv, Interruptions, Changing
<1> QED BY <1>1, <1>2, <1>3, <1>4, <1>5 DEF IInv, ShrunkMeansDropped

-----------------------------------------------------------------------------
(* The theorems.                                                           *)

\* The invariant holds of every run of the tool, of every board.
THEOREM InductiveInvariant == Spec => []IInv
<1>1. ASSUME IInv, Next PROVE IInv'
  <2>1. CASE \E o \in Options : Start(o)
    BY <1>1, <2>1, StartStep
  <2>2. CASE \E done \in BOOLEAN : Interrupted(done)
    BY <1>1, <2>2, InterruptedStep
  <2> QED BY <1>1, <2>1, <2>2, ReadStep, RefuseStep, MakePlanStep,
     WriteStep, ReadBackStep, SwitchStep, CycleStep DEF Next
<1>2. IInv /\ [Next]_vars => IInv'
  BY <1>1, StutterStep
<1> QED BY <1>2, IInvInit, PTL DEF Spec

\* Every variable keeps its type; what the tool plans is a DDC_CONFIG.
THEOREM TypeCorrect == Spec => []TypeOK
<1>1. IInv => TypeOK
  BY DEF IInv, Types, TypeOK
<1> QED BY <1>1, InductiveInvariant, PTL

\* Whatever runs failed, were interrupted and were repeated: while FnVCCINT1 counts on two
\* phases, FnVCCINT2 is off and does not listen to the EN pin.
THEOREM ShrunkIsDropped == Spec => []ShrunkMeansDropped
<1>1. IInv => ShrunkMeansDropped
  BY DEF IInv
<1> QED BY <1>1, InductiveInvariant, PTL

\* A --restore that reports success gives what a VIN cycle gives.
THEOREM RestoreIsACycle == Spec => []RestoreIsAVinCycle
<1>1. ASSUME IInv PROVE RestoreIsAVinCycle
  <2> SUFFICES ASSUME outcome = "ok", options.restore = "yes"
               PROVE  ddc = Straps /\ \A p \in Pages : onOff[p] = "EN"
    BY DEF RestoreIsAVinCycle
  <2>1. ddc = plan /\ PlanGood(options, plan) /\ RegistersNew /\ Types
    BY <1>1 DEF IInv, Planned
  <2>2. \A p \in Pages : onOff[p] = "EN"
    BY <2>1 DEF RegistersNew, OnOffNew
  <2>3. \A m \in Modules : \A p \in Pages : ddc[m][p] = FourPhase(m, KeepRail, strapped)[p]
    BY <2>1 DEF PlanGood, AllStrap, Strap
  <2>4. ddc \in [Modules -> [Pages -> Ddc]] /\ Straps \in [Modules -> [Pages -> Ddc]]
    BY <2>1, StrapsAre DEF Types
  <2>5. \A m \in Modules : \A p \in Pages : ddc[m][p] = Straps[m][p]
    BY <2>3 DEF Straps
  <2>6. \A m \in Modules : ddc[m] = Straps[m]
    BY <2>4, <2>5
  <2>7. ddc = Straps
    BY <2>4, <2>6
  <2> QED BY <2>2, <2>7
<1> QED BY <1>1, InductiveInvariant, PTL

\* A page function is known by its pages.
LEMMA TwoIsWhole ==
  ASSUME strapped \in {3, 4}, NEW m \in Modules, NEW r \in Rails,
         NEW d \in [Modules -> [Pages -> Ddc]], AllTwo(m, r, d)
  PROVE  d[m] = TwoPhase(r, strapped - 2)
<1>1. \A p \in Pages : d[m][p] = TwoPhase(r, strapped - 2)[p]
  BY DEF AllTwo, Two
<1>2. d[m] \in [Pages -> Ddc] /\ d[m] = [p \in Pages |-> d[m][p]]
  OBVIOUS
<1>3. TwoPhase(r, strapped - 2) = [p \in Pages |-> TwoPhase(r, strapped - 2)[p]]
  BY DEF TwoPhase
<1> QED BY <1>1, <1>2, <1>3

\* A 2-phase run that reports success leaves what it says it does.
THEOREM AppliedIsTwoPhase == Spec => []AppliedMeansTwoPhase
<1>1. ASSUME IInv PROVE AppliedMeansTwoPhase
  <2> SUFFICES ASSUME outcome = "ok", options.restore = "no"
               PROVE  /\ IsTwoPhase(ddc["FnVCCINT1"])
                      /\ \A p \in Pages : onOff[p] = "OPERATION" /\ operation[p] = "off"
                      /\ options.dropRail # NoRail =>
                           /\ ddc["FnVCCINT2"] =
                                TwoPhase(options.dropRail, ddc["FnVCCINT1"][0].phases)
                           /\ options.dropRail # ddc["FnVCCINT1"][0].rail
    BY DEF AppliedMeansTwoPhase
  <2>1. ddc = plan /\ PlanGood(options, plan) /\ RegistersNew /\ Types
    BY <1>1 DEF IInv, Planned
  <2>2. \A p \in Pages : onOff[p] = "OPERATION" /\ operation[p] = "off"
    BY <2>1 DEF RegistersNew, OnOffNew, OperationNew
  <2>3. /\ strapped \in {3, 4} /\ ddc \in [Modules -> [Pages -> Ddc]] /\ KeepRail \in Rails
        /\ OtherRails \subseteq Rails /\ KeepRail \notin OtherRails
    BY <2>1, RailsAssumption DEF Types, OtherRails
  <2>4. ddc["FnVCCINT1"] = TwoPhase(KeepRail, strapped - 2)
    BY <2>1, <2>3, TwoIsWhole DEF PlanGood, Modules
  <2>5. ddc["FnVCCINT1"][0].rail = KeepRail /\ ddc["FnVCCINT1"][0].phases = strapped - 2
    BY <2>4 DEF TwoPhase, Pages
  <2>6. strapped - 2 \in {1, 2}
    BY <2>3
  <2>7. options.dropRail # NoRail =>
          /\ options.dropRail \in OtherRails
          /\ ddc["FnVCCINT2"] = TwoPhase(options.dropRail, strapped - 2)
    BY <2>1, <2>3, TwoIsWhole DEF PlanGood, Modules
  <2> QED BY <2>2, <2>3, <2>4, <2>5, <2>6, <2>7 DEF IsTwoPhase
<1> QED BY <1>1, InductiveInvariant, PTL

\* While FnVCCINT1's pages are alike, the 2-phase mode accepts them.
LEMMA AlikeIsAccepted ==
  ASSUME Types, KeepAlike(ddc), NEW o \in Options, o.restore = "no", o.dropRail = NoRail
  PROVE  Accepts(o, ddc["FnVCCINT1"], ddc["FnVCCINT2"])
<1>1. /\ strapped \in {3, 4} /\ KeepRail \in Rails /\ KeepRail \in 0..31
      /\ ddc \in [Modules -> [Pages -> Ddc]]
      /\ 0 \in Pages /\ 1 \in Pages /\ "FnVCCINT1" \in Modules
  BY RailsAssumption DEF Types, Pages, Modules
<1>2. CanShrink(ddc["FnVCCINT1"])
  <2>1. CASE AllStrap("FnVCCINT1", ddc)
    <3>1. \A p \in Pages : /\ ddc["FnVCCINT1"][p].rail = KeepRail
                           /\ ddc["FnVCCINT1"][p].phases = strapped
      BY <1>1, <2>1, Forms DEF AllStrap
    <3> QED BY <1>1, <3>1 DEF CanShrink
  <2>2. CASE AllTwo("FnVCCINT1", KeepRail, ddc)
    <3>1. ddc["FnVCCINT1"] = TwoPhase(KeepRail, strapped - 2)
      BY <1>1, <2>2, TwoIsWhole
    <3>2. ddc["FnVCCINT1"][0].rail = KeepRail /\ ddc["FnVCCINT1"][0].phases = strapped - 2
      BY <3>1 DEF TwoPhase, Pages
    <3>3. strapped - 2 \in {1, 2}
      BY <1>1
    <3> QED BY <3>1, <3>2, <3>3 DEF CanShrink, IsTwoPhase
  <2> QED BY <2>1, <2>2 DEF KeepAlike
<1>3. Shrunk(ddc["FnVCCINT1"])[0].rail = KeepRail
  <2>1. Values(ddc)
    BY DEF Types
  <2>2. Shrunk(ddc["FnVCCINT1"]) = TwoPhase(KeepRail, strapped - 2)
    BY <1>1, <1>2, <2>1, ShrunkPlan
  <2> QED BY <1>1, <2>2 DEF TwoPhase
<1>4. NoRail # KeepRail
  BY <1>1 DEF NoRail
<1> QED BY <1>2, <1>3, <1>4 DEF Accepts

\* Once they are half changed, --restore accepts them.
LEMMA HalfwayIsAccepted ==
  ASSUME Types, Halfway(ddc), ~KeepAlike(ddc), NEW o \in Options, o.restore = "yes"
  PROVE  Accepts(o, ddc["FnVCCINT1"], ddc["FnVCCINT2"])
<1> DEFINE keep == ddc["FnVCCINT1"]
           drop == ddc["FnVCCINT2"]
<1>1. /\ strapped \in {3, 4} /\ KeepRail \in Rails /\ OtherRails \subseteq Rails
      /\ KeepRail \notin OtherRails /\ ddc \in [Modules -> [Pages -> Ddc]]
      /\ 0 \in Pages /\ 1 \in Pages /\ "FnVCCINT1" \in Modules /\ "FnVCCINT2" \in Modules
      /\ \A p \in Pages : p = 0 \/ p = 1
  BY RailsAssumption DEF Types, Pages, Modules, OtherRails
<1>2. ASSUME NEW p \in Pages
      PROVE  keep[p].rail = KeepRail /\ keep[p].phases \in {strapped - 2, strapped}
  <2>1. Value("FnVCCINT1", p, keep[p])
    BY <1>1 DEF Types, Values
  <2> HIDE DEF keep
  <2> QED BY <1>1, <2>1, Fields
<1>3. CASE AllStrap("FnVCCINT2", ddc)
  <2>1. \A p \in Pages : drop[p] = FourPhase("FnVCCINT2", KeepRail, strapped)[p]
    BY <1>3 DEF AllStrap, Strap
  <2>2. drop \in [Pages -> Ddc] /\ drop = [p \in Pages |-> drop[p]]
    BY <1>1
  <2>3. FourPhase("FnVCCINT2", KeepRail, strapped)
          = [p \in Pages |-> FourPhase("FnVCCINT2", KeepRail, strapped)[p]]
    BY DEF FourPhase
  <2>4. drop = FourPhase("FnVCCINT2", KeepRail, strapped)
    BY <2>1, <2>2, <2>3
  <2>5. drop[0].phases = strapped
    BY <1>1, <2>4 DEF FourPhase
  <2> HIDE DEF keep, drop
  <2>6. IsStrapped(keep, drop)
    BY <1>1, <1>2, <2>4, <2>5 DEF IsStrapped
  <2>7. GrownPhases(keep, drop) = strapped
    BY <2>5, <2>6 DEF GrownPhases
  <2>8. CanRestore(keep, drop)
    BY <1>1, <1>2, <2>6, <2>7 DEF CanRestore
  <2> QED BY <2>8 DEF Accepts, keep, drop
<1>4. CASE ~AllStrap("FnVCCINT2", ddc)
  <2>1. PICK r \in OtherRails : AllTwo("FnVCCINT2", r, ddc)
    BY <1>4 DEF Halfway, DropAlike
  <2>2. r \in Rails /\ r # KeepRail
    BY <1>1, <2>1
  <2>3. drop = TwoPhase(r, strapped - 2)
    BY <1>1, <2>1, <2>2, TwoIsWhole
  <2>4. drop[0].rail = r /\ drop[0].id = 0
    BY <2>3, <1>1 DEF TwoPhase
  <2>5. keep[0] # Strap("FnVCCINT1", 0)
    <3>1. \A p \in Pages : keep[p] = Strap("FnVCCINT1", p) \/ keep[p] = Two(KeepRail, p)
      BY <1>1 DEF Types, Values, Value
    <3> QED BY <1>1, <1>4, <3>1 DEF Halfway, KeepAlike, AllStrap
  <2>6. keep[0].phases = strapped - 2
    <3>1. Value("FnVCCINT1", 0, keep[0])
      BY <1>1 DEF Types, Values
    <3>2. keep[0] = Two(KeepRail, 0)
      BY <2>5, <3>1 DEF Value
    <3> QED BY <1>1, <3>2, Forms
  <2> HIDE DEF keep, drop
  <2>7. IsMoved(keep, drop)
    <3>1. strapped - 2 \in {1, 2}
      BY <1>1
    <3> QED BY <1>1, <1>2, <2>2, <2>3, <2>4, <2>6, <3>1 DEF IsMoved
  <2>8. ~IsStrapped(keep, drop)
    <3>1. FourPhase("FnVCCINT2", keep[0].rail, drop[0].phases)[0].id = 1
      BY <1>1 DEF FourPhase
    <3> QED BY <2>4, <3>1 DEF IsStrapped
  <2>9. GrownPhases(keep, drop) = strapped
    <3>1. keep[0].phases + 2 = strapped
      BY <1>1, <2>6
    <3> QED BY <2>8, <3>1 DEF GrownPhases
  <2>10. CanRestore(keep, drop)
    BY <1>1, <1>2, <2>7, <2>9 DEF CanRestore
  <2> QED BY <2>10 DEF Accepts, keep, drop
<1> QED BY <1>3, <1>4

\* Wherever one run was interrupted, some option of the tool accepts what it left.
THEOREM OptionIsAccepted == Spec => []SomeOptionIsAccepted
<1>1. ASSUME IInv PROVE SomeOptionIsAccepted
  <2> SUFFICES ASSUME run = "idle", vin = "quiet", halted < 2
               PROVE  \E o \in Options : Accepts(o, ddc["FnVCCINT1"], ddc["FnVCCINT2"])
    BY DEF SomeOptionIsAccepted
  <2>1. Types /\ halted \in 0..2
    BY <1>1 DEF IInv, Types
  <2>2. halted = 0 \/ halted = 1
    BY <2>1
  <2>3. KeepAlike(ddc) \/ Halfway(ddc)
    BY <1>1, <2>2 DEF IInv, Interruptions, Whole
  <2> DEFINE shrink == [restore |-> "no", dropRail |-> NoRail]
             restore == [restore |-> "yes", dropRail |-> NoRail]
  <2>4. shrink \in Options /\ restore \in Options
    BY DEF Options
  <2>5. CASE KeepAlike(ddc)
    BY <2>1, <2>4, <2>5, AlikeIsAccepted
  <2>6. CASE ~KeepAlike(ddc)
    BY <2>1, <2>3, <2>4, <2>6, HalfwayIsAccepted
  <2> QED BY <2>5, <2>6
<1> QED BY <1>1, InductiveInvariant, PTL
=============================================================================
