---------------------------- MODULE FireflyProofs ----------------------------
(***************************************************************************)
(* Theorems about FireflyChannels, for any number of clients, any slots,   *)
(* command lines and failures.                                             *)
(***************************************************************************)
EXTENDS FireflyChannels, FiniteSetTheorems, WellFoundedInduction, TLAPS

\* Every nonempty set of naturals has a least element: the module handled next, the
\* byte written next.
LEMMA MinIn ==
  ASSUME NEW S \in SUBSET Nat, S # {}
  PROVE  Min(S) \in S
<1> DEFINE Upto(n) == 1..n
           T == {Upto(n) : n \in S}
<1>1. IsWellFoundedOn(StrictSubsetOrdering(Nat), FiniteSubsetsOf(Nat))
  BY FS_StrictSubsetOrderingWellFounded
<1>2. T \subseteq FiniteSubsetsOf(Nat) /\ T # {}
  <2>1. \A n \in S : IsFiniteSet(1..n) /\ 1..n \subseteq Nat
    BY FS_Interval
  <2> QED BY <2>1 DEF FiniteSubsetsOf
<1> HIDE DEF T
<1>3. PICK t \in T : \A u \in T : <<u, t>> \notin StrictSubsetOrdering(Nat)
  BY <1>1, <1>2, WFMin
<1>4. PICK x \in S : t = Upto(x)
  BY DEF T
<1>5. ASSUME NEW y \in S, y < x PROVE FALSE
  <2>1. Upto(y) \in T /\ Upto(y) \subseteq Upto(x) /\ Upto(y) # Upto(x)
    <3>1. x \in Upto(x) /\ x \notin Upto(y)
      BY <1>5
    <3> QED BY <1>5, <3>1 DEF T
  <2>2. <<Upto(y), Upto(x)>> \in StrictSubsetOrdering(Nat)
    BY <2>1 DEF StrictSubsetOrdering
  <2> QED BY <1>3, <1>4, <2>1, <2>2
<1>6. \A y \in S : x <= y
  BY <1>5
<1> QED BY <1>6 DEF Min

-----------------------------------------------------------------------------
(* The packed fields.                                                      *)

\* A setting's bytes are numbered from 1, at most six of them, and every cell of one
\* names its slot and its field.
LEMMA LayoutShape ==
  ASSUME NEW n \in DOMAIN Slots, NEW f \in Fields
  PROVE  /\ Len(Layout(n, f)) \in 0..6
         /\ DOMAIN Layout(n, f) = 1..Len(Layout(n, f))
         /\ \A b \in DOMAIN Layout(n, f) : \A x \in Layout(n, f)[b] : x[1] = n /\ x[2] = f
<1>1. Slots[n].kind \in {"Tx", "Rx", "4"}
  <2> DEFINE S == [loc : STRING, kind : Kinds, family : Families]
  <2> HIDE DEF S
  <2>1. Slots \in Seq(S)
    BY SlotsAssumption DEF S
  <2>2. Slots[n] \in S
    BY <2>1
  <2> QED BY <2>2 DEF S, Kinds
<1>2. CASE Slots[n].kind = "4" /\ f = "cdr"
  <2>1. Layout(n, f) = CdrByte4(n)
    BY <1>2 DEF Layout, Layouts
  <2> QED BY <1>2, <2>1 DEF CdrByte4
<1>3. CASE Slots[n].kind = "4" /\ f # "cdr"
  <2>1. Layout(n, f) = EqualizerBytes4(n, f)
    BY <1>3 DEF Layout, Layouts
  <2> QED BY <1>3, <2>1 DEF EqualizerBytes4
<1>4. CASE Slots[n].kind # "4" /\ f = "cdr"
  <2>1. Layout(n, f) = CdrBytes12(n)
    BY <1>1, <1>4 DEF Layout, Layouts
  <2> QED BY <1>4, <2>1 DEF CdrBytes12
<1>5. CASE Slots[n].kind = "Rx" /\ f # "cdr"
  <2>1. Layout(n, f) = EqualizerBytesRx(n, f)
    BY <1>5 DEF Layout, Layouts
  <2>2. Len(Layout(n, f)) = 6 /\ DOMAIN Layout(n, f) = 1..6
    BY <2>1 DEF EqualizerBytesRx
  <2>3. \A b \in 1..6 : \A x \in Layout(n, f)[b] : x[1] = n /\ x[2] = f
    BY <2>1 DEF EqualizerBytesRx
  <2> QED BY <2>2, <2>3
<1>6. CASE Slots[n].kind = "Tx" /\ f # "cdr"
  <2>1. Layout(n, f) = << >>
    BY <1>6 DEF Layout, Layouts
  <2> QED BY <2>1
<1> QED BY <1>1, <1>2, <1>3, <1>4, <1>5, <1>6

\* The cells of a setting are cells of the board, of that slot and field.
LEMMA CellsShape ==
  ASSUME NEW n \in DOMAIN Slots, NEW f \in Fields
  PROVE  /\ CellsOf(n, f) \subseteq Cells
         /\ \A x \in CellsOf(n, f) : x[1] = n /\ x[2] = f
         /\ \A b \in DOMAIN Layout(n, f) : Layout(n, f)[b] \subseteq CellsOf(n, f)
<1>1. CellsOf(n, f) \subseteq Cells
  BY DEF Cells
<1>2. \A x \in CellsOf(n, f) : x[1] = n /\ x[2] = f
  BY LayoutShape DEF CellsOf
<1>3. \A b \in DOMAIN Layout(n, f) : Layout(n, f)[b] \subseteq CellsOf(n, f)
  BY DEF CellsOf
<1> QED BY <1>1, <1>2, <1>3

\* One transaction or two cover all the bytes of a setting.
LEMMA ChunksCover ==
  ASSUME NEW n \in DOMAIN Slots, NEW f \in Fields
  PROVE  /\ Chunks(n, f) \in 0..2
         /\ \A b \in DOMAIN Layout(n, f) :
              \E k \in 1..Chunks(n, f) : b \in ChunkBytes(n, f, k)
<1>1. /\ Len(Layout(n, f)) \in 0..6
      /\ DOMAIN Layout(n, f) = 1..Len(Layout(n, f))
  BY LayoutShape
<1>2. Chunks(n, f) \in 0..2
  <2>1. \A k \in 0..6 : (k + 3) \div 4 \in 0..2
    OBVIOUS
  <2> QED BY <1>1, <2>1 DEF Chunks
<1>3. ASSUME NEW b \in DOMAIN Layout(n, f)
      PROVE  (b + 3) \div 4 \in 1..Chunks(n, f)
  <2>1. b \in Nat /\ b >= 1 /\ b <= Len(Layout(n, f))
    BY <1>1, <1>3
  <2> QED BY <1>1, <2>1 DEF Chunks
<1> QED BY <1>2, <1>3 DEF ChunkBytes

\* A value that a setter accepts is a value a cell may have.
LEMMA AcceptedIsValue ==
  ASSUME NEW q, NEW n \in DOMAIN Slots, NEW f \in Fields, NEW v, Accepts(q, n, f, v)
  PROVE  v \in Values
  BY DEF Accepts, Codes, Values, Fields

-----------------------------------------------------------------------------
(* The invariant: what each client has read and what it has set, while     *)
(* others change the modules.                                              *)

Handling == {"part", "set", "read", "write", "back"}

\* What is the case of every variable: a function of the clients, or of the cells.
Frame ==
  /\ reg \in [Cells -> Values] /\ faults \in 0..MaxFaults
  /\ DOMAIN pc = Clients /\ DOMAIN request = Clients /\ DOMAIN queue = Clients
  /\ DOMAIN step = Clients /\ DOMAIN chunk = Clients /\ DOMAIN raw = Clients
  /\ DOMAIN todo = Clients /\ DOMAIN failed = Clients /\ DOMAIN touched = Clients

\* Where a client stands: between settings it holds nothing it has read.
Standing(c) ==
  /\ pc[c] \in Places /\ request[c] \in Requests
  /\ queue[c] \subseteq Present \cap User
  /\ pc[c] \in Handling => queue[c] # {}
  /\ step[c] \in 1..(Len(request[c].changes) + 1)
  /\ pc[c] = "back" => step[c] = Len(request[c].changes) + 1
  /\ chunk[c] \in 1..2
  /\ failed[c] \in {"yes", "no"} /\ touched[c] \subseteq Cells
  /\ pc[c] \notin {"read", "write"} => chunk[c] = 1 /\ raw[c] = NoCells
  /\ pc[c] # "write" => todo[c] = {}
  /\ pc[c] = "done" => failed[c] = "no" /\ queue[c] = {}
  /\ pc[c] \in {"idle", "find"} => step[c] = 1 /\ queue[c] = {}

\* A setter at work has accepted its arguments; when it writes it has read all of the
\* setting, before that the transactions it has made.
AtWork(c) ==
  /\ pc[c] \in {"read", "write"} =>
       /\ step[c] \in DOMAIN request[c].changes
       /\ Accepts(request[c], Slot(c), Field(c), Change(c).value)
       /\ \A x \in DOMAIN raw[c] : x \in Cells /\ raw[c][x] \in Values
  /\ pc[c] = "read" =>
       \A k \in 1..(chunk[c] - 1) : \A b \in ChunkBytes(Slot(c), Field(c), k) :
         Layout(Slot(c), Field(c))[b] \subseteq DOMAIN raw[c]
  /\ pc[c] = "write" =>
       /\ todo[c] # {} /\ todo[c] \subseteq DOMAIN Layout(Slot(c), Field(c))
       /\ CellsOf(Slot(c), Field(c)) \subseteq DOMAIN raw[c]

\* What a client has read of a cell is what is there, unless another client has changed
\* it since or this client was to change it.
Fresh(c) ==
  pc[c] \in {"read", "write"} =>
    \A x \in DOMAIN raw[c] :
      \/ raw[c][x] = reg[x] \/ x \in touched[c]
      \/ pc[c] = "write" /\ x \in Asked(request[c], Slot(c), Field(c))

\* A channel that was asked for has its value, unless another client has changed it.
HasValue(c, x, v) == reg[x] = v \/ x \in touched[c]
IsSet(c, n, i) ==
  \A x \in Asked(request[c], n, request[c].changes[i].field) :
    HasValue(c, x, request[c].changes[i].value)

\* While nothing has failed: the modules handled are set, the module in hand is set up
\* to the change being made, and in that change the bytes that need no write, or are
\* written.
Completed(c) ==
  failed[c] = "no" /\ pc[c] \notin {"idle", "find", "error"} =>
    /\ \A n \in SlotsFor(request[c]) \ queue[c] : HasControl(n) =>
         \A i \in DOMAIN request[c].changes : IsSet(c, n, i)
    /\ pc[c] \in Handling => \A i \in 1..(step[c] - 1) : IsSet(c, Slot(c), i)
    /\ pc[c] = "write" =>
         \A b \in DOMAIN Layout(Slot(c), Field(c)) \ todo[c] :
           \A x \in Layout(Slot(c), Field(c))[b] \cap Asked(request[c], Slot(c), Field(c)) :
             HasValue(c, x, Change(c).value)

Good(c) == Standing(c) /\ AtWork(c) /\ Fresh(c) /\ Completed(c)

IInv == Frame /\ \A c \in Clients : Good(c)

-----------------------------------------------------------------------------
\* The module in hand is one of the slots, and its change one of the fields.
LEMMA InHand ==
  ASSUME NEW c \in Clients, Standing(c), queue[c] # {}
  PROVE  Slot(c) \in queue[c] /\ Slot(c) \in DOMAIN Slots
<1>1. DOMAIN Slots \subseteq Nat
  <2> DEFINE S == [loc : STRING, kind : Kinds, family : Families]
  <2> HIDE DEF S
  <2>1. Slots \in Seq(S)
    BY SlotsAssumption DEF S
  <2> QED BY <2>1
<1>2. queue[c] \in SUBSET Nat /\ queue[c] \subseteq DOMAIN Slots
  BY <1>1, SlotsAssumption DEF Standing
<1> QED BY <1>2, MinIn DEF Slot

\* The changes of a request, by number.
LEMMA ChangeIn ==
  ASSUME NEW q \in Requests
  PROVE  /\ Len(q.changes) \in Nat /\ DOMAIN q.changes = 1..Len(q.changes)
         /\ \A i \in DOMAIN q.changes : q.changes[i].field \in Fields
<1> DEFINE S == [field : Fields, value : Int]
<1> HIDE DEF S
<1>1. q.changes \in Seq(S)
  BY RequestsAssumption DEF S
<1>2. Len(q.changes) \in Nat /\ DOMAIN q.changes = 1..Len(q.changes)
  BY <1>1
<1>3. \A i \in DOMAIN q.changes : q.changes[i] \in S
  BY <1>1
<1> QED BY <1>2, <1>3 DEF S

LEMMA FieldIn ==
  ASSUME NEW c \in Clients, request[c] \in Requests, step[c] \in DOMAIN request[c].changes
  PROVE  Field(c) \in Fields
  BY ChangeIn DEF Field, Change

\* A client that does not move.
Same(d) ==
  /\ pc'[d] = pc[d] /\ request'[d] = request[d] /\ queue'[d] = queue[d]
  /\ step'[d] = step[d] /\ chunk'[d] = chunk[d] /\ raw'[d] = raw[d]
  /\ todo'[d] = todo[d] /\ failed'[d] = failed[d]

\* What others change is noted, once a client has begun.
Noted(d) ==
  /\ touched[d] \subseteq touched'[d] /\ touched'[d] \subseteq Cells
  /\ pc[d] \in {"idle", "error"} \/ \A x \in Cells : reg'[x] = reg[x] \/ x \in touched'[d]

\* What others do to the modules leaves a client good.
LEMMA OthersGood ==
  ASSUME NEW d \in Clients, Good(d), Same(d), Noted(d)
  PROVE  Good(d)'
<1>1. /\ Slot(d)' = Slot(d) /\ Change(d)' = Change(d) /\ Field(d)' = Field(d)
  BY DEF Same, Slot, Change, Field
<1>2. Standing(d)'
  BY DEF Good, Standing, Same, Noted
<1>3. AtWork(d)'
  BY <1>1 DEF Good, AtWork, Same
<1>4. Fresh(d)'
  BY <1>1 DEF Good, Fresh, AtWork, Same, Noted
<1>5. Completed(d)'
  <2> SUFFICES ASSUME failed[d] = "no", pc[d] \notin {"idle", "find", "error"}
               PROVE  Completed(d)'
    BY DEF Completed, Same
  <2>1. ASSUME NEW x \in Cells, NEW v, HasValue(d, x, v) PROVE HasValue(d, x, v)'
    BY <2>1 DEF HasValue, Noted
  <2>2. ASSUME NEW n \in DOMAIN Slots, NEW i \in DOMAIN request[d].changes, IsSet(d, n, i)
        PROVE  IsSet(d, n, i)'
    <3>1. request[d].changes[i].field \in Fields
      BY ChangeIn DEF Good, Standing
    <3>2. Asked(request[d], n, request[d].changes[i].field) \subseteq Cells
      BY <3>1, CellsShape DEF Asked
    <3> QED BY <2>1, <2>2, <3>2 DEF IsSet, Same
  <2>3. \A n \in SlotsFor(request[d]) \ queue[d] : HasControl(n) =>
          \A i \in DOMAIN request[d].changes : IsSet(d, n, i)'
    BY <2>2 DEF Good, Completed, SlotsFor
  <2>4. ASSUME pc[d] \in Handling, NEW i \in 1..(step[d] - 1) PROVE IsSet(d, Slot(d), i)'
    <3>1. i \in DOMAIN request[d].changes
      BY <2>4, ChangeIn DEF Good, Standing
    <3>2. Slot(d) \in DOMAIN Slots
      BY <2>4, InHand DEF Good, Standing
    <3>3. IsSet(d, Slot(d), i)
      BY <2>4 DEF Good, Completed
    <3> HIDE DEF Slot
    <3> QED BY <1>1, <2>2, <3>1, <3>2, <3>3
  <2>5. ASSUME pc[d] = "write", NEW b \in DOMAIN Layout(Slot(d), Field(d)) \ todo[d],
               NEW x \in Layout(Slot(d), Field(d))[b] \cap Asked(request[d], Slot(d), Field(d))
        PROVE  HasValue(d, x, Change(d).value)'
    <3>1. x \in Cells
      BY <2>5, InHand, FieldIn, CellsShape DEF Good, Standing, AtWork, Handling
    <3>2. HasValue(d, x, Change(d).value)
      BY <2>5 DEF Good, Completed
    <3> QED BY <1>1, <2>1, <3>1, <3>2
  <2> QED BY <1>1, <2>3, <2>4, <2>5 DEF Completed, Same
<1> QED BY <1>2, <1>3, <1>4, <1>5 DEF Good

-----------------------------------------------------------------------------
(* One step of one client.                                                 *)

LocalFrame ==
  /\ DOMAIN pc = Clients /\ DOMAIN request = Clients /\ DOMAIN queue = Clients
  /\ DOMAIN step = Clients /\ DOMAIN chunk = Clients /\ DOMAIN raw = Clients
  /\ DOMAIN todo = Clients /\ DOMAIN failed = Clients

\* What there is to show of a step that does not touch the modules.
LEMMA QuietStep ==
  ASSUME IInv, NEW c \in Clients, LocalFrame', Good(c)',
         \A d \in Clients \ {c} : Same(d),
         reg' = reg, touched' = touched, faults' \in 0..MaxFaults
  PROVE  IInv'
<1>1. ASSUME NEW d \in Clients \ {c} PROVE Good(d)'
  <2>1. Noted(d)
    BY DEF Noted, IInv, Good, Standing
  <2> QED BY <2>1, OthersGood DEF IInv
<1>2. Frame'
  BY DEF IInv, Frame, LocalFrame
<1> QED BY <1>1, <1>2 DEF IInv

\* Going on to the modules in q, or to the end.
LEMMA ProceedStep ==
  ASSUME IInv, NEW c \in Clients, NEW q \in SUBSET (Present \cap User), NEW f \in {"yes", "no"},
         Proceed(c, q, f), touched'[c] \subseteq Cells
  PROVE  /\ LocalFrame'
         /\ \A d \in Clients \ {c} : Same(d)
         /\ Standing(c)' /\ AtWork(c)' /\ Fresh(c)'
         /\ queue'[c] = q /\ step'[c] = 1 /\ failed'[c] = f /\ request'[c] = request[c]
         /\ pc'[c] \in {"done", "error", "set", "part"}
<1>1. /\ DOMAIN pc = Clients /\ DOMAIN request = Clients /\ DOMAIN queue = Clients
      /\ DOMAIN step = Clients /\ DOMAIN chunk = Clients /\ DOMAIN raw = Clients
      /\ DOMAIN todo = Clients /\ DOMAIN failed = Clients /\ request[c] \in Requests
  BY DEF IInv, Frame, Good, Standing
<1>2. LocalFrame' /\ \A d \in Clients \ {c} : Same(d)
  BY <1>1 DEF Proceed, LocalFrame, Same
<1>3. /\ queue'[c] = q /\ step'[c] = 1 /\ failed'[c] = f /\ request'[c] = request[c]
      /\ chunk'[c] = 1 /\ raw'[c] = NoCells /\ todo'[c] = {}
  BY <1>1 DEF Proceed
<1>4. \/ q = {} /\ f = "no" /\ pc'[c] = "done"
      \/ q = {} /\ f = "yes" /\ pc'[c] = "error"
      \/ q # {} /\ pc'[c] \in {"set", "part"}
  <2>1. pc'[c] = CASE q = {} /\ f = "no"                   -> "done"
                    [] q = {} /\ f = "yes"                  -> "error"
                    [] q # {} /\ Slots[Min(q)].kind = "4"  -> "set"
                    [] q # {} /\ Slots[Min(q)].kind # "4"  -> "part"
    BY <1>1 DEF Proceed
  <2> QED BY <2>1
<1>5. Standing(c)'
  BY <1>1, <1>3, <1>4, ChangeIn DEF Standing, Places, Handling
<1>6. AtWork(c)' /\ Fresh(c)'
  BY <1>4 DEF AtWork, Fresh
<1> QED BY <1>2, <1>3, <1>4, <1>5, <1>6

\* The modules left when the one in hand is done with, or given up.
LEMMA OthersIn ==
  ASSUME IInv, NEW c \in Clients
  PROVE  Others(c) \in SUBSET (Present \cap User) /\ failed[c] \in {"yes", "no"}
  BY DEF Others, IInv, Good, Standing

\* A step in which a client gives something up leaves nothing to show of what it has set.
LEMMA GiveUpStep ==
  ASSUME IInv, NEW c \in Clients, NEW q \in SUBSET (Present \cap User), Proceed(c, q, "yes"),
         reg' = reg, touched' = touched, faults' \in 0..MaxFaults
  PROVE  IInv'
<1>1. touched'[c] \subseteq Cells
  BY DEF IInv, Good, Standing
<1>2. /\ LocalFrame' /\ \A d \in Clients \ {c} : Same(d)
      /\ Standing(c)' /\ AtWork(c)' /\ Fresh(c)' /\ failed'[c] = "yes"
  BY <1>1, ProceedStep
<1>3. Completed(c)'
  BY <1>2 DEF Completed
<1> QED BY <1>2, <1>3, QuietStep DEF Good

\* What was set stays set while nobody writes.
LEMMA StaysSet ==
  ASSUME NEW c \in Clients, reg' = reg, touched' = touched, request'[c] = request[c],
         NEW n, NEW i, IsSet(c, n, i)
  PROVE  IsSet(c, n, i)'
  BY DEF IsSet, HasValue

LEMMA StartStep == ASSUME IInv, NEW c \in Clients, Start(c) PROVE IInv'
<1>1. /\ pc'[c] \in {"find", "error"} /\ pc[c] = "idle" /\ LocalFrame'
      /\ \A d \in Clients \ {c} : Same(d)
      /\ request'[c] = request[c] /\ queue'[c] = queue[c] /\ step'[c] = step[c]
      /\ chunk'[c] = chunk[c] /\ raw'[c] = raw[c] /\ todo'[c] = todo[c]
      /\ failed'[c] = failed[c] /\ touched' = touched /\ reg' = reg /\ faults' = faults
  BY DEF Start, local, IInv, Frame, LocalFrame, Same
<1>2. Good(c)'
  BY <1>1 DEF IInv, Good, Standing, AtWork, Fresh, Completed, Places, Handling
<1> QED BY <1>1, <1>2, QuietStep DEF IInv, Frame

LEMMA FindNothingStep == ASSUME IInv, NEW c \in Clients, FindNothing(c) PROVE IInv'
<1>1. /\ pc'[c] = "error" /\ pc[c] = "find" /\ LocalFrame'
      /\ \A d \in Clients \ {c} : Same(d)
      /\ request'[c] = request[c] /\ queue'[c] = queue[c] /\ step'[c] = step[c]
      /\ chunk'[c] = chunk[c] /\ raw'[c] = raw[c] /\ todo'[c] = todo[c]
      /\ failed'[c] = failed[c] /\ touched' = touched /\ reg' = reg /\ faults' = faults
  BY DEF FindNothing, local, IInv, Frame, LocalFrame, Same
<1>2. Good(c)'
  BY <1>1 DEF IInv, Good, Standing, AtWork, Fresh, Completed, Places, Handling
<1> QED BY <1>1, <1>2, QuietStep DEF IInv, Frame

LEMMA FindModulesStep == ASSUME IInv, NEW c \in Clients, FindModules(c) PROVE IInv'
<1>1. SlotsFor(request[c]) \in SUBSET (Present \cap User)
  BY DEF SlotsFor, Handled
<1>2. touched'[c] \subseteq Cells /\ reg' = reg /\ touched' = touched /\ faults' = faults
  BY DEF FindModules, IInv, Good, Standing
<1>3. Proceed(c, SlotsFor(request[c]), "no")
  BY DEF FindModules
<1>4. /\ LocalFrame' /\ \A d \in Clients \ {c} : Same(d)
      /\ Standing(c)' /\ AtWork(c)' /\ Fresh(c)'
      /\ queue'[c] = SlotsFor(request[c]) /\ step'[c] = 1 /\ request'[c] = request[c]
      /\ pc'[c] \in {"done", "error", "set", "part"}
  BY <1>1, <1>2, <1>3, ProceedStep
<1>5. Completed(c)'
  BY <1>4 DEF Completed
<1> QED BY <1>2, <1>4, <1>5, QuietStep DEF Good, IInv, Frame

\* A module that is done with while nothing has failed is set up, or has nothing to set.
LEMMA ModuleDone ==
  ASSUME IInv, NEW c \in Clients, queue[c] # {}, pc[c] \notin {"idle", "find", "error"},
         Proceed(c, Others(c), failed[c]), UNCHANGED <<reg, touched, faults>>,
         failed[c] = "no" /\ HasControl(Slot(c)) =>
           \A i \in DOMAIN request[c].changes : IsSet(c, Slot(c), i)
  PROVE  IInv'
<1>1. touched'[c] \subseteq Cells
  BY DEF IInv, Good, Standing
<1>2. /\ LocalFrame' /\ \A d \in Clients \ {c} : Same(d)
      /\ Standing(c)' /\ AtWork(c)' /\ Fresh(c)'
      /\ queue'[c] = Others(c) /\ step'[c] = 1 /\ request'[c] = request[c]
      /\ failed'[c] = failed[c] /\ pc'[c] \in {"done", "error", "set", "part"}
  BY <1>1, OthersIn, ProceedStep
<1>3. ASSUME failed[c] = "no", NEW n \in SlotsFor(request[c]) \ Others(c), HasControl(n),
             NEW i \in DOMAIN request[c].changes
      PROVE  IsSet(c, n, i)'
  <2>1. IsSet(c, n, i)
    <3>1. CASE n = Slot(c)
      BY <1>3, <3>1
    <3>2. CASE n # Slot(c)
      BY <1>3, <3>2 DEF Others, IInv, Good, Completed
    <3> QED BY <3>1, <3>2
  <2> QED BY <1>2, <2>1, StaysSet
<1>4. Completed(c)'
  BY <1>2, <1>3 DEF Completed
<1> QED BY <1>2, <1>4, QuietStep DEF Good, IInv, Frame

LEMMA ReadPartStep == ASSUME IInv, NEW c \in Clients, ReadPart(c) PROVE IInv'
<1>1. pc[c] = "part" /\ queue[c] # {} /\ Good(c)
  BY DEF ReadPart, IInv, Good, Standing, Handling
<1>2. CASE HasControl(Slot(c))
  <2>1. /\ pc'[c] = "set" /\ LocalFrame'
        /\ \A d \in Clients \ {c} : Same(d)
        /\ request'[c] = request[c] /\ queue'[c] = queue[c] /\ step'[c] = step[c]
        /\ chunk'[c] = chunk[c] /\ raw'[c] = raw[c] /\ todo'[c] = todo[c]
        /\ failed'[c] = failed[c] /\ touched' = touched /\ reg' = reg /\ faults' = faults
    BY <1>2 DEF ReadPart, local, IInv, Frame, LocalFrame, Same
  <2>2. Slot(c)' = Slot(c)
    BY <2>1 DEF Slot
  <2>3. Standing(c)' /\ AtWork(c)' /\ Fresh(c)'
    BY <1>1, <2>1 DEF Good, Standing, AtWork, Fresh, Places, Handling
  <2>4. Completed(c)'
    BY <1>1, <2>1, <2>2, StaysSet DEF Good, Completed, Handling
  <2> QED BY <2>1, <2>3, <2>4, QuietStep DEF Good, IInv, Frame
<1>3. CASE ~HasControl(Slot(c))
  BY <1>1, <1>3, ModuleDone DEF ReadPart
<1> QED BY <1>2, <1>3

LEMMA ReadBackStep == ASSUME IInv, NEW c \in Clients, ReadBack(c) PROVE IInv'
<1>1. pc[c] = "back" /\ queue[c] # {} /\ Good(c)
  BY DEF ReadBack, IInv, Good, Standing, Handling
<1>2. failed[c] = "no" => \A i \in DOMAIN request[c].changes : IsSet(c, Slot(c), i)
  <2>1. Len(request[c].changes) \in Nat /\ DOMAIN request[c].changes = 1..(step[c] - 1)
    BY <1>1, ChangeIn DEF Good, Standing
  <2> QED BY <1>1, <2>1 DEF Good, Completed, Handling
<1> QED BY <1>1, <1>2, ModuleDone DEF ReadBack

LEMMA BeginChangeStep == ASSUME IInv, NEW c \in Clients, BeginChange(c) PROVE IInv'
<1>1. pc[c] = "set" /\ queue[c] # {} /\ Good(c)
  BY DEF BeginChange, IInv, Good, Standing, Handling
<1>2. reg' = reg /\ touched' = touched /\ faults' = faults
  BY DEF BeginChange
<1>3. /\ Len(request[c].changes) \in Nat /\ step[c] \in 1..(Len(request[c].changes) + 1)
      /\ DOMAIN request[c].changes = 1..Len(request[c].changes)
  BY <1>1, ChangeIn DEF Good, Standing
<1>4. ASSUME pc' = [pc EXCEPT ![c] = "back"] \/ pc' = [pc EXCEPT ![c] = "read"],
             UNCHANGED local
      PROVE  /\ LocalFrame' /\ \A d \in Clients \ {c} : Same(d)
             /\ request'[c] = request[c] /\ queue'[c] = queue[c] /\ step'[c] = step[c]
             /\ chunk'[c] = chunk[c] /\ raw'[c] = raw[c] /\ todo'[c] = todo[c]
             /\ failed'[c] = failed[c] /\ Slot(c)' = Slot(c) /\ Change(c)' = Change(c)
             /\ Field(c)' = Field(c) /\ Completed(c)'
  <2>1. /\ LocalFrame' /\ \A d \in Clients \ {c} : Same(d)
        /\ request'[c] = request[c] /\ queue'[c] = queue[c] /\ step'[c] = step[c]
        /\ chunk'[c] = chunk[c] /\ raw'[c] = raw[c] /\ todo'[c] = todo[c]
        /\ failed'[c] = failed[c] /\ pc'[c] \in {"read", "back"}
    BY <1>4 DEF local, IInv, Frame, LocalFrame, Same
  <2>2. Slot(c)' = Slot(c) /\ Change(c)' = Change(c) /\ Field(c)' = Field(c)
    BY <2>1 DEF Slot, Change, Field
  <2>3. Completed(c)'
    BY <1>1, <1>2, <2>1, <2>2, StaysSet DEF Good, Completed, Handling
  <2> QED BY <2>1, <2>2, <2>3
<1>5. CASE step[c] > Len(request[c].changes)
  <2>1. pc' = [pc EXCEPT ![c] = "back"] /\ UNCHANGED local /\ pc'[c] = "back"
    BY <1>5 DEF BeginChange, IInv, Frame
  <2>2. Standing(c)' /\ AtWork(c)' /\ Fresh(c)'
    BY <1>1, <1>2, <1>3, <1>4, <1>5, <2>1
       DEF Good, Standing, AtWork, Fresh, Places, Handling
  <2> QED BY <1>2, <1>4, <2>1, <2>2, QuietStep DEF Good, IInv, Frame
<1>6. CASE /\ ~(step[c] > Len(request[c].changes))
           /\ Accepts(request[c], Slot(c), Field(c), Change(c).value)
  <2>1. pc' = [pc EXCEPT ![c] = "read"] /\ UNCHANGED local /\ pc'[c] = "read"
    BY <1>6 DEF BeginChange, IInv, Frame
  <2>2. step[c] \in DOMAIN request[c].changes /\ chunk[c] = 1 /\ DOMAIN raw[c] = {}
    BY <1>1, <1>3, <1>6 DEF Good, Standing, NoCells
  <2>3. Standing(c)'
    BY <1>1, <1>2, <1>4, <2>1 DEF Good, Standing, Places, Handling
  <2>4. AtWork(c)' /\ Fresh(c)'
    BY <1>4, <1>6, <2>1, <2>2 DEF AtWork, Fresh
  <2> QED BY <1>2, <1>4, <2>1, <2>3, <2>4, QuietStep DEF Good, IInv, Frame
<1>7. CASE /\ ~(step[c] > Len(request[c].changes))
           /\ ~Accepts(request[c], Slot(c), Field(c), Change(c).value)
  <2>1. Proceed(c, Others(c), "yes")
    BY <1>7 DEF BeginChange, FailModule
  <2> QED BY <1>2, <2>1, OthersIn, GiveUpStep DEF IInv, Frame
<1> QED BY <1>5, <1>6, <1>7

LEMMA InterruptStep == ASSUME IInv, NEW c \in Clients, Interrupt(c) PROVE IInv'
  BY GiveUpStep DEF Interrupt, IInv, Frame

-----------------------------------------------------------------------------
(* Reading and writing a setting.                                          *)

Asking(c) == Asked(request[c], Slot(c), Field(c))

\* What a client at work has at hand.
LEMMA WorkInHand ==
  ASSUME IInv, NEW c \in Clients, pc[c] \in {"read", "write"}
  PROVE  /\ Slot(c) \in queue[c] /\ Slot(c) \in DOMAIN Slots /\ Field(c) \in Fields
         /\ step[c] \in DOMAIN request[c].changes /\ request[c] \in Requests
         /\ Change(c).value \in Values
         /\ CellsOf(Slot(c), Field(c)) \subseteq Cells
         /\ \A b \in DOMAIN Layout(Slot(c), Field(c)) :
              Layout(Slot(c), Field(c))[b] \subseteq CellsOf(Slot(c), Field(c))
<1>1. Standing(c) /\ AtWork(c) /\ queue[c] # {}
  BY DEF IInv, Good, Standing, Handling
<1>2. Slot(c) \in queue[c] /\ Slot(c) \in DOMAIN Slots
  BY <1>1, InHand
<1>3. step[c] \in DOMAIN request[c].changes /\ request[c] \in Requests
  BY <1>1 DEF AtWork, Standing
<1>4. Field(c) \in Fields
  BY <1>3, FieldIn
<1>5. Change(c).value \in Values
  BY <1>1, <1>2, <1>4, AcceptedIsValue DEF AtWork
<1> QED BY <1>2, <1>3, <1>4, <1>5, CellsShape

\* The end of a transaction after which `bytes` are left to write: what is set stays
\* set, and of the setting in hand all that is not left to write is set.
LEMMA WrittenGood ==
  ASSUME IInv, NEW c \in Clients, pc[c] \in {"read", "write"},
         NEW bytes \in SUBSET DOMAIN Layout(Slot(c), Field(c)),
         Written(c, bytes), UNCHANGED <<request, queue, failed>>,
         touched'[c] \subseteq Cells, DOMAIN raw' = Clients,
         \A d \in Clients \ {c} : raw'[d] = raw[d],
         bytes # {} =>
           /\ CellsOf(Slot(c), Field(c)) \subseteq DOMAIN raw'[c]
           /\ \A x \in DOMAIN raw'[c] :
                /\ x \in Cells /\ raw'[c][x] \in Values
                /\ raw'[c][x] = reg'[x] \/ x \in touched'[c] \/ x \in Asking(c),
         failed[c] = "no" =>
           \A b \in DOMAIN Layout(Slot(c), Field(c)) \ bytes :
             \A x \in Layout(Slot(c), Field(c))[b] \cap Asking(c) :
               reg'[x] = Change(c).value \/ x \in touched'[c],
         \A x \in Cells \ CellsOf(Slot(c), Field(c)) :
           reg'[x] = reg[x] /\ (x \in touched[c] => x \in touched'[c])
  PROVE  /\ Good(c)' /\ LocalFrame'
         /\ \A d \in Clients \ {c} : Same(d)
<1> PICK n, f, v, i :
      n = Slot(c) /\ f = Field(c) /\ v = Change(c).value /\ i = step[c]
  OBVIOUS
<1>1. /\ n \in queue[c] /\ n \in DOMAIN Slots /\ f \in Fields
      /\ i \in DOMAIN request[c].changes /\ request[c] \in Requests
      /\ f = request[c].changes[i].field /\ v = request[c].changes[i].value
  BY WorkInHand DEF Field, Change
<1>2. LocalFrame' /\ \A d \in Clients \ {c} : Same(d)
  BY DEF Written, IInv, Frame, LocalFrame, Same
<1>3. /\ request'[c] = request[c] /\ queue'[c] = queue[c] /\ failed'[c] = failed[c]
      /\ todo'[c] = bytes /\ Slot(c)' = n
      /\ \/ bytes = {} /\ pc'[c] = "set" /\ step'[c] = i + 1 /\ chunk'[c] = 1
            /\ raw'[c] = NoCells
         \/ bytes # {} /\ pc'[c] = "write" /\ step'[c] = i /\ chunk'[c] = chunk[c]
  BY DEF Written, IInv, Frame, Slot
<1>4. bytes # {} => Change(c)' = Change(c) /\ Field(c)' = f
  BY <1>3 DEF Change, Field
<1>5. /\ Len(request[c].changes) \in Nat /\ i \in 1..Len(request[c].changes)
      /\ DOMAIN request[c].changes = 1..Len(request[c].changes)
      /\ \A j \in DOMAIN request[c].changes : request[c].changes[j].field \in Fields
  BY <1>1, ChangeIn
<1>6. Standing(c)'
  BY <1>1, <1>3, <1>5 DEF IInv, Good, Standing, Places, Handling
<1>7. AtWork(c)'
  <2>1. CASE bytes = {}
    BY <1>3, <2>1 DEF AtWork
  <2>2. CASE bytes # {}
    <3>1. Accepts(request[c], n, f, v)
      BY DEF IInv, Good, AtWork
    <3>2. /\ CellsOf(n, f) \subseteq DOMAIN raw'[c] /\ bytes \subseteq DOMAIN Layout(n, f)
          /\ \A x \in DOMAIN raw'[c] : x \in Cells /\ raw'[c][x] \in Values
      BY <2>2
    <3>3. Change(c)'.value = v
      BY <1>4, <2>2
    <3> QED BY <1>1, <1>3, <1>4, <2>2, <3>1, <3>2, <3>3 DEF AtWork
  <2> QED BY <2>1, <2>2
<1>8. Fresh(c)'
  <2>1. bytes # {} => Asked(request[c], n, f) = Asking(c)
    BY DEF Asking
  <2> QED BY <1>3, <1>4, <2>1 DEF Fresh
<1>9. Completed(c)'
  <2> SUFFICES ASSUME failed[c] = "no" PROVE Completed(c)'
    BY <1>3 DEF Completed
  <2>1. ASSUME NEW m \in DOMAIN Slots, NEW j \in DOMAIN request[c].changes,
               m # n \/ j # i, IsSet(c, m, j)
        PROVE  IsSet(c, m, j)'
    <3>1. request[c].changes[j].field # f \/ m # n
      BY <1>1, <2>1, RequestsAssumption
    <3>2. \A x \in Asked(request[c], m, request[c].changes[j].field) :
            x \in Cells \ CellsOf(n, f)
      BY <1>1, <1>5, <3>1, CellsShape DEF Asked
    <3> QED BY <1>3, <2>1, <3>2 DEF IsSet, HasValue
  <2>2. \A m \in SlotsFor(request[c]) \ queue[c] : HasControl(m) =>
          \A j \in DOMAIN request[c].changes : IsSet(c, m, j)'
    BY <1>1, <2>1 DEF IInv, Good, Completed, SlotsFor
  <2>3. \A j \in 1..(i - 1) : IsSet(c, n, j)'
    <3>1. \A j \in 1..(i - 1) : IsSet(c, n, j) /\ j \in DOMAIN request[c].changes /\ j # i
      BY <1>5 DEF IInv, Good, Completed, Handling
    <3> QED BY <1>1, <2>1, <3>1
  <2>4. bytes = {} => IsSet(c, n, i)'
    <3> SUFFICES ASSUME bytes = {}, NEW x \in Asked(request[c], n, f)
                 PROVE  HasValue(c, x, v)'
      BY <1>1, <1>3 DEF IsSet
    <3>1. PICK b \in DOMAIN Layout(n, f) : x \in Layout(n, f)[b]
      BY DEF Asked, CellsOf
    <3> QED BY <1>3, <3>1 DEF HasValue, Asking
  <2>5. bytes = {} => \A j \in 1..((i + 1) - 1) : IsSet(c, n, j)'
    BY <1>5, <2>3, <2>4
  <2>6. bytes # {} =>
          \A b \in DOMAIN Layout(n, f) \ bytes :
            \A x \in Layout(n, f)[b] \cap Asked(request[c], n, f) : HasValue(c, x, v)'
    BY <1>3 DEF HasValue, Asking
  <2>7. CASE bytes = {}
    BY <1>3, <2>2, <2>5, <2>7 DEF Completed
  <2>8. CASE bytes # {}
    <3>1. Change(c)'.value = v
      BY <1>4, <2>8
    <3> QED BY <1>3, <1>4, <2>2, <2>3, <2>6, <2>8, <3>1 DEF Completed, HasValue
  <2> QED BY <2>7, <2>8
<1> QED BY <1>2, <1>6, <1>7, <1>8, <1>9 DEF Good

\* A transaction of a read: the cells it returns are as they are in the module.
LEMMA ReadChunkStep == ASSUME IInv, NEW c \in Clients, ReadChunk(c) PROVE IInv'
<1> PICK n, f, v, k :
      n = Slot(c) /\ f = Field(c) /\ v = Change(c).value /\ k = chunk[c]
  OBVIOUS
<1> PICK new : new = [x \in ChunkCells(c) \cup DOMAIN raw[c] |->
                        IF x \in ChunkCells(c) THEN reg[x] ELSE raw[c][x]]
  OBVIOUS
<1>1. /\ pc[c] = "read" /\ Good(c) /\ reg' = reg /\ faults' = faults /\ request' = request
      /\ queue' = queue /\ failed' = failed
      /\ touched' = [touched EXCEPT ![c] = @ \ ChunkCells(c)]
  BY DEF ReadChunk, IInv
<1>2. /\ n \in queue[c] /\ n \in DOMAIN Slots /\ f \in Fields
      /\ CellsOf(n, f) \subseteq Cells
      /\ \A b \in DOMAIN Layout(n, f) : Layout(n, f)[b] \subseteq CellsOf(n, f)
  BY <1>1, WorkInHand
<1>3. ChunkCells(c) \subseteq CellsOf(n, f)
  BY <1>2 DEF ChunkCells, ChunkBytes
<1>4. /\ touched'[c] = touched[c] \ ChunkCells(c) /\ touched'[c] \subseteq Cells
      /\ \A d \in Clients \ {c} : touched'[d] = touched[d]
      /\ DOMAIN touched' = Clients
  BY <1>1 DEF IInv, Frame, Good, Standing
<1>5. /\ DOMAIN new = ChunkCells(c) \cup DOMAIN raw[c]
      /\ \A x \in DOMAIN new :
           /\ x \in Cells /\ new[x] \in Values
           /\ new[x] = reg'[x] \/ x \in touched'[c]
  <2>1. \A x \in DOMAIN raw[c] :
          /\ x \in Cells /\ raw[c][x] \in Values
          /\ raw[c][x] = reg[x] \/ x \in touched[c]
    BY <1>1 DEF Good, AtWork, Fresh
  <2>2. \A x \in ChunkCells(c) : x \in Cells /\ reg[x] \in Values
    BY <1>2, <1>3 DEF IInv, Frame
  <2> QED BY <1>1, <1>4, <2>1, <2>2
<1>6. \A j \in 1..k : \A b \in ChunkBytes(n, f, j) : Layout(n, f)[b] \subseteq DOMAIN new
  <2>1. k \in 1..2
    BY <1>1 DEF Good, Standing
  <2>2. \A j \in 1..(k - 1) : \A b \in ChunkBytes(n, f, j) : Layout(n, f)[b] \subseteq DOMAIN raw[c]
    BY <1>1 DEF Good, AtWork
  <2>3. \A b \in ChunkBytes(n, f, k) : Layout(n, f)[b] \subseteq ChunkCells(c)
    BY DEF ChunkCells
  <2> QED BY <1>5, <2>1, <2>2, <2>3
<1>7. ASSUME NEW d \in Clients \ {c}, Same(d) PROVE Good(d)'
  <2>1. Noted(d)
    BY <1>1, <1>4 DEF Noted, IInv, Good, Standing
  <2> QED BY <1>7, <2>1, OthersGood DEF IInv
<1>8. CASE k < Chunks(n, f)
  <2>1. /\ chunk' = [chunk EXCEPT ![c] = @ + 1] /\ raw' = [raw EXCEPT ![c] = new]
        /\ pc' = pc /\ step' = step /\ todo' = todo
    BY <1>8 DEF ReadChunk
  <2>2. LocalFrame' /\ \A d \in Clients \ {c} : Same(d)
    BY <1>1, <2>1 DEF IInv, Frame, LocalFrame, Same
  <2>3. chunk'[c] = k + 1 /\ raw'[c] = new /\ k + 1 \in 1..2
    BY <1>1, <1>2, <1>8, <2>1, ChunksCover DEF IInv, Frame, Good, Standing
  <2>4. Slot(c)' = n /\ Change(c)' = Change(c) /\ Field(c)' = f
    BY <1>1, <2>1 DEF Slot, Change, Field
  <2>5. Standing(c)'
    BY <1>1, <1>4, <2>1, <2>3 DEF Good, Standing
  <2>6. AtWork(c)'
    <3>1. chunk'[c] - 1 = k
      BY <1>1, <2>3 DEF Good, Standing
    <3>2. Accepts(request[c], n, f, Change(c).value) /\ step[c] \in DOMAIN request[c].changes
      BY <1>1 DEF Good, AtWork
    <3> QED BY <1>1, <1>5, <1>6, <2>1, <2>3, <2>4, <3>1, <3>2 DEF AtWork
  <2>7. Fresh(c)'
    BY <1>5, <2>3 DEF Fresh
  <2>8. Completed(c)'
    <3> SUFFICES ASSUME failed[c] = "no" PROVE Completed(c)'
      BY <1>1 DEF Completed
    <3>1. ASSUME NEW m \in DOMAIN Slots, NEW j \in DOMAIN request[c].changes,
                 m # n \/ j # step[c], IsSet(c, m, j)
          PROVE  IsSet(c, m, j)'
      <4>1. /\ request[c] \in Requests /\ step[c] \in DOMAIN request[c].changes
            /\ f = request[c].changes[step[c]].field
        BY <1>1, WorkInHand DEF Field, Change
      <4>2. request[c].changes[j].field # f \/ m # n
        BY <3>1, <4>1, RequestsAssumption
      <4>3. \A x \in Asked(request[c], m, request[c].changes[j].field) : x \notin ChunkCells(c)
        BY <1>2, <1>3, <4>1, <4>2, ChangeIn, CellsShape DEF Asked
      <4> QED BY <1>1, <1>4, <3>1, <4>3 DEF IsSet, HasValue
    <3>2. \A m \in SlotsFor(request[c]) \ queue[c] : HasControl(m) =>
            \A j \in DOMAIN request[c].changes : IsSet(c, m, j)'
      BY <1>1, <1>2, <3>1 DEF Good, Completed, SlotsFor
    <3>3. \A j \in 1..(step[c] - 1) : IsSet(c, n, j)'
      <4>1. \A j \in 1..(step[c] - 1) :
              IsSet(c, n, j) /\ j \in DOMAIN request[c].changes /\ j # step[c]
        BY <1>1, ChangeIn DEF Good, Completed, Standing, Handling
      <4> QED BY <1>2, <3>1, <4>1
    <3> QED BY <1>1, <2>1, <2>4, <3>2, <3>3 DEF Completed
  <2>9. Frame'
    BY <1>1, <1>4, <2>2 DEF IInv, Frame, LocalFrame
  <2> QED BY <1>7, <2>2, <2>5, <2>6, <2>7, <2>8, <2>9 DEF IInv, Good
<1>9. CASE ~(k < Chunks(n, f))
  <2>1. PICK bytes : bytes = BytesToWrite(c, new)
    OBVIOUS
  <2>2. Written(c, bytes) /\ (bytes # {} => raw' = [raw EXCEPT ![c] = new])
    BY <1>9, <2>1 DEF ReadChunk
  <2>3. DOMAIN raw' = Clients /\ \A d \in Clients \ {c} : raw'[d] = raw[d]
    BY <2>2 DEF Written, IInv, Frame
  <2>4. CellsOf(n, f) \subseteq DOMAIN new
    <3>1. \A b \in DOMAIN Layout(n, f) : \E j \in 1..k : b \in ChunkBytes(n, f, j)
      BY <1>1, <1>2, <1>9, ChunksCover DEF Good, Standing
    <3> QED BY <1>6, <3>1 DEF CellsOf
  <2>5. bytes # {} =>
          /\ CellsOf(n, f) \subseteq DOMAIN raw'[c]
          /\ \A x \in DOMAIN raw'[c] :
               /\ x \in Cells /\ raw'[c][x] \in Values
               /\ raw'[c][x] = reg'[x] \/ x \in touched'[c] \/ x \in Asking(c)
    <3>1. bytes # {} => raw'[c] = new
      BY <2>2 DEF IInv, Frame
    <3>2. ASSUME bytes # {}, NEW x \in DOMAIN raw'[c]
          PROVE  /\ x \in Cells /\ raw'[c][x] \in Values
                 /\ raw'[c][x] = reg'[x] \/ x \in touched'[c]
      BY <1>5, <3>1, <3>2
    <3> QED BY <2>4, <3>1, <3>2
  <2>6. /\ bytes \in SUBSET DOMAIN Layout(n, f)
        /\ \A b \in DOMAIN Layout(n, f) \ bytes :
             \A x \in Layout(n, f)[b] \cap Asking(c) :
               reg'[x] = Change(c).value \/ x \in touched'[c]
    <3>1. bytes \in SUBSET DOMAIN Layout(n, f)
      BY <2>1 DEF BytesToWrite
    <3>2. ASSUME NEW b \in DOMAIN Layout(n, f) \ bytes, NEW x \in Layout(n, f)[b] \cap Asking(c)
          PROVE  new[x] = Change(c).value /\ x \in DOMAIN new
      <4>1. NewCell(c, new, x) = new[x]
        BY <2>1, <3>2 DEF BytesToWrite
      <4>2. NewCell(c, new, x) = Change(c).value
        BY <3>2 DEF NewCell, Asking
      <4>3. x \in DOMAIN new
        BY <1>2, <2>4, <3>2
      <4> QED BY <4>1, <4>2, <4>3
    <3> QED BY <1>5, <3>1, <3>2
  <2>7. \A x \in Cells \ CellsOf(n, f) :
          reg'[x] = reg[x] /\ (x \in touched[c] => x \in touched'[c])
    BY <1>1, <1>3, <1>4
  <2>8. /\ Good(c)' /\ LocalFrame'
        /\ \A d \in Clients \ {c} : Same(d)
    BY <1>1, <1>4, <2>2, <2>3, <2>5, <2>6, <2>7, WrittenGood
  <2>9. Frame'
    BY <1>1, <1>4, <2>8 DEF IInv, Frame, LocalFrame
  <2> QED BY <1>7, <2>8, <2>9 DEF IInv
<1> QED BY <1>8, <1>9

\* A write of a byte changes nothing but the cells of that byte, gives those asked for
\* their value, and is noted by the others.
LEMMA ExecuteStep ==
  ASSUME IInv, NEW c \in Clients, pc[c] = "write", Execute(c, Min(todo[c]))
  PROVE  /\ Min(todo[c]) \in todo[c] /\ todo[c] \subseteq DOMAIN Layout(Slot(c), Field(c))
         /\ reg' \in [Cells -> Values]
         /\ \A x \in Cells : x \notin Layout(Slot(c), Field(c))[Min(todo[c])] => reg'[x] = reg[x]
         /\ \A x \in Layout(Slot(c), Field(c))[Min(todo[c])] :
              x \in Cells /\ reg'[x] = NewCell(c, raw[c], x)
         /\ DOMAIN touched' = Clients /\ touched'[c] = touched[c] /\ touched'[c] \subseteq Cells
         /\ \A d \in Clients \ {c} : Noted(d)
<1> PICK n, f, b, byte :
      n = Slot(c) /\ f = Field(c) /\ b = Min(todo[c]) /\ byte = Layout(n, f)[b]
  OBVIOUS
<1>1. /\ n \in DOMAIN Slots /\ f \in Fields /\ Change(c).value \in Values
      /\ CellsOf(n, f) \subseteq Cells
      /\ \A a \in DOMAIN Layout(n, f) : Layout(n, f)[a] \subseteq CellsOf(n, f)
  BY WorkInHand
<1>2. /\ todo[c] # {} /\ todo[c] \subseteq DOMAIN Layout(n, f)
      /\ CellsOf(n, f) \subseteq DOMAIN raw[c]
      /\ \A x \in DOMAIN raw[c] : x \in Cells /\ raw[c][x] \in Values
  BY DEF IInv, Good, AtWork
<1>3. b \in todo[c]
  <2>1. DOMAIN Layout(n, f) \subseteq Nat
    BY <1>1, LayoutShape
  <2>2. todo[c] \in SUBSET Nat
    BY <1>2, <2>1
  <2> QED BY <1>2, <2>2, MinIn
<1>4. byte \subseteq CellsOf(n, f) /\ byte \subseteq Cells
  BY <1>1, <1>2, <1>3
<1>5. \A x \in byte : NewCell(c, raw[c], x) \in Values
  BY <1>1, <1>2, <1>4 DEF NewCell
<1>6. reg' = [x \in Cells |-> IF x \in byte THEN NewCell(c, raw[c], x) ELSE reg[x]]
  BY DEF Execute
<1>7. reg' \in [Cells -> Values]
  BY <1>5, <1>6 DEF IInv, Frame
<1>8. touched' = [d \in Clients |->
        IF d = c \/ pc[d] \in {"idle", "error"} THEN touched[d]
        ELSE touched[d] \cup {x \in byte : reg'[x] # reg[x]}]
  BY DEF Execute
<1>9. DOMAIN touched' = Clients /\ touched'[c] = touched[c] /\ touched'[c] \subseteq Cells
  BY <1>8 DEF IInv, Good, Standing
<1>10. ASSUME NEW d \in Clients \ {c} PROVE Noted(d)
  <2>1. touched[d] \subseteq Cells
    BY DEF IInv, Good, Standing
  <2>2. CASE pc[d] \in {"idle", "error"}
    BY <1>8, <2>1, <2>2 DEF Noted
  <2>3. CASE pc[d] \notin {"idle", "error"}
    <3>1. touched'[d] = touched[d] \cup {x \in byte : reg'[x] # reg[x]}
      BY <1>8, <2>3
    <3>2. \A x \in Cells : reg'[x] = reg[x] \/ x \in touched'[d]
      BY <1>6, <3>1
    <3> QED BY <1>4, <2>1, <3>1, <3>2 DEF Noted
  <2> QED BY <2>2, <2>3
<1> QED BY <1>2, <1>3, <1>4, <1>6, <1>7, <1>9, <1>10

LEMMA WriteByteStep == ASSUME IInv, NEW c \in Clients, WriteByte(c) PROVE IInv'
<1> PICK n, f, v, b, bytes :
      /\ n = Slot(c) /\ f = Field(c) /\ v = Change(c).value
      /\ b = Min(todo[c]) /\ bytes = todo[c] \ {b}
  OBVIOUS
<1>1. /\ pc[c] = "write" /\ Good(c) /\ Execute(c, b) /\ Written(c, bytes)
      /\ (bytes # {} => raw' = raw)
      /\ request' = request /\ queue' = queue /\ failed' = failed /\ faults' = faults
  <2>1. pc[c] = "write" /\ Execute(c, b) /\ Written(c, bytes)
    BY DEF WriteByte
  <2>2. bytes # {} => todo[c] # {b}
    OBVIOUS
  <2> QED BY <2>1, <2>2 DEF WriteByte, IInv
<1>2. /\ n \in DOMAIN Slots /\ f \in Fields /\ CellsOf(n, f) \subseteq Cells
      /\ \A a \in DOMAIN Layout(n, f) : Layout(n, f)[a] \subseteq CellsOf(n, f)
  BY <1>1, WorkInHand
<1>3. /\ b \in todo[c] /\ todo[c] \subseteq DOMAIN Layout(n, f) /\ reg' \in [Cells -> Values]
      /\ \A x \in Cells : x \notin Layout(n, f)[b] => reg'[x] = reg[x]
      /\ \A x \in Layout(n, f)[b] : x \in Cells /\ reg'[x] = NewCell(c, raw[c], x)
      /\ DOMAIN touched' = Clients /\ touched'[c] = touched[c] /\ touched'[c] \subseteq Cells
      /\ \A d \in Clients \ {c} : Noted(d)
  BY <1>1, ExecuteStep
<1>4. /\ CellsOf(n, f) \subseteq DOMAIN raw[c]
      /\ \A x \in DOMAIN raw[c] :
           /\ x \in Cells /\ raw[c][x] \in Values
           /\ raw[c][x] = reg[x] \/ x \in touched[c] \/ x \in Asking(c)
  BY <1>1 DEF Good, AtWork, Fresh, Asking
<1>5. DOMAIN raw' = Clients /\ \A d \in Clients \ {c} : raw'[d] = raw[d]
  BY <1>1 DEF Written, IInv, Frame
<1>6. \A x \in DOMAIN raw[c] : raw[c][x] = reg'[x] \/ x \in touched'[c] \/ x \in Asking(c)
  <2>1. ASSUME NEW x \in DOMAIN raw[c], x \in Layout(n, f)[b], x \notin Asking(c)
        PROVE  raw[c][x] = reg'[x]
    BY <1>3, <2>1 DEF NewCell, Asking
  <2> QED BY <1>3, <1>4, <2>1
<1>7. bytes # {} =>
        /\ CellsOf(n, f) \subseteq DOMAIN raw'[c]
        /\ \A x \in DOMAIN raw'[c] :
             /\ x \in Cells /\ raw'[c][x] \in Values
             /\ raw'[c][x] = reg'[x] \/ x \in touched'[c] \/ x \in Asking(c)
  BY <1>1, <1>4, <1>6
<1>8. ASSUME failed[c] = "no", NEW a \in DOMAIN Layout(n, f) \ bytes,
             NEW x \in Layout(n, f)[a] \cap Asking(c)
      PROVE  reg'[x] = v \/ x \in touched'[c]
  <2>1. CASE x \in Layout(n, f)[b]
    BY <1>3, <1>8, <2>1 DEF NewCell, Asking
  <2>2. CASE x \notin Layout(n, f)[b]
    <3>1. a \notin todo[c] /\ x \in Cells
      BY <1>2, <1>8, <2>2
    <3>2. HasValue(c, x, v)
      BY <1>1, <1>8, <3>1 DEF Good, Completed, Asking
    <3> QED BY <1>3, <2>2, <3>1, <3>2 DEF HasValue
  <2> QED BY <2>1, <2>2
<1>9. \A x \in Cells \ CellsOf(n, f) :
        reg'[x] = reg[x] /\ (x \in touched[c] => x \in touched'[c])
  BY <1>2, <1>3
<1>10. bytes \in SUBSET DOMAIN Layout(n, f)
  BY <1>3
<1>11. /\ Good(c)' /\ LocalFrame'
       /\ \A d \in Clients \ {c} : Same(d)
  BY <1>1, <1>3, <1>5, <1>7, <1>8, <1>9, <1>10, WrittenGood
<1>12. \A d \in Clients \ {c} : Good(d)'
  BY <1>3, <1>11, OthersGood DEF IInv
<1>13. Frame'
  BY <1>1, <1>3, <1>11 DEF IInv, Frame, LocalFrame
<1> QED BY <1>11, <1>12, <1>13 DEF IInv

LEMMA FaultStep == ASSUME IInv, NEW c \in Clients, Fault(c) PROVE IInv'
<1>1. faults' \in 0..MaxFaults
  BY RequestsAssumption DEF Fault, IInv, Frame
<1>2. Proceed(c, Others(c), "yes")
  BY DEF Fault, FailModule
<1>3. CASE UNCHANGED <<reg, touched>>
  BY <1>1, <1>2, <1>3, OthersIn, GiveUpStep
<1>4. CASE pc[c] = "write" /\ Execute(c, Min(todo[c]))
  <2>1. /\ reg' \in [Cells -> Values] /\ DOMAIN touched' = Clients /\ touched'[c] \subseteq Cells
        /\ \A d \in Clients \ {c} : Noted(d)
    BY <1>4, ExecuteStep
  <2>2. /\ LocalFrame' /\ \A d \in Clients \ {c} : Same(d)
        /\ Standing(c)' /\ AtWork(c)' /\ Fresh(c)' /\ failed'[c] = "yes"
    BY <1>2, <2>1, OthersIn, ProceedStep
  <2>3. Good(c)'
    BY <2>2 DEF Good, Completed
  <2>4. \A d \in Clients \ {c} : Good(d)'
    BY <2>1, <2>2, OthersGood DEF IInv
  <2>5. Frame'
    BY <1>1, <2>1, <2>2 DEF Frame, LocalFrame
  <2> QED BY <2>3, <2>4, <2>5 DEF IInv
<1> QED BY <1>3, <1>4 DEF Fault

-----------------------------------------------------------------------------
(* The theorems.                                                           *)

LEMMA IInvInit == Init => IInv
<1> SUFFICES ASSUME Init PROVE IInv
  OBVIOUS
<1>1. Frame
  <2>1. reg \in [Cells -> Values]
    BY DEF Init, Values
  <2> QED BY <2>1, RequestsAssumption DEF Init, Frame
<1>2. ASSUME NEW c \in Clients PROVE Good(c)
  <2>1. pc[c] = "idle" /\ request[c] \in Requests
    BY DEF Init
  <2>2. Standing(c)
    BY <2>1, ChangeIn DEF Init, Standing, Places, Handling
  <2> QED BY <2>1, <2>2 DEF Good, AtWork, Fresh, Completed
<1> QED BY <1>1, <1>2 DEF IInv

LEMMA IInvStep == IInv /\ [Next]_vars => IInv'
<1> SUFFICES ASSUME IInv, [Next]_vars PROVE IInv'
  OBVIOUS
<1>1. CASE UNCHANGED vars
  <2>1. ASSUME NEW c \in Clients PROVE Same(c) /\ Noted(c)
    BY <1>1 DEF vars, Same, Noted, IInv, Good, Standing
  <2>2. \A c \in Clients : Good(c)'
    BY <2>1, OthersGood DEF IInv
  <2> QED BY <1>1, <2>2 DEF vars, IInv, Frame
<1>2. CASE Next
  <2>1. PICK c \in Clients :
          \/ Start(c)
          \/ FindModules(c)
          \/ FindNothing(c)
          \/ ReadPart(c)
          \/ BeginChange(c)
          \/ ReadChunk(c)
          \/ WriteByte(c)
          \/ ReadBack(c)
          \/ Fault(c)
          \/ Interrupt(c)
    BY <1>2 DEF Next
  <2> QED BY <2>1, StartStep, FindModulesStep, FindNothingStep, ReadPartStep, BeginChangeStep,
             ReadChunkStep, WriteByteStep, ReadBackStep, FaultStep, InterruptStep
<1> QED BY <1>1, <1>2

\* What each client has read, and what it has set, is as IInv says, whatever the others
\* do to the same modules, whatever fails and wherever a tool is interrupted.
THEOREM InductiveInvariant == Spec => []IInv
  BY IInvInit, IInvStep, PTL DEF Spec

\* Each of these is a function of the clients.
OnClients(g) == g = [d \in Clients |-> g[d]]
AreFunctions == OnClients(pc) /\ OnClients(request) /\ OnClients(failed) /\ OnClients(touched)

LEMMA ExceptOnClients ==
  ASSUME NEW g, OnClients(g), NEW c \in Clients, NEW v
  PROVE  OnClients([g EXCEPT ![c] = v])
  BY DEF OnClients

LEMMA AreFunctionsStep ==
  ASSUME AreFunctions, [Next]_vars
  PROVE  AreFunctions'
<1>1. CASE UNCHANGED vars
  BY <1>1 DEF vars, AreFunctions, OnClients
<1>2. CASE Next
  <2> PICK c \in Clients :
          \/ Start(c)
          \/ FindModules(c)
          \/ FindNothing(c)
          \/ ReadPart(c)
          \/ BeginChange(c)
          \/ ReadChunk(c)
          \/ WriteByte(c)
          \/ ReadBack(c)
          \/ Fault(c)
          \/ Interrupt(c)
    BY <1>2 DEF Next
  <2>1. pc' = pc \/ \E v : pc' = [pc EXCEPT ![c] = v]
    BY DEF Start, FindModules, FindNothing, ReadPart, BeginChange, ReadChunk, WriteByte,
           ReadBack, Fault, Interrupt, FailModule, Proceed, Written
  <2>2. request' = request
    BY DEF Start, FindModules, FindNothing, ReadPart, BeginChange, ReadChunk, WriteByte,
           ReadBack, Fault, Interrupt, FailModule, Proceed, local
  <2>3. failed' = failed \/ \E v : failed' = [failed EXCEPT ![c] = v]
    BY DEF Start, FindModules, FindNothing, ReadPart, BeginChange, ReadChunk, WriteByte,
           ReadBack, Fault, Interrupt, FailModule, Proceed, local
  <2>4. \/ touched' = touched
        \/ \E v : touched' = [touched EXCEPT ![c] = v]
        \/ OnClients(touched)'
    BY DEF Start, FindModules, FindNothing, ReadPart, BeginChange, ReadChunk, WriteByte,
           ReadBack, Fault, Interrupt, Execute, OnClients
  <2>5. OnClients(pc') /\ OnClients(failed') /\ OnClients(touched')
    BY <2>1, <2>3, <2>4, ExceptOnClients DEF AreFunctions
  <2> QED BY <2>2, <2>5 DEF AreFunctions
<1> QED BY <1>1, <1>2

\* Every variable of the tools has its type.
THEOREM TypeCorrect == Spec => []TypeOK
<1>1. IInv /\ AreFunctions => TypeOK
  <2> SUFFICES ASSUME IInv, AreFunctions PROVE TypeOK
    OBVIOUS
  <2>1. \A c \in Clients : Standing(c) /\ AtWork(c)
    BY DEF IInv, Good
  <2>2. /\ reg \in [Cells -> Values] /\ faults \in 0..MaxFaults
        /\ pc \in [Clients -> Places] /\ request \in [Clients -> Requests]
        /\ failed \in [Clients -> {"yes", "no"}] /\ touched \in [Clients -> SUBSET Cells]
    <3>1. reg \in [Cells -> Values] /\ faults \in 0..MaxFaults
      BY DEF IInv, Frame
    <3>2. pc \in [Clients -> Places]
      <4>1. OnClients(pc) /\ \A c \in Clients : pc[c] \in Places
        BY <2>1 DEF AreFunctions, Standing
      <4> QED BY <4>1 DEF OnClients
    <3>3. request \in [Clients -> Requests]
      <4>1. OnClients(request) /\ \A c \in Clients : request[c] \in Requests
        BY <2>1 DEF AreFunctions, Standing
      <4> QED BY <4>1 DEF OnClients
    <3>4. failed \in [Clients -> {"yes", "no"}]
      <4>1. OnClients(failed) /\ \A c \in Clients : failed[c] \in {"yes", "no"}
        BY <2>1 DEF AreFunctions, Standing
      <4> QED BY <4>1 DEF OnClients
    <3>5. touched \in [Clients -> SUBSET Cells]
      <4>1. OnClients(touched) /\ \A c \in Clients : touched[c] \subseteq Cells
        BY <2>1 DEF AreFunctions, Standing
      <4> QED BY <4>1 DEF OnClients
    <3> QED BY <3>1, <3>2, <3>3, <3>4, <3>5
  <2>3. ASSUME NEW c \in Clients
        PROVE  /\ queue[c] \subseteq Present \cap User
               /\ (pc[c] \in Handling) => queue[c] # {}
               /\ step[c] \in 1..(Len(request[c].changes) + 1)
               /\ chunk[c] \in 1..2
               /\ DOMAIN raw[c] \subseteq Cells /\ \A x \in DOMAIN raw[c] : raw[c][x] \in Values
               /\ todo[c] \subseteq 1..6
    <3>1. DOMAIN raw[c] \subseteq Cells /\ \A x \in DOMAIN raw[c] : raw[c][x] \in Values
      BY <2>1 DEF Standing, AtWork, NoCells
    <3>2. todo[c] \subseteq 1..6
      <4>1. CASE pc[c] = "write"
        <5>1. DOMAIN Layout(Slot(c), Field(c)) \subseteq 1..6
          <6>1. Slot(c) \in DOMAIN Slots /\ Field(c) \in Fields
            BY <4>1, WorkInHand
          <6> QED BY <6>1, LayoutShape
        <5> QED BY <2>1, <4>1, <5>1 DEF AtWork
      <4>2. CASE pc[c] # "write"
        BY <2>1, <4>2 DEF Standing
      <4> QED BY <4>1, <4>2
    <3> QED BY <2>1, <3>1, <3>2 DEF Standing
  <2> QED BY <2>2, <2>3 DEF TypeOK, Handling
<1>2. Init => AreFunctions
  BY DEF Init, AreFunctions, OnClients
<1>3. AreFunctions /\ [Next]_vars => AreFunctions'
  BY AreFunctionsStep
<1> QED BY <1>1, <1>2, <1>3, InductiveInvariant, PTL DEF Spec

\* A tool that ends with status 0 has set every channel it was asked to set, in every
\* module it was to handle, but those another client has changed since.
THEOREM SuccessIsSet == Spec => []SuccessMeansSet
<1>1. IInv => SuccessMeansSet
  <2> SUFFICES ASSUME IInv, NEW c \in Clients, pc[c] = "done", NEW n \in DOMAIN Slots,
                      Handled(request[c], n), HasControl(n), NEW i \in DOMAIN request[c].changes,
                      NEW x \in Asked(request[c], n, request[c].changes[i].field)
               PROVE  reg[x] = request[c].changes[i].value \/ x \in touched[c]
    BY DEF SuccessMeansSet
  <2>1. failed[c] = "no" /\ queue[c] = {}
    BY DEF IInv, Good, Standing
  <2>2. IsSet(c, n, i)
    BY <2>1 DEF IInv, Good, Completed, SlotsFor
  <2> QED BY <2>2 DEF IsSet, HasValue
<1> QED BY <1>1, InductiveInvariant, PTL

\* A client's write changes the channels it was asked to change; any other only where it
\* loses what another client wrote there since it was read.
THEOREM OnlyAskedChanges == Spec => OnlyAskedOrLost
<1>1. IInv /\ [Next]_vars =>
        [\A x \in Cells : reg'[x] # reg[x] =>
           \E c \in Clients :
             /\ pc[c] = "write"
             /\ \/ x \in Asked(request[c], Slot(c), Field(c))
                \/ x \in touched[c]]_vars
  <2> SUFFICES ASSUME IInv, Next, NEW x \in Cells, reg'[x] # reg[x]
               PROVE  \E c \in Clients :
                        /\ pc[c] = "write"
                        /\ \/ x \in Asked(request[c], Slot(c), Field(c))
                           \/ x \in touched[c]
    BY DEF vars
  <2>1. PICK c \in Clients : pc[c] = "write" /\ Execute(c, Min(todo[c]))
    BY DEF Next, Start, FindModules, FindNothing, ReadPart, BeginChange, ReadChunk, WriteByte,
           ReadBack, Fault, Interrupt
  <2>2. SUFFICES ASSUME x \notin Asked(request[c], Slot(c), Field(c)) PROVE x \in touched[c]
    BY <2>1
  <2>3. /\ Min(todo[c]) \in todo[c] /\ todo[c] \subseteq DOMAIN Layout(Slot(c), Field(c))
        /\ x \in Layout(Slot(c), Field(c))[Min(todo[c])] /\ reg'[x] = NewCell(c, raw[c], x)
    BY <2>1, ExecuteStep
  <2>4. reg'[x] = raw[c][x]
    BY <2>2, <2>3 DEF NewCell
  <2>5. x \in DOMAIN raw[c]
    BY <2>1, <2>3, WorkInHand DEF IInv, Good, AtWork
  <2> QED BY <2>1, <2>2, <2>4, <2>5 DEF IInv, Good, Fresh
<1> QED BY <1>1, InductiveInvariant, PTL DEF Spec, OnlyAskedOrLost

=============================================================================
