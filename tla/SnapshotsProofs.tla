-------------------------- MODULE SnapshotsProofs --------------------------
(***************************************************************************)
(* Theorems about Snapshots, for any supplies, any number of dumps, resets *)
(* and chunks, and any number of failures and switches.                    *)
(***************************************************************************)
EXTENDS Snapshots, SequenceTheorems, TLAPS

\* What the MCU's cache can hold.
Captures == [id : Nat, of : Histories \cup {NoCapture.of}]
CacheType == cache \in Captures /\ (cache = NoCapture \/ (cache.id # 0 /\ cache.of \in Histories))

DumpRecord ==
  [at : {"registers", "capture", "read", "returned", "done", "error"},
   pages : Seq(Histories), mine : Nat, got : Seq(Captures), failed : {"yes", "no"}]

\* A dump has pages left until it ends, and chunks only of the page at hand.
DumpType(d) ==
  /\ dump[d] \in DumpRecord
  /\ dump[d].at \in {"done", "error"} <=> dump[d].pages = << >>
  /\ dump[d].at \notin {"read", "returned"} => dump[d].got = << >>
  /\ dump[d].at = "read" => Len(dump[d].got) < NChunks
  /\ dump[d].at = "returned" => Len(dump[d].got) = NChunks

\* The chunks a dump has are of its own capture, or of a later one of its page.
Own(d) ==
  dump[d].at \in {"read", "returned"} =>
    /\ dump[d].mine <= cache.id
    /\ \A i \in 1..Len(dump[d].got) :
         /\ dump[d].got[i].of = Page(d)
         /\ dump[d].got[i].id >= dump[d].mine
         /\ dump[d].got[i].id = dump[d].mine \/ d \in recaptured

\* While nobody has captured its page again, a cache of its page is its own capture.
Held(d) ==
  dump[d].at = "read" /\ d \notin recaptured /\ cache.of = Page(d) => cache.id = dump[d].mine

Good(d) == DumpType(d) /\ Own(d) /\ Held(d)

DumpInv ==
  /\ CacheType
  /\ DOMAIN dump = Dumps
  /\ recaptured \subseteq Dumps
  /\ \A d \in Dumps : Good(d)

-----------------------------------------------------------------------------
\* A sequence and its first element.
LEMMA HeadOfPages ==
  ASSUME NEW s \in Seq(Histories), s # << >>
  PROVE  Head(s) \in Histories /\ Tail(s) \in Seq(Histories)
  OBVIOUS

\* A dump with a page at hand.
LEMMA PageOf ==
  ASSUME NEW d \in Dumps, DumpType(d), dump[d].at \notin {"done", "error"}
  PROVE  Page(d) \in Histories /\ Tail(dump[d].pages) \in Seq(Histories)
<1>1. dump[d].pages \in Seq(Histories) /\ dump[d].pages # << >>
  BY DEF DumpType, DumpRecord
<1> QED BY <1>1, HeadOfPages DEF Page

\* Going on to the next page leaves a dump that holds nothing.
LEMMA NextPageStep ==
  ASSUME DumpInv, NEW d \in Dumps, NEW f \in {"yes", "no"},
         dump[d].at \notin {"done", "error"}, NextPage(d, f)
  PROVE  /\ DOMAIN dump' = Dumps
         /\ \A e \in Dumps \ {d} : dump'[e] = dump[e]
         /\ dump'[d].at \notin {"read", "returned"}
         /\ DumpType(d)'
<1> DEFINE rest == Tail(dump[d].pages)
           new == [at |-> IF rest # << >> THEN "registers"
                          ELSE IF f = "yes" THEN "error" ELSE "done",
                   pages |-> rest, mine |-> 0, got |-> << >>, failed |-> f]
<1>1. rest \in Seq(Histories)
  BY PageOf DEF DumpInv, Good
<1>2. DOMAIN dump' = Dumps /\ dump'[d] = new /\ \A e \in Dumps \ {d} : dump'[e] = dump[e]
  BY DEF NextPage, DumpInv
<1>3. << >> \in Seq(Captures)
  OBVIOUS
<1>4. new \in DumpRecord
  BY <1>1, <1>3 DEF DumpRecord
<1>5. /\ new.at \in {"done", "error"} <=> new.pages = << >>
      /\ new.at \notin {"read", "returned"} /\ new.got = << >>
  OBVIOUS
<1> HIDE DEF new
<1> QED BY <1>2, <1>4, <1>5 DEF DumpType

\* A dump that does not move, while the cache does not change.
LEMMA SameDump ==
  ASSUME NEW e \in Dumps, Good(e), dump'[e] = dump[e], cache' = cache,
         e \in recaptured' <=> e \in recaptured
  PROVE  Good(e)'
<1>1. DumpType(e)'
  BY DEF Good, DumpType
<1>2. Page(e)' = Page(e)
  BY DEF Page
<1>3. Own(e)' /\ Held(e)'
  BY <1>2 DEF Good, Own, Held
<1> QED BY <1>1, <1>3 DEF Good

\* A dump that holds nothing.
LEMMA Empty ==
  ASSUME NEW d \in Dumps, DumpType(d)', dump'[d].at \notin {"read", "returned"}
  PROVE  Good(d)'
  BY DEF Good, Own, Held

\* A capture is newer than all others; of the other dumps, those that were reading
\* the same page are marked.
LEMMA FillStep ==
  ASSUME DumpInv, NEW d \in Dumps, dump[d].at \notin {"done", "error"}, FillCache(d),
         NEW e \in Dumps \ {d}, dump'[e] = dump[e]
  PROVE  Good(e)'
<1>1. cache.id \in Nat /\ cache'.id = cache.id + 1 /\ cache'.of = Page(d)
  BY DEF DumpInv, CacheType, Captures, FillCache
<1>2. /\ e \in recaptured => e \in recaptured'
      /\ dump[e].at = "read" /\ Page(e) = Page(d) => e \in recaptured'
  BY DEF FillCache
<1>3. Good(e)
  BY DEF DumpInv
<1>4. DumpType(e)'
  BY <1>3 DEF Good, DumpType
<1>5. Page(e)' = Page(e)
  BY DEF Page
<1>6. dump[e].mine \in Nat
  BY <1>3 DEF Good, DumpType, DumpRecord
<1>7. Own(e)'
  BY <1>1, <1>2, <1>3, <1>5, <1>6 DEF Good, Own
<1>8. Held(e)'
  BY <1>1, <1>2, <1>3, <1>5 DEF Good, Held
<1> QED BY <1>4, <1>7, <1>8 DEF Good

\* The cache after a capture.
LEMMA FillType ==
  ASSUME DumpInv, NEW d \in Dumps, dump[d].at \notin {"done", "error"}, FillCache(d)
  PROVE  CacheType' /\ recaptured' \subseteq Dumps
<1>1. Page(d) \in Histories
  BY PageOf DEF DumpInv, Good
<1>2. cache.id \in Nat /\ cache' = [id |-> cache.id + 1, of |-> Page(d)]
  BY DEF DumpInv, CacheType, Captures, FillCache
<1>3. CacheType'
  BY <1>1, <1>2 DEF CacheType, Captures
<1>4. recaptured' \subseteq Dumps
  BY DEF DumpInv, FillCache
<1> QED BY <1>3, <1>4

-----------------------------------------------------------------------------
\* A dump gives a page up with the cache as it was.
LEMMA GiveUp ==
  ASSUME DumpInv, NEW d \in Dumps, NEW f \in {"yes", "no"},
         dump[d].at \notin {"done", "error"}, NextPage(d, f),
         cache' = cache, recaptured' = recaptured
  PROVE  DumpInv'
<1>1. /\ DOMAIN dump' = Dumps
      /\ \A e \in Dumps \ {d} : dump'[e] = dump[e]
      /\ dump'[d].at \notin {"read", "returned"} /\ DumpType(d)'
  BY NextPageStep
<1>2. Good(d)'
  BY <1>1, Empty
<1>3. ASSUME NEW e \in Dumps \ {d} PROVE Good(e)'
  BY <1>1, SameDump DEF DumpInv
<1>4. CacheType' /\ recaptured' \subseteq Dumps
  BY DEF DumpInv, CacheType
<1> QED BY <1>1, <1>2, <1>3, <1>4 DEF DumpInv

LEMMA ReadRegistersStep == ASSUME DumpInv, NEW d \in Dumps, ReadRegisters(d) PROVE DumpInv'
<1>1. cache' = cache /\ recaptured' = recaptured
  BY DEF ReadRegisters, ghosts
<1>2. dump[d] \in DumpRecord /\ dump[d].at = "registers" /\ DumpType(d)
  BY DEF ReadRegisters, DumpInv, Good, DumpType
<1>3. /\ DOMAIN dump' = Dumps
      /\ \A e \in Dumps \ {d} : dump'[e] = dump[e]
      /\ \/ dump'[d] = [dump[d] EXCEPT !.at = "capture"]
         \/ dump'[d] = [dump[d] EXCEPT !.at = "capture", !.failed = "yes"]
  BY DEF ReadRegisters, DumpInv
<1>4. /\ dump'[d] \in DumpRecord /\ dump'[d].at = "capture"
      /\ dump'[d].pages = dump[d].pages /\ dump'[d].got = dump[d].got
  BY <1>2, <1>3 DEF DumpRecord
<1>5. DumpType(d)'
  BY <1>2, <1>4 DEF DumpType
<1>6. Good(d)'
  BY <1>4, <1>5, Empty
<1>7. ASSUME NEW e \in Dumps \ {d} PROVE Good(e)'
  BY <1>1, <1>3, SameDump DEF DumpInv
<1>8. CacheType' /\ recaptured' \subseteq Dumps
  BY <1>1 DEF DumpInv, CacheType
<1> QED BY <1>3, <1>6, <1>7, <1>8 DEF DumpInv

LEMMA CaptureStep == ASSUME DumpInv, NEW d \in Dumps, Capture(d) PROVE DumpInv'
<1>1. dump[d] \in DumpRecord /\ dump[d].at = "capture" /\ DumpType(d) /\ FillCache(d)
  BY DEF Capture, DumpInv, Good, DumpType
<1>2. /\ DOMAIN dump' = Dumps
      /\ \A e \in Dumps \ {d} : dump'[e] = dump[e]
      /\ dump'[d] = [dump[d] EXCEPT !.at = "read", !.mine = cache.id + 1]
  BY DEF Capture, DumpInv
<1>3. cache.id \in Nat /\ cache'.id = cache.id + 1 /\ cache'.of = Page(d)
  BY <1>1 DEF DumpInv, CacheType, Captures, FillCache
<1>4. /\ dump'[d] \in DumpRecord /\ dump'[d].at = "read" /\ dump'[d].mine = cache'.id
      /\ dump'[d].pages = dump[d].pages /\ dump'[d].got = << >>
  <2>1. dump[d].got = << >>
    BY <1>1 DEF DumpType
  <2>2. cache.id + 1 \in Nat
    BY <1>3
  <2>3. dump'[d] \in DumpRecord
    BY <1>1, <1>2, <2>2 DEF DumpRecord
  <2> QED BY <1>1, <1>2, <1>3, <2>1, <2>3 DEF DumpRecord
<1>5. DumpType(d)'
  BY <1>1, <1>4, SnapshotsAssumption DEF DumpType
<1>6. Own(d)' /\ Held(d)'
  BY <1>3, <1>4 DEF Own, Held
<1>7. ASSUME NEW e \in Dumps \ {d} PROVE Good(e)'
  BY <1>1, <1>2, FillStep
<1>8. CacheType' /\ recaptured' \subseteq Dumps
  BY <1>1, FillType
<1> QED BY <1>2, <1>5, <1>6, <1>7, <1>8 DEF DumpInv, Good

LEMMA CaptureFailsStep == ASSUME DumpInv, NEW d \in Dumps, CaptureFails(d) PROVE DumpInv'
<1>1. dump[d].at \notin {"done", "error"} /\ NextPage(d, "yes")
  BY DEF CaptureFails
<1>2. CASE UNCHANGED <<cache, recaptured>>
  BY <1>1, <1>2, GiveUp
<1>3. CASE FillCache(d)
  <2>1. /\ DOMAIN dump' = Dumps
        /\ \A e \in Dumps \ {d} : dump'[e] = dump[e]
        /\ dump'[d].at \notin {"read", "returned"} /\ DumpType(d)'
    BY <1>1, NextPageStep
  <2>2. Good(d)'
    BY <2>1, Empty
  <2>3. ASSUME NEW e \in Dumps \ {d} PROVE Good(e)'
    BY <1>1, <1>3, <2>1, FillStep
  <2>4. CacheType' /\ recaptured' \subseteq Dumps
    BY <1>1, <1>3, FillType
  <2> QED BY <2>1, <2>2, <2>3, <2>4 DEF DumpInv
<1> QED BY <1>2, <1>3 DEF CaptureFails

\* A chunk that is read is of the caller's page; it is the caller's own capture unless
\* the caller is marked.
LEMMA ReadChunkStep == ASSUME DumpInv, NEW d \in Dumps, ReadChunk(d) PROVE DumpInv'
<1>1. cache' = cache /\ recaptured' = recaptured /\ dump[d].at = "read" /\ Good(d)
  BY DEF ReadChunk, ghosts, DumpInv
<1>2. CASE cache.of # Page(d)
  BY <1>1, <1>2, GiveUp DEF ReadChunk
<1>3. CASE cache.of = Page(d)
  <2> DEFINE old == dump[d].got
             new == Append(old, cache)
             at == IF Len(old) + 1 = NChunks THEN "returned" ELSE "read"
  <2>1. dump[d] \in DumpRecord /\ old \in Seq(Captures) /\ Len(old) < NChunks
        /\ cache \in Captures /\ dump[d].mine \in Nat
    BY <1>1 DEF Good, DumpType, DumpRecord, DumpInv, CacheType
  <2>2. /\ DOMAIN dump' = Dumps
        /\ \A e \in Dumps \ {d} : dump'[e] = dump[e]
        /\ dump'[d] = [dump[d] EXCEPT !.got = new, !.at = at]
    BY <1>1, <1>3 DEF ReadChunk, DumpInv
  <2>3. /\ new \in Seq(Captures) /\ Len(new) = Len(old) + 1
        /\ \A i \in 1..Len(old) : new[i] = old[i]
        /\ new[Len(old) + 1] = cache
        /\ Len(old) \in Nat
    BY <2>1
  <2> HIDE DEF new, old
  <2>4. /\ dump'[d] \in DumpRecord /\ dump'[d].at = at /\ dump'[d].got = new
        /\ dump'[d].pages = dump[d].pages /\ dump'[d].mine = dump[d].mine
    BY <2>1, <2>2, <2>3 DEF DumpRecord
  <2>5. Page(d)' = Page(d)
    BY <2>4 DEF Page
  <2>6. DumpType(d)'
    <3>1. dump[d].pages # << >>
      BY <1>1 DEF Good, DumpType
    <3> QED BY <2>1, <2>3, <2>4, <3>1, SnapshotsAssumption DEF DumpType
  <2>7. /\ dump[d].mine <= cache.id
        /\ \A i \in 1..Len(old) :
             /\ old[i].of = Page(d) /\ old[i].id >= dump[d].mine
             /\ old[i].id = dump[d].mine \/ d \in recaptured
        /\ cache.id = dump[d].mine \/ d \in recaptured
    BY <1>1, <1>3 DEF Good, Own, Held, old
  <2>8. ASSUME NEW i \in 1..Len(new)
        PROVE  /\ new[i].of = Page(d) /\ new[i].id >= dump[d].mine
               /\ new[i].id = dump[d].mine \/ d \in recaptured
    <3>1. CASE i = Len(old) + 1
      BY <1>3, <2>1, <2>3, <2>7, <3>1 DEF Captures
    <3>2. CASE i \in 1..Len(old)
      BY <2>3, <2>7, <3>2
    <3> QED BY <2>3, <3>1, <3>2
  <2>9. Own(d)'
    BY <1>1, <2>4, <2>5, <2>7, <2>8 DEF Own
  <2>10. Held(d)'
    BY <1>1, <2>4, <2>5, <2>7 DEF Held
  <2>11. ASSUME NEW e \in Dumps \ {d} PROVE Good(e)'
    BY <1>1, <2>2, SameDump DEF DumpInv
  <2>12. CacheType' /\ recaptured' \subseteq Dumps
    BY <1>1 DEF DumpInv, CacheType
  <2> QED BY <2>2, <2>6, <2>9, <2>10, <2>11, <2>12 DEF DumpInv, Good
<1> QED BY <1>2, <1>3

\* Steps of the board and of the resets.
LEMMA OthersStep == ASSUME DumpInv, UNCHANGED <<cache, dump, recaptured>> PROVE DumpInv'
<1>1. ASSUME NEW d \in Dumps PROVE Good(d)'
  BY SameDump DEF DumpInv
<1> QED BY <1>1 DEF DumpInv, CacheType

LEMMA DumpInvInit == Init => DumpInv
<1> SUFFICES ASSUME Init PROVE DumpInv
  OBVIOUS
<1>1. CacheType
  BY DEF Init, CacheType, Captures, NoCapture
<1>2. DOMAIN dump = Dumps /\ recaptured = {}
  BY DEF Init
<1>3. ASSUME NEW d \in Dumps PROVE Good(d)
  <2>1. PICK plan \in DumpPlans :
          dump[d] = [at |-> "registers", pages |-> plan, mine |-> 0, got |-> << >>,
                     failed |-> "no"]
    BY DEF Init
  <2>2. plan \in Seq(Histories) /\ plan # << >>
    BY SnapshotsAssumption
  <2>3. << >> \in Seq(Captures)
    OBVIOUS
  <2>4. dump[d] \in DumpRecord
    BY <2>1, <2>2, <2>3 DEF DumpRecord
  <2> QED BY <2>1, <2>2, <2>4 DEF Good, DumpType, Own, Held
<1> QED BY <1>1, <1>2, <1>3 DEF DumpInv

\* The inductive step, action by action.
LEMMA DumpInvStep == DumpInv /\ [Next]_vars => DumpInv'
<1> SUFFICES ASSUME DumpInv, [Next]_vars PROVE DumpInv'
  OBVIOUS
<1>1. CASE Switch \/ StoreRecord \/ UNCHANGED vars
  BY <1>1, OthersStep DEF Switch, StoreRecord, vars, ghosts
<1>2. ASSUME NEW d \in Dumps, ReadRegisters(d) PROVE DumpInv'
  BY <1>2, ReadRegistersStep
<1>3. ASSUME NEW d \in Dumps, Capture(d) PROVE DumpInv'
  BY <1>3, CaptureStep
<1>4. ASSUME NEW d \in Dumps, CaptureFails(d) PROVE DumpInv'
  BY <1>4, CaptureFailsStep
<1>5. ASSUME NEW d \in Dumps, ReadChunk(d) PROVE DumpInv'
  BY <1>5, ReadChunkStep
<1>6. ASSUME NEW d \in Dumps, ReadChunkFails(d) PROVE DumpInv'
  BY <1>6, GiveUp DEF ReadChunkFails, ghosts
<1>7. ASSUME NEW d \in Dumps, Format(d) PROVE DumpInv'
  <2>1. dump[d].failed \in {"yes", "no"}
    BY DEF DumpInv, Good, DumpType, DumpRecord
  <2> QED BY <1>7, <2>1, GiveUp DEF Format, ghosts
<1>8. ASSUME NEW r \in Resets, FirstLook(r) \/ Confirm(r) \/ WriteCapture(r) PROVE DumpInv'
  BY <1>8, OthersStep DEF FirstLook, Confirm, WriteCapture, ghosts
<1>9. ASSUME NEW r \in Resets, CheckPower(r) \/ WriteErase(r) \/ WriteFails(r) PROVE DumpInv'
  BY <1>9, OthersStep DEF CheckPower, WriteErase, WriteFails, ghosts
<1> QED BY <1>1, <1>2, <1>3, <1>4, <1>5, <1>6, <1>7, <1>8, <1>9 DEF Next

\* What every dump has read is accounted for, at every moment.
THEOREM DumpInvariant == Spec => []DumpInv
<1>1. Init => DumpInv
  BY DumpInvInit
<1>2. DumpInv /\ [Next]_vars => DumpInv'
  BY DumpInvStep
<1> QED BY <1>1, <1>2, PTL DEF Spec

\* A snapshot that read_snapshot returns is of the supply and page asked for, and of the
\* caller's own capture unless another client captured the page meanwhile.
THEOREM SnapshotIsOwn == Spec => []SnapshotIsOwnCapture
<1>1. DumpInv => SnapshotIsOwnCapture
  <2> SUFFICES ASSUME DumpInv, NEW d \in Dumps, dump[d].at = "returned",
                      NEW i \in 1..NChunks
               PROVE  /\ dump[d].got[i].of = Page(d)
                      /\ dump[d].got[i].id >= dump[d].mine
                      /\ dump[d].got[i].id = dump[d].mine \/ d \in recaptured
    BY DEF SnapshotIsOwnCapture
  <2>1. Own(d) /\ Len(dump[d].got) = NChunks
    BY DEF DumpInv, Good, DumpType
  <2> QED BY <2>1 DEF Own
<1> QED BY <1>1, DumpInvariant, PTL

-----------------------------------------------------------------------------
(* The reset: what it has erased of what it was given, and since when the  *)
(* board has been off.                                                     *)

ResetRecord ==
  [at : {"start", "confirm", "check", "capture", "erase", "done", "error"},
   plan : ResetPlans, group : Seq(Supplies), todo : Seq(Seq(Supplies) \ {<< >>}),
   page : Pages, failed : {"yes", "no"}]

ResetType(r) ==
  /\ reset[r] \in ResetRecord
  /\ reset[r].at \notin {"done", "error"} => reset[r].group # << >>
  /\ reset[r].at \in {"start", "confirm", "check"} => reset[r].page = 0
  /\ reset[r].at = "done" =>
       reset[r].group = << >> /\ reset[r].todo = << >> /\ reset[r].failed = "no"

\* The supplies in a sequence of groups; those not yet begun, and those not yet finished.
In(groups) == UNION {ToSet(groups[i]) : i \in DOMAIN groups}
Unchecked(r) ==
  In(reset[r].todo) \cup
    (IF reset[r].at \in {"capture", "erase", "done", "error"} THEN {} ELSE ToSet(reset[r].group))
Left(r) == ToSet(reset[r].group) \cup In(reset[r].todo)

\* A reset that has given nothing up.
Untroubled(r) == reset[r].failed = "no" /\ reset[r].at # "error"

\* While the board is on, every supply that was checked has been on since.
Checked(r) ==
  power = "POWER_ON" =>
    \A s \in PlanSupplies(reset[r].plan) : s \in onSince[r] \/ s \in Unchecked(r)

\* What is finished is erased; so is the first page, while the second is in hand.
Erased(r) ==
  \A s \in PlanSupplies(reset[r].plan) :
    s \in onSince[r] \/ s \in Left(r) \/ \A p \in Pages : history[<<s, p>>] = "erased"

HalfErased(r) ==
  reset[r].at \in {"capture", "erase"} /\ reset[r].page = 1 =>
    \/ Supply(r) \notin PlanSupplies(reset[r].plan)
    \/ Supply(r) \in onSince[r] \/ Supply(r) \in In(reset[r].todo)
    \/ history[<<Supply(r), 0>>] = "erased"

ResetGood(r) == ResetType(r) /\ (Untroubled(r) => Checked(r) /\ Erased(r) /\ HalfErased(r))

ResetInv ==
  /\ power \in {"POWER_OFF", "POWER_ON"}
  /\ history \in [Histories -> {"stored", "erased"}]
  /\ DOMAIN reset = Resets
  /\ onSince \in [Resets -> SUBSET Supplies]
  /\ \A r \in Resets : ResetGood(r)

\* A sequence's elements are its first and those of the rest, one by one or group by group.
LEMMA Split ==
  ASSUME NEW S, NEW s \in Seq(S), s # << >>
  PROVE  /\ Head(s) \in S /\ Tail(s) \in Seq(S)
         /\ ToSet(s) = {Head(s)} \cup ToSet(Tail(s))
         /\ In(s) = ToSet(Head(s)) \cup In(Tail(s))
<1>1. /\ Head(s) = s[1] /\ Head(s) \in S /\ Tail(s) \in Seq(S)
      /\ Len(s) \in Nat \ {0} /\ DOMAIN s = 1..Len(s)
      /\ Len(Tail(s)) = Len(s) - 1 /\ DOMAIN Tail(s) = 1..Len(Tail(s))
      /\ \A i \in 1..Len(Tail(s)) : Tail(s)[i] = s[i + 1]
  OBVIOUS
<1> DEFINE rest == Tail(s)
<1> HIDE DEF rest
<1>2. \A i \in DOMAIN s : i = 1 \/ (i - 1 \in DOMAIN rest /\ rest[i - 1] = s[i])
  BY <1>1 DEF rest
<1>3. \A i \in DOMAIN rest : i + 1 \in DOMAIN s /\ rest[i] = s[i + 1]
  BY <1>1 DEF rest
<1>4. 1 \in DOMAIN s
  BY <1>1
<1>5. ToSet(s) = {s[1]} \cup ToSet(rest)
  BY <1>2, <1>3, <1>4 DEF ToSet
<1>6. In(s) = ToSet(s[1]) \cup In(rest)
  BY <1>2, <1>3, <1>4 DEF In
<1> QED BY <1>1, <1>5, <1>6 DEF rest

LEMMA EmptyIn == In(<< >>) = {} /\ ToSet(<< >>) = {}
  BY DEF In, ToSet

LEMMA PlanIn ==
  ASSUME NEW plan \in ResetPlans PROVE PlanSupplies(plan) \subseteq Supplies
<1>1. plan.groups \in Seq(Seq(Supplies) \ {<< >>})
  BY SnapshotsAssumption
<1>2. ASSUME NEW i \in DOMAIN plan.groups PROVE ToSet(plan.groups[i]) \subseteq Supplies
  BY <1>1, <1>2 DEF ToSet
<1> QED BY <1>2 DEF PlanSupplies

\* A reset that does not move, while nothing it needs is undone.
LEMMA SameReset ==
  ASSUME NEW q \in Resets, ResetGood(q), reset'[q] = reset[q], onSince'[q] = onSince[q],
         power' = power,
         \A s \in Supplies, p \in Pages : history[<<s, p>>] = "erased" => history'[<<s, p>>] = "erased"
  PROVE  ResetGood(q)'
<1>1. ResetType(q)' /\ (Untroubled(q)' <=> Untroubled(q))
  BY DEF ResetGood, ResetType, Untroubled
<1>2. /\ Unchecked(q)' = Unchecked(q) /\ Left(q)' = Left(q) /\ Supply(q)' = Supply(q)
      /\ PlanSupplies(reset[q].plan)' = PlanSupplies(reset[q].plan)
      /\ In(reset[q].todo)' = In(reset[q].todo)
  BY DEF Unchecked, Left, Supply, PlanSupplies, In
<1>3. PlanSupplies(reset[q].plan) \subseteq Supplies
  BY PlanIn DEF ResetGood, ResetType, ResetRecord
<1>4. ASSUME Untroubled(q) PROVE Checked(q)' /\ Erased(q)' /\ HalfErased(q)'
  <2>1. Checked(q)'
    <3> SUFFICES ASSUME power = "POWER_ON", NEW s \in PlanSupplies(reset[q].plan)
                 PROVE  s \in onSince[q] \/ s \in Unchecked(q)
      BY <1>2 DEF Checked
    <3> QED BY <1>4 DEF ResetGood, Checked
  <2>2. Erased(q)'
    BY <1>2, <1>3, <1>4 DEF ResetGood, Erased
  <2>3. HalfErased(q)'
    <3>1. 0 \in Pages
      BY DEF Pages
    <3>2. HalfErased(q)
      BY <1>4 DEF ResetGood
    <3>3. CASE Supply(q) \in PlanSupplies(reset[q].plan)
      BY <1>2, <1>3, <3>1, <3>2, <3>3 DEF HalfErased
    <3>4. CASE Supply(q) \notin PlanSupplies(reset[q].plan)
      BY <1>2, <3>4 DEF HalfErased
    <3> QED BY <3>3, <3>4
  <2> QED BY <2>1, <2>2, <2>3
<1> QED BY <1>1, <1>4 DEF ResetGood

\* Going on to the next group leaves nothing of the old one.
LEMMA NextGroupStep ==
  ASSUME ResetInv, NEW r \in Resets, NEW f \in {"yes", "no"}, NextGroup(r, f)
  PROVE  /\ DOMAIN reset' = Resets
         /\ \A q \in Resets \ {r} : reset'[q] = reset[q]
         /\ ResetType(r)'
         /\ reset'[r].plan = reset[r].plan /\ reset'[r].failed = f
         /\ reset'[r].at \in {"check", "done", "error"}
         /\ reset'[r].at # "check" => reset[r].todo = << >>
         /\ Left(r)' = In(reset[r].todo) /\ Unchecked(r)' = In(reset[r].todo)
<1> DEFINE rest == reset[r].todo
           at == IF rest # << >> THEN "check" ELSE IF f = "yes" THEN "error" ELSE "done"
           group == IF rest = << >> THEN << >> ELSE Head(rest)
           todo == IF rest = << >> THEN << >> ELSE Tail(rest)
<1>1. reset[r] \in ResetRecord /\ rest \in Seq(Seq(Supplies) \ {<< >>})
  BY DEF ResetInv, ResetGood, ResetType, ResetRecord
<1>2. /\ group \in Seq(Supplies) /\ todo \in Seq(Seq(Supplies) \ {<< >>})
      /\ rest # << >> => group # << >>
      /\ ToSet(group) \cup In(todo) = In(rest)
      /\ rest = << >> => In(rest) = {} /\ In(todo) = {}
  <2>1. CASE rest = << >>
    BY <2>1, EmptyIn
  <2>2. CASE rest # << >>
    BY <1>1, <2>2, Split
  <2> QED BY <2>1, <2>2
<1>3. /\ DOMAIN reset' = Resets
      /\ \A q \in Resets \ {r} : reset'[q] = reset[q]
      /\ reset'[r] = [reset[r] EXCEPT !.at = at, !.group = group, !.todo = todo,
                                      !.page = 0, !.failed = f]
  BY DEF NextGroup, ResetInv
<1>4. /\ at \in {"check", "done", "error"} /\ (at = "check" <=> rest # << >>)
      /\ (at = "done" => f = "no" /\ group = << >> /\ todo = << >>)
  OBVIOUS
<1> HIDE DEF rest, at, group, todo
<1>5. /\ reset'[r] \in ResetRecord
      /\ reset'[r].at = at /\ reset'[r].group = group /\ reset'[r].todo = todo
      /\ reset'[r].page = 0 /\ reset'[r].failed = f /\ reset'[r].plan = reset[r].plan
  <2>1. 0 \in Pages
    BY DEF Pages
  <2>2. at \in {"start", "confirm", "check", "capture", "erase", "done", "error"}
    BY <1>4
  <2> QED BY <1>1, <1>2, <1>3, <2>1, <2>2 DEF ResetRecord
<1>6. ResetType(r)'
  BY <1>2, <1>4, <1>5 DEF ResetType
<1>7. Left(r)' = In(rest)
  BY <1>2, <1>5 DEF Left, In
<1>8. Unchecked(r)' = In(rest)
  <2>1. In(reset[r].todo)' = In(todo)
    BY <1>5 DEF In
  <2>2. CASE at = "check"
    BY <1>2, <1>5, <2>1, <2>2 DEF Unchecked
  <2>3. CASE at # "check"
    BY <1>2, <1>4, <1>5, <2>1, <2>3 DEF Unchecked
  <2> QED BY <2>2, <2>3
<1> QED BY <1>3, <1>4, <1>5, <1>6, <1>7, <1>8 DEF rest

\* A step of one reset: what is left to show is that it is good afterwards.
LEMMA OwnStep ==
  ASSUME ResetInv, NEW r \in Resets, ResetGood(r)', power' = power,
         history' \in [Histories -> {"stored", "erased"}],
         \A s \in Supplies, p \in Pages : history[<<s, p>>] = "erased" => history'[<<s, p>>] = "erased",
         DOMAIN reset' = Resets, \A q \in Resets \ {r} : reset'[q] = reset[q],
         onSince' \in [Resets -> SUBSET Supplies],
         \A q \in Resets \ {r} : onSince'[q] = onSince[q]
  PROVE  ResetInv'
<1>1. ASSUME NEW q \in Resets \ {r} PROVE ResetGood(q)'
  <2>1. ResetGood(q) /\ reset'[q] = reset[q] /\ onSince'[q] = onSince[q]
    BY DEF ResetInv
  <2> QED BY <2>1, SameReset
<1>2. power' \in {"POWER_OFF", "POWER_ON"}
  BY DEF ResetInv
<1> QED BY <1>1, <1>2 DEF ResetInv

\* A group that is given up: nothing more is claimed of this reset.
LEMMA GroupGivenUp ==
  ASSUME ResetInv, NEW r \in Resets, NextGroup(r, "yes"), power' = power, onSince' = onSince,
         history' \in [Histories -> {"stored", "erased"}],
         \A s \in Supplies, p \in Pages : history[<<s, p>>] = "erased" => history'[<<s, p>>] = "erased"
  PROVE  ResetInv'
<1>1. /\ DOMAIN reset' = Resets /\ \A q \in Resets \ {r} : reset'[q] = reset[q]
      /\ ResetType(r)' /\ reset'[r].failed = "yes"
  BY NextGroupStep
<1>2. ResetGood(r)'
  BY <1>1 DEF ResetGood, Untroubled
<1>3. onSince' \in [Resets -> SUBSET Supplies]
  BY DEF ResetInv
<1> QED BY <1>1, <1>2, <1>3, OwnStep

\* Before the power is checked on a supply's behalf.
LEMMA EarlyStep ==
  ASSUME ResetInv, NEW r \in Resets, NEW a \in {"confirm", "check", "error"},
         reset[r].at \in {"start", "confirm"},
         reset' = [reset EXCEPT ![r].at = a], UNCHANGED <<power, history, onSince>>
  PROVE  ResetInv'
<1>1. ResetGood(r) /\ reset[r] \in ResetRecord /\ DOMAIN reset = Resets
  BY DEF ResetInv, ResetGood, ResetType
<1>2. /\ DOMAIN reset' = Resets /\ \A q \in Resets \ {r} : reset'[q] = reset[q]
      /\ reset'[r] = [reset[r] EXCEPT !.at = a]
  BY <1>1
<1>3. /\ reset'[r] \in ResetRecord /\ reset'[r].at = a
      /\ reset'[r].group = reset[r].group /\ reset'[r].todo = reset[r].todo
      /\ reset'[r].plan = reset[r].plan /\ reset'[r].failed = reset[r].failed
      /\ reset'[r].page = reset[r].page
  BY <1>1, <1>2 DEF ResetRecord
<1>4. ResetType(r)'
  BY <1>1, <1>3 DEF ResetGood, ResetType
<1>5. ASSUME a # "error" PROVE Unchecked(r)' = Unchecked(r)
  BY <1>3, <1>5 DEF Unchecked, In
<1>6. Left(r)' = Left(r)
  BY <1>3 DEF Left, In
<1>7. ASSUME Untroubled(r)' PROVE Checked(r)' /\ Erased(r)' /\ HalfErased(r)'
  <2>1. a # "error" /\ Untroubled(r)
    BY <1>3, <1>7 DEF Untroubled
  <2>2. Checked(r)'
    BY <1>1, <1>3, <1>5, <2>1 DEF ResetGood, Checked
  <2>3. Erased(r)'
    BY <1>1, <1>3, <1>6, <2>1 DEF ResetGood, Erased
  <2>4. HalfErased(r)'
    BY <1>3 DEF HalfErased
  <2> QED BY <2>2, <2>3, <2>4
<1>8. ResetGood(r)'
  BY <1>4, <1>7 DEF ResetGood
<1>9. history' \in [Histories -> {"stored", "erased"}] /\ onSince' \in [Resets -> SUBSET Supplies]
  BY DEF ResetInv
<1> QED BY <1>2, <1>8, <1>9, OwnStep

LEMMA FirstLookStep == ASSUME ResetInv, NEW r \in Resets, FirstLook(r) PROVE ResetInv'
<1>1. /\ reset[r].at = "start" /\ UNCHANGED <<power, history, onSince>>
      /\ \/ reset' = [reset EXCEPT ![r].at = "confirm"]
         \/ reset' = [reset EXCEPT ![r].at = "error"]
  BY DEF FirstLook, board, ghosts
<1> QED BY <1>1, EarlyStep

LEMMA ConfirmStep == ASSUME ResetInv, NEW r \in Resets, Confirm(r) PROVE ResetInv'
<1>1. /\ reset[r].at = "confirm" /\ UNCHANGED <<power, history, onSince>>
      /\ \E yes \in {"check", "error"} : reset' = [reset EXCEPT ![r].at = yes]
  BY DEF Confirm, board, ghosts
<1> QED BY <1>1, EarlyStep

\* The board is seen off: from here on the group counts as checked.
LEMMA CheckPowerStep == ASSUME ResetInv, NEW r \in Resets, CheckPower(r) PROVE ResetInv'
<1>1. /\ reset[r].at = "check" /\ power' = power /\ history' = history
      /\ history \in [Histories -> {"stored", "erased"}]
  BY DEF CheckPower, board, ResetInv
<1>2. CASE NextGroup(r, "yes") /\ UNCHANGED onSince
  BY <1>1, <1>2, GroupGivenUp
<1>3. CASE /\ power = "POWER_OFF"
           /\ reset' = [reset EXCEPT ![r].at = "capture"]
           /\ onSince' = [onSince EXCEPT ![r] = @ \ ToSet(reset[r].group)]
  <2>1. ResetGood(r) /\ reset[r] \in ResetRecord
    BY DEF ResetInv, ResetGood, ResetType
  <2>2. /\ DOMAIN reset' = Resets /\ \A q \in Resets \ {r} : reset'[q] = reset[q]
        /\ reset'[r] = [reset[r] EXCEPT !.at = "capture"]
        /\ onSince' \in [Resets -> SUBSET Supplies]
        /\ \A q \in Resets \ {r} : onSince'[q] = onSince[q]
        /\ onSince'[r] = onSince[r] \ ToSet(reset[r].group)
    BY <1>3 DEF ResetInv
  <2>3. /\ reset'[r] \in ResetRecord /\ reset'[r].at = "capture"
        /\ reset'[r].group = reset[r].group /\ reset'[r].todo = reset[r].todo
        /\ reset'[r].plan = reset[r].plan /\ reset'[r].failed = reset[r].failed
        /\ reset'[r].page = reset[r].page
    BY <2>1, <2>2 DEF ResetRecord
  <2>4. ResetType(r)' /\ reset'[r].page = 0
    BY <1>1, <2>1, <2>3 DEF ResetGood, ResetType
  <2>5. Left(r)' = Left(r) /\ ToSet(reset[r].group) \subseteq Left(r)
    BY <2>3 DEF Left, In
  <2>6. ASSUME Untroubled(r)' PROVE Checked(r)' /\ Erased(r)' /\ HalfErased(r)'
    <3>1. Untroubled(r)
      BY <1>1, <2>3, <2>6 DEF Untroubled
    <3>2. Checked(r)'
      BY <1>1, <1>3 DEF Checked
    <3>3. Erased(r)'
      BY <1>1, <2>1, <2>2, <2>3, <2>5, <3>1 DEF ResetGood, Erased
    <3>4. HalfErased(r)'
      BY <2>4 DEF HalfErased
    <3> QED BY <3>2, <3>3, <3>4
  <2>7. ResetGood(r)'
    BY <2>4, <2>6 DEF ResetGood
  <2> QED BY <1>1, <2>2, <2>7, OwnStep
<1> QED BY <1>2, <1>3 DEF CheckPower

LEMMA WriteCaptureStep == ASSUME ResetInv, NEW r \in Resets, WriteCapture(r) PROVE ResetInv'
<1>1. /\ reset[r].at = "capture" /\ UNCHANGED <<power, history, onSince>>
      /\ reset' = [reset EXCEPT ![r].at = "erase"]
  BY DEF WriteCapture, board, ghosts
<1>2. ResetGood(r) /\ reset[r] \in ResetRecord
  BY DEF ResetInv, ResetGood, ResetType
<1>3. /\ DOMAIN reset' = Resets /\ \A q \in Resets \ {r} : reset'[q] = reset[q]
      /\ reset'[r] = [reset[r] EXCEPT !.at = "erase"]
  BY <1>1 DEF ResetInv
<1>4. /\ reset'[r] \in ResetRecord /\ reset'[r].at = "erase"
      /\ reset'[r].group = reset[r].group /\ reset'[r].todo = reset[r].todo
      /\ reset'[r].plan = reset[r].plan /\ reset'[r].failed = reset[r].failed
      /\ reset'[r].page = reset[r].page
  BY <1>2, <1>3 DEF ResetRecord
<1>5. ResetType(r)'
  BY <1>1, <1>2, <1>4 DEF ResetGood, ResetType
<1>6. /\ Left(r)' = Left(r) /\ Unchecked(r)' = Unchecked(r) /\ Supply(r)' = Supply(r)
      /\ (Untroubled(r)' <=> Untroubled(r))
  BY <1>1, <1>4 DEF Left, Unchecked, In, Supply, Untroubled
<1>7. ASSUME Untroubled(r) PROVE Checked(r)' /\ Erased(r)' /\ HalfErased(r)'
  <2>1. Checked(r)'
    BY <1>1, <1>2, <1>4, <1>6, <1>7 DEF ResetGood, Checked
  <2>2. Erased(r)'
    BY <1>1, <1>2, <1>4, <1>6, <1>7 DEF ResetGood, Erased
  <2>3. HalfErased(r)'
    BY <1>1, <1>2, <1>4, <1>6, <1>7 DEF ResetGood, HalfErased, In
  <2> QED BY <2>1, <2>2, <2>3
<1>8. ResetGood(r)'
  BY <1>5, <1>6, <1>7 DEF ResetGood
<1>9. history' \in [Histories -> {"stored", "erased"}] /\ onSince' \in [Resets -> SUBSET Supplies]
  BY <1>1 DEF ResetInv
<1> QED BY <1>1, <1>3, <1>8, <1>9, OwnStep

\* What the erase command does to the page in hand, and to no other.
LEMMA EraseEffect ==
  ASSUME ResetInv, NEW r \in Resets, reset[r].at = "erase", Erase(r)
  PROVE  /\ history' \in [Histories -> {"stored", "erased"}]
         /\ \A s \in Supplies, p \in Pages :
              history[<<s, p>>] = "erased" => history'[<<s, p>>] = "erased"
         /\ power = "POWER_OFF" => history'[<<Supply(r), reset[r].page>>] = "erased"
<1>1. /\ reset[r].group \in Seq(Supplies) /\ reset[r].group # << >> /\ reset[r].page \in Pages
  BY DEF ResetInv, ResetGood, ResetType, ResetRecord
<1>2. Supply(r) \in Supplies
  BY <1>1 DEF Supply
<1>3. <<Supply(r), reset[r].page>> \in Histories
  BY <1>1, <1>2 DEF Histories
<1>4. \A s \in Supplies, p \in Pages : <<s, p>> \in Histories
  BY DEF Histories
<1> QED BY <1>3, <1>4 DEF Erase, ResetInv

LEMMA WriteFailsStep == ASSUME ResetInv, NEW r \in Resets, WriteFails(r) PROVE ResetInv'
<1>1. NextGroup(r, "yes") /\ power' = power /\ onSince' = onSince
  BY DEF WriteFails, ghosts
<1>2. CASE UNCHANGED history
  BY <1>1, <1>2, GroupGivenUp DEF ResetInv
<1>3. CASE reset[r].at = "erase" /\ Erase(r)
  BY <1>1, <1>3, EraseEffect, GroupGivenUp
<1> QED BY <1>2, <1>3 DEF WriteFails

\* The second page is erased, and with it the supply.
LEMMA SupplyErased ==
  ASSUME ResetInv, NEW r \in Resets, Untroubled(r), reset[r].at = "erase",
         reset[r].page = 1, Erase(r), Supply(r) \in PlanSupplies(reset[r].plan)
  PROVE  \/ Supply(r) \in onSince[r] \/ Supply(r) \in In(reset[r].todo)
         \/ \A p \in Pages : history'[<<Supply(r), p>>] = "erased"
<1>1. Checked(r) /\ HalfErased(r) /\ power \in {"POWER_OFF", "POWER_ON"}
  BY DEF ResetInv, ResetGood
<1>2. CASE power = "POWER_ON"
  BY <1>1, <1>2 DEF Checked, Unchecked
<1>3. CASE power = "POWER_OFF"
  <2>1. history'[<<Supply(r), 1>>] = "erased"
    BY <1>3, EraseEffect
  <2>2. Supply(r) \in Supplies
    BY PlanIn DEF ResetInv, ResetGood, ResetType, ResetRecord
  <2>3. history[<<Supply(r), 0>>] = "erased" => history'[<<Supply(r), 0>>] = "erased"
    <3>1. 0 \in Pages
      BY DEF Pages
    <3> QED BY <2>2, <3>1, EraseEffect
  <2>4. \A p \in Pages : p = 0 \/ p = 1
    BY DEF Pages
  <2> QED BY <1>1, <2>1, <2>3, <2>4 DEF HalfErased
<1> QED BY <1>1, <1>2, <1>3

LEMMA WriteEraseStep == ASSUME ResetInv, NEW r \in Resets, WriteErase(r) PROVE ResetInv'
<1>1. /\ reset[r].at = "erase" /\ Erase(r) /\ AfterErase(r)
      /\ power' = power /\ onSince' = onSince
  BY DEF WriteErase, ghosts
<1>2. /\ history' \in [Histories -> {"stored", "erased"}]
      /\ \A s \in Supplies, p \in Pages :
           history[<<s, p>>] = "erased" => history'[<<s, p>>] = "erased"
      /\ power = "POWER_OFF" => history'[<<Supply(r), reset[r].page>>] = "erased"
  BY <1>1, EraseEffect
<1>3. /\ ResetGood(r) /\ reset[r] \in ResetRecord /\ reset[r].group \in Seq(Supplies)
      /\ reset[r].group # << >> /\ PlanSupplies(reset[r].plan) \subseteq Supplies
  BY <1>1, PlanIn DEF ResetInv, ResetGood, ResetType, ResetRecord
<1>4. /\ ToSet(reset[r].group) = {Supply(r)} \cup ToSet(Tail(reset[r].group))
      /\ Tail(reset[r].group) \in Seq(Supplies)
  BY <1>3, Split DEF Supply
<1>5. onSince' \in [Resets -> SUBSET Supplies]
  BY <1>1 DEF ResetInv
<1>6. CASE reset[r].page = 0
  <2>1. /\ DOMAIN reset' = Resets /\ \A q \in Resets \ {r} : reset'[q] = reset[q]
        /\ reset'[r] = [reset[r] EXCEPT !.at = "capture", !.page = 1]
    BY <1>1, <1>6 DEF AfterErase, ResetInv
  <2>2. 1 \in Pages
    BY DEF Pages
  <2>3. /\ reset'[r] \in ResetRecord /\ reset'[r].at = "capture"
        /\ reset'[r].group = reset[r].group /\ reset'[r].todo = reset[r].todo
        /\ reset'[r].plan = reset[r].plan /\ reset'[r].failed = reset[r].failed
    BY <1>3, <2>1, <2>2 DEF ResetRecord
  <2>4. ResetType(r)'
    BY <1>1, <1>3, <2>3 DEF ResetGood, ResetType
  <2>5. /\ Left(r)' = Left(r) /\ Unchecked(r)' = Unchecked(r) /\ Supply(r)' = Supply(r)
        /\ Unchecked(r) = In(reset[r].todo) /\ In(reset[r].todo)' = In(reset[r].todo)
        /\ (Untroubled(r)' => Untroubled(r))
    BY <1>1, <2>3 DEF Left, Unchecked, In, Supply, Untroubled
  <2>6. ASSUME Untroubled(r) PROVE Checked(r)' /\ Erased(r)' /\ HalfErased(r)'
    <3>1. Checked(r) /\ Erased(r) /\ power \in {"POWER_OFF", "POWER_ON"}
      BY <1>3, <2>6 DEF ResetGood, ResetInv
    <3>2. Checked(r)'
      BY <1>1, <2>3, <2>5, <3>1 DEF Checked
    <3>3. Erased(r)'
      BY <1>1, <1>2, <1>3, <2>3, <2>5, <3>1 DEF Erased
    <3>4. HalfErased(r)'
      BY <1>1, <1>2, <1>6, <2>3, <2>5, <3>1 DEF HalfErased, Checked
    <3> QED BY <3>2, <3>3, <3>4
  <2>7. ResetGood(r)'
    BY <2>4, <2>5, <2>6 DEF ResetGood
  <2> QED BY <1>1, <1>2, <1>5, <2>1, <2>7, OwnStep
<1>7. CASE reset[r].page # 0 /\ Len(reset[r].group) > 1
  <2> DEFINE rest == Tail(reset[r].group)
  <2>1. /\ DOMAIN reset' = Resets /\ \A q \in Resets \ {r} : reset'[q] = reset[q]
        /\ reset'[r] = [reset[r] EXCEPT !.at = "capture", !.page = 0, !.group = rest]
    BY <1>1, <1>7 DEF AfterErase, ResetInv
  <2>2. rest # << >> /\ rest \in Seq(Supplies)
    BY <1>3, <1>7
  <2> HIDE DEF rest
  <2>3. 0 \in Pages /\ reset[r].page = 1
    BY <1>3, <1>7 DEF Pages, ResetRecord
  <2>4. /\ reset'[r] \in ResetRecord /\ reset'[r].at = "capture"
        /\ reset'[r].group = rest /\ reset'[r].todo = reset[r].todo
        /\ reset'[r].plan = reset[r].plan /\ reset'[r].failed = reset[r].failed
        /\ reset'[r].page = 0
    BY <1>3, <2>1, <2>2, <2>3 DEF ResetRecord
  <2>5. ResetType(r)'
    BY <1>1, <1>3, <2>2, <2>4 DEF ResetGood, ResetType
  <2>6. /\ Left(r) = {Supply(r)} \cup Left(r)' /\ Unchecked(r)' = Unchecked(r)
        /\ In(reset[r].todo) \subseteq Left(r)'
        /\ (Untroubled(r)' => Untroubled(r))
    BY <1>1, <1>4, <2>4 DEF Left, Unchecked, In, Untroubled, rest
  <2>7. ASSUME Untroubled(r) PROVE Checked(r)' /\ Erased(r)' /\ HalfErased(r)'
    <3>1. Checked(r) /\ Erased(r)
      BY <1>3, <2>7 DEF ResetGood
    <3>2. Checked(r)'
      BY <1>1, <2>4, <2>6, <3>1 DEF Checked
    <3>3. Erased(r)'
      <4> SUFFICES ASSUME NEW s \in PlanSupplies(reset[r].plan),
                          s \notin onSince[r], s \notin Left(r)'
                   PROVE  \A p \in Pages : history'[<<s, p>>] = "erased"
        BY <1>1, <2>4 DEF Erased
      <4>1. CASE s = Supply(r)
        BY <1>1, <2>3, <2>6, <2>7, <4>1, SupplyErased
      <4>2. CASE s # Supply(r)
        BY <1>2, <1>3, <2>6, <3>1, <4>2 DEF Erased
      <4> QED BY <4>1, <4>2
    <3>4. HalfErased(r)'
      BY <2>4 DEF HalfErased
    <3> QED BY <3>2, <3>3, <3>4
  <2>8. ResetGood(r)'
    BY <2>5, <2>6, <2>7 DEF ResetGood
  <2> QED BY <1>1, <1>2, <1>5, <2>1, <2>8, OwnStep
<1>8. CASE reset[r].page # 0 /\ ~(Len(reset[r].group) > 1)
  <2>1. NextGroup(r, reset[r].failed) /\ reset[r].failed \in {"yes", "no"}
    BY <1>1, <1>3, <1>8 DEF AfterErase, ResetRecord
  <2>2. /\ DOMAIN reset' = Resets /\ \A q \in Resets \ {r} : reset'[q] = reset[q]
        /\ ResetType(r)' /\ reset'[r].plan = reset[r].plan
        /\ reset'[r].failed = reset[r].failed
        /\ reset'[r].at \in {"check", "done", "error"}
        /\ Left(r)' = In(reset[r].todo) /\ Unchecked(r)' = In(reset[r].todo)
    BY <2>1, NextGroupStep
  <2>3. reset[r].page = 1
    BY <1>3, <1>8 DEF Pages, ResetRecord
  <2>4. Tail(reset[r].group) = << >>
    BY <1>3, <1>8
  <2>5. Left(r) = {Supply(r)} \cup In(reset[r].todo) /\ Unchecked(r) = In(reset[r].todo)
    BY <1>1, <1>4, <2>4, EmptyIn DEF Left, Unchecked
  <2>6. ASSUME Untroubled(r)' PROVE Checked(r)' /\ Erased(r)' /\ HalfErased(r)'
    <3>1. Untroubled(r)
      BY <1>1, <2>2, <2>6 DEF Untroubled
    <3>2. Checked(r) /\ Erased(r)
      BY <1>3, <3>1 DEF ResetGood
    <3>3. Checked(r)'
      BY <1>1, <2>2, <2>5, <3>2 DEF Checked
    <3>4. Erased(r)'
      <4> SUFFICES ASSUME NEW s \in PlanSupplies(reset[r].plan),
                          s \notin onSince[r], s \notin In(reset[r].todo)
                   PROVE  \A p \in Pages : history'[<<s, p>>] = "erased"
        BY <1>1, <2>2 DEF Erased
      <4>1. CASE s = Supply(r)
        BY <1>1, <2>3, <3>1, <4>1, SupplyErased
      <4>2. CASE s # Supply(r)
        BY <1>2, <1>3, <2>5, <3>2, <4>2 DEF Erased
      <4> QED BY <4>1, <4>2
    <3>5. HalfErased(r)'
      BY <2>2 DEF HalfErased
    <3> QED BY <3>3, <3>4, <3>5
  <2>7. ResetGood(r)'
    BY <2>2, <2>6 DEF ResetGood
  <2> QED BY <1>1, <1>2, <1>5, <2>2, <2>7, OwnStep
<1> QED BY <1>6, <1>7, <1>8

\* Switching the board on voids every check.
LEMMA SwitchStep == ASSUME ResetInv, Switch PROVE ResetInv'
<1>1. /\ power' \in {"POWER_OFF", "POWER_ON"} /\ history' = history /\ reset' = reset
      /\ \/ power' = "POWER_ON" /\ onSince' = [r \in Resets |-> Supplies]
         \/ power' # "POWER_ON" /\ onSince' = onSince
  BY DEF Switch
<1>2. onSince' \in [Resets -> SUBSET Supplies]
  BY <1>1 DEF ResetInv
<1>3. ASSUME NEW r \in Resets PROVE ResetGood(r)'
  <2>1. ResetGood(r) /\ reset[r] \in ResetRecord /\ PlanSupplies(reset[r].plan) \subseteq Supplies
    BY PlanIn DEF ResetInv, ResetGood, ResetType, ResetRecord
  <2>2. /\ ResetType(r)' /\ (Untroubled(r)' <=> Untroubled(r))
        /\ Left(r)' = Left(r) /\ Supply(r)' = Supply(r)
    BY <1>1, <2>1 DEF ResetGood, ResetType, Untroubled, Left, Supply
  <2>3. power' = "POWER_ON" => onSince'[r] = Supplies
    BY <1>1
  <2>4. ASSUME Untroubled(r) PROVE Checked(r)' /\ Erased(r)' /\ HalfErased(r)'
    <3>1. Checked(r)'
      BY <1>1, <2>1, <2>3 DEF Checked
    <3>2. Erased(r)'
      BY <1>1, <2>1, <2>2, <2>3, <2>4 DEF ResetGood, Erased
    <3>3. HalfErased(r)'
      BY <1>1, <2>1, <2>2, <2>3, <2>4 DEF ResetGood, HalfErased
    <3> QED BY <3>1, <3>2, <3>3
  <2> QED BY <2>2, <2>4 DEF ResetGood
<1> QED BY <1>1, <1>2, <1>3 DEF ResetInv

\* A record is stored only while the board is on, and then nothing is claimed erased.
LEMMA StoreRecordStep == ASSUME ResetInv, StoreRecord PROVE ResetInv'
<1>1. /\ power = "POWER_ON" /\ power' = power /\ reset' = reset /\ onSince' = onSince
      /\ history' \in [Histories -> {"stored", "erased"}]
  BY DEF StoreRecord, ghosts, ResetInv
<1>2. ASSUME NEW r \in Resets PROVE ResetGood(r)'
  <2>1. ResetGood(r)
    BY DEF ResetInv
  <2>2. /\ ResetType(r)' /\ (Untroubled(r)' <=> Untroubled(r))
        /\ Left(r)' = Left(r) /\ Supply(r)' = Supply(r) /\ Unchecked(r)' = Unchecked(r)
    BY <1>1, <2>1 DEF ResetGood, ResetType, Untroubled, Left, Supply, Unchecked
  <2>3. /\ Unchecked(r) \subseteq Left(r)
        /\ reset[r].at \in {"capture", "erase"} => Unchecked(r) = In(reset[r].todo)
    BY DEF Unchecked, Left
  <2>4. ASSUME Untroubled(r) PROVE Checked(r)' /\ Erased(r)' /\ HalfErased(r)'
    <3>1. Checked(r)
      BY <2>1, <2>4 DEF ResetGood
    <3>2. Checked(r)'
      BY <1>1, <2>2, <3>1 DEF Checked
    <3>3. Erased(r)'
      BY <1>1, <2>2, <2>3, <3>1 DEF Checked, Erased
    <3>4. HalfErased(r)'
      BY <1>1, <2>2, <2>3, <3>1 DEF Checked, HalfErased
    <3> QED BY <3>2, <3>3, <3>4
  <2> QED BY <2>2, <2>4 DEF ResetGood
<1> QED BY <1>1, <1>2 DEF ResetInv

LEMMA DumpsStep ==
  ASSUME ResetInv, UNCHANGED <<power, history, reset, onSince>> PROVE ResetInv'
<1>1. ASSUME NEW r \in Resets PROVE ResetGood(r)'
  <2>1. ResetGood(r) /\ reset'[r] = reset[r] /\ onSince'[r] = onSince[r] /\ power' = power
        /\ history' = history
    BY DEF ResetInv
  <2> QED BY <2>1, SameReset
<1> QED BY <1>1 DEF ResetInv

LEMMA ResetInvInit == Init => ResetInv
<1> SUFFICES ASSUME Init PROVE ResetInv
  OBVIOUS
<1>1. /\ power \in {"POWER_OFF", "POWER_ON"} /\ DOMAIN reset = Resets
      /\ history \in [Histories -> {"stored", "erased"}]
      /\ onSince = [r \in Resets |-> {}]
  BY DEF Init
<1>2. ASSUME NEW r \in Resets PROVE ResetGood(r)
  <2>1. PICK plan \in ResetPlans :
          reset[r] = [at |-> IF plan.by = "tool" THEN "start" ELSE "check",
                      plan |-> plan, group |-> plan.groups[1],
                      todo |-> Tail(plan.groups), page |-> 0, failed |-> "no"]
    BY DEF Init
  <2>2. plan.groups \in Seq(Seq(Supplies) \ {<< >>}) /\ plan.groups # << >>
    BY SnapshotsAssumption
  <2>3. /\ plan.groups[1] = Head(plan.groups) /\ plan.groups[1] \in Seq(Supplies) \ {<< >>}
        /\ Tail(plan.groups) \in Seq(Seq(Supplies) \ {<< >>})
        /\ In(plan.groups) = ToSet(plan.groups[1]) \cup In(Tail(plan.groups))
    BY <2>2, Split
  <2>4. /\ reset[r].at \in {"start", "check"} /\ reset[r].plan = plan
        /\ reset[r].group = plan.groups[1] /\ reset[r].todo = Tail(plan.groups)
        /\ reset[r].page = 0
    BY <2>1
  <2>5. reset[r] \in ResetRecord
    BY <2>1, <2>3 DEF ResetRecord, Pages
  <2>6. PlanSupplies(reset[r].plan) = In(plan.groups)
    BY <2>4 DEF PlanSupplies, In
  <2>7. ResetType(r)
    BY <2>3, <2>4, <2>5 DEF ResetType
  <2>8. Left(r) = In(plan.groups) /\ Unchecked(r) = In(plan.groups)
    BY <2>3, <2>4 DEF Left, Unchecked
  <2>9. Checked(r) /\ Erased(r) /\ HalfErased(r)
    BY <2>4, <2>6, <2>8 DEF Checked, Erased, HalfErased
  <2> QED BY <2>7, <2>9 DEF ResetGood
<1> QED BY <1>1, <1>2 DEF ResetInv

LEMMA ResetInvStep == ResetInv /\ [Next]_vars => ResetInv'
<1> SUFFICES ASSUME ResetInv, [Next]_vars PROVE ResetInv'
  OBVIOUS
<1>1. CASE Switch
  BY <1>1, SwitchStep
<1>2. CASE StoreRecord
  BY <1>2, StoreRecordStep
<1>3. ASSUME NEW d \in Dumps, ReadRegisters(d) \/ ReadChunk(d) \/ ReadChunkFails(d) \/ Format(d)
      PROVE ResetInv'
  BY <1>3, DumpsStep DEF ReadRegisters, ReadChunk, ReadChunkFails, Format, board, ghosts
<1>4. ASSUME NEW d \in Dumps, Capture(d) \/ CaptureFails(d) PROVE ResetInv'
  BY <1>4, DumpsStep DEF Capture, CaptureFails, board
<1>5. ASSUME NEW r \in Resets, FirstLook(r) PROVE ResetInv'
  BY <1>5, FirstLookStep
<1>6. ASSUME NEW r \in Resets, Confirm(r) PROVE ResetInv'
  BY <1>6, ConfirmStep
<1>7. ASSUME NEW r \in Resets, CheckPower(r) PROVE ResetInv'
  BY <1>7, CheckPowerStep
<1>8. ASSUME NEW r \in Resets, WriteCapture(r) PROVE ResetInv'
  BY <1>8, WriteCaptureStep
<1>9. ASSUME NEW r \in Resets, WriteErase(r) PROVE ResetInv'
  BY <1>9, WriteEraseStep
<1>10. ASSUME NEW r \in Resets, WriteFails(r) PROVE ResetInv'
  BY <1>10, WriteFailsStep
<1>11. CASE UNCHANGED vars
  BY <1>11, DumpsStep DEF vars, board, ghosts
<1> QED BY <1>1, <1>2, <1>3, <1>4, <1>5, <1>6, <1>7, <1>8, <1>9, <1>10, <1>11 DEF Next

\* What every reset has checked and erased is accounted for, at every moment.
THEOREM ResetInvariant == Spec => []ResetInv
<1>1. Init => ResetInv
  BY ResetInvInit
<1>2. ResetInv /\ [Next]_vars => ResetInv'
  BY ResetInvStep
<1> QED BY <1>1, <1>2, PTL DEF Spec

\* A reset that ends with success has erased both pages of every supply it was given,
\* unless the board was on at some moment since the reset last looked for that supply.
THEOREM ResetErases == Spec => []SuccessMeansErased
<1>1. ResetInv => SuccessMeansErased
  <2> SUFFICES ASSUME ResetInv, NEW r \in Resets, reset[r].at = "done",
                      NEW s \in PlanSupplies(reset[r].plan) \ onSince[r], NEW p \in Pages
               PROVE  history[<<s, p>>] = "erased"
    BY DEF SuccessMeansErased
  <2>1. ResetGood(r) /\ reset[r].group = << >> /\ reset[r].todo = << >> /\ Untroubled(r)
    BY DEF ResetInv, ResetGood, ResetType, Untroubled
  <2>2. Left(r) = {}
    BY <2>1, EmptyIn DEF Left
  <2> QED BY <2>1, <2>2 DEF ResetGood, Erased
<1> QED BY <1>1, ResetInvariant, PTL

\* The bounds, which neither half needs.
Bounded ==
  /\ switches \in 0..MaxSwitches /\ faults \in 0..MaxFaults

\* Every variable keeps its type, for any number of dumps, resets, chunks and failures.
THEOREM TypeCorrect == Spec => []TypeOK
<1>1. Init => Bounded
  BY SnapshotsAssumption DEF Init, Bounded
<1>2. Bounded /\ [Next]_vars => Bounded'
  <2> SUFFICES ASSUME Bounded, [Next]_vars PROVE Bounded'
    OBVIOUS
  <2>1. switches' = switches \/ (switches < MaxSwitches /\ switches' = switches + 1)
    BY DEF Next, vars, board, Switch, StoreRecord, ReadRegisters, Capture, CaptureFails,
           ReadChunk, ReadChunkFails, Format, FirstLook, Confirm, CheckPower, WriteCapture,
           WriteErase, WriteFails
  <2>2. faults' = faults \/ (faults < MaxFaults /\ faults' = faults + 1)
    BY DEF Next, vars, Switch, StoreRecord, ReadRegisters, Capture, CaptureFails,
           ReadChunk, ReadChunkFails, Format, FirstLook, Confirm, CheckPower, WriteCapture,
           WriteErase, WriteFails, CanFail
  <2> QED BY <2>1, <2>2, SnapshotsAssumption DEF Bounded
<1>3. DumpInv /\ ResetInv /\ Bounded => TypeOK
  <2> SUFFICES ASSUME DumpInv, ResetInv, Bounded PROVE TypeOK
    OBVIOUS
  <2>1. cache = NoCapture \/ (cache.id \in Nat \ {0} /\ cache.of \in Histories)
    BY DEF DumpInv, CacheType, Captures
  <2>2. ASSUME NEW d \in Dumps
        PROVE  /\ dump[d].at \in {"registers", "capture", "read", "returned", "done", "error"}
               /\ dump[d].at \in {"done", "error"} <=> dump[d].pages = << >>
               /\ Len(dump[d].got) \in 0..NChunks
               /\ dump[d].at = "returned" <=> Len(dump[d].got) = NChunks
               /\ dump[d].failed \in {"yes", "no"}
    <3>1. DumpType(d) /\ dump[d] \in DumpRecord
      BY DEF DumpInv, Good, DumpType
    <3>2. dump[d].got \in Seq(Captures) /\ Len(<< >>) = 0
      BY <3>1 DEF DumpRecord
    <3>3. Len(dump[d].got) \in Nat
      BY <3>2
    <3> QED BY <3>1, <3>2, <3>3, SnapshotsAssumption DEF DumpType, DumpRecord
  <2>3. ASSUME NEW r \in Resets
        PROVE  /\ reset[r].at \in {"start", "confirm", "check", "capture", "erase", "done", "error"}
               /\ reset[r].at \in {"check", "capture", "erase"} => reset[r].group # << >>
               /\ reset[r].page \in Pages
    BY DEF ResetInv, ResetGood, ResetType, ResetRecord
  <2> QED BY <2>1, <2>2, <2>3 DEF TypeOK, DumpInv, ResetInv, Bounded
<1> QED BY <1>1, <1>2, <1>3, DumpInvariant, ResetInvariant, PTL DEF Spec
=============================================================================
