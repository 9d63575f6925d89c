---------------------------- MODULE MCFirefly ----------------------------
(* A board with an x12 receiver and an x4 module to change, and a slot of  *)
(* each kind that the tools must leave alone.                              *)
EXTENDS FireflyChannels

Slot1(l, k, f) == [loc |-> l, kind |-> k, family |-> f]
MCSlots == << Slot1("F1_1", "Rx", "25g"), Slot1("F1_2", "Rx", "14g"),
              Slot1("F1_5", "4", "25g"), Slot1("F1_6", "4", "25g") >>
MCPresent == 1..4
MCUser == 1..3

Line(tool, wanted, sides, channels, changes, force) ==
  [tool |-> tool, wanted |-> wanted, sides |-> sides, channels |-> channels,
   changes |-> changes, force |-> force]
All == {"F1_1", "F1_2", "F1_5", "F1_6"}
Set(f, v) == [field |-> f, value |-> v]

\* Channels 9 and 10 share the reserved nibble's byte, 9 and 10 a byte of the second
\* read; 2 and 3 are in the two bytes of an x4.  Code 5 is not an x4 amplitude.
MCRequests ==
  { Line("cdr", All, {"rx"}, {3, 9}, << Set("cdr", 0) >>, "no"),
    Line("cdr", {"F1_1", "F1_5"}, {"tx", "rx"}, {2, 3}, << Set("cdr", 0) >>, "no"),
    Line("eq", {"F1_1"}, {"tx", "rx"}, {4, 9}, << Set("amp", 5) >>, "no"),
    Line("eq", All, {"tx", "rx"}, {3}, << Set("amp", 3), Set("pre", 9) >>, "no"),
    Line("eq", {"F1_1"}, {"tx", "rx"}, {4, 10}, << Set("amp", 2) >>, "yes") }
=============================================================================
