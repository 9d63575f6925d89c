---------------------------- MODULE MCSnapshots ----------------------------
(* Two supplies, two dumps that meet on a page and differ in another, and  *)
(* a reset: by the tool, a supply at a time, or by a script, both at once. *)
EXTENDS Snapshots

Symmetry == Permutations(Dumps)

MCDumpPlans == { << <<"F1", 0>>, <<"F1", 1>> >>, << <<"F1", 0>> >> }
MCResetPlans == { [by |-> "tool", groups |-> << <<"F1">>, <<"F2">> >>],
                  [by |-> "script", groups |-> << <<"F1", "F2">> >>] }
=============================================================================
