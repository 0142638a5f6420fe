----------------------------- MODULE MCSettings -----------------------------
(***************************************************************************)
(* SettingsService on a small instance: the defaults of config.py, an      *)
(* administrator who disables the surge or sends a field that is no        *)
(* number, and one who raises the cap; a new lot of one slot, or a lot of  *)
(* two whose settings have been saved before.                              *)
(***************************************************************************)
EXTENDS SettingsService, TLC

CONSTANTS r1, r2

MCSaves == {r1, r2}
MCDefault == [enabled |-> TRUE, max |-> 200]
MCForms == r1 :> {[enabled |-> FALSE, max |-> 200], [enabled |-> FALSE, max |-> Malformed]}
           @@ r2 :> {[enabled |-> TRUE, max |-> 300]}
MCStarts == {[saved |-> FALSE, rows |-> {1}], [saved |-> TRUE, rows |-> {1, 2}]}

=============================================================================
