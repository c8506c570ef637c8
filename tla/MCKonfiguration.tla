-------------------------- MODULE MCKonfiguration --------------------------
(* Two settings: the pump moves to another pin and the vents swap theirs.  *)
EXTENDS Konfiguration

ZweiEinstellungen ==
    {[zeiten |-> "a", mail |-> "a", pump |-> 1, clean |-> 2, fresh |-> 3],
     [zeiten |-> "b", mail |-> "b", pump |-> 4, clean |-> 3, fresh |-> 2]}

=============================================================================
