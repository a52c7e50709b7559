--------------------------- MODULE MCParentOutbox ---------------------------
(* An instance of ParentOutbox for TLC: one event two consumers want, and one
   whose stored payload is corrupt. *)
EXTENDS ParentOutbox, TLC

CONSTANTS e1, e2, webhook, automation

BothWantFirst == {<<webhook, e1>>, <<automation, e1>>, <<webhook, e2>>}
TwoRetries == <<1, 2>>
=============================================================================
