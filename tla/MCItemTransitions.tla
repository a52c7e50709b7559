-------------------------- MODULE MCItemTransitions --------------------------
(* Instances of ItemTransitions for TLC: an item is started and put back, by a  *)
(* person or after a while by itself; there it is checked with one approval of  *)
(* many, before the start signed by all.                                        *)
EXTENDS ItemTransitions, TLC

CONSTANTS waiting, started, start, back, check, sign

TheFrom == start :> waiting @@ back :> started @@ check :> started @@ sign :> waiting
TheTo == start :> started @@ back :> waiting @@ check :> started @@ sign :> waiting
TheGate == start :> "open" @@ back :> "open" @@ check :> "any" @@ sign :> "all"
TheHop == start :> waiting @@ back :> NoHop @@ check :> NoHop @@ sign :> NoHop
=============================================================================
