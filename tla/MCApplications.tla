--------------------------- MODULE MCApplications ---------------------------
(* Two tabs, two publishers, one round; two of the seven statuses.         *)
EXTENDS Applications

MCStatuses == {"saved", "applied"}
MCProgressed == {"applied"}
=============================================================================
