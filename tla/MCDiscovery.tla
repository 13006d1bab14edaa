---------------------------- MODULE MCDiscovery ----------------------------
(* A board source with four openings, of which two look the same and one   *)
(* has a date its adapter cannot read; a feed with a copy of one of them   *)
(* and a posting of its own.                                               *)
EXTENDS Discovery

MCPostings == {"l1", "l2", "l3", "l4", "r1", "r2"}
MCSources == <<"lever", "remoteok">>
MCSourceOf == [p \in MCPostings |-> IF p \in {"r1", "r2"} THEN "remoteok" ELSE "lever"]
MCResemblance == [p \in MCPostings |-> CASE p \in {"l1", "l2", "r1"} -> "engineer"
                                         [] p \in {"l3", "l4"} -> "designer"
                                         [] p = "r2" -> "writer"]
MCBoardSources == {"lever"}
MCThin == {"l1", "r2"}
MCUnreadable == {"l4"}
=============================================================================
