--------------------------- MODULE MCDiscovery ---------------------------
(* A small instance of Discovery for TLC.  The seed leads to 2 and 3, both on topic, and these
   to 4, 5 and 6, of which 6 has two links; 3 leads back to 2, and on to 7 of another office. *)
EXTENDS Discovery, TLC

MCPub == 1..7
MCSeeds == {1}
MCBackward == [q \in MCPub |-> CASE q = 1 -> {1, 2, 3} [] q = 2 -> {1, 5, 6} [] q = 3 -> {2, 4, 7}
                                 [] OTHER -> {}]
MCForward == [q \in MCPub |-> IF q = 3 THEN {6} ELSE {}]
MCVerdict == [q \in MCPub |-> IF q = 4 THEN "undecidable" ELSE "match"]
MCOffice == [q \in MCPub |-> IF q = 7 THEN "JP" ELSE "US"]
MCSettings == {[maxHops |-> 2, cap |-> 2, directions |-> {"backward", "forward"}],
               [maxHops |-> 1, cap |-> 1, directions |-> {"backward"}]}

=============================================================================
