---------------------------- MODULE BatchContract ----------------------------
(***************************************************************************)
(* What a lookup batch promises whoever reads it (runner.py, the guarantees*)
(* listed in its module docstring): each requested key gets one final      *)
(* outcome, a publication is stored under one key only, and the batch      *)
(* closes when every key is settled, after which nothing changes.          *)
(***************************************************************************)
CONSTANTS Key, Pub

VARIABLES
  settled,  \* final outcome of each key, "open" until it has one
  holding,  \* publications the batch stores
  closed    \* the batch is complete

vars == <<settled, holding, closed>>

Init ==
  /\ settled = [k \in Key |-> "open"]
  /\ holding = {}
  /\ closed = FALSE

\* The key yields a publication that the batch does not hold yet.
SettleStored(k, p) ==
  /\ ~closed /\ settled[k] = "open" /\ p \notin holding
  /\ settled' = [settled EXCEPT ![k] = "stored"]
  /\ holding' = holding \cup {p}
  /\ UNCHANGED closed

\* The key yields nothing new.
SettleOther(k, o) ==
  /\ ~closed /\ settled[k] = "open"
  /\ o = "duplicate" => holding # {}
  /\ settled' = [settled EXCEPT ![k] = o]
  /\ UNCHANGED <<holding, closed>>

Close ==
  /\ ~closed /\ \A k \in Key : settled[k] # "open"
  /\ closed' = TRUE
  /\ UNCHANGED <<settled, holding>>

Next ==
  \/ \E k \in Key : \/ \E p \in Pub : SettleStored(k, p)
                    \/ \E o \in {"quarantined", "duplicate", "not_found", "invalid_request"} :
                         SettleOther(k, o)
  \/ Close

Spec == Init /\ [][Next]_vars

=============================================================================
