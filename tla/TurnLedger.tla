----------------------------- MODULE TurnLedger -----------------------------
(***************************************************************************)
(* What a gateway session promises to training, without chains, buffers or *)
(* reservations: a ledger of the answered model turns and of the trainable *)
(* tokens each has.  Answering a turn enters it; at most one other turn is *)
(* struck out at the same time, because the client replaced it; a turn is  *)
(* also struck out when its replacement turned out not to fit.  Finalizing *)
(* delivers exactly the ledger, each token once.  Aborting delivers        *)
(* nothing.  GatewaySession implements this module.                        *)
(***************************************************************************)
EXTENDS Naturals, FiniteSets

CONSTANT Turns

VARIABLES state,      \* "ACTIVE", "FINALIZED" or "ABORTED"
          answered,   \* the turns whose client got an answer
          ledger,     \* the trainable tokens each turn has
          delivered   \* the trainable tokens finalize returned for each

vars == <<state, answered, ledger, delivered>>

Nothing == [t \in Turns |-> 0]

Init ==
  /\ state = "ACTIVE" /\ answered = {}
  /\ ledger = Nothing /\ delivered = Nothing

Strike(gone) ==
  gone \subseteq {t \in Turns : ledger[t] > 0} /\ Cardinality(gone) <= 1

Answer(t) ==
  /\ state = "ACTIVE" /\ t \notin answered
  /\ answered' = answered \cup {t}
  /\ \E gone \in SUBSET Turns :
       /\ Strike(gone)
       /\ ledger'[t] > 0
       /\ ledger' = [u \in Turns |-> IF u = t THEN ledger'[t]
                                     ELSE IF u \in gone THEN 0 ELSE ledger[u]]
  /\ UNCHANGED <<state, delivered>>

Withdraw ==
  /\ state = "ACTIVE"
  /\ \E gone \in SUBSET Turns :
       /\ Strike(gone)
       /\ ledger' = [u \in Turns |-> IF u \in gone THEN 0 ELSE ledger[u]]
  /\ UNCHANGED <<state, answered, delivered>>

Finalize ==
  /\ state = "ACTIVE" /\ state' = "FINALIZED"
  /\ delivered' = ledger
  /\ UNCHANGED <<answered, ledger>>

Abort ==
  /\ state = "ACTIVE" /\ state' = "ABORTED"
  /\ ledger' = Nothing
  /\ UNCHANGED <<answered, delivered>>

Next == (\E t \in Turns : Answer(t)) \/ Withdraw \/ Finalize \/ Abort

Spec == Init /\ [][Next]_vars
=============================================================================
