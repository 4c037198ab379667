---------------------------- MODULE RoundEscrow ----------------------------
(***************************************************************************)
(* What a round promises the people who pay into it, without DAA scores,   *)
(* templates, batches or transactions: stakes are taken in while it sells; *)
(* then either one stake-holder is awarded the prize or every stake goes   *)
(* back, each exactly once and less a fixed charge, and never both.        *)
(* RoundContract implements this module.                                   *)
(***************************************************************************)
EXTENDS Integers, Sequences

CONSTANTS MaxStakes, PrizeFloor, ReturnCharge

VARIABLES
    status,    \* selling, locked, returning; won, returned or void at the end
    stakes,    \* stakes[i]: what purchase i paid in
    owed,      \* purchases not settled yet
    received   \* received[i]: what the holder of purchase i got back

vars == <<status, stakes, owed, received>>

Init ==
    /\ status = "selling"
    /\ stakes = <<>>
    /\ owed = {}
    /\ received = [i \in 1..MaxStakes |-> 0]

Sell ==
    /\ status = "selling"
    /\ Len(stakes) < MaxStakes
    /\ Len(stakes') = Len(stakes) + 1
    /\ stakes' = Append(stakes, stakes'[Len(stakes) + 1])
    /\ stakes'[Len(stakes) + 1] > ReturnCharge
    /\ owed' = owed \cup {Len(stakes) + 1}
    /\ UNCHANGED <<status, received>>

Void ==
    /\ status = "selling"
    /\ stakes = <<>>
    /\ status' = "void"
    /\ UNCHANGED <<stakes, owed, received>>

Lock ==
    /\ status = "selling"
    /\ stakes # <<>>
    /\ status' = "locked"
    /\ UNCHANGED <<stakes, owed, received>>

GiveUp ==
    /\ status \in {"selling", "locked"}
    /\ stakes # <<>>
    /\ status' = "returning"
    /\ UNCHANGED <<stakes, owed, received>>

Award ==
    /\ status = "locked"
    /\ status' = "won"
    /\ \E winner \in owed :
          /\ received'[winner] >= PrizeFloor
          /\ received' = [received EXCEPT ![winner] = received'[winner]]
    /\ owed' = {}
    /\ UNCHANGED stakes

(* Some of the stakes still owed go back together.                         *)
Return ==
    /\ status = "returning"
    /\ owed' \subseteq owed
    /\ owed' # owed
    /\ received' = [i \in 1..MaxStakes |->
                       IF i \in owed \ owed' THEN stakes[i] - ReturnCharge
                                             ELSE received[i]]
    /\ status' = IF owed' = {} THEN "returned" ELSE "returning"
    /\ UNCHANGED stakes

Next == Sell \/ Void \/ Lock \/ GiveUp \/ Award \/ Return

Spec == Init /\ [][Next]_vars
============================================================================
