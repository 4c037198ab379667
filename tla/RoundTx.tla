------------------------------ MODULE RoundTx ------------------------------
(***************************************************************************)
(* Transactions that spend a round, as the three parties that must agree   *)
(* on them see them: the client that composes one (protocol.ts,            *)
(* builders.ts), the covenant templates that accept it (open.sil,          *)
(* sealed.sil, refunding.sil) and the client that explains an accepted one *)
(* (accepted.ts).  A ledger is the record the templates carry in their     *)
(* script; a snapshot is a state UTXO with its context:                    *)
(*   [ledger, tip, value, utxoDaa, currentDaa, opening]                    *)
(* where `opening` is the sample the draw boundary's block yields, or      *)
(* NoOpening before that block.                                            *)
(***************************************************************************)
EXTENDS Integers, Sequences, FiniteSets, FiniteSetsExt

CONSTANTS
    Owner, Deposit, MinPrice, Finalizer, MaxPayFee, RefundFee, ValueLimit,
    MaxRefundRecords, DrawDelay, TimeoutDelay, DaaLimit, SampleSpace

(* What the literals of the sources satisfy.                               *)
ASSUME MoneyAssumption ==
    /\ {Deposit, MinPrice, Finalizer, MaxPayFee, RefundFee, ValueLimit} \subseteq Nat \ {0}
    /\ Deposit <= ValueLimit

ASSUME BoundAssumption ==
    {MaxRefundRecords, DrawDelay, TimeoutDelay, DaaLimit, SampleSpace} \subseteq Nat \ {0}

Actions == {"BUY", "CLOSE", "DRAW_AND_PAY", "TIMEOUT_REFUND", "REFUND"}
NoOpening == -1
Spendable(amount) == amount > 0 /\ amount <= ValueLimit

---------------------------------------------------------------------------
(* The ledger: state.ts.                                                   *)

NewOpen(config) ==
    [phase |-> "OPEN", config |-> config, sold |-> 0, cursor |-> 0, directory |-> <<>>]

PurchaseCount(s) == Len(s.directory)
EndAt(s, i) == IF i = 0 THEN 0 ELSE s.directory[i].end
CountAt(s, i) == EndAt(s, i) - EndAt(s, i - 1)
PaidTickets(s) == EndAt(s, s.cursor)
ValueOf(s) == Deposit + (s.sold - PaidTickets(s)) * s.config.ticketPrice

AppendPurchase(s, quantity, buyer) ==
    [s EXCEPT !.sold = @ + quantity,
              !.directory = Append(@, [end |-> s.sold + quantity, key |-> buyer])]

CanAppend(s, quantity) ==
    /\ s.phase = "OPEN"
    /\ quantity \in 1..(s.config.ticketCap - s.sold)
    /\ PurchaseCount(s) < s.config.purchaseCap

SoldOut(s) == s.sold = s.config.ticketCap \/ PurchaseCount(s) = s.config.purchaseCap

ClosedPhase(s) == IF s.sold >= s.config.minTickets THEN "SEALED" ELSE "REFUNDING"

RefundBatch(s) ==
    LET remaining == PurchaseCount(s) - s.cursor
        k == IF remaining < MaxRefundRecords THEN remaining ELSE MaxRefundRecords
    IN [k |-> k, last |-> k = remaining,
        pool |-> k * RefundFee + (IF k = remaining THEN RefundFee ELSE 0)]

RefundAmount(s, i) == CountAt(s, i) * s.config.ticketPrice - RefundFee
Prize(s, fee) == s.sold * s.config.ticketPrice - Finalizer - fee

(* Mutants: the remainder of the sample space is not rejected; one value   *)
(* more than 56 bits can hold.                                             *)
LimitWithoutRejection(n) == SampleSpace
SamplesOfOneTooMany == 0..SampleSpace

Samples == 0..(SampleSpace - 1)

Limit(n) == SampleSpace - (SampleSpace % n)

(* Mutant: the hint is checked against the upper end only.                 *)
BelowTheEnd(s, i, ticket) == ticket < EndAt(s, i)

HoldsTicket(s, i, ticket) == EndAt(s, i - 1) <= ticket /\ ticket < EndAt(s, i)

RecordOf(s, ticket) ==
    CHOOSE i \in 1..PurchaseCount(s) :
        ticket < EndAt(s, i) /\ \A j \in 1..(i - 1) : ticket >= EndAt(s, j)

ValidLedger(s) ==
    /\ s.sold \in 0..s.config.ticketCap
    /\ PurchaseCount(s) <= s.config.purchaseCap
    /\ (s.sold = 0) = (PurchaseCount(s) = 0)
    /\ \A i \in 1..PurchaseCount(s) : CountAt(s, i) > 0 /\ EndAt(s, i) <= s.sold
    /\ EndAt(s, PurchaseCount(s)) = s.sold
    /\ IF s.phase = "REFUNDING" THEN s.cursor \in 0..(PurchaseCount(s) - 1) ELSE s.cursor = 0
    /\ s.phase = "SEALED" => s.sold >= s.config.minTickets

(* verifySnapshot: what a client demands before it acts on a state UTXO.   *)
Verified(x) ==
    /\ x.utxoDaa \in 0..(DaaLimit - 1)
    /\ x.currentDaa \in 0..(DaaLimit - 1)
    /\ ValidLedger(x.ledger)
    /\ x.value = ValueOf(x.ledger)

---------------------------------------------------------------------------
(* Outputs: a state output carries a ledger, an ordinary one pays a key.   *)

StateOutput(s) == [value |-> ValueOf(s), state |-> s]
KeyOutput(amount, key) == [value |-> amount, pays |-> key]
IsState(o) == "state" \in DOMAIN o
StateOutputs(tx) == {i \in DOMAIN tx.outputs : IsState(tx.outputs[i])}
TotalOut(tx) == MapThenSumSet(LAMBDA i : tx.outputs[i].value, DOMAIN tx.outputs)

---------------------------------------------------------------------------
(* Composing: protocol.ts transition() and builders.ts buildAction().      *)

AvailableActions(x) ==
    LET s == x.ledger IN
    {a \in Actions :
        \/ a = "BUY" /\ s.phase = "OPEN" /\ ~SoldOut(s)
        \/ a = "CLOSE" /\ s.phase = "OPEN"
             /\ (SoldOut(s) \/ x.currentDaa >= s.config.closeEligibleDaa)
        \/ a = "DRAW_AND_PAY" /\ s.phase = "SEALED" /\ x.currentDaa >= x.utxoDaa + DrawDelay
        \/ a = "TIMEOUT_REFUND" /\ s.phase = "SEALED"
             /\ x.currentDaa >= x.utxoDaa + TimeoutDelay
        \/ a = "REFUND" /\ s.phase = "REFUNDING"}

(* A sealed snapshot outside the timeout's range is refused as a whole.    *)
AnchorChecked(x) ==
    x.ledger.phase = "SEALED" => x.utxoDaa < DaaLimit - TimeoutDelay

(* op = [action, actor, quantity]; the winner of a draw is computed from   *)
(* the snapshot's opening, never given.                                    *)
TransitionAllowed(x, op, fee, external) ==
    LET s == x.ledger IN
    /\ Verified(x) /\ AnchorChecked(x)
    /\ fee \in 1..MaxPayFee
    /\ external \in 0..(ValueLimit - 1)
    /\ op.action \in AvailableActions(x)
    /\ CASE op.action = "BUY" ->
              /\ CanAppend(s, op.quantity)
              /\ external >= op.quantity * s.config.ticketPrice + fee
         [] op.action \in {"CLOSE", "TIMEOUT_REFUND"} -> external >= fee
         [] op.action = "DRAW_AND_PAY" ->
              /\ external = 0
              /\ x.opening # NoOpening
              /\ x.opening < Limit(s.sold)
              /\ Prize(s, fee) >= MinPrice
         [] op.action = "REFUND" -> external + RefundBatch(s).pool > fee

(* The successor ledger, where the action has one.                         *)
NextLedger(s, op) ==
    CASE op.action = "BUY" -> AppendPurchase(s, op.quantity, op.actor)
      [] op.action = "CLOSE" -> [s EXCEPT !.phase = ClosedPhase(s)]
      [] op.action = "TIMEOUT_REFUND" -> [s EXCEPT !.phase = "REFUNDING"]
      [] op.action = "REFUND" -> [s EXCEPT !.cursor = @ + RefundBatch(s).k]
      [] OTHER -> s

HasSuccessor(s, op) ==
    \/ op.action \in {"BUY", "TIMEOUT_REFUND"}
    \/ op.action = "CLOSE" /\ s.sold > 0
    \/ op.action = "REFUND" /\ ~RefundBatch(s).last

(* What an action must bring along: its cost and, unless the escrow pays   *)
(* it, the network fee.  What exceeds it comes back as change.             *)
RequiredExternal(s, op, fee) ==
    fee + (IF op.action = "BUY" THEN op.quantity * s.config.ticketPrice ELSE 0)

Change(s, op, fee, external) ==
    IF op.action \in {"DRAW_AND_PAY", "REFUND"} \/ external = RequiredExternal(s, op, fee)
    THEN <<>>
    ELSE <<KeyOutput(external - RequiredExternal(s, op, fee), op.actor)>>

Payments(x, op, fee, external) ==
    LET s == x.ledger
        b == RefundBatch(s)
        winner == s.directory[RecordOf(s, x.opening % s.sold)].key
        refunds == [i \in 1..b.k |-> KeyOutput(RefundAmount(s, s.cursor + i),
                                               s.directory[s.cursor + i].key)]
    IN CASE op.action = "DRAW_AND_PAY" ->
              << KeyOutput(Prize(s, fee), winner), KeyOutput(Deposit, Owner),
                 KeyOutput(Finalizer, op.actor) >>
         [] op.action = "REFUND" ->
              refunds
                \o (IF b.last THEN <<KeyOutput(Deposit - RefundFee, Owner)>> ELSE <<>>)
                \o <<KeyOutput(external + b.pool - fee, op.actor)>>
         [] op.action = "CLOSE" /\ s.sold = 0 ->
              <<KeyOutput(Deposit, Owner)>> \o Change(s, op, fee, external)
         [] OTHER -> Change(s, op, fee, external)

(* Mutant: the lock time is the closing score itself, which consensus      *)
(* accepts only from the block after it.                                   *)
LockAtClosing(s) == IF SoldOut(s) THEN 0 ELSE s.config.closeEligibleDaa

CloseLockTime(s) == IF SoldOut(s) THEN 0 ELSE s.config.closeEligibleDaa - 1

BuildAction(x, op, fee, external) ==
    LET s == x.ledger IN
    [ spends   |-> x.tip,
      action   |-> op.action,
      actor    |-> op.actor,
      quantity |-> op.quantity,
      opening  |-> IF op.action = "DRAW_AND_PAY" THEN x.opening ELSE NoOpening,
      hint     |-> IF op.action = "DRAW_AND_PAY" THEN RecordOf(s, x.opening % s.sold) ELSE 0,
      external |-> external,
      fee      |-> fee,
      lockTime |-> IF op.action = "CLOSE" THEN CloseLockTime(s) ELSE 0,
      sequence |-> CASE op.action = "DRAW_AND_PAY" -> DrawDelay
                     [] op.action = "TIMEOUT_REFUND" -> TimeoutDelay
                     [] OTHER -> 0,
      outputs  |-> (IF HasSuccessor(s, op) THEN <<StateOutput(NextLedger(s, op))>> ELSE <<>>)
                     \o Payments(x, op, fee, external) ]

OutputLimit(s) ==
    CASE s.phase = "OPEN" -> 2 [] s.phase = "SEALED" -> 3 [] OTHER -> MaxRefundRecords + 2

(* transition() and assertDraft() refuse a draft whose outputs are out of  *)
(* range or do not balance.                                                *)
CanBuild(x, op, fee, external) ==
    /\ TransitionAllowed(x, op, fee, external)
    /\ LET tx == BuildAction(x, op, fee, external) IN
       /\ Len(tx.outputs) <= OutputLimit(x.ledger)
       /\ \A i \in DOMAIN tx.outputs : Spendable(tx.outputs[i].value)
       /\ x.value + external - TotalOut(tx) = fee

---------------------------------------------------------------------------
(* Accepting: the templates' `spend` entries over a state UTXO             *)
(* x = [ledger, tip, value, utxoDaa, currentDaa, opening].                 *)

(* What consensus checks of any transaction: input, lock time, age.        *)
ConsensusAccepts(x, tx) ==
    /\ tx.spends = x.tip
    /\ tx.lockTime = 0 \/ tx.lockTime < x.currentDaa
    /\ x.currentDaa >= x.utxoDaa + tx.sequence
    /\ tx.external >= 0

FundingInputs == 8

CheckFee(x, tx, maxOutputs) ==
    /\ tx.fee > 0 /\ tx.fee <= MaxPayFee
    /\ Len(tx.outputs) \in 1..maxOutputs
    /\ Spendable(x.value)
    /\ tx.external <= FundingInputs * ValueLimit
    /\ \A i \in DOMAIN tx.outputs : Spendable(tx.outputs[i].value)
    /\ x.value + tx.external - TotalOut(tx) = tx.fee

Ordinary(tx, i, amount, key) ==
    /\ Spendable(amount)
    /\ i \in DOMAIN tx.outputs
    /\ tx.outputs[i] = KeyOutput(amount, key)

(* Mutant: the successor's script is checked, its amount is not.           *)
SuccessorOfAnyAmount(tx, next, amount) ==
    StateOutputs(tx) = {1} /\ tx.outputs[1].state = next

Successor(tx, next, amount) ==
    /\ StateOutputs(tx) = {1}
    /\ tx.outputs[1] = [value |-> amount, state |-> next]

Terminal(tx) == StateOutputs(tx) = {}

OpenAccepts(x, tx) ==
    LET s == x.ledger IN
    /\ CheckFee(x, tx, 2)
    /\ tx.external > 0          \* at least two inputs
    /\ \/ /\ tx.action = "BUY"
          /\ tx.quantity > 0
          /\ tx.quantity <= s.config.ticketCap - s.sold
          /\ PurchaseCount(s) < s.config.purchaseCap
          /\ Successor(tx, AppendPurchase(s, tx.quantity, tx.actor),
                       x.value + tx.quantity * s.config.ticketPrice)
       \/ /\ tx.action = "CLOSE"
          /\ s.sold < s.config.ticketCap /\ PurchaseCount(s) < s.config.purchaseCap
               => tx.lockTime >= s.config.closeEligibleDaa - 1
          /\ IF s.sold = 0
             THEN Terminal(tx) /\ Ordinary(tx, 1, Deposit, Owner)
             ELSE Successor(tx, [s EXCEPT !.phase = ClosedPhase(s)], x.value)

SealedAccepts(x, tx) ==
    LET s == x.ledger IN
    /\ s.sold >= s.config.minTickets
    /\ x.value = Deposit + s.sold * s.config.ticketPrice
    /\ CheckFee(x, tx, 3)
    /\ x.utxoDaa < DaaLimit - TimeoutDelay
    /\ \/ /\ tx.action = "DRAW_AND_PAY"
          /\ tx.external = 0
          /\ tx.sequence >= DrawDelay
          /\ tx.opening = x.opening /\ tx.opening # NoOpening
          /\ tx.opening < Limit(s.sold)
          /\ tx.hint \in 1..PurchaseCount(s)
          /\ HoldsTicket(s, tx.hint, tx.opening % s.sold)
          /\ Prize(s, tx.fee) >= MinPrice
          /\ Terminal(tx) /\ Len(tx.outputs) = 3
          /\ Ordinary(tx, 1, Prize(s, tx.fee), s.directory[tx.hint].key)
          /\ Ordinary(tx, 2, Deposit, Owner)
          /\ Ordinary(tx, 3, Finalizer, tx.actor)
       \/ /\ tx.action = "TIMEOUT_REFUND"
          /\ tx.sequence >= TimeoutDelay
          /\ Successor(tx, [s EXCEPT !.phase = "REFUNDING"], x.value)

RefundingAccepts(x, tx) ==
    LET s == x.ledger
        b == RefundBatch(s)
        first == IF b.last THEN 0 ELSE 1
        nextCursor == s.cursor + b.k
    IN
    /\ s.cursor < PurchaseCount(s)
    /\ x.value = ValueOf(s)
    /\ CheckFee(x, tx, MaxRefundRecords + 2)
    /\ tx.action = "REFUND"
    /\ Len(tx.outputs) = b.k + 2
    /\ \A r \in 1..b.k :
          /\ CountAt(s, s.cursor + r) > 0
          /\ Ordinary(tx, first + r, RefundAmount(s, s.cursor + r), s.directory[s.cursor + r].key)
    /\ Ordinary(tx, b.k + 2, tx.external + b.pool - tx.fee, tx.actor)
    /\ IF b.last
       THEN /\ EndAt(s, nextCursor) = s.sold
            /\ Terminal(tx)
            /\ Ordinary(tx, b.k + 1, Deposit - RefundFee, Owner)
       ELSE Successor(tx, [s EXCEPT !.cursor = nextCursor],
                      x.value - (EndAt(s, nextCursor) - PaidTickets(s)) * s.config.ticketPrice)

CovenantAccepts(x, tx) ==
    \/ x.ledger.phase = "OPEN" /\ OpenAccepts(x, tx)
    \/ x.ledger.phase = "SEALED" /\ SealedAccepts(x, tx)
    \/ x.ledger.phase = "REFUNDING" /\ RefundingAccepts(x, tx)

---------------------------------------------------------------------------
(* Explaining: accepted.ts interpretAccepted().  It sees the transaction,  *)
(* the spent UTXO and the accepting block's DAA score, and rebuilds the    *)
(* outcome on its own: [ended, next].                                      *)

AllowedActions(s) ==
    CASE s.phase = "OPEN" -> {"BUY", "CLOSE"}
      [] s.phase = "SEALED" -> {"DRAW_AND_PAY", "TIMEOUT_REFUND"}
      [] OTHER -> {"REFUND"}

(* Mutant: only the age this client itself would have asked for.           *)
AgeAsComposed(x, tx, required) ==
    tx.sequence = required /\ x.currentDaa >= x.utxoDaa + required

AgeProven(x, tx, required) ==
    /\ tx.sequence >= required
    /\ x.currentDaa >= x.utxoDaa + required

Explained(x, tx) ==
    LET s == x.ledger
        op == [action |-> tx.action, actor |-> tx.actor, quantity |-> tx.quantity]
    IN [ended |-> ~HasSuccessor(s, op), next |-> NextLedger(s, op)]

Explainable(x, tx) ==
    LET s == x.ledger
        b == RefundBatch(s)
        fee == x.value + tx.external - TotalOut(tx)
    IN
    /\ Verified(x)
    /\ tx.spends = x.tip
    /\ Len(tx.outputs) \in 1..OutputLimit(s)
    /\ tx.action \in AllowedActions(s)
    /\ Spendable(x.value) /\ \A i \in DOMAIN tx.outputs : Spendable(tx.outputs[i].value)
    /\ fee = tx.fee /\ fee > 0 /\ fee <= MaxPayFee
    /\ CASE tx.action = "BUY" -> tx.external > 0 /\ CanAppend(s, tx.quantity)
         [] tx.action = "CLOSE" ->
              /\ tx.external > 0
              /\ ~SoldOut(s) =>
                   /\ tx.lockTime >= s.config.closeEligibleDaa - 1 /\ tx.lockTime < DaaLimit
                   /\ x.currentDaa >= s.config.closeEligibleDaa
              /\ s.sold = 0 => Ordinary(tx, 1, Deposit, Owner)
         [] tx.action = "DRAW_AND_PAY" ->
              /\ tx.external = 0 /\ Len(tx.outputs) = 3
              /\ x.utxoDaa < DaaLimit - TimeoutDelay
              /\ AgeProven(x, tx, DrawDelay)
              /\ tx.opening < Limit(s.sold)
              /\ tx.hint = RecordOf(s, tx.opening % s.sold)
              /\ Prize(s, fee) >= MinPrice
              /\ Ordinary(tx, 1, Prize(s, fee), s.directory[tx.hint].key)
              /\ Ordinary(tx, 2, Deposit, Owner)
              /\ Ordinary(tx, 3, Finalizer, tx.actor)
         [] tx.action = "TIMEOUT_REFUND" ->
              x.utxoDaa < DaaLimit - TimeoutDelay /\ AgeProven(x, tx, TimeoutDelay)
         [] tx.action = "REFUND" ->
              /\ Len(tx.outputs) = b.k + 2
              /\ \A i \in 1..b.k :
                    Ordinary(tx, (IF b.last THEN 0 ELSE 1) + i, RefundAmount(s, s.cursor + i),
                             s.directory[s.cursor + i].key)
              /\ b.last => Ordinary(tx, b.k + 1, Deposit - RefundFee, Owner)
              /\ Ordinary(tx, b.k + 2, tx.external + b.pool - fee, tx.actor)
    /\ IF Explained(x, tx).ended
       THEN StateOutputs(tx) = {}
       ELSE /\ ValidLedger(Explained(x, tx).next)
            /\ StateOutputs(tx) = {1}
            /\ tx.outputs[1] = StateOutput(Explained(x, tx).next)
============================================================================
