--------------------------- MODULE RoundContract ---------------------------
(***************************************************************************)
(* One Kaswin round on the selected chain, as the three covenant templates *)
(* (open.sil, sealed.sil, refunding.sil) let it evolve.  A round is a      *)
(* single state UTXO: every accepted spend consumes it and either creates  *)
(* its successor or ends the round.  Money is counted in the unit of the   *)
(* constants; a record of the directory is represented by its cumulative   *)
(* ticket count `end`, its index standing for the buyer's key (the module  *)
(* RoundNetwork carries the keys).                                         *)
(***************************************************************************)
EXTENDS Integers, Sequences, FiniteSets, FiniteSetsExt

CONSTANTS
    Configs,           \* the round configurations considered
    Deposit, MinPrice, Finalizer, MaxPayFee, RefundFee, ValueLimit,
    MaxTickets, MaxPurchases, MaxRefundRecords,
    DrawDelay, TimeoutDelay, DaaLimit,
    SampleSpace,       \* 2^56 in the code: the values a draw can sample
    Fees,              \* network fees tried by the transactions of a run
    Externals          \* sponsor amounts added to a REFUND in a run

(* state.ts:74-78, open.sil:101-110.                                       *)
ValidConfig(c) ==
    /\ c.ticketCap \in 3..MaxTickets
    /\ c.purchaseCap \in 1..MaxPurchases
    /\ c.minTickets \in 3..c.ticketCap
    /\ c.ticketPrice \in Nat
    /\ c.ticketPrice >= MinPrice
    /\ c.ticketPrice <= (ValueLimit - Deposit) \div c.ticketCap
    /\ c.closeEligibleDaa \in 1..(DaaLimit - TimeoutDelay - 1)

Positive == Nat \ {0}

(* What the literals of the sources satisfy: 4e8, 1e8, 1e8, 5e7, 2e6 ...   *)
ASSUME MoneyAssumption ==
    /\ {Deposit, MinPrice, Finalizer, MaxPayFee, RefundFee, ValueLimit} \subseteq Positive
    /\ Deposit <= ValueLimit
    /\ RefundFee < Deposit
    /\ RefundFee < MinPrice
    /\ Finalizer + MaxPayFee <= 2 * MinPrice
    /\ (MaxRefundRecords + 1) * RefundFee + MaxPayFee <= ValueLimit

ASSUME BoundAssumption ==
    /\ {MaxTickets, MaxPurchases, MaxRefundRecords, SampleSpace} \subseteq Positive
    /\ MaxTickets <= SampleSpace
    /\ {DrawDelay, TimeoutDelay, DaaLimit} \subseteq Positive
    /\ DrawDelay < TimeoutDelay

ASSUME InputAssumption == Fees \subseteq Nat /\ Externals \subseteq Nat

ASSUME ConfigAssumption == \A c \in Configs : ValidConfig(c)

VARIABLES
    config,     \* the header's sale terms, fixed at genesis
    phase,      \* OPEN, SEALED, REFUNDING, or how the round ended
    sold,       \* tickets sold
    ends,       \* the directory: ends[i] is the cumulative count after purchase i
    cursor,     \* records refunded so far
    value,      \* amount of the state UTXO, 0 once the round has ended
    utxoDaa,    \* DAA score at which the state UTXO was accepted
    daa,        \* current virtual DAA score
    sample,     \* sample fixed by the first chain block past the draw boundary
    refunded,   \* refunded[i]: paid out to the buyer of record i as a refund
    prize,      \* who won what: record 0 until a draw pays
    ownerPaid,  \* paid to the round's creator
    costs       \* escrowed money spent on executors and network fees

ledger == <<config, phase, sold, ends, cursor>>
payouts == <<refunded, prize, ownerPaid, costs>>
vars == <<config, phase, sold, ends, cursor, value, utxoDaa, daa, sample,
          refunded, prize, ownerPaid, costs>>

Live == {"OPEN", "SEALED", "REFUNDING"}
Ended == {"EMPTY", "PAID", "REFUNDED"}
NoSample == -1

---------------------------------------------------------------------------
(* The ledger's arithmetic.                                                *)

PurchaseCount == Len(ends)

EndOf(es, i) == IF i = 0 THEN 0 ELSE es[i]

TicketsOf(es, i) == es[i] - EndOf(es, i - 1)

PaidTickets == EndOf(ends, cursor)

(* Mutant: the limit on the number of purchases is forgotten.              *)
CanSellByTicketsAlone(quantity) == quantity > 0 /\ quantity <= config.ticketCap - sold

CanSell(quantity) ==
    /\ quantity > 0
    /\ quantity <= config.ticketCap - sold
    /\ PurchaseCount < config.purchaseCap

SoldOut == sold >= config.ticketCap \/ PurchaseCount >= config.purchaseCap

(* Mutant: a round closes only when sold out, never by its closing time.   *)
MayCloseSoldOut == SoldOut

(* open.sil lets a round close early only when nothing more can be sold;   *)
(* otherwise the transaction's lock time is at least closeEligibleDaa - 1, *)
(* and consensus accepts a lock time only below the block's DAA score.     *)
MayClose == SoldOut \/ config.closeEligibleDaa - 1 < daa

(* Mutants: every round with a sale is drawn; a sale below its minimum     *)
(* stays open.                                                             *)
AlwaysSealed == "SEALED"
StaysOpen == IF sold >= config.minTickets THEN "SEALED" ELSE "OPEN"

ClosedPhase == IF sold >= config.minTickets THEN "SEALED" ELSE "REFUNDING"

(* A relative lock: the spent UTXO has reached this age.                   *)
Aged(delay) == daa >= utxoDaa + delay

AnchorInRange == utxoDaa < DaaLimit - TimeoutDelay

NetworkFee(fee) == fee > 0 /\ fee <= MaxPayFee

Spendable(amount) == amount > 0 /\ amount <= ValueLimit

(* Mutant: one value more than 56 bits can hold.                           *)
SamplesOfOneTooMany == 0..SampleSpace

(* sealed.sil sample(): seven bytes of the draw block's seed.              *)
Samples == 0..(SampleSpace - 1)

(* Mutant: the remainder of the sample space is not rejected.              *)
LimitWithoutRejection(n) == SampleSpace

(* sealed.sil limit(): the part of the sample space that maps evenly.      *)
Limit(n) == SampleSpace - (SampleSpace % n)

Drawable(v, n) == v < Limit(n)

TicketOf(v, n) == v % n

HoldsTicket(i, ticket) == EndOf(ends, i - 1) <= ticket /\ ticket < ends[i]

BatchSize ==
    IF PurchaseCount - cursor > MaxRefundRecords
    THEN MaxRefundRecords ELSE PurchaseCount - cursor

LastBatch == BatchSize = PurchaseCount - cursor

(* Mutant: the last record of a batch is skipped.                          *)
BatchWithoutItsLast == (cursor + 1)..(cursor + BatchSize - 1)

Batch == (cursor + 1)..(cursor + BatchSize)

RefundOf(i) == TicketsOf(ends, i) * config.ticketPrice - RefundFee

(* Mutant: the batch's fees stay in the escrow.                            *)
BatchNet ==
    (EndOf(ends, cursor + BatchSize) - PaidTickets) * config.ticketPrice - BatchSize * RefundFee

BatchGross == (EndOf(ends, cursor + BatchSize) - PaidTickets) * config.ticketPrice

(* Mutant: the creator's refund fee is charged and paid to nobody.         *)
BatchPoolOfRecords == BatchSize * RefundFee

BatchPool == BatchSize * RefundFee + (IF LastBatch THEN RefundFee ELSE 0)

PrizeOf(fee) == config.ticketPrice * sold - Finalizer - fee

---------------------------------------------------------------------------
(* Genesis: buildOpenGenesis with a configuration validateConfig accepts.  *)
Init ==
    /\ config \in Configs
    /\ phase = "OPEN"
    /\ sold = 0
    /\ ends = <<>>
    /\ cursor = 0
    /\ value = Deposit
    /\ daa = 1
    /\ utxoDaa = 1
    /\ sample = NoSample
    /\ refunded = [i \in 1..MaxPurchases |-> 0]
    /\ prize = [record |-> 0, amount |-> 0]
    /\ ownerPaid = 0
    /\ costs = 0

(* The successor of the state UTXO: accepted now, worth `amount`.          *)
Successor(amount) ==
    /\ Spendable(amount)
    /\ value' = amount
    /\ utxoDaa' = daa

(* No output of the round's covenant: the state UTXO is gone.              *)
Terminal ==
    /\ value' = 0
    /\ UNCHANGED utxoDaa

(* open.sil, action 1.  There is no time guard: sales go on until a CLOSE. *)
Buy(quantity) ==
    /\ phase = "OPEN"
    /\ CanSell(quantity)
    /\ sold' = sold + quantity
    /\ ends' = Append(ends, sold + quantity)
    /\ Successor(value + quantity * config.ticketPrice)
    /\ UNCHANGED <<config, phase, cursor, daa, sample, payouts>>

(* open.sil, action 2, nothing sold: the deposit goes back to the creator. *)
CloseEmpty ==
    /\ phase = "OPEN"
    /\ MayClose
    /\ sold = 0
    /\ Terminal
    /\ phase' = "EMPTY"
    /\ ownerPaid' = ownerPaid + Deposit
    /\ costs' = costs + value - Deposit
    /\ UNCHANGED <<config, sold, ends, cursor, daa, sample, refunded, prize>>

(* open.sil, action 2, at least one ticket sold.                           *)
Close ==
    /\ phase = "OPEN"
    /\ MayClose
    /\ sold > 0
    /\ phase' = ClosedPhase
    /\ Successor(value)
    /\ UNCHANGED <<config, sold, ends, cursor, daa, sample, payouts>>

(* sealed.sil and refunding.sil recompute the amount they must be spending *)
(* on entry (checkLedger).                                                 *)
SealedLedger ==
    /\ phase = "SEALED"
    /\ sold >= config.minTickets
    /\ value = Deposit + sold * config.ticketPrice

(* Mutant: the amount is checked, the template is not.                     *)
RefundingAmount ==
    cursor < PurchaseCount /\ value = Deposit + (sold - PaidTickets) * config.ticketPrice

RefundingLedger ==
    /\ phase = "REFUNDING"
    /\ cursor < PurchaseCount
    /\ value = Deposit + (sold - PaidTickets) * config.ticketPrice

(* sealed.sil, action 4.  The record is the executor's hint, checked       *)
(* against the ticket; a sample at or above the limit is not redrawn.      *)
DrawAndPay(hint, fee) ==
    /\ SealedLedger
    /\ NetworkFee(fee)
    /\ AnchorInRange
    /\ Aged(DrawDelay)
    /\ sample # NoSample
    /\ Drawable(sample, sold)
    /\ HoldsTicket(hint, TicketOf(sample, sold))
    /\ PrizeOf(fee) >= MinPrice
    /\ Spendable(PrizeOf(fee))
    /\ Terminal
    /\ phase' = "PAID"
    /\ prize' = [record |-> hint, amount |-> PrizeOf(fee)]
    /\ ownerPaid' = ownerPaid + Deposit
    /\ costs' = costs + Finalizer + fee
    /\ UNCHANGED <<config, sold, ends, cursor, daa, sample, refunded>>

(* sealed.sil, action 9.                                                   *)
TimeoutRefund ==
    /\ SealedLedger
    /\ AnchorInRange
    /\ Aged(TimeoutDelay)
    /\ phase' = "REFUNDING"
    /\ Successor(value)
    /\ UNCHANGED <<config, sold, ends, cursor, daa, sample, payouts>>

(* refunding.sil, action 10: one batch, in directory order; the executor   *)
(* keeps the refund fees (and what a sponsor added) minus the network fee. *)
Refund(external, fee) ==
    /\ RefundingLedger
    /\ NetworkFee(fee)
    /\ \A i \in Batch : ends[i] > EndOf(ends, i - 1) /\ Spendable(RefundOf(i))
    /\ Spendable(external + BatchPool - fee)
    /\ refunded' = [i \in 1..MaxPurchases |->
                       refunded[i] + (IF i \in Batch THEN RefundOf(i) ELSE 0)]
    /\ costs' = costs + BatchPool
    /\ cursor' = cursor + BatchSize
    /\ \/ /\ LastBatch
          /\ EndOf(ends, cursor + BatchSize) = sold
          /\ Spendable(Deposit - RefundFee)
          /\ Terminal
          /\ phase' = "REFUNDED"
          /\ ownerPaid' = ownerPaid + (Deposit - RefundFee)
       \/ /\ ~LastBatch
          /\ Successor(value - BatchGross)
          /\ UNCHANGED <<phase, ownerPaid>>
    /\ UNCHANGED <<config, sold, ends, daa, sample, prize>>

(* Blocks arrive.  The first chain block at or past the draw boundary      *)
(* fixes the sample of a sealed round (drawSeed: pd < boundary <= td).     *)
Tick ==
    /\ daa < DaaLimit
    /\ daa' = daa + 1
    /\ IF phase = "SEALED" /\ sample = NoSample /\ daa + 1 >= utxoDaa + DrawDelay
       THEN sample' \in Samples
       ELSE UNCHANGED sample
    /\ UNCHANGED <<ledger, value, utxoDaa, payouts>>

Spend ==
    \/ \E quantity \in 1..config.ticketCap : Buy(quantity)
    \/ CloseEmpty
    \/ Close
    \/ \E hint \in 1..PurchaseCount, fee \in Fees : DrawAndPay(hint, fee)
    \/ TimeoutRefund
    \/ \E external \in Externals, fee \in Fees : Refund(external, fee)

Next == Spend \/ Tick

Spec == Init /\ [][Next]_vars

(* Nobody is obliged to run a round, but whoever closes or settles it may  *)
(* be anyone.  Assuming only that some executor keeps trying and blocks    *)
(* keep arriving, buying stays optional.                                   *)
Fairness ==
    /\ WF_vars(Tick)
    /\ WF_vars(CloseEmpty)
    /\ WF_vars(Close)
    /\ WF_vars(TimeoutRefund)
    /\ WF_vars(\E hint \in 1..PurchaseCount, fee \in Fees : DrawAndPay(hint, fee))
    /\ WF_vars(\E external \in Externals, fee \in Fees : Refund(external, fee))

FairSpec == Spec /\ Fairness

---------------------------------------------------------------------------
(* Properties.                                                             *)

SampleType == {NoSample} \cup 0..(SampleSpace - 1)

(* The types.  A round that ended keeps its last clock and directory.       *)
TypeOK ==
    /\ config \in Configs
    /\ phase \in Live \cup Ended
    /\ sold \in Nat
    /\ ends \in Seq(Nat)
    /\ cursor \in Nat
    /\ value \in Nat
    /\ utxoDaa \in Nat
    /\ daa \in Nat
    /\ sample \in SampleType
    /\ refunded \in [1..MaxPurchases -> Int]
    /\ prize \in [record : Nat, amount : Int]
    /\ ownerPaid \in Int
    /\ costs \in Int

(* Ends strictly increase, up to the tickets sold.                         *)
DirectoryCoversSales ==
    /\ \A i \in 1..Len(ends) : EndOf(ends, i - 1) < ends[i]
    /\ EndOf(ends, Len(ends)) = sold

(* Every live ledger the contracts produce passes the client's             *)
(* validateLedger (state.ts:83-90): the directory is strictly increasing   *)
(* and ends at `sold`, both caps hold, only a refund moves the cursor, and *)
(* no round below its minimum is sealed.  A ledger that failed it could    *)
(* neither be shown nor settled by any client.                             *)
LedgerValid ==
    /\ DirectoryCoversSales
    /\ sold <= config.ticketCap
    /\ PurchaseCount <= config.purchaseCap
    /\ (sold = 0) <=> (PurchaseCount = 0)
    /\ phase = "OPEN" => cursor = 0
    /\ phase = "SEALED" => cursor = 0 /\ sold >= config.minTickets
    /\ phase = "REFUNDING" => cursor < PurchaseCount

(* The state UTXO always holds exactly the deposit and the price of every  *)
(* ticket not refunded yet.  sealed.sil and refunding.sil refuse any other *)
(* amount on entry, so money that broke this would be locked for ever.     *)
EscrowExact ==
    phase \in Live =>
        value = Deposit + (sold - PaidTickets) * config.ticketPrice

(* Refunds are paid once each and in full: a record before the cursor has  *)
(* received its tickets' price less one refund fee, a record after it      *)
(* nothing, however the batches fall.                                      *)
RefundedOnce ==
    \A i \in 1..MaxPurchases :
        refunded[i] = IF i <= cursor THEN RefundOf(i) ELSE 0

(* Nothing is created or lost: what buyers and the creator paid in is in   *)
(* the UTXO, with the buyers, with the winner, with the creator, or was    *)
(* spent on executors and fees.                                            *)
Conserved ==
    Deposit + sold * config.ticketPrice =
        value + MapThenSumSet(LAMBDA i : refunded[i], 1..MaxPurchases)
              + prize.amount + ownerPaid + costs

(* How a round may end (README, docs/ARCHITECTURE.md: PAID, EMPTY,         *)
(* REFUNDED).  A winner and refunds exclude each other, and in each ending *)
(* the creator gets the deposit, less one refund fee after refunds.        *)
Settlement ==
    /\ phase = "PAID" =>
         /\ prize.record \in 1..PurchaseCount
         /\ prize.amount >= MinPrice
         /\ ownerPaid = Deposit
         /\ \A i \in 1..MaxPurchases : refunded[i] = 0
    /\ phase = "REFUNDED" =>
         /\ prize.record = 0
         /\ ownerPaid = Deposit - RefundFee
         /\ \A i \in 1..PurchaseCount : refunded[i] = RefundOf(i) /\ refunded[i] > 0
    /\ phase = "EMPTY" => PurchaseCount = 0 /\ ownerPaid = Deposit
    /\ phase \in Live => prize.record = 0 /\ ownerPaid = 0

(* A live round can always go on: whatever the price and the counts, its   *)
(* amount fits checkFee's bounds, a sealed one can be drawn at any allowed *)
(* fee with a prize of at least one minimum ticket, and a refunding one    *)
(* can pay its next batch, with a sponsor's help at most for the fee.      *)
NeverUnpayable ==
    /\ phase \in Live => Spendable(value)
    /\ phase = "SEALED" =>
         \A fee \in 1..MaxPayFee : PrizeOf(fee) >= MinPrice /\ Spendable(PrizeOf(fee))
    /\ phase = "REFUNDING" =>
         /\ BatchSize > 0
         /\ \A i \in Batch : Spendable(RefundOf(i))
         /\ \A fee \in 1..MaxPayFee :
               \E external \in 0..MaxPayFee : Spendable(external + BatchPool - fee)
         /\ Spendable(IF LastBatch THEN Deposit - RefundFee ELSE value - BatchGross)

(* A sample below the limit names exactly one record; every ticket is      *)
(* named by the same number of samples, so the draw is unbiased for every  *)
(* number of tickets sold.                                                 *)
DrawWellDefined ==
    phase = "SEALED" =>
        /\ \A v \in Samples :
              Drawable(v, sold) =>
                Cardinality({i \in 1..PurchaseCount : HoldsTicket(i, TicketOf(v, sold))}) = 1
        /\ \A t \in 0..(sold - 1) :
              Cardinality({v \in Samples :
                             Drawable(v, sold) /\ TicketOf(v, sold) = t})
                = SampleSpace \div sold

(* roundProgress and compareProgress (progress.mjs).                       *)
PhaseNumber == CASE phase = "OPEN" -> 1 [] phase = "SEALED" -> 2 [] OTHER -> 5

Progress == <<IF phase \in Ended THEN 1 ELSE 0, PhaseNumber, PurchaseCount, cursor>>

Further(p, q) ==
    \/ p[1] < q[1]
    \/ /\ p[1] = q[1] /\ p[1] = 0
       /\ \E k \in 2..4 : p[k] < q[k] /\ \A j \in 2..(k - 1) : p[j] = q[j]

(* progress.mjs:1-11 orders two views of a round without timestamps: every *)
(* accepted spend strictly increases (terminal, phase, purchaseCount,      *)
(* cursor).  A blocked comparison or a step that kept the tuple would let  *)
(* the page show an older state for a newer one.                           *)
SpendsAdvance == [][Spend => Further(Progress, Progress')]_vars

(* No party can hold the money of a round: as long as anyone at all runs   *)
(* executors, an abandoned sale is closed, a sealed round is drawn or, if  *)
(* its sample was rejected, refunded after the timeout, and refunds reach  *)
(* the last record.  Excepted are only rounds sealed so late that the      *)
(* timeout would pass DAA_LIMIT, which sealed.sil refuses to spend.        *)
RoundsEnd ==
    (phase \in Live) ~> (phase \in Ended \/ (phase = "SEALED" /\ ~AnchorInRange))

---------------------------------------------------------------------------
(* The round seen by its buyers: RoundEscrow.                              *)
StatusOf ==
    CASE phase = "OPEN" -> "selling"   [] phase = "SEALED" -> "locked"
      [] phase = "REFUNDING" -> "returning" [] phase = "PAID" -> "won"
      [] phase = "REFUNDED" -> "returned"   [] OTHER -> "void"

StakesOf == [i \in 1..PurchaseCount |-> TicketsOf(ends, i) * config.ticketPrice]

OwedOf == IF phase = "PAID" THEN {} ELSE (cursor + 1)..PurchaseCount

ReceivedOf ==
    [i \in 1..MaxPurchases |->
        refunded[i] + (IF prize.record = i THEN prize.amount ELSE 0)]

Escrow == INSTANCE RoundEscrow WITH
    MaxStakes <- MaxPurchases, PrizeFloor <- MinPrice, ReturnCharge <- RefundFee,
    status <- StatusOf, stakes <- StakesOf, owed <- OwedOf, received <- ReceivedOf

(* The contracts keep the promise of RoundEscrow: a stake is awarded or    *)
(* returned, once, and no stake is taken after the sale is over.           *)
ImplementsEscrow == Escrow!Spec
============================================================================
