----------------------- MODULE RoundContract_proofs -----------------------
(***************************************************************************)
(* Proofs about RoundContract for every configuration, price, cap, batch   *)
(* size, delay and set of fees.  The inductive invariant IInv joins the    *)
(* invariants that feed each other: the directory bounds the cursor, the   *)
(* cursor bounds what was refunded, and both determine the escrow.  Then:  *)
(* where the money is (a sum of refunds), the draw, and the refinement of  *)
(* RoundEscrow.                                                            *)
(***************************************************************************)
EXTENDS RoundContract, Sums, TLAPS

(* Products of counts and prices, which the provers take as given facts.   *)
LEMMA MulMono ==
    ASSUME NEW a \in Int, NEW b \in Int, NEW c \in Nat, a <= b
    PROVE  a * c <= b * c
  OBVIOUS

LEMMA Distribute ==
    ASSUME NEW a \in Int, NEW b \in Int, NEW c \in Int
    PROVE  (a - b) * c = a * c - b * c /\ a * c \in Int /\ b * c \in Int
  OBVIOUS

LEMMA DistributeTwice ==
    ASSUME NEW a \in Int, NEW b \in Int, NEW c \in Int, NEW p \in Int
    PROVE  (a - b) * p - (c - b) * p = (a - c) * p
  OBVIOUS

LEMMA DivMul ==
    ASSUME NEW x \in Nat, NEW c \in Nat \ {0}
    PROVE  x \div c \in Nat /\ c * (x \div c) <= x
  OBVIOUS

---------------------------------------------------------------------------
(* What is known of the constants and of any configuration.                *)

LEMMA MoneyFacts ==
    /\ Deposit \in Nat /\ MinPrice \in Nat /\ Finalizer \in Nat
    /\ MaxPayFee \in Nat /\ RefundFee \in Nat /\ ValueLimit \in Nat
    /\ Deposit > 0 /\ MinPrice > 0 /\ RefundFee > 0 /\ Finalizer > 0 /\ MaxPayFee > 0
    /\ Deposit <= ValueLimit /\ RefundFee < Deposit /\ RefundFee < MinPrice
    /\ Finalizer + MaxPayFee <= 2 * MinPrice
    /\ (MaxRefundRecords + 1) * RefundFee + MaxPayFee <= ValueLimit
  BY MoneyAssumption DEF Positive

LEMMA BoundFacts ==
    /\ MaxTickets \in Nat \ {0} /\ MaxPurchases \in Nat \ {0}
    /\ MaxRefundRecords \in Nat \ {0} /\ SampleSpace \in Nat \ {0}
    /\ DrawDelay \in Nat /\ TimeoutDelay \in Nat /\ DaaLimit \in Nat
  BY BoundAssumption DEF Positive

LEMMA ConfigFacts ==
    ASSUME NEW c \in Configs
    PROVE  /\ c.ticketCap \in Nat /\ c.ticketCap >= 3
           /\ c.purchaseCap \in Nat /\ c.purchaseCap <= MaxPurchases
           /\ c.minTickets \in Nat /\ c.minTickets >= 3 /\ c.minTickets <= c.ticketCap
           /\ c.ticketPrice \in Nat /\ c.ticketPrice >= MinPrice
           /\ Deposit + c.ticketCap * c.ticketPrice <= ValueLimit
  <1>1. ValidConfig(c)
    BY ConfigAssumption
  <1>2. /\ c.ticketCap \in Nat \ {0} /\ c.ticketCap >= 3
        /\ c.purchaseCap \in Nat /\ c.purchaseCap <= MaxPurchases
        /\ c.minTickets \in Nat /\ c.minTickets >= 3 /\ c.minTickets <= c.ticketCap
        /\ c.ticketPrice \in Nat /\ c.ticketPrice >= MinPrice
        /\ c.ticketPrice <= (ValueLimit - Deposit) \div c.ticketCap
    BY <1>1, BoundFacts DEF ValidConfig
  <1>3. ValueLimit - Deposit \in Nat
    BY MoneyFacts
  <1>4. (ValueLimit - Deposit) \div c.ticketCap \in Nat
        /\ c.ticketCap * ((ValueLimit - Deposit) \div c.ticketCap) <= ValueLimit - Deposit
    BY <1>2, <1>3, DivMul
  <1>5. c.ticketPrice * c.ticketCap <= ((ValueLimit - Deposit) \div c.ticketCap) * c.ticketCap
    BY <1>2, <1>4, MulMono
  <1>. QED
    BY <1>2, <1>4, <1>5, MoneyFacts

---------------------------------------------------------------------------
(* The inductive invariant.                                                *)

CursorSettled ==
    /\ cursor <= PurchaseCount
    /\ phase \in {"EMPTY", "PAID"} => cursor = 0
    /\ phase = "REFUNDED" => cursor = PurchaseCount

EndsWithinSales == \A i \in 0..PurchaseCount : EndOf(ends, i) <= sold

IInv ==
    /\ TypeOK
    /\ LedgerValid
    /\ CursorSettled
    /\ EndsWithinSales
    /\ EscrowExact
    /\ RefundedOnce
    /\ Settlement

(* Ends of records are tickets sold: naturals, within `sold`.              *)
LEMMA EndFacts ==
    ASSUME TypeOK, LedgerValid
    PROVE  /\ PurchaseCount \in Nat /\ PurchaseCount <= MaxPurchases
           /\ config \in Configs
           /\ \A i \in 0..PurchaseCount : EndOf(ends, i) \in Nat
           /\ \A i \in 1..PurchaseCount :
                 ends[i] = EndOf(ends, i) /\ TicketsOf(ends, i) \in Nat /\ TicketsOf(ends, i) >= 1
  <1>1. PurchaseCount \in Nat /\ config \in Configs /\ ends \in Seq(Nat)
    BY DEF TypeOK, PurchaseCount
  <1>2. PurchaseCount <= MaxPurchases
    BY <1>1, ConfigFacts, BoundFacts DEF LedgerValid
  <1>3. \A i \in 0..PurchaseCount : EndOf(ends, i) \in Nat
    BY <1>1 DEF EndOf, PurchaseCount
  <1>4. \A i \in 1..PurchaseCount : EndOf(ends, i - 1) < ends[i]
    BY DEF LedgerValid, DirectoryCoversSales, PurchaseCount
  <1>5. \A i \in 1..PurchaseCount :
           ends[i] = EndOf(ends, i) /\ TicketsOf(ends, i) \in Nat /\ TicketsOf(ends, i) >= 1
    <2>. TAKE i \in 1..PurchaseCount
    <2>1. i \in 0..PurchaseCount /\ i - 1 \in 0..PurchaseCount /\ i # 0
      BY <1>1
    <2>2. EndOf(ends, i) \in Nat /\ EndOf(ends, i - 1) \in Nat
      BY <2>1, <1>3
    <2>3. ends[i] = EndOf(ends, i)
      BY <2>1 DEF EndOf
    <2>. QED
      BY <2>2, <2>3, <1>4 DEF TicketsOf
  <1>. QED
    BY <1>1, <1>2, <1>3, <1>5

(* A genesis as buildOpenGenesis makes it satisfies the inductive          *)
(* invariant.                                                              *)
THEOREM InitIInv == Init => IInv
  <1>. SUFFICES ASSUME Init PROVE IInv
    OBVIOUS
  <1>1. TypeOK
    BY MoneyFacts DEF Init, TypeOK, Live, NoSample, SampleType
  <1>2. PurchaseCount = 0 /\ EndOf(ends, 0) = 0
    BY DEF Init, PurchaseCount, EndOf
  <1>3. LedgerValid /\ CursorSettled /\ EndsWithinSales
    BY <1>1, <1>2, ConfigFacts
       DEF Init, TypeOK, LedgerValid, DirectoryCoversSales, CursorSettled, EndsWithinSales, PurchaseCount
  <1>4. EscrowExact
    BY <1>2, <1>1, ConfigFacts, MoneyFacts DEF Init, TypeOK, EscrowExact, PaidTickets
  <1>5. RefundedOnce
    BY DEF Init, RefundedOnce
  <1>6. Settlement
    BY DEF Init, Settlement, Live
  <1>. QED
    BY <1>1, <1>3, <1>4, <1>5, <1>6 DEF IInv

(* Buying appends one record that ends at the new `sold`.                  *)
LEMMA BuyIInv ==
    ASSUME IInv, NEW quantity \in 1..config.ticketCap, Buy(quantity)
    PROVE  IInv'
  <1>. USE DEF IInv
  <1>1. /\ config \in Configs /\ config' = config
        /\ phase = "OPEN" /\ phase' = "OPEN" /\ cursor' = cursor /\ cursor = 0
        /\ quantity \in Nat /\ quantity > 0
        /\ sold \in Nat /\ sold' = sold + quantity /\ sold' <= config.ticketCap
        /\ PurchaseCount < config.purchaseCap
        /\ PurchaseCount \in Nat
        /\ ends \in Seq(Nat)
        /\ ends' = Append(ends, sold + quantity)
        /\ value' = value + quantity * config.ticketPrice
        /\ utxoDaa' = daa /\ daa' = daa
    BY ConfigFacts, EndFacts DEF Buy, CanSell, TypeOK, LedgerValid, Successor
  <1>2. /\ ends' \in Seq(Nat)
        /\ PurchaseCount' = PurchaseCount + 1
        /\ ends'[PurchaseCount + 1] = sold'
        /\ \A i \in 1..PurchaseCount : ends'[i] = ends[i]
    BY <1>1 DEF PurchaseCount
  <1>3. /\ \A i \in 0..PurchaseCount : EndOf(ends', i) = EndOf(ends, i)
        /\ EndOf(ends', PurchaseCount + 1) = sold'
    <2>1. ASSUME NEW i \in 0..PurchaseCount
          PROVE  EndOf(ends', i) = EndOf(ends, i)
      <3>1. CASE i = 0
        BY <3>1 DEF EndOf
      <3>2. CASE i # 0
        <4>1. i \in 1..PurchaseCount
          BY <3>2, <1>1
        <4>. QED
          BY <3>2, <4>1, <1>2 DEF EndOf
      <3>. QED
        BY <3>1, <3>2
    <2>2. EndOf(ends', PurchaseCount + 1) = sold'
      <3>1. PurchaseCount + 1 # 0
        BY <1>1
      <3>2. EndOf(ends', PurchaseCount + 1) = ends'[PurchaseCount + 1]
        BY <3>1 DEF EndOf
      <3>. QED
        BY <3>2, <1>2
    <2>. QED
      BY <2>1, <2>2
  <1>4. TypeOK'
    <2>1. quantity * config.ticketPrice \in Nat
      BY <1>1, ConfigFacts
    <2>2. sample' \in SampleType'
      BY DEF TypeOK, Buy, SampleType
    <2>3. /\ refunded' = refunded /\ prize' = prize
          /\ ownerPaid' = ownerPaid /\ costs' = costs
      BY DEF Buy, payouts
    <2>. QED
      BY <1>1, <1>2, <2>1, <2>2, <2>3 DEF TypeOK, Live
  <1>5. LedgerValid'
    <2>1. EndOf(ends, PurchaseCount) = sold
      BY DEF LedgerValid, DirectoryCoversSales, PurchaseCount
    <2>2. ASSUME NEW i \in 1..PurchaseCount'
          PROVE  EndOf(ends', i - 1) < ends'[i]
      <3>0. i \in 1..(PurchaseCount + 1)
        BY <1>2
      <3>1. CASE i = PurchaseCount + 1
        <4>1. EndOf(ends', i - 1) = sold
          <5>1. i - 1 = PurchaseCount
            BY <3>1, <1>1
          <5>2. EndOf(ends', PurchaseCount) = EndOf(ends, PurchaseCount)
            BY <1>1, <1>3
          <5>. QED
            BY <5>1, <5>2, <2>1
        <4>2. ends'[i] = sold'
          BY <3>1, <1>2
        <4>. QED
          BY <4>1, <4>2, <1>1
      <3>2. CASE i # PurchaseCount + 1
        <4>1. i \in 1..PurchaseCount /\ i - 1 \in 0..PurchaseCount
          BY <3>0, <3>2, <1>1
        <4>2. EndOf(ends', i - 1) = EndOf(ends, i - 1) /\ ends'[i] = ends[i]
          BY <4>1, <1>2, <1>3
        <4>3. EndOf(ends, i - 1) < ends[i]
          BY <4>1 DEF LedgerValid, DirectoryCoversSales, PurchaseCount
        <4>. QED
          BY <4>2, <4>3
      <3>. QED
        BY <3>1, <3>2
    <2>3. DirectoryCoversSales'
      BY <2>2, <1>2, <1>3 DEF DirectoryCoversSales, PurchaseCount
    <2>. QED
      BY <2>3, <1>1, <1>2, ConfigFacts DEF LedgerValid
  <1>6. CursorSettled'
    BY <1>1, <1>2 DEF CursorSettled
  <1>7. EndsWithinSales'
    <2>. SUFFICES ASSUME NEW i \in 0..PurchaseCount' PROVE EndOf(ends', i) <= sold'
      BY DEF EndsWithinSales
    <2>1. CASE i = PurchaseCount + 1
      BY <2>1, <1>1, <1>3
    <2>2. CASE i \in 0..PurchaseCount
      BY <2>2, <1>1, <1>3, EndFacts DEF EndsWithinSales
    <2>. QED
      BY <2>1, <2>2, <1>1, <1>2
  <1>8. EscrowExact'
    <2>1. PaidTickets = 0 /\ PaidTickets' = 0
      BY <1>1 DEF PaidTickets, EndOf
    <2>2. value = Deposit + sold * config.ticketPrice
      BY <1>1, <2>1 DEF EscrowExact, Live
    <2>. config.ticketPrice \in Nat /\ Deposit \in Int
      BY <1>1, ConfigFacts, MoneyFacts
    <2>3. sold' * config.ticketPrice = sold * config.ticketPrice + quantity * config.ticketPrice
      BY <1>1
    <2>4. sold' - PaidTickets' = sold'
      BY <1>1, <2>1
    <2>5. /\ sold * config.ticketPrice \in Int /\ quantity * config.ticketPrice \in Int
      BY <1>1
    <2>6. value' = Deposit + sold' * config'.ticketPrice
      <3>1. config'.ticketPrice = config.ticketPrice
        BY <1>1
      <3>2. value' = Deposit + sold * config.ticketPrice + quantity * config.ticketPrice
        BY <1>1, <2>2
      <3>3. Deposit + sold * config.ticketPrice + quantity * config.ticketPrice
              = Deposit + sold' * config.ticketPrice
        BY <2>3, <2>5
      <3>. QED
        BY <3>1, <3>2, <3>3
    <2>. QED
      BY <2>4, <2>6 DEF EscrowExact
  <1>9. RefundedOnce'
    BY <1>1 DEF RefundedOnce, Buy, payouts
  <1>10. Settlement'
    BY <1>1 DEF Settlement, Buy, payouts, Live
  <1>. QED
    BY <1>4, <1>5, <1>6, <1>7, <1>8, <1>9, <1>10

(* Steps that leave the directory and the cursor alone.                    *)
LEMMA SameDirectory ==
    ASSUME IInv, UNCHANGED <<config, sold, ends, cursor>>
    PROVE  /\ PurchaseCount' = PurchaseCount
           /\ PaidTickets' = PaidTickets
           /\ DirectoryCoversSales'
           /\ EndsWithinSales'
           /\ sold' <= config'.ticketCap
           /\ PurchaseCount' <= config'.purchaseCap
           /\ (sold' = 0) <=> (PurchaseCount' = 0)
           /\ \A i \in 1..MaxPurchases : RefundOf(i)' = RefundOf(i)
           /\ refunded' = refunded => RefundedOnce'
  BY DEF IInv, PurchaseCount, PaidTickets, EndOf, DirectoryCoversSales, EndsWithinSales,
         LedgerValid, RefundOf, TicketsOf, RefundedOnce

LEMMA CloseEmptyIInv == ASSUME IInv, CloseEmpty PROVE IInv'
  <1>1. /\ PurchaseCount = 0 /\ cursor = 0 /\ phase' = "EMPTY" /\ value' = 0
        /\ UNCHANGED <<config, sold, ends, cursor, refunded, prize, daa, sample, utxoDaa>>
        /\ ownerPaid' = Deposit /\ prize.record = 0
    BY MoneyFacts DEF IInv, CloseEmpty, LedgerValid, Terminal, Settlement, Live
  <1>2. TypeOK'
    BY <1>1, MoneyFacts DEF IInv, TypeOK, CloseEmpty, Ended
  <1>. QED
    BY <1>1, <1>2, SameDirectory
       DEF IInv, LedgerValid, CursorSettled, EscrowExact, Settlement, Live

LEMMA CloseIInv == ASSUME IInv, Close PROVE IInv'
  <1>1. /\ phase = "OPEN" /\ cursor = 0 /\ PurchaseCount > 0 /\ sold > 0
        /\ phase' = IF sold >= config.minTickets THEN "SEALED" ELSE "REFUNDING"
        /\ value' = value /\ utxoDaa' = daa
        /\ UNCHANGED <<config, sold, ends, cursor, refunded, prize, ownerPaid, costs, daa, sample>>
    BY EndFacts DEF IInv, Close, ClosedPhase, LedgerValid, Successor, payouts, TypeOK
  <1>2. TypeOK'
    BY <1>1 DEF IInv, TypeOK, Live
  <1>3. LedgerValid' /\ CursorSettled'
    BY <1>1, SameDirectory DEF IInv, LedgerValid, CursorSettled
  <1>4. EscrowExact'
    BY <1>1, SameDirectory DEF IInv, EscrowExact, Live
  <1>5. Settlement'
    BY <1>1 DEF IInv, Settlement, Live
  <1>. QED
    BY <1>1, <1>2, <1>3, <1>4, <1>5, SameDirectory DEF IInv

LEMMA TimeoutIInv == ASSUME IInv, TimeoutRefund PROVE IInv'
  <1>1. /\ phase = "SEALED" /\ phase' = "REFUNDING" /\ cursor = 0 /\ PurchaseCount > 0
        /\ value' = value /\ utxoDaa' = daa
        /\ UNCHANGED <<config, sold, ends, cursor, refunded, prize, ownerPaid, costs, daa, sample>>
    BY EndFacts, ConfigFacts
       DEF IInv, TimeoutRefund, SealedLedger, LedgerValid, Successor, payouts, TypeOK
  <1>2. TypeOK'
    BY <1>1 DEF IInv, TypeOK, Live
  <1>3. LedgerValid' /\ CursorSettled'
    BY <1>1, SameDirectory DEF IInv, LedgerValid, CursorSettled
  <1>4. EscrowExact'
    BY <1>1, SameDirectory DEF IInv, EscrowExact, Live
  <1>5. Settlement'
    BY <1>1 DEF IInv, Settlement, Live
  <1>. QED
    BY <1>1, <1>2, <1>3, <1>4, <1>5, SameDirectory DEF IInv

LEMMA DrawIInv ==
    ASSUME IInv, NEW hint \in 1..PurchaseCount, NEW fee \in Fees, DrawAndPay(hint, fee)
    PROVE  IInv'
  <1>1. /\ phase = "SEALED" /\ phase' = "PAID" /\ cursor = 0
        /\ value' = 0 /\ utxoDaa' = utxoDaa
        /\ fee \in Nat
        /\ prize' = [record |-> hint, amount |-> PrizeOf(fee)]
        /\ PrizeOf(fee) >= MinPrice
        /\ ownerPaid' = Deposit /\ costs' = costs + Finalizer + fee
        /\ UNCHANGED <<config, sold, ends, cursor, refunded, daa, sample>>
    BY MoneyFacts, InputAssumption
       DEF IInv, DrawAndPay, SealedLedger, LedgerValid, Terminal, Settlement, Live
  <1>2. PrizeOf(fee) \in Int
    BY <1>1, ConfigFacts, MoneyFacts DEF IInv, TypeOK, PrizeOf
  <1>3. TypeOK'
    BY <1>1, <1>2, EndFacts, MoneyFacts DEF IInv, TypeOK, Ended
  <1>4. LedgerValid' /\ CursorSettled' /\ EscrowExact'
    BY <1>1, SameDirectory DEF IInv, LedgerValid, CursorSettled, EscrowExact, Live
  <1>5. Settlement'
    <2>1. \A i \in 1..MaxPurchases : refunded'[i] = 0
      BY <1>1, BoundFacts DEF IInv, RefundedOnce
    <2>. QED
      BY <1>1, <2>1, SameDirectory DEF Settlement, Live
  <1>. QED
    BY <1>1, <1>3, <1>4, <1>5, SameDirectory DEF IInv

(* A batch starts behind the cursor and stays inside the directory.        *)
LEMMA BatchFacts ==
    ASSUME TypeOK, LedgerValid, phase = "REFUNDING"
    PROVE  /\ cursor \in Nat /\ cursor < PurchaseCount
           /\ BatchSize \in Nat /\ BatchSize > 0
           /\ BatchSize <= PurchaseCount - cursor
           /\ cursor + BatchSize \in 1..PurchaseCount
           /\ LastBatch <=> cursor + BatchSize = PurchaseCount
           /\ Batch \subseteq 1..PurchaseCount
           /\ \A i \in 1..MaxPurchases :
                 i <= cursor + BatchSize <=> (i <= cursor \/ i \in Batch)
  <1>1. cursor \in Nat /\ cursor < PurchaseCount /\ PurchaseCount \in Nat
    BY EndFacts DEF TypeOK, LedgerValid
  <1>2. BatchSize \in Nat /\ BatchSize > 0 /\ BatchSize <= PurchaseCount - cursor
    BY <1>1, BoundFacts DEF BatchSize
  <1>3. cursor + BatchSize \in 1..PurchaseCount
    BY <1>1, <1>2
  <1>4. LastBatch <=> cursor + BatchSize = PurchaseCount
    BY <1>1, <1>2 DEF LastBatch
  <1>5. Batch \subseteq 1..PurchaseCount
    BY <1>1, <1>2 DEF Batch
  <1>6. \A i \in 1..MaxPurchases :
           i <= cursor + BatchSize <=> (i <= cursor \/ i \in Batch)
    BY <1>1, <1>2, BoundFacts DEF Batch
  <1>. QED
    BY <1>1, <1>2, <1>3, <1>4, <1>5, <1>6

(* A refund moves the cursor over its batch and takes exactly that batch's *)
(* tickets out of the escrow; the last batch ends the round.               *)
LEMMA RefundIInv ==
    ASSUME IInv, NEW external \in Externals, NEW fee \in Fees, Refund(external, fee)
    PROVE  IInv'
  <1>1. /\ phase = "REFUNDING"
        /\ UNCHANGED <<config, sold, ends, prize, daa, sample>>
        /\ cursor' = cursor + BatchSize
        /\ refunded' = [i \in 1..MaxPurchases |->
                           refunded[i] + (IF i \in Batch THEN RefundOf(i) ELSE 0)]
        /\ costs' = costs + BatchPool
        /\ \A i \in Batch : Spendable(RefundOf(i))
    BY DEF Refund, RefundingLedger
  <1>2. TypeOK /\ LedgerValid
    BY DEF IInv
  <1>3. /\ PurchaseCount' = PurchaseCount
        /\ cursor' \in 1..PurchaseCount
        /\ \A i \in 1..MaxPurchases : RefundOf(i)' = RefundOf(i)
        /\ RefundFee \in Nat /\ config \in Configs /\ config.ticketPrice \in Nat
        /\ PurchaseCount \in Nat /\ PurchaseCount <= MaxPurchases
        /\ MaxPurchases \in Nat
    BY <1>1, <1>2, BatchFacts, EndFacts, ConfigFacts, MoneyFacts, BoundFacts
       DEF PurchaseCount, RefundOf, TicketsOf, EndOf
  <1>4. \A i \in 1..PurchaseCount : RefundOf(i) \in Int
    BY <1>2, <1>3, EndFacts DEF RefundOf
  <1>5. PaidTickets \in Nat /\ PaidTickets' \in Nat /\ PaidTickets' = EndOf(ends, cursor + BatchSize)
        /\ PaidTickets' <= sold /\ PaidTickets <= sold
    BY <1>1, <1>2, <1>3, EndFacts, BatchFacts DEF PaidTickets, EndOf, IInv, EndsWithinSales
  <1>6. RefundedOnce'
    <2>. SUFFICES ASSUME NEW i \in 1..MaxPurchases
                  PROVE refunded'[i] = IF i <= cursor' THEN RefundOf(i) ELSE 0
      BY <1>3 DEF RefundedOnce
    <2>1. refunded[i] = IF i <= cursor THEN RefundOf(i) ELSE 0
      BY DEF IInv, RefundedOnce
    <2>2. i <= cursor' <=> (i <= cursor \/ i \in Batch)
      BY <1>1, <1>2, BatchFacts
    <2>3. i \in Batch => ~(i <= cursor) /\ i \in 1..PurchaseCount
      BY <1>2, <1>1, BatchFacts DEF Batch
    <2>4. i <= cursor => i \in 1..PurchaseCount
      BY <1>1, <1>2, <1>3, BatchFacts
    <2>5. CASE i \in Batch
      BY <2>1, <2>2, <2>3, <2>5, <1>1, <1>4
    <2>6. CASE i \notin Batch
      <3>1. refunded'[i] = refunded[i] + 0
        BY <2>6, <1>1
      <3>2. refunded[i] \in Int
        BY <1>2 DEF TypeOK
      <3>. QED
        BY <2>1, <2>2, <2>6, <3>1, <3>2
    <2>. QED
      BY <2>5, <2>6
  <1>7. /\ refunded' \in [1..MaxPurchases -> Int] /\ costs' \in Int
    <2>1. \A i \in 1..MaxPurchases :
             refunded[i] + (IF i \in Batch THEN RefundOf(i) ELSE 0) \in Int
      BY <1>1, <1>2, <1>4, BatchFacts DEF TypeOK
    <2>2. BatchPool \in Int
      BY <1>1, <1>2, <1>3, BatchFacts DEF BatchPool
    <2>. QED
      BY <1>1, <1>2, <2>1, <2>2 DEF TypeOK
  <1>8. CASE LastBatch
    <2>1. /\ phase' = "REFUNDED" /\ value' = 0 /\ utxoDaa' = utxoDaa
          /\ ownerPaid' = ownerPaid + (Deposit - RefundFee)
      BY <1>8 DEF Refund, Terminal
    <2>2. cursor' = PurchaseCount
      BY <1>1, <1>2, <1>8, BatchFacts
    <2>3. TypeOK'
      BY <1>1, <1>2, <1>3, <1>7, <2>1, MoneyFacts DEF TypeOK, Ended
    <2>4. LedgerValid' /\ CursorSettled' /\ EndsWithinSales' /\ EscrowExact'
      BY <1>1, <1>2, <1>3, <2>1, <2>2
         DEF IInv, LedgerValid, DirectoryCoversSales, CursorSettled, EndsWithinSales, EndOf,
             EscrowExact, PurchaseCount, Live
    <2>5. Settlement'
      <3>1. prize'.record = 0 /\ ownerPaid' = Deposit - RefundFee
        BY <1>1, <2>1, MoneyFacts DEF IInv, Settlement, Live
      <3>2. ASSUME NEW i \in 1..PurchaseCount
            PROVE refunded'[i] = RefundOf(i) /\ refunded'[i] > 0
        <4>1. i \in 1..MaxPurchases /\ i <= cursor'
          BY <1>3, <2>2
        <4>2. refunded'[i] = RefundOf(i)
          BY <1>3, <1>6, <4>1 DEF RefundedOnce
        <4>3. TicketsOf(ends, i) \in Nat /\ TicketsOf(ends, i) >= 1
          BY <1>2, EndFacts
        <4>4. 1 * config.ticketPrice <= TicketsOf(ends, i) * config.ticketPrice
          BY <4>3, <1>3, MulMono
        <4>. QED
          BY <4>2, <4>3, <4>4, <1>3, ConfigFacts, MoneyFacts DEF RefundOf
      <3>3. \A i \in 1..PurchaseCount' : refunded'[i] = RefundOf(i)' /\ refunded'[i] > 0
        <4>. TAKE i \in 1..PurchaseCount'
        <4>1. i \in 1..PurchaseCount /\ i \in 1..MaxPurchases
          BY <1>3
        <4>. QED
          BY <4>1, <3>2, <1>3
      <3>. QED
        BY <3>1, <3>3, <2>1 DEF Settlement, Live
    <2>. QED
      BY <1>6, <2>3, <2>4, <2>5 DEF IInv
  <1>9. CASE ~LastBatch
    <2>1. /\ phase' = "REFUNDING" /\ value' = value - BatchGross /\ utxoDaa' = daa
          /\ ownerPaid' = ownerPaid /\ value' > 0
      BY <1>1, <1>9 DEF Refund, Successor, Spendable
    <2>2. cursor' < PurchaseCount
      BY <1>1, <1>2, <1>3, <1>9, BatchFacts
    <2>3. value' = Deposit + (sold - PaidTickets') * config.ticketPrice
      <3>1. value = Deposit + (sold - PaidTickets) * config.ticketPrice
        BY <1>1 DEF IInv, EscrowExact, Live
      <3>2. BatchGross = (PaidTickets' - PaidTickets) * config.ticketPrice
        BY <1>5 DEF BatchGross
      <3>3. (sold - PaidTickets) * config.ticketPrice - (PaidTickets' - PaidTickets) * config.ticketPrice
              = (sold - PaidTickets') * config.ticketPrice
        <4>1. sold \in Int /\ PaidTickets \in Int /\ PaidTickets' \in Int /\ config.ticketPrice \in Int
          BY <1>2, <1>3, <1>5 DEF TypeOK
        <4>. QED
          BY <4>1, DistributeTwice
      <3>4. sold \in Nat /\ Deposit \in Nat
        BY <1>2, MoneyFacts DEF TypeOK
      <3>5. /\ (sold - PaidTickets) * config.ticketPrice \in Int
            /\ (PaidTickets' - PaidTickets) * config.ticketPrice \in Int
        BY <1>3, <1>5, <3>4
      <3>. QED
        BY <2>1, <3>1, <3>2, <3>3, <3>4, <3>5
    <2>4. TypeOK'
      <3>1. value' \in Int
        BY <1>2, <1>3, <1>5, <2>3, MoneyFacts DEF TypeOK
      <3>. QED
        BY <1>1, <1>2, <1>3, <1>7, <2>1, <3>1 DEF TypeOK, Live
    <2>5. LedgerValid' /\ CursorSettled' /\ EndsWithinSales'
      BY <1>1, <1>2, <1>3, <2>1, <2>2
         DEF IInv, LedgerValid, DirectoryCoversSales, CursorSettled, EndsWithinSales, EndOf,
             PurchaseCount
    <2>6. EscrowExact'
      BY <1>1, <2>3 DEF EscrowExact
    <2>7. Settlement'
      BY <1>1, <2>1 DEF IInv, Settlement, Live
    <2>. QED
      BY <1>6, <2>4, <2>5, <2>6, <2>7 DEF IInv
  <1>. QED
    BY <1>8, <1>9

LEMMA TickIInv == ASSUME IInv, Tick PROVE IInv'
  <1>1. /\ daa' = daa + 1 /\ sample' \in SampleType
        /\ UNCHANGED <<config, phase, sold, ends, cursor, value, utxoDaa,
                       refunded, prize, ownerPaid, costs>>
    BY BoundFacts DEF IInv, TypeOK, Tick, Samples, SampleType, ledger, payouts
  <1>2. TypeOK'
    BY <1>1 DEF IInv, TypeOK
  <1>. QED
    BY <1>1, <1>2, SameDirectory
       DEF IInv, LedgerValid, CursorSettled, EscrowExact, Settlement, RefundOf, TicketsOf, EndOf,
           PurchaseCount

---------------------------------------------------------------------------
(* IInv is an invariant, and so are its parts.                             *)

LEMMA IInvStep == IInv /\ [Next]_vars => IInv'
  <1>. SUFFICES ASSUME IInv, [Next]_vars PROVE IInv'
    OBVIOUS
  <1>1. ASSUME NEW quantity \in 1..config.ticketCap, Buy(quantity) PROVE IInv'
    BY <1>1, BuyIInv
  <1>2. CASE CloseEmpty
    BY <1>2, CloseEmptyIInv
  <1>3. CASE Close
    BY <1>3, CloseIInv
  <1>4. ASSUME NEW hint \in 1..PurchaseCount, NEW fee \in Fees, DrawAndPay(hint, fee)
        PROVE  IInv'
    BY <1>4, DrawIInv
  <1>5. CASE TimeoutRefund
    BY <1>5, TimeoutIInv
  <1>6. ASSUME NEW external \in Externals, NEW fee \in Fees, Refund(external, fee)
        PROVE  IInv'
    BY <1>6, RefundIInv
  <1>7. CASE Tick
    BY <1>7, TickIInv
  <1>8. CASE UNCHANGED vars
    BY <1>8, SameDirectory
       DEF vars, IInv, TypeOK, LedgerValid, CursorSettled, EscrowExact, Settlement, RefundOf,
           TicketsOf, EndOf, PurchaseCount
  <1>. QED
    BY <1>1, <1>2, <1>3, <1>4, <1>5, <1>6, <1>7, <1>8 DEF Next, Spend

(* The three contracts keep the inductive invariant along every behaviour. *)
THEOREM Inductive == Spec => []IInv
  <1>. QED
    BY InitIInv, IInvStep, PTL DEF Spec

(* Every variable stays in its type under any sequence of spends.          *)
THEOREM TypeCorrect == Spec => []TypeOK
  <1>1. IInv => TypeOK
    BY DEF IInv
  <1>. QED
    BY Inductive, <1>1, PTL

(* Every ledger a chain of spends can reach passes the client's            *)
(* validateLedger, for every configuration and every sequence of purchases.*)
THEOREM LedgersAreValid == Spec => []LedgerValid
  <1>1. IInv => LedgerValid
    BY DEF IInv
  <1>. QED
    BY Inductive, <1>1, PTL

(* The amount of the state UTXO is always the one the templates recompute. *)
THEOREM EscrowIsExact == Spec => []EscrowExact
  <1>1. IInv => EscrowExact
    BY DEF IInv
  <1>. QED
    BY Inductive, <1>1, PTL

(* However refunds are batched, each buyer up to the cursor was refunded   *)
(* once and in full, and nobody behind it.                                 *)
THEOREM RefundsAreExact == Spec => []RefundedOnce
  <1>1. IInv => RefundedOnce
    BY DEF IInv
  <1>. QED
    BY Inductive, <1>1, PTL

(* A round ends in exactly one way, with the payouts that way promises.    *)
THEOREM RoundsSettle == Spec => []Settlement
  <1>1. IInv => Settlement
    BY DEF IInv
  <1>. QED
    BY Inductive, <1>1, PTL

---------------------------------------------------------------------------
(* No live round is ever stuck on an amount.                               *)

LEMMA EscrowInBounds ==
    ASSUME IInv, NEW n \in Nat, n <= sold
    PROVE  /\ n * config.ticketPrice \in Nat
           /\ Deposit + n * config.ticketPrice <= ValueLimit
           /\ Spendable(Deposit + n * config.ticketPrice)
  <1>1. /\ config \in Configs /\ sold \in Nat /\ sold <= config.ticketCap
        /\ config.ticketCap \in Nat /\ config.ticketPrice \in Nat
        /\ Deposit + config.ticketCap * config.ticketPrice <= ValueLimit
    BY ConfigFacts DEF IInv, TypeOK, LedgerValid
  <1>2. n * config.ticketPrice <= config.ticketCap * config.ticketPrice
    BY <1>1, MulMono
  <1>3. n * config.ticketPrice \in Nat /\ config.ticketCap * config.ticketPrice \in Nat
    BY <1>1
  <1>. QED
    BY <1>1, <1>2, <1>3, MoneyFacts DEF Spendable

LEMMA PayableInv == IInv => NeverUnpayable
  <1>. SUFFICES ASSUME IInv PROVE NeverUnpayable
    OBVIOUS
  <1>1. /\ TypeOK /\ LedgerValid /\ EndsWithinSales
        /\ config \in Configs /\ sold \in Nat /\ config.ticketPrice \in Nat
        /\ config.ticketPrice >= MinPrice
        /\ Deposit \in Nat /\ RefundFee \in Nat /\ Finalizer \in Nat
        /\ MaxPayFee \in Nat /\ MinPrice \in Nat /\ ValueLimit \in Nat
    BY ConfigFacts, MoneyFacts DEF IInv, TypeOK
  <1>2. phase \in Live => Spendable(value)
    <2>. SUFFICES ASSUME phase \in Live PROVE Spendable(value)
      OBVIOUS
    <2>1. cursor \in 0..PurchaseCount
      BY EndFacts DEF IInv, CursorSettled, TypeOK
    <2>2. PaidTickets \in Nat /\ PaidTickets <= sold
      BY <1>1, <2>1, EndFacts DEF PaidTickets, EndsWithinSales
    <2>3. sold - PaidTickets \in Nat /\ sold - PaidTickets <= sold
      BY <1>1, <2>2
    <2>. QED
      BY <2>3, EscrowInBounds DEF IInv, EscrowExact
  <1>3. ASSUME phase = "SEALED", NEW fee \in 1..MaxPayFee
        PROVE  PrizeOf(fee) >= MinPrice /\ Spendable(PrizeOf(fee))
    <2>1. sold >= 3
      BY <1>1, <1>3, ConfigFacts DEF LedgerValid
    <2>2. 3 * config.ticketPrice <= sold * config.ticketPrice
      BY <1>1, <2>1, MulMono
    <2>3. /\ sold * config.ticketPrice \in Nat
          /\ Deposit + sold * config.ticketPrice <= ValueLimit
      BY <1>1, EscrowInBounds
    <2>4. config.ticketPrice * sold = sold * config.ticketPrice
      BY <1>1
    <2>. QED
      BY <1>1, <1>3, <2>2, <2>3, <2>4, MoneyFacts DEF PrizeOf, Spendable
  <1>4. ASSUME phase = "REFUNDING", NEW i \in Batch
        PROVE  Spendable(RefundOf(i))
    <2>1. i \in 1..PurchaseCount /\ i - 1 \in 0..PurchaseCount /\ i \in 0..PurchaseCount
      <3>1. i \in 1..PurchaseCount
        BY <1>1, <1>4, BatchFacts
      <3>. QED
        BY <3>1, <1>1, EndFacts
    <2>2. /\ TicketsOf(ends, i) \in Nat /\ TicketsOf(ends, i) >= 1
          /\ TicketsOf(ends, i) <= sold
      <3>1. /\ TicketsOf(ends, i) \in Nat /\ TicketsOf(ends, i) >= 1
            /\ ends[i] = EndOf(ends, i)
        BY <2>1, <1>1, EndFacts
      <3>2. EndOf(ends, i) <= sold /\ EndOf(ends, i) \in Nat /\ EndOf(ends, i - 1) \in Nat
        BY <2>1, <1>1, EndFacts DEF EndsWithinSales
      <3>. QED
        BY <3>1, <3>2, <1>1 DEF TicketsOf
    <2>3. 1 * config.ticketPrice <= TicketsOf(ends, i) * config.ticketPrice
      BY <1>1, <2>2, MulMono
    <2>4. /\ TicketsOf(ends, i) * config.ticketPrice \in Nat
          /\ Deposit + TicketsOf(ends, i) * config.ticketPrice <= ValueLimit
      BY <2>2, EscrowInBounds
    <2>. QED
      BY <1>1, <2>3, <2>4, MoneyFacts DEF RefundOf, Spendable
  <1>5. ASSUME phase = "REFUNDING", NEW fee \in 1..MaxPayFee
        PROVE  \E external \in 0..MaxPayFee : Spendable(external + BatchPool - fee)
    <2>1. /\ BatchSize \in Nat /\ BatchSize > 0 /\ BatchSize <= MaxRefundRecords
          /\ MaxRefundRecords \in Nat
      <3>1. PurchaseCount - cursor \in Int
        BY <1>1, <1>5, BatchFacts, EndFacts
      <3>. QED
        BY <1>1, <1>5, <3>1, BatchFacts, BoundFacts DEF BatchSize
    <2>2. /\ BatchSize * RefundFee >= 1 * RefundFee
          /\ BatchSize * RefundFee <= MaxRefundRecords * RefundFee
          /\ BatchSize * RefundFee \in Nat /\ MaxRefundRecords * RefundFee \in Nat
      BY <1>1, <2>1, MulMono
    <2>3. (MaxRefundRecords + 1) * RefundFee = MaxRefundRecords * RefundFee + RefundFee
      BY <1>1, <2>1
    <2>4. BatchPool \in Nat /\ BatchPool > 0 /\ BatchPool <= ValueLimit
      BY <1>1, <2>2, <2>3, MoneyFacts DEF BatchPool
    <2>5. fee \in 0..MaxPayFee /\ Spendable(fee + BatchPool - fee)
      BY <1>1, <2>4 DEF Spendable
    <2>. QED
      BY <2>5
  <1>6. ASSUME phase = "REFUNDING"
        PROVE  Spendable(IF LastBatch THEN Deposit - RefundFee ELSE value - BatchGross)
    <2>1. CASE LastBatch
      BY <2>1, <1>1, MoneyFacts DEF Spendable
    <2>2. CASE ~LastBatch
      <3>1. /\ PaidTickets \in Nat /\ EndOf(ends, cursor + BatchSize) \in Nat
            /\ EndOf(ends, cursor + BatchSize) <= sold
        BY <1>1, <1>6, BatchFacts, EndFacts DEF PaidTickets, EndsWithinSales, LedgerValid
      <3>2. value = Deposit + (sold - PaidTickets) * config.ticketPrice
        BY <1>6 DEF IInv, EscrowExact, Live
      <3>3. (sold - PaidTickets) * config.ticketPrice - BatchGross
              = (sold - EndOf(ends, cursor + BatchSize)) * config.ticketPrice
        <4>1. /\ sold \in Int /\ PaidTickets \in Int /\ config.ticketPrice \in Int
              /\ EndOf(ends, cursor + BatchSize) \in Int
          BY <1>1, <3>1
        <4>. QED
          BY <4>1, DistributeTwice DEF BatchGross
      <3>4. /\ sold - EndOf(ends, cursor + BatchSize) \in Nat
            /\ sold - EndOf(ends, cursor + BatchSize) <= sold
        BY <1>1, <3>1
      <3>5. Spendable(Deposit + (sold - EndOf(ends, cursor + BatchSize)) * config.ticketPrice)
        BY <3>4, EscrowInBounds
      <3>6. /\ (sold - PaidTickets) * config.ticketPrice \in Int /\ BatchGross \in Int
        BY <1>1, <3>1 DEF BatchGross
      <3>7. value - BatchGross
              = Deposit + (sold - EndOf(ends, cursor + BatchSize)) * config.ticketPrice
        BY <1>1, <3>2, <3>3, <3>6
      <3>. QED
        BY <2>2, <3>5, <3>7
    <2>. QED
      BY <2>1, <2>2
  <1>7. phase = "REFUNDING" => BatchSize > 0
    BY <1>1, BatchFacts
  <1>. QED
    BY <1>2, <1>3, <1>4, <1>5, <1>6, <1>7 DEF NeverUnpayable

(* Prices, caps and counts that validateConfig admits never put an output  *)
(* the contracts demand out of the range their own checkFee allows.        *)
THEOREM NothingUnpayable == Spec => []NeverUnpayable
  <1>. QED
    BY Inductive, PayableInv, PTL

---------------------------------------------------------------------------
(* What a step may never do.                                               *)

(* Two live tuples are ordered at the first place in which they differ.    *)
LEMMA FurtherAt ==
    ASSUME NEW a, NEW b, NEW c, NEW d, NEW e, NEW f, 
           {a, b, c, d, e, f} \subseteq Int,
           a < d \/ (a = d /\ b < e) \/ (a = d /\ b = e /\ c < f)
    PROVE  Further(<<0, a, b, c>>, <<0, d, e, f>>)
  <1>. DEFINE p == <<0, a, b, c>>
              q == <<0, d, e, f>>
  <1>1. /\ p[1] = 0 /\ p[2] = a /\ p[3] = b /\ p[4] = c
        /\ q[1] = 0 /\ q[2] = d /\ q[3] = e /\ q[4] = f
    OBVIOUS
  <1>. HIDE DEF p, q
  <1>2. ASSUME a < d PROVE Further(p, q)
    <2>1. 2 \in 2..4 /\ p[2] < q[2] /\ \A j \in 2..(2 - 1) : p[j] = q[j]
      BY <1>1, <1>2
    <2>. QED
      BY <1>1, <2>1 DEF Further
  <1>3. ASSUME a = d, b < e PROVE Further(p, q)
    <2>1. 3 \in 2..4 /\ p[3] < q[3] /\ \A j \in 2..(3 - 1) : p[j] = q[j]
      BY <1>1, <1>3
    <2>. QED
      BY <1>1, <2>1 DEF Further
  <1>4. ASSUME a = d, b = e, c < f PROVE Further(p, q)
    <2>1. 4 \in 2..4 /\ p[4] < q[4] /\ \A j \in 2..(4 - 1) : p[j] = q[j]
      <3>1. \A j \in 2..(4 - 1) : j = 2 \/ j = 3
        OBVIOUS
      <3>. QED
        BY <1>1, <1>4, <3>1
    <2>. QED
      BY <1>1, <2>1 DEF Further
  <1>5. Further(p, q)
    BY <1>2, <1>3, <1>4
  <1>. QED
    BY <1>5 DEF p, q

LEMMA FurtherEnded ==
    ASSUME NEW a, NEW b, NEW c, NEW d, NEW e, NEW f
    PROVE  Further(<<0, a, b, c>>, <<1, d, e, f>>)
  BY DEF Further

(* The tuple of a live round, and of one that has ended.                   *)
LEMMA ProgressTuple ==
    /\ phase \in Live => Progress = <<0, PhaseNumber, PurchaseCount, cursor>>
    /\ phase \in Ended => Progress = <<1, PhaseNumber, PurchaseCount, cursor>>
    /\ PhaseNumber \in Int
    /\ phase = "OPEN" => PhaseNumber = 1
    /\ phase = "SEALED" => PhaseNumber = 2
    /\ phase = "REFUNDING" => PhaseNumber = 5
  BY DEF Progress, PhaseNumber, Live, Ended

LEMMA ProgressTupleNext ==
    /\ phase' \in Live => Progress' = <<0, PhaseNumber', PurchaseCount', cursor'>>
    /\ phase' \in Ended => Progress' = <<1, PhaseNumber', PurchaseCount', cursor'>>
    /\ PhaseNumber' \in Int
    /\ phase' = "OPEN" => PhaseNumber' = 1
    /\ phase' = "SEALED" => PhaseNumber' = 2
    /\ phase' = "REFUNDING" => PhaseNumber' = 5
  BY DEF Progress, PhaseNumber, Live, Ended

LEMMA SpendIsFurther == ASSUME IInv, Spend PROVE Further(Progress, Progress')
  <1>1. /\ PurchaseCount \in Nat /\ cursor \in Nat
        /\ TypeOK /\ LedgerValid
    BY EndFacts DEF IInv, TypeOK
  <1>2. ASSUME phase \in Live, phase' \in Ended PROVE Further(Progress, Progress')
    BY <1>2, ProgressTuple, ProgressTupleNext, FurtherEnded
  <1>3. ASSUME phase \in Live, phase' \in Live,
               PurchaseCount' \in Int, cursor' \in Int,
               \/ PhaseNumber < PhaseNumber'
               \/ PhaseNumber = PhaseNumber' /\ PurchaseCount < PurchaseCount'
               \/ /\ PhaseNumber = PhaseNumber' /\ PurchaseCount = PurchaseCount'
                  /\ cursor < cursor'
        PROVE  Further(Progress, Progress')
    BY <1>1, <1>3, ProgressTuple, ProgressTupleNext, FurtherAt
  <1>4. ASSUME NEW quantity \in 1..config.ticketCap, Buy(quantity)
        PROVE  Further(Progress, Progress')
    <2>1. phase = "OPEN" /\ phase' = "OPEN" /\ cursor' = cursor
      BY <1>4 DEF Buy
    <2>2. PurchaseCount' = PurchaseCount + 1
      BY <1>4, ConfigFacts DEF IInv, TypeOK, Buy, PurchaseCount
    <2>. QED
      BY <1>1, <1>3, <2>1, <2>2, ProgressTuple, ProgressTupleNext DEF Live
  <1>5. ASSUME CloseEmpty PROVE Further(Progress, Progress')
    BY <1>2, <1>5 DEF CloseEmpty, Live, Ended
  <1>6. ASSUME Close PROVE Further(Progress, Progress')
    <2>1. /\ phase = "OPEN" /\ phase' \in {"SEALED", "REFUNDING"}
          /\ cursor' = cursor /\ PurchaseCount' = PurchaseCount
      BY <1>6 DEF Close, ClosedPhase, PurchaseCount
    <2>. QED
      BY <1>1, <1>3, <2>1, ProgressTuple, ProgressTupleNext DEF Live
  <1>7. ASSUME NEW hint, NEW fee, DrawAndPay(hint, fee) PROVE Further(Progress, Progress')
    BY <1>2, <1>7 DEF DrawAndPay, SealedLedger, Live, Ended
  <1>8. ASSUME TimeoutRefund PROVE Further(Progress, Progress')
    <2>1. /\ phase = "SEALED" /\ phase' = "REFUNDING"
          /\ cursor' = cursor /\ PurchaseCount' = PurchaseCount
      BY <1>8 DEF TimeoutRefund, SealedLedger, PurchaseCount
    <2>. QED
      BY <1>1, <1>3, <2>1, ProgressTuple, ProgressTupleNext DEF Live
  <1>9. ASSUME NEW external, NEW fee, Refund(external, fee) PROVE Further(Progress, Progress')
    <2>1. /\ phase = "REFUNDING" /\ phase' \in {"REFUNDING", "REFUNDED"}
          /\ cursor' = cursor + BatchSize /\ PurchaseCount' = PurchaseCount
      BY <1>9 DEF Refund, RefundingLedger, PurchaseCount
    <2>2. BatchSize \in Nat /\ BatchSize > 0
      BY <1>1, <2>1, BatchFacts
    <2>3. CASE phase' = "REFUNDED"
      BY <1>2, <2>1, <2>3 DEF Live, Ended
    <2>4. CASE phase' = "REFUNDING"
      BY <1>1, <1>3, <2>1, <2>2, <2>4, ProgressTuple, ProgressTupleNext DEF Live
    <2>. QED
      BY <2>1, <2>3, <2>4
  <1>. QED
    BY <1>4, <1>5, <1>6, <1>7, <1>8, <1>9 DEF Spend

(* However many spends lie between two views of a round, the one that the  *)
(* order of progress.mjs puts higher is the later one: each accepted spend *)
(* moves up.                                                               *)
THEOREM EverySpendAdvances == Spec => SpendsAdvance
  <1>1. IInv /\ [Next]_vars => [Spend => Further(Progress, Progress')]_vars
    BY SpendIsFurther
  <1>. QED
    BY Inductive, <1>1, PTL DEF Spec, SpendsAdvance

---------------------------------------------------------------------------
(* Where the money is.                                                     *)

LEMMA EndsGrow ==
    ASSUME TypeOK, LedgerValid, NEW i \in 0..PurchaseCount, NEW j \in 0..PurchaseCount, i <= j
    PROVE  EndOf(ends, i) <= EndOf(ends, j)
  <1>. DEFINE Bad == {k \in Nat : k \in i..PurchaseCount /\ EndOf(ends, k) < EndOf(ends, i)}
  <1>1. /\ PurchaseCount \in Nat /\ \A k \in 0..PurchaseCount : EndOf(ends, k) \in Nat
        /\ \A k \in 1..PurchaseCount : EndOf(ends, k - 1) < EndOf(ends, k)
    <2>1. \A k \in 1..PurchaseCount : EndOf(ends, k - 1) < ends[k] /\ ends[k] = EndOf(ends, k)
      BY EndFacts DEF LedgerValid, DirectoryCoversSales, PurchaseCount
    <2>. QED
      BY <2>1, EndFacts
  <1>2. Bad = {}
    <2>. SUFFICES ASSUME Bad # {} PROVE FALSE
      OBVIOUS
    <2>1. PICK m \in Bad : \A k \in Bad : m <= k
      <3>1. Bad \in SUBSET Nat
        OBVIOUS
      <3>. HIDE DEF Bad
      <3>. QED
        BY <3>1, LeastOf
    <2>2. m \in 0..PurchaseCount /\ i <= m /\ EndOf(ends, m) < EndOf(ends, i)
      BY <1>1, <2>1
    <2>3. m # i /\ m - 1 \in 0..PurchaseCount /\ i <= m - 1 /\ m \in 1..PurchaseCount
      BY <1>1, <2>2
    <2>4. m - 1 \notin Bad
      <3>1. m - 1 \in Nat /\ ~(m <= m - 1)
        BY <2>3
      <3>. HIDE DEF Bad
      <3>. QED
        BY <2>1, <3>1
    <2>5. ~(EndOf(ends, m - 1) < EndOf(ends, i))
      BY <1>1, <2>3, <2>4
    <2>. QED
      BY <1>1, <2>2, <2>3, <2>5
  <1>3. j \notin Bad
    <2>. HIDE DEF Bad
    <2>. QED
      BY <1>2
  <1>. QED
    BY <1>1, <1>3

LEMMA SumOfRefunds ==
    SumOver(refunded, 1..MaxPurchases) = MapThenSumSet(LAMBDA i : refunded[i], 1..MaxPurchases)
  BY DEF MapThenSumSet, MapThenFoldSet, SumOver, Adds, Pick

(* What the buyers have received is the price of the tickets before the    *)
(* cursor, less a fee for each record.                                     *)
LEMMA RefundsSoFar ==
    ASSUME IInv
    PROVE  SumOver(refunded, 1..MaxPurchases) = PaidTickets * config.ticketPrice - cursor * RefundFee
  <1>1. /\ cursor \in Nat /\ cursor <= PurchaseCount /\ PurchaseCount \in Nat /\ PurchaseCount <= MaxPurchases
        /\ MaxPurchases \in Nat
        /\ \A i \in 0..PurchaseCount : EndOf(ends, i) \in Nat
        /\ \A i \in 1..PurchaseCount : ends[i] = EndOf(ends, i)
    BY EndFacts, BoundFacts DEF IInv, TypeOK, CursorSettled
  <1>p. PICK price \in Nat, charge \in Nat : price = config.ticketPrice /\ charge = RefundFee
    BY ConfigFacts, MoneyFacts DEF IInv, TypeOK
  <1>. DEFINE Reached(k) == IF k <= cursor THEN k ELSE cursor
              Paid(k) == EndOf(ends, Reached(k)) * price - Reached(k) * charge
              P == [k \in 0..MaxPurchases |-> Paid(k)]
  <1>3. ASSUME NEW k \in 1..MaxPurchases
        PROVE  refunded[k] = Paid(k) - Paid(k - 1) /\ Paid(k) \in Int /\ Paid(k - 1) \in Int
    <2>1. refunded[k] = IF k <= cursor THEN RefundOf(k) ELSE 0
      BY DEF IInv, RefundedOnce
    <2>2. CASE k <= cursor
      <3>1. Reached(k) = k /\ Reached(k - 1) = k - 1 /\ k \in 1..PurchaseCount /\ k - 1 \in 0..PurchaseCount
            /\ k \in 0..PurchaseCount
        BY <1>1, <2>2
      <3>2. PICK a \in Nat, b \in Nat : a = EndOf(ends, k) /\ b = EndOf(ends, k - 1)
        BY <1>1, <3>1
      <3>3. refunded[k] = (a - b) * price - charge
        BY <1>1, <1>p, <2>1, <2>2, <3>1, <3>2 DEF RefundOf, TicketsOf
      <3>4. (a - b) * price = a * price - b * price
            /\ a * price \in Int /\ b * price \in Int
        BY <3>2, Distribute
      <3>5. k * charge = (k - 1) * charge + charge /\ k * charge \in Int /\ (k - 1) * charge \in Int
        BY <1>1
      <3>6. Paid(k) = a * price - k * charge
            /\ Paid(k - 1) = b * price - (k - 1) * charge
        BY <3>1, <3>2
      <3>7. PICK x \in Int, y \in Int, z \in Int : x = a * price /\ y = b * price /\ z = (k - 1) * charge
        BY <3>4, <3>5
      <3>8. refunded[k] = (x - y) - charge /\ Paid(k) = x - (z + charge) /\ Paid(k - 1) = y - z
        BY <3>3, <3>4, <3>5, <3>6, <3>7
      <3>. HIDE DEF Paid
      <3>. QED
        BY <3>8
    <2>3. CASE ~(k <= cursor)
      <3>1. Reached(k) = cursor /\ Reached(k - 1) = cursor
        BY <1>1, <2>3
      <3>2. PICK c \in Nat : c = EndOf(ends, cursor)
        BY <1>1
      <3>3. c * price \in Int /\ cursor * charge \in Int
        BY <1>1, <3>2
      <3>. QED
        BY <2>1, <2>3, <3>1, <3>2, <3>3
    <2>. QED
      BY <2>2, <2>3
  <1>4. Reached(0) = 0 /\ EndOf(ends, 0) = 0 /\ Paid(0) = 0
    <2>1. Reached(0) = 0 /\ EndOf(ends, 0) = 0
      BY <1>1 DEF EndOf
    <2>. QED
      BY <1>p, <2>1
  <1>5. \A k \in 0..MaxPurchases : P[k] = Paid(k) /\ Paid(k) \in Int
    <2>. SUFFICES ASSUME NEW k \in 0..MaxPurchases PROVE Paid(k) \in Int
      OBVIOUS
    <2>1. CASE k = 0
      BY <1>4, <2>1
    <2>2. CASE k # 0
      <3>1. k \in 1..MaxPurchases
        BY <1>1, <2>2
      <3>. QED
        BY <1>3, <3>1
    <2>. QED
      BY <2>1, <2>2
  <1>6. SumOver(refunded, 1..MaxPurchases) = P[MaxPurchases] - P[0]
    <2>1. \A k \in 1..MaxPurchases : refunded[k] = P[k] - P[k - 1]
      <3>. SUFFICES ASSUME NEW k \in 1..MaxPurchases PROVE refunded[k] = P[k] - P[k - 1]
        OBVIOUS
      <3>1. k \in 0..MaxPurchases /\ k - 1 \in 0..MaxPurchases
        BY <1>1
      <3>2. P[k] = Paid(k) /\ P[k - 1] = Paid(k - 1)
        BY <1>5, <3>1
      <3>. HIDE DEF Paid, P
      <3>. QED
        BY <1>3, <3>2
    <2>2. \A k \in 0..MaxPurchases : P[k] \in Int
      BY <1>5
    <2>. HIDE DEF P
    <2>. QED
      BY <1>1, <2>1, <2>2, Telescope
  <1>7. P[0] = 0 /\ P[MaxPurchases] = Paid(MaxPurchases) /\ Paid(MaxPurchases) \in Int
    <2>1. 0 \in 0..MaxPurchases /\ MaxPurchases \in 0..MaxPurchases
      BY <1>1
    <2>. HIDE DEF Paid, P, Reached
    <2>. QED
      BY <1>4, <1>5, <2>1
  <1>8. Reached(MaxPurchases) = cursor
    BY <1>1
  <1>9. SumOver(refunded, 1..MaxPurchases) = Paid(MaxPurchases)
    <2>. HIDE DEF Paid, P
    <2>. QED
      BY <1>6, <1>7
  <1>. QED
    BY <1>p, <1>8, <1>9 DEF PaidTickets

(* What left the escrow and is not with the buyers, in each phase.         *)
SpentExact ==
    /\ phase \in Ended => value = 0
    /\ phase \in Live => prize.amount = 0 /\ costs = cursor * RefundFee
    /\ phase = "EMPTY" => prize.amount = 0 /\ costs = 0
    /\ phase = "PAID" => prize.amount + costs = sold * config.ticketPrice
    /\ phase = "REFUNDED" => prize.amount = 0 /\ costs = cursor * RefundFee + RefundFee

LEMMA SpentStep == ASSUME IInv, SpentExact, [Next]_vars PROVE SpentExact'
  <1>1. /\ sold \in Nat /\ config.ticketPrice \in Nat /\ sold * config.ticketPrice \in Int
        /\ cursor \in Nat /\ RefundFee \in Nat /\ Deposit \in Nat /\ Finalizer \in Nat
        /\ costs \in Int /\ 0 * RefundFee = 0
    BY ConfigFacts, MoneyFacts DEF IInv, TypeOK
  <1>2. ASSUME NEW quantity \in 1..config.ticketCap, Buy(quantity) PROVE SpentExact'
    BY <1>2 DEF Buy, SpentExact, Live, Ended, payouts
  <1>3. CASE CloseEmpty
    <2>1. phase = "OPEN" /\ phase' = "EMPTY" /\ value' = 0 /\ sold = 0 /\ prize' = prize
          /\ costs' = costs + value - Deposit
      BY <1>3 DEF CloseEmpty, Terminal
    <2>2. cursor = 0 /\ PaidTickets = 0 /\ value = Deposit
      <3>1. cursor = 0 /\ PaidTickets = 0
        BY <2>1 DEF IInv, LedgerValid, PaidTickets, EndOf
      <3>2. value = Deposit + (sold - PaidTickets) * config.ticketPrice
        BY <2>1 DEF IInv, EscrowExact, Live
      <3>3. (sold - PaidTickets) * config.ticketPrice = 0
        BY <1>1, <2>1, <3>1
      <3>. QED
        BY <1>1, <3>1, <3>2, <3>3
    <2>3. prize.amount = 0 /\ costs = 0
      BY <1>1, <2>1, <2>2 DEF SpentExact, Live
    <2>. QED
      BY <1>1, <2>1, <2>2, <2>3 DEF SpentExact, Live, Ended
  <1>4. CASE Close
    BY <1>4 DEF Close, ClosedPhase, SpentExact, Live, Ended, payouts
  <1>5. ASSUME NEW hint \in 1..PurchaseCount, NEW fee \in Fees, DrawAndPay(hint, fee) PROVE SpentExact'
    <2>1. phase = "SEALED" /\ phase' = "PAID" /\ value' = 0 /\ UNCHANGED <<sold, config>>
          /\ prize'.amount = PrizeOf(fee) /\ costs' = costs + Finalizer + fee /\ fee \in Nat
      BY <1>5, InputAssumption DEF DrawAndPay, SealedLedger, Terminal
    <2>2. costs = 0
      BY <1>1, <2>1 DEF SpentExact, Live, IInv, LedgerValid
    <2>3. PrizeOf(fee) + (Finalizer + fee) = sold * config.ticketPrice
      BY <1>1, <2>1 DEF PrizeOf
    <2>. QED
      BY <1>1, <2>1, <2>2, <2>3 DEF SpentExact, Live, Ended
  <1>6. CASE TimeoutRefund
    BY <1>6 DEF TimeoutRefund, SealedLedger, SpentExact, Live, Ended, payouts
  <1>7. ASSUME NEW external \in Externals, NEW fee \in Fees, Refund(external, fee) PROVE SpentExact'
    <2>1. /\ phase = "REFUNDING" /\ UNCHANGED <<sold, config, prize>>
          /\ costs' = costs + BatchPool /\ cursor' = cursor + BatchSize
          /\ \/ LastBatch /\ value' = 0 /\ phase' = "REFUNDED"
             \/ ~LastBatch /\ phase' = phase
      BY <1>7 DEF Refund, RefundingLedger, Terminal
    <2>2. BatchSize \in Nat
      BY <2>1, BatchFacts DEF IInv
    <2>3. prize.amount = 0 /\ costs = cursor * RefundFee
      BY <2>1 DEF SpentExact, Live
    <2>4. (cursor + BatchSize) * RefundFee = cursor * RefundFee + BatchSize * RefundFee
          /\ cursor * RefundFee \in Int /\ BatchSize * RefundFee \in Int
      BY <1>1, <2>2
    <2>5. costs' = cursor' * RefundFee + (IF LastBatch THEN RefundFee ELSE 0)
      BY <1>1, <2>1, <2>3, <2>4 DEF BatchPool
    <2>. QED
      BY <1>1, <2>1, <2>3, <2>5 DEF SpentExact, Live, Ended
  <1>8. CASE Tick
    BY <1>8 DEF Tick, SpentExact, ledger, payouts
  <1>9. CASE UNCHANGED vars
    BY <1>9 DEF vars, SpentExact
  <1>. QED
    BY <1>2, <1>3, <1>4, <1>5, <1>6, <1>7, <1>8, <1>9 DEF Next, Spend

(* Nothing is created or lost: the deposit and every ticket's price are in *)
(* the state UTXO, with the buyers, the winner or the creator, or were     *)
(* spent on executors and fees, whatever the batches and the fees.         *)
THEOREM MoneyIsConserved == Spec => []Conserved
  <1>1. Init => SpentExact
    <2>. SUFFICES ASSUME Init PROVE SpentExact
      OBVIOUS
    <2>1. phase = "OPEN" /\ prize.amount = 0 /\ costs = 0 /\ cursor * RefundFee = 0
      BY MoneyFacts DEF Init
    <2>. QED
      BY <2>1 DEF SpentExact, Ended
  <1>2. IInv /\ SpentExact /\ [Next]_vars => SpentExact'
    BY SpentStep
  <1>3. IInv /\ SpentExact => Conserved
    <2>. SUFFICES ASSUME IInv, SpentExact PROVE Conserved
      OBVIOUS
    <2>1. SumOver(refunded, 1..MaxPurchases) = PaidTickets * config.ticketPrice - cursor * RefundFee
      BY RefundsSoFar
    <2>2. /\ sold \in Nat /\ config.ticketPrice \in Nat /\ cursor \in Nat /\ RefundFee \in Nat /\ Deposit \in Nat
          /\ value \in Nat /\ costs \in Int /\ ownerPaid \in Int /\ prize.amount \in Int
          /\ PurchaseCount \in Nat /\ cursor <= PurchaseCount
      BY EndFacts, ConfigFacts, MoneyFacts DEF IInv, TypeOK, CursorSettled
    <2>3. PaidTickets \in Nat
      BY <2>2, EndFacts DEF IInv, PaidTickets
    <2>4. /\ (sold - PaidTickets) * config.ticketPrice = sold * config.ticketPrice - PaidTickets * config.ticketPrice
          /\ sold * config.ticketPrice \in Int /\ PaidTickets * config.ticketPrice \in Int /\ cursor * RefundFee \in Int
      BY <2>2, <2>3
    <2>5. Deposit + sold * config.ticketPrice
             = value + (PaidTickets * config.ticketPrice - cursor * RefundFee) + prize.amount + ownerPaid + costs
      <3>1. CASE phase \in Live
        <4>1. value = Deposit + (sold - PaidTickets) * config.ticketPrice /\ ownerPaid = 0
              /\ prize.amount = 0 /\ costs = cursor * RefundFee
          BY <3>1 DEF IInv, EscrowExact, Settlement, SpentExact
        <4>. QED
          BY <2>2, <2>4, <4>1
      <3>2. CASE phase = "EMPTY"
        <4>1. /\ value = 0 /\ ownerPaid = Deposit /\ prize.amount = 0 /\ costs = 0 /\ cursor = 0
              /\ sold = 0 /\ PaidTickets = 0
          BY <2>2, <3>2 DEF IInv, Settlement, SpentExact, CursorSettled, Ended, LedgerValid, PaidTickets, EndOf
        <4>2. sold * config.ticketPrice = 0 /\ PaidTickets * config.ticketPrice = 0 /\ cursor * RefundFee = 0
          BY <2>2, <4>1
        <4>. QED
          BY <2>2, <4>1, <4>2
      <3>3. CASE phase = "PAID"
        <4>1. /\ value = 0 /\ ownerPaid = Deposit /\ prize.amount + costs = sold * config.ticketPrice
              /\ cursor = 0 /\ PaidTickets = 0
          BY <2>2, <3>3 DEF IInv, Settlement, SpentExact, CursorSettled, Ended, PaidTickets, EndOf
        <4>2. PaidTickets * config.ticketPrice = 0 /\ cursor * RefundFee = 0
          BY <2>2, <4>1
        <4>3. PICK x \in Int, y \in Int, z \in Int :
                 x = sold * config.ticketPrice /\ y = PaidTickets * config.ticketPrice /\ z = cursor * RefundFee
          BY <2>4
        <4>4. y = 0 /\ z = 0 /\ prize.amount + costs = x /\ value = 0 /\ ownerPaid = Deposit
          BY <4>1, <4>2, <4>3
        <4>5. Deposit + x = value + (y - z) + prize.amount + ownerPaid + costs
          <5>1. /\ Deposit \in Int /\ costs \in Int /\ prize.amount \in Int
            BY <2>2
          <5>2. PICK p \in Int : p = prize.amount
            BY <5>1
          <5>3. p + costs = x
            BY <4>4, <5>2
          <5>4. Deposit + x = 0 + (0 - 0) + p + Deposit + costs
            BY <5>1, <5>2, <5>3
          <5>. QED
            BY <4>4, <5>2, <5>4
        <4>. QED
          BY <4>3, <4>5
      <3>4. CASE phase = "REFUNDED"
        <4>1. /\ value = 0 /\ ownerPaid = Deposit - RefundFee /\ prize.amount = 0
              /\ costs = cursor * RefundFee + RefundFee /\ cursor = PurchaseCount
          BY <3>4 DEF IInv, Settlement, SpentExact, CursorSettled, Ended
        <4>2. PaidTickets = sold
          BY <4>1 DEF IInv, LedgerValid, DirectoryCoversSales, PaidTickets, PurchaseCount
        <4>3. PaidTickets * config.ticketPrice = sold * config.ticketPrice
          BY <4>2
        <4>. QED
          BY <2>2, <2>4, <4>1, <4>3
      <3>. QED
        BY <3>1, <3>2, <3>3, <3>4 DEF IInv, TypeOK, Ended
    <2>6. PICK total : total = SumOver(refunded, 1..MaxPurchases)
      OBVIOUS
    <2>7. Deposit + sold * config.ticketPrice = value + total + prize.amount + ownerPaid + costs
      BY <2>1, <2>5, <2>6
    <2>8. total = MapThenSumSet(LAMBDA i : refunded[i], 1..MaxPurchases)
      BY <2>6, SumOfRefunds
    <2>. QED
      BY <2>7, <2>8 DEF Conserved
  <1>. QED
    BY <1>1, <1>2, <1>3, Inductive, InitIInv, IInvStep, PTL DEF Spec

---------------------------------------------------------------------------
(* The draw.                                                               *)

LEMMA Division ==
    ASSUME NEW v \in Nat, NEW n \in Nat \ {0}
    PROVE  /\ v \div n \in Nat /\ v % n \in Nat /\ v % n < n
           /\ v = (v \div n) * n + (v % n)
  OBVIOUS

LEMMA QuotientBound ==
    ASSUME NEW a \in Int, NEW b \in Int, NEW n \in Nat \ {0}, NEW r \in Nat, r < n, a * n + r < b * n
    PROVE  a < b
  <1>. SUFFICES ASSUME b <= a PROVE FALSE
    OBVIOUS
  <1>1. b * n <= a * n
    BY MulMono
  <1>2. PICK x \in Int, y \in Int : x = a * n /\ y = b * n
    OBVIOUS
  <1>. QED
    BY <1>1, <1>2

(* A number has one quotient and one remainder.                            *)
LEMMA OneRemainder ==
    ASSUME NEW n \in Nat \ {0}, NEW k \in Nat, NEW t \in Nat, t < n
    PROVE  (k * n + t) % n = t /\ (k * n + t) \div n = k
  <1>1. PICK v \in Nat : v = k * n + t
    OBVIOUS
  <1>2. PICK q \in Nat, r \in Nat : q = v \div n /\ r = v % n /\ r < n /\ v = q * n + r
    BY <1>1, Division
  <1>3. PICK x \in Int, y \in Int : x = k * n /\ y = q * n
    OBVIOUS
  <1>4. x + t = y + r
    BY <1>1, <1>2, <1>3
  <1>5. (k + 1) * n = x + n /\ (q + 1) * n = y + n
    BY <1>3
  <1>6. k < q + 1
    <2>1. k * n + t < (q + 1) * n
      BY <1>2, <1>3, <1>4, <1>5
    <2>. QED
      BY <2>1, QuotientBound
  <1>7. q < k + 1
    <2>1. q * n + r < (k + 1) * n
      BY <1>2, <1>3, <1>4, <1>5
    <2>. QED
      BY <2>1, <1>2, QuotientBound
  <1>8. k = q
    BY <1>6, <1>7
  <1>9. r = t
    BY <1>3, <1>4, <1>8
  <1>. QED
    BY <1>1, <1>2, <1>8, <1>9

(* The samples below the limit that name ticket t are as many as whole     *)
(* rows of n fit in the sample space.                                      *)
LEMMA RowsOfSamples ==
    ASSUME NEW n \in Nat \ {0}, NEW t \in Nat, t < n, SampleSpace \in Nat
    PROVE  Cardinality({v \in Samples : Drawable(v, n) /\ TicketOf(v, n) = t}) = SampleSpace \div n
  <1>. DEFINE T == {v \in Samples : Drawable(v, n) /\ TicketOf(v, n) = t}
  <1>1. PICK Q \in Nat, r \in Nat : Q = SampleSpace \div n /\ r = SampleSpace % n
                                    /\ SampleSpace = Q * n + r
    BY Division
  <1>2. PICK L \in Nat : L = Q * n
    OBVIOUS
  <1>3. Limit(n) = L /\ L <= SampleSpace
    BY <1>1, <1>2 DEF Limit
  <1>. DEFINE f == [k \in 0..(Q - 1) |-> k * n + t]
  <1>4. ASSUME NEW k \in 0..(Q - 1) PROVE f[k] \in T
    <2>1. PICK x \in Nat : x = k * n
      BY <1>1
    <2>2. (k + 1) * n = x + n
      BY <2>1
    <2>3. (k + 1) * n <= Q * n
      BY <1>1, MulMono
    <2>4. PICK v \in Nat : v = x + t
      BY <2>1
    <2>5. v < L
      BY <1>2, <2>2, <2>3, <2>4
    <2>6. v % n = t
      BY <1>1, <2>1, <2>4, OneRemainder
    <2>7. f[k] = v
      BY <2>1, <2>4
    <2>. HIDE DEF f
    <2>. QED
      BY <1>3, <2>5, <2>6, <2>7 DEF Samples, Drawable, TicketOf
  <1>5. ASSUME NEW v \in T PROVE \E k \in 0..(Q - 1) : f[k] = v
    <2>1. v \in Nat /\ v < L /\ v % n = t
      BY <1>3 DEF Samples, Drawable, TicketOf
    <2>2. PICK k \in Nat : k = v \div n /\ v = k * n + t
      BY <2>1, Division
    <2>3. k < Q
      BY <1>1, <1>2, <2>1, <2>2, QuotientBound
    <2>4. k \in 0..(Q - 1)
      BY <1>1, <2>2, <2>3
    <2>5. f[k] = v
      BY <2>2, <2>4
    <2>. QED
      BY <2>4, <2>5
  <1>6. ASSUME NEW j \in 0..(Q - 1), NEW k \in 0..(Q - 1), f[j] = f[k] PROVE j = k
    <2>1. j * n + t = k * n + t /\ j \in Nat /\ k \in Nat
      BY <1>1, <1>6
    <2>. QED
      BY <2>1, OneRemainder
  <1>. HIDE DEF T
  <1>7. f \in [0..(Q - 1) -> T]
    BY <1>4
  <1>8. f \in Bijection(0..(Q - 1), T)
    <2>. HIDE DEF f
    <2>. QED
      BY <1>5, <1>6, <1>7 DEF Bijection, Injection, Surjection, IsInjective
  <1>9. Cardinality(T) = Cardinality(0..(Q - 1))
    <2>. HIDE DEF f
    <2>1. ExistsBijection(0..(Q - 1), T)
      BY <1>8 DEF ExistsBijection
    <2>2. IsFiniteSet(0..(Q - 1))
      BY <1>1, FS_Interval
    <2>. QED
      BY <2>1, <2>2, FS_Bijection
  <1>10. Cardinality(0..(Q - 1)) = Q
    <2>1. 0 \in Int /\ Q - 1 \in Int
      BY <1>1
    <2>2. Cardinality(0..(Q - 1)) = IF 0 > Q - 1 THEN 0 ELSE (Q - 1) - 0 + 1
      BY <2>1, FS_Interval
    <2>. QED
      BY <1>1, <2>2
  <1>. QED
    BY <1>1, <1>9, <1>10 DEF T

(* The directory cuts the tickets sold into runs: each is in one.          *)
LEMMA OneHolder ==
    ASSUME IInv, NEW t \in Nat, t < sold
    PROVE  Cardinality({i \in 1..PurchaseCount : HoldsTicket(i, t)}) = 1
  <1>1. /\ PurchaseCount \in Nat /\ EndOf(ends, 0) = 0 /\ EndOf(ends, PurchaseCount) = sold
        /\ \A i \in 0..PurchaseCount : EndOf(ends, i) \in Nat
        /\ \A i \in 1..PurchaseCount : ends[i] = EndOf(ends, i)
    BY EndFacts DEF IInv, LedgerValid, DirectoryCoversSales, PurchaseCount, EndOf
  <1>. DEFINE Past == {i \in 0..PurchaseCount : t < EndOf(ends, i)}
  <1>2. Past \in SUBSET Nat /\ Past # {}
    BY <1>1
  <1>3. PICK m \in Past : \A k \in Past : m <= k
    <2>. HIDE DEF Past
    <2>. QED
      BY <1>2, LeastOf
  <1>4. m \in 1..PurchaseCount /\ m - 1 \in 0..PurchaseCount /\ t < EndOf(ends, m)
    BY <1>1
  <1>5. m - 1 \notin Past
    <2>1. m - 1 \in Nat /\ ~(m <= m - 1)
      BY <1>1, <1>4
    <2>. HIDE DEF Past
    <2>. QED
      BY <1>3, <2>1
  <1>6. HoldsTicket(m, t)
    BY <1>1, <1>4, <1>5 DEF HoldsTicket
  <1>7. ASSUME NEW i \in 1..PurchaseCount, HoldsTicket(i, t) PROVE i = m
    <2>1. i \in Past /\ i - 1 \in 0..PurchaseCount /\ EndOf(ends, i - 1) <= t
      BY <1>1, <1>7 DEF HoldsTicket
    <2>2. m <= i
      BY <1>3, <2>1
    <2>3. ~(m <= i - 1)
      <3>. SUFFICES ASSUME m <= i - 1 PROVE FALSE
        OBVIOUS
      <3>1. EndOf(ends, m) <= EndOf(ends, i - 1)
        BY <1>4, <1>1, <2>1, EndsGrow DEF IInv
      <3>. QED
        BY <1>1, <1>4, <2>1, <3>1
    <2>. QED
      BY <1>1, <1>4, <2>2, <2>3
  <1>8. {i \in 1..PurchaseCount : HoldsTicket(i, t)} = {m}
    BY <1>4, <1>6, <1>7
  <1>. QED
    BY <1>8, FS_Singleton

(* Whoever bought, and however many tickets were sold: a sample that can   *)
(* be drawn names one record, and every ticket has the same chance.        *)
THEOREM DrawIsEven == Spec => []DrawWellDefined
  <1>1. IInv => DrawWellDefined
    <2>. SUFFICES ASSUME IInv, phase = "SEALED" PROVE DrawWellDefined
      BY DEF DrawWellDefined
    <2>1. sold \in Nat \ {0} /\ SampleSpace \in Nat
      BY BoundFacts, BoundAssumption, ConfigFacts DEF IInv, TypeOK, LedgerValid, Positive
    <2>2. ASSUME NEW v \in Samples
          PROVE  Cardinality({i \in 1..PurchaseCount : HoldsTicket(i, TicketOf(v, sold))}) = 1
      <3>1. v \in Nat
        BY <2>1 DEF Samples
      <3>2. TicketOf(v, sold) \in Nat /\ TicketOf(v, sold) < sold
        BY <2>1, <3>1, Division DEF TicketOf
      <3>. QED
        BY <3>2, OneHolder
    <2>3. ASSUME NEW t \in 0..(sold - 1)
          PROVE  Cardinality({v \in Samples : Drawable(v, sold) /\ TicketOf(v, sold) = t})
                   = SampleSpace \div sold
      <3>1. t \in Nat /\ t < sold
        BY <2>1
      <3>2. PICK n : n = sold
        OBVIOUS
      <3>. QED
        BY <2>1, <3>1, <3>2, RowsOfSamples
    <2>. QED
      BY <2>2, <2>3 DEF DrawWellDefined
  <1>. QED
    BY <1>1, Inductive, PTL

---------------------------------------------------------------------------
(* RoundContract implements RoundEscrow for every configuration: each      *)
(* spend is a step of the promise made to the buyers, and the clock is     *)
(* none.                                                                   *)


(* A function on 1..n is a sequence of length n.                           *)
LEMMA FunctionIsSeq ==
    ASSUME NEW n \in Nat, NEW S, NEW f \in [1..n -> S]
    PROVE  f \in Seq(S) /\ Len(f) = n
  OBVIOUS

LEMMA StakesFacts ==
    ASSUME IInv
    PROVE  /\ PurchaseCount \in Nat
           /\ StakesOf \in Seq(Nat)
           /\ Len(StakesOf) = PurchaseCount
           /\ \A i \in 1..PurchaseCount :
                 StakesOf[i] = TicketsOf(ends, i) * config.ticketPrice
           /\ (StakesOf = <<>>) <=> (PurchaseCount = 0)
  <1>1. PurchaseCount \in Nat /\ config.ticketPrice \in Nat
    BY EndFacts, ConfigFacts DEF IInv
  <1>2. \A i \in 1..PurchaseCount : TicketsOf(ends, i) * config.ticketPrice \in Nat
    BY <1>1, EndFacts DEF IInv
  <1>3. StakesOf \in [1..PurchaseCount -> Nat]
    BY <1>2 DEF StakesOf
  <1>4. StakesOf \in Seq(Nat) /\ Len(StakesOf) = PurchaseCount
    BY <1>1, <1>3, FunctionIsSeq
  <1>5. \A i \in 1..PurchaseCount : StakesOf[i] = TicketsOf(ends, i) * config.ticketPrice
    BY DEF StakesOf
  <1>6. (StakesOf = <<>>) <=> (PurchaseCount = 0)
    BY <1>4
  <1>. QED
    BY <1>1, <1>4, <1>5, <1>6

(* What a step that only changes the phase, the amount and the clock       *)
(* leaves of the buyers' view.                                             *)
LEMMA SameStakes ==
    ASSUME UNCHANGED <<config, ends>>
    PROVE  StakesOf' = StakesOf
  BY DEF StakesOf, TicketsOf, EndOf, PurchaseCount

LEMMA SameReceived ==
    ASSUME UNCHANGED <<refunded, prize>>
    PROVE  ReceivedOf' = ReceivedOf
  BY DEF ReceivedOf

LEMMA InitEscrow == ASSUME Init PROVE Escrow!Init
  <1>1. PurchaseCount = 0
    BY DEF Init, PurchaseCount
  <1>2. StatusOf = "selling"
    BY DEF Init, StatusOf
  <1>3. StakesOf = <<>>
    <2>1. IInv
      BY InitIInv
    <2>. QED
      BY <1>1, <2>1, StakesFacts
  <1>4. OwedOf = {}
    BY <1>1 DEF Init, OwedOf
  <1>5. ReceivedOf = [i \in 1..MaxPurchases |-> 0]
    BY BoundFacts DEF Init, ReceivedOf
  <1>. QED
    BY <1>2, <1>3, <1>4, <1>5 DEF Escrow!Init

(* A purchase takes one more stake in, worth more than its return costs.   *)
LEMMA BuySells ==
    ASSUME IInv, NEW quantity \in 1..config.ticketCap, Buy(quantity)
    PROVE  Escrow!Sell
  <1>1. /\ phase = "OPEN" /\ phase' = "OPEN" /\ cursor = 0 /\ cursor' = 0
        /\ ends \in Seq(Nat) /\ ends' = Append(ends, sold + quantity)
        /\ sold \in Nat /\ quantity \in Nat /\ quantity >= 1
        /\ config \in Configs /\ config' = config
        /\ PurchaseCount < config.purchaseCap
        /\ UNCHANGED <<refunded, prize>>
        /\ EndOf(ends, PurchaseCount) = sold
    BY ConfigFacts
       DEF IInv, Buy, CanSell, TypeOK, LedgerValid, DirectoryCoversSales, PurchaseCount, payouts
  <1>2. IInv'
    BY BuyIInv
  <1>3. PurchaseCount \in Nat /\ PurchaseCount' = PurchaseCount + 1 /\ PurchaseCount < MaxPurchases
    BY <1>1, ConfigFacts, BoundFacts DEF PurchaseCount
  <1>4. /\ \A i \in 1..PurchaseCount : ends'[i] = ends[i]
        /\ ends'[PurchaseCount + 1] = sold + quantity
    BY <1>1 DEF PurchaseCount
  <1>5. \A i \in 1..PurchaseCount : TicketsOf(ends', i) = TicketsOf(ends, i)
    <2>. TAKE i \in 1..PurchaseCount
    <2>1. i - 1 = 0 \/ i - 1 \in 1..PurchaseCount
      BY <1>3
    <2>2. EndOf(ends', i - 1) = EndOf(ends, i - 1)
      BY <2>1, <1>4 DEF EndOf
    <2>. QED
      BY <2>2, <1>4 DEF TicketsOf
  <1>6. TicketsOf(ends', PurchaseCount + 1) = quantity
    <2>1. (PurchaseCount + 1) - 1 = PurchaseCount
      BY <1>3
    <2>2. EndOf(ends', PurchaseCount) = EndOf(ends, PurchaseCount)
      <3>1. PurchaseCount = 0 \/ PurchaseCount \in 1..PurchaseCount
        BY <1>3
      <3>. QED
        BY <3>1, <1>4 DEF EndOf
    <2>3. TicketsOf(ends', PurchaseCount + 1) = (sold + quantity) - sold
      BY <2>1, <2>2, <1>1, <1>4 DEF TicketsOf
    <2>. QED
      BY <2>3, <1>1
  <1>7. /\ Len(StakesOf) = PurchaseCount /\ StakesOf \in Seq(Nat)
        /\ Len(StakesOf') = PurchaseCount + 1 /\ StakesOf' \in Seq(Nat)
        /\ \A i \in 1..PurchaseCount : StakesOf'[i] = StakesOf[i]
        /\ StakesOf'[PurchaseCount + 1] = quantity * config.ticketPrice
    <2>1. \A i \in 1..(PurchaseCount + 1) :
             StakesOf'[i] = TicketsOf(ends', i) * config.ticketPrice
      BY <1>1, <1>3 DEF StakesOf
    <2>2. /\ Len(StakesOf) = PurchaseCount /\ StakesOf \in Seq(Nat)
          /\ \A i \in 1..PurchaseCount : StakesOf[i] = TicketsOf(ends, i) * config.ticketPrice
      BY StakesFacts
    <2>3. StakesOf' \in Seq(Nat) /\ Len(StakesOf') = PurchaseCount'
      <3>1. IInv => StakesOf \in Seq(Nat) /\ Len(StakesOf) = PurchaseCount
        BY StakesFacts
      <3>2. (IInv => StakesOf \in Seq(Nat) /\ Len(StakesOf) = PurchaseCount)'
        BY StakesFacts, PTL
      <3>. QED
        BY <3>2, <1>2
    <2>4. \A i \in 1..PurchaseCount : StakesOf'[i] = StakesOf[i]
      BY <2>1, <2>2, <1>3, <1>5
    <2>5. PurchaseCount + 1 \in 1..(PurchaseCount + 1)
      BY <1>3
    <2>. QED
      BY <2>1, <2>2, <2>3, <2>4, <2>5, <1>3, <1>6
  <1>8. StakesOf'[PurchaseCount + 1] > RefundFee
    <2>1. config.ticketPrice \in Nat /\ config.ticketPrice > RefundFee /\ RefundFee \in Nat
      BY <1>1, ConfigFacts, MoneyFacts
    <2>2. quantity \in Int /\ 1 <= quantity
      BY <1>1
    <2>3. 1 * config.ticketPrice <= quantity * config.ticketPrice
      BY <2>1, <2>2, MulMono
    <2>4. StakesOf'[PurchaseCount + 1] = quantity * config.ticketPrice
      BY <1>7
    <2>. QED
      BY <2>1, <2>2, <2>3, <2>4
  <1>9. StakesOf' = Append(StakesOf, StakesOf'[Len(StakesOf) + 1])
    BY <1>3, <1>7
  <1>10. OwedOf' = OwedOf \cup {Len(StakesOf) + 1}
    <2>1. OwedOf = 1..PurchaseCount /\ OwedOf' = 1..(PurchaseCount + 1)
      BY <1>1, <1>3 DEF OwedOf
    <2>. QED
      BY <2>1, <1>3, <1>7
  <1>11. StatusOf = "selling" /\ StatusOf' = "selling" /\ ReceivedOf' = ReceivedOf
    BY <1>1, SameReceived DEF StatusOf
  <1>. QED
    BY <1>3, <1>7, <1>8, <1>9, <1>10, <1>11 DEF Escrow!Sell

LEMMA CloseEmptyVoids == ASSUME IInv, CloseEmpty PROVE Escrow!Void
  <1>1. /\ phase = "OPEN" /\ phase' = "EMPTY" /\ PurchaseCount = 0 /\ PurchaseCount' = 0
        /\ UNCHANGED <<config, ends, cursor, refunded, prize>>
    BY DEF IInv, CloseEmpty, LedgerValid, PurchaseCount
  <1>2. StakesOf = <<>> /\ StakesOf' = StakesOf /\ ReceivedOf' = ReceivedOf
    BY <1>1, StakesFacts, SameStakes, SameReceived
  <1>3. OwedOf' = OwedOf
    BY <1>1 DEF OwedOf
  <1>4. StatusOf = "selling" /\ StatusOf' = "void"
    BY <1>1 DEF StatusOf
  <1>. QED
    BY <1>2, <1>3, <1>4 DEF Escrow!Void

(* Closing a sale and giving up a draw change only the status.             *)
LEMMA CloseLocks == ASSUME IInv, Close PROVE Escrow!Lock \/ Escrow!GiveUp
  <1>1. /\ phase = "OPEN" /\ phase' \in {"SEALED", "REFUNDING"} /\ PurchaseCount # 0
        /\ PurchaseCount' = PurchaseCount
        /\ UNCHANGED <<config, ends, cursor, refunded, prize>>
    BY DEF IInv, Close, ClosedPhase, LedgerValid, PurchaseCount, TypeOK, payouts
  <1>2. StakesOf # <<>> /\ StakesOf' = StakesOf /\ ReceivedOf' = ReceivedOf
    BY <1>1, StakesFacts, SameStakes, SameReceived
  <1>3. OwedOf' = OwedOf
    BY <1>1 DEF OwedOf
  <1>4. StatusOf = "selling" /\ StatusOf' \in {"locked", "returning"}
    BY <1>1 DEF StatusOf
  <1>. QED
    BY <1>2, <1>3, <1>4 DEF Escrow!Lock, Escrow!GiveUp

LEMMA TimeoutGivesUp == ASSUME IInv, TimeoutRefund PROVE Escrow!GiveUp
  <1>1. /\ phase = "SEALED" /\ phase' = "REFUNDING" /\ PurchaseCount # 0
        /\ PurchaseCount' = PurchaseCount
        /\ UNCHANGED <<config, ends, cursor, refunded, prize>>
    BY ConfigFacts
       DEF IInv, TimeoutRefund, SealedLedger, LedgerValid, PurchaseCount, TypeOK, payouts
  <1>2. StakesOf # <<>> /\ StakesOf' = StakesOf /\ ReceivedOf' = ReceivedOf
    BY <1>1, StakesFacts, SameStakes, SameReceived
  <1>3. OwedOf' = OwedOf
    BY <1>1 DEF OwedOf
  <1>4. StatusOf = "locked" /\ StatusOf' = "returning"
    BY <1>1 DEF StatusOf
  <1>. QED
    BY <1>2, <1>3, <1>4 DEF Escrow!GiveUp

(* A draw awards the prize to one purchase, which received nothing before, *)
(* and settles all of them.                                                *)
LEMMA DrawAwards ==
    ASSUME IInv, NEW hint \in 1..PurchaseCount, NEW fee \in Fees, DrawAndPay(hint, fee)
    PROVE  Escrow!Award
  <1>1. /\ phase = "SEALED" /\ phase' = "PAID" /\ cursor = 0
        /\ prize.record = 0 /\ prize' = [record |-> hint, amount |-> PrizeOf(fee)]
        /\ PrizeOf(fee) >= MinPrice
        /\ PurchaseCount \in Nat /\ PurchaseCount <= MaxPurchases
        /\ UNCHANGED <<config, ends, cursor, refunded>>
        /\ \A i \in 1..MaxPurchases : refunded[i] = 0
    BY EndFacts, BoundFacts
       DEF IInv, DrawAndPay, SealedLedger, LedgerValid, Settlement, RefundedOnce, Live
  <1>2. hint \in 1..MaxPurchases /\ hint # 0 /\ PrizeOf(fee) \in Int
    BY <1>1, ConfigFacts, MoneyFacts, BoundFacts, InputAssumption DEF IInv, TypeOK, PrizeOf
  <1>3. ReceivedOf = [i \in 1..MaxPurchases |-> 0]
    BY <1>1, BoundFacts DEF ReceivedOf
  <1>4. ReceivedOf' = [i \in 1..MaxPurchases |-> IF i = hint THEN PrizeOf(fee) ELSE 0]
    BY <1>1, <1>2 DEF ReceivedOf
  <1>5. /\ ReceivedOf'[hint] = PrizeOf(fee)
        /\ ReceivedOf' = [ReceivedOf EXCEPT ![hint] = PrizeOf(fee)]
    BY <1>2, <1>3, <1>4
  <1>6. hint \in OwedOf /\ OwedOf' = {}
    BY <1>1 DEF OwedOf
  <1>7. StatusOf = "locked" /\ StatusOf' = "won" /\ StakesOf' = StakesOf
    BY <1>1, SameStakes DEF StatusOf
  <1>. QED
    BY <1>1, <1>5, <1>6, <1>7 DEF Escrow!Award

(* A refund returns the stakes of its batch, less the charge of each.      *)
LEMMA RefundReturns ==
    ASSUME IInv, NEW external \in Externals, NEW fee \in Fees, Refund(external, fee)
    PROVE  Escrow!Return
  <1>1. /\ phase = "REFUNDING" /\ phase' = (IF LastBatch THEN "REFUNDED" ELSE "REFUNDING")
        /\ UNCHANGED <<config, ends, prize>>
        /\ cursor' = cursor + BatchSize
        /\ refunded' = [i \in 1..MaxPurchases |->
                           refunded[i] + (IF i \in Batch THEN RefundOf(i) ELSE 0)]
        /\ prize.record = 0
    BY DEF IInv, Refund, RefundingLedger, Settlement, Live
  <1>2. TypeOK /\ LedgerValid
    BY DEF IInv
  <1>3. /\ PurchaseCount \in Nat /\ PurchaseCount <= MaxPurchases
        /\ PurchaseCount' = PurchaseCount
        /\ cursor \in Nat /\ BatchSize \in Nat /\ BatchSize > 0
        /\ cursor + BatchSize <= PurchaseCount
        /\ LastBatch <=> cursor + BatchSize = PurchaseCount
        /\ MaxPurchases \in Nat
    BY <1>1, <1>2, BatchFacts, EndFacts, BoundFacts DEF PurchaseCount
  <1>4. OwedOf = (cursor + 1)..PurchaseCount /\ OwedOf' = (cursor + BatchSize + 1)..PurchaseCount
    BY <1>1, <1>3 DEF OwedOf
  <1>5. /\ OwedOf' \subseteq OwedOf /\ OwedOf \ OwedOf' = Batch
        /\ cursor + 1 \in OwedOf /\ cursor + 1 \notin OwedOf'
        /\ OwedOf' = {} <=> LastBatch
    BY <1>3, <1>4 DEF Batch
  <1>6. StatusOf = "returning" /\ StatusOf' = (IF OwedOf' = {} THEN "returned" ELSE "returning")
    BY <1>1, <1>5 DEF StatusOf
  <1>7. ReceivedOf' = [i \in 1..MaxPurchases |->
                         IF i \in OwedOf \ OwedOf' THEN StakesOf[i] - RefundFee
                                                   ELSE ReceivedOf[i]]
    <2>1. ASSUME NEW i \in 1..MaxPurchases
          PROVE  /\ ReceivedOf[i] = refunded[i] /\ refunded[i] \in Int
                 /\ i \in Batch => refunded[i] = 0 /\ StakesOf[i] - RefundFee = RefundOf(i)
                                   /\ RefundOf(i) \in Int
      <3>1. refunded[i] \in Int /\ refunded[i] = IF i <= cursor THEN RefundOf(i) ELSE 0
        BY <1>2 DEF IInv, TypeOK, RefundedOnce
      <3>2. ReceivedOf[i] = refunded[i]
        BY <3>1, <1>1 DEF ReceivedOf
      <3>3. ASSUME i \in Batch
            PROVE  refunded[i] = 0 /\ StakesOf[i] - RefundFee = RefundOf(i) /\ RefundOf(i) \in Int
        <4>1. i \in 1..PurchaseCount /\ ~(i <= cursor)
          BY <3>3, <1>3 DEF Batch
        <4>2. StakesOf[i] = TicketsOf(ends, i) * config.ticketPrice /\ StakesOf[i] \in Nat
          BY <4>1, StakesFacts
        <4>. QED
          BY <3>1, <4>1, <4>2, MoneyFacts DEF RefundOf
      <3>. QED
        BY <3>1, <3>2, <3>3
    <2>2. ReceivedOf' = [i \in 1..MaxPurchases |->
                           refunded[i] + (IF i \in Batch THEN RefundOf(i) ELSE 0) + 0]
      BY <1>1 DEF ReceivedOf
    <2>. QED
      BY <2>1, <2>2, <1>5
  <1>8. StakesOf' = StakesOf
    BY <1>1, SameStakes
  <1>. QED
    BY <1>5, <1>6, <1>7, <1>8 DEF Escrow!Return

(* What buyers see does not change with the clock.                         *)
LEMMA TickStutters == ASSUME Tick \/ UNCHANGED vars PROVE UNCHANGED Escrow!vars
  <1>1. UNCHANGED <<config, phase, ends, cursor, refunded, prize>>
    BY DEF Tick, vars, ledger, payouts
  <1>2. PurchaseCount' = PurchaseCount
    BY <1>1 DEF PurchaseCount
  <1>3. OwedOf' = OwedOf /\ StatusOf' = StatusOf
    BY <1>1, <1>2 DEF OwedOf, StatusOf
  <1>. QED
    BY <1>1, <1>3, SameStakes, SameReceived DEF Escrow!vars

(* A round of the three templates keeps the promise of RoundEscrow: it     *)
(* awards a stake-holder or returns every stake, each once and less a      *)
(* fixed charge, for every price, cap, batch size, delay and executor.     *)
THEOREM KeepsThePromise == Spec => ImplementsEscrow
  <1>1. Init => Escrow!Init
    BY InitEscrow
  <1>2. IInv /\ [Next]_vars => [Escrow!Next]_(Escrow!vars)
    <2>. SUFFICES ASSUME IInv, [Next]_vars PROVE Escrow!Next \/ UNCHANGED Escrow!vars
      OBVIOUS
    <2>1. ASSUME NEW quantity \in 1..config.ticketCap, Buy(quantity) PROVE Escrow!Next
      BY <2>1, BuySells DEF Escrow!Next
    <2>2. CASE CloseEmpty
      BY <2>2, CloseEmptyVoids DEF Escrow!Next
    <2>3. CASE Close
      BY <2>3, CloseLocks DEF Escrow!Next
    <2>4. ASSUME NEW hint \in 1..PurchaseCount, NEW fee \in Fees, DrawAndPay(hint, fee)
          PROVE  Escrow!Next
      BY <2>4, DrawAwards DEF Escrow!Next
    <2>5. CASE TimeoutRefund
      BY <2>5, TimeoutGivesUp DEF Escrow!Next
    <2>6. ASSUME NEW external \in Externals, NEW fee \in Fees, Refund(external, fee)
          PROVE  Escrow!Next
      BY <2>6, RefundReturns DEF Escrow!Next
    <2>7. CASE Tick \/ UNCHANGED vars
      BY <2>7, TickStutters
    <2>. QED
      BY <2>1, <2>2, <2>3, <2>4, <2>5, <2>6, <2>7 DEF Next, Spend
  <1>. QED
    BY Inductive, <1>1, <1>2, PTL DEF Spec, ImplementsEscrow, Escrow!Spec
============================================================================
