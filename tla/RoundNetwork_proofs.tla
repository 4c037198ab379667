------------------------- MODULE RoundNetwork_proofs -------------------------
(***************************************************************************)
(* Proofs about RoundNetwork, for any clients, other software, fees and    *)
(* configuration.  What holds of a ledger comes first, then of a snapshot  *)
(* and a transaction the templates accept, then of a draft, and at last of *)
(* the network's steps.                                                    *)
(***************************************************************************)
EXTENDS RoundNetwork, Sums, SequenceTheorems

---------------------------------------------------------------------------
(* Arithmetic and constants.                                               *)

LEMMA MulMono ==
    ASSUME NEW a \in Nat, NEW b \in Nat, NEW c \in Nat, a <= b
    PROVE  a * c <= b * c /\ a * c \in Nat /\ b * c \in Nat
  OBVIOUS

LEMMA Distribute ==
    ASSUME NEW a \in Int, NEW b \in Int, NEW c \in Int
    PROVE  (a + b) * c = a * c + b * c /\ (a - b) * c = a * c - b * c
           /\ a * c \in Int /\ b * c \in Int
  OBVIOUS

LEMMA DivMul ==
    ASSUME NEW x \in Nat, NEW c \in Nat \ {0}
    PROVE  x \div c \in Nat /\ c * (x \div c) <= x
  OBVIOUS

LEMMA MoneyFacts ==
    /\ Deposit \in Nat /\ MinPrice \in Nat /\ Finalizer \in Nat
    /\ MaxPayFee \in Nat /\ RefundFee \in Nat /\ ValueLimit \in Nat
    /\ Deposit > 0 /\ MinPrice > 0 /\ RefundFee > 0 /\ Finalizer > 0 /\ MaxPayFee > 0
    /\ Deposit <= ValueLimit
  BY MoneyAssumption

LEMMA BoundFacts ==
    /\ MaxRefundRecords \in Nat /\ MaxRefundRecords > 0
    /\ DrawDelay \in Nat /\ TimeoutDelay \in Nat /\ DaaLimit \in Nat
    /\ SampleSpace \in Nat /\ SampleSpace > 0
    /\ MaxDaa \in Nat /\ MaxDaa > 0 /\ MaxDaa < DaaLimit
  BY BoundAssumption, NetworkAssumption

LEMMA ConfigFacts ==
    /\ Config.ticketCap \in Nat /\ Config.ticketCap >= 3
    /\ Config.purchaseCap \in Nat /\ Config.purchaseCap <= MaxPurchases /\ MaxPurchases \in Nat
    /\ Config.minTickets \in Nat /\ Config.minTickets >= 3
    /\ Config.ticketPrice \in Nat /\ Config.ticketPrice >= MinPrice
    /\ Config.closeEligibleDaa \in Nat /\ Config.closeEligibleDaa >= 1
    /\ Config.closeEligibleDaa < DaaLimit
    /\ Deposit + Config.ticketCap * Config.ticketPrice <= ValueLimit
  <1>1. /\ Config.ticketCap \in Nat \ {0} /\ Config.ticketCap >= 3
        /\ Config.purchaseCap \in Nat /\ Config.purchaseCap <= MaxPurchases /\ MaxPurchases \in Nat
        /\ Config.minTickets \in Nat /\ Config.minTickets >= 3
        /\ Config.closeEligibleDaa \in Nat /\ Config.closeEligibleDaa >= 1
        /\ Config.closeEligibleDaa < DaaLimit
    BY ConfigAssumption, BoundFacts
  <1>2. ValueLimit - Deposit \in Nat
    BY MoneyFacts
  <1>3. (ValueLimit - Deposit) \div Config.ticketCap \in Nat
        /\ Config.ticketCap * ((ValueLimit - Deposit) \div Config.ticketCap) <= ValueLimit - Deposit
    BY <1>1, <1>2, DivMul
  <1>4. Config.ticketPrice \in Nat /\ Config.ticketPrice >= MinPrice
        /\ Config.ticketPrice <= (ValueLimit - Deposit) \div Config.ticketCap
    BY <1>3, ConfigAssumption, MoneyFacts
  <1>5. Config.ticketPrice * Config.ticketCap
          <= ((ValueLimit - Deposit) \div Config.ticketCap) * Config.ticketCap
    BY <1>1, <1>3, <1>4, MulMono
  <1>. QED
    BY <1>1, <1>3, <1>4, <1>5, MoneyFacts

---------------------------------------------------------------------------
(* Ledgers.                                                                *)

Keys == Clients \cup Others
Purchases == [end : Nat, key : Keys]
Ledgers == [phase : {"OPEN", "SEALED", "REFUNDING"}, config : {Config}, sold : Nat,
            cursor : Nat, directory : Seq(Purchases)]

LEMMA LedgerFacts ==
    ASSUME NEW s \in Ledgers
    PROVE  /\ s.phase \in {"OPEN", "SEALED", "REFUNDING"} /\ s.config = Config
           /\ s.sold \in Nat /\ s.cursor \in Nat /\ s.directory \in Seq(Purchases)
           /\ PurchaseCount(s) \in Nat
           /\ \A i \in 1..PurchaseCount(s) :
                 s.directory[i].end \in Nat /\ s.directory[i].key \in Keys
                 /\ EndAt(s, i) = s.directory[i].end
           /\ EndAt(s, 0) = 0
           /\ \A i \in 0..PurchaseCount(s) : EndAt(s, i) \in Nat
  <1>1. s.directory \in Seq(Purchases) /\ PurchaseCount(s) \in Nat
    BY DEF Ledgers, PurchaseCount
  <1>2. \A i \in 1..PurchaseCount(s) : s.directory[i] \in Purchases
    BY <1>1 DEF PurchaseCount
  <1>3. \A i \in 1..PurchaseCount(s) :
            s.directory[i].end \in Nat /\ s.directory[i].key \in Keys
            /\ EndAt(s, i) = s.directory[i].end
    BY <1>2, <1>1 DEF Purchases, EndAt
  <1>4. EndAt(s, 0) = 0
    BY DEF EndAt
  <1>5. \A i \in 0..PurchaseCount(s) : EndAt(s, i) \in Nat
    BY <1>1, <1>3, <1>4
  <1>. QED
    BY <1>1, <1>3, <1>4, <1>5 DEF Ledgers

LEMMA EndsGrow ==
    ASSUME NEW s \in Ledgers, ValidLedger(s),
           NEW i \in 0..PurchaseCount(s), NEW j \in 0..PurchaseCount(s), i <= j
    PROVE  EndAt(s, i) <= EndAt(s, j)
  <1>. DEFINE n == PurchaseCount(s)
              Bad == {k \in Nat : k \in i..n /\ EndAt(s, k) < EndAt(s, i)}
  <1>1. /\ n \in Nat /\ \A k \in 0..n : EndAt(s, k) \in Nat
        /\ \A k \in 1..n : EndAt(s, k - 1) < EndAt(s, k)
    <2>1. n \in Nat /\ \A k \in 0..n : EndAt(s, k) \in Nat
      BY LedgerFacts
    <2>2. \A k \in 1..n : EndAt(s, k) - EndAt(s, k - 1) > 0
      BY DEF ValidLedger, CountAt
    <2>3. \A k \in 1..n : k \in 0..n /\ k - 1 \in 0..n
      BY <2>1
    <2>. HIDE DEF n
    <2>. QED
      BY <2>1, <2>2, <2>3
  <1>2. Bad = {}
    <2>. SUFFICES ASSUME Bad # {} PROVE FALSE
      OBVIOUS
    <2>1. PICK m \in Bad : \A k \in Bad : m <= k
      <3>1. Bad \in SUBSET Nat
        OBVIOUS
      <3>. HIDE DEF Bad
      <3>. QED
        BY <3>1, LeastOf
    <2>2. m \in 0..n /\ i <= m /\ EndAt(s, m) < EndAt(s, i)
      BY <1>1, <2>1
    <2>3. m # i /\ m - 1 \in 0..n /\ i <= m - 1 /\ m \in 1..n
      <3>1. m # i
        BY <1>1, <2>2
      <3>. QED
        BY <1>1, <2>2, <3>1
    <2>4. m - 1 \notin Bad
      <3>1. m - 1 \in Nat /\ ~(m <= m - 1)
        BY <2>3
      <3>. HIDE DEF Bad
      <3>. QED
        BY <2>1, <3>1
    <2>5. ~(EndAt(s, m - 1) < EndAt(s, i))
      BY <1>1, <2>3, <2>4
    <2>. HIDE DEF n
    <2>. QED
      BY <1>1, <2>2, <2>3, <2>5
  <1>3. j \notin Bad
    <2>. HIDE DEF Bad
    <2>. QED
      BY <1>2
  <1>. QED
    BY <1>1, <1>3

(* Every ticket has one holder, and RecordOf finds it.                     *)
LEMMA RecordHolds ==
    ASSUME NEW s \in Ledgers, ValidLedger(s), NEW t \in Nat, t < s.sold
    PROVE  /\ RecordOf(s, t) \in 1..PurchaseCount(s)
           /\ HoldsTicket(s, RecordOf(s, t), t)
           /\ \A i \in 1..PurchaseCount(s) : HoldsTicket(s, i, t) => i = RecordOf(s, t)
  <1>. DEFINE n == PurchaseCount(s)
              First(i) == t < EndAt(s, i) /\ \A j \in 1..(i - 1) : t >= EndAt(s, j)
              Later == {k \in Nat : k \in 1..n /\ t < EndAt(s, k)}
  <1>1. /\ n \in Nat /\ \A k \in 0..n : EndAt(s, k) \in Nat
        /\ EndAt(s, n) = s.sold /\ EndAt(s, 0) = 0
    BY LedgerFacts DEF ValidLedger
  <1>2. n \in Later
    <2>1. t < EndAt(s, n) /\ n # 0
      BY <1>1
    <2>. QED
      BY <1>1, <2>1
  <1>3. PICK m \in Later : \A k \in Later : m <= k
    <2>1. Later \in SUBSET Nat /\ Later # {}
      BY <1>2
    <2>. HIDE DEF Later
    <2>. QED
      BY <2>1, LeastOf
  <1>4. m \in 1..n /\ First(m)
    <2>1. m \in 1..n /\ t < EndAt(s, m)
      BY <1>3
    <2>2. ASSUME NEW j \in 1..(m - 1) PROVE t >= EndAt(s, j)
      <3>1. j \in Nat /\ j \in 1..n /\ j \in 0..n /\ ~(m <= j)
        BY <1>1, <2>1
      <3>2. j \notin Later
        <4>. HIDE DEF Later
        <4>. QED
          BY <1>3, <3>1
      <3>3. ~(t < EndAt(s, j)) /\ EndAt(s, j) \in Nat
        BY <1>1, <3>1, <3>2
      <3>. QED
        BY <3>3
    <2>. QED
      BY <2>1, <2>2
  <1>5. RecordOf(s, t) = CHOOSE i \in 1..n : First(i)
    BY DEF RecordOf
  <1>. HIDE DEF First
  <1>6. RecordOf(s, t) \in 1..n /\ First(RecordOf(s, t))
    BY <1>4, <1>5
  <1>. USE DEF First
  <1>7. ASSUME NEW i \in 1..n, First(i) PROVE HoldsTicket(s, i, t)
    <2>1. i - 1 \in 0..n /\ (i - 1 = 0 \/ i - 1 \in 1..(i - 1))
      BY <1>1
    <2>2. EndAt(s, i - 1) <= t
      BY <1>1, <1>7, <2>1
    <2>. QED
      BY <1>7, <2>2 DEF HoldsTicket
  <1>8. ASSUME NEW i \in 1..n, HoldsTicket(s, i, t), NEW k \in 1..n, First(k) PROVE i = k
    <2>1. i \in 0..n /\ i - 1 \in 0..n /\ k \in 0..n /\ EndAt(s, i - 1) <= t /\ t < EndAt(s, i)
      BY <1>1, <1>8 DEF HoldsTicket
    <2>2. ~(i < k)
      <3>. SUFFICES ASSUME i < k PROVE FALSE
        OBVIOUS
      <3>1. i \in 1..(k - 1)
        BY <1>1
      <3>2. t >= EndAt(s, i)
        BY <1>8, <3>1
      <3>. QED
        BY <1>1, <2>1, <3>2
    <2>3. ~(k < i)
      <3>. SUFFICES ASSUME k < i PROVE FALSE
        OBVIOUS
      <3>1. k <= i - 1
        BY <1>1
      <3>2. EndAt(s, k) <= EndAt(s, i - 1)
        BY <2>1, <3>1, EndsGrow
      <3>3. t < EndAt(s, k)
        BY <1>8
      <3>4. EndAt(s, k) \in Nat /\ EndAt(s, i - 1) \in Nat
        BY <1>1, <2>1
      <3>. QED
        BY <2>1, <3>2, <3>3, <3>4
    <2>. QED
      BY <1>1, <2>2, <2>3
  <1>. HIDE DEF First
  <1>. QED
    BY <1>6, <1>7, <1>8

LEMMA ValueFacts ==
    ASSUME NEW s \in Ledgers, ValidLedger(s)
    PROVE  /\ PaidTickets(s) \in Nat /\ PaidTickets(s) <= s.sold
           /\ ValueOf(s) \in Nat /\ Spendable(ValueOf(s)) /\ ValueOf(s) >= Deposit
           /\ s.phase # "REFUNDING" => PaidTickets(s) = 0 /\ ValueOf(s) = Deposit + s.sold * s.config.ticketPrice
  <1>1. /\ s.sold \in Nat /\ s.sold <= Config.ticketCap /\ s.config = Config
        /\ s.cursor \in 0..PurchaseCount(s) /\ (s.phase # "REFUNDING" => s.cursor = 0)
        /\ PurchaseCount(s) \in Nat
    BY LedgerFacts DEF ValidLedger
  <1>2. PaidTickets(s) \in Nat /\ PaidTickets(s) <= s.sold
    <2>1. PaidTickets(s) \in Nat
      BY <1>1, LedgerFacts DEF PaidTickets
    <2>2. CASE s.cursor = 0
      BY <1>1, <2>2, LedgerFacts DEF PaidTickets
    <2>3. CASE s.cursor # 0
      <3>1. s.cursor \in 1..PurchaseCount(s)
        BY <1>1, <2>3
      <3>. QED
        BY <2>1, <3>1 DEF PaidTickets, ValidLedger
    <2>. QED
      BY <2>1, <2>2, <2>3
  <1>3. s.phase # "REFUNDING" => PaidTickets(s) = 0
    BY <1>1, LedgerFacts DEF PaidTickets
  <1>4. PICK n \in Nat : n = s.sold - PaidTickets(s) /\ n <= Config.ticketCap
    BY <1>1, <1>2, ConfigFacts
  <1>5. PICK m \in Nat : m = n * Config.ticketPrice
    BY <1>4, ConfigFacts
  <1>6. m <= Config.ticketCap * Config.ticketPrice /\ Config.ticketCap * Config.ticketPrice \in Nat
    BY <1>4, <1>5, ConfigFacts, MulMono
  <1>7. ValueOf(s) = Deposit + m
    BY <1>1, <1>4, <1>5 DEF ValueOf
  <1>8. ValueOf(s) \in Nat /\ ValueOf(s) >= Deposit /\ ValueOf(s) > 0 /\ ValueOf(s) <= ValueLimit
    BY <1>6, <1>7, ConfigFacts, MoneyFacts
  <1>9. s.phase # "REFUNDING" => ValueOf(s) = Deposit + s.sold * s.config.ticketPrice
    BY <1>1, <1>2, <1>3, <1>4, <1>5, <1>7
  <1>. QED
    BY <1>2, <1>3, <1>8, <1>9 DEF Spendable

---------------------------------------------------------------------------
(* The next ledger.                                                        *)

LEMMA Appended ==
    ASSUME NEW s \in Ledgers, ValidLedger(s), s.phase = "OPEN",
           NEW q \in Nat, NEW k \in Keys, CanAppend(s, q),
           NEW n, n = AppendPurchase(s, q, k)
    PROVE  /\ n \in Ledgers /\ ValidLedger(n)
           /\ ValueOf(n) = ValueOf(s) + q * s.config.ticketPrice
  <1>. DEFINE c == PurchaseCount(s)
  <1>1. /\ s.sold \in Nat /\ s.config = Config /\ s.directory \in Seq(Purchases) /\ c \in Nat
        /\ s.cursor = 0 /\ EndAt(s, c) = s.sold /\ c <= Config.purchaseCap
        /\ q > 0 /\ s.sold + q <= Config.ticketCap /\ c + 1 <= Config.purchaseCap
    <2>1. /\ s.sold \in Nat /\ s.config = Config /\ s.directory \in Seq(Purchases) /\ c \in Nat
          /\ s.cursor = 0 /\ EndAt(s, c) = s.sold
      BY LedgerFacts DEF ValidLedger
    <2>2. q \in 1..(Config.ticketCap - s.sold) /\ c < Config.purchaseCap
      BY <2>1 DEF CanAppend
    <2>. HIDE DEF c
    <2>. QED
      BY <2>1, <2>2, ConfigFacts, SMTT(30)
  <1>2. [end |-> s.sold + q, key |-> k] \in Purchases
    BY <1>1 DEF Purchases
  <1>3. /\ n.phase = "OPEN" /\ n.config = Config /\ n.sold = s.sold + q /\ n.cursor = 0
        /\ n.directory = Append(s.directory, [end |-> s.sold + q, key |-> k])
    BY <1>1 DEF AppendPurchase, Ledgers
  <1>4. /\ n.directory \in Seq(Purchases) /\ PurchaseCount(n) = c + 1
        /\ \A i \in 1..c : n.directory[i] = s.directory[i]
        /\ n.directory[c + 1] = [end |-> s.sold + q, key |-> k]
    BY <1>1, <1>2, <1>3, AppendProperties DEF PurchaseCount
  <1>5. n \in Ledgers
    <2>1. s.sold + q \in Nat
      BY <1>1
    <2>2. n = [s EXCEPT !.sold = s.sold + q,
                        !.directory = Append(s.directory, [end |-> s.sold + q, key |-> k])]
      BY DEF AppendPurchase
    <2>. QED
      BY <1>3, <1>4, <2>1, <2>2 DEF Ledgers
  <1>6. /\ \A i \in 0..c : EndAt(n, i) = EndAt(s, i)
        /\ EndAt(n, c + 1) = s.sold + q
    <2>1. ASSUME NEW i \in 0..c PROVE EndAt(n, i) = EndAt(s, i)
      BY <1>1, <1>4 DEF EndAt
    <2>. QED
      BY <1>1, <1>4, <2>1 DEF EndAt
  <1>7. ASSUME NEW i \in 1..(c + 1) PROVE CountAt(n, i) > 0 /\ EndAt(n, i) <= s.sold + q
    <2>1. \A j \in 0..c : EndAt(s, j) \in Nat
      BY LedgerFacts
    <2>2. CASE i \in 1..c
      <3>1. EndAt(n, i) = EndAt(s, i) /\ EndAt(n, i - 1) = EndAt(s, i - 1)
            /\ i \in 0..c
        BY <1>1, <1>6, <2>2
      <3>2. EndAt(s, i) - EndAt(s, i - 1) > 0 /\ EndAt(s, i) <= s.sold
        BY <2>2 DEF ValidLedger, CountAt
      <3>. HIDE DEF c
      <3>. QED
        BY <1>1, <2>1, <3>1, <3>2 DEF CountAt
    <2>3. CASE i = c + 1
      <3>1. i - 1 = c
        BY <1>1, <2>3
      <3>2. EndAt(n, i - 1) = s.sold /\ EndAt(n, i) = s.sold + q
        BY <1>1, <1>6, <2>3, <3>1
      <3>. QED
        BY <1>1, <3>2 DEF CountAt
    <2>. QED
      BY <1>1, <2>2, <2>3
  <1>8. ValidLedger(n)
    <2>1. n.sold \in 0..Config.ticketCap /\ n.sold # 0 /\ c + 1 # 0
      BY <1>1, <1>3, ConfigFacts, SMTT(30)
    <2>. HIDE DEF c
    <2>. QED
      BY <1>1, <1>3, <1>4, <1>6, <1>7, <2>1 DEF ValidLedger
  <1>9. ValueOf(n) = ValueOf(s) + q * s.config.ticketPrice
    <2>1. ValueOf(s) = Deposit + s.sold * Config.ticketPrice
      BY <1>1, ValueFacts
    <2>2. ValueOf(n) = Deposit + (s.sold + q) * Config.ticketPrice
      BY <1>3, <1>5, <1>8, ValueFacts
    <2>3. (s.sold + q) * Config.ticketPrice = s.sold * Config.ticketPrice + q * Config.ticketPrice
          /\ s.sold * Config.ticketPrice \in Int /\ q * Config.ticketPrice \in Int
      <3>1. PICK a \in Int, b \in Int, d \in Int : a = s.sold /\ b = q /\ d = Config.ticketPrice
        BY <1>1, ConfigFacts
      <3>2. (a + b) * d = a * d + b * d /\ a * d \in Int /\ b * d \in Int
        BY Distribute
      <3>. QED
        BY <3>1, <3>2
    <2>. QED
      BY <1>1, <2>1, <2>2, <2>3, MoneyFacts
  <1>. QED
    BY <1>5, <1>8, <1>9

(* A closing or a timeout changes the phase only.                          *)
LEMMA Turned ==
    ASSUME NEW s \in Ledgers, ValidLedger(s), s.phase # "REFUNDING", s.sold > 0,
           NEW p \in {"SEALED", "REFUNDING"}, p = "SEALED" => s.sold >= s.config.minTickets,
           NEW n, n = [s EXCEPT !.phase = p]
    PROVE  n \in Ledgers /\ ValidLedger(n) /\ ValueOf(n) = ValueOf(s)
  <1>1. /\ s.config = Config /\ s.cursor = 0 /\ PurchaseCount(s) \in Nat /\ s.sold \in Nat
    BY LedgerFacts DEF ValidLedger
  <1>2. /\ n.phase = p /\ n.config = s.config /\ n.sold = s.sold /\ n.cursor = s.cursor
        /\ n.directory = s.directory /\ n \in Ledgers
    BY DEF Ledgers
  <1>3. PurchaseCount(n) = PurchaseCount(s) /\ PaidTickets(n) = PaidTickets(s)
        /\ \A i : EndAt(n, i) = EndAt(s, i) /\ CountAt(n, i) = CountAt(s, i)
    BY <1>2 DEF PurchaseCount, EndAt, CountAt, PaidTickets
  <1>4. PurchaseCount(s) # 0
    BY DEF ValidLedger
  <1>5. 0 \in 0..(PurchaseCount(s) - 1)
    BY <1>1, <1>4
  <1>6. ValidLedger(n)
    BY <1>1, <1>2, <1>3, <1>5 DEF ValidLedger
  <1>. QED
    BY <1>2, <1>3, <1>6 DEF ValueOf

LEMMA BatchFacts ==
    ASSUME NEW s \in Ledgers, ValidLedger(s), s.phase = "REFUNDING"
    PROVE  /\ RefundBatch(s).k \in Nat /\ RefundBatch(s).k > 0
           /\ s.cursor \in Nat /\ s.cursor + RefundBatch(s).k <= PurchaseCount(s)
           /\ RefundBatch(s).last \in BOOLEAN
           /\ RefundBatch(s).last <=> s.cursor + RefundBatch(s).k = PurchaseCount(s)
           /\ RefundBatch(s).pool \in Nat
           /\ RefundBatch(s).pool = RefundBatch(s).k * RefundFee
                                      + (IF RefundBatch(s).last THEN RefundFee ELSE 0)
           /\ RefundBatch(s).k <= MaxRefundRecords
  <1>1. PurchaseCount(s) \in Nat /\ s.cursor \in 0..(PurchaseCount(s) - 1)
    BY LedgerFacts DEF ValidLedger
  <1>. DEFINE r == PurchaseCount(s) - s.cursor
              k == IF r < MaxRefundRecords THEN r ELSE MaxRefundRecords
  <1>2. r \in Nat /\ r > 0 /\ k \in Nat /\ k > 0 /\ k <= r /\ k <= MaxRefundRecords /\ s.cursor \in Nat
    BY <1>1, BoundFacts
  <1>3. /\ RefundBatch(s).k = k /\ RefundBatch(s).last = (k = r)
        /\ RefundBatch(s).pool = k * RefundFee + (IF k = r THEN RefundFee ELSE 0)
    BY DEF RefundBatch
  <1>4. s.cursor + k <= PurchaseCount(s) /\ ((k = r) <=> s.cursor + k = PurchaseCount(s))
    <2>. HIDE DEF k
    <2>. QED
      BY <1>1, <1>2
  <1>5. k * RefundFee \in Nat
    <2>. HIDE DEF k
    <2>. QED
      BY <1>2, MoneyFacts
  <1>. HIDE DEF k, r
  <1>6. PICK l \in BOOLEAN : l = (k = r)
    OBVIOUS
  <1>7. RefundBatch(s).last = l
    BY <1>3, <1>6
  <1>8. l <=> s.cursor + k = PurchaseCount(s)
    BY <1>4, <1>6
  <1>9. RefundBatch(s).pool = k * RefundFee + (IF l THEN RefundFee ELSE 0)
    BY <1>3, <1>6
  <1>10. RefundBatch(s).pool \in Nat
    <2>1. CASE l
      BY <1>5, <1>9, <2>1, MoneyFacts
    <2>2. CASE ~l
      BY <1>5, <1>9, <2>2
    <2>. QED
      BY <2>1, <2>2
  <1>11. RefundBatch(s).k = k
    BY <1>3
  <1>. QED
    BY <1>2, <1>4, <1>7, <1>8, <1>9, <1>10, <1>11

(* A batch that is not the last moves the cursor over its records.         *)
LEMMA Refunded ==
    ASSUME NEW s \in Ledgers, ValidLedger(s), s.phase = "REFUNDING", ~RefundBatch(s).last,
           NEW n, n = [s EXCEPT !.cursor = @ + RefundBatch(s).k]
    PROVE  /\ n \in Ledgers /\ ValidLedger(n)
           /\ ValueOf(n) = ValueOf(s)
                - (EndAt(s, s.cursor + RefundBatch(s).k) - PaidTickets(s)) * s.config.ticketPrice
  <1>1. PICK k \in Nat : k = RefundBatch(s).k
    BY BatchFacts
  <1>2. /\ s.cursor \in Nat /\ k > 0 /\ s.cursor + k < PurchaseCount(s) /\ PurchaseCount(s) \in Nat
        /\ s.config = Config /\ s.sold \in Nat
    <2>1. /\ s.cursor + k <= PurchaseCount(s) /\ s.cursor + k # PurchaseCount(s)
          /\ s.cursor \in Nat /\ k > 0
      BY <1>1, BatchFacts
    <2>. QED
      BY <2>1, LedgerFacts, SMTT(30)
  <1>3. /\ n.phase = "REFUNDING" /\ n.config = s.config /\ n.sold = s.sold /\ n.cursor = s.cursor + k
        /\ n.directory = s.directory /\ n \in Ledgers
    <2>1. n = [s EXCEPT !.cursor = s.cursor + k] /\ s.cursor + k \in Nat
      BY <1>1, <1>2
    <2>. QED
      BY <2>1 DEF Ledgers
  <1>4. PurchaseCount(n) = PurchaseCount(s)
        /\ \A i : EndAt(n, i) = EndAt(s, i) /\ CountAt(n, i) = CountAt(s, i)
    BY <1>3 DEF PurchaseCount, EndAt, CountAt
  <1>5. s.cursor + k \in 0..(PurchaseCount(s) - 1)
    BY <1>2
  <1>6. ValidLedger(n)
    BY <1>3, <1>4, <1>5 DEF ValidLedger
  <1>7. PaidTickets(n) = EndAt(s, s.cursor + k)
    BY <1>3, <1>4 DEF PaidTickets
  <1>8. PICK a \in Nat, b \in Nat, p \in Nat : a = EndAt(s, s.cursor + k) /\ b = PaidTickets(s) /\ p = Config.ticketPrice
    <2>1. EndAt(s, s.cursor + k) \in Nat
      BY <1>2, <1>5, LedgerFacts
    <2>. QED
      BY <2>1, ValueFacts, ConfigFacts
  <1>9. ValueOf(n) = Deposit + (s.sold - a) * p /\ ValueOf(s) = Deposit + (s.sold - b) * p
    BY <1>2, <1>3, <1>7, <1>8 DEF ValueOf
  <1>10. (s.sold - a) * p = s.sold * p - a * p /\ (s.sold - b) * p = s.sold * p - b * p
         /\ (a - b) * p = a * p - b * p /\ a * p \in Int /\ b * p \in Int /\ s.sold * p \in Int
    <2>1. (s.sold - a) * p = s.sold * p - a * p /\ s.sold * p \in Int
      BY <1>2, <1>8, Distribute
    <2>2. (s.sold - b) * p = s.sold * p - b * p
      BY <1>2, <1>8, Distribute, SMTT(30)
    <2>3. (a - b) * p = a * p - b * p /\ a * p \in Int /\ b * p \in Int
      BY <1>8, Distribute
    <2>. QED
      BY <2>1, <2>2, <2>3
  <1>11. PICK u \in Int, v \in Int, w \in Int : u = a * p /\ v = b * p /\ w = s.sold * p
    BY <1>10
  <1>12. ValueOf(n) = Deposit + (w - u) /\ ValueOf(s) = Deposit + (w - v) /\ (a - b) * p = u - v
    BY <1>9, <1>10, <1>11
  <1>13. ValueOf(n) = ValueOf(s) - (a - b) * p
    BY <1>12, <1>11, MoneyFacts
  <1>. QED
    BY <1>1, <1>2, <1>3, <1>6, <1>8, <1>13

---------------------------------------------------------------------------
(* What the templates accept, the client explains.                         *)

Openings == {NoOpening} \cup Samples

Sound(x) ==
    /\ x.ledger \in Ledgers /\ ValidLedger(x.ledger)
    /\ x.value = ValueOf(x.ledger)
    /\ x.tip \in Nat
    /\ x.utxoDaa \in 0..(DaaLimit - 1)
    /\ x.currentDaa \in 1..(DaaLimit - 1)
    /\ x.opening \in Openings

TxType(tx) ==
    /\ tx.action \in Actions /\ tx.actor \in Keys
    /\ tx.spends \in Nat /\ tx.quantity \in Nat /\ tx.external \in Nat /\ tx.fee \in Nat
    /\ tx.lockTime \in Nat /\ tx.sequence \in Nat

LEMMA SoundIsVerified == ASSUME NEW x, Sound(x) PROVE Verified(x)
  BY BoundFacts DEF Sound, Verified

(* The part of an explanation that all actions share.                      *)
FeeExplained(x, tx) ==
    /\ Verified(x)
    /\ tx.spends = x.tip
    /\ Len(tx.outputs) \in 1..OutputLimit(x.ledger)
    /\ Spendable(x.value) /\ \A i \in DOMAIN tx.outputs : Spendable(tx.outputs[i].value)
    /\ x.value + tx.external - TotalOut(tx) = tx.fee
    /\ tx.fee > 0 /\ tx.fee <= MaxPayFee

LEMMA FeeIsExplained ==
    ASSUME NEW x, Sound(x), NEW tx, ConsensusAccepts(x, tx), CheckFee(x, tx, OutputLimit(x.ledger))
    PROVE  FeeExplained(x, tx)
  BY SoundIsVerified DEF FeeExplained, ConsensusAccepts, CheckFee

(* The outcome an explanation names, as the state's next ledger.           *)
Follows(x, tx) ==
    /\ Explainable(x, tx)
    /\ Explained(x, tx).ended \in BOOLEAN
    /\ Explained(x, tx).ended => StateOutputs(tx) = {}
    /\ ~Explained(x, tx).ended =>
         /\ Explained(x, tx).next \in Ledgers /\ ValidLedger(Explained(x, tx).next)
         /\ StateOutputs(tx) = {1}
         /\ tx.outputs[1] = StateOutput(Explained(x, tx).next)

LEMMA BuyFollows ==
    ASSUME NEW x, Sound(x), NEW tx, TxType(tx), ConsensusAccepts(x, tx),
           x.ledger.phase = "OPEN", OpenAccepts(x, tx), tx.action = "BUY"
    PROVE  Follows(x, tx)
  <1>. DEFINE s == x.ledger
              n == AppendPurchase(s, tx.quantity, tx.actor)
  <1>1. /\ CheckFee(x, tx, 2) /\ tx.external > 0 /\ CanAppend(s, tx.quantity)
        /\ StateOutputs(tx) = {1}
        /\ tx.outputs[1] = [value |-> x.value + tx.quantity * s.config.ticketPrice, state |-> n]
    <2>1. /\ CheckFee(x, tx, 2) /\ tx.external > 0
          /\ tx.quantity > 0 /\ tx.quantity <= s.config.ticketCap - s.sold
          /\ PurchaseCount(s) < s.config.purchaseCap
          /\ Successor(tx, n, x.value + tx.quantity * s.config.ticketPrice)
      BY DEF OpenAccepts
    <2>2. tx.quantity \in Nat /\ s.config.ticketCap - s.sold \in Int
      <3>1. s.config = Config /\ s.sold \in Nat
        BY LedgerFacts DEF Sound
      <3>2. Config.ticketCap - s.sold \in Int
        BY <3>1, ConfigFacts
      <3>. QED
        BY <3>1, <3>2 DEF TxType
    <2>3. tx.quantity \in 1..(s.config.ticketCap - s.sold)
      BY <2>1, <2>2
    <2>. QED
      BY <2>1, <2>3 DEF CanAppend, Successor
  <1>2. n \in Ledgers /\ ValidLedger(n) /\ ValueOf(n) = x.value + tx.quantity * s.config.ticketPrice
    BY <1>1, Appended DEF Sound, TxType
  <1>3. FeeExplained(x, tx)
    BY <1>1, FeeIsExplained DEF OutputLimit
  <1>4. Explained(x, tx).ended = FALSE /\ Explained(x, tx).next = n
    BY DEF Explained, HasSuccessor, NextLedger
  <1>5. tx.outputs[1] = StateOutput(n)
    BY <1>1, <1>2 DEF StateOutput
  <1>6. tx.action \in AllowedActions(s)
    BY DEF AllowedActions
  <1>. HIDE DEF n
  <1>7. Explainable(x, tx)
    BY <1>1, <1>2, <1>3, <1>4, <1>5, <1>6 DEF Explainable, FeeExplained
  <1>. QED
    BY <1>1, <1>2, <1>4, <1>5, <1>7 DEF Follows

LEMMA CloseFollows ==
    ASSUME NEW x, Sound(x), NEW tx, TxType(tx), ConsensusAccepts(x, tx),
           x.ledger.phase = "OPEN", OpenAccepts(x, tx), tx.action = "CLOSE"
    PROVE  Follows(x, tx)
  <1>. DEFINE s == x.ledger
              n == [s EXCEPT !.phase = ClosedPhase(s)]
  <1>1. /\ CheckFee(x, tx, 2) /\ tx.external > 0
        /\ s.sold < s.config.ticketCap /\ PurchaseCount(s) < s.config.purchaseCap
               => tx.lockTime >= s.config.closeEligibleDaa - 1
        /\ IF s.sold = 0
           THEN Terminal(tx) /\ Ordinary(tx, 1, Deposit, Owner)
           ELSE Successor(tx, n, x.value)
    BY DEF OpenAccepts
  <1>2. /\ s \in Ledgers /\ ValidLedger(s) /\ s.config = Config /\ s.sold \in Nat
        /\ s.sold <= Config.ticketCap /\ PurchaseCount(s) <= Config.purchaseCap
        /\ PurchaseCount(s) \in Nat
    BY LedgerFacts, ConfigFacts DEF Sound, ValidLedger
  <1>3. FeeExplained(x, tx)
    BY <1>1, FeeIsExplained DEF OutputLimit
  <1>4. Explained(x, tx).ended = (s.sold = 0) /\ Explained(x, tx).next = n
    <2>1. Explained(x, tx).ended = ~(s.sold > 0) /\ Explained(x, tx).next = n
      BY DEF Explained, HasSuccessor, NextLedger
    <2>. QED
      BY <1>2, <2>1
  <1>5. tx.action \in AllowedActions(s)
    BY DEF AllowedActions
  <1>6. ~SoldOut(s) =>
          /\ tx.lockTime >= s.config.closeEligibleDaa - 1 /\ tx.lockTime < DaaLimit
          /\ x.currentDaa >= s.config.closeEligibleDaa
    <2>. SUFFICES ASSUME ~SoldOut(s)
                  PROVE  /\ tx.lockTime >= Config.closeEligibleDaa - 1 /\ tx.lockTime < DaaLimit
                         /\ x.currentDaa >= Config.closeEligibleDaa
      BY <1>2
    <2>1. s.sold < Config.ticketCap /\ PurchaseCount(s) < Config.purchaseCap
      BY <1>2, ConfigFacts DEF SoldOut
    <2>2. tx.lockTime >= Config.closeEligibleDaa - 1
      BY <1>1, <1>2, <2>1
    <2>3. tx.lockTime = 0 \/ tx.lockTime < x.currentDaa
      BY DEF ConsensusAccepts
    <2>4. tx.lockTime \in Nat /\ x.currentDaa \in Nat /\ x.currentDaa >= 1 /\ x.currentDaa < DaaLimit
      BY BoundFacts DEF TxType, Sound
    <2>. QED
      BY <2>2, <2>3, <2>4, ConfigFacts, BoundFacts
  <1>7. CASE s.sold = 0
    <2>1. StateOutputs(tx) = {} /\ Ordinary(tx, 1, Deposit, Owner)
      BY <1>1, <1>7 DEF Terminal
    <2>. HIDE DEF n
    <2>2. Explainable(x, tx)
      BY <1>1, <1>3, <1>4, <1>5, <1>6, <1>7, <2>1 DEF Explainable, FeeExplained
    <2>. QED
      BY <1>4, <1>7, <2>1, <2>2 DEF Follows
  <1>8. CASE s.sold # 0
    <2>1. n \in Ledgers /\ ValidLedger(n) /\ ValueOf(n) = x.value
      <3>1. ClosedPhase(s) \in {"SEALED", "REFUNDING"}
            /\ (ClosedPhase(s) = "SEALED" => s.sold >= s.config.minTickets)
        BY DEF ClosedPhase
      <3>2. s.sold > 0
        BY <1>2, <1>8
      <3>. QED
        BY <1>2, <3>1, <3>2, Turned DEF Sound
    <2>2. StateOutputs(tx) = {1} /\ tx.outputs[1] = StateOutput(n)
      BY <1>1, <1>8, <2>1 DEF Successor, StateOutput
    <2>. HIDE DEF n
    <2>3. Explainable(x, tx)
      BY <1>1, <1>3, <1>4, <1>5, <1>6, <1>8, <2>1, <2>2 DEF Explainable, FeeExplained
    <2>. QED
      BY <1>4, <1>8, <2>1, <2>2, <2>3 DEF Follows
  <1>. QED
    BY <1>7, <1>8

LEMMA TimeoutFollows ==
    ASSUME NEW x, Sound(x), NEW tx, TxType(tx), ConsensusAccepts(x, tx),
           x.ledger.phase = "SEALED", SealedAccepts(x, tx), tx.action = "TIMEOUT_REFUND"
    PROVE  Follows(x, tx)
  <1>. DEFINE s == x.ledger
              n == [s EXCEPT !.phase = "REFUNDING"]
  <1>1. /\ CheckFee(x, tx, 3) /\ s.sold >= s.config.minTickets
        /\ x.utxoDaa < DaaLimit - TimeoutDelay
        /\ tx.sequence >= TimeoutDelay
        /\ Successor(tx, n, x.value)
    BY DEF SealedAccepts
  <1>2. s \in Ledgers /\ ValidLedger(s) /\ s.config = Config /\ s.sold \in Nat /\ s.sold > 0
    BY <1>1, LedgerFacts, ConfigFacts DEF Sound
  <1>3. FeeExplained(x, tx)
    BY <1>1, FeeIsExplained DEF OutputLimit
  <1>4. Explained(x, tx).ended = FALSE /\ Explained(x, tx).next = n
    BY DEF Explained, HasSuccessor, NextLedger
  <1>5. tx.action \in AllowedActions(s)
    BY DEF AllowedActions
  <1>6. AgeProven(x, tx, TimeoutDelay)
    <2>1. x.currentDaa >= x.utxoDaa + tx.sequence
      BY DEF ConsensusAccepts
    <2>. QED
      BY <1>1, <2>1, BoundFacts DEF AgeProven, TxType, Sound
  <1>7. n \in Ledgers /\ ValidLedger(n) /\ ValueOf(n) = x.value
    BY <1>2, Turned DEF Sound
  <1>8. StateOutputs(tx) = {1} /\ tx.outputs[1] = StateOutput(n)
    BY <1>1, <1>7 DEF Successor, StateOutput
  <1>. HIDE DEF n
  <1>9. Explainable(x, tx)
    BY <1>1, <1>3, <1>4, <1>5, <1>6, <1>7, <1>8 DEF Explainable, FeeExplained
  <1>. QED
    BY <1>4, <1>7, <1>8, <1>9 DEF Follows

(* A sample's ticket is one of those sold.                                 *)
LEMMA TicketSold ==
    ASSUME NEW s \in Ledgers, ValidLedger(s), s.phase = "SEALED", NEW o \in Samples
    PROVE  (o % s.sold) \in Nat /\ (o % s.sold) < s.sold
  <1>1. s.sold \in Nat /\ s.sold > 0
    BY LedgerFacts, ConfigFacts DEF ValidLedger
  <1>2. o \in Nat
    BY BoundFacts DEF Samples
  <1>. QED
    BY <1>1, <1>2

LEMMA DrawFollows ==
    ASSUME NEW x, Sound(x), NEW tx, TxType(tx), ConsensusAccepts(x, tx),
           x.ledger.phase = "SEALED", SealedAccepts(x, tx), tx.action = "DRAW_AND_PAY"
    PROVE  Follows(x, tx)
  <1>. DEFINE s == x.ledger
  <1>1. /\ CheckFee(x, tx, 3)
        /\ x.utxoDaa < DaaLimit - TimeoutDelay
        /\ tx.external = 0
        /\ tx.sequence >= DrawDelay
        /\ tx.opening = x.opening /\ tx.opening # NoOpening
        /\ tx.opening < Limit(s.sold)
        /\ tx.hint \in 1..PurchaseCount(s)
        /\ HoldsTicket(s, tx.hint, tx.opening % s.sold)
        /\ Prize(s, tx.fee) >= MinPrice
        /\ Terminal(tx) /\ Len(tx.outputs) = 3
        /\ Ordinary(tx, 1, Prize(s, tx.fee), s.directory[tx.hint].key)
        /\ Ordinary(tx, 2, Deposit, Owner)
        /\ Ordinary(tx, 3, Finalizer, tx.actor)
    BY DEF SealedAccepts
  <1>2. s \in Ledgers /\ ValidLedger(s)
    BY DEF Sound
  <1>3. FeeExplained(x, tx)
    BY <1>1, FeeIsExplained DEF OutputLimit
  <1>4. Explained(x, tx).ended = TRUE
    BY DEF Explained, HasSuccessor
  <1>5. tx.action \in AllowedActions(s)
    BY DEF AllowedActions
  <1>6. AgeProven(x, tx, DrawDelay)
    <2>1. x.currentDaa >= x.utxoDaa + tx.sequence
      BY DEF ConsensusAccepts
    <2>. QED
      BY <1>1, <2>1, BoundFacts DEF AgeProven, TxType, Sound
  <1>7. tx.hint = RecordOf(s, tx.opening % s.sold)
    <2>1. tx.opening \in Samples
      BY <1>1 DEF Sound, Openings
    <2>2. (tx.opening % s.sold) \in Nat /\ (tx.opening % s.sold) < s.sold
      BY <1>2, <2>1, TicketSold
    <2>. QED
      BY <1>1, <1>2, <2>2, RecordHolds
  <1>8. StateOutputs(tx) = {}
    BY <1>1 DEF Terminal
  <1>9. Explainable(x, tx)
    BY <1>1, <1>3, <1>4, <1>5, <1>6, <1>7, <1>8 DEF Explainable, FeeExplained
  <1>. QED
    BY <1>4, <1>8, <1>9 DEF Follows

LEMMA RefundFollows ==
    ASSUME NEW x, Sound(x), NEW tx, TxType(tx), ConsensusAccepts(x, tx),
           x.ledger.phase = "REFUNDING", RefundingAccepts(x, tx)
    PROVE  Follows(x, tx)
  <1>. DEFINE s == x.ledger
              n == [s EXCEPT !.cursor = @ + RefundBatch(s).k]
  <1>1. /\ tx.action = "REFUND"
        /\ CheckFee(x, tx, MaxRefundRecords + 2)
        /\ Len(tx.outputs) = RefundBatch(s).k + 2
        /\ \A r \in 1..RefundBatch(s).k :
              Ordinary(tx, (IF RefundBatch(s).last THEN 0 ELSE 1) + r,
                       RefundAmount(s, s.cursor + r), s.directory[s.cursor + r].key)
        /\ Ordinary(tx, RefundBatch(s).k + 2, tx.external + RefundBatch(s).pool - tx.fee, tx.actor)
        /\ IF RefundBatch(s).last
           THEN /\ Terminal(tx)
                /\ Ordinary(tx, RefundBatch(s).k + 1, Deposit - RefundFee, Owner)
           ELSE Successor(tx, [s EXCEPT !.cursor = s.cursor + RefundBatch(s).k],
                  x.value - (EndAt(s, s.cursor + RefundBatch(s).k) - PaidTickets(s)) * s.config.ticketPrice)
    BY DEF RefundingAccepts
  <1>2. s \in Ledgers /\ ValidLedger(s) /\ s.phase = "REFUNDING"
    BY DEF Sound
  <1>3. FeeExplained(x, tx)
    BY <1>1, FeeIsExplained DEF OutputLimit
  <1>4. Explained(x, tx).ended = RefundBatch(s).last /\ Explained(x, tx).next = n
    <2>1. Explained(x, tx).ended = ~~RefundBatch(s).last /\ Explained(x, tx).next = n
      BY <1>1 DEF Explained, HasSuccessor, NextLedger
    <2>2. RefundBatch(s).last \in BOOLEAN
      BY <1>2, BatchFacts
    <2>. QED
      BY <2>1, <2>2
  <1>5. tx.action \in AllowedActions(s)
    BY <1>1 DEF AllowedActions
  <1>6. RefundBatch(s).last \in BOOLEAN
    BY <1>2, BatchFacts
  <1>7. CASE RefundBatch(s).last
    <2>1. StateOutputs(tx) = {} /\ Ordinary(tx, RefundBatch(s).k + 1, Deposit - RefundFee, Owner)
      BY <1>1, <1>7 DEF Terminal
    <2>. HIDE DEF n
    <2>2. Explainable(x, tx)
      BY <1>1, <1>3, <1>4, <1>5, <1>7, <2>1 DEF Explainable, FeeExplained
    <2>. QED
      BY <1>4, <1>6, <1>7, <2>1, <2>2 DEF Follows
  <1>8. CASE ~RefundBatch(s).last
    <2>1. /\ n \in Ledgers /\ ValidLedger(n)
          /\ ValueOf(n) = x.value
               - (EndAt(s, s.cursor + RefundBatch(s).k) - PaidTickets(s)) * s.config.ticketPrice
      BY <1>2, <1>8, Refunded DEF Sound
    <2>2. StateOutputs(tx) = {1} /\ tx.outputs[1] = StateOutput(n)
      BY <1>1, <1>8, <2>1 DEF Successor, StateOutput
    <2>. HIDE DEF n
    <2>3. Explainable(x, tx)
      BY <1>1, <1>3, <1>4, <1>5, <1>8, <2>1, <2>2 DEF Explainable, FeeExplained
    <2>. QED
      BY <1>4, <1>6, <1>8, <2>1, <2>2, <2>3 DEF Follows
  <1>. QED
    BY <1>6, <1>7, <1>8

LEMMA AcceptedFollows ==
    ASSUME NEW x, Sound(x), NEW tx, TxType(tx), ConsensusAccepts(x, tx), CovenantAccepts(x, tx)
    PROVE  Follows(x, tx)
  <1>1. OpenAccepts(x, tx) => tx.action \in {"BUY", "CLOSE"}
    BY DEF OpenAccepts
  <1>2. SealedAccepts(x, tx) => tx.action \in {"DRAW_AND_PAY", "TIMEOUT_REFUND"}
    BY DEF SealedAccepts
  <1>. QED
    BY <1>1, <1>2, BuyFollows, CloseFollows, TimeoutFollows, DrawFollows, RefundFollows
       DEF CovenantAccepts

---------------------------------------------------------------------------
(* Outputs.                                                                *)

Payees == Keys \cup {Owner}
KeyOutputs == [value : Int, pays : Payees]

LEMMA KeyOutputIs ==
    ASSUME NEW a \in Int, NEW k \in Payees
    PROVE  KeyOutput(a, k) \in KeyOutputs
  BY DEF KeyOutput, KeyOutputs

LEMMA KeyOutputIsPlain ==
    ASSUME NEW o \in KeyOutputs
    PROVE  ~IsState(o)
  BY DEF KeyOutputs, IsState

LEMMA StateOutputIsState == ASSUME NEW n PROVE IsState(StateOutput(n))
  BY DEF StateOutput, IsState

LEMMA FunctionIsSeq ==
    ASSUME NEW S, NEW k \in Nat, NEW f \in [1..k -> S]
    PROVE  f \in Seq(S) /\ Len(f) = k
  OBVIOUS

LEMMA NoState ==
    ASSUME NEW p \in Seq(KeyOutputs)
    PROVE  /\ <<>> \o p = p
           /\ {i \in DOMAIN p : IsState(p[i])} = {}
           /\ DOMAIN p = 1..Len(p) /\ Len(p) \in Nat
  <1>1. <<>> \o p = p
    BY ConcatEmptySeq
  <1>2. \A i \in DOMAIN p : p[i] \in KeyOutputs
    OBVIOUS
  <1>3. DOMAIN p = 1..Len(p) /\ Len(p) \in Nat
    OBVIOUS
  <1>. QED
    BY <1>1, <1>2, <1>3, KeyOutputIsPlain

Headed(n, p, o) ==
    /\ Len(o) = Len(p) + 1 /\ DOMAIN o = 1..Len(o)
    /\ o[1] = StateOutput(n)
    /\ \A i \in 1..Len(p) : o[i + 1] = p[i]
    /\ {i \in DOMAIN o : IsState(o[i])} = {1}

LEMMA StateFirst ==
    ASSUME NEW n, NEW p \in Seq(KeyOutputs), NEW o, o = <<StateOutput(n)>> \o p
    PROVE  Headed(n, p, o)
  <1>. DEFINE S == KeyOutputs \cup {StateOutput(n)}
  <1>1. p \in Seq(S) /\ <<StateOutput(n)>> \in Seq(S) /\ Len(<<StateOutput(n)>>) = 1
        /\ <<StateOutput(n)>>[1] = StateOutput(n) /\ Len(p) \in Nat
    OBVIOUS
  <1>2. \A i \in 1..Len(p) : p[i] \in KeyOutputs
    OBVIOUS
  <1>. HIDE DEF S
  <1>3. /\ o \in Seq(S) /\ Len(o) = 1 + Len(p)
        /\ \A i \in 1..(1 + Len(p)) : o[i] = IF i <= 1 THEN <<StateOutput(n)>>[i] ELSE p[i - 1]
    BY <1>1, ConcatProperties
  <1>4. DOMAIN o = 1..Len(o) /\ Len(o) \in Nat
    BY <1>3
  <1>5. o[1] = StateOutput(n)
    BY <1>1, <1>3
  <1>6. ASSUME NEW i \in 1..Len(p) PROVE o[i + 1] = p[i]
    <2>1. i + 1 \in 1..(1 + Len(p)) /\ ~(i + 1 <= 1) /\ (i + 1) - 1 = i
      BY <1>1
    <2>. QED
      BY <1>3, <2>1
  <1>7. \A i \in DOMAIN o : i = 1 \/ (i - 1 \in 1..Len(p) /\ (i - 1) + 1 = i)
    BY <1>1, <1>3, <1>4
  <1>8. ASSUME NEW i \in DOMAIN o PROVE IsState(o[i]) <=> i = 1
    <2>1. CASE i = 1
      BY <1>5, <2>1, StateOutputIsState
    <2>2. CASE i # 1
      <3>1. o[i] \in KeyOutputs
        BY <1>2, <1>6, <1>7, <2>2
      <3>. QED
        BY <2>2, <3>1, KeyOutputIsPlain
    <2>. QED
      BY <2>1, <2>2
  <1>9. 1 \in DOMAIN o
    BY <1>1, <1>3, <1>4
  <1>. QED
    BY <1>1, <1>3, <1>4, <1>5, <1>6, <1>8, <1>9 DEF Headed

(* The refunds of a batch, what its creator gets, if it is the last, and   *)
(* what its executor keeps.                                                *)
Rows(k, f, a, e, p, q) ==
    /\ p \in Seq(KeyOutputs) /\ Len(p) = k + 2
    /\ \A r \in 1..k : p[r] = f[r]
    /\ p[k + 1] = a /\ p[k + 2] = e
    /\ q \in Seq(KeyOutputs) /\ Len(q) = k + 1
    /\ \A r \in 1..k : q[r] = f[r]
    /\ q[k + 1] = e

LEMMA BatchRow ==
    ASSUME NEW k \in Nat, NEW f \in [1..k -> KeyOutputs],
           NEW a \in KeyOutputs, NEW e \in KeyOutputs,
           NEW p, p = f \o <<a>> \o <<e>>, NEW q, q = f \o <<>> \o <<e>>
    PROVE  Rows(k, f, a, e, p, q)
  <1>1. f \in Seq(KeyOutputs) /\ Len(f) = k
    BY FunctionIsSeq
  <1>2. \A z \in KeyOutputs : <<z>> \in Seq(KeyOutputs) /\ Len(<<z>>) = 1 /\ <<z>>[1] = z
    OBVIOUS
  <1>3. PICK g : g = f \o <<a>>
    OBVIOUS
  <1>4. /\ g \in Seq(KeyOutputs) /\ Len(g) = k + 1
        /\ \A i \in 1..(k + 1) : g[i] = IF i <= k THEN f[i] ELSE <<a>>[i - k]
    BY <1>1, <1>2, <1>3, ConcatProperties
  <1>5. /\ p \in Seq(KeyOutputs) /\ Len(p) = (k + 1) + 1
        /\ \A i \in 1..((k + 1) + 1) : p[i] = IF i <= k + 1 THEN g[i] ELSE <<e>>[i - (k + 1)]
    BY <1>2, <1>3, <1>4, ConcatProperties
  <1>6. f \o <<>> = f
    BY <1>1, ConcatEmptySeq
  <1>7. /\ q \in Seq(KeyOutputs) /\ Len(q) = k + 1
        /\ \A i \in 1..(k + 1) : q[i] = IF i <= k THEN f[i] ELSE <<e>>[i - k]
    BY <1>1, <1>2, <1>6, ConcatProperties
  <1>8. /\ k + 1 \in 1..(k + 1) /\ ~(k + 1 <= k) /\ (k + 1) - k = 1
        /\ k + 2 \in 1..((k + 1) + 1) /\ ~(k + 2 <= k + 1) /\ (k + 2) - (k + 1) = 1
        /\ k + 1 \in 1..((k + 1) + 1) /\ k + 1 <= k + 1
        /\ (k + 1) + 1 = k + 2
        /\ \A r \in 1..k : r \in 1..(k + 1) /\ r <= k /\ r \in 1..((k + 1) + 1) /\ r <= k + 1
    OBVIOUS
  <1>9. p[k + 1] = a /\ p[k + 2] = e /\ q[k + 1] = e
    <2>1. <<a>>[1] = a /\ <<e>>[1] = e
      BY <1>2
    <2>2. p[k + 1] = g[k + 1]
      BY <1>5, <1>8
    <2>3. g[k + 1] = <<a>>[1]
      BY <1>4, <1>8
    <2>4. p[k + 2] = <<e>>[1]
      BY <1>5, <1>8
    <2>5. q[k + 1] = <<e>>[1]
      BY <1>7, <1>8
    <2>. QED
      BY <2>1, <2>2, <2>3, <2>4, <2>5
  <1>10. \A r \in 1..k : p[r] = f[r] /\ q[r] = f[r]
    BY <1>4, <1>5, <1>7, <1>8
  <1>. QED
    BY <1>5, <1>7, <1>8, <1>9, <1>10 DEF Rows

---------------------------------------------------------------------------
(* What a client composes, the templates accept while its tip lives.       *)

Ops == [action : Actions, actor : Keys, quantity : Nat]

(* y is an earlier reading of the state x describes.                       *)
Reads(y, x) ==
    \E d \in 1..x.currentDaa, o \in {NoOpening, x.opening} :
        y = [ledger |-> x.ledger, tip |-> x.tip, value |-> x.value,
             utxoDaa |-> x.utxoDaa, currentDaa |-> d, opening |-> o]

LEMMA ReadsFacts ==
    ASSUME NEW x, Sound(x), NEW y, Reads(y, x)
    PROVE  /\ Sound(y) /\ y.ledger = x.ledger /\ y.tip = x.tip /\ y.value = x.value
           /\ y.utxoDaa = x.utxoDaa /\ y.currentDaa <= x.currentDaa
           /\ y.opening # NoOpening => y.opening = x.opening
  <1>1. PICK d \in 1..x.currentDaa, o \in {NoOpening, x.opening} :
            y = [ledger |-> x.ledger, tip |-> x.tip, value |-> x.value,
                 utxoDaa |-> x.utxoDaa, currentDaa |-> d, opening |-> o]
    BY DEF Reads
  <1>2. x.currentDaa \in 1..(DaaLimit - 1) /\ DaaLimit \in Nat
    BY BoundFacts DEF Sound
  <1>3. d \in 1..(DaaLimit - 1) /\ d <= x.currentDaa
    BY <1>2
  <1>4. o \in Openings
    BY DEF Sound, Openings
  <1>. QED
    BY <1>1, <1>3, <1>4 DEF Sound

LEMMA DraftTyped ==
    ASSUME NEW x, Sound(x), NEW op \in Ops, NEW fee, NEW external, CanBuild(x, op, fee, external)
    PROVE  TxType(BuildAction(x, op, fee, external))
  <1>. DEFINE tx == BuildAction(x, op, fee, external)
  <1>1. fee \in 1..MaxPayFee /\ external \in 0..(ValueLimit - 1)
    BY DEF CanBuild, TransitionAllowed
  <1>2. fee \in Nat /\ external \in Nat
    BY <1>1, MoneyFacts
  <1>3. /\ tx.spends = x.tip /\ tx.action = op.action /\ tx.actor = op.actor /\ tx.quantity = op.quantity
        /\ tx.external = external /\ tx.fee = fee
        /\ tx.lockTime = (IF op.action = "CLOSE" THEN CloseLockTime(x.ledger) ELSE 0)
        /\ tx.sequence = (CASE op.action = "DRAW_AND_PAY" -> DrawDelay
                            [] op.action = "TIMEOUT_REFUND" -> TimeoutDelay
                            [] OTHER -> 0)
    BY DEF BuildAction
  <1>4. CloseLockTime(x.ledger) \in Nat
    <2>1. x.ledger.config = Config
      BY LedgerFacts DEF Sound
    <2>2. Config.closeEligibleDaa - 1 \in Nat
      BY ConfigFacts
    <2>. QED
      BY <2>1, <2>2 DEF CloseLockTime
  <1>5. tx.sequence \in Nat
    BY <1>3, BoundFacts
  <1>. HIDE DEF tx
  <1>6. op.action \in Actions /\ op.actor \in Keys /\ op.quantity \in Nat
    BY DEF Ops
  <1>7. TxType(tx)
    BY <1>2, <1>3, <1>4, <1>5, <1>6 DEF TxType, Sound
  <1>. QED
    BY <1>7 DEF tx

(* What every draft has, whatever its action.                              *)
Builds(x, y, op, fee, external, tx) ==
    /\ Sound(x) /\ x.utxoDaa <= x.currentDaa
    /\ Reads(y, x)
    /\ op \in Ops
    /\ CanBuild(y, op, fee, external)
    /\ tx = BuildAction(y, op, fee, external)

Outs(s, op, p) ==
    (IF HasSuccessor(s, op) THEN <<StateOutput(NextLedger(s, op))>> ELSE <<>>) \o p

LEMMA OutsHeaded ==
    ASSUME NEW s, NEW op, NEW p, NEW n, HasSuccessor(s, op), NextLedger(s, op) = n
    PROVE  Outs(s, op, p) = <<StateOutput(n)>> \o p
  BY DEF Outs

LEMMA OutsPlain ==
    ASSUME NEW s, NEW op, NEW p \in Seq(KeyOutputs), ~HasSuccessor(s, op)
    PROVE  Outs(s, op, p) = p
  BY NoState DEF Outs

LEMMA DraftOutputs ==
    ASSUME NEW x, NEW y, NEW op, NEW fee, NEW external, NEW tx,
           Builds(x, y, op, fee, external, tx)
    PROVE  tx.outputs = Outs(x.ledger, op, Payments(y, op, fee, external))
  <1>1. y.ledger = x.ledger
    BY ReadsFacts DEF Builds
  <1>. QED
    BY <1>1 DEF Builds, BuildAction, Outs

LEMMA DraftFields ==
    ASSUME NEW x, NEW y, NEW op, NEW fee, NEW external, NEW tx,
           Builds(x, y, op, fee, external, tx)
    PROVE  /\ tx.spends = x.tip /\ tx.action = op.action /\ tx.actor = op.actor
           /\ tx.quantity = op.quantity /\ tx.external = external /\ tx.fee = fee
           /\ fee \in Nat /\ fee > 0 /\ fee <= MaxPayFee
           /\ external \in Nat /\ external < ValueLimit
           /\ op.action \in Actions /\ op.actor \in Keys /\ op.quantity \in Nat
           /\ op.action \in AvailableActions(y)
           /\ x.ledger \in Ledgers /\ ValidLedger(x.ledger) /\ x.value = ValueOf(x.ledger)
           /\ y.ledger = x.ledger
  <1>1. fee \in 1..MaxPayFee /\ external \in 0..(ValueLimit - 1) /\ op.action \in AvailableActions(y)
    BY DEF Builds, CanBuild, TransitionAllowed
  <1>2. y.ledger = x.ledger /\ y.tip = x.tip
    BY ReadsFacts DEF Builds
  <1>3. /\ tx.spends = x.tip /\ tx.action = op.action /\ tx.actor = op.actor
        /\ tx.quantity = op.quantity /\ tx.external = external /\ tx.fee = fee
    BY <1>2 DEF Builds, BuildAction
  <1>4. /\ fee \in Nat /\ fee > 0 /\ fee <= MaxPayFee
        /\ external \in Nat /\ external < ValueLimit
    BY <1>1, MoneyFacts
  <1>5. op.action \in Actions /\ op.actor \in Keys /\ op.quantity \in Nat
    BY DEF Builds, Ops
  <1>6. x.ledger \in Ledgers /\ ValidLedger(x.ledger) /\ x.value = ValueOf(x.ledger)
    BY DEF Builds, Sound
  <1>. QED
    BY <1>1, <1>2, <1>3, <1>4, <1>5, <1>6

(* A draft's lock time has passed and its age is reached: they had when it *)
(* was composed, and the clock only goes on.                               *)
LEMMA DraftReachesConsensus ==
    ASSUME NEW x, NEW y, NEW op, NEW fee, NEW external, NEW tx,
           Builds(x, y, op, fee, external, tx)
    PROVE  ConsensusAccepts(x, tx)
  <1>. DEFINE s == x.ledger
  <1>1. /\ s.config = Config /\ y.ledger = s /\ y.utxoDaa = x.utxoDaa
        /\ x.currentDaa \in Nat /\ y.currentDaa \in Nat /\ y.currentDaa <= x.currentDaa
        /\ x.utxoDaa \in Nat /\ x.utxoDaa <= x.currentDaa
    <2>1. Sound(x) /\ Reads(y, x) /\ x.utxoDaa <= x.currentDaa
      BY DEF Builds
    <2>2. Sound(y) /\ y.ledger = s /\ y.utxoDaa = x.utxoDaa /\ y.currentDaa <= x.currentDaa
      BY <2>1, ReadsFacts
    <2>. QED
      BY <2>1, <2>2, LedgerFacts, BoundFacts DEF Sound
  <1>2. op.action \in AvailableActions(y)
    BY DraftFields
  <1>3. tx.lockTime = (IF op.action = "CLOSE" THEN CloseLockTime(s) ELSE 0)
        /\ tx.sequence = (CASE op.action = "DRAW_AND_PAY" -> DrawDelay
                            [] op.action = "TIMEOUT_REFUND" -> TimeoutDelay
                            [] OTHER -> 0)
    BY <1>1 DEF Builds, BuildAction
  <1>4. tx.lockTime = 0 \/ tx.lockTime < x.currentDaa
    <2>1. CASE op.action = "CLOSE" /\ ~SoldOut(s)
      <3>1. y.currentDaa >= Config.closeEligibleDaa
        BY <1>1, <1>2, <2>1 DEF AvailableActions
      <3>2. tx.lockTime = Config.closeEligibleDaa - 1
        BY <1>1, <1>3, <2>1 DEF CloseLockTime
      <3>. QED
        BY <1>1, <3>1, <3>2, ConfigFacts
    <2>2. CASE ~(op.action = "CLOSE" /\ ~SoldOut(s))
      BY <1>3, <2>2 DEF CloseLockTime
    <2>. QED
      BY <2>1, <2>2
  <1>5. x.currentDaa >= x.utxoDaa + tx.sequence
    <2>1. CASE op.action = "DRAW_AND_PAY"
      <3>1. y.currentDaa >= y.utxoDaa + DrawDelay
        BY <1>2, <2>1 DEF AvailableActions
      <3>. QED
        BY <1>1, <1>3, <2>1, <3>1, BoundFacts
    <2>2. CASE op.action = "TIMEOUT_REFUND"
      <3>1. y.currentDaa >= y.utxoDaa + TimeoutDelay
        BY <1>2, <2>2 DEF AvailableActions
      <3>. QED
        BY <1>1, <1>3, <2>2, <3>1, BoundFacts
    <2>3. CASE op.action # "DRAW_AND_PAY" /\ op.action # "TIMEOUT_REFUND"
      <3>1. tx.sequence = 0
        BY <1>3, <2>3
      <3>. QED
        BY <1>1, <3>1
    <2>. QED
      BY <2>1, <2>2, <2>3
  <1>6. tx.spends = x.tip /\ tx.external = external /\ external \in Nat
    BY DraftFields
  <1>. QED
    BY <1>4, <1>5, <1>6 DEF ConsensusAccepts

LEMMA DraftPaysItsFee ==
    ASSUME NEW x, NEW y, NEW op, NEW fee, NEW external, NEW tx,
           Builds(x, y, op, fee, external, tx),
           Len(tx.outputs) \in Nat, Len(tx.outputs) > 0
    PROVE  /\ CheckFee(x, tx, OutputLimit(x.ledger))
           /\ Len(tx.outputs) <= OutputLimit(x.ledger)
           /\ \A i \in DOMAIN tx.outputs : Spendable(tx.outputs[i].value)
  <1>1. y.ledger = x.ledger /\ y.value = x.value
    BY ReadsFacts DEF Builds
  <1>2. /\ Len(tx.outputs) <= OutputLimit(x.ledger)
        /\ \A i \in DOMAIN tx.outputs : Spendable(tx.outputs[i].value)
        /\ x.value + external - TotalOut(tx) = fee
    BY <1>1 DEF Builds, CanBuild
  <1>3. tx.external = external /\ tx.fee = fee /\ fee > 0 /\ fee <= MaxPayFee
        /\ external \in Nat /\ external < ValueLimit
    BY DraftFields
  <1>4. OutputLimit(x.ledger) \in Nat
    BY BoundFacts DEF OutputLimit
  <1>5. Len(tx.outputs) \in 1..OutputLimit(x.ledger)
    <2>. DEFINE l == Len(tx.outputs)
                m == OutputLimit(x.ledger)
    <2>1. l \in Nat /\ l > 0 /\ m \in Nat /\ l <= m
      BY <1>2, <1>4
    <2>. HIDE DEF l, m
    <2>2. l \in 1..m
      BY <2>1
    <2>. QED
      BY <2>2 DEF l, m
  <1>6. Spendable(x.value)
    <2>1. x.ledger \in Ledgers /\ ValidLedger(x.ledger) /\ x.value = ValueOf(x.ledger)
      BY DraftFields
    <2>. QED
      BY <2>1, ValueFacts
  <1>7. tx.external <= FundingInputs * ValueLimit
    BY <1>3, MoneyFacts DEF FundingInputs
  <1>. QED
    BY <1>2, <1>3, <1>5, <1>6, <1>7 DEF CheckFee

(* What is left over, where anything is, goes back to who paid it.         *)
ChangeReturns(tx) ==
    /\ DOMAIN tx.outputs = 1..Len(tx.outputs) /\ Len(tx.outputs) \in Nat
    /\ tx.action \in {"BUY", "CLOSE", "TIMEOUT_REFUND"} =>
         \A i \in DOMAIN tx.outputs \ {1} :
            tx.outputs[i] = KeyOutput(tx.outputs[i].value, tx.actor)

LEMMA ChangeTyped ==
    ASSUME NEW s \in Ledgers, NEW op \in Ops, NEW fee \in Nat, NEW external \in Nat
    PROVE  /\ Change(s, op, fee, external) \in Seq(KeyOutputs)
           /\ \A i \in 1..Len(Change(s, op, fee, external)) :
                 Change(s, op, fee, external)[i] =
                   KeyOutput(Change(s, op, fee, external)[i].value, op.actor)
  <1>1. <<>> \in Seq(KeyOutputs) /\ Len(<<>>) = 0
    OBVIOUS
  <1>2. external - RequiredExternal(s, op, fee) \in Int
    <2>1. s.config = Config
      BY LedgerFacts
    <2>2. op.quantity \in Nat /\ Config.ticketPrice \in Nat
      BY ConfigFacts DEF Ops
    <2>3. op.quantity * Config.ticketPrice \in Int
      BY <2>2
    <2>. QED
      BY <2>1, <2>3 DEF RequiredExternal
  <1>3. op.actor \in Payees
    BY DEF Ops, Payees
  <1>4. KeyOutput(external - RequiredExternal(s, op, fee), op.actor) \in KeyOutputs
    BY <1>2, <1>3, KeyOutputIs
  <1>5. \A z \in KeyOutputs : <<z>> \in Seq(KeyOutputs) /\ Len(<<z>>) = 1 /\ <<z>>[1] = z
    OBVIOUS
  <1>6. PICK z \in KeyOutputs : z = KeyOutput(external - RequiredExternal(s, op, fee), op.actor)
    BY <1>4
  <1>7. z = KeyOutput(z.value, op.actor)
    BY <1>6 DEF KeyOutput
  <1>8. PICK p : p = Change(s, op, fee, external)
    OBVIOUS
  <1>9. p = <<>> \/ p = <<z>>
    BY <1>6, <1>8 DEF Change
  <1>10. CASE p = <<>>
    BY <1>1, <1>8, <1>10
  <1>11. CASE p = <<z>>
    <2>1. p \in Seq(KeyOutputs) /\ Len(p) = 1 /\ p[1] = z
      BY <1>5, <1>11
    <2>. QED
      BY <1>7, <1>8, <2>1
  <1>. QED
    BY <1>9, <1>10, <1>11

LEMMA PlainSequence ==
    ASSUME NEW p \in Seq(KeyOutputs), NEW tx, tx.outputs = p
    PROVE  StateOutputs(tx) = {} /\ DOMAIN tx.outputs = 1..Len(p) /\ Len(p) \in Nat
  BY NoState DEF StateOutputs

LEMMA SuccessorFirst ==
    ASSUME NEW n, NEW p \in Seq(KeyOutputs), NEW tx, tx.outputs = <<StateOutput(n)>> \o p
    PROVE  /\ Len(tx.outputs) = Len(p) + 1 /\ DOMAIN tx.outputs = 1..Len(tx.outputs)
           /\ tx.outputs[1] = StateOutput(n)
           /\ \A i \in 1..Len(p) : tx.outputs[i + 1] = p[i]
           /\ StateOutputs(tx) = {1}
           /\ Len(p) \in Nat
  <1>1. Len(p) \in Nat
    OBVIOUS
  <1>2. PICK o : o = <<StateOutput(n)>> \o p
    OBVIOUS
  <1>3. Headed(n, p, o)
    BY <1>2, StateFirst
  <1>4. tx.outputs = o
    BY <1>2
  <1>. QED
    BY <1>1, <1>3, <1>4 DEF StateOutputs, Headed

LEMMA HeadedReturns ==
    ASSUME NEW n, NEW p \in Seq(KeyOutputs), NEW tx, tx.outputs = <<StateOutput(n)>> \o p,
           \A i \in 1..Len(p) : p[i] = KeyOutput(p[i].value, tx.actor)
    PROVE  ChangeReturns(tx)
  <1>1. /\ Len(tx.outputs) = Len(p) + 1 /\ DOMAIN tx.outputs = 1..Len(tx.outputs)
        /\ \A i \in 1..Len(p) : tx.outputs[i + 1] = p[i]
        /\ Len(p) \in Nat
    BY SuccessorFirst
  <1>2. ASSUME NEW i \in DOMAIN tx.outputs \ {1} PROVE tx.outputs[i] = KeyOutput(tx.outputs[i].value, tx.actor)
    <2>1. i - 1 \in 1..Len(p) /\ (i - 1) + 1 = i
      BY <1>1
    <2>. QED
      BY <1>1, <2>1
  <1>. QED
    BY <1>1, <1>2 DEF ChangeReturns

LEMMA BuyStands ==
    ASSUME NEW x, NEW y, NEW op, NEW fee, NEW external, NEW tx,
           Builds(x, y, op, fee, external, tx), op.action = "BUY"
    PROVE  CovenantAccepts(x, tx) /\ ChangeReturns(tx)
  <1>. DEFINE s == x.ledger
              n == AppendPurchase(s, op.quantity, op.actor)
              p == Change(s, op, fee, external)
  <1>1. /\ tx.action = "BUY" /\ tx.actor = op.actor /\ tx.quantity = op.quantity
        /\ tx.external = external /\ fee \in Nat /\ fee > 0 /\ external \in Nat
        /\ op.actor \in Keys /\ op.quantity \in Nat
    BY DraftFields
  <1>2. s \in Ledgers /\ ValidLedger(s) /\ x.value = ValueOf(s) /\ y.ledger = s
        /\ op.action \in AvailableActions(y)
    BY DraftFields
  <1>3. s.phase = "OPEN" /\ CanAppend(s, op.quantity)
        /\ external >= op.quantity * s.config.ticketPrice + fee
    BY <1>2 DEF Builds, CanBuild, TransitionAllowed, AvailableActions
  <1>4. /\ op.quantity > 0 /\ op.quantity <= s.config.ticketCap - s.sold
        /\ PurchaseCount(s) < s.config.purchaseCap
    <2>1. s.config = Config /\ s.sold \in Nat /\ Config.ticketCap - s.sold \in Int
      BY <1>2, LedgerFacts, ConfigFacts
    <2>2. op.quantity \in 1..(Config.ticketCap - s.sold)
          /\ PurchaseCount(s) < s.config.purchaseCap
      BY <1>3, <2>1 DEF CanAppend
    <2>. QED
      BY <2>1, <2>2
  <1>5. ValueOf(n) = ValueOf(s) + op.quantity * s.config.ticketPrice
    BY <1>1, <1>2, <1>3, Appended
  <1>6. external > 0
    <2>1. s.config = Config
      BY <1>2, LedgerFacts
    <2>2. op.quantity * Config.ticketPrice \in Nat
      BY <1>1, ConfigFacts
    <2>. QED
      BY <1>1, <1>3, <2>1, <2>2
  <1>7. tx.outputs = <<StateOutput(n)>> \o p
    <2>1. HasSuccessor(s, op) /\ NextLedger(s, op) = n
      BY DEF HasSuccessor, NextLedger
    <2>2. Payments(y, op, fee, external) = p
      BY <1>2 DEF Payments
    <2>3. tx.outputs = Outs(s, op, Payments(y, op, fee, external))
      BY DraftOutputs
    <2>. HIDE DEF n, p
    <2>. QED
      BY <2>1, <2>2, <2>3, OutsHeaded
  <1>8. p \in Seq(KeyOutputs) /\ \A i \in 1..Len(p) : p[i] = KeyOutput(p[i].value, tx.actor)
    BY <1>1, <1>2, ChangeTyped DEF Builds
  <1>. HIDE DEF p, n
  <1>9. /\ Len(tx.outputs) = Len(p) + 1 /\ Len(p) \in Nat
        /\ tx.outputs[1] = StateOutput(n) /\ StateOutputs(tx) = {1}
    BY <1>7, <1>8, SuccessorFirst
  <1>10. CheckFee(x, tx, 2)
    <2>1. Len(tx.outputs) \in Nat /\ Len(tx.outputs) > 0
      BY <1>9
    <2>. QED
      BY <1>3, <2>1, DraftPaysItsFee DEF OutputLimit
  <1>11. Successor(tx, n, x.value + tx.quantity * s.config.ticketPrice)
    BY <1>1, <1>2, <1>5, <1>9 DEF Successor, StateOutput
  <1>12. OpenAccepts(x, tx)
    BY <1>1, <1>4, <1>6, <1>10, <1>11 DEF OpenAccepts, n
  <1>13. ChangeReturns(tx)
    BY <1>7, <1>8, HeadedReturns
  <1>. QED
    BY <1>3, <1>12, <1>13 DEF CovenantAccepts

LEMMA CloseStands ==
    ASSUME NEW x, NEW y, NEW op, NEW fee, NEW external, NEW tx,
           Builds(x, y, op, fee, external, tx), op.action = "CLOSE"
    PROVE  CovenantAccepts(x, tx) /\ ChangeReturns(tx)
  <1>. DEFINE s == x.ledger
              n == [s EXCEPT !.phase = ClosedPhase(s)]
              p == Change(s, op, fee, external)
  <1>1. /\ tx.action = "CLOSE" /\ tx.actor = op.actor /\ tx.external = external
        /\ fee \in Nat /\ fee > 0 /\ external \in Nat
    BY DraftFields
  <1>2. s \in Ledgers /\ ValidLedger(s) /\ x.value = ValueOf(s) /\ y.ledger = s
        /\ op.action \in AvailableActions(y)
    BY DraftFields
  <1>3. s.phase = "OPEN" /\ external >= fee
    BY <1>2 DEF Builds, CanBuild, TransitionAllowed, AvailableActions
  <1>4. external > 0
    BY <1>1, <1>3
  <1>5. s.sold \in Nat /\ s.config = Config /\ PurchaseCount(s) \in Nat
    BY <1>2, LedgerFacts
  <1>6. s.sold < s.config.ticketCap /\ PurchaseCount(s) < s.config.purchaseCap
          => tx.lockTime >= s.config.closeEligibleDaa - 1
    <2>. SUFFICES ASSUME s.sold < Config.ticketCap, PurchaseCount(s) < Config.purchaseCap
                  PROVE  tx.lockTime >= Config.closeEligibleDaa - 1
      BY <1>5
    <2>1. ~SoldOut(s)
      BY <1>5, ConfigFacts DEF SoldOut
    <2>2. tx.lockTime = CloseLockTime(s)
      BY <1>2 DEF Builds, BuildAction
    <2>3. tx.lockTime = Config.closeEligibleDaa - 1
      BY <1>5, <2>1, <2>2 DEF CloseLockTime
    <2>. QED
      BY <2>3, ConfigFacts
  <1>7. p \in Seq(KeyOutputs) /\ Len(p) \in Nat /\ \A i \in 1..Len(p) : p[i] = KeyOutput(p[i].value, tx.actor)
    <2>1. p \in Seq(KeyOutputs) /\ \A i \in 1..Len(p) : p[i] = KeyOutput(p[i].value, tx.actor)
      BY <1>1, <1>2, ChangeTyped DEF Builds
    <2>. HIDE DEF p
    <2>. QED
      BY <2>1
  <1>8. tx.outputs = Outs(s, op, Payments(y, op, fee, external)) /\ NextLedger(s, op) = n
    BY DraftOutputs DEF NextLedger
  <1>9. CASE s.sold = 0
    <2>1. ~HasSuccessor(s, op)
      BY <1>9 DEF HasSuccessor
    <2>2. Payments(y, op, fee, external) = <<KeyOutput(Deposit, Owner)>> \o p
      BY <1>2, <1>9 DEF Payments
    <2>. HIDE DEF p, n
    <2>. DEFINE h == <<KeyOutput(Deposit, Owner)>>
    <2>3. h \in Seq(KeyOutputs) /\ Len(h) = 1 /\ h[1] = KeyOutput(Deposit, Owner)
      <3>1. KeyOutput(Deposit, Owner) \in KeyOutputs
        BY MoneyFacts, KeyOutputIs DEF Payees
      <3>. QED
        BY <3>1
    <2>. HIDE DEF h
    <2>4. PICK o : o = h \o p
      OBVIOUS
    <2>5. /\ o \in Seq(KeyOutputs) /\ Len(o) = 1 + Len(p)
          /\ \A i \in 1..(1 + Len(p)) : o[i] = IF i <= 1 THEN h[i] ELSE p[i - 1]
      <3>1. p \in Seq(KeyOutputs)
        BY <1>7
      <3>2. /\ h \o p \in Seq(KeyOutputs) /\ Len(h \o p) = Len(h) + Len(p)
            /\ \A i \in 1..(Len(h) + Len(p)) :
                  (h \o p)[i] = IF i <= Len(h) THEN h[i] ELSE p[i - Len(h)]
        BY <2>3, <3>1, ConcatProperties
      <3>. QED
        BY <2>3, <2>4, <3>2
    <2>6. o[1] = KeyOutput(Deposit, Owner)
      BY <1>7, <2>3, <2>5
    <2>7. tx.outputs = o
      <3>1. tx.outputs = Outs(s, op, o)
        BY <1>8, <2>2, <2>4 DEF h
      <3>. QED
        BY <2>1, <2>5, <3>1, OutsPlain
    <2>8. StateOutputs(tx) = {} /\ DOMAIN tx.outputs = 1..Len(o)
      BY <2>5, <2>7, PlainSequence
    <2>9. CheckFee(x, tx, 2)
      <3>1. Len(tx.outputs) \in Nat /\ Len(tx.outputs) > 0
        BY <1>7, <2>5, <2>7
      <3>. QED
        BY <1>3, <3>1, DraftPaysItsFee DEF OutputLimit
    <2>10. Ordinary(tx, 1, Deposit, Owner)
      <3>1. 1 \in DOMAIN tx.outputs
        BY <1>7, <2>5, <2>8
      <3>. QED
        BY <2>6, <2>7, <3>1, MoneyFacts DEF Ordinary, Spendable
    <2>11. OpenAccepts(x, tx)
      BY <1>1, <1>4, <1>6, <1>9, <2>8, <2>9, <2>10 DEF OpenAccepts, Terminal
    <2>12. ChangeReturns(tx)
      <3>1. DOMAIN tx.outputs = 1..Len(tx.outputs) /\ Len(tx.outputs) = 1 + Len(p)
        BY <2>5, <2>7, <2>8
      <3>2. ASSUME NEW i \in DOMAIN tx.outputs \ {1} PROVE tx.outputs[i] = KeyOutput(tx.outputs[i].value, tx.actor)
        <4>1. i \in 1..(1 + Len(p)) /\ ~(i <= 1) /\ i - 1 \in 1..Len(p)
          BY <1>7, <3>1
        <4>2. tx.outputs[i] = p[i - 1]
          BY <2>5, <2>7, <4>1
        <4>. QED
          BY <1>7, <4>1, <4>2
      <3>. QED
        BY <1>7, <3>1, <3>2 DEF ChangeReturns
    <2>. QED
      BY <1>3, <2>11, <2>12 DEF CovenantAccepts
  <1>10. CASE s.sold # 0
    <2>1. s.sold > 0 /\ HasSuccessor(s, op)
      BY <1>5, <1>10 DEF HasSuccessor
    <2>2. Payments(y, op, fee, external) = p
      BY <1>2, <1>10 DEF Payments
    <2>3. ValueOf(n) = x.value
      <3>1. ClosedPhase(s) \in {"SEALED", "REFUNDING"}
            /\ (ClosedPhase(s) = "SEALED" => s.sold >= s.config.minTickets)
        BY DEF ClosedPhase
      <3>. QED
        BY <1>2, <1>3, <2>1, <3>1, Turned
    <2>. HIDE DEF p
    <2>4. tx.outputs = <<StateOutput(n)>> \o p
      BY <1>8, <2>1, <2>2, OutsHeaded
    <2>5. /\ Len(tx.outputs) = Len(p) + 1
          /\ tx.outputs[1] = StateOutput(n) /\ StateOutputs(tx) = {1}
      BY <1>7, <2>4, SuccessorFirst
    <2>6. CheckFee(x, tx, 2)
      <3>1. Len(tx.outputs) \in Nat /\ Len(tx.outputs) > 0
        BY <1>7, <2>5
      <3>. QED
        BY <1>3, <3>1, DraftPaysItsFee DEF OutputLimit
    <2>7. Successor(tx, n, x.value)
      BY <2>3, <2>5 DEF Successor, StateOutput
    <2>8. OpenAccepts(x, tx)
      BY <1>1, <1>4, <1>6, <1>10, <2>6, <2>7 DEF OpenAccepts
    <2>9. ChangeReturns(tx)
      BY <1>7, <2>4, HeadedReturns
    <2>. QED
      BY <1>3, <2>8, <2>9 DEF CovenantAccepts
  <1>. QED
    BY <1>9, <1>10

LEMMA TimeoutStands ==
    ASSUME NEW x, NEW y, NEW op, NEW fee, NEW external, NEW tx,
           Builds(x, y, op, fee, external, tx), op.action = "TIMEOUT_REFUND"
    PROVE  CovenantAccepts(x, tx) /\ ChangeReturns(tx)
  <1>. DEFINE s == x.ledger
              n == [s EXCEPT !.phase = "REFUNDING"]
              p == Change(s, op, fee, external)
  <1>1. tx.action = "TIMEOUT_REFUND" /\ tx.actor = op.actor /\ fee \in Nat /\ external \in Nat
    BY DraftFields
  <1>2. s \in Ledgers /\ ValidLedger(s) /\ x.value = ValueOf(s) /\ y.ledger = s
        /\ op.action \in AvailableActions(y)
    BY DraftFields
  <1>3. s.phase = "SEALED"
    BY <1>2 DEF AvailableActions
  <1>4. x.utxoDaa < DaaLimit - TimeoutDelay
    <2>1. AnchorChecked(y)
      BY DEF Builds, CanBuild, TransitionAllowed
    <2>2. y.utxoDaa = x.utxoDaa
      BY ReadsFacts DEF Builds
    <2>. QED
      BY <1>2, <1>3, <2>1, <2>2 DEF AnchorChecked
  <1>5. s.config = Config /\ s.sold \in Nat /\ s.sold >= s.config.minTickets /\ s.sold > 0
    BY <1>2, <1>3, LedgerFacts, ConfigFacts DEF ValidLedger
  <1>6. x.value = Deposit + s.sold * s.config.ticketPrice
    BY <1>2, <1>3, ValueFacts
  <1>7. tx.sequence >= TimeoutDelay
    <2>1. tx.sequence = TimeoutDelay
      BY DEF Builds, BuildAction
    <2>. QED
      BY <2>1, BoundFacts
  <1>8. ValueOf(n) = x.value
    BY <1>2, <1>3, <1>5, Turned
  <1>9. tx.outputs = <<StateOutput(n)>> \o p
    <2>1. HasSuccessor(s, op) /\ NextLedger(s, op) = n
      BY DEF HasSuccessor, NextLedger
    <2>2. Payments(y, op, fee, external) = p
      BY <1>2 DEF Payments
    <2>3. tx.outputs = Outs(s, op, Payments(y, op, fee, external))
      BY DraftOutputs
    <2>. HIDE DEF n, p
    <2>. QED
      BY <2>1, <2>2, <2>3, OutsHeaded
  <1>10. p \in Seq(KeyOutputs) /\ \A i \in 1..Len(p) : p[i] = KeyOutput(p[i].value, tx.actor)
    BY <1>1, <1>2, ChangeTyped DEF Builds
  <1>. HIDE DEF p
  <1>11. /\ Len(tx.outputs) = Len(p) + 1 /\ Len(p) \in Nat
         /\ tx.outputs[1] = StateOutput(n) /\ StateOutputs(tx) = {1}
    BY <1>9, <1>10, SuccessorFirst
  <1>12. CheckFee(x, tx, 3)
    <2>1. Len(tx.outputs) \in Nat /\ Len(tx.outputs) > 0
      BY <1>11
    <2>. QED
      BY <1>3, <2>1, DraftPaysItsFee DEF OutputLimit
  <1>13. Successor(tx, n, x.value)
    BY <1>8, <1>11 DEF Successor, StateOutput
  <1>14. SealedAccepts(x, tx)
    BY <1>1, <1>4, <1>5, <1>6, <1>7, <1>12, <1>13 DEF SealedAccepts
  <1>15. ChangeReturns(tx)
    BY <1>9, <1>10, HeadedReturns
  <1>. QED
    BY <1>3, <1>14, <1>15 DEF CovenantAccepts

LEMMA DrawStands ==
    ASSUME NEW x, NEW y, NEW op, NEW fee, NEW external, NEW tx,
           Builds(x, y, op, fee, external, tx), op.action = "DRAW_AND_PAY"
    PROVE  CovenantAccepts(x, tx) /\ ChangeReturns(tx)
  <1>. DEFINE s == x.ledger
  <1>1. /\ tx.action = "DRAW_AND_PAY" /\ tx.actor = op.actor /\ tx.fee = fee
        /\ tx.external = external /\ fee \in Nat /\ op.actor \in Keys
    BY DraftFields
  <1>2. s \in Ledgers /\ ValidLedger(s) /\ x.value = ValueOf(s) /\ y.ledger = s
        /\ op.action \in AvailableActions(y)
    BY DraftFields
  <1>3. s.phase = "SEALED"
    BY <1>2 DEF AvailableActions
  <1>4. /\ external = 0 /\ y.opening # NoOpening /\ y.opening < Limit(s.sold)
        /\ Prize(s, fee) >= MinPrice
    BY <1>2 DEF Builds, CanBuild, TransitionAllowed
  <1>5. x.utxoDaa < DaaLimit - TimeoutDelay
    <2>1. AnchorChecked(y)
      BY DEF Builds, CanBuild, TransitionAllowed
    <2>2. y.utxoDaa = x.utxoDaa
      BY ReadsFacts DEF Builds
    <2>. QED
      BY <1>2, <1>3, <2>1, <2>2 DEF AnchorChecked
  <1>6. s.config = Config /\ s.sold \in Nat /\ s.sold >= s.config.minTickets /\ s.sold > 0
    BY <1>2, <1>3, LedgerFacts, ConfigFacts DEF ValidLedger
  <1>7. x.value = Deposit + s.sold * s.config.ticketPrice
    BY <1>2, <1>3, ValueFacts
  <1>8. y.opening = x.opening /\ y.opening \in Samples
    <2>1. y.opening = x.opening /\ Sound(y)
      BY <1>4, ReadsFacts DEF Builds
    <2>. QED
      BY <1>4, <2>1 DEF Sound, Openings
  <1>9. /\ tx.opening = y.opening /\ tx.hint = RecordOf(s, y.opening % s.sold)
        /\ tx.sequence = DrawDelay
    BY <1>2 DEF Builds, BuildAction
  <1>10. tx.hint \in 1..PurchaseCount(s) /\ HoldsTicket(s, tx.hint, tx.opening % s.sold)
    <2>1. (y.opening % s.sold) \in Nat /\ (y.opening % s.sold) < s.sold
      BY <1>2, <1>3, <1>8, TicketSold
    <2>. QED
      BY <1>2, <1>9, <2>1, RecordHolds
  <1>. DEFINE a == KeyOutput(Prize(s, fee), s.directory[tx.hint].key)
              b == KeyOutput(Deposit, Owner)
              c == KeyOutput(Finalizer, op.actor)
              o == <<a, b, c>>
  <1>11. Payments(y, op, fee, external) = o
    BY <1>2, <1>9 DEF Payments
  <1>12. Prize(s, fee) \in Int
    <2>1. s.sold * Config.ticketPrice \in Nat
      BY <1>6, ConfigFacts
    <2>. QED
      BY <1>1, <1>6, <2>1, MoneyFacts DEF Prize
  <1>13. a \in KeyOutputs /\ b \in KeyOutputs /\ c \in KeyOutputs
    <2>1. s.directory[tx.hint].key \in Keys
      BY <1>2, <1>10, LedgerFacts
    <2>. QED
      BY <1>1, <1>12, <2>1, KeyOutputIs, MoneyFacts DEF Payees
  <1>. HIDE DEF a, b, c
  <1>14. o \in Seq(KeyOutputs) /\ Len(o) = 3 /\ o[1] = a /\ o[2] = b /\ o[3] = c
    BY <1>13
  <1>. HIDE DEF o
  <1>15. tx.outputs = o
    <2>1. ~HasSuccessor(s, op)
      BY DEF HasSuccessor
    <2>. QED
      BY <1>11, <1>14, <2>1, DraftOutputs, OutsPlain
  <1>16. StateOutputs(tx) = {} /\ DOMAIN tx.outputs = 1..3
    BY <1>14, <1>15, PlainSequence
  <1>17. CheckFee(x, tx, 3) /\ \A i \in DOMAIN tx.outputs : Spendable(tx.outputs[i].value)
    <2>1. Len(tx.outputs) \in Nat /\ Len(tx.outputs) > 0
      BY <1>14, <1>15
    <2>. QED
      BY <1>3, <2>1, DraftPaysItsFee DEF OutputLimit
  <1>18. /\ Ordinary(tx, 1, Prize(s, tx.fee), s.directory[tx.hint].key)
         /\ Ordinary(tx, 2, Deposit, Owner)
         /\ Ordinary(tx, 3, Finalizer, tx.actor)
    <2>1. tx.outputs[1] = a /\ tx.outputs[2] = b /\ tx.outputs[3] = c
          /\ 1 \in DOMAIN tx.outputs /\ 2 \in DOMAIN tx.outputs /\ 3 \in DOMAIN tx.outputs
      BY <1>14, <1>15, <1>16
    <2>2. /\ Spendable(a.value) /\ Spendable(b.value) /\ Spendable(c.value)
      BY <1>17, <2>1
    <2>3. a.value = Prize(s, fee) /\ b.value = Deposit /\ c.value = Finalizer
      BY DEF a, b, c, KeyOutput
    <2>. QED
      BY <1>1, <2>1, <2>2, <2>3 DEF Ordinary, a, b, c
  <1>19. tx.sequence >= DrawDelay
    BY <1>9, BoundFacts
  <1>20. SealedAccepts(x, tx)
    BY <1>1, <1>4, <1>5, <1>6, <1>7, <1>8, <1>9, <1>10, <1>14, <1>15, <1>16, <1>17, <1>18, <1>19
       DEF SealedAccepts, Terminal
  <1>21. ChangeReturns(tx)
    <2>1. Len(tx.outputs) = 3 /\ DOMAIN tx.outputs = 1..3
      BY <1>14, <1>15, <1>16
    <2>2. tx.action \notin {"BUY", "CLOSE", "TIMEOUT_REFUND"}
      BY <1>1
    <2>. QED
      BY <2>1, <2>2 DEF ChangeReturns
  <1>. QED
    BY <1>3, <1>20, <1>21 DEF CovenantAccepts

(* The outputs a refund pays, by their places.                             *)
RefundRow(s, amount, actor, p) ==
    LET b == RefundBatch(s) IN
    /\ p \in Seq(KeyOutputs)
    /\ Len(p) = b.k + (IF b.last THEN 2 ELSE 1)
    /\ \A r \in 1..b.k : p[r] = KeyOutput(RefundAmount(s, s.cursor + r), s.directory[s.cursor + r].key)
    /\ b.last => p[b.k + 1] = KeyOutput(Deposit - RefundFee, Owner) /\ p[b.k + 2] = KeyOutput(amount, actor)
    /\ ~b.last => p[b.k + 1] = KeyOutput(amount, actor)

LEMMA RefundPays ==
    ASSUME NEW s \in Ledgers, ValidLedger(s), s.phase = "REFUNDING",
           NEW y, y.ledger = s, NEW op \in Ops, op.action = "REFUND",
           NEW fee \in Nat, NEW external \in Nat
    PROVE  RefundRow(s, external + RefundBatch(s).pool - fee, op.actor, Payments(y, op, fee, external))
  <1>1. PICK k \in Nat : k = RefundBatch(s).k
    BY BatchFacts
  <1>2. PICK l \in BOOLEAN : l = RefundBatch(s).last
    BY BatchFacts
  <1>3. PICK m \in Int : m = external + RefundBatch(s).pool - fee
    BY BatchFacts
  <1>. DEFINE f == [i \in 1..k |-> KeyOutput(RefundAmount(s, s.cursor + i),
                                             s.directory[s.cursor + i].key)]
              a == KeyOutput(Deposit - RefundFee, Owner)
              e == KeyOutput(m, op.actor)
  <1>4. s.cursor \in Nat /\ s.cursor + k <= PurchaseCount(s) /\ PurchaseCount(s) \in Nat
        /\ s.config = Config
    BY <1>1, BatchFacts, LedgerFacts
  <1>5. f \in [1..k -> KeyOutputs]
    <2>1. ASSUME NEW i \in 1..k
          PROVE  KeyOutput(RefundAmount(s, s.cursor + i), s.directory[s.cursor + i].key) \in KeyOutputs
      <3>1. s.cursor + i \in 1..PurchaseCount(s) /\ s.cursor + i - 1 \in 0..PurchaseCount(s)
            /\ s.cursor + i \in 0..PurchaseCount(s)
        BY <1>4
      <3>2. s.directory[s.cursor + i].key \in Keys
        BY <3>1, LedgerFacts
      <3>3. EndAt(s, s.cursor + i) \in Nat /\ EndAt(s, s.cursor + i - 1) \in Nat
        BY <3>1, LedgerFacts
      <3>4. CountAt(s, s.cursor + i) \in Int
        <4>1. PICK j \in Nat : j = s.cursor + i
          BY <1>4
        <4>2. EndAt(s, j) \in Nat /\ EndAt(s, j - 1) \in Nat
          BY <1>4, <3>3, <4>1
        <4>3. CountAt(s, j) \in Int
          BY <4>2 DEF CountAt
        <4>. QED
          BY <4>1, <4>3
      <3>5. CountAt(s, s.cursor + i) * Config.ticketPrice \in Int
        BY <3>4, ConfigFacts
      <3>6. RefundAmount(s, s.cursor + i) \in Int
        BY <1>4, <3>5, MoneyFacts DEF RefundAmount
      <3>. QED
        BY <3>2, <3>6, KeyOutputIs DEF Payees
    <2>. QED
      BY <2>1
  <1>6. a \in KeyOutputs /\ e \in KeyOutputs
    <2>1. op.actor \in Payees /\ Owner \in Payees
      BY DEF Ops, Payees
    <2>2. Deposit - RefundFee \in Int
      BY MoneyFacts
    <2>. QED
      BY <2>1, <2>2, KeyOutputIs
  <1>7. Payments(y, op, fee, external) = f \o (IF l THEN <<a>> ELSE <<>>) \o <<e>>
    BY <1>1, <1>2, <1>3 DEF Payments
  <1>8. \A r \in 1..k : f[r] = KeyOutput(RefundAmount(s, s.cursor + r), s.directory[s.cursor + r].key)
    OBVIOUS
  <1>. HIDE DEF f, a, e
  <1>9. PICK p : p = f \o <<a>> \o <<e>>
    OBVIOUS
  <1>10. PICK q : q = f \o <<>> \o <<e>>
    OBVIOUS
  <1>11. Rows(k, f, a, e, p, q)
    BY <1>5, <1>6, <1>9, <1>10, BatchRow
  <1>12. Payments(y, op, fee, external) = (IF l THEN p ELSE q)
    BY <1>7, <1>9, <1>10
  <1>13. RefundRow(s, m, op.actor, IF l THEN p ELSE q)
    <2>1. CASE l
      BY <1>1, <1>2, <1>8, <1>11, <2>1 DEF RefundRow, Rows, a, e
    <2>2. CASE ~l
      BY <1>1, <1>2, <1>8, <1>11, <2>2 DEF RefundRow, Rows, a, e
    <2>. QED
      BY <2>1, <2>2
  <1>. QED
    BY <1>3, <1>12, <1>13

LEMMA RefundStands ==
    ASSUME NEW x, NEW y, NEW op, NEW fee, NEW external, NEW tx,
           Builds(x, y, op, fee, external, tx), op.action = "REFUND"
    PROVE  CovenantAccepts(x, tx) /\ ChangeReturns(tx)
  <1>. DEFINE s == x.ledger
              n == [s EXCEPT !.cursor = @ + RefundBatch(s).k]
              p == Payments(y, op, fee, external)
  <1>1. /\ tx.action = "REFUND" /\ tx.actor = op.actor /\ tx.fee = fee
        /\ tx.external = external /\ fee \in Nat /\ external \in Nat
    BY DraftFields
  <1>2. s \in Ledgers /\ ValidLedger(s) /\ x.value = ValueOf(s) /\ y.ledger = s
        /\ op.action \in AvailableActions(y) /\ op \in Ops
    BY DraftFields DEF Builds
  <1>3. s.phase = "REFUNDING"
    BY <1>2 DEF AvailableActions
  <1>4. PICK k \in Nat : k = RefundBatch(s).k
    BY <1>2, <1>3, BatchFacts
  <1>5. PICK l \in BOOLEAN : l = RefundBatch(s).last
    BY <1>2, <1>3, BatchFacts
  <1>6. PICK m \in Int : m = external + RefundBatch(s).pool - fee
    BY <1>1, <1>2, <1>3, BatchFacts
  <1>7. /\ s.cursor \in Nat /\ k > 0 /\ s.cursor + k <= PurchaseCount(s)
        /\ l <=> s.cursor + k = PurchaseCount(s)
        /\ PurchaseCount(s) \in Nat /\ s.config = Config
    BY <1>2, <1>3, <1>4, <1>5, BatchFacts, LedgerFacts
  <1>8. RefundRow(s, m, op.actor, p)
    BY <1>1, <1>2, <1>3, <1>6, RefundPays
  <1>9. tx.outputs = Outs(s, op, p) /\ NextLedger(s, op) = n /\ (HasSuccessor(s, op) <=> ~l)
    <2>1. HasSuccessor(s, op) <=> ~RefundBatch(s).last
      BY DEF HasSuccessor
    <2>2. NextLedger(s, op) = n
      BY DEF NextLedger
    <2>3. tx.outputs = Outs(s, op, p)
      BY DraftOutputs
    <2>. HIDE DEF p, n
    <2>. QED
      BY <1>5, <2>1, <2>2, <2>3
  <1>. HIDE DEF p, n
  <1>10. /\ p \in Seq(KeyOutputs) /\ Len(p) = k + (IF l THEN 2 ELSE 1)
         /\ \A r \in 1..k : p[r] = KeyOutput(RefundAmount(s, s.cursor + r), s.directory[s.cursor + r].key)
         /\ l => p[k + 1] = KeyOutput(Deposit - RefundFee, Owner) /\ p[k + 2] = KeyOutput(m, op.actor)
         /\ ~l => p[k + 1] = KeyOutput(m, op.actor)
    BY <1>4, <1>5, <1>8 DEF RefundRow
  <1>. DEFINE first == IF l THEN 0 ELSE 1
  <1>11. /\ Len(tx.outputs) = k + 2 /\ DOMAIN tx.outputs = 1..(k + 2)
         /\ \A r \in 1..k : tx.outputs[first + r] = p[r]
         /\ tx.outputs[k + 2] = KeyOutput(m, op.actor)
         /\ l => StateOutputs(tx) = {} /\ tx.outputs[k + 1] = KeyOutput(Deposit - RefundFee, Owner)
         /\ ~l => StateOutputs(tx) = {1} /\ tx.outputs[1] = StateOutput(n)
    <2>1. CASE l
      <3>1. tx.outputs = p
        BY <1>9, <1>10, <2>1, OutsPlain
      <3>2. StateOutputs(tx) = {} /\ DOMAIN tx.outputs = 1..Len(p)
        BY <1>10, <3>1, PlainSequence
      <3>3. Len(p) = k + 2
        BY <1>10, <2>1
      <3>4. \A r \in 1..k : first + r = r
        BY <2>1
      <3>. HIDE DEF first
      <3>. QED
        BY <1>10, <2>1, <3>1, <3>2, <3>3, <3>4
    <2>2. CASE ~l
      <3>1. tx.outputs = <<StateOutput(n)>> \o p
        BY <1>9, <2>2, OutsHeaded
      <3>2. /\ Len(tx.outputs) = Len(p) + 1 /\ DOMAIN tx.outputs = 1..Len(tx.outputs)
            /\ tx.outputs[1] = StateOutput(n) /\ StateOutputs(tx) = {1}
            /\ \A i \in 1..Len(p) : tx.outputs[i + 1] = p[i]
        BY <1>10, <3>1, SuccessorFirst
      <3>3. Len(p) = k + 1 /\ (k + 1) + 1 = k + 2 /\ k + 1 \in 1..(k + 1)
        BY <1>10, <2>2
      <3>4. \A r \in 1..k : first + r = r + 1 /\ r \in 1..(k + 1)
        BY <2>2
      <3>. HIDE DEF first
      <3>5. \A r \in 1..k : tx.outputs[first + r] = p[r]
        BY <3>2, <3>3, <3>4
      <3>6. tx.outputs[k + 2] = p[k + 1]
        BY <3>2, <3>3
      <3>. QED
        BY <1>10, <2>2, <3>2, <3>3, <3>5, <3>6
    <2>. QED
      BY <2>1, <2>2
  <1>12. /\ CheckFee(x, tx, MaxRefundRecords + 2)
         /\ \A i \in DOMAIN tx.outputs : Spendable(tx.outputs[i].value)
    <2>1. Len(tx.outputs) \in Nat /\ Len(tx.outputs) > 0
      BY <1>11
    <2>2. OutputLimit(x.ledger) = MaxRefundRecords + 2
      BY <1>3 DEF OutputLimit
    <2>3. CheckFee(x, tx, OutputLimit(x.ledger)) /\ \A i \in DOMAIN tx.outputs : Spendable(tx.outputs[i].value)
      BY <2>1, DraftPaysItsFee
    <2>. QED
      BY <2>2, <2>3
  <1>13. \A i \in 1..(k + 2), amount \in Int : \A key :
            tx.outputs[i] = KeyOutput(amount, key) => Ordinary(tx, i, amount, key)
    <2>. SUFFICES ASSUME NEW i \in 1..(k + 2), NEW amount \in Int, NEW key,
                         tx.outputs[i] = KeyOutput(amount, key)
                  PROVE  Ordinary(tx, i, amount, key)
      OBVIOUS
    <2>1. i \in DOMAIN tx.outputs
      BY <1>11
    <2>2. tx.outputs[i].value = amount
      BY DEF KeyOutput
    <2>. QED
      BY <1>12, <2>1, <2>2 DEF Ordinary
  <1>14. ASSUME NEW r \in 1..k
         PROVE  /\ CountAt(s, s.cursor + r) > 0
                /\ Ordinary(tx, first + r, RefundAmount(s, s.cursor + r), s.directory[s.cursor + r].key)
    <2>1. PICK j \in 1..PurchaseCount(s) : j = s.cursor + r
      BY <1>7
    <2>2. CountAt(s, j) > 0
      BY <1>2 DEF ValidLedger
    <2>3. RefundAmount(s, j) \in Int
      <3>1. j \in 0..PurchaseCount(s) /\ j - 1 \in 0..PurchaseCount(s)
        BY <1>7
      <3>2. EndAt(s, j) \in Nat /\ EndAt(s, j - 1) \in Nat
        BY <1>2, <3>1, LedgerFacts
      <3>3. CountAt(s, j) \in Int
        BY <3>2 DEF CountAt
      <3>4. CountAt(s, j) * Config.ticketPrice \in Int
        BY <3>3, ConfigFacts
      <3>. QED
        BY <1>7, <3>4, MoneyFacts DEF RefundAmount
    <2>4. first + r \in 1..(k + 2)
      BY <1>7
    <2>5. tx.outputs[first + r] = KeyOutput(RefundAmount(s, j), s.directory[j].key)
      <3>. HIDE DEF first
      <3>. QED
        BY <1>10, <1>11, <2>1
    <2>. HIDE DEF first
    <2>6. Ordinary(tx, first + r, RefundAmount(s, j), s.directory[j].key)
      BY <1>13, <2>3, <2>4, <2>5
    <2>. QED
      BY <2>1, <2>2, <2>6
  <1>15. Ordinary(tx, k + 2, m, op.actor)
    BY <1>11, <1>13
  <1>16. l => Terminal(tx) /\ Ordinary(tx, k + 1, Deposit - RefundFee, Owner)
             /\ EndAt(s, s.cursor + k) = s.sold
    <2>. SUFFICES ASSUME l PROVE Terminal(tx) /\ Ordinary(tx, k + 1, Deposit - RefundFee, Owner)
             /\ EndAt(s, s.cursor + k) = s.sold
      OBVIOUS
    <2>1. k + 1 \in 1..(k + 2) /\ Deposit - RefundFee \in Int
      BY MoneyFacts
    <2>2. Ordinary(tx, k + 1, Deposit - RefundFee, Owner)
      BY <1>11, <1>13, <2>1
    <2>3. EndAt(s, s.cursor + k) = s.sold
      BY <1>2, <1>7 DEF ValidLedger
    <2>. QED
      BY <1>11, <2>2, <2>3 DEF Terminal
  <1>17. ~l => Successor(tx, [s EXCEPT !.cursor = s.cursor + k],
                  x.value - (EndAt(s, s.cursor + k) - PaidTickets(s)) * s.config.ticketPrice)
    <2>. SUFFICES ASSUME ~l PROVE Successor(tx, [s EXCEPT !.cursor = s.cursor + k],
                  x.value - (EndAt(s, s.cursor + k) - PaidTickets(s)) * s.config.ticketPrice)
      OBVIOUS
    <2>1. n = [s EXCEPT !.cursor = s.cursor + k]
      BY <1>4 DEF n
    <2>2. ValueOf(n) = x.value - (EndAt(s, s.cursor + k) - PaidTickets(s)) * s.config.ticketPrice
      BY <1>2, <1>3, <1>4, <1>5, Refunded DEF n
    <2>. QED
      BY <1>11, <2>1, <2>2 DEF Successor, StateOutput
  <1>18. s.cursor < PurchaseCount(s)
    BY <1>7
  <1>19. RefundingAccepts(x, tx)
    <2>1. \A r \in 1..k :
             /\ CountAt(s, s.cursor + r) > 0
             /\ Ordinary(tx, first + r, RefundAmount(s, s.cursor + r), s.directory[s.cursor + r].key)
      BY <1>14
    <2>2. tx.external + RefundBatch(s).pool - tx.fee = m /\ tx.actor = op.actor
      BY <1>1, <1>6
    <2>3. RefundBatch(s).k = k /\ RefundBatch(s).last = l
      BY <1>4, <1>5
    <2>. QED
      BY <1>1, <1>2, <1>11, <1>12, <1>15, <1>16, <1>17, <1>18, <2>1, <2>2, <2>3 DEF RefundingAccepts
  <1>20. ChangeReturns(tx)
    BY <1>1, <1>11 DEF ChangeReturns
  <1>. QED
    BY <1>3, <1>19, <1>20 DEF CovenantAccepts

(* A draft composed on any reading of a state is accepted while that state *)
(* is current, whatever the action.                                        *)
LEMMA DraftStands ==
    ASSUME NEW x, NEW y, NEW op, NEW fee, NEW external, NEW tx,
           Builds(x, y, op, fee, external, tx)
    PROVE  ConsensusAccepts(x, tx) /\ CovenantAccepts(x, tx) /\ ChangeReturns(tx)
  <1>1. op.action \in Actions
    BY DraftFields
  <1>. QED
    BY <1>1, DraftReachesConsensus, BuyStands, CloseStands, DrawStands, TimeoutStands, RefundStands
       DEF Actions

---------------------------------------------------------------------------
(* The network.                                                            *)

(* x describes the state UTXO, live or spent for good.                     *)
Describes(x) ==
    /\ x.ledger \in Ledgers /\ ValidLedger(x.ledger)
    /\ x.tip \in Nat /\ x.value \in Nat
    /\ x.value # 0 => x.value = ValueOf(x.ledger)
    /\ x.utxoDaa \in 1..x.currentDaa
    /\ x.currentDaa \in 1..MaxDaa
    /\ x.opening \in Openings

Drafted(x, tx) ==
    \E y, op, fee, external : Builds(x, y, op, fee, external, tx)

HeldFits(h, x) ==
    h # Idle =>
        /\ Describes(h) /\ h.value # 0 /\ Reads(h, h) /\ h.tip <= x.tip
        /\ h.tip = x.tip /\ x.value # 0 => Reads(h, x)

SentFits(t, x) ==
    t # NoTx =>
        /\ TxType(t) /\ ChangeReturns(t) /\ t.spends <= x.tip
        /\ t.spends = x.tip /\ x.value # 0 => Drafted(x, t)

(* What is remembered of the last accepted transaction.                    *)
LastFits(l, s, p) ==
    l # NoTx =>
        /\ Sound(l.before) /\ TxType(l.tx) /\ ChangeReturns(l.tx)
        /\ ConsensusAccepts(l.before, l.tx) /\ CovenantAccepts(l.before, l.tx)
        /\ IF Explained(l.before, l.tx).ended
           THEN s.value = 0
           ELSE s.value # 0 /\ s.ledger = Explained(l.before, l.tx).next
        /\ l.tx.action = "DRAW_AND_PAY" => p.record = l.tx.hint

Shaped ==
    /\ state = [ledger |-> state.ledger, tip |-> state.tip,
                value |-> state.value, utxoDaa |-> state.utxoDaa]
    /\ held = [c \in Clients |-> held[c]]
    /\ sent = [c \in Clients |-> sent[c]]

NetInv ==
    /\ Shaped
    /\ Describes(Snapshot)
    /\ \A c \in Clients : HeldFits(held[c], Snapshot) /\ SentFits(sent[c], Snapshot)
    /\ LastFits(last, state, prize)

LEMMA LiveIsSound ==
    ASSUME NEW x, Describes(x), x.value # 0
    PROVE  Sound(x) /\ x.utxoDaa <= x.currentDaa
  <1>1. x.currentDaa \in 1..(DaaLimit - 1) /\ x.utxoDaa \in 0..(DaaLimit - 1)
        /\ x.utxoDaa <= x.currentDaa
    BY BoundFacts DEF Describes
  <1>. QED
    BY <1>1 DEF Sound, Describes

LEMMA ReadsItself ==
    ASSUME NEW x, Describes(x),
           x = [ledger |-> x.ledger, tip |-> x.tip, value |-> x.value,
                utxoDaa |-> x.utxoDaa, currentDaa |-> x.currentDaa, opening |-> x.opening]
    PROVE  Reads(x, x)
  <1>1. x.currentDaa \in 1..x.currentDaa
    BY BoundFacts DEF Describes
  <1>. QED
    BY <1>1 DEF Reads

(* A reading stays one as blocks arrive.                                   *)
Ages(x, z) ==
    /\ z.ledger = x.ledger /\ z.tip = x.tip /\ z.value = x.value /\ z.utxoDaa = x.utxoDaa
    /\ x.currentDaa \in Nat /\ z.currentDaa \in Nat /\ x.currentDaa <= z.currentDaa
    /\ x.opening = NoOpening \/ z.opening = x.opening

LEMMA ReadsLater ==
    ASSUME NEW x, NEW z, Ages(x, z), NEW y, Reads(y, x)
    PROVE  Reads(y, z)
  <1>1. PICK d \in 1..x.currentDaa, o \in {NoOpening, x.opening} :
            y = [ledger |-> x.ledger, tip |-> x.tip, value |-> x.value,
                 utxoDaa |-> x.utxoDaa, currentDaa |-> d, opening |-> o]
    BY DEF Reads
  <1>2. d \in 1..z.currentDaa /\ o \in {NoOpening, z.opening}
    BY DEF Ages
  <1>3. y = [ledger |-> z.ledger, tip |-> z.tip, value |-> z.value,
             utxoDaa |-> z.utxoDaa, currentDaa |-> d, opening |-> o]
    BY <1>1 DEF Ages
  <1>. QED
    BY <1>2, <1>3 DEF Reads

LEMMA FitsLater ==
    ASSUME NEW x, NEW z, Ages(x, z), Describes(z)
    PROVE  /\ \A h : HeldFits(h, x) => HeldFits(h, z)
           /\ \A t : SentFits(t, x) => SentFits(t, z)
  <1>1. z.tip = x.tip /\ z.value = x.value
    BY DEF Ages
  <1>2. ASSUME NEW h, HeldFits(h, x) PROVE HeldFits(h, z)
    BY <1>1, <1>2, ReadsLater DEF HeldFits
  <1>3. ASSUME NEW t, SentFits(t, x) PROVE SentFits(t, z)
    <2>. SUFFICES ASSUME t # NoTx PROVE SentFits(t, z)
      BY DEF SentFits
    <2>1. TxType(t) /\ ChangeReturns(t) /\ t.spends <= z.tip
      BY <1>1, <1>3 DEF SentFits
    <2>2. ASSUME t.spends = z.tip, z.value # 0 PROVE Drafted(z, t)
      <3>1. PICK y, op, fee, external : Builds(x, y, op, fee, external, t)
        BY <1>1, <1>3, <2>2 DEF SentFits, Drafted
      <3>2. Builds(z, y, op, fee, external, t)
        BY <2>2, <3>1, LiveIsSound, ReadsLater DEF Builds
      <3>. QED
        BY <3>2 DEF Drafted
    <2>. QED
      BY <2>1, <2>2 DEF SentFits
  <1>. QED
    BY <1>2, <1>3

(* Once a tip is spent, what was read of it or spends it no longer counts. *)
LEMMA FitsSpent ==
    ASSUME NEW x, NEW z, x.tip \in Nat, z.tip = x.tip + 1
    PROVE  /\ \A h : HeldFits(h, x) => HeldFits(h, z)
           /\ \A t : SentFits(t, x) => SentFits(t, z)
  <1>1. ASSUME NEW h, HeldFits(h, x) PROVE HeldFits(h, z)
    <2>1. h # Idle => h.tip \in Nat /\ h.tip <= x.tip
      BY <1>1 DEF HeldFits, Describes
    <2>2. h # Idle => h.tip <= z.tip /\ h.tip # z.tip
      BY <2>1
    <2>. QED
      BY <1>1, <2>2 DEF HeldFits
  <1>2. ASSUME NEW t, SentFits(t, x) PROVE SentFits(t, z)
    <2>1. t # NoTx => t.spends \in Nat /\ t.spends <= x.tip /\ TxType(t) /\ ChangeReturns(t)
      BY <1>2 DEF SentFits, TxType
    <2>2. t # NoTx => t.spends <= z.tip /\ t.spends # z.tip
      BY <2>1
    <2>. QED
      BY <2>1, <2>2 DEF SentFits
  <1>. QED
    BY <1>1, <1>2

---------------------------------------------------------------------------
(* Initially.                                                              *)

LEMMA NewLedger ==
    /\ NewOpen(Config) \in Ledgers /\ ValidLedger(NewOpen(Config))
    /\ ValueOf(NewOpen(Config)) = Deposit
  <1>. DEFINE n == NewOpen(Config)
  <1>1. n.phase = "OPEN" /\ n.config = Config /\ n.sold = 0 /\ n.cursor = 0 /\ n.directory = <<>>
    BY DEF NewOpen
  <1>2. n \in Ledgers
    <2>1. <<>> \in Seq(Purchases)
      OBVIOUS
    <2>. QED
      BY <2>1 DEF Ledgers, NewOpen
  <1>3. PurchaseCount(n) = 0 /\ EndAt(n, 0) = 0
    BY <1>1 DEF PurchaseCount, EndAt
  <1>4. ValidLedger(n)
    BY <1>1, <1>3, ConfigFacts DEF ValidLedger
  <1>5. ValueOf(n) = Deposit
    <2>1. ValueOf(n) = Deposit + n.sold * Config.ticketPrice
      BY <1>1, <1>2, <1>4, ValueFacts
    <2>2. 0 * Config.ticketPrice = 0
      BY ConfigFacts
    <2>. QED
      BY <1>1, <2>1, <2>2, MoneyFacts
  <1>. QED
    BY <1>2, <1>4, <1>5

LEMMA InitHolds == Init => NetInv
  <1>. SUFFICES ASSUME Init PROVE NetInv
    OBVIOUS
  <1>1. Shaped
    BY DEF Init, Shaped
  <1>2. Describes(Snapshot)
    <2>1. /\ Snapshot.ledger = NewOpen(Config) /\ Snapshot.tip = 0 /\ Snapshot.value = Deposit
          /\ Snapshot.utxoDaa = 1 /\ Snapshot.currentDaa = 1 /\ Snapshot.opening = NoOpening
      BY DEF Init, Snapshot
    <2>2. 1 \in 1..1 /\ 1 \in 1..MaxDaa
      BY BoundFacts
    <2>. QED
      BY <2>1, <2>2, NewLedger, MoneyFacts DEF Describes, Openings
  <1>3. \A c \in Clients : HeldFits(held[c], Snapshot) /\ SentFits(sent[c], Snapshot)
    BY DEF Init, HeldFits, SentFits
  <1>4. LastFits(last, state, prize)
    BY DEF Init, LastFits
  <1>. QED
    BY <1>1, <1>2, <1>3, <1>4 DEF NetInv

---------------------------------------------------------------------------
(* Steps.                                                                  *)

LEMMA ObserveKeeps ==
    ASSUME NetInv, NEW c \in Clients, Observe(c)
    PROVE  NetInv'
  <1>1. PICK x : x = Snapshot
    OBVIOUS
  <1>2. /\ state.value # 0 /\ held' = [held EXCEPT ![c] = x]
        /\ daa' = daa /\ sent' = sent /\ state' = state /\ opening' = opening /\ last' = last
        /\ prize' = prize
    BY <1>1 DEF Observe, Ended, chain
  <1>3. Snapshot' = x
    BY <1>1, <1>2 DEF Snapshot
  <1>4. Describes(x) /\ x.value # 0
        /\ x = [ledger |-> x.ledger, tip |-> x.tip, value |-> x.value,
                utxoDaa |-> x.utxoDaa, currentDaa |-> x.currentDaa, opening |-> x.opening]
    BY <1>1, <1>2 DEF NetInv, Snapshot
  <1>5. HeldFits(x, x)
    <2>1. x.tip \in Nat
      BY <1>4 DEF Describes
    <2>. QED
      BY <1>4, <2>1, ReadsItself DEF HeldFits
  <1>6. Shaped'
    BY <1>2 DEF NetInv, Shaped
  <1>7. \A d \in Clients : held'[d] = IF d = c THEN x ELSE held[d]
    BY <1>2 DEF NetInv, Shaped
  <1>8. \A d \in Clients : HeldFits(held'[d], x) /\ SentFits(sent'[d], x)
    BY <1>1, <1>2, <1>5, <1>7 DEF NetInv
  <1>9. LastFits(last', state', prize')
    BY <1>2 DEF NetInv
  <1>. QED
    BY <1>3, <1>4, <1>6, <1>8, <1>9 DEF NetInv

LEMMA OperationsAreOps ==
    ASSUME NEW k \in Keys, NEW op \in Operations(k)
    PROVE  op \in Ops /\ op.actor = k
  <1>1. \A q \in Quantities : q \in Nat
    BY NetworkAssumption
  <1>. QED
    BY <1>1 DEF Operations, Ops, Actions

LEMMA ComposeKeeps ==
    ASSUME NetInv, NEW c \in Clients, NEW op \in Operations(c), NEW fee, NEW surplus,
           Compose(c, op, fee, surplus)
    PROVE  NetInv'
  <1>1. PICK x : x = Snapshot
    OBVIOUS
  <1>2. PICK h : h = held[c]
    OBVIOUS
  <1>3. PICK external : external = Funding(h, op, fee, surplus)
    OBVIOUS
  <1>4. PICK t : t = BuildAction(h, op, fee, external)
    OBVIOUS
  <1>5. /\ h # Idle /\ CanBuild(h, op, fee, external)
        /\ sent' = [sent EXCEPT ![c] = t] /\ held' = [held EXCEPT ![c] = Idle]
        /\ daa' = daa /\ state' = state /\ opening' = opening /\ last' = last /\ prize' = prize
    BY <1>2, <1>3, <1>4 DEF Compose, chain
  <1>6. Snapshot' = x
    BY <1>1, <1>5 DEF Snapshot
  <1>7. Describes(x) /\ HeldFits(h, x)
    BY <1>1, <1>2 DEF NetInv
  <1>8. op \in Ops
    BY OperationsAreOps DEF Keys
  <1>9. SentFits(t, x)
    <2>1. /\ Describes(h) /\ h.value # 0 /\ Reads(h, h) /\ h.tip <= x.tip
          /\ h.tip = x.tip /\ x.value # 0 => Reads(h, x)
      BY <1>5, <1>7 DEF HeldFits
    <2>2. Sound(h) /\ h.utxoDaa <= h.currentDaa
      BY <2>1, LiveIsSound
    <2>3. TxType(t)
      BY <1>4, <1>5, <1>8, <2>2, DraftTyped
    <2>4. t.spends = h.tip
      BY <1>4 DEF BuildAction
    <2>5. ChangeReturns(t)
      <3>1. Builds(h, h, op, fee, external, t)
        BY <1>4, <1>5, <1>8, <2>1, <2>2 DEF Builds
      <3>. QED
        BY <3>1, DraftStands
    <2>6. t.spends = x.tip /\ x.value # 0 => Drafted(x, t)
      BY <1>4, <1>5, <1>7, <1>8, <2>1, <2>4, LiveIsSound DEF Drafted, Builds
    <2>. QED
      BY <2>1, <2>3, <2>4, <2>5, <2>6 DEF SentFits
  <1>10. Shaped'
    BY <1>5 DEF NetInv, Shaped
  <1>11. \A d \in Clients : /\ held'[d] = IF d = c THEN Idle ELSE held[d]
                            /\ sent'[d] = IF d = c THEN t ELSE sent[d]
    BY <1>5 DEF NetInv, Shaped
  <1>12. \A d \in Clients : HeldFits(held'[d], x) /\ SentFits(sent'[d], x)
    <2>1. HeldFits(Idle, x)
      BY DEF HeldFits
    <2>. QED
      BY <1>1, <1>9, <1>11, <2>1 DEF NetInv
  <1>13. LastFits(last', state', prize')
    BY <1>5 DEF NetInv
  <1>. QED
    BY <1>6, <1>7, <1>10, <1>12, <1>13 DEF NetInv

LEMMA DropKeeps ==
    ASSUME NetInv, NEW c \in Clients, Drop(c)
    PROVE  NetInv'
  <1>1. PICK x : x = Snapshot
    OBVIOUS
  <1>2. /\ sent' = [sent EXCEPT ![c] = NoTx] /\ held' = held
        /\ daa' = daa /\ state' = state /\ opening' = opening /\ last' = last /\ prize' = prize
    BY DEF Drop, chain
  <1>3. Snapshot' = x
    BY <1>1, <1>2 DEF Snapshot
  <1>4. Shaped'
    BY <1>2 DEF NetInv, Shaped
  <1>5. \A d \in Clients : sent'[d] = IF d = c THEN NoTx ELSE sent[d]
    BY <1>2 DEF NetInv, Shaped
  <1>6. SentFits(NoTx, x)
    BY DEF SentFits
  <1>7. \A d \in Clients : HeldFits(held'[d], x) /\ SentFits(sent'[d], x)
    BY <1>1, <1>2, <1>5, <1>6 DEF NetInv
  <1>8. LastFits(last', state', prize')
    BY <1>2 DEF NetInv
  <1>. QED
    BY <1>1, <1>3, <1>4, <1>7, <1>8 DEF NetInv

LEMMA TickKeeps ==
    ASSUME NetInv, Tick
    PROVE  NetInv'
  <1>1. PICK x : x = Snapshot
    OBVIOUS
  <1>2. PICK z : z = Snapshot'
    OBVIOUS
  <1>3. /\ daa < MaxDaa /\ daa' = daa + 1
        /\ opening' = opening \/ (opening = NoOpening /\ opening' \in Samples)
        /\ held' = held /\ sent' = sent /\ state' = state /\ last' = last /\ prize' = prize
    BY DEF Tick
  <1>4. /\ x.ledger = state.ledger /\ x.tip = state.tip /\ x.value = state.value
        /\ x.utxoDaa = state.utxoDaa /\ x.currentDaa = daa /\ x.opening = opening
    BY <1>1 DEF Snapshot
  <1>5. /\ z.ledger = state.ledger /\ z.tip = state.tip /\ z.value = state.value
        /\ z.utxoDaa = state.utxoDaa /\ z.currentDaa = daa' /\ z.opening = opening'
    BY <1>2, <1>3 DEF Snapshot
  <1>6. Describes(x)
    BY <1>1 DEF NetInv
  <1>7. Ages(x, z) /\ Describes(z)
    <2>1. PICK d \in Nat : d = daa /\ d >= 1 /\ d < MaxDaa
      BY <1>3, <1>4, <1>6, BoundFacts DEF Describes
    <2>2. x.currentDaa = d /\ z.currentDaa = d + 1 /\ d + 1 \in 1..MaxDaa
      BY <1>3, <1>4, <1>5, <2>1, BoundFacts
    <2>3. x.utxoDaa \in 1..d
      BY <1>6, <2>2 DEF Describes
    <2>4. z.utxoDaa \in 1..z.currentDaa
      BY <1>4, <1>5, <2>1, <2>2, <2>3
    <2>5. z.opening \in Openings /\ (x.opening = NoOpening \/ z.opening = x.opening)
      BY <1>3, <1>4, <1>5, <1>6 DEF Describes, Openings
    <2>6. Ages(x, z)
      BY <1>4, <1>5, <2>1, <2>2, <2>5 DEF Ages
    <2>. QED
      BY <1>4, <1>5, <1>6, <2>2, <2>4, <2>5, <2>6 DEF Describes
  <1>8. Shaped'
    BY <1>3 DEF NetInv, Shaped
  <1>9. \A d \in Clients : HeldFits(held'[d], z) /\ SentFits(sent'[d], z)
    <2>1. \A d \in Clients : HeldFits(held[d], x) /\ SentFits(sent[d], x)
      BY <1>1 DEF NetInv
    <2>2. (\A h : HeldFits(h, x) => HeldFits(h, z)) /\ (\A t : SentFits(t, x) => SentFits(t, z))
      BY <1>7, FitsLater
    <2>. QED
      BY <1>3, <2>1, <2>2
  <1>10. LastFits(last', state', prize')
    BY <1>3 DEF NetInv
  <1>. QED
    BY <1>2, <1>7, <1>8, <1>9, <1>10 DEF NetInv

LEMMA AcceptKeeps ==
    ASSUME NetInv, NEW tx, TxType(tx), ChangeReturns(tx), Accept(tx)
    PROVE  NetInv'
  <1>1. PICK x : x = Snapshot
    OBVIOUS
  <1>2. PICK z : z = Snapshot'
    OBVIOUS
  <1>3. /\ x.ledger = state.ledger /\ x.tip = state.tip /\ x.value = state.value
        /\ x.utxoDaa = state.utxoDaa /\ x.currentDaa = daa /\ x.opening = opening
    BY <1>1 DEF Snapshot
  <1>4. /\ z.ledger = state'.ledger /\ z.tip = state'.tip /\ z.value = state'.value
        /\ z.utxoDaa = state'.utxoDaa /\ z.currentDaa = daa' /\ z.opening = opening'
    BY <1>2 DEF Snapshot
  <1>5. /\ state.value # 0 /\ ConsensusAccepts(x, tx) /\ CovenantAccepts(x, tx)
        /\ sent' = [c \in Clients |-> IF sent[c] # NoTx /\ sent[c].spends = state.tip
                                      THEN NoTx ELSE sent[c]]
        /\ last' = [before |-> x, tx |-> tx]
        /\ state' = (IF StateOutputs(tx) = {}
                     THEN [state EXCEPT !.value = 0, !.tip = @ + 1]
                     ELSE [ledger |-> tx.outputs[1].state, tip |-> state.tip + 1,
                           value |-> tx.outputs[1].value, utxoDaa |-> daa])
        /\ daa' = daa /\ opening' = opening /\ held' = held
    BY <1>1 DEF Accept, AcceptsNow, Ended
  <1>6. tx.action = "DRAW_AND_PAY" => prize'.record = tx.hint
    BY DEF Accept, Settle
  <1>7. Describes(x) /\ Sound(x)
    BY <1>1, <1>3, <1>5, LiveIsSound DEF NetInv
  <1>8. Follows(x, tx)
    BY <1>5, <1>7, AcceptedFollows
  <1>9. x.tip \in Nat /\ x.value \in Nat /\ state.tip \in Nat
    BY <1>3, <1>7 DEF Describes
  <1>10. Shaped'
    <2>1. CASE StateOutputs(tx) = {}
      <3>1. state = [ledger |-> state.ledger, tip |-> state.tip,
                     value |-> state.value, utxoDaa |-> state.utxoDaa]
        BY DEF NetInv, Shaped
      <3>2. state' = [ledger |-> state.ledger, tip |-> state.tip + 1, value |-> 0, utxoDaa |-> state.utxoDaa]
        BY <1>5, <2>1, <3>1
      <3>. QED
        BY <1>5, <3>2 DEF NetInv, Shaped
    <2>2. CASE StateOutputs(tx) # {}
      BY <1>5, <2>2 DEF NetInv, Shaped
    <2>. QED
      BY <2>1, <2>2
  <1>11. CASE Explained(x, tx).ended
    <2>1. StateOutputs(tx) = {}
      BY <1>8, <1>11 DEF Follows
    <2>2. state' = [ledger |-> state.ledger, tip |-> state.tip + 1, value |-> 0, utxoDaa |-> state.utxoDaa]
      <3>1. state = [ledger |-> state.ledger, tip |-> state.tip,
                     value |-> state.value, utxoDaa |-> state.utxoDaa]
        BY DEF NetInv, Shaped
      <3>. QED
        BY <1>5, <2>1, <3>1
    <2>3. /\ z.ledger = x.ledger /\ z.tip = x.tip + 1 /\ z.value = 0 /\ z.utxoDaa = x.utxoDaa
          /\ z.currentDaa = x.currentDaa /\ z.opening = x.opening
      BY <1>3, <1>4, <1>5, <2>2
    <2>4. Describes(z)
      BY <1>7, <1>9, <2>3 DEF Describes
    <2>5. LastFits(last', state', prize')
      BY <1>5, <1>6, <1>7, <1>11, <2>2 DEF LastFits
    <2>6. \A c \in Clients : HeldFits(held'[c], z) /\ SentFits(sent'[c], z)
      <3>1. (\A h : HeldFits(h, x) => HeldFits(h, z)) /\ (\A t : SentFits(t, x) => SentFits(t, z))
        BY <1>9, <2>3, FitsSpent
      <3>2. \A c \in Clients : HeldFits(held[c], x) /\ SentFits(sent[c], x) /\ SentFits(NoTx, x)
        BY <1>1 DEF NetInv, SentFits
      <3>3. \A c \in Clients : held'[c] = held[c] /\ (sent'[c] = NoTx \/ sent'[c] = sent[c])
        BY <1>5
      <3>. QED
        BY <3>1, <3>2, <3>3
    <2>. QED
      BY <1>2, <1>10, <2>4, <2>5, <2>6 DEF NetInv
  <1>12. CASE ~Explained(x, tx).ended
    <2>1. PICK n : n = Explained(x, tx).next
      OBVIOUS
    <2>2. n \in Ledgers /\ ValidLedger(n) /\ StateOutputs(tx) = {1} /\ tx.outputs[1] = StateOutput(n)
      BY <1>8, <1>12, <2>1 DEF Follows
    <2>3. ValueOf(n) \in Nat /\ ValueOf(n) # 0
      BY <2>2, ValueFacts, MoneyFacts
    <2>4. state' = [ledger |-> n, tip |-> state.tip + 1, value |-> ValueOf(n), utxoDaa |-> daa]
      <3>1. tx.outputs[1].state = n /\ tx.outputs[1].value = ValueOf(n)
        BY <2>2 DEF StateOutput
      <3>2. StateOutputs(tx) # {}
        BY <2>2
      <3>3. state' = [ledger |-> tx.outputs[1].state, tip |-> state.tip + 1,
                      value |-> tx.outputs[1].value, utxoDaa |-> daa]
        BY <1>5, <3>2
      <3>. QED
        BY <3>1, <3>3
    <2>5. /\ state'.ledger = n /\ state'.tip = state.tip + 1 /\ state'.value = ValueOf(n)
          /\ state'.utxoDaa = daa
      BY <2>4
    <2>6. /\ z.ledger = n /\ z.tip = x.tip + 1 /\ z.value = ValueOf(n) /\ z.utxoDaa = x.currentDaa
          /\ z.currentDaa = x.currentDaa /\ z.opening = x.opening
      BY <1>3, <1>4, <1>5, <2>5
    <2>7. Describes(z)
      <3>1. z.utxoDaa \in 1..z.currentDaa
        BY <1>7, <2>6, BoundFacts DEF Describes
      <3>. QED
        BY <1>7, <1>9, <2>2, <2>3, <2>6, <3>1 DEF Describes
    <2>8. LastFits(last', state', prize')
      <3>1. last'.before = x /\ last'.tx = tx
        BY <1>5
      <3>2. state'.value # 0 /\ state'.ledger = Explained(x, tx).next
        BY <2>1, <2>3, <2>5
      <3>. QED
        BY <1>5, <1>6, <1>7, <1>12, <3>1, <3>2 DEF LastFits
    <2>9. \A c \in Clients : HeldFits(held'[c], z) /\ SentFits(sent'[c], z)
      <3>1. (\A h : HeldFits(h, x) => HeldFits(h, z)) /\ (\A t : SentFits(t, x) => SentFits(t, z))
        BY <1>9, <2>6, FitsSpent
      <3>2. \A c \in Clients : HeldFits(held[c], x) /\ SentFits(sent[c], x) /\ SentFits(NoTx, x)
        BY <1>1 DEF NetInv, SentFits
      <3>3. \A c \in Clients : held'[c] = held[c] /\ (sent'[c] = NoTx \/ sent'[c] = sent[c])
        BY <1>5
      <3>. QED
        BY <3>1, <3>2, <3>3
    <2>. QED
      BY <1>2, <1>10, <2>7, <2>8, <2>9 DEF NetInv
  <1>13. Explained(x, tx).ended \in BOOLEAN
    BY <1>8 DEF Follows
  <1>. QED
    BY <1>11, <1>12, <1>13

(* Other software's layouts.                                               *)
TxShape(t) ==
    t = [spends |-> t.spends, action |-> t.action, actor |-> t.actor, quantity |-> t.quantity,
         opening |-> t.opening, hint |-> t.hint, external |-> t.external, fee |-> t.fee,
         lockTime |-> t.lockTime, sequence |-> t.sequence, outputs |-> t.outputs]

(* u differs from t in its clocks, hint, fee and outputs.                  *)
Alike(t, u) ==
    /\ u.spends = t.spends /\ u.action = t.action /\ u.actor = t.actor /\ u.quantity = t.quantity
    /\ u.external = t.external /\ u.opening = t.opening
    /\ u.fee \in {t.fee, t.fee + 1}
    /\ u.lockTime \in {t.lockTime, 0, Config.closeEligibleDaa}
    /\ u.sequence \in {t.sequence, 0, TimeoutDelay}
    /\ u.outputs = [i \in DOMAIN u.outputs |-> u.outputs[i]] \/ u.outputs = t.outputs
    /\ DOMAIN u.outputs = DOMAIN t.outputs
    /\ \A i \in DOMAIN t.outputs \ {1} :
          u.outputs[i] = t.outputs[i] \/ \E v : u.outputs[i] = [t.outputs[i] EXCEPT !.value = v]

LEMMA LayoutsAreAlike ==
    ASSUME NEW t, TxShape(t), NEW u \in Layouts(t), 1 \in DOMAIN t.outputs,
           DOMAIN t.outputs = 1..Len(t.outputs), Len(t.outputs) \in Nat
    PROVE  Alike(t, u)
  <1>1. CASE u \in {[t EXCEPT !.lockTime = l] : l \in {0, Config.closeEligibleDaa}}
    <2>1. PICK l \in {0, Config.closeEligibleDaa} : u = [t EXCEPT !.lockTime = l]
      BY <1>1
    <2>. QED
      BY <2>1 DEF TxShape, Alike
  <1>2. CASE u \in {[t EXCEPT !.sequence = q] : q \in {0, TimeoutDelay}}
    <2>1. PICK q \in {0, TimeoutDelay} : u = [t EXCEPT !.sequence = q]
      BY <1>2
    <2>. QED
      BY <2>1 DEF TxShape, Alike
  <1>3. CASE \E h : u = [t EXCEPT !.hint = h]
    <2>1. PICK h : u = [t EXCEPT !.hint = h]
      BY <1>3
    <2>. QED
      BY <2>1 DEF TxShape, Alike
  <1>4. CASE \E h, k : u = [t EXCEPT !.hint = h, !.outputs[1].pays = k]
    <2>1. PICK h, k : u = [t EXCEPT !.hint = h, !.outputs[1].pays = k]
      BY <1>4
    <2>. QED
      BY <2>1 DEF TxShape, Alike
  <1>5. CASE u = [t EXCEPT !.fee = @ + 1]
    BY <1>5 DEF TxShape, Alike
  <1>6. CASE u = [t EXCEPT !.fee = @ + 1, !.outputs[1].value = @ - 1]
    BY <1>6 DEF TxShape, Alike
  <1>7. CASE u = [t EXCEPT !.outputs[1].value = @ + 1, !.outputs[2].value = @ - 1]
    BY <1>7 DEF TxShape, Alike
  <1>. QED
    BY <1>1, <1>2, <1>3, <1>4, <1>5, <1>6, <1>7 DEF Layouts

LEMMA FunctionLen ==
    ASSUME NEW k \in Nat, NEW f, f = [i \in 1..k |-> f[i]]
    PROVE  Len(f) = k
  <1>. DEFINE S == {f[i] : i \in 1..k}
  <1>1. \A i \in 1..k : f[i] \in S
    OBVIOUS
  <1>2. f \in [1..k -> S]
    <2>. HIDE DEF S
    <2>. QED
      BY <1>1
  <1>. HIDE DEF S
  <1>. QED
    BY <1>2, FunctionIsSeq

LEMMA AlikeFits ==
    ASSUME NEW t, TxType(t), ChangeReturns(t), NEW u, Alike(t, u)
    PROVE  TxType(u) /\ ChangeReturns(u)
  <1>1. TxType(u)
    <2>1. u.fee \in Nat
      BY DEF TxType, Alike
    <2>2. u.lockTime \in Nat
      BY ConfigFacts DEF TxType, Alike
    <2>3. u.sequence \in Nat
      BY BoundFacts DEF TxType, Alike
    <2>. QED
      BY <2>1, <2>2, <2>3 DEF TxType, Alike
  <1>2. PICK k \in Nat : k = Len(t.outputs) /\ DOMAIN t.outputs = 1..k
    BY DEF ChangeReturns
  <1>3. DOMAIN u.outputs = 1..k /\ Len(u.outputs) = k
    <2>1. DOMAIN u.outputs = 1..k
      BY <1>2 DEF Alike
    <2>2. CASE u.outputs = t.outputs
      BY <1>2, <2>2
    <2>3. CASE u.outputs = [i \in DOMAIN u.outputs |-> u.outputs[i]]
      <3>1. PICK f : f = u.outputs
        OBVIOUS
      <3>2. f = [i \in 1..k |-> f[i]]
        BY <2>1, <2>3, <3>1
      <3>. QED
        BY <2>1, <3>1, <3>2, FunctionLen
    <2>. QED
      BY <2>2, <2>3 DEF Alike
  <1>4. ASSUME u.action \in {"BUY", "CLOSE", "TIMEOUT_REFUND"}, NEW i \in DOMAIN u.outputs \ {1}
        PROVE  u.outputs[i] = KeyOutput(u.outputs[i].value, u.actor)
    <2>1. t.outputs[i] = KeyOutput(t.outputs[i].value, t.actor) /\ u.actor = t.actor
          /\ (u.outputs[i] = t.outputs[i] \/ \E v : u.outputs[i] = [t.outputs[i] EXCEPT !.value = v])
      BY <1>4 DEF ChangeReturns, Alike
    <2>2. CASE u.outputs[i] = t.outputs[i]
      BY <2>1, <2>2
    <2>3. CASE \E v : u.outputs[i] = [t.outputs[i] EXCEPT !.value = v]
      <3>1. PICK v : u.outputs[i] = [t.outputs[i] EXCEPT !.value = v]
        BY <2>3
      <3>2. PICK w : t.outputs[i] = [value |-> w, pays |-> u.actor]
        BY <2>1 DEF KeyOutput
      <3>3. u.outputs[i] = [value |-> v, pays |-> u.actor]
        BY <3>1, <3>2
      <3>. QED
        BY <3>3 DEF KeyOutput
    <2>. QED
      BY <2>1, <2>2, <2>3
  <1>. QED
    BY <1>1, <1>3, <1>4 DEF ChangeReturns

(* A transaction with a fee and a surplus somebody tries.                  *)
Offered(tx) ==
    /\ tx.fee \in Fees \/ tx.fee - 1 \in Fees
    /\ tx.action = "REFUND" => tx.external \in Surplus

LEMMA DraftOffered ==
    ASSUME NEW x, NEW op, NEW fee \in Fees, NEW surplus \in Surplus
    PROVE  Offered(BuildAction(x, op, fee, Funding(x, op, fee, surplus)))
  BY DEF Offered, BuildAction, Funding

(* What other software sends was composed on the current state.            *)
LEMMA ForeignFits ==
    ASSUME NetInv, NEW k \in Others, NEW op \in Operations(k),
           NEW fee \in Fees, NEW surplus \in Surplus, AcceptForeign(op, fee, surplus)
    PROVE  \E tx : TxType(tx) /\ ChangeReturns(tx) /\ Offered(tx) /\ Accept(tx)
  <1>1. PICK x : x = Snapshot
    OBVIOUS
  <1>2. PICK external : external = Funding(x, op, fee, surplus)
    OBVIOUS
  <1>3. PICK t : t = BuildAction(x, op, fee, external)
    OBVIOUS
  <1>4. state.value # 0 /\ CanBuild(x, op, fee, external) /\ \E tx \in Layouts(t) : Accept(tx)
    BY <1>1, <1>2, <1>3 DEF AcceptForeign, Ended
  <1>5. PICK tx \in Layouts(t) : Accept(tx)
    BY <1>4
  <1>6. op \in Ops
    BY OperationsAreOps DEF Keys
  <1>7. Builds(x, x, op, fee, external, t)
    <2>1. Describes(x) /\ x.value # 0
          /\ x = [ledger |-> x.ledger, tip |-> x.tip, value |-> x.value,
                  utxoDaa |-> x.utxoDaa, currentDaa |-> x.currentDaa, opening |-> x.opening]
      BY <1>1, <1>4 DEF NetInv, Snapshot
    <2>. QED
      BY <1>3, <1>4, <1>6, <2>1, LiveIsSound, ReadsItself DEF Builds
  <1>8. CovenantAccepts(x, t) /\ ChangeReturns(t)
    BY <1>7, DraftStands
  <1>9. TxType(t)
    BY <1>3, <1>4, <1>6, <1>7, DraftTyped DEF Builds
  <1>10. 1 \in DOMAIN t.outputs
    <2>1. \E m : CheckFee(x, t, m)
      BY <1>8 DEF CovenantAccepts, OpenAccepts, SealedAccepts, RefundingAccepts
    <2>2. PICK m : Len(t.outputs) \in 1..m
      BY <2>1 DEF CheckFee
    <2>3. Len(t.outputs) \in Nat /\ DOMAIN t.outputs = 1..Len(t.outputs)
      BY <1>8 DEF ChangeReturns
    <2>4. Len(t.outputs) >= 1
      BY <2>2, <2>3
    <2>. QED
      BY <2>3, <2>4
  <1>11. TxShape(t)
    BY <1>3 DEF BuildAction, TxShape
  <1>12. Alike(t, tx)
    BY <1>8, <1>10, <1>11, LayoutsAreAlike DEF ChangeReturns
  <1>13. Offered(tx)
    <2>1. t.fee = fee
      BY <1>3 DEF BuildAction
    <2>2. t.action = "REFUND" => t.external \in Surplus
      BY <1>2, <1>3, DraftOffered DEF Offered
    <2>3. fee \in Nat
      BY NetworkAssumption
    <2>. QED
      BY <1>12, <2>1, <2>2, <2>3 DEF Alike, Offered
  <1>. QED
    BY <1>5, <1>8, <1>9, <1>12, <1>13, AlikeFits

LEMMA StepsHold == NetInv /\ [Next]_vars => NetInv'
  <1>. SUFFICES ASSUME NetInv, [Next]_vars PROVE NetInv'
    OBVIOUS
  <1>1. ASSUME NEW c \in Clients, Observe(c) PROVE NetInv'
    BY <1>1, ObserveKeeps
  <1>2. ASSUME NEW c \in Clients, Drop(c) PROVE NetInv'
    BY <1>2, DropKeeps
  <1>3. ASSUME NEW c \in Clients, sent[c] # NoTx, Accept(sent[c]) PROVE NetInv'
    <2>1. PICK t : t = sent[c]
      OBVIOUS
    <2>2. TxType(t) /\ ChangeReturns(t)
      BY <1>3, <2>1 DEF NetInv, SentFits
    <2>. QED
      BY <1>3, <2>1, <2>2, AcceptKeeps
  <1>4. ASSUME NEW c \in Clients, NEW op \in Operations(c), NEW fee \in Fees, NEW surplus \in Surplus,
               Compose(c, op, fee, surplus)
        PROVE  NetInv'
    BY <1>4, ComposeKeeps
  <1>5. ASSUME NEW k \in Others, NEW op \in Operations(k), NEW fee \in Fees, NEW surplus \in Surplus,
               AcceptForeign(op, fee, surplus)
        PROVE  NetInv'
    BY <1>5, ForeignFits, AcceptKeeps
  <1>6. CASE Tick
    BY <1>6, TickKeeps
  <1>7. CASE UNCHANGED vars
    <2>1. /\ state' = state /\ daa' = daa /\ opening' = opening /\ held' = held /\ sent' = sent
          /\ last' = last /\ prize' = prize
      BY <1>7 DEF vars
    <2>2. PICK x : x = Snapshot
      OBVIOUS
    <2>3. Snapshot' = x
      BY <2>1, <2>2 DEF Snapshot
    <2>4. LastFits(last', state', prize')
      BY <2>1 DEF NetInv
    <2>5. Shaped'
      BY <2>1 DEF NetInv, Shaped
    <2>. QED
      BY <2>1, <2>2, <2>3, <2>4, <2>5 DEF NetInv
  <1>. QED
    BY <1>1, <1>2, <1>3, <1>4, <1>5, <1>6, <1>7 DEF Next

(* What every state of the network satisfies: the state UTXO is a valid    *)
(* ledger worth exactly what it must be, a held snapshot is a reading of   *)
(* it or of one already spent, and a transaction on its way that still     *)
(* spends the tip was composed on a reading of that very state.            *)
THEOREM NetworkInvariant == Spec => []NetInv
  BY InitHolds, StepsHold, PTL DEF Spec

(* The types.                                                              *)
THEOREM NetworkTypes == Spec => []TypeOK
  <1>1. NetInv => TypeOK
    <2>. SUFFICES ASSUME NetInv PROVE TypeOK
      OBVIOUS
    <2>1. PICK x : x = Snapshot
      OBVIOUS
    <2>2. /\ x.ledger = state.ledger /\ x.tip = state.tip /\ x.value = state.value
          /\ x.utxoDaa = state.utxoDaa /\ x.currentDaa = daa /\ x.opening = opening
          /\ Describes(x)
      BY <2>1 DEF NetInv, Snapshot
    <2>3. state.tip \in Nat /\ state.value \in Nat /\ state.utxoDaa \in Nat /\ daa \in 1..MaxDaa
      BY <2>2, BoundFacts DEF Describes
    <2>4. state.ledger.phase \in {"OPEN", "SEALED", "REFUNDING"}
      BY <2>2, LedgerFacts DEF Describes
    <2>5. opening \in {NoOpening} \cup 0..(SampleSpace - 1)
      BY <2>2 DEF Describes, Openings, Samples
    <2>6. \A c \in Clients : held[c] # Idle => Verified(held[c])
      BY LiveIsSound, SoundIsVerified DEF NetInv, HeldFits
    <2>7. \A c \in Clients : sent[c] # NoTx => sent[c].action \in Actions
      BY DEF NetInv, SentFits, TxType
    <2>. QED
      BY <2>3, <2>4, <2>5, <2>6, <2>7 DEF TypeOK
  <1>. QED
    BY <1>1, NetworkInvariant, PTL

(* No accepted layout, of any software, leaves a live state UTXO that a    *)
(* client would refuse to verify, and so to settle.                        *)
THEOREM LiveStaysVerifiable == Spec => []LiveIsVerifiable
  <1>1. NetInv => LiveIsVerifiable
    <2>. SUFFICES ASSUME NetInv, ~Ended PROVE Verified(Snapshot)
      BY DEF LiveIsVerifiable
    <2>1. PICK x : x = Snapshot
      OBVIOUS
    <2>2. Describes(x) /\ x.value # 0
      BY <2>1 DEF NetInv, Snapshot, Ended
    <2>. QED
      BY <2>1, <2>2, LiveIsSound, SoundIsVerified
  <1>. QED
    BY <1>1, NetworkInvariant, PTL

(* A draft that spends the current state UTXO is refused by nobody,        *)
(* however much time passed since its snapshot was taken: what the client  *)
(* composes is what the templates accept, for every configuration, fee and *)
(* funding.                                                                *)
THEOREM DraftsStayAccepted == Spec => []DraftsAreAccepted
  <1>1. NetInv => DraftsAreAccepted
    <2>. SUFFICES ASSUME NetInv, NEW c \in Clients, sent[c] # NoTx, ~Ended, sent[c].spends = state.tip
                  PROVE  AcceptsNow(sent[c])
      BY DEF DraftsAreAccepted
    <2>1. PICK x : x = Snapshot
      OBVIOUS
    <2>2. PICK t : t = sent[c]
      OBVIOUS
    <2>3. x.value # 0 /\ x.tip = state.tip
      BY <2>1 DEF Snapshot, Ended
    <2>4. SentFits(t, x)
      BY <2>1, <2>2 DEF NetInv
    <2>5. PICK y, op, fee, external : Builds(x, y, op, fee, external, t)
      BY <2>2, <2>3, <2>4 DEF SentFits, Drafted
    <2>6. ConsensusAccepts(x, t) /\ CovenantAccepts(x, t)
      BY <2>5, DraftStands
    <2>. QED
      BY <2>1, <2>2, <2>6 DEF AcceptsNow
  <1>. QED
    BY <1>1, NetworkInvariant, PTL

(* Whatever the templates accepted, a client explains from the transaction *)
(* and its inputs alone, and explains rightly: the state it names is the   *)
(* one on chain.                                                           *)
THEOREM AcceptedStaysExplained == Spec => []AcceptedIsExplained
  <1>1. NetInv => AcceptedIsExplained
    <2>. SUFFICES ASSUME NetInv, last # NoTx
                  PROVE  /\ Explainable(last.before, last.tx)
                         /\ LET e == Explained(last.before, last.tx)
                            IN IF Ended THEN e.ended ELSE ~e.ended /\ e.next = state.ledger
      BY DEF AcceptedIsExplained
    <2>1. LastFits(last, state, prize)
      BY DEF NetInv
    <2>2. Follows(last.before, last.tx)
      BY <2>1, AcceptedFollows DEF LastFits
    <2>3. Explained(last.before, last.tx).ended \in BOOLEAN /\ Explainable(last.before, last.tx)
      BY <2>2 DEF Follows
    <2>4. IF Explained(last.before, last.tx).ended
          THEN state.value = 0
          ELSE state.value # 0 /\ state.ledger = Explained(last.before, last.tx).next
      BY <2>1 DEF LastFits
    <2>. QED
      BY <2>3, <2>4 DEF Ended
  <1>. QED
    BY <1>1, NetworkInvariant, PTL

---------------------------------------------------------------------------
(* Who is paid.                                                            *)

(* The places of tx's outputs to a key.                                    *)
PaysAt(tx, key) == {i \in DOMAIN tx.outputs : ~IsState(tx.outputs[i]) /\ tx.outputs[i].pays = key}

(* What a key is paid is the sum of its outputs.                           *)
LEMMA PaidToAdds ==
    ASSUME NEW tx, NEW key, DOMAIN tx.outputs = 1..Len(tx.outputs), Len(tx.outputs) \in Nat
    PROVE  /\ IsFiniteSet(PaysAt(tx, key))
           /\ \E g : Adds([i \in PaysAt(tx, key) |-> tx.outputs[i].value], PaysAt(tx, key), g)
                     /\ PaidTo(tx, key) = g[PaysAt(tx, key)]
  <1>1. PICK T : T = PaysAt(tx, key)
    OBVIOUS
  <1>2. IsFiniteSet(T)
    <2>1. IsFiniteSet(1..Len(tx.outputs))
      BY FS_Interval
    <2>2. T \subseteq 1..Len(tx.outputs)
      BY <1>1 DEF PaysAt
    <2>. QED
      BY <2>1, <2>2, FS_Subset
  <1>. DEFINE F == [i \in T |-> tx.outputs[i].value]
              With(g) == g = [s \in SUBSET T |->
                                IF s = {} THEN 0
                                ELSE LET i == CHOOSE i \in s : TRUE IN tx.outputs[i].value + g[s \ {i}]]
  <1>4. ASSUME NEW g PROVE With(g) <=> Adds(F, T, g)
    <2>1. \A s \in SUBSET T : s # {} => Pick(s) \in T /\ F[Pick(s)] = tx.outputs[Pick(s)].value
      BY DEF Pick
    <2>. DEFINE L == [s \in SUBSET T |->
                        IF s = {} THEN 0
                        ELSE LET i == CHOOSE i \in s : TRUE IN tx.outputs[i].value + g[s \ {i}]]
                R == [s \in SUBSET T |-> IF s = {} THEN 0 ELSE LET x == Pick(s) IN F[x] + g[s \ {x}]]
    <2>2. ASSUME NEW s \in SUBSET T PROVE L[s] = R[s]
      <3>1. L[s] = IF s = {} THEN 0 ELSE tx.outputs[Pick(s)].value + g[s \ {Pick(s)}]
        BY DEF Pick
      <3>2. R[s] = IF s = {} THEN 0 ELSE F[Pick(s)] + g[s \ {Pick(s)}]
        OBVIOUS
      <3>. HIDE DEF L, R, F
      <3>. QED
        BY <2>1, <3>1, <3>2
    <2>3. L = R
      <3>1. L = [s \in SUBSET T |-> L[s]] /\ R = [s \in SUBSET T |-> R[s]]
        OBVIOUS
      <3>. HIDE DEF L, R
      <3>. QED
        BY <2>2, <3>1
    <2>4. (With(g) <=> g = L) /\ (Adds(F, T, g) <=> g = R)
      BY DEF Adds
    <2>. HIDE DEF L, R, With
    <2>. QED
      BY <2>3, <2>4
  <1>5. PICK g0 : Adds(F, T, g0)
    <2>. HIDE DEF F
    <2>. QED
      BY <1>2, SumsExist
  <1>6. With(CHOOSE g : With(g))
    <2>1. With(g0)
      BY <1>4, <1>5
    <2>. HIDE DEF With
    <2>. QED
      BY <2>1
  <1>7. Adds(F, T, CHOOSE g : With(g))
    BY <1>4, <1>6
  <1>8. PaidTo(tx, key) = (CHOOSE g : With(g))[T]
    BY <1>1 DEF PaidTo, PaysAt, MapThenSumSet, MapThenFoldSet
  <1>. QED
    BY <1>1, <1>2, <1>7, <1>8

LEMMA PaidToSums ==
    ASSUME NEW tx, NEW key, DOMAIN tx.outputs = 1..Len(tx.outputs), Len(tx.outputs) \in Nat,
           \A i \in DOMAIN tx.outputs : tx.outputs[i].value \in Int
    PROVE  /\ IsFiniteSet(PaysAt(tx, key))
           /\ \E g : IsSums([i \in PaysAt(tx, key) |-> tx.outputs[i].value], PaysAt(tx, key), g)
                     /\ PaidTo(tx, key) = g[PaysAt(tx, key)]
  <1>1. PICK T : T = PaysAt(tx, key) /\ IsFiniteSet(T)
    BY PaidToAdds
  <1>. DEFINE F == [i \in T |-> tx.outputs[i].value]
  <1>2. \A i \in T : F[i] \in Int
    BY <1>1 DEF PaysAt
  <1>3. PICK g : Adds(F, T, g) /\ PaidTo(tx, key) = g[T]
    BY <1>1, PaidToAdds
  <1>4. IsSums(F, T, g)
    <2>. HIDE DEF F
    <2>. QED
      BY <1>1, <1>2, <1>3, AddsSum
  <1>. QED
    BY <1>1, <1>3, <1>4

LEMMA RefundsSum ==
    ASSUME NEW s \in Ledgers, NEW T \in SUBSET (1..PurchaseCount(s))
    PROVE  /\ IsFiniteSet(T)
           /\ \E g : IsSums([i \in T |-> RefundAmount(s, i)], T, g)
                     /\ MapThenSumSet(LAMBDA i : RefundAmount(s, i), T) = g[T]
  <1>1. IsFiniteSet(T)
    <2>1. IsFiniteSet(1..PurchaseCount(s))
      BY LedgerFacts, FS_Interval
    <2>. QED
      BY <2>1, FS_Subset
  <1>. DEFINE F == [i \in T |-> RefundAmount(s, i)]
              With(g) == g = [p \in SUBSET T |->
                                IF p = {} THEN 0
                                ELSE LET i == CHOOSE i \in p : TRUE IN RefundAmount(s, i) + g[p \ {i}]]
  <1>2. \A i \in T : F[i] \in Int
    <2>. SUFFICES ASSUME NEW i \in T PROVE RefundAmount(s, i) \in Int
      OBVIOUS
    <2>1. i \in 0..PurchaseCount(s) /\ i - 1 \in 0..PurchaseCount(s)
      BY LedgerFacts
    <2>2. EndAt(s, i) \in Nat /\ EndAt(s, i - 1) \in Nat /\ s.config = Config
      BY <2>1, LedgerFacts
    <2>3. CountAt(s, i) \in Int
      BY <2>2 DEF CountAt
    <2>4. CountAt(s, i) * Config.ticketPrice \in Int
      BY <2>3, ConfigFacts
    <2>. QED
      BY <2>2, <2>4, MoneyFacts DEF RefundAmount
  <1>3. ASSUME NEW g PROVE With(g) <=> Adds(F, T, g)
    <2>1. \A p \in SUBSET T : p # {} => Pick(p) \in T /\ F[Pick(p)] = RefundAmount(s, Pick(p))
      BY DEF Pick
    <2>. DEFINE L == [p \in SUBSET T |->
                        IF p = {} THEN 0
                        ELSE LET i == CHOOSE i \in p : TRUE IN RefundAmount(s, i) + g[p \ {i}]]
                R == [p \in SUBSET T |-> IF p = {} THEN 0 ELSE LET x == Pick(p) IN F[x] + g[p \ {x}]]
    <2>2. ASSUME NEW p \in SUBSET T PROVE L[p] = R[p]
      <3>1. L[p] = IF p = {} THEN 0 ELSE RefundAmount(s, Pick(p)) + g[p \ {Pick(p)}]
        BY DEF Pick
      <3>2. R[p] = IF p = {} THEN 0 ELSE F[Pick(p)] + g[p \ {Pick(p)}]
        <4>. HIDE DEF F
        <4>. QED
          OBVIOUS
      <3>. HIDE DEF L, R, F
      <3>. QED
        BY <2>1, <3>1, <3>2
    <2>3. L = R
      <3>1. L = [p \in SUBSET T |-> L[p]]
        OBVIOUS
      <3>2. R = [p \in SUBSET T |-> R[p]]
        <4>. HIDE DEF F
        <4>. QED
          OBVIOUS
      <3>. HIDE DEF L, R
      <3>. QED
        BY <2>2, <3>1, <3>2
    <2>4. (With(g) <=> g = L) /\ (Adds(F, T, g) <=> g = R)
      BY DEF Adds
    <2>. HIDE DEF L, R, With
    <2>. QED
      BY <2>3, <2>4
  <1>4. PICK g0 : Adds(F, T, g0)
    <2>. HIDE DEF F
    <2>. QED
      BY <1>1, SumsExist
  <1>5. With(CHOOSE g : With(g))
    <2>1. With(g0)
      BY <1>3, <1>4
    <2>. HIDE DEF With
    <2>. QED
      BY <2>1
  <1>6. IsSums(F, T, CHOOSE g : With(g))
    <2>1. Adds(F, T, CHOOSE g : With(g))
      BY <1>3, <1>5
    <2>. HIDE DEF F, With
    <2>. QED
      BY <1>1, <1>2, <2>1, AddsSum
  <1>7. MapThenSumSet(LAMBDA i : RefundAmount(s, i), T) = (CHOOSE g : With(g))[T]
    BY DEF MapThenSumSet, MapThenFoldSet
  <1>. QED
    BY <1>1, <1>6, <1>7

(* The outputs of a refund the templates accept, place by place.           *)
RefundOutputs(s, tx, k, first) ==
    /\ k = RefundBatch(s).k /\ first = (IF RefundBatch(s).last THEN 0 ELSE 1)
    /\ DOMAIN tx.outputs = 1..(k + 2)
    /\ \A r \in 1..k :
          tx.outputs[first + r] = KeyOutput(RefundAmount(s, s.cursor + r), s.directory[s.cursor + r].key)
    /\ tx.outputs[k + 2] = KeyOutput(tx.external + RefundBatch(s).pool - tx.fee, tx.actor)
    /\ first = 0 => tx.outputs[k + 1] = KeyOutput(Deposit - RefundFee, Owner)
    /\ first = 1 => IsState(tx.outputs[1]) /\ tx.outputs[1].value \in Int
    /\ \A i \in DOMAIN tx.outputs :
          \/ i - first \in 1..k /\ i = first + (i - first)
          \/ i = k + 2
          \/ i = k + 1 /\ first = 0
          \/ i = 1 /\ first = 1
    /\ \A i \in DOMAIN tx.outputs : tx.outputs[i].value \in Int

LEMMA RefundOutputsAre ==
    ASSUME NEW x, Sound(x), NEW tx, TxType(tx), ChangeReturns(tx), ConsensusAccepts(x, tx),
           x.ledger.phase = "REFUNDING", RefundingAccepts(x, tx)
    PROVE  \E k \in Nat, first \in {0, 1} : RefundOutputs(x.ledger, tx, k, first)
  <1>. DEFINE s == x.ledger
  <1>1. s \in Ledgers /\ ValidLedger(s)
    BY DEF Sound
  <1>2. PICK k \in Nat : k = RefundBatch(s).k
    BY <1>1, BatchFacts
  <1>3. PICK l \in BOOLEAN : l = RefundBatch(s).last
    BY <1>1, BatchFacts
  <1>4. PICK first \in {0, 1} : first = IF l THEN 0 ELSE 1
    OBVIOUS
  <1>5. /\ Len(tx.outputs) = k + 2
        /\ \A r \in 1..k :
              Ordinary(tx, first + r, RefundAmount(s, s.cursor + r), s.directory[s.cursor + r].key)
        /\ Ordinary(tx, k + 2, tx.external + RefundBatch(s).pool - tx.fee, tx.actor)
        /\ l => Ordinary(tx, k + 1, Deposit - RefundFee, Owner)
        /\ ~l => \E n, m : Successor(tx, n, m)
    BY <1>2, <1>3, <1>4 DEF RefundingAccepts
  <1>6. DOMAIN tx.outputs = 1..(k + 2)
    BY <1>5 DEF ChangeReturns
  <1>7. \A r \in 1..k :
          tx.outputs[first + r] = KeyOutput(RefundAmount(s, s.cursor + r), s.directory[s.cursor + r].key)
    BY <1>5 DEF Ordinary
  <1>8. tx.outputs[k + 2] = KeyOutput(tx.external + RefundBatch(s).pool - tx.fee, tx.actor)
    BY <1>5 DEF Ordinary
  <1>9. first = 0 => tx.outputs[k + 1] = KeyOutput(Deposit - RefundFee, Owner)
    BY <1>4, <1>5 DEF Ordinary
  <1>10. first = 1 => IsState(tx.outputs[1]) /\ tx.outputs[1].value \in Int
    <2>. SUFFICES ASSUME first = 1 PROVE IsState(tx.outputs[1]) /\ tx.outputs[1].value \in Int
      OBVIOUS
    <2>1. Follows(x, tx)
      BY RefundFollows
    <2>2. StateOutputs(tx) = {1}
      <3>1. ~l
        BY <1>4
      <3>2. PICK n, m : Successor(tx, n, m)
        BY <1>5, <3>1
      <3>. QED
        BY <3>2 DEF Successor
    <2>3. PICK e \in BOOLEAN : e = Explained(x, tx).ended
      BY <2>1 DEF Follows
    <2>4. ~e
      BY <2>1, <2>2, <2>3 DEF Follows
    <2>5. PICK n \in Ledgers : ValidLedger(n) /\ tx.outputs[1] = StateOutput(n)
      BY <2>1, <2>3, <2>4 DEF Follows
    <2>6. ValueOf(n) \in Nat
      BY <2>5, ValueFacts
    <2>. QED
      BY <2>5, <2>6, StateOutputIsState DEF StateOutput
  <1>11. \A i \in DOMAIN tx.outputs :
          \/ i - first \in 1..k /\ i = first + (i - first)
          \/ i = k + 2
          \/ i = k + 1 /\ first = 0
          \/ i = 1 /\ first = 1
    BY <1>6
  <1>12. ASSUME NEW r \in 1..k PROVE RefundAmount(s, s.cursor + r) \in Int
    <2>1. s.cursor + r \in 0..PurchaseCount(s) /\ (s.cursor + r) - 1 \in 0..PurchaseCount(s)
      <3>1. PICK c \in Nat : c = s.cursor
        BY <1>1, BatchFacts
      <3>2. PICK n \in Nat : n = PurchaseCount(s)
        BY <1>1, LedgerFacts
      <3>3. c + k <= n
        BY <1>1, <1>2, <3>1, <3>2, BatchFacts
      <3>4. c + r \in 0..n /\ (c + r) - 1 \in 0..n
        BY <3>3
      <3>. QED
        BY <3>1, <3>2, <3>4
    <2>2. EndAt(s, s.cursor + r) \in Nat /\ EndAt(s, (s.cursor + r) - 1) \in Nat /\ s.config = Config
      BY <1>1, <2>1, LedgerFacts
    <2>3. CountAt(s, s.cursor + r) \in Int
      BY <2>2 DEF CountAt
    <2>4. CountAt(s, s.cursor + r) * Config.ticketPrice \in Int
      BY <2>3, ConfigFacts
    <2>. QED
      BY <2>2, <2>4, MoneyFacts DEF RefundAmount
  <1>13. tx.external + RefundBatch(s).pool - tx.fee \in Int /\ Deposit - RefundFee \in Int
    BY <1>1, BatchFacts, MoneyFacts DEF TxType
  <1>14. ASSUME NEW i \in DOMAIN tx.outputs PROVE tx.outputs[i].value \in Int
    <2>1. CASE i - first \in 1..k /\ i = first + (i - first)
      <3>1. PICK r \in 1..k : i = first + r
        BY <2>1
      <3>2. tx.outputs[i] = KeyOutput(RefundAmount(s, s.cursor + r), s.directory[s.cursor + r].key)
        BY <1>7, <3>1
      <3>3. RefundAmount(s, s.cursor + r) \in Int
        BY <1>12
      <3>. QED
        BY <3>2, <3>3 DEF KeyOutput
    <2>2. CASE i = k + 2
      BY <1>8, <1>13, <2>2 DEF KeyOutput
    <2>3. CASE i = k + 1 /\ first = 0
      BY <1>9, <1>13, <2>3 DEF KeyOutput
    <2>4. CASE i = 1 /\ first = 1
      BY <1>10, <2>4
    <2>. QED
      BY <1>11, <2>1, <2>2, <2>3, <2>4
  <1>15. first = IF RefundBatch(s).last THEN 0 ELSE 1
    BY <1>3, <1>4
  <1>16. RefundOutputs(s, tx, k, first)
    BY <1>2, <1>15, <1>6, <1>7, <1>8, <1>9, <1>10, <1>11, <1>14 DEF RefundOutputs
  <1>. QED
    BY <1>16

(* A key's outputs of a refund are its purchases of the batch: those of    *)
(* key c among the k after the first d, and what they are due.             *)
Bought(s, d, k, c) == {i \in (d + 1)..(d + k) : s.directory[i].key = c}

Due(s, d, k, c) == MapThenSumSet(LAMBDA i : RefundAmount(s, i), Bought(s, d, k, c))

Reaches(s, tx, first, d, A, B) ==
    /\ \A i \in A : /\ i \in Int /\ (i - first) + d \in B
                    /\ tx.outputs[i].value = RefundAmount(s, (i - first) + d)
    /\ \A y \in B : y \in Int /\ first + (y - d) \in A

(* Its outputs but the executor's and, in the last batch, the owner's.     *)
ToBuyers(tx, c, k, first) == (PaysAt(tx, c) \ {k + 2}) \ (IF first = 0 THEN {k + 1} ELSE {})

LEMMA RefundReaches ==
    ASSUME NEW s \in Ledgers, NEW tx, NEW k \in Nat, NEW first \in {0, 1}, RefundOutputs(s, tx, k, first),
           NEW c, NEW d \in Nat, d = s.cursor,
           NEW A, A = ToBuyers(tx, c, k, first), NEW B, B = Bought(s, d, k, c)
    PROVE  Reaches(s, tx, first, d, A, B)
  <1>1. ASSUME NEW r \in 1..k
        PROVE  /\ first + r \in DOMAIN tx.outputs
               /\ tx.outputs[first + r] = KeyOutput(RefundAmount(s, d + r), s.directory[d + r].key)
    <2>1. first + r \in 1..(k + 2)
      OBVIOUS
    <2>. QED
      BY <2>1 DEF RefundOutputs
  <1>2. ASSUME NEW i \in A
        PROVE  /\ i \in Int /\ (i - first) + d \in B
               /\ tx.outputs[i].value = RefundAmount(s, (i - first) + d)
    <2>1. i \in DOMAIN tx.outputs /\ ~IsState(tx.outputs[i]) /\ tx.outputs[i].pays = c
      BY DEF ToBuyers, PaysAt
    <2>2. i \in 1..(k + 2)
      BY <2>1 DEF RefundOutputs
    <2>3. i # k + 2
      BY DEF ToBuyers
    <2>4. ~(i = k + 1 /\ first = 0)
      BY DEF ToBuyers
    <2>5. ~(i = 1 /\ first = 1)
      BY <2>1 DEF RefundOutputs
    <2>6. PICK r \in 1..k : r = i - first /\ i = first + r
      BY <2>2, <2>3, <2>4, <2>5
    <2>7. tx.outputs[i] = KeyOutput(RefundAmount(s, d + r), s.directory[d + r].key)
      BY <1>1, <2>6
    <2>8. tx.outputs[i].value = RefundAmount(s, d + r) /\ s.directory[d + r].key = c
      BY <2>1, <2>7 DEF KeyOutput
    <2>9. d + r \in B
      BY <2>8 DEF Bought
    <2>10. d + r = (i - first) + d /\ i \in Int
      BY <2>2, <2>6
    <2>. QED
      BY <2>8, <2>9, <2>10
  <1>3. ASSUME NEW y \in B PROVE y \in Int /\ first + (y - d) \in A
    <2>1. PICK r \in 1..k : r = y - d /\ y = d + r /\ s.directory[y].key = c
      BY DEF Bought
    <2>2. tx.outputs[first + r] = KeyOutput(RefundAmount(s, y), c) /\ first + r \in DOMAIN tx.outputs
      BY <1>1, <2>1
    <2>3. ~IsState(tx.outputs[first + r]) /\ tx.outputs[first + r].pays = c
      BY <2>2 DEF KeyOutput, IsState
    <2>4. first + r # k + 2 /\ (first = 0 => first + r # k + 1)
      OBVIOUS
    <2>. QED
      BY <2>1, <2>2, <2>3, <2>4 DEF ToBuyers, PaysAt
  <1>. QED
    BY <1>2, <1>3 DEF Reaches

(* A sum, with and without the place j, which holds v.                     *)
Without(f, T, j, v) == f[T] = f[T \ {j}] + Part(j \in T, v) /\ f[T \ {j}] \in Int

LEMMA SumWithout ==
    ASSUME NEW S, NEW F, NEW f, IsSums(F, S, f), NEW T \in SUBSET S,
           NEW j, NEW v \in Int, j \in T => F[j] = v
    PROVE  Without(f, T, j, v)
  <1>. SUFFICES f[T] = f[T \ {j}] + Part(j \in T, v) /\ f[T \ {j}] \in Int
    BY DEF Without
  <1>1. f[T] \in Int /\ f[T \ {j}] \in Int
    BY DEF IsSums
  <1>2. CASE j \in T
    <2>1. f[T] = F[j] + f[T \ {j}] /\ F[j] = v
      BY <1>2 DEF IsSums
    <2>2. Part(j \in T, v) = v
      BY <1>2 DEF Part
    <2>3. PICK a \in Int, b \in Int : a = f[T] /\ b = f[T \ {j}]
      BY <1>1
    <2>4. a = v + b
      BY <2>1, <2>3
    <2>5. a = b + v
      BY <2>3, <2>4
    <2>. QED
      BY <2>2, <2>3, <2>5
  <1>3. CASE j \notin T
    <2>1. T \ {j} = T
      BY <1>3
    <2>2. Part(j \in T, v) = 0
      BY <1>3 DEF Part
    <2>3. PICK a \in Int : a = f[T] /\ a = f[T \ {j}]
      BY <1>1, <2>1
    <2>4. a = a + 0
      OBVIOUS
    <2>. QED
      BY <2>2, <2>3, <2>4
  <1>. QED
    BY <1>2, <1>3

LEMMA SumsWithin ==
    ASSUME NEW S, NEW F, NEW f, IsSums(F, S, f), NEW T \in SUBSET S
    PROVE  \E h : IsSums(F, T, h) /\ h[T] = f[T]
  <1>. DEFINE h == [t \in SUBSET T |-> f[t]]
  <1>1. h \in [SUBSET T -> Int] /\ h[{}] = 0 /\ h[T] = f[T]
    BY DEF IsSums
  <1>2. ASSUME NEW t \in SUBSET T, NEW x \in t PROVE h[t] = F[x] + h[t \ {x}]
    BY DEF IsSums
  <1>. HIDE DEF h
  <1>3. IsSums(F, T, h)
    BY <1>1, <1>2 DEF IsSums
  <1>. QED
    BY <1>1, <1>3

(* What the outputs to buyers come to.                                     *)
LEMMA RefundPaysBuyers ==
    ASSUME NEW s \in Ledgers, NEW tx, NEW k \in Nat, NEW first \in {0, 1}, RefundOutputs(s, tx, k, first),
           NEW c, NEW d \in Nat, d = s.cursor, d + k <= PurchaseCount(s),
           NEW P, P = PaysAt(tx, c), IsFiniteSet(P),
           NEW e, IsSums([i \in P |-> tx.outputs[i].value], P, e)
    PROVE  e[ToBuyers(tx, c, k, first)] = Due(s, d, k, c)
  <1>1. PICK A : A = ToBuyers(tx, c, k, first)
    OBVIOUS
  <1>2. PICK B : B = Bought(s, d, k, c)
    OBVIOUS
  <1>3. Reaches(s, tx, first, d, A, B)
    BY <1>1, <1>2, RefundReaches
  <1>4. (\A i \in A : i \in Int) /\ (\A y \in B : y \in Int)
    BY <1>3 DEF Reaches
  <1>5. B \in SUBSET (1..PurchaseCount(s))
    BY <1>2, LedgerFacts DEF Bought
  <1>. DEFINE F == [i \in P |-> tx.outputs[i].value]
              G == [i \in B |-> RefundAmount(s, i)]
              h == [i \in A |-> (i - first) + d]
  <1>6. A \in SUBSET P /\ IsFiniteSet(A)
    BY <1>1, FS_Subset DEF ToBuyers
  <1>7. PICK f : IsSums(F, A, f) /\ f[A] = e[A]
    <2>. HIDE DEF F
    <2>1. IsSums(F, P, e)
      BY DEF F
    <2>. QED
      BY <1>6, <2>1, SumsWithin
  <1>8. IsFiniteSet(B) /\ \E g : IsSums(G, B, g) /\ MapThenSumSet(LAMBDA i : RefundAmount(s, i), B) = g[B]
    BY <1>5, RefundsSum
  <1>9. PICK g : IsSums(G, B, g) /\ MapThenSumSet(LAMBDA i : RefundAmount(s, i), B) = g[B]
    BY <1>8
  <1>10. h \in [A -> B]
    BY <1>3 DEF Reaches
  <1>11. \A i, j \in A : h[i] = h[j] => i = j
    <2>. SUFFICES ASSUME NEW i \in A, NEW j \in A, h[i] = h[j] PROVE i = j
      OBVIOUS
    <2>1. i \in Int /\ j \in Int
      BY <1>4
    <2>. QED
      BY <2>1
  <1>12. \A y \in B : \E i \in A : h[i] = y
    <2>. SUFFICES ASSUME NEW y \in B PROVE \E i \in A : h[i] = y
      OBVIOUS
    <2>1. y \in Int /\ first + (y - d) \in A
      BY <1>3 DEF Reaches
    <2>2. h[first + (y - d)] = y
      BY <2>1
    <2>. QED
      BY <2>1, <2>2
  <1>13. \A i \in A : F[i] = G[h[i]]
    <2>. SUFFICES ASSUME NEW i \in A PROVE F[i] = G[h[i]]
      OBVIOUS
    <2>1. (i - first) + d \in B /\ tx.outputs[i].value = RefundAmount(s, (i - first) + d)
      BY <1>3 DEF Reaches
    <2>2. F[i] = tx.outputs[i].value /\ h[i] = (i - first) + d /\ G[(i - first) + d] = RefundAmount(s, (i - first) + d)
      BY <1>6, <2>1
    <2>. HIDE DEF F, G, h
    <2>. QED
      BY <2>1, <2>2
  <1>14. f[A] = g[B]
    <2>. HIDE DEF F, G, h
    <2>. QED
      BY <1>6, <1>7, <1>8, <1>9, <1>10, <1>11, <1>12, <1>13, SumsAgree
  <1>. QED
    BY <1>1, <1>2, <1>7, <1>9, <1>14 DEF Due

(* A key is paid its parts: as a buyer, as the owner, as the executor.     *)
LEMMA RefundPaysParts ==
    ASSUME NEW s \in Ledgers, NEW tx, NEW k \in Nat, NEW first \in {0, 1}, RefundOutputs(s, tx, k, first),
           Len(tx.outputs) \in Nat, DOMAIN tx.outputs = 1..Len(tx.outputs),
           NEW c, NEW d \in Nat, d = s.cursor, d + k <= PurchaseCount(s),
           NEW m \in Int, m = tx.external + RefundBatch(s).pool - tx.fee
    PROVE  PaidTo(tx, c) = Due(s, d, k, c) + Part(first = 0 /\ c = Owner, Deposit - RefundFee)
                             + Part(c = tx.actor, m)
  <1>1. PICK P : P = PaysAt(tx, c)
    OBVIOUS
  <1>. DEFINE F == [i \in P |-> tx.outputs[i].value]
  <1>2. IsFiniteSet(P) /\ \E f : IsSums(F, P, f) /\ PaidTo(tx, c) = f[P]
    <2>1. \A i \in DOMAIN tx.outputs : tx.outputs[i].value \in Int
      BY DEF RefundOutputs
    <2>. QED
      BY <1>1, <2>1, PaidToSums
  <1>3. PICK f : IsSums(F, P, f) /\ PaidTo(tx, c) = f[P]
    BY <1>2
  <1>4. PICK A : A = ToBuyers(tx, c, k, first)
    OBVIOUS
  <1>5. f[A] = Due(s, d, k, c)
    BY <1>1, <1>2, <1>3, <1>4, RefundPaysBuyers
  <1>6. DOMAIN tx.outputs = 1..(k + 2)
    BY DEF RefundOutputs
  <1>7. /\ k + 2 \in P <=> c = tx.actor
        /\ k + 2 \in P => F[k + 2] = m
    <2>1. tx.outputs[k + 2] = KeyOutput(m, tx.actor) /\ k + 2 \in DOMAIN tx.outputs
      BY <1>6 DEF RefundOutputs
    <2>2. ~IsState(tx.outputs[k + 2]) /\ tx.outputs[k + 2].pays = tx.actor /\ tx.outputs[k + 2].value = m
      BY <2>1 DEF KeyOutput, IsState
    <2>. QED
      BY <1>1, <2>1, <2>2 DEF PaysAt
  <1>8. first = 0 => /\ k + 1 \in P <=> c = Owner
                     /\ k + 1 \in P => F[k + 1] = Deposit - RefundFee
    <2>. SUFFICES ASSUME first = 0
                  PROVE  /\ k + 1 \in P <=> c = Owner
                         /\ k + 1 \in P => F[k + 1] = Deposit - RefundFee
      OBVIOUS
    <2>1. tx.outputs[k + 1] = KeyOutput(Deposit - RefundFee, Owner) /\ k + 1 \in DOMAIN tx.outputs
      BY <1>6 DEF RefundOutputs
    <2>2. /\ ~IsState(tx.outputs[k + 1]) /\ tx.outputs[k + 1].pays = Owner
          /\ tx.outputs[k + 1].value = Deposit - RefundFee
      BY <2>1 DEF KeyOutput, IsState
    <2>. QED
      BY <1>1, <2>1, <2>2 DEF PaysAt
  <1>. HIDE DEF F
  <1>9. PICK Q : Q = P \ {k + 2}
    OBVIOUS
  <1>10. f[P] = f[Q] + Part(c = tx.actor, m) /\ f[Q] \in Int /\ Q \in SUBSET P
    <2>1. PICK j : j = k + 2
      OBVIOUS
    <2>2. P \in SUBSET P /\ (j \in P => F[j] = m) /\ m \in Int
      BY <1>7, <2>1
    <2>3. f[P] = f[P \ {j}] + Part(j \in P, m) /\ f[P \ {j}] \in Int
      <3>1. Without(f, P, j, m)
        BY <1>3, <2>2, SumWithout
      <3>. QED
        BY <3>1 DEF Without
    <2>4. Part(j \in P, m) = Part(c = tx.actor, m)
      BY <1>7, <2>1 DEF Part
    <2>. QED
      BY <1>9, <2>1, <2>3, <2>4
  <1>11. CASE first = 0
    <2>1. PICK n \in Int : n = Deposit - RefundFee
      BY MoneyFacts
    <2>2. PICK j : j = k + 1
      OBVIOUS
    <2>3. Q \in SUBSET P /\ (j \in Q => F[j] = n) /\ n \in Int
      BY <1>8, <1>9, <1>10, <1>11, <2>1, <2>2
    <2>4. f[Q] = f[Q \ {j}] + Part(j \in Q, n) /\ f[Q \ {j}] \in Int
      <3>1. Without(f, Q, j, n)
        BY <1>3, <2>3, SumWithout
      <3>. QED
        BY <3>1 DEF Without
    <2>5. Part(j \in Q, n) = Part(first = 0 /\ c = Owner, n)
      BY <1>8, <1>9, <1>11, <2>2 DEF Part
    <2>6. A = Q \ {j}
      BY <1>1, <1>4, <1>9, <1>11, <2>2 DEF ToBuyers
    <2>. QED
      BY <1>3, <1>5, <1>10, <2>1, <2>4, <2>5, <2>6
  <1>12. CASE first = 1
    <2>1. A = Q
      BY <1>1, <1>4, <1>9, <1>12 DEF ToBuyers
    <2>2. Part(first = 0 /\ c = Owner, Deposit - RefundFee) = 0
      BY <1>12 DEF Part
    <2>3. PICK n \in Int, u \in Int : n = Due(s, d, k, c) /\ u = Part(c = tx.actor, m)
      BY <1>5, <1>10, <2>1 DEF Part
    <2>. QED
      BY <1>3, <1>5, <1>10, <2>1, <2>2, <2>3
  <1>. QED
    BY <1>11, <1>12

(* The outputs of a draw, place by place.                                  *)
LEMMA DrawPaysParts ==
    ASSUME NEW tx, Len(tx.outputs) = 3, DOMAIN tx.outputs = 1..Len(tx.outputs),
           NEW p \in Int, NEW winner,
           tx.outputs[1] = KeyOutput(p, winner), tx.outputs[2] = KeyOutput(Deposit, Owner),
           tx.outputs[3] = KeyOutput(Finalizer, tx.actor), NEW c
    PROVE  PaidTo(tx, c) = Part(c = winner, p) + Part(c = Owner, Deposit) + Part(c = tx.actor, Finalizer)
  <1>1. PICK P : P = PaysAt(tx, c)
    OBVIOUS
  <1>. DEFINE F == [i \in P |-> tx.outputs[i].value]
  <1>2. /\ DOMAIN tx.outputs = {1, 2, 3}
        /\ ~IsState(tx.outputs[1]) /\ tx.outputs[1].pays = winner /\ tx.outputs[1].value = p
        /\ ~IsState(tx.outputs[2]) /\ tx.outputs[2].pays = Owner /\ tx.outputs[2].value = Deposit
        /\ ~IsState(tx.outputs[3]) /\ tx.outputs[3].pays = tx.actor /\ tx.outputs[3].value = Finalizer
    BY DEF KeyOutput, IsState
  <1>3. /\ 1 \in P <=> c = winner
        /\ 2 \in P <=> c = Owner
        /\ 3 \in P <=> c = tx.actor
        /\ P \in SUBSET {1, 2, 3}
    BY <1>1, <1>2 DEF PaysAt
  <1>4. /\ 1 \in P => F[1] = p
        /\ 2 \in P => F[2] = Deposit
        /\ 3 \in P => F[3] = Finalizer
    BY <1>2
  <1>5. PICK f : IsSums(F, P, f) /\ PaidTo(tx, c) = f[P]
    <2>1. \A i \in DOMAIN tx.outputs : tx.outputs[i].value \in Int
      BY <1>2, MoneyFacts
    <2>2. Len(tx.outputs) \in Nat
      OBVIOUS
    <2>. QED
      BY <1>1, <2>1, <2>2, PaidToSums
  <1>. HIDE DEF F
  <1>6. PICK Q, R : Q = P \ {3} /\ R = Q \ {2}
    OBVIOUS
  <1>7. Q \in SUBSET P /\ R \in SUBSET P /\ R \ {1} = {}
    BY <1>3, <1>6
  <1>8. f[P] = f[Q] + Part(3 \in P, Finalizer) /\ f[Q] \in Int
    <2>1. PICK j : j = 3
      OBVIOUS
    <2>2. P \in SUBSET P /\ (j \in P => F[j] = Finalizer) /\ Finalizer \in Int
      BY <1>4, <2>1, MoneyFacts
    <2>3. f[P] = f[P \ {j}] + Part(j \in P, Finalizer) /\ f[P \ {j}] \in Int
      <3>1. Without(f, P, j, Finalizer)
        BY <1>5, <2>2, SumWithout
      <3>. QED
        BY <3>1 DEF Without
    <2>. QED
      BY <1>6, <2>1, <2>3
  <1>9. f[Q] = f[R] + Part(2 \in Q, Deposit) /\ f[R] \in Int
    <2>1. PICK j : j = 2
      OBVIOUS
    <2>2. (j \in Q => F[j] = Deposit) /\ Deposit \in Int
      BY <1>4, <1>6, <2>1, MoneyFacts
    <2>3. f[Q] = f[Q \ {j}] + Part(j \in Q, Deposit) /\ f[Q \ {j}] \in Int
      <3>1. Without(f, Q, j, Deposit)
        BY <1>5, <1>7, <2>2, SumWithout
      <3>. QED
        BY <3>1 DEF Without
    <2>. QED
      BY <1>6, <2>1, <2>3
  <1>10. f[R] = f[R \ {1}] + Part(1 \in R, p)
    <2>1. PICK j : j = 1
      OBVIOUS
    <2>2. j \in R => F[j] = p
      BY <1>4, <1>6, <2>1
    <2>3. f[R] = f[R \ {j}] + Part(j \in R, p)
      <3>1. Without(f, R, j, p)
        BY <1>5, <1>7, <2>2, SumWithout
      <3>. QED
        BY <3>1 DEF Without
    <2>. QED
      BY <2>1, <2>3
  <1>11. f[R \ {1}] = 0
    BY <1>5, <1>7 DEF IsSums
  <1>12. /\ Part(3 \in P, Finalizer) = Part(c = tx.actor, Finalizer)
         /\ Part(2 \in Q, Deposit) = Part(c = Owner, Deposit)
         /\ Part(1 \in R, p) = Part(c = winner, p)
    BY <1>3, <1>6 DEF Part
  <1>13. PICK a \in Int, b \in Int, d \in Int :
            /\ a = Part(c = winner, p) /\ b = Part(c = Owner, Deposit)
            /\ d = Part(c = tx.actor, Finalizer)
    BY MoneyFacts DEF Part
  <1>14. f[R] = 0 + a /\ f[Q] = f[R] + b /\ f[P] = f[Q] + d
    BY <1>8, <1>9, <1>10, <1>11, <1>12, <1>13
  <1>. QED
    BY <1>5, <1>13, <1>14

(* A draw pays the holder of the sampled ticket, whoever executes it and   *)
(* whatever record its witness names (sealed.sil draws, accepted.ts        *)
(* interprets); each buyer of a batch gets its refunds (refunding.sil);    *)
(* owner and executor get their shares, and nobody anything else, also     *)
(* when the owner is itself a buyer, the winner or the executor.           *)
THEOREM PaymentsReachTheirKeys == Spec => []PaysTheRightKeys
  <1>1. ASSUME NetInv PROVE PaysTheRightKeys
    <2>. SUFFICES ASSUME last # NoTx
                  PROVE  /\ last.tx.action = "DRAW_AND_PAY" =>
                              \E i \in 1..PurchaseCount(last.before.ledger) :
                                /\ EndAt(last.before.ledger, i - 1) <= last.before.opening % last.before.ledger.sold
                                /\ last.before.opening % last.before.ledger.sold < EndAt(last.before.ledger, i)
                                /\ prize.record = i
                                /\ \A c \in Clients \cup Others \cup {Owner} :
                                     PaidTo(last.tx, c) =
                                       Part(c = last.before.ledger.directory[i].key,
                                            Prize(last.before.ledger, last.tx.fee))
                                         + Part(c = Owner, Deposit) + Part(c = last.tx.actor, Finalizer)
                         /\ last.tx.action = "REFUND" =>
                              \A c \in Clients \cup Others \cup {Owner} :
                                PaidTo(last.tx, c) =
                                  Due(last.before.ledger, last.before.ledger.cursor,
                                      RefundBatch(last.before.ledger).k, c)
                                    + Part(RefundBatch(last.before.ledger).last /\ c = Owner,
                                           Deposit - RefundFee)
                                    + Part(c = last.tx.actor,
                                           last.tx.external + RefundBatch(last.before.ledger).pool
                                             - last.tx.fee)
      BY DEF PaysTheRightKeys, Due, Bought
    <2>1. PICK x, tx : x = last.before /\ tx = last.tx
      OBVIOUS
    <2>2. /\ Sound(x) /\ TxType(tx) /\ ChangeReturns(tx)
          /\ ConsensusAccepts(x, tx) /\ CovenantAccepts(x, tx)
          /\ tx.action = "DRAW_AND_PAY" => prize.record = tx.hint
      BY <1>1, <2>1 DEF NetInv, LastFits
    <2>3. PICK s \in Ledgers : s = x.ledger /\ ValidLedger(s)
      BY <2>2 DEF Sound
    <2>4. ASSUME tx.action = "DRAW_AND_PAY"
          PROVE  \E i \in 1..PurchaseCount(s) :
                   /\ EndAt(s, i - 1) <= x.opening % s.sold /\ x.opening % s.sold < EndAt(s, i)
                   /\ prize.record = i
                   /\ \A c \in Clients \cup Others \cup {Owner} :
                        PaidTo(tx, c) = Part(c = s.directory[i].key, Prize(s, tx.fee))
                                          + Part(c = Owner, Deposit) + Part(c = tx.actor, Finalizer)
      <3>1. SealedAccepts(x, tx)
        BY <2>2, <2>4 DEF CovenantAccepts, OpenAccepts, RefundingAccepts
      <3>2. /\ tx.opening = x.opening /\ tx.hint \in 1..PurchaseCount(s)
            /\ HoldsTicket(s, tx.hint, tx.opening % s.sold)
            /\ tx.outputs[1] = KeyOutput(Prize(s, tx.fee), s.directory[tx.hint].key)
            /\ tx.outputs[2] = KeyOutput(Deposit, Owner)
            /\ tx.outputs[3] = KeyOutput(Finalizer, tx.actor)
            /\ Len(tx.outputs) = 3
        BY <2>3, <2>4, <3>1 DEF SealedAccepts, Ordinary
      <3>3. EndAt(s, tx.hint - 1) <= x.opening % s.sold /\ x.opening % s.sold < EndAt(s, tx.hint)
        BY <3>2 DEF HoldsTicket
      <3>4. prize.record = tx.hint /\ DOMAIN tx.outputs = 1..Len(tx.outputs)
        BY <2>2, <2>4 DEF ChangeReturns
      <3>5. PICK p \in Int : p = Prize(s, tx.fee)
        <4>1. s.config = Config /\ s.sold \in Nat /\ tx.fee \in Int
          BY <2>2, <2>3, LedgerFacts DEF TxType
        <4>2. s.sold * s.config.ticketPrice \in Int
          BY <4>1, ConfigFacts
        <4>. QED
          BY <4>1, <4>2, MoneyFacts DEF Prize
      <3>6. PICK winner : winner = s.directory[tx.hint].key
        OBVIOUS
      <3>7. \A c : PaidTo(tx, c) = Part(c = winner, p) + Part(c = Owner, Deposit)
                                     + Part(c = tx.actor, Finalizer)
        BY <3>2, <3>4, <3>5, <3>6, DrawPaysParts
      <3>. QED
        BY <3>2, <3>3, <3>4, <3>5, <3>6, <3>7
    <2>5. ASSUME tx.action = "REFUND", NEW c \in Clients \cup Others \cup {Owner}
          PROVE  PaidTo(tx, c) = Due(s, s.cursor, RefundBatch(s).k, c)
                                   + Part(RefundBatch(s).last /\ c = Owner, Deposit - RefundFee)
                                   + Part(c = tx.actor, tx.external + RefundBatch(s).pool - tx.fee)
      <3>1. s.phase = "REFUNDING" /\ RefundingAccepts(x, tx)
        BY <2>2, <2>3, <2>5 DEF CovenantAccepts, OpenAccepts, SealedAccepts
      <3>2. PICK k \in Nat, first \in {0, 1} : RefundOutputs(s, tx, k, first)
        BY <2>2, <2>3, <3>1, RefundOutputsAre
      <3>3. k = RefundBatch(s).k /\ (first = 0 <=> RefundBatch(s).last)
        BY <3>2 DEF RefundOutputs
      <3>4. s.cursor \in Nat /\ s.cursor + k <= PurchaseCount(s)
        BY <2>3, <3>1, <3>3, BatchFacts
      <3>5. Len(tx.outputs) \in Nat /\ DOMAIN tx.outputs = 1..Len(tx.outputs)
        BY <2>2 DEF ChangeReturns
      <3>6. PICK m \in Int : m = tx.external + RefundBatch(s).pool - tx.fee
        <4>1. RefundBatch(s).pool \in Int
          BY <2>3, <3>1, BatchFacts
        <4>2. tx.external \in Int /\ tx.fee \in Int
          BY <2>2 DEF TxType
        <4>. QED
          BY <4>1, <4>2
      <3>7. PaidTo(tx, c) = Due(s, s.cursor, k, c) + Part(first = 0 /\ c = Owner, Deposit - RefundFee)
                              + Part(c = tx.actor, m)
        BY <2>3, <3>2, <3>4, <3>5, <3>6, RefundPaysParts
      <3>8. Part(first = 0 /\ c = Owner, Deposit - RefundFee)
              = Part(RefundBatch(s).last /\ c = Owner, Deposit - RefundFee)
        BY <3>3 DEF Part
      <3>. QED
        BY <3>3, <3>6, <3>7, <3>8
    <2>. QED
      BY <2>1, <2>3, <2>4, <2>5
  <1>. QED
    BY <1>1, NetworkInvariant, PTL

---------------------------------------------------------------------------
(* The contract seen through the network's state.                          *)

(* A ledger's directory as the contract's sequence of cumulative counts.   *)
EndsOf(s) == [i \in 1..PurchaseCount(s) |-> EndAt(s, i)]

EndsAre(s) ==
    /\ PurchaseCount(s) \in Nat /\ Len(EndsOf(s)) = PurchaseCount(s)
    /\ \A i \in 0..PurchaseCount(s) : Contract!EndOf(EndsOf(s), i) = EndAt(s, i) /\ EndAt(s, i) \in Nat
    /\ \A i \in 1..PurchaseCount(s) : EndsOf(s)[i] = EndAt(s, i)

LEMMA EndsView ==
    ASSUME NEW s \in Ledgers
    PROVE  EndsAre(s)
  <1>1. PurchaseCount(s) \in Nat /\ \A i \in 0..PurchaseCount(s) : EndAt(s, i) \in Nat
    BY LedgerFacts
  <1>2. EndsOf(s) = [i \in 1..PurchaseCount(s) |-> EndsOf(s)[i]]
    BY DEF EndsOf
  <1>3. Len(EndsOf(s)) = PurchaseCount(s)
    BY <1>1, <1>2, FunctionLen
  <1>4. \A i \in 1..PurchaseCount(s) : EndsOf(s)[i] = EndAt(s, i)
    BY DEF EndsOf
  <1>5. \A i \in 0..PurchaseCount(s) : Contract!EndOf(EndsOf(s), i) = EndAt(s, i)
    <2>. SUFFICES ASSUME NEW i \in 0..PurchaseCount(s)
                  PROVE  Contract!EndOf(EndsOf(s), i) = EndAt(s, i)
      OBVIOUS
    <2>1. CASE i = 0
      BY <2>1, LedgerFacts DEF Contract!EndOf
    <2>2. CASE i # 0
      <3>1. i \in 1..PurchaseCount(s)
        BY <1>1, <2>2
      <3>. QED
        BY <1>4, <2>2, <3>1 DEF Contract!EndOf
    <2>. QED
      BY <2>1, <2>2
  <1>. QED
    BY <1>1, <1>3, <1>4, <1>5 DEF EndsAre

LEMMA EndsAppended ==
    ASSUME NEW s \in Ledgers, NEW q \in Nat, NEW k \in Keys, NEW n, n = AppendPurchase(s, q, k), n \in Ledgers
    PROVE  EndsOf(n) = Append(EndsOf(s), s.sold + q)
  <1>1. PICK c \in Nat : c = PurchaseCount(s)
    BY LedgerFacts
  <1>2. /\ s.directory \in Seq(Purchases) /\ Len(s.directory) = c
        /\ n.directory = Append(s.directory, [end |-> s.sold + q, key |-> k])
    BY <1>1, LedgerFacts DEF AppendPurchase, PurchaseCount, Ledgers
  <1>3. /\ PurchaseCount(n) = c + 1
        /\ \A i \in 1..c : n.directory[i] = s.directory[i]
        /\ n.directory[c + 1].end = s.sold + q
    BY <1>1, <1>2 DEF PurchaseCount
  <1>4. \A i \in 1..c : EndAt(n, i) = EndAt(s, i)
    BY <1>3 DEF EndAt
  <1>5. EndAt(n, c + 1) = s.sold + q
    BY <1>3 DEF EndAt
  <1>6. PICK e : e = EndsOf(s)
    OBVIOUS
  <1>7. e \in [1..c -> Nat] /\ \A i \in 1..c : e[i] = EndAt(s, i)
    <2>1. \A i \in 1..c : EndAt(s, i) \in Nat
      BY <1>1, LedgerFacts
    <2>. QED
      BY <1>1, <1>6, <2>1 DEF EndsOf
  <1>8. e \in Seq(Nat) /\ Len(e) = c
    BY <1>7, FunctionIsSeq
  <1>9. PICK v \in Nat : v = s.sold + q
    BY LedgerFacts
  <1>10. PICK m : m = EndsOf(n)
    OBVIOUS
  <1>11. m = [i \in 1..(c + 1) |-> EndAt(n, i)]
    BY <1>3, <1>10 DEF EndsOf
  <1>12. m \in [1..(c + 1) -> Nat] /\ (\A i \in 1..c : m[i] = e[i]) /\ m[c + 1] = v
    <2>1. \A i \in 1..(c + 1) : EndAt(n, i) = IF i = c + 1 THEN v ELSE e[i]
      BY <1>4, <1>5, <1>7, <1>9
    <2>. QED
      BY <1>7, <1>9, <1>11, <2>1
  <1>13. c + 1 \in Nat
    OBVIOUS
  <1>14. m \in Seq(Nat) /\ Len(m) = c + 1
    BY <1>12, <1>13, FunctionIsSeq
  <1>15. m = Append(e, v)
    BY <1>8, <1>9, <1>12, <1>14
  <1>. QED
    BY <1>6, <1>9, <1>10, <1>15

(* What the contract computes from a ledger.                               *)
SeenAs(s) ==
    /\ Contract!PurchaseCount = PurchaseCount(s) /\ PurchaseCount(s) \in Nat
    /\ Contract!PaidTickets = PaidTickets(s)
    /\ Contract!SoldOut <=> SoldOut(s)
    /\ Contract!ClosedPhase = ClosedPhase(s)
    /\ \A i \in 1..PurchaseCount(s) : \A t : Contract!HoldsTicket(i, t) <=> HoldsTicket(s, i, t)
    /\ PhaseNow = s.phase /\ CursorNow = s.cursor

LEMMA ContractView ==
    ASSUME ~Ended, NEW s \in Ledgers, ValidLedger(s), s = state.ledger
    PROVE  SeenAs(s)
  <1>1. EndsAre(s)
    BY EndsView
  <1>2. Contract!PurchaseCount = PurchaseCount(s) /\ PurchaseCount(s) \in Nat
    BY <1>1 DEF Contract!PurchaseCount, EndsOf, EndsAre
  <1>3. PhaseNow = s.phase /\ CursorNow = s.cursor
    BY DEF PhaseNow, CursorNow
  <1>4. s.cursor \in 0..PurchaseCount(s)
    BY <1>2, LedgerFacts DEF ValidLedger
  <1>5. Contract!PaidTickets = PaidTickets(s)
    BY <1>1, <1>3, <1>4 DEF Contract!PaidTickets, PaidTickets, EndsOf, EndsAre
  <1>6. /\ s.sold \in Nat /\ s.sold <= Config.ticketCap /\ s.config = Config
        /\ PurchaseCount(s) <= Config.purchaseCap
    BY LedgerFacts, ConfigFacts DEF ValidLedger
  <1>7. Contract!SoldOut <=> SoldOut(s)
    BY <1>2, <1>6, ConfigFacts DEF Contract!SoldOut, SoldOut
  <1>8. Contract!ClosedPhase = ClosedPhase(s)
    BY <1>6 DEF Contract!ClosedPhase, ClosedPhase
  <1>9. ASSUME NEW i \in 1..PurchaseCount(s), NEW t PROVE Contract!HoldsTicket(i, t) <=> HoldsTicket(s, i, t)
    <2>1. i \in 0..PurchaseCount(s) /\ i - 1 \in 0..PurchaseCount(s)
      BY <1>2
    <2>. QED
      BY <1>1, <2>1 DEF Contract!HoldsTicket, HoldsTicket, EndsOf, EndsAre
  <1>. QED
    BY <1>2, <1>3, <1>5, <1>7, <1>8, <1>9 DEF SeenAs

Books ==
    refunded \in [1..MaxPurchases -> Int] /\ ownerPaid \in Int /\ costs \in Int

TradeInv ==
    /\ NetInv
    /\ \A c \in Clients : sent[c] # NoTx => Offered(sent[c])
    /\ Books

(* What an accepted transaction does to the state.                         *)
Takes(x, tx) ==
    /\ x.ledger = state.ledger /\ x.value = state.value
    /\ x.utxoDaa = state.utxoDaa /\ x.currentDaa = daa /\ x.opening = opening
    /\ Sound(x) /\ ~Ended /\ x.value = ValueOf(x.ledger)
    /\ ConsensusAccepts(x, tx) /\ CovenantAccepts(x, tx) /\ Follows(x, tx)
    /\ daa' = daa /\ opening' = opening /\ last'.tx = tx

Ends(x, tx) == state'.ledger = x.ledger /\ state'.value = 0 /\ state'.utxoDaa = x.utxoDaa

Goes(n) == state'.ledger = n /\ state'.value = ValueOf(n) /\ state'.utxoDaa = daa

LEMMA AcceptTakes ==
    ASSUME NetInv, NEW tx, TxType(tx), Accept(tx), NEW x, x = Snapshot
    PROVE  /\ Takes(x, tx)
           /\ Explained(x, tx).ended => StateOutputs(tx) = {} /\ Ends(x, tx)
           /\ \A n : ~Explained(x, tx).ended /\ n = Explained(x, tx).next =>
                       /\ n \in Ledgers /\ ValidLedger(n) /\ Goes(n)
                       /\ StateOutputs(tx) # {} /\ tx.outputs[1].value = ValueOf(n)
  <1>3. /\ x.ledger = state.ledger /\ x.tip = state.tip /\ x.value = state.value
        /\ x.utxoDaa = state.utxoDaa /\ x.currentDaa = daa /\ x.opening = opening
    BY DEF Snapshot
  <1>5. /\ state.value # 0 /\ ConsensusAccepts(x, tx) /\ CovenantAccepts(x, tx)
        /\ last' = [before |-> x, tx |-> tx]
        /\ state' = (IF StateOutputs(tx) = {}
                     THEN [state EXCEPT !.value = 0, !.tip = @ + 1]
                     ELSE [ledger |-> tx.outputs[1].state, tip |-> state.tip + 1,
                           value |-> tx.outputs[1].value, utxoDaa |-> daa])
        /\ daa' = daa /\ opening' = opening
    BY DEF Accept, AcceptsNow, Ended
  <1>7. Describes(x) /\ Sound(x)
    BY <1>3, <1>5, LiveIsSound DEF NetInv
  <1>8. Follows(x, tx)
    BY <1>5, <1>7, AcceptedFollows
  <1>9. Takes(x, tx)
    <2>1. x.value = ValueOf(x.ledger)
      BY <1>7 DEF Sound
    <2>2. last'.tx = tx /\ ~Ended
      BY <1>5 DEF Ended
    <2>. QED
      BY <1>3, <1>5, <1>7, <1>8, <2>1, <2>2 DEF Takes
  <1>10. ASSUME Explained(x, tx).ended PROVE StateOutputs(tx) = {} /\ Ends(x, tx)
    <2>1. StateOutputs(tx) = {}
      BY <1>8, <1>10 DEF Follows
    <2>2. state' = [ledger |-> state.ledger, tip |-> state.tip + 1, value |-> 0, utxoDaa |-> state.utxoDaa]
      <3>1. state = [ledger |-> state.ledger, tip |-> state.tip,
                     value |-> state.value, utxoDaa |-> state.utxoDaa]
        BY DEF NetInv, Shaped
      <3>. QED
        BY <1>5, <2>1, <3>1
    <2>. QED
      BY <1>3, <2>1, <2>2 DEF Ends
  <1>11. ASSUME ~Explained(x, tx).ended, NEW n, n = Explained(x, tx).next
         PROVE  /\ n \in Ledgers /\ ValidLedger(n) /\ Goes(n)
                /\ StateOutputs(tx) # {} /\ tx.outputs[1].value = ValueOf(n)
    <2>2. n \in Ledgers /\ ValidLedger(n) /\ StateOutputs(tx) = {1} /\ tx.outputs[1] = StateOutput(n)
      BY <1>8, <1>11 DEF Follows
    <2>3. tx.outputs[1].state = n /\ tx.outputs[1].value = ValueOf(n) /\ StateOutputs(tx) # {}
      BY <2>2 DEF StateOutput
    <2>4. state' = [ledger |-> tx.outputs[1].state, tip |-> state.tip + 1,
                    value |-> tx.outputs[1].value, utxoDaa |-> daa]
      BY <1>5, <2>3
    <2>. QED
      BY <2>2, <2>3, <2>4 DEF Goes
  <1>. QED
    BY <1>9, <1>10, <1>11

(* Where the money of an accepted transaction is booked.                   *)
LEMMA SettleParts ==
    ASSUME NEW s, s = state.ledger, NEW tx, Settle(tx), NEW R, R = Returned(s, tx)
    PROVE  /\ refunded' = [i \in 1..MaxPurchases |-> refunded[i] + R[i]]
           /\ prize' = IF tx.action = "DRAW_AND_PAY"
                       THEN [record |-> tx.hint, amount |-> Won(tx)] ELSE prize
           /\ ownerPaid' = ownerPaid + Owners(s, tx)
           /\ costs' = IF tx.action = "BUY" THEN costs
                       ELSE costs + (state.value - Kept(tx)) - Owners(s, tx) - Won(tx)
                              - SumOver(R, 1..MaxPurchases)
  <1>1. MapThenSumSet(LAMBDA i : R[i], 1..MaxPurchases) = SumOver(R, 1..MaxPurchases)
    BY DEF MapThenSumSet, MapThenFoldSet, SumOver, Adds, Pick
  <1>2. /\ refunded' = [i \in 1..MaxPurchases |-> refunded[i] + R[i]]
        /\ prize' = IF tx.action = "DRAW_AND_PAY"
                    THEN [record |-> tx.hint, amount |-> Won(tx)] ELSE prize
        /\ ownerPaid' = ownerPaid + Owners(s, tx)
    BY DEF Settle
  <1>3. costs' = IF tx.action = "BUY" THEN costs
                 ELSE costs + (state.value - Kept(tx)) - Owners(s, tx) - Won(tx)
                        - MapThenSumSet(LAMBDA i : R[i], 1..MaxPurchases)
    BY DEF Settle
  <1>. QED
    BY <1>1, <1>2, <1>3

(* Only a batch of refunds pays refunds.                                   *)
LEMMA NoRefunds ==
    ASSUME NEW s, s = state.ledger, NEW tx, Settle(tx), tx.action # "REFUND",
           refunded \in [1..MaxPurchases -> Int]
    PROVE  /\ refunded' = refunded
           /\ prize' = IF tx.action = "DRAW_AND_PAY"
                       THEN [record |-> tx.hint, amount |-> Won(tx)] ELSE prize
           /\ ownerPaid' = ownerPaid + Owners(s, tx)
           /\ costs' = IF tx.action = "BUY" THEN costs
                       ELSE costs + (state.value - Kept(tx)) - Owners(s, tx) - Won(tx) - 0
  <1>1. PICK R : R = Returned(s, tx)
    OBVIOUS
  <1>2. \A i \in 1..MaxPurchases : R[i] = 0
    BY <1>1 DEF Returned
  <1>3. SumOver(R, 1..MaxPurchases) = 0
    <2>1. IsFiniteSet(1..MaxPurchases)
      BY ConfigFacts, FS_Interval
    <2>2. \A i \in 1..MaxPurchases : R[i] \in Int
      BY <1>2
    <2>3. PICK g : IsSums(R, 1..MaxPurchases, g) /\ SumOver(R, 1..MaxPurchases) = g[1..MaxPurchases]
      BY <2>1, <2>2, SumParts
    <2>. QED
      BY <1>2, <2>1, <2>3, SumOfNone
  <1>4. /\ refunded' = [i \in 1..MaxPurchases |-> refunded[i] + R[i]]
        /\ prize' = IF tx.action = "DRAW_AND_PAY"
                    THEN [record |-> tx.hint, amount |-> Won(tx)] ELSE prize
        /\ ownerPaid' = ownerPaid + Owners(s, tx)
        /\ costs' = IF tx.action = "BUY" THEN costs
                    ELSE costs + (state.value - Kept(tx)) - Owners(s, tx) - Won(tx)
                           - SumOver(R, 1..MaxPurchases)
    BY <1>1, SettleParts
  <1>5. refunded' = refunded
    <2>1. \A i \in 1..MaxPurchases : refunded[i] + R[i] = refunded[i]
      BY <1>2
    <2>2. refunded = [i \in 1..MaxPurchases |-> refunded[i]]
      OBVIOUS
    <2>. QED
      BY <1>4, <2>1, <2>2
  <1>. QED
    BY <1>3, <1>4, <1>5

(* The contract's variables after a spend.                                 *)
LEMMA GoneOn ==
    ASSUME NEW n \in Ledgers, ValidLedger(n), Goes(n)
    PROVE  /\ PhaseNow' = n.phase /\ CursorNow' = n.cursor
           /\ Contract!Spendable(ValueOf(n))
  <1>1. Spendable(ValueOf(n)) /\ ValueOf(n) \in Nat
    BY ValueFacts
  <1>2. state'.value # 0 /\ state'.ledger = n
    BY <1>1 DEF Goes, Spendable
  <1>3. PhaseNow' = n.phase /\ CursorNow' = n.cursor
    BY <1>2 DEF PhaseNow, CursorNow, Ended
  <1>. QED
    BY <1>1, <1>3 DEF Spendable, Contract!Spendable

LEMMA GoneOut ==
    ASSUME NEW s \in Ledgers, NEW x, x.ledger = s, NEW tx, Ends(x, tx), last'.tx = tx,
           s.cursor \in Nat
    PROVE  /\ PhaseNow' = (CASE tx.action = "CLOSE" -> "EMPTY"
                             [] tx.action = "DRAW_AND_PAY" -> "PAID"
                             [] OTHER -> "REFUNDED")
           /\ CursorNow' = IF tx.action = "REFUND" THEN PurchaseCount(s) ELSE s.cursor
  BY DEF Ends, PhaseNow, CursorNow, Ended

LEMMA BuyIsBuy ==
    ASSUME TradeInv, NEW tx, TxType(tx), ChangeReturns(tx), Accept(tx), tx.action = "BUY"
    PROVE  Contract!Next /\ Books'
  <1>1. PICK x : x = Snapshot
    OBVIOUS
  <1>2. PICK s \in Ledgers : s = x.ledger /\ ValidLedger(s)
    BY <1>1, AcceptTakes DEF TradeInv, Takes, Sound
  <1>3. Takes(x, tx)
    BY <1>1, AcceptTakes DEF TradeInv
  <1>4. PICK n : n = Explained(x, tx).next
    OBVIOUS
  <1>5. ~Explained(x, tx).ended /\ n = AppendPurchase(s, tx.quantity, tx.actor)
    BY <1>2, <1>4 DEF Explained, HasSuccessor, NextLedger
  <1>6. n \in Ledgers /\ ValidLedger(n) /\ Goes(n)
    BY <1>1, <1>4, <1>5, AcceptTakes DEF TradeInv
  <1>7. /\ OpenAccepts(x, tx) /\ s.phase = "OPEN"
    BY <1>2, <1>3 DEF Takes, CovenantAccepts, SealedAccepts, RefundingAccepts
  <1>8. /\ tx.quantity \in Nat /\ tx.quantity > 0 /\ tx.quantity <= Config.ticketCap - s.sold
        /\ PurchaseCount(s) < Config.purchaseCap /\ s.config = Config
        /\ s.sold \in Nat /\ tx.actor \in Keys
    BY <1>2, <1>7, LedgerFacts DEF OpenAccepts, TxType
  <1>9. CanAppend(s, tx.quantity)
    BY <1>7, <1>8, ConfigFacts DEF CanAppend
  <1>10. ValueOf(n) = ValueOf(s) + tx.quantity * s.config.ticketPrice
    BY <1>2, <1>5, <1>7, <1>8, <1>9, Appended
  <1>11. /\ n.phase = "OPEN" /\ n.sold = s.sold + tx.quantity /\ n.cursor = s.cursor
    BY <1>5, <1>7 DEF AppendPurchase, Ledgers
  <1>12. EndsOf(n) = Append(EndsOf(s), s.sold + tx.quantity)
    BY <1>5, <1>6, <1>8, EndsAppended
  <1>13. SeenAs(s)
    BY <1>2, <1>3, ContractView DEF Takes
  <1>14. PhaseNow' = "OPEN" /\ CursorNow' = s.cursor /\ Contract!Spendable(ValueOf(n))
    BY <1>6, <1>11, GoneOn
  <1>15. /\ refunded' = refunded /\ prize' = prize /\ costs' = costs
         /\ ownerPaid' = ownerPaid
    <2>1. Settle(tx) /\ s = state.ledger
      BY <1>2, <1>3 DEF Accept, Takes
    <2>2. Owners(s, tx) = 0
      BY DEF Owners
    <2>3. ownerPaid + 0 = ownerPaid
      BY DEF TradeInv, Books
    <2>. QED
      BY <2>1, <2>2, <2>3, NoRefunds DEF TradeInv, Books
  <1>16. Contract!CanSell(tx.quantity)
    BY <1>2, <1>3, <1>8, <1>13 DEF Contract!CanSell, SeenAs, Takes
  <1>17. Contract!Successor(state.value + tx.quantity * Config.ticketPrice)
    BY <1>2, <1>3, <1>6, <1>8, <1>10, <1>14 DEF Contract!Successor, Takes, Goes
  <1>18. Contract!Buy(tx.quantity)
    <2>1. state'.ledger.sold = state.ledger.sold + tx.quantity
      BY <1>2, <1>3, <1>6, <1>11 DEF Takes, Goes
    <2>2. [i \in 1..PurchaseCount(state.ledger) |-> EndAt(state.ledger, i)]'
            = Append([i \in 1..PurchaseCount(state.ledger) |-> EndAt(state.ledger, i)],
                     state.ledger.sold + tx.quantity)
      BY <1>2, <1>3, <1>6, <1>12 DEF Takes, Goes, EndsOf
    <2>3. PhaseNow = "OPEN" /\ PhaseNow' = PhaseNow /\ CursorNow' = CursorNow
      BY <1>7, <1>13, <1>14 DEF SeenAs
    <2>4. daa' = daa /\ opening' = opening
      BY <1>3 DEF Takes
    <2>. QED
      BY <1>15, <1>16, <1>17, <2>1, <2>2, <2>3, <2>4 DEF Contract!Buy, Contract!payouts
  <1>19. tx.quantity \in 1..Config.ticketCap
    BY <1>8, ConfigFacts
  <1>20. Books'
    BY <1>15 DEF TradeInv, Books
  <1>. QED
    BY <1>18, <1>19, <1>20 DEF Contract!Next, Contract!Spend

(* A step that turns a live ledger into another phase and moves no money.  *)
LEMMA TurnMovesNothing ==
    ASSUME TradeInv, NEW tx, TxType(tx), ChangeReturns(tx), Accept(tx),
           tx.action \in {"CLOSE", "TIMEOUT_REFUND"}, NEW x, Takes(x, tx),
           NEW n, n \in Ledgers, IsState(tx.outputs[1]),
           StateOutputs(tx) # {}, tx.outputs[1].value = ValueOf(n), ValueOf(n) = ValueOf(x.ledger),
           x.ledger.sold # 0
    PROVE  refunded' = refunded /\ prize' = prize /\ costs' = costs /\ ownerPaid' = ownerPaid
  <1>1. Settle(tx) /\ x.ledger = state.ledger /\ x.value = ValueOf(x.ledger) /\ x.value = state.value
    BY DEF Accept, Takes
  <1>2. Owners(x.ledger, tx) = 0
    BY DEF Owners
  <1>3. ownerPaid \in Int /\ costs \in Int /\ refunded \in [1..MaxPurchases -> Int]
    BY DEF TradeInv, Books
  <1>4. Kept(tx) = state.value /\ Won(tx) = 0
    BY <1>1 DEF Kept, Won
  <1>5. state.value \in Nat
    BY <1>1, ValueFacts DEF Takes, Sound
  <1>6. /\ refunded' = refunded /\ prize' = prize
        /\ ownerPaid' = ownerPaid + 0
        /\ costs' = costs + (state.value - state.value) - 0 - 0 - 0
    BY <1>1, <1>2, <1>3, <1>4, NoRefunds
  <1>. QED
    BY <1>3, <1>5, <1>6

LEMMA ClosesInTime ==
    ASSUME NEW x, NEW tx, Takes(x, tx), TxType(tx), OpenAccepts(x, tx), tx.action = "CLOSE"
    PROVE  Contract!MayClose
  <1>1. PICK s \in Ledgers : s = x.ledger /\ ValidLedger(s)
    BY DEF Takes, Sound
  <1>2. SeenAs(s)
    BY <1>1, ContractView DEF Takes
  <1>3. /\ s.config = Config /\ s.sold \in Nat /\ s.sold <= Config.ticketCap
        /\ PurchaseCount(s) \in Nat /\ PurchaseCount(s) <= Config.purchaseCap
    BY <1>1, LedgerFacts, ConfigFacts DEF ValidLedger
  <1>4. CASE SoldOut(s)
    BY <1>2, <1>4 DEF SeenAs, Contract!MayClose
  <1>5. CASE ~SoldOut(s)
    <2>1. s.sold < Config.ticketCap /\ PurchaseCount(s) < Config.purchaseCap
      BY <1>3, <1>5, ConfigFacts DEF SoldOut
    <2>2. tx.lockTime >= Config.closeEligibleDaa - 1
      BY <1>1, <1>3, <2>1 DEF OpenAccepts
    <2>3. daa \in Nat /\ daa >= 1 /\ (tx.lockTime = 0 \/ tx.lockTime < daa)
      BY BoundFacts DEF Takes, ConsensusAccepts, Sound
    <2>4. Config.closeEligibleDaa - 1 < daa
      BY <2>2, <2>3, ConfigFacts DEF TxType
    <2>. QED
      BY <2>4 DEF Contract!MayClose
  <1>. QED
    BY <1>4, <1>5

LEMMA EmptyIsEmpty ==
    ASSUME TradeInv, NEW tx, TxType(tx), ChangeReturns(tx), Accept(tx), tx.action = "CLOSE",
           state.ledger.sold = 0
    PROVE  Contract!Next /\ Books'
  <1>1. PICK x : x = Snapshot
    OBVIOUS
  <1>2. Takes(x, tx)
    BY <1>1, AcceptTakes DEF TradeInv
  <1>3. PICK s \in Ledgers : s = x.ledger /\ ValidLedger(s) /\ s = state.ledger
    BY <1>2 DEF Takes, Sound
  <1>4. Explained(x, tx).ended
    <2>1. PICK op : op = [action |-> tx.action, actor |-> tx.actor, quantity |-> tx.quantity]
      OBVIOUS
    <2>2. op.action = "CLOSE" /\ ~(s.sold > 0)
      BY <1>3, <2>1
    <2>3. ~HasSuccessor(s, op)
      BY <2>2 DEF HasSuccessor
    <2>4. Explained(x, tx).ended = ~HasSuccessor(s, op)
      BY <1>3, <2>1 DEF Explained
    <2>. QED
      BY <2>3, <2>4
  <1>5. StateOutputs(tx) = {} /\ Ends(x, tx)
    BY <1>1, <1>4, AcceptTakes DEF TradeInv
  <1>6. OpenAccepts(x, tx) /\ s.phase = "OPEN"
    BY <1>2, <1>3 DEF Takes, CovenantAccepts, SealedAccepts, RefundingAccepts
  <1>7. Contract!MayClose
    BY <1>2, <1>6, ClosesInTime
  <1>8. SeenAs(s)
    BY <1>2, <1>3, ContractView DEF Takes
  <1>9. PhaseNow' = "EMPTY" /\ CursorNow' = s.cursor
    BY <1>2, <1>3, <1>5, LedgerFacts, GoneOut DEF Takes
  <1>10. Owners(s, tx) = Deposit
    <2>1. tx.outputs[1] = KeyOutput(Deposit, Owner)
      BY <1>3, <1>6 DEF OpenAccepts, Ordinary
    <2>. QED
      BY <1>3, <2>1 DEF Owners, KeyOutput
  <1>11. /\ refunded' = refunded /\ prize' = prize /\ ownerPaid' = ownerPaid + Deposit
         /\ costs' = costs + state.value - Deposit
    <2>1. Settle(tx)
      BY DEF Accept
    <2>2. ownerPaid \in Int /\ costs \in Int /\ refunded \in [1..MaxPurchases -> Int]
      BY DEF TradeInv, Books
    <2>3. Kept(tx) = 0 /\ Won(tx) = 0
      BY <1>5 DEF Kept, Won
    <2>4. state.value \in Nat
      BY <1>2, <1>3, ValueFacts DEF Takes
    <2>5. /\ refunded' = refunded /\ prize' = prize /\ ownerPaid' = ownerPaid + Deposit
          /\ costs' = costs + (state.value - 0) - Deposit - 0 - 0
      BY <1>3, <1>10, <2>1, <2>2, <2>3, NoRefunds
    <2>. QED
      BY <2>2, <2>4, <2>5, MoneyFacts
  <1>12. Contract!CloseEmpty
    <2>1. /\ state'.ledger = state.ledger /\ state'.value = 0 /\ state'.utxoDaa = state.utxoDaa
          /\ daa' = daa /\ opening' = opening
      BY <1>2, <1>5 DEF Ends, Takes
    <2>2. PhaseNow = "OPEN" /\ CursorNow' = CursorNow
      BY <1>6, <1>8, <1>9 DEF SeenAs
    <2>. QED
      BY <1>7, <1>9, <1>11, <2>1, <2>2 DEF Contract!CloseEmpty, Contract!Terminal
  <1>13. Books'
    <2>1. state.value \in Nat
      BY <1>2, <1>3, ValueFacts DEF Takes
    <2>. QED
      BY <1>11, <2>1, MoneyFacts DEF TradeInv, Books
  <1>. QED
    BY <1>12, <1>13 DEF Contract!Next, Contract!Spend

LEMMA CloseIsClose ==
    ASSUME TradeInv, NEW tx, TxType(tx), ChangeReturns(tx), Accept(tx), tx.action = "CLOSE",
           state.ledger.sold # 0
    PROVE  Contract!Next /\ Books'
  <1>1. PICK x : x = Snapshot
    OBVIOUS
  <1>2. Takes(x, tx)
    BY <1>1, AcceptTakes DEF TradeInv
  <1>3. PICK s \in Ledgers : s = x.ledger /\ ValidLedger(s) /\ s = state.ledger
    BY <1>2 DEF Takes, Sound
  <1>4. PICK n : n = Explained(x, tx).next
    OBVIOUS
  <1>5. s.sold \in Nat /\ s.sold > 0 /\ s.config = Config
    BY <1>3, LedgerFacts
  <1>6. ~Explained(x, tx).ended /\ n = [s EXCEPT !.phase = ClosedPhase(s)]
    BY <1>3, <1>4, <1>5 DEF Explained, HasSuccessor, NextLedger
  <1>7. n \in Ledgers /\ ValidLedger(n) /\ Goes(n) /\ StateOutputs(tx) # {} /\ tx.outputs[1].value = ValueOf(n)
    BY <1>1, <1>4, <1>6, AcceptTakes DEF TradeInv
  <1>8. OpenAccepts(x, tx) /\ s.phase = "OPEN"
    BY <1>2, <1>3 DEF Takes, CovenantAccepts, SealedAccepts, RefundingAccepts
  <1>9. Contract!MayClose
    BY <1>2, <1>8, ClosesInTime
  <1>10. SeenAs(s)
    BY <1>2, <1>3, ContractView DEF Takes
  <1>11. ClosedPhase(s) \in {"SEALED", "REFUNDING"} /\ (ClosedPhase(s) = "SEALED" => s.sold >= s.config.minTickets)
    BY DEF ClosedPhase
  <1>12. ValueOf(n) = ValueOf(s)
    BY <1>3, <1>5, <1>6, <1>8, <1>11, Turned
  <1>13. n.phase = ClosedPhase(s) /\ n.sold = s.sold /\ n.cursor = s.cursor /\ n.directory = s.directory
    BY <1>6 DEF Ledgers
  <1>14. PhaseNow' = ClosedPhase(s) /\ CursorNow' = s.cursor /\ Contract!Spendable(ValueOf(n))
    BY <1>7, <1>13, GoneOn
  <1>15. refunded' = refunded /\ prize' = prize /\ costs' = costs /\ ownerPaid' = ownerPaid
    <2>1. IsState(tx.outputs[1])
      BY <1>2, <1>6, StateOutputIsState DEF Takes, Follows
    <2>. QED
      <3>1. ValueOf(n) = ValueOf(x.ledger) /\ x.ledger.sold # 0
        BY <1>3, <1>5, <1>12
      <3>. QED
        BY <1>2, <1>7, <2>1, <3>1, TurnMovesNothing
  <1>16. Contract!Close
    <2>1. /\ state'.ledger.sold = state.ledger.sold /\ daa' = daa /\ opening' = opening
          /\ state'.value = state.value /\ state'.utxoDaa = daa /\ Contract!Spendable(state.value)
      BY <1>2, <1>3, <1>7, <1>12, <1>13, <1>14 DEF Goes, Takes
    <2>2. [i \in 1..PurchaseCount(state.ledger) |-> EndAt(state.ledger, i)]'
            = [i \in 1..PurchaseCount(state.ledger) |-> EndAt(state.ledger, i)]
      BY <1>3, <1>7, <1>13 DEF Goes, PurchaseCount, EndAt
    <2>3. PhaseNow = "OPEN" /\ CursorNow' = CursorNow /\ PhaseNow' = Contract!ClosedPhase
      BY <1>8, <1>10, <1>14 DEF SeenAs
    <2>4. state.ledger.sold > 0
      BY <1>3, <1>5
    <2>. QED
      BY <1>9, <1>15, <2>1, <2>2, <2>3, <2>4 DEF Contract!Close, Contract!Successor, Contract!payouts
  <1>17. Books'
    BY <1>15 DEF TradeInv, Books
  <1>. QED
    BY <1>16, <1>17 DEF Contract!Next, Contract!Spend

LEMMA TimeoutIsTimeout ==
    ASSUME TradeInv, NEW tx, TxType(tx), ChangeReturns(tx), Accept(tx), tx.action = "TIMEOUT_REFUND"
    PROVE  Contract!Next /\ Books'
  <1>1. PICK x : x = Snapshot
    OBVIOUS
  <1>2. Takes(x, tx)
    BY <1>1, AcceptTakes DEF TradeInv
  <1>3. PICK s \in Ledgers : s = x.ledger /\ ValidLedger(s) /\ s = state.ledger
    BY <1>2 DEF Takes, Sound
  <1>4. PICK n : n = Explained(x, tx).next
    OBVIOUS
  <1>5. s.sold \in Nat /\ s.config = Config
    BY <1>3, LedgerFacts
  <1>6. ~Explained(x, tx).ended /\ n = [s EXCEPT !.phase = "REFUNDING"]
    BY <1>3, <1>4, <1>5 DEF Explained, HasSuccessor, NextLedger
  <1>7. n \in Ledgers /\ ValidLedger(n) /\ Goes(n) /\ StateOutputs(tx) # {} /\ tx.outputs[1].value = ValueOf(n)
    BY <1>1, <1>4, <1>6, AcceptTakes DEF TradeInv
  <1>8. SealedAccepts(x, tx) /\ s.phase = "SEALED"
    BY <1>2, <1>3 DEF Takes, CovenantAccepts, OpenAccepts, RefundingAccepts
  <1>9. s.sold >= Config.minTickets /\ s.sold > 0
    BY <1>3, <1>5, <1>8, ConfigFacts DEF ValidLedger
  <1>10. SeenAs(s)
    BY <1>2, <1>3, ContractView DEF Takes
  <1>12. ValueOf(n) = ValueOf(s) /\ ValueOf(s) = Deposit + s.sold * Config.ticketPrice
    BY <1>3, <1>5, <1>6, <1>8, <1>9, Turned, ValueFacts
  <1>13. n.phase = "REFUNDING" /\ n.sold = s.sold /\ n.cursor = s.cursor /\ n.directory = s.directory
    BY <1>6 DEF Ledgers
  <1>14. PhaseNow' = "REFUNDING" /\ CursorNow' = s.cursor /\ Contract!Spendable(ValueOf(n))
    BY <1>7, <1>13, GoneOn
  <1>15. refunded' = refunded /\ prize' = prize /\ costs' = costs /\ ownerPaid' = ownerPaid
    <2>1. IsState(tx.outputs[1])
      BY <1>2, <1>6, StateOutputIsState DEF Takes, Follows
    <2>. QED
      <3>1. ValueOf(n) = ValueOf(x.ledger) /\ x.ledger.sold # 0
        BY <1>3, <1>5, <1>9, <1>12
      <3>. QED
        BY <1>2, <1>7, <2>1, <3>1, TurnMovesNothing
  <1>16. Contract!TimeoutRefund
    <2>1. /\ state'.ledger.sold = state.ledger.sold /\ daa' = daa /\ opening' = opening
          /\ state'.value = state.value /\ state'.utxoDaa = daa /\ Contract!Spendable(state.value)
      BY <1>2, <1>3, <1>7, <1>12, <1>13, <1>14 DEF Goes, Takes
    <2>2. [i \in 1..PurchaseCount(state.ledger) |-> EndAt(state.ledger, i)]'
            = [i \in 1..PurchaseCount(state.ledger) |-> EndAt(state.ledger, i)]
      BY <1>3, <1>7, <1>13 DEF Goes, PurchaseCount, EndAt
    <2>3. PhaseNow = "SEALED" /\ CursorNow' = CursorNow
      BY <1>8, <1>10, <1>14 DEF SeenAs
    <2>4. Contract!SealedLedger
      BY <1>2, <1>3, <1>9, <1>12, <2>3 DEF Contract!SealedLedger, Takes
    <2>5. Contract!AnchorInRange
      BY <1>2, <1>8 DEF Contract!AnchorInRange, SealedAccepts, Takes
    <2>6. Contract!Aged(TimeoutDelay)
      <3>1. tx.sequence >= TimeoutDelay /\ daa >= state.utxoDaa + tx.sequence
        BY <1>2, <1>8 DEF SealedAccepts, Takes, ConsensusAccepts
      <3>2. daa \in Nat /\ state.utxoDaa \in Nat /\ tx.sequence \in Nat
        BY <1>2, BoundFacts DEF Takes, Sound, TxType
      <3>3. daa >= state.utxoDaa + TimeoutDelay
        BY <3>1, <3>2, BoundFacts
      <3>. QED
        BY <3>3 DEF Contract!Aged
    <2>. QED
      BY <1>14, <1>15, <2>1, <2>2, <2>3, <2>4, <2>5, <2>6
         DEF Contract!TimeoutRefund, Contract!Successor, Contract!payouts
  <1>17. Books'
    BY <1>15 DEF TradeInv, Books
  <1>. QED
    BY <1>16, <1>17 DEF Contract!Next, Contract!Spend

(* The fee of an accepted transaction is one the contract's runs try.      *)
LEMMA FeeIsTried ==
    ASSUME NEW tx, TxType(tx), Offered(tx), NEW m, NEW x, CheckFee(x, tx, m)
    PROVE  /\ tx.fee \in {f \in 1..MaxPayFee : f \in Fees \/ f - 1 \in Fees}
           /\ Contract!NetworkFee(tx.fee)
  BY MoneyFacts DEF TxType, Offered, CheckFee, Contract!NetworkFee

LEMMA DrawIsDraw ==
    ASSUME TradeInv, NEW tx, TxType(tx), ChangeReturns(tx), Offered(tx), Accept(tx),
           tx.action = "DRAW_AND_PAY"
    PROVE  Contract!Next /\ Books'
  <1>1. PICK x : x = Snapshot
    OBVIOUS
  <1>2. Takes(x, tx)
    BY <1>1, AcceptTakes DEF TradeInv
  <1>3. PICK s \in Ledgers : s = x.ledger /\ ValidLedger(s) /\ s = state.ledger
    BY <1>2 DEF Takes, Sound
  <1>4. Explained(x, tx).ended
    BY DEF Explained, HasSuccessor
  <1>5. StateOutputs(tx) = {} /\ Ends(x, tx)
    BY <1>1, <1>4, AcceptTakes DEF TradeInv
  <1>6. SealedAccepts(x, tx) /\ s.phase = "SEALED"
    BY <1>2, <1>3 DEF Takes, CovenantAccepts, OpenAccepts, RefundingAccepts
  <1>7. /\ tx.sequence >= DrawDelay
        /\ tx.opening = x.opening /\ tx.opening # NoOpening
        /\ tx.opening < Limit(s.sold)
        /\ tx.hint \in 1..PurchaseCount(s)
        /\ HoldsTicket(s, tx.hint, tx.opening % s.sold)
        /\ Prize(s, tx.fee) >= MinPrice /\ Spendable(Prize(s, tx.fee))
        /\ Len(tx.outputs) = 3
        /\ tx.outputs[1] = KeyOutput(Prize(s, tx.fee), s.directory[tx.hint].key)
        /\ tx.outputs[2] = KeyOutput(Deposit, Owner)
        /\ tx.outputs[3] = KeyOutput(Finalizer, tx.actor)
        /\ CheckFee(x, tx, 3)
        /\ x.utxoDaa < DaaLimit - TimeoutDelay
    BY <1>3, <1>6 DEF SealedAccepts, Ordinary
  <1>8. SeenAs(s)
    BY <1>2, <1>3, ContractView DEF Takes
  <1>9. PhaseNow' = "PAID" /\ CursorNow' = s.cursor
    BY <1>2, <1>3, <1>5, LedgerFacts, GoneOut DEF Takes
  <1>10. Owners(s, tx) = Deposit
    BY <1>7 DEF Owners, KeyOutput
  <1>11. ValueOf(s) = Deposit + s.sold * s.config.ticketPrice /\ s.config = Config /\ s.sold \in Nat
    BY <1>3, <1>6, ValueFacts, LedgerFacts
  <1>12. PICK pot \in Nat : pot = s.sold * Config.ticketPrice /\ pot = Config.ticketPrice * s.sold
    BY <1>11, ConfigFacts
  <1>13. /\ Prize(s, tx.fee) = pot - Finalizer - tx.fee /\ Prize(s, tx.fee) \in Int
         /\ Contract!PrizeOf(tx.fee) = Prize(s, tx.fee) /\ state.value = Deposit + pot
    BY <1>2, <1>3, <1>11, <1>12, MoneyFacts DEF Prize, Contract!PrizeOf, TxType, Takes
  <1>14. /\ refunded' = refunded /\ prize' = [record |-> tx.hint, amount |-> Prize(s, tx.fee)]
         /\ ownerPaid' = ownerPaid + Deposit
         /\ costs' = costs + Finalizer + tx.fee
    <2>1. Settle(tx)
      BY DEF Accept
    <2>2. ownerPaid \in Int /\ costs \in Int /\ refunded \in [1..MaxPurchases -> Int]
      BY DEF TradeInv, Books
    <2>3. Kept(tx) = 0 /\ Won(tx) = Prize(s, tx.fee)
      BY <1>5, <1>7 DEF Kept, Won, KeyOutput
    <2>4. /\ refunded' = refunded /\ prize' = [record |-> tx.hint, amount |-> Prize(s, tx.fee)]
          /\ ownerPaid' = ownerPaid + Deposit
          /\ costs' = costs + (state.value - 0) - Deposit - Prize(s, tx.fee) - 0
      BY <1>3, <1>10, <2>1, <2>2, <2>3, NoRefunds
    <2>5. PICK p \in Int : p = Prize(s, tx.fee) /\ p = pot - Finalizer - tx.fee
      BY <1>13
    <2>6. costs' = costs + ((Deposit + pot) - 0) - Deposit - p - 0
      BY <1>13, <2>4, <2>5
    <2>7. costs' = costs + Finalizer + tx.fee
      BY <2>2, <2>5, <2>6, MoneyFacts, SMTT(30) DEF TxType
    <2>. QED
      BY <2>4, <2>7
  <1>15. Contract!DrawAndPay(tx.hint, tx.fee)
    <2>1. /\ state'.ledger = state.ledger /\ state'.value = 0 /\ state'.utxoDaa = state.utxoDaa
          /\ daa' = daa /\ opening' = opening
      BY <1>2, <1>5 DEF Ends, Takes
    <2>2. PhaseNow = "SEALED" /\ CursorNow' = CursorNow
      BY <1>6, <1>8, <1>9 DEF SeenAs
    <2>3. Contract!SealedLedger
      BY <1>3, <1>6, <1>11, <1>12, <1>13, <2>2 DEF Contract!SealedLedger, ValidLedger
    <2>4. Contract!AnchorInRange
      BY <1>2, <1>7 DEF Contract!AnchorInRange, Takes
    <2>5. Contract!Aged(DrawDelay)
      <3>1. daa >= state.utxoDaa + tx.sequence
        BY <1>2 DEF Takes, ConsensusAccepts
      <3>2. daa \in Nat /\ state.utxoDaa \in Nat /\ tx.sequence \in Nat
        BY <1>2, BoundFacts DEF Takes, Sound, TxType
      <3>3. daa >= state.utxoDaa + DrawDelay
        BY <1>7, <3>1, <3>2, BoundFacts
      <3>. QED
        BY <3>3 DEF Contract!Aged
    <2>6. opening # Contract!NoSample
      BY <1>2, <1>7 DEF Contract!NoSample, NoOpening, Takes
    <2>7. Contract!Drawable(opening, state.ledger.sold)
      BY <1>2, <1>3, <1>7 DEF Contract!Drawable, Contract!Limit, Limit, Takes
    <2>8. Contract!HoldsTicket(tx.hint, Contract!TicketOf(opening, state.ledger.sold))
      BY <1>2, <1>3, <1>7, <1>8 DEF SeenAs, Contract!TicketOf, Takes
    <2>9. Contract!NetworkFee(tx.fee)
      BY <1>7, FeeIsTried
    <2>10. Contract!PrizeOf(tx.fee) >= MinPrice /\ Contract!Spendable(Contract!PrizeOf(tx.fee))
      BY <1>7, <1>13 DEF Spendable, Contract!Spendable
    <2>. QED
      BY <1>9, <1>13, <1>14, <2>1, <2>2, <2>3, <2>4, <2>5, <2>6, <2>7, <2>8, <2>9, <2>10
         DEF Contract!DrawAndPay, Contract!Terminal
  <1>16. tx.hint \in 1..Contract!PurchaseCount
    BY <1>7, <1>8 DEF SeenAs
  <1>17. tx.fee \in {f \in 1..MaxPayFee : f \in Fees \/ f - 1 \in Fees}
    BY <1>7, FeeIsTried
  <1>18. Books'
    BY <1>14, MoneyFacts DEF TradeInv, Books, TxType
  <1>. QED
    BY <1>15, <1>16, <1>17, <1>18 DEF Contract!Next, Contract!Spend

(* A batch as both modules compute it: the k records after cursor c.       *)
BatchSeen(s, c, k) ==
    /\ k = RefundBatch(s).k /\ c = s.cursor
    /\ Contract!BatchSize = k
    /\ Contract!LastBatch <=> RefundBatch(s).last
    /\ Contract!BatchPool = RefundBatch(s).pool
    /\ Contract!Batch = (c + 1)..(c + k)
    /\ \A i \in (c + 1)..(c + k) :
          /\ Contract!RefundOf(i) = RefundAmount(s, i) /\ RefundAmount(s, i) \in Int
          /\ EndsOf(s)[i] > Contract!EndOf(EndsOf(s), i - 1)
    /\ Contract!BatchGross = (EndAt(s, c + k) - EndAt(s, c)) * Config.ticketPrice

LEMMA BatchView ==
    ASSUME NEW s \in Ledgers, ValidLedger(s), s = state.ledger, s.phase = "REFUNDING", ~Ended,
           NEW k \in Nat, k = RefundBatch(s).k, NEW c \in Nat, c = s.cursor
    PROVE  BatchSeen(s, c, k)
  <1>1. SeenAs(s) /\ EndsAre(s)
    BY ContractView, EndsView
  <1>2. PICK n \in Nat : n = PurchaseCount(s)
    BY <1>1 DEF SeenAs
  <1>3. c + k <= n /\ k > 0 /\ RefundBatch(s).last \in BOOLEAN /\ (RefundBatch(s).last <=> c + k = n)
    BY <1>2, BatchFacts
  <1>4. /\ CursorNow = c /\ Contract!PurchaseCount = n
        /\ Contract!PaidTickets = EndAt(s, c) /\ s.config = Config
    BY <1>1, <1>2, LedgerFacts DEF SeenAs, PaidTickets
  <1>5. Contract!BatchSize = k
    <2>1. k = IF n - c < MaxRefundRecords THEN n - c ELSE MaxRefundRecords
      BY <1>2 DEF RefundBatch
    <2>2. Contract!BatchSize = IF n - c > MaxRefundRecords THEN MaxRefundRecords ELSE n - c
      BY <1>4 DEF Contract!BatchSize
    <2>. QED
      BY <1>2, <2>1, <2>2, BoundFacts
  <1>6. Contract!LastBatch <=> RefundBatch(s).last
    BY <1>2, <1>3, <1>4, <1>5 DEF Contract!LastBatch
  <1>7. Contract!BatchPool = RefundBatch(s).pool
    <2>1. RefundBatch(s).pool = k * RefundFee + (IF RefundBatch(s).last THEN RefundFee ELSE 0)
      BY BatchFacts
    <2>2. Contract!BatchPool = k * RefundFee + (IF Contract!LastBatch THEN RefundFee ELSE 0)
      BY <1>5 DEF Contract!BatchPool
    <2>. QED
      BY <1>6, <2>1, <2>2
  <1>8. Contract!Batch = (c + 1)..(c + k)
    BY <1>4, <1>5 DEF Contract!Batch
  <1>9. ASSUME NEW i \in (c + 1)..(c + k)
        PROVE  /\ Contract!RefundOf(i) = RefundAmount(s, i) /\ RefundAmount(s, i) \in Int
               /\ EndsOf(s)[i] > Contract!EndOf(EndsOf(s), i - 1)
    <2>1. i \in 1..n /\ i - 1 \in 0..n /\ i \in 0..n
      BY <1>2, <1>3
    <2>2. PICK a \in Nat, b \in Nat : a = EndAt(s, i) /\ b = EndAt(s, i - 1)
      BY <1>1, <1>2, <2>1 DEF EndsAre
    <2>3. EndsOf(s)[i] = a /\ Contract!EndOf(EndsOf(s), i - 1) = b
      BY <1>1, <1>2, <2>1, <2>2 DEF EndsAre
    <2>4. CountAt(s, i) = a - b /\ CountAt(s, i) > 0
      BY <1>2, <2>1, <2>2 DEF CountAt, ValidLedger
    <2>5. RefundAmount(s, i) = (a - b) * Config.ticketPrice - RefundFee
      BY <1>4, <2>4 DEF RefundAmount
    <2>6. Contract!RefundOf(i) = (a - b) * Config.ticketPrice - RefundFee
      BY <2>3 DEF Contract!RefundOf, Contract!TicketsOf, EndsOf
    <2>7. (a - b) * Config.ticketPrice \in Int
      BY <2>2, ConfigFacts
    <2>. QED
      BY <2>2, <2>3, <2>4, <2>5, <2>6, <2>7, MoneyFacts
  <1>10. Contract!BatchGross = (EndAt(s, c + k) - EndAt(s, c)) * Config.ticketPrice
    <2>1. c + k \in 0..n
      BY <1>2, <1>3
    <2>2. Contract!EndOf(EndsOf(s), c + k) = EndAt(s, c + k)
      BY <1>1, <1>2, <2>1 DEF EndsAre
    <2>. QED
      BY <1>4, <1>5, <2>2 DEF Contract!BatchGross, EndsOf
  <1>. QED
    BY <1>5, <1>6, <1>7, <1>8, <1>9, <1>10 DEF BatchSeen

(* The refunds of a batch are its tickets' price, less a fee for each.     *)
LEMMA BatchSum ==
    ASSUME NEW s \in Ledgers, ValidLedger(s), NEW k \in Nat, NEW c \in Nat, c + k <= PurchaseCount(s),
           NEW R, \A i \in 1..MaxPurchases :
                     R[i] = IF i \in (c + 1)..(c + k) THEN RefundAmount(s, i) ELSE 0
    PROVE  SumOver(R, 1..MaxPurchases)
             = (EndAt(s, c + k) - EndAt(s, c)) * Config.ticketPrice - k * RefundFee
  <1>1. PICK n \in Nat : n = PurchaseCount(s) /\ c + k <= n /\ n <= MaxPurchases
    BY LedgerFacts, ConfigFacts DEF ValidLedger
  <1>2. PICK price \in Nat, charge \in Nat : price = Config.ticketPrice /\ charge = RefundFee
    BY ConfigFacts, MoneyFacts
  <1>3. MaxPurchases \in Nat
    BY ConfigFacts
  <1>4. \A i \in 0..n : EndAt(s, i) \in Nat
    BY <1>1, LedgerFacts
  <1>. DEFINE Reached(i) == IF i <= c THEN c ELSE IF i <= c + k THEN i ELSE c + k
              Paid(i) == EndAt(s, Reached(i)) * price - Reached(i) * charge
              P == [i \in 0..MaxPurchases |-> Paid(i)]
  <1>5. ASSUME NEW i \in 0..MaxPurchases PROVE Paid(i) \in Int /\ P[i] = Paid(i) /\ Reached(i) \in 0..n
    <2>1. Reached(i) \in 0..n
      BY <1>1
    <2>. HIDE DEF Reached
    <2>2. PICK r \in 0..n : r = Reached(i)
      BY <2>1
    <2>3. PICK e \in Nat : e = EndAt(s, r)
      BY <1>4
    <2>4. e * price \in Int /\ r * charge \in Int
      OBVIOUS
    <2>. QED
      BY <2>2, <2>3, <2>4
  <1>6. ASSUME NEW i \in 1..MaxPurchases PROVE R[i] = P[i] - P[i - 1]
    <2>1. i \in 0..MaxPurchases /\ i - 1 \in 0..MaxPurchases
      BY <1>3
    <2>2. P[i] = Paid(i) /\ P[i - 1] = Paid(i - 1) /\ Paid(i) \in Int /\ Paid(i - 1) \in Int
      BY <1>5, <2>1
    <2>3. CASE i \in (c + 1)..(c + k)
      <3>1. Reached(i) = i /\ Reached(i - 1) = i - 1 /\ i \in 0..n /\ i - 1 \in 0..n
        BY <1>1, <2>3
      <3>2. PICK a \in Nat, b \in Nat : a = EndAt(s, i) /\ b = EndAt(s, i - 1)
        BY <1>4, <3>1
      <3>3. R[i] = (a - b) * price - charge
        BY <1>2, <2>3, <3>2, LedgerFacts DEF RefundAmount, CountAt
      <3>4. (a - b) * price = a * price - b * price /\ a * price \in Int /\ b * price \in Int
        BY <3>2, Distribute
      <3>5. i * charge = (i - 1) * charge + charge /\ i * charge \in Int /\ (i - 1) * charge \in Int
        BY <2>3
      <3>6. Paid(i) = a * price - i * charge /\ Paid(i - 1) = b * price - (i - 1) * charge
        BY <3>1, <3>2
      <3>7. PICK x \in Int, y \in Int, z \in Int : x = a * price /\ y = b * price /\ z = (i - 1) * charge
        BY <3>4, <3>5
      <3>8. R[i] = (x - y) - charge /\ Paid(i) = x - (z + charge) /\ Paid(i - 1) = y - z
        BY <3>3, <3>4, <3>5, <3>6, <3>7
      <3>9. R[i] = Paid(i) - Paid(i - 1)
        <4>. HIDE DEF Paid
        <4>. QED
          BY <3>7, <3>8
      <3>. HIDE DEF Paid, P
      <3>. QED
        BY <2>2, <3>9
    <2>4. CASE i \notin (c + 1)..(c + k)
      <3>1. Reached(i) = Reached(i - 1)
        BY <2>4
      <3>2. R[i] = 0
        BY <2>4
      <3>3. Paid(i) = Paid(i - 1)
        <4>. HIDE DEF Reached
        <4>. QED
          BY <3>1
      <3>. HIDE DEF Paid, P
      <3>. QED
        BY <2>2, <3>2, <3>3
    <2>. QED
      BY <2>3, <2>4
  <1>7. SumOver(R, 1..MaxPurchases) = P[MaxPurchases] - P[0]
    <2>1. \A i \in 0..MaxPurchases : P[i] \in Int
      BY <1>5
    <2>. HIDE DEF P
    <2>. QED
      BY <1>3, <1>6, <2>1, Telescope, SMTT(30)
  <1>8. P[0] = Paid(0) /\ P[MaxPurchases] = Paid(MaxPurchases)
    BY <1>3
  <1>9. Reached(0) = c /\ Reached(MaxPurchases) = c + k
    BY <1>1, <1>3
  <1>10. PICK a \in Nat, b \in Nat : a = EndAt(s, c + k) /\ b = EndAt(s, c)
    <2>1. c \in 0..n /\ c + k \in 0..n
      BY <1>1
    <2>. QED
      BY <1>4, <2>1
  <1>11. Paid(0) = b * price - c * charge /\ Paid(MaxPurchases) = a * price - (c + k) * charge
    <2>. HIDE DEF Reached
    <2>. QED
      BY <1>9, <1>10
  <1>12. (a - b) * price = a * price - b * price /\ a * price \in Int /\ b * price \in Int
    BY <1>10, Distribute
  <1>13. (c + k) * charge = c * charge + k * charge /\ c * charge \in Int /\ k * charge \in Int
    BY Distribute
  <1>14. PICK x \in Int, y \in Int, u \in Int, v \in Int :
            x = a * price /\ y = b * price /\ u = c * charge /\ v = k * charge
    BY <1>12, <1>13
  <1>15. SumOver(R, 1..MaxPurchases) = (x - (u + v)) - (y - u)
    <2>. HIDE DEF Paid, P
    <2>. QED
      BY <1>7, <1>8, <1>11, <1>13, <1>14
  <1>16. (EndAt(s, c + k) - EndAt(s, c)) * Config.ticketPrice - k * RefundFee = (x - y) - v
    BY <1>2, <1>10, <1>12, <1>14
  <1>17. (x - (u + v)) - (y - u) = (x - y) - v
    BY <1>14
  <1>. QED
    BY <1>15, <1>16, <1>17

(* The owner's place is in the last batch only.                            *)
LEMMA OwnerOfRefund ==
    ASSUME NEW s \in Ledgers, NEW tx, tx.action = "REFUND",
           NEW k \in Nat, NEW first \in {0, 1}, RefundOutputs(s, tx, k, first)
    PROVE  /\ first = 0 => Owners(s, tx) = Deposit - RefundFee
           /\ first = 1 => Owners(s, tx) = 0
  <1>1. k = RefundBatch(s).k /\ (first = 0 <=> RefundBatch(s).last)
    BY DEF RefundOutputs
  <1>2. first = 0 => tx.outputs[k + 1].value = Deposit - RefundFee
    BY DEF RefundOutputs, KeyOutput
  <1>. QED
    BY <1>1, <1>2 DEF Owners

(* What a batch leaves in the state UTXO: nothing, or what its records had *)
(* not paid for.                                                           *)
Leaves(s, tx, k, first) ==
    \/ first = 0 /\ Kept(tx) = 0 /\ EndAt(s, s.cursor + k) = s.sold
    \/ /\ first = 1
       /\ Kept(tx) = ValueOf(s)
            - (EndAt(s, s.cursor + k) - EndAt(s, s.cursor)) * Config.ticketPrice

(* The books after a batch.                                                *)
BooksOfBatch(s, k, first) ==
    /\ refunded' = [i \in 1..MaxPurchases |->
                      refunded[i] + (IF i \in (s.cursor + 1)..(s.cursor + k)
                                     THEN RefundAmount(s, i) ELSE 0)]
    /\ prize' = prize
    /\ ownerPaid' = ownerPaid + (IF first = 0 THEN Deposit - RefundFee ELSE 0)
    /\ costs' = costs + RefundBatch(s).pool

LEMMA BatchIsBooked ==
    ASSUME Books, NEW s \in Ledgers, ValidLedger(s), s = state.ledger, s.phase = "REFUNDING",
           state.value = ValueOf(s),
           NEW tx, TxType(tx), ChangeReturns(tx), tx.action = "REFUND", Settle(tx),
           NEW k \in Nat, NEW first \in {0, 1}, RefundOutputs(s, tx, k, first),
           Leaves(s, tx, k, first)
    PROVE  BooksOfBatch(s, k, first)
  <1>1. PICK c \in Nat : c = s.cursor
    BY LedgerFacts
  <1>2. k = RefundBatch(s).k /\ c + k <= PurchaseCount(s)
        /\ first = (IF RefundBatch(s).last THEN 0 ELSE 1)
    BY <1>1, BatchFacts DEF RefundOutputs
  <1>3. PICK R : R = Returned(s, tx)
    OBVIOUS
  <1>4. \A i \in 1..MaxPurchases :
           R[i] = IF i \in (c + 1)..(c + k) THEN RefundAmount(s, i) ELSE 0
    <2>. SUFFICES ASSUME NEW i \in 1..MaxPurchases
                  PROVE  R[i] = IF i \in (c + 1)..(c + k) THEN RefundAmount(s, i) ELSE 0
      OBVIOUS
    <2>1. R[i] = IF i \in (c + 1)..(c + k) THEN tx.outputs[first + i - c].value ELSE 0
      BY <1>1, <1>2, <1>3 DEF Returned
    <2>2. ASSUME i \in (c + 1)..(c + k) PROVE tx.outputs[first + i - c].value = RefundAmount(s, i)
      <3>1. PICK r \in 1..k : r = i - c
        BY <2>2
      <3>2. first + i - c = first + r /\ c + r = i
        BY <3>1
      <3>3. tx.outputs[first + r] = KeyOutput(RefundAmount(s, c + r), s.directory[c + r].key)
        BY <1>1 DEF RefundOutputs
      <3>. QED
        BY <3>2, <3>3 DEF KeyOutput
    <2>. QED
      BY <2>1, <2>2
  <1>5. /\ refunded' = [i \in 1..MaxPurchases |-> refunded[i] + R[i]]
        /\ prize' = prize
        /\ ownerPaid' = ownerPaid + Owners(s, tx)
        /\ costs' = costs + (ValueOf(s) - Kept(tx)) - Owners(s, tx) - 0
                      - SumOver(R, 1..MaxPurchases)
    <2>1. Won(tx) = 0
      BY DEF Won
    <2>. QED
      BY <1>3, <2>1, SettleParts
  <1>6. refunded' = [i \in 1..MaxPurchases |->
                       refunded[i] + (IF i \in (c + 1)..(c + k) THEN RefundAmount(s, i) ELSE 0)]
    BY <1>4, <1>5
  <1>7. /\ first = 0 => Owners(s, tx) = Deposit - RefundFee
        /\ first = 1 => Owners(s, tx) = 0
    BY <1>1, <1>2, OwnerOfRefund
  <1>8. SumOver(R, 1..MaxPurchases)
          = (EndAt(s, c + k) - EndAt(s, c)) * Config.ticketPrice - k * RefundFee
    BY <1>2, <1>4, BatchSum
  <1>9. PICK a \in Nat, b \in Nat, p \in Nat, n \in Nat :
           a = EndAt(s, c + k) /\ b = EndAt(s, c) /\ p = Config.ticketPrice /\ n = s.sold
    <2>1. c \in 0..PurchaseCount(s) /\ c + k \in 0..PurchaseCount(s)
      BY <1>2, LedgerFacts
    <2>. QED
      BY <2>1, LedgerFacts, ConfigFacts
  <1>10. ValueOf(s) = Deposit + (n - b) * p
    BY <1>1, <1>9, LedgerFacts DEF ValueOf, PaidTickets
  <1>11. PICK g \in Int, h \in Int, f \in Int : g = (a - b) * p /\ h = (n - b) * p /\ f = k * RefundFee
    <2>1. (a - b) * p \in Int /\ (n - b) * p \in Int /\ k * RefundFee \in Int
      BY <1>9, MoneyFacts
    <2>. QED
      BY <2>1
  <1>12. RefundBatch(s).pool = f + (IF first = 0 THEN RefundFee ELSE 0)
    BY <1>2, <1>11, BatchFacts
  <1>13. costs \in Int /\ ownerPaid \in Int
    BY DEF Books
  <1>14. costs' = costs + RefundBatch(s).pool
    <2>1. CASE first = 0
      <3>1. Kept(tx) = 0 /\ a = n /\ h = g
        BY <1>1, <1>9, <1>11, <2>1 DEF Leaves
      <3>2. costs' = costs + ((Deposit + g) - 0) - (Deposit - RefundFee) - 0 - (g - f)
        BY <1>5, <1>7, <1>8, <1>9, <1>10, <1>11, <2>1, <3>1
      <3>3. RefundBatch(s).pool = f + RefundFee
        BY <1>12, <2>1
      <3>. QED
        BY <1>11, <1>13, <3>2, <3>3, MoneyFacts
    <2>2. CASE first = 1
      <3>1. Kept(tx) = ValueOf(s) - g
        BY <1>1, <1>9, <1>11, <2>2 DEF Leaves
      <3>2. costs' = costs + ((Deposit + h) - ((Deposit + h) - g)) - 0 - 0 - (g - f)
        BY <1>5, <1>7, <1>8, <1>9, <1>10, <1>11, <2>2, <3>1
      <3>3. RefundBatch(s).pool = f + 0
        BY <1>12, <2>2
      <3>. QED
        BY <1>11, <1>13, <3>2, <3>3, MoneyFacts
    <2>. QED
      BY <2>1, <2>2
  <1>15. ownerPaid' = ownerPaid + (IF first = 0 THEN Deposit - RefundFee ELSE 0)
    BY <1>5, <1>7
  <1>. QED
    BY <1>1, <1>5, <1>6, <1>14, <1>15 DEF BooksOfBatch

LEMMA RefundIsRefund ==
    ASSUME TradeInv, NEW tx, TxType(tx), ChangeReturns(tx), Offered(tx), Accept(tx),
           tx.action = "REFUND"
    PROVE  Contract!Next /\ Books'
  <1>1. PICK x : x = Snapshot
    OBVIOUS
  <1>2. Takes(x, tx)
    BY <1>1, AcceptTakes DEF TradeInv
  <1>3. PICK s \in Ledgers : s = x.ledger /\ ValidLedger(s) /\ s = state.ledger
    BY <1>2 DEF Takes, Sound
  <1>4. RefundingAccepts(x, tx) /\ s.phase = "REFUNDING"
    BY <1>2, <1>3 DEF Takes, CovenantAccepts, OpenAccepts, SealedAccepts
  <1>5. PICK k \in Nat, first \in {0, 1} : RefundOutputs(s, tx, k, first)
    BY <1>2, <1>3, <1>4, RefundOutputsAre DEF Takes
  <1>6. PICK c \in Nat : c = s.cursor
    BY <1>3, LedgerFacts
  <1>7. PICK last0 \in BOOLEAN : last0 = RefundBatch(s).last
    BY <1>3, <1>4, BatchFacts
  <1>8. /\ k = RefundBatch(s).k /\ first = (IF last0 THEN 0 ELSE 1)
        /\ c + k <= PurchaseCount(s) /\ k > 0 /\ (last0 <=> c + k = PurchaseCount(s))
        /\ PurchaseCount(s) \in Nat
    BY <1>3, <1>4, <1>5, <1>6, <1>7, BatchFacts, LedgerFacts DEF RefundOutputs
  <1>9. SeenAs(s) /\ EndsAre(s) /\ BatchSeen(s, c, k)
    BY <1>2, <1>3, <1>4, <1>6, <1>8, ContractView, EndsView, BatchView DEF Takes
  <1>10. Contract!RefundingLedger
    <2>1. s.cursor < PurchaseCount(s) /\ state.value = Deposit + (s.sold - PaidTickets(s)) * Config.ticketPrice
      BY <1>2, <1>3, <1>4, LedgerFacts DEF RefundingAccepts, ValueOf, Takes
    <2>. QED
      BY <1>3, <1>4, <1>9, <2>1 DEF Contract!RefundingLedger, SeenAs
  <1>11. /\ tx.fee \in {f \in 1..MaxPayFee : f \in Fees \/ f - 1 \in Fees}
         /\ Contract!NetworkFee(tx.fee)
    BY <1>4, FeeIsTried DEF RefundingAccepts
  <1>12. \A i \in Contract!Batch :
            /\ EndsOf(s)[i] > Contract!EndOf(EndsOf(s), i - 1)
            /\ Contract!Spendable(Contract!RefundOf(i))
    <2>. SUFFICES ASSUME NEW i \in (c + 1)..(c + k)
                  PROVE  /\ EndsOf(s)[i] > Contract!EndOf(EndsOf(s), i - 1)
                         /\ Contract!Spendable(Contract!RefundOf(i))
      BY <1>9 DEF BatchSeen
    <2>1. PICK r \in 1..k : i = c + r
      <3>1. i - c \in 1..k /\ i = c + (i - c)
        OBVIOUS
      <3>. QED
        BY <3>1
    <2>2. Spendable(RefundAmount(s, i))
      BY <1>3, <1>4, <1>6, <1>8, <2>1 DEF RefundingAccepts, Ordinary
    <2>3. /\ Contract!RefundOf(i) = RefundAmount(s, i)
          /\ EndsOf(s)[i] > Contract!EndOf(EndsOf(s), i - 1)
      BY <1>9 DEF BatchSeen
    <2>. QED
      BY <2>2, <2>3 DEF Spendable, Contract!Spendable
  <1>13. Contract!Spendable(tx.external + Contract!BatchPool - tx.fee)
    <2>1. Spendable(tx.external + RefundBatch(s).pool - tx.fee)
      BY <1>3, <1>4 DEF RefundingAccepts, Ordinary
    <2>. QED
      BY <1>9, <2>1 DEF Spendable, Contract!Spendable, BatchSeen
  <1>14. ASSUME Leaves(s, tx, k, first)
         PROVE  /\ Books'
                /\ refunded' = [i \in 1..MaxPurchases |->
                      refunded[i] + (IF i \in Contract!Batch THEN Contract!RefundOf(i) ELSE 0)]
                /\ costs' = costs + Contract!BatchPool /\ prize' = prize
                /\ ownerPaid' = ownerPaid + (IF first = 0 THEN Deposit - RefundFee ELSE 0)
    <2>1. BooksOfBatch(s, k, first)
      BY <1>2, <1>3, <1>4, <1>5, <1>14, BatchIsBooked DEF TradeInv, Accept, Takes
    <2>2. \A i \in (c + 1)..(c + k) : Contract!RefundOf(i) = RefundAmount(s, i) /\ RefundAmount(s, i) \in Int
      BY <1>9 DEF BatchSeen
    <2>3. Contract!BatchPool = RefundBatch(s).pool /\ Contract!Batch = (c + 1)..(c + k)
      BY <1>9 DEF BatchSeen
    <2>4. refunded' = [i \in 1..MaxPurchases |->
                         refunded[i] + (IF i \in (c + 1)..(c + k) THEN RefundAmount(s, i) ELSE 0)]
      BY <1>6, <2>1 DEF BooksOfBatch
    <2>5. \A i : (IF i \in Contract!Batch THEN Contract!RefundOf(i) ELSE 0)
                   = (IF i \in (c + 1)..(c + k) THEN RefundAmount(s, i) ELSE 0)
      BY <2>2, <2>3
    <2>6. refunded' = [i \in 1..MaxPurchases |->
                         refunded[i] + (IF i \in Contract!Batch THEN Contract!RefundOf(i) ELSE 0)]
      BY <2>4, <2>5
    <2>7. /\ costs' = costs + RefundBatch(s).pool /\ prize' = prize
          /\ ownerPaid' = ownerPaid + (IF first = 0 THEN Deposit - RefundFee ELSE 0)
      BY <2>1 DEF BooksOfBatch
    <2>8. RefundBatch(s).pool \in Nat
      BY <1>3, <1>4, BatchFacts
    <2>9. refunded' \in [1..MaxPurchases -> Int]
      <3>1. \A i \in 1..MaxPurchases :
               refunded[i] + (IF i \in (c + 1)..(c + k) THEN RefundAmount(s, i) ELSE 0) \in Int
        BY <2>2 DEF TradeInv, Books
      <3>. QED
        BY <2>4, <3>1
    <2>10. Books'
      BY <2>7, <2>8, <2>9, MoneyFacts DEF TradeInv, Books
    <2>. QED
      BY <2>3, <2>6, <2>7, <2>10
  <1>15. CASE last0
    <2>1. Explained(x, tx).ended
      <3>1. PICK op : op = [action |-> tx.action, actor |-> tx.actor, quantity |-> tx.quantity]
        OBVIOUS
      <3>2. op.action = "REFUND" /\ RefundBatch(s).last
        BY <1>7, <1>15, <3>1
      <3>3. ~HasSuccessor(s, op)
        BY <3>2 DEF HasSuccessor
      <3>4. Explained(x, tx).ended = ~HasSuccessor(s, op)
        BY <1>3, <3>1 DEF Explained
      <3>. QED
        BY <3>3, <3>4
    <2>2. StateOutputs(tx) = {} /\ Ends(x, tx)
      BY <1>1, <2>1, AcceptTakes DEF TradeInv
    <2>3. /\ EndAt(s, c + k) = s.sold /\ Spendable(Deposit - RefundFee) /\ first = 0
      BY <1>3, <1>4, <1>6, <1>7, <1>8, <1>15 DEF RefundingAccepts, Ordinary
    <2>4. Leaves(s, tx, k, first)
      BY <1>6, <2>2, <2>3 DEF Leaves, Kept
    <2>5. PhaseNow' = "REFUNDED" /\ CursorNow' = c + k
      BY <1>2, <1>3, <1>6, <1>8, <1>15, <2>2, GoneOut DEF Takes
    <2>6. /\ state'.ledger = state.ledger /\ state'.value = 0 /\ state'.utxoDaa = state.utxoDaa
          /\ daa' = daa /\ opening' = opening
      BY <1>2, <2>2 DEF Ends, Takes
    <2>7. Contract!EndOf(EndsOf(s), c + k) = s.sold
      <3>1. c + k \in 0..PurchaseCount(s)
        BY <1>8
      <3>. QED
        BY <1>9, <2>3, <3>1 DEF EndsAre
    <2>8. /\ CursorNow = c /\ Contract!BatchSize = k /\ Contract!LastBatch
      BY <1>6, <1>7, <1>9, <1>15 DEF SeenAs, BatchSeen
    <2>9. Contract!Refund(tx.external, tx.fee)
      <3>1. Contract!Spendable(Deposit - RefundFee)
        BY <2>3 DEF Spendable, Contract!Spendable
      <3>2. ownerPaid' = ownerPaid + (Deposit - RefundFee)
        BY <1>14, <2>3, <2>4
      <3>3. /\ refunded' = [i \in 1..MaxPurchases |->
                      refunded[i] + (IF i \in Contract!Batch THEN Contract!RefundOf(i) ELSE 0)]
            /\ costs' = costs + Contract!BatchPool /\ prize' = prize
        BY <1>14, <2>4
      <3>4. CursorNow' = CursorNow + Contract!BatchSize
        BY <2>5, <2>8
      <3>5. Contract!EndOf([i \in 1..PurchaseCount(state.ledger) |-> EndAt(state.ledger, i)],
                           CursorNow + Contract!BatchSize) = state.ledger.sold
        BY <1>3, <2>7, <2>8 DEF EndsOf
      <3>6. \A i \in Contract!Batch :
              /\ [j \in 1..PurchaseCount(state.ledger) |-> EndAt(state.ledger, j)][i]
                   > Contract!EndOf([j \in 1..PurchaseCount(state.ledger) |-> EndAt(state.ledger, j)], i - 1)
              /\ Contract!Spendable(Contract!RefundOf(i))
        BY <1>3, <1>12 DEF EndsOf
      <3>. QED
        BY <1>10, <1>11, <1>13, <2>5, <2>6, <2>8, <3>1, <3>2, <3>3, <3>4, <3>5, <3>6
           DEF Contract!Refund, Contract!Terminal
    <2>. QED
      BY <1>11, <1>14, <2>4, <2>9 DEF Contract!Next, Contract!Spend, Offered
  <1>16. CASE ~last0
    <2>1. PICK n : n = Explained(x, tx).next
      OBVIOUS
    <2>2. ~Explained(x, tx).ended /\ n = [s EXCEPT !.cursor = @ + RefundBatch(s).k]
      BY <1>3, <1>7, <1>16, <2>1 DEF Explained, HasSuccessor, NextLedger
    <2>3. /\ n \in Ledgers /\ ValidLedger(n) /\ Goes(n)
          /\ StateOutputs(tx) # {} /\ tx.outputs[1].value = ValueOf(n)
      BY <1>1, <2>1, <2>2, AcceptTakes DEF TradeInv
    <2>4. ValueOf(n) = ValueOf(s) - (EndAt(s, c + k) - EndAt(s, c)) * Config.ticketPrice
      BY <1>3, <1>4, <1>6, <1>7, <1>8, <1>16, <2>2, Refunded, LedgerFacts DEF PaidTickets
    <2>5. n.phase = "REFUNDING" /\ n.sold = s.sold /\ n.cursor = c + k /\ n.directory = s.directory
      BY <1>4, <1>6, <1>8, <2>2 DEF Ledgers
    <2>6. Leaves(s, tx, k, first)
      BY <1>6, <1>8, <1>16, <2>3, <2>4 DEF Leaves, Kept
    <2>7. PhaseNow' = "REFUNDING" /\ CursorNow' = c + k /\ Contract!Spendable(ValueOf(n))
      BY <2>3, <2>5, GoneOn
    <2>8. /\ CursorNow = c /\ Contract!BatchSize = k /\ ~Contract!LastBatch
          /\ Contract!BatchGross = (EndAt(s, c + k) - EndAt(s, c)) * Config.ticketPrice
          /\ PhaseNow = "REFUNDING"
      BY <1>4, <1>6, <1>7, <1>9, <1>16 DEF SeenAs, BatchSeen
    <2>9. Contract!Refund(tx.external, tx.fee)
      <3>1. Contract!Successor(state.value - Contract!BatchGross)
        <4>1. state'.value = state.value - Contract!BatchGross /\ state'.utxoDaa = daa
              /\ ValueOf(n) = state.value - Contract!BatchGross
          BY <1>2, <1>3, <2>3, <2>4, <2>8 DEF Goes, Takes
        <4>. QED
          BY <2>7, <4>1 DEF Contract!Successor
      <3>2. ownerPaid' = ownerPaid
        BY <1>8, <1>14, <1>16, <2>6 DEF TradeInv, Books
      <3>3. /\ refunded' = [i \in 1..MaxPurchases |->
                      refunded[i] + (IF i \in Contract!Batch THEN Contract!RefundOf(i) ELSE 0)]
            /\ costs' = costs + Contract!BatchPool /\ prize' = prize
        BY <1>14, <2>6
      <3>4. CursorNow' = CursorNow + Contract!BatchSize /\ PhaseNow' = PhaseNow
        BY <2>7, <2>8
      <3>5. /\ state'.ledger.sold = state.ledger.sold /\ daa' = daa /\ opening' = opening
        BY <1>2, <1>3, <2>3, <2>5 DEF Goes, Takes
      <3>6. [i \in 1..PurchaseCount(state.ledger) |-> EndAt(state.ledger, i)]'
              = [i \in 1..PurchaseCount(state.ledger) |-> EndAt(state.ledger, i)]
        BY <1>3, <2>3, <2>5 DEF Goes, PurchaseCount, EndAt
      <3>7. \A i \in Contract!Batch :
              /\ [j \in 1..PurchaseCount(state.ledger) |-> EndAt(state.ledger, j)][i]
                   > Contract!EndOf([j \in 1..PurchaseCount(state.ledger) |-> EndAt(state.ledger, j)], i - 1)
              /\ Contract!Spendable(Contract!RefundOf(i))
        BY <1>3, <1>12 DEF EndsOf
      <3>. QED
        BY <1>10, <1>11, <1>13, <2>8, <3>1, <3>2, <3>3, <3>4, <3>5, <3>6, <3>7
           DEF Contract!Refund
    <2>. QED
      BY <1>11, <1>14, <2>6, <2>9 DEF Contract!Next, Contract!Spend, Offered
  <1>. QED
    BY <1>15, <1>16

(* Every accepted transaction is a step of the contract.                   *)
LEMMA AcceptIsSpend ==
    ASSUME TradeInv, NEW tx, TxType(tx), ChangeReturns(tx), Offered(tx), Accept(tx)
    PROVE  Contract!Next /\ Books'
  <1>1. tx.action \in {"BUY", "CLOSE", "DRAW_AND_PAY", "TIMEOUT_REFUND", "REFUND"}
    BY DEF TxType, Actions
  <1>. QED
    BY <1>1, BuyIsBuy, EmptyIsEmpty, CloseIsClose, DrawIsDraw, TimeoutIsTimeout, RefundIsRefund

(* So is a tick; what clients do among themselves is none.                 *)
LEMMA TickIsTick ==
    ASSUME TradeInv, Tick
    PROVE  Contract!Next /\ Books'
  <1>1. /\ state' = state /\ last' = last /\ refunded' = refunded /\ prize' = prize
        /\ ownerPaid' = ownerPaid /\ costs' = costs /\ daa < MaxDaa /\ daa' = daa + 1
    BY DEF Tick
  <1>2. daa < DaaLimit
    <2>1. daa \in Nat
      BY BoundFacts DEF TradeInv, NetInv, Describes, Snapshot
    <2>. QED
      BY <1>1, <2>1, BoundFacts
  <1>3. PhaseNow = "SEALED" <=> ~Ended /\ state.ledger.phase = "SEALED"
    BY DEF PhaseNow
  <1>4. IF PhaseNow = "SEALED" /\ opening = Contract!NoSample /\ daa + 1 >= state.utxoDaa + DrawDelay
        THEN opening' \in Contract!Samples ELSE opening' = opening
    BY <1>3 DEF Tick, NoOpening, Samples, Contract!NoSample, Contract!Samples
  <1>5. PhaseNow' = PhaseNow /\ CursorNow' = CursorNow
    BY <1>1 DEF PhaseNow, CursorNow, Ended
  <1>6. [i \in 1..PurchaseCount(state.ledger) |-> EndAt(state.ledger, i)]'
          = [i \in 1..PurchaseCount(state.ledger) |-> EndAt(state.ledger, i)]
    BY <1>1
  <1>7. Contract!Tick
    BY <1>1, <1>2, <1>4, <1>5, <1>6 DEF Contract!Tick, Contract!ledger, Contract!payouts
  <1>8. Books'
    BY <1>1 DEF TradeInv, Books
  <1>. QED
    BY <1>7, <1>8 DEF Contract!Next

LEMMA ContractRests ==
    ASSUME UNCHANGED <<daa, chain>>
    PROVE  UNCHANGED Contract!vars /\ (Books => Books')
  <1>1. /\ state' = state /\ last' = last /\ refunded' = refunded /\ prize' = prize
        /\ ownerPaid' = ownerPaid /\ costs' = costs /\ daa' = daa /\ opening' = opening
    BY DEF chain
  <1>2. PhaseNow' = PhaseNow /\ CursorNow' = CursorNow
    BY <1>1 DEF PhaseNow, CursorNow, Ended
  <1>3. [i \in 1..PurchaseCount(state.ledger) |-> EndAt(state.ledger, i)]'
          = [i \in 1..PurchaseCount(state.ledger) |-> EndAt(state.ledger, i)]
    BY <1>1
  <1>. QED
    BY <1>1, <1>2, <1>3 DEF Contract!vars, Books

LEMMA TradeBegins == Init => TradeInv /\ Contract!Init
  <1>. SUFFICES ASSUME Init PROVE TradeInv /\ Contract!Init
    OBVIOUS
  <1>1. NetInv
    BY InitHolds
  <1>2. \A c \in Clients : sent[c] # NoTx => Offered(sent[c])
    BY DEF Init
  <1>3. Books
    BY DEF Init, Books
  <1>4. state.ledger.phase = "OPEN" /\ state.ledger.sold = 0 /\ state.ledger.cursor = 0
        /\ state.ledger.directory = <<>> /\ state.value = Deposit /\ state.utxoDaa = 1
    BY DEF Init, NewOpen
  <1>5. PhaseNow = "OPEN" /\ CursorNow = 0
    BY <1>4, MoneyFacts DEF PhaseNow, CursorNow, Ended
  <1>6. [i \in 1..PurchaseCount(state.ledger) |-> EndAt(state.ledger, i)] = <<>>
    BY <1>4 DEF PurchaseCount
  <1>7. Contract!Init
    BY <1>4, <1>5, <1>6 DEF Init, Contract!Init, Contract!NoSample, NoOpening
  <1>. QED
    BY <1>1, <1>2, <1>3, <1>7 DEF TradeInv

LEMMA TradeGoesOn == TradeInv /\ [Next]_vars => TradeInv' /\ [Contract!Next]_(Contract!vars)
  <1>. SUFFICES ASSUME TradeInv, [Next]_vars
                PROVE  TradeInv' /\ [Contract!Next]_(Contract!vars)
    OBVIOUS
  <1>1. NetInv'
    BY StepsHold DEF TradeInv
  <1>2. ASSUME \A c \in Clients : sent'[c] # NoTx => Offered(sent'[c]), Books'
        PROVE  TradeInv'
    BY <1>1, <1>2 DEF TradeInv
  <1>3. sent = [c \in Clients |-> sent[c]]
    BY DEF TradeInv, NetInv, Shaped
  <1>4. ASSUME NEW c \in Clients, Observe(c) \/ Drop(c)
        PROVE  TradeInv' /\ [Contract!Next]_(Contract!vars)
    <2>1. UNCHANGED <<daa, chain>> /\ (sent' = sent \/ sent' = [sent EXCEPT ![c] = NoTx])
      BY <1>4 DEF Observe, Drop
    <2>2. \A d \in Clients : sent'[d] # NoTx => sent'[d] = sent[d]
      BY <1>3, <2>1
    <2>3. \A d \in Clients : sent'[d] # NoTx => Offered(sent'[d])
      BY <2>2 DEF TradeInv
    <2>. QED
      BY <1>2, <2>1, <2>3, ContractRests DEF TradeInv
  <1>5. ASSUME NEW c \in Clients, NEW op \in Operations(c), NEW fee \in Fees, NEW surplus \in Surplus,
               Compose(c, op, fee, surplus)
        PROVE  TradeInv' /\ [Contract!Next]_(Contract!vars)
    <2>1. PICK t : t = BuildAction(held[c], op, fee, Funding(held[c], op, fee, surplus))
      OBVIOUS
    <2>2. UNCHANGED <<daa, chain>> /\ sent' = [sent EXCEPT ![c] = t]
      BY <1>5, <2>1 DEF Compose
    <2>3. Offered(t)
      BY <2>1, DraftOffered
    <2>4. \A d \in Clients : sent'[d] = IF d = c THEN t ELSE sent[d]
      BY <1>3, <2>2
    <2>5. \A d \in Clients : sent'[d] # NoTx => Offered(sent'[d])
      BY <2>3, <2>4 DEF TradeInv
    <2>. QED
      BY <1>2, <2>2, <2>5, ContractRests DEF TradeInv
  <1>6. ASSUME NEW tx, TxType(tx), ChangeReturns(tx), Offered(tx), Accept(tx)
        PROVE  TradeInv' /\ [Contract!Next]_(Contract!vars)
    <2>1. Contract!Next /\ Books'
      BY <1>6, AcceptIsSpend
    <2>2. \A d \in Clients : sent'[d] = NoTx \/ sent'[d] = sent[d]
      BY <1>6 DEF Accept
    <2>3. \A d \in Clients : sent'[d] # NoTx => Offered(sent'[d])
      BY <2>2 DEF TradeInv
    <2>. QED
      BY <1>2, <2>1, <2>3
  <1>7. ASSUME NEW c \in Clients, sent[c] # NoTx, Accept(sent[c])
        PROVE  TradeInv' /\ [Contract!Next]_(Contract!vars)
    <2>1. PICK t : t = sent[c]
      OBVIOUS
    <2>2. TxType(t) /\ ChangeReturns(t) /\ Offered(t)
      BY <1>7, <2>1 DEF TradeInv, NetInv, SentFits
    <2>. QED
      BY <1>6, <1>7, <2>1, <2>2
  <1>8. ASSUME NEW k \in Others, NEW op \in Operations(k), NEW fee \in Fees, NEW surplus \in Surplus,
               AcceptForeign(op, fee, surplus)
        PROVE  TradeInv' /\ [Contract!Next]_(Contract!vars)
    BY <1>6, <1>8, ForeignFits DEF TradeInv
  <1>9. ASSUME Tick PROVE TradeInv' /\ [Contract!Next]_(Contract!vars)
    <2>1. sent' = sent
      BY <1>9 DEF Tick
    <2>2. \A d \in Clients : sent'[d] # NoTx => Offered(sent'[d])
      BY <2>1 DEF TradeInv
    <2>. QED
      BY <1>2, <1>9, <2>2, TickIsTick
  <1>10. ASSUME UNCHANGED vars PROVE TradeInv' /\ [Contract!Next]_(Contract!vars)
    <2>1. UNCHANGED <<daa, chain>> /\ sent' = sent
      BY <1>10 DEF vars, chain
    <2>2. \A d \in Clients : sent'[d] # NoTx => Offered(sent'[d])
      BY <2>1 DEF TradeInv
    <2>. QED
      BY <1>2, <2>1, <2>2, ContractRests DEF TradeInv
  <1>. QED
    BY <1>4, <1>5, <1>7, <1>8, <1>9, <1>10 DEF Next

(* Whatever clients and other software send, in whatever order, what the   *)
(* chain accepts is spend by spend a behaviour of the round contract.      *)
THEOREM KeepsTheContract == Spec => ImplementsContract
  <1>1. Init => TradeInv /\ Contract!Init
    BY TradeBegins
  <1>2. TradeInv /\ [Next]_vars => TradeInv' /\ [Contract!Next]_(Contract!vars)
    BY TradeGoesOn
  <1>. QED
    BY <1>1, <1>2, PTL DEF Spec, ImplementsContract, Contract!Spec
=============================================================================
