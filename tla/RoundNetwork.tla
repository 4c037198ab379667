---------------------------- MODULE RoundNetwork ----------------------------
(***************************************************************************)
(* Clients around one round.  Each client verifies a snapshot of the state *)
(* UTXO on its node, composes a draft for it and submits it; by then the   *)
(* UTXO may have been spent by somebody else.  Transactions from other     *)
(* software, laid out differently, compete with them.  The chain accepts   *)
(* what the templates accept, one spend of a tip at a time, and a client   *)
(* explains what was accepted.                                             *)
(***************************************************************************)
EXTENDS RoundTx

CONSTANTS
    Clients,      \* each signs with its own key, named like the client
    Others,       \* keys used by other software; the owner may be of either
    Config,
    MaxPurchases, MaxTickets,
    Fees,
    Quantities,   \* tickets a purchase asks for
    Surplus,      \* change amounts a draft may leave over its required funding
    MaxDaa,       \* bound: the clock stops here, inside what clients verify
    Idle, NoTx

ASSUME NetworkAssumption ==
    /\ Fees \subseteq Nat /\ Surplus \subseteq Nat /\ Quantities \subseteq Nat
    /\ MaxDaa \in 1..(DaaLimit - 1)

(* A configuration validateConfig (state.ts:74-78) admits.                 *)
ASSUME ConfigAssumption ==
    /\ {MaxPurchases, MaxTickets} \subseteq Nat
    /\ Config.ticketCap \in 3..MaxTickets
    /\ Config.purchaseCap \in 1..MaxPurchases
    /\ Config.minTickets \in 3..Config.ticketCap
    /\ Config.ticketPrice \in MinPrice..((ValueLimit - Deposit) \div Config.ticketCap)
    /\ Config.closeEligibleDaa \in 1..(DaaLimit - TimeoutDelay - 1)

VARIABLES
    state,     \* the state UTXO: [ledger, tip, value, utxoDaa]; value 0 = ended
    daa,
    opening,   \* sample of the draw boundary's block, once there is one
    held,      \* held[c]: the snapshot client c verified for its next operation
    sent,      \* sent[c]: its transaction, submitted and not yet settled
    last,      \* the accepted transaction that made `state`, with its evidence
    refunded, prize, ownerPaid, costs

chain == <<state, opening, last, refunded, prize, ownerPaid, costs>>
vars == <<state, daa, opening, held, sent, last, refunded, prize, ownerPaid, costs>>

Ended == state.value = 0

Snapshot ==
    [ledger |-> state.ledger, tip |-> state.tip, value |-> state.value,
     utxoDaa |-> state.utxoDaa, currentDaa |-> daa, opening |-> opening]

Operations(c) ==
    [action : {"BUY"}, actor : {c}, quantity : Quantities]
      \cup [action : Actions \ {"BUY"}, actor : {c}, quantity : {0}]

(* Funding a draft asks the wallet for.                                    *)
Funding(x, op, fee, surplus) ==
    CASE op.action = "DRAW_AND_PAY" -> 0
      [] op.action = "REFUND" -> surplus
      [] OTHER -> RequiredExternal(x.ledger, op, fee) + surplus

Init ==
    /\ state = [ledger |-> NewOpen(Config), tip |-> 0, value |-> Deposit, utxoDaa |-> 1]
    /\ daa = 1
    /\ opening = NoOpening
    /\ held = [c \in Clients |-> Idle]
    /\ sent = [c \in Clients |-> NoTx]
    /\ last = NoTx
    /\ refunded = [i \in 1..MaxPurchases |-> 0]
    /\ prize = [record |-> 0, amount |-> 0]
    /\ ownerPaid = 0
    /\ costs = 0

(* A client reads the live round from its node and verifies it.  One       *)
(* browser has one transaction per tip: the reservations of its intent     *)
(* store refuse a second one that spends the same state UTXO.              *)
Observe(c) ==
    /\ ~Ended
    /\ sent[c] = NoTx
    /\ Verified(Snapshot)
    /\ held' = [held EXCEPT ![c] = Snapshot]
    /\ UNCHANGED <<daa, sent, chain>>

(* A client composes a draft on the snapshot it holds, however old, and    *)
(* submits it.                                                             *)
Compose(c, op, fee, surplus) ==
    /\ held[c] # Idle
    /\ LET external == Funding(held[c], op, fee, surplus) IN
       /\ CanBuild(held[c], op, fee, external)
       /\ sent' = [sent EXCEPT ![c] = BuildAction(held[c], op, fee, external)]
    /\ held' = [held EXCEPT ![c] = Idle]
    /\ UNCHANGED <<daa, chain>>

AcceptsNow(tx) == ~Ended /\ ConsensusAccepts(Snapshot, tx) /\ CovenantAccepts(Snapshot, tx)

PaidTo(tx, key) ==
    MapThenSumSet(LAMBDA i : tx.outputs[i].value,
                  {i \in DOMAIN tx.outputs : ~IsState(tx.outputs[i]) /\ tx.outputs[i].pays = key})

(* The money that left the escrow by tx, by the places the templates fixed *)
(* for it: the owner may also be a buyer, or who executes this.            *)
Kept(tx) == IF StateOutputs(tx) = {} THEN 0 ELSE tx.outputs[1].value
Won(tx) == IF tx.action = "DRAW_AND_PAY" THEN tx.outputs[1].value ELSE 0

Owners(s, tx) ==
    CASE tx.action = "CLOSE" /\ s.sold = 0 -> tx.outputs[1].value
      [] tx.action = "DRAW_AND_PAY" -> tx.outputs[2].value
      [] tx.action = "REFUND" /\ RefundBatch(s).last -> tx.outputs[RefundBatch(s).k + 1].value
      [] OTHER -> 0

Returned(s, tx) ==
    [i \in 1..MaxPurchases |->
        IF tx.action = "REFUND" /\ i \in (s.cursor + 1)..(s.cursor + RefundBatch(s).k)
        THEN tx.outputs[(IF RefundBatch(s).last THEN 0 ELSE 1) + i - s.cursor].value
        ELSE 0]

Settle(tx) ==
    LET s == state.ledger
        returned == Returned(s, tx)
    IN /\ refunded' = [i \in 1..MaxPurchases |-> refunded[i] + returned[i]]
       /\ prize' = IF tx.action = "DRAW_AND_PAY"
                   THEN [record |-> tx.hint, amount |-> Won(tx)] ELSE prize
       /\ ownerPaid' = ownerPaid + Owners(s, tx)
       /\ costs' = IF tx.action = "BUY" THEN costs
                   ELSE costs + (state.value - Kept(tx)) - Owners(s, tx) - Won(tx)
                          - MapThenSumSet(LAMBDA i : returned[i], 1..MaxPurchases)

(* The chain accepts tx; the mempool drops what else spent the same tip.   *)
Accept(tx) ==
    /\ AcceptsNow(tx)
    /\ sent' = [c \in Clients |-> IF sent[c] # NoTx /\ sent[c].spends = state.tip
                                 THEN NoTx ELSE sent[c]]
    /\ last' = [before |-> Snapshot, tx |-> tx]
    /\ state' = IF StateOutputs(tx) = {}
                THEN [state EXCEPT !.value = 0, !.tip = @ + 1]
                ELSE [ledger |-> tx.outputs[1].state, tip |-> state.tip + 1,
                      value |-> tx.outputs[1].value, utxoDaa |-> daa]
    /\ Settle(tx)
    /\ UNCHANGED <<daa, opening, held>>

(* The same transaction as other software might lay it out: another lock   *)
(* time or age, another record named or paid, one unit moved between two   *)
(* outputs, or from the first output to the fee, or a fee witness that is  *)
(* off.                                                                    *)
Layouts(tx) ==
    {[tx EXCEPT !.lockTime = l] : l \in {0, Config.closeEligibleDaa}}
      \cup {[tx EXCEPT !.sequence = q] : q \in {0, TimeoutDelay}}
      \cup {[tx EXCEPT !.hint = h] : h \in 0..PurchaseCount(state.ledger)}
      \cup (IF tx.action # "DRAW_AND_PAY" THEN {} ELSE
              {[tx EXCEPT !.hint = h, !.outputs[1].pays = state.ledger.directory[h].key] :
                 h \in 1..PurchaseCount(state.ledger)})
      \cup {[tx EXCEPT !.fee = @ + 1], [tx EXCEPT !.fee = @ + 1, !.outputs[1].value = @ - 1]}
      \cup (IF Len(tx.outputs) < 2 THEN {} ELSE
              {[tx EXCEPT !.outputs[1].value = @ + 1, !.outputs[2].value = @ - 1]})

(* Other software's transaction needs no snapshot of ours: it reaches the  *)
(* chain at any moment the templates accept it.                            *)
AcceptForeign(op, fee, surplus) ==
    /\ ~Ended
    /\ LET external == Funding(Snapshot, op, fee, surplus) IN
       /\ CanBuild(Snapshot, op, fee, external)
       /\ \E tx \in Layouts(BuildAction(Snapshot, op, fee, external)) : Accept(tx)

(* A transaction whose input is spent, or that the templates reject, is    *)
(* dropped by the mempool.                                                 *)
Drop(c) ==
    /\ sent[c] # NoTx
    /\ ~AcceptsNow(sent[c])
    /\ sent' = [sent EXCEPT ![c] = NoTx]
    /\ UNCHANGED <<daa, held, chain>>

Tick ==
    /\ daa < MaxDaa
    /\ daa' = daa + 1
    /\ IF state.ledger.phase = "SEALED" /\ ~Ended /\ opening = NoOpening
            /\ daa + 1 >= state.utxoDaa + DrawDelay
       THEN opening' \in Samples
       ELSE UNCHANGED opening
    /\ UNCHANGED <<held, sent, state, last, refunded, prize, ownerPaid, costs>>

Next ==
    \/ \E c \in Clients : Observe(c) \/ Drop(c) \/ (sent[c] # NoTx /\ Accept(sent[c]))
    \/ \E c \in Clients : \E op \in Operations(c), fee \in Fees, surplus \in Surplus :
          Compose(c, op, fee, surplus)
    \/ \E k \in Others : \E op \in Operations(k), fee \in Fees, surplus \in Surplus :
          AcceptForeign(op, fee, surplus)
    \/ Tick

Spec == Init /\ [][Next]_vars

---------------------------------------------------------------------------
(* Properties.                                                             *)

(* The types; a held snapshot is one the client verified.                   *)
TypeOK ==
    /\ state.tip \in Nat /\ state.value \in Nat /\ state.utxoDaa \in Nat
    /\ state.ledger.phase \in {"OPEN", "SEALED", "REFUNDING"}
    /\ daa \in 1..MaxDaa
    /\ opening \in {NoOpening} \cup 0..(SampleSpace - 1)
    /\ \A c \in Clients : held[c] # Idle => Verified(held[c])
    /\ \A c \in Clients : sent[c] # NoTx => sent[c].action \in Actions

(* The three readings of the protocol agree, part one: a draft the client  *)
(* composed on a snapshot that is still current is never refused by        *)
(* consensus or by the templates (rejections mean "somebody was first").   *)
DraftsAreAccepted ==
    \A c \in Clients :
        sent[c] # NoTx /\ ~Ended /\ sent[c].spends = state.tip => AcceptsNow(sent[c])

(* Part two: whatever the templates accepted, from whatever software, the  *)
(* client can explain from the transaction and its inputs alone, and its   *)
(* explanation is the state UTXO that really is on chain (accepted.ts).    *)
AcceptedIsExplained ==
    last # NoTx =>
        /\ Explainable(last.before, last.tx)
        /\ LET e == Explained(last.before, last.tx)
           IN IF Ended THEN e.ended ELSE ~e.ended /\ e.next = state.ledger

(* Part three: every live state UTXO passes the client's verification, so  *)
(* no accepted layout can leave a round that clients refuse to settle.     *)
LiveIsVerifiable == ~Ended => Verified(Snapshot)

Part(due, amount) == IF due THEN amount ELSE 0

(* A draw pays the holder of the sampled ticket whoever executes it and    *)
(* whatever hint they supply, a refund the buyers of its batch, and both   *)
(* pay the owner and the executor.  A key may be several of these, the     *)
(* owner's too: it is paid the sum of its parts and nothing else.          *)
PaysTheRightKeys ==
    last # NoTx =>
        LET s == last.before.ledger tx == last.tx b == RefundBatch(s) IN
        /\ tx.action = "DRAW_AND_PAY" =>
             \E i \in 1..PurchaseCount(s) :
                /\ EndAt(s, i - 1) <= last.before.opening % s.sold
                /\ last.before.opening % s.sold < EndAt(s, i)
                /\ prize.record = i
                /\ \A key \in Clients \cup Others \cup {Owner} :
                     PaidTo(tx, key) =
                       Part(key = s.directory[i].key, Prize(s, tx.fee))
                         + Part(key = Owner, Deposit) + Part(key = tx.actor, Finalizer)
        /\ tx.action = "REFUND" =>
             \A key \in Clients \cup Others \cup {Owner} :
                PaidTo(tx, key) =
                  MapThenSumSet(LAMBDA i : RefundAmount(s, i),
                    {i \in (s.cursor + 1)..(s.cursor + b.k) : s.directory[i].key = key})
                    + Part(b.last /\ key = Owner, Deposit - RefundFee)
                    + Part(key = tx.actor, tx.external + b.pool - tx.fee)

(* The round machine of RoundContract, seen in this state.  Its fees are   *)
(* those that occur here: a layout may raise one by a unit.                *)
PhaseNow ==
    IF ~Ended THEN state.ledger.phase
    ELSE CASE last.tx.action = "CLOSE" -> "EMPTY"
           [] last.tx.action = "DRAW_AND_PAY" -> "PAID"
           [] OTHER -> "REFUNDED"

CursorNow == IF Ended /\ last.tx.action = "REFUND"
             THEN PurchaseCount(state.ledger) ELSE state.ledger.cursor

Contract == INSTANCE RoundContract WITH
    Configs <- {Config},
    Fees <- {f \in 1..MaxPayFee : f \in Fees \/ f - 1 \in Fees},
    Externals <- Surplus,
    config <- Config,
    phase <- PhaseNow,
    sold <- state.ledger.sold,
    ends <- [i \in 1..PurchaseCount(state.ledger) |-> EndAt(state.ledger, i)],
    cursor <- CursorNow,
    value <- state.value,
    utxoDaa <- state.utxoDaa,
    sample <- opening

(* Drafts, their acceptance and other software's transactions are, spend   *)
(* by spend, the steps of RoundContract, so what is proved of the contract *)
(* holds of the transactions clients really build.                         *)
ImplementsContract == Contract!Spec
============================================================================
