-------------------------- MODULE MCRoundContract --------------------------
(* RoundContract on small rounds.  One unit of money is REFUND_FEE, so the *)
(* amounts keep the exact ratios of the sources (4e8 : 1e8 : 5e7 : 2e6).   *)
EXTENDS RoundContract

Terms(price, cap, purchases, min, close) ==
    [ticketPrice |-> price, ticketCap |-> cap, purchaseCap |-> purchases,
     minTickets |-> min, closeEligibleDaa |-> close]

(* The cheapest and the dearest ticket the limits allow; a sale limited by *)
(* tickets and one limited by purchases; a round that may close at once.   *)
MCConfigs ==
    { Terms(50, 5, 5, 3, 3),
      Terms((450 - 200) \div 4, 4, 3, 4, 2),
      Terms(50, 3, 1, 3, 1) }
============================================================================
