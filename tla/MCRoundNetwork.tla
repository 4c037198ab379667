--------------------------- MODULE MCRoundNetwork ---------------------------
(* RoundNetwork on one short sale, in units of REFUND_FEE; the owner of    *)
(* the round buys and executes with other software, beside the client k1.  *)
EXTENDS RoundNetwork

MCConfig == [ticketPrice |-> 50, ticketCap |-> 4, purchaseCap |-> 2,
             minTickets |-> 3, closeEligibleDaa |-> 2]
=============================================================================
