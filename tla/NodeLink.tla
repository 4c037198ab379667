------------------------------ MODULE NodeLink ------------------------------
(***************************************************************************)
(* The page's connection to the network (dual-node.mjs, nodes.mjs,         *)
(* node-pool.mjs): one primary connection that answers every read, a hot   *)
(* standby that takes its place, the chain subscription of each, and what  *)
(* a subscription proves.  The module has the link's own state; the steps  *)
(* of who reads over it are in AcceptanceReads.                            *)
(*                                                                         *)
(* Of the selected chain of the node behind the primary only the block     *)
(* that accepts one followed transaction matters, and that it may change   *)
(* at any time, also back.  The node answers requests and sends notices in *)
(* the order of its chain, but an answer and a notice overtake each other. *)
(* Coverage (nodes.mjs, chainCoverage) is the claim that the notices since *)
(* it was established are complete.                                        *)
(***************************************************************************)
EXTENDS Naturals, Sequences

CONSTANTS
    Blocks,       \* blocks that may accept the transaction
    NoBlock,
    MaxChanges,   \* changes of the primary's chain in a run
    MaxFaults     \* lost connections, failed requests, unreadable notices

ASSUME LinkAssumption == NoBlock \notin Blocks /\ MaxChanges \in Nat /\ MaxFaults \in Nat

VARIABLES
    at,        \* the block that accepts the transaction on the primary's chain
    primary,   \* the primary connection
    watched,   \* somebody wants the accepted ids (acceptedWatches)
    lease,     \* a reader needs the coverage for a while (chainLeaseUntil)
    changes, faults

linkVars == <<at, primary, watched, lease, changes, faults>>

Scopes == {"off", "reduced", "all"}
Fresh == [open |-> TRUE, served |-> "off", cover |-> FALSE, notices |-> <<>>]
Closed == [Fresh EXCEPT !.open = FALSE]

LinkInit ==
    /\ at = NoBlock
    /\ primary = Closed
    /\ watched = FALSE /\ lease = FALSE
    /\ changes = 0 /\ faults = 0

Fault == faults < MaxFaults /\ faults' = faults + 1

(* Another node may have another chain.                                    *)
OfAnotherNode ==
    \/ UNCHANGED <<at, changes>>
    \/ changes < MaxChanges /\ changes' = changes + 1 /\ at' \in (Blocks \cup {NoBlock}) \ {at}

---------------------------------------------------------------------------
(* connect(): the pool's first eligible node becomes the primary.          *)
Connect ==
    /\ ~primary.open
    /\ primary' = Fresh
    /\ OfAnotherNode
    /\ UNCHANGED <<watched, lease, faults>>

(* What fill() may have prepared by now: no standby, one not subscribed    *)
(* yet, one with the reduced scope.                                        *)
Standbys ==
    {Closed, Fresh} \cup IF watched THEN {[Fresh EXCEPT !.served = "reduced", !.cover = TRUE]} ELSE {}

(* drop(): the standby is promoted with the subscription it has.           *)
DropPrimary ==
    /\ primary.open /\ Fault
    /\ \E standby \in Standbys :
          /\ primary' = standby
          /\ IF standby.open THEN OfAnotherNode ELSE UNCHANGED <<at, changes>>
    /\ lease' = FALSE
    /\ UNCHANGED watched

(* idle(): with no user left, everything is closed.                        *)
CloseIdle ==
    /\ primary.open /\ ~watched
    /\ primary' = Closed /\ lease' = FALSE
    /\ UNCHANGED <<at, watched, changes, faults>>

---------------------------------------------------------------------------
(* syncChainSubscription(): the demand of the managers and the leases of   *)
(* readers share one scope.  Wanting it all replaces wanting less without  *)
(* a gap, so the coverage stays.                                           *)
Wanted == IF watched THEN "all" ELSE IF lease THEN "reduced" ELSE "off"

(* sync() asks for another scope, holdChainObservation() for a coverage.   *)
Behind ==
    /\ primary.open /\ Wanted # "off"
    /\ primary.served # Wanted \/ (lease /\ ~primary.cover)

Subscribe ==
    /\ Behind
    /\ primary' = [primary EXCEPT !.served = Wanted, !.cover = TRUE]
    /\ UNCHANGED <<at, watched, lease, changes, faults>>

(* The node may have taken a request whose answer is lost.                 *)
SubscribeFails ==
    /\ Behind /\ Fault
    /\ \E scope \in {primary.served, Wanted} :
          primary' = [primary EXCEPT !.served = scope, !.cover = FALSE]
    /\ UNCHANGED <<at, watched, lease, changes>>

LeaseEnds ==
    /\ lease /\ lease' = FALSE
    /\ UNCHANGED <<at, primary, watched, changes, faults>>

(* The coverage is revoked before the unsubscribe is sent.                 *)
Revoke ==
    /\ Wanted = "off" /\ primary.cover
    /\ primary' = [primary EXCEPT !.cover = FALSE]
    /\ UNCHANGED <<at, watched, lease, changes, faults>>

(* Mutant: the node is told first.                                         *)
MayUnsubscribeAtOnce == Wanted = "off"

MayUnsubscribe == Wanted = "off" /\ ~primary.cover

Unsubscribe ==
    /\ MayUnsubscribe /\ primary.served # "off"
    /\ primary' = [primary EXCEPT !.served = "off"]
    /\ UNCHANGED <<at, watched, lease, changes, faults>>

---------------------------------------------------------------------------
(* The node.                                                               *)
ChainMoves ==
    /\ changes < MaxChanges /\ changes' = changes + 1
    /\ at' \in (Blocks \cup {NoBlock}) \ {at}
    /\ primary' = IF primary.served = "off" THEN primary
                  ELSE [primary EXCEPT !.notices = Append(@,
                          [removed |-> {at} \ {NoBlock},
                           added |-> IF primary.served = "all" THEN at' ELSE NoBlock])]
    /\ UNCHANGED <<watched, lease, faults>>

Notice == Head(primary.notices)

Receive ==
    /\ primary.notices # <<>>
    /\ primary' = [primary EXCEPT !.notices = Tail(@)]
    /\ UNCHANGED <<at, watched, lease, changes, faults>>

(* noteChainRemoval() of something unreadable: nothing is complete now.    *)
ReceiveGarbage ==
    /\ primary.notices # <<>> /\ Fault
    /\ primary' = [primary EXCEPT !.notices = Tail(@), !.cover = FALSE]
    /\ UNCHANGED <<at, watched, lease, changes>>

(* A removal seen by the standby is only a hint.                           *)
StandbyHints ==
    /\ primary.open /\ Fault
    /\ UNCHANGED <<at, primary, watched, lease, changes>>
============================================================================
