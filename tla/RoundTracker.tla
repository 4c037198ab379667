---------------------------- MODULE RoundTracker ----------------------------
(***************************************************************************)
(* The detail session of one round (round-tracker.mjs, the resolver of     *)
(* rest-rounds.mjs, round-store.mjs, terminal-state.mjs): a read of the    *)
(* round on the node that notices, own transactions, gaps and the reader   *)
(* of an action interrupt at any await, what it publishes, and what it     *)
(* leaves in the store.                                                    *)
(*                                                                         *)
(* A state of the round is named by the transition that led to it in the   *)
(* block that accepted it; Path gives the states on the way to each, so a  *)
(* reorg takes the round to a state of another path.  The module has the   *)
(* node, the session and the store; RoundPage opens and closes sessions.   *)
(* Versions are kept as bits of the read that compares them.               *)
(***************************************************************************)
EXTENDS Naturals, Sequences

CONSTANTS
    States,     \* states the round may take, in their blocks
    Path,       \* Path[s]: s and the states before it
    Final,      \* the states without a successor
    None,
    MaxMoves,   \* changes of the round on the node in a run
    MaxUpsets   \* gaps, failed or incomplete reads, and what the user and the browser do, in a run

ASSUME TrackerAssumption ==
    /\ None \notin States /\ Final \subseteq States
    /\ \A s \in States : s \in Path[s] /\ Path[s] \subseteq States /\ Path[s] \cap Final \subseteq {s}
    /\ MaxMoves \in Nat /\ MaxUpsets \in Nat

VARIABLES
    tip,         \* the round's state on the node's selected chain
    age,         \* of a final state: see Deepen
    notices,     \* sent by the node, not yet received
    address,     \* the state whose output the session watches
    untold,      \* the page's own read of the tip's acceptance is still to come
    moves, upsets,
    on,          \* ~stopped
    candidate, checkpoint, offered,   \* where to look next
    obs,         \* the observation: [view, settled]; None when invalidated
    dirty,
    timer,       \* "off", "wake" or "interval"
    work,        \* the read in progress
    live,        \* the reader of an action: "idle", "wait" (for work) or "recheck"
    row, flight, disk   \* the store's row, a write under way, the database

nodeVars == <<tip, age, untold, moves>>
storeVars == <<row, flight, disk>>
sessionVars == <<on, candidate, checkpoint, offered, obs, dirty, timer, work, live>>
trackerVars == <<nodeVars, notices, address, upsets, sessionVars, storeVars>>

NoObs == [view |-> None, settled |-> FALSE]

(* hard, soft: hardVersion or version moved since the read took them.      *)
(* daa: the final states deep enough when it began.  given: the accepted   *)
(* body it starts from.  removed: heard since it began.                    *)
NoWork == [at |-> "none", hard |-> FALSE, soft |-> FALSE, daa |-> {}, given |-> None,
           res |-> None, complete |-> FALSE, removed |-> {}]

NoRow == [view |-> None, observed |-> FALSE, term |-> FALSE]

TrackerInit ==
    /\ tip \in States /\ age = [s \in Final |-> IF s = tip THEN 1 ELSE 0]
    /\ notices = <<>> /\ address = None /\ untold \in BOOLEAN
    /\ moves = 0 /\ upsets = 0
    /\ on = FALSE /\ candidate = None /\ checkpoint = None /\ offered = None
    /\ obs = NoObs /\ dirty = FALSE /\ timer = "off" /\ work = NoWork /\ live = "idle"
    /\ row = NoRow /\ flight = NoRow /\ disk = NoRow

Upset == upsets < MaxUpsets /\ upsets' = upsets + 1

---------------------------------------------------------------------------
(* The node.  A final state is young (1) when it is accepted; the DAA      *)
(* grows past its threshold while it is off the chain (2) or on it (3).    *)

Selected(s) ==
    [age EXCEPT ![s] = IF @ = 0 THEN 1 ELSE IF @ = 2 THEN 3 ELSE @]

MovesTo(s) ==
    /\ moves < MaxMoves /\ moves' = moves + 1
    /\ tip' = s /\ untold' = TRUE
    /\ age' = IF s \in Final THEN Selected(s) ELSE age

Move ==
    \E s \in States \ {tip} :
        /\ MovesTo(s)
        /\ notices' = Append(notices, [removed |-> Path[tip] \ Path[s], utxo |-> address \in {tip, s}])
        /\ UNCHANGED <<address, upsets, sessionVars, storeVars>>

Deepen ==
    \E s \in Final :
        /\ age[s] = 1
        /\ age' = [age EXCEPT ![s] = IF s = tip THEN 3 ELSE 2]
        /\ UNCHANGED <<tip, untold, moves, notices, address, upsets, sessionVars, storeVars>>

---------------------------------------------------------------------------
(* RoundStore.  A row is written as a whole, in order.                     *)

Persist(r) == flight' = r /\ disk' = IF flight # NoRow THEN flight ELSE disk

WriteOut ==
    /\ flight # NoRow
    /\ disk' = flight /\ flight' = NoRow
    /\ UNCHANGED <<nodeVars, notices, address, upsets, sessionVars, row>>

(* load(): only a settled final view keeps its word.                       *)
Loaded == [disk EXCEPT !.observed = disk.term]

(* invalidate()                                                            *)
StoreInvalidate(terminal) ==
    IF terminal /\ row.view # None
    THEN LET r == [row EXCEPT !.term = FALSE] IN
         row' = r /\ IF row.view \in Final THEN Persist(r) ELSE UNCHANGED <<flight, disk>>
    ELSE UNCHANGED storeVars

(* remember(): an incomplete view does not replace an observed one.        *)
Remember(view, complete, settled) ==
    LET r == IF complete THEN [view |-> view, observed |-> TRUE, term |-> settled]
             ELSE IF row.observed THEN row
             ELSE [view |-> view, observed |-> FALSE, term |-> FALSE] IN
    row' = r /\ Persist(r)

---------------------------------------------------------------------------
(* The session.                                                            *)

Terminal == obs.view # None /\ obs.settled

ObservationCurrent == obs.view # None /\ ~dirty

Reading == work.at \in {"ask", "answered", "recheck"}

AcceptingBlocks ==
    {candidate, checkpoint, obs.view, offered, IF work.at = "ask" THEN None ELSE work.res} \ {None}

(* invalidate(): utxo is the soft form; anchor forgets the checkpoint.     *)
Revokes(revoke) == revoke \/ ~Terminal

Invalidate(utxo, anchor, revoke) ==
    /\ obs' = NoObs /\ dirty' = TRUE
    /\ work' = IF work.at = "none" THEN work
               ELSE [work EXCEPT !.soft = TRUE, !.hard = @ \/ ~utxo]
    /\ offered' = IF utxo THEN offered ELSE None
    /\ checkpoint' = IF anchor THEN None ELSE checkpoint
    /\ StoreInvalidate(Revokes(revoke))

(* wake(), after what revoked the observation.                             *)
Wakes == timer' = IF work.at = "none" /\ live = "idle" THEN "wake" ELSE timer

(* The listeners of start().                                               *)
Deliver ==
    LET n == Head(notices)
        relevant == n.removed \cap AcceptingBlocks # {} IN
    /\ notices # <<>> /\ notices' = Tail(notices)
    /\ UNCHANGED <<nodeVars, address, upsets, on, candidate, live>>
    /\ \/ /\ ~on \/ (~relevant /\ (Terminal \/ ~n.utxo))
          /\ work' = IF on /\ Reading /\ ~Terminal THEN [work EXCEPT !.removed = @ \cup n.removed]
                     ELSE work
          /\ UNCHANGED <<checkpoint, offered, obs, dirty, timer, storeVars>>
       \/ /\ on /\ relevant
          /\ Invalidate(FALSE, TRUE, Terminal) /\ Wakes
       \/ /\ on /\ ~relevant /\ ~Terminal /\ n.utxo
          /\ Invalidate(TRUE, FALSE, FALSE) /\ Wakes

(* Failover, reconnection or unreadable data: what was sent is lost, and   *)
(* the node may be another one.                                            *)
Gap ==
    /\ Upset
    /\ notices' = <<>>
    /\ UNCHANGED nodeVars \/ \E s \in States \ {tip} : MovesTo(s)
    /\ IF on THEN Invalidate(FALSE, TRUE, FALSE) /\ Wakes
       ELSE UNCHANGED <<checkpoint, offered, obs, dirty, timer, work, storeVars>>
    /\ UNCHANGED <<address, on, candidate, live>>

(* offerAccepted(): another part of the page read the tip's acceptance.    *)
(* It is older than the checkpoint by its block's DAA, which between       *)
(* rivals says nothing.                                                    *)
Known ==
    \/ ~on
    \/ ObservationCurrent /\ obs.view = tip
    \/ checkpoint # None /\ tip \in Path[checkpoint] \ {checkpoint}

Rival == checkpoint # None /\ tip \notin Path[checkpoint] /\ checkpoint \notin Path[tip]

Offer ==
    /\ untold /\ untold' = FALSE
    /\ \/ /\ Known \/ Rival
          /\ UNCHANGED <<candidate, offered, obs, dirty, timer, work, storeVars>>
       \/ LET joining == work.at # "none" \/ live # "idle" IN
          /\ ~Known
          /\ obs' = NoObs /\ dirty' = TRUE /\ offered' = tip
          /\ work' = IF work.at = "none" THEN work ELSE [work EXCEPT !.soft = TRUE]
          /\ candidate' = IF joining THEN candidate ELSE tip
          /\ StoreInvalidate(Revokes(FALSE))
          /\ timer' = IF joining THEN timer ELSE "wake"
    /\ UNCHANGED <<tip, age, moves, notices, address, upsets, on, checkpoint, live>>

---------------------------------------------------------------------------
(* run()                                                                   *)

RunBegins ==
    /\ work' = [NoWork EXCEPT !.at = "begin"] /\ dirty' = FALSE /\ timer' = "off"

TimerFires ==
    /\ on /\ timer # "off" /\ work.at = "none" /\ ~Terminal
    /\ RunBegins
    /\ UNCHANGED <<nodeVars, notices, address, upsets, on, candidate, checkpoint, offered, obs, live,
                   storeVars>>

(* Mutant: finally arms the timer only after a complete read.              *)
ArmedAfterSuccess(after) == IF after.view # None /\ ~after.settled THEN "interval" ELSE "off"

(* finally, by what is observed then.                                      *)
Armed(after) == IF after.settled THEN "off" ELSE "interval"

RunEnds(after) == work' = NoWork /\ timer' = Armed(after)

(* catch: changed is READ_VIEW_CHANGED or STALE_TIP.                       *)
RunFails(changed) ==
    /\ obs' = NoObs /\ offered' = None /\ dirty' = changed
    /\ candidate' = IF ~changed /\ checkpoint = None THEN None ELSE candidate
    /\ StoreInvalidate(Revokes(FALSE))
    /\ RunEnds(NoObs)

RunError ==
    /\ work.at # "none" /\ Upset
    /\ RunFails(FALSE)
    /\ UNCHANGED <<nodeVars, notices, address, on, checkpoint, live>>

(* The candidate: a handed-over acceptance, the store, anybody's hint.     *)
(* Watching it comes before anything is read.                              *)
Candidates ==
    IF candidate # None THEN {candidate}
    ELSE IF offered # None THEN {offered}
    ELSE IF row.view # None THEN {row.view}
    ELSE States

RunWatches ==
    /\ work.at = "begin"
    /\ \E c \in Candidates :
          candidate' = c /\ address' = IF c \in Final THEN None ELSE c
    /\ dirty' = FALSE
    /\ work' = [work EXCEPT !.at = "watched", !.soft = FALSE]
    /\ UNCHANGED <<nodeVars, notices, upsets, on, checkpoint, offered, obs, timer, live, storeVars>>

(* The virtual DAA is read before the body.  An offer is used when it is   *)
(* young enough and nothing was removed since.                             *)
RunAsks ==
    /\ work.at = "watched"
    /\ \E given \in {None, offered} :
          work' = [work EXCEPT !.at = "ask", !.hard = FALSE, !.given = given,
                               !.daa = {s \in Final : age[s] >= 2}]
    /\ offered' = None
    /\ UNCHANGED <<nodeVars, notices, address, upsets, on, candidate, checkpoint, obs, dirty, timer, live,
                   storeVars>>

Answered(res, complete) ==
    /\ work' = [work EXCEPT !.at = "answered", !.res = res, !.complete = complete]
    /\ IF work.hard \/ res \in work.removed THEN UNCHANGED <<candidate, checkpoint>>
       ELSE candidate' = res /\ checkpoint' = res

(* Mutant: a body that was handed over settles with the depth of now.      *)
TrustsGiven(s) == FALSE

(* terminalSettled(): deep enough by the DAA read before the body.         *)
Settles(s) == s \in work.daa

(* A deep final state is read again, after its depth was known.            *)
ReadsAgain(s) == Settles(s)

(* A final body that was handed over is the result as it is.               *)
HandedOver ==
    /\ work.given \in Final
    /\ UNCHANGED upsets
    /\ IF ReadsAgain(work.given)
       THEN work' = [work EXCEPT !.given = None] /\ UNCHANGED <<candidate, checkpoint>>
       ELSE Answered(work.given, TRUE)

(* Any other is followed to the state that is live, or final, now.         *)
Followed == work.given \notin Final /\ Answered(tip, TRUE) /\ UNCHANGED upsets

(* No spender found yet: the search goes on from here at the next read.    *)
CatchesUp ==
    /\ work.given \notin Final /\ Upset
    /\ \E s \in Path[tip] \ {tip} : Answered(s, FALSE)

RunIsAnswered ==
    /\ work.at = "ask"
    /\ HandedOver \/ Followed \/ CatchesUp
    /\ UNCHANGED <<nodeVars, notices, address, on, offered, obs, dirty, timer, live, storeVars>>

(* Mutant: what was heard to be removed since the read began is forgotten. *)
IgnoresRemoved(w) == FALSE

Displaced(w) == w.res \in w.removed

(* What was heard while the read went on, and the publication.             *)
Judge(w) ==
    IF Displaced(w) THEN RunFails(TRUE) /\ UNCHANGED checkpoint
    ELSE IF w.hard \/ w.soft
    THEN /\ RunEnds(obs) /\ dirty' = TRUE
         /\ IF w.hard THEN UNCHANGED <<candidate, checkpoint>>
            ELSE candidate' = w.res /\ checkpoint' = w.res
         /\ UNCHANGED <<obs, offered, storeVars>>
    ELSE LET after == IF w.complete THEN [view |-> w.res, settled |-> Settles(w.res)] ELSE NoObs IN
         /\ obs' = after /\ dirty' = FALSE
         /\ candidate' = w.res /\ checkpoint' = w.res
         /\ Remember(w.res, w.complete, after.settled)
         /\ RunEnds(after)
         /\ UNCHANGED offered

(* A change of the output is covered by a new read of it.                  *)
Covers == ~work.hard /\ work.soft /\ work.complete /\ work.res \notin Final

RunRewatches ==
    /\ work.at = "answered"
    /\ address' = IF work.res \in Final THEN None ELSE work.res
    /\ IF Covers
       THEN /\ work' = [work EXCEPT !.at = "recheck", !.soft = FALSE]
            /\ UNCHANGED <<candidate, checkpoint, offered, obs, dirty, timer, storeVars>>
       ELSE Judge(work)
    /\ UNCHANGED <<nodeVars, notices, upsets, on, live>>

RunRechecks ==
    /\ work.at = "recheck"
    /\ IF tip = work.res THEN Judge(work) ELSE RunFails(TRUE) /\ UNCHANGED checkpoint
    /\ UNCHANGED <<nodeVars, notices, address, upsets, on, live>>

RunStep == RunWatches \/ RunAsks \/ RunIsAnswered \/ RunRewatches \/ RunRechecks

---------------------------------------------------------------------------
(* currentLive() and readLive(): the one reader of an action.              *)

LiveCalled ==
    /\ on /\ live = "idle" /\ Upset
    /\ IF work.at # "none" THEN live' = "wait" /\ UNCHANGED <<work, dirty, timer>>
       ELSE IF timer = "wake" \/ ~ObservationCurrent THEN live' = "wait" /\ RunBegins
       ELSE obs.view \notin Final /\ live' = "recheck" /\ timer' = "off" /\ UNCHANGED <<work, dirty>>
    /\ UNCHANGED <<nodeVars, notices, address, on, candidate, checkpoint, offered, obs, storeVars>>

(* Its finally; at any time for its deadline.                              *)
LiveEnds ==
    /\ live # "idle" /\ live' = "idle"
    /\ timer' = IF on /\ ~Terminal /\ work.at = "none" /\ timer # "wake" THEN "interval" ELSE timer
    /\ UNCHANGED <<nodeVars, notices, address, upsets, on, candidate, checkpoint, offered, obs, dirty, work,
                   storeVars>>

LiveAgain ==
    /\ live = "wait" /\ work.at = "none" /\ ~ObservationCurrent
    /\ RunBegins
    /\ UNCHANGED <<nodeVars, notices, address, upsets, on, candidate, checkpoint, offered, obs, live,
                   storeVars>>

(* recheckLiveSnapshot() finds the output spent.                           *)
LiveIsStale ==
    /\ live = "recheck" /\ tip # obs.view
    /\ live' = "wait"
    /\ IF obs.view # None THEN Invalidate(FALSE, FALSE, FALSE)
       ELSE UNCHANGED <<obs, dirty, work, offered, checkpoint, storeVars>>
    /\ UNCHANGED <<nodeVars, notices, address, upsets, on, candidate, timer>>

---------------------------------------------------------------------------
(* start() of a new session, after stop() of the last one; a caller may    *)
(* run() it at once.                                                       *)

Closes ==
    /\ candidate' = None /\ checkpoint' = None /\ offered' = None
    /\ obs' = NoObs /\ dirty' = FALSE /\ live' = "idle"
    /\ address' = None
    /\ IF on THEN StoreInvalidate(Revokes(FALSE)) ELSE UNCHANGED storeVars

Started(begun) ==
    /\ Closes /\ on' = TRUE
    /\ work' = IF begun THEN [NoWork EXCEPT !.at = "begin"] ELSE NoWork
    /\ timer' = IF begun THEN "off" ELSE "wake"

(* Mutant: the timer of the closed session stays.                          *)
LeavesTimer == Closes /\ on' = FALSE /\ work' = NoWork /\ UNCHANGED timer

Stopped == Closes /\ on' = FALSE /\ work' = NoWork /\ timer' = "off"
============================================================================
