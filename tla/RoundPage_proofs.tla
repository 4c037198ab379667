-------------------------- MODULE RoundPage_proofs --------------------------
(***************************************************************************)
(* Proofs about RoundPage for any set of states of a round, any paths      *)
(* among them, and any number of moves and upsets: what a session shows as *)
(* current, when it reads next, what the store keeps as settled, and that  *)
(* a round that is shown is tracked once no recovery is left to run.       *)
(*                                                                         *)
(* The invariant has one part for each piece of state a step can disturb.  *)
(* A page step opens or closes a session (Closed, Opens); a tracker step   *)
(* leaves the page to Shows.                                               *)
(***************************************************************************)
EXTENDS RoundPage, TLAPS

StateOrNone == States \cup {None}
Notice == [removed : SUBSET States, utxo : BOOLEAN]
Row == [view : StateOrNone, observed : BOOLEAN, term : BOOLEAN]
Observation == [view : StateOrNone, settled : BOOLEAN]
Work == [at : {"none", "begin", "watched", "ask", "answered", "recheck"},
         hard : BOOLEAN, soft : BOOLEAN, daa : SUBSET Final, given : StateOrNone,
         res : StateOrNone, complete : BOOLEAN, removed : SUBSET States]

NodeOK ==
    /\ tip \in States /\ untold \in BOOLEAN
    /\ age \in [Final -> 0 .. 3]
    /\ tip \in Final => age[tip] \in {1, 3}
    /\ notices \in Seq(Notice)

(* What the store has as settled is deep for good: an age of 3 stays.      *)
DeepRow(r) == r \in Row /\ (r.term => r.view \in Final /\ age[r.view] = 3)

StoreOK == DeepRow(row) /\ DeepRow(flight) /\ DeepRow(disk)

SessionType ==
    /\ on \in BOOLEAN /\ dirty \in BOOLEAN
    /\ address \in StateOrNone /\ candidate \in StateOrNone
    /\ checkpoint \in StateOrNone /\ offered \in StateOrNone
    /\ obs \in Observation /\ work \in Work
    /\ timer \in {"off", "wake", "interval"} /\ live \in {"idle", "wait", "recheck"}
    /\ ~on => timer = "off" /\ work = NoWork /\ live = "idle" /\ obs = NoObs /\ offered = None
    /\ work.at \in {"answered", "recheck"} => work.res # None
    /\ obs.settled => obs.view # None

(* A read that something was heard under has no observation beside it, and *)
(* a settled one is the last: nothing reads or is about to.                *)
Revoked ==
    /\ dirty => obs = NoObs
    /\ work.at # "none" /\ (work.hard \/ work.soft) => obs = NoObs
    /\ obs.settled => work.at = "none" /\ timer = "off"

(* What is not on the chain any more is in a notice on its way.            *)
OnChainOrTold(s) == s \in Path[tip] \/ \E i \in 1 .. Len(notices) : s \in notices[i].removed

(* ... or the read that found it has heard so.                             *)
FoundOnChain ==
    /\ obs.view # None => OnChainOrTold(obs.view)
    /\ offered # None => OnChainOrTold(offered)
    /\ work.at = "ask" /\ work.given \in Final =>
          OnChainOrTold(work.given) \/ work.hard \/ work.soft \/ work.given \in work.removed
    /\ work.at = "answered" =>
          \/ OnChainOrTold(work.res) \/ work.hard \/ work.res \in work.removed
          \/ work.soft /\ work.res \in Final

(* A result settles by the depth known before it was read, so the depth is *)
(* that of the block it was read in.                                       *)
ReadAfterDepth ==
    /\ \A s \in work.daa : age[s] >= 2
    /\ work.at \in {"answered", "recheck"} /\ work.complete /\ work.res \in work.daa => age[work.res] = 3

TrackerInv == NodeOK /\ StoreOK /\ SessionType /\ Revoked /\ FoundOnChain /\ ReadAfterDepth /\ NextReadIsDue

(* An unfinished recovery is due, and what is shown without a session      *)
(* waits for one.                                                          *)
Recovery == [dirty : BOOLEAN, timer : BOOLEAN, work : {"none", "records", "round", "detail", "old"}]

PageType ==
    /\ visible \in BOOLEAN /\ opening \in BOOLEAN /\ recovering \in BOOLEAN /\ executing \in BOOLEAN
    /\ detail \in {"none", "shown", "final"} /\ recovery \in Recovery
    /\ recovery.timer => recovery.dirty /\ visible
    /\ recovery.dirty \/ ~visible => recovery.work \in {"none", "old"}

Untracked == visible /\ ~opening /\ detail = "shown" /\ ~on

WaitsForRecovery == Untracked => recovering /\ (recovery.dirty \/ recovery.work = "round")

PageInv == PageType /\ WaitsForRecovery /\ RecoveryIsDue

IInv == TrackerInv /\ PageInv

---------------------------------------------------------------------------
(* The node and the notices.                                               *)

(* What steps keep of a final state's depth.                               *)
AgesGrow == \A s \in Final : (age[s] = 3 => age'[s] = 3) /\ (age[s] >= 2 => age'[s] >= 2)

LEMMA MovingKeepsAges ==
    ASSUME NodeOK, NEW s \in States, MovesTo(s)
    PROVE  /\ tip' \in States /\ untold' \in BOOLEAN /\ age' \in [Final -> 0 .. 3]
           /\ tip' \in Final => age'[tip'] \in {1, 3}
           /\ AgesGrow
  BY SMT DEF NodeOK, MovesTo, Selected, AgesGrow

LEMMA SameAges == ASSUME UNCHANGED age PROVE AgesGrow
  BY DEF AgesGrow

LEMMA TipOnItsPath == ASSUME NodeOK PROVE tip \in Path[tip]
  BY TrackerAssumption DEF NodeOK

LEMMA HeadIsNotice ==
    ASSUME NodeOK, notices # <<>>
    PROVE  Head(notices) \in Notice /\ Tail(notices) \in Seq(Notice)
  BY DEF NodeOK

LEMMA QuietNode ==
    ASSUME NodeOK, UNCHANGED <<tip, age, untold, notices>>
    PROVE  NodeOK'
  BY DEF NodeOK

(* What a step that leaves the node alone knows of the chain stays known.  *)
LEMMA StillKnown ==
    ASSUME NEW s, OnChainOrTold(s), UNCHANGED <<tip, notices>>
    PROVE  OnChainOrTold(s)'
  BY DEF OnChainOrTold

LEMMA MoveTells ==
    ASSUME NodeOK, Move, NEW s \in States, OnChainOrTold(s)
    PROVE  OnChainOrTold(s)'
<1>1. PICK t \in States \ {tip} :
        /\ tip' = t
        /\ notices' = Append(notices, [removed |-> Path[tip] \ Path[t], utxo |-> address \in {tip, t}])
  BY DEF Move, MovesTo
<1> DEFINE n == [removed |-> Path[tip] \ Path[t], utxo |-> address \in {tip, t}]
<1>2. n \in Notice
  BY TrackerAssumption DEF Notice, NodeOK
<1>3. Len(notices') = Len(notices) + 1 /\ notices'[Len(notices) + 1] = n
      /\ \A i \in 1 .. Len(notices) : notices'[i] = notices[i]
  BY <1>1, <1>2 DEF NodeOK
<1>4. Len(notices) \in Nat
  BY DEF NodeOK
<1>5. CASE s \in Path[tip]
  <2>1. CASE s \in Path[t]
    BY <2>1, <1>1 DEF OnChainOrTold
  <2>2. CASE s \notin Path[t]
    <3>1. s \in notices'[Len(notices) + 1].removed
      BY <1>3, <1>5, <2>2
    <3> QED BY <3>1, <1>3, <1>4 DEF OnChainOrTold
  <2> QED BY <2>1, <2>2
<1>6. CASE s \notin Path[tip]
  <2>1. PICK i \in 1 .. Len(notices) : s \in notices[i].removed
    BY <1>6 DEF OnChainOrTold
  <2>2. i \in 1 .. Len(notices') /\ s \in notices'[i].removed
    BY <2>1, <1>3, <1>4
  <2> QED BY <2>2 DEF OnChainOrTold
<1> QED BY <1>5, <1>6

LEMMA DeliverTells ==
    ASSUME NodeOK, notices # <<>>, notices' = Tail(notices), UNCHANGED tip,
           NEW s, OnChainOrTold(s), s \notin Head(notices).removed
    PROVE  OnChainOrTold(s)'
<1>1. Len(notices) \in Nat \ {0} /\ Len(Tail(notices)) = Len(notices) - 1
      /\ \A i \in 1 .. Len(notices) - 1 : Tail(notices)[i] = notices[i + 1]
  BY DEF NodeOK
<1>2. Head(notices) = notices[1]
  BY DEF NodeOK
<1>3. CASE s \in Path[tip]
  BY <1>3 DEF OnChainOrTold
<1>4. CASE s \notin Path[tip]
  <2>1. PICK i \in 1 .. Len(notices) : s \in notices[i].removed
    BY <1>4 DEF OnChainOrTold
  <2>2. i # 1
    BY <2>1, <1>2
  <2>3. i - 1 \in 1 .. Len(notices') /\ s \in notices'[i - 1].removed
    BY <2>1, <2>2, <1>1
  <2> QED BY <2>3 DEF OnChainOrTold
<1> QED BY <1>3, <1>4

---------------------------------------------------------------------------
(* The store.                                                              *)

LEMMA RowsStayDeep ==
    ASSUME AgesGrow, NEW r \in Row, r.term => r.view \in Final /\ age[r.view] = 3
    PROVE  r.term => r.view \in Final /\ age'[r.view] = 3
  BY DEF AgesGrow

LEMMA QuietStore ==
    ASSUME StoreOK, AgesGrow, UNCHANGED storeVars
    PROVE  StoreOK'
  BY RowsStayDeep DEF StoreOK, DeepRow, storeVars

LEMMA InvalidatedStore ==
    ASSUME StoreOK, AgesGrow, NEW t, StoreInvalidate(t)
    PROVE  StoreOK'
<1>1. CASE t /\ row.view # None
  <2> DEFINE r == [row EXCEPT !.term = FALSE]
  <2>1. r \in Row /\ ~r.term
    BY DEF StoreOK, DeepRow, Row
  <2>2. row' = r
    BY <1>1 DEF StoreInvalidate
  <2>3. flight' \in {r, flight} /\ disk' \in {flight, disk}
    BY <1>1 DEF StoreInvalidate, Persist
  <2> HIDE DEF r
  <2> QED BY <2>1, <2>2, <2>3, RowsStayDeep DEF StoreOK, DeepRow
<1>2. CASE ~(t /\ row.view # None)
  BY <1>2, QuietStore DEF StoreInvalidate
<1> QED BY <1>1, <1>2

LEMMA RememberedStore ==
    ASSUME StoreOK, AgesGrow, NEW view \in States, NEW complete \in BOOLEAN, NEW settled \in BOOLEAN,
           settled => view \in Final /\ age[view] = 3, Remember(view, complete, settled)
    PROVE  StoreOK'
<1> DEFINE r == IF complete THEN [view |-> view, observed |-> TRUE, term |-> settled]
                ELSE IF row.observed THEN row
                ELSE [view |-> view, observed |-> FALSE, term |-> FALSE]
<1>1. r \in Row /\ (r.term => r.view \in Final /\ age[r.view] = 3)
  BY DEF StoreOK, DeepRow, Row, StateOrNone
<1>2. row' = r /\ flight' = r /\ disk' \in {flight, disk}
  BY DEF Remember, Persist
<1> HIDE DEF r
<1> QED BY <1>1, <1>2, RowsStayDeep DEF StoreOK, DeepRow

LEMMA LoadedRow ==
    ASSUME StoreOK
    PROVE  DeepRow(Loaded)
  BY SMT DEF StoreOK, DeepRow, Loaded, Row

LEMMA NoRowDeep == DeepRow(NoRow)
  BY DEF DeepRow, NoRow, Row, StateOrNone

---------------------------------------------------------------------------
(* The session.                                                            *)

LEMMA NoWorkTyped == NoWork \in Work /\ NoObs \in Observation /\ None \in StateOrNone /\ None \notin States
  BY TrackerAssumption DEF NoWork, Work, NoObs, Observation, StateOrNone

(* Steps of the node that leave the session alone.                         *)
LEMMA SessionWaits ==
    ASSUME TrackerInv, AgesGrow, UNCHANGED <<address, sessionVars>>,
           \A s \in States : OnChainOrTold(s) => OnChainOrTold(s)'
    PROVE  SessionType' /\ Revoked' /\ FoundOnChain' /\ ReadAfterDepth' /\ NextReadIsDue'
<1> USE DEF TrackerInv, sessionVars
<1>1. SessionType' /\ Revoked'
  BY DEF SessionType, Revoked
<1>2. FoundOnChain'
  <2>1. obs.view \in StateOrNone /\ offered \in StateOrNone /\ work.res \in StateOrNone /\ Final \subseteq States
        /\ (work.at = "answered" => work.res # None)
    BY TrackerAssumption DEF SessionType, Work, Observation
  <2> QED BY <2>1 DEF FoundOnChain, StateOrNone
<1>3. ReadAfterDepth'
  <2>1. work.daa \subseteq Final
    BY DEF SessionType, Work
  <2> QED BY <2>1 DEF ReadAfterDepth, AgesGrow
<1>4. NextReadIsDue'
  BY DEF NextReadIsDue, Terminal
<1> QED BY <1>1, <1>2, <1>3, <1>4

(* invalidate() with wake(): nothing is shown, a read under way knows, and *)
(* another one is due.                                                     *)
LEMMA Invalidated ==
    ASSUME TrackerInv, AgesGrow, on, NEW utxo \in BOOLEAN, NEW anchor \in BOOLEAN, NEW revoke \in BOOLEAN,
           Invalidate(utxo, anchor, revoke), UNCHANGED <<on, address, candidate>>,
           \/ Wakes /\ UNCHANGED live
           \/ live' = "wait" /\ UNCHANGED timer
    PROVE  /\ StoreOK' /\ SessionType' /\ Revoked' /\ ReadAfterDepth' /\ NextReadIsDue'
           /\ obs' = NoObs /\ (~utxo => offered' = None) /\ (utxo => offered' = offered)
           /\ work'.at = work.at /\ work'.given = work.given /\ work'.res = work.res
           /\ work'.removed = work.removed
           /\ work.at # "none" => work'.soft /\ (~utxo => work'.hard) /\ (work.hard => work'.hard)
<1> DEFINE w == IF work.at = "none" THEN work
                ELSE [work EXCEPT !.soft = TRUE, !.hard = @ \/ ~utxo]
<1>1. obs' = NoObs /\ dirty' = TRUE /\ work' = w /\ offered' = (IF utxo THEN offered ELSE None)
      /\ checkpoint' = (IF anchor THEN None ELSE checkpoint) /\ StoreInvalidate(Revokes(revoke))
  BY DEF Invalidate
<1>2. work \in Work
  BY DEF TrackerInv, SessionType
<1>3. /\ w \in Work
      /\ w.at = work.at /\ w.given = work.given /\ w.res = work.res /\ w.removed = work.removed
      /\ w.daa = work.daa /\ w.complete = work.complete
      /\ work.at # "none" => w.soft /\ (~utxo => w.hard) /\ (work.hard => w.hard)
  BY <1>2 DEF Work
<1> HIDE DEF w
<1>4. timer' \in {"off", "wake", "interval"} /\ live' \in {"idle", "wait", "recheck"}
  BY DEF Wakes, TrackerInv, SessionType
<1>5. SessionType'
  BY <1>1, <1>3, <1>4, NoWorkTyped DEF TrackerInv, SessionType, NoObs
<1>6. Revoked'
  BY <1>1, <1>3 DEF Revoked, NoObs
<1>7. ReadAfterDepth'
  <2>1. work.daa \subseteq Final
    BY <1>2 DEF Work
  <2> QED BY <1>1, <1>3, <2>1 DEF TrackerInv, ReadAfterDepth, AgesGrow
<1>8. NextReadIsDue'
  BY <1>1, <1>3 DEF NextReadIsDue, Wakes
<1>9. StoreOK'
  BY <1>1, InvalidatedStore DEF TrackerInv
<1> QED BY <1>1, <1>3, <1>5, <1>6, <1>7, <1>8, <1>9

(* After the hard form nothing of what was found counts.                   *)
LEMMA HardlyInvalidated ==
    ASSUME obs' = NoObs, offered' = None, work'.at # "none" => work'.hard
    PROVE  FoundOnChain'
  BY DEF FoundOnChain, NoObs

(* run() after its timer, or for the reader of an action.                  *)
LEMMA Begins ==
    ASSUME TrackerInv, on, ~obs.settled, RunBegins,
           UNCHANGED <<nodeVars, notices, address, on, candidate, checkpoint, offered, obs, storeVars>>,
           live' \in {"idle", "wait", "recheck"}
    PROVE  TrackerInv'
<1> DEFINE w == [NoWork EXCEPT !.at = "begin"]
<1>1. work' = w /\ dirty' = FALSE /\ timer' = "off"
  BY DEF RunBegins
<1>2. w \in Work /\ w.at = "begin" /\ ~w.hard /\ ~w.soft /\ w.daa = {}
  BY NoWorkTyped DEF NoWork, Work
<1> HIDE DEF w
<1>3. NodeOK'
  BY QuietNode DEF TrackerInv, nodeVars
<1>4. AgesGrow
  BY SameAges DEF nodeVars
<1>5. StoreOK'
  BY <1>4, QuietStore DEF TrackerInv
<1>6. SessionType' /\ Revoked'
  BY <1>1, <1>2 DEF TrackerInv, SessionType, Revoked
<1>7. FoundOnChain'
  BY <1>1, <1>2, StillKnown DEF TrackerInv, FoundOnChain, nodeVars
<1>8. ReadAfterDepth' /\ NextReadIsDue'
  BY <1>1, <1>2 DEF ReadAfterDepth, NextReadIsDue
<1> QED BY <1>3, <1>5, <1>6, <1>7, <1>8 DEF TrackerInv

(* The end of a read, by what is observed then.                            *)
LEMMA Ends ==
    ASSUME TrackerInv, on, NEW after \in Observation, after.settled => after.view # None,
           RunEnds(after), obs' = after, dirty' \in BOOLEAN, dirty' => after = NoObs,
           UNCHANGED <<nodeVars, notices, on, live>>,
           address' \in StateOrNone, candidate' \in StateOrNone, checkpoint' \in StateOrNone,
           offered' \in {offered, None}, StoreOK',
           after.view # None => OnChainOrTold(after.view)'
    PROVE  TrackerInv'
<1>1. work' = NoWork /\ timer' = Armed(after)
  BY DEF RunEnds
<1>2. NodeOK'
  BY QuietNode DEF TrackerInv, nodeVars
<1>3. SessionType'
  BY <1>1, NoWorkTyped DEF TrackerInv, SessionType, Armed, NoWork
<1>4. Revoked'
  BY <1>1 DEF Revoked, NoWork, Armed
<1>5. FoundOnChain'
  BY <1>1, StillKnown DEF TrackerInv, FoundOnChain, NoWork, nodeVars
<1>6. ReadAfterDepth'
  BY <1>1 DEF ReadAfterDepth, NoWork
<1>7. NextReadIsDue'
  BY <1>1 DEF NextReadIsDue, Terminal, Armed, Observation
<1> QED BY <1>2, <1>3, <1>4, <1>5, <1>6, <1>7 DEF TrackerInv

LEMMA Failed ==
    ASSUME TrackerInv, on, NEW changed \in BOOLEAN, RunFails(changed),
           UNCHANGED <<nodeVars, notices, on, live, checkpoint>>, address' \in StateOrNone
    PROVE  TrackerInv'
<1>1. StoreOK'
  <2>1. AgesGrow
    BY SameAges DEF nodeVars
  <2> QED BY <2>1, InvalidatedStore DEF RunFails, TrackerInv
<1>2. /\ obs' = NoObs /\ offered' = None /\ dirty' = changed /\ RunEnds(NoObs)
      /\ candidate' \in StateOrNone /\ checkpoint' \in StateOrNone
  BY NoWorkTyped DEF RunFails, TrackerInv, SessionType
<1> QED BY <1>1, <1>2, NoWorkTyped, Ends DEF NoObs

(* The judgement of a read that is still on the chain, or was heard not to be. *)
LEMMA Judged ==
    ASSUME TrackerInv, on, work.at \in {"answered", "recheck"}, Judge(work),
           work.at = "recheck" => OnChainOrTold(work.res),
           UNCHANGED <<nodeVars, notices, on, live>>, address' \in StateOrNone
    PROVE  TrackerInv'
<1>1. work \in Work /\ work.res \in States /\ work.complete \in BOOLEAN /\ work.daa \subseteq Final
  BY DEF TrackerInv, SessionType, Work, StateOrNone
<1>2. CASE Displaced(work)
  BY <1>2, Failed DEF Judge
<1>3. CASE ~Displaced(work) /\ (work.hard \/ work.soft)
  <2>1. obs = NoObs
    BY <1>3 DEF TrackerInv, Revoked
  <2>2. /\ RunEnds(obs) /\ dirty' = TRUE /\ UNCHANGED <<obs, offered, storeVars>>
        /\ candidate' \in StateOrNone /\ checkpoint' \in StateOrNone
    BY <1>1, <1>3 DEF Judge, TrackerInv, SessionType, StateOrNone
  <2>3. StoreOK'
    BY <2>2, SameAges, QuietStore DEF TrackerInv, nodeVars
  <2> QED BY <2>1, <2>2, <2>3, NoWorkTyped, Ends DEF NoObs
<1>4. CASE ~Displaced(work) /\ ~work.hard /\ ~work.soft
  <2>1. PICK after : after = IF work.complete THEN [view |-> work.res, settled |-> Settles(work.res)] ELSE NoObs
    OBVIOUS
  <2>2. /\ obs' = after /\ dirty' = FALSE /\ candidate' = work.res /\ checkpoint' = work.res
        /\ Remember(work.res, work.complete, after.settled) /\ RunEnds(after) /\ UNCHANGED offered
    BY <1>4, <2>1 DEF Judge
  <2>3. /\ after \in Observation /\ after.settled \in BOOLEAN
        /\ after.settled => after.view # None /\ work.complete /\ work.res \in work.daa
        /\ after.view # None => after.view = work.res
    <3>1. CASE work.complete
      <4>1. Settles(work.res) \in BOOLEAN /\ (Settles(work.res) <=> work.res \in work.daa)
        BY DEF Settles
      <4>2. after = [view |-> work.res, settled |-> Settles(work.res)]
        BY <2>1, <3>1
      <4>3. after.view = work.res /\ after.settled = Settles(work.res)
        BY <4>2
      <4>4. after \in Observation
        BY <1>1, <4>1, <4>2 DEF Observation, StateOrNone
      <4> QED BY <1>1, <3>1, <4>1, <4>3, <4>4, NoWorkTyped
    <3>2. CASE ~work.complete
      BY <2>1, <3>2, NoWorkTyped DEF Observation, NoObs
    <3> QED BY <3>1, <3>2
  <2>4. after.settled => work.res \in Final /\ age[work.res] = 3
    BY <1>1, <2>3 DEF TrackerInv, ReadAfterDepth
  <2>5. StoreOK'
    BY <1>1, <2>2, <2>3, <2>4, SameAges, RememberedStore DEF TrackerInv, nodeVars
  <2>6. after.view # None => OnChainOrTold(after.view)'
    <3>1. OnChainOrTold(work.res)
      BY <1>4 DEF TrackerInv, FoundOnChain, Displaced
    <3> QED BY <3>1, <2>3, StillKnown DEF nodeVars
  <2>7. candidate' \in StateOrNone /\ checkpoint' \in StateOrNone
    BY <1>1, <2>2 DEF StateOrNone
  <2> QED BY <2>2, <2>3, <2>5, <2>6, <2>7, Ends
<1> QED BY <1>2, <1>3, <1>4

---------------------------------------------------------------------------
(* The steps of the tracker.                                               *)

LEMMA MoveStep == ASSUME TrackerInv, Move PROVE TrackerInv'
<1>1. PICK s \in States \ {tip} :
        MovesTo(s) /\ notices' = Append(notices, [removed |-> Path[tip] \ Path[s], utxo |-> address \in {tip, s}])
  BY DEF Move
<1>2. NodeOK' /\ AgesGrow
  <2>1. [removed |-> Path[tip] \ Path[s], utxo |-> address \in {tip, s}] \in Notice
    BY TrackerAssumption DEF Notice, TrackerInv, NodeOK
  <2>2. notices' \in Seq(Notice)
    BY <1>1, <2>1 DEF TrackerInv, NodeOK
  <2> QED BY <1>1, <2>2, MovingKeepsAges DEF TrackerInv, NodeOK
<1>3. \A t \in States : OnChainOrTold(t) => OnChainOrTold(t)'
  BY MoveTells DEF TrackerInv
<1>4. StoreOK'
  BY <1>2, QuietStore DEF Move, TrackerInv
<1> QED BY <1>2, <1>3, <1>4, SessionWaits DEF TrackerInv, Move

LEMMA DeepenStep == ASSUME TrackerInv, Deepen PROVE TrackerInv'
<1>1. PICK s \in Final : age[s] = 1 /\ age' = [age EXCEPT ![s] = IF s = tip THEN 3 ELSE 2]
  BY DEF Deepen
<1>2. UNCHANGED <<tip, untold, notices, address, sessionVars, storeVars>>
  BY DEF Deepen
<1>3. NodeOK' /\ AgesGrow
  BY <1>1, <1>2 DEF TrackerInv, NodeOK, AgesGrow
<1>4. \A t \in States : OnChainOrTold(t) => OnChainOrTold(t)'
  BY <1>2, StillKnown
<1> QED BY <1>2, <1>3, <1>4, QuietStore, SessionWaits DEF TrackerInv

LEMMA WriteOutStep == ASSUME TrackerInv, WriteOut PROVE TrackerInv'
<1>1. UNCHANGED <<tip, age, untold, notices, address, sessionVars>>
  BY DEF WriteOut, nodeVars
<1>2. NodeOK' /\ AgesGrow /\ \A t \in States : OnChainOrTold(t) => OnChainOrTold(t)'
  BY <1>1, QuietNode, SameAges, StillKnown DEF TrackerInv
<1>3. StoreOK'
  BY <1>1, NoRowDeep DEF WriteOut, TrackerInv, StoreOK, DeepRow
<1> QED BY <1>1, <1>2, <1>3, SessionWaits DEF TrackerInv

LEMMA DeliverStep == ASSUME TrackerInv, Deliver PROVE TrackerInv'
<1> DEFINE n == Head(notices)
           relevant == n.removed \cap AcceptingBlocks # {}
<1>1. /\ notices # <<>> /\ notices' = Tail(notices)
      /\ UNCHANGED <<tip, age, untold, address, on, candidate, live>>
  BY DEF Deliver, nodeVars
<1>2. NodeOK'
  BY <1>1, HeadIsNotice DEF TrackerInv, NodeOK
<1>3. AgesGrow
  BY <1>1, SameAges
<1>4. n \in Notice
  BY <1>1, HeadIsNotice DEF TrackerInv
<1>5. \A s : OnChainOrTold(s) /\ s \notin n.removed => OnChainOrTold(s)'
  BY <1>1, DeliverTells DEF TrackerInv
<1>6. work \in Work /\ Final \subseteq States
  BY TrackerAssumption DEF TrackerInv, SessionType
<1>7. ~relevant => /\ obs.view # None => obs.view \notin n.removed
                   /\ offered # None => offered \notin n.removed
                   /\ work.at = "answered" => work.res \notin n.removed
  BY DEF AcceptingBlocks, TrackerInv, SessionType
<1> HIDE DEF relevant
<1>8. CASE /\ ~on \/ (~relevant /\ (Terminal \/ ~n.utxo))
           /\ work' = IF on /\ Reading /\ ~Terminal THEN [work EXCEPT !.removed = @ \cup n.removed] ELSE work
           /\ UNCHANGED <<checkpoint, offered, obs, dirty, timer, storeVars>>
  <2>1. /\ work' \in Work /\ work'.at = work.at /\ work'.given = work.given /\ work'.res = work.res
        /\ work'.hard = work.hard /\ work'.soft = work.soft /\ work'.daa = work.daa
        /\ work'.complete = work.complete /\ work.removed \subseteq work'.removed
        /\ (work = NoWork => work' = NoWork)
    <3> DEFINE w == [work EXCEPT !.removed = @ \cup n.removed]
    <3>1. /\ w \in Work /\ w.at = work.at /\ w.given = work.given /\ w.res = work.res
          /\ w.hard = work.hard /\ w.soft = work.soft /\ w.daa = work.daa
          /\ w.complete = work.complete /\ work.removed \subseteq w.removed
      BY <1>4, <1>6 DEF Work, Notice
    <3>2. work = NoWork => ~Reading
      BY DEF Reading, NoWork
    <3> HIDE DEF w
    <3>3. work' \in {w, work} /\ (~Reading => work' = work)
      BY <1>8 DEF w
    <3> QED BY <1>6, <3>1, <3>2, <3>3
  <2>2. work.at = "ask" => n.removed \subseteq work'.removed
    BY <1>6, <1>8 DEF TrackerInv, SessionType, Revoked, Reading, Terminal, Work, NoWork
  <2>3. SessionType' /\ Revoked'
    BY <1>1, <1>8, <2>1 DEF TrackerInv, SessionType, Revoked
  <2>4. FoundOnChain'
    <3>1. CASE ~on
      BY <3>1, <1>1, <1>8 DEF TrackerInv, SessionType, FoundOnChain, NoWork, NoObs
    <3>2. CASE on
      <4>1. ~relevant
        BY <1>8, <3>2
      <4>2. obs'.view # None => OnChainOrTold(obs.view)'
        BY <1>5, <1>7, <1>8, <4>1 DEF TrackerInv, FoundOnChain
      <4>3. offered' # None => OnChainOrTold(offered)'
        BY <1>5, <1>7, <1>8, <4>1 DEF TrackerInv, FoundOnChain
      <4>4. work'.at = "ask" /\ work'.given \in Final =>
               \/ OnChainOrTold(work.given)' \/ work'.hard \/ work'.soft \/ work'.given \in work'.removed
        BY <1>5, <2>1, <2>2 DEF TrackerInv, FoundOnChain
      <4>5. work'.at = "answered" =>
               \/ OnChainOrTold(work.res)' \/ work'.hard \/ work'.res \in work'.removed
               \/ work'.soft /\ work'.res \in Final
        BY <1>5, <1>7, <2>1, <4>1 DEF TrackerInv, FoundOnChain
      <4> QED BY <1>8, <2>1, <4>2, <4>3, <4>4, <4>5 DEF FoundOnChain, OnChainOrTold
    <3> QED BY <3>1, <3>2
  <2>5. ReadAfterDepth' /\ NextReadIsDue'
    BY <1>1, <1>8, <2>1 DEF TrackerInv, ReadAfterDepth, NextReadIsDue, Terminal
  <2>6. StoreOK'
    BY <1>3, <1>8, QuietStore DEF TrackerInv
  <2> QED BY <1>2, <2>3, <2>4, <2>5, <2>6 DEF TrackerInv
<1>9. CASE on /\ relevant /\ Invalidate(FALSE, TRUE, Terminal) /\ Wakes
  <2>1. Terminal \in BOOLEAN
    BY DEF Terminal, TrackerInv, SessionType, Observation
  <2> QED BY <1>1, <1>2, <1>3, <1>9, <2>1, Invalidated, HardlyInvalidated DEF TrackerInv
<1>10. CASE on /\ ~relevant /\ ~Terminal /\ n.utxo /\ Invalidate(TRUE, FALSE, FALSE) /\ Wakes
  <2>1. /\ StoreOK' /\ SessionType' /\ Revoked' /\ ReadAfterDepth' /\ NextReadIsDue'
        /\ obs' = NoObs /\ offered' = offered
        /\ work'.at = work.at /\ work'.given = work.given /\ work'.res = work.res
        /\ work'.removed = work.removed
        /\ work.at # "none" => work'.soft /\ (work.hard => work'.hard)
    BY <1>1, <1>3, <1>10, Invalidated
  <2>2. FoundOnChain'
    <3>1. offered' # None => OnChainOrTold(offered)'
      BY <1>5, <1>7, <1>10, <2>1 DEF TrackerInv, FoundOnChain
    <3>2. work'.at = "answered" =>
             \/ OnChainOrTold(work.res)' \/ work'.hard \/ work'.res \in work'.removed
             \/ work'.soft /\ work'.res \in Final
      BY <1>5, <1>7, <1>10, <2>1 DEF TrackerInv, FoundOnChain
    <3> QED BY <2>1, <3>1, <3>2 DEF FoundOnChain, NoObs, OnChainOrTold
  <2> QED BY <1>2, <2>1, <2>2 DEF TrackerInv
<1> QED BY <1>8, <1>9, <1>10 DEF Deliver, relevant

LEMMA GapStep == ASSUME TrackerInv, Gap PROVE TrackerInv'
<1>1. notices' = <<>> /\ UNCHANGED <<address, on, candidate, live>>
  BY DEF Gap
<1>2. NodeOK' /\ AgesGrow
  <2>1. notices' \in Seq(Notice)
    BY <1>1
  <2>2. CASE UNCHANGED nodeVars
    BY <2>1, <2>2, SameAges DEF TrackerInv, NodeOK, nodeVars
  <2>3. CASE \E s \in States \ {tip} : MovesTo(s)
    BY <2>1, <2>3, MovingKeepsAges DEF TrackerInv, NodeOK
  <2> QED BY <2>2, <2>3 DEF Gap
<1>3. CASE on
  BY <1>1, <1>2, <1>3, Invalidated, HardlyInvalidated DEF Gap, TrackerInv
<1>4. CASE ~on
  <2>1. UNCHANGED <<sessionVars, storeVars>>
    BY <1>1, <1>4 DEF Gap, sessionVars
  <2>2. SessionType' /\ Revoked' /\ ReadAfterDepth' /\ NextReadIsDue'
    BY <1>1, <1>2, <1>4, <2>1 DEF TrackerInv, SessionType, Revoked, ReadAfterDepth, NextReadIsDue,
                                  sessionVars, NoWork, NoObs
  <2>3. FoundOnChain'
    BY <1>4, <2>1 DEF TrackerInv, SessionType, FoundOnChain, sessionVars, NoWork, NoObs
  <2> QED BY <1>2, <2>1, <2>2, <2>3, QuietStore DEF TrackerInv
<1> QED BY <1>3, <1>4 DEF TrackerInv, SessionType

(* Steps of the session that leave the node, and what is shown, alone: it  *)
(* is enough to look at the read in progress.                              *)
LEMMA Reads ==
    ASSUME TrackerInv, on, UNCHANGED <<nodeVars, notices, on, obs, timer, live, storeVars>>,
           address' \in StateOrNone, candidate' \in StateOrNone, checkpoint' \in StateOrNone,
           offered' \in {offered, None}, dirty' = dirty \/ dirty' = FALSE,
           work' \in Work, work.at # "none", work'.at # "none",
           work'.at \in {"answered", "recheck"} => work'.res # None,
           work'.hard \/ work'.soft => work.hard \/ work.soft,
           FoundOnChain', ReadAfterDepth'
    PROVE  TrackerInv'
<1>1. NodeOK' /\ StoreOK'
  BY QuietNode, SameAges, QuietStore DEF TrackerInv, nodeVars
<1>2. SessionType'
  BY NoWorkTyped DEF TrackerInv, SessionType
<1>3. Revoked'
  BY DEF TrackerInv, Revoked
<1>4. NextReadIsDue'
  BY DEF NextReadIsDue
<1> QED BY <1>1, <1>2, <1>3, <1>4 DEF TrackerInv

LEMMA WorkerIsOn == ASSUME TrackerInv, work.at # "none" \/ live # "idle" \/ obs # NoObs PROVE on
  BY DEF TrackerInv, SessionType, NoWork

LEMMA OfferStep == ASSUME TrackerInv, Offer PROVE TrackerInv'
<1>1. UNCHANGED <<tip, age, notices, address, on, checkpoint, live>> /\ untold' = FALSE
  BY DEF Offer
<1>2. NodeOK' /\ AgesGrow
  BY <1>1, SameAges DEF TrackerInv, NodeOK
<1>3. \A s \in States : OnChainOrTold(s) => OnChainOrTold(s)'
  BY <1>1, StillKnown
<1>4. CASE UNCHANGED <<candidate, offered, obs, dirty, timer, work, storeVars>>
  BY <1>1, <1>2, <1>3, <1>4, QuietStore, SessionWaits DEF TrackerInv, sessionVars
<1>5. ASSUME ~Known, obs' = NoObs, dirty' = TRUE, offered' = tip,
             work' = IF work.at = "none" THEN work ELSE [work EXCEPT !.soft = TRUE],
             candidate' = (IF work.at # "none" \/ live # "idle" THEN candidate ELSE tip),
             StoreInvalidate(Revokes(FALSE)),
             timer' = IF work.at # "none" \/ live # "idle" THEN timer ELSE "wake"
      PROVE  TrackerInv'
  <2>1. on
    BY <1>5 DEF Known
  <2>2. /\ work' \in Work /\ work'.at = work.at /\ work'.given = work.given /\ work'.res = work.res
        /\ work'.hard = work.hard /\ work'.removed = work.removed /\ work'.daa = work.daa
        /\ work'.complete = work.complete /\ (work.soft => work'.soft) /\ (work.at # "none" => work'.soft)
    BY <1>5 DEF TrackerInv, SessionType, Work
  <2>3. tip \in States /\ tip \in StateOrNone /\ tip \in Path[tip]
    BY TipOnItsPath DEF TrackerInv, NodeOK, StateOrNone
  <2>4. candidate' \in StateOrNone /\ timer' \in {"off", "wake", "interval"}
    BY <1>5, <2>3 DEF TrackerInv, SessionType
  <2>5. SessionType'
    BY <1>1, <1>5, <2>1, <2>2, <2>3, <2>4, NoWorkTyped DEF TrackerInv, SessionType, NoObs
  <2>6. Revoked' /\ NextReadIsDue'
    BY <1>1, <1>5, <2>2 DEF Revoked, NextReadIsDue, NoObs
  <2>7. FoundOnChain'
    BY <1>1, <1>3, <1>5, <2>2, <2>3 DEF TrackerInv, FoundOnChain, NoObs, OnChainOrTold
  <2>8. ReadAfterDepth'
    BY <1>1, <2>2 DEF TrackerInv, ReadAfterDepth
  <2> QED BY <1>2, <1>5, <2>5, <2>6, <2>7, <2>8, InvalidatedStore DEF TrackerInv
<1> QED BY <1>4, <1>5 DEF Offer

LEMMA TimerFiresStep == ASSUME TrackerInv, TimerFires PROVE TrackerInv'
  BY Begins DEF TimerFires, Terminal, TrackerInv, SessionType

LEMMA RunErrorStep == ASSUME TrackerInv, RunError PROVE TrackerInv'
  BY WorkerIsOn, Failed DEF RunError, TrackerInv, SessionType

LEMMA RunWatchesStep == ASSUME TrackerInv, RunWatches PROVE TrackerInv'
<1>1. PICK c \in Candidates : candidate' = c /\ address' = IF c \in Final THEN None ELSE c
  BY DEF RunWatches
<1>2. c \in StateOrNone
  BY NoWorkTyped DEF Candidates, TrackerInv, SessionType, StoreOK, DeepRow, Row, StateOrNone
<1>3. candidate' \in StateOrNone /\ address' \in StateOrNone
  BY <1>1, <1>2 DEF StateOrNone
<1>4. on /\ work.at = "begin"
  BY WorkerIsOn DEF RunWatches
<1>5. /\ UNCHANGED <<nodeVars, notices, on, checkpoint, offered, obs, timer, live, storeVars>> /\ dirty' = FALSE
      /\ work' \in Work /\ work'.at = "watched" /\ ~work'.soft /\ work'.hard = work.hard /\ work'.daa = work.daa
  BY DEF RunWatches, TrackerInv, SessionType, Work
<1>6. FoundOnChain' /\ ReadAfterDepth'
  BY <1>5, StillKnown DEF TrackerInv, FoundOnChain, ReadAfterDepth, nodeVars
<1>7. checkpoint' \in StateOrNone
  BY <1>5 DEF TrackerInv, SessionType
<1> QED BY <1>3, <1>4, <1>5, <1>6, <1>7, Reads

LEMMA RunAsksStep == ASSUME TrackerInv, RunAsks PROVE TrackerInv'
<1>1. PICK given \in {None, offered} :
        work' = [work EXCEPT !.at = "ask", !.hard = FALSE, !.given = given, !.daa = {s \in Final : age[s] >= 2}]
  BY DEF RunAsks
<1>2. on /\ work.at = "watched"
  BY WorkerIsOn DEF RunAsks
<1>3. /\ UNCHANGED <<nodeVars, notices, address, on, candidate, checkpoint, obs, dirty, timer, live, storeVars>>
      /\ offered' = None
      /\ address' \in StateOrNone /\ candidate' \in StateOrNone /\ checkpoint' \in StateOrNone
  BY DEF RunAsks, TrackerInv, SessionType
<1>4. /\ work' \in Work /\ work'.at = "ask" /\ ~work'.hard /\ work'.soft = work.soft /\ work'.given = given
      /\ work'.daa = {s \in Final : age[s] >= 2}
  BY <1>1, NoWorkTyped DEF TrackerInv, SessionType, Work
<1>5. FoundOnChain'
  <2>1. given # None => OnChainOrTold(given)'
    BY <1>3, StillKnown DEF TrackerInv, FoundOnChain, nodeVars
  <2>2. given \in Final => given # None
    BY TrackerAssumption
  <2> QED BY <1>3, <1>4, <2>1, <2>2, StillKnown DEF TrackerInv, FoundOnChain, nodeVars, OnChainOrTold
<1>6. ReadAfterDepth'
  BY <1>3, <1>4 DEF ReadAfterDepth, nodeVars
<1> QED BY <1>2, <1>3, <1>4, <1>5, <1>6, Reads

(* A result that is on the chain, or was heard to be removed, and that     *)
(* settles only with the depth of the block it was read in.                *)
LEMMA AnsweredStep ==
    ASSUME TrackerInv, work.at = "ask", NEW res \in States, NEW complete \in BOOLEAN, Answered(res, complete),
           UNCHANGED <<nodeVars, notices, address, on, offered, obs, dirty, timer, live, storeVars>>,
           OnChainOrTold(res) \/ work.hard \/ res \in work.removed \/ (work.soft /\ res \in Final),
           complete /\ res \in work.daa => age[res] = 3
    PROVE  TrackerInv'
<1>1. on
  BY WorkerIsOn
<1>2. /\ work' \in Work /\ work'.at = "answered" /\ work'.res = res /\ work'.complete = complete
      /\ work'.hard = work.hard /\ work'.soft = work.soft /\ work'.removed = work.removed /\ work'.daa = work.daa
  BY DEF Answered, TrackerInv, SessionType, Work, StateOrNone
<1>3. candidate' \in StateOrNone /\ checkpoint' \in StateOrNone /\ address' \in StateOrNone /\ res # None
  BY NoWorkTyped DEF Answered, TrackerInv, SessionType, StateOrNone
<1>4. FoundOnChain'
  <2>1. OnChainOrTold(res) => OnChainOrTold(res)'
    BY StillKnown DEF nodeVars
  <2> QED BY <1>2, <2>1, StillKnown DEF TrackerInv, FoundOnChain, nodeVars, OnChainOrTold
<1>5. ReadAfterDepth'
  BY <1>2 DEF TrackerInv, ReadAfterDepth, nodeVars
<1> QED BY <1>1, <1>2, <1>3, <1>4, <1>5, Reads

LEMMA RunIsAnsweredStep == ASSUME TrackerInv, RunIsAnswered PROVE TrackerInv'
<1>1. work.at = "ask" /\ UNCHANGED <<nodeVars, notices, address, on, offered, obs, dirty, timer, live, storeVars>>
  BY DEF RunIsAnswered
<1>2. Final \subseteq States /\ tip \in States /\ tip \in Path[tip] /\ Path[tip] \subseteq States
      /\ Path[tip] \cap Final \subseteq {tip}
  BY TrackerAssumption DEF TrackerInv, NodeOK
<1>3. CASE HandedOver
  <2>1. CASE ReadsAgain(work.given)
    <3>1. /\ work' \in Work /\ work'.at = "ask" /\ work'.given = None /\ work'.hard = work.hard
          /\ work'.soft = work.soft /\ work'.daa = work.daa /\ UNCHANGED <<candidate, checkpoint>>
      BY <1>1, <1>3, <2>1, NoWorkTyped DEF HandedOver, TrackerInv, SessionType, Work
    <3>2. FoundOnChain' /\ ReadAfterDepth'
      BY <1>1, <3>1, StillKnown, TrackerAssumption DEF TrackerInv, FoundOnChain, ReadAfterDepth, nodeVars
    <3>3. candidate' \in StateOrNone /\ checkpoint' \in StateOrNone /\ address' \in StateOrNone
      BY <1>1, <3>1 DEF TrackerInv, SessionType
    <3> QED BY <1>1, <3>1, <3>2, <3>3, WorkerIsOn, Reads
  <2>2. CASE ~ReadsAgain(work.given)
    <3>1. work.given \in Final /\ Answered(work.given, TRUE) /\ work.given \notin work.daa
      BY <1>3, <2>2 DEF HandedOver, ReadsAgain, Settles
    <3>2. OnChainOrTold(work.given) \/ work.hard \/ work.soft \/ work.given \in work.removed
      BY <1>1, <3>1 DEF TrackerInv, FoundOnChain
    <3> QED BY <1>1, <1>2, <3>1, <3>2, AnsweredStep
  <2> QED BY <2>1, <2>2
<1>4. CASE Followed
  <2>1. OnChainOrTold(tip)
    BY <1>2 DEF OnChainOrTold
  <2>2. tip \in work.daa => age[tip] = 3
    <3>1. work.daa \subseteq Final
      BY DEF TrackerInv, SessionType, Work
    <3> QED BY <3>1 DEF TrackerInv, NodeOK, ReadAfterDepth
  <2> QED BY <1>1, <1>2, <1>4, <2>1, <2>2, AnsweredStep DEF Followed
<1>5. CASE CatchesUp
  <2>1. PICK s \in Path[tip] \ {tip} : Answered(s, FALSE)
    BY <1>5 DEF CatchesUp
  <2>2. OnChainOrTold(s) /\ s \in States
    BY <1>2 DEF OnChainOrTold
  <2> QED BY <1>1, <2>1, <2>2, AnsweredStep
<1> QED BY <1>3, <1>4, <1>5 DEF RunIsAnswered

LEMMA RunRewatchesStep == ASSUME TrackerInv, RunRewatches PROVE TrackerInv'
<1>1. /\ work.at = "answered" /\ UNCHANGED <<nodeVars, notices, on, live>> /\ on
      /\ address' \in StateOrNone
  BY WorkerIsOn, NoWorkTyped DEF RunRewatches, TrackerInv, SessionType, Work
<1>2. CASE Covers
  <2>1. /\ work' \in Work /\ work'.at = "recheck" /\ work'.hard = work.hard /\ ~work'.soft
        /\ work'.res = work.res /\ work'.daa = work.daa /\ work'.complete = work.complete
        /\ UNCHANGED <<candidate, checkpoint, offered, obs, dirty, timer, storeVars>>
        /\ candidate \in StateOrNone /\ checkpoint \in StateOrNone /\ work.res # None
    <3>1. work \in Work /\ candidate \in StateOrNone /\ checkpoint \in StateOrNone /\ work.res # None
      BY <1>1 DEF TrackerInv, SessionType
    <3>2. work' = [work EXCEPT !.at = "recheck", !.soft = FALSE]
          /\ UNCHANGED <<candidate, checkpoint, offered, obs, dirty, timer, storeVars>>
      BY <1>2 DEF RunRewatches
    <3> QED BY <3>1, <3>2 DEF Work
  <2>2. FoundOnChain' /\ ReadAfterDepth'
    BY <1>1, <2>1, StillKnown DEF TrackerInv, FoundOnChain, ReadAfterDepth, nodeVars
  <2> QED BY <1>1, <2>1, <2>2, Reads
<1>3. CASE ~Covers
  BY <1>1, <1>3, Judged DEF RunRewatches
<1> QED BY <1>2, <1>3

LEMMA RunRechecksStep == ASSUME TrackerInv, RunRechecks PROVE TrackerInv'
<1>1. /\ work.at = "recheck" /\ UNCHANGED <<nodeVars, notices, address, on, live>> /\ on
      /\ address' \in StateOrNone
  BY WorkerIsOn DEF RunRechecks, TrackerInv, SessionType
<1>2. CASE tip = work.res
  <2>1. OnChainOrTold(work.res)
    BY <1>2, TipOnItsPath DEF TrackerInv, OnChainOrTold
  <2> QED BY <1>1, <1>2, <2>1, Judged DEF RunRechecks
<1>3. CASE tip # work.res
  BY <1>1, <1>3, Failed DEF RunRechecks
<1> QED BY <1>2, <1>3

LEMMA LiveCalledStep == ASSUME TrackerInv, LiveCalled PROVE TrackerInv'
<1>1. /\ on /\ live = "idle" /\ live' \in {"wait", "recheck"}
      /\ UNCHANGED <<nodeVars, notices, address, on, candidate, checkpoint, offered, obs, storeVars>>
  BY DEF LiveCalled
<1>2. CASE RunBegins /\ work.at = "none" /\ (timer = "wake" \/ ~ObservationCurrent)
  <2>1. ~obs.settled
    BY <1>2 DEF TrackerInv, SessionType, Revoked, ObservationCurrent, NoObs, Observation
  <2> QED BY <1>1, <1>2, <2>1, Begins
<1>3. CASE UNCHANGED <<work, dirty>> /\ timer' \in {timer, "off"}
  <2>1. NodeOK' /\ StoreOK'
    BY <1>1, QuietNode, SameAges, QuietStore DEF TrackerInv, nodeVars
  <2>2. SessionType'
    BY <1>1, <1>3 DEF TrackerInv, SessionType
  <2>3. Revoked' /\ ReadAfterDepth' /\ NextReadIsDue'
    BY <1>1, <1>3 DEF TrackerInv, Revoked, ReadAfterDepth, NextReadIsDue, nodeVars
  <2>4. FoundOnChain'
    BY <1>1, <1>3, StillKnown DEF TrackerInv, FoundOnChain, nodeVars, OnChainOrTold
  <2> QED BY <2>1, <2>2, <2>3, <2>4 DEF TrackerInv
<1> QED BY <1>2, <1>3 DEF LiveCalled

LEMMA LiveEndsStep == ASSUME TrackerInv, LiveEnds PROVE TrackerInv'
<1>1. /\ on /\ live' = "idle"
      /\ UNCHANGED <<nodeVars, notices, address, on, candidate, checkpoint, offered, obs, dirty, work, storeVars>>
      /\ timer' = IF on /\ ~Terminal /\ work.at = "none" /\ timer # "wake" THEN "interval" ELSE timer
  BY WorkerIsOn DEF LiveEnds
<1>2. NodeOK' /\ StoreOK'
  BY <1>1, QuietNode, SameAges, QuietStore DEF TrackerInv, nodeVars
<1>3. SessionType'
  BY <1>1 DEF TrackerInv, SessionType
<1>4. Revoked' /\ NextReadIsDue'
  BY <1>1 DEF TrackerInv, SessionType, Revoked, NextReadIsDue, Terminal
<1>5. ReadAfterDepth'
  BY <1>1 DEF TrackerInv, ReadAfterDepth, nodeVars
<1>6. FoundOnChain'
  BY <1>1, StillKnown DEF TrackerInv, FoundOnChain, nodeVars, OnChainOrTold
<1> QED BY <1>2, <1>3, <1>4, <1>5, <1>6 DEF TrackerInv

LEMMA LiveAgainStep == ASSUME TrackerInv, LiveAgain PROVE TrackerInv'
<1>1. on /\ ~obs.settled
  BY WorkerIsOn DEF LiveAgain, TrackerInv, SessionType, Revoked, ObservationCurrent, NoObs, Observation
<1> QED BY <1>1, Begins DEF LiveAgain, TrackerInv, SessionType

LEMMA LiveIsStaleStep == ASSUME TrackerInv, LiveIsStale PROVE TrackerInv'
<1>1. on /\ live' = "wait" /\ UNCHANGED <<nodeVars, notices, address, upsets, on, candidate, timer>>
  BY WorkerIsOn DEF LiveIsStale
<1>2. NodeOK' /\ AgesGrow
  BY <1>1, QuietNode, SameAges DEF TrackerInv, nodeVars
<1>3. CASE obs.view # None
  BY <1>1, <1>2, <1>3, Invalidated, HardlyInvalidated DEF LiveIsStale, TrackerInv
<1>4. CASE obs.view = None
  <2>1. UNCHANGED <<obs, dirty, work, offered, checkpoint, storeVars>>
    BY <1>4 DEF LiveIsStale
  <2>2. SessionType' /\ Revoked' /\ NextReadIsDue'
    BY <1>1, <2>1 DEF TrackerInv, SessionType, Revoked, NextReadIsDue
  <2>3. FoundOnChain' /\ ReadAfterDepth'
    BY <1>1, <2>1, StillKnown DEF TrackerInv, FoundOnChain, ReadAfterDepth, nodeVars, OnChainOrTold
  <2> QED BY <1>2, <2>1, <2>2, <2>3, QuietStore DEF TrackerInv
<1> QED BY <1>3, <1>4

LEMMA SessionStep == ASSUME TrackerInv, Session PROVE TrackerInv' /\ UNCHANGED on
<1>1. TrackerInv'
  BY DeliverStep, GapStep, OfferStep, TimerFiresStep, RunErrorStep, RunWatchesStep, RunAsksStep,
     RunIsAnsweredStep, RunRewatchesStep, RunRechecksStep, LiveCalledStep, LiveEndsStep, LiveAgainStep,
     LiveIsStaleStep DEF Session, RunStep
<1>2. UNCHANGED on
  BY DEF Session, RunStep, Deliver, Gap, Offer, TimerFires, RunError, RunWatches, RunAsks, RunIsAnswered,
         RunRewatches, RunRechecks, LiveCalled, LiveEnds, LiveAgain, LiveIsStale
<1> QED BY <1>1, <1>2

LEMMA NodeStep ==
    ASSUME TrackerInv, Move \/ Deepen \/ WriteOut
    PROVE  TrackerInv' /\ UNCHANGED on
  BY MoveStep, DeepenStep, WriteOutStep DEF Move, Deepen, WriteOut, sessionVars

---------------------------------------------------------------------------
(* The steps of the page: what closes a session and what opens one leaves  *)
(* nothing of the last.                                                    *)

LEMMA OpensOrCloses ==
    ASSUME TrackerInv, UNCHANGED <<tip, age, untold, notices>>, Closes, on' \in BOOLEAN,
           \/ work' = NoWork /\ timer' = IF on' THEN "wake" ELSE "off"
           \/ on' /\ work' = [NoWork EXCEPT !.at = "begin"] /\ timer' = "off"
    PROVE  TrackerInv'
<1>1. /\ candidate' = None /\ checkpoint' = None /\ offered' = None /\ address' = None
      /\ obs' = NoObs /\ dirty' = FALSE /\ live' = "idle"
      /\ StoreInvalidate(Revokes(FALSE)) \/ UNCHANGED storeVars
  BY DEF Closes
<1>2. /\ work' \in Work /\ work'.at \in {"none", "begin"} /\ ~work'.hard /\ ~work'.soft /\ work'.daa = {}
      /\ (work'.at = "none" => timer' # "off" \/ ~on') /\ (~on' => work' = NoWork /\ timer' = "off")
      /\ timer' \in {"off", "wake"}
  <2>1. CASE work' = NoWork /\ timer' = IF on' THEN "wake" ELSE "off"
    BY <2>1, NoWorkTyped DEF NoWork
  <2>2. CASE on' /\ work' = [NoWork EXCEPT !.at = "begin"] /\ timer' = "off"
    BY <2>2, NoWorkTyped DEF NoWork, Work
  <2> QED BY <2>1, <2>2
<1>3. NodeOK' /\ StoreOK'
  BY <1>1, QuietNode, SameAges, QuietStore, InvalidatedStore DEF TrackerInv
<1>4. SessionType'
  BY <1>1, <1>2, NoWorkTyped DEF SessionType, NoObs
<1>5. Revoked' /\ FoundOnChain' /\ ReadAfterDepth' /\ NextReadIsDue'
  BY <1>1, <1>2 DEF Revoked, FoundOnChain, ReadAfterDepth, NextReadIsDue, NoObs
<1> QED BY <1>3, <1>4, <1>5 DEF TrackerInv

LEMMA StartedStep ==
    ASSUME TrackerInv, UNCHANGED <<tip, age, untold, notices>>, NEW begun \in BOOLEAN, Started(begun)
    PROVE  TrackerInv' /\ on'
  BY OpensOrCloses DEF Started

LEMMA StoppedStep ==
    ASSUME TrackerInv, UNCHANGED <<tip, age, untold, notices>>, Stopped
    PROVE  TrackerInv' /\ ~on'
  BY OpensOrCloses DEF Stopped

LEMMA TrackerWaits ==
    ASSUME TrackerInv, UNCHANGED <<tip, age, untold, notices, address, sessionVars, storeVars>>
    PROVE  TrackerInv' /\ UNCHANGED on
<1>1. NodeOK' /\ AgesGrow /\ \A s \in States : OnChainOrTold(s) => OnChainOrTold(s)'
  BY QuietNode, SameAges, StillKnown DEF TrackerInv
<1> QED BY <1>1, QuietStore, SessionWaits DEF TrackerInv, sessionVars

(* What a page step does to the tracker, whatever the recovery is at.      *)
LEMMA TracksStep ==
    ASSUME TrackerInv, UNCHANGED <<tip, age, untold, notices>>, NEW shown, NEW begun \in BOOLEAN,
           visible \in BOOLEAN, Tracks(shown, begun)
    PROVE  /\ TrackerInv' /\ detail' = shown
           /\ visible /\ shown # "final" => on' /\ UNCHANGED recovering
           /\ ~(visible /\ shown # "final") => ~on' /\ recovering' = (recovering /\ ~visible)
<1>1. CASE visible /\ shown # "final"
  BY <1>1, StartedStep DEF Tracks
<1>2. CASE ~(visible /\ shown # "final")
  BY <1>2, StoppedStep DEF Tracks
<1> QED BY <1>1, <1>2

LEMMA ReloadTracker == ASSUME TrackerInv, Reload PROVE TrackerInv'
<1>1. /\ on' = FALSE /\ candidate' = None /\ checkpoint' = None /\ offered' = None
      /\ obs' = NoObs /\ dirty' = FALSE /\ timer' = "off" /\ work' = NoWork /\ live' = "idle"
      /\ address' = None /\ notices' = <<>> /\ untold' = FALSE
      /\ row' = Loaded /\ flight' = NoRow /\ UNCHANGED <<tip, age, disk>>
  BY DEF Reload
<1>2. NodeOK'
  <2>1. notices' \in Seq(Notice)
    BY <1>1
  <2> QED BY <1>1, <2>1 DEF TrackerInv, NodeOK
<1>3. StoreOK'
  <2>1. DeepRow(Loaded) /\ DeepRow(NoRow) /\ DeepRow(disk)
    BY LoadedRow, NoRowDeep DEF TrackerInv, StoreOK
  <2> QED BY <1>1, <2>1 DEF StoreOK, DeepRow
<1>4. SessionType'
  BY <1>1, NoWorkTyped DEF SessionType, NoObs, NoWork
<1>5. Revoked' /\ FoundOnChain' /\ ReadAfterDepth' /\ NextReadIsDue'
  BY <1>1 DEF Revoked, FoundOnChain, ReadAfterDepth, NextReadIsDue, NoObs, NoWork
<1> QED BY <1>2, <1>3, <1>4, <1>5 DEF TrackerInv

(* schedule() sets no timer but for a recovery that is asked for, and sets *)
(* it unless something else is waited for.                                 *)
LEMMA Scheduled ==
    ASSUME NEW r \in Recovery,
           visible' \in BOOLEAN, executing' \in BOOLEAN
    PROVE  /\ Schedules(r) \in Recovery
           /\ Schedules(r).dirty = r.dirty /\ Schedules(r).work = r.work
           /\ Schedules(r).timer => r.timer \/ (r.dirty /\ visible')
           /\ r.timer => Schedules(r).timer
           /\ r.dirty /\ visible' => executing' \/ Schedules(r).timer \/ r.work # "none"
<1> DEFINE b == r.timer \/ (r.dirty /\ r.work = "none" /\ visible' /\ ~executing')
<1>1. b \in BOOLEAN
  BY DEF Recovery
<1>2. Schedules(r) = [dirty |-> r.dirty, timer |-> b, work |-> r.work]
  BY DEF Schedules, Recovery
<1>3. /\ Schedules(r).dirty = r.dirty /\ Schedules(r).timer = b /\ Schedules(r).work = r.work
  BY <1>2
<1>4. Schedules(r) \in Recovery
  BY <1>1, <1>2 DEF Recovery
<1> QED BY <1>3, <1>4

(* The end of a recovery's work.                                           *)
LEMMA EndedStep ==
    ASSUME PageType, Ended
    PROVE  /\ recovery' \in Recovery
           /\ recovery'.dirty = recovery.dirty /\ recovery'.work = "none"
           /\ recovery'.timer => recovery'.dirty /\ visible
           /\ RecoveryIsDue' /\ UNCHANGED <<visible, executing>>
<1> DEFINE r == [recovery EXCEPT !.work = "none"]
<1>1. /\ r \in Recovery
      /\ r.dirty = recovery.dirty /\ r.timer = recovery.timer /\ r.work = "none"
  BY DEF PageType, Recovery
<1>2. UNCHANGED <<visible, executing>> /\ recovery' = Schedules(r)
  BY DEF Ended
<1>3. visible' \in BOOLEAN /\ executing' \in BOOLEAN
  BY <1>2 DEF PageType
<1> HIDE DEF r
<1> QED BY <1>1, <1>2, <1>3, Scheduled DEF Recovery, PageType, RecoveryIsDue

(* request(), by an event with the page visible.                           *)
LEMMA RequestStep ==
    ASSUME TrackerInv, PageType, visible' = TRUE, UNCHANGED executing, Request, UNCHANGED <<opening, detail>>,
           SharesWork => visible /\ WaitsForRecovery /\ RecoveryIsDue
    PROVE  TrackerInv' /\ PageInv'
<1>1. CASE SharesWork
  <2>1. TrackerInv' /\ UNCHANGED on
    BY <1>1, TrackerWaits DEF Request, nodeVars
  <2>2. PageType' /\ WaitsForRecovery' /\ RecoveryIsDue'
    BY <1>1, <2>1 DEF Request, SharesWork, PageType, WaitsForRecovery, Untracked, RecoveryIsDue
  <2> QED BY <2>1, <2>2 DEF PageInv
<1>2. CASE ~SharesWork
  <2> DEFINE r == [recovery EXCEPT !.dirty = TRUE]
  <2>1. recovery' = Schedules(r) /\ Marks /\ Stopped /\ UNCHANGED <<nodeVars, notices>>
    BY <1>2 DEF Request
  <2>2. /\ r \in Recovery
        /\ r.dirty /\ r.timer = recovery.timer /\ r.work = recovery.work
    BY DEF PageType, Recovery
  <2>3. visible' \in BOOLEAN /\ executing' \in BOOLEAN /\ recovery.work \in {"none", "old"}
    BY <1>2 DEF Recovery, PageType, SharesWork
  <2> HIDE DEF r
  <2>4. TrackerInv' /\ ~on'
    BY <2>1, StoppedStep DEF nodeVars
  <2>5. recovering' \in BOOLEAN /\ (detail = "shown" => recovering')
    BY <2>1 DEF Marks, PageType
  <2>6. PageType' /\ WaitsForRecovery' /\ RecoveryIsDue'
    BY <2>1, <2>2, <2>3, <2>5, Scheduled DEF Recovery, PageType, WaitsForRecovery, Untracked, RecoveryIsDue
  <2> QED BY <2>4, <2>6 DEF PageInv
<1> QED BY <1>1, <1>2

LEMMA OpenedStep == ASSUME IInv, Opened PROVE IInv'
<1>1. PICK d \in {"final", "shown", "none"} : Tracks(d, FALSE)
  BY DEF Opened
<1>2. /\ opening' = FALSE /\ UNCHANGED <<tip, age, untold, notices, visible, executing, recovery>>
  BY DEF Opened, nodeVars
<1>3. TrackerInv /\ PageType /\ RecoveryIsDue
  BY DEF IInv, PageInv
<1>4. /\ TrackerInv' /\ detail' = d
      /\ visible /\ d # "final" => on' /\ UNCHANGED recovering
      /\ ~(visible /\ d # "final") => ~on' /\ recovering' = (recovering /\ ~visible)
  BY <1>1, <1>2, <1>3, TracksStep DEF PageType
<1>5. PageInv'
  BY <1>2, <1>3, <1>4 DEF PageInv, PageType, WaitsForRecovery, Untracked, RecoveryIsDue
<1> QED BY <1>4, <1>5 DEF IInv

LEMMA FlushStep == ASSUME IInv, Flush PROVE IInv'
<1>1. /\ recovery.timer /\ UNCHANGED <<trackerVars, visible, opening, detail, recovering, executing>>
  BY DEF Flush
<1>2. TrackerInv' /\ UNCHANGED on
  BY <1>1, TrackerWaits DEF IInv, trackerVars, nodeVars
<1>3. CASE ~executing
  <2> DEFINE r == [dirty |-> FALSE, timer |-> FALSE, work |-> IF detail = "final" THEN "records" ELSE "round"]
  <2>1. recovery' = r
    BY <1>3 DEF Flush, IInv, PageInv, PageType
  <2>2. r \in Recovery /\ ~r.dirty /\ ~r.timer /\ (detail = "shown" => r.work = "round") /\ r.work # "none"
    BY DEF Recovery
  <2> HIDE DEF r
  <2> QED BY <1>1, <1>2, <2>1, <2>2 DEF IInv, PageInv, PageType, WaitsForRecovery, Untracked, RecoveryIsDue
<1>4. CASE executing
  <2>1. /\ recovery' \in Recovery /\ recovery'.dirty = recovery.dirty /\ recovery'.work = recovery.work
        /\ ~recovery'.timer
    BY <1>4 DEF Flush, IInv, PageInv, PageType, Recovery
  <2> QED BY <1>1, <1>2, <1>4, <2>1 DEF IInv, PageInv, PageType, WaitsForRecovery, Untracked, RecoveryIsDue
<1> QED BY <1>3, <1>4 DEF IInv, PageInv, PageType

LEMMA ProbeAnswersStep == ASSUME IInv, ProbeAnswers PROVE IInv'
<1>1. TrackerInv /\ PageType /\ WaitsForRecovery /\ RecoveryIsDue /\ UNCHANGED <<tip, age, untold, notices, opening>>
  BY DEF ProbeAnswers, IInv, PageInv, nodeVars
<1>2. CASE recovery.work = "records" /\ Ended /\ UNCHANGED <<address, sessionVars, storeVars, detail, recovering>>
  <2>1. TrackerInv' /\ UNCHANGED on
    BY <1>1, <1>2, TrackerWaits
  <2>2. PageType' /\ WaitsForRecovery' /\ RecoveryIsDue'
    BY <1>1, <1>2, <2>1, EndedStep DEF PageType, WaitsForRecovery, Untracked
  <2> QED BY <2>1, <2>2 DEF IInv, PageInv
<1>3. CASE /\ recovery.work = "round" /\ Tracks(detail, TRUE)
           /\ recovery' = [recovery EXCEPT !.work = "detail"] /\ UNCHANGED <<visible, executing>>
  <2>1. visible /\ TrackerInv' /\ detail' = detail /\ (detail # "final" => on' /\ UNCHANGED recovering)
        /\ (detail = "final" => recovering' = FALSE)
    BY <1>1, <1>3, TracksStep DEF PageType
  <2>2. recovery' \in Recovery /\ recovery'.dirty = recovery.dirty /\ recovery'.work = "detail"
        /\ recovery'.timer = recovery.timer
    BY <1>1, <1>3 DEF PageType, Recovery
  <2>3. PageType' /\ WaitsForRecovery' /\ RecoveryIsDue'
    BY <1>1, <1>3, <2>1, <2>2 DEF PageType, WaitsForRecovery, Untracked, RecoveryIsDue
  <2> QED BY <2>1, <2>3 DEF IInv, PageInv
<1> QED BY <1>2, <1>3 DEF ProbeAnswers

LEMMA ProbeFailsStep == ASSUME IInv, ProbeFails PROVE IInv'
<1>1. /\ TrackerInv /\ PageType /\ WaitsForRecovery /\ RecoveryIsDue
      /\ UNCHANGED <<tip, age, untold, notices, opening>> /\ recovery.work \in {"records", "round"} /\ Ended
  BY DEF ProbeFails, IInv, PageInv, nodeVars
<1>2. /\ recovery' \in Recovery /\ recovery'.dirty = recovery.dirty /\ recovery'.work = "none"
      /\ recovery'.timer => recovery'.dirty /\ visible
      /\ RecoveryIsDue' /\ UNCHANGED <<visible, executing>>
  BY <1>1, EndedStep
<1>3. CASE TracksAfterAll
  <2>1. TrackerInv' /\ detail' = detail /\ (detail # "final" => on' /\ UNCHANGED recovering)
        /\ (detail = "final" => recovering' = FALSE)
    BY <1>1, <1>3, TracksStep DEF ProbeFails, PageType
  <2>2. PageType' /\ WaitsForRecovery'
    BY <1>1, <1>2, <2>1 DEF PageType, WaitsForRecovery, Untracked
  <2> QED BY <1>2, <2>1, <2>2 DEF IInv, PageInv
<1>4. CASE ~TracksAfterAll
  <2>1. UNCHANGED <<address, sessionVars, storeVars, detail, recovering>>
    BY <1>4 DEF ProbeFails
  <2>2. TrackerInv' /\ UNCHANGED on
    BY <1>1, <2>1, TrackerWaits
  <2>3. ~Untracked
    BY <1>1, <1>4 DEF TracksAfterAll, WaitsForRecovery, Untracked
  <2>4. PageType' /\ WaitsForRecovery'
    BY <1>1, <1>2, <2>1, <2>2, <2>3 DEF PageType, WaitsForRecovery, Untracked
  <2> QED BY <1>2, <2>2, <2>4 DEF IInv, PageInv
<1> QED BY <1>3, <1>4

LEMMA RecoveryEndsStep == ASSUME IInv, RecoveryEnds PROVE IInv'
<1>1. /\ PageType /\ WaitsForRecovery /\ Ended /\ recovery.work \in {"old", "detail"}
      /\ UNCHANGED <<trackerVars, opening, detail, recovering>>
  BY DEF RecoveryEnds, IInv, PageInv
<1>2. TrackerInv' /\ UNCHANGED on
  BY <1>1, TrackerWaits DEF IInv, trackerVars, nodeVars
<1>3. PageType' /\ WaitsForRecovery' /\ RecoveryIsDue'
  BY <1>1, <1>2, EndedStep DEF PageType, WaitsForRecovery, Untracked
<1> QED BY <1>2, <1>3 DEF IInv, PageInv

LEMMA OnlineStep == ASSUME IInv, Online PROVE IInv'
  BY RequestStep DEF Online, IInv, PageInv

LEMMA ShowStep == ASSUME IInv, Show PROVE IInv'
  BY RequestStep DEF Show, IInv, PageInv, PageType, SharesWork

LEMMA HideStep == ASSUME IInv, Hide PROVE IInv'
<1>1. PageType /\ visible' = FALSE /\ recovery' = Paused /\ Marks /\ Stopped
      /\ UNCHANGED <<tip, age, untold, notices, opening, detail, executing>>
  BY DEF Hide, IInv, PageInv, nodeVars
<1>2. TrackerInv' /\ ~on'
  BY <1>1, StoppedStep DEF IInv
<1>3. recovery' \in Recovery /\ ~recovery'.dirty /\ ~recovery'.timer /\ recovery'.work \in {"none", "old"}
  BY <1>1 DEF Paused, NoRecovery, Recovery
<1>4. recovering' \in BOOLEAN
  BY <1>1 DEF Marks, PageType
<1>5. PageInv'
  BY <1>1, <1>3, <1>4 DEF PageInv, PageType, WaitsForRecovery, Untracked, RecoveryIsDue
<1> QED BY <1>2, <1>5 DEF IInv

LEMMA RetryStep == ASSUME IInv, Retry PROVE IInv'
<1>1. Started(FALSE) /\ UNCHANGED <<tip, age, untold, notices, visible, opening, detail, recovering, executing, recovery>>
  BY DEF Retry, nodeVars
<1>2. TrackerInv' /\ on'
  BY <1>1, StartedStep DEF IInv
<1>3. PageInv'
  BY <1>1, <1>2 DEF IInv, PageInv, PageType, WaitsForRecovery, Untracked, RecoveryIsDue
<1> QED BY <1>2, <1>3 DEF IInv

LEMMA ExecuteStep == ASSUME IInv, Execute PROVE IInv'
<1>1. /\ executing' = TRUE
      /\ UNCHANGED <<tip, age, untold, notices, address, sessionVars, storeVars>>
      /\ UNCHANGED <<visible, opening, detail, recovering, recovery>>
  BY DEF Execute, nodeVars
<1>2. TrackerInv' /\ UNCHANGED on
  BY <1>1, TrackerWaits DEF IInv
<1>3. PageInv'
  BY <1>1, <1>2 DEF IInv, PageInv, PageType, WaitsForRecovery, Untracked, RecoveryIsDue
<1> QED BY <1>2, <1>3 DEF IInv

LEMMA ExecutionEndsStep == ASSUME IInv, ExecutionEnds PROVE IInv'
<1>1. /\ executing' = FALSE /\ recovery' = Schedules(recovery)
      /\ UNCHANGED <<trackerVars, visible, opening, detail, recovering>>
  BY DEF ExecutionEnds, HeldUp
<1>2. TrackerInv' /\ UNCHANGED on
  BY <1>1, TrackerWaits DEF IInv, trackerVars, nodeVars
<1>3. PageType /\ WaitsForRecovery /\ RecoveryIsDue /\ visible' \in BOOLEAN /\ executing' \in BOOLEAN
  BY <1>1 DEF IInv, PageInv, PageType
<1>4. PageType' /\ WaitsForRecovery' /\ RecoveryIsDue'
  BY <1>1, <1>2, <1>3, Scheduled DEF PageType, WaitsForRecovery, Untracked, RecoveryIsDue
<1> QED BY <1>2, <1>4 DEF IInv, PageInv

LEMMA ReloadStep == ASSUME IInv, Reload PROVE IInv'
<1>1. TrackerInv'
  BY ReloadTracker DEF IInv
<1>2. /\ visible' = TRUE /\ opening' = TRUE /\ detail' = "none" /\ recovering' = FALSE
      /\ executing' = FALSE /\ recovery' = NoRecovery
  BY DEF Reload
<1>3. PageInv'
  BY <1>2 DEF PageInv, PageType, WaitsForRecovery, Untracked, RecoveryIsDue, NoRecovery, Recovery
<1> QED BY <1>1, <1>3 DEF IInv

(* A step of the session shows what it publishes; without a session it     *)
(* shows nothing new.                                                      *)
LEMMA ShowsStep == ASSUME IInv, Session, Shows PROVE IInv'
<1>1. TrackerInv' /\ UNCHANGED on
  BY SessionStep DEF IInv
<1>2. /\ recovering' = (recovering /\ obs'.view = None)
      /\ UNCHANGED <<visible, opening, executing, recovery>>
  BY DEF Shows
<1>3. detail' \in {"none", "shown", "final"}
  BY DEF Shows, IInv, PageInv, PageType
<1>4. ~on => obs = NoObs /\ obs' = NoObs /\ work.at = "none" /\ work'.at = "none"
  BY <1>1 DEF IInv, TrackerInv, SessionType, NoWork
<1>5. ~on => detail' = detail
  BY <1>4 DEF Shows, NoObs, Terminal
<1>6. PageInv'
  BY <1>1, <1>2, <1>3, <1>4, <1>5 DEF IInv, PageInv, PageType, WaitsForRecovery, Untracked, RecoveryIsDue, NoObs
<1> QED BY <1>1, <1>6 DEF IInv

LEMMA NodeMoves == ASSUME IInv, Move \/ Deepen \/ WriteOut, UNCHANGED pageVars PROVE IInv'
<1>1. TrackerInv' /\ UNCHANGED on
  BY NodeStep DEF IInv
<1>2. PageInv'
  BY <1>1 DEF IInv, PageInv, PageType, WaitsForRecovery, Untracked, RecoveryIsDue, pageVars
<1> QED BY <1>1, <1>2 DEF IInv

LEMMA Stutters == ASSUME IInv, UNCHANGED vars PROVE IInv'
<1>1. TrackerInv' /\ UNCHANGED on
  BY TrackerWaits DEF IInv, vars, trackerVars, nodeVars
<1>2. PageInv'
  BY <1>1 DEF IInv, PageInv, PageType, WaitsForRecovery, Untracked, RecoveryIsDue, vars, pageVars
<1> QED BY <1>1, <1>2 DEF IInv

---------------------------------------------------------------------------

LEMMA Starts == Init => IInv
<1> SUFFICES ASSUME Init PROVE IInv
  OBVIOUS
<1> USE DEF Init, TrackerInit
<1>1. NodeOK
  <2>1. notices \in Seq(Notice)
    OBVIOUS
  <2> QED BY <2>1, TrackerAssumption DEF NodeOK
<1>2. StoreOK
  BY NoRowDeep DEF StoreOK
<1>3. SessionType
  BY NoWorkTyped DEF SessionType, NoObs, NoWork
<1>4. Revoked /\ FoundOnChain /\ ReadAfterDepth /\ NextReadIsDue
  BY DEF Revoked, FoundOnChain, ReadAfterDepth, NextReadIsDue, NoObs, NoWork
<1>5. PageInv
  BY DEF PageInv, PageType, WaitsForRecovery, Untracked, RecoveryIsDue, NoRecovery, Recovery
<1> QED BY <1>1, <1>2, <1>3, <1>4, <1>5 DEF IInv, TrackerInv

LEMMA Steps == IInv /\ [Next]_vars => IInv'
  BY NodeMoves, ShowsStep, OpenedStep, FlushStep, ProbeAnswersStep, ProbeFailsStep, RecoveryEndsStep,
     OnlineStep, HideStep, ShowStep, RetryStep, ExecuteStep, ExecutionEndsStep, ReloadStep, Stutters DEF Next

(* The invariant the results below are read off, over every reorganisation,*)
(* gap, failed read, hidden page, reload and interleaving of them.         *)
THEOREM PageInvariant == Spec => []IInv
  BY Starts, Steps, PTL DEF Spec

(* Types of the page, the session, the node and the store, and that a      *)
(* closed session leaves nothing to run (RoundTracker.stop).               *)
THEOREM PageTypes == Spec => []TypeOK
<1>1. IInv => TypeOK
  BY DEF IInv, TrackerInv, NodeOK, StoreOK, DeepRow, SessionType, PageInv, PageType, Recovery, Observation,
         Work, Row, StateOrNone, TypeOK
<1> QED BY <1>1, PageInvariant, PTL

(* What a session shows as current is on the selected chain once the       *)
(* notices sent so far have arrived, whatever was read while they did      *)
(* (round-tracker.mjs).                                                    *)
THEOREM CurrentStaysOnChain == Spec => []CurrentIsOnChain
<1>1. IInv => CurrentIsOnChain
  BY DEF IInv, TrackerInv, FoundOnChain, OnChainOrTold, CurrentIsOnChain, ObservationCurrent
<1> QED BY <1>1, PageInvariant, PTL

(* An open session that has not settled is never left without a next read  *)
(* (round-tracker.mjs, wake(), run() and currentLive()).                   *)
THEOREM ReadsStayDue == Spec => []NextReadIsDue
<1>1. IInv => NextReadIsDue
  BY DEF IInv, TrackerInv
<1> QED BY <1>1, PageInvariant, PTL

(* A result is kept as settled, in memory, on its way or in the database,  *)
(* only after its block was deep on the selected chain (terminal-state.mjs,*)
(* round-store.mjs); no crash or reorg between the reads makes it less.    *)
THEOREM SettledStaysDeep == Spec => []SettledWasDeep
<1>1. IInv => SettledWasDeep
  BY DEF IInv, TrackerInv, StoreOK, DeepRow, SettledWasDeep
<1> QED BY <1>1, PageInvariant, PTL

(* A round that is shown and not settled has a session once no recovery is *)
(* asked for or under way (app.mjs, foreground-recovery.mjs), also when    *)
(* the probe of the recovery failed.                                       *)
THEOREM RecoveredStaysTracked == Spec => []RecoveredIsTracked
<1>1. IInv => RecoveredIsTracked
  BY DEF IInv, PageInv, WaitsForRecovery, Untracked, RecoveredIsTracked, Quiet, NoRecovery
<1> QED BY <1>1, PageInvariant, PTL

(* A recovery that was asked for is due, or waits for something that will  *)
(* set its timer (foreground-recovery.mjs, schedule()).                    *)
THEOREM RecoveryStaysDue == Spec => []RecoveryIsDue
<1>1. IInv => RecoveryIsDue
  BY DEF IInv, PageInv
<1> QED BY <1>1, PageInvariant, PTL
=============================================================================
