----------------------- MODULE AcceptanceReads_proofs -----------------------
(***************************************************************************)
(* Proofs about AcceptanceReads for any blocks, any number of sessions at  *)
(* the same time, and any number of changes and faults: the types, that a  *)
(* proof whose scope is current is true at the node once its notices have  *)
(* arrived, and that the follow loop does not sleep over a location.       *)
(*                                                                         *)
(* The coverage is what joins the link and the sessions: who listens       *)
(* without being strict has it, and while there is one the node is         *)
(* subscribed to, so that whatever it removes is in a notice on its way.   *)
(***************************************************************************)
EXTENDS AcceptanceReads, TLAPS

BlockOrNone == Blocks \cup {NoBlock}
ChainNotice == [removed : SUBSET Blocks, added : BlockOrNone]
Connection == [open : BOOLEAN, served : Scopes, cover : BOOLEAN, notices : Seq(ChainNotice)]

LinkType ==
    /\ at \in BlockOrNone /\ primary \in Connection
    /\ watched \in BOOLEAN /\ lease \in BOOLEAN
    /\ changes \in 0 .. MaxChanges /\ Len(primary.notices) <= changes
    /\ primary.cover => primary.served # "off"

Reading == [at : {"free", "hold", "ask", "answered", "open"}, asked : BlockOrNone, got : BlockOrNone,
            strict : BOOLEAN, removed : SUBSET Blocks, dead : BOOLEAN]

SessionsType ==
    /\ session \in [Sessions -> Reading]
    /\ cached \in Sessions \cup {NoSession}
    /\ cached # NoSession => session[cached].at = "open"

Loop == [at : {"off", "wait", "asleep", "look", "read", "hold"}, s : Sessions \cup {NoSession},
         block : BlockOrNone, notice : BOOLEAN, known : BlockOrNone, seen : BlockOrNone]

FollowType ==
    /\ hint \in BlockOrNone /\ last \in BlockOrNone /\ news \in BOOLEAN
    /\ follow \in Loop
    /\ follow.at \in {"read", "hold"} <=> follow.s # NoSession

(* The node's chain still has b, or its notice that it has not is on its   *)
(* way.                                                                    *)
StandsOrTold(b) == b = at \/ \E i \in 1 .. Len(primary.notices) : b \in primary.notices[i].removed

(* What a session that is not dead relies on.                              *)
Relies(r) ==
    /\ r.at \in {"ask", "answered", "open"} /\ ~r.dead /\ ~r.strict => primary.cover
    /\ r.at \in {"answered", "open"} /\ ~r.dead /\ ~r.strict /\ r.got # NoBlock => StandsOrTold(r.got)
    /\ r.at = "open" /\ ~r.dead => r.got # NoBlock

SessionsRely == \A s \in Sessions : Relies(session[s])

(* A location that came since the loop last looked is news, or one the     *)
(* page's own reads told.                                                  *)
HintIsNews == ~news => hint \in {NoBlock, follow.seen, last}

IInv == LinkType /\ SessionsType /\ FollowType /\ SessionsRely /\ HintIsNews

---------------------------------------------------------------------------
(* The link.                                                               *)

LEMMA FreshTyped ==
    /\ NoBlock \in BlockOrNone /\ NoBlock \notin Blocks
    /\ Fresh \in Connection /\ Closed \in Connection /\ ~Fresh.cover /\ ~Closed.cover
    /\ Fresh.notices = <<>> /\ Closed.notices = <<>> /\ Len(<<>>) = 0
    /\ Fresh.served = "off" /\ Closed.served = "off"
<1>1. <<>> \in Seq(ChainNotice)
  OBVIOUS
<1> QED BY <1>1, LinkAssumption DEF BlockOrNone, Fresh, Closed, Connection, Scopes

LEMMA AnotherNode ==
    ASSUME LinkType, OfAnotherNode
    PROVE  at' \in BlockOrNone /\ changes' \in 0 .. MaxChanges
  BY LinkAssumption DEF LinkType, OfAnotherNode, BlockOrNone

LEMMA LinkChangesType == ASSUME LinkType, Connect \/ DropPrimary \/ CloseIdle PROVE LinkType'
<1>1. CASE Connect
  BY <1>1, FreshTyped, AnotherNode DEF Connect, LinkType
<1>2. CASE DropPrimary
  <2>1. PICK standby \in Standbys :
          /\ primary' = standby /\ (IF standby.open THEN OfAnotherNode ELSE UNCHANGED <<at, changes>>)
    BY <1>2 DEF DropPrimary
  <2>2. standby \in Connection /\ Len(standby.notices) = 0 /\ (standby.cover => standby.served # "off")
    BY FreshTyped DEF Standbys, Connection, Scopes
  <2>3. at' \in BlockOrNone /\ changes' \in 0 .. MaxChanges
    BY <2>1, AnotherNode DEF LinkType
  <2>4. watched' \in BOOLEAN /\ lease' \in BOOLEAN
    BY <1>2 DEF DropPrimary, LinkType
  <2>5. Len(primary'.notices) <= changes'
    BY <2>1, <2>2, <2>3, LinkAssumption
  <2> QED BY <2>1, <2>2, <2>3, <2>4, <2>5 DEF LinkType
<1>3. CASE CloseIdle
  <2>1. primary' = Closed /\ lease' = FALSE /\ UNCHANGED <<at, watched, changes>>
    BY <1>3 DEF CloseIdle
  <2>2. Len(primary'.notices) <= changes'
    BY <2>1, FreshTyped, LinkAssumption DEF LinkType
  <2> QED BY <2>1, <2>2, FreshTyped DEF LinkType
<1> QED BY <1>1, <1>2, <1>3

(* Steps of the subscription: what is under way stays, and coverage is     *)
(* only under one.                                                         *)
LEMMA SubscriptionType ==
    ASSUME LinkType, Subscribe \/ SubscribeFails \/ Revoke \/ Unsubscribe
    PROVE  /\ LinkType' /\ UNCHANGED at /\ primary'.notices = primary.notices
           /\ Subscribe \/ Unsubscribe => (primary.cover => primary'.cover)
<1>1. Wanted \in Scopes
  BY DEF Wanted, Scopes
<1>2. CASE Subscribe
  <2>1. primary' = [primary EXCEPT !.served = Wanted, !.cover = TRUE] /\ Wanted # "off"
        /\ UNCHANGED <<at, watched, lease, changes, faults>>
    BY <1>2 DEF Subscribe, Behind
  <2>2. primary' \in Connection /\ primary'.notices = primary.notices /\ primary'.cover /\ primary'.served # "off"
    BY <1>1, <2>1 DEF LinkType, Connection
  <2> QED BY <2>1, <2>2 DEF LinkType
<1>3. CASE SubscribeFails
  <2>1. PICK scope \in {primary.served, Wanted} : primary' = [primary EXCEPT !.served = scope, !.cover = FALSE]
    BY <1>3 DEF SubscribeFails
  <2>2. primary' \in Connection /\ primary'.notices = primary.notices /\ ~primary'.cover
    BY <1>1, <2>1 DEF LinkType, Connection
  <2>3. UNCHANGED <<at, watched, lease, changes>>
    BY <1>3 DEF SubscribeFails
  <2>4. ~Subscribe /\ (Unsubscribe => (primary.cover => primary'.cover))
    BY <2>1, <2>2 DEF Subscribe, Unsubscribe, MayUnsubscribe, LinkType, Connection
  <2> QED BY <2>2, <2>3, <2>4 DEF LinkType
<1>4. CASE Revoke
  <2>1. primary' = [primary EXCEPT !.cover = FALSE] /\ Wanted = "off" /\ UNCHANGED <<at, watched, lease, changes, faults>>
    BY <1>4 DEF Revoke
  <2>2. primary' \in Connection /\ primary'.notices = primary.notices /\ ~primary'.cover
    BY <2>1 DEF LinkType, Connection
  <2>3. ~Subscribe /\ (Unsubscribe => ~primary.cover)
    BY <2>1 DEF Subscribe, Behind, Unsubscribe, MayUnsubscribe
  <2> QED BY <2>1, <2>2, <2>3 DEF LinkType
<1>5. CASE Unsubscribe
  <2>1. primary' = [primary EXCEPT !.served = "off"] /\ ~primary.cover
        /\ UNCHANGED <<at, watched, lease, changes, faults>>
    BY <1>5 DEF Unsubscribe, MayUnsubscribe
  <2>2. primary' \in Connection /\ primary'.notices = primary.notices /\ ~primary'.cover
    BY <2>1 DEF LinkType, Connection, Scopes
  <2> QED BY <2>1, <2>2 DEF LinkType
<1> QED BY <1>2, <1>3, <1>4, <1>5

(* A change of the chain under a coverage is told.                         *)
LEMMA ChainMovesTells ==
    ASSUME LinkType, ChainMoves
    PROVE  /\ LinkType' /\ primary'.cover = primary.cover
           /\ primary.cover => \A b \in Blocks : StandsOrTold(b) => StandsOrTold(b)'
<1>1. /\ changes' = changes + 1 /\ changes' \in 0 .. MaxChanges /\ at' \in BlockOrNone \ {at}
      /\ UNCHANGED <<watched, lease, faults>>
  BY LinkAssumption DEF ChainMoves, BlockOrNone, LinkType
<1>2. CASE primary.served = "off"
  <2>1. primary' = primary /\ Len(primary.notices) \in Nat
    BY <1>2 DEF ChainMoves, LinkType, Connection
  <2>2. Len(primary'.notices) <= changes'
    BY <1>1, <2>1 DEF LinkType
  <2> QED BY <1>1, <1>2, <2>1, <2>2 DEF LinkType
<1>3. CASE primary.served # "off"
  <2> DEFINE n == [removed |-> {at} \ {NoBlock}, added |-> IF primary.served = "all" THEN at' ELSE NoBlock]
  <2>1. n \in ChainNotice
    BY <1>1, FreshTyped DEF ChainNotice, LinkType, BlockOrNone
  <2>2. primary' = [primary EXCEPT !.notices = Append(@, n)]
    BY <1>3 DEF ChainMoves
  <2>3. primary.notices \in Seq(ChainNotice)
    BY DEF LinkType, Connection
  <2> DEFINE ns == Append(primary.notices, n)
  <2>4. /\ ns \in Seq(ChainNotice) /\ Len(ns) = Len(primary.notices) + 1 /\ Len(primary.notices) \in Nat
        /\ ns[Len(primary.notices) + 1] = n
        /\ \A i \in 1 .. Len(primary.notices) : ns[i] = primary.notices[i]
    BY <2>1, <2>3
  <2>5. n.removed = {at} \ {NoBlock}
    OBVIOUS
  <2> HIDE DEF n, ns
  <2>6. primary' = [primary EXCEPT !.notices = ns]
    BY <2>2 DEF ns
  <2>7. primary' \in Connection /\ primary'.notices = ns /\ primary'.cover = primary.cover
        /\ primary'.served = primary.served
    BY <2>4, <2>6 DEF LinkType, Connection
  <2>8. LinkType'
    <3>1. Len(primary'.notices) <= changes'
      BY <1>1, <2>4, <2>7 DEF LinkType
    <3> QED BY <1>1, <1>3, <2>7, <3>1 DEF LinkType
  <2>9. ASSUME NEW b \in Blocks, StandsOrTold(b) PROVE StandsOrTold(b)'
    <3>1. CASE b = at
      <4>1. b \in ns[Len(primary.notices) + 1].removed
        BY <2>4, <2>5, <3>1, FreshTyped
      <4> QED BY <2>4, <2>7, <4>1 DEF StandsOrTold
    <3>2. CASE b # at
      <4>1. PICK i \in 1 .. Len(primary.notices) : b \in primary.notices[i].removed
        BY <2>9, <3>2 DEF StandsOrTold
      <4>2. i \in 1 .. Len(ns) /\ b \in ns[i].removed
        BY <2>4, <4>1
      <4> QED BY <2>7, <4>2 DEF StandsOrTold
    <3> QED BY <3>1, <3>2
  <2> QED BY <2>7, <2>8, <2>9
<1> QED BY <1>2, <1>3 DEF LinkType

LEMMA ReceiveTells ==
    ASSUME LinkType, primary.notices # <<>>, NEW cover \in BOOLEAN, cover => primary.cover,
           primary' = [primary EXCEPT !.notices = Tail(@), !.cover = cover],
           UNCHANGED <<at, watched, lease, changes>>
    PROVE  /\ LinkType' /\ primary'.cover = cover /\ Notice \in ChainNotice
           /\ \A b \in Blocks : StandsOrTold(b) /\ b \notin Notice.removed => StandsOrTold(b)'
<1>1. primary.notices \in Seq(ChainNotice) /\ primary.notices # <<>>
  BY DEF LinkType, Connection
<1> DEFINE ns == Tail(primary.notices)
<1>2. /\ ns \in Seq(ChainNotice) /\ Len(ns) = Len(primary.notices) - 1 /\ Len(primary.notices) \in Nat \ {0}
      /\ \A i \in 1 .. Len(primary.notices) - 1 : ns[i] = primary.notices[i + 1]
      /\ Notice = primary.notices[1] /\ Notice \in ChainNotice
  BY <1>1 DEF Notice
<1> HIDE DEF ns
<1>3. primary' = [primary EXCEPT !.notices = ns, !.cover = cover]
  BY DEF ns
<1>4. primary' \in Connection /\ primary'.notices = ns /\ primary'.cover = cover /\ primary'.served = primary.served
  BY <1>2, <1>3 DEF LinkType, Connection
<1>5. LinkType'
  BY <1>2, <1>4 DEF LinkType
<1>6. ASSUME NEW b \in Blocks, StandsOrTold(b), b \notin Notice.removed PROVE StandsOrTold(b)'
  <2>1. CASE b = at
    BY <2>1 DEF StandsOrTold
  <2>2. CASE b # at
    <3>1. PICK i \in 1 .. Len(primary.notices) : b \in primary.notices[i].removed
      BY <1>6, <2>2 DEF StandsOrTold
    <3>2. i # 1
      BY <1>2, <1>6, <3>1
    <3>3. i - 1 \in 1 .. Len(ns) /\ b \in ns[i - 1].removed
      <4>1. i \in Nat /\ i - 1 \in 1 .. Len(primary.notices) - 1 /\ (i - 1) + 1 = i
        BY <1>2, <3>1, <3>2
      <4> QED BY <1>2, <3>1, <4>1
    <3> QED BY <1>4, <3>3 DEF StandsOrTold
  <2> QED BY <2>1, <2>2
<1> QED BY <1>2, <1>4, <1>5, <1>6

LEMMA QuietLink ==
    ASSUME LinkType, UNCHANGED <<at, primary, watched, changes>>, lease' \in BOOLEAN
    PROVE  LinkType'
  BY DEF LinkType

---------------------------------------------------------------------------
(* The sessions.                                                           *)

(* Nobody relies on a session that is free or dead.                        *)
Gone(r) == r.at \in {"free", "hold"} \/ r.dead

LEMMA GoneRelies == ASSUME NEW r, r.at \in {"free", "hold"} \/ r.dead PROVE Relies(r) /\ Relies(r)'
  BY DEF Relies

LEMMA StillRelies ==
    ASSUME LinkType, NEW r \in Reading, Relies(r), primary.cover => primary'.cover,
           primary.cover => \A b \in Blocks : b = r.got /\ StandsOrTold(b) => StandsOrTold(b)'
    PROVE  Relies(r)'
<1>1. r.got # NoBlock => r.got \in Blocks
  BY DEF Reading, BlockOrNone
<1> QED BY <1>1 DEF Relies

LEMMA QuietlyRelies ==
    ASSUME LinkType, NEW r \in Reading, Relies(r), UNCHANGED <<at, primary>>
    PROVE  Relies(r)'
  BY DEF Relies, StandsOrTold

LEMMA FreeTyped == Free \in Reading /\ Gone(Free) /\ Free.at = "free"
  BY FreshTyped DEF Free, Reading, Gone

LEMMA EndedIsGone ==
    ASSUME SessionsType, NEW s \in Sessions
    PROVE  Ended(s) \in Reading /\ Gone(Ended(s)) /\ (Ended(s).at = session[s].at \/ Ended(s).at = "free")
  BY FreshTyped DEF SessionsType, Ended, Free, Reading, Gone

(* Sessions end, the others rely on what is left of the link.              *)
LEMMA EndsStep ==
    ASSUME SessionsType, NEW who \in SUBSET Sessions, Ends(who),
           \A s \in Sessions \ who : \A r \in Reading : r = session[s] => Relies(r)'
    PROVE  SessionsType' /\ SessionsRely'
<1>1. /\ session' = [s \in Sessions |-> IF s \in who THEN Ended(s) ELSE session[s]]
      /\ cached' = IF cached \in who THEN NoSession ELSE cached
  BY DEF Ends, CachedWithout
<1>2. \A s \in Sessions : session'[s] \in Reading
  BY <1>1, EndedIsGone DEF SessionsType
<1>3. SessionsType'
  BY <1>1, <1>2, ReadsAssumption DEF SessionsType
<1>4. ASSUME NEW s \in Sessions PROVE Relies(session[s])'
  <2>1. PICK r : r = session'[s]
    OBVIOUS
  <2>2. CASE s \in who
    <3>1. Gone(r)
      BY <1>1, <2>1, <2>2, EndedIsGone
    <3> QED BY <2>1, <3>1, GoneRelies DEF Gone, Relies
  <2>3. CASE s \notin who
    <3>1. r = session[s] /\ r \in Reading
      BY <1>1, <2>1, <2>3 DEF SessionsType
    <3>2. Relies(r)'
      BY <2>3, <3>1
    <3> QED BY <2>1, <3>2 DEF Relies
  <2> QED BY <2>2, <2>3
<1> QED BY <1>3, <1>4 DEF SessionsRely

(* One session takes a step, over a quiet link.                            *)
LEMMA SessionTakes ==
    ASSUME LinkType, SessionsType, SessionsRely, UNCHANGED <<at, primary>>,
           NEW s \in Sessions, NEW r \in Reading, session' = [session EXCEPT ![s] = r], Relies(r)',
           cached' \in Sessions \cup {NoSession}, cached' # NoSession => session'[cached'].at = "open"
    PROVE  SessionsType' /\ SessionsRely'
<1>1. session' \in [Sessions -> Reading]
  BY DEF SessionsType
<1>2. ASSUME NEW q \in Sessions PROVE Relies(session[q])'
  <2>1. CASE q = s
    BY <2>1 DEF SessionsType, Relies
  <2>2. CASE q # s
    BY <2>2 DEF SessionsType, SessionsRely, Relies, StandsOrTold
  <2> QED BY <2>1, <2>2
<1> QED BY <1>1, <1>2 DEF SessionsType, SessionsRely

LEMMA SessionsWait ==
    ASSUME SessionsType, SessionsRely, UNCHANGED <<at, primary, session>>,
           cached' \in {cached, NoSession}
    PROVE  SessionsType' /\ SessionsRely'
<1>1. SessionsType'
  BY DEF SessionsType
<1>2. SessionsRely'
  BY DEF SessionsRely, Relies, StandsOrTold
<1> QED BY <1>1, <1>2

---------------------------------------------------------------------------
(* The link's steps.                                                       *)

(* A gap signals, whoever it ends.                                         *)
LEMMA GapStep ==
    ASSUME FollowType, Invalidate, UNCHANGED follow, last' \in BlockOrNone
    PROVE  FollowType' /\ HintIsNews'
  BY FreshTyped DEF FollowType, Invalidate, HintIsNews

LEMMA LinkChangesStep == ASSUME IInv, LinkChanges PROVE IInv'
<1> DEFINE who == {s \in Sessions : session[s].at # "free"}
<1>1. LinkType'
  BY LinkChangesType DEF IInv, LinkChanges
<1>2. Ends(who) /\ Invalidate /\ UNCHANGED follow /\ last' = NoBlock
  BY DEF LinkChanges, Gap
<1>3. \A s \in Sessions \ who : \A r \in Reading : r = session[s] => Relies(r)'
  BY GoneRelies
<1>4. who \in SUBSET Sessions
  OBVIOUS
<1> HIDE DEF who
<1>5. SessionsType' /\ SessionsRely'
  BY <1>2, <1>3, <1>4, EndsStep DEF IInv
<1>6. FollowType' /\ HintIsNews'
  BY <1>2, GapStep, FreshTyped DEF IInv
<1> QED BY <1>1, <1>5, <1>6 DEF IInv

(* Steps that leave the page alone.                                        *)
LEMMA PageWaits ==
    ASSUME IInv, UNCHANGED pageVars, \A r \in Reading : Relies(r) => Relies(r)'
    PROVE  SessionsType' /\ FollowType' /\ SessionsRely' /\ HintIsNews'
<1>1. SessionsType' /\ FollowType' /\ HintIsNews'
  BY DEF IInv, pageVars, SessionsType, FollowType, HintIsNews
<1>2. \A s \in Sessions : \E r \in Reading : r = session[s] /\ r = session'[s] /\ Relies(r)
  BY DEF IInv, pageVars, SessionsType, SessionsRely
<1>3. SessionsRely'
  BY <1>2 DEF SessionsRely, Relies
<1> QED BY <1>1, <1>3

LEMMA LinkIsQuietStep == ASSUME IInv, LinkIsQuiet PROVE IInv'
<1>1. LinkType /\ UNCHANGED pageVars
  BY DEF IInv, LinkIsQuiet
<1>2. CASE Subscribe \/ Unsubscribe
  <2>1. LinkType' /\ UNCHANGED at /\ primary'.notices = primary.notices /\ (primary.cover => primary'.cover)
    BY <1>1, <1>2, SubscriptionType
  <2>2. \A b : StandsOrTold(b) => StandsOrTold(b)'
    BY <2>1 DEF StandsOrTold
  <2> QED BY <1>1, <2>1, <2>2, StillRelies, PageWaits DEF IInv
<1>3. CASE ChainMoves
  <2>1. /\ LinkType' /\ (primary.cover => primary'.cover)
        /\ primary.cover => \A b \in Blocks : StandsOrTold(b) => StandsOrTold(b)'
    BY <1>1, <1>3, ChainMovesTells
  <2> QED BY <1>1, <2>1, StillRelies, PageWaits DEF IInv
<1>4. CASE LeaseEnds
  <2>1. LinkType' /\ UNCHANGED <<at, primary>>
    BY <1>1, <1>4, QuietLink DEF LeaseEnds
  <2> QED BY <1>1, <2>1, QuietlyRelies, PageWaits DEF IInv
<1> QED BY <1>2, <1>3, <1>4 DEF LinkIsQuiet

(* With the coverage goes every session that was not strict.               *)
LEMMA CoverageGoes ==
    ASSUME IInv, NEW who \in {Uncovered, Listeners}, Ends(who)
    PROVE  SessionsType' /\ SessionsRely'
<1>1. who \in SUBSET Sessions
  BY DEF Uncovered, Listeners
<1>2. ASSUME NEW s \in Sessions \ who, NEW r \in Reading, r = session[s]
      PROVE  Relies(r)'
  <2>1. r.at \in {"free", "hold"} \/ r.strict
    BY <1>2 DEF Uncovered, Listeners, Listening
  <2>2. Relies(r)
    BY <1>2 DEF IInv, SessionsRely
  <2> QED BY <2>1, <2>2 DEF Relies
<1> QED BY <1>1, <1>2, EndsStep DEF IInv

LEMMA LosesCoverageStep == ASSUME IInv, LosesCoverage PROVE IInv'
<1>1. LinkType'
  BY SubscriptionType DEF IInv, LosesCoverage
<1>2. CASE Ends(Uncovered) /\ UNCHANGED <<hint, last, news, follow>>
  <2>1. FollowType' /\ HintIsNews'
    BY <1>2 DEF IInv, FollowType, HintIsNews
  <2> QED BY <1>1, <1>2, <2>1, CoverageGoes DEF IInv
<1>3. CASE Gap(Listeners) /\ UNCHANGED last
  <2>1. FollowType' /\ HintIsNews'
    BY <1>3, GapStep DEF IInv, Gap, FollowType
  <2> QED BY <1>1, <1>3, <2>1, CoverageGoes DEF IInv, Gap
<1> QED BY <1>2, <1>3 DEF LosesCoverage

LEMMA UnreadableStep == ASSUME IInv, Unreadable PROVE IInv'
<1>1. LinkType'
  <2>1. primary' = [primary EXCEPT !.notices = Tail(@), !.cover = FALSE]
        /\ primary.notices # <<>> /\ UNCHANGED <<at, watched, lease, changes>>
    BY DEF Unreadable, ReceiveGarbage
  <2> QED BY <2>1, ReceiveTells DEF IInv
<1>2. Ends(Listeners) /\ Invalidate /\ UNCHANGED <<follow, last>>
  BY DEF Unreadable, Gap
<1>3. FollowType' /\ HintIsNews'
  BY <1>2, GapStep DEF IInv, FollowType
<1> QED BY <1>1, <1>2, <1>3, CoverageGoes DEF IInv

LEMMA HintedStep == ASSUME IInv, Hinted PROVE IInv'
<1> DEFINE who == {s \in Listeners : session[s].strict}
<1>1. /\ UNCHANGED <<at, primary, watched, lease, changes>> /\ Ends(who)
      /\ UNCHANGED <<hint, last, news, follow>>
  BY DEF Hinted, StandbyHints
<1>2. LinkType' /\ FollowType' /\ HintIsNews'
  BY <1>1, QuietLink DEF IInv, FollowType, HintIsNews, LinkType
<1>3. who \in SUBSET Sessions
  BY DEF Listeners
<1>4. \A s \in Sessions \ who : \A r \in Reading : r = session[s] => Relies(r)'
  BY <1>1, QuietlyRelies DEF IInv, SessionsRely
<1> HIDE DEF who
<1> QED BY <1>1, <1>2, <1>3, <1>4, EndsStep DEF IInv

(* A notice ends the sessions whose block it removes, at the latest here.  *)
LEMMA NoticedStep == ASSUME IInv, Noticed PROVE IInv'
<1> DEFINE removed == Notice.removed
           ends == {s \in Listeners : removed # {} /\ Revokes(s, removed)}
<1>1. /\ LinkType' /\ primary'.cover = primary.cover /\ Notice \in ChainNotice
      /\ \A b \in Blocks : StandsOrTold(b) /\ b \notin removed => StandsOrTold(b)'
  <2>1. primary.notices # <<>> /\ primary' = [primary EXCEPT !.notices = Tail(@)]
        /\ UNCHANGED <<at, watched, lease, changes>>
    BY DEF Noticed, Receive
  <2>2. primary.cover \in BOOLEAN /\ primary' = [primary EXCEPT !.notices = Tail(@), !.cover = primary.cover]
    BY <2>1 DEF IInv, LinkType, Connection
  <2> QED BY <2>1, <2>2, ReceiveTells DEF IInv
<1>2. removed \in SUBSET Blocks /\ Notice.added \in BlockOrNone
  BY <1>1 DEF ChainNotice
<1>3. FollowType' /\ HintIsNews'
  <2>1. /\ hint' \in BlockOrNone /\ UNCHANGED <<last, follow>>
        /\ news' = (news \/ hint' # hint)
    BY <1>2, FreshTyped DEF Noticed, IInv, FollowType
  <2> QED BY <2>1 DEF IInv, FollowType, HintIsNews
<1>4. /\ session' = [s \in Sessions |->
            IF s \in ends THEN Ended(s)
            ELSE IF session[s].at = "ask" THEN [session[s] EXCEPT !.removed = @ \cup removed]
            ELSE session[s]]
      /\ cached' = IF cached \in ends THEN NoSession ELSE cached
  BY DEF Noticed, Told, CachedWithout
<1>5. ends \subseteq Sessions
  BY DEF Listeners
<1>6. ASSUME NEW s \in Sessions \ ends, session[s].at = "ask"
      PROVE  /\ session'[s] \in Reading /\ session'[s].at = "ask" /\ session'[s].strict = session[s].strict
             /\ session'[s].dead = session[s].dead
  BY <1>2, <1>4, <1>6 DEF IInv, SessionsType, Reading
<1>7. ASSUME NEW s \in Sessions \ ends, session[s].at # "ask"
      PROVE  session'[s] = session[s]
  BY <1>4, <1>7
<1>8. \A s \in ends : session'[s] = Ended(s) /\ session'[s] \in Reading /\ Gone(session'[s])
  BY <1>4, <1>5, EndedIsGone DEF IInv
<1>9. \A s \in Sessions : session'[s] \in Reading
  BY <1>6, <1>7, <1>8 DEF IInv, SessionsType
<1>10. SessionsType'
  <2>1. cached' # NoSession => cached' = cached /\ cached \notin ends
    BY <1>4
  <2>2. cached' # NoSession => session'[cached'].at = "open"
    BY <1>6, <1>7, <2>1 DEF IInv, SessionsType
  <2>3. session' \in [Sessions -> Reading]
    BY <1>4, <1>9
  <2> QED BY <1>4, <2>2, <2>3 DEF IInv, SessionsType
<1>11. ASSUME NEW s \in Sessions PROVE Relies(session[s])'
  <2>1. CASE s \in ends
    BY <1>8, <2>1 DEF Gone, Relies
  <2>2. CASE s \notin ends /\ session[s].at = "ask"
    BY <1>1, <1>6, <2>2 DEF IInv, SessionsRely, Relies
  <2>3. CASE s \notin ends /\ session[s].at # "ask"
    <3>1. session'[s] = session[s] /\ session[s] \in Reading /\ Relies(session[s])
      BY <1>7, <2>3 DEF IInv, SessionsType, SessionsRely
    <3>2. session[s].at \in {"answered", "open"} /\ ~session[s].strict => session[s].got \notin removed
      BY <2>3 DEF Listeners, Listening, Revokes
    <3>3. PICK r \in Reading : r = session[s]
      BY <3>1
    <3>4. r.got # NoBlock => r.got \in Blocks
      BY DEF Reading, BlockOrNone
    <3>5. r.at \in {"answered", "open"} /\ ~r.dead /\ ~r.strict /\ r.got # NoBlock => StandsOrTold(r.got)'
      BY <1>1, <3>1, <3>2, <3>3, <3>4 DEF Relies
    <3>6. Relies(r)'
      BY <1>1, <3>1, <3>3, <3>5 DEF Relies
    <3> QED BY <3>1, <3>3, <3>6 DEF Relies
  <2> QED BY <2>1, <2>2, <2>3
<1> QED BY <1>1, <1>3, <1>10, <1>11 DEF IInv, SessionsRely

---------------------------------------------------------------------------
(* The steps of a session.                                                 *)

LEMMA BeginStep ==
    ASSUME IInv, NEW s \in Sessions, NEW block \in BlockOrNone, Begin(s, block), UNCHANGED cached
    PROVE  LinkType' /\ SessionsType' /\ SessionsRely'
<1> DEFINE r == [Free EXCEPT !.at = "hold", !.asked = block]
<1>1. /\ session[s].at = "free" /\ session' = [session EXCEPT ![s] = r] /\ lease' = TRUE
      /\ UNCHANGED <<at, primary, watched, changes, faults>>
  BY DEF Begin
<1>2. r \in Reading /\ r.at = "hold"
  BY FreshTyped DEF Reading, Free
<1> HIDE DEF r
<1>3. Relies(r)'
  BY <1>2 DEF Relies, r
<1>4. cached' # NoSession => session'[cached'].at = "open"
  BY <1>1 DEF IInv, SessionsType
<1>5. cached' \in Sessions \cup {NoSession}
  BY DEF IInv, SessionsType
<1> QED BY <1>1, <1>2, <1>3, <1>4, <1>5, SessionTakes, QuietLink DEF IInv

LEMMA BrowseStep == ASSUME IInv, NEW s \in Sessions, Browse(s) PROVE IInv'
  BY BeginStep, FreshTyped DEF Browse, IInv, FollowType, HintIsNews

LEMMA HoldStep == ASSUME IInv, NEW s \in Sessions, Hold(s) PROVE IInv'
<1>1. PICK r : r = [session[s] EXCEPT !.at = "ask", !.strict = ~primary.cover]
  OBVIOUS
<1>2. /\ session' = [session EXCEPT ![s] = r] /\ session[s].at = "hold"
      /\ UNCHANGED <<at, primary, watched, lease, changes, cached, hint, last, news, follow>>
  BY <1>1 DEF Hold, IInv, SessionsType
<1>3. r \in Reading /\ r.at = "ask" /\ r.strict = ~primary.cover
  BY <1>1 DEF IInv, SessionsType, Reading, LinkType, Connection
<1>4. Relies(r)'
  BY <1>2, <1>3 DEF Relies, IInv, LinkType, Connection
<1>5. cached' # NoSession => session'[cached'].at = "open"
  BY <1>2 DEF IInv, SessionsType
<1>6. LinkType' /\ FollowType' /\ HintIsNews' /\ cached' \in Sessions \cup {NoSession}
  BY <1>2 DEF IInv, LinkType, FollowType, HintIsNews, SessionsType
<1> QED BY <1>2, <1>3, <1>4, <1>5, <1>6, SessionTakes DEF IInv

LEMMA AnswerStep == ASSUME IInv, NEW s \in Sessions, Answer(s) PROVE IInv'
<1>0. PICK d \in BOOLEAN : d = (at \in session[s].removed)
  <2>1. (at \in session[s].removed) \in BOOLEAN
    OBVIOUS
  <2> WITNESS (at \in session[s].removed) \in BOOLEAN
  <2> QED OBVIOUS
<1>1. PICK r : r = [session[s] EXCEPT !.at = "answered", !.got = at, !.removed = {}, !.dead = d]
  OBVIOUS
<1>2. /\ session' = [session EXCEPT ![s] = r] /\ session[s].at = "ask" /\ ~session[s].dead
      /\ UNCHANGED <<linkVars, cached, hint, last, news, follow>>
  BY <1>0, <1>1 DEF Answer, IInv, SessionsType
<1>3. r \in Reading /\ r.at = "answered" /\ r.strict = session[s].strict /\ r.got = at
  BY <1>1 DEF IInv, SessionsType, Reading, LinkType
<1>4. Relies(session[s])
  BY DEF IInv, SessionsRely
<1>5. Relies(r)'
  BY <1>2, <1>3, <1>4 DEF Relies, StandsOrTold, linkVars
<1>6. cached' # NoSession => session'[cached'].at = "open"
  BY <1>2 DEF IInv, SessionsType
<1>7. LinkType' /\ FollowType' /\ HintIsNews' /\ cached' \in Sessions \cup {NoSession}
  BY <1>2 DEF IInv, LinkType, FollowType, HintIsNews, SessionsType, linkVars
<1> QED BY <1>2, <1>3, <1>5, <1>6, <1>7, SessionTakes DEF IInv, linkVars

LEMMA PublishStep == ASSUME IInv, NEW s \in Sessions, Publish(s) PROVE IInv'
<1>1. PICK r : r = [Free EXCEPT !.at = "open", !.got = session[s].got, !.strict = session[s].strict]
  OBVIOUS
<1>2. /\ session' = [session EXCEPT ![s] = r] /\ session[s].at = "answered" /\ ~session[s].dead
      /\ session[s].got # NoBlock /\ cached' = s /\ UNCHANGED <<linkVars, follow>>
  BY <1>1 DEF Publish, Found
<1>3. session[s] \in Reading /\ Relies(session[s])
  BY DEF IInv, SessionsType, SessionsRely
<1>4. r \in Reading /\ r.at = "open" /\ r.strict = session[s].strict /\ r.got = session[s].got
  BY <1>1, <1>3, FreshTyped DEF Reading, Free
<1>5. PICK b : b = session[s].got
  OBVIOUS
<1>6. ~session[s].strict => primary.cover /\ StandsOrTold(b)
  BY <1>2, <1>3, <1>5 DEF Relies
<1>7. Relies(r)'
  BY <1>2, <1>4, <1>5, <1>6 DEF Relies, StandsOrTold, linkVars
<1>8. session'[cached'].at = "open"
  BY <1>2, <1>4 DEF IInv, SessionsType
<1>9. LinkType'
  BY <1>2 DEF IInv, LinkType, linkVars
<1>10. FollowType' /\ HintIsNews'
  <2> DEFINE tell == watched /\ last # session[s].got
  <2>1. /\ last' = (IF tell THEN session[s].got ELSE last) /\ hint' = (IF tell THEN session[s].got ELSE hint)
        /\ news' = (news \/ (tell /\ session[s].asked = NoBlock))
    BY DEF Publish
  <2>2. session[s].got \in BlockOrNone
    BY <1>3 DEF Reading
  <2>3. CASE tell
    BY <1>2, <2>1, <2>2, <2>3 DEF IInv, FollowType, HintIsNews
  <2>4. CASE ~tell
    <3>1. hint' = hint /\ last' = last /\ (news' <=> news) /\ news' \in BOOLEAN
      BY <2>1, <2>4 DEF IInv, FollowType
    <3> QED BY <1>2, <3>1 DEF IInv, FollowType, HintIsNews
  <2> QED BY <2>3, <2>4
<1> QED BY <1>2, <1>4, <1>7, <1>8, <1>9, <1>10, SessionTakes DEF IInv, linkVars

(* A failed check leaves its notice, and signals when it takes it back.    *)
LEMMA FollowFailsStep ==
    ASSUME FollowType, HintIsNews, follow.at \in {"read", "hold"}, NEW displaced \in BOOLEAN,
           FollowFails(displaced), UNCHANGED last
    PROVE  FollowType' /\ HintIsNews'
<1>1. /\ follow' = [follow EXCEPT !.at = "wait", !.s = NoSession, !.block = NoBlock, !.notice = FALSE,
                                  !.known = KnownAfter(displaced)]
      /\ KnownAfter(displaced) \in BlockOrNone
  BY FreshTyped DEF FollowFails, KnownAfter, FollowType, Loop
<1>2. follow' \in Loop /\ follow'.at = "wait" /\ follow'.s = NoSession /\ follow'.seen = follow.seen
  BY <1>1, FreshTyped DEF FollowType, Loop
<1>3. CASE Discards
  <2>1. hint' = NoBlock /\ news' = TRUE
    BY <1>3 DEF FollowFails
  <2> QED BY <1>2, <2>1, FreshTyped DEF FollowType, HintIsNews
<1>4. CASE ~Discards
  <2>1. hint' = hint /\ (news' <=> news) /\ news' \in BOOLEAN
    BY <1>4 DEF FollowFails, FollowType
  <2> QED BY <1>2, <2>1 DEF FollowType, HintIsNews
<1> QED BY <1>3, <1>4

LEMMA FailStep == ASSUME IInv, NEW s \in Sessions, Fail(s) PROVE IInv'
<1>1. /\ session' = [session EXCEPT ![s] = Free] /\ session[s].at # "open" /\ session[s] \in Reading
      /\ UNCHANGED <<linkVars, cached, last>>
  BY DEF Fail, Running, IInv, SessionsType
<1>2. Relies(Free)'
  BY FreeTyped DEF Relies, Free
<1>3. cached' # NoSession => session'[cached'].at = "open"
  BY <1>1 DEF IInv, SessionsType
<1>4. LinkType' /\ cached' \in Sessions \cup {NoSession}
  BY <1>1 DEF IInv, LinkType, SessionsType, linkVars
<1>5. SessionsType' /\ SessionsRely'
  BY <1>1, <1>2, <1>3, <1>4, FreeTyped, SessionTakes DEF IInv, linkVars
<1>6. FollowType' /\ HintIsNews'
  <2>1. CASE follow.at = "read" /\ follow.s = s
    <3>1. FollowFails(~session[s].dead) /\ (~session[s].dead) \in BOOLEAN
      BY <1>1, <2>1 DEF Fail, Reading
    <3> QED BY <1>1, <2>1, <3>1, FollowFailsStep DEF IInv
  <2>2. CASE ~(follow.at = "read" /\ follow.s = s)
    BY <1>1, <2>2 DEF Fail, IInv, FollowType, HintIsNews
  <2> QED BY <2>1, <2>2
<1> QED BY <1>4, <1>5, <1>6 DEF IInv

LEMMA EndStep == ASSUME IInv, NEW s \in Sessions, End(s) PROVE IInv'
<1>1. /\ session' = [session EXCEPT ![s] = Free]
      /\ cached' = (IF cached = s THEN NoSession ELSE cached)
      /\ UNCHANGED <<linkVars, hint, last, news, follow>>
  BY DEF End, CachedWithout
<1>2. Relies(Free)'
  BY FreeTyped DEF Relies, Free
<1>3. cached' \in Sessions \cup {NoSession} /\ (cached' # NoSession => session'[cached'].at = "open")
  BY <1>1 DEF IInv, SessionsType
<1>4. LinkType' /\ FollowType' /\ HintIsNews'
  BY <1>1 DEF IInv, LinkType, FollowType, HintIsNews, linkVars
<1> QED BY <1>1, <1>2, <1>3, <1>4, FreeTyped, SessionTakes DEF IInv, linkVars

LEMMA ExpireStep == ASSUME IInv, Expire PROVE IInv'
<1>1. UNCHANGED <<linkVars, session, hint, last, news, follow>> /\ cached' = NoSession
  BY DEF Expire
<1>2. LinkType' /\ FollowType' /\ HintIsNews'
  BY <1>1 DEF IInv, LinkType, FollowType, HintIsNews, linkVars
<1> QED BY <1>1, <1>2, SessionsWait DEF IInv, linkVars

---------------------------------------------------------------------------
(* The follow loop.                                                        *)

LEMMA TrackStep == ASSUME IInv, Track PROVE IInv'
<1>1. /\ follow.at = "off" /\ follow' = [follow EXCEPT !.at = "wait"] /\ hint' = NoBlock
      /\ last' = follow.known /\ news' = FALSE /\ watched' = TRUE
      /\ UNCHANGED <<at, primary, lease, changes, faults, session, cached>>
  BY DEF Track
<1>2. FollowType' /\ HintIsNews'
  BY <1>1, FreshTyped DEF IInv, FollowType, Loop, HintIsNews
<1>3. LinkType'
  BY <1>1 DEF IInv, LinkType
<1> QED BY <1>1, <1>2, <1>3, SessionsWait DEF IInv

LEMMA ReleaseStep == ASSUME IInv, Release PROVE IInv'
<1>1. /\ follow' = [Off EXCEPT !.known = follow.known] /\ hint' = NoBlock
      /\ last' = NoBlock /\ news' = FALSE /\ watched' = FALSE
      /\ UNCHANGED <<at, primary, lease, changes, faults, session, cached>>
  BY DEF Release
<1>2. FollowType' /\ HintIsNews'
  BY <1>1, FreshTyped DEF IInv, FollowType, Loop, HintIsNews, Off
<1>3. LinkType'
  BY <1>1 DEF IInv, LinkType
<1> QED BY <1>1, <1>2, <1>3, SessionsWait DEF IInv

LEMMA LocationTyped == ASSUME IInv PROVE Location \in BlockOrNone
  BY DEF IInv, Location, Usable, SessionsType, Reading, FollowType, Loop, LinkType

LEMMA LocatedTyped ==
    ASSUME IInv
    PROVE  /\ Located \in Loop /\ Located.seen = follow.seen /\ Located.at = follow.at
           /\ Located.s = follow.s
<1>1. (~Usable(cached) /\ follow.known = NoBlock /\ hint # NoBlock) \in BOOLEAN
  OBVIOUS
<1>2. follow \in Loop
  BY DEF IInv, FollowType
<1>3. \A l \in BlockOrNone, n \in BOOLEAN :
        LET f == [follow EXCEPT !.block = l, !.notice = n] IN
        f \in Loop /\ f.seen = follow.seen /\ f.at = follow.at /\ f.s = follow.s
  BY <1>2 DEF Loop
<1> QED BY <1>1, <1>3, LocationTyped DEF Located

LEMMA AskStep == ASSUME IInv, NEW s \in Sessions, Ask(s) PROVE IInv'
<1>1. /\ Begin(s, Location) /\ follow' = [Located EXCEPT !.at = "read", !.s = s]
      /\ UNCHANGED <<cached, hint, last, news>>
  BY DEF Ask
<1>2. LinkType' /\ SessionsType' /\ SessionsRely'
  BY <1>1, BeginStep, LocationTyped
<1>3. follow' \in Loop /\ follow'.at = "read" /\ follow'.s = s /\ follow'.seen = follow.seen
  BY <1>1, LocatedTyped DEF Loop
<1>4. FollowType' /\ HintIsNews'
  BY <1>1, <1>3, ReadsAssumption DEF IInv, FollowType, HintIsNews
<1> QED BY <1>2, <1>4 DEF IInv

LEMMA FollowSteps == ASSUME IInv, FollowStep PROVE IInv'
<1>1. UNCHANGED <<linkVars, session, cached, last>>
  BY DEF FollowStep, Wait, Wake, Timeout, Look, Missing, Reuse, Take, Written
<1>2. LinkType' /\ SessionsType' /\ SessionsRely'
  BY <1>1, SessionsWait DEF IInv, LinkType, linkVars
<1> SUFFICES FollowType' /\ HintIsNews'
  BY <1>2 DEF IInv
<1>3. follow \in Loop /\ FollowType /\ HintIsNews
  BY DEF IInv, FollowType
<1>4. CASE Wait
  <2>1. CASE news
    BY <1>1, <1>3, <1>4, <2>1 DEF Wait, MaySleep, FollowType, Loop, HintIsNews
  <2>2. CASE ~news
    BY <1>1, <1>3, <1>4, <2>2 DEF Wait, MaySleep, FollowType, Loop, HintIsNews
  <2> QED BY <2>1, <2>2
<1>5. CASE Wake \/ Timeout
  BY <1>1, <1>3, <1>5 DEF Wake, Timeout, Look, FollowType, Loop, HintIsNews
<1>6. CASE Missing
  BY <1>1, <1>3, <1>6 DEF Missing, FollowType, Loop, HintIsNews
<1>7. CASE Reuse
  <2>1. cached \in Sessions /\ follow' = [Located EXCEPT !.at = "read", !.s = cached]
    BY <1>7 DEF Reuse, Usable, IInv, SessionsType
  <2>2. follow' \in Loop /\ follow'.at = "read" /\ follow'.s = cached /\ follow'.seen = follow.seen
    BY <2>1, LocatedTyped DEF Loop
  <2> QED BY <1>1, <1>3, <1>7, <2>1, <2>2, ReadsAssumption DEF Reuse, FollowType, HintIsNews
<1>8. CASE Take
  <2>1. CASE Current(follow.s) /\ (follow.notice => hint = follow.block)
    <3>1. follow' = [follow EXCEPT !.at = "hold", !.known = follow.block, !.notice = FALSE]
          /\ follow.at = "read" /\ UNCHANGED <<hint, news>>
      BY <1>8, <2>1 DEF Take
    <3> QED BY <1>1, <1>3, <3>1 DEF FollowType, Loop, HintIsNews
  <2>2. CASE ~(Current(follow.s) /\ (follow.notice => hint = follow.block))
    BY <1>1, <1>3, <1>8, <2>2, FollowFailsStep DEF Take
  <2> QED BY <2>1, <2>2
<1>9. CASE Written
  <2>1. follow' \in Loop /\ follow'.at = "wait" /\ follow'.s = NoSession /\ follow'.seen = follow.seen
        /\ UNCHANGED <<hint, news>>
    BY <1>3, <1>9, FreshTyped DEF Written, Loop
  <2> QED BY <1>1, <1>3, <2>1 DEF FollowType, HintIsNews
<1> QED BY <1>4, <1>5, <1>6, <1>7, <1>8, <1>9 DEF FollowStep

---------------------------------------------------------------------------

LEMMA Stutters == ASSUME IInv, UNCHANGED vars PROVE IInv'
<1>1. LinkType' /\ FollowType' /\ HintIsNews' /\ UNCHANGED <<at, primary, session, cached>>
  BY DEF IInv, vars, LinkType, FollowType, HintIsNews
<1> QED BY <1>1, SessionsWait DEF IInv

LEMMA Starts == Init => IInv
<1> SUFFICES ASSUME Init PROVE IInv
  OBVIOUS
<1>1. LinkType
  <2>1. at = NoBlock /\ primary = Closed /\ watched = FALSE /\ lease = FALSE /\ changes = 0
    BY DEF Init, LinkInit
  <2>2. changes \in 0 .. MaxChanges /\ Len(primary.notices) <= changes
    BY <2>1, FreshTyped, LinkAssumption
  <2> QED BY <2>1, <2>2, FreshTyped DEF LinkType
<1>2. SessionsType /\ SessionsRely
  BY FreeTyped DEF Init, SessionsType, SessionsRely, Relies, Free
<1>3. FollowType /\ HintIsNews
  BY FreshTyped DEF Init, FollowType, HintIsNews, Off, Loop
<1> QED BY <1>1, <1>2, <1>3 DEF IInv

LEMMA Steps == IInv /\ [Next]_vars => IInv'
  BY LinkChangesStep, LinkIsQuietStep, LosesCoverageStep, UnreadableStep, HintedStep, NoticedStep, BrowseStep,
     HoldStep, AnswerStep, PublishStep, FailStep, EndStep, AskStep, ExpireStep, TrackStep, ReleaseStep,
     FollowSteps, Stutters DEF Next, ReadStep

(* The invariant the results below are read off.                           *)
THEOREM ReadsInvariant == Spec => []IInv
  BY Starts, Steps, PTL DEF Spec

(* Types of the link, the sessions and the loop; that the cache holds only *)
(* finished reads, that the loop has a session exactly while it reads or   *)
(* writes under it, and that no more notices wait than the chain changed.  *)
THEOREM ReadsTypes == Spec => []TypeOK
<1>1. IInv => TypeOK
  <2> SUFFICES ASSUME IInv PROVE TypeOK
    OBVIOUS
  <2>1. Len(primary.notices) <= MaxChanges
    BY LinkAssumption DEF IInv, LinkType, Connection
  <2> QED BY <2>1 DEF IInv, LinkType, Connection, SessionsType, Reading, FollowType, BlockOrNone, TypeOK
<1> QED BY <1>1, ReadsInvariant, PTL

(* A proof whose scope is current is true at the node once the page has    *)
(* received what the node sent (acceptance-read.mjs, nodes.mjs), for any   *)
(* number of sessions that share the coverage and the cache.               *)
THEOREM CurrentStaysSelected == Spec => []CurrentIsSelected
<1>1. IInv => CurrentIsSelected
  <2> SUFFICES ASSUME IInv, NEW s \in Sessions, Current(s), ~session[s].strict, primary.notices = <<>>
               PROVE  session[s].got = at
    BY DEF CurrentIsSelected
  <2>1. StandsOrTold(session[s].got)
    BY DEF IInv, SessionsRely, Relies, Current
  <2> QED BY <2>1 DEF StandsOrTold
<1> QED BY <1>1, ReadsInvariant, PTL

(* The follow loop does not sleep over a location it has not looked at     *)
(* (acceptance-notices.mjs, wait() and its versions).                      *)
THEOREM NewsWakes == Spec => []NoNewsWhileAsleep
<1>1. IInv => NoNewsWhileAsleep
  BY DEF IInv, HintIsNews, NoNewsWhileAsleep
<1> QED BY <1>1, ReadsInvariant, PTL
=============================================================================
