-------------------------- MODULE AcceptanceReads --------------------------
(***************************************************************************)
(* What a page may believe of the acceptance of one of its transactions    *)
(* (acceptance-evidence.mjs, acceptance-read.mjs, acceptance-notices.mjs   *)
(* over NodeLink): sessions that read a Full page and watch its block      *)
(* being removed, the shared and the cached use of their results, and the  *)
(* notices that wake the follow loop of the transaction.                   *)
(*                                                                         *)
(* A session is read by the follow, of a block it was pointed to, or by    *)
(* another part of the page, of whatever block accepts the transaction.    *)
(* Its scope is told by what the link delivers: nothing here looks at the  *)
(* node but the steps that ask it.  The versions of the wait are kept as   *)
(* one bit: something was signalled since the version the follow knows.    *)
(***************************************************************************)
EXTENDS NodeLink

CONSTANTS Sessions, NoSession

ASSUME ReadsAssumption == NoSession \notin Sessions

VARIABLES
    session,   \* session[s]: a capture() and its scope
    cached,    \* the session a new reader may reuse (entries), or NoSession
    hint,      \* the notice's block, or NoBlock
    last,      \* the location consumers were last told of (watch.last)
    news,      \* signalled since the version the follow knows
    follow     \* the follow loop

vars == <<at, primary, watched, lease, changes, faults,
          session, cached, hint, last, news, follow>>

pageVars == <<session, cached, hint, last, news, follow>>

(* asked: NoBlock when any location will do.  strict: without coverage.    *)
(* removed: what was removed since listening, until the answer is there.   *)
(* dead: what was read can be current no more; nobody has it.              *)
Free == [at |-> "free", asked |-> NoBlock, got |-> NoBlock, strict |-> FALSE,
         removed |-> {}, dead |-> FALSE]

(* known is the record's location; notice: located by the hint; seen: the  *)
(* hint that stood when the loop looked.                                   *)
Off == [at |-> "off", s |-> NoSession, block |-> NoBlock, notice |-> FALSE, known |-> NoBlock,
        seen |-> NoBlock]

Init ==
    /\ LinkInit
    /\ session = [s \in Sessions |-> Free]
    /\ cached = NoSession /\ hint = NoBlock /\ last = NoBlock /\ news = FALSE
    /\ follow = Off

---------------------------------------------------------------------------
(* Scopes.                                                                 *)

Running(s) == session[s].at \in {"hold", "ask", "answered"}

(* Every scope hears of removed blocks and gaps, from the moment it exists.*)
Listening(s) == session[s].at \notin {"free", "hold"}

Listeners == {s \in Sessions : Listening(s)}

(* scope.current()                                                         *)
Current(s) == session[s].at = "open" /\ ~session[s].dead

Usable(s) == s # NoSession /\ Current(s)

Ended(s) == IF session[s].at = "open" /\ follow.s # s THEN Free
            ELSE [Free EXCEPT !.at = session[s].at, !.asked = session[s].asked,
                              !.dead = TRUE]

(* Mutant: a cached proof is only dropped for its age.                     *)
CachedAnyway(who) == cached

CachedWithout(who) == IF cached \in who THEN NoSession ELSE cached

Ends(who) ==
    /\ session' = [s \in Sessions |-> IF s \in who THEN Ended(s) ELSE session[s]]
    /\ cached' = CachedWithout(who)

(* Mutant: a later coverage is as good as the one the read began under.    *)
UncoveredByNothing == {}

(* The scopes that the end of the coverage ends.                           *)
Uncovered == {s \in Listeners : ~session[s].strict}

(* Mutant: only a block known when it was removed is looked for.           *)
RevokesIfKnown(s, removed) == session[s].at = "open" /\ session[s].got \in removed

(* In "answered" the answer may still be on its way.                       *)
Revokes(s, removed) == session[s].strict \/ session[s].got \in removed

Told(removed) ==
    LET ends == {s \in Listeners : removed # {} /\ Revokes(s, removed)} IN
    /\ session' = [s \in Sessions |->
          IF s \in ends THEN Ended(s)
          ELSE IF session[s].at = "ask" THEN [session[s] EXCEPT !.removed = @ \cup removed]
          ELSE session[s]]
    /\ cached' = CachedWithout(ends)

(* invalidate(), on every gap.                                             *)
Invalidate == hint' = NoBlock /\ news' = TRUE

Gap(who) == Ends(who) /\ Invalidate /\ UNCHANGED follow

---------------------------------------------------------------------------
(* The link's steps and what the page makes of them.                       *)

LinkChanges ==
    /\ Connect \/ DropPrimary \/ (CloseIdle /\ \A s \in Sessions : ~Running(s))
    /\ Gap({s \in Sessions : session[s].at # "free"}) /\ last' = NoBlock

LinkIsQuiet ==
    /\ \/ Subscribe \/ Unsubscribe \/ ChainMoves
       \/ LeaseEnds /\ \A s \in Sessions : session[s].at # "hold"
    /\ UNCHANGED pageVars

LosesCoverage ==
    \/ Revoke /\ Ends(Uncovered) /\ UNCHANGED <<hint, last, news, follow>>
    \/ SubscribeFails /\ ~watched /\ Ends(Uncovered) /\ UNCHANGED <<hint, last, news, follow>>
    \/ SubscribeFails /\ watched /\ Gap(Listeners) /\ UNCHANGED last

Unreadable == ReceiveGarbage /\ Gap(Listeners) /\ UNCHANGED last

Hinted ==
    /\ StandbyHints
    /\ Ends({s \in Listeners : session[s].strict})
    /\ UNCHANGED <<hint, last, news, follow>>

(* AcceptanceNotices.chain(): the removals first, then the accepted ids.   *)
Noticed ==
    LET kept == IF hint \in Notice.removed THEN NoBlock ELSE hint
        new == IF watched /\ Notice.added # NoBlock THEN Notice.added ELSE kept IN
    /\ Receive
    /\ Told(Notice.removed)
    /\ hint' = new
    /\ news' = (news \/ new # hint)
    /\ UNCHANGED <<last, follow>>

---------------------------------------------------------------------------
(* capture() and read().                                                   *)

Begin(s, block) ==
    /\ primary.open /\ session[s].at = "free"
    /\ session' = [session EXCEPT ![s] = [Free EXCEPT !.at = "hold", !.asked = block]]
    /\ lease' = TRUE
    /\ UNCHANGED <<at, primary, watched, changes, faults>>

(* Another part of the page reads Full pages.                              *)
Browse(s) == Begin(s, NoBlock) /\ UNCHANGED <<cached, hint, last, news, follow>>

(* holdChainObservation(): listening begins under the coverage, or without *)
(* one when the subscription failed.                                       *)
Hold(s) ==
    /\ session[s].at = "hold" /\ ~session[s].dead
    /\ \/ primary.cover /\ lease /\ UNCHANGED faults
       \/ ~primary.cover /\ Fault
    /\ session' = [session EXCEPT ![s].at = "ask", ![s].strict = ~primary.cover]
    /\ UNCHANGED <<at, primary, watched, lease, changes, cached, hint, last, news, follow>>

(* The node answers with the page of the moment.                           *)
Answer(s) ==
    /\ session[s].at = "ask" /\ ~session[s].dead
    /\ session' = [session EXCEPT ![s].at = "answered", ![s].got = at, ![s].removed = {},
                                  ![s].dead = at \in session[s].removed]
    /\ UNCHANGED <<linkVars, cached, hint, last, news, follow>>

Found(s) == session[s].got # NoBlock /\ session[s].asked \in {NoBlock, session[s].got}

(* #publish(), and remember() of a location nobody was told of.            *)
Publish(s) ==
    LET block == session[s].got
        tell == watched /\ last # block IN
    /\ session[s].at = "answered" /\ ~session[s].dead /\ Found(s)
    /\ session' = [session EXCEPT ![s] = [Free EXCEPT !.at = "open", !.got = block,
                                                      !.strict = session[s].strict]]
    /\ cached' = s
    /\ last' = IF tell THEN block ELSE last
    /\ hint' = IF tell THEN block ELSE hint
    /\ news' = (news \/ (tell /\ session[s].asked = NoBlock))
    /\ UNCHANGED <<linkVars, follow>>

Discards == follow.notice /\ hint = follow.block

(* Mutant: the record keeps its block.                                     *)
KnownAnyway(displaced) == follow.known

KnownAfter(displaced) == IF displaced THEN NoBlock ELSE follow.known

(* The follow's check failed: the notice it went by is discarded, and the  *)
(* record's location as well when the node says that it is not accepted    *)
(* there.                                                                  *)
FollowFails(displaced) ==
    /\ follow' = [follow EXCEPT !.at = "wait", !.s = NoSession, !.block = NoBlock, !.notice = FALSE,
                                !.known = KnownAfter(displaced)]
    /\ hint' = IF Discards THEN NoBlock ELSE hint
    /\ news' = (news \/ Discards)

(* A read that is dead, timed out, or whose answer is not good.            *)
Fail(s) ==
    /\ Running(s)
    /\ session[s].dead \/ (session[s].at = "answered" /\ ~Found(s))
    /\ session' = [session EXCEPT ![s] = Free]
    /\ IF follow.at = "read" /\ follow.s = s
       THEN FollowFails(~session[s].dead)
       ELSE UNCHANGED <<hint, news, follow>>
    /\ UNCHANGED <<linkVars, cached, last>>

(* The cached result grows too old for a new reader.  (A notice that grows *)
(* too old is left out: the search takes its place.)                       *)
Expire ==
    /\ cached # NoSession /\ cached' = NoSession
    /\ UNCHANGED <<linkVars, session, hint, last, news, follow>>

(* close(): 30 s after the read, more than the writes under it take.       *)
End(s) ==
    /\ session[s].at = "open" /\ follow.s # s
    /\ session' = [session EXCEPT ![s] = Free]
    /\ cached' = CachedWithout({s})
    /\ UNCHANGED <<linkVars, hint, last, news, follow>>

---------------------------------------------------------------------------
(* The follow loop.                                                        *)

Track ==
    /\ follow.at = "off"
    /\ watched' = TRUE
    /\ follow' = [follow EXCEPT !.at = "wait"]
    /\ hint' = NoBlock /\ last' = follow.known /\ news' = FALSE
    /\ UNCHANGED <<at, primary, lease, changes, faults, session, cached>>

Release ==
    /\ follow.at = "wait"
    /\ watched' = FALSE
    /\ follow' = [Off EXCEPT !.known = follow.known]
    /\ hint' = NoBlock /\ last' = NoBlock /\ news' = FALSE
    /\ UNCHANGED <<at, primary, lease, changes, faults, session, cached>>

(* wait(): returns at once when its version is old; a signal or the        *)
(* timeout ends it.                                                        *)
Look ==
    /\ follow' = [follow EXCEPT !.at = "look", !.seen = hint]
    /\ news' = FALSE
    /\ UNCHANGED <<linkVars, session, cached, hint, last>>

Wake == follow.at = "asleep" /\ news /\ Look

Timeout == follow.at = "asleep" /\ Look

(* Mutant: the wait does not compare versions.                             *)
SleepsAnyhow == TRUE

MaySleep == ~news

Wait ==
    /\ follow.at = "wait"
    /\ follow' = IF MaySleep THEN [follow EXCEPT !.at = "asleep"]
                 ELSE [follow EXCEPT !.at = "look", !.seen = hint]
    /\ news' = FALSE
    /\ UNCHANGED <<linkVars, session, cached, hint, last>>

(* Where the check looks: a cached proof, the record, a notice, the search *)
(* on the node.                                                            *)
Location ==
    IF Usable(cached) THEN session[cached].got
    ELSE IF follow.known # NoBlock THEN follow.known
    ELSE IF hint # NoBlock THEN hint ELSE at

Located == [follow EXCEPT !.block = Location,
                          !.notice = ~Usable(cached) /\ follow.known = NoBlock /\ hint # NoBlock]

Missing ==
    /\ follow.at = "look"
    /\ ~primary.open \/ Location = NoBlock
    /\ follow' = [follow EXCEPT !.at = "wait"]
    /\ UNCHANGED <<linkVars, session, cached, hint, last, news>>

Reuse ==
    /\ follow.at = "look" /\ primary.open /\ Usable(cached)
    /\ follow' = [Located EXCEPT !.at = "read", !.s = cached]
    /\ UNCHANGED <<linkVars, session, cached, hint, last, news>>

Ask(s) ==
    /\ follow.at = "look" /\ Location # NoBlock
    /\ Begin(s, Location)
    /\ follow' = [Located EXCEPT !.at = "read", !.s = s]
    /\ UNCHANGED <<cached, hint, last, news>>

(* read() returns a copy that is valid, for a notice that still stands.    *)
Take ==
    /\ follow.at = "read" /\ session[follow.s].at = "open"
    /\ IF Current(follow.s) /\ (follow.notice => hint = follow.block)
       THEN /\ follow' = [follow EXCEPT !.at = "hold", !.known = follow.block, !.notice = FALSE]
            /\ UNCHANGED <<hint, news>>
       ELSE FollowFails(FALSE)
    /\ UNCHANGED <<linkVars, session, cached, last>>

(* The writes of RecordTracker under the scope; what is revoked loses its  *)
(* location.                                                               *)
Written ==
    /\ follow.at = "hold"
    /\ follow' = [follow EXCEPT !.at = "wait", !.s = NoSession, !.block = NoBlock,
                                !.known = IF Current(follow.s) THEN @ ELSE NoBlock]
    /\ UNCHANGED <<linkVars, session, cached, hint, last, news>>

FollowStep == Wait \/ Wake \/ Timeout \/ Missing \/ Reuse \/ Take \/ Written

ReadStep(s) == Hold(s) \/ Answer(s) \/ Publish(s) \/ Fail(s)

Next ==
    \/ LinkChanges \/ LinkIsQuiet \/ LosesCoverage \/ Unreadable \/ Hinted \/ Noticed
    \/ \E s \in Sessions : Browse(s) \/ ReadStep(s) \/ End(s) \/ Ask(s)
    \/ Expire \/ Track \/ Release \/ FollowStep

Spec == Init /\ [][Next]_vars

(* The node answers and notifies, a lost connection is opened again, a     *)
(* wanted subscription is retried, and the loop's timers fire.             *)
FairSpec ==
    /\ Spec
    /\ WF_vars(LinkChanges /\ ~primary.open) /\ WF_vars(lease /\ Subscribe /\ UNCHANGED pageVars)
    /\ WF_vars(Noticed) /\ WF_vars(Expire)
    /\ \A s \in Sessions : WF_vars(ReadStep(s)) /\ WF_vars(End(s))
    /\ WF_vars(FollowStep) /\ SF_vars(\E s \in Sessions : Ask(s))

---------------------------------------------------------------------------
(* Properties.                                                             *)

(* The types.                                                              *)
TypeOK ==
    /\ at \in Blocks \cup {NoBlock} /\ hint \in Blocks \cup {NoBlock}
    /\ primary.served \in Scopes /\ primary.cover \in BOOLEAN /\ Len(primary.notices) <= MaxChanges
    /\ \A s \in Sessions :
         /\ session[s].at \in {"free", "hold", "ask", "answered", "open"}
         /\ session[s].got \in Blocks \cup {NoBlock} /\ session[s].removed \subseteq Blocks
    /\ cached # NoSession => session[cached].at = "open"
    /\ follow.at \in {"read", "hold"} <=> follow.s # NoSession

(* A proof that its scope calls current is true at the node, as soon as    *)
(* the page received what the node already sent: whatever removal, also of *)
(* a block that was not known when the read began, whatever resubscription *)
(* between two scopes of interest, failover, unreadable notice or shared   *)
(* use came between the answer and now.                                    *)
CurrentIsSelected ==
    \A s \in Sessions :
        (Current(s) /\ ~session[s].strict /\ primary.notices = <<>>) => session[s].got = at

(* The loop never sleeps over a location that came while it was reading:   *)
(* it is one it saw when it last looked, or one the page's own reads told. *)
NoNewsWhileAsleep ==
    (follow.at = "asleep" /\ ~news) => hint \in {NoBlock, follow.seen, last}

(* Once the chain rests, a followed transaction's place is learned and     *)
(* kept, whatever stale hint, location or scope there was before.          *)
AcceptanceIsLearned ==
    \A b \in Blocks : <>[](at = b /\ watched) => <>[](follow.known = b)
============================================================================
