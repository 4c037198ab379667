----------------------------- MODULE RoundPage ------------------------------
(***************************************************************************)
(* The page that shows one round (app.mjs) and its recovery when it comes  *)
(* back to the foreground (foreground-recovery.mjs), over the detail       *)
(* session of RoundTracker.                                                *)
(*                                                                         *)
(* The session exists while the page is visible.  Coming back, or online,  *)
(* closes it, asks the node whether it answers at all, and opens another.  *)
(* Only one recovery runs; an execution in progress holds it up.           *)
(***************************************************************************)
EXTENDS RoundTracker

VARIABLES
    visible,
    opening,      \* refreshRound() of openRound() is under way
    detail,       \* what is shown: "none", "shown", or "final" for a verified settled result
    recovering,   \* R.recovering
    executing,    \* a transaction is being signed and sent
    recovery      \* [dirty, timer, work]

pageVars == <<visible, opening, detail, recovering, executing, recovery>>
vars == <<trackerVars, pageVars>>

(* The recovery's work: "records" or "round" while it asks the node, by    *)
(* what it found to need; "detail" while the new session reads; "old" when *)
(* it was paused.                                                          *)
NoRecovery == [dirty |-> FALSE, timer |-> FALSE, work |-> "none"]

Init ==
    /\ TrackerInit
    /\ visible = TRUE /\ opening = TRUE /\ detail = "none" /\ recovering = FALSE
    /\ executing = FALSE /\ recovery = NoRecovery

---------------------------------------------------------------------------
(* The session's callbacks.  A published result is adopted; a candidate, a *)
(* failure or a lost final verdict leaves what is shown as not verified.   *)
Shows ==
    LET looks == work.at = "begin" /\ work'.at = "watched"
        ends == work.at # "none" /\ work'.at = "none" IN
    /\ recovering' = (recovering /\ obs'.view = None)
    /\ detail' \in IF obs'.view # None THEN {IF obs'.settled THEN "final" ELSE "shown"}
                   ELSE IF Terminal THEN {"shown"}
                   ELSE IF looks \/ ends THEN {detail, "shown"}
                   ELSE {detail}
    /\ UNCHANGED <<visible, opening, executing, recovery>>

(* Mutant: a detail that is being recovered is tracked as it is.           *)
MarksNothing == UNCHANGED recovering

(* markDetailForRecovery()                                                 *)
Marks == recovering' = (recovering \/ detail = "shown")

(* trackDetail(), after stopDetail()                                       *)
Tracks(shown, begun) ==
    /\ detail' = shown
    /\ IF visible /\ shown # "final" THEN Started(begun) /\ UNCHANGED recovering
       ELSE Stopped /\ recovering' = (recovering /\ ~visible)

Opened ==
    /\ opening /\ opening' = FALSE
    /\ \E d \in IF row.term THEN {"final"} ELSE IF row.view # None THEN {"shown"} ELSE {"none", "shown"} :
          Tracks(d, FALSE)
    /\ UNCHANGED <<nodeVars, notices, upsets, visible, executing, recovery>>

---------------------------------------------------------------------------
(* foreground-recovery.mjs                                                 *)

(* Mutant: events share a recovery that was paused, too.                   *)
SharesAnyWork == recovery.work # "none"

(* The recovery under way was begun for this stay in the foreground.       *)
SharesWork == recovery.work \in {"records", "round", "detail"}

(* schedule()                                                              *)
Schedules(r) ==
    [r EXCEPT !.timer = @ \/ (r.dirty /\ r.work = "none" /\ visible' /\ ~executing')]

(* request(): events during one recovery share it.                         *)
Request ==
    IF SharesWork
    THEN UNCHANGED <<recovery, recovering, nodeVars, notices, address, sessionVars, storeVars>>
    ELSE /\ recovery' = Schedules([recovery EXCEPT !.dirty = TRUE])
         /\ Marks /\ Stopped
         /\ UNCHANGED <<nodeVars, notices>>

Flush ==
    /\ recovery.timer
    /\ recovery' = IF recovery.dirty /\ ~executing
                   THEN [dirty |-> FALSE, timer |-> FALSE,
                         work |-> IF detail = "final" THEN "records" ELSE "round"]
                   ELSE [recovery EXCEPT !.timer = FALSE]
    /\ UNCHANGED <<trackerVars, visible, opening, detail, recovering, executing>>

Ended == UNCHANGED <<visible, executing>> /\ recovery' = Schedules([recovery EXCEPT !.work = "none"])

(* ensureResponsive() answers, or there was nothing to ask for.            *)
ProbeAnswers ==
    /\ \/ /\ recovery.work = "records" /\ Ended
          /\ UNCHANGED <<address, sessionVars, storeVars, detail, recovering>>
       \/ /\ recovery.work = "round"
          /\ Tracks(detail, TRUE)
          /\ recovery' = [recovery EXCEPT !.work = "detail"]
          /\ UNCHANGED <<visible, executing>>
    /\ UNCHANGED <<nodeVars, notices, upsets, opening>>

(* Mutant: onError only reports.                                           *)
Reports == FALSE

(* onError() tracks what is being recovered.                               *)
TracksAfterAll == recovering /\ ~on

ProbeFails ==
    /\ recovery.work \in {"records", "round"}
    /\ IF TracksAfterAll THEN Tracks(detail, FALSE)
       ELSE UNCHANGED <<address, sessionVars, storeVars, detail, recovering>>
    /\ Ended
    /\ UNCHANGED <<nodeVars, notices, upsets, opening>>

(* The session's first read has ended, or the paused recovery has.         *)
RecoveryEnds ==
    /\ recovery.work = "old" \/ (recovery.work = "detail" /\ work.at = "none")
    /\ Ended
    /\ UNCHANGED <<trackerVars, opening, detail, recovering>>

---------------------------------------------------------------------------
(* The browser and the user.                                               *)

Online ==
    /\ visible /\ Upset
    /\ UNCHANGED <<visible, executing>> /\ Request
    /\ UNCHANGED <<opening, detail>>

(* pause()                                                                 *)
Paused == [NoRecovery EXCEPT !.work = IF recovery.work = "none" THEN "none" ELSE "old"]

Hide ==
    /\ visible /\ Upset
    /\ visible' = FALSE /\ recovery' = Paused
    /\ Marks /\ Stopped
    /\ UNCHANGED <<nodeVars, notices, opening, detail, executing>>

Show ==
    /\ ~visible /\ visible' = TRUE
    /\ UNCHANGED executing /\ Request
    /\ UNCHANGED <<opening, detail, upsets>>

(* retryRoundSync() and verifyLatest() of a round that is not tracked.     *)
Retry ==
    /\ visible /\ ~opening /\ ~on /\ Upset
    /\ Started(FALSE)
    /\ UNCHANGED <<nodeVars, notices, visible, opening, detail, recovering, executing, recovery>>

Execute ==
    /\ visible /\ ~executing /\ Upset
    /\ executing' = TRUE
    /\ UNCHANGED <<nodeVars, notices, address, sessionVars, storeVars, visible, opening, detail, recovering, recovery>>

(* Mutant: the end of an execution forgets the recovery it held up.        *)
ForgetsHeldUp(r) == r

HeldUp(r) == Schedules(r)

ExecutionEnds ==
    /\ executing /\ executing' = FALSE
    /\ UNCHANGED visible /\ recovery' = HeldUp(recovery)
    /\ UNCHANGED <<trackerVars, opening, detail, recovering>>

(* The page is closed, or dies, and is opened again.                       *)
Reload ==
    /\ Upset
    /\ visible' = TRUE /\ opening' = TRUE /\ detail' = "none" /\ recovering' = FALSE
    /\ executing' = FALSE /\ recovery' = NoRecovery
    /\ on' = FALSE /\ candidate' = None /\ checkpoint' = None /\ offered' = None
    /\ obs' = NoObs /\ dirty' = FALSE /\ timer' = "off" /\ work' = NoWork /\ live' = "idle"
    /\ address' = None /\ notices' = <<>> /\ untold' = FALSE
    /\ row' = Loaded /\ flight' = NoRow
    /\ UNCHANGED <<tip, age, moves, disk>>

---------------------------------------------------------------------------

Session == Deliver \/ Gap \/ Offer \/ TimerFires \/ RunStep \/ RunError \/ LiveCalled \/ LiveEnds \/ LiveAgain \/ LiveIsStale

Next ==
    \/ (Move \/ Deepen \/ WriteOut) /\ UNCHANGED pageVars
    \/ Session /\ Shows
    \/ Opened \/ Flush \/ ProbeAnswers \/ ProbeFails \/ RecoveryEnds
    \/ Online \/ Hide \/ Show \/ Retry \/ Execute \/ ExecutionEnds \/ Reload

Spec == Init /\ [][Next]_vars

---------------------------------------------------------------------------

(* Types of the page, the session, the node and the store; nothing of a    *)
(* closed session is left to run.                                          *)
TypeOK ==
    /\ {visible, opening, recovering, executing, on, dirty, untold} \subseteq BOOLEAN
    /\ detail \in {"none", "shown", "final"}
    /\ recovery \in [dirty : BOOLEAN, timer : BOOLEAN, work : {"none", "records", "round", "detail", "old"}]
    /\ ~on => timer = "off" /\ work = NoWork /\ live = "idle" /\ obs = NoObs
    /\ timer \in {"off", "wake", "interval"} /\ live \in {"idle", "wait", "recheck"}
    /\ tip \in States /\ age \in [Final -> 0 .. 3]
    /\ {address, candidate, checkpoint, offered, obs.view, work.res, work.given} \subseteq States \cup {None}
    /\ work.at \in {"none", "begin", "watched", "ask", "answered", "recheck"}
    /\ {row, flight, disk} \subseteq [view : States \cup {None}, observed : BOOLEAN, term : BOOLEAN]

(* round-tracker.mjs:56-101,250-285: what a session shows as current is on *)
(* the selected chain once the notices sent so far have arrived, whatever  *)
(* it was reading when they did.                                           *)
CurrentIsOnChain == ObservationCurrent /\ notices = <<>> => obs.view \in Path[tip]

(* round-tracker.mjs:286-299,143-149: an open session that has not settled *)
(* is reading, read for by an action, or has a timer for its next read.    *)
NextReadIsDue == on /\ ~Terminal /\ work.at = "none" /\ live = "idle" => timer # "off"

(* rest-rounds.mjs:187-188,263-269, round-store.mjs: a final result kept   *)
(* as settled was read from the node after its block was deep enough, on   *)
(* the chain at that time; a body handed over earlier never settles it.    *)
SettledWasDeep == \A r \in {row, flight, disk} : r.term => r.view \in Final /\ age[r.view] = 3

Quiet == visible /\ ~opening /\ recovery = NoRecovery

(* app.mjs:1837-1857, foreground-recovery.mjs:24-44: when no recovery is   *)
(* asked for or under way, a visible round that is shown but not settled   *)
(* is tracked, also when the recovery's probe failed.                      *)
RecoveredIsTracked == Quiet /\ detail = "shown" => on

(* app.mjs:633, "it must start either way": the same of a round of which   *)
(* nothing could be shown yet.                                             *)
AlwaysTracked == Quiet /\ detail # "final" => on

(* foreground-recovery.mjs:20-44: a recovery that was asked for, while an  *)
(* older one was still ending or an execution held it up, has its timer,   *)
(* or the end of what it waits for to set it: it is not lost.              *)
RecoveryIsDue ==
    recovery.dirty /\ visible => executing \/ recovery.timer \/ recovery.work # "none"
=============================================================================
