------------------------------ MODULE DrawShown ------------------------------
(***************************************************************************)
(* The draw's progress on the page (draw-readiness.mjs): reads of the      *)
(* target and its depth, coalesced from chain notices, and a pulse that    *)
(* moves the shown count between them, while the engine may be drawing     *)
(* with the same cached confirmations (DrawTarget).                        *)
(***************************************************************************)
EXTENDS DrawTarget

VARIABLES
    seen,       \* the session's live state is current and sealed
    show,       \* progress: [phase, target, count]
    timer,
    requested,  \* a hint came during the read
    reading     \* [at, valid]: the read in progress

shownVars == <<seen, show, timer, requested, reading>>
vars == <<drawVars, shownVars>>

Nothing == [phase |-> "none", target |-> None, count |-> 0]
Phase(p) == [Nothing EXCEPT !.phase = p]
NotReading == [at |-> "none", valid |-> FALSE]

Init ==
    /\ DrawInit
    /\ seen = FALSE /\ show = Nothing /\ timer = FALSE /\ requested = FALSE /\ reading = NotReading

---------------------------------------------------------------------------
(* Mutant: a hint during a read is dropped.                                *)
HintsIdle(shown, ready, busy) == ~busy

Hints(shown, ready, busy) == ~ready

(* hint(): shown is what is on screen by then, busy that a read goes on.   *)
(* A ready view whose confirmation holds needs no read.                    *)
Hint(shown, busy, asked) ==
    LET ready == shown.phase = "READY" /\ shown.target # None
                   /\ "page" \in conf'[shown.target].held /\ Current(conf'[shown.target])
        due == seen' /\ Hints(shown, ready, busy) IN
    /\ show' = IF seen' /\ shown.phase = "none" THEN Phase("CHECKING") ELSE shown
    /\ requested' = (asked \/ (due /\ busy))
    /\ timer' = (timer \/ (due /\ ~busy))

Busy == reading.at # "none"

(* A notice strikes what it names, then wakes the page.                    *)
Deliver ==
    /\ notices # <<>> /\ notices' = Tail(notices)
    /\ Heard(Head(notices))
    /\ UNCHANGED <<tip, upsets, latest, job, seen, reading>>
    /\ Hint(show, Busy, requested)

(* Mutant: the timer of the next read is left running.                     *)
LeavesTimer ==
    /\ seen' = FALSE /\ show' = Nothing
    /\ reading' = [reading EXCEPT !.valid = FALSE]
    /\ UNCHANGED <<timer, requested>>

(* invalidate(), by the session; what it reads then comes to nothing.      *)
Invalidates ==
    /\ seen' = FALSE /\ show' = Nothing /\ timer' = FALSE
    /\ reading' = [reading EXCEPT !.valid = FALSE]
    /\ UNCHANGED requested

Gap ==
    /\ Upset /\ notices' = <<>> /\ tip' \in Blocks
    /\ Lost /\ Invalidates
    /\ UNCHANGED <<latest, job>>

SessionLoses ==
    /\ seen /\ Upset
    /\ Invalidates
    /\ UNCHANGED <<chainVars, confVars, job>>

(* The session publishes the sealed state and calls hint().                *)
SessionSees ==
    /\ ~seen /\ seen' = TRUE
    /\ UNCHANGED <<drawVars, reading>>
    /\ Hint(show, Busy, requested)

---------------------------------------------------------------------------
(* read()                                                                  *)

ReadBegins ==
    /\ timer /\ seen /\ ~Busy
    /\ timer' = FALSE /\ requested' = FALSE
    /\ reading' = [at |-> "daa", valid |-> TRUE]
    /\ UNCHANGED <<drawVars, seen, show>>

(* publish, then finally.                                                  *)
Ends(shown, again) ==
    /\ reading' = NotReading
    /\ IF requested \/ again THEN Hint(shown, FALSE, FALSE)
       ELSE show' = shown /\ UNCHANGED timer /\ requested' = FALSE

ReadDaa ==
    /\ reading.at = "daa" /\ reading.valid
    /\ UNCHANGED <<drawVars, seen>>
    /\ IF Height(tip) < Boundary THEN Ends(Phase("DAA_WAIT"), FALSE)
       ELSE /\ reading' = [reading EXCEPT !.at = "acquire"]
            /\ show' = IF show.target = None THEN Phase("TARGET_CHECKING") ELSE show
            /\ UNCHANGED <<timer, requested>>

ReadAcquires ==
    /\ reading.at = "acquire" /\ reading.valid
    /\ UNCHANGED <<chainVars, upsets, job, seen>>
    /\ IF Proof = None
       THEN UNCHANGED confVars /\ Ends(Phase("TARGET_WAIT"), FALSE)
       ELSE /\ proofed' = Proof /\ CheckBegins("page", Proof)
            /\ reading' = [reading EXCEPT !.at = "confirm"]
            /\ UNCHANGED <<show, timer, requested>>

(* A read that began before a pulse does not move the count back.          *)
CountOf(t, n) == IF show.phase = "TARGET_WAIT" /\ show.target = t /\ show.count > n THEN show.count ELSE n

(* The outcome of the check; a shown READY outlives a transient failure    *)
(* for a while.                                                            *)
ReadLearns ==
    LET c == check["page"]
        how == IF c.at = "confirmed" /\ ~Fresh("page", c.target) THEN "stale" ELSE c.at IN
    /\ reading.at = "confirm" /\ reading.valid
    /\ how \notin Steps
    /\ check' = [check EXCEPT !["page"] = NoCheck]
    /\ proofed' = IF how = "invalid" THEN ForgetsFailed(c.target) ELSE proofed
    /\ UNCHANGED <<chainVars, upsets, latest, conf, job, seen>>
    /\ \/ how = "confirmed" /\ Ends([phase |-> "READY", target |-> c.target, count |-> MinConf], FALSE)
       \/ how = "unconfirmed"
            /\ Ends([phase |-> "TARGET_WAIT", target |-> c.target, count |-> CountOf(c.target, c.count)], FALSE)
       \/ how = "invalid" /\ Ends(Phase("TARGET_CHECKING"), TRUE)
       \/ how \in {"stale", "behind"} /\ Ends(Phase("UNAVAILABLE"), FALSE)
       \/ how \in {"stale", "behind"} /\ show.phase = "READY" /\ Ends(show, TRUE)

(* A cancelled read ends, at whatever it was.                              *)
ReadCancelled ==
    /\ Busy /\ ~reading.valid
    /\ check' = [check EXCEPT !["page"] = NoCheck]
    /\ latest' = [t \in Blocks |-> IF latest[t] = "page" THEN None ELSE latest[t]]
    /\ UNCHANGED <<chainVars, upsets, proofed, conf, job, seen>>
    /\ Ends(show, FALSE)

---------------------------------------------------------------------------
(* pulse(): the sink's score, shown up to one below what read() must find. *)
Pulse ==
    LET live == Height(tip) - Height(show.target)
        shown == IF live >= MinConf THEN MinConf - 1 ELSE live IN
    /\ seen
    /\ UNCHANGED <<drawVars, seen, reading>>
    /\ \/ /\ show.phase = "DAA_WAIT" /\ Height(tip) >= Boundary
          /\ Hint(Phase("TARGET_CHECKING"), Busy, requested)
       \/ /\ show.phase = "TARGET_WAIT" /\ show.target # None /\ Height(tip) >= Height(show.target)
          /\ LET next == [show EXCEPT !.count = IF live > @ THEN shown ELSE @] IN
             IF live >= MinConf THEN Hint(next, Busy, requested)
             ELSE show' = next /\ UNCHANGED <<timer, requested>>

---------------------------------------------------------------------------

Next ==
    \/ Move /\ UNCHANGED <<confVars, job, shownVars>>
    \/ \E r \in Readers : CheckStep(r) /\ UNCHANGED <<chainVars, upsets, job, shownVars>>
    \/ \E r \in Readers : TimesOut(r) /\ UNCHANGED <<chainVars, job, shownVars>>
    \/ Expires /\ UNCHANGED <<chainVars, job, shownVars>>
    \/ EngineStep /\ UNCHANGED <<chainVars, upsets, shownVars>>
    \/ Deliver \/ Gap \/ SessionLoses \/ SessionSees
    \/ ReadBegins \/ ReadDaa \/ ReadAcquires \/ ReadLearns \/ ReadCancelled \/ Pulse

Spec == Init /\ [][Next]_vars

---------------------------------------------------------------------------

(* Types; a timer or a request means there is something to read for.       *)
TypeOK ==
    /\ tip \in Blocks /\ {proofed, show.target, job.target} \subseteq Blocks \cup {None}
    /\ \A r \in Readers : check[r].at \in Steps \cup {"none", "confirmed", "unconfirmed", "invalid", "stale", "behind"}
    /\ \A t \in Blocks : latest[t] \in Readers \cup {None} /\ conf[t].held \subseteq Readers
    /\ show.count \in 0 .. MinConf
    /\ timer => seen /\ ~Busy
    /\ requested => Busy

(* draw-confirmations.mjs:42-77,137-146, engine.mjs:534-541: a transaction *)
(* that passes the fence draws on a target that is MinConf deep in the     *)
(* selected chain, unless the notice of a change is still on its way: also *)
(* when the tip fell back since the check, or blocks came and went during  *)
(* it, or the page has checked the same target meanwhile.                  *)
FencedIsDeep == MaySend /\ notices = <<>> => Deep(job.target, tip)

Expected ==
    IF Height(tip) < Boundary THEN "DAA_WAIT"
    ELSE IF Deep(Target(tip), tip) THEN "READY" ELSE "TARGET_WAIT"

(* draw-readiness.mjs:42-60,159-164: when no read goes on or is due and    *)
(* all notices have come, the page shows the phase the chain is in, or     *)
(* that it could not be read: no change of the chain is missed because it  *)
(* was noticed in the middle of a read.                                    *)
QuietIsTrue ==
    seen /\ notices = <<>> /\ ~timer /\ ~Busy
        => show.phase \in {Expected, "UNAVAILABLE"}
=============================================================================
