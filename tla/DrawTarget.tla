----------------------------- MODULE DrawTarget -----------------------------
(***************************************************************************)
(* When the random block of a draw may be used (draw-confirmations.mjs,    *)
(* passa.mjs, the chain observation of nodes.mjs): the target is the first *)
(* block of the selected chain past the draw's boundary, and it counts     *)
(* once it is buried MinConf deep.  A check reads its header, then an      *)
(* anchor C above it; what it found stays usable, without asking again,    *)
(* while neither block is reported removed.  The engine sends under such a *)
(* confirmation; the page shows how far the draw is (DrawShown).           *)
(*                                                                         *)
(* The DAA score and the blue score of a block are both its height: they   *)
(* only grow along the chain.                                              *)
(***************************************************************************)
EXTENDS Naturals, Sequences, FiniteSets

CONSTANTS
    Blocks,
    Path,       \* Path[b]: b and the blocks under it, up to the accepting block of CLOSE
    Boundary,   \* the height of a target
    MinConf,    \* DRAW_MIN_CONFIRMATIONS
    None,
    MaxUpsets   \* moves of the chain, lost notices, slow reads, expiries and
                \* lost sessions in a run

Height(b) == Cardinality(Path[b])

(* The paths are those of a tree: a block of every height under b, and one *)
(* root.                                                                   *)
ASSUME DrawAssumption ==
    /\ None \notin Blocks
    /\ \A b \in Blocks :
          /\ b \in Path[b] /\ Path[b] \subseteq Blocks /\ IsFiniteSet(Path[b])
          /\ \A t \in Path[b] : Path[t] \subseteq Path[b]
          /\ \A h \in 1..Height(b) : \E t \in Path[b] : \A u \in Path[b] : Height(u) = h <=> u = t
          /\ \A r \in Blocks : Height(r) = 1 => r \in Path[b]
    /\ Boundary \in Nat \ {0} /\ MinConf \in Nat \ {0}
    /\ MaxUpsets \in Nat

Readers == {"engine", "page"}

VARIABLES
    tip, upsets,
    notices,    \* the sets of removed blocks the node reported, not yet received
    proofed,    \* the target whose PASS-A proof is cached
    check,      \* check[r]: the check reader r makes, with what was removed under it
    latest,     \* latest[t]: the reader whose check of t is the cached attempt
    conf,       \* conf[t]: the confirmation of t in the cache
    job         \* the engine's draw

chainVars == <<tip, notices>>
confVars == <<proofed, check, latest, conf>>
drawVars == <<chainVars, upsets, confVars, job>>

Parent(b) == CHOOSE p \in Path[b] \ {b} : Height(p) = Height(b) - 1

(* The first block past the boundary on the chain of tip b.                *)
Target(b) == IF Height(b) < Boundary THEN None
             ELSE CHOOSE t \in Path[b] : Height(t) = Boundary

Deep(t, b) == t \in Path[b] /\ Height(b) >= Height(t) + MinConf

(* targetOk, anchorOk, chainOk: the target, the anchor, or no block at all *)
(* was reported removed since it was looked at.                            *)
NoCheck == [at |-> "none", target |-> None, anchor |-> None, count |-> 0,
            targetOk |-> FALSE, anchorOk |-> FALSE, chainOk |-> FALSE]

NoConf == [anchor |-> None, targetOk |-> FALSE, anchorOk |-> FALSE, chainOk |-> FALSE, held |-> {}]

Idle == [at |-> "idle", target |-> None]

DrawInit ==
    /\ tip \in Blocks /\ upsets = 0
    /\ notices = <<>>
    /\ proofed = None
    /\ check = [r \in Readers |-> NoCheck]
    /\ latest = [t \in Blocks |-> None] /\ conf = [t \in Blocks |-> NoConf]
    /\ job = Idle

Upset == upsets < MaxUpsets /\ upsets' = upsets + 1

---------------------------------------------------------------------------
(* The node's chain, and the marks its notices leave.                      *)

Move ==
    /\ Upset
    /\ tip' \in Blocks \ {tip}
    /\ notices' = Append(notices, Path[tip] \ Path[tip'])

(* Mutant: only a removed target is noted.                                 *)
StrikesTarget(a, t, removed) == [a EXCEPT !.targetOk = @ /\ t \notin removed]

(* noteChainRemoval()                                                      *)
Strikes(a, t, removed) ==
    [a EXCEPT !.targetOk = @ /\ t \notin removed,
              !.anchorOk = @ /\ a.anchor \notin removed,
              !.chainOk = @ /\ removed = {}]

Heard(removed) ==
    /\ check' = [r \in Readers |-> Strikes(check[r], check[r].target, removed)]
    /\ conf' = [t \in Blocks |-> Strikes(conf[t], t, removed)]
    /\ proofed' = IF removed = {} THEN proofed ELSE None

(* An unreadable notice or another connection: nothing noted holds.        *)
Lost ==
    /\ check' = [r \in Readers |-> [check[r] EXCEPT !.targetOk = FALSE, !.anchorOk = FALSE, !.chainOk = FALSE]]
    /\ conf' = [t \in Blocks |-> NoConf]
    /\ proofed' = None

---------------------------------------------------------------------------
(* requireConfirmedDrawTarget()                                            *)

(* current(): without an anchor any removal counts.                        *)
Current(a) == IF a.anchor # None THEN a.targetOk /\ a.anchorOk ELSE a.chainOk

(* assertFreshDrawConfirmation()                                           *)
Fresh(r, t) == t # None /\ r \in conf[t].held /\ Current(conf[t])

Usable(t) == conf[t].held # {} /\ Current(conf[t])

(* A young confirmation is shared; else a new attempt takes its place in   *)
(* the cache, whatever becomes of it.                                      *)
CheckBegins(r, t) ==
    \/ /\ Usable(t)
       /\ conf' = [conf EXCEPT ![t].held = @ \cup {r}]
       /\ check' = [check EXCEPT ![r] = [NoCheck EXCEPT !.at = "confirmed", !.target = t]]
       /\ UNCHANGED latest
    \/ /\ conf' = [conf EXCEPT ![t] = NoConf]
       /\ latest' = [latest EXCEPT ![t] = r]
       /\ check' = [check EXCEPT ![r] =
                      [NoCheck EXCEPT !.at = "target", !.target = t, !.targetOk = TRUE, !.chainOk = TRUE]]

Goes(r, at) == check' = [check EXCEPT ![r].at = at] /\ UNCHANGED <<latest, conf>>

Fails(r, how) ==
    /\ check' = [check EXCEPT ![r].at = how]
    /\ latest' = [latest EXCEPT ![check[r].target] = IF @ = r THEN None ELSE @]
    /\ UNCHANGED conf

ReadsTarget(r) ==
    /\ check[r].at = "target"
    /\ IF check[r].target \in Path[tip] THEN Goes(r, "sink") ELSE Fails(r, "invalid")

(* A block is watched for its removal before its header is read.           *)
Watches(r, b, at) ==
    /\ check' = [check EXCEPT ![r].anchor = b, ![r].anchorOk = TRUE, ![r].at = at]
    /\ UNCHANGED <<latest, conf>>

ReadsSink(r) == check[r].at = "sink" /\ Watches(r, tip, "anchor")

(* confirmationAnchor(): down from the sink to a chain block; a selected   *)
(* parent that is deep enough, too, is preferred to it.                    *)
ReadsAnchor(r) ==
    LET c == check[r].anchor
        enough == Height(check[r].target) + MinConf IN
    /\ check[r].at = "anchor"
    /\ IF c \notin Path[tip] THEN Watches(r, Parent(c), "anchor")
       ELSE IF Height(c) > enough THEN Watches(r, Parent(c), "parent")
       ELSE /\ check' = [check EXCEPT ![r].at = "score",
                                      ![r].anchor = IF Height(c) < enough THEN None ELSE c]
            /\ UNCHANGED <<latest, conf>>

ReadsParent(r) ==
    /\ check[r].at = "parent"
    /\ IF check[r].anchor \in Path[tip] THEN Goes(r, "score") ELSE Fails(r, "stale")

(* The depth is by the sink's score now; what was found must still stand   *)
(* and be the newest attempt.                                              *)
ReadsScore(r) ==
    LET t == check[r].target
        behind == Height(tip) < Height(t) \/ (check[r].anchor # None /\ Height(tip) < Height(check[r].anchor)) IN
    /\ check[r].at = "score"
    /\ \/ behind /\ Fails(r, "behind")
       \/ /\ ~behind /\ Height(tip) < Height(t) + MinConf
          /\ check' = [check EXCEPT ![r].at = "unconfirmed", ![r].count = Height(tip) - Height(t)]
          /\ latest' = [latest EXCEPT ![t] = IF @ = r THEN None ELSE @]
          /\ UNCHANGED conf
       \/ /\ ~behind /\ Height(tip) >= Height(t) + MinConf
          /\ IF Current(check[r]) /\ latest[t] = r
             THEN /\ conf' = [conf EXCEPT ![t] =
                                [anchor |-> check[r].anchor, targetOk |-> check[r].targetOk,
                                 anchorOk |-> check[r].anchorOk, chainOk |-> check[r].chainOk, held |-> {r}]]
                  /\ latest' = [latest EXCEPT ![t] = None]
                  /\ check' = [check EXCEPT ![r] = [NoCheck EXCEPT !.at = "confirmed", !.target = t]]
             ELSE Fails(r, "stale")

Steps == {"target", "sink", "anchor", "parent", "score"}

CheckStep(r) ==
    /\ ReadsTarget(r) \/ ReadsSink(r) \/ ReadsAnchor(r) \/ ReadsParent(r) \/ ReadsScore(r)
    /\ UNCHANGED proofed

TimesOut(r) == check[r].at \in Steps /\ Upset /\ Fails(r, "stale") /\ UNCHANGED proofed

(* observedAt is too long ago.                                             *)
Expires ==
    \E t \in Blocks :
        /\ conf[t].held # {} /\ Upset
        /\ conf' = [conf EXCEPT ![t] = NoConf]
        /\ UNCHANGED <<proofed, check, latest>>

---------------------------------------------------------------------------
(* The engine's draw: acquireRoundProof(), waitForDrawTarget(), then a     *)
(* check of the signed draft and the fence before the transport.           *)

(* invalidateFailedTarget()                                                *)
ForgetsFailed(t) == IF proofed = t THEN None ELSE proofed

(* The proof of the last time, while nothing was removed since.            *)
Proof == IF proofed # None THEN proofed ELSE Target(tip)

Plans ==
    /\ job.at = "idle" /\ Proof # None
    /\ proofed' = Proof
    /\ job' = [at |-> "confirm", target |-> Proof]
    /\ UNCHANGED <<check, latest, conf>>

EngineChecks ==
    /\ job.at \in {"confirm", "send"} /\ check["engine"].at = "none"
    /\ CheckBegins("engine", job.target)
    /\ UNCHANGED <<proofed, job>>

(* A failed target loses its proof, unless it is just not deep enough.     *)
EngineLearns ==
    LET how == check["engine"].at IN
    /\ how \in {"confirmed", "unconfirmed", "invalid", "stale", "behind"}
    /\ check' = [check EXCEPT !["engine"] = NoCheck]
    /\ \/ /\ how = "confirmed"
          /\ job' = [job EXCEPT !.at = IF @ = "confirm" THEN "sign" ELSE "fence"]
          /\ UNCHANGED proofed
       \/ /\ how \in {"unconfirmed", "stale"} /\ job.at = "confirm"
          /\ UNCHANGED <<job, proofed>>
       \/ /\ how \in {"invalid", "behind"} \/ (how # "confirmed" /\ job.at = "send")
          /\ job' = Idle
          /\ proofed' = IF how = "unconfirmed" THEN proofed ELSE ForgetsFailed(job.target)
    /\ UNCHANGED <<latest, conf>>

Signs ==
    /\ job.at = "sign"
    /\ job' = [job EXCEPT !.at = "send"]
    /\ UNCHANGED confVars

(* beforeSend: the transaction leaves, or the execution fails.             *)
Sends ==
    /\ job.at = "fence"
    /\ job' = Idle
    /\ UNCHANGED confVars

MaySend == job.at = "fence" /\ Fresh("engine", job.target)

EngineStep == Plans \/ EngineChecks \/ EngineLearns \/ Signs \/ Sends
=============================================================================
