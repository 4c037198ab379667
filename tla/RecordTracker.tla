--------------------------- MODULE RecordTracker ---------------------------
(***************************************************************************)
(* How a tab follows its own transactions after they were sent             *)
(* (engine.mjs, from reconcile() to settleFamily(), with diagnosis.mjs,    *)
(* tracker.mjs and the searches of chain.mjs): a family of fee bumps that  *)
(* spend the same inputs, on a chain that grows and reorganises, beside a  *)
(* rival transaction of somebody else and a mempool that forgets.          *)
(*                                                                         *)
(* Several follows run at once, of one record or of several: the loops of  *)
(* one page (autoReconcile, #followReplacedFamily), a click, another tab.  *)
(* Each goes step by step, and its steps lie between the awaits at which   *)
(* the chain or another follow may move.  Every write of a record is a     *)
(* compare-and-set: a follow knows that it lost when another wrote since   *)
(* it read (stale), and that a newer check of the record began (newer, the *)
(* code's checkedAt).  What the page is told of the chain between two      *)
(* reads may come late: see Heard.                                         *)
(*                                                                         *)
(* TRACKED stands for SUBMITTED, PENDING and UNKNOWN, CONFLICTED for every *)
(* lost verdict.  A block never returns once it was removed.               *)
(***************************************************************************)
EXTENDS Naturals, Sequences

CONSTANTS
    Txs,            \* the family: all spend the same inputs
    Root,           \* its first member
    Followers,      \* the follows that may run at once, in any tab
    Rival,          \* the transaction of somebody else on an input of theirs
    NoTx,
    RecheckDepth,   \* REORG_RECHECK_DAA, in blocks
    MaxReorg,       \* the deepest reorg of a run, in blocks
    MaxBlocks,      \* blocks that ever exist in a run
    ResendLimit,    \* RESEND_LIMIT
    Resendable,     \* the members that have a resend left at first
    Rounds          \* how far undisturbed follows are counted: see Counted

ASSUME TrackerAssumption ==
    /\ Root \in Txs /\ Rival \notin Txs /\ NoTx \notin Txs \cup {Rival}
    /\ RecheckDepth \in Nat \ {0} /\ MaxReorg \in Nat
    /\ MaxBlocks \in Nat /\ ResendLimit \in Nat \ {0, 1} /\ Rounds \in Nat

VARIABLES
    chain,    \* the selected chain: blocks [id, tx], tx what it accepts of these
    made,     \* blocks that existed so far
    pool,     \* the family member in the node's mempool, or NoTx
    rec,      \* rec[x]: the journal's record of x
    job,      \* job[f]: how far the follow f is
    rounds    \* history: how often x was followed, see Counted

vars == <<chain, made, pool, rec, job, rounds>>

Sticky == {"REJECTED", "REPLACED", "SUPERSEDED", "CONFLICTED"}
Following == {"TRACKED", "RECHECKING", "CONFIRMING", "REPLACED"}
Statuses == Sticky \cup Following \cup {"ACCEPTED"}
NoBlock == 0

---------------------------------------------------------------------------
(* The chain as the node answers.                                          *)

Accepting(x) == {i \in 1..Len(chain) : chain[i].tx = x}
OnChain(x) == Accepting(x) # {}
BlockOf(x) == chain[CHOOSE i \in Accepting(x) : TRUE].id
Spent == \E i \in 1..Len(chain) : chain[i].tx # NoTx
Selected(block) == \E i \in 1..Len(chain) : chain[i].id = block
Depth(block) == Len(chain) - (CHOOSE i \in 1..Len(chain) : chain[i].id = block)

(* Mutant: deep enough is one block early.                                 *)
AcceptanceStepEarly(depth) == IF depth + 1 >= RecheckDepth THEN "ACCEPTED" ELSE "CONFIRMING"

(* A first acceptance is a candidate; deep enough, it settles the record.  *)
AcceptanceStep(depth) == IF depth >= RecheckDepth THEN "ACCEPTED" ELSE "CONFIRMING"

---------------------------------------------------------------------------
(* The follows and the journal.                                            *)

(* What the page goes by between two reads: a block accepted or removed is *)
(* told by notice, maybe only after the step that asks.                    *)
Heard(happened) == IF happened THEN BOOLEAN ELSE {FALSE}

(* seen: the inputs had been seen spent before the search read the chain,  *)
(* history for NotLostToItself that no guard reads.                        *)
Idle == [at |-> "idle", tx |-> NoTx, by |-> NoTx, keep |-> "TRACKED", status |-> "TRACKED",
         block |-> NoBlock, complete |-> FALSE, rest |-> FALSE, stale |-> FALSE,
         newer |-> FALSE, seen |-> FALSE, says |-> "NONE"]

Sending == {"send", "sent"}

(* A follow beside another's write of the records X.  It had read one of   *)
(* them to compare with: its own first write fails, and until there it     *)
(* only reads, so it ends; a later one learns it when it writes again.     *)
Overtaken(j, X) ==
    IF j.tx \in X /\ j.at \in {"read", "write"} THEN Idle
    ELSE [j EXCEPT !.stale = @ \/ (j.tx \in X /\ j.at \in {"confirm"} \cup Sending)]

(* And beside a newer check of x: what it found is not acted on any more.  *)
Outdated(j, x) ==
    IF j.tx = x /\ (j.at = "verdict" \/ (j.at = "decide" /\ j.status # "REPLACED"))
    THEN Idle
    ELSE [Overtaken(j, {x}) EXCEPT
             !.newer = @ \/ (j.tx = x /\ j.at \in {"confirm", "decide"})]

(* f writes r as the record of its transaction and goes on as next.        *)
Write(f, r, next) ==
    /\ rec' = [rec EXCEPT ![job[f].tx] = r]
    /\ job' = [g \in Followers |-> IF g = f THEN next ELSE Overtaken(job[g], {job[f].tx})]

Go(f, next) == job' = [job EXCEPT ![f] = next] /\ UNCHANGED rec

Buried(x) == \E i \in 1..Len(chain) : chain[i].tx = x /\ Len(chain) - i >= RecheckDepth
SpentForGood == \E x \in Txs \cup {Rival} : Buried(x)

Open(records) == {x \in Txs : records[x].status \in Following}

(* Nobody follows x.                                                       *)
Alone(x) == \A f \in Followers : job[f].tx # x

(* History, read by no guard: how often the open record x was followed, up *)
(* to Rounds, since the inputs were spent for good, a record last reached  *)
(* or left a verdict, and anything last failed.  Follows that overlap      *)
(* count as one.                                                           *)
Counted(X) ==
    rounds' = [x \in Txs |->
                 IF ~SpentForGood \/ Open(rec') # Open(rec) THEN 0
                 ELSE IF x \in X \cap Open(rec) /\ rounds[x] < Rounds THEN rounds[x] + 1
                 ELSE rounds[x]]

(* A step of a follow that leaves the network alone, and one that fails.   *)
Steady == UNCHANGED <<chain, made, pool>> /\ Counted({})

Fault == rounds' = [x \in Txs |-> 0]

Init ==
    /\ chain = <<>> /\ made = 0
    /\ pool \in Txs \cup {NoTx}
    /\ job = [f \in Followers |-> Idle]
    /\ rounds = [x \in Txs |-> 0]
    \* a fee bump whose answer came marks what it replaces, a lost answer
    \* does not; all resends but one were used, the last one was rejected
    /\ \E marked \in BOOLEAN :
         LET by(x) == IF marked /\ x = Root /\ Txs # {Root}
                      THEN CHOOSE y \in Txs : y # Root ELSE NoTx IN
         rec = [x \in Txs |->
             [status |-> IF by(x) = NoTx THEN "TRACKED" ELSE "REPLACED",
              replacedBy |-> by(x), accepting |-> NoBlock, complete |-> FALSE,
              last |-> "NONE",
              resends |-> IF x \in Resendable THEN ResendLimit - 1 ELSE ResendLimit,
              rejections |-> IF x \in Resendable THEN 1 ELSE 0]]

---------------------------------------------------------------------------
(* What a check of x finds at this moment.  Where: the block recorded      *)
(* before, a notice, or the bounded search; the full evidence at that      *)
(* block gives the depth.  A block that left the chain displaces the       *)
(* record: the location is forgotten.  Not on the chain, by a search that  *)
(* reached the tip and with no notice since then, is all that permits a    *)
(* diagnosis later.                                                        *)
At(block) == [status |-> AcceptanceStep(Depth(block)), block |-> block, complete |-> TRUE]

Nowhere(keep, block, complete) == [status |-> keep, block |-> block, complete |-> complete]

Finding(x, keep) ==
    LET known == rec[x].accepting IN
    IF known # NoBlock
    THEN IF Selected(known) THEN At(known) ELSE Nowhere(keep, NoBlock, FALSE)
    ELSE IF OnChain(x) THEN At(BlockOf(x)) ELSE Nowhere(keep, NoBlock, TRUE)

Keep(x) == IF rec[x].status \in Sticky THEN rec[x].status ELSE "TRACKED"

Repaired(x) ==
    IF rec[x].accepting # NoBlock /\ ~Selected(rec[x].accepting) THEN NoBlock
    ELSE rec[x].accepting

Positive(f) == f.status \in {"CONFIRMING", "ACCEPTED"}

Holding(j, f) == [j EXCEPT !.status = f.status, !.block = f.block, !.complete = f.complete]

Checked(r, f) ==
    [r EXCEPT !.status = f.status, !.accepting = f.block,
              !.complete = f.complete /\ f.status = "REPLACED",
              !.last = IF Positive(f) THEN "NONE" ELSE @]

(* reconcile(): the search location is repaired first, then the record is  *)
(* marked as being checked.  A record that was released is followed only   *)
(* when the user asks, and a rejected one is then only reconciled.         *)
Start(f, x) ==
    /\ job[f].at = "idle"
    /\ rec' = [rec EXCEPT ![x].accepting = Repaired(x),
                          ![x].status = IF @ \in Sticky THEN @ ELSE "RECHECKING"]
    /\ job' = [g \in Followers |->
                  IF g = f
                  THEN [Idle EXCEPT !.at = "read", !.tx = x, !.by = rec[x].replacedBy,
                                    !.keep = Keep(x)]
                  ELSE Outdated(job[g], x)]
    /\ UNCHANGED <<chain, made, pool>>
    /\ Counted({x} \cap {y \in Txs : Alone(y)})

(* An earlier check of x found the inputs spent, or a sibling was given up *)
(* for it.                                                                 *)
Observed(x) == rec[x].last = "CONFLICT" \/ \E y \in Txs \ {x} : rec[y].status = "CONFLICTED"

Read(f) ==
    /\ job[f].at = "read"
    /\ Go(f, Holding([job[f] EXCEPT !.at = "write", !.seen = Observed(job[f].tx)],
                     Finding(job[f].tx, job[f].keep)))
    /\ Steady

(* A page budget used up, a cursor reorganised away, an offline node, a    *)
(* block found and gone before its evidence was read.                      *)
ReadFails(f) ==
    /\ job[f].at = "read"
    /\ Fault
    /\ Go(f, Holding([job[f] EXCEPT !.at = "write"],
                  Nowhere(job[f].keep, rec[job[f].tx].accepting, FALSE)))
    /\ UNCHANGED <<chain, made, pool>>

(* The read scope tells that the block was removed since.                  *)
Revoked(f) == Holding(job[f], Nowhere(job[f].keep, NoBlock, FALSE))

(* Mutant: a first acceptance of one member already rules the others out.  *)
WinnersEarly(records) == {y \in Txs : records[y].status \in {"ACCEPTED", "CONFIRMING"}}

Winners(records) == {y \in Txs : records[y].status = "ACCEPTED"}

(* settleFamily(): once a member is accepted the others cannot be.  It is  *)
(* told of a family by the record's own pointer or root.                   *)
Ruled(records, x) ==
    IF (x = Root /\ records[x].replacedBy = NoTx) \/ Winners(records) = {} THEN {}
    ELSE {y \in Txs \ Winners(records) :
            records[y].status \notin {"ACCEPTED", "CONFIRMING", "SUPERSEDED"}}

Settled(records, X) ==
    [y \in Txs |->
        IF y \in X THEN [records[y] EXCEPT !.status = "SUPERSEDED"] ELSE records[y]]

(* What the family's records make of it, the ones f wrote being X; then    *)
(* f goes on with j, what it found, unless that settles x.                 *)
Settle(f, j, records, X) ==
    LET x == j.tx
        ruled == IF j.rest THEN {} ELSE Ruled(records, x) IN
    /\ rec' = Settled(records, ruled)
    /\ job' = [g \in Followers |->
                  IF g # f THEN Overtaken(job[g], X \cup ruled)
                  ELSE IF x \in ruled \/ j.status \notin {"TRACKED", "REPLACED"}
                          \/ (j.newer /\ j.status = "TRACKED") THEN Idle
                  ELSE [j EXCEPT !.at = "decide", !.keep = "TRACKED", !.block = NoBlock,
                                 !.stale = FALSE]]

(* What f found is written and, unless the scope of an acceptance outlives *)
(* the write, told to the family.                                          *)
Report(f, j) ==
    LET written == [rec EXCEPT ![j.tx] = Checked(@, j)] IN Settle(f, j, written, {j.tx})

(* The first compare-and-set of the result, by the scope as it is then.    *)
Commit(f) ==
    /\ job[f].at = "write"
    /\ \E gone \in Heard(Positive(job[f]) /\ ~Selected(job[f].block)) :
         IF gone \/ ~Positive(job[f])
         THEN Report(f, IF gone THEN Revoked(f) ELSE job[f])
         ELSE Write(f, Checked(rec[job[f].tx], job[f]), [job[f] EXCEPT !.at = "confirm"])
    /\ Steady

(* The scope outlived the write: a block removed meanwhile takes the       *)
(* positive result back, if the record is still this check's.              *)
Confirm(f) ==
    /\ job[f].at = "confirm"
    /\ \E gone \in Heard(~Selected(job[f].block)) :
         IF ~gone THEN Settle(f, job[f], rec, {})
         ELSE IF job[f].stale THEN Go(f, Idle)
         ELSE Report(f, Revoked(f))
    /\ Steady

(* verifyAtHint(): the explorer, which may be behind, names a block; only  *)
(* the node's own evidence at that very block counts.                      *)
OfferedBlock(x, block) == OnChain(x) /\ block = BlockOf(x)

(* restBackup(): asked for a record still unknown, written like any other  *)
(* result but not told to the family.  An answer the node does not bear    *)
(* out changes nothing.                                                    *)
RestBackup(f) ==
    /\ job[f].at = "decide" /\ job[f].status = "TRACKED" /\ ~job[f].rest
    /\ IF job[f].newer \/ rec[job[f].tx].status # "TRACKED" THEN Go(f, Idle)
       ELSE \E block \in 1..made :
              /\ OfferedBlock(job[f].tx, block)
              /\ Go(f, Holding([job[f] EXCEPT !.at = "write", !.rest = TRUE], At(block)))
    /\ Steady

---------------------------------------------------------------------------
(* follow(): what a complete search that missed the transaction permits.   *)

ReplacementRejected(f) == job[f].by # NoTx /\ rec[job[f].by].status = "REJECTED"

(* The check of x that its record r tells of.  The record keeps whether    *)
(* the search was complete only while it is REPLACED: else either.         *)
Adopted(x, r, complete) ==
    [Idle EXCEPT !.at = "decide", !.tx = x, !.by = r.replacedBy, !.status = r.status,
                 !.complete = complete, !.rest = TRUE]

(* #reviveIfReplacementRejected: the replacement never took its place.     *)
(* The follow goes on with the record as it is then, whoever checked it:   *)
(* the newer check under way on it is the one that loses.                  *)
Revive(f) ==
    LET x == job[f].tx
        revived ==
            [rec[x] EXCEPT !.status = "TRACKED", !.replacedBy = NoTx, !.complete = FALSE] IN
    /\ job[f].at = "decide" /\ job[f].status = "REPLACED"
    /\ ReplacementRejected(f)
    /\ IF rec[x].status # "REPLACED"
       THEN \E complete \in BOOLEAN : Go(f, Adopted(x, rec[x], complete))
       ELSE Write(f, revived,
                  IF job[f].newer THEN Adopted(x, revived, rec[x].complete)
                  ELSE [job[f] EXCEPT !.status = "TRACKED", !.by = NoTx, !.rest = TRUE])
    /\ Steady

(* Mutant: a sibling's lost verdict is not inherited.                      *)
InheritsNothing(f) == FALSE

(* #settleReplacedLost: the verdict on the shared inputs, after this       *)
(* record's own complete search and no newer check.                        *)
Inherits(f) ==
    LET x == job[f].tx IN
    /\ job[f].complete /\ ~job[f].newer
    /\ rec[x].status = "REPLACED"
    /\ \E y \in Txs \ {x} : rec[y].status = "CONFLICTED"

SettleReplacedLost(f) ==
    /\ job[f].at = "decide" /\ job[f].status = "REPLACED"
    /\ ~ReplacementRejected(f)
    /\ \E told \in Heard(OnChain(job[f].tx)) :
         IF Inherits(f) /\ ~told
         THEN Write(f, [rec[job[f].tx] EXCEPT !.status = "CONFLICTED"], Idle)
         ELSE Go(f, Idle)
    /\ Steady

MayDiagnose(f) ==
    /\ job[f].status = "TRACKED" /\ job[f].complete
    /\ job[f].by = NoTx

(* diagnose(): the mempool first, then the inputs.                         *)
Diagnose(f) ==
    /\ job[f].at = "decide" /\ MayDiagnose(f)
    /\ Go(f, [Idle EXCEPT !.at = "verdict", !.tx = job[f].tx, !.newer = job[f].newer,
                  !.seen = job[f].seen,
                  !.says = IF pool = job[f].tx THEN "NONE"
                           ELSE IF Spent THEN "CONFLICT" ELSE "DROPPED"])
    /\ Steady

DiagnosisFails(f) ==
    /\ job[f].at = "decide" /\ MayDiagnose(f)
    /\ Fault
    /\ Go(f, [Idle EXCEPT !.at = "verdict", !.tx = job[f].tx, !.newer = job[f].newer,
                  !.seen = job[f].seen])
    /\ UNCHANGED <<chain, made, pool>>

Done(f) ==
    /\ job[f].at = "decide" /\ job[f].status # "REPLACED"
    /\ MayDiagnose(f) => TRUE \in Heard(OnChain(job[f].tx))
    /\ Go(f, Idle)
    /\ Steady

(* The verdict still is about this check.                                  *)
Stands(f) == ~job[f].newer /\ rec[job[f].tx].status = "TRACKED"

(* Mutant: the first observation acts.                                     *)
ConfirmedAtOnce(x, says) == says # "NONE"

(* Two like observations, each after a search of its own, DIAG_GAP_MS      *)
(* apart (closer ones change nothing and are left out).                    *)
Confirmed(x, says) == says # "NONE" /\ rec[x].last = says

(* Mutant: the limit is off by one.                                        *)
AnotherResend(x) == rec[x].resends <= ResendLimit

ResendLeft(x) == rec[x].resends < ResendLimit

(* A resend needs its window or a click.                                   *)
Conclude(f) ==
    LET x == job[f].tx
        confirmed == Confirmed(x, job[f].says) IN
    /\ job[f].at = "verdict"
    /\ \E told \in Heard(OnChain(x)) :
         IF told \/ ~Stands(f) THEN Go(f, Idle)
         ELSE IF confirmed /\ job[f].says = "CONFLICT"
         THEN Write(f, [rec[x] EXCEPT !.status = "CONFLICTED"], Idle)
         ELSE \E next \in {"idle"} \cup (IF confirmed /\ job[f].says = "DROPPED"
                                             /\ ResendLeft(x)
                                         THEN {"resend"} ELSE {}) :
                Write(f, [rec[x] EXCEPT !.last = job[f].says],
                      IF next = "idle" THEN Idle ELSE [Idle EXCEPT !.at = next, !.tx = x])
    /\ Steady

(* resend(): the identical bytes, under the submit lock, while its inputs  *)
(* are unspent and it is in no mempool; the attempt is written first.  Not *)
(* so, or an execution holds the lock: nothing is sent.                    *)
Resend(f) ==
    LET x == job[f].tx IN
    /\ job[f].at = "resend"
    /\ \/ Go(f, Idle)
       \/ /\ rec[x].status = "TRACKED" /\ rec[x].replacedBy = NoTx /\ ResendLeft(x)
          /\ ~Spent /\ pool # x
          /\ \A g \in Followers : job[g].at \notin Sending
          /\ Write(f, [rec[x] EXCEPT !.resends = @ + 1],
                   [job[f] EXCEPT !.at = "send", !.stale = FALSE])
    /\ Steady

(* classifySubmit(): what the node may answer, and whether it took it.     *)
Answers(x) ==
    IF OnChain(x) \/ pool = x THEN {<<"KNOWN", pool>>}
    ELSE IF Spent \/ pool # NoTx THEN {<<"WAIT", pool>>}
    ELSE {<<"SENT", x>>, <<"REJECTED", pool>>}

Send(f) ==
    /\ job[f].at = "send"
    /\ \E answer \in Answers(job[f].tx) :
         /\ Go(f, [job[f] EXCEPT !.at = "sent", !.says = answer[1]])
         /\ pool' = answer[2]
    /\ UNCHANGED <<chain, made, rounds>>

SendIsNotAnswered(f) ==
    /\ job[f].at = "send"
    /\ Fault
    /\ \E answer \in Answers(job[f].tx) : pool' = answer[2]
    /\ Go(f, [job[f] EXCEPT !.at = "sent", !.says = "NO_RESPONSE"])
    /\ UNCHANGED <<chain, made>>

(* Two rejections in a row are final; a newer write of another job wins.   *)
Resent(f) ==
    LET x == job[f].tx
        rejections == IF job[f].says = "REJECTED" THEN rec[x].rejections + 1 ELSE 0 IN
    /\ job[f].at = "sent"
    /\ IF job[f].stale THEN Go(f, Idle)
       ELSE Write(f, [rec[x] EXCEPT !.rejections = rejections, !.last = "NONE",
                                    !.status = IF rejections >= 2 THEN "REJECTED"
                                               ELSE "TRACKED"],
                  Idle)
    /\ Steady

---------------------------------------------------------------------------
(* Everything else.                                                        *)

(* Follows of one record share a check (sharedRead): what f was asked      *)
(* while g was checking goes on with what g found.                         *)
Share(f, g) ==
    /\ job[f].at = "idle" /\ job[g].at = "decide"
    /\ job' = [job EXCEPT ![f] = [job[g] EXCEPT !.rest = TRUE], ![g].rest = TRUE]
    /\ UNCHANGED rec
    /\ Steady

(* A follow ends at any step: its tab is closed or reloaded, its write     *)
(* fails.  A check with nothing after it (reconcile() alone) looks alike.  *)
Die(f) ==
    /\ job[f].at # "idle"
    /\ Fault
    /\ Go(f, Idle)
    /\ UNCHANGED <<chain, made, pool>>

Grow ==
    /\ made < MaxBlocks
    /\ \E x \in {NoTx} \cup (IF Spent THEN {} ELSE Txs \cup {Rival}) :
         /\ chain' = Append(chain, [id |-> made + 1, tx |-> x])
         /\ pool' = IF x = NoTx THEN pool ELSE NoTx
    /\ made' = made + 1
    /\ UNCHANGED <<rec, job, rounds>>

(* A heavier branch replaces the last blocks; it may accept, in any of its *)
(* blocks, what the old one did, something else of the family, or nothing. *)
Reorg ==
    \E k \in 1..MaxReorg :
        /\ k <= Len(chain) /\ made + k + 1 <= MaxBlocks
        /\ LET kept == SubSeq(chain, 1, Len(chain) - k)
               free == \A i \in 1..Len(kept) : kept[i].tx = NoTx IN
           \E x \in {NoTx} \cup (IF free THEN Txs \cup {Rival} ELSE {}) :
           \E at \in 1..(IF x = NoTx THEN 1 ELSE k + 1) :
              /\ chain' = kept \o [i \in 1..(k + 1) |->
                               [id |-> made + i, tx |-> IF i = at THEN x ELSE NoTx]]
              /\ pool' \in IF free /\ x = NoTx THEN Txs \cup {NoTx} ELSE {NoTx}
        /\ made' = made + k + 1
    /\ UNCHANGED <<rec, job, rounds>>

(* The node's mempool forgets a member.                                    *)
Evict ==
    /\ pool # NoTx /\ pool' = NoTx
    /\ UNCHANGED <<chain, made, rec, job, rounds>>

Next ==
    \/ \E f \in Followers :
         \/ \E x \in Txs : Start(f, x)
         \/ \E g \in Followers : Share(f, g)
         \/ Read(f) \/ Commit(f) \/ Confirm(f) \/ RestBackup(f)
         \/ Revive(f) \/ SettleReplacedLost(f) \/ Diagnose(f) \/ Done(f) \/ Conclude(f)
         \/ Resend(f) \/ Send(f) \/ Resent(f)
         \/ ReadFails(f) \/ DiagnosisFails(f) \/ SendIsNotAnswered(f) \/ Die(f)
    \/ Grow \/ Reorg \/ Evict

Spec == Init /\ [][Next]_vars

---------------------------------------------------------------------------
(* Properties.                                                             *)

(* The types.                                                              *)
TypeOK ==
    /\ chain \in Seq([id : 1..MaxBlocks, tx : Txs \cup {Rival, NoTx}])
    /\ made \in 0..MaxBlocks
    /\ pool \in Txs \cup {NoTx}
    /\ \A x \in Txs :
         /\ rec[x].status \in Statuses
         /\ rec[x].replacedBy \in Txs \cup {NoTx}
         /\ rec[x].accepting \in 0..MaxBlocks
         /\ rec[x].resends \in 0..ResendLimit
         /\ rec[x].rejections \in 0..2
    /\ \A f \in Followers :
         /\ job[f].tx \in Txs \cup {NoTx} /\ job[f].block \in 0..MaxBlocks
         /\ job[f].keep \in Statuses /\ job[f].status \in Statuses
    /\ rounds \in [Txs -> 0..Rounds]

(* As long as no reorg is as deep as REORG_RECHECK_DAA, the word of a      *)
(* settled record is final: what is ACCEPTED stays accepted, and what is   *)
(* SUPERSEDED has lost its inputs to a member of its family for good, so   *)
(* that releasing them was right.                                          *)
SettledIsFinal ==
    \A x \in Txs :
        /\ rec[x].status = "ACCEPTED" => Buried(x)
        /\ rec[x].status = "SUPERSEDED" => \E y \in Txs \ {x} : Buried(y)

(* While no block was ever removed, a record is given up as lost only when *)
(* it is not its own transaction that spent the inputs, although that      *)
(* looks the same to the diagnosis, and although the transaction may be    *)
(* accepted between the search and the verdict with the notice still under *)
(* way.  The one exception is a verdict that rests on what another follow  *)
(* observed after the search of the follow that gives it: a sibling given  *)
(* up meanwhile, or the first of two observations made on a shared check.  *)
NotLostToItself ==
    [][\A x \in Txs :
          (/\ rec'[x].status = "CONFLICTED" /\ rec[x].status # "CONFLICTED"
           /\ made = Len(chain) /\ OnChain(x))
              => /\ Observed(x)
                 /\ \E f \in Followers :
                       job[f].tx = x /\ ~job[f].seen /\ job'[f].at = "idle"]_vars

(* A record whose pointer says REPLACED but whose status no longer does:   *)
(* it was seen accepted and then displaced (see InheritsVerdict).          *)
Stranded(x) == rec[x].replacedBy # NoTx /\ rec[x].status \notin Sticky

(* Once the inputs are spent for good, a few rounds of undisturbed follows *)
(* of the open records bring every member of the family to a verdict,      *)
(* whoever spent them and whatever was read, reorganised, resent or        *)
(* interrupted before: no input stays reserved by a record that is         *)
(* followed and cannot be settled, but for stranded ones.                  *)
FamilySettles ==
    (SpentForGood /\ \A x \in Open(rec) : rounds[x] = Rounds /\ Alone(x))
        => \A x \in Open(rec) : Stranded(x)

(* engine.mjs:770: "A REPLACED member is never diagnosed or resent itself; *)
(* it only inherits its fee-bump family's lost verdict."  One that was     *)
(* seen accepted and then displaced keeps its pointer but not its status:  *)
(* it neither is diagnosed nor inherits.                                   *)
InheritsVerdict ==
    \A x, y \in Txs :
        (/\ rec[x].replacedBy = y /\ rec[y].status = "CONFLICTED"
         /\ Buried(Rival) /\ rounds[x] = Rounds /\ Alone(x))
            => x \notin Open(rec)
============================================================================
