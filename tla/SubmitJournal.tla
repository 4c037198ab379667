--------------------------- MODULE SubmitJournal ---------------------------
(***************************************************************************)
(* The journal of a browser's own transactions: Engine.execute() and the   *)
(* writes of the tracker (engine.mjs), the input reservations              *)
(* (reservations.mjs), the durable store every tab shares and the session  *)
(* store each tab falls back to (persistence.ts, session-store.mjs), and   *)
(* the renewable submit lease.  Web Locks are a lease that never lapses.   *)
(*                                                                         *)
(* A write of a handler is a compare-and-set on the revision it read, so   *)
(* every handler is modelled by its write, guarded by the record as it is  *)
(* then; what it learned from the node may be any older truth.  Statuses   *)
(* no reservation or journal rule tells apart share a name: TRACKED stands *)
(* for SUBMITTED, PENDING, UNKNOWN and RECHECKING, ACCEPTED for CONFIRMING *)
(* and ACCEPTED, LOST for CONFLICTED and DRIFTED.                          *)
(***************************************************************************)
EXTENDS Naturals, FiniteSets

CONSTANTS
    Tabs,
    Txs,            \* transactions the tabs may plan
    InputsOf,       \* the outpoints a transaction spends
    Replaces,       \* the transaction a fee bump was planned for, or NoTx
    RootOf,         \* the first transaction of its chain of fee bumps
    Fallible,       \* tabs whose durable store may fail in a run
    Trackers,       \* visible tabs, the ones that track in a run
    Disk, Absent, NoTx, Nobody

Bumps == {x \in Txs : Replaces[x] # NoTx}

(* planReplacement (engine.mjs:404-433) spends exactly the same inputs and *)
(* hands on the root of what it replaces.                                  *)
ASSUME JournalAssumption ==
    /\ NoTx \notin Txs
    /\ Disk \notin Tabs /\ Nobody \notin Tabs /\ Fallible \cup Trackers \subseteq Tabs
    /\ \A x \in Txs \ Bumps : RootOf[x] = x
    /\ \A x \in Bumps : /\ Replaces[x] \in Txs \ {x}
                        /\ InputsOf[x] = InputsOf[Replaces[x]]
                        /\ RootOf[x] = RootOf[Replaces[x]]

VARIABLES
    book,      \* book[Disk]: the durable journal; book[t]: the copy tab t keeps
    backend,   \* backend[t]: tab t still uses the durable journal
    job,       \* job[t]: how far tab t's plan and its execute() are
    lease      \* the submit lease row of the durable journal

vars == <<book, backend, job, lease>>

Released == {"REJECTED", "LOST", "SUPERSEDED", "ARCHIVED"}
Statuses == {"SUBMITTING", "TRACKED", "REPLACED", "ACCEPTED"} \cup Released

(* seen: it was verified as accepted once (firstAcceptedAt).  reopened: it *)
(* had been released when it was marked REPLACED.                          *)
Record == [status : Statuses, replacedBy : Txs \cup {NoTx},
           seen : BOOLEAN, reopened : BOOLEAN, persistent : BOOLEAN]

ASSUME AbsentAssumption == Absent \notin Record

NewIntent(persistent) ==
    [status |-> "SUBMITTING", replacedBy |-> NoTx, seen |-> FALSE, reopened |-> FALSE,
     persistent |-> persistent]

(* Mutant: the owner is cleared and the expiry is not.                     *)
FreeYetLive == [owner |-> Nobody, live |-> TRUE]

Free == [owner |-> Nobody, live |-> FALSE]
Idle == [at |-> "idle", tx |-> NoTx, result |-> "NONE"]

JournalOf(t) == IF backend[t] THEN Disk ELSE t

View(t) == book[JournalOf(t)]

Recorded(b) == {x \in Txs : b[x] # Absent}

Open(r) == r # Absent /\ r.status \notin Released

Conflict(x, y) == x # y /\ InputsOf[x] \cap InputsOf[y] # {}

---------------------------------------------------------------------------
(* Reservations.                                                           *)

(* familyKeys: the records that share a root and spend the same outpoints. *)
Family(b, x) ==
    IF b[x] = Absent THEN {}
    ELSE {y \in Recorded(b) : RootOf[y] = RootOf[x] /\ InputsOf[y] = InputsOf[x]}

(* Mutants: a record marked REPLACED reserves nothing; only a record being *)
(* submitted reserves anything.                                            *)
ReservedUnlessReplaced(b, except) ==
    UNION {InputsOf[y] : y \in {y \in Recorded(b) \ except :
                                   Open(b[y]) /\ b[y].status # "REPLACED"}}
ReservedWhileSubmitting(b, except) ==
    UNION {InputsOf[y] : y \in {y \in Recorded(b) \ except : b[y].status = "SUBMITTING"}}

(* What reservedFromRows collects; `except` is the family of the record a  *)
(* fee bump replaces.                                                      *)
Reserved(b, except) == UNION {InputsOf[y] : y \in {y \in Recorded(b) \ except : Open(b[y])}}

Unreserved(b, x) ==
    InputsOf[x] \cap Reserved(b, IF x \in Bumps THEN Family(b, Replaces[x]) ELSE {}) = {}

OpenForReplacement(r) == r # Absent /\ r.status = "TRACKED" /\ r.replacedBy = NoTx

(* What persistIntent inspects inside the transaction that inserts.        *)
MayPersist(b, x) ==
    /\ b[x] = Absent
    /\ x \in Bumps => OpenForReplacement(b[Replaces[x]])
    /\ Unreserved(b, x)

(* A session row is renewed by its own tab and may be found lapsed.        *)
Held(t) == backend[t] => lease = [owner |-> t, live |-> TRUE]
Lapsed(t) == backend[t] => lease # [owner |-> t, live |-> TRUE]

(* A write goes to the durable journal and, once it is committed, to the   *)
(* tab's copy; after a failure to the copy alone.                          *)
Put(t, x, r) ==
    book' = [j \in DOMAIN book |->
               IF j = JournalOf(t) \/ (j = t /\ t \in Fallible)
               THEN [book[j] EXCEPT ![x] = r] ELSE book[j]]

(* Mutant: a tab whose store failed tries it again.                        *)
RetriesAfterFailure == TRUE

(* degrade(): one failed or late call, and the tab keeps to its own copy   *)
(* for the rest of the session.                                            *)
UsesBackendAfterFailure == FALSE

Release(t) == lease' = IF backend[t] /\ lease.owner = t THEN Free ELSE lease

Stop(t) == job' = [job EXCEPT ![t] = Idle] /\ Release(t)

Go(t, at) == job' = [job EXCEPT ![t].at = at]

---------------------------------------------------------------------------
Empty == [x \in Txs |-> Absent]

Init ==
    /\ book = [j \in Tabs \cup {Disk} |-> Empty]
    /\ backend = [t \in Tabs |-> TRUE]
    /\ job = [t \in Tabs |-> Idle]
    /\ lease = Free

(* A tab whose store may fail keeps a copy of what it reads: all of the    *)
(* journal, or one record.                                                 *)
Listed(t) == IF backend[t] /\ t \in Fallible THEN [book EXCEPT ![t] = book[Disk]] ELSE book
Fetched(t, x) ==
    IF backend[t] /\ t \in Fallible THEN [book EXCEPT ![t][x] = book[Disk][x]] ELSE book

(* plan() and planReplacement(): a quote on inputs that are live and, but  *)
(* for a fee bump, reserved by no record as the journal is now.  A fee     *)
(* bump is quoted for a record that may be replaced now.                   *)
Quotes(t, x) ==
    IF x \in Bumps THEN OpenForReplacement(View(t)[Replaces[x]]) ELSE Unreserved(View(t), x)

Plan(t, x) ==
    /\ job[t] = Idle
    /\ job' = IF Quotes(t, x)
              THEN [job EXCEPT ![t] = [Idle EXCEPT !.at = "plan", !.tx = x]] ELSE job
    /\ book' = IF x \in Bumps THEN Fetched(t, Replaces[x]) ELSE Listed(t)
    /\ UNCHANGED <<backend, lease>>

(* The plan is too old, replaced by a new quote, or used up by an          *)
(* execute() that found the lease held; or the page left the foreground.   *)
Forget(t) ==
    /\ job[t].at = "plan"
    /\ job' = [job EXCEPT ![t] = Idle]
    /\ UNCHANGED <<book, backend, lease>>

(* execute(), approved: the lease is taken unless a live one is held.  The *)
(* journal may have changed since the quote.                               *)
Begin(t) ==
    /\ job[t].at = "plan"
    /\ backend[t] => ~lease.live
    /\ lease' = IF backend[t] THEN [owner |-> t, live |-> TRUE] ELSE lease
    /\ Go(t, "check")
    /\ UNCHANGED <<book, backend>>

(* The early check lists the journal before the wallet is asked to sign.   *)
Check(t) ==
    /\ job[t].at = "check"
    /\ book' = Listed(t)
    /\ LET x == job[t].tx IN
       IF View(t)[x] = Absent /\ Unreserved(View(t), x)
       THEN Go(t, "sign") /\ UNCHANGED lease
       ELSE Stop(t)
    /\ UNCHANGED <<backend>>

(* Signed: the intent is inserted after an inspection in the same          *)
(* transaction, before anything is sent.                                   *)
Persist(t) ==
    /\ job[t].at = "sign"
    /\ Held(t)
    /\ MayPersist(View(t), job[t].tx)
    /\ Put(t, job[t].tx, NewIntent(backend[t]))
    /\ Go(t, "send")
    /\ UNCHANGED <<backend, lease>>

(* The store fails, or answers too late to tell that it did commit: the    *)
(* tab gives it up and inserts into its own copy, after the same           *)
(* inspection there.                                                       *)
PersistFallback(t) ==
    /\ job[t].at = "sign"
    /\ backend[t] /\ t \in Fallible
    /\ backend' = [backend EXCEPT ![t] = UsesBackendAfterFailure]
    /\ LET x == job[t].tx
           kept == MayPersist(book[t], x) IN
       /\ \E committed \in {FALSE} \cup {Held(t) /\ MayPersist(book[Disk], x)} :
            book' = [book EXCEPT ![Disk][x] = IF committed THEN NewIntent(TRUE) ELSE @,
                                 ![t][x] = IF kept THEN NewIntent(FALSE) ELSE @]
       /\ job' = IF kept THEN [job EXCEPT ![t].at = "send"] ELSE [job EXCEPT ![t] = Idle]
    /\ UNCHANGED lease

(* The wallet refuses to sign, or the inspection refuses the intent.       *)
Abandon(t) ==
    /\ job[t].at = "sign"
    /\ Stop(t)
    /\ UNCHANGED <<book, backend>>

(* One send, if the lease is still held just before it (assertHeld).       *)
(* SUBMITTED: the node names this transaction as taken; REJECTED: it       *)
(* refuses this very transaction; anything else, and no answer, is UNKNOWN.*)
Send(t) ==
    /\ job[t].at = "send"
    /\ \E result \in {"SUBMITTED", "UNKNOWN", "REJECTED"} :
         /\ Held(t) \/ (Lapsed(t) /\ result = "UNKNOWN")
         /\ job' = [job EXCEPT ![t].at = "result", ![t].result = result]
    /\ UNCHANGED <<book, backend, lease>>

MarksItsTarget(t) == job[t].tx \in Bumps /\ job[t].result = "SUBMITTED"

(* Mutant: the outcome is written whatever became of the record.           *)
WinsAlways(r) == r # Absent

(* The compare-and-set of the outcome: the record is still as inserted.    *)
WinsOutcome(r) == r # Absent /\ r.status = "SUBMITTING"

(* A tracker's newer write wins, and the lost outcome is only noted.       *)
Outcome(t) ==
    /\ job[t].at = "result"
    /\ LET r == View(t)[job[t].tx] IN
       IF WinsOutcome(r)
       THEN Put(t, job[t].tx,
              [r EXCEPT !.status = IF job[t].result = "REJECTED" THEN "REJECTED" ELSE "TRACKED"])
       ELSE UNCHANGED book
    /\ IF MarksItsTarget(t) THEN Go(t, "mark") /\ UNCHANGED lease ELSE Stop(t)
    /\ UNCHANGED <<backend>>

(* The replaced record gains a pointer.  The code gives up after losing    *)
(* four compare-and-sets, which leaves what a tab closed here leaves.      *)
Mark(t) ==
    /\ job[t].at = "mark"
    /\ LET old == Replaces[job[t].tx]
           r == View(t)[old] IN
       IF r = Absent \/ (r # Absent /\ r.status = "ACCEPTED") THEN UNCHANGED book
       ELSE Put(t, old, [r EXCEPT !.status = "REPLACED", !.replacedBy = job[t].tx,
                                  !.reopened = @ \/ ~Open(r)])
    /\ Stop(t)
    /\ UNCHANGED <<backend>>

---------------------------------------------------------------------------
(* The tracker's writes, by any tab on the journal it uses.                *)

Track(t, x, r) ==
    /\ Put(t, x, r)
    /\ UNCHANGED <<backend, job, lease>>

(* #reconcileNode: acceptance proven turns any record but an archived one  *)
(* to ACCEPTED; acceptance lost, or not found, leaves it to be tracked.    *)
Reconcile(t, x) ==
    \/ /\ View(t)[x].status # "ARCHIVED"
       /\ Track(t, x, [View(t)[x] EXCEPT !.status = "ACCEPTED", !.seen = TRUE])
    \/ /\ View(t)[x].status \in {"SUBMITTING", "ACCEPTED"}
       /\ Track(t, x, [View(t)[x] EXCEPT !.status = "TRACKED"])

(* #follow: a verdict seen twice after a complete search; a REPLACED       *)
(* record inherits the verdict of its family (#settleReplacedLost).        *)
Lose(t, x) ==
    /\ \/ View(t)[x].status = "TRACKED" /\ View(t)[x].replacedBy = NoTx
       \/ /\ View(t)[x].status = "REPLACED"
          /\ \E y \in Family(View(t), x) \ {x} : View(t)[y].status = "LOST"
    /\ Track(t, x, [View(t)[x] EXCEPT !.status = "LOST"])

(* resend: the identical bytes; only a second rejection in a row changes   *)
(* the status.  It began under the lease, which its last write outlives.   *)
Resend(t, x) ==
    /\ View(t)[x].status = "TRACKED" /\ View(t)[x].replacedBy = NoTx
    /\ Track(t, x, [View(t)[x] EXCEPT !.status = "REJECTED"])

(* #reviveIfReplacementRejected.                                           *)
Revive(t, x) ==
    /\ View(t)[x].status = "REPLACED"
    /\ View(t)[x].replacedBy # NoTx
    /\ LET y == View(t)[x].replacedBy IN
       View(t)[y] # Absent /\ View(t)[y].status = "REJECTED"
    /\ Track(t, x, [View(t)[x] EXCEPT !.status = "TRACKED", !.replacedBy = NoTx])

(* settleFamily: one member accepted, the others cannot be.                *)
SettleFamily(t, x) ==
    /\ View(t)[x].status \notin {"ACCEPTED", "SUPERSEDED", "ARCHIVED"}
    /\ \E y \in Recorded(View(t)) :
          RootOf[y] = RootOf[x] /\ View(t)[y].status = "ACCEPTED"
    /\ Track(t, x, [View(t)[x] EXCEPT !.status = "SUPERSEDED"])

(* archive, by the user: rejected, or an input really is gone.             *)
Archive(t, x) ==
    /\ View(t)[x].status \notin {"ACCEPTED", "ARCHIVED", "SUBMITTING"}
    /\ Track(t, x, [View(t)[x] EXCEPT !.status = "ARCHIVED"])

---------------------------------------------------------------------------
(* Everything else: blocks, reorgs, eviction, a suspended tab's lease, a   *)
(* store that stops answering, and a tab reloaded or closed at any step.   *)

(* The row of a lapsed lease is as good as none, whoever it names.         *)
Lapse ==
    /\ lease.live
    /\ lease' = Free
    /\ UNCHANGED <<book, backend, job>>

(* Any other call of the store fails: reads and compare-and-sets do not    *)
(* tell a late commit from none that matters here.                         *)
Degrade(t) ==
    /\ t \in Fallible /\ backend[t]
    /\ backend' = [backend EXCEPT ![t] = UsesBackendAfterFailure]
    /\ UNCHANGED <<book, job, lease>>

Reload(t) ==
    /\ \E opened \in {TRUE} \cup (IF t \in Fallible THEN {FALSE} ELSE {}) :
         /\ backend' = [backend EXCEPT ![t] = opened]
         /\ book' = [book EXCEPT ![t] = IF opened /\ t \in Fallible THEN book[Disk] ELSE Empty]
    /\ job' = [job EXCEPT ![t] = Idle]
    /\ UNCHANGED <<lease>>

Execute(t) ==
    \/ \E x \in Txs : Plan(t, x)
    \/ Forget(t) \/ Begin(t) \/ Check(t) \/ Persist(t) \/ PersistFallback(t) \/ Abandon(t)
    \/ Send(t) \/ Outcome(t) \/ Mark(t)

Next ==
    \/ \E t \in Tabs : Execute(t) \/ Degrade(t) \/ Reload(t)
    \/ \E t \in Trackers : \E x \in Recorded(View(t)) :
          \/ Reconcile(t, x) \/ Lose(t, x) \/ Resend(t, x)
          \/ Revive(t, x) \/ SettleFamily(t, x) \/ Archive(t, x)
    \/ Lapse

Spec == Init /\ [][Next]_vars

---------------------------------------------------------------------------
(* Properties.                                                             *)

(* The types; a live lease has an owner.                                    *)
TypeOK ==
    /\ \A j \in Tabs \cup {Disk} : \A x \in Txs : book[j][x] \in Record \cup {Absent}
    /\ backend \in [Tabs -> BOOLEAN]
    /\ \A t \in Tabs : job[t].tx \in Txs \cup {NoTx}
    /\ lease \in [owner : Tabs \cup {Nobody}, live : BOOLEAN]
    /\ lease.live => lease.owner # Nobody

Rivals(x, y) == Conflict(x, y) /\ RootOf[x] # RootOf[y]

(* The two ways a released record comes back.                              *)
CameBack(r) == r.seen \/ r.reopened

(* Two open records of the durable journal spend a common input only if    *)
(* they are fee bumps of one another, or one had been released and came    *)
(* back: a lapsed lease, tabs interleaving between the early check and the *)
(* insert, and reloads never let two intents share an input.  The wallet   *)
(* would otherwise sign two competing transactions as if both could win.   *)
NoRivals ==
    \A x, y \in Recorded(book[Disk]) :
        Rivals(x, y) /\ Open(book[Disk][x]) /\ Open(book[Disk][y])
            => CameBack(book[Disk][x]) \/ CameBack(book[Disk][y])

(* A tab that lost the durable journal still refuses an intent that shares *)
(* an input with anything open in its own copy, stale as that may be.      *)
SessionNoRivals ==
    \A t \in Tabs : \A x, y \in Recorded(book[t]) :
        /\ Rivals(x, y) /\ Open(book[t][x]) /\ Open(book[t][y])
        /\ ~book[t][x].persistent
        => CameBack(book[t][x]) \/ CameBack(book[t][y])

(* From its insert to its outcome an execution finds its intent in the     *)
(* journal it reads, through a failing store as well: what was sent can    *)
(* be reconciled.                                                          *)
SentIsKept ==
    \A t \in Tabs :
        job[t].at \in {"send", "result", "mark"} => View(t)[job[t].tx] # Absent

(* A durable record is never forgotten or submitted anew, and one that was *)
(* released, its inputs free for the next plan, is opened again only by    *)
(* proof of its acceptance or by Mark: not by the late outcome of a send,  *)
(* nor by a second tab that quoted the same transaction.                   *)
ReleasedForGood ==
    [][\A x \in Txs : book[Disk][x] # Absent =>
          /\ book'[Disk][x] # Absent
          /\ book'[Disk][x].status = "SUBMITTING" => book[Disk][x].status = "SUBMITTING"
          /\ ~Open(book[Disk][x]) /\ Open(book'[Disk][x]) => CameBack(book'[Disk][x])]_vars

(* engine.mjs:828: "A bump chain is linear (only an unreplaced record can  *)
(* be bumped)".  The pointer is written only when the node confirms the    *)
(* replacement, so a bump whose answer was lost leaves a second possible,  *)
(* and two open records replace the same one.                              *)
BumpsAreLinear ==
    \A x, y \in Recorded(book[Disk]) \cap Bumps :
        Replaces[x] = Replaces[y] /\ Open(book[Disk][x]) /\ Open(book[Disk][y]) => x = y

(* engine.mjs:560: "The replaced record stays open [...]; it only gains a  *)
(* pointer".  The write sets the status of a record that was released in   *)
(* the meantime, and opens it again.                                       *)
MarkOnlyPoints == \A x \in Recorded(book[Disk]) : ~book[Disk][x].reopened
============================================================================
