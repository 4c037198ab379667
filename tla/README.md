# A TLA+ development of Kaswin

Kaswin is a lottery on Kaspa L1. A round lives on the chain as one *state UTXO*
guarded by three covenant templates (`contracts/*.sil`). Browsers (`scripts/`,
`web/`) read it, build transactions for it, sign them with a wallet, submit them
to one node and follow them until they are settled. No server is trusted: an
indexer and REST only give hints, and everything shown or signed is verified on
the node first.

This directory models the round and its transactions, the part of a browser that
decides what may be signed and sent, how it follows what it sent, and how it keeps
what it shows true. TLC checks the models on small instances. TLAPS proves, for every
value of the constants, both refinements (the network of transactions is the contract, and the
contract keeps what a round promises) and every invariant and action property that the passing
runs check, but for `FamilySettles`. That one and liveness are left to TLC. Paths below are
relative to the repository.

## 1. The system

### On the chain

| Part | State | Operations | Hard behaviour |
|---|---|---|---|
| Round contracts, `contracts/{open,sealed,refunding}.sil` | the state UTXO: ledger (terms, phase, sold, directory, cursor), amount, DAA score | BUY, CLOSE, DRAW_AND_PAY, TIMEOUT_REFUND, REFUND | many parties race for one UTXO; relative and absolute locks; amounts recomputed on entry; batches; a draw whose sample may be rejected |

It is correct if the escrow is exact, each buyer is refunded once or one winner is
paid, a draw is unbiased and has its window, and no round gets stuck.

### The protocol core (`scripts/core/src`)

| Part | What it does | What makes it correct |
|---|---|---|
| `state.ts`, `protocol.ts`, `builders.ts` | decode and validate a ledger, compute an action's transition, build its transaction | the templates accept exactly what is built, while its tip is live |
| `accepted.ts` | explain an accepted transaction, whoever built it | explains everything the templates accept, and to the state that is on chain |
| `persistence.ts` | records in IndexedDB: compare-and-set, insert with a check in one transaction | rows change one revision at a time; the check and the insert are one step |
| `pass-a.ts`, hashes, encodings | the draw's randomness proof, byte formats | pure functions |

### The browser

| Part | State | Operations | Hard behaviour |
|---|---|---|---|
| Engine, `round/engine.mjs` | plans, shared reads, submit lock | `plan`, `planReplacement`, `execute`, `reconcile`, `follow`, `resend`, `archive` | plans on stale snapshots; lost answers; tabs and reloads at every await |
| Reservations, `tracking/reservations.mjs` | none of its own: derived from the journal | `reservedInputs`, `persistIntent` | two tabs, fee-bump families, records released and reopened |
| Session store, `store/session-store.mjs` | the durable store, a copy of it, whether it is still used | `get`, `list`, `compareAndSet`, `insertIfAbsentWithCheck` | a commit that is reported too late |
| Submit lease (`leaseLocks`) | owner and expiry row | acquire, renew, release, `assertHeld` | it lapses while a wallet is signing |
| Record tracker, `reconcile`..`archive`, `tracking/diagnosis.mjs` | status, accepting block, verdict streaks, family pointers | writes by compare-and-set | reorgs, displaced acceptance, resends crossing acceptance, family verdicts |
| Acceptance notices and evidence | hints, waiters, shared reads with scopes | `remember`, `wait`, `read`, `peek` | lost wake-ups; proofs that outlive their connection or their chain |
| Round tracker, `tracking/round-tracker.mjs`; round store | the displayed round, its observation, versions, timers; a stored row | read, offer, publish, follow, `readCurrent`, write | gaps, reorgs and own transactions that arrive in the middle of a read |
| Foreground recovery and the page's round (`web/app/app.mjs`) | the recovery asked for, under way or held up | request, probe, track, hide, show, retry | requests while one runs; a page that goes away in between |
| Draw readiness and confirmations | target, anchor, cached confirmations, the shown count | confirm, fence, reuse, read, pulse | the target leaves the chain between proof and send; a notice in the middle of a read |
| Node link, `chain/dual-node.mjs`, `chain/nodes.mjs` | sockets, generation, subscriptions, coverage | connect, call, failover, watch | a failover in the middle of a read; notices and answers that overtake each other |
| Fees, `chain/mass.mjs` | none | `convergeFee` | a fee that depends on the draft it pays for |
| Discovery, progress, replay | candidate views | order, interpret | answers from different machines, in any order |
| Wallets, UI, i18n, build, tests | sessions, page | | |

They interact through calls (page → engine → builders → wallet → node), through
the journal (every tab of one browser reads and writes the same rows), through
notifications of the node (which only wake a verification) and through the chain.

## 2. Modules

```
RoundEscrow          what a round promises to whoever pays into it
   ^ implements (ImplementsEscrow)
RoundContract        the three templates as a state machine
   ^ implements (ImplementsContract)
RoundNetwork         clients, other software, mempool and chain around one round
   | extends
RoundTx              transactions: builder, templates, interpreter

SubmitJournal        tabs, journal, session store, lease: execute() and the tracker's writes
RecordTracker        one family of records on a chain that reorganises: reconcile .. settleFamily

NodeLink         <-- AcceptanceReads   proofs of acceptance, their scopes, the follow loop's sleep
RoundTracker     <-- RoundPage         one round's session; the page that opens and closes it
DrawTarget       <-- DrawShown         confirmations and the fence; the draw's progress on screen
   (the second of each line extends the first)
```

The proofs about a module `M` are in `M_proofs`, which extends it: `RoundContract_proofs` (with
`ImplementsEscrow`), `RoundNetwork_proofs` (with `ImplementsContract`), `SubmitJournal_proofs`,
`RecordTracker_proofs`, `AcceptanceReads_proofs`, `RoundPage_proofs`, `DrawShown_proofs`. `Sums` has the
lemmas about sums that the first two need.

| Module | Models | Correspondence |
|---|---|---|
| `RoundEscrow` | nothing in the code: the abstract specification | stakes are taken in while selling; then one award or every return |
| `RoundContract` | `contracts/*.sil`, with `validateConfig`, `validateLedger` (`state.ts`) and the order of `progress.mjs` | one action per entry and action number; guards are the `require`s; `refunded`, `prize`, `ownerPaid` and `costs` record where the money went |
| `RoundTx` | `protocol.ts`, `builders.ts`, `accepted.ts`, and the templates again, this time as predicates on a transaction | outputs are records (amount, key or state); keys are model values; P2SH commitment is the record itself |
| `RoundNetwork` | `Engine.plan` on a live snapshot, submission, acceptance, other software | `Observe`, `Compose`, `Accept`, `AcceptForeign`, `Drop`, `Tick` |
| `SubmitJournal` | `Engine.execute` (lock to outcome), `leaseLocks`, `reservations.mjs`, `session-store.mjs`, `persistence.ts`, the tracker's writes | one action per write or await at which another tab can step in |
| `RecordTracker` | `engine.mjs` from `reconcile` to `settleFamily`, `diagnosis.mjs`, `tracker.mjs` | each follow, of whichever record and in whichever tab, is a job that goes from read to read; a write is a compare-and-set against what the job read, and tells the others (`Overtaken`, `Outdated`) |
| `NodeLink` | `dual-node.mjs`, `node-pool.mjs`, the chain subscription of `nodes.mjs` | the primary connection: its generation, subscription, coverage, and the notices on their way |
| `AcceptanceReads` | `acceptance-evidence.mjs`, `acceptance-read.mjs`, `acceptance-notices.mjs`, the follow loop of `app.mjs` | sessions that read and hold a proof; its scope is revoked by what the link delivers |
| `RoundTracker` | `round-tracker.mjs`, the resolver of `rest-rounds.mjs`, `round-store.mjs`, `terminal-state.mjs` | one action per await of `run()`; versions are kept as bits of the read that compares them |
| `RoundPage` | `app.mjs` (open, track, recover, leave a round), `foreground-recovery.mjs` | page events, the recovery's steps, the session's callbacks (`Shows`) |
| `DrawTarget` | `draw-confirmations.mjs`, `passa.mjs`, the chain observation of `nodes.mjs`, the engine's fence | the checks of the engine and the page, step by step, over one cache |
| `DrawShown` | `draw-readiness.mjs` | hints, the timer, the read and the pulse between reads |

The `MC` modules give the constants their values; in `MCDrawShown` and `MCRoundPage`
also the tree of blocks and the paths of the round.

### How they fit together

`RoundNetwork` justifies what the browser modules assume of a round: what is accepted
is a step of the contract and can be explained. `SubmitJournal` lets the node answer
anything and any tab track at any time, so its safety does not depend on the tracker;
`RecordTracker` then asks whether the tracker's own writes are true of the chain and
end. It reads the chain directly and takes from `AcceptanceReads` that a write under a
scope is made on a proof that is still current, and that a notice may be late but is
not lost. `AcceptanceReads` shows that over the link, for a chain that moves at any time. `RoundTracker` and
`DrawTarget` have the part of the link they rely on inside them: notices in order,
gaps that say so, and answers that overtake notices.

### What was abstracted

* Hashes, scripts and template bytes: a commitment is equal exactly if what it
  commits to is. The draw's seed is an oracle: any sample may come out, once, and
  it stays fixed. (`pass-a.ts` and `drawSeed` check that the block is the right one;
  which block that is, and when it may be used, is `DrawTarget`.)
* A ledger's directory is a sequence of cumulative ticket counts, with keys only
  in `RoundTx` and `RoundNetwork`.
* The contract's money is in units of `REFUND_FEE`, at the exact ratios of the
  sources (deposit 200, minimum price 50, finalizer 50, largest fee 25, refund
  fee 1).
* In `SubmitJournal` a write is guarded by the record as it is then: a handler
  that read an older revision loses its compare-and-set and changes nothing. What
  the node answered is arbitrary, so every property there holds whatever the
  chain does. Statuses no rule of reservations or the journal tells apart share a
  name: TRACKED (SUBMITTED, PENDING, UNKNOWN, RECHECKING), ACCEPTED (CONFIRMING,
  ACCEPTED), LOST (CONFLICTED, DRIFTED). Web Locks are a lease that never lapses,
  so the lease, which may, covers both.
* `SubmitJournal` keeps history in two fields of a record that the code has not:
  `reopened`, and `seen`, which stands for `firstAcceptedAt`. No guard reads them.
* `RecordTracker`: one family and one rival; "depth" is a number of blocks. A follow starts
  and ends at any time: what starts it (a loop, `#followReplacedFamily`, a click, a recovery,
  another tab) makes no difference to what it does. What two follows in two tabs and two follows in one
  differ in is the shared check (`Share`), which any two may do. Two records' statuses share a name where the tracker treats
  them alike, as above. The verdicts on a draw's own proof (DRIFT, PROOF_INVALID) and
  on parents of a chained input (PARENT_*) are left out, and REJECTED records are not
  followed, as in the code.
* `NodeLink` and `AcceptanceReads`: one followed transaction, of which the node's chain says
  in which block it is. The standby is a choice made when it is promoted: it may
  have any chain and may or may not have delivered its notices. Joining a read in flight
  is the reuse of its result; the age of a hint is left out. A subscription that fails while a
  reader holds it publishes no gap in the code; the model sends one, which only revokes more.
* `RoundTracker` and `RoundPage`: a state of the round is named by the transition that led to it.
  Hints of standby nodes, which only wake the session, and lookup anchors, which only
  shorten a search, are left out. The resolver's answer is what the node has at the
  moment of the read, complete or not; where it searches is left out. `store.remember`'s
  await is part of the step that publishes; the write to disk is not (`WriteOut`). The rows
  `refreshRound` writes for the list are left out: the session does not read them. Note that
  the second of two gaps, or a failed forced re-read, takes back the final verdict of a stored
  row (`round-tracker.mjs:95-97`): safe, it is read again.
* `DrawTarget` and `DrawShown`: DAA score, blue score and height of a block are one number. Scores on
  a chain are consecutive there, so the parent that an anchor prefers is always deep enough
  when the anchor is past the minimum. GRACE and the lifetime of a confirmation are timers that may
  fire at any time. The expiry of a draw's window, evictions from the caches and the fence of a
  resend, which is the same function, are left out.

## 3. Runs

| Run | Instance | Distinct states | Question |
|---|---|---|---|
| `contract_safety` | 3 configurations, up to 5 tickets and purchases, batches of 2, clock to 10 | 37,466 | do the templates keep the books, the refunds and the draw right in every order of spends, and does every round end? |
| `network_race` | a client with snapshots of any age; other software, which has the owner's key, with altered layouts | 71,365 | does anything but a spent tip make a draft fail, and is all that the templates accept explained, verifiable and paid to the right keys? |
| `journal_tabs` | two tabs that also track, a transaction, its fee bump, and another sharing an input | 1,128,483 | can two intents share an input, or a released record be taken up again? |
| `journal_session` | the same, one tab's store may fail at any call | 78,612 | does losing the store lose what was sent? |
| `tracker_family` | a record and its bump, two follows at once, a rival spender, 3 blocks, reorgs of depth 1, any faults | 1,806,243 | are settled words true, and does the family settle? |
| `reads_follow` | 2 blocks, one session, 2 changes of the chain, one fault | 332,211 | is a current proof true, and is the acceptance learned? |
| `page_return` | a round with two successors, one move of the chain, two upsets | 1,900,284 | does a page that comes and goes show and store only what is true, with its next read due? |
| `draw_fence` | 6 blocks on two branches, two upsets | 2,918,078 | does a draw pass the fence only on a deep target, and is a display at rest right? |
| `journal_linear`, `journal_mark` | one tab, a transaction and its fee bumps | (violations) | see Findings |
| `tracker_stranded` | as `tracker_family` | (violation) | see Findings |
| `page_stuck` | as `page_return`, one upset | (violation) | see Findings |

### Why the bounds are enough

* **Purchases and batches.** Batches of 2 with up to 5 records give a first, a
  middle, a full last and a short last batch. The configurations take the cheapest
  and the dearest ticket admitted, a sale ended by its tickets, by its purchases,
  and by its time. `ValueLimit` is low enough that the dearest sale touches it.
* **Clock.** `DaaLimit` leaves room for a close, a draw, a timeout and two refund
  batches in sequence, and for rounds sealed so late that the timeout no longer
  fits (`AnchorInRange`). `DrawDelay < TimeoutDelay` as in the sources. In
  `RoundNetwork` the clock stops below `DaaLimit`, because `verifySnapshot` refuses
  later scores; its four scores still reach a sale closed late, a draw of two
  purchases and a refund in two batches.
* **Samples.** `SampleSpace` is not a multiple of some of the sales, so rejected
  samples occur.
* **Clients.** One client and other software suffice for a race: a foreign transaction is
  accepted on the current state at any time, so the client's snapshot, draft or
  submitted transaction goes stale as it would by a second client's. A client has
  one transaction per tip, which `SubmitJournal` justifies. Foreign transactions are
  drafts with one field off (locks, hint, payee, fee, one unit moved between outputs):
  the fields the templates and the interpreter have to agree on. One fee and one
  funding surplus above it give a change output; another key's purchase makes the
  winner's key matter. That key is the owner's, so that a key may be several of buyer, winner, owner
  and executor; with a third key beside it the run holds too (327,074 states), in more time.
* **Tabs.** Two tabs and three transactions give every relation reservations
  distinguish: same transaction, same family, shared input outside the family.
  `Fallible` and `Trackers` say which tabs may lose their store or track in a run;
  letting every tab do everything only multiplies states (a run with one tab that
  does both, and two transactions, has 8.4 million states and holds).
* **Family.** `MaxBlocks` 3 with `RecheckDepth` 1 lets a member be accepted, displaced once
  (`MaxReorg`), and the rival or the other member be buried after. `MaxReorg` is not above
  `RecheckDepth`: the code's verdicts are final only for reorgs that are not deeper
  (`REORG_RECHECK_DAA`). `ResendLimit` 2 is the first value at which the last
  resend differs from the first. Two follows are of one record or of both, and each may be
  started again at any time, so any number of them one after the other; faults are not
  bounded. `Rounds` 2 is the least for which `FamilySettles` holds, because a verdict wants two observations.
* **Link.** Two blocks and two changes give a transaction that moves and comes back, the
  case in which a proof looks right and is not (`A -> B -> A`). A second session is the
  same read again: sessions meet only in the cache, whose entry may be of either.
* **Page.** Three states are a round that moves once, to a final state or to one that
  another can replace. `MaxUpsets` counts gaps, failed and incomplete reads and what the user
  and the browser do together; two of them in any order, at any step, give a request
  during a recovery and a gap during a forced read. A probe that fails is not counted.
* **Draw.** Above the block that accepted CLOSE, one branch is long enough for a target with
  an anchor above the minimum depth, and the other has another target. The tip may
  move to any block, so also back.

### Symmetry

Tabs are interchangeable in `journal_tabs` and follows in the tracker runs only, and no run
uses symmetry with a liveness property.

### Deadlock

The contract, network, reads, page and draw runs turn the check off: rounds end and the
clock, the chain's moves and the upsets are bounded, after which nothing is left to do. The others
are checked for deadlock.

### Fairness

* `contract_safety` (`RoundContract!Fairness`): blocks keep arriving,
  and a close, draw, timeout or refund that stays possible is eventually executed.
  The contracts let *anyone* execute these and pay for it, so this needs one willing
  executor at a time, not a particular one; the page offers each of them as soon as
  it is available. Buying is never fair. A sample that is refused disables the
  draw, so no fairness can force it: the round ends through the timeout. Rounds
  sealed at a score from `DAA_LIMIT - TIMEOUT_DELAY` on are excepted: `sealed.sil:247`
  refuses both ways out of them. `validateConfig` bounds the *earliest* closing time
  only, so such a round is possible in principle; 500 billion DAA scores are over a
  thousand years at ten blocks a second.
* `reads_follow`: a lost connection is opened again, a subscription that is wanted is
  retried, notices arrive, timers fire, a read that was begun ends, and the loop goes on.
  `SF` of its asking again is needed only because one session of the instance may be busy with
  another reader's read.

The tracker runs assume none. Nothing makes the page follow a record for ever: `followLoop` ends after 40
rounds (`app.mjs:1244`), and what starts it again are events, namely a load, a settings save, an own
submission, or a recovery asked for by the page becoming visible, coming online or an execution's end, for at most
ten records each (`foreground-recovery.mjs:4-6`). There is no timer. So `FamilySettles` asks how many follows
it takes rather than whether they come: once a member, or the rival, is buried, two follows of each
open record that nothing fails in leave none open. `rounds` counts them; it starts again when a read
fails or a record reaches or leaves a verdict. One loop makes many more than two.

The page and draw runs assume none either. Instead of liveness they check that the next step is *due*:
`NextReadIsDue`, `RecoveryIsDue`, `RecoveredIsTracked`, `QuietIsTrue` say that a timer is set or a read
is under way whenever something is left to learn.

## 4. Properties

*Books* (`RoundContract`): `LedgerValid` (clients accept every reachable ledger),
`EscrowExact`, `RefundedOnce`, `Conserved`, `Settlement`, `NeverUnpayable`,
`DrawWellDefined`, and the action property `SpendsAdvance` (the order in which the page ranks views). `ImplementsEscrow` is
the refinement of `RoundEscrow`; `RoundsEnd` the liveness property.

*Three readings of one protocol* (`RoundNetwork`): the builder, the templates and
the interpreter are written separately in the code, and in `RoundTx`.
`DraftsAreAccepted`, `AcceptedIsExplained` and `LiveIsVerifiable` say that they
agree; `PaysTheRightKeys` that a hint cannot redirect a prize, and that a key that is several of
buyer, owner and executor is paid the sum of its parts; `ImplementsContract`
that the network of transactions is `RoundContract`, so what is proved of one
holds for the other.

*One intent per input* (`SubmitJournal`): `NoRivals`, `ReleasedForGood`, and, when the
store fails, `SessionNoRivals`, `SentIsKept`. `NoRivals` excepts
records that had been released and came back, because acceptance found later
(`seen`) or the write of `journal_mark` (`reopened`) opens them again.

*Settled words* (`RecordTracker`): `SettledIsFinal` (an ACCEPTED record is on chain for good, a
SUPERSEDED one has lost its inputs for good, so releasing them was right), `NotLostToItself` (a
record is not given up because its own transaction spent its inputs, though the
diagnosis sees the same), `FamilySettles` (no input stays reserved by a record that follows
cannot settle; stranded records are excepted, see Findings).

`NotLostToItself` has one exception, which the code has. A verdict rests on a complete search of the record's
own and on somebody's observation that the inputs are spent; nothing binds the observation to a time
before the search. So a record can be given up although it was accepted between the two, when the
node's notice of that is late, in two ways:

* a sibling's follow writes CONFLICTED between a REPLACED record's search (`engine.mjs:655-660`) and
  `#settleReplacedLost` (`:804-815`), which inherits it;
* two follows go on with one check, shared (`:575`, `:762`) or adopted (`:834-835`), and give the two observations that
  `:782` wants, at least `DIAG_GAP_MS` apart.

Both need a notice that is late by as much as the siblings' two observations take, eight seconds or more, and the user or another tab to
start follows in that order. The record says CONFLICTED until somebody reconciles it again; no money is at stake, the
inputs are spent. The property says that there is no third way: whoever gives a record up wrongly was told
by another follow, after its own search, what it had not seen before it (`Observed`, `seen`).

*Current proofs* (`AcceptanceReads`): `CurrentIsSelected` (what its scope calls current is
true at the node once the notices sent have arrived), `NoNewsWhileAsleep` (no lost
wake-up), `AcceptanceIsLearned` (liveness).

*The page* (`RoundPage`): `CurrentIsOnChain`, `SettledWasDeep`, `NextReadIsDue`,
`RecoveredIsTracked`, `RecoveryIsDue`.

*The draw* (`DrawShown`): `FencedIsDeep` (what may be sent draws on a target that is deep enough,
whatever moved since the check), `QuietIsTrue` (a display at rest is right).

## 5. Proofs

Each theorem module follows one scheme: an inductive invariant `IInv` (`NetInv` and `TradeInv`
for the network), one lemma for each action that it is kept, and short theorems that read the
properties off it. No bound of a run occurs in them: they hold for any number of tabs, records,
sessions, blocks, moves and faults. What they assume are the named `ASSUME`s of the modules,
which TLC evaluates in every run.

### Sums

The provers cannot instantiate the library's induction theorems. `Sums` does induction by a
least counterexample instead, which is a fact about sets and needs no operator: a nonempty set
of naturals has a least element (`LeastOf`), a nonempty set of finite sets a smallest one
(`SmallestOf`). From these follow that the sums of the community modules exist, are whole
numbers, may be taken in any order and apart (`AddsSum`, `SumParts`, `SumsAgree`), and that a
sum of differences is the difference of the ends (`Telescope`).

### The contract

`RoundContract_proofs` assumes what the sources' literals satisfy (`MoneyAssumption`,
`BoundAssumption`) and any configurations that `validateConfig` admits. It proves every
invariant and action property of `contract_safety`, and the refinement.

`IInv` is the conjunction of `TypeOK`, `LedgerValid`, `EscrowExact`, `RefundedOnce` and
`Settlement` with two additions that make it inductive.

* `CursorSettled` fixes the cursor in the phases `LedgerValid` leaves open. Without it a refund
  that ends the round would not be known to have reached the last record.
* `EndsWithinSales`: every record ends within the tickets sold, so that differences of ends,
  which amounts are computed from, are naturals.

Buying and refunding are the actions that matter: a purchase appends a record that ends at the
new `sold`; a batch moves the cursor over its records and takes out exactly their tickets, an
identity of products of counts and the price (`Distribute`, `DistributeTwice`). The rest:

* `NeverUnpayable`, from `IInv` and the price bound of `validateConfig` (`EscrowInBounds`).
* `SpendsAdvance`: a refund batch moves the cursor up because it starts behind it.
* `Conserved`: the refunds so far are a sum of differences of neighbouring ends less a fee for
  each, so they are the tickets before the cursor times the price less the fees
  (`RefundsSoFar`); where the fees and the deposit went is a second invariant (`SpentExact`).
* `DrawWellDefined`: each accepted sample has one quotient and one remainder by `sold`, so each
  ticket has as many samples as any other; and the directory cuts the tickets into runs, so each
  has one holder (`OneHolder`).

`KeepsThePromise` is the refinement `ImplementsEscrow`, with one lemma per action: `Buy` maps to
`Sell`, `CloseEmpty` to `Void`, `Close` to `Lock` or, on an aborted sale, to `GiveUp`,
`TimeoutRefund` to `GiveUp`, `DrawAndPay` to `Award`, a batch of `Refund` to one `Return`, and
`Tick` to a stutter. `IInv` gives what the abstract steps ask for: each record's ends make its
stake positive, and those behind the cursor are exactly the ones no longer owed.

### The network

`RoundNetwork_proofs` is the longest, because it relates three programs: the builder, the
templates and the interpreter. It assumes of the constants what `RoundTx` needs (amounts, delays
and limits are positive, the deposit is payable), a configuration `validateConfig` admits, that
fees, surplus and quantities are naturals, and a clock that stops below `DAA_LIMIT`. It assumes
nothing of keys: the owner may be a client or use other software, and buy, win and execute.
`NetInv` says of

* the chain (`Describes`): the state UTXO holds a valid ledger and exactly its value;
* a client's snapshot (`HeldFits`): it is the live state as of some earlier score, or of a spent
  tip;
* a submitted transaction (`SentFits`): it was drafted on the live state, or its tip is spent;
* the last accepted one (`LastFits`): the templates accepted it, and the state is what the
  interpreter makes of it.

Three groups of lemmas carry it, each with one lemma per action of the protocol.
`AcceptedFollows`: what the templates accept, whoever built it, the interpreter explains, as a
successor that `validateLedger` accepts. `DraftStands`: what the builder drafts on a snapshot of
the live tip, however old, the templates and the node accept. `PaysTheRightKeys`: what the
outputs of an accepted transaction pay to a key adds up to what the records say, whatever its
hint; this one is about sums over outputs against sums over records, which `SumsAgree` matches.
A key may be owner, executor and buyer at once; the outputs of each part are taken out of the sum one
by one (`SumWithout`, `RefundPaysParts`, `DrawPaysParts`).

`KeepsTheContract` is the refinement `ImplementsContract`. `TradeInv` adds to `NetInv` that what
is in flight was offered with a fee and funding of the model, and the types of the books.
`BuyIsBuy`, `EmptyIsEmpty`, `CloseIsClose`, `TimeoutIsTimeout`, `DrawIsDraw` and
`RefundIsRefund` show that each accepted transaction is that action of the contract, with the
same amounts, successor and payouts; `TickIsTick` that the clock is the contract's, the draw's
sample included; everything clients do among themselves is a stutter. The money is booked by place and not
by key: what goes to the owner is the output the templates put there, so that an owner who also
wins or executes is not counted twice. The refund is the hard
one: the interpreter subtracts the batch's outputs, the contract computes from the cursor, and
`BatchSum` joins them by `Telescope`; the last batch alone pays the owner (`OwnerOfRefund`).

With this, the contract's invariants hold of the network by substitution for all constants that
also satisfy `RoundContract`'s assumptions. That last step is not checked by the prover.

### The journal

`SubmitJournal_proofs` proves every property of `journal_tabs` and `journal_session`: `TypeOK`,
`NoRivals`, `SessionNoRivals`, `SentIsKept` and `ReleasedForGood`, for any tabs and
transactions, any fee bumps that satisfy `JournalAssumption` (a bump spends the inputs of what
it replaces and hands on its root, as `planReplacement` does), and any set of tabs whose store
may fail. `AbsentAssumption` only says that no row is not a row.

`NoRivals` holds by two kinds of writes. An insert comes after an inspection in the same
transaction, and nothing open it finds outside the family shares an input (`InsertHasNoRival`).
Every other write changes a record that is there and is `Kept`: it opens nothing that was
released, or says that the record came back. What is left are the steps in which the journals
themselves change places, and for them the invariant is strengthened:

* `DurableIsLasting`: a record written after a failure is only in the copy of a tab that gave
  the durable journal up. Without it a copy taken at the early check or at a reload might bring
  an uninspected record along.
* `SentInBoth`: what a tab sent is in the durable journal and, if its store may fail, in its
  copy as well, because `Put` writes both. `SentIsKept` alone says nothing of the copy the tab
  will look at after the failure, so `Degrade` would not keep it.
* `JobsNamed`: only an execution of a fee bump gets to `Mark`.

The lease does not occur in the argument: it may lapse at any step. It keeps a second tab from
asking the wallet in vain; what keeps intents apart is the inspection at the insert.

### The record tracker

`RecordTracker_proofs` is about families of any size, chains of any length and any limits. The
chain changes in one way, `Branch`: a suffix, maybe empty, gives way to one that is a block
longer. What is buried under more blocks than a reorg removes stays buried, a block keeps what
it accepts, and while no block was ever removed what is spent stays spent. Every other step
leaves the chain alone and is argued from two predicates: `RecordFits`, what the status and
location of a record stand on, and `FollowFits`, what the follow carries from read to read
beside records that others write.

* `SettledStaysFinal` assumes `MaxReorg <= RecheckDepth`, as the code does
  (`REORG_RECHECK_DAA`). The invariant is the same without it: what it says of settled words is
  conditional on it.
* `NeverLostToItself` is about runs without a reorg, which is when the diagnosis could mistake a
  late notice for a rival. `FollowLost` is the strengthening, for each of the follows that run at once: one
  whose search came after the inputs were seen spent and missed the record knows that the record
  lost them. A verdict that rests on no such knowledge is the exception the property names.

Any number of follows run at once. A step is one of a single follow; the others lose their check to
what it writes, or go on with what they had (`OvertakenFits`, `OutdatedFits`), so that each action
needs an argument about its own follow only.

### Reads and notices

`AcceptanceReads_proofs` allows any blocks and any number of sessions at once. `Relies` says of
a live session: it listens only while the node is subscribed to, and what it found is on the
node's chain, or the notice that removed it is on its way (`StandsOrTold`). Coverage joins the
link and the sessions: who listens without being strict has it, and losing it revokes.
`CurrentIsSelected` is the case in which no notice is left. `HintIsNews` gives
`NoNewsWhileAsleep`: a location the loop has not looked at is marked as news unless the page's
own read told it.

### The page

`RoundPage_proofs` holds for any states and paths of a round and any number of moves and upsets.
Its invariant has one part per piece of state a step can disturb. The tracker's (`TrackerInv`):
what a session shows, was offered or is resolving is on the chain or in a notice on its way, or
the read knows that it was disturbed (`FoundOnChain`); a result settles only by a depth known
before it was read (`ReadAfterDepth`), so a stored final verdict is deep for good (`DeepRow`);
an interrupted read has nothing shown beside it (`Revoked`). `NextReadIsDue` is inductive with
these. The page's (`PageInv`): a round that is shown without a session waits for a recovery that
is due (`WaitsForRecovery`). Page steps act on the tracker only by opening and closing sessions
(`Opens`, `Closed`), so each half is kept by its own lemmas.

### The draw

`DrawShown_proofs` holds for every tree of blocks (`DrawAssumption`: paths have one block of
each height from one root), every boundary and every minimum depth. What a check or a cached
confirmation believes of a block is true of the chain or contradicted by a notice on its way
(`Stands`); `CheckHolds` and `ConfHolds` say which beliefs go with each step of a check. An
anchor that stands and is high enough puts the target below it (`CurrentIsDeep`), which is
`FencedIsDeep`. `QuietIsTrue` is inductive with two more facts: while the page's own check of a
target goes on it holds no other confirmation (`CheckIsOnly`), and what a read has found so far
is true unless a notice will disturb it (`ReadIsTrue`).

### Only model-checked

`RoundsEnd` and `AcceptanceIsLearned`: liveness under fairness, whose proofs need `ENABLED`.
`FamilySettles`: an invariant, but one about how far each follow has come since a block was buried, so
that a proof would need a description of every open record after each number of rounds. That the assumptions on the constants are what the sources' literals satisfy is
not a theorem either; the runs evaluate them on their instances.

## 6. Findings

All are disagreements of a comment with the code next to it; none loses money: every
member of a family of fee bumps spends the same inputs, and a page that does not track
shows that it does not know.

* `journal_linear`. `engine.mjs:827-828` relies on "A bump chain is linear (only an
  unreplaced record can be bumped)". The pointer is written only if the replacement's
  answer was SUBMITTED (`engine.mjs:561`). If the answer is lost, the original stays
  bumpable, and two open records replace it.
* `journal_mark`. `engine.mjs:560`: "The replaced record stays open [...]; it only gains
  a pointer". The write that follows spares ACCEPTED and CONFIRMING only. A record that
  another tab released since, by archiving it or by a verdict, becomes REPLACED and
  reserves its inputs again, until the family is settled.
* `tracker_stranded`. `engine.mjs:770`: "A REPLACED member is never diagnosed or resent
  itself; it only inherits its fee-bump family's lost verdict." A REPLACED record that was seen
  accepted becomes CONFIRMING (`:628` does not keep REPLACED then), and when a reorg displaces it,
  UNKNOWN (`:682`), with `replacedBy` still set. `follow()` returns at `:772` because of the pointer;
  what inherits wants the status. If a rival then spends the inputs for good and the replacement
  is CONFLICTED, this record is followed for ever, and reserves its inputs until the user archives it.
* `page_stuck`. `app.mjs:633`: "Node tracking is what recovers a summary-only or unreadable cached
  view, so it must start either way", and `:1854`: "Retain the existing on-demand retry path even when the
  initial liveness probe failed." A recovery stops the tracker first (`:1827`). When nothing
  could be shown of the round yet, `markDetailForRecovery` returns (`:104`) before it notes
  that a recovery goes on, so when the probe fails, `onError` (`:1852`) starts no tracker: the round
  stays untracked until the next event or a retry.

## 7. Plan

Done: every module above and the proofs of section 5. Next:

1. The contract's invariants as theorems of `RoundNetwork`, through `KeepsTheContract`.
   `RoundContract`'s assumptions on the constants are stronger than `RoundTx`'s, so they have to
   be stated for the network first.
2. Action properties about the page and the tracker, where an invariant now says what a state
   is, but not which steps are excluded.
3. `convergeFee` (`mass.mjs:88`), the one hazard without a property: with mass as an arbitrary
   monotone function of the outputs, the iteration ends, and at a fee that pays for the draft it
   returns.

## 8. Not modelled

* **Fees and mass** (`mass.mjs`, `feetiers.mjs`). `convergeFee` iterates over the mass of a draft,
  a function of its bytes; with bytes abstracted there is no mass. `RoundTx` takes the
  fee as any value the templates admit.
* **Discovery and views** (`discovery.mjs`, `rounds.mjs`): where rounds are looked for, how `chooseView` ranks
  candidates, REST pages, search cursors and the fallback on pruned history. What a
  search finds is verified like anything else; the order of two verified views is `SpendsAdvance`.
* **Replay and PASS-A** (`replay.mjs`, `pass-a.ts`): hash trees over bytes. Their result is the sample of
  `RoundContract`; which block it comes from is `DrawTarget`.
* **Node link**: the health score of pool candidates, address subscriptions, request frames and
  deadlines. A deadline is a read that fails.
* **Wallets, addresses, encodings, hashes, registry, JSON and REST parsing**: pure functions of bytes and
  wrappers of cryptography.
* **UI, i18n, build, end-to-end harness**: no state whose interleaving matters, but for what `RoundPage`
  and `AcceptanceReads` take from `app.mjs`.
