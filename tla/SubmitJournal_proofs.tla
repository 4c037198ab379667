------------------------ MODULE SubmitJournal_proofs ------------------------
(***************************************************************************)
(* Proofs about SubmitJournal for any number of tabs and transactions, any *)
(* relation of fee bumps and shared inputs, and any set of tabs whose      *)
(* store may fail.  All but four of the steps that touch a journal write   *)
(* one record that is there already (Kept); what is left are the inserts,  *)
(* the copy a tab takes of the durable journal, and its reload.            *)
(***************************************************************************)
EXTENDS SubmitJournal, TLAPS

Journals == Tabs \cup {Disk}
Journal == [Txs -> Record \cup {Absent}]
Stages == {"idle", "plan", "check", "sign", "send", "result", "mark"}
Sent == {"send", "result", "mark"}
Job == [at : Stages, tx : Txs \cup {NoTx}, result : {"NONE", "SUBMITTED", "UNKNOWN", "REJECTED"}]

JournalType ==
    /\ book \in [Journals -> Journal]
    /\ backend \in [Tabs -> BOOLEAN]
    /\ job \in [Tabs -> Job]
    /\ lease \in [owner : Tabs \cup {Nobody}, live : BOOLEAN]
    /\ lease.live => lease.owner # Nobody

(* What runs is named, and only fee bumps mark what they replace.          *)
JobsNamed ==
    \A t \in Tabs : /\ job[t].at # "idle" => job[t].tx \in Txs
                    /\ job[t].at = "mark" => job[t].tx \in Bumps

Lasting(b) == \A x \in Recorded(b) : b[x].persistent

(* Records written after a failure are only in the copy of a tab that gave *)
(* the durable journal up.                                                 *)
DurableIsLasting ==
    /\ Lasting(book[Disk])
    /\ \A t \in Tabs : backend[t] => Lasting(book[t])
    /\ \A t \in Tabs : ~backend[t] => t \in Fallible

(* What a tab sent is in the durable journal, and, if its store may fail,  *)
(* also where it will look then.                                           *)
SentInBoth ==
    \A t \in Tabs : job[t].at \in Sent =>
        /\ backend[t] => book[Disk][job[t].tx] # Absent
        /\ t \in Fallible => book[t][job[t].tx] # Absent

IInv ==
    /\ JournalType
    /\ JobsNamed
    /\ DurableIsLasting
    /\ SentInBoth
    /\ NoRivals
    /\ SessionNoRivals

---------------------------------------------------------------------------
(* Journals.                                                               *)

LEMMA DiskIsNoTab == Disk \notin Tabs
  BY JournalAssumption

LEMMA RivalsSymmetric ==
    ASSUME NEW x, NEW y
    PROVE  Rivals(x, y) <=> Rivals(y, x)
  BY DEF Rivals, Conflict

(* A write of what is there: it forgets nothing, and opens a record only   *)
(* in the two ways a released one may come back.                           *)
Kept(r, s) ==
    /\ s \in Record
    /\ CameBack(r) => CameBack(s)
    /\ Open(s) => Open(r) \/ CameBack(s)
    /\ s.persistent = r.persistent
    /\ s.status = "SUBMITTING" => r.status = "SUBMITTING"

LEMMA ViewType ==
    ASSUME JournalType, NEW t \in Tabs
    PROVE  /\ JournalOf(t) \in Journals
           /\ View(t) = book[JournalOf(t)]
           /\ View(t) \in Journal
           /\ \A x \in Recorded(View(t)) : x \in Txs /\ View(t)[x] \in Record
  BY DEF JournalType, Journals, Journal, View, JournalOf, Recorded

LEMMA PutTo ==
    ASSUME JournalType, NEW t \in Tabs, NEW x \in Txs, NEW r \in Record, Put(t, x, r)
    PROVE  /\ book' \in [Journals -> Journal]
           /\ \A j \in Journals, y \in Txs :
                 book'[j][y] = IF y = x /\ (j = JournalOf(t) \/ (j = t /\ t \in Fallible))
                               THEN r ELSE book[j][y]
  BY DEF JournalType, Put, Journal

(* The journal after a step, seen record by record: NoRivals of one        *)
(* journal is kept by Kept writes.                                         *)
Peaceful(b) ==
    \A x, y \in Recorded(b) :
        Rivals(x, y) /\ Open(b[x]) /\ Open(b[y]) => CameBack(b[x]) \/ CameBack(b[y])

SessionPeaceful(b) ==
    \A x, y \in Recorded(b) :
        Rivals(x, y) /\ Open(b[x]) /\ Open(b[y]) /\ ~b[x].persistent
            => CameBack(b[x]) \/ CameBack(b[y])

LEMMA KeptIsPeaceful ==
    ASSUME NEW b \in Journal, NEW c \in Journal, NEW x \in Txs,
           b[x] # Absent, Kept(b[x], c[x]),
           \A y \in Txs \ {x} : c[y] = b[y]
    PROVE  /\ Peaceful(b) => Peaceful(c)
           /\ SessionPeaceful(b) => SessionPeaceful(c)
           /\ Lasting(b) => Lasting(c)
  <1>1. /\ \A y \in Txs : b[y] # Absent <=> c[y] # Absent
        /\ Recorded(c) = Recorded(b)
    BY AbsentAssumption DEF Journal, Kept, Recorded
  <1>2. ASSUME NEW y \in Recorded(b)
        PROVE  /\ CameBack(b[y]) => CameBack(c[y])
               /\ Open(c[y]) => Open(b[y]) \/ CameBack(c[y])
               /\ c[y].persistent = b[y].persistent
    <2>1. CASE y = x
      BY <2>1 DEF Kept
    <2>2. CASE y # x
      BY <2>2 DEF Recorded
    <2>. QED
      BY <2>1, <2>2
  <1>3. Peaceful(b) => Peaceful(c)
    BY <1>1, <1>2 DEF Peaceful
  <1>4. SessionPeaceful(b) => SessionPeaceful(c)
    BY <1>1, <1>2 DEF SessionPeaceful
  <1>5. Lasting(b) => Lasting(c)
    BY <1>1, <1>2 DEF Lasting
  <1>. QED
    BY <1>3, <1>4, <1>5

(* The inspection inside the inserting transaction: nothing open in that   *)
(* journal rivals the new intent.                                          *)
LEMMA InsertHasNoRival ==
    ASSUME NEW b \in Journal, NEW x \in Txs, MayPersist(b, x),
           NEW y \in Recorded(b), Open(b[y])
    PROVE  ~Rivals(x, y)
  <1>. SUFFICES ASSUME Rivals(x, y) PROVE FALSE
    OBVIOUS
  <1>1. x # y /\ InputsOf[x] \cap InputsOf[y] # {} /\ RootOf[x] # RootOf[y] /\ y \in Txs
    BY DEF Rivals, Conflict, Recorded
  <1>. DEFINE except == IF x \in Bumps THEN Family(b, Replaces[x]) ELSE {}
  <1>2. InputsOf[x] \cap Reserved(b, except) = {}
    BY DEF MayPersist, Unreserved
  <1>3. y \notin except
    <2>1. x \in Bumps => RootOf[x] = RootOf[Replaces[x]]
      BY JournalAssumption
    <2>2. x \in Bumps => \A z \in Family(b, Replaces[x]) : RootOf[z] = RootOf[Replaces[x]]
      BY DEF Family
    <2>. QED
      BY <1>1, <2>1, <2>2
  <1>. HIDE DEF except
  <1>4. InputsOf[y] \subseteq Reserved(b, except)
    BY <1>3 DEF Reserved
  <1>. QED
    BY <1>1, <1>2, <1>4

LEMMA IntentIsRecord ==
    ASSUME NEW p \in BOOLEAN
    PROVE  /\ NewIntent(p) \in Record /\ NewIntent(p) # Absent
           /\ NewIntent(p).persistent = p
  <1>1. NewIntent(p) \in Record
    BY DEF NewIntent, Record, Statuses
  <1>2. NewIntent(p).persistent = p
    BY DEF NewIntent
  <1>. QED
    BY <1>1, <1>2, AbsentAssumption

LEMMA InsertIsPeaceful ==
    ASSUME NEW b \in Journal, NEW c \in Journal, NEW x \in Txs, NEW p \in BOOLEAN,
           MayPersist(b, x), c[x] = NewIntent(p),
           \A y \in Txs \ {x} : c[y] = b[y]
    PROVE  /\ Peaceful(b) => Peaceful(c)
           /\ SessionPeaceful(b) => SessionPeaceful(c)
           /\ p /\ Lasting(b) => Lasting(c)
  <1>1. b[x] = Absent /\ c[x] \in Record /\ c[x].persistent = p
    BY DEF MayPersist, NewIntent, Record, Statuses
  <1>2. Recorded(c) = Recorded(b) \cup {x} /\ x \notin Recorded(b)
    BY <1>1, AbsentAssumption DEF Recorded
  <1>3. \A y \in Recorded(b) : c[y] = b[y] /\ (Open(c[y]) => ~Rivals(x, y) /\ ~Rivals(y, x))
    BY <1>2, InsertHasNoRival, RivalsSymmetric DEF Recorded
  <1>4. ~Rivals(x, x)
    BY DEF Rivals, Conflict
  <1>5. Peaceful(b) => Peaceful(c)
    BY <1>2, <1>3, <1>4 DEF Peaceful
  <1>6. SessionPeaceful(b) => SessionPeaceful(c)
    BY <1>2, <1>3, <1>4 DEF SessionPeaceful
  <1>7. p /\ Lasting(b) => Lasting(c)
    BY <1>1, <1>2, <1>3 DEF Lasting
  <1>. QED
    BY <1>5, <1>6, <1>7

---------------------------------------------------------------------------
(* What a step may do to all journals.                                     *)

(* The part of the invariant that is about journals alone.                 *)
BooksInv ==
    /\ book \in [Journals -> Journal]
    /\ backend \in [Tabs -> BOOLEAN]
    /\ DurableIsLasting
    /\ Peaceful(book[Disk])
    /\ \A t \in Tabs : SessionPeaceful(book[t])

LEMMA BooksOfIInv == IInv => BooksInv
  BY DEF IInv, BooksInv, JournalType, NoRivals, SessionNoRivals, Peaceful, SessionPeaceful

LEMMA RivalsOfBooks == BooksInv => NoRivals /\ SessionNoRivals
  BY DEF BooksInv, NoRivals, SessionNoRivals, Peaceful, SessionPeaceful

(* What ReleasedForGood says of a step.                                    *)
DurableStep ==
    \A x \in Txs : book[Disk][x] # Absent =>
        /\ book'[Disk][x] # Absent
        /\ book'[Disk][x].status = "SUBMITTING" => book[Disk][x].status = "SUBMITTING"
        /\ ~Open(book[Disk][x]) /\ Open(book'[Disk][x]) => CameBack(book'[Disk][x])

Remembers(j) == \A y \in Txs : book[j][y] # Absent => book'[j][y] # Absent

LEMMA KeptDurableStep ==
    ASSUME NEW x \in Txs, Kept(book[Disk][x], book'[Disk][x]),
           \A y \in Txs \ {x} : book'[Disk][y] = book[Disk][y]
    PROVE  DurableStep
  <1>. SUFFICES ASSUME NEW y \in Txs, book[Disk][y] # Absent
                PROVE  /\ book'[Disk][y] # Absent
                       /\ book'[Disk][y].status = "SUBMITTING" => book[Disk][y].status = "SUBMITTING"
                       /\ ~Open(book[Disk][y]) /\ Open(book'[Disk][y]) => CameBack(book'[Disk][y])
    BY DEF DurableStep
  <1>1. CASE y = x
    BY <1>1, AbsentAssumption DEF Kept
  <1>2. CASE y # x
    BY <1>2
  <1>. QED
    BY <1>1, <1>2

LEMMA SameDisk ==
    ASSUME book'[Disk] = book[Disk]
    PROVE  DurableStep /\ Remembers(Disk)
  BY DEF DurableStep, Remembers

(* A tab's write of a record that is there, by its compare-and-set.        *)
LEMMA KeptWrite ==
    ASSUME BooksInv, NEW t \in Tabs, NEW x \in Txs, NEW s,
           View(t)[x] # Absent, Kept(View(t)[x], s), Put(t, x, s), backend' = backend
    PROVE  /\ BooksInv'
           /\ DurableStep
           /\ \A j \in Journals : Remembers(j)
  <1>1. /\ s \in Record /\ s # Absent
        /\ book \in [Journals -> Journal] /\ backend \in [Tabs -> BOOLEAN]
        /\ Disk \notin Tabs /\ Disk \in Journals /\ Tabs \subseteq Journals
    BY AbsentAssumption, DiskIsNoTab DEF BooksInv, Kept, Journals
  <1>2. /\ book' \in [Journals -> Journal]
        /\ \A j \in Journals, y \in Txs :
              book'[j][y] = IF y = x /\ (j = JournalOf(t) \/ (j = t /\ t \in Fallible))
                            THEN s ELSE book[j][y]
    BY <1>1 DEF Put, Journal
  <1>3. \A j \in Journals : book[j] \in Journal /\ book'[j] \in Journal
    BY <1>1, <1>2
  <1>4. \A j \in Journals : j # JournalOf(t) /\ j # t => book'[j] = book[j]
    BY <1>2, <1>3 DEF Journal
  <1>5. \A j \in Journals : Remembers(j)
    BY <1>1, <1>2 DEF Remembers
  <1>6. \A u \in Tabs \ {t} : book'[u] = book[u]
    BY <1>1, <1>4 DEF JournalOf
  <1>7. CASE backend[t]
    <2>1. JournalOf(t) = Disk /\ View(t) = book[Disk]
      BY <1>7 DEF View, JournalOf
    <2>2. book'[Disk][x] = s /\ \A y \in Txs \ {x} : book'[Disk][y] = book[Disk][y]
      BY <2>1, <1>1, <1>2
    <2>3. /\ Peaceful(book'[Disk]) /\ Lasting(book'[Disk])
          /\ DurableStep
      BY <2>1, <2>2, <1>1, <1>3, KeptIsPeaceful, KeptDurableStep DEF BooksInv, DurableIsLasting
    <2>4. Lasting(book'[t]) /\ SessionPeaceful(book'[t])
      <3>1. s.persistent
        BY <2>1, <1>1 DEF BooksInv, DurableIsLasting, Lasting, Recorded, Kept
      <3>2. Lasting(book[t])
        BY <1>7 DEF BooksInv, DurableIsLasting
      <3>3. \A y \in Txs : book'[t][y] = s \/ book'[t][y] = book[t][y]
        BY <1>1, <1>2
      <3>4. Lasting(book'[t])
        BY <3>1, <3>2, <3>3 DEF Lasting, Recorded
      <3>. QED
        BY <3>4 DEF Lasting, SessionPeaceful
    <2>5. \A u \in Tabs : SessionPeaceful(book'[u]) /\ (backend'[u] => Lasting(book'[u]))
      BY <2>4, <1>6 DEF BooksInv, DurableIsLasting
    <2>. QED
      BY <1>1, <1>2, <1>5, <2>3, <2>5 DEF BooksInv, DurableIsLasting
  <1>8. CASE ~backend[t]
    <2>1. JournalOf(t) = t /\ View(t) = book[t] /\ t # Disk
      BY <1>8, <1>1 DEF View, JournalOf
    <2>2. book'[Disk] = book[Disk]
      BY <2>1, <1>1, <1>4
    <2>3. book'[t][x] = s /\ \A y \in Txs \ {x} : book'[t][y] = book[t][y]
      BY <2>1, <1>1, <1>2
    <2>4. SessionPeaceful(book'[t])
      BY <2>1, <2>3, <1>1, <1>3, KeptIsPeaceful DEF BooksInv
    <2>5. \A u \in Tabs : SessionPeaceful(book'[u]) /\ (backend'[u] => Lasting(book'[u]))
      BY <2>4, <1>6, <1>8 DEF BooksInv, DurableIsLasting
    <2>. QED
      BY <1>1, <1>2, <1>5, <2>2, <2>5, SameDisk DEF BooksInv, DurableIsLasting
  <1>. QED
    BY <1>7, <1>8, <1>1

(* The insert of an intent into the journal the tab uses.                  *)
LEMMA InsertWrite ==
    ASSUME BooksInv, NEW t \in Tabs, NEW x \in Txs,
           MayPersist(View(t), x), Put(t, x, NewIntent(backend[t])), backend' = backend
    PROVE  /\ BooksInv'
           /\ DurableStep
           /\ \A j \in Journals : Remembers(j)
           /\ book'[JournalOf(t)][x] # Absent
           /\ t \in Fallible => book'[t][x] # Absent
  <1>. DEFINE s == NewIntent(backend[t])
  <1>1. /\ book \in [Journals -> Journal] /\ backend \in [Tabs -> BOOLEAN]
        /\ Disk \notin Tabs /\ Disk \in Journals /\ Tabs \subseteq Journals
        /\ backend[t] \in BOOLEAN
    BY DiskIsNoTab DEF BooksInv, Journals
  <1>2. s \in Record /\ s # Absent /\ s.persistent = backend[t]
    BY <1>1, IntentIsRecord
  <1>. HIDE DEF s
  <1>3. /\ book' \in [Journals -> Journal]
        /\ \A j \in Journals, y \in Txs :
              book'[j][y] = IF y = x /\ (j = JournalOf(t) \/ (j = t /\ t \in Fallible))
                            THEN s ELSE book[j][y]
    BY <1>1, <1>2 DEF Put, Journal, s
  <1>4. \A j \in Journals : book[j] \in Journal /\ book'[j] \in Journal
    BY <1>1, <1>3
  <1>5. \A j \in Journals : j # JournalOf(t) /\ j # t => book'[j] = book[j]
    BY <1>3, <1>4 DEF Journal
  <1>6. /\ \A j \in Journals : Remembers(j)
        /\ t \in Fallible => book'[t][x] # Absent
    BY <1>1, <1>2, <1>3 DEF Remembers
  <1>7. book'[JournalOf(t)][x] # Absent
    BY <1>1, <1>2, <1>3 DEF JournalOf
  <1>8. \A u \in Tabs \ {t} : book'[u] = book[u]
    BY <1>1, <1>5 DEF JournalOf
  <1>9. CASE backend[t]
    <2>1. JournalOf(t) = Disk /\ View(t) = book[Disk]
      BY <1>9 DEF View, JournalOf
    <2>2. book'[Disk][x] = NewIntent(backend[t]) /\ \A y \in Txs \ {x} : book'[Disk][y] = book[Disk][y]
      BY <2>1, <1>1, <1>3 DEF s
    <2>3. Peaceful(book'[Disk]) /\ Lasting(book'[Disk])
      <3>1. /\ book[Disk] \in Journal /\ book'[Disk] \in Journal /\ backend[t] \in BOOLEAN
            /\ MayPersist(book[Disk], x)
        BY <2>1, <1>1, <1>4
      <3>2. /\ Peaceful(book[Disk]) => Peaceful(book'[Disk])
            /\ backend[t] /\ Lasting(book[Disk]) => Lasting(book'[Disk])
        BY <3>1, <2>2, InsertIsPeaceful, Zenon
      <3>. QED
        BY <3>2, <1>9 DEF BooksInv, DurableIsLasting
    <2>4. DurableStep
      <3>1. book[Disk][x] = Absent
        BY <2>1 DEF MayPersist
      <3>2. \A y \in Txs : book[Disk][y] # Absent => book'[Disk][y] = book[Disk][y]
        BY <2>2, <3>1
      <3>. QED
        BY <3>2 DEF DurableStep
    <2>5. Lasting(book'[t]) /\ SessionPeaceful(book'[t])
      <3>1. \A y \in Txs : book'[t][y] = s \/ book'[t][y] = book[t][y]
        BY <1>1, <1>3
      <3>2. Lasting(book'[t])
        BY <1>2, <1>9, <3>1 DEF Lasting, Recorded, BooksInv, DurableIsLasting
      <3>. QED
        BY <3>2 DEF Lasting, SessionPeaceful
    <2>6. \A u \in Tabs : SessionPeaceful(book'[u]) /\ (backend'[u] => Lasting(book'[u]))
      BY <2>5, <1>8 DEF BooksInv, DurableIsLasting
    <2>. QED
      BY <1>1, <1>3, <1>6, <1>7, <2>3, <2>4, <2>6 DEF BooksInv, DurableIsLasting
  <1>10. CASE ~backend[t]
    <2>1. JournalOf(t) = t /\ View(t) = book[t] /\ t # Disk
      BY <1>10, <1>1 DEF View, JournalOf
    <2>2. book'[Disk] = book[Disk]
      BY <2>1, <1>1, <1>5
    <2>3. book'[t][x] = NewIntent(backend[t]) /\ \A y \in Txs \ {x} : book'[t][y] = book[t][y]
      BY <2>1, <1>1, <1>3 DEF s
    <2>4. SessionPeaceful(book'[t])
      <3>1. /\ book[t] \in Journal /\ book'[t] \in Journal /\ backend[t] \in BOOLEAN
            /\ MayPersist(book[t], x)
        BY <2>1, <1>1, <1>4
      <3>2. SessionPeaceful(book[t]) => SessionPeaceful(book'[t])
        BY <3>1, <2>3, InsertIsPeaceful, Zenon
      <3>. QED
        BY <3>2 DEF BooksInv
    <2>5. \A u \in Tabs : SessionPeaceful(book'[u]) /\ (backend'[u] => Lasting(book'[u]))
      BY <2>4, <1>8, <1>10 DEF BooksInv, DurableIsLasting
    <2>. QED
      BY <1>1, <1>3, <1>6, <1>7, <2>2, <2>5, SameDisk DEF BooksInv, DurableIsLasting
  <1>. QED
    BY <1>9, <1>10, <1>1

---------------------------------------------------------------------------
(* What a step may do to the tabs.                                         *)

LeaseType ==
    /\ lease \in [owner : Tabs \cup {Nobody}, live : BOOLEAN]
    /\ lease.live => lease.owner # Nobody

(* A tab that is sending after a step was sending the same before.         *)
Assembles ==
    \A u \in Tabs : job'[u].at \in Sent =>
        /\ job[u].at \in Sent /\ job'[u].tx = job[u].tx
        /\ backend'[u] => backend[u]
        /\ Remembers(u)

LEMMA Assemble ==
    ASSUME IInv, BooksInv', Remembers(Disk), job' \in [Tabs -> Job], LeaseType', JobsNamed', Assembles
    PROVE  IInv'
  <1>1. JournalType' /\ DurableIsLasting' /\ NoRivals' /\ SessionNoRivals'
    <2>1. (BooksInv => NoRivals /\ SessionNoRivals)'
      BY RivalsOfBooks, PTL
    <2>. QED
      BY <2>1 DEF BooksInv, JournalType, LeaseType
  <1>2. SentInBoth'
    <2>. SUFFICES ASSUME NEW u \in Tabs, job'[u].at \in Sent
                  PROVE  /\ backend'[u] => book'[Disk][job'[u].tx] # Absent
                         /\ u \in Fallible => book'[u][job'[u].tx] # Absent
      BY DEF SentInBoth
    <2>1. /\ job[u].at \in Sent /\ job'[u].tx = job[u].tx
          /\ backend'[u] => backend[u]
          /\ Remembers(u)
      BY DEF Assembles
    <2>2. job[u].tx \in Txs
      BY <2>1 DEF IInv, JobsNamed, Sent
    <2>3. /\ backend[u] => book[Disk][job[u].tx] # Absent
          /\ u \in Fallible => book[u][job[u].tx] # Absent
      BY <2>1 DEF IInv, SentInBoth
    <2>. QED
      BY <2>1, <2>2, <2>3 DEF Remembers
  <1>. QED
    BY <1>1, <1>2 DEF IInv

LEMMA LeaseOfIInv == IInv => LeaseType
  BY DEF IInv, JournalType, LeaseType

LEMMA IdleIsJob == Idle \in Job /\ Idle.at = "idle"
  BY DEF Idle, Job, Stages

LEMMA ReleaseFacts ==
    ASSUME LeaseType, NEW t \in Tabs, Release(t)
    PROVE  LeaseType'
  BY DEF LeaseType, Release, Free

(* Only tab t's job moves.                                                 *)
LEMMA StopFacts ==
    ASSUME IInv, NEW t \in Tabs, job' = [job EXCEPT ![t] = Idle]
    PROVE  /\ job' \in [Tabs -> Job] /\ JobsNamed'
           /\ job'[t].at \notin Sent
           /\ \A u \in Tabs \ {t} : job'[u] = job[u]
  BY IdleIsJob DEF IInv, JournalType, JobsNamed, Sent

LEMMA GoFacts ==
    ASSUME IInv, NEW t \in Tabs, job[t].tx \in Txs, NEW at \in Stages,
           at = "mark" => job[t].tx \in Bumps, Go(t, at)
    PROVE  /\ job' \in [Tabs -> Job] /\ JobsNamed'
           /\ job'[t].at = at /\ job'[t].tx = job[t].tx
           /\ \A u \in Tabs \ {t} : job'[u] = job[u]
  <1>1. job \in [Tabs -> Job] /\ job' = [job EXCEPT ![t].at = at]
    BY DEF IInv, JournalType, Go
  <1>2. /\ job' \in [Tabs -> Job]
        /\ job'[t].at = at /\ job'[t].tx = job[t].tx
        /\ \A u \in Tabs \ {t} : job'[u] = job[u]
    BY <1>1 DEF Job
  <1>. QED
    BY <1>2 DEF IInv, JobsNamed

(* A step that writes no journal, and lets no tab begin to send.           *)
LEMMA NoWrite ==
    ASSUME IInv, UNCHANGED <<book, backend>>, job' \in [Tabs -> Job], LeaseType', JobsNamed',
           \A u \in Tabs : job'[u].at \in Sent => job[u].at \in Sent /\ job'[u].tx = job[u].tx
    PROVE  IInv' /\ DurableStep
  <1>1. BooksInv'
    BY BooksOfIInv DEF BooksInv, DurableIsLasting
  <1>2. Assembles /\ Remembers(Disk) /\ DurableStep
    BY DEF Assembles, Remembers, DurableStep
  <1>. QED
    BY <1>1, <1>2, Assemble

(* A write of a record that is there, by a tab whose job does not begin to *)
(* send by it.                                                             *)
LEMMA WriteStep ==
    ASSUME IInv, NEW t \in Tabs, NEW x \in Txs, NEW s,
           View(t)[x] # Absent, Kept(View(t)[x], s), Put(t, x, s), backend' = backend,
           job' \in [Tabs -> Job], LeaseType', JobsNamed',
           \A u \in Tabs : job'[u].at \in Sent => job[u].at \in Sent /\ job'[u].tx = job[u].tx
    PROVE  IInv' /\ DurableStep
  <1>1. BooksInv' /\ DurableStep /\ \A j \in Journals : Remembers(j)
    BY BooksOfIInv, KeptWrite
  <1>2. Assembles /\ Remembers(Disk)
    BY <1>1 DEF Assembles, Journals
  <1>. QED
    BY <1>1, <1>2, Assemble

---------------------------------------------------------------------------
(* One lemma for each step of execute().                                   *)

(* A tab whose store works may copy the durable journal, or a record of    *)
(* it, into its own.                                                       *)
CopiesFrom(t) ==
    \/ book' = book
    \/ backend[t] /\ book' = [book EXCEPT ![t] = book[Disk]]
    \/ backend[t] /\ \E x \in Txs : book' = [book EXCEPT ![t][x] = book[Disk][x]]

LEMMA CopyStep ==
    ASSUME IInv, NEW t \in Tabs, CopiesFrom(t), backend' = backend,
           job' \in [Tabs -> Job], JobsNamed', LeaseType', job'[t].at \notin Sent,
           \A u \in Tabs \ {t} : job'[u] = job[u]
    PROVE  IInv' /\ DurableStep
  <1>1. BooksInv /\ Disk \in Journals /\ t \in Journals /\ t # Disk
    BY BooksOfIInv, DiskIsNoTab DEF Journals
  <1>2. book \in [Journals -> Journal] /\ Lasting(book[Disk]) /\ (backend[t] => Lasting(book[t]))
    BY <1>1 DEF BooksInv, DurableIsLasting
  <1>3. /\ book' \in [Journals -> Journal] /\ book'[Disk] = book[Disk]
        /\ \A u \in Tabs \ {t} : book'[u] = book[u]
        /\ book'[t] = book[t] \/ (backend[t] /\ Lasting(book'[t]))
    <2>1. CASE book' = book
      BY <1>2, <2>1
    <2>2. CASE backend[t] /\ book' = [book EXCEPT ![t] = book[Disk]]
      BY <1>1, <1>2, <2>2 DEF Journals
    <2>3. ASSUME NEW x \in Txs, backend[t], book' = [book EXCEPT ![t][x] = book[Disk][x]]
          PROVE  /\ book' \in [Journals -> Journal] /\ book'[Disk] = book[Disk]
                 /\ \A u \in Tabs \ {t} : book'[u] = book[u]
                 /\ Lasting(book'[t])
      <3>1. /\ book' \in [Journals -> Journal] /\ book'[Disk] = book[Disk]
            /\ \A u \in Tabs \ {t} : book'[u] = book[u]
            /\ book'[t] = [book[t] EXCEPT ![x] = book[Disk][x]]
        BY <1>1, <1>2, <2>3 DEF Journals, Journal
      <3>2. \A y \in Txs : book'[t][y] = IF y = x THEN book[Disk][x] ELSE book[t][y]
        BY <1>1, <1>2, <3>1 DEF Journal
      <3>. QED
        BY <1>2, <2>3, <3>1, <3>2 DEF Lasting, Recorded
    <2>. QED
      BY <2>1, <2>2, <2>3 DEF CopiesFrom
  <1>4. \A u \in Tabs : SessionPeaceful(book'[u]) /\ (backend'[u] => Lasting(book'[u]))
    BY <1>1, <1>2, <1>3 DEF BooksInv, DurableIsLasting, Lasting, SessionPeaceful
  <1>5. BooksInv'
    BY <1>1, <1>3, <1>4 DEF BooksInv, DurableIsLasting
  <1>6. Assembles /\ Remembers(Disk) /\ DurableStep
    BY <1>1, <1>3, SameDisk DEF Assembles, Remembers
  <1>. QED
    BY <1>5, <1>6, Assemble

LEMMA PlanStep ==
    ASSUME IInv, NEW t \in Tabs, NEW x \in Txs, Plan(t, x)
    PROVE  IInv' /\ DurableStep
  <1>. DEFINE new == [Idle EXCEPT !.at = "plan", !.tx = x]
  <1>1. /\ new \in Job /\ new.at = "plan" /\ new.tx = x
    BY DEF Idle, Job, Stages
  <1>2. /\ job' = job \/ job' = [job EXCEPT ![t] = new]
        /\ job \in [Tabs -> Job] /\ job[t] = Idle
    BY DEF Plan, IInv, JournalType
  <1>. HIDE DEF new
  <1>3. /\ job' \in [Tabs -> Job] /\ (job'[t] = new \/ job'[t] = Idle)
        /\ \A u \in Tabs \ {t} : job'[u] = job[u]
    BY <1>1, <1>2
  <1>4. JobsNamed'
    BY <1>1, <1>3, IdleIsJob DEF IInv, JobsNamed
  <1>5. LeaseType' /\ backend' = backend
    BY LeaseOfIInv DEF Plan, LeaseType
  <1>6. job'[t].at \notin Sent
    BY <1>1, <1>3, IdleIsJob DEF Sent
  <1>7. CopiesFrom(t)
    <2>1. x \in Bumps => Replaces[x] \in Txs
      BY JournalAssumption
    <2>2. book' = IF x \in Bumps THEN Fetched(t, Replaces[x]) ELSE Listed(t)
      BY DEF Plan
    <2>. QED
      BY <2>1, <2>2 DEF CopiesFrom, Fetched, Listed
  <1>. QED
    BY <1>3, <1>4, <1>5, <1>6, <1>7, CopyStep

LEMMA ForgetStep ==
    ASSUME IInv, NEW t \in Tabs, Forget(t)
    PROVE  IInv' /\ DurableStep
  <1>1. /\ job' \in [Tabs -> Job] /\ JobsNamed' /\ job'[t].at \notin Sent
        /\ \A u \in Tabs \ {t} : job'[u] = job[u]
    BY StopFacts DEF Forget
  <1>2. LeaseType' /\ UNCHANGED <<book, backend>>
    BY LeaseOfIInv DEF Forget, LeaseType
  <1>. QED
    BY <1>1, <1>2, NoWrite

LEMMA BeginStep ==
    ASSUME IInv, NEW t \in Tabs, Begin(t)
    PROVE  IInv' /\ DurableStep
  <1>1. job[t].tx \in Txs /\ Go(t, "check")
    BY DEF Begin, IInv, JobsNamed
  <1>2. /\ job' \in [Tabs -> Job] /\ JobsNamed' /\ job'[t].at \notin Sent
        /\ \A u \in Tabs \ {t} : job'[u] = job[u]
    BY <1>1, GoFacts DEF Stages, Sent
  <1>3. LeaseType'
    BY LeaseOfIInv, JournalAssumption DEF Begin, LeaseType
  <1>. QED
    BY <1>2, <1>3, NoWrite DEF Begin

LEMMA CheckStep ==
    ASSUME IInv, NEW t \in Tabs, Check(t)
    PROVE  IInv' /\ DurableStep
  <1>1. job[t].at = "check" /\ job[t].tx \in Txs /\ backend' = backend
    BY DEF Check, IInv, JobsNamed
  <1>2. (Go(t, "sign") /\ lease' = lease) \/ Stop(t)
    BY DEF Check
  <1>3. /\ job' \in [Tabs -> Job] /\ JobsNamed' /\ LeaseType'
        /\ job'[t].at \notin Sent
        /\ \A u \in Tabs \ {t} : job'[u] = job[u]
    <2>1. CASE Go(t, "sign") /\ lease' = lease
      BY <2>1, <1>1, GoFacts, LeaseOfIInv DEF Stages, Sent, LeaseType
    <2>2. CASE Stop(t)
      BY <2>2, StopFacts, ReleaseFacts, LeaseOfIInv DEF Stop
    <2>. QED
      BY <1>2, <2>1, <2>2
  <1>4. CopiesFrom(t)
    BY DEF Check, Listed, CopiesFrom
  <1>. QED
    BY <1>1, <1>3, <1>4, CopyStep

LEMMA PersistStep ==
    ASSUME IInv, NEW t \in Tabs, Persist(t)
    PROVE  IInv' /\ DurableStep
  <1>1. /\ job[t].at = "sign" /\ job[t].tx \in Txs /\ backend' = backend /\ lease' = lease
        /\ MayPersist(View(t), job[t].tx)
        /\ Put(t, job[t].tx, NewIntent(backend[t]))
        /\ Go(t, "send")
    BY DEF Persist, IInv, JobsNamed
  <1>2. /\ BooksInv' /\ DurableStep /\ \A j \in Journals : Remembers(j)
        /\ book'[JournalOf(t)][job[t].tx] # Absent
        /\ t \in Fallible => book'[t][job[t].tx] # Absent
    BY <1>1, BooksOfIInv, InsertWrite
  <1>3. /\ job' \in [Tabs -> Job] /\ JobsNamed'
        /\ job'[t].tx = job[t].tx
        /\ \A u \in Tabs \ {t} : job'[u] = job[u]
    BY <1>1, GoFacts DEF Stages
  <1>4. LeaseType'
    BY <1>1, LeaseOfIInv DEF LeaseType
  <1>5. SentInBoth'
    <2>. SUFFICES ASSUME NEW u \in Tabs, job'[u].at \in Sent
                  PROVE  /\ backend'[u] => book'[Disk][job'[u].tx] # Absent
                         /\ u \in Fallible => book'[u][job'[u].tx] # Absent
      BY DEF SentInBoth
    <2>1. CASE u = t
      BY <2>1, <1>1, <1>2, <1>3 DEF JournalOf
    <2>2. CASE u # t
      <3>1. job'[u] = job[u] /\ job[u].at \in Sent /\ job[u].tx \in Txs
        BY <2>2, <1>3 DEF IInv, JobsNamed, Sent
      <3>2. /\ backend[u] => book[Disk][job[u].tx] # Absent
            /\ u \in Fallible => book[u][job[u].tx] # Absent
        BY <3>1 DEF IInv, SentInBoth
      <3>. QED
        BY <1>1, <1>2, <3>1, <3>2 DEF Remembers, Journals
    <2>. QED
      BY <2>1, <2>2
  <1>6. NoRivals' /\ SessionNoRivals'
    <2>1. (BooksInv => NoRivals /\ SessionNoRivals)'
      BY RivalsOfBooks, PTL
    <2>. QED
      BY <1>2, <2>1
  <1>. QED
    BY <1>2, <1>3, <1>4, <1>5, <1>6 DEF IInv, JournalType, LeaseType, BooksInv

(* The store fails at the insert: each of the two journals is inspected    *)
(* before it takes the intent.                                             *)
LEMMA FallbackStep ==
    ASSUME IInv, NEW t \in Tabs, PersistFallback(t)
    PROVE  IInv' /\ DurableStep
  <1>. DEFINE x == job[t].tx
              kept == MayPersist(book[t], x)
  <1>1. /\ job[t].at = "sign" /\ x \in Txs /\ t \in Fallible /\ backend[t]
        /\ backend' = [backend EXCEPT ![t] = FALSE] /\ lease' = lease
        /\ job' = IF kept THEN [job EXCEPT ![t].at = "send"] ELSE [job EXCEPT ![t] = Idle]
    BY DEF PersistFallback, UsesBackendAfterFailure, IInv, JobsNamed
  <1>2. PICK committed \in {FALSE} \cup {Held(t) /\ MayPersist(book[Disk], x)} :
           book' = [book EXCEPT ![Disk][x] = IF committed THEN NewIntent(TRUE) ELSE @,
                                ![t][x] = IF kept THEN NewIntent(FALSE) ELSE @]
    BY DEF PersistFallback
  <1>. HIDE DEF x, kept
  <1>3. committed => MayPersist(book[Disk], x)
    BY <1>2
  <1>4. /\ BooksInv /\ Disk \in Journals /\ t \in Journals /\ t # Disk
        /\ Tabs \subseteq Journals /\ Disk \notin Tabs
        /\ book \in [Journals -> Journal] /\ backend \in [Tabs -> BOOLEAN]
        /\ NewIntent(TRUE) \in Record /\ NewIntent(FALSE) \in Record
        /\ NewIntent(TRUE) # Absent /\ NewIntent(FALSE) # Absent
    BY BooksOfIInv, DiskIsNoTab, IntentIsRecord DEF Journals, BooksInv
  <1>5. /\ book' \in [Journals -> Journal]
        /\ \A j \in Journals \ {Disk, t} : book'[j] = book[j]
        /\ \A y \in Txs \ {x} : book'[Disk][y] = book[Disk][y] /\ book'[t][y] = book[t][y]
        /\ book'[Disk][x] = IF committed THEN NewIntent(TRUE) ELSE book[Disk][x]
        /\ book'[t][x] = IF kept THEN NewIntent(FALSE) ELSE book[t][x]
    BY <1>1, <1>2, <1>4 DEF Journal
  <1>6. \A j \in Journals : book[j] \in Journal /\ book'[j] \in Journal
    BY <1>4, <1>5
  <1>7. \A j \in Journals : Remembers(j)
    BY <1>4, <1>5 DEF Remembers
  <1>8. /\ Peaceful(book'[Disk]) /\ Lasting(book'[Disk]) /\ DurableStep
    <2>1. CASE committed
      <3>1. /\ MayPersist(book[Disk], x) /\ book'[Disk][x] = NewIntent(TRUE)
            /\ book[Disk][x] = Absent
        BY <2>1, <1>3, <1>5 DEF MayPersist
      <3>2. /\ Peaceful(book[Disk]) => Peaceful(book'[Disk])
            /\ TRUE /\ Lasting(book[Disk]) => Lasting(book'[Disk])
        BY <3>1, <1>1, <1>4, <1>5, <1>6, InsertIsPeaceful
      <3>3. \A y \in Txs : book[Disk][y] # Absent => book'[Disk][y] = book[Disk][y]
        BY <3>1, <1>5
      <3>. QED
        BY <3>2, <3>3, <1>4 DEF BooksInv, DurableIsLasting, DurableStep
    <2>2. CASE ~committed
      <3>1. \A y \in Txs : book'[Disk][y] = book[Disk][y]
        BY <2>2, <1>5
      <3>2. book'[Disk] = book[Disk]
        BY <3>1, <1>4, <1>6 DEF Journal
      <3>. QED
        BY <3>2, <1>4, SameDisk DEF BooksInv, DurableIsLasting
    <2>. QED
      BY <2>1, <2>2
  <1>9. SessionPeaceful(book'[t])
    <2>1. CASE kept
      <3>1. MayPersist(book[t], x) /\ book'[t][x] = NewIntent(FALSE)
        BY <2>1, <1>5 DEF kept
      <3>2. SessionPeaceful(book[t]) => SessionPeaceful(book'[t])
        BY <3>1, <1>1, <1>4, <1>5, <1>6, InsertIsPeaceful
      <3>. QED
        BY <3>2, <1>4 DEF BooksInv
    <2>2. CASE ~kept
      <3>1. \A y \in Txs : book'[t][y] = book[t][y]
        BY <2>2, <1>5
      <3>2. book'[t] = book[t]
        BY <3>1, <1>4, <1>6 DEF Journal
      <3>. QED
        BY <3>2, <1>4 DEF BooksInv
    <2>. QED
      BY <2>1, <2>2
  <1>10. BooksInv'
    <2>1. /\ backend' \in [Tabs -> BOOLEAN] /\ ~backend'[t]
          /\ \A u \in Tabs \ {t} : backend'[u] = backend[u] /\ book'[u] = book[u]
      BY <1>1, <1>4, <1>5
    <2>2. \A u \in Tabs : /\ SessionPeaceful(book'[u])
                          /\ backend'[u] => Lasting(book'[u])
                          /\ ~backend'[u] => u \in Fallible
      BY <2>1, <1>1, <1>4, <1>9 DEF BooksInv, DurableIsLasting
    <2>. QED
      BY <2>1, <2>2, <1>5, <1>8 DEF BooksInv, DurableIsLasting
  <1>11. LeaseType'
    BY <1>1, LeaseOfIInv DEF LeaseType
  <1>12. CASE ~kept
    <2>1. /\ job' \in [Tabs -> Job] /\ JobsNamed' /\ job'[t].at \notin Sent
          /\ \A u \in Tabs \ {t} : job'[u] = job[u]
      BY <1>1, <1>12, StopFacts
    <2>2. Assembles
      <3>1. \A u \in Tabs \ {t} : backend'[u] = backend[u]
        BY <1>1, <1>4
      <3>. QED
        BY <2>1, <3>1, <1>4, <1>7 DEF Assembles
    <2>. QED
      BY <2>1, <2>2, <1>4, <1>7, <1>8, <1>10, <1>11, Assemble
  <1>13. CASE kept
    <2>1. /\ job' \in [Tabs -> Job] /\ JobsNamed' /\ job'[t].tx = x
          /\ \A u \in Tabs \ {t} : job'[u] = job[u]
      BY <1>1, <1>13, GoFacts DEF Go, Stages, x
    <2>2. SentInBoth'
      <3>. SUFFICES ASSUME NEW u \in Tabs, job'[u].at \in Sent
                    PROVE  /\ backend'[u] => book'[Disk][job'[u].tx] # Absent
                           /\ u \in Fallible => book'[u][job'[u].tx] # Absent
        BY DEF SentInBoth
      <3>1. CASE u = t
        <4>1. ~backend'[t] /\ book'[t][x] # Absent
          BY <1>1, <1>4, <1>5, <1>13
        <4>. QED
          BY <3>1, <4>1, <2>1
      <3>2. CASE u # t
        <4>1. /\ job'[u] = job[u] /\ job[u].at \in Sent /\ job[u].tx \in Txs
              /\ backend'[u] = backend[u]
          BY <3>2, <2>1, <1>1, <1>4 DEF IInv, JobsNamed, Sent
        <4>2. /\ backend[u] => book[Disk][job[u].tx] # Absent
              /\ u \in Fallible => book[u][job[u].tx] # Absent
          BY <4>1 DEF IInv, SentInBoth
        <4>. QED
          BY <1>4, <1>7, <4>1, <4>2 DEF Remembers
      <3>. QED
        BY <3>1, <3>2
    <2>3. NoRivals' /\ SessionNoRivals'
      <3>1. (BooksInv => NoRivals /\ SessionNoRivals)'
        BY RivalsOfBooks, PTL
      <3>. QED
        BY <1>10, <3>1
    <2>. QED
      BY <2>1, <2>2, <2>3, <1>8, <1>10, <1>11 DEF IInv, JournalType, LeaseType, BooksInv
  <1>. QED
    BY <1>12, <1>13

LEMMA AbandonStep ==
    ASSUME IInv, NEW t \in Tabs, Abandon(t)
    PROVE  IInv' /\ DurableStep
  <1>1. job' = [job EXCEPT ![t] = Idle] /\ Release(t) /\ UNCHANGED <<book, backend>>
    BY DEF Abandon, Stop
  <1>2. /\ job' \in [Tabs -> Job] /\ JobsNamed' /\ job'[t].at \notin Sent
        /\ \A u \in Tabs \ {t} : job'[u] = job[u]
    BY <1>1, StopFacts
  <1>3. LeaseType'
    BY <1>1, LeaseOfIInv, ReleaseFacts
  <1>. QED
    BY <1>1, <1>2, <1>3, NoWrite

LEMMA SendStep ==
    ASSUME IInv, NEW t \in Tabs, Send(t)
    PROVE  IInv' /\ DurableStep
  <1>1. PICK result \in {"SUBMITTED", "UNKNOWN", "REJECTED"} :
           job' = [job EXCEPT ![t].at = "result", ![t].result = result]
    BY DEF Send
  <1>2. /\ job[t].at = "send" /\ job \in [Tabs -> Job] /\ job[t].tx \in Txs
        /\ UNCHANGED <<book, backend, lease>>
    BY DEF Send, IInv, JournalType, JobsNamed
  <1>3. /\ job' \in [Tabs -> Job]
        /\ job'[t].at = "result" /\ job'[t].tx = job[t].tx
        /\ \A u \in Tabs \ {t} : job'[u] = job[u]
    BY <1>1, <1>2 DEF Job, Stages
  <1>4. JobsNamed'
    BY <1>2, <1>3 DEF IInv, JobsNamed
  <1>5. LeaseType'
    BY <1>2, LeaseOfIInv DEF LeaseType
  <1>6. \A u \in Tabs : job'[u].at \in Sent => job[u].at \in Sent /\ job'[u].tx = job[u].tx
    BY <1>2, <1>3 DEF Sent
  <1>. QED
    BY <1>2, <1>3, <1>4, <1>5, <1>6, NoWrite

LEMMA OutcomeStep ==
    ASSUME IInv, NEW t \in Tabs, Outcome(t)
    PROVE  IInv' /\ DurableStep
  <1>. DEFINE x == job[t].tx
              r == View(t)[x]
              s == [r EXCEPT !.status = IF job[t].result = "REJECTED" THEN "REJECTED" ELSE "TRACKED"]
  <1>1. /\ job[t].at = "result" /\ x \in Txs /\ backend' = backend
        /\ IF WinsOutcome(r) THEN Put(t, x, s) ELSE UNCHANGED book
        /\ IF MarksItsTarget(t) THEN Go(t, "mark") /\ UNCHANGED lease ELSE Stop(t)
    BY DEF Outcome, IInv, JobsNamed
  <1>2. /\ job' \in [Tabs -> Job] /\ JobsNamed' /\ LeaseType'
        /\ \A u \in Tabs : job'[u].at \in Sent => job[u].at \in Sent /\ job'[u].tx = job[u].tx
    <2>1. CASE MarksItsTarget(t)
      <3>1. x \in Bumps /\ Go(t, "mark") /\ lease' = lease
        BY <2>1, <1>1 DEF MarksItsTarget
      <3>2. /\ job' \in [Tabs -> Job] /\ JobsNamed' /\ job'[t].tx = job[t].tx
            /\ \A u \in Tabs \ {t} : job'[u] = job[u]
        BY <3>1, <1>1, GoFacts DEF Stages
      <3>3. LeaseType'
        BY <3>1, LeaseOfIInv DEF LeaseType
      <3>. QED
        BY <1>1, <3>2, <3>3 DEF Sent
    <2>2. CASE ~MarksItsTarget(t)
      <3>1. job' = [job EXCEPT ![t] = Idle] /\ Release(t)
        BY <2>2, <1>1 DEF Stop
      <3>. QED
        BY <3>1, StopFacts, ReleaseFacts, LeaseOfIInv
    <2>. QED
      BY <2>1, <2>2
  <1>3. CASE WinsOutcome(r)
    <2>1. r # Absent /\ r.status = "SUBMITTING" /\ r \in Record
      BY <1>1, <1>3, ViewType DEF WinsOutcome, IInv, Recorded
    <2>2. Kept(r, s)
      BY <2>1, AbsentAssumption DEF Kept, Record, Statuses, CameBack, Open, Released
    <2>. HIDE DEF x, s
    <2>. QED
      BY <1>1, <1>2, <1>3, <2>1, <2>2, WriteStep
  <1>4. CASE ~WinsOutcome(r)
    BY <1>1, <1>2, <1>4, NoWrite
  <1>. QED
    BY <1>3, <1>4

(* A record the pointer finds released is opened again, and says so.       *)
LEMMA MarkStep ==
    ASSUME IInv, NEW t \in Tabs, Mark(t)
    PROVE  IInv' /\ DurableStep
  <1>. DEFINE old == Replaces[job[t].tx]
              r == View(t)[old]
              s == [r EXCEPT !.status = "REPLACED", !.replacedBy = job[t].tx,
                             !.reopened = @ \/ ~Open(r)]
  <1>1. /\ job[t].tx \in Bumps /\ old \in Txs /\ job[t].tx \in Txs
        /\ backend' = backend /\ job' = [job EXCEPT ![t] = Idle] /\ Release(t)
        /\ \/ book' = book
           \/ r # Absent /\ Put(t, old, s)
    BY JournalAssumption DEF Mark, Stop, IInv, JobsNamed, Bumps
  <1>2. /\ job' \in [Tabs -> Job] /\ JobsNamed' /\ job'[t].at \notin Sent
        /\ \A u \in Tabs \ {t} : job'[u] = job[u]
    BY <1>1, StopFacts
  <1>3. LeaseType'
    BY <1>1, LeaseOfIInv, ReleaseFacts
  <1>4. CASE book' = book
    BY <1>1, <1>2, <1>3, <1>4, NoWrite
  <1>5. CASE r # Absent /\ Put(t, old, s)
    <2>1. r \in Record
      BY <1>1, <1>5, ViewType DEF IInv, Recorded
    <2>2. Open(r) \in BOOLEAN
      BY DEF Open
    <2>3. /\ s \in Record /\ s.persistent = r.persistent /\ s.status = "REPLACED"
          /\ s.seen = r.seen /\ s.reopened = (r.reopened \/ ~Open(r))
      BY <1>1, <2>1, <2>2 DEF Record, Statuses
    <2>4. Kept(r, s)
      BY <2>3 DEF Kept, CameBack
    <2>. HIDE DEF old, s
    <2>. QED
      BY <1>1, <1>2, <1>3, <1>5, <2>4, WriteStep
  <1>. QED
    BY <1>1, <1>4, <1>5

---------------------------------------------------------------------------
(* The tracker's writes, and what is neither the tracker's nor execute()'s.*)

LEMMA TrackStep ==
    ASSUME IInv, NEW t \in Tabs, NEW x \in Recorded(View(t)), NEW s,
           Kept(View(t)[x], s), Track(t, x, s)
    PROVE  IInv' /\ DurableStep
  <1>1. /\ x \in Txs /\ View(t)[x] # Absent
        /\ Put(t, x, s) /\ backend' = backend /\ job' = job /\ lease' = lease
    BY DEF Recorded, Track
  <1>2. job' \in [Tabs -> Job] /\ JobsNamed' /\ LeaseType'
    BY <1>1, LeaseOfIInv DEF IInv, JournalType, JobsNamed, LeaseType
  <1>. QED
    BY <1>1, <1>2, WriteStep

LEMMA TrackerStep ==
    ASSUME IInv, NEW t \in Tabs, NEW x \in Recorded(View(t)),
           \/ Reconcile(t, x) \/ Lose(t, x) \/ Resend(t, x)
           \/ Revive(t, x) \/ SettleFamily(t, x) \/ Archive(t, x)
    PROVE  IInv' /\ DurableStep
  <1>. DEFINE r == View(t)[x]
  <1>1. r \in Record /\ r # Absent
    BY ViewType DEF IInv, Recorded
  <1>2. CASE Reconcile(t, x)
    <2>1. CASE Track(t, x, [r EXCEPT !.status = "ACCEPTED", !.seen = TRUE])
      <3>. DEFINE s == [r EXCEPT !.status = "ACCEPTED", !.seen = TRUE]
      <3>1. Kept(r, s)
        BY <1>1 DEF Kept, Record, Statuses, CameBack
      <3>. HIDE DEF s
      <3>. QED
        BY <2>1, <3>1, TrackStep DEF s
    <2>2. CASE r.status \in {"SUBMITTING", "ACCEPTED"} /\ Track(t, x, [r EXCEPT !.status = "TRACKED"])
      <3>. DEFINE s == [r EXCEPT !.status = "TRACKED"]
      <3>1. Kept(r, s)
        BY <1>1, <2>2 DEF Kept, Record, Statuses, CameBack, Open, Released
      <3>. HIDE DEF s
      <3>. QED
        BY <2>2, <3>1, TrackStep DEF s
    <2>. QED
      BY <1>2, <2>1, <2>2 DEF Reconcile
  <1>3. CASE Revive(t, x)
    <2>. DEFINE s == [r EXCEPT !.status = "TRACKED", !.replacedBy = NoTx]
    <2>1. r.status = "REPLACED" /\ Track(t, x, s)
      BY <1>3 DEF Revive
    <2>2. Kept(r, s)
      BY <1>1, <2>1 DEF Kept, Record, Statuses, CameBack, Open, Released
    <2>. HIDE DEF s
    <2>. QED
      BY <2>1, <2>2, TrackStep
  <1>4. ASSUME NEW status \in Released, Track(t, x, [r EXCEPT !.status = status])
        PROVE  IInv' /\ DurableStep
    <2>. DEFINE s == [r EXCEPT !.status = status]
    <2>1. Kept(r, s)
      BY <1>1 DEF Kept, Record, Statuses, CameBack, Open, Released
    <2>. HIDE DEF s
    <2>. QED
      BY <1>4, <2>1, TrackStep DEF s
  <1>5. CASE Lose(t, x) \/ Resend(t, x) \/ SettleFamily(t, x) \/ Archive(t, x)
    BY <1>4, <1>5 DEF Lose, Resend, SettleFamily, Archive, Released
  <1>. QED
    BY <1>2, <1>3, <1>5

LEMMA LapseStep ==
    ASSUME IInv, Lapse
    PROVE  IInv' /\ DurableStep
  BY LeaseOfIInv, NoWrite DEF Lapse, Free, LeaseType, IInv, JournalType, JobsNamed

(* A tab that gives the durable journal up finds in its copy what it sent. *)
LEMMA DegradeStep ==
    ASSUME IInv, NEW t \in Tabs, Degrade(t)
    PROVE  IInv' /\ DurableStep
  <1>1. /\ t \in Fallible /\ backend' = [backend EXCEPT ![t] = FALSE]
        /\ book' = book /\ job' = job /\ lease' = lease
        /\ backend \in [Tabs -> BOOLEAN]
    BY DEF Degrade, UsesBackendAfterFailure, IInv, JournalType
  <1>2. \A u \in Tabs : (backend'[u] => backend[u]) /\ (~backend'[u] => ~backend[u] \/ u \in Fallible)
    BY <1>1
  <1>3. BooksInv'
    BY <1>1, <1>2, BooksOfIInv DEF BooksInv, DurableIsLasting
  <1>4. Assembles /\ Remembers(Disk) /\ DurableStep
    BY <1>1, <1>2 DEF Assembles, Remembers, DurableStep
  <1>5. job' \in [Tabs -> Job] /\ JobsNamed' /\ LeaseType'
    BY <1>1, LeaseOfIInv DEF IInv, JournalType, JobsNamed, LeaseType
  <1>. QED
    BY <1>3, <1>4, <1>5, Assemble

LEMMA ReloadStep ==
    ASSUME IInv, NEW t \in Tabs, Reload(t)
    PROVE  IInv' /\ DurableStep
  <1>1. PICK opened \in {TRUE} \cup (IF t \in Fallible THEN {FALSE} ELSE {}) :
           /\ backend' = [backend EXCEPT ![t] = opened]
           /\ book' = [book EXCEPT ![t] = IF opened /\ t \in Fallible THEN book[Disk] ELSE Empty]
    BY DEF Reload
  <1>2. /\ opened \in BOOLEAN /\ (~opened => t \in Fallible)
        /\ BooksInv /\ Disk \in Journals /\ t \in Journals /\ t # Disk
        /\ job' = [job EXCEPT ![t] = Idle] /\ lease' = lease
    BY <1>1, BooksOfIInv, DiskIsNoTab DEF Journals, Reload
  <1>3. /\ Empty \in Journal /\ Lasting(Empty) /\ SessionPeaceful(Empty)
    BY DEF Empty, Journal, Lasting, SessionPeaceful, Recorded
  <1>4. /\ book' \in [Journals -> Journal] /\ book'[Disk] = book[Disk]
        /\ book'[t] = Empty \/ book'[t] = book[Disk]
        /\ \A u \in Tabs \ {t} : book'[u] = book[u]
    BY <1>1, <1>2, <1>3 DEF BooksInv, Journals
  <1>5. /\ backend' \in [Tabs -> BOOLEAN] /\ backend'[t] = opened
        /\ \A u \in Tabs \ {t} : backend'[u] = backend[u]
    BY <1>1, <1>2 DEF BooksInv
  <1>6. Lasting(book'[t]) /\ SessionPeaceful(book'[t])
    BY <1>2, <1>3, <1>4 DEF BooksInv, DurableIsLasting, Lasting, SessionPeaceful
  <1>7. \A u \in Tabs : /\ SessionPeaceful(book'[u])
                        /\ backend'[u] => Lasting(book'[u])
                        /\ ~backend'[u] => u \in Fallible
    BY <1>2, <1>4, <1>5, <1>6 DEF BooksInv, DurableIsLasting
  <1>8. BooksInv'
    BY <1>2, <1>4, <1>5, <1>7 DEF BooksInv, DurableIsLasting
  <1>9. /\ job' \in [Tabs -> Job] /\ JobsNamed' /\ job'[t].at \notin Sent
        /\ \A u \in Tabs \ {t} : job'[u] = job[u]
    BY <1>2, StopFacts
  <1>10. Assembles /\ Remembers(Disk) /\ DurableStep
    BY <1>4, <1>5, <1>9, SameDisk DEF Assembles, Remembers
  <1>11. LeaseType'
    BY <1>2, LeaseOfIInv DEF LeaseType
  <1>. QED
    BY <1>8, <1>9, <1>10, <1>11, Assemble

---------------------------------------------------------------------------
(* The specification.                                                      *)

LEMMA InitIInv == Init => IInv
  <1>. SUFFICES ASSUME Init PROVE IInv
    OBVIOUS
  <1>1. Empty \in Journal /\ Recorded(Empty) = {}
    BY DEF Empty, Journal, Recorded
  <1>2. /\ book \in [Journals -> Journal]
        /\ \A j \in Journals : book[j] = Empty
    BY <1>1 DEF Init, Journals
  <1>3. JournalType
    BY <1>2, IdleIsJob, JournalAssumption DEF JournalType, Init, Free
  <1>4. JobsNamed /\ SentInBoth
    BY IdleIsJob DEF Init, JobsNamed, SentInBoth, Sent
  <1>5. DurableIsLasting /\ NoRivals /\ SessionNoRivals
    BY <1>1, <1>2 DEF Init, DurableIsLasting, Lasting, NoRivals, SessionNoRivals, Journals
  <1>. QED
    BY <1>3, <1>4, <1>5 DEF IInv

LEMMA StepKeepsIInv == IInv /\ Next => IInv' /\ DurableStep
  <1>. SUFFICES ASSUME IInv, Next PROVE IInv' /\ DurableStep
    OBVIOUS
  <1>1. ASSUME NEW t \in Tabs, Execute(t)
        PROVE  IInv' /\ DurableStep
    BY <1>1, PlanStep, ForgetStep, BeginStep, CheckStep, PersistStep, FallbackStep, AbandonStep, SendStep,
       OutcomeStep, MarkStep DEF Execute
  <1>2. Trackers \subseteq Tabs
    BY JournalAssumption
  <1>3. ASSUME NEW t \in Trackers, NEW x \in Recorded(View(t)),
               \/ Reconcile(t, x) \/ Lose(t, x) \/ Resend(t, x)
               \/ Revive(t, x) \/ SettleFamily(t, x) \/ Archive(t, x)
        PROVE  IInv' /\ DurableStep
    BY <1>2, <1>3, TrackerStep
  <1>. QED
    BY <1>1, <1>3, DegradeStep, ReloadStep, LapseStep DEF Next

LEMMA StutterKeepsIInv == IInv /\ UNCHANGED vars => IInv' /\ DurableStep
  <1>. SUFFICES ASSUME IInv, UNCHANGED vars PROVE IInv' /\ DurableStep
    OBVIOUS
  <1>1. UNCHANGED <<book, backend, job, lease>>
    BY DEF vars
  <1>2. job' \in [Tabs -> Job] /\ JobsNamed' /\ LeaseType'
    BY <1>1, LeaseOfIInv DEF IInv, JournalType, JobsNamed, LeaseType
  <1>. QED
    BY <1>1, <1>2, NoWrite

(* Every step keeps the invariant, whichever tab takes it and whatever the *)
(* stores of the others do.                                                *)
THEOREM JournalInductive == Spec => []IInv
  <1>1. IInv /\ [Next]_vars => IInv'
    BY StepKeepsIInv, StutterKeepsIInv
  <1>. QED
    BY <1>1, InitIInv, PTL DEF Spec

(* The journals, the jobs and the lease stay in their types.               *)
THEOREM JournalTypes == Spec => []TypeOK
  <1>1. IInv => TypeOK
    BY DEF IInv, JournalType, TypeOK, Journals, Journal, Job
  <1>. QED
    BY <1>1, JournalInductive, PTL

(* However many tabs plan and submit, lose their lease or reload, no two   *)
(* open records of the durable journal share an input, unless one is a fee *)
(* bump of the other or came back.                                         *)
THEOREM DurableIntentsNeverRival == Spec => []NoRivals
  <1>1. IInv => NoRivals
    BY DEF IInv
  <1>. QED
    BY <1>1, JournalInductive, PTL

(* Nor in the copy a tab went on with when the durable journal failed it.  *)
THEOREM SessionIntentsNeverRival == Spec => []SessionNoRivals
  <1>1. IInv => SessionNoRivals
    BY DEF IInv
  <1>. QED
    BY <1>1, JournalInductive, PTL

(* An execution that sent its transaction finds the intent in the journal  *)
(* it then reads, at whatever step its store failed.                       *)
THEOREM SentIntentsAreKept == Spec => []SentIsKept
  <1>1. IInv => SentIsKept
    BY DEF IInv, JobsNamed, SentInBoth, DurableIsLasting, SentIsKept, Sent, View, JournalOf
  <1>. QED
    BY <1>1, JournalInductive, PTL

(* No handler of any tab forgets a durable record, submits it anew, or     *)
(* opens a released one but by proof of acceptance or by the pointer.      *)
THEOREM DurableRecordsStayReleased == Spec => ReleasedForGood
  <1>1. IInv /\ [Next]_vars => [DurableStep]_vars
    BY StepKeepsIInv
  <1>2. [DurableStep]_vars =>
          [\A x \in Txs : book[Disk][x] # Absent =>
              /\ book'[Disk][x] # Absent
              /\ book'[Disk][x].status = "SUBMITTING" => book[Disk][x].status = "SUBMITTING"
              /\ ~Open(book[Disk][x]) /\ Open(book'[Disk][x]) => CameBack(book'[Disk][x])]_vars
    BY DEF DurableStep
  <1>. QED
    BY <1>1, <1>2, JournalInductive, PTL DEF Spec, ReleasedForGood
=============================================================================
