------------------------ MODULE RecordTracker_proofs ------------------------
(***************************************************************************)
(* Proofs about RecordTracker for families of any size, any number of      *)
(* follows at once, chains of any length and any limits: the types; that a *)
(* settled record is final, under the one assumption the code makes (no    *)
(* reorg is deeper than REORG_RECHECK_DAA); and when a record may be given *)
(* up as lost to its own transaction.                                      *)
(*                                                                         *)
(* The chain changes in one way (Branch): a suffix, maybe empty, gives way *)
(* to one that is a block longer.  What is buried stays buried, a block    *)
(* keeps what it accepts and, while no block was ever removed, what is     *)
(* spent stays spent.  Every other step is one of a single follow and      *)
(* leaves the chain alone; what it writes is argued from the predicates    *)
(* RecordFits, of one record, and FollowFits, of one follow beside the     *)
(* records: the follows beside it lose their check to what it writes       *)
(* (Overtaken, Outdated) or go on with what they had.                      *)
(***************************************************************************)
EXTENDS RecordTracker, SequenceTheorems, TLAPS

Block == [id : 1 .. MaxBlocks, tx : Txs \cup {Rival, NoTx}]

ChainOK ==
    /\ chain \in Seq(Block)
    /\ made \in 0 .. MaxBlocks /\ Len(chain) <= made
    /\ \A i \in 1 .. Len(chain) : chain[i].id <= made
    /\ \A i, j \in 1 .. Len(chain) : chain[i].id = chain[j].id => i = j
    /\ \A i, j \in 1 .. Len(chain) : chain[i].tx # NoTx /\ chain[j].tx # NoTx => i = j
    /\ made = Len(chain) => \A i \in 1 .. Len(chain) : chain[i].id = i

ReorgsAreShallow == MaxReorg <= RecheckDepth

(* No block was ever removed.                                              *)
Undisturbed == made = Len(chain)

(* A block of the chain that is kept as the place of x did accept x.       *)
PlaceOf(b, x) == b <= made /\ \A i \in 1 .. Len(chain) : chain[i].id = b => chain[i].tx = x

(* What a settled status stands on.                                        *)
Outlived(x) == \E y \in Txs \ {x} : Buried(y)

Final(x, status) ==
    /\ status = "ACCEPTED" => Buried(x)
    /\ status = "SUPERSEDED" => Outlived(x)

(* Who does not have the inputs when they are spent.                       *)
Lost(x) == Spent /\ ~OnChain(x)

---------------------------------------------------------------------------
(* One record.                                                             *)

Record == [status : Statuses, replacedBy : Txs \cup {NoTx}, accepting : 0 .. MaxBlocks,
           complete : BOOLEAN, last : {"NONE", "CONFLICT", "DROPPED"},
           resends : 0 .. ResendLimit, rejections : 0 .. 2]

RecordLost(r) == r.status = "CONFLICTED" \/ r.last = "CONFLICT" => Spent

RecordFits(x, r) ==
    /\ r \in Record
    /\ r.resends < ResendLimit => r.rejections <= 1 /\ r.resends = ResendLimit - 1
    /\ PlaceOf(r.accepting, x)
    /\ ReorgsAreShallow => Final(x, r.status)
    /\ Undisturbed => RecordLost(r)

RecordsFit(R) == R \in [Txs -> Record] /\ \A x \in Txs : RecordFits(x, R[x])

---------------------------------------------------------------------------
(* One follow, j, beside the records R.                                    *)

Searching == {"read", "write", "confirm"}
Verdicts == {"NONE", "CONFLICT", "DROPPED"}

Follow == [at : Searching \cup Sending \cup {"idle", "decide", "verdict", "resend"},
           tx : Txs \cup {NoTx}, by : Txs \cup {NoTx}, keep : Statuses, status : Statuses,
           block : 0 .. MaxBlocks, complete : BOOLEAN, rest : BOOLEAN, stale : BOOLEAN,
           newer : BOOLEAN, seen : BOOLEAN,
           says : Verdicts \cup {"SENT", "KNOWN", "WAIT", "REJECTED", "NO_RESPONSE"}]

(* What a follow writes is a block it was found in or the verdict it kept. *)
FollowTyped(j) ==
    /\ j \in Follow
    /\ j.at # "idle" => j.tx \in Txs
    /\ j.at = "verdict" => j.says \in Verdicts
    /\ j.keep \in Sticky \cup {"TRACKED"}
    /\ j.at \notin Searching => j.keep = "TRACKED"
    /\ j.at = "write" => Positive(j) \/ j.status = j.keep
    /\ j.at = "confirm" => Positive(j)
    /\ j.at \in {"write", "confirm"} /\ Positive(j) => j.block # NoBlock

LastResend(j, R) == j.at \in Sending => R[j.tx].rejections <= 1 /\ R[j.tx].resends = ResendLimit

(* Until its first write a follow and the record keep the same verdict.    *)
FollowKeeps(j, R) ==
    j.at \in {"read", "write"} /\ j.keep = "CONFLICTED" => R[j.tx].status = "CONFLICTED"

FollowFinal(j) == j.at \in Searching => Final(j.tx, j.status) /\ Final(j.tx, j.keep)

(* What a complete search that came after the inputs were seen spent says, *)
(* and what a diagnosis says.                                              *)
FollowLost(j) ==
    /\ j.at \in {"write", "decide"} /\ j.complete /\ j.status \in {"TRACKED", "REPLACED"} /\ j.seen
          => Lost(j.tx)
    /\ j.at = "verdict" /\ j.says = "CONFLICT" => Spent
    /\ j.at = "verdict" /\ j.seen => Lost(j.tx)

FollowFits(j, R) ==
    /\ FollowTyped(j) /\ LastResend(j, R) /\ FollowKeeps(j, R) /\ PlaceOf(j.block, j.tx)
    /\ ReorgsAreShallow => FollowFinal(j)
    /\ Undisturbed => FollowLost(j)

(* All of them: one at most is sending.                                    *)
FollowsFit(K, R) ==
    /\ K \in [Followers -> Follow]
    /\ \A f \in Followers : FollowFits(K[f], R)
    /\ \A f, g \in Followers : K[f].at \in Sending /\ K[g].at \in Sending => f = g

IInv ==
    /\ ChainOK /\ pool \in Txs \cup {NoTx} /\ rounds \in [Txs -> 0 .. Rounds]
    /\ RecordsFit(rec) /\ FollowsFit(job, rec)

---------------------------------------------------------------------------
(* The chain: after k blocks were removed, k + 1 come, and block p of them *)
(* accepts x.                                                              *)

Branch(k, x, p) ==
    /\ k \in Nat /\ k <= Len(chain) /\ k <= MaxReorg
    /\ made' = made + k + 1 /\ made' \in 0 .. MaxBlocks
    /\ chain' \in Seq(Block) /\ Len(chain') = Len(chain) + 1
    /\ \A i \in 1 .. Len(chain) - k : chain'[i] = chain[i]
    /\ \A i \in Len(chain) - k + 1 .. Len(chain) + 1 :
          /\ chain'[i].id = made + (i - (Len(chain) - k))
          /\ chain'[i].tx = IF i - (Len(chain) - k) = p THEN x ELSE NoTx
    /\ x \in Txs \cup {Rival, NoTx}
    /\ x # NoTx => \A i \in 1 .. Len(chain) - k : chain[i].tx = NoTx

(* Where block i of the new chain comes from.                              *)
LEMMA BranchSplits ==
    ASSUME ChainOK, NEW k, NEW x, NEW p, Branch(k, x, p), NEW i \in 1 .. Len(chain')
    PROVE  \/ i \in 1 .. Len(chain) /\ i <= Len(chain) - k /\ chain'[i] = chain[i]
           \/ /\ i \in Len(chain) - k + 1 .. Len(chain) + 1
              /\ chain'[i].id = made + (i - (Len(chain) - k)) /\ chain'[i].id > made
              /\ chain'[i].tx = IF i - (Len(chain) - k) = p THEN x ELSE NoTx
<1>1. Len(chain) \in Nat /\ made \in Nat
  BY TrackerAssumption DEF ChainOK
<1> QED BY <1>1 DEF Branch

LEMMA BranchChainOK ==
    ASSUME ChainOK, NEW k, NEW x, NEW p, Branch(k, x, p)
    PROVE  ChainOK'
<1>1. Len(chain) \in Nat /\ made \in Nat /\ k \in Nat /\ k <= Len(chain) /\ Len(chain) <= made
      /\ Len(chain') = Len(chain) + 1 /\ made' = made + k + 1
  BY TrackerAssumption DEF ChainOK, Branch
<1>2. \A i \in 1 .. Len(chain) : chain[i].id \in Nat /\ chain[i].id <= made
  <2>1. \A i \in 1 .. Len(chain) : chain[i] \in Block
    BY DEF ChainOK
  <2>2. \A i \in 1 .. Len(chain) : chain[i].id \in 1 .. MaxBlocks
    BY <2>1 DEF Block
  <2> QED BY <2>2, TrackerAssumption DEF ChainOK
<1> DEFINE n == Len(chain) - k
           Old(i) == i \in 1 .. Len(chain) /\ i <= n /\ chain'[i] = chain[i]
           New(i) == /\ i \in n + 1 .. Len(chain) + 1
                     /\ chain'[i].id = made + (i - n) /\ chain'[i].id > made
                     /\ chain'[i].tx = IF i - n = p THEN x ELSE NoTx
<1>0. \A i \in 1 .. Len(chain') : Old(i) \/ New(i)
  BY BranchSplits
<1>3. \A i \in 1 .. Len(chain') : chain'[i].id <= made'
  <2> TAKE i \in 1 .. Len(chain')
  <2>1. CASE Old(i)
    BY <1>1, <1>2, <2>1
  <2>2. CASE New(i)
    BY <1>1, <2>2
  <2> QED BY <1>0, <2>1, <2>2
<1>4. ASSUME NEW i \in 1 .. Len(chain'), NEW j \in 1 .. Len(chain'), chain'[i].id = chain'[j].id PROVE i = j
  <2>1. \A a, b \in 1 .. Len(chain) : chain[a].id = chain[b].id => a = b
    BY DEF ChainOK
  <2>2. CASE Old(i) /\ Old(j)
    BY <1>4, <2>1, <2>2
  <2>3. CASE New(i) /\ New(j)
    <3>1. i \in Nat /\ j \in Nat /\ n \in Int
      BY <1>1
    <3>2. made + (i - n) = made + (j - n)
      BY <1>4, <2>3
    <3> QED BY <1>1, <3>1, <3>2
  <2>4. CASE (Old(i) /\ New(j)) \/ (New(i) /\ Old(j))
    BY <1>1, <1>2, <1>4, <2>4
  <2> QED BY <1>0, <2>2, <2>3, <2>4
<1>5. ASSUME NEW i \in 1 .. Len(chain'), NEW j \in 1 .. Len(chain'),
             chain'[i].tx # NoTx, chain'[j].tx # NoTx
      PROVE  i = j
  <2>1. \A a, b \in 1 .. Len(chain) : chain[a].tx # NoTx /\ chain[b].tx # NoTx => a = b
    BY DEF ChainOK
  <2>2. x # NoTx => \A a \in 1 .. Len(chain) - k : chain[a].tx = NoTx
    BY DEF Branch
  <2>3. CASE Old(i) /\ Old(j)
    BY <1>5, <2>1, <2>3
  <2>4. CASE New(i) /\ New(j)
    <3>1. i - n = p /\ j - n = p
      BY <1>5, <2>4
    <3> QED BY <1>1, <3>1
  <2>5. CASE Old(i) /\ New(j)
    <3>1. x # NoTx /\ chain[i].tx # NoTx /\ i \in 1 .. Len(chain) - k
      BY <1>1, <1>5, <2>5
    <3> QED BY <2>2, <3>1
  <2>6. CASE New(i) /\ Old(j)
    <3>1. x # NoTx /\ chain[j].tx # NoTx /\ j \in 1 .. Len(chain) - k
      BY <1>1, <1>5, <2>6
    <3> QED BY <2>2, <3>1
  <2> QED BY <1>0, <2>3, <2>4, <2>5, <2>6
<1>6. chain' \in Seq(Block) /\ made' \in 0 .. MaxBlocks /\ Len(chain') <= made'
  BY <1>1 DEF Branch
<1>7. ASSUME made' = Len(chain'), NEW i \in 1 .. Len(chain') PROVE chain'[i].id = i
  <2>1. k = 0 /\ made = Len(chain) /\ n = Len(chain)
    <3>1. made + k + 1 = Len(chain) + 1
      BY <1>1, <1>7
    <3> QED BY <1>1, <3>1
  <2>2. CASE Old(i)
    BY <1>1, <2>1, <2>2 DEF ChainOK
  <2>3. CASE New(i)
    <3>1. i = n + 1 /\ i - n = 1
      BY <1>1, <2>1, <2>3
    <3> QED BY <1>1, <2>1, <2>3, <3>1
  <2> QED BY <1>0, <2>2, <2>3
<1> QED BY <1>3, <1>4, <1>5, <1>6, <1>7 DEF ChainOK

LEMMA BranchKeepsPlaces ==
    ASSUME ChainOK, NEW k, NEW x, NEW p, Branch(k, x, p), NEW b \in Nat, NEW y, PlaceOf(b, y)
    PROVE  PlaceOf(b, y)'
<1>1. Len(chain) \in Nat /\ made \in Nat /\ k \in Nat /\ made' = made + k + 1
  BY TrackerAssumption DEF ChainOK, Branch
<1>2. ASSUME NEW i \in 1 .. Len(chain'), chain'[i].id = b PROVE chain'[i].tx = y
  <2>1. b <= made /\ chain'[i].id <= made
    BY <1>2 DEF PlaceOf
  <2>2. i \in 1 .. Len(chain) /\ chain'[i] = chain[i]
    <3>1. PICK d : d = chain'[i].id
      OBVIOUS
    <3>2. ~(d > made)
      BY <1>1, <1>2, <2>1, <3>1
    <3> QED BY <1>2, <3>1, <3>2, BranchSplits
  <2> QED BY <1>2, <2>2 DEF PlaceOf
<1>3. b <= made'
  BY <1>1 DEF PlaceOf
<1> QED BY <1>2, <1>3 DEF PlaceOf

(* A shallow reorg does not reach what is buried.                          *)
LEMMA BranchBuries ==
    ASSUME ChainOK, NEW k, NEW x, NEW p, Branch(k, x, p), ReorgsAreShallow, NEW y, Buried(y)
    PROVE  Buried(y)'
<1>1. Len(chain) \in Nat /\ k \in Nat /\ k <= MaxReorg /\ MaxReorg \in Nat /\ RecheckDepth \in Nat
      /\ MaxReorg <= RecheckDepth /\ Len(chain') = Len(chain) + 1
  BY TrackerAssumption DEF ChainOK, Branch, ReorgsAreShallow
<1>2. PICK i \in 1 .. Len(chain) : chain[i].tx = y /\ Len(chain) - i >= RecheckDepth
  BY DEF Buried
<1>3. i \in 1 .. Len(chain') /\ i \in 1 .. Len(chain) - k /\ Len(chain') - i >= RecheckDepth
  BY <1>1, <1>2
<1>4. chain'[i].tx = y
  BY <1>2, <1>3 DEF Branch
<1> QED BY <1>3, <1>4 DEF Buried

(* While no block was ever removed, who lost the inputs has lost them.     *)
LEMMA BranchLoses ==
    ASSUME ChainOK, NEW k, NEW x, NEW p, Branch(k, x, p), Undisturbed'
    PROVE  Undisturbed /\ (Spent => Spent') /\ \A y \in Txs : Lost(y) => Lost(y)'
<1>1. Len(chain) \in Nat /\ made \in Nat /\ k \in Nat /\ Len(chain) <= made
      /\ made' = made + k + 1 /\ Len(chain') = Len(chain) + 1
  BY TrackerAssumption DEF ChainOK, Branch
<1>2. k = 0 /\ made = Len(chain)
  <2>1. made' = Len(chain')
    BY DEF Undisturbed
  <2>2. made + k + 1 = Len(chain) + 1
    BY <1>1, <2>1
  <2> QED BY <1>1, <2>2
<1>3. \A i \in 1 .. Len(chain) : i \in 1 .. Len(chain') /\ chain'[i] = chain[i]
  BY <1>1, <1>2 DEF Branch
<1>4. Spent => Spent'
  BY <1>3 DEF Spent
<1>5. ASSUME NEW y \in Txs, Lost(y) PROVE Lost(y)'
  <2>1. PICK s \in 1 .. Len(chain) : chain[s].tx # NoTx
    BY <1>5 DEF Lost, Spent
  <2>2. x = NoTx
    BY <1>1, <1>2, <2>1 DEF Branch
  <2>3. \A i \in 1 .. Len(chain) : chain[i].tx # y
    BY <1>5 DEF Lost, OnChain, Accepting
  <2>4. \A i \in 1 .. Len(chain') : chain'[i].tx # y
    BY <2>2, <2>3, BranchSplits, TrackerAssumption
  <2> QED BY <1>4, <1>5, <2>4 DEF Lost, OnChain, Accepting
<1> QED BY <1>2, <1>4, <1>5 DEF Undisturbed

LEMMA GrowthBranches ==
    ASSUME ChainOK, Grow
    PROVE  \E x : Branch(0, x, 1)
<1>1. Len(chain) \in Nat /\ made \in Nat /\ MaxReorg \in Nat /\ MaxBlocks \in Nat /\ chain \in Seq(Block)
  BY TrackerAssumption DEF ChainOK
<1>2. PICK x \in {NoTx} \cup (IF Spent THEN {} ELSE Txs \cup {Rival}) :
        chain' = Append(chain, [id |-> made + 1, tx |-> x])
  BY DEF Grow
<1>3. made' = made + 1 /\ made < MaxBlocks
  BY DEF Grow
<1>4. x \in Txs \cup {Rival, NoTx} /\ (x # NoTx => ~Spent)
  BY <1>2
<1> DEFINE b == [id |-> made + 1, tx |-> x]
<1>5. b \in Block /\ b.id = made + 1 /\ b.tx = x
  BY <1>1, <1>3, <1>4 DEF Block
<1> HIDE DEF b
<1>6. /\ chain' \in Seq(Block) /\ Len(chain') = Len(chain) + 1 /\ chain'[Len(chain) + 1] = b
      /\ \A i \in 1 .. Len(chain) : chain'[i] = chain[i]
  BY <1>1, <1>2, <1>5 DEF b
<1>7. x # NoTx => \A i \in 1 .. Len(chain) : chain[i].tx = NoTx
  BY <1>4 DEF Spent
<1>8. \A i \in Len(chain) - 0 + 1 .. Len(chain) + 1 :
        i = Len(chain) + 1 /\ i - (Len(chain) - 0) = 1 /\ made + (i - (Len(chain) - 0)) = made + 1
  BY <1>1
<1>9. \A i \in Len(chain) - 0 + 1 .. Len(chain) + 1 :
        /\ chain'[i].id = made + (i - (Len(chain) - 0))
        /\ chain'[i].tx = IF i - (Len(chain) - 0) = 1 THEN x ELSE NoTx
  BY <1>5, <1>6, <1>8
<1>10. Len(chain) - 0 = Len(chain) /\ made' = made + 0 + 1 /\ made' \in 0 .. MaxBlocks /\ 0 <= Len(chain) /\ 0 <= MaxReorg
  BY <1>1, <1>3
<1>11. Branch(0, x, 1)
  BY <1>4, <1>6, <1>7, <1>9, <1>10 DEF Branch
<1> QED BY <1>11

LEMMA ReorgBranches ==
    ASSUME ChainOK, Reorg
    PROVE  \E k, x, p : Branch(k, x, p)
<1>1. Len(chain) \in Nat /\ made \in Nat /\ MaxReorg \in Nat /\ MaxBlocks \in Nat /\ chain \in Seq(Block)
  BY TrackerAssumption DEF ChainOK
<1>2. PICK k \in 1 .. MaxReorg :
        /\ k <= Len(chain) /\ made + k + 1 <= MaxBlocks /\ made' = made + k + 1
        /\ LET kept == SubSeq(chain, 1, Len(chain) - k)
               free == \A i \in 1 .. Len(kept) : kept[i].tx = NoTx IN
           \E x \in {NoTx} \cup (IF free THEN Txs \cup {Rival} ELSE {}) :
           \E at \in 1 .. (IF x = NoTx THEN 1 ELSE k + 1) :
              chain' = kept \o [i \in 1 .. (k + 1) |-> [id |-> made + i, tx |-> IF i = at THEN x ELSE NoTx]]
  BY DEF Reorg
<1> DEFINE kept == SubSeq(chain, 1, Len(chain) - k)
           free == \A i \in 1 .. Len(kept) : kept[i].tx = NoTx
<1>3. PICK x \in {NoTx} \cup (IF free THEN Txs \cup {Rival} ELSE {}) :
        \E at \in 1 .. (IF x = NoTx THEN 1 ELSE k + 1) :
          chain' = kept \o [i \in 1 .. (k + 1) |-> [id |-> made + i, tx |-> IF i = at THEN x ELSE NoTx]]
  BY <1>2
<1>4. PICK p \in 1 .. (IF x = NoTx THEN 1 ELSE k + 1) :
        chain' = kept \o [i \in 1 .. (k + 1) |-> [id |-> made + i, tx |-> IF i = p THEN x ELSE NoTx]]
  BY <1>3
<1> DEFINE new == [i \in 1 .. (k + 1) |-> [id |-> made + i, tx |-> IF i = p THEN x ELSE NoTx]]
<1>5. k \in Nat /\ k >= 1 /\ k <= MaxReorg
  BY <1>1
<1>6. /\ kept \in Seq(Block) /\ Len(kept) = Len(chain) - k
      /\ \A i \in 1 .. Len(chain) - k : kept[i] = chain[i]
  BY <1>1, <1>2, <1>5
<1>7. x \in Txs \cup {Rival, NoTx} /\ (x # NoTx => free)
  BY <1>3
<1>8. \A i \in 1 .. k + 1 :
        new[i] \in Block /\ new[i].id = made + i /\ new[i].tx = (IF i = p THEN x ELSE NoTx)
  <2> TAKE i \in 1 .. k + 1
  <2>1. made + i \in 1 .. MaxBlocks
    BY <1>1, <1>2, <1>5
  <2>2. (IF i = p THEN x ELSE NoTx) \in Txs \cup {Rival, NoTx}
    BY <1>7
  <2> QED BY <2>1, <2>2 DEF Block
<1>9. new \in Seq(Block) /\ Len(new) = k + 1
  <2>1. new \in [1 .. k + 1 -> Block]
    BY <1>8
  <2> QED BY <1>5, <2>1
<1>10. x # NoTx => \A i \in 1 .. Len(chain) - k : chain[i].tx = NoTx
  BY <1>6, <1>7
<1> HIDE DEF kept, new
<1>11. chain' = kept \o new
  BY <1>4 DEF new
<1>12. /\ chain' \in Seq(Block) /\ Len(chain') = Len(kept) + Len(new)
       /\ \A i \in 1 .. Len(kept) + Len(new) :
             chain'[i] = IF i <= Len(kept) THEN kept[i] ELSE new[i - Len(kept)]
  <2>1. kept \in Seq(Block) /\ new \in Seq(Block)
    BY <1>6, <1>9
  <2> QED BY <1>11, <2>1, ConcatProperties
<1>13. \A i \in Len(chain) - k + 1 .. Len(chain) + 1 : chain'[i] = new[i - (Len(chain) - k)]
  <2> TAKE i \in Len(chain) - k + 1 .. Len(chain) + 1
  <2>1. i \in 1 .. Len(kept) + Len(new) /\ ~(i <= Len(kept)) /\ i - Len(kept) = i - (Len(chain) - k)
    BY <1>1, <1>5, <1>6, <1>9
  <2> QED BY <1>12, <2>1
<1>14. \A i \in Len(chain) - k + 1 .. Len(chain) + 1 :
         /\ chain'[i].id = made + (i - (Len(chain) - k))
         /\ chain'[i].tx = IF i - (Len(chain) - k) = p THEN x ELSE NoTx
  <2> TAKE i \in Len(chain) - k + 1 .. Len(chain) + 1
  <2>1. i - (Len(chain) - k) \in 1 .. k + 1
    BY <1>1, <1>5
  <2> QED BY <1>8, <1>13, <2>1
<1>15. Len(chain') = Len(chain) + 1 /\ made' \in 0 .. MaxBlocks
  <2>1. Len(chain') = Len(kept) + Len(new)
    BY <1>12
  <2>2. Len(chain') = (Len(chain) - k) + (k + 1)
    BY <1>6, <1>9, <2>1
  <2>3. \A l \in Nat : (l - k) + (k + 1) = l + 1
    BY <1>5
  <2>4. Len(chain') = Len(chain) + 1
    BY <1>1, <2>2, <2>3
  <2>5. \A m \in Nat : m + k + 1 >= 0
    BY <1>5
  <2>6. made + k + 1 \in Int /\ MaxBlocks \in Int
    BY <1>1, <1>5
  <2>7. made + k + 1 <= MaxBlocks
    BY <1>2
  <2>8. made + k + 1 >= 0
    BY <1>1, <2>5
  <2>9. \A v, m \in Int : v >= 0 /\ v <= m => v \in 0 .. m
    OBVIOUS
  <2>10. made + k + 1 \in 0 .. MaxBlocks
    BY <2>6, <2>7, <2>8, <2>9
  <2>11. made' = made + k + 1
    BY <1>2
  <2> QED BY <2>4, <2>10, <2>11
<1>16. \A i \in 1 .. Len(chain) - k : chain'[i] = chain[i]
  BY <1>1, <1>5, <1>6, <1>9, <1>12, SMTT(30)
<1>17. Branch(k, x, p)
  BY <1>2, <1>5, <1>7, <1>10, <1>12, <1>14, <1>15, <1>16 DEF Branch
<1> QED BY <1>17

---------------------------------------------------------------------------
(* What a check finds.                                                     *)

(* f is a result for x that keeps the verdict given unless x was found.    *)
Result(f, x, keep) ==
    /\ f.status \in Statuses /\ f.block \in 0 .. MaxBlocks /\ f.complete \in BOOLEAN
    /\ PlaceOf(f.block, x)
    /\ (Positive(f) /\ f.block # NoBlock) \/ f.status = keep
    /\ f.status = "ACCEPTED" => Buried(x)
    /\ f.complete /\ ~Positive(f) => ~OnChain(x)

LEMMA NoBlockPlaced == ASSUME ChainOK, NEW x PROVE PlaceOf(NoBlock, x)
<1>1. \A i \in 1 .. Len(chain) : chain[i] \in Block
  BY DEF ChainOK
<1>2. \A i \in 1 .. Len(chain) : chain[i].id \in 1 .. MaxBlocks
  BY <1>1 DEF Block
<1> QED BY <1>2, TrackerAssumption DEF PlaceOf, NoBlock, ChainOK

LEMMA NowhereResult ==
    ASSUME ChainOK, NEW x, NEW keep \in Sticky \cup {"TRACKED"}, NEW b \in 0 .. MaxBlocks, PlaceOf(b, x),
           NEW c \in BOOLEAN, c => ~OnChain(x)
    PROVE  Result(Nowhere(keep, b, c), x, keep)
<1>1. PICK f : f = Nowhere(keep, b, c)
  OBVIOUS
<1>2. f.status = keep /\ f.block = b /\ f.complete = c
  BY <1>1 DEF Nowhere
<1>3. keep \in Statuses
  BY DEF Sticky, Following, Statuses
<1>4. f.status = "ACCEPTED" => Buried(x)
  BY <1>2 DEF Sticky
<1>5. f.complete \in BOOLEAN /\ (f.complete => ~OnChain(x))
  BY <1>2
<1>6. Result(f, x, keep)
  BY <1>2, <1>3, <1>4, <1>5 DEF Result
<1> QED BY <1>1, <1>6

LEMMA AtResult ==
    ASSUME ChainOK, NEW x, NEW keep, NEW b \in 1 .. MaxBlocks, PlaceOf(b, x), Selected(b)
    PROVE  Result(At(b), x, keep)
<1> DEFINE i == CHOOSE i \in 1 .. Len(chain) : chain[i].id = b
<1>1. i \in 1 .. Len(chain) /\ chain[i].id = b
  BY DEF Selected
<1>2. chain[i].tx = x
  BY <1>1 DEF PlaceOf
<1>3. Depth(b) = Len(chain) - i
  BY DEF Depth
<1> HIDE DEF i
<1>4. AcceptanceStep(Depth(b)) = "ACCEPTED" => Buried(x)
  BY <1>1, <1>2, <1>3 DEF AcceptanceStep, Buried
<1>5. AcceptanceStep(Depth(b)) \in {"ACCEPTED", "CONFIRMING"}
  BY DEF AcceptanceStep
<1>6. b \in 0 .. MaxBlocks /\ b # NoBlock
  BY TrackerAssumption DEF NoBlock
<1> QED BY <1>4, <1>5, <1>6 DEF Result, At, Positive, Statuses, Following

(* The block that accepts x is its place.                                  *)
LEMMA BlockOfPlaces ==
    ASSUME ChainOK, NEW x, OnChain(x)
    PROVE  BlockOf(x) \in 1 .. MaxBlocks /\ PlaceOf(BlockOf(x), x) /\ Selected(BlockOf(x))
<1> DEFINE i == CHOOSE i \in Accepting(x) : TRUE
<1>1. i \in 1 .. Len(chain) /\ chain[i].tx = x
  BY DEF OnChain, Accepting
<1>2. BlockOf(x) = chain[i].id
  BY DEF BlockOf
<1> HIDE DEF i
<1>3. chain[i] \in Block
  BY <1>1 DEF ChainOK
<1>4. chain[i].id \in 1 .. MaxBlocks
  BY <1>3 DEF Block
<1>5. chain[i].id <= made /\ \A j \in 1 .. Len(chain) : chain[j].id = chain[i].id => j = i
  BY <1>1 DEF ChainOK
<1>6. PlaceOf(BlockOf(x), x)
  BY <1>1, <1>2, <1>5 DEF PlaceOf
<1> QED BY <1>1, <1>2, <1>4, <1>6 DEF Selected

LEMMA FindingResult ==
    ASSUME ChainOK, RecordsFit(rec), NEW x \in Txs, NEW keep \in Sticky \cup {"TRACKED"}
    PROVE  Result(Finding(x, keep), x, keep)
<1>1. PICK known : known = rec[x].accepting
  OBVIOUS
<1>2. known \in 0 .. MaxBlocks /\ PlaceOf(known, x)
  <2>1. RecordFits(x, rec[x])
    BY DEF RecordsFit
  <2> QED BY <1>1, <2>1 DEF RecordFits, Record
<1>3. NoBlock \in 0 .. MaxBlocks /\ PlaceOf(NoBlock, x)
  BY NoBlockPlaced, TrackerAssumption DEF NoBlock
<1>4. CASE known # NoBlock /\ Selected(known)
  <2>1. Finding(x, keep) = At(known)
    BY <1>1, <1>4 DEF Finding
  <2>2. known \in 1 .. MaxBlocks
    BY <1>2, <1>4, TrackerAssumption DEF NoBlock
  <2> QED BY <1>2, <1>4, <2>1, <2>2, AtResult
<1>5. CASE known # NoBlock /\ ~Selected(known)
  <2>1. Finding(x, keep) = Nowhere(keep, NoBlock, FALSE)
    BY <1>1, <1>5 DEF Finding
  <2> QED BY <1>3, <2>1, NowhereResult
<1>6. CASE known = NoBlock /\ OnChain(x)
  <2>1. Finding(x, keep) = At(BlockOf(x))
    BY <1>1, <1>6 DEF Finding
  <2>2. BlockOf(x) \in 1 .. MaxBlocks /\ PlaceOf(BlockOf(x), x) /\ Selected(BlockOf(x))
    BY <1>6, BlockOfPlaces
  <2> QED BY <2>1, <2>2, AtResult
<1>7. CASE known = NoBlock /\ ~OnChain(x)
  <2>1. Finding(x, keep) = Nowhere(keep, NoBlock, TRUE)
    BY <1>1, <1>7 DEF Finding
  <2> QED BY <1>3, <1>7, <2>1, NowhereResult
<1> QED BY <1>4, <1>5, <1>6, <1>7

---------------------------------------------------------------------------
---------------------------------------------------------------------------
(* What a step that leaves the chain alone writes.                         *)

LEMMA Rests ==
    ASSUME IInv, UNCHANGED <<chain, made>>, pool' \in Txs \cup {NoTx}, rounds' \in [Txs -> 0 .. Rounds],
           NEW R, rec' = R, RecordsFit(R), NEW K, job' = K, FollowsFit(K, R)
    PROVE  IInv'
<1>1. ChainOK'
  BY DEF IInv, ChainOK
<1>2. (Spent <=> Spent') /\ (Undisturbed <=> Undisturbed')
  BY DEF Spent, Undisturbed
<1>3. \A x : (OnChain(x) <=> OnChain(x)') /\ (Buried(x) <=> Buried(x)')
  BY DEF OnChain, Accepting, Buried
<1>4. \A x : (Lost(x) <=> Lost(x)') /\ (Outlived(x) <=> Outlived(x)')
  BY <1>2, <1>3 DEF Lost, Outlived
<1>5. \A b, x : PlaceOf(b, x) => PlaceOf(b, x)'
  BY DEF PlaceOf
<1>6. \A x, st : Final(x, st) => Final(x, st)'
  BY <1>3, <1>4 DEF Final
<1>7. RecordsFit(rec)'
  <2>1. \A x \in Txs : RecordFits(x, R[x]) => RecordFits(x, R[x])'
    BY <1>2, <1>5, <1>6 DEF RecordFits, RecordLost
  <2> QED BY <2>1 DEF RecordsFit
<1>8. FollowsFit(job, rec)'
  <2>1. ASSUME NEW f \in Followers PROVE FollowFits(K[f], R)'
    <3>1. PICK j : j = K[f]
      OBVIOUS
    <3>2. FollowFits(j, R)
      BY <3>1 DEF FollowsFit
    <3>3. FollowLost(j) => FollowLost(j)'
      BY <1>2, <1>4 DEF FollowLost
    <3>4. FollowFinal(j) => FollowFinal(j)'
      BY <1>6 DEF FollowFinal
    <3>5. FollowFits(j, R)'
      BY <1>2, <1>5, <3>2, <3>3, <3>4 DEF FollowFits, FollowTyped, LastResend, FollowKeeps
    <3> QED BY <3>1, <3>5 DEF FollowFits
  <2>2. FollowsFit(K, R)'
    BY <2>1 DEF FollowsFit
  <2> QED BY <2>2 DEF FollowsFit
<1> QED BY <1>1, <1>7, <1>8 DEF IInv

LEMMA IdleIs ==
    /\ Idle \in Follow /\ Idle.at = "idle" /\ Idle.tx = NoTx /\ Idle.keep = "TRACKED" /\ Idle.status = "TRACKED"
    /\ Idle.block = NoBlock /\ Idle.complete = FALSE /\ Idle.says = "NONE" /\ Idle.seen = FALSE
    /\ NoBlock \in 0 .. MaxBlocks
<1>1. Idle.rest = FALSE /\ Idle.stale = FALSE /\ Idle.newer = FALSE /\ Idle.by = NoTx
  BY DEF Idle
<1> QED BY <1>1, TrackerAssumption
        DEF Idle, Follow, Searching, Sending, Verdicts, Statuses, Sticky, Following, NoBlock

LEMMA IdleFits == ASSUME ChainOK, NEW R PROVE FollowFits(Idle, R)
<1>1. FollowTyped(Idle) /\ LastResend(Idle, R) /\ FollowKeeps(Idle, R) /\ FollowFinal(Idle) /\ FollowLost(Idle)
  BY IdleIs DEF FollowTyped, LastResend, FollowKeeps, FollowFinal, FollowLost, Searching, Sending
<1>2. PlaceOf(Idle.block, Idle.tx)
  BY IdleIs, NoBlockPlaced
<1> QED BY <1>1, <1>2 DEF FollowFits

(* The records S leave the follow j what it has of R.                      *)
Spares(R, S, j, X) ==
    /\ \A y \in Txs \ X : S[y].status = R[y].status
    /\ j.at \in Sending => S[j.tx].resends = R[j.tx].resends /\ S[j.tx].rejections = R[j.tx].rejections

(* A follow that goes on with what it had.                                 *)
LEMMA FlagsFit ==
    ASSUME NEW R, NEW S, NEW j, FollowFits(j, R), NEW stale \in BOOLEAN, NEW newer \in BOOLEAN,
           NEW X, Spares(R, S, j, X), j.tx \notin X \/ j.at \notin {"read", "write"}
    PROVE  FollowFits([j EXCEPT !.stale = stale, !.newer = newer], S)
<1>1. j \in Follow
  BY DEF FollowFits, FollowTyped
<1>2. PICK J : J = [j EXCEPT !.stale = stale, !.newer = newer]
  OBVIOUS
<1>3. /\ J \in Follow /\ J.at = j.at /\ J.tx = j.tx /\ J.keep = j.keep /\ J.status = j.status
      /\ J.block = j.block /\ J.complete = j.complete /\ J.seen = j.seen /\ J.says = j.says
  BY <1>1, <1>2 DEF Follow
<1>4. FollowTyped(J)
  BY <1>3 DEF FollowFits, FollowTyped, Positive
<1>5. LastResend(J, S)
  BY <1>3 DEF FollowFits, LastResend, Spares
<1>6. FollowKeeps(J, S)
  BY <1>3 DEF FollowFits, FollowTyped, FollowKeeps, Spares
<1>7. PlaceOf(J.block, J.tx) /\ (ReorgsAreShallow => FollowFinal(J)) /\ (Undisturbed => FollowLost(J))
  BY <1>3 DEF FollowFits, FollowFinal, FollowLost
<1> QED BY <1>2, <1>4, <1>5, <1>6, <1>7 DEF FollowFits

LEMMA OvertakenFits ==
    ASSUME ChainOK, NEW R, NEW S, NEW j, FollowFits(j, R), NEW X, Spares(R, S, j, X)
    PROVE  FollowFits(Overtaken(j, X), S) /\ Overtaken(j, X).at \in {j.at, "idle"}
<1>1. j \in Follow
  BY DEF FollowFits, FollowTyped
<1>2. CASE j.tx \in X /\ j.at \in {"read", "write"}
  BY <1>2, IdleFits, IdleIs DEF Overtaken
<1>3. CASE ~(j.tx \in X /\ j.at \in {"read", "write"})
  <2>1. PICK stale \in BOOLEAN : stale = (j.stale \/ (j.tx \in X /\ j.at \in {"confirm"} \cup Sending))
    OBVIOUS
  <2>2. Overtaken(j, X) = [j EXCEPT !.stale = stale]
    BY <1>3, <2>1 DEF Overtaken
  <2>3. [j EXCEPT !.stale = stale] = [j EXCEPT !.stale = stale, !.newer = j.newer]
    BY <1>1 DEF Follow
  <2>4. j.newer \in BOOLEAN /\ [j EXCEPT !.stale = stale].at = j.at
    BY <1>1 DEF Follow
  <2>5. PICK newer \in BOOLEAN : newer = j.newer
    BY <2>4
  <2>6. FollowFits([j EXCEPT !.stale = stale, !.newer = newer], S)
    BY <1>3, FlagsFit
  <2> QED BY <2>2, <2>3, <2>4, <2>5, <2>6
<1> QED BY <1>2, <1>3

LEMMA OutdatedFits ==
    ASSUME ChainOK, NEW R, NEW S, NEW j, FollowFits(j, R), NEW x, Spares(R, S, j, {x})
    PROVE  FollowFits(Outdated(j, x), S) /\ Outdated(j, x).at \in {j.at, "idle"}
<1>1. j \in Follow
  BY DEF FollowFits, FollowTyped
<1>2. CASE j.tx = x /\ (j.at = "verdict" \/ (j.at = "decide" /\ j.status # "REPLACED"))
  BY <1>2, IdleFits, IdleIs DEF Outdated
<1>3. CASE ~(j.tx = x /\ (j.at = "verdict" \/ (j.at = "decide" /\ j.status # "REPLACED")))
  <2>1. PICK o : o = Overtaken(j, {x})
    OBVIOUS
  <2>2. FollowFits(o, S) /\ o.at \in {j.at, "idle"} /\ o \in Follow
    BY <2>1, OvertakenFits DEF FollowFits, FollowTyped
  <2>3. PICK newer \in BOOLEAN : newer = (o.newer \/ (j.tx = x /\ j.at \in {"confirm", "decide"}))
    BY <2>2 DEF Follow
  <2>4. Outdated(j, x) = [o EXCEPT !.newer = newer]
    BY <1>3, <2>1, <2>3 DEF Outdated
  <2>5. [o EXCEPT !.newer = newer] = [o EXCEPT !.stale = o.stale, !.newer = newer]
        /\ o.stale \in BOOLEAN /\ [o EXCEPT !.newer = newer].at = o.at
    BY <2>2 DEF Follow
  <2>6. Spares(S, S, o, {})
    BY DEF Spares
  <2>7. PICK stale \in BOOLEAN : stale = o.stale
    BY <2>5
  <2>8. o.tx \notin {}
    OBVIOUS
  <2>9. FollowFits([o EXCEPT !.stale = stale, !.newer = newer], S)
    BY <2>2, <2>6, <2>8, FlagsFit
  <2> QED BY <2>2, <2>4, <2>5, <2>7, <2>9
<1> QED BY <1>2, <1>3

(* f sends, or goes on sending, alone.                                     *)
SendsAlone(f, J) == J.at \in Sending => \A g \in Followers \ {f} : job[g].at \notin Sending

(* The step of one follow, f, that writes the records X.                   *)
LEMMA Writes ==
    ASSUME IInv, UNCHANGED <<chain, made>>, pool' \in Txs \cup {NoTx}, rounds' \in [Txs -> 0 .. Rounds],
           NEW f \in Followers, NEW R, rec' = R, RecordsFit(R), NEW J, FollowFits(J, R), SendsAlone(f, J),
           NEW X, \A g \in Followers \ {f} : Spares(rec, R, job[g], X),
           job' = [g \in Followers |-> IF g = f THEN J ELSE Overtaken(job[g], X)]
    PROVE  IInv'
<1>1. PICK K : K = [g \in Followers |-> IF g = f THEN J ELSE Overtaken(job[g], X)]
  OBVIOUS
<1>2. ASSUME NEW g \in Followers
      PROVE  FollowFits(K[g], R) /\ (K[g].at \in Sending /\ g # f => job[g].at \in Sending)
  <2>1. CASE g = f
    BY <1>1, <2>1
  <2>2. CASE g # f
    <3>1. FollowFits(job[g], rec) /\ Spares(rec, R, job[g], X) /\ ChainOK
      BY <2>2 DEF IInv, FollowsFit
    <3>2. FollowFits(Overtaken(job[g], X), R) /\ Overtaken(job[g], X).at \in {job[g].at, "idle"}
      BY <3>1, OvertakenFits
    <3>3. K[g] = Overtaken(job[g], X)
      BY <1>1, <2>2
    <3> QED BY <3>2, <3>3 DEF Sending
  <2> QED BY <2>1, <2>2
<1>3. \A g \in Followers : K[g] \in Follow
  BY <1>2 DEF FollowFits, FollowTyped
<1>4. K \in [Followers -> Follow]
  BY <1>1, <1>3
<1>5. ASSUME NEW g \in Followers, NEW h \in Followers, K[g].at \in Sending, K[h].at \in Sending PROVE g = h
  <2>1. K[f] = J
    BY <1>1
  <2>2. CASE g = f \/ h = f
    BY <1>2, <1>5, <2>1, <2>2 DEF SendsAlone
  <2>3. CASE g # f /\ h # f
    BY <1>2, <1>5, <2>3 DEF IInv, FollowsFit
  <2> QED BY <2>2, <2>3
<1>6. FollowsFit(K, R)
  BY <1>2, <1>4, <1>5 DEF FollowsFit
<1> QED BY <1>1, <1>6, Rests

(* The step of one follow that writes nothing.                             *)
LEMMA Goes ==
    ASSUME IInv, UNCHANGED <<chain, made>>, pool' \in Txs \cup {NoTx}, rounds' \in [Txs -> 0 .. Rounds],
           NEW f \in Followers, NEW J, Go(f, J), FollowFits(J, rec), SendsAlone(f, J)
    PROVE  IInv'
<1>1. PICK K : K = [job EXCEPT ![f] = J]
  OBVIOUS
<1>2. job \in [Followers -> Follow] /\ J \in Follow
  BY DEF IInv, FollowsFit, FollowFits, FollowTyped
<1>3. K \in [Followers -> Follow] /\ \A g \in Followers : K[g] = IF g = f THEN J ELSE job[g]
  BY <1>1, <1>2
<1>4. FollowsFit(K, rec)
  BY <1>3 DEF IInv, FollowsFit, SendsAlone
<1>5. job' = K /\ rec' = rec /\ RecordsFit(rec)
  BY <1>1 DEF Go, IInv
<1>6. PICK R : R = rec
  OBVIOUS
<1> QED BY <1>4, <1>5, <1>6, Rests

(* The counts of the history.                                              *)
LEMMA Counts == ASSUME IInv, NEW X, Counted(X) \/ Fault PROVE rounds' \in [Txs -> 0 .. Rounds]
<1>1. \A x \in Txs : rounds[x] \in 0 .. Rounds
  BY DEF IInv
<1>2. Rounds \in Nat
  BY TrackerAssumption
<1>3. \A n \in 0 .. Rounds : n < Rounds => n + 1 \in 0 .. Rounds
  BY <1>2
<1> QED BY <1>1, <1>2, <1>3 DEF Counted, Fault

LEMMA SteadyRests ==
    ASSUME IInv, Steady
    PROVE  UNCHANGED <<chain, made>> /\ pool' \in Txs \cup {NoTx} /\ rounds' \in [Txs -> 0 .. Rounds]
  BY Counts DEF IInv, Steady

(* A follow that ends.                                                     *)
LEMMA Ends ==
    ASSUME IInv, UNCHANGED <<chain, made>>, pool' \in Txs \cup {NoTx}, rounds' \in [Txs -> 0 .. Rounds],
           NEW f \in Followers, Go(f, Idle)
    PROVE  IInv'
<1>1. FollowFits(Idle, rec)
  BY IdleFits DEF IInv
<1>2. SendsAlone(f, Idle)
  BY IdleIs DEF SendsAlone, Sending
<1> QED BY <1>1, <1>2, Goes

---------------------------------------------------------------------------
(* What is written of a record.                                            *)

LEMMA WritesOne ==
    ASSUME NEW R, RecordsFit(R), NEW x \in Txs, NEW r, RecordFits(x, r)
    PROVE  RecordsFit([R EXCEPT ![x] = r])
<1>1. r \in Record
  BY DEF RecordFits
<1> QED BY <1>1 DEF RecordsFit

(* No record is given up as lost.                                          *)
Spared(R, S) == Undisturbed => \A y \in Txs : S[y].status = "CONFLICTED" => R[y].status = "CONFLICTED"

(* The resends are left alone.                                             *)
Unsent(R, S) == \A y \in Txs : S[y].resends = R[y].resends /\ S[y].rejections = R[y].rejections

(* settleFamily(): it rules out what a winner outlived.                    *)
LEMMA SettledFits ==
    ASSUME NEW R, RecordsFit(R), NEW x \in Txs, NEW X \in SUBSET Ruled(R, x)
    PROVE  /\ RecordsFit(Settled(R, X)) /\ Unsent(R, Settled(R, X)) /\ Spared(R, Settled(R, X))
           /\ \A y \in Txs \ X : Settled(R, X)[y] = R[y]
<1>1. PICK S : S = Settled(R, X)
  OBVIOUS
<1>2. \A y \in Txs : R[y] \in Record /\ RecordFits(y, R[y])
  BY DEF RecordsFit
<1>3. \A y \in Txs : S[y] = IF y \in X THEN [R[y] EXCEPT !.status = "SUPERSEDED"] ELSE R[y]
  BY <1>1 DEF Settled
<1>4. ASSUME NEW y \in Txs
      PROVE  S[y] \in Record /\ RecordFits(y, S[y])
             /\ S[y].resends = R[y].resends /\ S[y].rejections = R[y].rejections
             /\ (S[y].status = "CONFLICTED" => R[y].status = "CONFLICTED")
  <2>1. CASE y \notin X
    BY <1>2, <1>3, <2>1
  <2>2. CASE y \in X
    <3>1. PICK r : r = R[y]
      OBVIOUS
    <3>2. S[y] = [r EXCEPT !.status = "SUPERSEDED"] /\ r \in Record /\ RecordFits(y, r)
      BY <1>2, <1>3, <2>2, <3>1
    <3>3. PICK w \in Txs : R[w].status = "ACCEPTED" /\ w # y
      BY <2>2 DEF Ruled, Winners
    <3>4. ReorgsAreShallow => Outlived(y)
      BY <1>2, <3>3 DEF RecordFits, Final, Outlived
    <3>5. S[y] \in Record /\ S[y].status = "SUPERSEDED" /\ S[y].last = r.last /\ S[y].accepting = r.accepting
          /\ S[y].resends = r.resends /\ S[y].rejections = r.rejections
      BY <3>2 DEF Record, Statuses, Sticky
    <3>6. RecordFits(y, S[y])
      BY <3>2, <3>4, <3>5 DEF RecordFits, Final, RecordLost
    <3> QED BY <3>1, <3>5, <3>6
  <2> QED BY <2>1, <2>2
<1>5. RecordsFit(S)
  <2>1. S = [y \in Txs |-> S[y]]
    BY <1>1 DEF Settled
  <2> QED BY <1>4, <2>1 DEF RecordsFit
<1> QED BY <1>1, <1>3, <1>4, <1>5 DEF Unsent, Spared

LEMMA CheckedFits ==
    ASSUME NEW x, NEW r, RecordFits(x, r),
           NEW f, f.status \in Statuses, f.block \in 0 .. MaxBlocks, f.complete \in BOOLEAN, PlaceOf(f.block, x),
           ReorgsAreShallow => Final(x, f.status),
           Undisturbed => (f.status = "CONFLICTED" => Spent)
    PROVE  /\ RecordFits(x, Checked(r, f)) /\ Checked(r, f).status = f.status
           /\ Checked(r, f).resends = r.resends /\ Checked(r, f).rejections = r.rejections
<1>1. PICK c : c = Checked(r, f)
  OBVIOUS
<1>2. r \in Record
  BY DEF RecordFits
<1>3. PICK complete \in BOOLEAN : complete = (f.complete /\ f.status = "REPLACED")
  OBVIOUS
<1>4. c = [r EXCEPT !.status = f.status, !.accepting = f.block, !.complete = complete,
                    !.last = IF Positive(f) THEN "NONE" ELSE @]
  BY <1>1, <1>3 DEF Checked
<1>5. /\ c \in Record /\ c.status = f.status /\ c.accepting = f.block /\ c.last \in {r.last, "NONE"}
      /\ c.resends = r.resends /\ c.rejections = r.rejections
  BY <1>2, <1>4 DEF Record
<1>6. RecordFits(x, c)
  BY <1>5 DEF RecordFits, RecordLost
<1> QED BY <1>1, <1>5, <1>6

(* A record whose check begins: a location that left the chain is dropped. *)
LEMMA RepairedFits ==
    ASSUME IInv, NEW x \in Txs
    PROVE  /\ Repaired(x) \in 0 .. MaxBlocks /\ PlaceOf(Repaired(x), x)
           /\ Keep(x) \in Sticky \cup {"TRACKED"} /\ Keep(x) \in Statuses
           /\ ReorgsAreShallow => Final(x, Keep(x))
           /\ Keep(x) = "CONFLICTED" => rec[x].status = "CONFLICTED"
<1>1. PICK r : r = rec[x]
  OBVIOUS
<1>2. r \in Record /\ RecordFits(x, r)
  BY <1>1 DEF IInv, RecordsFit
<1>3. Repaired(x) \in {r.accepting, NoBlock}
  BY <1>1 DEF Repaired
<1>4. PlaceOf(NoBlock, x) /\ NoBlock \in 0 .. MaxBlocks
  BY NoBlockPlaced, TrackerAssumption DEF IInv, NoBlock
<1>5. r.accepting \in 0 .. MaxBlocks /\ PlaceOf(r.accepting, x)
  BY <1>2 DEF RecordFits, Record
<1>6. Keep(x) = (IF r.status \in Sticky THEN r.status ELSE "TRACKED")
  BY <1>1 DEF Keep
<1>7. Keep(x) \in Sticky \cup {"TRACKED"} /\ Keep(x) \in Statuses
  BY <1>6 DEF Sticky, Following, Statuses
<1>8. (ReorgsAreShallow => Final(x, Keep(x))) /\ (Keep(x) = "CONFLICTED" => rec[x].status = "CONFLICTED")
  BY <1>1, <1>2, <1>6 DEF RecordFits, Final
<1> QED BY <1>3, <1>4, <1>5, <1>7, <1>8

---------------------------------------------------------------------------
(* The steps of a follow.                                                  *)

LEMMA Mine ==
    ASSUME IInv, NEW f \in Followers
    PROVE  /\ FollowFits(job[f], rec) /\ FollowTyped(job[f]) /\ job[f] \in Follow
           /\ job[f].at # "idle" => job[f].tx \in Txs /\ RecordFits(job[f].tx, rec[job[f].tx])
  BY DEF IInv, FollowsFit, FollowFits, FollowTyped, RecordsFit

LEMMA OthersSpared ==
    ASSUME IInv, NEW f \in Followers, NEW R, Unsent(rec, R), NEW X, \A y \in Txs \ X : R[y].status = rec[y].status
    PROVE  \A g \in Followers \ {f} : Spares(rec, R, job[g], X)
<1> TAKE g \in Followers \ {f}
<1>1. job[g].at \in Sending => job[g].tx \in Txs
  BY Mine DEF Sending
<1> QED BY <1>1 DEF Unsent, Spares

LEMMA Starts == ASSUME IInv, NEW f \in Followers, NEW x \in Txs, Start(f, x) PROVE IInv' /\ Spared(rec, rec')
<1>1. PICK r : r = rec[x]
  OBVIOUS
<1>2. r \in Record /\ RecordFits(x, r) /\ rec \in [Txs -> Record]
  BY <1>1 DEF IInv, RecordsFit
<1>3. PICK c : c = [r EXCEPT !.accepting = Repaired(x), !.status = IF @ \in Sticky THEN @ ELSE "RECHECKING"]
  OBVIOUS
<1>4. PICK R : R = [rec EXCEPT ![x] = c]
  OBVIOUS
<1>5. rec' = R
  BY <1>1, <1>3, <1>4 DEF Start
<1>6. /\ c \in Record /\ c.accepting = Repaired(x) /\ c.last = r.last /\ c.resends = r.resends
      /\ c.rejections = r.rejections /\ (c.status = r.status \/ c.status = "RECHECKING")
      /\ (c.status = "CONFLICTED" <=> r.status = "CONFLICTED")
  BY <1>2, <1>3, RepairedFits DEF Record, Statuses, Sticky, Following
<1>7. RecordFits(x, c)
  BY <1>2, <1>6, RepairedFits DEF RecordFits, RecordLost, Final
<1>8. RecordsFit(R)
  BY <1>4, <1>7, WritesOne DEF IInv
<1>9. \A y \in Txs : R[y] = IF y = x THEN c ELSE rec[y]
  BY <1>2, <1>4
<1>10. Unsent(rec, R) /\ Spared(rec, R) /\ \A y \in Txs \ {x} : R[y].status = rec[y].status
  BY <1>1, <1>6, <1>9 DEF Unsent, Spared
<1>11. PICK J : J = [Idle EXCEPT !.at = "read", !.tx = x, !.by = r.replacedBy, !.keep = Keep(x)]
  OBVIOUS
<1>12. /\ J \in Follow /\ J.at = "read" /\ J.tx = x /\ J.keep = Keep(x) /\ J.status = "TRACKED"
       /\ J.block = NoBlock
  <2>1. r.replacedBy \in Txs \cup {NoTx} /\ Keep(x) \in Statuses
    BY <1>2, RepairedFits DEF Record
  <2> QED BY <1>11, <2>1, IdleIs DEF Follow, Searching
<1>13. FollowFits(J, R)
  <2>1. FollowTyped(J) /\ LastResend(J, R) /\ FollowLost(J)
    BY <1>12, RepairedFits DEF FollowTyped, LastResend, FollowLost, Searching, Sending
  <2>2. FollowKeeps(J, R)
    BY <1>1, <1>6, <1>9, <1>12, RepairedFits DEF FollowKeeps
  <2>3. PlaceOf(J.block, J.tx)
    BY <1>12, NoBlockPlaced DEF IInv
  <2>4. ReorgsAreShallow => FollowFinal(J)
    BY <1>12, RepairedFits DEF FollowFinal, Final
  <2> QED BY <2>1, <2>2, <2>3, <2>4 DEF FollowFits
<1>14. PICK K : K = [g \in Followers |-> IF g = f THEN J ELSE Outdated(job[g], x)]
  OBVIOUS
<1>15. job' = K
  BY <1>1, <1>11, <1>14 DEF Start
<1>16. ASSUME NEW g \in Followers
       PROVE  FollowFits(K[g], R) /\ (K[g].at \in Sending => job[g].at \in Sending /\ g # f)
  <2>1. CASE g = f
    BY <1>12, <1>13, <1>14, <2>1 DEF Sending
  <2>2. CASE g # f
    <3>1. FollowFits(job[g], rec) /\ ChainOK /\ Spares(rec, R, job[g], {x})
      BY <1>10, <2>2, Mine, OthersSpared DEF IInv
    <3>2. FollowFits(Outdated(job[g], x), R) /\ Outdated(job[g], x).at \in {job[g].at, "idle"}
      BY <3>1, OutdatedFits
    <3>3. K[g] = Outdated(job[g], x)
      BY <1>14, <2>2
    <3> QED BY <2>2, <3>2, <3>3 DEF Sending
  <2> QED BY <2>1, <2>2
<1>17. FollowsFit(K, R)
  <2>1. \A g \in Followers : K[g] \in Follow
    BY <1>16 DEF FollowFits, FollowTyped
  <2>2. K \in [Followers -> Follow]
    BY <1>14, <2>1
  <2> QED BY <1>16, <2>2 DEF FollowsFit, IInv
<1>18. UNCHANGED <<chain, made>> /\ pool' \in Txs \cup {NoTx} /\ rounds' \in [Txs -> 0 .. Rounds]
  BY Counts DEF Start, IInv
<1>19. IInv'
  BY <1>5, <1>8, <1>15, <1>17, <1>18, Rests
<1> QED BY <1>5, <1>10, <1>19

(* A check that has its result, J, for the record it is of.                *)
LEMMA ResultFits ==
    ASSUME NEW R, RecordsFit(R), NEW j, FollowFits(j, R), j.at \in {"read", "decide"},
           NEW J \in Follow, J.at = "write", J.tx = j.tx, J.keep = j.keep, Result(J, J.tx, J.keep),
           Undisturbed => (J.seen => Spent) \/ Positive(J)
    PROVE  FollowFits(J, R)
<1>1. J.tx \in Txs /\ J.keep \in Sticky \cup {"TRACKED"} /\ (j.at = "decide" => J.keep = "TRACKED")
  BY DEF FollowFits, FollowTyped, Searching
<1>2. FollowTyped(J) /\ LastResend(J, R) /\ PlaceOf(J.block, J.tx)
  BY <1>1 DEF FollowTyped, LastResend, Result, Searching, Sending, Positive, Sticky
<1>3. FollowKeeps(J, R)
  BY <1>1 DEF FollowFits, FollowKeeps
<1>4. ASSUME ReorgsAreShallow PROVE FollowFinal(J)
  <2>1. Final(J.tx, J.keep)
    BY <1>1, <1>4 DEF FollowFits, FollowFinal, Final, Searching
  <2>2. Final(J.tx, J.status)
    BY <2>1 DEF Result, Final, Positive
  <2> QED BY <2>1, <2>2 DEF FollowFinal
<1>5. Undisturbed => FollowLost(J)
  BY DEF FollowLost, Result, Positive, Lost
<1> QED BY <1>2, <1>3, <1>4, <1>5 DEF FollowFits

LEMMA Reads == ASSUME IInv, NEW f \in Followers, Read(f) \/ ReadFails(f) PROVE IInv' /\ UNCHANGED rec
<1>1. PICK j : j = job[f]
  OBVIOUS
<1>2. j.at = "read" /\ FollowFits(j, rec) /\ j \in Follow /\ j.tx \in Txs /\ j.keep \in Sticky \cup {"TRACKED"}
      /\ RecordFits(j.tx, rec[j.tx])
  BY <1>1, Mine DEF Read, ReadFails, FollowTyped
<1>3. PICK seen \in BOOLEAN : (Read(f) => seen = Observed(j.tx)) /\ (~Read(f) => seen = j.seen)
  <2>1. Observed(j.tx) \in BOOLEAN /\ j.seen \in BOOLEAN
    BY <1>2 DEF Observed, Follow
  <2>2. CASE Read(f)
    BY <2>1, <2>2
  <2>3. CASE ~Read(f)
    BY <2>1, <2>3
  <2> QED BY <2>2, <2>3
<1>4. \E k : Result(k, j.tx, j.keep) /\ (Read(f) \/ ~k.complete)
             /\ Go(f, Holding([j EXCEPT !.at = "write", !.seen = seen], k))
  <2>1. CASE Read(f)
    <3>1. seen = Observed(j.tx)
      BY <1>3, <2>1
    <3>2. Go(f, Holding([j EXCEPT !.at = "write", !.seen = Observed(j.tx)], Finding(j.tx, j.keep)))
      BY <1>1, <2>1 DEF Read
    <3>3. Result(Finding(j.tx, j.keep), j.tx, j.keep)
      BY <1>2, FindingResult DEF IInv
    <3> QED BY <2>1, <3>1, <3>2, <3>3
  <2>2. CASE ~Read(f)
    <3>1. PICK b : b = rec[j.tx].accepting
      OBVIOUS
    <3>2. b \in 0 .. MaxBlocks /\ PlaceOf(b, j.tx)
      BY <1>2, <3>1 DEF RecordFits, Record
    <3>3. Result(Nowhere(j.keep, b, FALSE), j.tx, j.keep) /\ ~Nowhere(j.keep, b, FALSE).complete
      BY <1>2, <3>2, NowhereResult DEF IInv, Nowhere
    <3>4. [j EXCEPT !.at = "write", !.seen = seen] = [j EXCEPT !.at = "write"]
      BY <1>2, <1>3, <2>2 DEF Follow
    <3> QED BY <1>1, <2>2, <3>1, <3>3, <3>4 DEF ReadFails
  <2> QED BY <2>1, <2>2
<1>5. PICK k : Result(k, j.tx, j.keep) /\ (Read(f) \/ ~k.complete)
               /\ Go(f, Holding([j EXCEPT !.at = "write", !.seen = seen], k))
  BY <1>4
<1>6. PICK J : J = Holding([j EXCEPT !.at = "write", !.seen = seen], k)
  OBVIOUS
<1>7. J \in Follow /\ J.at = "write" /\ J.tx = j.tx /\ J.keep = j.keep /\ J.seen = seen
      /\ J.status = k.status /\ J.block = k.block /\ J.complete = k.complete
  BY <1>2, <1>5, <1>6 DEF Holding, Follow, Searching, Result
<1>8. Result(J, J.tx, J.keep)
  BY <1>5, <1>7 DEF Result, Positive
<1>9. FollowFits(J, rec)
  <2>1. Undisturbed => (Read(f) /\ J.seen => Spent)
    <3>1. \A y \in Txs : Undisturbed => RecordLost(rec[y])
      BY DEF IInv, RecordsFit, RecordFits
    <3> QED BY <1>2, <1>3, <1>7, <3>1 DEF Observed, RecordLost
  <2>2. CASE Read(f)
    BY <1>2, <1>7, <1>8, <2>1, <2>2, ResultFits DEF IInv
  <2>3. CASE ~Read(f)
    <3>1. PICK I : I = [J EXCEPT !.seen = FALSE]
      OBVIOUS
    <3>2. I \in Follow /\ I.at = "write" /\ I.tx = j.tx /\ I.keep = j.keep /\ I.seen = FALSE
          /\ I.status = J.status /\ I.block = J.block /\ I.complete = J.complete
      BY <1>7, <3>1 DEF Follow
    <3>3. Result(I, I.tx, I.keep)
      BY <1>7, <1>8, <3>2 DEF Result, Positive
    <3>4. FollowFits(I, rec)
      BY <1>2, <3>2, <3>3, ResultFits DEF IInv
    <3>5. ~J.complete
      BY <1>5, <1>7, <2>3
    <3> QED BY <1>7, <3>2, <3>4, <3>5
            DEF FollowFits, FollowTyped, LastResend, FollowKeeps, FollowFinal, FollowLost, Positive
  <2> QED BY <2>2, <2>3
<1>10. UNCHANGED <<chain, made>> /\ pool' \in Txs \cup {NoTx} /\ rounds' \in [Txs -> 0 .. Rounds]
  BY SteadyRests, Counts DEF Read, ReadFails, IInv
<1>11. SendsAlone(f, J)
  BY <1>7 DEF SendsAlone, Sending
<1>12. Go(f, J)
  BY <1>5, <1>6
<1> QED BY <1>9, <1>10, <1>11, <1>12, Goes DEF Go

(* What is found is told to the family; then the follow f goes on with j.  *)
LEMMA Settles ==
    ASSUME IInv, NEW f \in Followers, Steady,
           NEW R, RecordsFit(R), Unsent(rec, R), Spared(rec, R),
           NEW X, \A y \in Txs \ X : R[y].status = rec[y].status,
           NEW j \in Follow, j.tx \in Txs, j.at \in {"write", "confirm"},
           Undisturbed => (j.complete /\ j.status \in {"TRACKED", "REPLACED"} /\ j.seen => Lost(j.tx)),
           Settle(f, j, R, X)
    PROVE  IInv' /\ Spared(rec, rec')
<1>1. PICK ruled : ruled = (IF j.rest THEN {} ELSE Ruled(R, j.tx))
  OBVIOUS
<1>2. ruled \in SUBSET Ruled(R, j.tx)
  BY <1>1
<1>3. PICK S : S = Settled(R, ruled)
  OBVIOUS
<1>4. rec' = S
  BY <1>1, <1>3 DEF Settle
<1>5. RecordsFit(S) /\ Unsent(R, S) /\ Spared(R, S) /\ \A y \in Txs \ ruled : S[y] = R[y]
  BY <1>2, <1>3, SettledFits
<1>6. Unsent(rec, S) /\ Spared(rec, S) /\ \A y \in Txs \ (X \cup ruled) : S[y].status = rec[y].status
  BY <1>5 DEF Unsent, Spared
<1>7. PICK D : D = [j EXCEPT !.at = "decide", !.keep = "TRACKED", !.block = NoBlock, !.stale = FALSE]
  OBVIOUS
<1>8. PICK J : J = IF j.tx \in ruled \/ j.status \notin {"TRACKED", "REPLACED"} \/ (j.newer /\ j.status = "TRACKED")
                   THEN Idle ELSE D
  OBVIOUS
<1>9. job' = [g \in Followers |-> IF g = f THEN J ELSE Overtaken(job[g], X \cup ruled)]
  BY <1>1, <1>7, <1>8 DEF Settle
<1>10. /\ D \in Follow /\ D.at = "decide" /\ D.tx = j.tx /\ D.keep = "TRACKED" /\ D.block = NoBlock
       /\ D.status = j.status /\ D.complete = j.complete /\ D.seen = j.seen
  BY <1>7, IdleIs DEF Follow
<1>11. FollowFits(D, S)
  <2>1. FollowTyped(D) /\ LastResend(D, S) /\ FollowKeeps(D, S) /\ FollowFinal(D)
    BY <1>10 DEF FollowTyped, LastResend, FollowKeeps, FollowFinal, Searching, Sending
  <2>2. PlaceOf(D.block, D.tx)
    BY <1>10, NoBlockPlaced DEF IInv
  <2>3. Undisturbed => FollowLost(D)
    BY <1>10 DEF FollowLost
  <2> QED BY <2>1, <2>2, <2>3 DEF FollowFits
<1>12. FollowFits(J, S) /\ SendsAlone(f, J)
  BY <1>8, <1>10, <1>11, IdleFits, IdleIs DEF IInv, SendsAlone, Sending
<1>13. \A g \in Followers \ {f} : Spares(rec, S, job[g], X \cup ruled)
  BY <1>6, OthersSpared
<1>14. IInv'
  BY <1>4, <1>5, <1>9, <1>12, <1>13, SteadyRests, Writes
<1> QED BY <1>4, <1>6, <1>14

LEMMA Reports ==
    ASSUME IInv, NEW f \in Followers, Steady, NEW j \in Follow, j.tx \in Txs, j.at \in {"write", "confirm"},
           PlaceOf(j.block, j.tx), ReorgsAreShallow => Final(j.tx, j.status),
           Undisturbed => (j.status = "CONFLICTED" => rec[j.tx].status = "CONFLICTED"),
           Undisturbed => (j.complete /\ j.status \in {"TRACKED", "REPLACED"} /\ j.seen => Lost(j.tx)),
           Report(f, j)
    PROVE  IInv' /\ Spared(rec, rec')
<1>1. PICK c : c = Checked(rec[j.tx], j)
  OBVIOUS
<1>2. RecordFits(j.tx, rec[j.tx]) /\ rec \in [Txs -> Record]
  BY DEF IInv, RecordsFit
<1>3. j.status \in Statuses /\ j.block \in 0 .. MaxBlocks /\ j.complete \in BOOLEAN
  BY DEF Follow
<1>4. Undisturbed => (j.status = "CONFLICTED" => Spent)
  BY <1>2 DEF RecordFits, RecordLost
<1>5. RecordFits(j.tx, c) /\ c.status = j.status /\ c.resends = rec[j.tx].resends
      /\ c.rejections = rec[j.tx].rejections
  BY <1>1, <1>2, <1>3, <1>4, CheckedFits
<1>6. PICK R : R = [rec EXCEPT ![j.tx] = c]
  OBVIOUS
<1>7. RecordsFit(R) /\ \A y \in Txs : R[y] = IF y = j.tx THEN c ELSE rec[y]
  BY <1>2, <1>5, <1>6, WritesOne DEF IInv
<1>8. Unsent(rec, R) /\ Spared(rec, R) /\ \A y \in Txs \ {j.tx} : R[y].status = rec[y].status
  BY <1>5, <1>7 DEF Unsent, Spared
<1>9. Settle(f, j, R, {j.tx})
  BY <1>1, <1>6 DEF Report
<1> QED BY <1>7, <1>8, <1>9, Settles

(* While no block was ever removed, every block that existed is selected.  *)
LEMMA AllSelected == ASSUME ChainOK, Undisturbed, NEW b \in Nat, b # NoBlock, b <= made PROVE Selected(b)
<1>1. b \in 1 .. Len(chain) /\ chain[b].id = b
  BY DEF ChainOK, Undisturbed, NoBlock
<1> QED BY <1>1 DEF Selected

(* A result that is taken back.                                            *)
LEMMA Revokes ==
    ASSUME IInv, NEW f \in Followers, Steady, job[f].at \in {"write", "confirm"}, Positive(job[f]),
           ~Selected(job[f].block), Report(f, Revoked(f))
    PROVE  IInv' /\ Spared(rec, rec')
<1>1. PICK j : j = job[f]
  OBVIOUS
<1>2. j \in Follow /\ FollowFits(j, rec) /\ FollowTyped(j) /\ j.tx \in Txs
  BY <1>1, Mine
<1>3. PICK J : J = Revoked(f)
  OBVIOUS
<1>4. /\ J \in Follow /\ J.at = j.at /\ J.tx = j.tx /\ J.status = j.keep /\ J.block = NoBlock
      /\ J.complete = FALSE
  <2>1. PICK n : n = Nowhere(j.keep, NoBlock, FALSE)
    OBVIOUS
  <2>2. n.status = j.keep /\ n.block = NoBlock /\ n.complete = FALSE /\ j.keep \in Statuses
    BY <1>2, <2>1 DEF Nowhere, Follow
  <2>3. J = [j EXCEPT !.status = n.status, !.block = n.block, !.complete = n.complete]
    BY <1>1, <1>3, <2>1 DEF Revoked, Holding
  <2> QED BY <1>2, <2>2, <2>3, IdleIs DEF Follow
<1>5. ~Undisturbed
  <2>1. j.block # NoBlock /\ j.block \in Nat /\ j.block <= made
    BY <1>1, <1>2, TrackerAssumption DEF FollowTyped, FollowFits, PlaceOf, Follow
  <2> QED BY <1>1, <2>1, AllSelected DEF IInv
<1>6. ReorgsAreShallow => Final(J.tx, J.status)
  BY <1>1, <1>2, <1>4 DEF FollowFits, FollowFinal, Searching
<1>7. PlaceOf(J.block, J.tx)
  BY <1>4, NoBlockPlaced DEF IInv
<1>8. J.tx \in Txs /\ J.at \in {"write", "confirm"} /\ Report(f, J)
  BY <1>1, <1>2, <1>3, <1>4
<1> QED BY <1>4, <1>5, <1>6, <1>7, <1>8, Reports

(* A step of f that writes r, of its own record, and goes on as J.         *)
LEMMA WritesMine ==
    ASSUME IInv, NEW f \in Followers, job[f].at # "idle",
           UNCHANGED <<chain, made>>, pool' \in Txs \cup {NoTx}, rounds' \in [Txs -> 0 .. Rounds],
           NEW r, RecordFits(job[f].tx, r),
           \/ r.resends = rec[job[f].tx].resends /\ r.rejections = rec[job[f].tx].rejections
           \/ \A g \in Followers \ {f} : job[g].at \notin Sending,
           NEW J, \A R : R[job[f].tx] = r => FollowFits(J, R), SendsAlone(f, J), Write(f, r, J)
    PROVE  IInv' /\ \A y \in Txs : rec'[y] = IF y = job[f].tx THEN r ELSE rec[y]
<1>1. PICK x \in Txs : x = job[f].tx
  BY Mine
<1>2. PICK R : R = [rec EXCEPT ![x] = r]
  OBVIOUS
<1>3. rec \in [Txs -> Record]
  BY DEF IInv, RecordsFit
<1>4. RecordsFit(R) /\ \A y \in Txs : R[y] = IF y = x THEN r ELSE rec[y]
  BY <1>1, <1>2, <1>3, WritesOne DEF IInv
<1>5. FollowFits(J, R)
  BY <1>1, <1>4
<1>6. \A g \in Followers \ {f} : Spares(rec, R, job[g], {x})
  <2>1. \A y \in Txs \ {x} : R[y].status = rec[y].status
    BY <1>4
  <2>2. CASE r.resends = rec[x].resends /\ r.rejections = rec[x].rejections
    <3>1. Unsent(rec, R)
      BY <1>4, <2>2 DEF Unsent
    <3> QED BY <2>1, <3>1, OthersSpared
  <2>3. CASE \A g \in Followers \ {f} : job[g].at \notin Sending
    BY <2>1, <2>3 DEF Spares
  <2> QED BY <1>1, <2>2, <2>3
<1>7. rec' = R /\ job' = [g \in Followers |-> IF g = f THEN J ELSE Overtaken(job[g], {x})]
  BY <1>1, <1>2 DEF Write
<1>8. IInv'
  BY <1>4, <1>5, <1>6, <1>7, Writes, SMTT(30)
<1> QED BY <1>1, <1>4, <1>7, <1>8

LEMMA Commits == ASSUME IInv, NEW f \in Followers, Commit(f) PROVE IInv' /\ Spared(rec, rec')
<1>1. PICK j : j = job[f]
  OBVIOUS
<1>2. j.at = "write" /\ j \in Follow /\ FollowFits(j, rec) /\ FollowTyped(j) /\ j.tx \in Txs
      /\ RecordFits(j.tx, rec[j.tx]) /\ Steady
  BY <1>1, Mine DEF Commit
<1>3. PICK gone \in Heard(Positive(j) /\ ~Selected(j.block)) :
        IF gone \/ ~Positive(j) THEN Report(f, IF gone THEN Revoked(f) ELSE j)
        ELSE Write(f, Checked(rec[j.tx], j), [j EXCEPT !.at = "confirm"])
  BY <1>1 DEF Commit
<1>4. CASE gone
  <2>1. Positive(j) /\ ~Selected(j.block) /\ Report(f, Revoked(f))
    BY <1>3, <1>4 DEF Heard
  <2> QED BY <1>1, <1>2, <2>1, Revokes
<1>5. CASE ~gone /\ ~Positive(j)
  <2>1. j.status = j.keep /\ Report(f, j)
    BY <1>2, <1>3, <1>5 DEF FollowTyped
  <2>2. PlaceOf(j.block, j.tx) /\ (ReorgsAreShallow => Final(j.tx, j.status))
    BY <1>2 DEF FollowFits, FollowFinal, Searching
  <2>3. j.status = "CONFLICTED" => rec[j.tx].status = "CONFLICTED"
    BY <1>2, <2>1 DEF FollowFits, FollowKeeps
  <2>4. Undisturbed => (j.complete /\ j.status \in {"TRACKED", "REPLACED"} /\ j.seen => Lost(j.tx))
    BY <1>2 DEF FollowFits, FollowLost
  <2> QED BY <1>2, <2>1, <2>2, <2>3, <2>4, Reports
<1>6. CASE ~gone /\ Positive(j)
  <2>1. PICK J : J = [j EXCEPT !.at = "confirm"]
    OBVIOUS
  <2>2. /\ J \in Follow /\ J.at = "confirm" /\ J.tx = j.tx /\ J.keep = j.keep /\ J.status = j.status
        /\ J.block = j.block
    BY <1>2, <2>1 DEF Follow, Searching
  <2>3. \A R : FollowFits(J, R)
    <3>1. FollowTyped(J) /\ FollowLost(J)
      BY <1>2, <1>6, <2>2 DEF FollowTyped, FollowLost, Positive, Searching
    <3>2. PlaceOf(J.block, J.tx) /\ (ReorgsAreShallow => FollowFinal(J))
      BY <1>2, <2>2 DEF FollowFits, FollowFinal, Searching
    <3>3. \A R : LastResend(J, R) /\ FollowKeeps(J, R)
      BY <2>2 DEF LastResend, FollowKeeps, Sending
    <3> QED BY <3>1, <3>2, <3>3 DEF FollowFits
  <2>4. PICK c : c = Checked(rec[j.tx], j)
    OBVIOUS
  <2>5. RecordFits(j.tx, c) /\ c.status = j.status /\ c.resends = rec[j.tx].resends
        /\ c.rejections = rec[j.tx].rejections
    <3>1. j.status \in Statuses /\ j.block \in 0 .. MaxBlocks /\ j.complete \in BOOLEAN /\ PlaceOf(j.block, j.tx)
      BY <1>2 DEF Follow, FollowFits
    <3>2. (ReorgsAreShallow => Final(j.tx, j.status)) /\ j.status # "CONFLICTED"
      BY <1>2, <1>6 DEF FollowFits, FollowFinal, Searching, Positive
    <3> QED BY <1>2, <2>4, <3>1, <3>2, CheckedFits
  <2>6. Write(f, c, J) /\ SendsAlone(f, J)
    BY <1>3, <1>6, <2>1, <2>2, <2>4 DEF SendsAlone, Sending
  <2>7. IInv' /\ \A y \in Txs : rec'[y] = IF y = j.tx THEN c ELSE rec[y]
    BY <1>1, <1>2, <2>3, <2>5, <2>6, SteadyRests, WritesMine
  <2>8. c.status # "CONFLICTED"
    BY <1>6, <2>5 DEF Positive
  <2> QED BY <2>7, <2>8 DEF Spared
<1> QED BY <1>4, <1>5, <1>6

LEMMA Confirms == ASSUME IInv, NEW f \in Followers, Confirm(f) PROVE IInv' /\ Spared(rec, rec')
<1>1. PICK j : j = job[f]
  OBVIOUS
<1>2. j.at = "confirm" /\ j \in Follow /\ FollowTyped(j) /\ j.tx \in Txs /\ Positive(j) /\ Steady
  BY <1>1, Mine DEF Confirm, FollowTyped
<1>3. PICK gone \in Heard(~Selected(j.block)) :
        IF ~gone THEN Settle(f, j, rec, {})
        ELSE IF j.stale THEN Go(f, Idle)
        ELSE Report(f, Revoked(f))
  BY <1>1 DEF Confirm
<1>4. CASE ~gone
  <2>1. PICK R : R = rec
    OBVIOUS
  <2>2. Unsent(rec, R) /\ Spared(rec, R) /\ RecordsFit(R) /\ \A y \in Txs \ {} : R[y].status = rec[y].status
    BY <2>1 DEF Unsent, Spared, IInv
  <2>3. Settle(f, j, R, {}) /\ j.status \notin {"TRACKED", "REPLACED"}
    BY <1>2, <1>3, <1>4, <2>1 DEF Positive
  <2> QED BY <1>2, <2>2, <2>3, Settles
<1>5. CASE gone /\ j.stale
  BY <1>2, <1>3, <1>5, SteadyRests, Ends DEF Go, Spared
<1>6. CASE gone /\ ~j.stale
  <2>1. ~Selected(j.block) /\ Report(f, Revoked(f))
    BY <1>3, <1>6 DEF Heard
  <2> QED BY <1>1, <1>2, <2>1, Revokes
<1> QED BY <1>4, <1>5, <1>6

(* A follow past its searches: what it does not need of the records.       *)
Late(J) ==
    /\ J \in Follow /\ J.tx \in Txs /\ J.keep = "TRACKED" /\ J.block = NoBlock
    /\ J.at \in {"decide", "verdict", "resend"} /\ (J.at = "verdict" => J.says \in Verdicts)
    /\ Undisturbed => FollowLost(J)

LEMMA LateFits == ASSUME ChainOK, NEW J, Late(J), NEW R PROVE FollowFits(J, R)
<1>1. FollowTyped(J) /\ LastResend(J, R) /\ FollowKeeps(J, R) /\ FollowFinal(J)
  BY DEF Late, FollowTyped, LastResend, FollowKeeps, FollowFinal, Searching, Sending
<1>2. PlaceOf(J.block, J.tx)
  BY NoBlockPlaced DEF Late
<1> QED BY <1>1, <1>2 DEF FollowFits, Late

LEMMA LateGoes ==
    ASSUME IInv, NEW f \in Followers, UNCHANGED <<chain, made>>, pool' \in Txs \cup {NoTx},
           rounds' \in [Txs -> 0 .. Rounds], NEW J, Late(J), Go(f, J)
    PROVE  IInv' /\ UNCHANGED rec
<1>1. FollowFits(J, rec) /\ SendsAlone(f, J)
  BY LateFits DEF IInv, Late, SendsAlone, Sending
<1> QED BY <1>1, Goes DEF Go

LEMMA IdleGoes == ASSUME IInv, NEW f \in Followers, Steady, Go(f, Idle) PROVE IInv' /\ UNCHANGED rec
  BY SteadyRests, Ends DEF Go

(* A step that writes a record and ends, or goes on late.                  *)
LEMMA LateWrites ==
    ASSUME IInv, NEW f \in Followers, job[f].at # "idle", Steady,
           NEW r, RecordFits(job[f].tx, r),
           \/ r.resends = rec[job[f].tx].resends /\ r.rejections = rec[job[f].tx].rejections
           \/ \A g \in Followers \ {f} : job[g].at \notin Sending,
           NEW J, J = Idle \/ Late(J), Write(f, r, J)
    PROVE  IInv' /\ \A y \in Txs : rec'[y] = IF y = job[f].tx THEN r ELSE rec[y]
<1>1. \A R : FollowFits(J, R)
  BY LateFits, IdleFits DEF IInv
<1>2. SendsAlone(f, J)
  BY IdleIs DEF SendsAlone, Late, Sending
<1> QED BY <1>1, <1>2, SteadyRests, WritesMine

LEMMA RestBacksUp == ASSUME IInv, NEW f \in Followers, RestBackup(f) PROVE IInv' /\ UNCHANGED rec
<1>1. PICK j : j = job[f]
  OBVIOUS
<1>2. j.at = "decide" /\ FollowFits(j, rec) /\ j \in Follow /\ j.tx \in Txs /\ j.keep = "TRACKED" /\ Steady
  BY <1>1, Mine DEF RestBackup, FollowTyped, Searching
<1>3. CASE j.newer \/ rec[j.tx].status # "TRACKED"
  BY <1>1, <1>2, <1>3, IdleGoes DEF RestBackup
<1>4. CASE ~(j.newer \/ rec[j.tx].status # "TRACKED")
  <2>1. PICK b \in 1 .. made :
          OfferedBlock(j.tx, b) /\ Go(f, Holding([j EXCEPT !.at = "write", !.rest = TRUE], At(b)))
    BY <1>1, <1>4 DEF RestBackup
  <2>2. b \in 1 .. MaxBlocks /\ PlaceOf(b, j.tx) /\ Selected(b)
    BY <2>1, BlockOfPlaces DEF OfferedBlock, IInv
  <2>3. PICK k : k = At(b)
    OBVIOUS
  <2>4. Result(k, j.tx, j.keep) /\ Positive(k)
    BY <2>2, <2>3, AtResult DEF IInv, At, Positive, AcceptanceStep
  <2>5. PICK J : J = Holding([j EXCEPT !.at = "write", !.rest = TRUE], k)
    OBVIOUS
  <2>6. J \in Follow /\ J.at = "write" /\ J.tx = j.tx /\ J.keep = j.keep
        /\ J.status = k.status /\ J.block = k.block /\ J.complete = k.complete
    BY <1>2, <2>4, <2>5 DEF Holding, Follow, Searching, Result
  <2>7. Result(J, J.tx, J.keep) /\ Positive(J)
    BY <2>4, <2>6 DEF Result, Positive
  <2>8. FollowFits(J, rec)
    BY <1>2, <2>6, <2>7, ResultFits DEF IInv
  <2>9. Go(f, J) /\ SendsAlone(f, J)
    BY <2>1, <2>3, <2>5, <2>6 DEF SendsAlone, Sending
  <2> QED BY <1>2, <2>8, <2>9, SteadyRests, Goes DEF Go
<1> QED BY <1>3, <1>4

(* The check that a follow goes on with after the revival.                 *)
LEMMA AdoptedLate ==
    ASSUME IInv, NEW x \in Txs, NEW r \in Record, NEW c \in BOOLEAN
    PROVE  Late(Adopted(x, r, c))
<1>1. PICK J : J = Adopted(x, r, c)
  OBVIOUS
<1>2. r.replacedBy \in Txs \cup {NoTx} /\ r.status \in Statuses
  BY DEF Record
<1>3. /\ J \in Follow /\ J.at = "decide" /\ J.tx = x /\ J.keep = "TRACKED" /\ J.block = NoBlock
      /\ J.seen = FALSE
  BY <1>1, <1>2, IdleIs DEF Adopted, Follow
<1>4. Late(J)
  BY <1>3 DEF Late, FollowLost
<1> QED BY <1>1, <1>4

LEMMA Revives == ASSUME IInv, NEW f \in Followers, Revive(f) PROVE IInv' /\ Spared(rec, rec')
<1>1. PICK j : j = job[f]
  OBVIOUS
<1>2. j.at = "decide" /\ FollowFits(j, rec) /\ j \in Follow /\ j.tx \in Txs /\ j.keep = "TRACKED"
      /\ j.status = "REPLACED" /\ Steady
  BY <1>1, Mine DEF Revive, FollowTyped, Searching
<1>3. PICK r : r = rec[j.tx]
  OBVIOUS
<1>4. r \in Record /\ RecordFits(j.tx, r)
  BY <1>2, <1>3 DEF IInv, RecordsFit
<1>5. CASE r.status # "REPLACED"
  <2>1. PICK c \in BOOLEAN : Go(f, Adopted(j.tx, r, c))
    BY <1>1, <1>3, <1>5 DEF Revive
  <2>2. Late(Adopted(j.tx, r, c))
    BY <1>2, <1>4, AdoptedLate
  <2>3. IInv' /\ UNCHANGED rec
    BY <1>2, <2>1, <2>2, SteadyRests, LateGoes
  <2> QED BY <2>3 DEF Spared
<1>6. CASE r.status = "REPLACED"
  <2>1. PICK v : v = [r EXCEPT !.status = "TRACKED", !.replacedBy = NoTx, !.complete = FALSE]
    OBVIOUS
  <2>2. /\ v \in Record /\ v.status = "TRACKED" /\ v.accepting = r.accepting /\ v.last = r.last
        /\ v.resends = r.resends /\ v.rejections = r.rejections /\ r.complete \in BOOLEAN
    BY <1>4, <2>1 DEF Record, Statuses, Following
  <2>3. RecordFits(j.tx, v)
    BY <1>4, <2>2 DEF RecordFits, Final, RecordLost
  <2>4. PICK N : N = [j EXCEPT !.status = "TRACKED", !.by = NoTx, !.rest = TRUE]
    OBVIOUS
  <2>5. /\ N \in Follow /\ N.at = "decide" /\ N.tx = j.tx /\ N.keep = "TRACKED" /\ N.block = j.block
        /\ N.status = "TRACKED" /\ N.complete = j.complete /\ N.seen = j.seen
    BY <1>2, <2>4 DEF Follow, Statuses, Following
  <2>6. PICK J : J = IF j.newer THEN Adopted(j.tx, v, r.complete) ELSE N
    OBVIOUS
  <2>7. Write(f, v, J)
    BY <1>1, <1>3, <1>6, <2>1, <2>4, <2>6 DEF Revive
  <2>8. \A R : FollowFits(J, R)
    <3>1. CASE j.newer
      <4>1. Late(J)
        BY <1>2, <2>2, <2>6, <3>1, AdoptedLate
      <4> QED BY <4>1, LateFits DEF IInv
    <3>2. CASE ~j.newer
      <4>1. J = N
        BY <2>6, <3>2
      <4>2. FollowTyped(N) /\ FollowFinal(N) /\ \A R : LastResend(N, R) /\ FollowKeeps(N, R)
        BY <1>2, <2>5 DEF FollowTyped, FollowFinal, LastResend, FollowKeeps, Searching, Sending
      <4>3. PlaceOf(N.block, N.tx) /\ (Undisturbed => FollowLost(N))
        BY <1>2, <2>5 DEF FollowFits, FollowLost
      <4> QED BY <4>1, <4>2, <4>3 DEF FollowFits
    <3> QED BY <3>1, <3>2
  <2>9. SendsAlone(f, J)
    BY <2>5, <2>6, IdleIs DEF SendsAlone, Sending, Adopted
  <2>10. IInv' /\ \A y \in Txs : rec'[y] = IF y = j.tx THEN v ELSE rec[y]
    BY <1>1, <1>2, <1>3, <2>2, <2>3, <2>7, <2>8, <2>9, SteadyRests, WritesMine
  <2> QED BY <2>2, <2>10 DEF Spared
<1> QED BY <1>5, <1>6

(* A record is given up by a follow that ends with it, on an observation   *)
(* that was made before its search, or after.                              *)
Blameless ==
    \A x \in Txs :
        (/\ rec'[x].status = "CONFLICTED" /\ rec[x].status # "CONFLICTED"
         /\ Undisturbed /\ OnChain(x))
            => /\ Observed(x)
               /\ \E f \in Followers : job[f].tx = x /\ ~job[f].seen /\ job'[f].at = "idle"

LEMMA GivesUp ==
    ASSUME IInv, NEW f \in Followers, job[f].at # "idle", Steady,
           Undisturbed => Spent,
           Undisturbed => (job[f].seen => Lost(job[f].tx)),
           Observed(job[f].tx),
           Write(f, [rec[job[f].tx] EXCEPT !.status = "CONFLICTED"], Idle)
    PROVE  IInv' /\ Blameless
<1>1. PICK x \in Txs : x = job[f].tx
  BY Mine
<1>2. PICK r : r = rec[x]
  OBVIOUS
<1>3. r \in Record /\ RecordFits(x, r)
  BY <1>2 DEF IInv, RecordsFit
<1>4. PICK c : c = [r EXCEPT !.status = "CONFLICTED"]
  OBVIOUS
<1>5. /\ c \in Record /\ c.status = "CONFLICTED" /\ c.accepting = r.accepting
      /\ c.resends = r.resends /\ c.rejections = r.rejections
  BY <1>3, <1>4 DEF Record, Statuses, Sticky
<1>6. RecordFits(x, c)
  BY <1>3, <1>5 DEF RecordFits, Final, RecordLost
<1>7. Write(f, c, Idle)
  BY <1>1, <1>2, <1>4
<1>8. IInv' /\ \A y \in Txs : rec'[y] = IF y = x THEN c ELSE rec[y]
  BY <1>1, <1>2, <1>5, <1>6, <1>7, LateWrites
<1>9. job'[f].at = "idle"
  BY <1>7, IdleIs DEF Write
<1>10. Undisturbed => (OnChain(x) => ~job[f].seen)
  BY <1>1 DEF Lost
<1>11. Blameless
  BY <1>1, <1>8, <1>9, <1>10 DEF Blameless
<1> QED BY <1>8, <1>11

LEMMA SparedIsBlameless == Spared(rec, rec') => Blameless
  BY DEF Spared, Blameless

LEMMA SettlesReplacedLost == ASSUME IInv, NEW f \in Followers, SettleReplacedLost(f) PROVE IInv' /\ Blameless
<1>1. PICK j : j = job[f]
  OBVIOUS
<1>2. j.at = "decide" /\ FollowFits(j, rec) /\ j.status = "REPLACED" /\ Steady
  BY <1>1, Mine DEF SettleReplacedLost
<1>3. PICK told \in Heard(OnChain(j.tx)) :
        IF Inherits(f) /\ ~told THEN Write(f, [rec[j.tx] EXCEPT !.status = "CONFLICTED"], Idle)
        ELSE Go(f, Idle)
  BY <1>1 DEF SettleReplacedLost
<1>4. CASE Inherits(f) /\ ~told
  <2>1. j.complete /\ \E y \in Txs \ {j.tx} : rec[y].status = "CONFLICTED"
    BY <1>1, <1>4 DEF Inherits
  <2>2. Undisturbed => Spent
    BY <2>1 DEF IInv, RecordsFit, RecordFits, RecordLost
  <2>3. Undisturbed => (j.seen => Lost(j.tx))
    BY <1>2, <2>1 DEF FollowFits, FollowLost
  <2>4. Observed(j.tx)
    BY <2>1 DEF Observed
  <2> QED BY <1>1, <1>2, <1>3, <1>4, <2>2, <2>3, <2>4, GivesUp
<1>5. CASE ~(Inherits(f) /\ ~told)
  <2>1. Spared(rec, rec') /\ IInv'
    BY <1>2, <1>3, <1>5, IdleGoes DEF Spared
  <2> QED BY <2>1, SparedIsBlameless
<1> QED BY <1>4, <1>5

LEMMA Diagnoses ==
    ASSUME IInv, NEW f \in Followers, Diagnose(f) \/ DiagnosisFails(f) PROVE IInv' /\ UNCHANGED rec
<1>1. PICK j : j = job[f]
  OBVIOUS
<1>2. j.at = "decide" /\ FollowFits(j, rec) /\ j \in Follow /\ j.tx \in Txs
      /\ j.status = "TRACKED" /\ j.complete
  BY <1>1, Mine DEF Diagnose, DiagnosisFails, MayDiagnose
<1>3. \E says \in Verdicts :
        /\ says = "CONFLICT" => Spent
        /\ Go(f, [Idle EXCEPT !.at = "verdict", !.tx = j.tx, !.newer = j.newer, !.seen = j.seen,
                              !.says = says])
  <2>1. CASE Diagnose(f)
    <3>1. PICK says : says = IF pool = j.tx THEN "NONE" ELSE IF Spent THEN "CONFLICT" ELSE "DROPPED"
      OBVIOUS
    <3>2. says \in Verdicts /\ (says = "CONFLICT" => Spent)
      BY <3>1 DEF Verdicts
    <3> QED BY <1>1, <2>1, <3>1, <3>2 DEF Diagnose
  <2>2. CASE DiagnosisFails(f)
    <3>1. PICK i : i = Idle
      OBVIOUS
    <3>2. i \in Follow /\ i.says = "NONE"
      BY <3>1, IdleIs
    <3>3. [i EXCEPT !.at = "verdict", !.tx = j.tx, !.newer = j.newer, !.seen = j.seen, !.says = "NONE"]
          = [i EXCEPT !.at = "verdict", !.tx = j.tx, !.newer = j.newer, !.seen = j.seen]
      BY <3>2 DEF Follow
    <3> QED BY <1>1, <2>2, <3>1, <3>3 DEF DiagnosisFails, Verdicts
  <2> QED BY <2>1, <2>2
<1>4. PICK says \in Verdicts :
        /\ says = "CONFLICT" => Spent
        /\ Go(f, [Idle EXCEPT !.at = "verdict", !.tx = j.tx, !.newer = j.newer, !.seen = j.seen,
                              !.says = says])
  BY <1>3
<1>5. PICK J : J = [Idle EXCEPT !.at = "verdict", !.tx = j.tx, !.newer = j.newer, !.seen = j.seen,
                                !.says = says]
  OBVIOUS
<1>6. /\ J \in Follow /\ J.at = "verdict" /\ J.tx = j.tx /\ J.keep = "TRACKED" /\ J.block = NoBlock
      /\ J.says = says /\ J.seen = j.seen
  <2>1. j.newer \in BOOLEAN /\ j.seen \in BOOLEAN
    BY <1>2 DEF Follow
  <2> QED BY <1>2, <1>4, <1>5, <2>1, IdleIs DEF Follow
<1>7. Undisturbed => FollowLost(J)
  BY <1>2, <1>4, <1>6 DEF FollowFits, FollowLost
<1>8. Late(J)
  BY <1>2, <1>4, <1>6, <1>7 DEF Late
<1>9. UNCHANGED <<chain, made>> /\ pool' \in Txs \cup {NoTx} /\ rounds' \in [Txs -> 0 .. Rounds]
  BY SteadyRests, Counts DEF Diagnose, DiagnosisFails, IInv
<1> QED BY <1>4, <1>5, <1>8, <1>9, LateGoes

LEMMA Stops == ASSUME IInv, NEW f \in Followers, Done(f) \/ Die(f) PROVE IInv' /\ UNCHANGED rec
<1>1. UNCHANGED <<chain, made>> /\ pool' \in Txs \cup {NoTx} /\ rounds' \in [Txs -> 0 .. Rounds]
  BY SteadyRests, Counts DEF Done, Die, IInv
<1>2. Go(f, Idle)
  BY DEF Done, Die
<1> QED BY <1>1, <1>2, Ends DEF Go

LEMMA Concludes == ASSUME IInv, NEW f \in Followers, Conclude(f) PROVE IInv' /\ Blameless
<1>1. PICK j : j = job[f]
  OBVIOUS
<1>2. j.at = "verdict" /\ FollowFits(j, rec) /\ j \in Follow /\ j.tx \in Txs /\ j.says \in Verdicts /\ Steady
  BY <1>1, Mine DEF Conclude, FollowTyped
<1>3. PICK r : r = rec[j.tx]
  OBVIOUS
<1>4. r \in Record /\ RecordFits(j.tx, r)
  BY <1>2, <1>3 DEF IInv, RecordsFit
<1>5. PICK told \in Heard(OnChain(j.tx)) :
        IF told \/ ~Stands(f) THEN Go(f, Idle)
        ELSE IF Confirmed(j.tx, j.says) /\ j.says = "CONFLICT"
        THEN Write(f, [r EXCEPT !.status = "CONFLICTED"], Idle)
        ELSE \E next \in {"idle"} \cup (IF Confirmed(j.tx, j.says) /\ j.says = "DROPPED" /\ ResendLeft(j.tx)
                                        THEN {"resend"} ELSE {}) :
               Write(f, [r EXCEPT !.last = j.says],
                     IF next = "idle" THEN Idle ELSE [Idle EXCEPT !.at = next, !.tx = j.tx])
  BY <1>1, <1>3 DEF Conclude
<1>6. CASE told \/ ~Stands(f)
  <2>1. Spared(rec, rec') /\ IInv'
    BY <1>2, <1>5, <1>6, IdleGoes DEF Spared
  <2> QED BY <2>1, SparedIsBlameless
<1>7. CASE ~(told \/ ~Stands(f)) /\ Confirmed(j.tx, j.says) /\ j.says = "CONFLICT"
  <2>1. Observed(j.tx)
    BY <1>7 DEF Observed, Confirmed
  <2>2. Undisturbed => Spent /\ (j.seen => Lost(j.tx))
    BY <1>2, <1>7 DEF FollowFits, FollowLost
  <2> QED BY <1>1, <1>2, <1>3, <1>5, <1>7, <2>1, <2>2, GivesUp
<1>8. CASE ~(told \/ ~Stands(f)) /\ ~(Confirmed(j.tx, j.says) /\ j.says = "CONFLICT")
  <2>1. PICK next \in {"idle", "resend"} :
          Write(f, [r EXCEPT !.last = j.says],
                IF next = "idle" THEN Idle ELSE [Idle EXCEPT !.at = next, !.tx = j.tx])
    BY <1>5, <1>8
  <2>2. PICK c : c = [r EXCEPT !.last = j.says]
    OBVIOUS
  <2>3. /\ c \in Record /\ c.status = r.status /\ c.accepting = r.accepting /\ c.last = j.says
        /\ c.resends = r.resends /\ c.rejections = r.rejections
    BY <1>2, <1>4, <2>2 DEF Record, Verdicts
  <2>4. RecordFits(j.tx, c)
    BY <1>2, <1>4, <2>3 DEF RecordFits, RecordLost, FollowFits, FollowLost
  <2>5. PICK J : J = IF next = "idle" THEN Idle ELSE [Idle EXCEPT !.at = next, !.tx = j.tx]
    OBVIOUS
  <2>6. J = Idle \/ Late(J)
    <3>1. CASE next = "idle"
      BY <2>5, <3>1
    <3>2. CASE next = "resend"
      <4>1. J \in Follow /\ J.at = "resend" /\ J.tx = j.tx /\ J.keep = "TRACKED" /\ J.block = NoBlock
        BY <1>2, <2>5, <3>2, IdleIs DEF Follow
      <4> QED BY <1>2, <4>1 DEF Late, FollowLost
    <3> QED BY <3>1, <3>2
  <2>7. Write(f, c, J)
    BY <2>1, <2>2, <2>5
  <2>8. IInv' /\ \A y \in Txs : rec'[y] = IF y = j.tx THEN c ELSE rec[y]
    BY <1>1, <1>2, <1>3, <2>3, <2>4, <2>6, <2>7, LateWrites
  <2>9. Spared(rec, rec')
    BY <1>3, <2>3, <2>8 DEF Spared
  <2> QED BY <2>8, <2>9, SparedIsBlameless
<1> QED BY <1>6, <1>7, <1>8

LEMMA Resends == ASSUME IInv, NEW f \in Followers, Resend(f) PROVE IInv' /\ Spared(rec, rec')
<1>1. PICK j : j = job[f]
  OBVIOUS
<1>2. j.at = "resend" /\ FollowFits(j, rec) /\ FollowTyped(j) /\ j \in Follow /\ j.tx \in Txs /\ Steady
  BY <1>1, Mine DEF Resend
<1>3. CASE Go(f, Idle)
  BY <1>2, <1>3, IdleGoes DEF Spared
<1>4. CASE ~Go(f, Idle)
  <2>1. PICK r : r = rec[j.tx]
    OBVIOUS
  <2>2. r \in Record /\ RecordFits(j.tx, r)
    BY <1>2, <2>1 DEF IInv, RecordsFit
  <2>3. /\ r.resends < ResendLimit /\ \A g \in Followers : job[g].at \notin Sending
        /\ Write(f, [r EXCEPT !.resends = @ + 1], [j EXCEPT !.at = "send", !.stale = FALSE])
    BY <1>1, <1>4, <2>1 DEF Resend, ResendLeft
  <2>4. r.rejections <= 1 /\ r.resends + 1 = ResendLimit /\ ResendLimit \in 0 .. ResendLimit
    BY <2>2, <2>3, TrackerAssumption DEF RecordFits
  <2>5. PICK c : c = [r EXCEPT !.resends = @ + 1]
    OBVIOUS
  <2>6. /\ c \in Record /\ c.status = r.status /\ c.accepting = r.accepting /\ c.last = r.last
        /\ c.resends = ResendLimit /\ c.rejections = r.rejections
    BY <2>2, <2>4, <2>5 DEF Record
  <2>7. RecordFits(j.tx, c)
    BY <2>2, <2>6, TrackerAssumption DEF RecordFits, RecordLost
  <2>8. PICK J : J = [j EXCEPT !.at = "send", !.stale = FALSE]
    OBVIOUS
  <2>9. /\ J \in Follow /\ J.at = "send" /\ J.tx = j.tx /\ J.keep = j.keep /\ J.block = j.block
    BY <1>2, <2>8 DEF Follow, Sending
  <2>10. \A R : R[j.tx] = c => FollowFits(J, R)
    <3>1. FollowTyped(J) /\ FollowFinal(J) /\ FollowLost(J)
      BY <1>2, <2>9 DEF FollowTyped, FollowFinal, FollowLost, Searching
    <3>2. PlaceOf(J.block, J.tx)
      BY <1>2, <2>9 DEF FollowFits
    <3>3. \A R : R[j.tx] = c => LastResend(J, R) /\ FollowKeeps(J, R)
      BY <2>4, <2>6, <2>9 DEF LastResend, FollowKeeps
    <3> QED BY <3>1, <3>2, <3>3 DEF FollowFits
  <2>11. SendsAlone(f, J) /\ Write(f, c, J)
    BY <2>3, <2>5, <2>8 DEF SendsAlone
  <2>12. IInv' /\ \A y \in Txs : rec'[y] = IF y = j.tx THEN c ELSE rec[y]
    BY <1>1, <1>2, <2>3, <2>7, <2>10, <2>11, SteadyRests, WritesMine
  <2> QED BY <2>1, <2>6, <2>12 DEF Spared
<1> QED BY <1>3, <1>4

LEMMA Sends == ASSUME IInv, NEW f \in Followers, Send(f) \/ SendIsNotAnswered(f) PROVE IInv' /\ UNCHANGED rec
<1>1. PICK j : j = job[f]
  OBVIOUS
<1>2. j.at = "send" /\ FollowFits(j, rec) /\ FollowTyped(j) /\ j \in Follow /\ j.tx \in Txs
  BY <1>1, Mine DEF Send, SendIsNotAnswered
<1>3. \A answer \in Answers(j.tx) : answer[1] \in {"SENT", "KNOWN", "WAIT", "REJECTED"}
                                    /\ answer[2] \in Txs \cup {NoTx}
  BY <1>2 DEF Answers, IInv
<1>4. PICK says \in {"SENT", "KNOWN", "WAIT", "REJECTED", "NO_RESPONSE"} :
        Go(f, [j EXCEPT !.at = "sent", !.says = says])
  BY <1>1, <1>3 DEF Send, SendIsNotAnswered
<1>5. UNCHANGED <<chain, made>> /\ pool' \in Txs \cup {NoTx} /\ rounds' \in [Txs -> 0 .. Rounds]
  <2>1. pool' \in Txs \cup {NoTx}
    BY <1>1, <1>3 DEF Send, SendIsNotAnswered
  <2> QED BY <2>1, Counts DEF Send, SendIsNotAnswered, IInv
<1>6. PICK J : J = [j EXCEPT !.at = "sent", !.says = says]
  OBVIOUS
<1>7. /\ J \in Follow /\ J.at = "sent" /\ J.tx = j.tx /\ J.keep = j.keep /\ J.block = j.block
  BY <1>2, <1>4, <1>6 DEF Follow, Sending
<1>8. FollowFits(J, rec)
  <2>1. FollowTyped(J) /\ FollowFinal(J) /\ FollowLost(J) /\ FollowKeeps(J, rec)
    BY <1>2, <1>7 DEF FollowTyped, FollowFinal, FollowLost, FollowKeeps, Searching
  <2>2. PlaceOf(J.block, J.tx) /\ LastResend(J, rec)
    BY <1>2, <1>7 DEF FollowFits, LastResend, Sending
  <2> QED BY <2>1, <2>2 DEF FollowFits
<1>9. SendsAlone(f, J)
  BY <1>1, <1>2 DEF SendsAlone, IInv, FollowsFit, Sending
<1> QED BY <1>4, <1>5, <1>6, <1>8, <1>9, Goes DEF Go

LEMMA Resents == ASSUME IInv, NEW f \in Followers, Resent(f) PROVE IInv' /\ Spared(rec, rec')
<1>1. PICK j : j = job[f]
  OBVIOUS
<1>2. j.at = "sent" /\ FollowFits(j, rec) /\ j.tx \in Txs /\ Steady
  BY <1>1, Mine DEF Resent
<1>3. CASE j.stale
  BY <1>1, <1>2, <1>3, IdleGoes DEF Resent, Spared
<1>4. CASE ~j.stale
  <2>1. PICK r : r = rec[j.tx]
    OBVIOUS
  <2>2. r \in Record /\ RecordFits(j.tx, r) /\ r.rejections <= 1 /\ r.resends = ResendLimit
    BY <1>2, <2>1 DEF IInv, RecordsFit, FollowFits, LastResend, Sending, RecordFits
  <2>3. PICK n : n = IF j.says = "REJECTED" THEN r.rejections + 1 ELSE 0
    OBVIOUS
  <2>4. n \in 0 .. 2
    <3>1. r.rejections \in 0 .. 2
      BY <2>2 DEF Record
    <3> QED BY <2>2, <2>3, <3>1
  <2>5. PICK c : c = [r EXCEPT !.rejections = n, !.last = "NONE",
                               !.status = IF n >= 2 THEN "REJECTED" ELSE "TRACKED"]
    OBVIOUS
  <2>6. /\ c \in Record /\ c.status \in {"REJECTED", "TRACKED"} /\ c.accepting = r.accepting /\ c.last = "NONE"
        /\ c.resends = r.resends
    BY <2>2, <2>4, <2>5 DEF Record, Statuses, Sticky, Following
  <2>7. RecordFits(j.tx, c)
    BY <2>2, <2>6, TrackerAssumption DEF RecordFits, RecordLost, Final
  <2>8. Write(f, c, Idle)
    BY <1>1, <1>4, <2>1, <2>3, <2>5 DEF Resent
  <2>9. \A g \in Followers \ {f} : job[g].at \notin Sending
    BY <1>1, <1>2 DEF IInv, FollowsFit, Sending
  <2>10. IInv' /\ \A y \in Txs : rec'[y] = IF y = j.tx THEN c ELSE rec[y]
    BY <1>1, <1>2, <2>7, <2>8, <2>9, LateWrites
  <2> QED BY <2>6, <2>10 DEF Spared
<1> QED BY <1>3, <1>4

LEMMA Shares ==
    ASSUME IInv, NEW f \in Followers, NEW g \in Followers, Share(f, g) PROVE IInv' /\ UNCHANGED rec
<1>1. PICK j : j = job[g]
  OBVIOUS
<1>2. j.at = "decide" /\ FollowFits(j, rec) /\ FollowTyped(j) /\ j \in Follow /\ Steady /\ f # g
  BY <1>1, Mine DEF Share
<1>3. PICK J : J = [j EXCEPT !.rest = TRUE]
  OBVIOUS
<1>4. /\ J \in Follow /\ J.at = "decide" /\ J.tx = j.tx /\ J.keep = j.keep /\ J.status = j.status
      /\ J.block = j.block /\ J.complete = j.complete /\ J.seen = j.seen /\ J.says = j.says
  BY <1>2, <1>3 DEF Follow
<1>5. FollowFits(J, rec)
  BY <1>2, <1>4 DEF FollowFits, FollowTyped, LastResend, FollowKeeps, FollowFinal, FollowLost,
       Searching, Sending
<1>6. PICK K : K = [job EXCEPT ![f] = J, ![g].rest = TRUE]
  OBVIOUS
<1>7. job \in [Followers -> Follow]
  BY DEF IInv, FollowsFit
<1>8. K \in [Followers -> Follow] /\ \A h \in Followers : K[h] = IF h \in {f, g} THEN J ELSE job[h]
  <2>1. \A h \in Followers : K[h] = IF h \in {f, g} THEN J ELSE job[h]
    BY <1>1, <1>2, <1>3, <1>6, <1>7
  <2> QED BY <1>4, <1>6, <1>7, <2>1
<1>9. FollowsFit(K, rec)
  BY <1>4, <1>5, <1>8 DEF IInv, FollowsFit, Sending
<1>10. job' = K /\ UNCHANGED rec
  BY <1>1, <1>3, <1>6 DEF Share
<1>11. PICK R : R = rec
  OBVIOUS
<1>12. RecordsFit(R) /\ rec' = R /\ FollowsFit(K, R)
  BY <1>9, <1>10, <1>11 DEF IInv
<1>13. IInv'
  BY <1>2, <1>10, <1>12, SteadyRests, Rests
<1> QED BY <1>10, <1>13


(* Grow and Reorg.                                                         *)
LEMMA ChainBranches == ASSUME IInv, Grow \/ Reorg PROVE IInv' /\ UNCHANGED rec
<1>1. \E k, x, p : Branch(k, x, p)
  BY GrowthBranches, ReorgBranches DEF IInv
<1>2. PICK k, x, p : Branch(k, x, p)
  BY <1>1
<1>3. ChainOK /\ ChainOK'
  BY <1>2, BranchChainOK DEF IInv
<1>4. \A b \in Nat : \A y : PlaceOf(b, y) => PlaceOf(b, y)'
  BY <1>2, <1>3, BranchKeepsPlaces
<1>5. ReorgsAreShallow => \A y, st : Final(y, st) => Final(y, st)'
  <2>1. ReorgsAreShallow => \A y : Buried(y) => Buried(y)'
    BY <1>2, <1>3, BranchBuries
  <2> QED BY <2>1 DEF Final, Outlived
<1>6. Undisturbed' => Undisturbed /\ (Spent => Spent') /\ \A y \in Txs : Lost(y) => Lost(y)'
  BY <1>2, <1>3, BranchLoses
<1>7. UNCHANGED <<rec, job, rounds>> /\ pool' \in Txs \cup {NoTx}
  BY DEF Grow, Reorg, IInv
<1>8. PICK R, K : R = rec /\ K = job
  OBVIOUS
<1>9. RecordsFit(R) /\ FollowsFit(K, R)
  BY <1>8 DEF IInv
<1>10. RecordsFit(R)'
  <2>1. ASSUME NEW y \in Txs PROVE RecordFits(y, R[y])'
    <3>1. RecordFits(y, R[y]) /\ R[y].accepting \in Nat
      BY <1>9, TrackerAssumption DEF RecordsFit, RecordFits, Record
    <3>2. PlaceOf(R[y].accepting, y)'
      BY <1>4, <3>1 DEF RecordFits
    <3>3. (ReorgsAreShallow => Final(y, R[y].status))'
      BY <1>5, <3>1 DEF RecordFits
    <3>4. (Undisturbed => RecordLost(R[y]))'
      BY <1>6, <3>1 DEF RecordFits, RecordLost
    <3> QED BY <3>1, <3>2, <3>3, <3>4 DEF RecordFits
  <2> QED BY <1>9, <2>1 DEF RecordsFit
<1>11. ASSUME NEW f \in Followers PROVE FollowFits(K[f], R)'
  <2>1. PICK j : j = K[f]
    OBVIOUS
  <2>2. FollowFits(j, R) /\ j.block \in Nat /\ (j.at # "idle" => j.tx \in Txs)
    BY <1>9, <2>1, TrackerAssumption DEF FollowsFit, FollowFits, FollowTyped, Follow
  <2>3. PlaceOf(j.block, j.tx)'
    BY <1>4, <2>2 DEF FollowFits
  <2>4. (ReorgsAreShallow => FollowFinal(j))'
    BY <1>5, <2>2 DEF FollowFits, FollowFinal
  <2>5. (Undisturbed => FollowLost(j))'
    BY <1>6, <2>2 DEF FollowFits, FollowLost
  <2>6. FollowTyped(j)' /\ LastResend(j, R)' /\ FollowKeeps(j, R)'
    BY <2>2 DEF FollowFits, FollowTyped, LastResend, FollowKeeps
  <2>7. FollowFits(j, R)'
    BY <2>3, <2>4, <2>5, <2>6 DEF FollowFits
  <2> QED BY <2>1, <2>7 DEF FollowFits
<1>12. FollowsFit(K, R)'
  BY <1>9, <1>11 DEF FollowsFit
<1>13. rec' = R /\ job' = K
  BY <1>7, <1>8
<1>14. RecordsFit(rec)'
  BY <1>10, <1>13 DEF RecordsFit
<1>15. FollowsFit(job, rec)'
  BY <1>12, <1>13 DEF FollowsFit
<1>16. rounds' \in [Txs -> 0 .. Rounds]
  BY <1>7 DEF IInv
<1> QED BY <1>3, <1>7, <1>14, <1>15, <1>16 DEF IInv

LEMMA Stutters == ASSUME IInv, Evict \/ UNCHANGED vars PROVE IInv' /\ UNCHANGED rec
<1>1. UNCHANGED <<chain, made, rec, job, rounds>> /\ pool' \in Txs \cup {NoTx}
  BY DEF Evict, vars, IInv
<1>2. PICK R, K : R = rec /\ K = job
  OBVIOUS
<1>3. RecordsFit(R) /\ FollowsFit(K, R) /\ rec' = R /\ job' = K
  BY <1>1, <1>2 DEF IInv
<1>4. rounds' \in [Txs -> 0 .. Rounds]
  BY <1>1 DEF IInv
<1>5. IInv'
  BY <1>1, <1>3, <1>4, Rests
<1> QED BY <1>1, <1>5

---------------------------------------------------------------------------
(* The invariant.                                                          *)

LEMMA InitHolds == Init => IInv
<1> SUFFICES ASSUME Init PROVE IInv
  OBVIOUS
<1>1. chain = <<>> /\ made = 0 /\ Len(chain) = 0 /\ chain \in Seq(Block)
  BY DEF Init
<1>2. ChainOK
  BY <1>1, TrackerAssumption DEF ChainOK
<1>3. PICK marked \in BOOLEAN :
        LET by(x) == IF marked /\ x = Root /\ Txs # {Root} THEN CHOOSE y \in Txs : y # Root ELSE NoTx IN
        rec = [x \in Txs |->
            [status |-> IF by(x) = NoTx THEN "TRACKED" ELSE "REPLACED",
             replacedBy |-> by(x), accepting |-> NoBlock, complete |-> FALSE, last |-> "NONE",
             resends |-> IF x \in Resendable THEN ResendLimit - 1 ELSE ResendLimit,
             rejections |-> IF x \in Resendable THEN 1 ELSE 0]]
  BY DEF Init
<1> DEFINE by(x) == IF marked /\ x = Root /\ Txs # {Root} THEN CHOOSE y \in Txs : y # Root ELSE NoTx
<1>4. \A x \in Txs : by(x) \in Txs \cup {NoTx}
  BY TrackerAssumption
<1>5. ASSUME NEW x \in Txs
      PROVE  /\ rec[x] \in Record /\ rec[x].status \in {"TRACKED", "REPLACED"} /\ rec[x].accepting = NoBlock
             /\ rec[x].last = "NONE"
             /\ rec[x].resends < ResendLimit => rec[x].rejections <= 1 /\ rec[x].resends = ResendLimit - 1
  <2> HIDE DEF by
  <2>1. PICK s, n, m : /\ s = (IF by(x) = NoTx THEN "TRACKED" ELSE "REPLACED")
                       /\ n = (IF x \in Resendable THEN ResendLimit - 1 ELSE ResendLimit)
                       /\ m = (IF x \in Resendable THEN 1 ELSE 0)
    OBVIOUS
  <2>2. rec[x] = [status |-> s, replacedBy |-> by(x), accepting |-> NoBlock, complete |-> FALSE,
                  last |-> "NONE", resends |-> n, rejections |-> m]
    BY <1>3, <2>1 DEF by
  <2>3. s \in Statuses \cap {"TRACKED", "REPLACED"}
    BY <2>1 DEF Statuses, Sticky, Following
  <2>4. n \in 0 .. ResendLimit /\ m \in 0 .. 2 /\ (n < ResendLimit => m <= 1 /\ n = ResendLimit - 1)
    BY <2>1, TrackerAssumption
  <2> QED BY <1>4, <2>2, <2>3, <2>4, IdleIs DEF Record
<1>6. \A x \in Txs : RecordFits(x, rec[x])
  <2> TAKE x \in Txs
  <2>1. PICK r : r = rec[x]
    OBVIOUS
  <2>2. /\ r \in Record /\ r.status \in {"TRACKED", "REPLACED"} /\ r.accepting = NoBlock
        /\ r.last = "NONE"
        /\ r.resends < ResendLimit => r.rejections <= 1 /\ r.resends = ResendLimit - 1
    BY <1>5, <2>1
  <2>3. PlaceOf(r.accepting, x)
    BY <1>2, <2>2, NoBlockPlaced
  <2>4. Final(x, r.status) /\ RecordLost(r)
    BY <2>2 DEF Final, RecordLost
  <2>5. RecordFits(x, r)
    BY <2>2, <2>3, <2>4 DEF RecordFits
  <2> QED BY <2>1, <2>5
<1>7. RecordsFit(rec)
  <2>1. rec = [x \in Txs |-> rec[x]]
    BY <1>3
  <2> QED BY <1>5, <1>6, <2>1 DEF RecordsFit
<1>8. FollowsFit(job, rec)
  <2>1. job = [f \in Followers |-> Idle]
    BY DEF Init
  <2>2. FollowFits(Idle, rec)
    BY <1>2, IdleFits
  <2> QED BY <2>1, <2>2, IdleIs DEF FollowsFit, Sending
<1>9. pool \in Txs \cup {NoTx} /\ rounds \in [Txs -> 0 .. Rounds]
  BY TrackerAssumption DEF Init
<1> QED BY <1>2, <1>7, <1>8, <1>9 DEF IInv

(* Every step keeps the invariant, and none gives a record up as lost      *)
(* without the observations that NotLostToItself asks for.                 *)
LEMMA Steps == IInv /\ [Next]_vars => IInv' /\ Blameless
<1> SUFFICES ASSUME IInv, [Next]_vars PROVE IInv' /\ Blameless
  OBVIOUS
<1>1. UNCHANGED rec => Spared(rec, rec')
  BY DEF Spared
<1>2. CASE Grow \/ Reorg
  BY <1>1, <1>2, ChainBranches, SparedIsBlameless
<1>3. CASE Evict \/ UNCHANGED vars
  BY <1>1, <1>3, Stutters, SparedIsBlameless
<1>4. ASSUME NEW f \in Followers, \/ \E x \in Txs : Start(f, x)
                                  \/ Commit(f) \/ Confirm(f) \/ Revive(f) \/ Resend(f) \/ Resent(f)
      PROVE  IInv' /\ Blameless
  BY <1>4, Starts, Commits, Confirms, Revives, Resends, Resents, SparedIsBlameless
<1>5. ASSUME NEW f \in Followers, \/ \E g \in Followers : Share(f, g)
                                  \/ Read(f) \/ ReadFails(f) \/ RestBackup(f) \/ Done(f) \/ Die(f)
                                  \/ Diagnose(f) \/ DiagnosisFails(f) \/ Send(f) \/ SendIsNotAnswered(f)
      PROVE  IInv' /\ Blameless
  <2>1. IInv' /\ UNCHANGED rec
    BY <1>5, Shares, Reads, RestBacksUp, Stops, Diagnoses, Sends
  <2> QED BY <1>1, <2>1, SparedIsBlameless
<1>6. ASSUME NEW f \in Followers, SettleReplacedLost(f) \/ Conclude(f) PROVE IInv' /\ Blameless
  BY <1>6, SettlesReplacedLost, Concludes
<1> QED BY <1>2, <1>3, <1>4, <1>5, <1>6 DEF Next

(* In every reachable state the chain is one that nodes can select, every  *)
(* record rests on what its status and location say, and no follow in      *)
(* progress carries anything that the chain does not bear out.             *)
THEOREM TrackerInvariant == Spec => []IInv
<1>1. IInv /\ [Next]_vars => IInv'
  BY Steps
<1> QED BY <1>1, InitHolds, PTL DEF Spec

(* The types of the tracker hold for every family, any number of follows   *)
(* and every limit (engine.mjs, reconcile() to settleFamily()).            *)
THEOREM TrackerTypes == Spec => []TypeOK
<1>1. IInv => TypeOK
  <2> SUFFICES ASSUME IInv PROVE TypeOK
    OBVIOUS
  <2>1. chain \in Seq([id : 1 .. MaxBlocks, tx : Txs \cup {Rival, NoTx}]) /\ made \in 0 .. MaxBlocks
    BY DEF IInv, ChainOK, Block
  <2>2. \A x \in Txs : rec[x] \in Record
    BY DEF IInv, RecordsFit
  <2>3. \A f \in Followers : job[f] \in Follow
    BY Mine
  <2>4. \A f \in Followers : /\ job[f].tx \in Txs \cup {NoTx} /\ job[f].block \in 0 .. MaxBlocks
                             /\ job[f].keep \in Statuses /\ job[f].status \in Statuses
    BY <2>3 DEF Follow
  <2>5. \A x \in Txs : /\ rec[x].status \in Statuses /\ rec[x].replacedBy \in Txs \cup {NoTx}
                       /\ rec[x].accepting \in 0 .. MaxBlocks /\ rec[x].resends \in 0 .. ResendLimit
                       /\ rec[x].rejections \in 0 .. 2
    BY <2>2 DEF Record
  <2> QED BY <2>1, <2>4, <2>5 DEF TypeOK, IInv
<1> QED BY <1>1, TrackerInvariant, PTL

(* As long as no reorg is deeper than REORG_RECHECK_DAA, the word of a     *)
(* settled record is final (AcceptanceStep, settleFamily()): an ACCEPTED   *)
(* transaction stays accepted and a SUPERSEDED one has lost its inputs to  *)
(* a member of its family for good, however the follows interleave.        *)
THEOREM SettledStaysFinal ==
    ASSUME MaxReorg <= RecheckDepth
    PROVE  Spec => []SettledIsFinal
<1>1. ReorgsAreShallow
  BY DEF ReorgsAreShallow
<1>2. IInv => SettledIsFinal
  BY <1>1 DEF IInv, RecordsFit, RecordFits, Final, Outlived, SettledIsFinal
<1> QED BY <1>2, TrackerInvariant, PTL

(* While no block was ever removed, and with any number of follows of any  *)
(* members at once, no step gives a record up as lost that is itself what  *)
(* spent the inputs (follow(), diagnose() and #settleReplacedLost),        *)
(* whatever notices were late, but on what another follow observed after   *)
(* the search of the follow that gives the verdict.                        *)
THEOREM NeverLostToItself == Spec => NotLostToItself
<1>1. IInv /\ [Next]_vars => IInv' /\ [Blameless]_vars
  BY Steps
<1>2. Spec => [][Blameless]_vars
  BY <1>1, InitHolds, PTL DEF Spec
<1> QED BY <1>2 DEF NotLostToItself, Blameless, Undisturbed

============================================================================
