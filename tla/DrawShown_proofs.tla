-------------------------- MODULE DrawShown_proofs --------------------------
(***************************************************************************)
(* Proofs about DrawShown and DrawTarget, for every tree of blocks, every  *)
(* boundary and depth, and any number of upsets: the types, that what      *)
(* passes the fence draws on a deep target, and that a quiet page shows    *)
(* the phase the chain is in.                                              *)
(*                                                                         *)
(* What is believed of a block is either true of the chain or contradicted *)
(* by a notice on its way (Stands); a confirmation is a pair of such       *)
(* beliefs that imply the depth.  The page cannot overlook a notice: who   *)
(* is not told to read again is shown a confirmation that still holds.     *)
(***************************************************************************)
EXTENDS DrawShown, FiniteSetTheorems, TLAPS

BlockOrNone == Blocks \cup {None}

(* A target is at the boundary.                                            *)
Targets == {b \in Blocks : Height(b) = Boundary}

Found == {"sink", "anchor", "parent", "score"}
Outcomes == {"none", "confirmed", "unconfirmed", "invalid", "stale", "behind"}

CheckRecord == [at : Steps \cup Outcomes, target : Targets \cup {None}, anchor : BlockOrNone, count : 0 .. MinConf,
                targetOk : BOOLEAN, anchorOk : BOOLEAN, chainOk : BOOLEAN]
ConfRecord == [anchor : BlockOrNone, targetOk : BOOLEAN, anchorOk : BOOLEAN, chainOk : BOOLEAN,
               held : SUBSET Readers]
Draw == [at : {"idle", "confirm", "sign", "send", "fence"}, target : Targets \cup {None}]

DrawType ==
    /\ tip \in Blocks /\ notices \in Seq(SUBSET Blocks)
    /\ proofed \in Targets \cup {None}
    /\ check \in [Readers -> CheckRecord]
    /\ latest \in [Blocks -> Readers \cup {None}] /\ conf \in [Blocks -> ConfRecord]
    /\ job \in Draw /\ (job.at # "idle" => job.target \in Targets)
    /\ check["engine"].at # "none" => job.at \in {"confirm", "send"}

Phases == {"none", "CHECKING", "DAA_WAIT", "TARGET_CHECKING", "TARGET_WAIT", "READY", "UNAVAILABLE"}
Progress == [phase : Phases, target : Targets \cup {None}, count : 0 .. MinConf]

PageType ==
    /\ show \in Progress
    /\ seen \in BOOLEAN /\ timer \in BOOLEAN /\ requested \in BOOLEAN
    /\ reading \in [at : {"none", "daa", "acquire", "confirm"}, valid : BOOLEAN]
    /\ timer => seen /\ ~Busy
    /\ requested => Busy
    /\ reading.valid => seen /\ Busy
    /\ reading.at = "confirm" => check["page"].at # "none"
    /\ Busy /\ ~reading.valid /\ seen => requested
    /\ show.phase = "READY" => show.target # None
    /\ ~seen => show.phase = "none"

---------------------------------------------------------------------------
(* What is believed.                                                       *)

Told(b) == \E i \in 1 .. Len(notices) : b \in notices[i]
Shaken == \E i \in 1 .. Len(notices) : notices[i] # {}
Stands(b) == b \in Path[tip] \/ Told(b)

Enough(a, t) == Height(a) >= Height(t) + MinConf

CheckHolds(c) ==
    /\ c.at # "none" => c.target # None
    /\ c.chainOk => c.targetOk
    /\ c.at \in Found /\ c.targetOk => Stands(c.target)
    /\ c.at \in {"anchor", "parent"} => c.anchor # None
    /\ c.at \in {"parent", "score"} /\ c.anchor # None => Enough(c.anchor, c.target)
    /\ c.at = "score" /\ c.anchor # None /\ c.anchorOk => Stands(c.anchor)

ConfHolds(t, a) ==
    /\ a.chainOk => a.targetOk
    /\ a.targetOk => Stands(t)
    /\ a.anchor # None => Enough(a.anchor, t) /\ (a.anchorOk => Stands(a.anchor))
    /\ a.anchor = None /\ a.chainOk => Deep(t, tip) \/ Shaken

Beliefs ==
    /\ \A r \in Readers : CheckHolds(check[r])
    /\ \A t \in Blocks : ConfHolds(t, conf[t])

---------------------------------------------------------------------------
(* What the page may rely on.                                              *)

(* The page's confirmation of t holds as far as it knows.                  *)
PageHolds(t) == "page" \in conf[t].held /\ Current(conf[t])

(* No notice was overlooked since this read began.                         *)
Undisturbed == notices = <<>> /\ ~requested

(* While the page's own check of a target goes on it has no confirmation   *)
(* of it, and one of another target is about to be struck.                 *)
CheckIsOnly ==
    LET c == check["page"] IN
    /\ c.at \in Steps \cup {"unconfirmed"} => "page" \notin conf[c.target].held
    /\ c.at \in Found \cup {"unconfirmed"} =>
          \A u \in Targets \ {c.target} : PageHolds(u) => Told(u)

ReadIsTrue ==
    LET c == check["page"] IN
    reading.valid /\ Undisturbed =>
        /\ reading.at = "acquire" => Height(tip) >= Boundary
        /\ reading.at = "confirm" /\ c.at \in Found \cup {"unconfirmed"} => c.target \in Path[tip]
        /\ reading.at = "confirm" /\ c.at = "unconfirmed" => Height(tip) < Boundary + MinConf

IInv == DrawType /\ PageType /\ Beliefs /\ CheckIsOnly /\ ReadIsTrue /\ QuietIsTrue

---------------------------------------------------------------------------
(* The tree.                                                               *)

LEMMA Heights ==
    ASSUME NEW b \in Blocks
    PROVE  Height(b) \in Nat \ {0} /\ \A t \in Path[b] : t \in Blocks /\ Height(t) \in 1 .. Height(b)
<1>1. \A u \in Blocks : Height(u) \in Nat \ {0}
  <2> TAKE u \in Blocks
  <2>1. IsFiniteSet(Path[u]) /\ Path[u] # {}
    BY DrawAssumption
  <2> QED BY <2>1, FS_CardinalityType, FS_EmptySet DEF Height
<1>2. ASSUME NEW t \in Path[b] PROVE t \in Blocks /\ Height(t) \in 1 .. Height(b)
  <2>1. t \in Blocks /\ Path[t] \subseteq Path[b] /\ IsFiniteSet(Path[b])
    BY DrawAssumption
  <2>2. Height(t) <= Height(b)
    BY <2>1, FS_Subset DEF Height
  <2> QED BY <1>1, <2>1, <2>2
<1> QED BY <1>1, <1>2

LEMMA OneAtHeight ==
    ASSUME NEW b \in Blocks, NEW t \in Path[b], NEW u \in Path[b], Height(t) = Height(u)
    PROVE  t = u
<1>1. PICK h \in 1 .. Height(b) : h = Height(t)
  BY Heights
<1>2. PICK v \in Path[b] : \A w \in Path[b] : Height(w) = h <=> w = v
  BY DrawAssumption
<1> QED BY <1>1, <1>2

LEMMA TargetIs ==
    ASSUME NEW b \in Blocks
    PROVE  /\ Height(b) >= Boundary => Target(b) \in Path[b] /\ Target(b) \in Targets
           /\ Height(b) < Boundary => Target(b) = None
           /\ \A t \in Targets : t \in Path[b] => Height(b) >= Boundary /\ Target(b) = t
<1>1. ASSUME Height(b) >= Boundary PROVE Target(b) \in Path[b] /\ Target(b) \in Targets
  <2>1. Boundary \in 1 .. Height(b)
    BY <1>1, Heights, DrawAssumption
  <2>2. \E t \in Path[b] : Height(t) = Boundary
    BY <2>1, DrawAssumption
  <2>3. Target(b) = CHOOSE t \in Path[b] : Height(t) = Boundary
    BY <1>1, Heights, DrawAssumption DEF Target
  <2>4. Target(b) \in Path[b] /\ Height(Target(b)) = Boundary
    BY <2>2, <2>3
  <2> QED BY <2>4, Heights DEF Targets
<1>2. ASSUME NEW t \in Targets, t \in Path[b] PROVE Height(b) >= Boundary /\ Target(b) = t
  <2>1. Height(b) >= Boundary
    BY <1>2, Heights, DrawAssumption DEF Targets
  <2>2. Target(b) \in Path[b] /\ Height(Target(b)) = Height(t)
    BY <1>1, <2>1 DEF Targets
  <2> QED BY <1>2, <2>1, <2>2, OneAtHeight
<1> QED BY <1>1, <1>2 DEF Target

LEMMA ParentIs ==
    ASSUME NEW b \in Blocks, Height(b) > 1
    PROVE  Parent(b) \in Blocks /\ Height(Parent(b)) = Height(b) - 1
<1>1. Height(b) - 1 \in 1 .. Height(b)
  BY Heights
<1>2. PICK t \in Path[b] : Height(t) = Height(b) - 1
  BY <1>1, DrawAssumption
<1>3. t \in Path[b] \ {b}
  BY <1>2, Heights
<1>4. Parent(b) \in Path[b] /\ Height(Parent(b)) = Height(b) - 1
  BY <1>2, <1>3 DEF Parent
<1> QED BY <1>4, Heights

LEMMA DeepIs ==
    ASSUME NEW b \in Blocks, NEW t \in Targets, Deep(t, b)
    PROVE  t \in Path[b] /\ Target(b) = t /\ Height(b) >= Boundary + MinConf /\ Height(b) >= Boundary
<1>1. t \in Path[b] /\ Height(b) >= Boundary + MinConf
  BY DEF Deep, Targets
<1> QED BY <1>1, TargetIs, Heights, DrawAssumption

(* What stays under the chain when it only grows.                          *)
LEMMA DeepGrows ==
    ASSUME NEW b \in Blocks, NEW c \in Blocks, Path[b] \subseteq Path[c], NEW t \in Blocks, Deep(t, b)
    PROVE  Deep(t, c)
<1>1. IsFiniteSet(Path[c])
  BY DrawAssumption
<1>2. Height(b) <= Height(c)
  BY <1>1, FS_Subset DEF Height
<1> QED BY <1>2, Heights, DrawAssumption DEF Deep

---------------------------------------------------------------------------
(* The notices.                                                            *)

LEMMA MovesAreTold ==
    ASSUME DrawType, Move
    PROVE  /\ tip' \in Blocks /\ notices' \in Seq(SUBSET Blocks) /\ notices' # <<>>
           /\ \A b : (Told(b) => Told(b)') /\ (Stands(b) => Stands(b)')
           /\ \A t \in Blocks : Deep(t, tip) \/ Shaken => (Deep(t, tip) \/ Shaken)'
<1> DEFINE gone == Path[tip] \ Path[tip']
<1>1. tip \in Blocks /\ tip' \in Blocks /\ gone \in SUBSET Blocks
  BY DrawAssumption DEF DrawType, Move
<1> DEFINE ns == Append(notices, gone)
<1>2. /\ ns \in Seq(SUBSET Blocks) /\ Len(ns) = Len(notices) + 1 /\ Len(notices) \in Nat
      /\ ns[Len(notices) + 1] = gone /\ \A i \in 1 .. Len(notices) : ns[i] = notices[i]
  BY <1>1 DEF DrawType
<1>3. notices' = ns
  BY DEF Move
<1>4. \A b : b \in gone <=> b \in Path[tip] /\ b \notin Path[tip']
  OBVIOUS
<1>5. gone = {} => Path[tip] \subseteq Path[tip']
  OBVIOUS
<1> HIDE DEF gone, ns
<1>6. \A b : Told(b) => Told(b)'
  BY <1>2, <1>3 DEF Told
<1>7. \A b : b \in gone => Told(b)'
  BY <1>2, <1>3 DEF Told
<1>8. \A b : Stands(b) => Stands(b)'
  BY <1>4, <1>6, <1>7 DEF Stands
<1>9. Shaken \/ gone # {} => Shaken'
  BY <1>2, <1>3 DEF Shaken
<1>10. ASSUME NEW t \in Blocks, Deep(t, tip) \/ Shaken PROVE (Deep(t, tip) \/ Shaken)'
  <2>1. CASE Shaken \/ gone # {}
    BY <1>9, <2>1
  <2>2. CASE Deep(t, tip) /\ gone = {}
    <3>1. Path[tip] \subseteq Path[tip']
      BY <1>5, <2>2
    <3>2. Deep(t, tip')
      BY <1>1, <2>2, <3>1, DeepGrows
    <3> QED BY <3>2 DEF Deep, Height
  <2> QED BY <1>10, <2>1, <2>2
<1>11. notices' # <<>>
  <2>1. Len(ns) # 0
    BY <1>2
  <2> QED BY <1>3, <2>1
<1> QED BY <1>1, <1>2, <1>3, <1>6, <1>8, <1>10, <1>11

LEMMA DeliveriesAreTold ==
    ASSUME DrawType, notices # <<>>, notices' = Tail(notices), UNCHANGED tip
    PROVE  /\ notices' \in Seq(SUBSET Blocks) /\ Head(notices) \in SUBSET Blocks
           /\ \A b : Told(b) => b \in Head(notices) \/ Told(b)'
           /\ \A b : Stands(b) => b \in Head(notices) \/ Stands(b)'
           /\ Shaken => Head(notices) # {} \/ Shaken'
<1>1. notices \in Seq(SUBSET Blocks) /\ Len(notices) \in Nat \ {0}
  BY DEF DrawType
<1>2. /\ Tail(notices) \in Seq(SUBSET Blocks) /\ Len(Tail(notices)) = Len(notices) - 1
      /\ \A i \in 1 .. Len(notices) - 1 : Tail(notices)[i] = notices[i + 1]
      /\ Head(notices) = notices[1] /\ Head(notices) \in SUBSET Blocks
  BY <1>1
<1>3. ASSUME NEW i \in 1 .. Len(notices), i # 1
      PROVE  i - 1 \in 1 .. Len(notices') /\ notices'[i - 1] = notices[i]
  <2>1. i - 1 \in 1 .. Len(notices) - 1 /\ (i - 1) + 1 = i
    BY <1>1, <1>3
  <2>2. Tail(notices)[i - 1] = notices[(i - 1) + 1]
    BY <1>2, <2>1
  <2> QED BY <1>2, <2>1, <2>2
<1>4. \A b : Told(b) => b \in Head(notices) \/ Told(b)'
  BY <1>2, <1>3 DEF Told
<1>5. Shaken => Head(notices) # {} \/ Shaken'
  BY <1>2, <1>3 DEF Shaken
<1>6. \A b : Stands(b) => b \in Head(notices) \/ Stands(b)'
  BY <1>4 DEF Stands
<1> QED BY <1>2, <1>4, <1>5, <1>6

LEMMA ChainRests ==
    ASSUME UNCHANGED <<tip, notices>>
    PROVE  /\ \A c : CheckHolds(c) <=> CheckHolds(c)'
           /\ \A t, a : ConfHolds(t, a) <=> ConfHolds(t, a)'
           /\ \A b : Told(b) <=> Told(b)'
<1>1. \A b : Told(b) <=> Told(b)'
  BY DEF Told
<1>2. \A b : Stands(b) <=> Stands(b)'
  BY <1>1 DEF Stands
<1>3. \A t : Deep(t, tip) <=> Deep(t, tip)'
  BY DEF Deep
<1>4. Shaken <=> Shaken'
  BY DEF Shaken
<1> QED BY <1>1, <1>2, <1>3, <1>4 DEF CheckHolds, ConfHolds

(* With every notice received, a confirmation that is current is deep.     *)
LEMMA CurrentIsDeep ==
    ASSUME NEW t \in Blocks, NEW a, ConfHolds(t, a), Current(a), tip \in Blocks,
           a.anchor \in BlockOrNone, notices = <<>>
    PROVE  Deep(t, tip)
<1>1. Len(notices) = 0
  OBVIOUS
<1>2. ~Shaken /\ \A b : ~Told(b)
  BY <1>1 DEF Shaken, Told
<1>3. CASE a.anchor = None
  BY <1>2, <1>3 DEF ConfHolds, Current
<1>4. CASE a.anchor # None
  <2>1. t \in Path[tip] /\ a.anchor \in Path[tip] /\ Height(a.anchor) >= Height(t) + MinConf
    BY <1>2, <1>4 DEF ConfHolds, Current, Stands, Enough
  <2>2. Height(tip) >= Height(a.anchor)
    BY <2>1, Heights
  <2> QED BY <2>1, <2>2, Heights, DrawAssumption DEF Deep
<1> QED BY <1>3, <1>4

LEMMA CurrentStands == ASSUME NEW t, NEW a, ConfHolds(t, a), Current(a) PROVE Stands(t)
  BY DEF ConfHolds, Current

---------------------------------------------------------------------------
(* The steps of a check.                                                   *)

LEMMA RecordsTyped ==
    /\ NoCheck \in CheckRecord /\ NoCheck.at = "none" /\ NoCheck.target = None /\ NoCheck.chainOk = FALSE
    /\ NoConf \in ConfRecord /\ NoConf.held = {} /\ NoConf.anchor = None
    /\ NoConf.targetOk = FALSE /\ NoConf.anchorOk = FALSE /\ NoConf.chainOk = FALSE /\ ~Current(NoConf)
    /\ CheckHolds(NoCheck) /\ \A t : ConfHolds(t, NoConf)
<1>1. NoCheck \in CheckRecord /\ NoCheck.at = "none" /\ NoCheck.target = None /\ NoCheck.chainOk = FALSE
  BY DrawAssumption DEF NoCheck, CheckRecord, Outcomes, BlockOrNone
<1>2. /\ NoConf \in ConfRecord /\ NoConf.held = {} /\ NoConf.anchor = None
      /\ NoConf.targetOk = FALSE /\ NoConf.anchorOk = FALSE /\ NoConf.chainOk = FALSE
  BY DEF NoConf, ConfRecord, BlockOrNone
<1>3. CheckHolds(NoCheck)
  BY <1>1 DEF CheckHolds, Found
<1>4. \A t : ConfHolds(t, NoConf)
  BY <1>2 DEF ConfHolds
<1>5. ~Current(NoConf)
  BY <1>2 DEF Current
<1> QED BY <1>1, <1>2, <1>3, <1>4, <1>5

LEMMA QuietRests ==
    ASSUME QuietIsTrue, UNCHANGED <<tip, notices, seen, show, timer, reading>>
    PROVE  QuietIsTrue'
  BY DEF QuietIsTrue, Expected, Busy, Deep, Target, Height

(* What a reader writes as its check and, with it, as a confirmation.      *)
LEMMA CheckWrites ==
    ASSUME DrawType, Beliefs, UNCHANGED <<tip, notices>>,
           NEW r \in Readers, NEW c \in CheckRecord, CheckHolds(c), check' = [check EXCEPT ![r] = c]
    PROVE  check' \in [Readers -> CheckRecord] /\ check'[r] = c /\ \A q \in Readers : CheckHolds(check[q])'
<1>1. check' \in [Readers -> CheckRecord] /\ \A q \in Readers : check'[q] = IF q = r THEN c ELSE check[q]
  BY DEF DrawType
<1>2. ASSUME NEW q \in Readers PROVE CheckHolds(check[q])'
  <2>1. PICK d : d = check'[q]
    OBVIOUS
  <2>2. CheckHolds(d)
    BY <1>1, <2>1 DEF Beliefs
  <2> QED BY <2>1, <2>2, ChainRests
<1> QED BY <1>1, <1>2

LEMMA ConfWrites ==
    ASSUME DrawType, Beliefs, UNCHANGED <<tip, notices>>,
           NEW t \in Blocks, NEW a \in ConfRecord, ConfHolds(t, a), conf' = [conf EXCEPT ![t] = a]
    PROVE  /\ conf' \in [Blocks -> ConfRecord] /\ \A u \in Blocks : ConfHolds(u, conf[u])'
           /\ \A u \in Blocks : conf'[u] = IF u = t THEN a ELSE conf[u]
<1>1. conf' \in [Blocks -> ConfRecord] /\ \A u \in Blocks : conf'[u] = IF u = t THEN a ELSE conf[u]
  BY DEF DrawType
<1>2. ASSUME NEW u \in Blocks PROVE ConfHolds(u, conf[u])'
  <2>1. PICK d : d = conf'[u]
    OBVIOUS
  <2>2. ConfHolds(u, d)
    BY <1>1, <2>1 DEF Beliefs
  <2> QED BY <2>1, <2>2, ChainRests
<1> QED BY <1>1, <1>2

LEMMA ConfRests ==
    ASSUME DrawType, Beliefs, UNCHANGED <<tip, notices, conf>>
    PROVE  conf' \in [Blocks -> ConfRecord] /\ \A u \in Blocks : ConfHolds(u, conf[u])'
<1>1. ASSUME NEW u \in Blocks PROVE ConfHolds(u, conf[u])'
  <2>1. PICK d : d = conf[u]
    OBVIOUS
  <2>2. ConfHolds(u, d)
    BY <2>1 DEF Beliefs
  <2> QED BY <2>1, <2>2, ChainRests
<1> QED BY <1>1 DEF DrawType

(* A step of r's check from one request to the next or to an outcome.      *)
LEMMA CheckGoesOn ==
    ASSUME IInv, UNCHANGED <<tip, notices, proofed, job, shownVars>>,
           NEW r \in Readers, check[r].at \in Steps,
           NEW c \in CheckRecord, CheckHolds(c), c.at # "none", c.target = check[r].target,
           check' = [check EXCEPT ![r] = c], latest' \in [Blocks -> Readers \cup {None}],
           \/ UNCHANGED conf
           \/ /\ c.at = "confirmed"
              /\ \E a \in ConfRecord : a.held = {r} /\ ConfHolds(c.target, a) /\ conf' = [conf EXCEPT ![c.target] = a],
           c.at \in Found \cup {"unconfirmed"} => check[r].at \in Found \/ c.target \in Path[tip],
           c.at = "unconfirmed" => Height(tip) < Height(c.target) + MinConf
    PROVE  IInv'
<1>1. DrawType /\ Beliefs /\ PageType /\ tip \in Blocks
  BY DEF IInv, DrawType
<1>2. PICK o : o = check[r]
  OBVIOUS
<1>3. o \in CheckRecord /\ CheckHolds(o) /\ o.at \in Steps /\ c.target \in Targets /\ c.target \in Blocks
  <2>1. o \in CheckRecord /\ CheckHolds(o) /\ o.at \in Steps
    BY <1>1, <1>2 DEF DrawType, Beliefs
  <2>2. o.target # None
    BY <2>1 DEF CheckHolds, Steps
  <2> QED BY <1>2, <2>1, <2>2 DEF CheckRecord, Targets
<1>4. check' \in [Readers -> CheckRecord] /\ check'[r] = c /\ \A q \in Readers : CheckHolds(check[q])'
  BY <1>1, CheckWrites
<1>5. /\ conf' \in [Blocks -> ConfRecord] /\ \A u \in Blocks : ConfHolds(u, conf[u])'
      /\ \A u \in Blocks : conf'[u] = conf[u] \/ (c.at = "confirmed" /\ u = c.target /\ conf'[u].held = {r})
  <2>1. CASE UNCHANGED conf
    BY <1>1, <2>1, ConfRests
  <2>2. CASE ~UNCHANGED conf
    <3>1. PICK a \in ConfRecord : a.held = {r} /\ ConfHolds(c.target, a) /\ conf' = [conf EXCEPT ![c.target] = a]
      BY <2>2
    <3>2. c.at = "confirmed"
      BY <2>2
    <3> QED BY <1>1, <1>3, <3>1, <3>2, ConfWrites
  <2> QED BY <2>1, <2>2
<1>6. DrawType'
  <2>1. check'["engine"].at # "none" => check["engine"].at # "none"
    BY <1>1, <1>4 DEF DrawType, Readers, Steps
  <2> QED BY <1>1, <1>4, <1>5, <2>1 DEF DrawType
<1>7. Beliefs'
  BY <1>4, <1>5 DEF Beliefs
<1>8. PageType'
  <2>1. check'["page"].at = "none" => check["page"].at = "none"
    BY <1>1, <1>4 DEF DrawType, Readers
  <2> QED BY <1>1, <2>1 DEF PageType, Busy, shownVars
<1>9. \A u \in Blocks : PageHolds(u)' => PageHolds(u) \/ (c.at = "confirmed" /\ u = c.target /\ r = "page")
  BY <1>5 DEF PageHolds
<1>10. PICK p : p = check["page"]
  OBVIOUS
<1>11. CheckIsOnly'
  <2>1. CASE r = "page"
    <3>1. check'["page"] = c /\ o = p
      BY <1>2, <1>4, <1>10, <2>1
    <3>2. ASSUME c.at \in Steps \cup {"unconfirmed"} PROVE "page" \notin conf'[c.target].held
      <4>1. conf'[c.target] = conf[c.target]
        BY <1>3, <1>5, <3>2 DEF Steps
      <4> QED BY <1>2, <1>3, <1>10, <3>1, <4>1 DEF IInv, CheckIsOnly
    <3>3. ASSUME c.at \in Found \cup {"unconfirmed"}, NEW u \in Targets \ {c.target}, PageHolds(u)' PROVE Told(u)'
      <4>1. u \in Blocks /\ PageHolds(u)
        BY <1>9, <3>3 DEF Targets
      <4>2. CASE o.at \in Found
        <5>1. Told(u)
          BY <1>2, <1>10, <3>1, <3>3, <4>1, <4>2 DEF IInv, CheckIsOnly
        <5> QED BY <5>1, ChainRests
      <4>3. CASE o.at \notin Found
        <5>1. c.target \in Path[tip]
          BY <1>2, <3>3, <4>3
        <5>2. Stands(u)
          BY <1>1, <4>1, CurrentStands DEF Beliefs, PageHolds
        <5>3. u \notin Path[tip]
          BY <1>1, <1>3, <3>3, <5>1, OneAtHeight DEF Targets
        <5> QED BY <5>2, <5>3, ChainRests DEF Stands
      <4> QED BY <4>2, <4>3
    <3> QED BY <3>1, <3>2, <3>3 DEF CheckIsOnly
  <2>2. CASE r # "page"
    <3>1. check'["page"] = p
      BY <1>1, <1>10, <2>2 DEF DrawType, Readers
    <3>2. p \in CheckRecord /\ CheckHolds(p)
      BY <1>1, <1>10 DEF DrawType, Beliefs, Readers
    <3>3. ASSUME p.at \in Steps \cup {"unconfirmed"} PROVE "page" \notin conf'[p.target].held
      <4>1. p.target \in Blocks
        BY <3>2, <3>3 DEF CheckHolds, CheckRecord, Steps, Targets
      <4>2. "page" \notin conf[p.target].held
        BY <1>10, <3>3 DEF IInv, CheckIsOnly
      <4> QED BY <1>5, <2>2, <4>1, <4>2
    <3>4. ASSUME p.at \in Found \cup {"unconfirmed"}, NEW u \in Targets \ {p.target}, PageHolds(u)' PROVE Told(u)'
      <4>1. PageHolds(u)
        BY <1>9, <2>2, <3>4 DEF Targets
      <4>2. Told(u)
        BY <1>10, <3>4, <4>1 DEF IInv, CheckIsOnly
      <4> QED BY <4>2, ChainRests
    <3> QED BY <3>1, <3>3, <3>4 DEF CheckIsOnly
  <2> QED BY <2>1, <2>2
<1>12. ReadIsTrue'
  <2>1. UNCHANGED <<tip, notices, requested, reading>>
    BY DEF shownVars
  <2>2. CASE r = "page"
    <3>1. check'["page"] = c /\ o = p
      BY <1>2, <1>4, <1>10, <2>2
    <3>2. Height(c.target) = Boundary
      BY <1>3 DEF Targets
    <3> QED BY <1>2, <1>10, <2>1, <3>1, <3>2 DEF IInv, ReadIsTrue, Undisturbed, Height
  <2>3. CASE r # "page"
    <3>1. check'["page"] = check["page"]
      BY <1>1, <2>3 DEF DrawType, Readers
    <3> QED BY <2>1, <3>1 DEF IInv, ReadIsTrue, Undisturbed, Height
  <2> QED BY <2>2, <2>3
<1>13. QuietIsTrue'
  BY QuietRests DEF IInv, shownVars
<1> QED BY <1>6, <1>7, <1>8, <1>11, <1>12, <1>13 DEF IInv

LEMMA CheckFails ==
    ASSUME IInv, UNCHANGED <<tip, notices, proofed, job, shownVars>>, NEW r \in Readers, check[r].at \in Steps,
           NEW how \in {"invalid", "stale", "behind"}, Fails(r, how)
    PROVE  IInv'
<1>1. PICK o : o = check[r]
  OBVIOUS
<1>2. o \in CheckRecord /\ CheckHolds(o) /\ o.at \in Steps
  BY <1>1 DEF IInv, DrawType, Beliefs
<1>3. PICK c : c = [o EXCEPT !.at = how]
  OBVIOUS
<1>4. c \in CheckRecord /\ c.at = how /\ c.target = o.target /\ c.chainOk = o.chainOk /\ c.targetOk = o.targetOk
  BY <1>2, <1>3 DEF CheckRecord, Outcomes
<1>5. CheckHolds(c)
  BY <1>2, <1>4 DEF CheckHolds, Found, Steps
<1>6. check' = [check EXCEPT ![r] = c] /\ UNCHANGED conf
  BY <1>1, <1>3 DEF Fails
<1>7. latest' \in [Blocks -> Readers \cup {None}]
  BY DEF Fails, IInv, DrawType
<1>8. c.at \notin Found \cup {"unconfirmed"} /\ c.at # "none" /\ c.at # "unconfirmed"
  BY <1>4 DEF Found
<1> QED BY <1>1, <1>4, <1>5, <1>6, <1>7, <1>8, CheckGoesOn

(* A step that writes c and nothing else.                                  *)
LEMMA CheckMoves ==
    ASSUME IInv, UNCHANGED <<tip, notices, proofed, job, shownVars, latest, conf>>, NEW r \in Readers,
           check[r].at \in Steps, NEW c \in CheckRecord, CheckHolds(c), c.target = check[r].target, c.at \in Steps,
           c.at \in Found => check[r].at \in Found \/ c.target \in Path[tip],
           check' = [check EXCEPT ![r] = c]
    PROVE  IInv'
<1>1. c.at # "none" /\ c.at # "unconfirmed" /\ c.at # "confirmed"
  BY DEF Steps
<1>2. latest' \in [Blocks -> Readers \cup {None}]
  BY DEF IInv, DrawType
<1> QED BY <1>1, <1>2, CheckGoesOn

LEMMA TargetRead ==
    ASSUME IInv, UNCHANGED <<tip, notices, proofed, job, shownVars>>, NEW r \in Readers, ReadsTarget(r)
    PROVE  IInv'
<1>1. PICK o : o = check[r]
  OBVIOUS
<1>2. o \in CheckRecord /\ CheckHolds(o) /\ o.at = "target" /\ o.at \in Steps
  BY <1>1 DEF IInv, DrawType, Beliefs, ReadsTarget, Steps
<1>3. CASE o.target \in Path[tip]
  <2>1. PICK c : c = [o EXCEPT !.at = "sink"]
    OBVIOUS
  <2>2. c \in CheckRecord /\ c.at = "sink" /\ c.target = o.target /\ c.chainOk = o.chainOk /\ c.targetOk = o.targetOk
    BY <1>2, <2>1 DEF CheckRecord, Steps
  <2>3. CheckHolds(c)
    BY <1>2, <1>3, <2>2 DEF CheckHolds, Found, Stands
  <2>4. check' = [check EXCEPT ![r] = c] /\ UNCHANGED <<latest, conf>>
    BY <1>1, <1>3, <2>1 DEF ReadsTarget, Goes
  <2>5. c.at \in Steps
    BY <2>2 DEF Steps
  <2> QED BY <1>1, <1>2, <1>3, <2>2, <2>3, <2>4, <2>5, CheckMoves
<1>4. CASE o.target \notin Path[tip]
  <2>1. Fails(r, "invalid")
    BY <1>1, <1>4 DEF ReadsTarget
  <2> QED BY <1>1, <1>2, <2>1, CheckFails
<1> QED BY <1>3, <1>4

(* The anchor b is watched; where it stands is not known yet.              *)
LEMMA AnchorWatched ==
    ASSUME IInv, UNCHANGED <<tip, notices, proofed, job, shownVars>>, NEW r \in Readers, check[r].at \in Found,
           NEW b \in Blocks, NEW step \in {"anchor", "parent"}, Watches(r, b, step),
           step = "parent" => Enough(b, check[r].target)
    PROVE  IInv'
<1>1. PICK o : o = check[r]
  OBVIOUS
<1>2. o \in CheckRecord /\ CheckHolds(o) /\ o.at \in Found /\ o.at \in Steps
  BY <1>1 DEF IInv, DrawType, Beliefs, Found, Steps
<1>3. PICK c : c = [o EXCEPT !.anchor = b, !.anchorOk = TRUE, !.at = step]
  OBVIOUS
<1>4. c \in CheckRecord /\ c.at = step /\ c.target = o.target /\ c.anchor = b
      /\ c.chainOk = o.chainOk /\ c.targetOk = o.targetOk
  BY <1>2, <1>3 DEF CheckRecord, Steps, BlockOrNone
<1>5. CheckHolds(c)
  BY <1>1, <1>2, <1>4, DrawAssumption DEF CheckHolds, Found
<1>6. check' = [check EXCEPT ![r] = c] /\ UNCHANGED <<latest, conf>>
  <2>1. check' = [check EXCEPT ![r].anchor = b, ![r].anchorOk = TRUE, ![r].at = step] /\ UNCHANGED <<latest, conf>>
    BY DEF Watches
  <2>2. \A q \in Readers : check'[q] = IF q = r THEN c ELSE check[q]
    BY <1>1, <1>3, <2>1 DEF IInv, DrawType
  <2> QED BY <1>1, <1>3, <2>1, <2>2 DEF IInv, DrawType
<1>7. c.at \in Steps
  BY <1>4 DEF Steps
<1> QED BY <1>1, <1>2, <1>4, <1>5, <1>6, <1>7, CheckMoves

LEMMA AnchorRead ==
    ASSUME IInv, UNCHANGED <<tip, notices, proofed, job, shownVars>>, NEW r \in Readers, ReadsAnchor(r)
    PROVE  IInv'
<1>1. PICK o : o = check[r]
  OBVIOUS
<1>2. o \in CheckRecord /\ CheckHolds(o) /\ o.at = "anchor" /\ o.at \in Found /\ o.at \in Steps
      /\ o.anchor \in Blocks /\ o.target \in Blocks
  <2>1. o \in CheckRecord /\ CheckHolds(o) /\ o.at = "anchor"
    BY <1>1 DEF IInv, DrawType, Beliefs, ReadsAnchor
  <2> QED BY <2>1 DEF CheckHolds, CheckRecord, BlockOrNone, Found, Steps, Targets
<1>3. Height(o.anchor) \in Nat \ {0} /\ Height(o.target) \in Nat \ {0} /\ MinConf \in Nat \ {0} /\ tip \in Blocks
  BY <1>2, Heights, DrawAssumption DEF IInv, DrawType
<1>4. CASE o.anchor \notin Path[tip]
  <2>1. Height(o.anchor) > 1
    BY <1>2, <1>3, <1>4, DrawAssumption
  <2>2. Parent(o.anchor) \in Blocks
    BY <1>2, <2>1, ParentIs
  <2>3. Watches(r, Parent(o.anchor), "anchor")
    BY <1>1, <1>4 DEF ReadsAnchor
  <2> QED BY <1>1, <1>2, <2>2, <2>3, AnchorWatched
<1>5. CASE o.anchor \in Path[tip] /\ Height(o.anchor) > Height(o.target) + MinConf
  <2>1. Height(o.anchor) > 1
    BY <1>3, <1>5
  <2>2. Parent(o.anchor) \in Blocks /\ Height(Parent(o.anchor)) = Height(o.anchor) - 1
    BY <1>2, <2>1, ParentIs
  <2>3. Enough(Parent(o.anchor), o.target)
    BY <1>3, <1>5, <2>2 DEF Enough
  <2>4. Watches(r, Parent(o.anchor), "parent")
    BY <1>1, <1>5 DEF ReadsAnchor
  <2> QED BY <1>1, <1>2, <2>2, <2>3, <2>4, AnchorWatched
<1>6. CASE o.anchor \in Path[tip] /\ ~(Height(o.anchor) > Height(o.target) + MinConf)
  <2>1. PICK b : b = (IF Height(o.anchor) < Height(o.target) + MinConf THEN None ELSE o.anchor)
    OBVIOUS
  <2>2. PICK c : c = [o EXCEPT !.at = "score", !.anchor = b]
    OBVIOUS
  <2>3. check' = [check EXCEPT ![r] = c] /\ UNCHANGED <<latest, conf>>
    <3>1. check' = [check EXCEPT ![r].at = "score", ![r].anchor = b] /\ UNCHANGED <<latest, conf>>
      BY <1>1, <1>6, <2>1 DEF ReadsAnchor
    <3>2. \A q \in Readers : check'[q] = IF q = r THEN c ELSE check[q]
      BY <1>1, <2>2, <3>1 DEF IInv, DrawType
    <3> QED BY <1>1, <2>2, <3>1, <3>2 DEF IInv, DrawType
  <2>4. b \in BlockOrNone /\ (b # None => b = o.anchor /\ Enough(b, o.target) /\ Stands(b))
    BY <1>2, <1>3, <1>6, <2>1 DEF BlockOrNone, Enough, Stands
  <2>5. c \in CheckRecord /\ c.at = "score" /\ c.target = o.target /\ c.anchor = b
        /\ c.chainOk = o.chainOk /\ c.targetOk = o.targetOk
    BY <1>2, <2>2, <2>4 DEF CheckRecord, Steps
  <2>6. CheckHolds(c)
    BY <1>2, <2>4, <2>5 DEF CheckHolds, Found
  <2>7. c.at \in Steps
    BY <2>5 DEF Steps
  <2> QED BY <1>1, <1>2, <2>3, <2>5, <2>6, <2>7, CheckMoves
<1> QED BY <1>4, <1>5, <1>6

LEMMA ParentRead ==
    ASSUME IInv, UNCHANGED <<tip, notices, proofed, job, shownVars>>, NEW r \in Readers, ReadsParent(r)
    PROVE  IInv'
<1>1. PICK o : o = check[r]
  OBVIOUS
<1>2. o \in CheckRecord /\ CheckHolds(o) /\ o.at = "parent" /\ o.at \in Found /\ o.at \in Steps
  BY <1>1 DEF IInv, DrawType, Beliefs, ReadsParent, Found, Steps
<1>3. CASE o.anchor \in Path[tip]
  <2>1. PICK c : c = [o EXCEPT !.at = "score"]
    OBVIOUS
  <2>2. c \in CheckRecord /\ c.at = "score" /\ c.target = o.target /\ c.anchor = o.anchor
        /\ c.chainOk = o.chainOk /\ c.targetOk = o.targetOk
    BY <1>2, <2>1 DEF CheckRecord, Steps
  <2>3. CheckHolds(c)
    BY <1>2, <1>3, <2>2 DEF CheckHolds, Found, Stands
  <2>4. check' = [check EXCEPT ![r] = c] /\ UNCHANGED <<latest, conf>>
    BY <1>1, <1>3, <2>1 DEF ReadsParent, Goes
  <2>5. c.at \in Steps
    BY <2>2 DEF Steps
  <2> QED BY <1>1, <1>2, <2>2, <2>3, <2>4, <2>5, CheckMoves
<1>4. CASE o.anchor \notin Path[tip]
  <2>1. Fails(r, "stale")
    BY <1>1, <1>4 DEF ReadsParent
  <2> QED BY <1>1, <1>2, <2>1, CheckFails
<1> QED BY <1>3, <1>4

LEMMA ScoreRead ==
    ASSUME IInv, UNCHANGED <<tip, notices, proofed, job, shownVars>>, NEW r \in Readers, ReadsScore(r)
    PROVE  IInv'
<1>1. PICK o : o = check[r]
  OBVIOUS
<1>2. o \in CheckRecord /\ CheckHolds(o) /\ o.at = "score" /\ o.at \in Found /\ o.at \in Steps
      /\ o.target \in Targets /\ o.target \in Blocks
  <2>1. o \in CheckRecord /\ CheckHolds(o) /\ o.at = "score"
    BY <1>1 DEF IInv, DrawType, Beliefs, ReadsScore
  <2> QED BY <2>1 DEF CheckHolds, CheckRecord, Found, Steps, Targets
<1>3. Height(o.target) \in Nat \ {0} /\ MinConf \in Nat \ {0} /\ tip \in Blocks /\ Height(tip) \in Nat \ {0}
  BY <1>2, Heights, DrawAssumption DEF IInv, DrawType
<1> DEFINE behind == Height(tip) < Height(o.target) \/ (o.anchor # None /\ Height(tip) < Height(o.anchor))
<1>4. CASE \E how \in {"behind", "stale"} : Fails(r, how)
  BY <1>1, <1>2, <1>4, CheckFails
<1>5. CASE /\ ~behind /\ Height(tip) < Height(o.target) + MinConf
           /\ check' = [check EXCEPT ![r].at = "unconfirmed", ![r].count = Height(tip) - Height(o.target)]
           /\ latest' = [latest EXCEPT ![o.target] = IF @ = r THEN None ELSE @]
           /\ UNCHANGED conf
  <2>1. Height(tip) - Height(o.target) \in 0 .. MinConf
    BY <1>3, <1>5
  <2>2. PICK n \in 0 .. MinConf : n = Height(tip) - Height(o.target)
    BY <2>1
  <2>3. PICK c : c = [o EXCEPT !.at = "unconfirmed", !.count = n]
    OBVIOUS
  <2>4. c \in CheckRecord /\ c.at = "unconfirmed" /\ c.target = o.target
        /\ c.chainOk = o.chainOk /\ c.targetOk = o.targetOk
    BY <1>2, <2>3 DEF CheckRecord, Outcomes
  <2>5. CheckHolds(c)
    BY <1>2, <2>4 DEF CheckHolds, Found
  <2>6. check' = [check EXCEPT ![r] = c]
    <3>1. \A q \in Readers : check'[q] = IF q = r THEN c ELSE check[q]
      BY <1>1, <1>5, <2>2, <2>3 DEF IInv, DrawType
    <3> QED BY <1>5, <3>1 DEF IInv, DrawType
  <2>7. latest' \in [Blocks -> Readers \cup {None}]
    BY <1>5 DEF IInv, DrawType
  <2> QED BY <1>1, <1>2, <1>5, <2>4, <2>5, <2>6, <2>7, CheckGoesOn
<1>6. CASE /\ ~behind /\ Height(tip) >= Height(o.target) + MinConf /\ Current(o)
           /\ conf' = [conf EXCEPT ![o.target] = [anchor |-> o.anchor, targetOk |-> o.targetOk,
                                                  anchorOk |-> o.anchorOk, chainOk |-> o.chainOk, held |-> {r}]]
           /\ latest' = [latest EXCEPT ![o.target] = None]
           /\ check' = [check EXCEPT ![r] = [NoCheck EXCEPT !.at = "confirmed", !.target = o.target]]
  <2>1. PICK a : a = [anchor |-> o.anchor, targetOk |-> o.targetOk,
                      anchorOk |-> o.anchorOk, chainOk |-> o.chainOk, held |-> {r}]
    OBVIOUS
  <2>2. a \in ConfRecord /\ a.anchor = o.anchor /\ a.held = {r}
        /\ a.targetOk = o.targetOk /\ a.anchorOk = o.anchorOk /\ a.chainOk = o.chainOk
    BY <1>2, <2>1 DEF ConfRecord, CheckRecord
  <2>3. ConfHolds(o.target, a)
    <3>1. (a.chainOk => a.targetOk) /\ (a.targetOk => Stands(o.target))
      BY <1>2, <2>2 DEF CheckHolds
    <3>2. a.anchor # None => Enough(a.anchor, o.target) /\ (a.anchorOk => Stands(a.anchor))
      BY <1>2, <2>2 DEF CheckHolds
    <3>3. a.anchor = None /\ a.chainOk => Deep(o.target, tip) \/ Shaken
      <4>1. a.chainOk => o.target \in Path[tip] \/ Told(o.target)
        BY <3>1 DEF Stands
      <4>2. Told(o.target) => Shaken
        BY DEF Told, Shaken
      <4> QED BY <1>6, <4>1, <4>2 DEF Deep
    <3> QED BY <3>1, <3>2, <3>3 DEF ConfHolds
  <2>4. PICK c : c = [NoCheck EXCEPT !.at = "confirmed", !.target = o.target]
    OBVIOUS
  <2>5. c \in CheckRecord /\ c.at = "confirmed" /\ c.target = o.target /\ c.chainOk = FALSE
    BY <1>2, <2>4, RecordsTyped DEF CheckRecord, Outcomes
  <2>6. CheckHolds(c)
    BY <1>2, <2>5, DrawAssumption DEF CheckHolds, Found
  <2>7. latest' \in [Blocks -> Readers \cup {None}]
    BY <1>6 DEF IInv, DrawType
  <2> QED BY <1>1, <1>2, <1>6, <2>1, <2>2, <2>3, <2>4, <2>5, <2>6, <2>7, CheckGoesOn DEF Found
<1> QED BY <1>1, <1>4, <1>5, <1>6 DEF ReadsScore

LEMMA CheckSteps ==
    ASSUME IInv, UNCHANGED <<tip, notices, proofed, job, shownVars>>, NEW r \in Readers,
           CheckStep(r) \/ (check[r].at \in Steps /\ Fails(r, "stale"))
    PROVE  IInv'
<1>1. CASE ReadsSink(r)
  <2>1. check[r].at \in Found /\ tip \in Blocks /\ Watches(r, tip, "anchor")
    BY <1>1 DEF ReadsSink, Found, IInv, DrawType
  <2> QED BY <2>1, AnchorWatched
<1>2. CASE check[r].at \in Steps /\ Fails(r, "stale")
  BY <1>2, CheckFails
<1> QED BY <1>1, <1>2, TargetRead, AnchorRead, ParentRead, ScoreRead DEF CheckStep

LEMMA Expiry ==
    ASSUME IInv, UNCHANGED <<tip, notices, job, shownVars>>, Expires
    PROVE  IInv'
<1>1. PICK t \in Blocks : conf' = [conf EXCEPT ![t] = NoConf] /\ UNCHANGED <<proofed, check, latest>>
  BY DEF Expires
<1>2. DrawType /\ Beliefs
  BY DEF IInv
<1>3. /\ conf' \in [Blocks -> ConfRecord] /\ \A u \in Blocks : ConfHolds(u, conf[u])'
      /\ \A u \in Blocks : conf'[u] = IF u = t THEN NoConf ELSE conf[u]
  BY <1>1, <1>2, ConfWrites, RecordsTyped
<1>4. DrawType'
  BY <1>1, <1>2, <1>3 DEF DrawType
<1>5. Beliefs'
  <2>1. \A r \in Readers : CheckHolds(check[r])'
    <3> TAKE r \in Readers
    <3>1. PICK c : c = check[r]
      OBVIOUS
    <3> QED BY <1>1, <1>2, <3>1, ChainRests DEF Beliefs
  <2> QED BY <1>3, <2>1 DEF Beliefs
<1>6. PageType'
  BY <1>1 DEF IInv, PageType, Busy, shownVars
<1>7. CheckIsOnly'
  <2>1. PICK c : c = check["page"]
    OBVIOUS
  <2>2. c \in CheckRecord /\ CheckHolds(c) /\ check'["page"] = c
    BY <1>1, <1>2, <2>1 DEF DrawType, Beliefs, Readers
  <2>3. \A u \in Blocks : conf'[u].held \in {conf[u].held, {}} /\ (PageHolds(u)' => PageHolds(u))
    BY <1>3, RecordsTyped DEF PageHolds
  <2>4. c.at \in Steps \cup {"unconfirmed"} => c.target \in Blocks
    BY <2>2 DEF CheckHolds, CheckRecord, Steps, Targets
  <2>5. \A u \in Targets : u \in Blocks
    BY DEF Targets
  <2>6. \A u : Told(u) <=> Told(u)'
    BY ChainRests
  <2> QED BY <2>1, <2>2, <2>3, <2>4, <2>5, <2>6 DEF IInv, CheckIsOnly
<1>8. ReadIsTrue'
  BY <1>1 DEF IInv, ReadIsTrue, Undisturbed, Height, shownVars
<1>9. QuietIsTrue'
  BY QuietRests DEF IInv, shownVars
<1> QED BY <1>4, <1>5, <1>6, <1>7, <1>8, <1>9 DEF IInv

(* A check begins, or shares a young confirmation.                         *)
LEMMA CheckBegun ==
    ASSUME IInv, UNCHANGED <<tip, notices>>, NEW r \in Readers, NEW t \in Targets, CheckBegins(r, t),
           r = "engine" => check[r].at = "none"
    PROVE  /\ check' \in [Readers -> CheckRecord] /\ latest' \in [Blocks -> Readers \cup {None}]
           /\ conf' \in [Blocks -> ConfRecord] /\ Beliefs' /\ CheckIsOnly'
           /\ check'[r].at \in {"confirmed", "target"} /\ \A q \in Readers \ {r} : check'[q] = check[q]
<1>1. DrawType /\ Beliefs /\ t \in Blocks /\ t # None
  BY DrawAssumption DEF IInv, Targets
<1>2. PICK a : a = conf[t]
  OBVIOUS
<1>3. a \in ConfRecord /\ ConfHolds(t, a)
  BY <1>1, <1>2 DEF DrawType, Beliefs
<1>4. PICK c \in CheckRecord, b \in ConfRecord :
        /\ check' = [check EXCEPT ![r] = c] /\ conf' = [conf EXCEPT ![t] = b] /\ c.target = t
        /\ latest' \in [Blocks -> Readers \cup {None}]
        /\ CheckHolds(c) /\ ConfHolds(t, b)
        /\ \/ c.at = "confirmed" /\ b.held = a.held \cup {r} /\ (Current(b) <=> Current(a))
           \/ c.at = "target" /\ b = NoConf
  <2>1. CASE Usable(t) /\ UNCHANGED latest /\ conf' = [conf EXCEPT ![t].held = @ \cup {r}]
             /\ check' = [check EXCEPT ![r] = [NoCheck EXCEPT !.at = "confirmed", !.target = t]]
    <3>1. PICK b : b = [a EXCEPT !.held = @ \cup {r}]
      OBVIOUS
    <3>2. b \in ConfRecord /\ b.held = a.held \cup {r} /\ b.anchor = a.anchor /\ b.targetOk = a.targetOk
          /\ b.anchorOk = a.anchorOk /\ b.chainOk = a.chainOk
      BY <1>3, <3>1 DEF ConfRecord
    <3>3. ConfHolds(t, b) /\ (Current(b) <=> Current(a))
      BY <1>3, <3>2 DEF ConfHolds, Current
    <3>4. PICK c : c = [NoCheck EXCEPT !.at = "confirmed", !.target = t]
      OBVIOUS
    <3>5. c \in CheckRecord /\ c.at = "confirmed" /\ c.target = t /\ c.chainOk = FALSE
      BY <3>4, RecordsTyped DEF CheckRecord, Outcomes
    <3>6. CheckHolds(c)
      BY <1>1, <3>5 DEF CheckHolds, Found
    <3>7. latest' \in [Blocks -> Readers \cup {None}]
      BY <1>1, <2>1 DEF DrawType
    <3>8. conf' = [conf EXCEPT ![t] = b]
      BY <1>2, <2>1, <3>1 DEF IInv, DrawType
    <3> QED BY <2>1, <3>2, <3>3, <3>4, <3>5, <3>6, <3>7, <3>8
  <2>2. CASE /\ conf' = [conf EXCEPT ![t] = NoConf] /\ latest' = [latest EXCEPT ![t] = r]
             /\ check' = [check EXCEPT ![r] =
                            [NoCheck EXCEPT !.at = "target", !.target = t, !.targetOk = TRUE, !.chainOk = TRUE]]
    <3>1. PICK c : c = [NoCheck EXCEPT !.at = "target", !.target = t, !.targetOk = TRUE, !.chainOk = TRUE]
      OBVIOUS
    <3>2. c \in CheckRecord /\ c.at = "target" /\ c.target = t /\ c.chainOk = TRUE /\ c.targetOk = TRUE
      BY <3>1, RecordsTyped DEF CheckRecord, Steps
    <3>3. CheckHolds(c)
      BY <1>1, <3>2 DEF CheckHolds, Found
    <3>4. latest' \in [Blocks -> Readers \cup {None}]
      BY <1>1, <2>2 DEF DrawType
    <3> QED BY <2>2, <3>1, <3>2, <3>3, <3>4, RecordsTyped
  <2> QED BY <2>1, <2>2 DEF CheckBegins
<1>5. check' \in [Readers -> CheckRecord] /\ check'[r] = c /\ \A q \in Readers : CheckHolds(check[q])'
  BY <1>1, <1>4, CheckWrites
<1>6. /\ conf' \in [Blocks -> ConfRecord] /\ \A u \in Blocks : ConfHolds(u, conf[u])'
      /\ \A u \in Blocks : conf'[u] = IF u = t THEN b ELSE conf[u]
  BY <1>1, <1>4, ConfWrites
<1>7. Beliefs'
  BY <1>5, <1>6 DEF Beliefs
<1>8. \A q \in Readers \ {r} : check'[q] = check[q]
  BY <1>1, <1>4 DEF DrawType
<1>9. CheckIsOnly'
  <2>1. CASE r = "page"
    <3>1. check'["page"] = c /\ c.at \notin Found \cup {"unconfirmed"} /\ (c.at \in Steps => b = NoConf)
      BY <1>4, <1>5, <2>1 DEF Found, Steps
    <3>2. c.at \in Steps => "page" \notin conf'[c.target].held
      BY <1>1, <1>4, <1>6, <3>1, RecordsTyped
    <3> QED BY <3>1, <3>2 DEF CheckIsOnly, Found
  <2>2. CASE r = "engine"
    <3>1. PICK p : p = check["page"]
      OBVIOUS
    <3>2. p \in CheckRecord /\ CheckHolds(p) /\ check'["page"] = p
      BY <1>1, <1>8, <2>2, <3>1 DEF DrawType, Beliefs, Readers
    <3>3. \A u \in Blocks : ("page" \in conf'[u].held => "page" \in conf[u].held) /\ (PageHolds(u)' => PageHolds(u))
      BY <1>2, <1>4, <1>6, <2>2, RecordsTyped DEF PageHolds
    <3>4. p.at \in Steps \cup {"unconfirmed"} => p.target \in Blocks
      BY <3>2 DEF CheckHolds, CheckRecord, Steps, Targets
    <3>5. \A u \in Targets : u \in Blocks
      BY DEF Targets
    <3>6. \A u : Told(u) <=> Told(u)'
      BY ChainRests
    <3> QED BY <3>1, <3>2, <3>3, <3>4, <3>5, <3>6 DEF IInv, CheckIsOnly
  <2> QED BY <2>1, <2>2 DEF Readers
<1> QED BY <1>4, <1>5, <1>6, <1>7, <1>8, <1>9

---------------------------------------------------------------------------
(* The engine's draw.                                                      *)

LEMMA ProofIsTarget == ASSUME DrawType, Proof # None PROVE Proof \in Targets
<1>1. CASE proofed # None
  BY <1>1 DEF DrawType, Proof
<1>2. CASE proofed = None
  <2>1. Proof = Target(tip) /\ tip \in Blocks
    BY <1>2 DEF Proof, DrawType
  <2>2. Height(tip) \in Nat /\ Boundary \in Nat
    BY <2>1, Heights, DrawAssumption
  <2> QED BY <2>1, <2>2, TargetIs
<1> QED BY <1>1, <1>2

LEMMA EngineSteps ==
    ASSUME IInv, UNCHANGED <<tip, notices, shownVars>>, EngineStep
    PROVE  IInv'
<1>1. DrawType /\ Beliefs /\ job \in Draw /\ tip \in Blocks
  BY DEF IInv, DrawType
<1>2. QuietIsTrue'
  BY QuietRests DEF IInv, shownVars
<1>3. CASE UNCHANGED <<check, latest, conf>> /\ job' \in Draw /\ (job'.at # "idle" => job'.target \in Targets)
           /\ proofed' \in Targets \cup {None} /\ job.at \notin {"confirm", "send"}
  <2>1. DrawType'
    BY <1>1, <1>3 DEF DrawType
  <2>2. Beliefs'
    <3>1. \A r \in Readers : CheckHolds(check[r])'
      <4> TAKE r \in Readers
      <4>1. PICK c : c = check[r]
        OBVIOUS
      <4> QED BY <1>1, <1>3, <4>1, ChainRests DEF Beliefs
    <3>2. \A u \in Blocks : ConfHolds(u, conf[u])'
      BY <1>1, <1>3, ConfRests
    <3> QED BY <3>1, <3>2 DEF Beliefs
  <2>3. PageType'
    BY <1>3 DEF IInv, PageType, Busy, shownVars
  <2>4. CheckIsOnly'
    <3>1. \A u : (Told(u) <=> Told(u)') /\ (PageHolds(u) <=> PageHolds(u)')
      BY <1>3, ChainRests DEF PageHolds
    <3> QED BY <1>3, <3>1 DEF IInv, CheckIsOnly
  <2>5. ReadIsTrue'
    BY <1>3 DEF IInv, ReadIsTrue, Undisturbed, Height, shownVars
  <2> QED BY <1>2, <2>1, <2>2, <2>3, <2>4, <2>5 DEF IInv
<1>4. CASE Plans
  <2>1. PICK p : p = Proof
    OBVIOUS
  <2>2. p \in Targets /\ proofed' = p /\ job' = [at |-> "confirm", target |-> p] /\ UNCHANGED <<check, latest, conf>>
    BY <1>1, <1>4, <2>1, ProofIsTarget DEF Plans
  <2>3. job' \in Draw /\ job'.target \in Targets
    BY <2>2 DEF Draw
  <2>4. job.at \notin {"confirm", "send"}
    BY <1>4 DEF Plans
  <2> QED BY <1>3, <2>2, <2>3, <2>4
<1>5. CASE Signs \/ Sends
  <2>1. UNCHANGED <<proofed, check, latest, conf>> /\ proofed \in Targets \cup {None}
    BY <1>1, <1>5 DEF Signs, Sends, confVars, DrawType
  <2>2. CASE Signs
    <3>1. job' = [job EXCEPT !.at = "send"] /\ job.at = "sign" /\ job.target \in Targets
      BY <1>1, <2>2 DEF Signs, DrawType
    <3>2. job' \in Draw /\ job'.target \in Targets
      BY <1>1, <3>1 DEF Draw
    <3> QED BY <1>3, <2>1, <3>1, <3>2
  <2>3. CASE Sends
    <3>1. job' \in Draw /\ job'.at = "idle"
      BY <2>3 DEF Sends, Idle, Draw
    <3>2. job.at \notin {"confirm", "send"}
      BY <2>3 DEF Sends
    <3> QED BY <1>3, <2>1, <3>1, <3>2
  <2> QED BY <1>5, <2>2, <2>3
<1>6. CASE EngineChecks
  <2>1. job.target \in Targets /\ check["engine"].at = "none" /\ CheckBegins("engine", job.target)
        /\ UNCHANGED <<proofed, job>> /\ "engine" \in Readers
    BY <1>1, <1>6 DEF EngineChecks, DrawType, Readers
  <2>2. /\ check' \in [Readers -> CheckRecord] /\ latest' \in [Blocks -> Readers \cup {None}]
        /\ conf' \in [Blocks -> ConfRecord] /\ Beliefs' /\ CheckIsOnly'
        /\ \A q \in Readers \ {"engine"} : check'[q] = check[q]
    BY <2>1, CheckBegun
  <2>3. check'["page"] = check["page"]
    BY <2>2 DEF Readers
  <2>4. DrawType'
    BY <1>1, <1>6, <2>1, <2>2 DEF DrawType, EngineChecks
  <2>5. PageType'
    BY <2>3 DEF IInv, PageType, Busy, shownVars
  <2>6. ReadIsTrue'
    BY <2>3 DEF IInv, ReadIsTrue, Undisturbed, Height, shownVars
  <2> QED BY <1>2, <2>2, <2>4, <2>5, <2>6 DEF IInv
<1>7. CASE EngineLearns
  <2>1. check' = [check EXCEPT !["engine"] = NoCheck] /\ UNCHANGED <<latest, conf>> /\ "engine" \in Readers
        /\ check["engine"].at # "none"
    BY <1>7 DEF EngineLearns, Readers
  <2>2. check' \in [Readers -> CheckRecord] /\ \A q \in Readers : CheckHolds(check[q])'
    BY <1>1, <2>1, CheckWrites, RecordsTyped
  <2>3. check'["page"] = check["page"]
    BY <1>1, <2>1 DEF DrawType, Readers
  <2>4. /\ job' \in Draw /\ (job'.at # "idle" => job'.target \in Targets)
        /\ proofed' \in Targets \cup {None}
    <3>1. proofed' \in {proofed, None}
      BY <1>7 DEF EngineLearns, ForgetsFailed
    <3>2. job.at \in {"confirm", "send"} /\ job.target \in Targets
      BY <1>1, <2>1 DEF DrawType
    <3>3. PICK o : o = job
      OBVIOUS
    <3>4. o \in Draw /\ o.target \in Targets
      BY <1>1, <3>2, <3>3
    <3>5. [o EXCEPT !.at = "sign"] \in Draw /\ [o EXCEPT !.at = "fence"] \in Draw
          /\ [o EXCEPT !.at = "sign"].target = o.target /\ [o EXCEPT !.at = "fence"].target = o.target
      BY <3>4 DEF Draw
    <3>6. job' \in {Idle, o, [o EXCEPT !.at = "sign"], [o EXCEPT !.at = "fence"]}
      BY <1>7, <3>3 DEF EngineLearns
    <3>7. Idle \in Draw /\ Idle.at = "idle"
      BY DEF Idle, Draw
    <3>8. job' \in Draw /\ (job'.at # "idle" => job'.target \in Targets)
      BY <3>4, <3>5, <3>6, <3>7
    <3> QED BY <1>1, <3>1, <3>8 DEF DrawType
  <2>5. DrawType'
    <3>1. check'["engine"].at = "none"
      BY <1>1, <2>1, RecordsTyped DEF DrawType
    <3> QED BY <1>1, <2>1, <2>2, <2>4, <3>1 DEF DrawType
  <2>6. Beliefs'
    <3>1. \A u \in Blocks : ConfHolds(u, conf[u])'
      BY <1>1, <2>1, ConfRests
    <3> QED BY <2>2, <3>1 DEF Beliefs
  <2>7. PageType'
    BY <2>3 DEF IInv, PageType, Busy, shownVars
  <2>8. CheckIsOnly'
    <3>1. \A u : (Told(u) <=> Told(u)') /\ (PageHolds(u) <=> PageHolds(u)')
      BY <2>1, ChainRests DEF PageHolds
    <3> QED BY <2>1, <2>3, <3>1 DEF IInv, CheckIsOnly
  <2>9. ReadIsTrue'
    BY <2>3 DEF IInv, ReadIsTrue, Undisturbed, Height, shownVars
  <2> QED BY <1>2, <2>5, <2>6, <2>7, <2>8, <2>9 DEF IInv
<1> QED BY <1>4, <1>5, <1>6, <1>7 DEF EngineStep


---------------------------------------------------------------------------
(* The chain.                                                              *)

LEMMA Moves ==
    ASSUME IInv, Move, UNCHANGED <<confVars, job, shownVars>>
    PROVE  IInv'
<1>1. DrawType /\ Beliefs /\ UNCHANGED <<proofed, check, latest, conf, job, seen, show, timer, requested, reading>>
  BY DEF IInv, confVars, shownVars
<1>2. /\ tip' \in Blocks /\ notices' \in Seq(SUBSET Blocks) /\ notices' # <<>>
      /\ \A b : (Told(b) => Told(b)') /\ (Stands(b) => Stands(b)')
      /\ \A t \in Blocks : Deep(t, tip) \/ Shaken => (Deep(t, tip) \/ Shaken)'
  BY <1>1, MovesAreTold
<1>3. DrawType'
  BY <1>1, <1>2 DEF DrawType
<1>4. PageType'
  BY <1>1 DEF IInv, PageType, Busy
<1>5. Beliefs'
  <2>1. ASSUME NEW r \in Readers PROVE CheckHolds(check[r])'
    <3>1. PICK c : c = check[r]
      OBVIOUS
    <3>2. CheckHolds(c)
      BY <1>1, <3>1 DEF Beliefs
    <3>3. CheckHolds(c)'
      BY <1>2, <3>2 DEF CheckHolds
    <3> QED BY <1>1, <3>1, <3>3
  <2>2. ASSUME NEW t \in Blocks PROVE ConfHolds(t, conf[t])'
    <3>1. PICK a : a = conf[t]
      OBVIOUS
    <3>2. ConfHolds(t, a)
      BY <1>1, <3>1 DEF Beliefs
    <3>3. ConfHolds(t, a)'
      BY <1>2, <3>2 DEF ConfHolds
    <3> QED BY <1>1, <3>1, <3>3
  <2> QED BY <2>1, <2>2 DEF Beliefs
<1>6. CheckIsOnly'
  <2>1. \A u : PageHolds(u)' <=> PageHolds(u)
    BY <1>1 DEF PageHolds
  <2> QED BY <1>1, <1>2, <2>1 DEF IInv, CheckIsOnly
<1>7. ReadIsTrue' /\ QuietIsTrue'
  BY <1>2 DEF ReadIsTrue, Undisturbed, QuietIsTrue
<1> QED BY <1>3, <1>4, <1>5, <1>6, <1>7 DEF IInv

LEMMA StruckCheck ==
    ASSUME NEW c \in CheckRecord, NEW removed, NEW d, d = Strikes(c, c.target, removed)
    PROVE  /\ d \in CheckRecord /\ d.at = c.at /\ d.target = c.target /\ d.anchor = c.anchor
           /\ d.targetOk <=> c.targetOk /\ c.target \notin removed
           /\ d.anchorOk <=> c.anchorOk /\ c.anchor \notin removed
           /\ d.chainOk <=> c.chainOk /\ removed = {}
<1>1. PICK p \in BOOLEAN : p = (c.targetOk /\ c.target \notin removed)
  OBVIOUS
<1>2. PICK q \in BOOLEAN : q = (c.anchorOk /\ c.anchor \notin removed)
  OBVIOUS
<1>3. PICK s \in BOOLEAN : s = (c.chainOk /\ removed = {})
  OBVIOUS
<1>4. d = [c EXCEPT !.targetOk = p, !.anchorOk = q, !.chainOk = s]
  BY <1>1, <1>2, <1>3 DEF Strikes, CheckRecord
<1>5. /\ d \in CheckRecord /\ d.at = c.at /\ d.target = c.target /\ d.anchor = c.anchor
      /\ d.targetOk = p /\ d.anchorOk = q /\ d.chainOk = s
  BY <1>4 DEF CheckRecord
<1> QED BY <1>1, <1>2, <1>3, <1>5

LEMMA StruckConf ==
    ASSUME NEW a \in ConfRecord, NEW t, NEW removed, NEW b, b = Strikes(a, t, removed)
    PROVE  /\ b \in ConfRecord /\ b.held = a.held /\ b.anchor = a.anchor
           /\ b.targetOk <=> a.targetOk /\ t \notin removed
           /\ b.anchorOk <=> a.anchorOk /\ a.anchor \notin removed
           /\ b.chainOk <=> a.chainOk /\ removed = {}
<1>1. PICK p \in BOOLEAN : p = (a.targetOk /\ t \notin removed)
  OBVIOUS
<1>2. PICK q \in BOOLEAN : q = (a.anchorOk /\ a.anchor \notin removed)
  OBVIOUS
<1>3. PICK s \in BOOLEAN : s = (a.chainOk /\ removed = {})
  OBVIOUS
<1>4. b = [a EXCEPT !.targetOk = p, !.anchorOk = q, !.chainOk = s]
  BY <1>1, <1>2, <1>3 DEF Strikes, ConfRecord
<1>5. /\ b \in ConfRecord /\ b.held = a.held /\ b.anchor = a.anchor
      /\ b.targetOk = p /\ b.anchorOk = q /\ b.chainOk = s
  BY <1>4 DEF ConfRecord
<1> QED BY <1>1, <1>2, <1>3, <1>5

---------------------------------------------------------------------------
(* What is shown.                                                          *)

(* With all notices received, a confirmation the page holds is of the      *)
(* chain's own target, and it is deep.                                     *)
LEMMA HeldIsReady ==
    ASSUME DrawType', Beliefs', NEW t \in Targets, PageHolds(t)', notices' = <<>>
    PROVE  Expected' = "READY" /\ ~Told(t)' /\ Height(tip') >= Boundary
<1>1. PICK a : a = conf'[t]
  OBVIOUS
<1>2. PICK b : b = tip'
  OBVIOUS
<1>3. t \in Blocks /\ b \in Blocks /\ a \in ConfRecord /\ Current(a) /\ ConfHolds(t, a)'
  BY <1>1, <1>2 DEF DrawType, Beliefs, PageHolds, Targets
<1>4. ~Shaken' /\ \A u : ~Told(u)'
  <2>1. Len(notices') = 0
    OBVIOUS
  <2> QED BY <2>1 DEF Shaken, Told
<1>5. Deep(t, b)
  <2>1. CASE a.anchor = None
    BY <1>2, <1>3, <1>4, <2>1 DEF ConfHolds, Current, Deep, Height
  <2>2. CASE a.anchor # None
    <3>1. t \in Path[b] /\ a.anchor \in Path[b] /\ Enough(a.anchor, t)'
      BY <1>2, <1>3, <1>4, <2>2 DEF ConfHolds, Current, Stands
    <3>2. Height(a.anchor) >= Height(t) + MinConf
      BY <3>1 DEF Enough, Height
    <3>3. Height(b) >= Height(a.anchor)
      BY <1>3, <3>1, Heights
    <3> QED BY <1>3, <3>1, <3>2, <3>3, Heights, DrawAssumption DEF Deep
  <2> QED BY <2>1, <2>2
<1>6. Target(b) = t /\ Height(b) >= Boundary /\ Height(b) \in Nat /\ Boundary \in Nat
  BY <1>3, <1>5, DeepIs, Heights, DrawAssumption
<1>7. Expected' = "READY"
  <2>1. Expected' = IF Height(b) < Boundary THEN "DAA_WAIT"
                    ELSE IF Deep(Target(b), b) THEN "READY" ELSE "TARGET_WAIT"
    BY <1>2 DEF Expected, Deep, Target, Height
  <2> QED BY <1>5, <1>6, <2>1
<1> QED BY <1>2, <1>4, <1>6, <1>7 DEF Height

(* What a hint does to a page that shows p: it is due, or p still holds.   *)
LEMMA HintDoes ==
    ASSUME timer \in BOOLEAN, seen' \in BOOLEAN, NEW p \in Progress, NEW busy \in BOOLEAN, NEW asked \in BOOLEAN,
           p.phase = "READY" => p.target # None, Hint(p, busy, asked)
    PROVE  /\ show' \in Progress /\ timer' \in BOOLEAN /\ requested' \in BOOLEAN
           /\ show'.phase = "READY" => show'.target # None
           /\ ~seen' => show' = p
           /\ asked => requested'
           /\ requested' => asked \/ busy
           /\ timer' => timer \/ (seen' /\ ~busy)
           /\ \/ ~seen' \/ (busy /\ requested') \/ (~busy /\ timer')
              \/ p.phase = "READY" /\ show' = p /\ p.target \in Targets /\ PageHolds(p.target)'
<1>1. PICK ready \in BOOLEAN : ready <=> (p.phase = "READY" /\ p.target # None
                   /\ "page" \in conf'[p.target].held /\ Current(conf'[p.target]))
  <2> DEFINE e == p.phase = "READY" /\ p.target # None
                   /\ "page" \in conf'[p.target].held /\ Current(conf'[p.target])
  <2>1. e \in BOOLEAN
    OBVIOUS
  <2> QED BY <2>1
<1>2. /\ show' = (IF seen' /\ p.phase = "none" THEN Phase("CHECKING") ELSE p)
      /\ requested' = (asked \/ ((seen' /\ ~ready) /\ busy))
      /\ timer' = (timer \/ ((seen' /\ ~ready) /\ ~busy))
  BY <1>1 DEF Hint, Hints
<1>3. Phase("CHECKING") \in Progress /\ Phase("CHECKING").phase = "CHECKING"
  BY DrawAssumption DEF Phase, Nothing, Progress, Phases
<1>4. timer' \in BOOLEAN /\ requested' \in BOOLEAN
  BY <1>2
<1>5. /\ asked => requested'
      /\ requested' => asked \/ busy
      /\ timer' => timer \/ (seen' /\ ~busy)
      /\ ~seen' \/ (busy /\ requested') \/ (~busy /\ timer') \/ ready
  BY <1>2
<1>6. ready => p.phase = "READY" /\ p.target \in Targets /\ PageHolds(p.target)'
  BY <1>1 DEF PageHolds, Progress
<1>7. ready => show' = p
  BY <1>2, <1>6
<1>8. show' \in Progress /\ (show'.phase = "READY" => show'.target # None) /\ (~seen' => show' = p)
  BY <1>2, <1>3
<1> QED BY <1>4, <1>5, <1>6, <1>7, <1>8

(* A page that took a hint between reads is quiet only when it is right.   *)
LEMMA HintIsTrue ==
    ASSUME DrawType', Beliefs', timer \in BOOLEAN, seen' \in BOOLEAN,
           NEW p \in Progress, NEW busy \in BOOLEAN, NEW asked \in BOOLEAN,
           p.phase = "READY" => p.target # None, Hint(p, busy, asked), busy => Busy'
    PROVE  QuietIsTrue'
<1>1. SUFFICES ASSUME seen', notices' = <<>>, ~timer', ~Busy'
      PROVE  show'.phase \in {Expected', "UNAVAILABLE"}
  BY DEF QuietIsTrue
<1>2. p.phase = "READY" /\ show' = p /\ p.target \in Targets /\ PageHolds(p.target)'
  BY <1>1, HintDoes
<1>3. Expected' = "READY"
  BY <1>1, <1>2, HeldIsReady
<1> QED BY <1>2, <1>3

(* The end of a read: what it shows is true of an undisturbed chain, or a  *)
(* read is due again.                                                      *)
LEMMA EndsWell ==
    ASSUME IInv, DrawType', Beliefs', UNCHANGED <<tip, notices, seen>>, Busy,
           NEW p \in Progress, p.phase = "READY" => p.target # None, ~seen => p.phase = "none",
           NEW again \in BOOLEAN, Ends(p, again),
           ~requested /\ ~again /\ seen /\ notices = <<>> => p.phase \in {Expected, "UNAVAILABLE"}
    PROVE  PageType' /\ ReadIsTrue' /\ QuietIsTrue'
<1>1. /\ timer \in BOOLEAN /\ seen \in BOOLEAN /\ requested \in BOOLEAN /\ ~timer /\ seen' = seen
  BY DEF IInv, PageType
<1>2. reading' = NotReading /\ NotReading.at = "none" /\ NotReading.valid = FALSE
      /\ NotReading \in [at : {"none", "daa", "acquire", "confirm"}, valid : BOOLEAN]
  BY DEF Ends, NotReading
<1>3. ~Busy'
  BY <1>2 DEF Busy
<1>4. Expected' = Expected
  BY DEF Expected, Deep, Target, Height
<1>5. CASE requested \/ again
  <2>1. Hint(p, FALSE, FALSE)
    BY <1>5 DEF Ends
  <2>2. /\ show' \in Progress /\ timer' \in BOOLEAN /\ requested' \in BOOLEAN
        /\ show'.phase = "READY" => show'.target # None
        /\ ~seen' => show' = p
        /\ ~requested' /\ (timer' => seen')
    BY <1>1, <2>1, HintDoes
  <2>3. QuietIsTrue'
    BY <1>1, <2>1, HintIsTrue
  <2>4. PageType'
    BY <1>1, <1>2, <1>3, <2>2 DEF PageType
  <2> QED BY <1>2, <2>3, <2>4 DEF ReadIsTrue
<1>6. CASE ~(requested \/ again)
  <2>1. show' = p /\ timer' = timer /\ requested' = FALSE
    BY <1>6 DEF Ends
  <2>2. PageType'
    <3>1. timer = FALSE
      BY <1>1
    <3>2. timer' \in BOOLEAN /\ ~timer' /\ requested' \in BOOLEAN /\ ~requested'
      BY <2>1, <3>1
    <3>3. seen' \in BOOLEAN
      BY <1>1
    <3>4. show' \in Progress /\ (show'.phase = "READY" => show'.target # None)
      BY <2>1
    <3>5. ~seen' => show'.phase = "none"
      BY <1>1, <2>1
    <3> QED BY <1>2, <1>3, <3>2, <3>3, <3>4, <3>5 DEF PageType
  <2>3. QuietIsTrue'
    BY <1>4, <1>6, <2>1 DEF QuietIsTrue
  <2> QED BY <1>2, <2>2, <2>3 DEF ReadIsTrue
<1> QED BY <1>5, <1>6

(* A notice is received.                                                   *)
LEMMA Delivered == ASSUME IInv, Deliver PROVE IInv'
<1>1. DrawType /\ Beliefs /\ PageType /\ notices # <<>> /\ notices' = Tail(notices)
      /\ UNCHANGED <<tip, upsets, latest, job, seen, reading>>
  BY DEF IInv, Deliver
<1>2. PICK h : h = Head(notices)
  OBVIOUS
<1>3. /\ notices' \in Seq(SUBSET Blocks) /\ h \in SUBSET Blocks
      /\ \A b : Told(b) => b \in h \/ Told(b)'
      /\ \A b : Stands(b) => b \in h \/ Stands(b)'
      /\ Shaken => h # {} \/ Shaken'
  BY <1>1, <1>2, DeliveriesAreTold
<1>4. /\ check' = [r \in Readers |-> Strikes(check[r], check[r].target, h)]
      /\ conf' = [t \in Blocks |-> Strikes(conf[t], t, h)]
      /\ proofed' = IF h = {} THEN proofed ELSE None
      /\ Hint(show, Busy, requested)
  BY <1>2 DEF Deliver, Heard
<1>5. ASSUME NEW r \in Readers
      PROVE  check'[r] \in CheckRecord /\ CheckHolds(check[r])' /\ check'[r].at = check[r].at
             /\ check'[r].target = check[r].target
  <2>1. PICK c : c = check[r]
    OBVIOUS
  <2>2. PICK d : d = Strikes(c, c.target, h)
    OBVIOUS
  <2>3. c \in CheckRecord /\ CheckHolds(c) /\ check'[r] = d
    BY <1>1, <1>4, <2>1, <2>2 DEF DrawType, Beliefs
  <2>4. /\ d \in CheckRecord /\ d.at = c.at /\ d.target = c.target /\ d.anchor = c.anchor
        /\ d.targetOk <=> c.targetOk /\ c.target \notin h
        /\ d.anchorOk <=> c.anchorOk /\ c.anchor \notin h
        /\ d.chainOk <=> c.chainOk /\ h = {}
    BY <2>2, <2>3, StruckCheck
  <2>5. CheckHolds(d)'
    <3>1. (d.at # "none" => d.target # None) /\ (d.chainOk => d.targetOk)
      BY <2>3, <2>4 DEF CheckHolds
    <3>2. d.at \in Found /\ d.targetOk => Stands(d.target)'
      BY <1>3, <2>3, <2>4 DEF CheckHolds
    <3>3. /\ d.at \in {"anchor", "parent"} => d.anchor # None
          /\ d.at \in {"parent", "score"} /\ d.anchor # None => Enough(d.anchor, d.target)
      BY <2>3, <2>4 DEF CheckHolds
    <3>4. d.at = "score" /\ d.anchor # None /\ d.anchorOk => Stands(d.anchor)'
      BY <1>3, <2>3, <2>4 DEF CheckHolds
    <3> QED BY <3>1, <3>2, <3>3, <3>4 DEF CheckHolds, Enough, Height
  <2> QED BY <2>1, <2>3, <2>4, <2>5
<1>6. ASSUME NEW t \in Blocks
      PROVE  conf'[t] \in ConfRecord /\ ConfHolds(t, conf[t])' /\ conf'[t].held = conf[t].held
             /\ (PageHolds(t)' => PageHolds(t) /\ t \notin h)
  <2>1. PICK a : a = conf[t]
    OBVIOUS
  <2>2. PICK b : b = Strikes(a, t, h)
    OBVIOUS
  <2>3. a \in ConfRecord /\ ConfHolds(t, a) /\ conf'[t] = b
    BY <1>1, <1>4, <2>1, <2>2 DEF DrawType, Beliefs
  <2>4. /\ b \in ConfRecord /\ b.held = a.held /\ b.anchor = a.anchor
        /\ b.targetOk <=> a.targetOk /\ t \notin h
        /\ b.anchorOk <=> a.anchorOk /\ a.anchor \notin h
        /\ b.chainOk <=> a.chainOk /\ h = {}
    BY <2>2, <2>3, StruckConf
  <2>5. ConfHolds(t, b)'
    <3>1. (b.chainOk => b.targetOk) /\ (b.targetOk => Stands(t)')
      BY <1>3, <2>3, <2>4 DEF ConfHolds
    <3>2. b.anchor # None => Enough(b.anchor, t) /\ (b.anchorOk => Stands(b.anchor)')
      BY <1>3, <2>3, <2>4 DEF ConfHolds
    <3>3. b.anchor = None /\ b.chainOk => Deep(t, tip) \/ Shaken'
      BY <1>3, <2>3, <2>4 DEF ConfHolds
    <3>4. Deep(t, tip)' <=> Deep(t, tip)
      BY <1>1 DEF Deep, Height
    <3> QED BY <3>1, <3>2, <3>3, <3>4 DEF ConfHolds, Enough, Height
  <2>6. Current(b) => Current(a) /\ t \notin h
    BY <2>3, <2>4 DEF Current, ConfHolds
  <2> QED BY <2>1, <2>3, <2>4, <2>5, <2>6 DEF PageHolds
<1>7. check' \in [Readers -> CheckRecord] /\ conf' \in [Blocks -> ConfRecord]
  BY <1>4, <1>5, <1>6
<1>8. DrawType'
  <2>1. check'["engine"].at = check["engine"].at
    BY <1>5 DEF Readers
  <2>2. proofed' \in Targets \cup {None}
    BY <1>1, <1>4 DEF DrawType
  <2> QED BY <1>1, <1>3, <1>7, <2>1, <2>2 DEF DrawType
<1>9. Beliefs'
  BY <1>5, <1>6 DEF Beliefs
<1>10. PICK c : c = check["page"]
  OBVIOUS
<1>11. c \in CheckRecord /\ CheckHolds(c) /\ check'["page"].at = c.at /\ check'["page"].target = c.target
       /\ (c.at \in Steps \cup {"unconfirmed"} => c.target \in Blocks)
  <2>1. c \in CheckRecord /\ CheckHolds(c) /\ check'["page"].at = c.at /\ check'["page"].target = c.target
    BY <1>1, <1>5, <1>10 DEF DrawType, Beliefs, Readers
  <2> QED BY <2>1 DEF CheckHolds, CheckRecord, Steps, Targets
<1>12. CheckIsOnly'
  <2>1. ASSUME c.at \in Steps \cup {"unconfirmed"} PROVE "page" \notin conf'[c.target].held
    BY <1>6, <1>10, <1>11, <2>1 DEF IInv, CheckIsOnly
  <2>2. ASSUME c.at \in Found \cup {"unconfirmed"}, NEW u \in Targets \ {c.target}, PageHolds(u)' PROVE Told(u)'
    <3>1. PageHolds(u) /\ u \notin h
      BY <1>6, <2>2 DEF Targets
    <3>2. Told(u)
      BY <1>10, <2>2, <3>1 DEF IInv, CheckIsOnly
    <3> QED BY <1>3, <3>1, <3>2
  <2> QED BY <1>11, <2>1, <2>2 DEF CheckIsOnly
<1>13. PICK b \in BOOLEAN : b <=> Busy
  <2>1. Busy \in BOOLEAN
    BY DEF Busy
  <2> QED BY <2>1
<1>14. PICK p : p = show
  OBVIOUS
<1>15. PICK asked \in BOOLEAN : asked = requested
  BY <1>1 DEF PageType
<1>16. Hint(p, b, asked) /\ p \in Progress /\ (p.phase = "READY" => p.target # None) /\ (Busy' <=> b)
       /\ timer \in BOOLEAN /\ seen' = seen /\ seen \in BOOLEAN
  <2>1. b = Busy
    BY <1>13 DEF Busy
  <2> QED BY <1>1, <1>4, <1>13, <1>14, <1>15, <2>1 DEF PageType, Busy
<1>17. /\ show' \in Progress /\ timer' \in BOOLEAN /\ requested' \in BOOLEAN
       /\ show'.phase = "READY" => show'.target # None
       /\ ~seen' => show' = p
       /\ asked => requested'
       /\ requested' => asked \/ b
       /\ timer' => timer \/ (seen' /\ ~b)
       /\ \/ ~seen' \/ (b /\ requested') \/ (~b /\ timer')
          \/ p.phase = "READY" /\ show' = p /\ p.target \in Targets /\ PageHolds(p.target)'
  BY <1>16, HintDoes
<1>18. QuietIsTrue'
  BY <1>8, <1>9, <1>16, HintIsTrue
<1>19. PageType'
  <2>1. check'["page"].at = check["page"].at
    BY <1>10, <1>11
  <2> QED BY <1>1, <1>13, <1>14, <1>15, <1>16, <1>17, <2>1 DEF PageType
<1>20. ReadIsTrue'
  <2>1. SUFFICES ASSUME reading.valid, notices' = <<>>, ~requested'
        PROVE  /\ reading.at = "acquire" => Height(tip') >= Boundary
               /\ reading.at = "confirm" => c.at \notin Found \cup {"unconfirmed"}
    BY <1>1, <1>11 DEF ReadIsTrue, Undisturbed, Height
  <2>2. p.target \in Targets /\ PageHolds(p.target)'
    BY <1>1, <1>13, <1>16, <1>17, <2>1 DEF PageType
  <2>3. Height(tip') >= Boundary /\ ~Told(p.target)'
    BY <1>8, <1>9, <2>1, <2>2, HeldIsReady
  <2>4. ASSUME c.at \in Found \cup {"unconfirmed"} PROVE FALSE
    <3>1. c.at \in Steps \cup {"unconfirmed"}
      BY <2>4 DEF Found, Steps
    <3>2. p.target # c.target
      BY <1>11, <1>12, <2>2, <3>1 DEF CheckIsOnly, PageHolds
    <3> QED BY <1>11, <1>12, <2>2, <2>3, <2>4, <3>2 DEF CheckIsOnly
  <2> QED BY <2>3, <2>4
<1> QED BY <1>8, <1>9, <1>12, <1>18, <1>19, <1>20 DEF IInv

(* Nothing noted holds, and what was read comes to nothing.                *)
LEMMA Gaps == ASSUME IInv, Gap PROVE IInv'
<1>1. /\ DrawType /\ PageType /\ notices' = <<>> /\ tip' \in Blocks /\ Lost /\ UNCHANGED <<latest, job>>
      /\ seen' = FALSE /\ show' = Nothing /\ timer' = FALSE /\ requested' = requested
      /\ reading' = [reading EXCEPT !.valid = FALSE]
  BY DEF IInv, Gap, Invalidates
<1>2. conf' = [t \in Blocks |-> NoConf] /\ proofed' = None
  BY <1>1 DEF Lost
<1>3. ASSUME NEW r \in Readers
      PROVE  /\ check'[r] \in CheckRecord /\ check'[r].at = check[r].at /\ check'[r].target = check[r].target
             /\ CheckHolds(check[r])'
  <2>1. PICK c : c = check[r]
    OBVIOUS
  <2>2. PICK d : d = [c EXCEPT !.targetOk = FALSE, !.anchorOk = FALSE, !.chainOk = FALSE]
    OBVIOUS
  <2>3. c \in CheckRecord /\ CheckHolds(c) /\ check'[r] = d
    BY <1>1, <2>1, <2>2 DEF IInv, DrawType, Beliefs, Lost
  <2>4. /\ d \in CheckRecord /\ d.at = c.at /\ d.target = c.target /\ d.anchor = c.anchor
        /\ ~d.targetOk /\ ~d.anchorOk /\ ~d.chainOk
    BY <2>2, <2>3 DEF CheckRecord
  <2>5. CheckHolds(d)'
    BY <2>3, <2>4 DEF CheckHolds, Enough, Height
  <2> QED BY <2>1, <2>3, <2>4, <2>5
<1>4. ASSUME NEW t \in Blocks PROVE conf'[t] = NoConf /\ conf'[t].held = {} /\ ConfHolds(t, conf[t])'
  <2>1. conf'[t] = NoConf
    BY <1>2
  <2>2. ConfHolds(t, NoConf)'
    BY RecordsTyped DEF ConfHolds
  <2> QED BY <2>1, <2>2, RecordsTyped
<1>5. DrawType'
  <2>1. notices' \in Seq(SUBSET Blocks)
    BY <1>1
  <2>2. check' \in [Readers -> CheckRecord]
    BY <1>1, <1>3 DEF Lost
  <2>3. conf' \in [Blocks -> ConfRecord]
    BY <1>2, RecordsTyped
  <2>4. check'["engine"].at = check["engine"].at
    BY <1>3 DEF Readers
  <2> QED BY <1>1, <1>2, <2>1, <2>2, <2>3, <2>4 DEF DrawType
<1>6. Beliefs'
  BY <1>3, <1>4 DEF Beliefs
<1>7. check'["page"].at = check["page"].at /\ check'["page"].target = check["page"].target
  BY <1>3 DEF Readers
<1>8. CheckIsOnly'
  <2>1. \A u \in Blocks : "page" \notin conf'[u].held
    BY <1>4
  <2>2. check["page"].at \in Steps \cup {"unconfirmed"} => check["page"].target \in Blocks
    <3>1. PICK c : c = check["page"]
      OBVIOUS
    <3>2. c \in CheckRecord /\ CheckHolds(c)
      BY <1>1, <3>1 DEF IInv, DrawType, Beliefs, Readers
    <3> QED BY <3>1, <3>2 DEF CheckHolds, CheckRecord, Steps, Targets
  <2> QED BY <1>7, <2>1, <2>2 DEF CheckIsOnly, PageHolds, Targets
<1>9. reading'.at = reading.at /\ reading'.valid = FALSE
      /\ reading' \in [at : {"none", "daa", "acquire", "confirm"}, valid : BOOLEAN]
  BY <1>1 DEF PageType
<1>10. Nothing \in Progress /\ Nothing.phase = "none"
  BY DrawAssumption DEF Nothing, Progress, Phases
<1>11. PageType'
  BY <1>1, <1>7, <1>9, <1>10 DEF PageType, Busy
<1>12. ReadIsTrue' /\ QuietIsTrue'
  BY <1>1, <1>9 DEF ReadIsTrue, QuietIsTrue
<1> QED BY <1>5, <1>6, <1>8, <1>11, <1>12 DEF IInv

(* What does not concern the chain or the confirmations.                   *)
LEMMA DrawRests ==
    ASSUME IInv, UNCHANGED <<chainVars, confVars, job>>
    PROVE  DrawType' /\ Beliefs' /\ CheckIsOnly'
<1>1. UNCHANGED <<tip, notices, proofed, check, latest, conf, job>> /\ DrawType /\ Beliefs
  BY DEF IInv, chainVars, confVars
<1>2. DrawType'
  BY <1>1 DEF DrawType
<1>3. \A r \in Readers : CheckHolds(check[r])'
  <2> TAKE r \in Readers
  <2>1. PICK c : c = check[r]
    OBVIOUS
  <2> QED BY <1>1, <2>1, ChainRests DEF Beliefs
<1>4. \A u \in Blocks : ConfHolds(u, conf[u])'
  BY <1>1, ConfRests
<1>5. \A u : (Told(u) <=> Told(u)') /\ (PageHolds(u) <=> PageHolds(u)')
  BY <1>1, ChainRests DEF PageHolds
<1>6. CheckIsOnly'
  BY <1>1, <1>5 DEF IInv, CheckIsOnly
<1> QED BY <1>2, <1>3, <1>4, <1>6 DEF Beliefs

LEMMA SessionLost == ASSUME IInv, SessionLoses PROVE IInv'
<1>1. /\ PageType /\ UNCHANGED <<chainVars, confVars, job>>
      /\ seen' = FALSE /\ show' = Nothing /\ timer' = FALSE /\ requested' = requested
      /\ reading' = [reading EXCEPT !.valid = FALSE]
  BY DEF IInv, SessionLoses, Invalidates
<1>2. DrawType' /\ Beliefs' /\ CheckIsOnly'
  BY <1>1, DrawRests
<1>3. reading'.at = reading.at /\ reading'.valid = FALSE
      /\ reading' \in [at : {"none", "daa", "acquire", "confirm"}, valid : BOOLEAN]
  BY <1>1 DEF PageType
<1>4. Nothing \in Progress /\ Nothing.phase = "none"
  BY DrawAssumption DEF Nothing, Progress, Phases
<1>5. PageType'
  BY <1>1, <1>3, <1>4 DEF PageType, Busy, confVars
<1>6. ReadIsTrue' /\ QuietIsTrue'
  BY <1>1, <1>3 DEF ReadIsTrue, QuietIsTrue
<1> QED BY <1>2, <1>5, <1>6 DEF IInv

(* The page is told to show p and to read again; p is not ready.           *)
LEMMA PageIsTold ==
    ASSUME IInv, UNCHANGED <<drawVars, reading>>, seen' = TRUE, NEW p \in Progress, p.phase # "READY",
           Hint(p, Busy, requested), reading.valid => seen
    PROVE  IInv'
<1>1. PageType /\ UNCHANGED <<chainVars, confVars, job, tip, check>> /\ timer \in BOOLEAN /\ requested \in BOOLEAN
  BY DEF IInv, PageType, drawVars, chainVars, confVars
<1>2. DrawType' /\ Beliefs' /\ CheckIsOnly'
  BY <1>1, DrawRests
<1>3. PICK b \in BOOLEAN : b = Busy
  <2>1. Busy \in BOOLEAN
    BY DEF Busy
  <2> QED BY <2>1
<1>4. PICK asked \in BOOLEAN : asked = requested
  BY <1>1
<1>5. Hint(p, b, asked) /\ (b <=> Busy) /\ (Busy' <=> b)
  BY <1>3, <1>4 DEF Busy
<1>6. /\ show' \in Progress /\ timer' \in BOOLEAN /\ requested' \in BOOLEAN
      /\ show'.phase = "READY" => show'.target # None
      /\ asked => requested'
      /\ requested' => asked \/ b
      /\ timer' => timer \/ (seen' /\ ~b)
      /\ (b /\ requested') \/ (~b /\ timer')
  BY <1>1, <1>5, HintDoes
<1>7. QuietIsTrue'
  BY <1>1, <1>2, <1>5, HintIsTrue
<1>8. PageType'
  BY <1>1, <1>4, <1>5, <1>6 DEF PageType
<1>9. ReadIsTrue'
  <2>1. reading.valid => Busy
    BY <1>1 DEF PageType
  <2>2. reading.valid => requested'
    BY <1>5, <1>6, <2>1
  <2> QED BY <2>2 DEF ReadIsTrue, Undisturbed
<1> QED BY <1>2, <1>7, <1>8, <1>9 DEF IInv

LEMMA Phased ==
    ASSUME NEW n \in Phases
    PROVE  Phase(n) \in Progress /\ Phase(n).phase = n /\ Phase(n).target = None
  BY DrawAssumption DEF Phase, Nothing, Progress, Phases

LEMMA SessionSeen == ASSUME IInv, SessionSees PROVE IInv'
<1>1. PICK p : p = show
  OBVIOUS
<1>2. p \in Progress /\ p.phase # "READY" /\ (reading.valid => seen)
  BY <1>1 DEF IInv, PageType, SessionSees
<1> QED BY <1>1, <1>2, PageIsTold DEF SessionSees

LEMMA Pulsed == ASSUME IInv, Pulse PROVE IInv'
<1>1. DrawType /\ PageType /\ seen = TRUE /\ seen' = TRUE /\ UNCHANGED <<drawVars, reading>>
  BY DEF IInv, Pulse, PageType
<1>2. CASE show.phase = "DAA_WAIT" /\ Hint(Phase("TARGET_CHECKING"), Busy, requested)
  <2>1. PICK p : p = Phase("TARGET_CHECKING")
    OBVIOUS
  <2>2. p \in Progress /\ p.phase # "READY"
    BY <2>1, Phased DEF Phases
  <2> QED BY <1>1, <1>2, <2>1, <2>2, PageIsTold
<1>3. CASE show.phase = "TARGET_WAIT" /\ show.target # None /\ Height(tip) >= Height(show.target)
  <2> DEFINE live == Height(tip) - Height(show.target)
             next == [show EXCEPT !.count = IF live > @ THEN IF live >= MinConf THEN MinConf - 1 ELSE live ELSE @]
  <2>1. (live >= MinConf /\ Hint(next, Busy, requested)) \/ (show' = next /\ UNCHANGED <<timer, requested>>)
    BY <1>3 DEF Pulse
  <2>2. show.target \in Blocks /\ tip \in Blocks
    BY <1>1, <1>3 DEF PageType, DrawType, Progress, Targets
  <2>3. live \in Nat /\ MinConf \in Nat \ {0}
    BY <1>3, <2>2, Heights, DrawAssumption
  <2>4. PICK l \in Nat : l = live
    BY <2>3
  <2>5. PICK s : s = show
    OBVIOUS
  <2>6. s \in Progress /\ s.phase = "TARGET_WAIT"
    BY <1>1, <1>3, <2>5 DEF PageType
  <2>7. PICK n \in 0 .. MinConf : n = IF l > s.count THEN IF l >= MinConf THEN MinConf - 1 ELSE l ELSE s.count
    <3>1. (IF l > s.count THEN IF l >= MinConf THEN MinConf - 1 ELSE l ELSE s.count) \in 0 .. MinConf
      BY <2>3, <2>6 DEF Progress
    <3> QED BY <3>1
  <2>8. PICK p : p = [s EXCEPT !.count = n]
    OBVIOUS
  <2>9. p = next
    BY <2>4, <2>5, <2>7, <2>8
  <2>10. p \in Progress /\ p.phase = "TARGET_WAIT"
    BY <2>6, <2>8 DEF Progress
  <2> HIDE DEF next
  <2>11. CASE Hint(p, Busy, requested)
    BY <1>1, <2>10, <2>11, PageIsTold
  <2>12. CASE show' = p /\ UNCHANGED <<timer, requested>>
    <3>1. UNCHANGED <<chainVars, confVars, job, tip, notices, check>>
      BY <1>1 DEF drawVars, chainVars, confVars
    <3>2. DrawType' /\ Beliefs' /\ CheckIsOnly'
      BY <3>1, DrawRests
    <3>3. show'.phase = show.phase /\ show' \in Progress /\ show'.phase # "READY"
      BY <2>5, <2>6, <2>10, <2>12
    <3>4. PageType'
      BY <1>1, <2>12, <3>1, <3>3 DEF PageType, Busy
    <3>5. ReadIsTrue'
      BY <1>1, <2>12, <3>1 DEF IInv, ReadIsTrue, Undisturbed, Height
    <3>6. QuietIsTrue'
      BY <1>1, <2>12, <3>1, <3>3 DEF IInv, QuietIsTrue, Expected, Busy, Deep, Target, Height
    <3> QED BY <3>2, <3>4, <3>5, <3>6 DEF IInv
  <2> QED BY <2>1, <2>9, <2>11, <2>12
<1> QED BY <1>2, <1>3 DEF Pulse

---------------------------------------------------------------------------
(* The page's reads.                                                       *)

LEMMA ReadBegun == ASSUME IInv, ReadBegins PROVE IInv'
<1>1. /\ PageType /\ UNCHANGED <<chainVars, confVars, job, tip, check, seen, show>> /\ seen = TRUE
      /\ timer' = FALSE /\ requested' = FALSE /\ reading' = [at |-> "daa", valid |-> TRUE]
  BY DEF IInv, PageType, ReadBegins, drawVars, chainVars, confVars
<1>2. DrawType' /\ Beliefs' /\ CheckIsOnly'
  BY <1>1, DrawRests
<1>3. /\ reading'.at = "daa" /\ reading'.valid /\ Busy'
      /\ reading' \in [at : {"none", "daa", "acquire", "confirm"}, valid : BOOLEAN]
  BY <1>1 DEF Busy
<1>4. PageType'
  BY <1>1, <1>3 DEF PageType
<1>5. ReadIsTrue' /\ QuietIsTrue'
  BY <1>3 DEF ReadIsTrue, QuietIsTrue
<1> QED BY <1>2, <1>4, <1>5 DEF IInv

LEMMA DaaRead == ASSUME IInv, ReadDaa PROVE IInv'
<1>1. /\ PageType /\ UNCHANGED <<chainVars, confVars, job, tip, notices, check, seen>> /\ seen
      /\ reading.at = "daa" /\ reading.valid /\ Busy
  BY DEF IInv, PageType, ReadDaa, drawVars, chainVars, confVars
<1>2. DrawType' /\ Beliefs' /\ CheckIsOnly'
  BY <1>1, DrawRests
<1>3. Height(tip) \in Nat /\ Boundary \in Nat
  BY Heights, DrawAssumption DEF IInv, DrawType
<1>4. CASE Height(tip) < Boundary /\ Ends(Phase("DAA_WAIT"), FALSE)
  <2>1. PICK p : p = Phase("DAA_WAIT")
    OBVIOUS
  <2>2. p \in Progress /\ p.phase = "DAA_WAIT" /\ Expected = "DAA_WAIT"
    BY <1>4, <2>1, Phased DEF Phases, Expected
  <2> QED BY <1>1, <1>2, <1>4, <2>1, <2>2, EndsWell DEF IInv
<1>5. CASE /\ Height(tip) >= Boundary
           /\ reading' = [reading EXCEPT !.at = "acquire"]
           /\ show' = IF show.target = None THEN Phase("TARGET_CHECKING") ELSE show
           /\ UNCHANGED <<timer, requested>>
  <2>1. /\ reading'.at = "acquire" /\ reading'.valid = reading.valid /\ Busy'
        /\ reading' \in [at : {"none", "daa", "acquire", "confirm"}, valid : BOOLEAN]
    BY <1>1, <1>5 DEF PageType, Busy
  <2>2. show' \in Progress /\ (show'.phase = "READY" => show'.target # None)
    BY <1>1, <1>5, Phased DEF PageType, Phases
  <2>3. PageType'
    BY <1>1, <1>5, <2>1, <2>2 DEF PageType
  <2>4. ReadIsTrue' /\ QuietIsTrue'
    BY <1>1, <1>5, <2>1 DEF ReadIsTrue, QuietIsTrue, Height
  <2> QED BY <1>2, <2>3, <2>4 DEF IInv
<1>6. (Height(tip) < Boundary) \/ (Height(tip) >= Boundary)
  BY <1>3
<1>7. CASE Height(tip) < Boundary
  BY <1>4, <1>7 DEF ReadDaa
<1>8. CASE Height(tip) >= Boundary
  <2>1. ~(Height(tip) < Boundary)
    BY <1>3, <1>8
  <2> QED BY <1>5, <1>8, <2>1 DEF ReadDaa
<1> QED BY <1>6, <1>7, <1>8

LEMMA Acquired == ASSUME IInv, ReadAcquires PROVE IInv'
<1>1. /\ DrawType /\ PageType /\ tip \in Blocks /\ UNCHANGED <<chainVars, job, tip, notices, seen>> /\ seen
      /\ reading.at = "acquire" /\ reading.valid /\ Busy /\ ~timer
  BY DEF IInv, DrawType, PageType, ReadAcquires, chainVars
<1>2. CASE Proof = None /\ UNCHANGED confVars /\ Ends(Phase("TARGET_WAIT"), FALSE)
  <2>1. DrawType' /\ Beliefs' /\ CheckIsOnly'
    BY <1>1, <1>2, DrawRests
  <2>2. PICK p : p = Phase("TARGET_WAIT")
    OBVIOUS
  <2>3. p \in Progress /\ p.phase = "TARGET_WAIT"
    BY <2>2, Phased DEF Phases
  <2>4. ~(~requested /\ notices = <<>>)
    <3>1. Height(tip) < Boundary
      <4>1. Target(tip) = None
        BY <1>2 DEF Proof
      <4> QED BY <1>1, <4>1, TargetIs, Heights, DrawAssumption DEF Targets
    <3>2. ~requested /\ notices = <<>> => Height(tip) >= Boundary
      BY <1>1 DEF IInv, ReadIsTrue, Undisturbed
    <3>3. Height(tip) \in Nat /\ Boundary \in Nat
      BY <1>1, Heights, DrawAssumption
    <3> QED BY <3>1, <3>2, <3>3
  <2> QED BY <1>1, <1>2, <2>1, <2>2, <2>3, <2>4, EndsWell DEF IInv
<1>3. CASE /\ Proof # None /\ proofed' = Proof /\ CheckBegins("page", Proof)
           /\ reading' = [reading EXCEPT !.at = "confirm"]
           /\ UNCHANGED <<show, timer, requested>>
  <2>1. PICK t \in Targets : t = Proof
    BY <1>1, <1>3, ProofIsTarget
  <2>2. "page" \in Readers
    BY DEF Readers
  <2>3. /\ check' \in [Readers -> CheckRecord] /\ latest' \in [Blocks -> Readers \cup {None}]
        /\ conf' \in [Blocks -> ConfRecord] /\ Beliefs' /\ CheckIsOnly'
        /\ check'["page"].at \in {"confirmed", "target"} /\ \A q \in Readers \ {"page"} : check'[q] = check[q]
    BY <1>1, <1>3, <2>1, <2>2, CheckBegun
  <2>4. DrawType'
    <3>1. check'["engine"] = check["engine"]
      BY <2>3 DEF Readers
    <3> QED BY <1>1, <1>3, <2>1, <2>3, <3>1 DEF DrawType
  <2>5. /\ reading'.at = "confirm" /\ reading'.valid = reading.valid /\ Busy'
        /\ reading' \in [at : {"none", "daa", "acquire", "confirm"}, valid : BOOLEAN]
    BY <1>1, <1>3 DEF PageType, Busy
  <2>6. PageType'
    BY <1>1, <1>3, <2>3, <2>5 DEF PageType
  <2>7. ReadIsTrue' /\ QuietIsTrue'
    BY <2>3, <2>5 DEF ReadIsTrue, QuietIsTrue, Found
  <2> QED BY <2>3, <2>4, <2>6, <2>7 DEF IInv
<1> QED BY <1>2, <1>3 DEF ReadAcquires

(* The page's check is over.                                               *)
LEMMA CheckLeft ==
    ASSUME IInv, UNCHANGED <<tip, notices, conf, job>>, check' = [check EXCEPT !["page"] = NoCheck],
           latest' \in [Blocks -> Readers \cup {None}], proofed' \in {proofed, None}
    PROVE  DrawType' /\ Beliefs' /\ CheckIsOnly'
<1>1. DrawType /\ Beliefs /\ "page" \in Readers
  BY DEF IInv, Readers
<1>2. check' \in [Readers -> CheckRecord] /\ check'["page"] = NoCheck /\ \A q \in Readers : CheckHolds(check[q])'
  BY <1>1, CheckWrites, RecordsTyped
<1>3. conf' \in [Blocks -> ConfRecord] /\ \A u \in Blocks : ConfHolds(u, conf[u])'
  BY <1>1, ConfRests
<1>4. DrawType'
  <2>1. check'["engine"] = check["engine"]
    BY <1>1 DEF DrawType, Readers
  <2> QED BY <1>1, <1>2, <1>3, <2>1 DEF DrawType
<1>5. CheckIsOnly'
  BY <1>2, RecordsTyped DEF CheckIsOnly, Found, Steps
<1> QED BY <1>2, <1>3, <1>4, <1>5 DEF Beliefs

LEMMA Learned == ASSUME IInv, ReadLearns PROVE IInv'
<1> DEFINE how == IF check["page"].at = "confirmed" /\ ~Fresh("page", check["page"].target)
                  THEN "stale" ELSE check["page"].at
<1>1. /\ DrawType /\ Beliefs /\ PageType /\ tip \in Blocks /\ seen /\ how \notin Steps
      /\ UNCHANGED <<chainVars, latest, conf, job, tip, notices, seen>>
      /\ check' = [check EXCEPT !["page"] = NoCheck]
      /\ reading.at = "confirm" /\ reading.valid /\ Busy
  BY DEF IInv, DrawType, PageType, ReadLearns, chainVars
<1>2. PICK c : c = check["page"]
  OBVIOUS
<1>3. c \in CheckRecord /\ CheckHolds(c)
  BY <1>1, <1>2 DEF DrawType, Beliefs, Readers
<1>4. DrawType' /\ Beliefs' /\ CheckIsOnly'
  <2>1. proofed' \in {proofed, None}
    BY DEF ReadLearns, ForgetsFailed
  <2>2. latest' \in [Blocks -> Readers \cup {None}]
    BY <1>1 DEF DrawType
  <2> QED BY <1>1, <2>1, <2>2, CheckLeft
<1>5. MinConf \in 0 .. MinConf /\ MinConf \in Nat
  BY DrawAssumption
<1>6. CASE how = "confirmed" /\ Ends([phase |-> "READY", target |-> c.target, count |-> MinConf], FALSE)
  <2>1. PICK p : p = [phase |-> "READY", target |-> c.target, count |-> MinConf]
    OBVIOUS
  <2>2. c.target # None /\ PageHolds(c.target)
    BY <1>2, <1>6 DEF Fresh, PageHolds
  <2>3. c.target \in Targets
    BY <1>3, <2>2 DEF CheckRecord
  <2>4. p \in Progress /\ p.phase = "READY" /\ p.target # None
    BY <1>5, <2>1, <2>2, <2>3 DEF Progress, Phases
  <2>5. notices = <<>> => Expected = "READY"
    <3>1. PICK t \in Targets : t = c.target
      BY <2>3
    <3>2. PageHolds(t)'
      BY <1>1, <2>2, <3>1 DEF PageHolds
    <3>3. notices = <<>> => Expected' = "READY"
      BY <1>1, <1>4, <3>2, HeldIsReady
    <3> QED BY <1>1, <3>3 DEF Expected, Deep, Target, Height
  <2> QED BY <1>1, <1>4, <1>6, <2>1, <2>4, <2>5, EndsWell DEF IInv
<1>7. CASE how = "unconfirmed"
           /\ Ends([phase |-> "TARGET_WAIT", target |-> c.target, count |-> CountOf(c.target, c.count)], FALSE)
  <2>1. PICK p : p = [phase |-> "TARGET_WAIT", target |-> c.target, count |-> CountOf(c.target, c.count)]
    OBVIOUS
  <2>2. c.at = "unconfirmed" /\ c.target \in Targets
    <3>1. c.at = "unconfirmed"
      BY <1>2, <1>7
    <3> QED BY <1>3, <3>1 DEF CheckHolds, CheckRecord
  <2>3. CountOf(c.target, c.count) \in 0 .. MinConf
    BY <1>1, <1>3 DEF CountOf, CheckRecord, PageType, Progress
  <2>4. p \in Progress /\ p.phase = "TARGET_WAIT"
    BY <2>1, <2>2, <2>3 DEF Progress, Phases
  <2>5. ~requested /\ notices = <<>> => Expected = "TARGET_WAIT"
    <3>1. SUFFICES ASSUME ~requested, notices = <<>> PROVE Expected = "TARGET_WAIT"
      OBVIOUS
    <3>2. c.target \in Path[tip] /\ Height(tip) < Boundary + MinConf
      BY <1>1, <1>2, <2>2, <3>1 DEF IInv, ReadIsTrue, Undisturbed
    <3>3. Height(tip) >= Boundary /\ Target(tip) = c.target /\ Height(c.target) = Boundary
      BY <1>1, <2>2, <3>2, TargetIs DEF Targets
    <3>4. Height(tip) \in Nat /\ Boundary \in Nat /\ MinConf \in Nat
      BY <1>1, Heights, DrawAssumption
    <3>5. ~Deep(c.target, tip)
      BY <3>2, <3>3, <3>4 DEF Deep
    <3> QED BY <3>3, <3>4, <3>5 DEF Expected
  <2> QED BY <1>1, <1>4, <1>7, <2>1, <2>4, <2>5, EndsWell DEF IInv
<1>8. CASE \E q \in {"TARGET_CHECKING", "UNAVAILABLE"} :
              Ends(Phase(q), q = "TARGET_CHECKING")
  <2>1. PICK q \in {"TARGET_CHECKING", "UNAVAILABLE"} : Ends(Phase(q), q = "TARGET_CHECKING")
    BY <1>8
  <2>2. PICK p : p = Phase(q)
    OBVIOUS
  <2>3. p \in Progress /\ p.phase = q
    BY <2>2, Phased DEF Phases
  <2>4. PICK again \in BOOLEAN : again = (q = "TARGET_CHECKING")
    OBVIOUS
  <2>5. Ends(p, again) /\ (~again => p.phase = "UNAVAILABLE") /\ p.phase # "READY"
    BY <2>1, <2>2, <2>3, <2>4
  <2> QED BY <1>1, <1>4, <2>3, <2>5, EndsWell DEF IInv
<1>9. CASE Ends(show, TRUE)
  <2>1. PICK p : p = show
    OBVIOUS
  <2>2. p \in Progress /\ (p.phase = "READY" => p.target # None) /\ Ends(p, TRUE)
    BY <1>1, <1>9, <2>1 DEF PageType
  <2> QED BY <1>1, <1>4, <2>2, EndsWell DEF IInv
<1>10. \/ how = "confirmed" /\ Ends([phase |-> "READY", target |-> c.target, count |-> MinConf], FALSE)
       \/ how = "unconfirmed"
            /\ Ends([phase |-> "TARGET_WAIT", target |-> c.target, count |-> CountOf(c.target, c.count)], FALSE)
       \/ Ends(Phase("TARGET_CHECKING"), TRUE) \/ Ends(Phase("UNAVAILABLE"), FALSE) \/ Ends(show, TRUE)
  BY <1>2 DEF ReadLearns
<1>11. Ends(Phase("TARGET_CHECKING"), TRUE) => Ends(Phase("TARGET_CHECKING"), "TARGET_CHECKING" = "TARGET_CHECKING")
  BY DEF Ends
<1>12. Ends(Phase("UNAVAILABLE"), FALSE) => Ends(Phase("UNAVAILABLE"), "UNAVAILABLE" = "TARGET_CHECKING")
  BY DEF Ends
<1> QED BY <1>6, <1>7, <1>8, <1>9, <1>10, <1>11, <1>12

LEMMA Cancelled == ASSUME IInv, ReadCancelled PROVE IInv'
<1>1. /\ DrawType /\ Beliefs /\ PageType /\ Busy /\ ~reading.valid
      /\ UNCHANGED <<tip, notices, proofed, conf, job, seen>>
      /\ check' = [check EXCEPT !["page"] = NoCheck]
      /\ latest' = [t \in Blocks |-> IF latest[t] = "page" THEN None ELSE latest[t]]
      /\ Ends(show, FALSE)
  BY DEF IInv, ReadCancelled, chainVars
<1>2. latest' \in [Blocks -> Readers \cup {None}]
  BY <1>1 DEF DrawType
<1>3. DrawType' /\ Beliefs' /\ CheckIsOnly'
  BY <1>1, <1>2, CheckLeft
<1>4. PICK p : p = show
  OBVIOUS
<1>5. /\ p \in Progress /\ (p.phase = "READY" => p.target # None) /\ (~seen => p.phase = "none")
      /\ Ends(p, FALSE) /\ (seen => requested)
  BY <1>1, <1>4 DEF PageType
<1> QED BY <1>1, <1>3, <1>5, EndsWell DEF IInv

---------------------------------------------------------------------------

LEMMA InitHolds == Init => IInv
<1> SUFFICES ASSUME Init PROVE IInv
  OBVIOUS
<1>1. /\ tip \in Blocks /\ notices = <<>> /\ proofed = None /\ check = [r \in Readers |-> NoCheck]
      /\ latest = [t \in Blocks |-> None] /\ conf = [t \in Blocks |-> NoConf] /\ job = Idle
      /\ seen = FALSE /\ show = Nothing /\ timer = FALSE /\ requested = FALSE /\ reading = NotReading
  BY DEF Init, DrawInit
<1>2. check["engine"] = NoCheck /\ check["page"] = NoCheck
  BY <1>1 DEF Readers
<1>3. DrawType
  <2>1. check \in [Readers -> CheckRecord] /\ conf \in [Blocks -> ConfRecord]
    BY <1>1, RecordsTyped
  <2>2. latest \in [Blocks -> Readers \cup {None}] /\ proofed \in Targets \cup {None}
        /\ notices \in Seq(SUBSET Blocks) /\ job \in Draw /\ job.at = "idle"
    BY <1>1 DEF Draw, Idle
  <2> QED BY <1>1, <1>2, <2>1, <2>2, RecordsTyped DEF DrawType
<1>4. Beliefs
  BY <1>1, RecordsTyped DEF Beliefs
<1>5. Nothing \in Progress /\ Nothing.phase = "none"
  BY DrawAssumption DEF Nothing, Progress, Phases
<1>6. PageType
  <2>1. NotReading.at = "none" /\ NotReading.valid = FALSE
        /\ NotReading \in [at : {"none", "daa", "acquire", "confirm"}, valid : BOOLEAN]
    BY DEF NotReading
  <2> QED BY <1>1, <1>5, <2>1 DEF PageType, Busy
<1>7. CheckIsOnly
  BY <1>2, RecordsTyped DEF CheckIsOnly, Found, Steps
<1>8. ReadIsTrue /\ QuietIsTrue
  BY <1>1 DEF ReadIsTrue, QuietIsTrue, NotReading
<1> QED BY <1>3, <1>4, <1>6, <1>7, <1>8 DEF IInv

LEMMA StepsHold == IInv /\ [Next]_vars => IInv'
<1> SUFFICES ASSUME IInv, [Next]_vars PROVE IInv'
  OBVIOUS
<1>1. CASE Move /\ UNCHANGED <<confVars, job, shownVars>>
  BY <1>1, Moves
<1>2. CASE \E r \in Readers : CheckStep(r) /\ UNCHANGED <<chainVars, upsets, job, shownVars>>
  <2>1. PICK r \in Readers : CheckStep(r) /\ UNCHANGED <<chainVars, upsets, job, shownVars>>
    BY <1>2
  <2> QED BY <2>1, CheckSteps DEF chainVars, CheckStep
<1>3. CASE \E r \in Readers : TimesOut(r) /\ UNCHANGED <<chainVars, job, shownVars>>
  <2>1. PICK r \in Readers : TimesOut(r) /\ UNCHANGED <<chainVars, job, shownVars>>
    BY <1>3
  <2> QED BY <2>1, CheckSteps DEF chainVars, TimesOut
<1>4. CASE Expires /\ UNCHANGED <<chainVars, job, shownVars>>
  BY <1>4, Expiry DEF chainVars
<1>5. CASE EngineStep /\ UNCHANGED <<chainVars, upsets, shownVars>>
  BY <1>5, EngineSteps DEF chainVars
<1>6. CASE UNCHANGED vars
  <2>1. UNCHANGED <<chainVars, confVars, job, tip, notices, check, seen, show, timer, requested, reading>>
    BY <1>6 DEF vars, drawVars, chainVars, confVars, shownVars
  <2>2. DrawType' /\ Beliefs' /\ CheckIsOnly'
    BY <2>1, DrawRests
  <2>3. PageType' /\ ReadIsTrue'
    BY <2>1 DEF IInv, PageType, ReadIsTrue, Undisturbed, Busy, Height
  <2>4. QuietIsTrue'
    BY <2>1, QuietRests DEF IInv
  <2> QED BY <2>2, <2>3, <2>4 DEF IInv
<1> QED BY <1>1, <1>2, <1>3, <1>4, <1>5, <1>6, Delivered, Gaps, SessionLost, SessionSeen, ReadBegun, DaaRead,
           Acquired, Learned, Cancelled, Pulsed DEF Next

(* For every tree of blocks, boundary and depth: the beliefs behind the    *)
(* checks and the confirmations, and what the page relies on.              *)
THEOREM DrawInvariant == Spec => []IInv
BY InitHolds, StepsHold, PTL DEF Spec

(* Every field keeps its type, a timer runs only for a page that has       *)
(* something to read and is not reading, and a request waits only for a    *)
(* read (draw-readiness.mjs).                                              *)
THEOREM DrawTypes == Spec => []TypeOK
<1>1. IInv => TypeOK
  <2> SUFFICES ASSUME IInv PROVE TypeOK
    OBVIOUS
  <2>1. DrawType /\ PageType
    BY DEF IInv
  <2>2. \A r \in Readers : check[r].at \in Steps \cup {"none", "confirmed", "unconfirmed", "invalid", "stale", "behind"}
    BY <2>1 DEF DrawType, CheckRecord, Outcomes
  <2>3. \A t \in Blocks : latest[t] \in Readers \cup {None} /\ conf[t].held \subseteq Readers
    BY <2>1 DEF DrawType, ConfRecord
  <2>4. tip \in Blocks /\ {proofed, show.target, job.target} \subseteq Blocks \cup {None}
    BY <2>1 DEF DrawType, PageType, Draw, Progress, Targets
  <2>5. show.count \in 0 .. MinConf
    BY <2>1 DEF PageType, Progress
  <2> QED BY <2>1, <2>2, <2>3, <2>4, <2>5 DEF TypeOK, PageType
<1> QED BY <1>1, DrawInvariant, PTL

(* A transaction that passes the fence before the transport draws on a     *)
(* target that is MinConf deep in the selected chain, or a notice that     *)
(* says otherwise is still on its way (draw-confirmations.mjs:42-77,       *)
(* engine.mjs:534-541).                                                    *)
THEOREM FencedStaysDeep == Spec => []FencedIsDeep
<1>1. IInv => FencedIsDeep
  <2> SUFFICES ASSUME IInv, MaySend, notices = <<>> PROVE Deep(job.target, tip)
    BY DEF FencedIsDeep
  <2>1. PICK t : t = job.target
    OBVIOUS
  <2>2. PICK a : a = conf[t]
    OBVIOUS
  <2>3. t \in Blocks /\ tip \in Blocks
    BY <2>1 DEF IInv, DrawType, MaySend, Targets
  <2>4. a \in ConfRecord /\ ConfHolds(t, a) /\ Current(a)
    BY <2>1, <2>2, <2>3 DEF IInv, DrawType, Beliefs, MaySend, Fresh
  <2>5. a.anchor \in BlockOrNone
    BY <2>4 DEF ConfRecord
  <2> QED BY <2>1, <2>3, <2>4, <2>5, CurrentIsDeep
<1> QED BY <1>1, DrawInvariant, PTL

(* When no read goes on or is due and all notices have come, the page      *)
(* shows the phase the chain is in, or that it could not be read           *)
(* (draw-readiness.mjs:42-60,159-164).                                     *)
THEOREM QuietStaysTrue == Spec => []QuietIsTrue
<1>1. IInv => QuietIsTrue
  BY DEF IInv
<1> QED BY <1>1, DrawInvariant, PTL
=============================================================================
