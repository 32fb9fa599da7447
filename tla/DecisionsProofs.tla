---------------------------- MODULE DecisionsProofs ----------------------------
(***************************************************************************)
(* Proofs about the parts that decide: what they answer is right for every *)
(* question they can be asked, and the machines among them keep their      *)
(* promises however they run.                                              *)
(***************************************************************************)
EXTENDS Decisions, FiniteSetTheorems, SequenceTheorems, WellFoundedInduction, TLAPS

\* A question is in hand only with an input of its own.
Asked ==
  /\ study \in {"none"} \cup Running \cup Questions
  /\ study \in Questions => input \in Inputs[study]

LEMMA AskedStarts == Init => Asked
BY InputsAssumption DEF Init, Asked

LEMMA AskedStep == Asked /\ [Next]_vars => Asked'
BY DEF Asked, Next, Ask, vars

-----------------------------------------------------------------------------
(* Folds over finite sets.                                                   *)

\* Of some numbers there is a least.
LEMMA Least ==
  ASSUME NEW S \in SUBSET Nat, S # {}
  PROVE  \E i \in S : \A j \in S : i <= j
<1> DEFINE R == OpToRel(<, Nat)
<1>1. \A x, y \in Nat : x < y => <<x, y>> \in R
  BY DEF OpToRel
<1>2. IsWellFoundedOn(R, Nat)
  BY NatLessThanWellFounded, Zenon
<1> HIDE DEF R
<1>3. PICK x \in S : \A y \in S : ~(<<y, x>> \in R)
  BY <1>2, WFMin
<1>4. ASSUME NEW y \in S PROVE x <= y
  <2>1. x \in Nat /\ y \in Nat /\ ~(y < x)
    BY <1>1, <1>3
  <2> QED BY <2>1
<1> QED BY <1>4

\* Of some subsets of a finite set there is one no other lies inside.
LEMMA Innermost ==
  ASSUME NEW S, IsFiniteSet(S), NEW B \in SUBSET SUBSET S, B # {}
  PROVE  \E T \in B : \A U \in B : U \subseteq T => U = T
<1> DEFINE N == {Cardinality(T) : T \in B}
<1>1. ASSUME NEW T \in B PROVE IsFiniteSet(T) /\ Cardinality(T) \in Nat
  BY FS_Subset, FS_CardinalityType
<1>2. N \in SUBSET Nat /\ N # {}
  BY <1>1
<1>3. PICK T \in B : \A U \in B : Cardinality(T) <= Cardinality(U)
  <2>1. PICK n \in N : \A m \in N : n <= m
    <3> HIDE DEF N
    <3> QED BY <1>2, Least
  <2> QED BY <2>1
<1>4. ASSUME NEW U \in B, U \subseteq T, U # T PROVE FALSE
  <2>1. Cardinality(U) < Cardinality(T)
    BY <1>1, <1>4, FS_Subset
  <2> QED BY <1>1, <1>3, <2>1
<1> QED BY <1>4

Pick(s) == CHOOSE x \in s : TRUE

\* What is put together from the members of a set one by one, for every set of them.
Folded(h, S, Y, base, op) ==
  /\ h \in [SUBSET S -> Y]
  /\ \A s \in SUBSET S : h[s] = IF s = {} THEN base ELSE op[<<Pick(s), h[s \ {Pick(s)}]>>]

\* Two ways of putting a set together from its members are one.
LEMMA FoldsAgree ==
  ASSUME NEW S, IsFiniteSet(S), NEW s \in SUBSET S, NEW Y, NEW base, NEW op,
         NEW g, Folded(g, s, Y, base, op), NEW h, Folded(h, S, Y, base, op)
  PROVE  g[s] = h[s]
<1> DEFINE B == {t \in SUBSET s : g[t] # h[t]}
<1> SUFFICES ASSUME B # {} PROVE FALSE
  OBVIOUS
<1>1. PICK t \in B : \A u \in B : u \subseteq t => u = t
  <2>1. B \in SUBSET SUBSET S
    OBVIOUS
  <2> HIDE DEF B
  <2> QED BY <2>1, Innermost
<1>2. t # {}
  BY <1>1 DEF Folded
<1>3. Pick(t) \in t
  BY <1>2 DEF Pick
<1>4. t \ {Pick(t)} \notin B
  BY <1>1, <1>3
<1>5. g[t \ {Pick(t)}] = h[t \ {Pick(t)}]
  BY <1>4
<1>6. g[t] = op[<<Pick(t), g[t \ {Pick(t)}]>>] /\ h[t] = op[<<Pick(t), h[t \ {Pick(t)}]>>]
  BY <1>2 DEF Folded
<1> QED BY <1>5, <1>6

\* Whatever is put together from the members of a finite set one by one is so.
LEMMA FoldIsThere ==
  ASSUME NEW S, IsFiniteSet(S), NEW Y, NEW base \in Y, NEW op \in [S \X Y -> Y]
  PROVE  \E h : Folded(h, S, Y, base, op)
<1> DEFINE Fold(h, T) == Folded(h, T, Y, base, op)
<1> USE DEF Folded
<1>1. ASSUME NEW s, s # {} PROVE Pick(s) \in s
  BY <1>1 DEF Pick
<1>3. ASSUME NEW T \in SUBSET S PROVE \E h : Fold(h, T)
  <2> DEFINE B == {t \in SUBSET S : ~\E h : Fold(h, t)}
  <2> SUFFICES ASSUME B # {} PROVE FALSE
    BY <1>3
  <2>1. PICK t \in B : \A u \in B : u \subseteq t => u = t
    <3>1. B \in SUBSET SUBSET S
      OBVIOUS
    <3> HIDE DEF B
    <3> QED BY <3>1, Innermost
  <2> DEFINE of(u) == CHOOSE h : Fold(h, u)
             val(u) == of(u)[u]
             new == [s \in SUBSET t |-> IF s = {} THEN base
                                        ELSE IF s = t THEN op[<<Pick(t), val(t \ {Pick(t)})>>] ELSE val(s)]
  <2>2. ASSUME NEW u, u \subseteq t, u # t PROVE Fold(of(u), u)
    <3>1. \E h : Fold(h, u)
      BY <2>1, <2>2
    <3> HIDE DEF Fold
    <3> QED BY <3>1
  <2>3. ASSUME NEW u, u \subseteq t, u # t PROVE val(u) \in Y
    <3>1. Fold(of(u), u)
      BY <2>2, <2>3
    <3> HIDE DEF of
    <3> QED BY <3>1
  <2>4. ASSUME NEW s \in SUBSET t, s # {}
        PROVE  new[s] = op[<<Pick(s), val(s \ {Pick(s)})>>]
    <3>1. CASE s = t
      BY <2>4, <3>1
    <3>2. CASE s # t
      <4> DEFINE r == s \ {Pick(s)}
      <4>1. Fold(of(s), s) /\ Fold(of(r), r)
        <5>1. s \subseteq t /\ r \subseteq t /\ r # t
          BY <1>1, <2>4
        <5> HIDE DEF of, Fold, r
        <5> QED BY <2>2, <3>2, <5>1
      <4>2. of(s)[r] = of(r)[r]
        <5> DEFINE g == of(r)
                   h == of(s)
        <5>1. r \in SUBSET s /\ IsFiniteSet(s)
          BY FS_Subset
        <5>2. Folded(g, r, Y, base, op) /\ Folded(h, s, Y, base, op)
          BY <4>1
        <5> HIDE DEF of, r, g, h, Folded
        <5>3. g[r] = h[r]
          BY <5>1, <5>2, FoldsAgree
        <5> QED BY <5>3 DEF g, h
      <4>3. of(s)[s] = op[<<Pick(s), of(s)[r]>>]
        <5> HIDE DEF of
        <5> QED BY <2>4, <4>1
      <4> QED BY <2>4, <3>2, <4>2, <4>3
    <3> QED BY <3>1, <3>2
  <2>5. \A s \in SUBSET t : s # {} => new[s \ {Pick(s)}] = val(s \ {Pick(s)})
    <3> SUFFICES ASSUME NEW s \in SUBSET t, s # {} PROVE new[s \ {Pick(s)}] = val(s \ {Pick(s)})
      OBVIOUS
    <3> DEFINE r == s \ {Pick(s)}
    <3>1. r \subseteq t /\ r # t
      BY <1>1
    <3>2. r = {} => val(r) = base
      <4>1. Fold(of(r), r)
        BY <2>2, <3>1
      <4> HIDE DEF of, r
      <4> QED BY <4>1
    <3> HIDE DEF val
    <3> QED BY <3>1, <3>2
  <2>6. new \in [SUBSET t -> Y]
    <3>1. ASSUME NEW s \in SUBSET t PROVE new[s] \in Y
      <4>1. CASE s = {}
        BY <4>1
      <4>2. CASE s # {}
        <5>1. Pick(s) \in S /\ val(s \ {Pick(s)}) \in Y
          <6>1. Pick(s) \in s
            BY <1>1, <4>2
          <6>2. s \ {Pick(s)} \subseteq t /\ s \ {Pick(s)} # t
            BY <6>1
          <6> HIDE DEF val
          <6> QED BY <2>3, <6>1, <6>2
        <5> HIDE DEF val, new
        <5> QED BY <2>4, <4>2, <5>1
      <4> QED BY <4>1, <4>2
    <3> HIDE DEF val
    <3> QED BY <3>1
  <2>7. Fold(new, t)
    <3> SUFFICES ASSUME NEW s \in SUBSET t
                 PROVE  new[s] = IF s = {} THEN base ELSE op[<<Pick(s), new[s \ {Pick(s)}]>>]
      BY <2>6
    <3>1. CASE s = {}
      BY <3>1
    <3>2. CASE s # {}
      <4> HIDE DEF val, new
      <4> QED BY <2>4, <2>5, <3>2
    <3> QED BY <3>1, <3>2
  <2> HIDE DEF new, Fold
  <2> QED BY <2>1, <2>7
<1>4. \E h : Fold(h, S)
  <2> HIDE DEF Fold
  <2> QED BY <1>3
<1> QED BY <1>4

-----------------------------------------------------------------------------
(* A Defender scan.                                                          *)

\* What was known beforehand is what was in the history when it was read, and a
\* scan that has warned of nothing has been let run.
ScanInv ==
  /\ detected \cap past = {}
  /\ \A k \in known.keys : \E d \in past : k = Key(d, known.named)
  /\ known.read => \A d \in past : Key(d, known.named) \in known.keys
  /\ scan = "asked" => history = past /\ caveat = "none" /\ completed
  /\ scan = "running" => caveat = "none" /\ completed
  /\ scan = "look-again" => known.read
  /\ scan \in {"look", "look-again"} /\ caveat = "none" => completed /\ exitCode \in {"zero", "other"}
  /\ CleanIsEarned /\ PastIsNotNew

LEMMA ScanStarts == ScanInit => ScanInv
BY DEF ScanInit, ScanInv, CleanIsEarned, PastIsNotNew

LEMMA ScanRests == ScanAtRest => ScanInv
BY DEF ScanAtRest, ScanInv, CleanIsEarned, PastIsNotNew

\* A look finds nothing of what was there before.
LEMMA LookIsNew ==
  ASSUME ScanInv, known.read, NEW named \in BOOLEAN, NEW d \in past
  PROVE  Key(d, known.named) \notin NewDetections(named)
BY DEF ScanInv, NewDetections

LEMMA ScanStep == ScanInv /\ DefenderScanNext => ScanInv'
<1> SUFFICES ASSUME ScanInv, DefenderScanNext PROVE ScanInv'
  OBVIOUS
<1>1. CASE RefuseScan \/ StopScan \/ ScannerEnds \/ WaitFails \/ KillScan
  BY <1>1 DEF ScanInv, CleanIsEarned, PastIsNotNew, RefuseScan, StopScan, ScannerEnds, WaitFails, KillScan
<1>2. CASE StartScan
  <2>1. PICK read, named \in BOOLEAN :
          known' = [read |-> read, named |-> named, keys |-> IF read THEN Threats(named) ELSE {}]
    BY <1>2 DEF StartScan
  <2>2. Threats(named) = {Key(d, named) : d \in past}
    BY <1>2 DEF StartScan, ScanInv, Threats
  <2> QED BY <1>2, <2>1, <2>2 DEF StartScan, ScanInv, CleanIsEarned, PastIsNotNew
<1>3. CASE \E d \in Detections : Detect(d) \/ Record(d)
  BY <1>3 DEF ScanInv, CleanIsEarned, PastIsNotNew, Detect, Record
<1>4. CASE CannotLook
  <2>1. scan' = "told" /\ found' = {} /\ caveat' # "none"
    BY <1>4 DEF CannotLook, Tell, Settle, GetOrInsert
  <2> QED BY <1>4, <2>1 DEF CannotLook, Tell, ScanInv, CleanIsEarned, PastIsNotNew
<1>5. CASE Look
  <2>1. PICK named \in BOOLEAN :
          IF NewDetections(named) # {}
          THEN Tell(NewDetections(named), caveat)
          ELSE /\ scan' = "look-again"
               /\ UNCHANGED <<kind, history, past, detected, known, stopAsked, exitCode,
                              completed, caveat, found>>
    BY <1>5 DEF Look
  <2>2. \A d \in past : Key(d, known.named) \notin NewDetections(named)
    BY <1>5, LookIsNew DEF Look
  <2> QED BY <1>5, <2>1, <2>2 DEF Look, Tell, ScanInv, CleanIsEarned, PastIsNotNew
<1>6. CASE LookAgain
  <2>1. PICK named \in BOOLEAN : Tell(NewDetections(named), caveat)
    BY <1>6 DEF LookAgain
  <2>2. \A d \in past : Key(d, known.named) \notin NewDetections(named)
    BY <1>6, LookIsNew DEF LookAgain, ScanInv
  <2>3. ASSUME NewDetections(named) = {} PROVE detected = {}
    <3> SUFFICES ASSUME NEW d \in detected PROVE FALSE
      OBVIOUS
    <3>1. Key(d, named) \in known.keys
      BY <1>6, <2>3 DEF LookAgain, NewDetections, Threats
    <3>2. PICK p \in past : Key(d, named) = Key(p, known.named)
      BY <1>6, <3>1 DEF LookAgain, ScanInv
    <3> QED BY <3>2 DEF Key, ScanInv
  <2>4. NewDetections(named) = {} /\ caveat' = "none" => caveat = "none" /\ exitCode # "other"
    BY <2>1 DEF Tell, Settle
  <2> QED BY <1>6, <2>1, <2>2, <2>3, <2>4 DEF LookAgain, Tell, ScanInv, CleanIsEarned, PastIsNotNew
<1> QED BY <1>1, <1>2, <1>3, <1>4, <1>5, <1>6 DEF DefenderScanNext

LEMMA ScanStays == ScanInv /\ UNCHANGED scanVars => ScanInv'
BY DEF ScanInv, scanVars, CleanIsEarned, PastIsNotNew

-----------------------------------------------------------------------------
(* The tray, signatures and hardening.                                       *)

LEMMA NewestOf ==
  ASSUME NEW status \in AnyStatus
  PROVE  \/ NewestScan(status) = NoAge /\ status.quick = NoAge /\ status.full = NoAge
         \/ NewestScan(status) \in Nat
<1> DEFINE ages == {status.quick, status.full} \ {NoAge}
<1>1. status.quick \in Nat \cup {NoAge} /\ status.full \in Nat \cup {NoAge}
  BY DEF AnyStatus
<1>2. CASE ages = {}
  BY <1>2 DEF NewestScan
<1>3. CASE ages # {}
  <2>1. \E a \in ages : \A b \in ages : a <= b
    BY <1>1, <1>3 DEF NoAge
  <2>2. NewestScan(status) \in ages
    BY <1>3, <2>1 DEF NewestScan
  <2> QED BY <1>1, <2>2
<1> QED BY <1>2, <1>3

LEMMA CalmTray ==
  ASSUME NEW status \in AnyStatus
  PROVE  TrayIsCalm(status)
<1> SUFFICES ASSUME DefenderConcerns(status) = {}, Unreported(status) = {}
             PROVE  /\ \A p \in Protections : status.flags[p] = "on"
                    /\ status.signatures \in 0 .. 6
                    /\ NewestScan(status) \in 0 .. 29
  BY DEF TrayIsCalm, ProtectionSummary
<1>1. \A p \in Protections : status.flags[p] \in {"on", "off", Unread}
  BY DEF AnyStatus
<1>2. \A p \in Protections : status.flags[p] # "off"
  BY DEF DefenderConcerns
<1>3. \A p \in Protections : status.flags[p] # Unread
  BY DEF Unreported
<1>4. ~(status.signatures >= 7) /\ status.signatures # NoAge
  BY DEF DefenderConcerns, Unreported
<1>5. NewestScan(status) # NoAge /\ ~(NewestScan(status) >= 30)
  BY DEF DefenderConcerns
<1>6. status.signatures \in Nat \cup {NoAge}
  BY DEF AnyStatus
<1> QED BY <1>1, <1>2, <1>3, <1>4, <1>5, <1>6, NewestOf

LEMMA SignaturesAsked ==
  ASSUME NEW embedded \in EmbeddedCodes, NEW sha256 \in Lookups, NEW sha1 \in Lookups
  PROVE  UnsignedWasLookedUp(embedded, sha256, sha1)
BY DEF UnsignedWasLookedUp, SettleSignature, VerifyCatalogue, EmbeddedCodes, Lookups

LEMMA HardPanel ==
  ASSUME NEW hardening \in Hardening
  PROVE  QuietIsHard(hardening)
<1> SUFFICES ASSUME HardeningConcerns(hardening) = {}, hardening.policyRead
             PROVE  QuietIsHard(hardening)
  BY DEF QuietIsHard
<1>1. /\ RuleProtects(InForce(hardening.rule, TRUE))
      /\ FolderProtects(InForce(hardening.folder, TRUE))
      /\ ~UnexpectedlyOff(hardening)
      /\ {"pua", "lsa", "memory"} \subseteq SwitchesOn(hardening)
      /\ "blocklist" \in SwitchesOn(hardening)
  BY DEF HardeningConcerns
<1>2. InForce(hardening.pua, TRUE) = 1 /\ hardening.blocklist = 1
  BY <1>1 DEF SwitchesOn
<1> QED BY <1>1, <1>2 DEF QuietIsHard, InForce, RuleProtects, FolderProtects

-----------------------------------------------------------------------------
(* The weekly check.                                                         *)

\* The findings are listed, all of them, and the serious ones first.
LEMMA ListedSeriousFirst ==
  ASSUME NEW S, IsFiniteSet(S)
  PROVE  LET list == SeriousFirst(S)
         IN /\ list \in Seq(S)
            /\ S # {} => list # <<>>
            /\ \A i, j \in DOMAIN list : list[i].serious /\ ~list[j].serious => i < j
<1> DEFINE put(x, l) == IF x.serious THEN <<x>> \o l ELSE Append(l, x)
           op == [p \in S \X Seq(S) |-> put(p[1], p[2])]
           eq(g) == g = [s \in SUBSET S |->
                           IF s = {} THEN <<>> ELSE put(CHOOSE x \in s : TRUE, g[s \ {CHOOSE x \in s : TRUE}])]
           list(s) == (CHOOSE g : eq(g))[s]
           good(s) == /\ list(s) \in Seq(S)
                      /\ s # {} => list(s) # <<>>
                      /\ \A i, j \in DOMAIN list(s) : list(s)[i].serious /\ ~list(s)[j].serious => i < j
<1>1. op \in [S \X Seq(S) -> Seq(S)]
  OBVIOUS
<1>2. \E g : eq(g)
  <2>1. PICK h : Folded(h, S, Seq(S), <<>>, op)
    <3>1. <<>> \in Seq(S)
      OBVIOUS
    <3> HIDE DEF op
    <3> QED BY <1>1, <3>1, FoldIsThere
  <2> USE DEF Folded
  <2>2. ASSUME NEW s \in SUBSET S
        PROVE  h[s] = IF s = {} THEN <<>> ELSE put(Pick(s), h[s \ {Pick(s)}])
    <3>1. CASE s = {}
      BY <2>1, <3>1
    <3>2. CASE s # {}
      <4>1. Pick(s) \in S /\ h[s \ {Pick(s)}] \in Seq(S)
        BY <2>1, <3>2 DEF Pick
      <4>2. op[<<Pick(s), h[s \ {Pick(s)}]>>] = put(Pick(s), h[s \ {Pick(s)}])
        <5> DEFINE x == Pick(s)
                   l == h[s \ {Pick(s)}]
        <5> HIDE DEF x, l
        <5>1. op[<<x, l>>] = put(x, l)
          BY <4>1 DEF x, l
        <5> QED BY <5>1 DEF x, l
      <4> QED BY <2>1, <3>2, <4>2
    <3> QED BY <3>1, <3>2
  <2>3. h = [s \in SUBSET S |-> IF s = {} THEN <<>> ELSE put(Pick(s), h[s \ {Pick(s)}])]
    <3> HIDE DEF put
    <3> QED BY <2>1, <2>2
  <2> HIDE DEF put
  <2> QED BY <2>3 DEF Pick
<1>3. eq(CHOOSE g : eq(g))
  <2> HIDE DEF eq
  <2> QED BY <1>2
<1>4. ASSUME NEW s \in SUBSET S
      PROVE  list(s) = IF s = {} THEN <<>> ELSE put(Pick(s), list(s \ {Pick(s)}))
  <2> DEFINE g == CHOOSE g : eq(g)
  <2>1. eq(g)
    BY <1>3
  <2> HIDE DEF g
  <2>2. g[s] = IF s = {} THEN <<>> ELSE put(Pick(s), g[s \ {Pick(s)}])
    <3> HIDE DEF put
    <3> QED BY <2>1 DEF Pick
  <2> QED BY <2>2 DEF g
<1>5. SeriousFirst(S) = list(S)
  BY DEF SeriousFirst, FoldSet, MapThenFoldSet
<1> HIDE DEF list
<1>6. \A s \in SUBSET S : good(s)
  <2> DEFINE B == {s \in SUBSET S : ~good(s)}
  <2> SUFFICES ASSUME B # {} PROVE FALSE
    OBVIOUS
  <2>1. PICK s \in B : \A u \in B : u \subseteq s => u = s
    <3>1. B \in SUBSET SUBSET S
      OBVIOUS
    <3> HIDE DEF B
    <3> QED BY <3>1, Innermost
  <2>2. s # {}
    <3>1. list({}) = <<>>
      BY <1>4
    <3>2. good({})
      <4>1. list({}) \in Seq(S)
        <5>1. <<>> \in Seq(S)
          OBVIOUS
        <5> QED BY <3>1, <5>1
      <4>2. DOMAIN list({}) = {}
        BY <3>1
      <4>3. \A i, j \in DOMAIN list({}) : list({})[i].serious /\ ~list({})[j].serious => i < j
        BY <4>2
      <4> QED BY <4>1, <4>3
    <3> HIDE DEF good
    <3> QED BY <2>1, <3>2
  <2> DEFINE x == Pick(s)
             l == list(s \ {x})
  <2>3. x \in s
    BY <2>2 DEF Pick
  <2>4. good(s \ {x})
    <3>1. s \ {x} \in SUBSET S /\ s \ {x} \subseteq s /\ s \ {x} # s
      BY <2>3
    <3> HIDE DEF good, x
    <3> QED BY <2>1, <3>1
  <2>5. list(s) = put(x, l)
    BY <1>4, <2>2
  <2> HIDE DEF x
  <2>6. l \in Seq(S) /\ x \in S /\ \A i, j \in DOMAIN l : l[i].serious /\ ~l[j].serious => i < j
    BY <2>3, <2>4
  <2> HIDE DEF l
  <2>7. CASE x.serious
    <3> DEFINE n == <<x>> \o l
    <3>1. n \in Seq(S) /\ n # <<>> /\ Len(n) = Len(l) + 1 /\ n[1] = x
          /\ \A i \in 2 .. Len(n) : n[i] = l[i - 1] /\ i - 1 \in DOMAIN l
      BY <2>6
    <3> HIDE DEF n
    <3>2. \A i, j \in DOMAIN n : n[i].serious /\ ~n[j].serious => i < j
      <4> SUFFICES ASSUME NEW i \in DOMAIN n, NEW j \in DOMAIN n, n[i].serious, ~n[j].serious PROVE i < j
        OBVIOUS
      <4>1. j \in 2 .. Len(n) /\ i \in 1 .. Len(n)
        BY <2>7, <3>1
      <4>2. CASE i = 1
        BY <4>1, <4>2
      <4>3. CASE i # 1
        <5>1. i - 1 < j - 1
          BY <2>6, <3>1, <4>1, <4>3
        <5> QED BY <4>1, <5>1
      <4> QED BY <4>2, <4>3
    <3>3. list(s) = n
      BY <2>5, <2>7 DEF n
    <3> QED BY <2>1, <3>1, <3>2, <3>3
  <2>8. CASE ~x.serious
    <3> DEFINE n == Append(l, x)
    <3>1. n \in Seq(S) /\ n # <<>> /\ Len(n) = Len(l) + 1 /\ n[Len(n)] = x
          /\ \A i \in 1 .. Len(l) : n[i] = l[i] /\ i \in DOMAIN l
      BY <2>6
    <3> HIDE DEF n
    <3>2. \A i, j \in DOMAIN n : n[i].serious /\ ~n[j].serious => i < j
      <4> SUFFICES ASSUME NEW i \in DOMAIN n, NEW j \in DOMAIN n, n[i].serious, ~n[j].serious PROVE i < j
        OBVIOUS
      <4>1. j \in 1 .. Len(n) /\ i \in 1 .. Len(l)
        BY <2>6, <2>8, <3>1
      <4>2. CASE j = Len(n)
        BY <2>6, <3>1, <4>1, <4>2
      <4>3. CASE j # Len(n)
        BY <2>6, <3>1, <4>1, <4>3
      <4> QED BY <4>2, <4>3
    <3>3. list(s) = n
      BY <2>5, <2>8 DEF n
    <3> QED BY <2>1, <3>1, <3>2, <3>3
  <2> QED BY <2>7, <2>8
<1> QED BY <1>5, <1>6

LEMMA FewAreFinite ==
  ASSUME NEW a, NEW b, NEW c
  PROVE  IsFiniteSet({a, b, c})
<1>1. IsFiniteSet({a}) /\ IsFiniteSet({b}) /\ IsFiniteSet({c})
  BY FS_Singleton
<1>2. IsFiniteSet({a} \cup {b})
  BY <1>1, FS_Union
<1>3. IsFiniteSet(({a} \cup {b}) \cup {c})
  BY <1>1, <1>2, FS_Union
<1>4. ({a} \cup {b}) \cup {c} = {a, b, c}
  OBVIOUS
<1> QED BY <1>3, <1>4

\* What comes of finitely many things is finite.
LEMMA ImageIsFinite ==
  ASSUME NEW S, IsFiniteSet(S), NEW f
  PROVE  IsFiniteSet({f[x] : x \in S})
<1> DEFINE T == {f[x] : x \in S}
           g == [x \in S |-> f[x]]
<1>1. g \in Surjection(S, T)
  BY DEF Surjection
<1> QED BY <1>1, FS_Surjection

LEMMA FindingsAreFinite ==
  ASSUME NEW w \in Week
  PROVE  IsFiniteSet(Findings(w))
<1>1. IsFiniteSet(DefenderConcerns(w.defender.status))
  <2>1. IsFiniteSet(Protections)
    <3>1. Protections = {"antivirus", "realtime", "behaviour"} \cup {"cloud", "downloads", "tamper"}
      BY DEF Protections
    <3> QED BY <3>1, FewAreFinite, FS_Union
  <2>2. IsFiniteSet({"definitions-are-old", "never-scanned", "scanned-long-ago"})
    BY FewAreFinite
  <2>3. DefenderConcerns(w.defender.status)
          \subseteq Protections \cup {"definitions-are-old", "never-scanned", "scanned-long-ago"}
    BY DEF DefenderConcerns
  <2> QED BY <2>1, <2>2, <2>3, FS_Union, FS_Subset
<1>2. IsFiniteSet(CheckDefender(w.defender))
  <2> DEFINE said == DefenderConcerns(w.defender.status)
             of == [c \in said |-> Serious("Defender", c)]
             all == {of[c] : c \in said}
  <2>1. IsFiniteSet(all)
    <3> HIDE DEF of, said
    <3> QED BY <1>1, ImageIsFinite DEF said
  <2>2. CheckDefender(w.defender)
          \subseteq all \cup {Note("Defender", Unread), Serious("Defender", "definitions-are-stale")}
    BY DEF CheckDefender
  <2>3. IsFiniteSet({Note("Defender", Unread), Serious("Defender", "definitions-are-stale")})
    <3>1. \A a, b : IsFiniteSet({a, b, b})
      BY FewAreFinite
    <3> QED BY <3>1
  <2> HIDE DEF all
  <2> QED BY <2>1, <2>2, <2>3, FS_Union, FS_Subset
<1>3. IsFiniteSet(CheckFirewall(w.firewall))
  <2> DEFINE said == {"off", "off", "lets-everything-in"}
             gaps == {"enabled", "inbound", "outbound"}
                       \cup {"active", "rules-not-listed", "list-not-read-to-the-end"}
             of == [c \in said |-> Serious("firewall", c)]
             but == [u \in gaps |-> Note("firewall", u)]
             some == {of[c] : c \in said}
             more == {but[u] : u \in gaps}
  <2>1. IsFiniteSet(said)
    BY FewAreFinite
  <2>2. IsFiniteSet(gaps)
    BY FewAreFinite, FS_Union
  <2>3. IsFiniteSet(some) /\ IsFiniteSet(more)
    <3> HIDE DEF said, gaps, of, but
    <3> QED BY <2>1, <2>2, ImageIsFinite
  <2>4. CheckFirewall(w.firewall) \subseteq some \cup more \cup {Note("firewall", Unread)}
    BY DEF CheckFirewall, FirewallSurvey, ProfileConcerns, ReadProfiles, ReadRules
  <2>5. IsFiniteSet({Note("firewall", Unread)})
    BY FS_Singleton
  <2> HIDE DEF some, more
  <2> QED BY <2>3, <2>4, <2>5, FS_Union, FS_Subset
<1>4. IsFiniteSet(CheckStartup(w.startup))
  <2>1. CheckStartup(w.startup)
          \subseteq {Note("startup", "not-signed"), Note("startup", "this-program-is-not-signed"),
                     Note("startup", Unread)}
    BY DEF CheckStartup
  <2>2. IsFiniteSet({Note("startup", "not-signed"), Note("startup", "this-program-is-not-signed"),
                     Note("startup", Unread)})
    BY FewAreFinite
  <2> QED BY <2>1, <2>2, FS_Subset
<1>5. IsFiniteSet(CheckSpace(w.space))
  <2> DEFINE of == [v \in w.space.volumes |-> Note("drives", v.root)]
             all == {of[v] : v \in w.space.volumes}
  <2>1. IsFiniteSet(all)
    <3>1. IsFiniteSet(w.space.volumes)
      BY DEF Week
    <3> HIDE DEF of
    <3> QED BY <3>1, ImageIsFinite
  <2>2. CheckSpace(w.space) \subseteq all \cup {Note("drives", Unread)}
    BY DEF CheckSpace
  <2>3. IsFiniteSet({Note("drives", Unread)})
    BY FS_Singleton
  <2> HIDE DEF all
  <2> QED BY <2>1, <2>2, <2>3, FS_Union, FS_Subset
<1> QED BY <1>2, <1>3, <1>4, <1>5, FS_Union DEF Findings

LEMMA QuietWeek ==
  ASSUME NEW w \in Week
  PROVE  QuietWeekIsEarned(w)
<1> DEFINE list == RunCheck(w)
           said == RunAndRecord(w)
<1>1. /\ list \in Seq(Findings(w))
      /\ Findings(w) # {} => list # <<>>
      /\ \A i, j \in DOMAIN list : list[i].serious /\ ~list[j].serious => i < j
  BY FindingsAreFinite, ListedSeriousFirst, Zenon DEF RunCheck
<1>2. said.log = [i \in DOMAIN list |-> IF list[i].serious THEN "Refused" ELSE "Observed"]
      /\ said.weekly = IF list = <<>> THEN "nothing-to-report" ELSE "worth-a-look"
  BY DEF RunAndRecord
<1> HIDE DEF list, said
<1>3. \A i, j \in DOMAIN said.log : said.log[i] = "Refused" /\ said.log[j] = "Observed" => i < j
  BY <1>1, <1>2
<1>4. ASSUME said.weekly = "nothing-to-report"
      PROVE  /\ w.defender.read /\ w.firewall.read /\ w.space.read
             /\ \A p \in Protections : w.defender.status.flags[p] # "off"
             /\ w.firewall.profile.enabled = "on" /\ w.firewall.profile.inbound = "block"
             /\ w.firewall.rules.bad = 0 /\ ~w.firewall.rules.stopped
             /\ w.startup.missed = {}
             /\ \A p \in w.startup.programs :
                  SettleSignature(p.embedded, p.sha256, p.sha1) # "unsigned"
  <2>1. /\ CheckDefender(w.defender) = {} /\ CheckFirewall(w.firewall) = {}
        /\ CheckStartup(w.startup) = {} /\ CheckSpace(w.space) = {}
    <3>1. Findings(w) = {}
      BY <1>1, <1>2, <1>4
    <3> QED BY <3>1 DEF Findings
  <2>2. w.defender.read /\ \A p \in Protections : w.defender.status.flags[p] # "off"
    BY <2>1 DEF CheckDefender, DefenderConcerns
  <2>3. w.firewall.read /\ FirewallSurvey(w.firewall).concerns = {} /\ FirewallSurvey(w.firewall).unread = {}
    <3>1. w.firewall.read
      BY <2>1 DEF CheckFirewall
    <3> QED BY <2>1, <3>1 DEF CheckFirewall
  <2>4. /\ w.firewall.profile.enabled \in {"on", "off", Unread}
        /\ w.firewall.profile.inbound \in {"block", "allow", Unread}
        /\ w.firewall.rules.bad \in Nat
    BY DEF Week
  <2>5. /\ w.firewall.profile.enabled # "off"
        /\ ~(w.firewall.profile.enabled = "on" /\ w.firewall.profile.inbound = "allow")
    BY <2>3 DEF FirewallSurvey, ProfileConcerns
  <2>6. w.firewall.profile.enabled # Unread /\ w.firewall.profile.inbound # Unread
    BY <2>3 DEF FirewallSurvey, ReadProfiles
  <2>7. ~(w.firewall.rules.bad > 0) /\ ~w.firewall.rules.stopped
    BY <2>3 DEF FirewallSurvey, ReadRules
  <2>8. w.startup.missed = {}
        /\ \A p \in w.startup.programs : SettleSignature(p.embedded, p.sha256, p.sha1) # "unsigned"
    BY <2>1 DEF CheckStartup
  <2>9. w.space.read
    BY <2>1 DEF CheckSpace
  <2> QED BY <2>2, <2>3, <2>4, <2>5, <2>6, <2>7, <2>8, <2>9
<1> QED BY <1>3, <1>4 DEF QuietWeekIsEarned, said

-----------------------------------------------------------------------------
(* The actions of a task.                                                    *)

LEMMA TaskActionsApart ==
  ASSUME NEW actions \in Seq({"exec", "com"})
  PROVE  ActionsApart(actions)
<1> DEFINE run(a) == {i \in 1 .. Len(a) : a[i] = "exec"}
           named(a) == TaskEntries(a)
<1>1. ASSUME NEW a \in Seq({"exec", "com"}), run(a) # {}
      PROVE  Min(run(a)) \in run(a) /\ \A i \in run(a) : Min(run(a)) <= i
  <2>1. run(a) \in SUBSET Nat
    OBVIOUS
  <2> HIDE DEF run
  <2>2. \E i \in run(a) : \A j \in run(a) : i <= j
    BY <1>1, <2>1, Least
  <2> QED BY <2>2 DEF Min
<1>2. ASSUME NEW a \in Seq({"exec", "com"})
      PROVE  /\ Bare(a) = IF run(a) # {} THEN Min(run(a)) ELSE 1
             /\ named(a) = [i \in 1 .. Len(a) |-> IF i = Bare(a) THEN <<>> ELSE <<i>>]
  <2>1. run(a) # {} => Min(run(a)) > 0
    BY <1>1
  <2>2. Bare(a) = IF run(a) # {} THEN Min(run(a)) ELSE 1
    BY <2>1 DEF Bare, SelectInSeq
  <2> QED BY <2>2 DEF TaskEntries
<1>3. IsInjective(named(actions))
  <2>1. <<>> # <<1>> /\ \A i, j \in Nat : <<i>> # <<>> /\ (<<i>> = <<j>> => i = j)
    OBVIOUS
  <2>2. named(actions) = [i \in 1 .. Len(actions) |-> IF i = Bare(actions) THEN <<>> ELSE <<i>>]
    BY <1>2
  <2> HIDE DEF named
  <2> QED BY <2>1, <2>2 DEF IsInjective
<1>4. ASSUME run(actions) # {}, NEW more \in {"exec", "com"}
      PROVE  IsPrefix(named(actions), named(Append(actions, more)))
  <2> DEFINE after == Append(actions, more)
  <2>1. /\ after \in Seq({"exec", "com"}) /\ Len(after) = Len(actions) + 1
        /\ \A i \in 1 .. Len(actions) : after[i] = actions[i]
    OBVIOUS
  <2>2. Bare(after) = Bare(actions)
    <3> DEFINE k == Min(run(actions))
               m == Min(run(after))
    <3>1. k \in run(actions) /\ \A i \in run(actions) : k <= i
      BY <1>1, <1>4
    <3>2. k \in run(after)
      BY <2>1, <3>1
    <3>3. m \in run(after) /\ m <= k
      BY <1>1, <2>1, <3>2
    <3>4. Bare(after) = m /\ Bare(actions) = k
      BY <1>2, <1>4, <2>1, <3>2
    <3> HIDE DEF k, m
    <3>5. m \in run(actions)
      BY <2>1, <3>1, <3>3
    <3> QED BY <3>1, <3>3, <3>4, <3>5
  <2> HIDE DEF after, run
  <2>3. /\ DOMAIN named(actions) = 1 .. Len(actions) /\ DOMAIN named(after) = 1 .. Len(actions) + 1
        /\ \A i \in 1 .. Len(actions) : named(after)[i] = named(actions)[i]
    BY <1>2, <2>1, <2>2
  <2>4. named(actions) \in Seq(Seq(Nat)) /\ named(after) \in Seq(Seq(Nat))
    <3>1. <<>> \in Seq(Nat) /\ \A i \in Nat : <<i>> \in Seq(Nat)
      OBVIOUS
    <3>2. /\ named(actions) = [i \in 1 .. Len(actions) |-> IF i = Bare(actions) THEN <<>> ELSE <<i>>]
          /\ named(after) = [i \in 1 .. Len(after) |-> IF i = Bare(after) THEN <<>> ELSE <<i>>]
      BY <1>2, <2>1
    <3> HIDE DEF named
    <3> QED BY <2>1, <3>1, <3>2
  <2> HIDE DEF named
  <2> QED BY <2>1, <2>3, <2>4 DEF IsPrefix, after
<1>5. ASSUME SelectInSeq(actions, LAMBDA a : a = "exec") > 0 PROVE run(actions) # {}
  BY <1>5 DEF SelectInSeq
<1> QED BY <1>3, <1>4, <1>5 DEF ActionsApart

-----------------------------------------------------------------------------
(* What a command runs.                                                      *)

\* Past the switches of conhost there is a first place that is none of them.
LEMMA InnerIsThere ==
  ASSUME NEW W, NEW words \in Seq(W)
  PROVE  \E from :
           /\ Inner(words) = from[1]
           /\ \A i \in 1 .. Len(words) + 2 :
                /\ from[i] \in Nat /\ from[i] >= i
                /\ from[i] = IF i > Len(words) THEN i
                             ELSE IF words[i] = <<"--headless">> THEN from[i + 1]
                             ELSE IF words[i] = <<"--width">> THEN from[i + 2] ELSE i
<1> DEFINE L == Len(words)
           step(f, i) == IF i > L THEN i
                         ELSE IF words[i] = <<"--headless">> THEN f[i + 1]
                         ELSE IF words[i] = <<"--width">> THEN f[i + 2] ELSE i
           good(k, f) == /\ f \in [k .. L + 2 -> Nat]
                         /\ \A i \in k .. L + 2 : f[i] = step(f, i) /\ f[i] >= i
           K == {k \in 1 .. L + 1 : \E f : good(k, f)}
<1>0. L \in Nat
  OBVIOUS
<1>1. L + 1 \in K
  <2>1. good(L + 1, [i \in L + 1 .. L + 2 |-> i])
    BY <1>0
  <2> HIDE DEF good
  <2> QED BY <1>0, <2>1
<1>2. PICK k \in K : \A j \in K : k <= j
  <2>1. K \in SUBSET Nat
    OBVIOUS
  <2> HIDE DEF K
  <2> QED BY <1>1, <2>1, Least
<1>3. k = 1
  <2> SUFFICES ASSUME k > 1 PROVE FALSE
    BY <1>2
  <2>1. PICK f : good(k, f)
    <3> HIDE DEF good
    <3> QED BY <1>2
  <2> DEFINE g == [i \in k - 1 .. L + 2 |-> IF i = k - 1 THEN step(f, i) ELSE f[i]]
  <2>2. k \in 2 .. L + 1
    BY <1>2
  <2>3. step(f, k - 1) \in Nat /\ step(f, k - 1) >= k - 1
    <3>1. /\ f[k] \in Nat /\ f[k] >= k - 1 /\ f[k + 1] \in Nat /\ f[k + 1] >= k - 1
          /\ k - 1 \in Nat /\ k = (k - 1) + 1 /\ k + 1 = (k - 1) + 2
      <4>1. k \in k .. L + 2 /\ k + 1 \in k .. L + 2
        BY <1>0, <2>2
      <4>2. f[k] \in Nat /\ f[k] >= k /\ f[k + 1] \in Nat /\ f[k + 1] >= k + 1
        <5> HIDE DEF step
        <5> QED BY <2>1, <4>1
      <4> QED BY <2>2, <4>2
    <3> QED BY <3>1
  <2>4. \A i \in k - 1 .. L + 2 : step(g, i) = step(f, i)
    BY <1>0, <2>2
  <2>5. good(k - 1, g)
    <3> HIDE DEF step
    <3> QED BY <1>0, <2>1, <2>2, <2>3, <2>4
  <2>6. k - 1 \in K
    <3> HIDE DEF good, g
    <3> QED BY <2>2, <2>5
  <2> HIDE DEF K
  <2> QED BY <1>2, <2>2, <2>6
<1>4. PICK f : good(1, f)
  <2> HIDE DEF good
  <2> QED BY <1>2, <1>3
<1>5. f = [i \in 1 .. L + 2 |-> step(f, i)]
  <2> HIDE DEF step
  <2> QED BY <1>4
<1> DEFINE of == CHOOSE h : h = [i \in 1 .. L + 2 |-> step(h, i)]
<1>6. of = [i \in 1 .. L + 2 |-> step(of, i)]
  <2> HIDE DEF step
  <2> QED BY <1>5
<1>7. Inner(words) = of[1]
  BY DEF Inner
<1> HIDE DEF of
<1>8. \A i \in 1 .. L + 2 : of[i] = step(of, i)
  <2> HIDE DEF step
  <2> QED BY <1>6
<1>9. \A i \in 1 .. L + 2 : of[i] = f[i]
  <2> DEFINE D == {n \in 0 .. L + 1 : of[L + 2 - n] # f[L + 2 - n]}
  <2>1. D = {}
    <3> SUFFICES ASSUME D # {} PROVE FALSE
      OBVIOUS
    <3>1. PICK n \in D : \A m \in D : n <= m
      <4>1. D \in SUBSET Nat
        OBVIOUS
      <4> HIDE DEF D
      <4> QED BY <4>1, Least
    <3> DEFINE i == L + 2 - n
    <3>2. i \in 1 .. L + 2 /\ of[i] # f[i]
      BY <1>0
    <3>3. \A j \in i + 1 .. L + 2 : of[j] = f[j]
      <4> SUFFICES ASSUME NEW j \in i + 1 .. L + 2, of[j] # f[j] PROVE FALSE
        OBVIOUS
      <4>1. L + 2 - j \in D /\ L + 2 - j < n
        BY <1>0
      <4> QED BY <3>1, <4>1
    <3> HIDE DEF i
    <3>4. step(of, i) = step(f, i)
      BY <1>0, <3>2, <3>3
    <3> HIDE DEF step
    <3> QED BY <1>4, <1>8, <3>2, <3>4
  <2>2. ASSUME NEW i \in 1 .. L + 2 PROVE of[i] = f[i]
    <3>1. L + 2 - i \in 0 .. L + 1 /\ L + 2 - (L + 2 - i) = i
      BY <1>0
    <3>2. L + 2 - i \notin D
      BY <2>1
    <3> HIDE DEF L
    <3> QED BY <3>1, <3>2
  <2> QED BY <2>2
<1> HIDE DEF L
<1>10. \A i \in 1 .. L + 2 : of[i] \in Nat /\ of[i] >= i
  BY <1>4, <1>9
<1> QED BY <1>7, <1>8, <1>10 DEF L

\* Two commands that are the same but for their quotes.
SameWords(c, d) ==
  c \in Seq(Token) /\ d \in Seq(Token) /\ Len(c) = Len(d) /\ \A i \in 1 .. Len(c) : c[i].words = d[i].words

LEMMA PayloadByWords ==
  ASSUME NEW c, NEW d, SameWords(c, d), NEW host
  PROVE  PayloadOf(host, c) = PayloadOf(host, d)
<1>1. {i \in 1 .. Len(c) : c[i].words = <<"/c">>} = {i \in 1 .. Len(d) : d[i].words = <<"/c">>}
  BY DEF SameWords
<1>2. {i \in 1 .. Len(c) : Last(c[i].words) = "x.bat"} = {i \in 1 .. Len(d) : Last(d[i].words) = "x.bat"}
  BY DEF SameWords
<1>3. {i \in 1 .. Len(c) : ~IsSwitch(c[i])} = {i \in 1 .. Len(d) : ~IsSwitch(d[i])}
  BY DEF SameWords, IsSwitch
<1> DEFINE first(S) == IF S # {} THEN Min(S) ELSE 0
           named(r) == CASE host = <<"cmd">> ->
                              LET flag == first({i \in 1 .. Len(r) : r[i].words = <<"/c">>})
                              IN IF flag > 0 /\ flag < Len(r) THEN flag + 1
                                 ELSE first({i \in 1 .. Len(r) : Last(r[i].words) = "x.bat"})
                         [] host = <<"wscript">> -> first({i \in 1 .. Len(r) : ~IsSwitch(r[i])})
                         [] OTHER -> 0
<1>4. \A r : PayloadOf(host, r) =
               IF named(r) > 0 /\ r[named(r)].words \in Disk THEN r[named(r)].words ELSE <<>>
  BY DEF PayloadOf, SelectInSeq
<1>5. named(c) = named(d)
  <2> HIDE DEF first
  <2> QED BY <1>1, <1>2, <1>3 DEF SameWords
<1>6. named(c) > 0 => named(c) \in 1 .. Len(c)
  <2>1. ASSUME NEW S \in SUBSET (1 .. Len(c)) PROVE first(S) \in 0 .. Len(c)
    <3>1. CASE S = {}
      BY <3>1 DEF SameWords
    <3>2. CASE S # {}
      <4>1. \E i \in S : \A j \in S : i <= j
        BY <3>2, Least
      <4>2. Min(S) \in S
        BY <4>1 DEF Min
      <4>3. Len(c) \in Nat
        BY DEF SameWords
      <4>4. Min(S) \in 1 .. Len(c)
        BY <4>2
      <4>5. first(S) = Min(S)
        BY <3>2
      <4> HIDE DEF first
      <4> QED BY <4>3, <4>4, <4>5
    <3> QED BY <3>1, <3>2
  <2> HIDE DEF first
  <2>2. /\ first({i \in 1 .. Len(c) : c[i].words = <<"/c">>}) \in 0 .. Len(c)
        /\ first({i \in 1 .. Len(c) : Last(c[i].words) = "x.bat"}) \in 0 .. Len(c)
        /\ first({i \in 1 .. Len(c) : ~IsSwitch(c[i])}) \in 0 .. Len(c)
    BY <2>1
  <2> QED BY <2>2 DEF SameWords
<1> HIDE DEF named
<1> QED BY <1>4, <1>5, <1>6 DEF SameWords

LEMMA RequotedIsToken ==
  ASSUME NEW t \in Token
  PROVE  Requoted(t) \in Token /\ Requoted(t).words = t.words
<1>1. t.words \in Path /\ t.words # <<>>
  BY DEF Token
<1>2. Len(t.words) \in Nat /\ Len(t.words) > 0
  BY <1>1 DEF Path
<1>3. CASE Len(t.words) > 1
  <2>1. Requoted(t) = [quoted |-> TRUE, words |-> t.words]
    BY <1>3 DEF Requoted
  <2> QED BY <1>1, <2>1 DEF Token
<1>4. CASE ~(Len(t.words) > 1)
  <2>1. Requoted(t) = [quoted |-> FALSE, words |-> t.words]
    <3>1. (Len(t.words) > 1) = FALSE
      BY <1>4
    <3> QED BY <3>1 DEF Requoted
  <2>2. Len(t.words) = 1
    <3> DEFINE n == Len(t.words)
    <3>1. n \in Nat /\ n > 0 /\ ~(n > 1)
      BY <1>2, <1>4
    <3> HIDE DEF n
    <3>2. n = 1
      BY <3>1
    <3> QED BY <3>2 DEF n
  <2> QED BY <1>1, <2>1, <2>2 DEF Token
<1> QED BY <1>3, <1>4

LEMMA InnerByWords ==
  ASSUME NEW c, NEW d, SameWords(c, d)
  PROVE  InnerCommand(c) = InnerCommand(d)
<1> DEFINE words(r) == [i \in DOMAIN r |-> r[i].words]
<1>1. words(c) = words(d) /\ words(c) \in Seq(Path) /\ Len(words(c)) = Len(c)
  BY DEF SameWords, Token
<1>2. Inner(words(c)) \in Nat /\ Inner(words(c)) >= 1
  BY <1>1, InnerIsThere
<1> DEFINE n == Inner(words(c))
<1>3. /\ InnerCommand(c) = [i \in 1 .. Len(c) + 1 - n |-> Requoted(c[i + n - 1])]
      /\ InnerCommand(d) = [i \in 1 .. Len(d) + 1 - n |-> Requoted(d[i + n - 1])]
  BY <1>1 DEF InnerCommand
<1> HIDE DEF n, words
<1>4. \A i \in 1 .. Len(c) + 1 - n : i + n - 1 \in 1 .. Len(c)
  BY <1>2 DEF n, SameWords
<1>5. \A i \in 1 .. Len(c) : Requoted(c[i]) = Requoted(d[i])
  BY DEF Requoted, SameWords
<1> QED BY <1>3, <1>4, <1>5 DEF SameWords

\* What a console host was handed is some of its own command.
LEMMA InnerIsPart ==
  ASSUME NEW c \in Seq(Token)
  PROVE  /\ InnerCommand(c) \in Seq(Token)
         /\ \A i \in 1 .. Len(InnerCommand(c)) : \E j \in 1 .. Len(c) : InnerCommand(c)[i].words = c[j].words
<1> DEFINE words == [i \in DOMAIN c |-> c[i].words]
           n == Inner(words)
<1>1. words \in Seq(Path) /\ Len(words) = Len(c)
  BY DEF Token
<1>2. n \in Nat /\ n >= 1
  BY <1>1, InnerIsThere
<1>3. InnerCommand(c) = [i \in 1 .. Len(c) + 1 - n |-> Requoted(c[i + n - 1])]
  BY DEF InnerCommand
<1> HIDE DEF n
<1>4. \A i \in 1 .. Len(c) + 1 - n : i + n - 1 \in 1 .. Len(c)
  BY <1>2
<1>5. \A i \in 1 .. Len(c) : Requoted(c[i]) \in Token /\ Requoted(c[i]).words = c[i].words
  BY RequotedIsToken
<1>6. Len(c) + 1 - n \in Nat \/ Len(c) + 1 - n < 1
  BY <1>2
<1>7. InnerCommand(c) \in Seq(Token)
  <2>1. CASE Len(c) + 1 - n \in Nat
    BY <1>3, <1>4, <1>5, <2>1
  <2>2. CASE Len(c) + 1 - n < 1
    <3>1. InnerCommand(c) = <<>>
      BY <1>2, <1>3, <2>2
    <3> QED BY <3>1
  <2> QED BY <1>6, <2>1, <2>2
<1>8. ASSUME NEW i \in 1 .. Len(InnerCommand(c))
      PROVE  \E j \in 1 .. Len(c) : InnerCommand(c)[i].words = c[j].words
  <2>1. i \in DOMAIN InnerCommand(c)
    BY <1>7
  <2>2. i \in 1 .. Len(c) + 1 - n /\ InnerCommand(c)[i] = Requoted(c[i + n - 1])
    BY <1>3, <2>1
  <2> QED BY <1>4, <1>5, <2>2
<1> QED BY <1>7, <1>8

\* The words a program's name may be taken from, and how many of them make it.
Taken(c, n) == IF c[1].quoted THEN c[1].words ELSE [i \in 1 .. n |-> Head(c[i].words)]

Fits(c) ==
  {n \in DOMAIN c : /\ \A i \in 1 .. n : ~c[i].quoted
                    /\ \A i \in 2 .. n : ~IsSwitch(c[i])
                    /\ Taken(c, n) \in Disk}

SplitAt(c, n) ==
  /\ n \in DOMAIN c /\ Taken(c, n) \in Disk
  /\ IF c[1].quoted THEN n = 1 ELSE n \in Fits(c) /\ \A k \in Fits(c) : n <= k
  /\ SplitExecutable(c) = [exe |-> Taken(c, n), rest |-> SubSeq(c, n + 1, Len(c))]

LEMMA SplitIsSo ==
  ASSUME NEW T, NEW c \in Seq(T), c # <<>>, IF c[1].quoted THEN Taken(c, 1) \in Disk ELSE Fits(c) # {}
  PROVE  \E n \in 1 .. Len(c) : SplitAt(c, n)
<1>1. CASE c[1].quoted
  <2>1. SplitAt(c, 1)
    BY <1>1 DEF SplitAt, SplitExecutable, Taken
  <2> QED BY <2>1
<1>2. CASE ~c[1].quoted
  <2> DEFINE n == CHOOSE n \in Fits(c) : \A k \in Fits(c) : n <= k
  <2>1. n \in Fits(c) /\ \A k \in Fits(c) : n <= k
    <3>1. Fits(c) \in SUBSET Nat
      BY DEF Fits
    <3>2. \E i \in Fits(c) : \A j \in Fits(c) : i <= j
      BY <1>2, <3>1, Least
    <3> QED BY <3>2
  <2>2. SplitExecutable(c) = [exe |-> Taken(c, n), rest |-> SubSeq(c, n + 1, Len(c))]
    BY <1>2 DEF SplitExecutable, Fits, Taken
  <2> HIDE DEF n
  <2>3. SplitAt(c, n) /\ n \in 1 .. Len(c)
    BY <1>2, <2>1, <2>2 DEF SplitAt, Fits
  <2> QED BY <2>3
<1> QED BY <1>1, <1>2

LEMMA SplitIsThere ==
  ASSUME NEW c \in Seq(Token), SplitExecutable(c) # NoFile
  PROVE  \E n \in 1 .. Len(c) : SplitAt(c, n)
<1>1. c # <<>>
  BY DEF SplitExecutable
<1>2. IF c[1].quoted THEN Taken(c, 1) \in Disk ELSE Fits(c) # {}
  BY <1>1 DEF SplitExecutable, Taken, Fits
<1> QED BY <1>1, <1>2, SplitIsSo

\* The program's first word is the command's, and conhost is a whole token of it.
LEMMA SplitFirst ==
  ASSUME NEW c \in Seq(Token), NEW n \in 1 .. Len(c), SplitAt(c, n)
  PROVE  /\ Taken(c, n) # <<>> /\ Head(Taken(c, n)) = Head(c[1].words)
         /\ Taken(c, n) = <<"conhost">> => c[1].words = <<"conhost">>
         /\ SubSeq(c, n + 1, Len(c)) \in Seq(Token)
<1>1. Len(c) \in Nat /\ 1 \in 1 .. Len(c) /\ c[1] \in Token
  OBVIOUS
<1>2. c[1].words \in Path /\ c[1].words # <<>> /\ (~c[1].quoted => Len(c[1].words) = 1)
  BY <1>1 DEF Token
<1>3. SubSeq(c, n + 1, Len(c)) \in Seq(Token)
  BY <1>1
<1>4. CASE c[1].quoted
  BY <1>2, <1>3, <1>4 DEF Taken
<1>5. CASE ~c[1].quoted
  <2> DEFINE word(i) == Head(c[i].words)
             some == [i \in 1 .. n |-> word(i)]
  <2>1. Taken(c, n) = some
    BY <1>5 DEF Taken
  <2>2. c[1].words = <<word(1)>>
    BY <1>2, <1>5 DEF Path
  <2> HIDE DEF word
  <2>3. some # <<>> /\ Head(some) = word(1)
    <3>1. n \in Nat /\ n >= 1 /\ DOMAIN some = 1 .. n
      OBVIOUS
    <3>2. some[1] = word(1)
      BY <3>1
    <3> QED BY <3>1, <3>2
  <2>4. some = <<"conhost">> => word(1) = "conhost"
    BY <2>3
  <2> HIDE DEF some
  <2> QED BY <1>3, <2>1, <2>2, <2>3, <2>4 DEF word
<1> QED BY <1>4, <1>5

\* Only a quote that holds several words tells one command from another.
LEMMA SplitRequoted ==
  ASSUME NEW c \in Seq(Token), SplitExecutable(c) # NoFile
  PROVE  LET d == [i \in 1 .. Len(c) |-> Requoted(c[i])]
         IN /\ SplitExecutable(d) # NoFile
            /\ SplitExecutable(d).exe = SplitExecutable(c).exe
            /\ SameWords(SplitExecutable(c).rest, SplitExecutable(d).rest)
<1> DEFINE d == [i \in 1 .. Len(c) |-> Requoted(c[i])]
<1>1. PICK n \in 1 .. Len(c) : SplitAt(c, n)
  BY SplitIsThere
<1>2. /\ d \in Seq(Token) /\ Len(d) = Len(c) /\ Len(c) \in Nat
      /\ \A i \in 1 .. Len(c) : d[i].words = c[i].words /\ d[i].quoted = (Len(c[i].words) > 1)
  <2>1. \A i \in 1 .. Len(c) : Requoted(c[i]) \in Token /\ Requoted(c[i]).words = c[i].words
    BY RequotedIsToken
  <2>2. \A i \in 1 .. Len(c) : Requoted(c[i]).quoted = (Len(c[i].words) > 1)
    BY DEF Requoted
  <2> QED BY <2>1, <2>2
<1> HIDE DEF d
<1>3. ASSUME NEW i \in 1 .. Len(c), ~c[i].quoted PROVE ~d[i].quoted
  <2>1. c[i] \in Token
    OBVIOUS
  <2>2. Len(c[i].words) = 1
    BY <1>3, <2>1 DEF Token
  <2>3. d[i].quoted = (1 > 1)
    BY <1>2, <2>2
  <2>4. (1 > 1) = FALSE
    OBVIOUS
  <2>5. d[i].quoted = FALSE
    BY <2>3, <2>4
  <2> QED BY <2>5
<1>4. 1 \in 1 .. Len(c) /\ c # <<>> /\ d # <<>>
  BY <1>2
<1>5. \E m \in 1 .. Len(d) : m = n /\ SplitAt(d, m) /\ Taken(d, m) = Taken(c, n)
  <2>1. CASE c[1].quoted /\ d[1].quoted
    <3>1. Taken(d, 1) = Taken(c, 1) /\ n = 1 /\ Taken(c, 1) \in Disk
      BY <1>1, <1>2, <1>4, <2>1 DEF SplitAt, Taken
    <3>2. \E m \in 1 .. Len(d) : SplitAt(d, m)
      BY <1>2, <1>4, <2>1, <3>1, SplitIsSo
    <3> QED BY <1>2, <2>1, <3>1, <3>2 DEF SplitAt
  <2>2. CASE c[1].quoted /\ ~d[1].quoted
    <3>1. n = 1 /\ Taken(c, 1) = c[1].words /\ Taken(c, 1) \in Disk
      BY <1>1, <1>4, <2>2 DEF SplitAt, Taken
    <3>2. Taken(d, 1) = c[1].words
      <4>1. c[1].words \in Path /\ c[1].words # <<>> /\ ~(Len(c[1].words) > 1)
        BY <1>2, <1>4, <2>2 DEF Token
      <4>2. c[1].words = <<Head(c[1].words)>>
        BY <4>1 DEF Path
      <4>3. Taken(d, 1) = [i \in 1 .. 1 |-> Head(d[i].words)]
        BY <2>2 DEF Taken
      <4>4. Taken(d, 1) = <<Head(d[1].words)>>
        BY <4>3
      <4> QED BY <1>2, <1>4, <4>2, <4>4
    <3>3. 1 \in Fits(d)
      BY <1>2, <1>4, <2>2, <3>1, <3>2 DEF Fits
    <3>4. PICK m \in 1 .. Len(d) : SplitAt(d, m)
      BY <1>4, <1>2, <2>2, <3>3, SplitIsSo
    <3>5. m = 1
      BY <2>2, <3>3, <3>4 DEF SplitAt
    <3> QED BY <3>1, <3>2, <3>4, <3>5
  <2>3. CASE ~c[1].quoted
    <3>1. ~d[1].quoted
      BY <1>3, <1>4, <2>3
    <3>2. \A k \in 1 .. Len(c) : Taken(d, k) = Taken(c, k)
      BY <1>2, <2>3, <3>1 DEF Taken
    <3>3. n \in Fits(c) /\ \A k \in Fits(c) : n <= k
      BY <1>1, <2>3 DEF SplitAt
    <3>4. \A i \in 1 .. Len(c) : IsSwitch(c[i]) <=> IsSwitch(d[i])
      BY <1>2 DEF IsSwitch
    <3>5. n \in Fits(d)
      BY <1>2, <1>3, <3>2, <3>3, <3>4 DEF Fits
    <3>6. \A k \in Fits(d) : k <= n => k \in Fits(c)
      BY <1>2, <3>2, <3>3, <3>4 DEF Fits
    <3>7. PICK m \in 1 .. Len(d) : SplitAt(d, m)
      BY <1>4, <1>2, <3>1, <3>5, SplitIsSo
    <3>8. m \in Fits(d) /\ m <= n
      BY <3>1, <3>5, <3>7 DEF SplitAt
    <3>9. n <= m
      BY <3>3, <3>6, <3>8
    <3>10. m = n
      BY <3>8, <3>9
    <3> QED BY <3>2, <3>7, <3>10
  <2> QED BY <2>1, <2>2, <2>3
<1>6. SplitAt(d, n) /\ Taken(d, n) = Taken(c, n)
  BY <1>5
<1>7. /\ SplitExecutable(c) = [exe |-> Taken(c, n), rest |-> SubSeq(c, n + 1, Len(c))]
      /\ SplitExecutable(d) = [exe |-> Taken(c, n), rest |-> SubSeq(d, n + 1, Len(c))]
  BY <1>1, <1>2, <1>6 DEF SplitAt
<1>8. SameWords(SubSeq(c, n + 1, Len(c)), SubSeq(d, n + 1, Len(c)))
  <2> DEFINE some == SubSeq(c, n + 1, Len(c))
             same == SubSeq(d, n + 1, Len(c))
  <2>1. /\ some \in Seq(Token) /\ same \in Seq(Token) /\ Len(some) = Len(c) - n /\ Len(same) = Len(c) - n
        /\ \A i \in 1 .. Len(c) - n : some[i] = c[i + n] /\ same[i] = d[i + n] /\ i + n \in 1 .. Len(c)
    BY <1>2
  <2> HIDE DEF some, same
  <2>2. SameWords(some, same)
    BY <1>2, <2>1 DEF SameWords
  <2> QED BY <2>2 DEF some, same
<1>9. Taken(c, n) # <<>>
  BY <1>1, SplitFirst
<1>10. /\ SplitExecutable(d) # NoFile
       /\ SplitExecutable(d).exe = SplitExecutable(c).exe
       /\ SameWords(SplitExecutable(c).rest, SplitExecutable(d).rest)
  BY <1>7, <1>8, <1>9 DEF NoFile
<1> QED BY <1>10 DEF d

\* What was handed to conhost is what followed its own switches, requoted.
LEMMA HandedIsRequoted ==
  ASSUME NEW c \in Seq(Token), c # <<>>, <<Head(c[1].words)>> \notin ConhostSwitches
  PROVE  LET wrapped == <<Word("conhost"), Word("--headless"), Word("--width"), Word("80")>> \o c
         IN /\ SplitExecutable(wrapped) # NoFile /\ SplitExecutable(wrapped).exe = <<"conhost">>
            /\ Handed(wrapped) = [i \in 1 .. Len(c) |-> Requoted(c[i])]
<1> DEFINE own == <<Word("conhost"), Word("--headless"), Word("--width"), Word("80")>>
           wrapped == own \o c
           rest == SubSeq(wrapped, 2, Len(wrapped))
           words == [i \in DOMAIN rest |-> rest[i].words]
<1> DEFINE some == Token \cup {Word("conhost"), Word("--headless"), Word("--width"), Word("80")}
<1>1. own \in Seq(some) /\ Len(own) = 4 /\ c \in Seq(some)
  <2>1. \A a, b, d, e \in some : <<a, b, d, e>> \in Seq(some) /\ Len(<<a, b, d, e>>) = 4
    OBVIOUS
  <2>2. Token \subseteq some
    OBVIOUS
  <2>3. c \in Seq(some)
    <3> HIDE DEF some
    <3> QED BY <2>2
  <2> QED BY <2>1, <2>3
<1> HIDE DEF some
<1>2. /\ own[1] = Word("conhost") /\ own[2] = Word("--headless")
      /\ own[3] = Word("--width") /\ own[4] = Word("80")
  BY Zenon
<1> HIDE DEF own
<1>3. /\ wrapped \in Seq(some) /\ Len(wrapped) = Len(c) + 4 /\ Len(c) \in Nat
      /\ \A i \in 1 .. 4 : wrapped[i] = own[i]
      /\ \A i \in 1 .. Len(c) : wrapped[i + 4] = c[i]
  <2>1. wrapped \in Seq(some) /\ Len(wrapped) = Len(own) + Len(c)
        /\ \A i \in 1 .. Len(own) + Len(c) : wrapped[i] = IF i <= Len(own) THEN own[i] ELSE c[i - Len(own)]
    BY <1>1, ConcatProperties, Zenon
  <2>2. Len(c) \in Nat
    OBVIOUS
  <2> HIDE DEF wrapped, rest
  <2>3. \A i \in 1 .. 4 : i \in 1 .. 4 + Len(c) /\ i <= 4
    BY <2>2
  <2>4. \A i \in 1 .. Len(c) : i + 4 \in 1 .. 4 + Len(c) /\ ~(i + 4 <= 4) /\ (i + 4) - 4 = i
    BY <2>2
  <2>5. Len(wrapped) = Len(c) + 4
    BY <1>1, <2>1, <2>2
  <2>6. \A i \in 1 .. 4 + Len(c) : wrapped[i] = IF i <= 4 THEN own[i] ELSE c[i - 4]
    BY <1>1, <2>1
  <2>7. \A i \in 1 .. 4 : wrapped[i] = own[i]
    BY <2>3, <2>6
  <2>8. \A i \in 1 .. Len(c) : wrapped[i + 4] = c[i]
    BY <2>4, <2>6
  <2> QED BY <2>1, <2>2, <2>5, <2>7, <2>8
<1> HIDE DEF wrapped
<1>4. /\ rest \in Seq(some) /\ Len(rest) = Len(c) + 3
      /\ \A i \in 1 .. Len(c) + 3 : rest[i] = wrapped[i + 1]
  BY <1>3
<1>5. SplitExecutable(wrapped) = [exe |-> <<"conhost">>, rest |-> rest]
  <2>1. 1 \in 1 .. Len(wrapped) /\ wrapped # <<>> /\ wrapped[1] = Word("conhost")
    BY <1>2, <1>3
  <2>2. ~wrapped[1].quoted /\ wrapped[1].words = <<"conhost">>
    BY <2>1 DEF Word
  <2>3. Taken(wrapped, 1) = <<"conhost">>
    <3>1. Taken(wrapped, 1) = [i \in 1 .. 1 |-> Head(wrapped[i].words)]
      BY <2>2 DEF Taken
    <3>2. Taken(wrapped, 1) = <<Head(wrapped[1].words)>>
      BY <3>1
    <3> QED BY <2>2, <3>2
  <2>4. 1 \in Fits(wrapped)
    BY <2>1, <2>2, <2>3, DiskAssumption DEF Fits
  <2>5. PICK n \in 1 .. Len(wrapped) : SplitAt(wrapped, n)
    BY <1>3, <2>1, <2>2, <2>4, SplitIsSo
  <2>6. n = 1
    BY <2>2, <2>4, <2>5 DEF SplitAt
  <2>7. SplitExecutable(wrapped) = [exe |-> Taken(wrapped, 1), rest |-> SubSeq(wrapped, 2, Len(wrapped))]
    BY <2>5, <2>6 DEF SplitAt
  <2> QED BY <2>3, <2>7
<1> HIDE DEF rest
<1>6. /\ words \in Seq({t.words : t \in some}) /\ Len(words) = Len(c) + 3
      /\ \A i \in 1 .. Len(c) + 3 : words[i] = rest[i].words
  BY <1>4
<1>7. /\ words[1] = <<"--headless">> /\ words[2] = <<"--width">>
      /\ Len(c) >= 1 /\ words[4] = c[1].words
  <2>1. Len(c) >= 1 /\ 1 \in 1 .. Len(c) + 3 /\ 2 \in 1 .. Len(c) + 3 /\ 4 \in 1 .. Len(c) + 3 /\ 1 \in 1 .. Len(c)
    BY <1>3
  <2>2. rest[1] = own[2] /\ rest[2] = own[3] /\ rest[4] = c[1]
    BY <1>3, <1>4, <2>1
  <2> QED BY <1>2, <1>6, <2>1, <2>2 DEF Word
<1> HIDE DEF words
<1>8. words[4] # <<"--headless">> /\ words[4] # <<"--width">>
  BY <1>7 DEF ConhostSwitches
<1>9. Inner(words) = 4
  <2>1. PICK from :
           /\ Inner(words) = from[1]
           /\ \A i \in 1 .. Len(words) + 2 :
                /\ from[i] \in Nat /\ from[i] >= i
                /\ from[i] = IF i > Len(words) THEN i
                             ELSE IF words[i] = <<"--headless">> THEN from[i + 1]
                             ELSE IF words[i] = <<"--width">> THEN from[i + 2] ELSE i
    BY <1>6, InnerIsThere
  <2>2. 1 \in 1 .. Len(words) + 2 /\ 2 \in 1 .. Len(words) + 2 /\ 4 \in 1 .. Len(words) + 2
        /\ ~(1 > Len(words)) /\ ~(2 > Len(words)) /\ ~(4 > Len(words))
    BY <1>3, <1>6, <1>7
  <2>3. from[4] = 4
    BY <1>8, <2>1, <2>2
  <2>4. <<"--width">> # <<"--headless">>
    OBVIOUS
  <2>5. from[2] = from[4]
    BY <1>7, <2>1, <2>2, <2>4
  <2>6. from[1] = from[2]
    BY <1>7, <2>1, <2>2
  <2> QED BY <2>1, <2>3, <2>5, <2>6
<1>10. InnerCommand(rest) = [i \in 1 .. Len(c) |-> Requoted(c[i])]
  <2>1. InnerCommand(rest) = [i \in 1 .. Len(rest) + 1 - 4 |-> Requoted(rest[i + 4 - 1])]
    BY <1>9 DEF InnerCommand, words
  <2>2. Len(rest) + 1 - 4 = Len(c)
    BY <1>3, <1>4
  <2>3. \A i \in 1 .. Len(c) : rest[i + 4 - 1] = c[i]
    <3> SUFFICES ASSUME NEW i \in 1 .. Len(c) PROVE rest[i + 4 - 1] = c[i]
      OBVIOUS
    <3> DEFINE j == i + 4 - 1
    <3>1. j \in 1 .. Len(c) + 3 /\ j + 1 = i + 4
      BY <1>3
    <3> HIDE DEF j
    <3>2. rest[j] = wrapped[j + 1]
      BY <1>4, <3>1
    <3> QED BY <1>3, <3>1, <3>2 DEF j
  <2> QED BY <2>1, <2>2, <2>3
<1>11. /\ SplitExecutable(wrapped) # NoFile /\ SplitExecutable(wrapped).exe = <<"conhost">>
       /\ Handed(wrapped) = [i \in 1 .. Len(c) |-> Requoted(c[i])]
  <2>1. SplitExecutable(wrapped).exe = <<"conhost">> /\ SplitExecutable(wrapped).rest = rest
    BY <1>5
  <2>2. NoFile.exe = <<>> /\ <<"conhost">> # <<>>
    BY DEF NoFile
  <2> QED BY <1>10, <2>1, <2>2 DEF Handed
<1> QED BY <1>11 DEF wrapped, own

\* Two tokens cannot be conhost where at most one is.
LEMMA OneConhost ==
  ASSUME NEW c \in Seq(Token),
         Cardinality({i \in DOMAIN c : c[i].words = <<"conhost">>}) <= 1,
         NEW i \in 1 .. Len(c), NEW j \in 1 .. Len(c),
         c[i].words = <<"conhost">>, c[j].words = <<"conhost">>
  PROVE  i = j
<1> DEFINE S == {k \in DOMAIN c : c[k].words = <<"conhost">>}
<1>1. IsFiniteSet(S)
  <2>1. S \subseteq 1 .. Len(c) /\ 1 \in Int /\ Len(c) \in Int
    OBVIOUS
  <2> HIDE DEF S
  <2>2. IsFiniteSet(1 .. Len(c))
    BY <2>1, FS_Interval
  <2> QED BY <2>1, <2>2, FS_Subset
<1>2. i \in S /\ j \in S
  OBVIOUS
<1> HIDE DEF S
<1>3. IsFiniteSet(S \ {i}) /\ Cardinality(S \ {i}) = Cardinality(S) - 1 /\ Cardinality(S) \in Nat
  BY <1>1, <1>2, FS_RemoveElement, FS_CardinalityType
<1>4. Cardinality(S \ {i}) = 0
  BY <1>3, FS_CardinalityType DEF S
<1>5. S \ {i} = {}
  BY <1>3, <1>4, FS_EmptySet
<1> QED BY <1>2, <1>5

LEMMA HostIsSeenThrough ==
  ASSUME NEW command \in Seq(Token)
  PROVE  SeenThrough(command)
<1> DEFINE wrapped == <<Word("conhost"), Word("--headless"), Word("--width"), Word("80")>> \o command
           bare == [i \in 1 .. Len(command) |-> Requoted(command[i])]
           split(c) == SplitExecutable(c)
<1> SUFFICES ASSUME Resolve(command) # Nothing,
                    Cardinality({i \in DOMAIN command : command[i].words = <<"conhost">>}) <= 1
             PROVE  Target(wrapped) = Target(command)
  BY DEF SeenThrough
<1>1. split(command) # NoFile
  BY DEF Resolve, Unwrap
<1>2. PICK n \in 1 .. Len(command) : SplitAt(command, n)
  BY <1>1, SplitIsThere
<1>3. /\ split(command) = [exe |-> Taken(command, n), rest |-> SubSeq(command, n + 1, Len(command))]
      /\ Taken(command, n) # <<>> /\ Head(Taken(command, n)) = Head(command[1].words)
      /\ Taken(command, n) \in Disk
      /\ Taken(command, n) = <<"conhost">> => command[1].words = <<"conhost">>
      /\ SubSeq(command, n + 1, Len(command)) \in Seq(Token)
  BY <1>2, SplitFirst DEF SplitAt
<1>4. command # <<>> /\ <<Head(command[1].words)>> \notin ConhostSwitches
  BY <1>3, DiskAssumption
<1>5. /\ split(wrapped) # NoFile /\ split(wrapped).exe = <<"conhost">>
      /\ Handed(wrapped) = bare
  BY <1>4, HandedIsRequoted, Zenon
<1>6. /\ split(bare) # NoFile /\ split(bare).exe = split(command).exe
      /\ SameWords(split(command).rest, split(bare).rest)
  BY <1>1, SplitRequoted, Zenon
<1> HIDE DEF wrapped, bare
<1>7. Handed(bare) = Handed(command)
  BY <1>6, InnerByWords DEF Handed
<1>8. split(command).exe = Taken(command, n) /\ split(command).rest = SubSeq(command, n + 1, Len(command))
  BY <1>3
<1> DEFINE once(c) == Unwrap(c, Unwrap(Handed(c), Nothing))
<1>9. once(bare) = Resolve(command)
  <2>1. CASE split(command).exe # <<"conhost">>
    <3>1. PayloadOf(split(command).exe, split(command).rest) = PayloadOf(split(command).exe, split(bare).rest)
      BY <1>6, PayloadByWords
    <3> QED BY <1>1, <1>6, <2>1, <3>1 DEF Unwrap, Resolve
  <2>2. CASE split(command).exe = <<"conhost">>
    <3> DEFINE handed == Handed(command)
    <3>1. /\ handed \in Seq(Token)
          /\ \A i \in 1 .. Len(handed) : \E j \in 1 .. Len(split(command).rest) :
               handed[i].words = split(command).rest[j].words
      <4> DEFINE rest == split(command).rest
      <4>1. rest \in Seq(Token)
        BY <1>3, <1>8
      <4>2. handed = InnerCommand(rest)
        BY DEF Handed
      <4> HIDE DEF handed, rest
      <4>3. /\ InnerCommand(rest) \in Seq(Token)
            /\ \A i \in 1 .. Len(InnerCommand(rest)) :
                 \E j \in 1 .. Len(rest) : InnerCommand(rest)[i].words = rest[j].words
        BY <4>1, InnerIsPart
      <4> QED BY <4>2, <4>3 DEF rest
    <3> HIDE DEF handed
    <3>2. command[1].words = <<"conhost">>
      BY <1>3, <1>8, <2>2
    <3>3. \A i \in 1 .. Len(handed) : handed[i].words # <<"conhost">>
      <4> SUFFICES ASSUME NEW i \in 1 .. Len(handed), handed[i].words = <<"conhost">> PROVE FALSE
        OBVIOUS
      <4>1. PICK j \in 1 .. Len(SubSeq(command, n + 1, Len(command))) :
                 SubSeq(command, n + 1, Len(command))[j].words = <<"conhost">>
        BY <1>8, <3>1
      <4>2. j + n \in 1 .. Len(command) /\ command[j + n].words = <<"conhost">> /\ j + n # 1 /\ 1 \in 1 .. Len(command)
        BY <4>1
      <4> QED BY <3>2, <4>2, OneConhost
    <3>4. split(handed).exe # <<"conhost">> \/ split(handed) = NoFile
      <4> SUFFICES ASSUME split(handed) # NoFile, split(handed).exe = <<"conhost">> PROVE FALSE
        OBVIOUS
      <4>1. PICK m \in 1 .. Len(handed) : SplitAt(handed, m)
        BY <3>1, SplitIsThere
      <4>2. Taken(handed, m) = <<"conhost">>
        BY <4>1 DEF SplitAt
      <4>3. handed[1].words = <<"conhost">>
        BY <3>1, <4>1, <4>2, SplitFirst
      <4> QED BY <3>1, <3>3, <4>3
    <3>5. \A x, y : Unwrap(handed, x) = Unwrap(handed, y)
      BY <3>4 DEF Unwrap
    <3>6. Unwrap(Handed(bare), Nothing) = Unwrap(handed, Unwrap(Handed(handed), Nothing))
      BY <1>7, <3>5 DEF handed
    <3> QED BY <1>1, <1>6, <2>2, <3>6 DEF Unwrap, Resolve, handed
  <2> QED BY <2>1, <2>2
<1>10. Resolve(wrapped) = IF once(bare) = Nothing THEN [exe |-> <<"conhost">>, payload |-> <<>>] ELSE once(bare)
  BY <1>5 DEF Resolve, Unwrap
<1>11. Resolve(wrapped) = Resolve(command)
  BY <1>9, <1>10
<1> QED BY <1>11 DEF Target, wrapped

-----------------------------------------------------------------------------
(* Verdicts.                                                                 *)

LEMMA VerdictsFollow == Asked /\ ScanInv => VerdictsAreEarned
<1> SUFFICES ASSUME Asked, ScanInv PROVE VerdictsAreEarned
  OBVIOUS
<1>1. CleanIsEarned /\ PastIsNotNew
  BY DEF ScanInv
<1>2. CalmIsEarned
  <2> SUFFICES ASSUME study = "status" PROVE TrayIsCalm(input)
    BY DEF CalmIsEarned
  <2>1. input \in AnyStatus
    BY InputsAssumption DEF Asked, Running
  <2> QED BY <2>1, CalmTray
<1>3. UnsignedIsKnown
  <2> SUFFICES ASSUME study = "signature"
               PROVE  UnsignedWasLookedUp(input.embedded, input.sha256, input.sha1)
    BY DEF UnsignedIsKnown
  <2>1. input \in [embedded : EmbeddedCodes, sha256 : Lookups, sha1 : Lookups]
    BY InputsAssumption DEF Asked, Running
  <2>2. input.embedded \in EmbeddedCodes /\ input.sha256 \in Lookups /\ input.sha1 \in Lookups
    BY <2>1
  <2> QED BY <2>2, SignaturesAsked
<1>4. QuietPanelIsHard
  <2> SUFFICES ASSUME study = "hardening" PROVE QuietIsHard(input)
    BY DEF QuietPanelIsHard
  <2>1. input \in Hardening
    BY InputsAssumption DEF Asked, Running
  <2> QED BY <2>1, HardPanel
<1>5. WeekIsEarned
  <2> SUFFICES ASSUME study = "week" PROVE QuietWeekIsEarned(input)
    BY DEF WeekIsEarned
  <2>1. input \in Week
    BY InputsAssumption DEF Asked, Running
  <2> QED BY <2>1, QuietWeek
<1>6. HostsAreSeenThrough
  <2> SUFFICES ASSUME study = "command" PROVE SeenThrough(input)
    BY DEF HostsAreSeenThrough
  <2>1. input \in Seq(Token)
    BY InputsAssumption DEF Asked, Running
  <2> QED BY <2>1, HostIsSeenThrough
<1>7. ActionsAreApart
  <2> SUFFICES ASSUME study = "task" PROVE ActionsApart(input)
    BY DEF ActionsAreApart
  <2>1. input \in Seq({"exec", "com"})
    BY InputsAssumption DEF Asked, Running
  <2> QED BY <2>1, TaskActionsApart
<1> QED BY <1>1, <1>2, <1>3, <1>4, <1>5, <1>6, <1>7 DEF VerdictsAreEarned

\* Whatever is asked, and however a scan goes: a clean scan and a calm tray rest
\* on facts that were read, "unsigned" on every route asked, a week with nothing
\* to report on sources that answered (Defender's with gaps or without), a quiet
\* panel on values that stop something where the policies could be read, and a
\* program that only hosts another is seen through (defender.rs, tray.rs,
\* signature.rs, check.rs, hardening.rs, persistence.rs: resolve_expanded).
THEOREM VerdictsAreEarnedAlways == DecisionsSpec => []VerdictsAreEarned
<1>1. Init => Asked /\ ScanInv
  <2>1. Init => ScanInit \/ ScanAtRest
    BY DEF Init
  <2> QED BY <2>1, AskedStarts, ScanStarts, ScanRests
<1>2. Asked /\ ScanInv /\ [Next]_vars => (Asked /\ ScanInv)'
  <2>1. Next \/ UNCHANGED vars => DefenderScanNext \/ UNCHANGED scanVars
    BY DEF Next, vars, Ask
  <2> QED BY <2>1, AskedStep, ScanStep, ScanStays
<1> QED BY <1>1, <1>2, VerdictsFollow, PTL DEF DecisionsSpec

-----------------------------------------------------------------------------
(* Paths.                                                                    *)

LEMMA PrefixIs ==
  ASSUME NEW S, NEW s \in Seq(S), NEW t \in Seq(S)
  PROVE  IsPrefix(s, t) <=> Len(s) <= Len(t) /\ \A i \in 1 .. Len(s) : s[i] = t[i]
<1>1. CASE Len(s) <= Len(t)
  <2>1. /\ SubSeq(s, 1, Len(s)) = s
        /\ SubSeq(t, 1, Len(s)) \in Seq(S) /\ Len(SubSeq(t, 1, Len(s))) = Len(s)
        /\ \A i \in 1 .. Len(s) : SubSeq(t, 1, Len(s))[i] = t[i]
    BY <1>1
  <2> DEFINE front == SubSeq(t, 1, Len(s))
  <2> HIDE DEF front
  <2>2. s = front <=> \A i \in 1 .. Len(s) : s[i] = front[i]
    BY <2>1 DEF front
  <2> QED BY <1>1, <2>1, <2>2 DEF IsPrefix, front
<1>2. CASE ~(Len(s) <= Len(t))
  BY <1>2 DEF IsPrefix
<1> QED BY <1>1, <1>2

\* Of two places above one place one is above the other.
LEMMA PrefixesCompare ==
  ASSUME NEW S, NEW s \in Seq(S), NEW t \in Seq(S), NEW u \in Seq(S), IsPrefix(s, u), IsPrefix(t, u)
  PROVE  Len(s) <= Len(t) <=> IsPrefix(s, t)
<1>1. /\ Len(s) <= Len(u) /\ \A i \in 1 .. Len(s) : s[i] = u[i]
      /\ Len(t) <= Len(u) /\ \A i \in 1 .. Len(t) : t[i] = u[i]
  BY PrefixIs
<1>2. Len(s) \in Nat /\ Len(t) \in Nat
  OBVIOUS
<1>3. Len(s) <= Len(t) => \A i \in 1 .. Len(s) : s[i] = t[i]
  BY <1>1, <1>2
<1> QED BY <1>3, PrefixIs

LEMMA PrefixOfSameLength ==
  ASSUME NEW S, NEW s \in Seq(S), NEW t \in Seq(S), IsPrefix(s, t), Len(s) = Len(t)
  PROVE  s = t
<1>1. \A i \in 1 .. Len(s) : s[i] = t[i]
  BY PrefixIs
<1> QED BY <1>1

LEMMA PrefixOfPrefix ==
  ASSUME NEW S, NEW s \in Seq(S), NEW t \in Seq(S), NEW u \in Seq(S), IsPrefix(s, t), IsPrefix(t, u)
  PROVE  IsPrefix(s, u)
<1>1. /\ Len(s) <= Len(t) /\ \A i \in 1 .. Len(s) : s[i] = t[i]
      /\ Len(t) <= Len(u) /\ \A i \in 1 .. Len(t) : t[i] = u[i]
  BY PrefixIs
<1>2. Len(s) \in Nat /\ Len(t) \in Nat /\ Len(u) \in Nat
  OBVIOUS
<1>3. Len(s) <= Len(u) /\ \A i \in 1 .. Len(s) : s[i] = u[i]
  BY <1>1, <1>2
<1> QED BY <1>3, PrefixIs

-----------------------------------------------------------------------------
(* The fence of a removal.                                                   *)

LEMMA SeqWider ==
  ASSUME NEW S, NEW T, S \subseteq T, NEW p \in Seq(S)
  PROVE  p \in Seq(T)
OBVIOUS

Put(m, p) == <<m>> \o p

\* What is put before two names tells neither from the other, and is a name of
\* neither.
LEMMA Prepended ==
  ASSUME NEW S, NEW m \in S, NEW p \in Seq(S), NEW q \in Seq(S)
  PROVE  /\ Put(m, p) = Put(m, q) => p = q
         /\ (q = <<>> \/ q[1] # m) => Put(m, p) # q
<1>1. <<m>> \o p = <<m>> \o q => p = q
  <2>1. <<m>> \in Seq(S)
    OBVIOUS
  <2> QED BY <2>1, ConcatSimplifications
<1>2. <<m>> \o p \in Seq(S) /\ Len(<<m>> \o p) = Len(p) + 1 /\ (<<m>> \o p)[1] = m /\ Len(p) \in Nat
  OBVIOUS
<1>3. <<m>> \o p # <<>>
  BY <1>2
<1> QED BY <1>1, <1>2, <1>3 DEF Put

LEMMA SpellingsAreOne ==
  ASSUME NEW one \in Spelling, NEW two \in Spelling
  PROVE  SpellingsAgree(one, two)
<1> DEFINE network(s) == s.prefix \in {"extended-UNC", "object-UNC", "network"}
           mark == "\\\\"
           after(p) == Put(mark, p)
           all == STRING \cup {mark}
<1>1. \A s \in {one, two} : /\ s.names \in Path /\ (s.names = <<>> \/ s.names[1] # mark)
                            /\ Plain(s) = IF network(s) THEN after(s.names) ELSE s.names
  <2>1. \A s \in {one, two} : s.names \in Path /\ (s.names = <<>> \/ s.names[1] # mark)
    BY DEF Spelling
  <2>2. \A s \in {one, two} : s.prefix \in Spellings
    BY DEF Spelling
  <2>3. \A s \in {one, two} : Plain(s) = IF network(s) THEN after(s.names) ELSE s.names
    BY <2>2 DEF Plain, Spellings, Put
  <2> QED BY <2>1, <2>3
<1>2. one.names \in Seq(all) /\ two.names \in Seq(all) /\ mark \in all
  <2>1. STRING \subseteq all /\ mark \in all
    OBVIOUS
  <2> HIDE DEF all
  <2> QED BY <1>1, <2>1, SeqWider, Zenon DEF Path
<1> HIDE DEF network, mark, all
<1>3. \A p, q \in {one.names, two.names} :
        /\ after(p) = after(q) => p = q
        /\ (q = <<>> \/ q[1] # mark) => after(p) # q
  <2> SUFFICES ASSUME NEW p \in {one.names, two.names}, NEW q \in {one.names, two.names}
               PROVE  /\ after(p) = after(q) => p = q
                      /\ (q = <<>> \/ q[1] # mark) => after(p) # q
    OBVIOUS
  <2>1. p \in Seq(all) /\ q \in Seq(all)
    BY <1>2
  <2> QED BY <1>2, <2>1, Prepended
<1>4. (Plain(one) = Plain(two)) <=> (one.names = two.names /\ network(one) = network(two))
  <2>1. /\ Plain(one) = IF network(one) THEN after(one.names) ELSE one.names
        /\ Plain(two) = IF network(two) THEN after(two.names) ELSE two.names
        /\ (one.names = <<>> \/ one.names[1] # mark) /\ (two.names = <<>> \/ two.names[1] # mark)
    BY <1>1
  <2> HIDE DEF after
  <2>2. network(one) \in BOOLEAN /\ network(two) \in BOOLEAN
    BY DEF network
  <2> QED BY <1>3, <2>1, <2>2
<1> QED BY <1>4 DEF SpellingsAgree, network

\* Where a removal is taken: who owns the place, and what the limits let be.
LEMMA FenceIsHeld ==
  ASSUME NEW asked \in Path, NEW real \in Path, real = <<>> \/ Resolves(real),
         NEW what, NEW on \in Machine, NEW intent
  PROVE  NeverBeyondTheFence(asked, real, what, on, intent)
<1> SUFFICES ASSUME CheckWithin(asked, real, what, on, intent) = "ok"
             PROVE  /\ what = "file" /\ real # <<>>
                    /\ real[2] # "windows" /\ ~IsPrefix(TheStore, real)
                    /\ on.registry => \A p \in on.profiles \ {on.own} : ~IsPrefix(p, real)
                    /\ real[2] = "$recycle.bin" => real[3] = on.sid
                    /\ intent = "suggested" => IsPrefix(on.own, real) \/ real[2] = "$recycle.bin"
  BY DEF NeverBeyondTheFence
<1>1. /\ real # <<>> /\ what = "file" /\ ~Refusal(real, on)
      /\ OwnerOf(real, on.own) \notin {"Windows", "Servicing"}
      /\ intent = "suggested" => OffersRemoval(OwnerOf(real, on.own))
  BY DEF CheckWithin
<1>2. /\ Len(real) > 1 /\ 2 \in DOMAIN real
      /\ \A i \in DOMAIN real : real[i] = "$recycle.bin" => i = 2 /\ Len(real) > 2
  <2>1. Len(real) > 1 /\ \A i \in DOMAIN real : real[i] = "$recycle.bin" => i = 2 /\ Len(real) > 2
    BY <1>1 DEF Resolves
  <2>2. 2 \in DOMAIN real
    BY <2>1 DEF Path
  <2> QED BY <2>1, <2>2
<1>3. "$recycle.bin" \in ToSet(real) <=> real[2] = "$recycle.bin"
  BY <1>2 DEF ToSet
<1>4. real[2] # "windows"
  BY <1>1, <1>2, <1>3 DEF OwnerOf
<1>5. ~IsPrefix(TheStore, real)
  BY <1>1 DEF Refusal, IsBelow
<1>6. ASSUME on.registry, NEW p \in on.profiles \ {on.own} PROVE ~IsPrefix(p, real)
  <2> SUFFICES ASSUME IsPrefix(p, real) PROVE FALSE
    OBVIOUS
  <2>1. IsPrefix(on.own, real)
    BY <1>1, <1>6 DEF Refusal, IsBelow, Others
  <2>2. /\ p \in Path /\ on.own \in Path /\ on.profiles \subseteq Path
        /\ \A q, r \in on.profiles \cup {on.own} : IsPrefix(q, r) => q = r
    BY DEF Machine
  <2>3. ~IsPrefix(p, on.own) /\ ~IsPrefix(on.own, p)
    BY <2>2
  <2>4. (Len(p) <= Len(on.own) <=> IsPrefix(p, on.own)) /\ (Len(on.own) <= Len(p) <=> IsPrefix(on.own, p))
    BY <2>1, <2>2, PrefixesCompare DEF Path
  <2>5. Len(p) \in Nat /\ Len(on.own) \in Nat
    BY <2>2 DEF Path
  <2> QED BY <2>3, <2>4, <2>5
<1>7. real[2] = "$recycle.bin" => real[3] = on.sid
  <2> SUFFICES ASSUME real[2] = "$recycle.bin" PROVE real[3] = on.sid
    OBVIOUS
  <2> DEFINE bin == {i \in DOMAIN real : real[i] = "$recycle.bin"}
  <2>1. bin = {2}
    BY <1>2
  <2>2. \E i \in bin : (\A j \in bin : i <= j) /\ i < Len(real) /\ real[i + 1] = on.sid
    BY <1>1, <2>1 DEF Refusal
  <2> HIDE DEF bin
  <2> QED BY <2>1, <2>2
<1>8. intent = "suggested" => IsPrefix(on.own, real) \/ real[2] = "$recycle.bin"
  BY <1>1, <1>3 DEF OwnerOf, OffersRemoval, Personal, IsBelow
<1> QED BY <1>1, <1>4, <1>5, <1>6, <1>7, <1>8

\* A path and two names more.
LEMMA TwoNamesMore ==
  ASSUME NEW S, NEW p \in Seq(S), NEW x \in S, NEW y \in S
  PROVE  LET q == p \o <<x, y>>
         IN /\ q \in Seq(S) /\ Len(q) = Len(p) + 2 /\ IsPrefix(p, q)
            /\ \A i \in 1 .. Len(p) : q[i] = p[i]
            /\ q[Len(p) + 1] = x
            /\ ToSet(q) \subseteq ToSet(p) \cup {x, y}
<1> DEFINE more == <<x, y>>
           q == p \o more
           n == Len(p)
<1>1. more \in Seq(S) /\ Len(more) = 2 /\ more[1] = x /\ more[2] = y /\ n \in Nat
  OBVIOUS
<1> HIDE DEF more
<1>2. /\ q \in Seq(S) /\ Len(q) = n + Len(more)
      /\ \A i \in 1 .. n + Len(more) : q[i] = IF i <= n THEN p[i] ELSE more[i - n]
  BY <1>1, ConcatProperties
<1> HIDE DEF q
<1>3. /\ Len(q) = n + 2 /\ DOMAIN q = 1 .. n + 2
      /\ \A i \in 1 .. n + 2 : q[i] = IF i <= n THEN p[i] ELSE more[i - n]
  <2>1. Len(q) = n + 2
    BY <1>1, <1>2
  <2>2. DOMAIN q = 1 .. Len(q)
    BY <1>2
  <2> QED BY <1>1, <1>2, <2>1, <2>2
<1>4. \A i \in 1 .. n : q[i] = p[i]
  BY <1>1, <1>3
<1>5. q[n + 1] = x
  <2>1. n + 1 \in 1 .. n + 2 /\ ~(n + 1 <= n) /\ (n + 1) - n = 1
    BY <1>1
  <2> QED BY <1>1, <1>3, <2>1
<1>6. IsPrefix(p, q)
  <2>1. n <= Len(q)
    BY <1>1, <1>3
  <2> QED BY <1>2, <1>4, <2>1, PrefixIs
<1>7. ASSUME NEW i \in DOMAIN q PROVE q[i] \in ToSet(p) \cup {x, y}
  <2>1. i \in 1 .. n + 2
    BY <1>3
  <2>2. CASE i <= n
    <3>1. i \in DOMAIN p
      BY <2>1, <2>2
    <3> QED BY <1>3, <2>1, <2>2, <3>1 DEF ToSet
  <2>3. CASE ~(i <= n)
    <3>1. i - n \in {1, 2}
      BY <1>1, <2>1, <2>3
    <3> QED BY <1>1, <1>3, <2>1, <2>3, <3>1
  <2> QED BY <2>2, <2>3
<1>8. ToSet(q) \subseteq ToSet(p) \cup {x, y}
  BY <1>7 DEF ToSet
<1> QED BY <1>2, <1>3, <1>4, <1>5, <1>6, <1>8 DEF q, more

LEMMA OwnStaysReachable ==
  ASSUME NEW on \in Machine, NEW intent \in {"suggested", "chosen"}
  PROVE  OwnIsReachable(on, intent)
<1> DEFINE inside == on.own \o <<"downloads", "f">>
           all == STRING \cup {"downloads", "f"}
           n == Len(on.own)
<1>1. /\ on.own \in Path /\ n > 1 /\ on.own[2] \notin {"windows", "programdata"}
      /\ ToSet(on.own) \cap ({"$recycle.bin"} \cup ServicingNames \cup ProgramNames) = {}
  BY DEF Machine
<1>2. on.own \in Seq(all) /\ "downloads" \in all /\ "f" \in all
  <2>1. STRING \subseteq all /\ "downloads" \in all /\ "f" \in all
    OBVIOUS
  <2> HIDE DEF all
  <2> QED BY <1>1, <2>1, SeqWider DEF Path
<1> HIDE DEF all
<1>3. /\ inside \in Seq(all) /\ Len(inside) = n + 2 /\ n \in Nat
      /\ \A i \in 1 .. n : inside[i] = on.own[i]
  BY <1>2, TwoNamesMore
<1>4. inside[n + 1] = "downloads" /\ ToSet(inside) \subseteq ToSet(on.own) \cup {"downloads", "f"}
  BY <1>2, TwoNamesMore
<1>5. IsPrefix(on.own, inside)
  BY <1>2, TwoNamesMore
<1> HIDE DEF inside, n
<1>6. /\ "$recycle.bin" \notin ToSet(inside) /\ ToSet(inside) \cap ServicingNames = {}
      /\ ToSet(inside) \cap ProgramNames = {}
  BY <1>1, <1>4 DEF ServicingNames, ProgramNames
<1>7. OwnerOf(inside, on.own) = "Yours"
  <2>1. inside[2] = on.own[2]
    BY <1>1, <1>3
  <2> QED BY <1>1, <1>3, <1>4, <1>5, <1>6, <2>1 DEF OwnerOf, IsBelow, Personal, n
<1>8. ~Refusal(inside, on)
  <2>1. ~IsPrefix(TheStore, inside)
    <3> SUFFICES ASSUME IsPrefix(TheStore, inside) PROVE FALSE
      OBVIOUS
    <3> DEFINE some == all \cup {"c", "programdata", "kam-security"}
    <3>1. inside \in Seq(some)
      <4>1. all \subseteq some
        OBVIOUS
      <4> HIDE DEF some
      <4> QED BY <1>3, <4>1, SeqWider
    <3>2. TheStore \in Seq(some) /\ Len(TheStore) = 3 /\ TheStore[2] = "programdata"
      BY DEF TheStore
    <3> HIDE DEF some
    <3>3. inside[2] = TheStore[2]
      BY <3>1, <3>2, PrefixIs
    <3>4. inside[2] = on.own[2]
      BY <1>1, <1>3
    <3> QED BY <1>1, <3>2, <3>3, <3>4
  <2>2. {i \in DOMAIN inside : inside[i] = "$recycle.bin"} = {}
    BY <1>6 DEF ToSet
  <2> QED BY <1>5, <2>1, <2>2 DEF Refusal, IsBelow
<1>9. inside # <<>>
  BY <1>3
<1>10. CheckWithin(inside, inside, "file", on, intent) = "ok"
  BY <1>7, <1>8, <1>9 DEF CheckWithin, OffersRemoval
<1> QED BY <1>10 DEF OwnIsReachable, inside

-----------------------------------------------------------------------------
(* Leftovers, homes and moves.                                               *)

LEMMA RemnantsJudged ==
  ASSUME NEW asked, NEW real, NEW disk, NEW relative
  PROVE  RemnantsAreTrue(asked, real, disk, relative)
BY DEF RemnantsAreTrue, ReportRemnant, JudgeRemnant

\* The names of a path inside the caller's folder.
LEMMA InsideProfile ==
  ASSUME NEW S, {"c", "users", "ann"} \subseteq S, NEW path \in Seq(S), StrictlyInside(path, Profile)
  PROVE  Len(path) > 3 /\ path[3] = "ann" /\ path[1] = "c" /\ path[2] = "users"
<1>1. Profile \in Seq(S) /\ Len(Profile) = 3
      /\ Profile[1] = "c" /\ Profile[2] = "users" /\ Profile[3] = "ann"
  BY DEF Profile
<1>2. IsPrefix(Profile, path) /\ Len(path) > Len(Profile)
  BY DEF StrictlyInside
<1> HIDE DEF Profile
<1>3. \A i \in 1 .. Len(Profile) : Profile[i] = path[i]
  <2>1. Profile \in Seq(S) /\ path \in Seq(S)
    BY <1>1
  <2>2. \A p, q \in Seq(S) : IsPrefix(p, q) => \A i \in 1 .. Len(p) : p[i] = q[i]
    BY PrefixIs
  <2> QED BY <1>2, <2>1, <2>2
<1> QED BY <1>1, <1>2, <1>3

LEMMA MovesAreHome ==
  ASSUME NEW from \in Path, NEW to \in Path
  PROVE  MovesStayHome(from, to)
<1> SUFFICES ASSUME CheckMovable(from, to, TRUE) = "ok", NEW p \in {from, to}
             PROVE  p[3] = "ann" /\ "windows" \notin ToSet(p)
  BY DEF MovesStayHome
<1>1. StrictlyInside(p, Profile) /\ ~IsOffLimits(p)
  BY DEF CheckMovable, Confined
<1> DEFINE S == STRING \cup {"c", "users", "ann"}
<1>2. p \in Seq(S) /\ {"c", "users", "ann"} \subseteq S
  <2>1. STRING \subseteq S /\ {"c", "users", "ann"} \subseteq S
    OBVIOUS
  <2> HIDE DEF S
  <2> QED BY <2>1, SeqWider DEF Path
<1> HIDE DEF S
<1> QED BY <1>1, <1>2, InsideProfile DEF IsOffLimits, OffLimits

LEMMA HomesAreMovable ==
  ASSUME NEW homes \in SUBSET Homestead
  PROVE  ProposalsAreMovable(homes)
<1> DEFINE loose == Profile \o <<"downloads", "f">>
<1>1. ASSUME NEW h \in Best(homes)
      PROVE  CheckMovable(loose, Append(h.path, "f"), TRUE) = "ok"
  <2>1. h.path \in Path /\ StrictlyInside(h.path, Profile) /\ ~IsOffLimits(h.path)
    BY DEF Best, IsHome, Homestead
  <2> DEFINE S == STRING \cup {"c", "users", "ann", "downloads", "f"}
             at == Append(h.path, "f")
  <2>2. h.path \in Seq(S) /\ Profile \in Seq(S) /\ Len(Profile) = 3 /\ "f" \in S
    <3>1. STRING \subseteq S /\ {"c", "users", "ann"} \subseteq S /\ "f" \in S
      OBVIOUS
    <3> HIDE DEF S
    <3>2. h.path \in Seq(S)
      BY <2>1, <3>1, SeqWider DEF Path
    <3> QED BY <3>1, <3>2 DEF Profile
  <2>3. "downloads" \in S
    OBVIOUS
  <2> HIDE DEF S
  <2>4. StrictlyInside(loose, Profile) /\ ~IsOffLimits(loose) /\ loose # <<>>
    <3>1. /\ loose \in Seq(S) /\ Len(loose) = Len(Profile) + 2 /\ IsPrefix(Profile, loose)
          /\ ToSet(loose) \subseteq ToSet(Profile) \cup {"downloads", "f"}
      <4>1. Profile \in Seq(S) /\ "downloads" \in S /\ "f" \in S
        BY <2>2, <2>3
      <4> DEFINE down == "downloads"
                 name == "f"
      <4>2. down \in S /\ name \in S
        BY <4>1
      <4> HIDE DEF down, name
      <4>3. /\ Profile \o <<down, name>> \in Seq(S) /\ Len(Profile \o <<down, name>>) = Len(Profile) + 2
            /\ IsPrefix(Profile, Profile \o <<down, name>>)
            /\ ToSet(Profile \o <<down, name>>) \subseteq ToSet(Profile) \cup {down, name}
        BY <4>1, <4>2, TwoNamesMore
      <4> QED BY <4>3 DEF loose, down, name
    <3>2. ToSet(Profile) = {"c", "users", "ann"}
      BY DEF ToSet, Profile
    <3> HIDE DEF loose
    <3>3. loose # <<>>
      <4>1. Len(loose) = 5
        BY <2>2, <3>1
      <4> QED BY <4>1
    <3> QED BY <2>2, <3>1, <3>2, <3>3 DEF StrictlyInside, IsOffLimits, OffLimits
  <2>5. /\ at \in Seq(S) /\ Len(at) = Len(h.path) + 1 /\ Len(h.path) \in Nat /\ Len(h.path) > 3
        /\ \A i \in 1 .. Len(h.path) : at[i] = h.path[i]
        /\ at[Len(h.path) + 1] = "f"
    BY <2>1, <2>2 DEF StrictlyInside
  <2> HIDE DEF at
  <2>6. IsPrefix(h.path, at)
    <3>1. Len(h.path) <= Len(at)
      BY <2>5
    <3> QED BY <2>2, <2>5, <3>1, PrefixIs
  <2>7. IsPrefix(Profile, at)
    BY <2>1, <2>2, <2>5, <2>6, PrefixOfPrefix DEF StrictlyInside
  <2>8. ToSet(at) \subseteq ToSet(h.path) \cup {"f"}
    BY <2>2, <2>5, SMTT(30) DEF ToSet
  <2>9. ~IsOffLimits(at)
    BY <2>1, <2>8 DEF IsOffLimits, OffLimits
  <2>10. StrictlyInside(at, Profile) /\ at # <<>>
    BY <2>2, <2>5, <2>7 DEF StrictlyInside
  <2> HIDE DEF loose
  <2> QED BY <2>4, <2>9, <2>10 DEF CheckMovable, Confined, at
<1>2. ASSUME NEW g \in homes, IsHome(g), g.named, NEW h \in Best(homes)
      PROVE  h.named
  <2>1. Strength(g) = 2
    BY <1>2 DEF Strength
  <2>2. Strength(h) > Strength(g) \/ Strength(h) = Strength(g)
    BY <1>2, <2>1 DEF Best
  <2> SUFFICES ASSUME ~h.named PROVE FALSE
    OBVIOUS
  <2>3. Strength(h) \in {0, 1}
    BY DEF Strength
  <2> QED BY <2>1, <2>2, <2>3
<1> QED BY <1>1, <1>2 DEF ProposalsAreMovable

LEMMA ChildIs ==
  ASSUME NEW root \in Seq(STRING), NEW d \in Children(root)
  PROVE  d \in Seq(STRING) /\ Len(d) = Len(root) + 1 /\ IsPrefix(root, d)
BY RootsAssumption DEF Children

\* Two data roots above one place are one.
LEMMA OneRoot ==
  ASSUME NEW r \in DataRoots, NEW s \in DataRoots, NEW place \in Seq(STRING),
         IsPrefix(r, place), IsPrefix(s, place)
  PROVE  r = s
<1>1. r \in Seq(STRING) /\ s \in Seq(STRING) /\ Len(r) \in Nat /\ Len(s) \in Nat
  BY RootsAssumption
<1>2. (Len(r) <= Len(s) <=> IsPrefix(r, s)) /\ (Len(s) <= Len(r) <=> IsPrefix(s, r))
  BY <1>1, PrefixesCompare
<1> QED BY <1>1, <1>2, RootsAssumption

LEMMA NobodysLeftovers ==
  ASSUME NEW apps
  PROVE  NamedIsNoLeftover(apps) /\ LeftoversPassTheFence(apps)
<1>1. ASSUME NEW d \in Orphans(apps), NEW a \in apps, NEW l \in Named(a), IsPrefix(d, l)
      PROVE  FALSE
  <2>1. PICK root \in DataRoots : d \in Children(root)
    BY DEF Orphans
  <2>2. ~NamesMatch(Last(d), a.name) /\ ~NamesMatch(Last(d), a.publisher)
    BY DEF Orphans, IsClaimed, ClaimedNames
  <2>3. root \in Seq(STRING) /\ d \in Seq(STRING) /\ Len(d) = Len(root) + 1 /\ IsPrefix(root, d)
    BY <2>1, ChildIs, RootsAssumption
  <2>4. PICK other \in DataRoots :
          \/ l \in Children(other) /\ NamesMatch(Last(l), a.name)
          \/ \E e \in Children(other) : l \in Children(e) /\ NamesMatch(Last(e), a.publisher)
    BY DEF Named
  <2>5. other \in Seq(STRING)
    BY RootsAssumption
  <2>6. CASE l \in Children(other) /\ NamesMatch(Last(l), a.name)
    <3>1. l \in Seq(STRING) /\ Len(l) = Len(other) + 1 /\ IsPrefix(other, l)
      BY <2>5, <2>6, ChildIs
    <3>2. root = other
      BY <1>1, <2>3, <3>1, PrefixOfPrefix, OneRoot
    <3>3. d = l
      BY <1>1, <2>3, <3>1, <3>2, PrefixOfSameLength
    <3> QED BY <2>2, <2>6, <3>3
  <2>7. ASSUME NEW e \in Children(other), l \in Children(e), NamesMatch(Last(e), a.publisher)
        PROVE  FALSE
    <3>1. e \in Seq(STRING) /\ Len(e) = Len(other) + 1 /\ IsPrefix(other, e)
      BY <2>5, ChildIs
    <3>2. l \in Seq(STRING) /\ IsPrefix(e, l)
      BY <2>7, <3>1, ChildIs
    <3>3. IsPrefix(root, l) /\ IsPrefix(other, l)
      BY <1>1, <2>3, <2>5, <3>1, <3>2, PrefixOfPrefix
    <3>4. root = other
      BY <3>2, <3>3, OneRoot
    <3>5. Len(d) <= Len(e) /\ Len(d) = Len(e)
      BY <2>3, <3>1, <3>4
    <3>6. IsPrefix(d, e)
      BY <1>1, <2>3, <3>1, <3>2, <3>5, PrefixesCompare
    <3>7. d = e
      BY <2>3, <3>1, <3>5, <3>6, PrefixOfSameLength
    <3> QED BY <2>2, <2>7, <3>7
  <2> QED BY <2>4, <2>6, <2>7
<1>2. ASSUME NEW d \in Orphans(apps) PROVE CheckQuarantinable(d) = "ok"
  <2>1. PICK root \in DataRoots : d \in Children(root)
    BY DEF Orphans
  <2>2. d \in Seq(STRING) /\ Len(d) = Len(root) + 1 /\ IsPrefix(root, d) /\ Len(root) \in Nat
    BY <2>1, ChildIs, RootsAssumption
  <2>3. Last(d) \notin NeverOrphans /\ d # <<>>
    BY <2>2 DEF Orphans
  <2> QED BY <2>2, <2>3 DEF CheckQuarantinable
<1> QED BY <1>1, <1>2 DEF NamedIsNoLeftover, LeftoversPassTheFence

-----------------------------------------------------------------------------
(* The folder the agent is installed from.                                   *)

\* What the check lets pass grants nobody unexpected a dangerous right, and
\* belongs to nobody who would have one unasked.
LEMMA CheckedIsClosed ==
  ASSUME NEW home \in AnyFolder, ReadInFull(home), CheckInstallDirectory(home) = "ok"
  PROVE  Closed(home)
<1> DEFINE acl == home.acl
<1>1. /\ acl # NoList /\ Granted(acl) = {}
      /\ OwnerRightsListed(acl) \/ IsExpected(home.owner)
  BY DEF CheckInstallDirectory, WritersOf
<1>2. home.owner = Ordinary => OwnerRightsListed(acl)
  BY <1>1, OrdinaryAssumption DEF IsExpected
<1>3. DOMAIN acl \subseteq Nat
  <2>1. acl \in Seq([type : {"allow", "deny", "other"}, sid : Sids, mask : SUBSET {"read", "write", "write_dac"}])
    BY <1>1 DEF AnyFolder
  <2> QED BY <2>1
<1> SUFFICES ASSUME NEW right \in {"write", "write_dac"}, MayUse(Ordinary, right, home)
             PROVE  FALSE
  BY DEF Closed
<1> DEFINE about == {i \in DOMAIN acl : acl[i].sid \in Memberships(Ordinary, home)
                                        /\ right \in acl[i].mask}
           first == CHOOSE i \in about : \A j \in about : i <= j
<1>4. about # {} /\ acl[first].type # "deny"
  BY <1>1, <1>2 DEF MayUse
<1>5. about \subseteq Nat
  BY <1>3
<1>6. first \in about
  <2>1. about \in SUBSET Nat /\ about # {}
    BY <1>4, <1>5
  <2> HIDE DEF about
  <2>2. \E i \in about : \A j \in about : i <= j
    BY <2>1, Least
  <2> QED BY <2>2
<1>7. acl[first].sid \in {Ordinary, "Users", "OWNER RIGHTS"}
  <2>1. acl[first].sid \in Memberships(Ordinary, home)
    BY <1>6
  <2> HIDE DEF first
  <2> QED BY <2>1 DEF Memberships
<1>8. ~IsExpected(acl[first].sid)
  BY <1>7, OrdinaryAssumption DEF IsExpected
<1>9. acl[first].mask \cap Dangerous # {}
  BY <1>6 DEF Dangerous
<1>10. first \in Interpreted(acl) /\ acl[first].type = "allow"
  <2>1. first \in DOMAIN acl
    BY <1>6
  <2>2. first \in Interpreted(acl)
    BY <1>1, <2>1 DEF ReadInFull
  <2> QED BY <1>4, <2>2 DEF Interpreted
<1>11. acl[first].sid \in Granted(acl)
  BY <1>8, <1>9, <1>10 DEF Granted
<1> QED BY <1>1, <1>11

-----------------------------------------------------------------------------
(* Judging a set of identical files.                                         *)

\* A program's or Windows' copy is always the better keeper than one of the
\* person's own, and that than one in the bin.
LEMMA PenaltyOf ==
  ASSUME NEW c \in Copy
  PROVE  /\ Penalty(c) \in Nat
         /\ Removable(c.owner) <=> Penalty(c) >= 12
         /\ c.owner = "Deleted" <=> Penalty(c) >= 36
<1>1. c.owner \in Owners
  BY DEF Copy
<1> DEFINE o == OwnerRank(c.owner)
           a == IF c.named THEN 2 ELSE 0
           b == IF c.downloads THEN 1 ELSE 0
<1>2. /\ o \in 0 .. 9
      /\ o \in 0 .. 2 <=> ~Removable(c.owner)
      /\ c.owner = "Deleted" => o = 9
      /\ c.owner # "Deleted" => o <= 3
  BY <1>1 DEF Owners, OwnerRank, Removable
<1>3. a \in {0, 2} /\ b \in {0, 1}
  OBVIOUS
<1>4. Penalty(c) = o * 4 + a + b
  BY DEF Penalty
<1> HIDE DEF o, a, b
<1> QED BY <1>2, <1>3, <1>4

\* What ranks behind no other comes before it.
LEMMA BeforeIsOrder ==
  ASSUME NEW copies \in Seq(Copy),
         NEW i \in DOMAIN copies, NEW j \in DOMAIN copies, NEW k \in DOMAIN copies
  PROVE  /\ Penalty(copies[i]) \in Nat /\ copies[i].length \in Nat
         /\ ~Before(copies, i, i)
         /\ i # j => (Before(copies, i, j) \/ Before(copies, j, i))
         /\ Before(copies, i, j) /\ Before(copies, j, k) => Before(copies, i, k)
         /\ Before(copies, i, j) => Penalty(copies[i]) <= Penalty(copies[j])
<1>1. \A c \in Copy : Penalty(c) \in Nat /\ c.length \in Nat
  BY PenaltyOf DEF Copy
<1>2. copies[i] \in Copy /\ copies[j] \in Copy /\ copies[k] \in Copy /\ {i, j, k} \subseteq Nat
  OBVIOUS
<1> HIDE DEF Copy
<1> DEFINE p(m) == Penalty(copies[m])
           l(m) == copies[m].length
<1>3. /\ p(i) \in Nat /\ p(j) \in Nat /\ p(k) \in Nat
      /\ l(i) \in Nat /\ l(j) \in Nat /\ l(k) \in Nat
      /\ i \in Nat /\ j \in Nat /\ k \in Nat
  BY <1>1, <1>2
<1>4. \A m, o \in DOMAIN copies :
        Before(copies, m, o) <=>
          \/ p(m) < p(o)
          \/ p(m) = p(o) /\ l(m) < l(o)
          \/ m < o /\ ~(p(o) < p(m)) /\ ~(p(o) = p(m) /\ l(o) < l(m))
  BY DEF Before, Outranks
<1> HIDE DEF p, l
<1>5. /\ ~Before(copies, i, i)
      /\ i # j => (Before(copies, i, j) \/ Before(copies, j, i))
      /\ Before(copies, i, j) /\ Before(copies, j, k) => Before(copies, i, k)
      /\ Before(copies, i, j) => p(i) <= p(j)
  BY <1>3, <1>4, SMTT(30)
<1> QED BY <1>3, <1>5 DEF p, l

Ahead(copies, i) == {j \in DOMAIN copies : Before(copies, j, i)}

\* Every copy has a place of its own, and every place a copy.
LEMMA RanksArePlaces ==
  ASSUME NEW copies \in Seq(Copy)
  PROVE  LET D == 1 .. Len(copies) IN
         \E at \in Bijection(D, D) :
           /\ \A r \in D : SortCopies(copies)[r] = copies[at[r]] /\ Rank(copies, at[r]) = r
           /\ DOMAIN SortCopies(copies) = D
<1> DEFINE n == Len(copies)
           D == 1 .. n
           rank == [i \in D |-> Rank(copies, i)]
           at == [r \in D |-> CHOOSE i \in D : Rank(copies, i) = r]
<1>1. n \in Nat /\ DOMAIN copies = D
  OBVIOUS
<1>2. IsFiniteSet(D) /\ Cardinality(D) = n
  <2>1. 1 \in Int /\ n \in Int
    BY <1>1
  <2>2. Cardinality(D) = IF 1 > n THEN 0 ELSE n - 1 + 1
    BY <2>1, FS_Interval
  <2>3. IsFiniteSet(D)
    BY <2>1, FS_Interval
  <2> HIDE DEF n, D
  <2> QED BY <1>1, <2>2, <2>3
<1> HIDE DEF n
<1>3. ASSUME NEW i \in D
      PROVE  /\ IsFiniteSet(Ahead(copies, i)) /\ Cardinality(Ahead(copies, i)) \in Nat
             /\ Cardinality(Ahead(copies, i)) < n
  <2>1. Ahead(copies, i) \in SUBSET (D \ {i})
    BY <1>1, BeforeIsOrder DEF Ahead
  <2>2. IsFiniteSet(D \ {i}) /\ Cardinality(D \ {i}) = n - 1
    BY <1>2, FS_RemoveElement
  <2> QED BY <1>1, <2>1, <2>2, FS_Subset, FS_CardinalityType
<1>4. ASSUME NEW i \in D, NEW j \in D, Before(copies, i, j)
      PROVE  Cardinality(Ahead(copies, i)) < Cardinality(Ahead(copies, j))
  <2>1. Ahead(copies, i) \in SUBSET Ahead(copies, j) /\ i \in Ahead(copies, j) \ Ahead(copies, i)
    BY <1>1, <1>4, BeforeIsOrder DEF Ahead
  <2>2. Cardinality(Ahead(copies, i)) <= Cardinality(Ahead(copies, j))
        /\ Cardinality(Ahead(copies, i)) # Cardinality(Ahead(copies, j))
    BY <1>3, <2>1, FS_Subset
  <2> QED BY <1>3, <2>2
<1>5. \A i \in D : rank[i] = Cardinality(Ahead(copies, i)) + 1
  BY <1>1 DEF Rank, Ahead
<1>6. rank \in Injection(D, D)
  <2>1. rank \in [D -> D]
    <3>1. \A i \in D : rank[i] \in D
      BY <1>1, <1>3, <1>5
    <3> QED BY <3>1
  <2>2. ASSUME NEW i \in D, NEW j \in D, rank[i] = rank[j], i # j PROVE FALSE
    <3>1. Before(copies, i, j) \/ Before(copies, j, i)
      BY <1>1, <2>2, BeforeIsOrder
    <3>2. Cardinality(Ahead(copies, i)) = Cardinality(Ahead(copies, j))
      <4> HIDE DEF rank
      <4> QED BY <1>3, <1>5, <2>2
    <3> QED BY <1>3, <1>4, <3>1, <3>2
  <2> HIDE DEF rank
  <2> QED BY <2>1, <2>2 DEF Injection, IsInjective
<1>7. \A r \in D : \E i \in D : Rank(copies, i) = r
  <2>1. rank \in Surjection(D, D)
    <3> HIDE DEF rank, D
    <3> QED BY <1>2, <1>6, FS_Injection
  <2> QED BY <2>1 DEF Surjection
<1>8. \A r \in D : at[r] \in D /\ Rank(copies, at[r]) = r
  BY <1>7
<1>9. at \in Bijection(D, D)
  <2>1. at \in [D -> D]
    BY <1>8
  <2>2. \A r \in D : rank[at[r]] = r
    BY <1>8
  <2>3. \A i \in D : rank[i] \in D
    BY <1>6 DEF Injection
  <2>4. ASSUME NEW i \in D PROVE \E r \in D : at[r] = i
    <3> HIDE DEF at, rank
    <3>1. rank[at[rank[i]]] = rank[i] /\ at[rank[i]] \in D
      BY <2>1, <2>2, <2>3
    <3> QED BY <1>6, <2>3, <3>1 DEF Injection, IsInjective
  <2> HIDE DEF at, rank, D
  <2>5. \A r, s \in D : at[r] = at[s] => r = s
    BY <2>2
  <2> QED BY <2>1, <2>4, <2>5 DEF Bijection, Injection, Surjection, IsInjective
<1>10. SortCopies(copies) = [r \in D |-> copies[at[r]]]
  BY <1>1 DEF SortCopies
<1> HIDE DEF at
<1>11. \A r \in D : SortCopies(copies)[r] = copies[at[r]]
  BY <1>10
<1>12. DOMAIN SortCopies(copies) = D
  BY <1>10
<1>13. /\ \A r \in D : SortCopies(copies)[r] = copies[at[r]] /\ Rank(copies, at[r]) = r
       /\ DOMAIN SortCopies(copies) = D
  BY <1>8, <1>11, <1>12
<1> HIDE DEF D
<1>14. \E f \in Bijection(D, D) :
         /\ \A r \in D : SortCopies(copies)[r] = copies[f[r]] /\ Rank(copies, f[r]) = r
         /\ DOMAIN SortCopies(copies) = D
  BY <1>9, <1>13
<1> QED BY <1>14 DEF D, n

\* Of the sorted copies the first has the least penalty, and those after it are
\* all the others.
LEMMA KeeperIsKept ==
  ASSUME NEW copies \in Seq(Copy)
  PROVE  KeeperStays(copies)
<1> DEFINE n == Len(copies)
           D == 1 .. n
           sorted == SortCopies(copies)
           R == {i \in D : Removable(copies[i].owner)}
           goes == {i \in 2 .. n : Removable(sorted[i].owner)}
           stays == {i \in D : ~Removable(copies[i].owner)}
<1>1. n \in Nat /\ DOMAIN copies = D /\ \A i \in D : copies[i] \in Copy
  OBVIOUS
<1>2. IsFiniteSet(D) /\ Cardinality(D) = n
  <2>1. 1 \in Int /\ n \in Int
    BY <1>1
  <2>2. Cardinality(D) = IF 1 > n THEN 0 ELSE n - 1 + 1
    BY <2>1, FS_Interval
  <2> QED BY <1>1, <2>1, <2>2, FS_Interval, SMTT(30)
<1>3. R \in SUBSET D /\ IsFiniteSet(R) /\ Cardinality(R) \in Nat /\ Cardinality(R) <= n
      /\ (Cardinality(R) = n <=> R = D)
  <2> HIDE DEF D
  <2>1. R \in SUBSET D
    OBVIOUS
  <2> HIDE DEF R
  <2> QED BY <1>2, <2>1, FS_Subset, FS_CardinalityType
<1>4. PICK at \in Bijection(D, D) :
        /\ \A r \in D : sorted[r] = copies[at[r]] /\ Rank(copies, at[r]) = r
        /\ DOMAIN sorted = D
  BY RanksArePlaces
<1>5. SUFFICES ASSUME VerdictOf(copies) = "choose"
               PROVE  /\ Spare(copies) = Cardinality(goes)
                      /\ Removable(sorted[1].owner) => \A i \in D : Removable(copies[i].owner)
                      /\ sorted[1].owner = "Deleted" => \A i \in D : copies[i].owner = "Deleted"
                      /\ Explain(copies) = "one-would-still-be-there"
                           => Cardinality(stays) = 1
  BY <1>1 DEF KeeperStays, Judge
<1>6. Spare(copies) = IF Cardinality(R) < n THEN Cardinality(R) ELSE n - 1
  BY <1>1 DEF Spare
<1>7. Spare(copies) > 0
  BY <1>5 DEF VerdictOf
<1>8. n > 1 /\ 1 \in D
  BY <1>1, <1>3, <1>6, <1>7
<1> DEFINE m == at[1]
<1>9. m \in D /\ Rank(copies, m) = 1 /\ sorted[1] = copies[m]
  BY <1>4, <1>8 DEF Bijection, Injection
<1>10. \A i \in D : Penalty(copies[m]) <= Penalty(copies[i])
  <2>1. IsFiniteSet(Ahead(copies, m)) /\ Cardinality(Ahead(copies, m)) \in Nat
    <3>1. Ahead(copies, m) \in SUBSET D
      BY <1>1 DEF Ahead
    <3> QED BY <1>2, <3>1, FS_Subset, FS_CardinalityType
  <2>2. Cardinality(Ahead(copies, m)) = 0
    BY <1>9, <2>1 DEF Rank, Ahead
  <2>3. Ahead(copies, m) = {}
    BY <2>1, <2>2, FS_EmptySet
  <2>4. ASSUME NEW i \in D PROVE Penalty(copies[m]) <= Penalty(copies[i])
    <3>1. ~Before(copies, i, m)
      BY <1>1, <2>3, <2>4 DEF Ahead
    <3> HIDE DEF m
    <3> QED BY <1>1, <1>9, <2>4, <3>1, BeforeIsOrder
  <2> QED BY <2>4
<1> HIDE DEF m
<1>11. \A i \in D : /\ Penalty(copies[i]) \in Nat
                    /\ Removable(copies[i].owner) <=> Penalty(copies[i]) >= 12
                    /\ copies[i].owner = "Deleted" <=> Penalty(copies[i]) >= 36
  <2> HIDE DEF D
  <2> QED BY <1>1, PenaltyOf
<1>12. Removable(copies[m].owner) => \A i \in D : Removable(copies[i].owner)
  BY <1>9, <1>10, <1>11
<1>13. copies[m].owner = "Deleted" => \A i \in D : copies[i].owner = "Deleted"
  BY <1>9, <1>10, <1>11
<1>14. Cardinality(goes) = Cardinality(R \ {m})
  <2> DEFINE f == [r \in goes |-> at[r]]
  <2>1. goes \in SUBSET D /\ \A r \in goes : r # 1
    BY <1>1
  <2>2. ASSUME NEW r \in goes PROVE at[r] \in R \ {m}
    <3>1. r \in D /\ at[r] \in D /\ sorted[r] = copies[at[r]] /\ r # 1
      BY <1>4, <2>1 DEF Bijection, Injection
    <3>2. at[r] # m
      BY <1>4, <1>8, <3>1 DEF m, Bijection, Injection, IsInjective
    <3> QED BY <3>1, <3>2
  <2>3. ASSUME NEW i \in R \ {m} PROVE \E r \in goes : at[r] = i
    <3>1. PICK r \in D : at[r] = i
      BY <1>3, <1>4 DEF Bijection, Surjection
    <3>2. r # 1
      BY <3>1 DEF m
    <3>3. r \in 2 .. n /\ sorted[r] = copies[i]
      BY <1>1, <1>4, <3>1, <3>2
    <3> QED BY <3>1, <3>3
  <2>4. \A r, s \in goes : at[r] = at[s] => r = s
    <3> HIDE DEF D, goes
    <3> QED BY <1>4, <2>1 DEF Bijection, Injection, IsInjective
  <2> HIDE DEF goes, R, D
  <2>5. f \in Bijection(goes, R \ {m})
    <3>1. f \in [goes -> R \ {m}] /\ (\A r \in goes : f[r] = at[r])
      BY <2>2
    <3> HIDE DEF f
    <3> QED BY <2>3, <2>4, <3>1 DEF Bijection, Injection, Surjection, IsInjective
  <2>6. IsFiniteSet(goes)
    BY <1>2, <2>1, FS_Subset
  <2> QED BY <2>5, <2>6, FS_Bijection DEF ExistsBijection
<1>15. Cardinality(R \ {m}) = IF m \in R THEN Cardinality(R) - 1 ELSE Cardinality(R)
  <2> HIDE DEF R
  <2> QED BY <1>3, FS_RemoveElement
<1>16. m \in R <=> R = D
  BY <1>9, <1>12
<1>17. Spare(copies) = Cardinality(goes)
  <2> HIDE DEF R, goes, D
  <2> QED BY <1>1, <1>2, <1>3, <1>6, <1>14, <1>15, <1>16
<1>18. ASSUME Explain(copies) = "one-would-still-be-there"
       PROVE  Cardinality(stays) = 1
  <2>1. ~Removable(copies[m].owner) /\ Spare(copies) + 1 = n
    BY <1>5, <1>9, <1>18 DEF Explain
  <2>2. Cardinality(R) = n - 1
    <3>1. m \notin R
      BY <2>1
    <3> HIDE DEF R, D
    <3> QED BY <1>1, <1>3, <1>6, <1>16, <2>1, <3>1
  <2>3. D \cap R = R /\ stays = D \ R
    BY <1>3
  <2> HIDE DEF D, R, stays
  <2>4. Cardinality(D \ R) = Cardinality(D) - Cardinality(D \cap R)
    BY <1>2, FS_Difference
  <2>5. Cardinality(D \cap R) = Cardinality(R)
    BY <2>3
  <2>6. Cardinality(stays) = Cardinality(D \ R)
    BY <2>3
  <2> HIDE DEF n
  <2> QED BY <1>1, <1>2, <2>2, <2>4, <2>5, <2>6
<1> QED BY <1>9, <1>12, <1>13, <1>17, <1>18

-----------------------------------------------------------------------------
(* Removals.                                                                 *)

LEMMA RemovalsFollow == Asked => RemovalsAreFenced
<1> SUFFICES ASSUME Asked PROVE RemovalsAreFenced
  OBVIOUS
<1>1. KeepersStay
  <2> SUFFICES ASSUME study = "judging" PROVE KeeperStays(input)
    BY DEF KeepersStay
  <2>1. input \in Seq(Copy)
    BY InputsAssumption DEF Asked, Running
  <2> QED BY <2>1, KeeperIsKept
<1>2. PathsAreOne
  <2>1. ASSUME study = "spelling" PROVE SpellingsAgree(input.one, input.two)
    <3>1. input \in [one : Spelling, two : Spelling]
      BY <2>1, InputsAssumption DEF Asked, Running
    <3>2. input.one \in Spelling /\ input.two \in Spelling
      BY <3>1
    <3> QED BY <3>2, SpellingsAreOne
  <2>2. ResolvedIsBelow(input.names, input.depth, input.real)
    BY DEF ResolvedIsBelow, Resolved
  <2> QED BY <2>1, <2>2 DEF PathsAreOne
<1>3. FenceHolds
  <2> SUFFICES ASSUME study = "fence"
               PROVE  /\ NeverBeyondTheFence(input.asked, input.real, input.what, input.on, input.intent)
                      /\ OwnIsReachable(input.on, input.intent)
    BY DEF FenceHolds
  <2>1. input \in Fence
    BY InputsAssumption DEF Asked, Running
  <2>2. /\ input.asked \in Path /\ input.real \in Path /\ input.on \in Machine
        /\ input.intent \in {"suggested", "chosen"}
        /\ input.real = <<>> \/ Resolves(input.real)
    BY <2>1 DEF Fence
  <2> QED BY <2>2, FenceIsHeld, OwnStaysReachable
<1>4. LeftoversAreNobodys
  BY NobodysLeftovers DEF LeftoversAreNobodys
<1>5. RemnantsAreJudgedTrue
  BY RemnantsJudged DEF RemnantsAreJudgedTrue
<1>6. HomesAreReachable
  <2> SUFFICES ASSUME study = "homes" PROVE ProposalsAreMovable(input)
    BY DEF HomesAreReachable
  <2>1. input \in SUBSET Homestead
    BY InputsAssumption DEF Asked, Running
  <2> QED BY <2>1, HomesAreMovable
<1>7. MovesStay
  <2> SUFFICES ASSUME study = "move" PROVE MovesStayHome(input.from, input.to)
    BY DEF MovesStay
  <2>1. input \in [from : Path, to : Path]
    BY InputsAssumption DEF Asked, Running
  <2>2. input.from \in Path /\ input.to \in Path
    BY <2>1
  <2> QED BY <2>2, MovesAreHome
<1>8. TrustedIsClosed
  <2> SUFFICES ASSUME study = "folder", ReadInFull(input), CheckInstallDirectory(input) = "ok" PROVE Closed(input)
    BY DEF TrustedIsClosed
  <2>1. input \in AnyFolder
    BY InputsAssumption DEF Asked, Running
  <2> QED BY <2>1, CheckedIsClosed
<1> QED BY <1>1, <1>2, <1>3, <1>4, <1>5, <1>6, <1>7, <1>8 DEF RemovalsAreFenced

\* Whatever is asked, a removal or a move is judged by where its path resolves
\* to, the copy suggested to keep is one that stays if any does, a leftover bears
\* no installed name, and a folder the installer accepts, when all its entries
\* are of the types it interprets, is closed to ordinary accounts (duplicates.rs,
\* paths.rs, orphans.rs, remnants.rs, organise.rs and trust.rs).
THEOREM RemovalsAreFencedAlways == DecisionsSpec => []RemovalsAreFenced
BY AskedStarts, AskedStep, RemovalsFollow, PTL DEF DecisionsSpec

-----------------------------------------------------------------------------
(* The task store.                                                           *)

\* The first folder on the way to a file that was not listed is named, or the
\* file is.
LEMMA TaskIsSeen ==
  ASSUME NEW store \in TaskStore
  PROVE  NoTaskIsHidden(store)
<1> SUFFICES ASSUME NEW f \in store.files, f \notin ReadTasks(store)
             PROVE  \E place \in MissedTasks(store) : IsPrefix(place, f)
  BY DEF NoTaskIsHidden
<1>1. /\ store.files \subseteq Path /\ store.folders \subseteq Path
      /\ f \in Path /\ f # <<>> /\ Len(f) \in Nat /\ Len(f) > 0
      /\ \A n \in 0 .. Len(f) - 1 : SubSeq(f, 1, n) \in store.folders
  <2>1. /\ store.files \subseteq Path /\ store.folders \subseteq Path
        /\ f # <<>> /\ \A n \in 0 .. Len(f) - 1 : SubSeq(f, 1, n) \in store.folders
    BY DEF TaskStore
  <2>2. f \in Seq(STRING)
    BY <2>1 DEF Path
  <2> QED BY <2>1, <2>2 DEF Path
<1> DEFINE front(n) == SubSeq(f, 1, n)
<1>2. \A n \in 0 .. Len(f) :
        /\ front(n) \in Seq(STRING) /\ Len(front(n)) = n /\ IsPrefix(front(n), f)
        /\ \A k \in 0 .. n : SubSeq(front(n), 1, k) = front(k)
  <2>1. SUFFICES ASSUME NEW n \in 0 .. Len(f)
                 PROVE  /\ front(n) \in Seq(STRING) /\ Len(front(n)) = n /\ IsPrefix(front(n), f)
                        /\ \A k \in 0 .. n : SubSeq(front(n), 1, k) = front(k)
    OBVIOUS
  <2>2. /\ f \in Seq(STRING) /\ front(n) \in Seq(STRING) /\ Len(front(n)) = n
        /\ \A i \in 1 .. n : front(n)[i] = f[i]
    BY <1>1 DEF Path
  <2>3. IsPrefix(front(n), f)
    <3>1. n <= Len(f)
      BY <1>1
    <3> HIDE DEF front
    <3> QED BY <2>2, <3>1, PrefixIs
  <2>4. ASSUME NEW k \in 0 .. n PROVE SubSeq(front(n), 1, k) = front(k)
    <3>1. /\ front(k) \in Seq(STRING) /\ Len(front(k)) = k /\ \A i \in 1 .. k : front(k)[i] = f[i]
      BY <1>1 DEF Path
    <3> HIDE DEF front
    <3>2. /\ SubSeq(front(n), 1, k) \in Seq(STRING) /\ Len(SubSeq(front(n), 1, k)) = k
          /\ \A i \in 1 .. k : SubSeq(front(n), 1, k)[i] = front(n)[i]
      BY <2>2
    <3> DEFINE twice == SubSeq(front(n), 1, k)
    <3> HIDE DEF twice
    <3>3. twice = front(k)
      BY <2>2, <3>1, <3>2 DEF twice
    <3> QED BY <3>3 DEF twice
  <2> QED BY <2>2, <2>3, <2>4
<1>3. Front(f) = front(Len(f) - 1) /\ front(Len(f)) = f /\ Len(f) - 1 \in 0 .. Len(f)
  BY <1>1 DEF Front, Path
<1> DEFINE good(n) == front(n) \in store.folders /\ front(n) \notin store.closed /\ n <= TaskDepth
<1>4. \A n \in 0 .. Len(f) : Listed(store, front(n)) <=> \A k \in 0 .. n : good(k)
  <2> HIDE DEF front
  <2> QED BY <1>2 DEF Listed
<1>5. CASE \A k \in 0 .. Len(f) - 1 : good(k)
  <2>1. Listed(store, Front(f))
    <3> HIDE DEF good, front
    <3> QED BY <1>3, <1>4, <1>5
  <2>2. f \in store.closed /\ f \in MissedTasks(store)
    BY <1>1, <2>1 DEF ReadTasks, MissedTasks
  <2>3. IsPrefix(f, f)
    <3>1. Len(f) \in 0 .. Len(f)
      BY <1>1
    <3> HIDE DEF front
    <3> QED BY <1>2, <1>3, <3>1
  <2> QED BY <2>2, <2>3
<1>6. CASE ~\A k \in 0 .. Len(f) - 1 : good(k)
  <2> DEFINE B == {k \in 0 .. Len(f) - 1 : ~good(k)}
  <2>1. PICK n \in B : \A m \in B : n <= m
    <3>1. B \in SUBSET Nat /\ B # {}
      BY <1>1, <1>6
    <3> HIDE DEF B
    <3> QED BY <3>1, Least
  <2>2. /\ n \in 0 .. Len(f) - 1 /\ n \in 0 .. Len(f) /\ n \in Nat /\ ~good(n)
        /\ \A k \in 0 .. n - 1 : good(k)
    BY <1>1, <2>1
  <2>3. front(n) \in store.folders /\ (front(n) \in store.closed \/ n > TaskDepth)
    BY <1>1, <2>2, DepthAssumption
  <2>4. front(n) = <<>> \/ Listed(store, Front(front(n)))
    <3>1. CASE n = 0
      <4>1. front(n) = <<>>
        <5> HIDE DEF front
        <5> QED BY <1>2, <2>2, <3>1
      <4> QED BY <4>1
    <3>2. CASE n # 0
      <4>1. n - 1 \in 0 .. n /\ n - 1 \in 0 .. Len(f) /\ Len(front(n)) = n
        BY <1>1, <1>2, <2>2, <3>2
      <4>2. Front(front(n)) = front(n - 1)
        <5> HIDE DEF front
        <5> QED BY <1>2, <2>2, <4>1 DEF Front
      <4>3. Listed(store, front(n - 1))
        <5> HIDE DEF front, good
        <5> QED BY <1>4, <2>2, <4>1
      <4> QED BY <4>2, <4>3
    <3> QED BY <3>1, <3>2
  <2>5. Len(front(n)) = n /\ IsPrefix(front(n), f)
    BY <1>2, <2>2
  <2>6. front(n) \in MissedTasks(store)
    <3> HIDE DEF front
    <3> QED BY <2>3, <2>4, <2>5 DEF MissedTasks
  <2> QED BY <2>5, <2>6
<1> QED BY <1>5, <1>6

-----------------------------------------------------------------------------
(* One collection of anchors.                                                *)

Names == Accounts \cup {"hkey_users", "run", "hklm", "wow6432node", "c:", "users", "startup", "programdata"}

RunKeyOf(a) == HiveOf(a) \o <<"run">>

StartupOf(a) == ProfileOf(a) \o <<"startup">>

\* The names of a place that may start something.
LEMMA PlacesByName ==
  ASSUME NEW a \in Accounts
  PROVE  /\ HiveOf(a) \in Seq(Names) /\ Len(HiveOf(a)) = 2
         /\ HiveOf(a)[1] = "hkey_users" /\ HiveOf(a)[2] = a
         /\ ProfileOf(a) \in Seq(Names) /\ Len(ProfileOf(a)) = 3
         /\ ProfileOf(a)[1] = "c:" /\ ProfileOf(a)[2] = "users" /\ ProfileOf(a)[3] = a
         /\ RunKeyOf(a) \in Seq(Names) /\ Len(RunKeyOf(a)) = 3
         /\ RunKeyOf(a)[1] = "hkey_users" /\ RunKeyOf(a)[2] = a /\ RunKeyOf(a)[3] = "run"
         /\ StartupOf(a) \in Seq(Names) /\ Len(StartupOf(a)) = 4
         /\ StartupOf(a)[1] = "c:" /\ StartupOf(a)[2] = "users" /\ StartupOf(a)[3] = a
         /\ StartupOf(a)[4] = "startup"
<1> DEFINE r == <<"run">>
           s == <<"startup">>
<1>1. a \in Names /\ {"hkey_users", "c:", "users", "run", "startup"} \subseteq Names
  BY DEF Names
<1>2. /\ HiveOf(a) \in Seq(Names) /\ Len(HiveOf(a)) = 2
      /\ HiveOf(a)[1] = "hkey_users" /\ HiveOf(a)[2] = a
      /\ ProfileOf(a) \in Seq(Names) /\ Len(ProfileOf(a)) = 3
      /\ ProfileOf(a)[1] = "c:" /\ ProfileOf(a)[2] = "users" /\ ProfileOf(a)[3] = a
      /\ r \in Seq(Names) /\ Len(r) = 1 /\ r[1] = "run"
      /\ s \in Seq(Names) /\ Len(s) = 1 /\ s[1] = "startup"
  BY <1>1 DEF HiveOf, ProfileOf
<1> HIDE DEF r, s
<1>3. /\ RunKeyOf(a) \in Seq(Names) /\ Len(RunKeyOf(a)) = 3
      /\ \A i \in 1 .. 3 : RunKeyOf(a)[i] = IF i <= 2 THEN HiveOf(a)[i] ELSE r[i - 2]
  <2>1. HiveOf(a) \o r = RunKeyOf(a)
    BY DEF RunKeyOf, r
  <2>2. /\ HiveOf(a) \o r \in Seq(Names) /\ Len(HiveOf(a) \o r) = Len(HiveOf(a)) + Len(r)
        /\ \A i \in 1 .. Len(HiveOf(a)) + Len(r) :
             (HiveOf(a) \o r)[i] = IF i <= Len(HiveOf(a)) THEN HiveOf(a)[i] ELSE r[i - Len(HiveOf(a))]
    BY <1>2, ConcatProperties
  <2> QED BY <1>2, <2>1, <2>2
<1>4. /\ StartupOf(a) \in Seq(Names) /\ Len(StartupOf(a)) = 4
      /\ \A i \in 1 .. 4 : StartupOf(a)[i] = IF i <= 3 THEN ProfileOf(a)[i] ELSE s[i - 3]
  <2>1. ProfileOf(a) \o s = StartupOf(a)
    BY DEF StartupOf, s
  <2>2. /\ ProfileOf(a) \o s \in Seq(Names) /\ Len(ProfileOf(a) \o s) = Len(ProfileOf(a)) + Len(s)
        /\ \A i \in 1 .. Len(ProfileOf(a)) + Len(s) :
             (ProfileOf(a) \o s)[i]
               = IF i <= Len(ProfileOf(a)) THEN ProfileOf(a)[i] ELSE s[i - Len(ProfileOf(a))]
    BY <1>2, ConcatProperties
  <2> QED BY <1>2, <2>1, <2>2
<1> QED BY <1>2, <1>3, <1>4

LEMMA PlacesForAll ==
  LET one == <<"hklm", "run">>
      other == <<"hklm", "wow6432node", "run">>
      every == <<"c:", "programdata", "startup">>
  IN /\ one \in Seq(Names) /\ Len(one) = 2 /\ one[1] = "hklm" /\ one[2] = "run"
     /\ other \in Seq(Names) /\ Len(other) = 3 /\ other[1] = "hklm" /\ other[2] = "wow6432node"
     /\ other[3] = "run"
     /\ every \in Seq(Names) /\ Len(every) = 3 /\ every[1] = "c:" /\ every[2] = "programdata"
     /\ every[3] = "startup"
BY DEF Names

\* A place is inside another by the names they share.
LEMMA PlaceInside ==
  ASSUME NEW p \in Seq(Names), NEW q \in Seq(Names)
  PROVE  /\ IsPrefix(p, p)
         /\ IsPrefix(p, q) => Len(p) <= Len(q) /\ \A i \in 1 .. Len(p) : p[i] = q[i]
         /\ IsPrefix(p, q) /\ Len(p) = Len(q) => p = q
         /\ Len(p) \in Nat /\ Len(q) \in Nat
<1>1. IsPrefix(p, p) /\ (IsPrefix(p, q) => Len(p) <= Len(q) /\ \A i \in 1 .. Len(p) : p[i] = q[i])
  BY PrefixIs
<1> QED BY <1>1

LEMMA KeysApart ==
  ASSUME NEW A \in SUBSET Accounts, NEW q \in RunKeys(A)
  PROVE  /\ q \in Seq(Names) /\ q[1] \in {"hklm", "hkey_users"}
         /\ \A p \in RunKeys(A) : IsPrefix(p, q) => p = q
         /\ \A a \in Accounts : IsPrefix(HiveOf(a), q) => a \in A
         /\ \A a \in Accounts : ~IsPrefix(ProfileOf(a), q)
<1> DEFINE one == <<"hklm", "run">>
           other == <<"hklm", "wow6432node", "run">>
<1>1. /\ one \in Seq(Names) /\ Len(one) = 2 /\ one[1] = "hklm" /\ one[2] = "run"
      /\ other \in Seq(Names) /\ Len(other) = 3 /\ other[1] = "hklm" /\ other[2] = "wow6432node"
  BY PlacesForAll
<1>2. \A p : p \in RunKeys(A) <=> p \in {one, other} \/ \E a \in A : p = RunKeyOf(a)
  BY DEF RunKeys, RunKeyOf
<1> HIDE DEF one, other
<1>3. ASSUME NEW p \in RunKeys(A)
      PROVE  /\ p \in Seq(Names)
             /\ \/ p = one /\ Len(p) = 2 /\ p[1] = "hklm" /\ p[2] = "run"
                \/ p = other /\ Len(p) = 3 /\ p[1] = "hklm" /\ p[2] = "wow6432node"
                \/ \E a \in A : p = RunKeyOf(a) /\ Len(p) = 3 /\ p[1] = "hkey_users" /\ p[2] = a
  BY <1>1, <1>2, <1>3, PlacesByName
<1>4. ASSUME NEW p \in RunKeys(A), IsPrefix(p, q) PROVE p = q
  <2>1. p \in Seq(Names) /\ q \in Seq(Names)
    BY <1>3
  <2>2. /\ Len(p) <= Len(q) /\ \A i \in 1 .. Len(p) : p[i] = q[i]
        /\ Len(p) = Len(q) => p = q
    BY <1>4, <2>1, PlaceInside
  <2>3. Len(p) \in {2, 3} /\ Len(q) \in {2, 3}
    BY <1>3
  <2>4. p[1] = q[1] /\ p[2] = q[2]
    BY <2>2, <2>3
  <2> QED BY <1>3, <2>2, <2>3, <2>4
<1>5. ASSUME NEW a \in Accounts, IsPrefix(HiveOf(a), q) PROVE a \in A
  <2>1. /\ HiveOf(a) \in Seq(Names) /\ Len(HiveOf(a)) = 2
        /\ HiveOf(a)[1] = "hkey_users" /\ HiveOf(a)[2] = a
    BY PlacesByName
  <2>2. q \in Seq(Names)
    BY <1>3
  <2>3. q[1] = HiveOf(a)[1] /\ q[2] = HiveOf(a)[2]
    <3>1. \A i \in 1 .. Len(HiveOf(a)) : HiveOf(a)[i] = q[i]
      BY <1>5, <2>1, <2>2, PlaceInside
    <3>2. 1 \in 1 .. Len(HiveOf(a)) /\ 2 \in 1 .. Len(HiveOf(a))
      BY <2>1
    <3> QED BY <3>1, <3>2
  <2>4. q[1] = "hkey_users" /\ q[2] = a
    BY <2>1, <2>3
  <2> QED BY <1>3, <2>4
<1>6. ASSUME NEW a \in Accounts, IsPrefix(ProfileOf(a), q) PROVE FALSE
  <2>1. q[1] = "c:"
    BY <1>3, <1>6, PlacesByName, PlaceInside
  <2> QED BY <1>3, <2>1
<1> QED BY <1>3, <1>4, <1>5, <1>6

LEMMA FoldersApart ==
  ASSUME NEW A \in SUBSET Accounts, NEW q \in StartupFolders(A)
  PROVE  /\ q \in Seq(Names) /\ q[1] = "c:"
         /\ \A p \in StartupFolders(A) : IsPrefix(p, q) => p = q
         /\ \A a \in Accounts : ~IsPrefix(HiveOf(a), q)
         /\ \A a \in Accounts : IsPrefix(ProfileOf(a), q) => a \in A
<1> DEFINE every == <<"c:", "programdata", "startup">>
<1>1. every \in Seq(Names) /\ Len(every) = 3 /\ every[1] = "c:" /\ every[2] = "programdata"
  BY PlacesForAll
<1>2. \A p : p \in StartupFolders(A) <=> p = every \/ \E a \in A : p = StartupOf(a)
  BY DEF StartupFolders, StartupOf
<1> HIDE DEF every
<1>3. ASSUME NEW p \in StartupFolders(A)
      PROVE  /\ p \in Seq(Names)
             /\ \/ p = every /\ Len(p) = 3 /\ p[1] = "c:" /\ p[2] = "programdata"
                \/ \E a \in A : /\ p = StartupOf(a) /\ Len(p) = 4
                                /\ p[1] = "c:" /\ p[2] = "users" /\ p[3] = a
  BY <1>1, <1>2, <1>3, PlacesByName
<1>4. ASSUME NEW p \in StartupFolders(A), IsPrefix(p, q) PROVE p = q
  <2>1. p \in Seq(Names) /\ q \in Seq(Names)
    BY <1>3
  <2>2. /\ Len(p) <= Len(q) /\ \A i \in 1 .. Len(p) : p[i] = q[i]
        /\ Len(p) = Len(q) => p = q
    BY <1>4, <2>1, PlaceInside
  <2>3. Len(p) \in {3, 4} /\ Len(q) \in {3, 4}
    BY <1>3
  <2>4. p[2] = q[2]
    BY <2>2, <2>3
  <2> QED BY <1>3, <2>2, <2>3, <2>4
<1>5. ASSUME NEW a \in Accounts, IsPrefix(HiveOf(a), q) PROVE FALSE
  <2>1. q[1] = "hkey_users"
    BY <1>3, <1>5, PlacesByName, PlaceInside
  <2> QED BY <1>3, <2>1
<1>6. ASSUME NEW a \in Accounts, IsPrefix(ProfileOf(a), q) PROVE a \in A
  <2>1. q[2] = "users" /\ q[3] = a
    BY <1>3, <1>6, PlacesByName, PlaceInside
  <2> QED BY <1>3, <2>1
<1> QED BY <1>3, <1>4, <1>5, <1>6

\* What a collection says it saw and did not see, source by source.
LEMMA Collected ==
  ASSUME NEW m \in Sitting
  PROVE  LET gained == CollectAnchors(m)
             A == SignedInUsers(m)
         IN /\ A \in SUBSET Accounts
            /\ \A t : t \in gained.seen <=>
                 \/ \E s \in {ReadRunKeys(m), ReadStartupFolders(m), ReadServices(m), ReadScheduledTasks(m)} :
                      t \in s.seen
                 \/ t \in Administrators(m).seen
            /\ \A g : g \in gained.gaps <=>
                 \/ \E s \in {ReadRunKeys(m), ReadStartupFolders(m), ReadServices(m), ReadScheduledTasks(m)} :
                      g \in s.gaps
                 \/ g \in Administrators(m).gaps
                 \/ g \in ProfilesNotExamined(m)
<1>1. SignedInUsers(m) \in SUBSET Accounts
  BY DEF Sitting, SignedInUsers
<1> HIDE DEF Sitting
<1> QED BY <1>1 DEF CollectAnchors, SurveyFor

\* A thing is covered by a gap of its kind, everywhere or around it.
LEMMA CoveredBy ==
  ASSUME NEW kinds, NEW scopes, NEW sort \in kinds, NEW scope,
         scopes = {} \/ \E s \in scopes : IsPrefix(s, scope)
  PROVE  GapCovers(Within(kinds, scopes), Thing(sort, scope))
BY DEF GapCovers, Within, Thing

\* A place of the accounts looked at was read, was not read, or is not there.
LEMMA PlaceIsRead ==
  ASSUME NEW sort, NEW places, NEW m, NEW p \in places, p \notin m.absent, IsPrefix(p, p)
  PROVE  \/ Thing(sort, p) \in ReadPlaces(sort, places, m).seen
         \/ \E g \in ReadPlaces(sort, places, m).gaps : GapCovers(g, Thing(sort, p))
<1>1. CASE p \in m.failed
  <2>1. Within({sort}, {p}) \in ReadPlaces(sort, places, m).gaps
    BY <1>1 DEF ReadPlaces
  <2>2. GapCovers(Within({sort}, {p}), Thing(sort, p))
    BY CoveredBy
  <2> QED BY <2>1, <2>2
<1>2. CASE p \notin m.failed
  BY <1>2 DEF ReadPlaces
<1> QED BY <1>1, <1>2

\* Of an account that was not looked at the hive is covered, and the profile
\* unless its path does not read.
LEMMA NotLookedAt ==
  ASSUME NEW m \in Sitting, NEW a \in Accounts, a \notin SignedInUsers(m)
  PROVE  /\ \E g \in ProfilesNotExamined(m) : GapCovers(g, Thing("run-key", RunKeyOf(a)))
         /\ \/ a \in m.pathless
            \/ \E g \in ProfilesNotExamined(m) : GapCovers(g, Thing("startup-item", StartupOf(a)))
<1>1. CASE m.profileList # "whole"
  BY <1>1 DEF ProfilesNotExamined, Of, GapCovers, Thing, PerAccountKinds
<1>2. CASE m.profileList = "whole"
  <2> DEFINE examined == SignedInUsers(m)
             listed == {[account |-> b, wreck |-> FALSE] : b \in Accounts}
                         \cup {[account |-> b, wreck |-> TRUE] : b \in m.wrecks}
             missed == {s \in listed : ~s.wreck /\ s.account \notin examined}
             profiles == {ProfileOf(s.account) : s \in {x \in missed : x.account \notin m.pathless}}
             scopes == {HiveOf(s.account) : s \in missed} \cup (profiles \ {ProfileOf(b) : b \in examined})
             me == [account |-> a, wreck |-> FALSE]
  <2>1. me \in missed /\ me.account = a
    OBVIOUS
  <2>2. ProfilesNotExamined(m) = {Within(PerAccountKinds, scopes)}
    BY <1>2, <2>1 DEF ProfilesNotExamined
  <2>3. HiveOf(a) \in scopes
    BY <2>1
  <2>4. a \in m.pathless \/ ProfileOf(a) \in scopes
    <3> SUFFICES ASSUME a \notin m.pathless PROVE ProfileOf(a) \in scopes
      OBVIOUS
    <3>1. ProfileOf(a) \in profiles
      BY <2>1
    <3>2. \A b \in examined : ProfileOf(b) # ProfileOf(a)
      <4>1. examined \in SUBSET Accounts /\ a \notin examined
        BY Collected
      <4> HIDE DEF examined
      <4>2. ASSUME NEW b \in examined, ProfileOf(b) = ProfileOf(a) PROVE FALSE
        <5>1. ProfileOf(b)[3] = b /\ ProfileOf(a)[3] = a
          BY <4>1, PlacesByName
        <5> QED BY <4>1, <4>2, <5>1
      <4> QED BY <4>2
    <3> HIDE DEF profiles
    <3> QED BY <3>1, <3>2
  <2>5. IsPrefix(HiveOf(a), RunKeyOf(a)) /\ IsPrefix(ProfileOf(a), StartupOf(a))
    <3>1. /\ Len(HiveOf(a)) <= Len(RunKeyOf(a)) /\ \A i \in 1 .. Len(HiveOf(a)) : HiveOf(a)[i] = RunKeyOf(a)[i]
          /\ Len(ProfileOf(a)) <= Len(StartupOf(a))
          /\ \A i \in 1 .. Len(ProfileOf(a)) : ProfileOf(a)[i] = StartupOf(a)[i]
      BY PlacesByName, SMTT(30)
    <3> QED BY <3>1, PlacesByName, PrefixIs
  <2> HIDE DEF scopes
  <2>6. "run-key" \in PerAccountKinds /\ "startup-item" \in PerAccountKinds
    BY DEF PerAccountKinds
  <2> QED BY <2>2, <2>3, <2>4, <2>5, <2>6, CoveredBy
<1> QED BY <1>1, <1>2

LEMMA AbsenceLooked ==
  ASSUME NEW m \in Sitting
  PROVE  GoneMeansLooked(m)
<1> DEFINE gained == CollectAnchors(m)
           A == SignedInUsers(m)
<1>1. A \in SUBSET Accounts
  BY Collected
<1>2. /\ \A t : t \in ReadRunKeys(m).seen \/ t \in ReadStartupFolders(m).seen \/ t \in ReadServices(m).seen
              \/ t \in ReadScheduledTasks(m).seen \/ t \in Administrators(m).seen => t \in gained.seen
      /\ \A g : g \in ReadRunKeys(m).gaps \/ g \in ReadStartupFolders(m).gaps \/ g \in ReadServices(m).gaps
              \/ g \in ReadScheduledTasks(m).gaps \/ g \in Administrators(m).gaps
              \/ g \in ProfilesNotExamined(m) => g \in gained.gaps
  BY Collected, Zenon
<1> HIDE DEF gained, A
<1> DEFINE Known(t) == t \in gained.seen \/ \E g \in gained.gaps : GapCovers(g, t)
<1>3. ASSUME NEW k \in RunKeys(Accounts) \ m.absent PROVE Known(Thing("run-key", k))
  <2>1. CASE k \in RunKeys(A)
    <3>1. IsPrefix(k, k)
      BY <1>1, <2>1, KeysApart, PlaceInside
    <3>2. \/ Thing("run-key", k) \in ReadRunKeys(m).seen
          \/ \E g \in ReadRunKeys(m).gaps : GapCovers(g, Thing("run-key", k))
      BY <1>3, <2>1, <3>1, PlaceIsRead DEF ReadRunKeys, A
    <3> QED BY <1>2, <3>2
  <2>2. CASE k \notin RunKeys(A)
    <3>1. PICK a \in Accounts : a \notin A /\ k = RunKeyOf(a)
      BY <1>3, <2>2 DEF RunKeys, RunKeyOf
    <3>2. \E g \in ProfilesNotExamined(m) : GapCovers(g, Thing("run-key", k))
      BY <3>1, NotLookedAt DEF A
    <3> QED BY <1>2, <3>2
  <2> QED BY <2>1, <2>2
<1>4. ASSUME NEW f \in StartupFolders(Accounts) \ m.absent
      PROVE  \/ Known(Thing("startup-item", f))
             \/ \E a \in m.pathless : IsPrefix(ProfileOf(a), f)
  <2>1. IsPrefix(f, f)
    BY FoldersApart, PlaceInside
  <2> DEFINE learnt == IF m.programData THEN StartupFolders(A) ELSE StartupFolders(A) \ StartupFolders({})
             read == ReadPlaces("startup-item", learnt, m)
  <2>2. ReadStartupFolders(m) = [read EXCEPT !.gaps = @ \cup (IF m.programData THEN {} ELSE {Of({"startup-item"})})]
    BY DEF ReadStartupFolders, A
  <2>3. /\ ReadStartupFolders(m).seen = read.seen
        /\ ReadStartupFolders(m).gaps = read.gaps \cup (IF m.programData THEN {} ELSE {Of({"startup-item"})})
    BY <2>2 DEF ReadPlaces
  <2>4. CASE f \in learnt
    <3> HIDE DEF learnt
    <3>1. \/ Thing("startup-item", f) \in read.seen
          \/ \E g \in read.gaps : GapCovers(g, Thing("startup-item", f))
      BY <1>4, <2>1, <2>4, PlaceIsRead
    <3> QED BY <1>2, <2>3, <3>1
  <2>5. CASE ~m.programData
    <3>1. GapCovers(Of({"startup-item"}), Thing("startup-item", f))
      BY DEF GapCovers, Of, Thing
    <3> HIDE DEF learnt, read
    <3> QED BY <1>2, <2>3, <2>5, <3>1
  <2>6. CASE m.programData /\ f \notin learnt
    <3>1. f \notin StartupFolders(A)
      BY <2>6
    <3>2. PICK a \in Accounts : a \notin A /\ f = StartupOf(a)
      BY <1>4, <3>1 DEF StartupFolders, StartupOf
    <3>3. \/ a \in m.pathless
          \/ \E g \in ProfilesNotExamined(m) : GapCovers(g, Thing("startup-item", f))
      BY <3>2, NotLookedAt DEF A
    <3>4. IsPrefix(ProfileOf(a), f)
      <4>1. /\ Len(ProfileOf(a)) <= Len(StartupOf(a))
            /\ \A i \in 1 .. Len(ProfileOf(a)) : ProfileOf(a)[i] = StartupOf(a)[i]
        BY PlacesByName
      <4> QED BY <3>2, <4>1, PlacesByName, PrefixIs
    <3> QED BY <1>2, <3>3, <3>4
  <2> QED BY <2>4, <2>5, <2>6
<1>5. ASSUME NEW s \in ServiceKeys PROVE Known(Thing("service", s)) \/ s \in m.absent
  <2>1. CASE <<"services">> \in m.failed
    <3>1. Of({"service"}) \in ReadServices(m).gaps /\ GapCovers(Of({"service"}), Thing("service", s))
      BY <2>1 DEF ReadServices, GapCovers, Of, Thing
    <3> QED BY <1>2, <3>1
  <2>2. CASE <<"services">> \notin m.failed
    <3>1. IsPrefix(s, s)
      <4> DEFINE S == {"services", "backup", "printer"}
      <4>1. s \in Seq(S)
        <5>1. <<"services", "backup">> \in Seq(S) /\ <<"services", "printer">> \in Seq(S)
          OBVIOUS
        <5> HIDE DEF S
        <5> QED BY <5>1 DEF ServiceKeys
      <4> HIDE DEF S
      <4> QED BY <4>1, PrefixIs
    <3>2. ReadServices(m) = ReadPlaces("service", ServiceKeys, m)
      BY <2>2 DEF ReadServices
    <3>3. \/ s \in m.absent
          \/ Thing("service", s) \in ReadPlaces("service", ServiceKeys, m).seen
          \/ \E g \in ReadPlaces("service", ServiceKeys, m).gaps : GapCovers(g, Thing("service", s))
      BY <3>1, PlaceIsRead
    <3> QED BY <1>2, <3>2, <3>3
  <2> QED BY <2>1, <2>2
<1>6. ASSUME NEW t \in TaskFiles PROVE Known(Thing("task", t))
  <2> DEFINE missed == {f \in m.failed : f[1] = "tasks"}
  <2>1. /\ ReadScheduledTasks(m).seen = {Thing("task", x) : x \in {y \in TaskFiles : ~\E f \in missed : IsPrefix(f, y)}}
        /\ ReadScheduledTasks(m).gaps = IF missed = {} THEN {} ELSE {Within({"task"}, missed)}
    BY DEF ReadScheduledTasks
  <2> HIDE DEF missed
  <2>2. CASE \E f \in missed : IsPrefix(f, t)
    <3>1. Within({"task"}, missed) \in ReadScheduledTasks(m).gaps
      BY <2>1, <2>2
    <3>2. GapCovers(Within({"task"}, missed), Thing("task", t))
      BY <2>2, CoveredBy
    <3> QED BY <1>2, <3>1, <3>2
  <2>3. CASE ~\E f \in missed : IsPrefix(f, t)
    <3>1. Thing("task", t) \in ReadScheduledTasks(m).seen
      BY <2>1, <2>3
    <3> QED BY <1>2, <3>1
  <2> QED BY <2>2, <2>3
<1>7. Known(Thing("administrator", <<"machine">>))
  <2>1. CASE <<"machine">> \in m.failed
    <3>1. Of({"administrator"}) \in Administrators(m).gaps
          /\ GapCovers(Of({"administrator"}), Thing("administrator", <<"machine">>))
      BY <2>1 DEF Administrators, GapCovers, Of, Thing
    <3> QED BY <1>2, <3>1
  <2>2. CASE <<"machine">> \notin m.failed
    <3>1. Thing("administrator", <<"machine">>) \in Administrators(m).seen
      BY <2>2 DEF Administrators
    <3> QED BY <1>2, <3>1
  <2> QED BY <2>1, <2>2
<1>8. \A s \in ServiceKeys : s \notin m.absent
  <2>1. m.absent \subseteq RunKeys(Accounts) \cup StartupFolders(Accounts)
    BY DEF Sitting
  <2>2. \A q \in m.absent : q[1] \in {"hklm", "hkey_users", "c:"}
    BY <2>1, KeysApart, FoldersApart
  <2>3. \A s \in ServiceKeys : s[1] = "services"
    BY DEF ServiceKeys
  <2> QED BY <2>2, <2>3
<1> HIDE DEF Known
<1>9. ASSUME NEW t \in Things(m)
      PROVE  \/ Known(t)
             \/ t.kind = "startup-item" /\ \E a \in m.pathless : IsPrefix(ProfileOf(a), t.scope)
  <2>1. CASE \E k \in RunKeys(Accounts) \ m.absent : t = Thing("run-key", k)
    BY <1>3, <2>1
  <2>2. CASE \E f \in StartupFolders(Accounts) \ m.absent : t = Thing("startup-item", f)
    <3>1. PICK f \in StartupFolders(Accounts) \ m.absent : t = Thing("startup-item", f)
      BY <2>2
    <3>2. t.kind = "startup-item" /\ t.scope = f
      BY <3>1 DEF Thing
    <3> QED BY <1>4, <3>1, <3>2
  <2>3. CASE \E s \in ServiceKeys : t = Thing("service", s)
    BY <1>5, <1>8, <2>3
  <2>4. CASE \E f \in TaskFiles : t = Thing("task", f)
    BY <1>6, <2>4
  <2>5. CASE t = Thing("administrator", <<"machine">>)
    BY <1>7, <2>5
  <2> QED BY <2>1, <2>2, <2>3, <2>4, <2>5 DEF Things
<1> QED BY <1>9 DEF GoneMeansLooked, Known, gained

LEMMA GapsNoFurther ==
  ASSUME NEW m \in Sitting
  PROVE  GapsReachNoFurther(m)
<1> DEFINE gained == CollectAnchors(m)
           A == SignedInUsers(m)
           KeyGaps == ReadRunKeys(m).gaps
           FolderGaps == ReadStartupFolders(m).gaps
           ServiceGaps == ReadServices(m).gaps
           TaskGaps == ReadScheduledTasks(m).gaps
           Excused(t) == \/ t.kind \in PerAccountKinds /\ m.profileList # "whole"
                         \/ t.kind = "startup-item" /\ ~m.programData
<1>1. /\ A \in SUBSET Accounts
      /\ \A t \in gained.seen :
           \/ t \in ReadRunKeys(m).seen \/ t \in ReadStartupFolders(m).seen \/ t \in ReadServices(m).seen
           \/ t \in ReadScheduledTasks(m).seen \/ t \in Administrators(m).seen
      /\ \A g \in gained.gaps :
           \/ g \in KeyGaps \/ g \in FolderGaps \/ g \in ServiceGaps
           \/ g \in TaskGaps \/ g \in Administrators(m).gaps \/ g \in ProfilesNotExamined(m)
  BY Collected, Zenon
<1> DEFINE learnt == IF m.programData THEN StartupFolders(A) ELSE StartupFolders(A) \ StartupFolders({})
<1>2. /\ \A t \in ReadRunKeys(m).seen : \E k \in RunKeys(A) \ m.failed : t = Thing("run-key", k)
      /\ \A g \in KeyGaps : \E k \in RunKeys(A) \cap m.failed : g = Within({"run-key"}, {k})
  BY DEF ReadRunKeys, ReadPlaces
<1>3. /\ \A t \in ReadStartupFolders(m).seen : \E f \in StartupFolders(A) \ m.failed : t = Thing("startup-item", f)
      /\ \A g \in FolderGaps : \/ g = Of({"startup-item"}) /\ ~m.programData
                               \/ \E f \in StartupFolders(A) \cap m.failed : g = Within({"startup-item"}, {f})
  <2> DEFINE read == ReadPlaces("startup-item", learnt, m)
  <2>1. ReadStartupFolders(m) = [read EXCEPT !.gaps = @ \cup (IF m.programData THEN {} ELSE {Of({"startup-item"})})]
    BY DEF ReadStartupFolders
  <2>2. /\ ReadStartupFolders(m).seen = read.seen
        /\ FolderGaps = read.gaps \cup (IF m.programData THEN {} ELSE {Of({"startup-item"})})
    BY <2>1 DEF ReadPlaces
  <2>3. learnt \subseteq StartupFolders(A)
    OBVIOUS
  <2> HIDE DEF learnt, A
  <2>4. /\ read.seen = {Thing("startup-item", p) : p \in learnt \ (m.failed \cup m.absent)}
        /\ read.gaps = {Within({"startup-item"}, {p}) : p \in learnt \cap (m.failed \ m.absent)}
    BY DEF ReadPlaces
  <2> HIDE DEF read
  <2> QED BY <2>2, <2>3, <2>4
<1>4. /\ \A t \in ReadServices(m).seen :
           /\ <<"services">> \notin m.failed
           /\ \E s \in ServiceKeys \ m.failed : t = Thing("service", s)
      /\ \A g \in ServiceGaps : \/ g = Of({"service"}) /\ <<"services">> \in m.failed
                                \/ \E s \in ServiceKeys \cap m.failed : g = Within({"service"}, {s})
  BY DEF ReadServices, ReadPlaces
<1> DEFINE missed == {f \in m.failed : f[1] = "tasks"}
<1>5. /\ \A t \in ReadScheduledTasks(m).seen :
           \E x \in TaskFiles : t = Thing("task", x) /\ ~\E f \in missed : IsPrefix(f, x)
      /\ \A g \in TaskGaps : missed # {} /\ g = Within({"task"}, missed)
  BY DEF ReadScheduledTasks
<1>6. /\ \A t \in Administrators(m).seen : t = Thing("administrator", <<"machine">>) /\ <<"machine">> \notin m.failed
      /\ \A g \in Administrators(m).gaps : g = Of({"administrator"}) /\ <<"machine">> \in m.failed
  BY DEF Administrators
<1>7. \A g \in ProfilesNotExamined(m) :
        /\ g.kinds = PerAccountKinds
        /\ m.profileList = "whole" =>
             /\ g.scopes # {}
             /\ \A s \in g.scopes : \/ \E b \in Accounts \ A : s = HiveOf(b)
                                   \/ \E b \in Accounts \ A : s = ProfileOf(b)
  <2> SUFFICES ASSUME NEW g \in ProfilesNotExamined(m)
               PROVE  /\ g.kinds = PerAccountKinds
                      /\ m.profileList = "whole" =>
                           /\ g.scopes # {}
                           /\ \A s \in g.scopes : \/ \E b \in Accounts \ A : s = HiveOf(b)
                                                 \/ \E b \in Accounts \ A : s = ProfileOf(b)
    OBVIOUS
  <2>1. CASE m.profileList # "whole"
    BY <2>1 DEF ProfilesNotExamined, Of
  <2>2. CASE m.profileList = "whole"
    <3> DEFINE listed == {[account |-> b, wreck |-> FALSE] : b \in Accounts}
                           \cup {[account |-> b, wreck |-> TRUE] : b \in m.wrecks}
               lost == {s \in listed : ~s.wreck /\ s.account \notin A}
               profiles == {ProfileOf(s.account) : s \in {x \in lost : x.account \notin m.pathless}}
               scopes == {HiveOf(s.account) : s \in lost} \cup (profiles \ {ProfileOf(b) : b \in A})
    <3>1. \A s \in lost : s.account \in Accounts \ A
      <4> SUFFICES ASSUME NEW s \in lost PROVE s.account \in Accounts \ A
        OBVIOUS
      <4>1. s \in listed /\ ~s.wreck /\ s.account \notin A
        OBVIOUS
      <4>2. CASE \E b \in Accounts : s = [account |-> b, wreck |-> FALSE]
        <5> HIDE DEF lost, listed
        <5> QED BY <4>1, <4>2
      <4>3. CASE \E b \in m.wrecks : s = [account |-> b, wreck |-> TRUE]
        <5> HIDE DEF lost, listed
        <5>1. s.wreck = TRUE
          BY <4>3
        <5> QED BY <4>1, <5>1
      <4> QED BY <4>1, <4>2, <4>3
    <3>2. lost # {} /\ g = Within(PerAccountKinds, scopes)
      BY <2>2 DEF ProfilesNotExamined
    <3> HIDE DEF lost
    <3>3. scopes # {}
      BY <3>2
    <3>4. \A s \in scopes : \/ \E b \in Accounts \ A : s = HiveOf(b)
                          \/ \E b \in Accounts \ A : s = ProfileOf(b)
      <4> HIDE DEF A
      <4> QED BY <3>1
    <3> HIDE DEF scopes, A
    <3> QED BY <3>2, <3>3, <3>4 DEF Within
  <2> QED BY <2>1, <2>2
<1> SUFFICES ASSUME NEW t \in gained.seen, NEW g \in gained.gaps, GapCovers(g, t) PROVE Excused(t)
  BY DEF GapsReachNoFurther
<1>8. t.kind \in g.kinds /\ (g.scopes = {} \/ \E s \in g.scopes : IsPrefix(s, t.scope))
  BY DEF GapCovers
<1> HIDE DEF gained, A, KeyGaps, FolderGaps, ServiceGaps, TaskGaps, missed, learnt
<1>9. CASE t \in ReadRunKeys(m).seen
  <2>1. PICK k \in RunKeys(A) \ m.failed : t = Thing("run-key", k)
    BY <1>2, <1>9
  <2>2. t.kind = "run-key" /\ t.scope = k
    BY <2>1 DEF Thing
  <2>3. CASE g \in KeyGaps
    <3>1. PICK p \in RunKeys(A) \cap m.failed : g = Within({"run-key"}, {p})
      BY <1>2, <2>3
    <3>2. IsPrefix(p, k)
      BY <1>8, <2>2, <3>1 DEF Within
    <3> QED BY <1>1, <2>1, <3>1, <3>2, KeysApart
  <2>4. CASE g \in ProfilesNotExamined(m)
    <3>1. CASE m.profileList # "whole"
      BY <2>2, <3>1 DEF PerAccountKinds
    <3>2. CASE m.profileList = "whole"
      <4>1. PICK b \in Accounts \ A : IsPrefix(HiveOf(b), k) \/ IsPrefix(ProfileOf(b), k)
        BY <1>7, <1>8, <2>2, <2>4, <3>2
      <4> QED BY <1>1, <2>1, <4>1, KeysApart
    <3> QED BY <3>1, <3>2
  <2>5. CASE g \notin KeyGaps /\ g \notin ProfilesNotExamined(m)
    <3>1. "run-key" \notin g.kinds
      BY <1>1, <1>3, <1>4, <1>5, <1>6, <2>5 DEF Of, Within
    <3> QED BY <1>8, <2>2, <3>1
  <2> QED BY <2>3, <2>4, <2>5
<1>10. CASE t \in ReadStartupFolders(m).seen
  <2>1. PICK k \in StartupFolders(A) \ m.failed : t = Thing("startup-item", k)
    BY <1>3, <1>10
  <2>2. t.kind = "startup-item" /\ t.scope = k
    BY <2>1 DEF Thing
  <2>3. CASE g \in FolderGaps
    <3>1. CASE ~m.programData
      BY <2>2, <3>1
    <3>2. CASE m.programData
      <4>1. PICK p \in StartupFolders(A) \cap m.failed : g = Within({"startup-item"}, {p})
        BY <1>3, <2>3, <3>2
      <4>2. IsPrefix(p, k)
        BY <1>8, <2>2, <4>1 DEF Within
      <4> QED BY <1>1, <2>1, <4>1, <4>2, FoldersApart
    <3> QED BY <3>1, <3>2
  <2>4. CASE g \in ProfilesNotExamined(m)
    <3>1. CASE m.profileList # "whole"
      BY <2>2, <3>1 DEF PerAccountKinds
    <3>2. CASE m.profileList = "whole"
      <4>1. PICK b \in Accounts \ A : IsPrefix(HiveOf(b), k) \/ IsPrefix(ProfileOf(b), k)
        BY <1>7, <1>8, <2>2, <2>4, <3>2
      <4> QED BY <1>1, <2>1, <4>1, FoldersApart
    <3> QED BY <3>1, <3>2
  <2>5. CASE g \notin FolderGaps /\ g \notin ProfilesNotExamined(m)
    <3>1. "startup-item" \notin g.kinds
      BY <1>1, <1>2, <1>4, <1>5, <1>6, <2>5 DEF Of, Within
    <3> QED BY <1>8, <2>2, <3>1
  <2> QED BY <2>3, <2>4, <2>5
<1>11. CASE t \in ReadServices(m).seen
  <2>1. PICK k \in ServiceKeys \ m.failed : t = Thing("service", k)
    BY <1>4, <1>11
  <2>2. t.kind = "service" /\ t.scope = k
    BY <2>1 DEF Thing
  <2>3. CASE g \in ServiceGaps
    <3>1. PICK p \in ServiceKeys \cap m.failed : g = Within({"service"}, {p})
      BY <1>4, <1>11, <2>3
    <3>2. IsPrefix(p, k)
      BY <1>8, <2>2, <3>1 DEF Within
    <3>3. p = k
      <4> DEFINE S == {"services", "backup", "printer"}
      <4>1. /\ <<"services", "backup">> \in Seq(S) /\ Len(<<"services", "backup">>) = 2
            /\ <<"services", "printer">> \in Seq(S) /\ Len(<<"services", "printer">>) = 2
        OBVIOUS
      <4> HIDE DEF S
      <4>2. /\ p \in Seq(S) /\ Len(p) = 2 /\ k \in Seq(S) /\ Len(k) = 2
        BY <2>1, <3>1, <4>1 DEF ServiceKeys
      <4> QED BY <3>2, <4>2, PrefixOfSameLength
    <3> QED BY <2>1, <3>1, <3>3
  <2>4. CASE g \notin ServiceGaps
    <3>1. "service" \notin g.kinds
      BY <1>1, <1>2, <1>3, <1>5, <1>6, <1>7, <2>4 DEF Of, Within, PerAccountKinds
    <3> QED BY <1>8, <2>2, <3>1
  <2> QED BY <2>3, <2>4
<1>12. CASE t \in ReadScheduledTasks(m).seen
  <2>1. PICK x \in TaskFiles : t = Thing("task", x) /\ ~\E f \in missed : IsPrefix(f, x)
    BY <1>5, <1>12
  <2>2. t.kind = "task" /\ t.scope = x
    BY <2>1 DEF Thing
  <2>3. CASE g \in TaskGaps
    BY <1>5, <1>8, <2>1, <2>2, <2>3 DEF Within
  <2>4. CASE g \notin TaskGaps
    <3>1. "task" \notin g.kinds
      BY <1>1, <1>2, <1>3, <1>4, <1>6, <1>7, <2>4 DEF Of, Within, PerAccountKinds
    <3> QED BY <1>8, <2>2, <3>1
  <2> QED BY <2>3, <2>4
<1>13. CASE t \in Administrators(m).seen
  <2>1. t.kind = "administrator" /\ <<"machine">> \notin m.failed
    BY <1>6, <1>13 DEF Thing
  <2>2. "administrator" \notin g.kinds
    BY <1>1, <1>2, <1>3, <1>4, <1>5, <1>6, <1>7, <2>1 DEF Of, Within, PerAccountKinds
  <2> QED BY <1>8, <2>1, <2>2
<1> QED BY <1>1, <1>9, <1>10, <1>11, <1>12, <1>13

-----------------------------------------------------------------------------
(* The search for duplicates.                                                *)

Alike(V, k, x) == {v \in V : k[v] = k[x]}

\* Files of one key are in one group of collisions, and only they.
GroupsAre(V, k) ==
  /\ \A g \in KeepCollisions(V, k) :
       /\ g \subseteq V /\ g # {}
       /\ \A x \in g, y \in V : k[x] = k[y] <=> y \in g
  /\ \A x, y \in V : x # y /\ k[x] = k[y] => Alike(V, k, x) \in KeepCollisions(V, k)
  /\ \A g \in KeepCollisions(V, k) : \A x \in g : g = Alike(V, k, x)

LEMMA CollisionsAre ==
  ASSUME NEW V \in SUBSET Files, NEW k
  PROVE  GroupsAre(V, k)
<1>1. ASSUME NEW g \in KeepCollisions(V, k)
      PROVE  /\ g \subseteq V /\ g # {}
             /\ \A x \in g, y \in V : k[x] = k[y] <=> y \in g
             /\ \A x \in g : g = Alike(V, k, x)
  BY DEF KeepCollisions, Alike
<1>2. ASSUME NEW x \in V, NEW y \in V, x # y, k[x] = k[y]
      PROVE  Alike(V, k, x) \in KeepCollisions(V, k)
  <2> DEFINE g == {v \in V : k[v] = k[x]}
  <2>1. IsFiniteSet(g)
    BY SearchAssumption, FS_Subset
  <2>2. Cardinality({x, y}) = 2 /\ {x, y} \in SUBSET g
    <3>1. Cardinality({x}) = 1 /\ IsFiniteSet({x})
      BY FS_Singleton
    <3>2. Cardinality({x} \cup {y}) = 2
      BY <1>2, <3>1, FS_AddElement
    <3>3. {x} \cup {y} = {x, y}
      OBVIOUS
    <3> QED BY <1>2, <3>2, <3>3
  <2> HIDE DEF g
  <2>3. Cardinality(g) > 1
    <3>1. Cardinality({x, y}) <= Cardinality(g) /\ Cardinality(g) \in Nat
      BY <2>1, <2>2, FS_Subset, FS_CardinalityType
    <3> QED BY <2>2, <3>1
  <2>4. g \in {{v \in V : k[v] = k[w]} : w \in V}
    BY DEF g
  <2> QED BY <2>3, <2>4 DEF KeepCollisions, Alike, g
<1> QED BY <1>1, <1>2 DEF GroupsAre

\* What is still to be read, per thread, is apart and whole; what is not is
\* among the sets found, and they are right.
Accounted(pend, c, lost, seen) ==
  /\ \A s, t \in Hashers : \A U \in pend[s], W \in pend[t] : U \cap W # {} => U = W /\ s = t
  /\ \A t \in Hashers : \A U \in pend[t] :
       /\ U \cap lost = {}
       /\ \A I \in seen : U \cap I = {}
       /\ \A x \in U, y \in Files \ lost : c[x] = c[y] => y \in U
  /\ \A x, y \in Files \ lost : x # y /\ c[x] = c[y] =>
       \/ \E t \in Hashers : \E U \in pend[t] : x \in U
       \/ Alike(Files \ lost, c, x) \in seen
  /\ seen \subseteq KeepCollisions(Files \ lost, c)

Units == SUBSET ((SUBSET Files) \ {{}})

\* A unit is read, losing some of it: what is left is split by a key that files
\* of one content share, or is judged by its content.
LEMMA UnitRead ==
  ASSUME NEW c, NEW pend \in [Hashers -> Units], NEW unreadNow \in SUBSET Files, NEW seen,
         Accounted(pend, c, unreadNow, seen),
         NEW t \in Hashers, NEW U \in pend[t], NEW lost \in SUBSET U, NEW new, NEW more,
         NEW mark, \A x, y \in Files : c[x] = c[y] => mark[x] = mark[y],
         \/ new = KeepCollisions(U \ lost, mark) /\ more = {}
         \/ new = {} /\ more = KeepCollisions(U \ lost, c)
  PROVE  Accounted([pend EXCEPT ![t] = (@ \ {U}) \cup new], c, unreadNow \cup lost, seen \cup more)
<1> DEFINE V == Files \ unreadNow
           W == Files \ (unreadNow \cup lost)
           rest == U \ lost
           next == [pend EXCEPT ![t] = (@ \ {U}) \cup new]
<1>1. /\ U \subseteq V /\ U # {}
      /\ \A s \in Hashers : \A X \in pend[s] :
           /\ X \subseteq V
           /\ X \cap U # {} => X = U /\ s = t
           /\ \A x \in X, y \in V : c[x] = c[y] => y \in X
      /\ \A I \in seen : U \cap I = {}
  BY DEF Accounted, Units
<1>2. /\ rest \in SUBSET Files /\ W \in SUBSET Files /\ V \in SUBSET Files /\ rest \subseteq W
      /\ rest = U \ lost /\ rest \subseteq U
  BY <1>1
<1>2a. /\ \/ new = KeepCollisions(rest, mark) /\ more = {}
          \/ new = {} /\ more = KeepCollisions(rest, c)
       /\ GroupsAre(rest, mark) /\ GroupsAre(rest, c) /\ GroupsAre(V, c)
  <2>1. \/ new = KeepCollisions(rest, mark) /\ more = {}
        \/ new = {} /\ more = KeepCollisions(rest, c)
    OBVIOUS
  <2> HIDE DEF rest, V
  <2> QED BY <1>2, <2>1, CollisionsAre
<1>3. \A X \in new : /\ X \subseteq rest /\ X # {}
                     /\ \A x \in X, y \in rest : mark[x] = mark[y] <=> y \in X
  <2> HIDE DEF rest, V, W
  <2> QED BY <1>2a DEF GroupsAre
<1>4. \A s \in Hashers : \A X \in next[s] : (X \in pend[s] /\ (s = t => X # U)) \/ (s = t /\ X \in new)
  OBVIOUS
<1>5. \A s \in Hashers : \A X \in pend[s] : (s = t => X # U) => X \in next[s]
  OBVIOUS
<1>6. new \subseteq next[t]
  OBVIOUS
<1> HIDE DEF next
<1>7. \A s \in Hashers : \A X \in pend[s] : (s = t => X # U) => X \cap U = {}
  BY <1>1
<1>8. ASSUME NEW s \in Hashers, NEW r \in Hashers, NEW X \in next[s], NEW Y \in next[r], X \cap Y # {}
      PROVE  X = Y /\ s = r
  <2>1. CASE X \in pend[s] /\ (s = t => X # U) /\ Y \in pend[r] /\ (r = t => Y # U)
    BY <1>8, <2>1 DEF Accounted
  <2>2. CASE s = t /\ X \in new /\ Y \in pend[r] /\ (r = t => Y # U)
    BY <1>3, <1>7, <1>8, <2>2
  <2>3. CASE r = t /\ Y \in new /\ X \in pend[s] /\ (s = t => X # U)
    BY <1>3, <1>7, <1>8, <2>3
  <2>4. CASE s = t /\ r = t /\ X \in new /\ Y \in new
    <3>1. PICK z : z \in X /\ z \in Y
      BY <1>8
    <3>2. \A y : y \in X <=> y \in Y
      BY <1>3, <2>4, <3>1
    <3> QED BY <2>4, <3>2
  <2> QED BY <1>4, <2>1, <2>2, <2>3, <2>4
<1>9. \A I \in more : I \subseteq rest /\ I \in KeepCollisions(W, c)
  <2> SUFFICES ASSUME NEW I \in more PROVE I \subseteq rest /\ I \in KeepCollisions(W, c)
    OBVIOUS
  <2>1. I \in KeepCollisions(rest, c)
    BY <1>2a DEF GroupsAre
  <2>2. I \subseteq rest /\ I # {} /\ \A x \in I : I = Alike(rest, c, x)
    <3> HIDE DEF rest, V, W
    <3> QED BY <1>2a, <2>1 DEF GroupsAre
  <2>3. PICK x \in I : TRUE
    BY <2>2
  <2>4. I = Alike(W, c, x)
    <3>1. \A v \in W : c[v] = c[x] => v \in rest
      BY <1>1, <2>2, <2>3
    <3> HIDE DEF W
    <3> QED BY <1>2, <2>2, <2>3, <3>1 DEF Alike
  <2>5. I \in {{v \in W : c[v] = c[w]} : w \in W} /\ Cardinality(I) > 1
    <3>1. x \in W
      BY <1>2, <2>2, <2>3
    <3>2. Cardinality(I) > 1
      BY <2>1 DEF KeepCollisions
    <3> HIDE DEF W
    <3> QED BY <2>4, <3>1, <3>2 DEF Alike
  <2> HIDE DEF W
  <2> QED BY <2>2, <2>5 DEF KeepCollisions
<1>10. ASSUME NEW s \in Hashers, NEW X \in next[s]
       PROVE  /\ X \cap (unreadNow \cup lost) = {}
              /\ \A I \in seen \cup more : X \cap I = {}
              /\ \A x \in X, y \in W : c[x] = c[y] => y \in X
  <2>1. CASE X \in pend[s] /\ (s = t => X # U)
    <3>1. X \cap U = {} /\ X \subseteq V /\ \A I \in seen : X \cap I = {}
      BY <1>1, <1>7, <2>1 DEF Accounted
    <3> QED BY <1>1, <1>9, <2>1, <3>1
  <2>2. CASE s = t /\ X \in new
    <3>1. X \subseteq rest /\ more = {}
      BY <1>3, <2>2
    <3>2. ASSUME NEW x \in X, NEW y \in W, c[x] = c[y] PROVE y \in X
      <4>1. y \in rest
        BY <1>1, <3>1, <3>2
      <4>2. x \in Files /\ y \in Files /\ x \in rest
        BY <1>2, <3>1, <4>1
      <4>3. mark[x] = mark[y]
        BY <3>2, <4>2
      <4> HIDE DEF rest
      <4> QED BY <1>3, <2>2, <4>1, <4>2, <4>3
    <3> QED BY <1>1, <3>1, <3>2
  <2> QED BY <1>4, <2>1, <2>2
<1>11. ASSUME NEW x \in W, NEW y \in W, x # y, c[x] = c[y]
       PROVE  \/ \E s \in Hashers : \E X \in next[s] : x \in X
              \/ Alike(W, c, x) \in seen \cup more
  <2>1. CASE x \in U
    <3>1. x \in rest /\ y \in rest
      BY <1>1, <1>11, <2>1
    <3>2. CASE new = KeepCollisions(rest, mark)
      <4>1. mark[x] = mark[y]
        BY <1>11
      <4>2. Alike(rest, mark, x) \in new
        <5> HIDE DEF rest, V, W
        <5> QED BY <1>11, <1>2a, <3>1, <3>2, <4>1 DEF GroupsAre
      <4>3. x \in Alike(rest, mark, x)
        BY <3>1 DEF Alike
      <4> QED BY <1>6, <4>2, <4>3
    <3>3. CASE more = KeepCollisions(rest, c)
      <4>1. Alike(rest, c, x) \in more
        <5> HIDE DEF rest, V, W
        <5> QED BY <1>11, <1>2a, <3>1, <3>3 DEF GroupsAre
      <4>2. \A v \in W : c[v] = c[x] => v \in rest
        BY <1>1, <2>1
      <4>3. Alike(rest, c, x) = Alike(W, c, x)
        BY <1>2, <4>2 DEF Alike
      <4> QED BY <4>1, <4>3
    <3> QED BY <3>2, <3>3
  <2>2. CASE x \notin U
    <3>1. CASE \E s \in Hashers : \E X \in pend[s] : x \in X
      BY <1>5, <2>2, <3>1
    <3>2. CASE Alike(V, c, x) \in seen
      <4>1. Alike(V, c, x) \cap U = {}
        BY <1>1, <3>2
      <4>2. Alike(V, c, x) = Alike(W, c, x)
        BY <4>1 DEF Alike
      <4> QED BY <3>2, <4>2
    <3>3. x \in V /\ y \in V
      OBVIOUS
    <3> QED BY <1>11, <3>1, <3>2, <3>3 DEF Accounted
  <2> QED BY <2>1, <2>2
<1>12. seen \cup more \subseteq KeepCollisions(W, c)
  <2>1. ASSUME NEW I \in seen PROVE I \in KeepCollisions(W, c)
    <3>1. I \in KeepCollisions(V, c) /\ I \cap U = {}
      <4>1. U \cap I = {}
        BY <1>1
      <4>2. seen \subseteq KeepCollisions(V, c)
        BY DEF Accounted
      <4> HIDE DEF V
      <4> QED BY <4>1, <4>2
    <3>2. I \subseteq V /\ I # {} /\ \A x \in I : I = Alike(V, c, x)
      <4> HIDE DEF rest, V, W
      <4> QED BY <1>2a, <3>1 DEF GroupsAre
    <3>3. PICK x \in I : TRUE
      BY <3>2
    <3>4. x \in W /\ I = Alike(W, c, x)
      BY <3>1, <3>2, <3>3 DEF Alike
    <3>5. Cardinality(I) > 1
      BY <3>1 DEF KeepCollisions
    <3> HIDE DEF W, V
    <3> QED BY <3>4, <3>5 DEF KeepCollisions, Alike
  <2> QED BY <1>9, <2>1
<1> QED BY <1>8, <1>10, <1>11, <1>12 DEF Accounted, next

Pending == [t \in Hashers |-> chunk[t] \cup heads[t]]

Searching ==
  /\ content \in [Files -> Contents] /\ chunk \in [Hashers -> Units] /\ heads \in [Hashers -> Units]
  /\ unread \in SUBSET Files /\ truncated \in BOOLEAN /\ cancelled \in BOOLEAN
  /\ reserved \in Nat /\ readBytes \in Nat /\ readBytes <= reserved /\ readBytes <= Ceiling
  /\ searched = "answered" => ~cancelled /\ \A t \in Hashers : chunk[t] = {} /\ heads[t] = {}
  /\ ~truncated /\ ~cancelled =>
       /\ Accounted(Pending, content, unread, identical)
       /\ \A t \in Hashers : chunk[t] \cap heads[t] = {}

SearchInv == SearchAtRest \/ Searching

LEMMA SearchStarts == DuplicatesInit => Searching
<1> SUFFICES ASSUME DuplicatesInit PROVE Searching
  OBVIOUS
<1> DEFINE mark == [f \in Files |-> Length(f)]
           groups == KeepCollisions(Files, mark)
<1>1. /\ content \in [Files -> Contents] /\ chunk \in Deal(groups) /\ heads = [t \in Hashers |-> {}]
      /\ unread = {} /\ identical = {} /\ searched = "looking"
  BY DEF DuplicatesInit
<1>2. GroupsAre(Files, mark)
  <2> HIDE DEF mark
  <2> QED BY CollisionsAre
<1>3. \A x, y \in Files : content[x] = content[y] => mark[x] = mark[y]
  BY DEF Length
<1> HIDE DEF mark
<1>4. /\ chunk \in [Hashers -> SUBSET groups] /\ UNION Range(chunk) = groups
      /\ \A s, t \in Hashers : s # t => chunk[s] \cap chunk[t] = {}
  BY <1>1 DEF Deal
<1>5. chunk \in [Hashers -> Units] /\ heads \in [Hashers -> Units]
  <2>1. SUBSET groups \subseteq Units
    BY <1>2 DEF GroupsAre, Units
  <2>2. {} \in Units
    BY DEF Units
  <2> HIDE DEF groups
  <2> QED BY <1>1, <1>4, <2>1, <2>2
<1>6. Pending = chunk
  BY <1>1, <1>4 DEF Pending
<1>7. ASSUME NEW s \in Hashers, NEW t \in Hashers, NEW U \in chunk[s], NEW W \in chunk[t], U \cap W # {}
      PROVE  U = W /\ s = t
  <2>1. U \in groups /\ W \in groups
    BY <1>4
  <2>2. U = W
    <3>1. PICK z : z \in U /\ z \in W
      BY <1>7
    <3>2. \A y : y \in U <=> y \in W
      <4> HIDE DEF groups
      <4> QED BY <1>2, <2>1, <3>1 DEF GroupsAre, groups
    <3> QED BY <3>2
  <2> QED BY <1>4, <2>2
<1>8. ASSUME NEW t \in Hashers, NEW U \in chunk[t], NEW x \in U, NEW y \in Files, content[x] = content[y]
      PROVE  y \in U
  <2>1. U \in groups
    BY <1>4
  <2>2. x \in Files
    BY <1>2, <2>1 DEF GroupsAre
  <2> QED BY <1>2, <1>3, <1>8, <2>1, <2>2 DEF GroupsAre
<1>9. ASSUME NEW x \in Files, NEW y \in Files, x # y, content[x] = content[y]
      PROVE  \E t \in Hashers : \E U \in chunk[t] : x \in U
  <2>1. Alike(Files, mark, x) \in groups
    BY <1>2, <1>3, <1>9 DEF GroupsAre
  <2>2. PICK t \in Hashers : x \in UNION chunk[t]
    <3>1. x \in Alike(Files, mark, x)
      BY DEF Alike
    <3>2. Alike(Files, mark, x) \in UNION Range(chunk)
      BY <1>4, <2>1
    <3>3. \E t \in Hashers : Alike(Files, mark, x) \in chunk[t]
      BY <1>4, <3>2 DEF Range
    <3> QED BY <3>1, <3>3
  <2> QED BY <2>2
<1>10. Accounted(chunk, content, {}, {})
  <2>1. Files \ {} = Files
    OBVIOUS
  <2> QED BY <1>7, <1>8, <1>9, <2>1 DEF Accounted
<1>11. \A t \in Hashers : chunk[t] \cap heads[t] = {}
  BY <1>1
<1>12. /\ unread \in SUBSET Files /\ truncated \in BOOLEAN /\ cancelled \in BOOLEAN
       /\ reserved \in Nat /\ readBytes \in Nat /\ readBytes <= reserved /\ readBytes <= Ceiling
       /\ searched # "answered"
  <2>1. /\ unread = {} /\ truncated = FALSE /\ cancelled = FALSE /\ reserved = 0 /\ readBytes = 0
        /\ searched = "looking"
    BY DEF DuplicatesInit
  <2>2. truncated \in BOOLEAN /\ cancelled \in BOOLEAN /\ searched # "answered"
    BY <2>1
  <2>3. reserved \in Nat /\ readBytes \in Nat /\ readBytes <= reserved /\ readBytes <= Ceiling
    BY <2>1, SearchAssumption
  <2> QED BY <2>1, <2>2, <2>3
<1> QED BY <1>1, <1>5, <1>6, <1>10, <1>11, <1>12 DEF Searching

\* A unit is a few files of one length.
LEMMA WantedIsThere ==
  ASSUME content \in [Files -> Contents], NEW U \in SUBSET Files, U # {}
  PROVE  Wanted(U) \in Nat
<1>1. Cardinality(U) \in Nat
  BY SearchAssumption, FS_Subset, FS_CardinalityType
<1>2. Length(CHOOSE f \in U : TRUE) \in Nat
  BY SearchAssumption DEF Length
<1> QED BY <1>1, <1>2 DEF Wanted

LEMMA HeadsAreRead ==
  ASSUME Searching, NEW t \in Hashers, HashHeads(t)
  PROVE  Searching'
<1>1. PICK group \in chunk[t] : \E lost \in Lost(group) :
        /\ unread' = unread \cup lost
        /\ chunk' = [chunk EXCEPT ![t] = @ \ {group}]
        /\ heads' = [heads EXCEPT ![t] = KeepCollisions(group \ lost, [f \in Files |-> HeadOf[content[f]]])]
  BY DEF HashHeads
<1>2. PICK lost \in Lost(group) :
        /\ unread' = unread \cup lost
        /\ chunk' = [chunk EXCEPT ![t] = @ \ {group}]
        /\ heads' = [heads EXCEPT ![t] = KeepCollisions(group \ lost, [f \in Files |-> HeadOf[content[f]]])]
  BY <1>1
<1> DEFINE mark == [f \in Files |-> HeadOf[content[f]]]
           new == KeepCollisions(group \ lost, mark)
<1>3. /\ heads[t] = {} /\ searched = "looking"
      /\ UNCHANGED <<content, reserved, readBytes, truncated, identical, cancelled, searched>>
  BY DEF HashHeads
<1>4. /\ chunk \in [Hashers -> Units] /\ heads \in [Hashers -> Units] /\ unread \in SUBSET Files
      /\ content \in [Files -> Contents]
  BY DEF Searching
<1>5. group \in SUBSET Files /\ group # {} /\ lost \in SUBSET group
  BY <1>4 DEF Units, Lost
<1>6. /\ \A X \in new : X \in SUBSET Files /\ X # {} /\ X \subseteq group
  <2>1. group \ lost \in SUBSET Files
    BY <1>5
  <2>2. GroupsAre(group \ lost, mark)
    <3> HIDE DEF mark
    <3> QED BY <2>1, CollisionsAre
  <2> QED BY <1>5, <2>2 DEF GroupsAre
<1>7. new \in Units
  <2> HIDE DEF new
  <2> QED BY <1>6 DEF Units
<1> HIDE DEF new
<1>8. chunk' = [chunk EXCEPT ![t] = @ \ {group}] /\ heads' = [heads EXCEPT ![t] = new]
  BY <1>2 DEF new
<1>9. chunk' \in [Hashers -> Units] /\ heads' \in [Hashers -> Units] /\ unread' \in SUBSET Files
  <2>1. chunk[t] \ {group} \in Units
    BY <1>4 DEF Units
  <2>2. unread' \in SUBSET Files
    BY <1>2, <1>4, <1>5
  <2> QED BY <1>4, <1>7, <1>8, <2>1, <2>2
<1>10. ASSUME ~truncated', ~cancelled'
       PROVE  /\ Accounted(Pending', content', unread', identical')
              /\ \A s \in Hashers : chunk'[s] \cap heads'[s] = {}
  <2>1. /\ Accounted(Pending, content, unread, identical)
        /\ \A s \in Hashers : chunk[s] \cap heads[s] = {}
    BY <1>3, <1>10 DEF Searching
  <2>2. Pending \in [Hashers -> Units] /\ group \in Pending[t]
    BY <1>4 DEF Pending, Units
  <2>3. Pending' = [Pending EXCEPT ![t] = (@ \ {group}) \cup new]
    BY <1>3, <1>4, <1>8 DEF Pending
  <2>4. \A x, y \in Files : content[x] = content[y] => mark[x] = mark[y]
    BY <1>4
  <2>5. new = KeepCollisions(group \ lost, mark)
    BY DEF new
  <2>6. Accounted([Pending EXCEPT ![t] = (@ \ {group}) \cup new], content, unread \cup lost, identical \cup {})
    <3> HIDE DEF mark
    <3> QED BY <1>4, <1>5, <2>1, <2>2, <2>4, <2>5, UnitRead
  <2>7. Accounted(Pending', content', unread', identical')
    <3>1. identical \cup {} = identical
      OBVIOUS
    <3> QED BY <1>2, <1>3, <2>3, <2>6, <3>1
  <2>8. ASSUME NEW s \in Hashers, NEW X \in chunk'[s], X \in heads'[s] PROVE FALSE
    <3>1. CASE s = t
      <4>1. X \in chunk[t] /\ X # group /\ X \in new
        BY <1>4, <1>8, <2>8, <3>1
      <4>2. X \in Pending[t] /\ X \cap group # {}
        BY <1>6, <4>1 DEF Pending
      <4> QED BY <2>1, <2>2, <4>1, <4>2 DEF Accounted
    <3>2. CASE s # t
      <4>1. X \in chunk[s] /\ X \in heads[s]
        BY <1>4, <1>8, <2>8, <3>2
      <4> QED BY <2>1, <4>1
    <3> QED BY <3>1, <3>2
  <2> QED BY <2>7, <2>8
<1> QED BY <1>3, <1>9, <1>10 DEF Searching

LEMMA FullRead ==
  ASSUME Searching, NEW t \in Hashers, HashInFull(t)
  PROVE  Searching'
<1>1. PICK U \in heads[t] : \E lost \in Lost(U) :
        /\ heads' = [heads EXCEPT ![t] = @ \ {U}]
        /\ reserved' = reserved + Wanted(U)
        /\ IF reserved + Wanted(U) > Ceiling
           THEN truncated' = TRUE /\ UNCHANGED <<readBytes, identical, unread>>
           ELSE /\ readBytes' = readBytes + Wanted(U) /\ unread' = unread \cup lost
                /\ identical' = identical \cup KeepCollisions(U \ lost, content)
                /\ UNCHANGED truncated
  BY DEF HashInFull
<1>2. PICK lost \in Lost(U) :
        /\ heads' = [heads EXCEPT ![t] = @ \ {U}]
        /\ reserved' = reserved + Wanted(U)
        /\ IF reserved + Wanted(U) > Ceiling
           THEN truncated' = TRUE /\ UNCHANGED <<readBytes, identical, unread>>
           ELSE /\ readBytes' = readBytes + Wanted(U) /\ unread' = unread \cup lost
                /\ identical' = identical \cup KeepCollisions(U \ lost, content)
                /\ UNCHANGED truncated
  BY <1>1
<1>3. searched = "looking" /\ UNCHANGED <<content, chunk, cancelled, searched>>
  BY DEF HashInFull
<1>4. /\ chunk \in [Hashers -> Units] /\ heads \in [Hashers -> Units] /\ unread \in SUBSET Files
      /\ content \in [Files -> Contents] /\ truncated \in BOOLEAN
      /\ reserved \in Nat /\ readBytes \in Nat /\ readBytes <= reserved /\ readBytes <= Ceiling
  BY DEF Searching
<1>5. U \in SUBSET Files /\ U # {} /\ lost \in SUBSET U
  BY <1>4 DEF Units, Lost
<1>6. Wanted(U) \in Nat
  BY <1>4, <1>5, WantedIsThere
<1>7. heads' \in [Hashers -> Units] /\ unread' \in SUBSET Files /\ truncated' \in BOOLEAN
  <2>1. heads[t] \ {U} \in Units
    BY <1>4 DEF Units
  <2>2. unread' \in SUBSET Files /\ truncated' \in BOOLEAN
    BY <1>2, <1>4, <1>5
  <2> QED BY <1>2, <1>4, <2>1, <2>2
<1>8. reserved' \in Nat /\ readBytes' \in Nat /\ readBytes' <= reserved' /\ readBytes' <= Ceiling
  BY <1>2, <1>4, <1>6, SearchAssumption
<1>9. ASSUME ~truncated', ~cancelled'
      PROVE  /\ Accounted(Pending', content', unread', identical')
             /\ \A s \in Hashers : chunk'[s] \cap heads'[s] = {}
  <2>1. /\ ~truncated /\ unread' = unread \cup lost
        /\ identical' = identical \cup KeepCollisions(U \ lost, content)
    BY <1>2, <1>9
  <2>2. /\ Accounted(Pending, content, unread, identical)
        /\ \A s \in Hashers : chunk[s] \cap heads[s] = {}
    BY <1>3, <1>9, <2>1 DEF Searching
  <2>3. Pending \in [Hashers -> Units] /\ U \in Pending[t]
    BY <1>4 DEF Pending, Units
  <2>4. Pending' = [Pending EXCEPT ![t] = (@ \ {U}) \cup {}]
    <3>1. heads' = [heads EXCEPT ![t] = @ \ {U}] /\ chunk' = chunk
      BY <1>2, <1>3
    <3>2. U \in heads[t] /\ chunk[t] \cap heads[t] = {}
      BY <1>1, <2>2
    <3>3. chunk[t] \cup (heads[t] \ {U}) = ((chunk[t] \cup heads[t]) \ {U}) \cup {}
      BY <3>2
    <3>4. \A s \in Hashers : heads'[s] = IF s = t THEN heads[t] \ {U} ELSE heads[s]
      BY <1>4, <3>1
    <3>5. Pending' = [s \in Hashers |-> IF s = t THEN chunk[t] \cup (heads[t] \ {U})
                                        ELSE chunk[s] \cup heads[s]]
      BY <3>1, <3>4 DEF Pending
    <3>6. [Pending EXCEPT ![t] = (@ \ {U}) \cup {}]
            = [s \in Hashers |-> IF s = t THEN ((chunk[t] \cup heads[t]) \ {U}) \cup {}
                                        ELSE chunk[s] \cup heads[s]]
      BY DEF Pending
    <3> QED BY <3>3, <3>5, <3>6
  <2>5. Accounted([Pending EXCEPT ![t] = (@ \ {U}) \cup {}], content, unread \cup lost,
                  identical \cup KeepCollisions(U \ lost, content))
    <3> DEFINE none == {}
               more == KeepCollisions(U \ lost, content)
    <3>1. none = {} /\ more = KeepCollisions(U \ lost, content)
      OBVIOUS
    <3>2. \A x, y \in Files : content[x] = content[y] => content[x] = content[y]
      OBVIOUS
    <3> HIDE DEF none, more
    <3>3. Accounted([Pending EXCEPT ![t] = (@ \ {U}) \cup none], content, unread \cup lost, identical \cup more)
      BY <1>4, <1>5, <2>2, <2>3, <3>1, <3>2, UnitRead
    <3> QED BY <3>3 DEF none, more
  <2>6. Accounted(Pending', content', unread', identical')
    BY <1>3, <2>1, <2>4, <2>5
  <2>7. \A s \in Hashers : chunk'[s] \cap heads'[s] = {}
    BY <1>2, <1>3, <1>4, <2>2
  <2> QED BY <2>6, <2>7
<1> QED BY <1>3, <1>4, <1>7, <1>8, <1>9 DEF Searching

LEMMA SearchStep == SearchInv /\ DuplicatesNext => SearchInv'
<1> SUFFICES ASSUME SearchInv, DuplicatesNext PROVE Searching'
  BY DEF SearchInv
<1>1. Searching
  BY DEF SearchInv, SearchAtRest, DuplicatesNext, CancelSearch, JoinHashers, SeeCancel, HashHeads, HashInFull
<1>2. CASE CancelSearch
  BY <1>1, <1>2 DEF Searching, CancelSearch
<1>3. CASE JoinHashers
  <2>1. UNCHANGED <<content, chunk, heads, reserved, readBytes, truncated, unread, identical, cancelled>>
    BY <1>3 DEF JoinHashers
  <2>2. Pending' = Pending
    BY <2>1 DEF Pending
  <2>3. searched' = "answered" => ~cancelled
    BY <1>1, <1>3 DEF JoinHashers, Searching
  <2> QED BY <1>1, <1>3, <2>1, <2>2, <2>3 DEF Searching, JoinHashers
<1>4. ASSUME NEW t \in Hashers, SeeCancel(t) PROVE Searching'
  <2>1. chunk' \in [Hashers -> Units]
    <3>1. {} \in Units
      BY DEF Units
    <3> QED BY <1>1, <1>4, <3>1 DEF Searching, SeeCancel
  <2> QED BY <1>1, <1>4, <2>1 DEF Searching, SeeCancel
<1> QED BY <1>1, <1>2, <1>3, <1>4, HeadsAreRead, FullRead DEF DuplicatesNext

LEMMA SearchStays == SearchInv /\ UNCHANGED dupVars => SearchInv'
<1> SUFFICES ASSUME SearchInv, UNCHANGED dupVars PROVE SearchInv'
  OBVIOUS
<1>1. /\ content' = content /\ chunk' = chunk /\ heads' = heads /\ reserved' = reserved
      /\ readBytes' = readBytes /\ truncated' = truncated /\ unread' = unread
      /\ identical' = identical /\ cancelled' = cancelled /\ searched' = searched
  BY DEF dupVars
<1>2. SearchAtRest => SearchAtRest'
  BY <1>1 DEF SearchAtRest
<1>3. Pending' = Pending
  BY <1>1 DEF Pending
<1>4. Searching => Searching'
  BY <1>1, <1>3 DEF Searching
<1> QED BY <1>2, <1>4 DEF SearchInv

\* What a finished search says holds.
LEMMA SearchAnswers == SearchInv => ReadWithinCeiling /\ NothingMissedSilently
<1>1. ASSUME SearchAtRest PROVE ReadWithinCeiling /\ NothingMissedSilently
  BY <1>1, SearchAssumption DEF SearchAtRest, ReadWithinCeiling, NothingMissedSilently
<1>2. ASSUME Searching PROVE ReadWithinCeiling /\ NothingMissedSilently
  <2> DEFINE V == Files \ unread
  <2>1. readBytes <= Ceiling
    BY <1>2 DEF Searching
  <2>2. ASSUME searched = "answered", ~truncated PROVE identical = KeepCollisions(V, content)
    <3>1. /\ Accounted(Pending, content, unread, identical)
          /\ \A t \in Hashers : Pending[t] = {}
      BY <1>2, <2>2 DEF Searching, Pending
    <3>2. identical \subseteq KeepCollisions(V, content)
      BY <3>1 DEF Accounted
    <3>3. ASSUME NEW g \in KeepCollisions(V, content) PROVE g \in identical
      <4>1. GroupsAre(V, content)
        BY CollisionsAre
      <4>2. g \subseteq V /\ g # {} /\ \A x \in g : g = Alike(V, content, x)
        BY <4>1 DEF GroupsAre
      <4>3. PICK x, y \in g : x # y
        <5>1. Cardinality(g) > 1
          BY DEF KeepCollisions
        <5>2. PICK x \in g : TRUE
          BY <4>2
        <5>3. g # {x}
          BY <5>1, FS_Singleton
        <5> QED BY <5>2, <5>3
      <4>4. content[x] = content[y] /\ x \in V /\ y \in V
        BY <4>2, <4>3 DEF Alike
      <4>5. Alike(V, content, x) \in identical
        BY <3>1, <4>3, <4>4 DEF Accounted
      <4> QED BY <4>2, <4>3, <4>5
    <3> QED BY <3>2, <3>3
  <2> QED BY <2>1, <2>2 DEF ReadWithinCeiling, NothingMissedSilently
<1> QED BY <1>1, <1>2 DEF SearchInv

-----------------------------------------------------------------------------
(* The survey of services.                                                   *)

\* Taking one element out of a sequence, or putting one in, keeps the others.
LEMMA OneTakenOut ==
  ASSUME NEW S, NEW s \in Seq(S), NEW i \in 1 .. Len(s)
  PROVE  RemoveAt(s, i) \in Seq(S) /\ ToSet(s) \ {s[i]} \subseteq ToSet(RemoveAt(s, i))
<1> DEFINE a == SubSeq(s, 1, i - 1)
           b == SubSeq(s, i + 1, Len(s))
           n == Len(s)
<1>1. /\ a \in Seq(S) /\ Len(a) = i - 1 /\ \A k \in 1 .. i - 1 : a[k] = s[k]
      /\ b \in Seq(S) /\ Len(b) = n - i /\ \A k \in 1 .. n - i : b[k] = s[i + k]
      /\ n \in Nat /\ i \in 1 .. n
  BY SMTT(30)
<1>2. RemoveAt(s, i) = a \o b
  BY DEF RemoveAt
<1> HIDE DEF a, b, n
<1>3. /\ a \o b \in Seq(S) /\ Len(a \o b) = Len(a) + Len(b)
      /\ \A k \in 1 .. Len(a) + Len(b) : (a \o b)[k] = IF k <= Len(a) THEN a[k] ELSE b[k - Len(a)]
  BY <1>1, ConcatProperties
<1> DEFINE front == a \o b
<1> HIDE DEF front
<1>4. /\ front \in Seq(S) /\ Len(front) = n - 1 /\ DOMAIN front = 1 .. n - 1
      /\ \A k \in 1 .. n - 1 : front[k] = IF k <= i - 1 THEN a[k] ELSE b[k - (i - 1)]
  <2>1. Len(a) + Len(b) = n - 1 /\ Len(a) = i - 1
    BY <1>1
  <2>2. /\ front \in Seq(S) /\ Len(front) = n - 1
        /\ \A k \in 1 .. n - 1 : front[k] = IF k <= i - 1 THEN a[k] ELSE b[k - (i - 1)]
    BY <1>3, <2>1 DEF front
  <2> QED BY <2>2
<1>5. ASSUME NEW k \in 1 .. n, k # i PROVE s[k] \in ToSet(front)
  <2>1. CASE k < i
    <3>1. k \in 1 .. n - 1 /\ k <= i - 1 /\ k \in 1 .. i - 1
      BY <1>1, <2>1
    <3>2. front[k] = s[k]
      BY <1>1, <1>4, <3>1
    <3> QED BY <1>4, <3>1, <3>2 DEF ToSet
  <2>2. CASE k > i
    <3>1. k - 1 \in 1 .. n - 1 /\ ~(k - 1 <= i - 1) /\ k - 1 - (i - 1) = k - i /\ k - i \in 1 .. n - i
      BY <1>1, <2>2
    <3>2. front[k - 1] = b[k - i] /\ b[k - i] = s[i + (k - i)] /\ i + (k - i) = k
      BY <1>1, <1>4, <3>1
    <3> QED BY <1>4, <3>1, <3>2 DEF ToSet
  <2> QED BY <1>1, <1>5, <2>1, <2>2
<1>6. ToSet(s) \ {s[i]} \subseteq ToSet(front)
  BY <1>5 DEF ToSet, n
<1> QED BY <1>2, <1>4, <1>6 DEF front

LEMMA OnePutIn ==
  ASSUME NEW S, NEW s \in Seq(S), NEW i \in 1 .. Len(s) + 1, NEW x \in S
  PROVE  InsertAt(s, i, x) \in Seq(S) /\ ToSet(s) \subseteq ToSet(InsertAt(s, i, x))
<1> DEFINE a == SubSeq(s, 1, i - 1)
           m == <<x>>
           b == SubSeq(s, i, Len(s))
           n == Len(s)
<1>1. /\ a \in Seq(S) /\ Len(a) = i - 1 /\ \A k \in 1 .. i - 1 : a[k] = s[k]
      /\ b \in Seq(S) /\ Len(b) = n - i + 1 /\ \A k \in 1 .. n - i + 1 : b[k] = s[i + k - 1]
      /\ n \in Nat /\ i \in 1 .. n + 1 /\ m \in Seq(S) /\ Len(m) = 1
  OBVIOUS
<1>2. InsertAt(s, i, x) = (a \o m) \o b
  BY DEF InsertAt
<1> HIDE DEF a, b, n, m
<1> DEFINE am == a \o m
<1>3. /\ am \in Seq(S) /\ Len(am) = Len(a) + Len(m)
      /\ \A k \in 1 .. Len(a) + Len(m) : am[k] = IF k <= Len(a) THEN a[k] ELSE m[k - Len(a)]
  BY <1>1, ConcatProperties
<1> HIDE DEF am
<1> DEFINE put == am \o b
<1>4. /\ put \in Seq(S) /\ Len(put) = Len(am) + Len(b)
      /\ \A k \in 1 .. Len(am) + Len(b) : put[k] = IF k <= Len(am) THEN am[k] ELSE b[k - Len(am)]
  <2>1. am \in Seq(S) /\ b \in Seq(S)
    BY <1>1, <1>3
  <2> QED BY <2>1, ConcatProperties
<1> HIDE DEF put
<1>5. /\ Len(put) = n + 1 /\ DOMAIN put = 1 .. n + 1 /\ Len(am) = i
      /\ \A k \in 1 .. n + 1 : put[k] = IF k <= i THEN am[k] ELSE b[k - i]
      /\ \A k \in 1 .. i - 1 : am[k] = s[k]
  BY <1>1, <1>3, <1>4
<1>6. ASSUME NEW k \in 1 .. n PROVE s[k] \in ToSet(put)
  <2>1. CASE k < i
    <3>1. k \in 1 .. n + 1 /\ k <= i /\ k \in 1 .. i - 1
      BY <1>1, <2>1
    <3>2. put[k] = s[k]
      BY <1>1, <1>5, <3>1
    <3> QED BY <1>5, <3>1, <3>2 DEF ToSet
  <2>2. CASE k >= i
    <3>1. k + 1 \in 1 .. n + 1 /\ ~(k + 1 <= i) /\ k + 1 - i \in 1 .. n - i + 1 /\ i + (k + 1 - i) - 1 = k
      <4>1. k \in Nat /\ i \in Nat /\ n \in Nat /\ k <= n /\ 1 <= i /\ i <= k
        BY <1>1, <2>2
      <4> QED BY <4>1
    <3>2. put[k + 1] = b[k + 1 - i] /\ b[k + 1 - i] = s[i + (k + 1 - i) - 1]
      BY <1>1, <1>5, <3>1
    <3> QED BY <1>5, <3>1, <3>2 DEF ToSet
  <2> QED BY <1>1, <2>1, <2>2
<1>7. ToSet(s) \subseteq ToSet(put)
  BY <1>6 DEF ToSet, n
<1> QED BY <1>2, <1>4, <1>7 DEF put, am

Quiet == {"on-demand", "driver", "placeholder"}

\* The write times only grow; while they have not, a walk has read the beginning
\* of what there is; and what it listed is covered as it is opened.
KeyInv ==
  /\ key \in Seq(Services) /\ holds \in [Services -> Holdings] /\ steady \subseteq ToSet(key)
  /\ got \in Seq(Services) /\ left \in Seq(Services)
  /\ shape \in [count : Nat, written : Nat]
  /\ written \in Nat /\ clock \in Nat /\ written <= clock /\ shape.written <= written
  /\ blurred \in BOOLEAN
  /\ reading = "walking" /\ ~blurred /\ written = shape.written =>
       /\ Len(key) = shape.count /\ Len(got) <= Len(key)
       /\ \A i \in 1 .. Len(got) : got[i] = key[i]
  /\ reading = "opening" /\ whole /\ ~blurred =>
       \A n \in steady : holds[n] \notin Quiet => n \in entries \cup refused \cup ToSet(left)
  /\ NothingHidden

LEMMA KeyStarts == KeyInit => KeyInv
<1> SUFFICES ASSUME KeyInit PROVE KeyInv
  OBVIOUS
<1>1. /\ key \in Distinct /\ holds \in Holders
      /\ steady = ToSet(key) /\ written = 0 /\ clock = 1 /\ blurred = FALSE
      /\ reading = "asking" /\ shape = [count |-> 0, written |-> 0] /\ got = <<>> /\ left = <<>>
  BY DEF KeyInit
<1>2. key \in Seq(Services)
  BY <1>1 DEF Distinct, SeqOf
<1>3. holds \in [Services -> Holdings]
  BY <1>1, KeyAssumption
<1>4. blurred \in BOOLEAN /\ reading # "walking" /\ reading # "opening" /\ reading # "surveyed"
  BY <1>1
<1>5. /\ got \in Seq(Services) /\ left \in Seq(Services) /\ shape \in [count : Nat, written : Nat]
      /\ written \in Nat /\ clock \in Nat /\ written <= clock /\ shape.written <= written
  BY <1>1
<1> QED BY <1>1, <1>2, <1>3, <1>4, <1>5 DEF KeyInv, NothingHidden

LEMMA KeyRests == KeyAtRest => KeyInv
<1> SUFFICES ASSUME KeyAtRest PROVE KeyInv
  OBVIOUS
<1>1. /\ key = <<>> /\ holds = [n \in Services |-> "driver"] /\ steady = {} /\ written = 0
      /\ clock = 1 /\ blurred = FALSE /\ reading = "unasked"
      /\ shape = [count |-> 0, written |-> 0] /\ got = <<>> /\ left = <<>>
  BY DEF KeyAtRest
<1>2. holds \in [Services -> Holdings]
  BY <1>1 DEF Holdings
<1>3. blurred \in BOOLEAN /\ reading # "walking" /\ reading # "opening" /\ reading # "surveyed"
  BY <1>1
<1>4. /\ key \in Seq(Services) /\ got \in Seq(Services) /\ left \in Seq(Services)
      /\ shape \in [count : Nat, written : Nat]
      /\ written \in Nat /\ clock \in Nat /\ written <= clock /\ shape.written <= written
  BY <1>1
<1>5. steady \subseteq ToSet(key)
  BY <1>1
<1> QED BY <1>2, <1>3, <1>4, <1>5 DEF KeyInv, NothingHidden

\* Others write to the key, which may move what a walk has read; the clock shows.
LEMMA KeyWritten == KeyInv /\ Write => KeyInv'
<1> SUFFICES ASSUME KeyInv, Write PROVE KeyInv'
  OBVIOUS
<1>1. /\ reading # "surveyed" /\ written' = clock /\ blurred' = (blurred \/ clock = written)
      /\ UNCHANGED <<holds, clock, reading, shape, got, attempt, whole, left, entries, refused>>
  BY DEF Write, reader
<1>2. /\ key \in Seq(Services) /\ steady \subseteq ToSet(key) /\ blurred \in BOOLEAN
      /\ shape \in [count : Nat, written : Nat]
      /\ written \in Nat /\ clock \in Nat /\ written <= clock /\ shape.written <= written
      /\ holds \in [Services -> Holdings] /\ got \in Seq(Services) /\ left \in Seq(Services)
  BY DEF KeyInv
<1>3. key' \in Seq(Services) /\ steady' \subseteq ToSet(key') /\ steady' \subseteq steady
  <2>1. CASE \E i \in DOMAIN key : key' = RemoveAt(key, i) /\ steady' = steady \ {key[i]}
    <3>1. PICK i \in DOMAIN key : key' = RemoveAt(key, i) /\ steady' = steady \ {key[i]}
      BY <2>1
    <3>2. i \in 1 .. Len(key)
      BY <1>2
    <3>3. key' \in Seq(Services) /\ ToSet(key) \ {key[i]} \subseteq ToSet(key')
      BY <1>2, <3>1, <3>2, OneTakenOut
    <3> QED BY <1>2, <3>1, <3>3
  <2>2. CASE \E n \in Services \ ToSet(key), i \in 1 .. Len(key) + 1 :
               key' = InsertAt(key, i, n) /\ UNCHANGED steady
    <3>1. PICK n \in Services, i \in 1 .. Len(key) + 1 : key' = InsertAt(key, i, n) /\ UNCHANGED steady
      BY <2>2
    <3>2. key' \in Seq(Services) /\ ToSet(key) \subseteq ToSet(key')
      BY <1>2, <3>1, OnePutIn
    <3> QED BY <1>2, <3>1, <3>2
  <2> QED BY <2>1, <2>2 DEF Write
<1>4. blurred' \in BOOLEAN /\ (~blurred' => ~blurred /\ clock # written)
  BY <1>1, <1>2
<1>5. /\ shape' = shape /\ written' \in Nat /\ clock' \in Nat /\ written' <= clock' /\ shape.written <= written'
      /\ clock # written => written' # shape.written
  BY <1>1, <1>2
<1>6. ASSUME reading' = "opening", whole', ~blurred', NEW n \in steady', holds'[n] \notin Quiet
      PROVE  n \in entries' \cup refused' \cup ToSet(left')
  BY <1>1, <1>3, <1>4, <1>6 DEF KeyInv
<1>7. NothingHidden'
  BY <1>1 DEF NothingHidden
<1> QED BY <1>1, <1>2, <1>3, <1>4, <1>5, <1>6, <1>7 DEF KeyInv

\* A walk that is over ends the listing, or is repeated.
LEMMA ListingEnds ==
  ASSUME KeyInv, NEW complete \in BOOLEAN, NEW names \in Seq(Services),
         EndListing(names, complete), UNCHANGED <<machine, entries, refused>>,
         complete => (~blurred => steady \subseteq ToSet(names))
  PROVE  KeyInv'
<1>1. /\ UNCHANGED <<key, holds, steady, written, clock, blurred, entries, refused, shape>>
      /\ got' = <<>>
      /\ \/ reading' = "opening" /\ whole' = complete /\ left' = names
         \/ reading' = "asking" /\ left' = left
  BY DEF EndListing, machine
<1>2. /\ key' \in Seq(Services) /\ holds' \in [Services -> Holdings] /\ steady' \subseteq ToSet(key')
      /\ got' \in Seq(Services) /\ left' \in Seq(Services)
      /\ shape' \in [count : Nat, written : Nat]
      /\ written' \in Nat /\ clock' \in Nat /\ written' <= clock' /\ shape'.written <= written'
      /\ blurred' \in BOOLEAN /\ reading' # "walking" /\ reading' # "surveyed"
  BY <1>1 DEF KeyInv
<1>3. ASSUME reading' = "opening", whole', ~blurred', NEW n \in steady'
      PROVE  n \in ToSet(left')
  BY <1>1, <1>3
<1> QED BY <1>2, <1>3 DEF KeyInv, NothingHidden

LEMMA KeyFinished == KeyInv /\ Finish => KeyInv'
<1> SUFFICES ASSUME KeyInv, Finish PROVE KeyInv'
  OBVIOUS
<1>1. reading = "walking" /\ UNCHANGED <<machine, entries, refused>>
  BY DEF Finish
<1>2. got \in Seq(Services) /\ key \in Seq(Services) /\ steady \subseteq ToSet(key)
  BY DEF KeyInv
<1>3. CASE EndListing(got, FALSE)
  <2>1. FALSE \in BOOLEAN
    OBVIOUS
  <2> QED BY <1>1, <1>2, <1>3, <2>1, ListingEnds
<1>4. CASE EndListing(got, Settled(ShapeNow))
  <2> DEFINE complete == Settled(ShapeNow)
  <2>1. complete \in BOOLEAN
    BY DEF Settled
  <2>2. ASSUME complete, ~blurred PROVE steady \subseteq ToSet(got)
    <3>1. Len(got) = shape.count /\ written = shape.written
      BY <2>2 DEF Settled, ShapeNow
    <3>2. Len(got) = Len(key) /\ \A i \in 1 .. Len(got) : got[i] = key[i]
      BY <1>1, <2>2, <3>1 DEF KeyInv
    <3>3. ToSet(got) = ToSet(key)
      BY <1>2, <3>2 DEF ToSet
    <3> QED BY <1>2, <3>3
  <2>3. EndListing(got, complete)
    BY <1>4
  <2> HIDE DEF complete
  <2> QED BY <1>1, <1>2, <2>1, <2>2, <2>3, ListingEnds
<1> QED BY <1>3, <1>4 DEF Finish

LEMMA ServiceOpened == KeyInv /\ OpenService => KeyInv'
<1> SUFFICES ASSUME KeyInv, OpenService PROVE KeyInv'
  OBVIOUS
<1> DEFINE name == Head(left)
<1>1. /\ reading = "opening" /\ left # <<>> /\ left' = Tail(left)
      /\ UNCHANGED <<key, holds, steady, written, clock, blurred, reading, shape, got, whole>>
  BY DEF OpenService, machine
<1>2. /\ key \in Seq(Services) /\ holds \in [Services -> Holdings] /\ steady \subseteq ToSet(key)
      /\ left \in Seq(Services) /\ name \in Services /\ holds[name] \in Holdings
  <2>1. left \in Seq(Services) /\ holds \in [Services -> Holdings]
    BY DEF KeyInv
  <2>2. name \in Services
    BY <1>1, <2>1
  <2> QED BY <2>1, <2>2 DEF KeyInv
<1>3. left' \in Seq(Services) /\ ToSet(left) = {name} \cup ToSet(left')
  <2>1. /\ left' \in Seq(Services) /\ Len(left') = Len(left) - 1 /\ Len(left) \in Nat /\ Len(left) > 0
        /\ \A i \in 1 .. Len(left) - 1 : left'[i] = left[i + 1]
        /\ name = left[1]
    BY <1>1, <1>2
  <2> HIDE DEF name
  <2>2. ASSUME NEW i \in DOMAIN left, i # 1 PROVE left[i] \in ToSet(left')
    <3>1. i - 1 \in 1 .. Len(left) - 1 /\ left'[i - 1] = left[(i - 1) + 1] /\ (i - 1) + 1 = i
      BY <1>2, <2>1, <2>2
    <3>2. i - 1 \in DOMAIN left'
      BY <2>1, <3>1
    <3> QED BY <3>1, <3>2 DEF ToSet
  <2>3. ASSUME NEW i \in DOMAIN left' PROVE left'[i] \in ToSet(left)
    <3>1. i \in 1 .. Len(left) - 1 /\ i + 1 \in DOMAIN left
      BY <1>2, <2>1
    <3> QED BY <2>1, <3>1 DEF ToSet
  <2>4. 1 \in DOMAIN left
    BY <1>2, <2>1
  <2> QED BY <2>1, <2>2, <2>3, <2>4 DEF ToSet
<1>4. /\ entries \subseteq entries' /\ refused \subseteq refused'
      /\ name \in ToSet(key) /\ holds[name] \notin Quiet => name \in entries' \cup refused'
  <2> HIDE DEF name
  <2>1. /\ holds[name] = "hidden-name" => refused' = refused \cup {name} /\ UNCHANGED entries
        /\ holds[name] # "hidden-name" /\ name \notin ToSet(key) => UNCHANGED <<entries, refused>>
        /\ name \in ToSet(key) /\ holds[name] \in {"on-demand", "driver", "placeholder"}
             => UNCHANGED <<entries, refused>>
        /\ name \in ToSet(key) /\ holds[name] = "automatic"
             => entries' = entries \cup {name} /\ UNCHANGED refused
        /\ name \in ToSet(key) /\ holds[name] \in {"closed", "unreadable-value", "no-image"}
             => refused' = refused \cup {name} /\ UNCHANGED entries
    BY DEF OpenService, name
  <2> QED BY <1>2, <2>1 DEF Holdings, Quiet
<1>5. ASSUME whole, ~blurred, NEW n \in steady, holds[n] \notin Quiet
      PROVE  n \in entries' \cup refused' \cup ToSet(left')
  <2>1. n \in entries \cup refused \cup ToSet(left)
    BY <1>1, <1>5 DEF KeyInv
  <2> HIDE DEF name
  <2> QED BY <1>2, <1>3, <1>4, <1>5, <2>1
<1>6. /\ key' \in Seq(Services) /\ holds' \in [Services -> Holdings] /\ steady' \subseteq ToSet(key')
      /\ got' \in Seq(Services)
      /\ shape' \in [count : Nat, written : Nat]
      /\ written' \in Nat /\ clock' \in Nat /\ written' <= clock' /\ shape'.written <= written'
      /\ blurred' \in BOOLEAN /\ reading' # "walking" /\ reading' # "surveyed"
  BY <1>1 DEF KeyInv
<1> QED BY <1>1, <1>3, <1>5, <1>6 DEF KeyInv, NothingHidden

LEMMA NextRead == KeyInv /\ ReadNext => KeyInv'
<1> SUFFICES ASSUME KeyInv, ReadNext PROVE KeyInv'
  OBVIOUS
<1>1. /\ reading = "walking" /\ Len(got) < Len(key) /\ got' = Append(got, key[Len(got) + 1])
      /\ UNCHANGED <<key, holds, steady, written, clock, blurred, reading, shape, left>>
  BY DEF ReadNext, machine
<1>2. /\ key \in Seq(Services) /\ got \in Seq(Services) /\ Len(got) \in Nat /\ Len(key) \in Nat
      /\ key[Len(got) + 1] \in Services
  <2>1. key \in Seq(Services) /\ got \in Seq(Services)
    BY DEF KeyInv
  <2>2. Len(got) + 1 \in 1 .. Len(key)
    BY <1>1, <2>1
  <2> QED BY <2>1, <2>2
<1>3. /\ got' \in Seq(Services) /\ Len(got') = Len(got) + 1 /\ got'[Len(got) + 1] = key[Len(got) + 1]
      /\ \A i \in 1 .. Len(got) : got'[i] = got[i]
  BY <1>1, <1>2
<1>4. ASSUME ~blurred, written = shape.written
      PROVE  /\ Len(key) = shape.count /\ Len(got') <= Len(key)
             /\ \A i \in 1 .. Len(got') : got'[i] = key[i]
  <2>1. Len(key) = shape.count /\ \A i \in 1 .. Len(got) : got[i] = key[i]
    BY <1>1, <1>4 DEF KeyInv
  <2>2. \A i \in 1 .. Len(got') : i \in 1 .. Len(got) \/ i = Len(got) + 1
    BY <1>2, <1>3
  <2> QED BY <1>1, <1>2, <1>3, <2>1, <2>2
<1>5. /\ key' \in Seq(Services) /\ holds' \in [Services -> Holdings] /\ steady' \subseteq ToSet(key')
      /\ left' \in Seq(Services)
      /\ shape' \in [count : Nat, written : Nat]
      /\ written' \in Nat /\ clock' \in Nat /\ written' <= clock' /\ shape'.written <= written'
      /\ blurred' \in BOOLEAN /\ reading' # "opening" /\ reading' # "surveyed"
  BY <1>1 DEF KeyInv
<1> QED BY <1>1, <1>3, <1>4, <1>5 DEF KeyInv, NothingHidden

LEMMA KeyStep == KeyInv /\ KeyNext => KeyInv'
<1> SUFFICES ASSUME KeyInv, KeyNext PROVE KeyInv'
  OBVIOUS
<1>1. CASE Tick
  <2>1. /\ UNCHANGED <<key, holds, steady, written, blurred, reading, shape, got, whole, left, entries, refused>>
        /\ clock' = clock + 1
    BY <1>1 DEF Tick, reader
  <2>2. clock' \in Nat /\ written' <= clock'
    BY <2>1 DEF KeyInv
  <2> QED BY <2>1, <2>2 DEF KeyInv, NothingHidden
<1>2. CASE CannotOpen
  <2>1. /\ UNCHANGED <<key, holds, steady, written, clock, blurred, shape, got, left, entries, refused>>
        /\ reading' = "surveyed" /\ whole' = FALSE
    BY <1>2 DEF CannotOpen, machine
  <2> QED BY <2>1 DEF KeyInv, NothingHidden
<1>3. CASE NoShape
  <2>1. FALSE \in BOOLEAN /\ <<>> \in Seq(Services)
    OBVIOUS
  <2>2. EndListing(<<>>, FALSE) /\ UNCHANGED <<machine, entries, refused>>
    BY <1>3 DEF NoShape
  <2> DEFINE none == <<>>
  <2> HIDE DEF none
  <2>3. none \in Seq(Services) /\ EndListing(none, FALSE)
    BY <2>1, <2>2 DEF none
  <2> QED BY <2>1, <2>2, <2>3, ListingEnds
<1>4. CASE AskShape
  <2>1. /\ UNCHANGED <<key, holds, steady, written, clock, blurred, left, entries, refused>>
        /\ reading' = "walking" /\ shape' = ShapeNow /\ got' = <<>>
    BY <1>4 DEF AskShape, machine
  <2>2. /\ shape' \in [count : Nat, written : Nat] /\ shape'.count = Len(key) /\ shape'.written = written
        /\ got' \in Seq(Services) /\ Len(got') = 0 /\ Len(key) \in Nat
    BY <2>1 DEF KeyInv, ShapeNow
  <2>3. /\ key' \in Seq(Services) /\ holds' \in [Services -> Holdings] /\ steady' \subseteq ToSet(key')
        /\ left' \in Seq(Services)
        /\ written' \in Nat /\ clock' \in Nat /\ written' <= clock' /\ shape'.written <= written'
        /\ blurred' \in BOOLEAN /\ reading' # "opening" /\ reading' # "surveyed"
    BY <2>1, <2>2 DEF KeyInv
  <2> QED BY <2>1, <2>2, <2>3 DEF KeyInv, NothingHidden
<1>5. CASE EndSurvey
  <2>1. /\ reading = "opening" /\ left = <<>> /\ reading' = "surveyed"
        /\ UNCHANGED <<key, holds, steady, written, clock, blurred, shape, got, whole, left, entries, refused>>
    BY <1>5 DEF EndSurvey, machine
  <2>2. ToSet(left) = {}
    BY <2>1 DEF ToSet
  <2>3. NothingHidden'
    BY <2>1, <2>2 DEF KeyInv, NothingHidden, Quiet
  <2> QED BY <2>1, <2>3 DEF KeyInv
<1> QED BY <1>1, <1>2, <1>3, <1>4, <1>5, KeyWritten, NextRead, KeyFinished, ServiceOpened DEF KeyNext

LEMMA KeyStays == KeyInv /\ UNCHANGED keyVars => KeyInv'
BY DEF KeyInv, NothingHidden, keyVars

-----------------------------------------------------------------------------
(* Sums over finite sets.                                                    *)

Sum(f, s) == MapThenSumSet(LAMBDA x : f[x], s)

\* A sum is put together from the members one by one.
LEMMA SumIsFolded ==
  ASSUME NEW S, IsFiniteSet(S), NEW f, \A x \in S : f[x] \in Nat
  PROVE  LET op == [p \in S \X Nat |-> f[p[1]] + p[2]]
         IN \E h : Folded(h, S, Nat, 0, op) /\ Sum(f, S) = h[S]
<1> DEFINE op == [p \in S \X Nat |-> f[p[1]] + p[2]]
           eq(g) == g = [s \in SUBSET S |->
                           IF s = {} THEN 0
                           ELSE f[CHOOSE x \in s : TRUE] + g[s \ {CHOOSE x \in s : TRUE}]]
<1>1. op \in [S \X Nat -> Nat]
  OBVIOUS
<1>2. PICK h : Folded(h, S, Nat, 0, op)
  <2> HIDE DEF op
  <2> QED BY <1>1, FoldIsThere
<1>3. \A g : eq(g) => Folded(g, S, Nat, 0, op)
  <2> SUFFICES ASSUME NEW g, eq(g) PROVE Folded(g, S, Nat, 0, op)
    OBVIOUS
  <2>1. ASSUME NEW s \in SUBSET S
        PROVE  g[s] = IF s = {} THEN 0 ELSE f[Pick(s)] + g[s \ {Pick(s)}]
    BY DEF Pick
  <2>2. \A s \in SUBSET S : g[s] \in Nat
    <3> DEFINE B == {s \in SUBSET S : g[s] \notin Nat}
    <3> SUFFICES ASSUME B # {} PROVE FALSE
      OBVIOUS
    <3>1. PICK s \in B : \A u \in B : u \subseteq s => u = s
      <4>1. B \in SUBSET SUBSET S
        OBVIOUS
      <4> HIDE DEF B
      <4> QED BY <4>1, Innermost
    <3> HIDE DEF eq, op
    <3>2. g[s] \notin Nat /\ s \in SUBSET S
      BY <3>1
    <3>3. g[s] = IF s = {} THEN 0 ELSE f[Pick(s)] + g[s \ {Pick(s)}]
      BY <2>1, <3>2
    <3>4. s # {}
      BY <3>2, <3>3
    <3>5. Pick(s) \in s
      BY <3>4 DEF Pick
    <3>6. g[s \ {Pick(s)}] \in Nat
      <4>1. s \ {Pick(s)} \notin B /\ s \ {Pick(s)} \in SUBSET S
        BY <3>1, <3>2, <3>5
      <4> QED BY <4>1
    <3>7. f[Pick(s)] \in Nat
      BY <3>2, <3>5
    <3> HIDE DEF B
    <3> QED BY <3>2, <3>3, <3>6, <3>7
  <2>3. g = [s \in SUBSET S |-> g[s]]
    <3> DEFINE of(s) == IF s = {} THEN 0
                        ELSE f[CHOOSE x \in s : TRUE] + g[s \ {CHOOSE x \in s : TRUE}]
    <3>1. g = [s \in SUBSET S |-> of(s)]
      OBVIOUS
    <3> HIDE DEF of, eq
    <3> QED BY <3>1
  <2> HIDE DEF eq
  <2>4. g \in [SUBSET S -> Nat]
    BY <2>2, <2>3
  <2> HIDE DEF op
  <2>5. ASSUME NEW s \in SUBSET S, s # {}
        PROVE  g[s] = op[<<Pick(s), g[s \ {Pick(s)}]>>]
    <3> DEFINE x == Pick(s)
               l == g[s \ {Pick(s)}]
    <3>1. x \in S /\ l \in Nat
      BY <2>2, <2>5 DEF Pick
    <3>2. g[s] = f[x] + l
      BY <2>1, <2>5
    <3> HIDE DEF x, l
    <3>3. op[<<x, l>>] = f[x] + l
      BY <3>1 DEF op
    <3> QED BY <3>2, <3>3 DEF x, l
  <2> QED BY <2>1, <2>4, <2>5 DEF Folded
<1>4. eq(h)
  <2>1. ASSUME NEW s \in SUBSET S
        PROVE  h[s] = IF s = {} THEN 0 ELSE f[Pick(s)] + h[s \ {Pick(s)}]
    <3>1. CASE s = {}
      BY <1>2, <3>1 DEF Folded
    <3>2. CASE s # {}
      <4> DEFINE x == Pick(s)
                 l == h[s \ {Pick(s)}]
      <4>1. x \in S /\ l \in Nat
        BY <1>2, <3>2 DEF Pick, Folded
      <4> HIDE DEF op
      <4>2. h[s] = op[<<x, l>>]
        BY <1>2, <3>2 DEF Folded
      <4> USE DEF op
      <4> HIDE DEF x, l
      <4>3. op[<<x, l>>] = f[x] + l
        BY <4>1
      <4> HIDE DEF op
      <4> QED BY <3>2, <4>2, <4>3 DEF x, l
    <3> QED BY <3>1, <3>2
  <2>2. h = [s \in SUBSET S |-> h[s]]
    BY <1>2 DEF Folded
  <2> HIDE DEF op
  <2>3. h = [s \in SUBSET S |-> IF s = {} THEN 0 ELSE f[Pick(s)] + h[s \ {Pick(s)}]]
    BY <2>1, <2>2
  <2> QED BY <2>3 DEF Pick
<1> DEFINE g == CHOOSE g : eq(g)
<1>5. eq(g)
  <2> HIDE DEF eq
  <2> QED BY <1>4
<1>6. Sum(f, S) = g[S]
  BY DEF Sum, MapThenSumSet, MapThenFoldSet
<1> HIDE DEF g, eq, op
<1>7. Folded(g, S, Nat, 0, op)
  BY <1>3, <1>5
<1> QED BY <1>6, <1>7 DEF op

\* A sum is a number; of nothing it is zero, and with one member more it is
\* more by that member.
LEMMA SumIsNat ==
  ASSUME NEW S, IsFiniteSet(S), NEW f, \A x \in S : f[x] \in Nat
  PROVE  Sum(f, S) \in Nat /\ (S = {} => Sum(f, S) = 0)
<1> DEFINE op == [p \in S \X Nat |-> f[p[1]] + p[2]]
<1>1. PICK h : Folded(h, S, Nat, 0, op) /\ Sum(f, S) = h[S]
  BY SumIsFolded, Zenon
<1> HIDE DEF op
<1> QED BY <1>1 DEF Folded

LEMMA SumOfPart ==
  ASSUME NEW S, IsFiniteSet(S), NEW f, \A x \in S : f[x] \in Nat, NEW s \in SUBSET S,
         NEW h, Folded(h, S, Nat, 0, [p \in S \X Nat |-> f[p[1]] + p[2]])
  PROVE  Sum(f, s) = h[s]
<1> DEFINE op == [p \in S \X Nat |-> f[p[1]] + p[2]]
           few == [p \in s \X Nat |-> f[p[1]] + p[2]]
<1>1. IsFiniteSet(s) /\ \A x \in s : f[x] \in Nat
  BY FS_Subset
<1>2. PICK g : Folded(g, s, Nat, 0, few) /\ Sum(f, s) = g[s]
  BY <1>1, SumIsFolded, Zenon
<1>3. Folded(g, s, Nat, 0, op)
  <2>1. \A x \in s, n \in Nat : few[<<x, n>>] = f[x] + n /\ op[<<x, n>>] = f[x] + n
    OBVIOUS
  <2>2. \A x \in s, n \in Nat : few[<<x, n>>] = op[<<x, n>>]
    BY <2>1
  <2> HIDE DEF op, few
  <2>3. g \in [SUBSET s -> Nat]
    BY <1>2 DEF Folded
  <2>4. ASSUME NEW u \in SUBSET s
        PROVE  g[u] = IF u = {} THEN 0 ELSE op[<<Pick(u), g[u \ {Pick(u)}]>>]
    <3>1. g[u] = IF u = {} THEN 0 ELSE few[<<Pick(u), g[u \ {Pick(u)}]>>]
      BY <1>2 DEF Folded
    <3>2. CASE u = {}
      BY <3>1, <3>2
    <3>3. CASE u # {}
      <4>1. Pick(u) \in s /\ g[u \ {Pick(u)}] \in Nat
        BY <2>3, <3>3 DEF Pick
      <4> QED BY <2>2, <3>1, <3>3, <4>1
    <3> QED BY <3>2, <3>3
  <2> QED BY <2>3, <2>4 DEF Folded
<1>4. Folded(h, S, Nat, 0, op)
  OBVIOUS
<1> HIDE DEF op, few
<1>5. g[s] = h[s]
  BY <1>3, <1>4, FoldsAgree
<1> QED BY <1>2, <1>5

LEMMA SumWithOneMore ==
  ASSUME NEW S, IsFiniteSet(S), NEW f, \A x \in S : f[x] \in Nat, NEW x \in S
  PROVE  Sum(f, S) = f[x] + Sum(f, S \ {x})
<1> DEFINE op == [p \in S \X Nat |-> f[p[1]] + p[2]]
<1>1. PICK h : Folded(h, S, Nat, 0, op) /\ Sum(f, S) = h[S]
  BY SumIsFolded, Zenon
<1>2. \A y \in S, n \in Nat : op[<<y, n>>] = f[y] + n
  OBVIOUS
<1> DEFINE good(s) == \A y \in s : h[s] = f[y] + h[s \ {y}]
           B == {s \in SUBSET S : ~good(s)}
<1>3. ASSUME B # {} PROVE FALSE
  <2>1. PICK s \in B : \A u \in B : u \subseteq s => u = s
    <3>1. B \in SUBSET SUBSET S
      OBVIOUS
    <3> HIDE DEF B
    <3> QED BY <1>3, <3>1, Innermost
  <2> HIDE DEF op
  <2>2. PICK y \in s : h[s] # f[y] + h[s \ {y}]
    BY <2>1
  <2> DEFINE p == Pick(s)
             rest == (s \ {p}) \ {y}
  <2>3. p \in s /\ s \in SUBSET S
    BY <2>1, <2>2 DEF Pick
  <2>4. h[s] = f[p] + h[s \ {p}]
    <3>1. h[s] = op[<<p, h[s \ {p}]>>] /\ h[s \ {p}] \in Nat
      BY <1>1, <2>2, <2>3 DEF Folded
    <3> QED BY <1>2, <2>3, <3>1
  <2> HIDE DEF p
  <2>5. y # p
    BY <2>2, <2>4
  <2>6. ASSUME NEW z \in s, NEW v \in s \ {z} PROVE h[s \ {z}] = f[v] + h[(s \ {z}) \ {v}]
    <3>1. s \ {z} \notin B /\ s \ {z} \in SUBSET S
      BY <2>1, <2>3
    <3>2. good(s \ {z})
      <4> HIDE DEF good
      <4> QED BY <3>1
    <3> QED BY <3>2
  <2>7. h[s \ {p}] = f[y] + h[rest]
    <3> HIDE DEF good, B
    <3> QED BY <2>3, <2>5, <2>6
  <2>8. h[s \ {y}] = f[p] + h[rest]
    <3> HIDE DEF good, B
    <3>1. (s \ {y}) \ {p} = rest
      OBVIOUS
    <3>2. h[s \ {y}] = f[p] + h[(s \ {y}) \ {p}]
      BY <2>3, <2>5, <2>6
    <3> QED BY <3>1, <3>2
  <2>9. h[rest] \in Nat /\ f[y] \in Nat /\ f[p] \in Nat
    BY <1>1, <2>3 DEF Folded
  <2> HIDE DEF rest, good
  <2> QED BY <2>2, <2>4, <2>7, <2>8, <2>9
<1>4. h[S] = f[x] + h[S \ {x}]
  BY <1>3
<1>5. Sum(f, S \ {x}) = h[S \ {x}]
  BY <1>1, SumOfPart
<1> QED BY <1>1, <1>4, <1>5

-----------------------------------------------------------------------------
(* The measuring of a leftover.                                              *)

\* What is beneath some folders is the least set that holds them and is closed
\* under opening one.
LEMMA BeneathIs ==
  ASSUME NEW t, IsTree(t), NEW some \in SUBSET DOMAIN t.files
  PROVE  LET all == Beneath(t, some)
         IN /\ all \subseteq DOMAIN t.files /\ some \subseteq all
            /\ \A y \in all \ t.closed : ToSet(t.dirs[y]) \subseteq all
            /\ \A s \in SUBSET DOMAIN t.files :
                 some \subseteq s /\ (\A y \in s \ t.closed : ToSet(t.dirs[y]) \subseteq s)
                   => all \subseteq s
<1> DEFINE folders == DOMAIN t.files
<1>1. ASSUME NEW y \in folders PROVE ToSet(t.dirs[y]) \subseteq folders
  BY DEF IsTree, ToSet
<1> QED BY <1>1 DEF Beneath

\* Opening the folder on top of the stack, when nothing on the stack lies inside
\* a folder that is still to be opened: what is beneath the stack is then less
\* by that folder.
LEMMA OneOpened ==
  ASSUME NEW t, IsTree(t), NEW some \in SUBSET DOMAIN t.files,
         \A y \in Beneath(t, some) \ t.closed : ToSet(t.dirs[y]) \cap some = {},
         NEW f \in some, f \notin t.closed
  PROVE  LET next == (some \ {f}) \cup ToSet(t.dirs[f])
         IN /\ next \subseteq DOMAIN t.files
            /\ Beneath(t, next) = Beneath(t, some) \ {f}
            /\ \A y \in Beneath(t, next) \ t.closed : ToSet(t.dirs[y]) \cap next = {}
<1> DEFINE inside(y) == ToSet(t.dirs[y])
           next == (some \ {f}) \cup inside(f)
           folders == DOMAIN t.files
           was == Beneath(t, some)
           is == Beneath(t, next)
<1>1. /\ was \subseteq folders /\ some \subseteq was
      /\ \A y \in was \ t.closed : inside(y) \subseteq was
      /\ \A s \in SUBSET folders :
           some \subseteq s /\ (\A y \in s \ t.closed : inside(y) \subseteq s) => was \subseteq s
  BY BeneathIs
<1>2. next \in SUBSET folders
  BY <1>1
<1>3. /\ is \subseteq folders /\ next \subseteq is
      /\ \A y \in is \ t.closed : inside(y) \subseteq is
      /\ \A s \in SUBSET folders :
           next \subseteq s /\ (\A y \in s \ t.closed : inside(y) \subseteq s) => is \subseteq s
  <2> HIDE DEF next
  <2> QED BY <1>2, BeneathIs
<1>4. \A x, y \in folders : x # y => inside(x) \cap inside(y) = {}
  BY DEF IsTree, ToSet
<1>5. f \in was /\ f \in folders /\ f \notin inside(f)
  BY <1>1
<1>6. \A y \in was \ t.closed : f \notin inside(y)
  OBVIOUS
<1>7. inside(f) \cap some = {}
  BY <1>5
<1> HIDE DEF inside, was, is
<1>8. is \subseteq was \ {f}
  <2>1. next \subseteq was \ {f}
    BY <1>1, <1>5
  <2>2. \A y \in (was \ {f}) \ t.closed : inside(y) \subseteq was \ {f}
    BY <1>1, <1>6
  <2> HIDE DEF next
  <2> QED BY <1>1, <1>3, <2>1, <2>2
<1>9. was \subseteq is \cup {f}
  <2>1. some \subseteq is \cup {f}
    BY <1>3
  <2>2. \A y \in (is \cup {f}) \ t.closed : inside(y) \subseteq is \cup {f}
    BY <1>3
  <2>3. is \cup {f} \in SUBSET folders
    BY <1>3, <1>5
  <2> HIDE DEF next
  <2> QED BY <1>1, <2>1, <2>2, <2>3
<1>10. is = was \ {f}
  BY <1>8, <1>9
<1>11. ASSUME NEW y \in is \ t.closed PROVE inside(y) \cap next = {}
  <2>1. y \in was \ t.closed /\ y # f /\ y \in folders
    BY <1>1, <1>10, <1>11
  <2>2. inside(y) \cap some = {}
    BY <2>1 DEF inside, was
  <2>3. inside(y) \cap inside(f) = {}
    BY <1>4, <1>5, <2>1
  <2> QED BY <2>2, <2>3
<1> QED BY <1>2, <1>10, <1>11 DEF inside, was, is

\* A folder that cannot be listed is only taken off the stack.
LEMMA OneSkipped ==
  ASSUME NEW t, IsTree(t), NEW some \in SUBSET DOMAIN t.files,
         \A y \in Beneath(t, some) \ t.closed : ToSet(t.dirs[y]) \cap some = {},
         NEW f \in some, f \in t.closed
  PROVE  LET next == some \ {f}
         IN /\ Beneath(t, next) \ t.closed = Beneath(t, some) \ t.closed
            /\ \A y \in Beneath(t, next) \ t.closed : ToSet(t.dirs[y]) \cap next = {}
<1> DEFINE inside(y) == ToSet(t.dirs[y])
           next == some \ {f}
           folders == DOMAIN t.files
           was == Beneath(t, some)
           is == Beneath(t, next)
<1>1. /\ was \subseteq folders /\ some \subseteq was
      /\ \A y \in was \ t.closed : inside(y) \subseteq was
      /\ \A s \in SUBSET folders :
           some \subseteq s /\ (\A y \in s \ t.closed : inside(y) \subseteq s) => was \subseteq s
  BY BeneathIs
<1>2. next \in SUBSET folders
  OBVIOUS
<1>3. /\ is \subseteq folders /\ next \subseteq is
      /\ \A y \in is \ t.closed : inside(y) \subseteq is
      /\ \A s \in SUBSET folders :
           next \subseteq s /\ (\A y \in s \ t.closed : inside(y) \subseteq s) => is \subseteq s
  <2> HIDE DEF next
  <2> QED BY <1>2, BeneathIs
<1>4. \A y \in was \ t.closed : inside(y) \cap some = {}
  OBVIOUS
<1> HIDE DEF inside, was, is
<1>5. is \subseteq was
  <2>1. next \subseteq was
    BY <1>1
  <2> HIDE DEF next
  <2> QED BY <1>1, <1>3, <2>1
<1>6. was \subseteq is \cup {f}
  <2>1. some \subseteq is \cup {f}
    BY <1>3
  <2>2. \A y \in (is \cup {f}) \ t.closed : inside(y) \subseteq is \cup {f}
    BY <1>3
  <2>3. is \cup {f} \in SUBSET folders
    BY <1>3
  <2> HIDE DEF next
  <2> QED BY <1>1, <2>1, <2>2, <2>3
<1>7. is \ t.closed = was \ t.closed
  BY <1>5, <1>6
<1>8. \A y \in is \ t.closed : inside(y) \cap next = {}
  BY <1>4, <1>7
<1> QED BY <1>7, <1>8 DEF inside, was, is

\* The last of a sequence that says nothing twice is taken off and other things
\* are put on.
LEMMA LastReplaced ==
  ASSUME NEW S, NEW s \in Seq(S), s # <<>>, IsInjective(s), NEW more \in Seq(S), IsInjective(more),
         ToSet(s) \cap ToSet(more) = {}
  PROVE  /\ Last(s) \in ToSet(s)
         /\ Front(s) \in Seq(S) /\ IsInjective(Front(s)) /\ ToSet(Front(s)) = ToSet(s) \ {Last(s)}
         /\ Front(s) \o more \in Seq(S) /\ IsInjective(Front(s) \o more)
         /\ ToSet(Front(s) \o more) = (ToSet(s) \ {Last(s)}) \cup ToSet(more)
<1> DEFINE a == Front(s)
           n == Len(s)
           m == Len(more)
           all == a \o more
<1>1. /\ n \in Nat /\ n > 0 /\ DOMAIN s = 1 .. n /\ Last(s) = s[n]
      /\ a \in Seq(S) /\ Len(a) = n - 1 /\ DOMAIN a = 1 .. n - 1 /\ \A k \in 1 .. n - 1 : a[k] = s[k]
      /\ m \in Nat /\ DOMAIN more = 1 .. m
  <2>1. n \in Nat /\ n > 0 /\ DOMAIN s = 1 .. n /\ Last(s) = s[n]
    BY DEF Last
  <2>2. a = SubSeq(s, 1, n - 1)
    BY DEF Front
  <2>3. a \in Seq(S) /\ Len(a) = n - 1 /\ \A k \in 1 .. n - 1 : a[k] = s[k]
    BY <2>1, <2>2
  <2>4. DOMAIN a = 1 .. n - 1 /\ m \in Nat /\ DOMAIN more = 1 .. m
    <3> HIDE DEF a
    <3> QED BY <2>3
  <2> QED BY <2>1, <2>3, <2>4
<1>2. /\ all \in Seq(S) /\ Len(all) = Len(a) + Len(more)
      /\ \A k \in 1 .. Len(a) + Len(more) : all[k] = IF k <= Len(a) THEN a[k] ELSE more[k - Len(a)]
  <2>1. a \in Seq(S) /\ more \in Seq(S)
    BY <1>1
  <2> HIDE DEF a
  <2> QED BY <2>1, ConcatProperties
<1> HIDE DEF a, n, m, all
<1>3. /\ DOMAIN all = 1 .. n - 1 + m /\ \A k \in 1 .. n - 1 : all[k] = s[k]
      /\ \A k \in n .. n - 1 + m : all[k] = more[k - (n - 1)] /\ k - (n - 1) \in 1 .. m
  <2>1. Len(all) = n - 1 + m /\ Len(a) + Len(more) = n - 1 + m /\ Len(a) = n - 1
    BY <1>1, <1>2 DEF m
  <2>2. DOMAIN all = 1 .. n - 1 + m
    BY <1>2, <2>1
  <2>3. \A k \in 1 .. n - 1 + m : all[k] = IF k <= n - 1 THEN a[k] ELSE more[k - (n - 1)]
    BY <1>2, <2>1
  <2>4. ASSUME NEW k \in 1 .. n - 1 PROVE all[k] = s[k]
    <3>1. k \in 1 .. n - 1 + m /\ k <= n - 1
      BY <1>1
    <3> QED BY <1>1, <2>3, <3>1
  <2>5. ASSUME NEW k \in n .. n - 1 + m PROVE all[k] = more[k - (n - 1)] /\ k - (n - 1) \in 1 .. m
    <3>1. k \in 1 .. n - 1 + m /\ ~(k <= n - 1) /\ k - (n - 1) \in 1 .. m
      BY <1>1
    <3> QED BY <2>3, <3>1
  <2> QED BY <2>2, <2>4, <2>5
<1>4. \A i, j \in 1 .. n : s[i] = s[j] => i = j
  BY <1>1 DEF IsInjective
<1>5. \A i, j \in 1 .. m : more[i] = more[j] => i = j
  BY <1>1 DEF IsInjective
<1>6. \A i \in 1 .. n, j \in 1 .. m : s[i] # more[j]
  BY <1>1 DEF ToSet
<1>7. Last(s) \in ToSet(s) /\ IsInjective(a) /\ ToSet(a) = ToSet(s) \ {Last(s)}
  <2>1. n \in 1 .. n /\ \A k \in 1 .. n - 1 : k \in 1 .. n /\ k # n
    BY <1>1
  <2>2. \A k \in 1 .. n : k = n \/ k \in 1 .. n - 1
    BY <1>1
  <2>3. IsInjective(a)
    BY <1>1, <1>4, <2>1 DEF IsInjective
  <2>4. ToSet(a) = {s[k] : k \in 1 .. n - 1} /\ ToSet(s) = {s[k] : k \in 1 .. n}
    BY <1>1 DEF ToSet
  <2> QED BY <1>1, <1>4, <2>1, <2>2, <2>3, <2>4
<1>8. IsInjective(all)
  <2>1. ASSUME NEW i \in 1 .. n - 1 + m, NEW j \in 1 .. n - 1 + m, all[i] = all[j] PROVE i = j
    <3>1. \A k \in 1 .. n - 1 + m : k \in 1 .. n - 1 \/ k \in n .. n - 1 + m
      BY <1>1
    <3>2. \A k \in 1 .. n - 1 : k \in 1 .. n
      BY <1>1
    <3>3. CASE i \in 1 .. n - 1 /\ j \in 1 .. n - 1
      BY <1>3, <1>4, <2>1, <3>2, <3>3
    <3>4. CASE i \in 1 .. n - 1 /\ j \in n .. n - 1 + m
      BY <1>3, <1>6, <2>1, <3>2, <3>4
    <3>5. CASE i \in n .. n - 1 + m /\ j \in 1 .. n - 1
      BY <1>3, <1>6, <2>1, <3>2, <3>5
    <3>6. CASE i \in n .. n - 1 + m /\ j \in n .. n - 1 + m
      <4>1. i - (n - 1) = j - (n - 1)
        BY <1>3, <1>5, <2>1, <3>6
      <4> QED BY <1>1, <2>1, <3>6, <4>1
    <3> QED BY <3>1, <3>3, <3>4, <3>5, <3>6
  <2> QED BY <1>3, <2>1 DEF IsInjective
<1>9. ToSet(all) = ToSet(a) \cup ToSet(more)
  <2>1. ToSet(all) = {all[k] : k \in 1 .. n - 1 + m} /\ ToSet(a) = {s[k] : k \in 1 .. n - 1}
        /\ ToSet(more) = {more[k] : k \in 1 .. m}
    BY <1>1, <1>3 DEF ToSet
  <2>2. ASSUME NEW k \in 1 .. n - 1 + m PROVE all[k] \in ToSet(a) \cup ToSet(more)
    <3>1. k \in 1 .. n - 1 \/ k \in n .. n - 1 + m
      BY <1>1
    <3> QED BY <1>3, <2>1, <3>1
  <2>3. ASSUME NEW k \in 1 .. n - 1 PROVE s[k] \in ToSet(all)
    <3>1. k \in 1 .. n - 1 + m
      BY <1>1
    <3> QED BY <1>3, <2>1, <3>1
  <2>4. ASSUME NEW k \in 1 .. m PROVE more[k] \in ToSet(all)
    <3> DEFINE j == k + (n - 1)
    <3>1. j \in n .. n - 1 + m /\ j \in 1 .. n - 1 + m /\ j - (n - 1) = k
      BY <1>1
    <3> HIDE DEF j
    <3> QED BY <1>3, <2>1, <3>1
  <2> QED BY <2>1, <2>2, <2>3, <2>4
<1> QED BY <1>1, <1>2, <1>7, <1>8, <1>9 DEF a, all

\* The files of what is beneath some folders, as far as it can be listed.
FilesBeneath(t, some) == Sum(t.files, Beneath(t, some) \ t.closed)

\* What is counted and what is beneath the stack make the whole; no folder is
\* on the stack twice, and none lies inside one that is still to be opened.
Measuring ==
  /\ tree \in Trees
  /\ stack \in Seq(DOMAIN tree.files) /\ IsInjective(stack)
  /\ \A y \in Beneath(tree, ToSet(stack)) \ tree.closed : ToSet(tree.dirs[y]) \cap ToSet(stack) = {}
  /\ counted \in Nat
  /\ counted + FilesBeneath(tree, ToSet(stack)) = FilesBeneath(tree, {"top"})
  /\ walk = "whole" => stack = <<>>

LEMMA FilesBeneathIsNat ==
  ASSUME NEW t, IsTree(t), NEW some \in SUBSET DOMAIN t.files
  PROVE  /\ FilesBeneath(t, some) \in Nat
         /\ some = {} => FilesBeneath(t, some) = 0
         /\ IsFiniteSet(Beneath(t, some) \ t.closed) /\ \A x \in Beneath(t, some) : t.files[x] \in Nat
<1> DEFINE set == Beneath(t, some) \ t.closed
           files == t.files
<1>1. Beneath(t, some) \subseteq DOMAIN t.files
  BY BeneathIs
<1>2. IsFiniteSet(set) /\ (\A x \in set : files[x] \in Nat) /\ \A x \in Beneath(t, some) : files[x] \in Nat
  <2>1. IsFiniteSet(DOMAIN t.files) /\ t.files \in [DOMAIN t.files -> Nat]
    BY DEF IsTree
  <2>2. set \subseteq DOMAIN t.files
    BY <1>1
  <2>3. IsFiniteSet(set)
    <3> HIDE DEF set
    <3> QED BY <2>1, <2>2, FS_Subset
  <2> QED BY <1>1, <2>1, <2>2, <2>3
<1>3. some = {} => set = {}
  <2> SUFFICES ASSUME some = {} PROVE Beneath(t, some) = {}
    OBVIOUS
  <2>1. {} \in SUBSET DOMAIN t.files /\ some \subseteq {}
        /\ \A y \in {} \ t.closed : ToSet(t.dirs[y]) \subseteq {}
    OBVIOUS
  <2> QED BY <2>1, BeneathIs
<1> HIDE DEF set, files
<1>4. Sum(files, set) \in Nat /\ (set = {} => Sum(files, set) = 0)
  BY <1>2, SumIsNat
<1> QED BY <1>2, <1>3, <1>4 DEF set, files, FilesBeneath

LEMMA WalkStarts == WalkInit => Measuring
<1> SUFFICES ASSUME WalkInit PROVE Measuring
  OBVIOUS
<1>1. IsTree(tree) /\ tree \in Trees /\ stack = <<"top">> /\ counted = 0 /\ walk = "walking"
  BY TreesAssumption DEF WalkInit
<1>2. "top" \in DOMAIN tree.files /\ \A y \in DOMAIN tree.files : ToSet(tree.dirs[y]) \cap {"top"} = {}
  BY <1>1 DEF IsTree, ToSet
<1>3. stack \in Seq(DOMAIN tree.files) /\ IsInjective(stack) /\ ToSet(stack) = {"top"}
  <2> DEFINE top == "top"
             folders == DOMAIN tree.files
  <2>1. top \in folders
    BY <1>2
  <2> HIDE DEF top, folders
  <2>2. <<top>> \in Seq(folders) /\ IsInjective(<<top>>) /\ ToSet(<<top>>) = {top}
    BY <2>1 DEF IsInjective, ToSet
  <2>3. stack = <<top>> /\ top = "top" /\ folders = DOMAIN tree.files
    BY <1>1 DEF top, folders
  <2> QED BY <2>2, <2>3, Zenon
<1>4. Beneath(tree, {"top"}) \subseteq DOMAIN tree.files
  BY <1>1, <1>2, BeneathIs
<1>5. FilesBeneath(tree, {"top"}) \in Nat
  BY <1>1, <1>2, FilesBeneathIsNat
<1>6. counted + FilesBeneath(tree, ToSet(stack)) = FilesBeneath(tree, {"top"})
  <2> DEFINE all == FilesBeneath(tree, {"top"})
  <2>1. FilesBeneath(tree, ToSet(stack)) = all
    BY <1>3
  <2>2. all \in Nat
    BY <1>5
  <2> HIDE DEF all
  <2>3. counted + FilesBeneath(tree, ToSet(stack)) = all
    BY <1>1, <2>1, <2>2
  <2> QED BY <2>3 DEF all
<1>7. \A y \in Beneath(tree, ToSet(stack)) \ tree.closed : ToSet(tree.dirs[y]) \cap ToSet(stack) = {}
  BY <1>2, <1>3, <1>4
<1> QED BY <1>1, <1>3, <1>6, <1>7 DEF Measuring

LEMMA FolderListed == Measuring /\ ListFolder => Measuring'
<1> SUFFICES ASSUME Measuring, ListFolder PROVE Measuring'
  OBVIOUS
<1> DEFINE folder == Last(stack)
           some == ToSet(stack)
           inside == tree.dirs[folder]
           folders == DOMAIN tree.files
           put == Front(stack) \o inside
           was == Beneath(tree, some) \ tree.closed
<1>1. /\ tree \in Trees /\ IsTree(tree) /\ stack \in Seq(folders) /\ IsInjective(stack) /\ stack # <<>>
      /\ counted \in Nat /\ counted + FilesBeneath(tree, some) = FilesBeneath(tree, {"top"})
      /\ walk = "walking" /\ walk' = walk /\ tree' = tree
      /\ \A y \in was : ToSet(tree.dirs[y]) \cap some = {}
  BY TreesAssumption DEF Measuring, ListFolder
<1>2. some \in SUBSET folders /\ folder \in some
  <2>1. <<>> \in Seq(folders) /\ IsInjective(<<>>) /\ ToSet(<<>>) = {}
    BY DEF IsInjective, ToSet
  <2>2. folder \in some
    <3> DEFINE none == <<>>
    <3>1. none \in Seq(folders) /\ IsInjective(none) /\ some \cap ToSet(none) = {}
      BY <2>1
    <3> HIDE DEF none
    <3> QED BY <1>1, <3>1, LastReplaced
  <2>3. some \in SUBSET folders
    BY <1>1 DEF ToSet
  <2> QED BY <2>2, <2>3
<1>3. CASE folder \in tree.closed
  <2> DEFINE next == some \ {folder}
  <2>1. stack' = Front(stack) /\ counted' = counted
    BY <1>3 DEF ListFolder
  <2>2. Front(stack) \in Seq(folders) /\ IsInjective(Front(stack)) /\ ToSet(Front(stack)) = next
    <3> DEFINE none == <<>>
    <3>1. none \in Seq(folders) /\ IsInjective(none) /\ some \cap ToSet(none) = {}
      BY DEF IsInjective, ToSet
    <3> HIDE DEF none
    <3> QED BY <1>1, <3>1, LastReplaced
  <2>3. /\ Beneath(tree, next) \ tree.closed = was
        /\ \A y \in Beneath(tree, next) \ tree.closed : ToSet(tree.dirs[y]) \cap next = {}
    <3> HIDE DEF some
    <3> QED BY <1>1, <1>2, <1>3, OneSkipped
  <2>4. FilesBeneath(tree, next) = FilesBeneath(tree, some)
    BY <2>3 DEF FilesBeneath
  <2>5. ToSet(stack') = next
    BY <2>1, <2>2
  <2> HIDE DEF some, next, was
  <2> QED BY <1>1, <2>1, <2>2, <2>3, <2>4, <2>5 DEF Measuring
<1>4. CASE folder \notin tree.closed
  <2> DEFINE next == (some \ {folder}) \cup ToSet(inside)
             is == Beneath(tree, next) \ tree.closed
             files == tree.files
  <2>1. stack' = put /\ counted' = counted + files[folder]
    BY <1>4 DEF ListFolder
  <2>2. inside \in Seq(folders) /\ IsInjective(inside)
    <3>1. tree.dirs \in [folders -> Seq(folders \ {"top"})] /\ folder \in folders
      BY <1>1, <1>2 DEF IsTree
    <3>2. inside \in Seq(folders \ {"top"})
      BY <3>1
    <3>3. inside \in Seq(folders)
      <4>1. folders \ {"top"} \subseteq folders
        OBVIOUS
      <4> HIDE DEF inside
      <4> QED BY <3>2, <4>1, SeqWider
    <3>4. \A i, j \in DOMAIN inside : inside[i] = inside[j] => i = j
      BY <1>1, <3>1 DEF IsTree
    <3>5. IsInjective(inside)
      BY <3>4 DEF IsInjective
    <3> QED BY <3>3, <3>5
  <2>3. folder \in was
    BY <1>1, <1>2, <1>4, BeneathIs
  <2>4. some \cap ToSet(inside) = {}
    BY <1>1, <2>3
  <2>5. put \in Seq(folders) /\ IsInjective(put) /\ ToSet(put) = next
    <3> HIDE DEF inside
    <3> QED BY <1>1, <2>2, <2>4, LastReplaced
  <2>6. /\ next \subseteq folders /\ Beneath(tree, next) = Beneath(tree, some) \ {folder}
        /\ \A y \in is : ToSet(tree.dirs[y]) \cap next = {}
    <3> HIDE DEF some
    <3> QED BY <1>1, <1>2, <1>4, OneOpened
  <2>7. is = was \ {folder}
    BY <2>6
  <2>8. IsFiniteSet(was) /\ \A x \in was : files[x] \in Nat
    <3> HIDE DEF some
    <3> QED BY <1>1, <1>2, FilesBeneathIsNat
  <2>9. Sum(files, was) = files[folder] + Sum(files, was \ {folder})
    <3> HIDE DEF was, files, folder
    <3> QED BY <2>3, <2>8, SumWithOneMore
  <2>10. FilesBeneath(tree, some) = files[folder] + FilesBeneath(tree, next)
    BY <2>7, <2>9 DEF FilesBeneath
  <2>11. FilesBeneath(tree, next) \in Nat /\ files[folder] \in Nat
    <3>1. next \in SUBSET folders
      BY <2>6
    <3> HIDE DEF next
    <3> QED BY <1>1, <2>3, <2>8, <3>1, FilesBeneathIsNat
  <2>12. ToSet(stack') = next
    BY <2>1, <2>5
  <2> HIDE DEF some, next, was, is, files, put, folder
  <2>13. counted' \in Nat /\ counted' + FilesBeneath(tree, next) = FilesBeneath(tree, {"top"})
    BY <1>1, <2>1, <2>10, <2>11
  <2> QED BY <1>1, <2>1, <2>5, <2>6, <2>12, <2>13 DEF Measuring, is
<1> QED BY <1>3, <1>4

LEMMA WalkStep == Measuring /\ (ListFolder \/ EndWalk) => Measuring'
<1>1. Measuring /\ EndWalk => Measuring'
  BY DEF EndWalk, Measuring
<1> QED BY <1>1, FolderListed

LEMMA WalkStays == Measuring /\ UNCHANGED walkVars => Measuring'
BY DEF Measuring, walkVars

LEMMA WalkAnswers == Measuring => MeasuredWhole
<1> SUFFICES ASSUME Measuring PROVE MeasuredWhole
  OBVIOUS
<1> DEFINE all == FilesBeneath(tree, {"top"})
           more == FilesBeneath(tree, ToSet(stack))
<1>1. counted \in Nat /\ counted + more = all /\ (walk = "whole" => stack = <<>>) /\ tree \in Trees
  BY DEF Measuring
<1>2. more \in Nat /\ (stack = <<>> => more = 0)
  <2>1. ToSet(stack) \in SUBSET DOMAIN tree.files /\ (stack = <<>> => ToSet(stack) = {}) /\ IsTree(tree)
    BY TreesAssumption DEF Measuring, ToSet
  <2> QED BY <2>1, FilesBeneathIsNat
<1>3. all = MapThenSumSet(LAMBDA x : tree.files[x], Beneath(tree, {"top"}) \ tree.closed)
  BY DEF FilesBeneath, Sum
<1> HIDE DEF all, more
<1>4. counted <= all /\ (walk = "whole" => counted = all)
  BY <1>1, <1>2
<1> QED BY <1>3, <1>4, Zenon DEF MeasuredWhole

-----------------------------------------------------------------------------
(* Gaps.                                                                     *)

GapsInv == Asked /\ SearchInv /\ KeyInv /\ (study = "walk" => Measuring)

LEMMA GapsFollow == GapsInv => GapsAreAdmitted
<1> SUFFICES ASSUME GapsInv PROVE GapsAreAdmitted
  OBVIOUS
<1>1. Asked /\ SearchInv /\ KeyInv /\ (study = "walk" => Measuring)
  BY DEF GapsInv
<1>2. ReadWithinCeiling /\ NothingMissedSilently
  BY <1>1, SearchAnswers
<1>3. MeasuredIsWhole
  BY <1>1, WalkAnswers DEF MeasuredIsWhole
<1>4. NothingHidden
  BY <1>1 DEF KeyInv
<1>5. study = "collection" => input \in Sitting
  BY <1>1, InputsAssumption DEF Asked, Running
<1>6. AbsenceIsLooked /\ GapsAreConfined
  BY <1>5, AbsenceLooked, GapsNoFurther DEF AbsenceIsLooked, GapsAreConfined
<1>7. TasksAreSeen
  <2>1. study = "tasks" => input \in TaskStore
    BY <1>1, InputsAssumption DEF Asked, Running
  <2> QED BY <2>1, TaskIsSeen DEF TasksAreSeen
<1> QED BY <1>2, <1>3, <1>4, <1>6, <1>7 DEF GapsAreAdmitted

\* However a search for duplicates, the measuring of a leftover, a survey of
\* services or a collection goes: groups the budget did not reach, a measure cut
\* at the ceiling, keys that moved under the listing, and sources, accounts and
\* task folders that would not open are said to be unread (duplicates.rs: find,
\* remnants.rs: measure, registry.rs: walk_subkeys, baseline.rs: collect,
\* persistence.rs: walk_tasks).
THEOREM GapsAreAdmittedAlways == DecisionsSpec => []GapsAreAdmitted
<1>1. Init => GapsInv
  <2>1. Init => /\ DuplicatesInit \/ SearchAtRest
                /\ KeyInit \/ KeyAtRest
                /\ study = "walk" => WalkInit
    BY DEF Init
  <2>2. DuplicatesInit \/ SearchAtRest => SearchInv
    BY SearchStarts DEF SearchInv
  <2>3. KeyInit \/ KeyAtRest => KeyInv
    BY KeyStarts, KeyRests
  <2> QED BY <2>1, <2>2, <2>3, AskedStarts, WalkStarts DEF GapsInv
<1>2. GapsInv /\ [Next]_vars => GapsInv'
  <2> SUFFICES ASSUME GapsInv, [Next]_vars PROVE GapsInv'
    OBVIOUS
  <2>1. DuplicatesNext \/ UNCHANGED dupVars
    BY DEF Next, vars, Ask
  <2>2. KeyNext \/ UNCHANGED keyVars
    BY DEF Next, vars, Ask
  <2>3. study' = "walk" => study = "walk" /\ (ListFolder \/ EndWalk \/ UNCHANGED walkVars)
    BY InputsAssumption DEF Next, vars, Ask, Running
  <2>4. SearchInv'
    BY <2>1, SearchStep, SearchStays DEF GapsInv
  <2>5. KeyInv'
    BY <2>2, KeyStep, KeyStays DEF GapsInv
  <2>6. Asked'
    BY AskedStep DEF GapsInv
  <2>7. (study = "walk" => Measuring)'
    BY <2>3, WalkStep, WalkStays DEF GapsInv
  <2> QED BY <2>4, <2>5, <2>6, <2>7 DEF GapsInv
<1> QED BY <1>1, <1>2, GapsFollow, PTL DEF DecisionsSpec

-----------------------------------------------------------------------------
(* What is counted once.                                                     *)

AllOf(F, s) == UNION {F[x] : x \in s}

\* Sets apart from each other have together as many members as they have one by one.
LEMMA PartsAddUp ==
  ASSUME NEW S, IsFiniteSet(S), NEW F, \A x \in S : IsFiniteSet(F[x]),
         \A x, y \in S : x # y => F[x] \cap F[y] = {},
         NEW f, \A x \in S : f[x] = Cardinality(F[x])
  PROVE  IsFiniteSet(AllOf(F, S)) /\ Cardinality(AllOf(F, S)) = Sum(f, S)
<1> DEFINE good(s) == IsFiniteSet(AllOf(F, s)) /\ Cardinality(AllOf(F, s)) = Sum(f, s)
           B == {s \in SUBSET S : ~good(s)}
<1>1. \A x \in S : f[x] \in Nat
  BY FS_CardinalityType
<1>2. ASSUME B # {} PROVE FALSE
  <2>1. PICK s \in B : \A u \in B : u \subseteq s => u = s
    <3>1. B \in SUBSET SUBSET S
      OBVIOUS
    <3> HIDE DEF B
    <3> QED BY <1>2, <3>1, Innermost
  <2>2. s \in SUBSET S /\ IsFiniteSet(s) /\ ~good(s)
    BY <2>1, FS_Subset
  <2>3. s # {}
    <3>1. AllOf(F, {}) = {} /\ Sum(f, {}) = 0 /\ IsFiniteSet({}) /\ Cardinality({}) = 0
      <4>1. IsFiniteSet({}) /\ Cardinality({}) = 0
        BY FS_EmptySet
      <4>2. Sum(f, {}) = 0
        BY <4>1, SumIsNat
      <4> QED BY <4>1, <4>2 DEF AllOf
    <3>2. good({})
      BY <3>1
    <3> HIDE DEF good
    <3> QED BY <2>2, <3>2
  <2>4. PICK x \in s : TRUE
    BY <2>3
  <2> DEFINE less == s \ {x}
  <2>5. good(less)
    <3>1. less \in SUBSET S /\ less \subseteq s /\ less # s
      BY <2>2
    <3> HIDE DEF good, less
    <3> QED BY <2>1, <3>1
  <2>6. AllOf(F, s) = AllOf(F, less) \cup F[x] /\ AllOf(F, less) \cap F[x] = {}
    BY <2>2 DEF AllOf
  <2>7. Sum(f, s) = f[x] + Sum(f, less)
    BY <1>1, <2>2, SumWithOneMore
  <2>8. Sum(f, less) \in Nat /\ f[x] \in Nat
    <3>1. IsFiniteSet(less) /\ \A y \in less : f[y] \in Nat
      BY <1>1, <2>2, FS_RemoveElement
    <3> HIDE DEF less
    <3> QED BY <1>1, <2>2, <3>1, SumIsNat
  <2>9. IsFiniteSet(AllOf(F, less)) /\ Cardinality(AllOf(F, less)) = Sum(f, less)
    BY <2>5
  <2>10. IsFiniteSet(F[x]) /\ Cardinality(F[x]) = f[x]
    BY <2>2
  <2> HIDE DEF less, good
  <2>11. /\ IsFiniteSet(AllOf(F, less) \cup F[x])
         /\ Cardinality(AllOf(F, less) \cup F[x])
              = Cardinality(AllOf(F, less)) + Cardinality(F[x]) - Cardinality({})
    <3> DEFINE P == AllOf(F, less)
               Q == F[x]
    <3>1. P \cap Q = {} /\ IsFiniteSet(P) /\ IsFiniteSet(Q)
      BY <2>6, <2>9, <2>10
    <3> HIDE DEF P, Q
    <3>2. IsFiniteSet(P \cup Q) /\ Cardinality(P \cup Q) = Cardinality(P) + Cardinality(Q) - Cardinality({})
      BY <3>1, FS_Union
    <3> QED BY <3>2 DEF P, Q
  <2>12. Cardinality({}) = 0
    BY FS_EmptySet
  <2>13. /\ IsFiniteSet(AllOf(F, s))
         /\ Cardinality(AllOf(F, s)) = Cardinality(AllOf(F, less)) + Cardinality(F[x]) - Cardinality({})
    BY <2>6, <2>11
  <2>14. Cardinality(AllOf(F, s)) = Sum(f, less) + f[x] - 0
    BY <2>9, <2>10, <2>12, <2>13
  <2>15. good(s)
    BY <2>7, <2>8, <2>13, <2>14 DEF good
  <2> QED BY <2>2, <2>15
<1> QED BY <1>2

\* One application's total counts no byte twice, however its folders nest, and
\* none that another's would count (apps.rs: drop_ancestors, footprints).
LEMMA TotalsOnce ==
  ASSUME NEW apps, IsFiniteSet(apps), apps \subseteq App
  PROVE  OneTotalCountsOnce(apps)
<1> SUFFICES ASSUME NEW a \in apps
             PROVE  LET beneath(dirs) == {d \in Directories : \E l \in dirs : IsPrefix(l, d)}
                        others == UNION {Locations(b) : b \in apps \ {a}}
                    IN /\ Bytes(Locations(a)) = Cardinality(beneath(Locations(a)))
                       /\ ActualBytes(a, apps) = Cardinality(beneath(Locations(a) \ others))
  BY Zenon DEF OneTotalCountsOnce
<1> DEFINE beneath(dirs) == {d \in Directories : \E l \in dirs : IsPrefix(l, d)}
           others == UNION {Locations(b) : b \in apps \ {a}}
           F == [d \in Directories |-> {x \in Directories : IsPrefix(d, x)}]
<1>1. IsFiniteSet(Directories) /\ Directories \subseteq Seq(STRING)
  BY RootsAssumption
<1>2. Locations(a) \subseteq Directories /\ IsFiniteSet(Locations(a))
  <2>1. Locations(a) \subseteq Directories
    BY DEF Locations, DropAncestors, Locate, Named, Children
  <2> QED BY <1>1, <2>1, FS_Subset
<1>3. ASSUME NEW d \in Locations(a), NEW e \in Locations(a), d # e PROVE F[d] \cap F[e] = {}
  <2> SUFFICES ASSUME NEW x \in Directories, IsPrefix(d, x), IsPrefix(e, x) PROVE FALSE
    BY <1>2
  <2>1. d \in Seq(STRING) /\ e \in Seq(STRING) /\ x \in Seq(STRING)
    BY <1>1, <1>2
  <2>2. Len(d) <= Len(e) \/ Len(e) <= Len(d)
    BY <2>1
  <2>3. IsPrefix(d, e) \/ IsPrefix(e, d)
    BY <2>1, <2>2, PrefixesCompare
  <2> QED BY <1>3, <2>3 DEF Locations, DropAncestors
<1>4. ASSUME NEW D \in SUBSET Locations(a) PROVE Bytes(D) = Cardinality(beneath(D))
  <2>1. IsFiniteSet(D) /\ D \subseteq Directories
    BY <1>2, FS_Subset
  <2>2. \A d \in D : IsFiniteSet(F[d]) /\ TotalOf[d] = Cardinality(F[d])
    <3> SUFFICES ASSUME NEW d \in D PROVE IsFiniteSet(F[d]) /\ TotalOf[d] = Cardinality(F[d])
      OBVIOUS
    <3>1. d \in Directories /\ F[d] \subseteq Directories
      BY <2>1
    <3>2. TotalOf[d] = Cardinality({x \in Directories : IsPrefix(d, x)})
      BY <3>1, Zenon DEF TotalOf
    <3>3. F[d] = {x \in Directories : IsPrefix(d, x)}
      BY <3>1
    <3> QED BY <1>1, <3>1, <3>2, <3>3, FS_Subset
  <2>3. \A d, e \in D : d # e => F[d] \cap F[e] = {}
    BY <1>3
  <2>4. AllOf(F, D) = beneath(D)
    <3>1. \A d \in D : F[d] = {x \in Directories : IsPrefix(d, x)}
      BY <2>1
    <3> HIDE DEF F
    <3>2. \A x : x \in AllOf(F, D) <=> \E d \in D : x \in F[d]
      BY DEF AllOf
    <3>3. \A x : x \in beneath(D) <=> x \in Directories /\ \E d \in D : IsPrefix(d, x)
      OBVIOUS
    <3>4. \A x : x \in AllOf(F, D) <=> x \in beneath(D)
      <4> HIDE DEF beneath
      <4> QED BY <3>1, <3>2, <3>3
    <3> HIDE DEF beneath
    <3> QED BY <3>4
  <2>5. Bytes(D) = Sum(TotalOf, D)
    BY DEF Bytes, Sum
  <2> HIDE DEF F, beneath
  <2>6. Cardinality(AllOf(F, D)) = Sum(TotalOf, D)
    BY <2>1, <2>2, <2>3, PartsAddUp
  <2> QED BY <2>4, <2>5, <2>6
<1>5. {d \in Locations(a) : SharedWith(d, apps) = 0} = Locations(a) \ others
  <2>1. ASSUME NEW d \in Locations(a) PROVE SharedWith(d, apps) = 0 <=> d \notin others
    <3> DEFINE claim == {b \in apps : d \in Locations(b)}
    <3>1. IsFiniteSet(claim) /\ Cardinality(claim) \in Nat /\ a \in claim
      <4>1. IsFiniteSet(claim) /\ a \in claim
        BY FS_Subset
      <4> HIDE DEF claim
      <4> QED BY <4>1, FS_CardinalityType
    <3>2. SharedWith(d, apps) = Cardinality(claim) - 1
      BY DEF SharedWith
    <3>3. d \notin others <=> claim = {a}
      <4>1. d \in others <=> \E b \in claim : b # a
        OBVIOUS
      <4> HIDE DEF claim, others
      <4> QED BY <3>1, <4>1
    <3> HIDE DEF claim, others
    <3>4. Cardinality(claim) = 1 <=> claim = {a}
      BY <3>1, FS_Singleton
    <3> QED BY <3>1, <3>2, <3>3, <3>4
  <2> HIDE DEF others
  <2> QED BY <2>1
<1>6. ActualBytes(a, apps) = Bytes(Locations(a) \ others)
  BY <1>5 DEF ActualBytes
<1>7. Bytes(Locations(a)) = Cardinality(beneath(Locations(a)))
  BY <1>4
<1>8. Bytes(Locations(a) \ others) = Cardinality(beneath(Locations(a) \ others))
  <2>1. Locations(a) \ others \in SUBSET Locations(a)
    OBVIOUS
  <2> HIDE DEF others, beneath
  <2> QED BY <1>4, <2>1
<1> QED BY <1>6, <1>7, <1>8, Zenon

-----------------------------------------------------------------------------
(* The reading of the file table.                                            *)

\* A stretch of a sequence, by its first and last place.
LEMMA StretchIs ==
  ASSUME NEW S, NEW s \in Seq(S), NEW a \in Nat \ {0}, NEW b \in Nat, b <= Len(s), a <= b + 1
  PROVE  /\ SubSeq(s, a, b) \in Seq(S) /\ Len(SubSeq(s, a, b)) = b - a + 1
         /\ \A i \in 1 .. b - a + 1 : SubSeq(s, a, b)[i] = s[a + i - 1]
OBVIOUS

LEMMA StretchOfStretch ==
  ASSUME NEW S, NEW s \in Seq(S), NEW a \in Nat \ {0}, NEW b \in Nat, b <= Len(s), a <= b + 1,
         NEW i \in Nat \ {0}, NEW j \in Nat, j <= b - a + 1, i <= j + 1
  PROVE  SubSeq(SubSeq(s, a, b), i, j) = SubSeq(s, a + i - 1, a + j - 1)
<1> DEFINE p == SubSeq(s, a, b)
<1>1. p \in Seq(S) /\ Len(p) = b - a + 1 /\ \A k \in 1 .. b - a + 1 : p[k] = s[a + k - 1]
  BY StretchIs
<1> HIDE DEF p
<1> DEFINE q == SubSeq(p, i, j)
           r == SubSeq(s, a + i - 1, a + j - 1)
<1>2. q \in Seq(S) /\ Len(q) = j - i + 1 /\ \A k \in 1 .. j - i + 1 : q[k] = p[i + k - 1]
  BY <1>1, StretchIs
<1>3. r \in Seq(S) /\ Len(r) = j - i + 1 /\ \A k \in 1 .. j - i + 1 : r[k] = s[a + i - 1 + k - 1]
  <2>1. /\ a + i - 1 \in Nat \ {0} /\ a + j - 1 \in Nat /\ a + j - 1 <= Len(s)
        /\ a + i - 1 <= (a + j - 1) + 1 /\ (a + j - 1) - (a + i - 1) + 1 = j - i + 1
    OBVIOUS
  <2> DEFINE x == a + i - 1
             y == a + j - 1
  <2> HIDE DEF x, y
  <2>2. SubSeq(s, x, y) \in Seq(S) /\ Len(SubSeq(s, x, y)) = y - x + 1
        /\ \A k \in 1 .. y - x + 1 : SubSeq(s, x, y)[k] = s[x + k - 1]
    BY <2>1, StretchIs DEF x, y
  <2> QED BY <2>1, <2>2 DEF x, y
<1> HIDE DEF q, r
<1>4. ASSUME NEW k \in 1 .. j - i + 1 PROVE q[k] = r[k]
  <2>1. i + k - 1 \in 1 .. b - a + 1 /\ a + (i + k - 1) - 1 = a + i - 1 + k - 1
    OBVIOUS
  <2> DEFINE m == i + k - 1
  <2>2. m \in 1 .. b - a + 1 /\ a + m - 1 = a + i - 1 + k - 1
    BY <2>1
  <2>3. q[k] = p[m]
    BY <1>2
  <2> HIDE DEF m
  <2> QED BY <1>1, <1>3, <2>2, <2>3
<1>5. q = r
  BY <1>2, <1>3, <1>4
<1> QED BY <1>5 DEF p, q, r

LEMMA StretchesMeet ==
  ASSUME NEW S, NEW s \in Seq(S), NEW a \in Nat \ {0}, NEW b \in Nat, NEW d \in Nat,
         d <= Len(s), a <= b + 1, b <= d
  PROVE  SubSeq(s, a, b) \o SubSeq(s, b + 1, d) = SubSeq(s, a, d)
<1> DEFINE p == SubSeq(s, a, b)
           q == SubSeq(s, b + 1, d)
           r == SubSeq(s, a, d)
           both == p \o q
<1>1. p \in Seq(S) /\ Len(p) = b - a + 1 /\ \A k \in 1 .. b - a + 1 : p[k] = s[a + k - 1]
  BY StretchIs
<1>2. q \in Seq(S) /\ Len(q) = d - b /\ \A k \in 1 .. d - b : q[k] = s[b + k]
  <2> DEFINE x == b + 1
  <2>1. x \in Nat \ {0} /\ x <= d + 1 /\ d - x + 1 = d - b /\ \A k \in 1 .. d - b : x + k - 1 = b + k
    OBVIOUS
  <2> HIDE DEF x
  <2>2. SubSeq(s, x, d) \in Seq(S) /\ Len(SubSeq(s, x, d)) = d - x + 1
        /\ \A k \in 1 .. d - x + 1 : SubSeq(s, x, d)[k] = s[x + k - 1]
    BY <2>1, StretchIs
  <2> QED BY <2>1, <2>2 DEF x
<1>3. r \in Seq(S) /\ Len(r) = d - a + 1 /\ \A k \in 1 .. d - a + 1 : r[k] = s[a + k - 1]
  BY StretchIs
<1> HIDE DEF p, q, r
<1>4. /\ both \in Seq(S) /\ Len(both) = Len(p) + Len(q)
      /\ \A k \in 1 .. Len(p) + Len(q) : both[k] = IF k <= Len(p) THEN p[k] ELSE q[k - Len(p)]
  <2>1. p \in Seq(S) /\ q \in Seq(S)
    BY <1>1, <1>2
  <2> QED BY <2>1, ConcatProperties
<1> HIDE DEF both
<1>5. Len(both) = d - a + 1
  BY <1>1, <1>2, <1>4
<1>6. ASSUME NEW k \in 1 .. d - a + 1 PROVE both[k] = r[k]
  <2>1. k \in 1 .. Len(p) + Len(q)
    BY <1>1, <1>2
  <2>2. CASE k <= b - a + 1
    <3>1. k \in 1 .. b - a + 1 /\ k <= Len(p)
      BY <1>1, <2>2
    <3> QED BY <1>1, <1>3, <1>4, <2>1, <3>1
  <2>3. CASE ~(k <= b - a + 1)
    <3> DEFINE m == k - (b - a + 1)
    <3>1. m \in 1 .. d - b /\ b + m = a + k - 1 /\ ~(k <= Len(p)) /\ k - Len(p) = m
      BY <1>1, <2>3
    <3> HIDE DEF m
    <3>2. both[k] = q[m]
      BY <1>4, <2>1, <3>1
    <3> QED BY <1>2, <1>3, <3>1, <3>2
  <2> QED BY <2>2, <2>3
<1>7. both = r
  BY <1>3, <1>4, <1>5, <1>6
<1> QED BY <1>7 DEF both, p, q, r

Sector == Nat \X Nat

\* A record is in the two sectors one after the other.
LEMMA SectorsAre ==
  ASSUME NEW table, Len(table) \in Nat
  PROVE  /\ SectorsOf(table) \in Seq(Sector) /\ Len(SectorsOf(table)) = 2 * Len(table)
         /\ \A n \in 1 .. Len(table) :
              SectorsOf(table)[2 * n - 1] = <<n, 1>> /\ SectorsOf(table)[2 * n] = <<n, 2>>
<1> DEFINE N == Len(table)
           all == SectorsOf(table)
<1>1. all = [k \in 1 .. 2 * N |-> <<(k + 1) \div 2, ((k + 1) % 2) + 1>>]
  BY DEF SectorsOf
<1>2. ASSUME NEW k \in 1 .. 2 * N PROVE <<(k + 1) \div 2, ((k + 1) % 2) + 1>> \in Sector
  <2>1. (k + 1) \div 2 \in Nat /\ ((k + 1) % 2) + 1 \in Nat
    OBVIOUS
  <2> QED BY <2>1 DEF Sector
<1>3. ASSUME NEW n \in 1 .. N
      PROVE  all[2 * n - 1] = <<n, 1>> /\ all[2 * n] = <<n, 2>>
  <2>1. /\ 2 * n - 1 \in 1 .. 2 * N /\ 2 * n \in 1 .. 2 * N
        /\ (2 * n - 1 + 1) \div 2 = n /\ ((2 * n - 1 + 1) % 2) + 1 = 1
        /\ (2 * n + 1) \div 2 = n /\ ((2 * n + 1) % 2) + 1 = 2
    OBVIOUS
  <2> QED BY <1>1, <2>1
<1> HIDE DEF N
<1>4. all \in [1 .. 2 * N -> Sector]
  BY <1>1, <1>2
<1>5. N \in Nat /\ 2 * N \in Nat
  BY DEF N
<1>6. all \in Seq(Sector) /\ Len(all) = 2 * N
  BY <1>4, <1>5
<1> QED BY <1>3, <1>6 DEF N

EntryOf(r) == [parent |-> r.parent, folder |-> r.what = "folder", bytes |-> OwnBytes(r)]

\* Of the records from f up to g, those of some kinds.
Kind(table, f, g, kinds) == {n \in f .. g - 1 : table[n].what \in kinds}

Spills(table, f, g) == {n \in Kind(table, f, g, {"extension"}) : table[n].bytes # NoData}

\* The block that holds the records from f up to g.
BlockFrom(table, q, f, g) ==
  [sequence |-> q, first |-> f, sectors |-> SubSeq(SectorsOf(table), 2 * f - 1, 2 * g - 2)]

\* A block of whole records says what they say, each by its own number.
LEMMA ParsedIs ==
  ASSUME NEW table, Len(table) \in Nat, NEW f \in Nat \ {0}, NEW g \in Nat, f < g, g <= Len(table) + 1, NEW q
  PROVE  LET says == ParseBlock(table, BlockFrom(table, q, f, g))
         IN /\ says.sequence = q
            /\ says.entries = {<<n, EntryOf(table[n])>> : n \in Kind(table, f, g, {"file", "folder"})}
            /\ says.sizes = [n \in Spills(table, f, g) |-> [of |-> table[n].parent, bytes |-> table[n].bytes]]
            /\ says.skipped = Cardinality(Kind(table, f, g, {"torn"}))
<1> DEFINE block == BlockFrom(table, q, f, g)
           count == Len(block.sectors) \div 2
           numbers == block.first .. block.first + count - 1
           half(n, k) == block.sectors[2 * (n - block.first) + k]
           record == [n \in numbers |-> Framed(table, half(n, 1), half(n, 2))]
           those(kinds) == {n \in numbers : record[n].what \in kinds}
           says == ParseBlock(table, block)
<1>1. /\ says.sequence = block.sequence
      /\ says.entries = {<<n, [parent |-> record[n].parent, folder |-> record[n].what = "folder",
                              bytes |-> OwnBytes(record[n])]>> : n \in those({"file", "folder"})}
      /\ says.sizes = [n \in {m \in those({"extension"}) : record[m].bytes # NoData} |->
                        [of |-> record[n].parent, bytes |-> record[n].bytes]]
      /\ says.skipped = Cardinality(those({"torn"}))
  BY DEF ParseBlock
<1>2. /\ block.sequence = q /\ block.first = f
      /\ block.sectors = SubSeq(SectorsOf(table), 2 * f - 1, 2 * g - 2)
  BY DEF BlockFrom
<1>3. /\ SectorsOf(table) \in Seq(Sector) /\ Len(SectorsOf(table)) = 2 * Len(table)
      /\ \A n \in 1 .. Len(table) :
           SectorsOf(table)[2 * n - 1] = <<n, 1>> /\ SectorsOf(table)[2 * n] = <<n, 2>>
  BY SectorsAre
<1> HIDE DEF block
<1>4. /\ Len(block.sectors) = 2 * (g - f)
      /\ \A i \in 1 .. 2 * (g - f) : block.sectors[i] = SectorsOf(table)[2 * f + i - 2]
  <2> DEFINE a == 2 * f - 1
             b == 2 * g - 2
  <2>1. /\ a \in Nat \ {0} /\ b \in Nat /\ b <= 2 * Len(table) /\ a <= b + 1 /\ b - a + 1 = 2 * (g - f)
        /\ \A i \in 1 .. 2 * (g - f) : a + i - 1 = 2 * f + i - 2
    OBVIOUS
  <2> HIDE DEF a, b
  <2>2. /\ Len(SubSeq(SectorsOf(table), a, b)) = b - a + 1
        /\ \A i \in 1 .. b - a + 1 : SubSeq(SectorsOf(table), a, b)[i] = SectorsOf(table)[a + i - 1]
    BY <1>3, <2>1, StretchIs
  <2> QED BY <1>2, <2>1, <2>2 DEF a, b
<1>5. numbers = f .. g - 1
  <2>1. count = g - f
    <3>1. (2 * (g - f)) \div 2 = g - f
      OBVIOUS
    <3> QED BY <1>4, <3>1
  <2> HIDE DEF count
  <2> QED BY <1>2, <2>1
<1>6. ASSUME NEW n \in f .. g - 1 PROVE half(n, 1) = <<n, 1>> /\ half(n, 2) = <<n, 2>>
  <2> DEFINE i == 2 * (n - f) + 1
             j == 2 * (n - f) + 2
  <2>1. /\ i \in 1 .. 2 * (g - f) /\ 2 * f + i - 2 = 2 * n - 1
        /\ j \in 1 .. 2 * (g - f) /\ 2 * f + j - 2 = 2 * n /\ n \in 1 .. Len(table)
    OBVIOUS
  <2>2. half(n, 1) = block.sectors[i] /\ half(n, 2) = block.sectors[j]
    BY <1>2
  <2> HIDE DEF i, j, half
  <2>3. half(n, 1) = SectorsOf(table)[2 * n - 1] /\ half(n, 2) = SectorsOf(table)[2 * n]
    BY <1>4, <2>1, <2>2
  <2> QED BY <1>3, <2>1, <2>3
<1> HIDE DEF half, numbers
<1>7. \A n \in f .. g - 1 : Framed(table, <<n, 1>>, <<n, 2>>) = table[n]
  <2> SUFFICES ASSUME NEW n \in f .. g - 1 PROVE Framed(table, <<n, 1>>, <<n, 2>>) = table[n]
    OBVIOUS
  <2>1. <<n, 1>>[1] = n /\ <<n, 1>>[2] = 1 /\ <<n, 2>>[1] = n /\ <<n, 2>>[2] = 2
    OBVIOUS
  <2> QED BY <2>1 DEF Framed
<1>8. record = [n \in f .. g - 1 |-> table[n]]
  <2>1. \A n \in f .. g - 1 : Framed(table, half(n, 1), half(n, 2)) = table[n]
    BY <1>6, <1>7
  <2> QED BY <1>5, <2>1
<1> HIDE DEF record
<1>9. \A kinds : those(kinds) = Kind(table, f, g, kinds)
  BY <1>5, <1>8 DEF Kind
<1>10. \A kinds : \A n \in those(kinds) : record[n] = table[n]
  BY <1>5, <1>8
<1> HIDE DEF those
<1>11. says.entries = {<<n, EntryOf(table[n])>> : n \in Kind(table, f, g, {"file", "folder"})}
  <2> DEFINE kinds == those({"file", "folder"})
  <2>1. kinds = Kind(table, f, g, {"file", "folder"}) /\ \A n \in kinds : record[n] = table[n]
    BY <1>9, <1>10
  <2>2. says.entries = {<<n, EntryOf(record[n])>> : n \in kinds}
    BY <1>1 DEF EntryOf
  <2> HIDE DEF kinds, says
  <2>3. {<<n, EntryOf(record[n])>> : n \in kinds} = {<<n, EntryOf(table[n])>> : n \in kinds}
    BY <2>1
  <2> QED BY <2>1, <2>2, <2>3
<1>12. says.sizes = [n \in Spills(table, f, g) |-> [of |-> table[n].parent, bytes |-> table[n].bytes]]
  <2> DEFINE kinds == those({"extension"})
             some == {m \in kinds : record[m].bytes # NoData}
  <2>1. kinds = Kind(table, f, g, {"extension"}) /\ \A n \in kinds : record[n] = table[n]
    BY <1>9, <1>10
  <2>2. says.sizes = [n \in some |-> [of |-> record[n].parent, bytes |-> record[n].bytes]]
    BY <1>1
  <2> HIDE DEF kinds, says
  <2>3. some = Spills(table, f, g) /\ \A n \in some : record[n] = table[n]
    BY <2>1 DEF Spills
  <2> HIDE DEF some
  <2> QED BY <2>2, <2>3
<1>13. says.skipped = Cardinality(Kind(table, f, g, {"torn"}))
  BY <1>1, <1>9
<1> QED BY <1>1, <1>2, <1>11, <1>12, <1>13 DEF block

Cut(s, a, b) == SubSeq(s, a, b)

LEMMA Pair == ASSUME NEW x, NEW y PROVE <<x>> \o <<y>> = <<x, y>>
<1> DEFINE p == <<x>> \o <<y>>
           q == <<x, y>>
           S == {x, y}
<1>1. <<x>> \in Seq(S) /\ <<y>> \in Seq(S) /\ q \in Seq(S)
  OBVIOUS
<1>2. Len(<<x>>) = 1 /\ Len(<<y>>) = 1 /\ Len(q) = 2 /\ q[1] = x /\ q[2] = y
  OBVIOUS
<1>3. p \in Seq(S) /\ Len(p) = 2
  BY <1>1, <1>2
<1>4. p[1] = x /\ p[2] = y
  BY <1>1, <1>2
<1> HIDE DEF p, q, S
<1>5. \A i \in 1 .. 2 : p[i] = q[i]
  BY <1>2, <1>4
<1>6. p = q
  BY <1>1, <1>2, <1>3, <1>5
<1> QED BY <1>6 DEF p, q

Piece(a, b) == SubSeq(SectorsOf(onDisk), a, b)

Size == 2 * Len(onDisk)

\* The first c sectors have been read: what is no whole record yet is carried
\* over, and the rest is in the runs, of which there are at most two.
ReadUpTo(c) ==
  /\ c \in 0 .. Size /\ nextRecord \in Nat \ {0}
  /\ 2 * nextRecord - 2 <= c /\ c <= 2 * nextRecord - 1
  /\ carry = Piece(2 * nextRecord - 1, c)
  /\ \/ runs = <<>> /\ c = Size
     \/ c < Size /\ runs = <<Piece(c + 1, Size)>>
     \/ \E e \in c + 1 .. Size - 1 : runs = <<Piece(c + 1, e), Piece(e + 1, Size)>>

LEMMA PieceIs ==
  ASSUME Len(onDisk) \in Nat, NEW a \in Nat \ {0}, NEW b \in Nat, b <= Size, a <= b + 1
  PROVE  Piece(a, b) \in Seq(Sector) /\ Len(Piece(a, b)) = b - a + 1
<1>1. SectorsOf(onDisk) \in Seq(Sector) /\ Len(SectorsOf(onDisk)) = Size
  BY SectorsAre DEF Size
<1> QED BY <1>1, StretchIs DEF Piece

LEMMA PieceOfPiece ==
  ASSUME Len(onDisk) \in Nat, NEW a \in Nat \ {0}, NEW b \in Nat, b <= Size, a <= b + 1,
         NEW i \in Nat \ {0}, NEW j \in Nat, j <= b - a + 1, i <= j + 1,
         NEW k \in Nat, k = a + i - 1, NEW m \in Nat, m = a + j - 1
  PROVE  Cut(Piece(a, b), i, j) = Piece(k, m)
<1>1. SectorsOf(onDisk) \in Seq(Sector) /\ Len(SectorsOf(onDisk)) = Size
  BY SectorsAre DEF Size
<1> QED BY <1>1, StretchOfStretch DEF Piece, Cut

LEMMA PiecesMeet ==
  ASSUME Len(onDisk) \in Nat, NEW a \in Nat \ {0}, NEW b \in Nat, NEW d \in Nat, d <= Size, a <= b + 1, b <= d
  PROVE  Piece(a, b) \o Piece(b + 1, d) = Piece(a, d)
<1>1. SectorsOf(onDisk) \in Seq(Sector) /\ Len(SectorsOf(onDisk)) = Size
  BY SectorsAre DEF Size
<1> QED BY <1>1, StretchesMeet DEF Piece

\* What the reading thread does with n sectors more: the buffer it frames is the
\* piece of the table that follows the records already framed.
LEMMA BufferIs ==
  ASSUME Len(onDisk) \in Nat, NEW c, ReadUpTo(c), runs # <<>>, NEW n \in Nat \ {0}, n <= Len(runs[1])
  PROVE  /\ c + n \in 1 .. Size
         /\ carry \o SubSeq(runs[1], 1, n) = Piece(2 * nextRecord - 1, c + n)
         /\ \/ c + n = Size /\ After(n) = <<>>
            \/ c + n < Size /\ After(n) = <<Piece(c + n + 1, Size)>>
            \/ \E e \in c + n + 1 .. Size - 1 : After(n) = <<Piece(c + n + 1, e), Piece(e + 1, Size)>>
<1>1. /\ c \in Nat /\ Size \in Nat /\ nextRecord \in Nat \ {0} /\ 2 * nextRecord - 2 <= c /\ c <= Size
      /\ carry = Piece(2 * nextRecord - 1, c)
  BY DEF ReadUpTo, Size
<1>2. PICK e \in c + 1 .. Size :
        \/ e = Size /\ runs = <<Piece(c + 1, e)>>
        \/ e < Size /\ runs = <<Piece(c + 1, e), Piece(e + 1, Size)>>
  <2>1. CASE c < Size /\ runs = <<Piece(c + 1, Size)>>
    <3>1. Size \in c + 1 .. Size
      BY <1>1, <2>1
    <3> QED BY <2>1, <3>1
  <2>2. ASSUME NEW e \in c + 1 .. Size - 1
        PROVE  e \in c + 1 .. Size /\ e < Size
    BY <1>1, <2>2
  <2> QED BY <2>1, <2>2 DEF ReadUpTo
<1> DEFINE front == Piece(c + 1, e)
           back == Piece(e + 1, Size)
<1> HIDE DEF front, back
<1>3. Len(front) = e - c /\ front \in Seq(Sector)
  <2> DEFINE a == c + 1
  <2>1. a \in Nat \ {0} /\ e \in Nat /\ e <= Size /\ a <= e + 1 /\ e - a + 1 = e - c
    BY <1>1
  <2> HIDE DEF a
  <2>2. Piece(a, e) \in Seq(Sector) /\ Len(Piece(a, e)) = e - a + 1
    BY <2>1, PieceIs
  <2> QED BY <2>1, <2>2 DEF a, front
<1>12. /\ runs = IF e = Size THEN <<front>> ELSE <<front, back>>
       /\ runs[1] = front /\ Tail(runs) = IF e = Size THEN <<>> ELSE <<back>>
  <2>1. runs = IF e = Size THEN <<front>> ELSE <<front, back>>
    BY <1>1, <1>2 DEF front, back
  <2>2. <<front>>[1] = front /\ <<front, back>>[1] = front
        /\ Tail(<<front>>) = <<>> /\ Tail(<<front, back>>) = <<back>>
    OBVIOUS
  <2> QED BY <2>1, <2>2
<1>4. n <= e - c /\ c + n <= e /\ e <= Size /\ e \in Nat
  BY <1>1, <1>3, <1>12
<1>5. carry \o SubSeq(runs[1], 1, n) = Piece(2 * nextRecord - 1, c + n)
  <2>1. SubSeq(runs[1], 1, n) = Piece(c + 1, c + n)
    <3> DEFINE a == c + 1
               m == c + n
    <3>1. /\ a \in Nat \ {0} /\ a <= e + 1 /\ n <= e - a + 1 /\ 1 <= n + 1 /\ 1 \in Nat \ {0}
          /\ a = a + 1 - 1 /\ m = a + n - 1 /\ n \in Nat /\ m \in Nat /\ a \in Nat
      BY <1>1, <1>4
    <3> HIDE DEF a, m
    <3>2. Cut(Piece(a, e), 1, n) = Piece(a, m)
      BY <1>4, <3>1, PieceOfPiece
    <3> QED BY <1>12, <3>2 DEF a, m, front, Cut
  <2> DEFINE a == 2 * nextRecord - 1
             d == c + n
  <2>2. a \in Nat \ {0} /\ d \in Nat /\ d <= Size /\ a <= c + 1 /\ c <= d
    BY <1>1, <1>4
  <2> HIDE DEF a, d
  <2>3. Piece(a, c) \o Piece(c + 1, d) = Piece(a, d)
    BY <1>1, <2>2, PiecesMeet
  <2> QED BY <1>1, <2>1, <2>3 DEF a, d
<1>6. SubSeq(runs[1], n + 1, Len(runs[1])) = Piece(c + n + 1, e)
  <2> DEFINE a == c + 1
             i == n + 1
             j == e - c
             k == c + n + 1
  <2>1. /\ a \in Nat \ {0} /\ a <= e + 1 /\ i \in Nat \ {0} /\ j \in Nat /\ j <= e - a + 1 /\ i <= j + 1
        /\ k = a + i - 1 /\ e = a + j - 1 /\ k \in Nat
    BY <1>1, <1>4
  <2> HIDE DEF a, i, j, k
  <2>2. Cut(Piece(a, e), i, j) = Piece(k, e)
    BY <1>4, <2>1, PieceOfPiece
  <2> QED BY <1>3, <1>12, <2>2 DEF a, i, j, k, front, Cut
<1> DEFINE rest == Piece(c + n + 1, e)
<1>7. Len(rest) = e - (c + n) /\ rest \in Seq(Sector)
  <2> DEFINE a == c + n + 1
  <2>1. a \in Nat \ {0} /\ a <= e + 1 /\ e - a + 1 = e - (c + n)
    BY <1>1, <1>4
  <2> HIDE DEF a
  <2>2. Piece(a, e) \in Seq(Sector) /\ Len(Piece(a, e)) = e - a + 1
    BY <1>4, <2>1, PieceIs
  <2> QED BY <2>1, <2>2 DEF a
<1>8. rest = <<>> <=> e = c + n
  <2> HIDE DEF rest
  <2> QED BY <1>1, <1>4, <1>7
<1>9. After(n) = IF rest = <<>> THEN Tail(runs) ELSE <<rest>> \o Tail(runs)
  BY <1>6 DEF After
<1> HIDE DEF rest
<1>10. CASE e = Size
  <2>1. <<rest>> \o <<>> = <<rest>>
    OBVIOUS
  <2>2. After(n) = IF c + n = Size THEN <<>> ELSE <<rest>>
    BY <1>8, <1>9, <1>10, <1>12, <2>1
  <2>3. c + n = Size \/ c + n < Size
    BY <1>1, <1>4
  <2>4. c + n \in 1 .. Size
    BY <1>1, <1>4
  <2> QED BY <1>5, <1>10, <2>2, <2>3, <2>4 DEF rest
<1>11. CASE e # Size
  <2>1. <<rest>> \o <<back>> = <<rest, back>>
    BY Pair
  <2>2. After(n) = IF e = c + n THEN <<back>> ELSE <<rest, back>>
    BY <1>8, <1>9, <1>11, <1>12, <2>1
  <2>3. c + n \in 1 .. Size /\ c + n < Size /\ (e # c + n => e \in c + n + 1 .. Size - 1)
    BY <1>1, <1>4, <1>11
  <2>4. CASE e = c + n
    BY <1>5, <2>2, <2>3, <2>4 DEF back
  <2>5. CASE e # c + n
    BY <1>5, <2>2, <2>3, <2>5 DEF rest, back
  <2> QED BY <2>4, <2>5
<1> QED BY <1>10, <1>11

\* Two sectors a record: where the whole records end and the half one starts.
LEMMA HalfRecord ==
  ASSUME NEW r \in Nat \ {0}, NEW f \in Nat, NEW d \in Nat,
         2 * f <= d - (2 * r - 1) + 1, d - (2 * r - 1) + 1 <= 2 * f + 1
  PROVE  /\ r + f \in Nat \ {0} /\ 2 * (r + f) - 2 <= d /\ d <= 2 * (r + f) - 1
         /\ 2 * f + 1 \in Nat \ {0} /\ 2 * f + 1 <= d - (2 * r - 1) + 1 + 1
         /\ 2 * (r + f) - 1 \in Nat /\ 2 * (r + f) - 1 = (2 * r - 1) + (2 * f + 1) - 1
         /\ d = (2 * r - 1) + (d - (2 * r - 1) + 1) - 1
  OBVIOUS

\* One read: what it completes goes to the queue as a block of whole records.
LEMMA MoreIsRead ==
  ASSUME Len(onDisk) \in Nat, NEW c, ReadUpTo(c), runs # <<>>, NEW n \in Nat \ {0}, n <= Len(runs[1]),
         Frame(n), runs' = After(n), onDisk' = onDisk
  PROVE  /\ ReadUpTo(c + n)'
         /\ \/ UNCHANGED <<queue, sent, nextRecord>>
            \/ /\ nextRecord' \in Nat \ {0} /\ nextRecord < nextRecord'
               /\ sent' = sent + 1
               /\ queue' = Append(queue, BlockFrom(onDisk, sent + 1, nextRecord, nextRecord'))
<1> DEFINE d == c + n
           a == 2 * nextRecord - 1
           buffer == carry \o SubSeq(runs[1], 1, n)
           full == Len(buffer) \div 2
           next == nextRecord + full
<1>1. /\ d \in 1 .. Size /\ buffer = Piece(a, d)
      /\ \/ d = Size /\ runs' = <<>>
         \/ d < Size /\ runs' = <<Piece(d + 1, Size)>>
         \/ \E e \in d + 1 .. Size - 1 : runs' = <<Piece(d + 1, e), Piece(e + 1, Size)>>
  BY BufferIs
<1>2. /\ c \in Nat /\ Size \in Nat /\ nextRecord \in Nat \ {0} /\ 2 * nextRecord - 2 <= c /\ d \in Nat
      /\ a \in Nat \ {0} /\ a <= d + 1 /\ d <= Size
  BY <1>1, SMTT(30) DEF ReadUpTo, Size
<1>3. Len(buffer) = d - a + 1
  <2> HIDE DEF a, d, buffer
  <2> QED BY <1>1, <1>2, PieceIs
<1>4. /\ full \in Nat /\ 2 * full <= d - a + 1 /\ d - a + 1 <= 2 * full + 1
  <2> DEFINE l == d - a + 1
  <2>1. l \in Nat
    BY <1>2
  <2> HIDE DEF l
  <2>2. l \div 2 \in Nat /\ 2 * (l \div 2) <= l /\ l <= 2 * (l \div 2) + 1
    BY <2>1
  <2> HIDE DEF buffer
  <2> QED BY <1>3, <2>2 DEF l
<1>5. /\ carry' = SubSeq(buffer, 2 * full + 1, Len(buffer))
      /\ \/ full = 0 /\ UNCHANGED <<queue, sent, nextRecord>>
         \/ /\ full # 0 /\ sent' = sent + 1 /\ nextRecord' = next
            /\ queue' = Append(queue, [sequence |-> sent + 1, first |-> nextRecord,
                                       sectors |-> SubSeq(buffer, 1, 2 * full)])
  BY DEF Frame
<1> HIDE DEF full, buffer
<1>6. next \in Nat \ {0} /\ 2 * next - 2 <= d /\ d <= 2 * next - 1 /\ nextRecord' = next
  <2>1. nextRecord' = next
    BY <1>2, <1>5
  <2>2. nextRecord \in Nat \ {0} /\ d \in Nat
    BY <1>2
  <2> HIDE DEF d
  <2>3. next \in Nat \ {0} /\ 2 * next - 2 <= d /\ d <= 2 * next - 1
    BY <1>4, <2>2, HalfRecord
  <2> QED BY <2>1, <2>3
<1>7. carry' = Piece(2 * next - 1, d)
  <2> DEFINE i == 2 * full + 1
             j == Len(buffer)
             k == 2 * next - 1
  <2>1. /\ i \in Nat \ {0} /\ j \in Nat /\ j <= d - a + 1 /\ i <= j + 1
        /\ k \in Nat /\ k = a + i - 1 /\ d = a + j - 1
    <3>1. nextRecord \in Nat \ {0} /\ d \in Nat
      BY <1>2
    <3> HIDE DEF d
    <3>2. /\ i \in Nat \ {0} /\ i <= d - a + 1 + 1 /\ k \in Nat /\ k = a + i - 1
          /\ d = a + (d - a + 1) - 1
      BY <1>4, <3>1, HalfRecord
    <3>3. d - a + 1 \in Nat /\ j = d - a + 1
      <4>1. 0 <= 2 * full
        BY <1>4
      <4>2. d - a + 1 \in Int
        BY <3>1
      <4> HIDE DEF a
      <4> QED BY <1>3, <1>4, <4>1, <4>2
    <3> HIDE DEF i, j, k, a
    <3> QED BY <3>2, <3>3
  <2>3. a \in Nat \ {0} /\ d \in Nat /\ d <= Size /\ a <= d + 1
    BY <1>2
  <2> HIDE DEF i, j, k, a, d
  <2>2. Cut(Piece(a, d), i, j) = Piece(k, d)
    BY <2>1, <2>3, PieceOfPiece
  <2> QED BY <1>1, <1>5, <2>2 DEF Cut, i, j, k
<1>8. ReadUpTo(d)'
  <2>1. Size' = Size /\ \A x, y : Piece(x, y)' = Piece(x, y)
    BY DEF Size, Piece
  <2>2. Piece(2 * nextRecord - 1, d)' = Piece(2 * next - 1, d)
    <3> HIDE DEF next, d
    <3> QED BY <1>6 DEF Piece
  <2> HIDE DEF next, d, a
  <2>3. /\ d \in 0 .. Size' /\ nextRecord' \in Nat \ {0} /\ 2 * nextRecord' - 2 <= d /\ d <= 2 * nextRecord' - 1
        /\ carry' = Piece(2 * nextRecord - 1, d)'
    BY <1>2, <1>6, <1>7, <2>1, <2>2
  <2>4. \/ runs' = <<>> /\ d = Size'
        \/ d < Size' /\ runs' = <<Piece(d + 1, Size)'>>
        \/ \E e \in d + 1 .. Size' - 1 : runs' = <<Piece(d + 1, e)', Piece(e + 1, Size)'>>
    BY <1>1, <2>1 DEF Piece, Size
  <2> QED BY <2>3, <2>4 DEF ReadUpTo
<1>9. CASE full = 0
  BY <1>5, <1>8, <1>9
<1>10. CASE full # 0
  <2>1. SubSeq(buffer, 1, 2 * full) = SubSeq(SectorsOf(onDisk), 2 * nextRecord - 1, 2 * next - 2)
    <3> DEFINE j == 2 * full
               m == 2 * next - 2
    <3>1. /\ 1 \in Nat \ {0} /\ j \in Nat /\ j <= d - a + 1 /\ 1 <= j + 1
          /\ a \in Nat /\ a = a + 1 - 1 /\ m \in Nat /\ m = a + j - 1
      <4>1. j \in Nat /\ j <= d - a + 1 /\ 1 <= j + 1 /\ a \in Nat
        BY <1>2, <1>4
      <4>2. m = a + j - 1 /\ nextRecord \in Nat /\ nextRecord > 0
        BY <1>2, <1>4
      <4>3. m \in Nat
        BY <1>2, <1>4, <4>2
      <4>4. a = a + 1 - 1 /\ 1 \in Nat \ {0}
        BY <4>1
      <4> QED BY <4>1, <4>2, <4>3, <4>4
    <3> HIDE DEF j, m, a, d
    <3>2. Cut(Piece(a, d), 1, j) = Piece(a, m)
      BY <1>2, <3>1, PieceOfPiece
    <3> QED BY <1>1, <3>2 DEF Cut, j, m, a, Piece
  <2>2. nextRecord < next
    BY <1>2, <1>4, <1>10
  <2>3. queue' = Append(queue, BlockFrom(onDisk, sent + 1, nextRecord, next))
    BY <1>5, <1>10, <2>1 DEF BlockFrom
  <2> HIDE DEF next
  <2>4. /\ nextRecord' \in Nat \ {0} /\ nextRecord < nextRecord' /\ sent' = sent + 1
        /\ queue' = Append(queue, BlockFrom(onDisk, sent + 1, nextRecord, nextRecord'))
    <3>1. nextRecord' = next /\ nextRecord' \in Nat \ {0}
      BY <1>6
    <3>2. sent' = sent + 1
      BY <1>5, <1>10
    <3>3. BlockFrom(onDisk, sent + 1, nextRecord, next) = BlockFrom(onDisk, sent + 1, nextRecord, nextRecord')
      BY <3>1
    <3> QED BY <2>2, <2>3, <3>1, <3>2, <3>3, Zenon
  <2> QED BY <1>8, <2>4
<1> QED BY <1>9, <1>10

\* The s-th block, when each begins at a record of its own.
BlockOf(table, starts, s) == BlockFrom(table, s, starts[s], starts[s + 1])

OffQueue == 1 .. sent - Len(queue)

Results(starts) == {ParseBlock(onDisk, BlockOf(onDisk, starts, s)) : s \in OffQueue}

Blocks(starts) == {BlockOf(onDisk, starts, s) : s \in OffQueue}

\* The blocks a parser has taken.
Has(p) ==
  {mine[p][i].sequence : i \in DOMAIN mine[p]} \cup (IF parsing[p] = NoBlock THEN {} ELSE {parsing[p].sequence})

\* A parser takes them in the order they were read.
InTurn(p) ==
  \A i \in DOMAIN mine[p] :
    /\ \A j \in DOMAIN mine[p] : i < j => mine[p][i].sequence < mine[p][j].sequence
    /\ parsing[p] # NoBlock => mine[p][i].sequence < parsing[p].sequence

\* Every record framed so far is in one block, and every block is queued or with
\* one parser, who has parsed it or is about to.
Flow(starts) ==
  /\ sent \in Nat /\ starts \in [1 .. sent + 1 -> Nat \ {0}]
  /\ starts[1] = 1 /\ starts[sent + 1] = nextRecord /\ nextRecord <= Len(onDisk) + 1
  /\ \A s, t \in 1 .. sent + 1 : s < t => starts[s] < starts[t]
  /\ Len(queue) \in 0 .. sent /\ queue = [i \in 1 .. Len(queue) |-> BlockOf(onDisk, starts, sent - Len(queue) + i)]
  /\ mine \in [Parsers -> Seq(Results(starts))]
  /\ parsing \in [Parsers -> {NoBlock} \cup Blocks(starts)]
  /\ \A p \in Parsers : InTurn(p)
  /\ \A p, q \in Parsers : p # q => Has(p) \cap Has(q) = {}
  /\ UNION {Has(p) : p \in Parsers} = OffQueue

\* What one block says.
LEMMA BlockSays ==
  ASSUME Len(onDisk) \in Nat, NEW starts, Flow(starts), NEW s \in 1 .. sent
  PROVE  LET says == ParseBlock(onDisk, BlockOf(onDisk, starts, s))
             f == starts[s]
             g == starts[s + 1]
         IN /\ f \in Nat \ {0} /\ g \in Nat \ {0} /\ f < g /\ g <= Len(onDisk) + 1
            /\ BlockOf(onDisk, starts, s).sequence = s /\ BlockOf(onDisk, starts, s) # NoBlock
            /\ says.sequence = s
            /\ says.entries = {<<n, EntryOf(onDisk[n])>> : n \in Kind(onDisk, f, g, {"file", "folder"})}
            /\ says.sizes = [n \in Spills(onDisk, f, g) |-> [of |-> onDisk[n].parent, bytes |-> onDisk[n].bytes]]
            /\ says.skipped = Cardinality(Kind(onDisk, f, g, {"torn"}))
<1> DEFINE f == starts[s]
           g == starts[s + 1]
           N == Len(onDisk)
<1>1. f \in Nat \ {0} /\ g \in Nat \ {0} /\ f < g /\ g <= N + 1
  <2>1. /\ sent \in Nat /\ s \in 1 .. sent + 1 /\ s + 1 \in 1 .. sent + 1 /\ s < s + 1
        /\ sent + 1 \in 1 .. sent + 1 /\ (s + 1 = sent + 1 \/ s + 1 < sent + 1)
    BY DEF Flow
  <2>2. f \in Nat \ {0} /\ g \in Nat \ {0} /\ f < g
    BY <2>1 DEF Flow
  <2>3. starts[sent + 1] \in Nat \ {0} /\ starts[sent + 1] <= N + 1
    BY <2>1 DEF Flow
  <2>4. g = starts[sent + 1] \/ g < starts[sent + 1]
    BY <2>1 DEF Flow
  <2> HIDE DEF g
  <2> QED BY <2>2, <2>3, <2>4
<1>2. BlockOf(onDisk, starts, s) = BlockFrom(onDisk, s, f, g)
  BY DEF BlockOf
<1>3. BlockOf(onDisk, starts, s).sequence = s /\ BlockOf(onDisk, starts, s) # NoBlock
  <2>1. BlockOf(onDisk, starts, s).sequence = s
    BY <1>2 DEF BlockFrom
  <2>2. NoBlock.sequence = 0 /\ s # 0
    BY DEF NoBlock
  <2> QED BY <2>1, <2>2
<1> HIDE DEF f, g
<1>4. LET says == ParseBlock(onDisk, BlockFrom(onDisk, s, f, g))
      IN /\ says.sequence = s
         /\ says.entries = {<<n, EntryOf(onDisk[n])>> : n \in Kind(onDisk, f, g, {"file", "folder"})}
         /\ says.sizes = [n \in Spills(onDisk, f, g) |-> [of |-> onDisk[n].parent, bytes |-> onDisk[n].bytes]]
         /\ says.skipped = Cardinality(Kind(onDisk, f, g, {"torn"}))
  BY <1>1, ParsedIs
<1> QED BY <1>1, <1>2, <1>3, <1>4 DEF f, g

\* A block more is queued.
LEMMA BlockQueued ==
  ASSUME Len(onDisk) \in Nat, NEW starts, Flow(starts), UNCHANGED <<onDisk, mine, parsing>>,
         nextRecord' \in Nat \ {0}, nextRecord < nextRecord', nextRecord' <= Len(onDisk) + 1,
         sent' = sent + 1, queue' = Append(queue, BlockFrom(onDisk, sent + 1, nextRecord, nextRecord'))
  PROVE  \E more : Flow(more)'
<1> DEFINE n == Len(queue)
<1>0. PICK next : next = nextRecord'
  OBVIOUS
<1>1. /\ sent \in Nat /\ starts \in [1 .. sent + 1 -> Nat \ {0}] /\ n \in Nat /\ n <= sent
      /\ starts[1] = 1 /\ starts[sent + 1] = nextRecord /\ nextRecord \in Nat
      /\ \A s, t \in 1 .. sent + 1 : s < t => starts[s] < starts[t]
      /\ queue = [i \in 1 .. n |-> BlockOf(onDisk, starts, sent - n + i)]
  <2>1. sent \in Nat /\ sent + 1 \in 1 .. sent + 1
    BY DEF Flow
  <2> QED BY <2>1 DEF Flow
<1>6. PICK more : more = [s \in 1 .. sent + 2 |-> IF s = sent + 2 THEN next ELSE starts[s]]
  OBVIOUS
<1>2. /\ more \in [1 .. sent + 2 -> Nat \ {0}] /\ more[1] = 1 /\ more[sent + 2] = next
      /\ \A s \in 1 .. sent + 1 : more[s] = starts[s]
  <2>1. 1 \in 1 .. sent + 2 /\ sent + 2 \in 1 .. sent + 2 /\ 1 # sent + 2 /\ 1 \in 1 .. sent + 1
        /\ \A s \in 1 .. sent + 1 : s \in 1 .. sent + 2 /\ s # sent + 2
        /\ \A t \in 1 .. sent + 2 : t = sent + 2 \/ t \in 1 .. sent + 1
    BY <1>1
  <2>2. next \in Nat \ {0}
    BY <1>0
  <2> QED BY <1>1, <1>6, <2>1, <2>2
<1>3. \A s, t \in 1 .. sent + 2 : s < t => more[s] < more[t]
  <2> SUFFICES ASSUME NEW s \in 1 .. sent + 2, NEW t \in 1 .. sent + 2, s < t PROVE more[s] < more[t]
    BY Zenon
  <2>1. s \in 1 .. sent + 1
    BY <1>1
  <2>2. CASE t \in 1 .. sent + 1
    <3> QED BY <1>1, <1>2, <2>1, <2>2
  <2>3. CASE t = sent + 2
    <3>1. starts[s] = nextRecord \/ starts[s] < nextRecord
      <4>1. s = sent + 1 \/ s < sent + 1
        BY <1>1, <2>1
      <4>2. sent + 1 \in 1 .. sent + 1
        BY <1>1
      <4> QED BY <1>1, <2>1, <4>1, <4>2
    <3>2. starts[s] \in Nat /\ next \in Nat /\ nextRecord < next
      BY <1>0, <1>1, <2>1
    <3>3. more[s] = starts[s] /\ more[t] = next
      BY <1>2, <2>1, <2>3
    <3>4. nextRecord \in Nat
      BY <1>1
    <3> QED BY <3>1, <3>2, <3>3, <3>4
  <2> QED BY <1>1, <2>2, <2>3
<1>4. \A s \in 1 .. sent : BlockOf(onDisk, more, s) = BlockOf(onDisk, starts, s)
  <2> SUFFICES ASSUME NEW s \in 1 .. sent PROVE BlockOf(onDisk, more, s) = BlockOf(onDisk, starts, s)
    OBVIOUS
  <2>1. s \in 1 .. sent + 1 /\ s + 1 \in 1 .. sent + 1
    BY <1>1
  <2>2. more[s] = starts[s] /\ more[s + 1] = starts[s + 1]
    BY <1>2, <2>1
  <2> QED BY <2>2 DEF BlockOf
<1>5. BlockOf(onDisk, more, sent + 1) = BlockFrom(onDisk, sent + 1, nextRecord, next)
  <2>1. PICK k : k = sent + 1
    OBVIOUS
  <2>2. k \in 1 .. sent + 1 /\ k + 1 = sent + 2
    BY <1>1, <2>1
  <2>3. more[k] = nextRecord /\ more[k + 1] = next
    BY <1>1, <1>2, <2>1, <2>2
  <2> QED BY <2>1, <2>3 DEF BlockOf
<1> HIDE DEF n
<1>7. /\ Len(queue') = n + 1 /\ sent' - Len(queue') = sent - n /\ sent' + 1 = sent + 2
      /\ queue' = [i \in 1 .. n + 1 |-> BlockOf(onDisk, more, sent - n + i)]
  <2> DEFINE S == {BlockOf(onDisk, starts, s) : s \in 1 .. sent}
             new == BlockFrom(onDisk, sent + 1, nextRecord, next)
             block(i) == BlockOf(onDisk, starts, sent - n + i)
  <2>1. \A i \in 1 .. n : sent - n + i \in 1 .. sent
    BY <1>1
  <2>2. \A i \in 1 .. n : block(i) \in S
    BY <2>1
  <2>3. queue = [i \in 1 .. n |-> block(i)]
    BY <1>1
  <2>4. queue' = Append(queue, new)
    BY <1>0
  <2>5. \A i \in 1 .. n : block(i) = BlockOf(onDisk, more, sent - n + i)
    BY <1>4, <2>1
  <2>6. new = BlockOf(onDisk, more, sent - n + (n + 1))
    <3>1. sent - n + (n + 1) = sent + 1
      BY <1>1
    <3> QED BY <1>5, <3>1
  <2> HIDE DEF S, new, block
  <2>7. queue \in Seq(S) /\ Len(queue) = n
    <3>1. queue \in [1 .. n -> S] /\ n \in Nat
      BY <1>1, <2>2, <2>3
    <3>2. Len(queue) = n
      BY DEF n
    <3> QED BY <3>1, <3>2
  <2>8. queue' = [i \in 1 .. n + 1 |-> IF i = n + 1 THEN new ELSE queue[i]] /\ Len(queue') = n + 1
    BY <1>1, <2>4, <2>7
  <2>9. \A i \in 1 .. n + 1 : (IF i = n + 1 THEN new ELSE queue[i]) = BlockOf(onDisk, more, sent - n + i)
    <3>1. \A i \in 1 .. n + 1 : i = n + 1 \/ i \in 1 .. n
      BY <1>1
    <3> QED BY <2>3, <2>5, <2>6, <3>1
  <2>10. queue' = [i \in 1 .. n + 1 |-> BlockOf(onDisk, more, sent - n + i)]
    BY <2>8, <2>9
  <2> QED BY <1>1, <2>8, <2>10
<1>8. OffQueue' = OffQueue
  BY <1>7 DEF OffQueue, n
<1>9. \A s \in OffQueue : BlockOf(onDisk, more, s) = BlockOf(onDisk, starts, s)
  <2>1. OffQueue \subseteq 1 .. sent
    BY <1>1 DEF OffQueue, n
  <2> QED BY <1>4, <2>1
<1>10. Results(more)' = Results(starts) /\ Blocks(more)' = Blocks(starts)
  BY <1>8, <1>9 DEF Results, Blocks
<1>11. \A p \in Parsers : Has(p)' = Has(p) /\ (InTurn(p) => InTurn(p)')
  BY DEF Has, InTurn
<1>12. /\ mine' \in [Parsers -> Seq(Results(more)')]
       /\ parsing' \in [Parsers -> {NoBlock} \cup Blocks(more)']
       /\ \A p \in Parsers : InTurn(p)'
       /\ \A p, q \in Parsers : p # q => Has(p)' \cap Has(q)' = {}
       /\ UNION {Has(p)' : p \in Parsers} = OffQueue'
  BY <1>8, <1>10, <1>11 DEF Flow
<1>13. /\ sent' \in Nat /\ more \in [1 .. sent' + 1 -> Nat \ {0}]
       /\ more[1] = 1 /\ more[sent' + 1] = nextRecord' /\ nextRecord' <= Len(onDisk') + 1
       /\ \A s, t \in 1 .. sent' + 1 : s < t => more[s] < more[t]
       /\ Len(queue') \in 0 .. sent'
       /\ queue' = [i \in 1 .. Len(queue') |-> BlockOf(onDisk', more, sent' - Len(queue') + i)]
  <2>1. sent' \in Nat /\ Len(queue') \in 0 .. sent' /\ nextRecord' <= Len(onDisk') + 1
    BY <1>1, <1>7
  <2>2. sent' + 1 = sent + 2
    BY <1>7
  <2>3. more \in [1 .. sent' + 1 -> Nat \ {0}] /\ more[1] = 1 /\ more[sent' + 1] = nextRecord'
        /\ \A s, t \in 1 .. sent' + 1 : s < t => more[s] < more[t]
    BY <1>0, <1>2, <1>3, <2>2
  <2>4. queue' = [i \in 1 .. Len(queue') |-> BlockOf(onDisk', more, sent' - Len(queue') + i)]
    BY <1>7
  <2> QED BY <2>1, <2>3, <2>4
<1>14. Flow(more)'
  BY <1>12, <1>13 DEF Flow
<1> QED BY <1>14

\* What a parser has comes from the blocks taken.
LEMMA HasTaken ==
  ASSUME NEW starts, Flow(starts), NEW p \in Parsers
  PROVE  /\ Has(p) \subseteq OffQueue
         /\ \A i \in DOMAIN mine[p] : mine[p][i].sequence \in Has(p)
         /\ parsing[p] # NoBlock => parsing[p].sequence \in Has(p)
<1>1. UNION {Has(q) : q \in Parsers} = OffQueue
  BY DEF Flow
<1>2. Has(p) \in {Has(q) : q \in Parsers}
  OBVIOUS
<1>3. Has(p) \subseteq OffQueue
  BY <1>1, <1>2, Zenon
<1> QED BY <1>3 DEF Has

\* A block is taken off the queue.
LEMMA BlockTaken ==
  ASSUME Len(onDisk) \in Nat, NEW starts, Flow(starts), NEW p \in Parsers, TakeBlock(p)
  PROVE  Flow(starts)'
<1> DEFINE n == Len(queue)
           k == sent - n + 1
<1>1. /\ sent \in Nat /\ n \in Nat /\ n <= sent /\ queue = [i \in 1 .. n |-> BlockOf(onDisk, starts, sent - n + i)]
      /\ starts \in [1 .. sent + 1 -> Nat \ {0}]
  BY DEF Flow
<1>2. /\ parsing[p] = NoBlock /\ queue # <<>> /\ queue' = Tail(queue)
      /\ parsing' = [parsing EXCEPT ![p] = Head(queue)]
      /\ UNCHANGED <<onDisk, mine, sent, nextRecord>>
  BY DEF TakeBlock
<1> HIDE DEF n
<1>3. n \in Nat \ {0} /\ k \in 1 .. sent /\ Len(queue) = n
  <2>1. Len(queue) = n
    BY DEF n
  <2>2. n # 0
    BY <1>1, <1>2, <2>1
  <2> QED BY <1>1, <2>1, <2>2
<1>4. /\ Len(queue') = n - 1 /\ queue' = [i \in 1 .. n - 1 |-> queue[i + 1]] /\ Head(queue) = queue[1]
  <2> DEFINE S == {BlockOf(onDisk, starts, s) : s \in 1 .. sent}
             block(i) == BlockOf(onDisk, starts, sent - n + i)
  <2>1. \A i \in 1 .. n : sent - n + i \in 1 .. sent
    BY <1>1
  <2>2. \A i \in 1 .. n : block(i) \in S
    BY <2>1
  <2>3. queue = [i \in 1 .. n |-> block(i)]
    BY <1>1
  <2> HIDE DEF S, block
  <2>4. queue \in [1 .. n -> S]
    BY <2>2, <2>3
  <2>5. queue \in Seq(S)
    BY <1>3, <2>4
  <2>6. queue' = Tail(queue)
    BY <1>2
  <2>7. /\ Len(Tail(queue)) = n - 1 /\ Tail(queue) = [i \in 1 .. n - 1 |-> queue[i + 1]] /\ Head(queue) = queue[1]
    <3> DEFINE rest == Tail(queue)
    <3>1. rest \in Seq(S) /\ Len(rest) = n - 1 /\ \A i \in 1 .. Len(rest) : rest[i] = queue[i + 1]
      BY <1>2, <1>3, <2>5, HeadTailProperties
    <3>2. Head(queue) = queue[1]
      BY <1>2, <2>5
    <3> HIDE DEF rest
    <3>3. rest = [i \in 1 .. n - 1 |-> rest[i]]
      BY <3>1
    <3> QED BY <3>1, <3>2, <3>3 DEF rest
  <2> QED BY <2>6, <2>7
<1>5. Head(queue) = BlockOf(onDisk, starts, k)
  <2>1. 1 \in 1 .. n /\ sent - n + 1 = k
    BY <1>3
  <2> QED BY <1>1, <1>4, <2>1
<1>6. queue' = [i \in 1 .. Len(queue') |-> BlockOf(onDisk', starts, sent' - Len(queue') + i)]
  <2>1. \A i \in 1 .. n - 1 : i + 1 \in 1 .. n /\ sent - n + (i + 1) = sent - (n - 1) + i
    BY <1>1, <1>3
  <2>2. \A i \in 1 .. n - 1 : queue[i + 1] = BlockOf(onDisk, starts, sent - (n - 1) + i)
    <3> SUFFICES ASSUME NEW i \in 1 .. n - 1 PROVE queue[i + 1] = BlockOf(onDisk, starts, sent - (n - 1) + i)
      OBVIOUS
    <3> DEFINE j == i + 1
    <3>1. j \in 1 .. n /\ sent - n + j = sent - (n - 1) + i
      BY <2>1
    <3> HIDE DEF j
    <3>2. queue[j] = BlockOf(onDisk, starts, sent - n + j)
      BY <1>1, <3>1
    <3> QED BY <3>1, <3>2 DEF j
  <2> QED BY <1>2, <1>4, <2>2
<1> HIDE DEF k
<1>7. OffQueue = 1 .. k - 1 /\ OffQueue' = 1 .. k /\ k \in 1 .. sent
  <2>1. sent' = sent /\ Len(queue') = n - 1 /\ Len(queue) = n
    BY <1>2, <1>3, <1>4
  <2>2. sent - n = k - 1 /\ sent - (n - 1) = k /\ k \in 1 .. sent
    BY <1>1, <1>3 DEF k
  <2> QED BY <2>1, <2>2 DEF OffQueue
<1>8. BlockOf(onDisk, starts, k).sequence = k /\ BlockOf(onDisk, starts, k) # NoBlock
  BY <1>7, BlockSays
<1>9. parsing \in [Parsers -> {NoBlock} \cup Blocks(starts)] /\ mine \in [Parsers -> Seq(Results(starts))]
  BY DEF Flow
<1>10. Results(starts) \subseteq Results(starts)' /\ Blocks(starts) \subseteq Blocks(starts)'
       /\ BlockOf(onDisk, starts, k) \in Blocks(starts)'
  <2>1. OffQueue \subseteq OffQueue' /\ k \in OffQueue'
    BY <1>7
  <2> QED BY <1>2, <2>1 DEF Results, Blocks
<1>11. parsing' \in [Parsers -> {NoBlock} \cup Blocks(starts)']
  <2> DEFINE new == BlockOf(onDisk, starts, k)
             some == Blocks(starts)'
  <2>1. Blocks(starts) \subseteq some /\ new \in some /\ parsing' = [parsing EXCEPT ![p] = new]
    BY <1>2, <1>5, <1>10
  <2> HIDE DEF new, some
  <2>2. parsing' \in [Parsers -> {NoBlock} \cup some]
    BY <1>9, <2>1
  <2> QED BY <2>2 DEF some
<1>12. mine' \in [Parsers -> Seq(Results(starts)')]
  <2> DEFINE some == Results(starts)'
  <2>1. Results(starts) \subseteq some /\ mine' = mine
    BY <1>2, <1>10
  <2> HIDE DEF some
  <2>2. \A q \in Parsers : mine[q] \in Seq(some)
    BY <1>9, <2>1, SeqWider
  <2>3. mine' \in [Parsers -> Seq(some)]
    BY <1>9, <2>1, <2>2
  <2> QED BY <2>3 DEF some
<1>13. /\ parsing'[p] = BlockOf(onDisk, starts, k) /\ \A q \in Parsers : q # p => parsing'[q] = parsing[q]
       /\ mine' = mine
  BY <1>2, <1>5, <1>9
<1>14. Has(p)' = Has(p) \cup {k} /\ \A q \in Parsers : q # p => Has(q)' = Has(q)
  <2>1. Has(p)' = {mine[p][i].sequence : i \in DOMAIN mine[p]} \cup {k}
    BY <1>8, <1>13 DEF Has
  <2>2. Has(p) = {mine[p][i].sequence : i \in DOMAIN mine[p]}
    BY <1>2 DEF Has
  <2>3. \A q \in Parsers : q # p => Has(q)' = Has(q)
    BY <1>13 DEF Has
  <2> QED BY <2>1, <2>2, <2>3
<1>15. \A q \in Parsers : Has(q) \subseteq OffQueue
  BY HasTaken
<1>16. k \notin OffQueue /\ OffQueue' = OffQueue \cup {k}
  BY <1>7
<1>17. \A q \in Parsers : InTurn(q)'
  <2> SUFFICES ASSUME NEW q \in Parsers PROVE InTurn(q)'
    OBVIOUS
  <2>1. InTurn(q)
    BY DEF Flow
  <2>2. CASE q # p
    BY <1>13, <2>1, <2>2 DEF InTurn
  <2>3. CASE q = p
    <3>1. \A i \in DOMAIN mine[p] : mine[p][i].sequence < k
      <4>1. \A i \in DOMAIN mine[p] : mine[p][i].sequence \in OffQueue
        BY HasTaken
      <4> QED BY <1>7, <4>1
    <3>2. \A i \in DOMAIN mine[p] : \A j \in DOMAIN mine[p] : i < j => mine[p][i].sequence < mine[p][j].sequence
      BY <2>1, <2>3 DEF InTurn
    <3> QED BY <1>8, <1>13, <2>3, <3>1, <3>2 DEF InTurn
  <2> QED BY <2>2, <2>3
<1>18. \A q, r \in Parsers : q # r => Has(q)' \cap Has(r)' = {}
  <2>1. \A q, r \in Parsers : q # r => Has(q) \cap Has(r) = {}
    BY DEF Flow
  <2> QED BY <1>14, <1>15, <1>16, <2>1
<1>19. UNION {Has(q)' : q \in Parsers} = OffQueue'
  <2>1. UNION {Has(q) : q \in Parsers} = OffQueue
    BY DEF Flow
  <2>2. \A x : x \in UNION {Has(q)' : q \in Parsers} <=> \E q \in Parsers : x \in Has(q)'
    OBVIOUS
  <2>3. \A x : x \in UNION {Has(q) : q \in Parsers} <=> \E q \in Parsers : x \in Has(q)
    OBVIOUS
  <2>4. \A x : (\E q \in Parsers : x \in Has(q)') <=> (x = k \/ \E q \in Parsers : x \in Has(q))
    BY <1>14
  <2> QED BY <1>16, <2>1, <2>2, <2>3, <2>4
<1>20. /\ sent' \in Nat /\ starts \in [1 .. sent' + 1 -> Nat \ {0}]
       /\ starts[1] = 1 /\ starts[sent' + 1] = nextRecord' /\ nextRecord' <= Len(onDisk') + 1
       /\ \A s, t \in 1 .. sent' + 1 : s < t => starts[s] < starts[t]
       /\ Len(queue') \in 0 .. sent'
  <2>1. Len(queue') \in 0 .. sent'
    BY <1>1, <1>2, <1>3, <1>4
  <2> QED BY <1>2, <2>1 DEF Flow
<1> QED BY <1>6, <1>11, <1>12, <1>17, <1>18, <1>19, <1>20 DEF Flow

\* A block is parsed.
LEMMA BlockParsed ==
  ASSUME Len(onDisk) \in Nat, NEW starts, Flow(starts), NEW p \in Parsers, Parse(p)
  PROVE  Flow(starts)'
<1> DEFINE says == ParseBlock(onDisk, parsing[p])
           R == Results(starts)
           n == Len(mine[p])
<1>1. /\ parsing[p] # NoBlock /\ mine' = [mine EXCEPT ![p] = Append(mine[p], says)]
      /\ parsing' = [parsing EXCEPT ![p] = NoBlock]
      /\ UNCHANGED <<onDisk, sent, queue, nextRecord>>
  BY DEF Parse
<1>2. /\ parsing \in [Parsers -> {NoBlock} \cup Blocks(starts)] /\ mine \in [Parsers -> Seq(R)] /\ sent \in Nat
      /\ Len(queue) \in Nat
  BY DEF Flow
<1>3. PICK k \in OffQueue : parsing[p] = BlockOf(onDisk, starts, k)
  BY <1>1, <1>2 DEF Blocks
<1>4. k \in 1 .. sent
  BY <1>2, <1>3 DEF OffQueue
<1>5. parsing[p].sequence = k /\ says.sequence = k
  <2>1. BlockOf(onDisk, starts, k).sequence = k /\ ParseBlock(onDisk, BlockOf(onDisk, starts, k)).sequence = k
    BY <1>4, BlockSays
  <2> QED BY <1>3, <2>1
<1>6. says \in R
  BY <1>3 DEF Results
<1>7. OffQueue' = OffQueue /\ Results(starts)' = R /\ Blocks(starts)' = Blocks(starts)
  <2>1. OffQueue' = OffQueue
    BY <1>1 DEF OffQueue
  <2>2. onDisk' = onDisk
    BY <1>1
  <2>3. Results(starts)' = Results(starts)
    BY <2>1, <2>2 DEF Results
  <2>4. Blocks(starts)' = Blocks(starts)
    BY <2>1, <2>2 DEF Blocks
  <2> QED BY <2>1, <2>3, <2>4
<1> HIDE DEF says, R
<1>8. mine' \in [Parsers -> Seq(R)] /\ parsing' \in [Parsers -> {NoBlock} \cup Blocks(starts)]
  <2>1. Append(mine[p], says) \in Seq(R)
    BY <1>2, <1>6
  <2> QED BY <1>1, <1>2, <2>1
<1>9. /\ n \in Nat /\ DOMAIN mine[p] = 1 .. n /\ DOMAIN mine'[p] = 1 .. n + 1
      /\ mine'[p][n + 1] = says /\ \A i \in 1 .. n : mine'[p][i] = mine[p][i]
  <2>1. mine[p] \in Seq(R) /\ mine'[p] = Append(mine[p], says)
    BY <1>1, <1>2
  <2> QED BY <1>6, <2>1
<1> HIDE DEF n
<1>10. parsing'[p] = NoBlock /\ \A q \in Parsers : q # p => parsing'[q] = parsing[q] /\ mine'[q] = mine[q]
  BY <1>1, <1>2
<1>11. \A q \in Parsers : Has(q)' = Has(q)
  <2> SUFFICES ASSUME NEW q \in Parsers PROVE Has(q)' = Has(q)
    OBVIOUS
  <2>1. CASE q # p
    BY <1>10, <2>1 DEF Has
  <2>2. CASE q = p
    <3>1. Has(p) = {mine[p][i].sequence : i \in 1 .. n} \cup {k}
      BY <1>1, <1>5, <1>9 DEF Has
    <3>2. Has(p)' = {mine'[p][i].sequence : i \in 1 .. n + 1}
      BY <1>9, <1>10 DEF Has
    <3>3. \A x : x \in Has(p)' <=> (x = k \/ \E i \in 1 .. n : x = mine[p][i].sequence)
      <4>1. \A i \in 1 .. n + 1 : i = n + 1 \/ i \in 1 .. n
        BY <1>9
      <4>2. n + 1 \in 1 .. n + 1 /\ \A i \in 1 .. n : i \in 1 .. n + 1
        BY <1>9
      <4> QED BY <1>5, <1>9, <3>2, <4>1, <4>2
    <3> QED BY <2>2, <3>1, <3>3
  <2> QED BY <2>1, <2>2
<1>12. \A q \in Parsers : InTurn(q)'
  <2> SUFFICES ASSUME NEW q \in Parsers PROVE InTurn(q)'
    OBVIOUS
  <2>1. InTurn(q)
    BY DEF Flow
  <2>2. CASE q # p
    BY <1>10, <2>1, <2>2 DEF InTurn
  <2>3. CASE q = p
    <3>1. \A i, j \in 1 .. n : i < j => mine[p][i].sequence < mine[p][j].sequence
      BY <1>9, <2>1, <2>3 DEF InTurn
    <3>2. \A i \in 1 .. n : mine[p][i].sequence < k
      BY <1>1, <1>5, <1>9, <2>1, <2>3 DEF InTurn
    <3>3. \A i, j \in 1 .. n + 1 : i < j => mine'[p][i].sequence < mine'[p][j].sequence
      <4> SUFFICES ASSUME NEW i \in 1 .. n + 1, NEW j \in 1 .. n + 1, i < j
                   PROVE  mine'[p][i].sequence < mine'[p][j].sequence
        BY Zenon
      <4>1. i \in 1 .. n /\ (j = n + 1 \/ j \in 1 .. n)
        BY <1>9
      <4>2. CASE j = n + 1
        BY <1>5, <1>9, <3>2, <4>1, <4>2
      <4>3. CASE j \in 1 .. n
        BY <1>9, <3>1, <4>1, <4>3
      <4> QED BY <4>1, <4>2, <4>3
    <3> QED BY <1>9, <1>10, <2>3, <3>3 DEF InTurn
  <2> QED BY <2>2, <2>3
<1>13. /\ \A q, r \in Parsers : q # r => Has(q)' \cap Has(r)' = {}
       /\ UNION {Has(q)' : q \in Parsers} = OffQueue'
  BY <1>7, <1>11 DEF Flow
<1>14. /\ sent' \in Nat /\ starts \in [1 .. sent' + 1 -> Nat \ {0}]
       /\ starts[1] = 1 /\ starts[sent' + 1] = nextRecord' /\ nextRecord' <= Len(onDisk') + 1
       /\ \A s, t \in 1 .. sent' + 1 : s < t => starts[s] < starts[t]
       /\ Len(queue') \in 0 .. sent' /\ queue' = [i \in 1 .. Len(queue') |-> BlockOf(onDisk', starts, sent' - Len(queue') + i)]
  BY <1>1 DEF Flow
<1> QED BY <1>7, <1>8, <1>12, <1>13, <1>14 DEF Flow

LEMMA Greatest ==
  ASSUME NEW n \in Nat, NEW S, S \subseteq 1 .. n, S # {}
  PROVE  \E m \in S : \A k \in S : k <= m
<1> DEFINE B == {n - k : k \in S}
<1>1. B \in SUBSET Nat /\ B # {}
  <2>1. \A k \in S : n - k \in Nat
    OBVIOUS
  <2>2. PICK k \in S : TRUE
    OBVIOUS
  <2>3. n - k \in B
    OBVIOUS
  <2>4. \A b \in B : b \in Nat
    BY <2>1
  <2> QED BY <2>3, <2>4
<1>2. PICK b \in B : \A c \in B : b <= c
  <2> HIDE DEF B
  <2> QED BY <1>1, Least
<1>3. PICK m \in S : b = n - m
  BY <1>2
<1>4. \A k \in S : n - m <= n - k
  BY <1>2, <1>3
<1> HIDE DEF B
<1>5. \A k \in S : k \in Nat
  <2>1. \A k \in 1 .. n : k \in Nat
    OBVIOUS
  <2> QED BY <2>1
<1>6. \A k \in S : k <= m
  <2> SUFFICES ASSUME NEW k \in S PROVE k <= m
    OBVIOUS
  <2>1. k \in Nat /\ m \in Nat /\ n - m <= n - k
    BY <1>4, <1>5
  <2> QED BY <2>1
<1> QED BY <1>6

\* The block a record is in.
LEMMA InOneBlock ==
  ASSUME Len(onDisk) \in Nat, NEW starts, Flow(starts)
  PROVE  /\ \A n \in 1 .. nextRecord - 1 : \E s \in 1 .. sent : starts[s] <= n /\ n <= starts[s + 1] - 1
         /\ \A s, t \in 1 .. sent : s < t => starts[s + 1] <= starts[t]
         /\ \A s \in 1 .. sent : starts[s] \in Nat \ {0} /\ starts[s + 1] \in Nat \ {0} /\ starts[s + 1] <= nextRecord
<1>1. /\ sent \in Nat /\ starts \in [1 .. sent + 1 -> Nat \ {0}] /\ starts[1] = 1 /\ starts[sent + 1] = nextRecord
      /\ \A s, t \in 1 .. sent + 1 : s < t => starts[s] < starts[t]
  BY DEF Flow
<1>2. /\ 1 \in 1 .. sent + 1 /\ sent + 1 \in 1 .. sent + 1
      /\ \A s \in 1 .. sent : s \in 1 .. sent + 1 /\ s + 1 \in 1 .. sent + 1 /\ s < s + 1
  BY <1>1
<1>3. nextRecord \in Nat \ {0}
  BY <1>1, <1>2
<1>4. ASSUME NEW n \in 1 .. nextRecord - 1
      PROVE  \E s \in 1 .. sent : starts[s] <= n /\ n <= starts[s + 1] - 1
  <2> DEFINE S == {s \in 1 .. sent + 1 : starts[s] <= n}
  <2>1. S \subseteq 1 .. sent + 1 /\ 1 \in S /\ sent + 1 \in Nat
    BY <1>1, <1>2
  <2>2. PICK s \in S : \A k \in S : k <= s
    <3> HIDE DEF S
    <3>1. S # {}
      BY <2>1
    <3> QED BY <2>1, <3>1, Greatest
  <2>3. s \in 1 .. sent + 1 /\ starts[s] <= n
    BY <2>2
  <2>4. s # sent + 1
    <3>1. starts[sent + 1] = nextRecord
      BY <1>1
    <3>2. ~(nextRecord <= n)
      BY <1>3
    <3> QED BY <2>3, <3>1, <3>2
  <2>5. s \in 1 .. sent
    BY <1>1, <2>3, <2>4
  <2>6. s + 1 \in 1 .. sent + 1 /\ ~(s + 1 <= s)
    BY <1>1, <2>5
  <2>7. ~(starts[s + 1] <= n)
    BY <2>2, <2>6
  <2>8. starts[s + 1] \in Nat
    BY <1>1, <2>6
  <2>9. n <= starts[s + 1] - 1
    BY <2>7, <2>8
  <2> QED BY <2>3, <2>5, <2>9
<1>5. ASSUME NEW s \in 1 .. sent, NEW t \in 1 .. sent, s < t PROVE starts[s + 1] <= starts[t]
  <2>1. s + 1 \in 1 .. sent + 1 /\ t \in 1 .. sent + 1 /\ (s + 1 = t \/ s + 1 < t)
    BY <1>1, <1>5
  <2> DEFINE r == s + 1
  <2>2. r \in 1 .. sent + 1 /\ (r = t \/ r < t)
    BY <2>1
  <2> HIDE DEF r
  <2>3. starts[r] <= starts[t]
    BY <1>1, <2>1, <2>2
  <2> QED BY <2>3 DEF r
<1>6. ASSUME NEW s \in 1 .. sent
      PROVE  starts[s] \in Nat \ {0} /\ starts[s + 1] \in Nat \ {0} /\ starts[s + 1] <= nextRecord
  <2>1. s \in 1 .. sent + 1 /\ s + 1 \in 1 .. sent + 1 /\ (s + 1 = sent + 1 \/ s + 1 < sent + 1)
    BY <1>1
  <2> DEFINE r == s + 1
             l == sent + 1
  <2>2. r \in 1 .. sent + 1 /\ l \in 1 .. sent + 1 /\ (r = l \/ r < l)
    BY <1>2, <2>1
  <2>3. starts[l] = nextRecord
    BY <1>1
  <2> HIDE DEF r, l
  <2>4. starts[r] \in Nat \ {0} /\ starts[r] <= starts[l]
    <3>1. starts[r] \in Nat \ {0} /\ starts[l] \in Nat \ {0}
      BY <1>1, <2>2
    <3> QED BY <1>1, <2>2, <3>1
  <2>5. starts[s] \in Nat \ {0}
    BY <1>1, <2>1
  <2> QED BY <2>3, <2>4, <2>5 DEF r
<1> QED BY <1>4, <1>5, <1>6

\* What a block is found to say: the records of its own stretch.
Says(parsed, table, s, f, g) ==
  /\ parsed.sequence = s
  /\ parsed.entries = {<<n, EntryOf(table[n])>> : n \in Kind(table, f, g, {"file", "folder"})}
  /\ parsed.sizes = [n \in Spills(table, f, g) |-> [of |-> table[n].parent, bytes |-> table[n].bytes]]
  /\ parsed.skipped = Cardinality(Kind(table, f, g, {"torn"}))

\* Each of m blocks is handed over once, and says what its stretch does.
EachOnce(parsed, table, starts, m) ==
  /\ \A h \in DOMAIN parsed :
       parsed[h].sequence \in 1 .. m
         /\ Says(parsed[h], table, parsed[h].sequence, starts[parsed[h].sequence], starts[parsed[h].sequence + 1])
  /\ \A h, k \in DOMAIN parsed : parsed[h].sequence = parsed[k].sequence => h = k
  /\ \A s \in 1 .. m : \E h \in DOMAIN parsed : parsed[h].sequence = s

\* Once every block is parsed, each is handed over once.
LEMMA HandedOver ==
  ASSUME Len(onDisk) \in Nat, NEW starts, Flow(starts), queue = <<>>, \A p \in Parsers : parsing[p] = NoBlock
  PROVE  EachOnce(Gathered, onDisk, starts, sent)
<1> DEFINE H == UNION {{p} \X DOMAIN mine[p] : p \in Parsers}
<1>1. sent \in Nat /\ mine \in [Parsers -> Seq(Results(starts))] /\ OffQueue = 1 .. sent
  BY DEF Flow, OffQueue
<1>2. DOMAIN Gathered = H /\ \A h \in H : Gathered[h] = mine[h[1]][h[2]]
  BY DEF Gathered
<1>3. \A h \in H : h[1] \in Parsers /\ h[2] \in DOMAIN mine[h[1]] /\ h = <<h[1], h[2]>>
  OBVIOUS
<1>4. \A p \in Parsers : \A i \in DOMAIN mine[p] : <<p, i>> \in H
  OBVIOUS
<1> HIDE DEF H
<1>5. ASSUME NEW h \in H
      PROVE  LET s == Gathered[h].sequence
             IN s \in 1 .. sent /\ Says(Gathered[h], onDisk, s, starts[s], starts[s + 1])
  <2>1. h[1] \in Parsers /\ h[2] \in DOMAIN mine[h[1]]
    BY <1>3
  <2>2. mine[h[1]][h[2]] \in Results(starts)
    <3>1. mine[h[1]] \in Seq(Results(starts))
      BY <1>1, <2>1
    <3> QED BY <2>1, <3>1
  <2>3. PICK s \in 1 .. sent : Gathered[h] = ParseBlock(onDisk, BlockOf(onDisk, starts, s))
    BY <1>1, <1>2, <2>2 DEF Results
  <2> DEFINE says == ParseBlock(onDisk, BlockOf(onDisk, starts, s))
  <2>4. Says(says, onDisk, s, starts[s], starts[s + 1])
    BY BlockSays DEF Says
  <2> HIDE DEF says
  <2>5. says.sequence = s
    BY <2>4 DEF Says
  <2> QED BY <2>3, <2>4, <2>5 DEF says
<1>6. \A p \in Parsers : \A i \in DOMAIN mine[p] : mine[p][i].sequence \in Has(p)
  BY HasTaken
<1>7. ASSUME NEW h \in H, NEW k \in H, Gathered[h].sequence = Gathered[k].sequence PROVE h = k
  <2>1. /\ h[1] \in Parsers /\ h[2] \in DOMAIN mine[h[1]] /\ k[1] \in Parsers /\ k[2] \in DOMAIN mine[k[1]]
        /\ mine[h[1]][h[2]].sequence = mine[k[1]][k[2]].sequence
    BY <1>2, <1>3, <1>7
  <2>2. h[1] = k[1]
    <3>1. \A p, q \in Parsers : p # q => Has(p) \cap Has(q) = {}
      BY DEF Flow
    <3>2. mine[h[1]][h[2]].sequence \in Has(h[1]) /\ mine[k[1]][k[2]].sequence \in Has(k[1])
      BY <1>6, <2>1
    <3> QED BY <2>1, <3>1, <3>2
  <2>3. PICK p \in Parsers : p = h[1] /\ p = k[1]
    BY <2>1, <2>2
  <2>4. PICK i \in DOMAIN mine[p], j \in DOMAIN mine[p] : i = h[2] /\ j = k[2]
    BY <2>1, <2>3
  <2>5. mine[p][i].sequence = mine[p][j].sequence
    BY <2>1, <2>3, <2>4
  <2>6. mine[p][i].sequence \in 1 .. sent
    BY <1>1, <2>1, <2>3, <2>4, HasTaken
  <2>7. i \in Nat /\ j \in Nat
    <3>1. mine[p] \in Seq(Results(starts))
      BY <1>1
    <3> QED BY <3>1
  <2>8. InTurn(p)
    BY DEF Flow
  <2>9. i = j
    <3>1. CASE i < j
      <4>1. mine[p][i].sequence < mine[p][j].sequence
        BY <2>8, <3>1 DEF InTurn
      <4> QED BY <2>5, <2>6, <4>1
    <3>2. CASE j < i
      <4>1. mine[p][j].sequence < mine[p][i].sequence
        BY <2>8, <3>2 DEF InTurn
      <4> QED BY <2>5, <2>6, <4>1
    <3> QED BY <2>7, <3>1, <3>2
  <2> QED BY <1>3, <2>3, <2>4, <2>9
<1>8. ASSUME NEW s \in 1 .. sent PROVE \E h \in H : Gathered[h].sequence = s
  <2>1. UNION {Has(p) : p \in Parsers} = OffQueue
    BY DEF Flow
  <2>2. PICK p \in Parsers : s \in Has(p)
    BY <1>1, <2>1
  <2>3. PICK i \in DOMAIN mine[p] : mine[p][i].sequence = s
    BY <2>2 DEF Has
  <2>4. <<p, i>> \in H /\ Gathered[<<p, i>>] = mine[p][i]
    BY <1>2, <1>4
  <2> QED BY <2>3, <2>4
<1>9. \A h, k \in H : Gathered[h].sequence = Gathered[k].sequence => h = k
  BY <1>7
<1>10. \A h \in H : Gathered[h].sequence \in 1 .. sent
         /\ Says(Gathered[h], onDisk, Gathered[h].sequence, starts[Gathered[h].sequence], starts[Gathered[h].sequence + 1])
  BY <1>5
<1> QED BY <1>2, <1>8, <1>9, <1>10 DEF EachOnce

\* m stretches, one after another, from the first record to the n-th.
Parted(starts, m, n) ==
  /\ \A i \in 1 .. n : \E s \in 1 .. m : starts[s] <= i /\ i <= starts[s + 1] - 1
  /\ \A s, t \in 1 .. m : s < t => starts[s + 1] <= starts[t]
  /\ \A s \in 1 .. m : starts[s] \in Nat \ {0} /\ starts[s + 1] \in Nat \ {0} /\ starts[s + 1] <= n + 1

RecordShape == [what : STRING, parent : Nat, bytes : Int]

\* The records of some kinds, among all.
These(table, kinds) == {n \in DOMAIN table : table[n].what \in kinds}

\* Of the stretch each block holds.
Held(parsed, table, starts, h, kinds) ==
  Kind(table, starts[parsed[h].sequence], starts[parsed[h].sequence + 1], kinds)

\* Each record of a kind is in the stretch of one block.
LEMMA HeldByOne ==
  ASSUME NEW table \in Seq(RecordShape), NEW m \in Nat, NEW starts, Parted(starts, m, Len(table)), NEW kinds,
         NEW parsed, EachOnce(parsed, table, starts, m)
  PROVE  /\ \A n \in These(table, kinds) : \E h \in DOMAIN parsed : n \in Held(parsed, table, starts, h, kinds)
         /\ \A h \in DOMAIN parsed : Held(parsed, table, starts, h, kinds) \subseteq These(table, kinds)
         /\ \A h, k \in DOMAIN parsed :
              h # k => Held(parsed, table, starts, h, kinds) \cap Held(parsed, table, starts, k, kinds) = {}
<1> DEFINE N == Len(table)
           H == DOMAIN parsed
           q(h) == parsed[h].sequence
<1>1. N \in Nat /\ DOMAIN table = 1 .. N
  OBVIOUS
<1>2. \A h \in H : q(h) \in 1 .. m
  BY DEF EachOnce
<1>3. \A h, k \in H : q(h) = q(k) => h = k
  BY DEF EachOnce
<1>4. \A s \in 1 .. m : \E h \in H : q(h) = s
  BY DEF EachOnce
<1>5. \A s \in 1 .. m : starts[s] \in Nat \ {0} /\ starts[s + 1] \in Nat \ {0} /\ starts[s + 1] <= N + 1
  BY DEF Parted
<1>6. \A s, t \in 1 .. m : s < t => starts[s + 1] <= starts[t]
  BY DEF Parted
<1>7. \A h \in H : Held(parsed, table, starts, h, kinds) = Kind(table, starts[q(h)], starts[q(h) + 1], kinds)
  BY DEF Held
<1>8. \A n \in 1 .. N : \E s \in 1 .. m : starts[s] <= n /\ n <= starts[s + 1] - 1
  BY DEF Parted
<1> HIDE DEF N, q, H
<1>9. ASSUME NEW n \in These(table, kinds) PROVE \E h \in H : n \in Held(parsed, table, starts, h, kinds)
  <2>1. n \in 1 .. N /\ table[n].what \in kinds
    BY <1>1 DEF These
  <2>2. PICK s \in 1 .. m : starts[s] <= n /\ n <= starts[s + 1] - 1
    BY <1>8, <2>1
  <2>3. PICK h \in H : q(h) = s
    BY <1>4
  <2>4. n \in starts[s] .. starts[s + 1] - 1
    BY <1>5, <2>1, <2>2
  <2>5. n \in Kind(table, starts[s], starts[s + 1], kinds)
    BY <2>1, <2>4 DEF Kind
  <2> QED BY <1>7, <2>3, <2>5
<1>10. ASSUME NEW h \in H, NEW n \in Held(parsed, table, starts, h, kinds)
       PROVE  n \in These(table, kinds) /\ starts[q(h)] <= n /\ n < starts[q(h) + 1] /\ n \in Nat
  <2>1. n \in starts[q(h)] .. starts[q(h) + 1] - 1 /\ table[n].what \in kinds
    BY <1>7 DEF Kind
  <2> DEFINE a == starts[q(h)]
             b == starts[q(h) + 1]
  <2>2. a \in Nat \ {0} /\ b \in Nat \ {0} /\ b <= N + 1
    BY <1>2, <1>5
  <2> HIDE DEF a, b
  <2>3. n \in 1 .. N /\ a <= n /\ n < b /\ n \in Nat
    <3>1. n \in a .. b - 1
      BY <2>1 DEF a, b
    <3> QED BY <1>1, <2>2, <3>1
  <2> QED BY <1>1, <2>1, <2>3 DEF These, a, b
<1>11. ASSUME NEW h \in H, NEW k \in H, q(h) < q(k)
       PROVE  \A x \in Held(parsed, table, starts, h, kinds) : \A y \in Held(parsed, table, starts, k, kinds) : x < y
  <2> SUFFICES ASSUME NEW x \in Held(parsed, table, starts, h, kinds), NEW y \in Held(parsed, table, starts, k, kinds)
               PROVE  x < y
    OBVIOUS
  <2>1. x < starts[q(h) + 1] /\ starts[q(k)] <= y /\ x \in Nat /\ y \in Nat
    BY <1>10
  <2>2. starts[q(h) + 1] <= starts[q(k)]
    BY <1>2, <1>6, <1>11
  <2>3. starts[q(h) + 1] \in Nat /\ starts[q(k)] \in Nat
    BY <1>2, <1>5
  <2> QED BY <2>1, <2>2, <2>3
<1>12. ASSUME NEW h \in H, NEW k \in H, h # k
       PROVE  Held(parsed, table, starts, h, kinds) \cap Held(parsed, table, starts, k, kinds) = {}
  <2>1. q(h) \in Nat /\ q(k) \in Nat /\ q(h) # q(k)
    <3>1. q(h) \in 1 .. m /\ q(k) \in 1 .. m
      BY <1>2
    <3> QED BY <1>3, <1>12, <3>1
  <2>2. SUFFICES ASSUME NEW x \in Held(parsed, table, starts, h, kinds), x \in Held(parsed, table, starts, k, kinds)
                 PROVE  FALSE
    OBVIOUS
  <2>3. x \in Nat
    BY <1>10
  <2>4. CASE q(h) < q(k)
    <3>1. x < x
      BY <1>11, <2>2, <2>4
    <3> QED BY <2>3, <3>1
  <2>5. CASE q(k) < q(h)
    <3>1. x < x
      BY <1>11, <2>2, <2>5
    <3> QED BY <2>3, <3>1
  <2> QED BY <2>1, <2>4, <2>5
<1> QED BY <1>9, <1>10, <1>12 DEF H

\* The later of two blocks holds the later records.
LEMMA HeldInOrder ==
  ASSUME NEW table \in Seq(RecordShape), NEW m \in Nat, NEW starts, Parted(starts, m, Len(table)), NEW kinds,
         NEW parsed, EachOnce(parsed, table, starts, m),
         NEW h \in DOMAIN parsed, NEW k \in DOMAIN parsed,
         NEW x \in Held(parsed, table, starts, h, kinds), NEW y \in Held(parsed, table, starts, k, kinds)
  PROVE  (InOrder(parsed, k, h) \/ (k = h /\ y <= x)) <=> y <= x
<1> DEFINE q == parsed[h].sequence
           r == parsed[k].sequence
<1>1. q \in 1 .. m /\ r \in 1 .. m /\ (q = r => h = k)
  BY DEF EachOnce
<1>2. /\ starts[q] \in Nat /\ starts[q + 1] \in Nat /\ starts[r] \in Nat /\ starts[r + 1] \in Nat
      /\ (q < r => starts[q + 1] <= starts[r]) /\ (r < q => starts[r + 1] <= starts[q])
  BY <1>1 DEF Parted
<1>3. x \in starts[q] .. starts[q + 1] - 1 /\ y \in starts[r] .. starts[r + 1] - 1
  BY DEF Held, Kind
<1>4. InOrder(parsed, k, h) <=> r < q
  BY DEF InOrder
<1>5. h = k => q = r
  OBVIOUS
<1> DEFINE a == starts[q]
           b == starts[q + 1]
           c == starts[r]
           d == starts[r + 1]
<1>6. /\ a \in Nat /\ b \in Nat /\ c \in Nat /\ d \in Nat /\ (q < r => b <= c) /\ (r < q => d <= a)
      /\ x \in a .. b - 1 /\ y \in c .. d - 1
  BY <1>2, <1>3
<1> HIDE DEF a, b, c, d, q, r
<1>7. /\ x \in Int /\ y \in Int /\ q \in Int /\ r \in Int /\ a <= x /\ x < b /\ c <= y /\ y < d
  BY <1>1, <1>6
<1>8. CASE q < r
  <2>1. x < y
    BY <1>6, <1>7, <1>8
  <2>2. h # k /\ ~(r < q)
    BY <1>5, <1>7, <1>8
  <2> QED BY <1>4, <1>7, <2>1, <2>2
<1>9. CASE r < q
  <2>1. y < x
    BY <1>6, <1>7, <1>9
  <2> QED BY <1>4, <1>7, <1>9, <2>1
<1>10. CASE q = r
  <2>1. h = k /\ ~(r < q)
    BY <1>1, <1>7, <1>10
  <2> QED BY <1>4, <2>1
<1> QED BY <1>7, <1>8, <1>9, <1>10

\* What extends a record, in the order it is written.
Extends(table, n) ==
  {k \in DOMAIN table : table[k].what = "extension" /\ table[k].parent = n /\ table[k].bytes # NoData}

LastOf(table, n) == CHOOSE k \in Extends(table, n) : \A j \in Extends(table, n) : j <= k

LEMMA LastExtends ==
  ASSUME NEW table \in Seq(RecordShape), NEW n, Extends(table, n) # {}
  PROVE  /\ LastOf(table, n) \in Extends(table, n) /\ \A j \in Extends(table, n) : j <= LastOf(table, n)
         /\ \A k \in Extends(table, n) : (\A j \in Extends(table, n) : j <= k) => k = LastOf(table, n)
<1> DEFINE E == Extends(table, n)
           N == Len(table)
<1>1. N \in Nat /\ E \subseteq 1 .. N
  BY DEF Extends
<1> HIDE DEF E, N
<1>2. \E k \in E : \A j \in E : j <= k
  BY <1>1, Greatest DEF E
<1>3. LastOf(table, n) \in E /\ \A j \in E : j <= LastOf(table, n)
  BY <1>2 DEF LastOf, E
<1>4. ASSUME NEW k \in E, \A j \in E : j <= k PROVE k = LastOf(table, n)
  <2> DEFINE l == LastOf(table, n)
  <2>1. l \in E /\ k <= l
    BY <1>3
  <2>2. l <= k
    BY <1>4, <2>1
  <2>3. k \in 1 .. N /\ l \in 1 .. N
    BY <1>1, <2>1
  <2> HIDE DEF l
  <2>4. k = l
    BY <1>1, <2>1, <2>2, <2>3
  <2> QED BY <2>4 DEF l
<1> QED BY <1>3, <1>4 DEF E

\* The sizes a block holds are those of the extensions in its stretch.
LEMMA SizesHeld ==
  ASSUME NEW table \in Seq(RecordShape), NEW m \in Nat, NEW starts, Parted(starts, m, Len(table)),
         NEW parsed, EachOnce(parsed, table, starts, m), NEW h \in DOMAIN parsed
  PROVE  /\ DOMAIN parsed[h].sizes = {k \in Held(parsed, table, starts, h, {"extension"}) : table[k].bytes # NoData}
         /\ \A k \in DOMAIN parsed[h].sizes :
              parsed[h].sizes[k].of = table[k].parent /\ parsed[h].sizes[k].bytes = table[k].bytes
<1> DEFINE f == starts[parsed[h].sequence]
           g == starts[parsed[h].sequence + 1]
<1>1. parsed[h].sizes = [n \in Spills(table, f, g) |-> [of |-> table[n].parent, bytes |-> table[n].bytes]]
  BY DEF EachOnce, Says
<1>2. Spills(table, f, g) = {k \in Held(parsed, table, starts, h, {"extension"}) : table[k].bytes # NoData}
  BY DEF Spills, Held
<1> QED BY <1>1, <1>2

\* What extends a record, as the blocks hold it.
Spilt(parsed, n) ==
  {x \in UNION {{h} \X DOMAIN parsed[h].sizes : h \in DOMAIN parsed} : parsed[x[1]].sizes[x[2]].of = n}

LEMMA SpiltIs ==
  ASSUME NEW table \in Seq(RecordShape), NEW m \in Nat, NEW starts, Parted(starts, m, Len(table)),
         NEW parsed, EachOnce(parsed, table, starts, m), NEW n
  PROVE  /\ \A x \in Spilt(parsed, n) :
              /\ x[1] \in DOMAIN parsed /\ x[2] \in Held(parsed, table, starts, x[1], {"extension"})
              /\ x[2] \in Extends(table, n) /\ x = <<x[1], x[2]>>
              /\ parsed[x[1]].sizes[x[2]].bytes = table[x[2]].bytes
         /\ \A k \in Extends(table, n) : \E h \in DOMAIN parsed : <<h, k>> \in Spilt(parsed, n)
<1> DEFINE sized(h) == {k \in Held(parsed, table, starts, h, {"extension"}) : table[k].bytes # NoData}
           H == DOMAIN parsed
<1>1. \A h \in H : DOMAIN parsed[h].sizes = sized(h)
  BY SizesHeld
<1>2. \A h \in H : \A k \in sized(h) :
        parsed[h].sizes[k].of = table[k].parent /\ parsed[h].sizes[k].bytes = table[k].bytes
  BY <1>1, SizesHeld
<1>3. \A x : x \in Spilt(parsed, n) <=>
        /\ \E h \in H : x \in {h} \X DOMAIN parsed[h].sizes
        /\ parsed[x[1]].sizes[x[2]].of = n
  BY DEF Spilt
<1>4. ASSUME NEW x \in Spilt(parsed, n)
      PROVE  x[1] \in H /\ x[2] \in sized(x[1]) /\ x = <<x[1], x[2]>> /\ table[x[2]].parent = n
  <2>1. PICK h \in H : x \in {h} \X DOMAIN parsed[h].sizes
    BY <1>3
  <2>2. x[1] = h /\ x[2] \in DOMAIN parsed[h].sizes /\ x = <<x[1], x[2]>>
    BY <2>1
  <2>3. x[1] \in H /\ x[2] \in sized(x[1])
    <3> HIDE DEF sized
    <3> QED BY <1>1, <2>2
  <2>4. parsed[x[1]].sizes[x[2]].of = n
    BY <1>3
  <2> HIDE DEF sized
  <2> QED BY <1>2, <2>2, <2>3, <2>4
<1>5. \A h \in H : Held(parsed, table, starts, h, {"extension"}) \subseteq These(table, {"extension"})
  BY HeldByOne
<1>6. ASSUME NEW x \in Spilt(parsed, n)
      PROVE  /\ x[2] \in Held(parsed, table, starts, x[1], {"extension"}) /\ x[2] \in Extends(table, n)
             /\ parsed[x[1]].sizes[x[2]].bytes = table[x[2]].bytes
  <2>1. x[1] \in H /\ x[2] \in sized(x[1]) /\ table[x[2]].parent = n
    BY <1>4
  <2>2. x[2] \in Held(parsed, table, starts, x[1], {"extension"}) /\ table[x[2]].bytes # NoData
    BY <2>1
  <2>3. x[2] \in These(table, {"extension"})
    BY <1>5, <2>1, <2>2
  <2>4. parsed[x[1]].sizes[x[2]].bytes = table[x[2]].bytes
    <3> HIDE DEF sized
    <3> QED BY <1>2, <2>1
  <2> QED BY <2>1, <2>2, <2>3, <2>4 DEF These, Extends
<1>7. ASSUME NEW k \in Extends(table, n) PROVE \E h \in H : <<h, k>> \in Spilt(parsed, n)
  <2>1. k \in These(table, {"extension"}) /\ table[k].parent = n /\ table[k].bytes # NoData
    BY DEF These, Extends
  <2>2. PICK h \in H : k \in Held(parsed, table, starts, h, {"extension"})
    BY <2>1, HeldByOne
  <2>3. k \in sized(h)
    BY <2>1, <2>2
  <2> HIDE DEF sized
  <2>4. parsed[h].sizes[k].of = n /\ k \in DOMAIN parsed[h].sizes
    BY <1>1, <1>2, <2>1, <2>3
  <2>5. <<h, k>> \in {h} \X DOMAIN parsed[h].sizes /\ <<h, k>>[1] = h /\ <<h, k>>[2] = k
    BY <2>4
  <2> QED BY <1>3, <2>4, <2>5
<1> QED BY <1>4, <1>6, <1>7

\* The extension of a record that was merged last.
LastSpilt(parsed, n) ==
  LET later(x, y) == InOrder(parsed, y[1], x[1]) \/ (y[1] = x[1] /\ y[2] <= x[2])
  IN CHOOSE x \in Spilt(parsed, n) : \A y \in Spilt(parsed, n) : later(x, y)

\* The size merged last is that of the last extension written.
LEMMA LastMerged ==
  ASSUME NEW table \in Seq(RecordShape), NEW m \in Nat, NEW starts, Parted(starts, m, Len(table)),
         NEW parsed, EachOnce(parsed, table, starts, m), NEW n, Extends(table, n) # {}
  PROVE  parsed[LastSpilt(parsed, n)[1]].sizes[LastSpilt(parsed, n)[2]].bytes = table[LastOf(table, n)].bytes
<1> DEFINE S == Spilt(parsed, n)
           later(x, y) == InOrder(parsed, y[1], x[1]) \/ (y[1] = x[1] /\ y[2] <= x[2])
           last == CHOOSE x \in S : \A y \in S : later(x, y)
           k == LastOf(table, n)
<1>1. \A x \in S : x[1] \in DOMAIN parsed /\ x[2] \in Held(parsed, table, starts, x[1], {"extension"})
                    /\ x[2] \in Extends(table, n) /\ parsed[x[1]].sizes[x[2]].bytes = table[x[2]].bytes
  BY SpiltIs
<1>2. \A x, y \in S : later(x, y) <=> y[2] <= x[2]
  <2> SUFFICES ASSUME NEW x \in S, NEW y \in S PROVE later(x, y) <=> y[2] <= x[2]
    BY Zenon
  <2> HIDE DEF S
  <2>1. /\ x[1] \in DOMAIN parsed /\ x[2] \in Held(parsed, table, starts, x[1], {"extension"})
        /\ y[1] \in DOMAIN parsed /\ y[2] \in Held(parsed, table, starts, y[1], {"extension"})
    BY <1>1
  <2> QED BY <2>1, HeldInOrder
<1>3. k \in Extends(table, n) /\ \A j \in Extends(table, n) : j <= k
  BY LastExtends
<1>4. PICK h \in DOMAIN parsed : <<h, k>> \in S
  BY <1>3, SpiltIs
<1> HIDE DEF S, k
<1>5. \A y \in S : later(<<h, k>>, y)
  <2> SUFFICES ASSUME NEW y \in S PROVE later(<<h, k>>, y)
    OBVIOUS
  <2>1. y[2] <= k
    BY <1>1, <1>3
  <2> DEFINE x == <<h, k>>
  <2>2. x \in S /\ x[2] = k
    BY <1>4
  <2> HIDE DEF x, later
  <2>3. later(x, y)
    BY <1>2, <2>1, <2>2
  <2> QED BY <2>3 DEF x
<1> HIDE DEF later
<1>6. last \in S /\ \A y \in S : later(last, y)
  BY <1>4, <1>5
<1> HIDE DEF last
<1>7. last[2] \in Extends(table, n) /\ parsed[last[1]].sizes[last[2]].bytes = table[last[2]].bytes
  BY <1>1, <1>6
<1>8. \A j \in Extends(table, n) : j <= last[2]
  <2> SUFFICES ASSUME NEW j \in Extends(table, n) PROVE j <= last[2]
    OBVIOUS
  <2>1. PICK g \in DOMAIN parsed : <<g, j>> \in S
    BY SpiltIs DEF S
  <2> DEFINE y == <<g, j>>
  <2>2. y \in S /\ y[2] = j
    BY <2>1
  <2> HIDE DEF y
  <2> QED BY <1>2, <1>6, <2>2
<1>9. last[2] = k
  BY <1>7, <1>8, LastExtends DEF k
<1>10. LastSpilt(parsed, n) = last
  BY DEF LastSpilt, last, later, S
<1> QED BY <1>7, <1>9, <1>10 DEF k

\* What the blocks say of the records.
FoundIn(parsed) == UNION {parsed[h].entries : h \in DOMAIN parsed}

NumbersIn(all) == {f[1] : f \in all}

EntryIn(all, n) == CHOOSE e \in {f[2] : f \in all} : <<n, e>> \in all

\* Each record is all once, and says what is written.
LEMMA FoundOnce ==
  ASSUME NEW table \in Seq(RecordShape), NEW m \in Nat, NEW starts, Parted(starts, m, Len(table)),
         NEW parsed, EachOnce(parsed, table, starts, m)
  PROVE  /\ NumbersIn(FoundIn(parsed)) = These(table, {"file", "folder"})
         /\ \A n \in These(table, {"file", "folder"}) : EntryIn(FoundIn(parsed), n) = EntryOf(table[n])
<1> DEFINE H == DOMAIN parsed
           all == UNION {parsed[h].entries : h \in H}
           T == These(table, {"file", "folder"})
           held(h) == Held(parsed, table, starts, h, {"file", "folder"})
           pair(n) == <<n, EntryOf(table[n])>>
           entry(n) == CHOOSE e \in {f[2] : f \in all} : <<n, e>> \in all
<1>1. \A h \in H : parsed[h].entries = {pair(n) : n \in held(h)}
  BY DEF EachOnce, Says, Held
<1>2. (\A n \in T : \E h \in H : n \in held(h)) /\ (\A h \in H : held(h) \subseteq T)
  BY HeldByOne
<1>3. \A n : pair(n)[1] = n /\ pair(n)[2] = EntryOf(table[n])
  OBVIOUS
<1> HIDE DEF held, T, pair
<1>4. all = {pair(n) : n \in T}
  <2>1. \A f : f \in all <=> \E h \in H : f \in {pair(n) : n \in held(h)}
    BY <1>1
  <2> HIDE DEF all, H
  <2> QED BY <1>2, <2>1
<1> HIDE DEF all
<1>5. {f[1] : f \in all} = T
  BY <1>3, <1>4
<1>6. ASSUME NEW n \in T PROVE entry(n) = EntryOf(table[n])
  <2> DEFINE e == EntryOf(table[n])
  <2>1. <<n, e>> \in all /\ e \in {f[2] : f \in all}
    <3>1. pair(n) = <<n, e>> /\ pair(n) \in all /\ pair(n)[2] = e
      <4>1. pair(n) \in all
        BY <1>4
      <4> QED BY <4>1 DEF pair
    <3> HIDE DEF e
    <3> QED BY <3>1
  <2>2. \A x : <<n, x>> \in all => x = e
    <3> SUFFICES ASSUME NEW x, <<n, x>> \in all PROVE x = e
      OBVIOUS
    <3>1. PICK k \in T : <<n, x>> = pair(k)
      BY <1>4
    <3>2. n = k /\ x = EntryOf(table[k])
      <4>1. <<n, x>>[1] = n /\ <<n, x>>[2] = x
        OBVIOUS
      <4> QED BY <1>3, <3>1, <4>1
    <3> QED BY <3>2
  <2> HIDE DEF e
  <2>3. entry(n) = e
    BY <2>1, <2>2
  <2> QED BY <2>3 DEF e
<1> QED BY <1>5, <1>6 DEF all, T, FoundIn, NumbersIn, EntryIn

\* What is merged is the table as it is written.
LEMMA MergedIs ==
  ASSUME NEW table \in Seq(RecordShape), NEW m \in Nat, NEW starts, Parted(starts, m, Len(table)),
         NEW parsed, EachOnce(parsed, table, starts, m)
  PROVE  Merged(parsed) = AsWritten(table)
<1> DEFINE T == These(table, {"file", "folder"})
           entry(n) == EntryIn(FoundIn(parsed), n)
           size(n) == parsed[LastSpilt(parsed, n)[1]].sizes[LastSpilt(parsed, n)[2]].bytes
           needs(n) == table[n].what = "file" /\ OwnBytes(table[n]) = 0 /\ Extends(table, n) # {}
           keep(n) == entry(n).folder \/ entry(n).bytes # 0 \/ Spilt(parsed, n) = {}
           merged(n) == IF keep(n) THEN entry(n)
                        ELSE [entry(n) EXCEPT !.bytes = size(n)]
           stored(n) == [parent |-> table[n].parent, folder |-> table[n].what = "folder",
                          bytes |-> IF needs(n) THEN table[LastOf(table, n)].bytes ELSE OwnBytes(table[n])]
<1>1. Merged(parsed) = [n \in NumbersIn(FoundIn(parsed)) |-> merged(n)]
  BY DEF Merged, LastSpilt, Spilt, FoundIn, NumbersIn, EntryIn
<1>2. AsWritten(table) = [n \in T |-> stored(n)]
  BY DEF AsWritten, Extends, LastOf, These
<1>3. NumbersIn(FoundIn(parsed)) = T /\ \A n \in T : entry(n) = EntryOf(table[n])
  BY FoundOnce
<1>4. \A n : Extends(table, n) # {} => size(n) = table[LastOf(table, n)].bytes
  <2> SUFFICES ASSUME NEW n, Extends(table, n) # {} PROVE size(n) = table[LastOf(table, n)].bytes
    OBVIOUS
  <2> QED BY LastMerged
<1>5. \A n : Spilt(parsed, n) = {} <=> Extends(table, n) = {}
  BY SpiltIs
<1>6. \A n \in T : table[n].what = "file" <=> table[n].what # "folder"
  BY DEF These
<1> HIDE DEF entry, size, T
<1>7. ASSUME NEW n \in T PROVE merged(n) = stored(n)
  <2>1. entry(n) = [parent |-> table[n].parent, folder |-> table[n].what = "folder", bytes |-> OwnBytes(table[n])]
    BY <1>3 DEF EntryOf
  <2>2. needs(n) <=> ~keep(n)
    <3>1. keep(n) <=> table[n].what = "folder" \/ OwnBytes(table[n]) # 0 \/ Spilt(parsed, n) = {}
      <4>1. entry(n).folder = (table[n].what = "folder") /\ entry(n).bytes = OwnBytes(table[n])
        BY <2>1
      <4>2. keep(n) <=> entry(n).folder \/ entry(n).bytes # 0 \/ Spilt(parsed, n) = {}
        OBVIOUS
      <4> HIDE DEF keep
      <4> QED BY <4>1, <4>2
    <3> HIDE DEF keep
    <3>2. Spilt(parsed, n) = {} <=> Extends(table, n) = {}
      BY <1>5
    <3>3. table[n].what = "file" <=> table[n].what # "folder"
      BY <1>6
    <3> QED BY <3>1, <3>2, <3>3
  <2> HIDE DEF keep
  <2>3. CASE needs(n)
    <3>1. merged(n) = [entry(n) EXCEPT !.bytes = table[LastOf(table, n)].bytes]
      <4>1. merged(n) = [entry(n) EXCEPT !.bytes = size(n)]
        BY <2>2, <2>3
      <4>2. size(n) = table[LastOf(table, n)].bytes
        BY <1>4, <2>3
      <4> QED BY <4>1, <4>2
    <3>2. stored(n) = [parent |-> table[n].parent, folder |-> table[n].what = "folder",
                        bytes |-> table[LastOf(table, n)].bytes]
      BY <2>3
    <3> QED BY <2>1, <3>1, <3>2
  <2>4. CASE ~needs(n)
    <3>1. merged(n) = entry(n)
      BY <2>2, <2>4
    <3>2. stored(n) = [parent |-> table[n].parent, folder |-> table[n].what = "folder",
                        bytes |-> OwnBytes(table[n])]
      BY <2>4
    <3> QED BY <2>1, <3>1, <3>2
  <2> QED BY <2>3, <2>4
<1> HIDE DEF merged, stored
<1> QED BY <1>1, <1>2, <1>3, <1>7

\* What failed its check is counted once.
LEMMA SkippedIs ==
  ASSUME NEW table \in Seq(RecordShape), NEW m \in Nat, NEW starts, Parted(starts, m, Len(table)),
         NEW parsed, EachOnce(parsed, table, starts, m), NEW torn, torn = [h \in DOMAIN parsed |-> parsed[h].skipped]
  PROVE  Sum(torn, DOMAIN parsed) = Cardinality({n \in DOMAIN table : table[n].what = "torn"})
<1> DEFINE H == DOMAIN parsed
           held(h) == Held(parsed, table, starts, h, {"torn"})
           T == These(table, {"torn"})
           F == [h \in H |-> held(h)]
<1>1. IsFiniteSet(H)
  <2> DEFINE turn == [s \in 1 .. m |-> CHOOSE h \in H : parsed[h].sequence = s]
             all == {turn[s] : s \in 1 .. m}
  <2>1. IsFiniteSet(1 .. m)
    BY FS_Interval
  <2>2. IsFiniteSet(all)
    <3> DEFINE S == 1 .. m
    <3> HIDE DEF turn, S
    <3>1. IsFiniteSet({turn[s] : s \in S})
      BY <2>1, ImageIsFinite DEF S
    <3> QED BY <3>1 DEF S
  <2>3. \A h, k \in H : parsed[h].sequence = parsed[k].sequence => h = k
    BY DEF EachOnce
  <2>4. \A h \in H : parsed[h].sequence \in 1 .. m
    BY DEF EachOnce
  <2>5. ASSUME NEW h \in H PROVE h \in all
    <3> DEFINE s == parsed[h].sequence
    <3>1. s \in 1 .. m /\ turn[s] \in H /\ parsed[turn[s]].sequence = s
      BY <2>4
    <3>2. turn[s] = h
      BY <2>3, <3>1
    <3> QED BY <3>1, <3>2
  <2>6. H \subseteq all
    BY <2>5
  <2> HIDE DEF all
  <2> QED BY <2>2, <2>6, FS_Subset
<1>2. IsFiniteSet(T)
  <2>1. T \subseteq 1 .. Len(table) /\ Len(table) \in Nat
    BY DEF These
  <2>2. IsFiniteSet(1 .. Len(table))
    BY <2>1, FS_Interval
  <2> HIDE DEF T
  <2> QED BY <2>1, <2>2, FS_Subset
<1>3. /\ \A n \in T : \E h \in H : n \in held(h)
      /\ \A h \in H : held(h) \subseteq T
      /\ \A h, k \in H : h # k => held(h) \cap held(k) = {}
  BY HeldByOne
<1>4. \A h \in H : torn[h] = Cardinality(held(h))
  BY DEF EachOnce, Says, Held
<1> HIDE DEF held, T, H
<1>5. \A h \in H : IsFiniteSet(held(h))
  BY <1>2, <1>3, FS_Subset
<1>6. /\ \A h \in H : IsFiniteSet(F[h]) /\ torn[h] = Cardinality(F[h])
      /\ \A h, k \in H : h # k => F[h] \cap F[k] = {}
  BY <1>3, <1>4, <1>5
<1>7. AllOf(F, H) = T
  <2>1. \A n : n \in AllOf(F, H) <=> \E h \in H : n \in held(h)
    BY DEF AllOf
  <2> QED BY <1>3, <2>1
<1> HIDE DEF F
<1>8. Cardinality(AllOf(F, H)) = Sum(torn, H)
  BY <1>1, <1>6, PartsAddUp
<1>9. T = {n \in DOMAIN table : table[n].what = "torn"}
  BY DEF T, These
<1> QED BY <1>7, <1>8, <1>9 DEF H

OnItsWay ==
  /\ tableRead \in {"reading", "closed", "failing"} /\ (tableRead = "closed" => runs = <<>>)
  /\ \E c : ReadUpTo(c)
  /\ \E starts : Flow(starts)

AllRead == tableRead \in {"read", "failed"} /\ ReadAsWritten /\ \A p \in Parsers : parsing[p] = NoBlock

\* A table that is not cut short is read as far as it has been, and the blocks
\* read are on their way; once it is read, what was read is what is written.
TableInv ==
  /\ cut \in BOOLEAN
  /\ cut \/ (onDisk \in Volumes /\ (OnItsWay \/ AllRead))

LEMMA VolumeIs ==
  ASSUME onDisk \in Volumes
  PROVE  onDisk \in Seq(RecordShape) /\ Len(onDisk) \in Nat /\ Size \in Nat
<1>1. onDisk \in Seq(RecordShape)
  BY TableAssumption DEF RecordShape
<1>2. Len(onDisk) \in Nat
  BY <1>1
<1> QED BY <1>1, <1>2 DEF Size

\* The first of the runs is a piece of the table.
LEMMA RunIs ==
  ASSUME Len(onDisk) \in Nat, NEW c, ReadUpTo(c), runs # <<>>
  PROVE  Len(runs[1]) \in Nat
<1>1. c \in Nat /\ Size \in Nat /\ c <= Size
  BY DEF ReadUpTo, Size
<1>2. ASSUME NEW e \in Nat, c < e, e <= Size PROVE Len(Piece(c + 1, e)) \in Nat
  <2> DEFINE a == c + 1
  <2>1. a \in Nat \ {0} /\ a <= e + 1 /\ e - a + 1 \in Nat
    BY <1>1, <1>2
  <2> HIDE DEF a
  <2>2. Len(Piece(a, e)) = e - a + 1
    BY <1>2, <2>1, PieceIs
  <2> QED BY <2>1, <2>2 DEF a
<1>3. CASE c < Size /\ runs = <<Piece(c + 1, Size)>>
  <2>1. runs[1] = Piece(c + 1, Size)
    BY <1>3
  <2> QED BY <1>1, <1>2, <1>3, <2>1
<1>4. ASSUME NEW e \in c + 1 .. Size - 1, runs = <<Piece(c + 1, e), Piece(e + 1, Size)>>
      PROVE  Len(runs[1]) \in Nat
  <2>1. runs[1] = Piece(c + 1, e)
    BY <1>4
  <2>2. e \in Nat /\ c < e /\ e <= Size
    BY <1>1, <1>4
  <2> QED BY <1>2, <2>1, <2>2
<1> QED BY <1>3, <1>4 DEF ReadUpTo

LEMMA WholeStretch ==
  ASSUME NEW S, NEW s \in Seq(S), NEW n \in Nat, n = Len(s)
  PROVE  SubSeq(s, 1, n) = s /\ SubSeq(s, 1, 0) = <<>>
<1> DEFINE p == SubSeq(s, 1, n)
<1>1. p \in Seq(S) /\ Len(p) = n /\ \A i \in 1 .. n : p[i] = s[i]
  <2>1. 1 \in Nat \ {0} /\ n <= Len(s) /\ 1 <= n + 1 /\ n - 1 + 1 = n /\ \A i \in 1 .. n : 1 + i - 1 = i
    OBVIOUS
  <2>2. p \in Seq(S) /\ Len(p) = n - 1 + 1 /\ \A i \in 1 .. n - 1 + 1 : p[i] = s[1 + i - 1]
    BY <2>1, StretchIs
  <2> HIDE DEF p
  <2> QED BY <2>1, <2>2
<1> HIDE DEF p
<1>2. p = s
  BY <1>1
<1> QED BY <1>2 DEF p

\* Nothing has been read when the reading starts.
LEMMA TableStarts == TableInit => TableInv
<1> SUFFICES ASSUME TableInit PROVE TableInv
  OBVIOUS
<1>1. /\ onDisk \in Volumes /\ carry = <<>> /\ nextRecord = 1 /\ sent = 0 /\ queue = <<>>
      /\ parsing = [p \in Parsers |-> NoBlock] /\ mine = [p \in Parsers |-> <<>>]
      /\ tableRead = "reading" /\ cut = FALSE
  BY DEF TableInit
<1>2. onDisk \in Seq(RecordShape) /\ Len(onDisk) \in Nat /\ Size \in Nat
  BY <1>1, VolumeIs
<1> DEFINE all == SectorsOf(onDisk)
<1>3. all \in Seq(Sector) /\ Len(all) = Size
  BY <1>2, SectorsAre DEF Size
<1>4. PICK at \in 1 .. Size :
        runs = IF at = Len(all) THEN <<all>> ELSE <<SubSeq(all, 1, at), SubSeq(all, at + 1, Len(all))>>
  BY DEF TableInit, Size
<1>5. Piece(1, Size) = all /\ Piece(1, 0) = <<>>
  <2> HIDE DEF all
  <2>1. SubSeq(all, 1, Size) = all /\ SubSeq(all, 1, 0) = <<>>
    BY <1>2, <1>3, WholeStretch
  <2> QED BY <2>1 DEF Piece, all
<1>6. ReadUpTo(0)
  <2>1. /\ 0 \in 0 .. Size /\ 0 < Size /\ 2 * nextRecord - 2 <= 0 /\ 0 <= 2 * nextRecord - 1
        /\ 2 * nextRecord - 1 = 1 /\ 0 + 1 = 1 /\ nextRecord \in Nat \ {0}
    BY <1>1, <1>2, <1>4
  <2>2. CASE at = Size
    <3>1. runs = <<Piece(1, Size)>>
      <4> HIDE DEF all
      <4> QED BY <1>3, <1>4, <1>5, <2>2
    <3> QED BY <1>1, <1>5, <2>1, <3>1 DEF ReadUpTo
  <2>3. CASE at # Size
    <3>1. runs = <<Piece(1, at), Piece(at + 1, Size)>>
      BY <1>3, <1>4, <2>3 DEF Piece
    <3>2. at \in 0 + 1 .. Size - 1
      BY <1>2, <1>4, <2>3
    <3>3. \E e \in 0 + 1 .. Size - 1 : runs = <<Piece(0 + 1, e), Piece(e + 1, Size)>>
      BY <2>1, <3>1, <3>2
    <3> QED BY <1>1, <1>5, <2>1, <3>3 DEF ReadUpTo
  <2> QED BY <2>2, <2>3
<1>7. PICK starts : starts = [s \in 1 .. 1 |-> 1]
  OBVIOUS
<1>8. Flow(starts)
  <2>1. /\ sent \in Nat /\ sent + 1 = 1 /\ Len(queue) = 0 /\ sent - Len(queue) = 0 /\ Len(queue) \in 0 .. sent
        /\ nextRecord <= Len(onDisk) + 1
    <3>1. Len(queue) = 0
      BY <1>1
    <3>2. sent = 0 /\ nextRecord = 1 /\ Len(onDisk) \in Nat
      BY <1>1, <1>2
    <3> DEFINE l == Len(queue)
               k == Len(onDisk)
    <3>3. l = 0 /\ k \in Nat
      BY <3>1, <3>2
    <3> HIDE DEF l, k
    <3>4. sent \in Nat /\ sent + 1 = 1 /\ l = 0 /\ sent - l = 0 /\ l \in 0 .. sent /\ nextRecord <= k + 1
      BY <3>2, <3>3
    <3> QED BY <3>4 DEF l, k
  <2>2. /\ starts \in [1 .. sent + 1 -> Nat \ {0}] /\ starts[1] = 1 /\ starts[sent + 1] = nextRecord
        /\ \A s, t \in 1 .. sent + 1 : s < t => starts[s] < starts[t]
    BY <1>1, <1>7, <2>1
  <2>3. queue = [i \in 1 .. Len(queue) |-> BlockOf(onDisk, starts, sent - Len(queue) + i)]
    <3>1. queue = <<>> /\ Len(queue) = 0
      BY <1>1, <2>1
    <3>2. <<>> = [i \in 1 .. 0 |-> BlockOf(onDisk, starts, sent - Len(queue) + i)]
      OBVIOUS
    <3> QED BY <3>1, <3>2
  <2>4. OffQueue = {}
    BY <2>1 DEF OffQueue
  <2>5. mine \in [Parsers -> Seq(Results(starts))]
    <3> DEFINE R == Results(starts)
    <3> HIDE DEF R
    <3>1. <<>> \in Seq(R)
      OBVIOUS
    <3>2. mine \in [Parsers -> Seq(R)]
      BY <1>1, <3>1
    <3> QED BY <3>2 DEF R
  <2>6. parsing \in [Parsers -> {NoBlock} \cup Blocks(starts)]
    BY <1>1
  <2>7. \A p \in Parsers : mine[p] = <<>> /\ DOMAIN mine[p] = {} /\ parsing[p] = NoBlock
    BY <1>1
  <2>8. \A p \in Parsers : InTurn(p) /\ Has(p) = {}
    BY <2>7 DEF InTurn, Has
  <2>9. /\ \A p \in Parsers : InTurn(p)
        /\ \A p, q \in Parsers : p # q => Has(p) \cap Has(q) = {}
        /\ UNION {Has(p) : p \in Parsers} = OffQueue
    BY <2>4, <2>8
  <2> QED BY <2>1, <2>2, <2>3, <2>5, <2>6, <2>9 DEF Flow
<1> QED BY <1>1, <1>6, <1>8 DEF TableInv, OnItsWay

LEMMA FlowStays ==
  ASSUME NEW starts, Flow(starts), UNCHANGED <<onDisk, nextRecord, sent, queue, parsing, mine>>
  PROVE  Flow(starts)'
<1>1. OffQueue' = OffQueue
  BY DEF OffQueue
<1>2. Results(starts)' = Results(starts) /\ Blocks(starts)' = Blocks(starts)
  BY <1>1 DEF Results, Blocks
<1>3. \A p \in Parsers : Has(p)' = Has(p) /\ (InTurn(p) => InTurn(p)')
  BY DEF Has, InTurn
<1> QED BY <1>1, <1>2, <1>3 DEF Flow

LEMMA ReadStays ==
  ASSUME NEW c, ReadUpTo(c), UNCHANGED <<onDisk, nextRecord, carry, runs>>
  PROVE  ReadUpTo(c)'
BY DEF ReadUpTo, Piece, Size

LEMMA ChunkRead == TableInv /\ ReadChunk => TableInv'
<1> SUFFICES ASSUME TableInv, ReadChunk PROVE TableInv'
  OBVIOUS
<1>1. /\ tableRead = "reading" /\ runs # <<>> /\ UNCHANGED <<onDisk, parsing, mine, tableRead, cut, snapshot>>
  BY DEF ReadChunk
<1>2. CASE cut
  BY <1>1, <1>2 DEF TableInv
<1>3. CASE ~cut
  <2>1. onDisk \in Volumes /\ OnItsWay
    BY <1>1, <1>3 DEF TableInv, AllRead
  <2>2. Len(onDisk) \in Nat /\ Size \in Nat
    BY <2>1, VolumeIs
  <2>3. PICK c : ReadUpTo(c)
    BY <2>1 DEF OnItsWay
  <2>4. PICK starts : Flow(starts)
    BY <2>1 DEF OnItsWay
  <2>5. Len(runs[1]) \in Nat
    BY <1>1, <2>2, <2>3, RunIs
  <2>6. PICK n \in Nat \ {0} : n <= Len(runs[1]) /\ Frame(n) /\ runs' = After(n)
    <3> DEFINE want == IF Len(runs[1]) < ChunkSectors THEN Len(runs[1]) ELSE ChunkSectors
    <3>1. want \in Nat /\ want <= Len(runs[1])
      BY <2>5, TableAssumption
    <3>2. PICK n \in 1 .. want : Frame(n) /\ runs' = After(n)
      BY DEF ReadChunk
    <3> HIDE DEF want
    <3>3. n \in Nat \ {0} /\ n <= Len(runs[1])
      BY <2>5, <3>1
    <3> QED BY <3>2, <3>3
  <2>7. /\ ReadUpTo(c + n)'
        /\ \/ UNCHANGED <<queue, sent, nextRecord>>
           \/ /\ nextRecord' \in Nat \ {0} /\ nextRecord < nextRecord'
              /\ sent' = sent + 1
              /\ queue' = Append(queue, BlockFrom(onDisk, sent + 1, nextRecord, nextRecord'))
    BY <1>1, <2>2, <2>3, <2>6, MoreIsRead
  <2>8. \E more : Flow(more)'
    <3>1. CASE UNCHANGED <<queue, sent, nextRecord>>
      <4>1. Flow(starts)'
        BY <1>1, <2>4, <3>1, FlowStays
      <4> QED BY <4>1
    <3>2. CASE /\ nextRecord' \in Nat \ {0} /\ nextRecord < nextRecord'
               /\ sent' = sent + 1
               /\ queue' = Append(queue, BlockFrom(onDisk, sent + 1, nextRecord, nextRecord'))
      <4>1. nextRecord' <= Len(onDisk) + 1
        <5>1. 2 * nextRecord' - 2 <= c + n /\ c + n \in 0 .. Size'
          BY <2>7 DEF ReadUpTo
        <5>2. Size' = 2 * Len(onDisk)
          BY <1>1 DEF Size
        <5> QED BY <2>2, <3>2, <5>1, <5>2
      <4> QED BY <1>1, <2>2, <2>4, <3>2, <4>1, BlockQueued
    <3> QED BY <2>7, <3>1, <3>2
  <2>9. OnItsWay'
    BY <1>1, <2>7, <2>8 DEF OnItsWay
  <2> QED BY <1>1, <1>3, <2>1, <2>9 DEF TableInv
<1> QED BY <1>2, <1>3

\* When the queue is closed and the parsers have ended, all of it is read.
LEMMA JoinSays ==
  ASSUME onDisk \in Volumes, OnItsWay, tableRead = "closed", Join
  PROVE  snapshot'.entries = AsWritten(onDisk)
         /\ snapshot'.skipped = Cardinality({n \in DOMAIN onDisk : onDisk[n].what = "torn"})
<1>1. queue = <<>> /\ \A p \in Parsers : parsing[p] = NoBlock
  BY DEF Join
<1>2. onDisk \in Seq(RecordShape) /\ Len(onDisk) \in Nat /\ Size \in Nat
  BY VolumeIs
<1>3. runs = <<>>
  BY DEF OnItsWay
<1>4. PICK c : ReadUpTo(c)
  BY DEF OnItsWay
<1>5. PICK starts : Flow(starts)
  BY DEF OnItsWay
<1>6. nextRecord \in Nat \ {0} /\ nextRecord - 1 = Len(onDisk)
  <2>1. c = Size
    BY <1>3, <1>4 DEF ReadUpTo
  <2>2. nextRecord \in Nat \ {0} /\ 2 * nextRecord - 2 <= c /\ c <= 2 * nextRecord - 1
    BY <1>4 DEF ReadUpTo
  <2>3. c = 2 * Len(onDisk)
    BY <2>1 DEF Size
  <2> QED BY <1>2, <2>2, <2>3
<1>7. sent \in Nat
  BY <1>5 DEF Flow
<1>8. EachOnce(Gathered, onDisk, starts, sent)
  BY <1>1, <1>2, <1>5, HandedOver
<1>9. Parted(starts, sent, Len(onDisk))
  <2>1. /\ \A n \in 1 .. nextRecord - 1 : \E s \in 1 .. sent : starts[s] <= n /\ n <= starts[s + 1] - 1
        /\ \A s, t \in 1 .. sent : s < t => starts[s + 1] <= starts[t]
        /\ \A s \in 1 .. sent : starts[s] \in Nat \ {0} /\ starts[s + 1] \in Nat \ {0} /\ starts[s + 1] <= nextRecord
    BY <1>2, <1>5, InOneBlock
  <2>2. nextRecord = Len(onDisk) + 1
    BY <1>2, <1>6
  <2> QED BY <1>6, <2>1, <2>2 DEF Parted
<1>10. Merged(Gathered) = AsWritten(onDisk)
  BY <1>2, <1>7, <1>8, <1>9, MergedIs
<1> DEFINE torn == [h \in DOMAIN Gathered |-> Gathered[h].skipped]
<1>11. Sum(torn, DOMAIN Gathered) = Cardinality({n \in DOMAIN onDisk : onDisk[n].what = "torn"})
  <2>1. PICK g : g = torn
    OBVIOUS
  <2>2. Sum(g, DOMAIN Gathered) = Cardinality({n \in DOMAIN onDisk : onDisk[n].what = "torn"})
    BY <1>2, <1>7, <1>8, <1>9, <2>1, SkippedIs
  <2> QED BY <2>1, <2>2
<1>12. snapshot' = [entries |-> Merged(Gathered), skipped |-> MapThenSumSet(LAMBDA h : torn[h], DOMAIN torn)]
  BY DEF Join
<1>13. DOMAIN torn = DOMAIN Gathered
  OBVIOUS
<1>14. MapThenSumSet(LAMBDA h : torn[h], DOMAIN torn) = Sum(torn, DOMAIN torn)
  BY DEF Sum
<1> HIDE DEF torn
<1> DEFINE total == MapThenSumSet(LAMBDA h : torn[h], DOMAIN torn)
<1>15. snapshot'.entries = Merged(Gathered) /\ snapshot'.skipped = total
  <2> HIDE DEF total
  <2>1. snapshot' = [entries |-> Merged(Gathered), skipped |-> total]
    BY <1>12 DEF total
  <2> QED BY <2>1
<1> QED BY <1>10, <1>11, <1>13, <1>14, <1>15

LEMMA TableStep == TableInv /\ TableNext => TableInv'
<1> SUFFICES ASSUME TableInv, TableNext PROVE TableInv'
  OBVIOUS
<1>1. CASE ReadChunk
  BY <1>1, ChunkRead
<1>2. CASE ReadNothing
  BY <1>2 DEF ReadNothing, TableInv
<1>3. CASE cut /\ ~ReadChunk /\ ~ReadNothing
  BY <1>3 DEF TableInv, TableNext, ReadFails, Close, TakeBlock, Parse, Join
<1>4. CASE ~cut /\ AllRead /\ ~ReadChunk /\ ~ReadNothing
  BY <1>4 DEF TableNext, AllRead, ReadFails, Close, TakeBlock, Parse, Join
<1>5. CASE ~cut /\ ~AllRead /\ ~ReadChunk /\ ~ReadNothing
  <2>1. onDisk \in Volumes /\ OnItsWay /\ Len(onDisk) \in Nat
    BY <1>5, VolumeIs DEF TableInv
  <2>2. PICK c : ReadUpTo(c)
    BY <2>1 DEF OnItsWay
  <2>3. PICK starts : Flow(starts)
    BY <2>1 DEF OnItsWay
  <2>4. CASE ReadFails
    <3>1. UNCHANGED <<onDisk, runs, carry, nextRecord, sent, queue, parsing, mine, cut>> /\ tableRead' = "failing"
      BY <2>4 DEF ReadFails
    <3>2. Flow(starts)' /\ ReadUpTo(c)'
      BY <2>2, <2>3, <3>1, FlowStays, ReadStays
    <3> QED BY <1>5, <2>1, <3>1, <3>2 DEF TableInv, OnItsWay
  <2>5. CASE Close
    <3>1. /\ UNCHANGED <<onDisk, runs, carry, nextRecord, sent, queue, parsing, mine, cut>>
          /\ tableRead' = "closed" /\ runs = <<>>
      BY <2>5 DEF Close
    <3>2. Flow(starts)' /\ ReadUpTo(c)'
      BY <2>2, <2>3, <3>1, FlowStays, ReadStays
    <3> QED BY <1>5, <2>1, <3>1, <3>2 DEF TableInv, OnItsWay
  <2>6. ASSUME NEW p \in Parsers, TakeBlock(p) PROVE TableInv'
    <3>1. UNCHANGED <<onDisk, runs, carry, nextRecord, tableRead, cut>>
      BY <2>6 DEF TakeBlock
    <3>2. Flow(starts)' /\ ReadUpTo(c)'
      BY <2>1, <2>2, <2>3, <2>6, <3>1, BlockTaken, ReadStays
    <3> QED BY <1>5, <2>1, <3>1, <3>2 DEF TableInv, OnItsWay
  <2>7. ASSUME NEW p \in Parsers, Parse(p) PROVE TableInv'
    <3>1. UNCHANGED <<onDisk, runs, carry, nextRecord, tableRead, cut>>
      BY <2>7 DEF Parse
    <3>2. Flow(starts)' /\ ReadUpTo(c)'
      BY <2>1, <2>2, <2>3, <2>7, <3>1, BlockParsed, ReadStays
    <3> QED BY <1>5, <2>1, <3>1, <3>2 DEF TableInv, OnItsWay
  <2>8. CASE Join
    <3>1. /\ UNCHANGED <<onDisk, parsing, cut>> /\ \A p \in Parsers : parsing[p] = NoBlock
          /\ tableRead \in {"closed", "failing"}
          /\ tableRead' = IF tableRead = "failing" THEN "failed" ELSE "read"
      BY <2>8 DEF Join
    <3>2. ReadAsWritten'
      <4>1. CASE tableRead = "closed"
        BY <2>1, <2>8, <3>1, <4>1, JoinSays DEF ReadAsWritten
      <4>2. CASE tableRead # "closed"
        BY <3>1, <4>2 DEF ReadAsWritten
      <4> QED BY <4>1, <4>2
    <3>3. AllRead'
      BY <3>1, <3>2 DEF AllRead
    <3> QED BY <1>5, <2>1, <3>1, <3>3 DEF TableInv
  <2> QED BY <1>5, <2>4, <2>5, <2>6, <2>7, <2>8 DEF TableNext
<1>6. cut \in BOOLEAN
  BY DEF TableInv
<1> QED BY <1>1, <1>2, <1>3, <1>4, <1>5, <1>6

LEMMA TableStays == TableInv /\ UNCHANGED tableVars => TableInv'
<1> SUFFICES ASSUME TableInv, UNCHANGED tableVars PROVE TableInv'
  OBVIOUS
<1>1. UNCHANGED <<onDisk, runs, carry, nextRecord, sent, queue, parsing, mine, tableRead, cut, snapshot>>
  BY DEF tableVars
<1>2. CASE cut
  BY <1>1, <1>2 DEF TableInv
<1>3. CASE ~cut /\ AllRead
  <2>1. AllRead'
    BY <1>1, <1>3 DEF AllRead, ReadAsWritten
  <2> QED BY <1>1, <1>3, <2>1 DEF TableInv
<1>4. CASE ~cut /\ ~AllRead
  <2>1. onDisk \in Volumes /\ OnItsWay
    BY <1>4 DEF TableInv
  <2>2. PICK c : ReadUpTo(c)
    BY <2>1 DEF OnItsWay
  <2>3. PICK starts : Flow(starts)
    BY <2>1 DEF OnItsWay
  <2>4. Flow(starts)' /\ ReadUpTo(c)'
    BY <1>1, <2>2, <2>3, FlowStays, ReadStays
  <2> QED BY <1>1, <1>4, <2>1, <2>4 DEF TableInv, OnItsWay
<1> QED BY <1>2, <1>3, <1>4 DEF TableInv

LEMMA TableAnswers == TableInv => ReadAsWritten
BY DEF TableInv, OnItsWay, AllRead, ReadAsWritten

-----------------------------------------------------------------------------
(* What is built up turn by turn.                                            *)

\* What holds at first and is kept by each turn holds to the last.
LEMMA Upto ==
  ASSUME NEW m \in Nat, NEW P, 0 \in P, \A n \in 1 .. m : n - 1 \in P => n \in P
  PROVE  \A n \in 0 .. m : n \in P
<1> DEFINE B == {n \in 0 .. m : n \notin P}
<1> SUFFICES ASSUME B # {} PROVE FALSE
  OBVIOUS
<1>1. PICK k \in B : \A j \in B : k <= j
  <2>1. B \in SUBSET Nat
    OBVIOUS
  <2> HIDE DEF B
  <2> QED BY <2>1, Least
<1>2. k \in 0 .. m /\ k \notin P
  BY <1>1
<1>3. k \in 1 .. m /\ k - 1 \in 0 .. m /\ ~(k <= k - 1)
  BY <1>2
<1>4. k - 1 \in P
  BY <1>1, <1>3
<1> QED BY <1>2, <1>3, <1>4

Built(f, m, Y, base, step) ==
  /\ f \in [0 .. m -> Y]
  /\ f[0] = base
  /\ \A n \in 1 .. m : f[n] = step[<<n, f[n - 1]>>]

\* Whatever is built up by a number of turns is there.
LEMMA BuiltIsThere ==
  ASSUME NEW m \in Nat, NEW Y, NEW base \in Y, NEW step \in [(1 .. m) \X Y -> Y]
  PROVE  \E f : Built(f, m, Y, base, step)
<1> DEFINE P == {n \in 0 .. m : \E f : Built(f, n, Y, base, step)}
<1>1. 0 \in P
  <2> DEFINE f == [n \in 0 .. 0 |-> base]
  <2>1. Built(f, 0, Y, base, step)
    BY DEF Built
  <2> QED BY <2>1
<1>2. ASSUME NEW k \in 1 .. m, k - 1 \in P PROVE k \in P
  <2>1. PICK g : Built(g, k - 1, Y, base, step)
    BY <1>2
  <2> DEFINE last == step[<<k, g[k - 1]>>]
             f == [n \in 0 .. k |-> IF n = k THEN last ELSE g[n]]
  <2>2. g \in [0 .. k - 1 -> Y] /\ k - 1 \in 0 .. k - 1 /\ k \in Nat /\ k # 0
    BY <2>1 DEF Built
  <2>3. last \in Y
    BY <2>2
  <2> HIDE DEF last
  <2>4. f \in [0 .. k -> Y]
    BY <2>2, <2>3
  <2>5. f[0] = base
    BY <2>1, <2>2 DEF Built
  <2>6. ASSUME NEW n \in 1 .. k PROVE f[n] = step[<<n, f[n - 1]>>]
    <3>1. n - 1 \in 0 .. k /\ n - 1 # k /\ n \in 0 .. k
      BY <2>2
    <3>2. f[n - 1] = g[n - 1]
      BY <3>1
    <3>3. CASE n = k
      BY <3>1, <3>2, <3>3 DEF last
    <3>4. CASE n # k
      <4>1. n \in 1 .. k - 1
        BY <2>2, <3>4
      <4> QED BY <2>1, <3>1, <3>2, <3>4, <4>1 DEF Built
    <3> QED BY <3>3, <3>4
  <2>7. Built(f, k, Y, base, step)
    <3> HIDE DEF f
    <3> QED BY <2>4, <2>5, <2>6 DEF Built
  <2>8. k \in 0 .. m
    OBVIOUS
  <2> QED BY <2>7, <2>8
<1>3. \A n \in 0 .. m : n \in P
  <2> HIDE DEF P
  <2> QED BY <1>1, <1>2, Upto
<1>4. m \in P
  <2> HIDE DEF P
  <2> QED BY <1>3
<1> QED BY <1>4

-----------------------------------------------------------------------------
(* What lies above a record.                                                 *)

Entry == [parent : Nat, folder : BOOLEAN, bytes : Nat]

IsIndex(es) == IsFiniteSet(DOMAIN es) /\ es \in [DOMAIN es -> Entry]

Linked(es, s) == (s \cap DOMAIN es) \ {RootRecord}

Rise(es, s) == s \cup {es[k].parent : k \in Linked(es, s)}

LEMMA AboveIsBuilt ==
  ASSUME NEW es, IsIndex(es), NEW i
  PROVE  LET m == Cardinality(DOMAIN es)
         IN \E f : /\ f[0] = {i} /\ \A n \in 1 .. m : f[n] = Rise(es, f[n - 1])
                   /\ Above(es, i) = f[m]
<1> DEFINE m == Cardinality(DOMAIN es)
           all == {i} \cup {es[k].parent : k \in DOMAIN es}
           Y == SUBSET all
           rise == [p \in (1 .. m) \X Y |-> Rise(es, p[2])]
           eq(g) == g = [n \in 0 .. m |-> IF n = 0 THEN {i} ELSE Rise(es, g[n - 1])]
<1>1. m \in Nat
  BY FS_CardinalityType DEF IsIndex
<1>2. {i} \in Y /\ \A s \in Y : Rise(es, s) \in Y
  BY DEF Rise, Linked
<1>3. rise \in [(1 .. m) \X Y -> Y]
  BY <1>2
<1>4. \A n \in 1 .. m, s \in Y : rise[<<n, s>>] = Rise(es, s)
  OBVIOUS
<1> HIDE DEF m, Y, rise
<1>5. PICK f : Built(f, m, Y, {i}, rise)
  BY <1>1, <1>2, <1>3, BuiltIsThere
<1>6. eq(f)
  <2>1. f = [n \in 0 .. m |-> f[n]]
    BY <1>5 DEF Built
  <2>2. ASSUME NEW n \in 0 .. m PROVE f[n] = IF n = 0 THEN {i} ELSE Rise(es, f[n - 1])
    <3>1. CASE n = 0
      BY <1>5, <3>1 DEF Built
    <3>2. CASE n # 0
      <4>1. n \in 1 .. m /\ n - 1 \in 0 .. m
        BY <1>1, <3>2
      <4> QED BY <1>4, <1>5, <3>2, <4>1 DEF Built
    <3> QED BY <3>1, <3>2
  <2> QED BY <2>1, <2>2
<1> DEFINE g == CHOOSE g : eq(g)
<1>7. eq(g)
  <2> HIDE DEF eq
  <2> QED BY <1>6
<1>8. Above(es, i) = g[m]
  BY DEF Above, m, Rise, Linked
<1> HIDE DEF g
<1>9. g[0] = {i} /\ \A n \in 1 .. m : g[n] = Rise(es, g[n - 1])
  <2>1. ASSUME NEW n \in 0 .. m PROVE g[n] = IF n = 0 THEN {i} ELSE Rise(es, g[n - 1])
    <3> DEFINE of(k) == IF k = 0 THEN {i} ELSE Rise(es, g[k - 1])
    <3>1. g = [k \in 0 .. m |-> of(k)]
      BY <1>7
    <3> HIDE DEF of, eq
    <3>2. g[n] = of(n)
      BY <3>1
    <3> QED BY <3>2 DEF of
  <2>2. 0 \in 0 .. m /\ \A n \in 1 .. m : n \in 0 .. m /\ n # 0
    BY <1>1
  <2> HIDE DEF eq
  <2> QED BY <2>1, <2>2
<1>10. \E h : h[0] = {i} /\ (\A n \in 1 .. m : h[n] = Rise(es, h[n - 1])) /\ Above(es, i) = h[m]
  BY <1>8, <1>9
<1> QED BY <1>10 DEF m

Upward(es, s) == \A k \in Linked(es, s) : es[k].parent \in s

\* The records above one are the fewest that hold it and the parent of each
\* but the root's.
LEMMA AboveIs ==
  ASSUME NEW es, IsIndex(es), NEW i
  PROVE  /\ i \in Above(es, i) /\ Upward(es, Above(es, i))
         /\ \A s : i \in s /\ Upward(es, s) => Above(es, i) \subseteq s
<1> DEFINE m == Cardinality(DOMAIN es)
<1>1. PICK f : f[0] = {i} /\ (\A n \in 1 .. m : f[n] = Rise(es, f[n - 1])) /\ Above(es, i) = f[m]
  BY AboveIsBuilt
<1>2. IsFiniteSet(DOMAIN es) /\ m \in Nat
  BY FS_CardinalityType DEF IsIndex
<1> HIDE DEF m
<1>3. 0 \in 0 .. m /\ m \in 0 .. m
  BY <1>2
<1>4. i \in f[m]
  <2> DEFINE P == {n \in 0 .. m : i \in f[n]}
  <2>1. 0 \in P
    BY <1>1, <1>3
  <2>2. ASSUME NEW n \in 1 .. m, n - 1 \in P PROVE n \in P
    BY <1>1, <2>2 DEF Rise
  <2> HIDE DEF P
  <2>3. m \in P
    BY <1>2, <1>3, <2>1, <2>2, Upto
  <2> QED BY <2>3 DEF P
<1>5. ASSUME NEW s, i \in s, Upward(es, s) PROVE f[m] \subseteq s
  <2> DEFINE P == {n \in 0 .. m : f[n] \subseteq s}
  <2>1. 0 \in P
    BY <1>1, <1>3, <1>5
  <2>2. ASSUME NEW n \in 1 .. m, n - 1 \in P PROVE n \in P
    <3>1. f[n - 1] \subseteq s
      BY <2>2
    <3>2. f[n] \subseteq s
      BY <1>1, <1>5, <3>1 DEF Rise, Upward, Linked
    <3> QED BY <3>2
  <2> HIDE DEF P
  <2>3. m \in P
    BY <1>2, <1>3, <2>1, <2>2, Upto
  <2> QED BY <2>3 DEF P
<1>6. Upward(es, f[m])
  <2> DEFINE size(n) == Cardinality(Linked(es, f[n]))
             P == {n \in 0 .. m : Upward(es, f[n]) \/ size(n) >= n + 1}
  <2>1. ASSUME NEW s PROVE IsFiniteSet(Linked(es, s)) /\ Cardinality(Linked(es, s)) \in Nat
                           /\ Cardinality(Linked(es, s)) <= m
    <3>1. Linked(es, s) \in SUBSET DOMAIN es
      BY DEF Linked
    <3> QED BY <1>2, <3>1, FS_Subset, FS_CardinalityType DEF m
  <2>2. 0 \in P
    <3> SUFFICES ASSUME ~Upward(es, f[0]) PROVE size(0) >= 1
      BY <1>3
    <3>1. Linked(es, f[0]) # {}
      BY DEF Upward
    <3>2. size(0) # 0
      BY <2>1, <3>1, FS_EmptySet
    <3>3. size(0) \in Nat
      BY <2>1
    <3> HIDE DEF size
    <3> QED BY <3>2, <3>3
  <2>3. ASSUME NEW n \in 1 .. m, n - 1 \in P PROVE n \in P
    <3> SUFFICES ASSUME ~Upward(es, f[n]) PROVE size(n) >= n + 1
      BY <1>2
    <3>1. f[n] = Rise(es, f[n - 1])
      BY <1>1
    <3>2. ~Upward(es, f[n - 1])
      <4> SUFFICES ASSUME Upward(es, f[n - 1]) PROVE FALSE
        OBVIOUS
      <4>1. Rise(es, f[n - 1]) = f[n - 1]
        BY DEF Rise, Upward
      <4> QED BY <3>1, <4>1
    <3>3. size(n - 1) >= n
      <4>1. n - 1 + 1 = n
        BY <1>2
      <4> HIDE DEF size
      <4> QED BY <2>3, <3>2, <4>1
    <3>4. PICK k \in Linked(es, f[n]) : es[k].parent \notin f[n]
      BY DEF Upward
    <3>5. k \notin f[n - 1]
      BY <3>1, <3>4 DEF Rise, Linked
    <3>6. Linked(es, f[n - 1]) \subseteq Linked(es, f[n]) \ {k}
      BY <3>1, <3>5 DEF Rise, Linked
    <3>7. Cardinality(Linked(es, f[n]) \ {k}) = Cardinality(Linked(es, f[n])) - 1
          /\ IsFiniteSet(Linked(es, f[n]) \ {k})
      BY <2>1, <3>4, FS_RemoveElement
    <3>8. Cardinality(Linked(es, f[n - 1])) <= Cardinality(Linked(es, f[n])) - 1
      <4> DEFINE less == Linked(es, f[n]) \ {k}
      <4>1. Linked(es, f[n - 1]) \in SUBSET less
        BY <3>6
      <4> HIDE DEF less
      <4>2. IsFiniteSet(less)
        BY <3>7 DEF less
      <4>3. Cardinality(Linked(es, f[n - 1])) <= Cardinality(less)
        BY <4>1, <4>2, FS_Subset
      <4> QED BY <3>7, <4>3 DEF less
    <3>9. size(n) \in Nat /\ size(n - 1) \in Nat /\ size(n - 1) <= size(n) - 1
      BY <2>1, <3>8
    <3> HIDE DEF size
    <3> QED BY <1>2, <3>3, <3>9
  <2>4. m \in P
    <3> HIDE DEF P
    <3> QED BY <1>2, <1>3, <2>2, <2>3, Upto
  <2>5. size(m) \in Nat /\ size(m) <= m
    BY <2>1
  <2> HIDE DEF size
  <2> QED BY <1>2, <2>4, <2>5
<1> QED BY <1>1, <1>4, <1>5, <1>6

LEMMA AboveParent ==
  ASSUME NEW es, IsIndex(es), NEW i
  PROVE  Above(es, i) = IF i \in DOMAIN es /\ i # RootRecord THEN {i} \cup Above(es, es[i].parent) ELSE {i}
<1>1. i \in Above(es, i) /\ Upward(es, Above(es, i))
      /\ \A s : i \in s /\ Upward(es, s) => Above(es, i) \subseteq s
  BY AboveIs
<1>2. CASE i \in DOMAIN es /\ i # RootRecord
  <2> DEFINE p == es[i].parent
  <2>1. p \in Above(es, p) /\ Upward(es, Above(es, p))
        /\ \A s : p \in s /\ Upward(es, s) => Above(es, p) \subseteq s
    BY AboveIs
  <2>2. p \in Above(es, i)
    BY <1>1, <1>2 DEF Upward, Linked
  <2>3. Upward(es, {i} \cup Above(es, p))
    BY <2>1 DEF Upward, Linked
  <2> HIDE DEF p
  <2>4. Above(es, p) \subseteq Above(es, i) /\ Above(es, i) \subseteq {i} \cup Above(es, p)
    BY <1>1, <2>1, <2>2, <2>3
  <2> QED BY <1>1, <1>2, <2>4 DEF p
<1>3. CASE ~(i \in DOMAIN es /\ i # RootRecord)
  <2>1. Upward(es, {i})
    BY <1>3 DEF Upward, Linked
  <2> QED BY <1>1, <1>3, <2>1
<1> QED BY <1>2, <1>3

LEMMA AboveAbove ==
  ASSUME NEW es, IsIndex(es), NEW i, NEW j \in Above(es, i)
  PROVE  Above(es, j) \subseteq Above(es, i)
BY AboveIs

\* What lies above a record is one line.
LEMMA OneLine ==
  ASSUME NEW es, IsIndex(es), NEW i, NEW x \in Above(es, i), NEW y \in Above(es, i)
  PROVE  y \in Above(es, x) \/ x \in Above(es, y)
<1> DEFINE s == {z \in Above(es, i) : z \in Above(es, x) \/ x \in Above(es, z)}
<1>1. i \in Above(es, i) /\ Upward(es, Above(es, i))
      /\ \A t : i \in t /\ Upward(es, t) => Above(es, i) \subseteq t
  BY AboveIs
<1>2. x \in Above(es, x) /\ Upward(es, Above(es, x))
  BY AboveIs
<1>3. ASSUME NEW k \in Linked(es, s) PROVE es[k].parent \in s
  <2>1. k \in s /\ k \in DOMAIN es /\ k # RootRecord
    BY DEF Linked
  <2>2. es[k].parent \in Above(es, i)
    BY <1>1, <2>1 DEF Upward, Linked
  <2>3. CASE k \in Above(es, x)
    <3>1. es[k].parent \in Above(es, x)
      BY <1>2, <2>1, <2>3 DEF Upward, Linked
    <3> QED BY <2>2, <3>1
  <2>4. CASE x \in Above(es, k) /\ k \notin Above(es, x)
    <3>1. x \in {k} \cup Above(es, es[k].parent)
      BY <2>1, <2>4, AboveParent
    <3>2. x # k
      BY <1>2, <2>4
    <3> QED BY <2>2, <3>1, <3>2
  <2> QED BY <2>1, <2>3, <2>4
<1>4. i \in s
  BY <1>1
<1>5. Above(es, i) \subseteq s
  <2>1. Upward(es, s)
    BY <1>3 DEF Upward
  <2> HIDE DEF s
  <2> QED BY <1>1, <1>4, <2>1
<1> QED BY <1>5

\* And one that reaches the root does not turn back.
LEMMA NoRound ==
  ASSUME NEW es, IsIndex(es), NEW x, RootRecord \in Above(es, x), NEW y \in Above(es, x), x \in Above(es, y)
  PROVE  x = y
<1> SUFFICES ASSUME x # y PROVE FALSE
  OBVIOUS
<1> DEFINE s == {z \in Above(es, x) : x \in Above(es, z)}
<1>1. x \in Above(es, x) /\ Upward(es, Above(es, x))
      /\ \A t : x \in t /\ Upward(es, t) => Above(es, x) \subseteq t
  BY AboveIs
<1>2. ASSUME NEW k \in Linked(es, s) PROVE es[k].parent \in s
  <2>1. k \in Above(es, x) /\ x \in Above(es, k) /\ k \in DOMAIN es /\ k # RootRecord
    BY DEF Linked
  <2>2. es[k].parent \in Above(es, x)
    BY <1>1, <2>1 DEF Upward, Linked
  <2>3. Above(es, k) = {k} \cup Above(es, es[k].parent)
    BY <2>1, AboveParent
  <2>4. CASE k = x
    <3>1. y \in Above(es, es[x].parent)
      BY <2>3, <2>4
    <3>2. Above(es, y) \subseteq Above(es, es[x].parent)
      BY <3>1, AboveAbove
    <3> QED BY <2>2, <2>4, <3>2
  <2>5. CASE k # x
    BY <2>1, <2>2, <2>3, <2>5
  <2> QED BY <2>4, <2>5
<1>3. Above(es, x) \subseteq s
  <2>1. Upward(es, s) /\ x \in s
    BY <1>1, <1>2 DEF Upward
  <2> HIDE DEF s
  <2> QED BY <1>1, <2>1
<1>4. x \in Above(es, RootRecord)
  BY <1>3
<1>5. x = RootRecord
  BY <1>4, AboveParent
<1>6. Above(es, x) = {x}
  BY <1>5, AboveParent
<1> QED BY <1>6

-----------------------------------------------------------------------------
(* The path of a record.                                                     *)

NamedIn(es, s, x) == UNION {{i \in ChildrenOf(es, d) : NameOf(i) = x} : d \in s}

LEMMA ResolvedIs ==
  ASSUME NEW es, NEW N, NEW path \in Seq(N)
  PROVE  \E f : /\ f[0] = {RootRecord} /\ \A n \in 1 .. Len(path) : f[n] = NamedIn(es, f[n - 1], path[n])
                /\ ResolvePath(es, path) = f[Len(path)]
<1> DEFINE m == Len(path)
           Y == SUBSET (DOMAIN es \cup {RootRecord})
           base == {RootRecord}
           step == [p \in (1 .. m) \X Y |-> NamedIn(es, p[2], path[p[1]])]
           eq(g) == g = [n \in 0 .. m |-> IF n = 0 THEN {RootRecord} ELSE NamedIn(es, g[n - 1], path[n])]
<1>1. m \in Nat /\ base \in Y
  OBVIOUS
<1>2. \A n \in 1 .. m, s \in Y : NamedIn(es, s, path[n]) \in Y
  BY DEF NamedIn, ChildrenOf
<1>3. step \in [(1 .. m) \X Y -> Y]
  BY <1>2
<1>4. \A n \in 1 .. m, s \in Y : step[<<n, s>>] = NamedIn(es, s, path[n])
  OBVIOUS
<1> HIDE DEF m, Y, step, base
<1>5. PICK f : Built(f, m, Y, base, step)
  BY <1>1, <1>3, BuiltIsThere
<1>6. eq(f)
  <2>1. f = [n \in 0 .. m |-> f[n]]
    BY <1>5 DEF Built
  <2>2. ASSUME NEW n \in 0 .. m PROVE f[n] = IF n = 0 THEN {RootRecord} ELSE NamedIn(es, f[n - 1], path[n])
    <3>1. CASE n = 0
      BY <1>5, <3>1 DEF Built, base
    <3>2. CASE n # 0
      <4>1. n \in 1 .. m /\ n - 1 \in 0 .. m
        BY <1>1, <3>2
      <4> QED BY <1>4, <1>5, <3>2, <4>1 DEF Built
    <3> QED BY <3>1, <3>2
  <2> QED BY <2>1, <2>2
<1> DEFINE g == CHOOSE g : eq(g)
<1>7. eq(g)
  <2> HIDE DEF eq
  <2> QED BY <1>6
<1>8. ResolvePath(es, path) = g[m]
  BY DEF ResolvePath, m, NamedIn
<1> HIDE DEF g
<1>9. g[0] = {RootRecord} /\ \A n \in 1 .. m : g[n] = NamedIn(es, g[n - 1], path[n])
  <2>1. ASSUME NEW n \in 0 .. m PROVE g[n] = IF n = 0 THEN {RootRecord} ELSE NamedIn(es, g[n - 1], path[n])
    <3> DEFINE of(k) == IF k = 0 THEN {RootRecord} ELSE NamedIn(es, g[k - 1], path[k])
    <3>1. g = [k \in 0 .. m |-> of(k)]
      BY <1>7
    <3> HIDE DEF of, eq
    <3>2. g[n] = of(n)
      BY <3>1
    <3> QED BY <3>2 DEF of
  <2>2. 0 \in 0 .. m /\ \A n \in 1 .. m : n \in 0 .. m /\ n # 0
    BY <1>1
  <2> HIDE DEF eq
  <2> QED BY <2>1, <2>2
<1>10. \E h : h[0] = {RootRecord} /\ (\A n \in 1 .. m : h[n] = NamedIn(es, h[n - 1], path[n]))
              /\ ResolvePath(es, path) = h[m]
  BY <1>8, <1>9
<1> QED BY <1>10 DEF m

\* No name leads to the root, and one name more to the children of that name.
LEMMA ResolvedOn ==
  ASSUME NEW es, NEW N, NEW path \in Seq(N), NEW x \in N
  PROVE  /\ ResolvePath(es, <<>>) = {RootRecord}
         /\ ResolvePath(es, Append(path, x)) = NamedIn(es, ResolvePath(es, path), x)
<1> DEFINE more == Append(path, x)
           m == Len(path)
<1>1. ResolvePath(es, <<>>) = {RootRecord}
  <2> DEFINE none == <<>>
  <2>1. none \in Seq(N) /\ Len(none) = 0
    OBVIOUS
  <2> HIDE DEF none
  <2>2. ResolvePath(es, none) = {RootRecord}
    BY <2>1, ResolvedIs
  <2> QED BY <2>2 DEF none
<1>2. /\ more \in Seq(N) /\ Len(more) = m + 1 /\ more[m + 1] = x /\ m \in Nat
      /\ \A n \in 1 .. m : more[n] = path[n]
  OBVIOUS
<1> HIDE DEF more
<1>3. PICK f : f[0] = {RootRecord} /\ (\A n \in 1 .. Len(path) : f[n] = NamedIn(es, f[n - 1], path[n]))
               /\ ResolvePath(es, path) = f[Len(path)]
  BY ResolvedIs
<1>4. PICK g : g[0] = {RootRecord} /\ (\A n \in 1 .. Len(more) : g[n] = NamedIn(es, g[n - 1], more[n]))
               /\ ResolvePath(es, more) = g[Len(more)]
  BY <1>2, ResolvedIs
<1> HIDE DEF m
<1>5. f[m] = g[m]
  <2> DEFINE P == {n \in 0 .. m : f[n] = g[n]}
  <2>1. 0 \in P
    <3>1. 0 \in 0 .. m
      BY <1>2
    <3>2. f[0] = g[0]
      BY <1>3, <1>4
    <3> QED BY <3>1, <3>2
  <2>2. ASSUME NEW n \in 1 .. m, n - 1 \in P PROVE n \in P
    <3>1. n \in 1 .. Len(path) /\ n \in 1 .. Len(more) /\ n \in 0 .. m
      BY <1>2 DEF m
    <3>2. f[n - 1] = g[n - 1]
      BY <2>2
    <3>3. f[n] = g[n]
      BY <1>2, <1>3, <1>4, <3>1, <3>2
    <3> QED BY <3>1, <3>3
  <2> HIDE DEF P
  <2>3. m \in P
    <3>1. m \in 0 .. m
      BY <1>2
    <3> QED BY <1>2, <2>1, <2>2, <3>1, Upto
  <2> QED BY <2>3 DEF P
<1>6. g[m + 1] = NamedIn(es, g[m], x)
  <2>1. m + 1 \in 1 .. Len(more) /\ m + 1 - 1 = m
    BY <1>2
  <2> QED BY <1>2, <1>4, <2>1
<1> QED BY <1>1, <1>2, <1>3, <1>4, <1>5, <1>6 DEF more, m

Records(es) == DOMAIN es \cup {es[k].parent : k \in DOMAIN es} \cup {RootRecord}

\* One step of the climb, with what the last one came to.
Climbed(es, w, r) ==
  IF r = RootRecord THEN <<>>
  ELSE IF r \notin DOMAIN es THEN Nowhere
  ELSE LET above == w[es[r].parent]
       IN IF above = Nowhere THEN Nowhere ELSE Append(above, NameOf(r))

NamesOf(es) == {NameOf(r) : r \in Records(es)} \cup {"nowhere"}

LEMMA PathIs ==
  ASSUME NEW es
  PROVE  \E f : /\ f \in [0 .. PathBound -> [Records(es) -> Seq(NamesOf(es))]]
                /\ \A r \in Records(es) : f[0][r] = Nowhere
                /\ \A n \in 1 .. PathBound, r \in Records(es) : f[n][r] = Climbed(es, f[n - 1], r)
                /\ \A i : PathOf(es, i) = f[PathBound][i]
<1> DEFINE R == Records(es)
           m == PathBound
           Y == [R -> Seq(NamesOf(es))]
           base == [r \in R |-> Nowhere]
           climb(w) == [r \in R |-> Climbed(es, w, r)]
           step == [p \in (1 .. m) \X Y |-> climb(p[2])]
           eq(g) == g = [n \in 0 .. m |-> [r \in R |-> IF n = 0 THEN Nowhere ELSE Climbed(es, g[n - 1], r)]]
<1>1. m \in Nat
  BY IndexAssumption
<1>2. Nowhere \in Seq(NamesOf(es))
  <2>1. "nowhere" \in NamesOf(es)
    BY DEF NamesOf
  <2> HIDE DEF NamesOf
  <2> QED BY <2>1 DEF Nowhere
<1>3. base \in Y
  BY <1>2
<1>4. ASSUME NEW w \in Y PROVE climb(w) \in Y
  <2>1. ASSUME NEW r \in R PROVE Climbed(es, w, r) \in Seq(NamesOf(es))
    <3>1. CASE r = RootRecord
      BY <3>1 DEF Climbed
    <3>2. CASE r # RootRecord /\ r \notin DOMAIN es
      BY <1>2, <3>2 DEF Climbed
    <3>3. CASE r # RootRecord /\ r \in DOMAIN es
      <4>1. es[r].parent \in R
        BY <3>3 DEF Records
      <4> DEFINE above == w[es[r].parent]
      <4>2. above \in Seq(NamesOf(es)) /\ NameOf(r) \in NamesOf(es)
        BY <4>1 DEF NamesOf
      <4>3. Climbed(es, w, r) = IF above = Nowhere THEN Nowhere ELSE Append(above, NameOf(r))
        BY <3>3 DEF Climbed
      <4> HIDE DEF above
      <4> QED BY <1>2, <4>2, <4>3
    <3> QED BY <3>1, <3>2, <3>3
  <2> HIDE DEF R
  <2> QED BY <2>1
<1> HIDE DEF climb
<1>5. step \in [(1 .. m) \X Y -> Y]
  BY <1>4
<1>6. \A n \in 1 .. m, w \in Y : step[<<n, w>>] = climb(w)
  OBVIOUS
<1> HIDE DEF m, Y, base, step
<1>7. PICK f : Built(f, m, Y, base, step)
  BY <1>1, <1>3, <1>5, BuiltIsThere
<1>8. eq(f)
  <2>1. f = [n \in 0 .. m |-> f[n]]
    BY <1>7 DEF Built
  <2>2. ASSUME NEW n \in 0 .. m
        PROVE  f[n] = [r \in R |-> IF n = 0 THEN Nowhere ELSE Climbed(es, f[n - 1], r)]
    <3>1. CASE n = 0
      BY <1>7, <3>1 DEF Built, base
    <3>2. CASE n # 0
      <4>1. n \in 1 .. m /\ n - 1 \in 0 .. m
        BY <1>1, <3>2
      <4>2. f[n] = climb(f[n - 1])
        BY <1>6, <1>7, <4>1 DEF Built
      <4> QED BY <3>2, <4>2 DEF climb
    <3> QED BY <3>1, <3>2
  <2> HIDE DEF R
  <2> QED BY <2>1, <2>2
<1> DEFINE g == CHOOSE g : eq(g)
<1>9. eq(g)
  <2> HIDE DEF eq
  <2> QED BY <1>8
<1>10. \A i : PathOf(es, i) = g[m][i]
  BY DEF PathOf, m, R, Records, Climbed
<1> HIDE DEF g
<1>11. ASSUME NEW n \in 0 .. m
       PROVE  g[n] = [r \in R |-> IF n = 0 THEN Nowhere ELSE Climbed(es, g[n - 1], r)]
  <2> DEFINE of(k) == [r \in R |-> IF k = 0 THEN Nowhere ELSE Climbed(es, g[k - 1], r)]
  <2>1. g = [k \in 0 .. m |-> of(k)]
    BY <1>9
  <2> HIDE DEF of, eq
  <2>2. g[n] = of(n)
    BY <2>1
  <2> QED BY <2>2 DEF of
<1>12. 0 \in 0 .. m /\ \A n \in 1 .. m : n \in 0 .. m /\ n # 0 /\ n - 1 \in 0 .. m
  BY <1>1
<1>13. g[0] = base /\ \A n \in 1 .. m : g[n] = climb(g[n - 1])
  <2> HIDE DEF R, eq
  <2> QED BY <1>11, <1>12 DEF base, climb
<1>14. \A n \in 0 .. m : g[n] \in Y
  <2> DEFINE P == {n \in 0 .. m : g[n] \in Y}
  <2>1. 0 \in P
    BY <1>3, <1>12, <1>13
  <2>2. ASSUME NEW n \in 1 .. m, n - 1 \in P PROVE n \in P
    BY <1>4, <1>12, <1>13, <2>2
  <2> HIDE DEF P
  <2>3. \A n \in 0 .. m : n \in P
    BY <1>1, <2>1, <2>2, Upto
  <2> QED BY <2>3 DEF P
<1>15. g \in [0 .. m -> Y]
  <2>1. g = [k \in 0 .. m |-> [r \in R |-> IF k = 0 THEN Nowhere ELSE Climbed(es, g[k - 1], r)]]
    BY <1>9
  <2> DEFINE of(k) == [r \in R |-> IF k = 0 THEN Nowhere ELSE Climbed(es, g[k - 1], r)]
  <2>2. g = [k \in 0 .. m |-> of(k)]
    BY <2>1
  <2> HIDE DEF of, eq
  <2>3. g = [k \in 0 .. m |-> g[k]]
    BY <2>2
  <2> QED BY <1>14, <2>3
<1>16. (\A r \in R : g[0][r] = Nowhere) /\ \A n \in 1 .. m, r \in R : g[n][r] = Climbed(es, g[n - 1], r)
  <2> HIDE DEF R, eq
  <2> QED BY <1>13 DEF base, climb
<1>17. \E h : h \in [0 .. m -> Y] /\ (\A r \in R : h[0][r] = Nowhere)
              /\ (\A n \in 1 .. m, r \in R : h[n][r] = Climbed(es, h[n - 1], r))
              /\ \A i : PathOf(es, i) = h[m][i]
  <2> HIDE DEF R, eq
  <2> QED BY <1>10, <1>15, <1>16
<1> QED BY <1>17 DEF m, Y

LEMMA RecordsFound ==
  ASSUME NEW es, IsIndex(es)
  PROVE  PathsLeadBack(es)
<1> DEFINE R == Records(es)
           N == NamesOf(es)
<1>1. PICK f : /\ f \in [0 .. PathBound -> [R -> Seq(N)]]
               /\ \A r \in R : f[0][r] = Nowhere
               /\ \A n \in 1 .. PathBound, r \in R : f[n][r] = Climbed(es, f[n - 1], r)
               /\ \A i : PathOf(es, i) = f[PathBound][i]
  BY PathIs
<1>2. PathBound \in Nat
  BY IndexAssumption
<1>3. \A r \in DOMAIN es : r \in R /\ es[r].parent \in R /\ NameOf(r) \in N
  BY DEF Records, NamesOf
<1> HIDE DEF R, N
<1> DEFINE leads(n, r) ==
             LET p == f[n][r]
             IN /\ RootRecord \in Above(es, r)
                /\ r \in ResolvePath(es, p)
                /\ \A m \in n .. PathBound, j \in ResolvePath(es, p) : f[m][j] = p
           P == {n \in 0 .. PathBound : \A r \in R : f[n][r] # Nowhere => leads(n, r)}
<1>4. 0 \in P
  <2> HIDE DEF leads
  <2> QED BY <1>1, <1>2
<1>5. ASSUME NEW n \in 1 .. PathBound, n - 1 \in P PROVE n \in P
  <2>1. n \in 0 .. PathBound /\ n - 1 \in 0 .. PathBound
    BY <1>2
  <2>2. ASSUME NEW r \in R, f[n][r] # Nowhere PROVE leads(n, r)
    <3>1. f[n][r] = Climbed(es, f[n - 1], r)
      BY <1>1
    <3>2. CASE r = RootRecord
      <4>1. f[n][r] = <<>>
        BY <3>1, <3>2 DEF Climbed
      <4>2. ResolvePath(es, <<>>) = {RootRecord}
        <5>1. <<>> \in Seq({0}) /\ 0 \in {0}
          OBVIOUS
        <5> QED BY <5>1, ResolvedOn
      <4>3. ASSUME NEW m \in n .. PathBound PROVE f[m][RootRecord] = <<>>
        <5>1. m \in 1 .. PathBound
          BY <1>2
        <5> QED BY <1>1, <3>2, <5>1 DEF Climbed
      <4>4. RootRecord \in Above(es, r)
        BY <3>2, AboveIs
      <4> QED BY <3>2, <4>1, <4>2, <4>3, <4>4
    <3>3. CASE r # RootRecord
      <4> DEFINE a == f[n - 1][es[r].parent]
                 p == Append(a, NameOf(r))
                 below == ResolvePath(es, a)
      <4>1. r \in DOMAIN es /\ a # Nowhere /\ f[n][r] = p
        BY <2>2, <3>1, <3>3 DEF Climbed
      <4>2. es[r].parent \in R /\ a \in Seq(N) /\ NameOf(r) \in N
        BY <1>1, <1>3, <2>1, <4>1
      <4>3. leads(n - 1, es[r].parent)
        <5> HIDE DEF leads
        <5> QED BY <1>5, <4>1, <4>2
      <4>4. RootRecord \in Above(es, r)
        <5>1. RootRecord \in Above(es, es[r].parent)
          BY <4>3
        <5> QED BY <3>3, <4>1, <5>1, AboveParent
      <4> HIDE DEF leads, P
      <4>5. /\ es[r].parent \in below
            /\ \A m \in n - 1 .. PathBound, j \in below : f[m][j] = a
        BY <4>3 DEF leads
      <4> HIDE DEF a
      <4>6. ResolvePath(es, p) = NamedIn(es, below, NameOf(r))
        BY <4>2, ResolvedOn
      <4>7. r \in ResolvePath(es, p)
        BY <3>3, <4>1, <4>5, <4>6 DEF NamedIn, ChildrenOf
      <4>8. ASSUME NEW m \in n .. PathBound, NEW j \in ResolvePath(es, p) PROVE f[m][j] = p
        <5>1. PICK d \in below : j \in ChildrenOf(es, d) /\ NameOf(j) = NameOf(r)
          BY <4>6 DEF NamedIn
        <5>2. j \in DOMAIN es /\ j # RootRecord /\ es[j].parent = d
          BY <5>1 DEF ChildrenOf
        <5>3. m - 1 \in n - 1 .. PathBound /\ m \in 1 .. PathBound
          BY <1>2
        <5>4. f[m - 1][es[j].parent] = a
          BY <4>5, <5>2, <5>3
        <5>5. f[m][j] = Climbed(es, f[m - 1], j)
          BY <1>1, <1>3, <5>2, <5>3
        <5>6. f[m][j] = Append(a, NameOf(j))
          BY <4>1, <5>2, <5>4, <5>5 DEF Climbed
        <5> QED BY <5>1, <5>6
      <4> HIDE DEF p, below
      <4> QED BY <4>1, <4>4, <4>7, <4>8 DEF leads
    <3> QED BY <3>2, <3>3
  <2> HIDE DEF leads
  <2> QED BY <2>1, <2>2
<1>6. PathBound \in P
  <2>1. PathBound \in 0 .. PathBound
    BY <1>2
  <2> HIDE DEF P
  <2> QED BY <1>2, <1>4, <1>5, <2>1, Upto
<1>7. ASSUME NEW i \in DOMAIN es, PathOf(es, i) # Nowhere
      PROVE  /\ RootRecord \in Above(es, i)
             /\ i \in ResolvePath(es, PathOf(es, i))
             /\ \A j \in ResolvePath(es, PathOf(es, i)) : PathOf(es, j) = PathOf(es, i)
  <2>1. i \in R /\ PathOf(es, i) = f[PathBound][i]
    BY <1>1, <1>3
  <2>2. leads(PathBound, i)
    <3> HIDE DEF leads
    <3> QED BY <1>6, <1>7, <2>1
  <2>3. PathBound \in PathBound .. PathBound
    BY <1>2
  <2>4. ASSUME NEW j \in ResolvePath(es, PathOf(es, i)) PROVE f[PathBound][j] = PathOf(es, i)
    BY <2>1, <2>2, <2>3
  <2> QED BY <1>1, <2>1, <2>2, <2>4
<1> QED BY <1>7 DEF PathsLeadBack

-----------------------------------------------------------------------------
(* The folders of the tree, and the files below one.                         *)

FoldersOf(es) ==
  {d \in DOMAIN es \cup {RootRecord} : d = RootRecord \/ (es[d].folder /\ InTree(es, d))}

LEMMA ChildIsInTree ==
  ASSUME NEW es, IsIndex(es), NEW d \in FoldersOf(es), NEW c \in ChildrenOf(es, d)
  PROVE  InTree(es, c)
<1>1. c \in DOMAIN es /\ c # RootRecord /\ es[c].parent = d
  BY DEF ChildrenOf
<1>2. Above(es, c) = {c} \cup Above(es, d)
  BY <1>1, AboveParent
<1>3. RootRecord \in Above(es, d)
  BY AboveIs DEF FoldersOf, InTree
<1>4. ASSUME NEW k \in Above(es, d) \ {RootRecord} PROVE k \in DOMAIN es /\ es[k].folder
  <2>1. CASE d = RootRecord
    BY <2>1, AboveParent
  <2>2. CASE d # RootRecord
    <3>1. d \in DOMAIN es /\ es[d].folder /\ InTree(es, d)
      BY <2>2 DEF FoldersOf
    <3> QED BY <3>1 DEF InTree
  <2> QED BY <2>1, <2>2
<1> QED BY <1>2, <1>3, <1>4 DEF InTree

LEMMA ParentIsInTree ==
  ASSUME NEW es, IsIndex(es), NEW c \in DOMAIN es \ {RootRecord}, InTree(es, c)
  PROVE  es[c].parent \in FoldersOf(es) /\ c \in ChildrenOf(es, es[c].parent)
<1> DEFINE p == es[c].parent
<1>1. Above(es, c) = {c} \cup Above(es, p)
  BY AboveParent
<1>2. RootRecord \in Above(es, c) /\ RootRecord \in Above(es, p)
  BY <1>1 DEF InTree
<1>3. p \in Above(es, p)
  BY AboveIs
<1> HIDE DEF p
<1>4. c \notin Above(es, p)
  <2> SUFFICES ASSUME c \in Above(es, p) PROVE FALSE
    OBVIOUS
  <2>1. c = p
    BY <1>1, <1>2, <1>3, NoRound
  <2>2. Upward(es, {c})
    BY <2>1 DEF Upward, Linked, p
  <2>3. Above(es, c) \subseteq {c}
    BY <2>2, AboveIs
  <2> QED BY <1>2, <2>3
<1>5. p = RootRecord \/ (p \in DOMAIN es /\ es[p].folder)
  BY <1>1, <1>3, <1>4 DEF InTree
<1>6. InTree(es, p)
  BY <1>1, <1>2, <1>4 DEF InTree
<1>7. p \in FoldersOf(es)
  BY <1>5, <1>6 DEF FoldersOf
<1> QED BY <1>7 DEF p, ChildrenOf

\* Every folder of the tree is come to from the root.
LEMMA AllReached ==
  ASSUME NEW es, IsIndex(es), NEW V, RootRecord \in V, \A d \in V : DirectoriesIn(es, d) \subseteq V
  PROVE  FoldersOf(es) \subseteq V
<1> SUFFICES ASSUME NEW d \in FoldersOf(es), d \notin V PROVE FALSE
  OBVIOUS
<1> DEFINE s == FoldersOf(es) \ V
<1>1. ASSUME NEW k \in Linked(es, s) PROVE es[k].parent \in s
  <2>1. k \in DOMAIN es \ {RootRecord} /\ es[k].folder /\ InTree(es, k) /\ k \notin V
    BY DEF Linked, FoldersOf
  <2>2. es[k].parent \in FoldersOf(es) /\ k \in DirectoriesIn(es, es[k].parent)
    BY <2>1, ParentIsInTree DEF DirectoriesIn
  <2> QED BY <2>1, <2>2
<1>2. Upward(es, s) /\ d \in s
  BY <1>1 DEF Upward
<1>3. Above(es, d) \subseteq s
  <2> HIDE DEF s
  <2> QED BY <1>2, AboveIs
<1>4. RootRecord \in Above(es, d)
  BY AboveIs DEF FoldersOf, InTree
<1> QED BY <1>3, <1>4

\* What a child contributes to its folder.
FilesUnder(es, c) == IF es[c].folder THEN TreeFiles(es, c) ELSE {c}

LEMMA FilesParted ==
  ASSUME NEW es, IsIndex(es), NEW d \in FoldersOf(es)
  PROVE  /\ TreeFiles(es, d) = UNION {FilesUnder(es, c) : c \in ChildrenOf(es, d)}
         /\ \A b, c \in ChildrenOf(es, d) : b # c => FilesUnder(es, b) \cap FilesUnder(es, c) = {}
<1>1. ASSUME NEW c \in ChildrenOf(es, d)
      PROVE  /\ c \in DOMAIN es \ {RootRecord} /\ Above(es, c) = {c} \cup Above(es, d)
             /\ InTree(es, c) /\ c \notin Above(es, d) /\ c \in Above(es, c)
             /\ \A f \in FilesUnder(es, c) : c \in Above(es, f) /\ f \in TreeFiles(es, d)
  <2>1. c \in DOMAIN es \ {RootRecord} /\ es[c].parent = d
    BY DEF ChildrenOf
  <2>2. Above(es, c) = {c} \cup Above(es, d)
    BY <2>1, AboveParent
  <2>3. InTree(es, c)
    BY ChildIsInTree
  <2>4. c \in Above(es, c) /\ d \in Above(es, d)
    BY AboveIs
  <2>5. c \notin Above(es, d)
    <3> SUFFICES ASSUME c \in Above(es, d) PROVE FALSE
      OBVIOUS
    <3>1. c = d
      BY <2>2, <2>3, <2>4, NoRound DEF InTree
    <3>2. Upward(es, {c})
      BY <2>1, <3>1 DEF Upward, Linked
    <3>3. Above(es, c) \subseteq {c}
      BY <3>2, AboveIs
    <3> QED BY <2>1, <2>3, <3>3 DEF InTree
  <2>6. ASSUME NEW f \in FilesUnder(es, c) PROVE c \in Above(es, f) /\ f \in TreeFiles(es, d)
    <3>1. CASE es[c].folder
      <4>1. f \in TreeFiles(es, c)
        BY <3>1 DEF FilesUnder
      <4>2. c \in Above(es, f)
        BY <4>1 DEF TreeFiles
      <4>3. d \in Above(es, f)
        BY <2>2, <2>4, <4>2, AboveAbove
      <4> QED BY <4>1, <4>2, <4>3 DEF TreeFiles
    <3>2. CASE ~es[c].folder
      <4>1. f = c
        BY <3>2 DEF FilesUnder
      <4> QED BY <2>1, <2>2, <2>3, <2>4, <3>2, <4>1 DEF TreeFiles
    <3> QED BY <3>1, <3>2
  <2> QED BY <2>1, <2>2, <2>3, <2>4, <2>5, <2>6
<1>2. ASSUME NEW f \in TreeFiles(es, d) PROVE \E c \in ChildrenOf(es, d) : f \in FilesUnder(es, c)
  <2>1. f \in DOMAIN es \ {RootRecord} /\ ~es[f].folder /\ InTree(es, f) /\ d \in Above(es, f)
    BY DEF TreeFiles
  <2>2. f # d
    BY <2>1 DEF FoldersOf
  <2>3. PICK c \in Above(es, f) : c \in DOMAIN es \ {RootRecord} /\ es[c].parent = d
    <3> DEFINE s == Above(es, f) \ {d}
    <3> SUFFICES ASSUME \A c \in Above(es, f) : c \in DOMAIN es \ {RootRecord} => es[c].parent # d
                 PROVE  FALSE
      OBVIOUS
    <3>1. f \in Above(es, f) /\ Upward(es, Above(es, f))
      BY AboveIs
    <3>2. Upward(es, s) /\ f \in s
      BY <2>2, <3>1 DEF Upward, Linked
    <3>3. Above(es, f) \subseteq s
      <4> HIDE DEF s
      <4> QED BY <3>2, AboveIs
    <3> QED BY <2>1, <3>3
  <2>4. c \in ChildrenOf(es, d)
    BY <2>3 DEF ChildrenOf
  <2>5. CASE c = f
    BY <2>1, <2>4, <2>5 DEF FilesUnder
  <2>6. CASE c # f
    <3>1. es[c].folder
      BY <2>1, <2>3, <2>6 DEF InTree
    <3>2. f \in TreeFiles(es, c)
      BY <2>1, <2>3 DEF TreeFiles
    <3> QED BY <2>4, <3>1, <3>2 DEF FilesUnder
  <2> QED BY <2>5, <2>6
<1>3. ASSUME NEW b \in ChildrenOf(es, d), NEW c \in ChildrenOf(es, d), b # c,
             NEW f \in FilesUnder(es, b) \cap FilesUnder(es, c)
      PROVE  FALSE
  <2>1. b \in Above(es, f) /\ c \in Above(es, f)
    BY <1>1
  <2>2. b \in Above(es, c) \/ c \in Above(es, b)
    BY <2>1, OneLine
  <2> QED BY <1>1, <1>3, <2>2
<1>4. TreeFiles(es, d) \subseteq UNION {FilesUnder(es, c) : c \in ChildrenOf(es, d)}
  BY <1>2
<1>5. UNION {FilesUnder(es, c) : c \in ChildrenOf(es, d)} \subseteq TreeFiles(es, d)
  BY <1>1
<1> QED BY <1>3, <1>4, <1>5

-----------------------------------------------------------------------------
(* Sums of sums.                                                             *)

LEMMA SumsAgree ==
  ASSUME NEW S, IsFiniteSet(S), NEW f, NEW g, \A x \in S : f[x] \in Nat /\ g[x] = f[x]
  PROVE  Sum(f, S) = Sum(g, S)
<1> DEFINE good(s) == Sum(f, s) = Sum(g, s)
           B == {s \in SUBSET S : ~good(s)}
<1> SUFFICES ASSUME B # {} PROVE FALSE
  OBVIOUS
<1>1. PICK s \in B : \A u \in B : u \subseteq s => u = s
  <2>1. B \in SUBSET SUBSET S
    OBVIOUS
  <2> HIDE DEF B
  <2> QED BY <2>1, Innermost
<1>2. s \in SUBSET S /\ IsFiniteSet(s) /\ ~good(s)
  BY <1>1, FS_Subset
<1>3. s # {}
  <2>1. Sum(f, {}) = 0 /\ Sum(g, {}) = 0
    <3>1. IsFiniteSet({}) /\ (\A x \in {} : f[x] \in Nat) /\ \A x \in {} : g[x] \in Nat
      BY FS_EmptySet
    <3> QED BY <3>1, SumIsNat
  <2> QED BY <1>2, <2>1
<1>4. PICK x \in s : TRUE
  BY <1>3
<1> DEFINE less == s \ {x}
<1>5. good(less)
  <2>1. less \in SUBSET S /\ less \subseteq s /\ less # s
    BY <1>2
  <2> HIDE DEF good, less
  <2> QED BY <1>1, <2>1
<1>6. (\A y \in s : f[y] \in Nat) /\ (\A y \in s : g[y] \in Nat) /\ f[x] = g[x]
  BY <1>2
<1>7. Sum(f, s) = f[x] + Sum(f, less) /\ Sum(g, s) = g[x] + Sum(g, less)
  BY <1>2, <1>6, SumWithOneMore
<1> HIDE DEF less
<1> QED BY <1>2, <1>5, <1>6, <1>7

LEMMA SumOfBoth ==
  ASSUME NEW P, IsFiniteSet(P), NEW Q, IsFiniteSet(Q), P \cap Q = {}, NEW w, \A x \in P \cup Q : w[x] \in Nat
  PROVE  IsFiniteSet(P \cup Q) /\ Sum(w, P \cup Q) = Sum(w, P) + Sum(w, Q)
<1> DEFINE good(s) == Sum(w, P \cup s) = Sum(w, P) + Sum(w, s)
           B == {s \in SUBSET Q : ~good(s)}
<1>1. \A s \in SUBSET Q : IsFiniteSet(s) /\ IsFiniteSet(P \cup s)
  BY FS_Subset, FS_Union
<1>2. Sum(w, P) \in Nat
  BY SumIsNat
<1>3. ASSUME B # {} PROVE FALSE
  <2>1. PICK s \in B : \A u \in B : u \subseteq s => u = s
    <3>1. B \in SUBSET SUBSET Q
      OBVIOUS
    <3> HIDE DEF B
    <3> QED BY <1>3, <3>1, Innermost
  <2>2. s \in SUBSET Q /\ ~good(s)
    BY <2>1
  <2>3. s # {}
    <3>1. Sum(w, {}) = 0
      <4>1. IsFiniteSet({}) /\ \A x \in {} : w[x] \in Nat
        BY FS_EmptySet
      <4> QED BY <4>1, SumIsNat
    <3>2. P \cup {} = P
      OBVIOUS
    <3>3. Sum(w, P \cup {}) = Sum(w, P) + Sum(w, {})
      BY <1>2, <3>1, <3>2
    <3> QED BY <2>2, <3>3
  <2>4. PICK x \in s : TRUE
    BY <2>3
  <2> DEFINE less == s \ {x}
  <2>5. good(less)
    <3>1. less \in SUBSET Q /\ less \subseteq s /\ less # s
      BY <2>2
    <3> HIDE DEF good, less
    <3> QED BY <2>1, <3>1
  <2>6. (\A y \in s : w[y] \in Nat) /\ (\A y \in P \cup s : w[y] \in Nat) /\ (\A y \in less : w[y] \in Nat)
        /\ x \in P \cup s /\ w[x] \in Nat
    BY <2>2
  <2>7. (P \cup s) \ {x} = P \cup less
    BY <2>2
  <2>8. less \in SUBSET Q
    BY <2>2
  <2> HIDE DEF less
  <2>9. Sum(w, s) = w[x] + Sum(w, less)
    BY <1>1, <2>2, <2>6, SumWithOneMore DEF less
  <2>10. Sum(w, P \cup s) = w[x] + Sum(w, P \cup less)
    <3> DEFINE all == P \cup s
    <3>1. IsFiniteSet(all) /\ (\A y \in all : w[y] \in Nat) /\ x \in all /\ all \ {x} = P \cup less
      BY <1>1, <2>2, <2>6, <2>7
    <3> HIDE DEF all
    <3>2. Sum(w, all) = w[x] + Sum(w, all \ {x})
      BY <3>1, SumWithOneMore
    <3>3. Sum(w, all) = w[x] + Sum(w, P \cup less)
      BY <3>1, <3>2
    <3> QED BY <3>3 DEF all
  <2>11. Sum(w, less) \in Nat
    BY <1>1, <2>6, <2>8, SumIsNat
  <2> QED BY <1>2, <2>2, <2>5, <2>6, <2>9, <2>10, <2>11
<1>4. good(Q)
  <2> HIDE DEF good
  <2> QED BY <1>3
<1> QED BY <1>1, <1>4

LEMMA SumsAddUp ==
  ASSUME NEW S, IsFiniteSet(S), NEW F, \A x \in S : IsFiniteSet(F[x]),
         \A x, y \in S : x # y => F[x] \cap F[y] = {},
         NEW w, \A x \in S : \A y \in F[x] : w[y] \in Nat,
         NEW f, \A x \in S : f[x] = Sum(w, F[x])
  PROVE  IsFiniteSet(AllOf(F, S)) /\ Sum(w, AllOf(F, S)) = Sum(f, S)
<1> DEFINE good(s) == IsFiniteSet(AllOf(F, s)) /\ Sum(w, AllOf(F, s)) = Sum(f, s)
           B == {s \in SUBSET S : ~good(s)}
<1>1. \A x \in S : f[x] \in Nat
  BY SumIsNat
<1>2. ASSUME B # {} PROVE FALSE
  <2>1. PICK s \in B : \A u \in B : u \subseteq s => u = s
    <3>1. B \in SUBSET SUBSET S
      OBVIOUS
    <3> HIDE DEF B
    <3> QED BY <1>2, <3>1, Innermost
  <2>2. s \in SUBSET S /\ IsFiniteSet(s) /\ ~good(s)
    BY <2>1, FS_Subset
  <2>3. s # {}
    <3>1. AllOf(F, {}) = {} /\ Sum(f, {}) = 0 /\ IsFiniteSet({}) /\ Sum(w, {}) = 0
      <4>1. IsFiniteSet({}) /\ (\A x \in {} : f[x] \in Nat) /\ \A x \in {} : w[x] \in Nat
        BY FS_EmptySet
      <4>2. Sum(f, {}) = 0 /\ Sum(w, {}) = 0
        BY <4>1, SumIsNat
      <4> QED BY <4>1, <4>2 DEF AllOf
    <3>2. good({})
      BY <3>1
    <3> HIDE DEF good
    <3> QED BY <2>2, <3>2
  <2>4. PICK x \in s : TRUE
    BY <2>3
  <2> DEFINE less == s \ {x}
  <2>5. good(less)
    <3>1. less \in SUBSET S /\ less \subseteq s /\ less # s
      BY <2>2
    <3> HIDE DEF good, less
    <3> QED BY <2>1, <3>1
  <2>6. AllOf(F, s) = AllOf(F, less) \cup F[x] /\ AllOf(F, less) \cap F[x] = {}
    BY <2>2 DEF AllOf
  <2>7. Sum(f, s) = f[x] + Sum(f, less)
    BY <1>1, <2>2, SumWithOneMore
  <2>8. (\A y \in AllOf(F, less) : w[y] \in Nat) /\ \A y \in F[x] : w[y] \in Nat
    BY <2>2 DEF AllOf
  <2>9. Sum(f, less) \in Nat /\ f[x] \in Nat
    <3>1. IsFiniteSet(less) /\ \A y \in less : f[y] \in Nat
      BY <1>1, <2>2, FS_RemoveElement
    <3> HIDE DEF less
    <3> QED BY <1>1, <2>2, <3>1, SumIsNat
  <2>10. IsFiniteSet(F[x]) /\ f[x] = Sum(w, F[x])
    BY <2>2
  <2>11. IsFiniteSet(AllOf(F, less)) /\ Sum(w, AllOf(F, less)) = Sum(f, less)
    BY <2>5
  <2> HIDE DEF good, less
  <2>12. IsFiniteSet(AllOf(F, s)) /\ Sum(w, AllOf(F, s)) = Sum(w, AllOf(F, less)) + Sum(w, F[x])
    <3> DEFINE P == AllOf(F, less)
               Q == F[x]
    <3>1. P \cap Q = {} /\ IsFiniteSet(P) /\ IsFiniteSet(Q) /\ (\A y \in P \cup Q : w[y] \in Nat)
          /\ AllOf(F, s) = P \cup Q
      BY <2>6, <2>8, <2>10, <2>11
    <3> HIDE DEF P, Q
    <3>2. IsFiniteSet(P \cup Q) /\ Sum(w, P \cup Q) = Sum(w, P) + Sum(w, Q)
      BY <3>1, SumOfBoth, SMTT(30)
    <3> QED BY <3>1, <3>2 DEF P, Q
  <2>13. good(s)
    BY <2>7, <2>9, <2>10, <2>11, <2>12 DEF good
  <2> QED BY <2>2, <2>13
<1>3. good(S)
  <2> HIDE DEF good
  <2> QED BY <1>2
<1> QED BY <1>3

Weights(es) == [i \in DOMAIN es |-> es[i].bytes]

LEMMA BytesAre ==
  ASSUME NEW es, IsIndex(es), NEW files \in SUBSET DOMAIN es
  PROVE  /\ IsFiniteSet(files) /\ BytesOf(es, files) = Sum(Weights(es), files)
         /\ BytesOf(es, files) \in Nat /\ \A i \in files : Weights(es)[i] = es[i].bytes /\ es[i].bytes \in Nat
<1> DEFINE size == [i \in files |-> es[i].bytes]
<1>1. IsFiniteSet(files)
  BY FS_Subset DEF IsIndex
<1>2. \A i \in files : size[i] \in Nat /\ Weights(es)[i] = size[i] /\ es[i].bytes = size[i]
  BY DEF IsIndex, Entry, Weights
<1>3. BytesOf(es, files) = Sum(size, files)
  BY DEF BytesOf, Sum
<1> HIDE DEF size
<1>4. Sum(size, files) = Sum(Weights(es), files)
  BY <1>1, <1>2, SumsAgree
<1>5. Sum(size, files) \in Nat
  BY <1>1, <1>2, SumIsNat
<1> QED BY <1>1, <1>2, <1>3, <1>4, <1>5

SizeOf(es, w, i) == IF ~es[i].folder THEN es[i].bytes ELSE IF i \in DOMAIN w THEN w[i] ELSE 0

LEMMA SummedIs ==
  ASSUME NEW es, IsIndex(es), NEW w, \A i \in DOMAIN w : w[i] \in Nat, NEW d
  PROVE  /\ Summed(es, w, d) \in Nat /\ IsFiniteSet(ChildrenOf(es, d))
         /\ Summed(es, w, d) = Sum([i \in ChildrenOf(es, d) |-> SizeOf(es, w, i)], ChildrenOf(es, d))
<1> DEFINE kids == ChildrenOf(es, d)
           size == [i \in kids |-> SizeOf(es, w, i)]
<1>1. kids \in SUBSET DOMAIN es
  BY DEF ChildrenOf
<1>2. IsFiniteSet(kids)
  BY <1>1, FS_Subset DEF IsIndex
<1>3. \A i \in kids : SizeOf(es, w, i) \in Nat
  BY <1>1 DEF SizeOf, IsIndex, Entry
<1>4. Summed(es, w, d) = Sum(size, kids)
  BY DEF Summed, Sum, SizeOf
<1>5. Sum(size, kids) \in Nat
  <2>1. \A i \in kids : size[i] \in Nat
    BY <1>3
  <2> HIDE DEF size, kids
  <2> QED BY <1>2, <2>1, SumIsNat
<1> QED BY <1>2, <1>4, <1>5

\* With the totals of the folders in it, a folder's sum is the bytes below it.
LEMMA SumIsTrue ==
  ASSUME NEW es, IsIndex(es), NEW d \in FoldersOf(es),
         NEW w, \A i \in DOMAIN w : w[i] = BytesOf(es, TreeFiles(es, i)),
         DirectoriesIn(es, d) \subseteq DOMAIN w
  PROVE  Summed(es, w, d) = BytesOf(es, TreeFiles(es, d))
<1> DEFINE kids == ChildrenOf(es, d)
           size == [i \in kids |-> SizeOf(es, w, i)]
           F == [i \in kids |-> FilesUnder(es, i)]
<1>1. \A i : TreeFiles(es, i) \in SUBSET DOMAIN es
  BY DEF TreeFiles
<1>2. \A i \in DOMAIN w : w[i] \in Nat
  BY <1>1, BytesAre
<1>3. Summed(es, w, d) = Sum(size, kids) /\ IsFiniteSet(kids)
  BY <1>2, SummedIs
<1>4. ASSUME NEW i \in kids
      PROVE  /\ F[i] \in SUBSET DOMAIN es /\ IsFiniteSet(F[i])
             /\ \A y \in F[i] : Weights(es)[y] \in Nat
             /\ size[i] = Sum(Weights(es), F[i])
  <2>1. i \in DOMAIN es /\ F[i] = FilesUnder(es, i) /\ size[i] = SizeOf(es, w, i)
    BY DEF ChildrenOf
  <2>2. FilesUnder(es, i) \in SUBSET DOMAIN es
    BY <1>1, <2>1 DEF FilesUnder
  <2> DEFINE files == FilesUnder(es, i)
  <2> HIDE DEF files, F, size
  <2>3. /\ IsFiniteSet(files) /\ BytesOf(es, files) = Sum(Weights(es), files)
        /\ \A y \in files : Weights(es)[y] \in Nat
    BY <2>2, BytesAre DEF files
  <2>4. SizeOf(es, w, i) = Sum(Weights(es), files)
    <3>1. CASE es[i].folder
      <4>1. i \in DOMAIN w
        BY <3>1 DEF DirectoriesIn
      <4> QED BY <2>3, <3>1, <4>1 DEF SizeOf, FilesUnder, files
    <3>2. CASE ~es[i].folder
      <4>1. files = {i}
        BY <3>2 DEF FilesUnder, files
      <4>2. Weights(es)[i] = es[i].bytes /\ es[i].bytes \in Nat
        BY <2>1, <2>2, <4>1, BytesAre DEF files
      <4>3. Sum(Weights(es), {i}) = Weights(es)[i] + Sum(Weights(es), {i} \ {i})
        <5> DEFINE one == {i}
        <5>1. IsFiniteSet(one) /\ (\A y \in one : Weights(es)[y] \in Nat) /\ i \in one
          BY <2>3, <4>1
        <5> HIDE DEF one
        <5>2. Sum(Weights(es), one) = Weights(es)[i] + Sum(Weights(es), one \ {i})
          BY <5>1, SumWithOneMore
        <5> QED BY <5>2 DEF one
      <4>4. Sum(Weights(es), {i} \ {i}) = 0
        <5> DEFINE none == {i} \ {i}
        <5>1. none = {} /\ IsFiniteSet(none) /\ \A y \in none : Weights(es)[y] \in Nat
          BY FS_EmptySet
        <5> HIDE DEF none
        <5>2. Sum(Weights(es), none) = 0
          BY <5>1, SumIsNat
        <5> QED BY <5>2 DEF none
      <4> QED BY <3>2, <4>1, <4>2, <4>3, <4>4 DEF SizeOf
    <3> QED BY <3>1, <3>2
  <2> QED BY <2>1, <2>2, <2>3, <2>4 DEF files
<1>5. \A x, y \in kids : x # y => F[x] \cap F[y] = {}
  BY FilesParted
<1>6. AllOf(F, kids) = TreeFiles(es, d)
  BY FilesParted DEF AllOf
<1> HIDE DEF kids, size, F
<1>7. Sum(Weights(es), AllOf(F, kids)) = Sum(size, kids)
  BY <1>3, <1>4, <1>5, SumsAddUp
<1>8. BytesOf(es, TreeFiles(es, d)) = Sum(Weights(es), TreeFiles(es, d))
  BY <1>1, BytesAre
<1> QED BY <1>3, <1>6, <1>7, <1>8

-----------------------------------------------------------------------------
(* The loop that totals the folders.                                         *)

Places(es) == DOMAIN es \cup {RootRecord}

Sums(es) == UNION {[s -> Nat] : s \in SUBSET Places(es)}

Tally(es) == [todo : Seq(Places(es) \X BOOLEAN), visited : SUBSET Places(es), known : Sums(es)]

AtFirst == [todo |-> <<<<RootRecord, FALSE>>>>, visited |-> {RootRecord}, known |-> <<>>]

\* The folders met are put on the stack one by one, to be opened.
LEMMA MetIs ==
  ASSUME NEW es, IsIndex(es), NEW V, NEW d
  PROVE  LET ms == Met(es, V, d)
             more == DirectoriesIn(es, d) \ V
         IN /\ ms \in Seq(Places(es) \X BOOLEAN)
            /\ \A k \in 1 .. Len(ms) : ms[k][1] \in more /\ ms[k][2] = FALSE
            /\ \A c \in more : \E k \in 1 .. Len(ms) : ms[k][1] = c
            /\ \A j, k \in 1 .. Len(ms) : ms[j][1] = ms[k][1] => j = k
<1> DEFINE more == DirectoriesIn(es, d) \ V
           m == Cardinality(more)
           listed == SetToSeq(more)
           ms == [k \in 1 .. m |-> <<listed[k], FALSE>>]
<1>1. more \in SUBSET DOMAIN es
  BY DEF DirectoriesIn, ChildrenOf
<1>2. IsFiniteSet(more)
  BY <1>1, FS_Subset DEF IsIndex
<1>3. m \in Nat /\ ExistsBijection(1 .. m, more)
  BY <1>2, FS_CardinalityType
<1>4. \E f \in [1 .. m -> more] : IsInjective(f)
  BY <1>3 DEF ExistsBijection, Bijection, Injection, IsInjective
<1>5. listed \in [1 .. m -> more] /\ IsInjective(listed)
  BY <1>4 DEF SetToSeq
<1>6. listed \in Injection(1 .. m, more)
  BY <1>5 DEF Injection, IsInjective
<1>7. \A c \in more : \E k \in 1 .. m : listed[k] = c
  <2> DEFINE I == 1 .. m
  <2>1. IsFiniteSet(I) /\ Cardinality(I) = m
    <3>1. IsFiniteSet(1 .. m) /\ Cardinality(1 .. m) = IF 1 > m THEN 0 ELSE m - 1 + 1
      BY <1>3, FS_Interval
    <3> QED BY <1>3, <3>1
  <2> DEFINE T == {listed[k] : k \in I}
  <2>2. T \in SUBSET more
    BY <1>5
  <2>3. listed \in Injection(I, T) /\ listed \in Surjection(I, T)
    BY <1>5 DEF Injection, Surjection, IsInjective
  <2> HIDE DEF m, listed, more
  <2>4. IsFiniteSet(T) /\ Cardinality(T) = m
    <3> HIDE DEF T, I
    <3>1. IsFiniteSet(T) /\ (Cardinality(T) = Cardinality(I) <=> listed \in Injection(I, T))
      BY <2>1, <2>3, FS_Surjection
    <3> QED BY <2>1, <2>3, <3>1
  <2>5. T = more
    <3> HIDE DEF T
    <3> QED BY <1>2, <2>2, <2>4, FS_Subset DEF m
  <2> QED BY <2>5
<1>8. Met(es, V, d) = ms
  BY DEF Met
<1> HIDE DEF listed, m, more
<1>9. ms \in Seq(Places(es) \X BOOLEAN) /\ Len(ms) = m
  <2> DEFINE E == Places(es) \X BOOLEAN
  <2>1. \A k \in 1 .. m : <<listed[k], FALSE>> \in E
    BY <1>1, <1>5 DEF Places
  <2> HIDE DEF E
  <2>2. ms \in [1 .. m -> E]
    BY <2>1
  <2> HIDE DEF ms
  <2>3. ms \in Seq(E) /\ Len(ms) = m
    BY <1>3, <2>2
  <2> QED BY <2>3 DEF E
<1>10. \A k \in 1 .. m : ms[k][1] = listed[k] /\ ms[k][2] = FALSE
  OBVIOUS
<1> HIDE DEF ms
<1>11. \A k \in 1 .. m : ms[k][1] \in more
  BY <1>5, <1>10
<1>12. \A c \in more : \E k \in 1 .. m : ms[k][1] = c
  BY <1>7, <1>10
<1>13. \A j, k \in 1 .. m : ms[j][1] = ms[k][1] => j = k
  BY <1>5, <1>10 DEF IsInjective
<1> QED BY <1>8, <1>9, <1>10, <1>11, <1>12, <1>13 DEF more

OpenTop(es, s) ==
  [todo    |-> Append(Front(s.todo), <<Last(s.todo)[1], TRUE>>) \o Met(es, s.visited, Last(s.todo)[1]),
   visited |-> s.visited \cup DirectoriesIn(es, Last(s.todo)[1]),
   known   |-> s.known]

CloseTop(es, s) ==
  [todo    |-> Front(s.todo),
   visited |-> s.visited,
   known   |-> Inserted(es, s.known, Last(s.todo)[1])]

LEMMA TopOpened ==
  ASSUME NEW es, IsIndex(es), NEW s \in Tally(es), s.todo # <<>>
  PROVE  LET L == Len(s.todo)
             d == s.todo[L][1]
             ms == Met(es, s.visited, d)
             t == OpenTop(es, s)
         IN /\ t \in Tally(es) /\ Len(t.todo) = L + Len(ms) /\ L \in Nat \ {0} /\ Len(ms) \in Nat
            /\ \A k \in 1 .. L - 1 : t.todo[k] = s.todo[k]
            /\ t.todo[L] = <<d, TRUE>>
            /\ \A k \in 1 .. Len(ms) : t.todo[L + k] = ms[k]
            /\ t.visited = s.visited \cup DirectoriesIn(es, d) /\ t.known = s.known
<1> DEFINE L == Len(s.todo)
           d == s.todo[L][1]
           ms == Met(es, s.visited, d)
           E == Places(es) \X BOOLEAN
           front == SubSeq(s.todo, 1, L - 1)
           top == <<d, TRUE>>
           t == OpenTop(es, s)
<1>1. s.todo \in Seq(E) /\ s.visited \in SUBSET Places(es) /\ s.known \in Sums(es)
  BY DEF Tally
<1>2. L \in Nat \ {0} /\ s.todo[L] \in E
  BY <1>1
<1>3. top \in E
  BY <1>2
<1>4. ms \in Seq(E) /\ Len(ms) \in Nat
  <2>1. ms \in Seq(E)
    <3> DEFINE V == s.visited
    <3> HIDE DEF d, V
    <3>1. Met(es, V, d) \in Seq(Places(es) \X BOOLEAN)
      BY MetIs
    <3> QED BY <3>1 DEF V
  <2> HIDE DEF ms, E
  <2> QED BY <2>1
<1> HIDE DEF ms, top, E
<1>5. front \in Seq(E) /\ Len(front) = L - 1 /\ \A k \in 1 .. L - 1 : front[k] = s.todo[k]
  BY <1>1, <1>2
<1> HIDE DEF front
<1>6. /\ Append(front, top) \in Seq(E) /\ Len(Append(front, top)) = L
      /\ (\A k \in 1 .. L - 1 : Append(front, top)[k] = s.todo[k])
      /\ Append(front, top)[L] = top
  BY <1>2, <1>3, <1>5
<1> DEFINE under == Append(front, top)
           all == under \o ms
<1>7. t.todo = all /\ t.visited = s.visited \cup DirectoriesIn(es, d) /\ t.known = s.known
      /\ t = [todo |-> all, visited |-> s.visited \cup DirectoriesIn(es, d), known |-> s.known]
  BY DEF OpenTop, Front, Last, front, top, ms
<1> HIDE DEF under, t
<1>8. /\ all \in Seq(E) /\ Len(all) = L + Len(ms)
      /\ (\A k \in 1 .. L : all[k] = under[k])
      /\ \A k \in 1 .. Len(ms) : all[L + k] = ms[k]
  <2>1. under \in Seq(E) /\ Len(under) = L
    BY <1>6 DEF under
  <2> HIDE DEF L
  <2> QED BY <1>2, <1>4, <2>1
<1> HIDE DEF all
<1>9. DirectoriesIn(es, d) \subseteq Places(es)
  BY DEF DirectoriesIn, ChildrenOf, Places
<1>10. t \in Tally(es)
  BY <1>1, <1>7, <1>8, <1>9 DEF Tally, E
<1>11. \A k \in 1 .. L - 1 : all[k] = s.todo[k]
  <2>1. \A k \in 1 .. L - 1 : k \in 1 .. L
    BY <1>2
  <2> HIDE DEF L
  <2> QED BY <1>6, <1>8, <2>1 DEF under
<1>12. all[L] = top
  <2>1. L \in 1 .. L
    BY <1>2
  <2> HIDE DEF L
  <2> QED BY <1>6, <1>8, <2>1 DEF under
<1> QED BY <1>2, <1>4, <1>7, <1>8, <1>10, <1>11, <1>12 DEF top, ms, t

LEMMA TopClosed ==
  ASSUME NEW es, IsIndex(es), NEW s \in Tally(es), s.todo # <<>>
  PROVE  LET L == Len(s.todo)
             d == s.todo[L][1]
             t == CloseTop(es, s)
         IN /\ t \in Tally(es) /\ Len(t.todo) = L - 1 /\ L \in Nat \ {0}
            /\ \A k \in 1 .. L - 1 : t.todo[k] = s.todo[k]
            /\ t.visited = s.visited
            /\ DOMAIN t.known = DOMAIN s.known \cup {d}
            /\ \A i \in DOMAIN t.known : t.known[i] = IF i = d THEN Summed(es, s.known, d) ELSE s.known[i]
<1> DEFINE L == Len(s.todo)
           d == s.todo[L][1]
           E == Places(es) \X BOOLEAN
           front == SubSeq(s.todo, 1, L - 1)
           t == CloseTop(es, s)
<1>1. s.todo \in Seq(E) /\ s.visited \in SUBSET Places(es) /\ s.known \in Sums(es)
  BY DEF Tally
<1>2. L \in Nat \ {0} /\ s.todo[L] \in E
  BY <1>1
<1>3. d \in Places(es)
  BY <1>2
<1> HIDE DEF E
<1>4. front \in Seq(E) /\ Len(front) = L - 1 /\ \A k \in 1 .. L - 1 : front[k] = s.todo[k]
  BY <1>1, <1>2
<1>5. t = [todo |-> front, visited |-> s.visited, known |-> Inserted(es, s.known, d)]
  BY DEF CloseTop, Front, Last
<1> HIDE DEF front, d, t
<1>6. DOMAIN s.known \in SUBSET Places(es) /\ \A i \in DOMAIN s.known : s.known[i] \in Nat
  BY <1>1 DEF Sums
<1>7. Summed(es, s.known, d) \in Nat
  BY <1>6, SummedIs
<1>8. Inserted(es, s.known, d) \in Sums(es)
  <2>1. Inserted(es, s.known, d) \in [DOMAIN s.known \cup {d} -> Nat]
    BY <1>6, <1>7 DEF Inserted
  <2>2. DOMAIN s.known \cup {d} \in SUBSET Places(es)
    BY <1>3, <1>6
  <2> QED BY <2>1, <2>2 DEF Sums
<1>9. t \in Tally(es)
  BY <1>1, <1>4, <1>5, <1>8 DEF Tally, E
<1>10. /\ DOMAIN t.known = DOMAIN s.known \cup {d}
       /\ \A i \in DOMAIN t.known : t.known[i] = IF i = d THEN Summed(es, s.known, d) ELSE s.known[i]
  BY <1>5 DEF Inserted
<1> QED BY <1>2, <1>4, <1>5, <1>9, <1>10 DEF d, t

LEMMA TurnIs ==
  ASSUME NEW es, IsIndex(es), NEW s \in Tally(es)
  PROVE  /\ Turn(es, s) \in Tally(es)
         /\ Turn(es, s) = IF s.todo = <<>> THEN s
                          ELSE IF Last(s.todo)[2] THEN CloseTop(es, s) ELSE OpenTop(es, s)
<1>1. Turn(es, s) = IF s.todo = <<>> THEN s
                    ELSE IF Last(s.todo)[2] THEN CloseTop(es, s) ELSE OpenTop(es, s)
  BY DEF Turn, CloseTop, OpenTop
<1>2. s.todo # <<>> => OpenTop(es, s) \in Tally(es)
  BY TopOpened
<1>3. s.todo # <<>> => CloseTop(es, s) \in Tally(es)
  BY TopClosed
<1> QED BY <1>1, <1>2, <1>3

LEMMA TotalsAreBuilt ==
  ASSUME NEW es, IsIndex(es)
  PROVE  LET m == 2 * Cardinality(Places(es))
         IN \E f : /\ f \in [0 .. m -> Tally(es)] /\ f[0] = AtFirst
                   /\ \A n \in 1 .. m : f[n] = Turn(es, f[n - 1])
                   /\ TotalDirectories(es) = f[m].known
<1> DEFINE m == 2 * Cardinality(Places(es))
           Y == Tally(es)
           step == [p \in (1 .. m) \X Y |-> Turn(es, p[2])]
           eq(g) == g = [n \in 0 .. m |-> IF n = 0 THEN AtFirst ELSE Turn(es, g[n - 1])]
<1>1. IsFiniteSet(Places(es)) /\ m \in Nat
  <2>1. IsFiniteSet(Places(es))
    BY FS_AddElement DEF IsIndex, Places
  <2>2. Cardinality(Places(es)) \in Nat
    BY <2>1, FS_CardinalityType
  <2> QED BY <2>1, <2>2
<1>2. AtFirst \in Y
  <2>1. <<<<RootRecord, FALSE>>>> \in Seq(Places(es) \X BOOLEAN)
    <3> DEFINE E == Places(es) \X BOOLEAN
               one == <<RootRecord, FALSE>>
    <3>1. one \in E
      BY DEF Places
    <3> HIDE DEF E, one
    <3>2. <<one>> \in Seq(E)
      BY <3>1
    <3> QED BY <3>2 DEF E, one
  <2>2. <<>> \in [{} -> Nat]
    OBVIOUS
  <2>3. <<>> \in Sums(es)
    BY <2>2 DEF Sums
  <2>4. {RootRecord} \in SUBSET Places(es)
    BY DEF Places
  <2> QED BY <2>1, <2>3, <2>4 DEF AtFirst, Tally
<1>3. \A n \in 1 .. m, s \in Y : step[<<n, s>>] = Turn(es, s) /\ Turn(es, s) \in Y
  BY TurnIs
<1>4. step \in [(1 .. m) \X Y -> Y]
  BY TurnIs
<1> HIDE DEF m, Y, step
<1>5. PICK f : Built(f, m, Y, AtFirst, step)
  BY <1>1, <1>2, <1>4, BuiltIsThere
<1>6. eq(f)
  <2>1. f = [n \in 0 .. m |-> f[n]]
    BY <1>5 DEF Built
  <2>2. ASSUME NEW n \in 0 .. m PROVE f[n] = IF n = 0 THEN AtFirst ELSE Turn(es, f[n - 1])
    <3>1. CASE n = 0
      BY <1>5, <3>1 DEF Built
    <3>2. CASE n # 0
      <4>1. n \in 1 .. m /\ n - 1 \in 0 .. m
        BY <1>1, <3>2
      <4> QED BY <1>3, <1>5, <3>2, <4>1 DEF Built
    <3> QED BY <3>1, <3>2
  <2> QED BY <2>1, <2>2
<1> DEFINE g == CHOOSE g : eq(g)
<1>7. eq(g)
  <2> HIDE DEF eq
  <2> QED BY <1>6
<1>8. TotalDirectories(es) = g[m].known
  BY DEF TotalDirectories, m, Places, AtFirst
<1> HIDE DEF g
<1>9. g[0] = AtFirst /\ \A n \in 1 .. m : g[n] = Turn(es, g[n - 1])
  <2>1. ASSUME NEW n \in 0 .. m PROVE g[n] = IF n = 0 THEN AtFirst ELSE Turn(es, g[n - 1])
    <3> DEFINE of(k) == IF k = 0 THEN AtFirst ELSE Turn(es, g[k - 1])
    <3>1. g = [k \in 0 .. m |-> of(k)]
      BY <1>7
    <3> HIDE DEF of, eq
    <3>2. g[n] = of(n)
      BY <3>1
    <3> QED BY <3>2 DEF of
  <2>2. 0 \in 0 .. m /\ \A n \in 1 .. m : n \in 0 .. m /\ n # 0
    BY <1>1
  <2> HIDE DEF eq
  <2> QED BY <2>1, <2>2
<1>10. \A n \in 0 .. m : g[n] \in Y
  <2> DEFINE P == {n \in 0 .. m : g[n] \in Y}
  <2>1. 0 \in P
    <3>1. 0 \in 0 .. m
      BY <1>1
    <3> QED BY <1>2, <1>9, <3>1
  <2>2. ASSUME NEW n \in 1 .. m, n - 1 \in P PROVE n \in P
    <3>1. n \in 0 .. m
      BY <1>1
    <3> QED BY <1>3, <1>9, <2>2, <3>1
  <2> HIDE DEF P
  <2>3. \A n \in 0 .. m : n \in P
    BY <1>1, <2>1, <2>2, Upto
  <2> QED BY <2>3 DEF P
<1>11. g \in [0 .. m -> Y]
  <2> DEFINE of(k) == IF k = 0 THEN AtFirst ELSE Turn(es, g[k - 1])
  <2>1. g = [k \in 0 .. m |-> of(k)]
    BY <1>7
  <2> HIDE DEF of, eq
  <2>2. g = [k \in 0 .. m |-> g[k]]
    BY <2>1
  <2> QED BY <1>10, <2>2
<1>12. \E h : /\ h \in [0 .. m -> Y] /\ h[0] = AtFirst
              /\ (\A n \in 1 .. m : h[n] = Turn(es, h[n - 1]))
              /\ TotalDirectories(es) = h[m].known
  <2> HIDE DEF eq
  <2> QED BY <1>8, <1>9, <1>11
<1> QED BY <1>12 DEF m, Y

OnStack(s) == {s.todo[a][1] : a \in DOMAIN s.todo}

Marked(s) == {a \in DOMAIN s.todo : s.todo[a][2] = TRUE}

Opened(s) == DOMAIN s.known \cup {s.todo[a][1] : a \in Marked(s)}

\* What holds of the loop after each turn.  A folder that was met is on the
\* stack once or has its total, and whatever is in a marked one lies above it or
\* has its own.
Sound(es, s) ==
  /\ s \in Tally(es)
  /\ s.visited \subseteq FoldersOf(es) /\ RootRecord \in s.visited
  /\ s.visited = DOMAIN s.known \cup OnStack(s)
  /\ DOMAIN s.known \cap OnStack(s) = {}
  /\ \A a, b \in DOMAIN s.todo : s.todo[a][1] = s.todo[b][1] => a = b
  /\ \A c \in s.visited \ {RootRecord} : es[c].parent \in Opened(s)
  /\ \A d \in DOMAIN s.known : DirectoriesIn(es, d) \subseteq DOMAIN s.known
  /\ \A d \in DOMAIN s.known : s.known[d] = BytesOf(es, TreeFiles(es, d))
  /\ \A a \in Marked(s) : \A c \in DirectoriesIn(es, s.todo[a][1]) :
       c \in DOMAIN s.known \/ \E b \in DOMAIN s.todo : b > a /\ s.todo[b][1] = c

\* A folder is counted when it is opened and again when it has its total.
Counted(s) == Cardinality(DOMAIN s.known) + Cardinality(Opened(s))

LEMMA StackIs ==
  ASSUME NEW es, NEW s \in Tally(es)
  PROVE  /\ Len(s.todo) \in Nat /\ DOMAIN s.todo = 1 .. Len(s.todo)
         /\ \A a \in DOMAIN s.todo : s.todo[a] \in Places(es) \X BOOLEAN
         /\ \A a \in DOMAIN s.todo : s.todo[a] = <<s.todo[a][1], s.todo[a][2]>>
<1> DEFINE E == Places(es) \X BOOLEAN
<1>1. s.todo \in Seq(E)
  BY DEF Tally
<1>2. Len(s.todo) \in Nat /\ DOMAIN s.todo = 1 .. Len(s.todo) /\ \A a \in DOMAIN s.todo : s.todo[a] \in E
  <2> HIDE DEF E
  <2> QED BY <1>1
<1>3. \A e \in E : e = <<e[1], e[2]>>
  OBVIOUS
<1> QED BY <1>2, <1>3

LEMMA OpeningIsSound ==
  ASSUME NEW es, IsIndex(es), NEW s, Sound(es, s), s.todo # <<>>, ~Last(s.todo)[2]
  PROVE  Sound(es, OpenTop(es, s)) /\ Counted(OpenTop(es, s)) = Counted(s) + 1
<1> DEFINE L == Len(s.todo)
           d == s.todo[L][1]
           V == s.visited
           ms == Met(es, V, d)
           M == Len(ms)
           t == OpenTop(es, s)
           more == DirectoriesIn(es, d)
           S == s.todo
           T == t.todo
           K == DOMAIN s.known
<1>1. s \in Tally(es)
  BY DEF Sound
<1>2. /\ t \in Tally(es) /\ Len(T) = L + M /\ L \in Nat \ {0} /\ M \in Nat
      /\ \A k \in 1 .. L - 1 : T[k] = S[k]
      /\ T[L] = <<d, TRUE>>
      /\ \A k \in 1 .. M : T[L + k] = ms[k]
      /\ t.visited = s.visited \cup more /\ t.known = s.known
  BY <1>1, TopOpened
<1>3. /\ DOMAIN S = 1 .. L /\ DOMAIN T = 1 .. L + M /\ L \in DOMAIN S
      /\ \A a \in DOMAIN S : S[a][2] \in BOOLEAN
  <2>1. DOMAIN S = 1 .. L /\ \A a \in DOMAIN S : S[a] \in Places(es) \X BOOLEAN
    BY <1>1, StackIs
  <2> HIDE DEF t
  <2>2. DOMAIN T = 1 .. Len(T)
    BY <1>2, StackIs
  <2> HIDE DEF S, L, T, M
  <2>3. L \in 1 .. L
    BY <1>2
  <2>4. \A e \in Places(es) \X BOOLEAN : e[2] \in BOOLEAN
    OBVIOUS
  <2> QED BY <1>2, <2>1, <2>2, <2>3, <2>4
<1>4. S[L][2] = FALSE /\ d = S[L][1]
  BY <1>3 DEF Last
<1> HIDE DEF d, t
<1>5. /\ \A k \in 1 .. M : ms[k][1] \in more \ V /\ ms[k][2] = FALSE
      /\ \A c \in more \ V : \E k \in 1 .. M : ms[k][1] = c
      /\ \A j, k \in 1 .. M : ms[j][1] = ms[k][1] => j = k
  <2> HIDE DEF V
  <2> QED BY MetIs
<1> HIDE DEF ms, M, L, S, T
<1> DEFINE low == 1 .. L
           high == L + 1 .. L + M
<1>6. DOMAIN T = low \cup high /\ low \cap high = {} /\ L \in low /\ 1 .. L - 1 \subseteq low
      /\ \A a \in low, b \in high : b > a
  BY <1>2, <1>3
<1>7. \A a \in low : T[a][1] = S[a][1] /\ (T[a][2] = TRUE <=> (a = L \/ S[a][2] = TRUE))
  <2> SUFFICES ASSUME NEW a \in low PROVE T[a][1] = S[a][1] /\ (T[a][2] = TRUE <=> (a = L \/ S[a][2] = TRUE))
    OBVIOUS
  <2>1. CASE a = L
    <3>1. T[a] = <<d, TRUE>>
      BY <1>2, <2>1
    <3>2. T[a][1] = d /\ T[a][2] = TRUE
      <4> HIDE DEF T
      <4> QED BY <3>1
    <3> QED BY <1>4, <2>1, <3>2
  <2>2. CASE a # L
    <3>1. a \in 1 .. L - 1
      BY <1>2, <2>2
    <3> QED BY <1>2, <2>2, <3>1
  <2> QED BY <2>1, <2>2
<1> DEFINE in(b) == b - L
<1>8. ASSUME NEW b \in high PROVE in(b) \in 1 .. M /\ T[b] = ms[in(b)] /\ T[b][1] \in more \ V /\ T[b][2] = FALSE
  <2>1. in(b) \in 1 .. M /\ L + in(b) = b
    BY <1>2
  <2> HIDE DEF in, high
  <2>2. T[L + in(b)] = ms[in(b)]
    BY <1>2, <2>1
  <2> QED BY <1>5, <2>1, <2>2
<1>9. ASSUME NEW c \in more \ V PROVE \E b \in high : T[b][1] = c
  <2>1. PICK k \in 1 .. M : ms[k][1] = c
    BY <1>5
  <2>2. L + k \in high
    BY <1>2
  <2>3. T[L + k] = ms[k]
    BY <1>2
  <2> HIDE DEF high
  <2> QED BY <2>1, <2>2, <2>3
<1>10. ASSUME NEW a \in high, NEW b \in high, T[a][1] = T[b][1] PROVE a = b
  <2>1. in(a) \in 1 .. M /\ in(b) \in 1 .. M /\ ms[in(a)][1] = ms[in(b)][1]
    <3> HIDE DEF in, high
    <3> QED BY <1>8, <1>10
  <2>2. in(a) = in(b)
    <3> HIDE DEF in
    <3> QED BY <1>5, <2>1
  <2>3. a \in Int /\ b \in Int
    BY <1>2
  <2> QED BY <1>2, <2>2, <2>3
<1> HIDE DEF in
<1>11. OnStack(s) = {S[a][1] : a \in low} /\ OnStack(t) = {T[a][1] : a \in low \cup high}
  BY <1>3, <1>6 DEF OnStack, S, T
<1>12. /\ Marked(s) = {a \in low : S[a][2] = TRUE} /\ Marked(t) = {a \in low \cup high : T[a][2] = TRUE}
       /\ Opened(s) = K \cup {S[a][1] : a \in Marked(s)} /\ Opened(t) = K \cup {T[a][1] : a \in Marked(t)}
  BY <1>2, <1>3, <1>6 DEF Marked, Opened, S, T
<1> HIDE DEF low, high, more, V, K
<1>13. Marked(t) = Marked(s) \cup {L} /\ L \notin Marked(s) /\ Marked(s) \subseteq low
  <2>1. \A b \in high : T[b][2] # TRUE
    BY <1>8
  <2>2. \A a : a \in Marked(t) <=> a \in Marked(s) \cup {L}
    BY <1>6, <1>7, <1>12, <2>1
  <2> QED BY <1>4, <1>12, <2>2
<1>14. /\ OnStack(t) = OnStack(s) \cup (more \ V) /\ Opened(t) = Opened(s) \cup {d} /\ d \in OnStack(s)
  <2>1. OnStack(t) = {T[a][1] : a \in low} \cup {T[a][1] : a \in high}
    BY <1>11
  <2>2. {T[a][1] : a \in low} = OnStack(s)
    BY <1>7, <1>11
  <2>3. {T[a][1] : a \in high} = more \ V
    <3>1. \A b \in high : T[b][1] \in more \ V
      BY <1>8
    <3>2. \A c \in more \ V : \E b \in high : T[b][1] = c
      BY <1>9
    <3> QED BY <3>1, <3>2
  <2>4. {T[a][1] : a \in Marked(t)} = {S[a][1] : a \in Marked(s)} \cup {d}
    BY <1>4, <1>6, <1>7, <1>13
  <2> QED BY <1>4, <1>6, <1>11, <1>12, <2>1, <2>2, <2>3, <2>4
<1>15. /\ V \subseteq FoldersOf(es) /\ RootRecord \in V /\ V = K \cup OnStack(s) /\ K \cap OnStack(s) = {}
       /\ \A a, b \in low : S[a][1] = S[b][1] => a = b
       /\ \A c \in V \ {RootRecord} : es[c].parent \in Opened(s)
       /\ \A a \in Marked(s) : \A c \in DirectoriesIn(es, S[a][1]) :
            c \in K \/ \E b \in low : b > a /\ S[b][1] = c
  BY <1>3 DEF Sound, S, K, V, low
<1>16. d \in FoldersOf(es) /\ d \notin K /\ d \notin Opened(s)
  <2>1. d \notin {S[a][1] : a \in Marked(s)}
    BY <1>4, <1>6, <1>13, <1>15
  <2>2. d \in V /\ d \notin K
    BY <1>14, <1>15
  <2> QED BY <1>12, <1>15, <2>1, <2>2
<1>17. more \subseteq FoldersOf(es) /\ RootRecord \notin more /\ \A c \in more : es[c].parent = d
  BY <1>16, ChildIsInTree DEF more, DirectoriesIn, ChildrenOf, FoldersOf
<1>18. more \cap V = {}
  <2> SUFFICES ASSUME NEW c \in more, c \in V PROVE FALSE
    OBVIOUS
  <2>1. es[c].parent \in Opened(s)
    BY <1>15, <1>17
  <2> QED BY <1>16, <1>17, <2>1
<1>19. t.visited = DOMAIN t.known \cup OnStack(t) /\ DOMAIN t.known \cap OnStack(t) = {}
  BY <1>2, <1>14, <1>15, <1>18 DEF V, K
<1>20. \A a, b \in DOMAIN T : T[a][1] = T[b][1] => a = b
  <2> SUFFICES ASSUME NEW a \in low \cup high, NEW b \in low \cup high, T[a][1] = T[b][1] PROVE a = b
    BY <1>6
  <2>1. \A x \in low : T[x][1] \in V
    BY <1>7, <1>11, <1>15
  <2>2. \A x \in high : T[x][1] \notin V
    BY <1>8
  <2>3. CASE a \in low /\ b \in low
    BY <1>7, <1>15, <2>3
  <2>4. CASE a \in high /\ b \in high
    BY <1>10, <2>4
  <2> HIDE DEF low, high
  <2> QED BY <2>1, <2>2, <2>3, <2>4
<1>21. \A c \in t.visited \ {RootRecord} : es[c].parent \in Opened(t)
  BY <1>2, <1>14, <1>15, <1>17 DEF V
<1>22. \A a \in Marked(t) : \A c \in DirectoriesIn(es, T[a][1]) :
         c \in DOMAIN t.known \/ \E b \in DOMAIN T : b > a /\ T[b][1] = c
  <2> SUFFICES ASSUME NEW a \in Marked(t), NEW c \in DirectoriesIn(es, T[a][1])
               PROVE  c \in K \/ \E b \in DOMAIN T : b > a /\ T[b][1] = c
    BY <1>2 DEF K
  <2>1. CASE a = L
    <3>1. c \in more
      BY <1>4, <1>6, <1>7, <2>1 DEF more
    <3>2. PICK b \in high : T[b][1] = c
      BY <1>9, <1>18, <3>1
    <3> QED BY <1>6, <2>1, <3>2
  <2>2. CASE a # L
    <3>1. a \in Marked(s) /\ a \in low
      BY <1>13, <2>2
    <3>2. c \in DirectoriesIn(es, S[a][1])
      BY <1>7, <3>1
    <3>3. c \in K \/ \E b \in low : b > a /\ S[b][1] = c
      BY <1>15, <3>1, <3>2
    <3>4. \A b \in low : b \in DOMAIN T /\ T[b][1] = S[b][1]
      BY <1>6, <1>7
    <3> HIDE DEF low
    <3> QED BY <3>3, <3>4
  <2> QED BY <2>1, <2>2
<1>23. Sound(es, t)
  <2>1. t.visited \subseteq FoldersOf(es) /\ RootRecord \in t.visited
    BY <1>2, <1>15, <1>17 DEF V
  <2>2. /\ \A i \in DOMAIN t.known : DirectoriesIn(es, i) \subseteq DOMAIN t.known
        /\ \A i \in DOMAIN t.known : t.known[i] = BytesOf(es, TreeFiles(es, i))
    BY <1>2 DEF Sound
  <2> QED BY <1>2, <1>19, <1>20, <1>21, <1>22, <2>1, <2>2 DEF Sound, T
<1>24. Counted(t) = Counted(s) + 1
  <2>1. Opened(s) \in SUBSET Places(es)
    <3>1. {S[a][1] : a \in Marked(s)} \subseteq OnStack(s)
      BY <1>11, <1>13
    <3>2. Opened(s) \subseteq V
      BY <1>12, <1>15, <3>1
    <3> QED BY <1>15, <3>2 DEF FoldersOf, Places
  <2>2. IsFiniteSet(Places(es))
    BY FS_AddElement DEF Places, IsIndex
  <2>3. IsFiniteSet(Opened(s)) /\ Cardinality(Opened(s)) \in Nat
    BY <2>1, <2>2, FS_Subset, FS_CardinalityType
  <2>4. Cardinality(Opened(t)) = Cardinality(Opened(s)) + 1
    BY <1>14, <1>16, <2>3, FS_AddElement
  <2>5. K \in SUBSET Places(es)
    BY <1>15 DEF FoldersOf, Places
  <2>6. Cardinality(K) \in Nat
    BY <2>2, <2>5, FS_Subset, FS_CardinalityType
  <2> QED BY <1>2, <2>3, <2>4, <2>6 DEF Counted, K
<1> QED BY <1>23, <1>24 DEF t

LEMMA ClosingIsSound ==
  ASSUME NEW es, IsIndex(es), NEW s, Sound(es, s), s.todo # <<>>, Last(s.todo)[2]
  PROVE  Sound(es, CloseTop(es, s)) /\ Counted(CloseTop(es, s)) = Counted(s) + 1
<1> DEFINE L == Len(s.todo)
           d == s.todo[L][1]
           V == s.visited
           t == CloseTop(es, s)
           S == s.todo
           T == t.todo
           K == DOMAIN s.known
           low == 1 .. L - 1
<1>1. s \in Tally(es)
  BY DEF Sound
<1>2. /\ t \in Tally(es) /\ Len(T) = L - 1 /\ L \in Nat \ {0}
      /\ \A k \in low : T[k] = S[k]
      /\ t.visited = V
      /\ DOMAIN t.known = K \cup {d}
      /\ \A i \in DOMAIN t.known : t.known[i] = IF i = d THEN Summed(es, s.known, d) ELSE s.known[i]
  BY <1>1, TopClosed
<1>3. /\ DOMAIN S = low \cup {L} /\ DOMAIN T = low /\ L \notin low
      /\ \A b \in low : ~(b > L)
      /\ \A a \in DOMAIN S : S[a][2] \in BOOLEAN
  <2>1. DOMAIN S = 1 .. L /\ \A a \in DOMAIN S : S[a] \in Places(es) \X BOOLEAN
    BY <1>1, StackIs
  <2> HIDE DEF t
  <2>2. DOMAIN T = 1 .. Len(T)
    BY <1>2, StackIs
  <2> HIDE DEF S, L, T
  <2>3. 1 .. L = low \cup {L} /\ L \notin low /\ \A b \in low : ~(b > L)
    BY <1>2
  <2>4. \A e \in Places(es) \X BOOLEAN : e[2] \in BOOLEAN
    OBVIOUS
  <2> QED BY <1>2, <2>1, <2>2, <2>3, <2>4
<1>4. S[L][2] = TRUE /\ d = S[L][1]
  BY <1>3 DEF Last
<1>5. ~(L > L)
  BY <1>2
<1> HIDE DEF d, t, L, S, T
<1>6. OnStack(s) = {S[a][1] : a \in low \cup {L}} /\ OnStack(t) = {T[a][1] : a \in low}
  BY <1>3 DEF OnStack, S, T
<1>7. /\ Marked(s) = {a \in low \cup {L} : S[a][2] = TRUE} /\ Marked(t) = {a \in low : T[a][2] = TRUE}
      /\ Opened(s) = K \cup {S[a][1] : a \in Marked(s)} /\ Opened(t) = K \cup {d} \cup {T[a][1] : a \in Marked(t)}
  BY <1>2, <1>3 DEF Marked, Opened, S, T
<1>8. /\ V \subseteq FoldersOf(es) /\ RootRecord \in V /\ V = K \cup OnStack(s) /\ K \cap OnStack(s) = {}
      /\ \A a, b \in low \cup {L} : S[a][1] = S[b][1] => a = b
      /\ \A c \in V \ {RootRecord} : es[c].parent \in Opened(s)
      /\ \A i \in K : DirectoriesIn(es, i) \subseteq K
      /\ \A i \in K : s.known[i] = BytesOf(es, TreeFiles(es, i))
      /\ \A a \in Marked(s) : \A c \in DirectoriesIn(es, S[a][1]) :
           c \in K \/ \E b \in low \cup {L} : b > a /\ S[b][1] = c
  <2> DEFINE D == low \cup {L}
  <2>1. D = DOMAIN s.todo
    BY <1>3 DEF S
  <2> HIDE DEF D
  <2>2. \A a, b \in D : S[a][1] = S[b][1] => a = b
    BY <2>1 DEF Sound, S
  <2>3. \A a \in Marked(s) : \A c \in DirectoriesIn(es, S[a][1]) :
          c \in K \/ \E b \in D : b > a /\ S[b][1] = c
    BY <2>1 DEF Sound, S
  <2>4. /\ V \subseteq FoldersOf(es) /\ RootRecord \in V /\ V = K \cup OnStack(s) /\ K \cap OnStack(s) = {}
        /\ \A c \in V \ {RootRecord} : es[c].parent \in Opened(s)
        /\ \A i \in K : DirectoriesIn(es, i) \subseteq K
        /\ \A i \in K : s.known[i] = BytesOf(es, TreeFiles(es, i))
    BY DEF Sound
  <2> HIDE DEF V, K, low
  <2> QED BY <2>2, <2>3, <2>4 DEF D
<1> HIDE DEF low, V, K
<1>9. Marked(s) = Marked(t) \cup {L} /\ Marked(t) \subseteq low
  <2>1. \A a : a \in Marked(s) <=> a \in Marked(t) \cup {L}
    BY <1>2, <1>4, <1>7
  <2> QED BY <1>7, <2>1
<1>10. OnStack(s) = OnStack(t) \cup {d} /\ d \notin OnStack(t)
  <2>1. OnStack(t) = {S[a][1] : a \in low}
    BY <1>2, <1>6
  <2>2. d \notin {S[a][1] : a \in low}
    BY <1>3, <1>4, <1>8
  <2> QED BY <1>4, <1>6, <2>1, <2>2
<1>11. Opened(t) = Opened(s)
  <2>1. {T[a][1] : a \in Marked(t)} = {S[a][1] : a \in Marked(t)}
    BY <1>2, <1>9
  <2>2. {S[a][1] : a \in Marked(s)} = {S[a][1] : a \in Marked(t)} \cup {d}
    BY <1>4, <1>9
  <2> QED BY <1>7, <2>1, <2>2
<1>12. d \in FoldersOf(es) /\ d \notin K
  BY <1>8, <1>10
<1>13. DirectoriesIn(es, d) \subseteq K
  BY <1>3, <1>4, <1>5, <1>8, <1>9
<1>14. Summed(es, s.known, d) = BytesOf(es, TreeFiles(es, d))
  <2>1. \A i \in DOMAIN s.known : s.known[i] = BytesOf(es, TreeFiles(es, i))
    BY <1>8 DEF K
  <2>2. DirectoriesIn(es, d) \subseteq DOMAIN s.known
    BY <1>13 DEF K
  <2> QED BY <1>12, <2>1, <2>2, SumIsTrue
<1>15. \A a \in Marked(t) : \A c \in DirectoriesIn(es, T[a][1]) :
         c \in DOMAIN t.known \/ \E b \in DOMAIN T : b > a /\ T[b][1] = c
  <2> SUFFICES ASSUME NEW a \in Marked(t), NEW c \in DirectoriesIn(es, T[a][1])
               PROVE  c \in K \cup {d} \/ \E b \in low : b > a /\ T[b][1] = c
    BY <1>2, <1>3
  <2>1. T[a][1] = S[a][1] /\ a \in Marked(s)
    BY <1>2, <1>9
  <2>2. c \in K \/ \E b \in low \cup {L} : b > a /\ S[b][1] = c
    BY <1>8, <2>1
  <2> QED BY <1>2, <1>4, <2>2
<1>16. Sound(es, t)
  <2>1. t.visited \subseteq FoldersOf(es) /\ RootRecord \in t.visited
    BY <1>2, <1>8
  <2>2. t.visited = DOMAIN t.known \cup OnStack(t) /\ DOMAIN t.known \cap OnStack(t) = {}
    BY <1>2, <1>8, <1>10
  <2>3. \A a, b \in DOMAIN T : T[a][1] = T[b][1] => a = b
    BY <1>2, <1>3, <1>8
  <2>4. \A c \in t.visited \ {RootRecord} : es[c].parent \in Opened(t)
    BY <1>2, <1>8, <1>11
  <2>5. \A i \in DOMAIN t.known : DirectoriesIn(es, i) \subseteq DOMAIN t.known
    BY <1>2, <1>8, <1>13
  <2>6. \A i \in DOMAIN t.known : t.known[i] = BytesOf(es, TreeFiles(es, i))
    BY <1>2, <1>8, <1>14
  <2> QED BY <1>2, <1>15, <2>1, <2>2, <2>3, <2>4, <2>5, <2>6 DEF Sound, T
<1>17. Counted(t) = Counted(s) + 1
  <2>1. K \in SUBSET Places(es)
    BY <1>8 DEF FoldersOf, Places
  <2>2. IsFiniteSet(Places(es))
    BY FS_AddElement DEF Places, IsIndex
  <2>3. IsFiniteSet(K) /\ Cardinality(K) \in Nat
    BY <2>1, <2>2, FS_Subset, FS_CardinalityType
  <2>4. Cardinality(K \cup {d}) = Cardinality(K) + 1
    BY <1>12, <2>3, FS_AddElement
  <2>5. Opened(s) \in SUBSET Places(es)
    <3>1. {S[a][1] : a \in Marked(s)} \subseteq OnStack(s)
      BY <1>6, <1>7
    <3>2. Opened(s) \subseteq V
      BY <1>7, <1>8, <3>1
    <3> QED BY <1>8, <3>2 DEF FoldersOf, Places
  <2>6. Cardinality(Opened(s)) \in Nat
    BY <2>2, <2>5, FS_Subset, FS_CardinalityType
  <2> QED BY <1>2, <1>11, <2>3, <2>4, <2>6 DEF Counted, K
<1> QED BY <1>16, <1>17 DEF t

LEMMA LoopIsSound ==
  ASSUME NEW es, IsIndex(es)
  PROVE  \E s : Sound(es, s) /\ s.todo = <<>> /\ TotalDirectories(es) = s.known
<1> DEFINE N == Cardinality(Places(es))
           m == 2 * N
<1>1. PICK f : /\ f \in [0 .. m -> Tally(es)] /\ f[0] = AtFirst
               /\ \A n \in 1 .. m : f[n] = Turn(es, f[n - 1])
               /\ TotalDirectories(es) = f[m].known
  BY TotalsAreBuilt
<1>2. IsFiniteSet(Places(es)) /\ N \in Nat
  BY FS_AddElement, FS_CardinalityType DEF IsIndex, Places
<1>3. m \in Nat /\ 0 \in 0 .. m /\ m \in 0 .. m
  BY <1>2
<1> HIDE DEF m, N
<1> DEFINE P == {n \in 0 .. m : Sound(es, f[n]) /\ (f[n].todo # <<>> => Counted(f[n]) = n)}
<1>4. 0 \in P
  <2>1. /\ AtFirst.todo = <<<<RootRecord, FALSE>>>> /\ AtFirst.visited = {RootRecord}
        /\ AtFirst.known = <<>>
    BY DEF AtFirst
  <2>8. DOMAIN AtFirst.known = {}
    BY <2>1
  <2>2. DOMAIN AtFirst.todo = {1} /\ AtFirst.todo[1][1] = RootRecord /\ AtFirst.todo[1][2] = FALSE
    BY <2>1
  <2>3. OnStack(AtFirst) = {RootRecord} /\ Marked(AtFirst) = {} /\ Opened(AtFirst) = {}
    BY <2>2, <2>8 DEF OnStack, Marked, Opened
  <2>4. AtFirst \in Tally(es)
    BY <1>1, <1>3
  <2>5. RootRecord \in FoldersOf(es)
    BY DEF FoldersOf
  <2>6. Sound(es, AtFirst)
    BY <2>1, <2>2, <2>3, <2>4, <2>5, <2>8 DEF Sound
  <2>7. Counted(AtFirst) = 0
    BY <2>3, <2>8, FS_EmptySet DEF Counted
  <2> QED BY <1>1, <1>3, <2>6, <2>7
<1>5. ASSUME NEW n \in 1 .. m, n - 1 \in P PROVE n \in P
  <2>1. n \in 0 .. m /\ n - 1 \in 0 .. m /\ n - 1 + 1 = n
    BY <1>3
  <2> DEFINE s == f[n - 1]
  <2>2. Sound(es, s) /\ (s.todo # <<>> => Counted(s) = n - 1)
    BY <1>5
  <2>3. f[n] = Turn(es, s) /\ s \in Tally(es)
    BY <1>1, <2>1
  <2> HIDE DEF s
  <2>4. f[n] = IF s.todo = <<>> THEN s ELSE IF Last(s.todo)[2] THEN CloseTop(es, s) ELSE OpenTop(es, s)
    BY <2>3, TurnIs
  <2>5. CASE s.todo = <<>>
    <3>1. f[n] = s
      BY <2>4, <2>5
    <3> QED BY <2>1, <2>2, <2>5, <3>1
  <2>6. CASE s.todo # <<>> /\ Last(s.todo)[2]
    <3>1. f[n] = CloseTop(es, s)
      BY <2>4, <2>6
    <3>2. Sound(es, f[n]) /\ Counted(f[n]) = Counted(s) + 1
      BY <2>2, <2>6, <3>1, ClosingIsSound
    <3>3. Counted(f[n]) = n
      BY <2>1, <2>2, <2>6, <3>2
    <3> QED BY <2>1, <3>2, <3>3
  <2>7. CASE s.todo # <<>> /\ ~Last(s.todo)[2]
    <3>1. f[n] = OpenTop(es, s)
      BY <2>4, <2>7
    <3>2. Sound(es, f[n]) /\ Counted(f[n]) = Counted(s) + 1
      BY <2>2, <2>7, <3>1, OpeningIsSound
    <3>3. Counted(f[n]) = n
      BY <2>1, <2>2, <2>7, <3>2
    <3> QED BY <2>1, <3>2, <3>3
  <2> QED BY <2>5, <2>6, <2>7
<1>6. m \in P
  <2> HIDE DEF P
  <2> QED BY <1>3, <1>4, <1>5, Upto
<1> DEFINE s == f[m]
<1>7. Sound(es, s) /\ (s.todo # <<>> => Counted(s) = m)
  BY <1>6
<1> HIDE DEF s, P
<1>8. s.todo = <<>>
  <2> SUFFICES ASSUME s.todo # <<>> PROVE FALSE
    OBVIOUS
  <2> DEFINE L == Len(s.todo)
             d == s.todo[L][1]
             K == DOMAIN s.known
             O == Opened(s)
  <2>1. s \in Tally(es)
    BY <1>7 DEF Sound
  <2>2. L \in DOMAIN s.todo
    <3>1. L \in Nat /\ DOMAIN s.todo = 1 .. L
      BY <2>1, StackIs
    <3>2. L # 0
      BY <2>1 DEF Tally
    <3> HIDE DEF L
    <3> QED BY <3>1, <3>2
  <2> HIDE DEF L
  <2>3. d \in OnStack(s)
    BY <2>2 DEF OnStack
  <2>4. OnStack(s) \subseteq s.visited /\ d \notin K /\ s.visited \subseteq Places(es) /\ K \subseteq s.visited
    BY <1>7, <2>3 DEF Sound, FoldersOf, Places
  <2>5. O \subseteq Places(es)
    <3>1. O \subseteq K \cup OnStack(s)
      BY DEF Opened, OnStack, Marked
    <3> HIDE DEF O
    <3> QED BY <2>4, <3>1
  <2>6. K \in SUBSET (Places(es) \ {d}) /\ d \in Places(es)
    BY <2>3, <2>4
  <2> HIDE DEF K, O, d
  <2>7. IsFiniteSet(Places(es) \ {d}) /\ Cardinality(Places(es) \ {d}) = N - 1
    BY <1>2, <2>6, FS_RemoveElement DEF N
  <2>8. Cardinality(K) <= N - 1 /\ Cardinality(K) \in Nat
    <3> DEFINE less == Places(es) \ {d}
    <3>1. K \in SUBSET less /\ IsFiniteSet(less) /\ Cardinality(less) = N - 1
      BY <2>6, <2>7
    <3> HIDE DEF less
    <3> QED BY <3>1, FS_Subset, FS_CardinalityType
  <2>9. Cardinality(O) <= N /\ Cardinality(O) \in Nat
    BY <1>2, <2>5, FS_Subset, FS_CardinalityType DEF N
  <2>10. Cardinality(K) + Cardinality(O) = 2 * N
    BY <1>7 DEF Counted, m, K, O
  <2> QED BY <1>2, <2>8, <2>9, <2>10
<1> QED BY <1>1, <1>7, <1>8 DEF s

LEMMA TotalsTrue ==
  ASSUME NEW es, IsIndex(es)
  PROVE  TotalsAreTrue(es)
<1>1. PICK s : Sound(es, s) /\ s.todo = <<>> /\ TotalDirectories(es) = s.known
  BY LoopIsSound
<1>2. OnStack(s) = {}
  BY <1>1 DEF OnStack
<1>3. /\ s.visited = DOMAIN s.known /\ DOMAIN s.known \subseteq FoldersOf(es) /\ RootRecord \in DOMAIN s.known
      /\ \A d \in DOMAIN s.known : DirectoriesIn(es, d) \subseteq DOMAIN s.known
      /\ \A d \in DOMAIN s.known : s.known[d] = BytesOf(es, TreeFiles(es, d))
  BY <1>1, <1>2 DEF Sound
<1>4. FoldersOf(es) \subseteq DOMAIN s.known
  BY <1>3, AllReached
<1>5. ASSUME NEW d \in DOMAIN es \cup {RootRecord}
      PROVE  TotalBeneath(es, d) = IF d = RootRecord \/ (es[d].folder /\ InTree(es, d))
                                   THEN BytesOf(es, TreeFiles(es, d)) ELSE 0
  <2>1. TotalBeneath(es, d) = IF d \in DOMAIN s.known THEN s.known[d] ELSE 0
    BY <1>1 DEF TotalBeneath
  <2>2. d \in DOMAIN s.known <=> (d = RootRecord \/ (es[d].folder /\ InTree(es, d)))
    BY <1>3, <1>4 DEF FoldersOf
  <2> QED BY <1>3, <2>1, <2>2
<1> QED BY <1>5 DEF TotalsAreTrue

-----------------------------------------------------------------------------
IndexInv == Asked /\ (study = "table" => TableInv)

LEMMA IndexFollows == IndexInv => IndexIsTrue
<1> SUFFICES ASSUME IndexInv PROVE IndexIsTrue
  OBVIOUS
<1>1. TableIsRead
  BY TableAnswers DEF IndexInv, TableIsRead
<1>2. TotalsCountOnce
  <2> SUFFICES ASSUME study = "footprints" PROVE OneTotalCountsOnce(input)
    BY DEF TotalsCountOnce
  <2>1. study \in Questions /\ input \in Inputs.footprints
    BY DEF IndexInv, Asked, Running
  <2>2. IsFiniteSet(input) /\ input \subseteq App
    BY <2>1, InputsAssumption
  <2> QED BY <2>2, TotalsOnce
<1>3. study = "volume" => IsIndex(input)
  <2> SUFFICES ASSUME study = "volume" PROVE IsIndex(input)
    OBVIOUS
  <2>1. study \in Questions /\ input \in Inputs.volume
    BY DEF IndexInv, Asked, Running
  <2> QED BY <2>1, InputsAssumption DEF IsIndex, Entry
<1>4. FoldersAddUp
  BY <1>3, TotalsTrue DEF FoldersAddUp
<1>5. RecordsAreFound
  BY <1>3, RecordsFound DEF RecordsAreFound
<1> QED BY <1>1, <1>2, <1>4, <1>5 DEF IndexIsTrue

\* What the index says of the disk is so: whichever parser is done first, a table
\* read to its end is the table on the disk; a folder's total is the bytes of the
\* files below it, each once, and an application's counts no byte twice; and a
\* path that was rebuilt leads back to its record (mft.rs: read; index.rs:
\* total_directories, path_of, resolve; apps.rs: footprints).
THEOREM IndexIsTrueAlways == DecisionsSpec => []IndexIsTrue
<1>1. Init => IndexInv
  BY AskedStarts, TableStarts DEF Init, IndexInv
<1>2. IndexInv /\ [Next]_vars => IndexInv'
  <2> SUFFICES ASSUME IndexInv, [Next]_vars PROVE IndexInv'
    OBVIOUS
  <2>1. study' = "table" => study = "table" /\ (TableNext \/ UNCHANGED tableVars)
    BY InputsAssumption DEF Next, vars, Ask, Running
  <2>2. Asked'
    BY AskedStep DEF IndexInv
  <2>3. (study = "table" => TableInv)'
    BY <2>1, TableStep, TableStays DEF IndexInv
  <2> QED BY <2>2, <2>3 DEF IndexInv
<1> QED BY <1>1, <1>2, IndexFollows, PTL DEF DecisionsSpec
=============================================================================
